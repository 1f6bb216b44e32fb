\* Baselines of four runs of S3 and three of mtr, and windows of two, over
\* every series of six runs of S3 and of five runs of mtr.
SPECIFICATION Spec
CONSTANTS
  BaselineN = 4
  LastN = 3
  MinDelta = 100
  BurstN = 2
  BurstWindow = 1
  MttrWindow = 2
  ErrorPct = 60
  RecoveryPct = 5
  Times = {100, 300, 500}
  Gaps = {0, 1}
  MaxS3 = 6
  MaxMtr = 5
  None = None
INVARIANTS SpikesJudged BurstExact MttrExact DarkIsCritical AsymmetrySettles
CHECK_DEADLOCK FALSE
