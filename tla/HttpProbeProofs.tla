-------------------------- MODULE HttpProbeProofs ---------------------------
(***************************************************************************)
(* Proofs about HttpProbe, for any number of redirects, samples, steps and *)
(* cookies: the stack of nested probes and the sockets it holds, then what *)
(* a transaction has gathered when it is recorded.                         *)
(***************************************************************************)
EXTENDS HttpProbe, FiniteSetTheorems, SequenceTheorems, TLAPS

Stages == {"parse", "resolve", "connect", "tls", "http", "redirecting"}
FrameType == [url : Urls, at : Stages, open : BOOLEAN]

-----------------------------------------------------------------------------
(* Sockets of a stack *)

OpenSet(fs) == {i \in DOMAIN fs : fs[i].open}

LEMMA OpenSetFinite ==
  ASSUME NEW fs \in Seq(FrameType)
  PROVE  /\ IsFiniteSet(OpenSet(fs)) /\ OpenSet(fs) \in SUBSET (1..Len(fs))
         /\ Opened(fs) \in Nat /\ Opened(fs) <= Len(fs)
<1> DEFINE D == 1..Len(fs)
<1>1. Len(fs) \in Nat /\ DOMAIN fs = D
  OBVIOUS
<1>2. IsFiniteSet(D) /\ Cardinality(D) = Len(fs)
  BY <1>1, FS_Interval
<1>3. OpenSet(fs) \in SUBSET D
  BY <1>1 DEF OpenSet
<1> HIDE DEF D
<1>4. IsFiniteSet(OpenSet(fs)) /\ Cardinality(OpenSet(fs)) <= Cardinality(D)
  BY <1>2, <1>3, FS_Subset
<1>5. Opened(fs) = Cardinality(OpenSet(fs))
  BY DEF Opened, OpenSet
<1> QED
  BY <1>2, <1>3, <1>4, <1>5, FS_CardinalityType DEF D

LEMMA OpenedEmpty == Opened(<<>>) = 0
<1>1. {i \in DOMAIN <<>> : <<>>[i].open} = {}
  OBVIOUS
<1> QED
  BY <1>1, FS_EmptySet DEF Opened

(* One more call on the stack, without a socket of its own so far.         *)
LEMMA OpenedAppend ==
  ASSUME NEW fs \in Seq(FrameType), NEW f \in FrameType, ~f.open
  PROVE  Opened(Append(fs, f)) = Opened(fs)
<1>1. {i \in DOMAIN Append(fs, f) : Append(fs, f)[i].open} = {i \in DOMAIN fs : fs[i].open}
  OBVIOUS
<1> QED
  BY <1>1 DEF Opened

(* Another stage of the innermost call, with the same socket.              *)
LEMMA OpenedSame ==
  ASSUME NEW fs \in Seq(FrameType), NEW gs \in Seq(FrameType), Len(fs) = Len(gs),
         \A i \in 1..Len(fs) : gs[i].open = fs[i].open
  PROVE  Opened(gs) = Opened(fs)
<1>1. {i \in DOMAIN gs : gs[i].open} = {i \in DOMAIN fs : fs[i].open}
  OBVIOUS
<1> QED
  BY <1>1 DEF Opened

(* The innermost call opens its socket.                                    *)
LEMMA OpenedMore ==
  ASSUME NEW fs \in Seq(FrameType), NEW gs \in Seq(FrameType), Len(fs) = Len(gs),
         fs # <<>>, ~fs[Len(fs)].open, gs[Len(fs)].open,
         \A i \in 1..Len(fs)-1 : gs[i].open = fs[i].open
  PROVE  Opened(gs) = Opened(fs) + 1
<1>1. OpenSet(gs) = OpenSet(fs) \cup {Len(fs)} /\ Len(fs) \notin OpenSet(fs)
  BY DEF OpenSet
<1>2. IsFiniteSet(OpenSet(fs))
  BY OpenSetFinite
<1>3. Cardinality(OpenSet(fs) \cup {Len(fs)}) = Cardinality(OpenSet(fs)) + 1
  BY <1>1, <1>2, FS_AddElement
<1> QED
  BY <1>1, <1>3 DEF Opened, OpenSet

LEMMA Popped ==
  ASSUME NEW fs \in Seq(FrameType), fs # <<>>
  PROVE  /\ SubSeq(fs, 1, Len(fs) - 1) \in Seq(FrameType)
         /\ Len(SubSeq(fs, 1, Len(fs) - 1)) = Len(fs) - 1
         /\ \A i \in 1..Len(fs) - 1 : SubSeq(fs, 1, Len(fs) - 1)[i] = fs[i]
<1>1. PICK n \in Nat : n = Len(fs) - 1
  OBVIOUS
<1>2. \A i \in 1..n : fs[i] \in FrameType
  BY <1>1
<1>3. /\ SubSeq(fs, 1, n) \in Seq(FrameType)
      /\ Len(SubSeq(fs, 1, n)) = n
      /\ \A i \in 1..n : SubSeq(fs, 1, n)[i] = fs[i]
  BY <1>2, SubSeqProperties
<1> QED
  BY <1>1, <1>3

(* What a return closes is what the stack has less.                        *)
LEMMA OpenedPop ==
  ASSUME NEW fs \in Seq(FrameType), fs # <<>>
  PROVE  Opened(SubSeq(fs, 1, Len(fs) - 1)) = Opened(fs) - Opened(<<fs[Len(fs)]>>)
<1> DEFINE top == fs[Len(fs)]
           gs == SubSeq(fs, 1, Len(fs) - 1)
<1>1. /\ gs \in Seq(FrameType) /\ Len(gs) = Len(fs) - 1
      /\ \A i \in 1..Len(gs) : gs[i] = fs[i]
  BY Popped
<1>2. CASE top.open
  <2>1. OpenSet(<<top>>) = {1}
    BY <1>2 DEF OpenSet
  <2>2. Cardinality({1}) = 1
    BY FS_Singleton
  <2>3. OpenSet(fs) = OpenSet(gs) \cup {Len(fs)} /\ Len(fs) \notin OpenSet(gs)
    BY <1>1, <1>2 DEF OpenSet
  <2>4. IsFiniteSet(OpenSet(gs)) /\ Opened(gs) \in Nat
    BY <1>1, OpenSetFinite
  <2>5. Cardinality(OpenSet(gs) \cup {Len(fs)}) = Cardinality(OpenSet(gs)) + 1
    BY <2>3, <2>4, FS_AddElement
  <2>6. Opened(<<top>>) = 1
    <3>1. Opened(<<top>>) = Cardinality(OpenSet(<<top>>))
      BY DEF Opened, OpenSet
    <3> QED
      BY <2>1, <2>2, <3>1
  <2>7. Opened(fs) = Opened(gs) + 1
    BY <2>3, <2>5 DEF Opened, OpenSet
  <2> QED
    BY <2>4, <2>6, <2>7
<1>3. CASE ~top.open
  <2>1. OpenSet(<<top>>) = {}
    BY <1>3 DEF OpenSet
  <2>2. OpenSet(fs) = OpenSet(gs)
    BY <1>1, <1>3 DEF OpenSet
  <2>3. Opened(<<top>>) = 0
    BY <2>1, FS_EmptySet DEF Opened, OpenSet
  <2>4. Opened(gs) \in Nat
    BY <1>1, OpenSetFinite
  <2>5. Opened(fs) = Opened(gs)
    BY <2>2 DEF Opened, OpenSet
  <2> QED
    BY <2>3, <2>4, <2>5
<1> QED
  BY <1>2, <1>3

-----------------------------------------------------------------------------
(* Jobs *)

LEMMA StepsOfJob ==
  ASSUME NEW j \in Jobs, j.kind = "tx"
  PROVE  /\ Len(j.steps) \in 1..MaxSteps
         /\ \A i \in 1..Len(j.steps) : j.steps[i] \in StepDefs
<1>1. j.steps \in Definitions
  BY DEF Jobs, Idle
<1>2. PICK n \in 1..MaxSteps : j.steps \in [1..n -> StepDefs]
  BY <1>1 DEF Definitions
<1>3. n \in Nat /\ j.steps \in Seq(StepDefs) /\ Len(j.steps) = n
  BY <1>2, ProbeAssumption
<1> QED
  BY <1>2, <1>3

-----------------------------------------------------------------------------
(* The stack *)

Shape ==
  /\ job \in Jobs
  /\ frames \in Seq(FrameType) /\ Len(frames) <= MaxRedirects + 1
  /\ \A i \in 1..Len(frames) :
       frames[i].at = "redirecting" <=> i < Len(frames) \/ sample # None
  /\ At("parse") \/ At("resolve") => ~Top.open
  /\ sockets = Opened(frames)
  /\ sample \in SampleType \cup {None}
  /\ sample # None => Len(frames) <= MaxRedirects

LEMMA NoneIsNoSample == ASSUME NEW s \in SampleType PROVE s # None
  BY ProbeAssumption

(* A call that is not waiting for another one has nobody's sample yet.     *)
LEMMA NoSampleYet ==
  ASSUME Shape, NEW stage \in Stages \ {"redirecting"}, At(stage)
  PROVE  /\ sample = None /\ Depth \in 0..MaxRedirects
         /\ Len(frames) \in Nat \ {0} /\ Top \in FrameType /\ Top.at = stage
  BY ProbeAssumption DEF Shape, At, Top, Depth

LEMMA SampleInType ==
  ASSUME Depth \in 0..MaxRedirects, NEW error \in Errors \cup {"none"},
         NEW status \in Statuses \cup {None}, NEW cookies \in SUBSET Cookies
  PROVE  Sample(error, status, cookies) \in SampleType
  BY ProbeAssumption DEF Sample, SampleType

LEMMA Returning ==
  ASSUME Shape, frames # <<>>, NEW s \in SampleType, Return(s)
  PROVE  Shape'
<1> DEFINE gs == SubSeq(frames, 1, Len(frames) - 1)
<1>1. /\ frames \in Seq(FrameType) /\ Len(frames) \in Nat \ {0}
      /\ Len(frames) <= MaxRedirects + 1
  BY DEF Shape
<1>2. /\ gs \in Seq(FrameType) /\ Len(gs) = Len(frames) - 1
      /\ \A i \in 1..Len(gs) : gs[i] = frames[i]
  BY <1>1, Popped
<1>3. frames' = gs /\ sample' = s /\ job' = job
  BY DEF Return, Depth
<1>4. sockets' = Opened(frames)'
  <2>1. sockets' = sockets - Opened(<<frames[Len(frames)]>>)
    BY DEF Return, Closed, Top
  <2>2. Opened(gs) = Opened(frames) - Opened(<<frames[Len(frames)]>>)
    BY <1>1, OpenedPop
  <2> QED
    BY <1>3, <2>1, <2>2 DEF Shape, Opened
<1>5. sample' # None
  BY <1>3, NoneIsNoSample
<1>6. \A i \in 1..Len(gs) : gs[i].at = "redirecting"
  BY <1>1, <1>2 DEF Shape
<1>7. ~(At("parse") \/ At("resolve"))'
  BY <1>2, <1>3, <1>6 DEF At
<1> QED
  BY <1>1, <1>2, <1>3, <1>4, <1>5, <1>6, <1>7, ProbeAssumption DEF Shape

LEMMA Raising ==
  ASSUME Shape, sample = None, Raise
  PROVE  Shape'
<1>1. frames' = <<>> /\ job' = Idle /\ sample' = None
  BY DEF Raise
<1>2. Opened(frames)' = 0
  BY <1>1, OpenedEmpty DEF Opened
<1>3. sockets' = 0
  <2>1. Opened(frames) \in Nat
    BY OpenSetFinite DEF Shape
  <2> QED
    BY <2>1 DEF Raise, Closed, Shape
<1>4. ~(At("parse") \/ At("resolve"))'
  BY <1>1 DEF At
<1>5. job' \in Jobs
  BY <1>1 DEF Jobs
<1> QED
  BY <1>1, <1>2, <1>3, <1>4, <1>5, ProbeAssumption DEF Shape

LEMMA Moving ==
  ASSUME Shape, frames # <<>>, sample = None,
         NEW stage \in Stages \ {"redirecting"}, MoveTo(stage),
         stage \in {"parse", "resolve"} => ~Top.open,
         UNCHANGED <<job, sockets, sample>>
  PROVE  Shape'
<1>1. /\ frames \in Seq(FrameType) /\ Len(frames) \in Nat \ {0}
      /\ frames[Len(frames)] \in FrameType
  BY DEF Shape
<1>2. /\ frames' \in Seq(FrameType) /\ Len(frames') = Len(frames)
      /\ \A i \in 1..Len(frames) - 1 : frames'[i] = frames[i]
      /\ frames'[Len(frames)].at = stage
      /\ frames'[Len(frames)].open = frames[Len(frames)].open
  <2> DEFINE f == [frames[Len(frames)] EXCEPT !.at = stage]
  <2>1. f \in FrameType /\ f.at = stage /\ f.open = frames[Len(frames)].open
    BY <1>1 DEF FrameType, Stages
  <2>2. frames' = [frames EXCEPT ![Len(frames)] = f]
    BY DEF MoveTo
  <2> HIDE DEF f
  <2> QED
    BY <1>1, <2>1, <2>2
<1>3. Opened(frames)' = Opened(frames)
  <2>1. \A i \in 1..Len(frames) : frames'[i].open = frames[i].open
    BY <1>1, <1>2
  <2>2. Opened(frames') = Opened(frames)
    BY <1>1, <1>2, <2>1, OpenedSame
  <2> QED
    BY <2>2 DEF Opened
<1>4. (At("parse") \/ At("resolve"))' => ~Top'.open
  BY <1>1, <1>2 DEF At, Top
<1> QED
  BY <1>1, <1>2, <1>3, <1>4 DEF Shape

LEMMA ShapeOfProbe == ASSUME Shape, ProbeOnce PROVE Shape'
<1>1. CASE Parse
  <2>1. At("parse") /\ frames # <<>> /\ sample = None /\ Depth \in 0..MaxRedirects
    BY <1>1, NoSampleYet DEF Parse, At, Stages
  <2>2. CASE ReturnError("url")
    <3>1. Sample("url", None, {}) \in SampleType
      BY <2>1, SampleInType DEF Errors
    <3> QED
      BY <2>1, <2>2, <3>1, Returning DEF ReturnError
  <2>3. CASE Raise
    BY <2>1, <2>3, Raising
  <2>4. CASE MoveTo("resolve") /\ UNCHANGED <<job, sockets, sample, results, jar, outcome>>
    BY <2>1, <2>4, Moving DEF Stages, Shape
  <2> QED
    BY <1>1, <2>2, <2>3, <2>4 DEF Parse
<1>2. CASE Resolve
  <2>1. At("resolve") /\ frames # <<>> /\ sample = None /\ Depth \in 0..MaxRedirects
    BY <1>2, NoSampleYet DEF Resolve, At, Stages
  <2>2. CASE ReturnError("dns")
    <3>1. Sample("dns", None, {}) \in SampleType
      BY <2>1, SampleInType DEF Errors
    <3> QED
      BY <2>1, <2>2, <3>1, Returning DEF ReturnError
  <2>3. CASE Raise
    BY <2>1, <2>3, Raising
  <2>4. ASSUME frames' = [frames EXCEPT ![Len(frames)] = [@ EXCEPT !.at = "connect", !.open = TRUE]],
               sockets' = sockets + 1,
               UNCHANGED <<job, sample, results, jar, outcome>>
        PROVE  Shape'
    <3> DEFINE f == [frames[Len(frames)] EXCEPT !.at = "connect", !.open = TRUE]
    <3>1. /\ frames \in Seq(FrameType) /\ Len(frames) \in Nat \ {0}
          /\ frames[Len(frames)] \in FrameType
      BY <2>1 DEF Shape
    <3>2. f \in FrameType /\ f.at = "connect" /\ f.open
      BY <3>1 DEF FrameType, Stages
    <3>3. frames' = [frames EXCEPT ![Len(frames)] = f]
      BY <2>4
    <3> HIDE DEF f
    <3>4. /\ frames' \in Seq(FrameType) /\ Len(frames') = Len(frames)
          /\ \A i \in 1..Len(frames) - 1 : frames'[i] = frames[i]
          /\ frames'[Len(frames)].at = "connect" /\ frames'[Len(frames)].open
      BY <3>1, <3>2, <3>3
    <3>5. Opened(frames)' = Opened(frames) + 1
      <4>1. ~frames[Len(frames)].open
        BY <2>1 DEF Shape, Top
      <4>2. \A i \in 1..Len(frames) - 1 : frames'[i].open = frames[i].open
        BY <3>4
      <4>3. Opened(frames') = Opened(frames) + 1
        BY <2>1, <3>1, <3>4, <4>1, <4>2, OpenedMore
      <4> QED
        BY <4>3 DEF Opened
    <3>6. ~(At("parse") \/ At("resolve"))'
      BY <3>1, <3>4 DEF At
    <3> QED
      BY <2>1, <2>4, <3>1, <3>4, <3>5, <3>6 DEF Shape
  <2> QED
    BY <1>2, <2>2, <2>3, <2>4 DEF Resolve
<1>3. CASE Connect
  <2>1. At("connect") /\ frames # <<>> /\ sample = None /\ Depth \in 0..MaxRedirects
    BY <1>3, NoSampleYet DEF Connect, At, Stages
  <2>2. CASE ReturnError("tcp")
    <3>1. Sample("tcp", None, {}) \in SampleType
      BY <2>1, SampleInType DEF Errors
    <3> QED
      BY <2>1, <2>2, <3>1, Returning DEF ReturnError
  <2>3. ASSUME NEW stage \in {"tls", "http"}, MoveTo(stage),
               UNCHANGED <<job, sockets, sample, results, jar, outcome>>
        PROVE  Shape'
    BY <2>1, <2>3, Moving DEF Stages
  <2> QED
    BY <1>3, <2>2, <2>3 DEF Connect
<1>4. CASE Handshake
  <2>1. At("tls") /\ frames # <<>> /\ sample = None /\ Depth \in 0..MaxRedirects
    BY <1>4, NoSampleYet DEF Handshake, At, Stages
  <2>2. CASE ReturnError("tls")
    <3>1. Sample("tls", None, {}) \in SampleType
      BY <2>1, SampleInType DEF Errors
    <3> QED
      BY <2>1, <2>2, <3>1, Returning DEF ReturnError
  <2>3. CASE MoveTo("http") /\ UNCHANGED <<job, sockets, sample, results, jar, outcome>>
    BY <2>1, <2>3, Moving DEF Stages
  <2> QED
    BY <1>4, <2>2, <2>3 DEF Handshake
<1>5. CASE Request
  <2>1. At("http") /\ frames # <<>> /\ sample = None /\ Depth \in 0..MaxRedirects
    BY <1>5, NoSampleYet DEF Request, At, Stages
  <2>2. ASSUME NEW error \in {"http", "empty"}, ReturnError(error)
        PROVE  Shape'
    <3>1. Sample(error, None, {}) \in SampleType
      BY <2>1, SampleInType DEF Errors
    <3> QED
      BY <2>1, <2>2, <3>1, Returning DEF ReturnError
  <2>3. CASE Raise
    BY <2>1, <2>3, Raising
  <2>4. ASSUME NEW status \in Statuses \cup {None}, NEW cookies \in SUBSET Cookies,
               Return(Sample("none", status, cookies))
        PROVE  Shape'
    <3>1. Sample("none", status, cookies) \in SampleType
      BY <2>1, SampleInType
    <3> QED
      BY <2>1, <2>4, <3>1, Returning
  <2>5. ASSUME NEW url \in Urls, Depth < MaxRedirects,
               frames' = Append([frames EXCEPT ![Len(frames)].at = "redirecting"], Frame(url)),
               UNCHANGED <<job, sockets, sample, results, jar, outcome>>
        PROVE  Shape'
    <3> DEFINE gs == [frames EXCEPT ![Len(frames)].at = "redirecting"]
               f == [frames[Len(frames)] EXCEPT !.at = "redirecting"]
    <3>1. /\ frames \in Seq(FrameType) /\ Len(frames) \in Nat \ {0}
          /\ frames[Len(frames)] \in FrameType
      BY <2>1 DEF Shape
    <3>2. f \in FrameType /\ f.at = "redirecting" /\ f.open = frames[Len(frames)].open
      BY <3>1 DEF FrameType, Stages
    <3>3. gs = [frames EXCEPT ![Len(frames)] = f]
      OBVIOUS
    <3>4. frames' = Append(gs, Frame(url))
      BY <2>5
    <3> HIDE DEF f, gs
    <3>5. /\ gs \in Seq(FrameType) /\ Len(gs) = Len(frames)
          /\ \A i \in 1..Len(frames) - 1 : gs[i] = frames[i]
          /\ gs[Len(frames)].at = "redirecting"
          /\ gs[Len(frames)].open = frames[Len(frames)].open
      BY <3>1, <3>2, <3>3
    <3>6. Frame(url) \in FrameType /\ Frame(url).at = "parse" /\ ~Frame(url).open
      BY DEF Frame, FrameType, Stages
    <3>7. Opened(frames') = Opened(frames)
      <4>1. \A i \in 1..Len(frames) : gs[i].open = frames[i].open
        BY <3>1, <3>5
      <4>2. Opened(gs) = Opened(frames)
        BY <3>1, <3>5, <4>1, OpenedSame
      <4>3. Opened(Append(gs, Frame(url))) = Opened(gs)
        BY <3>5, <3>6, OpenedAppend
      <4> QED
        BY <3>4, <4>2, <4>3
    <3>8. /\ frames' \in Seq(FrameType) /\ Len(frames') = Len(frames) + 1
          /\ \A i \in 1..Len(frames) : frames'[i] = gs[i]
          /\ frames'[Len(frames) + 1] = Frame(url)
      BY <3>1, <3>4, <3>5, <3>6
    <3>9. \A i \in 1..Len(frames') : frames'[i].at = "redirecting" <=> i < Len(frames')
      <4>1. \A i \in 1..Len(frames) : gs[i].at = "redirecting"
        BY <2>1, <3>1, <3>5 DEF Shape
      <4> QED
        BY <3>1, <3>6, <3>8, <4>1
    <3>10. ~Top'.open
      BY <3>1, <3>6, <3>8 DEF Top
    <3>11. Len(frames') <= MaxRedirects + 1
      BY <2>5, <3>1, <3>8, ProbeAssumption DEF Depth
    <3>12. Opened(frames)' = Opened(frames)
      BY <3>7 DEF Opened
    <3> QED
      BY <2>1, <2>5, <3>8, <3>9, <3>10, <3>11, <3>12 DEF Shape
  <2> QED
    BY <1>5, <2>2, <2>3, <2>4, <2>5 DEF Request, Follows
<1>6. CASE Redirected
  <2>1. sample \in SampleType /\ frames # <<>> /\ Depth + 1 \in 0..MaxRedirects
    BY <1>6, ProbeAssumption DEF Redirected, At, Shape, Depth
  <2>2. [sample EXCEPT !.final = Depth + 1] \in SampleType
    BY <2>1 DEF SampleType
  <2> QED
    BY <1>6, <2>1, <2>2, Returning DEF Redirected
<1> QED
  BY <1>1, <1>2, <1>3, <1>4, <1>5, <1>6 DEF ProbeOnce

(* Who calls probe_once does so with nothing on the stack.                 *)
LEMMA ShapeOfJob ==
  ASSUME Shape,
         \/ \E j \in Jobs : Begin(j)
         \/ NextSample \/ ModernSample \/ TakeSample \/ NextStep \/ TakeStep \/ StepRaises
         \/ Record
  PROVE  Shape'
<1>1. CASE \E j \in Jobs : Begin(j)
  BY <1>1 DEF Begin, Shape, At, Top, Opened
<1>2. ASSUME NEW url \in Urls, Waiting, Probe(url)
      PROVE  Shape'
  <2>1. Frame(url) \in FrameType /\ Frame(url).at = "parse" /\ ~Frame(url).open
    BY DEF Frame, FrameType, Stages
  <2>2. /\ frames' = Append(frames, Frame(url)) /\ frames' = <<Frame(url)>>
        /\ frames' \in Seq(FrameType) /\ Len(frames') = 1 /\ frames'[1] = Frame(url)
    BY <1>2, <2>1 DEF Probe, Waiting
  <2>3. Opened(frames') = Opened(frames)
    BY <2>1, <2>2, OpenedAppend DEF Shape
  <2>4. Opened(frames)' = Opened(frames)
    BY <2>3 DEF Opened
  <2>5. UNCHANGED <<job, sockets, sample>> /\ sample = None
    BY <1>2 DEF Probe, Waiting
  <2>6. ~Top'.open
    BY <2>1, <2>2 DEF Top
  <2>7. \A i \in 1..Len(frames') : frames'[i].at # "redirecting" /\ ~(i < Len(frames'))
    BY <2>1, <2>2
  <2> QED
    BY <2>2, <2>4, <2>5, <2>6, <2>7, ProbeAssumption DEF Shape
<1>3. CASE NextSample
  <2>1. job.url \in Urls
    BY <1>3 DEF NextSample, Shape, Jobs, Idle
  <2> QED
    BY <1>2, <1>3, <2>1 DEF NextSample
<1>4. CASE ModernSample
  <2>1. sample' \in SampleType
    BY <1>4, ProbeAssumption DEF ModernSample, SampleType, Errors
  <2> QED
    BY <1>4, <2>1, ProbeAssumption DEF ModernSample, Waiting, Shape, At, Top, Opened
<1>5. CASE TakeSample \/ TakeStep
  <2>1. frames = <<>> /\ sample' = None /\ UNCHANGED <<job, frames, sockets>>
    BY <1>5 DEF TakeSample, TakeStep
  <2> QED
    BY <2>1, ProbeAssumption DEF Shape, At, Top, Opened
<1>6. CASE NextStep
  <2>1. CASE Current.url # "missing" /\ Probe(Current.url)
    <3>1. Current.url \in Urls
      BY <1>6, <2>1, StepsOfJob DEF NextStep, Current, StepDefs, Urls, Shape
    <3> QED
      BY <1>2, <1>6, <2>1, <3>1 DEF NextStep
  <2>2. CASE Raise
    BY <1>6, <2>2, Raising DEF NextStep, Waiting
  <2> QED
    BY <1>6, <2>1, <2>2 DEF NextStep
<1>7. CASE Record
  BY <1>7 DEF Record, Shape, At, Top, Opened, Jobs
<1>8. CASE StepRaises
  BY <1>8, ProbeAssumption DEF StepRaises, Shape, At, Top, Opened, Jobs
<1> QED
  BY <1>1, <1>3, <1>4, <1>5, <1>6, <1>7, <1>8

LEMMA Stack == Spec => []Shape
<1>1. Init => Shape
  <2> SUFFICES ASSUME Init PROVE Shape
    OBVIOUS
  <2>1. Opened(frames) = 0
    BY OpenedEmpty DEF Init
  <2>2. job \in Jobs
    BY DEF Init, Jobs
  <2> QED
    BY <2>1, <2>2, ProbeAssumption DEF Init, Shape, At
<1>2. Shape /\ [Next]_vars => Shape'
  <2> SUFFICES ASSUME Shape, [Next]_vars PROVE Shape'
    OBVIOUS
  <2>1. CASE UNCHANGED vars
    BY <2>1 DEF vars, Shape, At, Top, Opened
  <2> QED
    BY <2>1, ShapeOfProbe, ShapeOfJob DEF Next
<1> QED
  BY <1>1, <1>2, PTL DEF Spec

(* No more than one socket for each redirect and one, and none is left.    *)
THEOREM Sockets == Spec => []SocketsBounded
<1>1. Shape => SocketsBounded
  <2> SUFFICES ASSUME Shape PROVE SocketsBounded
    OBVIOUS
  <2>1. Opened(frames) \in Nat /\ Opened(frames) <= Len(frames)
    BY OpenSetFinite DEF Shape
  <2>2. frames = <<>> => sockets = 0
    BY <2>1 DEF Shape
  <2> QED
    BY <2>1, <2>2, ProbeAssumption DEF Shape, SocketsBounded
<1> QED
  BY <1>1, Stack, PTL

-----------------------------------------------------------------------------
(* What a job has gathered *)

Alive == frames # <<>> \/ sample # None
Goal == IF job.kind = "tx" THEN Len(job.steps) ELSE Count
StepType == [ok : BOOLEAN, sample : SampleType, sent : [Cookies -> 0..MaxSteps]]

Progress ==
  /\ results \in Seq(SampleType \cup StepType)
  /\ job.kind = "tx" => results \in Seq(StepType)
  /\ Len(results) <= Count + MaxSteps
  /\ job # Idle => Len(results) <= Goal
  /\ Alive => job # Idle /\ Len(results) < Goal
  /\ jar \in [Cookies -> 0..MaxSteps]

LEMMA GoalBounded ==
  ASSUME job \in Jobs
  PROVE  Goal \in Nat /\ Goal <= (IF job.kind = "tx" THEN MaxSteps ELSE Count)
BY StepsOfJob, ProbeAssumption DEF Goal

LEMMA IdleKind == Idle.kind = "idle"
  BY DEF Idle

(* A probe gathers nothing, unless it raises and all is lost.              *)
LEMMA ProbeGathersNothing ==
  ASSUME Shape, ProbeOnce
  PROVE  /\ frames # <<>>
         /\ UNCHANGED <<job, results, jar, outcome>> \/ (Raise /\ sample = None)
<1>1. frames # <<>>
  BY DEF ProbeOnce, Parse, Resolve, Connect, Handshake, Request, Redirected, At
<1>2. CASE Redirected
  BY <1>1, <1>2 DEF Redirected, Return
<1>3. CASE Parse \/ Resolve \/ Connect \/ Handshake \/ Request
  <2>1. sample = None
    BY <1>3, NoSampleYet DEF Parse, Resolve, Connect, Handshake, Request, Stages
  <2> QED
    BY <1>1, <1>3, <2>1
    DEF Parse, Resolve, Connect, Handshake, Request, ReturnError, Return
<1> QED
  BY <1>2, <1>3 DEF ProbeOnce

LEMMA TakenStep ==
  ASSUME Shape, Progress, TakeStep
  PROVE  /\ job.kind = "tx" /\ job' = job /\ frames' = <<>> /\ sample' = None
         /\ sample \in SampleType
         /\ results \in Seq(StepType) /\ Len(results) + 1 \in 1..Len(job.steps)
         /\ Len(results) + 1 <= MaxSteps
         /\ results' = Append(results, [ok |-> Acceptable(Current, sample), sample |-> sample,
                                        sent |-> jar])
         /\ [ok |-> Acceptable(Current, sample), sample |-> sample, sent |-> jar] \in StepType
<1>1. /\ job.kind = "tx" /\ job' = job /\ frames' = <<>> /\ sample' = None
      /\ sample \in SampleType /\ Alive /\ job \in Jobs
  BY DEF TakeStep, Shape, Alive
<1>2. /\ results \in Seq(StepType) /\ Len(results) \in Nat /\ Len(results) < Len(job.steps)
      /\ jar \in [Cookies -> 0..MaxSteps]
  BY <1>1 DEF Progress, Goal
<1>3. Len(job.steps) \in 1..MaxSteps
  BY <1>1, StepsOfJob
<1>4. Acceptable(Current, sample) \in BOOLEAN
  BY DEF Acceptable
<1>5. [ok |-> Acceptable(Current, sample), sample |-> sample, sent |-> jar] \in StepType
  BY <1>1, <1>2, <1>4 DEF StepType
<1> QED
  BY <1>1, <1>2, <1>3, <1>5, ProbeAssumption DEF TakeStep

LEMMA ProgressStep == ASSUME Shape, Shape', Progress, [Next]_vars PROVE Progress'
<1> USE ProbeAssumption
<1>1. CASE UNCHANGED vars
  BY <1>1 DEF vars, Progress, Alive, Goal
<1>2. ASSUME NEW j \in Jobs, Begin(j)
      PROVE  Progress'
  <2>1. /\ job' = j /\ results' = <<>> /\ jar' = NoCookies /\ ~Alive'
    BY <1>2 DEF Begin, Progress, Alive
  <2>2. Goal' \in Nat
    BY <2>1, GoalBounded, StepsOfJob DEF Goal
  <2>3. NoCookies \in [Cookies -> 0..MaxSteps]
    BY DEF NoCookies
  <2> QED
    BY <2>1, <2>2, <2>3 DEF Progress
<1>3. CASE Raise /\ sample = None
  <2>1. job' = Idle /\ results' = <<>> /\ jar' = jar /\ ~Alive'
    BY <1>3 DEF Raise, Alive
  <2> QED
    BY <2>1, IdleKind DEF Progress
<1>4. CASE ProbeOnce
  BY <1>3, <1>4, ProbeGathersNothing DEF Progress, Alive, Goal
<1>5. ASSUME job # Idle, Len(results) < Goal, UNCHANGED <<job, results, jar, outcome>>
      PROVE  Progress'
  BY <1>5 DEF Progress, Goal
<1>6. CASE NextSample \/ ModernSample
  <2>1. job # Idle /\ Len(results) < Goal /\ UNCHANGED <<job, results, jar, outcome>>
    BY <1>6 DEF NextSample, ModernSample, Probe, Goal, Waiting
  <2> QED
    BY <2>1, <1>5
<1>7. CASE NextStep
  <2>1. CASE Probe(Current.url)
    BY <1>5, <1>7, <2>1 DEF NextStep, Probe, Goal, Waiting
  <2> QED
    BY <1>3, <1>7, <2>1 DEF NextStep, Waiting
<1>8. CASE TakeSample
  <2>1. /\ sample \in SampleType /\ job # Idle /\ Len(results) < Goal /\ ~Alive'
        /\ results' = Append(results, sample) /\ job.kind # "tx"
        /\ job \in Jobs /\ job' = job /\ jar' = jar
    BY <1>8 DEF TakeSample, Shape, Progress, Alive
  <2>2. Goal = Count /\ Goal' = Goal /\ Len(results) \in Nat
    BY <2>1 DEF Goal, Progress
  <2>3. results' \in Seq(SampleType \cup StepType) /\ Len(results') = Len(results) + 1
    BY <2>1 DEF Progress
  <2> QED
    BY <2>1, <2>2, <2>3 DEF Progress
<1>9. CASE TakeStep
  <2>1. /\ results' \in Seq(StepType) /\ Len(results') = Len(results) + 1
        /\ Len(results) \in Nat
    BY <1>9, TakenStep
  <2>2. results' \in Seq(SampleType \cup StepType)
    BY <2>1
  <2>3. ~Alive' /\ Goal' = Len(job.steps)
    BY <1>9, TakenStep DEF Alive, Goal
  <2>4. jar' \in [Cookies -> 0..MaxSteps]
    BY <1>9, TakenStep DEF TakeStep, JarAfter, Progress
  <2> QED
    BY <1>9, <2>1, <2>2, <2>3, <2>4, TakenStep DEF Progress
<1>10. CASE Record
  <2>1. job' = Idle /\ results' = results /\ jar' = jar /\ ~Alive'
    BY <1>10 DEF Record, Finished, Waiting, Alive
  <2> QED
    BY <2>1, IdleKind DEF Progress
<1>11. CASE StepRaises
  <2>1. job' = Idle /\ results' = <<>> /\ jar' = jar /\ ~Alive'
    BY <1>11 DEF StepRaises, Alive
  <2> QED
    BY <2>1, IdleKind DEF Progress
<1> QED
  BY <1>1, <1>2, <1>4, <1>6, <1>7, <1>8, <1>9, <1>10, <1>11 DEF Next

LEMMA Stepwise == Spec => []Progress
<1>1. Init => Progress
  BY IdleKind, ProbeAssumption DEF Init, Progress, Alive, NoCookies
<1>2. Shape /\ Shape' /\ Progress /\ [Next]_vars => Progress'
  BY ProgressStep
<1> QED
  BY <1>1, <1>2, Stack, PTL DEF Spec

(* The variables keep their types.                                         *)
THEOREM TypeCorrect == Spec => []TypeOK
<1>1. Shape /\ Progress => TypeOK
  <2> SUFFICES ASSUME Shape, Progress PROVE TypeOK
    OBVIOUS
  <2>1. job \in Jobs /\ sample \in SampleType \cup {None} /\ jar \in [Cookies -> 0..MaxSteps]
    BY DEF Shape, Progress
  <2>2. sockets \in Nat
    BY OpenSetFinite DEF Shape
  <2>3. Len(results) <= IF job.kind = "tx" THEN MaxSteps ELSE Count + MaxSteps
    <3>1. CASE job.kind = "tx"
      <4>1. Len(results) \in Nat /\ Len(results) <= Goal /\ Goal \in Nat /\ Goal <= MaxSteps
        BY <2>1, <3>1, GoalBounded, IdleKind DEF Progress
      <4> QED
        BY <3>1, <4>1, ProbeAssumption
    <3>2. CASE job.kind # "tx"
      BY <3>2 DEF Progress
    <3> QED
      BY <3>1, <3>2
  <2>4. \A i \in DOMAIN frames : frames[i] \in FrameType
    BY DEF Shape
  <2>5. \A i \in DOMAIN frames :
          frames[i].at = "redirecting" <=> i < Len(frames) \/ sample # None
    BY DEF Shape
  <2> QED
    BY <2>1, <2>2, <2>3, <2>4, <2>5 DEF TypeOK, FrameType, Stages
<1> QED
  BY <1>1, Stack, Stepwise, PTL

-----------------------------------------------------------------------------
(* A transaction: every step before the last was accepted, and each was    *)
(* judged by what it expects itself; and what is recorded is left alone    *)
(* until the next job begins.                                              *)

Judged ==
  job.kind = "tx" =>
    /\ \A i \in 1..Len(results) : /\ results[i].ok = Acceptable(job.steps[i], results[i].sample)
                                  /\ job.steps[i].expect # None
    /\ \A i \in 1..Len(results) - 1 : results[i].ok
    /\ Alive => ~Stopped

Reported == outcome.how = "recorded" => job = Idle /\ ~Alive

LEMMA JudgedStep ==
  ASSUME Shape, Progress, Judged, [Next]_vars
  PROVE  Judged'
<1>1. CASE UNCHANGED vars
  BY <1>1 DEF vars, Judged, Alive, Stopped
<1>2. ASSUME NEW j \in Jobs, Begin(j)
      PROVE  Judged'
  BY <1>2 DEF Begin, Judged, Stopped
<1>3. CASE Raise
  BY <1>3, IdleKind DEF Raise, Judged
<1>4. CASE ProbeOnce
  BY <1>3, <1>4, ProbeGathersNothing DEF Judged, Alive, Stopped
<1>5. CASE NextSample \/ ModernSample
  BY <1>5 DEF NextSample, ModernSample, Probe, Judged
<1>6. CASE NextStep
  BY <1>3, <1>6 DEF NextStep, Probe, Judged, Stopped
<1>7. CASE TakeSample
  BY <1>7 DEF TakeSample, Judged
<1>8. CASE TakeStep
  <2> DEFINE r == [ok |-> Acceptable(Current, sample), sample |-> sample, sent |-> jar]
             n == Len(results) + 1
  <2>1. /\ job.kind = "tx" /\ job' = job /\ ~Alive' /\ results \in Seq(StepType)
        /\ n \in 1..Len(job.steps) /\ results' = Append(results, r) /\ r \in StepType
    BY <1>8, TakenStep DEF Alive
  <2>2. r.ok = Acceptable(job.steps[n], r.sample) /\ job.steps[n].expect # None
    BY <1>8 DEF Current, TakeStep
  <2> HIDE DEF r
  <2>3. /\ Len(results') = n /\ results'[n] = r
        /\ \A i \in 1..Len(results) : results'[i] = results[i]
    BY <2>1
  <2>4. Alive
    BY <1>8 DEF TakeStep, Alive
  <2>5. \A i \in 1..Len(results) : results[i].ok
    BY <2>1, <2>4 DEF Judged, Stopped
  <2>6. \A i \in 1..n : /\ results'[i].ok = Acceptable(job.steps[i], results'[i].sample)
                         /\ job.steps[i].expect # None
    BY <2>1, <2>2, <2>3 DEF Judged
  <2> QED
    BY <2>1, <2>3, <2>5, <2>6 DEF Judged
<1>9. CASE StepRaises \/ Record
  BY <1>9, IdleKind DEF StepRaises, Record, Judged
<1> QED
  BY <1>1, <1>2, <1>4, <1>5, <1>6, <1>7, <1>8, <1>9 DEF Next

LEMMA ReportedStep ==
  ASSUME Shape, Progress, Reported, [Next]_vars
  PROVE  Reported'
<1>1. CASE UNCHANGED vars
  BY <1>1 DEF vars, Reported, Alive
<1>2. ASSUME NEW j \in Jobs, Begin(j)
      PROVE  Reported'
  BY <1>2 DEF Begin, Nothing, Reported
<1>3. CASE Raise
  BY <1>3 DEF Raise, Ended, Reported
<1>4. CASE ProbeOnce
  <2>1. (outcome.how # "recorded" /\ outcome' = outcome) \/ Raise
    BY <1>4, ProbeGathersNothing DEF Reported, Alive
  <2> QED
    BY <1>3, <2>1 DEF Reported
<1>5. CASE NextSample \/ ModernSample
  BY <1>5 DEF NextSample, ModernSample, Waiting, Probe, Reported
<1>6. CASE NextStep
  BY <1>3, <1>6 DEF NextStep, Waiting, Probe, Reported
<1>7. CASE TakeSample \/ TakeStep
  BY <1>7 DEF TakeSample, TakeStep, Reported, Alive
<1>8. CASE Record
  BY <1>8 DEF Record, Finished, Waiting, Reported, Alive
<1>9. CASE StepRaises
  BY <1>9 DEF StepRaises, Ended, Reported
<1> QED
  BY <1>1, <1>2, <1>4, <1>5, <1>6, <1>7, <1>8, <1>9 DEF Next

(* No error is counted exactly when there is no failed step.               *)
LEMMA NoneFailed ==
  ASSUME Progress, job.kind = "tx"
  PROVE  Cardinality({i \in DOMAIN results : Failed(results[i])}) = 0
           <=> \A i \in 1..Len(results) : results[i].ok
<1> DEFINE F == {i \in DOMAIN results : Failed(results[i])}
<1>1. DOMAIN results = 1..Len(results) /\ Len(results) \in Nat
  BY DEF Progress
<1>2. F \in SUBSET (1..Len(results)) /\ IsFiniteSet(1..Len(results))
  BY <1>1, FS_Interval
<1>3. F = {} <=> \A i \in 1..Len(results) : results[i].ok
  BY <1>1 DEF Failed
<1> HIDE DEF F
<1>4. IsFiniteSet(F)
  BY <1>2, FS_Subset
<1> QED
  BY <1>3, <1>4, FS_EmptySet DEF F

LEMMA AllOkAtRecord ==
  ASSUME Shape, Progress, Judged, Record
  PROVE  AllOkMeansAll'
<1> SUFFICES ASSUME job.kind = "tx"
             PROVE  AllOkMeansAll'
  BY DEF Record, Ended, AllOkMeansAll
<1> DEFINE errors == Cardinality({i \in DOMAIN results : Failed(results[i])})
<1>1. /\ outcome' = [how |-> "recorded", job |-> job, errors |-> errors]
      /\ results' = results /\ job \in Jobs /\ job # Idle
  BY IdleKind DEF Record, Ended, Shape
<1>2. /\ results \in Seq(StepType) /\ DOMAIN results = 1..Len(results)
      /\ Len(results) \in Nat /\ Len(results) <= Len(job.steps)
      /\ Len(job.steps) \in 1..MaxSteps
      /\ \A i \in 1..Len(job.steps) : job.steps[i].expect \in {{}, {"4xx"}, None}
  BY <1>1, StepsOfJob DEF Progress, Goal, StepDefs
<1>3. errors = 0 <=> \A i \in 1..Len(results) : results[i].ok
  BY NoneFailed
<1>4. (\A i \in 1..Len(results) : results[i].ok) => Len(results) = Len(job.steps)
  BY <1>2 DEF Record, Finished, Stopped
<1>5. ASSUME NEW i \in 1..Len(results)
      PROVE  results[i].ok <=>
               /\ results[i].sample.error = "none" /\ results[i].sample.status # None
               /\ job.steps[i].expect = {} => results[i].sample.status # "4xx"
               /\ job.steps[i].expect # {} => results[i].sample.status = "4xx"
  <2>1. results[i].ok = Acceptable(job.steps[i], results[i].sample)
    BY DEF Judged
  <2>2. results[i].sample.status \in {"2xx", "3xx", "4xx"} \cup {None}
    <3>1. results[i] \in StepType
      BY <1>2
    <3>2. results[i].sample \in SampleType
      BY <3>1 DEF StepType
    <3> QED
      BY <3>2 DEF SampleType, Statuses
  <2>3. None \notin {"2xx", "3xx", "4xx"}
    BY ProbeAssumption DEF Statuses
  <2>4. job.steps[i].expect \in {{}, {"4xx"}}
    BY <1>2 DEF Judged
  <2> QED
    BY <2>1, <2>2, <2>3, <2>4 DEF Acceptable
<1> HIDE DEF errors
<1> QED
  BY <1>1, <1>2, <1>3, <1>4, <1>5 DEF AllOkMeansAll

LEMMA AllOkStep ==
  ASSUME Shape, Progress, Judged, Reported, AllOkMeansAll, [Next]_vars
  PROVE  AllOkMeansAll'
<1>1. CASE UNCHANGED <<results, outcome>>
  BY <1>1 DEF AllOkMeansAll
<1>2. CASE \E j \in Jobs : Begin(j)
  BY <1>2 DEF Begin, Nothing, AllOkMeansAll
<1>3. CASE Raise \/ StepRaises
  BY <1>3 DEF Raise, StepRaises, Ended, AllOkMeansAll
<1>4. CASE TakeSample \/ TakeStep
  BY <1>4 DEF TakeSample, TakeStep, Reported, Alive, AllOkMeansAll
<1>5. CASE Record
  BY <1>5, AllOkAtRecord
<1>6. CASE ProbeOnce
  BY <1>1, <1>3, <1>6, ProbeGathersNothing
<1>7. CASE NextSample \/ ModernSample \/ NextStep
  BY <1>1, <1>3, <1>7 DEF NextSample, ModernSample, NextStep, Probe
<1> QED
  BY <1>1, <1>2, <1>3, <1>4, <1>5, <1>6, <1>7 DEF Next, vars

(* What is recorded without an error ran to its end, and was accepted.     *)
THEOREM Accepted == Spec => []AllOkMeansAll
<1> DEFINE I == Judged /\ Reported /\ AllOkMeansAll
<1>1. Init => I
  BY IdleKind DEF Init, Nothing, Judged, Reported, AllOkMeansAll
<1>2. Shape /\ Progress /\ I /\ [Next]_vars => I'
  BY JudgedStep, ReportedStep, AllOkStep
<1>3. I => AllOkMeansAll
  OBVIOUS
<1> QED
  BY <1>1, <1>2, <1>3, Stack, Stepwise, PTL DEF Spec

-----------------------------------------------------------------------------
(* The jar *)

(* The jar holds, of each name, the value of the latest step that set it.  *)
JarLatest ==
  job.kind = "tx" =>
    \A c \in Cookies : jar[c] = Latest(Setters(results, c, Len(results) + 1))

LEMMA LatestIsLast ==
  ASSUME NEW n \in Nat, NEW steps \in SUBSET (1..n), n \in steps
  PROVE  Latest(steps) = n
<1>1. \A k \in steps : k \in Nat /\ k <= n
  OBVIOUS
<1>2. \A j \in steps : (\A k \in steps : k <= j) => j = n
  BY <1>1
<1>3. (CHOOSE j \in steps : \A k \in steps : k <= j) = n
  BY <1>1, <1>2
<1> QED
  BY <1>3 DEF Latest

(* A step taken changes what is set before later steps only.               *)
LEMMA SettersAfter ==
  ASSUME NEW rs \in Seq(StepType), NEW r \in StepType, NEW c \in Cookies
  PROVE  /\ \A i \in 1..Len(rs) + 1 : Setters(Append(rs, r), c, i) = Setters(rs, c, i)
         /\ Setters(Append(rs, r), c, (Len(rs) + 1) + 1) =
              IF c \in r.sample.cookies
                THEN Setters(rs, c, Len(rs) + 1) \cup {Len(rs) + 1}
                ELSE Setters(rs, c, Len(rs) + 1)
<1> DEFINE n == Len(rs) + 1
           gs == Append(rs, r)
<1>1. n \in Nat \ {0} /\ Len(gs) = n /\ gs[n] = r /\ \A j \in 1..n - 1 : gs[j] = rs[j]
  OBVIOUS
<1> HIDE DEF gs
<1>2. ASSUME NEW i \in 1..n
      PROVE  Setters(gs, c, i) = Setters(rs, c, i)
  BY <1>1, <1>2 DEF Setters
<1>3. Setters(gs, c, n + 1) = {j \in 1..n : c \in gs[j].sample.cookies}
  <2>1. (n + 1) - 1 = n
    BY <1>1
  <2> QED
    BY <2>1 DEF Setters
<1>4. Setters(rs, c, n) = {j \in 1..n - 1 : c \in rs[j].sample.cookies}
  BY DEF Setters
<1>5. {j \in 1..n : c \in gs[j].sample.cookies} =
        IF c \in r.sample.cookies THEN Setters(rs, c, n) \cup {n} ELSE Setters(rs, c, n)
  BY <1>1, <1>4
<1> QED
  BY <1>2, <1>3, <1>5 DEF gs

LEMMA CookiesStep ==
  ASSUME Shape, Progress, JarLatest, CookiesSent, [Next]_vars
  PROVE  JarLatest' /\ CookiesSent'
<1>1. CASE UNCHANGED <<job, results, jar, outcome>>
  BY <1>1 DEF JarLatest, CookiesSent, Setters
<1>2. ASSUME NEW j \in Jobs, Begin(j)
      PROVE  JarLatest' /\ CookiesSent'
  <2>1. results' = <<>> /\ jar' = NoCookies
    BY <1>2 DEF Begin
  <2>2. \A c \in Cookies : Setters(results', c, Len(results') + 1) = {}
    BY <2>1 DEF Setters
  <2>3. \A c \in Cookies : jar'[c] = 0
    BY <2>1 DEF NoCookies
  <2>4. Latest({}) = 0
    BY DEF Latest
  <2>5. JarLatest'
    BY <2>2, <2>3, <2>4 DEF JarLatest
  <2> QED
    BY <2>1, <2>5 DEF CookiesSent
<1>3. CASE Raise \/ StepRaises \/ Record
  BY <1>3, IdleKind DEF Raise, StepRaises, Record, JarLatest, CookiesSent
<1>4. CASE TakeSample
  BY <1>4 DEF TakeSample, JarLatest, CookiesSent
<1>5. CASE TakeStep
  <2> DEFINE r == [ok |-> Acceptable(Current, sample), sample |-> sample, sent |-> jar]
             n == Len(results) + 1
  <2>1. /\ job.kind = "tx" /\ job' = job /\ results \in Seq(StepType)
        /\ results' = Append(results, r) /\ r \in StepType
        /\ jar' = [c \in Cookies |-> IF c \in r.sample.cookies THEN n ELSE jar[c]]
    BY <1>5, TakenStep DEF TakeStep, JarAfter
  <2>2. r.sent = jar
    OBVIOUS
  <2> HIDE DEF r
  <2>3. /\ n \in Nat /\ Len(results') = n /\ results'[n] = r
        /\ \A i \in 1..n - 1 : results'[i] = results[i]
    BY <2>1
  <2>4. ASSUME NEW c \in Cookies
        PROVE  jar'[c] = Latest(Setters(results', c, n + 1))
    <3>1. CASE c \in r.sample.cookies
      <4>1. Setters(results', c, n + 1) = Setters(results, c, n) \cup {n}
        BY <2>1, <2>3, <3>1, SettersAfter
      <4>2. Setters(results, c, n) \cup {n} \in SUBSET (1..n)
        BY <2>3 DEF Setters
      <4> QED
        BY <2>1, <2>3, <3>1, <4>1, <4>2, LatestIsLast
    <3>2. CASE c \notin r.sample.cookies
      <4>1. Setters(results', c, n + 1) = Setters(results, c, n)
        BY <2>1, <2>3, <3>2, SettersAfter
      <4> QED
        BY <2>1, <3>2, <4>1 DEF JarLatest
    <3> QED
      BY <3>1, <3>2
  <2>5. ASSUME NEW i \in 1..n, NEW c \in Cookies
        PROVE  results'[i].sent[c] = Latest(Setters(results', c, i))
    <3>1. Setters(results', c, i) = Setters(results, c, i)
      BY <2>1, SettersAfter
    <3>2. CASE i = n
      BY <2>1, <2>2, <2>3, <3>1, <3>2 DEF JarLatest
    <3>3. CASE i # n
      BY <2>1, <2>3, <3>1, <3>3 DEF CookiesSent
    <3> QED
      BY <3>2, <3>3
  <2> QED
    BY <2>1, <2>3, <2>4, <2>5 DEF JarLatest, CookiesSent
<1>6. CASE ProbeOnce
  BY <1>1, <1>3, <1>6, ProbeGathersNothing
<1>7. CASE NextSample \/ ModernSample \/ NextStep
  BY <1>1, <1>3, <1>7 DEF NextSample, ModernSample, NextStep, Probe
<1> QED
  BY <1>1, <1>2, <1>3, <1>4, <1>5, <1>6, <1>7 DEF Next, vars

(* Each step sends, of every cookie, the latest value set before it.       *)
THEOREM Cookied == Spec => []CookiesSent
<1> DEFINE I == JarLatest /\ CookiesSent
<1>1. Init => I
  BY IdleKind DEF Init, JarLatest, CookiesSent
<1>2. Shape /\ Progress /\ I /\ [Next]_vars => I'
  BY CookiesStep
<1>3. I => CookiesSent
  OBVIOUS
<1> QED
  BY <1>1, <1>2, <1>3, Stack, Stepwise, PTL DEF Spec

-----------------------------------------------------------------------------
(* final_url *)

\* What the outermost call makes of a chain: the URL of its own redirect, the first.
FirstOf(redirects) == IF redirects = 0 THEN 0 ELSE 1

(* A sample on its way back was written over by each call it has passed:   *)
(* by all those it was redirected through but the frames that still wait.  *)
Chained ==
  /\ sample # None =>
       /\ Len(frames) <= sample.redirects
       /\ sample.final = IF sample.redirects = Len(frames) THEN 0 ELSE Len(frames) + 1
  /\ job.kind = "follow" =>
       \A i \in DOMAIN results :
         results[i].redirects \in Nat /\ results[i].final = FirstOf(results[i].redirects)

(* What a call returns, a new sample or one it has written over.           *)
LEMMA ReturnChained ==
  ASSUME Shape, Chained, frames # <<>>, NEW s \in SampleType, Return(s),
         \/ s.redirects = Depth /\ s.final = 0
         \/ s.redirects > Depth /\ s.final = Depth + 1
  PROVE  Chained'
<1>1. frames \in Seq(FrameType) /\ Len(frames) \in Nat \ {0} /\ s.redirects \in Nat
  BY ProbeAssumption DEF Shape, SampleType
<1>2. Len(frames') = Len(frames) - 1 /\ Depth = Len(frames) - 1
  BY <1>1, Popped DEF Return, Depth
<1>3. sample' = s /\ UNCHANGED <<job, results>>
  BY DEF Return
<1> QED
  BY <1>1, <1>2, <1>3 DEF Chained

(* Returns, raises and stages of probe_once.                               *)
LEMMA ProbeChained == ASSUME Shape, Chained, ProbeOnce PROVE Chained'
<1>1. ASSUME NEW error \in Errors \cup {"none"}, NEW status \in Statuses \cup {None},
             NEW cookies \in SUBSET Cookies, Return(Sample(error, status, cookies)),
             frames # <<>>, sample = None, Depth \in 0..MaxRedirects
      PROVE  Chained'
  <2>1. Sample(error, status, cookies) \in SampleType
    BY <1>1, SampleInType
  <2>2. Sample(error, status, cookies).redirects = Depth /\ Sample(error, status, cookies).final = 0
    BY DEF Sample
  <2> QED
    BY <1>1, <2>1, <2>2, ReturnChained
<1>2. ASSUME Raise, sample = None
      PROVE  Chained'
  BY <1>2, IdleKind DEF Raise, Chained
<1>3. ASSUME sample = None, UNCHANGED <<job, sample, results>>
      PROVE  Chained'
  BY <1>3 DEF Chained
<1>4. ASSUME NEW stage \in Stages \ {"redirecting"}, At(stage)
      PROVE  frames # <<>> /\ sample = None /\ Depth \in 0..MaxRedirects
  BY <1>4, NoSampleYet DEF At
<1>5. ASSUME NEW stage \in Stages \ {"redirecting"}, At(stage),
             NEW error \in Errors, ReturnError(error)
      PROVE  Chained'
  <2>1. Return(Sample(error, None, {}))
    BY <1>5 DEF ReturnError
  <2>2. frames # <<>> /\ sample = None /\ Depth \in 0..MaxRedirects
    BY <1>4, <1>5
  <2> QED
    BY <1>1, <2>1, <2>2
<1>6. CASE Parse
  <2>1. "parse" \in Stages \ {"redirecting"} /\ "url" \in Errors
    BY DEF Stages, Errors
  <2> QED
    BY <1>2, <1>3, <1>4, <1>5, <1>6, <2>1 DEF Parse
<1>7. CASE Resolve
  <2>1. "resolve" \in Stages \ {"redirecting"} /\ "dns" \in Errors
    BY DEF Stages, Errors
  <2> QED
    BY <1>2, <1>3, <1>4, <1>5, <1>7, <2>1 DEF Resolve
<1>8. CASE Connect
  <2>1. "connect" \in Stages \ {"redirecting"} /\ "tcp" \in Errors
    BY DEF Stages, Errors
  <2> QED
    BY <1>3, <1>4, <1>5, <1>8, <2>1 DEF Connect
<1>9. CASE Handshake
  <2>1. "tls" \in Stages \ {"redirecting"} /\ "tls" \in Errors
    BY DEF Stages, Errors
  <2> QED
    BY <1>3, <1>4, <1>5, <1>9, <2>1 DEF Handshake
<1>10. CASE Request
  <2>1. "http" \in Stages \ {"redirecting"} /\ {"http", "empty"} \subseteq Errors
    BY DEF Stages, Errors
  <2>2. At("http") /\ frames # <<>> /\ sample = None /\ Depth \in 0..MaxRedirects
    BY <1>4, <1>10, <2>1 DEF Request
  <2>3. CASE \E error \in {"http", "empty"} : ReturnError(error)
    BY <1>5, <2>1, <2>2, <2>3
  <2>4. ASSUME NEW status \in Statuses \cup {None}, NEW cookies \in SUBSET Cookies,
               Return(Sample("none", status, cookies))
        PROVE  Chained'
    BY <1>1, <2>2, <2>4
  <2> QED
    BY <1>2, <1>3, <1>10, <2>2, <2>3, <2>4 DEF Request
<1>11. CASE Redirected
  <2>1. /\ frames # <<>> /\ Depth \in Nat /\ Depth = Len(frames) - 1 /\ sample \in SampleType
        /\ sample.redirects >= Len(frames) /\ Depth + 1 \in 0..MaxRedirects
        /\ Return([sample EXCEPT !.final = Depth + 1])
    BY <1>11, ProbeAssumption DEF Redirected, At, Shape, Chained, Depth
  <2>2. /\ [sample EXCEPT !.final = Depth + 1] \in SampleType
        /\ [sample EXCEPT !.final = Depth + 1].redirects = sample.redirects
        /\ [sample EXCEPT !.final = Depth + 1].final = Depth + 1
        /\ sample.redirects \in Nat
    BY <2>1, ProbeAssumption DEF SampleType
  <2>3. sample.redirects > Depth
    BY <2>1, <2>2
  <2> QED
    BY <2>1, <2>2, <2>3, ReturnChained
<1> QED
  BY <1>6, <1>7, <1>8, <1>9, <1>10, <1>11 DEF ProbeOnce

(* The callers of probe_once keep what it returned.                        *)
LEMMA ChainedStep == ASSUME Shape, Progress, Chained, [Next]_vars PROVE Chained'
<1>1. CASE UNCHANGED vars
  BY <1>1 DEF vars, Chained
<1>2. ASSUME NEW j \in Jobs, Begin(j)
      PROVE  Chained'
  BY <1>2 DEF Begin, Chained, Progress, Alive
<1>3. CASE NextSample \/ NextStep
  <2>1. sample = None /\ sample' = sample
    BY <1>3 DEF NextSample, NextStep, Probe, Raise, Waiting
  <2>2. \/ UNCHANGED <<job, results>>
        \/ job' = Idle
    BY <1>3 DEF NextSample, NextStep, Probe, Raise
  <2> QED
    BY <2>1, <2>2, IdleKind DEF Chained
<1>4. CASE ModernSample
  <2>1. job' = job /\ results' = results /\ job.kind # "follow" /\ frames' = <<>>
    BY <1>4 DEF ModernSample, Waiting
  <2>2. sample'.redirects = 0 /\ sample'.final = 0
    BY <1>4 DEF ModernSample
  <2> QED
    BY <2>1, <2>2 DEF Chained
<1>5. CASE TakeSample
  <2>1. /\ sample \in SampleType /\ sample # None /\ frames = <<>> /\ sample' = None
        /\ results' = Append(results, sample) /\ job' = job
        /\ results \in Seq(SampleType \cup StepType)
    BY <1>5 DEF TakeSample, Shape, Progress
  <2>2. sample.redirects \in Nat /\ sample.final = FirstOf(sample.redirects)
    BY <2>1, ProbeAssumption DEF Chained, SampleType, FirstOf
  <2>3. \A i \in DOMAIN results' : (i \in DOMAIN results /\ results'[i] = results[i]) \/ results'[i] = sample
    BY <2>1
  <2> QED
    BY <2>1, <2>2, <2>3 DEF Chained
<1>6. CASE TakeStep
  BY <1>6 DEF TakeStep, Chained
<1>7. CASE StepRaises \/ Record
  BY <1>7, IdleKind DEF StepRaises, Record, Finished, Waiting, Chained
<1>8. CASE ProbeOnce
  BY <1>8, ProbeChained
<1> QED
  BY <1>1, <1>2, <1>3, <1>4, <1>5, <1>6, <1>7, <1>8 DEF Next

\* final_url is the URL of the first redirect of a sample, whatever the number of redirects
\* that are allowed and taken: right for one redirect or none, and for no longer chain.
THEOREM FinalUrls ==
  Spec => [](/\ FinalUrlOfShortChains
             /\ job.kind = "follow" => \A i \in DOMAIN results :
                  results[i].final = results[i].redirects <=> results[i].redirects <= 1)
<1>1. Init => Chained
  BY IdleKind DEF Init, Chained
<1>2. Shape /\ Progress /\ Chained /\ [Next]_vars => Chained'
  BY ChainedStep
<1>3. Chained => /\ FinalUrlOfShortChains
                 /\ job.kind = "follow" => \A i \in DOMAIN results :
                      results[i].final = results[i].redirects <=> results[i].redirects <= 1
  BY DEF Chained, FirstOf, FinalUrlOfShortChains
<1> QED
  BY <1>1, <1>2, <1>3, Stack, Stepwise, PTL DEF Spec

=============================================================================
