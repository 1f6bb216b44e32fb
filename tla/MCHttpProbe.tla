---------------------------- MODULE MCHttpProbe -----------------------------
(* Instances of HttpProbe small enough for TLC. *)
EXTENDS HttpProbe
=============================================================================
