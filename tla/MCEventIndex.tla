---------------------------- MODULE MCEventIndex ----------------------------
(* A small instance of EventIndex for TLC. *)
EXTENDS EventIndex, TLC

CONSTANTS t1, t2, t3, p1, p2

TwoAndOne == t1 :> p1 @@ t2 :> p1 @@ t3 :> p2
Threads1  == Permutations({t1, t2})
=============================================================================
