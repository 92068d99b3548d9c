----------------------------- MODULE MCEventLog -----------------------------
(* A small instance of EventLog for TLC. *)
EXTENDS EventLog, TLC

CONSTANTS t1, t2, p1, p2

OneEach  == t1 :> p1 @@ t2 :> p2
BothInP1 == t1 :> p1 @@ t2 :> p1

\* Two processes and a lock that works; two threads of one process and a lock
\* file that may fail at any call.
LockedOrAlone == {[processOf |-> OneEach, lockMayFail |-> FALSE],
                  [processOf |-> BothInP1, lockMayFail |-> TRUE]}
=============================================================================
