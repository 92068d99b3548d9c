----------------------------- MODULE SegmentLog -----------------------------
(***************************************************************************)
(* What the security event log promises: an open segment that only grows   *)
(* at its end, and sealed segments that never change.  A sealed segment    *)
(* may be dropped, the one last written longest ago first, as long as      *)
(* Count of them remain.  The open segment is never dropped.  EventLog is  *)
(* shown to implement this module while its lock works.                    *)
(***************************************************************************)
EXTENDS Integers, Sequences, FiniteSets

CONSTANTS Count,    \* sealed segments that are kept (backup_count)
          NoFile    \* no open segment

VARIABLES open,     \* the segment written to: its lines and its time
          sealed    \* the sealed segments, by name

SegmentInit == open = NoFile /\ sealed = [n \in {} |-> NoFile]

Create ==
    /\ open = NoFile
    /\ UNCHANGED sealed
    /\ open' # NoFile
    /\ open'.lines = << >>

Write ==
    /\ open # NoFile
    /\ UNCHANGED sealed
    /\ open' # NoFile
    /\ Len(open'.lines) = Len(open.lines) + 1
    /\ \A i \in DOMAIN open.lines : open'.lines[i] = open.lines[i]
    /\ open'.time >= open.time

Seal ==
    /\ open # NoFile /\ open' = NoFile
    /\ \E n \in DOMAIN sealed' \ DOMAIN sealed :
          sealed' = [m \in DOMAIN sealed \cup {n} |->
                        IF m = n THEN open ELSE sealed[m]]

Drop ==
    /\ UNCHANGED open
    /\ \E n \in DOMAIN sealed :
          /\ sealed' = [m \in DOMAIN sealed \ {n} |-> sealed[m]]
          /\ \A m \in DOMAIN sealed' : sealed[n].time <= sealed[m].time
    /\ Cardinality(DOMAIN sealed') >= Count

SegmentNext == Create \/ Write \/ Seal \/ Drop

SegmentSpec == SegmentInit /\ [][SegmentNext]_<<open, sealed>>
=============================================================================
