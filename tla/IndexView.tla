----------------------------- MODULE IndexView -----------------------------
(***************************************************************************)
(* What the event index promises to those who query it.  Events enter one  *)
(* at a time and leave when they are older than the limit, the oldest      *)
(* first.  Only after the database has been found damaged on the disk may  *)
(* the index lose anything else: it is an expendable copy of the log.      *)
(***************************************************************************)
EXTENDS Naturals

CONSTANT Events         \* numbered in the order of their timestamps

VARIABLES
    view,               \* the events a query without filters can return
    cutoff,             \* events up to this one are older than the limit
    damaged             \* the database has been damaged at some time

ViewInit == view = {} /\ cutoff = 0 /\ damaged = FALSE

Add     == \E e \in Events : view' = view \cup {e} /\ UNCHANGED <<cutoff, damaged>>

Expire  == /\ cutoff' \in Events /\ cutoff' > cutoff
           /\ UNCHANGED <<view, damaged>>

Prune   == view' = {e \in view : e > cutoff} /\ UNCHANGED <<cutoff, damaged>>

Lose    == \E left \in SUBSET view : view' = left

Damage  == damaged' = TRUE /\ Lose /\ UNCHANGED cutoff

Rebuild == damaged /\ Lose /\ UNCHANGED <<cutoff, damaged>>

ViewNext == Add \/ Expire \/ Prune \/ Damage \/ Rebuild

ViewSpec == ViewInit /\ [][ViewNext]_<<view, cutoff, damaged>>
=============================================================================
