----------------------------- MODULE MCPosture -----------------------------
(* A small instance of Posture of its own.                                 *)
EXTENDS Posture

CONSTANTS a1, s1, s2
=============================================================================
