---------------------------- MODULE MCSkillLedger ----------------------------
(* Small instances of SkillLedger for TLC. *)
EXTENDS SkillLedger, TLC

ProcSymmetry == Permutations(Procs)
Symmetry == Permutations(Procs) \cup Permutations(Contents)

\* the history variables are left out of the states TLC tells apart: neither
\* TypeOK's other conjuncts nor NoGap reads them, no guard does
WithoutHistory == <<files, disk, clock, pc, local>>
=============================================================================
