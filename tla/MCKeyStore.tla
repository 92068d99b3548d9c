----------------------------- MODULE MCKeyStore -----------------------------
(* Small instances of KeyStore for TLC. *)
EXTENDS KeyStore, TLC

Symmetry == Permutations(Procs) \cup Permutations(Keys)
=============================================================================
