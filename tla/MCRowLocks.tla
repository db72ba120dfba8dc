---------------------------- MODULE MCRowLocks -----------------------------
(* RowLocks for TLC: sessions are interchangeable.                         *)
EXTENDS RowLocks, TLC

Symmetry == Permutations(Session)
=============================================================================
