---------------------------- MODULE MCTableLocks ----------------------------
(* Instances of TableLocks for TLC, with the invariant of its proofs. *)
EXTENDS TableLocksProofs, TLC

(* Processes and work areas are interchangeable: sessions are numbers. *)
Symm == Permutations(Proc) \cup Permutations(Area)
=============================================================================
