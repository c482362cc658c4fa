---------------------------- MODULE MCRecordLocks ----------------------------
(* Instances of RecordLocks for TLC. *)
EXTENDS RecordLocks, TLC

(* Processes and work areas are interchangeable. *)
Symm == Permutations(Proc) \cup Permutations(Area)
=============================================================================
