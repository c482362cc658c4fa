----------------------------- MODULE TableOwner -----------------------------
(***************************************************************************)
(* What the table locks of SQLRDD promise to the applications that share a *)
(* database: of all the processes, at most one at a time owns a table, and *)
(* ownership passes from one to another only through a release.  A process *)
(* that dies gives the table back.                                         *)
(***************************************************************************)
CONSTANTS
    Proc,   \* the application instances
    NoOwner \* nobody owns the table; no process

VARIABLE owner

Init == owner = NoOwner

(* LockTable(.F., ...) succeeds. *)
Acquire(p) == owner = NoOwner /\ owner' = p

(* UnlockTable() starts to give the table back, or the process dies. *)
Release(p) == owner = p /\ owner' = NoOwner

Next == \E p \in Proc : Acquire(p) \/ Release(p)

Spec == Init /\ [][Next]_owner
=============================================================================
