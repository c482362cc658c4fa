----------------------------- MODULE TableLocks -----------------------------
(***************************************************************************)
(* Table locks of SQLRDD++: exclusive and shared opens, FLOCK and their    *)
(* release, by several application processes, each with several work areas *)
(* on the same table.                                                      *)
(*                                                                         *)
(* A lock is a row of SR_MGMNTLOCKS, whose column LOCK_ is UNIQUE.  It is  *)
(* set by an INSERT and given back by a DELETE through a second connection *)
(* (oSqlTransact) that commits after each statement, so one statement with *)
(* its commit is one step here and the statements of different processes   *)
(* interleave.  A row carries the database session that inserted it; rows  *)
(* of sessions the server no longer lists are swept (housekeeping) when a  *)
(* session starts and when an INSERT collides.                             *)
(***************************************************************************)
EXTENDS Naturals, Sequences

CONSTANTS
    Proc,       \* application instances (one WSID_, one connection each)
    Area,       \* work areas a process may open on the table
    MaxSess,    \* bound: sessions ever opened (a restart takes a new one)
    SetRetries, \* nRetries that LockTable passes to SR_SetLocks (4 in the code)
    LockTries,  \* SR_LOCKTABLE_TRIES (2 in the code)
    Backend,    \* the RDBMS, of those that have table locks
    Orderly,    \* applications give the rows back last (MayOpenAgain, MayGiveBack)
    None        \* no work area, no owner

ASSUME BoundsAreNat == MaxSess \in Nat /\ SetRetries \in Nat /\ LockTries \in Nat \ {0}
ASSUME NoneIsNone == None \notin Proc \cup Area
ASSUME OrderlyIsBoolean == Orderly \in BOOLEAN
ASSUME KnownBackend == Backend \in {"MSSQL7", "POSTGR", "ORACLE"}

VARIABLES
    rows,       \* SR_MGMNTLOCKS: the session whose row holds each lock, 0 if none
    listed,     \* sessions in the server's list (SYSPROCESSES, pg_stat, v$session)
    nSess,      \* sessions opened so far
    sess,       \* the session of each process, 0 when it is not connected
    area,       \* the work areas of each process
    aExclusive, \* CLASSDATA aExclusive: areas of the process that locked the table
    call        \* the open, lock, unlock or close a process is executing

vars == <<rows, listed, nSess, sess, area, aExclusive, call>>

Lock == {"FLOCK", "EXC", "SHARED"}

(* The rows each stage of a call inserts ("check" to "share") or deletes. *)
LocksOf ==
    [ idle      |-> <<>>,
      check     |-> <<"EXC">>,                     \* LockTable(.T.)
      exclusive |-> <<"FLOCK", "EXC", "SHARED">>,  \* LockTable(.F.)
      flock     |-> <<"FLOCK">>,                   \* LockTable(.F., .T.)
      share     |-> <<"SHARED">>,                  \* sqlOpenArea, shared
      checked   |-> <<"EXC">>,                     \* LockTable(.T.), step 2
      unlock    |-> <<"EXC", "FLOCK">>,            \* UnlockTable()
      closing   |-> <<"EXC", "FLOCK">>,            \* UnlockTable(.T.)
      unshare   |-> <<"SHARED">> ]                 \* sqlClose

Stage == DOMAIN LocksOf

(* Where a call stands: in the three INSERTs of SR_SetLocks and the two    *)
(* housekeepings between them, in the deletion of what a failed request    *)
(* had added, at the return of SR_SetLocks, or in SR_ReleaseLocks.         *)
Setting == {"ins1", "clean1", "ins2", "clean2", "ins3"}
Step == Setting \cup {"granted", "undo", "denied", "delete", "ready"}

AreaState == [open: BOOLEAN, shared: BOOLEAN, lTableLocked: BOOLEAN, lSharedLock: BOOLEAN]

ClosedArea == [open |-> FALSE, shared |-> FALSE, lTableLocked |-> FALSE, lSharedLock |-> FALSE]

Call == [ stage: Stage, at: Step, wa: Area \cup {None}, n: 1..4, k: 0..2,
          nRetries: 0..SetRetries, i: 1..LockTries ]

(* A process outside every call. *)
Ready == [ stage |-> "idle", at |-> "ready", wa |-> None, n |-> 1, k |-> 0,
           nRetries |-> 0, i |-> 1 ]

(* SR_SetLocks is entered for the i-th time with the locks of the stage; only   *)
(* the SHARED lock of an open is requested without retries.                     *)
SetLocks(a, stage, i) ==
    [ stage |-> stage, at |-> "ins1", wa |-> a, n |-> 1, k |-> 0,
      nRetries |-> IF stage = "share" THEN 0 ELSE SetRetries, i |-> i ]

(* SR_ReleaseLocks is entered with the locks of the stage. *)
ReleaseLocks(a, stage) ==
    [ stage |-> stage, at |-> "delete", wa |-> a, n |-> 1, k |-> 0,
      nRetries |-> 0, i |-> 1 ]

(* The same call at its next statement. *)
Advance(c, at, n, k, nRetries) ==
    [ stage |-> c.stage, at |-> at, wa |-> c.wa, n |-> n, k |-> k,
      nRetries |-> nRetries, i |-> c.i ]

CurrentLock(c) == LocksOf[c.stage][c.n]

(* Mutant of Listed: the sweep keeps the rows of the newest session only. *)
ListedNewest(s) == s \in listed /\ s = nSess

(* Rows whose SPID_ is not among the identifiers the housekeeping selects.  *)
(* Under Oracle the row stores the SID of the session but the DELETE keeps  *)
(* the AUDSIDs, numbers of another sequence: no row is ever among them.     *)
Listed(s) == s \in listed /\ Backend # "ORACLE"

Sweep == [l \in Lock |-> IF Listed(rows[l]) THEN rows[l] ELSE 0]

(* Mutant of DeleteOwn: the DELETE does not compare WSID_. *)
DeleteAny(p, l) == [rows EXCEPT ![l] = 0]

(* DELETE ... WHERE LOCK_ = l AND WSID_ = own *)
DeleteOwn(p, l) == [rows EXCEPT ![l] = IF @ = sess[p] THEN 0 ELSE @]

(* The work areas, with area a of process p in state r. *)
SetArea(p, a, r) == [area EXCEPT ![p] = [area[p] EXCEPT ![a] = r]]

SetTableLocked(p, a, b) ==
    LET w == area[p][a] IN
    SetArea(p, a, [ open |-> w.open, shared |-> w.shared,
                    lTableLocked |-> b, lSharedLock |-> w.lSharedLock ])

Init ==
    /\ rows = [l \in Lock |-> 0]
    /\ listed = {}
    /\ nSess = 0
    /\ sess = [p \in Proc |-> 0]
    /\ area = [p \in Proc |-> [a \in Area |-> ClosedArea]]
    /\ aExclusive = [p \in Proc |-> {}]
    /\ call = [p \in Proc |-> Ready]

-----------------------------------------------------------------------------
(* Sessions *)

(* Mutant of Connect: the first housekeeping empties the lock table. *)
ConnectSweepingAll(p) ==
    /\ sess[p] = 0
    /\ nSess < MaxSess
    /\ nSess' = nSess + 1
    /\ sess' = [sess EXCEPT ![p] = nSess + 1]
    /\ listed' = listed \cup {nSess + 1}
    /\ rows' = [l \in Lock |-> 0]
    /\ UNCHANGED <<area, aExclusive, call>>

(* SR_AddConnection: a new session, whose start sweeps the lock table. *)
Connect(p) ==
    /\ sess[p] = 0
    /\ nSess < MaxSess
    /\ nSess' = nSess + 1
    /\ sess' = [sess EXCEPT ![p] = nSess + 1]
    /\ listed' = listed \cup {nSess + 1}
    /\ rows' = Sweep
    /\ UNCHANGED <<area, aExclusive, call>>

(* The process dies with whatever it has locked.  Its rows stay; the server *)
(* lists the session until it notices.                                      *)
Crash(p) ==
    /\ sess[p] # 0
    /\ sess' = [sess EXCEPT ![p] = 0]
    /\ area' = [area EXCEPT ![p] = [a \in Area |-> ClosedArea]]
    /\ aExclusive' = [aExclusive EXCEPT ![p] = {}]
    /\ call' = [call EXCEPT ![p] = Ready]
    /\ UNCHANGED <<rows, listed, nSess>>

(* The server drops the session of a dead process. *)
DropSession(s) ==
    /\ s \in listed
    /\ \A p \in Proc : sess[p] # s
    /\ listed' = listed \ {s}
    /\ UNCHANGED <<rows, nSess, sess, area, aExclusive, call>>

-----------------------------------------------------------------------------
(* SR_SetLocks and SR_ReleaseLocks, one committed statement per step *)

(* INSERT and Commit, when no row has this LOCK_. *)
Insert(p) ==
    LET c == call[p] IN
    /\ c.at \in {"ins1", "ins2", "ins3"}
    /\ rows[CurrentLock(c)] = 0
    /\ rows' = [rows EXCEPT ![CurrentLock(c)] = sess[p]]
    /\ call' = [call EXCEPT ![p] =
                   Advance(c, IF c.n < Len(LocksOf[c.stage]) THEN "ins1" ELSE "granted",
                           c.n + 1, c.k, c.nRetries)]
    /\ UNCHANGED <<listed, nSess, sess, area, aExclusive>>

(* Mutants of InsertFails: retries go on at zero, and never run out. *)
InsertFailsAtZero(p) ==
    LET c == call[p]
        left == IF c.at = "ins3" THEN c.nRetries - 1 ELSE c.nRetries
    IN
    /\ c.at \in {"ins1", "ins2", "ins3"}
    /\ rows[CurrentLock(c)] # 0
    /\ call' = [call EXCEPT ![p] =
                   Advance(c, IF c.at = "ins1" THEN "clean1" ELSE IF left >= 0 THEN "clean2" ELSE "undo",
                           c.n, c.k, left)]
    /\ UNCHANGED <<rows, listed, nSess, sess, area, aExclusive>>

InsertFailsForever(p) ==
    LET c == call[p] IN
    /\ c.at \in {"ins1", "ins2", "ins3"}
    /\ rows[CurrentLock(c)] # 0
    /\ call' = [call EXCEPT ![p] =
                   Advance(c, IF c.at = "ins1" THEN "clean1" ELSE "clean2", c.n, c.k, c.nRetries)]
    /\ UNCHANGED <<rows, listed, nSess, sess, area, aExclusive>>

(* The INSERT violates the unique LOCK_.  nRetries is a budget for all the   *)
(* locks of the request; once it is spent the request is taken back.         *)
InsertFails(p) ==
    LET c == call[p]
        left == IF c.at = "ins3" THEN c.nRetries - 1 ELSE c.nRetries
    IN
    /\ c.at \in {"ins1", "ins2", "ins3"}
    /\ rows[CurrentLock(c)] # 0
    /\ \/ /\ c.at = "ins1"
          /\ call' = [call EXCEPT ![p] = Advance(c, "clean1", c.n, c.k, left)]
       \/ /\ c.at # "ins1" /\ left > 0
          /\ call' = [call EXCEPT ![p] = Advance(c, "clean2", c.n, c.k, left)]
       \/ /\ c.at # "ins1" /\ left = 0
          /\ call' = [call EXCEPT ![p] = Advance(c, "undo", c.n, c.k, left)]
    /\ UNCHANGED <<rows, listed, nSess, sess, area, aExclusive>>

(* Mutant of Housekeeping: the DELETE is not committed. *)
HousekeepingRolledBack(p) ==
    LET c == call[p] IN
    /\ c.at \in {"clean1", "clean2"}
    /\ call' = [call EXCEPT ![p] =
                   Advance(c, IF c.at = "clean1" THEN "ins2" ELSE "ins3", c.n, c.k, c.nRetries)]
    /\ UNCHANGED <<rows, listed, nSess, sess, area, aExclusive>>

(* Housekeeping after a collision. *)
Housekeeping(p) ==
    LET c == call[p] IN
    /\ c.at \in {"clean1", "clean2"}
    /\ rows' = Sweep
    /\ call' = [call EXCEPT ![p] =
                   Advance(c, IF c.at = "clean1" THEN "ins2" ELSE "ins3", c.n, c.k, c.nRetries)]
    /\ UNCHANGED <<listed, nSess, sess, area, aExclusive>>

(* Mutant of UndoSetLocks: the loop stops one lock early. *)
UndoSetLocksShort(p) ==
    LET c == call[p] IN
    /\ c.at = "undo"
    /\ \/ /\ c.k + 1 >= c.n - 1
          /\ call' = [call EXCEPT ![p] = Advance(c, "denied", c.n, c.k, c.nRetries)]
          /\ UNCHANGED rows
       \/ /\ c.k + 1 < c.n - 1
          /\ rows' = DeleteOwn(p, LocksOf[c.stage][c.k + 1])
          /\ call' = [call EXCEPT ![p] = Advance(c, "undo", c.n, c.k + 1, c.nRetries)]
    /\ UNCHANGED <<listed, nSess, sess, area, aExclusive>>

(* The request failed at lock n: the n - 1 locks before it are deleted one   *)
(* by one, k of them so far, and SR_SetLocks returns .F.                     *)
UndoSetLocks(p) ==
    LET c == call[p] IN
    /\ c.at = "undo"
    /\ \/ /\ c.k = c.n - 1
          /\ call' = [call EXCEPT ![p] = Advance(c, "denied", c.n, c.k, c.nRetries)]
          /\ UNCHANGED rows
       \/ /\ c.k < c.n - 1
          /\ rows' = DeleteOwn(p, LocksOf[c.stage][c.k + 1])
          /\ call' = [call EXCEPT ![p] = Advance(c, "undo", c.n, c.k + 1, c.nRetries)]
    /\ UNCHANGED <<listed, nSess, sess, area, aExclusive>>

(* SR_ReleaseLocks deletes the next row. *)
DeleteLock(p) ==
    LET c == call[p] IN
    /\ c.at = "delete"
    /\ c.n <= Len(LocksOf[c.stage])
    /\ rows' = DeleteOwn(p, CurrentLock(c))
    /\ call' = [call EXCEPT ![p] = Advance(c, "delete", c.n + 1, c.k, c.nRetries)]
    /\ UNCHANGED <<listed, nSess, sess, area, aExclusive>>

(* SR_ReleaseLocks has deleted its last row. *)
Released(c) == c.at = "delete" /\ c.n > Len(LocksOf[c.stage])

-----------------------------------------------------------------------------
(* Several areas of a process.  Once one of them has locked the table,       *)
(* LockTable grants it to the others without a row.                          *)

(* Area a of process p has the table, as the application was told: it is open *)
(* exclusive or its FLOCK was answered .T., by whatever path of LockTable, and *)
(* it is not being unlocked or closed.                                         *)
HasTable(p, a) ==
    /\ area[p][a].open
    /\ ~area[p][a].shared \/ area[p][a].lTableLocked
    /\ ~(call[p].wa = a /\ call[p].stage \in {"unlock", "closing", "unshare"})

(* An orderly application asks for the table exclusive, on the rows of       *)
(* another area, only where these are those of an exclusive open too, ...    *)
MayOpenAgain(p) == Orderly => \E b \in aExclusive[p] : ~area[p][b].shared

(* ... and unlocks or closes the area that holds the rows last.  UnlockTable *)
(* takes the rows along, whatever other areas have been granted on them.     *)
MayGiveBack(p, a) == Orderly => \A b \in Area \ {a} : ~HasTable(p, b)

-----------------------------------------------------------------------------
(* Opening the table *)

(* sqlOpenArea, shared: LockTable(.T.) looks for an exclusive user unless an *)
(* area of this process already is in aExclusive.                            *)
OpenShared(p, a) ==
    /\ sess[p] # 0 /\ call[p] = Ready /\ ~area[p][a].open
    /\ call' = [call EXCEPT ![p] =
                   SetLocks(a, IF aExclusive[p] = {} THEN "check" ELSE "share", 1)]
    /\ UNCHANGED <<rows, listed, nSess, sess, area, aExclusive>>

(* Nobody has the table exclusive: LockTable releases the lock it tried. *)
CheckGranted(p) ==
    /\ call[p].at = "granted" /\ call[p].stage = "check"
    /\ call' = [call EXCEPT ![p] = ReleaseLocks(call[p].wa, "checked")]
    /\ UNCHANGED <<rows, listed, nSess, sess, area, aExclusive>>

(* LockTable(.T.) returned .T.: sqlOpenArea asks for the SHARED lock. *)
CheckReleased(p) ==
    /\ Released(call[p]) /\ call[p].stage = "checked"
    /\ call' = [call EXCEPT ![p] = SetLocks(call[p].wa, "share", 1)]
    /\ UNCHANGED <<rows, listed, nSess, sess, area, aExclusive>>

(* Mutant of ShareReturned: lSharedLock is set whatever SR_SetLocks returns. *)
ShareAssumed(p) ==
    LET c == call[p] IN
    /\ c.stage = "share" /\ c.at \in {"granted", "denied"}
    /\ area' = SetArea(p, c.wa, [ open |-> TRUE, shared |-> TRUE,
                               lTableLocked |-> FALSE, lSharedLock |-> TRUE ])
    /\ call' = [call EXCEPT ![p] = Ready]
    /\ UNCHANGED <<rows, listed, nSess, sess, aExclusive>>

(* The answer to the SHARED lock only goes to lSharedLock: the table is open *)
(* either way.                                                               *)
ShareReturned(p) ==
    LET c == call[p] IN
    /\ c.stage = "share" /\ c.at \in {"granted", "denied"}
    /\ area' = SetArea(p, c.wa, [ open |-> TRUE, shared |-> TRUE,
                               lTableLocked |-> FALSE, lSharedLock |-> (c.at = "granted") ])
    /\ call' = [call EXCEPT ![p] = Ready]
    /\ UNCHANGED <<rows, listed, nSess, sess, aExclusive>>

(* sqlOpenArea, exclusive. *)
OpenExclusive(p, a) ==
    /\ sess[p] # 0 /\ call[p] = Ready /\ ~area[p][a].open
    /\ aExclusive[p] = {}
    /\ call' = [call EXCEPT ![p] = SetLocks(a, "exclusive", 1)]
    /\ UNCHANGED <<rows, listed, nSess, sess, area, aExclusive>>

(* sqlOpenArea, exclusive, with an area of the process in aExclusive:        *)
(* LockTable returns .T. at once and sets no lock and no lTableLocked.       *)
OpenExclusiveAgain(p, a) ==
    /\ sess[p] # 0 /\ call[p] = Ready /\ ~area[p][a].open
    /\ aExclusive[p] # {} /\ MayOpenAgain(p)
    /\ area' = SetArea(p, a, [ open |-> TRUE, shared |-> FALSE,
                               lTableLocked |-> FALSE, lSharedLock |-> TRUE ])
    /\ UNCHANGED <<rows, listed, nSess, sess, aExclusive, call>>

(* LockTable(.F.) got its three locks and sqlOpenArea sets lSharedLock. *)
ExclusiveGranted(p) ==
    LET c == call[p] IN
    /\ c.stage = "exclusive" /\ c.at = "granted"
    /\ area' = SetArea(p, c.wa, [ open |-> TRUE, shared |-> FALSE,
                               lTableLocked |-> TRUE, lSharedLock |-> TRUE ])
    /\ aExclusive' = [aExclusive EXCEPT ![p] = @ \cup {c.wa}]
    /\ call' = [call EXCEPT ![p] = Ready]
    /\ UNCHANGED <<rows, listed, nSess, sess>>

(* Mutant of LockTableDenied: lRet keeps its .T. when the tries are over. *)
LockTableGivesIn(p) ==
    LET c == call[p] IN
    /\ c.stage \in {"check", "exclusive", "flock"} /\ c.at = "denied"
    /\ IF c.i < LockTries \/ c.stage # "flock"
       THEN /\ call' = [call EXCEPT ![p] =
                           IF c.i < LockTries THEN SetLocks(c.wa, c.stage, c.i + 1) ELSE Ready]
            /\ UNCHANGED <<area, aExclusive>>
       ELSE /\ call' = [call EXCEPT ![p] = Ready]
            /\ area' = SetTableLocked(p, c.wa, TRUE)
            /\ aExclusive' = [aExclusive EXCEPT ![p] = @ \cup {c.wa}]
    /\ UNCHANGED <<rows, listed, nSess, sess>>

(* The loop of LockTable: try again, or return .F.  The open then fails and  *)
(* its area is closed with nothing to release; an FLOCK leaves all as it was.*)
LockTableDenied(p) ==
    LET c == call[p] IN
    /\ c.stage \in {"check", "exclusive", "flock"} /\ c.at = "denied"
    /\ call' = [call EXCEPT ![p] =
                   IF c.i < LockTries THEN SetLocks(c.wa, c.stage, c.i + 1) ELSE Ready]
    /\ UNCHANGED <<rows, listed, nSess, sess, area, aExclusive>>

-----------------------------------------------------------------------------
(* FLOCK, UNLOCK and CLOSE *)

(* sqlLock, type 3; on an area opened exclusive the RDD does not call it, and *)
(* at EOF() or while appending it answers .T. without it, with nothing        *)
(* locked: this is FLOCK() of an area that stands on a record.                *)
FLock(p, a) ==
    /\ call[p] = Ready /\ area[p][a].open /\ area[p][a].shared
    /\ aExclusive[p] = {}
    /\ call' = [call EXCEPT ![p] = SetLocks(a, "flock", 1)]
    /\ UNCHANGED <<rows, listed, nSess, sess, area, aExclusive>>

(* sqlLock, type 3, with an area of the process in aExclusive: LockTable     *)
(* returns .T. at once and sqlLock sets lTableLocked.                        *)
FLockAgain(p, a) ==
    /\ call[p] = Ready /\ area[p][a].open /\ area[p][a].shared
    /\ aExclusive[p] # {}
    /\ area' = SetTableLocked(p, a, TRUE)
    /\ UNCHANGED <<rows, listed, nSess, sess, aExclusive, call>>

FLockGranted(p) ==
    LET c == call[p] IN
    /\ c.stage = "flock" /\ c.at = "granted"
    /\ area' = SetTableLocked(p, c.wa, TRUE)
    /\ aExclusive' = [aExclusive EXCEPT ![p] = @ \cup {c.wa}]
    /\ call' = [call EXCEPT ![p] = Ready]
    /\ UNCHANGED <<rows, listed, nSess, sess>>

(* sqlUnLock on a shared area: UnlockTable() only if this very area is in    *)
(* aExclusive; lTableLocked is cleared either way.                           *)
Unlock(p, a) ==
    /\ call[p] = Ready /\ area[p][a].open /\ area[p][a].shared
    /\ area[p][a].lTableLocked
    /\ \/ /\ a \in aExclusive[p] /\ MayGiveBack(p, a)
          /\ call' = [call EXCEPT ![p] = ReleaseLocks(a, "unlock")]
          /\ UNCHANGED area
       \/ /\ a \notin aExclusive[p]
          /\ area' = SetTableLocked(p, a, FALSE)
          /\ UNCHANGED call
    /\ UNCHANGED <<rows, listed, nSess, sess, aExclusive>>

(* UnlockTable forgets the lock once its rows are gone. *)
Unlocked(p) ==
    LET c == call[p] IN
    /\ Released(c) /\ c.stage = "unlock"
    /\ area' = SetTableLocked(p, c.wa, FALSE)
    /\ aExclusive' = [aExclusive EXCEPT ![p] = @ \ {c.wa}]
    /\ call' = [call EXCEPT ![p] = Ready]
    /\ UNCHANGED <<rows, listed, nSess, sess>>

(* The end of sqlClose: the SHARED lock, if the area has one, then nothing.  *)
ReleaseShare(p, a) ==
    IF area[p][a].lSharedLock
    THEN /\ call' = [call EXCEPT ![p] = ReleaseLocks(a, "unshare")]
         /\ area' = SetTableLocked(p, a, FALSE)
    ELSE /\ call' = [call EXCEPT ![p] = Ready]
         /\ area' = SetArea(p, a, ClosedArea)

(* sqlClose of an area that locked the table itself: UnlockTable(.T.) first. *)
CloseLocked(p, a) ==
    /\ call[p] = Ready /\ area[p][a].open
    /\ area[p][a].lTableLocked /\ a \in aExclusive[p] /\ MayGiveBack(p, a)
    /\ call' = [call EXCEPT ![p] = ReleaseLocks(a, "closing")]
    /\ UNCHANGED <<rows, listed, nSess, sess, area, aExclusive>>

(* Mutant of CloseUnlocked: the area stays in aExclusive. *)
CloseForgotten(p) ==
    LET c == call[p] IN
    /\ Released(c) /\ c.stage = "closing"
    /\ ReleaseShare(p, c.wa)
    /\ UNCHANGED <<rows, listed, nSess, sess, aExclusive>>

CloseUnlocked(p) ==
    LET c == call[p] IN
    /\ Released(c) /\ c.stage = "closing"
    /\ ReleaseShare(p, c.wa)
    /\ aExclusive' = [aExclusive EXCEPT ![p] = @ \ {c.wa}]
    /\ UNCHANGED <<rows, listed, nSess, sess>>

(* sqlClose of any other area. *)
Close(p, a) ==
    /\ call[p] = Ready /\ area[p][a].open
    /\ ~(area[p][a].lTableLocked /\ a \in aExclusive[p])
    /\ ReleaseShare(p, a)
    /\ UNCHANGED <<rows, listed, nSess, sess, aExclusive>>

Closed(p) ==
    LET c == call[p] IN
    /\ Released(c) /\ c.stage = "unshare"
    /\ area' = SetArea(p, c.wa, ClosedArea)
    /\ call' = [call EXCEPT ![p] = Ready]
    /\ UNCHANGED <<rows, listed, nSess, sess, aExclusive>>

-----------------------------------------------------------------------------

(* A call goes on: everything a process does by itself once it is called. *)
Proceed(p) ==
    \/ Insert(p) \/ InsertFails(p) \/ Housekeeping(p) \/ UndoSetLocks(p) \/ DeleteLock(p)
    \/ CheckGranted(p) \/ CheckReleased(p) \/ ShareReturned(p)
    \/ ExclusiveGranted(p) \/ LockTableDenied(p) \/ FLockGranted(p)
    \/ Unlocked(p) \/ CloseUnlocked(p) \/ Closed(p)

(* The application calls. *)
Request(p) ==
    \/ Connect(p) \/ Crash(p)
    \/ \E a \in Area :
          \/ OpenShared(p, a) \/ OpenExclusive(p, a) \/ OpenExclusiveAgain(p, a)
          \/ FLock(p, a) \/ FLockAgain(p, a) \/ Unlock(p, a)
          \/ CloseLocked(p, a) \/ Close(p, a)

Next ==
    \/ \E p \in Proc : Proceed(p) \/ Request(p)
    \/ \E s \in listed : DropSession(s)

Spec == Init /\ [][Next]_vars

(* A process that is in a call goes on with it: Harbour runs it to its end. *)
FairSpec == Spec /\ \A p \in Proc : WF_vars(Proceed(p))

-----------------------------------------------------------------------------
(* Properties *)

TypeOK ==
    /\ rows \in [Lock -> 0..MaxSess]
    /\ nSess \in 0..MaxSess
    /\ listed \subseteq 1..nSess
    /\ sess \in [Proc -> 0..nSess]
    /\ area \in [Proc -> [Area -> AreaState]]
    /\ aExclusive \in [Proc -> SUBSET Area]
    /\ call \in [Proc -> Call]

(* A process owns the table while one of its areas has it. *)
Owns(p) == \E a \in Area : HasTable(p, a)

(* Two processes never own the table together: SR_SetLocks is all or nothing *)
(* and no failed request, housekeeping or close takes an owner's rows away.  *)
(* Of Orderly applications: with Orderly FALSE a process that has the table  *)
(* exclusive through two areas and closes the first has no row left, and the *)
(* second is still open exclusive.                                           *)
OneOwner == \A p, q \in Proc : Owns(p) /\ Owns(q) => p = q

(* An area that has the table has its process's FLOCK row, and its EXC row if *)
(* it was opened exclusive ("Lock MUST be removed at workarea close", not     *)
(* before), whichever area of the process set them and whatever the others    *)
(* of the process do.  Of Orderly applications.                               *)
OwnerHasRows ==
    \A p \in Proc, a \in Area : HasTable(p, a) =>
        /\ rows["FLOCK"] = sess[p]
        /\ ~area[p][a].shared => rows["EXC"] = sess[p]

(* Outside a call a process has no row it could not account for: a denied    *)
(* open or FLOCK, an UNLOCK and a CLOSE leave nothing behind that would keep *)
(* the others out.                                                           *)
NoLeakedRow ==
    \A p \in Proc : sess[p] # 0 /\ call[p] = Ready =>
        /\ rows["FLOCK"] = sess[p] => aExclusive[p] # {}
        /\ rows["EXC"] = sess[p] => \E a \in aExclusive[p] : ~area[p][a].shared
        /\ rows["SHARED"] = sess[p] => \E a \in Area : area[p][a].lSharedLock

(* A process that was granted the SHARED lock keeps the others from owning   *)
(* the table through an exclusive open, as long as it has one work area on   *)
(* the table (sqlClose deletes the SHARED row whichever area set it).        *)
SharerKeepsExclusiveOut ==
    \A p, q \in Proc, a, b \in Area :
        ~ /\ p # q /\ call[p] = Ready /\ call[q] = Ready
          /\ area[p][a].open /\ area[p][a].shared /\ area[p][a].lSharedLock
          /\ area[q][b].open /\ ~area[q][b].shared /\ b \in aExclusive[q]

(* A row of a connected process disappears only by that process's own step:  *)
(* the housekeeping of the others never removes a living lock.               *)
LiveRowsKept ==
    [][\A p \in Proc, l \in Lock :
          rows[l] = sess[p] /\ sess[p] # 0 /\ rows'[l] # rows[l]
            => call'[p] # call[p]]_vars

(* Every call returns: the retries end, whatever the other processes do.     *)
CallsReturn == \A p \in Proc : call[p] # Ready ~> call[p] = Ready

(* A request that first collides with the row of a session the server has    *)
(* dropped does not stay behind it: the row is swept, unless the requester   *)
(* dies as well.                                                             *)
DeadRowsSwept ==
    \A p \in Proc, l \in Lock :
        (call[p].at = "ins1" /\ CurrentLock(call[p]) = l /\ rows[l] \notin listed \cup {0})
          ~> (rows[l] \in listed \cup {0} \/ sess[p] = 0)

(* The table locks implement ownership of the table. *)
Owner == IF \E p \in Proc : Owns(p) THEN CHOOSE p \in Proc : Owns(p) ELSE None
Ownership == INSTANCE TableOwner WITH owner <- Owner, NoOwner <- None
ImplementsOwnership == Ownership!Spec
=============================================================================
