-------------------------- MODULE TableLocksProofs --------------------------
(***************************************************************************)
(* Proofs about TableLocks, for any number of processes, work areas,       *)
(* sessions and retries, under a backend whose housekeeping recognises     *)
(* living sessions (every one but Oracle, whose sweep TLC refutes).         *)
(*                                                                         *)
(* First the inductive invariant, and from it, of Orderly applications,    *)
(* that there is one owner and it keeps its rows.  Then, about the rows a process has beside *)
(* those of an owner: none is left behind by a call, and with one work     *)
(* area in each process a shared open keeps the exclusive opens of the     *)
(* others out.                                                             *)
(***************************************************************************)
EXTENDS TableLocks, TLAPS

(* The stage tells the phase of the call, and the counters of SR_SetLocks    *)
(* stay within the request.                                                  *)
CallOK(c) ==
    /\ c.at \in Setting \cup {"granted", "undo", "denied"}
         => c.stage \in {"check", "exclusive", "flock", "share"}
    /\ c.at = "delete" => c.stage \in {"checked", "unlock", "closing", "unshare"}
    /\ c.at = "ready" => c.stage = "idle"
    /\ c.stage # "idle" => c.wa \in Area
    /\ c.at \in Setting \cup {"undo"} => c.n <= Len(LocksOf[c.stage])
    /\ c.at = "granted" => c.n = Len(LocksOf[c.stage]) + 1
    /\ c.at \in {"clean2", "ins3"} => c.nRetries > 0

CallInv == \A p \in Proc : CallOK(call[p])

(* Living processes have different sessions, which the server lists. *)
SessInv ==
    \A p \in Proc :
        /\ sess[p] # 0 => sess[p] \in listed
        /\ sess[p] = 0 => /\ call[p] = Ready /\ aExclusive[p] = {}
                          /\ \A a \in Area : ~area[p][a].open
        /\ \A q \in Proc : sess[p] # 0 /\ sess[p] = sess[q] => p = q

(* At most one area of a process is in aExclusive, and it is an open one     *)
(* that knows it; a process that asks for the table owns nothing yet.        *)
AreaOK(p) ==
    LET c == call[p] IN
    /\ \A a, b \in aExclusive[p] : a = b
    /\ \A a \in aExclusive[p] : area[p][a].open /\ area[p][a].lTableLocked
    /\ c.stage \in {"check", "checked", "exclusive", "flock"} => aExclusive[p] = {}
    /\ c.stage \in {"check", "checked", "exclusive", "share"} => ~area[p][c.wa].open
    /\ c.stage = "flock" => area[p][c.wa].open /\ area[p][c.wa].shared
    /\ c.stage \in {"unlock", "closing"} => c.wa \in aExclusive[p]
    /\ c.stage = "unshare" => c.wa \notin aExclusive[p]

AreaInv == \A p \in Proc : AreaOK(p)

(* A process whose aExclusive names the area that holds the rows, and that   *)
(* is not giving them back (UnlockTable removes the entry after the rows).   *)
KeepsTable(p) == aExclusive[p] # {} /\ call[p].stage \notin {"unlock", "closing"}

(* The rows a request has set so far, and the rows aExclusive stands for,    *)
(* are there.                                                                *)
RowOK(p) ==
    LET c == call[p] IN
    /\ c.stage \in {"exclusive", "flock"} /\ c.at \in Setting \cup {"granted"}
         => /\ c.n > 1 => rows["FLOCK"] = sess[p]
            /\ c.stage = "exclusive" /\ c.n > 2 => rows["EXC"] = sess[p]
    /\ KeepsTable(p) =>
         /\ rows["FLOCK"] = sess[p]
         /\ \A a \in aExclusive[p] : ~area[p][a].shared => rows["EXC"] = sess[p]

RowInv == \A p \in Proc : RowOK(p)

IInv == TypeOK /\ CallInv /\ SessInv /\ AreaInv /\ RowInv

-----------------------------------------------------------------------------
(* The requests and releases are short lists of locks. *)
LEMMA LocksOfType ==
    /\ LocksOf.idle = <<>>
    /\ \A s \in {"check", "flock", "share", "checked", "unshare"} : Len(LocksOf[s]) = 1
    /\ \A s \in {"unlock", "closing"} : Len(LocksOf[s]) = 2
    /\ Len(LocksOf["exclusive"]) = 3
    /\ \A s \in Stage : Len(LocksOf[s]) \in 0..3
    /\ \A s \in Stage : \A n \in 1..Len(LocksOf[s]) : LocksOf[s][n] \in Lock
    /\ \A s \in {"exclusive", "flock"} : LocksOf[s][1] = "FLOCK"
    /\ LocksOf["exclusive"][2] = "EXC"
    /\ LocksOf["exclusive"][3] = "SHARED"
    /\ LocksOf["unshare"][1] = "SHARED" /\ LocksOf["share"][1] = "SHARED"
    /\ Stage = {"idle", "check", "exclusive", "flock", "share", "checked", "unlock",
                "closing", "unshare"}
  BY DEF LocksOf, Stage, Lock

(* Work areas and calls stay of their type, and SetArea changes one area. *)
LEMMA SetAreaLemma ==
    ASSUME TypeOK, NEW p \in Proc, NEW a \in Area, NEW r \in AreaState
    PROVE  /\ SetArea(p, a, r) \in [Proc -> [Area -> AreaState]]
           /\ SetArea(p, a, r)[p][a] = r
           /\ \A b \in Area : b # a => SetArea(p, a, r)[p][b] = area[p][b]
           /\ \A q \in Proc : q # p => SetArea(p, a, r)[q] = area[q]
  BY DEF SetArea, TypeOK

LEMMA SetTableLockedLemma ==
    ASSUME TypeOK, NEW p \in Proc, NEW a \in Area, NEW b \in BOOLEAN
    PROVE  \E r \in AreaState :
              /\ SetTableLocked(p, a, b) = SetArea(p, a, r)
              /\ r.open = area[p][a].open /\ r.shared = area[p][a].shared
              /\ r.lTableLocked = b /\ r.lSharedLock = area[p][a].lSharedLock
<1>1. area[p][a] \in AreaState
  BY DEF TypeOK
<1> DEFINE w == area[p][a]
           r == [ open |-> w.open, shared |-> w.shared,
                  lTableLocked |-> b, lSharedLock |-> w.lSharedLock ]
<1>2. r \in AreaState
  BY <1>1 DEF AreaState
<1>3. SetTableLocked(p, a, b) = SetArea(p, a, r)
  BY DEF SetTableLocked
<1> QED
  BY <1>2, <1>3

(* Clearing lTableLocked is a change of one area. *)
LEMMA UnlockedAreaLemma ==
    ASSUME TypeOK, NEW p \in Proc, NEW a \in Area
    PROVE  \E r \in AreaState : SetTableLocked(p, a, FALSE) = SetArea(p, a, r)
<1> DEFINE w == area[p][a]
           r == [ open |-> w.open, shared |-> w.shared,
                  lTableLocked |-> FALSE, lSharedLock |-> w.lSharedLock ]
<1>1. w \in AreaState
  BY DEF TypeOK
<1>2. r \in AreaState
  BY <1>1 DEF AreaState
<1>3. SetTableLocked(p, a, FALSE) = SetArea(p, a, r)
  BY DEF SetTableLocked
<1> QED
  BY <1>2, <1>3

(* The DELETE of one lock clears at most the process's own row. *)
LEMMA DeleteOwnLemma ==
    ASSUME TypeOK, NEW p \in Proc, NEW l \in Lock
    PROVE  /\ DeleteOwn(p, l) \in [Lock -> 0..MaxSess]
           /\ \A m \in Lock : rows[m] # sess[p] => DeleteOwn(p, l)[m] = rows[m]
  BY BoundsAreNat DEF DeleteOwn, TypeOK

(* The calls a step leads to are calls, and a closed area is an area. *)
LEMMA CallTypes ==
    /\ Ready \in Call
    /\ ClosedArea \in AreaState
    /\ \A a \in Area, s \in Stage, i \in 1..LockTries : SetLocks(a, s, i) \in Call
    /\ \A a \in Area, s \in Stage : ReleaseLocks(a, s) \in Call
  BY BoundsAreNat, LocksOfType
     DEF Ready, ClosedArea, AreaState, Call, SetLocks, ReleaseLocks, Step, Setting

LEMMA AdvanceType ==
    ASSUME NEW c \in Call, NEW at \in Step, NEW n \in 1..4, NEW k \in 0..2,
           NEW nRetries \in 0..SetRetries
    PROVE  Advance(c, at, n, k, nRetries) \in Call
  BY DEF Advance, Call

(* The fields of a call, and the row its statement works on. *)
LEMMA CallFacts ==
    ASSUME IInv, NEW p \in Proc
    PROVE  /\ call[p] \in Call /\ CallOK(call[p])
           /\ call[p].stage \in Stage /\ call[p].at \in Step
           /\ call[p].n \in 1..4 /\ call[p].k \in 0..2
           /\ call[p].nRetries \in 0..SetRetries /\ call[p].i \in 1..LockTries
           /\ Len(LocksOf[call[p].stage]) \in 0..3
           /\ call[p].n <= Len(LocksOf[call[p].stage])
                => CurrentLock(call[p]) \in Lock /\ call[p].n \in 1..3
<1> DEFINE c == call[p]
<1>1. c \in Call /\ CallOK(c)
  BY DEF IInv, TypeOK, CallInv
<1>2. /\ c.stage \in Stage /\ c.at \in Step /\ c.n \in 1..4 /\ c.k \in 0..2
      /\ c.nRetries \in 0..SetRetries /\ c.i \in 1..LockTries
  BY <1>1 DEF Call
<1>3. Len(LocksOf[c.stage]) \in 0..3
  BY <1>2, LocksOfType
<1> HIDE DEF c
<1>4. ASSUME c.n <= Len(LocksOf[c.stage])
      PROVE  CurrentLock(c) \in Lock /\ c.n \in 1..3
  <2>1. c.n \in 1..Len(LocksOf[c.stage])
    BY <1>2, <1>3, <1>4
  <2>2. LocksOf[c.stage][c.n] \in Lock
    BY <1>2, <2>1, LocksOfType
  <2> QED
    BY <1>2, <1>3, <1>4, <2>2 DEF CurrentLock
<1> QED
  BY <1>1, <1>2, <1>3, <1>4 DEF c

(* sqlClose, after UnlockTable: whether or not the area had a SHARED lock,   *)
(* only the state of that area and the call change.                          *)
LEMMA ReleaseShareLemma ==
    ASSUME TypeOK, NEW p \in Proc, NEW a \in Area, ReleaseShare(p, a)
    PROVE  \E r \in AreaState, d \in {Ready, ReleaseLocks(a, "unshare")} :
              area' = SetArea(p, a, r) /\ call' = [call EXCEPT ![p] = d]
<1>1. CASE area[p][a].lSharedLock
  BY <1>1, SetTableLockedLemma DEF ReleaseShare
<1>2. CASE ~area[p][a].lSharedLock
  BY <1>2, CallTypes DEF ReleaseShare
<1> QED
  BY <1>1, <1>2

LEMMA InitIInv == Init => IInv
  BY BoundsAreNat DEF Init, IInv, TypeOK, CallInv, SessInv, AreaInv, RowInv,
     CallOK, AreaOK, RowOK, Ready, Setting, ClosedArea,
     AreaState, Call, KeepsTable, Lock, Stage, LocksOf, Step

LEMMA NextIInv ==
    ASSUME Backend # "ORACLE", IInv, [Next]_vars
    PROVE  IInv'
<1> USE BoundsAreNat, LocksOfType DEF IInv, Lock
<1>1. ASSUME NEW p \in Proc, Connect(p)
     PROVE  IInv'
  <2>1. TypeOK'
    BY <1>1, SMTT(60) DEF TypeOK, Sweep, Connect
  <2>2. CallInv'
    BY <1>1, SMTT(30) DEF TypeOK, Call, CallInv, CallOK, SessInv, Setting, Sweep, Listed, Ready, Connect
  <2>3. SessInv'
    BY <1>1 DEF TypeOK, SessInv, CallInv, CallOK, Ready, SetLocks, ReleaseLocks, Sweep, Listed, Connect
  <2>4. AreaInv'
    BY <1>1, SMTT(30) DEF TypeOK, Call, CallInv, CallOK, SessInv, AreaInv, AreaOK, Sweep, Listed, Ready, Connect
  <2>5. RowInv'
    BY <1>1, SMTT(30) DEF TypeOK, Call, Lock, CallInv, CallOK, SessInv, AreaInv, AreaOK, RowInv, RowOK, KeepsTable, Sweep, Listed, Ready, Connect
  <2> QED
    BY <2>1, <2>2, <2>3, <2>4, <2>5
<1>2. ASSUME NEW p \in Proc, Crash(p)
     PROVE  IInv'
  <2>1. TypeOK'
    BY <1>2, SMTT(60) DEF TypeOK, Call, Step, CallInv, CallOK, Ready, ClosedArea, AreaState, SetArea, SetTableLocked, Crash
  <2>2. CallInv'
    BY <1>2, SMTT(30) DEF TypeOK, Call, CallInv, CallOK, SessInv, Setting, Ready, ClosedArea, AreaState, SetArea, SetTableLocked, Crash
  <2>3. SessInv'
    BY <1>2 DEF TypeOK, SessInv, CallInv, CallOK, Ready, SetLocks, ReleaseLocks, ClosedArea, AreaState, SetArea, SetTableLocked, Crash
  <2>4. AreaInv'
    BY <1>2, SMTT(30) DEF TypeOK, Call, CallInv, CallOK, SessInv, AreaInv, AreaOK, Ready, ClosedArea, AreaState, SetArea, SetTableLocked, Crash
  <2>5. RowInv'
    BY <1>2, SMTT(30) DEF TypeOK, Call, Lock, CallInv, CallOK, SessInv, AreaInv, AreaOK, RowInv, RowOK, KeepsTable, Ready, ClosedArea, AreaState, SetArea, SetTableLocked, Crash
  <2> QED
    BY <2>1, <2>2, <2>3, <2>4, <2>5
<1>3. ASSUME NEW p \in Proc, Insert(p)
     PROVE  IInv'
  <2> DEFINE c == call[p]
  <2>a. /\ c \in Call /\ CallOK(c) /\ c.n \in 1..4 /\ c.k \in 0..2 /\ c.nRetries \in 0..SetRetries
        /\ c.stage \in Stage /\ Len(LocksOf[c.stage]) \in 0..3
        /\ c.n <= Len(LocksOf[c.stage]) => CurrentLock(c) \in Lock /\ c.n \in 1..3
    BY CallFacts
  <2>b. /\ c.at \in Setting /\ rows[CurrentLock(c)] = 0 /\ c.n \in 1..3
        /\ CurrentLock(c) \in Lock
        /\ rows' = [rows EXCEPT ![CurrentLock(c)] = sess[p]]
        /\ UNCHANGED <<listed, nSess, sess, area, aExclusive>>
    BY <1>3, <2>a DEF Insert, Setting, CallOK
  <2>c. PICK at \in {"ins1", "granted"} :
          /\ at = (IF c.n < Len(LocksOf[c.stage]) THEN "ins1" ELSE "granted")
          /\ call' = [call EXCEPT ![p] = Advance(c, at, c.n + 1, c.k, c.nRetries)]
    BY <1>3 DEF Insert
  <2> DEFINE d == Advance(c, at, c.n + 1, c.k, c.nRetries)
  <2>d. d \in Call /\ d.stage = c.stage /\ d.at = at /\ d.wa = c.wa /\ d.n = c.n + 1
    <3>1. at \in Step /\ c.n + 1 \in 1..4
      BY <2>b DEF Step, Setting
    <3>2. d \in Call
      BY <2>a, <3>1, AdvanceType
    <3> QED
      BY <3>2 DEF Advance
  <2>e. call' = [call EXCEPT ![p] = d]
    BY <2>c
  <2>f. sess[p] # 0 /\ sess[p] \in 0..MaxSess
    BY <2>b DEF SessInv, Setting, Ready, TypeOK
  <2> HIDE DEF c, d
  <2>1. TypeOK'
    BY <2>b, <2>d, <2>e, <2>f DEF TypeOK
  <2>2. CallInv'
    <3>1. CallOK(d)
      BY <2>a, <2>b, <2>c, <2>d DEF CallOK, Setting
    <3> QED
      BY <2>e, <3>1 DEF TypeOK, CallInv
  <2>3. SessInv'
    BY <2>b, <2>e, <2>f DEF TypeOK, SessInv
  <2>4. AreaInv'
    BY <2>b, <2>d, <2>e DEF TypeOK, AreaInv, AreaOK, c
  <2>5. RowInv'
    <3>1. \A l \in Lock : rows[l] # 0 => rows'[l] = rows[l]
      BY <2>b DEF TypeOK
    <3>2. ASSUME NEW q \in Proc, q # p
          PROVE  RowOK(q)'
      <4>1. RowOK(q) /\ call'[q] = call[q] /\ (sess[q] = 0 => call[q] = Ready /\ aExclusive[q] = {})
        BY <2>e, <3>2 DEF TypeOK, RowInv, SessInv
      <4> QED
        BY <2>b, <3>1, <4>1 DEF RowOK, KeepsTable, Setting, Ready
    <3>3. RowOK(p)'
      <4>1. RowOK(p) /\ call'[p] = d
        BY <2>e DEF TypeOK, RowInv
      <4>2. /\ c.stage \in {"exclusive", "flock"} /\ c.n = 1 => CurrentLock(c) = "FLOCK"
            /\ c.stage = "exclusive" /\ c.n = 2 => CurrentLock(c) = "EXC"
        BY LocksOfType DEF CurrentLock
      <4> QED
        BY <2>a, <2>b, <2>d, <2>f, <3>1, <4>1, <4>2 DEF RowOK, KeepsTable, TypeOK, c
    <3> QED
      BY <3>2, <3>3 DEF RowInv
  <2> QED
    BY <2>1, <2>2, <2>3, <2>4, <2>5
<1>4. ASSUME NEW p \in Proc, InsertFails(p)
     PROVE  IInv'
  <2> DEFINE c == call[p]
  <2>a. /\ c \in Call /\ CallOK(c) /\ c.n \in 1..4 /\ c.k \in 0..2 /\ c.nRetries \in 0..SetRetries
        /\ c.stage \in Stage /\ Len(LocksOf[c.stage]) \in 0..3
        /\ c.n <= Len(LocksOf[c.stage]) => CurrentLock(c) \in Lock /\ c.n \in 1..3
    BY CallFacts
  <2>b. /\ c.at \in Setting /\ c.n <= Len(LocksOf[c.stage])
        /\ UNCHANGED <<rows, listed, nSess, sess, area, aExclusive>>
    BY <1>4, <2>a DEF InsertFails, Setting, CallOK
  <2>c. PICK at \in {"clean1", "clean2", "undo"}, left \in 0..SetRetries :
          /\ at = "clean2" => left > 0
          /\ call' = [call EXCEPT ![p] = Advance(c, at, c.n, c.k, left)]
    BY <1>4, <2>a DEF InsertFails, CallOK
  <2> DEFINE d == Advance(c, at, c.n, c.k, left)
  <2>d. /\ d \in Call /\ d.stage = c.stage /\ d.at = at /\ d.wa = c.wa /\ d.n = c.n
        /\ d.nRetries = left
    <3>1. at \in Step
      BY <2>a DEF Step, Setting
    <3>2. d \in Call
      BY <2>a, <3>1, AdvanceType
    <3> QED
      BY <3>2 DEF Advance
  <2>e. call' = [call EXCEPT ![p] = d]
    BY <2>c
  <2>f. sess[p] # 0
    BY <2>b DEF SessInv, Setting, Ready
  <2> HIDE DEF c, d
  <2>1. TypeOK'
    BY <2>b, <2>d, <2>e DEF TypeOK
  <2>2. CallInv'
    <3>1. CallOK(d)
      BY <2>a, <2>b, <2>c, <2>d DEF CallOK, Setting
    <3> QED
      BY <2>e, <3>1 DEF TypeOK, CallInv
  <2>3. SessInv'
    BY <2>b, <2>e, <2>f DEF TypeOK, SessInv
  <2>4. AreaInv'
    BY <2>b, <2>d, <2>e DEF TypeOK, AreaInv, AreaOK, c
  <2>5. RowInv'
    <3>1. d.at \in Setting \cup {"granted"} => c.at \in Setting
      BY <2>b
    <3> QED
      BY <2>b, <2>d, <2>e, <3>1 DEF TypeOK, RowInv, RowOK, KeepsTable, c
  <2> QED
    BY <2>1, <2>2, <2>3, <2>4, <2>5
<1>5. ASSUME NEW p \in Proc, Housekeeping(p)
     PROVE  IInv'
  <2> DEFINE c == call[p]
  <2>a. /\ c \in Call /\ CallOK(c) /\ c.n \in 1..4 /\ c.k \in 0..2 /\ c.nRetries \in 0..SetRetries
        /\ c.stage \in Stage
    BY CallFacts
  <2>b. /\ c.at \in {"clean1", "clean2"} /\ c.at \in Setting
        /\ rows' = Sweep /\ UNCHANGED <<listed, nSess, sess, area, aExclusive>>
    BY <1>5 DEF Housekeeping, Setting
  <2> DEFINE at == IF c.at = "clean1" THEN "ins2" ELSE "ins3"
             d  == Advance(c, at, c.n, c.k, c.nRetries)
  <2>c. call' = [call EXCEPT ![p] = d]
    BY <1>5 DEF Housekeeping
  <2>d. at \in {"ins2", "ins3"} /\ (at = "ins3" => c.nRetries > 0)
    BY <2>a, <2>b DEF CallOK
  <2> HIDE DEF at
  <2>e. /\ d \in Call /\ d.stage = c.stage /\ d.at = at /\ d.wa = c.wa /\ d.n = c.n
        /\ d.nRetries = c.nRetries
    <3>1. at \in Step
      BY <2>d DEF Step, Setting
    <3>2. d \in Call
      BY <2>a, <3>1, AdvanceType
    <3> QED
      BY <3>2 DEF Advance
  <2>f. sess[p] # 0
    BY <2>b DEF SessInv, Setting, Ready
  <2>g. /\ rows' \in [Lock -> 0..MaxSess]
        /\ \A l \in Lock : rows[l] \in listed => rows'[l] = rows[l]
    BY <2>b DEF TypeOK, Sweep, Listed
  <2>h. \A q \in Proc : /\ sess[q] # 0 => sess[q] \in listed
                        /\ \A l \in Lock : sess[q] # 0 /\ rows[l] = sess[q] => rows'[l] = sess[q]
    BY <2>g DEF SessInv
  <2> HIDE DEF c, d
  <2>1. TypeOK'
    BY <2>b, <2>c, <2>e, <2>g DEF TypeOK
  <2>2. CallInv'
    <3>1. CallOK(d)
      BY <2>a, <2>b, <2>d, <2>e DEF CallOK, Setting
    <3> QED
      BY <2>c, <3>1 DEF TypeOK, CallInv
  <2>3. SessInv'
    BY <2>b, <2>c, <2>f DEF TypeOK, SessInv
  <2>4. AreaInv'
    BY <2>b, <2>c, <2>e DEF TypeOK, AreaInv, AreaOK, c
  <2>5. RowInv'
    <3>1. ASSUME NEW q \in Proc, q # p
          PROVE  RowOK(q)'
      <4>1. /\ RowOK(q) /\ call'[q] = call[q]
            /\ sess[q] = 0 => call[q] = Ready /\ aExclusive[q] = {}
        BY <2>c, <3>1 DEF TypeOK, RowInv, SessInv
      <4> QED
        BY <2>b, <2>h, <4>1 DEF RowOK, KeepsTable, Setting, Ready
    <3>2. RowOK(p)'
      <4>1. RowOK(p) /\ call'[p] = d
        BY <2>c DEF TypeOK, RowInv
      <4> QED
        BY <2>b, <2>d, <2>e, <2>f, <2>h, <4>1 DEF RowOK, KeepsTable, Setting, c
    <3> QED
      BY <3>1, <3>2 DEF RowInv
  <2> QED
    BY <2>1, <2>2, <2>3, <2>4, <2>5
<1>6. ASSUME NEW p \in Proc, UndoSetLocks(p)
     PROVE  IInv'
  <2> DEFINE c == call[p]
  <2>a. /\ c \in Call /\ CallOK(c) /\ c.n \in 1..4 /\ c.k \in 0..2 /\ c.nRetries \in 0..SetRetries
        /\ c.stage \in Stage /\ Len(LocksOf[c.stage]) \in 0..3
        /\ c.n <= Len(LocksOf[c.stage]) => CurrentLock(c) \in Lock /\ c.n \in 1..3
    BY CallFacts
  <2>b. /\ c.at = "undo" /\ c.n <= Len(LocksOf[c.stage]) /\ c.n \in 1..3
        /\ c.stage \in {"check", "exclusive", "flock", "share"}
        /\ UNCHANGED <<listed, nSess, sess, area, aExclusive>>
    BY <1>6, <2>a DEF UndoSetLocks, CallOK
  <2>c. PICK at \in {"denied", "undo"}, k \in 0..2 :
          call' = [call EXCEPT ![p] = Advance(c, at, c.n, k, c.nRetries)]
    BY <1>6, <2>a, <2>b DEF UndoSetLocks
  <2> DEFINE d == Advance(c, at, c.n, k, c.nRetries)
  <2>d. /\ d \in Call /\ d.stage = c.stage /\ d.at = at /\ d.wa = c.wa /\ d.n = c.n
        /\ d.nRetries = c.nRetries
    <3>1. at \in Step
      BY <2>a DEF Step, Setting
    <3>2. d \in Call
      BY <2>a, <3>1, AdvanceType
    <3> QED
      BY <3>2 DEF Advance
  <2>e. call' = [call EXCEPT ![p] = d]
    BY <2>c
  <2>f. sess[p] # 0
    BY <2>b DEF SessInv, Ready, c
  <2>g. rows' \in [Lock -> 0..MaxSess] /\ (\A l \in Lock : rows[l] # sess[p] => rows'[l] = rows[l])
    <3>1. CASE c.k = c.n - 1
      BY <1>6, <2>b, <3>1 DEF UndoSetLocks, TypeOK
    <3>2. CASE c.k # c.n - 1
      <4>1. rows' = DeleteOwn(p, LocksOf[c.stage][c.k + 1]) /\ c.k < c.n - 1
        BY <1>6, <3>2 DEF UndoSetLocks
      <4>2. c.k + 1 \in 1..Len(LocksOf[c.stage])
        <5> HIDE DEF c
        <5> QED
          BY <2>a, <2>b, <4>1
      <4>3. LocksOf[c.stage][c.k + 1] \in Lock
        BY <2>a, <4>2, LocksOfType
      <4>4. PICK l \in Lock : rows' = DeleteOwn(p, l)
        BY <4>1, <4>3
      <4>5. TypeOK
        OBVIOUS
      <4> HIDE BoundsAreNat, LocksOfType DEF IInv, Lock, c
      <4> QED
        BY <4>4, <4>5, DeleteOwnLemma
    <3> QED
      BY <3>1, <3>2
  <2>h. c.stage # "share" => aExclusive[p] = {}
    BY <2>b DEF AreaInv, AreaOK
  <2>i. c.stage = "share" => rows' = rows
    BY <1>6, <2>a, <2>b DEF UndoSetLocks
  <2> HIDE DEF c, d
  <2>1. TypeOK'
    BY <2>b, <2>d, <2>e, <2>g DEF TypeOK
  <2>2. CallInv'
    <3>1. CallOK(d)
      BY <2>a, <2>b, <2>c, <2>d DEF CallOK, Setting
    <3> QED
      BY <2>e, <3>1 DEF TypeOK, CallInv
  <2>3. SessInv'
    BY <2>b, <2>e, <2>f DEF TypeOK, SessInv
  <2>4. AreaInv'
    BY <2>b, <2>d, <2>e DEF TypeOK, AreaInv, AreaOK, c
  <2>5. RowInv'
    <3>1. ASSUME NEW q \in Proc, q # p
          PROVE  RowOK(q)'
      <4>1. RowOK(q) /\ call'[q] = call[q] /\ (sess[q] = 0 => call[q] = Ready /\ aExclusive[q] = {})
            /\ (sess[q] # 0 => sess[q] # sess[p])
        BY <2>e, <3>1 DEF TypeOK, RowInv, SessInv
      <4> QED
        BY <2>b, <2>g, <4>1 DEF RowOK, KeepsTable, Setting, Ready
    <3>2. RowOK(p)'
      BY <2>b, <2>c, <2>d, <2>e, <2>h, <2>i DEF TypeOK, RowInv, RowOK, KeepsTable, Setting, c
    <3> QED
      BY <3>1, <3>2 DEF RowInv
  <2> QED
    BY <2>1, <2>2, <2>3, <2>4, <2>5
<1>7. ASSUME NEW p \in Proc, DeleteLock(p)
     PROVE  IInv'
  <2> DEFINE c == call[p]
  <2>a. /\ c \in Call /\ CallOK(c) /\ c.n \in 1..4 /\ c.k \in 0..2 /\ c.nRetries \in 0..SetRetries
        /\ c.stage \in Stage /\ Len(LocksOf[c.stage]) \in 0..3
        /\ c.n <= Len(LocksOf[c.stage]) => CurrentLock(c) \in Lock /\ c.n \in 1..3
    BY CallFacts
  <2>b. /\ c.at = "delete" /\ c.n <= Len(LocksOf[c.stage]) /\ c.n \in 1..3
        /\ CurrentLock(c) \in Lock
        /\ c.stage \in {"checked", "unlock", "closing", "unshare"}
        /\ UNCHANGED <<listed, nSess, sess, area, aExclusive>>
    BY <1>7, <2>a DEF DeleteLock, CallOK
  <2> DEFINE d == Advance(c, "delete", c.n + 1, c.k, c.nRetries)
  <2>d. d \in Call /\ d.stage = c.stage /\ d.at = "delete" /\ d.wa = c.wa
    <3>1. "delete" \in Step /\ c.n + 1 \in 1..4
      BY <2>b DEF Step, Setting
    <3>2. d \in Call
      BY <2>a, <3>1, AdvanceType
    <3> QED
      BY <3>2 DEF Advance
  <2>e. call' = [call EXCEPT ![p] = d]
    BY <1>7 DEF DeleteLock
  <2>f. sess[p] # 0
    BY <2>b DEF SessInv, Ready
  <2>g. /\ rows' \in [Lock -> 0..MaxSess]
        /\ \A l \in Lock : rows[l] # sess[p] \/ l # CurrentLock(c) => rows'[l] = rows[l]
    BY <1>7, <2>b DEF DeleteLock, DeleteOwn, TypeOK
  <2>h. c.stage = "checked" => aExclusive[p] = {}
    BY <2>b DEF AreaInv, AreaOK
  <2>i. c.stage = "unshare" => CurrentLock(c) = "SHARED"
    <3>1. c.stage = "unshare" => c.n = 1
      BY <2>b, LocksOfType
    <3> QED
      BY <3>1, LocksOfType DEF CurrentLock
  <2> HIDE DEF c, d
  <2>1. TypeOK'
    BY <2>b, <2>d, <2>e, <2>g DEF TypeOK
  <2>2. CallInv'
    <3>1. CallOK(d)
      BY <2>a, <2>b, <2>d DEF CallOK, Setting
    <3> QED
      BY <2>e, <3>1 DEF TypeOK, CallInv
  <2>3. SessInv'
    BY <2>b, <2>e, <2>f DEF TypeOK, SessInv
  <2>4. AreaInv'
    BY <2>b, <2>d, <2>e DEF TypeOK, AreaInv, AreaOK, c
  <2>5. RowInv'
    <3>1. ASSUME NEW q \in Proc, q # p
          PROVE  RowOK(q)'
      <4>1. RowOK(q) /\ call'[q] = call[q] /\ (sess[q] = 0 => call[q] = Ready /\ aExclusive[q] = {})
            /\ (sess[q] # 0 => sess[q] # sess[p])
        BY <2>e, <3>1 DEF TypeOK, RowInv, SessInv
      <4> QED
        BY <2>b, <2>g, <4>1 DEF RowOK, KeepsTable, Setting, Ready
    <3>2. RowOK(p)'
      BY <2>b, <2>d, <2>e, <2>g, <2>h, <2>i, SMTT(30) DEF TypeOK, RowInv, RowOK, KeepsTable, Setting, c
    <3> QED
      BY <3>1, <3>2 DEF RowInv
  <2> QED
    BY <2>1, <2>2, <2>3, <2>4, <2>5
<1>8. ASSUME NEW p \in Proc, CheckGranted(p)
     PROVE  IInv'
  <2>1. TypeOK'
    BY <1>8, SMTT(30) DEF TypeOK, Call, Step, CallInv, CallOK, ReleaseLocks, Setting, CheckGranted
  <2>2. CallInv'
    BY <1>8, SMTT(30) DEF TypeOK, Call, CallInv, CallOK, SessInv, Setting, ReleaseLocks, CheckGranted
  <2>3. SessInv'
    BY <1>8 DEF TypeOK, SessInv, CallInv, CallOK, Ready, SetLocks, ReleaseLocks, Setting, CheckGranted
  <2>4. AreaInv'
    BY <1>8, SMTT(30) DEF TypeOK, Call, CallInv, CallOK, SessInv, AreaInv, AreaOK, ReleaseLocks, Setting, CheckGranted
  <2>5. RowInv'
    BY <1>8, SMTT(30) DEF TypeOK, Call, Lock, CallInv, CallOK, SessInv, AreaInv, AreaOK, RowInv, RowOK, KeepsTable, ReleaseLocks, Setting, CheckGranted
  <2> QED
    BY <2>1, <2>2, <2>3, <2>4, <2>5
<1>9. ASSUME NEW p \in Proc, CheckReleased(p)
     PROVE  IInv'
  <2>1. TypeOK'
    BY <1>9, SMTT(60) DEF TypeOK, Call, Step, CallInv, CallOK, Released, SetLocks, Setting, CheckReleased
  <2>2. CallInv'
    BY <1>9, SMTT(30) DEF TypeOK, Call, CallInv, CallOK, SessInv, Setting, Released, SetLocks, CheckReleased
  <2>3. SessInv'
    BY <1>9 DEF TypeOK, SessInv, CallInv, CallOK, Ready, SetLocks, ReleaseLocks, Released, Setting, CheckReleased
  <2>4. AreaInv'
    BY <1>9, SMTT(60) DEF TypeOK, Call, CallInv, CallOK, SessInv, AreaInv, AreaOK, Released, SetLocks, Setting, CheckReleased
  <2>5. RowInv'
    BY <1>9, SMTT(60) DEF TypeOK, Call, Lock, CallInv, CallOK, SessInv, AreaInv, AreaOK, RowInv, RowOK, KeepsTable, Released, SetLocks, Setting, CheckReleased
  <2> QED
    BY <2>1, <2>2, <2>3, <2>4, <2>5
<1>10. ASSUME NEW p \in Proc, ShareReturned(p)
     PROVE  IInv'
  <2>1. TypeOK'
    BY <1>10 DEF TypeOK, Call, Step, CallInv, CallOK, Ready, AreaState, SetArea, SetTableLocked, Setting, ShareReturned
  <2>2. CallInv'
    BY <1>10, SMTT(30) DEF TypeOK, Call, CallInv, CallOK, SessInv, Setting, Ready, AreaState, SetArea, SetTableLocked, ShareReturned
  <2>3. SessInv'
    BY <1>10 DEF TypeOK, SessInv, CallInv, CallOK, Ready, SetLocks, ReleaseLocks, AreaState, SetArea, SetTableLocked, Setting, ShareReturned
  <2>4. AreaInv'
    BY <1>10, SMTT(30) DEF TypeOK, Call, CallInv, CallOK, SessInv, AreaInv, AreaOK, Ready, AreaState, SetArea, SetTableLocked, Setting, ShareReturned
  <2>5. RowInv'
    BY <1>10, SMTT(30) DEF TypeOK, Call, Lock, CallInv, CallOK, SessInv, AreaInv, AreaOK, RowInv, RowOK, KeepsTable, Ready, AreaState, SetArea, SetTableLocked, Setting, ShareReturned
  <2> QED
    BY <2>1, <2>2, <2>3, <2>4, <2>5
<1>11. ASSUME NEW p \in Proc, ExclusiveGranted(p)
     PROVE  IInv'
  <2> DEFINE w == call[p].wa
             r == [ open |-> TRUE, shared |-> FALSE,
                    lTableLocked |-> TRUE, lSharedLock |-> TRUE ]
  <2>a. call[p] \in Call /\ CallOK(call[p]) /\ AreaOK(p) /\ RowOK(p)
    BY CallFacts DEF AreaInv, RowInv
  <2>b. /\ w \in Area /\ aExclusive[p] = {} /\ call[p].stage = "exclusive"
        /\ rows["FLOCK"] = sess[p] /\ rows["EXC"] = sess[p]
    BY <1>11, <2>a, LocksOfType DEF ExclusiveGranted, CallOK, AreaOK, RowOK, Setting
  <2>c. /\ aExclusive' = [aExclusive EXCEPT ![p] = {w}] /\ call' = [call EXCEPT ![p] = Ready]
        /\ UNCHANGED <<rows, listed, nSess, sess>> /\ area' = SetArea(p, w, r)
    BY <1>11, <2>b DEF ExclusiveGranted
  <2>d. r \in AreaState /\ r.open /\ r.lTableLocked
    BY DEF AreaState
  <2> HIDE DEF w, r
  <2>e. /\ area' \in [Proc -> [Area -> AreaState]] /\ area'[p][w] = r
        /\ \A q \in Proc : q # p => area'[q] = area[q]
    BY <2>b, <2>c, <2>d, SetAreaLemma
  <2>f. sess[p] # 0
    BY <2>b DEF SessInv, Ready, w
  <2>1. TypeOK'
    <3>1. {w} \in SUBSET Area
      BY <2>b
    <3>2. aExclusive' \in [Proc -> SUBSET Area] /\ call' \in [Proc -> Call]
      BY <2>c, <3>1, CallTypes DEF TypeOK
    <3> QED
      BY <2>c, <2>e, <3>2 DEF TypeOK
  <2>2. CallInv'
    <3>1. CallOK(Ready)
      BY DEF CallOK, Ready, Setting
    <3> QED
      BY <2>c, <3>1 DEF TypeOK, CallInv
  <2>3. SessInv'
    BY <2>c, <2>e, <2>f DEF TypeOK, SessInv
  <2>4. AreaInv'
    <3>1. AreaOK(p)'
      <4>1. aExclusive'[p] = {w} /\ call'[p] = Ready
        BY <2>c DEF TypeOK
      <4>2. area'[p][w].open /\ area'[p][w].lTableLocked
        BY <2>d, <2>e, Zenon
      <4>3. Ready.stage = "idle"
        BY DEF Ready
      <4> QED
        BY <4>1, <4>2, <4>3 DEF AreaOK
    <3>2. ASSUME NEW q \in Proc, q # p
          PROVE  AreaOK(q)'
      BY <2>c, <2>e, <3>2 DEF TypeOK, AreaInv, AreaOK
    <3> QED
      BY <3>1, <3>2 DEF AreaInv
  <2>5. RowInv'
    <3>1. RowOK(p)'
      <4>1. aExclusive'[p] = {w} /\ call'[p] = Ready
        BY <2>c DEF TypeOK
      <4> QED
        BY <2>b, <2>c, <4>1 DEF RowOK, Ready, KeepsTable, Setting
    <3>2. ASSUME NEW q \in Proc, q # p
          PROVE  RowOK(q)'
      BY <2>c, <2>e, <3>2 DEF TypeOK, RowInv, RowOK, KeepsTable
    <3> QED
      BY <3>1, <3>2 DEF RowInv
  <2> QED
    BY <2>1, <2>2, <2>3, <2>4, <2>5
<1>12. ASSUME NEW p \in Proc, LockTableDenied(p)
     PROVE  IInv'
  <2>1. TypeOK'
    BY <1>12, SMTT(30) DEF TypeOK, Call, Step, CallInv, CallOK, Ready, SetLocks, Setting, LockTableDenied
  <2>2. CallInv'
    BY <1>12, SMTT(60) DEF TypeOK, Call, CallInv, CallOK, SessInv, Setting, Ready, SetLocks, LockTableDenied
  <2>3. SessInv'
    BY <1>12 DEF TypeOK, SessInv, CallInv, CallOK, Ready, SetLocks, ReleaseLocks, Setting, LockTableDenied
  <2>4. AreaInv'
    BY <1>12, SMTT(60) DEF TypeOK, Call, CallInv, CallOK, SessInv, AreaInv, AreaOK, Ready, SetLocks, Setting, LockTableDenied
  <2>5. RowInv'
    BY <1>12, SMTT(30) DEF TypeOK, Call, Lock, CallInv, CallOK, SessInv, AreaInv, AreaOK, RowInv, RowOK, KeepsTable, Ready, SetLocks, Setting, LockTableDenied
  <2> QED
    BY <2>1, <2>2, <2>3, <2>4, <2>5
<1>13. ASSUME NEW p \in Proc, FLockGranted(p)
     PROVE  IInv'
  <2> DEFINE w == call[p].wa
  <2>a. call[p] \in Call /\ CallOK(call[p]) /\ AreaOK(p) /\ RowOK(p)
    BY CallFacts DEF AreaInv, RowInv
  <2>b. /\ w \in Area /\ aExclusive[p] = {} /\ area[p][w].shared /\ rows["FLOCK"] = sess[p]
        /\ call[p].stage = "flock"
    BY <1>13, <2>a, LocksOfType DEF FLockGranted, CallOK, AreaOK, RowOK, Setting
  <2>c. PICK r \in AreaState : area' = SetArea(p, w, r) /\ r.open = area[p][w].open
                               /\ r.lTableLocked /\ r.shared
    BY <1>13, <2>b, SetTableLockedLemma DEF FLockGranted
  <2>d. /\ aExclusive' = [aExclusive EXCEPT ![p] = {w}] /\ call' = [call EXCEPT ![p] = Ready]
        /\ UNCHANGED <<rows, listed, nSess, sess>>
    BY <1>13, <2>b DEF FLockGranted
  <2>e. /\ area' \in [Proc -> [Area -> AreaState]] /\ area'[p][w] = r
        /\ \A q \in Proc : q # p => area'[q] = area[q]
    BY <2>b, <2>c, SetAreaLemma
  <2>f. sess[p] # 0
    BY <2>b DEF SessInv, Ready
  <2>g. area[p][w].open
    BY <2>a, <2>b DEF AreaOK
  <2> HIDE DEF w
  <2>1. TypeOK'
    <3>1. {w} \in SUBSET Area
      BY <2>b
    <3>2. aExclusive' \in [Proc -> SUBSET Area] /\ call' \in [Proc -> Call]
      BY <2>d, <3>1, CallTypes DEF TypeOK
    <3> QED
      BY <2>d, <2>e, <3>2 DEF TypeOK
  <2>2. CallInv'
    <3>1. CallOK(Ready)
      BY DEF CallOK, Ready, Setting
    <3> QED
      BY <2>d, <3>1 DEF TypeOK, CallInv
  <2>3. SessInv'
    BY <2>d, <2>e, <2>f DEF TypeOK, SessInv
  <2>4. AreaInv'
    <3>1. AreaOK(p)'
      <4>1. aExclusive'[p] = {w} /\ call'[p] = Ready
        BY <2>d DEF TypeOK
      <4>2. area'[p][w].open /\ area'[p][w].lTableLocked
        BY <2>c, <2>e, <2>g, Zenon
      <4>3. Ready.stage = "idle"
        BY DEF Ready
      <4> QED
        BY <4>1, <4>2, <4>3 DEF AreaOK
    <3>2. ASSUME NEW q \in Proc, q # p
          PROVE  AreaOK(q)'
      BY <2>d, <2>e, <3>2 DEF TypeOK, AreaInv, AreaOK
    <3> QED
      BY <3>1, <3>2 DEF AreaInv
  <2>5. RowInv'
    <3>1. RowOK(p)'
      <4>1. aExclusive'[p] = {w} /\ call'[p] = Ready
        BY <2>d DEF TypeOK
      <4> QED
        BY <2>b, <2>c, <2>d, <2>e, <4>1 DEF RowOK, Ready, KeepsTable, Setting
    <3>2. ASSUME NEW q \in Proc, q # p
          PROVE  RowOK(q)'
      BY <2>d, <2>e, <3>2 DEF TypeOK, RowInv, RowOK, KeepsTable
    <3> QED
      BY <3>1, <3>2 DEF RowInv
  <2> QED
    BY <2>1, <2>2, <2>3, <2>4, <2>5
<1>14. ASSUME NEW p \in Proc, Unlocked(p)
     PROVE  IInv'
  <2> DEFINE w == call[p].wa
  <2>a. call[p] \in Call /\ CallOK(call[p]) /\ AreaOK(p) /\ RowOK(p)
    BY CallFacts DEF AreaInv, RowInv
  <2>b. /\ w \in Area /\ w \in aExclusive[p] /\ \A a \in aExclusive[p] : a = w
        /\ call[p].stage = "unlock"
    BY <1>14, <2>a DEF Unlocked, CallOK, AreaOK
  <2>c. PICK r \in AreaState : area' = SetArea(p, w, r)
    <3>1. area' = SetTableLocked(p, w, FALSE)
      BY <1>14 DEF Unlocked
    <3>2. TypeOK /\ w \in Area
      BY <2>b
    <3> HIDE BoundsAreNat, LocksOfType DEF IInv, Lock, w
    <3> QED
      BY <3>1, <3>2, UnlockedAreaLemma
  <2>d. /\ aExclusive' = [aExclusive EXCEPT ![p] = {}] /\ call' = [call EXCEPT ![p] = Ready]
        /\ UNCHANGED <<rows, listed, nSess, sess>>
    <3>1. aExclusive[p] \ {w} = {}
      BY <2>b
    <3> QED
      BY <1>14, <3>1 DEF Unlocked
  <2>e. /\ area' \in [Proc -> [Area -> AreaState]]
        /\ \A q \in Proc : q # p => area'[q] = area[q]
    BY <2>b, <2>c, SetAreaLemma
  <2>f. sess[p] # 0
    BY <2>b DEF SessInv, Ready
  <2> HIDE DEF w
  <2>1. TypeOK'
    BY <2>b, <2>d, <2>e, CallTypes DEF TypeOK
  <2>2. CallInv'
    <3>1. CallOK(Ready)
      BY DEF CallOK, Ready, Setting
    <3> QED
      BY <2>d, <3>1 DEF TypeOK, CallInv
  <2>3. SessInv'
    BY <2>d, <2>e, <2>f DEF TypeOK, SessInv
  <2>4. AreaInv'
    <3>1. AreaOK(p)'
      <4>1. aExclusive'[p] = {} /\ call'[p] = Ready
        BY <2>d DEF TypeOK
      <4> QED
        BY <4>1 DEF AreaOK, Ready
    <3>2. ASSUME NEW q \in Proc, q # p
          PROVE  AreaOK(q)'
      BY <2>d, <2>e, <3>2 DEF TypeOK, AreaInv, AreaOK
    <3> QED
      BY <3>1, <3>2 DEF AreaInv
  <2>5. RowInv'
    <3>1. RowOK(p)'
      <4>1. aExclusive'[p] = {} /\ call'[p] = Ready
        BY <2>d DEF TypeOK
      <4> QED
        BY <4>1 DEF RowOK, Ready, KeepsTable, Setting
    <3>2. ASSUME NEW q \in Proc, q # p
          PROVE  RowOK(q)'
      BY <2>d, <2>e, <3>2 DEF TypeOK, RowInv, RowOK, KeepsTable
    <3> QED
      BY <3>1, <3>2 DEF RowInv
  <2> QED
    BY <2>1, <2>2, <2>3, <2>4, <2>5
<1>15. ASSUME NEW p \in Proc, CloseUnlocked(p)
     PROVE  IInv'
  <2> DEFINE w == call[p].wa
  <2>a. call[p] \in Call /\ CallOK(call[p]) /\ AreaOK(p) /\ RowOK(p)
    BY CallFacts DEF AreaInv, RowInv
  <2>b. /\ w \in Area /\ w \in aExclusive[p] /\ \A a \in aExclusive[p] : a = w
        /\ call[p].stage = "closing"
    BY <1>15, <2>a DEF CloseUnlocked, CallOK, AreaOK
  <2>c. PICK r \in AreaState, d \in {Ready, ReleaseLocks(w, "unshare")} :
          area' = SetArea(p, w, r) /\ call' = [call EXCEPT ![p] = d]
    BY <1>15, <2>b, ReleaseShareLemma DEF CloseUnlocked
  <2>d. /\ aExclusive' = [aExclusive EXCEPT ![p] = {}]
        /\ UNCHANGED <<rows, listed, nSess, sess>>
    <3>1. aExclusive[p] \ {w} = {}
      BY <2>b
    <3> QED
      BY <1>15, <3>1 DEF CloseUnlocked
  <2>e. /\ area' \in [Proc -> [Area -> AreaState]]
        /\ \A q \in Proc : q # p => area'[q] = area[q]
    BY <2>b, <2>c, SetAreaLemma
  <2>f. sess[p] # 0
    BY <2>b DEF SessInv, Ready
  <2>g. d \in Call
    BY <2>b, <2>c, CallTypes
  <2>h. /\ d.stage \in {"idle", "unshare"} /\ d.at \in {"ready", "delete"} /\ CallOK(d)
        /\ d.stage = "unshare" => d.wa = w
    BY <2>b, <2>c DEF Ready, ReleaseLocks, CallOK, Setting
  <2> HIDE DEF w
  <2>1. TypeOK'
    BY <2>b, <2>c, <2>d, <2>e, <2>g DEF TypeOK
  <2>2. CallInv'
    BY <2>c, <2>h DEF TypeOK, CallInv
  <2>3. SessInv'
    BY <2>c, <2>d, <2>e, <2>f DEF TypeOK, SessInv
  <2>4. AreaInv'
    <3>1. AreaOK(p)'
      <4>1. aExclusive'[p] = {} /\ call'[p] = d
        BY <2>c, <2>d DEF TypeOK
      <4> QED
        BY <2>h, <4>1 DEF AreaOK
    <3>2. ASSUME NEW q \in Proc, q # p
          PROVE  AreaOK(q)'
      BY <2>c, <2>d, <2>e, <3>2 DEF TypeOK, AreaInv, AreaOK
    <3> QED
      BY <3>1, <3>2 DEF AreaInv
  <2>5. RowInv'
    <3>1. RowOK(p)'
      <4>1. aExclusive'[p] = {} /\ call'[p] = d
        BY <2>c, <2>d DEF TypeOK
      <4> QED
        BY <2>h, <4>1 DEF RowOK, KeepsTable, Setting
    <3>2. ASSUME NEW q \in Proc, q # p
          PROVE  RowOK(q)'
      BY <2>c, <2>d, <2>e, <3>2 DEF TypeOK, RowInv, RowOK, KeepsTable
    <3> QED
      BY <3>1, <3>2 DEF RowInv
  <2> QED
    BY <2>1, <2>2, <2>3, <2>4, <2>5
<1>16. ASSUME NEW p \in Proc, Closed(p)
     PROVE  IInv'
  <2>1. TypeOK'
    BY <1>16 DEF TypeOK, Call, Step, CallInv, CallOK, Released, Ready, ClosedArea, AreaState, SetArea, SetTableLocked, Setting, Closed
  <2>2. CallInv'
    BY <1>16, SMTT(30) DEF TypeOK, Call, CallInv, CallOK, SessInv, Setting, Released, Ready, ClosedArea, AreaState, SetArea, SetTableLocked, Closed
  <2>3. SessInv'
    BY <1>16 DEF TypeOK, SessInv, CallInv, CallOK, Ready, SetLocks, ReleaseLocks, Released, ClosedArea, AreaState, SetArea, SetTableLocked, Setting, Closed
  <2>4. AreaInv'
    BY <1>16, SMTT(30) DEF TypeOK, Call, CallInv, CallOK, SessInv, AreaInv, AreaOK, Released, Ready, ClosedArea, AreaState, SetArea, SetTableLocked, Setting, Closed
  <2>5. RowInv'
    BY <1>16, SMTT(30) DEF TypeOK, Call, Lock, CallInv, CallOK, SessInv, AreaInv, AreaOK, RowInv, RowOK, KeepsTable, Released, Ready, ClosedArea, AreaState, SetArea, SetTableLocked, Setting, Closed
  <2> QED
    BY <2>1, <2>2, <2>3, <2>4, <2>5
<1>17. ASSUME NEW p \in Proc, NEW a \in Area, OpenShared(p, a)
     PROVE  IInv'
  <2>1. TypeOK'
    BY <1>17 DEF TypeOK, Call, Step, CallInv, CallOK, SetLocks, Ready, Setting, OpenShared
  <2>2. CallInv'
    BY <1>17, SMTT(30) DEF TypeOK, Call, CallInv, CallOK, SessInv, Setting, SetLocks, Ready, OpenShared
  <2>3. SessInv'
    BY <1>17 DEF TypeOK, SessInv, CallInv, CallOK, Ready, SetLocks, ReleaseLocks, Setting, OpenShared
  <2>4. AreaInv'
    BY <1>17, SMTT(30) DEF TypeOK, Call, CallInv, CallOK, SessInv, AreaInv, AreaOK, SetLocks, Ready, Setting, OpenShared
  <2>5. RowInv'
    BY <1>17, SMTT(30) DEF TypeOK, Call, Lock, CallInv, CallOK, SessInv, AreaInv, AreaOK, RowInv, RowOK, KeepsTable, SetLocks, Ready, Setting, OpenShared
  <2> QED
    BY <2>1, <2>2, <2>3, <2>4, <2>5
<1>18. ASSUME NEW p \in Proc, NEW a \in Area, OpenExclusive(p, a)
     PROVE  IInv'
  <2>1. TypeOK'
    BY <1>18 DEF TypeOK, Call, Step, CallInv, CallOK, SetLocks, Ready, Setting, OpenExclusive
  <2>2. CallInv'
    BY <1>18, SMTT(30) DEF TypeOK, Call, CallInv, CallOK, SessInv, Setting, SetLocks, Ready, OpenExclusive
  <2>3. SessInv'
    BY <1>18 DEF TypeOK, SessInv, CallInv, CallOK, Ready, SetLocks, ReleaseLocks, Setting, OpenExclusive
  <2>4. AreaInv'
    BY <1>18, SMTT(30) DEF TypeOK, Call, CallInv, CallOK, SessInv, AreaInv, AreaOK, SetLocks, Ready, Setting, OpenExclusive
  <2>5. RowInv'
    BY <1>18, SMTT(30) DEF TypeOK, Call, Lock, CallInv, CallOK, SessInv, AreaInv, AreaOK, RowInv, RowOK, KeepsTable, SetLocks, Ready, Setting, OpenExclusive
  <2> QED
    BY <2>1, <2>2, <2>3, <2>4, <2>5
<1>19. ASSUME NEW p \in Proc, NEW a \in Area, OpenExclusiveAgain(p, a)
     PROVE  IInv'
  <2>1. TypeOK'
    BY <1>19 DEF TypeOK, Call, Step, CallInv, CallOK, Ready, AreaState, SetArea, SetTableLocked, OpenExclusiveAgain
  <2>2. CallInv'
    BY <1>19, SMTT(30) DEF TypeOK, Call, CallInv, CallOK, SessInv, Setting, Ready, AreaState, SetArea, SetTableLocked, OpenExclusiveAgain
  <2>3. SessInv'
    BY <1>19 DEF TypeOK, SessInv, CallInv, CallOK, Ready, SetLocks, ReleaseLocks, AreaState, SetArea, SetTableLocked, OpenExclusiveAgain
  <2>4. AreaInv'
    BY <1>19, SMTT(30) DEF TypeOK, Call, CallInv, CallOK, SessInv, AreaInv, AreaOK, Ready, AreaState, SetArea, SetTableLocked, OpenExclusiveAgain
  <2>5. RowInv'
    BY <1>19, SMTT(30) DEF TypeOK, Call, Lock, CallInv, CallOK, SessInv, AreaInv, AreaOK, RowInv, RowOK, KeepsTable, Ready, AreaState, SetArea, SetTableLocked, OpenExclusiveAgain
  <2> QED
    BY <2>1, <2>2, <2>3, <2>4, <2>5
<1>20. ASSUME NEW p \in Proc, NEW a \in Area, FLock(p, a)
     PROVE  IInv'
  <2>f. sess[p] # 0
    BY <1>20 DEF FLock, SessInv, TypeOK
  <2>1. TypeOK'
    BY <1>20 DEF TypeOK, Call, Step, CallInv, CallOK, SetLocks, Ready, Setting, FLock
  <2>2. CallInv'
    BY <1>20, SMTT(30) DEF TypeOK, Call, CallInv, CallOK, SessInv, Setting, SetLocks, Ready, FLock
  <2>3. SessInv'
    BY <1>20, <2>f DEF FLock, SessInv, TypeOK
  <2>4. AreaInv'
    BY <1>20, SMTT(30) DEF TypeOK, Call, CallInv, CallOK, SessInv, AreaInv, AreaOK, SetLocks, Ready, Setting, FLock
  <2>5. RowInv'
    BY <1>20, SMTT(30) DEF TypeOK, Call, Lock, CallInv, CallOK, SessInv, AreaInv, AreaOK, RowInv, RowOK, KeepsTable, SetLocks, Ready, Setting, FLock
  <2> QED
    BY <2>1, <2>2, <2>3, <2>4, <2>5
<1>21. ASSUME NEW p \in Proc, NEW a \in Area, FLockAgain(p, a)
     PROVE  IInv'
  <2>1. TypeOK'
    BY <1>21 DEF TypeOK, Call, Step, CallInv, CallOK, Ready, AreaState, SetArea, SetTableLocked, FLockAgain
  <2>2. CallInv'
    BY <1>21, SMTT(30) DEF TypeOK, Call, CallInv, CallOK, SessInv, Setting, Ready, AreaState, SetArea, SetTableLocked, FLockAgain
  <2>3. SessInv'
    BY <1>21 DEF TypeOK, SessInv, CallInv, CallOK, Ready, SetLocks, ReleaseLocks, AreaState, SetArea, SetTableLocked, FLockAgain
  <2>4. AreaInv'
    BY <1>21, SMTT(30) DEF TypeOK, Call, CallInv, CallOK, SessInv, AreaInv, AreaOK, Ready, AreaState, SetArea, SetTableLocked, FLockAgain
  <2>5. RowInv'
    BY <1>21, SMTT(30) DEF TypeOK, Call, Lock, CallInv, CallOK, SessInv, AreaInv, AreaOK, RowInv, RowOK, KeepsTable, Ready, AreaState, SetArea, SetTableLocked, FLockAgain
  <2> QED
    BY <2>1, <2>2, <2>3, <2>4, <2>5
<1>22. ASSUME NEW p \in Proc, NEW a \in Area, Unlock(p, a)
     PROVE  IInv'
  <2>a. call[p] = Ready /\ AreaOK(p) /\ RowOK(p)
    BY <1>22 DEF Unlock, AreaInv, RowInv
  <2>b. UNCHANGED <<rows, listed, nSess, sess, aExclusive>>
    BY <1>22 DEF Unlock
  <2>c. PICK d \in {Ready, ReleaseLocks(a, "unlock")} :
          /\ call' = [call EXCEPT ![p] = d]
          /\ d # Ready => area' = area /\ a \in aExclusive[p]
          /\ d = Ready => a \notin aExclusive[p] /\ area' = SetTableLocked(p, a, FALSE)
    <3>1. CASE a \in aExclusive[p]
      BY <1>22, <3>1 DEF Unlock, Ready, ReleaseLocks
    <3>2. CASE a \notin aExclusive[p]
      <4>1. call = [call EXCEPT ![p] = Ready]
        BY <2>a DEF TypeOK
      <4> QED
        BY <1>22, <3>2, <4>1 DEF Unlock
    <3> QED
      BY <3>1, <3>2
  <2>d. PICK r \in AreaState : d = Ready => area' = SetArea(p, a, r)
    <3>1. TypeOK
      OBVIOUS
    <3> HIDE BoundsAreNat, LocksOfType DEF IInv, Lock
    <3>2. PICK r \in AreaState : SetTableLocked(p, a, FALSE) = SetArea(p, a, r)
      BY <3>1, UnlockedAreaLemma
    <3>3. d = Ready => area' = SetArea(p, a, r)
      BY <2>c, <3>2
    <3> QED
      BY <3>3
  <2>e. /\ area' \in [Proc -> [Area -> AreaState]]
        /\ \A b \in Area : b # a \/ a \in aExclusive[p] => area'[p][b] = area[p][b]
        /\ \A q \in Proc : q # p => area'[q] = area[q]
    <3>1. CASE d = Ready
      <4>1. area' = SetArea(p, a, r) /\ a \notin aExclusive[p]
        BY <2>c, <2>d, <3>1
      <4> QED
        BY <4>1, SetAreaLemma
    <3>2. CASE d # Ready
      BY <2>c, <3>2 DEF TypeOK
    <3> QED
      BY <3>1, <3>2
  <2>f. sess[p] # 0
    BY <1>22 DEF Unlock, SessInv, TypeOK
  <2>g. d \in Call
    BY <2>c, CallTypes, LocksOfType
  <2>h. /\ d.stage \in {"idle", "unlock"} /\ d.at \in {"ready", "delete"} /\ CallOK(d)
        /\ d.stage = "unlock" => d.wa = a /\ a \in aExclusive[p]
    BY <2>c DEF Ready, ReleaseLocks, CallOK, Setting
  <2>1. TypeOK'
    BY <2>b, <2>c, <2>e, <2>g DEF TypeOK
  <2>2. CallInv'
    BY <2>c, <2>h DEF TypeOK, CallInv
  <2>3. SessInv'
    BY <2>b, <2>c, <2>e, <2>f DEF TypeOK, SessInv
  <2>4. AreaInv'
    <3>1. AreaOK(p)'
      <4>1. call'[p] = d /\ aExclusive[p] \subseteq Area
        BY <2>c DEF TypeOK
      <4> QED
        BY <2>a, <2>b, <2>e, <2>h, <4>1 DEF AreaOK
    <3>2. ASSUME NEW q \in Proc, q # p
          PROVE  AreaOK(q)'
      BY <2>b, <2>c, <2>e, <3>2 DEF TypeOK, AreaInv, AreaOK
    <3> QED
      BY <3>1, <3>2 DEF AreaInv
  <2>5. RowInv'
    <3>1. RowOK(p)'
      <4>1. call'[p] = d /\ aExclusive[p] \subseteq Area
        BY <2>c DEF TypeOK
      <4> QED
        BY <2>a, <2>b, <2>e, <2>h, <4>1 DEF RowOK, KeepsTable, Setting, Ready
    <3>2. ASSUME NEW q \in Proc, q # p
          PROVE  RowOK(q)'
      BY <2>b, <2>c, <2>e, <3>2 DEF TypeOK, RowInv, RowOK, KeepsTable
    <3> QED
      BY <3>1, <3>2 DEF RowInv
  <2> QED
    BY <2>1, <2>2, <2>3, <2>4, <2>5
<1>23. ASSUME NEW p \in Proc, NEW a \in Area, CloseLocked(p, a)
     PROVE  IInv'
  <2>1. TypeOK'
    BY <1>23 DEF TypeOK, Call, Step, CallInv, CallOK, ReleaseLocks, Ready, Setting, CloseLocked
  <2>2. CallInv'
    BY <1>23, SMTT(30) DEF TypeOK, Call, CallInv, CallOK, SessInv, Setting, ReleaseLocks, Ready, CloseLocked
  <2>3. SessInv'
    BY <1>23 DEF TypeOK, SessInv, CallInv, CallOK, Ready, SetLocks, ReleaseLocks, Setting, CloseLocked
  <2>4. AreaInv'
    BY <1>23, SMTT(30) DEF TypeOK, Call, CallInv, CallOK, SessInv, AreaInv, AreaOK, ReleaseLocks, Ready, Setting, CloseLocked
  <2>5. RowInv'
    BY <1>23, SMTT(30) DEF TypeOK, Call, Lock, CallInv, CallOK, SessInv, AreaInv, AreaOK, RowInv, RowOK, KeepsTable, ReleaseLocks, Ready, Setting, CloseLocked
  <2> QED
    BY <2>1, <2>2, <2>3, <2>4, <2>5
<1>24. ASSUME NEW p \in Proc, NEW a \in Area, Close(p, a)
     PROVE  IInv'
  <2>a. call[p] = Ready /\ AreaOK(p) /\ RowOK(p) /\ a \notin aExclusive[p]
    BY <1>24 DEF Close, AreaInv, AreaOK, RowInv
  <2>b. UNCHANGED <<rows, listed, nSess, sess, aExclusive>>
    BY <1>24 DEF Close
  <2>c. PICK r \in AreaState, d \in {Ready, ReleaseLocks(a, "unshare")} :
          area' = SetArea(p, a, r) /\ call' = [call EXCEPT ![p] = d]
    BY <1>24, ReleaseShareLemma DEF Close
  <2>e. /\ area' \in [Proc -> [Area -> AreaState]]
        /\ \A b \in Area : b # a => area'[p][b] = area[p][b]
        /\ \A q \in Proc : q # p => area'[q] = area[q]
    BY <2>c, SetAreaLemma
  <2>f. sess[p] # 0
    BY <1>24 DEF Close, SessInv, TypeOK
  <2>g. d \in Call
    BY <2>c, CallTypes
  <2>h. /\ d.stage \in {"idle", "unshare"} /\ d.at \in {"ready", "delete"} /\ CallOK(d)
        /\ d.stage = "unshare" => d.wa = a
    BY <2>c DEF Ready, ReleaseLocks, CallOK, Setting
  <2>1. TypeOK'
    BY <2>b, <2>c, <2>e, <2>g DEF TypeOK
  <2>2. CallInv'
    BY <2>c, <2>h DEF TypeOK, CallInv
  <2>3. SessInv'
    BY <2>b, <2>c, <2>e, <2>f DEF TypeOK, SessInv
  <2>4. AreaInv'
    <3>1. AreaOK(p)'
      <4>1. call'[p] = d /\ aExclusive[p] \subseteq Area
        BY <2>c DEF TypeOK
      <4> QED
        BY <2>a, <2>b, <2>e, <2>h, <4>1 DEF AreaOK
    <3>2. ASSUME NEW q \in Proc, q # p
          PROVE  AreaOK(q)'
      BY <2>b, <2>c, <2>e, <3>2 DEF TypeOK, AreaInv, AreaOK
    <3> QED
      BY <3>1, <3>2 DEF AreaInv
  <2>5. RowInv'
    <3>1. RowOK(p)'
      <4>1. call'[p] = d /\ aExclusive[p] \subseteq Area
        BY <2>c DEF TypeOK
      <4> QED
        BY <2>a, <2>b, <2>e, <2>h, <4>1 DEF RowOK, KeepsTable, Setting, Ready
    <3>2. ASSUME NEW q \in Proc, q # p
          PROVE  RowOK(q)'
      BY <2>b, <2>c, <2>e, <3>2 DEF TypeOK, RowInv, RowOK, KeepsTable
    <3> QED
      BY <3>1, <3>2 DEF RowInv
  <2> QED
    BY <2>1, <2>2, <2>3, <2>4, <2>5
<1>25. ASSUME NEW s \in listed, DropSession(s)
     PROVE  IInv'
  BY <1>25 DEF DropSession, TypeOK, CallInv, CallOK, SessInv, AreaInv, AreaOK, RowInv, RowOK, KeepsTable, Ready
<1>26. CASE UNCHANGED vars
  BY <1>26 DEF vars, TypeOK, CallInv, CallOK, SessInv, AreaInv, AreaOK, RowInv, RowOK, KeepsTable
<1> QED
  BY <1>1, <1>2, <1>3, <1>4, <1>5, <1>6, <1>7, <1>8, <1>9, <1>10, <1>11, <1>12, <1>13, <1>14, <1>15, <1>16, <1>17, <1>18, <1>19, <1>20, <1>21, <1>22, <1>23, <1>24, <1>25, <1>26
     DEF Next, Proceed, Request

-----------------------------------------------------------------------------
(* The invariant holds throughout: where each call stands, which sessions    *)
(* live, which area owns, which rows a request and an owner have.            *)
THEOREM Invariant ==
    ASSUME Backend # "ORACLE"
    PROVE  Spec => []IInv
<1>1. Init => IInv
  BY InitIInv
<1>2. IInv /\ [Next]_vars => IInv'
  BY NextIInv
<1> QED
  BY <1>1, <1>2, PTL DEF Spec

(* Type correctness of the rows, the sessions, the work areas and the calls. *)
THEOREM TypeCorrect ==
    ASSUME Backend # "ORACLE"
    PROVE  Spec => []TypeOK
<1>1. IInv => TypeOK
  BY DEF IInv
<1> QED
  BY <1>1, Invariant, PTL

-----------------------------------------------------------------------------
(* Owners.  Of Orderly applications, what they have been told about an area  *)
(* rests on the rows that some area of the process has in aExclusive.        *)

(* While an area has the table, its process keeps the rows, and those of an  *)
(* exclusive open if the area is open exclusive.  Only shared areas are      *)
(* unlocked.                                                                 *)
GrantedOK(p) ==
    /\ \A a \in Area : HasTable(p, a) =>
          /\ KeepsTable(p)
          /\ ~area[p][a].shared => \E b \in aExclusive[p] : ~area[p][b].shared
    /\ call[p].stage = "unlock" => area[p][call[p].wa].shared

GrantedInv == \A p \in Proc : GrantedOK(p)

(* The next statement of a call changes neither its stage nor the areas. *)
LEMMA StatementGrants ==
    ASSUME TypeOK, GrantedInv, NEW p \in Proc,
           \/ Insert(p) \/ InsertFails(p) \/ Housekeeping(p) \/ UndoSetLocks(p)
           \/ DeleteLock(p)
    PROVE  GrantedInv'
<1>1. UNCHANGED <<area, aExclusive>>
  BY DEF Insert, InsertFails, Housekeeping, UndoSetLocks, DeleteLock
<1>2. PICK d : call' = [call EXCEPT ![p] = d] /\ d.stage = call[p].stage /\ d.wa = call[p].wa
  <2> DEFINE Goal == \E d : /\ call' = [call EXCEPT ![p] = d]
                            /\ d.stage = call[p].stage /\ d.wa = call[p].wa
  <2>1. ASSUME NEW at, NEW n, NEW k, NEW r,
               call' = [call EXCEPT ![p] = Advance(call[p], at, n, k, r)]
        PROVE  Goal
    <3>1. /\ Advance(call[p], at, n, k, r).stage = call[p].stage
          /\ Advance(call[p], at, n, k, r).wa = call[p].wa
      BY DEF Advance
    <3> QED
      BY <2>1, <3>1
  <2> HIDE DEF Goal
  <2>2. ASSUME Insert(p) PROVE Goal
    BY <2>1, <2>2 DEF Insert
  <2>3. ASSUME InsertFails(p) PROVE Goal
    BY <2>1, <2>3 DEF InsertFails
  <2>4. ASSUME Housekeeping(p) PROVE Goal
    BY <2>1, <2>4 DEF Housekeeping
  <2>5. ASSUME UndoSetLocks(p) PROVE Goal
    BY <2>1, <2>5 DEF UndoSetLocks
  <2>6. ASSUME DeleteLock(p) PROVE Goal
    BY <2>1, <2>6 DEF DeleteLock
  <2> QED
    BY <2>2, <2>3, <2>4, <2>5, <2>6 DEF Goal
<1>3. \A q \in Proc : call'[q].stage = call[q].stage /\ call'[q].wa = call[q].wa
  BY <1>2 DEF TypeOK
<1>4. \A q \in Proc : /\ KeepsTable(q)' <=> KeepsTable(q)
                      /\ \A a \in Area : HasTable(q, a)' <=> HasTable(q, a)
  BY <1>1, <1>3 DEF KeepsTable, HasTable
<1> QED
  BY <1>1, <1>3, <1>4 DEF GrantedInv, GrantedOK

(* What a step of one process leaves alone stays granted. *)
LEMMA GrantsOfOthers ==
    ASSUME TypeOK, GrantedInv, NEW p \in Proc, GrantedOK(p)',
           \A q \in Proc \ {p} :
              call'[q] = call[q] /\ area'[q] = area[q] /\ aExclusive'[q] = aExclusive[q]
    PROVE  GrantedInv'
<1>1. ASSUME NEW q \in Proc, q # p
      PROVE  GrantedOK(q)'
  BY <1>1 DEF GrantedInv, GrantedOK, HasTable, KeepsTable
<1> QED
  BY <1>1 DEF GrantedInv

LEMMA ProceedGrants ==
    ASSUME IInv, GrantedInv, NEW p \in Proc, Proceed(p)
    PROVE  GrantedInv'
<1> DEFINE c == call[p]
<1>0. /\ TypeOK /\ CallOK(c) /\ AreaOK(p) /\ GrantedOK(p)
      /\ c.stage # "idle" => c.wa \in Area
  BY DEF IInv, CallInv, AreaInv, CallOK, GrantedInv
<1>1. CASE \/ Insert(p) \/ InsertFails(p) \/ Housekeeping(p) \/ UndoSetLocks(p)
           \/ DeleteLock(p)
  BY <1>0, <1>1, StatementGrants
<1>2. CASE CheckGranted(p) \/ CheckReleased(p) \/ LockTableDenied(p)
  <2>1. /\ UNCHANGED <<area, aExclusive>>
        /\ c.stage \in {"check", "checked", "exclusive", "flock"}
        /\ call'[p].stage \notin {"unlock", "closing", "unshare"}
        /\ \A q \in Proc \ {p} : call'[q] = call[q]
    BY <1>0, <1>2 DEF CheckGranted, CheckReleased, LockTableDenied, TypeOK, SetLocks,
       ReleaseLocks, Ready
  <2>2. /\ \A a \in Area : HasTable(p, a)' <=> HasTable(p, a)
        /\ KeepsTable(p)' <=> KeepsTable(p)
    BY <2>1 DEF HasTable, KeepsTable
  <2>3. GrantedOK(p)'
    BY <1>0, <2>1, <2>2 DEF GrantedOK
  <2> QED
    BY <1>0, <2>1, <2>3, GrantsOfOthers
<1>3. CASE ShareReturned(p)
  <2>1. /\ c.wa \in Area /\ c.stage = "share" /\ aExclusive' = aExclusive
        /\ call' = [call EXCEPT ![p] = Ready]
        /\ area' = SetArea(p, c.wa, [ open |-> TRUE, shared |-> TRUE,
                               lTableLocked |-> FALSE, lSharedLock |-> (c.at = "granted") ])
    BY <1>0, <1>3 DEF ShareReturned
  <2>2. /\ \A q \in Proc \ {p} : call'[q] = call[q] /\ area'[q] = area[q]
        /\ call'[p].stage = "idle"
        /\ area'[p][c.wa].shared /\ ~area'[p][c.wa].lTableLocked
        /\ \A b \in Area : b # c.wa => area'[p][b] = area[p][b]
    BY <1>0, <2>1 DEF TypeOK, SetArea, Ready
  <2>3. GrantedOK(p)'
    <3>1. ASSUME NEW a \in Area, a = c.wa PROVE ~HasTable(p, a)'
      BY <3>1, <2>1, <2>2 DEF HasTable
    <3>2. ASSUME NEW a \in Area, a # c.wa, HasTable(p, a)' PROVE HasTable(p, a)
      BY <2>1, <2>2, <3>2 DEF HasTable
    <3>3. KeepsTable(p) => KeepsTable(p)'
      BY <2>1, <2>2 DEF KeepsTable
    <3>4. \A b \in aExclusive[p] : b \in Area /\ b # c.wa
      BY <1>0, <2>1 DEF AreaOK, TypeOK
    <3> QED
      BY <1>0, <2>1, <2>2, <3>1, <3>2, <3>3, <3>4 DEF GrantedOK
  <2> QED
    BY <1>0, <2>1, <2>2, <2>3, GrantsOfOthers
<1>4. CASE ExclusiveGranted(p) \/ FLockGranted(p)
  <2>1. PICK r \in AreaState :
          /\ area' = SetArea(p, c.wa, r)
          /\ c.wa \in Area /\ c.stage \in {"exclusive", "flock"}
          /\ aExclusive' = [aExclusive EXCEPT ![p] = @ \cup {c.wa}]
          /\ call' = [call EXCEPT ![p] = Ready]
    <3>1. CASE ExclusiveGranted(p)
      BY <1>0, <3>1 DEF ExclusiveGranted, AreaState
    <3>2. CASE FLockGranted(p)
      BY <1>0, <3>2, SetTableLockedLemma DEF FLockGranted
    <3> QED
      BY <1>4, <3>1, <3>2
  <2>2. /\ \A q \in Proc \ {p} : /\ call'[q] = call[q] /\ area'[q] = area[q]
                                /\ aExclusive'[q] = aExclusive[q]
        /\ call'[p].stage = "idle"
        /\ aExclusive'[p] = aExclusive[p] \cup {c.wa}
        /\ \A b \in Area : b # c.wa => area'[p][b] = area[p][b]
    BY <1>0, <2>1, SetAreaLemma DEF TypeOK, Ready
  <2>3. GrantedOK(p)'
    <3>1. \A a \in Area : ~HasTable(p, a)
      BY <1>0, <2>1 DEF AreaOK, GrantedOK, KeepsTable
    <3>2. ASSUME NEW a \in Area, a # c.wa PROVE ~HasTable(p, a)'
      BY <2>1, <2>2, <3>1, <3>2 DEF HasTable
    <3>3. KeepsTable(p)'
      BY <2>2 DEF KeepsTable
    <3> QED
      BY <2>1, <2>2, <3>2, <3>3 DEF GrantedOK
  <2> QED
    BY <1>0, <2>2, <2>3, GrantsOfOthers
<1>5. CASE Unlocked(p)
  <2>1. /\ c.wa \in Area /\ c.stage = "unlock"
        /\ aExclusive' = [aExclusive EXCEPT ![p] = @ \ {c.wa}]
        /\ call' = [call EXCEPT ![p] = Ready]
        /\ area' = SetTableLocked(p, c.wa, FALSE)
    BY <1>0, <1>5 DEF Unlocked
  <2>2. /\ \A q \in Proc \ {p} : /\ call'[q] = call[q] /\ area'[q] = area[q]
                                /\ aExclusive'[q] = aExclusive[q]
        /\ call'[p].stage = "idle"
        /\ area'[p][c.wa].shared = area[p][c.wa].shared /\ ~area'[p][c.wa].lTableLocked
        /\ \A b \in Area : b # c.wa => area'[p][b] = area[p][b]
    BY <1>0, <2>1 DEF TypeOK, SetTableLocked, SetArea, Ready
  <2>3. GrantedOK(p)'
    <3>1. \A a \in Area : ~HasTable(p, a)
      BY <1>0, <2>1 DEF GrantedOK, KeepsTable
    <3>2. ASSUME NEW a \in Area, a # c.wa PROVE ~HasTable(p, a)'
      BY <2>1, <2>2, <3>1, <3>2 DEF HasTable
    <3>3. ASSUME NEW a \in Area, a = c.wa PROVE ~HasTable(p, a)'
      BY <3>3, <1>0, <2>1, <2>2 DEF HasTable, GrantedOK
    <3> QED
      BY <2>2, <3>2, <3>3 DEF GrantedOK
  <2> QED
    BY <1>0, <2>2, <2>3, GrantsOfOthers
<1>6. CASE CloseUnlocked(p)
  <2>1. /\ c.wa \in Area /\ c.stage = "closing" /\ ReleaseShare(p, c.wa)
        /\ aExclusive' = [aExclusive EXCEPT ![p] = @ \ {c.wa}]
    BY <1>0, <1>6 DEF CloseUnlocked
  <2>2. /\ \A q \in Proc \ {p} : /\ call'[q] = call[q] /\ area'[q] = area[q]
                                /\ aExclusive'[q] = aExclusive[q]
        /\ (call'[p].stage = "unshare" /\ call'[p].wa = c.wa) \/ ~area'[p][c.wa].open
        /\ call'[p].stage \in {"unshare", "idle"}
        /\ \A b \in Area : b # c.wa => area'[p][b] = area[p][b]
    BY <1>0, <2>1 DEF TypeOK, ReleaseShare, SetTableLocked, SetArea, ReleaseLocks, Ready,
       ClosedArea
  <2>3. GrantedOK(p)'
    <3>1. \A a \in Area : ~HasTable(p, a)
      BY <1>0, <2>1 DEF GrantedOK, KeepsTable
    <3>2. ASSUME NEW a \in Area, a # c.wa PROVE ~HasTable(p, a)'
      BY <2>1, <2>2, <3>1, <3>2 DEF HasTable
    <3>3. ASSUME NEW a \in Area, a = c.wa PROVE ~HasTable(p, a)'
      BY <3>3, <2>2 DEF HasTable
    <3> QED
      BY <2>2, <3>2, <3>3 DEF GrantedOK
  <2> QED
    BY <1>0, <2>2, <2>3, GrantsOfOthers
<1>7. CASE Closed(p)
  <2>1. /\ c.wa \in Area /\ c.stage = "unshare" /\ aExclusive' = aExclusive
        /\ call' = [call EXCEPT ![p] = Ready]
        /\ area' = SetArea(p, c.wa, ClosedArea)
    BY <1>0, <1>7 DEF Closed
  <2>2. /\ \A q \in Proc \ {p} : call'[q] = call[q] /\ area'[q] = area[q]
        /\ call'[p].stage = "idle" /\ ~area'[p][c.wa].open
        /\ \A b \in Area : b # c.wa => area'[p][b] = area[p][b]
    BY <1>0, <2>1 DEF TypeOK, SetArea, Ready, ClosedArea
  <2>3. GrantedOK(p)'
    <3>1. ASSUME NEW a \in Area, a = c.wa PROVE ~HasTable(p, a)'
      BY <3>1, <2>2 DEF HasTable
    <3>2. ASSUME NEW a \in Area, a # c.wa, HasTable(p, a)' PROVE HasTable(p, a)
      BY <2>1, <2>2, <3>2 DEF HasTable
    <3>3. KeepsTable(p) => KeepsTable(p)'
      BY <2>1, <2>2 DEF KeepsTable
    <3>4. \A b \in aExclusive[p] : b \in Area /\ b # c.wa
      BY <1>0, <2>1 DEF AreaOK, TypeOK
    <3> QED
      BY <1>0, <2>1, <2>2, <3>1, <3>2, <3>3, <3>4 DEF GrantedOK
  <2> QED
    BY <1>0, <2>1, <2>2, <2>3, GrantsOfOthers
<1> QED
  BY <1>1, <1>2, <1>3, <1>4, <1>5, <1>6, <1>7 DEF Proceed

(* A request that gives back the rows an area holds comes when no other area *)
(* has the table.                                                            *)
LEMMA GivesBack ==
    ASSUME TypeOK, NEW p \in Proc, NEW a \in Area, MayGiveBack(p, a), Orderly,
           call[p] = Ready, NEW stage \in {"unlock", "closing"},
           call' = [call EXCEPT ![p] = ReleaseLocks(a, stage)],
           stage = "unlock" => area[p][a].shared,
           UNCHANGED <<area, aExclusive>>, GrantedInv
    PROVE  GrantedInv'
<1>1. /\ \A q \in Proc \ {p} : call'[q] = call[q]
      /\ call'[p].stage = stage /\ call'[p].wa = a
  BY DEF TypeOK, ReleaseLocks
<1>2. call[p].stage = "idle"
  BY DEF Ready
<1>3. ~HasTable(p, a)'
  BY <1>1 DEF HasTable
<1>4. ASSUME NEW b \in Area, b # a PROVE ~HasTable(p, b)'
  BY <1>1, <1>2, <1>4 DEF HasTable, MayGiveBack
<1>5. GrantedOK(p)'
  BY <1>1, <1>3, <1>4 DEF GrantedOK
<1> QED
  BY <1>1, <1>5, GrantsOfOthers

LEMMA RequestGrants ==
    ASSUME Orderly, IInv, GrantedInv, NEW p \in Proc, Request(p)
    PROVE  GrantedInv'
<1>0. TypeOK /\ AreaOK(p) /\ GrantedOK(p)
  BY DEF IInv, AreaInv, GrantedInv
<1>1. CASE Connect(p)
  BY <1>1 DEF Connect, GrantedInv, GrantedOK, HasTable, KeepsTable
<1>2. CASE Crash(p)
  <2>1. /\ \A q \in Proc \ {p} : /\ call'[q] = call[q] /\ area'[q] = area[q]
                                /\ aExclusive'[q] = aExclusive[q]
        /\ call'[p].stage = "idle"
        /\ \A b \in Area : ~area'[p][b].open
    BY <1>0, <1>2 DEF TypeOK, Crash, Ready, ClosedArea
  <2>2. GrantedOK(p)'
    BY <2>1 DEF GrantedOK, HasTable
  <2> QED
    BY <1>0, <2>1, <2>2, GrantsOfOthers
<1>3. ASSUME NEW a \in Area, OpenShared(p, a) \/ OpenExclusive(p, a) \/ FLock(p, a)
      PROVE  GrantedInv'
  <2>1. /\ UNCHANGED <<area, aExclusive>> /\ call[p] = Ready
        /\ call'[p].stage \notin {"unlock", "closing", "unshare"}
        /\ \A q \in Proc \ {p} : call'[q] = call[q]
    BY <1>0, <1>3 DEF OpenShared, OpenExclusive, FLock, TypeOK, SetLocks
  <2>2. call[p].stage = "idle"
    BY <2>1 DEF Ready
  <2>3. /\ \A b \in Area : HasTable(p, b)' <=> HasTable(p, b)
        /\ KeepsTable(p)' <=> KeepsTable(p)
    BY <2>1, <2>2 DEF HasTable, KeepsTable
  <2>4. GrantedOK(p)'
    BY <1>0, <2>1, <2>3 DEF GrantedOK
  <2> QED
    BY <1>0, <2>1, <2>4, GrantsOfOthers
<1>4. ASSUME NEW a \in Area, OpenExclusiveAgain(p, a)
      PROVE  GrantedInv'
  <2>1. /\ UNCHANGED <<aExclusive, call>> /\ call[p] = Ready /\ ~area[p][a].open
        /\ aExclusive[p] # {} /\ \E b \in aExclusive[p] : ~area[p][b].shared
        /\ area' = SetArea(p, a, [ open |-> TRUE, shared |-> FALSE,
                               lTableLocked |-> FALSE, lSharedLock |-> TRUE ])
    BY <1>4 DEF OpenExclusiveAgain, MayOpenAgain
  <2>2. /\ \A q \in Proc \ {p} : area'[q] = area[q]
        /\ \A b \in Area : b # a => area'[p][b] = area[p][b]
        /\ call[p].stage = "idle"
    BY <1>0, <2>1 DEF TypeOK, SetArea, Ready
  <2>3. \A b \in aExclusive[p] : b \in Area /\ b # a
    BY <1>0, <2>1 DEF AreaOK, TypeOK
  <2>4. \E b \in aExclusive'[p] : ~area'[p][b].shared
    BY <2>1, <2>2, <2>3
  <2>5. KeepsTable(p)'
    BY <2>1, <2>2 DEF KeepsTable
  <2>6. GrantedOK(p)'
    BY <2>1, <2>2, <2>4, <2>5 DEF GrantedOK
  <2> QED
    BY <1>0, <2>1, <2>2, <2>6, GrantsOfOthers
<1>5. ASSUME NEW a \in Area, FLockAgain(p, a)
      PROVE  GrantedInv'
  <2>1. /\ UNCHANGED <<aExclusive, call>> /\ call[p] = Ready /\ area[p][a].shared
        /\ aExclusive[p] # {} /\ area' = SetTableLocked(p, a, TRUE)
    BY <1>5 DEF FLockAgain
  <2>2. /\ \A q \in Proc \ {p} : area'[q] = area[q]
        /\ \A b \in Area : b # a => area'[p][b] = area[p][b]
        /\ area'[p][a].shared /\ call[p].stage = "idle"
    BY <1>0, <2>1 DEF TypeOK, SetTableLocked, SetArea, Ready
  <2>3. KeepsTable(p)'
    BY <2>1, <2>2 DEF KeepsTable
  <2>4. ASSUME NEW b \in Area, HasTable(p, b)', ~area'[p][b].shared
        PROVE  \E d \in aExclusive'[p] : ~area'[p][d].shared
    <3>1. HasTable(p, b) /\ ~area[p][b].shared
      BY <2>1, <2>2, <2>4 DEF HasTable
    <3>2. PICK d \in aExclusive[p] : ~area[p][d].shared
      BY <1>0, <3>1 DEF GrantedOK
    <3>3. d \in Area /\ d # a
      BY <1>0, <2>1, <3>2 DEF TypeOK
    <3> QED
      BY <2>1, <2>2, <3>2, <3>3
  <2>5. GrantedOK(p)'
    BY <2>1, <2>2, <2>3, <2>4 DEF GrantedOK
  <2> QED
    BY <1>0, <2>1, <2>2, <2>5, GrantsOfOthers
<1>6. ASSUME NEW a \in Area, Unlock(p, a)
      PROVE  GrantedInv'
  <2>1. CASE a \in aExclusive[p]
    <3>1. /\ call' = [call EXCEPT ![p] = ReleaseLocks(a, "unlock")] /\ MayGiveBack(p, a)
          /\ UNCHANGED <<area, aExclusive>> /\ call[p] = Ready /\ area[p][a].shared
      BY <1>6, <2>1 DEF Unlock
    <3> QED
      BY <1>0, <3>1, GivesBack
  <2>2. CASE a \notin aExclusive[p]
    <3>1. /\ UNCHANGED <<aExclusive, call>> /\ call[p] = Ready /\ area[p][a].shared
          /\ area' = SetTableLocked(p, a, FALSE)
      BY <1>6, <2>2 DEF Unlock
    <3>2. /\ \A q \in Proc \ {p} : area'[q] = area[q]
          /\ \A b \in Area : b # a => area'[p][b] = area[p][b]
          /\ area'[p][a].shared /\ ~area'[p][a].lTableLocked /\ call[p].stage = "idle"
      BY <1>0, <3>1 DEF TypeOK, SetTableLocked, SetArea, Ready
    <3>3. ~HasTable(p, a)'
      BY <3>2 DEF HasTable
    <3>4. ASSUME NEW b \in Area, b # a, HasTable(p, b)' PROVE HasTable(p, b)
      BY <3>1, <3>2, <3>4 DEF HasTable
    <3>5. KeepsTable(p)' <=> KeepsTable(p)
      BY <3>1 DEF KeepsTable
    <3>6. \A b \in aExclusive[p] : b \in Area /\ b # a
      BY <1>0, <2>2 DEF TypeOK
    <3>7. GrantedOK(p)'
      BY <1>0, <3>1, <3>2, <3>3, <3>4, <3>5, <3>6 DEF GrantedOK
    <3> QED
      BY <1>0, <3>1, <3>2, <3>7, GrantsOfOthers
  <2> QED
    BY <2>1, <2>2
<1>7. ASSUME NEW a \in Area, CloseLocked(p, a)
      PROVE  GrantedInv'
  <2>1. /\ call' = [call EXCEPT ![p] = ReleaseLocks(a, "closing")] /\ MayGiveBack(p, a)
        /\ UNCHANGED <<area, aExclusive>> /\ call[p] = Ready
    BY <1>7 DEF CloseLocked
  <2> QED
    BY <1>0, <2>1, GivesBack
<1>8. ASSUME NEW a \in Area, Close(p, a)
      PROVE  GrantedInv'
  <2>1. /\ call[p] = Ready /\ ReleaseShare(p, a) /\ aExclusive' = aExclusive
        /\ ~(area[p][a].lTableLocked /\ a \in aExclusive[p])
    BY <1>8 DEF Close
  <2>2. /\ \A q \in Proc \ {p} : call'[q] = call[q] /\ area'[q] = area[q]
        /\ (call'[p].stage = "unshare" /\ call'[p].wa = a) \/ ~area'[p][a].open
        /\ call'[p].stage \in {"unshare", "idle"} /\ call[p].stage = "idle"
        /\ \A b \in Area : b # a => area'[p][b] = area[p][b]
    BY <1>0, <2>1 DEF TypeOK, ReleaseShare, SetTableLocked, SetArea, ReleaseLocks, Ready,
       ClosedArea
  <2>3. ~HasTable(p, a)'
    BY <2>2 DEF HasTable
  <2>4. ASSUME NEW b \in Area, b # a, HasTable(p, b)' PROVE HasTable(p, b)
    BY <2>2, <2>4 DEF HasTable
  <2>5. KeepsTable(p) => KeepsTable(p)'
    BY <2>1, <2>2 DEF KeepsTable
  <2>6. \A b \in aExclusive[p] : b \in Area /\ b # a
    BY <1>0, <2>1 DEF AreaOK, TypeOK
  <2>7. GrantedOK(p)'
    BY <1>0, <2>1, <2>2, <2>3, <2>4, <2>5, <2>6 DEF GrantedOK
  <2> QED
    BY <1>0, <2>1, <2>2, <2>7, GrantsOfOthers
<1> QED
  BY <1>1, <1>2, <1>3, <1>4, <1>5, <1>6, <1>7, <1>8 DEF Request

LEMMA Granted ==
    ASSUME Backend # "ORACLE", Orderly
    PROVE  Spec => []GrantedInv
<1>1. Init => GrantedInv
  <2> SUFFICES ASSUME Init, NEW p \in Proc
               PROVE  GrantedOK(p)
    BY DEF GrantedInv
  <2>1. call[p].stage = "idle"
    BY DEF Init, Ready
  <2>2. \A a \in Area : ~area[p][a].open
    BY DEF Init, ClosedArea
  <2> QED
    BY <2>1, <2>2 DEF GrantedOK, HasTable
<1>2. IInv /\ GrantedInv /\ [Next]_vars => GrantedInv'
  <2> SUFFICES ASSUME IInv, GrantedInv, [Next]_vars
               PROVE  GrantedInv'
    OBVIOUS
  <2>1. ASSUME NEW p \in Proc, Proceed(p) \/ Request(p)
        PROVE  GrantedInv'
    BY <2>1, ProceedGrants, RequestGrants
  <2>2. CASE UNCHANGED <<area, aExclusive, call>>
    BY <2>2 DEF GrantedInv, GrantedOK, HasTable, KeepsTable
  <2> QED
    BY <2>1, <2>2 DEF Next, DropSession, vars
<1> QED
  BY <1>1, <1>2, Invariant, PTL DEF Spec

(* A process with an area that has the table is connected and keeps the rows. *)
LEMMA HasTableKeeps ==
    ASSUME IInv, GrantedInv, NEW p \in Proc, NEW a \in Area, HasTable(p, a)
    PROVE  /\ KeepsTable(p) /\ sess[p] # 0
           /\ ~area[p][a].shared => \E b \in aExclusive[p] : ~area[p][b].shared
<1>1. sess[p] # 0
  BY DEF HasTable, IInv, SessInv
<1> QED
  BY <1>1 DEF GrantedInv, GrantedOK

LEMMA IInvOwnerHasRows == IInv /\ GrantedInv => OwnerHasRows
<1> SUFFICES ASSUME IInv, GrantedInv, NEW p \in Proc, NEW a \in Area, HasTable(p, a)
             PROVE  /\ rows["FLOCK"] = sess[p]
                    /\ ~area[p][a].shared => rows["EXC"] = sess[p]
  BY DEF OwnerHasRows
<1> QED
  BY HasTableKeeps DEF IInv, RowInv, RowOK

LEMMA IInvOneOwner == IInv /\ GrantedInv => OneOwner
<1> SUFFICES ASSUME IInv, GrantedInv, NEW p \in Proc, NEW q \in Proc, Owns(p), Owns(q)
             PROVE  p = q
  BY DEF OneOwner
<1>1. rows["FLOCK"] = sess[p] /\ rows["FLOCK"] = sess[q] /\ sess[p] # 0
  BY IInvOwnerHasRows, HasTableKeeps DEF Owns, OwnerHasRows
<1> QED
  BY <1>1 DEF IInv, SessInv

(* However many processes, work areas and sessions there are, however often  *)
(* SR_SetLocks retries and whenever processes die or the server drops their  *)
(* sessions, no two processes have been told that they have the table, if    *)
(* the applications are Orderly: they may ask for it through any number of   *)
(* areas, but give the rows back last.                                       *)
THEOREM OneOwnerAlways ==
    ASSUME Backend # "ORACLE", Orderly
    PROVE  Spec => []OneOwner
BY IInvOneOwner, Invariant, Granted, PTL

(* Of Orderly applications no area that was told it has the table, be it on   *)
(* the rows of another, loses its FLOCK or EXC row before it starts to give  *)
(* the table back: neither to a housekeeping, nor to the failed request of   *)
(* another process, nor to an open or close of another area of its own.      *)
THEOREM OwnersKeepRows ==
    ASSUME Backend # "ORACLE", Orderly
    PROVE  Spec => []OwnerHasRows
BY IInvOwnerHasRows, Invariant, Granted, PTL

-----------------------------------------------------------------------------
(* The table locks implement the ownership of TableOwner. *)

(* Owner names the process that owns the table. *)
OwnerNames ==
    /\ \A p \in Proc : Owns(p) => Owner = p
    /\ (\A p \in Proc : ~Owns(p)) => Owner = None

LEMMA OwnerIs == OneOwner => OwnerNames
<1> SUFFICES ASSUME OneOwner PROVE OwnerNames
  OBVIOUS
<1>1. ASSUME NEW p \in Proc, Owns(p)
      PROVE  Owner = p
  <2>1. \E q \in Proc : Owns(q)
    BY <1>1
  <2>2. Owner \in Proc /\ Owns(Owner)
    <3>1. Owner = CHOOSE q \in Proc : Owns(q)
      BY <2>1 DEF Owner
    <3> QED
      BY <2>1, <3>1
  <2> QED
    BY <1>1, <2>2 DEF OneOwner
<1>2. ASSUME \A p \in Proc : ~Owns(p)
      PROVE  Owner = None
  BY <1>2 DEF Owner
<1> QED
  BY <1>1, <1>2 DEF OwnerNames

(* A step is the step of one process, and what another process owns is told  *)
(* by its own areas and its own call.                                        *)
LEMMA OneActor ==
    ASSUME TypeOK, [Next]_vars
    PROVE  \/ \A q \in Proc : Owns(q)' <=> Owns(q)
           \/ \E p \in Proc : \A q \in Proc \ {p} : Owns(q)' <=> Owns(q)
<1>1. ASSUME NEW p \in Proc, Proceed(p) \/ Request(p)
      PROVE  \A q \in Proc \ {p} : Owns(q)' <=> Owns(q)
  <2>1. ASSUME NEW q \in Proc \ {p}
        PROVE  call'[q] = call[q] /\ area'[q] = area[q]
    <3>1. ASSUME Proceed(p)
          PROVE  call'[q] = call[q] /\ area'[q] = area[q]
      BY <3>1 DEF TypeOK, Proceed, Insert, InsertFails, Housekeeping, UndoSetLocks,
         DeleteLock, CheckGranted, CheckReleased, ShareReturned, ExclusiveGranted,
         LockTableDenied, FLockGranted, Unlocked, CloseUnlocked, Closed, ReleaseShare,
         SetTableLocked, SetArea
    <3>2. ASSUME Request(p)
          PROVE  call'[q] = call[q] /\ area'[q] = area[q]
      BY <3>2 DEF TypeOK, Request, Connect, Crash, OpenShared, OpenExclusive,
         OpenExclusiveAgain, FLock, FLockAgain, Unlock, CloseLocked, Close, ReleaseShare,
         SetTableLocked, SetArea
    <3> QED
      BY <1>1, <3>1, <3>2
  <2> QED
    BY <2>1 DEF Owns, HasTable
<1>2. ASSUME NEW s \in listed, DropSession(s)
      PROVE  \A q \in Proc : Owns(q)' <=> Owns(q)
  BY <1>2 DEF DropSession, Owns, HasTable
<1>3. ASSUME UNCHANGED vars
      PROVE  \A q \in Proc : Owns(q)' <=> Owns(q)
  BY <1>3 DEF vars, Owns, HasTable
<1> QED
  BY <1>1, <1>2, <1>3 DEF Next

LEMMA OwnershipStep ==
    ASSUME TypeOK, OneOwner, OneOwner', [Next]_vars
    PROVE  [Ownership!Next]_Owner
<1>0. OwnerNames /\ OwnerNames'
  BY OwnerIs, PTL
<1>1. /\ \A p \in Proc : Owns(p) => Owner = p
      /\ (\A p \in Proc : ~Owns(p)) => Owner = None
      /\ \A p \in Proc : Owns(p)' => Owner' = p
      /\ (\A p \in Proc : ~Owns(p)') => Owner' = None
  BY <1>0 DEF OwnerNames
<1>2. CASE \A q \in Proc : Owns(q)' <=> Owns(q)
  <2>1. CASE \E p \in Proc : Owns(p)
    BY <1>1, <1>2, <2>1
  <2>2. CASE \A p \in Proc : ~Owns(p)
    BY <1>1, <1>2, <2>2
  <2> QED
    BY <2>1, <2>2
<1>3. ASSUME NEW p \in Proc, \A q \in Proc \ {p} : Owns(q)' <=> Owns(q)
      PROVE  [Ownership!Next]_Owner
  <2>1. CASE Owns(p)' <=> Owns(p)
    BY <1>2, <1>3, <2>1
  <2>2. CASE Owns(p) /\ ~Owns(p)'
    <3>1. \A q \in Proc : ~Owns(q)'
      BY <1>3, <2>2 DEF OneOwner
    <3>2. Owner = p /\ Owner' = None
      BY <1>1, <2>2, <3>1
    <3> QED
      BY <3>2 DEF Ownership!Next, Ownership!Release
  <2>3. CASE ~Owns(p) /\ Owns(p)'
    <3>1. \A q \in Proc : ~Owns(q)
      BY <1>3, <2>3 DEF OneOwner
    <3>2. Owner = None /\ Owner' = p
      BY <1>1, <2>3, <3>1
    <3> QED
      BY <3>2 DEF Ownership!Next, Ownership!Acquire
  <2> QED
    BY <2>1, <2>2, <2>3
<1> QED
  BY <1>2, <1>3, OneActor

(* LockTable and UnlockTable implement the ownership of a table: it passes   *)
(* from one process to another only through a release, whatever the number   *)
(* of areas a process has it through, if the applications are Orderly.       *)
THEOREM TableLocksImplementOwnership ==
    ASSUME Backend # "ORACLE", Orderly
    PROVE  Spec => ImplementsOwnership
<1>1. Init => Ownership!Init
  <2> SUFFICES ASSUME Init PROVE Owner = None
    BY DEF Ownership!Init
  <2> QED
    BY DEF Init, Owner, Owns, HasTable, ClosedArea
<1>2. IInv /\ IInv' /\ GrantedInv /\ GrantedInv' /\ [Next]_vars => [Ownership!Next]_Owner
  <2>1. IInv' /\ GrantedInv' => OneOwner'
    BY IInvOneOwner, PTL
  <2> QED
    BY <2>1, IInvOneOwner, OwnershipStep DEF IInv
<1> QED
  BY <1>1, <1>2, Invariant, Granted, PTL DEF Spec, ImplementsOwnership, Ownership!Spec

-----------------------------------------------------------------------------
(* Housekeeping keeps the rows of the living. *)

LEMMA LiveRowsStep ==
    ASSUME Backend # "ORACLE", IInv, [Next]_vars,
           NEW p \in Proc, NEW l \in Lock,
           rows[l] = sess[p], sess[p] # 0, rows'[l] # rows[l]
    PROVE  call'[p] # call[p]
<1>1. \A q \in Proc : sess[q] = sess[p] => q = p
  BY DEF IInv, SessInv
<1>2. Sweep[l] = rows[l]
  BY DEF IInv, SessInv, Sweep, Listed
<1>3. PICK q \in Proc : Connect(q) \/ Insert(q) \/ Housekeeping(q) \/ UndoSetLocks(q) \/ DeleteLock(q)
  <2>1. rows' # rows
    OBVIOUS
  <2>2. PICK q \in Proc : Proceed(q) \/ Request(q)
    BY <2>1 DEF Next, vars, DropSession
  <2>3. CASE Proceed(q)
    BY <2>1, <2>3 DEF Proceed, InsertFails, CheckGranted, CheckReleased, ShareReturned,
       ExclusiveGranted, LockTableDenied, FLockGranted, Unlocked, CloseUnlocked, Closed
  <2>4. CASE Request(q)
    BY <2>1, <2>4 DEF Request, Crash, OpenShared, OpenExclusive, OpenExclusiveAgain,
       FLock, FLockAgain, Unlock, CloseLocked, Close
  <2> QED
    BY <2>2, <2>3, <2>4
<1>4. CASE Connect(q) \/ Housekeeping(q)
  BY <1>2, <1>4 DEF Connect, Housekeeping
<1>5. CASE Insert(q)
  BY <1>5 DEF Insert, IInv, TypeOK
<1>6. CASE DeleteLock(q)
  <2>1. sess[q] = sess[p]
    BY <1>6 DEF DeleteLock, DeleteOwn, IInv, TypeOK
  <2>2. call'[p].n = call[p].n + 1
    BY <1>1, <1>6, <2>1 DEF DeleteLock, Advance, IInv, TypeOK
  <2> QED
    BY <2>2, CallFacts
<1>7. CASE UndoSetLocks(q)
  <2>1. sess[q] = sess[p] /\ call' = [call EXCEPT ![q] =
           Advance(call[q], "undo", call[q].n, call[q].k + 1, call[q].nRetries)]
    BY <1>7 DEF UndoSetLocks, DeleteOwn, IInv, TypeOK
  <2>2. call'[p].k = call[p].k + 1
    BY <1>1, <2>1 DEF Advance, IInv, TypeOK
  <2> QED
    BY <2>2, CallFacts
<1> QED
  BY <1>3, <1>4, <1>5, <1>6, <1>7

(* A row of a connected process disappears only by a statement of its own.   *)
THEOREM LiveRowsStay ==
    ASSUME Backend # "ORACLE"
    PROVE  Spec => LiveRowsKept
<1> DEFINE Kept == \A p \in Proc, l \in Lock :
                      rows[l] = sess[p] /\ sess[p] # 0 /\ rows'[l] # rows[l]
                        => call'[p] # call[p]
<1>1. IInv /\ [Next]_vars => [Kept]_vars
  BY LiveRowsStep
<1> QED
  BY <1>1, Invariant, PTL DEF Spec, LiveRowsKept

-----------------------------------------------------------------------------
(* The rows of a process beside an owner's *)

Mine(p, l) == sess[p] # 0 /\ rows[l] = sess[p]

(* The first i locks of a request are set and not yet taken back. *)
HasSet(c, i) ==
    \/ c.at \in Setting \cup {"granted"} /\ c.n > i
    \/ c.at = "undo" /\ c.n > i /\ c.k < i

(* Each row a process has is that of an area that keeps it, or of the call   *)
(* the process is in: a request that has set it, a release that has yet to   *)
(* delete it.                                                                *)
FlockOK(p) ==
    LET c == call[p] IN
    Mine(p, "FLOCK") =>
        \/ aExclusive[p] # {} /\ ~(c.stage \in {"unlock", "closing"} /\ c.n > 2)
        \/ c.stage \in {"exclusive", "flock"} /\ HasSet(c, 1)

ExcOK(p) ==
    LET c == call[p] IN
    Mine(p, "EXC") =>
        \/ /\ \E a \in aExclusive[p] : ~area[p][a].shared
           /\ ~(c.stage \in {"unlock", "closing"} /\ c.n > 1)
        \/ c.stage = "exclusive" /\ HasSet(c, 2)
        \/ c.stage = "check" /\ c.at = "granted"
        \/ c.stage = "checked" /\ c.n = 1

ShareOK(p) ==
    LET c == call[p] IN
    Mine(p, "SHARED") =>
        \/ /\ \E a \in Area : area[p][a].lSharedLock
           /\ ~(c.stage = "unshare" /\ c.n > 1)
        \/ c.stage \in {"share", "exclusive"} /\ c.at = "granted"

(* A request that is taken back is taken back from its first lock. *)
UndoFromStart(p) == call[p].at \in Setting \cup {"granted"} => call[p].k = 0

SharedIsOpen(p) == \A a \in Area : area[p][a].lSharedLock => area[p][a].open

AccountOK(p) == UndoFromStart(p) /\ SharedIsOpen(p) /\ FlockOK(p) /\ ExcOK(p) /\ ShareOK(p)

(* No row has a session that is still to come. *)
RowsOfThePast == \A l \in Lock : rows[l] <= nSess

AccountInv == RowsOfThePast /\ \A p \in Proc : AccountOK(p)

(* With one work area: while it has the SHARED lock the row is there, and an *)
(* exclusive area has it.                                                    *)
SharerOK(p) ==
    LET c == call[p] IN
    /\ \A a \in Area : area[p][a].lSharedLock => Mine(p, "SHARED") \/ (c.stage = "unshare" /\ c.n > 1)
    /\ \A a \in Area : area[p][a].open /\ ~area[p][a].shared => area[p][a].lSharedLock
    /\ c.stage \in {"share", "exclusive"} /\ c.at = "granted" => Mine(p, "SHARED")

SharerInv == \A p \in Proc : SharerOK(p)

OneArea == \A a, b \in Area : a = b

-----------------------------------------------------------------------------
(* What another process does leaves a process where it is, with its rows. *)

LEMMA SweepKeeps ==
    ASSUME Backend # "ORACLE", IInv, NEW p \in Proc, NEW l \in Lock, sess[p] # 0
    PROVE  Sweep[l] = sess[p] <=> rows[l] = sess[p]
  BY DEF IInv, SessInv, TypeOK, Sweep, Listed

LEMMA Untouched ==
    ASSUME IInv, NEW p \in Proc, NEW q \in Proc, p # q, Proceed(q) \/ Request(q)
    PROVE  area'[p] = area[p] /\ aExclusive'[p] = aExclusive[p] /\ call'[p] = call[p] /\ sess'[p] = sess[p]
  <1>1. CASE Proceed(q)
    BY <1>1 DEF IInv, TypeOK, Proceed, Insert, InsertFails, Housekeeping, UndoSetLocks, DeleteLock,
       CheckGranted, CheckReleased, ShareReturned, ExclusiveGranted, LockTableDenied,
       FLockGranted, Unlocked, CloseUnlocked, Closed, SetArea, SetTableLocked, ReleaseShare
  <1>2. CASE Request(q)
    BY <1>2 DEF IInv, TypeOK, Request, Connect, Crash, OpenShared, OpenExclusive, OpenExclusiveAgain,
       FLock, FLockAgain, Unlock, CloseLocked, Close, SetArea, SetTableLocked, ReleaseShare
  <1> QED BY <1>1, <1>2

LEMMA RowsOfOthers ==
    ASSUME Backend # "ORACLE", IInv, RowsOfThePast, NEW p \in Proc, NEW q \in Proc, p # q,
           Proceed(q) \/ Request(q), NEW l \in Lock
    PROVE  Mine(p, l)' <=> Mine(p, l)
  <1> USE DEF Mine
  <1>1. sess'[p] = sess[p]
    BY Untouched
  <1> SUFFICES ASSUME sess[p] # 0 PROVE rows'[l] = sess[p] <=> rows[l] = sess[p]
    BY <1>1
  <1>2. sess[p] # sess[q] /\ sess[p] \in 0..nSess
    BY DEF IInv, SessInv, TypeOK
  <1>3. CASE Connect(q) \/ Housekeeping(q)
    BY <1>3, SweepKeeps DEF Connect, Housekeeping
  <1>4. CASE Insert(q)
    BY <1>2, <1>4 DEF Insert, IInv, TypeOK
  <1>5. CASE DeleteLock(q) \/ UndoSetLocks(q)
    BY <1>2, <1>5 DEF DeleteLock, UndoSetLocks, DeleteOwn, IInv, TypeOK
  <1>6. CASE ~(Connect(q) \/ Housekeeping(q) \/ Insert(q) \/ DeleteLock(q) \/ UndoSetLocks(q))
    <2>1. UNCHANGED rows
      BY <1>6 DEF Proceed, Request, InsertFails, CheckGranted, CheckReleased, ShareReturned,
         ExclusiveGranted, LockTableDenied, FLockGranted, Unlocked, CloseUnlocked, Closed, Crash,
         OpenShared, OpenExclusive, OpenExclusiveAgain, FLock, FLockAgain, Unlock, CloseLocked, Close
    <2> QED BY <2>1
  <1> QED BY <1>3, <1>4, <1>5, <1>6
-----------------------------------------------------------------------------
(* What a process does itself. *)

LEMMA LocksInOrder ==
    /\ Len(LocksOf["check"]) = 1 /\ LocksOf["check"][1] = "EXC"
    /\ Len(LocksOf["flock"]) = 1 /\ LocksOf["flock"][1] = "FLOCK"
    /\ Len(LocksOf["share"]) = 1 /\ LocksOf["share"][1] = "SHARED"
    /\ Len(LocksOf["checked"]) = 1 /\ LocksOf["checked"][1] = "EXC"
    /\ Len(LocksOf["unshare"]) = 1 /\ LocksOf["unshare"][1] = "SHARED"
    /\ Len(LocksOf["exclusive"]) = 3
    /\ LocksOf["exclusive"][1] = "FLOCK" /\ LocksOf["exclusive"][2] = "EXC" /\ LocksOf["exclusive"][3] = "SHARED"
    /\ Len(LocksOf["unlock"]) = 2 /\ LocksOf["unlock"][1] = "EXC" /\ LocksOf["unlock"][2] = "FLOCK"
    /\ Len(LocksOf["closing"]) = 2 /\ LocksOf["closing"][1] = "EXC" /\ LocksOf["closing"][2] = "FLOCK"
  BY DEF LocksOf

LEMMA OwnFacts ==
    ASSUME IInv, NEW p \in Proc
    PROVE  /\ call \in [Proc -> Call] /\ area \in [Proc -> [Area -> AreaState]]
           /\ aExclusive \in [Proc -> SUBSET Area] /\ sess \in [Proc -> 0..nSess]
           /\ rows \in [Lock -> 0..MaxSess] /\ nSess \in Nat
           /\ AreaOK(p) /\ CallOK(call[p])
           /\ sess[p] = 0 => call[p] = Ready /\ aExclusive[p] = {} /\ \A a \in Area : ~area[p][a].open
  BY DEF IInv, TypeOK, AreaInv, CallInv, SessInv

(* The end of sqlClose keeps the SHARED row until it is deleted, or of another area. *)
LEMMA AreaReleased ==
    ASSUME IInv, NEW p \in Proc, NEW a \in Area, AccountOK(p), ReleaseShare(p, a), UNCHANGED <<rows, sess>>,
           call[p].stage # "unshare", call[p].at # "granted"
    PROVE  /\ UndoFromStart(p)' /\ SharedIsOpen(p)' /\ ShareOK(p)'
           /\ \A b \in Area : b # a => area'[p][b] = area[p][b]
           /\ call'[p].stage \in {"idle", "unshare"}
  <1>1. CASE area[p][a].lSharedLock
    <2>1. call'[p] = ReleaseLocks(a, "unshare") /\ area' = SetTableLocked(p, a, FALSE)
      BY <1>1, OwnFacts DEF ReleaseShare
    <2>2. PICK r \in AreaState : /\ area' = SetArea(p, a, r) /\ r.open = area[p][a].open
                                 /\ r.lSharedLock = area[p][a].lSharedLock
      BY <2>1, SetTableLockedLemma DEF IInv
    <2>3. area'[p][a] = r /\ \A b \in Area : b # a => area'[p][b] = area[p][b]
      BY <2>2, SetAreaLemma DEF IInv
    <2>4. call'[p].stage = "unshare" /\ call'[p].at = "delete" /\ call'[p].n = 1
      BY <2>1 DEF ReleaseLocks
    <2>5. UndoFromStart(p)'
      BY <2>4 DEF UndoFromStart, Setting
    <2>6. SharedIsOpen(p)'
      BY <2>2, <2>3 DEF AccountOK, SharedIsOpen
    <2>7. ShareOK(p)'
      <3>1. area'[p][a].lSharedLock
        BY <1>1, <2>2, <2>3
      <3>2. ~(call'[p].stage = "unshare" /\ call'[p].n > 1)
        BY <2>4
      <3> QED BY <3>1, <3>2 DEF ShareOK
    <2> QED BY <2>3, <2>4, <2>5, <2>6, <2>7
  <1>2. CASE ~area[p][a].lSharedLock
    <2>1. call'[p] = Ready /\ area' = SetArea(p, a, ClosedArea)
      BY <1>2, OwnFacts DEF ReleaseShare
    <2>2. area'[p][a] = ClosedArea /\ \A b \in Area : b # a => area'[p][b] = area[p][b]
      BY <2>1, SetAreaLemma, CallTypes DEF IInv
    <2>3. call'[p].stage = "idle" /\ call'[p].at = "ready" /\ ~ClosedArea.lSharedLock
      BY <2>1 DEF Ready, ClosedArea
    <2>4. UndoFromStart(p)' /\ SharedIsOpen(p)'
      BY <2>2, <2>3 DEF AccountOK, UndoFromStart, SharedIsOpen, Setting
    <2>5. ShareOK(p)'
      BY <1>2, <2>2, <2>3 DEF AccountOK, ShareOK, Mine
    <2> QED BY <2>2, <2>3, <2>4, <2>5
  <1> QED BY <1>1, <1>2

(* The INSERT of each request is of the lock whose turn it is, and the last    *)
(* one grants it.                                                             *)
LEMMA Inserted ==
    ASSUME IInv, NEW p \in Proc, Insert(p)
    PROVE  LET c == call[p]
               d == call'[p]
               l == CurrentLock(c)
           IN
           /\ c.at \in Setting /\ c.n \in 1..3
           /\ d.stage = c.stage /\ d.n = c.n + 1 /\ d.k = c.k /\ d.at \in {"ins1", "granted"}
           /\ \/ c.stage = "check" /\ d.at = "granted" /\ l = "EXC"
              \/ c.stage = "flock" /\ d.at = "granted" /\ l = "FLOCK"
              \/ c.stage = "share" /\ d.at = "granted" /\ l = "SHARED"
              \/ c.stage = "exclusive" /\ c.n = 1 /\ d.at = "ins1" /\ l = "FLOCK"
              \/ c.stage = "exclusive" /\ c.n = 2 /\ d.at = "ins1" /\ l = "EXC"
              \/ c.stage = "exclusive" /\ c.n = 3 /\ d.at = "granted" /\ l = "SHARED"
  <1> DEFINE c == call[p]
             at == IF c.n < Len(LocksOf[c.stage]) THEN "ins1" ELSE "granted"
  <1>1. /\ c.stage \in {"check", "exclusive", "flock", "share"} /\ c.n \in 1..3
        /\ c.n <= Len(LocksOf[c.stage]) /\ c.k \in 0..2 /\ c.at \in Setting
    BY CallFacts, OwnFacts DEF Insert, CallOK, Setting
  <1>2. \/ c.stage = "check" /\ at = "granted" /\ CurrentLock(c) = "EXC"
        \/ c.stage = "flock" /\ at = "granted" /\ CurrentLock(c) = "FLOCK"
        \/ c.stage = "share" /\ at = "granted" /\ CurrentLock(c) = "SHARED"
        \/ c.stage = "exclusive" /\ c.n = 1 /\ at = "ins1" /\ CurrentLock(c) = "FLOCK"
        \/ c.stage = "exclusive" /\ c.n = 2 /\ at = "ins1" /\ CurrentLock(c) = "EXC"
        \/ c.stage = "exclusive" /\ c.n = 3 /\ at = "granted" /\ CurrentLock(c) = "SHARED"
    <2>1. CASE c.stage = "exclusive"
      <3>1. Len(LocksOf[c.stage]) = 3 /\ CurrentLock(c) = LocksOf["exclusive"][c.n]
        BY <2>1, LocksInOrder DEF CurrentLock
      <3>2. at = IF c.n < 3 THEN "ins1" ELSE "granted"
        BY <3>1
      <3>3. c.n = 1 \/ c.n = 2 \/ c.n = 3
        BY <1>1
      <3> HIDE DEF c, at
      <3> QED BY <2>1, <3>1, <3>2, <3>3, LocksInOrder
    <2>2. CASE c.stage # "exclusive"
      <3>0. c.stage = "check" \/ c.stage = "flock" \/ c.stage = "share"
        BY <1>1, <2>2
      <3>1. Len(LocksOf[c.stage]) = 1 /\ c.n = 1
        <4>1. Len(LocksOf[c.stage]) = 1
          BY <3>0, LocksInOrder
        <4> HIDE DEF c
        <4> QED BY <1>1, <4>1
      <3>2. at = "granted" /\ CurrentLock(c) = LocksOf[c.stage][1]
        BY <3>1 DEF CurrentLock
      <3> HIDE DEF c, at
      <3> QED BY <3>0, <3>1, <3>2, LocksInOrder
    <2> QED BY <2>1, <2>2
  <1>3. /\ call'[p].stage = c.stage /\ call'[p].at = at /\ call'[p].n = c.n + 1 /\ call'[p].k = c.k
        /\ at \in {"ins1", "granted"}
    BY OwnFacts DEF Insert, Advance
  <1> HIDE DEF at
  <1> QED BY <1>1, <1>2, <1>3

LEMMA InsertAccounts ==
    ASSUME Backend # "ORACLE", IInv, NEW p \in Proc, AccountOK(p), RowsOfThePast, Insert(p)
    PROVE  AccountOK(p)'
  <1> DEFINE c == call[p]
             d == call'[p]
             l == CurrentLock(c)
  <1>1. /\ c.at \in Setting /\ c.n \in 1..3
        /\ d.stage = c.stage /\ d.n = c.n + 1 /\ d.k = c.k /\ d.at \in {"ins1", "granted"}
    BY Inserted
  <1>2. \/ c.stage = "check" /\ d.at = "granted" /\ l = "EXC"
        \/ c.stage = "flock" /\ d.at = "granted" /\ l = "FLOCK"
        \/ c.stage = "share" /\ d.at = "granted" /\ l = "SHARED"
        \/ c.stage = "exclusive" /\ c.n = 1 /\ d.at = "ins1" /\ l = "FLOCK"
        \/ c.stage = "exclusive" /\ c.n = 2 /\ d.at = "ins1" /\ l = "EXC"
        \/ c.stage = "exclusive" /\ c.n = 3 /\ d.at = "granted" /\ l = "SHARED"
    BY Inserted
  <1>3. \A m \in Lock : Mine(p, m)' => Mine(p, m) \/ m = l
    BY OwnFacts DEF Insert, Mine
  <1>4. UNCHANGED <<sess, area, aExclusive>>
    BY DEF Insert
  <1> HIDE DEF c, d, l
  <1>5. UndoFromStart(p)' /\ SharedIsOpen(p)'
    BY <1>1, <1>4 DEF AccountOK, UndoFromStart, SharedIsOpen, c, d
  <1>6. FlockOK(p)'
    <2> SUFFICES ASSUME Mine(p, "FLOCK")'
                 PROVE  \/ aExclusive[p] # {}
                        \/ c.stage \in {"exclusive", "flock"} /\ c.n + 1 > 1
      BY <1>1, <1>2, <1>4 DEF FlockOK, HasSet, Setting, d
    <2>1. CASE Mine(p, "FLOCK")
      BY <1>1, <2>1 DEF AccountOK, FlockOK, HasSet, Setting, c
    <2>2. CASE l = "FLOCK"
      BY <1>1, <1>2, <2>2
    <2> QED BY <1>3, <2>1, <2>2 DEF Lock
  <1>7. ExcOK(p)'
    <2> SUFFICES ASSUME Mine(p, "EXC")'
                 PROVE  \/ \E a \in aExclusive[p] : ~area[p][a].shared
                        \/ c.stage = "exclusive" /\ c.n + 1 > 2
                        \/ c.stage = "check"
      BY <1>1, <1>2, <1>4 DEF ExcOK, HasSet, Setting, d
    <2>1. CASE Mine(p, "EXC")
      BY <1>1, <1>2, <2>1 DEF AccountOK, ExcOK, HasSet, Setting, c
    <2>2. CASE l = "EXC"
      BY <1>1, <1>2, <2>2
    <2> QED BY <1>3, <2>1, <2>2 DEF Lock
  <1>8. ShareOK(p)'
    <2> SUFFICES ASSUME Mine(p, "SHARED")'
                 PROVE  \/ \E a \in Area : area[p][a].lSharedLock
                        \/ c.stage \in {"share", "exclusive"} /\ d.at = "granted"
      BY <1>1, <1>2, <1>4 DEF ShareOK, d
    <2>1. CASE Mine(p, "SHARED")
      BY <1>1, <2>1 DEF AccountOK, ShareOK, Setting, c
    <2>2. CASE l = "SHARED"
      BY <1>2, <2>2
    <2> QED BY <1>3, <2>1, <2>2 DEF Lock
  <1> QED BY <1>5, <1>6, <1>7, <1>8 DEF AccountOK

LEMMA InsertFailed ==
    ASSUME IInv, NEW p \in Proc, InsertFails(p)
    PROVE  /\ call[p].at \in Setting /\ call'[p].at \in {"clean1", "clean2", "undo"}
           /\ call'[p].stage = call[p].stage /\ call'[p].n = call[p].n /\ call'[p].k = call[p].k
           /\ UNCHANGED <<rows, sess, area, aExclusive>>
           /\ call[p].n \in 1..3 /\ call[p].stage \in {"check", "exclusive", "flock", "share"}
  <1>1. call[p].at \in Setting /\ UNCHANGED <<rows, sess, area, aExclusive>>
    BY DEF InsertFails, Setting
  <1>2. PICK at \in {"clean1", "clean2", "undo"}, left \in {call[p].nRetries, call[p].nRetries - 1} :
           call' = [call EXCEPT ![p] = Advance(call[p], at, call[p].n, call[p].k, left)]
    BY DEF InsertFails
  <1>3. call'[p] = Advance(call[p], at, call[p].n, call[p].k, left)
    BY <1>2, OwnFacts
  <1>4. call[p].n \in 1..3 /\ call[p].stage \in {"check", "exclusive", "flock", "share"}
    BY <1>1, OwnFacts, CallFacts DEF CallOK
  <1> QED BY <1>1, <1>3, <1>4 DEF Advance

LEMMA InsertFailsAccounts ==
    ASSUME Backend # "ORACLE", IInv, NEW p \in Proc, AccountOK(p), RowsOfThePast, InsertFails(p)
    PROVE  AccountOK(p)'
  <1>1. call'[p].at \in Setting \cup {"granted"} => call'[p].k = 0
    BY InsertFailed DEF AccountOK, UndoFromStart
  <1>2. UndoFromStart(p)' /\ SharedIsOpen(p)'
    BY <1>1, InsertFailed DEF AccountOK, UndoFromStart, SharedIsOpen
  <1>3. \A i \in {1, 2} : HasSet(call[p], i) => HasSet(call'[p], i)
    BY InsertFailed DEF AccountOK, UndoFromStart, HasSet, Setting
  <1>4. FlockOK(p)'
    BY <1>3, InsertFailed DEF AccountOK, FlockOK, Mine
  <1>5. ExcOK(p)'
    BY <1>3, InsertFailed DEF AccountOK, ExcOK, Mine, Setting
  <1>6. ShareOK(p)'
    BY InsertFailed DEF AccountOK, ShareOK, Mine, Setting
  <1> QED BY <1>2, <1>4, <1>5, <1>6 DEF AccountOK

LEMMA HousekeepingAccounts ==
    ASSUME Backend # "ORACLE", IInv, NEW p \in Proc, AccountOK(p), RowsOfThePast, Housekeeping(p)
    PROVE  AccountOK(p)'
  BY OwnFacts, CallFacts, SweepKeeps, SMTT(40)
     DEF Housekeeping, AccountOK, UndoFromStart, SharedIsOpen, FlockOK, ExcOK,
         ShareOK, HasSet, Mine, AreaOK, CallOK, Setting, Advance, Lock

LEMMA UndoSetLocksAccounts ==
    ASSUME Backend # "ORACLE", IInv, NEW p \in Proc, AccountOK(p), RowsOfThePast, UndoSetLocks(p)
    PROVE  AccountOK(p)'
  <1> DEFINE c == call[p]
  <1>1. /\ c.at = "undo" /\ c.stage \in {"check", "exclusive", "flock", "share"} /\ c.n \in 1..3
        /\ c.n <= Len(LocksOf[c.stage]) /\ c.k \in 0..2
    BY CallFacts, OwnFacts DEF UndoSetLocks, CallOK, Setting
  <1>2. c.stage \in {"check", "flock", "share"} => c.n = 1
    BY <1>1, LocksOfType
  <1>3. LocksOf["exclusive"][1] = "FLOCK" /\ LocksOf["exclusive"][2] = "EXC"
    BY LocksOfType
  <1>4. UNCHANGED <<sess, area, aExclusive>>
    BY DEF UndoSetLocks
  <1>5. c.stage \in {"check", "exclusive", "flock"} => aExclusive[p] = {}
    BY <1>1, OwnFacts DEF AreaOK
  <1>6. CASE c.k = c.n - 1
    <2>1. call'[p].at = "denied" /\ call'[p].stage = c.stage /\ call'[p].n = c.n /\ UNCHANGED rows
      BY <1>1, <1>6, OwnFacts DEF UndoSetLocks, Advance
    <2> HIDE DEF c
    <2> QED BY <1>1, <1>2, <1>4, <1>5, <1>6, <2>1
         DEF AccountOK, UndoFromStart, SharedIsOpen, FlockOK, ExcOK, ShareOK, Mine, HasSet, Setting, c
  <1>7. CASE c.k < c.n - 1
    <2>1. /\ call'[p].at = "undo" /\ call'[p].stage = c.stage /\ call'[p].n = c.n /\ call'[p].k = c.k + 1
          /\ rows' = DeleteOwn(p, LocksOf[c.stage][c.k + 1])
      BY <1>1, <1>7, OwnFacts DEF UndoSetLocks, Advance
    <2>2. c.stage = "exclusive" /\ c.k \in {0, 1}
      BY <1>1, <1>2, <1>7
    <2> DEFINE l == LocksOf[c.stage][c.k + 1]
    <2>3. l \in Lock /\ l = (IF c.k = 0 THEN "FLOCK" ELSE "EXC")
      BY <1>3, <2>2 DEF Lock
    <2>4. \A m \in Lock : Mine(p, m)' => Mine(p, m) /\ m # l
      BY <1>4, <2>1, <2>3, OwnFacts DEF DeleteOwn, Mine
    <2> HIDE DEF c, l
    <2> QED BY <1>1, <1>4, <1>5, <1>7, <2>1, <2>2, <2>3, <2>4
         DEF AccountOK, UndoFromStart, SharedIsOpen, FlockOK, ExcOK, ShareOK, HasSet, Setting, Lock, c
  <1> QED BY <1>6, <1>7 DEF UndoSetLocks

(* A release deletes the row whose turn it is, and no other row of its process. *)
LEMMA Deleted ==
    ASSUME IInv, NEW p \in Proc, DeleteLock(p)
    PROVE  LET c == call[p]
               d == call'[p]
               l == CurrentLock(c)
           IN
           /\ c.at = "delete" /\ d.at = "delete" /\ d.stage = c.stage /\ d.n = c.n + 1
           /\ UNCHANGED <<sess, area, aExclusive>>
           /\ \/ c.stage = "checked" /\ c.n = 1 /\ l = "EXC"
              \/ c.stage = "unshare" /\ c.n = 1 /\ l = "SHARED"
              \/ c.stage \in {"unlock", "closing"} /\ c.n = 1 /\ l = "EXC"
              \/ c.stage \in {"unlock", "closing"} /\ c.n = 2 /\ l = "FLOCK"
           /\ \A m \in Lock : Mine(p, m)' <=> Mine(p, m) /\ m # l
  <1> DEFINE c == call[p]
             l == CurrentLock(c)
  <1>1. /\ c.at = "delete" /\ c.stage \in {"checked", "unlock", "closing", "unshare"}
        /\ c.n \in 1..3 /\ c.n <= Len(LocksOf[c.stage]) /\ l \in Lock
    BY CallFacts, OwnFacts DEF DeleteLock, CallOK
  <1>2. \/ c.stage = "checked" /\ c.n = 1 /\ l = "EXC"
        \/ c.stage = "unshare" /\ c.n = 1 /\ l = "SHARED"
        \/ c.stage \in {"unlock", "closing"} /\ c.n = 1 /\ l = "EXC"
        \/ c.stage \in {"unlock", "closing"} /\ c.n = 2 /\ l = "FLOCK"
    BY <1>1, LocksInOrder DEF CurrentLock
  <1>3. /\ call'[p].at = "delete" /\ call'[p].stage = c.stage /\ call'[p].n = c.n + 1
        /\ UNCHANGED <<sess, area, aExclusive>> /\ rows' = DeleteOwn(p, l)
    BY OwnFacts DEF DeleteLock, Advance
  <1>4. \A m \in Lock : Mine(p, m)' <=> Mine(p, m) /\ m # l
    BY <1>1, <1>3, OwnFacts DEF DeleteOwn, Mine
  <1> QED BY <1>1, <1>2, <1>3, <1>4

LEMMA DeleteLockAccounts ==
    ASSUME Backend # "ORACLE", IInv, NEW p \in Proc, AccountOK(p), RowsOfThePast, DeleteLock(p)
    PROVE  AccountOK(p)'
  <1> DEFINE c == call[p]
             d == call'[p]
             l == CurrentLock(c)
  <1>1. /\ c.at = "delete" /\ d.at = "delete" /\ d.stage = c.stage /\ d.n = c.n + 1
        /\ UNCHANGED <<sess, area, aExclusive>>
    BY Deleted
  <1>2. \/ c.stage = "checked" /\ c.n = 1 /\ l = "EXC"
        \/ c.stage = "unshare" /\ c.n = 1 /\ l = "SHARED"
        \/ c.stage \in {"unlock", "closing"} /\ c.n = 1 /\ l = "EXC"
        \/ c.stage \in {"unlock", "closing"} /\ c.n = 2 /\ l = "FLOCK"
    BY Deleted
  <1>3. \A m \in Lock : Mine(p, m)' => Mine(p, m) /\ m # l
    BY Deleted
  <1>4. c.stage = "checked" => aExclusive[p] = {}
    BY OwnFacts DEF AreaOK
  <1> HIDE DEF c, d, l
  <1>5. UndoFromStart(p)' /\ SharedIsOpen(p)'
    BY <1>1 DEF AccountOK, UndoFromStart, SharedIsOpen, Setting, d
  <1>6. FlockOK(p)'
    BY <1>1, <1>2, <1>3 DEF AccountOK, FlockOK, HasSet, Setting, Lock, c, d
  <1>7. ExcOK(p)'
    BY <1>1, <1>2, <1>3, <1>4 DEF AccountOK, ExcOK, HasSet, Setting, Lock, c, d
  <1>8. ShareOK(p)'
    BY <1>1, <1>2, <1>3 DEF AccountOK, ShareOK, Lock, c, d
  <1> QED BY <1>5, <1>6, <1>7, <1>8 DEF AccountOK

LEMMA CheckGrantedAccounts ==
    ASSUME Backend # "ORACLE", IInv, NEW p \in Proc, AccountOK(p), RowsOfThePast, CheckGranted(p)
    PROVE  AccountOK(p)'
  BY OwnFacts, SMTT(40)
     DEF CheckGranted, AccountOK, UndoFromStart, SharedIsOpen, FlockOK, ExcOK,
         ShareOK, HasSet, Mine, AreaOK, CallOK, Setting, ReleaseLocks

LEMMA CheckReleasedAccounts ==
    ASSUME Backend # "ORACLE", IInv, NEW p \in Proc, AccountOK(p), RowsOfThePast, CheckReleased(p)
    PROVE  AccountOK(p)'
  BY OwnFacts, CallFacts, LocksInOrder, SMTT(40)
     DEF CheckReleased, AccountOK, UndoFromStart, SharedIsOpen, FlockOK, ExcOK,
         ShareOK, HasSet, Mine, AreaOK, CallOK, Setting, SetLocks, Released

LEMMA ShareReturnedAccounts ==
    ASSUME Backend # "ORACLE", IInv, NEW p \in Proc, AccountOK(p), RowsOfThePast, ShareReturned(p)
    PROVE  AccountOK(p)'
  <1> DEFINE c == call[p]
             r == [ open |-> TRUE, shared |-> TRUE, lTableLocked |-> FALSE, lSharedLock |-> (c.at = "granted") ]
  <1>1. /\ c.stage = "share" /\ c.at \in {"granted", "denied"} /\ c.wa \in Area
        /\ c.wa \notin aExclusive[p] /\ ~area[p][c.wa].open
    BY OwnFacts DEF ShareReturned, CallOK, AreaOK
  <1>2. area[p][c.wa] \in AreaState /\ r \in AreaState
    BY <1>1, OwnFacts DEF AreaState
  <1>3. /\ area'[p][c.wa] = r /\ \A b \in Area : b # c.wa => area'[p][b] = area[p][b]
        /\ call'[p] = Ready /\ UNCHANGED <<rows, sess, aExclusive>>
    <2>1. area' = SetArea(p, c.wa, r) /\ call' = [call EXCEPT ![p] = Ready] /\ UNCHANGED <<rows, sess, aExclusive>>
      BY DEF ShareReturned
    <2>2. TypeOK
      BY DEF IInv
    <2> HIDE DEF c, r
    <2> QED BY <1>1, <1>2, <2>1, <2>2, OwnFacts, SetAreaLemma
  <1>4. Ready.stage = "idle" /\ Ready.at = "ready" /\ (r.lSharedLock <=> c.at = "granted")
    BY DEF Ready
  <1>5. aExclusive[p] \subseteq Area
    BY OwnFacts
  <1>6. UndoFromStart(p)'
    BY <1>3, <1>4 DEF UndoFromStart, Setting
  <1> HIDE DEF c, r
  <1>7. FlockOK(p)' /\ SharedIsOpen(p)'
    <2>1. r.open
      BY DEF r
    <2> QED BY <1>1, <1>3, <1>4, <2>1 DEF AccountOK, FlockOK, SharedIsOpen, Mine, c
  <1>8. ExcOK(p)'
    BY <1>1, <1>3, <1>4, <1>5 DEF AccountOK, ExcOK, Mine, c
  <1>9. ShareOK(p)'
    <2>1. CASE c.at = "granted"
      BY <1>1, <1>3, <1>4, <2>1 DEF ShareOK
    <2>2. CASE c.at = "denied"
      <3>1. Mine(p, "SHARED")' => \E a \in Area : area[p][a].lSharedLock /\ a # c.wa
        BY <1>1, <1>3, <2>2 DEF AccountOK, SharedIsOpen, ShareOK, Mine, c
      <3> QED BY <1>1, <1>3, <1>4, <2>2, <3>1 DEF ShareOK
    <2> QED BY <1>1, <2>1, <2>2
  <1> QED BY <1>6, <1>7, <1>8, <1>9 DEF AccountOK

LEMMA ExclusiveGrantedAccounts ==
    ASSUME Backend # "ORACLE", IInv, NEW p \in Proc, AccountOK(p), RowsOfThePast, ExclusiveGranted(p)
    PROVE  AccountOK(p)'
  BY OwnFacts, SMTT(40)
     DEF ExclusiveGranted, AccountOK, UndoFromStart, SharedIsOpen, FlockOK,
         ExcOK, ShareOK, HasSet, Mine, AreaOK, CallOK, Setting, Ready, SetArea,
         AreaState

LEMMA LockTableDeniedAccounts ==
    ASSUME Backend # "ORACLE", IInv, NEW p \in Proc, AccountOK(p), RowsOfThePast, LockTableDenied(p)
    PROVE  AccountOK(p)'
  BY OwnFacts, SMTT(40)
     DEF LockTableDenied, AccountOK, UndoFromStart, SharedIsOpen, FlockOK, ExcOK,
         ShareOK, HasSet, Mine, AreaOK, CallOK, Setting, SetLocks, Ready

LEMMA FLockGrantedAccounts ==
    ASSUME Backend # "ORACLE", IInv, NEW p \in Proc, AccountOK(p), RowsOfThePast, FLockGranted(p)
    PROVE  AccountOK(p)'
  BY OwnFacts, SMTT(40)
     DEF FLockGranted, AccountOK, UndoFromStart, SharedIsOpen, FlockOK, ExcOK,
         ShareOK, HasSet, Mine, AreaOK, CallOK, Setting, Ready, SetArea,
         SetTableLocked, AreaState

LEMMA UnlockedAccounts ==
    ASSUME Backend # "ORACLE", IInv, NEW p \in Proc, AccountOK(p), RowsOfThePast, Unlocked(p)
    PROVE  AccountOK(p)'
  <1> DEFINE c == call[p]
  <1>1. /\ c.at = "delete" /\ c.stage = "unlock" /\ c.n \in Nat /\ c.n > 2 /\ c.wa \in aExclusive[p] /\ c.wa \in Area
    <2>1. Released(c) /\ c.stage = "unlock"
      BY DEF Unlocked
    <2>2. Len(LocksOf[c.stage]) = 2 /\ c.n \in Nat
      BY <2>1, CallFacts, LocksInOrder
    <2> QED BY <2>1, <2>2, OwnFacts DEF Released, AreaOK, CallOK
  <1>2. PICK r \in AreaState : /\ area' = SetArea(p, c.wa, r) /\ r.open = area[p][c.wa].open
                               /\ r.lSharedLock = area[p][c.wa].lSharedLock
    BY <1>1, SetTableLockedLemma DEF Unlocked, IInv
  <1>3. area'[p][c.wa] = r /\ \A b \in Area : b # c.wa => area'[p][b] = area[p][b]
    BY <1>1, <1>2, SetAreaLemma DEF IInv
  <1>4. call'[p] = Ready /\ UNCHANGED <<rows, sess>>
    BY OwnFacts DEF Unlocked
  <1>5. Ready.stage = "idle" /\ Ready.at = "ready"
    BY DEF Ready
  <1>6. ~Mine(p, "FLOCK") /\ ~Mine(p, "EXC")
    BY <1>1 DEF AccountOK, FlockOK, ExcOK, HasSet, Setting
  <1> HIDE DEF c
  <1>7. UndoFromStart(p)' /\ SharedIsOpen(p)' /\ FlockOK(p)' /\ ExcOK(p)'
    BY <1>1, <1>2, <1>3, <1>4, <1>5, <1>6 DEF AccountOK, UndoFromStart, SharedIsOpen, FlockOK, ExcOK, Mine, Setting
  <1>8. ShareOK(p)'
    BY <1>1, <1>2, <1>3, <1>4, <1>5 DEF AccountOK, ShareOK, Mine, c
  <1> QED BY <1>7, <1>8 DEF AccountOK

LEMMA CloseUnlockedAccounts ==
    ASSUME Backend # "ORACLE", IInv, NEW p \in Proc, AccountOK(p), RowsOfThePast, CloseUnlocked(p)
    PROVE  AccountOK(p)'
  <1> DEFINE c == call[p]
  <1>1. /\ c.at = "delete" /\ c.stage = "closing" /\ c.n \in Nat /\ c.n > 2 /\ c.wa \in aExclusive[p] /\ c.wa \in Area
    <2>1. Released(c) /\ c.stage = "closing"
      BY DEF CloseUnlocked
    <2>2. Len(LocksOf[c.stage]) = 2 /\ c.n \in Nat
      BY <2>1, CallFacts, LocksInOrder
    <2> QED BY <2>1, <2>2, OwnFacts DEF Released, AreaOK, CallOK
  <1>2. ReleaseShare(p, c.wa) /\ UNCHANGED <<rows, sess>>
    BY DEF CloseUnlocked
  <1>3. ~Mine(p, "FLOCK") /\ ~Mine(p, "EXC")
    BY <1>1 DEF AccountOK, FlockOK, ExcOK, HasSet, Setting
  <1>4. c.stage # "unshare" /\ ~(c.at = "granted")
    BY <1>1
  <1> HIDE DEF c
  <1>5. /\ UndoFromStart(p)' /\ SharedIsOpen(p)' /\ ShareOK(p)'
    BY <1>1, <1>2, <1>4, AreaReleased DEF c
  <1>6. FlockOK(p)' /\ ExcOK(p)'
    BY <1>2, <1>3 DEF FlockOK, ExcOK, Mine
  <1> QED BY <1>5, <1>6 DEF AccountOK

LEMMA ClosedAccounts ==
    ASSUME Backend # "ORACLE", IInv, NEW p \in Proc, AccountOK(p), RowsOfThePast, Closed(p)
    PROVE  AccountOK(p)'
  <1> DEFINE c == call[p]
  <1>1. /\ c.at = "delete" /\ c.stage = "unshare" /\ c.n > 1 /\ c.wa \notin aExclusive[p] /\ c.wa \in Area
    BY OwnFacts, CallFacts, LocksInOrder DEF Closed, Released, AreaOK, CallOK
  <1>2. area' = SetArea(p, c.wa, ClosedArea) /\ call'[p] = Ready /\ UNCHANGED <<rows, sess, aExclusive>>
    BY OwnFacts DEF Closed
  <1>3. area'[p][c.wa] = ClosedArea /\ \A b \in Area : b # c.wa => area'[p][b] = area[p][b]
    BY <1>1, <1>2, SetAreaLemma, CallTypes DEF IInv
  <1>4. Ready.stage = "idle" /\ Ready.at = "ready" /\ ~ClosedArea.lSharedLock
    BY DEF Ready, ClosedArea
  <1>5. ~Mine(p, "SHARED")
    BY <1>1 DEF AccountOK, ShareOK
  <1>6. aExclusive[p] \subseteq Area
    BY OwnFacts
  <1> HIDE DEF c
  <1>7. UndoFromStart(p)' /\ SharedIsOpen(p)' /\ ShareOK(p)'
    BY <1>1, <1>2, <1>3, <1>4, <1>5 DEF AccountOK, UndoFromStart, SharedIsOpen, ShareOK, Mine, Setting
  <1>8. FlockOK(p)' /\ ExcOK(p)'
    BY <1>1, <1>2, <1>3, <1>4, <1>6 DEF AccountOK, FlockOK, ExcOK, Mine, c
  <1> QED BY <1>7, <1>8 DEF AccountOK

LEMMA ConnectAccounts ==
    ASSUME Backend # "ORACLE", IInv, NEW p \in Proc, AccountOK(p), RowsOfThePast, Connect(p)
    PROVE  AccountOK(p)'
  <1>1. /\ call[p] = Ready /\ call' = call /\ area' = area /\ aExclusive' = aExclusive
        /\ sess'[p] = nSess + 1 /\ rows' = Sweep
    BY OwnFacts DEF Connect
  <1>2. \A l \in Lock : ~Mine(p, l)'
    BY <1>1, OwnFacts DEF RowsOfThePast, Mine, Sweep
  <1> QED BY <1>1, <1>2 DEF AccountOK, UndoFromStart, SharedIsOpen, FlockOK, ExcOK, ShareOK, Lock

LEMMA CrashAccounts ==
    ASSUME Backend # "ORACLE", IInv, NEW p \in Proc, AccountOK(p), RowsOfThePast, Crash(p)
    PROVE  AccountOK(p)'
  BY OwnFacts, SMTT(40)
     DEF Crash, AccountOK, UndoFromStart, SharedIsOpen, FlockOK, ExcOK, ShareOK,
         HasSet, Mine, AreaOK, CallOK, Setting, Ready, ClosedArea, Lock

LEMMA OpenSharedAccounts ==
    ASSUME Backend # "ORACLE", IInv, NEW p \in Proc, AccountOK(p), NEW a \in Area, OpenShared(p, a)
    PROVE  AccountOK(p)'
  BY OwnFacts, SMTT(40)
     DEF OpenShared, AccountOK, UndoFromStart, SharedIsOpen, FlockOK, ExcOK,
         ShareOK, HasSet, Mine, AreaOK, CallOK, Setting, SetLocks, Ready

LEMMA OpenExclusiveAccounts ==
    ASSUME Backend # "ORACLE", IInv, NEW p \in Proc, AccountOK(p), NEW a \in Area, OpenExclusive(p, a)
    PROVE  AccountOK(p)'
  BY OwnFacts, SMTT(40)
     DEF OpenExclusive, AccountOK, UndoFromStart, SharedIsOpen, FlockOK, ExcOK,
         ShareOK, HasSet, Mine, AreaOK, CallOK, Setting, SetLocks, Ready

LEMMA OpenExclusiveAgainAccounts ==
    ASSUME Backend # "ORACLE", IInv, NEW p \in Proc, AccountOK(p), NEW a \in Area, OpenExclusiveAgain(p, a)
    PROVE  AccountOK(p)'
  BY OwnFacts, SMTT(40)
     DEF OpenExclusiveAgain, AccountOK, UndoFromStart, SharedIsOpen, FlockOK,
         ExcOK, ShareOK, HasSet, Mine, AreaOK, CallOK, Setting, Ready, SetArea,
         AreaState

LEMMA FLockAccounts ==
    ASSUME Backend # "ORACLE", IInv, NEW p \in Proc, AccountOK(p), NEW a \in Area, FLock(p, a)
    PROVE  AccountOK(p)'
  BY OwnFacts, SMTT(40)
     DEF FLock, AccountOK, UndoFromStart, SharedIsOpen, FlockOK, ExcOK, ShareOK,
         HasSet, Mine, AreaOK, CallOK, Setting, SetLocks, Ready

LEMMA FLockAgainAccounts ==
    ASSUME Backend # "ORACLE", IInv, NEW p \in Proc, AccountOK(p), NEW a \in Area, FLockAgain(p, a)
    PROVE  AccountOK(p)'
  BY OwnFacts, SMTT(40)
     DEF FLockAgain, AccountOK, UndoFromStart, SharedIsOpen, FlockOK, ExcOK,
         ShareOK, HasSet, Mine, AreaOK, CallOK, Setting, Ready, SetArea,
         SetTableLocked, AreaState

LEMMA UnlockAccounts ==
    ASSUME Backend # "ORACLE", IInv, NEW p \in Proc, AccountOK(p), NEW a \in Area, Unlock(p, a)
    PROVE  AccountOK(p)'
  <1>1. call[p] = Ready /\ UNCHANGED <<rows, sess, aExclusive>>
    BY DEF Unlock
  <1>2. Ready.stage = "idle" /\ Ready.at = "ready"
    BY DEF Ready
  <1>3. CASE a \in aExclusive[p]
    <2>1. call'[p] = ReleaseLocks(a, "unlock") /\ UNCHANGED area
      BY <1>3, OwnFacts DEF Unlock
    <2>2. call'[p].stage = "unlock" /\ call'[p].at = "delete" /\ call'[p].n = 1
      BY <2>1 DEF ReleaseLocks
    <2> QED BY <1>1, <1>2, <2>1, <2>2
         DEF AccountOK, UndoFromStart, SharedIsOpen, FlockOK, ExcOK, ShareOK, Mine, HasSet, Setting
  <1>4. CASE a \notin aExclusive[p]
    <2>1. PICK r \in AreaState : /\ area' = SetArea(p, a, r) /\ r.open = area[p][a].open
                                 /\ r.lSharedLock = area[p][a].lSharedLock
      <3>1. area' = SetTableLocked(p, a, FALSE)
        BY <1>4 DEF Unlock
      <3> QED BY <3>1, SetTableLockedLemma DEF IInv
    <2>2. area'[p][a] = r /\ \A b \in Area : b # a => area'[p][b] = area[p][b]
      BY <2>1, SetAreaLemma DEF IInv
    <2>3. call'[p] = call[p] /\ aExclusive[p] \subseteq Area
      BY <1>4, OwnFacts DEF Unlock
    <2>4. UndoFromStart(p)' /\ SharedIsOpen(p)' /\ FlockOK(p)'
      BY <1>1, <1>2, <2>1, <2>2, <2>3 DEF AccountOK, UndoFromStart, SharedIsOpen, FlockOK, Mine, HasSet, Setting
    <2>5. ExcOK(p)' /\ ShareOK(p)'
      BY <1>1, <1>2, <1>4, <2>1, <2>2, <2>3 DEF AccountOK, ExcOK, ShareOK, Mine, HasSet, Setting
    <2> QED BY <2>4, <2>5 DEF AccountOK
  <1> QED BY <1>3, <1>4

LEMMA CloseLockedAccounts ==
    ASSUME Backend # "ORACLE", IInv, NEW p \in Proc, AccountOK(p), NEW a \in Area, CloseLocked(p, a)
    PROVE  AccountOK(p)'
  BY OwnFacts, SMTT(40)
     DEF CloseLocked, AccountOK, UndoFromStart, SharedIsOpen, FlockOK, ExcOK,
         ShareOK, HasSet, Mine, AreaOK, CallOK, Setting, ReleaseLocks, Ready

LEMMA CloseAccounts ==
    ASSUME Backend # "ORACLE", IInv, NEW p \in Proc, AccountOK(p), NEW a \in Area, Close(p, a)
    PROVE  AccountOK(p)'
  <1>1. call[p] = Ready /\ ReleaseShare(p, a) /\ UNCHANGED <<rows, sess, aExclusive>>
    BY DEF Close
  <1>2. Ready.stage = "idle" /\ Ready.at = "ready"
    BY DEF Ready
  <1>3. a \notin aExclusive[p] /\ aExclusive[p] \subseteq Area
    BY OwnFacts DEF Close, AreaOK
  <1>4. UndoFromStart(p)' /\ SharedIsOpen(p)' /\ ShareOK(p)'
    BY <1>1, <1>2, AreaReleased
  <1>5. /\ \A b \in Area : b # a => area'[p][b] = area[p][b]
        /\ call'[p].stage \in {"idle", "unshare"}
    BY <1>1, <1>2, AreaReleased
  <1>6. FlockOK(p)' /\ ExcOK(p)'
    BY <1>1, <1>2, <1>3, <1>5 DEF AccountOK, FlockOK, ExcOK, Mine, HasSet, Setting
  <1> QED BY <1>4, <1>6 DEF AccountOK

-----------------------------------------------------------------------------
(* With one work area. *)

LEMMA InsertShares ==
    ASSUME IInv, NEW p \in Proc, SharerOK(p), Insert(p)
    PROVE  SharerOK(p)'
  <1> DEFINE c == call[p]
             d == call'[p]
  <1>1. c.stage # "unshare" /\ d.stage = c.stage
    BY Inserted
  <1>2. c.stage \in {"share", "exclusive"} /\ d.at = "granted" => CurrentLock(c) = "SHARED"
    BY Inserted
  <1>3. sess[p] # 0 /\ UNCHANGED <<sess, area, aExclusive>>
    BY OwnFacts DEF Insert, Ready
  <1>4. Mine(p, "SHARED") => Mine(p, "SHARED")'
    BY <1>3, OwnFacts DEF Insert, Mine, Lock
  <1>5. CurrentLock(c) = "SHARED" => Mine(p, "SHARED")'
    BY <1>3, OwnFacts DEF Insert, Mine, Lock
  <1> HIDE DEF c, d
  <1> QED BY <1>1, <1>2, <1>3, <1>4, <1>5 DEF SharerOK, c, d

LEMMA InsertFailsShares ==
    ASSUME Backend # "ORACLE", OneArea, IInv, NEW p \in Proc, AccountOK(p), SharerOK(p), InsertFails(p)
    PROVE  SharerOK(p)'
  BY InsertFailed DEF SharerOK, Mine

LEMMA HousekeepingShares ==
    ASSUME Backend # "ORACLE", OneArea, IInv, NEW p \in Proc, AccountOK(p), SharerOK(p), Housekeeping(p)
    PROVE  SharerOK(p)'
  BY OwnFacts, CallFacts, SweepKeeps, SMTT(40)
     DEF Housekeeping, AccountOK, SharedIsOpen, OneArea, SharerOK, Mine, AreaOK,
         CallOK, Setting, Advance, Lock

LEMMA UndoSetLocksShares ==
    ASSUME Backend # "ORACLE", OneArea, IInv, NEW p \in Proc, AccountOK(p), SharerOK(p), UndoSetLocks(p)
    PROVE  SharerOK(p)'
  <1> DEFINE c == call[p]
  <1>1. /\ c.at = "undo" /\ c.stage \in {"check", "exclusive", "flock", "share"} /\ c.n \in 1..3
        /\ c.n <= Len(LocksOf[c.stage]) /\ c.k \in 0..2
    BY CallFacts, OwnFacts DEF UndoSetLocks, CallOK, Setting
  <1>2. UNCHANGED <<sess, area, aExclusive>>
    BY DEF UndoSetLocks
  <1>3. call'[p].at \in {"denied", "undo"} /\ call'[p].stage = c.stage
    BY OwnFacts DEF UndoSetLocks, Advance
  <1>4. Mine(p, "SHARED") => Mine(p, "SHARED")'
    <2>1. CASE UNCHANGED rows
      BY <1>2, <2>1 DEF Mine
    <2>2. CASE c.k < c.n - 1 /\ rows' = DeleteOwn(p, LocksOf[c.stage][c.k + 1])
      <3>1. c.stage = "exclusive" /\ (c.k = 0 \/ c.k = 1)
        <4>1. c.n # 1
          BY <1>1, <2>2
        <4>2. Len(LocksOf[c.stage]) # 1
          <5>1. ASSUME NEW len, c.n <= len, len = 1 PROVE FALSE
            BY <1>1, <4>1, <5>1
          <5> QED BY <1>1, <5>1
        <4>3. c.k = 0 \/ c.k = 1
          BY <1>1, <2>2
        <4> QED BY <1>1, <4>2, <4>3, LocksInOrder
      <3>2. LocksOf[c.stage][c.k + 1] \in {"FLOCK", "EXC"}
        BY <3>1, LocksInOrder
      <3> QED BY <1>2, <2>2, <3>2, OwnFacts DEF DeleteOwn, Mine, Lock
    <2> QED BY <2>1, <2>2 DEF UndoSetLocks
  <1> QED BY <1>1, <1>2, <1>3, <1>4 DEF SharerOK

LEMMA DeleteLockShares ==
    ASSUME Backend # "ORACLE", OneArea, IInv, NEW p \in Proc, AccountOK(p), SharerOK(p), DeleteLock(p)
    PROVE  SharerOK(p)'
  <1> DEFINE c == call[p]
             d == call'[p]
             l == CurrentLock(c)
  <1>1. /\ d.at = "delete" /\ d.stage = c.stage /\ d.n = c.n + 1 /\ UNCHANGED <<sess, area, aExclusive>>
    BY Deleted
  <1>2. (c.stage = "unshare" /\ c.n = 1) \/ l # "SHARED"
    BY Deleted
  <1>3. l # "SHARED" => (Mine(p, "SHARED")' <=> Mine(p, "SHARED"))
    BY Deleted DEF Lock
  <1>4. c.n \in Nat
    BY CallFacts
  <1> HIDE DEF c, d, l
  <1> QED BY <1>1, <1>2, <1>3, <1>4 DEF SharerOK, c, d

LEMMA CheckGrantedShares ==
    ASSUME Backend # "ORACLE", OneArea, IInv, NEW p \in Proc, AccountOK(p), SharerOK(p), CheckGranted(p)
    PROVE  SharerOK(p)'
  BY OwnFacts, SMTT(40)
     DEF CheckGranted, AccountOK, SharedIsOpen, OneArea, SharerOK, Mine, AreaOK,
         CallOK, Setting, ReleaseLocks

LEMMA CheckReleasedShares ==
    ASSUME Backend # "ORACLE", OneArea, IInv, NEW p \in Proc, AccountOK(p), SharerOK(p), CheckReleased(p)
    PROVE  SharerOK(p)'
  BY OwnFacts, CallFacts, LocksInOrder, SMTT(40)
     DEF CheckReleased, AccountOK, SharedIsOpen, OneArea, SharerOK, Mine, AreaOK,
         CallOK, Setting, SetLocks, Released

LEMMA ShareReturnedShares ==
    ASSUME Backend # "ORACLE", OneArea, IInv, NEW p \in Proc, AccountOK(p), SharerOK(p), ShareReturned(p)
    PROVE  SharerOK(p)'
  BY OwnFacts, SMTT(40)
     DEF ShareReturned, AccountOK, SharedIsOpen, OneArea, SharerOK, Mine, AreaOK,
         CallOK, Setting, Ready, SetArea, AreaState

LEMMA ExclusiveGrantedShares ==
    ASSUME Backend # "ORACLE", OneArea, IInv, NEW p \in Proc, AccountOK(p), SharerOK(p), ExclusiveGranted(p)
    PROVE  SharerOK(p)'
  BY OwnFacts, SMTT(40)
     DEF ExclusiveGranted, AccountOK, SharedIsOpen, OneArea, SharerOK, Mine,
         AreaOK, CallOK, Setting, Ready, SetArea, AreaState

LEMMA LockTableDeniedShares ==
    ASSUME Backend # "ORACLE", OneArea, IInv, NEW p \in Proc, AccountOK(p), SharerOK(p), LockTableDenied(p)
    PROVE  SharerOK(p)'
  BY OwnFacts, SMTT(40)
     DEF LockTableDenied, AccountOK, SharedIsOpen, OneArea, SharerOK, Mine,
         AreaOK, CallOK, Setting, SetLocks, Ready

LEMMA FLockGrantedShares ==
    ASSUME Backend # "ORACLE", OneArea, IInv, NEW p \in Proc, AccountOK(p), SharerOK(p), FLockGranted(p)
    PROVE  SharerOK(p)'
  BY OwnFacts, SMTT(40)
     DEF FLockGranted, AccountOK, SharedIsOpen, OneArea, SharerOK, Mine, AreaOK,
         CallOK, Setting, Ready, SetArea, SetTableLocked, AreaState

LEMMA UnlockedShares ==
    ASSUME Backend # "ORACLE", OneArea, IInv, NEW p \in Proc, AccountOK(p), SharerOK(p), Unlocked(p)
    PROVE  SharerOK(p)'
  <1> DEFINE c == call[p]
  <1>1. PICK r \in AreaState : /\ area' = SetArea(p, c.wa, r)
                               /\ r.open = area[p][c.wa].open /\ r.shared = area[p][c.wa].shared
                               /\ r.lSharedLock = area[p][c.wa].lSharedLock
    <2>1. area' = SetTableLocked(p, c.wa, FALSE) /\ c.wa \in Area
      BY OwnFacts DEF Unlocked, CallOK
    <2> QED BY <2>1, SetTableLockedLemma DEF IInv
  <1>2. c.wa \in Area /\ c.stage = "unlock"
    BY OwnFacts DEF Unlocked, CallOK
  <1>3. area'[p][c.wa] = r /\ \A b \in Area : b = c.wa
    BY <1>1, <1>2, SetAreaLemma DEF IInv, OneArea
  <1>4. call'[p] = Ready /\ UNCHANGED <<rows, sess>>
    BY OwnFacts DEF Unlocked
  <1>5. Ready.stage = "idle"
    BY DEF Ready
  <1>6. \A b \in Area : area[p][b].lSharedLock => Mine(p, "SHARED")
    BY <1>2 DEF SharerOK
  <1> HIDE DEF c
  <1>7. \A b \in Area : /\ area'[p][b].lSharedLock => area[p][b].lSharedLock
                        /\ area'[p][b].open /\ ~area'[p][b].shared => area'[p][b].lSharedLock
    BY <1>1, <1>3 DEF SharerOK
  <1> QED BY <1>4, <1>5, <1>6, <1>7 DEF SharerOK, Mine

LEMMA CloseUnlockedShares ==
    ASSUME Backend # "ORACLE", OneArea, IInv, NEW p \in Proc, AccountOK(p), SharerOK(p), CloseUnlocked(p)
    PROVE  SharerOK(p)'
  BY OwnFacts, CallFacts, LocksInOrder, SMTT(40)
     DEF CloseUnlocked, AccountOK, SharedIsOpen, OneArea, SharerOK, Mine, AreaOK,
         CallOK, Setting, ReleaseLocks, Ready, ClosedArea, SetArea,
         SetTableLocked, ReleaseShare, Released, AreaState

LEMMA ClosedShares ==
    ASSUME Backend # "ORACLE", OneArea, IInv, NEW p \in Proc, AccountOK(p), SharerOK(p), Closed(p)
    PROVE  SharerOK(p)'
  BY OwnFacts, CallFacts, LocksInOrder, SMTT(40)
     DEF Closed, AccountOK, SharedIsOpen, OneArea, SharerOK, Mine, AreaOK,
         CallOK, Setting, Ready, ClosedArea, SetArea, Released, AreaState

LEMMA ConnectShares ==
    ASSUME Backend # "ORACLE", OneArea, IInv, NEW p \in Proc, AccountOK(p), SharerOK(p), Connect(p)
    PROVE  SharerOK(p)'
  BY OwnFacts, SMTT(40)
     DEF Connect, AccountOK, SharedIsOpen, OneArea, SharerOK, Mine, AreaOK,
         CallOK, Setting

LEMMA CrashShares ==
    ASSUME Backend # "ORACLE", OneArea, IInv, NEW p \in Proc, AccountOK(p), SharerOK(p), Crash(p)
    PROVE  SharerOK(p)'
  BY OwnFacts, SMTT(40)
     DEF Crash, AccountOK, SharedIsOpen, OneArea, SharerOK, Mine, AreaOK, CallOK,
         Setting, Ready, ClosedArea, Lock

LEMMA OpenSharedShares ==
    ASSUME OneArea, IInv, NEW p \in Proc, AccountOK(p), SharerOK(p), NEW a \in Area, OpenShared(p, a)
    PROVE  SharerOK(p)'
  BY OwnFacts, SMTT(40)
     DEF OpenShared, AccountOK, SharedIsOpen, OneArea, SharerOK, Mine, AreaOK,
         CallOK, Setting, SetLocks, Ready

LEMMA OpenExclusiveShares ==
    ASSUME OneArea, IInv, NEW p \in Proc, AccountOK(p), SharerOK(p), NEW a \in Area, OpenExclusive(p, a)
    PROVE  SharerOK(p)'
  BY OwnFacts, SMTT(40)
     DEF OpenExclusive, AccountOK, SharedIsOpen, OneArea, SharerOK, Mine, AreaOK,
         CallOK, Setting, SetLocks, Ready

LEMMA OpenExclusiveAgainShares ==
    ASSUME OneArea, IInv, NEW p \in Proc, AccountOK(p), SharerOK(p), NEW a \in Area, OpenExclusiveAgain(p, a)
    PROVE  SharerOK(p)'
  BY OwnFacts, SMTT(40)
     DEF OpenExclusiveAgain, AccountOK, SharedIsOpen, OneArea, SharerOK, Mine,
         AreaOK, CallOK, Setting, Ready, SetArea, AreaState

LEMMA FLockShares ==
    ASSUME OneArea, IInv, NEW p \in Proc, AccountOK(p), SharerOK(p), NEW a \in Area, FLock(p, a)
    PROVE  SharerOK(p)'
  BY OwnFacts, SMTT(40)
     DEF FLock, AccountOK, SharedIsOpen, OneArea, SharerOK, Mine, AreaOK, CallOK,
         Setting, SetLocks, Ready

LEMMA FLockAgainShares ==
    ASSUME OneArea, IInv, NEW p \in Proc, AccountOK(p), SharerOK(p), NEW a \in Area, FLockAgain(p, a)
    PROVE  SharerOK(p)'
  BY OwnFacts, SMTT(40)
     DEF FLockAgain, AccountOK, SharedIsOpen, OneArea, SharerOK, Mine, AreaOK,
         CallOK, Setting, Ready, SetArea, SetTableLocked, AreaState

LEMMA UnlockShares ==
    ASSUME OneArea, IInv, NEW p \in Proc, AccountOK(p), SharerOK(p), NEW a \in Area, Unlock(p, a)
    PROVE  SharerOK(p)'
  BY OwnFacts, SMTT(40)
     DEF Unlock, AccountOK, SharedIsOpen, OneArea, SharerOK, Mine, AreaOK,
         CallOK, Setting, ReleaseLocks, Ready, SetArea, SetTableLocked,
         AreaState

LEMMA CloseLockedShares ==
    ASSUME OneArea, IInv, NEW p \in Proc, AccountOK(p), SharerOK(p), NEW a \in Area, CloseLocked(p, a)
    PROVE  SharerOK(p)'
  BY OwnFacts, SMTT(40)
     DEF CloseLocked, AccountOK, SharedIsOpen, OneArea, SharerOK, Mine, AreaOK,
         CallOK, Setting, ReleaseLocks, Ready

LEMMA CloseShares ==
    ASSUME OneArea, IInv, NEW p \in Proc, AccountOK(p), SharerOK(p), NEW a \in Area, Close(p, a)
    PROVE  SharerOK(p)'
  BY OwnFacts, SMTT(40)
     DEF Close, AccountOK, SharedIsOpen, OneArea, SharerOK, Mine, AreaOK, CallOK,
         Setting, ReleaseLocks, Ready, ClosedArea, SetArea, SetTableLocked,
         ReleaseShare, AreaState

-----------------------------------------------------------------------------

LEMMA PastStays ==
    ASSUME IInv, RowsOfThePast, [Next]_vars
    PROVE  RowsOfThePast'
  <1>1. rows \in [Lock -> 0..MaxSess] /\ nSess \in Nat /\ \A p \in Proc : sess[p] \in 0..nSess
    BY DEF IInv, TypeOK
  <1> SUFFICES ASSUME NEW l \in Lock PROVE rows'[l] <= nSess'
    BY DEF RowsOfThePast
  <1>2. rows[l] \in Nat /\ rows[l] <= nSess
    BY <1>1, BoundsAreNat DEF RowsOfThePast
  <1>3. nSess' \in Nat /\ nSess' >= nSess
    <2>1. nSess' = nSess \/ nSess' = nSess + 1
      <3>1. ASSUME NEW p \in Proc, Proceed(p) PROVE UNCHANGED nSess
        BY <3>1 DEF Proceed, Insert, InsertFails, Housekeeping, UndoSetLocks, DeleteLock, CheckGranted,
           CheckReleased, ShareReturned, ExclusiveGranted, LockTableDenied, FLockGranted, Unlocked,
           CloseUnlocked, Closed
      <3>2. ASSUME NEW p \in Proc, Request(p) PROVE nSess' = nSess \/ nSess' = nSess + 1
        BY <3>2 DEF Request, Connect, Crash, OpenShared, OpenExclusive, OpenExclusiveAgain, FLock,
           FLockAgain, Unlock, CloseLocked, Close
      <3> QED BY <3>1, <3>2 DEF Next, DropSession, vars
    <2> QED BY <1>1, <2>1
  <1>4. rows'[l] = rows[l] \/ rows'[l] = 0 \/ \E p \in Proc : rows'[l] = sess[p]
    <2>1. ASSUME NEW p \in Proc, Connect(p) \/ Housekeeping(p)
          PROVE  rows'[l] = rows[l] \/ rows'[l] = 0
      BY <2>1 DEF Connect, Housekeeping, Sweep
    <2>2. ASSUME NEW p \in Proc, Insert(p)
          PROVE  rows'[l] = rows[l] \/ rows'[l] = sess[p]
      BY <1>1, <2>2 DEF Insert
    <2>3. ASSUME NEW p \in Proc, DeleteLock(p) \/ UndoSetLocks(p)
          PROVE  rows'[l] = rows[l] \/ rows'[l] = 0
      BY <1>1, <2>3 DEF DeleteLock, UndoSetLocks, DeleteOwn
    <2>4. CASE ~ \E p \in Proc : \/ Connect(p) \/ Housekeeping(p) \/ Insert(p)
                                 \/ DeleteLock(p) \/ UndoSetLocks(p)
      <3>1. ASSUME NEW p \in Proc, Proceed(p) PROVE UNCHANGED rows
        BY <2>4, <3>1 DEF Proceed, InsertFails, CheckGranted, CheckReleased, ShareReturned,
           ExclusiveGranted, LockTableDenied, FLockGranted, Unlocked, CloseUnlocked, Closed
      <3>2. ASSUME NEW p \in Proc, Request(p) PROVE UNCHANGED rows
        BY <2>4, <3>2 DEF Request, Crash, OpenShared, OpenExclusive, OpenExclusiveAgain, FLock,
           FLockAgain, Unlock, CloseLocked, Close
      <3> QED BY <3>1, <3>2 DEF Next, DropSession, vars
    <2> QED BY <2>1, <2>2, <2>3, <2>4
  <1> QED BY <1>1, <1>2, <1>3, <1>4

(* A process's rows are accounted for after any step, its own or another's. *)
LEMMA AccountStep ==
    ASSUME Backend # "ORACLE", IInv, AccountInv, [Next]_vars, NEW p \in Proc
    PROVE  AccountOK(p)'
  <1>1. AccountOK(p) /\ RowsOfThePast
    BY DEF AccountInv
  <1>2. CASE Proceed(p) \/ Request(p)
    BY InsertAccounts, InsertFailsAccounts, HousekeepingAccounts,
       UndoSetLocksAccounts, DeleteLockAccounts, CheckGrantedAccounts,
       CheckReleasedAccounts, ShareReturnedAccounts, ExclusiveGrantedAccounts,
       LockTableDeniedAccounts, FLockGrantedAccounts, UnlockedAccounts,
       CloseUnlockedAccounts, ClosedAccounts, ConnectAccounts, CrashAccounts,
       OpenSharedAccounts, OpenExclusiveAccounts, OpenExclusiveAgainAccounts,
       FLockAccounts, FLockAgainAccounts, UnlockAccounts, CloseLockedAccounts,
       CloseAccounts, <1>1, <1>2
       DEF Proceed, Request
  <1>3. ASSUME NEW q \in Proc, q # p, Proceed(q) \/ Request(q)
        PROVE  AccountOK(p)'
    <2>1. \A l \in Lock : Mine(p, l)' <=> Mine(p, l)
      BY <1>1, <1>3, RowsOfOthers
    <2>2. area'[p] = area[p] /\ aExclusive'[p] = aExclusive[p] /\ call'[p] = call[p]
      BY <1>3, Untouched
    <2> QED BY <1>1, <2>1, <2>2
         DEF AccountOK, UndoFromStart, SharedIsOpen, FlockOK, ExcOK, ShareOK, Lock
  <1>4. CASE (\E s \in listed : DropSession(s)) \/ UNCHANGED vars
    BY <1>1, <1>4 DEF DropSession, vars, AccountOK, UndoFromStart, SharedIsOpen, FlockOK, ExcOK, ShareOK, Mine
  <1> QED BY <1>2, <1>3, <1>4 DEF Next

LEMMA SharerStep ==
    ASSUME Backend # "ORACLE", OneArea, IInv, AccountInv, SharerInv, [Next]_vars, NEW p \in Proc
    PROVE  SharerOK(p)'
  <1>1. AccountOK(p) /\ RowsOfThePast /\ SharerOK(p)
    BY DEF AccountInv, SharerInv
  <1>2. CASE Proceed(p) \/ Request(p)
    BY InsertShares, InsertFailsShares, HousekeepingShares, UndoSetLocksShares,
       DeleteLockShares, CheckGrantedShares, CheckReleasedShares,
       ShareReturnedShares, ExclusiveGrantedShares, LockTableDeniedShares,
       FLockGrantedShares, UnlockedShares, CloseUnlockedShares, ClosedShares,
       ConnectShares, CrashShares, OpenSharedShares, OpenExclusiveShares,
       OpenExclusiveAgainShares, FLockShares, FLockAgainShares, UnlockShares,
       CloseLockedShares, CloseShares, <1>1, <1>2
       DEF Proceed, Request
  <1>3. ASSUME NEW q \in Proc, q # p, Proceed(q) \/ Request(q)
        PROVE  SharerOK(p)'
    <2>1. \A l \in Lock : Mine(p, l)' <=> Mine(p, l)
      BY <1>1, <1>3, RowsOfOthers
    <2>2. area'[p] = area[p] /\ aExclusive'[p] = aExclusive[p] /\ call'[p] = call[p]
      BY <1>3, Untouched
    <2> QED BY <1>1, <2>1, <2>2 DEF SharerOK, Lock
  <1>4. CASE (\E s \in listed : DropSession(s)) \/ UNCHANGED vars
    BY <1>1, <1>4 DEF DropSession, vars, SharerOK, Mine
  <1> QED BY <1>2, <1>3, <1>4 DEF Next

LEMMA InitAccounts == Init => AccountInv /\ SharerInv
  BY DEF Init, AccountInv, SharerInv, RowsOfThePast, AccountOK, UndoFromStart, SharedIsOpen, FlockOK, ExcOK,
     ShareOK, SharerOK, Mine, Ready, ClosedArea, Setting, Lock

LEMMA Accounted ==
    ASSUME Backend # "ORACLE"
    PROVE  Spec => [](IInv /\ AccountInv)
  <1>1. IInv /\ AccountInv /\ [Next]_vars => AccountInv'
    BY AccountStep, PastStays DEF AccountInv
  <1> QED BY <1>1, InitAccounts, Invariant, PTL DEF Spec

(* No call, granted, denied or given up, leaves a row behind that nobody of  *)
(* its process accounts for: the others are kept out only by who is in.      *)
THEOREM NothingLeaks ==
    ASSUME Backend # "ORACLE"
    PROVE  Spec => []NoLeakedRow
  <1>1. AccountInv => NoLeakedRow
    BY DEF AccountInv, AccountOK, FlockOK, ExcOK, ShareOK, Mine, HasSet, Setting, Ready, NoLeakedRow
  <1> QED BY <1>1, Accounted, PTL

(* With one work area in each process, a shared open that was granted its    *)
(* lock and the exclusive open of another process exclude each other.        *)
THEOREM SharersKeepOwnersOut ==
    ASSUME Backend # "ORACLE", OneArea
    PROVE  Spec => []SharerKeepsExclusiveOut
  <1>1. IInv /\ AccountInv /\ SharerInv /\ [Next]_vars => SharerInv'
    BY SharerStep DEF SharerInv
  <1>2. IInv /\ SharerInv => SharerKeepsExclusiveOut
    <2> SUFFICES ASSUME IInv, SharerInv, NEW p \in Proc, NEW q \in Proc, NEW a \in Area, NEW b \in Area,
                        p # q, call[p] = Ready, call[q] = Ready, area[p][a].lSharedLock, area[q][b].lSharedLock
                 PROVE  FALSE
      BY DEF SharerKeepsExclusiveOut, SharerInv, SharerOK
    <2>1. Mine(p, "SHARED") /\ Mine(q, "SHARED")
      BY DEF SharerInv, SharerOK, Ready
    <2> QED BY <2>1 DEF Mine, IInv, SessInv
  <1> QED BY <1>1, <1>2, InitAccounts, Accounted, PTL DEF Spec
=============================================================================
