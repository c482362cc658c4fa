------------------------- MODULE RecordLocksProofs -------------------------
(***************************************************************************)
(* Proofs about RecordLocks, for any processes, records, values and depth  *)
(* of blocks.                                                              *)
(*                                                                         *)
(* First what holds for every value of the constants: each call leaves a   *)
(* fit state and commits nothing inside a block.  Then what holds when     *)
(* each process uses one area, locks before it edits, no write is refused  *)
(* and SR_AutoCommit is off: each call keeps the accounts of its process   *)
(* (Good) and touches no record another process has locked (Grows), so     *)
(* the accounts of the others stay right as well (BecomesGood).  They hold *)
(* under both isolation levels, but for what areas without a lock show,    *)
(* which is stored only where reads are committed (not ReadUncommitted).   *)
(***************************************************************************)
EXTENDS RecordLocks, TLAPS

-----------------------------------------------------------------------------
(* The states a call works on *)

Values == [Rec -> 0..MaxValue]

State == [ row: Values, done: Values, nextRec: Existing + 1 .. MaxRecord + 1,
           conn: Connection, wa: [Area -> AreaState] ]

LEMMA ConstantsOK ==
    /\ Existing \in Nat /\ MaxValue \in Nat /\ MaxDepth \in Nat /\ nAutoCommit \in Nat
    /\ MaxRecord \in Nat /\ MaxValue > 0 /\ Existing <= MaxRecord
    /\ Shared \in BOOLEAN /\ Careful \in BOOLEAN /\ Failing \in BOOLEAN
  BY BoundsAreNat, FlagsAreBoolean

LEMMA ClosedTypes ==
    /\ NoRow \in Values
    /\ Connected \in Connection
    /\ Closed \in AreaState
    /\ \A n \in 0..MaxDepth : [Connected EXCEPT !.nTransacCount = n] \in Connection
  <1>1. NoRow \in Values /\ {} \in SUBSET Rec /\ 0 \in 0..MaxValue /\ 0 \in 0..MaxRecord
        /\ 0 \in 0..MaxDepth /\ 0 \in 0..nAutoCommit
    BY ConstantsOK DEF NoRow, Values
  <1>2. Closed \in AreaState
    BY <1>1 DEF Closed, AreaState, Values
  <1>3. Connected \in Connection
    BY <1>1 DEF Connected, Connection, Values
  <1> QED BY <1>1, <1>2, <1>3 DEF Connection

LEMMA SetConn ==
    ASSUME NEW s \in State, NEW c \in Connection, NEW t, t = [s EXCEPT !.conn = c]
    PROVE  /\ t \in State /\ t.conn = c /\ t.wa = s.wa
           /\ t.row = s.row /\ t.done = s.done /\ t.nextRec = s.nextRec
  BY DEF State

LEMMA SetArea ==
    ASSUME NEW s \in State, NEW a \in Area, NEW w \in AreaState, NEW t, t = [s EXCEPT !.wa[a] = w]
    PROVE  /\ t \in State /\ t.conn = s.conn /\ t.wa = [s.wa EXCEPT ![a] = w] /\ t.wa[a] = w
           /\ t.row = s.row /\ t.done = s.done /\ t.nextRec = s.nextRec
  BY DEF State

LEMMA VisibleType ==
    ASSUME NEW s \in State, NEW r \in Rec
    PROVE  Visible(s, r) \in 0..MaxValue
  BY DEF State, Connection, Values, Visible

LEMMA CountedType ==
    ASSUME NEW n \in 0..MaxValue, NEW k \in 0..MaxValue
    PROVE  Counted(n, k) \in 0..MaxValue
  BY ConstantsOK DEF Counted

LEMMA CommitType ==
    ASSUME NEW s \in State
    PROVE  /\ Commit(s) \in State
           /\ Commit(s).row = AllVisible(s)
           /\ Commit(s).done = [r \in Rec |-> Counted(s.done[r], s.conn.edits[r])]
           /\ Commit(s).conn = [Connected EXCEPT !.nTransacCount = s.conn.nTransacCount]
           /\ Commit(s).nextRec = s.nextRec /\ Commit(s).wa = s.wa
  <1>1. AllVisible(s) \in Values
    BY VisibleType DEF AllVisible, Values
  <1>2. [r \in Rec |-> Counted(s.done[r], s.conn.edits[r])] \in Values
    <2>1. \A r \in Rec : s.done[r] \in 0..MaxValue /\ s.conn.edits[r] \in 0..MaxValue
      BY DEF State, Connection, Values
    <2> QED BY <2>1, CountedType DEF Values
  <1>3. [Connected EXCEPT !.nTransacCount = s.conn.nTransacCount] \in Connection
    BY ClosedTypes DEF State, Connection
  <1> QED BY <1>1, <1>2, <1>3 DEF Commit, State

LEMMA RollBackType ==
    ASSUME NEW s \in State
    PROVE  /\ RollBack(s) \in State
           /\ RollBack(s).conn = [Connected EXCEPT !.nTransacCount = s.conn.nTransacCount]
           /\ RollBack(s).row = s.row /\ RollBack(s).done = s.done
           /\ RollBack(s).nextRec = s.nextRec /\ RollBack(s).wa = s.wa
  <1>1. [Connected EXCEPT !.nTransacCount = s.conn.nTransacCount] \in Connection
    BY ClosedTypes DEF State, Connection
  <1> QED BY <1>1, SetConn DEF RollBack

LEMMA ExecutedType ==
    ASSUME NEW s \in State
    PROVE  /\ Executed(s) \in State
           /\ Executed(s).wa = s.wa /\ Executed(s).nextRec = s.nextRec
           /\ \/ s.conn.nTransacCount = 0 /\ nAutoCommit # 0 /\ Executed(s) = Commit(s)
              \/ /\ Executed(s).row = s.row /\ Executed(s).done = s.done
                 /\ \E n \in 0..nAutoCommit : Executed(s).conn = [s.conn EXCEPT !.nIteractions = n]
  <1> DEFINE k == s.conn.nIteractions
             c(n) == [s.conn EXCEPT !.nIteractions = n]
  <1>1. s.conn \in Connection /\ k \in 0..nAutoCommit
    BY DEF State, Connection
  <1>2. \A n \in 0..nAutoCommit : c(n) \in Connection
    BY <1>1 DEF Connection
  <1>3. s.conn = c(k)
    BY <1>1 DEF Connection
  <1>4. \/ Executed(s) = s
        \/ k + 1 \in 0..nAutoCommit /\ Executed(s) = [s EXCEPT !.conn = c(k + 1)]
        \/ s.conn.nTransacCount = 0 /\ nAutoCommit # 0 /\ Executed(s) = Commit(s)
    <2> DEFINE more == [s EXCEPT !.conn.nIteractions = @ + 1]
               due == k + 1 >= nAutoCommit /\ s.conn.nTransacCount = 0
    <2>1. Executed(s) = IF nAutoCommit = 0 THEN s ELSE IF due THEN Commit(s)
                        ELSE IF k < nAutoCommit THEN more ELSE s
      BY DEF Executed
    <2>2. more = [s EXCEPT !.conn = c(k + 1)]
      OBVIOUS
    <2> HIDE DEF k, c, more
    <2>3. k < nAutoCommit => k + 1 \in 0..nAutoCommit
      <3>1. nAutoCommit \in Nat
        BY ConstantsOK
      <3> QED BY <1>1, <3>1
    <2> QED BY <2>1, <2>2, <2>3
  <1>5. CASE Executed(s) = s
    BY <1>1, <1>3, <1>5
  <1>6. CASE k + 1 \in 0..nAutoCommit /\ Executed(s) = [s EXCEPT !.conn = c(k + 1)]
    <2> HIDE DEF c, k
    <2>1. /\ Executed(s) \in State /\ Executed(s).conn = c(k + 1) /\ Executed(s).wa = s.wa
          /\ Executed(s).row = s.row /\ Executed(s).done = s.done /\ Executed(s).nextRec = s.nextRec
      BY <1>2, <1>6, SetConn
    <2> QED BY <1>6, <2>1 DEF c
  <1>7. CASE s.conn.nTransacCount = 0 /\ nAutoCommit # 0 /\ Executed(s) = Commit(s)
    BY <1>7, CommitType
  <1> QED BY <1>4, <1>5, <1>6, <1>7

-----------------------------------------------------------------------------
(* Writes *)

LEMMA SentType ==
    ASSUME NEW s \in State, NEW r \in Rec, NEW v \in 0..MaxValue, NEW n \in 0..MaxValue
    PROVE  LET t == Sent(s, r, v, n)
           IN  /\ t \in State /\ t.wa = s.wa /\ t.row = s.row /\ t.done = s.done
               /\ t.nextRec = s.nextRec
               /\ t.conn.held = s.conn.held \cup {r}
               /\ t.conn.nTransacCount = s.conn.nTransacCount
               /\ t.conn.change[r] = v /\ t.conn.edits[r] = n
               /\ \A x \in Rec \ {r} : /\ t.conn.change[x] = s.conn.change[x]
                                       /\ t.conn.edits[x] = s.conn.edits[x]
  <1> DEFINE c == [s.conn EXCEPT !.change[r] = v, !.edits[r] = n, !.held = @ \cup {r}]
             t == Sent(s, r, v, n)
  <1>1. t = [s EXCEPT !.conn = c]
    BY DEF Sent
  <1>2. s.conn \in Connection
    BY DEF State
  <1>3. /\ c \in Connection /\ c.held = s.conn.held \cup {r}
        /\ c.nTransacCount = s.conn.nTransacCount
        /\ c.change[r] = v /\ c.edits[r] = n
        /\ \A x \in Rec \ {r} : /\ c.change[x] = s.conn.change[x]
                                /\ c.edits[x] = s.conn.edits[x]
    <2> DEFINE ch == [s.conn.change EXCEPT ![r] = v]
               ed == [s.conn.edits EXCEPT ![r] = n]
               he == s.conn.held \cup {r}
    <2>1. /\ ch \in [Rec -> 0..MaxValue] /\ ed \in [Rec -> 0..MaxValue] /\ he \in SUBSET Rec
          /\ ch[r] = v /\ ed[r] = n
          /\ \A x \in Rec \ {r} : ch[x] = s.conn.change[x] /\ ed[x] = s.conn.edits[x]
      BY <1>2 DEF Connection
    <2>2. c = [s.conn EXCEPT !.change = ch, !.edits = ed, !.held = he]
      OBVIOUS
    <2> HIDE DEF c, ch, ed, he
    <2>3. /\ c \in Connection /\ c.change = ch /\ c.edits = ed /\ c.held = he
          /\ c.nTransacCount = s.conn.nTransacCount
      BY <1>2, <2>1, <2>2 DEF Connection
    <2> QED BY <2>1, <2>3 DEF he
  <1> HIDE DEF c, t
  <1>4. /\ t \in State /\ t.conn = c /\ t.wa = s.wa /\ t.row = s.row /\ t.done = s.done
        /\ t.nextRec = s.nextRec
    BY <1>1, <1>3 DEF State
  <1> QED BY <1>3, <1>4 DEF t

(* What CheckCache leaves of an area. *)
SameBut(w, v) ==
    /\ w.open = v.open /\ w.cur = v.cur /\ w.hot = v.hot /\ w.isInsert = v.isInsert
    /\ w.aLocked = v.aLocked /\ w.lTableLocked = v.lTableLocked /\ w.typed = v.typed

LEMMA CheckCacheType ==
    ASSUME NEW s \in State, NEW a \in Area, NEW r \in Rec
    PROVE  LET t == CheckCache(s, a, r)
           IN /\ t \in State
              /\ t.conn = s.conn /\ t.row = s.row /\ t.done = s.done /\ t.nextRec = s.nextRec
              /\ t.wa[a] = s.wa[a]
              /\ \A x \in Area : SameBut(t.wa[x], s.wa[x])
  <1> DEFINE W == CheckCache(s, a, r).wa
  <1>1. \A x \in Area : s.wa[x] \in AreaState
    BY DEF State
  <1>2. W = [x \in Area |-> IF x = a \/ ~s.wa[x].open THEN s.wa[x]
                            ELSE [s.wa[x] EXCEPT !.page = NoRow,
                                    !.buf = IF s.wa[x].cur = r THEN s.wa[a].buf ELSE @]]
    BY DEF CheckCache, State
  <1>3. CheckCache(s, a, r) = [s EXCEPT !.wa = W]
    BY <1>2 DEF CheckCache
  <1> HIDE DEF W
  <1>4. \A x \in Area : W[x] \in AreaState /\ SameBut(W[x], s.wa[x])
    <2> SUFFICES ASSUME NEW x \in Area PROVE W[x] \in AreaState /\ SameBut(W[x], s.wa[x])
      OBVIOUS
    <2>1. NoRow \in [Rec -> 0..MaxValue] /\ s.wa[a].buf \in 0..MaxValue
      BY <1>1, ClosedTypes DEF AreaState, Values
    <2>2. CASE W[x] = s.wa[x]
      BY <1>1, <2>2 DEF SameBut
    <2>3. CASE \E b \in 0..MaxValue : W[x] = [s.wa[x] EXCEPT !.page = NoRow, !.buf = b]
      BY <1>1, <2>1, <2>3 DEF AreaState, SameBut
    <2>4. s.wa[x].buf \in 0..MaxValue
      BY <1>1 DEF AreaState
    <2>5. W[x] = s.wa[x] \/ W[x] = [s.wa[x] EXCEPT !.page = NoRow, !.buf = s.wa[a].buf]
            \/ W[x] = [s.wa[x] EXCEPT !.page = NoRow, !.buf = s.wa[x].buf]
      BY <1>2
    <2> QED BY <2>1, <2>2, <2>3, <2>4, <2>5
  <1>5. W \in [Area -> AreaState] /\ W[a] = s.wa[a]
    BY <1>2, <1>4
  <1>6. /\ [s EXCEPT !.wa = W] \in State
        /\ [s EXCEPT !.wa = W].wa = W /\ [s EXCEPT !.wa = W].conn = s.conn
        /\ [s EXCEPT !.wa = W].row = s.row /\ [s EXCEPT !.wa = W].done = s.done
        /\ [s EXCEPT !.wa = W].nextRec = s.nextRec
    BY <1>5 DEF State
  <1> QED BY <1>3, <1>4, <1>5, <1>6

(* What the area that writes becomes, and the others. *)
Written(t, a, e, v, s) ==
    /\ t \in State /\ t.conn = e.conn /\ t.row = e.row /\ t.done = e.done /\ t.nextRec = e.nextRec
    /\ t.wa[a] = v
    /\ \A x \in Area \ {a} : SameBut(t.wa[x], s.wa[x])

LEMMA WrittenType ==
    ASSUME NEW s, NEW e \in State, e.wa = s.wa, NEW a \in Area, NEW v \in AreaState, NEW r \in Rec
    PROVE  Written(CheckCache([e EXCEPT !.wa[a] = v], a, r), a, e, v, s)
  <1> DEFINE y == [e EXCEPT !.wa[a] = v]
  <1>1. /\ y \in State /\ y.conn = e.conn /\ y.row = e.row /\ y.done = e.done
        /\ y.nextRec = e.nextRec /\ y.wa = [e.wa EXCEPT ![a] = v]
    <2>1. y = [e EXCEPT !.wa[a] = v]
      OBVIOUS
    <2> HIDE DEF y
    <2> QED BY <2>1 DEF State
  <1>2. e.wa \in [Area -> AreaState]
    BY DEF State
  <1> HIDE DEF y
  <1>3. y.wa[a] = v /\ \A x \in Area \ {a} : y.wa[x] = s.wa[x]
    BY <1>1, <1>2
  <1>4. LET t == CheckCache(y, a, r)
        IN /\ t \in State
           /\ t.conn = y.conn /\ t.row = y.row /\ t.done = y.done /\ t.nextRec = y.nextRec
           /\ t.wa[a] = y.wa[a]
           /\ \A x \in Area : SameBut(t.wa[x], y.wa[x])
    BY <1>1, CheckCacheType
  <1> QED BY <1>1, <1>3, <1>4 DEF Written, y

(* The statements of the two writes, and the areas after them. *)
SentUpdate(s, a) ==
    LET w == s.wa[a] IN
    IF Visible(s, w.cur) = 0 THEN s
    ELSE Sent(s, w.cur, w.buf, Counted(s.conn.edits[w.cur], w.typed))
Updated(w) == [w EXCEPT !.hot = FALSE, !.typed = 0, !.page[w.cur] = w.buf]

SentInsert(s, a) == Sent([s EXCEPT !.nextRec = @ + 1], s.nextRec, s.wa[a].buf, s.wa[a].typed)
Inserted(w, r) ==
    [ w EXCEPT !.hot = FALSE, !.typed = 0, !.isInsert = FALSE,
               !.cur = r, !.page = [NoRow EXCEPT ![r] = w.buf],
               !.aLocked = IF Shared /\ Cardinality(@) < SR_MAXIMUN_LOCKS
                           THEN @ \cup {r} ELSE @ ]

LEMMA UpdatedType ==
    ASSUME NEW w \in AreaState, w.cur # 0
    PROVE  Updated(w) \in AreaState
  <1>1. MaxRecord \in Nat /\ 0 \in 0..MaxValue
    BY ConstantsOK
  <1>2. w.cur \in Rec /\ w.buf \in 0..MaxValue
    BY <1>1 DEF AreaState, Rec
  <1> QED BY <1>1, <1>2 DEF AreaState, Updated

LEMMA WriteUpdateType ==
    ASSUME NEW s \in State, NEW a \in Area, s.wa[a].cur # 0
    PROVE  /\ SentUpdate(s, a) \in State
           /\ Written(WriteUpdate(s, a), a, Executed(SentUpdate(s, a)), Updated(s.wa[a]), s)
  <1> DEFINE w == s.wa[a]
             u == SentUpdate(s, a)
             n == Counted(s.conn.edits[w.cur], w.typed)
  <1>1. w \in AreaState
    BY DEF State
  <1>2. w.cur \in Rec /\ w.buf \in 0..MaxValue /\ w.typed \in 0..MaxValue
    BY <1>1, ConstantsOK DEF AreaState, Rec
  <1>3. n \in 0..MaxValue
    <2>1. s.conn.edits[w.cur] \in 0..MaxValue
      BY <1>2 DEF State, Connection
    <2> QED BY <1>2, <2>1, CountedType
  <1>4. u = IF Visible(s, w.cur) = 0 THEN s ELSE Sent(s, w.cur, w.buf, n)
    BY DEF SentUpdate
  <1>5. WriteUpdate(s, a) = CheckCache([Executed(u) EXCEPT !.wa[a] = Updated(w)], a, w.cur)
    BY DEF WriteUpdate, SentUpdate, Updated
  <1> HIDE DEF u, w, n
  <1>6. u \in State /\ u.wa = s.wa
    <2>1. CASE u = s
      BY <2>1
    <2>2. CASE u = Sent(s, w.cur, w.buf, n)
      <3>1. /\ Sent(s, w.cur, w.buf, n) \in State
            /\ Sent(s, w.cur, w.buf, n).wa = s.wa
        BY <1>2, <1>3, SentType
      <3> QED BY <2>2, <3>1
    <2> QED BY <1>4, <2>1, <2>2
  <1>7. Executed(u) \in State /\ Executed(u).wa = s.wa
    BY <1>6, ExecutedType
  <1>8. Updated(w) \in AreaState
    <2>1. w.cur # 0
      BY DEF w
    <2> QED BY <1>1, <2>1, UpdatedType
  <1>9. Written(WriteUpdate(s, a), a, Executed(u), Updated(w), s)
    BY <1>2, <1>5, <1>7, <1>8, WrittenType
  <1> QED BY <1>6, <1>9 DEF u, w

LEMMA WriteInsertType ==
    ASSUME NEW s \in State, NEW a \in Area, s.nextRec <= MaxRecord
    PROVE  /\ SentInsert(s, a) \in State /\ SentInsert(s, a).nextRec = s.nextRec + 1
           /\ s.nextRec \in Rec
           /\ SentInsert(s, a).row = s.row /\ SentInsert(s, a).done = s.done
           /\ SentInsert(s, a).wa = s.wa
           /\ SentInsert(s, a).conn.change[s.nextRec] = s.wa[a].buf
           /\ SentInsert(s, a).conn.edits[s.nextRec] = s.wa[a].typed
           /\ \A x \in Rec \ {s.nextRec} :
                 /\ SentInsert(s, a).conn.change[x] = s.conn.change[x]
                 /\ SentInsert(s, a).conn.edits[x] = s.conn.edits[x]
           /\ SentInsert(s, a).conn.held = s.conn.held \cup {s.nextRec}
           /\ SentInsert(s, a).conn.nTransacCount = s.conn.nTransacCount
           /\ Written(WriteInsert(s, a), a, Executed(SentInsert(s, a)),
                      Inserted(s.wa[a], s.nextRec), s)
  <1> DEFINE w == s.wa[a]
             r == s.nextRec
             u == SentInsert(s, a)
             b == [s EXCEPT !.nextRec = @ + 1]
  <1>1. w \in AreaState /\ w.buf \in 0..MaxValue /\ w.typed \in 0..MaxValue
    BY DEF State, AreaState
  <1>2. r \in Rec /\ r + 1 \in Existing + 1 .. MaxRecord + 1 /\ r \in 0..MaxRecord
    BY ConstantsOK DEF State, Rec
  <1>3. /\ b \in State /\ b.nextRec = r + 1 /\ b.conn = s.conn /\ b.wa = s.wa
        /\ b.row = s.row /\ b.done = s.done
    BY <1>2 DEF State
  <1>4. u = Sent(b, r, w.buf, w.typed)
    BY DEF SentInsert
  <1>5. WriteInsert(s, a) = CheckCache([Executed(u) EXCEPT !.wa[a] = Inserted(w, r)], a, r)
    BY DEF WriteInsert, SentInsert, Inserted
  <1> HIDE DEF u, w, r, b
  <1>6. /\ u \in State /\ u.wa = s.wa /\ u.nextRec = r + 1 /\ u.row = s.row /\ u.done = s.done
        /\ u.conn.change[r] = w.buf /\ u.conn.edits[r] = w.typed
        /\ \A x \in Rec \ {r} : u.conn.change[x] = s.conn.change[x] /\ u.conn.edits[x] = s.conn.edits[x]
        /\ u.conn.held = s.conn.held \cup {r}
        /\ u.conn.nTransacCount = s.conn.nTransacCount
    <2> DEFINE v == w.buf
               n == w.typed
               t == Sent(b, r, v, n)
    <2>1. b \in State /\ r \in Rec /\ v \in 0..MaxValue /\ n \in 0..MaxValue
      BY <1>1, <1>2, <1>3
    <2> HIDE DEF v, n
    <2>2. /\ t \in State /\ t.wa = b.wa /\ t.row = b.row /\ t.done = b.done
          /\ t.nextRec = b.nextRec /\ t.conn.held = b.conn.held \cup {r}
          /\ t.conn.nTransacCount = b.conn.nTransacCount
          /\ t.conn.change[r] = v /\ t.conn.edits[r] = n
          /\ \A x \in Rec \ {r} : /\ t.conn.change[x] = b.conn.change[x]
                                  /\ t.conn.edits[x] = b.conn.edits[x]
      BY <2>1, SentType
    <2>3. u = t
      BY <1>4 DEF v, n
    <2> HIDE DEF t
    <2> QED BY <1>3, <2>2, <2>3 DEF v, n
  <1>7. Executed(u) \in State /\ Executed(u).wa = s.wa
    BY <1>6, ExecutedType
  <1>8. Inserted(w, r) \in AreaState
    <2> DEFINE page == [NoRow EXCEPT ![r] = w.buf]
               locked == IF Shared /\ Cardinality(w.aLocked) < SR_MAXIMUN_LOCKS
                         THEN w.aLocked \cup {r} ELSE w.aLocked
    <2>1. 0 \in 0..MaxValue
      BY ConstantsOK
    <2>2. page \in [Rec -> 0..MaxValue]
      BY <1>1, <1>2, ClosedTypes DEF Values
    <2>3. locked \in SUBSET Rec
      BY <1>1, <1>2 DEF AreaState
    <2>4. Inserted(w, r) = [ w EXCEPT !.hot = FALSE, !.typed = 0, !.isInsert = FALSE,
                                      !.cur = r, !.page = page, !.aLocked = locked ]
      BY DEF Inserted
    <2> HIDE DEF page, locked
    <2> QED BY <1>1, <1>2, <2>1, <2>2, <2>3, <2>4 DEF AreaState
  <1>9. Written(WriteInsert(s, a), a, Executed(u), Inserted(w, r), s)
    BY <1>2, <1>5, <1>7, <1>8, WrittenType
  <1> QED BY <1>2, <1>6, <1>9 DEF u, w, r

-----------------------------------------------------------------------------
(* Calls: what each leaves of a fit state, and what it may not do in a block *)

FitArea(w) == w \in AreaState /\ (w.hot /\ ~w.isInsert => w.cur # 0)
Fit(s) == s \in State /\ \A a \in Area : FitArea(s.wa[a])

(* Within one call of a process, and in the calls that begin or end a block.   *)
Within(s, t) ==
    /\ t.conn.nTransacCount = s.conn.nTransacCount
    /\ t.row # s.row => s.conn.nTransacCount = 0 /\ t.conn.change = NoRow
    /\ ~Failing /\ s.conn.nTransacCount > 0 => s.conn.held \subseteq t.conn.held
Quiet(s, t) == Within(s, t) /\ t.conn.change \in {s.conn.change, NoRow}
Step(s, t) ==
    /\ t.row # s.row => /\ s.conn.nTransacCount = 0 \/ t.conn.nTransacCount = 0
                        /\ t.conn.change = NoRow
    /\ ~Failing /\ s.conn.nTransacCount > 0 /\ t.conn.nTransacCount > 0
         => s.conn.held \subseteq t.conn.held

LEMMA WithinThenQuiet ==
    ASSUME NEW s, NEW t, NEW u, Within(s, t), Quiet(t, u)
    PROVE  Within(s, u)
  BY DEF Within, Quiet

LEMMA QuietThenQuiet ==
    ASSUME NEW s, NEW t, NEW u, Quiet(s, t), Quiet(t, u)
    PROVE  Quiet(s, u)
  BY DEF Within, Quiet

LEMMA QuietSelf ==
    ASSUME NEW s
    PROVE  Quiet(s, s)
  BY DEF Within, Quiet

Put(s, a, w) == [s EXCEPT !.wa[a] = w]
PutConn(s, c) == [s EXCEPT !.conn = c]

LEMMA PutFits ==
    ASSUME NEW s, Fit(s), NEW a \in Area, NEW w, FitArea(w)
    PROVE  /\ Fit(Put(s, a, w)) /\ Quiet(s, Put(s, a, w))
           /\ Put(s, a, w).conn = s.conn /\ Put(s, a, w).row = s.row
           /\ Put(s, a, w).done = s.done /\ Put(s, a, w).nextRec = s.nextRec
           /\ Put(s, a, w).wa[a] = w
           /\ \A x \in Area \ {a} : Put(s, a, w).wa[x] = s.wa[x]
  <1> DEFINE t == Put(s, a, w)
  <1>1. /\ t \in State /\ t.conn = s.conn /\ t.wa = [s.wa EXCEPT ![a] = w] /\ t.wa[a] = w
        /\ t.row = s.row /\ t.done = s.done /\ t.nextRec = s.nextRec
    BY DEF State, Put, Fit, FitArea
  <1> HIDE DEF t
  <1>2. \A x \in Area : FitArea(t.wa[x])
    BY <1>1 DEF Fit, State
  <1>3. Quiet(s, t)
    BY <1>1 DEF Quiet, Within
  <1>4. \A x \in Area \ {a} : t.wa[x] = s.wa[x]
    BY <1>1 DEF Fit, State
  <1> QED BY <1>1, <1>2, <1>3, <1>4 DEF Fit, t

LEMMA PutConnFits ==
    ASSUME NEW s, Fit(s), NEW c \in Connection
    PROVE  /\ Fit(PutConn(s, c)) /\ PutConn(s, c).conn = c /\ PutConn(s, c).row = s.row
           /\ PutConn(s, c).done = s.done /\ PutConn(s, c).nextRec = s.nextRec
           /\ PutConn(s, c).wa = s.wa
  <1> DEFINE t == PutConn(s, c)
  <1>1. /\ t \in State /\ t.conn = c /\ t.wa = s.wa
        /\ t.row = s.row /\ t.done = s.done /\ t.nextRec = s.nextRec
    BY DEF State, PutConn, Fit
  <1> HIDE DEF t
  <1> QED BY <1>1 DEF Fit, t

LEMMA CommitFits ==
    ASSUME NEW s, Fit(s)
    PROVE  /\ Fit(Commit(s)) /\ Commit(s).wa = s.wa /\ Commit(s).nextRec = s.nextRec
           /\ Commit(s).conn.change = NoRow
           /\ Commit(s).conn.nTransacCount = s.conn.nTransacCount
           /\ s.conn.nTransacCount = 0 => Quiet(s, Commit(s))
  <1>1. s \in State /\ s.conn \in Connection
    BY DEF Fit, State
  <1>2. /\ Commit(s) \in State /\ Commit(s).wa = s.wa /\ Commit(s).nextRec = s.nextRec
        /\ Commit(s).conn = [Connected EXCEPT !.nTransacCount = s.conn.nTransacCount]
    BY <1>1, CommitType
  <1>3. /\ Commit(s).conn.change = NoRow
        /\ Commit(s).conn.nTransacCount = s.conn.nTransacCount
    BY <1>2 DEF Connected
  <1>4. \A a \in Area : FitArea(Commit(s).wa[a])
    BY <1>2 DEF Fit
  <1>5. s.conn.nTransacCount = 0 => Quiet(s, Commit(s))
    BY <1>3 DEF Quiet, Within
  <1> QED BY <1>2, <1>3, <1>4, <1>5 DEF Fit

LEMMA ExecutedFits ==
    ASSUME NEW s, Fit(s)
    PROVE  Fit(Executed(s)) /\ Quiet(s, Executed(s)) /\ Executed(s).wa = s.wa
  <1>1. s \in State /\ s.conn \in Connection
    BY DEF Fit, State
  <1>2. /\ Executed(s) \in State /\ Executed(s).wa = s.wa
        /\ \/ s.conn.nTransacCount = 0 /\ nAutoCommit # 0 /\ Executed(s) = Commit(s)
           \/ /\ Executed(s).row = s.row /\ Executed(s).done = s.done
              /\ \E n \in 0..nAutoCommit : Executed(s).conn = [s.conn EXCEPT !.nIteractions = n]
    BY <1>1, ExecutedType
  <1>3. CASE s.conn.nTransacCount = 0 /\ nAutoCommit # 0 /\ Executed(s) = Commit(s)
    BY <1>2, <1>3, CommitFits
  <1>4. CASE /\ Executed(s).row = s.row /\ Executed(s).done = s.done
             /\ \E n \in 0..nAutoCommit : Executed(s).conn = [s.conn EXCEPT !.nIteractions = n]
    <2>1. /\ Executed(s).conn.change = s.conn.change /\ Executed(s).conn.held = s.conn.held
          /\ Executed(s).conn.nTransacCount = s.conn.nTransacCount
      BY <1>1, <1>4 DEF Connection
    <2>2. Quiet(s, Executed(s))
      BY <1>4, <2>1 DEF Quiet, Within
    <2> QED BY <1>2, <2>2 DEF Fit
  <1> QED BY <1>2, <1>3, <1>4

LEMMA WrittenFits ==
    ASSUME NEW s, Fit(s), NEW t, NEW a \in Area, NEW e, NEW v,
           Written(t, a, e, v, s), FitArea(v), Within(s, e)
    PROVE  Fit(t) /\ Within(s, t)
  <1>1. t \in State /\ t.conn = e.conn /\ t.row = e.row /\ t.wa[a] = v
        /\ \A x \in Area \ {a} : SameBut(t.wa[x], s.wa[x])
    BY DEF Written
  <1>2. \A x \in Area : t.wa[x] \in AreaState
    BY <1>1 DEF State
  <1>3. \A x \in Area : FitArea(t.wa[x])
    BY <1>1, <1>2 DEF Fit, FitArea, SameBut
  <1>4. Within(s, t)
    BY <1>1 DEF Within
  <1> QED BY <1>1, <1>3, <1>4 DEF Fit

LEMMA WriteUpdateFits ==
    ASSUME NEW s, Fit(s), NEW a \in Area, s.wa[a].cur # 0
    PROVE  /\ Fit(WriteUpdate(s, a)) /\ Within(s, WriteUpdate(s, a))
           /\ WriteUpdate(s, a).wa[a] = Updated(s.wa[a])
  <1> DEFINE w == s.wa[a]
             u == SentUpdate(s, a)
             t == WriteUpdate(s, a)
             n == Counted(s.conn.edits[w.cur], w.typed)
  <1>1. s \in State /\ FitArea(w) /\ w \in AreaState
    BY DEF Fit, FitArea
  <1>2. u \in State /\ Written(t, a, Executed(u), Updated(w), s)
    BY <1>1, WriteUpdateType
  <1>3. Fit(u) /\ Within(s, u)
    <2>1. w.cur \in Rec /\ w.buf \in 0..MaxValue
      <3>1. MaxRecord \in Nat
        BY ConstantsOK
      <3> QED BY <1>1, <3>1 DEF AreaState, Rec
    <2>2. n \in 0..MaxValue
      <3>1. s.conn.edits[w.cur] \in 0..MaxValue /\ w.typed \in 0..MaxValue
        BY <1>1, <2>1 DEF State, Connection, AreaState
      <3> QED BY <3>1, CountedType
    <2>3. u = s \/ u = Sent(s, w.cur, w.buf, n)
      BY DEF SentUpdate
    <2> HIDE DEF u, w, n
    <2>4. CASE u = s
      BY <2>4, QuietSelf DEF Quiet
    <2>5. CASE u = Sent(s, w.cur, w.buf, n)
      <3>1. /\ Sent(s, w.cur, w.buf, n).wa = s.wa
            /\ Sent(s, w.cur, w.buf, n).row = s.row
            /\ Sent(s, w.cur, w.buf, n).conn.nTransacCount = s.conn.nTransacCount
            /\ Sent(s, w.cur, w.buf, n).conn.held = s.conn.held \cup {w.cur}
        BY <1>1, <2>1, <2>2, SentType
      <3> QED BY <1>2, <2>5, <3>1 DEF Fit, Within
    <2> QED BY <2>3, <2>4, <2>5
  <1>4. Within(s, Executed(u))
    BY <1>3, ExecutedFits, WithinThenQuiet
  <1>5. FitArea(Updated(w))
    <2>1. Updated(w) \in AreaState
      BY <1>1, UpdatedType
    <2> QED BY <1>1, <2>1 DEF FitArea, Updated
  <1> HIDE DEF t, u, w
  <1>6. t.wa[a] = Updated(w)
    BY <1>2 DEF Written
  <1> QED BY <1>2, <1>4, <1>5, <1>6, WrittenFits DEF t, w

LEMMA WriteInsertFits ==
    ASSUME NEW s, Fit(s), NEW a \in Area, s.nextRec <= MaxRecord
    PROVE  /\ Fit(WriteInsert(s, a)) /\ Within(s, WriteInsert(s, a))
           /\ WriteInsert(s, a).wa[a] = Inserted(s.wa[a], s.nextRec)
  <1> DEFINE w == s.wa[a]
             u == SentInsert(s, a)
             t == WriteInsert(s, a)
             v == Inserted(w, s.nextRec)
  <1>1. s \in State /\ FitArea(w) /\ w \in AreaState
    BY DEF Fit, FitArea
  <1>2. /\ u \in State /\ u.wa = s.wa /\ u.row = s.row /\ s.nextRec \in Rec
        /\ u.conn.held = s.conn.held \cup {s.nextRec}
        /\ u.conn.nTransacCount = s.conn.nTransacCount
        /\ Written(t, a, Executed(u), v, s)
    BY <1>1, WriteInsertType
  <1> HIDE DEF u, t
  <1>3. Fit(u) /\ Within(s, u)
    BY <1>2 DEF Fit, Within
  <1>4. Within(s, Executed(u))
    BY <1>3, ExecutedFits, WithinThenQuiet
  <1>5. t.wa[a] = v /\ t \in State
    BY <1>2 DEF Written
  <1>6. FitArea(v)
    <2>1. v \in AreaState
      BY <1>5 DEF State
    <2>2. v.hot = FALSE
      BY <1>1 DEF Inserted, AreaState
    <2> QED BY <2>1, <2>2 DEF FitArea
  <1> HIDE DEF v, w
  <1> QED BY <1>2, <1>4, <1>5, <1>6, WrittenFits DEF t, v, w

CanWrite(s, a) == s.wa[a].hot /\ s.wa[a].isInsert => s.nextRec <= MaxRecord

LEMMA GoColdFits ==
    ASSUME NEW s, Fit(s), NEW a \in Area, CanWrite(s, a)
    PROVE  /\ Fit(GoCold(s, a)) /\ Within(s, GoCold(s, a))
           /\ GoCold(s, a).wa[a].open = s.wa[a].open
           /\ ~s.wa[a].isInsert => GoCold(s, a).wa[a].cur = s.wa[a].cur
  <1> DEFINE w == s.wa[a]
             c == GoCold(s, a)
  <1>1. FitArea(w) /\ w \in AreaState
    BY DEF Fit, FitArea
  <1>2. c = IF ~w.hot THEN s ELSE IF w.isInsert THEN WriteInsert(s, a) ELSE WriteUpdate(s, a)
    BY DEF GoCold
  <1>3. CASE ~w.hot
    BY <1>2, <1>3, QuietSelf DEF Quiet
  <1>4. CASE w.hot /\ w.isInsert
    <2>1. Fit(c) /\ Within(s, c) /\ c.wa[a] = Inserted(w, s.nextRec)
      BY <1>2, <1>4, WriteInsertFits DEF CanWrite
    <2>2. Inserted(w, s.nextRec).open = w.open
      BY <1>1 DEF Inserted, AreaState
    <2> QED BY <1>4, <2>1, <2>2
  <1>5. CASE w.hot /\ ~w.isInsert
    <2>1. w.cur # 0
      BY <1>1, <1>5 DEF FitArea
    <2>2. Fit(c) /\ Within(s, c) /\ c.wa[a] = Updated(w)
      BY <1>2, <1>5, <2>1, WriteUpdateFits
    <2>3. Updated(w).cur = w.cur /\ Updated(w).open = w.open
      BY <1>1 DEF Updated, AreaState
    <2> QED BY <2>2, <2>3
  <1> QED BY <1>3, <1>4, <1>5 DEF c

LEMMA FlushedFits ==
    ASSUME NEW s, Fit(s), NEW a \in Area, CanWrite(s, a)
    PROVE  Fit(Flushed(s, a)) /\ Within(s, Flushed(s, a))
  <1> DEFINE c == GoCold(s, a)
  <1>1. Fit(c) /\ Within(s, c)
    BY GoColdFits
  <1>2. Flushed(s, a) = c \/ (c.conn.nTransacCount = 0 /\ Flushed(s, a) = Commit(c))
    BY DEF Flushed, lCanICommitNow
  <1> HIDE DEF c
  <1>3. CASE Flushed(s, a) = c
    BY <1>1, <1>3
  <1>4. CASE c.conn.nTransacCount = 0 /\ Flushed(s, a) = Commit(c)
    BY <1>1, <1>4, CommitFits, WithinThenQuiet
  <1> QED BY <1>2, <1>3, <1>4

Unlisted(w) == [w EXCEPT !.aLocked = {}, !.lTableLocked = FALSE]

LEMMA ReleasedFits ==
    ASSUME NEW s, Fit(s), NEW a \in Area
    PROVE  /\ Fit(Released(s, a)) /\ Quiet(s, Released(s, a))
           /\ Released(s, a).wa[a].cur = s.wa[a].cur
  <1> DEFINE w == s.wa[a]
             v == Unlisted(w)
             u == Put(s, a, v)
  <1>1. FitArea(w) /\ w \in AreaState
    BY DEF Fit, FitArea
  <1>2. FitArea(v) /\ v.cur = w.cur
    BY <1>1 DEF FitArea, Unlisted, AreaState
  <1>3. Fit(u) /\ Quiet(s, u) /\ u.wa[a].cur = w.cur
    <2> HIDE DEF v, w
    <2> QED BY <1>2, PutFits
  <1>4. \/ Released(s, a) = s \/ Released(s, a) = u
        \/ u.conn.nTransacCount = 0 /\ Released(s, a) = Commit(u)
    BY DEF Released, lCanICommitNow, Put, Unlisted
  <1> HIDE DEF u
  <1>5. CASE Released(s, a) = s
    BY <1>5, QuietSelf
  <1>6. CASE Released(s, a) = u
    BY <1>3, <1>6
  <1>7. CASE u.conn.nTransacCount = 0 /\ Released(s, a) = Commit(u)
    BY <1>3, <1>7, CommitFits, QuietThenQuiet
  <1> QED BY <1>4, <1>5, <1>6, <1>7

Listed(s, w, r) == [w EXCEPT !.aLocked = @ \cup {r},
                             !.buf = IF w.cur = r THEN Visible(s, r) ELSE @]
Held(c, r) == [c EXCEPT !.held = @ \cup {r}]

LEMMA ForUpdateFits ==
    ASSUME NEW p, NEW s, Fit(s), NEW a \in Area, NEW r \in Rec
    PROVE  Fit(ForUpdate(p, s, a, r)) /\ Quiet(s, ForUpdate(p, s, a, r))
  <1> DEFINE w == s.wa[a]
             c == Held(s.conn, r)
             v == Listed(s, w, r)
             u == Put(s, a, v)
             t == PutConn(u, c)
  <1>1. s \in State /\ FitArea(w) /\ w \in AreaState /\ s.conn \in Connection
    BY DEF Fit, FitArea, State
  <1>2. Visible(s, r) \in 0..MaxValue
    BY <1>1, VisibleType
  <1>3. FitArea(v)
    BY <1>1, <1>2 DEF FitArea, Listed, AreaState
  <1>4. /\ c \in Connection /\ c.change = s.conn.change /\ s.conn.held \subseteq c.held
        /\ c.nTransacCount = s.conn.nTransacCount
    BY <1>1 DEF Held, Connection
  <1>5. ForUpdate(p, s, a, r) = s \/ ForUpdate(p, s, a, r) = t
    BY DEF ForUpdate, Put, PutConn, Listed, Held
  <1>6. Fit(t) /\ Quiet(s, t)
    <2> HIDE DEF c, v
    <2>1. Fit(u) /\ u.row = s.row
      BY <1>3, PutFits
    <2> HIDE DEF u
    <2>2. Fit(t) /\ t.conn = c /\ t.row = s.row
      BY <1>4, <2>1, PutConnFits
    <2> HIDE DEF t
    <2> QED BY <1>4, <2>2 DEF Quiet, Within
  <1> HIDE DEF t
  <1>7. CASE ForUpdate(p, s, a, r) = s
    BY <1>7, QuietSelf
  <1>8. CASE ForUpdate(p, s, a, r) = t
    BY <1>6, <1>8
  <1> QED BY <1>5, <1>7, <1>8

-----------------------------------------------------------------------------
(* The steps of a process *)

FitInv == TypeOK /\ \A p \in Proc, a \in Area : FitArea(wa[p][a])

Moves(p) == \E t : Fit(t) /\ Becomes(p, t) /\ Step(Own(p), t)

LEMMA OwnFits ==
    ASSUME FitInv, NEW p \in Proc
    PROVE  Fit(Own(p)) /\ Own(p).wa = wa[p] /\ Own(p).conn = conn[p] /\ Own(p).nextRec = nextRec
  <1>1. conn[p] \in Connection /\ wa[p] \in [Area -> AreaState]
    BY DEF FitInv, TypeOK
  <1>2. Own(p) \in State
    BY <1>1 DEF FitInv, TypeOK, Own, State, Values
  <1> QED BY <1>2 DEF FitInv, Fit, Own

LEMMA BecomesFits ==
    ASSUME FitInv, NEW p \in Proc, NEW t, Fit(t), Becomes(p, t)
    PROVE  FitInv'
  <1>1. t \in State /\ t.conn \in Connection /\ t.wa \in [Area -> AreaState]
        /\ t.row \in Values /\ t.done \in Values /\ t.nextRec \in Existing + 1 .. MaxRecord + 1
    BY DEF Fit, State
  <1>2. conn' \in [Proc -> Connection] /\ wa' \in [Proc -> [Area -> AreaState]]
    BY <1>1 DEF Becomes, FitInv, TypeOK
  <1>3. TypeOK'
    BY <1>1, <1>2 DEF Becomes, TypeOK, Values
  <1>4. \A q \in Proc, a \in Area : FitArea(wa'[q][a])
    <2> SUFFICES ASSUME NEW q \in Proc, NEW a \in Area PROVE FitArea(wa'[q][a])
      OBVIOUS
    <2>1. wa'[q] = IF q = p THEN t.wa ELSE wa[q]
      BY DEF Becomes, FitInv, TypeOK
    <2> QED BY <2>1 DEF Fit, FitInv
  <1> QED BY <1>3, <1>4 DEF FitInv, FitArea

LEMMA WithinStep ==
    ASSUME NEW p, NEW t, Fit(t), Becomes(p, t), Within(Own(p), t)
    PROVE  Moves(p)
  BY DEF Moves, Within, Step

LEMMA EnterWrites ==
    ASSUME NEW p \in Proc, NEW a \in Area, Enter(p, a)
    PROVE  CanWrite(Own(p), a)
  BY DEF Enter, CanGoCold, CanWrite, Own

(* Of the calls that begin with GOCOLD, what remains is quiet. *)
LEMMA ThenQuiet ==
    ASSUME FitInv, NEW p \in Proc, NEW a \in Area, Enter(p, a),
           NEW t, Fit(t), Quiet(GoCold(Own(p), a), t), Becomes(p, t)
    PROVE  Moves(p)
  <1> DEFINE s == Own(p)
  <1>1. Fit(s) /\ CanWrite(s, a)
    BY OwnFits, EnterWrites
  <1> HIDE DEF s
  <1>2. Within(s, GoCold(s, a))
    BY <1>1, GoColdFits
  <1>3. Within(s, t)
    BY <1>2, WithinThenQuiet DEF s
  <1> QED BY <1>3, WithinStep DEF s

(* The state after the GOCOLD of a call. *)
LEMMA AfterGoCold ==
    ASSUME FitInv, NEW p \in Proc, NEW a \in Area, Enter(p, a)
    PROVE  LET c == GoCold(Own(p), a)
           IN  Fit(c) /\ c \in State /\ FitArea(c.wa[a]) /\ c.wa[a] \in AreaState
               /\ (~wa[p][a].isInsert => c.wa[a].cur = wa[p][a].cur)
  <1> DEFINE s == Own(p)
             c == GoCold(s, a)
  <1>1. Fit(s) /\ CanWrite(s, a) /\ s.wa = wa[p]
    BY OwnFits, EnterWrites
  <1>2. Fit(c) /\ (~s.wa[a].isInsert => c.wa[a].cur = s.wa[a].cur)
    <2> HIDE DEF s
    <2> QED BY <1>1, GoColdFits
  <1> HIDE DEF c, s
  <1>3. c \in State /\ FitArea(c.wa[a]) /\ c.wa[a] \in AreaState
    BY <1>2 DEF Fit, FitArea
  <1> QED BY <1>1, <1>2, <1>3 DEF c, s

(* A plain SELECT returns values, those the process itself sees when it reads  *)
(* only what is committed.                                                     *)
LEMMA SeenType ==
    ASSUME FitInv, NEW p, NEW s \in State, NEW r \in Rec
    PROVE  /\ Seen(p, s, r) \in 0..MaxValue
           /\ ~ReadUncommitted => Seen(p, s, r) = Visible(s, r)
  <1> DEFINE C == Changer(p, r)
             q == CHOOSE x \in C : TRUE
  <1>1. Seen(p, s, r) = IF ReadUncommitted /\ C # {} THEN conn[q].change[r] ELSE Visible(s, r)
    BY DEF Seen
  <1>2. C \subseteq Proc
    BY DEF Changer
  <1> HIDE DEF C
  <1>3. Visible(s, r) \in 0..MaxValue
    BY VisibleType
  <1>4. C # {} => q \in Proc
    BY <1>2
  <1> HIDE DEF q
  <1>5. \A x \in Proc : conn[x].change[r] \in 0..MaxValue
    BY DEF FitInv, TypeOK, Connection
  <1> QED BY <1>1, <1>3, <1>4, <1>5

LEMMA AllSeenType ==
    ASSUME FitInv, NEW p, NEW s \in State
    PROVE  /\ AllSeen(p, s) \in Values
           /\ ~ReadUncommitted => \A r \in Rec : AllSeen(p, s)[r] = Visible(s, r)
  BY SeenType DEF AllSeen, Values

LEMMA StandOnFits ==
    ASSUME NEW s, Fit(s), NEW a \in Area, NEW r \in Rec, NEW page \in Values
    PROVE  Fit(StandOn(s, a, r, page)) /\ Quiet(s, StandOn(s, a, r, page))
  <1> DEFINE w == s.wa[a]
             v == [w EXCEPT !.cur = r, !.buf = page[r], !.page = page]
  <1>1. w \in AreaState
    BY DEF Fit, FitArea
  <1>2. r \in 1..MaxRecord /\ r # 0 /\ r \in 0..MaxRecord /\ page[r] \in 0..MaxValue
    BY ConstantsOK DEF Rec, Values
  <1>3. FitArea(v)
    BY <1>1, <1>2 DEF FitArea, AreaState, Values
  <1>4. StandOn(s, a, r, page) = Put(s, a, v)
    BY DEF StandOn, Put
  <1> HIDE DEF v, w
  <1> QED BY <1>3, <1>4, PutFits

LEMMA OpenMoves ==
    ASSUME FitInv, NEW p \in Proc, NEW a \in Area, Open(p, a)
    PROVE  Moves(p)
  <1> DEFINE s == Own(p)
             v(r) == [Closed EXCEPT !.open = TRUE, !.cur = r, !.buf = Seen(p, s, r),
                                    !.page = AllSeen(p, s)]
  <1>1. Fit(s) /\ s \in State
    BY OwnFits DEF Fit
  <1>2. PICK r \in Rec : Becomes(p, Put(s, a, v(r)))
    BY DEF Open, Put
  <1>3. FitArea(v(r))
    <2> HIDE DEF s
    <2>1. Seen(p, s, r) \in 0..MaxValue
      BY <1>1, SeenType
    <2>2. AllSeen(p, s) \in Values
      BY <1>1, AllSeenType
    <2>3. r \in 0..MaxRecord
      BY ConstantsOK DEF Rec
    <2>4. v(r) \in AreaState
      BY <2>1, <2>2, <2>3, ClosedTypes DEF AreaState, Values, Closed
    <2>5. v(r).hot = FALSE
      BY DEF Closed
    <2> HIDE DEF v
    <2> QED BY <2>4, <2>5 DEF FitArea
  <1> HIDE DEF v, s
  <1>4. Fit(Put(s, a, v(r))) /\ Within(s, Put(s, a, v(r)))
    BY <1>1, <1>3, PutFits DEF Quiet
  <1> QED BY <1>2, <1>4, WithinStep DEF s

LEMMA GoToMoves ==
    ASSUME FitInv, NEW p \in Proc, NEW a \in Area, NEW r \in Rec,
           GoTo(p, a, r) \/ ReadPage(p, a, r) \/ SkipCached(p, a, r)
    PROVE  Moves(p)
  <1> DEFINE c == GoCold(Own(p), a)
  <1>1. Enter(p, a)
    BY DEF GoTo, ReadPage, SkipCached
  <1>2. Fit(c) /\ c \in State /\ c.wa[a] \in AreaState
    BY <1>1, AfterGoCold
  <1>3. \E page \in Values : Becomes(p, StandOn(c, a, r, page))
    <2>1. Seen(p, c, r) \in 0..MaxValue /\ AllSeen(p, c) \in Values
      <3> HIDE DEF c
      <3> QED BY <1>2, SeenType, AllSeenType
    <2>2. [NoRow EXCEPT ![r] = Seen(p, c, r)] \in Values
      <3> DEFINE k == Seen(p, c, r)
      <3> HIDE DEF k
      <3> QED BY <2>1, ClosedTypes DEF Values, k
    <2>3. c.wa[a].page \in Values
      <3> HIDE DEF c
      <3> QED BY <1>2 DEF AreaState, Values
    <2>4. \/ Becomes(p, StandOn(c, a, r, [NoRow EXCEPT ![r] = Seen(p, c, r)]))
          \/ Becomes(p, StandOn(c, a, r, AllSeen(p, c)))
          \/ Becomes(p, StandOn(c, a, r, c.wa[a].page))
      BY DEF GoTo, ReadPage, SkipCached
    <2> HIDE DEF c
    <2> QED BY <2>1, <2>2, <2>3, <2>4
  <1>4. PICK page \in Values : Becomes(p, StandOn(c, a, r, page))
    BY <1>3
  <1>5. Fit(StandOn(c, a, r, page)) /\ Quiet(c, StandOn(c, a, r, page))
    <2> HIDE DEF c
    <2> QED BY <1>2, StandOnFits
  <1> QED BY <1>1, <1>4, <1>5, ThenQuiet

LEMMA RLockMoves ==
    ASSUME FitInv, NEW p \in Proc, NEW a \in Area, RLock(p, a)
    PROVE  Moves(p)
  <1> DEFINE c == GoCold(Own(p), a)
             u == IF c.wa[a].aLocked = {} THEN c ELSE Released(c, a)
             r == c.wa[a].cur
             t == ForUpdate(p, u, a, r)
  <1>1. Enter(p, a) /\ wa[p][a].cur # 0 /\ ~wa[p][a].isInsert
        /\ (Becomes(p, c) \/ Becomes(p, t))
    BY DEF RLock
  <1>2. Fit(c) /\ c.wa[a] \in AreaState /\ r # 0
    BY <1>1, AfterGoCold
  <1> HIDE DEF c
  <1>3. r \in Rec
    BY <1>2, ConstantsOK DEF AreaState, Rec
  <1>4. Fit(u) /\ Quiet(c, u)
    BY <1>2, ReleasedFits, QuietSelf
  <1> HIDE DEF r, u
  <1>5. Fit(t) /\ Quiet(u, t)
    BY <1>3, <1>4, ForUpdateFits
  <1> HIDE DEF t
  <1>6. Quiet(c, t) /\ Quiet(c, c)
    BY <1>4, <1>5, QuietThenQuiet, QuietSelf
  <1>7. CASE Becomes(p, c)
    BY <1>1, <1>2, <1>6, <1>7, ThenQuiet DEF c
  <1>8. CASE Becomes(p, t)
    BY <1>1, <1>5, <1>6, <1>8, ThenQuiet DEF c
  <1> QED BY <1>1, <1>7, <1>8

LEMMA DbRLockMoves ==
    ASSUME FitInv, NEW p \in Proc, NEW a \in Area, NEW r \in Rec, DbRLock(p, a, r)
    PROVE  Moves(p)
  <1> DEFINE c == GoCold(Own(p), a)
             t == ForUpdate(p, c, a, r)
  <1>1. Enter(p, a) /\ (Becomes(p, c) \/ Becomes(p, t))
    BY DEF DbRLock
  <1>2. Fit(c)
    BY <1>1, AfterGoCold
  <1> HIDE DEF c
  <1>3. Fit(t) /\ Quiet(c, t) /\ Quiet(c, c)
    BY <1>2, ForUpdateFits, QuietSelf
  <1> HIDE DEF t
  <1>4. CASE Becomes(p, c)
    BY <1>1, <1>2, <1>3, <1>4, ThenQuiet DEF c
  <1>5. CASE Becomes(p, t)
    BY <1>1, <1>3, <1>5, ThenQuiet DEF c
  <1> QED BY <1>1, <1>4, <1>5

LEMMA FLockMoves ==
    ASSUME FitInv, NEW p \in Proc, NEW a \in Area, FLock(p, a)
    PROVE  Moves(p)
  <1> DEFINE c == GoCold(Own(p), a)
             w == c.wa[a]
             v(f) == [w EXCEPT !.aLocked = {}, !.lTableLocked = w.lTableLocked \/ f]
             t(f) == Put(c, a, v(f))
  <1>1. PICK f \in BOOLEAN : Becomes(p, t(f))
    BY DEF FLock, Put
  <1>2. Enter(p, a)
    BY DEF FLock
  <1>3. Fit(c) /\ FitArea(w) /\ w \in AreaState
    BY <1>2, AfterGoCold
  <1> HIDE DEF w, c
  <1>4. FitArea(v(f))
    BY <1>3 DEF FitArea, AreaState
  <1> HIDE DEF v
  <1>5. Fit(t(f)) /\ Quiet(c, t(f))
    BY <1>3, <1>4, PutFits
  <1> HIDE DEF t
  <1> QED BY <1>1, <1>2, <1>5, ThenQuiet DEF c

LEMMA UnlockMoves ==
    ASSUME FitInv, NEW p \in Proc, NEW a \in Area, Unlock(p, a)
    PROVE  Moves(p)
  <1> DEFINE c == GoCold(Own(p), a)
             t == Released(c, a)
  <1>1. Enter(p, a) /\ Becomes(p, t)
    BY DEF Unlock
  <1>2. Fit(c)
    BY <1>1, AfterGoCold
  <1> HIDE DEF c
  <1>3. Fit(t) /\ Quiet(c, t)
    BY <1>2, ReleasedFits
  <1> HIDE DEF t
  <1> QED BY <1>1, <1>3, ThenQuiet DEF c

LEMMA ReplaceMoves ==
    ASSUME FitInv, NEW p \in Proc, NEW a \in Area, Replace(p, a)
    PROVE  Moves(p)
  <1> DEFINE w == wa[p][a]
             v == [w EXCEPT !.buf = w.buf + 1, !.hot = TRUE, !.typed = Counted(w.typed, 1)]
             t == Put(Own(p), a, v)
  <1>1. /\ w.cur # 0 \/ w.isInsert
        /\ w.buf < MaxValue
        /\ Becomes(p, t)
    BY DEF Replace, Put
  <1>2. w \in AreaState /\ Fit(Own(p))
    BY OwnFits DEF FitInv, FitArea
  <1>3. w.buf + 1 \in 0..MaxValue /\ 1 \in 0..MaxValue
    BY <1>1, <1>2, ConstantsOK DEF AreaState
  <1>4. Counted(w.typed, 1) \in 0..MaxValue
    BY <1>2, <1>3, CountedType DEF AreaState
  <1>5. FitArea(v)
    <2> DEFINE b == w.buf + 1
               n == Counted(w.typed, 1)
    <2>1. v = [w EXCEPT !.buf = b, !.hot = TRUE, !.typed = n]
      OBVIOUS
    <2> HIDE DEF b, n, v, w
    <2>2. /\ v \in AreaState /\ v.cur = w.cur /\ v.isInsert = w.isInsert
      BY <1>2, <1>3, <1>4, <2>1 DEF AreaState, b, n
    <2> QED BY <1>1, <2>2 DEF FitArea
  <1> HIDE DEF v
  <1>6. Fit(t) /\ Within(Own(p), t)
    BY <1>2, <1>5, PutFits DEF Quiet
  <1> QED BY <1>1, <1>6, WithinStep

LEMMA AppendMoves ==
    ASSUME FitInv, NEW p \in Proc, NEW a \in Area, Append(p, a)
    PROVE  Moves(p)
  <1> DEFINE s == Own(p)
             w == s.wa[a]
             b == Put(s, a, [w EXCEPT !.aLocked = {}])
             c == GoCold(b, a)
             v == [c.wa[a] EXCEPT !.hot = TRUE, !.isInsert = TRUE,
                                  !.cur = 0, !.buf = 1, !.typed = 0]
             t == Put(c, a, v)
  <1>1. Enter(p, a) /\ Becomes(p, t)
    BY DEF Append, Put
  <1>2. Fit(s) /\ FitArea(w) /\ w \in AreaState /\ CanWrite(s, a)
    BY <1>1, OwnFits, EnterWrites DEF Fit, FitArea
  <1> HIDE DEF s
  <1>3. Fit(b) /\ CanWrite(b, a) /\ b.conn = s.conn /\ b.row = s.row
    <2> DEFINE u == [w EXCEPT !.aLocked = {}]
    <2>1. FitArea(u) /\ u.hot = w.hot /\ u.isInsert = w.isInsert
      BY <1>2 DEF FitArea, AreaState
    <2> HIDE DEF u
    <2>2. /\ Fit(Put(s, a, u)) /\ Put(s, a, u).conn = s.conn /\ Put(s, a, u).wa[a] = u
          /\ Put(s, a, u).nextRec = s.nextRec /\ Put(s, a, u).row = s.row
      BY <1>2, <2>1, PutFits
    <2>3. Put(s, a, u) = b
      BY DEF u
    <2> HIDE DEF b
    <2> QED BY <1>2, <2>1, <2>2, <2>3 DEF CanWrite
  <1> HIDE DEF b
  <1>4. Fit(c) /\ Within(b, c)
    BY <1>3, GoColdFits
  <1> HIDE DEF c
  <1>5. FitArea(v)
    <2>1. c.wa[a] \in AreaState
      BY <1>4 DEF Fit, FitArea
    <2>2. 0 \in 0..MaxValue /\ 1 \in 0..MaxValue /\ 0 \in 0..MaxRecord
      BY ConstantsOK
    <2> QED BY <2>1, <2>2 DEF FitArea, AreaState
  <1> HIDE DEF v
  <1>6. Fit(t) /\ Quiet(c, t)
    BY <1>4, <1>5, PutFits
  <1> HIDE DEF t
  <1>7. Within(s, t)
    <2>1. Within(s, c)
      BY <1>3, <1>4 DEF Within
    <2> QED BY <1>6, <2>1, WithinThenQuiet
  <1> QED BY <1>1, <1>6, <1>7, WithinStep DEF s

LEMMA FlushMoves ==
    ASSUME FitInv, NEW p \in Proc, NEW a \in Area, Flush(p, a) \/ Close(p, a)
    PROVE  Moves(p)
  <1> DEFINE s == Own(p)
             t == Flushed(s, a)
             u == Put(t, a, Closed)
  <1>1. Enter(p, a) /\ (Becomes(p, t) \/ Becomes(p, u))
    BY DEF Flush, Close, Put
  <1>2. Fit(s) /\ CanWrite(s, a)
    BY <1>1, OwnFits, EnterWrites
  <1> HIDE DEF s
  <1>3. Fit(t) /\ Within(s, t)
    BY <1>2, FlushedFits
  <1> HIDE DEF t
  <1>4. Fit(u) /\ Quiet(t, u)
    <2>1. FitArea(Closed)
      BY ClosedTypes DEF FitArea, Closed
    <2> QED BY <1>3, <2>1, PutFits
  <1> HIDE DEF u
  <1>5. Within(s, u)
    BY <1>3, <1>4, WithinThenQuiet
  <1>6. CASE Becomes(p, t)
    BY <1>3, <1>6, WithinStep DEF s
  <1>7. CASE Becomes(p, u)
    BY <1>4, <1>5, <1>7, WithinStep DEF s
  <1> QED BY <1>1, <1>6, <1>7

LEMMA WriteFailsMoves ==
    ASSUME FitInv, NEW p \in Proc, NEW a \in Area, WriteFails(p, a)
    PROVE  Moves(p)
  <1> DEFINE s == Own(p)
             w == s.wa[a]
             v(l) == [w EXCEPT !.hot = FALSE, !.isInsert = FALSE, !.typed = 0, !.aLocked = l]
             b(l) == Put(s, a, v(l))
  <1>1. PICK l \in {w.aLocked, {}} : Becomes(p, RollBack(b(l)))
    BY OwnFits DEF WriteFails, Put
  <1>2. Failing
    BY DEF WriteFails
  <1>3. Fit(s) /\ w \in AreaState
    BY OwnFits DEF Fit, FitArea
  <1> HIDE DEF s
  <1>4. FitArea(v(l))
    <2>1. 0 \in 0..MaxValue
      BY ConstantsOK
    <2> QED BY <1>1, <1>3, <2>1 DEF FitArea, AreaState
  <1> HIDE DEF v, w
  <1>5. Fit(b(l)) /\ b(l).conn = s.conn /\ b(l).row = s.row
    BY <1>3, <1>4, PutFits
  <1> DEFINE t == RollBack(b(l))
  <1> HIDE DEF b
  <1>6. Fit(t) /\ Step(s, t)
    <2>1. b(l) \in State
      BY <1>5 DEF Fit
    <2>2. /\ t \in State /\ t.wa = b(l).wa /\ t.row = b(l).row
          /\ t.conn = [Connected EXCEPT !.nTransacCount = b(l).conn.nTransacCount]
      BY <2>1, RollBackType
    <2> HIDE DEF t
    <2> QED BY <1>2, <1>5, <2>2 DEF Fit, Step
  <1> QED BY <1>1, <1>6 DEF Moves, s

(* A connection with another transaction counter. *)
Counting(c, n) == [c EXCEPT !.nTransacCount = n]

LEMMA CountingFits ==
    ASSUME NEW s, Fit(s), NEW n \in 0..MaxDepth
    PROVE  LET t == PutConn(s, Counting(s.conn, n))
           IN  /\ Fit(t) /\ t.row = s.row /\ t.wa = s.wa
               /\ t.conn.nTransacCount = n /\ t.conn.held = s.conn.held
               /\ t.conn.change = s.conn.change
  <1> DEFINE c == Counting(s.conn, n)
  <1>1. s.conn \in Connection
    BY DEF Fit, State
  <1>2. /\ c \in Connection /\ c.nTransacCount = n /\ c.held = s.conn.held
        /\ c.change = s.conn.change
    BY <1>1 DEF Connection, Counting
  <1> HIDE DEF c
  <1>3. /\ Fit(PutConn(s, c)) /\ PutConn(s, c).conn = c /\ PutConn(s, c).row = s.row
        /\ PutConn(s, c).wa = s.wa
    BY <1>2, PutConnFits
  <1> QED BY <1>2, <1>3 DEF c

LEMMA BlockMoves ==
    ASSUME FitInv, NEW p \in Proc,
           SR_BeginTransaction(p) \/ SR_CommitTransaction(p) \/ SR_EndTransaction(p)
    PROVE  Moves(p)
  <1> DEFINE s == Own(p)
             k == s.conn.nTransacCount
             d == Commit(s)
             t(u, n) == PutConn(u, Counting(u.conn, n))
  <1>1. Fit(s) /\ k \in 0..MaxDepth
    BY OwnFits DEF Fit, State, Connection
  <1>2. \/ k = 0 /\ k < MaxDepth /\ Becomes(p, t(d, d.conn.nTransacCount + 1))
        \/ k # 0 /\ k < MaxDepth /\ Becomes(p, t(s, k + 1))
        \/ k = 1 /\ Becomes(p, t(d, d.conn.nTransacCount - 1))
        \/ k > 0 /\ k # 1 /\ Becomes(p, t(s, k - 1))
        \/ Becomes(p, t(d, 0))
    <2>1. CASE SR_BeginTransaction(p)
      BY <2>1 DEF SR_BeginTransaction, PutConn, Counting
    <2>2. CASE SR_CommitTransaction(p)
      BY <2>2 DEF SR_CommitTransaction, PutConn, Counting
    <2>3. CASE SR_EndTransaction(p)
      BY <2>3 DEF SR_EndTransaction, PutConn, Counting
    <2> QED BY <2>1, <2>2, <2>3
  <1> HIDE DEF s
  <1>3. Fit(d) /\ d.conn.change = NoRow /\ d.conn.nTransacCount = k
    BY <1>1, CommitFits
  <1> HIDE DEF k, d
  <1>4. MaxDepth \in Nat
    BY ConstantsOK
  <1>5. \/ \E n \in 0..MaxDepth : /\ Becomes(p, t(d, n))
                                  /\ k = 0 \/ n = 0
        \/ \E n \in 0..MaxDepth : Becomes(p, t(s, n))
    BY <1>1, <1>2, <1>3, <1>4
  <1>6. CASE \E n \in 0..MaxDepth : Becomes(p, t(d, n)) /\ (k = 0 \/ n = 0)
    <2>1. PICK n \in 0..MaxDepth : Becomes(p, t(d, n)) /\ (k = 0 \/ n = 0)
      BY <1>6
    <2>2. Fit(t(d, n)) /\ t(d, n).conn.nTransacCount = n /\ t(d, n).conn.change = d.conn.change
      BY <1>3, CountingFits
    <2> HIDE DEF t
    <2>3. Step(s, t(d, n))
      BY <1>3, <2>1, <2>2 DEF Step, k
    <2> QED BY <2>1, <2>2, <2>3 DEF Moves, s
  <1>7. CASE \E n \in 0..MaxDepth : Becomes(p, t(s, n))
    <2>1. PICK n \in 0..MaxDepth : Becomes(p, t(s, n))
      BY <1>7
    <2>2. Fit(t(s, n)) /\ t(s, n).row = s.row /\ t(s, n).conn.held = s.conn.held
      BY <1>1, CountingFits
    <2> HIDE DEF t
    <2>3. Step(s, t(s, n))
      BY <2>2 DEF Step
    <2> QED BY <2>1, <2>2, <2>3 DEF Moves, s
  <1> QED BY <1>5, <1>6, <1>7

LEMMA RollBackMoves ==
    ASSUME FitInv, NEW p \in Proc, SR_RollBackTransaction(p)
    PROVE  Moves(p)
  <1> DEFINE s == Own(p)
             W == [a \in Area |-> Refreshed(s.wa[a])]
             u == [s EXCEPT !.conn.nTransacCount = 0, !.wa = W]
             t == RollBack(u)
  <1>1. Fit(s) /\ s \in State
    BY OwnFits DEF Fit
  <1>2. Becomes(p, t)
    BY DEF SR_RollBackTransaction
  <1> HIDE DEF s
  <1>3. \A a \in Area : FitArea(W[a])
    <2> SUFFICES ASSUME NEW a \in Area PROVE FitArea(Refreshed(s.wa[a]))
      OBVIOUS
    <2>1. s.wa[a] \in AreaState /\ FitArea(s.wa[a])
      BY <1>1 DEF Fit, FitArea
    <2>2. NoRow \in [Rec -> 0..MaxValue] /\ 0 \in 0..MaxValue /\ 0 \in 0..MaxRecord
      BY ConstantsOK, ClosedTypes DEF Values
    <2> QED BY <2>1, <2>2 DEF FitArea, Refreshed, AreaState
  <1>4. W \in [Area -> AreaState]
    BY <1>3 DEF FitArea
  <1> HIDE DEF W
  <1>5. u \in State /\ u.wa = W /\ u.row = s.row /\ u.conn.nTransacCount = 0
    <2> DEFINE c == [s.conn EXCEPT !.nTransacCount = 0]
    <2>1. c \in Connection /\ c.nTransacCount = 0
      BY <1>1, ConstantsOK DEF State, Connection
    <2>2. u = [s EXCEPT !.conn = c, !.wa = W]
      OBVIOUS
    <2> HIDE DEF c, u
    <2> QED BY <1>1, <1>4, <2>1, <2>2 DEF State
  <1> HIDE DEF u
  <1>6. /\ t \in State /\ t.wa = W /\ t.row = s.row
        /\ t.conn = [Connected EXCEPT !.nTransacCount = u.conn.nTransacCount]
    BY <1>5, RollBackType
  <1>7. t.conn.nTransacCount = 0
    BY <1>5, <1>6 DEF Connected
  <1> HIDE DEF t
  <1>8. Fit(t) /\ Step(s, t)
    BY <1>3, <1>6, <1>7 DEF Fit, Step
  <1> QED BY <1>2, <1>8 DEF Moves, s

LEMMA EndMoves ==
    ASSUME FitInv, NEW p \in Proc, EndConnection(p)
    PROVE  Moves(p)
  <1> DEFINE s == Own(p)
             c == Commit(s)
             t == PutConn(c, Connected)
  <1>1. Fit(s)
    BY OwnFits
  <1>2. Becomes(p, t)
    BY DEF EndConnection, PutConn
  <1> HIDE DEF s
  <1>3. Fit(c)
    BY <1>1, CommitFits
  <1> HIDE DEF c
  <1>4. Fit(t) /\ t.conn = Connected
    BY <1>3, PutConnFits, ClosedTypes
  <1> HIDE DEF t
  <1>5. Step(s, t)
    BY <1>4 DEF Step, Connected
  <1> QED BY <1>2, <1>4, <1>5 DEF Moves, s

LEMMA CrashMoves ==
    ASSUME FitInv, NEW p \in Proc, Crash(p)
    PROVE  Moves(p)
  <1> DEFINE s == Own(p)
             b == RollBack(s)
             W == [a \in Area |-> Closed]
             t == [b EXCEPT !.conn = Connected, !.wa = W]
  <1>1. s \in State
    BY OwnFits DEF Fit
  <1>2. Becomes(p, t)
    BY DEF Crash
  <1> HIDE DEF s
  <1>3. b \in State /\ b.row = s.row
    BY <1>1, RollBackType
  <1> HIDE DEF b
  <1>4. W \in [Area -> AreaState] /\ \A a \in Area : FitArea(W[a])
    BY ClosedTypes DEF FitArea, Closed
  <1> HIDE DEF W
  <1>5. t \in State /\ t.conn = Connected /\ t.wa = W /\ t.row = s.row
    BY <1>3, <1>4, ClosedTypes DEF State
  <1> HIDE DEF t
  <1>6. Fit(t) /\ Step(s, t)
    BY <1>4, <1>5 DEF Fit, Step, Connected
  <1> QED BY <1>2, <1>6 DEF Moves, s

LEMMA NextMoves ==
    ASSUME FitInv, Next
    PROVE  \E p \in Proc : Moves(p)
  <1> USE FitInv
  <1>1. PICK p \in Proc :
           \/ \E a \in Area :
                \/ Open(p, a) \/ Close(p, a)
                \/ RLock(p, a) \/ FLock(p, a) \/ Unlock(p, a)
                \/ Replace(p, a) \/ Append(p, a) \/ Flush(p, a) \/ WriteFails(p, a)
                \/ \E r \in Rec : \/ GoTo(p, a, r) \/ ReadPage(p, a, r) \/ SkipCached(p, a, r)
                                  \/ DbRLock(p, a, r)
           \/ SR_BeginTransaction(p) \/ SR_CommitTransaction(p) \/ SR_EndTransaction(p)
           \/ SR_RollBackTransaction(p)
           \/ EndConnection(p) \/ Crash(p)
    BY Zenon DEF Next
  <1>2. ASSUME NEW a \in Area,
               \/ Open(p, a) \/ Close(p, a)
               \/ RLock(p, a) \/ FLock(p, a) \/ Unlock(p, a)
               \/ Replace(p, a) \/ Append(p, a) \/ Flush(p, a) \/ WriteFails(p, a)
               \/ \E r \in Rec : \/ GoTo(p, a, r) \/ ReadPage(p, a, r) \/ SkipCached(p, a, r)
                                 \/ DbRLock(p, a, r)
        PROVE  Moves(p)
    <2>1. CASE Open(p, a)
      BY <2>1, OpenMoves
    <2>2. CASE Flush(p, a) \/ Close(p, a)
      BY <2>2, FlushMoves
    <2>3. CASE RLock(p, a)
      BY <2>3, RLockMoves
    <2>4. CASE FLock(p, a)
      BY <2>4, FLockMoves
    <2>5. CASE Unlock(p, a)
      BY <2>5, UnlockMoves
    <2>6. CASE Replace(p, a)
      BY <2>6, ReplaceMoves
    <2>7. CASE Append(p, a)
      BY <2>7, AppendMoves
    <2>8. CASE WriteFails(p, a)
      BY <2>8, WriteFailsMoves
    <2>9. ASSUME NEW r \in Rec, GoTo(p, a, r) \/ ReadPage(p, a, r) \/ SkipCached(p, a, r)
          PROVE  Moves(p)
      BY <2>9, GoToMoves
    <2>10. ASSUME NEW r \in Rec, DbRLock(p, a, r)
           PROVE  Moves(p)
      BY <2>10, DbRLockMoves
    <2> QED BY <1>2, <2>1, <2>2, <2>3, <2>4, <2>5, <2>6, <2>7, <2>8, <2>9, <2>10
  <1>3. CASE SR_BeginTransaction(p) \/ SR_CommitTransaction(p) \/ SR_EndTransaction(p)
    BY <1>3, BlockMoves
  <1>4. CASE SR_RollBackTransaction(p)
    BY <1>4, RollBackMoves
  <1>5. CASE EndConnection(p)
    BY <1>5, EndMoves
  <1>6. CASE Crash(p)
    BY <1>6, CrashMoves
  <1> QED BY <1>1, <1>2, <1>3, <1>4, <1>5, <1>6

-----------------------------------------------------------------------------
(* Theorems for every value of the constants *)

LEMMA InitFits == Init => FitInv
  <1> SUFFICES ASSUME Init PROVE FitInv
    OBVIOUS
  <1>1. Existing \in Nat /\ MaxRecord \in Nat /\ MaxValue \in Nat /\ MaxValue > 0
        /\ Existing <= MaxRecord
    BY ConstantsOK
  <1>2. row \in [Rec -> 0..MaxValue]
    BY <1>1 DEF Init, Rec
  <1>3. done \in [Rec -> 0..MaxValue] /\ nextRec \in Existing + 1 .. MaxRecord + 1
    BY <1>1, ClosedTypes DEF Init, Values
  <1>4. conn \in [Proc -> Connection] /\ wa \in [Proc -> [Area -> AreaState]]
    BY ClosedTypes DEF Init
  <1>5. \A p \in Proc, a \in Area : FitArea(wa[p][a])
    BY ClosedTypes DEF Init, FitArea, Closed
  <1> QED BY <1>2, <1>3, <1>4, <1>5 DEF FitInv, TypeOK

LEMMA NextFits == FitInv /\ [Next]_vars => FitInv'
  <1> SUFFICES ASSUME FitInv, [Next]_vars PROVE FitInv'
    OBVIOUS
  <1>1. CASE Next
    BY <1>1, NextMoves, BecomesFits DEF Moves
  <1>2. CASE UNCHANGED vars
    BY <1>2 DEF vars, FitInv, TypeOK, FitArea
  <1> QED BY <1>1, <1>2

(* A call leaves every area with a buffer, a pointer and a list of locks of    *)
(* their types: a REPLACE or an INSERT never runs past the table, and an edit  *)
(* of a record that is not new is of a record the area stands on.              *)
THEOREM TypeCorrect == Spec => []TypeOK
  <1>1. Spec => []FitInv
    BY InitFits, NextFits, PTL DEF Spec
  <1>2. FitInv => TypeOK
    BY DEF FitInv
  <1> QED BY <1>1, <1>2, PTL

(* Nothing is committed inside a transaction block, whatever is written, locked *)
(* or moved in it, and what is committed is committed at once.                  *)
THEOREM CommittedOutside == Spec => CommitsOutside
  <1>1. Spec => []FitInv
    BY InitFits, NextFits, PTL DEF Spec
  <1>2. FitInv /\ [Next]_vars =>
          [row' # row =>
             \E p \in Proc :
                /\ conn[p].nTransacCount = 0 \/ conn[p]'.nTransacCount = 0
                /\ conn[p]'.change = NoRow]_vars
    <2> SUFFICES ASSUME FitInv, Next, row' # row
                 PROVE  \E p \in Proc :
                           /\ conn[p].nTransacCount = 0 \/ conn[p]'.nTransacCount = 0
                           /\ conn[p]'.change = NoRow
      BY DEF vars
    <2>1. PICK p \in Proc : Moves(p)
      BY NextMoves
    <2>2. PICK t : Becomes(p, t) /\ Step(Own(p), t)
      BY <2>1 DEF Moves
    <2>3. row' = t.row /\ conn'[p] = t.conn
      BY <2>2 DEF Becomes, FitInv, TypeOK
    <2>4. Own(p).row = row /\ Own(p).conn = conn[p]
      BY DEF Own
    <2>5. (conn[p].nTransacCount = 0 \/ t.conn.nTransacCount = 0) /\ t.conn.change = NoRow
      BY <2>2, <2>3, <2>4 DEF Step
    <2> QED BY <2>3, <2>5
  <1> QED BY <1>1, <1>2, PTL DEF Spec, CommitsOutside

(* The rows a transaction block has changed or locked stay locked until it     *)
(* ends, when the server refuses no write.                                     *)
THEOREM LinesStayLockedInBlocks ==
    ASSUME ~Failing
    PROVE  Spec => LinesStayLocked
  <1>1. Spec => []FitInv
    BY InitFits, NextFits, PTL DEF Spec
  <1>2. FitInv /\ [Next]_vars =>
          [\A p \in Proc :
             conn[p].nTransacCount > 0 /\ conn[p]'.nTransacCount > 0
                => conn[p].held \subseteq conn[p]'.held]_vars
    <2> SUFFICES ASSUME FitInv, Next, NEW q \in Proc,
                        conn[q].nTransacCount > 0, conn[q]'.nTransacCount > 0
                 PROVE  conn[q].held \subseteq conn[q]'.held
      BY DEF vars
    <2>1. PICK p \in Proc : Moves(p)
      BY NextMoves
    <2>2. PICK t : Becomes(p, t) /\ Step(Own(p), t)
      BY <2>1 DEF Moves
    <2>3. conn'[q] = IF q = p THEN t.conn ELSE conn[q]
      BY <2>2 DEF Becomes, FitInv, TypeOK
    <2>4. Own(p).conn = conn[p]
      BY DEF Own
    <2> QED BY <2>2, <2>3, <2>4 DEF Step
  <1> QED BY <1>1, <1>2, PTL DEF Spec, LinesStayLocked

-----------------------------------------------------------------------------
(* One work area in each process, an application that locks before it edits, a *)
(* server that refuses no write, no autocommit: the accounts of a process.     *)

CarefulUse == Careful /\ ~Failing /\ nAutoCommit = 0 /\ (\A x, y \in Area : x = y)

(* O are the records the other processes have locked.  A row is the number of  *)
(* its REPLACEs, as committed and as the connection sees it; what is not given *)
(* yet is nobody's.                                                            *)
Ledger(s, O) ==
    /\ s.conn.held \cap O = {}
    /\ \A r \in Rec :
         /\ s.row[r] # 0 => s.row[r] = 1 + s.done[r]
         /\ s.conn.change[r] # 0 => /\ r \in s.conn.held
                                    /\ s.conn.change[r] = 1 + s.done[r] + s.conn.edits[r]
         /\ s.conn.change[r] = 0 => s.conn.edits[r] = 0
         /\ r >= s.nextRec => /\ s.row[r] = 0 /\ s.done[r] = 0 /\ s.conn.change[r] = 0
                              /\ r \notin s.conn.held /\ r \notin O

Idle(w) == ~w.hot /\ ~w.isInsert /\ w.cur = 0 /\ w.aLocked = {} /\ w.page = NoRow

(* An area lists what the connection has locked, and its buffer is the row with *)
(* the REPLACEs that are not written.  A row only grows, so what was read of it *)
(* is at most what it is; not so a value another connection may roll back.      *)
AreaGood(s, w) ==
    /\ ~w.open => Idle(w)
    /\ w.aLocked \subseteq s.conn.held
    /\ \A r \in w.aLocked : Visible(s, r) # 0
    /\ w.isInsert => w.hot /\ w.buf = 1 + w.typed
    /\ w.hot /\ ~w.isInsert => /\ w.cur \in s.conn.held
                               /\ Visible(s, w.cur) # 0
                               /\ w.buf = Visible(s, w.cur) + w.typed
    /\ ~w.hot => w.typed = 0
    /\ ~w.hot /\ w.cur \in w.aLocked => w.buf = Visible(s, w.cur)
    /\ ~ReadUncommitted => /\ ~w.hot /\ w.cur # 0 => w.buf <= Visible(s, w.cur)
                           /\ \A r \in Rec : w.page[r] <= Visible(s, r)

Good(s, O) == Fit(s) /\ Ledger(s, O) /\ \A a \in Area : AreaGood(s, s.wa[a])

(* What the others see of a call. *)
Grows(s, t, O) ==
    /\ t.nextRec >= s.nextRec
    /\ \A r \in Rec : t.row[r] >= s.row[r]
    /\ \A r \in Rec \cap O : t.row[r] = s.row[r] /\ t.done[r] = s.done[r]

LEMMA FitTypes ==
    ASSUME NEW s, Fit(s)
    PROVE  /\ s \in State /\ s.conn \in Connection /\ s.nextRec \in Nat
           /\ \A r \in Rec : /\ s.row[r] \in 0..MaxValue /\ s.done[r] \in 0..MaxValue
                             /\ s.conn.change[r] \in 0..MaxValue
                             /\ s.conn.edits[r] \in 0..MaxValue
                             /\ Visible(s, r) \in 0..MaxValue
           /\ \A a \in Area : s.wa[a] \in AreaState
  <1>1. s \in State /\ \A a \in Area : s.wa[a] \in AreaState
    BY DEF Fit, FitArea
  <1>2. s.conn \in Connection
    BY <1>1 DEF State
  <1>3. s.nextRec \in Nat
    BY <1>1, ConstantsOK DEF State
  <1>4. \A r \in Rec : /\ s.row[r] \in 0..MaxValue /\ s.done[r] \in 0..MaxValue
                       /\ s.conn.change[r] \in 0..MaxValue /\ s.conn.edits[r] \in 0..MaxValue
    BY <1>1, <1>2 DEF State, Values, Connection
  <1>5. \A r \in Rec : Visible(s, r) \in 0..MaxValue
    BY <1>1, VisibleType
  <1> QED BY <1>1, <1>2, <1>3, <1>4, <1>5

LEMMA GrowsSelf ==
    ASSUME NEW s, Fit(s), NEW O
    PROVE  Grows(s, s, O)
  BY FitTypes DEF Grows

LEMMA GrowsOn ==
    ASSUME NEW s, NEW t, NEW u, Fit(s), Fit(t), Fit(u), NEW O, Grows(s, t, O), Grows(t, u, O)
    PROVE  Grows(s, u, O)
  <1>1. s.nextRec \in Nat /\ t.nextRec \in Nat /\ u.nextRec \in Nat
    BY FitTypes
  <1>2. u.nextRec >= s.nextRec
    BY <1>1 DEF Grows
  <1>3. \A r \in Rec : u.row[r] >= s.row[r]
    <2> SUFFICES ASSUME NEW r \in Rec PROVE u.row[r] >= s.row[r]
      OBVIOUS
    <2>1. s.row[r] \in 0..MaxValue /\ t.row[r] \in 0..MaxValue /\ u.row[r] \in 0..MaxValue
      BY FitTypes
    <2>2. u.row[r] >= t.row[r] /\ t.row[r] >= s.row[r]
      BY DEF Grows
    <2>3. MaxValue \in Nat
      BY ConstantsOK
    <2> QED BY <2>1, <2>2, <2>3
  <1> QED BY <1>2, <1>3 DEF Grows

(* The accounts of an area hold while its locks stay and rows only grow. *)
LEMMA AreaStaysGood ==
    ASSUME NEW s, Fit(s), NEW t, Fit(t), NEW w \in AreaState, AreaGood(s, w),
           s.conn.held \subseteq t.conn.held,
           \A r \in Rec : Visible(t, r) >= Visible(s, r),
           \A r \in s.conn.held : Visible(t, r) = Visible(s, r)
    PROVE  AreaGood(t, w)
  <1>1. MaxValue \in Nat /\ MaxRecord \in Nat
    BY ConstantsOK
  <1>2. \A r \in Rec : /\ Visible(s, r) \in 0..MaxValue /\ Visible(t, r) \in 0..MaxValue
                       /\ w.page[r] \in 0..MaxValue
    BY FitTypes DEF AreaState
  <1>3. w.buf \in 0..MaxValue /\ w.cur \in 0..MaxRecord /\ w.aLocked \subseteq Rec
    BY DEF AreaState
  <1>4. w.cur # 0 => w.cur \in Rec
    BY <1>1, <1>3 DEF Rec
  <1>5. ~w.open => Idle(w)
    BY DEF AreaGood
  <1>6. w.aLocked \subseteq t.conn.held /\ \A r \in w.aLocked : Visible(t, r) # 0
    BY DEF AreaGood
  <1>7. w.isInsert => w.hot /\ w.buf = 1 + w.typed
    BY DEF AreaGood
  <1>8. w.hot /\ ~w.isInsert => /\ w.cur \in t.conn.held
                                /\ Visible(t, w.cur) # 0
                                /\ w.buf = Visible(t, w.cur) + w.typed
    BY DEF AreaGood
  <1>9. /\ ~w.hot => w.typed = 0
        /\ ~w.hot /\ w.cur \in w.aLocked => w.buf = Visible(t, w.cur)
    BY DEF AreaGood
  <1>10. ~ReadUncommitted /\ ~w.hot /\ w.cur # 0 => w.buf <= Visible(t, w.cur)
    BY <1>1, <1>2, <1>3, <1>4 DEF AreaGood
  <1>11. ~ReadUncommitted => \A r \in Rec : w.page[r] <= Visible(t, r)
    <2> SUFFICES ASSUME ~ReadUncommitted, NEW r \in Rec PROVE w.page[r] <= Visible(t, r)
      OBVIOUS
    <2>1. w.page[r] <= Visible(s, r) /\ Visible(t, r) >= Visible(s, r)
      BY DEF AreaGood
    <2> QED BY <1>1, <1>2, <2>1
  <1> QED BY <1>5, <1>6, <1>7, <1>8, <1>9, <1>10, <1>11 DEF AreaGood

LEMMA Known ==
    ASSUME NEW s, NEW O, Good(s, O), NEW r \in Rec
    PROVE  /\ Visible(s, r) # 0 => Visible(s, r) = 1 + s.done[r] + s.conn.edits[r]
           /\ Visible(s, r) >= s.row[r]
           /\ Visible(s, r) = 0 => s.conn.change[r] = 0 /\ s.conn.edits[r] = 0 /\ s.row[r] = 0
           /\ r \in O => s.conn.change[r] = 0 /\ s.conn.edits[r] = 0 /\ Visible(s, r) = s.row[r]
           /\ r >= s.nextRec => Visible(s, r) = 0
  <1>1. Fit(s) /\ Ledger(s, O)
    BY DEF Good
  <1>2. MaxValue \in Nat
    BY ConstantsOK
  <1>3. /\ s.row[r] \in 0..MaxValue /\ s.done[r] \in 0..MaxValue
        /\ s.conn.change[r] \in 0..MaxValue /\ s.conn.edits[r] \in 0..MaxValue
    BY <1>1, FitTypes
  <1>4. /\ s.row[r] # 0 => s.row[r] = 1 + s.done[r]
        /\ s.conn.change[r] # 0 => /\ r \in s.conn.held
                                   /\ s.conn.change[r] = 1 + s.done[r] + s.conn.edits[r]
        /\ s.conn.change[r] = 0 => s.conn.edits[r] = 0
        /\ r >= s.nextRec => s.row[r] = 0 /\ s.conn.change[r] = 0
        /\ r \in s.conn.held => r \notin O
    BY <1>1 DEF Ledger
  <1>5. Visible(s, r) = IF s.conn.change[r] # 0 THEN s.conn.change[r] ELSE s.row[r]
    BY DEF Visible
  <1> QED BY <1>2, <1>3, <1>4, <1>5

LEMMA CommitGood ==
    ASSUME NEW s, NEW O, Good(s, O),
           \A a \in Area : s.wa[a].aLocked = {} /\ (s.wa[a].hot => s.wa[a].isInsert)
    PROVE  Good(Commit(s), O) /\ Grows(s, Commit(s), O)
  <1> DEFINE t == Commit(s)
  <1>1. Fit(s) /\ Ledger(s, O) /\ s \in State /\ MaxValue \in Nat
    BY FitTypes, ConstantsOK DEF Good
  <1>2. Fit(t) /\ t.wa = s.wa /\ t.nextRec = s.nextRec
    BY <1>1, CommitFits
  <1>3. /\ \A r \in Rec : t.row[r] = Visible(s, r) /\ t.done[r] = Counted(s.done[r], s.conn.edits[r])
        /\ t.conn.held = {} /\ \A r \in Rec : t.conn.change[r] = 0 /\ t.conn.edits[r] = 0
    <2>1. /\ t.row = AllVisible(s)
          /\ t.done = [r \in Rec |-> Counted(s.done[r], s.conn.edits[r])]
          /\ t.conn = [Connected EXCEPT !.nTransacCount = s.conn.nTransacCount]
      BY <1>1, CommitType
    <2> HIDE DEF t
    <2>2. t.conn.held = {} /\ t.conn.change = NoRow /\ t.conn.edits = NoRow
      BY <2>1 DEF Connected
    <2> QED BY <2>1, <2>2 DEF AllVisible, NoRow
  <1> HIDE DEF t
  <1>4. ASSUME NEW r \in Rec
        PROVE  /\ Visible(t, r) = Visible(s, r)
               /\ t.row[r] # 0 => t.row[r] = 1 + t.done[r]
               /\ t.row[r] >= s.row[r]
               /\ r \in O => t.row[r] = s.row[r] /\ t.done[r] = s.done[r]
               /\ r >= s.nextRec => t.row[r] = 0 /\ t.done[r] = 0 /\ r \notin O
    <2>1. /\ s.row[r] \in 0..MaxValue /\ s.done[r] \in 0..MaxValue
          /\ s.conn.edits[r] \in 0..MaxValue /\ Visible(s, r) \in 0..MaxValue
      BY <1>1, FitTypes
    <2>2. /\ Visible(s, r) # 0 => Visible(s, r) = 1 + s.done[r] + s.conn.edits[r]
          /\ Visible(s, r) >= s.row[r]
          /\ Visible(s, r) = 0 => s.conn.edits[r] = 0
          /\ r \in O => s.conn.edits[r] = 0 /\ Visible(s, r) = s.row[r]
          /\ r >= s.nextRec => Visible(s, r) = 0
      BY Known
    <2>3. r >= s.nextRec => s.done[r] = 0 /\ r \notin O
      BY <1>1 DEF Ledger
    <2>4. t.done[r] = IF s.done[r] + s.conn.edits[r] > MaxValue THEN MaxValue
                      ELSE s.done[r] + s.conn.edits[r]
      BY <1>3 DEF Counted
    <2>5. t.done[r] = s.done[r] + s.conn.edits[r]
      BY <1>1, <2>1, <2>2, <2>4
    <2>6. Visible(t, r) = t.row[r] /\ t.row[r] = Visible(s, r)
      BY <1>3 DEF Visible
    <2> QED BY <2>1, <2>2, <2>3, <2>5, <2>6
  <1>5. Ledger(t, O)
    BY <1>2, <1>3, <1>4 DEF Ledger
  <1>6. \A a \in Area : AreaGood(t, t.wa[a])
    <2> SUFFICES ASSUME NEW a \in Area PROVE AreaGood(t, s.wa[a])
      BY <1>2
    <2>1. AreaGood(s, s.wa[a]) /\ s.wa[a].aLocked = {} /\ (s.wa[a].hot => s.wa[a].isInsert)
      BY DEF Good
    <2>2. s.wa[a] \in AreaState
      BY <1>1, FitTypes
    <2>3. s.wa[a].cur # 0 => s.wa[a].cur \in Rec
      BY <2>2, ConstantsOK DEF AreaState, Rec
    <2>4. \A r \in Rec : Visible(t, r) = Visible(s, r)
      BY <1>4
    <2> QED BY <1>3, <2>1, <2>3, <2>4 DEF AreaGood
  <1>7. Grows(s, t, O)
    BY <1>1, <1>2, <1>4, FitTypes DEF Grows
  <1> QED BY <1>2, <1>5, <1>6, <1>7 DEF Good, t

LEMMA PutGood ==
    ASSUME NEW s, NEW O, Good(s, O), NEW a \in Area, NEW w, FitArea(w), AreaGood(s, w)
    PROVE  Good(Put(s, a, w), O) /\ Grows(s, Put(s, a, w), O)
  <1> DEFINE t == Put(s, a, w)
  <1>1. Fit(s) /\ Ledger(s, O)
    BY DEF Good
  <1>2. /\ Fit(t) /\ t.conn = s.conn /\ t.row = s.row /\ t.done = s.done
        /\ t.nextRec = s.nextRec /\ t.wa[a] = w
        /\ \A x \in Area \ {a} : t.wa[x] = s.wa[x]
    BY <1>1, PutFits
  <1> HIDE DEF t
  <1>3. Ledger(t, O)
    BY <1>1, <1>2 DEF Ledger
  <1>4. \A r : Visible(t, r) = Visible(s, r)
    BY <1>2 DEF Visible
  <1>5. ASSUME NEW v, AreaGood(s, v)
        PROVE  AreaGood(t, v)
    BY <1>2, <1>4, <1>5 DEF AreaGood
  <1>6. \A x \in Area : AreaGood(t, t.wa[x])
    BY <1>2, <1>5 DEF Good
  <1>7. Grows(s, t, O)
    BY <1>1, <1>2, FitTypes DEF Grows
  <1> QED BY <1>2, <1>3, <1>6, <1>7 DEF Good, t

LEMMA UpdateGood ==
    ASSUME CarefulUse, NEW s, NEW O, Good(s, O), NEW a \in Area,
           s.wa[a].hot, ~s.wa[a].isInsert
    PROVE  LET t == WriteUpdate(s, a)
           IN  Good(t, O) /\ Grows(s, t, O) /\ ~t.wa[a].hot /\ ~t.wa[a].isInsert
  <1> DEFINE w == s.wa[a]
             r == w.cur
             n == Counted(s.conn.edits[r], w.typed)
             e == Sent(s, r, w.buf, n)
             t == WriteUpdate(s, a)
  <1>1. Fit(s) /\ Ledger(s, O) /\ AreaGood(s, w) /\ s \in State /\ w \in AreaState /\ FitArea(w)
    BY FitTypes DEF Good, Fit
  <1>2. r # 0 /\ MaxRecord \in Nat /\ MaxValue \in Nat
    BY <1>1, ConstantsOK DEF FitArea
  <1>3. r \in Rec /\ w.buf \in 0..MaxValue /\ w.typed \in 0..MaxValue
    BY <1>1, <1>2 DEF AreaState, Rec
  <1>4. r \in s.conn.held /\ Visible(s, r) # 0 /\ w.buf = Visible(s, r) + w.typed
    BY <1>1 DEF AreaGood
  <1>5. /\ s.done[r] \in 0..MaxValue /\ s.conn.edits[r] \in 0..MaxValue
        /\ Visible(s, r) \in 0..MaxValue
        /\ Visible(s, r) = 1 + s.done[r] + s.conn.edits[r]
        /\ s.nextRec \in Nat
    <2>1. Fit(s) /\ r \in Rec /\ Visible(s, r) # 0
      BY <1>1, <1>3, <1>4
    <2> HIDE DEF r, w
    <2>2. /\ s.done[r] \in 0..MaxValue /\ s.conn.edits[r] \in 0..MaxValue
          /\ Visible(s, r) \in 0..MaxValue /\ s.nextRec \in Nat
      BY <2>1, FitTypes
    <2>3. Visible(s, r) = 1 + s.done[r] + s.conn.edits[r]
      BY <2>1, Known
    <2> QED BY <2>2, <2>3
  <1>6. n = s.conn.edits[r] + w.typed /\ n \in 0..MaxValue
    <2> DEFINE b == w.buf
               k == w.typed
               d == s.done[r]
               f == s.conn.edits[r]
    <2>1. /\ b \in 0..MaxValue /\ k \in 0..MaxValue /\ d \in 0..MaxValue /\ f \in 0..MaxValue
          /\ b = 1 + d + f + k
      BY <1>3, <1>4, <1>5
    <2>2. n = IF f + k > MaxValue THEN MaxValue ELSE f + k
      BY DEF Counted
    <2> HIDE DEF b, k, d, f, n
    <2>3. n = f + k /\ n \in 0..MaxValue
      BY <1>2, <2>1, <2>2
    <2> QED BY <2>3 DEF f, k
  <1>7. t.wa[a] = Updated(w) /\ t.conn = e.conn /\ t.row = e.row /\ t.done = e.done
        /\ t.nextRec = e.nextRec
    <2>1. SentUpdate(s, a) = e
      BY <1>4 DEF SentUpdate
    <2>2. Executed(e) = e
      BY DEF Executed, CarefulUse
    <2>3. Written(t, a, Executed(SentUpdate(s, a)), Updated(w), s)
      BY <1>1, <1>2, WriteUpdateType
    <2> HIDE DEF t, e, w
    <2> QED BY <2>1, <2>2, <2>3 DEF Written
  <1>8. Fit(t)
    BY <1>1, <1>2, WriteUpdateFits
  <1>9. /\ e.row = s.row /\ e.done = s.done /\ e.nextRec = s.nextRec
        /\ e.conn.held = s.conn.held
        /\ e.conn.change[r] = w.buf /\ e.conn.edits[r] = n
        /\ \A x \in Rec \ {r} : /\ e.conn.change[x] = s.conn.change[x]
                                /\ e.conn.edits[x] = s.conn.edits[x]
    <2> DEFINE v == w.buf
    <2>1. v \in 0..MaxValue /\ r \in Rec
      BY <1>3
    <2> HIDE DEF v, r, n, w
    <2>2. LET u == Sent(s, r, v, n)
          IN  /\ u.row = s.row /\ u.done = s.done /\ u.nextRec = s.nextRec
              /\ u.conn.held = s.conn.held \cup {r}
              /\ u.conn.change[r] = v /\ u.conn.edits[r] = n
              /\ \A x \in Rec \ {r} : /\ u.conn.change[x] = s.conn.change[x]
                                      /\ u.conn.edits[x] = s.conn.edits[x]
      BY <1>1, <1>6, <2>1, SentType
    <2>3. s.conn.held \cup {r} = s.conn.held
      BY <1>4
    <2> QED BY <2>2, <2>3 DEF v
  <1>10. /\ t.row = s.row /\ t.done = s.done /\ t.nextRec = s.nextRec
         /\ t.conn.held = s.conn.held
         /\ t.conn.change[r] = w.buf /\ t.conn.edits[r] = n
         /\ \A x \in Rec \ {r} : /\ t.conn.change[x] = s.conn.change[x]
                                 /\ t.conn.edits[x] = s.conn.edits[x]
    <2> HIDE DEF t, e, w, r, n
    <2> QED BY <1>7, <1>9
  <1> HIDE DEF t, e, n
  <1>11. w.buf # 0 /\ w.buf = 1 + s.done[r] + n /\ w.buf >= Visible(s, r)
    <2> DEFINE b == w.buf
               k == w.typed
               v == Visible(s, r)
               d == s.done[r]
               f == s.conn.edits[r]
    <2>1. b = v + k /\ v # 0 /\ v = 1 + d + f /\ n = f + k
      BY <1>4, <1>5, <1>6
    <2>2. v \in Nat /\ k \in Nat /\ d \in Nat /\ f \in Nat
      BY <1>2, <1>3, <1>5
    <2> HIDE DEF b, k, v, d, f
    <2>3. b # 0 /\ b = 1 + d + n /\ b >= v
      BY <2>1, <2>2
    <2> QED BY <2>3 DEF b, d, v
  <1>12. Ledger(t, O)
    <2> HIDE DEF w, r
    <2> SUFFICES ASSUME NEW x \in Rec
                 PROVE  /\ s.row[x] # 0 => s.row[x] = 1 + s.done[x]
                        /\ t.conn.change[x] # 0 =>
                              /\ x \in s.conn.held
                              /\ t.conn.change[x] = 1 + s.done[x] + t.conn.edits[x]
                        /\ t.conn.change[x] = 0 => t.conn.edits[x] = 0
                        /\ x >= s.nextRec => /\ s.row[x] = 0 /\ s.done[x] = 0
                                             /\ t.conn.change[x] = 0
                                             /\ x \notin s.conn.held /\ x \notin O
      BY <1>1, <1>10 DEF Ledger
    <2>1. CASE x = r
      BY <1>1, <1>4, <1>10, <1>11, <2>1 DEF Ledger
    <2>2. CASE x # r
      BY <1>1, <1>10, <2>2 DEF Ledger
    <2> QED BY <2>1, <2>2
  <1>13. Visible(t, r) = w.buf /\ \A x \in Rec \ {r} : Visible(t, x) = Visible(s, x)
    <2> HIDE DEF w, r
    <2> QED BY <1>10, <1>11 DEF Visible
  <1>14. AreaGood(t, Updated(w))
    <2> DEFINE v == Updated(w)
    <2>1. /\ v.open = w.open /\ v.cur = r /\ v.buf = w.buf /\ v.typed = 0 /\ ~v.hot
          /\ v.isInsert = w.isInsert /\ v.aLocked = w.aLocked
          /\ v.page[r] = w.buf /\ \A x \in Rec \ {r} : v.page[x] = w.page[x]
      BY <1>1, <1>3 DEF Updated, AreaState
    <2>2. w.open
      BY <1>1 DEF AreaGood, Idle
    <2>3. \A x \in w.aLocked : x \in s.conn.held /\ Visible(s, x) # 0
      BY <1>1 DEF AreaGood
    <2>4. ~ReadUncommitted => \A x \in Rec \ {r} : w.page[x] <= Visible(t, x)
      BY <1>1, <1>13 DEF AreaGood
    <2>5. w.aLocked \subseteq Rec
      BY <1>1 DEF AreaState
    <2> HIDE DEF v, w, r
    <2>6. \A x \in v.aLocked : x \in t.conn.held /\ Visible(t, x) # 0
      BY <1>10, <1>11, <1>13, <2>1, <2>3, <2>5
    <2>7. w.buf <= Visible(t, r)
      BY <1>3, <1>13, <1>2
    <2>8. ~ReadUncommitted => \A x \in Rec : v.page[x] <= Visible(t, x)
      BY <2>1, <2>4, <2>7
    <2>9. ~v.isInsert
      BY <2>1 DEF w
    <2> QED BY <1>13, <2>1, <2>2, <2>6, <2>7, <2>8, <2>9 DEF AreaGood, v
  <1>15. \A x \in Area : t.wa[x] = Updated(w)
    BY <1>7 DEF CarefulUse
  <1>16. Grows(s, t, O)
    <2> HIDE DEF w, r
    <2> QED BY <1>1, <1>10, FitTypes DEF Grows
  <1>17. ~Updated(w).hot /\ ~Updated(w).isInsert
    BY <1>1 DEF Updated, AreaState
  <1> QED BY <1>7, <1>8, <1>12, <1>14, <1>15, <1>16, <1>17 DEF Good, t

LEMMA InsertGood ==
    ASSUME CarefulUse, NEW s, NEW O, Good(s, O), NEW a \in Area,
           s.wa[a].hot, s.wa[a].isInsert, s.nextRec <= MaxRecord
    PROVE  LET t == WriteInsert(s, a)
           IN  Good(t, O) /\ Grows(s, t, O) /\ ~t.wa[a].hot /\ ~t.wa[a].isInsert
  <1> DEFINE w == s.wa[a]
             r == s.nextRec
             u == SentInsert(s, a)
             v == Inserted(w, r)
             t == WriteInsert(s, a)
  <1>1. Fit(s) /\ Ledger(s, O) /\ AreaGood(s, w) /\ s \in State /\ w \in AreaState
        /\ MaxValue \in Nat /\ MaxRecord \in Nat
    BY FitTypes, ConstantsOK DEF Good
  <1>2. /\ r \in Rec /\ u.nextRec = r + 1 /\ u.row = s.row /\ u.done = s.done
        /\ u.conn.change[r] = w.buf /\ u.conn.edits[r] = w.typed
        /\ \A x \in Rec \ {r} : u.conn.change[x] = s.conn.change[x] /\ u.conn.edits[x] = s.conn.edits[x]
        /\ u.conn.held = s.conn.held \cup {r}
    BY <1>1, WriteInsertType
  <1>3. Executed(u) = u
    BY DEF Executed, CarefulUse
  <1>4. /\ t.wa[a] = v /\ t.conn = u.conn /\ t.row = u.row /\ t.done = u.done
        /\ t.nextRec = u.nextRec
    <2>1. Written(t, a, Executed(u), v, s)
      BY <1>1, WriteInsertType
    <2> HIDE DEF t, u, v
    <2> QED BY <1>3, <2>1 DEF Written
  <1>5. Fit(t)
    BY <1>1, WriteInsertFits
  <1> HIDE DEF t, u
  <1>6. w.buf \in 0..MaxValue /\ w.typed \in 0..MaxValue /\ w.buf = 1 + w.typed /\ r \in Nat
    BY <1>1, FitTypes DEF AreaState, AreaGood
  <1>7. s.row[r] = 0 /\ s.done[r] = 0 /\ Visible(s, r) = 0 /\ r \notin O /\ r \notin s.conn.held
    <2>1. r >= s.nextRec
      BY <1>6
    <2> QED BY <1>1, <1>2, <2>1, Known DEF Ledger
  <1> HIDE DEF w, r
  <1>8. Ledger(t, O)
    <2>1. t.conn.held \cap O = {}
      BY <1>1, <1>2, <1>4, <1>7 DEF Ledger
    <2> SUFFICES ASSUME NEW x \in Rec
                 PROVE  /\ s.row[x] # 0 => s.row[x] = 1 + s.done[x]
                        /\ t.conn.change[x] # 0 =>
                              /\ x \in t.conn.held
                              /\ t.conn.change[x] = 1 + s.done[x] + t.conn.edits[x]
                        /\ t.conn.change[x] = 0 => t.conn.edits[x] = 0
                        /\ x >= r + 1 => /\ s.row[x] = 0 /\ s.done[x] = 0
                                         /\ t.conn.change[x] = 0
                                         /\ x \notin t.conn.held /\ x \notin O
      BY <1>2, <1>4, <2>1 DEF Ledger
    <2>2. x \in Nat
      BY <1>1 DEF Rec
    <2>3. CASE x = r
      BY <1>2, <1>4, <1>6, <1>7, <2>2, <2>3
    <2>4. CASE x # r
      <3>1. x >= r + 1 => x >= s.nextRec
        BY <1>6, <2>2 DEF r
      <3> QED BY <1>1, <1>2, <1>4, <2>4, <3>1 DEF Ledger
    <2> QED BY <2>3, <2>4
  <1>9. Visible(t, r) = w.buf /\ w.buf # 0 /\ \A x \in Rec \ {r} : Visible(t, x) = Visible(s, x)
    BY <1>2, <1>4, <1>6 DEF Visible
  <1>10. AreaGood(t, v)
    <2>1. /\ v.open = w.open /\ v.cur = r /\ v.buf = w.buf /\ v.typed = 0 /\ ~v.hot
          /\ ~v.isInsert /\ v.aLocked \subseteq w.aLocked \cup {r}
          /\ v.page[r] = w.buf /\ \A x \in Rec \ {r} : v.page[x] = 0
      BY <1>1, <1>2 DEF Inserted, AreaState, NoRow
    <2>2. w.open
      BY <1>1 DEF AreaGood, Idle, w
    <2>3. \A x \in w.aLocked : x \in s.conn.held /\ Visible(s, x) # 0 /\ x \in Rec
      BY <1>1 DEF AreaGood, AreaState
    <2>4. \A x \in Rec : Visible(t, x) \in 0..MaxValue
      BY <1>5, FitTypes
    <2> HIDE DEF v
    <2>5. v.aLocked \subseteq t.conn.held /\ \A x \in v.aLocked : Visible(t, x) # 0
      BY <1>2, <1>4, <1>7, <1>9, <2>1, <2>3
    <2>6. \A x \in Rec : v.page[x] <= Visible(t, x)
      BY <1>1, <1>6, <1>9, <2>1, <2>4
    <2>7. v.buf <= Visible(t, r)
      BY <1>1, <1>6, <1>9, <2>1
    <2> QED BY <1>9, <2>1, <2>2, <2>5, <2>6, <2>7 DEF AreaGood
  <1>11. \A x \in Area : t.wa[x] = v
    BY <1>4 DEF CarefulUse
  <1>12. Grows(s, t, O)
    <2>1. r + 1 >= s.nextRec
      BY <1>6 DEF r
    <2> QED BY <1>1, <1>2, <1>4, <2>1, FitTypes DEF Grows
  <1>13. ~v.hot /\ ~v.isInsert
    BY <1>1 DEF Inserted, AreaState
  <1> QED BY <1>4, <1>5, <1>8, <1>10, <1>11, <1>12, <1>13 DEF Good, t

LEMMA GoColdGood ==
    ASSUME CarefulUse, NEW s, NEW O, Good(s, O), NEW a \in Area, CanWrite(s, a)
    PROVE  LET c == GoCold(s, a)
           IN  Good(c, O) /\ Grows(s, c, O) /\ ~c.wa[a].hot /\ ~c.wa[a].isInsert
  <1> DEFINE w == s.wa[a]
  <1>1. Fit(s) /\ AreaGood(s, w)
    BY DEF Good
  <1>2. CASE ~w.hot
    <2>1. GoCold(s, a) = s /\ ~w.isInsert
      BY <1>1, <1>2 DEF GoCold, AreaGood
    <2> QED BY <1>1, <1>2, <2>1, GrowsSelf
  <1>3. CASE w.hot /\ w.isInsert
    <2>1. GoCold(s, a) = WriteInsert(s, a) /\ s.nextRec <= MaxRecord
      BY <1>3 DEF GoCold, CanWrite
    <2> QED BY <1>3, <2>1, InsertGood
  <1>4. CASE w.hot /\ ~w.isInsert
    <2>1. GoCold(s, a) = WriteUpdate(s, a)
      BY <1>4 DEF GoCold
    <2> QED BY <1>4, <2>1, UpdateGood
  <1> QED BY <1>2, <1>3, <1>4

(* An area that is cold and lists nothing, alone in its process, may commit. *)
LEMMA ReleasedGood ==
    ASSUME CarefulUse, NEW s, NEW O, Good(s, O), NEW a \in Area,
           ~s.wa[a].hot, ~s.wa[a].isInsert
    PROVE  LET t == Released(s, a)
           IN  Good(t, O) /\ Grows(s, t, O) /\ ~t.wa[a].hot /\ ~t.wa[a].isInsert
  <1> DEFINE w == s.wa[a]
             v == Unlisted(w)
             u == Put(s, a, v)
  <1>1. Fit(s) /\ AreaGood(s, w) /\ w \in AreaState /\ FitArea(w)
    BY FitTypes DEF Good, Fit
  <1>2. /\ v.open = w.open /\ v.cur = w.cur /\ v.buf = w.buf /\ v.typed = w.typed
        /\ v.hot = w.hot /\ v.isInsert = w.isInsert /\ v.aLocked = {} /\ v.page = w.page
        /\ FitArea(v)
    BY <1>1 DEF Unlisted, AreaState, FitArea
  <1>3. AreaGood(s, v)
    <2>1. ~w.open => Idle(v)
      <3> HIDE DEF v, w
      <3> QED BY <1>1, <1>2 DEF AreaGood, Idle
    <2> HIDE DEF v
    <2> QED BY <1>1, <1>2, <2>1 DEF AreaGood
  <1>4. /\ Released(s, a) = s \/ Released(s, a) = u \/ Released(s, a) = Commit(u)
    BY DEF Released, Put, Unlisted
  <1> HIDE DEF v
  <1>5. Good(u, O) /\ Grows(s, u, O)
    BY <1>2, <1>3, PutGood
  <1>6. Fit(u) /\ u.wa[a] = v
    BY <1>1, <1>2, PutFits
  <1> HIDE DEF u
  <1>7. Good(Commit(u), O) /\ Grows(u, Commit(u), O)
    <2>1. \A x \in Area : u.wa[x] = v
      BY <1>6 DEF CarefulUse
    <2> QED BY <1>2, <1>5, <2>1, CommitGood
  <1>8. Grows(s, Commit(u), O) /\ Commit(u).wa = u.wa
    <2>1. Fit(Commit(u)) /\ Commit(u).wa = u.wa
      BY <1>6, CommitFits
    <2> QED BY <1>1, <1>5, <1>6, <1>7, <2>1, GrowsOn
  <1> HIDE DEF w
  <1>9. ~v.hot /\ ~v.isInsert
    BY <1>2 DEF w
  <1>10. CASE Released(s, a) = s
    BY <1>1, <1>10, GrowsSelf
  <1>11. CASE Released(s, a) = u
    BY <1>5, <1>6, <1>9, <1>11
  <1>12. CASE Released(s, a) = Commit(u)
    BY <1>6, <1>7, <1>8, <1>9, <1>12
  <1> QED BY <1>4, <1>10, <1>11, <1>12

LEMMA FlushedGood ==
    ASSUME CarefulUse, NEW s, NEW O, Good(s, O), NEW a \in Area, CanWrite(s, a)
    PROVE  LET t == Flushed(s, a)
           IN  Good(t, O) /\ Grows(s, t, O) /\ ~t.wa[a].hot
  <1> DEFINE c == GoCold(s, a)
  <1>1. Fit(s) /\ Good(c, O) /\ Grows(s, c, O) /\ ~c.wa[a].hot /\ ~c.wa[a].isInsert
    BY GoColdGood DEF Good
  <1>2. Flushed(s, a) = c \/ (c.wa[a].aLocked = {} /\ Flushed(s, a) = Commit(c))
    BY DEF Flushed, lCanICommitNow
  <1> HIDE DEF c
  <1>3. CASE Flushed(s, a) = c
    BY <1>1, <1>3
  <1>4. CASE c.wa[a].aLocked = {} /\ Flushed(s, a) = Commit(c)
    <2>1. Good(Commit(c), O) /\ Grows(c, Commit(c), O)
      <3>1. \A x \in Area : c.wa[x] = c.wa[a]
        BY DEF CarefulUse
      <3> QED BY <1>1, <1>4, <3>1, CommitGood
    <2>2. Fit(c) /\ Fit(Commit(c)) /\ Commit(c).wa = c.wa
      BY <1>1, CommitFits DEF Good
    <2> QED BY <1>1, <1>4, <2>1, <2>2, GrowsOn
  <1> QED BY <1>2, <1>3, <1>4

LEMMA ForUpdateGood ==
    ASSUME NEW p, NEW s, NEW O, Good(s, O), NEW a \in Area, NEW r \in Rec,
           ~s.wa[a].hot, ~s.wa[a].isInsert, s.wa[a].open, ~HeldByOther(p, r) => r \notin O
    PROVE  LET t == ForUpdate(p, s, a, r)
           IN  Good(t, O) /\ Grows(s, t, O)
  <1> DEFINE w == s.wa[a]
             c == Held(s.conn, r)
             v == Listed(s, w, r)
             k == PutConn(s, c)
             t == Put(k, a, v)
  <1>1. Fit(s) /\ Ledger(s, O) /\ AreaGood(s, w) /\ w \in AreaState /\ s.conn \in Connection
    BY FitTypes DEF Good
  <1>2. \/ ForUpdate(p, s, a, r) = s
        \/ Visible(s, r) # 0 /\ r \notin O /\ ForUpdate(p, s, a, r) = t
    BY DEF ForUpdate, Put, PutConn, Listed, Held
  <1>3. CASE ForUpdate(p, s, a, r) = s
    BY <1>1, <1>3, GrowsSelf
  <1>4. CASE Visible(s, r) # 0 /\ r \notin O /\ ForUpdate(p, s, a, r) = t
    <2>1. /\ c \in Connection /\ c.change = s.conn.change /\ c.edits = s.conn.edits
          /\ c.held = s.conn.held \cup {r}
      BY <1>1 DEF Held, Connection
    <2> HIDE DEF c
    <2>2. /\ Fit(k) /\ k.conn = c /\ k.row = s.row /\ k.done = s.done
          /\ k.nextRec = s.nextRec /\ k.wa = s.wa
      BY <1>1, <2>1, PutConnFits
    <2> HIDE DEF k
    <2>3. \A x : Visible(k, x) = Visible(s, x)
      BY <2>1, <2>2 DEF Visible
    <2>4. Ledger(k, O)
      <3>1. ~(r >= s.nextRec)
        BY <1>4, Known
      <3> QED BY <1>1, <1>4, <2>1, <2>2, <3>1 DEF Ledger
    <2>5. ASSUME NEW x \in Area PROVE AreaGood(k, s.wa[x])
      <3>1. AreaGood(s, s.wa[x])
        BY DEF Good
      <3>2. s.conn.held \subseteq k.conn.held
        BY <2>1, <2>2
      <3> QED BY <2>3, <3>1, <3>2 DEF AreaGood
    <2>6. Good(k, O) /\ Grows(s, k, O)
      BY <1>1, <2>2, <2>4, <2>5, FitTypes DEF Good, Grows
    <2>7. /\ v.open = w.open /\ v.cur = w.cur /\ v.typed = w.typed
          /\ v.hot = w.hot /\ v.isInsert = w.isInsert /\ v.aLocked = w.aLocked \cup {r}
          /\ v.page = w.page
          /\ v.buf = IF w.cur = r THEN Visible(s, r) ELSE w.buf
          /\ FitArea(v)
      <3>1. Visible(s, r) \in 0..MaxValue
        BY <1>1, FitTypes
      <3>2. FitArea(w)
        BY <1>1 DEF Fit
      <3> QED BY <1>1, <3>1, <3>2 DEF Listed, AreaState, FitArea
    <2> HIDE DEF v, w
    <2>8. AreaGood(k, v)
      <3>1. AreaGood(k, w) /\ w.open /\ ~w.hot /\ ~w.isInsert
        BY <2>5 DEF w
      <3>2. r \in k.conn.held /\ Visible(k, r) # 0
        BY <1>4, <2>1, <2>2, <2>3
      <3>3. w.cur = r => v.buf = Visible(k, r) /\ v.buf <= Visible(k, r)
        <4>1. Visible(k, r) \in 0..MaxValue /\ MaxValue \in Nat
          BY <2>2, FitTypes, ConstantsOK
        <4> QED BY <2>3, <2>7, <4>1
      <3>4. w.cur # r => v.buf = w.buf
        BY <2>7
      <3> QED BY <2>7, <3>1, <3>2, <3>3, <3>4 DEF AreaGood
    <2>9. Good(t, O) /\ Grows(k, t, O)
      BY <2>6, <2>7, <2>8, PutGood
    <2>10. Fit(t)
      BY <2>2, <2>7, PutFits
    <2> HIDE DEF t
    <2> QED BY <1>1, <1>4, <2>2, <2>6, <2>9, <2>10, GrowsOn
  <1> QED BY <1>2, <1>3, <1>4

-----------------------------------------------------------------------------
(* The steps of a careful application *)

Others(p) == {r \in Rec : HeldByOther(p, r)}

GoodInv == FitInv /\ NoLostUpdate /\ \A p \in Proc : Good(Own(p), Others(p))

GoodMoves(p) == \E t : Good(t, Others(p)) /\ Grows(Own(p), t, Others(p)) /\ Becomes(p, t)

LEMMA OwnGood ==
    ASSUME GoodInv, NEW p \in Proc
    PROVE  /\ Good(Own(p), Others(p)) /\ Fit(Own(p))
           /\ Own(p).wa = wa[p] /\ Own(p).conn = conn[p] /\ Own(p).nextRec = nextRec
           /\ Own(p).row = row /\ Own(p).done = done
           /\ \A a \in Area : AreaGood(Own(p), wa[p][a]) /\ FitArea(wa[p][a]) /\ wa[p][a] \in AreaState
  <1>1. Own(p).wa = wa[p]
    BY DEF Own
  <1> QED BY <1>1 DEF GoodInv, Good, Fit, FitArea, Own

LEMMA BecomesGood ==
    ASSUME GoodInv, NEW p \in Proc, GoodMoves(p)
    PROVE  GoodInv'
  <1>1. PICK t : Good(t, Others(p)) /\ Grows(Own(p), t, Others(p)) /\ Becomes(p, t)
    BY DEF GoodMoves
  <1>2. Fit(t) /\ Ledger(t, Others(p)) /\ t.nextRec \in Nat
    BY <1>1, FitTypes DEF Good
  <1>3. FitInv'
    BY <1>1, <1>2, BecomesFits DEF GoodInv
  <1>4. /\ row' = t.row /\ done' = t.done /\ nextRec' = t.nextRec
        /\ conn'[p] = t.conn /\ wa'[p] = t.wa
        /\ \A q \in Proc \ {p} : conn'[q] = conn[q] /\ wa'[q] = wa[q]
    BY <1>1 DEF Becomes, GoodInv, FitInv, TypeOK
  <1>5. ASSUME NEW q \in Proc
        PROVE  /\ Own(q)'.row = row' /\ Own(q)'.done = done' /\ Own(q)'.nextRec = nextRec'
               /\ Own(q)'.conn = conn'[q] /\ Own(q)'.wa = wa'[q]
    BY DEF Own
  <1>6. ASSUME NEW q \in Proc
        PROVE  Fit(Own(q)')
    <2>1. /\ row' \in Values /\ done' \in Values /\ nextRec' \in Existing + 1 .. MaxRecord + 1
          /\ conn'[q] \in Connection /\ wa'[q] \in [Area -> AreaState]
          /\ \A a \in Area : FitArea(wa'[q][a])
      BY <1>3 DEF FitInv, TypeOK, Values, FitArea
    <2>2. Own(q)' \in State
      BY <2>1 DEF Own, State
    <2> QED BY <1>5, <2>1, <2>2 DEF Fit
  <1>7. \A q \in Proc : \A r : r \in Others(q)' <=>
            r \in Rec /\ \E z \in Proc \ {q} : r \in conn'[z].held
    BY DEF Others, HeldByOther
  <1>8. \A q \in Proc : \A r : r \in Others(q) <=>
            r \in Rec /\ \E z \in Proc \ {q} : r \in conn[z].held
    BY DEF Others, HeldByOther
  <1>9. \A q \in Proc : conn[q].held \subseteq Rec /\ conn'[q].held \subseteq Rec
    <2> SUFFICES ASSUME NEW q \in Proc
                 PROVE  conn[q].held \subseteq Rec /\ conn'[q].held \subseteq Rec
      OBVIOUS
    <2>1. conn[q] \in Connection
      BY DEF GoodInv, FitInv, TypeOK
    <2>2. conn'[q] \in Connection
      BY <1>3 DEF FitInv, TypeOK
    <2> QED BY <2>1, <2>2 DEF Connection
  <1>10. Good(Own(p)', Others(p)')
    <2>1. Others(p)' = Others(p)
      <3>1. \A z \in Proc \ {p} : conn'[z].held = conn[z].held
        BY <1>4
      <3>2. \A r \in Rec : HeldByOther(p, r)' <=> HeldByOther(p, r)
        BY <3>1 DEF HeldByOther
      <3> QED BY <3>2 DEF Others
    <2> DEFINE u == Own(p)'
    <2>2. /\ u.row = t.row /\ u.done = t.done /\ u.nextRec = t.nextRec
          /\ u.conn = t.conn /\ u.wa = t.wa /\ Fit(u)
      BY <1>4, <1>5, <1>6
    <2> HIDE DEF u
    <2>3. Ledger(u, Others(p))
      BY <1>2, <2>2 DEF Ledger
    <2>4. \A r : Visible(u, r) = Visible(t, r)
      BY <2>2 DEF Visible
    <2>5. \A a \in Area : AreaGood(u, u.wa[a])
      BY <1>1, <2>2, <2>4 DEF Good, AreaGood
    <2> QED BY <2>1, <2>2, <2>3, <2>5 DEF Good, u
  <1>11. ASSUME NEW q \in Proc \ {p}
         PROVE  Good(Own(q)', Others(q)')
    <2> DEFINE s == Own(q)
               u == Own(q)'
               O == Others(q)
               N == Others(q)'
    <2>1. /\ Good(s, O) /\ Fit(s) /\ s.conn = conn[q] /\ s.wa = wa[q]
          /\ s.nextRec = nextRec /\ s.row = row /\ s.done = done
      BY OwnGood
    <2>2. /\ Own(p).nextRec = nextRec /\ Own(p).row = row /\ Own(p).done = done
          /\ Ledger(Own(p), Others(p))
      BY OwnGood DEF Good
    <2>3. /\ u.row = t.row /\ u.done = t.done /\ u.nextRec = t.nextRec
          /\ u.conn = s.conn /\ u.wa = s.wa /\ Fit(u)
      BY <1>4, <1>5, <1>6, <2>1
    <2>4. s.conn.held \subseteq Others(p) /\ s.conn.held \subseteq Rec
      BY <1>8, <1>9, <2>1
    <2>5. \A r \in N : r \in t.conn.held \/ r \in O
      BY <1>4, <1>7, <1>8
    <2>6. /\ t.nextRec >= s.nextRec
          /\ \A r \in Rec : t.row[r] >= s.row[r]
          /\ \A r \in s.conn.held : t.row[r] = s.row[r] /\ t.done[r] = s.done[r]
      BY <1>1, <2>1, <2>2, <2>4 DEF Grows
    <2> HIDE DEF s, u, O, N
    <2>7. Ledger(s, O)
      BY <2>1 DEF Good
    <2>8. u.conn.held \cap N = {}
      <3>1. s.conn.held \cap t.conn.held = {}
        BY <1>2, <2>4 DEF Ledger
      <3> QED BY <2>3, <2>5, <2>7, <3>1 DEF Ledger
    <2>9. Ledger(u, N)
      <3> SUFFICES ASSUME NEW r \in Rec
                   PROVE  /\ u.row[r] # 0 => u.row[r] = 1 + u.done[r]
                          /\ u.conn.change[r] # 0 =>
                                /\ r \in u.conn.held
                                /\ u.conn.change[r] = 1 + u.done[r] + u.conn.edits[r]
                          /\ u.conn.change[r] = 0 => u.conn.edits[r] = 0
                          /\ r >= u.nextRec => /\ u.row[r] = 0 /\ u.done[r] = 0
                                               /\ u.conn.change[r] = 0
                                               /\ r \notin u.conn.held /\ r \notin N
        BY <2>8 DEF Ledger
      <3>1. t.row[r] # 0 => t.row[r] = 1 + t.done[r]
        BY <1>2 DEF Ledger
      <3>2. s.conn.change[r] # 0 => /\ r \in s.conn.held
                                    /\ s.conn.change[r] = 1 + t.done[r] + s.conn.edits[r]
        BY <2>6, <2>7 DEF Ledger
      <3>3. s.conn.change[r] = 0 => s.conn.edits[r] = 0
        BY <2>7 DEF Ledger
      <3>4. r >= t.nextRec => t.row[r] = 0 /\ t.done[r] = 0 /\ r \notin t.conn.held
        BY <1>2 DEF Ledger
      <3>5. r >= t.nextRec => r >= s.nextRec
        <4>1. r \in Nat /\ s.nextRec \in Nat
          BY <2>1, FitTypes, ConstantsOK DEF Rec
        <4> QED BY <1>2, <2>6, <4>1
      <3>6. r >= s.nextRec => s.conn.change[r] = 0 /\ r \notin s.conn.held /\ r \notin O
        BY <2>7 DEF Ledger
      <3> QED BY <2>3, <2>5, <3>1, <3>2, <3>3, <3>4, <3>5, <3>6
    <2>10. ASSUME NEW r \in Rec
           PROVE  /\ Visible(u, r) >= Visible(s, r)
                  /\ r \in s.conn.held => Visible(u, r) = Visible(s, r)
      <3>1. s.row[r] \in 0..MaxValue /\ u.row[r] \in 0..MaxValue
            /\ s.conn.change[r] \in 0..MaxValue /\ MaxValue \in Nat
        BY <2>1, <2>3, FitTypes, ConstantsOK
      <3>2. u.row[r] >= s.row[r] /\ (r \in s.conn.held => u.row[r] = s.row[r])
        BY <2>3, <2>6
      <3>3. u.conn.change[r] = s.conn.change[r]
        BY <2>3
      <3> QED BY <3>1, <3>2, <3>3 DEF Visible
    <2>11. \A a \in Area : AreaGood(u, u.wa[a])
      <3> SUFFICES ASSUME NEW a \in Area PROVE AreaGood(u, s.wa[a])
        BY <2>3
      <3>1. AreaGood(s, s.wa[a]) /\ s.wa[a] \in AreaState
        BY <2>1, FitTypes DEF Good
      <3>2. \A r \in s.conn.held : Visible(u, r) = Visible(s, r)
        BY <2>4, <2>10
      <3> QED BY <2>1, <2>3, <2>10, <3>1, <3>2, AreaStaysGood
    <2> QED BY <2>3, <2>9, <2>11 DEF Good, u, N
  <1>12. \A q \in Proc : Good(Own(q)', Others(q)')
    BY <1>10, <1>11
  <1>13. \A q \in Proc : Good(Own(q), Others(q))'
    <2> SUFFICES ASSUME NEW q \in Proc PROVE Good(Own(q), Others(q))'
      OBVIOUS
    <2>1. Good(Own(q)', Others(q)')
      BY <1>12
    <2> QED BY <2>1 DEF Good, Fit, Ledger, AreaGood, FitArea, Visible
  <1>14. NoLostUpdate'
    <2>1. \A r \in Rec : t.row[r] # 0 => t.row[r] = 1 + t.done[r]
      BY <1>2 DEF Ledger
    <2> QED BY <1>4, <2>1 DEF NoLostUpdate
  <1> QED BY <1>3, <1>13, <1>14 DEF GoodInv

LEMMA AfterGood ==
    ASSUME CarefulUse, GoodInv, NEW p \in Proc, NEW a \in Area, Enter(p, a)
    PROVE  LET c == GoCold(Own(p), a)
           IN  /\ Good(c, Others(p)) /\ Grows(Own(p), c, Others(p))
               /\ Fit(c) /\ FitArea(c.wa[a]) /\ c.wa[a] \in AreaState
               /\ ~c.wa[a].hot /\ ~c.wa[a].isInsert
               /\ ~wa[p][a].isInsert => c.wa[a].cur = wa[p][a].cur
  <1> DEFINE s == Own(p)
             O == Others(p)
  <1>1. Good(s, O) /\ CanWrite(s, a)
    BY OwnGood, EnterWrites
  <1>2. LET c == GoCold(s, a)
        IN  /\ Fit(c) /\ FitArea(c.wa[a]) /\ c.wa[a] \in AreaState
            /\ ~wa[p][a].isInsert => c.wa[a].cur = wa[p][a].cur
    BY AfterGoCold DEF GoodInv
  <1> HIDE DEF s, O
  <1>3. LET c == GoCold(s, a)
        IN  Good(c, O) /\ Grows(s, c, O) /\ ~c.wa[a].hot /\ ~c.wa[a].isInsert
    BY <1>1, GoColdGood
  <1> QED BY <1>2, <1>3 DEF s, O

LEMMA ThenGood ==
    ASSUME CarefulUse, GoodInv, NEW p \in Proc, NEW a \in Area, Enter(p, a), NEW t,
           Good(t, Others(p)), Grows(GoCold(Own(p), a), t, Others(p)), Becomes(p, t)
    PROVE  GoodMoves(p)
  <1> DEFINE s == Own(p)
             c == GoCold(s, a)
             O == Others(p)
  <1>1. Fit(s) /\ Fit(c) /\ Fit(t) /\ Grows(s, c, O)
    BY OwnGood, AfterGood DEF Good
  <1> HIDE DEF s, c
  <1>2. Grows(s, t, O)
    BY <1>1, GrowsOn DEF s, c
  <1> QED BY <1>2 DEF GoodMoves, s

LEMMA OpenGood ==
    ASSUME GoodInv, NEW p \in Proc, NEW a \in Area, Open(p, a)
    PROVE  GoodMoves(p)
  <1> DEFINE s == Own(p)
             O == Others(p)
             v(r) == [Closed EXCEPT !.open = TRUE, !.cur = r, !.buf = Seen(p, s, r),
                                    !.page = AllSeen(p, s)]
  <1>1. Good(s, O) /\ Fit(s) /\ s \in State
    BY OwnGood DEF Fit
  <1>2. PICK r \in Rec : Becomes(p, Put(s, a, v(r)))
    BY DEF Open, Put
  <1> HIDE DEF s, O
  <1>3. /\ v(r).open /\ v(r).cur = r /\ v(r).buf = Seen(p, s, r) /\ v(r).page = AllSeen(p, s)
        /\ v(r).aLocked = {} /\ ~v(r).hot /\ ~v(r).isInsert /\ v(r).typed = 0
    BY DEF Closed
  <1>4. /\ AllSeen(p, s) \in Values /\ Seen(p, s, r) \in 0..MaxValue
        /\ ~ReadUncommitted => /\ Seen(p, s, r) = Visible(s, r)
                               /\ \A x \in Rec : AllSeen(p, s)[x] = Visible(s, x)
        /\ MaxValue \in Nat /\ \A x \in Rec : Visible(s, x) \in 0..MaxValue
    BY <1>1, FitTypes, SeenType, AllSeenType, ConstantsOK DEF GoodInv
  <1>5. FitArea(v(r))
    <2>1. r \in 0..MaxRecord
      BY ConstantsOK DEF Rec
    <2>2. v(r) \in AreaState
      BY <1>4, <2>1, ClosedTypes DEF AreaState, Values, Closed
    <2> HIDE DEF v
    <2> QED BY <1>3, <2>2 DEF FitArea
  <1> HIDE DEF v
  <1>6. AreaGood(s, v(r))
    <2>1. ~ReadUncommitted => v(r).buf <= Visible(s, r)
      BY <1>3, <1>4
    <2>2. ~ReadUncommitted => \A x \in Rec : v(r).page[x] <= Visible(s, x)
      BY <1>3, <1>4
    <2> QED BY <1>3, <2>1, <2>2 DEF AreaGood
  <1>7. Good(Put(s, a, v(r)), O) /\ Grows(s, Put(s, a, v(r)), O)
    BY <1>1, <1>5, <1>6, PutGood
  <1> QED BY <1>2, <1>7 DEF GoodMoves, s, O

LEMMA GoToGood ==
    ASSUME CarefulUse, GoodInv, NEW p \in Proc, NEW a \in Area, NEW r \in Rec,
           GoTo(p, a, r) \/ ReadPage(p, a, r) \/ SkipCached(p, a, r)
    PROVE  GoodMoves(p)
  <1> DEFINE s == Own(p)
             O == Others(p)
             w == s.wa[a]
             Bounded(g) == ~ReadUncommitted => \A x \in Rec : g[x] <= Visible(s, x)
  <1>1. Enter(p, a) /\ MayMove(p, a)
    BY DEF GoTo, ReadPage, SkipCached
  <1>2. Good(s, O) /\ Fit(s) /\ AreaGood(s, w) /\ FitArea(w) /\ w \in AreaState /\ s.wa = wa[p]
    BY OwnGood
  <1>3. w.aLocked = {} /\ ~w.hot /\ ~w.isInsert
    BY <1>1, <1>2 DEF MayMove, CarefulUse, Settled
  <1>4. w.open
    BY <1>1, <1>2 DEF Enter
  <1>5. GoCold(s, a) = s
    BY <1>3 DEF GoCold
  <1>6. \E page \in Values : /\ Bounded(page)
                             /\ Becomes(p, StandOn(s, a, r, page))
    <2>1. /\ AllSeen(p, s) \in Values /\ Seen(p, s, r) \in 0..MaxValue
          /\ ~ReadUncommitted => /\ Seen(p, s, r) = Visible(s, r)
                                 /\ \A x \in Rec : AllSeen(p, s)[x] = Visible(s, x)
          /\ MaxValue \in Nat /\ \A x \in Rec : Visible(s, x) \in 0..MaxValue
      <3>1. s \in State
        BY <1>2, FitTypes
      <3> HIDE DEF s
      <3> QED BY <1>2, <3>1, FitTypes, SeenType, AllSeenType, ConstantsOK DEF GoodInv
    <2>2. \/ Becomes(p, StandOn(s, a, r, [NoRow EXCEPT ![r] = Seen(p, s, r)]))
          \/ Becomes(p, StandOn(s, a, r, AllSeen(p, s)))
          \/ Becomes(p, StandOn(s, a, r, w.page))
      BY <1>5 DEF GoTo, ReadPage, SkipCached
    <2> DEFINE one == [NoRow EXCEPT ![r] = Seen(p, s, r)]
    <2> HIDE DEF s, w
    <2>3. one \in Values /\ Bounded(one)
      <3> DEFINE k == Seen(p, s, r)
      <3>1. k \in 0..MaxValue /\ (~ReadUncommitted => k = Visible(s, r))
        BY <2>1
      <3>2. \A x \in Rec : one[x] = IF x = r THEN k ELSE 0
        BY DEF NoRow
      <3>3. one = [x \in Rec |-> IF x = r THEN k ELSE 0]
        BY DEF NoRow
      <3> HIDE DEF k, one
      <3>4. Bounded(one)
        BY <2>1, <3>1, <3>2
      <3>5. one \in Values
        BY <2>1, <3>1, <3>3 DEF Values
      <3> QED BY <3>4, <3>5
    <2>4. AllSeen(p, s) \in Values /\ Bounded(AllSeen(p, s))
      BY <2>1
    <2>5. w.page \in Values /\ Bounded(w.page)
      BY <1>2 DEF AreaState, AreaGood, Values
    <2> HIDE DEF one
    <2> QED BY <2>2, <2>3, <2>4, <2>5 DEF one
  <1>7. PICK page \in Values : /\ Bounded(page)
                               /\ Becomes(p, StandOn(s, a, r, page))
    BY <1>6
  <1> DEFINE v == [w EXCEPT !.cur = r, !.buf = page[r], !.page = page]
  <1>8. StandOn(s, a, r, page) = Put(s, a, v)
    BY DEF StandOn, Put
  <1> HIDE DEF s, w, O
  <1>9. /\ v.open /\ v.cur = r /\ v.buf = page[r] /\ v.page = page
        /\ v.aLocked = {} /\ ~v.hot /\ ~v.isInsert /\ v.typed = w.typed
        /\ FitArea(v)
    <2>1. r \in 0..MaxRecord /\ page[r] \in 0..MaxValue /\ r # 0
      BY ConstantsOK DEF Rec, Values
    <2> QED BY <1>2, <1>3, <1>4, <2>1 DEF AreaState, FitArea, Values
  <1> HIDE DEF v
  <1>10. AreaGood(s, v)
    <2>1. w.typed = 0
      BY <1>2, <1>3 DEF AreaGood
    <2> QED BY <1>7, <1>9, <2>1 DEF AreaGood
  <1>11. Good(Put(s, a, v), O) /\ Grows(s, Put(s, a, v), O)
    BY <1>2, <1>9, <1>10, PutGood
  <1> QED BY <1>7, <1>8, <1>11 DEF GoodMoves, s, O

LEMMA LockGood ==
    ASSUME CarefulUse, GoodInv, NEW p \in Proc, NEW a \in Area,
           RLock(p, a) \/ \E r \in Rec : DbRLock(p, a, r)
    PROVE  GoodMoves(p)
  <1> DEFINE c == GoCold(Own(p), a)
             u == IF c.wa[a].aLocked = {} THEN c ELSE Released(c, a)
             O == Others(p)
             cr == c.wa[a].cur
  <1>1. Enter(p, a) /\ wa[p][a].cur # 0 /\ ~wa[p][a].isInsert
    BY DEF RLock, DbRLock
  <1>2. /\ Good(c, O) /\ Fit(c) /\ c.wa[a] \in AreaState /\ cr # 0
        /\ ~c.wa[a].hot /\ ~c.wa[a].isInsert
    BY <1>1, AfterGood
  <1>3. \/ Becomes(p, c)
        \/ Becomes(p, ForUpdate(p, u, a, cr))
        \/ \E r \in Rec : Becomes(p, ForUpdate(p, c, a, r))
    BY DEF RLock, DbRLock
  <1>4. \A r \in Rec : ~HeldByOther(p, r) => r \notin O
    BY DEF Others
  <1> HIDE DEF c, O
  <1>5. c.wa[a].open
    BY <1>2 DEF Good, AreaGood, Idle
  <1>6. cr \in Rec
    BY <1>2, ConstantsOK DEF AreaState, Rec
  <1>7. Good(u, O) /\ Grows(c, u, O) /\ ~u.wa[a].hot /\ ~u.wa[a].isInsert
    BY <1>2, ReleasedGood, GrowsSelf
  <1>8. u.wa[a].open
    <2>1. u.wa[a].cur = cr
      BY <1>2, ReleasedFits
    <2> HIDE DEF u
    <2> QED BY <1>2, <1>7, <2>1 DEF Good, AreaGood, Idle
  <1> HIDE DEF u, cr
  <1>9. CASE Becomes(p, c)
    BY <1>1, <1>2, <1>9, ThenGood, GrowsSelf DEF c, O
  <1>10. CASE Becomes(p, ForUpdate(p, u, a, cr))
    <2> DEFINE t == ForUpdate(p, u, a, cr)
    <2>1. Good(t, O) /\ Grows(u, t, O)
      BY <1>4, <1>6, <1>7, <1>8, ForUpdateGood
    <2> HIDE DEF t
    <2>2. Grows(c, t, O)
      BY <1>2, <1>7, <2>1, GrowsOn DEF Good
    <2> QED BY <1>1, <1>10, <2>1, <2>2, ThenGood DEF c, O, t
  <1>11. CASE \E r \in Rec : Becomes(p, ForUpdate(p, c, a, r))
    <2>1. PICK r \in Rec : Becomes(p, ForUpdate(p, c, a, r))
      BY <1>11
    <2> DEFINE t == ForUpdate(p, c, a, r)
    <2>2. Good(t, O) /\ Grows(c, t, O)
      BY <1>2, <1>4, <1>5, ForUpdateGood
    <2> HIDE DEF t
    <2> QED BY <1>1, <2>1, <2>2, ThenGood DEF c, O, t
  <1> QED BY <1>3, <1>9, <1>10, <1>11

LEMMA FLockGood ==
    ASSUME CarefulUse, GoodInv, NEW p \in Proc, NEW a \in Area, FLock(p, a)
    PROVE  GoodMoves(p)
  <1> DEFINE c == GoCold(Own(p), a)
             O == Others(p)
             w == c.wa[a]
             v(f) == [w EXCEPT !.aLocked = {}, !.lTableLocked = w.lTableLocked \/ f]
             t(f) == Put(c, a, v(f))
  <1>1. PICK f \in BOOLEAN : Becomes(p, t(f))
    BY DEF FLock, Put
  <1>2. Enter(p, a)
    BY DEF FLock
  <1>3. Good(c, O) /\ FitArea(w) /\ w \in AreaState /\ ~w.hot
    BY <1>2, AfterGood
  <1> HIDE DEF c, O
  <1>4. AreaGood(c, w)
    BY <1>3 DEF Good
  <1> HIDE DEF w
  <1>5. /\ v(f).open = w.open /\ v(f).cur = w.cur /\ v(f).buf = w.buf /\ v(f).typed = w.typed
        /\ v(f).hot = w.hot /\ v(f).isInsert = w.isInsert /\ v(f).aLocked = {}
        /\ v(f).page = w.page /\ FitArea(v(f))
    BY <1>3 DEF AreaState, FitArea
  <1> HIDE DEF v
  <1>6. AreaGood(c, v(f))
    BY <1>3, <1>4, <1>5 DEF AreaGood, Idle
  <1>7. Good(t(f), O) /\ Grows(c, t(f), O)
    BY <1>3, <1>5, <1>6, PutGood
  <1> HIDE DEF t
  <1> QED BY <1>1, <1>2, <1>7, ThenGood DEF c, O

LEMMA UnlockGood ==
    ASSUME CarefulUse, GoodInv, NEW p \in Proc, NEW a \in Area, Unlock(p, a)
    PROVE  GoodMoves(p)
  <1> DEFINE c == GoCold(Own(p), a)
             O == Others(p)
             t == Released(c, a)
  <1>1. Enter(p, a) /\ Becomes(p, t)
    BY DEF Unlock
  <1>2. Good(c, O) /\ ~c.wa[a].hot /\ ~c.wa[a].isInsert
    BY <1>1, AfterGood
  <1> HIDE DEF c, O
  <1>3. Good(t, O) /\ Grows(c, t, O)
    BY <1>2, ReleasedGood
  <1> HIDE DEF t
  <1> QED BY <1>1, <1>3, ThenGood DEF c, O

LEMMA FlushGood ==
    ASSUME CarefulUse, GoodInv, NEW p \in Proc, NEW a \in Area, Flush(p, a) \/ Close(p, a)
    PROVE  GoodMoves(p)
  <1> DEFINE s == Own(p)
             O == Others(p)
             t == Flushed(s, a)
             u == Put(t, a, Closed)
  <1>1. Enter(p, a) /\ (Becomes(p, t) \/ Becomes(p, u))
    BY DEF Flush, Close, Put
  <1>2. Good(s, O) /\ Fit(s) /\ CanWrite(s, a)
    BY <1>1, OwnGood, EnterWrites
  <1> HIDE DEF s, O
  <1>3. Good(t, O) /\ Grows(s, t, O)
    BY <1>2, FlushedGood
  <1> HIDE DEF t
  <1>4. Good(u, O) /\ Grows(t, u, O)
    <2>1. FitArea(Closed)
      BY ClosedTypes DEF FitArea, Closed
    <2>2. AreaGood(t, Closed)
      <3>1. MaxValue \in Nat /\ \A r \in Rec : Visible(t, r) \in 0..MaxValue
        BY <1>3, FitTypes, ConstantsOK DEF Good
      <3>2. \A r \in Rec : 0 <= Visible(t, r) /\ NoRow[r] = 0
        BY <3>1 DEF NoRow
      <3> QED BY <3>2 DEF AreaGood, Closed, Idle
    <2> QED BY <1>3, <2>1, <2>2, PutGood
  <1> HIDE DEF u
  <1>5. Grows(s, u, O)
    BY <1>2, <1>3, <1>4, GrowsOn DEF Good
  <1> QED BY <1>1, <1>3, <1>4, <1>5 DEF GoodMoves, s, O

LEMMA ReplaceGood ==
    ASSUME CarefulUse, GoodInv, NEW p \in Proc, NEW a \in Area, Replace(p, a)
    PROVE  GoodMoves(p)
  <1> DEFINE s == Own(p)
             O == Others(p)
             w == wa[p][a]
             b == w.buf + 1
             n == Counted(w.typed, 1)
             v == [w EXCEPT !.buf = b, !.hot = TRUE, !.typed = n]
             t == Put(s, a, v)
  <1>1. /\ w.open /\ (w.cur # 0 \/ w.isInsert)
        /\ w.isInsert \/ w.cur \in w.aLocked
        /\ w.buf < MaxValue
        /\ Becomes(p, t)
    BY DEF Replace, Put, CarefulUse
  <1>2. Good(s, O) /\ Fit(s) /\ AreaGood(s, w) /\ FitArea(w) /\ w \in AreaState
    BY OwnGood
  <1> HIDE DEF s, O, w
  <1>3. /\ w.buf \in 0..MaxValue /\ w.typed \in 0..MaxValue /\ MaxValue \in Nat
        /\ w.aLocked \subseteq Rec /\ \A r \in Rec : Visible(s, r) \in 0..MaxValue
    BY <1>2, FitTypes, ConstantsOK DEF AreaState
  <1>4. w.isInsert => w.hot /\ w.buf = 1 + w.typed
    BY <1>2 DEF AreaGood
  <1>5. ~w.isInsert => /\ w.cur \in s.conn.held /\ w.cur \in Rec /\ Visible(s, w.cur) # 0
                       /\ w.buf = Visible(s, w.cur) + w.typed
    <2> SUFFICES ASSUME ~w.isInsert
                 PROVE  /\ w.cur \in s.conn.held /\ w.cur \in Rec /\ Visible(s, w.cur) # 0
                        /\ w.buf = Visible(s, w.cur) + w.typed
      OBVIOUS
    <2>1. w.cur \in w.aLocked /\ w.cur \in Rec
      BY <1>1, <1>3
    <2>2. w.cur \in s.conn.held /\ Visible(s, w.cur) # 0
      BY <1>2, <2>1 DEF AreaGood
    <2>3. CASE w.hot
      BY <1>2, <2>1, <2>2, <2>3 DEF AreaGood
    <2>4. CASE ~w.hot
      <3>1. w.buf = Visible(s, w.cur) /\ w.typed = 0
        BY <1>2, <2>1, <2>4 DEF AreaGood
      <3>2. Visible(s, w.cur) \in 0..MaxValue
        BY <1>3, <2>1
      <3> QED BY <1>3, <2>1, <2>2, <3>1, <3>2
    <2> QED BY <2>3, <2>4
  <1>6. n = w.typed + 1 /\ n \in 0..MaxValue /\ b \in 0..MaxValue
    <2>1. w.typed + 1 <= MaxValue
      BY <1>1, <1>3, <1>4, <1>5
    <2> QED BY <1>1, <1>3, <2>1 DEF Counted
  <1>7. /\ w.isInsert => b = 1 + n
        /\ ~w.isInsert => b = Visible(s, w.cur) + n
    BY <1>3, <1>4, <1>5, <1>6
  <1> HIDE DEF b, n
  <1>8. /\ v.open = w.open /\ v.cur = w.cur /\ v.buf = b /\ v.typed = n /\ v.hot
        /\ v.isInsert = w.isInsert /\ v.aLocked = w.aLocked /\ v.page = w.page
        /\ v \in AreaState
    BY <1>2, <1>6 DEF AreaState
  <1> HIDE DEF v
  <1>9. FitArea(v)
    BY <1>1, <1>8 DEF FitArea
  <1>10. AreaGood(s, v)
    BY <1>1, <1>2, <1>5, <1>7, <1>8 DEF AreaGood
  <1>11. Good(t, O) /\ Grows(s, t, O)
    BY <1>2, <1>9, <1>10, PutGood
  <1> HIDE DEF t
  <1> QED BY <1>1, <1>11 DEF GoodMoves, s, O

LEMMA AppendGood ==
    ASSUME CarefulUse, GoodInv, NEW p \in Proc, NEW a \in Area, Append(p, a)
    PROVE  GoodMoves(p)
  <1> DEFINE s == Own(p)
             O == Others(p)
             w == s.wa[a]
             x == [w EXCEPT !.aLocked = {}]
             b == Put(s, a, x)
             c == GoCold(b, a)
             y == c.wa[a]
             v == [y EXCEPT !.hot = TRUE, !.isInsert = TRUE, !.cur = 0, !.buf = 1, !.typed = 0]
             t == Put(c, a, v)
  <1>1. Enter(p, a) /\ Becomes(p, t)
    BY DEF Append, Put
  <1>2. /\ Good(s, O) /\ Fit(s) /\ AreaGood(s, w) /\ FitArea(w) /\ w \in AreaState
        /\ CanWrite(s, a) /\ w.open
    BY <1>1, OwnGood, EnterWrites DEF Enter
  <1> HIDE DEF s, O
  <1>3. /\ x.open = w.open /\ x.cur = w.cur /\ x.buf = w.buf /\ x.typed = w.typed
        /\ x.hot = w.hot /\ x.isInsert = w.isInsert /\ x.aLocked = {} /\ x.page = w.page
        /\ FitArea(x)
    BY <1>2 DEF AreaState, FitArea
  <1> HIDE DEF x
  <1>4. AreaGood(s, x)
    <2> HIDE DEF w
    <2> QED BY <1>2, <1>3 DEF AreaGood
  <1>5. Good(b, O) /\ Grows(s, b, O) /\ Fit(b) /\ b.wa[a] = x /\ CanWrite(b, a)
    <2>1. Good(b, O) /\ Grows(s, b, O)
      BY <1>2, <1>3, <1>4, PutGood
    <2>2. Fit(b) /\ b.wa[a] = x /\ b.nextRec = s.nextRec
      BY <1>2, <1>3, PutFits
    <2> QED BY <1>2, <1>3, <2>1, <2>2 DEF CanWrite
  <1> HIDE DEF b
  <1>6. Good(c, O) /\ Grows(b, c, O) /\ Fit(c) /\ y.open
    <2>1. Good(c, O) /\ Grows(b, c, O)
      BY <1>5, GoColdGood
    <2>2. Fit(c) /\ y.open = b.wa[a].open
      BY <1>5, GoColdFits
    <2> QED BY <1>2, <1>3, <1>5, <2>1, <2>2
  <1> HIDE DEF c
  <1>7. y \in AreaState /\ AreaGood(c, y)
    BY <1>6, FitTypes DEF Good
  <1> HIDE DEF y
  <1>8. /\ v.open /\ v.buf = 1 /\ v.typed = 0 /\ v.hot /\ v.isInsert
        /\ v.aLocked = y.aLocked /\ v.page = y.page /\ FitArea(v)
    <2>1. 0 \in 0..MaxValue /\ 1 \in 0..MaxValue /\ 0 \in 0..MaxRecord
      BY ConstantsOK
    <2> QED BY <1>6, <1>7, <2>1 DEF AreaState, FitArea
  <1> HIDE DEF v
  <1>9. AreaGood(c, v)
    BY <1>7, <1>8 DEF AreaGood
  <1>10. Good(t, O) /\ Grows(c, t, O) /\ Fit(t)
    BY <1>6, <1>8, <1>9, PutGood DEF Good
  <1> HIDE DEF t
  <1>11. Grows(s, t, O)
    <2>1. Grows(s, c, O)
      BY <1>2, <1>5, <1>6, GrowsOn
    <2> QED BY <1>2, <1>6, <1>10, <2>1, GrowsOn
  <1> QED BY <1>1, <1>10, <1>11 DEF GoodMoves, s, O

LEMMA CountingGood ==
    ASSUME NEW s, NEW O, Good(s, O), NEW n \in 0..MaxDepth
    PROVE  LET t == PutConn(s, Counting(s.conn, n))
           IN  Good(t, O) /\ Grows(s, t, O)
  <1> DEFINE c == Counting(s.conn, n)
             t == PutConn(s, c)
  <1>1. Fit(s) /\ Ledger(s, O) /\ s.conn \in Connection
    BY FitTypes DEF Good
  <1>2. /\ c \in Connection /\ c.held = s.conn.held
        /\ c.change = s.conn.change /\ c.edits = s.conn.edits
    BY <1>1 DEF Connection, Counting
  <1> HIDE DEF c
  <1>3. /\ Fit(t) /\ t.conn = c /\ t.row = s.row /\ t.done = s.done
        /\ t.nextRec = s.nextRec /\ t.wa = s.wa
    BY <1>1, <1>2, PutConnFits
  <1> HIDE DEF t
  <1>4. Ledger(t, O)
    BY <1>1, <1>2, <1>3 DEF Ledger
  <1>5. \A r : Visible(t, r) = Visible(s, r)
    BY <1>2, <1>3 DEF Visible
  <1>6. ASSUME NEW a \in Area PROVE AreaGood(t, t.wa[a])
    <2>1. AreaGood(s, t.wa[a])
      BY <1>3 DEF Good
    <2> QED BY <1>2, <1>3, <1>5, <2>1 DEF AreaGood
  <1>7. Grows(s, t, O)
    BY <1>1, <1>3, FitTypes DEF Grows
  <1> QED BY <1>3, <1>4, <1>6, <1>7 DEF Good, t, c

LEMMA SettledGood ==
    ASSUME CarefulUse, GoodInv, NEW p \in Proc, MayTransact(p)
    PROVE  \A a \in Area : /\ wa[p][a].aLocked = {} /\ ~wa[p][a].hot /\ ~wa[p][a].isInsert
                           /\ wa[p][a].typed = 0
  BY OwnGood DEF MayTransact, Settled, CarefulUse, AreaGood

LEMMA BlockGood ==
    ASSUME CarefulUse, GoodInv, NEW p \in Proc,
           SR_BeginTransaction(p) \/ SR_CommitTransaction(p) \/ SR_EndTransaction(p)
    PROVE  GoodMoves(p)
  <1> DEFINE s == Own(p)
             O == Others(p)
             k == s.conn.nTransacCount
             d == Commit(s)
             t(u, n) == PutConn(u, Counting(u.conn, n))
  <1>1. Good(s, O) /\ Fit(s) /\ k \in 0..MaxDepth /\ s.wa = wa[p]
    BY OwnGood DEF Fit, State, Connection
  <1>2. \/ k < MaxDepth /\ Becomes(p, t(d, d.conn.nTransacCount + 1))
        \/ k < MaxDepth /\ Becomes(p, t(s, k + 1))
        \/ k > 0 /\ Becomes(p, t(d, d.conn.nTransacCount - 1))
        \/ k > 0 /\ Becomes(p, t(s, k - 1))
        \/ Becomes(p, t(d, 0))
    <2>1. CASE SR_BeginTransaction(p)
      BY <2>1 DEF SR_BeginTransaction, PutConn, Counting
    <2>2. CASE SR_CommitTransaction(p)
      BY <2>2 DEF SR_CommitTransaction, PutConn, Counting
    <2>3. CASE SR_EndTransaction(p)
      BY <2>3 DEF SR_EndTransaction, PutConn, Counting
    <2> QED BY <2>1, <2>2, <2>3
  <1>3. MayTransact(p)
    BY DEF SR_BeginTransaction, SR_CommitTransaction, SR_EndTransaction
  <1>4. Good(d, O) /\ Grows(s, d, O) /\ d.conn.nTransacCount = k
    <2>1. \A a \in Area : s.wa[a].aLocked = {} /\ (s.wa[a].hot => s.wa[a].isInsert)
      BY <1>1, <1>3, SettledGood
    <2> HIDE DEF s, O
    <2> QED BY <1>1, <2>1, CommitGood, CommitFits
  <1> HIDE DEF s, k, d, O
  <1>5. MaxDepth \in Nat
    BY ConstantsOK
  <1>6. \E n \in 0..MaxDepth : Becomes(p, t(d, n)) \/ Becomes(p, t(s, n))
    BY <1>1, <1>2, <1>4, <1>5
  <1>7. PICK n \in 0..MaxDepth : Becomes(p, t(d, n)) \/ Becomes(p, t(s, n))
    BY <1>6
  <1>8. Good(t(d, n), O) /\ Grows(d, t(d, n), O) /\ Good(t(s, n), O) /\ Grows(s, t(s, n), O)
    BY <1>1, <1>4, CountingGood
  <1> HIDE DEF t
  <1>9. Grows(s, t(d, n), O)
    BY <1>1, <1>4, <1>8, GrowsOn DEF Good
  <1> QED BY <1>7, <1>8, <1>9 DEF GoodMoves, s, O

(* A connection that starts again, and areas that stand nowhere. *)
LEMMA AfreshGood ==
    ASSUME NEW s, NEW O, Good(s, O), NEW t, Fit(t), t.row = s.row, t.done = s.done,
           t.nextRec = s.nextRec, t.conn.change = NoRow, t.conn.edits = NoRow, t.conn.held = {},
           \A a \in Area : Idle(t.wa[a]) /\ t.wa[a].typed = 0
    PROVE  Good(t, O) /\ Grows(s, t, O)
  <1>1. Fit(s) /\ Ledger(s, O) /\ \A r \in Rec : NoRow[r] = 0
    BY DEF Good, NoRow
  <1>2. Ledger(t, O)
    BY <1>1 DEF Ledger
  <1>3. \A r \in Rec : 0 <= Visible(t, r)
    <2>1. MaxValue \in Nat /\ \A r \in Rec : Visible(t, r) \in 0..MaxValue
      BY FitTypes, ConstantsOK
    <2> QED BY <2>1
  <1>4. \A a \in Area : AreaGood(t, t.wa[a])
    BY <1>1, <1>3 DEF AreaGood, Idle
  <1>5. Grows(s, t, O)
    BY <1>1, FitTypes DEF Grows
  <1> QED BY <1>2, <1>4, <1>5 DEF Good

LEMMA RollBackGood ==
    ASSUME CarefulUse, GoodInv, NEW p \in Proc, SR_RollBackTransaction(p)
    PROVE  GoodMoves(p)
  <1> DEFINE s == Own(p)
             O == Others(p)
             W == [a \in Area |-> Refreshed(s.wa[a])]
             u == [s EXCEPT !.conn.nTransacCount = 0, !.wa = W]
             t == RollBack(u)
  <1>1. Good(s, O) /\ Fit(s) /\ s \in State /\ s.wa = wa[p]
    BY OwnGood DEF Fit
  <1>2. Becomes(p, t) /\ MayTransact(p)
    BY DEF SR_RollBackTransaction
  <1>3. \A a \in Area : /\ s.wa[a].aLocked = {} /\ ~s.wa[a].hot /\ ~s.wa[a].isInsert
                        /\ s.wa[a].typed = 0
    BY <1>1, <1>2, SettledGood
  <1> HIDE DEF s, O
  <1>4. ASSUME NEW a \in Area
        PROVE  FitArea(W[a]) /\ W[a] \in AreaState /\ Idle(W[a]) /\ W[a].typed = 0
    <2> DEFINE w == s.wa[a]
    <2>1. w \in AreaState /\ FitArea(w) /\ AreaGood(s, w)
      BY <1>1, FitTypes DEF Fit, Good
    <2>2. NoRow \in [Rec -> 0..MaxValue] /\ 0 \in 0..MaxValue /\ 0 \in 0..MaxRecord
      BY ConstantsOK, ClosedTypes DEF Values
    <2>3. w.aLocked = {} /\ ~w.hot /\ ~w.isInsert /\ w.typed = 0
      BY <1>3
    <2>4. W[a] = Refreshed(w)
      OBVIOUS
    <2> HIDE DEF w, W
    <2>5. CASE ~w.open
      <3>1. Refreshed(w) = w /\ Idle(w)
        BY <2>1, <2>5 DEF Refreshed, AreaGood
      <3> QED BY <2>1, <2>3, <2>4, <3>1
    <2>6. CASE w.open
      <3> DEFINE v == [w EXCEPT !.hot = FALSE, !.typed = 0, !.cur = 0, !.buf = 0, !.page = NoRow]
      <3>1. Refreshed(w) = v
        BY <2>6 DEF Refreshed
      <3>2. /\ v \in AreaState /\ ~v.hot /\ ~v.isInsert /\ v.aLocked = {} /\ v.cur = 0
            /\ v.typed = 0 /\ v.page = NoRow
        BY <2>1, <2>2, <2>3 DEF AreaState
      <3> HIDE DEF v
      <3> QED BY <2>4, <3>1, <3>2 DEF FitArea, Idle
    <2> QED BY <2>5, <2>6
  <1>5. W \in [Area -> AreaState]
    BY <1>4
  <1> HIDE DEF W
  <1>6. /\ u \in State /\ u.wa = W /\ u.row = s.row /\ u.done = s.done /\ u.nextRec = s.nextRec
    <2> DEFINE c == [s.conn EXCEPT !.nTransacCount = 0]
    <2>1. c \in Connection
      BY <1>1, ConstantsOK DEF State, Connection
    <2>2. u = [s EXCEPT !.conn = c, !.wa = W]
      OBVIOUS
    <2> HIDE DEF c, u
    <2> QED BY <1>1, <1>5, <2>1, <2>2 DEF State
  <1> HIDE DEF u
  <1>7. /\ t \in State /\ t.wa = W /\ t.row = s.row /\ t.done = s.done /\ t.nextRec = s.nextRec
        /\ t.conn = [Connected EXCEPT !.nTransacCount = u.conn.nTransacCount]
    BY <1>6, RollBackType
  <1>8. t.conn.change = NoRow /\ t.conn.edits = NoRow /\ t.conn.held = {}
    BY <1>7 DEF Connected
  <1> HIDE DEF t
  <1>9. Fit(t)
    BY <1>4, <1>7 DEF Fit
  <1>10. Good(t, O) /\ Grows(s, t, O)
    BY <1>1, <1>4, <1>7, <1>8, <1>9, AfreshGood
  <1> QED BY <1>2, <1>10 DEF GoodMoves, s, O

LEMMA CrashGood ==
    ASSUME CarefulUse, GoodInv, NEW p \in Proc, Crash(p)
    PROVE  GoodMoves(p)
  <1> DEFINE s == Own(p)
             O == Others(p)
             b == RollBack(s)
             W == [a \in Area |-> Closed]
             t == [b EXCEPT !.conn = Connected, !.wa = W]
  <1>1. Good(s, O) /\ s \in State
    BY OwnGood DEF Fit
  <1>2. Becomes(p, t)
    BY DEF Crash
  <1> HIDE DEF s, O
  <1>3. b \in State /\ b.row = s.row /\ b.done = s.done /\ b.nextRec = s.nextRec
    BY <1>1, RollBackType
  <1> HIDE DEF b
  <1>4. /\ W \in [Area -> AreaState]
        /\ \A a \in Area : FitArea(W[a]) /\ Idle(W[a]) /\ W[a].typed = 0
    BY ClosedTypes DEF FitArea, Idle, Closed
  <1> HIDE DEF W
  <1>5. /\ t \in State /\ t.conn = Connected /\ t.wa = W
        /\ t.row = s.row /\ t.done = s.done /\ t.nextRec = s.nextRec
    BY <1>3, <1>4, ClosedTypes DEF State
  <1>6. t.conn.change = NoRow /\ t.conn.edits = NoRow /\ t.conn.held = {}
    BY <1>5 DEF Connected
  <1> HIDE DEF t
  <1>7. Fit(t)
    BY <1>4, <1>5 DEF Fit
  <1>8. Good(t, O) /\ Grows(s, t, O)
    BY <1>1, <1>4, <1>5, <1>6, <1>7, AfreshGood
  <1> QED BY <1>2, <1>8 DEF GoodMoves, s, O

LEMMA EndGood ==
    ASSUME CarefulUse, GoodInv, NEW p \in Proc, EndConnection(p)
    PROVE  GoodMoves(p)
  <1> DEFINE s == Own(p)
             O == Others(p)
             c == Commit(s)
             t == PutConn(c, Connected)
  <1>1. Good(s, O) /\ Fit(s) /\ s.wa = wa[p]
    BY OwnGood
  <1>2. Becomes(p, t) /\ \A a \in Area : ~s.wa[a].open
    BY <1>1 DEF EndConnection, PutConn
  <1> HIDE DEF s, O
  <1>3. \A a \in Area : Idle(s.wa[a]) /\ s.wa[a].typed = 0
    BY <1>1, <1>2 DEF Good, AreaGood, Idle
  <1>4. Good(c, O) /\ Grows(s, c, O) /\ Fit(c) /\ c.wa = s.wa
    <2>1. Good(c, O) /\ Grows(s, c, O)
      BY <1>1, <1>3, CommitGood DEF Idle
    <2> QED BY <1>1, <2>1, CommitFits
  <1> HIDE DEF c
  <1>5. /\ Fit(t) /\ t.conn = Connected /\ t.row = c.row /\ t.done = c.done
        /\ t.nextRec = c.nextRec /\ t.wa = c.wa
    BY <1>4, PutConnFits, ClosedTypes
  <1>6. t.conn.change = NoRow /\ t.conn.edits = NoRow /\ t.conn.held = {}
    BY <1>5 DEF Connected
  <1> HIDE DEF t
  <1>7. Good(t, O) /\ Grows(c, t, O)
    BY <1>3, <1>4, <1>5, <1>6, AfreshGood
  <1>8. Grows(s, t, O)
    BY <1>1, <1>4, <1>5, <1>7, GrowsOn
  <1> QED BY <1>2, <1>7, <1>8 DEF GoodMoves, s, O

LEMMA NextGood ==
    ASSUME CarefulUse, GoodInv, Next
    PROVE  GoodInv'
  <1> USE CarefulUse, GoodInv
  <1>1. PICK p \in Proc :
           \/ \E a \in Area :
                \/ Open(p, a) \/ Close(p, a)
                \/ RLock(p, a) \/ FLock(p, a) \/ Unlock(p, a)
                \/ Replace(p, a) \/ Append(p, a) \/ Flush(p, a) \/ WriteFails(p, a)
                \/ \E r \in Rec : \/ GoTo(p, a, r) \/ ReadPage(p, a, r) \/ SkipCached(p, a, r)
                                  \/ DbRLock(p, a, r)
           \/ SR_BeginTransaction(p) \/ SR_CommitTransaction(p) \/ SR_EndTransaction(p)
           \/ SR_RollBackTransaction(p)
           \/ EndConnection(p) \/ Crash(p)
    BY Zenon DEF Next
  <1>2. ASSUME NEW a \in Area,
               \/ Open(p, a) \/ Close(p, a)
               \/ RLock(p, a) \/ FLock(p, a) \/ Unlock(p, a)
               \/ Replace(p, a) \/ Append(p, a) \/ Flush(p, a) \/ WriteFails(p, a)
               \/ \E r \in Rec : \/ GoTo(p, a, r) \/ ReadPage(p, a, r) \/ SkipCached(p, a, r)
                                 \/ DbRLock(p, a, r)
        PROVE  GoodMoves(p)
    <2>1. CASE Open(p, a)
      BY <2>1, OpenGood
    <2>2. CASE Flush(p, a) \/ Close(p, a)
      BY <2>2, FlushGood
    <2>3. CASE RLock(p, a) \/ \E r \in Rec : DbRLock(p, a, r)
      BY <2>3, LockGood
    <2>4. CASE FLock(p, a)
      BY <2>4, FLockGood
    <2>5. CASE Unlock(p, a)
      BY <2>5, UnlockGood
    <2>6. CASE Replace(p, a)
      BY <2>6, ReplaceGood
    <2>7. CASE Append(p, a)
      BY <2>7, AppendGood
    <2>8. CASE WriteFails(p, a)
      BY <2>8 DEF WriteFails, CarefulUse
    <2>9. ASSUME NEW r \in Rec, GoTo(p, a, r) \/ ReadPage(p, a, r) \/ SkipCached(p, a, r)
          PROVE  GoodMoves(p)
      BY <2>9, GoToGood
    <2> QED BY <1>2, <2>1, <2>2, <2>3, <2>4, <2>5, <2>6, <2>7, <2>8, <2>9
  <1>3. GoodMoves(p)
    <2>1. CASE SR_BeginTransaction(p) \/ SR_CommitTransaction(p) \/ SR_EndTransaction(p)
      BY <2>1, BlockGood
    <2>2. CASE SR_RollBackTransaction(p)
      BY <2>2, RollBackGood
    <2>3. CASE EndConnection(p)
      BY <2>3, EndGood
    <2>4. CASE Crash(p)
      BY <2>4, CrashGood
    <2> QED BY <1>1, <1>2, <2>1, <2>2, <2>3, <2>4
  <1> QED BY <1>3, BecomesGood

LEMMA InitGood ==
    ASSUME Init
    PROVE  GoodInv
  <1>1. FitInv
    BY InitFits
  <1>2. ASSUME NEW p \in Proc PROVE Good(Own(p), Others(p))
    <2> DEFINE s == Own(p)
               O == Others(p)
    <2>1. Fit(s) /\ s.wa = wa[p] /\ s.conn = conn[p] /\ s.nextRec = nextRec
      BY <1>1, OwnFits
    <2>2. /\ s.row = row /\ s.done = done
      BY DEF Own
    <2>3. s.conn = Connected /\ \A a \in Area : s.wa[a] = Closed
      BY <2>1 DEF Init
    <2>4. O = {}
      BY DEF Others, HeldByOther, Init, Connected
    <2>5. \A r \in Rec : /\ s.row[r] = IF r <= Existing THEN 1 ELSE 0
                         /\ s.done[r] = 0 /\ NoRow[r] = 0
      BY <2>2 DEF Init, NoRow
    <2>6. s.nextRec = Existing + 1
      BY <2>1 DEF Init
    <2> HIDE DEF s, O
    <2>7. \A r \in Rec : s.row[r] \in 0..MaxValue /\ Visible(s, r) \in 0..MaxValue
      BY <2>1, FitTypes
    <2>8. Ledger(s, O)
      <3>1. Existing \in Nat /\ MaxRecord \in Nat
        BY ConstantsOK
      <3> SUFFICES ASSUME NEW r \in Rec
                   PROVE  /\ s.row[r] # 0 => s.row[r] = 1 + s.done[r]
                          /\ r >= s.nextRec => s.row[r] = 0
        BY <2>3, <2>4, <2>5 DEF Ledger, Connected
      <3>2. r \in Nat
        BY <3>1 DEF Rec
      <3> QED BY <2>5, <2>6, <3>1, <3>2
    <2>9. \A r \in Rec : 0 <= Visible(s, r)
      BY <2>7, ConstantsOK
    <2>10. AreaGood(s, Closed)
      BY <2>5, <2>9 DEF AreaGood, Closed, Idle
    <2> QED BY <2>1, <2>3, <2>8, <2>10 DEF Good, s, O
  <1>3. NoLostUpdate
    <2>1. \A r \in Rec : row[r] = (IF r <= Existing THEN 1 ELSE 0) /\ done[r] = 0
      BY DEF Init, NoRow
    <2> QED BY <2>1 DEF NoLostUpdate
  <1> QED BY <1>1, <1>2, <1>3 DEF GoodInv

(* Every process's accounts stay right whatever the others do: the inductive   *)
(* invariant behind the theorems below.                                        *)
THEOREM CarefulInvariance ==
    ASSUME CarefulUse
    PROVE  Spec => []GoodInv
  <1>1. Init => GoodInv
    BY InitGood
  <1>2. GoodInv /\ [Next]_vars => GoodInv'
    <2> SUFFICES ASSUME GoodInv, [Next]_vars PROVE GoodInv'
      OBVIOUS
    <2>1. CASE Next
      BY <2>1, NextGood
    <2>2. CASE UNCHANGED vars
      <3>1. FitInv'
        BY <2>2, NextFits DEF GoodInv
      <3>2. NoLostUpdate'
        BY <2>2 DEF vars, GoodInv, NoLostUpdate
      <3>3. ASSUME NEW p \in Proc PROVE Good(Own(p), Others(p))'
        <4>1. Good(Own(p), Others(p))
          BY DEF GoodInv
        <4>2. Own(p)' = Own(p) /\ Others(p)' = Others(p)
          BY <2>2 DEF vars, Own, Others, HeldByOther
        <4>3. Good(Own(p)', Others(p)')
          BY <4>1, <4>2
        <4> QED BY <4>3 DEF Good, Fit, Ledger, AreaGood, FitArea, Visible
      <3> QED BY <3>1, <3>2, <3>3 DEF GoodInv
    <2> QED BY <2>1, <2>2
  <1> QED BY <1>1, <1>2, PTL DEF Spec

(* What an area lists as locked is locked in the server for its process, so    *)
(* the next RLOCK, which answers from aLocked without asking, is right.        *)
THEOREM ListedStaysHeld ==
    ASSUME CarefulUse
    PROVE  Spec => []ListedIsHeld
  <1>1. GoodInv => ListedIsHeld
    BY OwnGood DEF ListedIsHeld, AreaGood
  <1> QED BY <1>1, CarefulInvariance, PTL

(* RLOCK and DBRLOCK never answer .T. to two processes for one record, on the  *)
(* backends that send a locking SELECT.                                        *)
THEOREM OneProcessLocks ==
    ASSUME CarefulUse
    PROVE  Spec => []LockedByOne
  <1>1. GoodInv => LockedByOne
    <2> SUFFICES ASSUME GoodInv, NEW p \in Proc, NEW q \in Proc, p # q, NEW a \in Area, NEW b \in Area
                 PROVE  wa[p][a].aLocked \cap wa[q][b].aLocked = {}
      BY DEF LockedByOne
    <2>1. /\ wa[p][a].aLocked \subseteq conn[p].held /\ wa[q][b].aLocked \subseteq conn[q].held
          /\ wa[p][a].aLocked \subseteq Rec
      BY OwnGood DEF AreaGood, AreaState
    <2>2. conn[p].held \cap Others(p) = {}
      BY OwnGood DEF Good, Ledger
    <2> QED BY <2>1, <2>2 DEF Others, HeldByOther
  <1> QED BY <1>1, CarefulInvariance, PTL

(* A locked record is shown with what the server has for its connection. *)
THEOREM LockedStaysFresh ==
    ASSUME CarefulUse
    PROVE  Spec => []LockedIsFresh
  <1>1. GoodInv => LockedIsFresh
    BY OwnGood DEF LockedIsFresh, AreaGood
  <1> QED BY <1>1, CarefulInvariance, PTL

(* No committed REPLACE is overwritten by one that had not seen it. *)
THEOREM NothingIsLost ==
    ASSUME CarefulUse
    PROVE  Spec => []NoLostUpdate
  <1>1. GoodInv => NoLostUpdate
    BY DEF GoodInv
  <1> QED BY <1>1, CarefulInvariance, PTL

(* Where connections read what is committed, buffers and cached pages show     *)
(* only what the server has or had.                                            *)
THEOREM OnlyStoredIsShown ==
    ASSUME CarefulUse, ~ReadUncommitted
    PROVE  Spec => []ShownWasStored
  <1>1. GoodInv => ShownWasStored
    BY OwnGood DEF ShownWasStored, AreaGood
  <1> QED BY <1>1, CarefulInvariance, PTL
=============================================================================
