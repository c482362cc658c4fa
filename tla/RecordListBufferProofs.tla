----------------------- MODULE RecordListBufferProofs -----------------------
(***************************************************************************)
(* Proof about RecordList: between calls the buffer (aBuffer) shows the    *)
(* row of the current record.  The steps of a call pass through states     *)
(* where it does not: sqlExSkip clears EOF() before it moves, while the    *)
(* buffer is still the phantom record's.  The invariant says which steps   *)
(* may be next in such a state: those that read, or meet EOF() again.      *)
(***************************************************************************)
EXTENDS RecordListProofs

(* With SET DELETED ON the application does not SKIP backwards: on a table   *)
(* of deleted records SKIP -1 ends on the phantom record with EOF() cleared. *)
SkipsSafe == Skips \subseteq Nat \/ \A s \in Starts : ~s.setDeleted

(* GO TO is called with numbers that were given to a record. *)
GoTosGiven ==
    \A s \in Starts, r \in GoTos : r = 0 \/ \E x \in Rec : r <= x /\ s.table[x] # NoRow

-----------------------------------------------------------------------------
(* The invariant *)

(* The records the area knows of were given. *)
Given(a, n) == (\A j \in DOMAIN a.list : a.list[j] <= n) /\ \A d \in Dir : a.ends[d] <= n

Showing(a, t) == ~a.hot /\ ~a.fEof /\ t[Here(a)] # NoRow => a.buf = t[Here(a)]

(* A step backwards goes to the bottom, one forwards reads or meets EOF(). *)
Mends(c, a) == c.d = FWD \/ (c.d = BWD /\ a.cur = a.lastRec)

(* The next step leaves a buffer that shows the record. *)
Repairs(a, s) ==
    /\ s # <<>>
    /\ \/ Head(s).op \in {"go", "goto", "seek"}
       \/ Head(s).op = "raw" /\ Mends(Head(s), a)
       \/ Head(s).op = "skip" /\ Head(s).n > 0 /\ ~a.fBof /\ Mends(Head(s), a)

(* Steps that are the last of their call. *)
Final == {"skip", "goto", "append", "seek", "sought", "delete", "recall", "flush"}

Bottomed(s) == \A j \in DOMAIN s : j # Len(s) => s[j].op \notin Final

Known(s, n) == \A j \in DOMAIN s : s[j].op = "goto" => s[j].n <= n

(* The call in progress is a SKIP backwards. *)
Backward(s) == s # <<>> /\ s[Len(s)].op = "skip" /\ s[Len(s)].d = BWD

(* A step that a SKIP backwards may take. *)
Retreats(c) == c.op \in {"cold", "go", "bof", "raw"} /\ (c.op = "raw" => c.d = BWD)

(* It never meets EOF(). *)
Retreat(a, s) ==
    Backward(s) => ~setDeleted /\ ~a.fEof /\ \A j \in DOMAIN s : j # Len(s) => Retreats(s[j])

Setting == (setDeleted => Skips \subseteq Nat) /\ \A r \in GoTos : r <= last

Fresh ==
    /\ Setting
    /\ Given(wa, last)
    /\ Known(todo, last) /\ Bottomed(todo)
    /\ Retreat(wa, todo)
    /\ Repairs(wa, todo) \/ Showing(wa, table)

-----------------------------------------------------------------------------
(* What the operators return *)

LEMMA ListGiven ==
    ASSUME NEW t, NEW n \in 0..MaxRec, TableFits(t, n), NEW o, NEW d, NEW A, NEW k,
           \A r \in A : r \in Rec /\ t[r] # NoRow,
           NEW s \in Answers(t, o, d, A, k)
    PROVE  s \in Seq(Rec) /\ \A j \in DOMAIN s : s[j] <= n /\ t[s[j]] # NoRow
  <1>1. s \in Seq(A)
    BY DEF Answers
  <1>2. \A j \in DOMAIN s : s[j] \in A
    BY <1>1
  <1> QED BY <1>1, <1>2 DEF TableFits

(* What a read changes. *)
LEMMA PageReadKeeps ==
    ASSUME NEW a, NEW t, NEW n, NEW i, Good(a, t, n, i), TableFits(t, n), NEW M
    PROVE  LET b == PageRead(a, t, M)
           IN /\ b.list = a.list /\ b.pos = a.pos /\ b.ends = a.ends
              /\ b.fEof = a.fEof
              /\ t[Here(a)] # NoRow => b.buf = t[Here(a)]
  <1> DEFINE p == PoolWith(a, t)
             m == Here(a) \in M
             h == Here(a)
  <1>1. PageRead(a, t, M) = IF t[h] = NoRow THEN [a EXCEPT !.pool = p]
                            ELSE [a EXCEPT !.pool = p, !.buf = t[h], !.del[a.pos] = m]
    BY DEF PageRead
  <1> HIDE DEF p, m
  <1> DEFINE b == [a EXCEPT !.pool = p]
             c == [a EXCEPT !.pool = p, !.buf = t[h], !.del[a.pos] = m]
  <1>2. b.list = a.list /\ b.pos = a.pos /\ b.ends = a.ends /\ b.fEof = a.fEof
    BY DEF Good, Loose, Area
  <1>3. c.list = a.list /\ c.pos = a.pos /\ c.ends = a.ends /\ c.fEof = a.fEof /\ c.buf = t[h]
    BY DEF Good, Loose, Area
  <1> HIDE DEF b, c
  <1>4. PageRead(a, t, M) = IF t[h] = NoRow THEN b ELSE c
    BY <1>1 DEF b, c
  <1> QED BY <1>2, <1>3, <1>4

LEMMA ReadShows ==
    ASSUME NEW a, NEW t, NEW n, NEW i, Good(a, t, n, i), TableFits(t, n), NEW M, NEW k, Given(a, k)
    PROVE  Showing(Read(a, t, M), t) /\ Given(Read(a, t, M), k) /\ Read(a, t, M).fEof = a.fEof
  <1> DEFINE h == Here(a)
  <1>1. h \in Rec
    BY HereIsRec
  <1>2. CASE a.pool[h] # NoRow
    <2> DEFINE b == [a EXCEPT !.buf = a.pool[h]]
    <2>1. Read(a, t, M) = b
      BY <1>2 DEF Read
    <2>2. b.list = a.list /\ b.pos = a.pos /\ b.ends = a.ends /\ b.fEof = a.fEof /\ b.buf = a.pool[h]
      BY DEF Good, Loose, Area
    <2> HIDE DEF b
    <2>3. t[h] # NoRow => a.pool[h] = t[h]
      BY <1>1, <1>2 DEF Good, Loose, PoolFits
    <2>4. Here(b) = h
      BY <2>2 DEF Here
    <2> QED BY <2>1, <2>2, <2>3, <2>4 DEF Showing, Given
  <1>3. CASE a.pool[h] = NoRow
    <2> DEFINE b == PageRead(a, t, M)
    <2>1. Read(a, t, M) = b
      BY <1>3 DEF Read
    <2>2. /\ b.list = a.list /\ b.pos = a.pos /\ b.ends = a.ends /\ b.fEof = a.fEof
          /\ t[h] # NoRow => b.buf = t[h]
      BY PageReadKeeps
    <2> HIDE DEF b
    <2>3. Here(b) = h
      BY <2>2 DEF Here
    <2> QED BY <2>1, <2>2, <2>3 DEF Showing, Given
  <1> QED BY <1>2, <1>3

LEMMA PhantomShows ==
    ASSUME NEW a, NEW t, NEW n, NEW i, Good(a, t, n, i), NEW k, Given(a, k), NEW u
    PROVE  /\ Showing(Phantom(a), u) /\ Given(Phantom(a), k)
           /\ Showing(Clean(a), u) /\ Given(Clean(a), k) /\ Clean(a).fEof = TRUE
  <1>1. Clean(a).list = a.list /\ Clean(a).ends = a.ends /\ Clean(a).fEof = TRUE
    BY DEF Clean, Good, Loose, Area
  <1>2. Phantom(a).list = a.list /\ Phantom(a).ends = a.ends /\ Phantom(a).fEof = TRUE
    BY DEF Phantom, Clean, Good, Loose, Area
  <1> QED BY <1>1, <1>2 DEF Showing, Given

LEMMA OnItShows ==
    ASSUME NEW a, NEW t, NEW n, NEW i, Good(a, t, n, i), NEW k, Given(a, k), NEW u,
           u[Here(a)] # NoRow => a.buf = u[Here(a)]
    PROVE  Showing(OnIt(a), u) /\ Given(OnIt(a), k)
  <1>1. OnIt(a).list = a.list /\ OnIt(a).ends = a.ends /\ OnIt(a).pos = a.pos /\ OnIt(a).buf = a.buf
    BY DEF OnIt, Good, Loose, Area
  <1>2. Here(OnIt(a)) = Here(a)
    BY <1>1 DEF Here
  <1> QED BY <1>1, <1>2 DEF Showing, Given

LEMMA EndGiven ==
    ASSUME NEW a, NEW t, NEW n, NEW i, Good(a, t, n, i), NEW k, Given(a, k),
           NEW d \in Dir, NEW e, e <= k, NEW b, b = [a EXCEPT !.ends[d] = e]
    PROVE  Given(b, k) /\ (\A u : Showing(a, u) => Showing(b, u)) /\ b.fEof = a.fEof
           /\ b.fBof = a.fBof
  <1>1. /\ b.list = a.list /\ b.pos = a.pos /\ b.buf = a.buf /\ b.hot = a.hot /\ b.fEof = a.fEof
        /\ b.fBof = a.fBof /\ b.ends = [a.ends EXCEPT ![d] = e]
    BY DEF Good, Loose, Area
  <1>2. \A x \in Dir : b.ends[x] <= k
    <2>1. a.ends \in [Dir -> 0..MaxRec]
      BY DEF Good, Loose, Area
    <2> QED BY <1>1, <2>1 DEF Given
  <1>3. Here(b) = Here(a)
    BY <1>1 DEF Here
  <1> QED BY <1>1, <1>2, <1>3 DEF Given, Showing

LEMMA HereGiven ==
    ASSUME NEW a, NEW t, NEW n, NEW i, Good(a, t, n, i), NEW k, Given(a, k)
    PROVE  Here(a) <= k
  BY DEF Good, Given, Here

(* sqlExGoTo stands on a record whose row it shows, or on the phantom record. *)
LEMMA GoToShows ==
    ASSUME NEW a, NEW t, NEW n, NEW i, Good(a, t, n, i), TableFits(t, n), NEW M,
           NEW k \in Nat, Given(a, k), NEW r \in 0..MaxRec, r <= k
    PROVE  Showing(GoToOf(a, r, t, M), t) /\ Given(GoToOf(a, r, t, M), k)
  <1>1. CASE r = 0
    BY <1>1, PhantomShows DEF GoToOf
  <1>2. CASE r # 0 /\ (\E j \in DOMAIN a.list : a.list[j] = r) /\ Readable(Placed(a, r), t)
    <2> DEFINE p == Placed(a, r)
               b == Read(p, t, M)
    <2>1. PlaceOf(a, r) \in DOMAIN a.list
      BY <1>2 DEF PlaceOf
    <2>2. PlaceOf(a, r) \in Nat
      BY <2>1 DEF Good, Loose, Area
    <2>3. Good(p, t, n, i)
      BY <2>1, <2>2 DEF Placed, Good, Loose, Area
    <2>4. Given(p, k)
      BY DEF Placed, Given, Good, Loose, Area
    <2>5. GoToOf(a, r, t, M) = OnIt(b)
      BY <1>2 DEF GoToOf
    <2> HIDE DEF p
    <2>6. Good(b, t, n, i) /\ Given(b, k)
      BY <2>3, <2>4, ReadOK, ReadShows
    <2>7. t[Here(b)] # NoRow => b.buf = t[Here(b)]
      <3>1. CASE p.pool[Here(p)] # NoRow
        <4>1. Here(p) \in Rec
          BY <2>3, HereIsRec
        <4>2. b = [p EXCEPT !.buf = p.pool[Here(p)]]
          BY <3>1 DEF Read
        <4>3. Here(b) = Here(p) /\ b.buf = p.pool[Here(p)]
          BY <2>3, <4>2 DEF Good, Loose, Area, Here
        <4> QED BY <2>3, <3>1, <4>1, <4>3 DEF Good, Loose, PoolFits
      <3>2. CASE p.pool[Here(p)] = NoRow
        <4>1. b = PageRead(p, t, M)
          BY <3>2 DEF Read
        <4>2. b.list = p.list /\ b.pos = p.pos /\ (t[Here(p)] # NoRow => b.buf = t[Here(p)])
          BY <2>3, <4>1, PageReadKeeps
        <4> QED BY <4>2 DEF Here
      <3> QED BY <3>1, <3>2
    <2> HIDE DEF b
    <2> QED BY <2>5, <2>6, <2>7, OnItShows
  <1>3. CASE r # 0 /\ ~((\E j \in DOMAIN a.list : a.list[j] = r) /\ Readable(Placed(a, r), t))
    <2> DEFINE p == Alone(a, r)
               b == PageRead(p, t, M)
    <2>1. r \in Rec
      BY <1>3, Bounds DEF Rec
    <2>2. Good(p, t, n, i) /\ Here(p) = r
      BY <2>1, AloneOK DEF Good
    <2>3. p.list = <<r>> /\ p.ends = a.ends
      BY DEF Alone, Good, Loose, Area
    <2>4. Given(p, k)
      BY <2>3 DEF Given
    <2>5. GoToOf(a, r, t, M) = IF t[r] # NoRow THEN OnIt(b) ELSE Phantom(b)
      BY <1>3 DEF GoToOf, Fetched
    <2> HIDE DEF p
    <2>6. Good(b, t, n, i)
      BY <2>2, PageReadOK
    <2>7. b.list = p.list /\ b.pos = p.pos /\ b.ends = p.ends /\ (t[Here(p)] # NoRow => b.buf = t[Here(p)])
      BY <2>2, PageReadKeeps
    <2> HIDE DEF b
    <2>8. Here(b) = r /\ Given(b, k) /\ (t[r] # NoRow => b.buf = t[r])
      BY <2>2, <2>4, <2>7 DEF Here, Given
    <2>9. Showing(OnIt(b), t) /\ Given(OnIt(b), k)
      BY <2>6, <2>8, OnItShows
    <2>10. Showing(Phantom(b), t) /\ Given(Phantom(b), k)
      BY <2>6, <2>8, PhantomShows
    <2> QED BY <2>5, <2>9, <2>10
  <1> QED BY <1>1, <1>2, <1>3

LEMMA TopListGiven ==
    ASSUME NEW a, NEW t, NEW n, NEW i, Loose(a, t, n, i), NEW k \in Nat, Given(a, k),
           NEW d \in Dir, NEW s \in Seq(Rec), \A j \in DOMAIN s : s[j] <= k
    PROVE  Given(TopList(a, d, s), k)
  <1> DEFINE b == [a EXCEPT !.dir = d, !.condChanged = FALSE]
  <1>1. b.list = a.list /\ b.ends = a.ends /\ b \in Area
    BY DEF Loose, Area
  <1>2. CASE s = <<>>
    BY <1>1, <1>2 DEF TopList, Given
  <1>3. CASE s # <<>>
    <2> DEFINE c == Listed(b, s, marked)
               e == IF Len(s) < TopSize THEN s[Len(s)] ELSE c.ends[d]
               f == [c EXCEPT !.ends[d] = e]
    <2>1. TopList(a, d, s) = f
      BY <1>3 DEF TopList
    <2> HIDE DEF b
    <2>2. c.list = s /\ c.ends = a.ends
      BY <1>1 DEF Listed, Area
    <2>3. a.ends \in [Dir -> 0..MaxRec]
      BY DEF Loose, Area
    <2>4. e <= k
      <3>1. s[Len(s)] <= k
        BY <1>3
      <3> QED BY <2>2, <3>1 DEF Given
    <2>5. f.list = c.list /\ f.ends = [c.ends EXCEPT ![d] = e]
      BY <1>1 DEF Listed, Area
    <2> HIDE DEF c, e, f
    <2>6. \A x \in Dir : f.ends[x] <= k
      BY <2>2, <2>3, <2>4, <2>5 DEF Given
    <2> QED BY <2>1, <2>2, <2>5, <2>6 DEF Given
  <1> QED BY <1>2, <1>3

LEMMA GoneToGiven ==
    ASSUME NEW a, NEW t, NEW n, NEW i, Good(a, t, n, i), NEW k, Given(a, k), NEW d \in Dir
    PROVE  Given(GoneTo(a, d), k) /\ GoneTo(a, d).fEof = FALSE
  <1> DEFINE h == Here(a)
             m == -d
             e == [a.ends EXCEPT ![m] = h]
             b == GoneTo(a, d)
  <1>1. h <= k /\ m \in Dir
    BY HereGiven, Bounds
  <1>2. b.list = a.list /\ b.ends = e /\ b.fEof = FALSE
    BY DEF GoneTo, OnIt, Good, Loose, Area
  <1> HIDE DEF h, m, b
  <1>3. \A x \in Dir : e[x] <= k
    <2>1. a.ends \in [Dir -> 0..MaxRec]
      BY DEF Good, Loose, Area
    <2> QED BY <1>1, <2>1 DEF Given
  <1> QED BY <1>2, <1>3 DEF Given, b

-----------------------------------------------------------------------------
(* What a step leaves *)

(* Work a step may leave to do before what waits, in a call that goes on. *)
Light(w) == Plain(w) /\ \A j \in DOMAIN w : w[j].op \notin Final

Back(w) == \A j \in DOMAIN w : Retreats(w[j])

LEMMA StepFresh ==
    ASSUME Fresh, NEW b, NEW w, Goes(b, w), Given(b, last'), Known(w, last'), Bottomed(w),
           Retreat(b, w), last \in Nat, last' \in Nat, last <= last', GoTos \subseteq 0..MaxRec,
           Repairs(b, w) \/ Showing(b, table')
    PROVE  Fresh'
  <1>1. wa' = b /\ todo' = w /\ setDeleted' = setDeleted
    BY DEF Goes
  <1>2. Setting'
    <2>1. GoTos \subseteq Nat
      BY Bounds
    <2> QED BY <1>1, <2>1 DEF Fresh, Setting
  <1>3. Retreat(b, w)'
    BY <1>1 DEF Retreat
  <1> QED BY <1>1, <1>2, <1>3 DEF Fresh, Retreat

(* The frames of what waits, with work put before it. *)
LEMMA JoinOK ==
    ASSUME NEW s \in Seq(Frame), s # <<>>, NEW w \in Seq(Frame)
    PROVE  LET u == w \o Tail(s)
           IN /\ u \in Seq(Frame) /\ Len(u) = Len(w) + (Len(s) - 1)
              /\ \A j \in DOMAIN u :
                    IF j <= Len(w) THEN j \in DOMAIN w /\ u[j] = w[j]
                    ELSE j - Len(w) + 1 \in DOMAIN s /\ u[j] = s[j - Len(w) + 1]
              /\ w # <<>> => u # <<>> /\ Head(u) = Head(w)
  <1> DEFINE z == Tail(s)
             u == w \o z
  <1>1. Len(s) \in Nat /\ Len(s) >= 1 /\ Len(w) \in Nat
    OBVIOUS
  <1>2. z \in Seq(Frame) /\ Len(z) = Len(s) - 1 /\ \A j \in 1..Len(z) : z[j] = s[j + 1]
    <2>1. /\ Tail(s) \in Seq(Frame) /\ Len(Tail(s)) = Len(s) - 1
          /\ \A j \in 1..Len(Tail(s)) : Tail(s)[j] = s[j + 1]
      BY <1>1, HeadTailProperties, Zenon
    <2> QED BY <2>1
  <1> HIDE DEF z
  <1>3. /\ u \in Seq(Frame) /\ Len(u) = Len(w) + Len(z)
        /\ \A j \in 1..Len(u) : u[j] = IF j <= Len(w) THEN w[j] ELSE z[j - Len(w)]
    <2>1. /\ w \o z \in Seq(Frame) /\ Len(w \o z) = Len(w) + Len(z)
          /\ \A j \in 1..Len(w) + Len(z) : (w \o z)[j] = IF j <= Len(w) THEN w[j] ELSE z[j - Len(w)]
      BY <1>1, <1>2, ConcatProperties, Zenon
    <2> QED BY <2>1, Zenon
  <1> HIDE DEF u
  <1>4. DOMAIN u = 1..Len(u) /\ DOMAIN w = 1..Len(w) /\ DOMAIN s = 1..Len(s)
    BY <1>1, <1>3
  <1>5. ASSUME NEW j \in DOMAIN u
        PROVE  IF j <= Len(w) THEN j \in DOMAIN w /\ u[j] = w[j]
               ELSE j - Len(w) + 1 \in DOMAIN s /\ u[j] = s[j - Len(w) + 1]
    <2>1. j \in 1..Len(w) + Len(z) /\ Len(z) = Len(s) - 1
      BY <1>2, <1>3, <1>4, <1>5
    <2>2. CASE j <= Len(w)
      BY <1>1, <1>3, <1>4, <2>1, <2>2
    <2>3. CASE ~(j <= Len(w))
      <3> DEFINE k == j - Len(w)
      <3>1. k \in 1..Len(z) /\ k + 1 \in 1..Len(s)
        BY <1>1, <2>1, <2>3
      <3>2. u[j] = z[k] /\ z[k] = s[k + 1]
        BY <1>2, <1>3, <2>1, <2>3, <3>1
      <3> QED BY <1>4, <2>3, <3>1, <3>2
    <2> QED BY <2>2, <2>3
  <1>6. ASSUME w # <<>> PROVE u # <<>> /\ Head(u) = Head(w)
    <2>1. 1 <= Len(w) /\ 1 \in 1..Len(u) /\ Len(u) >= 1
      BY <1>1, <1>2, <1>3, <1>6
    <2>2. u[1] = w[1]
      BY <1>3, <2>1
    <2>3. Head(w) = w[1] /\ u # <<>> /\ Head(u) = u[1]
      BY <1>3, <1>6, <2>1
    <2> QED BY <2>2, <2>3
  <1> QED BY <1>2, <1>3, <1>5, <1>6 DEF u, z

(* A step of a call of which more waits: the work it leaves comes first. *)
LEMMA PushFresh ==
    ASSUME IInv, Fresh, todo # <<>>, NEW b, NEW w, Continue(b, w), Light(w),
           last' \in Nat, last <= last', Given(b, last'),
           Backward(todo) => ~b.fEof /\ Back(w),
           Repairs(b, w) \/ Showing(b, table')
    PROVE  Fresh'
  <1> DEFINE u == w \o Tail(todo)
             l == Len(w)
             m == Len(todo)
  <1>1. todo \in Seq(Frame) /\ w \in Seq(Frame) /\ last \in Nat
    BY Bounds DEF IInv, Stack, Light, Plain
  <1>2. Goes(b, u)
    BY DEF Continue
  <1>3. /\ u \in Seq(Frame) /\ Len(u) = l + (m - 1)
        /\ \A j \in DOMAIN u : IF j <= l THEN j \in DOMAIN w /\ u[j] = w[j]
                               ELSE j - l + 1 \in DOMAIN todo /\ u[j] = todo[j - l + 1]
        /\ w # <<>> => u # <<>> /\ Head(u) = Head(w)
    BY <1>1, JoinOK
  <1>4. l \in Nat /\ m \in Nat /\ m >= 1 /\ DOMAIN u \subseteq Nat /\ DOMAIN todo = 1..m
    BY <1>1, <1>3
  <1> HIDE DEF u, l, m
  <1>5. Known(u, last')
    <2> SUFFICES ASSUME NEW j \in DOMAIN u, u[j].op = "goto" PROVE u[j].n <= last'
      BY DEF Known
    <2>1. ~(j <= l)
      BY <1>3 DEF Light, Plain
    <2> DEFINE x == j - l + 1
    <2>2. x \in DOMAIN todo /\ u[j] = todo[x]
      BY <1>3, <2>1
    <2> HIDE DEF x
    <2>3. todo[x].n <= last /\ todo[x] \in Frame
      BY <1>1, <2>2 DEF Fresh, Known
    <2>4. todo[x].n \in Nat
      BY <2>3 DEF Frame
    <2> QED BY <1>1, <2>2, <2>3, <2>4
  <1>6. ASSUME NEW j \in DOMAIN u, j # Len(u)
        PROVE  /\ u[j].op \notin Final
               /\ Backward(todo) => Retreats(u[j])
    <2>1. CASE j <= l
      BY <1>3, <2>1 DEF Light, Back
    <2>2. CASE ~(j <= l)
      <3> DEFINE x == j - l + 1
      <3>1. x \in DOMAIN todo /\ u[j] = todo[x] /\ x # m
        BY <1>3, <1>4, <1>6, <2>2
      <3> HIDE DEF x
      <3>2. todo[x].op \notin Final
        BY <3>1 DEF Fresh, Bottomed, m
      <3>3. Backward(todo) => Retreats(todo[x])
        BY <3>1 DEF Fresh, Retreat, m
      <3> QED BY <3>1, <3>2, <3>3
    <2> QED BY <2>1, <2>2
  <1>7. Bottomed(u)
    BY <1>6 DEF Bottomed
  <1>8. Backward(u) => Backward(todo)
    <2> SUFFICES ASSUME Backward(u) PROVE Backward(todo)
      OBVIOUS
    <2> DEFINE j == Len(u)
    <2>1. j \in DOMAIN u /\ u[j].op = "skip" /\ u[j].d = BWD
      BY <1>1, <1>3 DEF Backward
    <2>2. ~(j <= l)
      BY <1>3, <2>1 DEF Light, Final
    <2>3. j - l + 1 = m
      BY <1>3, <1>4
    <2>4. u[j] = todo[m]
      BY <1>3, <2>1, <2>2, <2>3
    <2> QED BY <2>1, <2>4 DEF Backward, m
  <1>9. Retreat(b, u)
    BY <1>6, <1>8 DEF Retreat, Fresh
  <1>10. Repairs(b, u) \/ Showing(b, table')
    BY <1>3 DEF Repairs
  <1>11. GoTos \subseteq 0..MaxRec
    BY ListAssumption
  <1> QED BY <1>1, <1>2, <1>5, <1>7, <1>9, <1>10, <1>11, StepFresh

(* A step that leaves no work shows the record. *)
LEMMA PopFresh ==
    ASSUME IInv, Fresh, todo # <<>>, NEW b, Continue(b, <<>>),
           last' \in Nat, last <= last', Given(b, last'),
           Backward(todo) => ~b.fEof, Showing(b, table')
    PROVE  Fresh'
  <1>1. Light(<<>>) /\ Back(<<>>)
    BY PlainOK DEF Light, Back
  <1> QED BY <1>1, PushFresh

LEMMA ReadAndFresh ==
    ASSUME IInv, Fresh, todo # <<>>, Untouched, NEW b, NEW w, ReadAnd(b, w), Light(w),
           Good(b, table, last, wa.isInsert), Given(b, last),
           Backward(todo) => ~b.fEof /\ Back(w)
    PROVE  Fresh'
  <1> DEFINE c == Read(b, table, marked)
  <1>1. table' = table /\ last' = last /\ last \in Nat /\ TableFits(table, last)
    BY Bounds DEF Untouched, IInv
  <1>2. Showing(c, table) /\ Given(c, last) /\ c.fEof = b.fEof
    BY <1>1, ReadShows
  <1>3. Continue(c, w) \/ Goes(c, <<>>)
    BY DEF ReadAnd
  <1> HIDE DEF c
  <1>4. Showing(c, table') /\ Given(c, last') /\ last' \in Nat /\ last <= last'
    BY <1>1, <1>2
  <1>5. CASE Continue(c, w)
    BY <1>2, <1>4, <1>5, PushFresh
  <1>6. CASE Goes(c, <<>>)
    <2>1. Known(<<>>, last') /\ Bottomed(<<>>) /\ Retreat(c, <<>>)
      BY DEF Known, Bottomed, Retreat, Backward
    <2>2. GoTos \subseteq 0..MaxRec
      BY ListAssumption
    <2> QED BY <1>1, <1>4, <1>6, <2>1, <2>2, StepFresh
  <1> QED BY <1>3, <1>5, <1>6

(* What is known of the step at hand. *)
LEMMA HeadFresh ==
    ASSUME IInv, Fresh, todo # <<>>
    PROVE  /\ Backward(todo) => /\ ~setDeleted /\ ~wa.fEof
                                /\ Head(todo).op = "skip" \/ Retreats(Head(todo))
                                /\ Head(todo).op = "skip" => Head(todo).d = BWD
           /\ Head(todo).op \in Final => Tail(todo) = <<>> /\ Len(todo) = 1
           /\ Head(todo).op = "goto" => Head(todo).n <= last
  <1>1. todo \in Seq(Frame) /\ Head(todo) = todo[1] /\ 1 \in DOMAIN todo /\ Len(todo) \in Nat
    BY DEF IInv, Stack
  <1>2. CASE Len(todo) = 1
    <2>1. Tail(todo) = <<>>
      <3>1. Tail(todo) \in Seq(Frame) /\ Len(Tail(todo)) = Len(todo) - 1
        BY <1>1, <1>2, HeadTailProperties, Zenon
      <3> DEFINE z == Tail(todo)
      <3>2. z \in Seq(Frame) /\ Len(z) = 0
        BY <1>2, <3>1
      <3> HIDE DEF z
      <3> QED BY <3>2, EmptySeq DEF z
    <2>2. Backward(todo) => Head(todo).op = "skip" /\ Head(todo).d = BWD
      BY <1>1, <1>2 DEF Backward
    <2> QED BY <1>1, <1>2, <2>1, <2>2 DEF Fresh, Retreat, Known
  <1>3. CASE Len(todo) # 1
    <2>1. Head(todo).op \notin Final
      BY <1>1, <1>3 DEF Fresh, Bottomed
    <2>2. Backward(todo) => Retreats(Head(todo)) /\ ~setDeleted /\ ~wa.fEof
      BY <1>1, <1>3 DEF Fresh, Retreat
    <2> QED BY <1>1, <2>1, <2>2 DEF Fresh, Known, Final
  <1> QED BY <1>2, <1>3

LEMMA FilteringLight ==
    ASSUME NEW d \in Dir
    PROVE  Light(Filtering(d)) /\ (~setDeleted => Back(Filtering(d)))
  <1> DEFINE f == Do("filter", d, 0, FALSE)
  <1>1. f.op = "filter"
    BY DEF Do
  <1>2. Filtering(d) = IF setDeleted THEN <<f>> ELSE <<>>
    BY DEF Filtering
  <1> HIDE DEF f
  <1>3. Plain(Filtering(d))
    BY FilteringOK
  <1>4. \A j \in DOMAIN Filtering(d) : Filtering(d)[j].op \notin Final
    BY <1>1, <1>2 DEF Final
  <1>5. ~setDeleted => Back(Filtering(d))
    BY <1>2 DEF Back
  <1> QED BY <1>3, <1>4, <1>5 DEF Light

-----------------------------------------------------------------------------
(* The steps of a call *)

LEMMA GoEndFresh ==
    ASSUME IInv, Fresh, NEW d \in Dir, GoEnd(d)
    PROVE  Fresh'
  <1>1. todo # <<>> /\ Untouched /\ TableFits(table, last) /\ last \in 0..MaxRec /\ last \in Nat
    BY Bounds DEF GoEnd, Running, IInv
  <1>2. Light(Filtering(d)) /\ (Backward(todo) => Back(Filtering(d))) /\ -d \in Dir
    BY <1>1, FilteringLight, HeadFresh, Bounds
  <1>3. Given(wa, last)
    BY DEF Fresh
  <1>4. ASSUME NEW g, Good(g, table, last, wa.isInsert), Given(g, last),
               ReadAnd(GoneTo(g, d), Filtering(d))
        PROVE  Fresh'
    <2> DEFINE b == GoneTo(g, d)
    <2>1. Good(b, table, last, wa.isInsert) /\ Given(b, last) /\ ~b.fEof
      BY <1>4, GoneToOK, GoneToGiven
    <2>2. ReadAnd(b, Filtering(d))
      BY <1>4
    <2> HIDE DEF b
    <2> QED BY <1>1, <1>2, <2>1, <2>2, ReadAndFresh
  <1>5. CASE wa.ends[-d] # 0
    <2>1. ~First
      BY <1>1, <1>2, <1>5, OpenedOK DEF First
    <2>2. Good(wa, table, last, wa.isInsert)
      BY <2>1 DEF IInv
    <2>3. wa.ends[-d] \in 0..MaxRec /\ wa.ends[-d] <= last
      BY <1>2, <1>3, <2>2 DEF Good, Loose, Area, Given
    <2> DEFINE g == GoToOf(wa, wa.ends[-d], table, marked)
    <2>4. Good(g, table, last, wa.isInsert) /\ Given(g, last)
      BY <1>1, <1>3, <2>2, <2>3, GoToOfOK, GoToShows
    <2>5. ReadAnd(GoneTo(g, d), Filtering(d))
      BY <1>5 DEF GoEnd
    <2> HIDE DEF g
    <2> QED BY <1>4, <2>4, <2>5
  <1>6. CASE wa.ends[-d] = 0
    <2>1. PICK s \in Answers(table, order, d, Meeting(table, filter), TopSize) :
              ReadAnd(GoneTo(TopList(wa, d, s), d), Filtering(d))
      BY <1>6 DEF GoEnd
    <2>2. \A r \in Meeting(table, filter) : r \in Rec /\ table[r] # NoRow
      BY DEF Meeting
    <2>3. s \in Seq(Rec) /\ \A j \in DOMAIN s : s[j] <= last
      BY <1>1, <2>2, ListGiven
    <2>4. s = <<>> => ~First
      BY AnswersSome, MeetingIsRec, Bounds DEF First
    <2>5. Loose(wa, table, last, wa.isInsert) /\ (s = <<>> => Good(wa, table, last, wa.isInsert))
      BY <2>4, LooseHere DEF IInv
    <2> DEFINE g == TopList(wa, d, s)
    <2>6. Good(g, table, last, wa.isInsert) /\ Given(g, last)
      BY <1>1, <1>3, <2>3, <2>5, TopListOK, TopListGiven
    <2>7. ReadAnd(GoneTo(g, d), Filtering(d))
      BY <2>1
    <2> HIDE DEF g
    <2> QED BY <1>4, <2>6, <2>7
  <1> QED BY <1>5, <1>6

LEMMA Joined ==
    ASSUME NEW v \in Seq(Frame), NEW w \in Seq(Frame)
    PROVE  /\ v \o w \in Seq(Frame) /\ Len(v \o w) = Len(v) + Len(w)
           /\ \A j \in 1..Len(v) + Len(w) : (v \o w)[j] = IF j <= Len(v) THEN v[j] ELSE w[j - Len(v)]
  BY ConcatProperties, Zenon

LEMMA JoinedTwo ==
    ASSUME NEW f \in Frame, NEW g \in Frame
    PROVE  <<f>> \o <<g>> = <<f, g>> /\ <<>> \o <<>> = <<>>
  <1>1. <<f>> \o <<g>> = <<f, g>>
    <2> DEFINE v == <<f>>
               w == <<g>>
               u == v \o w
    <2>1. v \in Seq(Frame) /\ Len(v) = 1 /\ v[1] = f /\ w \in Seq(Frame) /\ Len(w) = 1 /\ w[1] = g
      OBVIOUS
    <2> HIDE DEF v, w
    <2>2. /\ u \in Seq(Frame) /\ Len(u) = Len(v) + Len(w)
          /\ \A j \in 1..Len(v) + Len(w) : u[j] = IF j <= Len(v) THEN v[j] ELSE w[j - Len(v)]
      BY <2>1, Joined
    <2> HIDE DEF u
    <2>3. u \in Seq(Frame) /\ Len(u) = 2 /\ u[1] = f /\ u[2] = g
      BY <2>1, <2>2
    <2>4. u = <<f, g>>
      BY <2>3
    <2> QED BY <2>4 DEF u, v, w
  <1>2. <<>> \o <<>> = <<>>
    OBVIOUS
  <1> QED BY <1>1, <1>2

LEMMA JoinedFrames ==
    ASSUME NEW f \in Frame, NEW g \in Frame, NEW h \in Frame
    PROVE  /\ (<<f>> \o <<>>) \o <<g>> = <<f, g>>
           /\ (<<f>> \o <<h>>) \o <<g>> = <<f, h, g>>
  <1>2. <<f, h>> \o <<g>> = <<f, h, g>>
    <2> DEFINE v == <<f, h>>
               w == <<g>>
               u == v \o w
    <2>1. v \in Seq(Frame) /\ Len(v) = 2 /\ v[1] = f /\ v[2] = h
          /\ w \in Seq(Frame) /\ Len(w) = 1 /\ w[1] = g
      OBVIOUS
    <2> HIDE DEF v, w
    <2>2. /\ u \in Seq(Frame) /\ Len(u) = Len(v) + Len(w)
          /\ \A j \in 1..Len(v) + Len(w) : u[j] = IF j <= Len(v) THEN v[j] ELSE w[j - Len(v)]
      BY <2>1, Joined
    <2> HIDE DEF u
    <2>3. u \in Seq(Frame) /\ Len(u) = 3 /\ u[1] = f /\ u[2] = h /\ u[3] = g
      BY <2>1, <2>2
    <2>4. u = <<f, h, g>>
      BY <2>3
    <2> QED BY <2>4 DEF u, v, w
  <1>3. <<f>> \o <<>> = <<f>>
    OBVIOUS
  <1>4. <<f>> \o <<h>> = <<f, h>> /\ <<f>> \o <<g>> = <<f, g>>
    BY JoinedTwo
  <1> QED BY <1>2, <1>3, <1>4, Zenon

(* A step whose area is that of the state before, but for flags. *)
LEMMA SkipFresh ==
    ASSUME IInv, Fresh, Skip
    PROVE  Fresh'
  <1> DEFINE d == Head(todo).d
             n == Head(todo).n
  <1>1. /\ todo # <<>> /\ Untouched /\ d \in Dir /\ n \in Nat /\ Running("skip")
        /\ Head(todo).op = "skip"
    BY HeadOK DEF Skip, Running
  <1>2. Good(wa, table, last, wa.isInsert)
    BY GoodHere DEF Skip, Running
  <1>3. table' = table /\ last' = last /\ last \in Nat /\ last <= last' /\ Given(wa, last')
    BY <1>1, Bounds DEF Untouched, IInv, Fresh
  <1>4. Tail(todo) = <<>> /\ Len(todo) = 1 /\ todo[1] = Head(todo)
    BY <1>1, HeadFresh DEF Final
  <1>5. d = BWD => Backward(todo) /\ ~wa.fEof /\ ~setDeleted
    BY <1>1, <1>4, HeadFresh DEF Backward
  <1>6. Backward(todo) => d = BWD
    BY <1>4 DEF Backward
  <1>7. Repairs(wa, todo) \/ Showing(wa, table)
    BY DEF Fresh
  <1>8. Repairs(wa, todo) => n > 0 /\ ~wa.fBof /\ Mends(Head(todo), wa)
    BY <1>1 DEF Repairs
  <1>9. FWD = 1 /\ BWD = -1 /\ d \in {1, -1}
    BY <1>1 DEF FWD, BWD, Dir
  <1>10. CASE n = 0 \/ wa.fBof \/ wa.fEof
    <2> DEFINE b == IF d = BWD THEN [wa EXCEPT !.fEof = FALSE] ELSE [wa EXCEPT !.fBof = FALSE]
    <2>1. Continue(b, <<>>)
      BY <1>10 DEF Skip
    <2>2. /\ b.list = wa.list /\ b.pos = wa.pos /\ b.ends = wa.ends /\ b.buf = wa.buf
          /\ b.hot = wa.hot /\ (d = BWD => b.fEof = FALSE) /\ (d # BWD => b.fEof = wa.fEof)
      BY <1>2 DEF Good, Loose, Area
    <2> HIDE DEF b
    <2>3. Here(b) = Here(wa) /\ b.fEof = wa.fEof
      <3>1. wa.fEof \in BOOLEAN
        BY <1>2 DEF Good, Loose, Area
      <3> QED BY <1>5, <2>2, <3>1 DEF Here
    <2>4. Showing(wa, table)
      <3>1. CASE wa.fEof
        BY <3>1 DEF Showing
      <3>2. CASE ~wa.fEof
        <4>1. n = 0 \/ wa.fBof
          BY <1>10, <3>2
        <4> QED BY <1>1, <1>7, <1>8, <4>1
      <3> QED BY <3>1, <3>2
    <2>5. Showing(b, table') /\ Given(b, last')
      BY <1>3, <2>2, <2>3, <2>4 DEF Showing, Given
    <2>6. Backward(todo) => ~b.fEof
      BY <1>5, <1>6, <2>3
    <2> QED BY <1>1, <1>3, <2>1, <2>5, <2>6, PopFresh
  <1>11. CASE ~(n = 0 \/ wa.fBof \/ wa.fEof)
    <2> DEFINE f == Do("raw", d, 0, FALSE)
               g == Do("skip", d, n - 1, FALSE)
               h == Do("filter", d, 0, FALSE)
               w == (<<f>> \o Filtering(d)) \o <<g>>
    <2>1. Goes(wa, w \o <<>>)
      BY <1>4, <1>11 DEF Skip, Continue
    <2>2. f.op = "raw" /\ f.d = d /\ g.op = "skip" /\ g.d = d /\ h.op = "filter"
          /\ f \in Frame /\ g \in Frame /\ h \in Frame
      <3>1. n - 1 \in Nat
        BY <1>1, <1>11
      <3> QED BY <1>1, <3>1 DEF Do, Frame
    <2>3. Filtering(d) = IF setDeleted THEN <<h>> ELSE <<>>
      BY DEF Filtering
    <2> HIDE DEF f, g, h
    <2>4. w = IF setDeleted THEN <<f, h, g>> ELSE <<f, g>>
      BY <2>2, <2>3, JoinedFrames
    <2>5. w \o <<>> = w
      BY <2>2, <2>4
    <2> HIDE DEF w
    <2>6. Goes(wa, w)
      BY <2>1, <2>5
    <2>7. w # <<>> /\ Head(w) = f /\ w[1] = f
      BY <2>4
    <2>8. Known(w, last') /\ Bottomed(w)
      BY <2>2, <2>4 DEF Known, Bottomed, Final
    <2>9. Backward(w) => d = BWD
      BY <2>2, <2>4 DEF Backward
    <2>10. ASSUME d = BWD PROVE \A j \in DOMAIN w : j # Len(w) => Retreats(w[j])
      BY <1>5, <2>2, <2>4, <2>10 DEF Retreats
    <2>11. Retreat(wa, w)
      BY <1>5, <2>9, <2>10 DEF Retreat
    <2>12. Repairs(wa, w) \/ Showing(wa, table')
      BY <1>3, <1>7, <1>8, <2>2, <2>7 DEF Repairs, Mends
    <2>13. GoTos \subseteq 0..MaxRec
      BY ListAssumption
    <2> QED BY <1>3, <2>6, <2>8, <2>11, <2>12, <2>13, StepFresh
  <1> QED BY <1>10, <1>11

LEMMA SkipFilterFresh ==
    ASSUME IInv, Fresh, SkipFilter
    PROVE  Fresh'
  <1> DEFINE d == Head(todo).d
             bottom == IF Running("filter") THEN wa.fBottom ELSE Head(todo).b
  <1>1. todo # <<>> /\ Untouched /\ d \in Dir /\ Head(todo).op \in {"filter", "passed"}
    BY HeadOK DEF SkipFilter, Running
  <1>2. Good(wa, table, last, wa.isInsert)
    BY GoodHere DEF SkipFilter, Running
  <1>3. bottom \in BOOLEAN
    BY <1>1, <1>2, HeadOK DEF Good, Loose, Area
  <1>4. table' = table /\ last' = last /\ last' \in Nat /\ last <= last' /\ Given(wa, last')
    BY <1>1, Bounds DEF Untouched, IInv, Fresh
  <1>5. ~Backward(todo)
    BY <1>1, HeadFresh DEF Retreats
  <1>6. Showing(wa, table')
    BY <1>1, <1>4 DEF Fresh, Repairs
  <1> DEFINE f == Do("raw", d, 0, FALSE)
             g == Do("passed", d, 0, bottom)
             h == Do("go", FWD, 0, FALSE)
             k == Do("bof", BWD, 0, FALSE)
             x == Phantom(wa)
  <1>7. \/ Continue(wa, <<f, g>>)
        \/ Continue(wa, <<>>)
        \/ Continue(x, <<>>)
        \/ Continue(wa, <<h, k>>)
    BY DEF SkipFilter
  <1>8. f.op = "raw" /\ g.op = "passed" /\ h.op = "go" /\ k.op = "bof"
        /\ f \in Frame /\ g \in Frame /\ h \in Frame /\ k \in Frame
    BY <1>1, <1>3, Bounds DEF Do, Frame
  <1>9. Showing(x, table') /\ Given(x, last')
    BY <1>2, <1>4, PhantomShows
  <1> HIDE DEF f, g, h, k, x
  <1>10. Light(<<f, g>>) /\ Light(<<h, k>>)
    BY <1>8 DEF Light, Plain, Final
  <1>11. CASE Continue(wa, <<>>) \/ Continue(x, <<>>)
    BY <1>1, <1>4, <1>5, <1>6, <1>9, <1>11, PopFresh
  <1>12. CASE Continue(wa, <<f, g>>) \/ Continue(wa, <<h, k>>)
    BY <1>1, <1>4, <1>5, <1>6, <1>10, <1>12, PushFresh
  <1> QED BY <1>7, <1>11, <1>12

LEMMA RaiseBofFresh ==
    ASSUME IInv, Fresh, RaiseBof
    PROVE  Fresh'
  <1>1. todo # <<>> /\ Untouched /\ Head(todo).op = "bof"
    BY DEF RaiseBof, Running
  <1>2. Good(wa, table, last, wa.isInsert)
    BY GoodHere DEF RaiseBof, Running
  <1>3. table' = table /\ last' = last /\ last' \in Nat /\ last <= last' /\ Given(wa, last')
    BY <1>1, Bounds DEF Untouched, IInv, Fresh
  <1>4. Showing(wa, table') /\ (Backward(todo) => ~wa.fEof)
    BY <1>1, <1>3, HeadFresh DEF Fresh, Repairs
  <1> DEFINE e == IF Head(todo).b THEN Here(wa) ELSE wa.ends[BWD]
             b == [wa EXCEPT !.fBof = TRUE]
             c == [b EXCEPT !.ends[BWD] = e]
  <1>5. e <= last'
    <2>1. Here(wa) <= last'
      BY <1>2, <1>3, HereGiven
    <2>2. wa.ends[BWD] <= last'
      BY <1>3, Bounds DEF Given
    <2> QED BY <2>1, <2>2
  <1>6. Continue(c, <<>>)
    BY DEF RaiseBof
  <1> HIDE DEF e
  <1>7. /\ b.list = wa.list /\ b.pos = wa.pos /\ b.ends = wa.ends /\ b.buf = wa.buf
        /\ b.hot = wa.hot /\ b.fEof = wa.fEof
    BY <1>2 DEF Good, Loose, Area
  <1>8. Good(b, table, last, wa.isInsert)
    BY <1>2, FlagsOK
  <1> HIDE DEF b
  <1>9. Given(b, last') /\ Showing(b, table')
    BY <1>3, <1>4, <1>7 DEF Given, Showing, Here
  <1>10. c = [b EXCEPT !.ends[BWD] = e]
    OBVIOUS
  <1>11. BWD \in Dir
    BY Bounds DEF Dir
  <1> HIDE DEF c
  <1>12. Given(c, last') /\ (\A u : Showing(b, u) => Showing(c, u)) /\ c.fEof = b.fEof
    BY <1>5, <1>8, <1>9, <1>10, <1>11, EndGiven
  <1>13. Showing(c, table') /\ c.fEof = wa.fEof
    BY <1>7, <1>9, <1>12
  <1> QED BY <1>1, <1>3, <1>4, <1>6, <1>12, <1>13, PopFresh

LEMMA RawFromPhantomFresh ==
    ASSUME IInv, Fresh, RawFromPhantom
    PROVE  Fresh'
  <1> DEFINE f == Do("go", BWD, 0, FALSE)
  <1>1. todo # <<>> /\ Untouched /\ Continue(wa, <<f>>)
    BY DEF RawFromPhantom, Raw, Running
  <1>2. table' = table /\ last' = last /\ last' \in Nat /\ last <= last' /\ Given(wa, last')
    BY <1>1, Bounds DEF Untouched, IInv, Fresh
  <1>3. f \in Frame /\ f.op = "go"
    BY Bounds DEF Do, Frame
  <1> HIDE DEF f
  <1>4. Light(<<f>>) /\ Back(<<f>>) /\ <<f>> # <<>> /\ Head(<<f>>) = f
    BY <1>3 DEF Light, Plain, Final, Back, Retreats
  <1>5. Repairs(wa, <<f>>)
    BY <1>3, <1>4 DEF Repairs
  <1> QED BY <1>1, <1>2, <1>4, <1>5, HeadFresh, PushFresh

(* What is known of the area when SKIPRAW in direction d is next. *)
LEMMA RawFresh ==
    ASSUME IInv, Fresh, NEW d \in Dir, Raw(d), ~OnPhantom(d)
    PROVE  /\ todo # <<>> /\ Head(todo).op = "raw"
           /\ Good(wa, table, last, wa.isInsert)
           /\ Backward(todo) => d = BWD /\ ~wa.fEof
           /\ d = BWD => Showing(wa, table)
           /\ last \in Nat /\ Given(wa, last) /\ FWD # BWD
  <1>1. todo # <<>> /\ Head(todo).op = "raw" /\ Head(todo).d = d
    BY DEF Raw, Running
  <1>2. Good(wa, table, last, wa.isInsert)
    BY <1>1, GoodHere DEF Running
  <1>3. Backward(todo) => d = BWD /\ ~wa.fEof
    BY <1>1, HeadFresh DEF Retreats
  <1>4. FWD # BWD
    BY DEF FWD, BWD
  <1>5. d = BWD => Showing(wa, table)
    BY <1>1, <1>4 DEF Fresh, Repairs, Mends, OnPhantom
  <1> QED BY <1>1, <1>2, <1>3, <1>4, <1>5, Bounds DEF Fresh, IInv

LEMMA NoWork == Light(<<>>) /\ Back(<<>>)
  BY PlainOK DEF Light, Back

LEMMA RawInListFresh ==
    ASSUME IInv, Fresh, NEW d \in Dir, RawInList(d)
    PROVE  Fresh'
  <1> DEFINE m == Next1(wa, d)
             b == [wa EXCEPT !.pos = m]
  <1>1. Raw(d) /\ ~OnPhantom(d) /\ m \in DOMAIN wa.list /\ ReadAnd(b, <<>>) /\ Untouched
    BY DEF RawInList
  <1>2. /\ todo # <<>> /\ Good(wa, table, last, wa.isInsert) /\ Given(wa, last)
        /\ Backward(todo) => ~wa.fEof
    BY <1>1, RawFresh
  <1> HIDE DEF m
  <1>3. m \in Nat
    BY <1>1, <1>2 DEF Good, Loose, Area
  <1>4. Good(b, table, last, wa.isInsert) /\ b.list = wa.list /\ b.ends = wa.ends /\ b.fEof = wa.fEof
    BY <1>1, <1>2, <1>3 DEF Good, Loose, Area
  <1> HIDE DEF b
  <1>5. Given(b, last)
    BY <1>2, <1>4 DEF Given
  <1> QED BY <1>1, <1>2, <1>4, <1>5, NoWork, ReadAndFresh

(* The end of the order is met in direction d. *)
LEMMA StopFresh ==
    ASSUME IInv, Fresh, todo # <<>>, Untouched, NEW d \in Dir, NEW a, Continue(Stop(a, d), <<>>),
           Good(a, table, last, wa.isInsert), Given(a, last),
           Backward(todo) => d = BWD /\ ~a.fEof, d = BWD => Showing(a, table)
    PROVE  Fresh'
  <1>1. table' = table /\ last' = last /\ last' \in Nat /\ last <= last' /\ Given(a, last')
    BY Bounds DEF Untouched, IInv
  <1>2. CASE d = FWD
    <2>1. ~Backward(todo)
      BY <1>2 DEF FWD, BWD
    <2>2. Continue(Clean(a), <<>>)
      BY <1>2 DEF Stop
    <2>3. Showing(Clean(a), table') /\ Given(Clean(a), last')
      BY <1>1, PhantomShows
    <2> QED BY <1>1, <2>1, <2>2, <2>3, PopFresh
  <1>3. CASE d # FWD
    <2> DEFINE b == [a EXCEPT !.fBof = TRUE]
    <2>1. d = BWD
      BY <1>3 DEF Dir
    <2>2. Continue(b, <<>>)
      BY <1>3 DEF Stop
    <2>3. /\ b.list = a.list /\ b.pos = a.pos /\ b.ends = a.ends /\ b.buf = a.buf
          /\ b.hot = a.hot /\ b.fEof = a.fEof
      BY DEF Good, Loose, Area
    <2> HIDE DEF b
    <2>4. Given(b, last') /\ Showing(b, table')
      BY <1>1, <2>1, <2>3 DEF Given, Showing, Here
    <2> QED BY <1>1, <2>2, <2>3, <2>4, PopFresh
  <1> QED BY <1>2, <1>3

LEMMA RawAtEndFresh ==
    ASSUME IInv, Fresh, NEW d \in Dir, RawAtEnd(d)
    PROVE  Fresh'
  <1>1. Raw(d) /\ ~OnPhantom(d) /\ Untouched /\ Continue(Stop(wa, d), <<>>)
    BY DEF RawAtEnd
  <1> QED BY <1>1, RawFresh, StopFresh

LEMMA WithStmtKeeps ==
    ASSUME NEW a, NEW t, NEW n, NEW i, Good(a, t, n, i), NEW d, NEW k \in Nat, Given(a, k)
    PROVE  LET b == WithStmt(a, d)
           IN /\ Given(b, k) /\ b.fEof = a.fEof
              /\ Showing(a, t) => Showing(b, t)
  <1> DEFINE e == [x \in Dir |-> 0]
             f == [x \in Dir |-> IF x = d THEN filter ELSE None]
             b == [a EXCEPT !.ends = e, !.condChanged = FALSE, !.orderChanged = FALSE, !.stmt = f]
  <1>1. WithStmt(a, d) = a \/ WithStmt(a, d) = b
    BY DEF WithStmt
  <1>2. \A x \in Dir : e[x] <= k
    OBVIOUS
  <1> HIDE DEF e, f
  <1>3. /\ b.list = a.list /\ b.pos = a.pos /\ b.ends = e /\ b.buf = a.buf
        /\ b.hot = a.hot /\ b.fEof = a.fEof
    BY DEF Good, Loose, Area
  <1> HIDE DEF b
  <1>4. Given(b, k) /\ (Showing(a, t) => Showing(b, t))
    BY <1>2, <1>3 DEF Given, Showing, Here
  <1> QED BY <1>1, <1>3, <1>4

LEMMA NextListFresh ==
    ASSUME IInv, Fresh, todo # <<>>, Untouched, NEW a, Good(a, table, last, wa.isInsert),
           Given(a, last), NEW d \in Dir, NEW s \in Seq(Rec), \A j \in DOMAIN s : s[j] <= last,
           NextList(a, d, s),
           Backward(todo) => d = BWD /\ ~a.fEof, d = BWD => Showing(a, table)
    PROVE  Fresh'
  <1>0. last \in Nat
    BY Bounds DEF IInv
  <1>1. CASE s = <<>>
    <2> DEFINE h == Here(a)
               b == [a EXCEPT !.ends[d] = h]
    <2>1. h \in 0..MaxRec /\ h <= last
      BY HereIsRec, HereGiven DEF Rec
    <2>2. Continue(Stop(b, d), <<>>)
      BY <1>1 DEF NextList
    <2> HIDE DEF h
    <2>3. Good(b, table, last, wa.isInsert)
      BY <2>1, EndOK
    <2>4. b = [a EXCEPT !.ends[d] = h]
      OBVIOUS
    <2> HIDE DEF b
    <2>5. Given(b, last) /\ (\A u : Showing(a, u) => Showing(b, u)) /\ b.fEof = a.fEof
      BY <2>1, <2>4, EndGiven
    <2> QED BY <2>2, <2>3, <2>5, StopFresh
  <1>2. CASE s # <<>>
    <2> DEFINE c == Listed(a, s, marked)
               e == IF order = "recno" /\ Len(s) < ListSize THEN s[Len(s)] ELSE c.ends[d]
    <2>1. Good(c, table, last, wa.isInsert)
      BY <1>2, ListedOK DEF Good
    <2>2. ReadAnd([c EXCEPT !.ends[d] = e], <<>>)
      BY <1>2 DEF NextList
    <2>3. c.list = s /\ c.ends = a.ends /\ c.fEof = a.fEof
      BY DEF Listed, Good, Loose, Area
    <2> HIDE DEF c
    <2>4. Given(c, last)
      BY <2>3 DEF Given
    <2>5. e \in 0..MaxRec /\ e <= last
      <3>1. Len(s) \in DOMAIN s
        BY <1>2
      <3>2. s[Len(s)] \in Rec /\ s[Len(s)] <= last
        BY <3>1
      <3>3. c.ends[d] \in 0..MaxRec
        BY <2>1 DEF Good, Loose, Area
      <3>4. c.ends[d] <= last
        BY <2>4 DEF Given
      <3>5. s[Len(s)] \in 0..MaxRec
        BY <3>2 DEF Rec
      <3> QED BY <3>2, <3>3, <3>4, <3>5
    <2> HIDE DEF e
    <2> DEFINE b == [c EXCEPT !.ends[d] = e]
    <2>6. Good(b, table, last, wa.isInsert) /\ ReadAnd(b, <<>>)
      BY <2>1, <2>2, <2>5, EndOK
    <2>7. b = [c EXCEPT !.ends[d] = e]
      OBVIOUS
    <2> HIDE DEF b
    <2>8. Given(b, last) /\ b.fEof = c.fEof
      BY <2>1, <2>4, <2>5, <2>7, EndGiven
    <2> QED BY <2>3, <2>6, <2>8, NoWork, ReadAndFresh
  <1> QED BY <1>1, <1>2

LEMMA LostRecordFresh ==
    ASSUME IInv, Fresh, todo # <<>>, Untouched, NEW a, Good(a, table, last, wa.isInsert),
           Given(a, last), NEW d \in Dir, LostRecord(a, d),
           Backward(todo) => d = BWD /\ ~a.fEof
    PROVE  Fresh'
  <1> DEFINE h == Do("go", FWD, 0, FALSE)
             k == Do("bof", BWD, 0, TRUE)
             w == <<h, k>>
             b == Clean(a)
  <1>1. table' = table /\ last' = last /\ last' \in Nat /\ last <= last' /\ Given(a, last')
    BY Bounds DEF Untouched, IInv
  <1>2. (d = FWD /\ Continue(b, <<>>)) \/ Continue(a, w)
    BY DEF LostRecord
  <1>3. h \in Frame /\ h.op = "go" /\ k \in Frame /\ k.op = "bof"
    BY Bounds DEF Do, Frame
  <1>4. Showing(b, table') /\ Given(b, last')
    BY <1>1, PhantomShows
  <1> HIDE DEF h, k, b
  <1>5. Light(w) /\ Back(w) /\ w # <<>> /\ Head(w) = h
    BY <1>3 DEF Light, Plain, Final, Back, Retreats
  <1> HIDE DEF w
  <1>6. Repairs(a, w)
    BY <1>3, <1>5 DEF Repairs
  <1>7. CASE d = FWD /\ Continue(b, <<>>)
    <2>1. ~Backward(todo)
      BY <1>7 DEF FWD, BWD
    <2> QED BY <1>1, <1>4, <1>7, <2>1, PopFresh
  <1>8. CASE Continue(a, w)
    BY <1>1, <1>5, <1>6, <1>8, PushFresh
  <1> QED BY <1>2, <1>7, <1>8

LEMMA FollowingKeeps ==
    ASSUME NEW s \in Seq(Rec), NEW r, \E j \in DOMAIN s : s[j] = r,
           NEW k, \A j \in DOMAIN s : s[j] <= k
    PROVE  \A j \in DOMAIN Following(s, r) : Following(s, r)[j] <= k
  <1> DEFINE m == CHOOSE j \in DOMAIN s : s[j] = r
             z == SubSeq(s, m + 1, Len(s))
  <1>1. m \in 1..Len(s)
    OBVIOUS
  <1>2. Following(s, r) = z
    BY DEF Following
  <1> HIDE DEF m
  <1>3. \A j \in DOMAIN z : m + j \in DOMAIN s /\ z[j] = s[m + j]
    BY <1>1
  <1> HIDE DEF z
  <1> QED BY <1>2, <1>3

LEMMA RawQueryFresh ==
    ASSUME IInv, Fresh, NEW d \in Dir, RawQuery(d)
    PROVE  Fresh'
  <1>1. Raw(d) /\ ~OnPhantom(d) /\ Untouched
    BY DEF RawQuery
  <1>2. /\ todo # <<>> /\ Good(wa, table, last, wa.isInsert) /\ Given(wa, last) /\ last \in Nat
        /\ Backward(todo) => d = BWD /\ ~wa.fEof
        /\ d = BWD => Showing(wa, table)
    BY <1>1, RawFresh
  <1> DEFINE b == [wa EXCEPT !.dir = d]
             a == WithStmt(b, d)
  <1>3. /\ b.list = wa.list /\ b.pos = wa.pos /\ b.ends = wa.ends /\ b.buf = wa.buf
        /\ b.hot = wa.hot /\ b.fEof = wa.fEof
        /\ Good(b, table, last, wa.isInsert) /\ Fetch(a, d)
    BY <1>2 DEF RawQuery, Good, Loose, Area
  <1> HIDE DEF b
  <1>4. Given(b, last) /\ (Showing(wa, table) => Showing(b, table))
    BY <1>2, <1>3 DEF Given, Showing, Here
  <1>5. Good(a, table, last, wa.isInsert)
    BY <1>3, WithStmtOK
  <1>6. Given(a, last) /\ a.fEof = b.fEof /\ (Showing(b, table) => Showing(a, table))
    BY <1>2, <1>3, <1>4, WithStmtKeeps
  <1> HIDE DEF a
  <1>7. \A r \in From(a, d) : r \in Rec /\ table[r] # NoRow
    BY DEF From, Meeting
  <1>8. PICK s \in Answers(table, order, d, From(a, d), ListSize + 1) :
            IF \E j \in DOMAIN s : s[j] = a.cur THEN NextList(a, d, Following(s, a.cur))
            ELSE LostRecord(a, d)
    BY <1>3 DEF Fetch
  <1>9. s \in Seq(Rec) /\ \A j \in DOMAIN s : s[j] <= last
    BY <1>7, ListGiven DEF IInv
  <1>10. /\ Backward(todo) => d = BWD /\ ~a.fEof
         /\ d = BWD => Showing(a, table)
    BY <1>2, <1>3, <1>4, <1>6
  <1>11. CASE \E j \in DOMAIN s : s[j] = a.cur
    <2> DEFINE z == Following(s, a.cur)
    <2>1. z \in Seq(Rec) /\ NextList(a, d, z) /\ \A j \in DOMAIN z : z[j] <= last
      BY <1>8, <1>9, <1>11, FollowingOK, FollowingKeeps
    <2> HIDE DEF z
    <2> QED BY <1>1, <1>2, <1>5, <1>6, <1>10, <2>1, NextListFresh
  <1>12. CASE ~\E j \in DOMAIN s : s[j] = a.cur
    BY <1>1, <1>2, <1>5, <1>6, <1>8, <1>10, <1>12, LostRecordFresh
  <1> QED BY <1>11, <1>12

(* What is known when a step of another kind is next. *)
LEMMA OtherHead ==
    ASSUME IInv, Fresh, todo # <<>>,
           Head(todo).op \in {"cold", "goto", "append", "delete", "recall", "seek", "sought", "flush"}
    PROVE  /\ Good(wa, table, last, wa.isInsert) /\ TableFits(table, last)
           /\ last \in Nat /\ last \in 0..MaxRec /\ Given(wa, last)
           /\ Backward(todo) => Head(todo).op = "cold" /\ ~wa.fEof
           /\ Head(todo).op \notin {"goto", "seek"} => Showing(wa, table)
  <1>1. Good(wa, table, last, wa.isInsert)
    BY GoodHere DEF Running
  <1>2. Backward(todo) => Head(todo).op = "cold" /\ ~wa.fEof
    BY HeadFresh DEF Retreats
  <1>3. Head(todo).op \notin {"goto", "seek"} => Showing(wa, table)
    BY DEF Fresh, Repairs
  <1> QED BY <1>1, <1>2, <1>3, Bounds DEF IInv, Fresh

LEMMA FlushFresh ==
    ASSUME IInv, Fresh, Flush
    PROVE  Fresh'
  <1>1. todo # <<>> /\ Head(todo).op = "flush" /\ Continue(wa, <<>>) /\ table' = table /\ last' = last
    BY DEF Flush, Running, Untouched
  <1>2. last \in Nat /\ Given(wa, last) /\ ~Backward(todo) /\ Showing(wa, table)
    BY <1>1, OtherHead
  <1> QED BY <1>1, <1>2, PopFresh

LEMMA GoToFresh ==
    ASSUME IInv, Fresh, GoTo
    PROVE  Fresh'
  <1> DEFINE n == Head(todo).n
             b == GoToOf(wa, n, table, marked)
  <1>1. /\ todo # <<>> /\ Head(todo).op = "goto" /\ Running("goto") /\ Continue(b, <<>>)
        /\ table' = table /\ last' = last
    BY DEF GoTo, Running, Untouched
  <1>2. /\ Good(wa, table, last, wa.isInsert) /\ TableFits(table, last) /\ last \in Nat
        /\ Given(wa, last) /\ ~Backward(todo)
    BY <1>1, OtherHead
  <1>3. n \in 0..MaxRec /\ n <= last
    BY <1>1, HeadOK, HeadFresh
  <1> HIDE DEF n
  <1>4. Showing(b, table) /\ Given(b, last)
    BY <1>2, <1>3, GoToShows
  <1> HIDE DEF b
  <1> QED BY <1>1, <1>2, <1>4, PopFresh

LEMMA Append1Fresh ==
    ASSUME IInv, Fresh, Append1
    PROVE  Fresh'
  <1> DEFINE b == [Clean(wa) EXCEPT !.hot = TRUE, !.isInsert = TRUE]
  <1>1. todo # <<>> /\ Head(todo).op = "append" /\ Continue(b, <<>>) /\ table' = table /\ last' = last
    BY DEF Append1, Running, Untouched
  <1>2. Good(wa, table, last, wa.isInsert) /\ last \in Nat /\ Given(wa, last) /\ ~Backward(todo)
    BY <1>1, OtherHead
  <1>3. b.list = wa.list /\ b.ends = wa.ends /\ b.hot = TRUE
    BY <1>2 DEF Clean, Good, Loose, Area
  <1> HIDE DEF b
  <1>4. Showing(b, table) /\ Given(b, last)
    BY <1>2, <1>3 DEF Showing, Given
  <1> QED BY <1>1, <1>2, <1>4, PopFresh

LEMMA DeleteRecFresh ==
    ASSUME IInv, Fresh, DeleteRec
    PROVE  Fresh'
  <1> DEFINE h == Here(wa)
             b == [Flagged(wa, TRUE) EXCEPT !.ends = Forget(@, h)]
  <1>1. /\ todo # <<>> /\ Head(todo).op = "delete" /\ last' = last /\ Continue(b, <<>>)
        /\ table' = table \/ table' = [table EXCEPT ![h] = NoRow]
    BY DEF DeleteRec, Running
  <1>2. /\ Good(wa, table, last, wa.isInsert) /\ TableFits(table, last) /\ last \in Nat
        /\ Given(wa, last) /\ ~Backward(todo) /\ Showing(wa, table)
    BY <1>1, OtherHead
  <1>3. /\ b.list = wa.list /\ b.pos = wa.pos /\ b.ends = Forget(wa.ends, h) /\ b.buf = wa.buf
        /\ b.hot = wa.hot /\ b.fEof = wa.fEof
    BY <1>2 DEF Flagged, Good, Loose, Area
  <1>4. h \in Rec
    BY <1>2, HereIsRec
  <1>5. Here(b) = h
    BY <1>3 DEF Here
  <1> HIDE DEF b
  <1>6. Given(b, last)
    <2>1. \A d \in Dir : Forget(wa.ends, h)[d] <= last
      BY <1>2 DEF Given, Forget
    <2> QED BY <1>2, <1>3, <2>1 DEF Given
  <1>7. Showing(b, table')
    <2>1. table'[h] # NoRow => table'[h] = table[h]
      BY <1>1, <1>2, <1>4 DEF TableFits
    <2> QED BY <1>2, <1>3, <1>5, <2>1 DEF Showing
  <1> QED BY <1>1, <1>2, <1>6, <1>7, PopFresh

LEMMA RecallFresh ==
    ASSUME IInv, Fresh, Recall
    PROVE  Fresh'
  <1> DEFINE b == Flagged(wa, FALSE)
  <1>1. /\ todo # <<>> /\ Head(todo).op = "recall" /\ last' = last /\ table' = table
        /\ Continue(b, <<>>)
    BY DEF Recall, Running
  <1>2. /\ Good(wa, table, last, wa.isInsert) /\ last \in Nat
        /\ Given(wa, last) /\ ~Backward(todo) /\ Showing(wa, table)
    BY <1>1, OtherHead
  <1>3. /\ b.list = wa.list /\ b.pos = wa.pos /\ b.ends = wa.ends /\ b.buf = wa.buf
        /\ b.hot = wa.hot /\ b.fEof = wa.fEof
    BY <1>2 DEF Flagged, Good, Loose, Area
  <1> HIDE DEF b
  <1>4. Given(b, last) /\ Showing(b, table)
    BY <1>2, <1>3 DEF Given, Showing, Here
  <1> QED BY <1>1, <1>2, <1>4, PopFresh

LEMMA SoughtAgainFresh ==
    ASSUME IInv, Fresh, SoughtAgain
    PROVE  Fresh'
  <1>1. /\ todo # <<>> /\ Head(todo).op = "sought" /\ last' = last /\ table' = table
        /\ (Continue(wa, <<>>) \/ Continue(Clean(wa), <<>>))
    BY DEF SoughtAgain, Running, Untouched
  <1>2. /\ Good(wa, table, last, wa.isInsert) /\ last \in Nat
        /\ Given(wa, last) /\ ~Backward(todo) /\ Showing(wa, table)
    BY <1>1, OtherHead
  <1>3. Showing(Clean(wa), table) /\ Given(Clean(wa), last)
    BY <1>2, PhantomShows
  <1> QED BY <1>1, <1>2, <1>3, PopFresh

LEMMA DropEditFresh ==
    ASSUME IInv, Fresh, DropEdit
    PROVE  Fresh'
  <1> DEFINE b == Cooled(wa)
  <1>1. /\ todo # <<>> /\ Head(todo).op = "cold" /\ last' = last /\ table' = table
        /\ Continue(b, <<>>) /\ wa.fEof
    BY DEF DropEdit, Running, Untouched
  <1>2. Good(wa, table, last, wa.isInsert) /\ last \in Nat /\ Given(wa, last) /\ ~Backward(todo)
    BY <1>1, OtherHead
  <1>3. b.list = wa.list /\ b.ends = wa.ends /\ b.fEof = wa.fEof
    BY <1>2 DEF Cooled, Good, Loose, Area
  <1> HIDE DEF b
  <1>4. Given(b, last) /\ Showing(b, table)
    BY <1>1, <1>2, <1>3 DEF Given, Showing
  <1> QED BY <1>1, <1>2, <1>4, PopFresh

(* A new record is the current one, and the buffer is its row. *)
LEMMA InsertFresh ==
    ASSUME IInv, Fresh, Insert
    PROVE  Fresh'
  <1> DEFINE m == last + 1
             b == [Alone(wa, m) EXCEPT !.del = <<FALSE>>, !.dir = wa.dir, !.rcount = m,
                            !.lastRec = last + 2,
                            !.hot = FALSE, !.isInsert = FALSE]
  <1>1. /\ todo # <<>> /\ Head(todo).op = "cold" /\ wa.isInsert /\ Continue(b, <<>>)
        /\ table' = [table EXCEPT ![m] = wa.buf] /\ last' = m
    BY DEF Insert, Running
  <1>2. /\ Good(wa, table, last, wa.isInsert) /\ TableFits(table, last) /\ last \in Nat
        /\ Given(wa, last) /\ (Backward(todo) => ~wa.fEof)
    BY <1>1, OtherHead
  <1>3. m \in Rec
    BY <1>1, Bounds DEF IInv, Room, Rec
  <1>4. b.list = <<m>> /\ b.pos = 1 /\ b.ends = wa.ends /\ b.fEof = wa.fEof /\ b.buf = wa.buf
    BY <1>2 DEF Alone, Good, Loose, Area
  <1>5. table'[m] = wa.buf
    BY <1>1, <1>2, <1>3 DEF TableFits
  <1> HIDE DEF b
  <1>6. m \in Nat /\ last <= m
    BY <1>2
  <1>7. \A d \in Dir : wa.ends[d] <= m
    <2>1. \A d \in Dir : wa.ends[d] \in 0..MaxRec /\ wa.ends[d] <= last
      BY <1>2 DEF Good, Loose, Area, Given
    <2> QED BY <1>2, <2>1
  <1> HIDE DEF m
  <1>8. Here(b) = m /\ \A j \in DOMAIN b.list : b.list[j] <= m
    BY <1>4, <1>6 DEF Here
  <1>9. Given(b, m) /\ Showing(b, table')
    BY <1>4, <1>5, <1>7, <1>8 DEF Given, Showing
  <1> QED BY <1>1, <1>2, <1>4, <1>6, <1>9, PopFresh

LEMMA UpdateFresh ==
    ASSUME IInv, Fresh, Update
    PROVE  Fresh'
  <1> DEFINE a == Prepared(wa)
             c == Shortened(a)
             h == Here(wa)
             b == Cooled(Refreshed(c))
  <1>1. /\ todo # <<>> /\ Head(todo).op = "cold" /\ last' = last /\ Continue(b, <<>>) /\ ~wa.fEof
        /\ table' = [table EXCEPT ![h] = IF @ = NoRow THEN NoRow ELSE wa.buf]
    BY DEF Update, Running
  <1>2. /\ Good(wa, table, last, wa.isInsert) /\ TableFits(table, last) /\ last \in Nat
        /\ Given(wa, last)
    BY <1>1, OtherHead
  <1>3. Good(a, table, last, wa.isInsert) /\ Here(a) = h /\ a.buf = wa.buf
    BY <1>2, PreparedOK
  <1>4. a.list = wa.list /\ a.ends = wa.ends /\ a.fEof = wa.fEof
    BY <1>2 DEF Prepared, Good, Loose, Area
  <1> HIDE DEF a
  <1>5. Good(c, table, last, wa.isInsert) /\ Here(c) = h
    BY <1>3, ShortenedOK
  <1>6. c.ends = wa.ends /\ c.fEof = wa.fEof /\ c.buf = wa.buf /\ (c.list = wa.list \/ c.list = <<h>>)
    BY <1>3, <1>4 DEF Shortened, Good, Loose, Area
  <1> HIDE DEF c
  <1>7. b.list = c.list /\ b.pos = c.pos /\ b.ends = c.ends /\ b.fEof = c.fEof /\ b.buf = c.buf
    BY <1>5 DEF Cooled, Refreshed, Good, Loose, Area
  <1> HIDE DEF b
  <1>8. h <= last /\ h \in Rec
    BY <1>2, HereGiven, HereIsRec
  <1> HIDE DEF h
  <1>9. Given(b, last)
    <2>1. ASSUME c.list = wa.list PROVE \A j \in DOMAIN c.list : c.list[j] <= last
      BY <1>2, <2>1 DEF Given
    <2>2. ASSUME c.list = <<h>> PROVE \A j \in DOMAIN c.list : c.list[j] <= last
      <3>1. DOMAIN <<h>> = {1} /\ <<h>>[1] = h
        OBVIOUS
      <3> QED BY <1>8, <2>2, <3>1
    <2>3. \A j \in DOMAIN c.list : c.list[j] <= last
      BY <1>6, <2>1, <2>2
    <2> QED BY <1>2, <1>6, <1>7, <2>3 DEF Given
  <1>10. Showing(b, table')
    <2>1. table'[h] # NoRow => table'[h] = wa.buf
      BY <1>1, <1>2, <1>8 DEF TableFits
    <2>2. Here(b) = h
      BY <1>5, <1>7 DEF Here
    <2> QED BY <1>6, <1>7, <2>1, <2>2 DEF Showing
  <1>11. todo # <<>> /\ Continue(b, <<>>)
    BY <1>1
  <1>12. last' \in Nat /\ last <= last' /\ Given(b, last')
    BY <1>1, <1>2, <1>9
  <1>13. ~b.fEof
    BY <1>1, <1>6, <1>7
  <1> QED BY <1>10, <1>11, <1>12, <1>13, PopFresh

(* SEEK shows the row found, or the phantom record. *)
LEMMA SeekFresh ==
    ASSUME IInv, Fresh, Seek
    PROVE  Fresh'
  <1> DEFINE d == Head(todo).d
             v == Head(todo).n
             soft == Head(todo).b
             a == WithSeekStmt(wa, d)
  <1>1. /\ todo # <<>> /\ Head(todo).op = "seek" /\ last' = last /\ table' = table
        /\ d \in Dir /\ v \in Nat /\ soft \in BOOLEAN
    BY HeadOK DEF Seek, Running, Untouched
  <1>2. /\ Good(wa, table, last, wa.isInsert) /\ TableFits(table, last) /\ last \in Nat
        /\ last \in 0..MaxRec /\ Given(wa, last) /\ ~Backward(todo)
    BY <1>1, OtherHead
  <1>3. PICK s \in Answers(table, order, d, SeekFrom(d, v), 1) :
            IF s = <<>> THEN Continue(Clean(a), <<>>) ELSE Sought(a, s[1], v, soft)
    BY DEF Seek
  <1>4. \A r \in SeekFrom(d, v) : r \in Rec /\ table[r] # NoRow
    BY DEF SeekFrom, Meeting
  <1> HIDE DEF d, v, soft
  <1>5. s \in Seq(Rec) /\ \A j \in DOMAIN s : s[j] <= last /\ table[s[j]] # NoRow
    BY <1>2, <1>4, ListGiven
  <1>6. Good(a, table, last, wa.isInsert) /\ a.list = wa.list /\ a.ends = wa.ends
    BY <1>1, <1>2 DEF WithSeekStmt, Good, Loose, Area
  <1> HIDE DEF a
  <1>7. Given(a, last)
    BY <1>2, <1>6 DEF Given
  <1>8. CASE s = <<>>
    <2>1. Continue(Clean(a), <<>>)
      BY <1>3, <1>8
    <2>2. Showing(Clean(a), table) /\ Given(Clean(a), last)
      BY <1>6, <1>7, PhantomShows
    <2> QED BY <1>1, <1>2, <2>1, <2>2, PopFresh
  <1>9. CASE s # <<>>
    <2> DEFINE r == s[1]
               z == <<r>>
               c == Listed(a, z, marked)
               b == [c EXCEPT !.buf = table[r]]
               f == Do("sought", FWD, v, soft)
               g == Do("filter", a.dir, 0, FALSE)
               y == IF setDeleted THEN <<f>> ELSE <<>>
               w == Filtering(a.dir) \o y
    <2>1. r \in Rec /\ r <= last /\ table[r] # NoRow
      BY <1>5, <1>9
    <2>2. \/ Continue(Clean(b), <<>>)
          \/ Continue(OnIt(b), w)
          \/ Continue(b, w)
      BY <1>3, <1>9 DEF Sought
    <2>3. f \in Frame /\ f.op = "sought" /\ g \in Frame /\ g.op = "filter"
      <3>1. a.dir \in Dir
        BY <1>6 DEF Good, Loose, Area
      <3> QED BY <1>1, <3>1, Bounds DEF Do, Frame
    <2>4. Filtering(a.dir) = IF setDeleted THEN <<g>> ELSE <<>>
      BY DEF Filtering
    <2> HIDE DEF f, g
    <2>5. w = IF setDeleted THEN <<g, f>> ELSE <<>>
      BY <2>3, <2>4, JoinedTwo
    <2> HIDE DEF w
    <2>6. Known(w, last) /\ Bottomed(w) /\ ~Backward(w) /\ w \in Seq(Frame)
      BY <2>3, <2>5 DEF Known, Bottomed, Backward, Final
    <2> HIDE DEF r
    <2>7. table[r] \in Val
      BY <1>2, <2>1 DEF TableFits, Row
    <2>8. z \in Seq(Rec) /\ z # <<>> /\ \A j \in DOMAIN z : z[j] <= last
      BY <2>1
    <2>9. Good(c, table, last, wa.isInsert)
      BY <1>6, <2>8, ListedOK DEF Good
    <2>10. c.list = z /\ c.pos = 1 /\ c.ends = a.ends
      BY <1>6 DEF Listed, Good, Loose, Area
    <2> HIDE DEF c
    <2>11. Good(b, table, last, wa.isInsert) /\ b.list = z /\ b.pos = 1 /\ b.ends = a.ends
           /\ b.buf = table[r]
      BY <2>7, <2>9, <2>10 DEF Good, Loose, Area
    <2> HIDE DEF b
    <2>12. Here(b) = r
      BY <2>11 DEF Here
    <2>13. Given(b, last)
      BY <1>7, <2>8, <2>11 DEF Given
    <2>14. Showing(b, table)
      BY <2>11, <2>12 DEF Showing
    <2>15. Showing(OnIt(b), table) /\ Given(OnIt(b), last)
      BY <2>11, <2>12, <2>13, OnItShows
    <2>16. Showing(Clean(b), table) /\ Given(Clean(b), last)
      BY <2>11, <2>13, PhantomShows
    <2>17. CASE Continue(Clean(b), <<>>)
      BY <1>1, <1>2, <2>16, <2>17, PopFresh
    <2>18. ASSUME NEW x, Continue(x, w), Showing(x, table), Given(x, last)
           PROVE  Fresh'
      <3>1. Tail(todo) = <<>>
        BY <1>1, HeadFresh DEF Final
      <3>2. w \o <<>> = w
        BY <2>6, ConcatEmptySeq, Zenon
      <3>3. Goes(x, w)
        BY <2>18, <3>1, <3>2 DEF Continue
      <3>4. Retreat(x, w)
        BY <2>6 DEF Retreat
      <3>5. GoTos \subseteq 0..MaxRec
        BY ListAssumption
      <3> QED BY <1>1, <1>2, <2>6, <2>18, <3>3, <3>4, <3>5, StepFresh
    <2> QED BY <2>2, <2>13, <2>14, <2>15, <2>17, <2>18
  <1> QED BY <1>8, <1>9

-----------------------------------------------------------------------------
(* The calls of the application, and another user *)

LEMMA OtherInsertsFresh ==
    ASSUME IInv, Fresh, NEW v \in Val, OtherInserts(v)
    PROVE  Fresh'
  <1> DEFINE m == last + 1
  <1>1. /\ wa.list # <<>> /\ table' = [table EXCEPT ![m] = v] /\ last' = m
        /\ UNCHANGED <<setDeleted, wa, todo>>
    BY DEF OtherInserts
  <1>2. Good(wa, table, last, wa.isInsert) /\ TableFits(table, last) /\ last \in Nat /\ Given(wa, last)
    BY <1>1, ListedHere, Bounds DEF IInv, Fresh
  <1>3. m \in Nat /\ last < m
    BY <1>2
  <1> HIDE DEF m
  <1>4. Given(wa, m)
    <2>1. \A j \in DOMAIN wa.list : wa.list[j] \in Nat /\ wa.list[j] <= last
      <3>1. wa.list \in Seq(Rec)
        BY <1>2 DEF Good, Loose, Area
      <3>2. \A j \in DOMAIN wa.list : wa.list[j] \in Rec
        BY <3>1
      <3>3. \A j \in DOMAIN wa.list : wa.list[j] \in Nat
        BY <3>2, Bounds
      <3>4. \A j \in DOMAIN wa.list : wa.list[j] <= last
        BY <1>2 DEF Given
      <3> QED BY <3>3, <3>4
    <2>2. \A d \in Dir : wa.ends[d] \in Nat /\ wa.ends[d] <= last
      <3>1. wa.ends \in [Dir -> 0..MaxRec]
        BY <1>2 DEF Good, Loose, Area
      <3> QED BY <3>1, <1>2, Bounds DEF Given
    <2> QED BY <1>2, <1>3, <2>1, <2>2 DEF Given
  <1>5. Known(todo, m)
    <2> SUFFICES ASSUME NEW j \in DOMAIN todo, todo[j].op = "goto" PROVE todo[j].n <= m
      BY DEF Known
    <2>1. todo[j].n <= last /\ todo[j] \in Frame
      BY DEF Fresh, Known, IInv, Stack
    <2>2. todo[j].n \in Nat
      BY <2>1 DEF Frame
    <2> QED BY <1>2, <1>3, <2>1, <2>2
  <1>6. Showing(wa, table) => Showing(wa, table')
    <2> DEFINE h == Here(wa)
    <2>1. h <= last /\ h \in Rec
      BY <1>2, HereGiven, HereIsRec
    <2>2. h \in Nat
      BY <2>1, Bounds
    <2> HIDE DEF h
    <2>3. h # m
      BY <1>2, <1>3, <2>1, <2>2
    <2>4. table'[h] = table[h]
      BY <1>1, <1>2, <2>1, <2>3 DEF TableFits
    <2> QED BY <2>4 DEF Showing, h
  <1>7. \A r \in GoTos : r <= m
    <2>1. \A r \in GoTos : r <= last
      BY DEF Fresh, Setting
    <2>2. GoTos \subseteq Nat
      BY ListAssumption, Bounds
    <2> QED BY <1>2, <1>3, <2>1, <2>2
  <1>8. Setting'
    BY <1>1, <1>7 DEF Fresh, Setting
  <1>9. Retreat(wa, todo)'
    BY <1>1 DEF Fresh, Retreat
  <1> QED BY <1>1, <1>4, <1>5, <1>6, <1>8, <1>9 DEF Fresh

LEMMA OtherDeletesFresh ==
    ASSUME IInv, Fresh, NEW r \in Rec, OtherDeletes(r)
    PROVE  Fresh'
  <1>1. /\ wa.list # <<>> /\ table' = [table EXCEPT ![r] = NoRow]
        /\ UNCHANGED <<last, setDeleted, wa, todo>>
    BY DEF OtherDeletes
  <1>2. Good(wa, table, last, wa.isInsert) /\ TableFits(table, last)
    BY <1>1, ListedHere DEF IInv
  <1>3. Showing(wa, table) => Showing(wa, table')
    <2>1. Here(wa) \in Rec
      BY <1>2, HereIsRec
    <2>2. table'[Here(wa)] # NoRow => table'[Here(wa)] = table[Here(wa)]
      BY <1>1, <1>2, <2>1 DEF TableFits
    <2> QED BY <2>2 DEF Showing
  <1>4. Setting'
    BY <1>1 DEF Fresh, Setting
  <1>5. Retreat(wa, todo)'
    BY <1>1 DEF Fresh, Retreat
  <1> QED BY <1>1, <1>3, <1>4, <1>5 DEF Fresh

(* A call begins: the pending edit is written before its own first step. *)
LEMMA BeginFresh ==
    ASSUME IInv, Fresh, NEW c \in Frame, c.op # "cold", c.op = "goto" => c.n <= last,
           NEW a, Begin(c, a), Given(a, last),
           c.op = "skip" /\ c.d = BWD => ~setDeleted /\ ~a.fEof,
           wa.hot => a.hot,
           ~wa.hot => Repairs(a, <<c>>) \/ Showing(a, table)
    PROVE  Fresh'
  <1> DEFINE f == Do("cold", FWD, 0, FALSE)
  <1>1. /\ wa' = a /\ todo' = IF wa.hot THEN <<f, c>> ELSE <<c>>
        /\ table' = table /\ last' = last /\ setDeleted' = setDeleted
    BY DEF Begin
  <1>2. f \in Frame /\ f.op = "cold"
    BY Bounds DEF Do, Frame
  <1> HIDE DEF f
  <1>3. Setting'
    BY <1>1 DEF Fresh, Setting
  <1>4. CASE wa.hot
    <2> DEFINE s == <<f, c>>
    <2>1. todo' = s
      BY <1>1, <1>4
    <2>2. Known(s, last) /\ Bottomed(s)
      BY <1>2 DEF Known, Bottomed, Final
    <2>3. Backward(s) => c.op = "skip" /\ c.d = BWD
      BY DEF Backward
    <2>4. \A j \in DOMAIN s : j # Len(s) => Retreats(s[j])
      BY <1>2 DEF Retreats
    <2>5. Retreat(a, s)
      BY <2>3, <2>4 DEF Retreat
    <2> HIDE DEF s
    <2>6. Retreat(wa, todo)'
      BY <1>1, <2>1, <2>5 DEF Retreat
    <2>7. Showing(a, table)
      BY <1>4 DEF Showing
    <2> QED BY <1>1, <1>3, <2>1, <2>2, <2>6, <2>7 DEF Fresh
  <1>5. CASE ~wa.hot
    <2> DEFINE s == <<c>>
    <2>1. todo' = s
      BY <1>1, <1>5
    <2>2. Known(s, last) /\ Bottomed(s)
      BY DEF Known, Bottomed, Final
    <2>3. Backward(s) => c.op = "skip" /\ c.d = BWD
      BY DEF Backward
    <2>4. \A j \in DOMAIN s : j # Len(s) => Retreats(s[j])
      OBVIOUS
    <2>5. Retreat(a, s)
      BY <2>3, <2>4 DEF Retreat
    <2>6. Repairs(a, s) \/ Showing(a, table)
      BY <1>5
    <2> HIDE DEF s
    <2>7. Retreat(wa, todo)'
      BY <1>1, <2>1, <2>5 DEF Retreat
    <2> QED BY <1>1, <1>3, <2>1, <2>2, <2>6, <2>7 DEF Fresh
  <1> QED BY <1>4, <1>5

LEMMA SetsFresh ==
    ASSUME IInv, Fresh, NEW a, Sets(a), Given(a, last), Showing(a, table)
    PROVE  Fresh'
  <1>1. /\ wa' = a /\ todo = <<>> /\ todo' = todo
        /\ table' = table /\ last' = last /\ setDeleted' = setDeleted
    BY DEF Sets, Idle
  <1>2. Setting' /\ Retreat(wa, todo)'
    BY <1>1 DEF Fresh, Setting, Retreat, Backward
  <1> QED BY <1>1, <1>2 DEF Fresh

LEMMA CallingFresh ==
    ASSUME IInv, Fresh, Calling
    PROVE  Fresh'
  <1>1. Idle
    BY DEF Calling, CallFlush, CallAppend, CallDelete, CallRecall, RecCount, KeyCount, CallSkip,
           CallGoTo, CallGo, CallSeek, PutValue, SetOrder, SetFilter, SetScope, Call, Resets,
           Begin, Sets
  <1>2. Good(wa, table, last, wa.isInsert) /\ last \in Nat
    BY <1>1, GoodHere, Bounds DEF Idle, Running, IInv
  <1>3. Given(wa, last) /\ Showing(wa, table)
    BY <1>1 DEF Fresh, Repairs, Idle
  <1>4. FWD \in Dir /\ BWD \in Dir /\ 0 \in Nat /\ FWD # BWD /\ Dir = {FWD, BWD}
    BY Bounds DEF FWD, BWD, Dir
  <1>5. ASSUME NEW op \in {"flush", "append", "delete", "recall"}, Call(Do(op, FWD, 0, FALSE), wa)
        PROVE  Fresh'
    <2> DEFINE c == Do(op, FWD, 0, FALSE)
    <2>1. c \in Frame /\ c.op = op /\ c.op \notin {"cold", "goto", "skip"} /\ Begin(c, wa)
      BY <1>4, <1>5 DEF Do, Frame, Call
    <2> HIDE DEF c
    <2> QED BY <1>3, <2>1, BeginFresh
  <1>6. ASSUME CallFlush \/ CallAppend \/ CallDelete \/ CallRecall PROVE Fresh'
    BY <1>5, <1>6 DEF CallFlush, CallAppend, CallDelete, CallRecall
  <1>7. ASSUME NEW c \in Frame, c.op \in {"go", "goto", "seek"}, c.op = "goto" => c.n <= last,
               NEW a, Begin(c, a), a.list = wa.list, \A d \in Dir : a.ends[d] <= last,
               a.hot = wa.hot
        PROVE  Fresh'
    <2>1. Given(a, last)
      BY <1>3, <1>7 DEF Given
    <2>2. <<c>> # <<>> /\ Head(<<c>>) = c
      OBVIOUS
    <2>3. Repairs(a, <<c>>)
      BY <1>7, <2>2 DEF Repairs
    <2>4. c.op # "cold" /\ c.op # "skip"
      BY <1>7
    <2> QED BY <1>7, <2>1, <2>3, <2>4, BeginFresh
  <1>8. \A d \in Dir : wa.ends[d] <= last
    BY <1>3 DEF Given
  <1>9. ASSUME NEW d \in Dir, CallGo(d) PROVE Fresh'
    <2> DEFINE c == Do("go", d, 0, FALSE)
    <2>1. c \in Frame /\ c.op = "go" /\ Begin(c, wa)
      BY <1>4, <1>9 DEF Do, Frame, CallGo, Call
    <2> HIDE DEF c
    <2> QED BY <1>7, <1>8, <2>1
  <1>10. ASSUME NEW r \in GoTos, CallGoTo(r) PROVE Fresh'
    <2> DEFINE c == Do("goto", FWD, r, FALSE)
    <2>1. r \in Nat /\ r <= last
      BY ListAssumption, Bounds DEF Fresh, Setting
    <2>2. c \in Frame /\ c.op = "goto" /\ c.n = r /\ Begin(c, wa)
      BY <1>4, <1>10, <2>1 DEF Do, Frame, CallGoTo, Call
    <2> HIDE DEF c
    <2> QED BY <1>7, <1>8, <2>1, <2>2
  <1>11. ASSUME NEW n \in Skips, CallSkip(n) PROVE Fresh'
    <2> DEFINE c == Do("skip", IF n > 0 THEN FWD ELSE BWD, IF n > 0 THEN n ELSE -n, FALSE)
               k == Current(wa)
               a == [wa EXCEPT !.cur = k, !.fBottom = FALSE, !.fBof = FALSE, !.fEof = FALSE]
    <2>1. n \in Int \ {0}
      BY <1>11, ListAssumption
    <2>2. c \in Frame /\ c.op = "skip" /\ c.n > 0 /\ c.d \in {FWD, BWD} /\ (c.d = BWD => ~(n > 0))
      BY <2>1, <1>4 DEF Do, Frame
    <2>3. Begin(c, a)
      BY <1>11 DEF CallSkip, Call
    <2>4. c.d = BWD => ~setDeleted
      <3>1. setDeleted => n \in Nat
        BY <1>11 DEF Fresh, Setting
      <3>2. n \in Nat => n > 0
        BY <2>1
      <3> QED BY <2>2, <3>1, <3>2
    <2> HIDE DEF c, k
    <2>5. /\ a.list = wa.list /\ a.pos = wa.pos /\ a.ends = wa.ends /\ a.buf = wa.buf
          /\ a.hot = wa.hot /\ a.cur = k /\ a.lastRec = wa.lastRec /\ a.fBof = FALSE
          /\ a.fEof = FALSE
      BY <1>2 DEF Good, Loose, Area
    <2> HIDE DEF a
    <2>6. Given(a, last)
      BY <1>3, <2>5 DEF Given
    <2>7. Repairs(a, <<c>>) \/ Showing(a, table)
      <3>1. CASE wa.fEof
        <4>1. k = wa.lastRec
          BY <3>1 DEF k, Current
        <4>2. <<c>> # <<>> /\ Head(<<c>>) = c
          OBVIOUS
        <4> QED BY <2>2, <2>5, <4>1, <4>2 DEF Repairs, Mends
      <3>2. CASE ~wa.fEof
        BY <1>3, <2>5, <3>2 DEF Showing, Here
      <3> QED BY <3>1, <3>2
    <2> QED BY <2>2, <2>3, <2>4, <2>5, <2>6, <2>7, BeginFresh
  <1>12. ASSUME NEW d \in Dir, NEW v \in Seeks, NEW soft \in BOOLEAN, CallSeek(d, v, soft)
         PROVE  Fresh'
    <2> DEFINE c == Do("seek", d, v, soft)
               a == [wa EXCEPT !.fBottom = FALSE, !.fEof = FALSE]
    <2>1. v \in Nat
      BY ListAssumption, Bounds
    <2>2. c \in Frame /\ c.op = "seek" /\ Begin(c, a)
      BY <1>12, <2>1 DEF Do, Frame, CallSeek, Call
    <2> HIDE DEF c
    <2>3. a.list = wa.list /\ a.ends = wa.ends /\ a.hot = wa.hot
      BY <1>2 DEF Good, Loose, Area
    <2> HIDE DEF a
    <2> QED BY <1>7, <1>8, <2>2, <2>3
  <1>13. ASSUME NEW a, Sets(a), a.list = wa.list, a.pos = wa.pos, a.ends = wa.ends,
                a.hot = TRUE \/ (a.hot = wa.hot /\ a.fEof = wa.fEof /\ a.buf = wa.buf)
         PROVE  Fresh'
    <2>1. Given(a, last) /\ Showing(a, table)
      BY <1>3, <1>13 DEF Given, Showing, Here
    <2> QED BY <1>13, <2>1, SetsFresh
  <1>14. ASSUME RecCount PROVE Fresh'
    <2> DEFINE m == wa.rcount + (IF wa.isInsert /\ wa.hot THEN 2 ELSE 1)
               a == [wa EXCEPT !.lastRec = m]
    <2>1. Sets(a)
      BY <1>14 DEF RecCount
    <2> HIDE DEF m
    <2>2. /\ a.list = wa.list /\ a.pos = wa.pos /\ a.ends = wa.ends /\ a.hot = wa.hot
          /\ a.fEof = wa.fEof /\ a.buf = wa.buf
      BY <1>2 DEF Good, Loose, Area
    <2> HIDE DEF a
    <2> QED BY <1>13, <2>1, <2>2
  <1>15. ASSUME KeyCount PROVE Fresh'
    <2> DEFINE a == [wa EXCEPT !.dir = FWD, !.condChanged = FALSE]
    <2>1. Sets(a)
      BY <1>15 DEF KeyCount
    <2>2. /\ a.list = wa.list /\ a.pos = wa.pos /\ a.ends = wa.ends /\ a.hot = wa.hot
          /\ a.fEof = wa.fEof /\ a.buf = wa.buf
      BY <1>2 DEF Good, Loose, Area
    <2> HIDE DEF a
    <2> QED BY <1>13, <2>1, <2>2
  <1>16. ASSUME NEW v \in Val, PutValue(v) PROVE Fresh'
    <2> DEFINE a == [wa EXCEPT !.buf = v, !.hot = TRUE]
    <2>1. Sets(a)
      BY <1>16 DEF PutValue
    <2>2. a.list = wa.list /\ a.pos = wa.pos /\ a.ends = wa.ends /\ a.hot = TRUE
      BY <1>2 DEF Good, Loose, Area
    <2> HIDE DEF a
    <2> QED BY <1>13, <2>1, <2>2
  <1>17. ASSUME NEW a, Resets(a), a.list = wa.list, \A d \in Dir : a.ends[d] <= last, a.hot = wa.hot
         PROVE  Fresh'
    <2> DEFINE c == Do("go", FWD, 0, FALSE)
    <2>1. c \in Frame /\ c.op = "go" /\ Begin(c, a)
      BY <1>4, <1>17 DEF Do, Frame, Resets
    <2> HIDE DEF c
    <2> QED BY <1>7, <1>17, <2>1
  <1> DEFINE e0 == [d \in Dir |-> 0]
  <1>18. \A d \in Dir : e0[d] <= last
    BY <1>2
  <1> HIDE DEF e0
  <1>19. ASSUME NEW o \in {"recno", "index"}, SetOrder(o) PROVE Fresh'
    <2> DEFINE x == wa.orderChanged \/ o # order
               e == IF o # order THEN e0 ELSE wa.ends
               f == IF o = "index" THEN [d \in Dir |-> None] ELSE wa.stmt
               a == [wa EXCEPT !.orderChanged = x, !.ends = e, !.stmt = f]
    <2>1. Resets(a)
      BY <1>19 DEF SetOrder, e0
    <2>2. \A d \in Dir : e[d] <= last
      BY <1>8, <1>18
    <2> HIDE DEF x, e, f
    <2>3. a.list = wa.list /\ a.ends = e /\ a.hot = wa.hot
      BY <1>2 DEF Good, Loose, Area
    <2> HIDE DEF a
    <2> QED BY <1>17, <2>1, <2>2, <2>3
  <1>20. ASSUME NEW s \in Conditions, SetFilter(s) \/ SetScope(s) PROVE Fresh'
    <2> DEFINE a == [wa EXCEPT !.condChanged = TRUE]
               b == [wa EXCEPT !.condChanged = TRUE, !.ends = e0]
    <2>1. Resets(a) \/ Resets(b)
      BY <1>20 DEF SetFilter, SetScope, e0
    <2>2. a.list = wa.list /\ a.ends = wa.ends /\ a.hot = wa.hot
      BY <1>2 DEF Good, Loose, Area
    <2>3. b.list = wa.list /\ b.ends = e0 /\ b.hot = wa.hot
      BY <1>2 DEF Good, Loose, Area
    <2> HIDE DEF a, b
    <2> QED BY <1>8, <1>17, <1>18, <2>1, <2>2, <2>3
  <1> QED BY <1>6, <1>9, <1>10, <1>11, <1>12, <1>14, <1>15, <1>16, <1>19, <1>20 DEF Calling

-----------------------------------------------------------------------------
(* The invariant *)

LEMMA InitFresh ==
    ASSUME SkipsSafe, GoTosGiven, Init
    PROVE  Fresh
  <1>1. PICK s \in Starts : table = s.table /\ setDeleted = s.setDeleted
    BY DEF Init
  <1>2. last \in Rec /\ \A x \in Rec : x > last => table[x] = NoRow
    BY DEF Init
  <1>3. Setting
    <2>1. ASSUME NEW r \in GoTos PROVE r <= last
      <3>1. r \in Nat
        BY ListAssumption, Bounds
      <3>2. CASE r = 0
        BY <1>2, <3>2, Bounds
      <3>3. CASE r # 0
        <4>1. PICK x \in Rec : r <= x /\ table[x] # NoRow
          BY <1>1, <3>3 DEF GoTosGiven
        <4>2. x \in Nat /\ last \in Nat /\ ~(x > last)
          BY <1>2, <4>1, Bounds
        <4> QED BY <3>1, <4>1, <4>2
      <3> QED BY <3>2, <3>3
    <2> QED BY <1>1, <2>1 DEF Setting, SkipsSafe
  <1> DEFINE g == Do("go", FWD, 0, FALSE)
  <1>4. g.op = "go"
    BY DEF Do
  <1>5. wa = Opened(last) /\ todo = <<g>>
    BY DEF Init
  <1> HIDE DEF g
  <1>6. wa.list = <<>> /\ \A d \in Dir : wa.ends[d] = 0
    BY <1>5 DEF Opened
  <1>7. Given(wa, last)
    BY <1>2, <1>6, Bounds DEF Given
  <1>8. todo # <<>> /\ Head(todo) = g /\ DOMAIN todo = {1} /\ todo[1] = g /\ Len(todo) = 1
    BY <1>5
  <1>9. Known(todo, last) /\ Bottomed(todo) /\ Retreat(wa, todo)
    BY <1>4, <1>8 DEF Known, Bottomed, Retreat, Backward, Final
  <1>10. Repairs(wa, todo)
    BY <1>4, <1>8 DEF Repairs
  <1> QED BY <1>3, <1>7, <1>9, <1>10 DEF Fresh

LEMMA NextFresh ==
    ASSUME IInv, Fresh, [Next]_vars
    PROVE  Fresh'
  <1>1. ASSUME Step PROVE Fresh'
    <2>1. ASSUME NEW d \in Dir, GoEnd(d) \/ RawInList(d) \/ RawAtEnd(d) \/ RawQuery(d) PROVE Fresh'
      BY <2>1, GoEndFresh, RawInListFresh, RawAtEndFresh, RawQueryFresh
    <2> QED BY <1>1, <2>1, InsertFresh, UpdateFresh, DropEditFresh, SkipFresh, SkipFilterFresh,
               RaiseBofFresh, RawFromPhantomFresh, FlushFresh, GoToFresh, Append1Fresh,
               DeleteRecFresh, RecallFresh, SeekFresh, SoughtAgainFresh DEF Step
  <1>2. ASSUME Other PROVE Fresh'
    <2>1. Marks \subseteq Rec
      BY ListAssumption
    <2> QED BY <1>2, <2>1, OtherInsertsFresh, OtherDeletesFresh DEF Other
  <1>3. ASSUME UNCHANGED vars PROVE Fresh'
    <2>1. UNCHANGED <<table, last, setDeleted, wa, todo>>
      BY <1>3 DEF vars
    <2> QED BY <2>1 DEF Fresh, Setting, Retreat
  <1> QED BY <1>1, <1>2, <1>3, CallingFresh DEF Next

(* Between calls aBuffer shows the row the table has for the current record,  *)
(* whatever other users insert and delete, and whichever steps the call had.  *)
THEOREM BufferStaysTrue ==
    ASSUME SkipsSafe, GoTosGiven
    PROVE  Spec => []BufferShowsRecord
  <1>1. Init => IInv /\ Fresh
    BY InitOK, InitFresh
  <1>2. (IInv /\ Fresh) /\ [Next]_vars => (IInv /\ Fresh)'
    BY NextOK, NextFresh
  <1>3. IInv /\ Fresh => BufferShowsRecord
    BY DEF Fresh, Repairs, BufferShowsRecord, Showing, Idle
  <1> QED BY <1>1, <1>2, <1>3, PTL DEF Spec
=============================================================================
