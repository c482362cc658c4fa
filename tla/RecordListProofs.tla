-------------------------- MODULE RecordListProofs --------------------------
(***************************************************************************)
(* Proofs about RecordList: the types of its variables, that the pool of   *)
(* rows agrees with the table, and that an edit is written to the record   *)
(* the application saw.                                                    *)
(***************************************************************************)
EXTENDS RecordList, FiniteSetTheorems, SequenceTheorems, TLAPS

-----------------------------------------------------------------------------
(* What every step keeps of the area, and what the operators return *)

(* Rows of the pool are of records given, and agree with those of table t. *)
PoolFits(pool, t, n) ==
    \A r \in Rec : pool[r] # NoRow => r <= n /\ (t[r] # NoRow => pool[r] = t[r])

TableFits(t, n) == t \in [Rec -> Row] /\ \A r \in Rec : t[r] # NoRow => r <= n

(* An area in insert mode or not (i) over table t, of n records. *)
Loose(a, t, n, i) == a \in Area /\ PoolFits(a.pool, t, n) /\ a.isInsert = i

(* It has a current record: the first GO TOP has brought a list. *)
Good(a, t, n, i) ==
    /\ Loose(a, t, n, i)
    /\ a.pos \in DOMAIN a.list
    /\ Len(a.del) = Len(a.list)

(* The bounds are numbers, and the blank value is one of the column's. *)
LEMMA Bounds ==
    /\ MaxRec \in Nat /\ MaxVal \in Nat /\ MaxDepth \in Nat /\ PoolSize \in Nat
    /\ ListSize \in Nat \ {0} /\ TopSize \in Nat \ {0} /\ PageSize \in Nat \ {0}
    /\ 0 \in Val /\ Val \subseteq Nat /\ Rec \subseteq Nat \ {0} /\ NoRow \notin Val
    /\ 1 \in Dir /\ -1 \in Dir /\ FWD \in Dir /\ BWD \in Dir /\ \A d \in Dir : -d \in Dir
  <1>1. /\ {MaxRec, MaxVal, MaxDepth, PoolSize} \subseteq Nat /\ NoRow \notin Val
        /\ {ListSize, TopSize, PageSize} \subseteq Nat \ {0}
    BY ListAssumption
  <1>2. 0 \in Val /\ Val \subseteq Nat /\ Rec \subseteq Nat \ {0}
    BY <1>1 DEF Val, Rec
  <1>3. Dir = {1, -1}
    BY DEF Dir, FWD, BWD
  <1>4. 1 \in Dir /\ -1 \in Dir /\ FWD \in Dir /\ BWD \in Dir
    BY <1>3 DEF FWD, BWD
  <1>5. \A d \in Dir : -d \in Dir
    BY <1>3
  <1> QED BY <1>1, <1>2, <1>4, <1>5

LEMMA HereIsRec ==
    ASSUME NEW a, NEW t, NEW n, NEW i, Good(a, t, n, i)
    PROVE  Here(a) \in Rec
  BY DEF Good, Loose, Area, Here

(* Current(a) is a number. *)
LEMMA CurrentIsNat ==
    ASSUME NEW a, NEW t, NEW n, NEW i, Good(a, t, n, i)
    PROVE  Current(a) \in Nat
  <1>1. Here(a) \in Nat
    BY HereIsRec, Bounds
  <1> QED BY <1>1 DEF Good, Loose, Area, Current

(* The phantom record, and an end met, leave the list and the pool alone. *)
LEMMA CleanOK ==
    ASSUME NEW a, NEW t, NEW n, NEW i, Good(a, t, n, i)
    PROVE  Good(Clean(a), t, n, i)
  <1>1. 0 \in Val /\ (a \in Area => a.rcount + 1 \in Nat)
    BY Bounds DEF Area
  <1> QED BY <1>1 DEF Good, Loose, Area, Clean

LEMMA FlagsOK ==
    ASSUME NEW a, NEW t, NEW n, NEW i, Good(a, t, n, i)
    PROVE  /\ Good([a EXCEPT !.fBof = TRUE], t, n, i)
           /\ Good([a EXCEPT !.fBof = FALSE], t, n, i)
           /\ Good([a EXCEPT !.fEof = FALSE], t, n, i)
           /\ Good([a EXCEPT !.hot = FALSE], t, n, i)
           /\ Good(OnIt(a), t, n, i)
  <1>1. Good([a EXCEPT !.fBof = TRUE], t, n, i) /\ Good([a EXCEPT !.fBof = FALSE], t, n, i)
    BY DEF Good, Loose, Area
  <1>2. Good([a EXCEPT !.fEof = FALSE], t, n, i) /\ Good([a EXCEPT !.hot = FALSE], t, n, i)
    BY DEF Good, Loose, Area
  <1>3. Good(OnIt(a), t, n, i)
    BY DEF Good, Loose, Area, OnIt
  <1> QED BY <1>1, <1>2, <1>3

LEMMA PhantomOK ==
    ASSUME NEW a, NEW t, NEW n, NEW i, Good(a, t, n, i)
    PROVE  Good(Phantom(a), t, n, i)
  <1>1. Good(Clean(a), t, n, i)
    BY CleanOK
  <1> QED BY <1>1, FlagsOK DEF Phantom

LEMMA StopOK ==
    ASSUME NEW a, NEW t, NEW n, NEW i, NEW d, Good(a, t, n, i)
    PROVE  Good(Stop(a, d), t, n, i)
  BY CleanOK, FlagsOK DEF Stop

LEMMA EndOK ==
    ASSUME NEW a, NEW t, NEW n, NEW i, Good(a, t, n, i), NEW d \in Dir, NEW e \in 0..MaxRec
    PROVE  Good([a EXCEPT !.ends[d] = e], t, n, i)
  <1> DEFINE f == [a.ends EXCEPT ![d] = e]
  <1>1. f \in [Dir -> 0..MaxRec]
    BY DEF Good, Loose, Area
  <1>2. [a EXCEPT !.ends[d] = e] = [a EXCEPT !.ends = f]
    OBVIOUS
  <1> HIDE DEF f
  <1> QED BY <1>1, <1>2 DEF Good, Loose, Area

(* Another list makes its first record the current one. *)
LEMMA ListedOK ==
    ASSUME NEW a, NEW t, NEW n, NEW i, Loose(a, t, n, i),
           NEW s \in Seq(Rec), s # <<>>, NEW M
    PROVE  Good(Listed(a, s, M), t, n, i)
  <1> DEFINE e == [j \in 1..Len(s) |-> s[j] \in M]
  <1>1. e \in Seq(BOOLEAN) /\ Len(e) = Len(s) /\ 1 \in DOMAIN s
    OBVIOUS
  <1>2. Listed(a, s, M) = [a EXCEPT !.list = s, !.del = e, !.pos = 1]
    BY DEF Listed
  <1> HIDE DEF e
  <1>3. [a EXCEPT !.list = s, !.del = e, !.pos = 1] \in Area
    BY <1>1 DEF Loose, Area
  <1>4. /\ Listed(a, s, M).list = s /\ Listed(a, s, M).del = e /\ Listed(a, s, M).pos = 1
        /\ Listed(a, s, M).pool = a.pool /\ Listed(a, s, M).isInsert = a.isInsert
    BY <1>2 DEF Loose, Area
  <1> QED BY <1>1, <1>2, <1>3, <1>4 DEF Good, Loose

LEMMA AloneOK ==
    ASSUME NEW a, NEW t, NEW n, NEW i, Loose(a, t, n, i), NEW r \in Rec
    PROVE  Good(Alone(a, r), t, n, i) /\ Here(Alone(a, r)) = r
  <1> DEFINE m == MarkLeft(a)
  <1>0. m \in BOOLEAN
    BY DEF MarkLeft, Loose, Area
  <1> HIDE DEF m
  <1>1. <<r>> \in Seq(Rec) /\ <<m>> \in Seq(BOOLEAN) /\ Len(<<r>>) = 1 /\ Len(<<m>>) = 1
    BY <1>0
  <1>2. FWD \in Dir
    BY Bounds
  <1>3. 1 \in DOMAIN <<r>> /\ <<r>>[1] = r
    OBVIOUS
  <1> DEFINE b == Alone(a, r)
  <1>4. b = [a EXCEPT !.list = <<r>>, !.del = <<m>>, !.pos = 1, !.dir = FWD]
    BY DEF Alone, m
  <1> HIDE DEF b
  <1>5. b \in Area /\ b.pool = a.pool /\ b.isInsert = a.isInsert
    BY <1>1, <1>2, <1>4 DEF Loose, Area
  <1>6. b.list = <<r>> /\ b.del = <<m>> /\ b.pos = 1
    BY <1>4 DEF Loose, Area
  <1>7. Good(b, t, n, i) /\ Here(b) = r
    BY <1>1, <1>3, <1>5, <1>6 DEF Good, Loose, Here
  <1> QED BY <1>7 DEF b

(* The pool after a page agrees with the table the page was read from. *)
LEMMA PoolWithOK ==
    ASSUME NEW a, NEW t, NEW n, NEW i, Good(a, t, n, i), TableFits(t, n)
    PROVE  PoolWith(a, t) \in [Rec -> Row] /\ PoolFits(PoolWith(a, t), t, n)
  <1>1. a.pool \in [Rec -> Row] /\ NoRow \in Row
    BY DEF Good, Loose, Area, Row
  <1> QED BY <1>1 DEF Good, Loose, PoolWith, PoolFits, TableFits

LEMMA PageReadOK ==
    ASSUME NEW a, NEW t, NEW n, NEW i, Good(a, t, n, i), TableFits(t, n), NEW M
    PROVE  Good(PageRead(a, t, M), t, n, i)
  <1>1. PoolWith(a, t) \in [Rec -> Row] /\ PoolFits(PoolWith(a, t), t, n)
    BY PoolWithOK
  <1>2. Here(a) \in Rec
    BY HereIsRec
  <1> DEFINE p == PoolWith(a, t)
             m == Here(a) \in M
  <1>3. p \in [Rec -> Row] /\ PoolFits(p, t, n) /\ m \in BOOLEAN
        /\ (t[Here(a)] # NoRow => t[Here(a)] \in Val)
    BY <1>1, <1>2 DEF TableFits, Row
  <1>4. PageRead(a, t, M) = IF t[Here(a)] = NoRow THEN [a EXCEPT !.pool = p]
                            ELSE [a EXCEPT !.pool = p, !.buf = t[Here(a)], !.del[a.pos] = m]
    BY DEF PageRead
  <1> HIDE DEF p, m
  <1>5. CASE t[Here(a)] = NoRow
    <2>1. PageRead(a, t, M) = [a EXCEPT !.pool = p]
      BY <1>4, <1>5
    <2> QED BY <2>1, <1>3 DEF Good, Loose, Area
  <1>6. CASE t[Here(a)] # NoRow
    <2> DEFINE e == [a.del EXCEPT ![a.pos] = m]
    <2>1. e \in Seq(BOOLEAN) /\ Len(e) = Len(a.del)
      <3>1. a.del \in Seq(BOOLEAN) /\ a.pos \in 1..Len(a.del)
        BY DEF Good, Loose, Area
      <3> QED BY <3>1, <1>3
    <2>2. PageRead(a, t, M) = [a EXCEPT !.pool = p, !.buf = t[Here(a)], !.del = e]
      BY <1>4, <1>6
    <2> HIDE DEF e
    <2> QED BY <2>1, <2>2, <1>3, <1>6 DEF Good, Loose, Area
  <1> QED BY <1>5, <1>6

(* A read fills the buffer from the pool or from a page. *)
LEMMA ReadOK ==
    ASSUME NEW a, NEW t, NEW n, NEW i, Good(a, t, n, i), TableFits(t, n), NEW M
    PROVE  Good(Read(a, t, M), t, n, i)
  <1>1. Good(PageRead(a, t, M), t, n, i)
    BY PageReadOK
  <1>2. CASE a.pool[Here(a)] # NoRow
    <2>1. a.pool[Here(a)] \in Val
      BY <1>2, HereIsRec DEF Good, Loose, Area, Row
    <2>2. Read(a, t, M) = [a EXCEPT !.buf = a.pool[Here(a)]]
      BY <1>2 DEF Read
    <2> QED BY <2>1, <2>2 DEF Good, Loose, Area
  <1> QED BY <1>1, <1>2 DEF Read

LEMMA GoToOfOK ==
    ASSUME NEW a, NEW t, NEW n, NEW i, Good(a, t, n, i), TableFits(t, n), NEW M,
           NEW r \in 0..MaxRec
    PROVE  Good(GoToOf(a, r, t, M), t, n, i)
  <1>1. CASE r = 0
    BY <1>1, PhantomOK DEF GoToOf
  <1>2. CASE r # 0 /\ (\E j \in DOMAIN a.list : a.list[j] = r) /\ Readable(Placed(a, r), t)
    <2>1. PlaceOf(a, r) \in DOMAIN a.list
      BY <1>2 DEF PlaceOf
    <2>2. PlaceOf(a, r) \in Nat
      BY <2>1 DEF Good, Loose, Area
    <2>3. Good(Placed(a, r), t, n, i)
      BY <2>1, <2>2 DEF Placed, Good, Loose, Area
    <2>4. Good(Read(Placed(a, r), t, M), t, n, i)
      BY <2>3, ReadOK
    <2> DEFINE b == Read(Placed(a, r), t, M)
    <2>5. GoToOf(a, r, t, M) = OnIt(b)
      BY <1>2 DEF GoToOf
    <2>6. Good(b, t, n, i)
      BY <2>4
    <2> HIDE DEF b
    <2>7. Good(OnIt(b), t, n, i)
      BY <2>6, FlagsOK
    <2> QED BY <2>5, <2>7
  <1>3. CASE r # 0 /\ ~((\E j \in DOMAIN a.list : a.list[j] = r) /\ Readable(Placed(a, r), t))
    <2>1. r \in Rec
      BY <1>3, Bounds DEF Rec
    <2>2. Good(Alone(a, r), t, n, i)
      BY <2>1, AloneOK DEF Good
    <2>3. Good(PageRead(Alone(a, r), t, M), t, n, i)
      BY <2>2, PageReadOK
    <2> DEFINE b == PageRead(Alone(a, r), t, M)
    <2>4. GoToOf(a, r, t, M) = IF t[r] # NoRow THEN OnIt(b) ELSE Phantom(b)
      BY <1>3 DEF GoToOf, Fetched
    <2>5. Good(b, t, n, i)
      BY <2>3
    <2> HIDE DEF b
    <2>6. Good(OnIt(b), t, n, i)
      BY <2>5, FlagsOK
    <2>7. Good(Phantom(b), t, n, i)
      BY <2>5, PhantomOK
    <2> QED BY <2>4, <2>6, <2>7
  <1> QED BY <1>1, <1>2, <1>3

-----------------------------------------------------------------------------
(* Lists the server answers *)

LEMMA MeetingIsRec ==
    ASSUME NEW t, NEW c
    PROVE  Meeting(t, c) \subseteq Rec
  BY DEF Meeting

LEMMA AnswersOK ==
    ASSUME NEW t, NEW o, NEW d, NEW A, A \subseteq Rec, NEW k, NEW s \in Answers(t, o, d, A, k)
    PROVE  s \in Seq(Rec)
  <1>1. s \in Seq(A)
    BY DEF Answers
  <1> QED BY <1>1

(* A query that some record meets is answered with a row. *)
LEMMA AnswersSome ==
    ASSUME NEW t, NEW o, NEW d, NEW A, A \subseteq Rec, A # {}, NEW k \in Nat \ {0},
           NEW s \in Answers(t, o, d, A, k)
    PROVE  s # <<>>
  <1>1. IsFiniteSet(Rec)
    BY FS_Interval, Bounds DEF Rec
  <1>2. IsFiniteSet(A)
    BY <1>1, FS_Subset
  <1>3. Cardinality(A) \in Nat /\ Cardinality(A) # 0
    BY <1>2, FS_CardinalityType, FS_EmptySet
  <1> DEFINE m == IF Cardinality(A) < k THEN Cardinality(A) ELSE k
  <1>4. m \in Nat /\ 1 <= m
    BY <1>3
  <1>5. DOMAIN s = 1..m
    BY DEF Answers, Ranked
  <1> HIDE DEF m
  <1> QED BY <1>4, <1>5

LEMMA FollowingOK ==
    ASSUME NEW s \in Seq(Rec), NEW r, \E j \in DOMAIN s : s[j] = r
    PROVE  Following(s, r) \in Seq(Rec)
  <1> DEFINE j == CHOOSE j \in DOMAIN s : s[j] = r
  <1>1. j \in 1..Len(s)
    OBVIOUS
  <1>2. Following(s, r) = SubSeq(s, j + 1, Len(s))
    BY DEF Following
  <1> HIDE DEF j
  <1>3. SubSeq(s, j + 1, Len(s)) \in Seq(Rec)
    BY <1>1
  <1> QED BY <1>2, <1>3

LEMMA TopListOK ==
    ASSUME NEW a, NEW t, NEW n, NEW i, Loose(a, t, n, i), NEW d \in Dir, NEW s \in Seq(Rec),
           s = <<>> => Good(a, t, n, i)
    PROVE  Good(TopList(a, d, s), t, n, i)
  <1> DEFINE b == [a EXCEPT !.dir = d, !.condChanged = FALSE]
  <1>1. Loose(b, t, n, i)
    BY DEF Loose, Area
  <1>2. CASE s = <<>>
    BY <1>2 DEF TopList, Good, Loose, Area
  <1>3. CASE s # <<>>
    <2> DEFINE c == Listed(b, s, marked)
               e == IF Len(s) < TopSize THEN s[Len(s)] ELSE c.ends[d]
    <2> HIDE DEF b
    <2>1. Good(c, t, n, i)
      BY <1>1, <1>3, ListedOK
    <2>2. TopList(a, d, s) = [c EXCEPT !.ends[d] = e]
      BY <1>3 DEF TopList, b
    <2> HIDE DEF c
    <2>3. e \in 0..MaxRec
      <3>1. s[Len(s)] \in Rec
        BY <1>3
      <3>2. c.ends[d] \in 0..MaxRec
        BY <2>1 DEF Good, Loose, Area
      <3> QED BY <3>1, <3>2 DEF Rec
    <2> HIDE DEF e
    <2>4. Good([c EXCEPT !.ends[d] = e], t, n, i)
      BY <2>1, <2>3, EndOK
    <2> QED BY <2>2, <2>4
  <1> QED BY <1>2, <1>3

LEMMA GoneToOK ==
    ASSUME NEW a, NEW t, NEW n, NEW i, Good(a, t, n, i), NEW d \in Dir
    PROVE  Good(GoneTo(a, d), t, n, i)
  <1>1. Here(a) \in 0..MaxRec
    BY HereIsRec DEF Rec
  <1> DEFINE h == Here(a)
             z == d = BWD
  <1> DEFINE b == [OnIt(a) EXCEPT !.fBottom = z]
             m == -d
  <1>2. GoneTo(a, d) = [b EXCEPT !.ends[m] = h]
    BY DEF GoneTo
  <1>3. z \in BOOLEAN /\ h \in 0..MaxRec /\ m \in Dir /\ Good(OnIt(a), t, n, i)
    BY <1>1, FlagsOK, Bounds
  <1> HIDE DEF h, z, m
  <1>4. Good(b, t, n, i)
    BY <1>3 DEF Good, Loose, Area
  <1> HIDE DEF b
  <1> QED BY <1>2, <1>3, <1>4, EndOK

-----------------------------------------------------------------------------
(* The inductive invariant *)

(* The edit is written first, and an APPEND is the last step of its call. *)
Stack(s) ==
    /\ s \in Seq(Frame)
    /\ \A j \in DOMAIN s : /\ s[j].op = "cold" => j = 1
                           /\ s[j].op = "append" => j = Len(s)
                           /\ s[j].op = "goto" => s[j].n \in 0..MaxRec

HasAppend(s) == \E j \in DOMAIN s : s[j].op = "append"

(* There is a record number for the record in the buffer, and one for the *)
(* APPEND in progress.                                                     *)
Room(i, s, n) ==
    /\ i => n < MaxRec
    /\ HasAppend(s) => n + (IF i THEN 1 ELSE 0) < MaxRec

(* Between calls the application sees the current record, which is still *)
(* current when the edit is written.                                      *)
Seen ==
    /\ app = [call |-> app.call, sees |-> app.sees]
    /\ Idle => app.sees.recno = Current(wa)
    /\ Running("cold") /\ ~wa.isInsert /\ ~wa.fEof => app.sees.recno = Here(wa)

First ==
    /\ wa = Opened(last)
    /\ todo = <<Do("go", FWD, 0, FALSE)>>
    /\ Meeting(table, filter) # {}

IInv ==
    /\ TableFits(table, last) /\ marked \subseteq Rec /\ last \in 0..MaxRec
    /\ setDeleted \in BOOLEAN /\ order \in {"recno", "index"} /\ filter \in SUBSET Val
    /\ Stack(todo)
    /\ Room(wa.isInsert, todo, last)
    /\ Seen
    /\ First \/ Good(wa, table, last, wa.isInsert)

(* Work a step may leave to do: no edit, no APPEND and no GO TO. *)
Plain(w) ==
    /\ w \in Seq(Frame)
    /\ \A j \in DOMAIN w : w[j].op \notin {"cold", "append", "goto"}

LEMMA PushedOK ==
    ASSUME NEW s, Stack(s), s # <<>>, NEW w, Plain(w)
    PROVE  /\ Stack(w \o Tail(s))
           /\ \A j \in DOMAIN (w \o Tail(s)) : (w \o Tail(s))[j].op # "cold"
           /\ HasAppend(w \o Tail(s)) => HasAppend(s) /\ Head(s).op # "append"
  <1> DEFINE z == Tail(s)
             u == w \o z
  <1>1. s \in Seq(Frame) /\ w \in Seq(Frame) /\ Len(s) \in Nat /\ Len(s) >= 1 /\ Len(w) \in Nat
    BY DEF Stack, Plain
  <1>2. z \in Seq(Frame) /\ Len(z) = Len(s) - 1 /\ \A j \in 1..Len(z) : z[j] = s[j + 1]
    <2>1. /\ Tail(s) \in Seq(Frame) /\ Len(Tail(s)) = Len(s) - 1
          /\ \A j \in 1..Len(Tail(s)) : Tail(s)[j] = s[j + 1]
      BY <1>1, HeadTailProperties, Zenon
    <2> QED BY <2>1
  <1> HIDE DEF z
  <1>3. /\ u \in Seq(Frame) /\ Len(u) = Len(w) + Len(z)
        /\ \A j \in 1..Len(u) : u[j] = IF j <= Len(w) THEN w[j] ELSE z[j - Len(w)]
    <2>1. /\ w \o z \in Seq(Frame) /\ Len(w \o z) = Len(w) + Len(z)
          /\ \A j \in 1..Len(w) + Len(z) : (w \o z)[j] = IF j <= Len(w) THEN w[j] ELSE z[j - Len(w)]
      BY <1>1, <1>2, ConcatProperties, Zenon
    <2> QED BY <2>1, Zenon
  <1> HIDE DEF u
  <1>4. DOMAIN u = 1..Len(u) /\ DOMAIN w = 1..Len(w) /\ DOMAIN s = 1..Len(s)
    BY <1>1, <1>3
  <1>5. ASSUME NEW j \in DOMAIN u
        PROVE  IF j <= Len(w) THEN j \in DOMAIN w /\ u[j] = w[j]
               ELSE j - Len(w) + 1 \in DOMAIN s /\ u[j] = s[j - Len(w) + 1] /\ j - Len(w) + 1 # 1
    <2>1. j \in 1..Len(w) + Len(z) /\ Len(z) = Len(s) - 1
      BY <1>2, <1>3, <1>4, <1>5
    <2>2. CASE j <= Len(w)
      BY <1>1, <1>3, <1>4, <2>1, <2>2
    <2>3. CASE ~(j <= Len(w))
      <3> DEFINE k == j - Len(w)
      <3>1. k \in 1..Len(z) /\ k + 1 \in 1..Len(s) /\ k + 1 # 1
        BY <1>1, <2>1, <2>3
      <3>2. u[j] = z[k] /\ z[k] = s[k + 1]
        BY <1>2, <1>3, <2>1, <2>3, <3>1
      <3> QED BY <1>4, <2>3, <3>1, <3>2
    <2> QED BY <2>2, <2>3
  <1>6. ASSUME NEW j \in DOMAIN u
        PROVE  /\ u[j].op # "cold" /\ (u[j].op = "append" => j = Len(u))
               /\ (u[j].op = "goto" => u[j].n \in 0..MaxRec)
               /\ (u[j].op = "append" => HasAppend(s) /\ s[1].op # "append")
    <2>1. CASE j <= Len(w)
      BY <2>1, <1>5, <1>6 DEF Plain
    <2>2. CASE ~(j <= Len(w))
      <3> DEFINE m == j - Len(w) + 1
      <3>1. m \in 1..Len(s) /\ u[j] = s[m] /\ m # 1 /\ (m = Len(s) => j = Len(u))
        <4>1. j \in Nat /\ Len(w) \in Nat /\ Len(s) \in Nat /\ Len(u) = Len(w) + (Len(s) - 1)
          BY <1>1, <1>2, <1>3, <1>4, <1>6
        <4>2. m \in DOMAIN s /\ u[j] = s[m] /\ m # 1
          BY <2>2, <1>5, <1>6
        <4> QED BY <4>1, <4>2, <1>4
      <3> HIDE DEF m
      <3>2. /\ s[m].op # "cold"
            /\ (s[m].op = "append" => m = Len(s))
            /\ (s[m].op = "goto" => s[m].n \in 0..MaxRec)
            /\ (s[1].op = "append" => 1 = Len(s))
        <4>1. m \in DOMAIN s /\ 1 \in DOMAIN s
          <5>1. 1 \in 1..Len(s)
            BY <1>1
          <5> QED BY <5>1, <3>1, <1>4, Zenon
        <4>2. \A k \in DOMAIN s : /\ s[k].op = "cold" => k = 1
                                  /\ s[k].op = "append" => k = Len(s)
                                  /\ s[k].op = "goto" => s[k].n \in 0..MaxRec
          BY Zenon DEF Stack
        <4> QED BY <4>1, <4>2, <3>1, Zenon
      <3>3. s[m].op = "append" => HasAppend(s)
        BY <3>1, <1>4 DEF HasAppend
      <3> QED BY <3>1, <3>2, <3>3
    <2> QED BY <2>1, <2>2
  <1>7. Head(s) = s[1]
    BY <1>1
  <1> QED BY <1>3, <1>6, <1>7 DEF Stack, HasAppend, u, z

(* The frames a step may push. *)
LEMMA FrameOK ==
    ASSUME NEW op \in {"go", "skip", "raw", "filter", "passed", "bof", "sought"},
           NEW d \in Dir, NEW n \in Nat, NEW b, b \in BOOLEAN
    PROVE  Do(op, d, n, b) \in Frame /\ Do(op, d, n, b).op \notin {"cold", "append", "goto"}
  BY DEF Do, Frame

(* What a step leaves, when the area and the work left are as they should be. *)
LEMMA StepOK ==
    ASSUME IInv, NEW b, NEW w, Goes(b, w), Stack(w), \A j \in DOMAIN w : w[j].op # "cold",
           Good(b, table', last', b.isInsert), Room(b.isInsert, w, last'),
           TableFits(table', last'), marked' \subseteq Rec, last' \in 0..MaxRec
    PROVE  IInv'
  <1>1. wa' = b /\ todo' = w /\ setDeleted' = setDeleted /\ order' = order /\ filter' = filter
    BY DEF Goes
  <1>2. app' = IF w = <<>> THEN [call |-> Ready, sees |-> Sees(b)] ELSE app
    BY DEF Goes
  <1>3. app' = [call |-> app'.call, sees |-> app'.sees]
    BY <1>2 DEF IInv, Seen
  <1>4. (todo = <<>>)' => app'.sees.recno = Current(b)
    BY <1>1, <1>2 DEF Sees
  <1>5. ~Running("cold")'
    <2>1. ASSUME w # <<>> PROVE Head(w) = w[1] /\ 1 \in DOMAIN w
      BY <2>1 DEF Stack
    <2> QED BY <1>1, <2>1 DEF Running
  <1>6. Seen'
    BY <1>1, <1>3, <1>4, <1>5 DEF Seen, Idle, Current, Here
  <1>7. setDeleted' \in BOOLEAN /\ order' \in {"recno", "index"} /\ filter' \in SUBSET Val
    BY <1>1 DEF IInv
  <1> QED BY <1>1, <1>6, <1>7 DEF IInv

(* A step that gives no record number and leaves only plain work before what waits. *)
LEMMA QuietOK ==
    ASSUME IInv, todo # <<>>, NEW b, NEW w, Continue(b, w), Plain(w),
           Good(b, table', last, wa.isInsert), last' = last,
           TableFits(table', last), marked' \subseteq Rec
    PROVE  IInv'
  <1> DEFINE z == w \o Tail(todo)
  <1>1. Stack(z) /\ (\A j \in DOMAIN z : z[j].op # "cold") /\ (HasAppend(z) => HasAppend(todo))
    BY PushedOK DEF IInv
  <1>2. Goes(b, z)
    BY DEF Continue
  <1> HIDE DEF z
  <1>3. b.isInsert = wa.isInsert /\ last' = last /\ last' \in 0..MaxRec
    BY DEF Good, Loose, IInv
  <1>4. Room(b.isInsert, z, last')
    BY <1>1, <1>3 DEF IInv, Room
  <1>5. Good(b, table', last', b.isInsert) /\ TableFits(table', last')
    BY <1>3
  <1> QED BY <1>1, <1>2, <1>3, <1>4, <1>5, StepOK

(* A read that fails ends the call. *)
LEMMA ReadAndOK ==
    ASSUME IInv, todo # <<>>, NEW b, NEW w, ReadAnd(b, w), Plain(w), Untouched,
           Good(b, table, last, wa.isInsert)
    PROVE  IInv'
  <1>1. TableFits(table, last) /\ table' = table /\ last' = last /\ marked' = marked
        /\ marked' \subseteq Rec
    BY DEF IInv, Untouched
  <1> DEFINE c == Read(b, table, marked)
  <1>2. Good(c, table, last, wa.isInsert)
    BY <1>1, ReadOK
  <1>3. Continue(c, w) \/ Goes(c, <<>>)
    BY DEF ReadAnd
  <1> HIDE DEF c
  <1>4. Good(c, table', last, wa.isInsert) /\ TableFits(table', last)
    BY <1>1, <1>2
  <1>5. CASE Continue(c, w)
    BY <1>1, <1>4, <1>5, QuietOK
  <1>6. CASE Goes(c, <<>>)
    <2>1. c.isInsert = wa.isInsert /\ last' \in 0..MaxRec
      BY <1>1, <1>2 DEF Good, Loose, IInv
    <2>2. Stack(<<>>) /\ (\A j \in DOMAIN <<>> : <<>>[j].op # "cold") /\ ~HasAppend(<<>>)
      BY DEF Stack, HasAppend
    <2>3. Room(c.isInsert, <<>>, last')
      BY <1>1, <2>1, <2>2 DEF IInv, Room
    <2>4. Good(c, table', last', c.isInsert) /\ TableFits(table', last')
      BY <1>1, <1>4, <2>1
    <2> QED BY <1>1, <1>6, <2>1, <2>2, <2>3, <2>4, StepOK
  <1> QED BY <1>3, <1>5, <1>6

LEMMA PlainOK ==
    /\ Plain(<<>>)
    /\ \A f \in Frame : f.op \notin {"cold", "append", "goto"} => Plain(<<f>>)
    /\ \A v, w : Plain(v) /\ Plain(w) => Plain(v \o w)
  <1>1. Plain(<<>>)
    BY DEF Plain
  <1>2. ASSUME NEW f \in Frame, f.op \notin {"cold", "append", "goto"} PROVE Plain(<<f>>)
    BY <1>2 DEF Plain
  <1>3. ASSUME NEW v, NEW w, Plain(v), Plain(w) PROVE Plain(v \o w)
    <2>1. v \in Seq(Frame) /\ w \in Seq(Frame) /\ Len(v) \in Nat /\ Len(w) \in Nat
      BY <1>3 DEF Plain
    <2>2. /\ v \o w \in Seq(Frame) /\ Len(v \o w) = Len(v) + Len(w)
          /\ \A j \in 1..Len(v) + Len(w) : (v \o w)[j] = IF j <= Len(v) THEN v[j] ELSE w[j - Len(v)]
      BY <2>1, ConcatProperties, Zenon
    <2> DEFINE u == v \o w
    <2>3. /\ u \in Seq(Frame) /\ Len(u) = Len(v) + Len(w)
          /\ \A j \in 1..Len(v) + Len(w) : u[j] = IF j <= Len(v) THEN v[j] ELSE w[j - Len(v)]
      BY <2>2, Zenon
    <2> HIDE DEF u
    <2>4. ASSUME NEW j \in DOMAIN u PROVE u[j].op \notin {"cold", "append", "goto"}
      BY <2>1, <2>3, <1>3 DEF Plain
    <2>5. Plain(u)
      BY <2>3, <2>4 DEF Plain
    <2> QED BY <2>5 DEF u
  <1> QED BY <1>1, <1>2, <1>3

LEMMA FilteringOK ==
    ASSUME NEW d \in Dir
    PROVE  Plain(Filtering(d))
  <1>1. Do("filter", d, 0, FALSE) \in Frame /\ Do("filter", d, 0, FALSE).op \notin {"cold", "append", "goto"}
    BY FrameOK
  <1>2. Plain(<<Do("filter", d, 0, FALSE)>>)
    BY <1>1, PlainOK
  <1> QED BY <1>2, PlainOK DEF Filtering

(* The step at hand, and the area it starts from. *)
LEMMA HeadOK ==
    ASSUME IInv, todo # <<>>
    PROVE  /\ Head(todo) \in Frame
           /\ Head(todo).d \in Dir /\ Head(todo).n \in Nat /\ Head(todo).b \in BOOLEAN
           /\ Running("goto") => Head(todo).n \in 0..MaxRec
  <1>1. todo \in Seq(Frame) /\ Head(todo) = todo[1] /\ 1 \in DOMAIN todo
    BY DEF IInv, Stack
  <1>2. Head(todo) \in Frame
    BY <1>1
  <1>3. Running("goto") => Head(todo).n \in 0..MaxRec
    BY <1>1 DEF IInv, Stack, Running
  <1> QED BY <1>2, <1>3 DEF Frame

LEMMA GoodHere ==
    ASSUME IInv, ~Running("go")
    PROVE  Good(wa, table, last, wa.isInsert)
  <1>1. ASSUME First PROVE Running("go")
    <2>1. todo = <<Do("go", FWD, 0, FALSE)>>
      BY <1>1 DEF First
    <2> QED BY <2>1 DEF Running, Do
  <1> QED BY <1>1 DEF IInv

LEMMA OpenedOK ==
    ASSUME NEW n \in 0..MaxRec, NEW t
    PROVE  Loose(Opened(n), t, n, FALSE) /\ \A d \in Dir : Opened(n).ends[d] = 0
  <1>1. n \in Nat /\ 0 \in Val /\ FWD \in Dir /\ 0 \in 0..MaxRec
    BY Bounds
  <1>2. EmptyPool \in [Rec -> Row] /\ \A r \in Rec : EmptyPool[r] = NoRow
    BY DEF EmptyPool, Row
  <1>3. [d \in Dir |-> 0] \in [Dir -> 0..MaxRec] /\ [d \in Dir |-> None] \in [Dir -> (SUBSET Val) \cup {None}]
    BY <1>1
  <1>4. <<>> \in Seq(Rec) /\ <<>> \in Seq(BOOLEAN)
    OBVIOUS
  <1>5. Opened(n) \in Area
    BY <1>1, <1>2, <1>3, <1>4 DEF Opened, Area
  <1>6. Opened(n).pool = EmptyPool /\ Opened(n).isInsert = FALSE /\ Opened(n).ends = [d \in Dir |-> 0]
    BY DEF Opened
  <1> QED BY <1>2, <1>5, <1>6 DEF Loose, PoolFits

(* Before the first GO TOP is done the area has no list, but is an area. *)
LEMMA LooseHere ==
    ASSUME IInv
    PROVE  Loose(wa, table, last, wa.isInsert)
  <1>1. CASE First
    <2>1. last \in 0..MaxRec
      BY DEF IInv
    <2> QED BY <1>1, <2>1, OpenedOK DEF First, Loose
  <1>2. CASE ~First
    BY <1>2 DEF IInv, Good
  <1> QED BY <1>1, <1>2

-----------------------------------------------------------------------------
(* The steps of a call *)

LEMMA GoEndOK ==
    ASSUME IInv, NEW d \in Dir, GoEnd(d)
    PROVE  IInv'
  <1>1. todo # <<>> /\ Untouched /\ Plain(Filtering(d)) /\ TableFits(table, last)
    BY FilteringOK DEF GoEnd, Running, IInv
  <1>2. -d \in Dir
    BY Bounds
  <1>3. CASE wa.ends[-d] # 0
    <2>1. ~First
      BY <1>2, <1>3, OpenedOK DEF First, IInv
    <2>2. Good(wa, table, last, wa.isInsert)
      BY <2>1 DEF IInv
    <2>3. wa.ends[-d] \in 0..MaxRec
      BY <1>2, <2>2 DEF Good, Loose, Area
    <2> DEFINE g == GoToOf(wa, wa.ends[-d], table, marked)
    <2>4. Good(g, table, last, wa.isInsert)
      BY <1>1, <2>2, <2>3, GoToOfOK
    <2>5. ReadAnd(GoneTo(g, d), Filtering(d))
      BY <1>3 DEF GoEnd
    <2> HIDE DEF g
    <2>6. Good(GoneTo(g, d), table, last, wa.isInsert)
      BY <2>4, GoneToOK
    <2> QED BY <1>1, <2>5, <2>6, ReadAndOK
  <1>4. CASE wa.ends[-d] = 0
    <2>1. PICK s \in Answers(table, order, d, Meeting(table, filter), TopSize) :
              ReadAnd(GoneTo(TopList(wa, d, s), d), Filtering(d))
      BY <1>4 DEF GoEnd
    <2>2. s \in Seq(Rec)
      BY AnswersOK, MeetingIsRec
    <2>3. s = <<>> => ~First
      BY AnswersSome, MeetingIsRec, Bounds DEF First
    <2>4. Loose(wa, table, last, wa.isInsert) /\ (s = <<>> => Good(wa, table, last, wa.isInsert))
      BY <2>3, LooseHere DEF IInv
    <2> DEFINE g == TopList(wa, d, s)
    <2>5. Good(g, table, last, wa.isInsert)
      BY <2>2, <2>4, TopListOK
    <2>6. ReadAnd(GoneTo(g, d), Filtering(d))
      BY <2>1
    <2> HIDE DEF g
    <2>7. Good(GoneTo(g, d), table, last, wa.isInsert)
      BY <2>5, GoneToOK
    <2> QED BY <1>1, <2>6, <2>7, ReadAndOK
  <1> QED BY <1>3, <1>4

(* A step that changes no record and leaves plain work. *)
LEMMA CalmOK ==
    ASSUME IInv, todo # <<>>, Untouched, NEW b, NEW w, Continue(b, w), Plain(w),
           Good(b, table, last, wa.isInsert)
    PROVE  IInv'
  <1>1. table' = table /\ last' = last /\ marked' = marked /\ marked' \subseteq Rec
        /\ TableFits(table', last)
    BY DEF Untouched, IInv
  <1>2. Good(b, table', last, wa.isInsert)
    BY <1>1
  <1> QED BY <1>1, <1>2, QuietOK

LEMMA SkipOK ==
    ASSUME IInv, Skip
    PROVE  IInv'
  <1> DEFINE d == Head(todo).d
             n == Head(todo).n
  <1>1. todo # <<>> /\ Untouched /\ d \in Dir /\ n \in Nat
    BY HeadOK DEF Skip, Running
  <1>2. Good(wa, table, last, wa.isInsert)
    BY GoodHere DEF Skip, Running
  <1>3. CASE n = 0 \/ wa.fBof \/ wa.fEof
    <2>1. \/ Continue([wa EXCEPT !.fEof = FALSE], <<>>)
          \/ Continue([wa EXCEPT !.fBof = FALSE], <<>>)
      BY <1>3 DEF Skip
    <2> QED BY <2>1, <1>1, <1>2, FlagsOK, PlainOK, CalmOK
  <1>4. CASE ~(n = 0 \/ wa.fBof \/ wa.fEof)
    <2> DEFINE f == Do("raw", d, 0, FALSE)
               g == Do("skip", d, n - 1, FALSE)
               w == <<f>> \o Filtering(d) \o <<g>>
    <2>1. n - 1 \in Nat
      BY <1>1, <1>4
    <2>2. /\ f \in Frame /\ f.op \notin {"cold", "append", "goto"}
          /\ g \in Frame /\ g.op \notin {"cold", "append", "goto"}
      BY <1>1, <2>1, FrameOK
    <2>3. Continue(wa, w)
      BY <1>4 DEF Skip
    <2> HIDE DEF f, g
    <2>4. Plain(<<f>>) /\ Plain(<<g>>) /\ Plain(Filtering(d))
      BY <1>1, <2>2, PlainOK, FilteringOK
    <2>5. Plain(w)
      BY <2>4, PlainOK
    <2> QED BY <1>1, <1>2, <2>3, <2>5, CalmOK
  <1> QED BY <1>3, <1>4

LEMMA SkipFilterOK ==
    ASSUME IInv, SkipFilter
    PROVE  IInv'
  <1> DEFINE d == Head(todo).d
             bottom == IF Running("filter") THEN wa.fBottom ELSE Head(todo).b
  <1>1. todo # <<>> /\ Untouched /\ d \in Dir
    BY HeadOK DEF SkipFilter, Running
  <1>2. Good(wa, table, last, wa.isInsert)
    BY GoodHere DEF SkipFilter, Running
  <1>3. bottom \in BOOLEAN
    BY <1>1, <1>2, HeadOK DEF Good, Loose, Area
  <1> DEFINE f == Do("raw", d, 0, FALSE)
             g == Do("passed", d, 0, bottom)
             h == Do("go", FWD, 0, FALSE)
             k == Do("bof", BWD, 0, FALSE)
  <1>4. \/ Continue(wa, <<f, g>>)
        \/ Continue(wa, <<>>)
        \/ Continue(Phantom(wa), <<>>)
        \/ Continue(wa, <<h, k>>)
    BY DEF SkipFilter
  <1> HIDE DEF bottom
  <1>5. /\ f \in Frame /\ f.op \notin {"cold", "append", "goto"}
        /\ g \in Frame /\ g.op \notin {"cold", "append", "goto"}
        /\ h \in Frame /\ h.op \notin {"cold", "append", "goto"}
        /\ k \in Frame /\ k.op \notin {"cold", "append", "goto"}
    BY <1>1, <1>3, FrameOK, Bounds
  <1> HIDE DEF f, g, h, k
  <1>6. Plain(<<f, g>>) /\ Plain(<<h, k>>)
    BY <1>5 DEF Plain
  <1> QED BY <1>1, <1>2, <1>4, <1>6, PlainOK, PhantomOK, CalmOK

LEMMA RaiseBofOK ==
    ASSUME IInv, RaiseBof
    PROVE  IInv'
  <1>1. todo # <<>> /\ Untouched
    BY DEF RaiseBof, Running
  <1>2. Good(wa, table, last, wa.isInsert)
    BY GoodHere DEF RaiseBof, Running
  <1> DEFINE e == IF Head(todo).b THEN Here(wa) ELSE wa.ends[BWD]
             b == [wa EXCEPT !.fBof = TRUE]
             c == [wa EXCEPT !.fBof = TRUE, !.ends[BWD] = e]
  <1>3. e \in 0..MaxRec
    <2>1. Here(wa) \in 0..MaxRec
      BY <1>2, HereIsRec DEF Rec
    <2>2. wa.ends[BWD] \in 0..MaxRec
      BY <1>2, Bounds DEF Good, Loose, Area
    <2> QED BY <2>1, <2>2
  <1>4. Continue(c, <<>>)
    BY DEF RaiseBof
  <1>5. c = [b EXCEPT !.ends[BWD] = e]
    OBVIOUS
  <1> HIDE DEF e
  <1>6. Good(b, table, last, wa.isInsert)
    BY <1>2, FlagsOK
  <1> HIDE DEF b
  <1>7. Good(c, table, last, wa.isInsert)
    BY <1>3, <1>5, <1>6, Bounds, EndOK
  <1> HIDE DEF c
  <1> QED BY <1>1, <1>4, <1>7, PlainOK, CalmOK

LEMMA RawFromPhantomOK ==
    ASSUME IInv, RawFromPhantom
    PROVE  IInv'
  <1>1. todo # <<>> /\ Untouched
    BY DEF RawFromPhantom, Raw, Running
  <1>2. Good(wa, table, last, wa.isInsert)
    BY GoodHere DEF RawFromPhantom, Raw, Running
  <1> DEFINE f == Do("go", BWD, 0, FALSE)
  <1>3. Continue(wa, <<f>>)
    BY DEF RawFromPhantom
  <1>4. f \in Frame /\ f.op \notin {"cold", "append", "goto"}
    BY FrameOK, Bounds
  <1> HIDE DEF f
  <1>5. Plain(<<f>>)
    BY <1>4, PlainOK
  <1> QED BY <1>1, <1>2, <1>3, <1>5, CalmOK

LEMMA RawInListOK ==
    ASSUME IInv, NEW d \in Dir, RawInList(d)
    PROVE  IInv'
  <1>1. todo # <<>> /\ Untouched
    BY DEF RawInList, Raw, Running
  <1>2. Good(wa, table, last, wa.isInsert)
    BY GoodHere DEF RawInList, Raw, Running
  <1> DEFINE m == Next1(wa, d)
             b == [wa EXCEPT !.pos = m]
  <1>3. m \in DOMAIN wa.list /\ ReadAnd(b, <<>>)
    BY DEF RawInList
  <1> HIDE DEF m
  <1>4. m \in Nat
    BY <1>2, <1>3 DEF Good, Loose, Area
  <1>5. Good(b, table, last, wa.isInsert)
    BY <1>2, <1>3, <1>4 DEF Good, Loose, Area
  <1> HIDE DEF b
  <1> QED BY <1>1, <1>3, <1>5, PlainOK, ReadAndOK

LEMMA RawAtEndOK ==
    ASSUME IInv, NEW d \in Dir, RawAtEnd(d)
    PROVE  IInv'
  <1>1. todo # <<>> /\ Untouched /\ Continue(Stop(wa, d), <<>>)
    BY DEF RawAtEnd, Raw, Running
  <1>2. Good(wa, table, last, wa.isInsert)
    BY GoodHere DEF RawAtEnd, Raw, Running
  <1>3. Good(Stop(wa, d), table, last, wa.isInsert)
    BY <1>2, StopOK
  <1> QED BY <1>1, <1>3, PlainOK, CalmOK

(* The statement asked has the conditions of the area, or those it had. *)
LEMMA WithStmtOK ==
    ASSUME IInv, NEW a, NEW t, NEW n, NEW i, Good(a, t, n, i), NEW d \in Dir
    PROVE  Good(WithStmt(a, d), t, n, i)
  <1> DEFINE e == [x \in Dir |-> 0]
             f == [x \in Dir |-> IF x = d THEN filter ELSE None]
  <1>1. e \in [Dir -> 0..MaxRec] /\ f \in [Dir -> (SUBSET Val) \cup {None}]
    BY Bounds DEF IInv
  <1>2. \/ WithStmt(a, d) = a
        \/ WithStmt(a, d) = [a EXCEPT !.ends = e, !.condChanged = FALSE, !.orderChanged = FALSE,
                                      !.stmt = f]
    BY DEF WithStmt
  <1> HIDE DEF e, f
  <1> DEFINE b == [a EXCEPT !.ends = e, !.condChanged = FALSE, !.orderChanged = FALSE, !.stmt = f]
  <1>3. b \in Area
    BY <1>1 DEF Good, Loose, Area
  <1>4. b.list = a.list /\ b.del = a.del /\ b.pos = a.pos /\ b.pool = a.pool
        /\ b.isInsert = a.isInsert
    BY DEF Good, Loose, Area
  <1> HIDE DEF b
  <1>5. Good(b, t, n, i)
    BY <1>3, <1>4 DEF Good, Loose
  <1> QED BY <1>2, <1>5 DEF b

LEMMA NextListOK ==
    ASSUME IInv, todo # <<>>, Untouched, NEW a, Good(a, table, last, wa.isInsert),
           NEW d \in Dir, NEW s \in Seq(Rec), NextList(a, d, s)
    PROVE  IInv'
  <1>1. CASE s = <<>>
    <2> DEFINE h == Here(a)
               b == [a EXCEPT !.ends[d] = h]
    <2>1. h \in 0..MaxRec
      BY HereIsRec DEF Rec
    <2>2. Continue(Stop(b, d), <<>>)
      BY <1>1 DEF NextList
    <2> HIDE DEF h
    <2>3. Good(b, table, last, wa.isInsert)
      BY <2>1, EndOK
    <2> HIDE DEF b
    <2>4. Good(Stop(b, d), table, last, wa.isInsert)
      BY <2>3, StopOK
    <2> QED BY <2>2, <2>4, PlainOK, CalmOK
  <1>2. CASE s # <<>>
    <2> DEFINE c == Listed(a, s, marked)
               e == IF order = "recno" /\ Len(s) < ListSize THEN s[Len(s)] ELSE c.ends[d]
    <2>1. Good(c, table, last, wa.isInsert)
      BY <1>2, ListedOK DEF Good
    <2>2. ReadAnd([c EXCEPT !.ends[d] = e], <<>>)
      BY <1>2 DEF NextList
    <2> HIDE DEF c
    <2>3. e \in 0..MaxRec
      <3>1. s[Len(s)] \in Rec
        BY <1>2
      <3>2. c.ends[d] \in 0..MaxRec
        BY <2>1 DEF Good, Loose, Area
      <3> QED BY <3>1, <3>2 DEF Rec
    <2> HIDE DEF e
    <2> DEFINE b == [c EXCEPT !.ends[d] = e]
    <2>4. Good(b, table, last, wa.isInsert) /\ ReadAnd(b, <<>>)
      BY <2>1, <2>2, <2>3, EndOK
    <2> HIDE DEF b
    <2> QED BY <2>4, PlainOK, ReadAndOK
  <1> QED BY <1>1, <1>2

LEMMA LostRecordOK ==
    ASSUME IInv, todo # <<>>, Untouched, NEW a, Good(a, table, last, wa.isInsert),
           NEW d \in Dir, LostRecord(a, d)
    PROVE  IInv'
  <1> DEFINE h == Do("go", FWD, 0, FALSE)
             k == Do("bof", BWD, 0, TRUE)
  <1>1. Continue(Clean(a), <<>>) \/ Continue(a, <<h, k>>)
    BY DEF LostRecord
  <1>2. /\ h \in Frame /\ h.op \notin {"cold", "append", "goto"}
        /\ k \in Frame /\ k.op \notin {"cold", "append", "goto"}
    BY FrameOK, Bounds
  <1> HIDE DEF h, k
  <1>3. Plain(<<h, k>>)
    BY <1>2 DEF Plain
  <1>4. Good(Clean(a), table, last, wa.isInsert)
    BY CleanOK
  <1> QED BY <1>1, <1>3, <1>4, PlainOK, CalmOK

LEMMA RawQueryOK ==
    ASSUME IInv, NEW d \in Dir, RawQuery(d)
    PROVE  IInv'
  <1>1. todo # <<>> /\ Untouched
    BY DEF RawQuery, Raw, Running
  <1>2. Good(wa, table, last, wa.isInsert)
    BY GoodHere DEF RawQuery, Raw, Running
  <1> DEFINE b == [wa EXCEPT !.dir = d]
             a == WithStmt(b, d)
  <1>3. Good(b, table, last, wa.isInsert) /\ Fetch(a, d)
    BY <1>2 DEF RawQuery, Good, Loose, Area
  <1> HIDE DEF b
  <1>4. Good(a, table, last, wa.isInsert)
    BY <1>3, WithStmtOK
  <1> HIDE DEF a
  <1>5. From(a, d) \subseteq Rec
    BY DEF From, Meeting
  <1>6. PICK s \in Answers(table, order, d, From(a, d), ListSize + 1) :
            IF \E j \in DOMAIN s : s[j] = a.cur THEN NextList(a, d, Following(s, a.cur))
            ELSE LostRecord(a, d)
    BY <1>3 DEF Fetch
  <1>7. s \in Seq(Rec)
    BY <1>5, AnswersOK
  <1>8. CASE \E j \in DOMAIN s : s[j] = a.cur
    <2> DEFINE z == Following(s, a.cur)
    <2>1. z \in Seq(Rec) /\ NextList(a, d, z)
      BY <1>6, <1>7, <1>8, FollowingOK
    <2> HIDE DEF z
    <2> QED BY <1>1, <1>4, <2>1, NextListOK
  <1>9. CASE ~\E j \in DOMAIN s : s[j] = a.cur
    BY <1>1, <1>4, <1>6, <1>9, LostRecordOK
  <1> QED BY <1>8, <1>9

LEMMA FlushOK ==
    ASSUME IInv, Flush
    PROVE  IInv'
  <1>1. todo # <<>> /\ Untouched /\ Continue(wa, <<>>)
    BY DEF Flush, Running
  <1>2. Good(wa, table, last, wa.isInsert)
    BY GoodHere DEF Flush, Running
  <1> QED BY <1>1, <1>2, PlainOK, CalmOK

LEMMA GoToOK ==
    ASSUME IInv, GoTo
    PROVE  IInv'
  <1> DEFINE n == Head(todo).n
             b == GoToOf(wa, n, table, marked)
  <1>1. todo # <<>> /\ Untouched /\ Continue(b, <<>>) /\ Running("goto")
    BY DEF GoTo, Running
  <1>2. Good(wa, table, last, wa.isInsert) /\ TableFits(table, last)
    BY GoodHere DEF GoTo, Running, IInv
  <1>3. n \in 0..MaxRec
    BY <1>1, HeadOK
  <1> HIDE DEF n
  <1>4. Good(b, table, last, wa.isInsert)
    BY <1>2, <1>3, GoToOfOK
  <1> HIDE DEF b
  <1> QED BY <1>1, <1>4, PlainOK, CalmOK

LEMMA SoughtAgainOK ==
    ASSUME IInv, SoughtAgain
    PROVE  IInv'
  <1>1. todo # <<>> /\ Untouched /\ (Continue(wa, <<>>) \/ Continue(Clean(wa), <<>>))
    BY DEF SoughtAgain, Running
  <1>2. Good(wa, table, last, wa.isInsert)
    BY GoodHere DEF SoughtAgain, Running
  <1>3. Good(Clean(wa), table, last, wa.isInsert)
    BY <1>2, CleanOK
  <1> QED BY <1>1, <1>2, <1>3, PlainOK, CalmOK

LEMMA SoughtOK ==
    ASSUME IInv, todo # <<>>, Untouched, NEW a, Good(a, table, last, wa.isInsert),
           NEW r \in Rec, table[r] # NoRow, NEW v \in Nat, NEW soft, soft \in BOOLEAN,
           Sought(a, r, v, soft)
    PROVE  IInv'
  <1> DEFINE s == <<r>>
             c == Listed(a, s, marked)
             b == [c EXCEPT !.buf = table[r]]
             f == Do("sought", FWD, v, soft)
             y == IF setDeleted THEN <<f>> ELSE <<>>
             w == Filtering(a.dir) \o y
  <1>1. \/ Continue(Clean(b), <<>>)
        \/ Continue(OnIt(b), w)
        \/ Continue(b, w)
    BY DEF Sought
  <1>2. s \in Seq(Rec) /\ s # <<>> /\ a.dir \in Dir /\ f \in Frame
        /\ f.op \notin {"cold", "append", "goto"}
    BY FrameOK, Bounds DEF Good, Loose, Area
  <1> HIDE DEF f, s
  <1>3. Plain(w)
    BY <1>2, FilteringOK, PlainOK
  <1> HIDE DEF w
  <1>4. Good(c, table, last, wa.isInsert)
    BY <1>2, ListedOK DEF Good
  <1>5. table[r] \in Val
    BY DEF IInv, TableFits, Row
  <1> HIDE DEF c
  <1>6. Good(b, table, last, wa.isInsert)
    BY <1>4, <1>5 DEF Good, Loose, Area
  <1> HIDE DEF b
  <1>7. Good(Clean(b), table, last, wa.isInsert) /\ Good(OnIt(b), table, last, wa.isInsert)
    BY <1>6, CleanOK, FlagsOK
  <1> QED BY <1>1, <1>3, <1>6, <1>7, PlainOK, CalmOK

LEMMA SeekOK ==
    ASSUME IInv, Seek
    PROVE  IInv'
  <1> DEFINE d == Head(todo).d
             v == Head(todo).n
             soft == Head(todo).b
             a == WithSeekStmt(wa, d)
  <1>1. todo # <<>> /\ Untouched /\ d \in Dir /\ v \in Nat /\ soft \in BOOLEAN
    BY HeadOK DEF Seek, Running
  <1>2. Good(wa, table, last, wa.isInsert)
    BY GoodHere DEF Seek, Running
  <1>3. PICK s \in Answers(table, order, d, SeekFrom(d, v), 1) :
            IF s = <<>> THEN Continue(Clean(a), <<>>) ELSE Sought(a, s[1], v, soft)
    BY DEF Seek
  <1>4. SeekFrom(d, v) \subseteq {r \in Rec : table[r] # NoRow}
    BY DEF SeekFrom, Meeting
  <1>5. s \in Seq(SeekFrom(d, v))
    BY DEF Answers
  <1> HIDE DEF d, v, soft
  <1>6. Good(a, table, last, wa.isInsert)
    BY <1>1, <1>2 DEF WithSeekStmt, Good, Loose, Area
  <1> HIDE DEF a
  <1>7. CASE s = <<>>
    BY <1>1, <1>3, <1>6, <1>7, CleanOK, PlainOK, CalmOK
  <1>8. CASE s # <<>>
    <2> DEFINE r == s[1]
    <2>1. r \in SeekFrom(d, v)
      BY <1>5, <1>8
    <2>2. r \in Rec /\ table[r] # NoRow /\ Sought(a, r, v, soft)
      BY <2>1, <1>3, <1>4, <1>8
    <2> HIDE DEF r
    <2> QED BY <1>1, <1>6, <2>2, SoughtOK
  <1> QED BY <1>7, <1>8

LEMMA DropEditOK ==
    ASSUME IInv, DropEdit
    PROVE  IInv'
  <1>1. todo # <<>> /\ Untouched /\ Continue(Cooled(wa), <<>>)
    BY DEF DropEdit, Running
  <1>2. Good(wa, table, last, wa.isInsert)
    BY GoodHere DEF DropEdit, Running
  <1>3. Good(Cooled(wa), table, last, wa.isInsert)
    BY <1>2, FlagsOK DEF Cooled
  <1> QED BY <1>1, <1>3, PlainOK, CalmOK

(* APPEND takes no record number yet; the room for it was kept. *)
LEMMA Append1OK ==
    ASSUME IInv, Append1
    PROVE  IInv'
  <1> DEFINE b == [Clean(wa) EXCEPT !.hot = TRUE, !.isInsert = TRUE]
             z == <<>> \o Tail(todo)
  <1>1. todo # <<>> /\ Head(todo).op = "append" /\ Goes(b, z)
        /\ table' = table /\ last' = last /\ marked' = marked
    BY DEF Append1, Running, Continue, Untouched
  <1>2. Good(Clean(wa), table, last, wa.isInsert)
    BY GoodHere, CleanOK DEF Append1, Running
  <1>3. Good(b, table, last, TRUE)
    BY <1>2 DEF Good, Loose, Area
  <1>4. Stack(z) /\ (\A j \in DOMAIN z : z[j].op # "cold") /\ ~HasAppend(z)
    BY <1>1, PushedOK, PlainOK DEF IInv
  <1> HIDE DEF b, z
  <1>5. HasAppend(todo)
    <2>1. todo \in Seq(Frame) /\ 1 \in DOMAIN todo /\ Head(todo) = todo[1]
      BY <1>1 DEF IInv, Stack
    <2> QED BY <1>1, <2>1 DEF HasAppend
  <1>6. last \in 0..MaxRec /\ last < MaxRec
    BY <1>5, Bounds DEF IInv, Room
  <1>7. b.isInsert = TRUE
    BY <1>3 DEF Good, Loose
  <1>8. Room(b.isInsert, z, last')
    BY <1>1, <1>4, <1>6, <1>7 DEF Room
  <1>9. Good(b, table', last', b.isInsert) /\ TableFits(table', last') /\ marked' \subseteq Rec
        /\ last' \in 0..MaxRec
    BY <1>1, <1>3, <1>6, <1>7 DEF IInv
  <1> QED BY <1>1, <1>4, <1>8, <1>9, StepOK

(* A deletion from the table leaves the pool in agreement with what is left. *)
LEMMA LessTableOK ==
    ASSUME NEW a, NEW t, NEW n, NEW i, Good(a, t, n, i), NEW r, TableFits(t, n)
    PROVE  /\ Good(a, [t EXCEPT ![r] = NoRow], n, i)
           /\ TableFits([t EXCEPT ![r] = NoRow], n)
  BY DEF Good, Loose, PoolFits, TableFits, Row

LEMMA FlaggedOK ==
    ASSUME NEW a, NEW t, NEW n, NEW i, Good(a, t, n, i), NEW m, m \in BOOLEAN
    PROVE  Good(Flagged(a, m), t, n, i)
  <1> DEFINE e == [a.del EXCEPT ![a.pos] = m]
  <1>1. a.del \in Seq(BOOLEAN) /\ a.pos \in 1..Len(a.del)
    BY DEF Good, Loose, Area
  <1>2. e \in Seq(BOOLEAN) /\ Len(e) = Len(a.del)
    BY <1>1
  <1>3. Flagged(a, m) = [a EXCEPT !.del = e]
    BY DEF Flagged
  <1> HIDE DEF e
  <1> QED BY <1>2, <1>3 DEF Good, Loose, Area

LEMMA DeleteRecOK ==
    ASSUME IInv, DeleteRec
    PROVE  IInv'
  <1> DEFINE h == Here(wa)
             c == Flagged(wa, TRUE)
             b == [c EXCEPT !.ends = Forget(@, h)]
  <1>1. todo # <<>> /\ last' = last /\ Continue(b, <<>>)
    BY DEF DeleteRec, Running
  <1>2. Good(wa, table, last, wa.isInsert) /\ TableFits(table, last) /\ marked \subseteq Rec
    BY GoodHere DEF DeleteRec, Running, IInv
  <1>3. marked' \subseteq Rec
    BY <1>2 DEF DeleteRec
  <1>4. table' = table \/ table' = [table EXCEPT ![h] = NoRow]
    BY DEF DeleteRec
  <1> HIDE DEF h
  <1>5. Good(wa, table', last, wa.isInsert) /\ TableFits(table', last)
    BY <1>2, <1>4, LessTableOK
  <1>6. Good(c, table', last, wa.isInsert)
    BY <1>5, FlaggedOK
  <1> HIDE DEF c
  <1> DEFINE e == Forget(c.ends, h)
  <1>7. e \in [Dir -> 0..MaxRec]
    BY <1>6, Bounds DEF Good, Loose, Area, Forget
  <1>8. b = [c EXCEPT !.ends = e]
    OBVIOUS
  <1> HIDE DEF e, b
  <1>9. Good(b, table', last, wa.isInsert)
    BY <1>6, <1>7, <1>8 DEF Good, Loose, Area
  <1> QED BY <1>1, <1>3, <1>5, <1>9, PlainOK, QuietOK

LEMMA RecallOK ==
    ASSUME IInv, Recall
    PROVE  IInv'
  <1>1. todo # <<>> /\ last' = last /\ table' = table /\ Continue(Flagged(wa, FALSE), <<>>)
    BY DEF Recall, Running
  <1>2. Good(wa, table, last, wa.isInsert) /\ TableFits(table, last)
    BY GoodHere DEF Recall, Running, IInv
  <1>3. marked' \subseteq Rec
    BY DEF Recall, IInv
  <1>4. Good(Flagged(wa, FALSE), table', last, wa.isInsert) /\ TableFits(table', last)
    BY <1>1, <1>2, FlaggedOK
  <1> QED BY <1>1, <1>3, <1>4, PlainOK, QuietOK

(* The new record has a number no row of the pool has. *)
LEMMA InsertOK ==
    ASSUME IInv, Insert
    PROVE  IInv'
  <1> DEFINE m == last + 1
             c == Alone(wa, m)
             e == <<FALSE>>
             b == [c EXCEPT !.del = e, !.dir = wa.dir, !.rcount = m,
                            !.lastRec = last + 2, !.hot = FALSE, !.isInsert = FALSE]
             z == <<>> \o Tail(todo)
  <1>1. todo # <<>> /\ Head(todo).op = "cold" /\ wa.isInsert /\ Goes(b, z)
        /\ table' = [table EXCEPT ![m] = wa.buf] /\ last' = m /\ marked' = marked
    BY DEF Insert, Running, Continue
  <1>2. Good(wa, table, last, wa.isInsert) /\ TableFits(table, last) /\ wa.buf \in Val
    BY GoodHere DEF Insert, Running, IInv, Good, Loose, Area
  <1>3. last \in 0..MaxRec /\ m \in Rec /\ m \in 0..MaxRec /\ last + 2 \in Nat /\ m \in Nat
    BY <1>1, Bounds DEF IInv, Room, Rec
  <1>4. Stack(z) /\ (\A j \in DOMAIN z : z[j].op # "cold") /\ (HasAppend(z) => HasAppend(todo))
    BY <1>1, PushedOK, PlainOK DEF IInv
  <1>5. TableFits(table', last')
    <2>1. table \in [Rec -> Row] /\ wa.buf \in Row
      BY <1>2 DEF TableFits, Row
    <2>2. table' \in [Rec -> Row]
      BY <1>1, <1>3, <2>1
    <2>3. ASSUME NEW r \in Rec, table'[r] # NoRow PROVE r <= last'
      BY <1>1, <1>2, <1>3, <2>1, <2>3, Bounds DEF TableFits
    <2> QED BY <2>2, <2>3 DEF TableFits
  <1>6. PoolFits(wa.pool, table', last')
    <2>1. ASSUME NEW r \in Rec, wa.pool[r] # NoRow
          PROVE  r <= last /\ r # m /\ (table[r] # NoRow => wa.pool[r] = table[r])
      BY <1>2, <1>3, <2>1, Bounds DEF Good, Loose, PoolFits
    <2>2. ASSUME NEW r \in Rec, wa.pool[r] # NoRow
          PROVE  r <= m /\ table'[r] = table[r]
      BY <1>1, <1>2, <1>3, <2>1, <2>2, Bounds DEF TableFits
    <2> QED BY <1>1, <2>1, <2>2 DEF PoolFits
  <1>7. Loose(wa, table', last', wa.isInsert) /\ wa.dir \in Dir
    BY <1>2, <1>6 DEF Good, Loose, Area
  <1>8. HasAppend(todo) => m < MaxRec
    BY <1>1, <1>3 DEF IInv, Room
  <1> HIDE DEF m, z
  <1>9. Good(c, table', last', wa.isInsert) /\ Len(c.list) = 1
    <2>1. Good(c, table', last', wa.isInsert)
      BY <1>3, <1>7, AloneOK
    <2>2. c.list = <<m>>
      BY <1>7 DEF Alone, Loose, Area
    <2> QED BY <2>1, <2>2
  <1> HIDE DEF c
  <1>10. Good(b, table', last', FALSE)
    <2>0. e \in Seq(BOOLEAN) /\ Len(e) = 1
      OBVIOUS
    <2> HIDE DEF e
    <2>1. b \in Area
      BY <1>3, <1>7, <1>9, <2>0 DEF Good, Loose, Area
    <2>2. /\ b.list = c.list /\ b.del = e /\ b.pos = c.pos /\ b.pool = c.pool
          /\ b.isInsert = FALSE
      BY <1>9 DEF Good, Loose, Area
    <2> HIDE DEF b
    <2> QED BY <1>1, <1>9, <2>0, <2>1, <2>2 DEF Good, Loose
  <1> HIDE DEF b
  <1>11. b.isInsert = FALSE
    BY <1>10 DEF Good, Loose
  <1>12. Room(b.isInsert, z, last')
    BY <1>1, <1>3, <1>4, <1>8, <1>11 DEF Room
  <1>13. Good(b, table', last', b.isInsert) /\ marked' \subseteq Rec /\ last' \in 0..MaxRec
    BY <1>1, <1>3, <1>10, <1>11 DEF IInv
  <1> QED BY <1>1, <1>4, <1>5, <1>12, <1>13, StepOK

(* The list cut to the current record. *)
LEMMA ShortenedOK ==
    ASSUME NEW a, NEW t, NEW n, NEW i, Good(a, t, n, i)
    PROVE  Good(Shortened(a), t, n, i) /\ Here(Shortened(a)) = Here(a)
  <1> DEFINE s == <<Here(a)>>
             e == <<a.del[1]>>
             b == [a EXCEPT !.list = s, !.del = e, !.pos = 1]
  <1>1. s \in Seq(Rec) /\ Len(s) = 1 /\ s[1] = Here(a)
    BY HereIsRec
  <1>2. e \in Seq(BOOLEAN) /\ Len(e) = 1
    <2>1. a.del \in Seq(BOOLEAN) /\ 1 \in DOMAIN a.del
      BY DEF Good, Loose, Area
    <2> QED BY <2>1
  <1>3. Shortened(a) = a \/ Shortened(a) = b
    BY DEF Shortened
  <1>4. 1 \in DOMAIN s
    BY <1>1
  <1> HIDE DEF s, e
  <1>5. b \in Area
    BY <1>1, <1>2 DEF Good, Loose, Area
  <1>6. b.list = s /\ b.del = e /\ b.pos = 1 /\ b.pool = a.pool /\ b.isInsert = a.isInsert
    BY DEF Good, Loose, Area
  <1> HIDE DEF b
  <1>7. Good(b, t, n, i) /\ Here(b) = Here(a)
    BY <1>1, <1>2, <1>4, <1>5, <1>6 DEF Good, Loose, Here
  <1> QED BY <1>3, <1>7

LEMMA PreparedOK ==
    ASSUME NEW a, NEW t, NEW n, NEW i, Good(a, t, n, i)
    PROVE  Good(Prepared(a), t, n, i) /\ Here(Prepared(a)) = Here(a) /\ Prepared(a).buf = a.buf
  <1> DEFINE e == IF a.touched # "unknown" THEN a.touched
                  ELSE IF order = "index" THEN "yes" ELSE "no"
  <1>1. Prepared(a) = [a EXCEPT !.touched = e]
    BY DEF Prepared
  <1>2. e \in {"unknown", "yes", "no"}
    BY DEF Good, Loose, Area
  <1> HIDE DEF e
  <1> QED BY <1>1, <1>2 DEF Good, Loose, Area, Here

(* The pool is told what an UPDATE of the current record wrote. *)
LEMMA RefreshedOK ==
    ASSUME NEW a, NEW t, NEW n, NEW i, Good(a, t, n, i), TableFits(t, n)
    PROVE  LET u == [t EXCEPT ![Here(a)] = IF @ = NoRow THEN NoRow ELSE a.buf]
           IN TableFits(u, n) /\ Good(Refreshed(a), u, n, i)
  <1> DEFINE h == Here(a)
             e == IF a.pool[h] = NoRow THEN NoRow ELSE a.buf
             p == [a.pool EXCEPT ![h] = e]
             u == [t EXCEPT ![h] = IF t[h] = NoRow THEN NoRow ELSE a.buf]
  <1>1. h \in Rec /\ a.buf \in Val /\ a.pool \in [Rec -> Row] /\ NoRow \notin Val
    BY HereIsRec, Bounds DEF Good, Loose, Area
  <1>2. Refreshed(a) = [a EXCEPT !.pool = p]
    BY DEF Refreshed
  <1> HIDE DEF h
  <1>3. p \in [Rec -> Row]
    BY <1>1 DEF Row
  <1>4. TableFits(u, n)
    BY <1>1 DEF TableFits, Row
  <1>5. PoolFits(p, u, n)
    <2>1. PoolFits(a.pool, t, n) /\ t \in [Rec -> Row]
      BY DEF Good, Loose, TableFits
    <2>2. ASSUME NEW r \in Rec, p[r] # NoRow
          PROVE  r <= n /\ (u[r] # NoRow => p[r] = u[r])
      <3>1. a.pool[r] # NoRow
        BY <1>1, <2>2
      <3>2. CASE r = h
        BY <1>1, <2>1, <3>1, <3>2 DEF PoolFits
      <3>3. CASE r # h
        BY <1>1, <2>1, <3>1, <3>3 DEF PoolFits
      <3> QED BY <3>2, <3>3
    <2> QED BY <2>2 DEF PoolFits
  <1> HIDE DEF p, u
  <1>6. Good(Refreshed(a), u, n, i)
    BY <1>2, <1>3, <1>5 DEF Good, Loose, Area
  <1> QED BY <1>4, <1>6 DEF u, h

LEMMA UpdateOK ==
    ASSUME IInv, Update
    PROVE  IInv'
  <1> DEFINE a == Prepared(wa)
             b == Shortened(a)
             c == Refreshed(b)
             u == [table EXCEPT ![Here(b)] = IF @ = NoRow THEN NoRow ELSE b.buf]
  <1>1. todo # <<>> /\ marked' = marked /\ last' = last /\ Continue(Cooled(c), <<>>)
        /\ table' = [table EXCEPT ![Here(wa)] = IF @ = NoRow THEN NoRow ELSE wa.buf]
    BY DEF Update, Running
  <1>2. Good(wa, table, last, wa.isInsert) /\ TableFits(table, last) /\ marked \subseteq Rec
    BY GoodHere DEF Update, Running, IInv
  <1>3. Good(a, table, last, wa.isInsert) /\ Here(a) = Here(wa) /\ a.buf = wa.buf
    BY <1>2, PreparedOK
  <1> HIDE DEF a
  <1>4. Good(b, table, last, wa.isInsert) /\ Here(b) = Here(wa)
    BY <1>3, ShortenedOK
  <1>5. b.buf = wa.buf
    BY <1>3 DEF Shortened, Good, Loose, Area
  <1>6. table' = u
    BY <1>1, <1>4, <1>5
  <1> HIDE DEF b
  <1>7. TableFits(u, last) /\ Good(c, u, last, wa.isInsert)
    BY <1>2, <1>4, RefreshedOK
  <1> HIDE DEF c, u
  <1>8. Good(Cooled(c), table', last, wa.isInsert)
    BY <1>6, <1>7, FlagsOK DEF Cooled
  <1> QED BY <1>1, <1>2, <1>6, <1>7, <1>8, PlainOK, QuietOK

-----------------------------------------------------------------------------
(* The calls of the application, and another user *)

LEMMA BeginOK ==
    ASSUME IInv, NEW c \in Frame, c.op # "cold", c.op = "goto" => c.n \in 0..MaxRec,
           c.op = "append" => last + (IF wa.isInsert THEN 1 ELSE 0) < MaxRec,
           NEW a, Begin(c, a), Good(a, table, last, wa.isInsert), Here(a) = Here(wa),
           PhantomEdit => a.fEof,
           order' \in {"recno", "index"}, filter' \in SUBSET Val
    PROVE  IInv'
  <1> DEFINE f == Do("cold", FWD, 0, FALSE)
  <1>1. /\ todo = <<>> /\ wa' = a /\ todo' = IF wa.hot THEN <<f, c>> ELSE <<c>>
        /\ app' = [app EXCEPT !.call = c]
        /\ table' = table /\ marked' = marked /\ last' = last /\ setDeleted' = setDeleted
    BY DEF Begin, Idle
  <1>2. f \in Frame /\ f.op = "cold"
    BY Bounds DEF Do, Frame
  <1> HIDE DEF f
  <1>3. Stack(todo') /\ (HasAppend(todo') => c.op = "append") /\ todo' # <<>>
        /\ (Head(todo').op = "cold" => wa.hot)
    <2>1. CASE wa.hot
      <3>1. todo' = <<f, c>>
        BY <1>1, <2>1
      <3> QED BY <3>1, <1>2, <2>1 DEF Stack, HasAppend
    <2>2. CASE ~wa.hot
      <3>1. todo' = <<c>>
        BY <1>1, <2>2
      <3> QED BY <3>1 DEF Stack, HasAppend
    <2> QED BY <2>1, <2>2
  <1>4. a.isInsert = wa.isInsert
    BY DEF Good, Loose
  <1>5. Room(a.isInsert, todo', last)
    BY <1>3, <1>4 DEF IInv, Room
  <1>6. app' = [call |-> app'.call, sees |-> app'.sees] /\ app'.sees = app.sees
    BY <1>1 DEF IInv, Seen
  <1>7. Running("cold")' /\ ~a.isInsert /\ ~a.fEof => app'.sees.recno = Here(a)
    <2>1. SUFFICES ASSUME wa.hot, ~wa.isInsert, ~a.fEof
                   PROVE  app.sees.recno = Here(wa)
      BY <1>1, <1>3, <1>4, <1>6 DEF Running
    <2>2. ~wa.fEof
      BY <2>1 DEF PhantomEdit
    <2> QED BY <1>1, <2>1, <2>2 DEF IInv, Seen, Idle, Current
  <1>8. Seen'
    BY <1>1, <1>3, <1>6, <1>7 DEF Seen, Idle, Here
  <1>9. TableFits(table', last') /\ marked' \subseteq Rec /\ last' \in 0..MaxRec
        /\ setDeleted' \in BOOLEAN /\ Room(a.isInsert, todo', last')
        /\ Good(a, table', last', a.isInsert)
    BY <1>1, <1>4, <1>5 DEF IInv
  <1> QED BY <1>1, <1>3, <1>8, <1>9 DEF IInv

LEMMA SetsOK ==
    ASSUME IInv, NEW a, Sets(a), Good(a, table, last, wa.isInsert)
    PROVE  IInv'
  <1>1. /\ wa' = a /\ app' = [app EXCEPT !.sees = Sees(a)] /\ todo = <<>>
        /\ UNCHANGED <<table, marked, last, setDeleted, order, filter, todo>>
    BY DEF Sets, Idle
  <1>2. a.isInsert = wa.isInsert
    BY DEF Good, Loose
  <1>3. app' = [call |-> app'.call, sees |-> app'.sees] /\ app'.sees = Sees(a)
    BY <1>1 DEF IInv, Seen
  <1>4. app'.sees.recno = Current(a)
    BY <1>3 DEF Sees
  <1>5. Seen'
    BY <1>1, <1>3, <1>4 DEF Seen, Idle, Running, Current, Here
  <1>6. Good(a, table', last', a.isInsert) /\ TableFits(table', last')
        /\ Room(a.isInsert, todo', last') /\ Stack(todo')
    BY <1>1, <1>2 DEF IInv
  <1> QED BY <1>1, <1>5, <1>6 DEF IInv

(* Once there is a list the first GO TOP is done. *)
LEMMA ListedHere ==
    ASSUME IInv, wa.list # <<>>
    PROVE  Good(wa, table, last, wa.isInsert)
  <1>1. Opened(last).list = <<>>
    BY DEF Opened
  <1>2. ~First
    BY <1>1 DEF First
  <1> QED BY <1>2 DEF IInv

LEMMA OtherInsertsOK ==
    ASSUME IInv, NEW v \in Val, OtherInserts(v)
    PROVE  IInv'
  <1> DEFINE m == last + 1
  <1>1. /\ wa.list # <<>> /\ last + (IF wa.isInsert THEN 1 ELSE 0) < MaxRec
        /\ ~HasAppend(todo)
        /\ table' = [table EXCEPT ![m] = v] /\ last' = m
        /\ UNCHANGED <<marked, setDeleted, order, filter, wa, todo, app>>
    BY DEF OtherInserts, HasAppend
  <1>2. Good(wa, table, last, wa.isInsert) /\ TableFits(table, last)
    BY <1>1, ListedHere DEF IInv
  <1>3. last \in 0..MaxRec /\ m \in Rec /\ m \in 0..MaxRec
    BY <1>1, Bounds DEF IInv, Rec
  <1>4. TableFits(table', last')
    <2>1. table \in [Rec -> Row] /\ v \in Row
      BY <1>2 DEF TableFits, Row
    <2>2. table' \in [Rec -> Row]
      BY <1>1, <1>3, <2>1
    <2>3. ASSUME NEW r \in Rec, table'[r] # NoRow PROVE r <= last'
      BY <1>1, <1>2, <1>3, <2>1, <2>3, Bounds DEF TableFits
    <2> QED BY <2>2, <2>3 DEF TableFits
  <1>5. PoolFits(wa.pool, table', last')
    <2>1. ASSUME NEW r \in Rec, wa.pool[r] # NoRow
          PROVE  r <= last /\ r # m /\ (table[r] # NoRow => wa.pool[r] = table[r])
      BY <1>2, <1>3, <2>1, Bounds DEF Good, Loose, PoolFits
    <2>2. ASSUME NEW r \in Rec, wa.pool[r] # NoRow
          PROVE  r <= m /\ table'[r] = table[r]
      BY <1>1, <1>2, <1>3, <2>1, <2>2, Bounds DEF TableFits
    <2> QED BY <1>1, <2>1, <2>2 DEF PoolFits
  <1>6. Good(wa, table', last', wa.isInsert)
    BY <1>2, <1>5 DEF Good, Loose
  <1>7. Room(wa.isInsert, todo, last')
    BY <1>1, <1>3 DEF Room
  <1> HIDE DEF m
  <1>8. Seen'
    BY <1>1 DEF IInv, Seen, Idle, Running, Current, Here
  <1>9. Good(wa, table, last, wa.isInsert)' /\ Room(wa.isInsert, todo, last)' /\ last' \in 0..MaxRec
    BY <1>1, <1>3, <1>6, <1>7
  <1> QED BY <1>1, <1>4, <1>8, <1>9 DEF IInv

LEMMA OtherDeletesOK ==
    ASSUME IInv, NEW r \in Rec, OtherDeletes(r)
    PROVE  IInv'
  <1>1. /\ wa.list # <<>> /\ table' = [table EXCEPT ![r] = NoRow] /\ marked' = marked \ {r}
        /\ UNCHANGED <<last, setDeleted, order, filter, wa, todo, app>>
    BY DEF OtherDeletes
  <1>2. Good(wa, table, last, wa.isInsert) /\ TableFits(table, last)
    BY <1>1, ListedHere DEF IInv
  <1>3. Good(wa, table', last, wa.isInsert) /\ TableFits(table', last)
    BY <1>1, <1>2, LessTableOK
  <1>4. Seen'
    BY <1>1 DEF IInv, Seen, Idle, Running, Current, Here
  <1>5. Good(wa, table, last, wa.isInsert)' /\ Room(wa.isInsert, todo, last)'
    BY <1>1, <1>3 DEF IInv
  <1> QED BY <1>1, <1>3, <1>4, <1>5 DEF IInv

(* Every call of the application that begins a sequence of steps. *)
LEMMA CallingOK ==
    ASSUME IInv, Calling
    PROVE  IInv'
  <1> DEFINE Ready1(a) == Good(a, table, last, wa.isInsert) /\ Here(a) = Here(wa) /\ a.fEof = wa.fEof
  <1>1. Idle
    BY DEF Calling, CallFlush, CallAppend, CallDelete, CallRecall, RecCount, KeyCount, CallSkip,
           CallGoTo, CallGo, CallSeek, PutValue, SetOrder, SetFilter, SetScope, Call, Resets,
           Begin, Sets
  <1>2. Good(wa, table, last, wa.isInsert)
    BY <1>1, GoodHere DEF Idle, Running
  <1>3. order \in {"recno", "index"} /\ filter \in SUBSET Val
    BY DEF IInv
  <1>5. FWD \in Dir /\ BWD \in Dir /\ 0 \in Nat
    BY Bounds
  <1>6. ASSUME CallFlush \/ CallDelete \/ CallRecall PROVE IInv'
    <2>1. PICK op \in {"flush", "delete", "recall"} : Call(Do(op, FWD, 0, FALSE), wa)
      BY <1>6 DEF CallFlush, CallDelete, CallRecall
    <2> DEFINE c == Do(op, FWD, 0, FALSE)
    <2>0. c \in Frame /\ c.op = op
      BY <1>5 DEF Do, Frame
    <2>2. c \in Frame /\ c.op = op /\ Begin(c, wa) /\ order' = order /\ filter' = filter
      BY <2>1, <2>0 DEF Call
    <2> HIDE DEF c
    <2>3. order' \in {"recno", "index"} /\ filter' \in SUBSET Val
      BY <2>2, <1>3
    <2>4. c.op # "cold" /\ c.op # "goto" /\ c.op # "append"
      BY <2>2
    <2> QED BY <1>2, <2>2, <2>3, <2>4, BeginOK DEF PhantomEdit
  <1>7. ASSUME CallAppend PROVE IInv'
    <2> DEFINE c == Do("append", FWD, 0, FALSE)
    <2>0. c \in Frame /\ c.op = "append"
      BY <1>5 DEF Do, Frame
    <2>1. c \in Frame /\ c.op = "append" /\ Begin(c, wa) /\ order' = order /\ filter' = filter
          /\ last + (IF wa.isInsert THEN 1 ELSE 0) < MaxRec
      BY <1>7, <2>0 DEF CallAppend, Call
    <2> HIDE DEF c
    <2>2. order' \in {"recno", "index"} /\ filter' \in SUBSET Val
      BY <2>1, <1>3
    <2> QED BY <1>2, <2>1, <2>2, BeginOK DEF PhantomEdit
  <1>8. ASSUME NEW d \in Dir, CallGo(d) PROVE IInv'
    <2> DEFINE c == Do("go", d, 0, FALSE)
    <2>0. c \in Frame /\ c.op = "go"
      BY <1>5, <1>8 DEF Do, Frame
    <2>1. c \in Frame /\ c.op = "go" /\ Begin(c, wa) /\ order' = order /\ filter' = filter
      BY <1>8, <2>0 DEF CallGo, Call
    <2> HIDE DEF c
    <2>2. order' \in {"recno", "index"} /\ filter' \in SUBSET Val
      BY <2>1, <1>3
    <2> QED BY <1>2, <2>1, <2>2, BeginOK DEF PhantomEdit
  <1>9. ASSUME NEW r \in GoTos, CallGoTo(r) PROVE IInv'
    <2>1. r \in 0..MaxRec /\ r \in Nat
      BY <1>9, ListAssumption
    <2> DEFINE c == Do("goto", FWD, r, FALSE)
    <2>0. c \in Frame /\ c.op = "goto" /\ c.n = r
      BY <1>5, <2>1 DEF Do, Frame
    <2>2. c \in Frame /\ c.op = "goto" /\ c.n = r /\ Begin(c, wa) /\ order' = order /\ filter' = filter
      BY <1>9, <2>1, <2>0 DEF CallGoTo, Call
    <2> HIDE DEF c
    <2>3. order' \in {"recno", "index"} /\ filter' \in SUBSET Val
      BY <2>2, <1>3
    <2> QED BY <1>2, <2>1, <2>2, <2>3, BeginOK DEF PhantomEdit
  <1>10. ASSUME NEW n \in Skips, CallSkip(n) PROVE IInv'
    <2> DEFINE c == Do("skip", IF n > 0 THEN FWD ELSE BWD, IF n > 0 THEN n ELSE -n, FALSE)
               k == Current(wa)
               a == [wa EXCEPT !.cur = k, !.fBottom = FALSE, !.fBof = FALSE, !.fEof = FALSE]
    <2>1. n \in Int \ {0}
      BY <1>10, ListAssumption
    <2>2. c \in Frame /\ c.op = "skip"
      BY <2>1, <1>5 DEF Do, Frame
    <2>3. ~PhantomEdit /\ Begin(c, a) /\ order' = order /\ filter' = filter
      BY <1>10 DEF CallSkip, Call
    <2> HIDE DEF c
    <2>4. k \in Nat
      BY <1>2, CurrentIsNat
    <2> HIDE DEF k
    <2>5. Good(a, table, last, wa.isInsert) /\ Here(a) = Here(wa)
      BY <1>2, <2>4 DEF Good, Loose, Area, Here
    <2> HIDE DEF a
    <2>6. order' \in {"recno", "index"} /\ filter' \in SUBSET Val
      BY <2>3, <1>3
    <2> QED BY <2>2, <2>3, <2>5, <2>6, BeginOK
  <1>11. ASSUME NEW d \in Dir, NEW v \in Seeks, NEW soft \in BOOLEAN, CallSeek(d, v, soft)
         PROVE  IInv'
    <2> DEFINE c == Do("seek", d, v, soft)
               a == [wa EXCEPT !.fBottom = FALSE, !.fEof = FALSE]
    <2>1. v \in Nat
      <3>1. v \in Val
        BY <1>11, ListAssumption
      <3> QED BY <3>1, Bounds
    <2>2. c \in Frame /\ c.op = "seek"
      BY <2>1, <1>11 DEF Do, Frame
    <2>3. ~PhantomEdit /\ Begin(c, a) /\ order' = order /\ filter' = filter
      BY <1>11 DEF CallSeek, Call
    <2> HIDE DEF c
    <2>4. Good(a, table, last, wa.isInsert) /\ Here(a) = Here(wa)
      BY <1>2 DEF Good, Loose, Area, Here
    <2> HIDE DEF a
    <2>5. order' \in {"recno", "index"} /\ filter' \in SUBSET Val
      BY <2>3, <1>3
    <2> QED BY <2>2, <2>3, <2>4, <2>5, BeginOK
  <1>12. ASSUME RecCount PROVE IInv'
    <2> DEFINE m == wa.rcount + (IF wa.isInsert /\ wa.hot THEN 2 ELSE 1)
               a == [wa EXCEPT !.lastRec = m]
    <2>1. Sets(a)
      BY <1>12 DEF RecCount
    <2>2. m \in Nat
      BY <1>2 DEF Good, Loose, Area
    <2> HIDE DEF m
    <2>3. Good(a, table, last, wa.isInsert)
      BY <1>2, <2>2 DEF Good, Loose, Area
    <2> HIDE DEF a
    <2> QED BY <2>1, <2>3, SetsOK
  <1>13. ASSUME KeyCount PROVE IInv'
    <2> DEFINE a == [wa EXCEPT !.dir = FWD, !.condChanged = FALSE]
    <2>1. Sets(a)
      BY <1>13 DEF KeyCount
    <2>2. Good(a, table, last, wa.isInsert)
      BY <1>2, <1>5 DEF Good, Loose, Area
    <2> HIDE DEF a
    <2> QED BY <2>1, <2>2, SetsOK
  <1>14. ASSUME NEW v \in Val, PutValue(v) PROVE IInv'
    <2> DEFINE a == [wa EXCEPT !.buf = v, !.hot = TRUE]
    <2>1. Sets(a)
      BY <1>14 DEF PutValue
    <2>2. Good(a, table, last, wa.isInsert)
      BY <1>2 DEF Good, Loose, Area
    <2> HIDE DEF a
    <2> QED BY <2>1, <2>2, SetsOK
  <1> DEFINE g == Do("go", FWD, 0, FALSE)
  <1>15. g \in Frame /\ g.op = "go"
    BY <1>5 DEF Do, Frame
  <1> HIDE DEF g
  <1>16. ASSUME NEW a, Resets(a), Good(a, table, last, wa.isInsert), Here(a) = Here(wa),
                a.fEof = wa.fEof, order' \in {"recno", "index"}, filter' \in SUBSET Val
         PROVE  IInv'
    <2>1. Begin(g, a)
      BY <1>16 DEF Resets, g
    <2> QED BY <1>15, <1>16, <2>1, BeginOK DEF PhantomEdit
  <1>17. ASSUME NEW o \in {"recno", "index"}, SetOrder(o) PROVE IInv'
    <2> DEFINE x == wa.orderChanged \/ o # order
               e == IF o # order THEN [d \in Dir |-> 0] ELSE wa.ends
               f == IF o = "index" THEN [d \in Dir |-> None] ELSE wa.stmt
               a == [wa EXCEPT !.orderChanged = x, !.ends = e, !.stmt = f]
    <2>1. Resets(a) /\ order' = o /\ filter' = filter
      BY <1>17 DEF SetOrder
    <2>2. x \in BOOLEAN /\ e \in [Dir -> 0..MaxRec] /\ f \in [Dir -> (SUBSET Val) \cup {None}]
      BY <1>2, Bounds DEF Good, Loose, Area
    <2> HIDE DEF x, e, f
    <2>3. Good(a, table, last, wa.isInsert) /\ Here(a) = Here(wa) /\ a.fEof = wa.fEof
      BY <1>2, <2>2 DEF Good, Loose, Area, Here
    <2> HIDE DEF a
    <2> QED BY <1>3, <1>16, <2>1, <2>3
  <1>18. ASSUME NEW s \in Conditions, SetFilter(s) \/ SetScope(s) PROVE IInv'
    <2> DEFINE e == [d \in Dir |-> 0]
               a == [wa EXCEPT !.condChanged = TRUE]
               b == [wa EXCEPT !.condChanged = TRUE, !.ends = e]
    <2>1. (Resets(a) \/ Resets(b)) /\ filter' = s /\ order' = order
      BY <1>18 DEF SetFilter, SetScope
    <2>2. s \in SUBSET Val
      BY <1>18, ListAssumption
    <2>3. e \in [Dir -> 0..MaxRec]
      BY Bounds
    <2> HIDE DEF e
    <2>4. Good(a, table, last, wa.isInsert) /\ Here(a) = Here(wa) /\ a.fEof = wa.fEof
      BY <1>2 DEF Good, Loose, Area, Here
    <2>5. Good(b, table, last, wa.isInsert) /\ Here(b) = Here(wa) /\ b.fEof = wa.fEof
      BY <1>2, <2>3 DEF Good, Loose, Area, Here
    <2> HIDE DEF a, b
    <2> QED BY <1>3, <1>16, <2>1, <2>2, <2>4, <2>5
  <1> QED BY <1>6, <1>7, <1>8, <1>9, <1>10, <1>11, <1>12, <1>13, <1>14, <1>17, <1>18 DEF Calling

-----------------------------------------------------------------------------
(* The invariant *)

LEMMA InitOK == Init => IInv
  <1> SUFFICES ASSUME Init PROVE IInv
    OBVIOUS
  <1>1. PICK s \in Starts : /\ table = s.table /\ marked = s.marked
                            /\ order = s.order /\ setDeleted = s.setDeleted
    BY DEF Init
  <1>2. s \in [table: {t \in [Rec -> Row] : \E r \in Rec : t[r] # NoRow},
               marked: SUBSET Rec, order: {"recno", "index"}, setDeleted: BOOLEAN]
    BY ListAssumption
  <1>3. table \in [Rec -> Row] /\ (\E r \in Rec : table[r] # NoRow) /\ marked \subseteq Rec
        /\ order \in {"recno", "index"} /\ setDeleted \in BOOLEAN
    BY <1>1, <1>2
  <1>4. last \in Rec /\ \A x \in Rec : x > last => table[x] = NoRow
    BY DEF Init
  <1>5. TableFits(table, last) /\ last \in 0..MaxRec
    <2>1. last \in 0..MaxRec /\ Rec \subseteq Nat
      BY <1>4, Bounds DEF Rec
    <2>2. ASSUME NEW r \in Rec, table[r] # NoRow PROVE r <= last
      BY <2>1, <2>2, <1>4
    <2> QED BY <1>3, <2>1, <2>2 DEF TableFits
  <1>6. filter = Val /\ wa = Opened(last) /\ todo = <<Do("go", FWD, 0, FALSE)>>
        /\ app = [call |-> app.call, sees |-> app.sees]
    BY DEF Init
  <1>7. Meeting(table, filter) # {}
    BY <1>3, <1>6 DEF Meeting, Row
  <1>8. Stack(todo) /\ ~HasAppend(todo) /\ todo # <<>> /\ Head(todo).op = "go"
    <2> DEFINE g == Do("go", FWD, 0, FALSE)
    <2>1. g \in Frame /\ g.op = "go"
      BY Bounds DEF Do, Frame
    <2>2. todo = <<g>>
      BY <1>6
    <2> HIDE DEF g
    <2> QED BY <2>1, <2>2 DEF Stack, HasAppend
  <1>9. wa.isInsert = FALSE
    BY <1>6 DEF Opened
  <1>10. Room(wa.isInsert, todo, last)
    BY <1>8, <1>9 DEF Room
  <1>11. Seen
    BY <1>6, <1>8 DEF Seen, Idle, Running
  <1>12. First
    BY <1>6, <1>7 DEF First
  <1> QED BY <1>3, <1>5, <1>6, <1>8, <1>10, <1>11, <1>12 DEF IInv

LEMMA StutterOK == IInv /\ UNCHANGED vars => IInv'
  <1> SUFFICES ASSUME IInv, UNCHANGED vars PROVE IInv'
    OBVIOUS
  <1>1. UNCHANGED <<table, marked, last, setDeleted, order, filter, wa, todo, app>>
    BY DEF vars
  <1>2. Seen' /\ First' = First
    BY <1>1 DEF IInv, Seen, First, Idle, Running, Current, Here, Meeting
  <1> QED BY <1>1, <1>2 DEF IInv

LEMMA NextOK == IInv /\ [Next]_vars => IInv'
  <1> SUFFICES ASSUME IInv, [Next]_vars PROVE IInv'
    OBVIOUS
  <1>1. ASSUME Step PROVE IInv'
    <2>1. ASSUME NEW d \in Dir, GoEnd(d) \/ RawInList(d) \/ RawAtEnd(d) \/ RawQuery(d) PROVE IInv'
      BY <2>1, GoEndOK, RawInListOK, RawAtEndOK, RawQueryOK
    <2> QED BY <1>1, <2>1, InsertOK, UpdateOK, DropEditOK, SkipOK, SkipFilterOK, RaiseBofOK,
               RawFromPhantomOK, FlushOK, GoToOK, Append1OK, DeleteRecOK, RecallOK, SeekOK,
               SoughtAgainOK DEF Step
  <1>2. ASSUME Other PROVE IInv'
    <2>1. Marks \subseteq Rec
      BY ListAssumption
    <2> QED BY <1>2, <2>1, OtherInsertsOK, OtherDeletesOK DEF Other
  <1> QED BY <1>1, <1>2, CallingOK, StutterOK DEF Next

THEOREM Invariance == Spec => []IInv
  BY InitOK, NextOK, PTL DEF Spec

(* The variables keep their types: whatever list a query answers, the area    *)
(* stands on a record of its list, and record numbers stay within the table. *)
THEOREM TypeCorrect == Spec => []TypeOK
  <1>1. IInv => TypeOK
    <2> SUFFICES ASSUME IInv PROVE TypeOK
      OBVIOUS
    <2>1. wa \in Area
      BY LooseHere DEF Loose
    <2> QED BY <2>1 DEF IInv, TypeOK, TableFits, Stack
  <1> QED BY <1>1, Invariance, PTL

(* The pool (hBufferPool) never has a row that differs from the table's, for  *)
(* any sizes of lists, pages and pool, and whatever another user does.        *)
THEOREM PoolStaysCurrent == Spec => []PoolIsCurrent
  <1>1. IInv => PoolIsCurrent
    <2> SUFFICES ASSUME IInv PROVE PoolIsCurrent
      OBVIOUS
    <2>1. PoolFits(wa.pool, table, last)
      BY LooseHere DEF Loose
    <2> QED BY <2>1 DEF PoolIsCurrent, PoolFits
  <1> QED BY <1>1, Invariance, PTL

(* sqlExGoCold writes an edit to the record the application saw when it made  *)
(* it, or to a record of its own.                                             *)
THEOREM EditsGoHome == Spec => WritesItsRecord
  <1>1. ASSUME IInv, [Next]_vars
        PROVE  [Insert \/ Update =>
                   \A r \in Rec : table'[r] # table[r] => r = last + 1 \/ r = app.sees.recno]_vars
    <2>1. TableFits(table, last)
      BY <1>1 DEF IInv
    <2>2. ASSUME Insert, NEW r \in Rec, table'[r] # table[r] PROVE r = last + 1
      BY <2>1, <2>2 DEF Insert, TableFits
    <2>3. ASSUME Update, NEW r \in Rec, table'[r] # table[r] PROVE r = app.sees.recno
      <3>1. app.sees.recno = Here(wa)
        BY <1>1, <2>3 DEF IInv, Seen, Update
      <3>2. table' = [table EXCEPT ![Here(wa)] = IF @ = NoRow THEN NoRow ELSE wa.buf]
        BY <2>3 DEF Update
      <3> QED BY <2>1, <2>3, <3>1, <3>2 DEF TableFits
    <2> QED BY <2>2, <2>3
  <1> QED BY <1>1, Invariance, PTL DEF Spec, WritesItsRecord
=============================================================================
