------------------------------- MODULE Cursor -------------------------------
(***************************************************************************)
(* What a work area promises to an application written for DBF files: a    *)
(* pointer into the records of a table in their order, which SKIP moves to *)
(* the neighbour and GO TOP, GO BOTTOM to the ends, and the flag EOF().  There *)
(* is no page, no cache and no remembered end.                             *)
(***************************************************************************)
EXTENDS Integers

CONSTANTS
    Rec,    \* record numbers
    NoRec   \* the pointer at EOF: on no record

VARIABLES table, recno, eof

vars == <<table, recno, eof>>

Before(r) == {x \in table : x < r}
After(r)  == {x \in table : x > r}

First(S) == CHOOSE x \in S : \A y \in S : x <= y
Last(S)  == CHOOSE x \in S : \A y \in S : y <= x

At(r) == recno' = r /\ eof' = FALSE

(* At EOF: past the last record, in an empty table, or after a GO TO a  *)
(* record that does not exist.                                         *)
Lost == recno' = NoRec /\ eof' = TRUE

(* USE, which stands on the first record. *)
Init ==
    /\ table \in SUBSET Rec
    /\ recno = IF table = {} THEN NoRec ELSE First(table)
    /\ eof = (table = {})

GoTop ==
    /\ IF table = {} THEN Lost ELSE At(First(table))
    /\ UNCHANGED table

GoBottom ==
    /\ IF table = {} THEN Lost ELSE At(Last(table))
    /\ UNCHANGED table

GoTo(r) ==
    /\ IF r \in table THEN At(r) ELSE Lost
    /\ UNCHANGED table

SkipForward ==
    /\ ~eof
    /\ IF After(recno) # {} THEN At(First(After(recno))) ELSE Lost
    /\ UNCHANGED table

(* SKIP -1 on the first record stays there. *)
SkipBackward ==
    /\ ~eof
    /\ At(IF Before(recno) # {} THEN Last(Before(recno)) ELSE recno)
    /\ UNCHANGED table

(* At EOF, SKIP stays there and SKIP -1 goes to the last record. *)
SkipAtEof == eof /\ UNCHANGED vars
SkipFromEof == eof /\ GoBottom

Append(r) == r \in Rec \ table /\ table' = table \cup {r} /\ At(r)

Next ==
    \/ GoTop \/ GoBottom \/ SkipForward \/ SkipBackward
    \/ SkipAtEof \/ SkipFromEof
    \/ \E r \in Rec : Append(r)
    \/ \E r \in Rec \cup {NoRec} : GoTo(r)

Spec == Init /\ [][Next]_vars
=============================================================================
