---------------------------- MODULE MCRecordList ----------------------------
(* Instances of RecordList for TLC. *)
EXTENDS RecordList, TLC

(* The first n records, with keys in turn: 1, MaxVal, 1, ... *)
Filled(n) == [r \in Rec |-> IF r > n THEN NoRow ELSE IF r % 2 = 1 THEN 1 ELSE MaxVal]

Start(n, M, set) ==
    [table: {Filled(n)}, marked: {M}, order: {"recno", "index"}, setDeleted: {set}]

(* A length that is no multiple of TopSize, and one record. *)
CursorStarts == Start(3, {}, FALSE) \cup Start(1, {}, FALSE) \cup Start(1, {}, TRUE)

(* A condition is set again that every record meets. *)
AllRows == {Val}

OneSkips == {1, -1}

EditStarts == Start(1, {}, TRUE)

(* The record at the end of the list of GO TOP is marked. *)
MarkedStarts == Start(TopSize + 1, {TopSize}, TRUE)
=============================================================================
