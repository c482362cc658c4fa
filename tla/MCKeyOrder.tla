---------------------------- MODULE MCKeyOrder ----------------------------
(* Instances of KeyOrder for TLC: an order on an amount and a date that may   *)
(* both be empty, and one on two columns that may not, which takes scopes.    *)
EXTENDS KeyOrder

Row(n, amount, date, unit, code) ==
    [recno |-> n, amount |-> amount, date |-> date, unit |-> unit, code |-> code]

MCColumn == {"recno", "amount", "date", "unit", "code"}
MCFields == [o \in 0..2 |-> CASE o = 0 -> <<"recno">>
                              [] o = 1 -> <<"amount", "date", "recno">>
                              [] o = 2 -> <<"unit", "code", "recno">>]
MCTables == {
    {Row(1, 2, Null, 1, 1), Row(2, Null, 2, 0, 2), Row(3, Null, Null, 1, 1), Row(4, 2, 1, 1, 0)},
    {Row(1, 2, 2, 1, 1), Row(2, 1, 1, 1, 0), Row(3, 1, 2, 0, 1), Row(4, 1, 1, 1, 1)},
    {} }
MCFilters == {{1, 3}}
MCTops == [o \in 1..2 |-> IF o = 2 THEN {<<1, 0>>} ELSE {}]
MCBottoms == MCTops
MCSeeks == [o \in 1..2 |-> IF o = 1 THEN {<<1>>, <<0, 1>>, <<2, 0>>} ELSE {<<0, 2>>, <<1, 0>>}]
=============================================================================
