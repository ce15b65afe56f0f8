---------------------------- MODULE MCAllocation ----------------------------
(***************************************************************************)
(* Instances of Allocation for TLC: a configuration picks the Lines and    *)
(* the Output of one of them.                                              *)
(***************************************************************************)
EXTENDS Allocation, TLC

CONSTANTS o1, o2, o3, b1, b2, p1, p2

Row(b, q) == [beer |-> b, quantity |-> q]

\* One order over two beers.  With the productions late, short or in time,
\* each of its rows can be refused or allocated.
SingleLines == o1 :> <<Row(b1, 2), Row(b2, 1)>>
SingleOutput == p1 :> Row(b1, 2) @@ p2 :> Row(b2, 1)

\* Two orders that take the same two beers in opposite orders, with stock for
\* one of them, and an order without rows.
PairLines ==
  o1 :> <<Row(b1, 1), Row(b2, 1)>> @@ o2 :> <<Row(b2, 1), Row(b1, 1)>> @@ o3 :> << >>
PairOutput == p1 :> Row(b1, 1) @@ p2 :> Row(b2, 1)

\* A row that asks for nothing: its command is refused if the beer is unknown
\* and poisoned if it is known, so that only the watchdog ends the saga.
WatchedLines == o1 :> <<Row(b1, 1), Row(b2, 0)>>
WatchedOutput == p1 :> Row(b1, 1) @@ p2 :> Row(b2, 1)

\* Beer b1 in two rows with different quantities, then a beer nobody makes.
RepeatedLines == o1 :> <<Row(b1, 1), Row(b1, 2), Row(b2, 1)>>
RepeatedOutput == p1 :> Row(b1, 2) @@ p2 :> Row(b1, 1)
=============================================================================
