---------------------------- MODULE PaginationMC ----------------------------
(* A small instance of Pagination for TLC: pages of two records.           *)
EXTENDS Pagination

TwoSymbols == 1..2
AllKinds == {"klines", "funding", "collector"}
SomeStarts == {0, 1}
\* --end at a past time, now, or in the future.
SomeSpans == {-3, -2, 0, 1}
=============================================================================
