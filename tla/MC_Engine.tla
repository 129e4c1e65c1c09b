------------------------------ MODULE MC_Engine ------------------------------
(* Instantiates Engine for TLC: two indexed contracts c1, c2 and one       *)
(* contract u that is not indexed.                                         *)
EXTENDS Engine

CONSTANTS c1, c2, u

MC_Contracts == {c1, c2, u}
MC_IndexedBoth == {c1, c2}
MC_IndexedOne == {c1}

(* Transactions touching one, both or an unindexed contract, with two     *)
(* events of one contract so that a page can split a transaction.         *)
MC_ShapesMixed == {<<c1>>, <<c2, c1>>, <<u, c2>>, <<c1, c1>>}
(* Shapes that make a tx of c2 alone precede a tx of both in one block.   *)
MC_ShapesOrder == {<<c2>>, <<c1, c2>>}
(* One event of c1 per transaction.                                        *)
MC_ShapesSingle == {<<c1>>}
=============================================================================
