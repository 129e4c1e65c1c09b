----------------------- MODULE MC_EntitySubscriptions -----------------------
EXTENDS EntitySubscriptions

CONSTANTS c1, c2, i1, i2, j1

MC_Clients == {c1, c2}
(* c1 may get one of two ids; c2 one.                                      *)
MC_IdsOf == (c1 :> {i1, i2}) @@ (c2 :> {j1})
=============================================================================
