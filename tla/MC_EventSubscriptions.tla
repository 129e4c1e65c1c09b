----------------------- MODULE MC_EventSubscriptions -----------------------
EXTENDS EventSubscriptions

CONSTANTS c1, c2, i1, j1

MC_Clients == {c1, c2}
MC_IdsOf == (c1 :> {i1}) @@ (c2 :> {j1})
(* c2 may subscribe and never poll its stream.                             *)
MC_OneReader == {c1}
=============================================================================
