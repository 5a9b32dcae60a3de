--------------------------- MODULE MCDocPipeline ---------------------------
(* Values for the constants of DocPipeline that a .cfg cannot write.       *)
EXTENDS DocPipeline, TLC

CONSTANTS d1, d2, d3, t1, x1, x2

\* Every document has the same text: the content of all of them is one.
MCSameText == [d \in Docs |-> t1]

\* How often each act of the environment may happen: those a run is about, and no other.
Only(b) == b @@ [k \in Kinds |-> IF k = "any" THEN 9 ELSE 0]

\* One act of the environment between the start and the end; or a reset and a lost call.
MCCrash  == Only("crash" :> 1 @@ "lost" :> 1 @@ "stall" :> 1 @@ "recrawl" :> 1 @@ "any" :> 1)
MCRaces  == Only("reset" :> 1 @@ "lost" :> 1)
MCAsk    == Only("ask" :> 1 @@ "infra" :> 1 @@ "any" :> 1)
MCReject == Only("reject" :> 1)

Symmetry == Permutations(Slots) \cup Permutations(Docs)
=============================================================================
