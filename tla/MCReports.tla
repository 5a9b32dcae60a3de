---------------------------- MODULE MCReports ----------------------------
(* Values for the constants of Reports that a .cfg cannot write.           *)
EXTENDS Reports, TLC

CONSTANTS d1, d2, r1, r2, ana, eva

MCNormOf == [d \in Docs |-> "norm"]

\* How often each act of the environment may happen.
Only(b) == b @@ [k \in Kinds |-> 0]

MCDay   == Only("edit" :> 1 @@ "again" :> 1 @@ "fail" :> 1)
MCQuiet == Only(<<>>)

MCSymmetry == Permutations(Docs) \cup Permutations(ReportIds)
=============================================================================
