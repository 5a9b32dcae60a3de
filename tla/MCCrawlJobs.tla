---------------------------- MODULE MCCrawlJobs ----------------------------
(* Values for the constants of CrawlJobs that a .cfg cannot write.         *)
EXTENDS CrawlJobs, TLC

CONSTANTS s1, s2, cron, admin1, admin2

MCKeyOf == [c \in Callers |-> IF c = cron THEN "scheduled" ELSE "admin"]

\* How often each act of the environment may happen: those a run is about, and no other.
Only(b) == b @@ [k \in Kinds |-> 0]

\* Any two of them.
MCFailures == Only("crash" :> 2 @@ "infra" :> 1 @@ "stall" :> 1 @@ "lost" :> 1
                   @@ "toggle" :> 1 @@ "recover" :> 1 @@ "any" :> 2)
MCNothing  == Only(<<>>)
=============================================================================
