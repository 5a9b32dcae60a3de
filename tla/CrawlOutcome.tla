---------------------------- MODULE CrawlOutcome ----------------------------
(***************************************************************************)
(* What crawlSite promises to the crawl job: documents arrive one at a     *)
(* time and never more than MaxPages, the error of the origin is thrown    *)
(* only while nothing has been saved, and what has been saved is returned  *)
(* even when the origin goes down half way.                                *)
(***************************************************************************)
EXTENDS Integers, Sequences

CONSTANTS Documents, MaxPages

VARIABLES saved, ended

cvars == <<saved, ended>>

Ends == {"no", "returned", "partial", "threw"}

CInit == saved = <<>> /\ ended = "no"

Save(d) ==
  /\ ended = "no" /\ Len(saved) < MaxPages
  /\ \A i \in DOMAIN saved : saved[i] # d
  /\ saved' = Append(saved, d)
  /\ UNCHANGED ended

Return(how) ==
  /\ ended = "no" /\ saved # <<>>
  /\ ended' = how
  /\ UNCHANGED saved

Throw ==
  /\ ended = "no" /\ saved = <<>>
  /\ ended' = "threw"
  /\ UNCHANGED saved

CNext ==
  \/ \E d \in Documents : Save(d)
  \/ Return("returned")
  \/ Return("partial")
  \/ Throw

CSpec == CInit /\ [][CNext]_cvars
=============================================================================
