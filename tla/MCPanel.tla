------------------------------ MODULE MCPanel ------------------------------
(* The zone of the panel, six hours behind UTC, and a source's, whose day 2 has no     *)
(* midnight and whose day 3 has it twice.                                              *)
EXTENDS Panel

CONSTANTS page1, page2

MCHorizon == -14..160

MCOffset == [z \in Zones |-> [t \in MCHorizon |->
  IF z = "mexico" THEN -6
  ELSE IF t >= 51 /\ t < 75 THEN -2 ELSE -3]]

MCSchedule == [zone |-> "other", weekdays |-> 1..6, hour |-> 0]

MCPref == [p \in {page1, page2} |-> IF p = page1 THEN 2 ELSE 0]

MCBudget == [k \in Kinds |-> 1]
=============================================================================
