-------------------------- MODULE ContentElection --------------------------
(***************************************************************************)
(* What document.normalize_dedup and document.classify promise together:   *)
(* among the documents that hold one content, one is elected; the others   *)
(* become its duplicates; and only the elected one is analysed.            *)
(*                                                                         *)
(* No queue, no status, no retry: DocPipeline is shown to implement this.  *)
(***************************************************************************)
CONSTANTS
  Docs,     \* documents
  Texts,    \* contents, as the content hash tells them apart
  TextOf,   \* the content of a document
  Clients,  \* who a content is analysed for
  None      \* null

VARIABLES
  elected,   \* the canonical document of a content, or None
  original,  \* the document that a duplicate points at, or None
  analysed   \* the clients that a document has been analysed for

vars == <<elected, original, analysed>>

Init ==
  /\ elected = [t \in Texts |-> None]
  /\ original = [d \in Docs |-> None]
  /\ analysed = [d \in Docs |-> {}]

Elect(d) ==
  /\ elected[TextOf[d]] = None
  /\ original[d] = None
  /\ elected' = [elected EXCEPT ![TextOf[d]] = d]
  /\ UNCHANGED <<original, analysed>>

Deduplicate(d) ==
  /\ elected[TextOf[d]] \notin {None, d}
  /\ original' = [original EXCEPT ![d] = elected[TextOf[d]]]
  /\ UNCHANGED <<elected, analysed>>

Analyse(d, c) ==
  /\ elected[TextOf[d]] = d
  /\ analysed' = [analysed EXCEPT ![d] = @ \cup {c}]
  /\ UNCHANGED <<elected, original>>

Next ==
  \E d \in Docs :
    \/ Elect(d)
    \/ Deduplicate(d)
    \/ \E c \in Clients : Analyse(d, c)

Spec == Init /\ [][Next]_vars
=============================================================================
