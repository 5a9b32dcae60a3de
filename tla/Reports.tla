------------------------------ MODULE Reports ------------------------------
(***************************************************************************)
(* Findings, reports and mail of one client: what the analysts do to the   *)
(* findings, the drafts they create, regenerate, send and discard, and the *)
(* classifier that writes findings and reopens norms already sent.         *)
(*                                                                         *)
(* One step is the code between two awaits.  What a request has read is    *)
(* kept in its call record, so other requests and the classifier fall in   *)
(* between.  Every document here is canonical, so that two of them never   *)
(* have the same content hash.                                             *)
(***************************************************************************)
EXTENDS Naturals

CONSTANTS
  Docs,      \* documents of the client's sources, one finding each at most
  NormOf,    \* the norm a document is a version of (normIdentity of its URL)
  ReportIds, \* ids of reports: a bound on how many are created
  Desk,      \* users who handle reports
  Editors,   \* users who edit findings
  AutoSend,  \* client_delivery_configs.auto_send
  Budget,    \* how often the environment may act, per kind: a bound
  None       \* null

\* What the environment does that is not part of the flow.
Kinds == {"edit", "again", "fail"}
Users == Desk \cup Editors

ASSUME ReportsAssumption ==
  /\ AutoSend \in BOOLEAN
  /\ Budget \in [Kinds -> Nat]
  /\ None \notin Docs \cup ReportIds

VARIABLES
  stage,    \* where classification is with a document
  finding,  \* the row of `findings` of a document
  report,   \* rows of `reports`, with their items
  outbox,   \* the mails Resend has accepted
  call,     \* requests under way: program point and locals
  budget    \* what is left of Budget

vars == <<stage, finding, report, outbox, call, budget>>

Stages == {"absent", "ready", "upserted", "sentBefore", "new", "noted", "done"}

\* YELLOW, ORANGE and RED are one impact here: all three enter a report.
Finding == [impact: {"none", "green", "alert"}, excluded: BOOLEAN, note: BOOLEAN]
Report  == [status: {"none", "draft", "sent", "discarded"}, items: SUBSET Docs,
            file: SUBSET Docs, email: {"none", "sent", "failed"}]
Mail    == [report: ReportIds, items: SUBSET Docs, noted: SUBSET Docs]
Points  == {"idle", "board", "list", "write", "storeNew", "store", "send", "mail", "storeSent",
            "mark", "keep", "discard", "exclude"}
Call    == {c \in [at: Points, report: ReportIds \cup {None}, items: SUBSET Docs,
                  noted: SUBSET Docs, doc: Docs \cup {None}] :
              /\ c.at = "exclude" => c.doc \in Docs
              /\ c.at \notin {"idle", "exclude"} => c.report \in ReportIds}

Idle == [at |-> "idle", report |-> None, items |-> {}, noted |-> {}, doc |-> None]

\* Every variable has the type of the rows, mails and locals it models.
TypeOK ==
  /\ stage \in [Docs -> Stages]
  /\ finding \in [Docs -> Finding]
  /\ report \in [ReportIds -> Report]
  /\ outbox \subseteq Mail
  /\ call \in [Users -> Call]
  /\ budget \in [Kinds -> Nat]

Init ==
  /\ stage = [d \in Docs |-> "absent"]
  /\ finding = [d \in Docs |-> [impact |-> "none", excluded |-> FALSE, note |-> FALSE]]
  /\ report = [r \in ReportIds |-> [status |-> "none", items |-> {}, file |-> {},
                                    email |-> "none"]]
  /\ outbox = {}
  /\ call = [u \in Users |-> Idle]
  /\ budget = Budget

Spend(kind) ==
  /\ budget[kind] > 0
  /\ budget' = [budget EXCEPT ![kind] = @ - 1]

At(u, point) == call[u].at = point
Goto(u, point) == call' = [call EXCEPT ![u].at = point]
End(u) == call' = [call EXCEPT ![u] = Idle]

\* In a SENT report: only that keeps a finding from being a candidate again.
Burned(d) == \E r \in ReportIds : report[r].status = "sent" /\ d \in report[r].items

\* The lote "incluidos": what listCandidates takes.
Candidates == {d \in Docs : finding[d].impact = "alert" /\ ~finding[d].excluded /\ ~Burned(d)}

\* A source is `classifying` on the board while a document of the day is READY_FOR_AI.
Classifying == \E d \in Docs : stage[d] \notin {"absent", "done"}

-----------------------------------------------------------------------------
(* The classifier, for this client.                                        *)

DocReady(d) ==
  /\ stage[d] = "absent"
  /\ stage' = [stage EXCEPT ![d] = "ready"]
  /\ UNCHANGED <<finding, report, outbox, call, budget>>

\* A document that was or is being classified is given to classify once more: a retry
\* or a stalled job, or a request of the panel.
ClassifyAgain(d) ==
  /\ Spend("again")
  /\ stage[d] \notin {"absent", "ready"}
  /\ stage' = [stage EXCEPT ![d] = "ready"]
  /\ UNCHANGED <<finding, report, outbox, call>>

\* OpenAI has answered: the finding is created, or updated without touching
\* excludedFromNextReport and changeNote.
UpsertFinding(d) ==
  /\ stage[d] = "ready"
  /\ \E impact \in {"green", "alert"} :
       finding' = [finding EXCEPT ![d].impact = impact]
  /\ stage' = [stage EXCEPT ![d] = "upserted"]
  /\ UNCHANGED <<report, outbox, call, budget>>

\* Mutant of ReopenReads: any report counts, not only a SENT one.
MutReopenByDraft(d) ==
  /\ stage[d] = "upserted"
  /\ LET reported == \E e \in Docs \ {d}, r \in ReportIds :
                       NormOf[e] = NormOf[d] /\ e \in report[r].items
     IN stage' = [stage EXCEPT ![d] = IF reported THEN "sentBefore" ELSE "new"]
  /\ UNCHANGED <<finding, report, outbox, call, budget>>

\* applySentNormReopen looks for another version of the norm in a SENT report ...
ReopenReads(d) ==
  /\ stage[d] = "upserted"
  /\ LET sentBefore == \E e \in Docs \ {d} : NormOf[e] = NormOf[d] /\ Burned(e)
     IN stage' = [stage EXCEPT ![d] = IF sentBefore THEN "sentBefore" ELSE "new"]
  /\ UNCHANGED <<finding, report, outbox, call, budget>>

\* ... and writes what changed, or that there is nothing to say.
ReopenWrites(d) ==
  /\ \/ /\ stage[d] = "sentBefore"
        /\ finding' = [finding EXCEPT ![d] = [@ EXCEPT !.note = TRUE, !.excluded = FALSE]]
     \/ /\ stage[d] = "new"
        /\ finding' = [finding EXCEPT ![d].note = FALSE]
  /\ stage' = [stage EXCEPT ![d] = "noted"]
  /\ UNCHANGED <<report, outbox, call, budget>>

MarkClassified(d) ==
  /\ stage[d] = "noted"
  /\ stage' = [stage EXCEPT ![d] = "done"]
  /\ UNCHANGED <<finding, report, outbox, call, budget>>

-----------------------------------------------------------------------------
(* Analysts edit findings.                                                 *)

Edit(u, d) ==
  /\ At(u, "idle")
  /\ finding[d].impact # "none"
  /\ Spend("edit")

UpdateImpact(u, d, impact) ==
  /\ Edit(u, d)
  /\ finding' = [finding EXCEPT ![d].impact = impact,
                                ![d].excluded = @ /\ impact # "green"]
  /\ UNCHANGED <<stage, report, outbox, call>>

Include(u, d) ==
  /\ Edit(u, d)
  /\ finding' = [finding EXCEPT ![d].excluded = FALSE]
  /\ UNCHANGED <<stage, report, outbox, call>>

Exclude(u, d) ==
  /\ Edit(u, d)
  /\ finding[d].impact # "green"
  /\ call' = [call EXCEPT ![u] = [Idle EXCEPT !.at = "exclude", !.doc = d]]
  /\ UNCHANGED <<stage, finding, report, outbox>>

ExcludeWrites(u) ==
  /\ At(u, "exclude")
  /\ finding' = [finding EXCEPT ![call[u].doc].excluded = TRUE]
  /\ End(u)
  /\ UNCHANGED <<stage, report, outbox, budget>>

-----------------------------------------------------------------------------
(* Generating: create and regenerate.                                      *)

\* The id is the one the row will get.
Create(u, r) ==
  /\ At(u, "idle")
  /\ report[r].status = "none"
  /\ \A v \in Users : call[v].report # r
  /\ call' = [call EXCEPT ![u] = [Idle EXCEPT !.at = "board", !.report = r]]
  /\ UNCHANGED <<stage, finding, report, outbox, budget>>

Regenerate(u, r) ==
  /\ At(u, "idle")
  /\ report[r].status = "draft"
  /\ call' = [call EXCEPT ![u] = [Idle EXCEPT !.at = "board", !.report = r]]
  /\ UNCHANGED <<stage, finding, report, outbox, budget>>

AssertDayNotClassifying(u) ==
  /\ At(u, "board")
  /\ IF Classifying THEN End(u) ELSE Goto(u, "list")
  /\ UNCHANGED <<stage, finding, report, outbox, budget>>

ListCandidates(u) ==
  /\ At(u, "list")
  /\ IF Candidates = {} THEN End(u)
     ELSE call' = [call EXCEPT ![u].at = "write", ![u].items = Candidates]
  /\ UNCHANGED <<stage, finding, report, outbox, budget>>

InsertReport(u) ==
  LET r == call[u].report IN
  /\ At(u, "write")
  /\ report[r].status = "none"
  /\ report' = [report EXCEPT ![r] = [@ EXCEPT !.status = "draft", !.items = call[u].items]]
  /\ Goto(u, "storeNew")
  /\ UNCHANGED <<stage, finding, outbox, budget>>

\* replaceItems: whatever has become of the report since it was read.
ReplaceItems(u) ==
  LET r == call[u].report IN
  /\ At(u, "write")
  /\ report[r].status # "none"
  /\ report' = [report EXCEPT ![r].items = call[u].items]
  /\ Goto(u, "store")
  /\ UNCHANGED <<stage, finding, outbox, budget>>

\* persistPdf.  A create goes on to send when the client wants it.
PersistPdf(u) ==
  /\ \E point \in {"storeNew", "store"} : At(u, point)
  /\ report' = [report EXCEPT ![call[u].report].file = call[u].items]
  /\ IF At(u, "storeNew") /\ AutoSend THEN Goto(u, "send") ELSE End(u)
  /\ UNCHANGED <<stage, finding, outbox, budget>>

-----------------------------------------------------------------------------
(* Sending and discarding.                                                 *)

\* send reads the row with its items, which it will render and mail, and refuses what is
\* not a draft.  Without contacts it goes to keepDraft.
SendReads(u, r) ==
  /\ \/ At(u, "idle") /\ report[r].status = "draft"
     \/ At(u, "send") /\ call[u].report = r
  /\ IF report[r].status = "draft"
     THEN \E point \in {"mail", "keep"} :
            call' = [call EXCEPT ![u] =
              [at |-> point, report |-> r, items |-> report[r].items,
               noted |-> {d \in report[r].items : finding[d].note}, doc |-> None]]
     ELSE End(u)
  /\ UNCHANGED <<stage, finding, report, outbox, budget>>

LetterOf(u) == [report |-> call[u].report, items |-> call[u].items, noted |-> call[u].noted]

MailAccepted(u) ==
  /\ At(u, "mail")
  /\ outbox' = outbox \cup {LetterOf(u)}
  /\ Goto(u, "storeSent")
  /\ UNCHANGED <<stage, finding, report, budget>>

\* Mutant of MailRefused: `if (!email.sent)` is missing.
MutRefusedGoesOn(u) ==
  /\ At(u, "mail")
  /\ Goto(u, "storeSent")
  /\ UNCHANGED <<stage, finding, report, outbox, budget>>

MailRefused(u) ==
  /\ At(u, "mail")
  /\ Goto(u, "keep")
  /\ UNCHANGED <<stage, finding, report, outbox, budget>>

\* Resend takes the mail, and its answer does not arrive in 20 seconds.
MailAnswerLost(u) ==
  /\ Spend("fail")
  /\ At(u, "mail")
  /\ outbox' = outbox \cup {LetterOf(u)}
  /\ Goto(u, "keep")
  /\ UNCHANGED <<stage, finding, report>>

\* Mutant of StoreSentPdf: the PDF of the draft is kept.
MutNotStoredAgain(u) ==
  /\ At(u, "storeSent")
  /\ Goto(u, "mark")
  /\ UNCHANGED <<stage, finding, report, outbox, budget>>

StoreSentPdf(u) ==
  /\ At(u, "storeSent")
  /\ report' = [report EXCEPT ![call[u].report].file = call[u].items]
  /\ Goto(u, "mark")
  /\ UNCHANGED <<stage, finding, outbox, budget>>

\* The upload fails: send logs it and goes on.
StoreSentFails(u) ==
  /\ Spend("fail")
  /\ At(u, "storeSent")
  /\ Goto(u, "mark")
  /\ UNCHANGED <<stage, finding, report, outbox>>

\* By id, whatever has become of the report since it was read.
MarkSent(u) ==
  /\ At(u, "mark")
  /\ report' = [report EXCEPT ![call[u].report] = [@ EXCEPT !.status = "sent", !.email = "sent"]]
  /\ End(u)
  /\ UNCHANGED <<stage, finding, outbox, budget>>

\* Mutant of KeepDraft: the outcome is written to the wrong column.
MutKeepDraftAsStatus(u) ==
  /\ At(u, "keep")
  /\ report' = [report EXCEPT ![call[u].report].status = "failed"]
  /\ End(u)
  /\ UNCHANGED <<stage, finding, outbox, budget>>

\* keepDraft notes the outcome of the mail, and leaves the status alone.
KeepDraft(u) ==
  /\ At(u, "keep")
  /\ report' = [report EXCEPT ![call[u].report].email = "failed"]
  /\ End(u)
  /\ UNCHANGED <<stage, finding, outbox, budget>>

Discard(u, r) ==
  /\ At(u, "idle")
  /\ report[r].status = "draft"
  /\ call' = [call EXCEPT ![u] = [Idle EXCEPT !.at = "discard", !.report = r]]
  /\ UNCHANGED <<stage, finding, report, outbox, budget>>

\* One transaction: the report, and the exclusions of the client's findings that no
\* other report has sent.
DiscardWrites(u) ==
  LET r == call[u].report
      sentElsewhere(d) == \E o \in ReportIds \ {r} :
                            report[o].status = "sent" /\ d \in report[o].items
  IN
  /\ At(u, "discard")
  /\ report' = [report EXCEPT ![r].status = "discarded"]
  /\ finding' = [d \in Docs |-> IF sentElsewhere(d) THEN finding[d]
                                ELSE [finding[d] EXCEPT !.excluded = FALSE]]
  /\ End(u)
  /\ UNCHANGED <<stage, outbox, budget>>

\* A request ends where it is: a rejected call of Postgres, a PDF that does not render
\* or is not stored, or a crash of the `api` process.
CutOff(u) ==
  /\ Spend("fail")
  /\ ~At(u, "idle")
  /\ End(u)
  /\ UNCHANGED <<stage, finding, report, outbox>>

-----------------------------------------------------------------------------

Classifier(d) ==
  \/ DocReady(d) \/ ClassifyAgain(d) \/ UpsertFinding(d)
  \/ ReopenReads(d) \/ ReopenWrites(d) \/ MarkClassified(d)

EditFindings(u) ==
  \/ \E d \in Docs : Include(u, d) \/ Exclude(u, d)
  \/ \E d \in Docs, impact \in {"green", "alert"} : UpdateImpact(u, d, impact)
  \/ ExcludeWrites(u)

HandleReports(u) ==
  \/ \E r \in ReportIds : Create(u, r) \/ Regenerate(u, r) \/ SendReads(u, r) \/ Discard(u, r)
  \/ AssertDayNotClassifying(u) \/ ListCandidates(u)
  \/ InsertReport(u) \/ ReplaceItems(u) \/ PersistPdf(u)
  \/ MailAccepted(u) \/ MailRefused(u) \/ MailAnswerLost(u)
  \/ StoreSentPdf(u) \/ StoreSentFails(u) \/ MarkSent(u) \/ KeepDraft(u)
  \/ DiscardWrites(u)

Next ==
  \/ \E d \in Docs : Classifier(d)
  \/ \E u \in Editors : EditFindings(u)
  \/ \E u \in Desk : HandleReports(u)
  \/ \E u \in Users : CutOff(u)

Spec == Init /\ [][Next]_vars

-----------------------------------------------------------------------------
(* Properties.                                                             *)

\* The findings of a SENT report, which will not be candidates again, are those of a mail
\* that Resend has accepted (schema.prisma: report_findings is the "Snapshot de hallazgos
\* incluidos"; HANDOFF.md: "sent solo si Resend acepta").
BurnedWasMailed ==
  \A r \in ReportIds : report[r].status = "sent" =>
    \E m \in outbox : m.report = r /\ m.items = report[r].items

\* The file of a SENT report is what was mailed, if no more than one thing has failed.
FileIsWhatWasMailed ==
  \A r \in ReportIds : report[r].status = "sent" /\ budget["fail"] + 1 >= Budget["fail"] =>
    \E m \in outbox : m.report = r /\ m.items = report[r].file

\* A finding says "esta norma ya se envió" only of a norm that another mail has carried.
NoteMeansMailed ==
  \A d \in Docs : finding[d].note =>
    \E m \in outbox, e \in Docs \ {d} : e \in m.items /\ NormOf[e] = NormOf[d]

=============================================================================
