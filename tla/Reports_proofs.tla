--------------------------- MODULE Reports_proofs ---------------------------
(***************************************************************************)
(* Theorems about Reports, for every set of documents, reports and users   *)
(* and every budget: its types, and what holds when one person at a time   *)
(* handles the reports, whatever the editors and the classifier do.        *)
(***************************************************************************)
EXTENDS Reports, TLAPS

-----------------------------------------------------------------------------
(* Types.                                                                  *)

LEMMA SpendType ==
  ASSUME TypeOK, NEW k \in Kinds, Spend(k)
  PROVE  budget' \in [Kinds -> Nat]
  BY DEF Spend, TypeOK

\* The steps of the classifier keep the types.
LEMMA ClassifierTypes ==
  ASSUME TypeOK, NEW d \in Docs, Classifier(d)
  PROVE  TypeOK'
  <1> USE DEF TypeOK
  <1>1. CASE DocReady(d) \/ MarkClassified(d)
    BY <1>1 DEF DocReady, MarkClassified, Stages
  <1>2. CASE ClassifyAgain(d)
    <2>1. budget' \in [Kinds -> Nat]
      BY <1>2, SpendType DEF ClassifyAgain, Kinds
    <2> QED
      BY <1>2, <2>1 DEF ClassifyAgain, Stages
  <1>3. CASE UpsertFinding(d)
    BY <1>3 DEF UpsertFinding, Finding, Stages
  <1>4. CASE ReopenReads(d)
    BY <1>4 DEF ReopenReads, Stages
  <1>5. CASE ReopenWrites(d)
    <2>1. \A f \in Finding : /\ [f EXCEPT !.note = TRUE, !.excluded = FALSE] \in Finding
                             /\ [f EXCEPT !.note = FALSE] \in Finding
      BY DEF Finding
    <2>2. \/ finding' = [finding EXCEPT ![d] =
                          [finding[d] EXCEPT !.note = TRUE, !.excluded = FALSE]]
          \/ finding' = [finding EXCEPT ![d] = [finding[d] EXCEPT !.note = FALSE]]
      <3>1. CASE stage[d] = "new"
        BY <1>5, <3>1 DEF ReopenWrites
      <3>2. CASE stage[d] # "new"
        BY <1>5, <3>2 DEF ReopenWrites
      <3> QED
        BY <3>1, <3>2
    <2>3. finding[d] \in Finding
      OBVIOUS
    <2>4. PICK f \in Finding : finding' = [finding EXCEPT ![d] = f]
      BY <2>1, <2>2, <2>3
    <2>5. finding' \in [Docs -> Finding]
      BY <2>4
    <2> QED
      BY <1>5, <2>5 DEF ReopenWrites, Stages
  <1> QED
    BY <1>1, <1>2, <1>3, <1>4, <1>5 DEF Classifier

\* The edits of findings keep the types.
LEMMA EditTypes ==
  ASSUME TypeOK, NEW u \in Users, EditFindings(u)
  PROVE  TypeOK'
  <1> USE DEF TypeOK
  <1>1. ASSUME NEW d \in Docs, Include(u, d)
        PROVE  TypeOK'
    <2>1. budget' \in [Kinds -> Nat]
      BY <1>1, SpendType DEF Include, Edit, Kinds
    <2> QED
      BY <1>1, <2>1 DEF Include, Finding
  <1>2. ASSUME NEW d \in Docs, Exclude(u, d)
        PROVE  TypeOK'
    <2>1. budget' \in [Kinds -> Nat]
      BY <1>2, SpendType DEF Exclude, Edit, Kinds
    <2> QED
      BY <1>2, <2>1 DEF Exclude, Call, Idle, Points
  <1>3. ASSUME NEW d \in Docs, NEW impact \in {"green", "alert"}, UpdateImpact(u, d, impact)
        PROVE  TypeOK'
    <2>1. budget' \in [Kinds -> Nat]
      BY <1>3, SpendType DEF UpdateImpact, Edit, Kinds
    <2> QED
      BY <1>3, <2>1 DEF UpdateImpact, Finding
  <1>4. CASE ExcludeWrites(u)
    <2>1. call' \in [Users -> Call]
      BY <1>4 DEF ExcludeWrites, End, Call, Idle, Points
    <2>2. \A f \in Finding : [f EXCEPT !.excluded = TRUE] \in Finding
      BY DEF Finding
    <2>3. finding' \in [Docs -> Finding]
      BY <1>4, <2>2 DEF ExcludeWrites
    <2> QED
      BY <1>4, <2>1, <2>3 DEF ExcludeWrites
  <1> QED
    BY <1>1, <1>2, <1>3, <1>4 DEF EditFindings

\* The requests about reports keep the types.
LEMMA DeskTypes ==
  ASSUME TypeOK, NEW u \in Users, HandleReports(u)
  PROVE  TypeOK'
  <1> USE DEF TypeOK
  <1>1. ASSUME NEW r \in ReportIds, Create(u, r) \/ Regenerate(u, r) \/ Discard(u, r)
        PROVE  TypeOK'
    <2>1. \A point \in {"board", "discard"} :
            [Idle EXCEPT !.at = point, !.report = r] \in Call
      BY DEF Call, Idle, Points
    <2>2. call' \in [Users -> Call]
      BY <1>1, <2>1 DEF Create, Regenerate, Discard
    <2> QED
      BY <1>1, <2>2 DEF Create, Regenerate, Discard
  <1>2. ASSUME NEW r \in ReportIds, SendReads(u, r)
        PROVE  TypeOK'
    <2>1. {d \in report[r].items : finding[d].note} \subseteq Docs
      BY DEF Report
    <2>2. call' \in [Users -> Call]
      BY <1>2, <2>1 DEF SendReads, Call, Idle, Points, Report, End
    <2> QED
      BY <1>2, <2>2 DEF SendReads
  <1>3. CASE AssertDayNotClassifying(u) \/ ListCandidates(u)
    BY <1>3 DEF AssertDayNotClassifying, ListCandidates, Candidates, Goto, At, End, Call,
       Idle, Points
  <1>4. call[u] \in Call
    BY DEF Users
  <1>5. ~At(u, "idle") /\ ~At(u, "exclude") => call[u].report \in ReportIds
    BY <1>4 DEF At, Call
  <1>6. ASSUME NEW point \in Points \ {"idle", "exclude"}, Goto(u, point),
               ~At(u, "idle"), ~At(u, "exclude")
        PROVE  call' \in [Users -> Call]
    <2>1. [call[u] EXCEPT !.at = point] \in Call
      BY <1>4, <1>6 DEF Call, At
    <2> QED
      BY <1>6, <2>1 DEF Goto
  <1>7. End(u) => call' \in [Users -> Call]
    BY DEF End, Call, Idle, Points
  <1>8. ~At(u, "idle") /\ ~At(u, "exclude") => report[call[u].report] \in Report
    BY <1>5
  <1>9. call[u].items \in SUBSET Docs
    BY <1>4 DEF Call
  <1>10. CASE InsertReport(u) \/ ReplaceItems(u)
    <2>1. report' \in [ReportIds -> Report]
      <3>1. [report[call[u].report] EXCEPT !.items = call[u].items] \in Report
        BY <1>10, <1>8, <1>9 DEF InsertReport, ReplaceItems, Report, At
      <3>2. [report[call[u].report] EXCEPT !.status = "draft", !.items = call[u].items]
              \in Report
        BY <1>10, <1>8, <1>9 DEF InsertReport, ReplaceItems, Report, At
      <3> QED
        BY <1>10, <3>1, <3>2 DEF InsertReport, ReplaceItems
    <2>2. call' \in [Users -> Call]
      BY <1>6, <1>10 DEF InsertReport, ReplaceItems, Points, At
    <2> QED
      BY <1>10, <2>1, <2>2 DEF InsertReport, ReplaceItems
  <1>11. CASE PersistPdf(u) \/ StoreSentPdf(u)
    <2>1. report' \in [ReportIds -> Report]
      <3>1. [report[call[u].report] EXCEPT !.file = call[u].items] \in Report
        BY <1>11, <1>8, <1>9 DEF PersistPdf, StoreSentPdf, Report, At
      <3> QED
        BY <1>11, <3>1 DEF PersistPdf, StoreSentPdf
    <2>2. call' \in [Users -> Call]
      BY <1>6, <1>7, <1>11 DEF PersistPdf, StoreSentPdf, Points, At
    <2> QED
      BY <1>11, <2>1, <2>2 DEF PersistPdf, StoreSentPdf
  <1>12. CASE MailAccepted(u) \/ MailRefused(u) \/ MailAnswerLost(u) \/ StoreSentFails(u)
    <2>1. outbox' \subseteq Mail
      <3>1. At(u, "mail") => LetterOf(u) \in Mail
        BY <1>4 DEF At, LetterOf, Mail, Call
      <3> QED
        BY <1>12, <3>1 DEF MailAccepted, MailRefused, MailAnswerLost, StoreSentFails
    <2>2. call' \in [Users -> Call]
      BY <1>6, <1>12 DEF MailAccepted, MailRefused, MailAnswerLost, StoreSentFails, Points, At
    <2>3. budget' \in [Kinds -> Nat]
      BY <1>12, SpendType DEF MailAccepted, MailRefused, MailAnswerLost, StoreSentFails, Kinds
    <2> QED
      BY <1>12, <2>1, <2>2, <2>3 DEF MailAccepted, MailRefused, MailAnswerLost, StoreSentFails
  <1>13. CASE MarkSent(u) \/ KeepDraft(u)
    <2>1. report' \in [ReportIds -> Report]
      <3>1. /\ [report[call[u].report] EXCEPT !.status = "sent", !.email = "sent"] \in Report
            /\ [report[call[u].report] EXCEPT !.email = "failed"] \in Report
        BY <1>13, <1>8 DEF MarkSent, KeepDraft, Report, At
      <3> QED
        BY <1>13, <3>1 DEF MarkSent, KeepDraft
    <2> QED
      BY <1>7, <1>13, <2>1 DEF MarkSent, KeepDraft
  <1>14. CASE DiscardWrites(u)
    <2>1. report' \in [ReportIds -> Report]
      <3>1. [report[call[u].report] EXCEPT !.status = "discarded"] \in Report
        BY <1>14, <1>8 DEF DiscardWrites, Report, At
      <3> QED
        BY <1>14, <3>1 DEF DiscardWrites
    <2>2. finding' \in [Docs -> Finding]
      BY <1>14 DEF DiscardWrites, Finding
    <2> QED
      BY <1>7, <1>14, <2>1, <2>2 DEF DiscardWrites
  <1> QED
    BY <1>1, <1>2, <1>3, <1>10, <1>11, <1>12, <1>13, <1>14 DEF HandleReports

\* TypeOK of Reports: rows, mails and locals keep their types under every request.
THEOREM ReportsTypeSafety == Spec => []TypeOK
  <1>1. Init => TypeOK
    BY ReportsAssumption DEF Init, TypeOK, Stages, Finding, Report, Call, Idle, Points
  <1>2. ASSUME TypeOK, [Next]_vars
        PROVE  TypeOK'
    <2>1. ASSUME NEW d \in Docs, Classifier(d)
          PROVE  TypeOK'
      BY <1>2, <2>1, ClassifierTypes
    <2>2. ASSUME NEW u \in Editors, EditFindings(u)
          PROVE  TypeOK'
      BY <1>2, <2>2, EditTypes DEF Users
    <2>3. ASSUME NEW u \in Desk, HandleReports(u)
          PROVE  TypeOK'
      BY <1>2, <2>3, DeskTypes DEF Users
    <2>4. ASSUME NEW u \in Users, CutOff(u)
          PROVE  TypeOK'
      <3>1. budget' \in [Kinds -> Nat]
        BY <1>2, <2>4, SpendType DEF CutOff, Kinds
      <3> QED
        BY <1>2, <2>4, <3>1 DEF CutOff, End, TypeOK, Call, Idle, Points
    <2>5. CASE UNCHANGED vars
      BY <1>2, <2>5 DEF vars, TypeOK
    <2> QED
      BY <1>2, <2>1, <2>2, <2>3, <2>4, <2>5 DEF Next
  <1> QED
    BY <1>1, <1>2, PTL DEF Spec

-----------------------------------------------------------------------------
(* One person at a time handles the reports.                               *)

OneDesk == \A u, v \in Desk : u = v

\* Nobody else takes the report out of draft while it is being handled.
HandlesDraft(u) ==
  /\ call[u].at \in {"board", "list", "write"} =>
       report[call[u].report].status \in {"none", "draft"}
  /\ call[u].at \in {"storeNew", "store", "send", "mail", "storeSent", "mark", "keep",
                   "discard"} =>
       report[call[u].report].status = "draft"

\* What is being mailed is what the row holds, and from the mail on Resend has it.
MailsItems(u) ==
  /\ call[u].at \in {"mail", "storeSent", "mark"} =>
       call[u].items = report[call[u].report].items
  /\ call[u].at \in {"storeSent", "mark"} => LetterOf(u) \in outbox

DeskInv(u) == HandlesDraft(u) /\ MailsItems(u)

\* The inductive invariant.
OneDeskInv == BurnedWasMailed /\ \A u \in Desk : DeskInv(u)

\* A step that touches neither reports nor mails, and at most ends a request.
LEMMA DeskFrame ==
  ASSUME OneDeskInv, UNCHANGED <<report, outbox>>,
         \A u \in Desk : call'[u] = call[u] \/ call'[u].at \in {"idle", "exclude"}
  PROVE  OneDeskInv'
  <1>1. BurnedWasMailed'
    BY DEF OneDeskInv, BurnedWasMailed
  <1>2. ASSUME NEW u \in Desk
        PROVE  DeskInv(u)'
    <2>1. CASE call'[u] = call[u]
      BY <1>2, <2>1 DEF OneDeskInv, DeskInv, HandlesDraft, MailsItems, LetterOf
    <2>2. CASE call'[u].at \in {"idle", "exclude"}
      BY <2>2 DEF DeskInv, HandlesDraft, MailsItems
    <2> QED
      BY <1>2, <2>1, <2>2
  <1> QED
    BY <1>1, <1>2 DEF OneDeskInv

\* The classifier, the editors and a request that is cut off leave the invariant alone.
LEMMA OthersKeepDeskInv ==
  ASSUME TypeOK, OneDeskInv,
         \/ \E d \in Docs : Classifier(d)
         \/ \E u \in Editors : EditFindings(u)
         \/ \E u \in Users : CutOff(u)
         \/ UNCHANGED vars
  PROVE  OneDeskInv' /\ UNCHANGED report
  <1>1. UNCHANGED <<report, outbox>>
    BY DEF Classifier, DocReady, ClassifyAgain, UpsertFinding, ReopenReads, ReopenWrites,
       MarkClassified, EditFindings, Include, Exclude, UpdateImpact, ExcludeWrites, CutOff,
       vars
  <1>2. ASSUME NEW u \in Desk
        PROVE  call'[u] = call[u] \/ call'[u].at \in {"idle", "exclude"}
    <2>1. call \in [Users -> Call] /\ u \in Users
      BY <1>2 DEF TypeOK, Users
    <2>2. CASE \E d \in Docs : Classifier(d)
      BY <2>2 DEF Classifier, DocReady, ClassifyAgain, UpsertFinding, ReopenReads,
         ReopenWrites, MarkClassified
    <2>3. ASSUME NEW e \in Editors, EditFindings(e)
          PROVE  call'[u] = call[u] \/ call'[u].at \in {"idle", "exclude"}
      <3>1. ASSUME NEW d \in Docs, Exclude(e, d)
            PROVE  call'[u] = call[u] \/ call'[u].at = "exclude"
        <4>1. [Idle EXCEPT !.at = "exclude", !.doc = d].at = "exclude"
          BY DEF Idle
        <4> QED
          BY <2>1, <3>1, <4>1 DEF Exclude
      <3>2. CASE ExcludeWrites(e)
        BY <2>1, <3>2 DEF ExcludeWrites, End, Idle
      <3> QED
        BY <2>3, <3>1, <3>2 DEF EditFindings, Include, UpdateImpact
    <2>4. ASSUME NEW v \in Users, CutOff(v)
          PROVE  call'[u] = call[u] \/ call'[u].at \in {"idle", "exclude"}
      BY <2>1, <2>4 DEF CutOff, End, Idle
    <2> QED
      BY <2>2, <2>3, <2>4 DEF vars
  <1> QED
    BY <1>1, <1>2, DeskFrame

\* Any row but a SENT one may change, to anything but SENT, and mails may be added.
LEMMA BurnedFrame ==
  ASSUME TypeOK, BurnedWasMailed, outbox \subseteq outbox', NEW r \in ReportIds,
         NEW row, row.status # "sent", report' = [report EXCEPT ![r] = row]
  PROVE  BurnedWasMailed'
  <1> SUFFICES ASSUME NEW o \in ReportIds, report'[o].status = "sent"
               PROVE  \E m \in outbox' : m.report = o /\ m.items = report'[o].items
    BY DEF BurnedWasMailed
  <1>1. report \in [ReportIds -> Report]
    BY DEF TypeOK
  <1>2. o # r /\ report'[o] = report[o]
    BY <1>1
  <1>3. PICK m \in outbox : m.report = o /\ m.items = report[o].items
    BY <1>2 DEF BurnedWasMailed
  <1> QED
    BY <1>2, <1>3

\* The steps of a request that only read, or only fail.
LEMMA ReadsKeepDeskInv ==
  ASSUME OneDesk, TypeOK, OneDeskInv, NEW u \in Desk,
         \/ \E r \in ReportIds : Create(u, r) \/ Regenerate(u, r) \/ SendReads(u, r)
                                 \/ Discard(u, r)
         \/ AssertDayNotClassifying(u) \/ ListCandidates(u)
         \/ MailRefused(u) \/ StoreSentFails(u)
  PROVE  OneDeskInv' /\ UNCHANGED report
  <1> USE DEF HandlesDraft, MailsItems
  <1>1. UNCHANGED <<report, outbox>>
    BY DEF Create, Regenerate, SendReads, Discard, AssertDayNotClassifying, ListCandidates,
       MailRefused, StoreSentFails
  <1>2. BurnedWasMailed'
    BY <1>1 DEF OneDeskInv, BurnedWasMailed
  <1>3. call \in [Users -> Call] /\ u \in Users /\ DeskInv(u)
    BY DEF TypeOK, Users, OneDeskInv
  <1>4. DeskInv(u)'
    <2>1. ASSUME NEW r \in ReportIds, Create(u, r) \/ Regenerate(u, r) \/ Discard(u, r)
          PROVE  DeskInv(u)'
      <3>1. PICK point \in {"board", "discard"} :
              /\ call'[u] = [Idle EXCEPT !.at = point, !.report = r]
              /\ report[r].status \in {"none", "draft"}
              /\ point = "discard" => report[r].status = "draft"
        BY <1>3, <2>1 DEF Create, Regenerate, Discard
      <3>2. call'[u].at = point /\ call'[u].report = r
        BY <3>1 DEF Idle
      <3> QED
        BY <1>1, <3>1, <3>2 DEF DeskInv
    <2>2. ASSUME NEW r \in ReportIds, SendReads(u, r)
          PROVE  DeskInv(u)'
      BY <1>1, <1>3, <2>2 DEF SendReads, End, Idle, DeskInv
    <2>3. CASE AssertDayNotClassifying(u)
      BY <1>1, <1>3, <2>3 DEF AssertDayNotClassifying, End, Goto, At, Idle, DeskInv, Call
    <2>4. CASE ListCandidates(u)
      BY <1>1, <1>3, <2>4 DEF ListCandidates, End, At, Idle, DeskInv, Call
    <2>5. CASE MailRefused(u) \/ StoreSentFails(u)
      BY <1>1, <1>3, <2>5 DEF MailRefused, StoreSentFails, Goto, At, LetterOf, DeskInv, Call
    <2> QED
      BY <2>1, <2>2, <2>3, <2>4, <2>5
  <1> QED
    BY <1>1, <1>2, <1>4 DEF OneDesk, OneDeskInv

\* The steps of a request that write the report, or mail it.
LEMMA WritesKeepDeskInv ==
  ASSUME OneDesk, TypeOK, OneDeskInv, NEW u \in Desk,
         \/ InsertReport(u) \/ ReplaceItems(u) \/ PersistPdf(u)
         \/ MailAccepted(u) \/ MailAnswerLost(u) \/ StoreSentPdf(u)
         \/ MarkSent(u) \/ KeepDraft(u) \/ DiscardWrites(u)
  PROVE  OneDeskInv'
  <1> DEFINE r == call[u].report
  <1> USE DEF HandlesDraft, MailsItems
  <1>1. /\ call \in [Users -> Call] /\ u \in Users /\ DeskInv(u) /\ BurnedWasMailed
        /\ report \in [ReportIds -> Report]
    BY DEF TypeOK, Users, OneDeskInv
  <1>2. r \in ReportIds
    BY <1>1 DEF Call, InsertReport, ReplaceItems, PersistPdf, MailAccepted, MailAnswerLost,
       StoreSentPdf, MarkSent, KeepDraft, DiscardWrites, At
  <1>3. DeskInv(u)' /\ BurnedWasMailed' => OneDeskInv'
    BY DEF OneDesk, OneDeskInv
  <1>4. CASE InsertReport(u) \/ ReplaceItems(u)
    <2>1. PICK row : /\ report' = [report EXCEPT ![r] = row]
                     /\ row.status = "draft" /\ row.items = call[u].items
      <3>1. /\ report[r].status \in {"none", "draft"} /\ report[r] \in Report
            /\ ReplaceItems(u) => report[r].status # "none"
        BY <1>1, <1>2, <1>4 DEF DeskInv, InsertReport, ReplaceItems, At
      <3>2. /\ [report[r] EXCEPT !.status = "draft", !.items = call[u].items].status = "draft"
            /\ [report[r] EXCEPT !.status = "draft", !.items = call[u].items].items
                 = call[u].items
            /\ [report[r] EXCEPT !.items = call[u].items].status = report[r].status
            /\ [report[r] EXCEPT !.items = call[u].items].items = call[u].items
        BY <3>1 DEF Report
      <3>3. \/ report' = [report EXCEPT ![r] = [report[r] EXCEPT !.status = "draft",
                                                               !.items = call[u].items]]
            \/ /\ report' = [report EXCEPT ![r] = [report[r] EXCEPT !.items = call[u].items]]
               /\ report[r].status # "none"
        BY <1>4, <3>1 DEF InsertReport, ReplaceItems
      <3> QED
        BY <3>1, <3>2, <3>3
    <2>2. BurnedWasMailed'
      BY <1>1, <1>2, <1>4, <2>1, BurnedFrame DEF InsertReport, ReplaceItems
    <2>3. DeskInv(u)'
      BY <1>1, <1>2, <1>4, <2>1 DEF InsertReport, ReplaceItems, Goto, DeskInv, Call
    <2> QED
      BY <1>3, <2>2, <2>3
  <1>5. CASE PersistPdf(u) \/ StoreSentPdf(u) \/ KeepDraft(u)
    <2>1. PICK row : /\ report' = [report EXCEPT ![r] = row]
                     /\ row.status = "draft" /\ row.items = report[r].items
      <3>1. report[r].status = "draft"
        BY <1>1, <1>5 DEF DeskInv, PersistPdf, StoreSentPdf, KeepDraft, At
      <3> QED
        BY <1>1, <1>2, <1>5, <3>1 DEF PersistPdf, StoreSentPdf, KeepDraft, Report
    <2>2. BurnedWasMailed'
      BY <1>1, <1>2, <1>5, <2>1, BurnedFrame DEF PersistPdf, StoreSentPdf, KeepDraft
    <2>3. DeskInv(u)'
      BY <1>1, <1>2, <1>5, <2>1 DEF PersistPdf, StoreSentPdf, KeepDraft, Goto, End, Idle, At,
         DeskInv, Call, LetterOf
    <2> QED
      BY <1>3, <2>2, <2>3
  <1>6. CASE MailAccepted(u) \/ MailAnswerLost(u)
    <2>1. report' = report /\ outbox' = outbox \cup {LetterOf(u)}
      BY <1>6 DEF MailAccepted, MailAnswerLost
    <2>2. BurnedWasMailed'
      BY <1>1, <2>1 DEF BurnedWasMailed
    <2>3. DeskInv(u)'
      BY <1>1, <1>6, <2>1 DEF MailAccepted, MailAnswerLost, Goto, At, DeskInv, Call, LetterOf
    <2> QED
      BY <1>3, <2>2, <2>3
  <1>7. CASE MarkSent(u)
    <2>1. /\ report' = [report EXCEPT ![r] = [@ EXCEPT !.status = "sent", !.email = "sent"]]
          /\ outbox' = outbox
      BY <1>7 DEF MarkSent
    <2>2. LetterOf(u) \in outbox /\ report[r].status = "draft" /\ call[u].items = report[r].items
      BY <1>1, <1>7 DEF MarkSent, At, DeskInv
    <2>3. report'[r].items = report[r].items
      BY <1>1, <1>2, <2>1 DEF Report
    <2>4. BurnedWasMailed'
      <3> SUFFICES ASSUME NEW o \in ReportIds, report'[o].status = "sent"
                   PROVE  \E m \in outbox' : m.report = o /\ m.items = report'[o].items
        BY DEF BurnedWasMailed
      <3>1. CASE o = r
        BY <2>1, <2>2, <2>3, <3>1 DEF LetterOf
      <3>2. CASE o # r
        <4>1. report'[o] = report[o]
          BY <1>1, <2>1, <3>2
        <4>2. PICK m \in outbox : m.report = o /\ m.items = report[o].items
          BY <1>1, <4>1 DEF BurnedWasMailed
        <4> QED
          BY <2>1, <4>1, <4>2
      <3> QED
        BY <3>1, <3>2
    <2>5. DeskInv(u)'
      BY <1>1, <1>7 DEF MarkSent, End, Idle, DeskInv
    <2> QED
      BY <1>3, <2>4, <2>5
  <1>8. CASE DiscardWrites(u)
    <2>1. /\ report' = [report EXCEPT ![r] = [@ EXCEPT !.status = "discarded"]]
          /\ outbox' = outbox
      BY <1>8 DEF DiscardWrites
    <2>2. report[r].status = "draft"
      BY <1>1, <1>8 DEF DiscardWrites, At, DeskInv
    <2>3. /\ [report[r] EXCEPT !.status = "discarded"].status = "discarded"
          /\ report'[r].items = report[r].items
      BY <1>1, <1>2, <2>1 DEF Report
    <2>4. BurnedWasMailed'
      BY <1>1, <1>2, <2>1, <2>3, BurnedFrame
    <2>5. DeskInv(u)'
      BY <1>1, <1>8 DEF DiscardWrites, End, Idle, DeskInv
    <2> QED
      BY <1>3, <2>4, <2>5
  <1> QED
    BY <1>4, <1>5, <1>6, <1>7, <1>8

\* Every step, whoever takes it.
LEMMA OneDeskStep ==
  ASSUME OneDesk, TypeOK, OneDeskInv, [Next]_vars
  PROVE  OneDeskInv'
  <1>1. CASE \/ \E d \in Docs : Classifier(d)
             \/ \E u \in Editors : EditFindings(u)
             \/ \E u \in Users : CutOff(u)
             \/ UNCHANGED vars
    BY <1>1, OthersKeepDeskInv
  <1>2. ASSUME NEW u \in Desk,
               \/ \E r \in ReportIds : Create(u, r) \/ Regenerate(u, r) \/ SendReads(u, r)
                                       \/ Discard(u, r)
               \/ AssertDayNotClassifying(u) \/ ListCandidates(u)
               \/ MailRefused(u) \/ StoreSentFails(u)
        PROVE  OneDeskInv' /\ UNCHANGED report
    BY <1>2, ReadsKeepDeskInv
  <1>3. ASSUME NEW u \in Desk,
               \/ InsertReport(u) \/ ReplaceItems(u) \/ PersistPdf(u)
               \/ MailAccepted(u) \/ MailAnswerLost(u) \/ StoreSentPdf(u)
               \/ MarkSent(u) \/ KeepDraft(u) \/ DiscardWrites(u)
        PROVE  OneDeskInv'
    BY <1>3, WritesKeepDeskInv
  <1> QED
    BY <1>1, <1>2, <1>3 DEF Next, HandleReports

LEMMA OneDeskInvariant == ASSUME OneDesk PROVE Spec => [](TypeOK /\ OneDeskInv)
  <1>1. Init => OneDeskInv
    BY DEF Init, OneDeskInv, BurnedWasMailed, DeskInv, HandlesDraft, MailsItems, Idle, Users
  <1>2. TypeOK /\ OneDeskInv /\ [Next]_vars => OneDeskInv'
    BY OneDeskStep
  <1> QED
    BY <1>1, <1>2, ReportsTypeSafety, PTL DEF Spec

\* BurnedWasMailed: while one person at a time handles the reports, the findings that a
\* SENT report burns are exactly those of a mail that Resend has accepted, whatever the
\* classifier and the editors do meanwhile and wherever a request is cut off.
THEOREM MailedSafety == ASSUME OneDesk PROVE Spec => []BurnedWasMailed
  <1>1. OneDeskInv => BurnedWasMailed
    BY DEF OneDeskInv
  <1> QED
    BY <1>1, OneDeskInvariant, PTL

-----------------------------------------------------------------------------
(* The note of a norm already sent.                                        *)

\* A mail has carried another version of the norm of d.
OtherVersionMailed(d) ==
  \E m \in outbox, e \in Docs \ {d} : e \in m.items /\ NormOf[e] = NormOf[d]

\* The inductive invariant: also between reading and writing in applySentNormReopen.
NoteInv ==
  \A d \in Docs : finding[d].note \/ stage[d] = "sentBefore" => OtherVersionMailed(d)

\* Mails are only added.
LEMMA OutboxGrows ==
  ASSUME [Next]_vars
  PROVE  outbox \subseteq outbox'
  <1>1. ASSUME NEW d \in Docs, Classifier(d)
        PROVE  outbox' = outbox
    BY <1>1 DEF Classifier, DocReady, ClassifyAgain, UpsertFinding, ReopenReads, ReopenWrites,
       MarkClassified
  <1>2. ASSUME NEW u \in Editors, EditFindings(u)
        PROVE  outbox' = outbox
    BY <1>2 DEF EditFindings, Include, Exclude, UpdateImpact, ExcludeWrites
  <1>3. ASSUME NEW u \in Desk, HandleReports(u)
        PROVE  outbox \subseteq outbox'
    BY <1>3 DEF HandleReports, Create, Regenerate, SendReads, Discard, AssertDayNotClassifying,
       ListCandidates, InsertReport, ReplaceItems, PersistPdf, MailAccepted, MailRefused,
       MailAnswerLost, StoreSentPdf, StoreSentFails, MarkSent, KeepDraft, DiscardWrites
  <1> QED
    BY <1>1, <1>2, <1>3 DEF Next, CutOff, vars

\* Only applySentNormReopen sets a note, and only for a norm whose mail it has seen burned.
LEMMA NoteSource ==
  ASSUME TypeOK, [Next]_vars, NEW d \in Docs, finding'[d].note \/ stage'[d] = "sentBefore"
  PROVE  \/ finding[d].note \/ stage[d] = "sentBefore"
         \/ \E e \in Docs \ {d} : NormOf[e] = NormOf[d] /\ Burned(e)
  <1>1. /\ finding \in [Docs -> Finding] /\ stage \in [Docs -> Stages]
    BY DEF TypeOK
  <1>2. ASSUME NEW c \in Docs, Classifier(c)
        PROVE  \/ finding[d].note \/ stage[d] = "sentBefore"
               \/ \E e \in Docs \ {d} : NormOf[e] = NormOf[d] /\ Burned(e)
    <2>1. CASE DocReady(c) \/ ClassifyAgain(c) \/ MarkClassified(c)
      BY <1>1, <2>1 DEF DocReady, ClassifyAgain, MarkClassified
    <2>2. CASE UpsertFinding(c)
      BY <1>1, <2>2 DEF UpsertFinding, Finding
    <2>3. CASE ReopenReads(c)
      BY <1>1, <2>3 DEF ReopenReads
    <2>4. CASE ReopenWrites(c)
      BY <1>1, <2>4 DEF ReopenWrites, Finding
    <2> QED
      BY <1>2, <2>1, <2>2, <2>3, <2>4 DEF Classifier
  <1>3. ASSUME NEW u \in Editors, EditFindings(u)
        PROVE  finding[d].note \/ stage[d] = "sentBefore"
    <2>1. CASE ExcludeWrites(u)
      BY <1>1, <2>1 DEF ExcludeWrites, Finding
    <2>2. ASSUME NEW c \in Docs, Include(u, c) \/ Exclude(u, c)
          PROVE  finding[d].note \/ stage[d] = "sentBefore"
      BY <1>1, <2>2 DEF Include, Exclude, Finding
    <2>3. ASSUME NEW c \in Docs, NEW impact \in {"green", "alert"}, UpdateImpact(u, c, impact)
          PROVE  finding[d].note \/ stage[d] = "sentBefore"
      BY <1>1, <2>3 DEF UpdateImpact, Finding
    <2> QED
      BY <1>3, <2>1, <2>2, <2>3 DEF EditFindings
  <1>4. ASSUME NEW u \in Desk, HandleReports(u)
        PROVE  finding[d].note \/ stage[d] = "sentBefore"
    <2>1. CASE DiscardWrites(u)
      BY <1>1, <2>1 DEF DiscardWrites, Finding
    <2>2. CASE ~DiscardWrites(u)
      BY <1>4, <2>2 DEF HandleReports, Create, Regenerate, SendReads, Discard,
         AssertDayNotClassifying, ListCandidates, InsertReport, ReplaceItems, PersistPdf,
         MailAccepted, MailRefused, MailAnswerLost, StoreSentPdf, StoreSentFails, MarkSent,
         KeepDraft
    <2> QED
      BY <2>1, <2>2
  <1> QED
    BY <1>2, <1>3, <1>4 DEF Next, CutOff, vars

\* NoteMeansMailed: with one person at a time, a finding announces a change of a norm
\* only if a mail has carried another version of that norm.
THEOREM NoteSafety == ASSUME OneDesk PROVE Spec => []NoteMeansMailed
  <1>1. Init => NoteInv
    BY DEF Init, NoteInv
  <1>2. ASSUME TypeOK, OneDeskInv, NoteInv, [Next]_vars
        PROVE  NoteInv'
    <2> SUFFICES ASSUME NEW d \in Docs, finding'[d].note \/ stage'[d] = "sentBefore"
                 PROVE  OtherVersionMailed(d)'
      BY DEF NoteInv
    <2>1. OtherVersionMailed(d)
      <3>1. ASSUME NEW e \in Docs \ {d}, NormOf[e] = NormOf[d], Burned(e)
            PROVE  OtherVersionMailed(d)
        <4>1. PICK r \in ReportIds : report[r].status = "sent" /\ e \in report[r].items
          BY <3>1 DEF Burned
        <4>2. PICK m \in outbox : m.items = report[r].items
          BY <1>2, <4>1 DEF OneDeskInv, BurnedWasMailed
        <4> QED
          BY <3>1, <4>1, <4>2 DEF OtherVersionMailed
      <3> QED
        BY <1>2, <3>1, NoteSource DEF NoteInv
    <2> QED
      BY <1>2, <2>1, OutboxGrows DEF OtherVersionMailed
  <1>3. NoteInv => NoteMeansMailed
    BY DEF NoteInv, NoteMeansMailed, OtherVersionMailed
  <1> QED
    BY <1>1, <1>2, <1>3, OneDeskInvariant, PTL DEF Spec
-----------------------------------------------------------------------------
(* The file of a report.                                                   *)

\* How many things have failed: what is cut off, refused at a storage, or never answered.
NoneFailed   == budget["fail"] >= Budget["fail"]
OneMayFailed == budget["fail"] + 1 >= Budget["fail"]

\* A generation whose items are in the row and whose PDF is not stored yet.
Storing(u, r) == call[u].at \in {"storeNew", "store"} /\ call[u].report = r

MailedAs(r, file) == \E m \in outbox : m.report = r /\ m.items = file

\* The PDF that will be stored has the items of the row.
StoresItems(u) ==
  call[u].at \in {"storeNew", "store"} => call[u].items = report[call[u].report].items

\* Unless something has failed, the file of a draft has the items of its row.
DraftsAreStored ==
  NoneFailed => \A r \in ReportIds : report[r].status = "draft" =>
    report[r].file = report[r].items \/ \E u \in Desk : Storing(u, r)

\* A send that is about to mark the row has mailed the file, or more has failed than its upload.
MarksMailed(u) ==
  OneMayFailed /\ call[u].at = "mark" => MailedAs(call[u].report, report[call[u].report].file)

\* The inductive invariant, beside OneDeskInv.
FileInv ==
  /\ budget["fail"] <= Budget["fail"]
  /\ FileIsWhatWasMailed /\ DraftsAreStored
  /\ \A u \in Desk : StoresItems(u) /\ MarksMailed(u)
\* What has failed stays failed, and one more failure is seen.
LEMMA FailuresCount ==
  ASSUME TypeOK, FileInv, UNCHANGED budget \/ \E k \in Kinds : Spend(k)
  PROVE  /\ budget'["fail"] <= Budget["fail"]
         /\ (NoneFailed' => NoneFailed) /\ (OneMayFailed' => OneMayFailed)
         /\ Spend("fail") => ~NoneFailed' /\ (OneMayFailed' => NoneFailed)
  <1>1. budget \in [Kinds -> Nat] /\ Budget["fail"] \in Nat /\ "fail" \in Kinds
    BY ReportsAssumption DEF TypeOK, Kinds
  <1>2. PICK b \in Nat, limit \in Nat : b = budget["fail"] /\ limit = Budget["fail"]
    BY <1>1
  <1>3. \/ budget'["fail"] = b /\ ~Spend("fail")
        \/ budget'["fail"] = b - 1
    <2>1. Spend("fail") => budget'["fail"] = b - 1
      BY <1>1, <1>2 DEF Spend
    <2>2. \A k \in Kinds \ {"fail"} : Spend(k) => budget'["fail"] = b
      BY <1>1, <1>2 DEF Spend
    <2> QED
      BY <1>2, <2>1, <2>2
  <1> QED
    BY <1>2, <1>3 DEF FileInv, NoneFailed, OneMayFailed

\* A step that leaves reports and mails alone, and moves requests only past what a file
\* depends on, or fails.
LEMMA FileFrame ==
  ASSUME FileInv, UNCHANGED report, outbox \subseteq outbox',
         budget'["fail"] <= Budget["fail"],
         NoneFailed' => NoneFailed, OneMayFailed' => OneMayFailed,
         \A u \in Desk : \/ call'[u] = call[u]
                         \/ /\ call'[u].at \notin {"storeNew", "store", "mark"}
                            /\ NoneFailed' => call[u].at \notin {"storeNew", "store"}
  PROVE  FileInv'
  <1>1. \A r, file : MailedAs(r, file) => MailedAs(r, file)'
    BY DEF MailedAs
  <1>2. FileIsWhatWasMailed'
    BY DEF FileInv, FileIsWhatWasMailed, OneMayFailed
  <1>3. DraftsAreStored'
    BY DEF FileInv, DraftsAreStored, Storing
  <1>4. ASSUME NEW u \in Desk
        PROVE  StoresItems(u)' /\ MarksMailed(u)'
    BY <1>1 DEF FileInv, StoresItems, MarksMailed
  <1> QED
    BY <1>2, <1>3, <1>4 DEF FileInv

\* A step of the only request at the desk that changes one row, which is not SENT.
LEMMA FileRow ==
  ASSUME OneDesk, TypeOK, FileInv, NEW u \in Desk, NEW r \in ReportIds, NEW rec,
         report' = [report EXCEPT ![r] = rec], rec.status # "sent",
         UNCHANGED <<outbox, budget>>,
         call[u].at \in {"storeNew", "store"} => call[u].report = r,
         rec.status = "draft" /\ NoneFailed =>
           rec.file = rec.items \/ Storing(u, r)',
         StoresItems(u)', MarksMailed(u)'
  PROVE  FileInv'
  <1>1. report \in [ReportIds -> Report]
    BY DEF TypeOK
  <1>2. report'[r] = rec /\ \A o \in ReportIds \ {r} : report'[o] = report[o]
    BY <1>1
  <1>3. FileIsWhatWasMailed'
    BY <1>2 DEF FileInv, FileIsWhatWasMailed
  <1>4. DraftsAreStored'
    <2> SUFFICES ASSUME NoneFailed, NEW o \in ReportIds, report'[o].status = "draft"
                 PROVE  report'[o].file = report'[o].items \/ \E v \in Desk : Storing(v, o)'
      BY DEF DraftsAreStored, NoneFailed
    <2>1. CASE o = r
      BY <1>2, <2>1
    <2>2. CASE o # r
      <3>1. ~Storing(u, o)
        BY <2>2 DEF Storing
      <3> QED
        BY <1>2, <2>2, <3>1 DEF FileInv, DraftsAreStored, OneDesk
    <2> QED
      BY <2>1, <2>2
  <1> QED
    BY <1>3, <1>4 DEF FileInv, OneDesk

\* The classifier, the editors and a request that is cut off.
LEMMA OthersKeepFileInv ==
  ASSUME TypeOK, FileInv,
         \/ \E d \in Docs : Classifier(d)
         \/ \E u \in Editors : EditFindings(u)
         \/ \E u \in Users : CutOff(u)
         \/ UNCHANGED vars
  PROVE  FileInv'
  <1>1. UNCHANGED <<report, outbox>>
    BY DEF Classifier, DocReady, ClassifyAgain, UpsertFinding, ReopenReads, ReopenWrites,
       MarkClassified, EditFindings, Include, Exclude, UpdateImpact, ExcludeWrites, CutOff,
       vars
  <1>2. UNCHANGED budget \/ \E k \in Kinds : Spend(k)
    BY DEF Classifier, DocReady, ClassifyAgain, UpsertFinding, ReopenReads, ReopenWrites,
       MarkClassified, EditFindings, Include, Exclude, UpdateImpact, Edit, ExcludeWrites,
       CutOff, vars, Kinds
  <1>3. call \in [Users -> Call] /\ Desk \subseteq Users
    BY DEF TypeOK, Users
  <1>4. ASSUME NEW u \in Desk
        PROVE  \/ call'[u] = call[u]
               \/ /\ call'[u].at \notin {"storeNew", "store", "mark"}
                  /\ NoneFailed' => call[u].at \notin {"storeNew", "store"}
    <2>1. CASE (\E d \in Docs : Classifier(d)) \/ UNCHANGED vars
      BY <2>1 DEF Classifier, DocReady, ClassifyAgain, UpsertFinding, ReopenReads,
         ReopenWrites, MarkClassified, vars
    <2>2. ASSUME NEW v \in Users, CutOff(v)
          PROVE  ~NoneFailed' /\ (call'[u] = call[u] \/ call'[u].at = "idle")
      BY <1>2, <1>3, <2>2, FailuresCount DEF CutOff, End, Idle
    <2>3. ASSUME NEW e \in Editors, EditFindings(e)
          PROVE  \/ call'[u] = call[u]
                 \/ call'[u].at \in {"idle", "exclude"} /\ call[u].at \in {"idle", "exclude"}
      <3>1. [Idle EXCEPT !.at = "exclude"].at = "exclude"
        BY DEF Idle
      <3>2. ASSUME NEW d \in Docs, Exclude(e, d)
            PROVE  \/ call'[u] = call[u]
                   \/ call'[u].at = "exclude" /\ call[u].at = "idle"
        <4>1. [Idle EXCEPT !.at = "exclude", !.doc = d].at = "exclude"
          BY DEF Idle
        <4> QED
          BY <1>3, <3>2, <4>1 DEF Exclude, Edit, At
      <3>3. CASE ExcludeWrites(e)
        BY <1>3, <3>3 DEF ExcludeWrites, End, At, Idle
      <3> QED
        BY <2>3, <3>2, <3>3 DEF EditFindings, Include, UpdateImpact
    <2> QED
      BY <2>1, <2>2, <2>3
  <1> QED
    BY <1>1, <1>2, <1>4, FailuresCount, FileFrame

\* The steps of a request that leave the reports alone.
LEMMA ReadsKeepFileInv ==
  ASSUME OneDesk, TypeOK, OneDeskInv, FileInv, NEW u \in Desk,
         \/ \E r \in ReportIds : Create(u, r) \/ Regenerate(u, r) \/ SendReads(u, r)
                                 \/ Discard(u, r)
         \/ AssertDayNotClassifying(u) \/ ListCandidates(u)
         \/ MailAccepted(u) \/ MailRefused(u) \/ MailAnswerLost(u) \/ StoreSentFails(u)
  PROVE  FileInv'
  <1>1. UNCHANGED report /\ outbox \subseteq outbox'
    BY DEF Create, Regenerate, SendReads, Discard, AssertDayNotClassifying, ListCandidates,
       MailAccepted, MailRefused, MailAnswerLost, StoreSentFails
  <1>2. UNCHANGED budget \/ \E k \in Kinds : Spend(k)
    BY DEF Create, Regenerate, SendReads, Discard, AssertDayNotClassifying, ListCandidates,
       MailAccepted, MailRefused, MailAnswerLost, StoreSentFails, Kinds
  <1>3. call \in [Users -> Call] /\ u \in Users /\ call[u] \in Call
    BY DEF TypeOK, Users
  <1>4. \A v \in Desk : v = u
    BY DEF OneDesk
  <1>5. CASE StoreSentFails(u)
    <2> DEFINE r == call[u].report
    <2>1. /\ call[u].at = "storeSent" /\ outbox' = outbox
          /\ call'[u].at = "mark" /\ call'[u].report = r
      BY <1>3, <1>5 DEF StoreSentFails, At, Goto, Call
    <2>2. /\ r \in ReportIds /\ report[r].status = "draft" /\ LetterOf(u) \in outbox
          /\ call[u].items = report[r].items
      BY <1>3, <2>1 DEF Call, OneDeskInv, DeskInv, HandlesDraft, MailsItems
    <2>3. OneMayFailed' => report[r].file = report[r].items
      <3>1. OneMayFailed' => NoneFailed
        BY <1>2, <1>5, FailuresCount DEF StoreSentFails
      <3>2. \A v \in Desk : ~Storing(v, r)
        BY <1>4, <2>1 DEF Storing
      <3> QED
        BY <2>2, <3>1, <3>2 DEF FileInv, DraftsAreStored
    <2>4. MarksMailed(u)'
      BY <1>1, <2>1, <2>2, <2>3 DEF MarksMailed, MailedAs, LetterOf
    <2>5. StoresItems(u)'
      BY <2>1 DEF StoresItems
    <2>6. ~NoneFailed' /\ budget'["fail"] <= Budget["fail"] /\ (OneMayFailed' => OneMayFailed)
      BY <1>2, <1>5, FailuresCount DEF StoreSentFails
    <2>7. FileIsWhatWasMailed' /\ DraftsAreStored'
      BY <1>1, <2>1, <2>6 DEF FileInv, FileIsWhatWasMailed, DraftsAreStored, OneMayFailed
    <2> QED
      BY <1>4, <2>4, <2>5, <2>6, <2>7 DEF FileInv
  <1>6. CASE ~StoreSentFails(u)
    <2>1. \/ call'[u] = call[u]
          \/ /\ call'[u].at \notin {"storeNew", "store", "mark"}
             /\ call[u].at \notin {"storeNew", "store"}
      <3>1. ASSUME NEW r \in ReportIds, Create(u, r) \/ Regenerate(u, r) \/ Discard(u, r)
            PROVE  call[u].at = "idle" /\ call'[u].at \in {"board", "discard"}
        <4>1. \A point : [Idle EXCEPT !.at = point, !.report = r].at = point
          BY DEF Idle
        <4> QED
          BY <1>3, <3>1, <4>1 DEF Create, Regenerate, Discard, At
      <3>2. ASSUME NEW r \in ReportIds, SendReads(u, r)
            PROVE  call[u].at \in {"idle", "send"} /\ call'[u].at \in {"idle", "mail", "keep"}
        BY <1>3, <3>2 DEF SendReads, End, Idle, At
      <3>3. CASE AssertDayNotClassifying(u) \/ ListCandidates(u)
        BY <1>3, <3>3 DEF AssertDayNotClassifying, ListCandidates, End, Goto, At, Idle, Call
      <3>4. CASE MailAccepted(u) \/ MailRefused(u) \/ MailAnswerLost(u)
        BY <1>3, <3>4 DEF MailAccepted, MailRefused, MailAnswerLost, Goto, At, Call
      <3> QED
        BY <1>6, <3>1, <3>2, <3>3, <3>4
    <2> QED
      BY <1>1, <1>2, <1>4, <2>1, FailuresCount, FileFrame
  <1> QED
    BY <1>5, <1>6

\* The steps of a request that write the report.
LEMMA WritesKeepFileInv ==
  ASSUME OneDesk, TypeOK, OneDeskInv, FileInv, NEW u \in Desk,
         \/ InsertReport(u) \/ ReplaceItems(u) \/ PersistPdf(u) \/ StoreSentPdf(u)
         \/ MarkSent(u) \/ KeepDraft(u) \/ DiscardWrites(u)
  PROVE  FileInv'
  <1> DEFINE r == call[u].report
  <1> USE DEF StoresItems, MarksMailed, Storing
  <1>1. /\ call \in [Users -> Call] /\ u \in Users /\ call[u] \in Call
        /\ report \in [ReportIds -> Report]
    BY DEF TypeOK, Users
  <1>2. r \in ReportIds /\ report[r] \in Report
    BY <1>1 DEF Call, InsertReport, ReplaceItems, PersistPdf, StoreSentPdf, MarkSent,
       KeepDraft, DiscardWrites, At
  <1>3. UNCHANGED <<outbox, budget>>
    BY DEF InsertReport, ReplaceItems, PersistPdf, StoreSentPdf, MarkSent, KeepDraft,
       DiscardWrites
  <1>4. DeskInv(u) /\ StoresItems(u) /\ MarksMailed(u)
    BY DEF OneDeskInv, FileInv
  <1>5. CASE InsertReport(u) \/ ReplaceItems(u)
    <2>1. /\ call'[u].at \in {"storeNew", "store"} /\ call'[u].report = r
          /\ call'[u].items = call[u].items /\ call[u].at = "write"
      BY <1>1, <1>5 DEF InsertReport, ReplaceItems, Goto, At, Call
    <2>2. PICK rec : /\ report' = [report EXCEPT ![r] = rec]
                     /\ rec.status # "sent" /\ rec.items = call[u].items
      <3>1. report[r].status \in {"none", "draft"}
        BY <1>4, <2>1 DEF DeskInv, HandlesDraft
      <3>2. /\ [report[r] EXCEPT !.status = "draft", !.items = call[u].items].status = "draft"
            /\ [report[r] EXCEPT !.status = "draft", !.items = call[u].items].items
                 = call[u].items
            /\ [report[r] EXCEPT !.items = call[u].items].status = report[r].status
            /\ [report[r] EXCEPT !.items = call[u].items].items = call[u].items
        BY <1>2 DEF Report
      <3>3. \/ report' = [report EXCEPT ![r] = [report[r] EXCEPT !.status = "draft",
                                                               !.items = call[u].items]]
            \/ report' = [report EXCEPT ![r] = [report[r] EXCEPT !.items = call[u].items]]
        BY <1>5 DEF InsertReport, ReplaceItems
      <3> QED
        BY <3>1, <3>2, <3>3
    <2>3. report'[r].items = call[u].items
      BY <1>1, <1>2, <2>2
    <2>4. Storing(u, r)' /\ StoresItems(u)' /\ MarksMailed(u)'
      BY <2>1, <2>3
    <2> QED
      BY <1>2, <1>3, <2>1, <2>2, <2>4, FileRow
  <1>6. CASE PersistPdf(u) \/ StoreSentPdf(u)
    <2>1. /\ call[u].at \in {"storeNew", "store", "storeSent"}
          /\ call'[u].at \in {"send", "idle", "mark"}
          /\ call'[u].at = "mark" => call[u].at = "storeSent" /\ call'[u].report = r
      BY <1>1, <1>6 DEF PersistPdf, StoreSentPdf, Goto, End, Idle, At, Call
    <2>2. report[r].status = "draft" /\ call[u].items = report[r].items
      BY <1>4, <2>1 DEF DeskInv, HandlesDraft, MailsItems
    <2>3. PICK rec : /\ report' = [report EXCEPT ![r] = rec]
                     /\ rec.status = "draft" /\ rec.items = report[r].items
                     /\ rec.file = call[u].items
      BY <1>1, <1>2, <1>6, <2>2 DEF PersistPdf, StoreSentPdf, Report
    <2>4. report'[r].file = call[u].items
      BY <1>1, <1>2, <2>3
    <2>5. MarksMailed(u)'
      <3>1. call[u].at = "storeSent" => LetterOf(u) \in outbox
        BY <1>4 DEF DeskInv, MailsItems
      <3> QED
        BY <1>3, <2>1, <2>4, <3>1 DEF MailedAs, LetterOf
    <2> QED
      BY <1>2, <1>3, <2>1, <2>2, <2>3, <2>5, FileRow
  <1>7. CASE KeepDraft(u) \/ DiscardWrites(u)
    <2>1. call[u].at \in {"keep", "discard"} /\ call'[u].at = "idle"
      BY <1>1, <1>7 DEF KeepDraft, DiscardWrites, End, Idle, At
    <2>2. report[r].status = "draft"
      BY <1>4, <2>1 DEF DeskInv, HandlesDraft
    <2>3. PICK rec : /\ report' = [report EXCEPT ![r] = rec]
                     /\ rec.status \in {"draft", "discarded"}
                     /\ rec.items = report[r].items /\ rec.file = report[r].file
      BY <1>1, <1>2, <1>7, <2>2 DEF KeepDraft, DiscardWrites, Report
    <2>4. NoneFailed => report[r].file = report[r].items
      BY <1>2, <2>1, <2>2 DEF FileInv, DraftsAreStored, OneDesk
    <2> QED
      BY <1>2, <1>3, <2>1, <2>3, <2>4, FileRow
  <1>8. CASE MarkSent(u)
    <2>1. call[u].at = "mark" /\ call'[u].at = "idle"
      BY <1>1, <1>8 DEF MarkSent, End, Idle, At
    <2>2. /\ report'[r].file = report[r].file /\ report'[r].status = "sent"
          /\ \A o \in ReportIds \ {r} : report'[o] = report[o]
      BY <1>1, <1>2, <1>8 DEF MarkSent, Report
    <2>3. FileIsWhatWasMailed'
      <3>1. OneMayFailed => MailedAs(r, report[r].file)
        BY <1>4, <2>1
      <3> QED
        BY <1>3, <2>2, <3>1 DEF FileInv, FileIsWhatWasMailed, OneMayFailed, MailedAs
    <2>4. DraftsAreStored'
      BY <1>3, <2>1, <2>2 DEF FileInv, DraftsAreStored, NoneFailed, OneDesk
    <2>5. StoresItems(u)' /\ MarksMailed(u)'
      BY <2>1
    <2> QED
      BY <1>3, <2>3, <2>4, <2>5 DEF FileInv, OneDesk
  <1> QED
    BY <1>5, <1>6, <1>7, <1>8

\* FileIsWhatWasMailed: with one person at a time, and if no more than one thing has failed,
\* the stored file of a SENT report is the one that was mailed: `send` stores it again, and
\* what was stored before has the same items unless that, too, has failed.
THEOREM FileSafety == ASSUME OneDesk PROVE Spec => []FileIsWhatWasMailed
  <1>1. Init => FileInv
    BY ReportsAssumption DEF Init, FileInv, FileIsWhatWasMailed, DraftsAreStored, StoresItems,
       MarksMailed, Idle, Users, Kinds
  <1>2. TypeOK /\ OneDeskInv /\ FileInv /\ [Next]_vars => FileInv'
    BY OthersKeepFileInv, ReadsKeepFileInv, WritesKeepFileInv DEF Next, HandleReports
  <1>3. FileInv => FileIsWhatWasMailed
    BY DEF FileInv
  <1> QED
    BY <1>1, <1>2, <1>3, OneDeskInvariant, PTL DEF Spec
=============================================================================
