--------------------------- MODULE ProgressBoard ---------------------------
(***************************************************************************)
(* What the three boards of the panel say of a source on a day, as         *)
(* functions of the rows they have read.  A row of documents is            *)
(* [st, err, pref, n]: its processing status, the kind of its last error,  *)
(* preferHtmlFilename of its name, and its rank in order of creation.      *)
(* Labels, headlines and the wording of the notes are left out: a note is  *)
(* a name.                                                                 *)
(***************************************************************************)
EXTENDS Naturals, FiniteSets

CONSTANT None  \* null

\* lastError: none, a text that cannot be used (captcha, scan, too short), a technical
\* error of the extraction, or one of the classification.
Errors == {None, "unread", "technical", "classify"}

\* The notes of the three boards, by name.
Notes == {"more is coming", "other pages", "same, problem", "same", "problem",
          "earlier content stays", "unread", "failed", "crawl goes on", "no clients",
          "skipped", "an attempt failed"}

ExtractActive == {"RECEIVED", "EXTRACTED", "NORMALIZED", "HASHED"}

IsUnreadExtractFailure(err) == err \in {None, "unread"}

MapDocumentPipelineStatus(row) ==
  CASE row.st = "CLASSIFIED"   -> "classified"
    [] row.st = "READY_FOR_AI" -> "ready"
    [] row.st = "DEDUPED"      -> "unchanged"
    [] row.st \in ExtractActive -> "extracting"
    [] row.st = "FAILED" -> IF IsUnreadExtractFailure(row.err) THEN "unread" ELSE "failed"
    [] OTHER -> "pending"

PipelineRank(st) ==
  CASE st = "CLASSIFIED" -> 110 [] st = "READY_FOR_AI" -> 100 [] st = "HASHED" -> 80
    [] st = "NORMALIZED" -> 70  [] st = "EXTRACTED" -> 60     [] st = "RECEIVED" -> 50
    [] st = "DEDUPED" -> 40     [] st = "FAILED" -> 20        [] OTHER -> 0

\* isBetterProgressDocument: further in the pipeline, then the page itself, then newer.
IsBetter(a, b) ==
  \/ PipelineRank(a.st) > PipelineRank(b.st)
  \/ /\ PipelineRank(a.st) = PipelineRank(b.st)
     /\ \/ a.pref > b.pref
        \/ a.pref = b.pref /\ a.n > b.n

\* The row the loop of DocumentsService.progress ends with, None without rows.
BestRow(rows) ==
  IF rows = {} THEN None ELSE CHOOSE r \in rows : \A other \in rows : ~IsBetter(other, r)

BestStatus(rows) ==
  LET row == BestRow(rows) IN IF row = None THEN None ELSE MapDocumentPipelineStatus(row)

DocumentDaySignals(rows) ==
  LET mapped == {MapDocumentPipelineStatus(r) : r \in rows} IN
  [hadUnchanged  |-> "unchanged" \in mapped,
   hadUnread     |-> "unread" \in mapped,
   hadFailed     |-> "failed" \in mapped,
   hasExtracting |-> \E r \in rows : r.st \in ExtractActive,
   hasReadyOrClassified |-> mapped \cap {"ready", "classified"} # {}]

\* The source is at work while any page is, or while the crawl of the day is.
MapDocumentSourceStatus(best, signals, crawlInFlight) ==
  IF crawlInFlight \/ signals.hasExtracting THEN "extracting"
  ELSE IF best = None THEN "pending" ELSE best

\* Mutant of DocumentProgressNote: a page without a usable text is not a problem.
MutNoteOfFailedOnly(status, signals, crawlInFlight) ==
  CASE status = "unchanged" -> IF signals.hadFailed THEN "same, problem" ELSE None
    [] status \in {"classified", "ready"} -> IF signals.hadFailed THEN "problem" ELSE None
    [] status \in {"unread", "failed"} -> status
    [] OTHER -> None

DocumentProgressNote(status, signals, crawlInFlight) ==
  LET problem == signals.hadUnread \/ signals.hadFailed IN
  CASE status = "extracting" ->
         IF ~signals.hasReadyOrClassified THEN None
         ELSE IF crawlInFlight /\ ~signals.hasExtracting THEN "more is coming"
         ELSE "other pages"
    [] status = "unchanged" -> IF problem THEN "same, problem" ELSE "same"
    [] status \in {"classified", "ready"} -> IF problem THEN "problem" ELSE None
    [] status \in {"unread", "failed"} ->
         IF signals.hadUnchanged THEN "earlier content stays" ELSE status
    [] OTHER -> None

-----------------------------------------------------------------------------
(* The board of the analysis.                                              *)

AnalysisDaySignals(rows) ==
  [hasReadyForAi     |-> \E r \in rows : r.st = "READY_FOR_AI",
   hasClassifiedDoc  |-> \E r \in rows : r.st = "CLASSIFIED",
   hasClassifyFailed |-> \E r \in rows : r.st = "FAILED" /\ r.err = "classify"]

MapAnalysisProgressStatus(signals, hasFindings, crawlInFlight) ==
  IF \/ signals.hasReadyForAi
     \/ /\ crawlInFlight
        /\ hasFindings \/ signals.hasClassifiedDoc \/ signals.hasClassifyFailed
  THEN "classifying"
  ELSE IF hasFindings THEN "classified"
  ELSE IF signals.hasClassifyFailed THEN "failed"
  ELSE IF signals.hasClassifiedDoc THEN "skipped"
  ELSE "pending"

AnalysisProgressNote(status, signals, hasFindings, crawlInFlight) ==
  CASE status = "classifying" /\ hasFindings ->
         IF crawlInFlight /\ ~signals.hasReadyForAi THEN "crawl goes on" ELSE "other pages"
    [] status = "classified" /\ signals.hasClassifyFailed -> "problem"
    [] status = "failed" -> "failed"
    [] status = "skipped" -> "no clients"
    [] OTHER -> None

-----------------------------------------------------------------------------
(* The board of the crawls.  A run is [st, n]; that its crawl was partial,  *)
(* which has a note of its own, is left out.                               *)

CrawlProgressFromRunStatus(st) ==
  CASE st = "QUEUED" -> "queued"   [] st = "RUNNING" -> "running"
    [] st = "SUCCESS" -> "crawled" [] st = "FAILED" -> "failed"
    [] st = "SKIPPED" -> "skipped" [] OTHER -> "pending"

\* The run of the day that was created last, None when the day has none.
LatestRun(runs) ==
  IF runs = {} THEN None ELSE CHOOSE r \in runs : \A other \in runs : other.n <= r.n

CrawlStatus(runs) ==
  IF runs = {} THEN "pending" ELSE CrawlProgressFromRunStatus(LatestRun(runs).st)

CrawlProgressNote(runs) ==
  LET status == CrawlStatus(runs) IN
  CASE status \in {"failed", "skipped"} -> status
    [] status = "crawled" /\ \E r \in runs : r.st = "FAILED" -> "an attempt failed"
    [] OTHER -> None

\* trackingDaySummary: a row that is neither pending nor at work is done.
InFlightStatuses == {"queued", "running", "extracting", "classifying"}
Done(status) == status # "pending" /\ status \notin InFlightStatuses
=============================================================================
