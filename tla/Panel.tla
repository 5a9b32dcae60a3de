------------------------------- MODULE Panel -------------------------------
(***************************************************************************)
(* The panel of a day: the scheduler that starts the crawl of one source   *)
(* as the hours go by, the crawl, the pages it saves on their way through  *)
(* the pipeline, and the boards that read all of it, query by query, while *)
(* it moves.  The crawl's races are CrawlJobs', the pipeline's are         *)
(* DocPipeline's; here both are steps between the queries of a board.      *)
(***************************************************************************)
EXTENDS ScheduleWindow, ProgressBoard

CONSTANTS
  TrackingZone,  \* TRACKING_TIMEZONE, the zone of the panel's days
  Schedule,      \* of the source: zone, weekdays, hour
  Instants,      \* the hours at which anything happens: a bound
  Dates,         \* the days crawled and asked for: a bound
  Pages,         \* the documents the crawls may save
  Pref,          \* preferHtmlFilename of a page
  Attempts,      \* attempts of a crawl job
  Budget         \* how often the environment acts, per kind: a bound

\* Stops of the worker, crawls an admin asks for, polls of the panel, all of it together.
Kinds == {"stop", "admin", "poll", "any"}

ASSUME PanelAssumption ==
  /\ {TrackingZone, Schedule.zone} \subseteq Zones
  /\ Instants \subseteq Horizon
  /\ Instants # {}
  /\ IsFiniteSet(Instants) /\ IsFiniteSet(Dates) /\ IsFiniteSet(Pages)
  /\ Pref \in [Pages -> 0..2]
  /\ Attempts \in Nat \ {0}
  /\ Budget \in [Kinds -> Nat]

\* The tables reach over the days around each instant, and none of those days is skipped.
ASSUME HorizonAssumption ==
  \A zone \in Zones : \A t \in Instants :
    \A date \in (DateOf(t, zone) - 1)..(DateOf(t, zone) + 2) :
      /\ 24 * date \in Horizon
      /\ \E u \in Scan(date) : DateOf(u, zone) = date

\* The idempotency keys: {code}:{date}:admin and {code}:{date}:scheduled.
Keys == Dates \X {"admin", "scheduled"}

VARIABLES
  now,      \* the hour
  ticked,   \* the cron has run in this hour
  up,       \* the worker is running
  idle,     \* the hours that went by without a tick
  run,      \* job_runs of a key, None when there is no row
  page,     \* documents, None when not saved
  finding,  \* when the findings of a page were created, None without
  poll,     \* the panel's requests: where they are, what they have read and answered
  budget    \* what is left of Budget

clock == <<now, ticked, up, idle>>
vars == <<clock, run, page, finding, poll, budget>>

\* n ranks the runs of the source, and the pages, by createdAt.
Runs == [st: {"QUEUED", "RUNNING", "SUCCESS", "FAILED"}, made: 0..Attempts,
         n: 1..Cardinality(Keys)]

\* A page that RECEIVED holds is anywhere in the extraction; day is the date in the key of
\* the run it was saved by.
Documents == [st: {"RECEIVED", "READY_FOR_AI", "DEDUPED", "CLASSIFIED", "FAILED", "DISCARDED"},
              err: Errors, pref: 0..2, n: 1..Cardinality(Pages), at: Instants, day: Dates]

ASSUME NoneAssumption ==
  /\ None \notin Dates /\ None \notin Runs /\ None \notin Documents
  /\ None \notin Notes \cup {"plain", "noted"}

\* missed: pages the answers cannot have counted, for they were saved after the documents
\* were read, or come from another day's crawl or one that started later (restarted).
NoPoll == [pc |-> "none", date |-> None, signals |-> None, best |-> None, found |-> FALSE,
           extraction |-> None, analysis |-> None, missed |-> {}, restarted |-> {}]

Polls == [pc: {"none", "crawls", "documents", "findings", "crawls again", "answered"},
          date: Dates \cup {None},
          signals: {None} \cup [DOMAIN DocumentDaySignals({}) -> BOOLEAN]
                          \cup [DOMAIN AnalysisDaySignals({}) -> BOOLEAN],
          best: {None, "extracting", "ready", "classified", "unchanged", "unread", "failed"},
          found: BOOLEAN,
          extraction: {None, "plain", "noted"}, analysis: {None, "plain", "noted"},
          missed: SUBSET Pages, restarted: SUBSET Keys]

\* Every variable has the type of the row or the local it models; findings are of pages
\* that exist.
TypeOK ==
  /\ now \in Instants
  /\ ticked \in BOOLEAN /\ up \in BOOLEAN
  /\ idle \subseteq Instants
  /\ run \in [Keys -> Runs \cup {None}]
  /\ page \in [Pages -> Documents \cup {None}]
  /\ finding \in [Pages -> Instants \cup {None}]
  /\ \A p \in Pages : finding[p] # None => page[p] # None
  /\ poll \in Polls
  /\ budget \in [Kinds -> Nat]

Init ==
  /\ now \in Instants
  /\ \A t \in Instants : now <= t
  /\ ticked = FALSE
  /\ up = TRUE
  /\ idle = {}
  /\ run = [k \in Keys |-> None]
  /\ page = [p \in Pages |-> None]
  /\ finding = [p \in Pages |-> None]
  /\ poll = NoPoll
  /\ budget = Budget

Spend(kind) ==
  /\ budget[kind] > 0
  /\ budget["any"] > 0
  /\ budget' = [budget EXCEPT ![kind] = @ - 1, !["any"] = @ - 1]

-----------------------------------------------------------------------------
(* The clock and the scheduler.                                            *)

\* The cron fires in every hour the worker is up to its end.  No hour goes by between two
\* queries of the panel, and none until it asks again.
Hour ==
  /\ ticked \/ ~up
  /\ poll.pc \in {"none", "documents", "answered"}
  /\ \E t \in Instants : /\ t > now
                        /\ \A u \in Instants : u > now => t <= u
                        /\ now' = t
  /\ ticked' = FALSE
  /\ idle' = IF ticked THEN idle ELSE idle \cup {now}
  /\ poll' = NoPoll
  /\ UNCHANGED <<up, run, page, finding, budget>>

\* The worker stops: what is in the queues waits.
Stop ==
  /\ up
  /\ Spend("stop")
  /\ up' = FALSE
  /\ UNCHANGED <<now, ticked, idle, run, page, finding, poll>>

Restart ==
  /\ ~up
  /\ up' = TRUE
  /\ UNCHANGED <<now, ticked, idle, run, page, finding, poll, budget>>

\* The local date of the source: the one its keys carry.
Today == DateOf(now, Schedule.zone)

SameDayCrawlBlock ==
  \E k \in Keys : k[1] = Today /\ run[k] # None /\ run[k].st # "FAILED"

\* Mutant of WillRetry: one attempt too many.
MutRetriesOnceMore(k) == run[k] # None /\ run[k].st = "FAILED" /\ run[k].made <= Attempts

\* A run whose attempt failed and that BullMQ will try again.
WillRetry(k) == run[k] # None /\ run[k].st = "FAILED" /\ run[k].made < Attempts

NewRun == [st |-> "QUEUED", made |-> 0, n |-> Cardinality({k \in Keys : run[k] # None}) + 1]

\* An answer knows nothing of what starts after it.
Restarts(k) ==
  IF poll.date = k[1] THEN [poll EXCEPT !.restarted = @ \cup {k}] ELSE poll

Misses(p) == IF poll.pc = "none" THEN poll ELSE [poll EXCEPT !.missed = @ \cup {p}]

Enqueue(k) ==
  /\ run' = [run EXCEPT ![k] =
       IF @ = None THEN NewRun ELSE [@ EXCEPT !.st = "QUEUED", !.made = 0]]
  /\ poll' = Restarts(k)

\* CrawlScheduler.tick: a run that the cron enqueued before is not enqueued again.
Tick ==
  LET k == <<Today, "scheduled">> IN
  /\ up
  /\ ~ticked
  /\ ticked' = TRUE
  /\ IF IsDue(Schedule, now) /\ k \in Keys /\ ~SameDayCrawlBlock /\ run[k] = None
     THEN Enqueue(k)
     ELSE UNCHANGED <<run, poll>>
  /\ UNCHANGED <<now, up, idle, page, finding, budget>>

\* An admin asks for the crawl; a job that waits for its next attempt is in flight.
TriggerCrawl ==
  LET k == <<Today, "admin">> IN
  /\ Spend("admin")
  /\ k \in Keys
  /\ ~SameDayCrawlBlock
  /\ ~WillRetry(k)
  /\ Enqueue(k)
  /\ UNCHANGED <<clock, page, finding>>

-----------------------------------------------------------------------------
(* The crawl of a key.                                                     *)

Has(k, st) == run[k] # None /\ run[k].st = st

CrawlStarts(k) ==
  /\ up
  /\ Has(k, "QUEUED")
  /\ run' = [run EXCEPT ![k].st = "RUNNING", ![k].made = @ + 1]
  /\ UNCHANGED <<clock, page, finding, poll, budget>>

CrawlRetries(k) ==
  /\ up
  /\ WillRetry(k)
  /\ run' = [run EXCEPT ![k].st = "RUNNING", ![k].made = @ + 1]
  /\ poll' = Restarts(k)
  /\ UNCHANGED <<clock, page, finding, budget>>

\* A page is saved with its run.
SavePage(k, p) ==
  /\ up
  /\ Has(k, "RUNNING")
  /\ page[p] = None
  /\ page' = [page EXCEPT ![p] =
       [st |-> "RECEIVED", err |-> None, pref |-> Pref[p], at |-> now, day |-> k[1],
        n |-> Cardinality({q \in Pages : page[q] # None}) + 1]]
  /\ poll' = IF poll.pc = "crawls" \/ k \in poll.restarted \/ k[1] # poll.date
             THEN Misses(p) ELSE poll
  /\ UNCHANGED <<clock, run, finding, budget>>

CrawlSucceeds(k) ==
  /\ up
  /\ Has(k, "RUNNING")
  /\ run' = [run EXCEPT ![k].st = "SUCCESS"]
  /\ UNCHANGED <<clock, page, finding, poll, budget>>

\* FAILED is written at every attempt; an error that is not retryable is the last one.
CrawlFails(k) ==
  /\ up
  /\ Has(k, "RUNNING")
  /\ \/ run' = [run EXCEPT ![k].st = "FAILED"]
     \/ run' = [run EXCEPT ![k].st = "FAILED", ![k].made = Attempts]
  /\ UNCHANGED <<clock, page, finding, poll, budget>>

-----------------------------------------------------------------------------
(* A page in the pipeline.                                                 *)

Is(p, st) == page[p] # None /\ page[p].st = st
SetPage(p, st, err) == page' = [page EXCEPT ![p].st = st, ![p].err = err]

\* From the extraction of the text to its deduplication.
Extract(p) ==
  /\ up
  /\ Is(p, "RECEIVED")
  /\ \/ \E st \in {"READY_FOR_AI", "DEDUPED", "DISCARDED"} : SetPage(p, st, None)
     \/ \E err \in {"unread", "technical"} : SetPage(p, "FAILED", err)
  /\ UNCHANGED <<clock, run, finding, poll, budget>>

\* Clients get findings, or the source has none; a failure may come after some of them.
Classify(p) ==
  /\ up
  /\ Is(p, "READY_FOR_AI")
  /\ SetPage(p, "CLASSIFIED", None) \/ SetPage(p, "FAILED", "classify")
  /\ finding' = [finding EXCEPT ![p] = IF @ = None THEN now ELSE @] \/ UNCHANGED finding
  /\ UNCHANGED <<clock, run, poll, budget>>

-----------------------------------------------------------------------------
(* The boards.                                                             *)

\* Created within the day, or by a crawl of that date.
OnBoard(p, date) ==
  /\ page[p] # None
  /\ page[p].st # "DISCARDED"
  /\ page[p].day = date \/ InZonedDay(page[p].at, date, TrackingZone)

Rows(date) == {page[p] : p \in {q \in Pages : OnBoard(q, date)}}

Found(date) ==
  \E p \in Pages : /\ finding[p] # None
                   /\ \/ InZonedDay(finding[p], date, TrackingZone)
                      \/ page[p].day = date

\* Mutant of CrawlInFlight: a crawl that has started is not waited for.
MutInFlightQueued(date) == \E k \in Keys : k[1] = date /\ Has(k, "QUEUED")

\* loadCrawlInFlightSourceIds.
CrawlInFlight(date) == \E k \in Keys : k[1] = date /\ (Has(k, "QUEUED") \/ Has(k, "RUNNING"))

\* What is kept of an answer that a source is done: whether it has a note.
Mark(note) == IF note = None THEN "plain" ELSE "noted"

\* The panel asks for the documents of a day, then, when they are done, for its findings:
\* the order in which the two answers can be put together.
AsksDocuments(date) ==
  /\ Spend("poll")
  /\ poll' = [NoPoll EXCEPT !.pc = "crawls", !.date = date, !.best = BestStatus(Rows(date)),
                            !.signals = DocumentDaySignals(Rows(date))]
  /\ UNCHANGED <<clock, run, page, finding>>

\* DocumentsService.progress asks for the crawls last.
AnswersDocuments ==
  LET inFlight == CrawlInFlight(poll.date)
      status   == MapDocumentSourceStatus(poll.best, poll.signals, inFlight)
      note     == DocumentProgressNote(status, poll.signals, inFlight)
  IN
  /\ poll.pc = "crawls"
  /\ poll' = IF ~Done(status) THEN NoPoll
             ELSE [poll EXCEPT !.pc = "documents", !.extraction = Mark(note),
                               !.signals = None, !.best = None, !.restarted = {}]
  /\ UNCHANGED <<clock, run, page, finding, budget>>

AsksFindings ==
  /\ poll.pc = "documents"
  /\ poll' = [poll EXCEPT !.pc = "findings", !.signals = AnalysisDaySignals(Rows(poll.date))]
  /\ UNCHANGED <<clock, run, page, finding, budget>>

ReadsFindings ==
  /\ poll.pc = "findings"
  /\ poll' = [poll EXCEPT !.pc = "crawls again", !.found = Found(poll.date)]
  /\ UNCHANGED <<clock, run, page, finding, budget>>

\* FindingsService.progress asks for the crawls last, too.
AnswersFindings ==
  LET inFlight == CrawlInFlight(poll.date)
      status   == MapAnalysisProgressStatus(poll.signals, poll.found, inFlight)
      note     == AnalysisProgressNote(status, poll.signals, poll.found, inFlight)
  IN
  /\ poll.pc = "crawls again"
  /\ poll' = IF ~Done(status) THEN NoPoll
             ELSE [poll EXCEPT !.pc = "answered", !.analysis = Mark(note),
                               !.signals = None, !.found = FALSE]
  /\ UNCHANGED <<clock, run, page, finding, budget>>

\* JobsService.progress reads the runs of the day in one query.
RunsOf(date) == {run[k] : k \in {x \in Keys : x[1] = date /\ run[x] # None}}

-----------------------------------------------------------------------------

Worker ==
  \/ Tick
  \/ \E k \in Keys : CrawlStarts(k) \/ CrawlRetries(k) \/ CrawlSucceeds(k) \/ CrawlFails(k)
  \/ \E k \in Keys, p \in Pages : SavePage(k, p)
  \/ \E p \in Pages : Extract(p) \/ Classify(p)

Board ==
  \/ \E date \in Dates : AsksDocuments(date)
  \/ AnswersDocuments \/ AsksFindings \/ ReadsFindings \/ AnswersFindings

Next ==
  \/ Worker \/ Board
  \/ Hour \/ Stop \/ Restart \/ TriggerCrawl

Spec == Init /\ [][Next]_vars

-----------------------------------------------------------------------------
(* Properties.                                                             *)

\* Every hour is in the range of its own civil date and of no other, in every zone:
\* a finding, a document or a report of that hour is listed on one day (zonedDayRange;
\* days of 23 or 25 hours, days without a midnight).
HourIsInItsDay ==
  \A zone \in Zones :
    LET today == DateOf(now, zone) IN
    \A date \in (today - 1)..(today + 1) : InZonedDay(now, date, zone) <=> date = today

\* When an hour of a day of the schedule is over, at or after its trigger, and a tick ran in
\* it, that day has its crawl: a worker that was down at the trigger catches up
\* (schedule-window.ts:81), whatever the length of the day, and no other day's run stands
\* for it.
ScheduledDaysAreCrawled ==
  \A t \in Instants \ idle :
    LET local == ZonedClock(t, Schedule.zone) IN
    /\ t < now
    /\ local.date \in Dates
    /\ IsoWeekday(local.date) \in Schedule.weekdays
    /\ local.hour >= Schedule.hour
    => RunsOf(local.date) # {}

\* The pages of the day that the answers cannot have missed.
Known == {p \in Pages : OnBoard(p, poll.date) /\ p \notin poll.missed}

\* When the board of the documents says that a source is done, no page of the day is in
\* the extraction or will get there, and when the board of the analysis, asked next, says
\* so too, none waits for the classifier: what a report may be generated from.  Pages
\* saved between two queries of the board, or of a crawl of another date or begun after the
\* answer, are not known to it.
DoneMeansDone ==
  /\ poll.extraction # None => \A p \in Known : page[p].st \notin ExtractActive
  /\ poll.analysis # None => \A p \in Known : page[p].st # "READY_FOR_AI"

\* A failure of the day does not go unnoticed on a board that is done: some note of the
\* source speaks of it, however far its other pages or its later crawls got.
FailuresAreShown ==
  /\ poll.extraction # None =>
       \A p \in Known :
         page[p].st = "FAILED" /\ page[p].err # "classify" => poll.extraction = "noted"
  /\ poll.analysis # None =>
       \A p \in Known :
         page[p].st = "FAILED" /\ page[p].err = "classify" => poll.analysis = "noted"
  /\ \A date \in Dates :
       /\ Done(CrawlStatus(RunsOf(date)))
       /\ \E r \in RunsOf(date) : r.st = "FAILED"
       => CrawlProgressNote(RunsOf(date)) # None
=============================================================================
