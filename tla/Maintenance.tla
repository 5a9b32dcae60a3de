---------------------------- MODULE Maintenance ----------------------------
(***************************************************************************)
(* The scripts an operator runs beside the live system: reset-crawl (one   *)
(* day, some sources, or everything), reset-for-training (the wipe before  *)
(* a training) and reclassify-client.  A script is a list of statements    *)
(* that are not in one transaction: it may be stopped after each of them   *)
(* and run again, while the worker crawls, deduplicates and classifies and *)
(* the API writes reports.  What a deleted row takes with it is the        *)
(* foreign keys' doing (schema.prisma: Cascade, SetNull, Restrict).        *)
(*                                                                         *)
(* One client is modelled, linked to every source.  DocPipeline and        *)
(* CrawlJobs have the handlers in detail, and what recovery and the admin  *)
(* ask of them; here they keep the reads and writes that meet the scripts' *)
(* deletes.                                                                *)
(***************************************************************************)
EXTENDS Naturals, FiniteSets, Sequences

CONSTANTS
  Docs,        \* ids a documents row may get
  SourceOf,    \* the source whose crawl finds the page
  TextOf,      \* its normalized text
  Pages,       \* the files isExtractableCrawlFile takes; the others are JSON, images...
  OldDocs,     \* documents older than CRAWL_MIN_YEAR
  Runs,        \* ids a job_runs row may get
  LastDay,     \* the days are 1..LastDay: a bound
  MaxScripts,  \* how many times a script is started: a bound
  None         \* null

Sources == {SourceOf[d] : d \in Docs}
Texts == {TextOf[d] : d \in Docs}
Days == 1..LastDay
Kinds == {"day", "sources", "all", "training", "client"}
Statuses == {"RECEIVED", "READY_FOR_AI", "CLASSIFIED", "DEDUPED", "FAILED", "DISCARDED"}

\* The rows of documents and of job_runs.  run is job_run_id, hash tells that content_hash
\* is set, and err that last_error is.
DocRow == [st: Statuses, canon: Docs \cup {None}, run: Runs \cup {None},
           src: Sources \cup {None}, day: Days, hash: BOOLEAN, err: BOOLEAN]
RunRow == [src: Sources, day: Days, st: {"QUEUED", "RUNNING", "SUCCESS", "FAILED"}]

\* A source.crawl job.  src and day are its idempotency key, and its id in Redis.
Job == [run: Runs, src: Sources, day: Days]

ASSUME MaintenanceAssumption ==
  /\ None \notin Docs \cup Runs \cup Sources \cup Texts
  /\ None \notin Days /\ None \notin DocRow /\ None \notin RunRow /\ None \notin Job
  /\ Pages \subseteq Docs /\ OldDocs \subseteq Docs
  /\ LastDay \in Nat \ {0}
  /\ MaxScripts \in Nat

\* Mutant of Steps: the users are deleted while reports name them.
MutUsersFirst == [
  day      |-> <<"read", "findings", "dupes", "docs", "runs", "jobs", "queues">>,
  sources  |-> <<"read", "transaction", "jobs">>,
  all      |-> <<"reports", "findings", "dupes", "docs", "runs", "queues">>,
  training |-> <<"items", "reports", "findings", "dupes", "docs", "runs",
                 "users", "clients", "sources", "queues">>,
  client   |-> <<"read", "findings", "ready", "enqueue">>]

\* The statements of each script, in the code's order.
Steps == [
  day      |-> <<"read", "findings", "dupes", "docs", "runs", "jobs", "queues">>,
  sources  |-> <<"read", "transaction", "jobs">>,
  all      |-> <<"reports", "findings", "dupes", "docs", "runs", "queues">>,
  training |-> <<"items", "reports", "findings", "dupes", "docs", "runs",
                 "clients", "sources", "users", "queues">>,
  client   |-> <<"read", "findings", "ready", "enqueue">>]

VARIABLES
  today,       \* the civil day, in the source's time zone
  doc,         \* documents: None, or the row
  finding,     \* findings, by document: None, or the day of created_at
  runRow,      \* job_runs: None, or the row
  sources,     \* sources that exist
  client,      \* the client exists
  analyst,     \* the user who is not the seed ADMIN exists
  report,      \* a report the analyst generated exists
  items,       \* documents whose finding is an item of it
  crawlJobs,   \* source.crawl jobs that wait, by run
  crawler,     \* the crawl handler
  normJobs,    \* document.extract and document.normalize_dedup jobs that wait
  normalizer,  \* the handler of those queues
  classJobs,   \* document.classify jobs that wait
  classifier,  \* its handler
  script,      \* the script that runs, with what it has read
  started      \* scripts started so far

tables == <<doc, finding, runRow, sources, client, analyst, report, items>>
redis  == <<crawlJobs, normJobs, classJobs>>
worker == <<crawler, normalizer, classifier>>
vars == <<today, tables, redis, worker, script, started>>

\* Mutant of Row: a status that no code reads.
MutRow(st, src, day) ==
  [st |-> "SAVED", canon |-> None, run |-> None, src |-> src, day |-> day,
   hash |-> FALSE, err |-> FALSE]

\* A new row of documents.
Row(st, src, day) ==
  [st |-> st, canon |-> None, run |-> None, src |-> src, day |-> day,
   hash |-> FALSE, err |-> FALSE]

\* held: Redis still has the job the handler works on, locked.  meta: meta.json is saved.
NoCrawl == [job |-> None, doc |-> None, meta |-> FALSE, held |-> FALSE]
NoNorm  == [doc |-> None, canon |-> None, held |-> FALSE]
NoClass == [doc |-> None, pc |-> "idle", held |-> FALSE]

\* asked: documents reclassify-client has asked the API for.  late: those that the others
\* changed behind the script's back.
NoScript == [kind |-> "none", at |-> 0, day |-> 0, src |-> None,
             docs |-> {}, jobs |-> {}, asked |-> {}, late |-> {}, end |-> "done"]

TypeOK ==
  /\ today \in Days
  /\ doc \in [Docs -> DocRow \cup {None}]
  /\ finding \in [Docs -> Days \cup {None}]
  /\ runRow \in [Runs -> RunRow \cup {None}]
  /\ sources \subseteq Sources
  /\ client \in BOOLEAN /\ analyst \in BOOLEAN /\ report \in BOOLEAN
  /\ items \subseteq Docs
  /\ crawlJobs \subseteq Job
  /\ normJobs \subseteq Docs
  /\ classJobs \subseteq Docs
  /\ crawler \in [job: Job, doc: Docs \cup {None}, meta: BOOLEAN, held: BOOLEAN] \cup {NoCrawl}
  /\ normalizer \in [doc: Docs \cup {None}, canon: Docs \cup {None}, held: BOOLEAN]
  /\ classifier \in [doc: Docs, pc: {"upsert", "mark", "fail"}, held: BOOLEAN] \cup {NoClass}
  /\ script \in [kind: Kinds \cup {"none"}, at: 0..10, day: 0..LastDay,
                 src: Sources \cup {None}, docs: SUBSET Docs, jobs: SUBSET Job,
                 asked: SUBSET Docs, late: SUBSET Docs, end: {"no", "done", "stopped"}]
  /\ started \in 0..MaxScripts

Init ==
  /\ today = 1
  /\ doc = [d \in Docs |-> None]
  /\ finding = [d \in Docs |-> None]
  /\ runRow = [r \in Runs |-> None]
  /\ sources = Sources
  /\ client = TRUE
  /\ analyst = TRUE
  /\ report = FALSE
  /\ items = {}
  /\ crawlJobs = {}
  /\ crawler = NoCrawl
  /\ normJobs = {}
  /\ normalizer = NoNorm
  /\ classJobs = {}
  /\ classifier = NoClass
  /\ script = NoScript
  /\ started = 0

-----------------------------------------------------------------------------
(* The tables.                                                             *)

Present == {d \in Docs : doc[d] # None}
Stored(d) == d \in Present

\* A table of documents without some of them: the duplicates that stay lose their
\* canonical (SetNull).
DocsWithout(table, S) ==
  [d \in Docs |-> IF table[d] = None \/ d \in S THEN None
                  ELSE IF table[d].canon \in S THEN [table[d] EXCEPT !.canon = None]
                  ELSE table[d]]

\* The same without some runs: their documents stay, without a run (SetNull).
Unlinked(table, R) ==
  [d \in Docs |-> IF table[d] # None /\ table[d].run \in R
                    THEN [table[d] EXCEPT !.run = None] ELSE table[d]]

\* Deleting findings takes the items of the report that show them (Cascade).
DropFindings(S) ==
  /\ finding' = [d \in Docs |-> IF d \in S THEN None ELSE finding[d]]
  /\ items' = items \ S

\* Deleting documents takes their findings (Cascade).
DropDocs(S) ==
  /\ doc' = DocsWithout(doc, S)
  /\ DropFindings(S)

DropRuns(R) ==
  /\ runRow' = [r \in Runs |-> IF r \in R THEN None ELSE runRow[r]]
  /\ doc' = Unlinked(doc, R)

-----------------------------------------------------------------------------
(* The worker, and what the API does meanwhile.                            *)

Midnight ==
  /\ today < LastDay
  /\ today' = today + 1
  /\ UNCHANGED <<tables, redis, worker, script, started>>

RunsOf(s, day) == {r \in Runs : runRow[r] # None /\ runRow[r].src = s /\ runRow[r].day = day}
ToRun(r, s, day) == [run |-> r, src |-> s, day |-> day]

\* Redis has the job of a key, waiting or locked by its handler.
InFlight(s, day) ==
  \E j \in crawlJobs \cup (IF crawler.held THEN {crawler.job} ELSE {}) :
    j.src = s /\ j.day = day

\* An id no row, job or script mentions.
Fresh(r) ==
  /\ runRow[r] = None
  /\ \A d \in Present : doc[d].run # r
  /\ \A j \in crawlJobs \cup script.jobs : j.run # r
  /\ crawler.job # None => crawler.job.run # r

\* The producer leaves alone a day that succeeded or whose job is in flight; it queues
\* the run of the day again, or creates it.
EnqueueCrawl(s) ==
  LET same == RunsOf(s, today)
  IN  /\ s \in sources
      /\ \A r \in same : runRow[r].st # "SUCCESS"
      /\ ~InFlight(s, today)
      /\ \E r \in IF same # {} THEN same
                    ELSE IF \E q \in Runs : Fresh(q) THEN {CHOOSE q \in Runs : Fresh(q)} ELSE {} :
           /\ runRow' = [runRow EXCEPT ![r] = [src |-> s, day |-> today, st |-> "QUEUED"]]
           /\ crawlJobs' = crawlJobs \cup {ToRun(r, s, today)}
      /\ UNCHANGED <<today, doc, finding, sources, client, analyst, report, items,
                     normJobs, classJobs, worker, script, started>>

\* The handler returns at once when the run of its key succeeded.  Otherwise it marks the
\* run of its payload RUNNING: without that row it throws, on every attempt.
CrawlStarts(j) ==
  /\ crawler = NoCrawl
  /\ j \in crawlJobs
  /\ crawlJobs' = crawlJobs \ {j}
  /\ IF runRow[j.run] = None \/ \E r \in RunsOf(j.src, j.day) : runRow[r].st = "SUCCESS"
       THEN UNCHANGED <<runRow, crawler>>
       ELSE /\ runRow' = [runRow EXCEPT ![j.run].st = "RUNNING"]
            /\ crawler' = [job |-> j, doc |-> None, meta |-> FALSE, held |-> TRUE]
  /\ UNCHANGED <<today, doc, finding, sources, client, analyst, report, items,
                 normJobs, classJobs, normalizer, classifier, script, started>>

RunExists == runRow[crawler.job.run] # None

\* A throw in the handler: fail() closes the run, if it is there, and BullMQ tries the
\* job again, if Redis still has it and attempts are left.
CrawlThrows ==
  /\ runRow' = IF RunExists THEN [runRow EXCEPT ![crawler.job.run].st = "FAILED"] ELSE runRow
  /\ \/ UNCHANGED crawlJobs
     \/ crawler.held /\ crawlJobs' = crawlJobs \cup {crawler.job}
  /\ crawler' = NoCrawl

\* A new row: its id is in no table, job, handler or script.
FreshDoc(d) ==
  /\ ~Stored(d)
  /\ d \notin normJobs \cup classJobs \cup script.docs \cup script.late
  /\ d \notin {normalizer.doc, normalizer.canon, classifier.doc}

\* saveRaw creates the row of a file, whose source must exist.  JSON is DISCARDED.  After
\* a reset of the day what a handler without its run saves is late.
SaveRaw(d, st) ==
  /\ crawler.job # None
  /\ crawler.doc = None
  /\ ~crawler.meta
  /\ crawler.job.src = SourceOf[d] /\ SourceOf[d] \in sources
  /\ FreshDoc(d)
  /\ doc' = [doc EXCEPT ![d] = Row(st, SourceOf[d], today)]
  /\ script' = IF script.end = "done" /\ script.kind = "day" /\ ~RunExists
                 THEN [script EXCEPT !.late = @ \cup {d}] ELSE script
  /\ UNCHANGED <<today, finding, runRow, sources, client, analyst, report, items,
                 redis, normalizer, classifier, started>>

\* A page to extract is what enqueueDocumentExtract goes on with; for another file it
\* returns at once.
CrawlSaves(d) ==
  IF d \in Pages
    THEN /\ SaveRaw(d, "RECEIVED")
         /\ crawler' = [crawler EXCEPT !.doc = d]
    ELSE /\ \E st \in {"RECEIVED", "DISCARDED"} : SaveRaw(d, st)
         /\ UNCHANGED crawler

\* The metadata of the crawl is saved after the pages.
CrawlSavesMeta(d) ==
  /\ d \notin Pages
  /\ SaveRaw(d, "DISCARDED")
  /\ crawler' = [crawler EXCEPT !.meta = TRUE]

\* Without its source nothing can be saved.
SaveFails ==
  /\ crawler.job # None
  /\ crawler.doc = None
  /\ ~crawler.meta
  /\ crawler.job.src \notin sources
  /\ CrawlThrows
  /\ UNCHANGED <<today, doc, finding, sources, client, analyst, report, items,
                 normJobs, classJobs, normalizer, classifier, script, started>>

\* Mutant of Linkable: the run need not be there.
MutLinkable(d) == Stored(d)

\* What enqueueDocumentExtract needs to link a document to the run of the handler.
Linkable(d) == Stored(d) /\ RunExists

\* enqueueDocumentExtract links the document first, and then enqueues it; that Redis does
\* not take the job is only logged.
CrawlLinks ==
  LET d == crawler.doc
  IN  /\ d # None
      /\ IF Linkable(d)
           THEN /\ doc' = [doc EXCEPT ![d].run = crawler.job.run]
                /\ normJobs' \in {normJobs \cup {d}, normJobs}
                /\ crawler' = [crawler EXCEPT !.doc = None]
                /\ UNCHANGED <<runRow, crawlJobs>>
           ELSE /\ CrawlThrows
                /\ UNCHANGED <<doc, normJobs>>
      /\ UNCHANGED <<today, finding, sources, client, analyst, report, items,
                     classJobs, normalizer, classifier, script, started>>

CrawlEnds ==
  /\ crawler.meta
  /\ IF RunExists
       THEN /\ runRow' = [runRow EXCEPT ![crawler.job.run].st = "SUCCESS"]
            /\ crawler' = NoCrawl
            /\ UNCHANGED crawlJobs
       ELSE CrawlThrows
  /\ UNCHANGED <<today, doc, finding, sources, client, analyst, report, items,
                 normJobs, classJobs, normalizer, classifier, script, started>>

\* Extraction, and the search of a canonical document with the same text.
NormalizeFinds(d) ==
  LET canonicals == {c \in Present \ {d} : /\ TextOf[c] = TextOf[d]
                                           /\ doc[c].canon = None
                                           /\ doc[c].st \in {"CLASSIFIED", "READY_FOR_AI"}}
  IN  /\ normalizer = NoNorm
      /\ d \in normJobs
      /\ normJobs' = normJobs \ {d}
      /\ IF Stored(d)
           THEN \E c \in IF canonicals = {} THEN {None} ELSE canonicals :
                  normalizer' = [doc |-> d, canon |-> c, held |-> TRUE]
           ELSE UNCHANGED normalizer
      /\ UNCHANGED <<today, tables, crawlJobs, classJobs, crawler, classifier, script, started>>

\* The unique index: rows with the content hash of d that are nobody's duplicate.
Holders(d) ==
  {c \in Present \ {d} : TextOf[c] = TextOf[d] /\ doc[c].hash /\ doc[c].canon = None}

\* The index refuses the document as canonical (P2002), and the handler reads who has the
\* hash: one that the search had left out.
NormalizeLoses ==
  LET d == normalizer.doc
  IN  /\ d # None /\ normalizer.canon = None
      /\ Stored(d)
      /\ \E c \in Holders(d) : normalizer' = [normalizer EXCEPT !.canon = c]
      /\ UNCHANGED <<today, tables, redis, crawler, classifier, script, started>>

\* A canonical that is gone by then breaks the foreign key, and the document is FAILED.
NormalizeWrites ==
  LET d == normalizer.doc
      c == normalizer.canon
      dedup == c # None /\ Stored(d) /\ Stored(c)
  IN  /\ d # None
      /\ c = None /\ Stored(d) => Holders(d) = {}
      /\ normalizer' = NoNorm
      /\ doc' = IF ~Stored(d) THEN doc
                ELSE IF c = None
                  THEN [doc EXCEPT ![d] = [@ EXCEPT !.st = "READY_FOR_AI", !.hash = TRUE,
                                                    !.err = FALSE]]
                ELSE IF dedup
                  THEN [doc EXCEPT ![d] = [@ EXCEPT !.st = "DEDUPED", !.canon = c,
                                                    !.hash = TRUE, !.err = FALSE]]
                ELSE [doc EXCEPT ![d] = [@ EXCEPT !.st = "FAILED", !.err = TRUE]]
      /\ classJobs' = IF Stored(d) /\ c = None THEN classJobs \cup {d} ELSE classJobs
      /\ script' = IF dedup /\ script.end = "no" /\ script.kind \in {"day", "all", "training"}
                     THEN [script EXCEPT !.late = @ \cup {d}] ELSE script
      /\ UNCHANGED <<today, finding, runRow, sources, client, analyst, report, items,
                     crawlJobs, normJobs, crawler, classifier, started>>

\* A document that is not ready, or is a duplicate, is skipped; for an old one, or one
\* without a source or a client linked to it, nothing is asked of OpenAI.
ClassifyStarts(d) ==
  /\ classifier = NoClass
  /\ d \in classJobs
  /\ classJobs' = classJobs \ {d}
  /\ IF /\ Stored(d)
        /\ doc[d].canon = None
        /\ doc[d].st \in {"READY_FOR_AI", "CLASSIFIED"}
       THEN classifier' = [doc |-> d, held |-> TRUE,
                           pc |-> IF d \notin OldDocs /\ doc[d].src # None /\ client
                                    THEN "upsert" ELSE "mark"]
       ELSE UNCHANGED classifier
  /\ UNCHANGED <<today, tables, crawlJobs, normJobs, crawler, normalizer, script, started>>

\* The upsert keeps created_at of a finding that exists.
ClassifyUpserts ==
  LET d == classifier.doc
  IN  /\ classifier.pc = "upsert"
      /\ Stored(d) /\ client /\ SourceOf[d] \in sources
      /\ finding' = [finding EXCEPT ![d] = IF @ = None THEN today ELSE @]
      /\ classifier' = [classifier EXCEPT !.pc = "mark"]
      /\ UNCHANGED <<today, doc, runRow, sources, client, analyst, report, items,
                     redis, crawler, normalizer, script, started>>

\* OpenAI does not answer or cannot be used, its answer cannot be read, or, with the
\* document, the client or the source gone, the upsert breaks a foreign key.  setLastError
\* notes it, and it is thrown: the job is tried again, or its attempts are over, or it is
\* given up at once (UnrecoverableError, or Redis has it no more).
ClassifyFails ==
  LET d == classifier.doc
  IN  /\ classifier.pc = "upsert"
      /\ doc' = IF Stored(d) THEN [doc EXCEPT ![d].err = TRUE] ELSE doc
      /\ \/ /\ classifier.held
            /\ classJobs' = classJobs \cup {d}
            /\ classifier' = NoClass
         \/ /\ classifier.held
            /\ classifier' = [classifier EXCEPT !.pc = "fail", !.held = FALSE]
            /\ UNCHANGED classJobs
         \/ /\ classifier' = NoClass
            /\ UNCHANGED classJobs
      /\ UNCHANGED <<today, finding, runRow, sources, client, analyst, report, items,
                     crawlJobs, normJobs, crawler, normalizer, script, started>>

\* The failed event of the last attempt.
FailIfClassifying ==
  LET d == classifier.doc
  IN  /\ classifier.pc = "fail"
      /\ classifier' = NoClass
      /\ doc' = IF Stored(d) /\ doc[d].st = "READY_FOR_AI"
                  THEN [doc EXCEPT ![d] = [@ EXCEPT !.st = "FAILED", !.err = TRUE]] ELSE doc
      /\ UNCHANGED <<today, finding, runRow, sources, client, analyst, report, items,
                     redis, crawler, normalizer, script, started>>

\* markClassified writes the status whatever it is by now.
MarksClassified ==
  LET d == classifier.doc
  IN  /\ classifier.pc = "mark"
      /\ classifier' = NoClass
      /\ doc' = IF Stored(d)
                  THEN [doc EXCEPT ![d] = [@ EXCEPT !.st = "CLASSIFIED", !.err = FALSE]] ELSE doc
      /\ UNCHANGED <<today, finding, runRow, sources, client, analyst, report, items,
                     redis, crawler, normalizer, script, started>>

\* The analyst generates a report of the client's findings.
CreateReport ==
  /\ client
  /\ analyst
  /\ ~report
  /\ report' = TRUE
  /\ items' = {d \in Docs : finding[d] # None}
  /\ UNCHANGED <<today, doc, finding, runRow, sources, client, analyst,
                 redis, worker, script, started>>

Worker ==
  \/ \E j \in crawlJobs : CrawlStarts(j)
  \/ \E d \in Docs : CrawlSaves(d) \/ CrawlSavesMeta(d) \/ NormalizeFinds(d) \/ ClassifyStarts(d)
  \/ SaveFails \/ CrawlLinks \/ CrawlEnds
  \/ NormalizeLoses \/ NormalizeWrites
  \/ ClassifyUpserts \/ ClassifyFails \/ FailIfClassifying \/ MarksClassified

-----------------------------------------------------------------------------
(* The scripts.                                                            *)

Running == script.end = "no"

\* The statement a script of some kind is about to execute.
Now(kinds, step) ==
  /\ Running
  /\ script.kind \in kinds
  /\ Steps[script.kind][script.at] = step

IsLast == script.at = Len(Steps[script.kind])

\* What reclassify-client has read, and what became of it, is kept for the properties.
AtEnd(changed) ==
  IF script.kind = "client" THEN [changed EXCEPT !.end = "done"]
  ELSE [changed EXCEPT !.end = "done", !.docs = {}, !.jobs = {}, !.late = {}]

\* The script goes on with its next statement, or ends.
Continues(changed) ==
  script' = IF IsLast THEN AtEnd(changed) ELSE [changed EXCEPT !.at = @ + 1]

\* An argument that names no day or no source never gets here; without --yes the wipe and
\* the reclassification only count.
Begin(kind) ==
  /\ ~Running
  /\ started < MaxScripts
  /\ started' = started + 1
  /\ \E day \in IF kind = "day" THEN 1..today ELSE {0} :
       \E s \in IF kind = "sources" THEN sources ELSE {None} :
         script' = [NoScript EXCEPT !.kind = kind, !.at = 1, !.day = day, !.src = s,
                                    !.end = "no"]
  /\ UNCHANGED <<today, tables, redis, worker>>

Aborts ==
  script' = [script EXCEPT !.end = "stopped", !.docs = {}, !.jobs = {}, !.asked = {}]

\* The process is killed, or a query fails: the script ends where it is.
Stops ==
  /\ Running
  /\ Aborts
  /\ UNCHANGED <<today, tables, redis, worker, started>>

\* The documents of a day are those created on it and those its runs brought.
RunsOfDay(day) == {r \in Runs : runRow[r] # None /\ runRow[r].day = day}
OfDay(d, day) == Stored(d) /\ (doc[d].day = day \/ doc[d].run \in RunsOfDay(day))
DayJobs(day) == {ToRun(r, runRow[r].src, day) : r \in RunsOfDay(day)}

RunsOfSource(s) == {r \in Runs : runRow[r] # None /\ runRow[r].src = s}
SourceJobs(s) == {ToRun(r, s, runRow[r].day) : r \in RunsOfSource(s)}

\* With their duplicates, of whatever day or source.
WithDuplicates(S) == S \cup {d \in Present : doc[d].canon \in S}

ReadScope ==
  /\ Now({"day", "sources"}, "read")
  /\ LET day == script.kind = "day"
         own == IF day THEN {d \in Docs : OfDay(d, script.day)}
                ELSE {d \in Present : SourceOf[d] = script.src}
     IN  Continues([script EXCEPT !.docs = WithDuplicates(own),
                                  !.jobs = IF day THEN DayJobs(script.day)
                                           ELSE SourceJobs(script.src)])
  /\ UNCHANGED <<tables, redis>>

\* reclassify-client reads the documents that have a finding of the client.
ReadClient ==
  /\ Now({"client"}, "read")
  /\ IF client
       THEN Continues([script EXCEPT !.docs = {d \in Docs : finding[d] # None}])
       ELSE Aborts
  /\ UNCHANGED <<tables, redis>>

\* The day's findings are those of its documents and those written on that day.
DeleteFindings ==
  /\ Now(Kinds, "findings")
  /\ DropFindings(IF script.kind = "day"
                    THEN script.docs \cup {d \in Docs : finding[d] = script.day} ELSE Docs)
  /\ Continues(script)
  /\ UNCHANGED <<doc, runRow, sources, client, analyst, report, redis>>

\* Mutant of DuplicatesToDelete: the script of a day deletes every duplicate.
MutDuplicatesToDelete == {d \in Present : doc[d].canon # None}

\* Mutant of DuplicatesToDelete: only those the script had read.
MutDuplicatesRead ==
  {d \in Present : IF script.kind = "day" THEN d \in script.docs /\ doc[d].canon \in script.docs
                   ELSE doc[d].canon # None}

\* Duplicates of the documents of the day, or all there are.
DuplicatesToDelete ==
  {d \in Present : IF script.kind = "day" THEN doc[d].canon \in script.docs
                   ELSE doc[d].canon # None}

\* The duplicates go before their canonicals.  From here on a duplicate is late.
DeleteDuplicates ==
  /\ Now({"day", "all", "training"}, "dupes")
  /\ DropDocs(DuplicatesToDelete)
  /\ Continues([script EXCEPT !.late = {}])
  /\ UNCHANGED <<runRow, sources, client, analyst, report, redis>>

\* The unique index of a table of documents.
OneCanonical(table) ==
  \A d, e \in {c \in Docs : table[c] # None /\ table[c].hash /\ table[c].canon = None} :
    TextOf[d] = TextOf[e] => d = e

\* Two late duplicates of one document cannot both lose it: the delete fails (see Stops).
DeleteDocuments ==
  LET own == IF script.kind = "day" THEN script.docs ELSE Docs
  IN  /\ Now({"day", "all", "training"}, "docs")
      /\ OneCanonical(DocsWithout(doc, own))
      /\ DropDocs(own)
      /\ Continues(script)
      /\ UNCHANGED <<runRow, sources, client, analyst, report, redis>>

DeleteRuns ==
  /\ Now({"day", "all", "training"}, "runs")
  /\ DropRuns(IF script.kind = "day" THEN {j.run : j \in script.jobs} ELSE Runs)
  /\ Continues(script)
  /\ UNCHANGED <<finding, sources, client, analyst, report, items, redis>>

\* reset-crawl of some sources: the one script with a transaction.
DeleteSourceRows ==
  /\ Now({"sources"}, "transaction")
  /\ LET own == RunsOfSource(script.src)
     IN  /\ doc' = Unlinked(DocsWithout(doc, WithDuplicates(script.docs)), own)
         /\ runRow' = [r \in Runs |-> IF r \in own THEN None ELSE runRow[r]]
         /\ DropFindings(IF script.docs = {} THEN {}
                         ELSE WithDuplicates(script.docs) \cup {d \in Docs : SourceOf[d] = script.src})
  /\ Continues(script)
  /\ UNCHANGED <<sources, client, analyst, report, redis>>

DeleteItems ==
  /\ Now({"training"}, "items")
  /\ items' = {}
  /\ Continues(script)
  /\ UNCHANGED <<doc, finding, runRow, sources, client, analyst, report, redis>>

DeleteReports ==
  /\ Now({"all", "training"}, "reports")
  /\ report' = FALSE
  /\ items' = {}
  /\ Continues(script)
  /\ UNCHANGED <<doc, finding, runRow, sources, client, analyst, redis>>

\* Mutant of WithClient: nothing is deleted with its client.
MutKeptByClient == {}

\* Findings and reports are deleted with their client (Cascade).
WithClient == Docs

\* The client takes its findings and reports with it.
DeleteClients ==
  /\ Now({"training"}, "clients")
  /\ client' = FALSE
  /\ report' = FALSE
  /\ DropFindings(WithClient)
  /\ Continues(script)
  /\ UNCHANGED <<doc, runRow, sources, analyst, redis>>

\* Documents stay without a source (SetNull).
DeleteSources ==
  /\ Now({"training"}, "sources")
  /\ sources' = {}
  /\ doc' = [d \in Docs |-> IF Stored(d) THEN [doc[d] EXCEPT !.src = None] ELSE None]
  /\ Continues(script)
  /\ UNCHANGED <<finding, runRow, client, analyst, report, items, redis>>

\* A report of the analyst would hold the user back (Restrict).
UsersAreFree == ~report

DeleteUsers ==
  /\ Now({"training"}, "users")
  /\ IF UsersAreFree
       THEN analyst' = FALSE /\ Continues(script)
       ELSE Aborts /\ UNCHANGED analyst
  /\ UNCHANGED <<doc, finding, runRow, sources, client, report, items, redis>>

\* removeJobs removes the waiting jobs of the runs and then those of the documents.  A job
\* its handler has locked cannot be removed, which ends the removal where it is, and so
\* does Redis when it does not answer.
RemoveJobs ==
  LET ours == crawlJobs \cap script.jobs
      crawlLocked == crawler.held /\ crawler.job \in script.jobs
      docLocked == \/ normalizer.held /\ normalizer.doc \in script.docs
                   \/ classifier.held /\ classifier.doc \in script.docs
  IN  /\ Now({"day", "sources"}, "jobs")
      /\ \/ /\ \E S \in SUBSET ours : crawlJobs' = crawlJobs \ S
            /\ UNCHANGED <<normJobs, classJobs>>
         \/ /\ ~crawlLocked
            /\ crawlJobs' = crawlJobs \ ours
            /\ \E S \in IF docLocked THEN SUBSET script.docs ELSE {script.docs} :
                 /\ normJobs' = normJobs \ S
                 /\ classJobs' = classJobs \ S
      /\ Continues(script)
      /\ UNCHANGED <<tables, worker>>

\* Redis may not answer, or stop answering after some of the queues: withRedis only warns.
QueuesEmptied == 0..3

\* obliterateQueues empties a queue after the other, the locked jobs too, whose handlers go
\* on.
ObliterateQueues ==
  /\ Now({"day", "all", "training"}, "queues")
  /\ \E n \in QueuesEmptied :
       /\ crawlJobs' = IF n > 0 THEN {} ELSE crawlJobs
       /\ crawler' = IF n > 0 THEN [crawler EXCEPT !.held = FALSE] ELSE crawler
       /\ normJobs' = IF n > 1 THEN {} ELSE normJobs
       /\ normalizer' = IF n > 1 THEN [normalizer EXCEPT !.held = FALSE] ELSE normalizer
       /\ classJobs' = IF n > 2 THEN {} ELSE classJobs
       /\ classifier' = IF n > 2 THEN [classifier EXCEPT !.held = FALSE] ELSE classifier
  /\ Continues(script)
  /\ UNCHANGED tables

\* reclassify-client puts its documents back to READY_FOR_AI.
MakeReady ==
  /\ Now({"client"}, "ready")
  /\ doc' = [d \in Docs |->
               IF /\ d \in script.docs
                  /\ Stored(d)
                  /\ doc[d].canon = None
                  /\ doc[d].st \in {"CLASSIFIED", "READY_FOR_AI"}
                 THEN [doc[d] EXCEPT !.st = "READY_FOR_AI", !.err = FALSE] ELSE doc[d]]
  /\ Continues(script)
  /\ UNCHANGED <<finding, runRow, sources, client, analyst, report, items, redis>>

Reclassifiable(d) ==
  Stored(d) /\ doc[d].canon = None /\ doc[d].st \in {"READY_FOR_AI", "CLASSIFIED"}

\* Mutant of AllAsked: the last document is left out.
MutAllAsked == Cardinality(script.docs \ script.asked) <= 1

AllAsked == script.docs \subseteq script.asked

\* It asks the API for each of them, in any order.  The first refusal ends the script.  A
\* job its handler has locked stays the one there is: the document is late.
EnqueueClassify ==
  /\ Now({"client"}, "enqueue")
  /\ IF AllAsked THEN Continues(script) /\ UNCHANGED classJobs
     ELSE \E d \in script.docs \ script.asked :
       IF ~Reclassifiable(d)
         THEN Aborts /\ UNCHANGED classJobs
       ELSE IF classifier.held /\ classifier.doc = d
         THEN /\ script' = [script EXCEPT !.asked = @ \cup {d}, !.late = @ \cup {d}]
              /\ UNCHANGED classJobs
       ELSE /\ script' = [script EXCEPT !.asked = @ \cup {d}]
            /\ classJobs' = classJobs \cup {d}
  /\ UNCHANGED <<tables, crawlJobs, normJobs>>

Script ==
  \/ /\ \/ ReadScope \/ ReadClient \/ DeleteFindings \/ DeleteDuplicates \/ DeleteDocuments
        \/ DeleteRuns \/ DeleteSourceRows \/ DeleteItems \/ DeleteReports \/ DeleteClients
        \/ DeleteSources \/ DeleteUsers \/ MakeReady \/ EnqueueClassify
     /\ UNCHANGED <<today, worker, started>>
  \/ RemoveJobs /\ UNCHANGED <<today, started>>
  \/ ObliterateQueues /\ UNCHANGED <<today, started>>

Next ==
  \/ Worker
  \/ Script
  \/ \E s \in Sources : EnqueueCrawl(s)
  \/ Midnight
  \/ CreateReport
  \/ \E kind \in Kinds : Begin(kind)
  \/ Stops

Spec == Init /\ [][Next]_vars

-----------------------------------------------------------------------------
(* What the properties rest on, of any script and at any statement of it.  *)

\* The script has executed a statement.
Executed(step) ==
  \E i \in 1..script.at :
    Steps[script.kind][i] = step /\ (i < script.at \/ script.end = "done")

ScriptInv ==
  /\ script.kind \in Kinds => script.at \in 1..Len(Steps[script.kind])
  /\ script.kind = "none" => script.at = 0 /\ script.end = "done"
  /\ script.kind \in Kinds /\ script.end = "done" => script.at = Len(Steps[script.kind])
  /\ script.kind \in {"day", "sources"} /\ script.end # "no" => script.docs = {}

\* A document is normalized once: until then it is RECEIVED, is no duplicate, is in the
\* hands of one, and is not classified.
PendingInv ==
  /\ \A d \in Present :
       /\ d \in normJobs \cup {crawler.doc, normalizer.doc} => doc[d].st = "RECEIVED"
       /\ d = crawler.doc => doc[d].run = None
       /\ d \in classJobs \cup {classifier.doc} => doc[d].st # "RECEIVED"
       /\ doc[d].st = "RECEIVED" => doc[d].canon = None /\ ~doc[d].hash
  /\ crawler.doc # None => crawler.doc \notin normJobs \cup {normalizer.doc}
  /\ normalizer.doc \notin normJobs

\* So a canonical document is none's duplicate, and stays as long as its duplicates.
Canonical(c) == Stored(c) /\ doc[c].canon = None /\ doc[c].st # "RECEIVED"

CanonInv ==
  /\ \A d \in Present : doc[d].canon # None => Canonical(doc[d].canon)
  /\ normalizer.canon # None /\ Stored(normalizer.canon) => Canonical(normalizer.canon)

\* What a script of a day or a source may delete.
Own(d) == IF script.kind = "day" THEN OfDay(d, script.day) ELSE SourceOf[d] = script.src
InScope(d) == Own(d) \/ (doc[d].canon # None /\ Own(doc[d].canon))

\* What it has read is still that, or gone; once the duplicates are deleted, another
\* duplicate of what it has read is a late one.
ScopeInv ==
  /\ script.kind \in {"day", "sources"} => \A d \in Present : d \in script.docs => InScope(d)
  /\ script.kind = "day" =>
       /\ Executed("docs") => Present \cap script.docs = {}
       /\ Executed("dupes") =>
            \A d \in Present : doc[d].canon \in script.docs => d \in script.late

\* What the wipe has deleted does not come back.
WipeInv ==
  script.kind = "training" =>
    /\ Executed("clients") => ~client /\ ~report /\ items = {} /\ \A d \in Docs : finding[d] = None
    /\ Executed("sources") => sources = {} /\ \A d \in Present : doc[d].src = None
    /\ Executed("users") => ~analyst

\* After the reset of a day only the handler it interrupted can save a file whose run is
\* gone, and a page to extract is the last it saves.
StrayInv ==
  script.kind = "day" /\ script.end = "done" =>
    /\ \A d, e \in script.late \cap Pages : d = e
    /\ script.late \cap Pages # {} /\ crawler # NoCrawl =>
         (RunExists <=> crawler.doc \notin script.late)

\* A document that reclassify-client has asked for waits for a classification that will ask
\* OpenAI, or is in it, or it is over.
Rebuilding(d) ==
  \/ finding[d] # None
  \/ doc[d].err /\ ~(classifier.doc = d /\ classifier.pc = "mark")
  \/ Reclassifiable(d) /\ d \in classJobs
  \/ classifier.doc = d /\ classifier.pc = "upsert"

\* Documents lose their source after the client is deleted, which is never there again.
AskedInv ==
  /\ client => \A d \in Present : doc[d].src # None
  /\ script.kind = "client" =>
       /\ Executed("read") => client
       /\ script.asked # {} => IsLast
       /\ script.end = "done" => AllAsked
       /\ \A d \in script.asked :
            Canonical(d) /\ (d \notin script.late \cup OldDocs => Rebuilding(d))

MaintenanceInv ==
  ScriptInv /\ PendingInv /\ CanonInv /\ ScopeInv /\ WipeInv /\ StrayInv /\ AskedInv

-----------------------------------------------------------------------------
(* Properties.                                                             *)

\* The crawl that the reset of a day interrupts goes on without its run, and brings back at
\* most one page to extract of those it has fetched: enqueueDocumentExtract cannot link it,
\* and throws.  JSON, images and the metadata do not stop the handler.  (That emptying the
\* queues keeps the pipeline from writing the day again, reset-crawl.ts:268, holds but for
\* these.)
OnePageComesBack ==
  script.kind = "day" /\ script.end = "done" => Cardinality(script.late \cap Pages) <= 1

\* A reset of a day or of a source deletes documents of that day or source and their
\* duplicates, and no others, whatever is crawled and deduplicated meanwhile.
OthersAreKept ==
  [][\A d \in Present :
       script.kind \in {"day", "sources"} /\ Running /\ doc'[d] = None => InScope(d)]_vars

\* No script leaves a duplicate without its canonical document, except one that became
\* a duplicate after the script had deleted the duplicates.
OnlyLateDuplicatesAreOrphaned ==
  [][\A d \in Present :
       /\ doc[d].canon # None
       /\ doc'[d] # None
       /\ doc'[d].canon = None
       => d \in script.late]_vars

\* When the wipe comes to the users no report holds one of them back, though the API may
\* have written one since the reports were deleted: the clients went before.
UsersCanBeDeleted == Now({"training"}, "users") => UsersAreFree

\* After the wipe nothing of the business is left but documents and runs that a crawl
\* wrote meanwhile, and these have lost their source.
WipedMeansEmpty ==
  script.kind = "training" /\ script.end = "done" =>
    /\ sources = {}
    /\ ~client /\ ~analyst /\ ~report
    /\ items = {}
    /\ \A d \in Docs : finding[d] = None
    /\ \A d \in Present : doc[d].src = None

\* reclassify-client loses no finding silently.  When it has ended, each document whose
\* finding it deleted has one again, or is waiting for its classification or in it, or
\* shows in last_error why it failed; but for a document older than CRAWL_MIN_YEAR, and one
\* that was being classified when the script asked for it.
ReclassifiedIsRebuilt ==
  script.kind = "client" /\ script.end = "done" =>
    \A d \in script.docs \ (script.late \cup OldDocs) :
      \/ finding[d] # None
      \/ d \in classJobs \cup {classifier.doc}
      \/ Stored(d) /\ doc[d].err

=============================================================================
