# NORMA backend: formal models, checks and proofs

This directory holds TLA+ models of the NORMA backend (NestJS, Postgres through Prisma,
BullMQ on Redis), the TLC configurations that check them on small instances, and proofs
for every instance that TLAPS checks.

    tlc -config PipelineCrash.cfg MCDocPipeline.tla     # one run
    tlapm DocPipeline_proofs.tla                        # the proofs of one component

## 1. The system

Two processes are built from one code base and share Postgres, Redis and the object
storage. `api` serves HTTP (`JOBS_WORKER=false`); `worker` consumes the queues and runs
the cron. Both can be replicated (PERFORMANCE.md speaks of "réplicas de `worker`").

    cron / admin --> source.crawl --> documents (RECEIVED)
                                        |  document.extract
                                        v
                                     EXTRACTED
                                        |  document.normalize_dedup
                                        v
                         DEDUPED  <--- hash ---> READY_FOR_AI
                                                    |  document.classify
                                                    v
                                    findings, CLASSIFIED --> reports, mail

Every job id is an idempotency key: BullMQ ignores an `add` whose id exists, which makes
the rows of Postgres and the jobs of Redis two states that must be kept in step by code
that awaits between them. That is where most of the hard behaviour is.

| Component | State | Operations | Interacts with | What makes it correct |
|---|---|---|---|---|
| extraction and dedup (`document-pipeline.service.ts`) | `documents` row: status, hash, canonical, text, error | `extract`, `normalizeDedup`, `failIfStatus` | producer, unique index of Postgres | one canonical per content; no chain of duplicates; no document left half way |
| classification (`document-classify.service.ts`) | `findings`, row status | `classify` (loop over clients), `failIfClassifying` | OpenAI, sent reports | CLASSIFIED only after the whole fan-out; only canonicals |
| job producer, queues | jobs in Redis | `enqueue*`, `prepareJob` | BullMQ | no wake-up lost, limits of attempts |
| processor | handlers in flight, `failed` events | handlers, `on*Failed` | all of the above | a final failure closes the row |
| recovery (`jobs-recovery.service.ts`) | none: one pass after a boot | requeue orphans, close crawls | rows and Redis | nothing stays half way after a crash |
| admin requests (`jobs.service.ts`, `documents.service.ts`) | none | extract, classify, reprocess | rows, producer | a stuck document can be put back |
| crawl producer, scheduler, day guard | `job_runs` row, job | `enqueueSource`, `tick` | cron, admin | a source is crawled once a day |
| crawl processor | `job_runs`, new documents | `handle`, `fail`, `onCrawlJobFailed` | connectors, storage | a run gets an outcome |
| site crawl (`site-crawl.ts`, `fetch-page.ts`, `discover-links.ts`) | frontier, visited URLs, counters, cookies | `crawlSite`, `fetchPage` | the web, crawl processor | it ends; its four limits; no page twice or out of scope |
| findings | rows: impact, excluded, text | exclude, include, rewrite | OpenAI | no edit lost |
| reports, mail, reopening | `reports`, `report_findings` | create, regenerate, send, discard | SMTP, storage | what is SENT was mailed |
| storage (`storage.service.ts`, `artifact-store.ts`) | a gate of three, objects | put, get, upload, sign | Supabase, crawl, extraction | few calls at once; a row has its object |
| schedule window | none | civil dates and hours, due times, ranges of a day | scheduler, boards, lists | an instant is in one day; a due day is crawled |
| progress boards | none | status and note of a source on a day | rows read in several queries | done means done; failures are shown |
| maintenance scripts (`reset-crawl.ts`, `reset-for-training.ts`, `reclassify-client.ts`) | what they have read | series of deletes and updates | rows and Redis, beside the live worker | destroy what they name and nothing else |
| clients, sources, users, auth, AI chat, health, seeds | rows | CRUD | | one write per request |

`PROJECT.json` lists every component with its status, and every hazard with the line
where it bites and the properties that cover it.

## 2. Modules

| Module | What it is |
|---|---|
| `ContentElection` | abstract specification: each content elects one document, once; the others become duplicates of it; only elected documents are analysed |
| `DocPipeline` | the three document queues, handlers, failures, recovery, the tail of the crawl and the admin requests |
| `MCDocPipeline` | values of its constants for TLC |
| `DocPipeline_proofs` | theorems about `DocPipeline` |
| `DocJobs_proofs` | more of them: those that rest on who runs a job |
| `CrawlJobs` | the crawl of one source on one day: producer, handler, failures, recovery |
| `MCCrawlJobs` | values of its constants for TLC |
| `CrawlJobs_proofs` | theorems about `CrawlJobs` |
| `Reports` | findings, reports and mail of one client: the classifier, the editors, and those who create, regenerate, send and discard |
| `MCReports` | values of its constants for TLC |
| `Reports_proofs` | theorems about `Reports` |
| `FetchPage` | one download: redirects with cookies, the second round without certificate checks, errors |
| `CrawlOutcome` | abstract specification: what a site crawl promises to the crawl job |
| `SiteCrawl` | the crawl of one site on top of `FetchPage` |
| `MCSiteCrawl` | a small web for TLC |
| `SiteCrawl_proofs` | theorems about `FetchPage` and `SiteCrawl` |
| `ObjectStore` | the gate, the retries, the bucket, and the row that follows an upload |
| `MCObjectStore` | values of its constants for TLC |
| `ObjectStore_proofs` | theorems about `ObjectStore` |
| `Maintenance` | the scripts, beside a worker that crawls, deduplicates and classifies |
| `MCMaintenance` | values of its constants for TLC |
| `Maintenance_proofs` | theorems about `Maintenance` |
| `ScheduleWindow` | operators: civil time, due times, the range of a day |
| `ProgressBoard` | operators: what the three boards say of a set of rows |
| `Panel` | composes the two: hours, crawls and pages go on while the boards are read |
| `MCPanel` | two zones, one of which changes its clocks, for TLC |
| `Panel_proofs` | theorems about the three |

The components meet in rows and are not composed into one module: `SiteCrawl` and
`ObjectStore` are what a handler of `CrawlJobs` does between RUNNING and its outcome,
`CrawlJobs` hands a stored document to `DocPipeline` (`SaveRaw`), which hands findings
to `Reports` (`UpsertFinding`). `Maintenance` and `Panel` act on the rows of several
components, and have the reads and writes of these that meet theirs, coarser than the
modules about them. Each module is closed by an environment that may do at any time what
its neighbour does, so that a composition would only remove behaviours. What one module
knows of another is the row: `DocPipeline` keeps which clients have a finding, `Reports`
which stage of classification a document is in.

### DocPipeline

One step is the code between two awaits that ends in a write of Postgres or Redis; what
was read before an await is kept in the run record (`cand`, `client`, the program
point), so the writes of other actors fall in between.

| Variables | Code |
|---|---|
| `status`, `hash`, `canon`, `hasText`, `lastError` | columns of `documents` |
| `findings` | the clients with a row in `findings` for the document |
| `job[q][d]` | the BullMQ job of a queue and a document: state, `attemptsMade`, stalls, the slot that holds its lock |
| `run[q][s]` | the handler in a slot of a queue |
| `events` | final `failed` events: before their read, or (`armed`) between read and write |
| `api` | what admin requests have read or written and not yet done |
| `recov`, `boot`, `up` | the recovery pass and the worker process |
| `crawl` | whether a document is stored, and its `enqueueDocumentExtract` done |
| `budget` | how often the environment may still act |

| Actions | Code |
|---|---|
| `Fetch`, `HandlerReturns`, `HandlerRejects` | BullMQ's worker around `handleExtract`, `handleNormalize`, `handleClassify` |
| `Extract`, `ExtractEnqueues` | `extract` and the enqueue of the next stage |
| `NormalizeFind`, `NormalizeClaim`, `NormalizeWinner`, `NormalizeDedup`, `NormalizeFails`, `NormalizeEnqueues` | the awaits of `normalizeDedup`: find a canonical, update under the unique index, find the winner after P2002, write DEDUPED, the catch |
| `ClassifyForClient`, `ClassifyError`, `MarkClassified` | one turn of the loop, its catch, `markClassified` |
| `FailedReads`, `FailedWrites` | `failIfStatus` and `failIfClassifying`: a read, then an update by id |
| `StalledByCrash`, `StalledWhileRunning` | BullMQ's stalled check: the holder is dead, or alive and goes on |
| `Crash`, `Restart`, `RecoverReads`, `RecoverRequeues` | the worker dies; `requeueOrphanDocuments` |
| `SaveRaw`, `EnqueueDocumentExtract` | what the crawl does to one document |
| `Reprocess`, `ClassifyRequest`, `TriggerExtract*`, `TriggerClassify*`, `RequestEnqueues`, `RequestFails` | the admin requests, their reads apart from their writes and enqueues |

Abstractions: the text of a document is fixed (`TextOf`), and a hash is the text;
extraction finds it, or fails, or finds an old document (`OldDocs`). `delayed` jobs
(backoff) are `waiting`. A completed, failed or absent job is `over`: no code of the
pipeline tells them apart. `getJob`, `remove` and `add` of one enqueue are one step. The
fetch of a job and the first read of its handler are one step. `processingHistory` and
the wording of errors are left out, and `lastError` keeps the class `isClassifyFailure`
reads. NORMALIZED and HASHED are only ever written in the history, never as a status.
The rows of a request or a recovery pass are treated in any order. The links between
clients and the source do not change. What a finding says, and the reopening of sent
norms, belong to `Reports`.

### CrawlJobs

`status[k]` is `job_runs.status` of a key, `job[k]` its job (a finished job is told
apart from an absent one here: `add` ignores a finished id, and `enqueueResolved`
removes it), `call[c]` a call of `enqueueResolved` with the row it has read, `run[s]` a
handler, `saved[k]` whether a document carries the id of the run. A caller always asks
for one key (`KeyOf`): the cron for `{code}:{date}:scheduled`, an admin for
`{code}:{date}:admin`. `EnqueueSource`, `ReadExisting`, `ReadRedis`, `RemoveStaleJob`,
`WriteRun`, `AddJob` are the awaits of `enqueueResolved` in order; `CallFails` cuts it
off at any of them. `Fetch`/`MarkRunning`/`ReadSource`/`SavePage`/`Succeed`/`Fail` are
those of `handle`, `FailedReads`/`FailedWrites` those of `onCrawlJobFailed`, and
`RecoverReads`/`RecoverChecks`/`RecoverCloses` those of `recoverAbandonedCrawls`. When
Postgres or Redis rejects a call of that pass, it ends there and `recover` only logs the
error (`RecoverRejects`). A call that rejects in `onCrawlJobFailed` kills the worker,
and is a `Crash` there. Pages, artifact paths and the 48 h look-back are left out.

### Reports

| Variables | Code |
|---|---|
| `stage[d]` | where the classification of a document is, for this client |
| `finding[d]` | impact, `excludedFromNextReport`, whether there is a `changeNote` |
| `report[r]` | status, items, what the stored PDF lists, the outcome in `emailDelivery` |
| `outbox` | the mails Resend has accepted, with the items and notes they showed |
| `call[u]` | the request a user has under way: program point, report, the items it has read |

| Actions | Code |
|---|---|
| `DocReady`, `ClassifyAgain` | a document becomes READY_FOR_AI (as `DocPipeline` does it), or is classified once more |
| `UpsertFinding`, `ReopenReads`, `ReopenWrites`, `MarkClassified` | `classifyForClient`, `applySentNormReopen` in two steps, `markClassified` |
| `UpdateImpact`, `Include`, `Exclude`, `ExcludeWrites` | `FindingsService` |
| `Create`, `Regenerate`, `AssertDayNotClassifying`, `ListCandidates`, `InsertReport`, `ReplaceItems`, `PersistPdf` | the awaits of `create` and `regenerate` |
| `SendReads`, `MailAccepted`, `MailRefused`, `MailAnswerLost`, `StoreSentPdf`, `StoreSentFails`, `MarkSent`, `KeepDraft` | the awaits of `send`; `create` goes on to it when the client has `autoSend` |
| `Discard`, `DiscardWrites` | `discard`: the check, then one transaction |
| `CutOff` | a call that rejects (a 500), or a crash of `api`: the request ends where it is |

Abstractions: YELLOW, ORANGE and RED are one impact, `alert`, since all three are
candidates. There is one client, and every finding is within the dates of every report.
Documents are canonical and differ in content, as `applySentNormReopen` asks of two
versions of a norm. A request that is refused before it does anything leaves no trace
and is not a step. Contacts, the name of the file, its footer, the texts of findings and
`rewrite` are left out. The id of a report is chosen when `create` begins. `Classifying`
leaves out the crawl in flight, which the board also counts. A user has one request at a
time; two browser tabs are two users.

### FetchPage and SiteCrawl

A URL is a record of what the code looks at (host, registrable site, path, kind of file,
years in its text, keywords), and `Web[u]` the set of answers `u` may give to any
request. `fetch` is one download: the hop it is at, the pairs of URL and cookie it has
been at, the jar, the round. `crawl` has the locals of `crawlSite` under their names.

| Actions | Code |
|---|---|
| `RedirectLoop`, `FollowRedirect`, `RequestFails`, `HttpError`, `Downloaded` | `fetchPage`: the loop over hops, the TLS retry, `classifyHttp`, `classifyNetworkError` |
| `TakeNext`, `Finish` | the loop's condition (`More`) and what is after it |
| `FetchThrows`, `FetchFails` | the catch: throw on the first page, count and break the circuit |
| `EmptyPage`, `Bounce`, `PageOutOfBounds`, `FollowBounce`, `PageAgain`, `NewPage` | the `continue`s of the loop in their order, and its end: save, discover links |

Abstractions: one cookie per host stands for the jar. The text of a page is the links,
the refresh and the kind of file that are found in it. Every failure below HTTP, too
large an answer and a redirect loop end as the one error of the origin, NETWORK, as
`classifyNetworkError` has it; a 3xx without a location is UNKNOWN. A download that
drips is bounded in the code by the time of inactivity and by the largest size, here it
is one step. The order of equally scored links is that of the page.

### ObjectStore

`running` and `waiters` are `AsyncGate`'s, `pc[c]` is the await at which a call of
`putObject` or `getObject` is, `reply[c]` what the bucket has answered. The gate lives
in one event loop, so that the model has its turns: `Event` resumes at most `Burst`
continuations (two answers in one packet, timers of the same tick), and no other event
comes before all of them have run (`Local`, `Enter`, `Wait`, `Resume`, `AskAgain`,
`Pause`, `Leave`), in any order. `BucketPuts`, `BucketGets`, `BucketFails` are Supabase,
which may apply a put and lose its answer. `CreateRow` and `FindRow` are `saveRaw` after
the upload: `create`, or after P2002 the row that is there. `Lookalikes` are paths whose
text reads like a transient error, such as one with `429` in it: the message of a
missing object quotes the path, and `isTransientStorageError` searches the message, so
that these are asked for again in vain.

Left out: `upload`, which has neither gate nor retry, and signed URLs. The code's
`extract` reads `rawPath` from the configured bucket and never `doc.bucket`; and after
an "already exists" the row's `sizeBytes` may be that of another download. Neither is a
state here.

### Maintenance

`doc`, `finding`, `runRow`, `sources`, `client`, `analyst`, `report`, `items` are the
tables, `crawlJobs`, `normJobs`, `classJobs` the queues, `crawler`, `normalizer`,
`classifier` one handler each with what it has read and whether it still has its lock
(`held`), and `script` the script: its kind, the statement it is at, what it has read,
and `late`, the documents its properties except. `Steps` lists the statements of each
script in order, and there is an action for each (`ReadScope` .. `EnqueueClassify`),
with what the foreign keys do (`DocsWithout`, `Unlinked`, `WithClient`: cascade, set
null, restrict). `Stops` ends it anywhere, `Aborts` where the code throws.

The worker has the reads and writes that meet the scripts':

| Actions | Code |
|---|---|
| `CrawlStarts` | `handle`: the run of the key, RUNNING |
| `CrawlSaves` | `saveRaw`, and for a file that is not to be extracted (`Pages` has those that are: not JSON, not images) the early return of `enqueueDocumentExtract`, which touches neither the run nor a queue |
| `CrawlLinks` | the rest of `enqueueDocumentExtract` for a page: it links the row to the run, which throws if the run is gone, and enqueues |
| `CrawlSavesMeta`, `CrawlEnds` | the row of `meta.json`, then SUCCESS, which throws too |
| `SaveFails` | a source that is gone |
| `NormalizeFinds`, `NormalizeLoses`, `NormalizeWrites` | the search of a canonical; P2002, and the search of who has the hash; the write, by foreign key to a canonical that may be gone |
| `ClassifyStarts`, `ClassifyUpserts`, `MarksClassified` | the checks, with the early way out of an old document (`OldDocs`) or one with no client to classify for; the finding; the status |
| `ClassifyFails`, `FailIfClassifying` | OpenAI or the upsert fails: `setLastError`, and another attempt or none; the `failed` event |

Abstractions: one client, linked to every source. The transaction of `resetSources` is
one step. `removeLocalArtifacts` and the emptying of the bucket are left out, and so are
the questions a script asks on the terminal. The pipeline before the hash is one status,
RECEIVED. The recovery pass and the admins' requests are in `CrawlJobs` and
`DocPipeline`: a RECEIVED row that an interrupted crawl leaves may be given a job by
either, and no property here says it gets none. Rejected calls of Postgres in the reads
of the classifier are left out.

What the model shows of the scripts beyond the properties, for who runs them: `resetDay`
also deletes findings *created* that day whose documents are of another day, which stay
CLASSIFIED without one, although it logs that other days are kept. A document that is
saved between its read and its delete of the runs stays, without a run. Emptied queues
do not stop handlers that run: the crawl the reset interrupts still saves the JSON and
image files it has fetched, up to one page to extract, whose link to the run throws, and
if there was none the row of `meta.json`. A deduplication between the delete of
duplicates and that of documents leaves a DEDUPED row without a canonical.
`reclassify-client` loses the findings that are written between its read and its delete;
a classification that runs at that moment makes its request a no-op; the first 400 of
the API ends its loop; and if it stops after its delete, a second run finds nothing to
reclassify. A classification that fails for good leaves the document without its
finding, and `last_error` says so; one that ends before OpenAI because the document is
too old leaves it without, and says nothing. Resets take items out of SENT reports by
cascade.

### ScheduleWindow, ProgressBoard and Panel

Time is whole hours and a zone is the table of its offsets. `ZonedClock`, `IsDue`,
`StartOfZonedDay` and `InZonedDay` are the functions of `schedule-window.ts`;
`MapDocumentSourceStatus`, `DocumentProgressNote`, `MapAnalysisProgressStatus`,
`AnalysisProgressNote`, `CrawlStatus` and `CrawlProgressNote` those of the three
`progress.labels.ts` (of documents, findings and jobs), on sets of rows.

| Variables of `Panel` | Code |
|---|---|
| `now`, `ticked`, `up`, `idle` | the hour, whether the cron has run in it, the worker, the hours without a tick |
| `run[k]` | the `job_runs` row of a key, with its attempts |
| `page[p]`, `finding[p]` | a `documents` row, and when its findings were written |
| `poll` | the panel: which query it is at, and what it has read and answered |

`Tick` and `TriggerCrawl` are the cron and the admin with the guard of the day,
`CrawlStarts`, `CrawlRetries`, `SavePage`, `CrawlSucceeds`, `CrawlFails` the life of a
crawl, `Extract` and `Classify` that of a page; `AsksDocuments`, `AnswersDocuments`,
`AsksFindings`, `ReadsFindings`, `AnswersFindings` are the queries of
`DocumentsService.progress` and `FindingsService.progress` in their order.

Abstractions: minutes, and offsets of less than an hour. The panel asks the boards one
after the other, where the browser asks at once; between two queries no hour goes by. A
zone that skips a whole date would get 06:00Z as the start of the day, as the code has
it; no zone of the catalogue does, and `HorizonAssumption` says so. `ZonesAssumption`
says what `startOfZonedDay` takes for granted of a zone: it looks from 14 hours before
UTC's midnight on, and takes the first midnight of the date for its first instant. That
holds of a zone whose offsets are those in use, whose dates never go back and whose
dates begin with their midnight where they have one. TLC evaluates both on the zones of
the run.

The exceptions of `DoneMeansDone` are the code's. The board reads the documents before
the crawls, so that pages saved in between are missed until the next poll (`missed`). A
crawl between two attempts is FAILED and not in flight, though `progress-board.ts:35`
means it to be ("aún en cola o ejecutándose"), and may bring pages after the board has
said "done" (`restarted`). Pages of a crawl with another date in its key, as after
midnight, are not waited for. `classified` of the board of the analysis is documented as
"todas las páginas del día ya analizadas" (docs/FRONTEND-TRACKING.md) but ignores pages
that are still being extracted: the property only speaks of it once the board of the
documents is done. Two notes ("El contenido anterior sigue registrado") cannot be
reached, and a failure of the classification is shown as one of the extraction on the
board of the documents.

### What is taken from BullMQ

BullMQ is external; the models take from it what the code relies on: `add` with an id
that exists does nothing; `remove` of an active job throws; a failure is retried while
`attemptsMade + 1 < attempts` unless the error is an `UnrecoverableError`; a job whose
lock has expired goes back to `waiting` at most `maxStalledCount` times and then fails
with "job stalled more than allowable limit"; a handler that has lost its lock goes on,
and its result is ignored.

## 3. Runs

Every run bounds the environment by `Budget`: how many crashes, stalls, rejected calls
(`infra` in a handler, `lost` in a request or an enqueue, `recover` in the recovery pass
of the crawls), repeated crawls (`recrawl`),
resets, requests (`ask`), `UnrecoverableError`s (`reject`) and switches of the source
(`toggle`) may happen; in `Reports`, edits of findings (`edit`), repeated
classifications (`again`) and failures of a request (`fail`); in `Panel`, stops of the
process, crawls an admin asks for and polls. The web, the bucket and the scripts are
bounded by their constants instead. Kinds that are not named are zero, and `any` bounds
their sum. OpenAI errors that BullMQ retries, and failures of `extract` and of a crawl,
are not budgeted: they happen whenever they can.

| Run | Instance | Question |
|---|---|---|
| `PipelineCrash` | 2 documents, 1 text, 1 client, 1 slot, 1 attempt; one of crash, lost, stall, recrawl | is the election of a canonical refined across a crash with its recovery, a lost call, a zombie handler, a repeated crawl? |
| `PipelineRaces` | 2 documents, 1 text, 2 slots, 1 attempt; a reset and a lost call | do concurrent handlers keep one analysis per content, and can a reset leave a content with duplicates only? |
| `PipelineAsk` | 3 documents (2 of one text, 1 old), 2 clients, 2 attempts; one of ask, infra; fair | are retries, the fan-out and the hand-over between queues complete, with a request, or with a rejected call of Postgres or Redis? |
| `PipelineReject` | reject | violated: an `UnrecoverableError` leaves READY_FOR_AI |
| `CrawlDay` | 1 admin, 2 slots, 2 attempts; any two of 2 crashes, infra, stall, lost, recover, toggle; fair | is every run closed, also after a takeover by a second handler or a cut-off call? |
| `CrawlTwice` | cron and admin; no failure | violated: both crawl the same day |
| `ReportsDay` | 2 versions of one norm, 2 reports, 1 person at the desk, 1 editor, `autoSend`; one each of edit, again, fail | is what is SENT, and its PDF, what was mailed, and do notes tell the truth? |
| `ReportsRace` | 2 people at the desk; no failure | violated: a SENT report lists findings that were not mailed |
| `SiteCrawl` | 15 URLs, 2 sources, 2 redirects, 5 pages, depth 2, 6 fetches, queue of 6, circuit at 3; fair | does the crawl end, within its limits, with no page twice or out of scope, and does it implement `CrawlOutcome`? |
| `ObjectStore` | 4 calls (2 crawls of one page, an extraction, a reader), 1 place, 1 retry, bursts of 2, with and without Supabase; fair | what does the gate let through, does it lose a place or a waiter, has every row its object? |
| `Maintenance` | 2 pages of one text (1 old) and a file, 1 source, 1 run, 2 days, 1 script of any of 5 kinds | what may a script destroy or leave behind while the worker goes on? |
| `PanelDay` | 2 zones, 5 hours around a change of clocks, 1 date, 2 pages, 2 attempts; one each of stop, admin, poll | is each hour in one day, each due day crawled, and is what the boards call done done? |

Why the bounds are enough to be interesting. Dedup needs two documents of one content; a
third document is old, for the other exits. Contents do not interact (their hashes
differ), so one text is enough. One failure of a kind already reaches every pair of
program points it can separate; two crashes are needed to lose a `failed` event after a
stall. In `ReportsDay` two reports let a second one be generated, sent or discarded
around the first, and two versions of one norm are what reopening needs; its documents
and reports are symmetric.

`PipelineCrash` has one act of the environment and `PipelineRaces` none that kills or
stalls: the pairs (a crash and a lost call; a stall and a second crawl with two slots; a
reset and an `UnrecoverableError`) are not run. For `DedupPointsAtCanonical`,
`OneAnalysisPerText`, `ClassifiedIsComplete`, `ImplementsElection` and
`ContentKeepsCanonical` the theorems of section 4 cover them, since they hold for every
budget and any number of slots.

In `SiteCrawl` each limit is reached in some behaviours and left in others by a
different one: pages by the start page and four more, fetches and the queue by menus
that link everything, the circuit by three errors in a row, depth by links of links;
three redirects exceed `MaxRedirects`, and a cookie makes one URL two hops. The limits
are those of the code scaled down and keep its order (as many fetches as queue entries,
fewer pages). In `ObjectStore` one place and bursts of two are the smallest gate over
which a newcomer can barge; four calls let it fill again. One script in `Maintenance`
meets every statement of the worker; two would only add scripts that run after each
other, since operators run one at a time. With one source a reset of sources has nothing
to spare, so that of `OthersAreKept` the run only shows the reset of a day;
`ScopeSafety` (section 4) has both. The hours of `PanelDay` are one before and after
each midnight of both zones and the repeated hour.

One attempt removes nothing but repetitions from the runs about safety of dedup: a job
can still run twice through a stall, a second crawl or a crash. The runs about retries
have two attempts. `MaxStalledCount` is 1 instead of 2, so that the limit is reached.

The properties, by hazard:

- dedup: `DedupPointsAtCanonical`, `OneAnalysisPerText`, `ImplementsElection`
  (refinement of `ContentElection`), `ContentKeepsCanonical` (with
  resets, but no job that runs twice at once);
- fan-out: `ClassifiedIsComplete`;
- nothing half way: `QuietMeansSettled`, `EveryDocumentSettles`;
- crawl jobs: `QuietMeansClosed`, `EveryRunCloses`, `DayCrawledOnce`;
- crawl of a site: `FrontierBounded` (its four limits, and that a URL enters the
  frontier once), `SavedOnceAndInScope`, `CrawlEnds`, `ImplementsOutcome` (refinement of
  `CrawlOutcome`);
- storage: `GateLimit`, `NoPlaceWasted`, `RowHasObject`, `RawIsKept`, `CallsEnd`;
- scripts: `OthersAreKept`, `OnlyLateDuplicatesAreOrphaned`, `OnePageComesBack`,
  `WipedMeansEmpty`, `UsersCanBeDeleted`, `ReclassifiedIsRebuilt`;
- days and boards: `HourIsInItsDay`, `ScheduledDaysAreCrawled`, `DoneMeansDone`,
  `FailuresAreShown`;
- reports: `BurnedWasMailed` (what is never a candidate again was mailed),
  `FileIsWhatWasMailed` (with at most one failure), `NoteMeansMailed`.

Where `DedupPointsAtCanonical` and `OneAnalysisPerText` say "unless a row was reset",
the exception is real: a reprocess clears the hash of a canonical while its duplicates
still point at it.

`QuietMeansSettled` holds for one `ask`, or for fewer `infra` failures than a job has
attempts (section 4). It is violated with two `ask`s, with one of each (a retried
normalize claims its row after the classification that was asked for, and the enqueue
meets the job that is about to end), and with other kinds, all for lost wake-ups: an
enqueue without force is skipped while a job of that id is in flight, a forced one
cannot replace an active job, and `extract`'s failure handler only closes RECEIVED rows.
`QuietMeansClosed` does not hold with `lost` (a new run whose `add` failed stays QUEUED
until the next boot), nor with `recover` (runs the pass had still to close stay in
progress until the next boot), nor with two overlapping admins (see below);
`EveryRunCloses` excepts `recover` too. Both crawl properties except one combination,
`ZombieThrew`: a handler whose job was taken over writes RUNNING late, and then its read
of the source or its write of the outcome is rejected. BullMQ ignores what a handler
without the lock throws, no `failed` event comes, and a run that the second handler had
closed stays RUNNING until the next boot.

`BurnedWasMailed`, `FileIsWhatWasMailed` and `NoteMeansMailed` are about one person at a
time at the desk; `ReportsRace` breaks the first with two. No property says that SENT is
for good, or that what was sent is not listed again: with two people both are false, for
`discard` checks the status before its transaction (`reports.service.ts:272-286`), so
that it undoes a send that ends in between, and `create` and `replaceItems` write
candidates that another report may have sent since they were listed; with one person
nothing can come in between, and they would say no more than a guard. Nothing like "a
finding is in at most one SENT report" holds even for one person: two drafts of one day
hold the same findings, and `send` does not ask again. Nor does every new version of a
mailed norm carry a note, or every mailed finding have an alert impact, since both are
decided when the items are chosen or classified, not at the send.

### Fairness

`FairSpec` of `DocPipeline` is `Spec` with weak fairness of `System`: what the two
processes do by themselves. The event loop of a live process runs what is ready, BullMQ
hands out waiting jobs and checks for stalled ones, an orchestrator restarts the worker,
and a request that has started goes on. Nothing of the environment is fair: nobody has
to crawl, to ask, to fail or to succeed. Fairness of the disjunction is enough because
no system step can repeat for ever: attempts, stalls and budgets are bounded. In
`CrawlJobs`, where admins may ask again for ever, the worker and each call have their
own weak fairness, so that the requests of one cannot starve the others.

`SiteCrawl` and `ObjectStore` have weak fairness of `Next`: the loop runs on, every
request has a time limit, timers fire, and the bucket answers or its client gives up.
Which answer comes is not fair: a site may answer with errors for ever, and a bucket
may. `Reports`, `Maintenance` and `Panel` have no fairness, and no liveness.

### Findings

`PROJECT.json` quotes the documentation each one contradicts.

1. `PipelineReject`: `isFinalBullMqFailure` counts attempts, and an `UnrecoverableError`
   is final at the first. The row is left READY_FOR_AI until the next boot.
2. `CrawlTwice`: the guard of the day is a check before several awaits, under two keys.
   A retry opens the same gap without any overlap: FAILED is written at every attempt,
   so that between two attempts of the cron's job the guard lets an admin in.
3. `ReportsRace`: `replaceItems` does not look at the status; a regenerate that began
   before a send changes the items of what is SENT, and burns findings nobody was
   mailed.

Findings told without a run. The models have them, and the properties except them:

- After a crash, recovery and the stalled job run two stages of one document at once;
  the row can end EXTRACTED with no job, where neither `POST /jobs/extract` nor `POST
  /jobs/classify` selects it (docs/jobs.md:21 sends a stuck extraction to the first).
  `POST /documents/:id/reprocess` and the next boot still do.
- `markClassified` (`document-classify.service.ts:337`) updates by id: after a reprocess
  it can overwrite a row that has become a duplicate while OpenAI was answering, and a
  CLASSIFIED row has a canonical (docs/jobs.md:13, :147: "solo canónicos").
- A job that stalls while its handler goes on runs twice. The first handler has found c
  to be the canonical of d and is about to write it; c is reset, the second handler
  makes d the canonical, and c becomes a duplicate of d; then the first writes. Both are
  duplicates, and nobody analyses their content. `ContentKeepsCanonical` excepts it.
- Two admins who ask for one crawl at once: the call that read the run before it was
  finished puts a SUCCESS back to QUEUED (`crawl.producer.ts:282`) and leaves it with no
  job, although "un SUCCESS del mismo día (cron o admin) no se reencola"
  (docs/jobs.md:112).

## 4. Proofs

### DocPipeline

`DocPipeline_proofs` proves, for every set of documents, texts and handlers, every
number of clients, attempts and stalls and every budget (`PipelineAssumption` types the
constants and nothing else):

| Theorem | Statement |
|---|---|
| `TypeSafety` | `Spec => []TypeOK` |
| `ClassifiedCompleteness` | `Spec => []ClassifiedIsComplete` |
| `ElectionSafety` | `Spec => []ElectionIInv`, the inductive invariant of dedup |
| `NoDedupChains` | `Spec => []DedupPointsAtCanonical` |
| `OneAnalysis` | `Spec => []OneAnalysisPerText` |
| `PipelineImplementsElection` | `Spec => ImplementsElection`, if nobody may reset a row |

Arguments. `TypeOK` is inductive; its only arithmetic is the counters, bounded by the
tests in `HandlerRejects` and `StalledCheck`. `ClassifiedIsComplete` is not: the step
that writes CLASSIFIED only knows its program point. `CompleteInv` adds `FanOut`: a
classify handler at client n has written the findings of 1..n-1, and one at `mark` all
of them (or the document is old). Findings are never removed, so it survives every other
actor. `DedupPointsAtCanonical` needs what every actor holds in its locals.
`ElectionInv` says that: a hash is the text of its row (`HashInv`); rows without
canonical that hold one hash are one row (`UniqueInv`); a duplicate points at a holder
(`DuplicateInv`), and so does the candidate in a normalize handler (`CandidateInv`);
whoever is being classified, or was analysed, is a holder (`ClassifyInv`,
`AnalysedInv`); a `failed` event or an admin request about to write concerns a row for
which the write is harmless (`EventInv`, `RequestInv`). A reset breaks it on purpose, so
that `ElectionIInv` carries it under "no reset so far", with `BudgetInv` to know that a
budget never grows. The refinement maps `elected` to the holder of a content, `original`
to `canon` and `analysed` to `findings`; `ElectionInv` makes the holder unique, and
every step maps to a step of `ContentElection` or to a stutter.

`DocJobs_proofs`, from the same assumption:

| Theorem | Statement |
|---|---|
| `ContentSafety` | `Spec => []ContentKeepsCanonical` |
| `SettledSafety` | `Spec => [](Gentle => QuietMeansSettled)` |

Both rest on `Owned`: a handler holds the lock of its job, so that no two handlers of a
queue treat one document. It is inductive unless BullMQ gives a stalled job to a second
handler while the first goes on (`OwnedStep`); the job of a process that died is no
exception, since its handlers died with it.

`ContentSafety` cannot use `ElectionInv`, which a reset breaks: after one, a duplicate
may point at a row that is a duplicate itself. What remains is that a content is never
left without an `Anchor`, a row that is no duplicate and that no handler is about to
make one (`ContentInv`). A reset, or any step outside normalize, at most clears rows and
can only add anchors (`ClearingSteps`). A handler that finds a canonical row c for d and
goes to its dedup takes d away, but leaves c: no handler is at the dedup of a canonical
row, because the handler that made the row canonical is the only one it has.

`Gentle` says what the environment has done so far: no crash, stall, reset, lost call,
second crawl or `UnrecoverableError`, and either at most one request to classify or
fewer rejected calls of Postgres and Redis than `Attempts`. It speaks of the past of a
behaviour and not of a constant: the theorem is about every `Budget`. In `PipelineAsk`
every state is gentle; section 3 says what happens beyond. The invariant (`DocInv`) is
about one document: the point at which each of its three jobs is (`Place`), the status
that goes with it (`ExtractInv`, `NormalizeInv`, `FirstInv`), and for each half-way
status who will see to it: a RECEIVED or EXTRACTED row has its job at work
(`HalfWayInv`), a READY_FOR_AI row the normalize handler that is about to hand it over,
a classify job that is not at its end, a `failed` event or an admin's request
(`ReadyInv`). The hard case is the enqueue that finds a job of its id and does nothing.
It is harmless because that job is never one that is about to end with the row still
open: `Untouched` says that nothing of the third stage exists while a document is in the
first two, until somebody asks; and when somebody has asked, no call has failed, so that
no stage repeats. `TriesInv` counts: a job has behind it no more failures than calls
were rejected, so that extract and normalize never run out of attempts. `Locked` (an
active job is run by its owner) makes `Place` well defined, and `ElsewhereKeepsDocInv`
reduces every step to the one document it is about; classify can fail for good, and its
`failed` event then closes the row (`RejectSettles`, `FailureSettles`).

### Reports

`Reports_proofs` proves, for every set of documents, norms, reports and people and every
budget:

| Theorem | Statement |
|---|---|
| `ReportsTypeSafety` | `Spec => []TypeOK` |
| `MailedSafety` | `OneDesk` implies `Spec => []BurnedWasMailed` |
| `NoteSafety` | `OneDesk` implies `Spec => []NoteMeansMailed` |
| `FileSafety` | `OneDesk` implies `Spec => []FileIsWhatWasMailed` |

`OneDesk` says that `Desk` has at most one element: reports are handled by one person,
one request at a time, which is what the code assumes and does not enforce
(`ReportsRace`). Editors are any number, and they, the classifier and failures
interleave with every await of that person. None of the three is inductive: the writes
are by id and look at nothing. `OneDeskInv` adds what the request holds: the report is
still a draft from its check to its last write (`HandlesDraft`), and the items being
mailed are those of the row and, from the mail on, the letter is in `outbox`
(`MailsItems`). Nobody else writes reports, so that the other actors keep it
(`DeskFrame`); `BurnedFrame` covers each write to a row that is not SENT; `MarkSent` is
the one step where `MailsItems` becomes `BurnedWasMailed`. `NoteInv` extends the note to
the await inside `applySentNormReopen`, and rests on `BurnedWasMailed` and on mails
never being taken back (`OutboxGrows`). `FileInv` follows the PDF: as long as nothing
has failed, the file of a draft has the items of its row or a generation is about to
store them (`DraftsAreStored`); a generation stores the items of its row
(`StoresItems`); and a send at its last write has mailed the file, unless it and
something before it failed (`MarksMailed`). One failure is allowed because the PDF is
stored twice, when it is generated and again by `send`: with the first lost, the second
makes it good; with the second lost, the first is still there.

### ObjectStore

`ObjectStore_proofs` proves, for any finite set of calls, any paths and contents, every
number of places and retries and every `Burst` (`StoreAssumption`), if a page and a text
never have one path (`PathsAssumption`: the code puts them under `raw/` and `derived/`):

| Theorem | Statement |
|---|---|
| `StoreTypeSafety` | `Spec => []TypeOK` |
| `GateLimitSafety` | `Spec => []GateLimit` |
| `NoPlaceWastedSafety` | `Spec => []NoPlaceWasted` |
| `RowHasObjectSafety` | `Spec => []RowHasObject` |
| `RawSafety` | `Spec => RawIsKept` |

`TypeOK` says that `running` is the number of calls inside the gate, and the rest is
counting: `MoveCounts` gives the cardinality of each set of calls after one call has
changed its step. `GateLimit` is not inductive, because a woken call takes its place
without looking. `GateInv` adds that an event resumes at most `Burst` calls
(`EventBudget`), and that those inside together with those woken are at most `Max +
Burst - 1` (`PlacesGiven`): a place can only be given twice while another continuation
of the same event is left to run. With `Max` 3 as in the code, the limit of three is
exceeded by exactly the calls that are resumed together. `NoPlaceWasted` needs
`WaitersWait`, that the queue has every waiting call once. `RowHasObject` needs
`SuccessIsStored`: who has been told "ok" or "already exists" finds the object there
until it has used the answer, and nothing in the running system deletes objects
(`ObjectsStay`). `RawIsKept` is an action property: only a derived text overwrites, and
its path is no page's (`PutKeepsPages`).

### CrawlJobs

`CrawlJobs_proofs` proves, for every set of keys, callers and slots, every number of
attempts and stalls and every budget (`CrawlAssumption`):

| Theorem | Statement |
|---|---|
| `CrawlJobTypes` | `Spec => []TypeOK` |
| `OwnersSafety` | `Spec => []OwnersInv` |
| `ClosingSafety` | `OneCallPerKey` implies `Spec => []QuietMeansClosed` |

`QuietMeansClosed` says nothing of a state in which something is left to run, so that
its invariant has to say *who* will see to each run in progress: `Guarded` lists them
(the next boot, its recovery pass, a `failed` event that is read or about to be written,
a job in flight whose handler has not ended, a handler before its outcome, a call about
to add the job). Nobody does after a recovery pass that was cut off, which the property
excepts. `GuardInv` adds that a handler which has written its outcome finds the
run in progress again only while a zombie is still crawling it: that is the state where
the second of two handlers undoes the first. It rests on `OwnersInv` (a handler
at work without its job has lost it to a stall) and on `CallsInv` (nothing gets in
flight between a call's look at Redis and its `add`).

`CallsInv` is false of two calls under one key, and so is the property: A writes QUEUED;
B reads QUEUED and finds no job in flight; A adds its job and the crawl succeeds; B
writes QUEUED over SUCCESS, and its `add` is ignored, for the handler has yet to return
and BullMQ still has the id. When it returns, the run is QUEUED with no job. Two admins
are enough, since both ask for `{code}:{date}:admin`, and the code does not keep them
apart: `OneCallPerKey` is therefore a hypothesis of this theorem and not an assumption
of the module. The cron and one admin at a time satisfy it.

### SiteCrawl

`SiteCrawl_proofs` proves, for every set of URLs, every web over it (each URL may answer
each request with any of its answers), every set of cookies and every value of the
limits (`FetchAssumption`, `CrawlAssumption`):

| Theorem | Statement |
|---|---|
| `CrawlSafety` | `Spec => [](TypeOK /\ CrawlInv)`, the inductive invariant |
| `CrawlTypes` | `Spec => []TypeOK` |
| `FrontierSafety` | `Spec => []FrontierBounded` |
| `SavedSafety` | `Spec => []SavedOnceAndInScope` |
| `CrawlImplementsOutcome` | `Spec => ImplementsOutcome` |

`FrontierBounded` is not inductive on its own. Pages, failures and springboards are
counted when a download ends, its request when it begins: `FrontierInv` counts the
download under way on the side of the requests, and bounds `queued` by the queue's limit
plus the refresh stubs followed, each of which has used a request that saved nothing.
`SeenInv` (a saved URL has been seen) is what makes a page that is reached by two
redirects saved once. The limit of the queue needs the links that fit: `NewLinks` takes
the best `Room` of the fresh ones, which `BestAreFew` shows to be at most `Room`, and
`BestFirst` puts them in the order of `discoverLinks` (a stable sort by score).

### Maintenance

`Maintenance_proofs` proves, for any documents, texts, sources, runs and days and any
number of scripts, one after the other, each of which may be stopped after any of its
statements (`MaintenanceAssumption`):

| Theorem | Statement |
|---|---|
| `MaintenanceTypes` | `Spec => []TypeOK` |
| `MaintenanceSafety` | `Spec => [](TypeOK /\ MaintenanceInv)`, the inductive invariant |
| `ScopeSafety` | `Spec => OthersAreKept`, an action property |
| `OrphanSafety` | `Spec => OnlyLateDuplicatesAreOrphaned`, an action property |
| `StraySafety` | `Spec => []OnePageComesBack` |
| `RebuiltSafety` | `Spec => []ReclassifiedIsRebuilt` |
| `WipeSafety` | `Spec => []WipedMeansEmpty` |
| `UsersSafety` | `Spec => []UsersCanBeDeleted` |

What a script has read grows stale while the worker goes on, and the invariant says what
stays true of it. `ScopeInv`: what it has read is still in its scope or is gone, and
after the statement that deletes duplicates every other duplicate of it is late. A row
leaves the scope if the worker makes it a duplicate of another, or links it to another
run; that this cannot happen to a row that was in the scope as a duplicate needs
`PendingInv` (a document is normalized once, and until then is in the hands of one job
or handler) and `CanonInv` (a canonical is none's duplicate, also the one a handler is
about to point at). `WipeInv` follows the wipe: what each statement has deleted does not
come back, because what could write it again needs what an earlier one deleted. That is
why the order of the statements of `Steps` matters: `FreeUsers` and the mutant that
deletes the users first.

`StrayInv` has the one handler that is still at work after the reset of a day, with its
run gone: files that are not extracted do not stop it, and the page that does has not
been linked yet, so that it is the only late one and the handler is about to throw. A
crawl that begins later has its run. `AskedInv` follows what `reclassify-client` has
asked for. Such a document is canonical and stays so, and somebody sees to its finding
(`Rebuilding`): it is there; or `last_error` is set and nobody is about to clear it
without a finding; or a job waits that will not be skipped; or the classifier is before
its upsert. Two steps are delicate. A classifier that is at `mark` when the document is
asked for would clear the error and leave no finding: BullMQ still has its job locked,
so that the new one is ignored, and the document is late. And a job that comes to a
document without a client or a source ends in CLASSIFIED without a finding: documents
lose their source only after the wipe has deleted the client, which `reclassify-client`
has read, and no other script runs beside it. For each part, frame lemmas say what
everyone but the script keeps (`OthersKeepRows`, `OthersKeepRuns`, `OthersKeepScript`,
`OthersKeepBusiness`), and there is a lemma for each statement that touches it.

### ScheduleWindow, ProgressBoard and Panel

`Panel_proofs` proves, for any zones (`ZonesAssumption`), any hours over which their
tables reach (`HorizonAssumption`), any schedule, any finite sets of dates and pages and
any number of attempts (`PanelAssumption`, `NoneAssumption`):

| Theorem | Statement |
|---|---|
| `PanelTyped` | `Spec => []TypeOK` |
| `HourSafety` | `Spec => []HourIsInItsDay` |
| `ScheduleSafety` | `Spec => []ScheduledDaysAreCrawled` |
| `DoneSafety` | `Spec => []DoneMeansDone` |
| `FailureSafety` | `Spec => []FailuresAreShown` |

`HourSafety` is a fact about the operators: `DayBegins` shows that `StartOfZonedDay` is
the first instant of the date, so that an instant is at or after it exactly if its date
is not an earlier one. `ScheduleSafety` needs `TickInv`, which remembers for each hour
that saw a tick that its day, if due, has a run; `RunsStay` keeps it. That the row a
board picks (`BestRow`, `LatestRun`) is one of its rows, on which `PanelTyped` and
`FailureSafety` rest, is `FirstOfOrder`: a finite set with a strict order has a first
element.

`DoneSafety` and `FailureSafety` need `BoardInv`, which follows a poll: until the crawls
are read, what was in the extraction, or had failed in it, has left its signal in the
rows that were read (`AskedInv`); after the answer only crawls begun since then are at
work, so that a page that is saved is missed (`ExtractedInv`); therefore no page becomes
ready for the classifier behind the board of the analysis (`AnalysedInv`,
`ClassifiedInv`). That the crawls are read after the documents is used in
`AnswersOnBoard`: read before, a page saved in between would be missed by both.

### Only model-checked

The liveness properties (`EveryDocumentSettles`, `EveryRunCloses`, `CrawlEnds`,
`CallsEnd`): fairness and ENABLED are out of the prover's reach.
Every safety property of a passing run has its theorem; those that a hypothesis
restricts (`OneDesk`, `OneCallPerKey`, no reset, `Gentle`) are known beyond it only for
what the runs have, and are false there where section 3 says so.

## 5. Not modelled, and the plan

Not modelled because there is nothing to interleave or it is pure text: the parsing of
PDF, HTML and Office files, prompts and responses, the layout of the report, the
registry of connectors (a table), CRUD of clients, sources and users (one write per
request), auth, chat, health, seeds and the lab scripts. `findings` is partly modelled:
`rewrite`, which reads a finding, waits for OpenAI and writes it, needs the texts of
findings. One thing the survey met there: `document-text.ts:400-406` ends its wait on
any exit of the PDF worker, but settles the promise only if the exit code is not 0, so
that a worker that exits with 0 and has said nothing leaves its job waiting for ever.

Planned, in this order:

1. More of `Reports`: a conditional `replaceItems` and a `send` that looks again, as the
   repaired variants, for any number of people; the texts of findings and `rewrite`.
2. More of `DocPipeline`: changes of the client links during a fan-out, and a
   conditional `markClassified` as the repaired variant.
