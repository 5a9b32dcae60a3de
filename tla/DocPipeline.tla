---------------------------- MODULE DocPipeline ----------------------------
(***************************************************************************)
(* The document pipeline of NORMA: the three BullMQ queues                 *)
(* document.extract, document.normalize_dedup and document.classify, the   *)
(* handlers of the `worker` process, the rows of the `documents` table     *)
(* they read and write across awaits, the admin requests of the `api`      *)
(* process that put a document back into the pipeline, and the recovery    *)
(* pass a worker runs after it boots.                                      *)
(*                                                                         *)
(* One step of a handler is the code between two awaits that ends in a     *)
(* write of Postgres or Redis.  What a handler read before the write is    *)
(* kept in its run record, so the writes of other actors fall in between.  *)
(***************************************************************************)
EXTENDS Naturals

CONSTANTS
  Docs,             \* documents (one row per stored file)
  Texts,            \* normalized texts, as the content hash tells them apart
  TextOf,           \* the text that extraction finds in a document
  OldDocs,          \* documents older than CRAWL_MIN_YEAR
  NClients,         \* clients linked to the source, in creation order 1..NClients
  Slots,            \* handlers per queue (JOBS_CONCURRENCY x worker replicas)
  Attempts,         \* attempts of a job (producer default 3)
  MaxStalledCount,  \* maxStalledCount of the workers (2)
  Budget,           \* how often the environment may act, per kind: a bound
  None              \* null

\* What the environment does, and "any": all of it together.
Acts == {"reset", "ask", "crash", "stall", "recrawl", "infra", "lost", "reject"}
Kinds == Acts \cup {"any"}
Queues == {"extract", "normalize", "classify"}
Clients == 1..NClients

ASSUME PipelineAssumption ==
  /\ TextOf \in [Docs -> Texts]
  /\ OldDocs \subseteq Docs
  /\ NClients \in Nat
  /\ Attempts \in Nat \ {0}
  /\ MaxStalledCount \in Nat
  /\ Budget \in [Kinds -> Nat]
  /\ None \notin Docs \cup Texts \cup Slots

Statuses == {"RECEIVED", "EXTRACTED", "READY_FOR_AI", "CLASSIFIED",
             "DEDUPED", "FAILED", "DISCARDED"}
Settled == {"CLASSIFIED", "DEDUPED", "FAILED", "DISCARDED"}

VARIABLES
  status,     \* documents.processing_status
  hash,       \* documents.content_hash
  canon,      \* documents.canonical_document_id
  hasText,    \* documents.extracted_text is not null
  lastError,  \* class of documents.last_error, as isClassifyFailure reads it
  findings,   \* clients with a finding of the document
  crawl,      \* where the crawl is with the document: not stored, stored, enqueued
  job,        \* Redis: the job of a queue and a document
  run,        \* the handler in a slot of a queue: program point and locals
  events,     \* 'failed' events of the workers that are final and not yet handled
  api,        \* admin requests between their read, their write and their enqueue
  recov,      \* rows the recovery pass has read and not yet treated
  up,         \* the worker process is running
  boot,       \* the recovery pass of this boot is still to run
  budget      \* what is left of Budget

row  == <<status, hash, canon, hasText, lastError, findings>>
proc == <<crawl, events, api, recov, up, boot>>
vars == <<status, hash, canon, hasText, lastError, findings,
          crawl, job, run, events, api, recov, up, boot, budget>>

\* No job, or a completed or failed one: nothing in the code tells them apart.
NoJob == [st |-> "over", made |-> 0, stalled |-> 0, owner |-> None]
Idle  == [pc |-> "idle", doc |-> None, cand |-> None, client |-> 0]

Points == {"extract", "enqNormalize", "noText", "find", "claim",
           "winner", "dedup", "enqClassify", "client", "mark", "throw", "reject", "end"}

JobRec == [st: {"over", "waiting", "active"}, made: 0..Attempts,
           stalled: 0..MaxStalledCount, owner: Slots \cup {None}]
BusyRec == {r \in [pc: Points, doc: Docs, cand: Docs \cup {None}, client: 0..NClients] :
              r.pc = "client" => r.client \in Clients}
RunRec == {Idle} \cup BusyRec
Event   == [q: Queues, doc: Docs, armed: BOOLEAN]
Request == [op: {"reset", "extract", "reopen", "classify"}, doc: Docs]

RowOK ==
  /\ status \in [Docs -> Statuses]
  /\ hash \in [Docs -> Texts \cup {None}]
  /\ canon \in [Docs -> Docs \cup {None}]
  /\ hasText \in [Docs -> BOOLEAN]
  /\ lastError \in [Docs -> {"none", "pipeline", "classify"}]
  /\ findings \in [Docs -> SUBSET Clients]

ProcOK ==
  /\ crawl \in [Docs -> {"absent", "saved", "done"}]
  /\ events \subseteq Event
  /\ api \subseteq Request
  /\ recov \subseteq [q: Queues, doc: Docs]
  /\ up \in BOOLEAN
  /\ boot \in BOOLEAN

\* Every variable has the type of the column, the Redis key or the local it models.
TypeOK ==
  /\ RowOK
  /\ ProcOK
  /\ job \in [Queues -> [Docs -> JobRec]]
  /\ run \in [Queues -> [Slots -> RunRec]]
  /\ budget \in [Kinds -> Nat]

Init ==
  /\ status = [d \in Docs |-> "RECEIVED"]
  /\ hash = [d \in Docs |-> None]
  /\ canon = [d \in Docs |-> None]
  /\ hasText = [d \in Docs |-> FALSE]
  /\ lastError = [d \in Docs |-> "none"]
  /\ findings = [d \in Docs |-> {}]
  /\ crawl = [d \in Docs |-> "absent"]
  /\ job = [q \in Queues |-> [d \in Docs |-> NoJob]]
  /\ run = [q \in Queues |-> [s \in Slots |-> Idle]]
  /\ events = {}
  /\ api = {}
  /\ recov = {}
  /\ up = TRUE
  /\ boot = FALSE
  /\ budget = Budget

Spend(kind) ==
  /\ budget[kind] > 0
  /\ budget["any"] > 0
  /\ budget' = [budget EXCEPT ![kind] = @ - 1, !["any"] = @ - 1]

-----------------------------------------------------------------------------
(* Redis: the producer's enqueue and BullMQ's verdict on a failure.        *)

InFlight(q, d) == job[q][d].st \in {"waiting", "active"}

\* prepareJob followed by queue.add.  A job that is not in flight is removed and
\* added again.  One that is in flight is kept, unless the caller forces: a waiting
\* job is then replaced, and an active one cannot be removed, so that the add finds
\* its id taken and does nothing.
Enqueue(q, d, force) ==
  job' = IF ~InFlight(q, d) \/ (force /\ job[q][d].st = "waiting")
         THEN [job EXCEPT ![q][d] = [NoJob EXCEPT !.st = "waiting"]]
         ELSE job

\* Mutant: one attempt too many is waited for.
MutFinalOffByOne(made, stalledOut) == stalledOut \/ made > Attempts

\* The 'failed' handlers act only when this says that nobody will retry the job.
IsFinalBullMqFailure(made, stalledOut) == stalledOut \/ made >= Attempts

Owns(q, s, d) == job[q][d].st = "active" /\ job[q][d].owner = s

-----------------------------------------------------------------------------
(* Postgres: the row updates the handlers share.                           *)

MarkFailed(d, kind) ==
  /\ status' = [status EXCEPT ![d] = "FAILED"]
  /\ lastError' = [lastError EXCEPT ![d] = kind]
  /\ UNCHANGED <<hash, canon, hasText, findings>>

ResetRow(d) ==
  /\ status' = [status EXCEPT ![d] = "RECEIVED"]
  /\ lastError' = [lastError EXCEPT ![d] = "none"]
  /\ canon' = [canon EXCEPT ![d] = None]
  /\ hash' = [hash EXCEPT ![d] = None]
  /\ UNCHANGED <<hasText, findings>>

\* Mutant: the query and the index forget "canonical_document_id is null".
MutHoldersAnyRow(d) == {c \in Docs \ {d} : hash[c] = TextOf[d]}

\* Rows that hold d's content hash with no canonical: at most one, by the partial
\* unique index of the migration.
Holders(d) == {c \in Docs \ {d} : hash[c] = TextOf[d] /\ canon[c] = None}

-----------------------------------------------------------------------------
(* The worker: fetching a job and the steps of its handler.                *)

Goto(q, s, pc) == run' = [run EXCEPT ![q][s].pc = pc]

\* classify's guards on the row it reads first.
ClassifyEntry(d) ==
  IF status[d] \notin {"READY_FOR_AI", "CLASSIFIED"} \/ canon[d] # None THEN "end"
  ELSE IF d \in OldDocs THEN "mark"
  ELSE IF ~hasText[d] THEN "reject"
  ELSE IF NClients = 0 THEN "mark"
  ELSE "client"

Entry(q, d) ==
  CASE q = "extract"   -> "extract"
    [] q = "normalize" -> IF hasText[d] THEN "find" ELSE "noText"
    [] q = "classify"  -> ClassifyEntry(d)

Fetch(q, s, d) ==
  /\ up
  /\ run[q][s] = Idle
  /\ job[q][d].st = "waiting"
  /\ job' = [job EXCEPT ![q][d] = [@ EXCEPT !.st = "active", !.owner = s]]
  /\ run' = [run EXCEPT ![q][s] = [pc |-> Entry(q, d), doc |-> d, cand |-> None,
                                   client |-> IF q = "classify" /\ NClients > 0
                                              THEN 1 ELSE 0]]
  /\ UNCHANGED <<row, proc, budget>>

At(q, s, pc) == run[q][s].pc = pc

Extract(s) ==
  LET d == run["extract"][s].doc IN
  /\ At("extract", s, "extract")
  /\ \/ /\ d \notin OldDocs
        /\ status' = [status EXCEPT ![d] = "EXTRACTED"]
        /\ hasText' = [hasText EXCEPT ![d] = TRUE]
        /\ lastError' = [lastError EXCEPT ![d] = "none"]
        /\ UNCHANGED <<hash, canon, findings>>
        /\ Goto("extract", s, "enqNormalize")
     \/ /\ d \in OldDocs
        /\ status' = [status EXCEPT ![d] = "DISCARDED"]
        /\ lastError' = [lastError EXCEPT ![d] = "pipeline"]
        /\ UNCHANGED <<hash, canon, hasText, findings>>
        /\ Goto("extract", s, "end")
     \/ /\ MarkFailed(d, "pipeline")    \* unreadable file, short text, storage down
        /\ Goto("extract", s, "end")
  /\ UNCHANGED <<job, proc, budget>>

\* Mutant: the handler returns without enqueueing the next stage.
MutExtractForgets(s) ==
  /\ At("extract", s, "enqNormalize")
  /\ Goto("extract", s, "end")
  /\ UNCHANGED <<row, job, proc, budget>>

ExtractEnqueues(s) ==
  /\ At("extract", s, "enqNormalize")
  /\ Enqueue("normalize", run["extract"][s].doc, FALSE)
  /\ Goto("extract", s, "end")
  /\ UNCHANGED <<row, proc, budget>>

TakeCanonical(s, c) ==
  run' = [run EXCEPT !["normalize"][s] = [@ EXCEPT !.pc = "dedup", !.cand = c]]

NormalizeFind(s) ==
  LET d == run["normalize"][s].doc
      found == {c \in Holders(d) : status[c] \in {"CLASSIFIED", "READY_FOR_AI"}}
  IN
  /\ At("normalize", s, "find")
  /\ \/ /\ found = {}
        /\ Goto("normalize", s, "claim")
     \/ \E c \in found :
          TakeCanonical(s, c)
  /\ UNCHANGED <<row, job, proc, budget>>

\* Mutant: no unique index.
MutClaimNoIndex(s) ==
  LET d == run["normalize"][s].doc IN
  /\ At("normalize", s, "claim")
  /\ status' = [status EXCEPT ![d] = "READY_FOR_AI"]
  /\ hash' = [hash EXCEPT ![d] = TextOf[d]]
  /\ canon' = [canon EXCEPT ![d] = None]
  /\ lastError' = [lastError EXCEPT ![d] = "none"]
  /\ UNCHANGED <<hasText, findings>>
  /\ Goto("normalize", s, "enqClassify")
  /\ UNCHANGED <<job, proc, budget>>

\* The update to READY_FOR_AI, which the unique index refuses (P2002) when another
\* row holds the hash.
NormalizeClaim(s) ==
  LET d == run["normalize"][s].doc IN
  /\ At("normalize", s, "claim")
  /\ \/ /\ Holders(d) = {}
        /\ status' = [status EXCEPT ![d] = "READY_FOR_AI"]
        /\ hash' = [hash EXCEPT ![d] = TextOf[d]]
        /\ canon' = [canon EXCEPT ![d] = None]
        /\ lastError' = [lastError EXCEPT ![d] = "none"]
        /\ UNCHANGED <<hasText, findings>>
        /\ Goto("normalize", s, "enqClassify")
     \/ /\ Holders(d) # {}
        /\ UNCHANGED row
        /\ Goto("normalize", s, "winner")
  /\ UNCHANGED <<job, proc, budget>>

NormalizeWinner(s) ==
  LET d == run["normalize"][s].doc IN
  /\ At("normalize", s, "winner")
  /\ \/ /\ Holders(d) = {}
        /\ MarkFailed(d, "pipeline")
        /\ Goto("normalize", s, "end")
     \/ \E c \in Holders(d) :
          /\ TakeCanonical(s, c)
          /\ UNCHANGED row
  /\ UNCHANGED <<job, proc, budget>>

NormalizeDedup(s) ==
  LET d == run["normalize"][s].doc IN
  /\ At("normalize", s, "dedup")
  /\ status' = [status EXCEPT ![d] = "DEDUPED"]
  /\ hash' = [hash EXCEPT ![d] = TextOf[d]]
  /\ canon' = [canon EXCEPT ![d] = run["normalize"][s].cand]
  /\ lastError' = [lastError EXCEPT ![d] = "none"]
  /\ UNCHANGED <<hasText, findings>>
  /\ Goto("normalize", s, "end")
  /\ UNCHANGED <<job, proc, budget>>

\* There is no text, or an error is caught inside normalizeDedup's try block: the
\* document fails and the job completes.
NormalizeFails(s) ==
  /\ \/ At("normalize", s, "noText") /\ UNCHANGED budget
     \/ run["normalize"][s].pc \in {"find", "claim", "winner", "dedup"} /\ Spend("infra")
  /\ MarkFailed(run["normalize"][s].doc, "pipeline")
  /\ Goto("normalize", s, "end")
  /\ UNCHANGED <<job, proc>>

NormalizeEnqueues(s) ==
  /\ At("normalize", s, "enqClassify")
  /\ Enqueue("classify", run["normalize"][s].doc, FALSE)
  /\ Goto("normalize", s, "end")
  /\ UNCHANGED <<row, proc, budget>>

\* OpenAI answered for one client and its finding was upserted.
ClassifyForClient(s) ==
  LET r == run["classify"][s] IN
  /\ At("classify", s, "client")
  /\ findings' = [findings EXCEPT ![r.doc] = @ \cup {r.client}]
  /\ run' = IF r.client = NClients
            THEN [run EXCEPT !["classify"][s].pc = "mark"]
            ELSE [run EXCEPT !["classify"][s].client = @ + 1]
  /\ UNCHANGED <<status, hash, canon, hasText, lastError, job, proc, budget>>

\* Mutant: the catch around the loop does not rethrow.
MutClassifySwallows(s) ==
  LET d == run["classify"][s].doc IN
  /\ At("classify", s, "client")
  /\ lastError' = [lastError EXCEPT ![d] = "classify"]
  /\ Goto("classify", s, "mark")
  /\ UNCHANGED <<status, hash, canon, hasText, findings, job, proc, budget>>

\* OpenAI fails for one client: setLastError, then an error BullMQ retries, or an
\* UnrecoverableError (no key, a 4xx other than 429, an answer that does not parse).
ClassifyError(s) ==
  LET d == run["classify"][s].doc IN
  /\ At("classify", s, "client")
  /\ lastError' = [lastError EXCEPT ![d] = "classify"]
  /\ \/ Goto("classify", s, "throw") /\ UNCHANGED budget
     \/ Goto("classify", s, "reject") /\ Spend("reject")
  /\ UNCHANGED <<status, hash, canon, hasText, findings, job, proc>>

MarkClassified(s) ==
  LET d == run["classify"][s].doc IN
  /\ At("classify", s, "mark")
  /\ status' = [status EXCEPT ![d] = "CLASSIFIED"]
  /\ lastError' = [lastError EXCEPT ![d] = "none"]
  /\ UNCHANGED <<hash, canon, hasText, findings>>
  /\ Goto("classify", s, "end")
  /\ UNCHANGED <<job, proc, budget>>

\* A call to Postgres or Redis outside any try block rejects: the handler throws.
HandlerThrows(q, s) ==
  /\ \/ run[q][s].pc \in {"extract", "enqNormalize", "noText", "find",
                         "enqClassify", "mark"}
     \/ At(q, s, "client") /\ run[q][s].client = 1
  /\ Spend("infra")
  /\ Goto(q, s, "throw")
  /\ UNCHANGED <<row, job, proc>>

\* The handler's promise settles.  A slot that lost the lock no longer decides the
\* job's fate.
HandlerReturns(q, s) ==
  LET d == run[q][s].doc IN
  /\ At(q, s, "end")
  /\ job' = IF Owns(q, s, d)
            THEN [job EXCEPT ![q][d] = NoJob]
            ELSE job
  /\ run' = [run EXCEPT ![q][s] = Idle]
  /\ UNCHANGED <<row, proc, budget>>

\* Mutant: a job is retried whatever its attempts.
MutRetriesForever(q, s) ==
  LET d == run[q][s].doc IN
  /\ run[q][s].pc \in {"throw", "reject"}
  /\ Owns(q, s, d)
  /\ job' = [job EXCEPT ![q][d].st = "waiting", ![q][d].made = @ + 1, ![q][d].owner = None]
  /\ run' = [run EXCEPT ![q][s] = Idle]
  /\ UNCHANGED <<row, proc, budget>>

HandlerRejects(q, s) ==
  LET d == run[q][s].doc
      made == job[q][d].made + 1
      over == At(q, s, "reject") \/ made >= Attempts
      final == IsFinalBullMqFailure(made, FALSE)
  IN
  /\ run[q][s].pc \in {"throw", "reject"}
  /\ \/ /\ Owns(q, s, d)
        /\ job' = [job EXCEPT ![q][d] =
             IF over THEN NoJob
             ELSE [@ EXCEPT !.st = "waiting", !.made = made, !.owner = None]]
        /\ events' = events \cup
             (IF final THEN {[q |-> q, doc |-> d, armed |-> FALSE]} ELSE {})
     \/ /\ ~Owns(q, s, d)
        /\ UNCHANGED <<job, events>>
  /\ run' = [run EXCEPT ![q][s] = Idle]
  /\ UNCHANGED <<row, crawl, api, recov, up, boot, budget>>

-----------------------------------------------------------------------------
(* 'failed' events: failIfStatus and failIfClassifying, a read and a write. *)

HalfWay(q) ==
  CASE q = "extract"   -> {"RECEIVED"}
    [] q = "normalize" -> {"EXTRACTED"}
    [] q = "classify"  -> {"READY_FOR_AI"}

FailedReads(e) ==
  /\ up
  /\ ~e.armed
  /\ events' = (events \ {e}) \cup
       (IF status[e.doc] \in HalfWay(e.q) THEN {[e EXCEPT !.armed = TRUE]} ELSE {})
  /\ UNCHANGED <<row, job, run, crawl, api, recov, up, boot, budget>>

FailedWrites(e) ==
  /\ up
  /\ e.armed
  /\ MarkFailed(e.doc, IF e.q = "classify" THEN "classify" ELSE "pipeline")
  /\ events' = events \ {e}
  /\ UNCHANGED <<job, run, crawl, api, recov, up, boot, budget>>

-----------------------------------------------------------------------------
(* BullMQ's stalled check, crash, restart and the recovery pass.           *)

\* moveStalledJobsToWait: an active job whose lock has expired waits again, or fails
\* for good once it has stalled too often.
StalledCheck(q, d) ==
  LET n == job[q][d].stalled + 1
      out == n > MaxStalledCount
  IN
  /\ job' = [job EXCEPT ![q][d] =
       IF out THEN NoJob ELSE [@ EXCEPT !.st = "waiting", !.stalled = n, !.owner = None]]
  /\ events' = events \cup
       (IF IsFinalBullMqFailure(job[q][d].made, out)
        THEN {[q |-> q, doc |-> d, armed |-> FALSE]} ELSE {})
  /\ UNCHANGED <<row, run, crawl, api, recov, up, boot>>

\* The process that held the lock died.
StalledByCrash(q, d) ==
  /\ up
  /\ job[q][d].st = "active"
  /\ job[q][d].owner = None
  /\ StalledCheck(q, d)
  /\ UNCHANGED budget

\* The process that holds the lock was too busy to renew it; its handler goes on.
StalledWhileRunning(q, d) ==
  /\ up
  /\ job[q][d].st = "active"
  /\ job[q][d].owner # None
  /\ Spend("stall")
  /\ StalledCheck(q, d)

\* The worker dies: its handlers, its events and its recovery pass are gone, and nobody
\* renews the locks of its active jobs.
Crash ==
  /\ up
  /\ Spend("crash")
  /\ up' = FALSE
  /\ boot' = FALSE
  /\ run' = [q \in Queues |-> [s \in Slots |-> Idle]]
  /\ events' = {}
  /\ recov' = {}
  /\ crawl' = [d \in Docs |-> IF crawl[d] = "saved" THEN "done" ELSE crawl[d]]
  /\ job' = [q \in Queues |-> [d \in Docs |-> [job[q][d] EXCEPT !.owner = None]]]
  /\ UNCHANGED <<row, api>>

Restart ==
  /\ ~up
  /\ up' = TRUE
  /\ boot' = TRUE
  /\ UNCHANGED <<row, job, run, crawl, events, api, recov, budget>>

PipelineRequeueAction(d) ==
  CASE status[d] = "RECEIVED"     -> {"extract"}
    [] status[d] = "EXTRACTED"    -> {"normalize"}
    [] status[d] = "READY_FOR_AI" -> {"classify"}
    [] OTHER                      -> {}

RecoverReads ==
  /\ up
  /\ boot
  /\ boot' = FALSE
  /\ recov' = {r \in [q: Queues, doc: Docs] :
                 /\ crawl[r.doc] # "absent"
                 /\ r.q \in PipelineRequeueAction(r.doc)}
  /\ UNCHANGED <<row, job, run, crawl, events, api, up, budget>>

RecoverRequeues(r) ==
  /\ up
  /\ \/ Enqueue(r.q, r.doc, FALSE) /\ UNCHANGED budget
     \/ UNCHANGED job /\ Spend("lost")
  /\ recov' = recov \ {r}
  /\ UNCHANGED <<row, run, crawl, events, api, up, boot>>

-----------------------------------------------------------------------------
(* The crawl, as far as it concerns one document: saveRaw, then             *)
(* enqueueDocumentExtract, whose errors are swallowed.                     *)

SaveRaw(d) ==
  /\ up
  /\ \/ crawl[d] = "absent" /\ UNCHANGED budget
     \/ crawl[d] = "done" /\ Spend("recrawl")    \* same path: the row is found again
  /\ crawl' = [crawl EXCEPT ![d] = "saved"]
  /\ UNCHANGED <<row, job, run, events, api, recov, up, boot>>

EnqueueDocumentExtract(d) ==
  /\ up
  /\ crawl[d] = "saved"
  /\ crawl' = [crawl EXCEPT ![d] = "done"]
  /\ \/ Enqueue("extract", d, FALSE) /\ UNCHANGED budget
     \/ UNCHANGED job /\ Spend("lost")
  /\ UNCHANGED <<row, run, events, api, recov, up, boot>>

-----------------------------------------------------------------------------
(* Admin requests.                                                         *)

IsClassifyFailure(d) == lastError[d] = "classify"

DocumentNeedsExtractRetry(d) ==
  /\ canon[d] = None
  /\ \/ status[d] = "RECEIVED"
     \/ status[d] = "FAILED" /\ ~IsClassifyFailure(d)

DocumentNeedsClassify(d) ==
  /\ canon[d] = None
  /\ d \notin OldDocs
  /\ hasText[d]
  /\ Clients \ findings[d] # {}
  /\ \/ status[d] \in {"READY_FOR_AI", "CLASSIFIED"}
     \/ status[d] = "FAILED" /\ IsClassifyFailure(d)

Stored(d) == crawl[d] # "absent"

Reprocess(d) ==
  /\ Stored(d)
  /\ Spend("reset")
  /\ ResetRow(d)
  /\ api' = api \cup {[op |-> "extract", doc |-> d]}
  /\ UNCHANGED <<job, run, crawl, events, recov, up, boot>>

\* What enqueueClassifyForSource will do with the rows that the request has read.
ClassifyRequests ==
  {r \in Request :
     /\ r.op = IF status[r.doc] = "FAILED" THEN "reopen" ELSE "classify"
     /\ Stored(r.doc)
     /\ DocumentNeedsClassify(r.doc)}

\* POST /jobs/extract: the rows of the day are read once; those that need it are reset
\* and extracted again, those that lacked a finding when they were read are classified.
TriggerExtract ==
  /\ Spend("reset")
  /\ api' = api \cup ClassifyRequests \cup
       {r \in Request : /\ r.op = "reset"
                        /\ Stored(r.doc)
                        /\ DocumentNeedsExtractRetry(r.doc)}
  /\ UNCHANGED <<row, job, run, crawl, events, recov, up, boot>>

TriggerExtractResets(d) ==
  /\ [op |-> "reset", doc |-> d] \in api
  /\ ResetRow(d)
  /\ api' = (api \ {[op |-> "reset", doc |-> d]}) \cup {[op |-> "extract", doc |-> d]}
  /\ UNCHANGED <<job, run, crawl, events, recov, up, boot, budget>>

\* POST /jobs/classify.
TriggerClassify ==
  /\ Spend("ask")
  /\ api' = api \cup ClassifyRequests
  /\ UNCHANGED <<row, job, run, crawl, events, recov, up, boot>>

TriggerClassifyReopens(d) ==
  /\ [op |-> "reopen", doc |-> d] \in api
  /\ status' = [status EXCEPT ![d] = "READY_FOR_AI"]
  /\ lastError' = [lastError EXCEPT ![d] = "none"]
  /\ api' = (api \ {[op |-> "reopen", doc |-> d]}) \cup {[op |-> "classify", doc |-> d]}
  /\ UNCHANGED <<hash, canon, hasText, findings, job, run, crawl, events, recov,
                 up, boot, budget>>

\* POST /documents/:id/classify.
ClassifyRequest(d) ==
  /\ Stored(d)
  /\ canon[d] = None
  /\ status[d] \in {"READY_FOR_AI", "CLASSIFIED"}
  /\ Spend("ask")
  /\ api' = api \cup {[op |-> "classify", doc |-> d]}
  /\ UNCHANGED <<row, job, run, crawl, events, recov, up, boot>>

RequestEnqueues(r) ==
  /\ r.op \in {"extract", "classify"}
  /\ Enqueue(r.op, r.doc, TRUE)
  /\ api' = api \ {r}
  /\ UNCHANGED <<row, run, crawl, events, recov, up, boot, budget>>

\* Postgres or Redis rejects in a request: what it has not done yet stays undone.
RequestFails ==
  /\ Spend("lost")
  /\ \E undone \in SUBSET api \ {{}} : api' = api \ undone
  /\ UNCHANGED <<row, job, run, crawl, events, recov, up, boot>>

-----------------------------------------------------------------------------

Handler(s) ==
  \/ Extract(s) \/ ExtractEnqueues(s)
  \/ NormalizeFind(s) \/ NormalizeClaim(s)
  \/ NormalizeWinner(s) \/ NormalizeDedup(s) \/ NormalizeFails(s)
  \/ NormalizeEnqueues(s)
  \/ ClassifyForClient(s) \/ ClassifyError(s)
  \/ MarkClassified(s)

\* What the two processes do by themselves.
System ==
  \/ \E s \in Slots : Handler(s)
  \/ \E q \in Queues, s \in Slots :
       \/ HandlerReturns(q, s)
       \/ HandlerRejects(q, s)
       \/ \E d \in Docs : Fetch(q, s, d)
  \/ \E e \in events : FailedReads(e) \/ FailedWrites(e)
  \/ \E q \in Queues, d \in Docs : StalledByCrash(q, d)
  \/ Restart
  \/ RecoverReads
  \/ \E r \in recov : RecoverRequeues(r)
  \/ \E d \in Docs :
       EnqueueDocumentExtract(d) \/ TriggerExtractResets(d) \/ TriggerClassifyReopens(d)
  \/ \E r \in api : RequestEnqueues(r)

\* What happens to them: crawls, admins, failures.
Environment ==
  \/ \E q \in Queues, s \in Slots : HandlerThrows(q, s)
  \/ \E q \in Queues, d \in Docs : StalledWhileRunning(q, d)
  \/ Crash
  \/ \E d \in Docs :
       SaveRaw(d) \/ Reprocess(d) \/ ClassifyRequest(d)
  \/ TriggerExtract
  \/ TriggerClassify
  \/ RequestFails

Next == System \/ Environment

Spec == Init /\ [][Next]_vars

\* The worker and the API keep running what they have started; nobody has to crawl,
\* to ask for anything or to fail.
FairSpec == Spec /\ WF_vars(System)

-----------------------------------------------------------------------------
(* Properties.                                                             *)

Unspent(kinds) == \A k \in kinds : budget[k] = Budget[k]

\* As long as no admin has reset a row, every duplicate points at a row that is itself
\* canonical and holds the same content hash: normalizeDedup builds no chain and no
\* cycle, whatever the concurrency, the crashes, the stalls and the repeated jobs.
DedupPointsAtCanonical ==
  Unspent({"reset"}) =>
    \A d \in Docs : canon[d] # None =>
      /\ canon[canon[d]] = None
      /\ hash[canon[d]] = hash[d]

\* As long as no admin has reset a row, one content is analysed once: findings exist
\* for at most one of the documents that hold it (classify skips duplicates, and a
\* duplicate is never analysed before it is found to be one).
OneAnalysisPerText ==
  Unspent({"reset"}) =>
    \A d, e \in Docs :
      d # e /\ TextOf[d] = TextOf[e] => findings[d] = {} \/ findings[e] = {}

\* CLASSIFIED means the whole fan-out was done: every client linked to the source has
\* its finding, even when OpenAI failed halfway, the job was retried or ran twice.
ClassifiedIsComplete ==
  \A d \in Docs : status[d] = "CLASSIFIED" /\ d \notin OldDocs => findings[d] = Clients

\* Nothing is left to run in the worker, in Redis or in the API.
Quiet ==
  /\ up
  /\ ~boot
  /\ recov = {} /\ events = {} /\ api = {}
  /\ \A q \in Queues, s \in Slots : run[q][s] = Idle
  /\ \A q \in Queues, d \in Docs : ~InFlight(q, d)
  /\ \A d \in Docs : crawl[d] # "saved"

\* When nothing is left to run, no stored document is half way through the pipeline
\* (jobs.md: the document becomes FAILED if it was half way; otherwise the panel stays
\* in "Extrayendo / Analizando" though Redis has no work).
QuietMeansSettled ==
  Quiet => \A d \in Docs : Stored(d) => status[d] \in Settled

\* Whatever admins reset and whatever crashes or is lost, a content that has duplicates has
\* a document that is none: the dedups of two documents never cross, unless a stalled
\* normalize job runs twice at once.
ContentKeepsCanonical ==
  Unspent({"stall"}) =>
    \A d \in Docs : canon[d] # None =>
      \E c \in Docs : TextOf[c] = TextOf[d] /\ canon[c] = None

\* A document leaves the pipeline: every stored document is eventually classified,
\* found duplicate, failed or discarded.
EveryDocumentSettles ==
  \A d \in Docs : crawl[d] = "saved" ~> status[d] \in Settled

-----------------------------------------------------------------------------
(* What the pipeline implements as long as no row is reset.                *)

\* The row that holds a content hash with no canonical.
HolderOf(t) ==
  IF \E c \in Docs : hash[c] = t /\ canon[c] = None
  THEN CHOOSE c \in Docs : hash[c] = t /\ canon[c] = None
  ELSE None

Election == INSTANCE ContentElection WITH
  elected <- [t \in Texts |-> HolderOf(t)],
  original <- canon,
  analysed <- findings

\* The pipeline elects one document per content, once and for all, and analyses no
\* other: for every run in which nobody resets a row.
ImplementsElection == Election!Spec
=============================================================================
