----------------------------- MODULE CrawlJobs -----------------------------
(***************************************************************************)
(* The crawl of one source on one day.  The scheduler and the admins       *)
(* enqueue it under two idempotency keys; enqueueResolved reads the        *)
(* job_runs rows and Redis before it writes either; the handler of         *)
(* source.crawl, the 'failed' event and the recovery pass of a boot write  *)
(* the outcome of the run.                                                 *)
(*                                                                         *)
(* Sources and days do not meet: their keys differ.  What happens to the   *)
(* documents a crawl saves is DocPipeline's.                               *)
(***************************************************************************)
EXTENDS Naturals

CONSTANTS
  Slots,            \* crawl handlers (CRAWL_CONCURRENCY x worker replicas)
  Callers,          \* calls of enqueueSource / enqueueResolved under way at once
  KeyOf,            \* the idempotency key a caller asks for: the cron's or an admin's
  Attempts,         \* attempts of a job (producer default 3)
  MaxStalledCount,  \* maxStalledCount of the worker (2)
  Budget,           \* how often the environment may act, per kind: a bound
  None              \* null

\* What the environment does, and "any": all of it together.
Acts == {"crash", "stall", "infra", "lost", "toggle", "recover"}
Kinds == Acts \cup {"any"}

\* The idempotency keys of the day: {code}:{date}:admin and {code}:{date}:scheduled.
Keys == {"admin", "scheduled"}

Completed == {"SUCCESS", "SKIPPED"}
InProgress == {"QUEUED", "RUNNING"}
Statuses == Completed \cup InProgress \cup {"FAILED"}

ASSUME CrawlAssumption ==
  /\ Attempts \in Nat \ {0}
  /\ MaxStalledCount \in Nat
  /\ Budget \in [Kinds -> Nat]
  /\ KeyOf \in [Callers -> Keys]
  /\ None \notin Slots \cup Statuses

VARIABLES
  status,  \* job_runs.status of a key, None when there is no row
  saved,   \* some document carries the id of the key's run
  source,  \* sources.status is ACTIVE
  job,     \* Redis: the job of a key
  run,     \* the handler in a slot: program point and key
  call,    \* a call of the producer: program point, the row it read
  events,  \* final 'failed' events: not yet read, or about to write an outcome
  recov,   \* runs the recovery pass has read: not yet checked, or about to be closed
  up,      \* the worker process is running
  boot,    \* the recovery pass of this boot is still to run
  budget   \* what is left of Budget

worker == <<run, events, recov, up, boot>>
vars == <<status, saved, source, job, run, call, events, recov, up, boot, budget>>

NoJob    == [st |-> "absent", made |-> 0, stalled |-> 0, owner |-> None]
IdleSlot == [pc |-> "idle", key |-> None]
IdleCall == [pc |-> "idle", existing |-> None]

JobRec == [st: {"absent", "finished", "waiting", "active"}, made: 0..Attempts,
           stalled: 0..MaxStalledCount, owner: Slots \cup {None}]
RunRec == {IdleSlot} \cup
  [pc: {"running", "source", "crawl", "throw", "reject", "end"}, key: Keys]
CallRec == {IdleCall} \cup
  [pc: {"existing", "redis", "remove", "write", "add"},
   existing: (Statuses \ Completed) \cup {None}]
\* What is left to do about a run: decide it, or write it.
Closing == [key: Keys, outcome: {"SUCCESS", "FAILED", None}]

\* Every variable has the type of the row, the Redis key or the local it models.
TypeOK ==
  /\ status \in [Keys -> Statuses \cup {None}]
  /\ saved \in [Keys -> BOOLEAN]
  /\ source \in BOOLEAN
  /\ job \in [Keys -> JobRec]
  /\ run \in [Slots -> RunRec]
  /\ call \in [Callers -> CallRec]
  /\ events \subseteq Closing
  /\ recov \subseteq Closing
  /\ up \in BOOLEAN
  /\ boot \in BOOLEAN
  /\ budget \in [Kinds -> Nat]

Init ==
  /\ status = [k \in Keys |-> None]
  /\ saved = [k \in Keys |-> FALSE]
  /\ source = TRUE
  /\ job = [k \in Keys |-> NoJob]
  /\ run = [s \in Slots |-> IdleSlot]
  /\ call = [c \in Callers |-> IdleCall]
  /\ events = {}
  /\ recov = {}
  /\ up = TRUE
  /\ boot = FALSE
  /\ budget = Budget

Spend(kind) ==
  /\ budget[kind] > 0
  /\ budget["any"] > 0
  /\ budget' = [budget EXCEPT ![kind] = @ - 1, !["any"] = @ - 1]

InFlight(k) == job[k].st \in {"waiting", "active"}

-----------------------------------------------------------------------------
(* The producer, in the API for an admin and in the worker for the cron.   *)

CallAt(c, pc) == call[c].pc = pc
CallGoto(c, pc) == call' = [call EXCEPT ![c].pc = pc]
Return(c) == call' = [call EXCEPT ![c] = IdleCall]

\* A run of the day, under either key, that is completed or in progress.
SameDayCrawlBlock == \E k \in Keys : status[k] \in Completed \cup InProgress

\* The call up to its read of the day's runs; a call that is blocked changes nothing.
EnqueueSource(c) ==
  /\ CallAt(c, "idle")
  /\ source
  /\ KeyOf[c] = "scheduled" => up
  /\ ~SameDayCrawlBlock
  /\ CallGoto(c, "existing")
  /\ UNCHANGED <<status, saved, source, job, worker, budget>>

ReadExisting(c) ==
  LET k == KeyOf[c] IN
  /\ CallAt(c, "existing")
  /\ call' = [call EXCEPT ![c] =
       IF status[k] \in Completed THEN IdleCall
       ELSE [@ EXCEPT !.pc = "redis", !.existing = status[k]]]
  /\ UNCHANGED <<status, saved, source, job, worker, budget>>

\* Nothing to do while the job is in flight, nor for a cron whose run failed.
ReadRedis(c) ==
  LET k == KeyOf[c] IN
  /\ CallAt(c, "redis")
  /\ \/ /\ InFlight(k) \/ (call[c].existing = "FAILED" /\ k = "scheduled")
        /\ Return(c)
     \/ /\ ~InFlight(k)
        /\ ~(call[c].existing = "FAILED" /\ k = "scheduled")
        /\ CallGoto(c, IF job[k].st = "finished" THEN "remove" ELSE "write")
  /\ UNCHANGED <<status, saved, source, job, worker, budget>>

\* The job goes, whatever it has become; an active one is locked and stays.
RemoveStaleJob(c) ==
  LET k == KeyOf[c] IN
  /\ CallAt(c, "remove")
  /\ job' = IF job[k].st = "active" THEN job ELSE [job EXCEPT ![k] = NoJob]
  /\ CallGoto(c, "write")
  /\ UNCHANGED <<status, saved, source, worker, budget>>

\* create, refused by the unique key when the row exists by now; or an update of the
\* row that was read, whatever it has become.
WriteRun(c) ==
  LET k == KeyOf[c] IN
  /\ CallAt(c, "write")
  /\ \/ /\ call[c].existing = None /\ status[k] # None
        /\ Return(c)
        /\ UNCHANGED status
     \/ /\ call[c].existing = None => status[k] = None
        /\ status' = [status EXCEPT ![k] = "QUEUED"]
        /\ CallGoto(c, "add")
  /\ UNCHANGED <<saved, source, job, worker, budget>>

\* BullMQ ignores an add whose job id exists.
AddJob(c) ==
  LET k == KeyOf[c] IN
  /\ CallAt(c, "add")
  /\ job' = IF job[k].st = "absent" THEN [job EXCEPT ![k] = [NoJob EXCEPT !.st = "waiting"]]
            ELSE job
  /\ Return(c)
  /\ UNCHANGED <<status, saved, source, worker, budget>>

\* The call is cut off: Postgres or Redis rejects, or its process dies.  An add that
\* rejects writes FAILED back when the run was FAILED.
CallFails(c) ==
  /\ ~CallAt(c, "idle")
  /\ Spend("lost")
  /\ \/ UNCHANGED status
     \/ /\ CallAt(c, "add") /\ call[c].existing = "FAILED"
        /\ status' = [status EXCEPT ![KeyOf[c]] = "FAILED"]
  /\ Return(c)
  /\ UNCHANGED <<saved, source, job, worker>>

\* An admin deactivates or activates the source.
ToggleSource ==
  /\ Spend("toggle")
  /\ source' = ~source
  /\ UNCHANGED <<status, saved, job, worker, call>>

-----------------------------------------------------------------------------
(* The handler of source.crawl.                                            *)

At(s, pc) == run[s].pc = pc
Goto(s, pc) == run' = [run EXCEPT ![s].pc = pc]
Owns(s, k) == job[k].st = "active" /\ job[k].owner = s

Fetch(s, k) ==
  /\ up
  /\ At(s, "idle")
  /\ job[k].st = "waiting"
  /\ job' = [job EXCEPT ![k] = [@ EXCEPT !.st = "active", !.owner = s]]
  /\ run' = [run EXCEPT ![s] =
       [pc |-> IF status[k] \in Completed THEN "end" ELSE "running", key |-> k]]
  /\ UNCHANGED <<status, saved, source, call, events, recov, up, boot, budget>>

MarkRunning(s) ==
  /\ At(s, "running")
  /\ status' = [status EXCEPT ![run[s].key] = "RUNNING"]
  /\ Goto(s, "source")
  /\ UNCHANGED <<saved, source, job, call, events, recov, up, boot, budget>>

ReadSource(s) ==
  /\ At(s, "source")
  /\ \/ source /\ Goto(s, "crawl") /\ UNCHANGED status
     \/ /\ ~source
        /\ status' = [status EXCEPT ![run[s].key] = "SKIPPED"]
        /\ Goto(s, "end")
  /\ UNCHANGED <<saved, source, job, call, events, recov, up, boot, budget>>

\* A page that can be extracted is stored and gets the id of the run.
SavePage(s) ==
  /\ At(s, "crawl")
  /\ ~saved[run[s].key]
  /\ saved' = [saved EXCEPT ![run[s].key] = TRUE]
  /\ UNCHANGED <<status, source, job, call, worker, budget>>

Succeed(s) ==
  /\ At(s, "crawl")
  /\ status' = [status EXCEPT ![run[s].key] = "SUCCESS"]
  /\ Goto(s, "end")
  /\ UNCHANGED <<saved, source, job, call, events, recov, up, boot, budget>>

\* The catch: FAILED is written at every attempt, then an error that BullMQ retries, or
\* an UnrecoverableError.
Fail(s) ==
  /\ At(s, "crawl")
  /\ status' = [status EXCEPT ![run[s].key] = "FAILED"]
  /\ Goto(s, "throw") \/ Goto(s, "reject")
  /\ UNCHANGED <<saved, source, job, call, events, recov, up, boot, budget>>

\* A call to Postgres rejects outside the try block, or in the catch.
HandlerThrows(s) ==
  /\ run[s].pc \in {"running", "source", "crawl"}
  /\ Spend("infra")
  /\ Goto(s, "throw")
  /\ UNCHANGED <<status, saved, source, job, call, events, recov, up, boot>>

HandlerReturns(s) ==
  LET k == run[s].key IN
  /\ At(s, "end")
  /\ job' = IF Owns(s, k) THEN [job EXCEPT ![k] = [NoJob EXCEPT !.st = "finished"]] ELSE job
  /\ run' = [run EXCEPT ![s] = IdleSlot]
  /\ UNCHANGED <<status, saved, source, call, events, recov, up, boot, budget>>

\* Mutant of IsFinalBullMqFailure: one attempt too late.
MutFinalOffByOne(made, stalledOut) == stalledOut \/ made > Attempts

IsFinalBullMqFailure(made, stalledOut) == stalledOut \/ made >= Attempts

Unread(k) == [key |-> k, outcome |-> None]

\* Mutant of HandlerRejects: the attempts are not counted against the limit.
MutRetriesForever(s) ==
  LET k == run[s].key IN
  /\ run[s].pc \in {"throw", "reject"}
  /\ \/ /\ Owns(s, k)
        /\ job' = [job EXCEPT ![k] =
             [@ EXCEPT !.st = "waiting", !.made = @ + 1, !.owner = None]]
     \/ ~Owns(s, k) /\ UNCHANGED job
  /\ run' = [run EXCEPT ![s] = IdleSlot]
  /\ UNCHANGED <<status, saved, source, call, events, recov, up, boot, budget>>

HandlerRejects(s) ==
  LET k == run[s].key
      made == job[k].made + 1
      over == At(s, "reject") \/ made >= Attempts
  IN
  /\ run[s].pc \in {"throw", "reject"}
  /\ \/ /\ Owns(s, k)
        /\ job' = [job EXCEPT ![k] =
             IF over THEN [NoJob EXCEPT !.st = "finished"]
             ELSE [@ EXCEPT !.st = "waiting", !.made = made, !.owner = None]]
        /\ events' = events \cup
             (IF IsFinalBullMqFailure(made, FALSE) THEN {Unread(k)} ELSE {})
     \/ ~Owns(s, k) /\ UNCHANGED <<job, events>>
  /\ run' = [run EXCEPT ![s] = IdleSlot]
  /\ UNCHANGED <<status, saved, source, call, recov, up, boot, budget>>

-----------------------------------------------------------------------------
(* What closes a run that its handler did not close.                       *)

Outcome(k) == IF saved[k] THEN "SUCCESS" ELSE "FAILED"

\* Mutant of FailedReads: a run whose handler never got to RUNNING is forgotten.
MutFailedOnlyRunning(e) ==
  /\ up
  /\ e.outcome = None
  /\ events' = (events \ {e}) \cup
       (IF status[e.key] = "RUNNING" THEN {[e EXCEPT !.outcome = Outcome(e.key)]} ELSE {})
  /\ UNCHANGED <<status, saved, source, job, call, run, recov, up, boot, budget>>

\* onCrawlJobFailed: the row and the number of its documents are read, then written.
FailedReads(e) ==
  /\ up
  /\ e.outcome = None
  /\ events' = (events \ {e}) \cup
       (IF status[e.key] \in InProgress THEN {[e EXCEPT !.outcome = Outcome(e.key)]} ELSE {})
  /\ UNCHANGED <<status, saved, source, job, call, run, recov, up, boot, budget>>

FailedWrites(e) ==
  /\ up
  /\ e.outcome # None
  /\ status' = [status EXCEPT ![e.key] = e.outcome]
  /\ events' = events \ {e}
  /\ UNCHANGED <<saved, source, job, call, run, recov, up, boot, budget>>

StalledCheck(k) ==
  LET n == job[k].stalled + 1
      out == n > MaxStalledCount
  IN
  /\ job' = [job EXCEPT ![k] =
       IF out THEN [NoJob EXCEPT !.st = "finished"]
       ELSE [@ EXCEPT !.st = "waiting", !.stalled = n, !.owner = None]]
  /\ events' = events \cup
       (IF IsFinalBullMqFailure(job[k].made, out) THEN {Unread(k)} ELSE {})
  /\ UNCHANGED <<status, saved, source, call, run, recov, up, boot>>

\* The process that held the lock died.
StalledByCrash(k) ==
  /\ up
  /\ job[k].st = "active"
  /\ job[k].owner = None
  /\ StalledCheck(k)
  /\ UNCHANGED budget

\* The process that holds the lock was too busy to renew it; its handler goes on.
StalledWhileRunning(k) ==
  /\ up
  /\ job[k].st = "active"
  /\ job[k].owner # None
  /\ Spend("stall")
  /\ StalledCheck(k)

\* The worker dies, and with it the cron.  So it does when onCrawlJobFailed rejects, which
\* nothing catches.
Crash ==
  /\ up
  /\ Spend("crash")
  /\ up' = FALSE
  /\ boot' = FALSE
  /\ run' = [s \in Slots |-> IdleSlot]
  /\ call' = [c \in Callers |-> IF KeyOf[c] = "scheduled" THEN IdleCall ELSE call[c]]
  /\ events' = {}
  /\ recov' = {}
  /\ job' = [k \in Keys |-> [job[k] EXCEPT !.owner = None]]
  /\ UNCHANGED <<status, saved, source>>

Restart ==
  /\ ~up
  /\ up' = TRUE
  /\ boot' = TRUE
  /\ UNCHANGED <<status, saved, source, job, run, call, events, recov, budget>>

RecoverReads ==
  /\ up
  /\ boot
  /\ boot' = FALSE
  /\ recov' = {Unread(k) : k \in {x \in Keys : status[x] \in InProgress}}
  /\ UNCHANGED <<status, saved, source, job, run, call, events, up, budget>>

\* abandonedCrawlResolution leaves a run whose job is in flight.
RecoverChecks(r) ==
  /\ up
  /\ r.outcome = None
  /\ recov' = (recov \ {r}) \cup
       (IF InFlight(r.key) THEN {} ELSE {[r EXCEPT !.outcome = Outcome(r.key)]})
  /\ UNCHANGED <<status, saved, source, job, run, call, events, up, boot, budget>>

RecoverCloses(r) ==
  /\ up
  /\ r.outcome # None
  /\ status' = [status EXCEPT ![r.key] = r.outcome]
  /\ recov' = recov \ {r}
  /\ UNCHANGED <<saved, source, job, run, call, events, up, boot, budget>>

\* Postgres or Redis rejects a call of the pass, which ends with it: the error is logged.
RecoverRejects ==
  /\ up
  /\ boot \/ recov # {}
  /\ Spend("recover")
  /\ boot' = FALSE
  /\ recov' = {}
  /\ UNCHANGED <<status, saved, source, job, run, call, events, up>>

-----------------------------------------------------------------------------

Producer(c) ==
  \/ ReadExisting(c) \/ ReadRedis(c) \/ RemoveStaleJob(c) \/ WriteRun(c) \/ AddJob(c)

Handler(s) ==
  \/ MarkRunning(s) \/ ReadSource(s)
  \/ SavePage(s) \/ Succeed(s) \/ Fail(s)
  \/ HandlerReturns(s) \/ HandlerRejects(s)

Worker ==
  \/ \E s \in Slots : Handler(s)
  \/ \E s \in Slots, k \in Keys : Fetch(s, k)
  \/ \E k \in Keys : StalledByCrash(k)
  \/ \E e \in events : FailedReads(e) \/ FailedWrites(e)
  \/ Restart
  \/ RecoverReads
  \/ \E r \in recov : RecoverChecks(r) \/ RecoverCloses(r)

Environment ==
  \/ \E c \in Callers : EnqueueSource(c)
  \/ \E c \in Callers : CallFails(c)
  \/ ToggleSource
  \/ \E s \in Slots : HandlerThrows(s)
  \/ \E k \in Keys : StalledWhileRunning(k)
  \/ Crash
  \/ RecoverRejects

Next ==
  \/ \E c \in Callers : Producer(c)
  \/ Worker
  \/ Environment

Spec == Init /\ [][Next]_vars

\* A call that has started goes on, and the worker keeps working.
FairSpec ==
  /\ Spec
  /\ WF_vars(Worker)
  /\ \A c \in Callers : WF_vars(Producer(c))

-----------------------------------------------------------------------------
(* Properties.                                                             *)

\* A source is crawled once a day: a SUCCESS of the cron blocks the admin's crawl and a
\* SUCCESS of the admin the cron's (jobs.md: "Un SUCCESS del cron o de un clic admin
\* bloquea el otro").
DayCrawledOnce == ~ \A k \in Keys : status[k] = "SUCCESS"

\* Nothing is left to run in the producer, in Redis or in the worker.
Quiet ==
  /\ up
  /\ ~boot
  /\ events = {} /\ recov = {}
  /\ \A c \in Callers : CallAt(c, "idle")
  /\ \A s \in Slots : At(s, "idle")
  /\ \A k \in Keys : ~InFlight(k)

Spent(act) == budget[act] < Budget[act]

\* A handler that had lost its job has thrown: nobody looks at its run again before the
\* next boot.
ZombieThrew == Spent("stall") /\ Spent("infra")

\* When nothing is left to run, no run is in progress: one that is blocks the crawls of
\* the whole day and leaves the panel in "Rastreando".  The next boot has to see to a call
\* that was cut off, to a zombie, and to what a recovery pass that was cut off has left.
QuietMeansClosed ==
  Quiet /\ ~Spent("lost") /\ ~Spent("recover") /\ ~ZombieThrew =>
    \A k \in Keys : status[k] \notin InProgress

\* One call at a time asks for a key.  The code does not see to it: two admins may ask for
\* the crawl of one source at once, and QuietMeansClosed is then violated.
OneCallPerKey == \A c, d \in Callers : KeyOf[c] = KeyOf[d] => c = d

\* What the proof of QuietMeansClosed needs besides.  The environment stays in its budget.
BudgetInv == \A a \in Acts : budget[a] <= Budget[a]

\* A handler owns its job from Fetch to its end, or the stalled check has taken it away:
\* `stall` is the only way to work for a job that another handler may have as well.
OwnersInv ==
  /\ \A k \in Keys, s \in Slots : Owns(s, k) => ~At(s, "idle") /\ run[s].key = k
  /\ \A s \in Slots : ~At(s, "idle") /\ ~Owns(s, run[s].key) => Spent("stall")

\* A call that goes on past ReadRedis found nothing in flight, nothing gets in flight before
\* it adds its job, and by then no job of that id is left for `add` to be ignored over.
CallsInv == \A c \in Callers :
  /\ call[c].pc \in {"remove", "write", "add"} => ~InFlight(KeyOf[c])
  /\ call[c].pc \in {"write", "add"} => job[KeyOf[c]].st = "absent"

\* Handlers that are still to write an outcome for the run, and those that have written it.
Crawling(k) == \E s \in Slots : run[s].key = k /\ run[s].pc \in {"running", "source", "crawl"}
Ended(s) == run[s].pc \in {"end", "reject"}

\* Who will see to a run that is in progress: the next boot, the 'failed' event, the recovery
\* pass, its job, a handler, the call that is about to add its job.
Guarded(k) ==
  \/ ~up \/ boot
  \/ \E e \in events \cup recov : e.key = k
  \/ InFlight(k) /\ \A s \in Slots : Owns(s, k) => ~Ended(s)
  \/ Crawling(k)
  \/ \E c \in Callers : KeyOf[c] = k /\ CallAt(c, "add")

\* A run that is in progress again although its handler has written an outcome is a zombie's.
GuardInv ==
  ~Spent("lost") /\ ~Spent("recover") /\ ~ZombieThrew =>
    \A k \in Keys : status[k] \in InProgress =>
      /\ Guarded(k)
      /\ \A s \in Slots : Owns(s, k) /\ Ended(s) => Crawling(k)

ClosingInv == BudgetInv /\ OwnersInv /\ CallsInv /\ GuardInv

\* A run that is RUNNING does not stay so: its handler ends it, or the 'failed' event, or
\* the recovery pass of the next boot (jobs.md: "job_runs deja de estar RUNNING"), unless
\* that pass is cut off.
EveryRunCloses ==
  \A k \in Keys :
    status[k] = "RUNNING" ~> status[k] # "RUNNING" \/ ZombieThrew \/ Spent("recover")

=============================================================================
