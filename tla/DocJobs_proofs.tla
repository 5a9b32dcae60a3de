--------------------------- MODULE DocJobs_proofs ---------------------------
(***************************************************************************)
(* Theorems about DocPipeline that rest on who runs a job: unless BullMQ   *)
(* gives the job of a handler that still runs to a second one, no two      *)
(* handlers of a queue treat one document.  Hence no reset, crash or lost  *)
(* call leaves a content with duplicates only, and a pipeline that meets   *)
(* nothing but rejected calls, or one request, leaves nothing half way.    *)
(***************************************************************************)
EXTENDS DocPipeline_proofs

\* A budget that is not spent after a step was not spent before it, nor by it.
LEMMA UnspentStep ==
  ASSUME TypeOK, BudgetInv, [Next]_vars, NEW k \in Acts, Unspent({k})'
  PROVE  Unspent({k}) /\ ~Spend(k)
  <1>1. \A j \in Kinds : budget[j] \in Nat /\ Budget[j] \in Nat /\ budget[j] <= Budget[j]
    BY PipelineAssumption DEF TypeOK, BudgetInv
  <1>2. k \in Kinds /\ k # "any" /\ budget'[k] = Budget[k]
    BY DEF Kinds, Acts, Unspent
  <1>3. \A j \in Kinds \ {"any"} : Spend(j) => budget'[j] = budget[j] - 1
    BY DEF Spend, TypeOK
  <1>4. ~Spend(k)
    BY <1>1, <1>2, <1>3
  <1>5. budget[k] = budget'[k]
    <2>1. CASE UNCHANGED budget
      BY <2>1
    <2>2. ASSUME NEW j \in Acts, Spend(j)
          PROVE  budget[k] = budget'[k]
      BY <1>2, <1>4, <2>2 DEF Spend, TypeOK
    <2> QED
      BY <2>1, <2>2, BudgetStep
  <1> QED
    BY <1>2, <1>4, <1>5 DEF Unspent

-----------------------------------------------------------------------------
(* Who runs a job.                                                         *)

\* A handler holds the lock of its job.
Owned ==
  \A q \in Queues, s \in Slots : run[q][s].pc # "idle" => Owns(q, s, run[q][s].doc)

\* Jobs that are active stay what they are.
ActiveKept ==
  \A q \in Queues, d \in Docs : job[q][d].st = "active" => job'[q][d] = job[q][d]

\* Handlers go on with the document they have, or end.
DocsKept ==
  \A q \in Queues, s \in Slots : run'[q][s].pc # "idle" =>
    run[q][s].pc # "idle" /\ run'[q][s].doc = run[q][s].doc

LEMMA EnqueueKeepsActive ==
  ASSUME TypeOK, NEW q \in Queues, NEW d \in Docs, NEW force \in BOOLEAN,
         Enqueue(q, d, force)
  PROVE  ActiveKept
  <1>1. job \in [Queues -> [Docs -> JobRec]]
    BY DEF TypeOK
  <1>2. job[q][d].st = "active" => job' = job
    BY DEF Enqueue, InFlight
  <1>3. \A p \in Queues, x \in Docs : p # q \/ x # d => job'[p][x] = job[p][x]
    BY <1>1 DEF Enqueue
  <1> QED
    BY <1>2, <1>3 DEF ActiveKept

LEMMA GotoKeepsDocs ==
  ASSUME TypeOK, NEW q \in Queues, NEW s \in Slots, NEW pc, Goto(q, s, pc)
  PROVE  /\ \A p \in Queues, t \in Slots : p # q \/ t # s => run'[p][t] = run[p][t]
         /\ run[q][s].pc # "idle" => /\ run'[q][s].pc = pc
                                     /\ run'[q][s].doc = run[q][s].doc
  <1>1. run \in [Queues -> [Slots -> RunRec]]
    BY DEF TypeOK
  <1>2. run[q][s].pc # "idle" => run[q][s] \in BusyRec
    BY BusyType
  <1> QED
    BY <1>1, <1>2 DEF Goto, BusyRec

LEMMA OwnedFrame ==
  ASSUME TypeOK, Owned, ActiveKept, DocsKept
  PROVE  Owned'
  <1> SUFFICES ASSUME NEW q \in Queues, NEW s \in Slots, run'[q][s].pc # "idle"
               PROVE  Owns(q, s, run[q][s].doc)'
    BY DEF Owned
  <1>1. run[q][s].pc # "idle" /\ run'[q][s].doc = run[q][s].doc
    BY DEF DocsKept
  <1>2. run[q][s].doc \in Docs /\ Owns(q, s, run[q][s].doc)
    BY <1>1, BusyType DEF Owned
  <1> QED
    BY <1>1, <1>2 DEF ActiveKept, Owns

\* The steps inside a handler.
LEMMA HandlerKeepsOwned ==
  ASSUME TypeOK, Owned, NEW s \in Slots,
         Handler(s) \/ \E q \in Queues : HandlerThrows(q, s)
  PROVE  Owned'
  <1> USE DEF Queues
  <1>1. ASSUME NEW q \in Queues, NEW pc, Goto(q, s, pc), run[q][s].pc # "idle"
        PROVE  DocsKept
    BY <1>1, GotoKeepsDocs DEF DocsKept
  <1>2. UNCHANGED job => ActiveKept
    BY DEF ActiveKept
  <1>3. CASE Extract(s) \/ ExtractEnqueues(s)
    <2>1. DocsKept
      BY <1>1, <1>3 DEF Extract, ExtractEnqueues, At
    <2>2. run["extract"][s].doc \in Docs
      BY <1>3, BusyType DEF Extract, ExtractEnqueues, At
    <2>3. ActiveKept
      BY <1>2, <1>3, <2>2, EnqueueKeepsActive DEF Extract, ExtractEnqueues
    <2> QED
      BY <2>1, <2>3, OwnedFrame
  <1>4. CASE \/ NormalizeFind(s) \/ NormalizeClaim(s) \/ NormalizeWinner(s)
             \/ NormalizeDedup(s) \/ NormalizeFails(s) \/ NormalizeEnqueues(s)
    <2> DEFINE r == run["normalize"][s]
    <2>1. r.pc # "idle" /\ r \in BusyRec /\ r.doc \in Docs
      BY <1>4, BusyType DEF NormalizeFind, NormalizeClaim, NormalizeWinner, NormalizeDedup,
         NormalizeFails, NormalizeEnqueues, At
    <2>2. ASSUME NEW c, TakeCanonical(s, c)
          PROVE  DocsKept
      BY <2>1, <2>2 DEF TakeCanonical, DocsKept, TypeOK, BusyRec
    <2>3. DocsKept
      BY <1>1, <1>4, <2>1, <2>2 DEF NormalizeFind, NormalizeClaim, NormalizeWinner,
         NormalizeDedup, NormalizeFails, NormalizeEnqueues
    <2>4. ActiveKept
      BY <1>2, <1>4, <2>1, EnqueueKeepsActive DEF NormalizeFind, NormalizeClaim,
         NormalizeWinner, NormalizeDedup, NormalizeFails, NormalizeEnqueues
    <2> QED
      BY <2>3, <2>4, OwnedFrame
  <1>5. CASE ClassifyForClient(s) \/ ClassifyError(s) \/ MarkClassified(s)
    <2> DEFINE r == run["classify"][s]
    <2>1. r.pc # "idle" /\ r \in BusyRec /\ r.doc \in Docs
      BY <1>5, BusyType DEF ClassifyForClient, ClassifyError, MarkClassified, At
    <2>2. ClassifyForClient(s) => DocsKept
      BY <2>1 DEF ClassifyForClient, DocsKept, TypeOK, BusyRec
    <2>3. DocsKept
      BY <1>1, <1>5, <2>1, <2>2 DEF ClassifyError, MarkClassified
    <2>4. ActiveKept
      BY <1>2, <1>5 DEF ClassifyForClient, ClassifyError, MarkClassified
    <2> QED
      BY <2>3, <2>4, OwnedFrame
  <1>6. ASSUME NEW q \in Queues, HandlerThrows(q, s)
        PROVE  Owned'
    <2>1. DocsKept
      BY <1>1, <1>6 DEF HandlerThrows, At
    <2> QED
      BY <1>2, <1>6, <2>1, OwnedFrame DEF HandlerThrows
  <1> QED
    BY <1>3, <1>4, <1>5, <1>6 DEF Handler

\* A job is handed out when nobody has it, and taken back from the one who has it.
LEMMA FetchKeepsOwned ==
  ASSUME TypeOK, Owned, NEW q \in Queues, NEW s \in Slots, NEW d \in Docs, Fetch(q, s, d)
  PROVE  Owned'
  <1> DEFINE rec == [pc |-> Entry(q, d), doc |-> d, cand |-> None,
                     client |-> IF q = "classify" /\ NClients > 0 THEN 1 ELSE 0]
  <1>1. job \in [Queues -> [Docs -> JobRec]] /\ run \in [Queues -> [Slots -> RunRec]]
    BY DEF TypeOK
  <1>2. /\ run'[q][s].doc = d
        /\ \A p \in Queues, t \in Slots : p # q \/ t # s => run'[p][t] = run[p][t]
    <2>1. rec.doc = d /\ run' = [run EXCEPT ![q][s] = rec]
      BY DEF Fetch
    <2> HIDE DEF rec
    <2> QED
      BY <1>1, <2>1
  <1>3. /\ job'[q][d].st = "active" /\ job'[q][d].owner = s
        /\ \A p \in Queues, x \in Docs : p # q \/ x # d => job'[p][x] = job[p][x]
    BY <1>1 DEF Fetch, JobRec
  <1>4. \A t \in Slots : run[q][t].pc # "idle" => run[q][t].doc # d
    BY DEF Fetch, Owned, Owns
  <1>5. \A p \in Queues, t \in Slots : run[p][t].pc # "idle" => run[p][t].doc \in Docs
    BY BusyType
  <1> QED
    BY <1>2, <1>3, <1>4, <1>5 DEF Owned, Owns

\* What becomes of the job of a handler that settles.
LEMMA SettledJob ==
  ASSUME TypeOK, NEW q \in Queues, NEW s \in Slots,
         HandlerReturns(q, s) \/ HandlerRejects(q, s),
         run[q][s].pc # "idle", Owns(q, s, run[q][s].doc)
  PROVE  LET d == run[q][s].doc
             made == job[q][d].made + 1
             over == ~At(q, s, "throw") \/ made >= Attempts
         IN
         /\ run'[q][s] = Idle
         /\ \A p \in Queues, t \in Slots : p # q \/ t # s => run'[p][t] = run[p][t]
         /\ \A p \in Queues, x \in Docs : p # q \/ x # d => job'[p][x] = job[p][x]
         /\ over => job'[q][d] = NoJob
         /\ ~over => /\ job'[q][d].st = "waiting"
                     /\ job'[q][d].made = made
                     /\ job'[q][d].owner = None
  <1> DEFINE d == run[q][s].doc
             made == job[q][d].made + 1
             over == ~At(q, s, "throw") \/ made >= Attempts
             next == IF over THEN NoJob
                     ELSE [job[q][d] EXCEPT !.st = "waiting", !.made = made, !.owner = None]
  <1>1. job \in [Queues -> [Docs -> JobRec]] /\ run \in [Queues -> [Slots -> RunRec]]
    BY DEF TypeOK
  <1>2. d \in Docs /\ job[q][d] \in JobRec
    BY <1>1, BusyType
  <1>3. run' = [run EXCEPT ![q][s] = Idle]
    BY DEF HandlerReturns, HandlerRejects
  <1>4. run'[q][s] = Idle /\ \A p \in Queues, t \in Slots : p # q \/ t # s => run'[p][t] = run[p][t]
    BY <1>1, <1>3
  <1>5. job' = [job EXCEPT ![q][d] = next]
    BY DEF HandlerReturns, HandlerRejects, At
  <1>6. /\ over => next = NoJob
        /\ ~over => next.st = "waiting" /\ next.made = made /\ next.owner = None
    BY <1>2 DEF JobRec
  <1> HIDE DEF next
  <1>7. job'[q][d] = next /\ \A p \in Queues, x \in Docs : p # q \/ x # d => job'[p][x] = job[p][x]
    BY <1>1, <1>2, <1>5
  <1> QED
    BY <1>4, <1>6, <1>7

LEMMA SettleKeepsOwned ==
  ASSUME TypeOK, Owned, NEW q \in Queues, NEW s \in Slots,
         HandlerReturns(q, s) \/ HandlerRejects(q, s)
  PROVE  Owned'
  <1> DEFINE d == run[q][s].doc
  <1>1. run[q][s].pc # "idle" /\ d \in Docs /\ Owns(q, s, d)
    BY BusyType DEF HandlerReturns, HandlerRejects, At, Owned
  <1>2. /\ run'[q][s] = Idle
        /\ \A p \in Queues, t \in Slots : p # q \/ t # s => run'[p][t] = run[p][t]
        /\ \A p \in Queues, x \in Docs : p # q \/ x # d => job'[p][x] = job[p][x]
    BY <1>1, SettledJob
  <1>3. \A t \in Slots \ {s} : run[q][t].pc # "idle" => run[q][t].doc # d
    BY <1>1 DEF Owned, Owns
  <1>4. \A p \in Queues, t \in Slots : run[p][t].pc # "idle" => run[p][t].doc \in Docs
    BY BusyType
  <1> QED
    BY <1>2, <1>3, <1>4 DEF Owned, Owns, Idle

\* A handler holds the lock of its job as long as no lock of a live handler expires.
LEMMA OwnedStep ==
  ASSUME TypeOK, Owned, [Next]_vars, ~Spend("stall")
  PROVE  Owned'
  <1>1. UNCHANGED run => DocsKept
    BY DEF DocsKept
  <1>2. UNCHANGED job => ActiveKept
    BY DEF ActiveKept
  <1>3. ASSUME NEW q \in Queues, NEW d \in Docs
        PROVE  ~StalledWhileRunning(q, d) /\ (StalledByCrash(q, d) => Owned')
    <2>1. ~StalledWhileRunning(q, d)
      BY DEF StalledWhileRunning
    <2>2. ASSUME StalledByCrash(q, d)
          PROVE  Owned'
      <3>1. job[q][d].owner = None /\ run' = run
        BY <2>2 DEF StalledByCrash, StalledCheck
      <3>2. \A p \in Queues, x \in Docs : p # q \/ x # d => job'[p][x] = job[p][x]
        BY <2>2 DEF StalledByCrash, StalledCheck, TypeOK
      <3>3. \A t \in Slots : run[q][t].pc # "idle" => run[q][t].doc # d
        BY <3>1, PipelineAssumption DEF Owned, Owns
      <3>4. \A p \in Queues, t \in Slots : run[p][t].pc # "idle" => run[p][t].doc \in Docs
        BY BusyType
      <3> QED
        BY <3>1, <3>2, <3>3, <3>4 DEF Owned, Owns
    <2> QED
      BY <2>1, <2>2
  <1>4. Crash => Owned'
    BY DEF Crash, Owned, Idle
  <1>5. ASSUME NEW r \in recov, RecoverRequeues(r)
        PROVE  Owned'
    <2>1. r.q \in Queues /\ r.doc \in Docs
      BY DEF TypeOK, ProcOK
    <2> QED
      BY <1>1, <1>2, <1>5, <2>1, EnqueueKeepsActive, OwnedFrame DEF RecoverRequeues
  <1>6. ASSUME NEW r \in api, RequestEnqueues(r)
        PROVE  Owned'
    <2>1. r.op \in Queues /\ r.doc \in Docs
      BY <1>6 DEF RequestEnqueues, TypeOK, ProcOK, Request, Queues
    <2> QED
      BY <1>1, <1>6, <2>1, EnqueueKeepsActive, OwnedFrame DEF RequestEnqueues
  <1>7. ASSUME NEW d \in Docs, EnqueueDocumentExtract(d)
        PROVE  Owned'
    BY <1>1, <1>2, <1>7, EnqueueKeepsActive, OwnedFrame DEF EnqueueDocumentExtract, Queues
  <1>8. ASSUME UNCHANGED run, UNCHANGED job
        PROVE  Owned'
    BY <1>1, <1>2, <1>8, OwnedFrame
  <1>9. CASE System
    BY <1>3, <1>5, <1>6, <1>7, <1>8, <1>9, HandlerKeepsOwned, FetchKeepsOwned, SettleKeepsOwned
    DEF System, FailedReads, FailedWrites, Restart, RecoverReads, TriggerExtractResets,
        TriggerClassifyReopens
  <1>10. CASE Environment
    BY <1>3, <1>4, <1>8, <1>10, HandlerKeepsOwned
    DEF Environment, SaveRaw, Reprocess, ClassifyRequest, TriggerExtract, TriggerClassify,
        RequestFails
  <1> QED
    BY <1>8, <1>9, <1>10 DEF Next, vars
-----------------------------------------------------------------------------
(* No content is left with duplicates only.                                *)

NoStall == Unspent({"stall"})

\* A normalize handler is about to write that d is a duplicate.
Deduping(d) ==
  \E s \in Slots : run["normalize"][s].pc = "dedup" /\ run["normalize"][s].doc = d

\* c is none of the duplicates of d's content, and is not about to become one.
Anchor(c, d) == TextOf[c] = TextOf[d] /\ canon[c] = None /\ ~Deduping(c)

ContentInv ==
  /\ HashInv
  /\ UniqueInv
  /\ \A s \in Slots :
       run["normalize"][s].pc = "dedup" => run["normalize"][s].cand \in Docs
  /\ \A d \in Docs : Canonical(d) => ~Deduping(d)
  /\ \A d \in Docs : canon[d] # None \/ Deduping(d) => \E c \in Docs : Anchor(c, d)

\* The inductive invariant: a reset does not break it, but a job that runs twice does.
ContentIInv == BudgetInv /\ (NoStall => Owned /\ ContentInv)

\* A step that at most clears rows, and starts no dedup.
Clearing ==
  /\ \A d \in Docs : \/ hash'[d] = hash[d] /\ canon'[d] = canon[d]
                     \/ hash'[d] = None /\ canon'[d] = None
  /\ \A s \in Slots : \/ run'["normalize"][s] = run["normalize"][s]
                      \/ run'["normalize"][s].pc # "dedup"

LEMMA ClearingKeepsContent ==
  ASSUME ContentInv, Clearing
  PROVE  ContentInv'
  <1>1. \A d \in Docs : TextOf[d] # None
    BY PipelineAssumption
  <1>2. \A d \in Docs : Canonical(d)' => Canonical(d)
    BY <1>1 DEF Clearing, Canonical
  <1>3. \A d \in Docs : Deduping(d)' => Deduping(d)
    BY DEF Clearing, Deduping
  <1>4. \A c \in Docs, d \in Docs : Anchor(c, d) => Anchor(c, d)'
    BY <1>3 DEF Clearing, Anchor
  <1>5. HashInv' /\ UniqueInv'
    BY <1>2 DEF ContentInv, Clearing, HashInv, UniqueInv
  <1>6. \A d \in Docs : (canon[d] # None)' => canon[d] # None
    BY DEF Clearing
  <1>7. \A d \in Docs : (canon[d] # None \/ Deduping(d))' => \E c \in Docs : Anchor(c, d)'
    BY <1>3, <1>4, <1>6 DEF ContentInv
  <1>8. \A s \in Slots :
          run'["normalize"][s].pc = "dedup" => run'["normalize"][s].cand \in Docs
    BY DEF ContentInv, Clearing
  <1> QED
    BY <1>2, <1>3, <1>5, <1>7, <1>8 DEF ContentInv

\* All steps are of this kind but those of a normalize handler.
LEMMA ClearingSteps ==
  ASSUME TypeOK, [Next]_vars,
         ~ \E s \in Slots : \/ NormalizeFind(s) \/ NormalizeClaim(s)
                           \/ NormalizeWinner(s) \/ NormalizeDedup(s)
  PROVE  Clearing
  <1> USE DEF Clearing, Queues
  <1>1. ASSUME NEW q \in Queues, NEW s \in Slots, NEW pc \in Points \ {"dedup"},
               Goto(q, s, pc)
        PROVE  \A t \in Slots : \/ run'["normalize"][t] = run["normalize"][t]
                               \/ run'["normalize"][t].pc # "dedup"
    BY <1>1 DEF Goto, TypeOK, RunRec, BusyRec, Idle
  <1>2. ASSUME NEW s \in Slots, Extract(s) \/ ExtractEnqueues(s)
        PROVE  Clearing
    BY <1>1, <1>2 DEF Extract, ExtractEnqueues, MarkFailed, Points, row
  <1>3. ASSUME NEW s \in Slots, NormalizeFails(s) \/ NormalizeEnqueues(s)
        PROVE  Clearing
    BY <1>1, <1>3 DEF NormalizeFails, NormalizeEnqueues, MarkFailed, Points, row
  <1>4. ASSUME NEW s \in Slots,
               ClassifyForClient(s) \/ ClassifyError(s) \/ MarkClassified(s)
        PROVE  Clearing
    <2>1. run'["normalize"] = run["normalize"]
      BY <1>4 DEF ClassifyForClient, ClassifyError, MarkClassified, Goto, TypeOK
    <2> QED
      BY <1>4, <2>1 DEF ClassifyForClient, ClassifyError, MarkClassified
  <1>5. ASSUME NEW q \in Queues, NEW s \in Slots,
               HandlerThrows(q, s) \/ HandlerReturns(q, s) \/ HandlerRejects(q, s)
        PROVE  Clearing
    <2>1. CASE HandlerThrows(q, s)
      BY <1>1, <2>1 DEF HandlerThrows, Points, row
    <2>2. CASE run' = [run EXCEPT ![q][s] = Idle] /\ UNCHANGED row
      BY <2>2 DEF TypeOK, Idle, row
    <2> QED
      BY <1>5, <2>1, <2>2 DEF HandlerReturns, HandlerRejects
  <1>6. ASSUME NEW q \in Queues, NEW s \in Slots, NEW d \in Docs, Fetch(q, s, d)
        PROVE  Clearing
    <2> DEFINE r == [pc |-> Entry(q, d), doc |-> d, cand |-> None,
                     client |-> IF q = "classify" /\ NClients > 0 THEN 1 ELSE 0]
    <2>1. run' = [run EXCEPT ![q][s] = r]
      BY <1>6 DEF Fetch
    <2>2. r.pc # "dedup"
      BY DEF Entry, ClassifyEntry
    <2> HIDE DEF r
    <2> QED
      BY <1>6, <2>1, <2>2 DEF Fetch, TypeOK, row
  <1>7. ASSUME NEW e \in events, FailedReads(e) \/ FailedWrites(e)
        PROVE  Clearing
    BY <1>7 DEF FailedReads, FailedWrites, MarkFailed, row
  <1>8. ASSUME NEW q \in Queues, NEW d \in Docs,
               StalledByCrash(q, d) \/ StalledWhileRunning(q, d)
        PROVE  Clearing
    BY <1>8 DEF StalledByCrash, StalledWhileRunning, StalledCheck, row
  <1>9. CASE Crash
    BY <1>9 DEF Crash, Idle, row
  <1>10. CASE Restart \/ RecoverReads \/ \E r \in recov : RecoverRequeues(r)
    BY <1>10 DEF Restart, RecoverReads, RecoverRequeues, row
  <1>11. ASSUME NEW d \in Docs,
                SaveRaw(d) \/ EnqueueDocumentExtract(d) \/ ClassifyRequest(d)
         PROVE  Clearing
    BY <1>11 DEF SaveRaw, EnqueueDocumentExtract, ClassifyRequest, row
  <1>12. ASSUME NEW d \in Docs,
                Reprocess(d) \/ TriggerExtractResets(d) \/ TriggerClassifyReopens(d)
         PROVE  Clearing
    BY <1>12 DEF Reprocess, TriggerExtractResets, TriggerClassifyReopens, ResetRow, TypeOK,
       RowOK
  <1>13. CASE \/ TriggerExtract \/ TriggerClassify \/ RequestFails
              \/ \E r \in api : RequestEnqueues(r)
    BY <1>13 DEF TriggerExtract, TriggerClassify, RequestFails, RequestEnqueues, row
  <1>14. CASE UNCHANGED vars
    BY <1>14 DEF vars
  <1> QED
    BY <1>2, <1>3, <1>4, <1>5, <1>6, <1>7, <1>8, <1>9, <1>10, <1>11, <1>12, <1>13, <1>14
    DEF Next, System, Environment, Handler

LEMMA DedupKeepsContent ==
  ASSUME TypeOK, Owned, ContentInv, NEW s \in Slots,
         \/ NormalizeFind(s) \/ NormalizeClaim(s)
         \/ NormalizeWinner(s) \/ NormalizeDedup(s)
  PROVE  ContentInv'
  <1> DEFINE r == run["normalize"][s]
             d == r.doc
  <1> USE DEF Queues
  <1>1. r.pc # "idle" /\ r \in BusyRec /\ d \in Docs
    BY BusyType DEF NormalizeFind, NormalizeClaim, NormalizeWinner, NormalizeDedup, At
  <1>2. TextOf[d] \in Texts /\ TextOf[d] # None
    BY <1>1, PipelineAssumption
  <1>3. \A t \in Slots \ {s} : run'["normalize"][t] = run["normalize"][t]
    <2>1. (\E pc : Goto("normalize", s, pc)) \/ (\E c : TakeCanonical(s, c))
      BY DEF NormalizeFind, NormalizeClaim, NormalizeWinner, NormalizeDedup
    <2> QED
      BY <2>1 DEF TakeCanonical, Goto, TypeOK
  <1>4. \A pc \in Points : Goto("normalize", s, pc) =>
          run'["normalize"][s].pc = pc /\ run'["normalize"][s].doc = d
    BY <1>1 DEF Goto, TypeOK, BusyRec
  <1>5. \A t \in Slots \ {s} : run["normalize"][t].pc # "idle" => run["normalize"][t].doc # d
    BY <1>1 DEF Owned, Owns
  <1>6. ASSUME NEW pc \in {"claim", "winner", "end"}, Goto("normalize", s, pc),
               hash' = hash, canon' = canon
        PROVE  ContentInv'
    <2>1. Clearing
      BY <1>3, <1>4, <1>6 DEF Clearing, Points
    <2> QED
      BY <2>1, ClearingKeepsContent
  <1>7. ASSUME NEW c \in Holders(d), TakeCanonical(s, c), UNCHANGED row
        PROVE  ContentInv'
    <2>1. c \in Docs /\ c # d /\ hash[c] = TextOf[d] /\ canon[c] = None
      BY <1>7 DEF Holders
    <2>2. Canonical(c) /\ TextOf[c] = TextOf[d] /\ ~Deduping(c)
      BY <1>2, <2>1 DEF ContentInv, HashInv, Canonical
    <2>3. /\ run'["normalize"][s].cand = c /\ run'["normalize"][s].doc = d
          /\ run'["normalize"][s].pc = "dedup"
      BY <1>1, <1>7 DEF TakeCanonical, TypeOK, BusyRec
    <2>4. \A x : Canonical(x)' = Canonical(x)
      BY <1>7 DEF row, Canonical
    <2>5. \A x \in Docs : Deduping(x)' => Deduping(x) \/ x = d
      BY <1>3, <2>3 DEF Deduping
    <2>6. ~Canonical(d)
      BY <1>1, <2>1, <2>2 DEF ContentInv, UniqueInv
    <2>7. \A x \in Docs : Canonical(x)' => ~Deduping(x)'
      BY <2>4, <2>5, <2>6 DEF ContentInv
    <2>8. \A x \in Docs : TextOf[x] = TextOf[d] => Anchor(c, x)'
      BY <1>7, <2>1, <2>2, <2>5 DEF Anchor, row
    <2>9. ASSUME NEW x \in Docs, (canon[x] # None \/ Deduping(x))'
          PROVE  \E a \in Docs : Anchor(a, x)'
      <3>1. CASE TextOf[x] = TextOf[d]
        BY <2>1, <2>8, <3>1
      <3>2. CASE TextOf[x] # TextOf[d]
        <4>1. canon[x] # None \/ Deduping(x)
          BY <1>7, <2>5, <2>9, <3>2 DEF row
        <4>2. PICK a \in Docs : Anchor(a, x)
          BY <4>1 DEF ContentInv
        <4>3. a # d
          BY <3>2, <4>2 DEF Anchor
        <4>4. Anchor(a, x)'
          BY <1>7, <2>5, <4>2, <4>3 DEF Anchor, row
        <4> QED
          BY <4>4
      <3> QED
        BY <3>1, <3>2
    <2>10. HashInv' /\ UniqueInv'
      BY <1>7, <2>4 DEF row, ContentInv, HashInv, UniqueInv
    <2>11. \A t \in Slots :
             run'["normalize"][t].pc = "dedup" => run'["normalize"][t].cand \in Docs
      BY <1>3, <2>1, <2>3 DEF ContentInv
    <2> QED
      BY <2>7, <2>9, <2>10, <2>11 DEF ContentInv
  <1>8. CASE NormalizeFind(s)
    <2>1. CASE Goto("normalize", s, "claim") /\ UNCHANGED row
      BY <1>6, <2>1 DEF row
    <2>2. CASE UNCHANGED row /\ \E c \in Holders(d) : TakeCanonical(s, c)
      BY <1>7, <2>2
    <2> QED
      BY <1>8, <2>1, <2>2 DEF NormalizeFind
  <1>9. CASE NormalizeWinner(s)
    <2>1. CASE Goto("normalize", s, "end") /\ MarkFailed(d, "pipeline")
      BY <1>6, <2>1 DEF MarkFailed
    <2>2. CASE UNCHANGED row /\ \E c \in Holders(d) : TakeCanonical(s, c)
      BY <1>7, <2>2
    <2> QED
      BY <1>9, <2>1, <2>2 DEF NormalizeWinner
  <1>10. ASSUME NEW pc \in {"enqClassify", "end"}, Goto("normalize", s, pc)
         PROVE  /\ \A x \in Docs : Deduping(x)' <=> Deduping(x) /\ x # d
                /\ \A t \in Slots :
                     run'["normalize"][t].pc = "dedup" => run'["normalize"][t].cand \in Docs
    <2>1. run'["normalize"][s].pc # "dedup"
      BY <1>4, <1>10 DEF Points
    <2>2. \A x \in Docs \ {d} : Deduping(x)' <=> Deduping(x)
      BY <1>3, <2>1 DEF Deduping
    <2>3. \A x \in Docs : x = d => ~Deduping(x)'
      BY <1>3, <1>5, <2>1 DEF Deduping
    <2> QED
      BY <1>3, <2>1, <2>2, <2>3 DEF ContentInv
  <1>11. CASE NormalizeClaim(s)
    <2>1. CASE Goto("normalize", s, "winner") /\ UNCHANGED row
      BY <1>6, <2>1 DEF row
    <2>2. ASSUME Holders(d) = {},
                 hash' = [hash EXCEPT ![d] = TextOf[d]],
                 canon' = [canon EXCEPT ![d] = None],
                 Goto("normalize", s, "enqClassify")
          PROVE  ContentInv'
      <3>1. \A x \in Docs : /\ hash'[x] = IF x = d THEN TextOf[d] ELSE hash[x]
                            /\ canon'[x] = IF x = d THEN None ELSE canon[x]
        BY <2>2 DEF TypeOK, RowOK
      <3>2. \A x \in Docs : Canonical(x)' <=> x = d \/ Canonical(x)
        BY <3>1 DEF Canonical
      <3>3. \A x \in Docs : Canonical(x) /\ TextOf[x] = TextOf[d] => x = d
        BY <2>2 DEF Holders, Canonical
      <3>4. HashInv' /\ UniqueInv'
        BY <3>1, <3>2, <3>3 DEF ContentInv, HashInv, UniqueInv
      <3>5. \A x \in Docs : Deduping(x)' <=> Deduping(x) /\ x # d
        BY <1>10, <2>2
      <3>6. \A x \in Docs : Canonical(x)' => ~Deduping(x)'
        BY <3>2, <3>5 DEF ContentInv
      <3>7. \A a \in Docs, x \in Docs : Anchor(a, x) => Anchor(a, x)'
        BY <3>1, <3>5 DEF Anchor
      <3>8. \A x \in Docs : (canon[x] # None \/ Deduping(x))' => canon[x] # None \/ Deduping(x)
        BY <3>1, <3>5
      <3>9. \A x \in Docs : (canon[x] # None \/ Deduping(x))' => \E a \in Docs : Anchor(a, x)'
        BY <3>7, <3>8 DEF ContentInv
      <3> QED
        BY <1>10, <2>2, <3>4, <3>6, <3>9 DEF ContentInv
    <2> QED
      BY <1>11, <2>1, <2>2 DEF NormalizeClaim
  <1>12. CASE NormalizeDedup(s)
    <2>1. r.cand \in Docs /\ r.cand # None /\ Deduping(d) /\ ~Canonical(d)
      BY <1>1, <1>12, PipelineAssumption DEF NormalizeDedup, At, ContentInv, Deduping
    <2>2. \A x \in Docs : /\ hash'[x] = IF x = d THEN TextOf[d] ELSE hash[x]
                          /\ canon'[x] = IF x = d THEN r.cand ELSE canon[x]
      BY <1>12 DEF NormalizeDedup, TypeOK, RowOK
    <2>3. \A x \in Docs : Canonical(x)' <=> Canonical(x)
      BY <2>1, <2>2 DEF Canonical
    <2>4. HashInv' /\ UniqueInv'
      BY <2>2, <2>3 DEF ContentInv, HashInv, UniqueInv
    <2>5. Goto("normalize", s, "end")
      BY <1>12 DEF NormalizeDedup
    <2>6. \A x \in Docs : Deduping(x)' <=> Deduping(x) /\ x # d
      BY <1>10, <2>5
    <2>7. \A x \in Docs : Canonical(x)' => ~Deduping(x)'
      BY <2>3, <2>6 DEF ContentInv
    <2>8. \A a \in Docs, x \in Docs : Anchor(a, x) => Anchor(a, x)'
      BY <2>1, <2>2, <2>6 DEF Anchor
    <2>9. \A x \in Docs : (canon[x] # None \/ Deduping(x))' => canon[x] # None \/ Deduping(x)
      BY <2>1, <2>2, <2>6
    <2>10. \A x \in Docs : (canon[x] # None \/ Deduping(x))' => \E a \in Docs : Anchor(a, x)'
      BY <2>8, <2>9 DEF ContentInv
    <2> QED
      BY <1>10, <2>4, <2>5, <2>7, <2>10 DEF ContentInv
  <1> QED
    BY <1>8, <1>9, <1>11, <1>12

LEMMA NextContentIInv == TypeOK /\ ContentIInv /\ [Next]_vars => ContentIInv'
  <1> SUFFICES ASSUME TypeOK, ContentIInv, [Next]_vars, NoStall'
               PROVE  Owned' /\ ContentInv'
    BY NextBudgetInv DEF ContentIInv
  <1>1. Owned /\ ContentInv /\ ~Spend("stall")
    BY UnspentStep DEF ContentIInv, NoStall, Acts
  <1>2. Owned'
    BY <1>1, OwnedStep
  <1>3. ContentInv'
    BY <1>1, DedupKeepsContent, ClearingSteps, ClearingKeepsContent
  <1> QED
    BY <1>2, <1>3

\* Whatever is reset, crashes or is lost, the dedups of two documents of one content never
\* cross: a content that has duplicates keeps a document that is none, for any number of
\* documents and of concurrent handlers, as long as no stalled job runs twice at once.
THEOREM ContentSafety == Spec => []ContentKeepsCanonical
  <1>1. Init => ContentIInv
    <2> SUFFICES ASSUME Init PROVE BudgetInv /\ Owned /\ ContentInv
      BY DEF ContentIInv
    <2>1. BudgetInv
      BY PipelineAssumption DEF Init, BudgetInv
    <2>2. Owned /\ HashInv /\ \A d \in Docs : ~Deduping(d)
      BY DEF Init, Owned, HashInv, Deduping, Idle, Queues
    <2>3. \A d \in Docs : ~Canonical(d)
      BY PipelineAssumption DEF Init, Canonical
    <2>4. \A d \in Docs : canon[d] = None
      BY DEF Init
    <2>5. \A s \in Slots : run["normalize"][s].pc # "dedup"
      BY DEF Init, Idle, Queues
    <2> QED
      BY <2>1, <2>2, <2>3, <2>4, <2>5 DEF ContentInv, UniqueInv
  <1>2. ContentIInv => ContentKeepsCanonical
    <2> SUFFICES ASSUME ContentIInv, NoStall, NEW d \in Docs, canon[d] # None
                 PROVE  \E c \in Docs : TextOf[c] = TextOf[d] /\ canon[c] = None
      BY DEF ContentKeepsCanonical, NoStall
    <2> QED
      BY DEF ContentIInv, ContentInv, Anchor
  <1> QED
    BY <1>1, <1>2, NextContentIInv, TypeSafety, PTL DEF Spec
-----------------------------------------------------------------------------
(* A quiet pipeline has settled, if it met nothing but rejected calls, or   *)
(* one request.                                                            *)

Asked  == Budget["ask"] - budget["ask"]
Failed == Budget["infra"] - budget["infra"]

\* What the environment has done so far: an admin has asked once for a classification, or
\* Postgres and Redis have rejected fewer calls than a job has attempts.
Gentle ==
  /\ Unspent(Acts \ {"ask", "infra"})
  /\ Asked <= 1 /\ Failed < Attempts
  /\ Asked = 0 \/ Failed = 0

\* The owner of an active job runs it.
LockedAt(q, d) ==
  job[q][d].st = "active" =>
    /\ job[q][d].owner \in Slots
    /\ run[q][job[q][d].owner].pc # "idle"
    /\ run[q][job[q][d].owner].doc = d

Locked == \A q \in Queues, d \in Docs : LockedAt(q, d)

\* Where a queue is with a document: the state of the job, or the point of its handler.
Place(q, d) ==
  IF job[q][d].st = "active" THEN run[q][job[q][d].owner].pc ELSE job[q][d].st

\* The queue has still to bring the document forward.
ExtractOpen(d)  == Place("extract", d) \in {"waiting", "extract", "enqNormalize", "throw"}
NormalizeOpen(d) ==
  Place("normalize", d) \in {"waiting", "noText", "find", "claim", "winner", "dedup", "throw"}
Handing(d)      == Place("normalize", d) = "enqClassify"
ClassifyOpen(d) == Place("classify", d) \in {"waiting", "client", "mark", "throw"}

FailureOpen(d)  == \E e \in events : e.doc = d
Once(d)         == \A e, f \in events : e.doc = d /\ f.doc = d => e = f
Wants(op, d)    == [op |-> op, doc |-> d] \in api

\* Nothing of the third stage has begun.
Untouched(d) ==
  /\ Place("classify", d) = "over"
  /\ ~FailureOpen(d) /\ ~Wants("reopen", d) /\ ~Wants("classify", d)

PlacesOK(d) ==
  /\ Place("extract", d) \in {"over", "end"} \/ ExtractOpen(d)
  /\ Place("normalize", d) \in {"over", "end"} \/ NormalizeOpen(d) \/ Handing(d)
  /\ Place("classify", d) \in {"over", "end"} \/ ClassifyOpen(d)

CrawlInv(d) ==
  crawl[d] # "done" =>
    /\ status[d] = "RECEIVED" /\ Untouched(d)
    /\ Place("extract", d) = "over" /\ Place("normalize", d) = "over"

ExtractInv(d) ==
  ExtractOpen(d) =>
    /\ status[d] \in {"RECEIVED", "EXTRACTED"} /\ Untouched(d)
    /\ Place("normalize", d) = "over"
    /\ Place("extract", d) = "enqNormalize" => status[d] = "EXTRACTED"

NormalizeInv(d) ==
  NormalizeOpen(d) =>
    /\ status[d] \in {"EXTRACTED", "READY_FOR_AI"} /\ Untouched(d)
    /\ Failed = 0 => status[d] = "EXTRACTED"

\* As long as nobody has asked, the stages follow each other.
FirstInv(d) ==
  Asked = 0 =>
    /\ Handing(d) => status[d] = "READY_FOR_AI" /\ Untouched(d)
    /\ FailureOpen(d) => status[d] = "READY_FOR_AI" /\ Place("classify", d) = "over"
    /\ ClassifyOpen(d) => status[d] = "READY_FOR_AI"
    /\ Place("classify", d) = "end" => status[d] = "CLASSIFIED"
    /\ Once(d) /\ ~Wants("reopen", d) /\ ~Wants("classify", d)

TextInv(d) ==
  \/ hasText[d]
  \/ /\ status[d] \notin {"READY_FOR_AI", "CLASSIFIED"} /\ ~Handing(d)
     /\ Place("normalize", d) \notin {"find", "claim", "winner", "dedup"}
     /\ Place("classify", d) \notin {"client", "mark", "throw"}

\* A document that is ready for AI has somebody to take it there.
ReadyInv(d) ==
  status[d] = "READY_FOR_AI" =>
    /\ canon[d] = None
    /\ Place("classify", d) # "end"
    /\ \/ NormalizeOpen(d) \/ Handing(d) \/ ClassifyOpen(d) \/ FailureOpen(d)
       \/ Wants("classify", d)

HalfWayInv(d) ==
  /\ status[d] = "RECEIVED" /\ crawl[d] = "done" => ExtractOpen(d)
  /\ status[d] = "EXTRACTED" => ExtractOpen(d) \/ NormalizeOpen(d)

ReopenInv(d) ==
  Wants("reopen", d) =>
    /\ status[d] = "FAILED" /\ canon[d] = None /\ hasText[d]
    /\ Place("classify", d) = "over" /\ ~Handing(d)
    /\ ~FailureOpen(d) /\ ~Wants("classify", d)

\* A job has no more failures behind it than calls were rejected.
TriesInv(d) ==
  \A q \in {"extract", "normalize"} :
    job[q][d].made + (IF Place(q, d) = "throw" THEN 1 ELSE 0) <= Failed

DocInv(d) ==
  /\ PlacesOK(d)
  /\ CrawlInv(d)
  /\ ExtractInv(d)
  /\ NormalizeInv(d)
  /\ FirstInv(d)
  /\ TextInv(d)
  /\ ReadyInv(d)
  /\ HalfWayInv(d)
  /\ ReopenInv(d)
  /\ TriesInv(d)

\* No crash, no recovery, no reset: nothing but the stages and requests to classify.
WorldInv ==
  /\ up /\ ~boot /\ recov = {}
  /\ \A e \in events : e.q = "classify"
  /\ \A r \in api : r.op \in {"reopen", "classify"}

SettleInv == WorldInv /\ Owned /\ Locked /\ \A d \in Docs : DocInv(d)

\* The inductive invariant.
SettleIInv == BudgetInv /\ (Gentle => SettleInv)

\* The counters never go back.
Forward == /\ Asked \in Nat /\ Asked' \in Nat /\ Asked <= Asked'
           /\ Failed \in Nat /\ Failed' \in Nat /\ Failed <= Failed'

LEMMA GentleStep ==
  ASSUME TypeOK, BudgetInv, [Next]_vars, Gentle'
  PROVE  /\ Gentle /\ Forward
         /\ \A k \in Acts \ {"ask", "infra"} : ~Spend(k)
         /\ Spend("ask") => Asked' = Asked + 1 /\ Failed' = Failed
         /\ Spend("infra") => Failed' = Failed + 1 /\ Asked' = Asked
         /\ UNCHANGED budget => Failed' = Failed /\ Asked' = Asked
  <1>1. \A k \in Kinds : budget[k] \in Nat /\ Budget[k] \in Nat /\ budget[k] <= Budget[k]
    BY PipelineAssumption DEF TypeOK, BudgetInv
  <1>2. \A k \in Acts \ {"ask", "infra"} : Unspent({k}) /\ ~Spend(k)
    <2> SUFFICES ASSUME NEW k \in Acts \ {"ask", "infra"}
                 PROVE  Unspent({k}) /\ ~Spend(k)
      OBVIOUS
    <2>1. Unspent({k})'
      BY DEF Gentle, Unspent
    <2> QED
      BY <2>1, UnspentStep
  <1>3. Unspent(Acts \ {"ask", "infra"})
    BY <1>2 DEF Unspent
  <1>4. \A k \in Acts : Spend(k) =>
          \A j \in Kinds : budget'[j] = IF j \in {k, "any"} THEN budget[j] - 1 ELSE budget[j]
    BY DEF Spend, TypeOK, Kinds, Acts
  <1>5. {"ask", "infra"} \subseteq Acts /\ {"ask", "infra"} \subseteq Kinds
    BY DEF Kinds, Acts
  <1>6. Spend("ask") => Asked' = Asked + 1 /\ Failed' = Failed
    BY <1>1, <1>4, <1>5 DEF Asked, Failed
  <1>7. Spend("infra") => Failed' = Failed + 1 /\ Asked' = Asked
    BY <1>1, <1>4, <1>5 DEF Asked, Failed
  <1>8. UNCHANGED budget => Failed' = Failed /\ Asked' = Asked
    BY DEF Asked, Failed
  <1>9. Asked \in Nat /\ Failed \in Nat
    BY <1>1, <1>5 DEF Asked, Failed
  <1>10. UNCHANGED budget \/ Spend("ask") \/ Spend("infra")
    BY <1>2, BudgetStep
  <1>11. Forward
    BY <1>6, <1>7, <1>8, <1>9, <1>10 DEF Forward
  <1>12. Gentle
    BY <1>3, <1>11, PipelineAssumption DEF Gentle, Forward
  <1> QED
    BY <1>2, <1>6, <1>7, <1>8, <1>11, <1>12

-----------------------------------------------------------------------------
(* How a step moves the documents.                                         *)

\* Nothing that concerns x changes.
Same(x) ==
  /\ status'[x] = status[x] /\ canon'[x] = canon[x]
  /\ hasText'[x] = hasText[x] /\ crawl'[x] = crawl[x]
  /\ \A q \in Queues : Place(q, x)' = Place(q, x) /\ job'[q][x].made = job[q][x].made
  /\ FailureOpen(x)' <=> FailureOpen(x)
  /\ Once(x)' <=> Once(x)
  /\ Wants("reopen", x)' <=> Wants("reopen", x)
  /\ Wants("classify", x)' <=> Wants("classify", x)

LEMMA SameKeepsDocInv ==
  ASSUME NEW x \in Docs, DocInv(x), Same(x), Forward, \A q \in Queues : job[q][x].made \in Nat
  PROVE  DocInv(x)'
  <1> USE DEF Same, Queues
  <1>1. PlacesOK(x)'
    BY DEF DocInv, PlacesOK, ExtractOpen, NormalizeOpen, Handing, ClassifyOpen
  <1>2. Untouched(x)' <=> Untouched(x)
    BY DEF Untouched
  <1>3. CrawlInv(x)' /\ ExtractInv(x)' /\ NormalizeInv(x)'
    BY <1>2 DEF DocInv, CrawlInv, ExtractInv, NormalizeInv, ExtractOpen, NormalizeOpen, Forward
  <1>4. FirstInv(x)'
    BY <1>2 DEF DocInv, FirstInv, Handing, ClassifyOpen, Forward
  <1>5. TextInv(x)' /\ HalfWayInv(x)' /\ ReopenInv(x)'
    BY DEF DocInv, TextInv, HalfWayInv, ReopenInv, ExtractOpen, NormalizeOpen, Handing
  <1>6. ReadyInv(x)'
    BY DEF DocInv, ReadyInv, NormalizeOpen, Handing, ClassifyOpen
  <1>7. TriesInv(x)'
    BY DEF DocInv, TriesInv, Forward
  <1> QED
    BY <1>1, <1>3, <1>4, <1>5, <1>6, <1>7 DEF DocInv

\* A handler's document is where the handler is.
LEMMA PlaceOfRun ==
  ASSUME TypeOK, Owned, NEW q \in Queues, NEW s \in Slots, run[q][s].pc # "idle"
  PROVE  /\ Owns(q, s, run[q][s].doc)
         /\ Place(q, run[q][s].doc) = run[q][s].pc
  BY DEF Owned, Owns, Place

\* The handler of an active job goes nowhere.
Unmoved(q, d) ==
  job[q][d].st = "active" => run'[q][job[q][d].owner] = run[q][job[q][d].owner]

LEMMA UnmovedPlace ==
  ASSUME Locked, NEW q \in Queues, NEW d \in Docs, Unmoved(q, d), job'[q][d] = job[q][d]
  PROVE  Place(q, d)' = Place(q, d) /\ LockedAt(q, d)'
  BY DEF Locked, LockedAt, Unmoved, Place

\* A step of one handler moves no other document.
LEMMA OthersUnmoved ==
  ASSUME Locked, NEW q \in Queues, NEW s \in Slots, NEW d \in Docs,
         run[q][s].pc = "idle" \/ run[q][s].doc = d,
         \A p \in Queues, t \in Slots : p # q \/ t # s => run'[p][t] = run[p][t],
         NEW p \in Queues, NEW x \in Docs, p # q \/ x # d
  PROVE  Unmoved(p, x)
  <1> SUFFICES ASSUME job[p][x].st = "active"
               PROVE  run'[p][job[p][x].owner] = run[p][job[p][x].owner]
    BY DEF Unmoved
  <1>1. LockedAt(p, x)
    BY DEF Locked
  <1> QED
    BY <1>1 DEF LockedAt

\* What an enqueue does to the job.
LEMMA EnqueuedPlace ==
  ASSUME TypeOK, Locked, NEW q \in Queues, NEW d \in Docs, NEW force \in BOOLEAN,
         Enqueue(q, d, force), Unmoved(q, d)
  PROVE  /\ \A p \in Queues, x \in Docs : p # q \/ x # d => job'[p][x] = job[p][x]
         /\ LockedAt(q, d)'
         /\ \/ /\ Place(q, d) \in {"over", "waiting"} /\ Place(q, d)' = "waiting"
               /\ job'[q][d].made = 0
            \/ /\ Place(q, d) # "over" /\ Place(q, d)' = Place(q, d)
               /\ job'[q][d] = job[q][d]
  <1>1. job \in [Queues -> [Docs -> JobRec]]
    BY DEF TypeOK
  <1>2. \A p \in Queues, x \in Docs : p # q \/ x # d => job'[p][x] = job[p][x]
    BY <1>1 DEF Enqueue
  <1>3. job[q][d].st \in {"over", "waiting", "active"}
    BY <1>1 DEF JobRec
  <1>4. CASE job[q][d].st # "active" /\ job' # job
    <2>1. job'[q][d].st = "waiting" /\ job'[q][d].made = 0
      BY <1>1, <1>4 DEF Enqueue, NoJob
    <2> QED
      BY <1>2, <1>3, <1>4, <2>1 DEF Place, LockedAt
  <1>5. CASE job[q][d].st = "active" \/ job' = job
    <2>1. job' = job /\ job[q][d].st # "over"
      BY <1>1, <1>3, <1>5 DEF Enqueue, InFlight, NoJob
    <2>2. job[q][d].st = "active" => run[q][job[q][d].owner].pc \in Points
      BY BusyType DEF Locked, LockedAt
    <2>3. Place(q, d) # "over"
      BY <2>1, <2>2 DEF Place, Points
    <2> QED
      BY <1>2, <2>1, <2>3, UnmovedPlace
  <1> QED
    BY <1>4, <1>5

\* Of all documents, at most d is concerned.
Elsewhere(d) == \A x \in Docs \ {d} : Same(x)

\* What the steps of a handler leave alone.
Untold(d) ==
  /\ crawl'[d] = crawl[d]
  /\ FailureOpen(d)' <=> FailureOpen(d)
  /\ Once(d)' <=> Once(d)
  /\ Wants("reopen", d)' <=> Wants("reopen", d)
  /\ Wants("classify", d)' <=> Wants("classify", d)
  /\ Untouched(d)' <=> Place("classify", d)' = "over" /\ ~FailureOpen(d)
                       /\ ~Wants("reopen", d) /\ ~Wants("classify", d)

\* The handler of a queue is at a point, and goes on to another.
Moves(q, d, from, to) ==
  /\ Place(q, d) = from /\ Place(q, d)' = to
  /\ \A p \in Queues \ {q} : Place(p, d)' = Place(p, d)
  /\ \A p \in Queues : job'[p][d].made = job[p][d].made
  /\ Untold(d)
  /\ Elsewhere(d)
  /\ Locked'

\* Rows other than d's are left alone.
RowsKept(d) ==
  \A x \in Docs \ {d} : /\ status'[x] = status[x]
                        /\ canon'[x] = canon[x]
                        /\ hasText'[x] = hasText[x]

LEMMA UntoldIfUnchanged ==
  ASSUME UNCHANGED <<crawl, events, api>>, NEW d \in Docs
  PROVE  Untold(d)
  BY DEF Untold, Untouched, FailureOpen, Once, Wants

LEMMA HandlerMoves ==
  ASSUME TypeOK, Owned, Locked, NEW q \in Queues, NEW s \in Slots, NEW d \in Docs,
         run[q][s].pc # "idle", run[q][s].doc = d, NEW pc, pc # "idle",
         run'[q][s].pc = pc, run'[q][s].doc = d,
         \A p \in Queues, t \in Slots : p # q \/ t # s => run'[p][t] = run[p][t],
         UNCHANGED <<job, proc>>, RowsKept(d)
  PROVE  Moves(q, d, run[q][s].pc, pc)
  <1>1. Owns(q, s, d) /\ Place(q, d) = run[q][s].pc
    BY PlaceOfRun
  <1>2. Place(q, d)' = pc
    BY <1>1 DEF Owns, Place
  <1>3. \A p \in Queues, x \in Docs : p # q \/ x # d =>
          Place(p, x)' = Place(p, x) /\ LockedAt(p, x)'
    BY OthersUnmoved, UnmovedPlace
  <1>4. Locked'
    BY <1>1, <1>3 DEF Locked, LockedAt, Owns
  <1>5. \A x \in Docs : Untold(x)
    BY UntoldIfUnchanged DEF proc
  <1>6. Elsewhere(d)
    BY <1>3, <1>5 DEF Elsewhere, Same, RowsKept, Untold
  <1> QED
    BY <1>1, <1>2, <1>3, <1>4, <1>5, <1>6 DEF Moves

LEMMA GotoMoves ==
  ASSUME TypeOK, Owned, Locked, NEW q \in Queues, NEW s \in Slots, NEW d \in Docs,
         run[q][s].pc # "idle", run[q][s].doc = d, NEW pc, pc # "idle",
         Goto(q, s, pc), UNCHANGED <<job, proc>>, RowsKept(d)
  PROVE  Moves(q, d, run[q][s].pc, pc)
  <1>1. /\ run'[q][s].pc = pc /\ run'[q][s].doc = d
        /\ \A p \in Queues, t \in Slots : p # q \/ t # s => run'[p][t] = run[p][t]
    BY GotoKeepsDocs
  <1> QED
    BY <1>1, HandlerMoves

\* All documents keep their invariant when the one concerned does.
LEMMA ElsewhereKeepsDocInv ==
  ASSUME TypeOK, \A x \in Docs : DocInv(x), Forward, NEW d \in Docs, Elsewhere(d), DocInv(d)'
  PROVE  \A x \in Docs : DocInv(x)'
  <1>1. \A q \in Queues, x \in Docs : job[q][x].made \in Nat
    BY DEF TypeOK, JobRec
  <1>2. \A x \in Docs \ {d} : DocInv(x)'
    BY <1>1, SameKeepsDocInv DEF Elsewhere
  <1> QED
    BY <1>2

\* The first stage extracts, discards or fails the document.
LEMMA ExtractSettles ==
  ASSUME TypeOK, Owned, Locked, \A x \in Docs : DocInv(x), Forward,
         NEW s \in Slots, Extract(s)
  PROVE  Locked' /\ \A x \in Docs : DocInv(x)'
  <1> USE DEF Queues
  <1>1. PICK d \in Docs : d = run["extract"][s].doc
    BY BusyType DEF Extract, At
  <1>2. /\ status \in [Docs -> Statuses] /\ canon \in [Docs -> Docs \cup {None}]
        /\ hasText \in [Docs -> BOOLEAN]
        /\ \A q \in Queues : job[q][d].made \in Nat
    BY DEF TypeOK, RowOK, JobRec
  <1>3. RowsKept(d) /\ canon' = canon
    BY <1>1, <1>2 DEF Extract, MarkFailed, RowsKept
  <1>4. PICK pc \in {"enqNormalize", "end"} :
          /\ Goto("extract", s, pc)
          /\ \/ pc = "enqNormalize" /\ status'[d] = "EXTRACTED" /\ hasText'[d]
             \/ pc = "end" /\ status'[d] \in {"DISCARDED", "FAILED"} /\ hasText'[d] = hasText[d]
    BY <1>1, <1>2 DEF Extract, MarkFailed
  <1>5. Moves("extract", d, "extract", pc)
    BY <1>1, <1>3, <1>4, GotoMoves DEF Extract, At
  <1>6. DocInv(d)
    OBVIOUS
  <1>7. /\ ExtractOpen(d) /\ Place("extract", d) = "extract" /\ Place("extract", d)' = pc
        /\ status[d] \in {"RECEIVED", "EXTRACTED"} /\ Untouched(d)
        /\ Place("normalize", d) = "over" /\ crawl[d] = "done"
    BY <1>5, <1>6 DEF Moves, DocInv, CrawlInv, ExtractInv, ExtractOpen
  <1>8. /\ Place("normalize", d)' = "over" /\ Place("classify", d)' = "over"
        /\ crawl'[d] = "done" /\ Untouched(d)'
    BY <1>5, <1>7 DEF Moves, Untold, Untouched
  <1>9. PlacesOK(d)' /\ CrawlInv(d)' /\ ExtractInv(d)' /\ NormalizeInv(d)'
    BY <1>4, <1>7, <1>8
    DEF PlacesOK, CrawlInv, ExtractInv, NormalizeInv, ExtractOpen, NormalizeOpen, Handing,
        ClassifyOpen
  <1>10. FirstInv(d)' /\ TextInv(d)'
    BY <1>4, <1>5, <1>6, <1>7, <1>8
    DEF DocInv, FirstInv, TextInv, Handing, ClassifyOpen, Untouched, Moves, Untold, Forward
  <1>11. ReadyInv(d)' /\ HalfWayInv(d)' /\ ReopenInv(d)'
    BY <1>4, <1>7, <1>8 DEF ReadyInv, HalfWayInv, ReopenInv, ExtractOpen, Untouched
  <1>12. TriesInv(d)'
    BY <1>2, <1>4, <1>5, <1>6, <1>7, <1>8 DEF DocInv, TriesInv, Moves, Forward
  <1>13. DocInv(d)'
    BY <1>9, <1>10, <1>11, <1>12 DEF DocInv
  <1>14. Locked' /\ Elsewhere(d)
    BY <1>5 DEF Moves
  <1> QED
    BY <1>13, <1>14, ElsewhereKeepsDocInv

\* A handler hands its document over to the next queue: a new job waits there, unless one
\* is in flight.
HandsOver(q, d, from, r) ==
  /\ Place(q, d) = from /\ Place(q, d)' = "end"
  /\ \A p \in Queues \ {q, r} : Place(p, d)' = Place(p, d)
  /\ \A p \in Queues \ {r} : job'[p][d].made = job[p][d].made
  /\ \/ /\ Place(r, d) = "over" /\ Place(r, d)' = "waiting"
        /\ job'[r][d].made = 0
     \/ /\ Place(r, d) # "over" /\ Place(r, d)' = Place(r, d)
        /\ job'[r][d].made = job[r][d].made
  /\ Untold(d)
  /\ Elsewhere(d)
  /\ Locked'

LEMMA EnqueueHandsOver ==
  ASSUME TypeOK, Owned, Locked, NEW q \in Queues, NEW r \in Queues \ {q}, NEW s \in Slots,
         NEW d \in Docs, run[q][s].pc # "idle", run[q][s].doc = d, Goto(q, s, "end"),
         Enqueue(r, d, FALSE), UNCHANGED <<row, proc>>
  PROVE  HandsOver(q, d, run[q][s].pc, r)
  <1>1. /\ run'[q][s].pc = "end" /\ run'[q][s].doc = d
        /\ \A p \in Queues, t \in Slots : p # q \/ t # s => run'[p][t] = run[p][t]
    BY GotoKeepsDocs
  <1>2. Owns(q, s, d) /\ Place(q, d) = run[q][s].pc
    BY PlaceOfRun
  <1>3. \A p \in Queues, x \in Docs : p # q \/ x # d => Unmoved(p, x)
    BY <1>1, OthersUnmoved
  <1>4. /\ \A p \in Queues, x \in Docs : p # r \/ x # d => job'[p][x] = job[p][x]
        /\ LockedAt(r, d)'
        /\ \/ /\ Place(r, d) \in {"over", "waiting"} /\ Place(r, d)' = "waiting"
              /\ job'[r][d].made = 0
           \/ /\ Place(r, d) # "over" /\ Place(r, d)' = Place(r, d)
              /\ job'[r][d] = job[r][d]
    <2>1. r \in Queues /\ FALSE \in BOOLEAN /\ Unmoved(r, d)
      BY <1>3
    <2> QED
      BY <2>1, EnqueuedPlace, ZenonT(30)
  <1>5. Place(r, d) = "waiting" => job' = job
    <2>1. job[r][d].st = "active" => run[r][job[r][d].owner].pc \in Points
      BY BusyType DEF Locked, LockedAt
    <2> QED
      BY <2>1 DEF Place, Points, Enqueue, InFlight
  <1>6. \A p \in Queues, x \in Docs : (p # q \/ x # d) /\ (p # r \/ x # d) =>
          Place(p, x)' = Place(p, x) /\ LockedAt(p, x)'
    BY <1>3, <1>4, UnmovedPlace
  <1>7. job'[q][d] = job[q][d]
    BY <1>4
  <1>8. Place(q, d)' = "end" /\ LockedAt(q, d)'
    BY <1>1, <1>2, <1>7 DEF Owns, Place, LockedAt
  <1>9. Locked'
    BY <1>4, <1>6, <1>8 DEF Locked
  <1>10. \A x \in Docs : Untold(x)
    BY UntoldIfUnchanged DEF proc
  <1>11. Elsewhere(d)
    BY <1>4, <1>6, <1>10 DEF Elsewhere, Same, Untold, row
  <1> QED
    BY <1>2, <1>4, <1>5, <1>6, <1>7, <1>8, <1>9, <1>10, <1>11 DEF HandsOver

LEMMA ExtractHandsOver ==
  ASSUME TypeOK, Owned, Locked, \A x \in Docs : DocInv(x), Forward,
         NEW s \in Slots, ExtractEnqueues(s)
  PROVE  Locked' /\ \A x \in Docs : DocInv(x)'
  <1> USE DEF Queues
  <1>1. PICK d \in Docs : d = run["extract"][s].doc
    BY BusyType DEF ExtractEnqueues, At
  <1>2. HandsOver("extract", d, "enqNormalize", "normalize")
    BY <1>1, EnqueueHandsOver DEF ExtractEnqueues, At
  <1>3. DocInv(d) /\ status'[d] = status[d] /\ hasText'[d] = hasText[d]
    BY DEF ExtractEnqueues, row
  <1>4. /\ ExtractOpen(d) /\ Untouched(d) /\ status[d] = "EXTRACTED"
        /\ Place("normalize", d) = "over" /\ crawl[d] = "done"
    BY <1>2, <1>3 DEF HandsOver, DocInv, CrawlInv, ExtractInv, ExtractOpen
  <1>5. /\ Place("extract", d)' = "end" /\ Place("normalize", d)' = "waiting"
        /\ job'["normalize"][d].made = 0 /\ job'["extract"][d].made = job["extract"][d].made
        /\ Place("classify", d)' = "over" /\ crawl'[d] = "done"
        /\ Untouched(d)' /\ Untold(d)
    BY <1>2, <1>4 DEF HandsOver, Untold, Untouched
  <1>6. PlacesOK(d)' /\ CrawlInv(d)' /\ ExtractInv(d)' /\ NormalizeInv(d)'
    BY <1>3, <1>4, <1>5
    DEF PlacesOK, CrawlInv, ExtractInv, NormalizeInv, ExtractOpen, NormalizeOpen, Handing,
        ClassifyOpen
  <1>7. FirstInv(d)' /\ TextInv(d)'
    BY <1>3, <1>4, <1>5
    DEF DocInv, FirstInv, TextInv, Handing, ClassifyOpen, Untouched, Untold, Forward
  <1>8. ReadyInv(d)' /\ HalfWayInv(d)' /\ ReopenInv(d)'
    BY <1>3, <1>4, <1>5 DEF ReadyInv, HalfWayInv, ReopenInv, NormalizeOpen, Untouched
  <1>9. TriesInv(d)'
    <2>1. job["extract"][d].made \in Nat
      BY DEF TypeOK, JobRec
    <2> QED
      BY <1>2, <1>3, <1>5, <2>1 DEF HandsOver, DocInv, TriesInv, Forward
  <1>10. DocInv(d)'
    BY <1>6, <1>7, <1>8, <1>9 DEF DocInv
  <1> QED
    BY <1>2, <1>10, ElsewhereKeepsDocInv DEF HandsOver

\* The second stage, up to the handing over.
LEMMA NormalizeSettles ==
  ASSUME TypeOK, Owned, Locked, \A x \in Docs : DocInv(x), Forward, NEW s \in Slots,
         \/ NormalizeFind(s) \/ NormalizeClaim(s) \/ NormalizeWinner(s)
         \/ NormalizeDedup(s) \/ NormalizeFails(s)
  PROVE  Locked' /\ \A x \in Docs : DocInv(x)'
  <1> USE DEF Queues
  <1> DEFINE before == {"noText", "find", "claim", "winner", "dedup"}
  <1>1. run["normalize"][s].pc \in before
    BY DEF NormalizeFind, NormalizeClaim, NormalizeWinner, NormalizeDedup, NormalizeFails, At
  <1>2. PICK d \in Docs : d = run["normalize"][s].doc
    BY <1>1, BusyType
  <1>3. /\ status \in [Docs -> Statuses] /\ canon \in [Docs -> Docs \cup {None}]
        /\ run \in [Queues -> [Slots -> RunRec]]
        /\ run["normalize"][s] \in BusyRec
        /\ \A q \in Queues : job[q][d].made \in Nat
    BY <1>1, BusyType DEF TypeOK, RowOK, JobRec
  <1>4. DocInv(d) /\ Place("normalize", d) = run["normalize"][s].pc
    BY <1>1, <1>2, PlaceOfRun
  <1>5. /\ NormalizeOpen(d) /\ Untouched(d) /\ ~ExtractOpen(d)
        /\ status[d] \in {"EXTRACTED", "READY_FOR_AI"} /\ crawl[d] = "done"
        /\ hasText[d] \/ Place("normalize", d) = "noText"
    BY <1>1, <1>4 DEF DocInv, CrawlInv, ExtractInv, NormalizeInv, TextInv, NormalizeOpen
  <1>6. hasText' = hasText /\ UNCHANGED <<job, proc>> /\ RowsKept(d)
    BY <1>2, <1>3
    DEF NormalizeFind, NormalizeClaim, NormalizeWinner, NormalizeDedup, NormalizeFails,
        MarkFailed, RowsKept, row
  <1>7. ASSUME NEW pc, pc # "idle", Moves("normalize", d, run["normalize"][s].pc, pc),
               \/ /\ pc \in {"claim", "winner", "dedup"} /\ hasText[d]
                  /\ status'[d] = status[d] /\ canon'[d] = canon[d]
               \/ /\ pc = "enqClassify" /\ status'[d] = "READY_FOR_AI"
                  /\ hasText[d] /\ canon'[d] = None
               \/ pc = "end" /\ status'[d] \in {"FAILED", "DEDUPED"}
        PROVE  Locked' /\ \A x \in Docs : DocInv(x)'
    <2>1. /\ Place("extract", d)' = Place("extract", d) /\ Place("classify", d)' = "over"
          /\ Place("normalize", d)' = pc
          /\ crawl'[d] = "done" /\ hasText'[d] = hasText[d]
          /\ Untouched(d)' /\ Untold(d)
      BY <1>5, <1>6, <1>7 DEF Moves, Untold, Untouched
    <2>2. PlacesOK(d)' /\ CrawlInv(d)' /\ ExtractInv(d)'
      BY <1>4, <1>5, <1>7, <2>1
      DEF DocInv, PlacesOK, CrawlInv, ExtractInv, ExtractOpen, NormalizeOpen, Handing,
          ClassifyOpen
    <2>3. NormalizeInv(d)'
      BY <1>4, <1>5, <1>7, <2>1 DEF DocInv, NormalizeInv, NormalizeOpen, Forward
    <2>4. FirstInv(d)' /\ TextInv(d)'
      BY <1>4, <1>5, <1>7, <2>1
      DEF DocInv, FirstInv, TextInv, Handing, ClassifyOpen, Untouched, Untold, Forward
    <2>5. ReadyInv(d)' /\ HalfWayInv(d)' /\ ReopenInv(d)'
      BY <1>4, <1>5, <1>7, <2>1
      DEF DocInv, ReadyInv, HalfWayInv, ReopenInv, ExtractOpen, NormalizeOpen, Handing,
          Untouched
    <2>6. TriesInv(d)'
      BY <1>3, <1>4, <1>7, <2>1 DEF DocInv, TriesInv, Moves, Forward
    <2>7. DocInv(d)'
      BY <2>2, <2>3, <2>4, <2>5, <2>6 DEF DocInv
    <2> QED
      BY <1>7, <2>7, ElsewhereKeepsDocInv DEF Moves
  <1>8. \A pc \in {"claim", "winner", "enqClassify", "end"} : Goto("normalize", s, pc) =>
          Moves("normalize", d, run["normalize"][s].pc, pc)
    BY <1>1, <1>2, <1>6, GotoMoves
  <1>9. ASSUME NEW c, TakeCanonical(s, c)
        PROVE  Moves("normalize", d, run["normalize"][s].pc, "dedup")
    <2>1. /\ run'["normalize"][s].pc = "dedup" /\ run'["normalize"][s].doc = d
          /\ \A p \in Queues, t \in Slots :
               p # "normalize" \/ t # s => run'[p][t] = run[p][t]
      BY <1>2, <1>3, <1>9 DEF TakeCanonical, BusyRec
    <2> QED
      BY <1>1, <1>2, <1>6, <2>1, HandlerMoves
  <1>10. CASE NormalizeFind(s)
    <2>1. hasText[d] /\ status'[d] = status[d] /\ canon'[d] = canon[d]
      BY <1>4, <1>5, <1>10 DEF NormalizeFind, At, row
    <2> QED
      BY <1>7, <1>8, <1>9, <1>10, <2>1 DEF NormalizeFind
  <1>11. CASE NormalizeClaim(s)
    <2>1. hasText[d]
      BY <1>4, <1>5, <1>11 DEF NormalizeClaim, At
    <2>2. \/ Goto("normalize", s, "winner") /\ status' = status /\ canon' = canon
          \/ /\ Goto("normalize", s, "enqClassify")
             /\ status'[d] = "READY_FOR_AI" /\ canon'[d] = None
      BY <1>2, <1>3, <1>11 DEF NormalizeClaim, row
    <2> QED
      BY <1>7, <1>8, <2>1, <2>2
  <1>12. CASE NormalizeWinner(s)
    <2>1. hasText[d]
      BY <1>4, <1>5, <1>12 DEF NormalizeWinner, At
    <2>2. \/ (\E c : TakeCanonical(s, c)) /\ status' = status /\ canon' = canon
          \/ Goto("normalize", s, "end") /\ status'[d] = "FAILED"
      BY <1>2, <1>3, <1>12 DEF NormalizeWinner, MarkFailed, row
    <2> QED
      BY <1>7, <1>8, <1>9, <2>1, <2>2
  <1>13. CASE NormalizeDedup(s) \/ NormalizeFails(s)
    <2>1. Goto("normalize", s, "end") /\ status'[d] \in {"FAILED", "DEDUPED"}
      BY <1>2, <1>3, <1>13 DEF NormalizeDedup, NormalizeFails, MarkFailed
    <2> QED
      BY <1>7, <1>8, <2>1
  <1> QED
    BY <1>10, <1>11, <1>12, <1>13

LEMMA NormalizeHandsOver ==
  ASSUME TypeOK, Owned, Locked, \A x \in Docs : DocInv(x), Forward,
         NEW s \in Slots, NormalizeEnqueues(s)
  PROVE  Locked' /\ \A x \in Docs : DocInv(x)'
  <1> USE DEF Queues
  <1>1. PICK d \in Docs : d = run["normalize"][s].doc
    BY BusyType DEF NormalizeEnqueues, At
  <1>2. HandsOver("normalize", d, "enqClassify", "classify")
    BY <1>1, EnqueueHandsOver DEF NormalizeEnqueues, At
  <1>3. /\ DocInv(d)
        /\ status'[d] = status[d] /\ canon'[d] = canon[d] /\ hasText'[d] = hasText[d]
    BY DEF NormalizeEnqueues, row
  <1>4. /\ Handing(d) /\ ~NormalizeOpen(d) /\ ~ExtractOpen(d) /\ ~Wants("reopen", d)
        /\ status[d] # "EXTRACTED" /\ crawl[d] = "done" /\ hasText[d]
    BY <1>2, <1>3
    DEF HandsOver, DocInv, CrawlInv, ExtractInv, HalfWayInv, ReopenInv, TextInv, Handing,
        NormalizeOpen
  <1>5. /\ Place("extract", d)' = Place("extract", d) /\ Place("normalize", d)' = "end"
        /\ \/ Place("classify", d) = "over" /\ Place("classify", d)' = "waiting"
           \/ Place("classify", d) # "over" /\ Place("classify", d)' = Place("classify", d)
        /\ crawl'[d] = "done" /\ Untold(d)
    BY <1>2, <1>4 DEF HandsOver, Untold
  <1>6. PlacesOK(d)' /\ CrawlInv(d)' /\ ExtractInv(d)' /\ NormalizeInv(d)'
    BY <1>3, <1>4, <1>5
    DEF DocInv, PlacesOK, CrawlInv, ExtractInv, NormalizeInv, ExtractOpen, NormalizeOpen,
        Handing, ClassifyOpen
  <1>7. FirstInv(d)'
    BY <1>3, <1>4, <1>5
    DEF DocInv, FirstInv, Handing, ClassifyOpen, Untouched, Untold, Forward
  <1>8. TextInv(d)' /\ HalfWayInv(d)' /\ ReopenInv(d)'
    BY <1>3, <1>4, <1>5 DEF DocInv, TextInv, HalfWayInv, ReopenInv, ExtractOpen, Untold
  <1>9. ReadyInv(d)'
    BY <1>3, <1>4, <1>5 DEF DocInv, PlacesOK, ReadyInv, ClassifyOpen, Untold
  <1>10. TriesInv(d)'
    <2>1. \A q \in Queues : job[q][d].made \in Nat
      BY DEF TypeOK, JobRec
    <2>2. /\ job'["extract"][d].made = job["extract"][d].made
          /\ job'["normalize"][d].made = job["normalize"][d].made
      BY <1>2 DEF HandsOver
    <2> QED
      BY <1>3, <1>4, <1>5, <2>1, <2>2 DEF DocInv, TriesInv, Handing, Forward
  <1>11. DocInv(d)'
    BY <1>6, <1>7, <1>8, <1>9, <1>10 DEF DocInv
  <1> QED
    BY <1>2, <1>11, ElsewhereKeepsDocInv DEF HandsOver

\* The third stage.
LEMMA ClassifySettles ==
  ASSUME TypeOK, Owned, Locked, \A x \in Docs : DocInv(x), Forward, NEW s \in Slots,
         ClassifyForClient(s) \/ ClassifyError(s) \/ MarkClassified(s), ~Spend("reject")
  PROVE  Locked' /\ \A x \in Docs : DocInv(x)'
  <1> USE DEF Queues
  <1>1. run["classify"][s].pc \in {"client", "mark"}
    BY DEF ClassifyForClient, ClassifyError, MarkClassified, At
  <1>2. PICK d \in Docs : d = run["classify"][s].doc
    BY <1>1, BusyType
  <1>3. /\ status \in [Docs -> Statuses] /\ run \in [Queues -> [Slots -> RunRec]]
        /\ run["classify"][s] \in BusyRec
        /\ \A q \in Queues : job[q][d].made \in Nat
    BY <1>1, BusyType DEF TypeOK, RowOK, JobRec
  <1>4. DocInv(d) /\ Place("classify", d) = run["classify"][s].pc
    BY <1>1, <1>2, PlaceOfRun
  <1>5. /\ ClassifyOpen(d) /\ hasText[d] /\ crawl[d] = "done"
        /\ ~ExtractOpen(d) /\ ~NormalizeOpen(d) /\ ~Wants("reopen", d)
        /\ Asked = 0 => ~FailureOpen(d) /\ ~Handing(d)
    BY <1>1, <1>4
    DEF DocInv, CrawlInv, ExtractInv, NormalizeInv, TextInv, FirstInv, ReopenInv, Untouched,
        ClassifyOpen
  <1>6. UNCHANGED <<canon, hasText, job, proc>> /\ RowsKept(d)
    BY <1>2, <1>3 DEF ClassifyForClient, ClassifyError, MarkClassified, RowsKept
  <1>7. ASSUME NEW pc, pc # "idle", Moves("classify", d, run["classify"][s].pc, pc),
               \/ pc \in {"client", "mark", "throw"} /\ status'[d] = status[d]
               \/ pc = "end" /\ status'[d] = "CLASSIFIED"
        PROVE  Locked' /\ \A x \in Docs : DocInv(x)'
    <2>1. /\ Place("extract", d)' = Place("extract", d) /\ Place("classify", d)' = pc
          /\ Place("normalize", d)' = Place("normalize", d)
          /\ crawl'[d] = "done" /\ hasText'[d] /\ canon'[d] = canon[d] /\ Untold(d)
      BY <1>5, <1>6, <1>7 DEF Moves, Untold
    <2>2. PlacesOK(d)' /\ CrawlInv(d)' /\ ExtractInv(d)' /\ NormalizeInv(d)'
      BY <1>4, <1>5, <1>7, <2>1
      DEF DocInv, PlacesOK, CrawlInv, ExtractInv, NormalizeInv, ExtractOpen, NormalizeOpen,
          Handing, ClassifyOpen
    <2>3. FirstInv(d)'
      BY <1>4, <1>5, <1>7, <2>1
      DEF DocInv, FirstInv, Handing, ClassifyOpen, Untold, Forward
    <2>4. TextInv(d)' /\ HalfWayInv(d)' /\ ReopenInv(d)'
      BY <1>4, <1>5, <1>7, <2>1
      DEF DocInv, TextInv, HalfWayInv, ReopenInv, ExtractOpen, NormalizeOpen, Untold
    <2>5. ReadyInv(d)'
      BY <1>4, <1>5, <1>7, <2>1 DEF DocInv, ReadyInv, ClassifyOpen
    <2>6. TriesInv(d)'
      BY <1>3, <1>4, <1>7, <2>1 DEF DocInv, TriesInv, Moves, Forward
    <2>7. DocInv(d)'
      BY <2>2, <2>3, <2>4, <2>5, <2>6 DEF DocInv
    <2> QED
      BY <1>7, <2>7, ElsewhereKeepsDocInv DEF Moves
  <1>8. \A pc \in {"throw", "end"} : Goto("classify", s, pc) =>
          Moves("classify", d, run["classify"][s].pc, pc)
    BY <1>1, <1>2, <1>6, GotoMoves
  <1>9. CASE ClassifyForClient(s)
    <2>1. /\ run'["classify"][s].pc \in {"client", "mark"} /\ run'["classify"][s].doc = d
          /\ \A p \in Queues, t \in Slots :
               p # "classify" \/ t # s => run'[p][t] = run[p][t]
      BY <1>2, <1>3, <1>9 DEF ClassifyForClient, At, BusyRec
    <2>2. PICK pc \in {"client", "mark"} : run'["classify"][s].pc = pc
      BY <2>1
    <2>3. Moves("classify", d, run["classify"][s].pc, pc)
      BY <1>1, <1>2, <1>6, <2>1, <2>2, HandlerMoves
    <2>4. status'[d] = status[d]
      BY <1>9 DEF ClassifyForClient
    <2> QED
      BY <1>7, <2>2, <2>3, <2>4
  <1>10. CASE ClassifyError(s)
    <2>1. Goto("classify", s, "throw") /\ status'[d] = status[d]
      BY <1>10 DEF ClassifyError
    <2> QED
      BY <1>7, <1>8, <2>1
  <1>11. CASE MarkClassified(s)
    <2>1. Goto("classify", s, "end") /\ status'[d] = "CLASSIFIED"
      BY <1>2, <1>3, <1>11 DEF MarkClassified
    <2> QED
      BY <1>7, <1>8, <2>1
  <1> QED
    BY <1>9, <1>10, <1>11

\* A rejected call sends the document back to the start of the stage.
LEMMA ThrowSettles ==
  ASSUME TypeOK, Owned, Locked, \A x \in Docs : DocInv(x), Forward,
         NEW q \in Queues, NEW s \in Slots, HandlerThrows(q, s),
         Failed' = Failed + 1, Asked' = 0
  PROVE  Locked' /\ \A x \in Docs : DocInv(x)'
  <1> USE DEF Queues
  <1> DEFINE thrown == {"extract", "enqNormalize", "noText", "find", "enqClassify", "mark",
                        "client"}
  <1>1. run[q][s].pc \in thrown
    BY DEF HandlerThrows, At
  <1>2. PICK d \in Docs : d = run[q][s].doc
    BY <1>1, BusyType
  <1>3. UNCHANGED <<job, proc>> /\ RowsKept(d)
        /\ status' = status /\ canon' = canon /\ hasText' = hasText
    BY DEF HandlerThrows, RowsKept, row
  <1>4. Moves(q, d, run[q][s].pc, "throw")
    BY <1>1, <1>2, <1>3, GotoMoves DEF HandlerThrows
  <1>5. DocInv(d) /\ Place(q, d) \in thrown /\ Untold(d)
    BY <1>1, <1>4 DEF Moves
  <1>6. Asked = 0 /\ Failed \in Nat /\ \A p \in Queues : job[p][d].made \in Nat
    BY DEF Forward, TypeOK, JobRec
  <1>7. Place(q, d)' = "throw" /\ \A p \in Queues \ {q} : Place(p, d)' = Place(p, d)
    BY <1>4 DEF Moves
  <1>8. TriesInv(d)'
    BY <1>4, <1>5, <1>6, <1>7 DEF DocInv, TriesInv, Moves
  <1>9. crawl'[d] = "done"
    BY <1>4, <1>5 DEF DocInv, CrawlInv, Moves, Untold, Untouched
  <1>10. CASE q = "extract"
    <2>1. /\ Place("normalize", d)' = "over" /\ Place("classify", d)' = "over"
          /\ ExtractOpen(d) /\ Untouched(d) /\ Untouched(d)'
          /\ status[d] \in {"RECEIVED", "EXTRACTED"}
      BY <1>5, <1>7, <1>10
      DEF DocInv, PlacesOK, ExtractInv, ExtractOpen, Untouched, Untold
    <2>2. PlacesOK(d)' /\ CrawlInv(d)' /\ ExtractInv(d)' /\ NormalizeInv(d)'
      BY <1>3, <1>7, <1>9, <1>10, <2>1
      DEF PlacesOK, CrawlInv, ExtractInv, NormalizeInv, ExtractOpen, NormalizeOpen, Handing,
          ClassifyOpen
    <2>3. FirstInv(d)' /\ TextInv(d)'
      BY <1>3, <1>5, <1>6, <2>1
      DEF DocInv, FirstInv, TextInv, Handing, ClassifyOpen, Untouched, Untold
    <2>4. ReadyInv(d)' /\ HalfWayInv(d)' /\ ReopenInv(d)'
      BY <1>3, <1>7, <1>10, <2>1 DEF ReadyInv, HalfWayInv, ReopenInv, ExtractOpen, Untouched
    <2> QED
      BY <1>4, <1>8, <2>2, <2>3, <2>4, ElsewhereKeepsDocInv DEF DocInv, Moves
  <1>11. CASE q = "normalize"
    <2>1. /\ Untouched(d) /\ Untouched(d)' /\ ~ExtractOpen(d)
          /\ status[d] \in {"EXTRACTED", "READY_FOR_AI"}
          /\ Place("extract", d)' = Place("extract", d)
          /\ Place("normalize", d)' = "throw" /\ Place("classify", d)' = "over"
      BY <1>5, <1>6, <1>7, <1>11
      DEF DocInv, PlacesOK, ExtractInv, NormalizeInv, FirstInv, NormalizeOpen, Handing,
          Untouched, Untold
    <2>2. PlacesOK(d)' /\ CrawlInv(d)' /\ ExtractInv(d)' /\ NormalizeInv(d)'
      BY <1>3, <1>5, <1>6, <1>9, <2>1
      DEF DocInv, PlacesOK, CrawlInv, ExtractInv, NormalizeInv, ExtractOpen, NormalizeOpen,
          Handing, ClassifyOpen
    <2>3. FirstInv(d)' /\ TextInv(d)'
      BY <1>3, <1>5, <1>6, <2>1
      DEF DocInv, FirstInv, TextInv, Handing, ClassifyOpen, Untouched, Untold
    <2>4. ReadyInv(d)' /\ HalfWayInv(d)' /\ ReopenInv(d)'
      BY <1>3, <1>5, <2>1
      DEF DocInv, ReadyInv, HalfWayInv, ReopenInv, NormalizeOpen, ExtractOpen, Untouched
    <2> QED
      BY <1>4, <1>8, <2>2, <2>3, <2>4, ElsewhereKeepsDocInv DEF DocInv, Moves
  <1>12. CASE q = "classify"
    <2>1. /\ ClassifyOpen(d) /\ hasText[d] /\ ~ExtractOpen(d) /\ ~NormalizeOpen(d)
          /\ ~FailureOpen(d) /\ ~Handing(d) /\ ~Wants("reopen", d)
          /\ Place("extract", d)' = Place("extract", d)
          /\ Place("normalize", d)' = Place("normalize", d)
          /\ Place("classify", d)' = "throw"
      BY <1>5, <1>6, <1>7, <1>12
      DEF DocInv, PlacesOK, ExtractInv, NormalizeInv, FirstInv, TextInv, ReopenInv,
          ClassifyOpen, Untouched
    <2>2. PlacesOK(d)' /\ CrawlInv(d)' /\ ExtractInv(d)' /\ NormalizeInv(d)'
      BY <1>3, <1>5, <1>9, <2>1
      DEF DocInv, PlacesOK, CrawlInv, ExtractInv, NormalizeInv, ExtractOpen, NormalizeOpen,
          Handing, ClassifyOpen
    <2>3. FirstInv(d)'
      BY <1>3, <1>5, <1>6, <2>1 DEF DocInv, FirstInv, Handing, ClassifyOpen, Untold
    <2>4. TextInv(d)' /\ ReadyInv(d)' /\ HalfWayInv(d)' /\ ReopenInv(d)'
      BY <1>3, <1>5, <2>1
      DEF DocInv, TextInv, ReadyInv, HalfWayInv, ReopenInv, ClassifyOpen, ExtractOpen,
          NormalizeOpen, Untold
    <2> QED
      BY <1>4, <1>8, <2>2, <2>3, <2>4, ElsewhereKeepsDocInv DEF DocInv, Moves
  <1> QED
    BY <1>10, <1>11, <1>12

\* A job is handed out: its handler starts at the entry of the stage.
LEMMA FetchMoves ==
  ASSUME TypeOK, Owned, Locked, NEW q \in Queues, NEW s \in Slots, NEW d \in Docs,
         Fetch(q, s, d)
  PROVE  Moves(q, d, "waiting", Entry(q, d))
  <1> DEFINE rec == [pc |-> Entry(q, d), doc |-> d, cand |-> None,
                     client |-> IF q = "classify" /\ NClients > 0 THEN 1 ELSE 0]
             new == [job[q][d] EXCEPT !.st = "active", !.owner = s]
  <1>1. job \in [Queues -> [Docs -> JobRec]] /\ run \in [Queues -> [Slots -> RunRec]]
    BY DEF TypeOK
  <1>2. rec.doc = d /\ rec.pc = Entry(q, d)
    OBVIOUS
  <1>3. new.st = "active" /\ new.owner = s /\ new.made = job[q][d].made
    BY <1>1 DEF JobRec
  <1>4. job' = [job EXCEPT ![q][d] = new] /\ run' = [run EXCEPT ![q][s] = rec]
    BY DEF Fetch
  <1> HIDE DEF rec, new
  <1>5. /\ run'[q][s].pc = Entry(q, d) /\ run'[q][s].doc = d
        /\ \A p \in Queues, t \in Slots : p # q \/ t # s => run'[p][t] = run[p][t]
    BY <1>1, <1>2, <1>4
  <1>6. /\ job'[q][d].st = "active" /\ job'[q][d].owner = s
        /\ job'[q][d].made = job[q][d].made
        /\ \A p \in Queues, x \in Docs : p # q \/ x # d => job'[p][x] = job[p][x]
    BY <1>1, <1>3, <1>4
  <1>7. Place(q, d) = "waiting" /\ run[q][s].pc = "idle"
    BY DEF Fetch, Place, Idle
  <1>8. Entry(q, d) # "idle"
    BY DEF Entry, ClassifyEntry, Queues
  <1>9. Place(q, d)' = Entry(q, d) /\ LockedAt(q, d)'
    <2>1. IF job'[q][d].st = "active" THEN run'[q][job'[q][d].owner].pc = Entry(q, d)
          ELSE job'[q][d].st = Entry(q, d)
      BY <1>5, <1>6
    <2> QED
      BY <1>5, <1>6, <1>8, <2>1 DEF Place, LockedAt
  <1>10. \A p \in Queues, x \in Docs : p # q \/ x # d =>
           Place(p, x)' = Place(p, x) /\ LockedAt(p, x)'
    BY <1>5, <1>6, <1>7, OthersUnmoved, UnmovedPlace
  <1>11. Locked'
    BY <1>9, <1>10 DEF Locked
  <1>12. \A x \in Docs : Untold(x)
    BY UntoldIfUnchanged DEF Fetch, proc
  <1>13. Elsewhere(d)
    BY <1>6, <1>10, <1>12 DEF Elsewhere, Same, Untold, Fetch, row
  <1>14. \A p \in Queues : job'[p][d].made = job[p][d].made
    BY <1>6
  <1> QED
    BY <1>7, <1>9, <1>10, <1>11, <1>12, <1>13, <1>14 DEF Moves

LEMMA FetchSettles ==
  ASSUME TypeOK, Owned, Locked, \A x \in Docs : DocInv(x), Forward, Failed' = Failed,
         NEW q \in Queues, NEW s \in Slots, NEW d \in Docs, Fetch(q, s, d)
  PROVE  Locked' /\ \A x \in Docs : DocInv(x)'
  <1> USE DEF Queues
  <1> DEFINE pc == Entry(q, d)
  <1>1. Moves(q, d, "waiting", pc)
    BY FetchMoves
  <1>2. status' = status /\ canon' = canon /\ hasText' = hasText
    BY DEF Fetch, row
  <1>3. DocInv(d) /\ Place(q, d) = "waiting" /\ Untold(d)
    BY <1>1 DEF Moves
  <1>4. \A p \in Queues : job[p][d].made \in Nat
    BY DEF TypeOK, JobRec
  <1>5. \A p \in Queues \ {q} : Place(p, d)' = Place(p, d)
    BY <1>1 DEF Moves
  <1>6. crawl'[d] = "done"
    BY <1>3 DEF DocInv, CrawlInv, Untold, Untouched
  <1>7. hasText[d] \in BOOLEAN
    BY DEF TypeOK, RowOK
  <1>8. CASE q = "extract"
    <2>1. Place("extract", d)' = "extract"
      BY <1>1, <1>8 DEF Moves, Entry
    <2>2. /\ Place("normalize", d)' = "over" /\ Place("classify", d)' = "over"
          /\ ExtractOpen(d) /\ Untouched(d) /\ Untouched(d)'
          /\ status[d] \in {"RECEIVED", "EXTRACTED"}
      BY <1>3, <1>5, <1>8 DEF DocInv, ExtractInv, ExtractOpen, Untouched, Untold
    <2>3. PlacesOK(d)' /\ CrawlInv(d)' /\ ExtractInv(d)' /\ NormalizeInv(d)'
      BY <1>2, <1>6, <2>1, <2>2
      DEF PlacesOK, CrawlInv, ExtractInv, NormalizeInv, ExtractOpen, NormalizeOpen, Handing,
          ClassifyOpen
    <2>4. FirstInv(d)' /\ TextInv(d)'
      BY <1>2, <1>3, <2>1, <2>2
      DEF DocInv, FirstInv, TextInv, Handing, ClassifyOpen, Untouched, Untold, Forward
    <2>5. ReadyInv(d)' /\ HalfWayInv(d)' /\ ReopenInv(d)'
      BY <1>2, <2>1, <2>2 DEF ReadyInv, HalfWayInv, ReopenInv, ExtractOpen, Untouched
    <2>6. TriesInv(d)'
      BY <1>1, <1>3, <1>4, <2>1, <2>2 DEF DocInv, TriesInv, Moves, Forward
    <2> QED
      BY <1>1, <2>3, <2>4, <2>5, <2>6, ElsewhereKeepsDocInv DEF DocInv, Moves
  <1>9. CASE q = "normalize"
    <2>1. /\ Place("normalize", d)' \in {"find", "noText"}
          /\ Place("normalize", d)' = "find" => hasText[d]
      BY <1>1, <1>9 DEF Moves, Entry
    <2>2. /\ NormalizeOpen(d) /\ Untouched(d) /\ Untouched(d)' /\ ~ExtractOpen(d)
          /\ Place("extract", d)' = Place("extract", d) /\ Place("classify", d)' = "over"
          /\ status[d] \in {"EXTRACTED", "READY_FOR_AI"}
      BY <1>3, <1>5, <1>9
      DEF DocInv, ExtractInv, NormalizeInv, NormalizeOpen, Untouched, Untold
    <2>3. PlacesOK(d)' /\ CrawlInv(d)' /\ ExtractInv(d)' /\ NormalizeInv(d)'
      BY <1>2, <1>3, <1>6, <2>1, <2>2
      DEF DocInv, PlacesOK, CrawlInv, ExtractInv, NormalizeInv, ExtractOpen, NormalizeOpen,
          Handing, ClassifyOpen
    <2>4. FirstInv(d)' /\ TextInv(d)'
      BY <1>2, <1>3, <2>1, <2>2
      DEF DocInv, FirstInv, TextInv, Handing, ClassifyOpen, Untouched, Untold, Forward
    <2>5. ReadyInv(d)' /\ HalfWayInv(d)' /\ ReopenInv(d)'
      BY <1>2, <1>3, <2>1, <2>2
      DEF DocInv, ReadyInv, HalfWayInv, ReopenInv, ExtractOpen, NormalizeOpen, Untouched
    <2>6. TriesInv(d)'
      BY <1>1, <1>3, <1>4, <2>1, <2>2 DEF DocInv, TriesInv, Moves, Forward
    <2> QED
      BY <1>1, <2>3, <2>4, <2>5, <2>6, ElsewhereKeepsDocInv DEF DocInv, Moves
  <1>10. CASE q = "classify"
    <2>1. /\ ClassifyOpen(d) /\ ~ExtractOpen(d) /\ ~NormalizeOpen(d) /\ ~Wants("reopen", d)
          /\ Asked = 0 => status[d] = "READY_FOR_AI" /\ ~FailureOpen(d) /\ ~Handing(d)
      BY <1>3, <1>10
      DEF DocInv, ExtractInv, NormalizeInv, FirstInv, ReopenInv, ClassifyOpen, Untouched
    <2>2. status[d] = "READY_FOR_AI" => canon[d] = None
      BY <1>3 DEF DocInv, ReadyInv
    <2>3. /\ Place("classify", d)' = ClassifyEntry(d)
          /\ Place("extract", d)' = Place("extract", d)
          /\ Place("normalize", d)' = Place("normalize", d)
      BY <1>1, <1>5, <1>10 DEF Moves, Entry
    <2>4. /\ ClassifyEntry(d) \in {"end", "mark", "client"}
          /\ ClassifyEntry(d) = "end" => status[d] # "READY_FOR_AI"
          /\ ClassifyEntry(d) # "end" => hasText[d]
      BY <1>3, <2>2 DEF ClassifyEntry, DocInv, TextInv
    <2>5. PlacesOK(d)' /\ CrawlInv(d)' /\ ExtractInv(d)' /\ NormalizeInv(d)'
      BY <1>2, <1>3, <1>6, <2>1, <2>3, <2>4
      DEF DocInv, PlacesOK, CrawlInv, ExtractInv, NormalizeInv, ExtractOpen, NormalizeOpen,
          Handing, ClassifyOpen
    <2>6. FirstInv(d)'
      BY <1>2, <1>3, <2>1, <2>3, <2>4
      DEF DocInv, FirstInv, Handing, ClassifyOpen, Untold, Forward
    <2>7. TextInv(d)' /\ HalfWayInv(d)' /\ ReopenInv(d)'
      BY <1>2, <1>3, <2>1, <2>3, <2>4
      DEF DocInv, TextInv, HalfWayInv, ReopenInv, ExtractOpen, NormalizeOpen, Handing, Untold
    <2>8. ReadyInv(d)'
      BY <1>2, <1>3, <2>2, <2>3, <2>4 DEF DocInv, ReadyInv, ClassifyOpen
    <2>9. TriesInv(d)'
      BY <1>1, <1>3, <1>4, <2>3 DEF DocInv, TriesInv, Moves, Forward
    <2> QED
      BY <1>1, <2>5, <2>6, <2>7, <2>8, <2>9, ElsewhereKeepsDocInv DEF DocInv, Moves
  <1> QED
    BY <1>8, <1>9, <1>10

\* A handler that settles leaves its job over, or waiting for another attempt.
LEMMA SettledPlaces ==
  ASSUME TypeOK, Owned, Locked, NEW q \in Queues, NEW s \in Slots, NEW d \in Docs,
         HandlerReturns(q, s) \/ HandlerRejects(q, s), run[q][s].doc = d
  PROVE  /\ Place(q, d) = run[q][s].pc
         /\ \/ /\ run[q][s].pc # "throw" \/ job[q][d].made + 1 >= Attempts
               /\ Place(q, d)' = "over" /\ job'[q][d].made = 0
            \/ /\ run[q][s].pc = "throw" /\ ~(job[q][d].made + 1 >= Attempts)
               /\ Place(q, d)' = "waiting" /\ job'[q][d].made = job[q][d].made + 1
         /\ \A p \in Queues, x \in Docs : p # q \/ x # d =>
              Place(p, x)' = Place(p, x) /\ job'[p][x].made = job[p][x].made
         /\ Locked'
         /\ UNCHANGED <<row, crawl, api>>
  <1>1. run[q][s].pc # "idle"
    BY DEF HandlerReturns, HandlerRejects, At
  <1>2. Owns(q, s, d) /\ Place(q, d) = run[q][s].pc
    BY <1>1, PlaceOfRun
  <1>3. /\ \A p \in Queues, t \in Slots : p # q \/ t # s => run'[p][t] = run[p][t]
        /\ \A p \in Queues, x \in Docs : p # q \/ x # d => job'[p][x] = job[p][x]
        /\ \/ /\ run[q][s].pc # "throw" \/ job[q][d].made + 1 >= Attempts
              /\ job'[q][d] = NoJob
           \/ /\ run[q][s].pc = "throw" /\ ~(job[q][d].made + 1 >= Attempts)
              /\ job'[q][d].st = "waiting" /\ job'[q][d].made = job[q][d].made + 1
    BY <1>1, <1>2, SettledJob DEF At
  <1>4. \A p \in Queues, x \in Docs : p # q \/ x # d =>
          Place(p, x)' = Place(p, x) /\ LockedAt(p, x)'
    BY <1>3, OthersUnmoved, UnmovedPlace
  <1>5. LockedAt(q, d)'
    BY <1>3 DEF LockedAt, NoJob
  <1>6. Locked'
    BY <1>4, <1>5 DEF Locked
  <1>7. \/ /\ run[q][s].pc # "throw" \/ job[q][d].made + 1 >= Attempts
           /\ Place(q, d)' = "over" /\ job'[q][d].made = 0
        \/ /\ run[q][s].pc = "throw" /\ ~(job[q][d].made + 1 >= Attempts)
           /\ Place(q, d)' = "waiting" /\ job'[q][d].made = job[q][d].made + 1
    BY <1>3 DEF Place, NoJob
  <1>8. UNCHANGED <<row, crawl, api>>
    BY DEF HandlerReturns, HandlerRejects, proc
  <1> QED
    BY <1>2, <1>3, <1>4, <1>6, <1>7, <1>8

LEMMA ReturnSettles ==
  ASSUME TypeOK, Owned, Locked, \A x \in Docs : DocInv(x), Forward, Failed' = Failed,
         NEW q \in Queues, NEW s \in Slots, HandlerReturns(q, s)
  PROVE  Locked' /\ \A x \in Docs : DocInv(x)'
  <1> USE DEF Queues
  <1>1. PICK d \in Docs : d = run[q][s].doc
    BY BusyType DEF HandlerReturns, At
  <1>2. run[q][s].pc = "end"
    BY DEF HandlerReturns, At
  <1>3. /\ Place(q, d) = "end" /\ Place(q, d)' = "over" /\ job'[q][d].made = 0
        /\ \A p \in Queues, x \in Docs : p # q \/ x # d =>
             Place(p, x)' = Place(p, x) /\ job'[p][x].made = job[p][x].made
        /\ Locked' /\ UNCHANGED <<row, crawl, api>>
    BY <1>1, <1>2, SettledPlaces
  <1>4. \A x \in Docs : Untold(x)
    BY UntoldIfUnchanged DEF HandlerReturns, proc
  <1>5. Elsewhere(d)
    BY <1>3, <1>4 DEF Elsewhere, Same, Untold, row
  <1>6. /\ DocInv(d) /\ Untold(d)
        /\ status'[d] = status[d] /\ canon'[d] = canon[d] /\ hasText'[d] = hasText[d]
    BY <1>3, <1>4 DEF row
  <1>7. \A p \in Queues : job[p][d].made \in Nat
    BY DEF TypeOK, JobRec
  <1>8. \A p \in {"extract", "normalize", "classify"} \ {q} :
          Place(p, d)' = Place(p, d) /\ job'[p][d].made = job[p][d].made
    BY <1>3
  <1>9. crawl'[d] = "done"
    BY <1>3, <1>6 DEF DocInv, CrawlInv, Untold, Untouched
  <1>10. /\ ExtractOpen(d)' <=> ExtractOpen(d)
         /\ NormalizeOpen(d)' <=> NormalizeOpen(d)
         /\ Handing(d)' <=> Handing(d)
         /\ ClassifyOpen(d)' <=> ClassifyOpen(d)
    BY <1>3, <1>8 DEF ExtractOpen, NormalizeOpen, Handing, ClassifyOpen
  <1>11. Untouched(d) => Untouched(d)'
    BY <1>3, <1>6, <1>8 DEF Untold, Untouched
  <1>12. PlacesOK(d)' /\ CrawlInv(d)' /\ NormalizeInv(d)'
    BY <1>3, <1>6, <1>8, <1>9, <1>10, <1>11
    DEF DocInv, PlacesOK, CrawlInv, NormalizeInv, Forward
  <1>13. ExtractInv(d)'
    BY <1>3, <1>6, <1>8, <1>10, <1>11 DEF DocInv, ExtractInv
  <1>14. FirstInv(d)'
    BY <1>3, <1>6, <1>8, <1>10, <1>11 DEF DocInv, FirstInv, Untold, Forward
  <1>15. TextInv(d)' /\ HalfWayInv(d)' /\ ReopenInv(d)'
    BY <1>3, <1>6, <1>8, <1>9, <1>10
    DEF DocInv, CrawlInv, TextInv, HalfWayInv, ReopenInv, Untold
  <1>16. ReadyInv(d)'
    BY <1>3, <1>6, <1>8, <1>10 DEF DocInv, ReadyInv, Untold
  <1>17. TriesInv(d)'
    BY <1>3, <1>6, <1>7, <1>8 DEF DocInv, TriesInv, Forward
  <1>18. DocInv(d)'
    BY <1>12, <1>13, <1>14, <1>15, <1>16, <1>17 DEF DocInv
  <1> QED
    BY <1>3, <1>5, <1>18, ElsewhereKeepsDocInv

\* A handler that threw: the first two stages are tried again, the third is tried again or
\* leaves a 'failed' event that will fail the document.
LEMMA RejectSettles ==
  ASSUME TypeOK, Owned, Locked, \A x \in Docs : DocInv(x), WorldInv, Forward,
         Failed' = Failed, Failed < Attempts,
         NEW q \in Queues, NEW s \in Slots, HandlerRejects(q, s)
  PROVE  /\ Locked' /\ \A x \in Docs : DocInv(x)'
         /\ \A e \in events' : e.q = "classify"
  <1> USE DEF Queues
  <1>1. PICK d \in Docs : d = run[q][s].doc
    BY BusyType DEF HandlerRejects
  <1>2. /\ run[q][s].pc # "idle" /\ Place(q, d) = run[q][s].pc /\ Owns(q, s, d)
    BY <1>1, PlaceOfRun DEF HandlerRejects
  <1>3. DocInv(d) /\ Place(q, d) = "throw" /\ run[q][s].pc = "throw"
    BY <1>2 DEF HandlerRejects, DocInv, PlacesOK, ExtractOpen, NormalizeOpen, Handing,
       ClassifyOpen
  <1> DEFINE again == ~(job[q][d].made + 1 >= Attempts)
             e0 == [q |-> q, doc |-> d, armed |-> FALSE]
  <1>4. /\ again => Place(q, d)' = "waiting" /\ job'[q][d].made = job[q][d].made + 1
        /\ ~again => Place(q, d)' = "over" /\ job'[q][d].made = 0
        /\ \A p \in Queues, x \in Docs : p # q \/ x # d =>
             Place(p, x)' = Place(p, x) /\ job'[p][x].made = job[p][x].made
        /\ Locked' /\ UNCHANGED <<row, crawl, api>>
    BY <1>1, <1>3, SettledPlaces
  <1>5. /\ again => events' = events
        /\ ~again => events' = events \cup {e0}
    BY <1>1, <1>2 DEF HandlerRejects, IsFinalBullMqFailure
  <1>6. e0.doc = d /\ e0.q = q
    OBVIOUS
  <1> HIDE DEF e0
  <1>7. \A p \in Queues : job[p][d].made \in Nat
    BY DEF TypeOK, JobRec
  <1>8. /\ Wants("reopen", d)' <=> Wants("reopen", d)
        /\ Wants("classify", d)' <=> Wants("classify", d)
        /\ crawl'[d] = crawl[d]
        /\ status'[d] = status[d] /\ canon'[d] = canon[d] /\ hasText'[d] = hasText[d]
    BY <1>4 DEF Wants, row
  <1>9. Elsewhere(d)
    <2>1. \A x \in Docs \ {d} : /\ FailureOpen(x)' <=> FailureOpen(x)
                                /\ Once(x)' <=> Once(x)
      BY <1>5, <1>6 DEF FailureOpen, Once
    <2> QED
      BY <1>4, <2>1 DEF Elsewhere, Same, Wants, row
  <1>10. \A p \in {"extract", "normalize", "classify"} \ {q} :
           Place(p, d)' = Place(p, d) /\ job'[p][d].made = job[p][d].made
    BY <1>4
  <1>11. crawl[d] = "done"
    BY <1>3 DEF DocInv, CrawlInv, Untouched
  <1>12. CASE q \in {"extract", "normalize"}
    <2>1. again
      BY <1>3, <1>7, <1>12, PipelineAssumption DEF DocInv, TriesInv, Forward
    <2>2. Untold(d)
      BY <1>5, <1>8, <2>1 DEF Untold, Untouched, FailureOpen, Once
    <2>3. /\ Untouched(d) /\ Untouched(d)' /\ Place("classify", d)' = "over"
          /\ ExtractOpen(d)' <=> ExtractOpen(d)
          /\ NormalizeOpen(d)' <=> NormalizeOpen(d)
          /\ Handing(d)' <=> Handing(d)
          /\ ~ClassifyOpen(d) /\ ~ClassifyOpen(d)'
      BY <1>3, <1>4, <1>10, <1>12, <2>1, <2>2
      DEF DocInv, ExtractInv, NormalizeInv, ExtractOpen, NormalizeOpen, Handing,
          ClassifyOpen, Untouched, Untold
    <2>4. PlacesOK(d)' /\ CrawlInv(d)' /\ NormalizeInv(d)'
      BY <1>3, <1>4, <1>8, <1>10, <1>11, <1>12, <2>1, <2>3
      DEF DocInv, PlacesOK, CrawlInv, NormalizeInv, Forward
    <2>5. ExtractInv(d)'
      BY <1>3, <1>4, <1>8, <1>10, <1>12, <2>1, <2>3 DEF DocInv, ExtractInv, NormalizeOpen
    <2>6. FirstInv(d)'
      BY <1>3, <1>8, <2>2, <2>3 DEF DocInv, FirstInv, Untold, Untouched, Forward
    <2>7. TextInv(d)' /\ HalfWayInv(d)' /\ ReopenInv(d)'
      BY <1>3, <1>4, <1>8, <1>10, <1>12, <2>1, <2>3
      DEF DocInv, TextInv, HalfWayInv, ReopenInv, Untouched
    <2>8. ReadyInv(d)'
      BY <1>3, <1>8, <2>2, <2>3 DEF DocInv, ReadyInv, Untold
    <2>9. TriesInv(d)'
      BY <1>3, <1>4, <1>7, <1>10, <1>12, <2>1 DEF DocInv, TriesInv, Forward
    <2>10. DocInv(d)'
      BY <2>4, <2>5, <2>6, <2>7, <2>8, <2>9 DEF DocInv
    <2> QED
      BY <1>4, <1>5, <1>9, <2>1, <2>10, ElsewhereKeepsDocInv DEF WorldInv
  <1>13. CASE q = "classify"
    <2>1. /\ ClassifyOpen(d) /\ hasText[d] /\ ~Untouched(d)
          /\ ~ExtractOpen(d) /\ ~NormalizeOpen(d) /\ ~Wants("reopen", d)
          /\ Asked = 0 => ~FailureOpen(d) /\ ~Handing(d) /\ status[d] = "READY_FOR_AI"
      BY <1>3, <1>13
      DEF DocInv, ExtractInv, NormalizeInv, TextInv, FirstInv, ReopenInv, ClassifyOpen,
          Untouched
    <2>2. /\ Place("extract", d)' = Place("extract", d)
          /\ Place("normalize", d)' = Place("normalize", d)
          /\ Place("classify", d)' = IF again THEN "waiting" ELSE "over"
      BY <1>4, <1>10, <1>13
    <2>3. /\ FailureOpen(d)' <=> FailureOpen(d) \/ ~again
          /\ Once(d) /\ ~FailureOpen(d) => Once(d)'
          /\ again => (Once(d)' <=> Once(d))
      BY <1>5, <1>6 DEF FailureOpen, Once
    <2>4. /\ ExtractOpen(d)' <=> ExtractOpen(d)
          /\ NormalizeOpen(d)' <=> NormalizeOpen(d)
          /\ Handing(d)' <=> Handing(d)
          /\ ClassifyOpen(d)' <=> again
      BY <2>2 DEF ExtractOpen, NormalizeOpen, Handing, ClassifyOpen
    <2>5. PlacesOK(d)' /\ CrawlInv(d)' /\ ExtractInv(d)' /\ NormalizeInv(d)'
      BY <1>3, <1>8, <1>11, <2>1, <2>2, <2>4
      DEF DocInv, PlacesOK, CrawlInv, ExtractInv, NormalizeInv
    <2>6. FirstInv(d)'
      BY <1>3, <1>8, <2>1, <2>2, <2>3, <2>4 DEF DocInv, FirstInv, Forward
    <2>7. TextInv(d)' /\ HalfWayInv(d)' /\ ReopenInv(d)'
      BY <1>3, <1>8, <2>1, <2>4 DEF DocInv, TextInv, HalfWayInv, ReopenInv
    <2>8. ReadyInv(d)'
      BY <1>3, <1>8, <2>2, <2>3, <2>4 DEF DocInv, ReadyInv
    <2>9. TriesInv(d)'
      BY <1>3, <1>7, <1>10, <1>13, <2>2 DEF DocInv, TriesInv, Forward
    <2>10. DocInv(d)'
      BY <2>5, <2>6, <2>7, <2>8, <2>9 DEF DocInv
    <2>11. \A e \in events' : e.q = "classify"
      BY <1>5, <1>6, <1>13 DEF WorldInv
    <2> QED
      BY <1>4, <1>9, <2>10, <2>11, ElsewhereKeepsDocInv
  <1> QED
    BY <1>12, <1>13

\* Steps that neither run nor queue anything.
LEMMA PlacesKept ==
  ASSUME Locked, UNCHANGED <<job, run>>
  PROVE  /\ Locked'
         /\ \A q \in Queues, x \in Docs :
              Place(q, x)' = Place(q, x) /\ job'[q][x].made = job[q][x].made
         /\ \A x \in Docs : /\ ExtractOpen(x)' <=> ExtractOpen(x)
                            /\ NormalizeOpen(x)' <=> NormalizeOpen(x)
                            /\ Handing(x)' <=> Handing(x)
                            /\ ClassifyOpen(x)' <=> ClassifyOpen(x)
  BY DEF Locked, LockedAt, Place, ExtractOpen, NormalizeOpen, Handing, ClassifyOpen

LEMMA PlacesAndTriesKept ==
  ASSUME TypeOK, Locked, Forward, UNCHANGED <<job, run>>, NEW d \in Docs, DocInv(d)
  PROVE  PlacesOK(d)' /\ TriesInv(d)'
  <1> USE DEF Queues
  <1>1. \A p \in Queues : job[p][d].made \in Nat
    BY DEF TypeOK, JobRec
  <1>2. PlacesOK(d)'
    BY PlacesKept DEF DocInv, PlacesOK
  <1>3. TriesInv(d)'
    BY <1>1, PlacesKept DEF DocInv, TriesInv, Forward
  <1> QED
    BY <1>2, <1>3

\* A 'failed' event fails a document that nothing else would take further.
LEMMA FailureSettles ==
  ASSUME TypeOK, Locked, \A x \in Docs : DocInv(x), WorldInv, Forward, Failed' = Failed,
         NEW e \in events, FailedReads(e) \/ FailedWrites(e)
  PROVE  /\ Locked' /\ \A x \in Docs : DocInv(x)'
         /\ \A f \in events' : f.q = "classify"
  <1> USE DEF Queues
  <1> DEFINE f0 == [e EXCEPT !.armed = TRUE]
  <1>1. PICK d \in Docs : d = e.doc
    BY DEF TypeOK, ProcOK, Event
  <1>2. e \in Event /\ e.q = "classify" /\ f0.doc = d /\ f0.q = "classify"
    BY <1>1 DEF TypeOK, ProcOK, Event, WorldInv
  <1>3. /\ UNCHANGED <<job, run, crawl, api, canon, hasText>>
        /\ \/ events' = events \ {e} /\ status'[d] \notin {"READY_FOR_AI"}
           \/ events' = (events \ {e}) \cup {f0} /\ status'[d] = status[d]
        /\ status'[d] \in {status[d], "FAILED"}
        /\ \A x \in Docs \ {d} : status'[x] = status[x]
    <2>1. CASE FailedReads(e)
      BY <1>1, <1>2, <2>1 DEF FailedReads, HalfWay, row
    <2>2. CASE FailedWrites(e)
      BY <1>1, <2>2 DEF FailedWrites, MarkFailed, TypeOK, RowOK
    <2> QED
      BY <2>1, <2>2
  <1> HIDE DEF f0
  <1>4. Elsewhere(d)
    <2>1. \A x \in Docs \ {d} : /\ FailureOpen(x)' <=> FailureOpen(x)
                                /\ Once(x)' <=> Once(x)
      BY <1>1, <1>2, <1>3 DEF FailureOpen, Once
    <2> QED
      BY <1>3, <2>1, PlacesKept DEF Elsewhere, Same, Wants
  <1>5. DocInv(d) /\ FailureOpen(d) /\ ~Untouched(d)
    BY <1>1 DEF FailureOpen, Untouched
  <1>6. /\ ~ExtractOpen(d) /\ ~NormalizeOpen(d) /\ ~Wants("reopen", d) /\ crawl[d] = "done"
        /\ status[d] # "EXTRACTED" /\ status[d] # "RECEIVED"
        /\ Asked = 0 => /\ status[d] = "READY_FOR_AI" /\ Once(d) /\ ~Handing(d)
                        /\ Place("classify", d) = "over"
    BY <1>5 DEF DocInv, CrawlInv, ExtractInv, NormalizeInv, HalfWayInv, FirstInv, ReopenInv
  <1>7. /\ Wants("reopen", d)' <=> Wants("reopen", d)
        /\ Wants("classify", d)' <=> Wants("classify", d)
        /\ Once(d) => Once(d)'
        /\ status'[d] = "READY_FOR_AI" => FailureOpen(d)'
        /\ Once(d) /\ status'[d] # "READY_FOR_AI" /\ status[d] = "READY_FOR_AI" => ~FailureOpen(d)'
    BY <1>1, <1>2, <1>3 DEF Wants, Once, FailureOpen
  <1>8. /\ Place("classify", d)' = Place("classify", d)
        /\ Place("normalize", d)' = Place("normalize", d)
        /\ Place("extract", d)' = Place("extract", d)
        /\ ~ExtractOpen(d)' /\ ~NormalizeOpen(d)'
        /\ Handing(d)' <=> Handing(d)
        /\ ClassifyOpen(d)' <=> ClassifyOpen(d)
    BY <1>3, <1>6, PlacesKept
  <1>9. PlacesOK(d)' /\ TriesInv(d)'
    BY <1>3, <1>5, PlacesAndTriesKept
  <1>10. CrawlInv(d)' /\ ExtractInv(d)' /\ NormalizeInv(d)'
    BY <1>3, <1>6, <1>8 DEF CrawlInv, ExtractInv, NormalizeInv
  <1>11. FirstInv(d)'
    BY <1>3, <1>5, <1>6, <1>7, <1>8 DEF DocInv, FirstInv, ClassifyOpen, Forward
  <1>12. TextInv(d)' /\ HalfWayInv(d)' /\ ReopenInv(d)'
    BY <1>3, <1>5, <1>6, <1>7, <1>8 DEF DocInv, TextInv, HalfWayInv, ReopenInv
  <1>13. ReadyInv(d)'
    BY <1>3, <1>5, <1>7, <1>8 DEF DocInv, ReadyInv
  <1>14. DocInv(d)'
    BY <1>9, <1>10, <1>11, <1>12, <1>13 DEF DocInv
  <1>15. \A f \in events' : f.q = "classify"
    BY <1>2, <1>3 DEF WorldInv
  <1> QED
    BY <1>3, <1>4, <1>14, <1>15, PlacesKept, ElsewhereKeepsDocInv

\* The crawl stores a document and puts it into the pipeline.
LEMMA CrawlSettles ==
  ASSUME TypeOK, Locked, \A x \in Docs : DocInv(x), Forward, NEW d \in Docs,
         SaveRaw(d) \/ EnqueueDocumentExtract(d), ~Spend("recrawl"), ~Spend("lost")
  PROVE  Locked' /\ \A x \in Docs : DocInv(x)'
  <1> USE DEF Queues
  <1>1. /\ UNCHANGED <<row, run, events, api>> /\ crawl[d] # "done"
        /\ crawl' = [crawl EXCEPT ![d] = IF crawl[d] = "absent" THEN "saved" ELSE "done"]
    BY DEF SaveRaw, EnqueueDocumentExtract
  <1>2. \A x \in Docs : crawl'[x] = IF x # d THEN crawl[x]
                                   ELSE IF crawl[d] = "absent" THEN "saved" ELSE "done"
    BY <1>1 DEF TypeOK, ProcOK
  <1>3. /\ DocInv(d) /\ status[d] = "RECEIVED" /\ Untouched(d)
        /\ Place("extract", d) = "over" /\ Place("normalize", d) = "over"
    BY <1>1 DEF DocInv, CrawlInv
  <1>4. \A x \in Docs : /\ FailureOpen(x)' <=> FailureOpen(x)
                        /\ Once(x)' <=> Once(x)
                        /\ \A op : Wants(op, x)' <=> Wants(op, x)
    BY <1>1 DEF FailureOpen, Once, Wants
  <1>5. status' = status /\ canon' = canon /\ hasText' = hasText
    BY <1>1 DEF row
  <1>6. CASE SaveRaw(d)
    <2>1. UNCHANGED <<job, run>> /\ crawl'[d] # "done"
      BY <1>2, <1>6 DEF SaveRaw
    <2>2. Elsewhere(d)
      BY <1>2, <1>4, <1>5, <2>1, PlacesKept DEF Elsewhere, Same
    <2>3. /\ \A q \in Queues : Place(q, d)' = Place(q, d)
          /\ ~ExtractOpen(d)' /\ ~NormalizeOpen(d)' /\ ~Handing(d)' /\ ~ClassifyOpen(d)'
      BY <1>3, <2>1, PlacesKept
      DEF ExtractOpen, NormalizeOpen, Handing, ClassifyOpen, Untouched
    <2>4. PlacesOK(d)' /\ TriesInv(d)'
      BY <1>3, <2>1, PlacesAndTriesKept
    <2>5. Untouched(d)'
      BY <1>3, <1>4, <2>3 DEF Untouched
    <2>6. CrawlInv(d)' /\ ExtractInv(d)' /\ NormalizeInv(d)' /\ ReadyInv(d)'
      BY <1>3, <1>5, <2>3, <2>5 DEF CrawlInv, ExtractInv, NormalizeInv, ReadyInv
    <2>7. FirstInv(d)'
      BY <1>3, <1>4, <1>5, <2>3, <2>5 DEF DocInv, FirstInv, Untouched, Forward
    <2>8. TextInv(d)' /\ HalfWayInv(d)' /\ ReopenInv(d)'
      BY <1>3, <1>4, <1>5, <2>1, <2>3, <2>5
      DEF DocInv, TextInv, HalfWayInv, ReopenInv, Untouched
    <2> QED
      BY <2>1, <2>2, <2>4, <2>6, <2>7, <2>8, PlacesKept, ElsewhereKeepsDocInv DEF DocInv
  <1>7. CASE EnqueueDocumentExtract(d)
    <2>1. Enqueue("extract", d, FALSE) /\ crawl'[d] = "done"
      BY <1>2, <1>7 DEF EnqueueDocumentExtract
    <2>2. \A q \in Queues, x \in Docs : Unmoved(q, x)
      BY <1>1 DEF Unmoved
    <2>3. /\ \A p \in Queues, x \in Docs : p # "extract" \/ x # d => job'[p][x] = job[p][x]
          /\ LockedAt("extract", d)'
          /\ Place("extract", d)' = "waiting" /\ job'["extract"][d].made = 0
      BY <1>3, <2>1, <2>2, EnqueuedPlace
    <2>4. \A p \in Queues, x \in Docs : p # "extract" \/ x # d =>
            Place(p, x)' = Place(p, x) /\ LockedAt(p, x)'
      BY <2>2, <2>3, UnmovedPlace
    <2>5. Locked'
      BY <2>3, <2>4 DEF Locked
    <2>6. Elsewhere(d)
      BY <1>2, <1>4, <1>5, <2>3, <2>4 DEF Elsewhere, Same
    <2>7. /\ Place("normalize", d)' = "over" /\ Place("classify", d)' = "over"
          /\ Untouched(d)' /\ job'["normalize"][d].made = job["normalize"][d].made
      BY <1>3, <1>4, <2>3, <2>4 DEF Untouched
    <2>8. PlacesOK(d)' /\ CrawlInv(d)' /\ ExtractInv(d)' /\ NormalizeInv(d)'
      BY <1>3, <1>5, <2>1, <2>3, <2>7
      DEF PlacesOK, CrawlInv, ExtractInv, NormalizeInv, ExtractOpen, NormalizeOpen, Handing,
          ClassifyOpen
    <2>9. FirstInv(d)'
      BY <1>3, <1>4, <1>5, <2>7
      DEF DocInv, FirstInv, Handing, ClassifyOpen, Untouched, Forward
    <2>10. TextInv(d)' /\ HalfWayInv(d)' /\ ReopenInv(d)' /\ ReadyInv(d)'
      BY <1>3, <1>5, <2>3, <2>7
      DEF TextInv, HalfWayInv, ReopenInv, ReadyInv, ExtractOpen, Handing, Untouched
    <2>11. TriesInv(d)'
      <3>1. job["normalize"][d].made \in Nat
        BY DEF TypeOK, JobRec
      <3> QED
        BY <1>3, <2>3, <2>7, <3>1 DEF DocInv, TriesInv, Forward
    <2> QED
      BY <2>5, <2>6, <2>8, <2>9, <2>10, <2>11, ElsewhereKeepsDocInv DEF DocInv
  <1> QED
    BY <1>6, <1>7

\* An admin asks for a classification: of a document that is ready or was classified, or,
\* once it is open again, of one that failed in the third stage.
LEMMA AskSettles ==
  ASSUME TypeOK, Locked, \A x \in Docs : DocInv(x), Forward,
         Asked = 0, Asked' # 0, Failed = 0, Failed' = 0,
         UNCHANGED <<row, job, run, crawl, events>>,
         NEW new, api' = api \cup new,
         \A r \in new : /\ canon[r.doc] = None
                        /\ \/ /\ r.op = "reopen"
                              /\ status[r.doc] = "FAILED" /\ hasText[r.doc]
                           \/ /\ r.op = "classify"
                              /\ status[r.doc] \in {"READY_FOR_AI", "CLASSIFIED"}
  PROVE  Locked' /\ \A x \in Docs : DocInv(x)'
  <1> USE DEF Queues
  <1> SUFFICES ASSUME NEW d \in Docs PROVE DocInv(d)'
    BY PlacesKept
  <1>1. DocInv(d) /\ ~Wants("reopen", d) /\ ~Wants("classify", d)
    BY DEF DocInv, FirstInv
  <1>2. /\ Wants("reopen", d)' =>
             canon[d] = None /\ status[d] = "FAILED" /\ hasText[d]
        /\ Wants("classify", d)' =>
             canon[d] = None /\ status[d] \in {"READY_FOR_AI", "CLASSIFIED"}
    <2>1. ASSUME NEW op, Wants(op, d)', ~Wants(op, d)
          PROVE  [op |-> op, doc |-> d] \in new
      BY <2>1 DEF Wants
    <2>2. \A op : [op |-> op, doc |-> d].op = op /\ [op |-> op, doc |-> d].doc = d
      OBVIOUS
    <2>3. ASSUME Wants("reopen", d)'
          PROVE  canon[d] = None /\ status[d] = "FAILED" /\ hasText[d]
      <3>1. [op |-> "reopen", doc |-> d] \in new
        BY <1>1, <2>1, <2>3
      <3> QED
        BY <2>2, <3>1
    <2>4. ASSUME Wants("classify", d)'
          PROVE  canon[d] = None /\ status[d] \in {"READY_FOR_AI", "CLASSIFIED"}
      <3>1. [op |-> "classify", doc |-> d] \in new
        BY <1>1, <2>1, <2>4
      <3> QED
        BY <2>2, <3>1
    <2> QED
      BY <2>3, <2>4
  <1>3. /\ status' = status /\ canon' = canon /\ hasText' = hasText
        /\ FailureOpen(d)' <=> FailureOpen(d)
    BY DEF row, FailureOpen
  <1>4. PlacesOK(d)' /\ TriesInv(d)'
    BY <1>1, PlacesAndTriesKept
  <1>5. /\ \A q \in Queues : Place(q, d)' = Place(q, d)
        /\ ExtractOpen(d)' <=> ExtractOpen(d)
        /\ NormalizeOpen(d)' <=> NormalizeOpen(d)
        /\ Handing(d)' <=> Handing(d)
        /\ ClassifyOpen(d)' <=> ClassifyOpen(d)
    BY PlacesKept
  <1>6. CrawlInv(d)' /\ ExtractInv(d)' /\ NormalizeInv(d)'
    BY <1>1, <1>2, <1>3, <1>5
    DEF DocInv, CrawlInv, ExtractInv, NormalizeInv, Untouched
  <1>7. FirstInv(d)'
    BY DEF FirstInv
  <1>8. TextInv(d)' /\ HalfWayInv(d)'
    BY <1>1, <1>3, <1>5 DEF DocInv, TextInv, HalfWayInv
  <1>9. ReadyInv(d)'
    BY <1>1, <1>3, <1>5 DEF DocInv, ReadyInv
  <1>10. ReopenInv(d)'
    BY <1>1, <1>2, <1>3, <1>5 DEF DocInv, PlacesOK, FirstInv, ReopenInv
  <1> QED
    BY <1>4, <1>6, <1>7, <1>8, <1>9, <1>10 DEF DocInv

LEMMA ReopenSettles ==
  ASSUME TypeOK, Locked, \A x \in Docs : DocInv(x), Forward, NEW d \in Docs,
         TriggerClassifyReopens(d)
  PROVE  Locked' /\ \A x \in Docs : DocInv(x)'
  <1> USE DEF Queues
  <1>1. /\ UNCHANGED <<job, run, crawl, events, canon, hasText>> /\ Wants("reopen", d)
        /\ status'[d] = "READY_FOR_AI" /\ \A x \in Docs \ {d} : status'[x] = status[x]
    BY DEF TriggerClassifyReopens, Wants, TypeOK, RowOK
  <1>2. DocInv(d) /\ ~Untouched(d) /\ Asked # 0 /\ Asked' # 0
    BY <1>1 DEF DocInv, FirstInv, Untouched, Forward
  <1>3. /\ canon[d] = None /\ hasText[d] /\ Place("classify", d) = "over" /\ crawl[d] = "done"
        /\ ~ExtractOpen(d) /\ ~NormalizeOpen(d)
    BY <1>1, <1>2 DEF DocInv, CrawlInv, ExtractInv, NormalizeInv, ReopenInv
  <1>4. /\ ~Wants("reopen", d)' /\ Wants("classify", d)'
        /\ \A x \in Docs \ {d} : \A op : Wants(op, x)' <=> Wants(op, x)
    BY DEF TriggerClassifyReopens, Wants
  <1>5. Elsewhere(d)
    BY <1>1, <1>4, PlacesKept DEF Elsewhere, Same, FailureOpen, Once
  <1>6. PlacesOK(d)' /\ TriesInv(d)'
    BY <1>1, <1>2, PlacesAndTriesKept
  <1>7. /\ \A q \in Queues : Place(q, d)' = Place(q, d)
        /\ ~ExtractOpen(d)' /\ ~NormalizeOpen(d)'
    BY <1>1, <1>3, PlacesKept
  <1>8. CrawlInv(d)' /\ ExtractInv(d)' /\ NormalizeInv(d)' /\ FirstInv(d)' /\ TextInv(d)'
    BY <1>1, <1>2, <1>3, <1>7 DEF CrawlInv, ExtractInv, NormalizeInv, FirstInv, TextInv
  <1>9. ReadyInv(d)' /\ HalfWayInv(d)' /\ ReopenInv(d)'
    BY <1>1, <1>3, <1>4, <1>7 DEF ReadyInv, HalfWayInv, ReopenInv
  <1>10. DocInv(d)'
    BY <1>6, <1>8, <1>9 DEF DocInv
  <1> QED
    BY <1>1, <1>5, <1>10, PlacesKept, ElsewhereKeepsDocInv

LEMMA RequestSettles ==
  ASSUME TypeOK, Locked, \A x \in Docs : DocInv(x), WorldInv, Forward,
         NEW r \in api, RequestEnqueues(r)
  PROVE  Locked' /\ \A x \in Docs : DocInv(x)'
  <1> USE DEF Queues
  <1>1. PICK d \in Docs : r = [op |-> "classify", doc |-> d]
    <2>1. r \in Request /\ r.op = "classify"
      BY DEF RequestEnqueues, TypeOK, ProcOK, WorldInv
    <2> QED
      BY <2>1 DEF Request
  <1>2. /\ Enqueue("classify", d, TRUE) /\ api' = api \ {r}
        /\ UNCHANGED <<status, canon, hasText, run, crawl, events>>
    BY <1>1 DEF RequestEnqueues, row
  <1>3. /\ Wants("classify", d) /\ DocInv(d) /\ ~Untouched(d)
    BY <1>1 DEF Wants, Untouched
  <1>4. /\ Asked # 0 /\ Asked' # 0 /\ crawl[d] = "done" /\ ~Wants("reopen", d)
        /\ ~ExtractOpen(d) /\ ~NormalizeOpen(d)
    BY <1>3 DEF DocInv, CrawlInv, ExtractInv, NormalizeInv, FirstInv, ReopenInv, Forward
  <1>5. /\ Wants("reopen", d)' <=> Wants("reopen", d)
        /\ \A x \in Docs \ {d} : \A op : Wants(op, x)' <=> Wants(op, x)
    BY <1>1, <1>2 DEF Wants
  <1>6. \A q \in Queues, x \in Docs : Unmoved(q, x)
    BY <1>2 DEF Unmoved
  <1>7. /\ \A p \in Queues, x \in Docs : p # "classify" \/ x # d => job'[p][x] = job[p][x]
        /\ LockedAt("classify", d)'
        /\ \/ Place("classify", d)' = "waiting"
           \/ Place("classify", d) # "over" /\ Place("classify", d)' = Place("classify", d)
    BY <1>2, <1>6, EnqueuedPlace
  <1>8. \A p \in Queues, x \in Docs : p # "classify" \/ x # d =>
          Place(p, x)' = Place(p, x) /\ LockedAt(p, x)'
    BY <1>6, <1>7, UnmovedPlace
  <1>9. Locked'
    BY <1>7, <1>8 DEF Locked
  <1>10. Elsewhere(d)
    BY <1>2, <1>5, <1>7, <1>8 DEF Elsewhere, Same, FailureOpen, Once
  <1>11. /\ Place("extract", d)' = Place("extract", d)
         /\ Place("normalize", d)' = Place("normalize", d)
         /\ job'["extract"][d].made = job["extract"][d].made
         /\ job'["normalize"][d].made = job["normalize"][d].made
    BY <1>7, <1>8
  <1>12. /\ ~ExtractOpen(d)' /\ ~NormalizeOpen(d)' /\ (Handing(d)' <=> Handing(d))
    BY <1>4, <1>11 DEF ExtractOpen, NormalizeOpen, Handing
  <1>13. PlacesOK(d)'
    BY <1>3, <1>7, <1>11, <1>12
    DEF DocInv, PlacesOK, ClassifyOpen, ExtractOpen, NormalizeOpen
  <1>14. CrawlInv(d)' /\ ExtractInv(d)' /\ NormalizeInv(d)' /\ FirstInv(d)'
    BY <1>2, <1>4, <1>12 DEF CrawlInv, ExtractInv, NormalizeInv, FirstInv
  <1>15. TextInv(d)' /\ HalfWayInv(d)' /\ ReopenInv(d)'
    BY <1>2, <1>3, <1>4, <1>5, <1>7, <1>11, <1>12
    DEF DocInv, TextInv, HalfWayInv, ReopenInv
  <1>16. ReadyInv(d)'
    BY <1>2, <1>3, <1>7 DEF DocInv, PlacesOK, ReadyInv, ClassifyOpen
  <1>17. TriesInv(d)'
    <2>1. \A q \in Queues : job[q][d].made \in Nat
      BY DEF TypeOK, JobRec
    <2> QED
      BY <1>3, <1>11, <2>1 DEF DocInv, TriesInv, Forward
  <1>18. DocInv(d)'
    BY <1>13, <1>14, <1>15, <1>16, <1>17 DEF DocInv
  <1> QED
    BY <1>9, <1>10, <1>18, ElsewhereKeepsDocInv

\* Neither crash nor recovery begins, and whoever fails or asks does so in the third stage.
LEMMA WorldStep ==
  ASSUME TypeOK, WorldInv, [Next]_vars, \A k \in Acts \ {"ask", "infra"} : ~Spend(k),
         ~ \E q \in Queues, s \in Slots : HandlerRejects(q, s),
         ~ \E e \in events : FailedReads(e) \/ FailedWrites(e),
         ~ \E q \in Queues, d \in Docs : StalledByCrash(q, d)
  PROVE  WorldInv'
  <1> USE DEF Acts
  <1>1. \A r \in ClassifyRequests : r.op \in {"reopen", "classify"}
    BY DEF ClassifyRequests, Request
  <1>2. ~Spend("stall") /\ ~Spend("crash") /\ ~Spend("reset") /\ ~Spend("lost")
    OBVIOUS
  <1>3. UNCHANGED <<up, boot, recov>>
    BY <1>2
    DEF Next, System, Environment, Handler, Extract, ExtractEnqueues, NormalizeFind,
        NormalizeClaim, NormalizeWinner, NormalizeDedup, NormalizeFails, NormalizeEnqueues,
        ClassifyForClient, ClassifyError, MarkClassified, HandlerReturns, Fetch,
        HandlerThrows, StalledWhileRunning, Crash, Restart, RecoverReads, RecoverRequeues,
        EnqueueDocumentExtract, TriggerExtractResets, TriggerClassifyReopens, SaveRaw,
        Reprocess, ClassifyRequest, TriggerExtract, TriggerClassify, RequestFails,
        RequestEnqueues, WorldInv, proc, vars
  <1>4. events' = events
    BY <1>2
    DEF Next, System, Environment, Handler, Extract, ExtractEnqueues, NormalizeFind,
        NormalizeClaim, NormalizeWinner, NormalizeDedup, NormalizeFails, NormalizeEnqueues,
        ClassifyForClient, ClassifyError, MarkClassified, HandlerReturns, Fetch,
        HandlerThrows, StalledWhileRunning, Crash, Restart, RecoverReads, RecoverRequeues,
        EnqueueDocumentExtract, TriggerExtractResets, TriggerClassifyReopens, SaveRaw,
        Reprocess, ClassifyRequest, TriggerExtract, TriggerClassify, RequestFails,
        RequestEnqueues, WorldInv, proc, vars
  <1>5. \A r \in api' : r.op \in {"reopen", "classify"}
    <2>1. CASE api' \subseteq api
      BY <2>1 DEF WorldInv
    <2>2. CASE \E d \in Docs : TriggerClassifyReopens(d) \/ ClassifyRequest(d)
      <3>1. PICK d \in Docs : api' \subseteq api \cup {[op |-> "classify", doc |-> d]}
        BY <2>2 DEF TriggerClassifyReopens, ClassifyRequest
      <3> QED
        BY <3>1 DEF WorldInv
    <2>3. CASE TriggerClassify
      BY <1>1, <2>3 DEF TriggerClassify, WorldInv
    <2>4. \A d \in Docs : ~TriggerExtractResets(d) /\ ~Reprocess(d)
      BY <1>2 DEF TriggerExtractResets, Reprocess, WorldInv
    <2>5. CASE /\ ~ \E d \in Docs : TriggerClassifyReopens(d) \/ ClassifyRequest(d)
               /\ ~TriggerClassify
      BY <1>2, <2>1, <2>4, <2>5
      DEF Next, System, Environment, Handler, Extract, ExtractEnqueues, NormalizeFind,
          NormalizeClaim, NormalizeWinner, NormalizeDedup, NormalizeFails,
          NormalizeEnqueues, ClassifyForClient, ClassifyError, MarkClassified,
          HandlerReturns, Fetch, HandlerThrows, StalledWhileRunning, Crash, Restart,
          RecoverReads, RecoverRequeues, EnqueueDocumentExtract, SaveRaw, TriggerExtract,
          RequestFails, RequestEnqueues, proc, vars
    <2> QED
      BY <2>2, <2>3, <2>5
  <1> QED
    BY <1>3, <1>4, <1>5 DEF WorldInv

\* What each step below is shown to keep.
Settles == Locked' /\ \A x \in Docs : DocInv(x)'

LEMMA NextSettleIInv == TypeOK /\ SettleIInv /\ [Next]_vars => SettleIInv'
  <1> SUFFICES ASSUME TypeOK, SettleIInv, [Next]_vars, Gentle'
               PROVE  SettleInv'
    BY NextBudgetInv DEF SettleIInv
  <1>1. /\ Gentle /\ Forward
        /\ \A k \in Acts \ {"ask", "infra"} : ~Spend(k)
        /\ Spend("ask") => Asked' = Asked + 1 /\ Failed' = Failed
        /\ Spend("infra") => Failed' = Failed + 1 /\ Asked' = Asked
        /\ UNCHANGED budget => Failed' = Failed /\ Asked' = Asked
    BY GentleStep DEF SettleIInv
  <1>2. WorldInv /\ Owned /\ Locked /\ \A x \in Docs : DocInv(x)
    BY <1>1 DEF SettleIInv, SettleInv
  <1>3. /\ ~Spend("stall") /\ ~Spend("crash") /\ ~Spend("reset") /\ ~Spend("lost")
        /\ ~Spend("recrawl") /\ ~Spend("reject")
    BY <1>1 DEF Acts
  <1>4. Owned'
    BY <1>2, <1>3, OwnedStep
  <1>5. /\ Spend("ask") => Asked = 0 /\ Asked' # 0 /\ Failed = 0 /\ Failed' = 0
        /\ Spend("infra") => Failed' = Failed + 1 /\ Asked' = 0
        /\ Failed < Attempts
    BY <1>1 DEF Gentle, Forward
  <1>6. ASSUME NEW q \in Queues, NEW s \in Slots, HandlerRejects(q, s)
        PROVE  Settles /\ WorldInv'
    <2>1. Failed' = Failed
      BY <1>1, <1>6 DEF HandlerRejects
    <2>2. /\ Locked' /\ \A x \in Docs : DocInv(x)'
          /\ \A e \in events' : e.q = "classify"
      BY <1>1, <1>2, <1>5, <1>6, <2>1, RejectSettles
    <2>3. UNCHANGED <<api, recov, up, boot>>
      BY <1>6 DEF HandlerRejects
    <2>4. WorldInv'
      BY <1>2, <2>2, <2>3 DEF WorldInv
    <2> QED
      BY <2>2, <2>4 DEF Settles
  <1>7. ASSUME NEW e \in events, FailedReads(e) \/ FailedWrites(e)
        PROVE  Settles /\ WorldInv'
    <2>1. Failed' = Failed
      BY <1>1, <1>7 DEF FailedReads, FailedWrites
    <2>2. /\ Locked' /\ \A x \in Docs : DocInv(x)'
          /\ \A f \in events' : f.q = "classify"
      BY <1>1, <1>2, <1>7, <2>1, FailureSettles
    <2>3. UNCHANGED <<api, recov, up, boot>>
      BY <1>7 DEF FailedReads, FailedWrites
    <2>4. WorldInv'
      BY <1>2, <2>2, <2>3 DEF WorldInv
    <2> QED
      BY <2>2, <2>4 DEF Settles
  <1>8. ASSUME NEW q \in Queues, NEW d \in Docs
        PROVE  ~StalledByCrash(q, d) /\ ~StalledWhileRunning(q, d)
    BY <1>2, <1>3, PipelineAssumption
    DEF StalledByCrash, StalledWhileRunning, Locked, LockedAt
  <1>9. ASSUME ~ \E q \in Queues, s \in Slots : HandlerRejects(q, s),
               ~ \E e \in events : FailedReads(e) \/ FailedWrites(e)
        PROVE  WorldInv'
    BY <1>1, <1>2, <1>8, <1>9, WorldStep
  <1>10. ASSUME NEW s \in Slots, Handler(s)
         PROVE  Settles
    <2>1. CASE Extract(s)
      BY <1>1, <1>2, <1>3, <2>1, ExtractSettles DEF Settles
    <2>2. CASE ExtractEnqueues(s)
      BY <1>1, <1>2, <1>3, <2>2, ExtractHandsOver DEF Settles
    <2>3. CASE \/ NormalizeFind(s) \/ NormalizeClaim(s) \/ NormalizeWinner(s)
               \/ NormalizeDedup(s) \/ NormalizeFails(s)
      BY <1>1, <1>2, <1>3, <2>3, NormalizeSettles DEF Settles
    <2>4. CASE NormalizeEnqueues(s)
      BY <1>1, <1>2, <1>3, <2>4, NormalizeHandsOver DEF Settles
    <2>5. CASE ClassifyForClient(s) \/ ClassifyError(s) \/ MarkClassified(s)
      BY <1>1, <1>2, <1>3, <2>5, ClassifySettles DEF Settles
    <2> QED
      BY <1>10, <2>1, <2>2, <2>3, <2>4, <2>5 DEF Handler
  <1>11. ASSUME NEW q \in Queues, NEW s \in Slots, NEW d \in Docs, Fetch(q, s, d)
         PROVE  Settles
    <2>1. Failed' = Failed
      BY <1>1, <1>11 DEF Fetch
    <2> QED
      BY <1>1, <1>2, <1>11, <2>1, FetchSettles DEF Settles
  <1>12. ASSUME NEW q \in Queues, NEW s \in Slots, HandlerReturns(q, s)
         PROVE  Settles
    <2>1. Failed' = Failed
      BY <1>1, <1>12 DEF HandlerReturns
    <2> QED
      BY <1>1, <1>2, <1>12, <2>1, ReturnSettles DEF Settles
  <1>13. ASSUME NEW q \in Queues, NEW s \in Slots, HandlerThrows(q, s)
         PROVE  Settles
    <2>1. Spend("infra")
      BY <1>13 DEF HandlerThrows
    <2> QED
      BY <1>1, <1>2, <1>5, <1>13, <2>1, ThrowSettles DEF Settles
  <1>14. ASSUME NEW d \in Docs, SaveRaw(d) \/ EnqueueDocumentExtract(d)
         PROVE  Settles
    BY <1>1, <1>2, <1>3, <1>14, CrawlSettles DEF Settles
  <1>15. ASSUME NEW d \in Docs, ClassifyRequest(d)
         PROVE  Settles
    <2> DEFINE new == {[op |-> "classify", doc |-> d]}
    <2>1. /\ api' = api \cup new /\ Spend("ask")
          /\ UNCHANGED <<row, job, run, crawl, events>>
          /\ \A r \in new : /\ canon[r.doc] = None /\ r.op = "classify"
                            /\ status[r.doc] \in {"READY_FOR_AI", "CLASSIFIED"}
      BY <1>15 DEF ClassifyRequest
    <2> HIDE DEF new
    <2>2. Locked' /\ \A x \in Docs : DocInv(x)'
      BY <1>1, <1>2, <1>5, <2>1, AskSettles
    <2> QED
      BY <2>2 DEF Settles
  <1>16. ASSUME TriggerClassify
         PROVE  Settles
    <2> DEFINE new == ClassifyRequests
    <2>1. /\ api' = api \cup new /\ Spend("ask")
          /\ UNCHANGED <<row, job, run, crawl, events>>
      BY <1>16 DEF TriggerClassify
    <2>2. \A r \in new :
            /\ canon[r.doc] = None
            /\ \/ r.op = "reopen" /\ status[r.doc] = "FAILED" /\ hasText[r.doc]
               \/ r.op = "classify" /\ status[r.doc] \in {"READY_FOR_AI", "CLASSIFIED"}
      BY DEF ClassifyRequests, DocumentNeedsClassify
    <2> HIDE DEF new
    <2>3. Locked' /\ \A x \in Docs : DocInv(x)'
      BY <1>1, <1>2, <1>5, <2>1, <2>2, AskSettles
    <2> QED
      BY <2>3 DEF Settles
  <1>17. ASSUME NEW d \in Docs, TriggerClassifyReopens(d)
         PROVE  Settles
    BY <1>1, <1>2, <1>17, ReopenSettles DEF Settles
  <1>18. ASSUME NEW r \in api, RequestEnqueues(r)
         PROVE  Settles
    BY <1>1, <1>2, <1>18, RequestSettles DEF Settles
  <1>19. ASSUME UNCHANGED vars
         PROVE  Settles
    <2>1. UNCHANGED <<status, canon, hasText, crawl, job, run, events, api>>
      BY <1>19 DEF vars
    <2>2. /\ Locked'
          /\ \A q \in Queues, x \in Docs :
               Place(q, x)' = Place(q, x) /\ job'[q][x].made = job[q][x].made
      BY <1>2, <2>1, PlacesKept
    <2>3. \A q \in Queues, x \in Docs : job[q][x].made \in Nat
      BY DEF TypeOK, JobRec
    <2>4. ASSUME NEW x \in Docs
          PROVE  DocInv(x)'
      <3>1. Same(x)
        BY <2>1, <2>2 DEF Same, FailureOpen, Once, Wants
      <3> QED
        BY <1>1, <1>2, <2>3, <3>1, SameKeepsDocInv
    <2> QED
      BY <2>2, <2>4 DEF Settles
  <1>20. ~Restart /\ ~RecoverReads /\ ~ \E r \in recov : RecoverRequeues(r)
    BY <1>2 DEF Restart, RecoverReads, RecoverRequeues, WorldInv
  <1>21. \A d \in Docs : ~TriggerExtractResets(d)
    BY <1>2 DEF TriggerExtractResets, WorldInv
  <1>22. ~Crash /\ ~TriggerExtract /\ ~RequestFails /\ \A d \in Docs : ~Reprocess(d)
    BY <1>3 DEF Crash, TriggerExtract, RequestFails, Reprocess
  <1>23. Settles
    <2>1. CASE System
      BY <1>6, <1>7, <1>8, <1>10, <1>11, <1>12, <1>14, <1>17, <1>18, <1>20, <1>21, <2>1
      DEF System
    <2>2. CASE Environment
      BY <1>8, <1>13, <1>14, <1>15, <1>16, <1>22, <2>2 DEF Environment
    <2> QED
      BY <1>19, <2>1, <2>2 DEF Next
  <1>24. WorldInv'
    BY <1>6, <1>7, <1>9
  <1> QED
    BY <1>4, <1>23, <1>24 DEF SettleInv, Settles

\* If it meets fewer rejected calls than a job has attempts, or one request to classify, the
\* pipeline leaves no stored document half way when nothing is left to run: for any number of
\* documents, clients, concurrent handlers and attempts, in any order of their steps.
THEOREM SettledSafety == Spec => [](Gentle => QuietMeansSettled)
  <1>1. Init => SettleIInv
    <2> SUFFICES ASSUME Init PROVE BudgetInv /\ SettleInv
      BY DEF SettleIInv
    <2>1. BudgetInv
      BY PipelineAssumption DEF Init, BudgetInv
    <2>2. Owned /\ Locked /\ WorldInv
      BY DEF Init, Owned, Locked, LockedAt, WorldInv, Idle, NoJob, Queues
    <2>3. ASSUME NEW d \in Docs
          PROVE  DocInv(d)
      <3>1. \A q \in Queues : Place(q, d) = "over" /\ job[q][d].made = 0
        BY DEF Init, Place, NoJob, Queues
      <3>2. /\ status[d] = "RECEIVED" /\ crawl[d] = "absent"
            /\ ~FailureOpen(d) /\ Once(d) /\ \A op : ~Wants(op, d)
        BY DEF Init, FailureOpen, Once, Wants
      <3>3. Untouched(d) /\ ~ExtractOpen(d) /\ ~NormalizeOpen(d) /\ ~Handing(d) /\ ~ClassifyOpen(d)
        BY <3>1, <3>2
        DEF Untouched, ExtractOpen, NormalizeOpen, Handing, ClassifyOpen, Queues
      <3>4. PlacesOK(d) /\ CrawlInv(d) /\ ExtractInv(d) /\ NormalizeInv(d) /\ HalfWayInv(d)
        BY <3>1, <3>2, <3>3
        DEF PlacesOK, CrawlInv, ExtractInv, NormalizeInv, HalfWayInv, Queues
      <3>5. FirstInv(d) /\ TextInv(d) /\ ReadyInv(d) /\ ReopenInv(d)
        BY <3>1, <3>2, <3>3 DEF FirstInv, TextInv, ReadyInv, ReopenInv, Queues
      <3>6. TriesInv(d)
        BY <3>1, PipelineAssumption DEF Init, TriesInv, Failed, Queues, Kinds, Acts
      <3> QED
        BY <3>4, <3>5, <3>6 DEF DocInv
    <2> QED
      BY <2>1, <2>2, <2>3 DEF SettleInv
  <1>2. TypeOK /\ SettleIInv => (Gentle => QuietMeansSettled)
    <2> SUFFICES ASSUME TypeOK, SettleInv, Quiet, NEW d \in Docs, Stored(d)
                 PROVE  status[d] \in Settled
      BY DEF SettleIInv, QuietMeansSettled
    <2>1. DocInv(d) /\ crawl[d] = "done" /\ status[d] \in Statuses
      BY DEF SettleInv, Quiet, Stored, TypeOK, RowOK, ProcOK
    <2>2. \A q \in Queues : Place(q, d) = "over"
      BY DEF Quiet, InFlight, Place, TypeOK, JobRec
    <2>3. /\ ~ExtractOpen(d) /\ ~NormalizeOpen(d) /\ ~Handing(d) /\ ~ClassifyOpen(d)
          /\ ~FailureOpen(d) /\ ~Wants("classify", d)
      BY <2>2
      DEF Quiet, ExtractOpen, NormalizeOpen, Handing, ClassifyOpen, FailureOpen, Wants, Queues
    <2> QED
      BY <2>1, <2>3 DEF DocInv, ReadyInv, HalfWayInv, Statuses, Settled
  <1> QED
    BY <1>1, <1>2, NextSettleIInv, TypeSafety, PTL DEF Spec
=============================================================================
