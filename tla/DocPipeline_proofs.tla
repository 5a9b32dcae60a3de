------------------------- MODULE DocPipeline_proofs -------------------------
(***************************************************************************)
(* Theorems about DocPipeline, for any documents, texts, slots, attempts   *)
(* and budgets: its types, the completeness of an analysis, and the        *)
(* election of one canonical document per content.                         *)
(***************************************************************************)
EXTENDS DocPipeline, TLAPS

\* Init satisfies the types.
LEMMA InitTypeOK == Init => TypeOK
  <1> SUFFICES ASSUME Init PROVE TypeOK
    OBVIOUS
  <1> USE PipelineAssumption
  <1>1. RowOK
    BY DEF Init, RowOK, Statuses, Clients
  <1>2. ProcOK
    BY DEF Init, ProcOK
  <1>3. NoJob \in JobRec
    BY DEF NoJob, JobRec
  <1>4. job \in [Queues -> [Docs -> JobRec]]
    BY <1>3 DEF Init
  <1>5. Idle \in RunRec
    BY DEF Idle, RunRec, Points
  <1>6. run \in [Queues -> [Slots -> RunRec]]
    BY <1>5 DEF Init
  <1>7. budget \in [Kinds -> Nat]
    BY DEF Init
  <1> QED
    BY <1>1, <1>2, <1>4, <1>6, <1>7 DEF TypeOK

\* Updating one entry of a table by a value of its type leaves a table of that type.
LEMMA UpdateType ==
  ASSUME NEW A, NEW B, NEW T, NEW f \in [A -> [B -> T]], NEW a \in A, NEW b \in B,
         NEW v \in T
  PROVE  [f EXCEPT ![a][b] = v] \in [A -> [B -> T]]
  OBVIOUS

\* Changing the state, a counter or the owner of a job leaves a job.
LEMMA JobUpdate ==
  ASSUME NEW j \in JobRec, NEW st \in {"over", "waiting", "active"},
         NEW owner \in Slots \cup {None}
  PROVE  /\ [j EXCEPT !.owner = owner] \in JobRec
         /\ [j EXCEPT !.st = st, !.owner = owner] \in JobRec
         /\ \A made \in 0..Attempts :
              [j EXCEPT !.st = st, !.made = made, !.owner = owner] \in JobRec
         /\ \A n \in 0..MaxStalledCount :
              [j EXCEPT !.st = st, !.stalled = n, !.owner = owner] \in JobRec
  BY DEF JobRec

\* Enqueue leaves a well-typed set of jobs.
LEMMA EnqueueType ==
  ASSUME TypeOK, NEW q \in Queues, NEW d \in Docs, NEW force \in BOOLEAN,
         Enqueue(q, d, force)
  PROVE  job' \in [Queues -> [Docs -> JobRec]]
  <1> DEFINE new == [NoJob EXCEPT !.st = "waiting"]
  <1>1. new \in JobRec
    BY PipelineAssumption DEF JobRec, NoJob
  <1>2. job' = [job EXCEPT ![q][d] = new] \/ job' = job
    BY DEF Enqueue
  <1> HIDE DEF new
  <1>3. job \in [Queues -> [Docs -> JobRec]]
    BY DEF TypeOK
  <1>4. [job EXCEPT ![q][d] = new] \in [Queues -> [Docs -> JobRec]]
    BY <1>1, <1>3, UpdateType
  <1> QED
    BY <1>2, <1>3, <1>4

\* What a handler that has left "idle" knows.
LEMMA BusyType ==
  ASSUME TypeOK, NEW q \in Queues, NEW s \in Slots, run[q][s].pc # "idle"
  PROVE  /\ run[q][s] \in BusyRec
         /\ run[q][s].pc \in Points
         /\ run[q][s].doc \in Docs
         /\ run[q][s].cand \in Docs \cup {None}
         /\ run[q][s].client \in 0..NClients
  <1>1. run[q][s] \in RunRec
    BY DEF TypeOK
  <1>2. run[q][s] # Idle
    BY DEF Idle
  <1>3. run[q][s] \in BusyRec
    BY <1>1, <1>2 DEF RunRec
  <1> QED
    BY <1>3 DEF BusyRec

\* Goto leaves well-typed runs.
LEMMA GotoType ==
  ASSUME TypeOK, NEW q \in Queues, NEW s \in Slots, NEW pc \in Points, Goto(q, s, pc),
         run[q][s].pc # "idle", pc # "client"
  PROVE  run' \in [Queues -> [Slots -> RunRec]]
  <1>1. [run[q][s] EXCEPT !.pc = pc] \in BusyRec
    BY BusyType DEF BusyRec
  <1> QED
    BY <1>1 DEF Goto, TypeOK, RunRec

\* Spend leaves a well-typed budget.
LEMMA SpendType ==
  ASSUME TypeOK, NEW k \in Acts, Spend(k)
  PROVE  budget' \in [Kinds -> Nat]
  BY DEF Spend, TypeOK, Kinds, Acts

\* A step of an extract handler keeps the types.
LEMMA ExtractTypes ==
  ASSUME TypeOK, NEW s \in Slots, Extract(s) \/ ExtractEnqueues(s)
  PROVE  TypeOK'
  <1> DEFINE r == run["extract"][s]
  <1>1. CASE Extract(s)
    <2>1. r.doc \in Docs /\ r.pc # "idle"
      BY <1>1, BusyType DEF Extract, At, Queues
    <2>2. run' \in [Queues -> [Slots -> RunRec]]
      BY <1>1, <2>1, GotoType DEF Extract, Queues, Points
    <2>3. RowOK'
      BY <1>1, <2>1 DEF Extract, RowOK, TypeOK, MarkFailed, Statuses
    <2> QED
      BY <1>1, <2>2, <2>3 DEF Extract, TypeOK, ProcOK, proc
  <1>2. CASE ExtractEnqueues(s)
    <2>1. r.doc \in Docs /\ r.pc # "idle"
      BY <1>2, BusyType DEF ExtractEnqueues, At, Queues
    <2>2. run' \in [Queues -> [Slots -> RunRec]]
      BY <1>2, <2>1, GotoType DEF ExtractEnqueues, Queues, Points
    <2>3. job' \in [Queues -> [Docs -> JobRec]]
      BY <1>2, <2>1, EnqueueType DEF ExtractEnqueues, Queues
    <2> QED
      BY <1>2, <2>2, <2>3 DEF ExtractEnqueues, TypeOK, RowOK, ProcOK, row, proc
  <1> QED
    BY <1>1, <1>2

\* A step of a normalize handler keeps the types.
LEMMA NormalizeTypes ==
  ASSUME TypeOK, NEW s \in Slots,
         \/ NormalizeFind(s) \/ NormalizeClaim(s) \/ NormalizeWinner(s)
         \/ NormalizeDedup(s) \/ NormalizeFails(s) \/ NormalizeEnqueues(s)
  PROVE  TypeOK'
  <1> DEFINE r == run["normalize"][s]
  <1>1. /\ r \in BusyRec
        /\ r.doc \in Docs
        /\ r.cand \in Docs \cup {None}
        /\ r.pc # "idle"
    BY BusyType DEF NormalizeFind, NormalizeClaim, NormalizeWinner, NormalizeDedup,
       NormalizeFails, NormalizeEnqueues, At, Queues
  <1>2. ASSUME NEW c \in Docs, TakeCanonical(s, c)
        PROVE  run' \in [Queues -> [Slots -> RunRec]]
    <2>1. [r EXCEPT !.pc = "dedup", !.cand = c] \in RunRec
      BY <1>1 DEF BusyRec, RunRec, Points
    <2> QED
      BY <1>2, <2>1, UpdateType DEF TakeCanonical, TypeOK, Queues
  <1>3. CASE NormalizeFind(s)
    <2>1. run' \in [Queues -> [Slots -> RunRec]]
      BY <1>1, <1>2, <1>3, GotoType DEF NormalizeFind, Holders, Queues, Points
    <2> QED
      BY <1>3, <2>1 DEF NormalizeFind, TypeOK, RowOK, ProcOK, row, proc
  <1>4. CASE NormalizeClaim(s)
    <2>1. run' \in [Queues -> [Slots -> RunRec]]
      BY <1>1, <1>4, GotoType DEF NormalizeClaim, Queues, Points
    <2>2. RowOK'
      <3>1. TextOf[r.doc] \in Texts
        BY <1>1, PipelineAssumption
      <3>2. CASE Holders(r.doc) = {}
        BY <1>1, <1>4, <3>1, <3>2 DEF NormalizeClaim, RowOK, TypeOK, Statuses
      <3>3. CASE Holders(r.doc) # {}
        BY <1>4, <3>3 DEF NormalizeClaim, RowOK, TypeOK, row
      <3> QED
        BY <3>2, <3>3
    <2> QED
      BY <1>4, <2>1, <2>2 DEF NormalizeClaim, TypeOK, ProcOK, proc
  <1>5. CASE NormalizeWinner(s)
    <2>1. run' \in [Queues -> [Slots -> RunRec]]
      BY <1>1, <1>2, <1>5, GotoType DEF NormalizeWinner, Holders, Queues, Points
    <2>2. RowOK'
      BY <1>1, <1>5 DEF NormalizeWinner, RowOK, TypeOK, Statuses, row, MarkFailed
    <2> QED
      BY <1>5, <2>1, <2>2 DEF NormalizeWinner, TypeOK, ProcOK, proc
  <1>6. CASE NormalizeDedup(s)
    <2>1. run' \in [Queues -> [Slots -> RunRec]]
      BY <1>1, <1>6, GotoType DEF NormalizeDedup, Queues, Points
    <2>2. RowOK'
      BY <1>1, <1>6, PipelineAssumption DEF NormalizeDedup, RowOK, TypeOK, Statuses
    <2> QED
      BY <1>6, <2>1, <2>2 DEF NormalizeDedup, TypeOK, ProcOK, proc
  <1>7. CASE NormalizeFails(s)
    <2>1. run' \in [Queues -> [Slots -> RunRec]]
      BY <1>1, <1>7, GotoType DEF NormalizeFails, Queues, Points
    <2>2. RowOK'
      BY <1>1, <1>7 DEF NormalizeFails, RowOK, TypeOK, Statuses, MarkFailed
    <2>3. budget' \in [Kinds -> Nat]
      BY <1>7, SpendType DEF NormalizeFails, Acts, TypeOK
    <2> QED
      BY <1>7, <2>1, <2>2, <2>3 DEF NormalizeFails, TypeOK, ProcOK, proc
  <1>8. CASE NormalizeEnqueues(s)
    <2>1. run' \in [Queues -> [Slots -> RunRec]]
      BY <1>1, <1>8, GotoType DEF NormalizeEnqueues, Queues, Points
    <2>2. job' \in [Queues -> [Docs -> JobRec]]
      BY <1>1, <1>8, EnqueueType DEF NormalizeEnqueues, Queues
    <2> QED
      BY <1>8, <2>1, <2>2 DEF NormalizeEnqueues, TypeOK, RowOK, ProcOK, row, proc
  <1> QED
    BY <1>3, <1>4, <1>5, <1>6, <1>7, <1>8

\* A step of a classify handler keeps the types.
LEMMA ClassifyTypes ==
  ASSUME TypeOK, NEW s \in Slots,
         ClassifyForClient(s) \/ ClassifyError(s) \/ MarkClassified(s)
  PROVE  TypeOK'
  <1> DEFINE r == run["classify"][s]
  <1>1. /\ r \in BusyRec
        /\ r.doc \in Docs
        /\ r.client \in 0..NClients
        /\ r.pc # "idle"
    BY BusyType DEF ClassifyForClient, ClassifyError, MarkClassified, At, Queues
  <1>2. CASE ClassifyForClient(s)
    <2>1. r.client \in Clients
      BY <1>1, <1>2 DEF ClassifyForClient, At, BusyRec
    <2>2. [r EXCEPT !.pc = "mark"] \in RunRec
      BY <1>1 DEF BusyRec, RunRec, Points
    <2>3. ASSUME r.client # NClients PROVE [r EXCEPT !.client = @ + 1] \in RunRec
      BY <1>1, <2>1, <2>3, PipelineAssumption DEF BusyRec, RunRec, Points, Clients
    <2>4. run' \in [Queues -> [Slots -> RunRec]]
      BY <1>2, <2>2, <2>3, UpdateType DEF ClassifyForClient, TypeOK, Queues
    <2>5. RowOK'
      BY <1>1, <1>2, <2>1 DEF ClassifyForClient, RowOK, TypeOK
    <2> QED
      BY <1>2, <2>4, <2>5 DEF ClassifyForClient, TypeOK, ProcOK, proc
  <1>3. CASE ClassifyError(s)
    <2>1. run' \in [Queues -> [Slots -> RunRec]]
      BY <1>1, <1>3, GotoType DEF ClassifyError, Queues, Points
    <2>2. RowOK'
      BY <1>1, <1>3 DEF ClassifyError, RowOK, TypeOK
    <2>3. budget' \in [Kinds -> Nat]
      BY <1>3, SpendType DEF ClassifyError, Acts, TypeOK
    <2> QED
      BY <1>3, <2>1, <2>2, <2>3 DEF ClassifyError, TypeOK, ProcOK, proc
  <1>4. CASE MarkClassified(s)
    <2>1. run' \in [Queues -> [Slots -> RunRec]]
      BY <1>1, <1>4, GotoType DEF MarkClassified, Queues, Points
    <2>2. RowOK'
      BY <1>1, <1>4 DEF MarkClassified, RowOK, TypeOK, Statuses
    <2> QED
      BY <1>4, <2>1, <2>2 DEF MarkClassified, TypeOK, ProcOK, proc
  <1> QED
    BY <1>2, <1>3, <1>4
\* Redis and Postgres errors, and the end of a handler, keep the types.
LEMMA EndTypes ==
  ASSUME TypeOK, NEW q \in Queues, NEW s \in Slots,
         HandlerThrows(q, s) \/ HandlerReturns(q, s) \/ HandlerRejects(q, s)
  PROVE  TypeOK'
  <1> DEFINE d == run[q][s].doc
  <1>1. d \in Docs /\ run[q][s].pc # "idle"
    BY BusyType DEF HandlerThrows, HandlerReturns, HandlerRejects, At
  <1>2. Idle \in RunRec
    BY DEF RunRec
  <1>3. NoJob \in JobRec
    BY PipelineAssumption DEF NoJob, JobRec
  <1>4. job[q][d] \in JobRec
    BY <1>1 DEF TypeOK
  <1>5. CASE HandlerThrows(q, s)
    <2>1. run' \in [Queues -> [Slots -> RunRec]]
      BY <1>1, <1>5, GotoType DEF HandlerThrows, Points
    <2>2. budget' \in [Kinds -> Nat]
      BY <1>5, SpendType DEF HandlerThrows, Acts
    <2> QED
      BY <1>5, <2>1, <2>2 DEF HandlerThrows, TypeOK, RowOK, ProcOK, row, proc
  <1>6. CASE HandlerReturns(q, s)
    <2>1. run' \in [Queues -> [Slots -> RunRec]]
      BY <1>2, <1>6, UpdateType DEF HandlerReturns, TypeOK
    <2>2. job' \in [Queues -> [Docs -> JobRec]]
      BY <1>1, <1>3, <1>6, UpdateType DEF HandlerReturns, TypeOK
    <2> QED
      BY <1>6, <2>1, <2>2 DEF HandlerReturns, TypeOK, RowOK, ProcOK, row, proc
  <1>7. CASE HandlerRejects(q, s)
    <2>1. run' \in [Queues -> [Slots -> RunRec]]
      BY <1>2, <1>7, UpdateType DEF HandlerRejects, TypeOK
    <2>2. ASSUME ~(job[q][d].made + 1 >= Attempts)
          PROVE  [job[q][d] EXCEPT !.st = "waiting", !.made = job[q][d].made + 1,
                                   !.owner = None] \in JobRec
      <3>1. job[q][d].made + 1 \in 0..Attempts
        BY <1>4, <2>2, PipelineAssumption DEF JobRec
      <3> QED
        BY <1>4, <3>1, JobUpdate
    <2>3. job' \in [Queues -> [Docs -> JobRec]]
      <3> DEFINE made == job[q][d].made + 1
                 next == IF At(q, s, "reject") \/ made >= Attempts THEN NoJob
                         ELSE [job[q][d] EXCEPT !.st = "waiting", !.made = made,
                                                !.owner = None]
      <3>1. next \in JobRec
        BY <1>3, <2>2
      <3>2. job' = [job EXCEPT ![q][d] = next] \/ job' = job
        BY <1>7 DEF HandlerRejects
      <3> HIDE DEF next
      <3>3. job \in [Queues -> [Docs -> JobRec]]
        BY DEF TypeOK
      <3>4. [job EXCEPT ![q][d] = next] \in [Queues -> [Docs -> JobRec]]
        BY <1>1, <3>1, <3>3, UpdateType
      <3> QED
        BY <3>2, <3>3, <3>4
    <2>4. [q |-> q, doc |-> d, armed |-> FALSE] \in Event
      BY <1>1 DEF Event
    <2>5. events' \subseteq Event
      BY <1>7, <2>4 DEF HandlerRejects, TypeOK, ProcOK
    <2> QED
      BY <1>7, <2>1, <2>3, <2>5 DEF HandlerRejects, TypeOK, RowOK, ProcOK, row
  <1> QED
    BY <1>5, <1>6, <1>7

\* Fetching a job keeps the types.
LEMMA FetchTypes ==
  ASSUME TypeOK, NEW q \in Queues, NEW s \in Slots, NEW d \in Docs, Fetch(q, s, d)
  PROVE  TypeOK'
  <1>1. [job[q][d] EXCEPT !.st = "active", !.owner = s] \in JobRec
    <2>1. job[q][d] \in JobRec
      BY DEF TypeOK
    <2> QED
      BY <2>1, JobUpdate
  <1>2. job' \in [Queues -> [Docs -> JobRec]]
    BY <1>1, UpdateType DEF Fetch, TypeOK
  <1>3. /\ Entry(q, d) \in Points
        /\ Entry(q, d) = "client" => q = "classify" /\ NClients > 0
    BY PipelineAssumption DEF Entry, ClassifyEntry, Points, Queues
  <1> DEFINE r == [pc |-> Entry(q, d), doc |-> d, cand |-> None,
                   client |-> IF q = "classify" /\ NClients > 0 THEN 1 ELSE 0]
  <1>4. r \in BusyRec
    BY <1>3, PipelineAssumption DEF BusyRec, Clients
  <1>5. r \in RunRec
    BY <1>4 DEF RunRec
  <1>6. run' \in [Queues -> [Slots -> RunRec]]
    BY <1>5, UpdateType DEF Fetch, TypeOK
  <1> QED
    BY <1>2, <1>6 DEF Fetch, TypeOK, RowOK, ProcOK, row, proc

\* 'failed' events, the stalled check, crash and restart keep the types.
LEMMA FailureTypes ==
  ASSUME TypeOK,
         \/ \E e \in events : FailedReads(e) \/ FailedWrites(e)
         \/ \E q \in Queues, d \in Docs : StalledByCrash(q, d) \/ StalledWhileRunning(q, d)
         \/ Crash
         \/ Restart
  PROVE  TypeOK'
  <1>1. ASSUME NEW e \in events, FailedReads(e)
        PROVE  TypeOK'
    <2>1. e \in Event /\ [e EXCEPT !.armed = TRUE] \in Event
      BY DEF TypeOK, ProcOK, Event
    <2> QED
      BY <1>1, <2>1 DEF FailedReads, TypeOK, RowOK, ProcOK, row
  <1>2. ASSUME NEW e \in events, FailedWrites(e)
        PROVE  TypeOK'
    <2>1. e.doc \in Docs
      BY DEF TypeOK, ProcOK, Event
    <2>2. RowOK'
      BY <1>2, <2>1 DEF FailedWrites, MarkFailed, TypeOK, RowOK, Statuses
    <2> QED
      BY <1>2, <2>2 DEF FailedWrites, TypeOK, ProcOK
  <1>3. ASSUME NEW q \in Queues, NEW d \in Docs, StalledCheck(q, d)
        PROVE  /\ job' \in [Queues -> [Docs -> JobRec]]
               /\ events' \subseteq Event
               /\ UNCHANGED <<row, run, crawl, api, recov, up, boot>>
    <2> DEFINE n == job[q][d].stalled + 1
    <2>1. job[q][d] \in JobRec
      BY DEF TypeOK
    <2>2. ASSUME ~(n > MaxStalledCount)
          PROVE  [job[q][d] EXCEPT !.st = "waiting", !.stalled = n, !.owner = None] \in JobRec
      <3>1. n \in 0..MaxStalledCount
        BY <2>1, <2>2, PipelineAssumption DEF JobRec
      <3> QED
        BY <2>1, <3>1, JobUpdate
    <2>3. NoJob \in JobRec
      BY PipelineAssumption DEF NoJob, JobRec
    <2>4. job' \in [Queues -> [Docs -> JobRec]]
      BY <1>3, <2>2, <2>3, UpdateType DEF StalledCheck, TypeOK
    <2>5. [q |-> q, doc |-> d, armed |-> FALSE] \in Event
      BY DEF Event
    <2>6. events' \subseteq Event
      BY <1>3, <2>5 DEF StalledCheck, TypeOK, ProcOK
    <2> QED
      BY <1>3, <2>4, <2>6 DEF StalledCheck
  <1>4. ASSUME NEW q \in Queues, NEW d \in Docs, StalledByCrash(q, d)
        PROVE  TypeOK'
    BY <1>3, <1>4 DEF StalledByCrash, TypeOK, RowOK, ProcOK, row
  <1>5. ASSUME NEW q \in Queues, NEW d \in Docs, StalledWhileRunning(q, d)
        PROVE  TypeOK'
    <2>1. budget' \in [Kinds -> Nat]
      BY <1>5, SpendType DEF StalledWhileRunning, Acts
    <2> QED
      BY <1>3, <1>5, <2>1 DEF StalledWhileRunning, TypeOK, RowOK, ProcOK, row
  <1>6. CASE Crash
    <2>1. run' \in [Queues -> [Slots -> RunRec]]
      BY <1>6 DEF Crash, RunRec
    <2>2. job' \in [Queues -> [Docs -> JobRec]]
      BY <1>6, JobUpdate DEF Crash, TypeOK
    <2>3. budget' \in [Kinds -> Nat]
      BY <1>6, SpendType DEF Crash, Acts
    <2>4. crawl' \in [Docs -> {"absent", "saved", "done"}]
      BY <1>6 DEF Crash, TypeOK, ProcOK
    <2> QED
      BY <1>6, <2>1, <2>2, <2>3, <2>4 DEF Crash, TypeOK, RowOK, ProcOK, row
  <1>7. CASE Restart
    BY <1>7 DEF Restart, TypeOK, RowOK, ProcOK, row
  <1> QED
    BY <1>1, <1>2, <1>4, <1>5, <1>6, <1>7
\* The recovery pass keeps the types.
LEMMA RecoveryTypes ==
  ASSUME TypeOK, RecoverReads \/ \E r \in recov : RecoverRequeues(r)
  PROVE  TypeOK'
  <1>1. CASE RecoverReads
    BY <1>1 DEF RecoverReads, TypeOK, RowOK, ProcOK, row
  <1>2. ASSUME NEW r \in recov, RecoverRequeues(r)
        PROVE  TypeOK'
    <2>1. r.q \in Queues /\ r.doc \in Docs
      BY DEF TypeOK, ProcOK
    <2>2. CASE Enqueue(r.q, r.doc, FALSE) /\ UNCHANGED budget
      <3>1. job' \in [Queues -> [Docs -> JobRec]]
        BY <2>1, <2>2, EnqueueType
      <3> QED
        BY <1>2, <2>2, <3>1 DEF RecoverRequeues, TypeOK, RowOK, ProcOK, row
    <2>3. CASE UNCHANGED job /\ Spend("lost")
      <3>1. budget' \in [Kinds -> Nat]
        BY <2>3, SpendType DEF Acts
      <3> QED
        BY <1>2, <2>3, <3>1 DEF RecoverRequeues, TypeOK, RowOK, ProcOK, row
    <2> QED
      BY <1>2, <2>2, <2>3 DEF RecoverRequeues
  <1> QED
    BY <1>1, <1>2

\* The crawl of a document keeps the types.
LEMMA CrawlTypes ==
  ASSUME TypeOK, NEW d \in Docs, SaveRaw(d) \/ EnqueueDocumentExtract(d)
  PROVE  TypeOK'
  <1>1. CASE SaveRaw(d)
    <2>1. budget' \in [Kinds -> Nat]
      BY <1>1, SpendType DEF SaveRaw, Acts, TypeOK
    <2>2. crawl' \in [Docs -> {"absent", "saved", "done"}]
      BY <1>1 DEF SaveRaw, TypeOK, ProcOK
    <2> QED
      BY <1>1, <2>1, <2>2 DEF SaveRaw, TypeOK, RowOK, ProcOK, row
  <1>2. CASE EnqueueDocumentExtract(d)
    <2>1. job' \in [Queues -> [Docs -> JobRec]] /\ budget' \in [Kinds -> Nat]
      BY <1>2, SpendType, EnqueueType DEF EnqueueDocumentExtract, Acts, Queues, TypeOK
    <2>2. crawl' \in [Docs -> {"absent", "saved", "done"}]
      BY <1>2 DEF EnqueueDocumentExtract, TypeOK, ProcOK
    <2> QED
      BY <1>2, <2>1, <2>2 DEF EnqueueDocumentExtract, TypeOK, RowOK, ProcOK, row
  <1> QED
    BY <1>1, <1>2

\* The requests of admins keep the types.
LEMMA RequestTypes ==
  ASSUME TypeOK,
         \/ \E d \in Docs : \/ Reprocess(d) \/ ClassifyRequest(d)
                            \/ TriggerExtractResets(d) \/ TriggerClassifyReopens(d)
         \/ TriggerExtract \/ TriggerClassify \/ RequestFails
         \/ \E r \in api : RequestEnqueues(r)
  PROVE  TypeOK'
  <1>1. ASSUME NEW d \in Docs, ResetRow(d)
        PROVE  RowOK'
    BY <1>1 DEF ResetRow, RowOK, TypeOK, Statuses
  <1>2. ASSUME NEW d \in Docs, Reprocess(d)
        PROVE  TypeOK'
    <2>1. RowOK'
      BY <1>1, <1>2 DEF Reprocess
    <2>2. api' \subseteq Request
      BY <1>2 DEF Reprocess, TypeOK, ProcOK, Request
    <2>3. budget' \in [Kinds -> Nat]
      BY <1>2, SpendType DEF Reprocess, Acts
    <2> QED
      BY <1>2, <2>1, <2>2, <2>3 DEF Reprocess, TypeOK, ProcOK
  <1>3. ASSUME NEW d \in Docs, ClassifyRequest(d)
        PROVE  TypeOK'
    <2>1. api' \subseteq Request
      BY <1>3 DEF ClassifyRequest, TypeOK, ProcOK, Request
    <2>2. budget' \in [Kinds -> Nat]
      BY <1>3, SpendType DEF ClassifyRequest, Acts
    <2> QED
      BY <1>3, <2>1, <2>2 DEF ClassifyRequest, TypeOK, RowOK, ProcOK, row
  <1>4. ASSUME NEW d \in Docs, TriggerExtractResets(d)
        PROVE  TypeOK'
    <2>1. RowOK'
      BY <1>1, <1>4 DEF TriggerExtractResets
    <2>2. api' \subseteq Request
      BY <1>4 DEF TriggerExtractResets, TypeOK, ProcOK, Request
    <2> QED
      BY <1>4, <2>1, <2>2 DEF TriggerExtractResets, TypeOK, ProcOK
  <1>5. ASSUME NEW d \in Docs, TriggerClassifyReopens(d)
        PROVE  TypeOK'
    <2>1. RowOK'
      BY <1>5 DEF TriggerClassifyReopens, RowOK, TypeOK, Statuses
    <2>2. api' \subseteq Request
      BY <1>5 DEF TriggerClassifyReopens, TypeOK, ProcOK, Request
    <2> QED
      BY <1>5, <2>1, <2>2 DEF TriggerClassifyReopens, TypeOK, ProcOK
  <1>6. CASE TriggerExtract
    <2>1. budget' \in [Kinds -> Nat]
      BY <1>6, SpendType DEF TriggerExtract, Acts
    <2> QED
      BY <1>6, <2>1 DEF TriggerExtract, ClassifyRequests, TypeOK, RowOK, ProcOK, row
  <1>7. CASE TriggerClassify
    <2>1. budget' \in [Kinds -> Nat]
      BY <1>7, SpendType DEF TriggerClassify, Acts
    <2> QED
      BY <1>7, <2>1 DEF TriggerClassify, ClassifyRequests, TypeOK, RowOK, ProcOK, row
  <1>8. CASE RequestFails
    <2>1. budget' \in [Kinds -> Nat]
      BY <1>8, SpendType DEF RequestFails, Acts
    <2> QED
      BY <1>8, <2>1 DEF RequestFails, TypeOK, RowOK, ProcOK, row
  <1>9. ASSUME NEW r \in api, RequestEnqueues(r)
        PROVE  TypeOK'
    <2>1. r.op \in Queues /\ r.doc \in Docs
      BY <1>9 DEF RequestEnqueues, TypeOK, ProcOK, Request, Queues
    <2>2. job' \in [Queues -> [Docs -> JobRec]]
      BY <1>9, <2>1, EnqueueType DEF RequestEnqueues
    <2> QED
      BY <1>9, <2>2 DEF RequestEnqueues, TypeOK, RowOK, ProcOK, row
  <1> QED
    BY <1>2, <1>3, <1>4, <1>5, <1>6, <1>7, <1>8, <1>9

\* Every step of the two processes and of their environment keeps the types.
LEMMA NextTypeOK == TypeOK /\ [Next]_vars => TypeOK'
  <1> SUFFICES ASSUME TypeOK, [Next]_vars PROVE TypeOK'
    OBVIOUS
  <1>1. CASE System
    BY <1>1, ExtractTypes, NormalizeTypes, ClassifyTypes, EndTypes, FetchTypes,
       FailureTypes, RecoveryTypes, CrawlTypes, RequestTypes
    DEF System, Handler
  <1>2. CASE Environment
    BY <1>2, EndTypes, FailureTypes, CrawlTypes, RequestTypes DEF Environment
  <1>3. CASE UNCHANGED vars
    BY <1>3 DEF vars, TypeOK, RowOK, ProcOK
  <1> QED
    BY <1>1, <1>2, <1>3 DEF Next

\* The variables have the types of the columns, keys and locals they model, whatever
\* the handlers, the failures and the admins do.
THEOREM TypeSafety == Spec => []TypeOK
  <1> QED
    BY InitTypeOK, NextTypeOK, PTL DEF Spec
-----------------------------------------------------------------------------
(* A classified document has a finding for every client.                   *)

\* What a classify handler has done when it reaches a client, and when it has done all.
FanOut(s) ==
  LET r == run["classify"][s] IN
  /\ r.pc = "client" => \A k \in Clients : k < r.client => k \in findings[r.doc]
  /\ r.pc = "mark" /\ r.doc \notin OldDocs => findings[r.doc] = Clients

CompleteInv == ClassifiedIsComplete /\ \A s \in Slots : FanOut(s)

\* A step that writes no finding, classifies no document and brings no classify handler
\* to a client or to its end.
Calm ==
  /\ findings' = findings
  /\ \A d \in Docs : status'[d] = "CLASSIFIED" => status[d] = "CLASSIFIED"
  /\ \A s \in Slots : \/ run'["classify"][s] = run["classify"][s]
                      \/ run'["classify"][s].pc \notin {"client", "mark"}

LEMMA CalmKeepsCompleteInv ==
  ASSUME CompleteInv, Calm
  PROVE  CompleteInv'
  <1>1. ClassifiedIsComplete'
    BY DEF CompleteInv, Calm, ClassifiedIsComplete
  <1>2. ASSUME NEW s \in Slots PROVE FanOut(s)'
    BY DEF CompleteInv, Calm, FanOut
  <1> QED
    BY <1>1, <1>2 DEF CompleteInv

\* Which steps are calm: all but those of a classify handler and the fetch of a job.
LEMMA CalmSteps ==
  ASSUME TypeOK, [Next]_vars,
         ~ \E s \in Slots : ClassifyForClient(s) \/ MarkClassified(s),
         ~ \E q \in Queues, s \in Slots, d \in Docs : Fetch(q, s, d)
  PROVE  Calm
  <1> USE DEF Calm, Queues
  <1>1. ASSUME NEW q \in Queues, NEW s \in Slots, NEW pc \in Points \ {"client", "mark"},
               Goto(q, s, pc)
        PROVE  \A t \in Slots : \/ run'["classify"][t] = run["classify"][t]
                               \/ run'["classify"][t].pc \notin {"client", "mark"}
    BY <1>1 DEF Goto, TypeOK, RunRec, BusyRec, Idle
  <1>2. ASSUME NEW s \in Slots, Extract(s) \/ ExtractEnqueues(s)
        PROVE  Calm
    <2>1. \A t \in Slots : run'["classify"][t] = run["classify"][t]
      BY <1>2 DEF Extract, ExtractEnqueues, Goto, TypeOK
    <2> QED
      BY <1>2, <2>1 DEF Extract, ExtractEnqueues, MarkFailed, TypeOK, RowOK, row
  <1>3. ASSUME NEW s \in Slots,
               \/ NormalizeFind(s) \/ NormalizeClaim(s) \/ NormalizeWinner(s)
               \/ NormalizeDedup(s) \/ NormalizeFails(s) \/ NormalizeEnqueues(s)
        PROVE  Calm
    <2>1. \A t \in Slots : run'["classify"][t] = run["classify"][t]
      BY <1>3 DEF NormalizeFind, NormalizeClaim, NormalizeWinner, NormalizeDedup,
         NormalizeFails, NormalizeEnqueues, TakeCanonical, Goto, TypeOK
    <2> QED
      BY <1>3, <2>1 DEF NormalizeFind, NormalizeClaim, NormalizeWinner, NormalizeDedup,
         NormalizeFails, NormalizeEnqueues, MarkFailed, TypeOK, RowOK, row
  <1>4. ASSUME NEW s \in Slots, ClassifyError(s)
        PROVE  Calm
    BY <1>1, <1>4 DEF ClassifyError, Points
  <1>5. ASSUME NEW q \in Queues, NEW s \in Slots,
               HandlerThrows(q, s) \/ HandlerReturns(q, s) \/ HandlerRejects(q, s)
        PROVE  Calm
    <2>1. CASE HandlerThrows(q, s)
      BY <1>1, <2>1 DEF HandlerThrows, Points, row
    <2>2. CASE run' = [run EXCEPT ![q][s] = Idle] /\ UNCHANGED row
      BY <2>2 DEF TypeOK, Idle, row
    <2> QED
      BY <1>5, <2>1, <2>2 DEF HandlerReturns, HandlerRejects
  <1>6. ASSUME NEW e \in events, FailedReads(e) \/ FailedWrites(e)
        PROVE  Calm
    BY <1>6 DEF FailedReads, FailedWrites, MarkFailed, TypeOK, RowOK, row
  <1>7. ASSUME NEW q \in Queues, NEW d \in Docs,
               StalledByCrash(q, d) \/ StalledWhileRunning(q, d)
        PROVE  Calm
    BY <1>7 DEF StalledByCrash, StalledWhileRunning, StalledCheck, row
  <1>8. CASE Crash
    BY <1>8 DEF Crash, Idle, row
  <1>9. CASE Restart \/ RecoverReads \/ \E r \in recov : RecoverRequeues(r)
    BY <1>9 DEF Restart, RecoverReads, RecoverRequeues, row
  <1>10. ASSUME NEW d \in Docs,
                \/ SaveRaw(d) \/ EnqueueDocumentExtract(d) \/ Reprocess(d)
                \/ ClassifyRequest(d) \/ TriggerExtractResets(d) \/ TriggerClassifyReopens(d)
        PROVE  Calm
    BY <1>10 DEF SaveRaw, EnqueueDocumentExtract, Reprocess, ClassifyRequest, ResetRow,
       TriggerExtractResets, TriggerClassifyReopens, TypeOK, RowOK, row
  <1>11. CASE \/ TriggerExtract \/ TriggerClassify \/ RequestFails
              \/ \E r \in api : RequestEnqueues(r)
    BY <1>11 DEF TriggerExtract, TriggerClassify, RequestFails, RequestEnqueues, row
  <1>12. CASE UNCHANGED vars
    BY <1>12 DEF vars
  <1> QED
    BY <1>2, <1>3, <1>4, <1>5, <1>6, <1>7, <1>8, <1>9, <1>10, <1>11, <1>12
    DEF Next, System, Environment, Handler

LEMMA NextCompleteInv == TypeOK /\ CompleteInv /\ [Next]_vars => CompleteInv'
  <1> SUFFICES ASSUME TypeOK, CompleteInv, [Next]_vars PROVE CompleteInv'
    OBVIOUS
  <1>1. ASSUME NEW s \in Slots, ClassifyForClient(s)
        PROVE  CompleteInv'
    <2> DEFINE r == run["classify"][s]
    <2>1. r \in BusyRec /\ r.doc \in Docs /\ r.client \in Clients /\ r.pc = "client"
      BY <1>1, BusyType DEF ClassifyForClient, At, Queues, BusyRec
    <2>2. \A d \in Docs : findings[d] \subseteq findings'[d] /\ findings'[d] \subseteq Clients
      BY <1>1, <2>1 DEF ClassifyForClient, TypeOK, RowOK
    <2>3. ClassifiedIsComplete'
      BY <1>1, <2>2 DEF ClassifyForClient, CompleteInv, ClassifiedIsComplete, TypeOK, RowOK
    <2>4. ASSUME NEW t \in Slots, t # s PROVE FanOut(t)'
      <3>1. run'["classify"][t] = run["classify"][t]
        BY <1>1, <2>4 DEF ClassifyForClient, TypeOK, Queues
      <3>2. run["classify"][t].pc # "idle" => run["classify"][t].doc \in Docs
        BY BusyType DEF Queues
      <3>3. FanOut(t)
        BY DEF CompleteInv
      <3>4. CASE run["classify"][t].pc = "client"
        BY <2>2, <3>1, <3>2, <3>3, <3>4 DEF FanOut
      <3>5. CASE run["classify"][t].pc = "mark" /\ run["classify"][t].doc \notin OldDocs
        <4>1. findings[run["classify"][t].doc] = Clients
          BY <3>3, <3>5 DEF FanOut
        <4>2. findings'[run["classify"][t].doc] = Clients
          BY <2>2, <3>2, <3>5, <4>1
        <4> QED
          BY <3>1, <3>5, <4>2 DEF FanOut
      <3> QED
        BY <3>1, <3>4, <3>5 DEF FanOut
    <2>5. FanOut(s)'
      <3>1. r.client \in findings'[r.doc]
        BY <1>1, <2>1 DEF ClassifyForClient, TypeOK, RowOK
      <3>2. \A k \in Clients : k < r.client => k \in findings'[r.doc]
        BY <2>1, <2>2 DEF CompleteInv, FanOut
      <3>3. \A k \in Clients : k < r.client + 1 => k \in findings'[r.doc]
        BY <2>1, <3>1, <3>2, PipelineAssumption DEF Clients
      <3>4. CASE r.client = NClients
        <4>1. run'["classify"][s].pc = "mark" /\ run'["classify"][s].doc = r.doc
          BY <1>1, <2>1, <3>4 DEF ClassifyForClient, TypeOK, Queues, RunRec, BusyRec
        <4>2. findings'[r.doc] = Clients
          <5>1. \A k \in Clients : k < r.client + 1
            BY <3>4, PipelineAssumption DEF Clients
          <5>2. Clients \subseteq findings'[r.doc]
            BY <3>3, <5>1
          <5> QED
            BY <2>1, <2>2, <5>2
        <4> QED
          BY <4>1, <4>2 DEF FanOut
      <3>5. CASE r.client # NClients
        <4>1. /\ run'["classify"][s].pc = "client"
              /\ run'["classify"][s].doc = r.doc
              /\ run'["classify"][s].client = r.client + 1
          BY <1>1, <2>1, <3>5 DEF ClassifyForClient, TypeOK, Queues, RunRec, BusyRec
        <4> QED
          BY <3>3, <4>1 DEF FanOut
      <3> QED
        BY <3>4, <3>5
    <2> QED
      BY <2>3, <2>4, <2>5 DEF CompleteInv
  <1>2. ASSUME NEW s \in Slots, MarkClassified(s)
        PROVE  CompleteInv'
    <2>1. findings' = findings
      BY <1>2 DEF MarkClassified
    <2>2. \A t \in Slots : \/ run'["classify"][t] = run["classify"][t]
                          \/ run'["classify"][t].pc = "end"
      BY <1>2, BusyType DEF MarkClassified, Goto, At, TypeOK, Queues, BusyRec
    <2>3. ClassifiedIsComplete'
      BY <1>2, <2>1
      DEF MarkClassified, At, CompleteInv, FanOut, ClassifiedIsComplete, TypeOK, RowOK
    <2>4. ASSUME NEW t \in Slots PROVE FanOut(t)'
      BY <2>1, <2>2 DEF CompleteInv, FanOut
    <2> QED
      BY <2>3, <2>4 DEF CompleteInv
  <1>3. ASSUME NEW q \in Queues, NEW s \in Slots, NEW d \in Docs, Fetch(q, s, d)
        PROVE  CompleteInv'
    <2>1. findings' = findings /\ status' = status
      BY <1>3 DEF Fetch, row
    <2>2. ASSUME NEW t \in Slots, ~(q = "classify" /\ t = s)
          PROVE  FanOut(t)'
      <3>1. run'["classify"][t] = run["classify"][t]
        BY <1>3, <2>2 DEF Fetch, TypeOK, Queues
      <3> QED
        BY <2>1, <3>1 DEF CompleteInv, FanOut
    <2>3. ASSUME q = "classify"
          PROVE  FanOut(s)'
      <3> DEFINE r == [pc |-> Entry(q, d), doc |-> d, cand |-> None,
                       client |-> IF q = "classify" /\ NClients > 0 THEN 1 ELSE 0]
      <3>1. run'["classify"][s] = r
        BY <1>3, <2>3 DEF Fetch, TypeOK, Queues
      <3>2. r.pc = "client" => r.client = 1
        BY <2>3, PipelineAssumption DEF Entry, ClassifyEntry
      <3>3. r.pc = "mark" /\ d \notin OldDocs => NClients = 0
        BY <2>3 DEF Entry, ClassifyEntry
      <3>4. findings[d] \subseteq Clients
        BY DEF TypeOK, RowOK
      <3>5. NClients = 0 => findings[d] = Clients
        BY <3>4 DEF Clients
      <3>6. \A k \in Clients : ~(k < 1)
        BY PipelineAssumption DEF Clients
      <3>7. r.doc = d
        OBVIOUS
      <3> HIDE DEF r
      <3> QED
        BY <2>1, <3>1, <3>2, <3>3, <3>5, <3>6, <3>7 DEF FanOut
    <2>4. ClassifiedIsComplete'
      BY <2>1 DEF CompleteInv, ClassifiedIsComplete
    <2> QED
      BY <2>2, <2>3, <2>4 DEF CompleteInv
  <1> QED
    BY <1>1, <1>2, <1>3, CalmSteps, CalmKeepsCompleteInv

\* CLASSIFIED is only ever written after every linked client has its finding: for every
\* number of clients, of concurrent handlers and of retries, and through every crash,
\* stall, reset and forced re-run.
THEOREM ClassifiedCompleteness == Spec => []ClassifiedIsComplete
  <1>1. Init => CompleteInv
    BY DEF Init, CompleteInv, ClassifiedIsComplete, FanOut, Idle, Queues
  <1>2. CompleteInv => ClassifiedIsComplete
    BY DEF CompleteInv
  <1> QED
    BY <1>1, <1>2, NextCompleteInv, TypeSafety, PTL DEF Spec
-----------------------------------------------------------------------------
(* The election of one canonical document per content.                     *)

NoReset == Unspent({"reset"})

\* d holds its content hash: it is the canonical document of its content.
Canonical(d) == hash[d] = TextOf[d] /\ canon[d] = None

\* d bears a trace of the analysis.
Analysed(d) ==
  \/ status[d] \in {"READY_FOR_AI", "CLASSIFIED"}
  \/ lastError[d] = "classify"
  \/ findings[d] # {}

HashInv == \A d \in Docs : hash[d] \in {None, TextOf[d]}

UniqueInv ==
  \A c, d \in Docs :
    Canonical(c) /\ Canonical(d) /\ TextOf[c] = TextOf[d] => c = d

DuplicateInv ==
  \A d \in Docs : canon[d] # None =>
    hash[d] = TextOf[d] /\ Canonical(canon[d]) /\ TextOf[canon[d]] = TextOf[d]

\* What a normalize handler knows between its read and its update.
CandidateInv ==
  \A s \in Slots : LET r == run["normalize"][s] IN
    r.pc = "dedup" =>
      r.cand \in Docs /\ Canonical(r.cand) /\ TextOf[r.cand] = TextOf[r.doc] /\ r.cand # r.doc

\* What a classify handler knows while OpenAI answers.
ClassifyInv ==
  \A s \in Slots : LET r == run["classify"][s] IN
    r.pc \in {"client", "mark"} => Canonical(r.doc)

AnalysedInv == \A d \in Docs : Analysed(d) => Canonical(d)

EventInv == \A e \in events : e.q = "classify" /\ e.armed => Canonical(e.doc)

RequestOK(r) == r.op # "reset" /\ (r.op = "reopen" => Canonical(r.doc))

RequestInv == \A r \in api : RequestOK(r)

ElectionInv ==
  /\ HashInv
  /\ UniqueInv
  /\ DuplicateInv
  /\ CandidateInv
  /\ ClassifyInv
  /\ AnalysedInv
  /\ EventInv
  /\ RequestInv

BudgetInv == \A k \in Kinds : budget[k] <= Budget[k]

\* The inductive invariant: a reset breaks the election, and nothing else does.
ElectionIInv == BudgetInv /\ (NoReset => ElectionInv)

\* Every step spends at most one unit of one kind.
LEMMA BudgetStep ==
  ASSUME TypeOK, [Next]_vars
  PROVE  UNCHANGED budget \/ \E k \in Acts : Spend(k)
  <1> USE DEF Acts
  <1>1. CASE System
    <2>1. ASSUME NEW s \in Slots, Handler(s)
          PROVE  UNCHANGED budget \/ Spend("infra") \/ Spend("lost") \/ Spend("reject")
      <3>1. CASE Extract(s) \/ ExtractEnqueues(s)
        BY <3>1 DEF Extract, ExtractEnqueues
      <3>2. CASE NormalizeFind(s) \/ NormalizeClaim(s) \/ NormalizeWinner(s)
        BY <3>2 DEF NormalizeFind, NormalizeClaim, NormalizeWinner
      <3>3. CASE NormalizeDedup(s) \/ NormalizeFails(s) \/ NormalizeEnqueues(s)
        BY <3>3 DEF NormalizeDedup, NormalizeFails, NormalizeEnqueues
      <3>4. CASE ClassifyForClient(s) \/ ClassifyError(s) \/ MarkClassified(s)
        BY <3>4 DEF ClassifyForClient, ClassifyError, MarkClassified
      <3> QED
        BY <2>1, <3>1, <3>2, <3>3, <3>4 DEF Handler
    <2>2. ASSUME NEW q \in Queues, NEW s \in Slots,
                 \/ HandlerReturns(q, s) \/ HandlerRejects(q, s)
                 \/ \E d \in Docs : Fetch(q, s, d)
          PROVE  UNCHANGED budget
      BY <2>2 DEF HandlerReturns, HandlerRejects, Fetch
    <2>3. ASSUME NEW e \in events, FailedReads(e) \/ FailedWrites(e)
          PROVE  UNCHANGED budget
      BY <2>3 DEF FailedReads, FailedWrites
    <2>4. ASSUME NEW q \in Queues, NEW d \in Docs, StalledByCrash(q, d)
          PROVE  UNCHANGED budget
      BY <2>4 DEF StalledByCrash
    <2>5. CASE Restart \/ RecoverReads \/ \E r \in recov : RecoverRequeues(r)
      BY <2>5 DEF Restart, RecoverReads, RecoverRequeues
    <2>6. ASSUME NEW d \in Docs,
                 \/ EnqueueDocumentExtract(d) \/ TriggerExtractResets(d)
                 \/ TriggerClassifyReopens(d)
          PROVE  UNCHANGED budget \/ Spend("lost")
      BY <2>6 DEF EnqueueDocumentExtract, TriggerExtractResets, TriggerClassifyReopens
    <2>7. ASSUME NEW r \in api, RequestEnqueues(r)
          PROVE  UNCHANGED budget
      BY <2>7 DEF RequestEnqueues
    <2> QED
      BY <1>1, <2>1, <2>2, <2>3, <2>4, <2>5, <2>6, <2>7 DEF System
  <1>2. CASE Environment
    BY <1>2 DEF Environment, HandlerThrows, StalledWhileRunning, Crash, SaveRaw, Reprocess,
       ClassifyRequest, TriggerExtract, TriggerClassify, RequestFails
  <1>3. CASE UNCHANGED vars
    BY <1>3 DEF vars
  <1> QED
    BY <1>1, <1>2, <1>3 DEF Next

LEMMA NextBudgetInv ==
  ASSUME TypeOK, BudgetInv, [Next]_vars
  PROVE  /\ BudgetInv'
         /\ NoReset' => NoReset /\ ~Spend("reset")
  <1>1. \A k \in Kinds : budget[k] \in Nat /\ Budget[k] \in Nat
    BY PipelineAssumption DEF TypeOK
  <1>2. CASE UNCHANGED budget
    <2>1. budget'["reset"] = budget["reset"]
      BY <1>2
    <2>2. ~Spend("reset")
      BY <1>1, <2>1 DEF Spend, TypeOK, Kinds, Acts
    <2> QED
      BY <1>2, <2>2 DEF BudgetInv, NoReset, Unspent
  <1>3. ASSUME NEW k \in Acts, Spend(k)
        PROVE  BudgetInv' /\ (NoReset' => NoReset /\ ~Spend("reset"))
    <2>1. \A j \in Kinds : budget'[j] = IF j \in {k, "any"} THEN budget[j] - 1 ELSE budget[j]
      BY <1>3 DEF Spend, TypeOK, Kinds, Acts
    <2>2. BudgetInv'
      BY <1>1, <2>1 DEF BudgetInv, Kinds, Acts
    <2>3. ASSUME NoReset' PROVE NoReset /\ ~Spend("reset")
      <3>1. budget'["reset"] = Budget["reset"]
        BY <2>3 DEF NoReset, Unspent
      <3>2. k # "reset"
        BY <1>1, <1>3, <2>1, <3>1 DEF BudgetInv, Spend, Kinds, Acts
      <3>3. budget'["reset"] = budget["reset"]
        BY <2>1, <3>2 DEF Kinds, Acts
      <3>4. ~Spend("reset")
        BY <1>1, <3>3 DEF Spend, TypeOK, Kinds, Acts
      <3> QED
        BY <3>1, <3>3, <3>4 DEF NoReset, Unspent
    <2> QED
      BY <2>2, <2>3
  <1> QED
    BY <1>2, <1>3, BudgetStep

\* A step that leaves hashes and canonicals alone, and whose handlers, rows, events and
\* requests only come to rely on canonical documents.
Still ==
  /\ hash' = hash /\ canon' = canon
  /\ \A s \in Slots : \/ run'["normalize"][s] = run["normalize"][s]
                      \/ run'["normalize"][s].pc # "dedup"
  /\ \A s \in Slots : \/ run'["classify"][s] = run["classify"][s]
                      \/ run'["classify"][s].pc \notin {"client", "mark"}
                      \/ Canonical(run'["classify"][s].doc)
  /\ \A d \in Docs : Analysed(d)' => Analysed(d) \/ Canonical(d)
  /\ \A e \in events' : e \in events \/ ~(e.q = "classify" /\ e.armed) \/ Canonical(e.doc)
  /\ \A r \in api' : r \in api \/ RequestOK(r)

LEMMA StillKeepsElectionInv ==
  ASSUME ElectionInv, Still
  PROVE  ElectionInv'
  <1>1. \A d : Canonical(d)' = Canonical(d)
    BY DEF Still, Canonical
  <1>2. HashInv' /\ UniqueInv'
    BY DEF ElectionInv, Still, HashInv, UniqueInv, Canonical
  <1>3. DuplicateInv'
    BY DEF ElectionInv, Still, DuplicateInv, Canonical
  <1>4. CandidateInv'
    BY <1>1 DEF ElectionInv, Still, CandidateInv
  <1>5. ClassifyInv'
    BY <1>1 DEF ElectionInv, Still, ClassifyInv
  <1>6. AnalysedInv'
    BY <1>1 DEF ElectionInv, Still, AnalysedInv
  <1>7. EventInv'
    BY <1>1 DEF ElectionInv, Still, EventInv
  <1>8. RequestInv'
    BY <1>1 DEF ElectionInv, Still, RequestInv, RequestOK
  <1> QED
    BY <1>2, <1>3, <1>4, <1>5, <1>6, <1>7, <1>8 DEF ElectionInv

\* The steps that are still when nobody resets: all but those of a normalize handler.
LEMMA StillSteps ==
  ASSUME TypeOK, ElectionInv, [Next]_vars, ~Spend("reset"),
         ~ \E s \in Slots : \/ NormalizeFind(s) \/ NormalizeClaim(s)
                           \/ NormalizeWinner(s) \/ NormalizeDedup(s)
  PROVE  Still
  <1> USE DEF Still, Queues
  <1>1. ASSUME NEW q \in Queues, NEW s \in Slots,
               NEW pc \in Points \ {"client", "mark", "dedup"}, Goto(q, s, pc)
        PROVE  \A c \in {"normalize", "classify"}, t \in Slots :
                 \/ run'[c][t] = run[c][t]
                 \/ run'[c][t].pc \notin {"client", "mark", "dedup"}
    BY <1>1 DEF Goto, TypeOK, RunRec, BusyRec, Idle
  <1>2. ASSUME NEW s \in Slots, Extract(s)
        PROVE  Still
    <2>1. run["extract"][s].doc \in Docs
      BY <1>2, BusyType DEF Extract, At
    <2>2. \A d \in Docs : Analysed(d)' => Analysed(d)
      BY <1>2, <2>1 DEF Extract, MarkFailed, Analysed, TypeOK, RowOK
    <2>3. hash' = hash /\ canon' = canon /\ events' = events /\ api' = api
      BY <1>2 DEF Extract, MarkFailed, proc
    <2>4. Goto("extract", s, "enqNormalize") \/ Goto("extract", s, "end")
      BY <1>2 DEF Extract
    <2> QED
      BY <1>1, <2>2, <2>3, <2>4 DEF Points
  <1>3. ASSUME NEW s \in Slots, ExtractEnqueues(s)
        PROVE  Still
    BY <1>1, <1>3 DEF ExtractEnqueues, Points, Analysed, row, proc
  <1>4. ASSUME NEW s \in Slots, NormalizeFails(s)
        PROVE  Still
    <2>1. \A d \in Docs : Analysed(d)' => Analysed(d)
      BY <1>4 DEF NormalizeFails, MarkFailed, Analysed, TypeOK, RowOK
    <2> QED
      BY <1>1, <1>4, <2>1 DEF NormalizeFails, MarkFailed, Points, proc
  <1>5. ASSUME NEW s \in Slots, NormalizeEnqueues(s)
        PROVE  Still
    BY <1>1, <1>5 DEF NormalizeEnqueues, Points, Analysed, row, proc
  <1>6. ASSUME NEW s \in Slots, ClassifyForClient(s)
        PROVE  Still
    <2> DEFINE r == run["classify"][s]
    <2>1. Canonical(r.doc) /\ r.doc \in Docs /\ r \in BusyRec
      BY <1>6, BusyType DEF ClassifyForClient, At, ElectionInv, ClassifyInv
    <2>2. \A d \in Docs : Analysed(d)' => Analysed(d) \/ d = r.doc
      BY <1>6 DEF ClassifyForClient, Analysed, TypeOK, RowOK
    <2>3. run'["classify"][s].doc = r.doc
      BY <1>6, <2>1 DEF ClassifyForClient, TypeOK, BusyRec
    <2>4. \A t \in Slots \ {s} : run'["classify"][t] = run["classify"][t]
      BY <1>6 DEF ClassifyForClient, TypeOK
    <2>5. run'["normalize"] = run["normalize"]
      BY <1>6 DEF ClassifyForClient, TypeOK
    <2> QED
      BY <1>6, <2>1, <2>2, <2>3, <2>4, <2>5 DEF ClassifyForClient, proc
  <1>7. ASSUME NEW s \in Slots, ClassifyError(s)
        PROVE  Still
    <2> DEFINE d == run["classify"][s].doc
    <2>1. Canonical(d)
      BY <1>7 DEF ClassifyError, At, ElectionInv, ClassifyInv
    <2>2. \A c \in Docs : Analysed(c)' => Analysed(c) \/ c = d
      BY <1>7 DEF ClassifyError, Analysed, TypeOK, RowOK
    <2> QED
      BY <1>1, <1>7, <2>1, <2>2 DEF ClassifyError, Points, proc
  <1>8. ASSUME NEW s \in Slots, MarkClassified(s)
        PROVE  Still
    <2> DEFINE d == run["classify"][s].doc
    <2>1. Canonical(d)
      BY <1>8 DEF MarkClassified, At, ElectionInv, ClassifyInv
    <2>2. \A c \in Docs : Analysed(c)' => Analysed(c) \/ c = d
      BY <1>8 DEF MarkClassified, Analysed, TypeOK, RowOK
    <2> QED
      BY <1>1, <1>8, <2>1, <2>2 DEF MarkClassified, Points, proc
  <1>9. ASSUME NEW q \in Queues, NEW s \in Slots, HandlerThrows(q, s)
        PROVE  Still
    BY <1>1, <1>9 DEF HandlerThrows, Points, Analysed, row, proc
  <1>10. ASSUME NEW q \in Queues, NEW s \in Slots, HandlerReturns(q, s) \/ HandlerRejects(q, s)
        PROVE  Still
    <2>1. /\ run' = [run EXCEPT ![q][s] = Idle]
          /\ UNCHANGED row
          /\ api' = api
      BY <1>10 DEF HandlerReturns, HandlerRejects, proc
    <2>3. \A e \in events' : e \in events \/ ~e.armed
      <3>1. CASE events' = events
        BY <3>1
      <3>2. CASE \E x : events' \subseteq events \cup {[q |-> q, doc |-> x, armed |-> FALSE]}
        BY <3>2
      <3>3. HandlerReturns(q, s) => events' = events
        BY DEF HandlerReturns, proc
      <3>4. HandlerRejects(q, s) =>
              \/ events' = events
              \/ events' \subseteq
                   events \cup {[q |-> q, doc |-> run[q][s].doc, armed |-> FALSE]}
        BY DEF HandlerRejects
      <3> QED
        BY <1>10, <3>1, <3>2, <3>3, <3>4
    <2>2. \A c \in {"normalize", "classify"}, t \in Slots :
            run'[c][t] = run[c][t] \/ run'[c][t].pc = "idle"
      BY <2>1 DEF TypeOK, Idle
    <2> QED
      BY <2>1, <2>2, <2>3 DEF Analysed, row
  <1>11. ASSUME NEW q \in Queues, NEW s \in Slots, NEW d \in Docs, Fetch(q, s, d)
        PROVE  Still
    <2> DEFINE r == [pc |-> Entry(q, d), doc |-> d, cand |-> None,
                     client |-> IF q = "classify" /\ NClients > 0 THEN 1 ELSE 0]
    <2>1. \A c \in {"normalize", "classify"}, t \in Slots :
            run'[c][t] = run[c][t] \/ (c = q /\ run'[c][t] = r)
      BY <1>11 DEF Fetch, TypeOK
    <2>2. r.pc # "dedup" /\ r.doc = d
      BY DEF Entry, ClassifyEntry
    <2>3. q = "classify" /\ r.pc \in {"client", "mark"} => Canonical(d)
      BY DEF Entry, ClassifyEntry, ElectionInv, AnalysedInv, Analysed
    <2> HIDE DEF r
    <2> QED
      BY <1>11, <2>1, <2>2, <2>3 DEF Fetch, Analysed, row, proc
  <1>12. ASSUME NEW e \in events, FailedReads(e)
        PROVE  Still
    <2>1. e \in Event
      BY DEF TypeOK, ProcOK
    <2> DEFINE f == [e EXCEPT !.armed = TRUE]
    <2>2. f.doc = e.doc /\ f.q = e.q
      BY <2>1 DEF Event
    <2>3. \A g \in events' :
            g \in events \/ (g = f /\ status[e.doc] \in HalfWay(e.q))
      BY <1>12 DEF FailedReads
    <2>4. e.q = "classify" /\ status[e.doc] \in HalfWay(e.q) => Canonical(e.doc)
      BY <2>1 DEF HalfWay, ElectionInv, AnalysedInv, Analysed, Event
    <2> HIDE DEF f
    <2>5. \A g \in events' : \/ g \in events
                            \/ ~(g.q = "classify" /\ g.armed)
                            \/ Canonical(g.doc)
      BY <2>2, <2>3, <2>4
    <2> QED
      BY <1>12, <2>5 DEF FailedReads, Analysed, row
  <1>13. ASSUME NEW e \in events, FailedWrites(e)
         PROVE  Still
    <2>1. e \in Event
      BY DEF TypeOK, ProcOK
    <2>2. e.q = "classify" => Canonical(e.doc)
      BY <1>13 DEF FailedWrites, ElectionInv, EventInv
    <2>3. \A d \in Docs : Analysed(d)' => Analysed(d) \/ (e.q = "classify" /\ d = e.doc)
      BY <1>13, <2>1 DEF FailedWrites, MarkFailed, Analysed, TypeOK, RowOK, Event
    <2>4. \A g \in events' : g \in events
      BY <1>13 DEF FailedWrites
    <2> QED
      BY <1>13, <2>2, <2>3, <2>4 DEF FailedWrites, MarkFailed
  <1>14. ASSUME NEW q \in Queues, NEW d \in Docs,
                StalledByCrash(q, d) \/ StalledWhileRunning(q, d)
         PROVE  Still
    <2>1. StalledCheck(q, d)
      BY <1>14 DEF StalledByCrash, StalledWhileRunning
    <2>2. events' \subseteq events \cup {[q |-> q, doc |-> d, armed |-> FALSE]}
      BY <2>1 DEF StalledCheck
    <2>3. \A e \in events' : e \in events \/ ~e.armed
      BY <2>2
    <2> QED
      BY <2>1, <2>3 DEF StalledCheck, Analysed, row
  <1>15. CASE Crash
    BY <1>15 DEF Crash, Analysed, Idle, row
  <1>16. CASE Restart \/ RecoverReads \/ \E r \in recov : RecoverRequeues(r)
    BY <1>16 DEF Restart, RecoverReads, RecoverRequeues, Analysed, row
  <1>17. ASSUME NEW d \in Docs, SaveRaw(d) \/ EnqueueDocumentExtract(d)
         PROVE  Still
    BY <1>17 DEF SaveRaw, EnqueueDocumentExtract, Analysed, row
  <1>18. ASSUME NEW d \in Docs, ClassifyRequest(d)
         PROVE  Still
    <2>1. \A r \in api' : r \in api \/ r = [op |-> "classify", doc |-> d]
      BY <1>18 DEF ClassifyRequest
    <2>2. RequestOK([op |-> "classify", doc |-> d])
      BY DEF RequestOK
    <2> QED
      BY <1>18, <2>1, <2>2 DEF ClassifyRequest, Analysed, row
  <1>19. ASSUME NEW d \in Docs
         PROVE  ~TriggerExtractResets(d) /\ ~Reprocess(d)
    <2>1. ~ [op |-> "reset", doc |-> d] \in api
      BY DEF ElectionInv, RequestInv, RequestOK
    <2> QED
      BY <2>1 DEF TriggerExtractResets, Reprocess
  <1>20. ASSUME NEW d \in Docs, TriggerClassifyReopens(d)
         PROVE  Still
    <2>1. Canonical(d)
      BY <1>20 DEF TriggerClassifyReopens, ElectionInv, RequestInv, RequestOK
    <2>2. \A c \in Docs : Analysed(c)' => Analysed(c) \/ c = d
      BY <1>20 DEF TriggerClassifyReopens, Analysed, TypeOK, RowOK
    <2>3. \A r \in api' : r \in api \/ r = [op |-> "classify", doc |-> d]
      BY <1>20 DEF TriggerClassifyReopens
    <2>4. RequestOK([op |-> "classify", doc |-> d])
      BY DEF RequestOK
    <2> QED
      BY <1>20, <2>1, <2>2, <2>3, <2>4 DEF TriggerClassifyReopens
  <1>21. CASE TriggerClassify
    <2>1. \A r \in ClassifyRequests : RequestOK(r)
      BY DEF ClassifyRequests, Request, RequestOK, DocumentNeedsClassify, IsClassifyFailure,
         ElectionInv, AnalysedInv, Analysed
    <2>2. \A r \in api' : r \in api \/ r \in ClassifyRequests
      BY <1>21 DEF TriggerClassify
    <2> QED
      BY <1>21, <2>1, <2>2 DEF TriggerClassify, Analysed, row
  <1>22. CASE RequestFails \/ \E r \in api : RequestEnqueues(r)
    <2>1. \A r \in api' : r \in api
      BY <1>22 DEF RequestFails, RequestEnqueues
    <2> QED
      BY <1>22, <2>1 DEF RequestFails, RequestEnqueues, Analysed, row
  <1>23. CASE UNCHANGED vars
    BY <1>23 DEF vars, Analysed
  <1>24. CASE System
    BY <1>24, <1>2, <1>3, <1>4, <1>5, <1>6, <1>7, <1>8, <1>10, <1>11, <1>12, <1>13, <1>14,
       <1>16, <1>17, <1>19, <1>20, <1>22
    DEF System, Handler
  <1>25. CASE Environment
    <2>1. ~TriggerExtract
      BY DEF TriggerExtract
    <2> QED
      BY <1>25, <2>1, <1>9, <1>14, <1>15, <1>17, <1>18, <1>19, <1>21, <1>22
      DEF Environment
  <1> QED
    BY <1>23, <1>24, <1>25 DEF Next

\* The steps of a normalize handler that elect a document or find its canonical.
LEMMA NormalizeSteps ==
  ASSUME TypeOK, ElectionInv, NEW s \in Slots,
         \/ NormalizeFind(s) \/ NormalizeClaim(s)
         \/ NormalizeWinner(s) \/ NormalizeDedup(s)
  PROVE  ElectionInv'
  <1> DEFINE r == run["normalize"][s]
             d == r.doc
  <1> USE DEF Queues
  <1>1. r \in BusyRec /\ d \in Docs
    BY BusyType DEF NormalizeFind, NormalizeClaim, NormalizeWinner, NormalizeDedup, At
  <1>2. TextOf[d] \in Texts /\ TextOf[d] # None
    BY <1>1, PipelineAssumption
  <1>3. /\ run'["classify"] = run["classify"]
        /\ \A t \in Slots \ {s} : run'["normalize"][t] = run["normalize"][t]
    <2>1. run \in [Queues -> [Slots -> RunRec]]
      BY DEF TypeOK
    <2>2. PICK f : run' = [run EXCEPT !["normalize"][s] = f]
      BY DEF NormalizeFind, NormalizeClaim, NormalizeWinner, NormalizeDedup, TakeCanonical,
         Goto
    <2> QED
      BY <2>1, <2>2
  <1>4. events' = events /\ api' = api
    BY DEF NormalizeFind, NormalizeClaim, NormalizeWinner, NormalizeDedup, proc
  <1>5. \A pc \in Points : Goto("normalize", s, pc) =>
          run'["normalize"][s].pc = pc /\ run'["normalize"][s].doc = d
    BY <1>1 DEF Goto, TypeOK, BusyRec
  <1>6. ASSUME NEW c \in Holders(d), TakeCanonical(s, c), UNCHANGED row
        PROVE  ElectionInv'
    <2>1. c \in Docs /\ c # d /\ hash[c] = TextOf[d] /\ canon[c] = None
      BY <1>6 DEF Holders
    <2>2. Canonical(c) /\ TextOf[c] = TextOf[d]
      BY <1>2, <2>1 DEF ElectionInv, HashInv, Canonical
    <2>3. run'["normalize"][s].cand = c /\ run'["normalize"][s].doc = d
      BY <1>1, <1>6 DEF TakeCanonical, TypeOK, BusyRec
    <2>4. \A x : Canonical(x)' = Canonical(x)
      BY <1>6 DEF row, Canonical
    <2>5. CandidateInv'
      BY <1>3, <2>1, <2>2, <2>3, <2>4 DEF ElectionInv, CandidateInv
    <2>6. ClassifyInv' /\ EventInv' /\ RequestInv'
      BY <1>3, <1>4, <2>4
      DEF ElectionInv, ClassifyInv, EventInv, RequestInv, RequestOK
    <2>7. HashInv' /\ UniqueInv' /\ DuplicateInv' /\ AnalysedInv'
      BY <1>6, <2>4
      DEF row, ElectionInv, HashInv, UniqueInv, DuplicateInv, AnalysedInv, Analysed
    <2> QED
      BY <2>5, <2>6, <2>7 DEF ElectionInv
  <1>7. ASSUME NEW pc \in {"claim", "winner", "end"}, Goto("normalize", s, pc),
               hash' = hash, canon' = canon, \A x \in Docs : Analysed(x)' => Analysed(x)
        PROVE  ElectionInv'
    <2>1. \A t \in Slots : run'["normalize"][t] = run["normalize"][t]
                          \/ run'["normalize"][t].pc # "dedup"
      BY <1>3, <1>5, <1>7 DEF Points
    <2>2. Still
      BY <1>3, <1>4, <1>7, <2>1 DEF Still
    <2> QED
      BY <2>2, StillKeepsElectionInv
  <1>8. CASE NormalizeFind(s)
    <2>1. CASE Goto("normalize", s, "claim") /\ UNCHANGED row
      BY <1>7, <2>1 DEF row, Analysed
    <2>2. CASE UNCHANGED row /\ \E c \in Holders(d) : TakeCanonical(s, c)
      BY <1>6, <2>2
    <2> QED
      BY <1>8, <2>1, <2>2 DEF NormalizeFind
  <1>9. CASE NormalizeWinner(s)
    <2>1. CASE Goto("normalize", s, "end") /\ MarkFailed(d, "pipeline")
      <3>1. \A x \in Docs : Analysed(x)' => Analysed(x)
        BY <2>1 DEF MarkFailed, Analysed, TypeOK, RowOK
      <3> QED
        BY <1>7, <2>1, <3>1 DEF MarkFailed
    <2>2. CASE UNCHANGED row /\ \E c \in Holders(d) : TakeCanonical(s, c)
      BY <1>6, <2>2
    <2> QED
      BY <1>9, <2>1, <2>2 DEF NormalizeWinner
  <1>10. CASE NormalizeClaim(s)
    <2>1. CASE Goto("normalize", s, "winner") /\ UNCHANGED row
      BY <1>7, <2>1 DEF row, Analysed
    <2>2. ASSUME Holders(d) = {},
                 status' = [status EXCEPT ![d] = "READY_FOR_AI"],
                 hash' = [hash EXCEPT ![d] = TextOf[d]],
                 canon' = [canon EXCEPT ![d] = None],
                 lastError' = [lastError EXCEPT ![d] = "none"],
                 findings' = findings,
                 Goto("normalize", s, "enqClassify")
          PROVE  ElectionInv'
      <3>1. \A x \in Docs : hash'[x] = IF x = d THEN TextOf[d] ELSE hash[x]
        BY <2>2 DEF TypeOK, RowOK
      <3>2. \A x \in Docs : canon'[x] = IF x = d THEN None ELSE canon[x]
        BY <2>2 DEF TypeOK, RowOK
      <3>3. \A x \in Docs : Canonical(x)' <=> x = d \/ Canonical(x)
        BY <3>1, <3>2 DEF Canonical
      <3>4. \A x \in Docs : Canonical(x) /\ TextOf[x] = TextOf[d] => x = d
        BY <2>2 DEF Holders, Canonical
      <3>5. HashInv' /\ UniqueInv'
        BY <3>1, <3>3, <3>4 DEF ElectionInv, HashInv, UniqueInv
      <3>6. DuplicateInv'
        <4> SUFFICES ASSUME NEW x \in Docs, canon'[x] # None
                     PROVE  /\ hash'[x] = TextOf[x]
                            /\ hash'[canon'[x]] = TextOf[canon'[x]]
                            /\ canon'[canon'[x]] = None
                            /\ TextOf[canon'[x]] = TextOf[x]
          BY DEF DuplicateInv, Canonical
        <4>1. x # d /\ canon'[x] = canon[x] /\ hash'[x] = hash[x]
          BY <3>1, <3>2
        <4>2. hash[x] = TextOf[x] /\ Canonical(canon[x]) /\ TextOf[canon[x]] = TextOf[x]
          BY <4>1 DEF ElectionInv, DuplicateInv
        <4>3. canon[x] \in Docs
          BY <4>1 DEF TypeOK, RowOK
        <4> QED
          BY <3>1, <3>2, <4>1, <4>2, <4>3 DEF Canonical
      <3>7. CandidateInv'
        <4>1. run'["normalize"][s].pc # "dedup"
          BY <1>5, <2>2 DEF Points
        <4> QED
          BY <1>3, <3>3, <4>1 DEF ElectionInv, CandidateInv
      <3>8. ClassifyInv'
        <4>1. \A t \in Slots : run["classify"][t].pc \in {"client", "mark"} =>
                                 run["classify"][t].doc \in Docs
          BY BusyType
        <4> QED
          BY <1>3, <3>3, <4>1 DEF ElectionInv, ClassifyInv
      <3>9. AnalysedInv'
        <4>1. \A x \in Docs \ {d} : Analysed(x)' = Analysed(x)
          BY <2>2 DEF Analysed, TypeOK, RowOK
        <4> QED
          BY <3>3, <4>1 DEF ElectionInv, AnalysedInv
      <3>10. EventInv' /\ RequestInv'
        <4>1. /\ \A e \in events : e.doc \in Docs
              /\ \A q \in api : q.doc \in Docs
          BY DEF TypeOK, ProcOK, Event, Request
        <4> QED
          BY <1>4, <3>3, <4>1 DEF ElectionInv, EventInv, RequestInv, RequestOK
      <3> QED
        BY <3>5, <3>6, <3>7, <3>8, <3>9, <3>10 DEF ElectionInv
    <2> QED
      BY <1>10, <2>1, <2>2 DEF NormalizeClaim
  <1>11. CASE NormalizeDedup(s)
    <2> DEFINE c == r.cand
    <2>1. c \in Docs /\ Canonical(c) /\ TextOf[c] = TextOf[d] /\ c # d
      BY <1>11 DEF NormalizeDedup, At, ElectionInv, CandidateInv
    <2>2. ~Canonical(d)
      BY <1>1, <2>1 DEF ElectionInv, UniqueInv
    <2>3. \A x \in Docs : hash'[x] = IF x = d THEN TextOf[d] ELSE hash[x]
      BY <1>11 DEF NormalizeDedup, TypeOK, RowOK
    <2>4. \A x \in Docs : canon'[x] = IF x = d THEN c ELSE canon[x]
      BY <1>11 DEF NormalizeDedup, TypeOK, RowOK
    <2>5. c # None
      BY <2>1, PipelineAssumption
    <2>6. \A x \in Docs : Canonical(x)' <=> Canonical(x)
      BY <2>2, <2>3, <2>4, <2>5 DEF Canonical
    <2>7. HashInv' /\ UniqueInv'
      BY <2>3, <2>6 DEF ElectionInv, HashInv, UniqueInv
    <2>8. DuplicateInv'
      <3> SUFFICES ASSUME NEW x \in Docs, canon'[x] # None
                   PROVE  /\ hash'[x] = TextOf[x]
                          /\ hash'[canon'[x]] = TextOf[canon'[x]]
                          /\ canon'[canon'[x]] = None
                          /\ TextOf[canon'[x]] = TextOf[x]
        BY DEF DuplicateInv, Canonical
      <3> DEFINE y == canon'[x]
      <3>1. hash'[x] = TextOf[x] /\ y \in Docs /\ Canonical(y) /\ TextOf[y] = TextOf[x]
        BY <2>1, <2>3, <2>4 DEF ElectionInv, DuplicateInv, TypeOK, RowOK
      <3> QED
        BY <2>2, <2>3, <2>4, <3>1 DEF Canonical
    <2>9. CandidateInv'
      <3>1. run'["normalize"][s].pc # "dedup"
        BY <1>5, <1>11 DEF NormalizeDedup, Points
      <3> QED
        BY <1>3, <2>6, <3>1 DEF ElectionInv, CandidateInv
    <2>10. ClassifyInv'
      <3>1. \A t \in Slots : run["classify"][t].pc \in {"client", "mark"} =>
                               run["classify"][t].doc \in Docs
        BY BusyType
      <3> QED
        BY <1>3, <2>6, <3>1 DEF ElectionInv, ClassifyInv
    <2>11. AnalysedInv'
      <3>1. \A x \in Docs : Analysed(x)' => Analysed(x)
        BY <1>11 DEF NormalizeDedup, Analysed, TypeOK, RowOK
      <3> QED
        BY <2>6, <3>1 DEF ElectionInv, AnalysedInv
    <2>12. EventInv' /\ RequestInv'
      <3>1. /\ \A e \in events : e.doc \in Docs
            /\ \A q \in api : q.doc \in Docs
        BY DEF TypeOK, ProcOK, Event, Request
      <3> QED
        BY <1>4, <2>6, <3>1 DEF ElectionInv, EventInv, RequestInv, RequestOK
    <2> QED
      BY <2>7, <2>8, <2>9, <2>10, <2>11, <2>12 DEF ElectionInv
  <1> QED
    BY <1>8, <1>9, <1>10, <1>11

LEMMA NextElectionIInv == TypeOK /\ ElectionIInv /\ [Next]_vars => ElectionIInv'
  <1> SUFFICES ASSUME TypeOK, ElectionIInv, [Next]_vars, NoReset'
               PROVE  ElectionInv'
    BY NextBudgetInv DEF ElectionIInv
  <1>1. ElectionInv /\ ~Spend("reset")
    BY NextBudgetInv DEF ElectionIInv
  <1> QED
    BY <1>1, NormalizeSteps, StillSteps, StillKeepsElectionInv

\* The inductive invariant of the election.
THEOREM ElectionSafety == Spec => []ElectionIInv
  <1>1. Init => ElectionIInv
    <2> SUFFICES ASSUME Init PROVE BudgetInv /\ ElectionInv
      BY DEF ElectionIInv
    <2>1. BudgetInv
      BY PipelineAssumption DEF Init, BudgetInv
    <2>2. HashInv /\ DuplicateInv
      BY DEF Init, HashInv, DuplicateInv
    <2>3. \A d \in Docs : ~Canonical(d) /\ ~Analysed(d)
      BY PipelineAssumption DEF Init, Canonical, Analysed
    <2>4. UniqueInv /\ AnalysedInv
      BY <2>3 DEF UniqueInv, AnalysedInv
    <2>5. CandidateInv /\ ClassifyInv
      BY DEF Init, CandidateInv, ClassifyInv, Idle, Queues
    <2>6. EventInv /\ RequestInv
      BY DEF Init, EventInv, RequestInv
    <2> QED
      BY <2>1, <2>2, <2>4, <2>5, <2>6 DEF ElectionInv
  <1> QED
    BY <1>1, NextElectionIInv, TypeSafety, PTL DEF Spec

\* As long as nobody resets a row, normalizeDedup builds neither chains nor cycles of
\* duplicates: for any number of documents, of concurrent handlers, of crashes, of stalls.
THEOREM NoDedupChains == Spec => []DedupPointsAtCanonical
  <1>1. TypeOK /\ ElectionIInv => DedupPointsAtCanonical
    <2> SUFFICES ASSUME TypeOK, ElectionIInv, NoReset, NEW d \in Docs, canon[d] # None
                 PROVE  canon[canon[d]] = None /\ hash[canon[d]] = hash[d]
      BY DEF DedupPointsAtCanonical, NoReset
    <2> QED
      BY DEF ElectionIInv, ElectionInv, DuplicateInv, Canonical
  <1> QED
    BY <1>1, ElectionSafety, TypeSafety, PTL

\* As long as nobody resets a row, at most one of the documents that hold one content is
\* analysed, for any number of them.
THEOREM OneAnalysis == Spec => []OneAnalysisPerText
  <1>1. ElectionIInv => OneAnalysisPerText
    <2> SUFFICES ASSUME ElectionIInv, NoReset, NEW d \in Docs, NEW e \in Docs, d # e,
                        TextOf[d] = TextOf[e], findings[d] # {}, findings[e] # {}
                 PROVE  FALSE
      BY DEF OneAnalysisPerText, NoReset
    <2>1. Canonical(d) /\ Canonical(e)
      BY DEF ElectionIInv, ElectionInv, AnalysedInv, Analysed
    <2> QED
      BY <2>1 DEF ElectionIInv, ElectionInv, UniqueInv
  <1> QED
    BY <1>1, ElectionSafety, PTL
-----------------------------------------------------------------------------
(* The pipeline implements ContentElection as long as nobody resets a row. *)

\* HolderOf chooses the only document there is to choose.
LEMMA OnlyChoice ==
  ASSUME NEW h, NEW k, NEW t, NEW c \in Docs, h[c] = t, k[c] = None,
         \A x \in Docs : h[x] = t /\ k[x] = None => x = c
  PROVE  (IF \E x \in Docs : h[x] = t /\ k[x] = None
          THEN CHOOSE x \in Docs : h[x] = t /\ k[x] = None
          ELSE None) = c
  OBVIOUS

\* The holder of a content is its canonical document.
LEMMA HolderIsCanonical ==
  ASSUME ElectionInv, NEW d \in Docs, Canonical(d)
  PROVE  HolderOf(TextOf[d]) = d
  <1>1. ASSUME NEW x \in Docs, hash[x] = TextOf[d], canon[x] = None
        PROVE  x = d
    <2>1. Canonical(x) /\ TextOf[x] = TextOf[d]
      BY <1>1, PipelineAssumption DEF ElectionInv, HashInv, Canonical
    <2> QED
      BY <2>1 DEF ElectionInv, UniqueInv
  <1> QED
    BY <1>1, OnlyChoice DEF HolderOf, Canonical

\* Findings are written by a classify handler, and by nobody else.
LEMMA FindingsSteps ==
  ASSUME [Next]_vars, ~ \E s \in Slots : ClassifyForClient(s)
  PROVE  findings' = findings
  <1>1. CASE System
    <2>1. ASSUME NEW s \in Slots, Handler(s)
          PROVE  findings' = findings
      <3>1. CASE Extract(s) \/ ExtractEnqueues(s)
        BY <3>1 DEF Extract, ExtractEnqueues, MarkFailed, row
      <3>2. CASE \/ NormalizeFind(s) \/ NormalizeClaim(s) \/ NormalizeWinner(s)
                 \/ NormalizeDedup(s) \/ NormalizeFails(s) \/ NormalizeEnqueues(s)
        BY <3>2 DEF NormalizeFind, NormalizeClaim, NormalizeWinner, NormalizeDedup,
           NormalizeFails, NormalizeEnqueues, MarkFailed, row
      <3>3. CASE ClassifyError(s) \/ MarkClassified(s)
        BY <3>3 DEF ClassifyError, MarkClassified, MarkFailed, row
      <3> QED
        BY <2>1, <3>1, <3>2, <3>3 DEF Handler
    <2>2. ASSUME NEW q \in Queues, NEW s \in Slots,
                 \/ HandlerReturns(q, s) \/ HandlerRejects(q, s)
                 \/ \E d \in Docs : Fetch(q, s, d)
          PROVE  findings' = findings
      BY <2>2 DEF HandlerReturns, HandlerRejects, Fetch, row
    <2>3. ASSUME NEW e \in events, FailedReads(e) \/ FailedWrites(e)
          PROVE  findings' = findings
      BY <2>3 DEF FailedReads, FailedWrites, MarkFailed, row
    <2>4. ASSUME NEW q \in Queues, NEW d \in Docs, StalledByCrash(q, d)
          PROVE  findings' = findings
      BY <2>4 DEF StalledByCrash, StalledCheck, row
    <2>5. CASE Restart \/ RecoverReads \/ \E r \in recov : RecoverRequeues(r)
      BY <2>5 DEF Restart, RecoverReads, RecoverRequeues, row
    <2>6. ASSUME NEW d \in Docs,
                 \/ EnqueueDocumentExtract(d) \/ TriggerExtractResets(d)
                 \/ TriggerClassifyReopens(d)
          PROVE  findings' = findings
      BY <2>6
      DEF EnqueueDocumentExtract, TriggerExtractResets, TriggerClassifyReopens, ResetRow, row
    <2>7. ASSUME NEW r \in api, RequestEnqueues(r)
          PROVE  findings' = findings
      BY <2>7 DEF RequestEnqueues, row
    <2> QED
      BY <1>1, <2>1, <2>2, <2>3, <2>4, <2>5, <2>6, <2>7 DEF System
  <1>2. CASE Environment
    BY <1>2 DEF Environment, HandlerThrows, StalledWhileRunning, StalledCheck, Crash,
       SaveRaw, Reprocess, ResetRow, ClassifyRequest, TriggerExtract, TriggerClassify,
       RequestFails, row
  <1>3. CASE UNCHANGED vars
    BY <1>3 DEF vars
  <1> QED
    BY <1>1, <1>2, <1>3 DEF Next

ElectionVars == <<[t \in Texts |-> HolderOf(t)], canon, findings>>

\* A step that does not touch hashes, canonicals and findings is a stutter.
LEMMA StutterStep ==
  ASSUME hash' = hash, canon' = canon, findings' = findings
  PROVE  UNCHANGED ElectionVars
  BY DEF ElectionVars, HolderOf

\* The update to READY_FOR_AI elects the document, unless it was elected already.
LEMMA ClaimElects ==
  ASSUME TypeOK, ElectionInv, NEW s \in Slots, NormalizeClaim(s)
  PROVE  UNCHANGED ElectionVars \/ \E d \in Docs : Election!Elect(d)
  <1>1. PICK d \in Docs : d = run["normalize"][s].doc
    BY BusyType DEF NormalizeClaim, At, Queues
  <1>2. CASE UNCHANGED row
    BY <1>2, StutterStep DEF row
  <1>3. ASSUME Holders(d) = {},
               hash' = [hash EXCEPT ![d] = TextOf[d]],
               canon' = [canon EXCEPT ![d] = None],
               findings' = findings
        PROVE  UNCHANGED ElectionVars \/ Election!Elect(d)
    <2>1. canon[d] = None
      <3>1. SUFFICES ASSUME canon[d] # None PROVE FALSE
        OBVIOUS
      <3>2. canon[d] \in Docs /\ Canonical(canon[d]) /\ TextOf[canon[d]] = TextOf[d]
        BY <1>1, <3>1 DEF ElectionInv, DuplicateInv, TypeOK, RowOK
      <3>3. canon[d] \in Holders(d)
        BY <3>1, <3>2 DEF Holders, Canonical
      <3> QED
        BY <1>3, <3>3
    <2>2. canon' = canon
      BY <1>1, <1>3, <2>1 DEF TypeOK, RowOK
    <2>3. CASE hash[d] = TextOf[d]
      <3>1. hash' = hash
        BY <1>1, <1>3, <2>3 DEF TypeOK, RowOK
      <3> QED
        BY <1>3, <2>2, <3>1, StutterStep
    <2>4. CASE hash[d] # TextOf[d]
      <3>1. \A x \in Docs : hash'[x] = IF x = d THEN TextOf[d] ELSE hash[x]
        BY <1>3 DEF TypeOK, RowOK
      <3>2. HolderOf(TextOf[d]) = None
        BY <1>3, <2>4 DEF HolderOf, Holders
      <3>3. HolderOf(TextOf[d])' = d
        <4>1. \A x \in Docs : hash'[x] = TextOf[d] /\ canon'[x] = None => x = d
          BY <1>3, <2>2, <3>1 DEF Holders
        <4>2. hash'[d] = TextOf[d] /\ canon'[d] = None
          BY <2>1, <2>2, <3>1
        <4>3. (IF \E x \in Docs : hash'[x] = TextOf[d] /\ canon'[x] = None
               THEN CHOOSE x \in Docs : hash'[x] = TextOf[d] /\ canon'[x] = None
               ELSE None) = d
          BY <4>1, <4>2, OnlyChoice
        <4> QED
          BY <4>3 DEF HolderOf
      <3>4. hash[d] = None
        BY <1>1, <2>4 DEF ElectionInv, HashInv
      <3>5. \A t \in Texts : t # TextOf[d] => HolderOf(t)' = HolderOf(t)
        <4> SUFFICES ASSUME NEW t \in Texts, t # TextOf[d]
                     PROVE  HolderOf(t)' = HolderOf(t)
          OBVIOUS
        <4>1. \A x \in Docs : (hash'[x] = t /\ canon'[x] = None)
                                <=> (hash[x] = t /\ canon[x] = None)
          BY <2>2, <3>1, <3>4, PipelineAssumption
        <4>2. (CHOOSE x \in Docs : hash'[x] = t /\ canon'[x] = None)
                = (CHOOSE x \in Docs : hash[x] = t /\ canon[x] = None)
          BY <4>1
        <4> QED
          BY <4>1, <4>2 DEF HolderOf
      <3>6. [t \in Texts |-> HolderOf(t)']
              = [[t \in Texts |-> HolderOf(t)] EXCEPT ![TextOf[d]] = d]
        BY <3>3, <3>5
      <3>7. TextOf[d] \in Texts
        BY <1>1, PipelineAssumption
      <3> QED
        BY <1>3, <2>1, <2>2, <3>2, <3>6, <3>7 DEF Election!Elect
    <2> QED
      BY <2>3, <2>4
  <1> QED
    BY <1>1, <1>2, <1>3 DEF NormalizeClaim

\* The update to DEDUPED makes the document a duplicate of the elected one.
LEMMA DedupDeduplicates ==
  ASSUME TypeOK, ElectionInv, NEW s \in Slots, NormalizeDedup(s)
  PROVE  \E d \in Docs : Election!Deduplicate(d)
  <1> DEFINE d == run["normalize"][s].doc
             c == run["normalize"][s].cand
  <1>1. d \in Docs
    BY BusyType DEF NormalizeDedup, At, Queues
  <1>2. c \in Docs /\ Canonical(c) /\ TextOf[c] = TextOf[d] /\ c # d
    BY DEF NormalizeDedup, At, ElectionInv, CandidateInv
  <1>3. HolderOf(TextOf[d]) = c
    BY <1>2, HolderIsCanonical
  <1>4. ~Canonical(d)
    BY <1>1, <1>2 DEF ElectionInv, UniqueInv
  <1>5. \A x \in Docs : /\ hash'[x] = IF x = d THEN TextOf[d] ELSE hash[x]
                        /\ canon'[x] = IF x = d THEN c ELSE canon[x]
    BY DEF NormalizeDedup, TypeOK, RowOK
  <1>6. c # None
    BY <1>2, PipelineAssumption
  <1>7. \A t \in Texts : HolderOf(t)' = HolderOf(t)
    <2> SUFFICES ASSUME NEW t \in Texts
                 PROVE  HolderOf(t)' = HolderOf(t)
      OBVIOUS
    <2>1. \A x \in Docs : (hash'[x] = t /\ canon'[x] = None)
                            <=> (hash[x] = t /\ canon[x] = None)
      <3>1. ~(hash[d] = t /\ canon[d] = None)
        BY <1>1, <1>4, PipelineAssumption DEF ElectionInv, HashInv, Canonical
      <3> QED
        BY <1>5, <1>6, <3>1
    <2>2. (CHOOSE x \in Docs : hash'[x] = t /\ canon'[x] = None)
            = (CHOOSE x \in Docs : hash[x] = t /\ canon[x] = None)
      BY <2>1
    <2> QED
      BY <2>1, <2>2 DEF HolderOf
  <1>8. TextOf[d] \in Texts
    BY <1>1, PipelineAssumption
  <1>9. /\ canon' = [canon EXCEPT ![d] = c]
        /\ findings' = findings
    BY DEF NormalizeDedup
  <1> QED
    BY <1>1, <1>2, <1>3, <1>6, <1>7, <1>8, <1>9 DEF Election!Deduplicate

\* The upsert of a finding analyses the elected document for one client.
LEMMA FindingAnalyses ==
  ASSUME TypeOK, ElectionInv, NEW s \in Slots, ClassifyForClient(s)
  PROVE  \E d \in Docs, c \in Clients : Election!Analyse(d, c)
  <1> DEFINE r == run["classify"][s]
  <1>1. r \in BusyRec /\ r.doc \in Docs /\ r.client \in Clients
    BY BusyType DEF ClassifyForClient, At, Queues, BusyRec
  <1>2. Canonical(r.doc)
    BY DEF ClassifyForClient, At, ElectionInv, ClassifyInv
  <1>3. HolderOf(TextOf[r.doc]) = r.doc
    BY <1>1, <1>2, HolderIsCanonical
  <1>4. TextOf[r.doc] \in Texts
    BY <1>1, PipelineAssumption
  <1>5. hash' = hash /\ canon' = canon
        /\ findings' = [findings EXCEPT ![r.doc] = @ \cup {r.client}]
    BY DEF ClassifyForClient
  <1>6. [t \in Texts |-> HolderOf(t)]' = [t \in Texts |-> HolderOf(t)]
    BY <1>5 DEF HolderOf
  <1> QED
    BY <1>1, <1>3, <1>4, <1>5, <1>6 DEF Election!Analyse

\* With no resets the documents of a content elect one of them once and for all, and no
\* other is ever analysed: the three queues, their retries, stalls and crashes implement
\* ContentElection.
THEOREM PipelineImplementsElection ==
  ASSUME Budget["reset"] = 0
  PROVE  Spec => ImplementsElection
  <1>1. Init => Election!Init
    BY PipelineAssumption DEF Init, Election!Init, HolderOf
  <1>2. TypeOK /\ ElectionIInv => ElectionInv
    BY PipelineAssumption DEF ElectionIInv, BudgetInv, NoReset, Unspent, TypeOK, Kinds, Acts
  <1>3. ASSUME TypeOK, ElectionInv, BudgetInv, [Next]_vars
        PROVE  [Election!Next]_(Election!vars)
    <2>1. ~Spend("reset")
      BY <1>3, PipelineAssumption DEF BudgetInv, Spend, TypeOK, Kinds, Acts
    <2>2. ASSUME NEW s \in Slots, ClassifyForClient(s)
          PROVE  [Election!Next]_(Election!vars)
      BY <1>3, <2>2, FindingAnalyses DEF Election!Next
    <2>3. ASSUME NEW s \in Slots, NormalizeClaim(s)
          PROVE  [Election!Next]_(Election!vars)
      BY <1>3, <2>3, ClaimElects DEF Election!Next, Election!vars, ElectionVars
    <2>4. ASSUME NEW s \in Slots, NormalizeDedup(s)
          PROVE  [Election!Next]_(Election!vars)
      BY <1>3, <2>4, DedupDeduplicates DEF Election!Next
    <2>5. ASSUME hash' = hash, canon' = canon, findings' = findings
          PROVE  [Election!Next]_(Election!vars)
      BY <2>5, StutterStep DEF Election!vars, ElectionVars
    <2>6. ASSUME NEW s \in Slots, NormalizeFind(s) \/ NormalizeWinner(s)
          PROVE  [Election!Next]_(Election!vars)
      BY <2>5, <2>6 DEF NormalizeFind, NormalizeWinner, MarkFailed, row
    <2>7. CASE /\ ~ \E s \in Slots : ClassifyForClient(s)
               /\ ~ \E s \in Slots : \/ NormalizeFind(s) \/ NormalizeClaim(s)
                                     \/ NormalizeWinner(s) \/ NormalizeDedup(s)
      BY <1>3, <2>1, <2>5, <2>7, StillSteps, FindingsSteps DEF Still
    <2> QED
      BY <2>2, <2>3, <2>4, <2>6, <2>7
  <1>4. TypeOK /\ ElectionIInv /\ [Next]_vars => [Election!Next]_(Election!vars)
    BY <1>2, <1>3 DEF ElectionIInv
  <1> QED
    BY <1>1, <1>4, TypeSafety, ElectionSafety, PTL
    DEF Spec, ImplementsElection, Election!Spec
=============================================================================
