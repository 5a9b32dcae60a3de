-------------------------- MODULE CrawlJobs_proofs --------------------------
(***************************************************************************)
(* Theorems about CrawlJobs, for any handlers, calls, attempts and budgets *)
(* of the environment: its types, and that no run of a crawl is left in    *)
(* progress when nothing runs any more.                                    *)
(***************************************************************************)
EXTENDS CrawlJobs, TLAPS

-----------------------------------------------------------------------------
(* Types.                                                                  *)

LEMMA NoJobType ==
  /\ NoJob \in JobRec
  /\ [NoJob EXCEPT !.st = "finished"] \in JobRec
  /\ [NoJob EXCEPT !.st = "waiting"] \in JobRec
  BY CrawlAssumption DEF NoJob, JobRec

LEMMA InitTypeOK == Init => TypeOK
  <1> SUFFICES ASSUME Init PROVE TypeOK
    OBVIOUS
  <1>1. job \in [Keys -> JobRec]
    BY NoJobType DEF Init
  <1>2. run \in [Slots -> RunRec] /\ call \in [Callers -> CallRec]
    BY DEF Init, RunRec, CallRec
  <1>3. budget \in [Kinds -> Nat]
    BY CrawlAssumption DEF Init
  <1> QED
    BY <1>1, <1>2, <1>3 DEF Init, TypeOK, Keys, Statuses

\* What spending leaves: a budget that is nowhere larger, and smaller for its kind.
LEMMA SpendIs ==
  ASSUME TypeOK, NEW kind \in Acts, Spend(kind)
  PROVE  /\ budget' \in [Kinds -> Nat]
         /\ \A a \in Acts : budget'[a] <= budget[a]
         /\ budget'[kind] < budget[kind]
  BY DEF TypeOK, Spend, Kinds, Acts

LEMMA BusyRun ==
  ASSUME TypeOK, NEW s \in Slots, ~At(s, "idle")
  PROVE  /\ run[s] \in [pc: {"running", "source", "crawl", "throw", "reject", "end"}, key: Keys]
         /\ run[s].key \in Keys
  BY DEF TypeOK, RunRec, IdleSlot, At

LEMMA GotoType ==
  ASSUME TypeOK, NEW s \in Slots, ~At(s, "idle"),
         NEW pc \in {"running", "source", "crawl", "throw", "reject", "end"}, Goto(s, pc)
  PROVE  run' \in [Slots -> RunRec]
  <1>1. [run[s] EXCEPT !.pc = pc] \in RunRec
    BY BusyRun DEF RunRec
  <1> QED
    BY <1>1 DEF TypeOK, Goto

LEMMA BusyCall ==
  ASSUME TypeOK, NEW c \in Callers, ~CallAt(c, "idle")
  PROVE  call[c] \in [pc: {"existing", "redis", "remove", "write", "add"},
                      existing: (Statuses \ Completed) \cup {None}]
  BY DEF TypeOK, CallRec, IdleCall, CallAt

LEMMA CallTypes ==
  ASSUME TypeOK, NEW c \in Callers
  PROVE  /\ Return(c) => call' \in [Callers -> CallRec]
         /\ \A pc \in {"existing", "redis", "remove", "write", "add"} :
              CallGoto(c, pc) => call' \in [Callers -> CallRec]
  <1>1. IdleCall \in CallRec
    BY DEF CallRec
  <1>2. ASSUME NEW pc \in {"existing", "redis", "remove", "write", "add"}
        PROVE  [call[c] EXCEPT !.pc = pc] \in CallRec
    <2>1. CASE CallAt(c, "idle")
      BY <2>1 DEF TypeOK, CallAt, CallRec, IdleCall
    <2>2. CASE ~CallAt(c, "idle")
      BY <2>2, BusyCall DEF CallRec
    <2> QED
      BY <2>1, <2>2
  <1> QED
    BY <1>1, <1>2 DEF TypeOK, Return, CallGoto

LEMMA ProducerTypes ==
  ASSUME TypeOK, NEW c \in Callers, EnqueueSource(c) \/ Producer(c) \/ CallFails(c)
  PROVE  TypeOK'
  <1> DEFINE k == KeyOf[c]
  <1>1. k \in Keys
    BY CrawlAssumption
  <1>2. CASE EnqueueSource(c)
    BY <1>2, CallTypes DEF EnqueueSource, TypeOK, worker
  <1>3. CASE ReadExisting(c)
    <2>1. CASE status[k] \in Completed
      BY <1>3, <2>1 DEF ReadExisting, TypeOK, worker, CallRec
    <2>2. CASE status[k] \notin Completed
      <3>1. call[c] \in [pc: {"existing", "redis", "remove", "write", "add"},
                         existing: (Statuses \ Completed) \cup {None}]
        BY <1>3, BusyCall DEF ReadExisting, CallAt
      <3>2. status[k] \in (Statuses \ Completed) \cup {None}
        BY <1>1, <2>2 DEF TypeOK
      <3>3. [call[c] EXCEPT !.pc = "redis", !.existing = status[k]] \in CallRec
        BY <3>1, <3>2 DEF CallRec
      <3> QED
        BY <1>3, <2>2, <3>3 DEF ReadExisting, TypeOK, worker
    <2> QED
      BY <2>1, <2>2
  <1>4. CASE ReadRedis(c)
    BY <1>4, CallTypes DEF ReadRedis, TypeOK, worker
  <1>5. CASE RemoveStaleJob(c)
    BY <1>1, <1>5, CallTypes, NoJobType DEF RemoveStaleJob, TypeOK, worker
  <1>6. CASE WriteRun(c)
    BY <1>1, <1>6, CallTypes DEF WriteRun, TypeOK, worker, Statuses, InProgress
  <1>7. CASE AddJob(c)
    BY <1>1, <1>7, CallTypes, NoJobType DEF AddJob, TypeOK, worker
  <1>8. CASE CallFails(c)
    <2>1. budget' \in [Kinds -> Nat]
      BY <1>8, SpendIs DEF CallFails, Acts
    <2> QED
      BY <1>1, <1>8, <2>1, CallTypes DEF CallFails, TypeOK, worker, Statuses
  <1> QED
    BY <1>2, <1>3, <1>4, <1>5, <1>6, <1>7, <1>8 DEF Producer

LEMMA JobUpdate ==
  ASSUME NEW j \in JobRec, NEW st \in {"waiting", "active"},
         NEW owner \in Slots \cup {None}
  PROVE  /\ [j EXCEPT !.owner = owner] \in JobRec
         /\ [j EXCEPT !.st = st, !.owner = owner] \in JobRec
         /\ \A made \in 0..Attempts :
              [j EXCEPT !.st = st, !.made = made, !.owner = owner] \in JobRec
         /\ \A n \in 0..MaxStalledCount :
              [j EXCEPT !.st = st, !.stalled = n, !.owner = owner] \in JobRec
  BY DEF JobRec

LEMMA UnreadType == \A k \in Keys : Unread(k) \in Closing
  BY DEF Unread, Closing

LEMMA HandlerTypes ==
  ASSUME TypeOK, NEW s \in Slots, Handler(s) \/ HandlerThrows(s)
  PROVE  TypeOK'
  <1> DEFINE k == run[s].key
  <1>1. ~At(s, "idle") /\ k \in Keys
    <2>1. ~At(s, "idle")
      BY DEF Handler, HandlerThrows, MarkRunning, ReadSource, SavePage, Succeed, Fail,
             HandlerReturns, HandlerRejects, At
    <2> QED
      BY <2>1, BusyRun
  <1>2. CASE MarkRunning(s)
    BY <1>1, <1>2, GotoType DEF MarkRunning, TypeOK, Statuses, InProgress
  <1>3. CASE ReadSource(s)
    BY <1>1, <1>3, GotoType DEF ReadSource, TypeOK, Statuses, Completed
  <1>4. CASE SavePage(s)
    BY <1>1, <1>4 DEF SavePage, TypeOK, worker
  <1>5. CASE Succeed(s)
    BY <1>1, <1>5, GotoType DEF Succeed, TypeOK, Statuses, Completed
  <1>6. CASE Fail(s)
    BY <1>1, <1>6, GotoType DEF Fail, TypeOK, Statuses
  <1>7. CASE HandlerReturns(s)
    BY <1>1, <1>7, NoJobType DEF HandlerReturns, TypeOK, RunRec
  <1>8. CASE HandlerRejects(s)
    <2> DEFINE made == job[k].made + 1
    <2>1. run' \in [Slots -> RunRec]
      BY <1>8 DEF HandlerRejects, TypeOK, RunRec
    <2>2. CASE ~Owns(s, k)
      BY <1>8, <2>1, <2>2 DEF HandlerRejects, TypeOK
    <2>3. CASE Owns(s, k)
      <3>1. job[k] \in JobRec
        BY <1>1 DEF TypeOK
      <3>2. made < Attempts => [job[k] EXCEPT !.st = "waiting", !.made = made, !.owner = None] \in JobRec
        <4>1. job[k].made \in Nat
          BY <3>1 DEF JobRec
        <4>2. made < Attempts => made \in 0..Attempts
          BY <4>1, CrawlAssumption
        <4> HIDE DEF made
        <4> QED
          BY <3>1, <4>2, JobUpdate
      <3>3. job' \in [Keys -> JobRec]
        <4>1. CASE At(s, "reject") \/ made >= Attempts
          BY <1>1, <1>8, <2>3, <4>1, NoJobType DEF HandlerRejects, TypeOK
        <4>2. CASE ~(At(s, "reject") \/ made >= Attempts)
          <5>1. made < Attempts
            BY <3>1, <4>2, CrawlAssumption DEF JobRec
          <5>2. job' = [job EXCEPT ![k] = [job[k] EXCEPT !.st = "waiting", !.made = made, !.owner = None]]
            BY <1>8, <2>3, <4>2 DEF HandlerRejects
          <5> QED
            BY <1>1, <3>2, <5>1, <5>2 DEF TypeOK
        <4> QED
          BY <4>1, <4>2
      <3>4. events' \subseteq Closing
        <4>1. events' \subseteq events \cup {Unread(k)}
          BY <1>8, <2>3 DEF HandlerRejects
        <4> QED
          BY <1>1, <4>1, UnreadType DEF TypeOK
      <3> QED
        BY <1>8, <2>1, <3>3, <3>4 DEF HandlerRejects, TypeOK
    <2> QED
      BY <2>2, <2>3
  <1>9. CASE HandlerThrows(s)
    <2>1. budget' \in [Kinds -> Nat]
      BY <1>9, SpendIs DEF HandlerThrows, Acts
    <2> QED
      BY <1>1, <1>9, <2>1, GotoType DEF HandlerThrows, TypeOK
  <1> QED
    BY <1>2, <1>3, <1>4, <1>5, <1>6, <1>7, <1>8, <1>9 DEF Handler

LEMMA FetchTypes ==
  ASSUME TypeOK, NEW s \in Slots, NEW k \in Keys, Fetch(s, k)
  PROVE  TypeOK'
  <1>1. [job[k] EXCEPT !.st = "active", !.owner = s] \in JobRec
    BY JobUpdate DEF TypeOK
  <1>2. job' = [job EXCEPT ![k] = [job[k] EXCEPT !.st = "active", !.owner = s]]
    BY DEF Fetch
  <1>3. job' \in [Keys -> JobRec]
    BY <1>1, <1>2 DEF TypeOK
  <1>4. run' \in [Slots -> RunRec]
    BY DEF Fetch, TypeOK, RunRec
  <1> QED
    BY <1>3, <1>4 DEF Fetch, TypeOK

LEMMA StalledTypes ==
  ASSUME TypeOK, NEW k \in Keys, StalledCheck(k), budget' \in [Kinds -> Nat]
  PROVE  TypeOK'
  <1> DEFINE n == job[k].stalled + 1
  <1>1. job[k] \in JobRec /\ job[k].stalled \in Nat /\ n \in Nat
    BY DEF TypeOK, JobRec
  <1>2. job' \in [Keys -> JobRec]
    <2>1. CASE n > MaxStalledCount
      BY <2>1, NoJobType DEF StalledCheck, TypeOK
    <2>2. CASE ~(n > MaxStalledCount)
      <3>1. n \in 0..MaxStalledCount
        BY <1>1, <2>2, CrawlAssumption
      <3>2. job' = [job EXCEPT ![k] =
                      [job[k] EXCEPT !.st = "waiting", !.stalled = n, !.owner = None]]
        BY <2>2 DEF StalledCheck
      <3> HIDE DEF n
      <3>3. [job[k] EXCEPT !.st = "waiting", !.stalled = n, !.owner = None] \in JobRec
        BY <1>1, <3>1, JobUpdate
      <3> QED
        BY <3>2, <3>3 DEF TypeOK
    <2> QED
      BY <2>1, <2>2
  <1>3. events' \subseteq Closing
    BY UnreadType DEF StalledCheck, TypeOK
  <1> QED
    BY <1>2, <1>3 DEF StalledCheck, TypeOK

\* The outcome that is written for a run is a status, and the record of it keeps its type.
LEMMA ClosingTypes ==
  ASSUME NEW e \in Closing
  PROVE  /\ e.key \in Keys
         /\ [e EXCEPT !.outcome = Outcome(e.key)] \in Closing
         /\ [e EXCEPT !.outcome = Outcome(e.key)].key = e.key
         /\ e.outcome # None => e.outcome \in Statuses \ InProgress
         /\ Outcome(e.key) # None
  <1>1. Outcome(e.key) \in {"SUCCESS", "FAILED"}
    BY DEF Outcome
  <1> QED
    BY <1>1, CrawlAssumption DEF Closing, Statuses, Completed, InProgress

LEMMA WorkerTypes ==
  ASSUME TypeOK, Worker
  PROVE  TypeOK'
  <1>1. ASSUME NEW s \in Slots, Handler(s) PROVE TypeOK'
    BY <1>1, HandlerTypes
  <1>2. ASSUME NEW s \in Slots, NEW k \in Keys, Fetch(s, k) PROVE TypeOK'
    BY <1>2, FetchTypes
  <1>3. ASSUME NEW k \in Keys, StalledByCrash(k) PROVE TypeOK'
    BY <1>3, StalledTypes DEF StalledByCrash, TypeOK
  <1>4. ASSUME NEW e \in events, FailedReads(e) PROVE TypeOK'
    <2>1. e \in Closing
      BY DEF TypeOK
    <2> QED
      BY <1>4, <2>1, ClosingTypes DEF FailedReads, TypeOK
  <1>5. ASSUME NEW e \in events, FailedWrites(e) PROVE TypeOK'
    <2>1. e \in Closing
      BY DEF TypeOK
    <2> QED
      BY <1>5, <2>1, ClosingTypes DEF FailedWrites, TypeOK
  <1>6. CASE Restart
    BY <1>6 DEF Restart, TypeOK
  <1>7. CASE RecoverReads
    BY <1>7, UnreadType DEF RecoverReads, TypeOK
  <1>8. ASSUME NEW r \in recov, RecoverChecks(r) PROVE TypeOK'
    <2>1. r \in Closing
      BY DEF TypeOK
    <2> QED
      BY <1>8, <2>1, ClosingTypes DEF RecoverChecks, TypeOK
  <1>9. ASSUME NEW r \in recov, RecoverCloses(r) PROVE TypeOK'
    <2>1. r \in Closing
      BY DEF TypeOK
    <2> QED
      BY <1>9, <2>1, ClosingTypes DEF RecoverCloses, TypeOK
  <1> QED
    BY <1>1, <1>2, <1>3, <1>4, <1>5, <1>6, <1>7, <1>8, <1>9 DEF Worker

LEMMA EnvironmentTypes ==
  ASSUME TypeOK, Environment
  PROVE  TypeOK'
  <1>1. ASSUME NEW c \in Callers, EnqueueSource(c) \/ CallFails(c) PROVE TypeOK'
    BY <1>1, ProducerTypes
  <1>2. CASE ToggleSource
    <2>1. budget' \in [Kinds -> Nat]
      BY <1>2, SpendIs DEF ToggleSource, Acts
    <2> QED
      BY <1>2, <2>1 DEF ToggleSource, TypeOK, worker
  <1>3. ASSUME NEW s \in Slots, HandlerThrows(s) PROVE TypeOK'
    BY <1>3, HandlerTypes
  <1>4. ASSUME NEW k \in Keys, StalledWhileRunning(k) PROVE TypeOK'
    <2>1. budget' \in [Kinds -> Nat]
      BY <1>4, SpendIs DEF StalledWhileRunning, Acts
    <2> QED
      BY <1>4, <2>1, StalledTypes DEF StalledWhileRunning
  <1>5. CASE Crash
    <2>1. budget' \in [Kinds -> Nat]
      BY <1>5, SpendIs DEF Crash, Acts
    <2>2. \A k \in Keys : [job[k] EXCEPT !.owner = None] \in JobRec
      BY DEF TypeOK, JobRec
    <2>3. job' \in [Keys -> JobRec]
      BY <1>5, <2>2 DEF Crash
    <2>4. run' \in [Slots -> RunRec] /\ call' \in [Callers -> CallRec]
      BY <1>5 DEF Crash, RunRec, CallRec, TypeOK
    <2> QED
      BY <1>5, <2>1, <2>3, <2>4 DEF Crash, TypeOK
  <1>6. CASE RecoverRejects
    <2>1. budget' \in [Kinds -> Nat]
      BY <1>6, SpendIs DEF RecoverRejects, Acts
    <2> QED
      BY <1>6, <2>1 DEF RecoverRejects, TypeOK
  <1> QED
    BY <1>1, <1>2, <1>3, <1>4, <1>5, <1>6 DEF Environment

LEMMA NextTypes == TypeOK /\ [Next]_vars => TypeOK'
  <1> SUFFICES ASSUME TypeOK, [Next]_vars PROVE TypeOK'
    OBVIOUS
  <1>1. ASSUME NEW c \in Callers, Producer(c) PROVE TypeOK'
    BY <1>1, ProducerTypes
  <1>2. CASE Worker
    BY <1>2, WorkerTypes
  <1>3. CASE Environment
    BY <1>3, EnvironmentTypes
  <1>4. CASE UNCHANGED vars
    BY <1>4 DEF vars, TypeOK
  <1> QED
    BY <1>1, <1>2, <1>3, <1>4 DEF Next

(* The rows, the jobs, the handlers, the calls and the events of a crawl    *)
(* have their types, in every order of steps.                              *)
THEOREM CrawlJobTypes == Spec => []TypeOK
  BY InitTypeOK, NextTypes, PTL DEF Spec

-----------------------------------------------------------------------------
(* Who owns a job, and what a call that is about to write has found.       *)

\* A step spends once, or nothing.
LEMMA SpendsOrKeeps ==
  ASSUME [Next]_vars
  PROVE  UNCHANGED budget \/ \E kind \in Acts : Spend(kind)
  BY DEF Next, vars, worker, Producer, Handler, Worker, Environment, EnqueueSource,
     ReadExisting, ReadRedis, RemoveStaleJob, WriteRun, AddJob, CallFails, ToggleSource,
     Fetch, MarkRunning, ReadSource, SavePage, Succeed, Fail, HandlerThrows,
     HandlerReturns, HandlerRejects, FailedReads, FailedWrites, StalledByCrash,
     StalledWhileRunning, Crash, Restart, RecoverReads, RecoverChecks, RecoverCloses,
     RecoverRejects, Acts

\* What the environment has spent it does not get back.
LEMMA SpentStays ==
  ASSUME TypeOK, [Next]_vars, NEW a \in Acts, Spent(a)
  PROVE  Spent(a)'
  <1>1. budget \in [Kinds -> Nat] /\ a \in Kinds
    BY DEF TypeOK, Kinds
  <1>2. ASSUME NEW kind \in Acts, Spend(kind) PROVE Spent(a)'
    <2>1. budget'[a] <= budget[a] /\ budget' \in [Kinds -> Nat]
      BY <1>2, SpendIs
    <2>2. Budget[a] \in Nat
      BY <1>1, CrawlAssumption
    <2> QED
      BY <1>1, <2>1, <2>2 DEF Spent
  <1>3. CASE UNCHANGED budget
    BY <1>3 DEF Spent
  <1> QED
    BY <1>2, <1>3, SpendsOrKeeps

\* What a handler that throws does with the job it owns, and what the stalled check does
\* with a job: the next attempt, or the end and its 'failed' event.
LEMMA RejectIs ==
  ASSUME TypeOK, NEW s \in Slots, HandlerRejects(s), Owns(s, run[s].key)
  PROVE  /\ job'[run[s].key].st \in {"finished", "waiting"}
         /\ \A j \in Keys \ {run[s].key} : job'[j] = job[j]
         /\ events \subseteq events'
         /\ At(s, "throw") /\ job'[run[s].key].st = "finished" =>
              \E e \in events' : e.key = run[s].key
  <1> DEFINE k == run[s].key
             made == job[k].made + 1
             over == At(s, "reject") \/ made >= Attempts
             next == IF over THEN [NoJob EXCEPT !.st = "finished"]
                     ELSE [job[k] EXCEPT !.st = "waiting", !.made = made, !.owner = None]
  <1>1. job \in [Keys -> JobRec] /\ k \in Keys /\ job[k] \in JobRec
    <2>1. ~At(s, "idle")
      BY DEF HandlerRejects, At
    <2> QED
      BY <2>1, BusyRun DEF TypeOK
  <1>2. /\ job' = [job EXCEPT ![k] = next]
        /\ events' = events \cup (IF made >= Attempts THEN {Unread(k)} ELSE {})
    BY DEF HandlerRejects, IsFinalBullMqFailure
  <1>3. job'[k] = next /\ \A j \in Keys \ {k} : job'[j] = job[j]
    BY <1>1, <1>2
  <1>4. IF over THEN next.st = "finished" ELSE next.st = "waiting"
    BY <1>1 DEF NoJob, JobRec
  <1>5. Unread(k).key = k
    BY DEF Unread
  <1>6. At(s, "throw") /\ over => made >= Attempts
    BY DEF At
  <1> HIDE DEF next, made, over, k
  <1>7. events \subseteq events' /\ (made >= Attempts => Unread(k) \in events')
    BY <1>2
  <1> QED
    BY <1>3, <1>4, <1>5, <1>6, <1>7 DEF k

LEMMA StalledIs ==
  ASSUME TypeOK, NEW k \in Keys, StalledCheck(k)
  PROVE  /\ job'[k].st \in {"finished", "waiting"}
         /\ \A j \in Keys \ {k} : job'[j] = job[j]
         /\ events \subseteq events'
         /\ job'[k].st = "finished" => \E e \in events' : e.key = k
  <1> DEFINE n == job[k].stalled + 1
             next == IF n > MaxStalledCount THEN [NoJob EXCEPT !.st = "finished"]
                     ELSE [job[k] EXCEPT !.st = "waiting", !.stalled = n, !.owner = None]
  <1>1. job \in [Keys -> JobRec] /\ job[k] \in JobRec
    BY DEF TypeOK
  <1>2. /\ job' = [job EXCEPT ![k] = next] /\ events \subseteq events'
        /\ n > MaxStalledCount => Unread(k) \in events'
    BY DEF StalledCheck, IsFinalBullMqFailure
  <1>3. job'[k] = next /\ \A j \in Keys \ {k} : job'[j] = job[j]
    BY <1>1, <1>2
  <1>4. IF n > MaxStalledCount THEN next.st = "finished" ELSE next.st = "waiting"
    BY <1>1 DEF NoJob, JobRec
  <1>5. Unread(k).key = k
    BY DEF Unread
  <1> HIDE DEF next, n
  <1> QED
    BY <1>2, <1>3, <1>4, <1>5

\* A job that leaves its handler, or that nobody had.
LEMMA OwnersLosesJob ==
  ASSUME TypeOK, OwnersInv, NEW k \in Keys, UNCHANGED run,
         \A a \in Acts : Spent(a) => Spent(a)',
         \A j \in Keys \ {k} : job'[j] = job[j],
         job'[k].st # "active",
         \A s \in Slots : Owns(s, k) => Spent("stall")'
  PROVE  OwnersInv'
  <1>1. \A s \in Slots, j \in Keys : Owns(s, j)' => Owns(s, j)
    BY DEF Owns
  <1>2. \A s \in Slots : ~At(s, "idle") => run[s].key \in Keys
    BY BusyRun
  <1>3. ASSUME NEW s \in Slots, ~At(s, "idle"), ~Owns(s, run[s].key)'
        PROVE  Spent("stall")'
    <2>1. CASE Owns(s, run[s].key)
      BY <1>2, <1>3, <2>1 DEF Owns
    <2>2. CASE ~Owns(s, run[s].key)
      BY <1>3, <2>2 DEF OwnersInv, Acts
    <2> QED
      BY <2>1, <2>2
  <1> QED
    BY <1>1, <1>3 DEF OwnersInv, At

\* A handler that goes on.
LEMMA OwnersGoOn ==
  ASSUME TypeOK, OwnersInv, UNCHANGED job, NEW s \in Slots, ~At(s, "idle"),
         \A a \in Acts : Spent(a) => Spent(a)',
         NEW pc \in {"running", "source", "crawl", "throw", "reject", "end"}, Goto(s, pc)
  PROVE  OwnersInv'
  <1>1. /\ run' = [run EXCEPT ![s].pc = pc] /\ run \in [Slots -> RunRec]
        /\ run[s] \in [pc: {"running", "source", "crawl", "throw", "reject", "end"}, key: Keys]
    BY BusyRun DEF Goto, TypeOK
  <1>2. run'[s].pc = pc /\ run'[s].key = run[s].key /\ \A t \in Slots \ {s} : run'[t] = run[t]
    BY <1>1
  <1> QED
    BY <1>2 DEF OwnersInv, Owns, At, Acts

\* A handler that is over, with its job if it still has it.
LEMMA OwnersEnd ==
  ASSUME TypeOK, OwnersInv, NEW s \in Slots, ~At(s, "idle"),
         \A a \in Acts : Spent(a) => Spent(a)',
         run' = [run EXCEPT ![s] = IdleSlot],
         \A j \in Keys \ {run[s].key} : job'[j] = job[j],
         \/ job'[run[s].key] = job[run[s].key] /\ ~Owns(s, run[s].key)
         \/ job'[run[s].key].st # "active" /\ Owns(s, run[s].key)
  PROVE  OwnersInv'
  <1> DEFINE k == run[s].key
  <1>1. k \in Keys /\ run \in [Slots -> RunRec]
    BY BusyRun DEF TypeOK
  <1>2. At(s, "idle")' /\ \A t \in Slots \ {s} : run'[t] = run[t]
    BY <1>1 DEF At, IdleSlot
  <1>3. \A t \in Slots, j \in Keys : Owns(t, j)' => Owns(t, j) /\ t # s
    BY DEF Owns, OwnersInv
  <1>4. ASSUME NEW t \in Slots, ~At(t, "idle")', ~Owns(t, run[t].key)'
        PROVE  Spent("stall")'
    <2>1. t # s /\ run'[t] = run[t] /\ ~At(t, "idle") /\ run[t].key \in Keys
      BY <1>2, <1>4, BusyRun DEF At
    <2>2. ~Owns(t, run[t].key)
      BY <1>4, <2>1 DEF Owns
    <2> QED
      BY <2>1, <2>2 DEF OwnersInv, Acts
  <1> QED
    BY <1>2, <1>3, <1>4 DEF OwnersInv, At

LEMMA OwnersKept == TypeOK /\ BudgetInv /\ OwnersInv /\ [Next]_vars => OwnersInv'
  <1> SUFFICES ASSUME TypeOK, BudgetInv, OwnersInv, [Next]_vars PROVE OwnersInv'
    OBVIOUS
  <1>1. \A a \in Acts : Spent(a) => Spent(a)'
    BY SpentStays
  <1>2. ASSUME UNCHANGED <<job, run>> PROVE OwnersInv'
    BY <1>1, <1>2 DEF OwnersInv, Owns, At, Acts
  <1>3. job \in [Keys -> JobRec] /\ run \in [Slots -> RunRec] /\ KeyOf \in [Callers -> Keys]
    BY CrawlAssumption DEF TypeOK
  <1>4. ASSUME NEW c \in Callers, Producer(c) \/ EnqueueSource(c) \/ CallFails(c) PROVE OwnersInv'
    <2>1. CASE RemoveStaleJob(c)
      <3>1. CASE job[KeyOf[c]].st = "active"
        BY <1>2, <2>1, <3>1 DEF RemoveStaleJob, worker
      <3>2. CASE job[KeyOf[c]].st # "active"
        BY <1>1, <1>3, <2>1, <3>2, OwnersLosesJob DEF RemoveStaleJob, worker, Owns, NoJob
      <3> QED
        BY <3>1, <3>2
    <2>2. CASE AddJob(c)
      <3>1. CASE job[KeyOf[c]].st # "absent"
        BY <1>2, <2>2, <3>1 DEF AddJob, worker
      <3>2. CASE job[KeyOf[c]].st = "absent"
        BY <1>1, <1>3, <2>2, <3>2, OwnersLosesJob DEF AddJob, worker, Owns, NoJob
      <3> QED
        BY <3>1, <3>2
    <2> QED
      BY <1>2, <1>4, <2>1, <2>2 DEF Producer, EnqueueSource, CallFails, ReadExisting, ReadRedis,
         WriteRun, worker
  <1>5. ASSUME NEW s \in Slots, Handler(s) \/ HandlerThrows(s) PROVE OwnersInv'
    <2>1. ~At(s, "idle") /\ run[s].key \in Keys
      <3>1. ~At(s, "idle")
        BY <1>5 DEF Handler, HandlerThrows, MarkRunning, ReadSource, SavePage, Succeed, Fail,
               HandlerReturns, HandlerRejects, At
      <3> QED
        BY <3>1, BusyRun
    <2>2. CASE SavePage(s)
      BY <1>2, <2>2 DEF SavePage, worker
    <2>3. CASE HandlerReturns(s)
      BY <1>1, <1>3, <2>1, <2>3, OwnersEnd DEF HandlerReturns, NoJob
    <2>4. CASE HandlerRejects(s)
      <3>1. CASE ~Owns(s, run[s].key)
        BY <1>1, <2>1, <2>4, <3>1, OwnersEnd DEF HandlerRejects
      <3>2. CASE Owns(s, run[s].key)
        <4>1. job'[run[s].key].st # "active" /\ \A j \in Keys \ {run[s].key} : job'[j] = job[j]
          BY <2>4, <3>2, RejectIs
        <4> QED
          BY <1>1, <2>1, <2>4, <3>2, <4>1, OwnersEnd DEF HandlerRejects
      <3> QED
        BY <3>1, <3>2
    <2> QED
      BY <1>1, <1>5, <2>1, <2>2, <2>3, <2>4, OwnersGoOn DEF Handler, HandlerThrows, MarkRunning,
         ReadSource, Succeed, Fail
  <1>6. ASSUME NEW s \in Slots, NEW k \in Keys, Fetch(s, k) PROVE OwnersInv'
    <2>1. /\ At(s, "idle") /\ job[k].st = "waiting"
          /\ job'[k].st = "active" /\ job'[k].owner = s
          /\ \A j \in Keys \ {k} : job'[j] = job[j]
          /\ ~At(s, "idle")' /\ run'[s].key = k
          /\ \A t \in Slots \ {s} : run'[t] = run[t]
      BY <1>3, <1>6 DEF Fetch, At, JobRec
    <2>2. ASSUME NEW t \in Slots, NEW j \in Keys, Owns(t, j)'
          PROVE  ~At(t, "idle")' /\ run'[t].key = j
      BY <2>1, <2>2 DEF OwnersInv, Owns, At
    <2>3. ASSUME NEW t \in Slots, ~At(t, "idle")', ~Owns(t, run[t].key)'
          PROVE  Spent("stall")'
      <3>1. t # s
        BY <2>1, <2>3 DEF Owns
      <3>2. ~At(t, "idle") /\ run'[t] = run[t] /\ run[t].key \in Keys
        BY <2>1, <2>3, <3>1, BusyRun DEF At
      <3>3. ~Owns(t, run[t].key)
        BY <2>1, <2>3, <3>2 DEF Owns
      <3> QED
        BY <1>1, <3>2, <3>3 DEF OwnersInv, Acts
    <2> QED
      BY <2>2, <2>3 DEF OwnersInv
  <1>7. ASSUME NEW k \in Keys, StalledByCrash(k) \/ StalledWhileRunning(k) PROVE OwnersInv'
    <2>1. StalledCheck(k) /\ (job[k].owner = None \/ Spend("stall"))
      BY <1>7 DEF StalledByCrash, StalledWhileRunning
    <2>2. /\ UNCHANGED run /\ \A j \in Keys \ {k} : job'[j] = job[j]
          /\ job'[k].st # "active"
      BY <2>1, StalledIs DEF StalledCheck
    <2>3. ASSUME NEW s \in Slots, Owns(s, k) PROVE Spent("stall")'
      <3>1. Spend("stall")
        BY <2>1, <2>3, CrawlAssumption DEF Owns
      <3>2. budget'["stall"] < budget["stall"] /\ budget["stall"] \in Nat /\ budget' \in [Kinds -> Nat]
        BY <3>1, SpendIs DEF Acts, TypeOK, Kinds
      <3>3. budget["stall"] <= Budget["stall"]
        BY DEF BudgetInv, Acts
      <3> QED
        BY <3>2, <3>3, CrawlAssumption DEF Spent, Kinds, Acts
    <2> QED
      BY <1>1, <2>2, <2>3, OwnersLosesJob
  <1>8. CASE Crash
    <2>1. \A s \in Slots, j \in Keys : ~Owns(s, j)'
      BY <1>3, <1>8, CrawlAssumption DEF Crash, Owns, JobRec
    <2>2. \A s \in Slots : At(s, "idle")'
      BY <1>8 DEF Crash, At, IdleSlot
    <2> QED
      BY <2>1, <2>2 DEF OwnersInv, At
  <1> QED
    BY <1>2, <1>4, <1>5, <1>6, <1>7, <1>8 DEF Next, Worker, Environment, vars, ToggleSource,
       worker, FailedReads, FailedWrites, Restart, RecoverReads, RecoverChecks, RecoverCloses,
       RecoverRejects

LEMMA BudgetKept == TypeOK /\ BudgetInv /\ [Next]_vars => BudgetInv'
  <1> SUFFICES ASSUME TypeOK, BudgetInv, [Next]_vars PROVE BudgetInv'
    OBVIOUS
  <1>1. ASSUME NEW kind \in Acts, Spend(kind) PROVE BudgetInv'
    <2>1. \A a \in Acts : budget'[a] <= budget[a] /\ budget'[a] \in Nat /\ budget[a] \in Nat
      BY <1>1, SpendIs DEF TypeOK, Kinds
    <2>2. \A a \in Acts : Budget[a] \in Nat
      BY CrawlAssumption DEF Kinds
    <2> QED
      BY <2>1, <2>2 DEF BudgetInv
  <1>2. CASE UNCHANGED budget
    BY <1>2 DEF BudgetInv
  <1> QED
    BY <1>1, <1>2, SpendsOrKeeps

\* The worker changes the state of a job only while it is in flight; the calls change their
\* own key's.
LEMMA CallsKept ==
  ASSUME OneCallPerKey, TypeOK, CallsInv, [Next]_vars
  PROVE  CallsInv'
  <1>1. job \in [Keys -> JobRec] /\ call \in [Callers -> CallRec] /\ KeyOf \in [Callers -> Keys]
    BY CrawlAssumption DEF TypeOK
  <1>2. ASSUME \A c \in Callers : call'[c].pc \in {"remove", "write", "add"} => call'[c] = call[c],
               \A k \in Keys : job'[k].st = job[k].st \/ InFlight(k)
        PROVE  CallsInv'
    BY <1>1, <1>2 DEF CallsInv, InFlight
  <1>3. ASSUME NEW c \in Callers, Producer(c) \/ EnqueueSource(c) \/ CallFails(c) PROVE CallsInv'
    <2>1. \A d \in Callers \ {c} : KeyOf[d] # KeyOf[c]
      BY DEF OneCallPerKey
    <2>2. CASE EnqueueSource(c)
      BY <1>1, <2>2 DEF EnqueueSource, worker, CallGoto, CallsInv, InFlight, CallRec, IdleCall
    <2>3. CASE ReadExisting(c)
      <3>1. \/ call' = [call EXCEPT ![c] = IdleCall]
            \/ call' = [call EXCEPT ![c] = [call[c] EXCEPT !.pc = "redis", !.existing = status[KeyOf[c]]]]
        BY <2>3 DEF ReadExisting
      <3>2. call'[c].pc \in {"idle", "redis"} /\ \A d \in Callers \ {c} : call'[d] = call[d]
        BY <1>1, <2>3, <3>1, BusyCall DEF ReadExisting, CallAt, IdleCall
      <3> QED
        BY <1>2, <2>3, <3>2 DEF ReadExisting, worker
    <2>4. CASE ReadRedis(c)
      <3>1. CASE call' = [call EXCEPT ![c] = IdleCall]
        BY <1>1, <1>2, <2>4, <3>1 DEF ReadRedis, worker, IdleCall
      <3>2. CASE call' # [call EXCEPT ![c] = IdleCall]
        <4>1. /\ ~InFlight(KeyOf[c]) /\ UNCHANGED job
              /\ CallGoto(c, IF job[KeyOf[c]].st = "finished" THEN "remove" ELSE "write")
          BY <2>4, <3>2 DEF ReadRedis, Return
        <4>2. \A d \in Callers \ {c} : call'[d] = call[d]
          BY <1>1, <4>1 DEF CallGoto
        <4>3. call'[c].pc = IF job[KeyOf[c]].st = "finished" THEN "remove" ELSE "write"
          BY <1>1, <2>4, <4>1, BusyCall DEF CallGoto, ReadRedis, CallAt
        <4>4. job[KeyOf[c]].st \in {"absent", "finished"}
          BY <1>1, <4>1 DEF InFlight, JobRec
        <4> QED
          BY <4>1, <4>2, <4>3, <4>4 DEF CallsInv, InFlight
      <3> QED
        BY <3>1, <3>2
    <2>5. CASE RemoveStaleJob(c)
      <3>1. job[KeyOf[c]].st # "active"
        BY <2>5 DEF RemoveStaleJob, CallAt, CallsInv, InFlight
      <3>2. job' = [job EXCEPT ![KeyOf[c]] = NoJob] /\ CallGoto(c, "write")
        BY <2>5, <3>1 DEF RemoveStaleJob
      <3>3. /\ job'[KeyOf[c]].st = "absent"
            /\ \A d \in Callers \ {c} : call'[d] = call[d] /\ job'[KeyOf[d]] = job[KeyOf[d]]
        BY <1>1, <2>1, <3>2 DEF NoJob, CallGoto
      <3> QED
        BY <3>3 DEF CallsInv, InFlight
    <2>6. CASE WriteRun(c)
      <3>1. CASE call' = [call EXCEPT ![c] = IdleCall]
        BY <1>1, <1>2, <2>6, <3>1 DEF WriteRun, worker, IdleCall
      <3>2. CASE call' # [call EXCEPT ![c] = IdleCall]
        BY <1>1, <2>6, <3>2 DEF WriteRun, Return, CallGoto, CallsInv, CallAt, InFlight, worker
      <3> QED
        BY <3>1, <3>2
    <2>7. CASE AddJob(c)
      <3>1. /\ call'[c].pc = "idle"
            /\ \A d \in Callers \ {c} : call'[d] = call[d] /\ job'[KeyOf[d]] = job[KeyOf[d]]
        BY <1>1, <2>1, <2>7 DEF AddJob, Return, IdleCall
      <3> QED
        BY <3>1 DEF CallsInv, InFlight
    <2>8. CASE CallFails(c)
      BY <1>1, <1>2, <2>8 DEF CallFails, Return, worker, IdleCall
    <2> QED
      BY <1>3, <2>2, <2>3, <2>4, <2>5, <2>6, <2>7, <2>8 DEF Producer
  <1>4. ASSUME UNCHANGED <<job, call>> PROVE CallsInv'
    BY <1>4 DEF CallsInv, InFlight
  <1>5. ASSUME NEW s \in Slots, Handler(s) \/ HandlerThrows(s) PROVE CallsInv'
    <2>1. CASE HandlerReturns(s)
      BY <1>1, <1>2, <2>1 DEF HandlerReturns, Owns, InFlight
    <2>2. CASE HandlerRejects(s)
      BY <1>1, <1>2, <2>2 DEF HandlerRejects, Owns, InFlight
    <2> QED
      BY <1>4, <1>5, <2>1, <2>2 DEF Handler, HandlerThrows, MarkRunning, ReadSource, SavePage,
         Succeed, Fail, worker
  <1>6. ASSUME NEW s \in Slots, NEW k \in Keys, Fetch(s, k) PROVE CallsInv'
    BY <1>1, <1>2, <1>6 DEF Fetch, InFlight
  <1>7. ASSUME NEW k \in Keys, StalledByCrash(k) \/ StalledWhileRunning(k) PROVE CallsInv'
    BY <1>1, <1>2, <1>7 DEF StalledByCrash, StalledWhileRunning, StalledCheck, InFlight
  <1>8. CASE Crash
    <2>1. \A k \in Keys : job'[k].st = job[k].st
      BY <1>1, <1>8 DEF Crash, JobRec
    <2>2. \A c \in Callers : call'[c] = call[c] \/ call'[c].pc = "idle"
      BY <1>8 DEF Crash, IdleCall
    <2> QED
      BY <1>2, <2>1, <2>2
  <1> QED
    BY <1>3, <1>4, <1>5, <1>6, <1>7, <1>8 DEF Next, Worker, Environment, vars, ToggleSource,
       worker, FailedReads, FailedWrites, Restart, RecoverReads, RecoverChecks, RecoverCloses,
       RecoverRejects

-----------------------------------------------------------------------------
(* Somebody is left for every run in progress.                             *)

LEMMA SpendSpends ==
  ASSUME TypeOK, BudgetInv, NEW kind \in Acts, Spend(kind)
  PROVE  Spent(kind)'
  <1>1. budget'[kind] < budget[kind] /\ budget'[kind] \in Nat /\ budget[kind] \in Nat
    BY SpendIs DEF TypeOK, Kinds
  <1>2. budget[kind] <= Budget[kind] /\ Budget[kind] \in Nat
    BY CrawlAssumption DEF BudgetInv, Kinds
  <1> QED
    BY <1>1, <1>2 DEF Spent

\* Whoever sees to the run of k.
Seen(k) == Guarded(k) /\ \A s \in Slots : Owns(s, k) /\ Ended(s) => Crawling(k)

\* A step that leaves the job of k, its handlers, its events and its calls as they are.
LEMMA SeenFrame ==
  ASSUME NEW k \in Keys, Seen(k), UNCHANGED <<up, boot>>,
         \A e \in events \cup recov : e.key = k => \E f \in events' \cup recov' : f.key = k,
         job'[k] = job[k] \/ (~InFlight(k) /\ ~InFlight(k)'),
         \A s \in Slots : run'[s] = run[s] \/
           (~Owns(s, k) /\ (run[s].key # k \/ run[s].pc \notin {"running", "source", "crawl"})),
         \A c \in Callers : KeyOf[c] = k /\ CallAt(c, "add") => CallAt(c, "add")'
  PROVE  Seen(k)'
  <1>1. InFlight(k)' = InFlight(k)
    BY DEF InFlight
  <1>2. \A s \in Slots : Owns(s, k)' => Owns(s, k) /\ run'[s] = run[s]
    BY DEF Owns, InFlight
  <1>3. Crawling(k) => Crawling(k)'
    BY DEF Crawling
  <1>4. \A s \in Slots : Owns(s, k)' /\ Ended(s)' => Owns(s, k) /\ Ended(s)
    BY <1>2 DEF Ended
  <1>5. (\E e \in events \cup recov : e.key = k) => (\E e \in events \cup recov : e.key = k)'
    OBVIOUS
  <1> QED
    BY <1>1, <1>3, <1>4, <1>5 DEF Seen, Guarded

LEMMA GuardKept ==
  ASSUME OneCallPerKey, TypeOK, BudgetInv, OwnersInv, CallsInv, GuardInv, [Next]_vars
  PROVE  GuardInv'
  <1> SUFFICES ASSUME ~Spent("lost")', ~Spent("recover")', ~ZombieThrew',
                      NEW k \in Keys, status'[k] \in InProgress
               PROVE  Seen(k)'
    BY DEF GuardInv, Seen
  <1>1. \A a \in Acts : Spent(a) => Spent(a)'
    BY SpentStays
  <1>2. status[k] \in InProgress => Seen(k)
    BY <1>1 DEF GuardInv, Seen, ZombieThrew, Acts
  <1>3. /\ job \in [Keys -> JobRec] /\ run \in [Slots -> RunRec] /\ KeyOf \in [Callers -> Keys]
        /\ call \in [Callers -> CallRec] /\ status \in [Keys -> Statuses \cup {None}]
        /\ None \notin Slots
    BY CrawlAssumption DEF TypeOK
  <1>4. ASSUME NEW c \in Callers, Producer(c) \/ EnqueueSource(c) \/ CallFails(c) PROVE Seen(k)'
    <2>1. ASSUME UNCHANGED <<status, job, worker>>,
                 call'[c].pc = "add" \/ ~CallAt(c, "add"),
                 \A d \in Callers \ {c} : call'[d] = call[d]
          PROVE  Seen(k)'
      BY <1>2, <2>1, SeenFrame DEF worker, CallAt
    <2>2. CASE EnqueueSource(c)
      BY <1>3, <2>1, <2>2 DEF EnqueueSource, CallGoto, CallAt
    <2>3. CASE ReadExisting(c)
      BY <1>3, <2>1, <2>3 DEF ReadExisting, CallAt
    <2>4. CASE ReadRedis(c)
      BY <1>3, <2>1, <2>4 DEF ReadRedis, CallGoto, Return, CallAt
    <2>5. CASE RemoveStaleJob(c)
      <3>1. job' = [job EXCEPT ![KeyOf[c]] = NoJob] /\ ~InFlight(KeyOf[c]) /\ ~CallAt(c, "add")
        BY <2>5 DEF RemoveStaleJob, CallAt, CallsInv, InFlight
      <3>2. /\ job'[KeyOf[c]].st = "absent"
            /\ \A j \in Keys \ {KeyOf[c]} : job'[j] = job[j]
            /\ \A d \in Callers \ {c} : call'[d] = call[d]
        BY <1>3, <2>5, <3>1 DEF NoJob, RemoveStaleJob, CallGoto
      <3> QED
        BY <1>2, <2>5, <3>1, <3>2, SeenFrame DEF RemoveStaleJob, worker, InFlight, CallAt
    <2>6. CASE WriteRun(c)
      <3>1. CASE UNCHANGED status
        <4>1. ~CallAt(c, "add") /\ \A d \in Callers \ {c} : call'[d] = call[d]
          BY <1>3, <2>6 DEF WriteRun, CallAt, CallGoto, Return
        <4> QED
          BY <2>1, <2>6, <3>1, <4>1 DEF WriteRun
      <3>2. CASE status' # status
        <4>1. status' = [status EXCEPT ![KeyOf[c]] = "QUEUED"] /\ CallGoto(c, "add") /\ CallAt(c, "write")
          BY <2>6, <3>2 DEF WriteRun
        <4>2. /\ call'[c].pc = "add" /\ \A d \in Callers \ {c} : call'[d] = call[d]
          BY <1>3, <4>1, BusyCall DEF CallGoto, CallAt
        <4>3. CASE k = KeyOf[c]
          <5>1. Guarded(k)'
            BY <4>2, <4>3 DEF Guarded, CallAt
          <5>2. \A s \in Slots : ~Owns(s, k)'
            BY <2>6, <4>1, <4>3 DEF CallsInv, CallAt, InFlight, Owns, WriteRun
          <5> QED
            BY <5>1, <5>2 DEF Seen
        <4>4. CASE k # KeyOf[c]
          <5>1. status'[k] = status[k]
            BY <1>3, <4>1, <4>4
          <5> QED
            BY <1>2, <2>6, <4>2, <5>1, SeenFrame DEF WriteRun, worker, CallAt
        <4> QED
          BY <4>3, <4>4
      <3> QED
        BY <3>1, <3>2
    <2>7. CASE AddJob(c)
      <3>1. /\ job' = [job EXCEPT ![KeyOf[c]] = [NoJob EXCEPT !.st = "waiting"]]
            /\ \A d \in Callers \ {c} : call'[d] = call[d]
        BY <1>3, <2>7 DEF AddJob, CallAt, CallsInv, Return
      <3>2. CASE k = KeyOf[c]
        <4>1. job'[k].st = "waiting"
          BY <1>3, <3>1, <3>2 DEF NoJob
        <4> QED
          BY <4>1 DEF Seen, Guarded, InFlight, Owns
      <3>3. CASE k # KeyOf[c]
        <4>1. job'[k] = job[k]
          BY <1>3, <3>1, <3>3
        <4> QED
          BY <1>2, <2>7, <3>1, <3>3, <4>1, SeenFrame DEF AddJob, worker, CallAt
      <3> QED
        BY <3>2, <3>3
    <2>8. CASE CallFails(c)
      BY <2>8, SpendSpends DEF CallFails, Acts
    <2> QED
      BY <1>4, <2>2, <2>3, <2>4, <2>5, <2>6, <2>7, <2>8 DEF Producer
  <1>5. ASSUME NEW s \in Slots, Handler(s) \/ HandlerThrows(s) PROVE Seen(k)'
    <2> DEFINE j == run[s].key
    <2>1. ~At(s, "idle") /\ j \in Keys
          /\ run[s] \in [pc: {"running", "source", "crawl", "throw", "reject", "end"}, key: Keys]
      <3>1. ~At(s, "idle")
        BY <1>5 DEF Handler, HandlerThrows, MarkRunning, ReadSource, SavePage, Succeed, Fail,
               HandlerReturns, HandlerRejects, At
      <3> QED
        BY <3>1, BusyRun
    <2>2. \A t \in Slots : t # s => run'[t] = run[t]
      BY <1>3, <1>5 DEF Handler, HandlerThrows, MarkRunning, ReadSource, SavePage, Succeed, Fail,
         HandlerReturns, HandlerRejects, Goto, worker
    <2>3. k # j => ~Owns(s, k)
      BY DEF OwnersInv
    <2>4. ASSUME k # j, UNCHANGED <<up, boot, call, recov>>, events \subseteq events',
                 job'[k] = job[k], status'[k] = status[k]
          PROVE  Seen(k)'
      BY <1>2, <2>2, <2>3, <2>4, SeenFrame DEF CallAt
    <2>5. ASSUME NEW pc \in {"running", "source", "crawl", "throw", "reject", "end"}, Goto(s, pc)
          PROVE  run'[s].pc = pc /\ run'[s].key = j
      BY <1>3, <2>1, <2>5 DEF Goto
    <2>6. ASSUME Crawling(k)' PROVE Seen(k)'
      BY <2>6 DEF Seen, Guarded
    <2>7. CASE MarkRunning(s)
      <3>1. CASE k = j
        BY <2>5, <2>6, <2>7, <3>1 DEF MarkRunning, Crawling
      <3>2. CASE k # j
        BY <1>3, <2>4, <2>7, <3>2 DEF MarkRunning
      <3> QED
        BY <3>1, <3>2
    <2>8. CASE ReadSource(s)
      <3>1. CASE k = j
        <4>1. Goto(s, "crawl")
          BY <1>3, <2>8, <3>1 DEF ReadSource, InProgress
        <4> QED
          BY <2>5, <2>6, <3>1, <4>1 DEF Crawling
      <3>2. CASE k # j
        BY <1>3, <2>4, <2>8, <3>2 DEF ReadSource
      <3> QED
        BY <3>1, <3>2
    <2>9. CASE SavePage(s)
      BY <1>2, <2>9, SeenFrame DEF SavePage, worker, CallAt
    <2>10. CASE Succeed(s) \/ Fail(s)
      <3>1. k # j
        BY <1>3, <2>10 DEF Succeed, Fail, InProgress
      <3> QED
        BY <1>3, <2>4, <2>10, <3>1 DEF Succeed, Fail
    <2>11. CASE HandlerThrows(s)
      <3>1. CASE k = j
        <4>1. Spent("infra")'
          BY <2>11, SpendSpends DEF HandlerThrows, Acts
        <4>2. Owns(s, k) /\ UNCHANGED job
          BY <1>1, <2>1, <2>11, <3>1, <4>1 DEF ZombieThrew, OwnersInv, Acts, HandlerThrows
        <4>3. run'[s].pc = "throw"
          BY <2>5, <2>11 DEF HandlerThrows
        <4>4. \A t \in Slots : Owns(t, k)' => t = s
          BY <4>2 DEF Owns
        <4>5. InFlight(k)' /\ ~Ended(s)'
          BY <4>2, <4>3 DEF InFlight, Owns, Ended
        <4> QED
          BY <4>4, <4>5 DEF Seen, Guarded
      <3>2. CASE k # j
        BY <2>4, <2>11, <3>2 DEF HandlerThrows
      <3> QED
        BY <3>1, <3>2
    <2>12. ASSUME Crawling(k), run[s].pc \in {"end", "reject", "throw"} PROVE Crawling(k)'
      BY <2>2, <2>12 DEF Crawling
    <2>13. ASSUME k = j, ~Owns(s, k), run[s].pc \in {"end", "reject", "throw"},
                  UNCHANGED <<up, boot, call, recov, status, events, job>>
           PROVE  Seen(k)'
      BY <1>2, <2>2, <2>13, SeenFrame DEF CallAt
    <2>14. CASE HandlerReturns(s)
      <3>1. CASE k # j
        BY <1>3, <2>4, <2>14, <3>1 DEF HandlerReturns
      <3>2. CASE k = j /\ ~Owns(s, k)
        BY <2>13, <2>14, <3>2 DEF HandlerReturns, At
      <3>3. CASE k = j /\ Owns(s, k)
        <4>1. run[s].pc = "end" /\ status[k] \in InProgress
          BY <2>14 DEF HandlerReturns, At
        <4> QED
          BY <1>2, <2>6, <2>12, <3>3, <4>1 DEF Seen, Ended
      <3> QED
        BY <3>1, <3>2, <3>3
    <2>15. CASE HandlerRejects(s)
      <3>1. /\ UNCHANGED <<status, recov, up, boot, call>>
            /\ run[s].pc \in {"throw", "reject"}
        BY <2>15 DEF HandlerRejects
      <3>2. CASE ~Owns(s, j)
        <4>1. UNCHANGED <<job, events>>
          BY <2>15, <3>2 DEF HandlerRejects
        <4> QED
          BY <2>4, <2>13, <3>1, <3>2, <4>1
      <3>3. CASE Owns(s, j)
        <4>1. /\ job'[j].st \in {"finished", "waiting"}
              /\ \A i \in Keys \ {j} : job'[i] = job[i]
              /\ events \subseteq events'
              /\ At(s, "throw") /\ job'[j].st = "finished" => \E e \in events' : e.key = j
          BY <2>15, <3>3, RejectIs
        <4>2. CASE k # j
          BY <2>4, <3>1, <4>1, <4>2
        <4>3. CASE k = j /\ At(s, "throw")
          <5>1. Guarded(k)'
            BY <4>1, <4>3 DEF Guarded, InFlight, Owns
          <5> QED
            BY <4>1, <4>3, <5>1 DEF Seen, Owns
        <4>4. CASE k = j /\ ~At(s, "throw")
          <5>1. run[s].pc = "reject" /\ status[k] \in InProgress
            BY <3>1, <4>4 DEF At
          <5> QED
            BY <1>2, <2>6, <2>12, <3>3, <4>4, <5>1 DEF Seen, Ended
        <4> QED
          BY <4>2, <4>3, <4>4
      <3> QED
        BY <3>2, <3>3
    <2> QED
      BY <1>5, <2>7, <2>8, <2>9, <2>10, <2>11, <2>14, <2>15 DEF Handler
  <1>6. ASSUME NEW s \in Slots, NEW j \in Keys, Fetch(s, j) PROVE Seen(k)'
    <2>1. /\ \A t \in Slots \ {s} : run'[t] = run[t]
          /\ \A i \in Keys \ {j} : job'[i] = job[i]
          /\ run'[s] = [pc |-> IF status[j] \in Completed THEN "end" ELSE "running", key |-> j]
          /\ run[s].pc = "idle"
          /\ UNCHANGED <<status, saved, source, call, events, recov, up, boot, budget>>
      BY <1>3, <1>6 DEF Fetch, At
    <2>2. CASE k = j
      <3>1. run'[s].key = k /\ run'[s].pc = "running"
        BY <2>1, <2>2 DEF Completed, InProgress
      <3> QED
        BY <3>1 DEF Seen, Guarded, Crawling
    <2>3. CASE k # j
      <3>1. ~Owns(s, k)
        BY <2>1 DEF OwnersInv, At
      <3> QED
        BY <1>2, <2>1, <2>3, <3>1, SeenFrame DEF CallAt
    <2> QED
      BY <2>2, <2>3
  <1>7. ASSUME NEW j \in Keys, StalledByCrash(j) \/ StalledWhileRunning(j) PROVE Seen(k)'
    <2>1. StalledCheck(j)
      BY <1>7 DEF StalledByCrash, StalledWhileRunning
    <2>2. /\ job'[j].st \in {"finished", "waiting"}
          /\ \A i \in Keys \ {j} : job'[i] = job[i]
          /\ events \subseteq events'
          /\ job'[j].st = "finished" => \E e \in events' : e.key = j
          /\ UNCHANGED <<status, saved, source, call, run, recov, up, boot>>
      BY <2>1, StalledIs DEF StalledCheck
    <2>3. CASE k = j
      <3>1. Guarded(k)'
        BY <2>2, <2>3 DEF Guarded, InFlight, Owns
      <3> QED
        BY <2>2, <2>3, <3>1 DEF Seen, Owns
    <2>4. CASE k # j
      BY <1>2, <2>2, <2>4, SeenFrame DEF CallAt
    <2> QED
      BY <2>3, <2>4
  <1>8. ASSUME NEW e \in events, FailedReads(e) \/ FailedWrites(e) PROVE Seen(k)'
    <2>1. e \in Closing /\ UNCHANGED <<saved, source, job, call, run, recov, up, boot>>
      BY <1>8 DEF TypeOK, FailedReads, FailedWrites
    <2>2. CASE FailedReads(e)
      <3>1. \A f \in events : f.key = k => \E g \in events' : g.key = k
        <4>1. CASE e.key = k
          BY <2>1, <2>2, <4>1, ClosingTypes DEF FailedReads
        <4>2. CASE e.key # k
          BY <2>2, <4>2 DEF FailedReads
        <4> QED
          BY <4>1, <4>2
      <3> QED
        BY <1>2, <2>1, <2>2, <3>1, SeenFrame DEF FailedReads, CallAt
    <2>3. CASE FailedWrites(e)
      <3>1. e.key # k
        BY <1>3, <2>1, <2>3, ClosingTypes DEF FailedWrites
      <3>2. status'[k] = status[k]
        BY <1>3, <2>3, <3>1 DEF FailedWrites
      <3> QED
        BY <1>2, <2>1, <2>3, <3>1, <3>2, SeenFrame DEF FailedWrites, CallAt
    <2> QED
      BY <1>8, <2>2, <2>3
  <1>9. ASSUME NEW r \in recov, RecoverChecks(r) \/ RecoverCloses(r) PROVE Seen(k)'
    <2>1. r \in Closing /\ UNCHANGED <<saved, source, job, call, run, events, up, boot>>
      BY <1>9 DEF TypeOK, RecoverChecks, RecoverCloses
    <2>2. CASE RecoverChecks(r)
      <3>1. CASE r.key = k /\ InFlight(k)
        <4>1. UNCHANGED status
          BY <2>2 DEF RecoverChecks
        <4>2. \A s \in Slots : Owns(s, k) /\ Ended(s) => Crawling(k)
          BY <1>2, <4>1 DEF Seen
        <4>3. (InFlight(k) /\ \A s \in Slots : Owns(s, k) => ~Ended(s)) \/ Crawling(k)
          BY <3>1, <4>2
        <4> QED
          BY <2>1, <4>2, <4>3 DEF Seen, Guarded, InFlight, Owns, Ended, Crawling
      <3>2. CASE ~(r.key = k /\ InFlight(k))
        <4>1. \A f \in recov : f.key = k => \E g \in recov' : g.key = k
          <5>1. CASE r.key = k
            BY <2>1, <2>2, <3>2, <5>1, ClosingTypes DEF RecoverChecks
          <5>2. CASE r.key # k
            BY <2>2, <5>2 DEF RecoverChecks
          <5> QED
            BY <5>1, <5>2
        <4> QED
          BY <1>2, <2>1, <2>2, <4>1, SeenFrame DEF RecoverChecks, CallAt
      <3> QED
        BY <3>1, <3>2
    <2>3. CASE RecoverCloses(r)
      <3>1. r.key # k
        BY <1>3, <2>1, <2>3, ClosingTypes DEF RecoverCloses
      <3>2. status'[k] = status[k]
        BY <1>3, <2>3, <3>1 DEF RecoverCloses
      <3> QED
        BY <1>2, <2>1, <2>3, <3>1, <3>2, SeenFrame DEF RecoverCloses, CallAt
    <2> QED
      BY <1>9, <2>2, <2>3
  <1>10. CASE Restart \/ RecoverReads
    <2>1. UNCHANGED <<status, saved, source, job, run, call, events>>
      BY <1>10 DEF Restart, RecoverReads
    <2>2. \A s \in Slots : Owns(s, k)' /\ Ended(s)' => Crawling(k)'
      BY <1>2, <2>1 DEF Seen, Owns, Ended, Crawling
    <2>3. CASE Restart
      BY <2>2, <2>3 DEF Restart, Seen, Guarded
    <2>4. CASE RecoverReads
      <3>1. Unread(k) \in recov' /\ Unread(k).key = k
        BY <2>1, <2>4 DEF RecoverReads, Unread
      <3> QED
        BY <2>2, <3>1 DEF Seen, Guarded
    <2> QED
      BY <1>10, <2>3, <2>4
  <1>11. CASE Crash
    <2>1. \A s \in Slots : ~Owns(s, k)'
      BY <1>3, <1>11 DEF Crash, Owns, JobRec
    <2> QED
      BY <1>11, <2>1 DEF Crash, Seen, Guarded
  <1>12. CASE ToggleSource \/ UNCHANGED vars
    BY <1>2, <1>12, SeenFrame DEF ToggleSource, vars, worker, CallAt
  <1>13. CASE RecoverRejects
    BY <1>13, SpendSpends DEF RecoverRejects, Acts
  <1> QED
    BY <1>4, <1>5, <1>6, <1>7, <1>8, <1>9, <1>10, <1>11, <1>12, <1>13
       DEF Next, Worker, Environment

LEMMA InitClosing == Init => ClosingInv
  <1> SUFFICES ASSUME Init PROVE ClosingInv
    OBVIOUS
  <1>1. BudgetInv
    BY CrawlAssumption DEF Init, BudgetInv, Kinds
  <1>2. OwnersInv
    BY DEF Init, OwnersInv, Owns, NoJob, At, IdleSlot
  <1>3. CallsInv
    BY DEF Init, CallsInv, IdleCall
  <1>4. GuardInv
    BY CrawlAssumption DEF Init, GuardInv, InProgress, Statuses
  <1> QED
    BY <1>1, <1>2, <1>3, <1>4 DEF ClosingInv

(* Whoever owns a job works for its key, and a handler at work without its  *)
(* job had it taken by the stalled check.                                   *)
THEOREM OwnersSafety == Spec => []OwnersInv
  <1>1. Init => BudgetInv /\ OwnersInv
    BY InitClosing DEF ClosingInv
  <1>2. TypeOK /\ BudgetInv /\ OwnersInv /\ [Next]_vars => BudgetInv' /\ OwnersInv'
    BY OwnersKept, BudgetKept
  <1> QED
    BY <1>1, <1>2, CrawlJobTypes, PTL DEF Spec

LEMMA QuietIsClosed == TypeOK /\ ClosingInv => QuietMeansClosed
  <1> SUFFICES ASSUME TypeOK, ClosingInv, Quiet, ~Spent("lost"), ~Spent("recover"), ~ZombieThrew,
                      NEW k \in Keys, status[k] \in InProgress
               PROVE  FALSE
    BY DEF QuietMeansClosed
  <1>1. Guarded(k)
    BY DEF ClosingInv, GuardInv
  <1>2. ~Crawling(k)
    BY DEF Quiet, Crawling, At
  <1> QED
    BY <1>1, <1>2 DEF Guarded, Quiet, CallAt

(* No run is left in progress when nothing is left to run, whatever the     *)
(* crashes, stalls, retries and boots have done to its job, as long as one *)
(* call at a time asks for a key (recoverAbandonedCrawls, onCrawlJobFailed, *)
(* enqueueResolved).                                                       *)
THEOREM ClosingSafety ==
  ASSUME OneCallPerKey
  PROVE  Spec => []QuietMeansClosed
  <1>1. TypeOK /\ ClosingInv /\ [Next]_vars => ClosingInv'
    BY BudgetKept, OwnersKept, CallsKept, GuardKept DEF ClosingInv
  <1> QED
    BY <1>1, InitClosing, CrawlJobTypes, QuietIsClosed, PTL DEF Spec
=============================================================================
