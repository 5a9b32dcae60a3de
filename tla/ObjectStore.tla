---------------------------- MODULE ObjectStore ----------------------------
(***************************************************************************)
(* The object store of the backend (src/src/modules/storage/               *)
(* storage.service.ts) as the crawl, the pipeline and the reports use it:  *)
(* a gate that lets a few operations run at once, retries inside the gate, *)
(* and a bucket that may apply an operation whose answer is lost.  After   *)
(* a raw page is stored its row is created (src/src/jobs/artifact-store.ts)*)
(*                                                                         *)
(* The gate lives in one event loop: an event resumes some continuations,  *)
(* and they all run before the next event.  The order in which they run is *)
(* left open.                                                              *)
(***************************************************************************)
EXTENDS Integers, Sequences, FiniteSets

CONSTANTS
  Calls,       (* the calls of putObject and getObject *)
  Paths,
  Versions,    (* contents *)
  Kind,        (* Kind[c]: "raw" (saveRaw), "derived" (upsert) or "get" *)
  Path,        (* Path[c] *)
  Body,        (* Body[c]: what a put writes *)
  Lookalikes,  (* paths whose text reads like a transient error: "...429..." *)
  Max,         (* places of the gate, 3 in the code *)
  MaxRetries,  (* 3 in the code *)
  Burst,       (* continuations one event may resume *)
  None

Replies == {"ok", "exists", "missing", "transient", "error"}

ASSUME StoreAssumption ==
  /\ IsFiniteSet(Calls)
  /\ Kind \in [Calls -> {"raw", "derived", "get"}]
  /\ Path \in [Calls -> Paths]
  /\ Body \in [Calls -> Versions]
  /\ None \notin Versions \cup Replies
  /\ Max \in Nat \ {0} /\ MaxRetries \in Nat /\ Burst \in Nat \ {0}

(* Pages are put under raw/, texts under derived/, reports under reports/. *)
ASSUME PathsAssumption ==
  \A c, d \in Calls : Kind[c] = "raw" /\ Kind[d] = "derived" => Path[c] # Path[d]

VARIABLES
  configured,  (* Supabase, or files under data/crawl *)
  running, waiters,   (* AsyncGate *)
  pc, tries, reply,   (* of each call *)
  object,      (* object[p]: the version stored, or None *)
  row          (* row[p]: the version a document row describes, or None *)

gate  == <<running, waiters>>
store == <<object, row>>
vars  == <<configured, gate, pc, tries, reply, store>>

Ready   == {"called", "answered", "again", "woken"}
Holding == {"asked", "answered", "pausing", "again"}
Over    == {"done", "failed"}
Steps   == Ready \cup Holding \cup Over \cup {"idle", "waiting", "row", "find"}

At(steps) == {c \in Calls : pc[c] \in steps}

Init ==
  /\ configured \in BOOLEAN
  /\ running = 0 /\ waiters = <<>>
  /\ pc = [c \in Calls |-> "idle"]
  /\ tries = [c \in Calls |-> 0]
  /\ reply = [c \in Calls |-> None]
  /\ object = [p \in Paths |-> None]
  /\ row = [p \in Paths |-> None]

-----------------------------------------------------------------------------
(* Outside the event loop: the bucket, and the events.                     *)

Asking(c) == pc[c] = "asked" /\ reply[c] = None

Replied(c, r) == reply' = [reply EXCEPT ![c] = r]

(* Mutant of Stored: every put overwrites.                                 *)
MutStored(c) == object' = [object EXCEPT ![Path[c]] = Body[c]]

(* A put without upsert leaves an object that is there alone.              *)
Stored(c) ==
  object' = [object EXCEPT ![Path[c]] =
               IF Kind[c] = "raw" /\ object[Path[c]] # None THEN object[Path[c]]
               ELSE Body[c]]

BucketPuts(c) ==
  /\ Asking(c) /\ Kind[c] # "get"
  /\ Stored(c)
  /\ \/ Replied(c, IF Kind[c] = "raw" /\ object[Path[c]] # None THEN "exists" ELSE "ok")
     \/ Replied(c, "transient")
  /\ UNCHANGED <<configured, gate, pc, tries, row>>

BucketGets(c) ==
  /\ Asking(c) /\ Kind[c] = "get"
  /\ Replied(c, IF object[Path[c]] = None THEN "missing" ELSE "ok")
  /\ UNCHANGED <<configured, gate, pc, tries, store>>

(* The request does not get there, or is refused.                          *)
BucketFails(c) ==
  /\ Asking(c)
  /\ Replied(c, "transient") \/ Replied(c, "error")
  /\ UNCHANGED <<configured, gate, pc, tries, store>>

(* An event resumes a few of the calls that wait for the outside; none     *)
(* arrives while continuations are left to run.                            *)
Resumable(c) ==
  \/ pc[c] \in {"idle", "pausing"}
  \/ pc[c] = "asked" /\ reply[c] # None

Resumed(step) ==
  CASE step = "idle"    -> "called"
    [] step = "pausing" -> "again"
    [] OTHER            -> "answered"

Event(cs) ==
  /\ At(Ready) = {}
  /\ cs # {} /\ Cardinality(cs) <= Burst
  /\ \A c \in cs : Resumable(c)
  /\ pc' = [c \in Calls |-> IF c \in cs THEN Resumed(pc[c]) ELSE pc[c]]
  /\ UNCHANGED <<configured, gate, tries, reply, store>>

-----------------------------------------------------------------------------
(* The continuations: AsyncGate.run around withStorageRetry.               *)

Goes(c, step) == pc' = [pc EXCEPT ![c] = step]

(* Without Supabase the file is written or read at once, over any other.   *)
Local(c) ==
  /\ pc[c] = "called" /\ ~configured
  /\ IF Kind[c] = "get"
     THEN /\ Goes(c, IF object[Path[c]] = None THEN "failed" ELSE "done")
          /\ UNCHANGED object
     ELSE /\ object' = [object EXCEPT ![Path[c]] = Body[c]]
          /\ Goes(c, IF Kind[c] = "raw" THEN "row" ELSE "done")
  /\ UNCHANGED <<configured, gate, tries, reply, row>>

(* Mutant of Enter: the count is not looked at.                            *)
MutEnter(c) ==
  /\ pc[c] = "called" /\ configured
  /\ running' = running + 1
  /\ Goes(c, "asked")
  /\ UNCHANGED <<configured, waiters, tries, reply, store>>

Enter(c) ==
  /\ pc[c] = "called" /\ configured /\ running < Max
  /\ running' = running + 1
  /\ Goes(c, "asked")
  /\ UNCHANGED <<configured, waiters, tries, reply, store>>

Wait(c) ==
  /\ pc[c] = "called" /\ configured /\ running >= Max
  /\ waiters' = Append(waiters, c)
  /\ Goes(c, "waiting")
  /\ UNCHANGED <<configured, running, tries, reply, store>>

(* The waiter takes the place without looking whether it is still there.   *)
Resume(c) ==
  /\ pc[c] = "woken"
  /\ running' = running + 1
  /\ Goes(c, "asked")
  /\ UNCHANGED <<configured, waiters, tries, reply, store>>

AskAgain(c) ==
  /\ pc[c] = "again"
  /\ Goes(c, "asked")
  /\ UNCHANGED <<configured, gate, tries, reply, store>>

(* Mutant of Succeeded: a timeout of the last try passes for a success.    *)
MutSucceeded(c) == reply[c] \in {"ok", "exists", "transient"}

(* "already exists" is a success: an earlier try may have stored it.       *)
Succeeded(c) == reply[c] \in {"ok", "exists"}

IsTransient(c) ==
  \/ reply[c] = "transient"
  \/ reply[c] = "missing" /\ Path[c] \in Lookalikes

(* Mutant of Retries: one too many.                                        *)
MutRetries(c) == IsTransient(c) /\ tries[c] <= MaxRetries

Retries(c) == IsTransient(c) /\ tries[c] < MaxRetries

(* Mutant of Pause: the tries are not counted.                             *)
MutPause(c) ==
  /\ pc[c] = "answered" /\ Retries(c)
  /\ Replied(c, None)
  /\ Goes(c, "pausing")
  /\ UNCHANGED <<configured, gate, tries, store>>

(* The place in the gate is kept during the pause.                         *)
Pause(c) ==
  /\ pc[c] = "answered" /\ Retries(c)
  /\ tries' = [tries EXCEPT ![c] = @ + 1]
  /\ Replied(c, None)
  /\ Goes(c, "pausing")
  /\ UNCHANGED <<configured, gate, store>>

(* Mutant of Leave: the waiter is woken after a success only.              *)
MutLeaveOnSuccess(c) ==
  /\ pc[c] = "answered" /\ ~Retries(c)
  /\ running' = running - 1
  /\ tries' = [tries EXCEPT ![c] = 0]
  /\ Replied(c, None)
  /\ LET after == IF ~Succeeded(c) THEN "failed"
                  ELSE IF Kind[c] = "raw" THEN "row" ELSE "done"
     IN  IF waiters = <<>> \/ ~Succeeded(c)
         THEN Goes(c, after) /\ UNCHANGED waiters
         ELSE /\ pc' = [pc EXCEPT ![c] = after, ![Head(waiters)] = "woken"]
              /\ waiters' = Tail(waiters)
  /\ UNCHANGED <<configured, store>>

(* finally: the place is given back and the first waiter is woken.         *)
Leave(c) ==
  /\ pc[c] = "answered" /\ ~Retries(c)
  /\ running' = running - 1
  /\ tries' = [tries EXCEPT ![c] = 0]
  /\ Replied(c, None)
  /\ LET after == IF ~Succeeded(c) THEN "failed"
                  ELSE IF Kind[c] = "raw" THEN "row" ELSE "done"
     IN  IF waiters = <<>>
         THEN Goes(c, after) /\ UNCHANGED waiters
         ELSE /\ pc' = [pc EXCEPT ![c] = after, ![Head(waiters)] = "woken"]
              /\ waiters' = Tail(waiters)
  /\ UNCHANGED <<configured, store>>

(* upsertDocument: one row per bucket and path.                            *)
CreateRow(c) ==
  /\ pc[c] = "row"
  /\ IF row[Path[c]] = None
     THEN row' = [row EXCEPT ![Path[c]] = Body[c]] /\ Goes(c, "done")
     ELSE Goes(c, "find") /\ UNCHANGED row
  /\ UNCHANGED <<configured, gate, tries, reply, object>>

FindRow(c) ==
  /\ pc[c] = "find"
  /\ Goes(c, "done")
  /\ UNCHANGED <<configured, gate, tries, reply, store>>

Ends == At(Over) = Calls /\ UNCHANGED vars

Next ==
  \/ \E c \in Calls :
       \/ BucketPuts(c) \/ BucketGets(c) \/ BucketFails(c)
       \/ Local(c) \/ Enter(c) \/ Wait(c) \/ Resume(c)
       \/ AskAgain(c) \/ Pause(c) \/ Leave(c)
       \/ CreateRow(c) \/ FindRow(c)
  \/ \E cs \in SUBSET Calls : Event(cs)
  \/ Ends

Spec == Init /\ [][Next]_vars

(* The bucket answers or the request times out, timers fire, continuations *)
(* run.                                                                    *)
FairSpec == Spec /\ WF_vars(Next)

-----------------------------------------------------------------------------
(* Types, and the state of the gate as the calls see it.                   *)
TypeOK ==
  /\ configured \in BOOLEAN
  /\ running = Cardinality(At(Holding))
  /\ waiters \in Seq(Calls)
  /\ pc \in [Calls -> Steps]
  /\ tries \in [Calls -> 0..MaxRetries]
  /\ reply \in [Calls -> Replies \cup {None}]
  /\ object \in [Paths -> Versions \cup {None}]
  /\ row \in [Paths -> Versions \cup {None}]

(* A newcomer may take the place that was given to a waiter which has not  *)
(* resumed (storage.service.ts:352-361).  What saves the limit is that all *)
(* continuations of an event run before the next: at most one place per    *)
(* further continuation of the event is used twice.                        *)
GateLimit == running <= Max + Burst - 1

(* Nobody waits while there is a place: a call that fails, is retried or   *)
(* finds nothing gives its place on as one that succeeds.                  *)
NoPlaceWasted == waiters # <<>> => running + Cardinality(At({"woken"})) >= Max

(* A waiter is in the queue once, and nobody else is.                      *)
WaitersWait ==
  /\ \A i \in DOMAIN waiters : pc[waiters[i]] = "waiting"
  /\ \A i, j \in DOMAIN waiters : waiters[i] = waiters[j] => i = j
  /\ \A c \in At({"waiting"}) : \E i \in DOMAIN waiters : waiters[i] = c

(* A document row never points at a page that is not stored, whatever is   *)
(* lost on the way: the pipeline would fail on it for ever.                *)
RowHasObject == \A p \in Paths : row[p] # None => object[p] # None

(* What the proofs need besides: an event's continuations are counted, and *)
(* a success that has not been used yet is about an object that is there.  *)
EventBudget == Cardinality(At(Ready)) <= Burst

PlacesGiven == running + Cardinality(At({"woken"})) <= Max + Burst - 1

SuccessIsStored ==
  \A c \in Calls :
    (Kind[c] = "raw" /\ (Succeeded(c) \/ pc[c] \in {"row", "find"}))
      => object[Path[c]] # None

RowsAreRaw == \A c \in Calls : pc[c] \in {"row", "find"} => Kind[c] = "raw"

GateInv  == EventBudget /\ PlacesGiven /\ NoPlaceWasted /\ WaitersWait
StoreInv == SuccessIsStored /\ RowsAreRaw /\ RowHasObject

(* A page that a repeated crawl stores again keeps the bytes of the first  *)
(* time: a text that was extracted and hashed stays that of the page.      *)
RawIsKept ==
  [][configured =>
       \A c \in Calls : (Kind[c] = "raw" /\ object[Path[c]] # None)
                          => object'[Path[c]] = object[Path[c]]]_vars

(* Every call ends, with the gate full and the bucket failing.             *)
CallsEnd == <>(At(Over) = Calls)
=============================================================================
