------------------------ MODULE ObjectStore_proofs -------------------------
(***************************************************************************)
(* Theorems about ObjectStore, for every number of calls, places, retries  *)
(* and continuations per event: the gate's limit, that no place of it is   *)
(* lost, and that a row of a document always has its object.               *)
(***************************************************************************)
EXTENDS ObjectStore, FiniteSetTheorems, TLAPS

-----------------------------------------------------------------------------
(* Counting the calls at some steps.                                       *)

CountAt(f, K) == Cardinality({c \in Calls : f[c] \in K})

LEMMA CountType ==
  ASSUME NEW f, NEW K
  PROVE  CountAt(f, K) \in Nat /\ IsFiniteSet({c \in Calls : f[c] \in K})
  BY FS_Subset, FS_CardinalityType, StoreAssumption DEF CountAt

\* One call moves: the count changes by what it leaves and what it enters.
LEMMA CountMove ==
  ASSUME NEW f, NEW c \in Calls, NEW s, NEW K, f = [x \in Calls |-> f[x]]
  PROVE  /\ (f[c] \in K /\ s \in K)       => CountAt([f EXCEPT ![c] = s], K) = CountAt(f, K)
         /\ (f[c] \notin K /\ s \notin K) => CountAt([f EXCEPT ![c] = s], K) = CountAt(f, K)
         /\ (f[c] \notin K /\ s \in K)    => CountAt([f EXCEPT ![c] = s], K) = CountAt(f, K) + 1
         /\ (f[c] \in K /\ s \notin K)    => CountAt([f EXCEPT ![c] = s], K) = CountAt(f, K) - 1
  <1> DEFINE g == [f EXCEPT ![c] = s]
             S == {x \in Calls : f[x] \in K}
             T == {x \in Calls : g[x] \in K}
  <1>0. \A x \in Calls : g[x] = IF x = c THEN s ELSE f[x]
    OBVIOUS
  <1>1. IsFiniteSet(S)
    BY CountType
  <1> HIDE DEF g
  <1>2. (f[c] \in K <=> s \in K) => T = S
    BY <1>0
  <1>3. (f[c] \notin K /\ s \in K) => (T = S \cup {c} /\ c \notin S)
    BY <1>0
  <1>4. (f[c] \in K /\ s \notin K) => (T = S \ {c} /\ c \in S)
    BY <1>0
  <1>5. CountAt(f, K) = Cardinality(S) /\ CountAt(g, K) = Cardinality(T)
    BY DEF CountAt
  <1> HIDE DEF S, T
  <1>6. Cardinality(S \cup {c}) = IF c \in S THEN Cardinality(S) ELSE Cardinality(S) + 1
    BY <1>1, FS_AddElement
  <1>7. Cardinality(S \ {c}) = IF c \in S THEN Cardinality(S) - 1 ELSE Cardinality(S)
    BY <1>1, FS_RemoveElement
  <1>8. CASE f[c] \in K <=> s \in K
    BY <1>2, <1>5, <1>8 DEF g
  <1>9. CASE f[c] \notin K /\ s \in K
    BY <1>3, <1>5, <1>6, <1>9 DEF g
  <1>10. CASE f[c] \in K /\ s \notin K
    BY <1>4, <1>5, <1>7, <1>10 DEF g
  <1> QED
    BY <1>8, <1>9, <1>10 DEF g

\* The three counts the gate is about.
Readies == CountAt(pc, Ready)
Holders == CountAt(pc, Holding)
Wokens  == CountAt(pc, {"woken"})

LEMMA Counts ==
  /\ Cardinality(At(Ready)) = Readies     /\ Cardinality(At(Ready)') = Readies'
  /\ Cardinality(At(Holding)) = Holders   /\ Cardinality(At(Holding)') = Holders'
  /\ Cardinality(At({"woken"})) = Wokens  /\ Cardinality(At({"woken"})') = Wokens'
  BY DEF At, CountAt, Readies, Holders, Wokens

LEMMA CountsAreNat ==
  /\ Readies \in Nat /\ Holders \in Nat /\ Wokens \in Nat
  /\ Readies' \in Nat /\ Holders' \in Nat /\ Wokens' \in Nat
  BY CountType DEF Readies, Holders, Wokens

\* What a move does to each of them.
Move(c, s, K) == (IF s \in K THEN 1 ELSE 0) - (IF pc[c] \in K THEN 1 ELSE 0)

LEMMA MoveCounts ==
  ASSUME NEW c \in Calls, NEW s, pc \in [Calls -> Steps], pc' = [pc EXCEPT ![c] = s]
  PROVE  /\ Readies' = Readies + Move(c, s, Ready)
         /\ Holders' = Holders + Move(c, s, Holding)
         /\ Wokens' = Wokens + Move(c, s, {"woken"})
  <1>1. pc = [x \in Calls |-> pc[x]]
    OBVIOUS
  <1>2. ASSUME NEW K
        PROVE  CountAt(pc', K) = CountAt(pc, K) + Move(c, s, K)
    <2>1. CountAt(pc, K) \in Nat /\ CountAt(pc', K) \in Nat
      BY CountType
    <2>2. /\ (pc[c] \in K /\ s \in K)       => CountAt(pc', K) = CountAt(pc, K)
          /\ (pc[c] \notin K /\ s \notin K) => CountAt(pc', K) = CountAt(pc, K)
          /\ (pc[c] \notin K /\ s \in K)    => CountAt(pc', K) = CountAt(pc, K) + 1
          /\ (pc[c] \in K /\ s \notin K)    => CountAt(pc', K) = CountAt(pc, K) - 1
      BY <1>1, CountMove
    <2> QED
      BY <2>1, <2>2 DEF Move
  <1> QED
    BY <1>2 DEF Readies, Holders, Wokens

-----------------------------------------------------------------------------
(* The gate.                                                               *)

\* A call moves and the queue stays as it is.
LEMMA PlainMove ==
  ASSUME TypeOK, GateInv, NEW c \in Calls, NEW s \in Steps,
         pc' = [pc EXCEPT ![c] = s], UNCHANGED waiters,
         pc[c] # "waiting", s # "waiting"
  PROVE  WaitersWait'
  BY DEF GateInv, WaitersWait, TypeOK, At

LEMMA SideStep ==
  ASSUME TypeOK, GateInv, NEW c \in Calls,
         BucketPuts(c) \/ BucketGets(c) \/ BucketFails(c)
  PROVE  TypeOK' /\ GateInv'
  <1>1. UNCHANGED <<configured, gate, pc, tries, row>>
    BY DEF BucketPuts, BucketGets, BucketFails, store
  <1>2. \A K : At(K)' = At(K)
    BY <1>1 DEF At
  <1>3. reply' \in [Calls -> Replies \cup {None}]
    BY DEF BucketPuts, BucketGets, BucketFails, Replied, Replies, TypeOK
  <1>4. object' \in [Paths -> Versions \cup {None}]
    BY StoreAssumption DEF BucketPuts, BucketGets, BucketFails, Stored, TypeOK, store
  <1>5. TypeOK'
    BY <1>1, <1>2, <1>3, <1>4 DEF TypeOK, gate
  <1>6. GateInv'
    BY <1>1, <1>2 DEF GateInv, EventBudget, PlacesGiven, NoPlaceWasted, WaitersWait, gate
  <1> QED
    BY <1>5, <1>6

LEMMA LocalStep ==
  ASSUME TypeOK, GateInv, NEW c \in Calls, Local(c) \/ CreateRow(c) \/ FindRow(c)
  PROVE  TypeOK' /\ GateInv'
  <1>1. PICK s \in {"row", "find"} \cup Over : pc' = [pc EXCEPT ![c] = s]
    BY DEF Local, CreateRow, FindRow, Goes, Over
  <1>2. UNCHANGED <<configured, running, waiters, tries, reply>>
    BY DEF Local, CreateRow, FindRow, gate, store
  <1>3. pc[c] \in {"called", "row", "find"}
    BY DEF Local, CreateRow, FindRow
  <1>4. s \in Steps /\ s \notin Ready /\ s \notin Holding /\ s # "woken" /\ s # "waiting"
    BY <1>1 DEF Steps, Ready, Holding, Over
  <1>5. /\ Readies' = Readies + Move(c, s, Ready)
        /\ Holders' = Holders + Move(c, s, Holding)
        /\ Wokens' = Wokens + Move(c, s, {"woken"})
    BY <1>1, MoveCounts DEF TypeOK
  <1>6. Move(c, s, Holding) = 0 /\ Move(c, s, {"woken"}) = 0 /\ Move(c, s, Ready) \in {0, -1}
    BY <1>3, <1>4 DEF Move, Holding
  <1>7. Holders' = Holders /\ Wokens' = Wokens /\ Readies' <= Readies
    BY <1>5, <1>6, CountsAreNat
  <1>8. object' \in [Paths -> Versions \cup {None}] /\ row' \in [Paths -> Versions \cup {None}]
    <2>1. Path[c] \in Paths /\ Body[c] \in Versions
      BY StoreAssumption
    <2>2. object' = object \/ object' = [object EXCEPT ![Path[c]] = Body[c]]
      BY DEF Local, CreateRow, FindRow, store
    <2>3. row' = row \/ row' = [row EXCEPT ![Path[c]] = Body[c]]
      BY DEF Local, CreateRow, FindRow, store
    <2> QED
      BY <2>1, <2>2, <2>3 DEF TypeOK
  <1>9. TypeOK'
    BY <1>1, <1>2, <1>4, <1>7, <1>8, Counts DEF TypeOK
  <1>10. WaitersWait'
    BY <1>1, <1>2, <1>3, <1>4, PlainMove
  <1>11. EventBudget' /\ PlacesGiven' /\ NoPlaceWasted'
    BY <1>2, <1>7, Counts, CountsAreNat, StoreAssumption DEF GateInv, EventBudget, PlacesGiven, NoPlaceWasted
  <1> QED
    BY <1>9, <1>10, <1>11 DEF GateInv

\* A continuation that is not a resumed waiter leaves room for one fewer of those.
LEMMA FewerWokens ==
  ASSUME NEW c \in Calls, pc[c] \in Ready, pc[c] # "woken"
  PROVE  Wokens < Readies
  <1> DEFINE W == {x \in Calls : pc[x] \in {"woken"}}
             R == {x \in Calls : pc[x] \in Ready}
  <1>1. IsFiniteSet(R) /\ W \subseteq R /\ W # R
    BY CountType DEF Ready
  <1>2. Cardinality(W) = Wokens /\ Cardinality(R) = Readies
    BY DEF Wokens, Readies, CountAt
  <1> HIDE DEF W, R
  <1> QED
    BY <1>1, <1>2, FS_Subset, CountsAreNat

\* A continuation that runs and keeps the queue of waiters as it is.
LEMMA RunStep ==
  ASSUME TypeOK, GateInv, NEW c \in Calls,
         Enter(c) \/ Resume(c) \/ AskAgain(c) \/ Pause(c)
  PROVE  TypeOK' /\ GateInv'
  <1>1. PICK s \in {"asked", "pausing"} : pc' = [pc EXCEPT ![c] = s] /\ (s = "pausing" <=> pc[c] = "answered")
    BY DEF Enter, Resume, AskAgain, Pause, Goes
  <1>2. UNCHANGED <<configured, waiters, object, row>>
    BY DEF Enter, Resume, AskAgain, Pause, gate, store
  <1>3. s \in Steps /\ s # "waiting" /\ pc[c] # "waiting" /\ pc[c] \in {"called", "woken", "again", "answered"}
    BY <1>1 DEF Enter, Resume, AskAgain, Pause, Steps, Holding
  <1>4. WaitersWait'
    BY <1>1, <1>2, <1>3, PlainMove
  <1>5. reply' \in [Calls -> Replies \cup {None}] /\ tries' \in [Calls -> 0..MaxRetries]
    BY StoreAssumption DEF Enter, Resume, AskAgain, Pause, Retries, Replied, TypeOK
  <1>6. /\ Readies' = Readies + Move(c, s, Ready)
        /\ Holders' = Holders + Move(c, s, Holding)
        /\ Wokens' = Wokens + Move(c, s, {"woken"})
    BY <1>1, MoveCounts DEF TypeOK
  <1>7. Move(c, s, Ready) = -1 /\ Readies' < Readies
    <2>1. Move(c, s, Ready) = -1
      BY <1>3 DEF Move, Ready
    <2> QED
      BY <2>1, <1>6, CountsAreNat
  <1>8. running = Holders /\ running \in Nat
    BY Counts, CountsAreNat DEF TypeOK
  <1>9. CASE pc[c] = "called"
    <2>1. running' = running + 1 /\ running < Max
      BY <1>9 DEF Enter, Resume, AskAgain, Pause
    <2>2. Move(c, s, Holding) = 1 /\ Move(c, s, {"woken"}) = 0
      BY <1>1, <1>9 DEF Move, Holding
    <2>3. Holders' = running' /\ Wokens' = Wokens
      BY <1>6, <1>8, <2>1, <2>2, CountsAreNat
    <2>4. Wokens < Readies /\ Readies <= Burst
      BY <1>9, FewerWokens, Counts DEF GateInv, EventBudget, Ready
    <2>5. running' + Wokens' <= Max + Burst - 1
      BY <2>1, <2>3, <2>4, <1>8, CountsAreNat, StoreAssumption
    <2>6. NoPlaceWasted'
      BY <1>2, <2>1, <2>3, <1>8, Counts, CountsAreNat, StoreAssumption DEF GateInv, NoPlaceWasted
    <2>7. TypeOK'
      BY <1>1, <1>2, <1>3, <1>5, <2>3, Counts DEF TypeOK
    <2> QED
      BY <1>4, <1>7, <2>5, <2>6, <2>7, Counts, CountsAreNat, StoreAssumption
      DEF GateInv, EventBudget, PlacesGiven
  <1>10. CASE pc[c] = "woken"
    <2>1. running' = running + 1
      BY <1>10 DEF Enter, Resume, AskAgain, Pause
    <2>2. Move(c, s, Holding) = 1 /\ Move(c, s, {"woken"}) = -1
      BY <1>1, <1>10 DEF Move, Holding
    <2>3. Holders' = running' /\ Wokens' = Wokens - 1 /\ running' + Wokens' = running + Wokens
      BY <1>6, <1>8, <2>1, <2>2, CountsAreNat
    <2>6. NoPlaceWasted' /\ PlacesGiven'
      BY <1>2, <2>3, Counts DEF GateInv, NoPlaceWasted, PlacesGiven
    <2>7. TypeOK'
      BY <1>1, <1>2, <1>3, <1>5, <2>3, Counts DEF TypeOK
    <2> QED
      BY <1>4, <1>7, <2>6, <2>7, Counts, CountsAreNat, StoreAssumption DEF GateInv, EventBudget
  <1>11. CASE pc[c] \in {"again", "answered"}
    <2>1. running' = running
      BY <1>11 DEF Enter, Resume, AskAgain, Pause, gate
    <2>2. Move(c, s, Holding) = 0 /\ Move(c, s, {"woken"}) = 0
      BY <1>1, <1>11 DEF Move, Holding
    <2>3. Holders' = running' /\ Wokens' = Wokens
      BY <1>6, <1>8, <2>1, <2>2, CountsAreNat
    <2>6. NoPlaceWasted' /\ PlacesGiven'
      BY <1>2, <2>1, <2>3, Counts DEF GateInv, NoPlaceWasted, PlacesGiven
    <2>7. TypeOK'
      BY <1>1, <1>2, <1>3, <1>5, <2>3, Counts DEF TypeOK
    <2> QED
      BY <1>4, <1>7, <2>6, <2>7, Counts, CountsAreNat, StoreAssumption DEF GateInv, EventBudget
  <1> QED
    BY <1>3, <1>9, <1>10, <1>11

LEMMA WaitStep ==
  ASSUME TypeOK, GateInv, NEW c \in Calls, Wait(c)
  PROVE  TypeOK' /\ GateInv'
  <1>1. pc' = [pc EXCEPT ![c] = "waiting"] /\ pc[c] = "called" /\ waiters' = Append(waiters, c)
    BY DEF Wait, Goes
  <1>2. UNCHANGED <<configured, running, tries, reply, object, row>> /\ running >= Max
    BY DEF Wait, store
  <1>3. /\ Readies' = Readies + Move(c, "waiting", Ready)
        /\ Holders' = Holders + Move(c, "waiting", Holding)
        /\ Wokens' = Wokens + Move(c, "waiting", {"woken"})
    BY <1>1, MoveCounts DEF TypeOK
  <1>4. Move(c, "waiting", Ready) = -1 /\ Move(c, "waiting", Holding) = 0 /\ Move(c, "waiting", {"woken"}) = 0
    BY <1>1 DEF Move, Ready, Holding
  <1>5. Readies' < Readies /\ Holders' = Holders /\ Wokens' = Wokens
    BY <1>3, <1>4, CountsAreNat
  <1>6. TypeOK'
    BY <1>1, <1>2, <1>5, Counts DEF TypeOK, Steps
  <1>7. WaitersWait'
    <2>1. \A i \in DOMAIN waiters : waiters[i] # c
      BY <1>1 DEF GateInv, WaitersWait
    <2>2. /\ Len(waiters) \in Nat
          /\ DOMAIN waiters = 1..Len(waiters)
          /\ DOMAIN waiters' = 1..(Len(waiters) + 1)
          /\ waiters'[Len(waiters) + 1] = c
          /\ \A i \in DOMAIN waiters : waiters'[i] = waiters[i] /\ waiters[i] \in Calls
      BY <1>1 DEF TypeOK
    <2>3. \A x \in Calls : pc'[x] = IF x = c THEN "waiting" ELSE pc[x]
      BY <1>1 DEF TypeOK
    <2>4. \A i \in DOMAIN waiters' : i \in DOMAIN waiters \/ i = Len(waiters) + 1
      BY <2>2
    <2>5. \A i \in DOMAIN waiters' : pc'[waiters'[i]] = "waiting"
      BY <2>2, <2>3, <2>4 DEF GateInv, WaitersWait
    <2>6. \A i, j \in DOMAIN waiters' : waiters'[i] = waiters'[j] => i = j
      BY <2>1, <2>2, <2>4 DEF GateInv, WaitersWait
    <2>7. \A x \in At({"waiting"})' : \E i \in DOMAIN waiters' : waiters'[i] = x
      BY <2>2, <2>3 DEF GateInv, WaitersWait, At
    <2> QED
      BY <2>5, <2>6, <2>7 DEF WaitersWait
  <1>8. EventBudget' /\ PlacesGiven' /\ NoPlaceWasted'
    BY <1>2, <1>5, Counts, CountsAreNat, StoreAssumption
    DEF GateInv, EventBudget, PlacesGiven, NoPlaceWasted, TypeOK
  <1> QED
    BY <1>6, <1>7, <1>8 DEF GateInv

\* A place is given back, and on to the first waiter if there is one.
LEMMA LeaveStep ==
  ASSUME TypeOK, GateInv, NEW c \in Calls, Leave(c)
  PROVE  TypeOK' /\ GateInv'
  <1> DEFINE after == IF ~Succeeded(c) THEN "failed"
                        ELSE IF Kind[c] = "raw" THEN "row" ELSE "done"
             left == [pc EXCEPT ![c] = after]
  <1>1. after \in {"failed", "row", "done"}
    OBVIOUS
  <1>2. /\ pc[c] = "answered" /\ running' = running - 1
        /\ UNCHANGED <<configured, object, row>>
        /\ reply' \in [Calls -> Replies \cup {None}] /\ tries' \in [Calls -> 0..MaxRetries]
    BY StoreAssumption DEF Leave, Replied, TypeOK, store
  <1>3. running = Holders /\ running \in Nat /\ Holders \in Nat
    BY Counts, CountsAreNat DEF TypeOK
  <1>4. CASE waiters = <<>>
    <2>1. pc' = left /\ UNCHANGED waiters
      BY <1>4 DEF Leave, Goes
    <2>2. /\ Readies' = Readies + Move(c, after, Ready)
          /\ Holders' = Holders + Move(c, after, Holding)
          /\ Wokens' = Wokens + Move(c, after, {"woken"})
      BY <2>1, MoveCounts DEF TypeOK
    <2>3. Move(c, after, Ready) = -1 /\ Move(c, after, Holding) = -1 /\ Move(c, after, {"woken"}) = 0
      BY <1>1, <1>2 DEF Move, Ready, Holding
    <2>4. Readies' < Readies /\ Holders' = running' /\ Wokens' = Wokens
      BY <1>2, <1>3, <2>2, <2>3, CountsAreNat
    <2>5. after \in Steps /\ after # "waiting" /\ pc[c] # "waiting"
      BY <1>1, <1>2 DEF Steps, Over
    <2>6. TypeOK'
      BY <1>2, <2>1, <2>4, <2>5, Counts DEF TypeOK
    <2>7. WaitersWait'
      BY <2>1, <2>5, PlainMove
    <2> QED
      BY <1>2, <1>3, <1>4, <2>1, <2>4, <2>6, <2>7, Counts, CountsAreNat, StoreAssumption
      DEF GateInv, EventBudget, PlacesGiven, NoPlaceWasted
  <1>5. CASE waiters # <<>>
    <2> DEFINE h == Head(waiters)
    <2>1. pc' = [left EXCEPT ![h] = "woken"] /\ waiters' = Tail(waiters)
      BY <1>5 DEF Leave
    <2>2. /\ h \in Calls /\ Len(waiters) \in Nat \ {0}
          /\ h = waiters[1] /\ 1 \in DOMAIN waiters
          /\ DOMAIN waiters = 1..Len(waiters)
          /\ DOMAIN waiters' = 1..(Len(waiters) - 1)
          /\ \A i \in DOMAIN waiters' : waiters'[i] = waiters[i + 1] /\ i + 1 \in DOMAIN waiters
          /\ \A i \in DOMAIN waiters : waiters[i] \in Calls
          /\ waiters' \in Seq(Calls)
      BY <1>5, <2>1 DEF TypeOK
    <2>3. pc[h] = "waiting" /\ h # c
      BY <1>2, <2>2 DEF GateInv, WaitersWait
    <2> HIDE DEF h, after
    <2>4. \A x \in Calls : pc'[x] = IF x = h THEN "woken" ELSE IF x = c THEN after ELSE pc[x]
      BY <2>1, <2>2, <2>3 DEF TypeOK
    <2>5. pc' \in [Calls -> Steps]
      BY <1>1, <2>1, <2>2 DEF TypeOK, Steps, Over, Ready
    <2>6. /\ CountAt(pc', Ready) = CountAt(pc, Ready)
          /\ CountAt(pc', Holding) = CountAt(pc, Holding) - 1
          /\ CountAt(pc', {"woken"}) = CountAt(pc, {"woken"}) + 1
      <3>1. pc = [x \in Calls |-> pc[x]] /\ left = [x \in Calls |-> left[x]]
        BY DEF TypeOK
      <3>2. left[h] = "waiting" /\ pc[c] = "answered"
        BY <1>2, <2>2, <2>3 DEF TypeOK
      <3> HIDE DEF left
      <3>3. /\ CountAt(left, Ready) = CountAt(pc, Ready) - 1
            /\ CountAt(left, Holding) = CountAt(pc, Holding) - 1
            /\ CountAt(left, {"woken"}) = CountAt(pc, {"woken"})
        <4>1. after \notin Ready /\ after \notin Holding /\ after # "woken"
              /\ pc[c] \in Ready /\ pc[c] \in Holding /\ pc[c] # "woken"
          BY <1>1, <3>2 DEF Ready, Holding
        <4> QED
          BY <3>1, <4>1, CountMove DEF left
      <3>4. /\ CountAt(pc', Ready) = CountAt(left, Ready) + 1
            /\ CountAt(pc', Holding) = CountAt(left, Holding)
            /\ CountAt(pc', {"woken"}) = CountAt(left, {"woken"}) + 1
        <4>1. "woken" \in Ready /\ "woken" \notin Holding
              /\ left[h] \notin Ready /\ left[h] \notin Holding /\ left[h] # "woken"
          BY <3>2 DEF Ready, Holding
        <4>2. ASSUME NEW K
              PROVE  /\ left[h] \notin K /\ "woken" \in K    => CountAt(pc', K) = CountAt(left, K) + 1
                     /\ left[h] \notin K /\ "woken" \notin K => CountAt(pc', K) = CountAt(left, K)
          BY <2>1, <2>2, <3>1, CountMove
        <4> QED
          BY <4>1, <4>2
      <3>5. \A K \in {Ready, Holding, {"woken"}} : CountAt(pc, K) \in Nat /\ CountAt(left, K) \in Nat
        BY CountType
      <3> QED
        BY <3>3, <3>4, <3>5
    <2>7. Readies' = Readies /\ Holders' = Holders - 1 /\ Wokens' = Wokens + 1
      BY <2>6 DEF Readies, Holders, Wokens
    <2>8. running' = Holders' /\ running' + Wokens' = running + Wokens
      BY <1>2, <1>3, <2>7, CountsAreNat
    <2>9. TypeOK'
      BY <1>2, <2>2, <2>5, <2>8, Counts DEF TypeOK
    <2>10. WaitersWait'
      <3>1. \A i \in DOMAIN waiters' : waiters'[i] # h
        BY <2>2 DEF GateInv, WaitersWait
      <3>2. \A i \in DOMAIN waiters' : pc'[waiters'[i]] = "waiting"
        BY <1>2, <2>2, <2>4, <3>1, SMTT(30) DEF GateInv, WaitersWait
      <3>3. \A i, j \in DOMAIN waiters' : waiters'[i] = waiters'[j] => i = j
        BY <2>2 DEF GateInv, WaitersWait
      <3>4. ASSUME NEW x \in Calls, pc'[x] = "waiting"
            PROVE  \E i \in DOMAIN waiters' : waiters'[i] = x
        <4>1. x # h /\ pc[x] = "waiting"
          BY <1>1, <2>4, <3>4
        <4>2. PICK i \in DOMAIN waiters : waiters[i] = x
          BY <4>1 DEF GateInv, WaitersWait, At
        <4>3. i # 1 /\ i - 1 \in DOMAIN waiters' /\ (i - 1) + 1 = i
          BY <2>2, <4>1, <4>2
        <4> QED
          BY <2>2, <4>2, <4>3
      <3> QED
        BY <3>2, <3>3, <3>4 DEF WaitersWait, At
    <2> QED
      BY <1>2, <1>5, <2>7, <2>8, <2>9, <2>10, Counts, CountsAreNat, StoreAssumption
      DEF GateInv, EventBudget, PlacesGiven, NoPlaceWasted
  <1> QED
    BY <1>4, <1>5

LEMMA EventStep ==
  ASSUME TypeOK, GateInv, NEW cs \in SUBSET Calls, Event(cs)
  PROVE  TypeOK' /\ GateInv'
  <1>1. /\ pc' = [x \in Calls |-> IF x \in cs THEN Resumed(pc[x]) ELSE pc[x]]
        /\ UNCHANGED <<configured, running, waiters, tries, reply, object, row>>
    BY DEF Event, gate, store
  <1>2. /\ \A x \in Calls : pc[x] \notin Ready
        /\ \A x \in cs : pc[x] \in {"idle", "pausing", "asked"}
    BY DEF Event, At, Resumable
  <1>3. /\ \A x \in Calls \ cs : pc'[x] = pc[x]
        /\ \A x \in cs : /\ pc[x] = "idle" => pc'[x] = "called"
                         /\ pc[x] = "pausing" => pc'[x] = "again"
                         /\ pc[x] = "asked" => pc'[x] = "answered"
    BY <1>1, <1>2 DEF Resumed
  <1>4. pc' \in [Calls -> Steps]
    BY <1>1, <1>2 DEF Resumed, Steps, Ready, TypeOK
  <1>5. \A x \in Calls : /\ pc'[x] \in Holding <=> pc[x] \in Holding
                         /\ pc'[x] # "woken" /\ pc[x] # "woken"
                         /\ pc'[x] = "waiting" <=> pc[x] = "waiting"
    <2> SUFFICES ASSUME NEW x \in Calls
                 PROVE  /\ pc'[x] \in Holding <=> pc[x] \in Holding
                        /\ pc'[x] # "woken" /\ pc[x] # "woken"
                        /\ pc'[x] = "waiting" <=> pc[x] = "waiting"
      OBVIOUS
    <2>1. CASE x \notin cs
      BY <1>2, <1>3, <2>1 DEF Ready
    <2>2. CASE x \in cs /\ pc[x] = "idle"
      <3>1. pc'[x] = "called"
        BY <1>3, <2>2
      <3> QED
        BY <2>2, <3>1 DEF Holding
    <2>3. CASE x \in cs /\ pc[x] = "pausing"
      <3>1. pc'[x] = "again"
        BY <1>3, <2>3
      <3> QED
        BY <2>3, <3>1 DEF Holding
    <2>4. CASE x \in cs /\ pc[x] = "asked"
      <3>1. pc'[x] = "answered"
        BY <1>3, <2>4
      <3> QED
        BY <2>4, <3>1 DEF Holding
    <2> QED
      BY <1>2, <2>1, <2>2, <2>3, <2>4
  <1>6. At(Holding)' = At(Holding) /\ At({"woken"})' = At({"woken"})
    BY <1>5 DEF At
  <1>7. At(Ready)' \subseteq cs /\ IsFiniteSet(cs)
    BY <1>2, <1>3, StoreAssumption, FS_Subset DEF At
  <1>8. EventBudget'
    <2>1. Cardinality(At(Ready)') <= Cardinality(cs) /\ Cardinality(cs) \in Nat
      BY <1>7, FS_Subset, FS_CardinalityType
    <2>2. Cardinality(cs) <= Burst
      BY DEF Event
    <2> QED
      BY <2>1, <2>2, Counts, CountsAreNat, StoreAssumption DEF EventBudget
  <1>9. TypeOK'
    BY <1>1, <1>4, <1>6 DEF TypeOK
  <1>11. At({"waiting"})' = At({"waiting"})
    BY <1>5 DEF At
  <1>12. \A i \in DOMAIN waiters : waiters[i] \in Calls
    BY DEF TypeOK
  <1>13. WaitersWait'
    BY <1>1, <1>5, <1>11, <1>12 DEF GateInv, WaitersWait
  <1> QED
    BY <1>1, <1>6, <1>8, <1>9, <1>13 DEF GateInv, PlacesGiven, NoPlaceWasted

LEMMA GateInit == Init => TypeOK /\ GateInv
  <1> SUFFICES ASSUME Init PROVE TypeOK /\ GateInv
    OBVIOUS
  <1>1. \A x \in Calls : pc[x] = "idle"
    BY DEF Init
  <1>2. At(Holding) = {} /\ At(Ready) = {} /\ At({"woken"}) = {} /\ At({"waiting"}) = {}
    BY <1>1 DEF At, Holding, Ready
  <1>3. TypeOK
    BY <1>2, FS_EmptySet, StoreAssumption DEF Init, TypeOK, Steps
  <1>4. GateInv
    <2>1. Cardinality(At(Ready)) = 0 /\ Cardinality(At({"woken"})) = 0
      BY <1>2, FS_EmptySet
    <2>2. EventBudget /\ PlacesGiven /\ NoPlaceWasted
      BY <2>1, StoreAssumption DEF Init, EventBudget, PlacesGiven, NoPlaceWasted
    <2>3. WaitersWait
      BY <1>2 DEF Init, WaitersWait
    <2> QED
      BY <2>2, <2>3 DEF GateInv
  <1> QED
    BY <1>3, <1>4

LEMMA GateNext == TypeOK /\ GateInv /\ [Next]_vars => TypeOK' /\ GateInv'
  <1> SUFFICES ASSUME TypeOK, GateInv, [Next]_vars PROVE TypeOK' /\ GateInv'
    OBVIOUS
  <1>1. CASE UNCHANGED vars
    <2>1. UNCHANGED <<configured, running, waiters, pc, tries, reply, object, row>>
      BY <1>1 DEF vars, gate, store
    <2>2. \A K : At(K)' = At(K)
      BY <2>1 DEF At
    <2> QED
      BY <2>1, <2>2 DEF TypeOK, GateInv, EventBudget, PlacesGiven, NoPlaceWasted, WaitersWait
  <1>2. CASE Ends
    BY <1>1, <1>2 DEF Ends
  <1>3. ASSUME NEW c \in Calls,
               \/ BucketPuts(c) \/ BucketGets(c) \/ BucketFails(c)
               \/ Local(c) \/ Enter(c) \/ Wait(c) \/ Resume(c)
               \/ AskAgain(c) \/ Pause(c) \/ Leave(c)
               \/ CreateRow(c) \/ FindRow(c)
        PROVE  TypeOK' /\ GateInv'
    BY <1>3, SideStep, LocalStep, RunStep, WaitStep, LeaveStep
  <1>4. ASSUME NEW cs \in SUBSET Calls, Event(cs)
        PROVE  TypeOK' /\ GateInv'
    BY <1>4, EventStep
  <1> QED
    BY <1>1, <1>2, <1>3, <1>4 DEF Next

-----------------------------------------------------------------------------
(* What is stored.                                                         *)

\* No step takes an object away.
LEMMA ObjectsStay ==
  ASSUME TypeOK, [Next]_vars, NEW p \in Paths, object[p] # None
  PROVE  object'[p] # None
  <1>1. \A c \in Calls : Body[c] # None
    BY StoreAssumption
  <1>2. ASSUME NEW c \in Calls, BucketPuts(c) \/ Local(c)
        PROVE  object'[p] # None
    BY <1>1, <1>2, StoreAssumption DEF BucketPuts, Local, Stored, TypeOK, store
  <1>3. ASSUME NEW c \in Calls,
               \/ BucketGets(c) \/ BucketFails(c) \/ Enter(c) \/ Wait(c) \/ Resume(c)
               \/ AskAgain(c) \/ Pause(c) \/ Leave(c) \/ CreateRow(c) \/ FindRow(c)
        PROVE  UNCHANGED object
    BY <1>3 DEF BucketGets, BucketFails, Enter, Wait, Resume, AskAgain, Pause, Leave,
                CreateRow, FindRow, store
  <1>4. ASSUME NEW cs \in SUBSET Calls, Event(cs)
        PROVE  UNCHANGED object
    BY <1>4 DEF Event, store
  <1>5. CASE UNCHANGED vars
    BY <1>5 DEF vars, store
  <1> QED
    BY <1>2, <1>3, <1>4, <1>5 DEF Next, Ends

\* A raw page is about to get its row, or has been answered well, only once it is there.
LEMMA SuccessStep ==
  ASSUME TypeOK, GateInv, StoreInv, [Next]_vars, NEW c \in Calls, Kind[c] = "raw",
         Succeeded(c)' \/ pc'[c] \in {"row", "find"}
  PROVE  object'[Path[c]] # None
  <1>0. Path[c] \in Paths /\ Body[c] # None /\ pc[c] \in Steps
    BY StoreAssumption DEF TypeOK
  <1>1. CASE Succeeded(c) \/ pc[c] \in {"row", "find"}
    BY <1>0, <1>1, ObjectsStay DEF StoreInv, SuccessIsStored
  <1>2. CASE ~Succeeded(c) /\ pc[c] \notin {"row", "find"}
    <2>1. ASSUME NEW x \in Calls, BucketPuts(x)
          PROVE  object'[Path[c]] # None
      <3>1. pc' = pc /\ (x # c => reply'[c] = reply[c])
        BY <2>1 DEF BucketPuts, Replied, TypeOK
      <3>2. x = c
        BY <1>2, <3>1 DEF Succeeded
      <3> QED
        BY <1>0, <2>1, <3>2, StoreAssumption DEF BucketPuts, Stored, TypeOK
    <2>2. ASSUME NEW x \in Calls, BucketGets(x) \/ BucketFails(x)
          PROVE  FALSE
      <3>1. pc' = pc /\ (x # c => reply'[c] = reply[c])
        BY <2>2 DEF BucketGets, BucketFails, Replied, TypeOK
      <3>2. x = c /\ reply'[c] \in {"ok", "exists"}
        BY <1>2, <3>1 DEF Succeeded
      <3> QED
        BY <2>2, <3>2 DEF BucketGets, BucketFails, Replied, TypeOK
    <2>3. ASSUME NEW x \in Calls, Local(x)
          PROVE  object'[Path[c]] # None
      <3>1. reply' = reply /\ (x # c => pc'[c] = pc[c])
        BY <2>3 DEF Local, Goes, TypeOK
      <3>2. x = c
        BY <1>2, <3>1 DEF Succeeded
      <3> QED
        BY <1>0, <2>3, <3>2 DEF Local, TypeOK
    <2>4. ASSUME NEW x \in Calls, Leave(x)
          PROVE  FALSE
      <3>1. reply' = [reply EXCEPT ![x] = None] /\ None \notin Replies
        BY <2>4, StoreAssumption DEF Leave, Replied
      <3>2. ~Succeeded(c)'
        BY <1>2, <3>1 DEF Succeeded, TypeOK, Replies
      <3>3. pc'[c] \notin {"row", "find"}
        <4> DEFINE after == IF ~Succeeded(x) THEN "failed"
                              ELSE IF Kind[x] = "raw" THEN "row" ELSE "done"
        <4>0. x = c => after = "failed"
          BY <1>2 DEF Succeeded
        <4>1. \/ pc' = [pc EXCEPT ![x] = after]
              \/ pc' = [pc EXCEPT ![x] = after, ![Head(waiters)] = "woken"]
          BY <2>4 DEF Leave, Goes
        <4> HIDE DEF after
        <4>2. x # c => pc'[c] \in {pc[c], "woken"}
          BY <4>1 DEF TypeOK
        <4>3. x = c => pc'[c] \in {after, "woken"}
          BY <4>1 DEF TypeOK
        <4> QED
          BY <1>2, <4>0, <4>2, <4>3
      <3> QED
        BY <3>2, <3>3
    <2>5. ASSUME NEW x \in Calls,
                 \/ Enter(x) \/ Wait(x) \/ Resume(x) \/ AskAgain(x) \/ Pause(x)
          PROVE  FALSE
      <3>1. reply' = reply \/ (reply' = [reply EXCEPT ![x] = None] /\ None \notin Replies)
        BY <2>5, StoreAssumption DEF Enter, Wait, Resume, AskAgain, Pause, Replied
      <3>2. ~Succeeded(c)'
        BY <1>2, <3>1 DEF Succeeded, TypeOK, Replies
      <3>3. pc'[c] \notin {"row", "find"}
        BY <1>2, <2>5 DEF Enter, Wait, Resume, AskAgain, Pause, Goes, TypeOK
      <3> QED
        BY <3>2, <3>3
    <2>6. ASSUME NEW x \in Calls, CreateRow(x) \/ FindRow(x)
          PROVE  FALSE
      <3>1. reply' = reply /\ pc[x] \in {"row", "find"} /\ (x # c => pc'[c] = pc[c])
        BY <2>6 DEF CreateRow, FindRow, Goes, TypeOK, store
      <3> QED
        BY <1>2, <3>1 DEF Succeeded
    <2>7. ASSUME NEW cs \in SUBSET Calls, Event(cs)
          PROVE  FALSE
      <3>1. reply' = reply /\ pc'[c] \in {pc[c], "called", "again", "answered"}
        BY <2>7 DEF Event, Resumed
      <3> QED
        BY <1>2, <3>1 DEF Succeeded
    <2>8. CASE UNCHANGED vars \/ Ends
      <3>1. reply' = reply /\ pc' = pc
        BY <2>8 DEF vars, Ends
      <3> QED
        BY <1>2, <3>1 DEF Succeeded
    <2> QED
      BY <2>1, <2>2, <2>3, <2>4, <2>5, <2>6, <2>7, <2>8 DEF Next
  <1> QED
    BY <1>1, <1>2

LEMMA RowStep ==
  ASSUME TypeOK, StoreInv, [Next]_vars
  PROVE  RowsAreRaw' /\ RowHasObject'
  <1>1. ASSUME NEW c \in Calls, pc'[c] \in {"row", "find"}, Kind[c] # "raw"
        PROVE  FALSE
    <2>0. pc[c] \notin {"row", "find"}
      BY <1>1 DEF StoreInv, RowsAreRaw
    <2>1. ASSUME NEW x \in Calls,
                 \/ BucketPuts(x) \/ BucketGets(x) \/ BucketFails(x) \/ Local(x)
                 \/ Enter(x) \/ Wait(x) \/ Resume(x) \/ AskAgain(x) \/ Pause(x)
                 \/ CreateRow(x) \/ FindRow(x)
          PROVE  FALSE
      BY <1>1, <2>0, <2>1
      DEF BucketPuts, BucketGets, BucketFails, Local, Enter, Wait, Resume, AskAgain, Pause,
          CreateRow, FindRow, Goes, TypeOK
    <2>2. ASSUME NEW x \in Calls, Leave(x)
          PROVE  FALSE
      <3> DEFINE after == IF ~Succeeded(x) THEN "failed"
                            ELSE IF Kind[x] = "raw" THEN "row" ELSE "done"
      <3>1. /\ Kind[x] # "raw" => after \notin {"row", "find"}
            /\ \/ pc' = [pc EXCEPT ![x] = after]
               \/ pc' = [pc EXCEPT ![x] = after, ![Head(waiters)] = "woken"]
        BY <2>2 DEF Leave, Goes
      <3> HIDE DEF after
      <3>2. x # c => pc'[c] \in {pc[c], "woken"}
        BY <3>1 DEF TypeOK
      <3>3. x = c => pc'[c] \in {after, "woken"}
        BY <3>1 DEF TypeOK
      <3> QED
        BY <1>1, <2>0, <3>1, <3>2, <3>3
    <2>3. ASSUME NEW cs \in SUBSET Calls, Event(cs)
          PROVE  FALSE
      BY <1>1, <2>0, <2>3 DEF Event, Resumed
    <2>4. CASE UNCHANGED vars \/ Ends
      BY <1>1, <2>0, <2>4 DEF vars, Ends
    <2> QED
      BY <2>1, <2>2, <2>3, <2>4 DEF Next
  <1>2. ASSUME NEW p \in Paths, row'[p] # None
        PROVE  object'[p] # None
    <2>1. CASE row[p] # None
      BY <2>1, ObjectsStay DEF StoreInv, RowHasObject
    <2>2. CASE row[p] = None
      <3>1. \E c \in Calls : CreateRow(c) /\ Path[c] = p
        <4>1. ASSUME UNCHANGED row
              PROVE  FALSE
          BY <1>2, <2>2, <4>1
        <4>2. ASSUME NEW c \in Calls,
                     \/ BucketPuts(c) \/ BucketGets(c) \/ BucketFails(c) \/ Local(c)
                     \/ Enter(c) \/ Wait(c) \/ Resume(c) \/ AskAgain(c) \/ Pause(c)
                     \/ Leave(c) \/ FindRow(c)
              PROVE  UNCHANGED row
          BY <4>2 DEF BucketPuts, BucketGets, BucketFails, Local, Enter, Wait, Resume,
                      AskAgain, Pause, Leave, FindRow, store
        <4>3. ASSUME NEW cs \in SUBSET Calls, Event(cs)
              PROVE  UNCHANGED row
          BY <4>3 DEF Event, store
        <4>4. CASE UNCHANGED vars \/ Ends
          BY <4>1, <4>4 DEF vars, store, Ends
        <4>5. PICK c \in Calls : CreateRow(c)
          BY <4>1, <4>2, <4>3, <4>4 DEF Next
        <4>6. Path[c] = p
          BY <1>2, <2>2, <4>5 DEF CreateRow, TypeOK
        <4> QED
          BY <4>5, <4>6
      <3>2. PICK c \in Calls : CreateRow(c) /\ Path[c] = p
        BY <3>1
      <3>3. object[p] # None
        BY <3>2 DEF CreateRow, StoreInv, RowsAreRaw, SuccessIsStored
      <3> QED
        BY <3>3, ObjectsStay
    <2> QED
      BY <2>1, <2>2
  <1> QED
    BY <1>1, <1>2 DEF RowsAreRaw, RowHasObject

LEMMA StoreInit == Init => StoreInv
  BY StoreAssumption
  DEF Init, StoreInv, SuccessIsStored, RowsAreRaw, RowHasObject, Succeeded, Replies

LEMMA StoreNext == TypeOK /\ GateInv /\ StoreInv /\ [Next]_vars => StoreInv'
  <1> SUFFICES ASSUME TypeOK, GateInv, StoreInv, [Next]_vars PROVE StoreInv'
    OBVIOUS
  <1>1. SuccessIsStored'
    BY SuccessStep DEF SuccessIsStored
  <1> QED
    BY <1>1, RowStep DEF StoreInv

-----------------------------------------------------------------------------
(* The theorems.                                                           *)

\* Every variable keeps its type, and the gate's counter is the number of calls that hold
\* a place (AsyncGate.run's running += 1 and -= 1).
THEOREM StoreTypeSafety == Spec => []TypeOK
  BY GateInit, GateNext, PTL DEF Spec

\* AsyncGate's limit is passed by at most one place for each further continuation of an event.
THEOREM GateLimitSafety == Spec => []GateLimit
  <1>1. TypeOK /\ GateInv => GateLimit
    BY Counts, CountsAreNat, StoreAssumption DEF GateInv, PlacesGiven, GateLimit, TypeOK
  <1> QED
    BY <1>1, GateInit, GateNext, PTL DEF Spec

\* Nobody waits at the gate while it has a place that is not given to somebody.
THEOREM NoPlaceWastedSafety == Spec => []NoPlaceWasted
  <1>1. TypeOK /\ GateInv => NoPlaceWasted
    BY DEF GateInv
  <1> QED
    BY <1>1, GateInit, GateNext, PTL DEF Spec

\* A document's row points at an object that is stored.
THEOREM RowHasObjectSafety == Spec => []RowHasObject
  <1>1. StoreInv => RowHasObject
    BY DEF StoreInv
  <1> QED
    BY <1>1, GateInit, GateNext, StoreInit, StoreNext, PTL DEF Spec
-----------------------------------------------------------------------------
(* What a put may overwrite.                                               *)

\* The bucket overwrites for a derived text only, and no derived text has a page's path.
LEMMA PutKeepsPages ==
  ASSUME TypeOK, NEW c \in Calls, Kind[c] = "raw", object[Path[c]] # None,
         NEW x \in Calls, Kind[x] # "get", Stored(x)
  PROVE  object'[Path[c]] = object[Path[c]]
  <1>1. object \in [Paths -> Versions \cup {None}] /\ Path[c] \in Paths /\ Path[x] \in Paths
    BY StoreAssumption DEF TypeOK
  <1>2. CASE Path[x] # Path[c]
    BY <1>1, <1>2 DEF Stored
  <1>3. CASE Path[x] = Path[c]
    <2>1. Kind[x] = "raw"
      BY <1>3, StoreAssumption, PathsAssumption
    <2> QED
      BY <1>1, <1>3, <2>1 DEF Stored
  <1> QED
    BY <1>2, <1>3

\* RawIsKept: with Supabase, whatever is put again, answered twice or lost, the bytes of a
\* stored page do not change (putObject without upsert, artifact-store.ts).
THEOREM RawSafety == Spec => RawIsKept
  <1>1. ASSUME TypeOK, [Next]_vars, configured,
               NEW c \in Calls, Kind[c] = "raw", object[Path[c]] # None
        PROVE  object'[Path[c]] = object[Path[c]]
    <2>1. ASSUME NEW x \in Calls, BucketPuts(x)
          PROVE  object'[Path[c]] = object[Path[c]]
      BY <1>1, <2>1, PutKeepsPages DEF BucketPuts
    <2>2. ASSUME NEW x \in Calls,
                 \/ BucketGets(x) \/ BucketFails(x) \/ Local(x)
                 \/ Enter(x) \/ Wait(x) \/ Resume(x) \/ AskAgain(x) \/ Pause(x)
                 \/ Leave(x) \/ CreateRow(x) \/ FindRow(x)
          PROVE  UNCHANGED object
      BY <1>1, <2>2 DEF BucketGets, BucketFails, Local, Enter, Wait, Resume, AskAgain,
                        Pause, Leave, CreateRow, FindRow, store
    <2>3. ASSUME NEW cs \in SUBSET Calls, Event(cs)
          PROVE  UNCHANGED object
      BY <2>3 DEF Event, store
    <2>4. CASE UNCHANGED vars \/ Ends
      BY <2>4 DEF vars, store, Ends
    <2> QED
      BY <1>1, <2>1, <2>2, <2>3, <2>4 DEF Next
  <1>2. TypeOK /\ [Next]_vars =>
          [configured =>
             \A c \in Calls : (Kind[c] = "raw" /\ object[Path[c]] # None)
                                => object'[Path[c]] = object[Path[c]]]_vars
    BY <1>1
  <1> QED
    BY <1>2, StoreTypeSafety, PTL DEF Spec, RawIsKept
=============================================================================
