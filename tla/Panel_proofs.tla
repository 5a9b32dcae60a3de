---------------------------- MODULE Panel_proofs ----------------------------
(***************************************************************************)
(* Theorems about Panel, for any zones, hours, dates and pages: which day  *)
(* an hour belongs to, which days are crawled, and what a board that says  *)
(* that a day is done may have missed.                                     *)
(***************************************************************************)
EXTENDS Panel, TLAPS, FiniteSetTheorems, WellFoundedInduction

-----------------------------------------------------------------------------
(* Orders of finite sets: the row a board picks exists.                    *)

\* A finite set that a relation orders strictly has an element with none before it.
LEMMA FirstOfOrder ==
  ASSUME NEW S, IsFiniteSet(S), S # {}, NEW R,
         \A x \in S : <<x, x>> \notin R,
         \A x, y, z \in S : <<x, y>> \in R /\ <<y, z>> \in R => <<x, z>> \in R
  PROVE  \E x \in S : \A y \in S : <<y, x>> \notin R
  <1> DEFINE Before(x) == {y \in S : <<y, x>> \in R}
             T == {Before(x) : x \in S}
             O == StrictSubsetOrdering(S)
  <1>1. IsWellFoundedOn(O, SUBSET S)
    <2>1. FiniteSubsetsOf(S) = SUBSET S
      BY FS_FiniteSubsetsOfFinite
    <2>2. IsWellFoundedOn(StrictSubsetOrdering(S), FiniteSubsetsOf(S))
      BY FS_StrictSubsetOrderingWellFounded
    <2> QED
      BY <2>1, <2>2
  <1>2. T \subseteq SUBSET S /\ T # {}
    <2>1. \A c \in T : \A y \in c : y \in S
      OBVIOUS
    <2>2. PICK x \in S : TRUE
      OBVIOUS
    <2>3. Before(x) \in T
      OBVIOUS
    <2> HIDE DEF T
    <2> QED
      BY <2>1, <2>3
  <1>3. PICK b \in T : \A c \in T : <<c, b>> \notin O
    <2> HIDE DEF T, O
    <2> QED
      BY <1>1, <1>2, WFMin
  <1>4. PICK x \in S : b = Before(x)
    OBVIOUS
  <1>5. ASSUME NEW y \in S, <<y, x>> \in R
        PROVE  FALSE
    <2>1. Before(y) \subseteq Before(x) /\ y \in Before(x) /\ y \notin Before(y)
      BY <1>5
    <2>2. <<Before(y), Before(x)>> \in O
      BY <2>1 DEF StrictSubsetOrdering
    <2>3. Before(y) \in T
      OBVIOUS
    <2> HIDE DEF T, O, Before
    <2> QED
      BY <1>3, <1>4, <2>2, <2>3
  <1> QED
    BY <1>5

\* A finite set of integers has a least one, the one Min picks.
LEMMA MinIsLeast ==
  ASSUME NEW S \in SUBSET Int, IsFiniteSet(S), S # {}
  PROVE  Min(S) \in S /\ \A x \in S : Min(S) <= x
  <1> DEFINE R == {pair \in S \X S : pair[1] < pair[2]}
  <1>1. \A x, y \in S : <<x, y>> \in R <=> x < y
    OBVIOUS
  <1>2. /\ \A x \in S : <<x, x>> \notin R
        /\ \A x, y, z \in S : <<x, y>> \in R /\ <<y, z>> \in R => <<x, z>> \in R
    BY <1>1
  <1>3. \E x \in S : \A y \in S : <<y, x>> \notin R
    <2> HIDE DEF R
    <2> QED
      BY <1>2, FirstOfOrder
  <1> HIDE DEF R
  <1>4. \E x \in S : \A y \in S : x <= y
    <2>1. PICK x \in S : \A y \in S : ~(y < x)
      BY <1>1, <1>3
    <2>2. \A y \in S : x <= y
      BY <2>1
    <2> QED
      BY <2>2
  <1> QED
    BY <1>4 DEF Min

-----------------------------------------------------------------------------
(* The days of a zone.                                                     *)

\* What a clock shows: the instant, moved by the offset, is the hour of the date.
LEMMA ClockShows ==
  ASSUME NEW zone \in Zones, NEW t \in Horizon
  PROVE  /\ DateOf(t, zone) \in Int /\ ZonedClock(t, zone).hour \in 0..23
         /\ ZonedClock(t, zone) = [date |-> DateOf(t, zone), hour |-> ZonedClock(t, zone).hour]
         /\ 24 * DateOf(t, zone) <= t + 14
  <1> DEFINE local == t + Offset[zone][t]
  <1>1. t \in Int /\ Offset[zone][t] \in -12..14
    BY ZonesAssumption
  <1>2. ZonedClock(t, zone) = [date |-> local \div 24, hour |-> local % 24]
    BY DEF ZonedClock, ZonedClocks
  <1>3. local \in Int /\ local <= t + 14
    BY <1>1
  <1> HIDE DEF local
  <1>4. local \div 24 \in Int /\ local % 24 \in 0..23 /\ 24 * (local \div 24) <= local
    BY <1>3
  <1> QED
    BY <1>1, <1>2, <1>3, <1>4 DEF DateOf

\* zonedDayRange begins a day where its date begins, whatever the offsets are.
LEMMA DayBegins ==
  ASSUME NEW zone \in Zones, NEW date \in Int, \E u \in Scan(date) : DateOf(u, zone) = date
  PROVE  /\ StartOfZonedDay(date, zone) \in Int
         /\ \A t \in Horizon : StartOfZonedDay(date, zone) <= t <=> date <= DateOf(t, zone)
  <1> DEFINE ofDate    == {t \in Scan(date) : DateOf(t, zone) = date}
             midnights == {t \in ofDate : ZonedClock(t, zone).hour = 0}
             start     == StartOfZonedDay(date, zone)
  <1>1. /\ Scan(date) \subseteq Int /\ IsFiniteSet(Scan(date))
        /\ \A t \in Scan(date) : t \in Horizon /\ 24 * date - 14 <= t /\ t <= 24 * date + 26
        /\ \A t \in Horizon : 24 * date - 14 <= t /\ t <= 24 * date + 26 => t \in Scan(date)
    <2>1. IsFiniteSet((24 * date - 14)..(24 * date + 26))
      BY FS_Interval
    <2> QED
      BY <2>1, FS_Subset, ZonesAssumption DEF Scan
  <1>2. /\ ofDate \in SUBSET Int /\ IsFiniteSet(ofDate) /\ ofDate # {}
        /\ midnights \in SUBSET Int /\ IsFiniteSet(midnights)
    BY <1>1, FS_Subset
  <1>3. start = IF midnights # {} THEN Min(midnights) ELSE Min(ofDate)
    BY <1>2 DEF StartOfZonedDay
  <1>4. \A t \in Horizon : DateOf(t, zone) = date => 24 * date - 14 <= t
    BY ClockShows, ZonesAssumption
  <1>5. start \in ofDate /\ \A t \in ofDate : start <= t
    <2>1. CASE midnights = {}
      <3> HIDE DEF ofDate, midnights, start
      <3> QED
        BY <1>2, <1>3, <2>1, MinIsLeast
    <2>2. CASE midnights # {}
      <3>1. start \in midnights /\ \A t \in midnights : start <= t
        <4> HIDE DEF ofDate, midnights, start
        <4> QED
          BY <1>2, <1>3, <2>2, MinIsLeast
      <3>2. start \in Horizon /\ DateOf(start, zone) = date /\ ZonedClock(start, zone).hour = 0
            /\ start <= 24 * date + 26
        BY <1>1, <3>1
      <3>3. ASSUME NEW t \in ofDate
            PROVE  start <= t
        <4>1. t \in Horizon /\ DateOf(t, zone) = date
          BY <1>1
        <4>2. PICK v \in Horizon :
                /\ v <= t /\ ZonedClock(v, zone) = [date |-> date, hour |-> 0]
          BY <3>2, <4>1, ZonesAssumption
        <4>3. DateOf(v, zone) = date /\ ZonedClock(v, zone).hour = 0
          BY <4>2 DEF DateOf
        <4>4. v \in Int /\ t \in Int /\ v <= 24 * date + 26
          BY <1>1, <4>2, ZonesAssumption
        <4>5. v \in midnights
          BY <1>1, <1>4, <4>3, <4>4
        <4> QED
          BY <1>2, <3>1, <4>2, <4>4, <4>5
      <3> QED
        BY <3>1, <3>3
    <2> QED
      BY <2>1, <2>2
  <1>6. start \in Int /\ start \in Horizon /\ DateOf(start, zone) = date /\ start <= 24 * date + 26
    BY <1>1, <1>2, <1>5
  <1>7. ASSUME NEW t \in Horizon
        PROVE  start <= t <=> date <= DateOf(t, zone)
    <2>1. t \in Int /\ DateOf(t, zone) \in Int
      BY ClockShows, ZonesAssumption
    <2>2. start <= t => date <= DateOf(t, zone)
      BY <1>6, ZonesAssumption
    <2>3. ASSUME date <= DateOf(t, zone), t < start
          PROVE  FALSE
      <3>1. DateOf(t, zone) <= date
        BY <1>6, <2>1, <2>3, ZonesAssumption
      <3>2. DateOf(t, zone) = date
        BY <2>1, <2>3, <3>1
      <3>3. t \in ofDate
        BY <1>1, <1>4, <1>6, <2>1, <2>3, <3>2
      <3> QED
        BY <1>5, <1>6, <2>1, <2>3, <3>3
    <2> QED
      BY <1>6, <2>1, <2>2, <2>3
  <1> QED
    BY <1>6, <1>7

\* Every hour at which anything happens is in the range of its own date and of no other,
\* in every zone: zonedDayRange cuts the days of the panel without a gap or an overlap.
LEMMA InstantIsInItsDay ==
  ASSUME NEW zone \in Zones, NEW t \in Instants,
         NEW date \in (DateOf(t, zone) - 1)..(DateOf(t, zone) + 1)
  PROVE  InZonedDay(t, date, zone) <=> date = DateOf(t, zone)
  <1>1. t \in Horizon
    BY PanelAssumption
  <1>2. DateOf(t, zone) \in Int
    BY <1>1, ClockShows
  <1>3. ASSUME NEW d \in (DateOf(t, zone) - 1)..(DateOf(t, zone) + 2)
        PROVE  /\ StartsOfZonedDays[zone][d] \in Int
               /\ StartsOfZonedDays[zone][d] <= t <=> d <= DateOf(t, zone)
    <2>1. d \in Int /\ 24 * d \in Horizon /\ \E u \in Scan(d) : DateOf(u, zone) = d
      BY <1>2, HorizonAssumption
    <2>2. (24 * d) \div 24 = d
      BY <2>1
    <2>3. d \in {u \div 24 : u \in Horizon}
      BY <2>1, <2>2
    <2>4. StartsOfZonedDays[zone][d] = StartOfZonedDay(d, zone)
      BY <2>3 DEF StartsOfZonedDays
    <2> QED
      BY <1>1, <2>1, <2>4, DayBegins
  <1>4. t \in Int /\ date \in Int
    BY <1>1, <1>2, ZonesAssumption
  <1>5. StartsOfZonedDays[zone][date] <= t <=> date <= DateOf(t, zone)
    BY <1>2, <1>3
  <1>6. /\ StartsOfZonedDays[zone][date + 1] \in Int
        /\ StartsOfZonedDays[zone][date + 1] <= t <=> date + 1 <= DateOf(t, zone)
    <2>1. date + 1 \in (DateOf(t, zone) - 1)..(DateOf(t, zone) + 2)
      BY <1>2
    <2> QED
      BY <1>3, <2>1
  <1> QED
    BY <1>2, <1>4, <1>5, <1>6 DEF InZonedDay

-----------------------------------------------------------------------------
(* What a board reads of the documents.                                    *)

Statuses  == {"RECEIVED", "READY_FOR_AI", "DEDUPED", "CLASSIFIED", "FAILED"}
Labels    == {"extracting", "ready", "classified", "unchanged", "unread", "failed"}
DocNotes  == [DOMAIN DocumentDaySignals({}) -> BOOLEAN]
TextNotes == [DOMAIN AnalysisDaySignals({}) -> BOOLEAN]

\* The order in which the loop of the board prefers rows is strict.
LEMMA BetterIsAnOrder ==
  ASSUME NEW a \in Documents, NEW b \in Documents, NEW c \in Documents
  PROVE  ~IsBetter(a, a) /\ (IsBetter(a, b) /\ IsBetter(b, c) => IsBetter(a, c))
  <1>1. \A r \in {a, b, c} : PipelineRank(r.st) \in Int /\ r.pref \in Int /\ r.n \in Int
    BY DEF PipelineRank, Documents
  <1> QED
    BY <1>1 DEF IsBetter

\* So the board of a day ends with a row of its own.
LEMMA BestRowIsARow ==
  ASSUME NEW rows \in SUBSET Documents, IsFiniteSet(rows), rows # {}
  PROVE  BestRow(rows) \in rows
  <1> DEFINE R == {pair \in rows \X rows : IsBetter(pair[1], pair[2])}
  <1>1. \A x, y \in rows : <<x, y>> \in R <=> IsBetter(x, y)
    OBVIOUS
  <1> HIDE DEF R
  <1>2. \A x \in rows : <<x, x>> \notin R
    BY <1>1, BetterIsAnOrder
  <1>3. ASSUME NEW x \in rows, NEW y \in rows, NEW z \in rows, <<x, y>> \in R, <<y, z>> \in R
        PROVE  <<x, z>> \in R
    BY <1>1, <1>3, BetterIsAnOrder
  <1>4. \E r \in rows : \A other \in rows : <<other, r>> \notin R
    BY <1>2, <1>3, FirstOfOrder
  <1>5. \E r \in rows : \A other \in rows : ~IsBetter(other, r)
    BY <1>1, <1>4
  <1> QED
    BY <1>5 DEF BestRow

LEMMA RowsTypes ==
  ASSUME page \in [Pages -> Documents \cup {None}], NEW date
  PROVE  /\ Rows(date) \in SUBSET Documents /\ IsFiniteSet(Rows(date))
         /\ \A r \in Rows(date) : r.st \in Statuses
         /\ \A p \in Pages : OnBoard(p, date) => page[p] \in Rows(date)
  <1> DEFINE shown == {q \in Pages : OnBoard(q, date)}
  <1>1. IsFiniteSet(shown)
    BY PanelAssumption, FS_Subset
  <1>2. \A q \in shown : page[q] \in Documents /\ page[q].st \in Statuses
    BY DEF OnBoard, Documents, Statuses
  <1>3. Rows(date) = {page[q] : q \in shown}
    BY DEF Rows
  <1>4. \A p \in Pages : OnBoard(p, date) => p \in shown
    OBVIOUS
  <1> HIDE DEF shown
  <1>5. IsFiniteSet({page[q] : q \in shown})
    <2> DEFINE image == {page[q] : q \in shown}
               f     == [q \in shown |-> page[q]]
    <2>1. f \in Surjection(shown, image)
      BY DEF Surjection
    <2> HIDE DEF f, image
    <2>2. IsFiniteSet(image)
      BY <1>1, <2>1, FS_Surjection
    <2> QED
      BY <2>2 DEF image
  <1> QED
    BY <1>2, <1>3, <1>4, <1>5

LEMMA BestStatusTypes ==
  ASSUME NEW rows \in SUBSET Documents, IsFiniteSet(rows), \A r \in rows : r.st \in Statuses
  PROVE  BestStatus(rows) \in Labels \cup {None}
  <1>1. CASE rows = {}
    BY <1>1 DEF BestStatus, BestRow
  <1>2. CASE rows # {}
    <2>1. BestRow(rows) \in Documents /\ BestRow(rows).st \in Statuses
      BY <1>2, BestRowIsARow
    <2>2. BestRow(rows) # None
      BY <2>1, NoneAssumption
    <2>3. MapDocumentPipelineStatus(BestRow(rows)) \in Labels
      BY <2>1 DEF MapDocumentPipelineStatus, Statuses, Labels, ExtractActive
    <2> QED
      BY <2>2, <2>3 DEF BestStatus
  <1> QED
    BY <1>1, <1>2

LEMMA SignalTypes ==
  ASSUME NEW rows
  PROVE  DocumentDaySignals(rows) \in DocNotes /\ AnalysisDaySignals(rows) \in TextNotes
  <1>1. DocumentDaySignals(rows) \in DocNotes
    <2>1. \A a, b, c, d, e \in BOOLEAN :
            [hadUnchanged |-> a, hadUnread |-> b, hadFailed |-> c, hasExtracting |-> d,
             hasReadyOrClassified |-> e] \in DocNotes
      BY DEF DocumentDaySignals, DocNotes
    <2> DEFINE mapped == {MapDocumentPipelineStatus(r) : r \in rows}
               a == "unchanged" \in mapped
               b == "unread" \in mapped
               c == "failed" \in mapped
               d == \E r \in rows : r.st \in ExtractActive
               e == mapped \cap {"ready", "classified"} # {}
    <2>2. a \in BOOLEAN /\ b \in BOOLEAN /\ c \in BOOLEAN /\ d \in BOOLEAN /\ e \in BOOLEAN
      OBVIOUS
    <2>3. DocumentDaySignals(rows) =
            [hadUnchanged |-> a, hadUnread |-> b, hadFailed |-> c, hasExtracting |-> d,
             hasReadyOrClassified |-> e]
      BY DEF DocumentDaySignals
    <2> HIDE DEF a, b, c, d, e
    <2> QED
      BY <2>1, <2>2, <2>3
  <1>2. AnalysisDaySignals(rows) \in TextNotes
    <2>1. \A a, b, c \in BOOLEAN :
            [hasReadyForAi |-> a, hasClassifiedDoc |-> b, hasClassifyFailed |-> c] \in TextNotes
      BY DEF AnalysisDaySignals, TextNotes
    <2> DEFINE a == \E r \in rows : r.st = "READY_FOR_AI"
               b == \E r \in rows : r.st = "CLASSIFIED"
               c == \E r \in rows : r.st = "FAILED" /\ r.err = "classify"
    <2>2. a \in BOOLEAN /\ b \in BOOLEAN /\ c \in BOOLEAN
      OBVIOUS
    <2>3. AnalysisDaySignals(rows) =
            [hasReadyForAi |-> a, hasClassifiedDoc |-> b, hasClassifyFailed |-> c]
      BY DEF AnalysisDaySignals
    <2> HIDE DEF a, b, c
    <2> QED
      BY <2>1, <2>2, <2>3
  <1> QED
    BY <1>1, <1>2

-----------------------------------------------------------------------------
(* Types.                                                                  *)

\* A run that waits for the worker has made no attempt: what is left of its job is whole.
WaitingRunsAreFresh == \A k \in Keys : Has(k, "QUEUED") => run[k].made = 0

PanelTypes == TypeOK /\ WaitingRunsAreFresh

\* The rank of the next row of a table that has room.
LEMMA NextRank ==
  ASSUME NEW S, IsFiniteSet(S), NEW T \in SUBSET S, NEW x \in S, x \notin T
  PROVE  Cardinality(T) + 1 \in 1..Cardinality(S)
  <1>1. IsFiniteSet(T) /\ Cardinality(T) \in Nat /\ Cardinality(S) \in Nat
    BY FS_Subset, FS_CardinalityType
  <1>2. Cardinality(T) <= Cardinality(S) /\ Cardinality(T) # Cardinality(S)
    BY FS_Subset
  <1> QED
    BY <1>1, <1>2

LEMMA KeysAreFinite == IsFiniteSet(Keys)
  <1>1. IsFiniteSet({"admin"} \cup {"scheduled"})
    BY FS_Singleton, FS_Union
  <1>2. {"admin"} \cup {"scheduled"} = {"admin", "scheduled"}
    OBVIOUS
  <1> QED
    BY <1>1, <1>2, PanelAssumption, FS_Product DEF Keys

LEMMA SpendTypes ==
  ASSUME budget \in [Kinds -> Nat], NEW kind \in Kinds, Spend(kind)
  PROVE  budget' \in [Kinds -> Nat]
  <1>1. "any" \in Kinds
    BY DEF Kinds
  <1>2. budget[kind] \in Nat /\ budget["any"] \in Nat /\ budget[kind] > 0 /\ budget["any"] > 0
    BY <1>1 DEF Spend
  <1>3. \A c \in {kind, "any"} : budget[c] - 1 \in Nat
    BY <1>2
  <1> QED
    BY <1>1, <1>2, <1>3 DEF Spend

LEMMA RestartTypes ==
  ASSUME poll \in Polls, NEW k \in Keys
  PROVE  Restarts(k) \in Polls
  <1>1. [poll EXCEPT !.restarted = @ \cup {k}] \in Polls
    BY DEF Polls
  <1> QED
    BY <1>1 DEF Restarts

LEMMA MissTypes ==
  ASSUME poll \in Polls, NEW p \in Pages
  PROVE  Misses(p) \in Polls
  <1>1. [poll EXCEPT !.missed = @ \cup {p}] \in Polls
    BY DEF Polls
  <1> QED
    BY <1>1 DEF Misses

LEMMA NoPollTypes == NoPoll \in Polls
  BY DEF NoPoll, Polls

LEMMA EnqueueTypes ==
  ASSUME PanelTypes, NEW k \in Keys, Enqueue(k)
  PROVE  /\ run' \in [Keys -> Runs \cup {None}] /\ poll' \in Polls /\ WaitingRunsAreFresh'
         /\ run'[k] \in Runs /\ \A x \in Keys \ {k} : run'[x] = run[x]
         /\ run'[k].st = "QUEUED"
  <1>1. poll' \in Polls
    BY RestartTypes DEF PanelTypes, TypeOK, Enqueue
  <1> DEFINE row == IF run[k] = None THEN NewRun ELSE [run[k] EXCEPT !.st = "QUEUED", !.made = 0]
  <1>2. row \in Runs /\ row.st = "QUEUED" /\ row.made = 0
    <2>1. CASE run[k] = None
      <3>1. {x \in Keys : run[x] # None} \in SUBSET Keys /\ k \notin {x \in Keys : run[x] # None}
        BY <2>1
      <3>2. Cardinality({x \in Keys : run[x] # None}) + 1 \in 1..Cardinality(Keys)
        BY <3>1, KeysAreFinite, NextRank
      <3>3. 0 \in 0..Attempts
        BY PanelAssumption
      <3>4. NewRun \in Runs /\ NewRun.st = "QUEUED" /\ NewRun.made = 0
        BY <3>2, <3>3 DEF NewRun, Runs
      <3> QED
        BY <2>1, <3>4
    <2>2. CASE run[k] # None
      <3>1. run[k] \in Runs /\ 0 \in 0..Attempts
        BY <2>2, PanelAssumption DEF PanelTypes, TypeOK
      <3> QED
        BY <2>2, <3>1 DEF Runs
    <2> QED
      BY <2>1, <2>2
  <1>3. run' = [run EXCEPT ![k] = row]
    BY DEF Enqueue
  <1> HIDE DEF row
  <1>4. /\ run' \in [Keys -> Runs \cup {None}] /\ run'[k] = row
        /\ \A x \in Keys \ {k} : run'[x] = run[x]
    BY <1>2, <1>3 DEF PanelTypes, TypeOK
  <1>5. WaitingRunsAreFresh'
    BY <1>2, <1>4 DEF WaitingRunsAreFresh, PanelTypes, Has
  <1> QED
    BY <1>1, <1>2, <1>4, <1>5

\* The other steps of a run change its status, and count an attempt.
LEMMA RunTypes ==
  ASSUME PanelTypes, NEW k \in Keys, run[k] # None,
         NEW st \in {"RUNNING", "SUCCESS", "FAILED"}, NEW made \in 0..Attempts,
         run' = [run EXCEPT ![k] = [run[k] EXCEPT !.st = st, !.made = made]]
  PROVE  /\ run' \in [Keys -> Runs \cup {None}] /\ WaitingRunsAreFresh'
         /\ run'[k] \in Runs /\ \A x \in Keys \ {k} : run'[x] = run[x]
         /\ run'[k].st = st
  <1>1. run[k] \in Runs
    BY DEF PanelTypes, TypeOK
  <1>2. [run[k] EXCEPT !.st = st, !.made = made] \in Runs
        /\ [run[k] EXCEPT !.st = st, !.made = made].st = st
    BY <1>1 DEF Runs
  <1>3. /\ run' \in [Keys -> Runs \cup {None}] /\ run'[k] \in Runs /\ run'[k].st = st
        /\ \A x \in Keys \ {k} : run'[x] = run[x]
    BY <1>2 DEF PanelTypes, TypeOK
  <1>4. WaitingRunsAreFresh'
    BY <1>3 DEF WaitingRunsAreFresh, PanelTypes, Has
  <1> QED
    BY <1>3, <1>4

\* A step of a crawl sets the row of its key, as the lemma before says.
LEMMA CrawlStepOf ==
  ASSUME PanelTypes, NEW k \in Keys,
         CrawlStarts(k) \/ CrawlRetries(k) \/ CrawlSucceeds(k) \/ CrawlFails(k)
  PROVE  /\ run[k] # None /\ run[k].st \in {"QUEUED", "RUNNING", "FAILED"}
         /\ \E st \in {"RUNNING", "SUCCESS", "FAILED"}, made \in 0..Attempts :
              /\ run' = [run EXCEPT ![k] = [run[k] EXCEPT !.st = st, !.made = made]]
              /\ st = "RUNNING" <=> CrawlStarts(k) \/ CrawlRetries(k)
  <1> DEFINE Set(st, made) == [run EXCEPT ![k] = [run[k] EXCEPT !.st = st, !.made = made]]
  <1>1. run[k] \in Runs /\ run[k] # None /\ run \in [Keys -> Runs \cup {None}]
    BY NoneAssumption DEF PanelTypes, TypeOK, CrawlStarts, CrawlRetries, CrawlSucceeds, CrawlFails,
                          Has, WillRetry
  <1>2. run[k].made \in 0..Attempts /\ Attempts \in Nat \ {0}
    BY <1>1, PanelAssumption DEF Runs
  <1>3. \A r \in Runs : \A st : [r EXCEPT !.st = st] = [r EXCEPT !.st = st, !.made = r.made]
    BY DEF Runs
  <1>4. \A st : [run EXCEPT ![k].st = st] = Set(st, run[k].made)
    BY <1>1, <1>3
  <1>5. \A st, made : [run EXCEPT ![k].st = st, ![k].made = made] = Set(st, made)
    BY <1>1
  <1>6. CASE CrawlStarts(k)
    <2>1. run[k].st = "QUEUED" /\ run[k].made + 1 \in 0..Attempts
      BY <1>2, <1>6 DEF PanelTypes, WaitingRunsAreFresh, CrawlStarts, Has
    <2>2. run' = Set("RUNNING", run[k].made + 1)
      BY <1>5, <1>6 DEF CrawlStarts
    <2> QED
      BY <1>1, <1>6, <2>1, <2>2
  <1>7. CASE CrawlRetries(k)
    <2>1. run[k].st = "FAILED" /\ run[k].made + 1 \in 0..Attempts
      BY <1>2, <1>7 DEF CrawlRetries, WillRetry
    <2>2. run' = Set("RUNNING", run[k].made + 1)
      BY <1>5, <1>7 DEF CrawlRetries
    <2> QED
      BY <1>1, <1>7, <2>1, <2>2
  <1>8. CASE (CrawlSucceeds(k) \/ CrawlFails(k)) /\ ~CrawlStarts(k) /\ ~CrawlRetries(k)
    <2>1. run[k].st = "RUNNING"
      BY <1>8 DEF CrawlSucceeds, CrawlFails, Has
    <2>2. \/ run' = Set("SUCCESS", run[k].made)
          \/ run' = Set("FAILED", run[k].made)
          \/ run' = Set("FAILED", Attempts)
      <3>1. CrawlSucceeds(k) => run' = Set("SUCCESS", run[k].made)
        BY <1>4 DEF CrawlSucceeds
      <3>2. CrawlFails(k) => run' = Set("FAILED", run[k].made) \/ run' = Set("FAILED", Attempts)
        BY <1>4, <1>5 DEF CrawlFails
      <3> QED
        BY <1>8, <3>1, <3>2
    <2>3. Attempts \in 0..Attempts
      BY <1>2
    <2> HIDE DEF Set
    <2>4. \E st \in {"SUCCESS", "FAILED"}, made \in 0..Attempts : run' = Set(st, made)
      BY <1>2, <2>2, <2>3
    <2> QED
      BY <1>1, <1>8, <2>1, <2>4 DEF Set
  <1> QED
    BY <1>6, <1>7, <1>8

\* A page is saved once, last of those there are, and is then in the extraction.
LEMMA SavePageTypes ==
  ASSUME PanelTypes, NEW k \in Keys, NEW p \in Pages, SavePage(k, p)
  PROVE  /\ page' \in [Pages -> Documents \cup {None}] /\ poll' \in Polls
         /\ page'[p] \in Documents /\ \A q \in Pages \ {p} : page'[q] = page[q]
  <1> DEFINE row == [st |-> "RECEIVED", err |-> None, pref |-> Pref[p], at |-> now, day |-> k[1],
                     n |-> Cardinality({q \in Pages : page[q] # None}) + 1]
  <1>1. row \in Documents
    <2>1. p \notin {q \in Pages : page[q] # None} /\ {q \in Pages : page[q] # None} \in SUBSET Pages
      BY DEF SavePage
    <2>2. Cardinality({q \in Pages : page[q] # None}) + 1 \in 1..Cardinality(Pages)
      BY <2>1, NextRank, PanelAssumption
    <2>3. Pref[p] \in 0..2 /\ now \in Instants /\ k[1] \in Dates
      BY PanelAssumption DEF PanelTypes, TypeOK, Keys
    <2> QED
      BY <2>2, <2>3 DEF Documents, Errors
  <1>2. page' = [page EXCEPT ![p] = row]
    BY DEF SavePage
  <1> HIDE DEF row
  <1>3. poll' \in Polls
    BY MissTypes DEF SavePage, PanelTypes, TypeOK
  <1> QED
    BY <1>1, <1>2, <1>3 DEF PanelTypes, TypeOK

\* A step of a page changes its status and its error alone.
LEMMA PageStepOf ==
  ASSUME PanelTypes, NEW p \in Pages, Extract(p) \/ Classify(p)
  PROVE  /\ page' \in [Pages -> Documents \cup {None}]
         /\ page[p] \in Documents /\ page'[p] \in Documents
         /\ \A q \in Pages \ {p} : page'[q] = page[q]
         /\ page'[p].at = page[p].at /\ page'[p].day = page[p].day
         /\ Extract(p) =>
              /\ page[p].st = "RECEIVED"
              /\ \/ page'[p].st \in {"READY_FOR_AI", "DEDUPED", "DISCARDED"}
                 \/ page'[p].st = "FAILED" /\ page'[p].err # "classify"
         /\ Classify(p) =>
              /\ page[p].st = "READY_FOR_AI"
              /\ \/ page'[p].st = "CLASSIFIED"
                 \/ page'[p].st = "FAILED" /\ page'[p].err = "classify"
  <1>1. page[p] \in Documents /\ page \in [Pages -> Documents \cup {None}]
    BY DEF PanelTypes, TypeOK, Extract, Classify, Is
  <1>2. ASSUME NEW st \in {"READY_FOR_AI", "DEDUPED", "DISCARDED", "CLASSIFIED", "FAILED"},
               NEW err \in Errors, SetPage(p, st, err)
        PROVE  /\ page' \in [Pages -> Documents \cup {None}]
               /\ page'[p] \in Documents /\ page'[p].st = st /\ page'[p].err = err
               /\ \A q \in Pages \ {p} : page'[q] = page[q]
               /\ page'[p].at = page[p].at /\ page'[p].day = page[p].day
    <2>1. page' = [page EXCEPT ![p] = [page[p] EXCEPT !.st = st, !.err = err]]
      BY <1>1, <1>2 DEF SetPage
    <2>2. /\ [page[p] EXCEPT !.st = st, !.err = err] \in Documents
          /\ [page[p] EXCEPT !.st = st, !.err = err].st = st
          /\ [page[p] EXCEPT !.st = st, !.err = err].err = err
          /\ [page[p] EXCEPT !.st = st, !.err = err].at = page[p].at
          /\ [page[p] EXCEPT !.st = st, !.err = err].day = page[p].day
      BY <1>1 DEF Documents
    <2> QED
      BY <1>1, <2>1, <2>2
  <1>3. {None, "unread", "technical", "classify"} \subseteq Errors
    BY DEF Errors
  <1>4. CASE Extract(p)
    <2>1. \/ \E st \in {"READY_FOR_AI", "DEDUPED", "DISCARDED"} : SetPage(p, st, None)
          \/ \E err \in {"unread", "technical"} : SetPage(p, "FAILED", err)
      BY <1>4 DEF Extract
    <2>2. page[p].st = "RECEIVED"
      BY <1>4 DEF Extract, Is
    <2> QED
      BY <1>1, <1>2, <1>3, <2>1, <2>2 DEF Classify, Is
  <1>5. CASE Classify(p)
    <2>1. SetPage(p, "CLASSIFIED", None) \/ SetPage(p, "FAILED", "classify")
      BY <1>5 DEF Classify
    <2>2. page[p].st = "READY_FOR_AI"
      BY <1>5 DEF Classify, Is
    <2> QED
      BY <1>1, <1>2, <1>3, <2>1, <2>2 DEF Extract, Is
  <1> QED
    BY <1>4, <1>5

LEMMA InitTypes == Init => PanelTypes
  <1>1. Init => NoPoll \in Polls
    BY NoPollTypes
  <1>2. Init => WaitingRunsAreFresh
    BY DEF Init, WaitingRunsAreFresh, Has
  <1> QED
    BY <1>1, <1>2, PanelAssumption DEF Init, PanelTypes, TypeOK

LEMMA ClockTypes ==
  ASSUME PanelTypes, Hour \/ Stop \/ Restart
  PROVE  PanelTypes'
  <1> USE DEF PanelTypes, TypeOK
  <1>1. /\ UNCHANGED <<run, page, finding>> /\ ticked' \in BOOLEAN /\ up' \in BOOLEAN
        /\ now' \in Instants /\ idle' \subseteq Instants
    BY DEF Hour, Stop, Restart
  <1>2. poll' \in Polls
    BY NoPollTypes DEF Hour, Stop, Restart
  <1>3. budget' \in [Kinds -> Nat]
    <2>1. "stop" \in Kinds
      BY DEF Kinds
    <2> QED
      BY <2>1, SpendTypes DEF Hour, Stop, Restart
  <1>4. WaitingRunsAreFresh'
    BY <1>1 DEF WaitingRunsAreFresh, Has
  <1> QED
    BY <1>1, <1>2, <1>3, <1>4

LEMMA RunStepTypes ==
  ASSUME PanelTypes,
         \/ Tick
         \/ TriggerCrawl
         \/ \E k \in Keys : CrawlStarts(k) \/ CrawlRetries(k) \/ CrawlSucceeds(k) \/ CrawlFails(k)
  PROVE  PanelTypes'
  <1>1. CASE Tick
    <2>1. UNCHANGED <<now, up, idle, page, finding, budget>> /\ ticked' = TRUE
      BY <1>1 DEF Tick
    <2>2. /\ run' \in [Keys -> Runs \cup {None}] /\ poll' \in Polls /\ WaitingRunsAreFresh'
      <3>1. CASE UNCHANGED <<run, poll>>
        BY <3>1 DEF PanelTypes, TypeOK, WaitingRunsAreFresh, Has
      <3>2. CASE <<Today, "scheduled">> \in Keys /\ Enqueue(<<Today, "scheduled">>)
        BY <3>2, EnqueueTypes
      <3> QED
        BY <1>1, <3>1, <3>2 DEF Tick
    <2> QED
      BY <2>1, <2>2 DEF PanelTypes, TypeOK
  <1>2. CASE TriggerCrawl
    <2>1. /\ UNCHANGED <<now, ticked, up, idle, page, finding>>
          /\ <<Today, "admin">> \in Keys /\ Enqueue(<<Today, "admin">>)
      BY <1>2 DEF TriggerCrawl, clock
    <2>2. budget' \in [Kinds -> Nat]
      <3>1. "admin" \in Kinds
        BY DEF Kinds
      <3> QED
        BY <1>2, <3>1, SpendTypes DEF TriggerCrawl, PanelTypes, TypeOK
    <2>3. /\ run' \in [Keys -> Runs \cup {None}] /\ poll' \in Polls /\ WaitingRunsAreFresh'
      BY <2>1, EnqueueTypes
    <2> QED
      BY <2>1, <2>2, <2>3 DEF PanelTypes, TypeOK
  <1>3. ASSUME NEW k \in Keys,
               CrawlStarts(k) \/ CrawlRetries(k) \/ CrawlSucceeds(k) \/ CrawlFails(k)
        PROVE  PanelTypes'
    <2>1. UNCHANGED <<now, ticked, up, idle, page, finding, budget>> /\ poll' \in {poll, Restarts(k)}
      BY <1>3 DEF CrawlStarts, CrawlRetries, CrawlSucceeds, CrawlFails, clock
    <2>2. run' \in [Keys -> Runs \cup {None}] /\ WaitingRunsAreFresh'
      BY <1>3, CrawlStepOf, RunTypes
    <2>3. poll' \in Polls
      BY <2>1, RestartTypes DEF PanelTypes, TypeOK
    <2> QED
      BY <2>1, <2>2, <2>3 DEF PanelTypes, TypeOK
  <1> QED
    BY <1>1, <1>2, <1>3

LEMMA PageTypes ==
  ASSUME PanelTypes,
         \/ \E k \in Keys, p \in Pages : SavePage(k, p)
         \/ \E p \in Pages : Extract(p) \/ Classify(p)
  PROVE  PanelTypes'
  <1>1. ASSUME NEW k \in Keys, NEW p \in Pages, SavePage(k, p)
        PROVE  PanelTypes'
    <2>1. UNCHANGED <<now, ticked, up, idle, run, finding, budget>>
      BY <1>1 DEF SavePage, clock
    <2>2. /\ page' \in [Pages -> Documents \cup {None}] /\ poll' \in Polls
          /\ page'[p] \in Documents /\ \A q \in Pages \ {p} : page'[q] = page[q]
      BY <1>1, SavePageTypes
    <2>3. \A q \in Pages : finding'[q] # None => page'[q] # None
      BY <2>1, <2>2, NoneAssumption DEF PanelTypes, TypeOK
    <2>4. WaitingRunsAreFresh'
      BY <2>1 DEF PanelTypes, WaitingRunsAreFresh, Has
    <2> QED
      BY <2>1, <2>2, <2>3, <2>4 DEF PanelTypes, TypeOK
  <1>2. ASSUME NEW p \in Pages, Extract(p) \/ Classify(p)
        PROVE  PanelTypes'
    <2>1. /\ UNCHANGED <<now, ticked, up, idle, run, poll, budget>>
          /\ \/ UNCHANGED finding
             \/ finding' = [finding EXCEPT ![p] = IF @ = None THEN now ELSE @]
      BY <1>2 DEF Extract, Classify, clock
    <2>2. /\ page' \in [Pages -> Documents \cup {None}] /\ page'[p] \in Documents
          /\ \A q \in Pages \ {p} : page'[q] = page[q]
      BY <1>2, PageStepOf
    <2>3. finding' \in [Pages -> Instants \cup {None}]
          /\ \A q \in Pages : finding'[q] # None => page'[q] # None
      BY <2>1, <2>2, NoneAssumption DEF PanelTypes, TypeOK
    <2>4. WaitingRunsAreFresh'
      BY <2>1 DEF PanelTypes, WaitingRunsAreFresh, Has
    <2> QED
      BY <2>1, <2>2, <2>3, <2>4 DEF PanelTypes, TypeOK
  <1> QED
    BY <1>1, <1>2

LEMMA BoardTypes ==
  ASSUME PanelTypes, Board
  PROVE  PanelTypes'
  <1> USE DEF PanelTypes, TypeOK
  <1>1. UNCHANGED <<now, ticked, up, idle, run, page, finding>>
    BY DEF Board, AsksDocuments, AnswersDocuments, AsksFindings, ReadsFindings, AnswersFindings,
           clock
  <1>2. budget' \in [Kinds -> Nat]
    <2>1. "poll" \in Kinds
      BY DEF Kinds
    <2> QED
      BY <2>1, SpendTypes DEF Board, AsksDocuments, AnswersDocuments, AsksFindings, ReadsFindings,
                              AnswersFindings
  <1>3. poll' \in Polls
    <2>1. ASSUME NEW date \in Dates, AsksDocuments(date)
          PROVE  poll' \in Polls
      <3>1. BestStatus(Rows(date)) \in Labels \cup {None}
        BY RowsTypes, BestStatusTypes
      <3>2. DocumentDaySignals(Rows(date)) \in DocNotes
        BY SignalTypes
      <3>3. poll' = [NoPoll EXCEPT !.pc = "crawls", !.date = date, !.best = BestStatus(Rows(date)),
                                   !.signals = DocumentDaySignals(Rows(date))]
        BY <2>1 DEF AsksDocuments
      <3> QED
        BY <3>1, <3>2, <3>3, NoPollTypes DEF Polls, Labels, DocNotes
    <2>2. CASE AnswersDocuments
      BY <2>2, NoPollTypes DEF AnswersDocuments, Polls, Mark
    <2>3. CASE AsksFindings
      <3>1. AnalysisDaySignals(Rows(poll.date)) \in TextNotes
        BY SignalTypes
      <3> QED
        BY <2>3, <3>1 DEF AsksFindings, Polls, TextNotes
    <2>4. CASE ReadsFindings
      <3>1. Found(poll.date) \in BOOLEAN
        BY DEF Found
      <3> QED
        BY <2>4, <3>1 DEF ReadsFindings, Polls
    <2>5. CASE AnswersFindings
      <3>1. \/ poll' = NoPoll
            \/ \E mark \in {"plain", "noted"} :
                 poll' = [poll EXCEPT !.pc = "answered", !.analysis = mark,
                                      !.signals = None, !.found = FALSE]
        BY <2>5 DEF AnswersFindings, Mark
      <3>2. \A mark \in {"plain", "noted"} :
              [poll EXCEPT !.pc = "answered", !.analysis = mark, !.signals = None, !.found = FALSE]
                \in Polls
        BY DEF Polls
      <3> QED
        BY <3>1, <3>2, NoPollTypes
    <2> QED
      BY <2>1, <2>2, <2>3, <2>4, <2>5 DEF Board
  <1>4. WaitingRunsAreFresh'
    BY <1>1 DEF WaitingRunsAreFresh, Has
  <1> QED
    BY <1>1, <1>2, <1>3, <1>4

LEMMA StepTypes == PanelTypes /\ [Next]_vars => PanelTypes'
  <1> SUFFICES ASSUME PanelTypes, [Next]_vars
               PROVE  PanelTypes'
    OBVIOUS
  <1>1. CASE UNCHANGED vars
    BY <1>1 DEF PanelTypes, TypeOK, WaitingRunsAreFresh, Has, vars, clock
  <1> QED
    BY <1>1, ClockTypes, RunStepTypes, PageTypes, BoardTypes DEF Next, Worker

\* The rows of the runs, the pages and the findings, and what the panel has been told, always
\* have their types, a crawl has never more attempts than its job, and the board of a day
\* shows a row of that day.
THEOREM PanelTyped == Spec => []TypeOK
  <1>1. Spec => []PanelTypes
    BY InitTypes, StepTypes, PTL DEF Spec
  <1> QED
    BY <1>1, PTL DEF PanelTypes

-----------------------------------------------------------------------------
(* Days.                                                                   *)

\* A finding, a document or a report of any hour of the system is listed on the day its date
\* says and on neither neighbour of it, in every zone (zonedDayRange, schedule-window.ts:172).
THEOREM HourSafety == Spec => []HourIsInItsDay
  <1>1. TypeOK => HourIsInItsDay
    <2> SUFFICES ASSUME TypeOK, NEW zone \in Zones,
                        NEW date \in (DateOf(now, zone) - 1)..(DateOf(now, zone) + 1)
                 PROVE  InZonedDay(now, date, zone) <=> date = DateOf(now, zone)
      BY DEF HourIsInItsDay
    <2> QED
      BY InstantIsInItsDay DEF TypeOK
  <1> QED
    BY <1>1, PanelTyped, PTL

\* If the source is due at an hour, its day has a run.
Crawled(t) ==
  IsDue(Schedule, t) /\ DateOf(t, Schedule.zone) \in Dates =>
    \E k \in Keys : k[1] = DateOf(t, Schedule.zone) /\ run[k] # None

\* What the hours that saw a tick have left behind, the present one included.
TickInv ==
  /\ ticked => Crawled(now)
  /\ \A t \in Instants \ idle : t < now => Crawled(t)

\* No row of a run is ever deleted here.
LEMMA RunsStay ==
  ASSUME PanelTypes, [Next]_vars, NEW k \in Keys, run[k] # None
  PROVE  run'[k] # None
  <1>1. run[k] \in Runs
    BY DEF PanelTypes, TypeOK
  <1>2. ASSUME NEW x \in Keys, Enqueue(x)
        PROVE  run'[k] # None
    BY <1>1, <1>2, EnqueueTypes, NoneAssumption
  <1>3. ASSUME NEW x \in Keys,
               CrawlStarts(x) \/ CrawlRetries(x) \/ CrawlSucceeds(x) \/ CrawlFails(x)
        PROVE  run'[k] # None
    <2>1. run'[x] \in Runs /\ \A y \in Keys \ {x} : run'[y] = run[y]
      BY <1>3, CrawlStepOf, RunTypes
    <2> QED
      BY <1>1, <2>1, NoneAssumption
  <1>4. CASE Tick \/ TriggerCrawl
    <2>1. \/ \E x \in Keys : Enqueue(x)
          \/ UNCHANGED run
      BY <1>4 DEF Tick, TriggerCrawl
    <2> QED
      BY <1>1, <1>2, <2>1, NoneAssumption
  <1>5. CASE UNCHANGED run
    BY <1>1, <1>5, NoneAssumption
  <1> QED
    BY <1>3, <1>4, <1>5 DEF Next, Worker, Board, Hour, Stop, Restart, SavePage, Extract, Classify,
         AsksDocuments, AnswersDocuments, AsksFindings, ReadsFindings, AnswersFindings, vars

LEMMA TickStep ==
  ASSUME PanelTypes, TickInv, [Next]_vars
  PROVE  TickInv'
  <1>1. \A t : Crawled(t) => Crawled(t)'
    BY RunsStay DEF Crawled
  <1>2. CASE Hour
    <2>1. ticked' = FALSE /\ now \in Int /\ now' \in Instants
          /\ \A u \in Instants : u > now => now' <= u
      BY <1>2, PanelAssumption, ZonesAssumption DEF Hour, PanelTypes, TypeOK
    <2>2. ASSUME NEW t \in Instants \ idle', t < now'
          PROVE  Crawled(t)'
      <3>1. t \in Int /\ now' \in Int
        BY <2>1, PanelAssumption, ZonesAssumption
      <3>2. t <= now
        BY <2>1, <2>2, <3>1
      <3>3. CASE t = now
        <4>1. ticked
          BY <1>2, <2>2, <3>3 DEF Hour
        <4> QED
          BY <1>1, <3>3, <4>1 DEF TickInv
      <3>4. CASE t < now
        <4>1. t \notin idle
          BY <1>2, <2>2 DEF Hour
        <4> QED
          BY <1>1, <3>4, <4>1 DEF TickInv
      <3> QED
        BY <2>1, <3>1, <3>2, <3>3, <3>4
    <2> QED
      BY <2>1, <2>2 DEF TickInv
  <1>3. CASE Tick
    <2>1. UNCHANGED <<now, idle>>
      BY <1>3 DEF Tick
    <2>2. ASSUME IsDue(Schedule, now), Today \in Dates
          PROVE  \E k \in Keys : k[1] = Today /\ run'[k] # None
      <3> DEFINE k == <<Today, "scheduled">>
      <3>1. k \in Keys /\ k[1] = Today
        BY <2>2 DEF Keys
      <3>2. CASE Enqueue(k)
        BY <3>1, <3>2, EnqueueTypes, NoneAssumption
      <3>3. CASE SameDayCrawlBlock \/ run[k] # None
        <4>1. \E x \in Keys : x[1] = Today /\ run[x] # None
          BY <3>1, <3>3 DEF SameDayCrawlBlock
        <4> QED
          BY <4>1, RunsStay
      <3> QED
        BY <1>3, <2>2, <3>1, <3>2, <3>3 DEF Tick
    <2>3. Crawled(now)'
      BY <2>1, <2>2 DEF Crawled, Today
    <2> QED
      BY <1>1, <2>1, <2>3 DEF TickInv
  <1>4. CASE UNCHANGED <<now, ticked, idle>>
    BY <1>1, <1>4 DEF TickInv
  <1> QED
    BY <1>2, <1>3, <1>4 DEF Next, Worker, Board, Stop, Restart, TriggerCrawl, CrawlStarts,
         CrawlRetries, CrawlSucceeds, CrawlFails, SavePage, Extract, Classify, AsksDocuments,
         AnswersDocuments, AsksFindings, ReadsFindings, AnswersFindings, vars, clock

\* However long the worker is down, whatever else crawls the source, and whatever the length
\* of the day: an hour of the schedule that saw a tick leaves a crawl of its own day.
THEOREM ScheduleSafety == Spec => []ScheduledDaysAreCrawled
  <1>1. Init => TickInv
    <2>1. Init => \A t \in Instants : ~(t < now)
      BY PanelAssumption, ZonesAssumption DEF Init
    <2> QED
      BY <2>1 DEF Init, TickInv
  <1>2. PanelTypes /\ TickInv /\ [Next]_vars => TickInv'
    BY TickStep
  <1>3. TickInv => ScheduledDaysAreCrawled
    <2> SUFFICES ASSUME TickInv, NEW t \in Instants \ idle, t < now,
                        DateOf(t, Schedule.zone) \in Dates, IsDue(Schedule, t)
                 PROVE  RunsOf(DateOf(t, Schedule.zone)) # {}
      BY DEF ScheduledDaysAreCrawled, DateOf, IsDue
    <2> QED
      BY DEF TickInv, Crawled, RunsOf
  <1> QED
    BY <1>1, <1>2, <1>3, InitTypes, StepTypes, PTL DEF Spec

-----------------------------------------------------------------------------
(* Boards.                                                                 *)

InExtraction(p)  == page[p].st \in ExtractActive
ExtractFailed(p) == page[p].st = "FAILED" /\ page[p].err # "classify"
WaitsForAi(p)    == page[p].st = "READY_FOR_AI"
AiFailed(p)      == page[p].st = "FAILED" /\ page[p].err = "classify"

\* The order of the requests: an answer is kept until the next hour, or the next question.
PollInv ==
  /\ poll.pc \in {"none", "crawls"} <=> poll.extraction = None
  /\ poll.pc = "answered" <=> poll.analysis # None

\* Until the crawls are read, the rows of the documents are not staler than they say: what
\* was in the extraction then, or had failed in it, has left its signal.
AskedInv == poll.pc = "crawls" =>
  /\ poll.signals \in DocNotes
  /\ \A p \in Known :
       /\ InExtraction(p) => poll.signals.hasExtracting
       /\ ExtractFailed(p) =>
            poll.signals.hasExtracting \/ poll.signals.hadUnread \/ poll.signals.hadFailed

\* After the answer that the extraction is done, only crawls begun since then are at work.
ExtractedInv == poll.extraction # None =>
  /\ \A p \in Known : ~InExtraction(p) /\ (ExtractFailed(p) => poll.extraction = "noted")
  /\ \A k \in Keys : k[1] = poll.date /\ (Has(k, "QUEUED") \/ Has(k, "RUNNING")) =>
       k \in poll.restarted

\* The same for the rows the board of the analysis reads, and for its answer.
AnalysedInv == poll.pc \in {"findings", "crawls again"} =>
  /\ poll.signals \in TextNotes
  /\ \A p \in Known :
       /\ WaitsForAi(p) => poll.signals.hasReadyForAi
       /\ AiFailed(p) => poll.signals.hasReadyForAi \/ poll.signals.hasClassifyFailed

ClassifiedInv == poll.analysis # None =>
  \A p \in Known : ~WaitsForAi(p) /\ (AiFailed(p) => poll.analysis = "noted")

BoardInv == PollInv /\ AskedInv /\ ExtractedInv /\ AnalysedInv /\ ClassifiedInv

\* A page stays known only as it was: no page enters the board of a day but a new one, and
\* what an answer has missed stays missed.
LEMMA KnownWasKnown ==
  ASSUME NEW q \in Known', poll'.date = poll.date, poll.missed \subseteq poll'.missed,
         \/ page'[q] = page[q]
         \/ /\ page[q] # None /\ page[q].st # "DISCARDED"
            /\ page'[q].at = page[q].at /\ page'[q].day = page[q].day
  PROVE  q \in Known
  BY DEF Known, OnBoard

\* A run that starts, or that is tried again, is at work after any answer; one that ends is not.
LEMMA RunsOnBoard ==
  ASSUME PanelTypes, BoardInv,
         \/ \E k \in Keys : Enqueue(k)
         \/ \E k \in Keys : CrawlStarts(k) \/ CrawlRetries(k) \/ CrawlSucceeds(k) \/ CrawlFails(k),
         UNCHANGED page
  PROVE  BoardInv'
  <1>1. PICK k \in Keys :
          Enqueue(k) \/ CrawlStarts(k) \/ CrawlRetries(k) \/ CrawlSucceeds(k) \/ CrawlFails(k)
    OBVIOUS
  <1>2. /\ poll \in Polls
        /\ poll' = poll \/ (k[1] = poll.date /\ poll' = [poll EXCEPT !.restarted = @ \cup {k}])
    BY <1>1 DEF PanelTypes, TypeOK, Enqueue, CrawlStarts, CrawlRetries, CrawlSucceeds, CrawlFails,
                Restarts
  <1>3. /\ poll'.pc = poll.pc /\ poll'.date = poll.date /\ poll'.missed = poll.missed
        /\ poll'.signals = poll.signals /\ poll'.extraction = poll.extraction
        /\ poll'.analysis = poll.analysis /\ poll.restarted \subseteq poll'.restarted
    BY <1>2 DEF Polls
  <1>4. Known' = Known
    BY <1>3 DEF Known, OnBoard
  <1>5. \A p \in Known : /\ InExtraction(p)' <=> InExtraction(p)
                         /\ ExtractFailed(p)' <=> ExtractFailed(p)
                         /\ WaitsForAi(p)' <=> WaitsForAi(p)
                         /\ AiFailed(p)' <=> AiFailed(p)
    BY DEF InExtraction, ExtractFailed, WaitsForAi, AiFailed
  <1>6. ASSUME poll.extraction # None, NEW x \in Keys, x[1] = poll.date,
               Has(x, "QUEUED")' \/ Has(x, "RUNNING")'
        PROVE  x \in poll'.restarted
    <2>1. Has(x, "QUEUED") \/ Has(x, "RUNNING") => x \in poll.restarted
      BY <1>6 DEF BoardInv, ExtractedInv
    <2>2. CASE x # k
      <3>1. run'[x] = run[x]
        <4>1. CASE Enqueue(k)
          BY <2>2, <4>1, EnqueueTypes
        <4>2. CASE CrawlStarts(k) \/ CrawlRetries(k) \/ CrawlSucceeds(k) \/ CrawlFails(k)
          <5>1. \A y \in Keys \ {k} : run'[y] = run[y]
            BY <4>2, CrawlStepOf, RunTypes
          <5> QED
            BY <2>2, <5>1
        <4> QED
          BY <1>1, <4>1, <4>2
      <3> QED
        BY <1>3, <1>6, <2>1, <3>1 DEF Has
    <2>3. CASE x = k
      <3>1. CASE Enqueue(k) \/ CrawlRetries(k)
        <4>1. poll' = [poll EXCEPT !.restarted = @ \cup {k}]
          BY <1>6, <2>3, <3>1 DEF Enqueue, CrawlRetries, Restarts
        <4> QED
          BY <1>2, <2>3, <4>1 DEF Polls
      <3>2. CASE CrawlStarts(k)
        BY <1>3, <2>1, <2>3, <3>2 DEF CrawlStarts
      <3>3. CASE CrawlSucceeds(k) \/ CrawlFails(k)
        <4>1. Has(k, "RUNNING")
          BY <3>3 DEF CrawlSucceeds, CrawlFails
        <4> QED
          BY <1>3, <2>1, <2>3, <4>1
      <3> QED
        BY <1>1, <3>1, <3>2, <3>3
    <2> QED
      BY <2>2, <2>3
  <1>7. PollInv' /\ AskedInv'
    BY <1>3, <1>4, <1>5 DEF BoardInv, PollInv, AskedInv
  <1>8. ExtractedInv'
    BY <1>3, <1>4, <1>5, <1>6 DEF BoardInv, ExtractedInv
  <1>9. AnalysedInv' /\ ClassifiedInv'
    BY <1>3, <1>4, <1>5 DEF BoardInv, AnalysedInv, ClassifiedInv
  <1> QED
    BY <1>7, <1>8, <1>9 DEF BoardInv

\* A page that is saved after the rows were read is missed by the answer, or else its crawl
\* would have been in flight.
LEMMA SavesOnBoard ==
  ASSUME PanelTypes, BoardInv, NEW k \in Keys, NEW p \in Pages, SavePage(k, p)
  PROVE  BoardInv'
  <1>1. /\ poll \in Polls /\ UNCHANGED run /\ Has(k, "RUNNING")
        /\ poll' = poll \/ poll' = [poll EXCEPT !.missed = @ \cup {p}]
    BY DEF SavePage, PanelTypes, TypeOK, Misses
  <1>2. /\ poll'.pc = poll.pc /\ poll'.date = poll.date /\ poll.missed \subseteq poll'.missed
        /\ poll'.signals = poll.signals /\ poll'.extraction = poll.extraction
        /\ poll'.analysis = poll.analysis /\ poll'.restarted = poll.restarted
    BY <1>1 DEF Polls
  <1>3. poll.pc # "none" => p \in poll'.missed
    <2>1. poll.pc \notin {"none", "crawls"} =>
            poll.extraction # None /\ (k[1] = poll.date => k \in poll.restarted)
      BY <1>1 DEF BoardInv, PollInv, ExtractedInv
    <2>2. poll.pc # "none" => poll' = [poll EXCEPT !.missed = @ \cup {p}]
      <3>1. poll.pc # "none" => poll.pc = "crawls" \/ k \in poll.restarted \/ k[1] # poll.date
        BY <2>1
      <3>2. poll.pc # "none" => poll' = Misses(p)
        BY <3>1 DEF SavePage
      <3> QED
        BY <3>2 DEF Misses
    <2>3. p \in [poll EXCEPT !.missed = @ \cup {p}].missed
      BY <1>1 DEF Polls
    <2> QED
      BY <2>2, <2>3
  <1>4. \A q \in Pages \ {p} : page'[q] = page[q]
    BY SavePageTypes
  <1>5. ASSUME NEW q \in Known', poll.pc # "none"
        PROVE  /\ q \in Known
               /\ InExtraction(q)' <=> InExtraction(q)
               /\ ExtractFailed(q)' <=> ExtractFailed(q)
               /\ WaitsForAi(q)' <=> WaitsForAi(q)
               /\ AiFailed(q)' <=> AiFailed(q)
    <2>1. q \in Pages /\ q \notin poll'.missed
      BY DEF Known
    <2>2. page'[q] = page[q]
      BY <1>3, <1>4, <1>5, <2>1
    <2> QED
      BY <1>2, <2>2, KnownWasKnown DEF InExtraction, ExtractFailed, WaitsForAi, AiFailed
  <1>6. PollInv' /\ (poll.extraction # None => poll.pc # "none")
        /\ (poll.analysis # None => poll.pc # "none")
    BY <1>2 DEF BoardInv, PollInv
  <1>7. AskedInv'
    BY <1>2, <1>5 DEF BoardInv, AskedInv
  <1>8. ExtractedInv'
    BY <1>1, <1>2, <1>5, <1>6 DEF BoardInv, ExtractedInv, Has
  <1>9. AnalysedInv' /\ ClassifiedInv'
    BY <1>2, <1>5, <1>6 DEF BoardInv, AnalysedInv, ClassifiedInv
  <1> QED
    BY <1>6, <1>7, <1>8, <1>9 DEF BoardInv

\* A page moves on before the answer or it was not known to wait.
LEMMA PagesOnBoard ==
  ASSUME PanelTypes, BoardInv, NEW p \in Pages, Extract(p) \/ Classify(p)
  PROVE  BoardInv'
  <1>1. UNCHANGED <<run, poll>>
    BY DEF Extract, Classify, clock
  <1>2. /\ page[p] \in Documents /\ page'[p] \in Documents
        /\ \A q \in Pages \ {p} : page'[q] = page[q]
        /\ page'[p].at = page[p].at /\ page'[p].day = page[p].day
        /\ \/ /\ page[p].st = "RECEIVED"
              /\ \/ page'[p].st \in {"READY_FOR_AI", "DEDUPED", "DISCARDED"}
                 \/ page'[p].st = "FAILED" /\ page'[p].err # "classify"
           \/ /\ page[p].st = "READY_FOR_AI"
              /\ \/ page'[p].st = "CLASSIFIED"
                 \/ page'[p].st = "FAILED" /\ page'[p].err = "classify"
    BY PageStepOf
  <1>3. Known' \subseteq Known
    <2>1. page[p] # None /\ page[p].st # "DISCARDED"
      BY <1>2, NoneAssumption
    <2>2. \A q \in Known' : q \in Pages
      BY DEF Known
    <2> QED
      BY <1>1, <1>2, <2>1, <2>2, KnownWasKnown
  <1>4. \A q \in Known : q \in Pages
    BY DEF Known
  <1>5. ASSUME NEW q \in Known
        PROVE  /\ InExtraction(q)' => InExtraction(q)
               /\ ExtractFailed(q)' => InExtraction(q) \/ ExtractFailed(q)
               /\ WaitsForAi(q)' => InExtraction(q) \/ WaitsForAi(q)
               /\ AiFailed(q)' => WaitsForAi(q) \/ AiFailed(q)
    <2>1. CASE q = p
      BY <1>2, <2>1 DEF InExtraction, ExtractFailed, WaitsForAi, AiFailed, ExtractActive
    <2>2. CASE q # p
      BY <1>2, <1>4, <2>2 DEF InExtraction, ExtractFailed, WaitsForAi, AiFailed
    <2> QED
      BY <2>1, <2>2
  <1>6. PollInv'
    BY <1>1 DEF BoardInv, PollInv
  <1>7. AskedInv'
    BY <1>1, <1>3, <1>5 DEF BoardInv, AskedInv
  <1>8. ExtractedInv'
    BY <1>1, <1>3, <1>5 DEF BoardInv, ExtractedInv, Has
  <1>9. (poll.pc \in {"findings", "crawls again"} => poll.extraction # None)
        /\ (poll.analysis # None => poll.extraction # None)
    BY DEF BoardInv, PollInv
  <1>10. poll.extraction # None => \A q \in Known : ~InExtraction(q)
    BY DEF BoardInv, ExtractedInv
  <1>11. AnalysedInv'
    BY <1>1, <1>3, <1>5, <1>9, <1>10 DEF BoardInv, AnalysedInv
  <1>12. ClassifiedInv'
    BY <1>1, <1>3, <1>5, <1>9, <1>10 DEF BoardInv, ClassifiedInv
  <1> QED
    BY <1>6, <1>7, <1>8, <1>11, <1>12 DEF BoardInv

\* What the signals of a board say of a row it has read.
LEMMA SignalsTell ==
  ASSUME NEW rows, NEW r \in rows
  PROVE  /\ r.st \in ExtractActive => DocumentDaySignals(rows).hasExtracting
         /\ r.st = "FAILED" => \/ DocumentDaySignals(rows).hadUnread
                               \/ DocumentDaySignals(rows).hadFailed
         /\ r.st = "READY_FOR_AI" => AnalysisDaySignals(rows).hasReadyForAi
         /\ r.st = "FAILED" /\ r.err = "classify" => AnalysisDaySignals(rows).hasClassifyFailed
  <1> DEFINE mapped == {MapDocumentPipelineStatus(x) : x \in rows}
  <1>1. MapDocumentPipelineStatus(r) \in mapped
    OBVIOUS
  <1>2. r.st = "FAILED" => MapDocumentPipelineStatus(r) \in {"unread", "failed"}
    BY DEF MapDocumentPipelineStatus, ExtractActive
  <1>3. /\ DocumentDaySignals(rows).hadUnread = ("unread" \in mapped)
        /\ DocumentDaySignals(rows).hadFailed = ("failed" \in mapped)
        /\ DocumentDaySignals(rows).hasExtracting = \E x \in rows : x.st \in ExtractActive
    BY DEF DocumentDaySignals
  <1> HIDE DEF mapped
  <1>4. r.st \in ExtractActive => DocumentDaySignals(rows).hasExtracting
    BY <1>3
  <1>5. r.st = "FAILED" => \/ DocumentDaySignals(rows).hadUnread
                           \/ DocumentDaySignals(rows).hadFailed
    BY <1>1, <1>2, <1>3
  <1>6. /\ r.st = "READY_FOR_AI" => AnalysisDaySignals(rows).hasReadyForAi
        /\ r.st = "FAILED" /\ r.err = "classify" => AnalysisDaySignals(rows).hasClassifyFailed
    BY DEF AnalysisDaySignals
  <1> QED
    BY <1>4, <1>5, <1>6

\* A note is never null, nor is what is kept of an answer.
LEMMA NotesAreNotes ==
  None \notin {"plain", "noted", "same, problem", "problem", "earlier content stays", "unread",
               "failed", "an attempt failed", "skipped"}
  BY NoneAssumption DEF Notes

\* A board of the documents that says done has no page in the extraction, and its note
\* speaks of the failures its signals know.
LEMMA DoneOfDocuments ==
  ASSUME NEW best \in Labels \cup {None}, NEW signals \in DocNotes, NEW inFlight \in BOOLEAN,
         Done(MapDocumentSourceStatus(best, signals, inFlight))
  PROVE  /\ ~inFlight /\ ~signals.hasExtracting
         /\ signals.hadUnread \/ signals.hadFailed =>
              DocumentProgressNote(MapDocumentSourceStatus(best, signals, inFlight),
                                   signals, inFlight) # None
  <1> DEFINE status == MapDocumentSourceStatus(best, signals, inFlight)
  <1>1. ~inFlight /\ ~signals.hasExtracting
    BY DEF MapDocumentSourceStatus, Done, InFlightStatuses
  <1>2. status \in {"ready", "classified", "unchanged", "unread", "failed"}
    BY <1>1 DEF MapDocumentSourceStatus, Done, InFlightStatuses, Labels
  <1> HIDE DEF status
  <1>3. ASSUME signals.hadUnread \/ signals.hadFailed
        PROVE  DocumentProgressNote(status, signals, inFlight) \in
                 {"same, problem", "problem", "earlier content stays", "unread", "failed"}
    BY <1>2, <1>3 DEF DocumentProgressNote
  <1>4. signals.hadUnread \/ signals.hadFailed =>
          DocumentProgressNote(status, signals, inFlight) # None
    BY <1>3, NotesAreNotes
  <1> QED
    BY <1>1, <1>4 DEF status

LEMMA DoneOfFindings ==
  ASSUME NEW signals \in TextNotes, NEW found \in BOOLEAN, NEW inFlight \in BOOLEAN,
         Done(MapAnalysisProgressStatus(signals, found, inFlight))
  PROVE  /\ ~signals.hasReadyForAi
         /\ signals.hasClassifyFailed =>
              AnalysisProgressNote(MapAnalysisProgressStatus(signals, found, inFlight),
                                   signals, found, inFlight) # None
  <1> DEFINE status == MapAnalysisProgressStatus(signals, found, inFlight)
  <1>1. ~signals.hasReadyForAi
    BY DEF MapAnalysisProgressStatus, Done, InFlightStatuses
  <1>2. status # "classifying"
    BY DEF Done, InFlightStatuses
  <1>3. signals.hasClassifyFailed => status \in {"classified", "failed"}
    BY <1>1, <1>2 DEF MapAnalysisProgressStatus
  <1> HIDE DEF status
  <1>4. ASSUME signals.hasClassifyFailed
        PROVE  AnalysisProgressNote(status, signals, found, inFlight) \in {"problem", "failed"}
    BY <1>3, <1>4 DEF AnalysisProgressNote
  <1>5. signals.hasClassifyFailed => AnalysisProgressNote(status, signals, found, inFlight) # None
    BY <1>4, NotesAreNotes
  <1> QED
    BY <1>1, <1>5 DEF status

\* Without an answer to keep there is nothing to keep.
LEMMA NothingAsked == poll' = NoPoll => BoardInv'
  <1> SUFFICES ASSUME poll' = NoPoll PROVE BoardInv'
    OBVIOUS
  <1>1. poll'.pc = "none" /\ poll'.extraction = None /\ poll'.analysis = None
    BY DEF NoPoll
  <1> QED
    BY <1>1 DEF BoardInv, PollInv, AskedInv, ExtractedInv, AnalysedInv, ClassifiedInv

\* The rows that are read are those of the pages on the board.
LEMMA AsksOnBoard ==
  ASSUME PanelTypes, BoardInv, NEW date \in Dates, AsksDocuments(date)
  PROVE  BoardInv'
  <1> DEFINE signals == DocumentDaySignals(Rows(date))
  <1>1. /\ UNCHANGED <<run, page, finding>>
        /\ poll' = [NoPoll EXCEPT !.pc = "crawls", !.date = date, !.best = BestStatus(Rows(date)),
                                  !.signals = signals]
    BY DEF AsksDocuments
  <1>2. signals \in DocNotes
    BY SignalTypes
  <1>3. \A p \in Pages : OnBoard(p, date) =>
          /\ InExtraction(p) => signals.hasExtracting
          /\ ExtractFailed(p) => signals.hadUnread \/ signals.hadFailed
    <2>1. page \in [Pages -> Documents \cup {None}]
      BY DEF PanelTypes, TypeOK
    <2> QED
      BY <2>1, RowsTypes, SignalsTell DEF InExtraction, ExtractFailed
  <1> HIDE DEF signals
  <1>4. /\ poll'.pc = "crawls" /\ poll'.date = date /\ poll'.signals = signals
        /\ poll'.extraction = None /\ poll'.analysis = None
    BY <1>1 DEF NoPoll
  <1>5. \A p \in Known' : p \in Pages /\ OnBoard(p, date)
    BY <1>1, <1>4 DEF Known, OnBoard
  <1>6. AskedInv'
    BY <1>1, <1>2, <1>3, <1>4, <1>5 DEF AskedInv, InExtraction, ExtractFailed
  <1> QED
    BY <1>4, <1>6 DEF BoardInv, PollInv, ExtractedInv, AnalysedInv, ClassifiedInv

\* The crawls are read last: what they have saved was read before, or they are in flight.
LEMMA AnswersOnBoard ==
  ASSUME PanelTypes, BoardInv, AnswersDocuments
  PROVE  BoardInv'
  <1> DEFINE inFlight == CrawlInFlight(poll.date)
             status == MapDocumentSourceStatus(poll.best, poll.signals, inFlight)
             note   == DocumentProgressNote(status, poll.signals, inFlight)
  <1>1. CASE ~Done(status)
    BY <1>1, NothingAsked DEF AnswersDocuments
  <1>2. CASE Done(status)
    <2>1. /\ poll.pc = "crawls" /\ UNCHANGED <<run, page>>
          /\ poll' = [poll EXCEPT !.pc = "documents", !.extraction = Mark(note),
                                  !.signals = None, !.best = None, !.restarted = {}]
      BY <1>2 DEF AnswersDocuments, clock
    <2>2. poll \in Polls /\ poll.best \in Labels \cup {None} /\ inFlight \in BOOLEAN
      BY DEF PanelTypes, TypeOK, Polls, Labels, CrawlInFlight
    <2>3. /\ poll.signals \in DocNotes /\ poll.extraction = None /\ poll.analysis = None
          /\ \A p \in Known :
               /\ InExtraction(p) => poll.signals.hasExtracting
               /\ ExtractFailed(p) => \/ poll.signals.hasExtracting \/ poll.signals.hadUnread
                                      \/ poll.signals.hadFailed
      BY <2>1 DEF BoardInv, PollInv, AskedInv
    <2>4. /\ ~inFlight /\ ~poll.signals.hasExtracting
          /\ poll.signals.hadUnread \/ poll.signals.hadFailed => note # None
      BY <1>2, <2>2, <2>3, DoneOfDocuments
    <2>5. ~ \E k \in Keys : k[1] = poll.date /\ (Has(k, "QUEUED") \/ Has(k, "RUNNING"))
      BY <2>4 DEF CrawlInFlight
    <2>6. Mark(note) \in {"plain", "noted"} /\ (note # None => Mark(note) = "noted")
      BY DEF Mark
    <2> HIDE DEF note, status, inFlight
    <2>7. /\ poll'.pc = "documents" /\ poll'.date = poll.date /\ poll'.missed = poll.missed
          /\ poll'.extraction = Mark(note) /\ poll'.analysis = None
      BY <2>1, <2>2, <2>3 DEF Polls
    <2>8. poll'.extraction # None
      BY <2>6, <2>7, NotesAreNotes
    <2>9. \A p \in Known' : /\ p \in Known /\ ~InExtraction(p)'
                            /\ ExtractFailed(p)' => Mark(note) = "noted"
      <3>1. Known' = Known
        BY <2>1, <2>7 DEF Known, OnBoard
      <3>2. \A p \in Known : ~InExtraction(p) /\ (ExtractFailed(p) => Mark(note) = "noted")
        BY <2>3, <2>4, <2>6
      <3> QED
        BY <2>1, <3>1, <3>2 DEF InExtraction, ExtractFailed
    <2>10. ExtractedInv'
      BY <2>1, <2>5, <2>7, <2>9 DEF ExtractedInv, Has
    <2>11. PollInv' /\ AskedInv' /\ AnalysedInv' /\ ClassifiedInv'
      BY <2>7, <2>8 DEF PollInv, AskedInv, AnalysedInv, ClassifiedInv
    <2> QED
      BY <2>10, <2>11 DEF BoardInv
  <1> QED
    BY <1>1, <1>2

\* The findings are asked for when the extraction is done: no page becomes ready behind it.
LEMMA FindingsOnBoard ==
  ASSUME PanelTypes, BoardInv, AsksFindings \/ ReadsFindings \/ AnswersFindings
  PROVE  BoardInv'
  <1>1. /\ poll.pc \in {"documents", "findings", "crawls again"} /\ UNCHANGED <<run, page>>
        /\ poll \in Polls /\ page \in [Pages -> Documents \cup {None}]
    BY DEF AsksFindings, ReadsFindings, AnswersFindings, clock, PanelTypes, TypeOK
  <1>2. poll.extraction # None /\ poll.analysis = None
    BY <1>1 DEF BoardInv, PollInv
  <1>3. ASSUME poll'.date = poll.date, poll'.missed = poll.missed,
               poll'.extraction = poll.extraction, poll'.restarted = poll.restarted
        PROVE  ExtractedInv' /\ Known' = Known
    <2>1. Known' = Known
      BY <1>1, <1>3 DEF Known, OnBoard
    <2> QED
      BY <1>1, <1>3, <2>1 DEF BoardInv, ExtractedInv, InExtraction, ExtractFailed, Has
  <1>4. CASE AsksFindings
    <2> DEFINE signals == AnalysisDaySignals(Rows(poll.date))
    <2>1. signals \in TextNotes
      BY SignalTypes
    <2>2. \A p \in Known : /\ WaitsForAi(p) => signals.hasReadyForAi
                           /\ AiFailed(p) => signals.hasClassifyFailed
      <3>1. \A p \in Known : page[p] \in Rows(poll.date)
        BY <1>1, RowsTypes DEF Known
      <3> QED
        BY <3>1, SignalsTell DEF WaitsForAi, AiFailed
    <2>3. poll' = [poll EXCEPT !.pc = "findings", !.signals = signals]
      BY <1>4 DEF AsksFindings
    <2> HIDE DEF signals
    <2>4. /\ poll'.pc = "findings" /\ poll'.signals = signals /\ poll'.date = poll.date
          /\ poll'.missed = poll.missed /\ poll'.extraction = poll.extraction
          /\ poll'.restarted = poll.restarted /\ poll'.analysis = None
      BY <1>1, <1>2, <2>3 DEF Polls
    <2>5. AnalysedInv'
      BY <1>1, <1>3, <2>1, <2>2, <2>4 DEF AnalysedInv, WaitsForAi, AiFailed
    <2>6. PollInv' /\ AskedInv' /\ ClassifiedInv'
      BY <1>2, <2>4 DEF PollInv, AskedInv, ClassifiedInv
    <2> QED
      BY <1>3, <2>4, <2>5, <2>6 DEF BoardInv
  <1>5. CASE ReadsFindings
    <2>1. poll.pc = "findings" /\ poll' = [poll EXCEPT !.pc = "crawls again", !.found = Found(poll.date)]
      BY <1>5 DEF ReadsFindings
    <2>2. /\ poll'.pc = "crawls again" /\ poll'.signals = poll.signals /\ poll'.date = poll.date
          /\ poll'.missed = poll.missed /\ poll'.extraction = poll.extraction
          /\ poll'.restarted = poll.restarted /\ poll'.analysis = None
      BY <1>1, <1>2, <2>1 DEF Polls
    <2>3. AnalysedInv'
      BY <1>1, <1>3, <2>1, <2>2 DEF BoardInv, AnalysedInv, WaitsForAi, AiFailed
    <2>4. PollInv' /\ AskedInv' /\ ClassifiedInv'
      BY <1>2, <2>2 DEF PollInv, AskedInv, ClassifiedInv
    <2> QED
      BY <1>3, <2>2, <2>3, <2>4 DEF BoardInv
  <1>6. CASE AnswersFindings
    <2> DEFINE inFlight == CrawlInFlight(poll.date)
               status == MapAnalysisProgressStatus(poll.signals, poll.found, inFlight)
               note   == AnalysisProgressNote(status, poll.signals, poll.found, inFlight)
    <2>1. CASE ~Done(status)
      BY <1>6, <2>1, NothingAsked DEF AnswersFindings
    <2>2. CASE Done(status)
      <3>1. /\ poll.pc = "crawls again"
            /\ poll' = [poll EXCEPT !.pc = "answered", !.analysis = Mark(note),
                                    !.signals = None, !.found = FALSE]
        BY <1>6, <2>2 DEF AnswersFindings
      <3>2. poll.found \in BOOLEAN /\ inFlight \in BOOLEAN
        BY <1>1 DEF Polls, CrawlInFlight
      <3>3. /\ poll.signals \in TextNotes
            /\ \A p \in Known :
                 /\ WaitsForAi(p) => poll.signals.hasReadyForAi
                 /\ AiFailed(p) => poll.signals.hasReadyForAi \/ poll.signals.hasClassifyFailed
        BY <3>1 DEF BoardInv, AnalysedInv
      <3>4. ~poll.signals.hasReadyForAi /\ (poll.signals.hasClassifyFailed => note # None)
        BY <2>2, <3>2, <3>3, DoneOfFindings
      <3>5. Mark(note) \in {"plain", "noted"} /\ (note # None => Mark(note) = "noted")
        BY DEF Mark
      <3> HIDE DEF note, status, inFlight
      <3>6. /\ poll'.pc = "answered" /\ poll'.date = poll.date /\ poll'.missed = poll.missed
            /\ poll'.extraction = poll.extraction /\ poll'.restarted = poll.restarted
            /\ poll'.analysis = Mark(note)
        BY <1>1, <3>1 DEF Polls
      <3>7. poll'.analysis # None
        BY <3>5, <3>6, NotesAreNotes
      <3>8. \A p \in Known : ~WaitsForAi(p) /\ (AiFailed(p) => Mark(note) = "noted")
        BY <3>3, <3>4, <3>5
      <3>9. ClassifiedInv'
        BY <1>1, <1>3, <3>6, <3>8 DEF ClassifiedInv, WaitsForAi, AiFailed
      <3>10. PollInv' /\ AskedInv' /\ AnalysedInv'
        BY <1>2, <3>6, <3>7 DEF PollInv, AskedInv, AnalysedInv
      <3> QED
        BY <1>3, <3>6, <3>9, <3>10 DEF BoardInv
    <2> QED
      BY <2>1, <2>2
  <1> QED
    BY <1>4, <1>5, <1>6

LEMMA BoardStep == PanelTypes /\ BoardInv /\ [Next]_vars => BoardInv'
  <1> SUFFICES ASSUME PanelTypes, BoardInv, [Next]_vars
               PROVE  BoardInv'
    OBVIOUS
  <1>1. CASE UNCHANGED <<run, page, poll>>
    BY <1>1 DEF BoardInv, PollInv, AskedInv, ExtractedInv, AnalysedInv, ClassifiedInv, Known, OnBoard,
                Has, InExtraction, ExtractFailed, WaitsForAi, AiFailed
  <1>2. CASE Tick \/ TriggerCrawl
    <2>1. \/ \E k \in Keys : Enqueue(k)
          \/ UNCHANGED <<run, poll>>
      BY <1>2 DEF Tick, TriggerCrawl
    <2>2. UNCHANGED page
      BY <1>2 DEF Tick, TriggerCrawl
    <2> QED
      BY <1>1, <2>1, <2>2, RunsOnBoard
  <1>3. ASSUME NEW k \in Keys,
               CrawlStarts(k) \/ CrawlRetries(k) \/ CrawlSucceeds(k) \/ CrawlFails(k)
        PROVE  BoardInv'
    <2>1. UNCHANGED page
      BY <1>3 DEF CrawlStarts, CrawlRetries, CrawlSucceeds, CrawlFails
    <2> QED
      BY <1>3, <2>1, RunsOnBoard
  <1>4. CASE Board
    BY <1>4, AsksOnBoard, AnswersOnBoard, FindingsOnBoard DEF Board
  <1>5. CASE Hour
    BY <1>5, NothingAsked DEF Hour
  <1>6. CASE Stop \/ Restart \/ UNCHANGED vars
    BY <1>1, <1>6 DEF Stop, Restart, vars
  <1> QED
    BY <1>2, <1>3, <1>4, <1>5, <1>6, SavesOnBoard, PagesOnBoard DEF Next, Worker

LEMMA BoardAlways == Spec => [](PanelTypes /\ BoardInv)
  <1>1. Init => BoardInv
    BY DEF Init, NoPoll, BoardInv, PollInv, AskedInv, ExtractedInv, AnalysedInv, ClassifiedInv
  <1> QED
    BY <1>1, InitTypes, StepTypes, BoardStep, PTL DEF Spec

\* The row that stands for the runs of a day is one of them.
LEMMA LatestRunIsARun ==
  ASSUME PanelTypes, NEW date \in Dates, RunsOf(date) # {}
  PROVE  LatestRun(RunsOf(date)) \in RunsOf(date) /\ RunsOf(date) \subseteq Runs
  <1> DEFINE ofDate == {k \in Keys : k[1] = date /\ run[k] # None}
             f == [k \in ofDate |-> run[k]]
             rows == RunsOf(date)
  <1>1. rows = {run[k] : k \in ofDate} /\ rows \subseteq Runs
    BY DEF RunsOf, PanelTypes, TypeOK
  <1>2. IsFiniteSet(ofDate)
    BY KeysAreFinite, FS_Subset
  <1>3. f \in Surjection(ofDate, rows)
    BY <1>1 DEF Surjection
  <1>4. IsFiniteSet(rows)
    <2> HIDE DEF ofDate, f, rows
    <2> QED
      BY <1>2, <1>3, FS_Surjection
  <1> HIDE DEF ofDate, f, rows
  <1> DEFINE R == {pair \in rows \X rows : pair[1].n > pair[2].n}
  <1>5. \A x, y \in rows : <<x, y>> \in R <=> x.n > y.n
    OBVIOUS
  <1>6. \A x \in rows : x.n \in Int
    BY <1>1 DEF Runs
  <1> HIDE DEF R
  <1>7. /\ \A x \in rows : <<x, x>> \notin R
        /\ \A x, y, z \in rows : <<x, y>> \in R /\ <<y, z>> \in R => <<x, z>> \in R
    BY <1>5, <1>6
  <1>8. rows # {}
    BY DEF rows
  <1>9. \E r \in rows : \A other \in rows : <<other, r>> \notin R
    BY <1>4, <1>7, <1>8, FirstOfOrder
  <1>10. \E r \in rows : \A other \in rows : other.n <= r.n
    <2>1. PICK r \in rows : \A other \in rows : <<other, r>> \notin R
      BY <1>9
    <2>2. ASSUME NEW other \in rows
          PROVE  other.n <= r.n
      <3>1. ~(other.n > r.n)
        BY <1>5, <2>1
      <3> QED
        BY <1>6, <3>1
    <2> QED
      BY <2>2
  <1>11. LatestRun(rows) \in rows
    BY <1>8, <1>10 DEF LatestRun
  <1> QED
    BY <1>1, <1>11 DEF rows

\* A board that is done shows a failed attempt of the day, whichever of its runs was last.
LEMMA FailedRunIsNoted ==
  ASSUME PanelTypes, NEW date \in Dates, Done(CrawlStatus(RunsOf(date))),
         \E r \in RunsOf(date) : r.st = "FAILED"
  PROVE  CrawlProgressNote(RunsOf(date)) # None
  <1> DEFINE rows == RunsOf(date)
  <1>1. rows # {} /\ LatestRun(rows) \in Runs
    BY LatestRunIsARun
  <1>2. CrawlStatus(rows) \in {"crawled", "failed"}
    BY <1>1 DEF CrawlStatus, CrawlProgressFromRunStatus, Done, InFlightStatuses, Runs
  <1>3. CrawlProgressNote(rows) \in {"failed", "an attempt failed"}
    BY <1>2 DEF CrawlProgressNote
  <1> QED
    BY <1>3, NotesAreNotes

\* For any pages, crawls and hours, and however the queries of the boards fall between their
\* steps: what a board says is done is done, of all it can have known.
THEOREM DoneSafety == Spec => []DoneMeansDone
  <1>1. BoardInv => DoneMeansDone
    BY DEF BoardInv, ExtractedInv, ClassifiedInv, DoneMeansDone, InExtraction, WaitsForAi
  <1> QED
    BY <1>1, BoardAlways, PTL

\* And what failed of it has a note.
THEOREM FailureSafety == Spec => []FailuresAreShown
  <1>1. PanelTypes /\ BoardInv => FailuresAreShown
    BY FailedRunIsNoted
       DEF BoardInv, ExtractedInv, ClassifiedInv, FailuresAreShown, ExtractFailed, AiFailed
  <1> QED
    BY <1>1, BoardAlways, PTL
=============================================================================
