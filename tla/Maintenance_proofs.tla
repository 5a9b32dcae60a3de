------------------------- MODULE Maintenance_proofs -------------------------
(***************************************************************************)
(* Theorems about Maintenance, for any documents, sources, texts, runs and *)
(* days, and however often the scripts are started: what a script deletes, *)
(* and what the worker and the API may leave behind it.                    *)
(***************************************************************************)
EXTENDS Maintenance, TLAPS, FiniteSetTheorems

-----------------------------------------------------------------------------
(* Types, and where a script is.                                           *)

ScriptRec ==
  [kind: Kinds \cup {"none"}, at: 0..10, day: 0..LastDay, src: Sources \cup {None},
   docs: SUBSET Docs, jobs: SUBSET Job, asked: SUBSET Docs, late: SUBSET Docs,
   end: {"no", "done", "stopped"}]

CrawlRec == [job: Job, doc: Docs \cup {None}, meta: BOOLEAN, held: BOOLEAN] \cup {NoCrawl}
NormRec  == [doc: Docs \cup {None}, canon: Docs \cup {None}, held: BOOLEAN]
ClassRec == [doc: Docs, pc: {"upsert", "mark", "fail"}, held: BOOLEAN] \cup {NoClass}

LEMMA IdleTypes == NoCrawl \in CrawlRec /\ NoNorm \in NormRec /\ NoClass \in ClassRec
  BY DEF NoCrawl, NoNorm, NoClass, CrawlRec, NormRec, ClassRec

LEMMA NoCrawlFreed == [NoCrawl EXCEPT !.held = FALSE] = NoCrawl
  <1>1. [NoCrawl EXCEPT !.held = FALSE] \in [job: {None}, doc: {None}, meta: {FALSE}, held: {FALSE}]
    BY DEF NoCrawl
  <1>2. ASSUME NEW idle \in [job: {None}, doc: {None}, meta: {FALSE}, held: {FALSE}]
        PROVE  idle = NoCrawl
    BY DEF NoCrawl
  <1> QED
    BY <1>1, <1>2

LEMMA NoClassFreed == [NoClass EXCEPT !.held = FALSE] = NoClass
  <1>1. [NoClass EXCEPT !.held = FALSE] \in [doc: {None}, pc: {"idle"}, held: {FALSE}]
    BY DEF NoClass
  <1>2. ASSUME NEW idle \in [doc: {None}, pc: {"idle"}, held: {FALSE}]
        PROVE  idle = NoClass
    BY DEF NoClass
  <1> QED
    BY <1>1, <1>2

LEMMA StepsTypes == \A kind \in Kinds : Len(Steps[kind]) \in 1..10
  BY DEF Steps, Kinds

LEMMA InitTypes == Init => TypeOK /\ ScriptInv
  <1> SUFFICES ASSUME Init PROVE TypeOK /\ ScriptInv
    OBVIOUS
  <1>1. NoScript \in ScriptRec
    BY MaintenanceAssumption DEF NoScript, ScriptRec
  <1>2. today \in Days /\ started \in 0..MaxScripts
    BY MaintenanceAssumption DEF Init, Days
  <1>3. crawler \in CrawlRec /\ normalizer \in NormRec /\ classifier \in ClassRec
    BY IdleTypes DEF Init
  <1>4. client \in BOOLEAN /\ analyst \in BOOLEAN /\ report \in BOOLEAN
    BY DEF Init
  <1>5. /\ doc \in [Docs -> DocRow \cup {None}] /\ finding \in [Docs -> Days \cup {None}]
        /\ runRow \in [Runs -> RunRow \cup {None}]
    BY DEF Init
  <1>6. TypeOK
    BY <1>1, <1>2, <1>3, <1>4, <1>5 DEF Init, TypeOK, ScriptRec, CrawlRec, NormRec, ClassRec
  <1>7. ScriptInv
    BY DEF Init, ScriptInv, NoScript, Kinds
  <1> QED
    BY <1>6, <1>7

LEMMA StepNumbers ==
  \A n \in 1..10 :
    /\ 1 \in 1..n
    /\ \A i \in 1..n : i \in 1..10 /\ (i # n => i + 1 \in 1..n /\ i + 1 \in 0..10)
  OBVIOUS

\* A script that runs is one of the five, at one of its statements.
LEMMA RunningIs ==
  ASSUME TypeOK, ScriptInv, Running
  PROVE  /\ script \in ScriptRec /\ script.kind \in Kinds
         /\ script.at \in 1..Len(Steps[script.kind]) /\ script.at \in 1..10
         /\ Len(Steps[script.kind]) \in 1..10
  <1>1. script \in ScriptRec /\ script.kind \in Kinds
    BY DEF TypeOK, ScriptRec, ScriptInv, Running
  <1>2. script.at \in 1..Len(Steps[script.kind]) /\ Len(Steps[script.kind]) \in 1..10
    BY <1>1, StepsTypes DEF ScriptInv
  <1> QED
    BY <1>1, <1>2, StepNumbers

\* What a script is after a statement.
LEMMA ContinuesIs ==
  ASSUME TypeOK, ScriptInv, Running, NEW changed \in ScriptRec,
         changed.kind = script.kind, changed.at = script.at, changed.end = "no",
         Continues(changed)
  PROVE  /\ script' \in ScriptRec /\ ScriptInv'
         /\ script'.kind = script.kind /\ script'.day = changed.day
         /\ script'.src = changed.src /\ script'.end # "stopped"
         /\ script'.docs = changed.docs \/ script'.docs = {}
         /\ script'.jobs = changed.jobs \/ script'.jobs = {}
         /\ script'.end = "no" \/ script.kind = "client" =>
              script'.late = changed.late /\ script'.docs = changed.docs
         /\ script'.asked = changed.asked
         /\ script'.end = "done" /\ script.kind # "client" => script'.late = {}
         /\ \A step : Executed(step)' <=> Executed(step) \/ step = Steps[script.kind][script.at]
  <1>1. /\ script \in ScriptRec /\ script.kind \in Kinds
        /\ script.at \in 1..Len(Steps[script.kind]) /\ script.at \in 1..10
        /\ Len(Steps[script.kind]) \in 1..10
    BY RunningIs
  <1>2. CASE IsLast
    <2> DEFINE kept(S) == IF script.kind = "client" THEN S ELSE {}
    <2>1. script' = IF script.kind = "client" THEN [changed EXCEPT !.end = "done"]
                    ELSE [changed EXCEPT !.end = "done", !.docs = {}, !.jobs = {}, !.late = {}]
      BY <1>2 DEF Continues, AtEnd
    <2>2. /\ script' \in ScriptRec /\ script'.kind = script.kind /\ script'.at = script.at
          /\ script'.end = "done" /\ script'.docs = kept(changed.docs)
          /\ script'.jobs = kept(changed.jobs) /\ script'.late = kept(changed.late)
          /\ script'.day = changed.day /\ script'.src = changed.src
          /\ script'.asked = changed.asked
      BY <2>1 DEF ScriptRec
    <2>3. ScriptInv'
      BY <1>1, <1>2, <2>2 DEF ScriptInv, IsLast, Kinds
    <2>4. \A step : Executed(step)' <=> Executed(step) \/ step = Steps[script.kind][script.at]
      BY <1>1, <2>2 DEF Executed, Running
    <2> QED
      BY <2>2, <2>3, <2>4
  <1>3. CASE ~IsLast
    <2>1. script' = [changed EXCEPT !.at = changed.at + 1]
      BY <1>3 DEF Continues
    <2>2. script.at + 1 \in 1..Len(Steps[script.kind]) /\ script.at + 1 \in 0..10
      BY <1>1, <1>3, StepNumbers DEF IsLast
    <2>3. /\ script' \in ScriptRec /\ script'.kind = script.kind /\ script'.at = script.at + 1
          /\ script'.end = "no" /\ script'.docs = changed.docs /\ script'.jobs = changed.jobs
          /\ script'.day = changed.day /\ script'.src = changed.src /\ script'.late = changed.late
          /\ script'.asked = changed.asked
      BY <2>1, <2>2 DEF ScriptRec
    <2>4. ScriptInv'
      BY <1>1, <2>2, <2>3 DEF ScriptInv, Kinds
    <2>5. \A step : Executed(step)' <=> Executed(step) \/ step = Steps[script.kind][script.at]
      <3>1. /\ \A i : i \in 1..script.at + 1 /\ i < script.at + 1 <=> i \in 1..script.at
            /\ \A i : i \in 1..script.at <=> i = script.at \/ (i \in 1..script.at /\ i < script.at)
        BY <1>1
      <3>2. \A step : Executed(step)' <=>
                        \E i \in 1..script.at + 1 : Steps[script.kind][i] = step /\ i < script.at + 1
        BY <2>3 DEF Executed
      <3>3. \A step : Executed(step) <=>
                        \E i \in 1..script.at : Steps[script.kind][i] = step /\ i < script.at
        BY DEF Executed, Running
      <3> QED
        BY <3>1, <3>2, <3>3
    <2> QED
      BY <2>3, <2>4, <2>5
  <1> QED
    BY <1>2, <1>3

\* A step that leaves the script where it is.
LEMMA ScriptStays ==
  ASSUME ScriptInv, UNCHANGED <<script.kind, script.at, script.end, script.docs>>
  PROVE  ScriptInv' /\ \A step : Executed(step)' <=> Executed(step)
  BY DEF ScriptInv, Executed

LEMMA CrawlThrowsTypes ==
  ASSUME TypeOK, crawler # NoCrawl, CrawlThrows
  PROVE  /\ runRow' \in [Runs -> RunRow \cup {None}] /\ crawlJobs' \subseteq Job
         /\ crawler' = NoCrawl /\ crawler' \in CrawlRec
  <1>1. crawler.job \in Job /\ crawler.job.run \in Runs
    BY DEF TypeOK, Job
  <1>2. CASE RunExists
    <2>1. runRow[crawler.job.run] \in RunRow
      BY <1>1, <1>2 DEF TypeOK, RunExists
    <2>2. [runRow[crawler.job.run] EXCEPT !.st = "FAILED"] \in RunRow
      BY <2>1 DEF RunRow
    <2> QED
      BY <1>1, <1>2, <2>2, IdleTypes DEF TypeOK, CrawlThrows
  <1>3. CASE ~RunExists
    BY <1>1, <1>3, IdleTypes DEF TypeOK, CrawlThrows
  <1> QED
    BY <1>2, <1>3

LEMMA EnqueueCrawlTypes ==
  ASSUME TypeOK, ScriptInv, NEW s \in Sources, EnqueueCrawl(s)
  PROVE  TypeOK' /\ ScriptInv'
  <1>1. PICK r \in Runs :
          /\ runRow' = [runRow EXCEPT ![r] = [src |-> s, day |-> today, st |-> "QUEUED"]]
          /\ crawlJobs' = crawlJobs \cup {ToRun(r, s, today)}
    BY DEF EnqueueCrawl, RunsOf
  <1>2. [src |-> s, day |-> today, st |-> "QUEUED"] \in RunRow /\ ToRun(r, s, today) \in Job
    BY DEF TypeOK, RunRow, ToRun, Job
  <1>3. ScriptInv'
    BY ScriptStays DEF EnqueueCrawl
  <1>4. UNCHANGED <<today, doc, finding, sources, client, analyst, report, items,
                    normJobs, classJobs, worker, script, started>>
    BY DEF EnqueueCrawl
  <1>5. /\ runRow' \in [Runs -> RunRow \cup {None}]
        /\ crawlJobs' \subseteq Job
    BY <1>1, <1>2 DEF TypeOK
  <1> QED
    BY <1>3, <1>4, <1>5 DEF TypeOK, worker

LEMMA CrawlTypes ==
  ASSUME TypeOK, ScriptInv,
         \/ \E j \in crawlJobs : CrawlStarts(j)
         \/ \E d \in Docs : CrawlSaves(d) \/ CrawlSavesMeta(d)
         \/ SaveFails
         \/ CrawlLinks
         \/ CrawlEnds
  PROVE  TypeOK' /\ ScriptInv'
  <1>1. ASSUME NEW j \in crawlJobs, CrawlStarts(j)
        PROVE  TypeOK' /\ ScriptInv'
    <2>1. j \in Job /\ j.run \in Runs
      BY DEF TypeOK, Job
    <2>2. crawlJobs' \subseteq Job
      BY <1>1 DEF CrawlStarts, TypeOK
    <2>3. runRow' \in [Runs -> RunRow \cup {None}] /\ crawler' \in CrawlRec
      <3>1. CASE UNCHANGED <<runRow, crawler>>
        BY <3>1 DEF TypeOK, CrawlRec
      <3>2. CASE ~UNCHANGED <<runRow, crawler>>
        <4>1. /\ runRow[j.run] # None
              /\ runRow' = [runRow EXCEPT ![j.run].st = "RUNNING"]
              /\ crawler' = [job |-> j, doc |-> None, meta |-> FALSE, held |-> TRUE]
          BY <1>1, <3>2 DEF CrawlStarts
        <4>2. [runRow[j.run] EXCEPT !.st = "RUNNING"] \in RunRow
          BY <2>1, <4>1 DEF TypeOK, RunRow
        <4> QED
          BY <2>1, <4>1, <4>2 DEF TypeOK, CrawlRec
      <3> QED
        BY <3>1, <3>2
    <2>4. ScriptInv'
      BY <1>1, ScriptStays DEF CrawlStarts
    <2> QED
      BY <1>1, <2>2, <2>3, <2>4 DEF CrawlStarts, TypeOK, CrawlRec
  <1>2. ASSUME NEW d \in Docs, CrawlSaves(d) \/ CrawlSavesMeta(d)
        PROVE  TypeOK' /\ ScriptInv'
    <2>1. PICK st \in {"RECEIVED", "DISCARDED"} : SaveRaw(d, st)
      BY <1>2 DEF CrawlSaves, CrawlSavesMeta
    <2>2. crawler' \in CrawlRec
      <3>1. crawler \in [job: Job, doc: Docs \cup {None}, meta: BOOLEAN, held: BOOLEAN]
        BY <2>1 DEF SaveRaw, NoCrawl, TypeOK
      <3>2. /\ [crawler EXCEPT !.doc = d] \in CrawlRec
            /\ [crawler EXCEPT !.meta = TRUE] \in CrawlRec
            /\ crawler \in CrawlRec
        BY <3>1 DEF CrawlRec
      <3> QED
        BY <1>2, <3>2 DEF CrawlSaves, CrawlSavesMeta
    <2>3. Row(st, SourceOf[d], today) \in DocRow
      BY DEF TypeOK, Row, DocRow, Statuses, Sources
    <2>4. /\ script' \in ScriptRec
          /\ UNCHANGED <<script.kind, script.at, script.end, script.docs>>
      BY <2>1 DEF SaveRaw, TypeOK, ScriptRec
    <2>5. ScriptInv'
      BY <2>4, ScriptStays
    <2>6. doc' \in [Docs -> DocRow \cup {None}]
      BY <2>1, <2>3 DEF SaveRaw, TypeOK
    <2> QED
      BY <2>1, <2>2, <2>4, <2>5, <2>6 DEF SaveRaw, TypeOK, CrawlRec, ScriptRec, redis
  <1>5. CASE SaveFails
    <2>1. crawler # NoCrawl /\ CrawlThrows /\ ScriptInv'
      BY <1>5, ScriptStays DEF SaveFails, NoCrawl
    <2> QED
      BY <1>5, <2>1, CrawlThrowsTypes DEF SaveFails, TypeOK, CrawlRec
  <1>3. CASE CrawlLinks
    <2> DEFINE d == crawler.doc
    <2>1. ScriptInv' /\ d \in Docs /\ crawler.job \in Job /\ crawler # NoCrawl
      BY <1>3, ScriptStays DEF CrawlLinks, TypeOK, NoCrawl
    <2>2. CASE Linkable(d)
      <3>1. [crawler EXCEPT !.doc = None] \in CrawlRec
        BY <2>1 DEF TypeOK, CrawlRec
      <3>2. [doc[d] EXCEPT !.run = crawler.job.run] \in DocRow
        BY <2>1, <2>2 DEF TypeOK, Linkable, Stored, Present, DocRow, Job
      <3>3. /\ doc' = [doc EXCEPT ![d].run = crawler.job.run]
            /\ normJobs' \subseteq normJobs \cup {d}
            /\ crawler' = [crawler EXCEPT !.doc = None]
            /\ UNCHANGED <<runRow, crawlJobs>>
        BY <1>3, <2>2 DEF CrawlLinks
      <3>4. doc' \in [Docs -> DocRow \cup {None}]
        BY <2>1, <3>2, <3>3 DEF TypeOK
      <3> QED
        BY <1>3, <2>1, <3>1, <3>3, <3>4 DEF CrawlLinks, TypeOK, CrawlRec
    <2>3. CASE ~Linkable(d)
      <3> QED
        BY <1>3, <2>1, <2>3, CrawlThrowsTypes DEF CrawlLinks, TypeOK, CrawlRec
    <2> QED
      BY <2>2, <2>3
  <1>4. CASE CrawlEnds
    <2>1. ScriptInv' /\ crawler # NoCrawl /\ crawler.job \in Job
      BY <1>4, ScriptStays DEF CrawlEnds, TypeOK, NoCrawl
    <2>2. CASE RunExists
      <3>1. [runRow[crawler.job.run] EXCEPT !.st = "SUCCESS"] \in RunRow
        BY <2>1, <2>2 DEF TypeOK, RunExists, RunRow, Job
      <3>2. runRow' = [runRow EXCEPT ![crawler.job.run].st = "SUCCESS"]
        BY <1>4, <2>2 DEF CrawlEnds
      <3>3. runRow' \in [Runs -> RunRow \cup {None}]
        BY <2>1, <3>1, <3>2 DEF TypeOK, Job
      <3> QED
        BY <1>4, <2>1, <2>2, <3>3, IdleTypes DEF CrawlEnds, TypeOK, CrawlRec
    <2>3. CASE ~RunExists
      BY <1>4, <2>1, <2>3, CrawlThrowsTypes DEF CrawlEnds, TypeOK, CrawlRec
    <2> QED
      BY <2>2, <2>3
  <1> QED
    BY <1>1, <1>2, <1>3, <1>4, <1>5

\* A document's row with another status, canonical or source is still a row.
LEMMA RowUpdates ==
  ASSUME NEW row \in DocRow
  PROVE  /\ \A st \in Statuses, err \in BOOLEAN : [row EXCEPT !.st = st, !.err = err] \in DocRow
         /\ [row EXCEPT !.st = "READY_FOR_AI", !.hash = TRUE, !.err = FALSE] \in DocRow
         /\ \A c \in Docs \cup {None} :
              [row EXCEPT !.st = "DEDUPED", !.canon = c, !.hash = TRUE, !.err = FALSE] \in DocRow
         /\ [row EXCEPT !.err = TRUE] \in DocRow
         /\ [row EXCEPT !.canon = None] \in DocRow
         /\ [row EXCEPT !.src = None] \in DocRow
         /\ [row EXCEPT !.run = None] \in DocRow
  BY DEF DocRow, Statuses

LEMMA NormalizeTypes ==
  ASSUME TypeOK, ScriptInv,
         (\E d \in Docs : NormalizeFinds(d)) \/ NormalizeLoses \/ NormalizeWrites
  PROVE  TypeOK' /\ ScriptInv'
  <1>1. ASSUME NEW d \in Docs, NormalizeFinds(d)
        PROVE  TypeOK' /\ ScriptInv'
    <2>1. normalizer' \in NormRec
      <3>1. CASE UNCHANGED normalizer
        BY <3>1 DEF TypeOK, NormRec
      <3>2. CASE ~UNCHANGED normalizer
        <4>1. PICK c \in Docs \cup {None} : normalizer' = [doc |-> d, canon |-> c, held |-> TRUE]
          BY <1>1, <3>2 DEF NormalizeFinds, Present
        <4> QED
          BY <4>1 DEF NormRec
      <3> QED
        BY <3>1, <3>2
    <2>2. ScriptInv'
      BY <1>1, ScriptStays DEF NormalizeFinds
    <2>3. normJobs' \subseteq Docs
      BY <1>1 DEF NormalizeFinds, TypeOK
    <2>4. UNCHANGED <<today, tables, crawlJobs, classJobs, crawler, classifier, script, started>>
      BY <1>1 DEF NormalizeFinds
    <2> QED
      BY <2>1, <2>2, <2>3, <2>4 DEF tables, TypeOK, NormRec
  <1>2. CASE NormalizeWrites
    <2> DEFINE d == normalizer.doc
               c == normalizer.canon
    <2>1. d \in Docs /\ c \in Docs \cup {None} /\ normalizer' \in NormRec
      BY <1>2, IdleTypes DEF NormalizeWrites, TypeOK
    <2>2. Stored(d) => doc[d] \in DocRow
      BY DEF Stored, Present, TypeOK
    <2>3. doc' \in [Docs -> DocRow \cup {None}]
      BY <1>2, <2>1, <2>2, RowUpdates DEF NormalizeWrites, TypeOK, Statuses
    <2>4. /\ script' \in ScriptRec
          /\ UNCHANGED <<script.kind, script.at, script.end, script.docs>>
      BY <1>2, <2>1 DEF NormalizeWrites, TypeOK, ScriptRec
    <2>5. ScriptInv' /\ classJobs' \subseteq Docs
      BY <1>2, <2>1, <2>4, ScriptStays DEF NormalizeWrites, TypeOK
    <2> QED
      BY <1>2, <2>1, <2>3, <2>4, <2>5 DEF NormalizeWrites, TypeOK, NormRec, ScriptRec
  <1>3. CASE NormalizeLoses
    <2>1. PICK c \in Docs : normalizer' = [normalizer EXCEPT !.canon = c]
      BY <1>3 DEF NormalizeLoses, Holders, Present
    <2>2. normalizer' \in NormRec
      BY <2>1 DEF TypeOK, NormRec
    <2>3. UNCHANGED <<today, tables, redis, crawler, classifier, script, started>>
      BY <1>3 DEF NormalizeLoses
    <2>4. ScriptInv'
      BY <2>3, ScriptStays
    <2> QED
      BY <2>2, <2>3, <2>4 DEF tables, redis, TypeOK, NormRec
  <1> QED
    BY <1>1, <1>2, <1>3

LEMMA ClassifyTypes ==
  ASSUME TypeOK, ScriptInv,
         \/ \E d \in Docs : ClassifyStarts(d)
         \/ ClassifyUpserts \/ ClassifyFails \/ FailIfClassifying \/ MarksClassified
  PROVE  TypeOK' /\ ScriptInv'
  <1>1. ASSUME NEW d \in Docs, ClassifyStarts(d)
        PROVE  TypeOK' /\ ScriptInv'
    <2> DEFINE pc == IF d \notin OldDocs /\ doc[d].src # None /\ client
                     THEN "upsert" ELSE "mark"
    <2>1. classJobs' \subseteq Docs /\ ScriptInv'
      BY <1>1, ScriptStays DEF ClassifyStarts, TypeOK
    <2>2. UNCHANGED classifier \/ classifier' = [doc |-> d, held |-> TRUE, pc |-> pc]
      BY <1>1 DEF ClassifyStarts
    <2>3. pc \in {"upsert", "mark"}
      OBVIOUS
    <2> HIDE DEF pc
    <2>4. classifier \in ClassRec /\ [doc |-> d, held |-> TRUE, pc |-> pc] \in ClassRec
      BY <2>3 DEF TypeOK, ClassRec
    <2>5. classifier' \in ClassRec
      BY <2>2, <2>4
    <2> QED
      BY <1>1, <2>1, <2>5 DEF ClassifyStarts, tables, TypeOK, ClassRec
  <1>2. CASE ClassifyUpserts
    <2>1. /\ classifier \in [doc: Docs, pc: {"upsert", "mark", "fail"}, held: BOOLEAN]
          /\ ScriptInv'
      BY <1>2, ScriptStays DEF ClassifyUpserts, TypeOK, NoClass
    <2>2. finding' \in [Docs -> Days \cup {None}]
      BY <1>2 DEF ClassifyUpserts, TypeOK
    <2>3. classifier' \in ClassRec
      BY <1>2, <2>1 DEF ClassifyUpserts, ClassRec
    <2> QED
      BY <1>2, <2>1, <2>2, <2>3 DEF ClassifyUpserts, TypeOK, ClassRec, redis
  <1>3. CASE ClassifyFails
    <2> DEFINE d == classifier.doc
    <2>1. /\ classifier \in [doc: Docs, pc: {"upsert", "mark", "fail"}, held: BOOLEAN]
          /\ ScriptInv' /\ d \in Docs
      BY <1>3, ScriptStays DEF ClassifyFails, TypeOK, NoClass
    <2>2. Stored(d) => doc[d] \in DocRow
      BY DEF Stored, Present, TypeOK
    <2>3. doc' \in [Docs -> DocRow \cup {None}]
      BY <1>3, <2>1, <2>2, RowUpdates DEF ClassifyFails, TypeOK
    <2>4. classifier' \in ClassRec /\ classJobs' \subseteq Docs
      <3>1. [classifier EXCEPT !.pc = "fail", !.held = FALSE] \in ClassRec
        BY <2>1 DEF ClassRec
      <3> QED
        BY <1>3, <2>1, <3>1, IdleTypes DEF ClassifyFails, TypeOK
    <2> QED
      BY <1>3, <2>1, <2>3, <2>4 DEF ClassifyFails, TypeOK, ClassRec
  <1>4. CASE FailIfClassifying \/ MarksClassified
    <2> DEFINE d == classifier.doc
    <2>1. Stored(d) => d \in Docs /\ doc[d] \in DocRow
      BY DEF Stored, Present, TypeOK
    <2>2. doc' \in [Docs -> DocRow \cup {None}]
      <3>1. Stored(d) => /\ [doc[d] EXCEPT !.st = "FAILED", !.err = TRUE] \in DocRow
                         /\ [doc[d] EXCEPT !.st = "CLASSIFIED", !.err = FALSE] \in DocRow
        BY <2>1, RowUpdates DEF Statuses
      <3>2. CASE FailIfClassifying
        BY <3>1, <3>2 DEF FailIfClassifying, TypeOK
      <3>3. CASE MarksClassified
        BY <3>1, <3>3 DEF MarksClassified, TypeOK
      <3> QED
        BY <1>4, <3>2, <3>3
    <2>3. ScriptInv' /\ classifier' \in ClassRec
      BY <1>4, ScriptStays, IdleTypes DEF FailIfClassifying, MarksClassified
    <2> QED
      BY <1>4, <2>2, <2>3 DEF FailIfClassifying, MarksClassified, TypeOK, ClassRec, redis
  <1> QED
    BY <1>1, <1>2, <1>3, <1>4

\* What a statement of a script does to the script.
Moves ==
  /\ script' \in ScriptRec /\ ScriptInv'
  /\ script'.kind = script.kind /\ script'.day = script.day /\ script'.src = script.src
  /\ script'.end = "done" /\ script.kind # "client" => script'.late = {}
  /\ \A step : Executed(step)' => Executed(step) \/ step = Steps[script.kind][script.at]

\* Most leave what it has read, and one forgets the late duplicates.
MovesOn ==
  /\ Moves
  /\ script'.docs = script.docs \/ script'.docs = {}
  /\ script'.end = "no" => script'.docs = script.docs /\ script'.late = script.late

LEMMA ContinuesMoves ==
  ASSUME TypeOK, ScriptInv, Running, Continues(script)
  PROVE  MovesOn
  <1>1. script \in ScriptRec /\ script.end = "no"
    BY RunningIs DEF Running
  <1> QED
    BY <1>1, ContinuesIs DEF Moves, MovesOn

\* A script that is stopped.
LEMMA StoppedMoves ==
  ASSUME TypeOK, ScriptInv, Running, Aborts
  PROVE  /\ Moves /\ script'.end = "stopped" /\ script'.late = script.late
         /\ script'.asked = {} /\ \A step : Executed(step)' => Executed(step)
  <1>1. script \in ScriptRec /\ script.kind \in Kinds /\ script.at \in 1..Len(Steps[script.kind])
    BY RunningIs
  <1>2. /\ script' \in ScriptRec /\ script'.kind = script.kind /\ script'.day = script.day
        /\ script'.src = script.src /\ script'.end = "stopped" /\ script'.at = script.at
        /\ script'.docs = {} /\ script'.late = script.late /\ script'.asked = {}
    BY <1>1 DEF ScriptRec, Aborts
  <1>3. ScriptInv'
    BY <1>1, <1>2 DEF ScriptInv, Kinds
  <1>4. \A step : Executed(step)' => Executed(step)
    BY <1>2 DEF Executed
  <1> QED
    BY <1>2, <1>3, <1>4 DEF Moves

\* The statement a script executes is the one its action names.
LEMMA NowIs ==
  ASSUME TypeOK, ScriptInv, NEW kinds \in SUBSET Kinds, NEW step, Now(kinds, step)
  PROVE  /\ Running /\ script \in ScriptRec /\ script.kind \in kinds
         /\ Steps[script.kind][script.at] = step
  BY RunningIs DEF Now

LEMMA ReadMoves ==
  ASSUME TypeOK, ScriptInv, ReadScope \/ ReadClient
  PROVE  Moves
  <1>1. CASE ReadScope
    <2>1. /\ Running /\ script \in ScriptRec /\ script.kind \in {"day", "sources"}
          /\ Steps[script.kind][script.at] = "read" /\ script.end = "no"
      BY <1>1, NowIs DEF ReadScope, Kinds, Running
    <2> DEFINE day == script.kind = "day"
               own == IF day THEN {d \in Docs : OfDay(d, script.day)}
                      ELSE {d \in Present : SourceOf[d] = script.src}
               docs == WithDuplicates(own)
               jobs == IF day THEN DayJobs(script.day) ELSE SourceJobs(script.src)
    <2>2. Continues([script EXCEPT !.docs = docs, !.jobs = jobs])
      BY <1>1 DEF ReadScope
    <2>3. docs \in SUBSET Docs
      BY DEF Present, WithDuplicates
    <2>4. jobs \in SUBSET Job
      <3>1. \A r \in Runs : runRow[r] # None =>
              runRow[r].src \in Sources /\ runRow[r].day \in Days
        BY DEF TypeOK, RunRow
      <3>2. DayJobs(script.day) \in SUBSET Job
        BY <3>1 DEF DayJobs, RunsOfDay, ToRun, Job
      <3>3. SourceJobs(script.src) \in SUBSET Job
        BY <3>1 DEF SourceJobs, RunsOfSource, ToRun, Job
      <3> QED
        BY <3>2, <3>3
    <2> HIDE DEF docs, jobs
    <2>5. /\ [script EXCEPT !.docs = docs, !.jobs = jobs] \in ScriptRec
          /\ [script EXCEPT !.docs = docs, !.jobs = jobs].kind = script.kind
          /\ [script EXCEPT !.docs = docs, !.jobs = jobs].at = script.at
          /\ [script EXCEPT !.docs = docs, !.jobs = jobs].end = "no"
          /\ [script EXCEPT !.docs = docs, !.jobs = jobs].day = script.day
          /\ [script EXCEPT !.docs = docs, !.jobs = jobs].src = script.src
      BY <2>1, <2>3, <2>4 DEF ScriptRec
    <2> QED
      BY <2>1, <2>2, <2>5, ContinuesIs DEF Moves
  <1>2. CASE ReadClient
    <2>1. /\ Running /\ script \in ScriptRec /\ script.kind = "client"
          /\ Steps[script.kind][script.at] = "read" /\ script.end = "no"
      <3>1. Now({"client"}, "read")
        BY <1>2 DEF ReadClient
      <3> QED
        BY <3>1, NowIs DEF Kinds, Running
    <2>2. CASE client
      <3> DEFINE docs == {d \in Docs : finding[d] # None}
      <3>1. docs \in SUBSET Docs
        OBVIOUS
      <3>2. Continues([script EXCEPT !.docs = docs])
        BY <1>2, <2>2 DEF ReadClient
      <3> HIDE DEF docs
      <3>3. /\ [script EXCEPT !.docs = docs] \in ScriptRec
            /\ [script EXCEPT !.docs = docs].kind = script.kind
            /\ [script EXCEPT !.docs = docs].at = script.at
            /\ [script EXCEPT !.docs = docs].end = "no"
            /\ [script EXCEPT !.docs = docs].day = script.day
            /\ [script EXCEPT !.docs = docs].src = script.src
        BY <2>1, <3>1 DEF ScriptRec
      <3> QED
        BY <2>1, <3>2, <3>3, ContinuesIs DEF Moves
    <2>3. CASE ~client
      BY <1>2, <2>1, <2>3, StoppedMoves DEF ReadClient
    <2> QED
      BY <2>2, <2>3
  <1> QED
    BY <1>1, <1>2

LEMMA DupesMoves ==
  ASSUME TypeOK, ScriptInv, DeleteDuplicates
  PROVE  /\ Moves
         /\ script'.docs = script.docs \/ script'.docs = {}
         /\ script'.end = "no" => script'.docs = script.docs /\ script'.late = {}
  <1>1. /\ Running /\ script \in ScriptRec /\ script.kind \in {"day", "all", "training"}
        /\ Steps[script.kind][script.at] = "dupes" /\ script.end = "no"
    BY NowIs DEF DeleteDuplicates, Kinds, Running
  <1>2. Continues([script EXCEPT !.late = {}])
    BY DEF DeleteDuplicates
  <1>3. /\ [script EXCEPT !.late = {}] \in ScriptRec
        /\ [script EXCEPT !.late = {}].kind = script.kind
        /\ [script EXCEPT !.late = {}].at = script.at
        /\ [script EXCEPT !.late = {}].end = "no"
        /\ [script EXCEPT !.late = {}].day = script.day
        /\ [script EXCEPT !.late = {}].src = script.src
        /\ [script EXCEPT !.late = {}].docs = script.docs
        /\ [script EXCEPT !.late = {}].late = {}
    BY <1>1 DEF ScriptRec
  <1> HIDE DEF ScriptRec
  <1> QED
    BY <1>1, <1>2, <1>3, ContinuesIs DEF Moves

LEMMA EnqueueMoves ==
  ASSUME TypeOK, ScriptInv, EnqueueClassify
  PROVE  script' \in ScriptRec /\ ScriptInv' /\ script.kind = "client" /\ script'.kind = "client"
  <1>1. /\ Running /\ script \in ScriptRec /\ script.kind = "client" /\ script.end = "no"
        /\ script.at \in 1..Len(Steps[script.kind])
    BY NowIs, RunningIs DEF EnqueueClassify, Kinds, Running
  <1>2. CASE Continues(script)
    BY <1>1, <1>2, ContinuesMoves DEF MovesOn, Moves
  <1>3. CASE ~Continues(script)
    <2>1. PICK d \in script.docs \ script.asked :
            \/ Aborts
            \/ script' = [script EXCEPT !.asked = @ \cup {d}, !.late = @ \cup {d}]
            \/ script' = [script EXCEPT !.asked = @ \cup {d}]
      BY <1>3 DEF EnqueueClassify
    <2>2. CASE Aborts
      BY <1>1, <2>2, StoppedMoves DEF Moves
    <2>3. CASE ~Aborts
      <3> DEFINE asked == script.asked \cup {d}
                 late == script.late \cup {d}
      <3>1. /\ asked \in SUBSET Docs /\ late \in SUBSET Docs
            /\ \/ script' = [script EXCEPT !.asked = asked, !.late = late]
               \/ script' = [script EXCEPT !.asked = asked]
        BY <1>1, <2>1, <2>3 DEF ScriptRec
      <3> HIDE DEF asked, late
      <3>2. /\ script' \in ScriptRec /\ script'.kind = "client" /\ script'.at = script.at
            /\ script'.end = "no"
        BY <1>1, <3>1 DEF ScriptRec
      <3> QED
        BY <1>1, <3>2 DEF ScriptInv, Kinds
    <2> QED
      BY <2>2, <2>3
  <1> QED
    BY <1>2, <1>3

LEMMA UsersMoves ==
  ASSUME TypeOK, ScriptInv, DeleteUsers
  PROVE  Moves
  <1>1. Running /\ script \in ScriptRec /\ script.kind = "training"
    <2>1. Now({"training"}, "users")
      BY DEF DeleteUsers
    <2> QED
      BY <2>1, NowIs DEF Kinds
  <1>2. CASE Continues(script)
    BY <1>1, <1>2, ContinuesMoves DEF MovesOn
  <1>3. CASE ~Continues(script)
    <2>1. Aborts
      BY <1>3 DEF DeleteUsers
    <2> QED
      BY <1>1, <2>1, StoppedMoves
  <1> QED
    BY <1>2, <1>3

\* The other statements.
LEMMA PlainMoves ==
  ASSUME TypeOK, ScriptInv,
         \/ DeleteFindings \/ DeleteDocuments \/ DeleteRuns \/ DeleteSourceRows \/ DeleteItems
         \/ DeleteReports \/ DeleteClients \/ DeleteSources \/ MakeReady \/ RemoveJobs
         \/ ObliterateQueues
  PROVE  MovesOn
  <1>1. Running /\ Continues(script)
    BY DEF DeleteFindings, DeleteDocuments, DeleteRuns, DeleteSourceRows, DeleteItems,
           DeleteReports, DeleteClients, DeleteSources, MakeReady, RemoveJobs,
           ObliterateQueues, Now
  <1> QED
    BY <1>1, ContinuesMoves

LEMMA BeginTypes ==
  ASSUME TypeOK, ScriptInv, NEW kind \in Kinds, Begin(kind)
  PROVE  /\ TypeOK' /\ ScriptInv' /\ script'.kind = kind /\ script'.docs = {}
         /\ script'.end = "no" /\ script'.late = {} /\ script'.asked = {}
         /\ \A step : ~Executed(step)'
  <1>1. PICK day \in 0..LastDay, s \in Sources \cup {None} :
          script' = [NoScript EXCEPT !.kind = kind, !.at = 1, !.day = day, !.src = s,
                                     !.end = "no"]
    <2>1. (IF kind = "day" THEN 1..today ELSE {0}) \subseteq 0..LastDay
      BY MaintenanceAssumption DEF TypeOK, Days
    <2>2. (IF kind = "sources" THEN sources ELSE {None}) \subseteq Sources \cup {None}
      BY DEF TypeOK
    <2> QED
      BY <2>1, <2>2 DEF Begin
  <1>2. script' = [kind |-> kind, at |-> 1, day |-> day, src |-> s, docs |-> {},
                   jobs |-> {}, asked |-> {}, late |-> {}, end |-> "no"]
    BY <1>1 DEF NoScript
  <1>3. script' \in ScriptRec
    BY <1>2 DEF ScriptRec
  <1>4. 1 \in 1..Len(Steps[kind])
    BY StepsTypes, StepNumbers
  <1>5. ScriptInv' /\ \A step : ~Executed(step)'
    BY <1>2, <1>4 DEF ScriptInv, Executed, Kinds
  <1>6. started' \in 0..MaxScripts
    BY MaintenanceAssumption DEF Begin, TypeOK
  <1>7. UNCHANGED <<today, tables, redis, worker>>
    BY DEF Begin
  <1> QED
    BY <1>2, <1>3, <1>5, <1>6, <1>7 DEF TypeOK, ScriptRec, tables, redis, worker

\* A table of documents, less some of them or some of the runs, is a table of documents.
LEMMA TablesLess ==
  ASSUME NEW table \in [Docs -> DocRow \cup {None}]
  PROVE  /\ \A S : DocsWithout(table, S) \in [Docs -> DocRow \cup {None}]
         /\ \A R : Unlinked(table, R) \in [Docs -> DocRow \cup {None}]
  <1>1. \A d \in Docs : table[d] = None \/ table[d] \in DocRow
    OBVIOUS
  <1> QED
    BY <1>1, RowUpdates DEF DocsWithout, Unlinked

LEMMA DropTypes ==
  ASSUME TypeOK
  PROVE  /\ \A S : DropFindings(S) => finding' \in [Docs -> Days \cup {None}] /\ items' \subseteq Docs
         /\ \A S : DropDocs(S) => /\ doc' \in [Docs -> DocRow \cup {None}]
                                  /\ finding' \in [Docs -> Days \cup {None}] /\ items' \subseteq Docs
         /\ \A R : DropRuns(R) => /\ doc' \in [Docs -> DocRow \cup {None}]
                                  /\ runRow' \in [Runs -> RunRow \cup {None}]
  BY TablesLess DEF TypeOK, DropFindings, DropDocs, DropRuns

LEMMA ScriptTypes ==
  ASSUME TypeOK, ScriptInv, Script
  PROVE  TypeOK' /\ ScriptInv'
  <1>1. CASE RemoveJobs /\ UNCHANGED <<today, started>>
    <2>1. script' \in ScriptRec /\ ScriptInv'
      BY <1>1, PlainMoves DEF MovesOn, Moves
    <2>2. crawlJobs' \subseteq Job /\ normJobs' \subseteq Docs /\ classJobs' \subseteq Docs
      BY <1>1 DEF RemoveJobs, TypeOK
    <2> QED
      BY <1>1, <2>1, <2>2 DEF RemoveJobs, TypeOK, ScriptRec, tables, worker
  <1>2. CASE ObliterateQueues /\ UNCHANGED <<today, started>>
    <2>1. script' \in ScriptRec /\ ScriptInv'
      BY <1>2, PlainMoves DEF MovesOn, Moves
    <2>2. /\ crawlJobs' \subseteq Job /\ normJobs' \subseteq Docs /\ classJobs' \subseteq Docs
          /\ crawler' = crawler \/ crawler' = [crawler EXCEPT !.held = FALSE]
          /\ normalizer' = normalizer \/ normalizer' = [normalizer EXCEPT !.held = FALSE]
          /\ classifier' = classifier \/ classifier' = [classifier EXCEPT !.held = FALSE]
      BY <1>2 DEF ObliterateQueues, TypeOK
    <2>3. /\ [crawler EXCEPT !.held = FALSE] \in CrawlRec
          /\ [normalizer EXCEPT !.held = FALSE] \in NormRec
          /\ [classifier EXCEPT !.held = FALSE] \in ClassRec
      <3>1. [crawler EXCEPT !.held = FALSE] \in CrawlRec
        <4>1. [NoCrawl EXCEPT !.held = FALSE] = NoCrawl
          BY NoCrawlFreed
        <4> QED
          BY <4>1 DEF TypeOK, CrawlRec
      <3>2. [normalizer EXCEPT !.held = FALSE] \in NormRec
        BY DEF TypeOK, NormRec
      <3>3. [classifier EXCEPT !.held = FALSE] \in ClassRec
        <4>1. [NoClass EXCEPT !.held = FALSE] = NoClass
          BY NoClassFreed
        <4> QED
          BY <4>1 DEF TypeOK, ClassRec
      <3> QED
        BY <3>1, <3>2, <3>3
    <2>4. crawler' \in CrawlRec /\ normalizer' \in NormRec /\ classifier' \in ClassRec
      BY <2>2, <2>3 DEF TypeOK, CrawlRec, NormRec, ClassRec
    <2> QED
      BY <1>2, <2>1, <2>2, <2>4
         DEF ObliterateQueues, TypeOK, ScriptRec, tables, CrawlRec, NormRec, ClassRec
  <1>3. CASE UNCHANGED <<today, worker, started>>
    <2>1. ASSUME script' \in ScriptRec, ScriptInv', UNCHANGED <<tables, redis>>
          PROVE  TypeOK' /\ ScriptInv'
      BY <1>3, <2>1 DEF TypeOK, ScriptRec, tables, worker, redis
    <2>2. CASE ReadScope \/ ReadClient
      BY <2>1, <2>2, ReadMoves DEF ReadScope, ReadClient, Moves
    <2>3. CASE DeleteFindings
      BY <1>3, <2>3, DropTypes, PlainMoves
         DEF DeleteFindings, MovesOn, Moves, TypeOK, ScriptRec, worker, redis
    <2>4. CASE DeleteDuplicates
      BY <1>3, <2>4, DropTypes, DupesMoves
         DEF DeleteDuplicates, Moves, TypeOK, ScriptRec, worker, redis
    <2>5. CASE DeleteDocuments
      BY <1>3, <2>5, DropTypes, PlainMoves
         DEF DeleteDocuments, MovesOn, Moves, TypeOK, ScriptRec, worker, redis
    <2>6. CASE DeleteRuns
      BY <1>3, <2>6, DropTypes, PlainMoves
         DEF DeleteRuns, MovesOn, Moves, TypeOK, ScriptRec, worker, redis
    <2>7. CASE DeleteSourceRows
      <3>1. \A R, S : Unlinked(DocsWithout(doc, S), R) \in [Docs -> DocRow \cup {None}]
        BY TablesLess DEF TypeOK
      <3>2. runRow' \in [Runs -> RunRow \cup {None}]
        BY <2>7 DEF DeleteSourceRows, TypeOK
      <3>3. /\ finding' \in [Docs -> Days \cup {None}] /\ items' \subseteq Docs
            /\ doc' \in [Docs -> DocRow \cup {None}]
        BY <2>7, <3>1, DropTypes DEF DeleteSourceRows
      <3>4. UNCHANGED <<sources, client, analyst, report, redis>>
        BY <2>7 DEF DeleteSourceRows
      <3> QED
        BY <1>3, <2>7, <3>2, <3>3, <3>4, PlainMoves
           DEF MovesOn, Moves, TypeOK, ScriptRec, worker, redis
    <2>8. CASE DeleteItems \/ DeleteReports
      <3>1. items' \subseteq Docs /\ report' \in BOOLEAN
        BY <2>8 DEF DeleteItems, DeleteReports, TypeOK
      <3>2. UNCHANGED <<doc, finding, runRow, sources, client, analyst, redis>>
        BY <2>8 DEF DeleteItems, DeleteReports
      <3>3. script' \in ScriptRec /\ ScriptInv'
        BY <2>8, PlainMoves DEF MovesOn, Moves
      <3> QED
        BY <1>3, <3>1, <3>2, <3>3 DEF TypeOK, ScriptRec, worker, redis
    <2>9. CASE DeleteClients
      <3>1. client' \in BOOLEAN /\ report' \in BOOLEAN
        BY <2>9 DEF DeleteClients
      <3>2. finding' \in [Docs -> Days \cup {None}] /\ items' \subseteq Docs
        BY <2>9, DropTypes DEF DeleteClients
      <3>3. UNCHANGED <<doc, runRow, sources, analyst, redis>>
        BY <2>9 DEF DeleteClients
      <3>4. script' \in ScriptRec /\ ScriptInv'
        BY <2>9, PlainMoves DEF MovesOn, Moves
      <3> QED
        BY <1>3, <3>1, <3>2, <3>3, <3>4 DEF TypeOK, ScriptRec, worker, redis
    <2>10. CASE DeleteSources
      <3>1. \A d \in Docs : Stored(d) => [doc[d] EXCEPT !.src = None] \in DocRow
        BY RowUpdates DEF Stored, Present, TypeOK
      <3>2. doc' \in [Docs -> DocRow \cup {None}] /\ sources' \subseteq Sources
        BY <2>10, <3>1 DEF DeleteSources
      <3> QED
        BY <1>3, <2>10, <3>2, PlainMoves
           DEF DeleteSources, MovesOn, Moves, TypeOK, ScriptRec, worker, redis
    <2>11. CASE DeleteUsers
      <3>1. analyst' \in BOOLEAN
        BY <2>11 DEF DeleteUsers, TypeOK
      <3>2. UNCHANGED <<doc, finding, runRow, sources, client, report, items, redis>>
        BY <2>11 DEF DeleteUsers
      <3>3. script' \in ScriptRec /\ ScriptInv'
        BY <2>11, UsersMoves DEF Moves
      <3> QED
        BY <1>3, <3>1, <3>2, <3>3 DEF TypeOK, ScriptRec, worker, redis
    <2>12. CASE MakeReady
      <3>1. \A d \in Docs : Stored(d) => [doc[d] EXCEPT !.st = "READY_FOR_AI", !.err = FALSE] \in DocRow
        BY RowUpdates DEF Stored, Present, TypeOK, Statuses
      <3>2. doc' \in [Docs -> DocRow \cup {None}]
        BY <2>12, <3>1 DEF MakeReady, TypeOK
      <3>3. script' \in ScriptRec /\ ScriptInv'
        BY <2>12, PlainMoves DEF MovesOn, Moves
      <3>4. UNCHANGED <<finding, runRow, sources, client, analyst, report, items, redis>>
        BY <2>12 DEF MakeReady
      <3> QED
        BY <1>3, <3>2, <3>3, <3>4 DEF TypeOK, ScriptRec, worker, redis
    <2>13. CASE EnqueueClassify
      <3>1. classJobs' \subseteq Docs
        <4>1. classJobs' = classJobs \/ \E d \in script.docs : classJobs' = classJobs \cup {d}
          BY <2>13 DEF EnqueueClassify
        <4>2. classJobs \subseteq Docs /\ script.docs \subseteq Docs
          BY DEF TypeOK, ScriptRec
        <4> QED
          BY <4>1, <4>2
      <3>2. UNCHANGED <<tables, crawlJobs, normJobs>>
        BY <2>13 DEF EnqueueClassify
      <3> QED
        BY <1>3, <2>13, <3>1, <3>2, EnqueueMoves DEF TypeOK, ScriptRec, worker, tables
    <2> QED
      BY <1>3, <2>2, <2>3, <2>4, <2>5, <2>6, <2>7, <2>8, <2>9, <2>10, <2>11, <2>12, <2>13,
         <1>1, <1>2 DEF Script
  <1> QED
    BY <1>1, <1>2, <1>3 DEF Script

LEMMA NextTypes ==
  ASSUME TypeOK, ScriptInv, [Next]_vars
  PROVE  TypeOK' /\ ScriptInv'
  <1>1. CASE Worker
    BY <1>1, CrawlTypes, NormalizeTypes, ClassifyTypes DEF Worker
  <1>2. CASE Script
    BY <1>2, ScriptTypes
  <1>3. CASE \E s \in Sources : EnqueueCrawl(s)
    BY <1>3, EnqueueCrawlTypes
  <1>4. CASE Midnight
    <2>1. today' \in Days
      BY <1>4, MaintenanceAssumption DEF Midnight, TypeOK, Days
    <2> QED
      BY <1>4, <2>1, ScriptStays DEF Midnight, TypeOK, tables, redis, worker
  <1>5. CASE CreateReport
    <2>1. report' \in BOOLEAN /\ items' \subseteq Docs
      BY <1>5 DEF CreateReport
    <2> QED
      BY <1>5, <2>1, ScriptStays DEF CreateReport, TypeOK, redis, worker
  <1>6. CASE \E kind \in Kinds : Begin(kind)
    BY <1>6, BeginTypes
  <1>7. CASE Stops
    <2>1. script' \in ScriptRec /\ ScriptInv'
      BY <1>7, StoppedMoves DEF Stops, Moves
    <2> QED
      BY <1>7, <2>1 DEF Stops, TypeOK, ScriptRec, tables, redis, worker
  <1>8. CASE UNCHANGED vars
    BY <1>8, ScriptStays DEF vars, TypeOK, tables, redis, worker
  <1> QED
    BY <1>1, <1>2, <1>3, <1>4, <1>5, <1>6, <1>7, <1>8 DEF Next

\* Every table, queue, handler and script is of its type, and the script is at one of its
\* statements, whatever runs beside it.
THEOREM MaintenanceTypes == Spec => []TypeOK
  <1>1. Init => TypeOK /\ ScriptInv
    BY InitTypes
  <1>2. TypeOK /\ ScriptInv /\ [Next]_vars => TypeOK' /\ ScriptInv'
    BY NextTypes
  <1> QED
    BY <1>1, <1>2, PTL DEF Spec

-----------------------------------------------------------------------------
(* A document is normalized once, and no canonical is a duplicate.         *)

\* What deleting rows, unlinking them and changing a status leave of documents.
RowsLess ==
  \A d \in Docs : doc'[d] # None =>
    /\ doc[d] # None
    /\ doc'[d].st = "RECEIVED" <=> doc[d].st = "RECEIVED"
    /\ doc'[d].hash <=> doc[d].hash
    /\ doc'[d].run = doc[d].run \/ doc'[d].run = None
    /\ doc'[d].canon = None \/ (doc'[d].canon = doc[d].canon /\ doc'[doc[d].canon] # None)

\* No document comes into the hands of a handler or a queue that it was not in.
HandsLess ==
  /\ normJobs' \subseteq normJobs
  /\ classJobs' \cup {classifier'.doc} \subseteq classJobs \cup {classifier.doc, None}
  /\ crawler'.doc = crawler.doc \/ crawler'.doc = None
  /\ \/ normalizer'.doc = normalizer.doc /\ normalizer'.canon = normalizer.canon
     \/ normalizer' = NoNorm

LEMMA PresentIs ==
  ASSUME TypeOK
  PROVE  /\ \A d : Stored(d) <=> d \in Docs /\ doc[d] # None
         /\ \A d \in Docs : doc[d] # None => doc[d] \in DocRow
         /\ Present = {d \in Docs : doc[d] # None}
         /\ None \notin Docs
  BY MaintenanceAssumption DEF TypeOK, Stored, Present

\* Canonical and CanonInv, of the next state.
CanonicalNext(c) ==
  c \in Docs /\ doc'[c] # None /\ doc'[c].canon = None /\ doc'[c].st # "RECEIVED"

LEMMA CanonNextIs ==
  ASSUME TypeOK',
         \A d \in Docs : doc'[d] # None /\ doc'[d].canon # None => CanonicalNext(doc'[d].canon),
         /\ normalizer'.canon # None /\ normalizer'.canon \in Docs
         /\ doc'[normalizer'.canon] # None
         => CanonicalNext(normalizer'.canon)
  PROVE  CanonInv'
  BY DEF CanonInv, Canonical, CanonicalNext, Stored, Present

LEMMA LessIsSettled ==
  ASSUME TypeOK, TypeOK', PendingInv, CanonInv, RowsLess, HandsLess
  PROVE  PendingInv' /\ CanonInv'
  <1>1. /\ \A d : Stored(d) <=> d \in Docs /\ doc[d] # None
        /\ \A d : Stored(d)' <=> d \in Docs /\ doc'[d] # None
        /\ \A d \in Docs : doc[d] # None => doc[d] \in DocRow
        /\ \A d \in Docs : doc'[d] # None => doc'[d] \in DocRow
        /\ None \notin Docs
        /\ Present = {d \in Docs : doc[d] # None}
        /\ Present' = {d \in Docs : doc'[d] # None}
    BY PresentIs, MaintenanceAssumption DEF Stored, Present, TypeOK
  <1>2. PendingInv'
    <2>1. ASSUME NEW d \in Docs, doc'[d] # None
          PROVE  /\ d \in normJobs' \cup {crawler'.doc, normalizer'.doc} => doc'[d].st = "RECEIVED"
                 /\ d = crawler'.doc => doc'[d].run = None
                 /\ d \in classJobs' \cup {classifier'.doc} => doc'[d].st # "RECEIVED"
                 /\ doc'[d].st = "RECEIVED" => doc'[d].canon = None /\ ~doc'[d].hash
      <3>1. d \in Present /\ d # None
        BY <1>1, <2>1 DEF RowsLess
      <3>2. /\ d \in normJobs' \cup {crawler'.doc, normalizer'.doc}
                 => d \in normJobs \cup {crawler.doc, normalizer.doc}
            /\ d = crawler'.doc => d = crawler.doc
            /\ d \in classJobs' \cup {classifier'.doc} => d \in classJobs \cup {classifier.doc}
        BY <3>1 DEF HandsLess, NoNorm
      <3> QED
        BY <2>1, <3>1, <3>2 DEF PendingInv, RowsLess
    <2>2. crawler'.doc # None => crawler'.doc \notin normJobs' \cup {normalizer'.doc}
      BY DEF PendingInv, HandsLess, NoNorm
    <2>3. normalizer'.doc \notin normJobs'
      BY <1>1 DEF PendingInv, HandsLess, NoNorm, TypeOK
    <2> QED
      BY <1>1, <2>1, <2>2, <2>3 DEF PendingInv
  <1>3. ASSUME NEW c \in Docs, Canonical(c), doc'[c] # None
        PROVE  CanonicalNext(c)
    BY <1>1, <1>3 DEF Canonical, CanonicalNext, RowsLess
  <1>4. ASSUME NEW d \in Docs, doc'[d] # None, doc'[d].canon # None
        PROVE  CanonicalNext(doc'[d].canon)
    <2>1. /\ d \in Present /\ doc'[d].canon = doc[d].canon /\ doc'[doc[d].canon] # None
          /\ doc[d].canon \in Docs
      BY <1>1, <1>4 DEF RowsLess, DocRow
    <2>2. Canonical(doc[d].canon)
      BY <1>4, <2>1 DEF CanonInv
    <2> QED
      BY <1>3, <2>1, <2>2
  <1>5. ASSUME normalizer'.canon # None, normalizer'.canon \in Docs, doc'[normalizer'.canon] # None
        PROVE  CanonicalNext(normalizer'.canon)
    <2>1. normalizer'.canon = normalizer.canon
      BY <1>5 DEF HandsLess, NoNorm
    <2>2. Stored(normalizer.canon) /\ normalizer.canon # None /\ normalizer.canon \in Docs
      BY <1>1, <1>5, <2>1 DEF RowsLess
    <2>3. Canonical(normalizer.canon)
      BY <2>2 DEF CanonInv
    <2> QED
      BY <1>3, <1>5, <2>1, <2>2, <2>3
  <1>6. CanonInv'
    BY <1>1, <1>4, <1>5, CanonNextIs
  <1> QED
    BY <1>2, <1>6

LEMMA SameRows ==
  ASSUME TypeOK, CanonInv, UNCHANGED doc
  PROVE  RowsLess
  BY PresentIs DEF RowsLess, CanonInv, Canonical

\* A row among those that are left when some are deleted.
LEMMA DocsWithoutIs ==
  ASSUME TypeOK, NEW S, NEW d \in Docs
  PROVE  LET mid == DocsWithout(doc, S)
         IN  /\ mid[d] # None =>
                  /\ doc[d] # None /\ d \notin S
                  /\ mid[d].st = doc[d].st /\ mid[d].run = doc[d].run
                  /\ mid[d].day = doc[d].day /\ mid[d].src = doc[d].src
                  /\ mid[d].hash <=> doc[d].hash
                  /\ \/ mid[d].canon = None /\ (doc[d].canon = None \/ doc[d].canon \in S)
                     \/ mid[d].canon = doc[d].canon /\ doc[d].canon \notin S
             /\ mid[d] = None => doc[d] = None \/ d \in S
  <1> DEFINE mid == DocsWithout(doc, S)
  <1>1. doc[d] = None \/ doc[d] \in DocRow
    BY DEF TypeOK
  <1>2. mid[d] = IF doc[d] = None \/ d \in S THEN None
                 ELSE IF doc[d].canon \in S THEN [doc[d] EXCEPT !.canon = None]
                 ELSE doc[d]
    BY DEF DocsWithout
  <1>3. doc[d] # None => [doc[d] EXCEPT !.canon = None] \in DocRow
    BY <1>1, RowUpdates
  <1> HIDE DEF mid
  <1>4. /\ mid[d] # None =>
              /\ doc[d] # None /\ d \notin S
              /\ mid[d].st = doc[d].st /\ mid[d].run = doc[d].run
              /\ mid[d].day = doc[d].day /\ mid[d].src = doc[d].src
              /\ mid[d].hash <=> doc[d].hash
              /\ \/ mid[d].canon = None /\ (doc[d].canon = None \/ doc[d].canon \in S)
                 \/ mid[d].canon = doc[d].canon /\ doc[d].canon \notin S
        /\ mid[d] = None => doc[d] = None \/ d \in S
    BY <1>1, <1>2, <1>3, MaintenanceAssumption DEF DocRow
  <1> QED
    BY <1>4 DEF mid

\* A row whose run may be deleted.
LEMMA UnlinkedIs ==
  ASSUME NEW table \in [Docs -> DocRow \cup {None}], NEW R, NEW d \in Docs
  PROVE  /\ Unlinked(table, R)[d] # None <=> table[d] # None
         /\ table[d] # None =>
              /\ Unlinked(table, R)[d].st = table[d].st
              /\ Unlinked(table, R)[d].canon = table[d].canon
              /\ Unlinked(table, R)[d].src = table[d].src
              /\ Unlinked(table, R)[d].day = table[d].day
              /\ Unlinked(table, R)[d].hash <=> table[d].hash
              /\ Unlinked(table, R)[d].run = table[d].run \/ Unlinked(table, R)[d].run = None
  <1>1. table[d] = None \/ table[d] \in DocRow
    OBVIOUS
  <1>2. Unlinked(table, R)[d] = IF table[d] # None /\ table[d].run \in R
                                  THEN [table[d] EXCEPT !.run = None] ELSE table[d]
    BY DEF Unlinked
  <1>3. table[d] # None => [table[d] EXCEPT !.run = None] \in DocRow
    BY <1>1, RowUpdates
  <1> QED
    BY <1>1, <1>2, <1>3, MaintenanceAssumption DEF DocRow

\* Rows that are deleted, rows that lose their run.
LEMMA DeletedRows ==
  ASSUME TypeOK, CanonInv, NEW S, NEW R,
         \/ doc' = DocsWithout(doc, S)
         \/ doc' = Unlinked(doc, R)
         \/ doc' = Unlinked(DocsWithout(doc, S), R)
  PROVE  RowsLess
  <1> DEFINE mid == DocsWithout(doc, S)
  <1>1. mid \in [Docs -> DocRow \cup {None}]
    BY TablesLess DEF TypeOK
  <1>2. ASSUME NEW d \in Docs
        PROVE  /\ mid[d] # None =>
                    /\ doc[d] # None /\ d \notin S
                    /\ mid[d].st = doc[d].st /\ mid[d].run = doc[d].run
                    /\ mid[d].hash <=> doc[d].hash
                    /\ mid[d].canon = None \/ (mid[d].canon = doc[d].canon /\ doc[d].canon \notin S)
               /\ mid[d] = None => doc[d] = None \/ d \in S
    BY DocsWithoutIs
  <1>3. ASSUME NEW table \in [Docs -> DocRow \cup {None}], NEW d \in Docs
        PROVE  /\ Unlinked(table, R)[d] # None <=> table[d] # None
               /\ table[d] # None =>
                    /\ Unlinked(table, R)[d].st = table[d].st
                    /\ Unlinked(table, R)[d].hash <=> table[d].hash
                    /\ Unlinked(table, R)[d].canon = table[d].canon
                    /\ Unlinked(table, R)[d].run = table[d].run \/ Unlinked(table, R)[d].run = None
    BY UnlinkedIs
  <1>4. \A d \in Docs : doc[d] # None /\ doc[d].canon # None =>
          doc[d].canon \in Docs /\ doc[doc[d].canon] # None
    BY PresentIs DEF CanonInv, Canonical
  <1>5. ASSUME NEW d \in Docs, mid[d] # None, mid[d].canon # None
        PROVE  mid[d].canon = doc[d].canon /\ mid[doc[d].canon] # None
    BY <1>2, <1>4, <1>5
  <1> HIDE DEF mid
  <1>6. doc \in [Docs -> DocRow \cup {None}]
    BY DEF TypeOK
  <1>7. CASE doc' = mid
    BY <1>2, <1>5, <1>7 DEF RowsLess
  <1>8. CASE doc' = Unlinked(doc, R)
    BY <1>3, <1>4, <1>6, <1>8 DEF RowsLess
  <1>9. CASE doc' = Unlinked(mid, R)
    BY <1>1, <1>2, <1>3, <1>4, <1>5, <1>9 DEF RowsLess
  <1> QED
    BY <1>7, <1>8, <1>9 DEF mid

LEMMA ScriptSettled ==
  ASSUME TypeOK, TypeOK', PendingInv, CanonInv, Script
  PROVE  PendingInv' /\ CanonInv'
  <1>1. CASE EnqueueClassify
    <2>1. UNCHANGED <<doc, normJobs, worker>>
      BY <1>1 DEF EnqueueClassify, Script, tables, RemoveJobs, ObliterateQueues, Now
    <2>2. \/ UNCHANGED classJobs
          \/ \E d \in script.docs : Reclassifiable(d) /\ classJobs' = classJobs \cup {d}
      BY <1>1 DEF EnqueueClassify
    <2>3. PendingInv'
      BY <2>1, <2>2 DEF PendingInv, Reclassifiable, Present, worker
    <2>4. CanonInv'
      BY <2>1 DEF CanonInv, Canonical, Stored, Present, worker
    <2> QED
      BY <2>3, <2>4
  <1>2. CASE ~EnqueueClassify
    <2>1. RowsLess
      <3>1. CASE UNCHANGED doc
        BY <3>1, SameRows
      <3>2. CASE \/ DeleteDuplicates \/ DeleteDocuments \/ DeleteRuns \/ DeleteSourceRows
        <4>1. \E S, R : \/ doc' = DocsWithout(doc, S)
                        \/ doc' = Unlinked(doc, R)
                        \/ doc' = Unlinked(DocsWithout(doc, S), R)
          BY <3>2 DEF DeleteDuplicates, DeleteDocuments, DeleteRuns, DeleteSourceRows,
                      DropDocs, DropRuns
        <4> QED
          BY <4>1, DeletedRows
      <3>3. CASE DeleteSources
        <4>1. ASSUME NEW d \in Docs
              PROVE  /\ doc'[d] = None <=> doc[d] = None
                     /\ doc[d] # None => /\ doc'[d].st = doc[d].st /\ doc'[d].run = doc[d].run
                                         /\ doc'[d].canon = doc[d].canon
                                         /\ doc'[d].hash <=> doc[d].hash
          <5>1. doc[d] = None \/ doc[d] \in DocRow
            BY DEF TypeOK
          <5>2. doc[d] # None => [doc[d] EXCEPT !.src = None] \in DocRow
            BY <5>1, RowUpdates
          <5>3. doc'[d] = IF doc[d] # None THEN [doc[d] EXCEPT !.src = None] ELSE None
            BY <3>3, PresentIs DEF DeleteSources
          <5> QED
            BY <5>1, <5>2, <5>3, MaintenanceAssumption DEF DocRow
        <4> QED
          BY <4>1, PresentIs DEF RowsLess, CanonInv, Canonical
      <3>4. CASE MakeReady
        <4>1. ASSUME NEW d \in Docs
              PROVE  /\ doc'[d] = None <=> doc[d] = None
                     /\ doc[d] # None => /\ doc'[d].run = doc[d].run /\ doc'[d].canon = doc[d].canon
                                         /\ doc'[d].st = "RECEIVED" <=> doc[d].st = "RECEIVED"
                                         /\ doc'[d].hash <=> doc[d].hash
          <5>1. doc[d] = None \/ doc[d] \in DocRow
            BY DEF TypeOK
          <5>2. doc[d] # None => [doc[d] EXCEPT !.st = "READY_FOR_AI", !.err = FALSE] \in DocRow
            BY <5>1, RowUpdates DEF Statuses
          <5>3. \/ doc'[d] = doc[d]
                \/ /\ doc[d] # None /\ doc[d].st \in {"CLASSIFIED", "READY_FOR_AI"}
                   /\ doc'[d] = [doc[d] EXCEPT !.st = "READY_FOR_AI", !.err = FALSE]
            BY <3>4, PresentIs DEF MakeReady
          <5> QED
            BY <5>1, <5>2, <5>3, MaintenanceAssumption DEF DocRow
        <4> QED
          BY <4>1, PresentIs DEF RowsLess, CanonInv, Canonical
      <3> QED
        BY <1>2, <3>1, <3>2, <3>3, <3>4
           DEF Script, ReadScope, ReadClient, DeleteFindings, DeleteItems, DeleteReports,
               DeleteClients, DeleteUsers, RemoveJobs, ObliterateQueues, tables
    <2>2. HandsLess
      <3>1. CASE RemoveJobs \/ ObliterateQueues
        <4>1. normJobs' \subseteq normJobs /\ classJobs' \subseteq classJobs
          BY <3>1 DEF RemoveJobs, ObliterateQueues
        <4>2. /\ crawler' = crawler \/ crawler' = [crawler EXCEPT !.held = FALSE]
              /\ normalizer' = normalizer \/ normalizer' = [normalizer EXCEPT !.held = FALSE]
              /\ classifier' = classifier \/ classifier' = [classifier EXCEPT !.held = FALSE]
          BY <3>1 DEF RemoveJobs, ObliterateQueues, worker
        <4>3. /\ crawler'.doc = crawler.doc /\ normalizer'.doc = normalizer.doc
              /\ normalizer'.canon = normalizer.canon /\ classifier'.doc = classifier.doc
          <5>1. crawler'.doc = crawler.doc
            BY <4>2, NoCrawlFreed DEF TypeOK
          <5>2. normalizer'.doc = normalizer.doc /\ normalizer'.canon = normalizer.canon
            BY <4>2 DEF TypeOK
          <5>3. classifier'.doc = classifier.doc
            BY <4>2, NoClassFreed DEF TypeOK
          <5> QED
            BY <5>1, <5>2, <5>3
        <4> QED
          BY <4>1, <4>3 DEF HandsLess
      <3>2. CASE ~(RemoveJobs \/ ObliterateQueues)
        <4>1. UNCHANGED <<normJobs, classJobs, crawler, normalizer, classifier>>
          BY <1>2, <3>2
             DEF Script, ReadScope, ReadClient, DeleteFindings, DeleteDuplicates,
                 DeleteDocuments, DeleteRuns, DeleteSourceRows, DeleteItems, DeleteReports,
                 DeleteClients, DeleteSources, DeleteUsers, MakeReady, redis, worker
        <4> QED
          BY <4>1 DEF HandsLess
      <3> QED
        BY <3>1, <3>2
    <2> QED
      BY <2>1, <2>2, LessIsSettled
  <1> QED
    BY <1>1, <1>2

\* What the classifier writes of a document is its status and its error.
LEMMA ClassifiedIs ==
  ASSUME TypeOK, TypeOK', ClassifyFails \/ FailIfClassifying \/ MarksClassified
  PROVE  \/ UNCHANGED doc
         \/ \E d \in Docs, row \in DocRow :
              /\ d = classifier.doc /\ doc[d] # None /\ doc[d] \in DocRow
              /\ doc' = [doc EXCEPT ![d] = row]
              /\ row.canon = doc[d].canon /\ row.run = doc[d].run
              /\ row.src = doc[d].src /\ row.day = doc[d].day
              /\ row.hash <=> doc[d].hash
              /\ doc[d].st # "RECEIVED" => row.st # "RECEIVED"
  <1> DEFINE d == classifier.doc
  <1> SUFFICES ASSUME ~UNCHANGED doc
               PROVE  \E row \in DocRow :
                        /\ d \in Docs /\ doc[d] # None /\ doc[d] \in DocRow
                        /\ doc' = [doc EXCEPT ![d] = row]
                        /\ row.canon = doc[d].canon /\ row.run = doc[d].run
                        /\ row.src = doc[d].src /\ row.day = doc[d].day
                        /\ row.hash <=> doc[d].hash
                        /\ doc[d].st # "RECEIVED" => row.st # "RECEIVED"
    OBVIOUS
  <1>1. /\ d \in Docs /\ doc[d] # None /\ doc[d] \in DocRow
        /\ \/ doc' = [doc EXCEPT ![d].err = TRUE]
           \/ doc' = [doc EXCEPT ![d] = [@ EXCEPT !.st = "FAILED", !.err = TRUE]]
           \/ doc' = [doc EXCEPT ![d] = [@ EXCEPT !.st = "CLASSIFIED", !.err = FALSE]]
    BY PresentIs DEF ClassifyFails, FailIfClassifying, MarksClassified
  <1>2. /\ [doc[d] EXCEPT !.err = TRUE] \in DocRow
        /\ [doc[d] EXCEPT !.st = "FAILED", !.err = TRUE] \in DocRow
        /\ [doc[d] EXCEPT !.st = "CLASSIFIED", !.err = FALSE] \in DocRow
    BY <1>1, RowUpdates DEF Statuses
  <1>3. PICK row \in DocRow :
          /\ doc' = [doc EXCEPT ![d] = row]
          /\ \/ row = [doc[d] EXCEPT !.err = TRUE]
             \/ row = [doc[d] EXCEPT !.st = "FAILED", !.err = TRUE]
             \/ row = [doc[d] EXCEPT !.st = "CLASSIFIED", !.err = FALSE]
    BY <1>1, <1>2
  <1>4. /\ row.canon = doc[d].canon /\ row.run = doc[d].run
        /\ row.src = doc[d].src /\ row.day = doc[d].day
        /\ row.hash <=> doc[d].hash
        /\ doc[d].st # "RECEIVED" => row.st # "RECEIVED"
    BY <1>1, <1>3 DEF DocRow
  <1> QED
    BY <1>1, <1>3, <1>4

\* The steps of the handlers that delete nothing and hand nothing on.
LEMMA QuietSteps ==
  ASSUME TypeOK, TypeOK', PendingInv, CanonInv,
         \/ \E j \in crawlJobs : CrawlStarts(j)
         \/ SaveFails \/ CrawlEnds
         \/ \E d \in Docs : ClassifyStarts(d)
         \/ ClassifyUpserts \/ ClassifyFails \/ FailIfClassifying \/ MarksClassified
         \/ \E s \in Sources : EnqueueCrawl(s)
         \/ Midnight \/ CreateReport \/ Stops
         \/ \E kind \in Kinds : Begin(kind)
         \/ UNCHANGED vars
  PROVE  PendingInv' /\ CanonInv'
  <1>1. HandsLess
    <2>1. UNCHANGED <<normJobs, normalizer>>
      BY DEF CrawlStarts, SaveFails, CrawlEnds, ClassifyStarts, ClassifyUpserts, ClassifyFails,
             FailIfClassifying, MarksClassified, EnqueueCrawl, Midnight, CreateReport, Stops,
             Begin, vars, redis, worker
    <2>2. crawler'.doc = crawler.doc \/ crawler'.doc = None
      <3>1. CASE \E j \in crawlJobs : CrawlStarts(j)
        <4>1. UNCHANGED crawler \/ \E j :
                crawler' = [job |-> j, doc |-> None, meta |-> FALSE, held |-> TRUE]
          BY <3>1 DEF CrawlStarts
        <4> QED
          BY <4>1
      <3>2. CASE SaveFails \/ CrawlEnds
        BY <3>2 DEF SaveFails, CrawlEnds, CrawlThrows, NoCrawl
      <3> QED
        BY <3>1, <3>2
           DEF ClassifyStarts, ClassifyUpserts, ClassifyFails, FailIfClassifying,
               MarksClassified, EnqueueCrawl, Midnight,
               CreateReport, Stops, Begin, vars, redis, worker
    <2>3. classJobs' \cup {classifier'.doc} \subseteq classJobs \cup {classifier.doc, None}
      <3>1. CASE UNCHANGED <<classJobs, classifier>>
        BY <3>1
      <3>2. ASSUME NEW d \in Docs, ClassifyStarts(d)
            PROVE  classJobs' \cup {classifier'.doc} \subseteq classJobs \cup {classifier.doc, None}
        BY <3>2 DEF ClassifyStarts
      <3>3. CASE ClassifyUpserts
        BY <3>3 DEF ClassifyUpserts, TypeOK, redis
      <3>4. CASE FailIfClassifying \/ MarksClassified
        BY <3>4 DEF FailIfClassifying, MarksClassified, NoClass, redis
      <3>5. CASE ClassifyFails
        <4>1. /\ classJobs' \subseteq classJobs \cup {classifier.doc}
              /\ classifier' = NoClass \/ classifier' = [classifier EXCEPT !.pc = "fail", !.held = FALSE]
          BY <3>5 DEF ClassifyFails
        <4>2. [classifier EXCEPT !.pc = "fail", !.held = FALSE].doc = classifier.doc
          BY <3>5 DEF ClassifyFails, TypeOK, NoClass
        <4>3. classifier' = NoClass => classifier'.doc = None
          BY DEF NoClass
        <4>4. classifier'.doc \in {None, classifier.doc}
          BY <4>1, <4>2, <4>3
        <4> QED
          BY <4>1, <4>4
      <3> QED
        BY <3>1, <3>2, <3>3, <3>4, <3>5
           DEF CrawlStarts, SaveFails, CrawlEnds, EnqueueCrawl, Midnight, CreateReport, Stops, Begin,
               vars, redis, worker
    <2> QED
      BY <2>1, <2>2, <2>3 DEF HandsLess
  <1>2. RowsLess
    <2>1. CASE UNCHANGED doc
      BY <2>1, SameRows
    <2>2. CASE ClassifyFails \/ FailIfClassifying \/ MarksClassified
      <3>1. SUFFICES ASSUME ~UNCHANGED doc PROVE RowsLess
        BY <2>1
      <3>2. PICK d \in Docs, row \in DocRow :
              /\ d = classifier.doc /\ doc[d] # None /\ doc[d] \in DocRow
              /\ doc' = [doc EXCEPT ![d] = row]
              /\ row.canon = doc[d].canon /\ row.run = doc[d].run
              /\ row.hash <=> doc[d].hash
              /\ doc[d].st # "RECEIVED" => row.st # "RECEIVED"
        BY <2>2, <3>1, ClassifiedIs
      <3>3. doc[d].st # "RECEIVED"
        BY <3>2, PresentIs DEF PendingInv
      <3>4. doc'[d] = row /\ row # None /\ \A e \in Docs \ {d} : doc'[e] = doc[e]
        BY <3>2, MaintenanceAssumption DEF TypeOK
      <3> QED
        BY <3>2, <3>3, <3>4, PresentIs DEF RowsLess, CanonInv, Canonical
    <2> QED
      BY <2>1, <2>2
         DEF CrawlStarts, SaveFails, CrawlEnds, ClassifyStarts, ClassifyUpserts, EnqueueCrawl,
             Midnight, CreateReport, Stops, Begin, vars, tables
  <1> QED
    BY <1>1, <1>2, LessIsSettled

\* saveRaw, of a page to extract, of another file or of the metadata.
LEMMA SavedIs ==
  ASSUME TypeOK, NEW d \in Docs, CrawlSaves(d) \/ CrawlSavesMeta(d)
  PROVE  \E st \in {"RECEIVED", "DISCARDED"} :
           /\ SaveRaw(d, st)
           /\ crawler \in [job: Job, doc: Docs \cup {None}, meta: BOOLEAN, held: BOOLEAN]
           /\ crawler'.job = crawler.job /\ crawler' # NoCrawl
           /\ crawler'.doc = IF d \in Pages THEN d ELSE None
           /\ d \in Pages => st = "RECEIVED"
  <1>1. PICK st \in {"RECEIVED", "DISCARDED"} :
          /\ SaveRaw(d, st)
          /\ d \in Pages => st = "RECEIVED" /\ crawler' = [crawler EXCEPT !.doc = d]
          /\ d \notin Pages => crawler' = crawler \/ crawler' = [crawler EXCEPT !.meta = TRUE]
    BY DEF CrawlSaves, CrawlSavesMeta
  <1>2. /\ crawler \in [job: Job, doc: Docs \cup {None}, meta: BOOLEAN, held: BOOLEAN]
        /\ crawler.doc = None
    BY <1>1 DEF SaveRaw, TypeOK, NoCrawl
  <1>3. /\ crawler'.job = crawler.job /\ crawler'.doc = IF d \in Pages THEN d ELSE None
        /\ crawler'.job \in Job
    BY <1>1, <1>2
  <1>4. crawler' # NoCrawl
    BY <1>3, MaintenanceAssumption DEF NoCrawl
  <1> QED
    BY <1>1, <1>2, <1>3, <1>4

LEMMA SavesSettled ==
  ASSUME TypeOK, TypeOK', PendingInv, CanonInv,
         NEW d \in Docs, CrawlSaves(d) \/ CrawlSavesMeta(d)
  PROVE  PendingInv' /\ CanonInv'
  <1>0. PICK st \in {"RECEIVED", "DISCARDED"} :
          /\ SaveRaw(d, st)
          /\ crawler'.doc = IF d \in Pages THEN d ELSE None
          /\ d \in Pages => st = "RECEIVED"
    BY SavedIs
  <1> DEFINE row == Row(st, SourceOf[d], today)
  <1>1. /\ SaveRaw(d, st) /\ doc' = [doc EXCEPT ![d] = row]
        /\ crawler'.doc = None \/ (crawler'.doc = d /\ st = "RECEIVED")
        /\ UNCHANGED <<normJobs, classJobs, normalizer, classifier>>
    BY <1>0 DEF SaveRaw, redis
  <1>2. row.st = st /\ row.run = None /\ row.canon = None /\ row.hash = FALSE
    BY DEF Row
  <1> HIDE DEF row
  <1>3. /\ doc'[d] = row
        /\ \A e \in Docs \ {d} : doc'[e] = doc[e]
    BY <1>1 DEF TypeOK
  <1>4. /\ doc[d] = None /\ d \notin normJobs \cup classJobs
        /\ d # normalizer.doc /\ d # normalizer.canon /\ d # classifier.doc
    BY <1>1, PresentIs DEF SaveRaw, FreshDoc
  <1>5. /\ Present' \ {d} = Present /\ d \notin Present /\ d # None
    BY <1>3, <1>4, PresentIs DEF Present
  <1>6. PendingInv'
    <2>1. ASSUME NEW e \in Present'
          PROVE  /\ e \in normJobs \cup {crawler'.doc, normalizer.doc} => doc'[e].st = "RECEIVED"
                 /\ e = crawler'.doc => doc'[e].run = None
                 /\ e \in classJobs \cup {classifier.doc} => doc'[e].st # "RECEIVED"
                 /\ doc'[e].st = "RECEIVED" => doc'[e].canon = None /\ ~doc'[e].hash
      <3>1. CASE e = d
        BY <1>1, <1>2, <1>3, <1>4, <1>5, <3>1
      <3>2. CASE e # d
        <4>1. e \in Present /\ doc'[e] = doc[e]
          BY <1>3, <1>5, <2>1, <3>2 DEF Present
        <4> QED
          BY <1>1, <1>5, <2>1, <3>2, <4>1, MaintenanceAssumption DEF PendingInv, SaveRaw, Present
      <3> QED
        BY <3>1, <3>2
    <2>2. d \notin normJobs \cup {normalizer.doc} /\ normalizer.doc \notin normJobs
      BY <1>4 DEF PendingInv
    <2> QED
      BY <1>1, <1>3, <2>1, <2>2 DEF PendingInv
  <1>7. ASSUME NEW c, Canonical(c)
        PROVE  CanonicalNext(c)
    BY <1>3, <1>4, <1>7, PresentIs DEF Canonical, CanonicalNext
  <1>8. \A e \in Docs : doc'[e] # None /\ doc'[e].canon # None => CanonicalNext(doc'[e].canon)
    BY <1>2, <1>3, <1>7, PresentIs DEF CanonInv
  <1>9. /\ normalizer'.canon # None /\ normalizer'.canon \in Docs
        /\ doc'[normalizer'.canon] # None
        => CanonicalNext(normalizer'.canon)
    BY <1>1, <1>3, <1>4, <1>7, PresentIs DEF CanonInv
  <1> QED
    BY <1>6, <1>8, <1>9, CanonNextIs

LEMMA LinksSettled ==
  ASSUME TypeOK, TypeOK', PendingInv, CanonInv, CrawlLinks
  PROVE  PendingInv' /\ CanonInv'
  <1> DEFINE d == crawler.doc
  <1>1. CASE ~Linkable(d)
    <2>1. UNCHANGED doc /\ crawler' = NoCrawl
          /\ UNCHANGED <<normJobs, classJobs, normalizer, classifier>>
      BY <1>1 DEF CrawlLinks, CrawlThrows
    <2>2. RowsLess /\ HandsLess
      BY <2>1, SameRows DEF HandsLess, NoCrawl
    <2> QED
      BY <2>2, LessIsSettled
  <1>2. CASE Linkable(d)
    <2> DEFINE row == [doc[d] EXCEPT !.run = crawler.job.run]
    <2>1. /\ doc' = [doc EXCEPT ![d] = row] /\ normJobs' \in {normJobs \cup {d}, normJobs}
          /\ crawler' = [crawler EXCEPT !.doc = None]
          /\ UNCHANGED <<classJobs, normalizer, classifier>>
      BY <1>2 DEF CrawlLinks
    <2>2. /\ d \in Docs /\ doc[d] # None /\ doc[d] \in DocRow /\ doc[d].st = "RECEIVED"
          /\ d # None /\ d \notin normJobs \cup {normalizer.doc}
      BY <1>2, PresentIs DEF Linkable, PendingInv
    <2>3. /\ row.st = "RECEIVED" /\ row.canon = doc[d].canon /\ row # None
          /\ row.hash <=> doc[d].hash
      <3>1. crawler.job.run \in Runs
        BY <2>2 DEF TypeOK, Job, NoCrawl
      <3>2. /\ row \in DocRow /\ row.st = doc[d].st /\ row.canon = doc[d].canon
            /\ row.hash <=> doc[d].hash
        BY <2>2, <3>1 DEF DocRow
      <3> QED
        BY <2>2, <3>2, MaintenanceAssumption
    <2> HIDE DEF row
    <2>4. /\ doc'[d] = row /\ crawler'.doc = None
          /\ \A e \in Docs \ {d} : doc'[e] = doc[e]
      BY <2>1, <2>2 DEF TypeOK, NoCrawl
    <2>5. Present' = Present
      BY <2>2, <2>3, <2>4, PresentIs DEF Present
    <2>6. \A e \in Present : /\ doc'[e].st = doc[e].st /\ doc'[e].canon = doc[e].canon
                              /\ e \in Docs /\ (doc'[e].hash <=> doc[e].hash)
      BY <2>2, <2>3, <2>4, PresentIs
    <2>7. PendingInv'
      <3>1. ASSUME NEW e \in Present
            PROVE  /\ e \in normJobs \cup {d, normalizer.doc} => doc'[e].st = "RECEIVED"
                   /\ e # None
                   /\ e \in classJobs \cup {classifier.doc} => doc'[e].st # "RECEIVED"
                   /\ doc'[e].st = "RECEIVED" => doc'[e].canon = None /\ ~doc'[e].hash
        BY <2>2, <2>6, PresentIs DEF PendingInv
      <3>2. normalizer.doc \notin normJobs \cup {d}
        BY <2>2 DEF PendingInv
      <3> QED
        BY <2>1, <2>4, <2>5, <3>1, <3>2 DEF PendingInv
    <2>8. CanonInv'
      BY <2>1, <2>5, <2>6, PresentIs DEF CanonInv, Canonical, Stored
    <2> QED
      BY <2>7, <2>8
  <1> QED
    BY <1>1, <1>2

LEMMA FindsSettled ==
  ASSUME TypeOK, TypeOK', PendingInv, CanonInv, NEW d \in Docs, NormalizeFinds(d)
  PROVE  PendingInv' /\ CanonInv'
  <1>1. /\ normalizer = NoNorm /\ d \in normJobs /\ normJobs' = normJobs \ {d}
        /\ UNCHANGED <<doc, classJobs, crawler, classifier>>
    BY DEF NormalizeFinds, tables
  <1>2. CASE UNCHANGED normalizer
    <2>1. RowsLess /\ HandsLess
      BY <1>1, <1>2, SameRows DEF HandsLess
    <2> QED
      BY <2>1, LessIsSettled
  <1>3. CASE ~UNCHANGED normalizer
    <2>1. PICK c :
            /\ c = None \/ (c \in Present /\ c # d /\ doc[c].canon = None
                            /\ doc[c].st \in {"CLASSIFIED", "READY_FOR_AI"})
            /\ normalizer' = [doc |-> d, canon |-> c, held |-> TRUE]
      BY <1>3 DEF NormalizeFinds
    <2>2. normalizer'.doc = d /\ normalizer'.canon = c
      BY <2>1
    <2>3. PendingInv'
      <3>1. crawler.doc # None => crawler.doc # d
        BY <1>1 DEF PendingInv
      <3> QED
        BY <1>1, <2>2, <3>1, PresentIs DEF PendingInv, Present
    <2>4. \A e \in Docs : doc'[e] # None /\ doc'[e].canon # None => CanonicalNext(doc'[e].canon)
      BY <1>1, PresentIs DEF CanonInv, Canonical, CanonicalNext
    <2>5. c # None => CanonicalNext(c)
      BY <1>1, <2>1, PresentIs DEF CanonicalNext
    <2> QED
      BY <2>2, <2>3, <2>4, <2>5, CanonNextIs
  <1> QED
    BY <1>2, <1>3

\* What the end of a normalization makes of a document.
LEMMA NormalizedIs ==
  ASSUME TypeOK, PendingInv, NormalizeWrites, Stored(normalizer.doc)
  PROVE  /\ normalizer.doc \in Docs /\ normalizer.doc # None /\ doc[normalizer.doc] \in DocRow
         /\ doc[normalizer.doc].st = "RECEIVED" /\ doc[normalizer.doc].canon = None
         /\ \A e \in Docs : e # normalizer.doc => doc'[e] = doc[e]
         /\ doc'[normalizer.doc] \in DocRow /\ doc'[normalizer.doc].st # "RECEIVED"
         /\ doc'[normalizer.doc].run = doc[normalizer.doc].run
         /\ doc'[normalizer.doc].src = doc[normalizer.doc].src
         /\ doc'[normalizer.doc].day = doc[normalizer.doc].day
         /\ doc'[normalizer.doc].canon # None =>
              /\ doc'[normalizer.doc].canon = normalizer.canon
              /\ normalizer.canon # None /\ Stored(normalizer.canon)
  <1> DEFINE d == normalizer.doc
             c == normalizer.canon
  <1>1. /\ d \in Docs /\ d # None /\ doc[d] \in DocRow
        /\ doc[d].st = "RECEIVED" /\ doc[d].canon = None
    BY PresentIs DEF PendingInv
  <1>2. c \in Docs \cup {None}
    BY DEF TypeOK
  <1>3. \/ doc' = [doc EXCEPT ![d] = [@ EXCEPT !.st = "READY_FOR_AI", !.hash = TRUE, !.err = FALSE]]
        \/ /\ c # None /\ Stored(c)
           /\ doc' = [doc EXCEPT ![d] = [@ EXCEPT !.st = "DEDUPED", !.canon = c,
                                                  !.hash = TRUE, !.err = FALSE]]
        \/ doc' = [doc EXCEPT ![d] = [@ EXCEPT !.st = "FAILED", !.err = TRUE]]
    BY DEF NormalizeWrites
  <1> HIDE DEF c
  <1>4. PICK row :
          /\ doc' = [doc EXCEPT ![d] = row]
          /\ \/ row = [doc[d] EXCEPT !.st = "READY_FOR_AI", !.hash = TRUE, !.err = FALSE]
             \/ /\ c # None /\ Stored(c)
                /\ row = [doc[d] EXCEPT !.st = "DEDUPED", !.canon = c, !.hash = TRUE, !.err = FALSE]
             \/ row = [doc[d] EXCEPT !.st = "FAILED", !.err = TRUE]
    BY <1>3
  <1>5. doc'[d] = row
    BY <1>1, <1>4 DEF TypeOK
  <1>6. \A e \in Docs : e # d => doc'[e] = doc[e]
    BY <1>1, <1>4 DEF TypeOK
  <1>7. /\ row \in DocRow /\ row.st # "RECEIVED"
        /\ row.run = doc[d].run /\ row.src = doc[d].src /\ row.day = doc[d].day
        /\ row.canon # None => row.canon = c /\ c # None /\ Stored(c)
    <2>1. /\ [doc[d] EXCEPT !.st = "READY_FOR_AI", !.hash = TRUE, !.err = FALSE] \in DocRow
          /\ [doc[d] EXCEPT !.st = "DEDUPED", !.canon = c, !.hash = TRUE, !.err = FALSE] \in DocRow
          /\ [doc[d] EXCEPT !.st = "FAILED", !.err = TRUE] \in DocRow
      BY <1>1, <1>2, RowUpdates DEF Statuses
    <2>2. CASE row = [doc[d] EXCEPT !.st = "READY_FOR_AI", !.hash = TRUE, !.err = FALSE]
      BY <1>1, <2>1, <2>2 DEF DocRow
    <2>3. CASE /\ c # None /\ Stored(c)
               /\ row = [doc[d] EXCEPT !.st = "DEDUPED", !.canon = c, !.hash = TRUE, !.err = FALSE]
      BY <1>1, <2>1, <2>3 DEF DocRow
    <2>4. CASE row = [doc[d] EXCEPT !.st = "FAILED", !.err = TRUE]
      BY <1>1, <2>1, <2>4 DEF DocRow
    <2> QED
      BY <1>4, <2>2, <2>3, <2>4
  <1>8. /\ doc'[d] \in DocRow /\ doc'[d].st # "RECEIVED"
        /\ doc'[d].run = doc[d].run /\ doc'[d].src = doc[d].src /\ doc'[d].day = doc[d].day
        /\ doc'[d].canon # None => doc'[d].canon = c /\ c # None /\ Stored(c)
    BY <1>5, <1>7
  <1> QED
    BY <1>1, <1>6, <1>8 DEF c

LEMMA WritesSettled ==
  ASSUME TypeOK, TypeOK', PendingInv, CanonInv, NormalizeWrites
  PROVE  PendingInv' /\ CanonInv'
  <1> DEFINE d == normalizer.doc
  <1>1. /\ d \in Docs /\ d # None /\ normalizer' = NoNorm /\ normalizer'.doc = None
        /\ normalizer'.canon = None /\ UNCHANGED <<normJobs, crawler, classifier>>
    BY DEF NormalizeWrites, TypeOK, NoNorm
  <1>2. CASE ~Stored(d)
    <2>1. UNCHANGED <<doc, classJobs>>
      BY <1>2 DEF NormalizeWrites
    <2>2. RowsLess /\ HandsLess
      BY <1>1, <2>1, SameRows DEF HandsLess
    <2> QED
      BY <2>2, LessIsSettled
  <1>3. CASE Stored(d)
    <2>1. classJobs' \subseteq classJobs \cup {d}
      BY DEF NormalizeWrites
    <2>2. /\ doc[d] \in DocRow /\ doc[d].st = "RECEIVED" /\ doc[d].canon = None
          /\ \A e \in Docs : e # d => doc'[e] = doc[e]
          /\ doc'[d] \in DocRow /\ doc'[d].st # "RECEIVED" /\ doc'[d] # None
          /\ doc'[d].canon # None =>
               /\ doc'[d].canon = normalizer.canon
               /\ normalizer.canon # None /\ Stored(normalizer.canon)
      BY <1>3, NormalizedIs, MaintenanceAssumption
    <2>3. d \notin normJobs /\ d # crawler.doc
      BY <1>1 DEF PendingInv
    <2>4. PendingInv'
      <3>1. ASSUME NEW e \in Docs, doc'[e] # None
            PROVE  /\ e \in normJobs \cup {crawler.doc, None} => doc'[e].st = "RECEIVED"
                   /\ e = crawler.doc => doc'[e].run = None
                   /\ e \in classJobs \cup {d, classifier.doc} => doc'[e].st # "RECEIVED"
                   /\ doc'[e].st = "RECEIVED" => doc'[e].canon = None /\ ~doc'[e].hash
        BY <1>1, <2>2, <2>3, <3>1, PresentIs DEF PendingInv
      <3> QED
        BY <1>1, <2>1, <2>3, <3>1, PresentIs DEF PendingInv, Present, TypeOK
    <2>5. ASSUME NEW c, Canonical(c)
          PROVE  CanonicalNext(c)
      <3>1. c # d /\ c \in Docs
        BY <2>2, <2>5, PresentIs DEF Canonical
      <3> QED
        BY <2>2, <2>5, <3>1, PresentIs DEF Canonical, CanonicalNext
    <2>6. \A e \in Docs : doc'[e] # None /\ doc'[e].canon # None => CanonicalNext(doc'[e].canon)
      BY <2>2, <2>5, PresentIs DEF CanonInv
    <2> QED
      BY <1>1, <2>4, <2>6, CanonNextIs
  <1> QED
    BY <1>2, <1>3

\* The one who has the hash is a canonical document.
LEMMA LosesSettled ==
  ASSUME TypeOK, TypeOK', PendingInv, CanonInv, NormalizeLoses
  PROVE  PendingInv' /\ CanonInv'
  <1>1. PICK c \in Holders(normalizer.doc) : normalizer' = [normalizer EXCEPT !.canon = c]
    BY DEF NormalizeLoses
  <1>2. UNCHANGED <<doc, normJobs, classJobs, crawler, classifier>>
    BY DEF NormalizeLoses, tables, redis
  <1>3. normalizer'.doc = normalizer.doc /\ normalizer'.canon = c
    BY <1>1 DEF TypeOK
  <1>4. Canonical(c)
    BY <1>1, PresentIs DEF Holders, Canonical, PendingInv
  <1>5. PendingInv'
    BY <1>2, <1>3 DEF PendingInv, Present
  <1>6. CanonInv'
    BY <1>2, <1>3, <1>4 DEF CanonInv, Canonical, Stored, Present
  <1> QED
    BY <1>5, <1>6

LEMMA NextSettled ==
  ASSUME TypeOK, TypeOK', PendingInv, CanonInv, [Next]_vars
  PROVE  PendingInv' /\ CanonInv'
  BY QuietSteps, SavesSettled, LinksSettled, FindsSettled, LosesSettled, WritesSettled,
     ScriptSettled
     DEF Next, Worker

-----------------------------------------------------------------------------
(* What the worker, the producer and the API leave of the tables.          *)

\* Rows stay, of the day and source they were; only a document that has no run, or no
\* canonical, gets one; a new row is of no script that runs.
RowsKept ==
  /\ \A d \in Docs : doc[d] # None =>
       /\ doc'[d] # None /\ doc'[d].day = doc[d].day /\ doc'[d].src = doc[d].src
       /\ doc'[d].run = doc[d].run \/ doc[d].run = None
       /\ doc'[d].canon = doc[d].canon \/ doc[d].canon = None
  /\ \A d \in Docs : doc[d] = None /\ doc'[d] # None =>
       d \notin script.docs /\ doc'[d].canon = None /\ doc'[d].src # None /\ sources # {}

RunsKept ==
  \A r \in Runs : runRow[r] # None =>
    runRow'[r] # None /\ runRow'[r].src = runRow[r].src /\ runRow'[r].day = runRow[r].day

ScriptKept ==
  /\ script'.kind = script.kind /\ script'.day = script.day /\ script'.src = script.src
  /\ script'.docs = script.docs /\ script'.end = script.end
  /\ script.late \subseteq script'.late
  /\ \A step : Executed(step)' <=> Executed(step)

\* A document that becomes a duplicate of one a script of a day has read is late.
DupesAreLate ==
  script.kind = "day" =>
    \A d \in Docs :
      doc[d] # None /\ doc'[d].canon # doc[d].canon /\ doc'[d].canon \in script.docs
      => d \in script'.late

\* The client, the sources and the user stay, and what needs a client is not made without.
BusinessKept ==
  /\ UNCHANGED <<sources, client, analyst>>
  /\ ~client => /\ report' = report /\ items' = items
                /\ UNCHANGED finding

Others ==
  \/ Worker
  \/ \E s \in Sources : EnqueueCrawl(s)
  \/ Midnight
  \/ CreateReport
  \/ UNCHANGED vars

LEMMA OthersKeepScript ==
  ASSUME TypeOK, ScriptInv, Others
  PROVE  ScriptKept
  <1>1. CASE UNCHANGED script
    BY <1>1 DEF ScriptKept, Executed
  <1>2. ASSUME NEW d \in Docs, script' = [script EXCEPT !.late = @ \cup {d}]
        PROVE  ScriptKept
    <2>1. /\ script'.kind = script.kind /\ script'.day = script.day /\ script'.src = script.src
          /\ script'.docs = script.docs /\ script'.end = script.end /\ script'.at = script.at
          /\ script'.late = script.late \cup {d}
      BY <1>2 DEF TypeOK
    <2> QED
      BY <2>1 DEF ScriptKept, Executed
  <1>3. UNCHANGED script \/ \E d \in Docs : script' = [script EXCEPT !.late = @ \cup {d}]
    <2>1. ASSUME NEW d \in Docs, CrawlSaves(d) \/ CrawlSavesMeta(d)
          PROVE  UNCHANGED script \/ script' = [script EXCEPT !.late = @ \cup {d}]
      BY <2>1, SavedIs DEF SaveRaw
    <2>2. CASE NormalizeWrites
      BY <2>2 DEF NormalizeWrites, TypeOK
    <2> QED
      BY <2>1, <2>2
         DEF Others, Worker, CrawlStarts, NormalizeFinds, ClassifyStarts, SaveFails, CrawlLinks,
             CrawlEnds, NormalizeLoses, ClassifyUpserts, ClassifyFails, FailIfClassifying,
             MarksClassified, EnqueueCrawl, Midnight, CreateReport, vars
  <1> QED
    BY <1>1, <1>2, <1>3

LEMMA OthersKeepBusiness ==
  ASSUME TypeOK, Others
  PROVE  BusinessKept
  <1>1. ASSUME NEW d \in Docs, CrawlSaves(d) \/ CrawlSavesMeta(d)
        PROVE  BusinessKept
    BY <1>1, SavedIs DEF SaveRaw, BusinessKept
  <1> QED
    BY <1>1 DEF Others, Worker, CrawlStarts, NormalizeFinds, ClassifyStarts, SaveFails, CrawlLinks,
         CrawlEnds, NormalizeLoses, NormalizeWrites, ClassifyUpserts, ClassifyFails,
         FailIfClassifying, MarksClassified, EnqueueCrawl, Midnight, CreateReport, vars, tables,
         BusinessKept

LEMMA OthersKeepRuns ==
  ASSUME TypeOK, TypeOK', Others
  PROVE  RunsKept
  <1>1. CASE UNCHANGED runRow
    BY <1>1 DEF RunsKept
  <1>2. ASSUME NEW r \in Runs, runRow[r] # None,
               NEW st \in {"RUNNING", "SUCCESS", "FAILED"}, runRow' = [runRow EXCEPT ![r].st = st]
        PROVE  RunsKept
    <2>1. runRow[r] \in RunRow
      BY <1>2 DEF TypeOK
    <2>2. [runRow[r] EXCEPT !.st = st] \in RunRow
      BY <2>1 DEF RunRow
    <2>3. runRow'[r] = [runRow[r] EXCEPT !.st = st] /\ \A q \in Runs \ {r} : runRow'[q] = runRow[q]
      BY <1>2 DEF TypeOK
    <2> QED
      BY <2>1, <2>2, <2>3, MaintenanceAssumption DEF RunsKept, RunRow
  <1>3. ASSUME NEW s \in Sources, EnqueueCrawl(s)
        PROVE  RunsKept
    <2>1. PICK r \in IF RunsOf(s, today) # {} THEN RunsOf(s, today)
                     ELSE IF \E q \in Runs : Fresh(q) THEN {CHOOSE q \in Runs : Fresh(q)} ELSE {} :
            runRow' = [runRow EXCEPT ![r] = [src |-> s, day |-> today, st |-> "QUEUED"]]
      BY <1>3 DEF EnqueueCrawl
    <2>2. r \in Runs /\ (runRow[r] # None => runRow[r].src = s /\ runRow[r].day = today)
      <3>1. CASE RunsOf(s, today) # {}
        BY <3>1 DEF RunsOf
      <3>2. CASE RunsOf(s, today) = {}
        <4>1. r \in Runs /\ Fresh(r)
          BY <3>2
        <4> QED
          BY <4>1 DEF Fresh
      <3> QED
        BY <3>1, <3>2
    <2>3. [src |-> s, day |-> today, st |-> "QUEUED"] \in RunRow
      BY DEF TypeOK, RunRow
    <2> QED
      BY <2>1, <2>2, <2>3, MaintenanceAssumption DEF RunsKept, TypeOK
  <1>4. ASSUME CrawlThrows, crawler.job \in Job
        PROVE  RunsKept
    BY <1>1, <1>2, <1>4 DEF CrawlThrows, RunExists, Job
  <1>5. CASE \E j \in crawlJobs : CrawlStarts(j)
    BY <1>1, <1>2, <1>5 DEF CrawlStarts, TypeOK, Job
  <1>6. CASE \E d \in Docs : CrawlSaves(d) \/ CrawlSavesMeta(d)
    BY <1>1, <1>6, SavedIs DEF SaveRaw
  <1>9. CASE SaveFails
    BY <1>4, <1>9 DEF SaveFails, TypeOK, NoCrawl
  <1>7. CASE CrawlLinks
    BY <1>1, <1>4, <1>7 DEF CrawlLinks, TypeOK, NoCrawl
  <1>8. CASE CrawlEnds
    <2>1. crawler.job \in Job /\ crawler.job.run \in Runs
      BY <1>8 DEF CrawlEnds, TypeOK, NoCrawl, Job
    <2> QED
      BY <1>2, <1>4, <1>8, <2>1 DEF CrawlEnds, RunExists
  <1> QED
    BY <1>1, <1>3, <1>5, <1>6, <1>7, <1>8, <1>9
       DEF Others, Worker, NormalizeFinds, NormalizeLoses, ClassifyStarts, NormalizeWrites,
           ClassifyUpserts, ClassifyFails, FailIfClassifying, MarksClassified, Midnight,
           CreateReport, vars, tables

LEMMA OthersKeepRows ==
  ASSUME TypeOK, TypeOK', ScriptInv, PendingInv, Others
  PROVE  RowsKept /\ DupesAreLate
  <1>1. CASE UNCHANGED doc
    BY <1>1 DEF RowsKept, DupesAreLate
  <1>2. ASSUME NEW d \in Docs, doc[d] # None,
               NEW row \in DocRow, doc' = [doc EXCEPT ![d] = row],
               row.day = doc[d].day, row.src = doc[d].src, row.canon = doc[d].canon,
               row.run = doc[d].run \/ doc[d].run = None
        PROVE  RowsKept /\ DupesAreLate
    <2>1. doc'[d] = row /\ row # None /\ \A e \in Docs \ {d} : doc'[e] = doc[e]
      BY <1>2, MaintenanceAssumption DEF TypeOK
    <2> QED
      BY <1>2, <2>1 DEF RowsKept, DupesAreLate
  <1>3. ASSUME NEW d \in Docs, CrawlSaves(d) \/ CrawlSavesMeta(d)
        PROVE  RowsKept /\ DupesAreLate
    <2>1. PICK st \in {"RECEIVED", "DISCARDED"} : SaveRaw(d, st)
      BY <1>3, SavedIs
    <2> DEFINE row == Row(st, SourceOf[d], today)
    <2>2. /\ doc' = [doc EXCEPT ![d] = row] /\ doc[d] = None /\ d \notin script.docs
          /\ sources # {}
      BY <2>1, PresentIs DEF SaveRaw, FreshDoc
    <2>3. row.canon = None /\ row.src # None
      BY MaintenanceAssumption DEF Row, Sources
    <2> HIDE DEF row
    <2>4. doc'[d] = row /\ \A e \in Docs \ {d} : doc'[e] = doc[e]
      BY <2>2 DEF TypeOK
    <2> QED
      BY <2>2, <2>3, <2>4 DEF RowsKept, DupesAreLate
  <1>4. CASE CrawlLinks
    <2> DEFINE d == crawler.doc
    <2>1. CASE Linkable(d)
      <3>1. d \in Docs /\ doc[d] # None /\ doc[d] \in DocRow /\ doc[d].run = None
        BY <2>1, PresentIs DEF Linkable, PendingInv
      <3>2. crawler.job.run \in Runs
        BY <1>4 DEF CrawlLinks, TypeOK, Job, NoCrawl
      <3> DEFINE row == [doc[d] EXCEPT !.run = crawler.job.run]
      <3>3. /\ row \in DocRow /\ row.day = doc[d].day /\ row.src = doc[d].src
            /\ row.canon = doc[d].canon
        BY <3>1, <3>2 DEF DocRow
      <3>4. doc' = [doc EXCEPT ![d] = row]
        BY <1>4, <2>1 DEF CrawlLinks
      <3> HIDE DEF row
      <3> QED
        BY <1>2, <3>1, <3>3, <3>4
    <2>2. CASE ~Linkable(d)
      BY <1>1, <1>4, <2>2 DEF CrawlLinks
    <2> QED
      BY <2>1, <2>2
  <1>5. CASE ClassifyFails \/ FailIfClassifying \/ MarksClassified
    <2>1. CASE ~UNCHANGED doc
      BY <1>2, <1>5, <2>1, ClassifiedIs
    <2> QED
      BY <1>1, <2>1
  <1>6. CASE NormalizeWrites
    <2> DEFINE d == normalizer.doc
    <2>1. CASE ~Stored(d)
      BY <1>1, <1>6, <2>1 DEF NormalizeWrites
    <2>2. CASE Stored(d)
      <3>1. /\ d \in Docs /\ doc[d] # None /\ doc[d].canon = None
            /\ \A e \in Docs : e # d => doc'[e] = doc[e]
            /\ doc'[d] # None /\ doc'[d].run = doc[d].run
            /\ doc'[d].src = doc[d].src /\ doc'[d].day = doc[d].day
            /\ doc'[d].canon # None => normalizer.canon # None /\ Stored(normalizer.canon)
        BY <1>6, <2>2, NormalizedIs, MaintenanceAssumption
      <3>2. ASSUME script.kind = "day", doc'[d].canon \in script.docs
            PROVE  d \in script'.late
        <4>1. script.end = "no" /\ script.docs \in SUBSET Docs
          BY <3>2 DEF ScriptInv, TypeOK
        <4>2. normalizer.canon # None /\ Stored(normalizer.canon)
          BY <3>1, <3>2, <4>1, MaintenanceAssumption
        <4>3. script' = [script EXCEPT !.late = @ \cup {d}]
          BY <1>6, <2>2, <3>2, <4>1, <4>2 DEF NormalizeWrites
        <4> QED
          BY <4>3 DEF TypeOK
      <3>3. RowsKept
        BY <3>1 DEF RowsKept
      <3>4. DupesAreLate
        BY <3>1, <3>2 DEF DupesAreLate
      <3> QED
        BY <3>3, <3>4
    <2> QED
      BY <2>1, <2>2
  <1> QED
    BY <1>1, <1>3, <1>4, <1>5, <1>6
       DEF Others, Worker, CrawlStarts, SaveFails, CrawlEnds, NormalizeFinds, NormalizeLoses,
           ClassifyStarts, ClassifyUpserts, EnqueueCrawl, Midnight, CreateReport, vars, tables

-----------------------------------------------------------------------------
(* What a script of a day or a source has read is what it may delete.      *)

LEMMA OwnIs ==
  ASSUME TypeOK, NEW d \in Docs, doc[d] # None
  PROVE  Own(d) <=> IF script.kind = "day"
                      THEN \/ doc[d].day = script.day
                           \/ \E r \in Runs : /\ runRow[r] # None /\ runRow[r].day = script.day
                                              /\ doc[d].run = r
                      ELSE SourceOf[d] = script.src
  BY PresentIs DEF Own, OfDay, RunsOfDay

\* What is read at a step is in scope.
LEMMA ReadIsInScope ==
  ASSUME TypeOK, CanonInv, NEW d \in Docs, doc[d] # None,
         d \in WithDuplicates({e \in Present : Own(e)})
  PROVE  InScope(d)
  BY PresentIs DEF WithDuplicates, InScope, CanonInv, Canonical

\* Where a statement is in its script, and what comes before it.
LEMMA Positions ==
  ASSUME TypeOK, ScriptInv, Running
  PROVE  /\ script.kind \in {"day", "sources"} /\ Steps[script.kind][script.at] = "read" =>
              ~Executed("docs") /\ ~Executed("dupes")
         /\ script.kind = "day" /\ Steps[script.kind][script.at] = "runs" => Executed("docs")
         /\ script.kind = "day" /\ Steps[script.kind][script.at] = "docs" => Executed("dupes")
         /\ script.kind = "training" /\ Steps[script.kind][script.at] \in {"sources", "users"} =>
              Executed("clients")
         /\ script.kind = "client" =>
              /\ IsLast <=> Steps[script.kind][script.at] = "enqueue"
              /\ Steps[script.kind][script.at] # "read" => Executed("read")
              /\ Steps[script.kind][script.at] = "read" => ~Executed("read")
  <1>1. /\ script.kind \in Kinds /\ script.at \in 1..Len(Steps[script.kind])
        /\ script.end = "no"
    BY RunningIs DEF Running
  <1>2. CASE script.kind = "day"
    <2>1. script.at \in 1..7
      BY <1>1, <1>2 DEF Steps
    <2> QED
      BY <1>1, <1>2, <2>1 DEF Steps, Executed
  <1>3. CASE script.kind = "sources"
    <2>1. script.at \in 1..3
      BY <1>1, <1>3 DEF Steps
    <2> QED
      BY <1>1, <1>3, <2>1 DEF Steps, Executed
  <1>4. CASE script.kind = "training"
    <2>1. script.at \in 1..10
      BY <1>1, <1>4 DEF Steps
    <2> QED
      BY <1>1, <1>4, <2>1 DEF Steps, Executed
  <1>5. CASE script.kind = "client"
    <2>1. script.at \in 1..4
      BY <1>1, <1>5 DEF Steps
    <2> QED
      BY <1>1, <1>5, <2>1 DEF Steps, Executed, IsLast
  <1> QED
    BY <1>2, <1>3, <1>4, <1>5

LEMMA OthersInScope ==
  ASSUME TypeOK, TypeOK', CanonInv, ScopeInv, RowsKept, RunsKept, ScriptKept, DupesAreLate
  PROVE  ScopeInv'
  <1>1. /\ Present = {d \in Docs : doc[d] # None} /\ Present' = {d \in Docs : doc'[d] # None}
        /\ None \notin Docs /\ script.docs \in SUBSET Docs
        /\ \A d \in Docs : doc[d] # None => doc[d] \in DocRow
    BY PresentIs, MaintenanceAssumption DEF Present, TypeOK
  <1>2. ASSUME NEW d \in Docs, doc[d] # None, Own(d)
        PROVE  Own(d)'
    <2>1. doc'[d] # None /\ doc'[d].day = doc[d].day /\ (doc'[d].run = doc[d].run \/ doc[d].run = None)
      BY <1>2 DEF RowsKept
    <2>2. IF script.kind = "day"
            THEN \/ doc[d].day = script.day
                 \/ \E r \in Runs : /\ runRow[r] # None /\ runRow[r].day = script.day
                                    /\ doc[d].run = r
            ELSE SourceOf[d] = script.src
      BY <1>2, OwnIs
    <2>3. IF script'.kind = "day"
            THEN \/ doc'[d].day = script'.day
                 \/ \E r \in Runs : /\ runRow'[r] # None /\ runRow'[r].day = script'.day
                                    /\ doc'[d].run = r
            ELSE SourceOf[d] = script'.src
      BY <2>1, <2>2, MaintenanceAssumption DEF RunsKept, ScriptKept
    <2> QED
      BY <1>1, <2>1, <2>3 DEF Own, OfDay, RunsOfDay, Stored, Present
  <1>3. ASSUME script.kind \in {"day", "sources"}, NEW d \in Docs, doc'[d] # None, d \in script.docs
        PROVE  InScope(d)'
    <2>1. doc[d] # None /\ d \in Present
      BY <1>1, <1>3 DEF RowsKept
    <2>2. InScope(d)
      BY <1>3, <2>1 DEF ScopeInv
    <2>3. CASE Own(d)
      BY <1>2, <2>1, <2>3 DEF InScope
    <2>4. CASE doc[d].canon # None /\ Own(doc[d].canon)
      <3>1. doc[d].canon \in Docs /\ doc[doc[d].canon] # None
        BY <1>1, <2>1, <2>4, PresentIs DEF CanonInv, Canonical
      <3>2. doc'[d].canon = doc[d].canon
        BY <2>1, <2>4 DEF RowsKept
      <3>3. PICK c \in Docs : c = doc[d].canon /\ c = doc'[d].canon
        BY <3>1, <3>2
      <3>4. c # None /\ doc[c] # None /\ Own(c)
        BY <2>4, <3>1, <3>3
      <3>5. Own(c)'
        BY <1>2, <3>4
      <3> QED
        BY <3>3, <3>4, <3>5 DEF InScope
    <2> QED
      BY <2>2, <2>3, <2>4 DEF InScope
  <1>4. ASSUME script.kind = "day", Executed("docs")
        PROVE  Present' \cap script.docs = {}
    BY <1>1, <1>4 DEF ScopeInv, RowsKept
  <1>5. ASSUME script.kind = "day", Executed("dupes"), NEW d \in Docs, doc'[d] # None,
               doc'[d].canon \in script.docs
        PROVE  d \in script'.late
    <2>1. doc[d] # None /\ d \in Present
      BY <1>1, <1>5 DEF RowsKept
    <2>2. CASE doc'[d].canon = doc[d].canon
      BY <1>5, <2>1, <2>2 DEF ScopeInv, ScriptKept
    <2>3. CASE doc'[d].canon # doc[d].canon
      BY <1>5, <2>1, <2>3 DEF DupesAreLate
    <2> QED
      BY <2>2, <2>3
  <1> QED
    BY <1>1, <1>3, <1>4, <1>5 DEF ScopeInv, ScriptKept

\* A statement of a script of a day or a source that keeps what it has read: it ends with
\* nothing read, or goes on.
LEMMA GoesOn ==
  ASSUME TypeOK, ScriptInv, MovesOn, script.kind \in {"day", "sources"}
  PROVE  \/ script'.docs = {}
         \/ script'.docs = script.docs /\ script'.late = script.late
  <1>1. script'.kind = script.kind /\ ScriptInv'
    BY DEF MovesOn, Moves
  <1>2. CASE script'.end = "no"
    BY <1>2 DEF MovesOn
  <1>3. CASE script'.end # "no"
    BY <1>1, <1>3 DEF ScriptInv
  <1> QED
    BY <1>2, <1>3

\* Statements that leave documents and runs alone.
LEMMA SameTablesInScope ==
  ASSUME TypeOK, ScriptInv, ScopeInv, MovesOn, UNCHANGED <<doc, runRow>>,
         Steps[script.kind][script.at] \notin {"docs", "dupes"}
  PROVE  ScopeInv'
  <1>1. /\ script'.kind = script.kind /\ script'.day = script.day /\ script'.src = script.src
        /\ Executed("docs")' => Executed("docs")
        /\ Executed("dupes")' => Executed("dupes")
    BY DEF MovesOn, Moves
  <1>2. CASE script.kind \notin {"day", "sources"}
    BY <1>1, <1>2 DEF ScopeInv
  <1>3. CASE script.kind \in {"day", "sources"}
    <2>1. CASE script'.docs = {}
      BY <2>1 DEF ScopeInv
    <2>2. CASE script'.docs = script.docs /\ script'.late = script.late
      <3>1. Present' = Present /\ \A d : InScope(d)' <=> InScope(d)
        BY <1>1 DEF Present, InScope, Own, OfDay, RunsOfDay, Stored
      <3> QED
        BY <1>1, <2>2, <3>1 DEF ScopeInv
    <2> QED
      BY <1>3, <2>1, <2>2, GoesOn
  <1> QED
    BY <1>2, <1>3

LEMMA ReadsInScope ==
  ASSUME TypeOK, ScriptInv, CanonInv, ReadScope
  PROVE  ScopeInv'
  <1>1. /\ Running /\ script \in ScriptRec /\ script.kind \in {"day", "sources"}
        /\ Steps[script.kind][script.at] = "read" /\ script.end = "no"
    BY NowIs DEF ReadScope, Kinds, Running
  <1> DEFINE own == IF script.kind = "day" THEN {d \in Docs : OfDay(d, script.day)}
                    ELSE {d \in Present : SourceOf[d] = script.src}
             docs == WithDuplicates(own)
  <1>2. /\ Moves /\ UNCHANGED <<doc, runRow>>
        /\ script'.docs = docs \/ script'.docs = {}
    <2>1. PICK jobs : Continues([script EXCEPT !.docs = docs, !.jobs = jobs])
      BY DEF ReadScope
    <2> HIDE DEF docs
    <2>2. Moves
      BY ReadMoves
    <2>3. script'.docs = docs \/ script'.docs = {}
      <3>1. CASE IsLast
        <4>1. script'.docs = {}
          BY <1>1, <2>1, <3>1 DEF Continues, AtEnd, ScriptRec
        <4> QED
          BY <4>1
      <3>2. CASE ~IsLast
        <4>1. script'.docs = docs
          BY <1>1, <2>1, <3>2 DEF Continues, ScriptRec
        <4> QED
          BY <4>1
      <3> QED
        BY <3>1, <3>2
    <2> QED
      BY <2>2, <2>3 DEF ReadScope, tables
  <1>3. own = {d \in Present : Own(d)}
    BY <1>1, PresentIs DEF Own, OfDay
  <1>4. \A d \in Present : d \in docs => InScope(d)
    BY <1>3, ReadIsInScope, PresentIs
  <1>5. ~Executed("docs")' /\ ~Executed("dupes")'
    BY <1>1, <1>2, Positions DEF Moves
  <1>6. Present' = Present /\ \A d : InScope(d)' <=> InScope(d)
    BY <1>2 DEF Present, InScope, Own, OfDay, RunsOfDay, Stored, Moves
  <1> QED
    BY <1>2, <1>4, <1>5, <1>6 DEF ScopeInv

LEMMA DupesInScope ==
  ASSUME TypeOK, TypeOK', ScriptInv, CanonInv, ScopeInv, DeleteDuplicates
  PROVE  ScopeInv'
  <1>1. /\ Moves /\ script'.kind = script.kind /\ script'.day = script.day
        /\ script'.src = script.src
        /\ Executed("docs")' => Executed("docs") \/ "docs" = Steps[script.kind][script.at]
        /\ script.kind \in {"day", "all", "training"}
        /\ Steps[script.kind][script.at] = "dupes"
        /\ script'.docs = script.docs \/ script'.docs = {}
    BY DupesMoves, NowIs DEF Moves, DeleteDuplicates, Kinds
  <1>2. CASE script.kind # "day" \/ script'.docs = {}
    BY <1>1, <1>2 DEF ScopeInv
  <1>3. CASE script.kind = "day" /\ script'.docs = script.docs
    <2> DEFINE S == {d \in Present : doc[d].canon \in script.docs}
    <2>1. /\ doc' = DocsWithout(doc, S) /\ UNCHANGED runRow
      BY <1>3 DEF DeleteDuplicates, DuplicatesToDelete, DropDocs
    <2>2. /\ \A d \in Docs : doc[d] # None => doc[d] \in DocRow
          /\ Present = {d \in Docs : doc[d] # None} /\ Present' = {d \in Docs : doc'[d] # None}
          /\ None \notin script.docs
      BY PresentIs, MaintenanceAssumption DEF Present, TypeOK
    <2>3. ASSUME NEW d \in Docs, doc[d] # None, doc[d].canon = None
          PROVE  /\ doc'[d] # None /\ doc'[d].run = doc[d].run /\ doc'[d].day = doc[d].day
                 /\ doc'[d].canon = None
      <3>1. d \notin S
        BY <2>2, <2>3
      <3> HIDE DEF S
      <3> QED
        BY <2>1, <2>3, <3>1, DocsWithoutIs
    <2>4. ASSUME NEW d \in Docs, doc'[d] # None
          PROVE  /\ doc[d] # None /\ doc'[d].run = doc[d].run /\ doc'[d].day = doc[d].day
                 /\ doc'[d].canon = doc[d].canon
                 /\ doc[d].canon \notin script.docs
      <3> HIDE DEF S
      <3>1. /\ doc[d] # None /\ d \notin S /\ doc'[d].run = doc[d].run /\ doc'[d].day = doc[d].day
            /\ \/ doc'[d].canon = None /\ (doc[d].canon = None \/ doc[d].canon \in S)
               \/ doc'[d].canon = doc[d].canon /\ doc[d].canon \notin S
        BY <2>1, <2>4, DocsWithoutIs
      <3>2. doc[d].canon \notin script.docs
        BY <2>2, <3>1 DEF S
      <3>3. doc[d].canon # None => doc[doc[d].canon].canon = None
        BY <2>2, <3>1, PresentIs DEF CanonInv, Canonical
      <3>4. doc[d].canon # None => doc[d].canon \notin S
        BY <2>2, <3>3 DEF S
      <3> QED
        BY <3>1, <3>2, <3>4
    <2>5. ASSUME NEW d \in Docs, doc[d] # None, doc'[d] # None, Own(d),
                 doc'[d].run = doc[d].run, doc'[d].day = doc[d].day
          PROVE  Own(d)'
      BY <1>1, <1>3, <2>1, <2>5 DEF Own, OfDay, RunsOfDay, Stored, Present
    <2>6. ASSUME NEW d \in Docs, doc'[d] # None, d \in script.docs
          PROVE  InScope(d)'
      <3>1. /\ doc[d] # None /\ doc'[d].canon = doc[d].canon
            /\ doc'[d].run = doc[d].run /\ doc'[d].day = doc[d].day
        BY <2>4, <2>6
      <3>2. InScope(d)
        BY <1>3, <2>2, <2>6, <3>1 DEF ScopeInv
      <3>3. CASE Own(d)
        BY <2>5, <2>6, <3>1, <3>3 DEF InScope
      <3>4. CASE doc[d].canon # None /\ Own(doc[d].canon)
        <4>1. doc[d].canon \in Docs /\ doc[doc[d].canon] # None /\ doc[doc[d].canon].canon = None
          BY <2>2, <3>1, <3>4, PresentIs DEF CanonInv, Canonical
        <4>2. PICK c \in Docs : c = doc[d].canon /\ c = doc'[d].canon
          BY <3>1, <4>1
        <4>3. c # None /\ doc[c] # None /\ doc[c].canon = None /\ Own(c)
          BY <3>4, <4>1, <4>2
        <4>4. Own(c)'
          BY <2>3, <2>5, <4>3
        <4> QED
          BY <4>2, <4>3, <4>4 DEF InScope
      <3> QED
        BY <3>2, <3>3, <3>4 DEF InScope
    <2>7. Executed("docs")' => Present' \cap script'.docs = {}
      BY <1>1, <1>3, <2>2, <2>4 DEF ScopeInv
    <2>8. \A d \in Present' : doc'[d].canon \notin script'.docs
      BY <1>3, <2>2, <2>4
    <2> QED
      BY <1>1, <1>3, <2>2, <2>6, <2>7, <2>8 DEF ScopeInv
  <1> QED
    BY <1>1, <1>2, <1>3

LEMMA DocsInScope ==
  ASSUME TypeOK, TypeOK', ScriptInv, ScopeInv, DeleteDocuments
  PROVE  ScopeInv'
  <1>1. /\ MovesOn /\ script'.kind = script.kind
        /\ script'.docs = script.docs \/ script'.docs = {}
    BY PlainMoves DEF MovesOn, Moves
  <1>2. CASE script.kind # "day" \/ script'.docs = {}
    <2>1. script.kind \in {"day", "all", "training"}
      BY NowIs DEF DeleteDocuments, Kinds
    <2> QED
      BY <1>1, <1>2, <2>1 DEF ScopeInv
  <1>3. CASE script.kind = "day" /\ script'.docs = script.docs
    <2>1. doc' = DocsWithout(doc, script.docs) /\ script.docs \in SUBSET Docs
      BY <1>3 DEF DeleteDocuments, DropDocs, TypeOK
    <2>2. ASSUME NEW d \in Docs, doc'[d] # None
          PROVE  d \notin script.docs /\ doc'[d].canon \notin script.docs
      <3>1. /\ d \notin script.docs
            /\ \/ doc'[d].canon = None
               \/ doc'[d].canon = doc[d].canon /\ doc[d].canon \notin script.docs
        BY <2>1, <2>2, DocsWithoutIs
      <3> QED
        BY <2>1, <3>1, MaintenanceAssumption
    <2>3. Present' = {d \in Docs : doc'[d] # None}
      BY DEF Present
    <2> QED
      BY <1>1, <1>3, <2>2, <2>3 DEF ScopeInv
  <1> QED
    BY <1>1, <1>2, <1>3

LEMMA RunsInScope ==
  ASSUME TypeOK, TypeOK', ScriptInv, ScopeInv, DeleteRuns
  PROVE  ScopeInv'
  <1>1. /\ MovesOn /\ script'.kind = script.kind /\ Running
        /\ script.kind \in {"day", "all", "training"}
        /\ Steps[script.kind][script.at] = "runs"
        /\ Executed("dupes")' => Executed("dupes") \/ "dupes" = Steps[script.kind][script.at]
    BY PlainMoves, NowIs DEF DeleteRuns, MovesOn, Moves, Kinds
  <1>2. CASE script.kind # "day" \/ script'.docs = {}
    BY <1>1, <1>2 DEF ScopeInv
  <1>3. CASE script.kind = "day" /\ script'.docs # {}
    <2>1. script'.docs = script.docs /\ script'.late = script.late
      BY <1>1, <1>3, GoesOn
    <2>2. PICK R : doc' = Unlinked(doc, R)
      BY DEF DeleteRuns, DropRuns
    <2>3. \A d \in Docs : /\ doc'[d] # None <=> doc[d] # None
                          /\ doc[d] # None => doc'[d].canon = doc[d].canon
      BY <2>2, UnlinkedIs DEF TypeOK
    <2>4. /\ Present = {d \in Docs : doc[d] # None} /\ Present' = {d \in Docs : doc'[d] # None}
      BY DEF Present
    <2>5. Executed("docs")
      BY <1>1, <1>3, Positions
    <2>6. Present' \cap script'.docs = {}
      BY <1>3, <2>1, <2>3, <2>4, <2>5 DEF ScopeInv
    <2>7. Executed("dupes")' => \A d \in Present' : doc'[d].canon \in script'.docs => d \in script'.late
      BY <1>1, <1>3, <2>1, <2>3, <2>4 DEF ScopeInv
    <2> QED
      BY <2>6, <2>7 DEF ScopeInv
  <1> QED
    BY <1>2, <1>3

LEMMA SourceRowsInScope ==
  ASSUME TypeOK, TypeOK', ScriptInv, DeleteSourceRows
  PROVE  ScopeInv'
  <1>1. /\ script'.kind = "sources" /\ (script'.docs = script.docs \/ script'.docs = {})
    <2>1. script.kind = "sources"
      BY DEF DeleteSourceRows, Now
    <2> QED
      BY <2>1, PlainMoves DEF MovesOn, Moves
  <1>2. PICK R : doc' = Unlinked(DocsWithout(doc, WithDuplicates(script.docs)), R)
    BY DEF DeleteSourceRows
  <1>3. \A d \in Docs : doc'[d] # None => d \notin script.docs
    <2> DEFINE mid == DocsWithout(doc, WithDuplicates(script.docs))
    <2>1. mid \in [Docs -> DocRow \cup {None}]
      BY TablesLess DEF TypeOK
    <2>2. \A d \in Docs : mid[d] # None => d \notin WithDuplicates(script.docs)
      BY DocsWithoutIs
    <2> HIDE DEF mid
    <2>3. doc' = Unlinked(mid, R)
      BY <1>2 DEF mid
    <2> QED
      BY <2>1, <2>2, <2>3, UnlinkedIs DEF WithDuplicates
  <1>4. Present' \cap script'.docs = {}
    BY <1>1, <1>3 DEF Present
  <1> QED
    BY <1>1, <1>4 DEF ScopeInv

LEMMA NextInScope ==
  ASSUME TypeOK, TypeOK', ScriptInv, ScriptInv', PendingInv, CanonInv, ScopeInv, [Next]_vars
  PROVE  ScopeInv'
  <1>1. CASE Others
    BY <1>1, OthersInScope, OthersKeepRows, OthersKeepRuns, OthersKeepScript
  <1>2. CASE \E kind \in Kinds : Begin(kind)
    BY <1>2, BeginTypes DEF ScopeInv
  <1>3. CASE Stops
    <2>1. script'.docs = {}
      BY <1>3 DEF Stops, Aborts, TypeOK
    <2> QED
      BY <2>1 DEF ScopeInv
  <1>4. CASE Script
    <2>1. CASE ReadScope
      BY <2>1, ReadsInScope
    <2>2. CASE DeleteDuplicates
      BY <2>2, DupesInScope
    <2>3. CASE DeleteDocuments
      BY <2>3, DocsInScope
    <2>4. CASE DeleteRuns
      BY <2>4, RunsInScope
    <2>5. CASE DeleteSourceRows
      BY <2>5, SourceRowsInScope
    <2>6. CASE DeleteFindings \/ RemoveJobs \/ ObliterateQueues
      <3>1. /\ UNCHANGED <<doc, runRow>>
            /\ Steps[script.kind][script.at] \in {"findings", "jobs", "queues"}
        BY <2>6 DEF DeleteFindings, RemoveJobs, ObliterateQueues, Now, tables
      <3> QED
        BY <2>6, <3>1, PlainMoves, SameTablesInScope
    <2>7. CASE \/ ReadClient \/ DeleteItems \/ DeleteReports \/ DeleteClients \/ DeleteSources
               \/ DeleteUsers \/ MakeReady \/ EnqueueClassify
      <3>1. script.kind \in {"all", "training", "client"}
        BY <2>7 DEF ReadClient, DeleteItems, DeleteReports, DeleteClients, DeleteSources,
                    DeleteUsers, MakeReady, EnqueueClassify, Now
      <3>2. script'.kind = script.kind
        BY <2>7, ReadMoves, PlainMoves, UsersMoves, EnqueueMoves DEF MovesOn, Moves
      <3> QED
        BY <3>1, <3>2 DEF ScopeInv
    <2> QED
      BY <1>4, <2>1, <2>2, <2>3, <2>4, <2>5, <2>6, <2>7 DEF Script
  <1> QED
    BY <1>1, <1>2, <1>3, <1>4 DEF Next, Others

LEMMA DeletesInScope ==
  ASSUME TypeOK, TypeOK', ScriptInv, PendingInv, CanonInv, ScopeInv, [Next]_vars,
         script.kind \in {"day", "sources"}, NEW d \in Present, doc'[d] = None
  PROVE  InScope(d)
  <1>1. /\ d \in Docs /\ doc[d] # None /\ None \notin Docs /\ script.docs \in SUBSET Docs
        /\ \A e \in Docs : doc[e] # None => doc[e] \in DocRow
        /\ \A e \in Docs : e \in Present <=> doc[e] # None
    BY PresentIs DEF TypeOK
  <1>2. ~Others /\ ~UNCHANGED doc
    BY <1>1, OthersKeepRows DEF RowsKept
  <1>3. CASE DeleteDuplicates
    <2>1. script.kind = "day"
      BY <1>3 DEF DeleteDuplicates, Now
    <2>2. doc' = DocsWithout(doc, {e \in Present : doc[e].canon \in script.docs})
      BY <1>3, <2>1 DEF DeleteDuplicates, DuplicatesToDelete, DropDocs
    <2>3. doc[d].canon \in script.docs
      BY <1>1, <2>2, DocsWithoutIs
    <2>4. PICK c \in Docs : c = doc[d].canon
      BY <1>1, <2>3
    <2>5. c \in Present /\ doc[c].canon = None /\ c \in script.docs
      BY <1>1, <2>3, <2>4 DEF CanonInv, Canonical, Stored
    <2>6. Own(c)
      BY <2>5 DEF ScopeInv, InScope
    <2> QED
      BY <1>1, <2>3, <2>4, <2>6 DEF InScope
  <1>4. CASE DeleteDocuments
    <2>1. script.kind = "day"
      BY <1>4 DEF DeleteDocuments, Now
    <2>2. doc' = DocsWithout(doc, script.docs)
      BY <1>4, <2>1 DEF DeleteDocuments, DropDocs
    <2> QED
      BY <1>1, <2>2, DocsWithoutIs DEF ScopeInv
  <1>5. CASE DeleteRuns
    <2>1. PICK R : doc' = Unlinked(doc, R)
      BY <1>5 DEF DeleteRuns, DropRuns
    <2>2. doc'[d] # None
      BY <1>1, <2>1, UnlinkedIs DEF TypeOK
    <2> QED
      BY <2>2
  <1>6. CASE DeleteSourceRows
    <2>1. PICK R : doc' = Unlinked(DocsWithout(doc, WithDuplicates(script.docs)), R)
      BY <1>6 DEF DeleteSourceRows
    <2> DEFINE mid == DocsWithout(doc, WithDuplicates(script.docs))
    <2>2. mid \in [Docs -> DocRow \cup {None}]
      BY TablesLess DEF TypeOK
    <2>3. mid[d] = None => d \in WithDuplicates(script.docs)
      BY <1>1, DocsWithoutIs
    <2> HIDE DEF mid
    <2>4. doc' = Unlinked(mid, R)
      BY <2>1 DEF mid
    <2>5. mid[d] = None
      BY <1>1, <2>2, <2>4, UnlinkedIs
    <2>6. CASE d \in script.docs
      BY <2>6 DEF ScopeInv
    <2>7. CASE doc[d].canon \in script.docs
      <3>1. PICK c \in Docs : c = doc[d].canon
        BY <1>1, <2>7
      <3>2. c \in Present /\ doc[c].canon = None /\ c \in script.docs
        BY <1>1, <2>7, <3>1 DEF CanonInv, Canonical, Stored
      <3>3. Own(c)
        BY <3>2 DEF ScopeInv, InScope
      <3> QED
        BY <1>1, <2>7, <3>1, <3>3 DEF InScope
    <2> QED
      BY <2>3, <2>5, <2>6, <2>7 DEF WithDuplicates
  <1>7. ~DeleteSources /\ ~MakeReady
    BY DEF DeleteSources, MakeReady, Now
  <1> QED
    BY <1>2, <1>3, <1>4, <1>5, <1>6, <1>7
       DEF Next, Others, Begin, Stops, Script, ReadScope, ReadClient, DeleteFindings, DeleteItems,
           DeleteReports, DeleteClients, DeleteUsers, RemoveJobs, ObliterateQueues,
           EnqueueClassify, tables

LEMMA OrphansAreLate ==
  ASSUME TypeOK, TypeOK', ScriptInv, PendingInv, CanonInv, ScopeInv, [Next]_vars,
         NEW d \in Present, doc[d].canon # None, doc'[d] # None, doc'[d].canon = None
  PROVE  d \in script.late
  <1>1. /\ d \in Docs /\ doc[d] # None /\ None \notin Docs /\ script.docs \in SUBSET Docs
        /\ doc[d] \in DocRow
    BY PresentIs DEF TypeOK
  <1>2. PICK c \in Docs : c = doc[d].canon
    BY <1>1 DEF DocRow
  <1>3. c \in Present /\ doc[c].canon = None
    BY <1>2 DEF CanonInv, Canonical, Stored
  <1>4. ~Others /\ ~UNCHANGED doc
    BY <1>1, OthersKeepRows DEF RowsKept
  <1>5. ASSUME NEW S, doc' = DocsWithout(doc, S)
        PROVE  d \notin S /\ c \in S
    BY <1>1, <1>2, <1>5, DocsWithoutIs
  <1>6. CASE DeleteDuplicates
    <2>1. c \notin DuplicatesToDelete
      BY <1>1, <1>3 DEF DuplicatesToDelete
    <2> QED
      BY <1>5, <1>6, <2>1 DEF DeleteDuplicates, DropDocs
  <1>7. CASE DeleteDocuments
    <2>1. CASE script.kind = "day"
      <3>1. c \in script.docs
        BY <1>5, <1>7, <2>1 DEF DeleteDocuments, DropDocs
      <3>2. Running /\ Steps[script.kind][script.at] = "docs"
        BY <1>7 DEF DeleteDocuments, Now
      <3>3. Executed("dupes")
        BY <2>1, <3>2, Positions
      <3> QED
        BY <1>2, <2>1, <3>1, <3>3 DEF ScopeInv
    <2>2. CASE script.kind # "day"
      BY <1>1, <1>5, <1>7, <2>2 DEF DeleteDocuments, DropDocs
    <2> QED
      BY <2>1, <2>2
  <1>8. CASE DeleteRuns
    <2>1. PICK R : doc' = Unlinked(doc, R)
      BY <1>8 DEF DeleteRuns, DropRuns
    <2>2. doc'[d].canon = doc[d].canon
      BY <1>1, <2>1, UnlinkedIs DEF TypeOK
    <2> QED
      BY <2>2
  <1>9. CASE DeleteSourceRows
    <2> DEFINE S == WithDuplicates(script.docs)
               mid == DocsWithout(doc, S)
    <2>1. PICK R : doc' = Unlinked(mid, R)
      BY <1>9 DEF DeleteSourceRows
    <2>2. mid \in [Docs -> DocRow \cup {None}]
      BY TablesLess DEF TypeOK
    <2>3. mid[d] # None /\ mid[d].canon = None
      <3> HIDE DEF mid
      <3> QED
        BY <1>1, <2>1, <2>2, UnlinkedIs
    <2>4. d \notin S /\ c \in S
      <3> HIDE DEF S
      <3> QED
        BY <1>1, <1>2, <2>3, DocsWithoutIs DEF mid
    <2>5. c \in script.docs
      BY <1>1, <1>3, <2>4 DEF WithDuplicates
    <2> QED
      BY <1>2, <2>4, <2>5 DEF WithDuplicates
  <1>10. CASE DeleteSources
    <2>1. doc'[d] = [doc[d] EXCEPT !.src = None]
      BY <1>1, <1>10, PresentIs DEF DeleteSources
    <2>2. doc'[d].canon = doc[d].canon
      BY <1>1, <2>1 DEF DocRow
    <2> QED
      BY <2>2
  <1>11. CASE MakeReady
    <2>1. doc'[d] = doc[d]
      BY <1>1, <1>11 DEF MakeReady
    <2> QED
      BY <2>1
  <1> QED
    BY <1>4, <1>6, <1>7, <1>8, <1>9, <1>10, <1>11
       DEF Next, Others, Begin, Stops, Script, ReadScope, ReadClient, DeleteFindings, DeleteItems,
           DeleteReports, DeleteClients, DeleteUsers, RemoveJobs, ObliterateQueues,
           EnqueueClassify, tables

-----------------------------------------------------------------------------
(* What the wipe has deleted does not come back.                           *)

LEMMA OthersWiped ==
  ASSUME TypeOK, TypeOK', WipeInv, RowsKept, ScriptKept, BusinessKept
  PROVE  WipeInv'
  <1> SUFFICES ASSUME script.kind = "training"
               PROVE  WipeInv'
    BY DEF WipeInv, ScriptKept
  <1>1. Executed("clients") => /\ ~client' /\ ~report' /\ items' = {}
                               /\ \A d \in Docs : finding'[d] = None
    BY DEF WipeInv, BusinessKept
  <1>2. Executed("sources") => sources' = {} /\ \A d \in Present' : doc'[d].src = None
    <2> SUFFICES ASSUME Executed("sources"), NEW d \in Docs, doc'[d] # None
                 PROVE  sources' = {} /\ doc'[d].src = None
      BY DEF Present, WipeInv, BusinessKept
    <2>1. sources = {} /\ \A e \in Docs : doc[e] # None => doc[e].src = None
      BY PresentIs DEF WipeInv
    <2>2. doc[d] # None
      BY <2>1 DEF RowsKept
    <2> QED
      BY <2>1, <2>2 DEF RowsKept, BusinessKept
  <1>3. Executed("users") => ~analyst'
    BY DEF WipeInv, BusinessKept
  <1> QED
    BY <1>1, <1>2, <1>3 DEF WipeInv, ScriptKept

\* What a statement of the wipe leaves of what was wiped.
WipeLess ==
  /\ (client' => client) /\ (analyst' => analyst) /\ (report' => report)
  /\ sources' \subseteq sources /\ items' \subseteq items
  /\ \A d \in Docs : finding[d] = None => finding'[d] = None
  /\ \A d \in Docs : doc'[d] # None => doc[d] # None /\ (doc[d].src = None => doc'[d].src = None)

LEMMA ScriptWipes ==
  ASSUME TypeOK, TypeOK', script.kind = "training", Script
  PROVE  WipeLess
  <1>1. UNCHANGED doc =>
          \A d \in Docs : doc'[d] # None => doc[d] # None /\ (doc[d].src = None => doc'[d].src = None)
    OBVIOUS
  <1>2. CASE DeleteDuplicates \/ DeleteDocuments
    <2>1. PICK S : doc' = DocsWithout(doc, S) /\ DropFindings(S)
      BY <1>2 DEF DeleteDuplicates, DeleteDocuments, DropDocs
    <2>2. \A d \in Docs : doc'[d] # None => doc[d] # None /\ (doc[d].src = None => doc'[d].src = None)
      BY <2>1, DocsWithoutIs
    <2>3. items' \subseteq items /\ \A d \in Docs : finding[d] = None => finding'[d] = None
      BY <2>1 DEF DropFindings
    <2> QED
      BY <1>2, <2>2, <2>3 DEF DeleteDuplicates, DeleteDocuments, WipeLess
  <1>3. CASE DeleteRuns
    <2>1. PICK R : doc' = Unlinked(doc, R)
      BY <1>3 DEF DeleteRuns, DropRuns
    <2>2. \A d \in Docs : doc'[d] # None => doc[d] # None /\ (doc[d].src = None => doc'[d].src = None)
      BY <2>1, UnlinkedIs DEF TypeOK
    <2> QED
      BY <1>3, <2>2 DEF DeleteRuns, WipeLess
  <1>4. CASE DeleteSources
    <2>1. \A d \in Docs : doc'[d] # None =>
            doc[d] # None /\ doc[d] \in DocRow /\ doc'[d] = [doc[d] EXCEPT !.src = None]
      BY <1>4, PresentIs DEF DeleteSources
    <2>2. \A d \in Docs : doc'[d] # None => doc[d] # None /\ doc'[d].src = None
      BY <2>1 DEF DocRow
    <2> QED
      BY <1>4, <2>2 DEF DeleteSources, WipeLess
  <1>5. CASE DeleteFindings \/ DeleteClients
    BY <1>1, <1>5 DEF DeleteFindings, DeleteClients, DropFindings, WipeLess, TypeOK
  <1>6. CASE DeleteItems \/ DeleteReports
    BY <1>1, <1>6 DEF DeleteItems, DeleteReports, WipeLess
  <1>7. CASE DeleteUsers \/ ObliterateQueues
    BY <1>1, <1>7 DEF DeleteUsers, ObliterateQueues, WipeLess, tables
  <1>8. ~(ReadScope \/ ReadClient \/ DeleteSourceRows \/ MakeReady \/ EnqueueClassify \/ RemoveJobs)
    BY DEF ReadScope, ReadClient, DeleteSourceRows, MakeReady, EnqueueClassify, RemoveJobs, Now
  <1> QED
    BY <1>2, <1>3, <1>4, <1>5, <1>6, <1>7, <1>8 DEF Script

LEMMA FreeUsers ==
  ASSUME TypeOK, ScriptInv, WipeInv
  PROVE  UsersCanBeDeleted
  BY Positions DEF UsersCanBeDeleted, UsersAreFree, Now, WipeInv

LEMMA ScriptWiped ==
  ASSUME TypeOK, TypeOK', ScriptInv, WipeInv, script.kind = "training", Script
  PROVE  WipeInv'
  <1> DEFINE now == Steps[script.kind][script.at]
  <1>1. ~(ReadScope \/ ReadClient \/ DeleteSourceRows \/ MakeReady \/ EnqueueClassify \/ RemoveJobs)
    BY DEF ReadScope, ReadClient, DeleteSourceRows, MakeReady, EnqueueClassify, RemoveJobs, Now
  <1>2. Moves
    BY <1>1, PlainMoves, DupesMoves, UsersMoves DEF Script, MovesOn
  <1>3. \A step : Executed(step)' => Executed(step) \/ step = now
    BY <1>2 DEF Moves
  <1>4. /\ now = "clients" => DeleteClients
        /\ now = "sources" => DeleteSources
        /\ now = "users" => DeleteUsers
    BY <1>1 DEF Script, DeleteFindings, DeleteDuplicates, DeleteDocuments, DeleteRuns, DeleteItems,
                DeleteReports, DeleteClients, DeleteSources, DeleteUsers, ObliterateQueues, Now
  <1> HIDE DEF now
  <1>5. WipeLess
    BY ScriptWipes
  <1>6. ASSUME Executed("clients")'
        PROVE  ~client' /\ ~report' /\ items' = {} /\ \A d \in Docs : finding'[d] = None
    <2>1. CASE Executed("clients")
      BY <1>5, <2>1 DEF WipeInv, WipeLess
    <2>2. CASE now = "clients"
      BY <1>4, <2>2 DEF DeleteClients, DropFindings, WithClient, TypeOK
    <2> QED
      BY <1>3, <1>6, <2>1, <2>2
  <1>7. ASSUME Executed("sources")'
        PROVE  sources' = {} /\ \A d \in Present' : doc'[d].src = None
    <2>1. CASE Executed("sources")
      BY <1>5, <2>1, PresentIs DEF WipeInv, WipeLess, Present
    <2>2. CASE now = "sources"
      <3>1. DeleteSources
        BY <1>4, <2>2
      <3>2. \A d \in Docs : doc'[d] # None =>
              doc[d] \in DocRow /\ doc'[d] = [doc[d] EXCEPT !.src = None]
        BY <3>1, PresentIs DEF DeleteSources
      <3> QED
        BY <3>1, <3>2 DEF DeleteSources, Present, DocRow
    <2> QED
      BY <1>3, <1>7, <2>1, <2>2
  <1>8. ASSUME Executed("users")'
        PROVE  ~analyst'
    <2>1. CASE Executed("users")
      BY <1>5, <2>1 DEF WipeInv, WipeLess
    <2>2. CASE now = "users"
      BY <1>4, <2>2, FreeUsers DEF DeleteUsers, UsersCanBeDeleted
    <2> QED
      BY <1>3, <1>8, <2>1, <2>2
  <1> QED
    BY <1>6, <1>7, <1>8 DEF WipeInv

LEMMA NextWiped ==
  ASSUME TypeOK, TypeOK', ScriptInv, PendingInv, WipeInv, [Next]_vars
  PROVE  WipeInv'
  <1>1. CASE Others
    BY <1>1, OthersWiped, OthersKeepRows, OthersKeepScript, OthersKeepBusiness
  <1>2. CASE \E kind \in Kinds : Begin(kind)
    BY <1>2, BeginTypes DEF WipeInv
  <1>3. CASE Stops
    <2>1. UNCHANGED <<tables, script.kind, script.at>> /\ script'.end = "stopped"
      BY <1>3 DEF Stops, Aborts, TypeOK
    <2>2. \A step : Executed(step)' => Executed(step)
      BY <2>1 DEF Executed
    <2> QED
      BY <2>1, <2>2 DEF WipeInv, Present, tables
  <1>4. CASE Script /\ script.kind = "training"
    BY <1>4, ScriptWiped
  <1>5. CASE Script /\ script.kind # "training"
    <2>1. script'.kind = script.kind
      BY <1>5, ReadMoves, DupesMoves, PlainMoves, UsersMoves, EnqueueMoves
         DEF Script, MovesOn, Moves
    <2> QED
      BY <1>5, <2>1 DEF WipeInv
  <1> QED
    BY <1>1, <1>2, <1>3, <1>4, <1>5 DEF Next, Others

LEMMA WipedIsEmpty ==
  ASSUME TypeOK, ScriptInv, WipeInv
  PROVE  WipedMeansEmpty
  <1> SUFFICES ASSUME script.kind = "training", script.end = "done"
               PROVE  Executed("clients") /\ Executed("sources") /\ Executed("users")
    BY DEF WipedMeansEmpty, WipeInv
  <1>1. script.at = 10
    BY DEF ScriptInv, Kinds, Steps
  <1> QED
    BY <1>1 DEF Executed, Steps

-----------------------------------------------------------------------------
(* The one page a reset day may get again.                                 *)

\* A step of the others that marks nothing late.
LEMMA StrayStays ==
  ASSUME StrayInv, ScriptKept, script'.late = script.late, None \notin script.late,
         \/ crawler'.doc = crawler.doc /\ (crawler # NoCrawl <=> crawler' # NoCrawl)
            /\ (RunExists' <=> RunExists)
         \/ crawler' = NoCrawl
         \/ crawler'.doc = None /\ RunExists'
  PROVE  StrayInv'
  BY DEF StrayInv, ScriptKept

LEMMA OthersStray ==
  ASSUME TypeOK, TypeOK', ScriptInv, StrayInv, Others
  PROVE  StrayInv'
  <1>1. ScriptKept /\ RunsKept
    BY OthersKeepScript, OthersKeepRuns
  <1> SUFFICES ASSUME script.kind = "day", script.end = "done"
               PROVE  StrayInv'
    BY <1>1 DEF StrayInv, ScriptKept
  <1>2. /\ \A d, e \in script.late \cap Pages : d = e
        /\ script.late \cap Pages # {} /\ crawler # NoCrawl =>
             (RunExists <=> crawler.doc \notin script.late)
    BY DEF StrayInv
  <1>3. script.late \in SUBSET Docs /\ None \notin script.late
    BY MaintenanceAssumption DEF TypeOK
  <1>4. ASSUME UNCHANGED <<script, crawler, runRow>>
        PROVE  StrayInv'
    BY <1>1, <1>3, <1>4, StrayStays DEF RunExists
  <1>5. ASSUME UNCHANGED script, crawler' = NoCrawl \/ (crawler'.doc = None /\ RunExists')
        PROVE  StrayInv'
    BY <1>1, <1>3, <1>5, StrayStays
  <1>6. ASSUME NEW j \in crawlJobs, CrawlStarts(j)
        PROVE  StrayInv'
    <2>1. CASE UNCHANGED <<runRow, crawler>>
      BY <1>4, <1>6, <2>1 DEF CrawlStarts
    <2>2. CASE ~UNCHANGED <<runRow, crawler>>
      <3>1. /\ runRow[j.run] # None /\ crawler' = [job |-> j, doc |-> None, meta |-> FALSE, held |-> TRUE]
            /\ UNCHANGED script
        BY <1>6, <2>2 DEF CrawlStarts
      <3>2. j.run \in Runs
        BY DEF TypeOK, Job
      <3>3. crawler'.doc = None /\ RunExists'
        BY <1>1, <3>1, <3>2 DEF RunsKept, RunExists
      <3> QED
        BY <1>5, <3>1, <3>3
    <2> QED
      BY <2>1, <2>2
  <1>7. ASSUME NEW d \in Docs, CrawlSaves(d) \/ CrawlSavesMeta(d)
        PROVE  StrayInv'
    <2>1. PICK st \in {"RECEIVED", "DISCARDED"} :
            /\ SaveRaw(d, st)
            /\ crawler'.job = crawler.job /\ crawler' # NoCrawl
            /\ crawler'.doc = IF d \in Pages THEN d ELSE None
      BY <1>7, SavedIs
    <2>2. /\ crawler # NoCrawl /\ crawler.doc = None /\ d \notin script.late
          /\ RunExists' <=> RunExists
      BY <2>1, MaintenanceAssumption DEF SaveRaw, FreshDoc, RunExists, NoCrawl
    <2>3. CASE RunExists
      <3>1. UNCHANGED script
        BY <2>1, <2>3 DEF SaveRaw
      <3> QED
        BY <1>2, <1>3, <2>1, <2>2, <2>3, <3>1 DEF StrayInv
    <2>4. CASE ~RunExists
      <3>1. script' = [script EXCEPT !.late = script.late \cup {d}]
        BY <2>1, <2>4 DEF SaveRaw, TypeOK
      <3>2. script.late \cap Pages = {}
        BY <1>2, <1>3, <2>2, <2>4
      <3>3. script'.late = script.late \cup {d}
        BY <3>1 DEF TypeOK
      <3> QED
        BY <2>1, <2>2, <2>4, <3>2, <3>3 DEF StrayInv
    <2> QED
      BY <2>3, <2>4
  <1>8. CASE CrawlLinks
    <2> DEFINE d == crawler.doc
    <2>1. CASE ~Linkable(d)
      BY <1>5, <1>8, <2>1 DEF CrawlLinks, CrawlThrows
    <2>2. CASE Linkable(d)
      <3>1. /\ d # None /\ RunExists /\ crawler' = [crawler EXCEPT !.doc = None]
            /\ UNCHANGED <<script, runRow>>
        BY <1>8, <2>2 DEF CrawlLinks, Linkable
      <3>2. crawler'.doc = None /\ RunExists'
        BY <3>1 DEF TypeOK, RunExists, NoCrawl
      <3> QED
        BY <1>5, <3>1, <3>2
    <2> QED
      BY <2>1, <2>2
  <1>9. CASE SaveFails \/ CrawlEnds
    BY <1>5, <1>9 DEF SaveFails, CrawlEnds, CrawlThrows
  <1>10. CASE NormalizeWrites
    BY <1>4, <1>10 DEF NormalizeWrites
  <1>11. CASE (\E d \in Docs : NormalizeFinds(d)) \/ NormalizeLoses
    BY <1>4, <1>11 DEF NormalizeFinds, NormalizeLoses, tables
  <1>12. CASE \/ \E d \in Docs : ClassifyStarts(d)
              \/ ClassifyUpserts \/ ClassifyFails \/ FailIfClassifying \/ MarksClassified
    BY <1>4, <1>12 DEF ClassifyStarts, ClassifyUpserts, ClassifyFails, FailIfClassifying,
                       MarksClassified, tables
  <1>13. ASSUME NEW s \in Sources, EnqueueCrawl(s)
         PROVE  StrayInv'
    <2>1. UNCHANGED <<script, crawler>>
      BY <1>13 DEF EnqueueCrawl, worker
    <2>2. PICK r \in IF RunsOf(s, today) # {} THEN RunsOf(s, today)
                     ELSE IF \E q \in Runs : Fresh(q) THEN {CHOOSE q \in Runs : Fresh(q)} ELSE {} :
            runRow' = [runRow EXCEPT ![r] = [src |-> s, day |-> today, st |-> "QUEUED"]]
      BY <1>13 DEF EnqueueCrawl
    <2>3. r \in Runs /\ (runRow[r] # None \/ Fresh(r))
      BY <2>2 DEF RunsOf
    <2>4. crawler # NoCrawl => (RunExists' <=> RunExists)
      <3> SUFFICES ASSUME crawler # NoCrawl, RunExists', ~RunExists
                   PROVE  FALSE
        <4>1. crawler # NoCrawl => crawler.job.run \in Runs
          BY DEF TypeOK, Job
        <4> QED
          BY <1>1, <2>1, <4>1 DEF RunsKept, RunExists
      <3>1. crawler.job.run \in Runs /\ crawler.job \in Job
        BY DEF TypeOK, Job
      <3>2. crawler.job.run = r
        BY <2>1, <2>2, <2>3, <3>1 DEF RunExists, TypeOK
      <3>3. Fresh(r)
        BY <2>3, <3>2 DEF RunExists
      <3>4. crawler.job = None
        BY <3>2, <3>3 DEF Fresh
      <3> QED
        BY <3>1, <3>4, MaintenanceAssumption
    <2> QED
      BY <1>1, <1>3, <2>1, <2>4, StrayStays
  <1>14. CASE Midnight \/ CreateReport \/ UNCHANGED vars
    BY <1>4, <1>14 DEF Midnight, CreateReport, vars, tables, redis, worker
  <1> QED
    BY <1>6, <1>7, <1>8, <1>9, <1>10, <1>11, <1>12, <1>13, <1>14 DEF Others, Worker

LEMMA NextStray ==
  ASSUME TypeOK, TypeOK', ScriptInv, StrayInv, [Next]_vars
  PROVE  StrayInv'
  <1>1. CASE Others
    BY <1>1, OthersStray
  <1>2. CASE (\E kind \in Kinds : Begin(kind)) \/ Stops
    <2>1. script'.end # "done"
      BY <1>2, BeginTypes DEF Stops, Aborts, TypeOK
    <2> QED
      BY <2>1 DEF StrayInv
  <1>3. CASE Script
    <2>1. CASE EnqueueClassify
      <3>1. script'.kind = "client"
        BY <2>1, EnqueueMoves
      <3> QED
        BY <3>1 DEF StrayInv
    <2>2. CASE ~EnqueueClassify
      <3>1. script'.kind = script.kind
            /\ (script'.end = "done" /\ script.kind # "client" => script'.late = {})
        BY <1>3, <2>2, ReadMoves, DupesMoves, PlainMoves, UsersMoves DEF Script, MovesOn, Moves
      <3> QED
        BY <3>1 DEF StrayInv
    <2> QED
      BY <2>1, <2>2
  <1> QED
    BY <1>1, <1>2, <1>3 DEF Next, Others

-----------------------------------------------------------------------------
(* What reclassify-client has asked for is classified, or says why not.    *)

\* A document that the others leave as it is.
LEMMA AskedStays ==
  ASSUME NEW d \in Docs, Canonical(d), doc'[d] = doc[d], finding'[d] = finding[d],
         classJobs \subseteq classJobs', UNCHANGED classifier
  PROVE  Canonical(d)' /\ (Rebuilding(d) => Rebuilding(d)')
  BY DEF Canonical, Rebuilding, Reclassifiable, Stored, Present

\* The classifier at work on a document that was asked for.
LEMMA ClassifierRebuilds ==
  ASSUME TypeOK, TypeOK', NEW d \in Docs, Canonical(d),
         d \notin OldDocs => Rebuilding(d) /\ client /\ doc[d].src # None,
         \/ \E e \in Docs : ClassifyStarts(e)
         \/ ClassifyUpserts \/ ClassifyFails \/ FailIfClassifying \/ MarksClassified
  PROVE  Canonical(d)' /\ (d \notin OldDocs => Rebuilding(d)')
  <1>1. /\ doc[d] # None /\ doc[d] \in DocRow /\ doc[d].canon = None
        /\ doc[d].st # "RECEIVED" /\ None # d
    BY PresentIs DEF Canonical
  <1>2. ASSUME NEW e \in Docs, ClassifyStarts(e)
        PROVE  Canonical(d)' /\ (d \notin OldDocs => Rebuilding(d)')
    <2>1. UNCHANGED <<doc, finding>> /\ classifier = NoClass /\ classJobs' = classJobs \ {e}
      BY <1>2 DEF ClassifyStarts, tables
    <2>2. Canonical(d)'
      BY <2>1 DEF Canonical, Stored, Present
    <2>3. CASE e # d
      <3>1. classifier' = NoClass \/ classifier'.doc = e
        BY <1>2, <2>1 DEF ClassifyStarts
      <3> QED
        BY <1>1, <2>1, <2>2, <2>3, <3>1
           DEF Rebuilding, Reclassifiable, Stored, Present, NoClass
    <2>4. CASE e = d /\ Reclassifiable(d) /\ d \notin OldDocs
      <3>1. classifier' = [doc |-> d, held |-> TRUE, pc |-> "upsert"]
        BY <1>2, <2>4 DEF ClassifyStarts, Reclassifiable
      <3> QED
        BY <2>2, <3>1 DEF Rebuilding
    <2>5. CASE e = d /\ ~Reclassifiable(d)
      <3>1. UNCHANGED classifier
        BY <1>2, <2>5 DEF ClassifyStarts, Reclassifiable
      <3> QED
        BY <1>1, <2>1, <2>2, <2>5, <3>1 DEF Rebuilding, NoClass
    <2> QED
      BY <2>2, <2>3, <2>4, <2>5
  <1>3. CASE ClassifyUpserts
    <2>1. /\ UNCHANGED <<doc, classJobs>> /\ classifier' = [classifier EXCEPT !.pc = "mark"]
          /\ finding' = [finding EXCEPT ![classifier.doc] = IF @ = None THEN today ELSE @]
      BY <1>3 DEF ClassifyUpserts, redis
    <2>2. /\ classifier'.doc = classifier.doc
          /\ d # classifier.doc => finding'[d] = finding[d]
          /\ d = classifier.doc => finding'[d] # None
      BY <1>3, <2>1, MaintenanceAssumption DEF ClassifyUpserts, TypeOK, NoClass
    <2> QED
      BY <2>1, <2>2 DEF Canonical, Rebuilding, Reclassifiable, Stored, Present
  <1>4. CASE ClassifyFails
    <2>1. /\ classifier.pc = "upsert" /\ UNCHANGED finding /\ classJobs \subseteq classJobs'
          /\ classifier' = NoClass \/ classifier' = [classifier EXCEPT !.pc = "fail", !.held = FALSE]
          /\ doc' = IF Stored(classifier.doc) THEN [doc EXCEPT ![classifier.doc].err = TRUE] ELSE doc
      BY <1>4 DEF ClassifyFails
    <2>2. classifier'.pc # "mark" /\ classifier'.pc # "upsert"
      <3>1. classifier \in [doc: Docs, pc: {"upsert", "mark", "fail"}, held: BOOLEAN]
        BY <2>1 DEF TypeOK, NoClass
      <3>2. classifier' = NoClass => classifier'.pc = "idle"
        BY DEF NoClass
      <3>3. classifier' = [classifier EXCEPT !.pc = "fail", !.held = FALSE] => classifier'.pc = "fail"
        BY <3>1
      <3> QED
        BY <2>1, <3>2, <3>3
    <2>3. /\ d # classifier.doc => doc'[d] = doc[d]
          /\ d = classifier.doc => doc'[d] = [doc[d] EXCEPT !.err = TRUE]
      <3>1. CASE d = classifier.doc
        <4>1. Stored(d)
          BY <1>1, PresentIs
        <4>2. doc' = [doc EXCEPT ![d] = [doc[d] EXCEPT !.err = TRUE]]
          BY <2>1, <3>1, <4>1
        <4> QED
          BY <3>1, <4>2 DEF TypeOK
      <3>2. CASE d # classifier.doc
        BY <2>1, <3>2 DEF TypeOK
      <3> QED
        BY <3>1, <3>2
    <2>4. /\ doc'[d] # None /\ doc'[d].st = doc[d].st /\ doc'[d].canon = doc[d].canon
          /\ doc[d].err => doc'[d].err
          /\ d = classifier.doc => doc'[d].err
      <3>1. [doc[d] EXCEPT !.err = TRUE] \in DocRow
        BY <1>1, RowUpdates
      <3> QED
        BY <1>1, <2>3, <3>1, MaintenanceAssumption DEF DocRow
    <2> QED
      BY <1>1, <2>1, <2>2, <2>4 DEF Canonical, Rebuilding, Reclassifiable, Stored, Present
  <1>5. CASE FailIfClassifying
    <2>1. /\ classifier.pc = "fail" /\ UNCHANGED <<finding, classJobs>> /\ classifier' = NoClass
          /\ UNCHANGED doc \/ doc' = [doc EXCEPT ![classifier.doc] =
                                       [@ EXCEPT !.st = "FAILED", !.err = TRUE]]
      BY <1>5 DEF FailIfClassifying, redis
    <2>2. doc'[d] = doc[d] \/ doc'[d] = [doc[d] EXCEPT !.st = "FAILED", !.err = TRUE]
      <3>1. CASE d = classifier.doc
        <4>1. UNCHANGED doc \/ doc' = [doc EXCEPT ![d] = [doc[d] EXCEPT !.st = "FAILED", !.err = TRUE]]
          BY <2>1, <3>1
        <4> QED
          BY <4>1 DEF TypeOK
      <3>2. CASE d # classifier.doc
        BY <2>1, <3>2 DEF TypeOK
      <3> QED
        BY <3>1, <3>2
    <2>3. /\ doc'[d] # None /\ doc'[d].canon = None /\ doc'[d].st # "RECEIVED"
          /\ doc[d].err => doc'[d].err
          /\ doc'[d].st = doc[d].st \/ doc'[d].err
      <3>1. [doc[d] EXCEPT !.st = "FAILED", !.err = TRUE] \in DocRow
        BY <1>1, RowUpdates DEF Statuses
      <3> QED
        BY <1>1, <2>2, <3>1, MaintenanceAssumption DEF DocRow
    <2> QED
      BY <1>1, <2>1, <2>3 DEF Canonical, Rebuilding, Reclassifiable, Stored, Present, NoClass
  <1>6. CASE MarksClassified
    <2>1. /\ classifier.pc = "mark" /\ UNCHANGED <<finding, classJobs>> /\ classifier' = NoClass
          /\ UNCHANGED doc \/ doc' = [doc EXCEPT ![classifier.doc] =
                                       [@ EXCEPT !.st = "CLASSIFIED", !.err = FALSE]]
      BY <1>6 DEF MarksClassified, redis
    <2>2. /\ d # classifier.doc => doc'[d] = doc[d]
          /\ doc'[d] = doc[d] \/ doc'[d] = [doc[d] EXCEPT !.st = "CLASSIFIED", !.err = FALSE]
      <3>1. CASE d = classifier.doc
        <4>1. UNCHANGED doc \/ doc' = [doc EXCEPT ![d] = [doc[d] EXCEPT !.st = "CLASSIFIED", !.err = FALSE]]
          BY <2>1, <3>1
        <4> QED
          BY <3>1, <4>1 DEF TypeOK
      <3>2. CASE d # classifier.doc
        BY <2>1, <3>2 DEF TypeOK
      <3> QED
        BY <3>1, <3>2
    <2>3. /\ doc'[d] # None /\ doc'[d].canon = None /\ doc'[d].st # "RECEIVED"
          /\ doc'[d].st \in {doc[d].st, "CLASSIFIED"}
      <3>1. [doc[d] EXCEPT !.st = "CLASSIFIED", !.err = FALSE] \in DocRow
        BY <1>1, RowUpdates DEF Statuses
      <3> QED
        BY <1>1, <2>2, <3>1, MaintenanceAssumption DEF DocRow
    <2> QED
      BY <1>1, <2>1, <2>2, <2>3 DEF Canonical, Rebuilding, Reclassifiable, Stored, Present, NoClass
  <1> QED
    BY <1>2, <1>3, <1>4, <1>5, <1>6

LEMMA OthersAsked ==
  ASSUME TypeOK, TypeOK', ScriptInv, PendingInv, AskedInv, Others
  PROVE  AskedInv'
  <1>1. ScriptKept /\ RowsKept /\ BusinessKept
    BY OthersKeepScript, OthersKeepRows, OthersKeepBusiness
  <1>2. client' => \A d \in Present' : doc'[d].src # None
    BY <1>1, PresentIs DEF AskedInv, RowsKept, BusinessKept, Present
  <1> SUFFICES ASSUME script.kind = "client"
               PROVE  AskedInv'
    BY <1>1, <1>2 DEF AskedInv, ScriptKept
  <1>3. UNCHANGED script
    <2>1. ASSUME NEW d \in Docs, CrawlSaves(d) \/ CrawlSavesMeta(d)
          PROVE  UNCHANGED script
      BY <2>1, SavedIs DEF SaveRaw
    <2> QED
      BY <2>1 DEF Others, Worker, CrawlStarts, NormalizeFinds, ClassifyStarts, SaveFails,
                  CrawlLinks, CrawlEnds, NormalizeLoses, NormalizeWrites, ClassifyUpserts,
                  ClassifyFails, FailIfClassifying, MarksClassified, EnqueueCrawl, Midnight,
                  CreateReport, vars
  <1>4. ASSUME NEW d \in script.asked
        PROVE  Canonical(d)' /\ (d \notin script.late \cup OldDocs => Rebuilding(d)')
    <2>1. /\ d \in Docs /\ Canonical(d) /\ doc[d] # None /\ doc[d].st # "RECEIVED"
          /\ d \notin script.late \cup OldDocs => Rebuilding(d)
      BY PresentIs DEF AskedInv, Canonical
    <2>2. ASSUME doc'[d] = doc[d], finding'[d] = finding[d], classJobs \subseteq classJobs',
                 UNCHANGED classifier
          PROVE  Canonical(d)' /\ (d \notin script.late \cup OldDocs => Rebuilding(d)')
      BY <2>1, <2>2, AskedStays
    <2>3. CASE \/ \E e \in Docs : ClassifyStarts(e)
               \/ ClassifyUpserts \/ ClassifyFails \/ FailIfClassifying \/ MarksClassified
      <3>1. CASE d \in script.late
        <4>1. \/ UNCHANGED doc
              \/ \E e \in Docs, row \in DocRow :
                   /\ doc' = [doc EXCEPT ![e] = row]
                   /\ doc[e].st # "RECEIVED" => row.st # "RECEIVED"
                   /\ row.canon = doc[e].canon
          BY <2>3, ClassifiedIs DEF ClassifyStarts, ClassifyUpserts, tables
        <4> QED
          BY <2>1, <3>1, <4>1, MaintenanceAssumption DEF Canonical, Stored, Present, TypeOK
      <3>2. CASE d \notin script.late
        <4>1. Executed("read")
          <5>1. IsLast
            BY DEF AskedInv
          <5>2. script.at = 4
            BY <5>1 DEF IsLast, Steps
          <5> QED
            BY <5>2 DEF Executed, Steps
        <4>2. client /\ doc[d].src # None
          BY <2>1, <4>1, PresentIs DEF AskedInv
        <4> QED
          BY <2>1, <2>3, <3>2, <4>2, ClassifierRebuilds
      <3> QED
        BY <3>1, <3>2
    <2>4. ASSUME NEW e \in Docs, CrawlSaves(e) \/ CrawlSavesMeta(e)
          PROVE  Canonical(d)' /\ (d \notin script.late \cup OldDocs => Rebuilding(d)')
      <3>1. PICK st : SaveRaw(e, st)
        BY <2>4, SavedIs
      <3>2. e # d
        BY <2>1, <3>1, PresentIs DEF SaveRaw, FreshDoc
      <3> QED
        BY <2>1, <2>2, <3>1, <3>2 DEF SaveRaw, TypeOK, redis
    <2>5. CASE CrawlLinks
      <3>1. Stored(crawler.doc) => crawler.doc # d
        BY <2>1 DEF PendingInv, Stored
      <3>2. doc'[d] = doc[d]
        BY <2>1, <2>5, <3>1 DEF CrawlLinks, Linkable, TypeOK
      <3> QED
        BY <2>2, <2>5, <3>2 DEF CrawlLinks
    <2>6. CASE NormalizeWrites
      <3>1. doc'[d] = doc[d]
        <4>1. CASE Stored(normalizer.doc)
          BY <2>1, <2>6, <4>1, NormalizedIs
        <4>2. CASE ~Stored(normalizer.doc)
          BY <2>6, <4>2 DEF NormalizeWrites
        <4> QED
          BY <4>1, <4>2
      <3> QED
        BY <2>2, <2>6, <3>1 DEF NormalizeWrites
    <2>7. CASE \/ \E j \in crawlJobs : CrawlStarts(j)
               \/ SaveFails \/ CrawlEnds \/ NormalizeLoses
               \/ \E e \in Docs : NormalizeFinds(e)
      BY <2>2, <2>7 DEF CrawlStarts, SaveFails, CrawlEnds, NormalizeLoses, NormalizeFinds,
                        tables, redis
    <2>8. CASE (\E s \in Sources : EnqueueCrawl(s)) \/ Midnight \/ CreateReport \/ UNCHANGED vars
      BY <2>2, <2>8 DEF EnqueueCrawl, Midnight, CreateReport, vars, tables, redis, worker
    <2> QED
      BY <2>3, <2>4, <2>5, <2>6, <2>7, <2>8 DEF Others, Worker
  <1> QED
    BY <1>1, <1>2, <1>3, <1>4 DEF AskedInv, BusinessKept, Executed, IsLast, AllAsked

LEMMA ScriptAsked ==
  ASSUME TypeOK, TypeOK', ScriptInv, PendingInv, WipeInv, AskedInv, Script
  PROVE  AskedInv'
  <1>1. client' => \A d \in Present' : doc'[d].src # None
    <2> SUFFICES ASSUME client', NEW d \in Docs, doc'[d] # None
                 PROVE  doc'[d].src # None
      BY DEF Present
    <2>1. client
      BY DEF Script, ReadScope, ReadClient, DeleteFindings, DeleteDuplicates, DeleteDocuments,
             DeleteRuns, DeleteSourceRows, DeleteItems, DeleteReports, DeleteClients,
             DeleteSources, DeleteUsers, RemoveJobs, ObliterateQueues, MakeReady,
             EnqueueClassify, tables
    <2>2. doc[d] # None => doc[d].src # None
      BY <2>1, PresentIs DEF AskedInv
    <2>3. CASE UNCHANGED doc
      BY <2>2, <2>3
    <2>4. CASE DeleteDuplicates \/ DeleteDocuments
      <3>1. PICK S : doc' = DocsWithout(doc, S)
        BY <2>4 DEF DeleteDuplicates, DeleteDocuments, DropDocs
      <3> QED
        BY <2>2, <3>1, DocsWithoutIs
    <2>5. CASE DeleteRuns
      <3>1. PICK R : doc' = Unlinked(doc, R)
        BY <2>5 DEF DeleteRuns, DropRuns
      <3> QED
        BY <2>2, <3>1, UnlinkedIs DEF TypeOK
    <2>6. CASE DeleteSourceRows
      <3> DEFINE mid == DocsWithout(doc, WithDuplicates(script.docs))
      <3>1. PICK R : doc' = Unlinked(mid, R)
        BY <2>6 DEF DeleteSourceRows
      <3>2. mid \in [Docs -> DocRow \cup {None}] /\ (mid[d] # None => mid[d].src # None)
        BY <2>2, TablesLess, DocsWithoutIs DEF TypeOK
      <3> HIDE DEF mid
      <3> QED
        BY <3>1, <3>2, UnlinkedIs
    <2>7. CASE DeleteSources
      <3>1. Now({"training"}, "sources")
        BY <2>7 DEF DeleteSources
      <3>2. Executed("clients")
        BY <3>1, Positions DEF Now
      <3> QED
        BY <2>1, <3>1, <3>2 DEF WipeInv, Now
    <2>8. CASE MakeReady
      <3>1. doc'[d] = doc[d] \/ doc'[d] = [doc[d] EXCEPT !.st = "READY_FOR_AI", !.err = FALSE]
        BY <2>8 DEF MakeReady
      <3>2. doc[d] # None /\ doc[d] \in DocRow
        BY <2>8, PresentIs DEF MakeReady
      <3> QED
        BY <2>2, <3>1, <3>2 DEF DocRow
    <2> QED
      BY <2>3, <2>4, <2>5, <2>6, <2>7, <2>8
         DEF Script, ReadScope, ReadClient, DeleteFindings, DeleteItems, DeleteReports,
             DeleteClients, DeleteUsers, RemoveJobs, ObliterateQueues, EnqueueClassify, tables
  <1>2. CASE script.kind # "client"
    <2>1. ~EnqueueClassify
      BY <1>2 DEF EnqueueClassify, Now
    <2>2. script'.kind = script.kind
      BY <2>1, ReadMoves, DupesMoves, PlainMoves, UsersMoves DEF Script, MovesOn, Moves
    <2> QED
      BY <1>1, <1>2, <2>2 DEF AskedInv
  <1>3. CASE script.kind = "client"
    <2>1. ReadClient \/ DeleteFindings \/ MakeReady \/ EnqueueClassify
      BY <1>3 DEF Script, ReadScope, DeleteDuplicates, DeleteDocuments, DeleteRuns,
                  DeleteSourceRows, DeleteItems, DeleteReports, DeleteClients, DeleteSources,
                  DeleteUsers, RemoveJobs, ObliterateQueues, Now
    <2>2. /\ Running /\ script \in ScriptRec /\ script.end = "no" /\ script.asked \in SUBSET Docs
          /\ UNCHANGED client
      BY <2>1, RunningIs DEF ReadClient, DeleteFindings, MakeReady, EnqueueClassify, Now, Running,
                             tables, ScriptRec
    <2>3. CASE ReadClient \/ DeleteFindings \/ MakeReady
      <3>1. ~IsLast /\ script.asked = {}
        BY <1>3, <2>2, <2>3, Positions DEF ReadClient, DeleteFindings, MakeReady, Now, AskedInv
      <3>2. CASE Aborts
        BY <1>1, <1>3, <2>2, <3>2, StoppedMoves DEF AskedInv, Moves
      <3>3. CASE ~Aborts
        <4>1. PICK docs \in SUBSET Docs : Continues([script EXCEPT !.docs = docs])
          <5>1. script = [script EXCEPT !.docs = script.docs] /\ script.docs \in SUBSET Docs
            BY <2>2 DEF ScriptRec
          <5>2. CASE ReadClient
            <6>1. {d \in Docs : finding[d] # None} \in SUBSET Docs
              OBVIOUS
            <6> QED
              BY <3>3, <5>2, <6>1 DEF ReadClient
          <5>3. CASE DeleteFindings \/ MakeReady
            BY <5>1, <5>3 DEF DeleteFindings, MakeReady
          <5> QED
            BY <2>3, <5>2, <5>3
        <4> DEFINE changed == [script EXCEPT !.docs = docs]
        <4>2. /\ changed \in ScriptRec /\ changed.kind = script.kind /\ changed.at = script.at
              /\ changed.end = "no" /\ changed.asked = {}
          BY <2>2, <3>1, <4>1 DEF ScriptRec
        <4>3. Continues(changed) /\ script' = [changed EXCEPT !.at = changed.at + 1]
          BY <3>1, <4>1 DEF Continues
        <4> HIDE DEF changed
        <4>4. /\ script'.kind = "client" /\ script'.asked = {}
              /\ Executed("read")' => \/ Executed("read")
                                      \/ "read" = Steps[script.kind][script.at]
          BY <1>3, <2>2, <4>2, <4>3, ContinuesIs
        <4>5. script'.end = "no"
          BY <4>2, <4>3 DEF ScriptRec
        <4>6. ReadClient => client
          BY <3>3 DEF ReadClient
        <4>7. Executed("read")' => client'
          BY <1>3, <2>2, <2>3, <4>4, <4>6 DEF AskedInv, DeleteFindings, MakeReady, Now
        <4> QED
          BY <1>1, <4>4, <4>5, <4>7 DEF AskedInv
      <3> QED
        BY <3>2, <3>3
    <2>4. CASE EnqueueClassify
      <3>1. IsLast /\ Executed("read") /\ UNCHANGED <<doc, finding>>
        BY <1>3, <2>2, <2>4, Positions DEF EnqueueClassify, Now, tables
      <3>2. UNCHANGED classifier
        BY <2>4 DEF Script, EnqueueClassify, RemoveJobs, ObliterateQueues, Now, worker
      <3>3. ASSUME NEW d \in script.asked, classJobs \subseteq classJobs'
            PROVE  Canonical(d)' /\ (d \notin script.late \cup OldDocs => Rebuilding(d)')
        BY <1>3, <2>2, <3>1, <3>2, <3>3, AskedStays DEF AskedInv
      <3>4. CASE Aborts
        BY <1>1, <1>3, <2>2, <3>4, StoppedMoves DEF AskedInv, Moves
      <3>5. CASE AllAsked /\ ~Aborts
        <4>1. Continues(script) /\ UNCHANGED classJobs
          BY <2>4, <3>5 DEF EnqueueClassify
        <4>2. /\ script'.kind = "client" /\ script'.asked = script.asked /\ script'.at = script.at
              /\ script'.docs = script.docs /\ script'.late = script.late
              /\ script'.end = "done"
          BY <1>3, <2>2, <3>1, <4>1 DEF Continues, AtEnd, ScriptRec
        <4> QED
          BY <1>1, <1>3, <2>2, <3>1, <3>3, <3>5, <4>1, <4>2 DEF AskedInv, AllAsked, IsLast
      <3>6. CASE ~AllAsked /\ ~Aborts
        <4>1. PICK d \in script.docs \ script.asked :
                /\ Reclassifiable(d)
                /\ \/ /\ script' = [script EXCEPT !.asked = @ \cup {d}, !.late = @ \cup {d}]
                      /\ UNCHANGED classJobs
                   \/ /\ script' = [script EXCEPT !.asked = @ \cup {d}]
                      /\ classJobs' = classJobs \cup {d}
          BY <2>4, <3>6 DEF EnqueueClassify
        <4>2. /\ script'.kind = "client" /\ script'.at = script.at /\ script'.end = "no"
              /\ script'.asked = script.asked \cup {d}
              /\ \/ d \in script'.late
                 \/ d \in classJobs'
              /\ script.late \subseteq script'.late /\ classJobs \subseteq classJobs'
          BY <1>3, <2>2, <4>1 DEF ScriptRec
        <4>3. Canonical(d)' /\ (d \notin script'.late => Rebuilding(d)')
          BY <3>1, <4>1, <4>2 DEF Reclassifiable, Canonical, Rebuilding, Stored, Present
        <4> QED
          BY <1>1, <1>3, <2>2, <3>1, <3>3, <4>2, <4>3 DEF AskedInv, IsLast
      <3> QED
        BY <3>4, <3>5, <3>6
    <2> QED
      BY <2>1, <2>3, <2>4
  <1> QED
    BY <1>2, <1>3

LEMMA NextAsked ==
  ASSUME TypeOK, TypeOK', ScriptInv, PendingInv, WipeInv, AskedInv, [Next]_vars
  PROVE  AskedInv'
  <1>1. CASE Others
    BY <1>1, OthersAsked
  <1>2. CASE \E kind \in Kinds : Begin(kind)
    <2>1. UNCHANGED <<doc, client>>
      BY <1>2 DEF Begin, tables
    <2> QED
      BY <1>2, <2>1, BeginTypes DEF AskedInv, Present
  <1>3. CASE Stops
    <2>1. UNCHANGED <<doc, client>>
      BY <1>3 DEF Stops, tables
    <2> QED
      BY <1>3, <2>1, StoppedMoves DEF Stops, AskedInv, Present, Moves
  <1>4. CASE Script
    BY <1>4, ScriptAsked
  <1> QED
    BY <1>1, <1>2, <1>3, <1>4 DEF Next, Others

\* So, when all have been asked for, none has been lost.
LEMMA RebuiltIs ==
  ASSUME AskedInv
  PROVE  ReclassifiedIsRebuilt
  BY DEF AskedInv, ReclassifiedIsRebuilt, AllAsked, Rebuilding, Canonical

-----------------------------------------------------------------------------
(* The invariant, and what it makes of the scripts.                        *)

LEMMA InitMaintenance == Init => TypeOK /\ MaintenanceInv
  <1> SUFFICES ASSUME Init PROVE MaintenanceInv
    BY InitTypes
  <1>1. PendingInv /\ CanonInv
    BY DEF Init, PendingInv, CanonInv, Present, Stored, NoCrawl, NoNorm, NoClass
  <1>2. ScopeInv /\ WipeInv /\ StrayInv /\ AskedInv
    BY DEF Init, ScopeInv, WipeInv, StrayInv, AskedInv, Present, NoScript
  <1> QED
    BY <1>1, <1>2, InitTypes DEF MaintenanceInv

LEMMA NextMaintenance ==
  ASSUME TypeOK, MaintenanceInv, [Next]_vars
  PROVE  TypeOK' /\ MaintenanceInv'
  <1>1. ScriptInv /\ PendingInv /\ CanonInv /\ ScopeInv /\ WipeInv /\ StrayInv /\ AskedInv
    BY DEF MaintenanceInv
  <1>2. TypeOK' /\ ScriptInv'
    BY <1>1, NextTypes
  <1>3. PendingInv' /\ CanonInv' /\ ScopeInv' /\ WipeInv' /\ StrayInv' /\ AskedInv'
    BY <1>1, <1>2, NextSettled, NextInScope, NextWiped, NextStray, NextAsked
  <1> QED
    BY <1>2, <1>3 DEF MaintenanceInv

\* Types and the inductive invariant: what a script has deleted stays deleted, and what the
\* worker writes behind it is what its properties except.
THEOREM MaintenanceSafety == Spec => [](TypeOK /\ MaintenanceInv)
  BY InitMaintenance, NextMaintenance, PTL DEF Spec

\* When the wipe comes to the users none of them is held back by a report, whatever the
\* API has written since the reports were deleted (reset-for-training.ts).
THEOREM UsersSafety == Spec => []UsersCanBeDeleted
  BY MaintenanceSafety, FreeUsers, PTL DEF MaintenanceInv

\* After the wipe nothing of the business is left or comes back, but documents and runs a
\* crawl wrote meanwhile (reset-for-training.ts).
THEOREM WipeSafety == Spec => []WipedMeansEmpty
  BY MaintenanceSafety, WipedIsEmpty, PTL DEF MaintenanceInv

\* After the reset of a day the handler it interrupted, whose run is gone, saves at most one
\* page to extract more, whatever else it saves (crawl.processor.ts, reset-crawl.ts).
THEOREM StraySafety == Spec => []OnePageComesBack
  <1>1. ASSUME TypeOK, StrayInv
        PROVE  OnePageComesBack
    <2> DEFINE pages == script.late \cap Pages
    <2> SUFFICES ASSUME script.kind = "day", script.end = "done"
                 PROVE  Cardinality(pages) <= 1
      BY <1>1 DEF OnePageComesBack, StrayInv
    <2>1. \A d, e \in pages : d = e
      BY <1>1 DEF StrayInv
    <2> HIDE DEF pages
    <2>2. CASE pages = {}
      BY <2>2, FS_EmptySet
    <2>3. CASE pages # {}
      <3>1. PICK d \in pages : TRUE
        BY <2>3
      <3>2. pages = {d}
        BY <2>1, <3>1
      <3> QED
        BY <3>2, FS_Singleton
    <2> QED
      BY <2>2, <2>3
  <1> QED
    BY <1>1, MaintenanceSafety, PTL DEF MaintenanceInv

\* reclassify-client loses no finding silently, whatever is classified, fails or is given up
\* while it asks the API for one document after another (reclassify-client.ts).
THEOREM RebuiltSafety == Spec => []ReclassifiedIsRebuilt
  BY MaintenanceSafety, RebuiltIs, PTL DEF MaintenanceInv

\* A reset of a day or of some sources deletes their documents and the duplicates of these,
\* and no others, whatever is crawled, linked and deduplicated between its statements.
THEOREM ScopeSafety == Spec => OthersAreKept
  <1>1. ASSUME TypeOK, MaintenanceInv, TypeOK', [Next]_vars
        PROVE  [\A d \in Present :
                  script.kind \in {"day", "sources"} /\ Running /\ doc'[d] = None
                    => InScope(d)]_vars
    BY <1>1, DeletesInScope DEF MaintenanceInv
  <1>2. TypeOK /\ MaintenanceInv /\ [Next]_vars => TypeOK'
    BY NextMaintenance
  <1> QED
    BY <1>1, <1>2, MaintenanceSafety, PTL DEF Spec, OthersAreKept

\* A script leaves no duplicate without its canonical, but one that became a duplicate
\* after the statement that deletes the duplicates.
THEOREM OrphanSafety == Spec => OnlyLateDuplicatesAreOrphaned
  <1>1. ASSUME TypeOK, MaintenanceInv, TypeOK', [Next]_vars
        PROVE  [\A d \in Present :
                  /\ doc[d].canon # None
                  /\ doc'[d] # None
                  /\ doc'[d].canon = None
                  => d \in script.late]_vars
    BY <1>1, OrphansAreLate DEF MaintenanceInv
  <1>2. TypeOK /\ MaintenanceInv /\ [Next]_vars => TypeOK'
    BY NextMaintenance
  <1> QED
    BY <1>1, <1>2, MaintenanceSafety, PTL DEF Spec, OnlyLateDuplicatesAreOrphaned
====
