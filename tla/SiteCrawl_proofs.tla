------------------------- MODULE SiteCrawl_proofs --------------------------
(***************************************************************************)
(* Theorems about SiteCrawl, for every web, every answer of its servers    *)
(* and every value of the limits: the frontier's limits, what is saved,    *)
(* and that crawlSite keeps the promise of CrawlOutcome.                   *)
(***************************************************************************)
EXTENDS SiteCrawl, FiniteSetTheorems, SequenceTheorems, TLAPS

-----------------------------------------------------------------------------
(* The download.                                                           *)

FetchRecord == [at: {"idle", "hop", "page", "failed"},
                url: Urls \cup {None}, cur: Urls \cup {None}, lax: BOOLEAN,
                hops: 0..(MaxRedirects + 1),
                seen: SUBSET (Urls \X (Cookies \cup {None})),
                jar: [Hosts -> Cookies \cup {None}],
                page: Answers \cup {None}, code: Codes \cup {None}]

LEMMA IdleIsRecord == Idle \in FetchRecord
  <1> DEFINE empty == [h \in Hosts |-> None]
  <1>1. empty \in [Hosts -> Cookies \cup {None}]
    OBVIOUS
  <1>2. 0 \in 0..(MaxRedirects + 1)
    BY FetchAssumption
  <1> HIDE DEF empty
  <1> QED
    BY <1>1, <1>2 DEF Idle, FetchRecord

LEMMA IdleTypes == fetch' = Idle => FetchTypeOK'
  BY IdleIsRecord DEF Idle, FetchTypeOK, FetchRecord

LEMMA RoundTypes ==
  ASSUME NEW u \in Urls, NEW lax \in BOOLEAN, fetch' = Round(u, lax)
  PROVE  FetchTypeOK' /\ fetch'.at = "hop"
  <1> DEFINE idle == Idle
  <1>1. idle \in FetchRecord
    BY IdleIsRecord
  <1>2. fetch' = [idle EXCEPT !.at = "hop", !.url = u, !.cur = u, !.lax = lax]
    BY DEF Round
  <1> HIDE DEF idle
  <1> QED
    BY <1>1, <1>2 DEF FetchTypeOK, FetchRecord

LEMMA FailTypes ==
  ASSUME FetchTypeOK, NEW code \in Codes, Fail(code)
  PROVE  FetchTypeOK' /\ fetch'.at = "failed"
  <1> DEFINE idle == Idle
  <1>1. idle \in FetchRecord
    BY IdleIsRecord
  <1>2. fetch' = [idle EXCEPT !.at = "failed", !.url = fetch.url, !.code = code]
    BY DEF Fail
  <1> HIDE DEF idle
  <1> QED
    BY <1>1, <1>2 DEF FetchTypeOK, FetchRecord

LEMMA RedirectTypes ==
  ASSUME FetchTypeOK, NEW a \in Answers, FollowRedirect(a)
  PROVE  FetchTypeOK' /\ fetch'.at = "hop"
  <1>1. /\ fetch.at = "hop" /\ fetch.url \in Urls /\ fetch.cur \in Urls
        /\ fetch.hops \in 0..MaxRedirects
        /\ a.to \in Urls /\ a.cookie \in Cookies \cup {None}
    BY FetchAssumption DEF FetchTypeOK, FollowRedirect, Asked
  <1>2. fetch.cur.host \in Hosts
    BY <1>1 DEF Hosts
  <1>3. HopKey \in Urls \X (Cookies \cup {None})
    BY <1>1, <1>2 DEF HopKey, CookieHeader, FetchTypeOK
  <1>4. IngestSetCookies(fetch.jar, fetch.cur, a.cookie) \in [Hosts -> Cookies \cup {None}]
    BY <1>1, <1>2 DEF IngestSetCookies, FetchTypeOK
  <1>5. fetch.hops + 1 \in 0..(MaxRedirects + 1)
    BY <1>1, FetchAssumption
  <1> QED
    BY <1>1, <1>3, <1>4, <1>5 DEF FollowRedirect, FetchTypeOK

\* A step of fetchPage keeps its types and does not put the download back to the start.
LEMMA FetchStepTypes ==
  ASSUME FetchTypeOK, FetchStep
  PROVE  FetchTypeOK' /\ fetch.at = "hop" /\ fetch'.at # "idle"
  <1>1. CASE RedirectLoop
    BY <1>1, FailTypes DEF RedirectLoop, Codes
  <1>2. CASE ~RedirectLoop
    <2>1. fetch.at = "hop" /\ fetch.cur \in Urls /\ fetch.url \in Urls
      BY <1>2 DEF FetchStep, FetchTypeOK
    <2>2. PICK a \in Web[fetch.cur] :
            FollowRedirect(a) \/ RequestFails(a) \/ HttpError(a) \/ Downloaded(a)
      BY <1>2 DEF FetchStep
    <2>3. a \in Answers
      BY <2>1, FetchAssumption
    <2>4. CASE FollowRedirect(a)
      BY <2>1, <2>3, <2>4, RedirectTypes
    <2>5. CASE RequestFails(a)
      BY <2>1, <2>5, RoundTypes, FailTypes DEF RequestFails, Codes
    <2>6. CASE HttpError(a)
      BY <2>1, <2>6, FailTypes DEF HttpError, ClassifyHttp, Codes
    <2>7. CASE Downloaded(a)
      <3> DEFINE idle == Idle
      <3>1. idle \in FetchRecord
        BY IdleIsRecord
      <3>2. /\ a.kind = "ok"
            /\ fetch' = [idle EXCEPT !.at = "page", !.url = fetch.url, !.cur = fetch.cur,
                                     !.page = a]
        BY <2>7 DEF Downloaded
      <3> HIDE DEF idle
      <3> QED
        BY <2>1, <2>3, <3>1, <3>2 DEF FetchTypeOK, FetchRecord
    <2> QED
      BY <2>2, <2>4, <2>5, <2>6, <2>7
  <1> QED
    BY <1>1, <1>2

-----------------------------------------------------------------------------
(* The links of a page.                                                    *)

Item == [url : Urls, depth : 0..MaxDepth]

LEMMA ScoreType ==
  ASSUME NEW u \in Urls
  PROVE  LinkScore(u) \in Nat
  BY CrawlAssumption DEF LinkScore, Points

\* Of the links of a set at most n have fewer than n links of it before them.
LEMMA BestAreFew ==
  ASSUME NEW links \in Seq(Urls), NEW S \in SUBSET DOMAIN links, NEW n \in Int,
         NEW T, T = {i \in S : Cardinality({j \in S : Before(links, j, i)}) < n}
  PROVE  /\ IsFiniteSet(T)
         /\ T # {} => Cardinality(T) <= n
  <1> DEFINE Ahead(i) == {j \in S : Before(links, j, i)}
             rank == [i \in T |-> Cardinality(Ahead(i))]
  <1>1. IsFiniteSet(S)
    <2>1. DOMAIN links = 1..Len(links) /\ Len(links) \in Nat
      BY LenProperties
    <2>2. IsFiniteSet(1..Len(links))
      BY <2>1, FS_Interval
    <2> QED
      BY <2>1, <2>2, FS_Subset
  <1>2. IsFiniteSet(T)
    BY <1>1, FS_Subset
  <1>3. \A i \in S : IsFiniteSet(Ahead(i)) /\ Cardinality(Ahead(i)) \in Nat
    BY <1>1, FS_Subset, FS_CardinalityType
  <1>4. ASSUME NEW i \in S, NEW j \in S, Before(links, i, j)
        PROVE  Cardinality(Ahead(i)) < Cardinality(Ahead(j))
    <2>1. \A k \in S : k \in Nat /\ LinkScore(links[k]) \in Nat
      BY ScoreType, LenProperties, ElementOfSeq
    <2>2. Ahead(i) \subseteq Ahead(j)
      BY <1>4, <2>1 DEF Before
    <2>3. i \in Ahead(j) /\ i \notin Ahead(i)
      BY <1>4, <2>1 DEF Before
    <2> HIDE DEF Ahead
    <2>4. IsFiniteSet(Ahead(j)) /\ Cardinality(Ahead(i)) \in Nat /\ Cardinality(Ahead(j)) \in Nat
      BY <1>3
    <2>5. /\ Cardinality(Ahead(i)) <= Cardinality(Ahead(j))
          /\ Cardinality(Ahead(j)) = Cardinality(Ahead(i)) => Ahead(j) = Ahead(i)
      BY <2>2, <2>4, FS_Subset
    <2> QED
      BY <2>3, <2>4, <2>5
  <1>5. ASSUME T # {} PROVE Cardinality(T) <= n
    <2>1. \A i \in T : i \in S /\ Cardinality(Ahead(i)) < n
      OBVIOUS
    <2>2. \A i \in T : Cardinality(Ahead(i)) \in 0..(n-1)
      <3> HIDE DEF Ahead
      <3> QED
        BY <1>3, <2>1
    <2>a. n > 0
      <3>1. PICK i \in T : TRUE
        BY <1>5
      <3> HIDE DEF Ahead
      <3>2. Cardinality(Ahead(i)) \in 0..(n-1)
        BY <2>2
      <3> QED
        BY <3>2
    <2>b. rank \in [T -> 0..(n-1)]
      BY <2>2
    <2>3. \A i, j \in T : i # j => Before(links, i, j) \/ Before(links, j, i)
      <3>1. \A k \in S : k \in Nat /\ LinkScore(links[k]) \in Nat
        BY ScoreType, LenProperties, ElementOfSeq
      <3> QED
        BY <3>1 DEF Before
    <2>4. \A i, j \in T : rank[i] = rank[j] => i = j
      <3> SUFFICES ASSUME NEW i \in T, NEW j \in T, rank[i] = rank[j], i # j PROVE FALSE
        OBVIOUS
      <3>1. Cardinality(Ahead(i)) = Cardinality(Ahead(j))
        OBVIOUS
      <3>2. i \in S /\ j \in S
        OBVIOUS
      <3> HIDE DEF Ahead, rank
      <3>3. Cardinality(Ahead(i)) \in Nat /\ Cardinality(Ahead(j)) \in Nat
        BY <1>3, <3>2
      <3> QED
        BY <1>4, <2>3, <3>1, <3>2, <3>3
    <2> HIDE DEF rank
    <2>5. rank \in Injection(T, 0..(n-1))
      BY <2>b, <2>4 DEF Injection, IsInjective
    <2>6. IsFiniteSet(0..(n-1)) /\ Cardinality(0..(n-1)) = n
      BY <2>a, FS_Interval
    <2> QED
      BY <2>5, <2>6, FS_Injection
  <1> QED
    BY <1>2, <1>5

\* The new links are places of the page, name URLs that are new and differ, and are no
\* more than there is room for.
LEMMA NewLinksAre ==
  ASSUME TypeOK, fetch.at = "page", IsFiniteSet(queued)
  PROVE  /\ fetch.page.links \in Seq(Urls)
         /\ NewLinks \subseteq DOMAIN fetch.page.links
         /\ IsFiniteSet(NewLinks)
         /\ \A i \in NewLinks : fetch.page.links[i] \in Urls \ queued
         /\ \A i, j \in NewLinks : fetch.page.links[i] = fetch.page.links[j] => i = j
         /\ NewLinks # {} =>
              Cardinality(queued) + Cardinality(NewLinks) <= MaxQueue /\ FollowsLinks
  <1> DEFINE links == fetch.page.links
             fresh == {i \in DiscoverLinks(fetch.page, fetch.cur) : links[i] \notin queued}
             best == {i \in fresh : Cardinality({j \in fresh : Before(links, j, i)}) < Room}
  <1>1. links \in Seq(Urls)
    BY FetchAssumption DEF TypeOK, FetchTypeOK
  <1>2. Room \in Int /\ Cardinality(queued) \in Nat
    BY FS_CardinalityType, CrawlAssumption DEF Room
  <1>3. fresh \subseteq DOMAIN links
    BY DEF DiscoverLinks
  <1>4. IsFiniteSet(best) /\ (best # {} => Cardinality(best) <= Room)
    <2> HIDE DEF fresh
    <2> QED
      BY <1>1, <1>2, <1>3, BestAreFew
  <1>5. NewLinks = IF ~FollowsLinks THEN {} ELSE best
    BY DEF NewLinks
  <1>6. DOMAIN links = 1..Len(links) /\ Len(links) \in Nat
    BY <1>1, LenProperties
  <1>7. \A i \in DOMAIN links : links[i] \in Urls
    BY <1>1, <1>6, ElementOfSeq
  <1>8. /\ \A i \in fresh : links[i] \in Urls \ queued
        /\ \A i, j \in fresh : links[i] = links[j] => i = j
    BY <1>3, <1>6, <1>7 DEF DiscoverLinks
  <1>9. IsFiniteSet({}) /\ Cardinality(best) \in Nat
    BY <1>4, FS_CardinalityType, FS_EmptySet
  <1>10. NewLinks \subseteq fresh
    BY <1>5
  <1>11. IsFiniteSet(NewLinks)
    BY <1>4, <1>5, <1>9
  <1>12. NewLinks # {} => Cardinality(queued) + Cardinality(NewLinks) <= MaxQueue /\ FollowsLinks
    <2> HIDE DEF best
    <2> QED
      BY <1>2, <1>4, <1>5, <1>9, CrawlAssumption DEF Room
  <1> HIDE DEF fresh, best
  <1> QED
    BY <1>1, <1>3, <1>8, <1>10, <1>11, <1>12

\* The order of a set of links is a sequence of all of them, each once.
LEMMA BestFirstIs ==
  ASSUME TypeOK, fetch.at = "page", NEW S \in SUBSET DOMAIN fetch.page.links,
         IsFiniteSet(S), NEW s \in BestFirst(S)
  PROVE  /\ s \in Seq(S) /\ Len(s) = Cardinality(S)
         /\ \A i, j \in 1..Len(s) : s[i] = s[j] => i = j
  <1>1. Cardinality(S) \in Nat
    BY FS_CardinalityType
  <1>2. s \in [1..Cardinality(S) -> S]
    BY DEF BestFirst
  <1>3. s \in Seq(S) /\ Len(s) = Cardinality(S) /\ DOMAIN s = 1..Len(s)
    BY <1>1, <1>2
  <1>4. fetch.page.links \in Seq(Urls)
    BY FetchAssumption DEF TypeOK, FetchTypeOK
  <1>5. \A k \in S : k \in Nat /\ LinkScore(fetch.page.links[k]) \in Nat
    BY <1>4, ScoreType, LenProperties, ElementOfSeq
  <1>6. \A i, j \in 1..Len(s) : i < j => s[i] # s[j]
    <2> SUFFICES ASSUME NEW i \in 1..Len(s), NEW j \in 1..Len(s), i < j, s[i] = s[j] PROVE FALSE
      OBVIOUS
    <2>1. Before(fetch.page.links, s[i], s[j]) /\ s[i] \in S
      BY <1>2, <1>3 DEF BestFirst
    <2> QED
      BY <1>5, <2>1 DEF Before
  <1> QED
    BY <1>1, <1>3, <1>6

\* The items of an order of links, one level below the page.
LEMMA ItemsAre ==
  ASSUME TypeOK, fetch.at = "page", current # None, current.depth < MaxDepth,
         NEW S \in SUBSET DOMAIN fetch.page.links, IsFiniteSet(S), NEW s \in BestFirst(S)
  PROVE  /\ Items(s) \in Seq(Item) /\ Len(Items(s)) = Cardinality(S)
         /\ \A i \in 1..Len(s) : Items(s)[i].url = fetch.page.links[s[i]]
  <1>1. /\ s \in Seq(S) /\ Len(s) = Cardinality(S) /\ Len(s) \in Nat /\ DOMAIN s = 1..Len(s)
        /\ \A i \in 1..Len(s) : s[i] \in S
    BY BestFirstIs, LenProperties, ElementOfSeq
  <1>2. \A i \in S : fetch.page.links[i] \in Urls
    <2>1. fetch.page.links \in Seq(Urls)
      BY FetchAssumption DEF TypeOK, FetchTypeOK
    <2> QED
      BY <2>1, LenProperties, ElementOfSeq
  <1>3. current.depth + 1 \in 0..MaxDepth
    BY CrawlAssumption DEF TypeOK
  <1>4. Items(s) \in [1..Len(s) -> Item]
    BY <1>1, <1>2, <1>3 DEF Items, Item
  <1>5. \A i \in 1..Len(s) : Items(s)[i].url = fetch.page.links[s[i]]
    BY <1>1 DEF Items
  <1> HIDE DEF Item
  <1> QED
    BY <1>1, <1>4, <1>5
-----------------------------------------------------------------------------
(* The frontier as a sequence of items with different URLs.                *)

Distinct(s) == \A i, j \in DOMAIN s : s[i].url = s[j].url => i = j
Within(s, U) == \A i \in DOMAIN s : s[i].url \in U

LEMMA ConcatDistinct ==
  ASSUME NEW s \in Seq(Item), NEW t \in Seq(Item), Distinct(s), Distinct(t),
         \A i \in DOMAIN s, j \in DOMAIN t : s[i].url # t[j].url
  PROVE  Distinct(s \o t)
  <1> DEFINE c == s \o t
  <1>1. /\ Len(s) \in Nat /\ DOMAIN s = 1..Len(s)
        /\ Len(t) \in Nat /\ DOMAIN t = 1..Len(t)
    BY LenProperties
  <1>2. /\ c \in Seq(Item) /\ Len(c) = Len(s) + Len(t)
        /\ \A i \in 1..(Len(s) + Len(t)) : c[i] = IF i <= Len(s) THEN s[i] ELSE t[i - Len(s)]
    BY ConcatProperties
  <1>3. DOMAIN c = 1..(Len(s) + Len(t))
    BY <1>2, LenProperties
  <1> HIDE DEF c
  <1>4. SUFFICES ASSUME NEW i \in DOMAIN c, NEW j \in DOMAIN c, c[i].url = c[j].url
                 PROVE  i = j
    BY DEF Distinct, c
  <1>5. /\ i \in Nat /\ j \in Nat
        /\ IF i <= Len(s) THEN c[i] = s[i] /\ i \in DOMAIN s
                          ELSE c[i] = t[i - Len(s)] /\ i - Len(s) \in DOMAIN t
        /\ IF j <= Len(s) THEN c[j] = s[j] /\ j \in DOMAIN s
                          ELSE c[j] = t[j - Len(s)] /\ j - Len(s) \in DOMAIN t
    BY <1>1, <1>2, <1>3
  <1>6. CASE i <= Len(s) /\ j <= Len(s)
    BY <1>4, <1>5, <1>6 DEF Distinct
  <1>7. CASE ~(i <= Len(s)) /\ ~(j <= Len(s))
    <2>1. i - Len(s) = j - Len(s)
      BY <1>4, <1>5, <1>7 DEF Distinct
    <2> QED
      BY <1>1, <1>5, <2>1
  <1>8. CASE i <= Len(s) /\ ~(j <= Len(s))
    BY <1>4, <1>5, <1>8
  <1>9. CASE ~(i <= Len(s)) /\ j <= Len(s)
    BY <1>4, <1>5, <1>9
  <1> QED
    BY <1>6, <1>7, <1>8, <1>9

LEMMA ConcatWithin ==
  ASSUME NEW s \in Seq(Item), NEW t \in Seq(Item), NEW U, Within(s, U), Within(t, U)
  PROVE  Within(s \o t, U)
  <1> DEFINE c == s \o t
  <1>1. /\ Len(s) \in Nat /\ DOMAIN s = 1..Len(s)
        /\ Len(t) \in Nat /\ DOMAIN t = 1..Len(t)
    BY LenProperties
  <1>2. /\ c \in Seq(Item) /\ Len(c) = Len(s) + Len(t)
        /\ \A i \in 1..(Len(s) + Len(t)) : c[i] = IF i <= Len(s) THEN s[i] ELSE t[i - Len(s)]
    BY ConcatProperties
  <1>3. DOMAIN c = 1..(Len(s) + Len(t))
    BY <1>2, LenProperties
  <1> HIDE DEF c
  <1>4. ASSUME NEW i \in DOMAIN c PROVE c[i].url \in U
    <2>1. i \in Nat /\ (i <= Len(s) => i \in DOMAIN s) /\ (~(i <= Len(s)) => i - Len(s) \in DOMAIN t)
      BY <1>1, <1>3
    <2>2. c[i] = IF i <= Len(s) THEN s[i] ELSE t[i - Len(s)]
      BY <1>2, <1>3
    <2> QED
      BY <2>1, <2>2 DEF Within
  <1> QED
    BY <1>4 DEF Within, c

LEMMA TailDistinct ==
  ASSUME NEW s \in Seq(Item), s # <<>>, NEW U, Distinct(s), Within(s, U)
  PROVE  Distinct(Tail(s)) /\ Within(Tail(s), U)
  <1>1. Len(s) \in Nat /\ DOMAIN s = 1..Len(s)
    BY LenProperties
  <1>2. /\ Tail(s) \in Seq(Item) /\ Len(Tail(s)) = Len(s) - 1
        /\ \A i \in 1..Len(Tail(s)) : Tail(s)[i] = s[i+1]
    BY HeadTailProperties
  <1>3. DOMAIN Tail(s) = 1..Len(Tail(s)) /\ Len(Tail(s)) \in Nat
    BY <1>2, LenProperties
  <1>4. \A i \in DOMAIN Tail(s) : i \in Nat /\ Tail(s)[i] = s[i+1] /\ i+1 \in DOMAIN s
    BY <1>1, <1>2, <1>3
  <1>5. ASSUME NEW i \in DOMAIN Tail(s), NEW j \in DOMAIN Tail(s),
               Tail(s)[i].url = Tail(s)[j].url
        PROVE  i = j
    <2>1. i + 1 = j + 1
      BY <1>4, <1>5 DEF Distinct
    <2> QED
      BY <1>4, <2>1
  <1>6. \A i \in DOMAIN Tail(s) : Tail(s)[i].url \in U
    BY <1>4 DEF Within
  <1> QED
    BY <1>5, <1>6 DEF Distinct, Within

\* The items of an order of new links have different URLs, all of them new.
LEMMA ItemsDistinct ==
  ASSUME TypeOK, fetch.at = "page", current # None, current.depth < MaxDepth,
         NEW S \in SUBSET DOMAIN fetch.page.links, IsFiniteSet(S), NEW s \in BestFirst(S),
         \A i, j \in S : fetch.page.links[i] = fetch.page.links[j] => i = j
  PROVE  Distinct(Items(s)) /\ Within(Items(s), {fetch.page.links[i] : i \in S})
  <1>1. /\ s \in Seq(S) /\ Len(s) = Cardinality(S) /\ Len(s) \in Nat
        /\ \A i \in 1..Len(s) : s[i] \in S
        /\ \A i, j \in 1..Len(s) : s[i] = s[j] => i = j
    BY BestFirstIs, LenProperties, ElementOfSeq
  <1>2. DOMAIN Items(s) = 1..Len(s)
    BY <1>1, LenProperties DEF Items
  <1>3. \A i \in 1..Len(s) : Items(s)[i].url = fetch.page.links[s[i]]
    BY ItemsAre
  <1> QED
    BY <1>1, <1>2, <1>3 DEF Distinct, Within

-----------------------------------------------------------------------------
(* The crawl.                                                              *)

LEMMA SizesAre ==
  ASSUME TypeOK, CrawlInv
  PROVE  /\ Cardinality(queued) \in Nat /\ Len(queue) \in Nat /\ Len(pages) \in Nat
         /\ DOMAIN queue = 1..Len(queue) /\ DOMAIN pages = 1..Len(pages)
         /\ queue \in Seq(Item) /\ pages \in Seq(Item)
         /\ Distinct(queue) /\ Within(queue, queued)
         /\ fetchAttempts \in Nat /\ failedFetches \in Nat /\ MaxQueue \in Nat
         /\ MaxPages \in Nat /\ MaxFetchAttempts \in Nat
  <1>1. queue \in Seq(Item) /\ pages \in Seq(Item)
    BY DEF TypeOK, Item
  <1>2. Distinct(queue) /\ Within(queue, queued)
    BY DEF CrawlInv, FrontierBounded, FrontierInv, Distinct, Within
  <1> QED
    BY <1>1, <1>2, LenProperties, FS_CardinalityType, CrawlAssumption
       DEF TypeOK, CrawlInv, FrontierInv

LEMMA CountsAre ==
  ASSUME TypeOK, CrawlInv
  PROVE  /\ Downloading = IF current = None THEN 0 ELSE 1
         /\ Len(pages) <= MaxPages /\ fetchAttempts <= MaxFetchAttempts
         /\ fetchAttempts + Len(queue) <= Cardinality(queued)
         /\ Len(pages) + failedFetches + Downloading <= fetchAttempts
         /\ Cardinality(queued) + Len(pages) + failedFetches + Downloading
              <= MaxQueue + fetchAttempts
  BY DEF CrawlInv, FrontierInv, FrontierBounded, Downloading

\* The limits, from the numbers alone.
LEMMA LimitsHold ==
  ASSUME IsFiniteSet(queued'), Distinct(queue'), Within(queue', queued'),
         Len(pages)' <= MaxPages, fetchAttempts' <= MaxFetchAttempts,
         fetchAttempts' + Len(queue') <= Cardinality(queued'),
         Len(pages') + failedFetches' + Downloading' <= fetchAttempts',
         Cardinality(queued') + Len(pages') + failedFetches' + Downloading'
           <= MaxQueue + fetchAttempts',
         Cardinality(queued') \in Nat, Len(pages') \in Nat, failedFetches' \in Nat,
         Downloading' \in Nat, MaxQueue \in Nat, fetchAttempts' \in Nat
  PROVE  FrontierInv' /\ FrontierBounded'
  <1>1. Cardinality(queued') + Len(pages') + failedFetches' <= MaxQueue + fetchAttempts'
    <2>1. PICK q \in Nat, p \in Nat, f \in Nat, d \in Nat, m \in Nat, a \in Nat :
            /\ q = Cardinality(queued') /\ p = Len(pages') /\ f = failedFetches'
            /\ d = Downloading' /\ m = MaxQueue /\ a = fetchAttempts'
      OBVIOUS
    <2>2. q + p + f + d <= m + a
      BY <2>1
    <2>3. q + p + f <= m + a
      BY <2>2
    <2> QED
      BY <2>1, <2>3
  <1>2. FrontierInv'
    BY DEF FrontierInv, Within
  <1>3. FrontierBounded'
    BY <1>1 DEF FrontierBounded, Distinct
  <1> QED
    BY <1>2, <1>3

LEMMA InitHolds == Init => TypeOK /\ CrawlInv
  <1> SUFFICES ASSUME Init PROVE TypeOK /\ CrawlInv
    OBVIOUS
  <1>1. start \in Urls /\ 0 \in 0..MaxDepth
    BY CrawlAssumption DEF Init
  <1>2. FetchTypeOK
    BY IdleIsRecord DEF Init, Idle, FetchTypeOK, FetchRecord
  <1>3. queue \in Seq(Item) /\ Len(queue) = 1 /\ DOMAIN queue = {1} /\ queue[1].url = start
    BY <1>1 DEF Init, Item
  <1>4. pages = <<>> /\ pages \in Seq(Item) /\ Len(pages) = 0 /\ DOMAIN pages = {}
    BY DEF Init
  <1>5. TypeOK
    BY <1>1, <1>2, <1>3, <1>4 DEF Init, TypeOK, Item
  <1>6. IsFiniteSet(queued) /\ Cardinality(queued) = 1
    BY FS_Singleton DEF Init
  <1>7. fetch.at = "idle"
    BY DEF Init, Idle
  <1>8. CrawlInv
    BY <1>3, <1>4, <1>6, <1>7, CrawlAssumption
       DEF Init, CrawlInv, DownloadInv, FrontierInv, FrontierBounded, SeenInv,
           SavedOnceAndInScope, Downloading
  <1> QED
    BY <1>5, <1>8

LEMMA StutterHolds == TypeOK /\ CrawlInv /\ UNCHANGED vars => TypeOK' /\ CrawlInv'
  BY DEF vars, crawl, TypeOK, FetchTypeOK, CrawlInv, DownloadInv, FrontierInv,
         FrontierBounded, SeenInv, SavedOnceAndInScope, Downloading

\* A step that neither saves a page nor touches the frontier.
LEMMA KeepsSaved ==
  ASSUME TypeOK, CrawlInv, UNCHANGED <<start, pages>>, seenFinal \subseteq seenFinal'
  PROVE  SeenInv' /\ SavedOnceAndInScope'
  BY DEF CrawlInv, SeenInv, SavedOnceAndInScope

LEMMA TakeNextHolds ==
  ASSUME TypeOK, CrawlInv, TakeNext
  PROVE  TypeOK' /\ CrawlInv'
  <1>1. /\ queue # <<>> /\ Len(pages) < MaxPages /\ fetchAttempts < MaxFetchAttempts
        /\ ended = "no" /\ current = None /\ fetch.at = "idle"
        /\ queue' = Tail(queue)
        /\ UNCHANGED <<start, queued, seenFinal, pages, failedFetches,
                       consecutiveFailures, originUnreachable, ended>>
    BY DEF TakeNext, Looping, More
  <1>2. /\ Head(queue) \in Item /\ queue' \in Seq(Item) /\ Len(queue') = Len(queue) - 1
        /\ Len(queue) \in Nat
    BY <1>1, SizesAre, HeadTailProperties
  <1>3. Distinct(queue') /\ Within(queue', queued)
    BY <1>1, SizesAre, TailDistinct
  <1>4. \/ /\ FetchTypeOK' /\ fetch'.at = "hop" /\ current' = Head(queue)
           /\ fetchAttempts' = fetchAttempts + 1
        \/ UNCHANGED <<fetch, current, fetchAttempts>>
    <2>1. CASE OutOfBounds(Head(queue).url, Head(queue).depth)
      BY <2>1 DEF TakeNext
    <2>2. CASE ~OutOfBounds(Head(queue).url, Head(queue).depth)
      <3>1. fetch' = Round(Head(queue).url, FALSE) /\ Head(queue).url \in Urls
        BY <1>2, <2>2 DEF TakeNext, Begin, Item
      <3> QED
        BY <2>2, <3>1, RoundTypes DEF TakeNext
    <2> QED
      BY <2>1, <2>2
  <1>5. FetchTypeOK'
    BY <1>4 DEF TypeOK, FetchTypeOK
  <1>6. TypeOK'
    BY <1>1, <1>2, <1>4, <1>5 DEF TypeOK, Item
  <1>7. None \notin Item
    BY CrawlAssumption DEF Item
  <1>8. DownloadInv'
    BY <1>1, <1>2, <1>4, <1>7 DEF DownloadInv
  <1>9. /\ Cardinality(queued) \in Nat /\ Len(pages) \in Nat /\ failedFetches \in Nat
        /\ fetchAttempts \in Nat /\ MaxQueue \in Nat /\ MaxFetchAttempts \in Nat
    BY SizesAre
  <1>10. /\ Len(pages) <= MaxPages /\ fetchAttempts <= MaxFetchAttempts
         /\ fetchAttempts + Len(queue) <= Cardinality(queued)
         /\ Len(pages) + failedFetches <= fetchAttempts
         /\ Cardinality(queued) + Len(pages) + failedFetches <= MaxQueue + fetchAttempts
    BY <1>1, <1>9, CountsAre
  <1>11. \/ fetchAttempts' = fetchAttempts + 1 /\ Downloading' = 1
         \/ fetchAttempts' = fetchAttempts /\ Downloading' = 0
    BY <1>1, <1>2, <1>4, <1>7 DEF Downloading
  <1>12. FrontierInv' /\ FrontierBounded'
    <2>1. IsFiniteSet(queued') /\ Distinct(queue') /\ Within(queue', queued')
      BY <1>1, <1>3 DEF CrawlInv, FrontierInv
    <2>2. /\ Len(pages)' <= MaxPages /\ fetchAttempts' <= MaxFetchAttempts
          /\ fetchAttempts' \in Nat /\ Downloading' \in Nat
          /\ Cardinality(queued') = Cardinality(queued) /\ Len(pages') = Len(pages)
          /\ failedFetches' = failedFetches
      BY <1>1, <1>9, <1>10, <1>11
    <2>3. /\ fetchAttempts' + Len(queue') <= Cardinality(queued')
          /\ Len(pages') + failedFetches' + Downloading' <= fetchAttempts'
      <3>1. PICK q \in Nat, n \in Nat, p \in Nat, f \in Nat, a \in Nat :
              /\ q = Cardinality(queued) /\ n = Len(queue) /\ p = Len(pages)
              /\ f = failedFetches /\ a = fetchAttempts
        BY <1>2, <1>9
      <3>2. a + n <= q /\ p + f <= a /\ Len(queue') = n - 1
        BY <1>2, <1>10, <3>1
      <3>3. CASE fetchAttempts' = fetchAttempts + 1 /\ Downloading' = 1
        <4>1. fetchAttempts' = a + 1 /\ Downloading' = 1
          BY <3>1, <3>3
        <4>2. (a + 1) + (n - 1) <= q /\ p + f + 1 <= a + 1
          BY <3>2
        <4> QED
          BY <2>2, <3>1, <3>2, <4>1, <4>2
      <3>4. CASE fetchAttempts' = fetchAttempts /\ Downloading' = 0
        <4>1. fetchAttempts' = a /\ Downloading' = 0
          BY <3>1, <3>4
        <4>2. a + (n - 1) <= q /\ p + f + 0 <= a
          BY <3>2
        <4> QED
          BY <2>2, <3>1, <3>2, <4>1, <4>2
      <3> QED
        BY <1>11, <3>3, <3>4
    <2>4. Cardinality(queued') + Len(pages') + failedFetches' + Downloading'
            <= MaxQueue + fetchAttempts'
      <3>1. PICK q \in Nat, p \in Nat, f \in Nat, m \in Nat, a \in Nat :
              /\ q = Cardinality(queued) /\ p = Len(pages) /\ f = failedFetches
              /\ m = MaxQueue /\ a = fetchAttempts
        BY <1>9
      <3>2. q + p + f <= m + a
        BY <1>10, <3>1
      <3>3. q + p + f + 1 <= m + (a + 1) /\ q + p + f + 0 <= m + a
        BY <3>2
      <3> QED
        BY <1>11, <2>2, <3>1, <3>3
    <2> QED
      BY <1>9, <2>1, <2>2, <2>3, <2>4, LimitsHold
  <1> QED
    BY <1>1, <1>6, <1>8, <1>12, KeepsSaved DEF CrawlInv

LEMMA FetchingHolds ==
  ASSUME TypeOK, CrawlInv, Fetching
  PROVE  TypeOK' /\ CrawlInv'
  <1>1. FetchTypeOK' /\ fetch.at = "hop" /\ fetch'.at # "idle" /\ UNCHANGED crawl
    BY FetchStepTypes DEF Fetching, TypeOK
  <1>2. TypeOK'
    BY <1>1 DEF crawl, TypeOK
  <1>3. DownloadInv'
    BY <1>1 DEF crawl, CrawlInv, DownloadInv
  <1>4. FrontierInv' /\ FrontierBounded'
    BY <1>1 DEF crawl, CrawlInv, FrontierInv, FrontierBounded, Downloading
  <1> QED
    BY <1>1, <1>2, <1>3, <1>4, KeepsSaved DEF crawl, CrawlInv

\* The ends of an iteration that leave the frontier and the pages as they are.
LEMMA IterationEnds ==
  ASSUME TypeOK, CrawlInv, Continue, fetch.at # "idle",
         UNCHANGED <<start, queue, queued, pages, fetchAttempts>>,
         seenFinal \subseteq seenFinal', seenFinal' \subseteq Urls,
         failedFetches' \in {failedFetches, failedFetches + 1},
         consecutiveFailures' \in Nat, originUnreachable' \in BOOLEAN,
         ended' \in {"no", "returned", "partial", "threw"}
  PROVE  TypeOK' /\ CrawlInv'
  <1>1. fetch'.at = "idle" /\ current' = None /\ current # None
    BY DEF Continue, Idle, CrawlInv, DownloadInv
  <1>2. TypeOK'
    BY <1>1, IdleTypes DEF Continue, TypeOK
  <1>3. DownloadInv'
    BY <1>1 DEF DownloadInv
  <1>4. Downloading = 1 /\ Downloading' = 0
    BY <1>1 DEF Downloading
  <1>5. /\ Cardinality(queued) \in Nat /\ Len(pages) \in Nat /\ failedFetches \in Nat
        /\ fetchAttempts \in Nat /\ MaxQueue \in Nat
        /\ Distinct(queue) /\ Within(queue, queued)
    BY SizesAre
  <1>6. /\ Len(pages) <= MaxPages /\ fetchAttempts <= MaxFetchAttempts
        /\ fetchAttempts + Len(queue) <= Cardinality(queued)
        /\ Len(pages) + failedFetches + 1 <= fetchAttempts
        /\ Cardinality(queued) + Len(pages) + failedFetches + 1 <= MaxQueue + fetchAttempts
    BY <1>4, CountsAre
  <1>7. FrontierInv' /\ FrontierBounded'
    <2>1. IsFiniteSet(queued')
      BY DEF CrawlInv, FrontierInv
    <2>2. failedFetches' \in Nat /\ failedFetches' <= failedFetches + 1
      BY <1>5
    <2>3. /\ Len(pages') + failedFetches' + Downloading' <= fetchAttempts'
          /\ Cardinality(queued') + Len(pages') + failedFetches' + Downloading'
               <= MaxQueue + fetchAttempts'
      <3>1. PICK q \in Nat, p \in Nat, f \in Nat, m \in Nat, a \in Nat, g \in Nat :
              /\ q = Cardinality(queued) /\ p = Len(pages) /\ f = failedFetches
              /\ m = MaxQueue /\ a = fetchAttempts /\ g = failedFetches'
        BY <1>5, <2>2
      <3>2. p + f + 1 <= a /\ q + p + f + 1 <= m + a /\ g <= f + 1
        BY <1>6, <2>2, <3>1
      <3>3. p + g + 0 <= a /\ q + p + g + 0 <= m + a
        BY <3>2
      <3> QED
        BY <1>4, <3>1, <3>3
    <2> QED
      BY <1>4, <1>5, <1>6, <2>1, <2>2, <2>3, LimitsHold
  <1> QED
    BY <1>2, <1>3, <1>7, KeepsSaved DEF CrawlInv

LEMMA FollowBounceHolds ==
  ASSUME TypeOK, CrawlInv, FollowBounce
  PROVE  TypeOK' /\ CrawlInv'
  <1>1. /\ fetch.at = "page" /\ fetch.cur \in Urls
        /\ seenFinal' = seenFinal \cup {fetch.cur}
        /\ consecutiveFailures' = 0 /\ Continue
        /\ UNCHANGED <<start, pages, fetchAttempts, failedFetches, originUnreachable, ended>>
    BY DEF FollowBounce, HasBody, TypeOK, FetchTypeOK
  <1>2. CASE Bounce \in queued
    BY <1>1, <1>2, IterationEnds DEF FollowBounce, TypeOK
  <1>3. CASE Bounce \notin queued
    <2> DEFINE item == [url |-> Bounce, depth |-> current.depth]
               one == <<item>>
    <2>1. current # None /\ current'= None /\ fetch'.at = "idle" /\ current \in Item
      BY <1>1 DEF CrawlInv, DownloadInv, Continue, Idle, TypeOK, Item
    <2>2. Bounce \in Urls
      BY FetchAssumption DEF FollowBounce, HasBody, Bounce, MetaRefreshStubTarget, TypeOK, FetchTypeOK
    <2>3. /\ queued' = queued \cup {Bounce}
          /\ queue' = one \o queue
      BY <1>3 DEF FollowBounce
    <2>4. item \in Item /\ item.url = Bounce
      BY <2>1, <2>2 DEF Item
    <2> HIDE DEF item
    <2>5. one \in Seq(Item) /\ Len(one) = 1 /\ DOMAIN one = {1} /\ one[1] = item
      BY <2>4
    <2> HIDE DEF one
    <2>6. /\ queue' \in Seq(Item) /\ Len(queue') = 1 + Len(queue)
      <3>1. queue \in Seq(Item) /\ Len(queue) \in Nat
        BY SizesAre
      <3>2. one \o queue \in Seq(Item) /\ Len(one \o queue) = Len(one) + Len(queue)
        <4>1. one \in Seq(Item)
          BY <2>5
        <4> QED
          BY <3>1, <4>1, ConcatProperties
      <3> QED
        BY <2>3, <2>5, <3>2
    <2>7. Distinct(queue')
      <3>1. Distinct(one) /\ \A i \in DOMAIN one, j \in DOMAIN queue : one[i].url # queue[j].url
        BY <1>3, <2>4, <2>5, SizesAre DEF Distinct, Within
      <3> QED
        BY <2>3, <2>5, <3>1, SizesAre, ConcatDistinct
    <2>8. Within(queue', queued')
      <3>1. Within(one, queued') /\ Within(queue, queued')
        BY <2>3, <2>4, <2>5, SizesAre DEF Within
      <3> QED
        BY <2>3, <2>5, <3>1, SizesAre, ConcatWithin
    <2>9. IsFiniteSet(queued') /\ Cardinality(queued') = Cardinality(queued) + 1
      BY <1>3, <2>3, FS_AddElement DEF CrawlInv, FrontierInv
    <2>10. TypeOK'
      BY <1>1, <2>1, <2>2, <2>3, <2>6, IdleTypes DEF Continue, TypeOK, Item
    <2>11. DownloadInv'
      BY <2>1 DEF DownloadInv
    <2>12. Downloading = 1 /\ Downloading' = 0
      BY <2>1 DEF Downloading
    <2>13. /\ Cardinality(queued) \in Nat /\ Len(pages) \in Nat /\ failedFetches \in Nat
           /\ fetchAttempts \in Nat /\ MaxQueue \in Nat /\ Len(queue) \in Nat
      BY SizesAre
    <2>14. /\ Len(pages) <= MaxPages /\ fetchAttempts <= MaxFetchAttempts
           /\ fetchAttempts + Len(queue) <= Cardinality(queued)
           /\ Len(pages) + failedFetches + 1 <= fetchAttempts
           /\ Cardinality(queued) + Len(pages) + failedFetches + 1 <= MaxQueue + fetchAttempts
      BY <2>12, CountsAre
    <2>15. FrontierInv' /\ FrontierBounded'
      <3>1. /\ fetchAttempts' + Len(queue') <= Cardinality(queued')
            /\ Len(pages') + failedFetches' + Downloading' <= fetchAttempts'
            /\ Cardinality(queued') \in Nat
        BY <1>1, <2>6, <2>9, <2>12, <2>13, <2>14
      <3>2. Cardinality(queued') + Len(pages') + failedFetches' + Downloading'
              <= MaxQueue + fetchAttempts'
        BY <1>1, <2>9, <2>12, <2>13, <2>14
      <3> QED
        BY <1>1, <2>7, <2>8, <2>9, <2>12, <2>13, <2>14, <3>1, <3>2, LimitsHold
    <2> QED
      BY <1>1, <2>10, <2>11, <2>15, KeepsSaved DEF CrawlInv
  <1> QED
    BY <1>2, <1>3

\* The new frontier: the new links around the old one, each URL once.
LEMMA NewQueue ==
  ASSUME TypeOK, CrawlInv, fetch.at = "page",
         NEW files, files = {i \in NewLinks : fetch.page.links[i].file # None},
         NEW first \in BestFirst(files), NEW last \in BestFirst(NewLinks \ files),
         queue' = Items(first) \o queue \o Items(last),
         queued' = queued \cup {fetch.page.links[i] : i \in NewLinks}
  PROVE  /\ queue' \in Seq(Item) /\ Len(queue') = Len(queue) + Cardinality(NewLinks)
         /\ Distinct(queue') /\ Within(queue', queued')
         /\ IsFiniteSet(queued') /\ queued' \subseteq Urls
         /\ Cardinality(NewLinks) \in Nat
         /\ Cardinality(queued') = Cardinality(queued) + Cardinality(NewLinks)
         /\ NewLinks # {} => Cardinality(queued') <= MaxQueue
  <1> DEFINE links == fetch.page.links
             new == {links[i] : i \in NewLinks}
             url == [i \in NewLinks |-> links[i]]
             rest == NewLinks \ files
             urlsOf(S) == {links[i] : i \in S}
  <1>1. /\ links \in Seq(Urls)
        /\ NewLinks \subseteq DOMAIN links
        /\ IsFiniteSet(NewLinks)
        /\ \A i \in NewLinks : links[i] \in Urls \ queued
        /\ \A i, j \in NewLinks : links[i] = links[j] => i = j
        /\ NewLinks # {} =>
             Cardinality(queued) + Cardinality(NewLinks) <= MaxQueue /\ FollowsLinks
    BY NewLinksAre DEF CrawlInv, FrontierInv
  <1>2. IsFiniteSet(new) /\ Cardinality(new) = Cardinality(NewLinks)
    <2>1. url \in Surjection(NewLinks, new)
      BY DEF Surjection
    <2>2. url \in Injection(NewLinks, new)
      BY <1>1 DEF Injection, IsInjective
    <2> HIDE DEF url, new
    <2> QED
      BY <1>1, <2>1, <2>2, FS_Surjection
  <1>3. /\ IsFiniteSet(queued') /\ queued' \subseteq Urls
        /\ Cardinality(NewLinks) \in Nat
        /\ Cardinality(queued') = Cardinality(queued) + Cardinality(NewLinks)
    <2>1. IsFiniteSet(queued) /\ Cardinality(queued) \in Nat /\ queued \subseteq Urls
      BY SizesAre DEF CrawlInv, FrontierInv, TypeOK
    <2>2. queued \cap new = {} /\ queued' = queued \cup new /\ new \subseteq Urls
      BY <1>1
    <2>3. Cardinality(NewLinks) \in Nat
      BY <1>1, FS_CardinalityType
    <2> HIDE DEF new
    <2>4. /\ IsFiniteSet(queued \cup new)
          /\ Cardinality(queued \cup new)
               = Cardinality(queued) + Cardinality(new) - Cardinality(queued \cap new)
      BY <1>2, <2>1, FS_Union
    <2>5. Cardinality(queued \cap new) = 0
      BY <2>2, FS_EmptySet
    <2> QED
      <3>1. IsFiniteSet(queued') /\ Cardinality(queued') = Cardinality(queued \cup new)
        BY <2>2, <2>4
      <3>2. queued' \subseteq Urls
        BY <2>1, <2>2
      <3>3. Cardinality(queued \cup new) = Cardinality(queued) + Cardinality(NewLinks)
        BY <1>2, <2>1, <2>3, <2>4, <2>5
      <3> QED
        BY <2>3, <3>1, <3>2, <3>3
  <1>4. CASE NewLinks = {}
    <2>1. files = {} /\ rest = {} /\ Cardinality({}) = 0 /\ IsFiniteSet({})
      BY <1>4, FS_EmptySet
    <2>2. Items(first) = <<>> /\ Items(last) = <<>>
      <3>1. ASSUME NEW s \in BestFirst({}) PROVE Items(s) = <<>>
        <4>1. s \in Seq({}) /\ Len(s) = 0
          BY <2>1, BestFirstIs
        <4>2. DOMAIN s = 1..0
          BY <4>1, LenProperties
        <4>3. Items(s) \in [1..0 -> Item]
          BY <4>2 DEF Items
        <4>4. Items(s) \in Seq(Item) /\ Len(Items(s)) = 0
          BY <4>3
        <4> QED
          BY <4>4, EmptySeq
      <3> QED
        BY <2>1, <3>1
    <2>3. queue' = queue
      BY <2>2, SizesAre, ConcatEmptySeq
    <2>4. queued' = queued
      BY <1>4
    <2>5. /\ queue \in Seq(Item) /\ Len(queue) \in Nat /\ Distinct(queue) /\ Within(queue, queued)
      BY SizesAre
    <2>6. Distinct(queue') /\ Within(queue', queued')
      BY <2>3, <2>4, <2>5
    <2> QED
      BY <1>3, <1>4, <2>1, <2>3, <2>5, <2>6
  <1>5. CASE NewLinks # {}
    <2>1. /\ current # None /\ current.depth < MaxDepth
          /\ Cardinality(queued) + Cardinality(NewLinks) <= MaxQueue
      BY <1>1, <1>5 DEF FollowsLinks, CrawlInv, DownloadInv
    <2>2. /\ files \subseteq DOMAIN links /\ rest \subseteq DOMAIN links
          /\ files \subseteq NewLinks /\ rest \subseteq NewLinks
      BY <1>1
    <2>3. /\ IsFiniteSet(files) /\ IsFiniteSet(rest)
          /\ Cardinality(files) \in Nat /\ Cardinality(rest) \in Nat
          /\ Cardinality(files) + Cardinality(rest) = Cardinality(NewLinks)
      <3>1. IsFiniteSet(files) /\ IsFiniteSet(rest)
        BY <1>1, <2>2, FS_Subset
      <3>2. Cardinality(files) \in Nat /\ Cardinality(rest) \in Nat
        BY <3>1, FS_CardinalityType
      <3>3. files \cup rest = NewLinks /\ files \cap rest = {}
        BY <2>2
      <3> HIDE DEF rest
      <3>4. Cardinality(files \cup rest) = Cardinality(files) + Cardinality(rest) - Cardinality(files \cap rest)
        BY <3>1, FS_Union
      <3> QED
        <4>1. Cardinality(files \cap rest) = 0
          BY <3>3, FS_EmptySet
        <4>2. Cardinality(files \cup rest) = Cardinality(NewLinks)
          BY <3>3
        <4>3. PICK f \in Nat, r \in Nat : f = Cardinality(files) /\ r = Cardinality(rest)
          BY <3>2
        <4>4. Cardinality(NewLinks) = f + r - 0
          BY <3>4, <4>1, <4>2, <4>3
        <4> QED
          BY <3>1, <3>2, <4>3, <4>4
    <2> DEFINE A == Items(first)
               C == Items(last)
               AQ == A \o queue
    <2>4. /\ A \in Seq(Item) /\ Len(A) = Cardinality(files)
          /\ Distinct(A) /\ Within(A, urlsOf(files))
      BY <1>1, <2>1, <2>2, <2>3, ItemsAre, ItemsDistinct
    <2>5. /\ C \in Seq(Item) /\ Len(C) = Cardinality(rest)
          /\ Distinct(C) /\ Within(C, urlsOf(rest))
      BY <1>1, <2>1, <2>2, <2>3, ItemsAre, ItemsDistinct
    <2>6. /\ urlsOf(files) \cap queued = {} /\ urlsOf(rest) \cap queued = {}
          /\ urlsOf(files) \cap urlsOf(rest) = {}
          /\ urlsOf(files) \subseteq queued' /\ urlsOf(rest) \subseteq queued'
          /\ queued \subseteq queued'
      BY <1>1, <2>2
    <2>7. queue' = AQ \o C
      OBVIOUS
    <2>8. /\ queue \in Seq(Item) /\ Len(queue) \in Nat /\ Distinct(queue) /\ Within(queue, queued)
      BY SizesAre
    <2> HIDE DEF A, C, urlsOf, rest
    <2>9. AQ \in Seq(Item) /\ Len(AQ) = Len(A) + Len(queue)
      BY <2>4, <2>8, ConcatProperties
    <2>10. Distinct(AQ) /\ Within(AQ, urlsOf(files) \cup queued)
      <3>1. \A i \in DOMAIN A, j \in DOMAIN queue : A[i].url # queue[j].url
        BY <2>4, <2>6, <2>8 DEF Within
      <3>2. Within(A, urlsOf(files) \cup queued) /\ Within(queue, urlsOf(files) \cup queued)
        BY <2>4, <2>8 DEF Within
      <3> QED
        BY <2>4, <2>8, <3>1, <3>2, ConcatDistinct, ConcatWithin
    <2> HIDE DEF AQ
    <2>11. queue' \in Seq(Item) /\ Len(queue') = Len(AQ) + Len(C)
      <3>1. AQ \o C \in Seq(Item) /\ Len(AQ \o C) = Len(AQ) + Len(C)
        BY <2>5, <2>9, ConcatProperties
      <3> QED
        BY <2>7, <3>1
    <2>12. Distinct(queue') /\ Within(queue', queued')
      <3>1. \A i \in DOMAIN AQ, j \in DOMAIN C : AQ[i].url # C[j].url
        BY <2>5, <2>6, <2>10 DEF Within
      <3>2. Within(AQ, queued') /\ Within(C, queued')
        BY <2>5, <2>6, <2>10 DEF Within
      <3> QED
        BY <2>5, <2>7, <2>9, <2>10, <3>1, <3>2, ConcatDistinct, ConcatWithin
    <2>13. Len(queue') = Len(queue) + Cardinality(NewLinks)
      <3>1. PICK n \in Nat, f \in Nat, r \in Nat :
              n = Len(queue) /\ f = Cardinality(files) /\ r = Cardinality(rest)
        BY <2>3, <2>8
      <3>2. Len(queue') = f + n + r /\ Cardinality(NewLinks) = f + r
        BY <2>3, <2>4, <2>5, <2>9, <2>11, <3>1
      <3>3. f + n + r = n + (f + r)
        OBVIOUS
      <3> QED
        BY <3>1, <3>2, <3>3
    <2>14. Cardinality(queued') <= MaxQueue
      BY <1>3, <2>1
    <2> QED
      BY <1>3, <2>11, <2>12, <2>13, <2>14
  <1> QED
    BY <1>4, <1>5

LEMMA NewPageHolds ==
  ASSUME TypeOK, CrawlInv, NewPage
  PROVE  TypeOK' /\ CrawlInv'
  <1> DEFINE page == [url |-> fetch.cur, depth |-> current.depth]
  <1>a. /\ Cardinality(queued) \in Nat /\ Len(queue) \in Nat /\ Len(pages) \in Nat
        /\ DOMAIN pages = 1..Len(pages) /\ pages \in Seq(Item)
        /\ fetchAttempts \in Nat /\ failedFetches \in Nat
        /\ MaxQueue \in Nat /\ MaxPages \in Nat /\ MaxFetchAttempts \in Nat
    BY SizesAre
  <1>1. /\ fetch.at = "page" /\ fetch.cur \in Urls /\ fetch.cur \notin seenFinal
        /\ ~OutOfBounds(fetch.cur, current.depth)
        /\ seenFinal' = seenFinal \cup {fetch.cur}
        /\ consecutiveFailures' = 0 /\ Continue
        /\ UNCHANGED <<start, fetchAttempts, failedFetches, originUnreachable, ended>>
    BY DEF NewPage, RealPage, HasBody, TypeOK, FetchTypeOK
  <1>2. /\ current # None /\ current' = None /\ fetch'.at = "idle" /\ current \in Item
        /\ Len(pages) < MaxPages
    BY <1>1 DEF CrawlInv, DownloadInv, Continue, Idle, TypeOK, Item
  <1>3. pages' \in {pages, Append(pages, page)}
    BY DEF NewPage
  <1>4. /\ queue' \in Seq(Item) /\ Len(queue') = Len(queue) + Cardinality(NewLinks)
        /\ Distinct(queue') /\ Within(queue', queued')
        /\ IsFiniteSet(queued') /\ queued' \subseteq Urls
        /\ Cardinality(NewLinks) \in Nat
        /\ Cardinality(queued') = Cardinality(queued) + Cardinality(NewLinks)
        /\ NewLinks # {} => Cardinality(queued') <= MaxQueue
    <2> DEFINE files == {i \in NewLinks : fetch.page.links[i].file # None}
    <2>1. PICK first \in BestFirst(files), last \in BestFirst(NewLinks \ files) :
            queue' = Items(first) \o queue \o Items(last)
      BY DEF NewPage
    <2>2. queued' = queued \cup {fetch.page.links[i] : i \in NewLinks}
      BY DEF NewPage
    <2>3. \E f : f = files
      OBVIOUS
    <2> QED
      BY <1>1, <2>1, <2>2, <2>3, NewQueue
  <1>5. page \in Item /\ page.url = fetch.cur /\ page.depth = current.depth
    BY <1>1, <1>2 DEF Item
  <1> HIDE DEF page
  <1>b. /\ Len(pages') \in Nat
        /\ Len(pages') = Len(pages) \/ Len(pages') = Len(pages) + 1
    BY <1>a, <1>3, <1>5, AppendProperties
  <1>6. /\ pages' \in Seq(Item)
        /\ DOMAIN pages' = 1..Len(pages')
        /\ \A i \in 1..Len(pages) : pages'[i] = pages[i]
        /\ Len(pages') = Len(pages) + 1 => pages'[Len(pages) + 1] = page
    BY <1>a, <1>3, <1>5, AppendProperties, LenProperties
  <1>7. TypeOK'
    BY <1>1, <1>2, <1>4, <1>6, IdleTypes DEF Continue, TypeOK, Item
  <1>8. DownloadInv'
    BY <1>2 DEF DownloadInv
  <1>9. FrontierInv'
    <2>1. Len(pages) + failedFetches + 1 <= fetchAttempts
      BY <1>2 DEF CrawlInv, FrontierInv, Downloading
    <2>2. \/ Cardinality(queued') <= MaxQueue
          \/ Cardinality(queued') = Cardinality(queued)
      <3>1. NewLinks = {} => Cardinality(NewLinks) = 0
        BY FS_EmptySet
      <3> QED
        BY <1>a, <1>4, <3>1
    <2>3. Cardinality(queued) + Len(pages) + failedFetches + 1 <= MaxQueue + fetchAttempts
      BY <1>2 DEF CrawlInv, FrontierInv, Downloading
    <2>4. Cardinality(queued') \in Nat
      BY <1>4, FS_CardinalityType
    <2>5. Downloading' = 0
      BY <1>2 DEF Downloading
    <2>6. \A i \in DOMAIN queue' : queue'[i].url \in queued'
      BY <1>4 DEF Within
    <2>7. PICK q \in Nat, p \in Nat, f \in Nat, m \in Nat, a \in Nat, g \in Nat, r \in Nat :
            /\ q = Cardinality(queued) /\ p = Len(pages) /\ f = failedFetches
            /\ m = MaxQueue /\ a = fetchAttempts
            /\ g = Len(pages') /\ r = Cardinality(queued')
      BY <1>a, <1>b, <2>4
    <2>8. /\ p + f + 1 <= a /\ q + p + f + 1 <= m + a
          /\ g <= p + 1
      <3>1. p + f + 1 <= a
        BY <2>1, <2>7
      <3>2. q + p + f + 1 <= m + a
        BY <2>3, <2>7
      <3>3. g <= p + 1
        BY <1>b, <2>7
      <3> QED
        BY <3>1, <3>2, <3>3
    <2>9. r + g + f + 0 <= m + a /\ g + f + 0 <= a
      <3>1. g + f + 0 <= a
        BY <2>8
      <3>2. CASE r <= m
        BY <3>1, <3>2
      <3>3. CASE r = q
        <4>1. q + g + f + 0 <= m + a
          BY <2>8
        <4> QED
          BY <3>1, <3>3, <4>1
      <3> QED
        BY <2>2, <2>7, <3>2, <3>3
    <2>10. Cardinality(queued') + Len(pages') + failedFetches' + 0 <= MaxQueue + fetchAttempts'
      BY <1>1, <2>7, <2>9
    <2>11. Len(pages') + failedFetches' + 0 <= fetchAttempts'
      BY <1>1, <2>7, <2>9
    <2> QED
      BY <1>4, <2>5, <2>6, <2>10, <2>11 DEF FrontierInv
  <1>10. FrontierBounded'
    <2>1. fetchAttempts <= MaxFetchAttempts /\ fetchAttempts + Len(queue) <= Cardinality(queued)
      BY DEF CrawlInv, FrontierBounded
    <2>2. Cardinality(queued') \in Nat
      BY <1>4, FS_CardinalityType
    <2>3. Cardinality(queued') + Len(pages') + failedFetches' <= MaxQueue + fetchAttempts'
      BY <1>a, <1>b, <1>1, <1>2, <1>9, <2>2 DEF FrontierInv, Downloading
    <2>4. fetchAttempts' + Len(queue') <= Cardinality(queued')
      BY <1>a, <1>1, <1>4, <2>1
    <2>5. Len(pages') <= MaxPages
      BY <1>a, <1>b, <1>2
    <2>6. \A i, j \in DOMAIN queue' : queue'[i].url = queue'[j].url => i = j
      BY <1>4 DEF Distinct
    <2> QED
      BY <1>1, <2>1, <2>3, <2>4, <2>5, <2>6 DEF FrontierBounded
  <1>11. SeenInv' /\ SavedOnceAndInScope'
    <2>1. \A i \in 1..Len(pages) : pages[i].url \in seenFinal
      BY <1>a DEF CrawlInv, SeenInv
    <2>2. \A i \in DOMAIN pages' : i \in 1..Len(pages) \/ (i = Len(pages) + 1 /\ pages'[i] = page)
      <3>1. CASE Len(pages') = Len(pages)
        BY <1>6, <3>1
      <3>2. CASE Len(pages') = Len(pages) + 1
        <4>1. \A i \in 1..(Len(pages) + 1) : i \in 1..Len(pages) \/ i = Len(pages) + 1
          BY <1>a
        <4> QED
          BY <1>6, <3>2, <4>1
      <3> QED
        BY <1>b, <3>1, <3>2
    <2>3. SeenInv'
      BY <1>1, <1>5, <1>6, <2>1, <2>2 DEF SeenInv
    <2>4. \A i, j \in DOMAIN pages' : pages'[i].url = pages'[j].url => i = j
      <3>1. \A i \in 1..Len(pages) : pages'[i] = pages[i] /\ pages'[i].url # page.url
        BY <1>1, <1>5, <1>6, <2>1
      <3>2. \A i, j \in 1..Len(pages) : pages[i].url = pages[j].url => i = j
        BY <1>a DEF CrawlInv, SavedOnceAndInScope
      <3> SUFFICES ASSUME NEW i \in DOMAIN pages', NEW j \in DOMAIN pages',
                          pages'[i].url = pages'[j].url
                   PROVE  i = j
        OBVIOUS
      <3>3. i \in 1..Len(pages) \/ (i = Len(pages) + 1 /\ pages'[i] = page)
        BY <2>2
      <3>4. j \in 1..Len(pages) \/ (j = Len(pages) + 1 /\ pages'[j] = page)
        BY <2>2
      <3> QED
        BY <3>1, <3>2, <3>3, <3>4
    <2>5. page.depth > 0 => ~UrlIsBeforeMinYear(page.url) /\ GobMxUrlInSourceScope(start, page.url)
      BY <1>1, <1>5 DEF OutOfBounds
    <2>6. \A i \in DOMAIN pages' : pages'[i].depth > 0 =>
            ~UrlIsBeforeMinYear(pages'[i].url) /\ GobMxUrlInSourceScope(start, pages'[i].url)
      BY <1>a, <1>6, <2>2, <2>5 DEF CrawlInv, SavedOnceAndInScope
    <2> QED
      BY <1>1, <2>3, <2>4, <2>6 DEF SavedOnceAndInScope
  <1> QED
    BY <1>7, <1>8, <1>9, <1>10, <1>11 DEF CrawlInv

LEMMA NextHolds == TypeOK /\ CrawlInv /\ [Next]_vars => TypeOK' /\ CrawlInv'
  <1> SUFFICES ASSUME TypeOK, CrawlInv, [Next]_vars PROVE TypeOK' /\ CrawlInv'
    OBVIOUS
  <1> USE DEF TypeOK
  <1>1. CASE TakeNext
    BY <1>1, TakeNextHolds
  <1>2. CASE Fetching
    BY <1>2, FetchingHolds
  <1>3. CASE FetchThrows
    BY <1>3, IterationEnds DEF FetchThrows
  <1>4. CASE FetchFails
    BY <1>4, IterationEnds, CrawlAssumption DEF FetchFails
  <1>5. CASE EmptyPage
    BY <1>5, IterationEnds DEF EmptyPage
  <1>6. CASE PageOutOfBounds
    BY <1>6, IterationEnds DEF PageOutOfBounds, HasBody
  <1>7. CASE FollowBounce
    BY <1>7, FollowBounceHolds
  <1>8. CASE PageAgain
    BY <1>8, IterationEnds DEF PageAgain, RealPage, HasBody
  <1>9. CASE NewPage
    BY <1>9, NewPageHolds
  <1>10. CASE Finish
    <2>1. /\ fetch.at = "idle" /\ current = None
          /\ UNCHANGED <<fetch, start, queue, queued, current, seenFinal, pages,
                 fetchAttempts, failedFetches, consecutiveFailures, originUnreachable>>
          /\ ended' \in {"threw", "partial", "returned"}
      BY <1>10 DEF Finish, Looping
    <2>2. TypeOK'
      BY <2>1 DEF FetchTypeOK
    <2>3. DownloadInv' /\ FrontierInv' /\ FrontierBounded'
      BY <2>1 DEF CrawlInv, DownloadInv, FrontierInv, FrontierBounded, Downloading
    <2> QED
      BY <2>1, <2>2, <2>3, KeepsSaved DEF CrawlInv
  <1>11. CASE UNCHANGED vars
    BY <1>11, StutterHolds
  <1> QED
    BY <1>1, <1>2, <1>3, <1>4, <1>5, <1>6, <1>7, <1>8, <1>9, <1>10, <1>11 DEF Next

(* Types and the inductive invariant: the limits, the frontier, the scope of *)
(* the download in progress and of what is saved, whatever the servers      *)
(* answer.                                                                 *)
THEOREM CrawlSafety == Spec => [](TypeOK /\ CrawlInv)
  BY InitHolds, NextHolds, PTL DEF Spec

(* Every state of the crawl and of its download has its type.              *)
THEOREM CrawlTypes == Spec => []TypeOK
  BY CrawlSafety, PTL

(* The limits of the crawl hold for every web and every answer: documents, *)
(* requests, the frontier, each URL once (site-crawl.ts:97-121).           *)
THEOREM FrontierSafety == Spec => []FrontierBounded
  <1>1. TypeOK /\ CrawlInv => FrontierBounded
    BY DEF CrawlInv
  <1> QED
    BY <1>1, CrawlSafety, PTL

(* No document is saved twice or out of the crawl's scope, through whatever *)
(* redirects and refreshes (site-crawl.ts:126-131, :163-169, :191-194).    *)
THEOREM SavedSafety == Spec => []SavedOnceAndInScope
  <1>1. TypeOK /\ CrawlInv => SavedOnceAndInScope
    BY DEF CrawlInv
  <1> QED
    BY <1>1, CrawlSafety, PTL

-----------------------------------------------------------------------------
(* crawlSite implements CrawlOutcome.                                      *)

documents == [i \in DOMAIN pages |-> pages[i].url]

LEMMA DocumentsAre ==
  ASSUME pages \in Seq(Item)
  PROVE  /\ documents \in Seq(Urls) /\ Len(documents) = Len(pages)
         /\ DOMAIN documents = 1..Len(pages) /\ Len(pages) \in Nat
         /\ \A i \in 1..Len(pages) : documents[i] = pages[i].url
         /\ documents = <<>> <=> pages = <<>>
  <1>1. DOMAIN pages = 1..Len(pages) /\ Len(pages) \in Nat /\ \A i \in 1..Len(pages) : pages[i] \in Item
    BY LenProperties, ElementOfSeq
  <1>2. documents \in [1..Len(pages) -> Urls]
    BY <1>1 DEF documents, Item
  <1>3. documents \in Seq(Urls) /\ Len(documents) = Len(pages)
    BY <1>1, <1>2
  <1>4. documents = <<>> <=> pages = <<>>
    BY <1>3, EmptySeq
  <1> QED
    BY <1>1, <1>3, <1>4 DEF documents

\* A page that is saved is one document more.
LEMMA SavesOne ==
  ASSUME pages \in Seq(Item), NEW page \in Item, pages' = Append(pages, page)
  PROVE  documents' = Append(documents, page.url)
  <1> DEFINE after == Append(documents, page.url)
  <1>1. page.url \in Urls
    BY DEF Item
  <1>2. /\ after \in Seq(Urls) /\ Len(after) = Len(pages) + 1 /\ Len(pages) \in Nat
        /\ \A i \in 1..Len(pages) : after[i] = pages[i].url
        /\ after[Len(pages) + 1] = page.url
    BY <1>1, DocumentsAre, AppendProperties
  <1>3. /\ pages' \in Seq(Item) /\ Len(pages') = Len(pages) + 1
        /\ \A i \in 1..Len(pages) : pages'[i] = pages[i]
        /\ pages'[Len(pages) + 1] = page
    BY AppendProperties
  <1>4. DOMAIN pages' = 1..(Len(pages) + 1) /\ DOMAIN after = 1..(Len(pages) + 1)
    BY <1>2, <1>3, LenProperties
  <1> HIDE DEF after
  <1>5. \A i \in 1..(Len(pages) + 1) : after[i] = pages'[i].url
    <2>1. \A i \in 1..(Len(pages) + 1) : i \in 1..Len(pages) \/ i = Len(pages) + 1
      BY <1>2
    <2> QED
      BY <1>2, <1>3, <2>1
  <1>6. documents' = [i \in 1..(Len(pages) + 1) |-> pages'[i].url]
    BY <1>4 DEF documents
  <1>7. after = [i \in DOMAIN after |-> after[i]]
    BY <1>2, LenProperties
  <1>8. after = documents'
    BY <1>4, <1>5, <1>6, <1>7
  <1> QED
    BY <1>8 DEF after

LEMMA OutcomeStarts == Init => Outcome!CInit
  BY DEF Init, Outcome!CInit

LEMMA OutcomeSteps ==
  TypeOK /\ CrawlInv /\ [Next]_vars => [Outcome!CNext]_(Outcome!cvars)
  <1> SUFFICES ASSUME TypeOK, CrawlInv, [Next]_vars
               PROVE  Outcome!CNext \/ UNCHANGED <<documents, ended>>
    BY DEF documents, Outcome!cvars
  <1>1. pages \in Seq(Item)
    BY SizesAre
  <1>2. ASSUME UNCHANGED <<pages, ended>> PROVE UNCHANGED <<documents, ended>>
    BY <1>2 DEF documents
  <1>3. ASSUME pages = <<>>, ended = "no", ended' = "threw", UNCHANGED pages
        PROVE  Outcome!CNext
    <2>1. documents = <<>> /\ UNCHANGED documents
      BY <1>1, <1>3, DocumentsAre DEF documents
    <2> QED
      BY <1>3, <2>1 DEF documents, Outcome!CNext, Outcome!Throw
  <1>4. fetch.at # "idle" => ended = "no"
    BY DEF CrawlInv, DownloadInv
  <1>5. CASE TakeNext \/ Fetching \/ FetchFails \/ PageOutOfBounds \/ FollowBounce
             \/ PageAgain \/ UNCHANGED vars
    BY <1>2, <1>5 DEF TakeNext, Fetching, FetchFails, PageOutOfBounds, FollowBounce,
                      PageAgain, vars, crawl
  <1>6. CASE FetchThrows
    BY <1>3, <1>4, <1>6 DEF FetchThrows
  <1>7. CASE EmptyPage
    BY <1>2, <1>3, <1>4, <1>7 DEF EmptyPage
  <1>8. CASE Finish
    <2>1. CASE pages = <<>>
      BY <1>3, <1>8, <2>1 DEF Finish, Looping
    <2>2. CASE pages # <<>>
      <3>1. documents # <<>> /\ UNCHANGED documents
        BY <1>1, <1>8, <2>2, DocumentsAre DEF documents, Finish
      <3>2. ended = "no" /\ ended' \in {"partial", "returned"}
        BY <1>8, <2>2 DEF Finish, Looping
      <3> QED
        BY <3>1, <3>2 DEF documents, Outcome!CNext, Outcome!Return
    <2> QED
      BY <2>1, <2>2
  <1>9. CASE NewPage
    <2> DEFINE page == [url |-> fetch.cur, depth |-> current.depth]
    <2>1. /\ fetch.at = "page" /\ fetch.cur \in Urls /\ fetch.cur \notin seenFinal
          /\ ended = "no" /\ UNCHANGED ended
          /\ current # None /\ Len(pages) < MaxPages
      BY <1>4, <1>9 DEF NewPage, RealPage, HasBody, TypeOK, FetchTypeOK, CrawlInv, DownloadInv
    <2>2. pages' \in {pages, Append(pages, page)}
      BY <1>9 DEF NewPage
    <2>3. page \in Item /\ page.url = fetch.cur
      BY <2>1 DEF TypeOK, Item
    <2> HIDE DEF page
    <2>4. CASE pages' = pages
      BY <1>2, <2>1, <2>4
    <2>5. CASE pages' = Append(pages, page)
      <3>1. documents' = Append(documents, fetch.cur)
        BY <1>1, <2>3, <2>5, SavesOne
      <3>2. Len(documents) < MaxPages
        BY <1>1, <2>1, DocumentsAre
      <3>3. \A i \in DOMAIN documents : documents[i] # fetch.cur
        BY <1>1, <2>1, DocumentsAre DEF CrawlInv, SeenInv
      <3> QED
        BY <2>1, <3>1, <3>2, <3>3 DEF documents, Outcome!CNext, Outcome!Save
    <2> QED
      BY <2>2, <2>4, <2>5
  <1> QED
    BY <1>5, <1>6, <1>7, <1>8, <1>9 DEF Next

(* The crawl of a site is a crawl as the crawl job expects it: documents    *)
(* arrive one at a time and never twice, never more than the limit, and the *)
(* error of the origin is thrown only while nothing is saved               *)
(* (site-crawl.ts:140-151, :256-264).                                      *)
THEOREM CrawlImplementsOutcome == Spec => ImplementsOutcome
  <1>1. Spec => []([Outcome!CNext]_(Outcome!cvars))
    BY CrawlSafety, OutcomeSteps, PTL DEF Spec
  <1> QED
    BY <1>1, OutcomeStarts, PTL DEF Spec, ImplementsOutcome, Outcome!CSpec
=============================================================================
