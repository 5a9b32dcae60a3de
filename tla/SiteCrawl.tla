----------------------------- MODULE SiteCrawl -----------------------------
(***************************************************************************)
(* The crawl of one site (src/src/jobs/connectors/site-crawl.ts with       *)
(* discover-links.ts): a frontier of URLs with four limits at once, the    *)
(* pages saved, and the circuit that gives the origin up.  Each page is    *)
(* downloaded by FetchPage, one request at a time.                         *)
(***************************************************************************)
EXTENDS FetchPage

CONSTANTS
  Starts,           (* the URL a source may have *)
  MaxPages,         (* documents saved (CRAWL_MAX_PAGES) *)
  MaxDepth,         (* CRAWL_MAX_DEPTH *)
  MaxFetchAttempts, (* maxPages * 5 in the code *)
  MaxQueue,         (* maxPages * 8 in the code *)
  CircuitFailures,  (* 6 in the code *)
  MinYear           (* CRAWL_MIN_YEAR *)

ASSUME CrawlAssumption ==
  /\ Starts \subseteq Urls
  /\ {MaxPages, MaxFetchAttempts, MaxQueue, CircuitFailures} \subseteq Nat \ {0}
  /\ {MaxDepth, MinYear} \subseteq Nat
  /\ \A u \in Urls : u.hints \in Nat
  /\ None \notin [url : Urls, depth : 0..MaxDepth]

VARIABLES
  start,    (* the source's URL *)
  queue,    (* <<[url, depth]>>, the frontier *)
  queued,   (* every URL that was ever put in the frontier *)
  current,  (* the item being downloaded, or None *)
  seenFinal, pages, fetchAttempts, failedFetches, consecutiveFailures,
  originUnreachable,
  ended     (* "no", or how crawlSite returned *)

crawl == <<start, queue, queued, current, seenFinal, pages, fetchAttempts,
           failedFetches, consecutiveFailures, originUnreachable, ended>>
vars  == <<fetch, crawl>>

-----------------------------------------------------------------------------
(* Which URLs belong to the crawl.                                         *)
SameSite(a, b) == a.host = b.host

SameCongressFamily(a, b) == SameSite(a, b) \/ (a.site # None /\ a.site = b.site)

GobMxSectionPrefix(u) ==
  IF u.host = "gob.mx" /\ u.path # <<>> THEN u.path[1] ELSE None

GobMxUrlInSourceScope(source, u) ==
  (GobMxSectionPrefix(source) # None /\ u.host = "gob.mx") =>
    \/ u.path # <<>> /\ u.path[1] = GobMxSectionPrefix(source)
    \/ Len(u.path) > 2 /\ u.path[1] = "cms" /\ u.path[2] = "uploads"

(* An old gaceta: its URL has years in it, none of them recent.            *)
UrlIsBeforeMinYear(u) == u.years # {} /\ \A y \in u.years : y < MinYear

(* The filters every link and every refresh goes through.                  *)
Followable(u) ==
  GobMxUrlInSourceScope(start, u) /\ ~u.skip /\ ~UrlIsBeforeMinYear(u)

Points(cond, n) == IF cond THEN n ELSE 0

LinkScore(u) ==
  Points(u.legislative, 10)
    + Points(u.file = "pdf", IF u.legislative THEN 8 ELSE 1)
    + Points(u.detail, 12)
    + 3 * u.hints
    + Points(\E y \in u.years : y >= MinYear, 20)

(* The links of a page that may be followed, by their places in it.  A URL *)
(* counts once, where it is first.                                         *)
DiscoverLinks(answer, base) ==
  {i \in DOMAIN answer.links :
     /\ SameSite(base, answer.links[i]) /\ Followable(answer.links[i])
     /\ \A j \in DOMAIN answer.links : answer.links[j] = answer.links[i] => i <= j}

(* By score, and then as in the page.                                      *)
Before(links, i, j) ==
  \/ LinkScore(links[i]) > LinkScore(links[j])
  \/ LinkScore(links[i]) = LinkScore(links[j]) /\ i < j

MetaRefreshStubTarget(answer, base) ==
  IF /\ answer.refresh # None
     /\ SameCongressFamily(base, answer.refresh) /\ Followable(answer.refresh)
     /\ answer.refresh # base
     /\ Len(answer.links) < 3
  THEN answer.refresh
  ELSE None

(* A file keeps its extension whatever the server declares.                *)
Sniffed(answer, u) ==
  IF answer.ext = "html" /\ u.file # None THEN u.file ELSE answer.ext

ShouldSaveCrawledPage(u, depth, binary) == depth = 0 \/ binary \/ LinkScore(u) > 0

(* Mutant of OutOfBounds: a redirect may leave the section.                *)
MutOutOfBoundsByYear(u, depth) == depth > 0 /\ UrlIsBeforeMinYear(u)

OutOfBounds(u, depth) ==
  depth > 0 /\ (UrlIsBeforeMinYear(u) \/ ~GobMxUrlInSourceScope(start, u))

-----------------------------------------------------------------------------
Init ==
  /\ fetch = Idle
  /\ start \in Starts
  /\ queue = <<[url |-> start, depth |-> 0]>> /\ queued = {start}
  /\ current = None
  /\ seenFinal = {} /\ pages = <<>>
  /\ fetchAttempts = 0 /\ failedFetches = 0 /\ consecutiveFailures = 0
  /\ originUnreachable = FALSE
  /\ ended = "no"

More ==
  /\ queue # <<>>
  /\ Len(pages) < MaxPages
  /\ fetchAttempts < MaxFetchAttempts
  /\ ~originUnreachable

Looping == ended = "no" /\ current = None /\ fetch.at = "idle"

(* The head of the frontier; an old file or another section is dropped.    *)
TakeNext ==
  /\ Looping /\ More
  /\ queue' = Tail(queue)
  /\ IF OutOfBounds(Head(queue).url, Head(queue).depth)
     THEN UNCHANGED <<fetch, current, fetchAttempts>>
     ELSE /\ Begin(Head(queue).url)
          /\ current' = Head(queue)
          /\ fetchAttempts' = fetchAttempts + 1
  /\ UNCHANGED <<start, queued, seenFinal, pages, failedFetches,
                 consecutiveFailures, originUnreachable, ended>>

Fetching == FetchStep /\ UNCHANGED crawl

(* The iteration is over: the download's result has been used.             *)
Continue == fetch' = Idle /\ current' = None

(* Mutant of FetchThrows: the error of a later page ends the crawl, too.   *)
MutThrowsAnyway ==
  /\ fetch.at = "failed"
  /\ ended' = "threw"
  /\ Continue
  /\ UNCHANGED <<start, queue, queued, seenFinal, pages, fetchAttempts,
                 failedFetches, consecutiveFailures, originUnreachable>>

(* With nothing saved the error of the download is the crawl's.            *)
FetchThrows ==
  /\ fetch.at = "failed" /\ pages = <<>>
  /\ ended' = "threw"
  /\ Continue
  /\ UNCHANGED <<start, queue, queued, seenFinal, pages, fetchAttempts,
                 failedFetches, consecutiveFailures, originUnreachable>>

FetchFails ==
  /\ fetch.at = "failed" /\ pages # <<>>
  /\ failedFetches' = failedFetches + 1
  /\ consecutiveFailures' = consecutiveFailures + 1
  /\ originUnreachable' = (consecutiveFailures + 1 >= CircuitFailures)
  /\ Continue
  /\ UNCHANGED <<start, queue, queued, seenFinal, pages, fetchAttempts, ended>>

(* Downloaded, but the body is empty.                                      *)
EmptyPage ==
  /\ fetch.at = "page" /\ fetch.page.ext = "empty"
  /\ consecutiveFailures' = 0
  /\ ended' = IF pages = <<>> THEN "threw" ELSE "no"
  /\ Continue
  /\ UNCHANGED <<start, queue, queued, seenFinal, pages, fetchAttempts,
                 failedFetches, originUnreachable>>

Bounce ==
  IF Sniffed(fetch.page, fetch.cur) = "html"
  THEN MetaRefreshStubTarget(fetch.page, fetch.cur)
  ELSE None

HasBody == fetch.at = "page" /\ fetch.page.ext # "empty"

(* The redirects ended in an old file or in another section.               *)
PageOutOfBounds ==
  /\ HasBody /\ OutOfBounds(fetch.cur, current.depth)
  /\ consecutiveFailures' = 0
  /\ Continue
  /\ UNCHANGED <<start, queue, queued, seenFinal, pages, fetchAttempts,
                 failedFetches, originUnreachable, ended>>

(* A springboard: its target takes its place, at its depth, before the rest. *)
FollowBounce ==
  /\ HasBody /\ ~OutOfBounds(fetch.cur, current.depth) /\ Bounce # None
  /\ seenFinal' = seenFinal \cup {fetch.cur}
  /\ IF Bounce \in queued
     THEN UNCHANGED <<queue, queued>>
     ELSE /\ queued' = queued \cup {Bounce}
          /\ queue' = <<[url |-> Bounce, depth |-> current.depth]>> \o queue
  /\ consecutiveFailures' = 0
  /\ Continue
  /\ UNCHANGED <<start, pages, fetchAttempts, failedFetches, originUnreachable, ended>>

RealPage ==
  HasBody /\ ~OutOfBounds(fetch.cur, current.depth) /\ Bounce = None

PageAgain ==
  /\ RealPage /\ fetch.cur \in seenFinal
  /\ consecutiveFailures' = 0
  /\ Continue
  /\ UNCHANGED <<start, queue, queued, seenFinal, pages, fetchAttempts,
                 failedFetches, originUnreachable, ended>>

(* Mutant of FollowsLinks: one level too deep.                             *)
MutFollowsAtTheLimit ==
  Sniffed(fetch.page, fetch.cur) = "html" /\ current.depth <= MaxDepth

FollowsLinks ==
  Sniffed(fetch.page, fetch.cur) = "html" /\ current.depth < MaxDepth

(* Mutant of Room: the frontier is not cut.                                *)
MutRoom == Cardinality(Urls)

Room == MaxQueue - Cardinality(queued)

(* The links of this page that enter the frontier: the best of the new ones. *)
NewLinks ==
  LET links == fetch.page.links
      fresh == {i \in DiscoverLinks(fetch.page, fetch.cur) : links[i] \notin queued}
  IN  IF ~FollowsLinks THEN {}
      ELSE {i \in fresh : Cardinality({j \in fresh : Before(links, j, i)}) < Room}

(* A set of links in the order in which they enter it: there is one.       *)
BestFirst(S) ==
  {s \in [1..Cardinality(S) -> S] :
     \A i, j \in DOMAIN s : i < j => Before(fetch.page.links, s[i], s[j])}

Items(order) ==
  [i \in DOMAIN order |->
     [url |-> fetch.page.links[order[i]], depth |-> current.depth + 1]]

NewPage ==
  /\ RealPage /\ fetch.cur \notin seenFinal
  /\ seenFinal' = seenFinal \cup {fetch.cur}
  /\ LET binary == Sniffed(fetch.page, fetch.cur) \in {"pdf", "word"}
                     \/ fetch.cur.file # None
     IN  pages' = IF ShouldSaveCrawledPage(fetch.cur, current.depth, binary)
                  THEN Append(pages, [url |-> fetch.cur, depth |-> current.depth])
                  ELSE pages
  /\ LET files == {i \in NewLinks : fetch.page.links[i].file # None}
     IN  \E first \in BestFirst(files), last \in BestFirst(NewLinks \ files) :
           queue' = Items(first) \o queue \o Items(last)
  /\ queued' = queued \cup {fetch.page.links[i] : i \in NewLinks}
  /\ consecutiveFailures' = 0
  /\ Continue
  /\ UNCHANGED <<start, fetchAttempts, failedFetches, originUnreachable, ended>>

(* The loop is left: nothing saved is an error of the origin.              *)
Finish ==
  /\ Looping /\ ~More
  /\ ended' = IF pages = <<>> THEN "threw"
              ELSE IF originUnreachable THEN "partial" ELSE "returned"
  /\ UNCHANGED <<fetch, start, queue, queued, current, seenFinal, pages,
                 fetchAttempts, failedFetches, consecutiveFailures, originUnreachable>>

Next ==
  \/ TakeNext \/ Fetching
  \/ FetchThrows \/ FetchFails \/ EmptyPage
  \/ PageOutOfBounds \/ FollowBounce \/ PageAgain \/ NewPage
  \/ Finish

Spec == Init /\ [][Next]_vars

(* Every request is answered or times out, and the loop never waits for    *)
(* anything else.                                                          *)
FairSpec == Spec /\ WF_vars(Next)

-----------------------------------------------------------------------------
(* Types of the crawl's state and of its download.                         *)
TypeOK ==
  /\ FetchTypeOK
  /\ start \in Starts
  /\ queue \in Seq([url : Urls, depth : 0..MaxDepth])
  /\ queued \subseteq Urls
  /\ current \in [url : Urls, depth : 0..MaxDepth] \cup {None}
  /\ seenFinal \subseteq Urls
  /\ pages \in Seq([url : Urls, depth : 0..MaxDepth])
  /\ fetchAttempts \in Nat /\ failedFetches \in Nat /\ consecutiveFailures \in Nat
  /\ originUnreachable \in BOOLEAN
  /\ ended \in {"no", "returned", "partial", "threw"}

(* The limits of the crawl hold together, with links and refreshes adding  *)
(* to the frontier from both ends (site-crawl.ts:97-110, :116-121): every  *)
(* URL enters the frontier once and is downloaded at most once, and only a *)
(* springboard, whose download saved nothing, takes it past its limit.     *)
FrontierBounded ==
  /\ Len(pages) <= MaxPages
  /\ fetchAttempts <= MaxFetchAttempts
  /\ fetchAttempts + Len(queue) <= Cardinality(queued)
  /\ Cardinality(queued) + Len(pages) + failedFetches <= MaxQueue + fetchAttempts
  /\ \A i, j \in DOMAIN queue : queue[i].url = queue[j].url => i = j

(* No document is saved twice, by whatever redirects two links reach it    *)
(* (site-crawl.ts:191-194), and none below the front page that is older    *)
(* than the minimum year or of another section of gob.mx, the target of a  *)
(* redirect included (:126-131, :163-169).                                 *)
SavedOnceAndInScope ==
  /\ \A i, j \in DOMAIN pages : pages[i].url = pages[j].url => i = j
  /\ \A i \in DOMAIN pages :
       pages[i].depth > 0 =>
         ~UrlIsBeforeMinYear(pages[i].url) /\ GobMxUrlInSourceScope(start, pages[i].url)

(* What the proofs need besides: a download is under way from TakeNext to   *)
(* the use of its result, and it has paid for the page, the failure or the *)
(* springboard it may become.                                              *)
Downloading == IF current = None THEN 0 ELSE 1

DownloadInv ==
  /\ current = None <=> fetch.at = "idle"
  /\ current # None => ended = "no" /\ Len(pages) < MaxPages

FrontierInv ==
  /\ IsFiniteSet(queued)
  /\ \A i \in DOMAIN queue : queue[i].url \in queued
  /\ Len(pages) + failedFetches + Downloading <= fetchAttempts
  /\ Cardinality(queued) + Len(pages) + failedFetches + Downloading
       <= MaxQueue + fetchAttempts

(* A page that is saved has been seen.                                     *)
SeenInv == \A i \in DOMAIN pages : pages[i].url \in seenFinal

CrawlInv == DownloadInv /\ FrontierInv /\ FrontierBounded /\ SeenInv /\ SavedOnceAndInScope

(* crawlSite keeps its promise to the crawl job (site-crawl.ts:140-151,    *)
(* :256-264).                                                              *)
Outcome == INSTANCE CrawlOutcome WITH
  Documents <- Urls,
  saved     <- [i \in DOMAIN pages |-> pages[i].url]

ImplementsOutcome == Outcome!CSpec

(* The crawl ends, whatever the site answers: redirect loops, refreshes    *)
(* that point at each other, errors, menus that link everything.           *)
CrawlEnds == <>(ended # "no")
=============================================================================
