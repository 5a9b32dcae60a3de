----------------------------- MODULE FetchPage -----------------------------
(***************************************************************************)
(* One download of the crawler (src/src/jobs/connectors/fetch-page.ts):    *)
(* redirects are followed by hand with a cookie jar, a TLS failure is      *)
(* retried once without certificate checks, and whatever goes wrong below  *)
(* the HTTP status becomes one error of the origin.                        *)
(*                                                                         *)
(* A URL is a record (host, registrable site, path, what its text has in   *)
(* it); what the server says to a request is any element of Web[url].      *)
(***************************************************************************)
EXTENDS Integers, Sequences, FiniteSets

CONSTANTS
  Urls,          (* the URLs of the instance, records of UrlShape *)
  Cookies,       (* values a server may set *)
  Answers,       (* what a server can say to one request *)
  Web,           (* Web[u]: the answers of u *)
  MaxRedirects,  (* redirects followed in one round *)
  None

ASSUME FetchAssumption ==
  /\ None \notin Urls \cup Cookies
  /\ MaxRedirects \in Nat
  /\ Web \in [Urls -> SUBSET Answers]
  /\ \A a \in Answers :
       /\ a.kind = "redirect" => a.to \in Urls /\ a.cookie \in Cookies \cup {None}
       /\ a.kind = "ok" => a.links \in Seq(Urls) /\ a.refresh \in Urls \cup {None}

VARIABLE fetch

(* Why a request ends: the kinds of an answer.                             *)
AnswerKinds == {"redirect", "ok", "auth", "limit", "client", "server", "odd",
                "tls", "network", "large"}

Codes == {"NETWORK", "PARSE", "AUTH", "RATE_LIMIT", "UNKNOWN"}

Hosts == {u.host : u \in Urls}

Idle == [at |-> "idle", url |-> None, cur |-> None, lax |-> FALSE, hops |-> 0,
         seen |-> {}, jar |-> [h \in Hosts |-> None], page |-> None, code |-> None]

(* A download: at a hop of its redirects, over with a page or with an error. *)
FetchTypeOK ==
  /\ fetch \in [at: {"idle", "hop", "page", "failed"},
                url: Urls \cup {None}, cur: Urls \cup {None}, lax: BOOLEAN,
                hops: 0..(MaxRedirects + 1),
                seen: SUBSET (Urls \X (Cookies \cup {None})),
                jar: [Hosts -> Cookies \cup {None}],
                page: Answers \cup {None}, code: Codes \cup {None}]
  /\ fetch.at = "hop" => fetch.url \in Urls
  /\ fetch.at \in {"hop", "page"} => fetch.cur \in Urls
  /\ fetch.at = "page" => fetch.page \in Answers /\ fetch.page.kind = "ok"

(* A round of requests starts with an empty jar.                           *)
Round(u, lax) ==
  [Idle EXCEPT !.at = "hop", !.url = u, !.cur = u, !.lax = lax]

(* The cookies of the jar that go to this URL.                             *)
CookieHeader(jar, u) == jar[u.host]

(* The answer's cookie takes the place of the one the host had.            *)
IngestSetCookies(jar, u, cookie) ==
  IF cookie = None THEN jar ELSE [jar EXCEPT ![u.host] = cookie]

HopKey == <<fetch.cur, CookieHeader(fetch.jar, fetch.cur)>>

(* Mutant of ShouldRetryWithLaxTls: a failure of the second round counts, too. *)
MutLaxForEver(kind) == kind = "tls"

(* Only a certificate error is tried again, and only once.                 *)
ShouldRetryWithLaxTls(kind) == kind = "tls" /\ ~fetch.lax

ClassifyHttp(kind) ==
  CASE kind = "limit"  -> "RATE_LIMIT"
    [] kind = "auth"   -> "AUTH"
    [] kind = "server" -> "NETWORK"
    [] kind = "client" -> "PARSE"
    [] OTHER           -> "UNKNOWN"

Fail(code) == fetch' = [Idle EXCEPT !.at = "failed", !.url = fetch.url, !.code = code]

-----------------------------------------------------------------------------
Begin(u) == fetch.at = "idle" /\ fetch' = Round(u, FALSE)

(* The same URL with the same cookies, or one redirect too many.           *)
RedirectLoop ==
  /\ fetch.at = "hop"
  /\ HopKey \in fetch.seen \/ fetch.hops > MaxRedirects
  /\ Fail("NETWORK")

Asked == fetch.at = "hop" /\ HopKey \notin fetch.seen /\ fetch.hops <= MaxRedirects

(* The answer's cookie is kept before its redirect is followed.            *)
FollowRedirect(a) ==
  /\ Asked /\ a.kind = "redirect"
  /\ fetch' = [fetch EXCEPT
       !.seen = fetch.seen \cup {HopKey},
       !.jar  = IngestSetCookies(fetch.jar, fetch.cur, a.cookie),
       !.cur  = a.to,
       !.hops = fetch.hops + 1]

(* No response: a certificate, the network, a body over the limit.         *)
RequestFails(a) ==
  /\ Asked /\ a.kind \in {"tls", "network", "large"}
  /\ IF ShouldRetryWithLaxTls(a.kind)
     THEN fetch' = Round(fetch.url, TRUE)
     ELSE Fail("NETWORK")

HttpError(a) ==
  /\ Asked /\ a.kind \in {"auth", "limit", "client", "server", "odd"}
  /\ Fail(ClassifyHttp(a.kind))

Downloaded(a) ==
  /\ Asked /\ a.kind = "ok"
  /\ fetch' = [Idle EXCEPT !.at = "page", !.url = fetch.url, !.cur = fetch.cur,
                           !.page = a]

FetchStep ==
  \/ RedirectLoop
  \/ /\ fetch.at = "hop"
     /\ \E a \in Web[fetch.cur] :
          FollowRedirect(a) \/ RequestFails(a) \/ HttpError(a) \/ Downloaded(a)
=============================================================================
