---------------------------- MODULE HttpClient ----------------------------
(***************************************************************************)
(* The requests a session sends: document navigations and data calls       *)
(* (Client in crates/se-net/src/lib.rs, over reqwest), and the fetch and   *)
(* XMLHttpRequest of a page's script (crates/se-js/src/bridge.rs), which   *)
(* follow redirects themselves and read plain http themselves.             *)
(*                                                                         *)
(* A server answers anything, any number of times: redirects, refreshes,   *)
(* cookies, bodies that are too large, cut short, or coded.  What a name   *)
(* resolves to may change with every lookup.                               *)
(***************************************************************************)
EXTENDS Naturals

CONSTANTS
  Urls,          \* records [scheme, host, literal]; literal: an address or None
  Answers,       \* sets of addresses a lookup may return
  Clients,       \* "agent" (navigate, request_data) and "page" (fetch, XHR)
  Kinds,         \* the kinds of request a client sends: [Clients -> SUBSET ...]
  Methods,
  Bodies,        \* the bodies a server may answer with, of BodyShapes
  MaxRedirects,  \* 10 for documents (redirect_policy)
  MaxFetchHops,  \* 20 for pages (MAX_REDIRECTS)
  MaxMetaHops,   \* META_REFRESH_MAX_HOPS (10)
  MaxRequests,   \* BOUND: requests a client begins
  None

ASSUME BudgetsOK == {MaxRedirects, MaxFetchHops, MaxMetaHops, MaxRequests} \subseteq Nat

VARIABLES
  req,     \* what each client's request is at
  jar,     \* hosts the jar has a cookie for
  wire,    \* history: the last request each client put on the wire
  given,   \* history: hosts that set a cookie on a hop that completed
  hops     \* history: per client, hops sent, completed and logged, and refreshes followed

vars == <<req, jar, wire, given, hops>>

Addresses == {"v4", "v6", "mapped"} \X {"routable", "link_local", "unspecified"}

\* Link-local and unspecified addresses are never dialled, IPv4-mapped ones
\* included.
RefusedIp(a) == a[2] # "routable"

\* The check of an address as written: its scheme, and its host when that is
\* an address literal.  Names pass; Dial checks what they resolve to.
RefusedTarget(u) ==
  \/ u.scheme \notin {"http", "https"}
  \/ u.literal # None /\ RefusedIp(u.literal)

\* The resolver of every reqwest client: one refused answer spoils the whole
\* set.  It is not asked about literals.
GuardedResolve(u, addrs) == u.literal # None \/ \A a \in addrs : ~RefusedIp(a)

\* Plain http of a page resolves by itself, literals too, and checks as much.
ResolveChecked(addrs) == \A a \in addrs : ~RefusedIp(a)

\* 301 stands for 302 too, and 307 for 308.
IsRedirect(r) == r.status \in {301, 303, 307} /\ r.loc # None

\* 303 always, 301 and 302 unless the method is GET or HEAD: the request
\* becomes a GET without body and entity headers.
RewritesToGet(status, method) ==
  status = 303 \/ (status = 301 /\ method \notin {"GET", "HEAD"})

Fresh(kind, u, method, body) ==
  [kind |-> kind, url |-> u, method |-> method, body |-> body, entity |-> body,
   hops |-> 0, metas |-> 0, phase |-> "guard", result |-> "none", served |-> None]

Idle == [kind |-> None, phase |-> "done", result |-> "none", served |-> None]

Init ==
  /\ req = [c \in Clients |-> Idle]
  /\ jar = {} /\ given = {}
  /\ wire = [c \in Clients |-> None]
  /\ hops = [c \in Clients |-> [begun |-> 0, sent |-> 0, completed |-> 0, logged |-> 0]]

Ends(c, result) == req' = [req EXCEPT ![c].phase = "done", ![c].result = result]

Serves(c, body) ==
  req' = [req EXCEPT ![c].phase = "done", ![c].result = "ok", ![c].served = body]

-----------------------------------------------------------------------------
(* Beginning a request *)

Begins(c, r) ==
  /\ req[c].phase = "done" /\ hops[c].begun < MaxRequests
  /\ req' = [req EXCEPT ![c] = r]
  /\ hops' = [hops EXCEPT ![c] = [begun |-> @.begun + 1, sent |-> 0, completed |-> 0, logged |-> 0]]
  /\ UNCHANGED <<jar, wire, given>>

\* navigate and get: a document, without a body.
Navigate(c, u) == "document" \in Kinds[c] /\ Begins(c, Fresh("document", u, "GET", FALSE))

\* request_data: the caller's method, headers and body ride as they are.
RequestData(c, u, m, body) == "data" \in Kinds[c] /\ Begins(c, Fresh("data", u, m, body))

\* read_image: the address of an element of the tab, unless it is a data: URL.
ReadImage(c, u) == RequestData(c, u, "GET", FALSE)

\* A GET or HEAD of a script never carries a body, whatever init says; any
\* other method carries entity headers even when its body is empty.
PageSpec(kind, u, m) == Fresh(kind, u, m, m \notin {"GET", "HEAD"})

\* fetch(url, init)
Fetch(c, u, m) == "fetch" \in Kinds[c] /\ Begins(c, PageSpec("fetch", u, m))

\* send() of an XMLHttpRequest that was opened with a method and an address.
XhrSend(c, u, m) == "xhr" \in Kinds[c] /\ Begins(c, PageSpec("xhr", u, m))

\* send() before open(): status 0 and no request.
XhrSendUnopened(c) ==
  "xhr" \in Kinds[c] /\ Begins(c, [Idle EXCEPT !.result = "xhr_not_opened"])

-----------------------------------------------------------------------------
(* One hop: the check of the address, the connection, the request *)

\* The check at the start of navigate_once, request_data and of every hop of a
\* page's request.  (reqwest follows redirects of documents by itself; their
\* targets were checked by its redirect policy.)
Guard(c) ==
  /\ req[c].phase = "guard"
  /\ IF RefusedTarget(req[c].url) THEN Ends(c, "target_refused")
     ELSE req' = [req EXCEPT ![c].phase = "dial"]
  /\ UNCHANGED <<jar, wire, given, hops>>

\* Only a page's plain http is written to and read from the socket by hand.
RawArm(r) == r.kind \in {"fetch", "xhr"} /\ r.url.scheme = "http"

\* Resolve, check every answer and dial one of exactly those answers.  The Cookie
\* header is what the jar has for this hop's host at this moment.  The request is
\* then reqwest's to send, or the bridge's to write.
Dial(c, addrs) ==
  LET r == req[c] IN
  /\ r.phase = "dial"
  /\ r.url.literal # None => addrs = {r.url.literal}
  /\ IF ~(IF RawArm(r) THEN ResolveChecked(addrs) ELSE GuardedResolve(r.url, addrs))
     THEN Ends(c, "target_refused") /\ UNCHANGED <<wire, hops>>
     ELSE /\ \E a \in addrs :
               wire' = [wire EXCEPT ![c] =
                 [addr |-> a, host |-> r.url.host, method |-> r.method, body |-> r.body,
                  entity |-> r.entity, cookie |-> r.url.host \in jar, owed |-> r.url.host \in given]]
          /\ hops' = [hops EXCEPT ![c].sent = @ + 1]
          /\ req' = [req EXCEPT ![c].phase = IF RawArm(r) THEN "write" ELSE "wait"]
  /\ UNCHANGED <<jar, given>>

\* write_all: it returns when all of the request is written, or when the connection
\* is lost.
Write(c) ==
  /\ req[c].phase = "write"
  /\ req' = [req EXCEPT ![c].phase = "wait"] \/ Ends(c, "write")
  /\ UNCHANGED <<jar, wire, given, hops>>

\* A body is being written that the server may not read.
HeldUp(c) == req[c].phase = "write" /\ req[c].body

\* MUTANT: only the connection has a time limit.
TimesOutConnecting(c) ==
  /\ req[c].phase = "dial"
  /\ Ends(c, "timeout")
  /\ UNCHANGED <<jar, wire, given, hops>>

\* No connection, or no answer in time: 10 and 30 seconds for documents, data
\* and https, 5 seconds to connect and for every read of plain http.  A write of
\* plain http has no limit.
TimesOut(c) ==
  /\ req[c].phase \in {"dial", "wait"}
  /\ Ends(c, "timeout")
  /\ UNCHANGED <<jar, wire, given, hops>>

-----------------------------------------------------------------------------
(* Reading an answer.  Its bytes are a record: its head, how the body is coded, *)
(* how the body's end is marked, whether it decodes to more than the cap, and   *)
(* whether all of it arrived (one that ends with the connection has no other    *)
(* end: it is cut if the connection is lost and not closed).                    *)

BodyShapes == [head : {"whole", "large", "cut"}, coding : {"identity", "gzip"}, framing : {"length", "chunked", "close", "unknown"},
               large : BOOLEAN, whole : BOOLEAN]

ASSUME BodiesOK == Bodies \subseteq BodyShapes

\* reqwest decodes; the cap counts decoded bytes.
ReadBodyCapped(b) ==
  IF b.large THEN "too_large" ELSE IF b.framing = "unknown" \/ ~b.whole THEN "http" ELSE "ok"

\* MUTANT: a short body is served as if it were whole.
ReadFetchBodyShort(b) ==
  IF b.framing = "unknown" THEN "unsupported_transfer_encoding"
  ELSE IF b.large THEN "too_large"
  ELSE "ok"

\* Plain http of a page: Transfer-Encoding goes before Content-Length, and only
\* chunked is understood; each of the three framings is bounded by the cap.
ReadFetchBody(b) ==
  IF b.framing = "unknown" THEN "unsupported_transfer_encoding"
  ELSE IF b.large THEN "too_large"
  ELSE IF ~b.whole THEN "truncated"
  ELSE "ok"

\* The head up to its blank line, within a cap; what came after it in the same
\* segment is the beginning of the body.
ReadFetchHead(b) ==
  IF b.head = "large" THEN "too_large"
  ELSE IF b.head = "cut" THEN "truncated"
  ELSE "ok"

\* Plain http asked for identity and decodes nothing else.
ReadRaw(b) ==
  IF ReadFetchHead(b) # "ok" THEN ReadFetchHead(b)
  ELSE IF b.coding # "identity" THEN "unsupported_content_encoding"
  ELSE ReadFetchBody(b)

\* A page's https goes through a client of its own, for one exchange: no jar, no
\* redirects, a smaller cap.
SubresourceFetch(b) == IF b.head # "whole" THEN "http" ELSE ReadBodyCapped(b)

-----------------------------------------------------------------------------
(* The answer to a document or data request *)

\* MUTANT: the policy counts, and forgets to look where the redirect goes.
RedirectPolicyBlind(r, loc) ==
  IF r.hops >= MaxRedirects THEN "too_many_redirects" ELSE "follow"

\* The target first, then the budget: `previous' holds the first address too.
RedirectPolicy(r, loc) ==
  IF RefusedTarget(loc) THEN "target_refused"
  ELSE IF r.hops >= MaxRedirects THEN "too_many_redirects"
  ELSE "follow"

\* MUTANT: the loop of navigate runs once more than its budget.
MetaRefreshLate(r, target) ==
  IF target = None THEN "serve"
  ELSE IF RefusedTarget(target) THEN "target_refused"
  ELSE IF r.metas > MaxMetaHops THEN "redirect_loop"
  ELSE "follow"

\* What navigate does with the refresh a page of status 200 asks for.
MetaRefresh(r, target) ==
  IF target = None THEN "serve"
  ELSE IF RefusedTarget(target) THEN "target_refused"
  ELSE IF r.metas = MaxMetaHops THEN "redirect_loop"
  ELSE "follow"

\* Followed by reqwest: the jar takes the cookies of every hop as its head
\* arrives, the body of a redirect is not read, and no Guard comes in between.
\* All redirects but 307 and 308 drop the body.
AnswerRedirect(c, r, s) ==
  LET verdict == RedirectPolicy(r, s.loc)
      rewrites == s.status # 307
  IN
  IF verdict # "follow" THEN Ends(c, verdict)
  ELSE req' = [req EXCEPT ![c] =
         [r EXCEPT !.url = s.loc, !.hops = @ + 1, !.phase = "dial",
                   !.method = IF rewrites /\ @ # "HEAD" THEN "GET" ELSE @,
                   !.body = @ /\ ~rewrites, !.entity = @ /\ ~rewrites]]

\* A complete answer.  A refresh is followed at once, as a new request with a
\* redirect budget of its own, and starts with its own Guard.
AnswerDocument(c, r, s) ==
  LET read == ReadBodyCapped(s.body)
      next == IF r.kind = "document" /\ s.status = 200 THEN MetaRefresh(r, s.refresh) ELSE "serve"
  IN IF read # "ok" THEN Ends(c, read)
     ELSE IF next = "serve" THEN Serves(c, s.body)
     ELSE IF next = "follow" THEN req' = [req EXCEPT ![c] =
            [Fresh("document", s.refresh, "GET", FALSE) EXCEPT !.metas = r.metas + 1]]
     ELSE Ends(c, next)

AgentAnswer(c, s) ==
  LET r == req[c] IN
  /\ r.phase = "wait" /\ r.kind \in {"document", "data"} /\ s.body.head = "whole"
  /\ IF IsRedirect(s) THEN AnswerRedirect(c, r, s) ELSE AnswerDocument(c, r, s)
  /\ jar' = IF s.cookie THEN jar \union {r.url.host} ELSE jar
  /\ given' = IF s.cookie THEN given \union {r.url.host} ELSE given
  /\ hops' = [hops EXCEPT ![c].completed = @ + 1]
  /\ UNCHANGED wire

\* reqwest gives up on an answer whose head it cannot read.
AgentHeadFails(c, s) ==
  /\ req[c].phase = "wait" /\ req[c].kind \in {"document", "data"} /\ s.body.head # "whole"
  /\ Ends(c, "http")
  /\ UNCHANGED <<jar, wire, given, hops>>

-----------------------------------------------------------------------------
(* The answer to a page's request *)

\* MUTANT: the body goes with the method, the entity headers stay.
PageRedirectKeepsEntity(r, s) ==
  IF RewritesToGet(s.status, r.method)
  THEN [r EXCEPT !.url = s.loc, !.hops = @ + 1, !.phase = "guard", !.method = "GET", !.body = FALSE]
  ELSE [r EXCEPT !.url = s.loc, !.hops = @ + 1, !.phase = "guard"]

\* The next hop of a page's request.
PageRedirect(r, s) ==
  IF RewritesToGet(s.status, r.method)
  THEN [r EXCEPT !.url = s.loc, !.hops = @ + 1, !.phase = "guard",
                 !.method = "GET", !.body = FALSE, !.entity = FALSE]
  ELSE [r EXCEPT !.url = s.loc, !.hops = @ + 1, !.phase = "guard"]

\* MUTANT: cookies are kept for the last hop only.
PageHopForgetful(c, r, s) ==
  /\ jar' = IF s.cookie /\ ~IsRedirect(s) THEN jar \union {r.url.host} ELSE jar
  /\ given' = IF s.cookie THEN given \union {r.url.host} ELSE given
  /\ hops' = [hops EXCEPT ![c].completed = @ + 1, ![c].logged = @ + 1]

\* A hop is complete when its body was read: cookies into the jar, one entry
\* in the network log.
PageHop(c, r, s) ==
  /\ jar' = IF s.cookie THEN jar \union {r.url.host} ELSE jar
  /\ given' = IF s.cookie THEN given \union {r.url.host} ELSE given
  /\ hops' = [hops EXCEPT ![c].completed = @ + 1, ![c].logged = @ + 1]

\* The body is read before anything else, a redirect's too; a hop whose body
\* cannot be read leaves no cookie and no entry in the log.
PageAnswer(c, s) ==
  LET r == req[c]
      read == IF RawArm(r) THEN ReadRaw(s.body) ELSE SubresourceFetch(s.body)
  IN
  /\ r.phase = "wait" /\ r.kind \in {"fetch", "xhr"}
  /\ IF read # "ok" THEN Ends(c, read) /\ UNCHANGED <<jar, given, hops>>
     ELSE /\ PageHop(c, r, s)
          /\ IF ~IsRedirect(s) THEN Serves(c, s.body)
             ELSE IF r.hops >= MaxFetchHops THEN Ends(c, "too_many_redirects")
             ELSE req' = [req EXCEPT ![c] = PageRedirect(r, s)]
  /\ UNCHANGED wire

-----------------------------------------------------------------------------
\* Redirects go somewhere, pages of status 200 may ask for a refresh.
Responses ==
  [status : {301, 303, 307}, loc : Urls, refresh : {None}, cookie : BOOLEAN, body : Bodies]
  \union [status : {200}, loc : {None}, refresh : Urls \union {None}, cookie : BOOLEAN, body : Bodies]

Step(c) ==
  \/ Guard(c)
  \/ \E addrs \in Answers \union {{u.literal} : u \in {v \in Urls : v.literal # None}} : Dial(c, addrs)
  \/ Write(c) \/ TimesOut(c)
  \/ \E s \in Responses : AgentAnswer(c, s) \/ AgentHeadFails(c, s) \/ PageAnswer(c, s)

Begin(c) ==
  \/ \E u \in Urls : Navigate(c, u)
  \/ \E u \in Urls, m \in Methods, b \in BOOLEAN : RequestData(c, u, m, b) \/ ReadImage(c, u)
  \/ \E u \in Urls, m \in Methods : Fetch(c, u, m) \/ XhrSend(c, u, m)
  \/ XhrSendUnopened(c)

Next == \E c \in Clients : Begin(c) \/ Step(c)

Spec == Init /\ [][Next]_vars

\* The handler runs and its clocks do; a request without a body fits into the buffer
\* of the socket.  No server has to answer, nor to read.
FairSpec ==
  Spec /\ \A c \in Clients :
    WF_vars(Guard(c)) /\ WF_vars(TimesOut(c)) /\ WF_vars(Write(c) /\ ~HeldUp(c))

-----------------------------------------------------------------------------
\* The types of the variables.
TypeOK ==
  /\ \A c \in Clients :
       /\ req[c].phase \in {"guard", "dial", "write", "wait", "done"}
       /\ req[c].kind \in Kinds[c] \union {None}
       /\ req[c].phase # "done" => req[c].hops <= MaxRedirects + MaxFetchHops /\ req[c].metas <= MaxMetaHops
  /\ jar \subseteq {u.host : u \in Urls} /\ given \subseteq {u.host : u \in Urls}

\* No connection is ever made to a refused address: not by a literal, not by a
\* name whose answers change between the check of its address and the dial,
\* not through a redirect, a refresh or a chain of both.
NeverDialsRefused == \A c \in Clients : wire[c] # None => wire[c].addr[2] = "routable"

\* However a server chains redirects and refreshes, one navigation sends at most
\* one request more than its redirect budget for each of its one plus
\* MaxMetaHops pages, and a page's request at most MaxFetchHops + 1.
WithinBudget ==
  \A c \in Clients :
    hops[c].sent <= IF req[c].kind \in {"fetch", "xhr"} THEN MaxFetchHops + 1
                    ELSE (MaxRedirects + 1) * (MaxMetaHops + 1)

\* Whatever the redirects in between, what a page puts on the wire is
\* consistent: a GET or HEAD has neither body nor entity headers, any other
\* method has both.
BodyGoesWithMethod ==
  \A c \in Clients :
    wire[c] # None /\ req[c].kind \in {"fetch", "xhr"} /\ req[c].phase \in {"write", "wait"} =>
      wire[c].body = (wire[c].method \notin {"GET", "HEAD"}) /\ wire[c].entity = wire[c].body

\* A cookie a host set on a completed hop, a redirect included, by whichever
\* client, is presented with every later request to it.
CookiesRide == \A c \in Clients : wire[c] # None /\ wire[c].owed => wire[c].cookie

\* What a caller is handed is the whole body, within the cap; a prefix is never
\* served as the page, nor bytes in a coding nobody decoded.
NoPrefixServed ==
  \A c \in Clients :
    req[c].result = "ok" =>
      /\ req[c].served.whole /\ ~req[c].served.large
      /\ req[c].kind \in {"fetch", "xhr"} /\ req[c].url.scheme = "http" => req[c].served.coding = "identity"

\* Every request ends, whatever the server does or leaves undone, unless it is held
\* up for good while it writes a body.
RequestsEnd == \A c \in Clients : req[c].phase # "done" ~> req[c].phase = "done" \/ HeldUp(c)

\* It is not held up either: nothing a server does "parks this thread, and with it
\* blocking_fetch's rx.recv() (the whole isolate)" (the comment of blocking_fetch's
\* connection, which the connect and the reads have limits for).
EveryRequestEnds == \A c \in Clients : req[c].phase # "done" ~> req[c].phase = "done"
=============================================================================
