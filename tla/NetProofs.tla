----------------------------- MODULE NetProofs -----------------------------
(***************************************************************************)
(* Proofs about the two parts of se-net that a session has one of: the     *)
(* client and the log of what it sent.                                     *)
(*                                                                         *)
(* HttpClient, for every set of addresses, answers, bodies and clients and *)
(* every budget: refused addresses are never dialled, a request keeps      *)
(* within its budget, cookies ride, bodies go with methods, and no prefix  *)
(* is served.  None of the properties is inductive.  What they take        *)
(* besides is said of a single request under way and of its budgets        *)
(* (Sound), and that the jar has every cookie that was given.              *)
(*                                                                         *)
(* NetLog, for every number of recorders and readers and every capacity:   *)
(* the ring holds the latest entries, and no number is taken twice.  That  *)
(* is inductive only together with the fact that every number in use is    *)
(* below the counter.                                                      *)
(***************************************************************************)
EXTENDS HttpClient, NetLog, SequenceTheorems, TLAPS

-----------------------------------------------------------------------------
(* The client.                                                              *)

Page == {"fetch", "xhr"}
Agent == {"document", "data"}
Failures == {"target_refused", "timeout", "http", "truncated", "too_large", "too_many_redirects", "redirect_loop",
             "unsupported_transfer_encoding", "unsupported_content_encoding", "xhr_not_opened", "write"}

\* A request, and what stands for one that was never sent.
Sent == [kind : Page \union Agent, url : Urls, method : Methods \union {"GET"}, body : BOOLEAN, entity : BOOLEAN,
         hops : Nat, metas : Nat, phase : {"guard", "dial", "write", "wait", "done"}, result : {"none", "ok"} \union Failures,
         served : Bodies \union {None}]
Unsent == [kind : {None}, phase : {"done"}, result : {"none", "xhr_not_opened"}, served : {None}]

Hop == [begun : Nat, sent : Nat, completed : Nat, logged : Nat]

Typed ==
  /\ req \in [Clients -> Sent \union Unsent]
  /\ hops \in [Clients -> Hop]
  /\ wire = [c \in Clients |-> wire[c]]

\* Of the hops it has sent, one may not have been answered.
Waits(r) == IF r.phase \in {"write", "wait"} THEN 1 ELSE 0

Pages == (MaxRedirects + 1) * (MaxMetaHops + 1)

Within(r, sent) ==
  IF r.kind \in Page THEN r.hops <= MaxFetchHops /\ sent <= r.hops + Waits(r)
  ELSE /\ r.hops <= MaxRedirects /\ r.metas <= MaxMetaHops
       /\ sent <= (MaxRedirects + 1) * r.metas + r.hops + Waits(r)

Plain(method) == method \in {"GET", "HEAD"}

Good(r) ==
  /\ r.served.whole /\ ~r.served.large
  /\ r.kind \in Page /\ r.url.scheme = "http" => r.served.coding = "identity"

\* What is dialled next has been looked at, the budgets hold so far, the body goes
\* with the method, and a result comes with the end.
UnderWay(r, n) ==
  r.phase # "done" =>
    /\ r \in Sent /\ r.result = "none"
    /\ r.phase = "dial" => ~RefusedTarget(r.url)
    /\ Within(r, n.sent)
    /\ r.kind \in Page => r.body = ~Plain(r.method) /\ r.entity = r.body

\* The properties, of one client's request r, its hops n and its wire w.
Kept(r, n, w) ==
  /\ w # None => w.addr[2] = "routable"
  /\ n.sent <= IF r.kind \in Page THEN MaxFetchHops + 1 ELSE Pages
  /\ w # None /\ r.kind \in Page /\ r.phase \in {"write", "wait"} => w.body = ~Plain(w.method) /\ w.entity = w.body
  /\ w # None /\ w.owed => w.cookie
  /\ r.result = "ok" => Good(r)

Sound(r, n, w) == UnderWay(r, n) /\ Kept(r, n, w)

IInv == Typed /\ given \subseteq jar /\ \A c \in Clients : Sound(req[c], hops[c], wire[c])

-----------------------------------------------------------------------------
(* Arithmetic of the budgets *)

LEMMA PagesAre ==
  /\ MaxRedirects \in Nat /\ MaxMetaHops \in Nat /\ MaxFetchHops \in Nat
  /\ Pages \in Nat
  /\ \A metas \in Nat : metas <= MaxMetaHops =>
       /\ (MaxRedirects + 1) * metas \in Nat
       /\ (MaxRedirects + 1) * metas + MaxRedirects + 1 <= Pages
       /\ (MaxRedirects + 1) * (metas + 1) = (MaxRedirects + 1) * metas + MaxRedirects + 1
<1>1. MaxRedirects \in Nat /\ MaxMetaHops \in Nat /\ MaxFetchHops \in Nat
  BY BudgetsOK
<1>2. ASSUME NEW k \in Nat, NEW m \in Nat, NEW n \in Nat, n <= m
      PROVE  /\ k * n \in Nat /\ k * (m + 1) \in Nat
             /\ k * n + k <= k * (m + 1)
             /\ k * (n + 1) = k * n + k
  <2>1. PICK d \in Nat : m = n + d
    <3>1. m - n \in Nat /\ m = n + (m - n)
      BY <1>2
    <3> QED BY <3>1
  <2>2. k * (n + 1) = k * n + k /\ k * n \in Nat /\ k * d \in Nat
    OBVIOUS
  <2>3. k * (m + 1) = k * n + k * d + k
    BY <2>1
  <2> QED BY <2>2, <2>3
<1> QED BY <1>1, <1>2 DEF Pages

\* A request that is under way and answered may send again.
LEMMA BudgetLeft ==
  ASSUME NEW r \in Sent, NEW sent \in Nat, Within(r, sent)
  PROVE  sent <= IF r.kind \in Page THEN MaxFetchHops + 1 ELSE Pages
<1>1. Waits(r) \in {0, 1} /\ r.hops \in Nat /\ r.metas \in Nat
  BY DEF Waits, Sent
<1>2. CASE r.kind \in Page
  BY <1>1, <1>2, PagesAre DEF Within
<1>3. CASE r.kind \notin Page
  <2> DEFINE done == (MaxRedirects + 1) * r.metas
  <2>1. done \in Nat /\ done + MaxRedirects + 1 <= Pages
    BY <1>1, <1>3, PagesAre DEF Within
  <2>2. r.hops <= MaxRedirects /\ sent <= done + r.hops + Waits(r)
    BY <1>3 DEF Within
  <2> HIDE DEF done
  <2> QED BY <1>1, <1>3, <2>1, <2>2, PagesAre
<1> QED BY <1>2, <1>3

-----------------------------------------------------------------------------
(* A step of one client *)

LEMMA Initially == Init => IInv
<1> SUFFICES ASSUME Init PROVE IInv
  OBVIOUS
<1>1. Idle \in Unsent /\ Idle.phase = "done" /\ Idle.result = "none" /\ Idle.kind = None
  BY DEF Idle, Unsent
<1>2. Typed
  <2>1. [begun |-> 0, sent |-> 0, completed |-> 0, logged |-> 0] \in Hop
    BY DEF Hop
  <2>2. wire = [c \in Clients |-> wire[c]]
    BY Zenon DEF Init
  <2>3. req \in [Clients -> Sent \union Unsent]
    BY <1>1 DEF Init
  <2>4. hops \in [Clients -> Hop]
    BY <2>1 DEF Init
  <2> QED BY <2>2, <2>3, <2>4 DEF Typed
<1>3. ASSUME NEW c \in Clients PROVE Sound(req[c], hops[c], wire[c])
  <2>1. req[c] = Idle /\ hops[c].sent = 0 /\ wire[c] = None
    BY DEF Init
  <2>2. Kept(req[c], hops[c], wire[c])
    BY <1>1, <2>1, PagesAre DEF Kept
  <2> QED BY <1>1, <2>1, <2>2 DEF Sound, UnderWay
<1> QED BY <1>2, <1>3 DEF IInv, Init

LEMMA ClientSteps ==
  ASSUME IInv, NEW c \in Clients, NEW r \in Sent \union Unsent, NEW n \in Hop,
         req' = [req EXCEPT ![c] = r], hops' = [hops EXCEPT ![c] = n],
         wire' = [wire EXCEPT ![c] = wire'[c]] \/ wire' = wire,
         given' \subseteq jar', Sound(r, n, wire'[c])
  PROVE  IInv'
<1>1. Typed'
  BY DEF IInv, Typed
<1>2. ASSUME NEW d \in Clients PROVE Sound(req'[d], hops'[d], wire'[d])
  <2>1. CASE d = c
    <3>1. req'[c] = r /\ hops'[c] = n
      BY DEF IInv, Typed
    <3> QED BY <2>1, <3>1
  <2>2. CASE d # c
    <3>1. req'[d] = req[d] /\ hops'[d] = hops[d] /\ wire'[d] = wire[d]
      BY <2>2 DEF IInv, Typed
    <3> QED BY <3>1 DEF IInv
  <2> QED BY <2>1, <2>2
<1> QED BY <1>1, <1>2 DEF IInv

\* The record of a request under way is one that was sent.
LEMMA Facts ==
  ASSUME IInv, NEW c \in Clients
  PROVE  /\ Sound(req[c], hops[c], wire[c]) /\ hops[c] \in Hop /\ req[c] \in Sent \union Unsent
         /\ hops = [hops EXCEPT ![c] = hops[c]]
         /\ req[c].phase # "done" => req[c] \in Sent
BY DEF IInv, Typed, Sound, UnderWay

\* How a request's record ends.
Ended(q, result, b) == [q EXCEPT !.phase = "done", !.result = result, !.served = b]

LEMMA EndedRecord ==
  ASSUME NEW q \in Sent, NEW result \in {"none", "ok"} \union Failures, NEW b \in Bodies \union {None}
  PROVE  /\ Ended(q, result, b) \in Sent
         /\ Ended(q, result, b).phase = "done" /\ Ended(q, result, b).result = result
         /\ Ended(q, result, b).served = b
         /\ Ended(q, result, b).kind = q.kind /\ Ended(q, result, b).url = q.url
BY ZenonT(60) DEF Sent, Ended

\* A request that ends without a body.
LEMMA EndsSound ==
  ASSUME IInv, NEW c \in Clients, req[c].phase # "done", NEW result \in Failures,
         Ends(c, result), NEW n \in Hop, n.sent = hops[c].sent,
         hops' = [hops EXCEPT ![c] = n], wire' = wire, given' \subseteq jar'
  PROVE  IInv'
<1> DEFINE r == [req[c] EXCEPT !.phase = "done", !.result = result]
<1>1. req[c] \in Sent /\ hops[c] \in Hop /\ Sound(req[c], hops[c], wire[c])
  BY Facts
<1>2. r \in Sent /\ r.phase = "done" /\ r.result = result /\ r.kind = req[c].kind
  <2> DEFINE q == req[c]
             p == [q EXCEPT !.phase = "done"]
  <2>1. q \in Sent
    BY <1>1
  <2>2. p \in Sent /\ p.phase = "done" /\ p.kind = q.kind
    <3> HIDE DEF q
    <3> QED BY <2>1 DEF Sent
  <2>3. r = [p EXCEPT !.result = result]
    OBVIOUS
  <2> HIDE DEF p, q
  <2>4. result \in {"none", "ok"} \union Failures
    OBVIOUS
  <2>5. [p EXCEPT !.result = result] \in Sent
    BY <2>2, <2>4 DEF Sent
  <2> QED BY <2>2, <2>3, <2>5 DEF q, Sent
<1>3. req' = [req EXCEPT ![c] = r]
  BY DEF Ends, IInv, Typed
<1>4. Sound(r, n, wire[c])
  BY <1>1, <1>2 DEF Sound, UnderWay, Kept, Failures
<1> QED BY <1>2, <1>3, <1>4, ClientSteps

\* A request whose body is handed out.
LEMMA ServesSound ==
  ASSUME IInv, NEW c \in Clients, req[c].phase # "done", NEW b \in Bodies, Serves(c, b),
         b.whole, ~b.large, req[c].kind \in Page /\ req[c].url.scheme = "http" => b.coding = "identity",
         NEW n \in Hop, n.sent = hops[c].sent,
         hops' = [hops EXCEPT ![c] = n], wire' = wire, given' \subseteq jar'
  PROVE  IInv'
<1> DEFINE r == Ended(req[c], "ok", b)
<1>1. req[c] \in Sent /\ hops[c] \in Hop /\ Sound(req[c], hops[c], wire[c])
  BY Facts
<1>2. /\ r \in Sent /\ r.phase = "done" /\ r.result = "ok" /\ r.served = b
      /\ r.kind = req[c].kind /\ r.url = req[c].url
  BY <1>1, EndedRecord
<1>3. req' = [req EXCEPT ![c] = r]
  BY DEF Serves, IInv, Typed, Ended
<1>4. Sound(r, n, wire[c])
  BY <1>1, <1>2 DEF Sound, UnderWay, Kept, Good
<1> QED BY <1>2, <1>3, <1>4, ClientSteps

\* A request that goes on, with nothing sent.
LEMMA GoesOnSound ==
  ASSUME IInv, NEW c \in Clients, req[c].phase # "done", NEW r \in Sent,
         req' = [req EXCEPT ![c] = r], r.phase \in {"guard", "dial"}, r.result = "none",
         r.kind \in Page <=> req[c].kind \in Page,
         r.phase = "dial" => ~RefusedTarget(r.url),
         Within(r, hops[c].sent),
         r.kind \in Page => r.body = ~Plain(r.method) /\ r.entity = r.body,
         NEW n \in Hop, n.sent = hops[c].sent,
         hops' = [hops EXCEPT ![c] = n], wire' = wire, given' \subseteq jar'
  PROVE  IInv'
<1>1. req[c] \in Sent /\ hops[c] \in Hop /\ Sound(req[c], hops[c], wire[c])
  BY Facts
<1>2. UnderWay(r, n)
  BY DEF UnderWay
<1>3. Kept(r, n, wire[c])
  BY <1>1 DEF Sound, Kept
<1> QED BY <1>2, <1>3, ClientSteps DEF Sound

-----------------------------------------------------------------------------
(* The actions *)

LEMMA BeginsSound ==
  ASSUME IInv, NEW c \in Clients, NEW r \in Sent \union Unsent, Begins(c, r),
         r.phase # "done" => /\ r \in Sent /\ r.result = "none" /\ r.phase = "guard"
                             /\ r.hops = 0 /\ r.metas = 0
                             /\ r.kind \in Page => r.body = ~Plain(r.method) /\ r.entity = r.body,
         r.result # "ok"
  PROVE  IInv'
<1> DEFINE n == [begun |-> hops[c].begun + 1, sent |-> 0, completed |-> 0, logged |-> 0]
<1>1. hops[c] \in Hop /\ Sound(req[c], hops[c], wire[c])
  BY Facts
<1>2. n \in Hop /\ n.sent = 0
  BY <1>1 DEF Hop
<1>3. Within(r, n.sent) \/ r.phase = "done"
  BY <1>2, PagesAre DEF Within, Waits
<1>4. Sound(r, n, wire[c])
  BY <1>1, <1>2, <1>3, PagesAre DEF Sound, UnderWay, Kept
<1> QED BY <1>2, <1>4, ClientSteps DEF Begins, IInv

LEMMA FreshSent ==
  ASSUME NEW kind \in Page \union Agent, NEW u \in Urls, NEW m \in Methods \union {"GET"}, NEW b \in BOOLEAN
  PROVE  /\ Fresh(kind, u, m, b) \in Sent
         /\ Fresh(kind, u, m, b).result = "none" /\ Fresh(kind, u, m, b).phase = "guard"
         /\ Fresh(kind, u, m, b).hops = 0 /\ Fresh(kind, u, m, b).metas = 0
         /\ Fresh(kind, u, m, b).kind = kind /\ Fresh(kind, u, m, b).method = m
         /\ Fresh(kind, u, m, b).body = b /\ Fresh(kind, u, m, b).entity = b
BY DEF Fresh, Sent

LEMMA BeginsFresh ==
  ASSUME IInv, NEW c \in Clients,
         NEW kind \in Page \union Agent, NEW u \in Urls, NEW m \in Methods \union {"GET"}, NEW b \in BOOLEAN,
         kind \in Page => b = ~Plain(m), Begins(c, Fresh(kind, u, m, b))
  PROVE  IInv'
BY FreshSent, BeginsSound

LEMMA BeginSound ==
  ASSUME IInv, NEW c \in Clients, Begin(c)
  PROVE  IInv'
<1>0. /\ "document" \in Page \union Agent /\ "data" \in Page \union Agent
      /\ "document" \notin Page /\ "data" \notin Page /\ "fetch" \in Page /\ "xhr" \in Page
  BY DEF Page, Agent
<1>a. FALSE \in BOOLEAN /\ "GET" \in Methods \union {"GET"}
  OBVIOUS
<1>1. ASSUME NEW u \in Urls, Navigate(c, u) PROVE IInv'
  BY <1>1, <1>0, <1>a, BeginsFresh, Zenon DEF Navigate
<1>2. ASSUME NEW u \in Urls, NEW m \in Methods \union {"GET"}, NEW b \in BOOLEAN, RequestData(c, u, m, b) PROVE IInv'
  BY <1>2, <1>0, BeginsFresh, Zenon DEF RequestData
<1>3. ASSUME NEW u \in Urls, ReadImage(c, u) PROVE IInv'
  BY <1>3, <1>2, <1>a, Zenon DEF ReadImage
<1>4. ASSUME NEW kind \in Page, NEW u \in Urls, NEW m \in Methods, Begins(c, PageSpec(kind, u, m)) PROVE IInv'
  <2> DEFINE b == m \notin {"GET", "HEAD"}
  <2>1. b \in BOOLEAN /\ b = ~Plain(m) /\ kind \in Page \union Agent /\ m \in Methods \union {"GET"}
    BY DEF Plain
  <2>2. Begins(c, Fresh(kind, u, m, b))
    BY <1>4 DEF PageSpec
  <2> HIDE DEF b
  <2> QED BY <2>1, <2>2, BeginsFresh, Zenon
<1>5. CASE XhrSendUnopened(c)
  <2>1. /\ [Idle EXCEPT !.result = "xhr_not_opened"] \in Unsent
        /\ [Idle EXCEPT !.result = "xhr_not_opened"].phase = "done"
        /\ [Idle EXCEPT !.result = "xhr_not_opened"].result # "ok"
    BY DEF Idle, Unsent
  <2> QED BY <1>5, <2>1, BeginsSound DEF XhrSendUnopened
<1> QED
  <2>1. ASSUME NEW u \in Urls, NEW m \in Methods, Fetch(c, u, m) \/ XhrSend(c, u, m) PROVE IInv'
    BY <2>1, <1>0, <1>4 DEF Fetch, XhrSend
  <2> QED BY <1>1, <1>2, <1>3, <2>1, <1>5 DEF Begin

LEMMA GuardSound ==
  ASSUME IInv, NEW c \in Clients, Guard(c)
  PROVE  IInv'
<1>1. /\ req[c] \in Sent /\ Sound(req[c], hops[c], wire[c]) /\ req[c].phase = "guard"
      /\ hops[c] \in Hop /\ hops = [hops EXCEPT ![c] = hops[c]]
  BY Facts DEF Guard
<1>2. CASE RefusedTarget(req[c].url)
  BY <1>1, <1>2, EndsSound DEF Guard, Failures, IInv
<1>3. CASE ~RefusedTarget(req[c].url)
  <2> DEFINE r == [req[c] EXCEPT !.phase = "dial"]
  <2>1. /\ r \in Sent /\ r.phase = "dial" /\ r.result = req[c].result /\ r.kind = req[c].kind /\ r.url = req[c].url
        /\ r.hops = req[c].hops /\ r.metas = req[c].metas
        /\ r.method = req[c].method /\ r.body = req[c].body /\ r.entity = req[c].entity
    BY <1>1 DEF Sent
  <2>2. req' = [req EXCEPT ![c] = r]
    BY <1>1, <1>3 DEF Guard, IInv, Typed
  <2>3. Within(r, hops[c].sent)
    BY <1>1, <2>1 DEF Sound, UnderWay, Within, Waits
  <2>4. r.kind \in Page => r.body = ~Plain(r.method) /\ r.entity = r.body
    BY <1>1, <2>1 DEF Sound, UnderWay
  <2>5. r.result = "none"
    BY <1>1, <2>1 DEF Sound, UnderWay
  <2> HIDE DEF r
  <2> QED BY <1>1, <1>3, <2>1, <2>2, <2>3, <2>4, <2>5, GoesOnSound DEF Guard, IInv
<1> QED BY <1>2, <1>3

LEMMA TimesOutSound ==
  ASSUME IInv, NEW c \in Clients, TimesOut(c)
  PROVE  IInv'
BY Facts, EndsSound DEF TimesOut, Failures, IInv

\* What is on the wire stays what it was.
LEMMA WriteSound ==
  ASSUME IInv, NEW c \in Clients, Write(c)
  PROVE  IInv'
<1> DEFINE q == req[c]
           r == [q EXCEPT !.phase = "wait"]
<1>1. /\ q \in Sent /\ Sound(q, hops[c], wire[c]) /\ q.phase = "write" /\ hops[c] \in Hop
      /\ hops' = [hops EXCEPT ![c] = hops[c]] /\ wire' = [wire EXCEPT ![c] = wire[c]]
  BY Facts DEF Write, IInv, Typed
<1>2. CASE Ends(c, "write")
  BY <1>1, <1>2, Facts, EndsSound DEF Write, Failures, IInv
<1>3. CASE req' = [req EXCEPT ![c].phase = "wait"]
  <2>1. req' = [req EXCEPT ![c] = r]
    BY <1>3 DEF IInv, Typed
  <2>2. /\ r \in Sent /\ r.phase = "wait" /\ r.result = q.result /\ r.kind = q.kind /\ r.url = q.url
        /\ r.hops = q.hops /\ r.metas = q.metas
        /\ r.method = q.method /\ r.body = q.body /\ r.entity = q.entity /\ r.served = q.served
    <3> HIDE DEF q
    <3> QED BY <1>1 DEF Sent
  <2> HIDE DEF r, q
  <2>3. Within(r, hops[c].sent)
    BY <1>1, <2>2 DEF Sound, UnderWay, Within, Waits
  <2>4. UnderWay(r, hops[c])
    BY <1>1, <2>2, <2>3 DEF Sound, UnderWay
  <2>5. Kept(r, hops[c], wire[c])
    BY <1>1, <2>2 DEF Sound, UnderWay, Kept
  <2> QED BY <1>1, <2>1, <2>2, <2>4, <2>5, ClientSteps DEF Sound, Write, IInv
<1> QED BY <1>2, <1>3 DEF Write

LEMMA DialSound ==
  ASSUME IInv, NEW c \in Clients, NEW addrs, Dial(c, addrs)
  PROVE  IInv'
<1> DEFINE q == req[c]
           passes == IF RawArm(q) THEN ResolveChecked(addrs) ELSE GuardedResolve(q.url, addrs)
<1>1. /\ q \in Sent /\ Sound(q, hops[c], wire[c]) /\ q.phase = "dial" /\ ~RefusedTarget(q.url)
      /\ hops[c] \in Hop /\ hops = [hops EXCEPT ![c] = hops[c]]
  BY Facts DEF Dial, Sound, UnderWay
<1>2. CASE ~passes
  BY <1>1, <1>2, EndsSound DEF Dial, Failures, IInv
<1>3. CASE passes
  <2> DEFINE phase == IF RawArm(q) THEN "write" ELSE "wait"
             r == [q EXCEPT !.phase = phase]
             n == [hops[c] EXCEPT !.sent = @ + 1]
  <2>1. PICK a \in addrs : wire' = [wire EXCEPT ![c] =
           [addr |-> a, host |-> q.url.host, method |-> q.method, body |-> q.body,
            entity |-> q.entity, cookie |-> q.url.host \in jar, owed |-> q.url.host \in given]]
    BY <1>3 DEF Dial
  <2>2. a[2] = "routable"
    BY <1>1, <1>3 DEF Dial, RefusedTarget, GuardedResolve, ResolveChecked, RefusedIp
  <2>3. /\ r \in Sent /\ r.phase \in {"write", "wait"} /\ r.result = q.result /\ r.kind = q.kind /\ r.url = q.url
        /\ r.hops = q.hops /\ r.metas = q.metas
        /\ r.method = q.method /\ r.body = q.body /\ r.entity = q.entity
    BY <1>1 DEF Sent
  <2>4. n \in Hop /\ n.sent = hops[c].sent + 1 /\ hops[c].sent \in Nat
    BY <1>1 DEF Hop
  <2>5. req' = [req EXCEPT ![c] = r] /\ hops' = [hops EXCEPT ![c] = n]
    BY <1>3 DEF Dial, IInv, Typed
  <2>6. UnderWay(r, n)
    <3>1. Within(r, n.sent)
      BY <1>1, <2>3, <2>4, PagesAre DEF Sound, UnderWay, Within, Waits, Sent
    <3> QED BY <1>1, <2>3, <3>1 DEF Sound, UnderWay
  <2>7. n.sent <= IF r.kind \in Page THEN MaxFetchHops + 1 ELSE Pages
    <3>1. r \in Sent /\ n.sent \in Nat /\ Within(r, n.sent)
      BY <2>3, <2>4, <2>6 DEF UnderWay
    <3> HIDE DEF r, n
    <3> QED BY <3>1, BudgetLeft
  <2>8. Kept(r, n, wire'[c])
    <3> DEFINE w == [addr |-> a, host |-> q.url.host, method |-> q.method, body |-> q.body,
            entity |-> q.entity, cookie |-> q.url.host \in jar, owed |-> q.url.host \in given]
    <3>1. wire'[c] = w
      BY <2>1 DEF IInv, Typed
    <3>2. /\ w.addr = a /\ w.method = r.method /\ w.body = r.body /\ w.entity = r.entity
          /\ w.owed => w.cookie
      BY <2>3 DEF IInv
    <3>3. r.result # "ok" /\ (r.kind \in Page => r.body = ~Plain(r.method) /\ r.entity = r.body)
      BY <2>3, <2>6 DEF UnderWay
    <3> HIDE DEF w
    <3> QED BY <2>2, <2>7, <3>1, <3>2, <3>3 DEF Kept
  <2>9. wire' = [wire EXCEPT ![c] = wire'[c]]
    BY <2>1 DEF IInv, Typed
  <2>10. given' \subseteq jar'
    BY DEF Dial, IInv
  <2> HIDE DEF r, n
  <2> QED BY <2>3, <2>4, <2>5, <2>6, <2>8, <2>9, <2>10, ClientSteps DEF Sound
<1> QED BY <1>2, <1>3

LEMMA ReadVerdicts ==
  ASSUME NEW b \in Bodies
  PROVE  /\ ReadBodyCapped(b) \in {"ok"} \union Failures
         /\ SubresourceFetch(b) \in {"ok"} \union Failures
         /\ ReadRaw(b) \in {"ok"} \union Failures
         /\ ReadBodyCapped(b) = "ok" => b.whole /\ ~b.large
         /\ SubresourceFetch(b) = "ok" => b.whole /\ ~b.large
         /\ ReadRaw(b) = "ok" => b.whole /\ ~b.large /\ b.coding = "identity"
<1>1. b \in BodyShapes
  BY BodiesOK
<1>2. /\ ReadBodyCapped(b) \in {"ok"} \union Failures
      /\ ReadBodyCapped(b) = "ok" => b.whole /\ ~b.large
  BY <1>1 DEF ReadBodyCapped, Failures, BodyShapes
<1>3. /\ ReadFetchBody(b) \in {"ok"} \union Failures
      /\ ReadFetchBody(b) = "ok" => b.whole /\ ~b.large
  BY <1>1 DEF ReadFetchBody, Failures, BodyShapes
<1>4. ReadFetchHead(b) \in {"ok"} \union Failures
  BY <1>1 DEF ReadFetchHead, Failures, BodyShapes
<1>5. /\ ReadRaw(b) \in {"ok"} \union Failures
      /\ ReadRaw(b) = "ok" => b.whole /\ ~b.large /\ b.coding = "identity"
  BY <1>1, <1>3, <1>4 DEF ReadRaw, Failures
<1> QED BY <1>2, <1>5 DEF SubresourceFetch, Failures

\* The record of a request that follows a redirect, as it is and rewritten.
Moved(q, u, phase) == [q EXCEPT !.url = u, !.hops = @ + 1, !.phase = phase]
Redirected(q, u, phase, m, b, e) ==
  [q EXCEPT !.url = u, !.hops = @ + 1, !.phase = phase, !.method = m, !.body = b, !.entity = e]

LEMMA MovedRecord ==
  ASSUME NEW q \in Sent, NEW u \in Urls, NEW phase \in {"guard", "dial"}
  PROVE  LET r == Moved(q, u, phase)
         IN /\ r \in Sent /\ r.phase = phase /\ r.result = q.result /\ r.kind = q.kind /\ r.url = u
            /\ r.hops = q.hops + 1 /\ r.metas = q.metas
            /\ r.method = q.method /\ r.body = q.body /\ r.entity = q.entity
<1> DEFINE h == q.hops + 1
           r == [q EXCEPT !.url = u, !.hops = h, !.phase = phase]
<1>0. h \in Nat
  BY DEF Sent
<1>1. r \in Sent /\ r.hops = h
  <2> HIDE DEF h
  <2> QED BY <1>0 DEF Sent
<1>2. /\ r.phase = phase /\ r.result = q.result /\ r.kind = q.kind /\ r.url = u /\ r.metas = q.metas
      /\ r.method = q.method /\ r.body = q.body /\ r.entity = q.entity
  BY DEF Sent
<1>3. r = Moved(q, u, phase)
  BY DEF Moved
<1> HIDE DEF r
<1> QED BY <1>1, <1>2, <1>3

LEMMA RedirectedRecord ==
  ASSUME NEW q \in Sent, NEW u \in Urls, NEW phase \in {"guard", "dial"},
         NEW m \in Methods \union {"GET"}, NEW b \in BOOLEAN, NEW e \in BOOLEAN
  PROVE  LET r == Redirected(q, u, phase, m, b, e)
         IN /\ r \in Sent /\ r.phase = phase /\ r.result = q.result /\ r.kind = q.kind /\ r.url = u
            /\ r.hops = q.hops + 1 /\ r.metas = q.metas
            /\ r.method = m /\ r.body = b /\ r.entity = e
<1> DEFINE p == Moved(q, u, phase)
           r == [p EXCEPT !.method = m, !.body = b, !.entity = e]
<1>1. /\ p \in Sent /\ p.phase = phase /\ p.result = q.result /\ p.kind = q.kind /\ p.url = u
      /\ p.hops = q.hops + 1 /\ p.metas = q.metas
  BY MovedRecord
<1>2. r = Redirected(q, u, phase, m, b, e)
  BY DEF Redirected, Moved
<1>3. /\ r \in Sent /\ r.phase = p.phase /\ r.result = p.result /\ r.kind = p.kind /\ r.url = p.url
      /\ r.hops = p.hops /\ r.metas = p.metas /\ r.method = m /\ r.body = b /\ r.entity = e
  <2> HIDE DEF p
  <2> QED BY <1>1, ZenonT(60) DEF Sent
<1> HIDE DEF p, r
<1> QED BY <1>1, <1>2, <1>3

LEMMA AnswerRedirectSound ==
  ASSUME IInv, NEW c \in Clients, req[c].phase = "wait", req[c].kind \in Agent, NEW s \in Responses, IsRedirect(s),
         AnswerRedirect(c, req[c], s), NEW n \in Hop, n.sent = hops[c].sent,
         hops' = [hops EXCEPT ![c] = n], wire' = wire, given' \subseteq jar'
  PROVE  IInv'
<1> DEFINE q == req[c]
           verdict == RedirectPolicy(q, s.loc)
<1>1. q \in Sent /\ Sound(q, hops[c], wire[c]) /\ hops[c] \in Hop
  BY Facts
<1>2. verdict \in {"follow"} \union Failures /\ "follow" \notin Failures
  BY DEF RedirectPolicy, Failures
<1>3. CASE verdict # "follow"
  <2>1. verdict \in Failures /\ Ends(c, verdict)
    BY <1>2, <1>3 DEF AnswerRedirect
  <2> HIDE DEF verdict
  <2> QED BY <2>1, EndsSound
<1>4. CASE verdict = "follow"
  <2> DEFINE rewrites == s.status # 307
             m == IF rewrites /\ q.method # "HEAD" THEN "GET" ELSE q.method
             b == q.body /\ ~rewrites
             e == q.entity /\ ~rewrites
             r == Redirected(q, s.loc, "dial", m, b, e)
  <2>0. m \in Methods \union {"GET"} /\ b \in BOOLEAN /\ e \in BOOLEAN
    BY <1>1 DEF Sent
  <2>1. s.loc \in Urls
    BY DEF Responses, IsRedirect
  <2>2. /\ r \in Sent /\ r.phase = "dial" /\ r.result = q.result /\ r.kind = q.kind /\ r.url = s.loc
        /\ r.hops = q.hops + 1 /\ r.metas = q.metas
    <3> HIDE DEF m, b, e
    <3> QED BY <1>1, <2>0, <2>1, RedirectedRecord
  <2>3. ~RefusedTarget(s.loc) /\ ~(q.hops >= MaxRedirects)
    BY <1>4 DEF RedirectPolicy
  <2>4. r.kind \notin Page
    BY <2>2 DEF Page, Agent
  <2>5. Within(r, hops[c].sent)
    BY <1>1, <2>2, <2>3, <2>4, PagesAre DEF Sound, UnderWay, Within, Waits, Sent, Hop
  <2>6. req' = [req EXCEPT ![c] = r] /\ r.result = "none"
    BY <1>1, <1>4, <2>2 DEF AnswerRedirect, Sound, UnderWay, Redirected
  <2> HIDE DEF r
  <2> QED BY <2>2, <2>3, <2>4, <2>5, <2>6, GoesOnSound
<1> QED BY <1>3, <1>4

\* A document's next page: a new request with one more refresh to its count.
Refreshed(u, n) == [Fresh("document", u, "GET", FALSE) EXCEPT !.metas = n]

LEMMA RefreshedRecord ==
  ASSUME NEW u \in Urls, NEW n \in Nat
  PROVE  LET r == Refreshed(u, n)
         IN /\ r \in Sent /\ r.phase = "guard" /\ r.result = "none" /\ r.kind = "document"
            /\ r.hops = 0 /\ r.metas = n
<1> DEFINE p == Fresh("document", u, "GET", FALSE)
           r == [p EXCEPT !.metas = n]
<1>1. p \in Sent /\ p.phase = "guard" /\ p.result = "none" /\ p.kind = "document" /\ p.hops = 0
  BY DEF Fresh, Sent, Agent
<1>2. /\ r \in Sent /\ r.phase = p.phase /\ r.result = p.result /\ r.kind = p.kind
      /\ r.hops = p.hops /\ r.metas = n
  <2> HIDE DEF p
  <2> QED BY <1>1 DEF Sent
<1>3. r = Refreshed(u, n)
  BY DEF Refreshed
<1> HIDE DEF p, r
<1> QED BY <1>1, <1>2, <1>3

LEMMA AnswerDocumentSound ==
  ASSUME IInv, NEW c \in Clients, req[c].phase = "wait", req[c].kind \in Agent, NEW s \in Responses,
         AnswerDocument(c, req[c], s), NEW n \in Hop, n.sent = hops[c].sent,
         hops' = [hops EXCEPT ![c] = n], wire' = wire, given' \subseteq jar'
  PROVE  IInv'
<1> DEFINE q == req[c]
           read == ReadBodyCapped(s.body)
           onward == IF q.kind = "document" /\ s.status = 200 THEN MetaRefresh(q, s.refresh) ELSE "serve"
<1>1. q \in Sent /\ Sound(q, hops[c], wire[c]) /\ hops[c] \in Hop /\ q.kind \notin Page
  BY Facts DEF Page, Agent
<1>2. s.body \in Bodies /\ s.refresh \in Urls \union {None}
  BY DEF Responses
<1>3. read \in {"ok"} \union Failures /\ (read = "ok" => s.body.whole /\ ~s.body.large)
  BY <1>2, ReadVerdicts
<1>4. onward \in {"serve", "follow", "target_refused", "redirect_loop"}
  BY DEF MetaRefresh
<1>5. CASE read # "ok"
  <2>1. read \in Failures /\ Ends(c, read)
    BY <1>3, <1>5 DEF AnswerDocument
  <2> HIDE DEF read
  <2> QED BY <2>1, EndsSound
<1>6. CASE read = "ok" /\ onward = "serve"
  <2>1. Serves(c, s.body)
    BY <1>6 DEF AnswerDocument
  <2> QED BY <1>1, <1>2, <1>3, <1>6, <2>1, ServesSound
<1>7. CASE read = "ok" /\ onward = "follow"
  <2> DEFINE r == Refreshed(s.refresh, q.metas + 1)
  <2>1. q.kind = "document" /\ s.refresh \in Urls /\ q.metas # MaxMetaHops
    BY <1>2, <1>7 DEF MetaRefresh
  <2>2. q.metas \in Nat /\ q.hops \in Nat /\ q.metas + 1 \in Nat
    BY <1>1 DEF Sent
  <2>3. /\ r \in Sent /\ r.phase = "guard" /\ r.result = "none" /\ r.kind = "document"
        /\ r.hops = 0 /\ r.metas = q.metas + 1
    <3> HIDE DEF q
    <3> QED BY <2>1, <2>2, RefreshedRecord
  <2>4. req' = [req EXCEPT ![c] = r]
    BY <1>7 DEF AnswerDocument, Refreshed
  <2>5. Within(r, hops[c].sent)
    <3>1. q.metas <= MaxMetaHops /\ q.hops <= MaxRedirects
          /\ hops[c].sent <= (MaxRedirects + 1) * q.metas + q.hops + 1
      BY <1>1 DEF Sound, UnderWay, Within, Waits
    <3>2. q.metas + 1 <= MaxMetaHops
      BY <3>1, <2>1, <2>2, PagesAre
    <3>3. (MaxRedirects + 1) * (q.metas + 1) = (MaxRedirects + 1) * q.metas + MaxRedirects + 1
          /\ (MaxRedirects + 1) * q.metas \in Nat
      BY <2>2, <3>1, PagesAre
    <3>4. hops[c].sent <= (MaxRedirects + 1) * (q.metas + 1)
      BY <1>1, <2>2, <3>1, <3>3, PagesAre DEF Hop
    <3>5. r.kind \notin Page /\ Waits(r) = 0
      BY <2>3 DEF Page, Waits
    <3> HIDE DEF r, q
    <3> QED BY <2>2, <2>3, <3>2, <3>3, <3>4, <3>5, PagesAre DEF Within
  <2>6. r.kind \notin Page
    BY <2>3 DEF Page
  <2> HIDE DEF r
  <2> QED BY <1>1, <2>3, <2>4, <2>5, <2>6, GoesOnSound
<1>8. CASE read = "ok" /\ onward \in {"target_refused", "redirect_loop"}
  <2>1. onward \in Failures /\ Ends(c, onward)
    BY <1>8 DEF AnswerDocument, Failures
  <2> HIDE DEF onward
  <2> QED BY <2>1, EndsSound
<1> QED
  <2> HIDE DEF read, onward
  <2> QED BY <1>3, <1>4, <1>5, <1>6, <1>7, <1>8

LEMMA AgentAnswerSound ==
  ASSUME IInv, NEW c \in Clients, NEW s \in Responses, AgentAnswer(c, s)
  PROVE  IInv'
<1> DEFINE n == [hops[c] EXCEPT !.completed = @ + 1]
<1>1. hops[c] \in Hop
  BY Facts
<1>2. n \in Hop /\ n.sent = hops[c].sent
  BY <1>1 DEF Hop
<1>3. hops' = [hops EXCEPT ![c] = n] /\ wire' = wire
  BY DEF AgentAnswer, IInv, Typed
<1>4. given' \subseteq jar'
  BY DEF AgentAnswer, IInv
<1>5. req[c].phase = "wait" /\ req[c].kind \in Agent
  BY DEF AgentAnswer, Agent
<1>6. \/ IsRedirect(s) /\ AnswerRedirect(c, req[c], s)
      \/ AnswerDocument(c, req[c], s)
  BY DEF AgentAnswer
<1> HIDE DEF n
<1> QED BY <1>2, <1>3, <1>4, <1>5, <1>6, AnswerRedirectSound, AnswerDocumentSound

LEMMA AgentHeadFailsSound ==
  ASSUME IInv, NEW c \in Clients, NEW s, AgentHeadFails(c, s)
  PROVE  IInv'
BY Facts, EndsSound DEF AgentHeadFails, Failures, IInv

LEMMA PageAnswerSound ==
  ASSUME IInv, NEW c \in Clients, NEW s \in Responses, PageAnswer(c, s)
  PROVE  IInv'
<1> DEFINE q == req[c]
           read == IF RawArm(q) THEN ReadRaw(s.body) ELSE SubresourceFetch(s.body)
           m == [hops[c] EXCEPT !.completed = @ + 1]
           n == [m EXCEPT !.logged = @ + 1]
<1>1. /\ q \in Sent /\ Sound(q, hops[c], wire[c]) /\ hops[c] \in Hop /\ q.phase = "wait" /\ q.kind \in Page
      /\ hops = [hops EXCEPT ![c] = hops[c]] /\ wire' = wire
  BY Facts DEF PageAnswer, Page
<1>2. s.body \in Bodies
  BY DEF Responses
<1>3. /\ read \in {"ok"} \union Failures /\ (read = "ok" => s.body.whole /\ ~s.body.large)
      /\ read = "ok" /\ q.kind \in Page /\ q.url.scheme = "http" => s.body.coding = "identity"
  BY <1>2, ReadVerdicts DEF RawArm, Page
<1>4. CASE read # "ok"
  <2>1. read \in Failures /\ Ends(c, read) /\ hops' = hops /\ given' \subseteq jar'
    BY <1>3, <1>4 DEF PageAnswer, IInv
  <2> HIDE DEF read
  <2> QED BY <1>1, <2>1, EndsSound
<1>5. CASE read = "ok"
  <2>1. n \in Hop /\ n.sent = hops[c].sent
    <3>1. m \in Hop /\ m.sent = hops[c].sent
      BY <1>1 DEF Hop
    <3> HIDE DEF m
    <3> QED BY <3>1 DEF Hop
  <2>2. hops' = [hops EXCEPT ![c] = n]
    <3>1. hops' = [hops EXCEPT ![c].completed = @ + 1, ![c].logged = @ + 1]
      BY <1>5 DEF PageAnswer, PageHop
    <3> QED BY <3>1 DEF IInv, Typed
  <2>3. given' \subseteq jar'
    BY <1>5 DEF PageAnswer, PageHop, IInv
  <2> HIDE DEF n
  <2>4. CASE ~IsRedirect(s)
    <3>1. Serves(c, s.body)
      BY <1>5, <2>4 DEF PageAnswer
    <3> QED BY <1>1, <1>2, <1>3, <1>5, <2>1, <2>2, <2>3, <3>1, ServesSound
  <2>5. CASE IsRedirect(s) /\ q.hops >= MaxFetchHops
    <3>1. Ends(c, "too_many_redirects") /\ "too_many_redirects" \in Failures
      BY <1>5, <2>5 DEF PageAnswer, Failures
    <3> QED BY <1>1, <2>1, <2>2, <2>3, <3>1, EndsSound
  <2>6. CASE IsRedirect(s) /\ ~(q.hops >= MaxFetchHops)
    <3> DEFINE r == PageRedirect(q, s)
    <3>1. req' = [req EXCEPT ![c] = r]
      BY <1>5, <2>6 DEF PageAnswer
    <3>2. s.loc \in Urls
      BY <2>6 DEF Responses, IsRedirect
    <3>3. /\ r \in Sent /\ r.phase = "guard" /\ r.result = q.result /\ r.kind = q.kind
          /\ r.hops = q.hops + 1 /\ r.body = ~Plain(r.method) /\ r.entity = r.body
      <4>1. q.body = ~Plain(q.method) /\ q.entity = q.body
        BY <1>1 DEF Sound, UnderWay
      <4>2. CASE RewritesToGet(s.status, q.method)
        <5> DEFINE p == Moved(q, s.loc, "guard")
        <5>1. r = [p EXCEPT !.method = "GET", !.body = FALSE, !.entity = FALSE]
          BY <4>2 DEF PageRedirect, Moved
        <5>2. p \in Sent /\ p.phase = "guard" /\ p.result = q.result /\ p.kind = q.kind /\ p.hops = q.hops + 1
          BY <1>1, <3>2, MovedRecord
        <5>3. Plain("GET")
          BY DEF Plain
        <5>4. /\ r \in Sent /\ r.phase = p.phase /\ r.result = p.result /\ r.kind = p.kind
              /\ r.hops = p.hops /\ r.method = "GET" /\ r.body = FALSE /\ r.entity = FALSE
          <6> HIDE DEF p, r
          <6> QED BY <5>1, <5>2 DEF Sent
        <5> HIDE DEF p, r
        <5> QED BY <5>2, <5>3, <5>4
      <4>3. CASE ~RewritesToGet(s.status, q.method)
        <5> DEFINE p == Moved(q, s.loc, "guard")
        <5>1. r = p
          BY <4>3 DEF PageRedirect, Moved
        <5>2. /\ p \in Sent /\ p.phase = "guard" /\ p.result = q.result /\ p.kind = q.kind
              /\ p.hops = q.hops + 1 /\ p.method = q.method /\ p.body = q.body /\ p.entity = q.entity
          BY <1>1, <3>2, MovedRecord
        <5> HIDE DEF p, r, q
        <5> QED BY <4>1, <5>1, <5>2
      <4> QED BY <4>2, <4>3
    <3>4. Within(r, hops[c].sent) /\ r.result = "none"
      BY <1>1, <2>6, <3>3, PagesAre DEF Sound, UnderWay, Within, Waits, Sent, Hop
    <3> HIDE DEF r
    <3> QED BY <1>1, <2>1, <2>2, <2>3, <3>1, <3>3, <3>4, GoesOnSound
  <2> QED BY <2>4, <2>5, <2>6
<1> QED
  <2> HIDE DEF read
  <2> QED BY <1>4, <1>5

LEMMA StepSound ==
  ASSUME IInv, NEW c \in Clients, Step(c)
  PROVE  IInv'
BY GuardSound, DialSound, WriteSound, TimesOutSound, AgentAnswerSound, AgentHeadFailsSound, PageAnswerSound DEF Step

LEMMA Inductive == IInv /\ [Next]_vars => IInv'
<1> SUFFICES ASSUME IInv, [Next]_vars PROVE IInv'
  OBVIOUS
<1>1. ASSUME NEW c \in Clients, Begin(c) \/ Step(c) PROVE IInv'
  BY <1>1, BeginSound, StepSound
<1>2. CASE UNCHANGED vars
  BY <1>2 DEF vars, IInv, Typed, Sound, UnderWay, Kept, Within
<1> QED BY <1>1, <1>2 DEF Next

\* What is known of every request holds in every state.
THEOREM Invariant == Spec => []IInv
BY Initially, Inductive, PTL DEF Spec

-----------------------------------------------------------------------------
\* Whatever redirects, refreshes and changing names come together, no request is
\* ever sent to a link-local or an unspecified address.
THEOREM RefusedNeverDialled == Spec => []NeverDialsRefused
<1>1. IInv => NeverDialsRefused
  BY DEF IInv, Sound, Kept, NeverDialsRefused
<1> QED BY <1>1, Invariant, PTL

\* A navigation sends at most (redirects + 1) * (refreshes + 1) requests and a
\* page's request one more than its redirects, for every value of the budgets.
THEOREM BudgetsHold == Spec => []WithinBudget
<1>1. IInv => WithinBudget
  BY DEF IInv, Sound, Kept, WithinBudget, Page, Pages
<1> QED BY <1>1, Invariant, PTL

\* Through every chain of redirects a page's GET and HEAD are without body and
\* entity headers, and every other method is with both.
THEOREM BodiesFollowMethods == Spec => []BodyGoesWithMethod
<1>1. IInv => BodyGoesWithMethod
  BY DEF IInv, Sound, Kept, BodyGoesWithMethod, Page, Plain
<1> QED BY <1>1, Invariant, PTL

\* Every request, of either client, presents the cookie its host has set before.
THEOREM CookiesAlwaysRide == Spec => []CookiesRide
<1>1. IInv => CookiesRide
  BY DEF IInv, Sound, Kept, CookiesRide
<1> QED BY <1>1, Invariant, PTL

\* Only whole, decoded bodies within the cap are handed to a caller.
THEOREM BodiesAreWhole == Spec => []NoPrefixServed
<1>1. IInv => NoPrefixServed
  BY DEF IInv, Sound, Kept, Good, NoPrefixServed, Page
<1> QED BY <1>1, Invariant, PTL

\* A request is of a kind its client sends, only documents are refreshed, and the jar
\* has cookies of hosts that there are.
KindFits(c, r) ==
  /\ r.kind \in Kinds[c] \union {None}
  /\ r.phase # "done" /\ r.kind \in Page => r.metas = 0

KindsAndHosts ==
  /\ \A c \in Clients : KindFits(c, req[c])
  /\ jar \subseteq {u.host : u \in Urls}

LEMMA KindsInitially == Init => KindsAndHosts
BY DEF Init, Idle, KindsAndHosts, KindFits

LEMMA KindKept ==
  ASSUME Typed, KindsAndHosts, NEW c \in Clients, NEW r, req' = [req EXCEPT ![c] = r],
         KindFits(c, r), jar' \subseteq {u.host : u \in Urls}
  PROVE  KindsAndHosts'
<1>1. \A d \in Clients : req'[d] = IF d = c THEN r ELSE req[d]
  BY DEF Typed
<1> QED
  BY <1>1 DEF KindsAndHosts

LEMMA KindsBegin == ASSUME Typed, KindsAndHosts, NEW c \in Clients, Begin(c) PROVE KindsAndHosts'
<1>1. ASSUME NEW r, Begins(c, r), KindFits(c, r) PROVE KindsAndHosts'
  <2>1. req' = [req EXCEPT ![c] = r] /\ jar' = jar
    BY <1>1 DEF Begins
  <2>2. jar' \subseteq {u.host : u \in Urls}
    BY <2>1 DEF KindsAndHosts
  <2> QED
    BY <1>1, <2>1, <2>2, KindKept
<1>2. \A kind \in Kinds[c] : \A u, m, b : KindFits(c, Fresh(kind, u, m, b))
  BY DEF Fresh, KindFits
<1>3. CASE \E u \in Urls : Navigate(c, u)
  BY <1>1, <1>2, <1>3 DEF Navigate
<1>4. CASE \E u \in Urls, m \in Methods, b \in BOOLEAN : RequestData(c, u, m, b) \/ ReadImage(c, u)
  BY <1>1, <1>2, <1>4 DEF RequestData, ReadImage
<1>5. CASE \E u \in Urls, m \in Methods : Fetch(c, u, m) \/ XhrSend(c, u, m)
  BY <1>1, <1>2, <1>5 DEF Fetch, XhrSend, PageSpec
<1>6. CASE XhrSendUnopened(c)
  <2>1. KindFits(c, [Idle EXCEPT !.result = "xhr_not_opened"])
    BY DEF Idle, KindFits
  <2> QED
    BY <1>1, <1>6, <2>1 DEF XhrSendUnopened
<1> QED
  BY <1>3, <1>4, <1>5, <1>6 DEF Begin

LEMMA KindsStep == ASSUME IInv, KindsAndHosts, NEW c \in Clients, Step(c) PROVE KindsAndHosts'
<1> DEFINE q == req[c]
<1>1. Typed /\ KindFits(c, q) /\ jar \subseteq {u.host : u \in Urls}
  BY DEF IInv, KindsAndHosts
<1>2. ASSUME NEW r, req' = [req EXCEPT ![c] = r], r.kind = q.kind,
             r.phase = "done" \/ (q.phase # "done" /\ r.metas = q.metas) \/ r.kind = "document",
             jar' \subseteq {u.host : u \in Urls}
      PROVE  KindsAndHosts'
  <2>1. KindFits(c, r)
    BY <1>1, <1>2 DEF KindFits, Page
  <2> QED
    BY <1>1, <1>2, <2>1, KindKept
<1>3. ASSUME NEW phase, q.phase # "done", req' = [req EXCEPT ![c].phase = phase],
             jar' \subseteq {u.host : u \in Urls}
      PROVE  KindsAndHosts'
  <2> DEFINE r == [q EXCEPT !.phase = phase]
  <2>1. req' = [req EXCEPT ![c] = r]
    BY <1>1, <1>3 DEF Typed
  <2>2. r.kind = q.kind /\ r.metas = q.metas
    <3>1. q \in Sent
      BY <1>3 DEF IInv, Sound, UnderWay
    <3> HIDE DEF q
    <3> QED
      BY <3>1 DEF Sent
  <2> HIDE DEF r
  <2> QED
    BY <1>2, <1>3, <2>1, <2>2
<1>4. q \in Sent \union Unsent /\ (q.phase # "done" => q \in Sent)
  BY <1>1 DEF IInv, Sound, UnderWay, Typed
<1>5. ASSUME NEW result, Ends(c, result), jar' \subseteq {u.host : u \in Urls} PROVE KindsAndHosts'
  <2> DEFINE r == [q EXCEPT !.phase = "done", !.result = result]
  <2>1. req' = [req EXCEPT ![c] = r]
    BY <1>1, <1>5 DEF Ends, Typed
  <2>2. r.kind = q.kind /\ r.phase = "done"
    <3> HIDE DEF q
    <3> QED
      BY <1>4 DEF Sent, Unsent
  <2> HIDE DEF r
  <2> QED
    BY <1>2, <1>5, <2>1, <2>2
<1>6. ASSUME NEW b, Serves(c, b), jar' \subseteq {u.host : u \in Urls} PROVE KindsAndHosts'
  <2> DEFINE r == [q EXCEPT !.phase = "done", !.result = "ok", !.served = b]
  <2>1. req' = [req EXCEPT ![c] = r]
    BY <1>1, <1>6 DEF Serves, Typed
  <2>2. r.kind = q.kind /\ r.phase = "done"
    <3> HIDE DEF q
    <3> QED
      BY <1>4 DEF Sent, Unsent
  <2> HIDE DEF r
  <2> QED
    BY <1>2, <1>6, <2>1, <2>2
<1>7. CASE Guard(c) \/ Write(c) \/ TimesOut(c) \/ \E s \in Responses : AgentHeadFails(c, s)
  <2>1. jar' \subseteq {u.host : u \in Urls}
    BY <1>1, <1>7 DEF Guard, Write, TimesOut, AgentHeadFails
  <2>2. (\E result : Ends(c, result)) \/ \E phase : q.phase # "done" /\ req' = [req EXCEPT ![c].phase = phase]
    BY <1>7 DEF Guard, Write, TimesOut, AgentHeadFails
  <2>3. CASE \E phase : q.phase # "done" /\ req' = [req EXCEPT ![c].phase = phase]
    BY <1>3, <2>1, <2>3
  <2> QED
    BY <1>5, <2>1, <2>2, <2>3
<1>8. CASE \E addrs : Dial(c, addrs)
  <2>1. jar' \subseteq {u.host : u \in Urls}
    BY <1>1, <1>8 DEF Dial
  <2>2. \/ \E result : Ends(c, result)
        \/ q.phase # "done" /\ req' = [req EXCEPT ![c].phase = IF RawArm(q) THEN "write" ELSE "wait"]
    BY <1>8 DEF Dial
  <2>3. CASE q.phase # "done" /\ req' = [req EXCEPT ![c].phase = IF RawArm(q) THEN "write" ELSE "wait"]
    BY <1>3, <2>1, <2>3
  <2> QED
    BY <1>5, <2>1, <2>2, <2>3
<1>9. ASSUME q.phase = "wait", NEW s, jar' = (IF s.cookie THEN jar \union {q.url.host} ELSE jar)
      PROVE  jar' \subseteq {u.host : u \in Urls}
  <2>1. q.url \in Urls
    BY <1>4, <1>9 DEF Sent
  <2> QED
    BY <1>1, <1>9, <2>1
<1>10. ASSUME NEW s \in Responses, AgentAnswer(c, s) PROVE KindsAndHosts'
  <2>1. q.phase = "wait" /\ jar' \subseteq {u.host : u \in Urls}
    BY <1>9, <1>10 DEF AgentAnswer
  <2>2. CASE AnswerRedirect(c, q, s)
    <3>1. CASE RedirectPolicy(q, s.loc) # "follow"
      BY <1>5, <2>1, <2>2, <3>1 DEF AnswerRedirect
    <3>2. CASE RedirectPolicy(q, s.loc) = "follow"
      <4> DEFINE rewrites == s.status # 307
                 r == [q EXCEPT !.url = s.loc, !.hops = @ + 1, !.phase = "dial",
                                !.method = IF rewrites /\ @ # "HEAD" THEN "GET" ELSE @,
                                !.body = @ /\ ~rewrites, !.entity = @ /\ ~rewrites]
      <4>1. req' = [req EXCEPT ![c] = r]
        BY <2>2, <3>2 DEF AnswerRedirect
      <4>2. r.kind = q.kind /\ r.metas = q.metas
        <5> HIDE DEF q
        <5> QED
          BY <1>4, <2>1 DEF Sent
      <4> HIDE DEF r
      <4> QED
        BY <1>2, <2>1, <4>1, <4>2
    <3> QED
      BY <3>1, <3>2
  <2>3. CASE AnswerDocument(c, q, s)
    <3>1. CASE (\E result : Ends(c, result)) \/ Serves(c, s.body)
      BY <1>5, <1>6, <2>1, <3>1
    <3>2. CASE q.kind = "document"
               /\ req' = [req EXCEPT ![c] = [Fresh("document", s.refresh, "GET", FALSE) EXCEPT !.metas = q.metas + 1]]
      <4>1. [Fresh("document", s.refresh, "GET", FALSE) EXCEPT !.metas = q.metas + 1].kind = "document"
        BY DEF Fresh
      <4> QED
        BY <1>2, <2>1, <3>2, <4>1
    <3> QED
      BY <2>3, <3>1, <3>2 DEF AnswerDocument
  <2> QED
    BY <1>10, <2>2, <2>3 DEF AgentAnswer
<1>11. ASSUME NEW s \in Responses, PageAnswer(c, s) PROVE KindsAndHosts'
  <2>1. q.phase = "wait" /\ jar' \subseteq {u.host : u \in Urls}
    <3>1. q.phase = "wait" /\ (PageHop(c, q, s) \/ jar' = jar)
      BY <1>11 DEF PageAnswer
    <3> QED
      BY <1>1, <1>9, <3>1 DEF PageHop
  <2>2. (\E result : Ends(c, result)) \/ Serves(c, s.body) \/ req' = [req EXCEPT ![c] = PageRedirect(q, s)]
    BY <1>11 DEF PageAnswer
  <2>3. PageRedirect(q, s).kind = q.kind /\ PageRedirect(q, s).metas = q.metas
    <3> HIDE DEF q
    <3> QED
      BY <1>4, <2>1 DEF Sent, PageRedirect
  <2> QED
    BY <1>2, <1>5, <1>6, <2>1, <2>2, <2>3
<1> QED
  BY <1>7, <1>8, <1>10, <1>11 DEF Step

LEMMA KindsNext == IInv /\ KindsAndHosts /\ [Next]_vars => KindsAndHosts'
<1> SUFFICES ASSUME IInv, KindsAndHosts, [Next]_vars PROVE KindsAndHosts'
  OBVIOUS
<1>1. ASSUME NEW c \in Clients, Begin(c) \/ Step(c) PROVE KindsAndHosts'
  BY <1>1, KindsBegin, KindsStep DEF IInv
<1>2. CASE UNCHANGED vars
  BY <1>2 DEF vars, KindsAndHosts
<1> QED
  BY <1>1, <1>2 DEF Next

\* A request keeps the kind its client gave it through every redirect and refresh, is
\* within its budgets, and only hosts that were asked are in the jar (TypeOK).
THEOREM TypeCorrect == Spec => []TypeOK
<1>1. IInv /\ KindsAndHosts => TypeOK
  <2> SUFFICES ASSUME IInv, KindsAndHosts PROVE TypeOK
    OBVIOUS
  <2>1. ASSUME NEW c \in Clients
        PROVE  /\ req[c].phase \in {"guard", "dial", "write", "wait", "done"}
               /\ req[c].phase # "done" =>
                    req[c].hops <= MaxRedirects + MaxFetchHops /\ req[c].metas <= MaxMetaHops
    <3>1. req[c] \in Sent \union Unsent /\ (req[c].phase # "done" => req[c] \in Sent /\ Within(req[c], hops[c].sent))
      BY DEF IInv, Typed, Sound, UnderWay
    <3>2. CASE req[c].phase = "done"
      BY <3>2
    <3>3. CASE req[c].phase # "done"
      <4>1. req[c].hops \in Nat /\ req[c].phase \in {"guard", "dial", "write", "wait", "done"}
        BY <3>1, <3>3 DEF Sent
      <4>2. \/ req[c].kind \in Page /\ req[c].hops <= MaxFetchHops
            \/ req[c].hops <= MaxRedirects /\ req[c].metas <= MaxMetaHops
        BY <3>1, <3>3 DEF Within
      <4>3. req[c].metas <= MaxMetaHops
        BY <3>3, <4>2, BudgetsOK DEF KindsAndHosts, KindFits
      <4> QED
        BY <4>1, <4>2, <4>3, BudgetsOK
    <3> QED
      BY <3>2, <3>3
  <2>2. given \subseteq {u.host : u \in Urls}
    BY DEF IInv, KindsAndHosts
  <2> QED
    BY <2>1, <2>2 DEF TypeOK, KindsAndHosts, KindFits
<1> QED
  BY Invariant, KindsInitially, KindsNext, <1>1, PTL DEF Spec

-----------------------------------------------------------------------------
(* The log.                                                                 *)

NumbersAreGivenOut ==
  /\ \A k \in DOMAIN ring : ring[k] < next
  /\ \A c \in Recorders : number[c] # Nothing => number[c] < next

\* The inductive invariant.
LogInv == LogTypeOK /\ RingIsLatest /\ NumbersAreUnique /\ NumbersAreGivenOut

\* Pushing onto a ring of at most Cap entries keeps the latest of them.
LEMMA PushedIsLatest ==
  ASSUME LogTypeOK, RingIsLatest, NEW e \in 0..MaxHops
  PROVE  /\ Pushed(e) \in Seq(0..MaxHops)
         /\ Len(Pushed(e)) = IF Len(arrived) + 1 <= Cap THEN Len(arrived) + 1 ELSE Cap
         /\ Len(Pushed(e)) \in 1..(Len(ring) + 1)
         /\ Pushed(e)[Len(Pushed(e))] = e
         /\ \A k \in 1..(Len(Pushed(e)) - 1) :
              Pushed(e)[k] = ring[Len(ring) - Len(Pushed(e)) + 1 + k]
<1>1. /\ ring \in Seq(0..MaxHops) /\ Len(ring) \in Nat
      /\ arrived \in Seq(0..MaxHops) /\ Len(arrived) \in Nat
      /\ Cap \in Nat /\ Cap > 0
      /\ Len(ring) = IF Len(arrived) <= Cap THEN Len(arrived) ELSE Cap
  BY CapOK DEF LogTypeOK, RingIsLatest
<1>2. CASE Len(ring) >= Cap
  <2>1. Pushed(e) = Append(Tail(ring), e)
    BY <1>2 DEF Pushed
  <2>2. ring # << >> /\ Len(ring) = Cap /\ Len(arrived) >= Cap
    BY <1>1, <1>2
  <2>3. /\ Tail(ring) \in Seq(0..MaxHops) /\ Len(Tail(ring)) = Len(ring) - 1
        /\ \A k \in 1..(Len(ring) - 1) : Tail(ring)[k] = ring[k + 1]
    BY <1>1, <2>2
  <2> QED
    BY <1>1, <2>1, <2>2, <2>3
<1>3. CASE ~(Len(ring) >= Cap)
  <2>1. Pushed(e) = Append(ring, e) /\ Len(ring) = Len(arrived)
    BY <1>1, <1>3 DEF Pushed
  <2> QED
    BY <1>1, <1>3, <2>1
<1> QED
  BY <1>2, <1>3

LEMMA LogInitially == LogInit => LogInv
BY MaxHopsOK, CapOK DEF LogInit, LogInv, LogTypeOK, RingIsLatest, NumbersAreUnique, NumbersAreGivenOut,
                 Range

LEMMA TakeNumberStep == ASSUME LogInv, NEW c \in Recorders, TakeNumber(c) PROVE LogInv'
<1> USE MaxHopsOK, NothingOK DEF LogInv, TakeNumber
<1>1. next \in 0..MaxHops /\ next < MaxHops /\ next \in Nat
  BY DEF LogTypeOK
<1>2. number' = [number EXCEPT ![c] = next] /\ next' = next + 1 /\ ring' = ring
  OBVIOUS
<1>3. LogTypeOK'
  BY <1>1 DEF LogTypeOK
<1>4. RingIsLatest'
  BY DEF RingIsLatest
<1>5. \A k \in DOMAIN ring : ring[k] < next /\ ring[k] \in Nat
  BY DEF LogTypeOK, NumbersAreGivenOut
<1>6. \A d \in Recorders : number[d] # Nothing => number[d] < next /\ number[d] \in Nat
  BY DEF LogTypeOK, NumbersAreGivenOut
<1>7. NumbersAreUnique'
  BY <1>1, <1>2, <1>5, <1>6 DEF LogTypeOK, NumbersAreUnique, Range
<1>8. NumbersAreGivenOut'
  BY <1>1, <1>2, <1>5, <1>6 DEF LogTypeOK, NumbersAreGivenOut
<1> QED
  BY <1>3, <1>4, <1>7, <1>8

LEMMA PushStep == ASSUME LogInv, NEW c \in Recorders, Push(c) PROVE LogInv'
<1> USE DEF LogInv
<1> DEFINE e == number[c]
           p == Pushed(e)
<1>1. /\ e # Nothing /\ e \in 0..MaxHops
      /\ ring' = p /\ arrived' = Append(arrived, e) /\ next' = next
      /\ number' = [number EXCEPT ![c] = Nothing]
      /\ response' = response /\ lost' = lost
  BY DEF Push, LogTypeOK
<1>2. /\ p \in Seq(0..MaxHops)
      /\ Len(p) = IF Len(arrived) + 1 <= Cap THEN Len(arrived) + 1 ELSE Cap
      /\ Len(p) \in 1..(Len(ring) + 1)
      /\ p[Len(p)] = e
      /\ \A k \in 1..(Len(p) - 1) : p[k] = ring[Len(ring) - Len(p) + 1 + k]
  BY <1>1, PushedIsLatest
<1> HIDE DEF p
<1>3. /\ ring \in Seq(0..MaxHops) /\ Len(ring) \in Nat /\ DOMAIN ring = 1..Len(ring)
      /\ arrived \in Seq(0..MaxHops) /\ Len(arrived) \in Nat
      /\ DOMAIN p = 1..Len(p) /\ Len(p) \in Nat
  BY <1>2 DEF LogTypeOK
<1>4. LogTypeOK'
  BY <1>1, <1>2, <1>3 DEF LogTypeOK
<1>5. /\ Len(arrived') = Len(arrived) + 1 /\ arrived'[Len(arrived')] = e
      /\ \A k \in 1..Len(arrived) : arrived'[k] = arrived[k]
  BY <1>1, <1>3
<1>6. RingIsLatest'
  <2>1. Len(ring') = IF Len(arrived') <= Cap THEN Len(arrived') ELSE Cap
    BY <1>1, <1>2, <1>5
  <2>2. ASSUME NEW k \in 1..Len(p) PROVE p[k] = arrived'[Len(arrived') - Len(p) + k]
    <3>1. CASE k = Len(p)
      BY <1>2, <1>3, <1>5, <3>1
    <3>2. CASE k # Len(p)
      <4> DEFINE j == Len(ring) - Len(p) + 1 + k
      <4>1. k \in 1..(Len(p) - 1) /\ p[k] = ring[j] /\ j \in 1..Len(ring)
        BY <1>2, <1>3, <3>2
      <4>2. ring[j] = arrived[Len(arrived) - Len(ring) + j]
        BY <4>1 DEF RingIsLatest
      <4>3. Len(arrived) - Len(ring) + j = Len(arrived') - Len(p) + k
        BY <1>3, <1>5
      <4>4. Len(arrived) - Len(ring) + j \in 1..Len(arrived)
        <5>1. Len(ring) <= Len(arrived)
          BY <1>3, CapOK DEF RingIsLatest
        <5> QED
          BY <1>3, <4>1, <5>1
      <4> QED
        BY <1>5, <4>1, <4>2, <4>3, <4>4
    <3> QED
      BY <3>1, <3>2
  <2> QED
    BY <1>1, <2>1, <2>2 DEF RingIsLatest
<1>7. ASSUME NEW k \in DOMAIN p, k # Len(p)
      PROVE  /\ k \in 1..(Len(p) - 1)
             /\ Len(ring) - Len(p) + 1 + k \in DOMAIN ring
             /\ p[k] = ring[Len(ring) - Len(p) + 1 + k]
  <2>1. k \in 1..(Len(p) - 1)
    BY <1>3, <1>7
  <2>2. Len(ring) - Len(p) + 1 + k \in 1..Len(ring)
    BY <1>2, <1>3, <2>1, SMTT(60)
  <2> QED
    BY <1>2, <1>3, <2>1, <2>2
<1>8. NumbersAreUnique'
  <2>1. ASSUME NEW j \in DOMAIN p, NEW k \in DOMAIN p, j # k PROVE p[j] # p[k]
    <3>1. e \notin Range(ring)
      BY <1>1 DEF NumbersAreUnique
    <3>2. CASE j # Len(p) /\ k # Len(p)
      <4> DEFINE a == Len(ring) - Len(p) + 1 + j
                 b == Len(ring) - Len(p) + 1 + k
      <4>1. p[j] = ring[a] /\ p[k] = ring[b] /\ a \in DOMAIN ring /\ b \in DOMAIN ring
        BY <1>7, <3>2
      <4>2. a # b
        BY <1>3, <2>1
      <4> QED
        BY <4>1, <4>2 DEF NumbersAreUnique
    <3>3. CASE j = Len(p) \/ k = Len(p)
      <4>1. \A i \in DOMAIN p : i # Len(p) => p[i] # e
        BY <1>7, <3>1 DEF Range
      <4> QED
        BY <1>2, <2>1, <3>3, <4>1
    <3> QED
      BY <3>2, <3>3
  <2>2. \A d \in Recorders : number'[d] # Nothing => d # c /\ number'[d] = number[d]
    BY <1>1 DEF LogTypeOK
  <2>3. \A d \in Recorders : number'[d] # Nothing => number'[d] \notin Range(p)
    <3>1. ASSUME NEW d \in Recorders, number'[d] # Nothing, NEW k \in DOMAIN p
          PROVE  p[k] # number'[d]
      <4>1. d # c /\ number'[d] = number[d]
        BY <2>2, <3>1
      <4>2. CASE k = Len(p)
        BY <1>1, <1>2, <3>1, <4>1, <4>2 DEF NumbersAreUnique
      <4>3. CASE k # Len(p)
        BY <1>7, <3>1, <4>1, <4>3 DEF NumbersAreUnique, Range
      <4> QED
        BY <4>2, <4>3
    <3> QED
      BY <3>1 DEF Range
  <2>4. \A b, d \in Recorders : b # d /\ number'[b] # Nothing => number'[b] # number'[d]
    BY <1>1, <2>2 DEF NumbersAreUnique, LogTypeOK
  <2> QED
    BY <1>1, <2>1, <2>3, <2>4 DEF NumbersAreUnique, Range
<1>9. NumbersAreGivenOut'
  <2>1. \A k \in DOMAIN p : p[k] < next
    BY <1>1, <1>2, <1>7 DEF NumbersAreGivenOut
  <2> QED
    BY <1>1, <2>1 DEF NumbersAreGivenOut, LogTypeOK
<1> QED
  BY <1>4, <1>6, <1>8, <1>9

LEMMA EmptiedStep ==
  ASSUME LogInv, ring' = << >>, arrived' = << >>, UNCHANGED <<next, number>>, LogTypeOK'
  PROVE  LogInv'
BY CapOK DEF LogInv, RingIsLatest, NumbersAreUnique, NumbersAreGivenOut, Range

LEMMA LogPreserved == LogInv /\ [LogNext]_logVars => LogInv'
<1> SUFFICES ASSUME LogInv, [LogNext]_logVars PROVE LogInv'
  OBVIOUS
<1>1. CASE UNCHANGED logVars
  BY <1>1 DEF logVars, LogInv, LogTypeOK, RingIsLatest, NumbersAreUnique, NumbersAreGivenOut, Range
<1>2. ASSUME NEW r \in Readers, Snapshot(r) PROVE LogInv'
  BY <1>2 DEF Snapshot, LogInv, LogTypeOK, RingIsLatest, NumbersAreUnique, NumbersAreGivenOut,
              Range
<1>3. ASSUME NEW r \in Readers, Drain(r) PROVE LogInv'
  <2>1. Range(ring) \subseteq 0..MaxHops
    <3>1. ring \in Seq(0..MaxHops)
      BY DEF LogInv, LogTypeOK
    <3>2. DOMAIN ring = 1..Len(ring) /\ \A k \in 1..Len(ring) : ring[k] \in 0..MaxHops
      BY <3>1, ElementOfSeq, LenProperties
    <3> QED
      BY <3>2 DEF Range
  <2>2. lost' \subseteq 0..MaxHops
    BY <1>3, <2>1 DEF Drain, LogInv, LogTypeOK
  <2>3. LogTypeOK'
    BY <1>3, <2>2 DEF Drain, LogInv, LogTypeOK
  <2> QED
    BY <1>3, <2>3, EmptiedStep DEF Drain
<1>4. ASSUME NEW r \in Readers, Reset(r) PROVE LogInv'
  <2>1. LogTypeOK'
    BY <1>4 DEF Reset, LogInv, LogTypeOK
  <2> QED
    BY <1>4, <2>1, EmptiedStep DEF Reset
<1> QED
  BY <1>1, <1>2, <1>3, <1>4, TakeNumberStep, PushStep DEF LogNext

LEMMA LogInvariance == LogSpec => []LogInv
BY LogInitially, LogPreserved, PTL DEF LogSpec

\* The ring, what is on its way to it and what a drain took are entries the counter
\* has given out (LogTypeOK).
THEOREM LogTypeCorrect == LogSpec => []LogTypeOK
<1>1. LogInv => LogTypeOK
  BY DEF LogInv
<1> QED
  BY <1>1, LogInvariance, PTL

\* Whatever recorders, drains and resets interleave, the ring is the latest
\* entries to arrive since it was emptied, at most Cap of them and never fewer
\* than there is room for.
THEOREM RingHoldsLatest == LogSpec => []RingIsLatest
<1>1. LogInv => RingIsLatest
  BY DEF LogInv
<1> QED
  BY <1>1, LogInvariance, PTL

\* Taking the number outside the lock never hands one number to two hops, and
\* no reset reuses one.
THEOREM NumbersNeverCollide == LogSpec => []NumbersAreUnique
<1>1. LogInv => NumbersAreUnique
  BY DEF LogInv
<1> QED
  BY <1>1, LogInvariance, PTL

=============================================================================
