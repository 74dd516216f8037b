------------------------------- MODULE WebApi --------------------------------
(***************************************************************************)
(* The objects that page script makes and that outlive one call: abort     *)
(* controllers and their signals, responses of fetch, caches,              *)
(* XMLHttpRequest, the page's WebSocket, and the custom elements registry  *)
(* (src/crates/se-js/src/bridge.rs).                                       *)
(*                                                                         *)
(* Script calls, and callbacks that it registered call again: dispatch is  *)
(* a stack of frames.  Promise reactions are jobs in a queue, run in order *)
(* when no callback is on the stack.  Requests block (HttpClient), so an   *)
(* answer is there when the call returns.                                  *)
(***************************************************************************)
EXTENDS Integers, Sequences, FiniteSets, SequencesExt

CONSTANTS
  Controllers,  \* AbortControllers
  Reasons,      \* what abort() is passed
  Callbacks,    \* the functions script registers
  Names,        \* of caches and of custom elements
  Keys,         \* request URLs, the keys of a cache
  Bodies,       \* what servers answer
  NoReason, NoEntry, Undefined, Nothing,  \* model values
  MaxCalls      \* bound of the model

ASSUME BodiesOK == {Undefined, Nothing, NoEntry} \cap Bodies = {}
ASSUME ReasonsOK == NoReason \notin Reasons

VARIABLES
  signals,    \* of the controllers; a listener is a registration and its callback
  called,     \* for each registration of a listener, how often it was called
  firing,     \* the stack of dispatches under way
  responses,  \* the Response objects: what their text() does, and their body
  store,      \* caches: the record each name stands for, 0 for none
  records,    \* every cache ever made, with its entries
  puts,       \* every cache.put so far
  jobs,       \* promise reactions that are due
  xhr,        \* an XMLHttpRequest
  socket,     \* the last WebSocket the page made, if any
  defined,    \* names of custom elements that are defined
  waiting,    \* promises of whenDefined: the name, and whether it is resolved
  calls       \* of script, so far

dom == << signals, called, firing >>
cache == << responses, store, records, puts, jobs >>
others == << xhr, socket, defined, waiting >>
vars == << dom, cache, others, calls >>

Init ==
  /\ signals = [c \in Controllers |->
       [aborted |-> FALSE, reason |-> NoReason, on |-> FALSE, listeners |-> {}]]
  /\ called = <<>> /\ firing = <<>>
  /\ responses = <<>> /\ store = [n \in Names |-> 0] /\ records = <<>> /\ puts = <<>> /\ jobs = <<>>
  /\ xhr = [opened |-> FALSE, status |-> 0, text |-> Nothing, headers |-> Nothing]
  /\ socket = [ready |-> "none", buffered |-> 0]
  /\ defined = {} /\ waiting = <<>>
  /\ calls = 0

---------------------------------------------------------------------------
(* Signals.                                                                 *)

\* signal.addEventListener: not looked up first, so a callback may be there twice.
AddListener(c, f) ==
  /\ signals' = [signals EXCEPT ![c].listeners = @ \cup {[reg |-> Len(called) + 1, cb |-> f]}]
  /\ called' = Append(called, 0)
  /\ UNCHANGED << firing, cache, others >>

\* signal.removeEventListener: every registration of the callback.
RemoveListener(c, f) ==
  /\ signals' = [signals EXCEPT ![c].listeners = {l \in @ : l.cb # f}]
  /\ UNCHANGED << called, firing, cache, others >>

SetOnAbort(c) ==
  /\ signals' = [signals EXCEPT ![c].on = ~ @]
  /\ UNCHANGED << called, firing, cache, others >>

\* A dispatch: the on<type> property first; its listeners are listed after that.
Dispatch(c) == [signal |-> c, todo |-> IF signals[c].on THEN {0} ELSE {}, listed |-> FALSE]

\* MUTANT of Abort: a signal that is aborted is not left alone.
AbortAgain(c, reason) ==
  /\ signals' = [signals EXCEPT ![c].aborted = TRUE, ![c].reason = reason]
  /\ firing' = Append(firing, Dispatch(c))
  /\ UNCHANGED << called, cache, others >>

\* controller.abort(reason): flag, reason, then the listeners, before it returns.
Abort(c, reason) ==
  /\ ~ signals[c].aborted
  /\ signals' = [signals EXCEPT ![c].aborted = TRUE, ![c].reason = reason]
  /\ firing' = Append(firing, Dispatch(c))
  /\ UNCHANGED << called, cache, others >>

\* The next callback of the innermost dispatch, in the order of registration.
\* Registration 0 is onabort.
Fire ==
  /\ firing # <<>>
  /\ LET top == Last(firing)
         outer == Front(firing)
     IN \/ \E r \in top.todo :
             /\ \A q \in top.todo : r <= q
             /\ called' = IF r = 0 THEN called ELSE [called EXCEPT ![r] = @ + 1]
             /\ firing' = Append(outer, [top EXCEPT !.todo = @ \ {r}])
        \/ /\ top.todo = {} /\ ~ top.listed
           /\ firing' = Append(outer, [top EXCEPT !.listed = TRUE,
                                        !.todo = {l.reg : l \in signals[top.signal].listeners}])
           /\ UNCHANGED called
        \/ /\ top.todo = {} /\ top.listed
           /\ firing' = outer
           /\ UNCHANGED called
  /\ UNCHANGED << signals, cache, others, calls >>

---------------------------------------------------------------------------
(* Responses and caches.                                                    *)

\* What text() does, for cache.put: "pair" calls the pair it is passed, and then its
\* promise resolves with undefined (fetch); "promise" ignores the pair, and its
\* promise resolves with the body (a cached response); of those script makes itself,
\* "refuses" answers a promise that rejects, "throws" throws, "bare" returns the body
\* and calls nobody, and "none" is one without text(), a string for one.
Response(text, body) == [text |-> text, body |-> body]

\* A response-like of script; one whose text() answers the body is as "promise".
MakeResponse ==
  /\ \/ \E b \in Bodies : responses' = Append(responses, Response("none", b))
     \/ \E text \in {"refuses", "throws", "bare"} :
          responses' = Append(responses, Response(text, Nothing))
  /\ UNCHANGED << dom, store, records, puts, jobs, others >>

\* fetch(url, {signal}): a signal that is aborted rejects it before it starts;
\* later the request is not given up any more.  One that fails leaves no response.
Fetch(c) ==
  /\ ~ signals[c].aborted
  /\ \E b \in Bodies : responses' = Append(responses, Response("pair", b))
  /\ UNCHANGED << dom, store, records, puts, jobs, others >>

\* caches.open(name)
Open(n) ==
  /\ store[n] = 0
  /\ store' = [store EXCEPT ![n] = Len(records) + 1]
  /\ records' = Append(records, [k \in Keys |-> NoEntry])
  /\ UNCHANGED << dom, responses, puts, jobs, others >>

\* caches.delete(name): a cache that script still has goes on by itself.
DeleteCache(n) ==
  /\ store' = [store EXCEPT ![n] = 0]
  /\ UNCHANGED << dom, responses, records, puts, jobs, others >>

\* cache.delete(request)
DeleteEntry(r, k) ==
  /\ records' = [records EXCEPT ![r][k] = NoEntry]
  /\ UNCHANGED << dom, responses, store, puts, jobs, others >>

\* cache.match and caches.match: a response of its own with the entry's body.
Match(r, k) ==
  /\ records[r][k] # NoEntry
  /\ responses' = Append(responses, Response("promise", records[r][k]))
  /\ UNCHANGED << dom, store, records, puts, jobs, others >>

\* MUTANT of Settle: the flag that a put has its body is not looked at.
SettleAgain(p, body) ==
  /\ puts' = [puts EXCEPT ![p].settled = TRUE]
  /\ records' = [records EXCEPT ![puts[p].rec][puts[p].key] = body]

\* put's done(body): the first body wins.
Settle(p, body) ==
  IF puts[p].settled THEN UNCHANGED << puts, records >>
  ELSE /\ puts' = [puts EXCEPT ![p].settled = TRUE]
       /\ records' = [records EXCEPT ![puts[p].rec][puts[p].key] = body]

\* The promise of text() rejects, and with it the put.
RefusePut(p) ==
  /\ puts' = [puts EXCEPT ![p].refused = TRUE]
  /\ UNCHANGED records

\* A put, with what is known of it when text() has returned.
PutRecord(r, k, resp) ==
  [rec |-> r, key |-> k, resp |-> resp, settled |-> responses[resp].text \in {"pair", "none"},
   refused |-> responses[resp].text = "throws"]

\* MUTANT of Put: only the pair is waited for, not the promise.
PutPairOnly(queue, r, k, resp) ==
  LET put == PutRecord(r, k, resp)
  IN /\ puts' = Append(puts, put)
     /\ records' = IF put.settled THEN [records EXCEPT ![r][k] = responses[resp].body] ELSE records
     /\ jobs' = queue

\* cache.put(request, response): the body is there at once, or its promise is waited
\* for; a text() that returns something else leaves the put as it is.
Put(queue, r, k, resp) ==
  LET put == PutRecord(r, k, resp)
      text == responses[resp].text
      body == responses[resp].body
  IN /\ puts' = Append(puts, put)
     /\ records' = IF put.settled THEN [records EXCEPT ![r][k] = body] ELSE records
     /\ jobs' = IF text \in {"pair", "promise", "refuses"}
                THEN Append(queue, [put |-> Len(puts) + 1,
                                    body |-> IF text = "pair" THEN Undefined ELSE body])
                ELSE queue

CachePut(r, k, resp) == Put(jobs, r, k, resp) /\ UNCHANGED << dom, responses, store, others >>

\* cache.add(request): the fetch is done at once, the put is a reaction to it.
CacheAdd(r, k) ==
  /\ \E b \in Bodies : responses' = Append(responses, Response("pair", b))
  /\ jobs' = Append(jobs, [rec |-> r, key |-> k, resp |-> Len(responses) + 1])
  /\ UNCHANGED << dom, store, records, puts, others >>

\* The next promise reaction.
RunJob ==
  /\ firing = <<>> /\ jobs # <<>>
  /\ LET job == Head(jobs)
     IN IF "put" \in DOMAIN job
        THEN /\ IF responses[puts[job.put].resp].text = "refuses" THEN RefusePut(job.put)
                ELSE Settle(job.put, job.body)
             /\ jobs' = Tail(jobs)
        ELSE Put(Tail(jobs), job.rec, job.key, job.resp)
  /\ UNCHANGED << dom, responses, store, others, calls >>

---------------------------------------------------------------------------
(* XMLHttpRequest, WebSocket, custom elements.                              *)

XhrOpen ==
  /\ xhr' = [xhr EXCEPT !.opened = TRUE]
  /\ UNCHANGED << dom, cache, socket, defined, waiting >>

\* send() before open() has no URL.
XhrUnopened == [xhr EXCEPT !.status = 0, !.text = Nothing]

\* MUTANT of XhrFailed: the headers of the answer before stay.
XhrFailedKeepsHeaders == [xhr EXCEPT !.status = 0, !.text = Nothing]

XhrFailed == [xhr EXCEPT !.status = 0, !.text = Nothing, !.headers = Nothing]

XhrAnswered(b) == [xhr EXCEPT !.status = 200, !.text = b, !.headers = b]

XhrSend ==
  /\ IF xhr.opened THEN xhr' \in {XhrFailed} \cup {XhrAnswered(b) : b \in Bodies}
     ELSE xhr' = XhrUnopened
  /\ UNCHANGED << dom, cache, socket, defined, waiting >>

\* new WebSocket(url): an object that never opens, and no connection.
NewSocket ==
  /\ socket' = [ready |-> "connecting", buffered |-> 0]
  /\ UNCHANGED << dom, cache, xhr, defined, waiting >>

\* What is sent is counted until the socket is closed; after that send() throws.
SocketSend ==
  /\ socket.ready = "connecting"
  /\ socket' = [socket EXCEPT !.buffered = @ + 1]
  /\ UNCHANGED << dom, cache, xhr, defined, waiting >>

SocketClose ==
  /\ socket.ready # "none"
  /\ socket' = [ready |-> "closed", buffered |-> 0]
  /\ UNCHANGED << dom, cache, xhr, defined, waiting >>

\* customElements.define: a name may be defined again; promises are not looked at.
Define(n) ==
  /\ defined' = defined \cup {n}
  /\ UNCHANGED << dom, cache, xhr, socket, waiting >>

WhenDefined(n) ==
  /\ waiting' = Append(waiting, [name |-> n, resolved |-> n \in defined])
  /\ UNCHANGED << dom, cache, xhr, socket, defined >>

---------------------------------------------------------------------------

\* One call of script, at the top level or in a callback.
Call ==
  \/ \E c \in Controllers :
       \/ \E f \in Callbacks : AddListener(c, f) \/ RemoveListener(c, f)
       \/ SetOnAbort(c) \/ Fetch(c)
       \/ \E reason \in Reasons : Abort(c, reason)
  \/ \E n \in Names : Open(n) \/ DeleteCache(n) \/ Define(n) \/ WhenDefined(n)
  \/ \E r \in DOMAIN records, k \in Keys :
       \/ DeleteEntry(r, k) \/ Match(r, k) \/ CacheAdd(r, k)
       \/ \E resp \in DOMAIN responses : CachePut(r, k, resp)
  \/ MakeResponse
  \/ XhrOpen \/ XhrSend \/ NewSocket \/ SocketSend \/ SocketClose

Next == (calls < MaxCalls /\ Call /\ calls' = calls + 1) \/ Fire \/ RunJob

Spec == Init /\ [][Next]_vars /\ WF_vars(Fire) /\ WF_vars(RunJob)

---------------------------------------------------------------------------
(* Properties.                                                              *)

\* The callbacks of a signal run once: each registration is called at most one
\* time however its callbacks abort again, and while a dispatch runs its signal
\* reads aborted (abort: "flag, reason, then dispatch").
SignalsFireOnce ==
  /\ \A r \in DOMAIN called : called[r] <= 1
  /\ \A i \in DOMAIN firing : signals[firing[i].signal].aborted

\* What a cache has under a key is the body of a response that was put there, of a
\* fetch or of another cache, and never what the promise of text() resolves with
\* (put: "the first body wins, later calls must not overwrite").
CacheServesWhatWasPut ==
  \A r \in DOMAIN records, k \in Keys :
    records[r][k] # NoEntry =>
      \E p \in DOMAIN puts :
        puts[p].settled /\ puts[p].rec = r /\ puts[p].key = k
          /\ responses[puts[p].resp].body = records[r][k]

\* Status, text and headers of an XMLHttpRequest are those of one answer, or all
\* three say that there was none.
XhrAnswersTogether ==
  (xhr.status = 0) = (xhr.text = Nothing) /\ xhr.headers = xhr.text

\* Every put is settled in the end, with the body or with a refusal, and every
\* dispatch returns: for a response that calls the pair, that answers a promise, that
\* throws, or that has no text() ("Both consumption paths may fire").
PutsSettle ==
  []<>(/\ firing = <<>>
       /\ \A p \in DOMAIN puts :
            puts[p].settled \/ puts[p].refused \/ responses[puts[p].resp].text = "bare")

\* Every put is settled in the end, whatever it was given ("put() accepts our fetch
\* responses (raw text() pair contract) AND plain string/response-likes").
EveryPutSettles == []<>(\A p \in DOMAIN puts : puts[p].settled \/ puts[p].refused)

\* A name that is defined resolves the promises that wait for it (whenDefined:
\* "resolves when defined").
DefinitionsAreAwaited ==
  \A w \in DOMAIN waiting : waiting[w].name \in defined => waiting[w].resolved
=============================================================================
