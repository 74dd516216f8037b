# A TLA+ model of searchio-engine

searchio-engine is a headless scraping engine: an HTTP client with a browser's
headers and cookie jar, an HTML parser, and V8 with a hand-written DOM bridge,
behind one JSON endpoint (`POST /rpc`) on localhost. Agents load pages into tabs
(`goto`, `fetch`), run scripts in them (`eval`), read them, save and restore
sessions, and own WebSockets.

The modules here model the parts of the engine in which the order of events
matters, and the few algorithms whose result is more than a conversion. They were
written from the Rust source; where a comment states what the code should do,
the comment is used as a property, never as a definition.

## 1. The system

| part | source | state | operations | module |
|---|---|---|---|---|
| tab table and verbs | `se-serve/src/lib.rs` | `Engine.tabs`: address, text, session storage, archive of session storage per origin, writeback slot | goto, fetch, eval, close_tab | `Tabs` |
| render mode | same | the tab, a hop counter, `RenderStats` | snapshot, collect, fetch and run scripts, adopt, follow the script's navigation | `Tabs` (the loop), `Render` (a pass) |
| JS actor | same, `se-js/src/lib.rs` | a channel of 16 commands, one worker thread with one V8 isolate | eval, reply | `Tabs` |
| document writeback | same, `se-js/src/bridge.rs` | a slot per loaded document | publish, take, adopt | `Tabs`, `LiveDocument` |
| storage | same | a session map per tab and origin, a local map per origin shared by all tabs (`local_pool`) | get, set, reset, restore | `Tabs` (whose map), `Session` (what is in it) |
| session artifact | same | the cookie jar, the pool, a JSON file | storage_state_get/set, session_save/load/reset, load at start, save at shutdown | `Session` |
| network log | `se-net/src/lib.rs` (`NetLog`) | a ring of 256 entries, a counter | record, snapshot, clear | `NetLog` |
| WebSockets | `se-net/src/ws.rs`, verbs in `se-serve` | `ws_conns`: the connections not in use | ws_connect, ws_send, ws_recv, ws_close | `WebSocket`, `Mailbox` |
| HTTP client | `se-net/src/lib.rs`, `bridge.rs` | connections, cookie jar | navigate (redirects, meta refresh), data calls, page fetch and XHR, capped bodies | `HttpClient` |
| event loop | `bridge.rs` | per eval: timers, cancelled ids, observer queues, a clock | the timer calls, observers, `settle` | `EventLoop` |
| DOM bridge | `bridge.rs` | per eval: document text and tree, element wrappers, listeners, history | DOM operations, events, history and location | `Page` |
| Web Audio | `bridge.rs`, `audio.rs` | contexts, nodes, edges, buffers | create, connect, start, startRendering | `Audio` |
| Web API objects | `bridge.rs` | signals, caches, XMLHttpRequest, WebSocket shape, custom elements | abort, put, match, send, define, structuredClone | `WebApi`, `StructuredClone` |
| DOM parser | `se-dom` | none | parse, select, snapshot, text | `Document` (what is read out) |
| stateless Web API shapes, image headers, HTTP/2 capture | `se-js`, `se-serve`, `se-net` | none | conversions | not modelled |

How they interact. Every verb is an async handler on a multi-threaded runtime.
The engine's tables are behind mutexes that are never held across an await, so a
handler is a sequence of short critical sections, with the network, the worker
thread, the file system, or nothing in between. Scripts run one at a time on the
worker; a handler sends a copy of the tab (with handles of its storage maps and of
its writeback slot) through the channel and waits for a one-shot reply. Inside an
eval everything is single-threaded, but script calls the bridge, which calls
script back: from timers, observers, event dispatch, promise reactions. A client that
disconnects drops its handler at the await it is in; a command it has already sent
still runs.

What is hard about it, and the reason for the model: a handler's decisions rest on
what it read before an await or in an earlier critical section; two agents may
use one tab, one connection, one log or one file; a worker may die with commands
queued; a time limit may cut an operation on a stream in two; a reset or a restore
replaces maps that evals in flight still hold; the process may crash between two
steps of a save; a server chooses every redirect, refresh, cookie, body and
address; and a page's callbacks change the very queues that are being
worked through. `PROJECT.json` lists these hazards at their lines, each with
the properties that would catch it going wrong or with the reason why none does.

## 2. The modules

| module | what it is |
|---|---|
| `Tabs` | the tab table, the render loop, the JS actor, writebacks and which storage map is whose |
| `LiveDocument` | what `Tabs` promises about a tab's document |
| `NetLog` | the network log |
| `WebSocket` | one connection: its pool, the verbs, the frame reader |
| `Mailbox` | what `WebSocket` promises about messages and pongs |
| `HttpClient` | requests of agents and pages, hop by hop |
| `Session` | the jar, the pool and the tabs' storage under reset, restore, save, crash and boot |
| `EventLoop` | timers, observers and the pump of one eval |
| `Page` | the document, wrappers, listeners and history of one eval |
| `Audio` | the audio graph and its offline rendering |
| `WebApi` | signals, caches, XMLHttpRequest, the page's WebSocket, custom elements |
| `StructuredClone` | structuredClone as an algorithm on graphs |
| `Document` | snapshot, text and scripts of a document as functions of it, used by `Render` |
| `Render` | one render: which scripts run and what the caller is told |
| `TabsProofs`, `WebSocketProofs`, `SessionProofs`, `EventLoopProofs`, `PageProofs`, `RenderProofs` | theorems about the module of the same name |
| `NetProofs` | theorems about `HttpClient` and `NetLog` |
| `WebApiProofs` | theorems about `WebApi` and `Audio` |
| `MCTabs`, `MCNetLog`, `MCWebSocket`, `MCHttpClient`, `MCSession`, `MCEventLoop`, `MCPage`, `MCAudio`, `MCWebApi`, `MCRender` | values of constants for TLC; `MCWebApi` composes `WebApi` and `StructuredClone` |

### Tabs

`tabs` is `Engine.tabs`, `pool` is `local_pool`, `channel` and `running` are the
actor's channel and current command, `alive` is the thread, `slots` are the
`writeback` cells, and `req[c]` is the handler of client `c` with its local variables.
A document is a body and the list of clients whose scripts have mutated it: that is
as much of the text as adoption, which compares texts, can tell apart. Two
answers with the same body are equal, as in the code.

Each critical section is one action. `goto` is `Navigate` (the initiator is read,
the request leaves), `NavigationAnswers` (the next tab is computed by
`AfterNavigation` under one lock) and `InsertTab` (it is stored under another);
with `render` it goes on with `RenderSnapshot`, `CollectScripts`, `Send`,
the worker, `TakeWriteback`, `Adopt` and `Follow`, which may lead back to
the network. `Eval` joins at `Send`. The final address of a navigation is the
server's choice and need not be the one asked for.

Storage maps and slots are `Arc`s in the code; here each has a number, chosen
among those that no tab, handler or command refers to. `Store` records the tab and origin
a map was created for, so that "the map of another origin" can be said.

### Render and Document

`Render` is the inside of what `Tabs` has as one step: `Collect` is `render_pass` up to
`collect_scripts`, `FetchUnit` one turn of its loop of downloads, `Eval` the
harness's run and its statistics, `Stays`, `Follows` and `GivesUp` the branches of
`render_tab`. The document of a pass is any tree of up to `MaxNodes` nodes.
`Document` has the functions the engine reads a tree with (`Walk` for
`read_snapshot`, `Marks` and `PutMark` for `inner_text_node`, `Scripts` for
`collect_scripts`), in the order in which the code comes to the nodes, and next to them
reference definitions by ancestors, without an order. Two lists leave elements out: what is listed
nowhere (`NonRendering`) has more of them than what is no text (`NoText`). A node's attributes are part of its
tag; a text node is one word.

### NetLog

`TakeNumber` is the `fetch_add`, `Push` the section under the lock; `Snapshot` and
`Drain` are the two sections of `network_log` with `clear`; `Reset` is
`session_reset`'s use of it. `arrived` and `lost` are history variables. The specification is `LogSpec`:
its names leave those of `HttpClient` free, so that one module has the proofs of both.

### WebSocket

The stream is a sequence of frame parts, a head and a body per frame, because the
code awaits the stream separately for each; `inbox` holds the parts that have
arrived. `ReadHead` and `ReadBody` are `read_head`, `read_payload` and the branches
of `next_frame`; `Pong` and `Echo` are its writes; `Message` is what `ws_recv`
makes of a message (answer it and pool the connection, or report a close and drop it) or the drain
of `close` (go on). A body that is taken for a head, after a time limit cut
a frame, may say anything: `ReadHead` then answers something made up, or fails.
`Timeout` ends any await on the stream, a read that has nothing to read or a write
that a peer holds up. `cut` records the first time that one came in the middle
of something. The peer keeps to RFC 6455: it may fragment, put a ping inside a
fragmented message (which ends the read and the connection: `next_frame` expects a
continuation), close at any time, stall, or disappear. Of what the engine writes,
`outbox` keeps the numbers of messages and close frames and the pongs in their order, as
nothing depends on how the three kinds are interleaved.

### HttpClient

`req[c]` is the request client `c` is at: its address, method, whether it has a body and
entity headers, the redirects and refreshes it has followed. A hop is `Guard` (the
check of the address as written: `refused_target`), `Dial` (the lookup, the check of
what it answered and the connection to one of those addresses; the cookie is read
from the jar here), for a page's plain http a `Write`, and an answer. `AgentAnswer` is reqwest with `redirect_policy`, then
`navigate`'s loop; `PageAnswer` is one turn of `blocking_fetch`, which reads bodies
before it looks at the status. A body is described by its framing, its
coding and whether it is whole and within the cap. `TimesOut` stands for every
limit on connecting and reading; a `Write` has none. An answer to a lookup may differ each time. The server, and
reqwest's following of redirects (from its documentation), are environment.

### Session

Every call on the jar, a map, the table or the file system is a step of its own:
`ResetJar`, `ResetTabs`, `ResetPool` are `session_reset`; `CopyJar`, `CopyPool`,
`OpenTmp`, `WriteTmp`, `Rename` are `session_save`, `storage_state_get` being the first
two; `ReadFile`, `InsertCookie` (one cookie), `RestoreTab`, `RestoreOrigins` are
`session_load`, and `SetState` enters them at the second for `storage_state_set`. `Boot`,
`Listens`, `Stop`, `Exit` and `Crash` are the process, which runs the same steps itself
(`Main`). Files are inodes, so that a handler goes on writing to what it opened
when the name has been moved. Storage maps have numbers (`maps`), which the pool, the tabs, evals
and navigations hold: a navigation takes the map of the tab as it computes the next tab
(`TabComputed`) and puts it back under the lock taken again (`TabStored`). What a map holds is the
reset during which it was last written (`at`); a cookie has that, the one during which its
handler began (`began`), and who put it into the jar first (`by`): a server, with or without a
Domain, or a script, whose cookies the code opens to subdomains. `missed` is the history
of what a reset did not reach: the maps with an item that no tab had when `ResetTabs` ran.

### EventLoop

`running` says whose turn it is: the script, the pump, a timer's callback, a flush,
an observer's callback. While script runs it may make any call (`ScriptCalls`).
`FireDueTimers` is the sleep and the batch taken out by `fire_due_timers`; `FireTimer` and
`CallbackEnds` one turn of its loop; `FlushStarts`, `DeliverGroup`, `ObserverReturns`,
`FlushEnds` are `cb_observer_flush`. Requests that the bridge refuses later (IndexedDB,
geolocation) and `scheduler.postTask` are timers whose ids script is not given.
`fate` is a history variable: what became of each mutation record. What the code selects from a
queue (timers that are due, records of an observer) is said by places: `InOrder` lists a set of
places, `Pick`, `Only` and `Without` keep what is at them, `GroupedBy` makes the groups of a flush.

### Page

`doc` is the arena of the parsed tree (empty when `State::doc` has been taken and not put
back), `html` the text. A node's number is its slot, which is what wrappers keep; `born` is the
model's own name for the node and says what a number means. `Mutate` is
`State::mutate` when the operation lands, `Misses` when it does not (the tree is then `dropped`)
and `Panics` when no html element is left to serialize. Queries walk the nodes of the arena that have a
parent (`Parented`), those inside a removed element too. A wrapper is an `ElementData`: its number, its tag and
attributes (`top`), its `html`, which is the outer HTML of the element it was read from, and the markup script stashed on
it; `Outer` is `to_outer_html_with`, and `Fragment` what the parser leaves of it. `Ancestors` is the way up from a node, `Before` the order
of a document (an ancestor first, then by the children of the common ancestor), `Markup` a
tree's nodes in that order: the text is such markup, and parsing it makes a tree of it. `Phases` and `ClickPhases` are `event_phases`
and the order of a click; `NavigateCore` and `HistoryGo` are the history.

### Audio, WebApi, StructuredClone

`Audio` keeps `connect` as the code does: an edge to the context's destination is a flag,
any other an entry of a list. `Followed` is the walk from a source with what it met (`Past` is one
hop of it), `Rendered` is `render_chain` and `Mix` the mix of `startRendering`; `Signal` is what the Web
Audio API defines. Sums over nodes are running sums (`Total`), in the order in which the nodes were made.
In `WebApi` a dispatch is a frame on a stack, so that callbacks nest, and promise reactions
are jobs run when the stack is empty. A response is what its `text()` does and its body (`Response`), which
is all that `cache.put` sees of it. Listeners are a set of numbered registrations and a frame's
`todo` the numbers it has still to call, lowest first: the list of the code, which is only
appended to and filtered. In `StructuredClone` the calls of `deep_clone_json` under way are a stack (`todo`), each
but the last waiting for the copy of one slot of its object; `Due` is the argument of the next call,
each way that a call can go is an action, and `Answer` puts what it answers where it is awaited. A refusal
(`?` in the code) ends every call at once.

## 3. The runs

A run is `tlc -config <cfg> <module>`, with the module and cfg `PROJECT.json` gives.

| run | checks | result | distinct states |
|---|---|---|---|
| `tabs_navigation` | `TypeOK`, `SessionStorageIsPrivate`, `LocalStorageIsShared`, `SessionStorageIsKept`, `MutationsAccumulate`, `RequestsEnd` | hold | 102,936 |
| `tabs_worker` | `RepliesMatchHandlers` | holds | 78,186 |
| `tabs_concurrent_navigation` | `SessionStorageIsKept` | violated | |
| `netlog` | `RingIsLatest`, `NumbersAreUnique` | hold | 233,493 (up to symmetry) |
| `websocket` | `PoolIsSound`, `MessagesInOrder`, `PingsAnsweredInOrder`, `ReadsEnd` | hold | 626,236 |
| `http` | `NeverDialsRefused`, `WithinBudget`, `BodyGoesWithMethod`, `CookiesRide`, `NoPrefixServed`, `RequestsEnd` | hold | 16,697 |
| `session` | `CookiesKeepScope`, `ResetForgets`, `FileIsLastSaved`, `BootAndStopEnd` | hold | 926,079 |
| `eventloop` | `PromisedWorkIsQueued`, `RecordsInOnePlace`, `ClearedStaysCleared`, `PumpEnds` | hold | 965,826 |
| `page` | `HtmlFollowsTree`, `WrappersKeepTheirElement`, `HistoryCoherent` | hold | 253,472 |
| `audio` | `RendersTheGraph` | holds | 1,340,929 |
| `webapi` | `SignalsFireOnce`, `CacheServesWhatWasPut`, `XhrAnswersTogether`, `ClonesAreFaithful`, `PutsSettle` | hold | 1,340,613 |
| `render` | `ScriptsAccountedFor`, `TerminalReasonSurvives`, `SnapshotListsVisible`, `TextBreaksAtBlocks` | hold | 1,403,496 |

Every property of a passing run has a mutant in `PROJECT.json`: a plausible bug of a
definition under which TLC finds the property violated. The mutated definitions stand
next to the ones they change, marked `MUTANT`. `TypeOK` is a definition of the other state
modules too (all but `WebApi`, `StructuredClone` and `Render`); it holds under their constants but is not
part of the runs, which ask questions a type does not answer.

**What the passing runs show.**

- `tabs_navigation`: a client that navigates (with and without render) and one that
  evaluates share a tab over two origins. Storage maps never cross tabs or origins,
  and with one navigation at a time none is lost; all evals of an origin work on its one local
  map; the tab table implements `LiveDocument`, so a mutation is adopted only on top
  of the very text it began with; and every request ends, a render follow
  after at most `NavMaxHops` navigations.
- `tabs_worker`: two evaluating clients that disconnect and come back, a client that
  closes, resets and restores, a channel of one place and a worker that may die in
  any command. A handler that waits has exactly one command that will answer it,
  and no command answers anyone else.
- `netlog`: three recorders and two readers on a ring of two.
- `websocket`: two clients contend for one connection while the peer does all it
  may. Verbs exclude each other; messages and pongs refine `Mailbox` up to the first time
  limit that comes inside a frame, and until then a connection that goes back to the pool
  owes no pong for a ping that was read; reads end.
- `http`: whatever chain of redirects and refreshes a server makes and whatever its name
  resolves to, no refused address is dialled, budgets multiply and are kept, a page's
  method, body and entity headers agree, cookies of every completed hop ride, nothing
  but a whole body is served, and every request ends that is not held up writing a body.
- `session`: cookies keep their scope over round trips through the artifact and the file;
  once no reset is under way nothing older than the last one is left in the jar, the pool
  and the tabs, though handlers held on to maps, but in a map that no tab had
  when the reset went through them; with one client that saves, the file is always what
  was last committed, whenever the process dies; boot and shutdown get through whatever is on disk.
- `eventloop`: what the bridge promised to do later has its timer in the queue, a mutation
  record is in one place until it is delivered, taken or dropped, a cleared timer does not
  come back, and the pump ends within its budget against endless intervals.
- `page`: the text handed back to the tab is the serialization of the tree; as long
  as no operation was refused, the number in a wrapper goes on meaning the element it was read from; the
  history index, its states and `location` agree.
- `audio`: for plain chains (no branches, compressor last, no longer than the walk) the
  rendering equals the signal that the API defines.
- `webapi`: an abort calls each registration once even if listeners abort again, or abort another
  controller whose listeners abort the first; a cache
  serves the body of a response that was put, not what a promise resolved with; an
  XMLHttpRequest's status, text and headers are of one answer; puts settle if `text()` calls back, answers
  a promise, throws or is not there. The run composes
  `WebApi` with `StructuredClone`, which shares no state with it: a behaviour makes calls or
  clones a value, and each graph of three cells is cloned to an isomorphic one or refused.
- `render`: every script element of every document is accounted for in the statistics whatever the
  caps cut (unless an eval fails as a whole or a listener throws), the reason of a render that gives up is kept, and the snapshot and the text
  equal their reference definitions on every document and every selected element.

**What the code does not do.** Some statements of the repository's comments are false of the code.
`PROJECT.json` lists them under `findings`, with the lines quoted. One has a run of its own
(`tabs_concurrent_navigation`: two overlapping navigations of one tab compute the next tab
and store it in two critical sections, and the session storage of an origin is
lost). The others are stated in the modules; to see the counterexample, check the statement
with the constants of the run named here:

| statement | constants | what happens |
|---|---|---|
| `Tabs!UnchangedUrlIsNoFollow` | `tabs_concurrent_navigation` | a render navigates the tab back when another client has navigated it meanwhile |
| `Tabs!MutationBecomesLive` | the same, with `Navigators = {n1}`, `Evaluators = {e1, e2}` | of two evals of the same text one's mutation is dropped, and its sender is told that it succeeded |
| `Tabs!FreshNavigationWins` | `tabs_navigation` | a reload that answers the same text does not invalidate a mutation of the document before it |
| `NetLog!DrainReportsWhatItRemoves` | `netlog` | a hop recorded between the copy and the clear is lost |
| `WebSocket!MessagesSurviveTimeouts` | `websocket` | the retry after a time limit inside a frame takes payload for a frame |
| `WebSocket!PingsEndNoRead` | `websocket` | a ping inside a fragmented message is not answered, and the verb that reads it drops the connection |
| `WebSocket!OneCloseFrame` | `websocket` | `ws_close` sends two close frames when the peer answers its first |
| `WebSocket!ClosedNeverGoesBack` | `websocket` | a receive that times out while echoing a close frame pools a closed connection |
| `HttpClient!EveryRequestEnds` | `http` | a page posts a body by plain http to a server that does not read it: the write has no time limit |
| `Session!WholePoolSaved` | `session` | an artifact for a tab that has gone has no local storage |
| `Session!FreshAfterReset` | `session` | a navigation begun before the reset stores its cookie after it |
| `Session!TabsForgotten` | `session` | a navigation computes the next tab, the tab is closed and the session reset, and the navigation puts the old session map back |
| `Session!ScriptCookiesAreHostOnly` | `session` | a cookie set by script goes to the subdomains of its host too |
| `Session!FileIsLastSaved` | `session`, with `Savers = {c1, c2}` | two saves share the `.tmp` file, and one commits the other's half |
| `EventLoop!PromisedWorkIsQueued` | `eventloop`, with `GuessesIds = TRUE` | a page that clears ids it was never given takes an answer or a flush with it |
| `Page!WrappersAreNeverMoved` | `page` | a wrapper of an element that is no longer in the document is moved to another element with the same id by the next mutation through it |
| `Page!QueriesSeeTheDocument` | `page` | a query finds what is inside an element that was removed or replaced |
| `Page!NothingPanics` | `page` | `document.documentElement.remove()` leaves nothing that `mutate` can serialize |
| `Audio!CopyStaysInChannel` | `audio` | `copyToChannel` goes on into the next channel |
| `WebApi!EveryPutSettles` | `webapi` | the `text()` of a response-like returns the body, and the put waits for ever |
| `WebApi!DefinitionsAreAwaited` | `webapi` | `define` does not resolve the promises of `whenDefined` |

The remaining findings need no counterexample: appendChild copies and does not move,
`mutate` drops the tree when it refuses, node ids survive a mutation where comments say that they do
not (`WrappersKeepTheirElement` is what the code does), innerHTML answers a snapshot, a wrapper's html is its outer
HTML and is wrapped again, clones copy
engine wrappers, and a render that gives up does not count its reason.

**Bounds.** All are constants, named as bounds where they are declared or act.
*Tabs*: `Ids` (three) numbers maps and slots of a kind: a tab, a page in flight and a navigation
about to store can hold three at a time. `MaxMutations` bounds the text, not the
number of evals. `NavMaxHops` is 1 instead of 10: the follow loop is
entered, repeated and refused. Two origins suffice for leaving and re-entering; a third
would only add archives that never meet. The channel has one place instead of 16, so
that it is full. `MaxOrphans` bounds commands of clients that have gone. `tabs_worker`
has no addresses, since replies do not depend on documents; `tabs_navigation` has no
administrating client because `LocalStorageIsShared` says nothing across a reset.
An artifact to restore has local storage for at most one origin. *NetLog*: the ring holds two
entries and six are recorded: full, overtaken and emptied in every order. *WebSocket*: the
peer sends two messages and two pings; each message may be fragmented, and a ping may be inside
(the read fails then, so the pings that are answered in order come between messages).
A task that always has something to read yields to its timer only after many frames; the
model has fewer, so `Timeout` needs an empty `inbox` (or a write that is held up).
*HttpClient*: two requests of one client, budgets of two redirects and one refresh, so that
each is used up, multiplied and exceeded; eight bodies, one for each way a body can be read
or refused; a refused literal, a name that sometimes answers a refused address, an address
of another scheme. *Session*: two clients, one of which saves and restores, three verbs (resets and closed tabs
do not count), a reset and a crash: two navigations and an eval, or a save, a load
and a request in flight, in any order; one name for cookies of every scope, so that each replaces the
others; the artifact that a caller sends has a host-only cookie and storage.
*EventLoop*: three calls, a budget of two ticks; a callback of a
callback, and a timer beyond the budget, occur. *Page*: four calls on a tree of four nodes
with room for four more, so that copies of a subtree nested in itself are grafted; an element is the
html, a table row made by script, which the parser skips when it stands alone, or one that may stand anywhere,
and the text of an element is part of its one value (a made row has none). *Audio*: eight calls, four nodes (the destination included) and one outgoing
edge per node; a chain is as long as the walk (three hops instead of eight) or longer.
*WebApi*: six calls, two controllers with two callbacks, one cache and key; script makes one response of its own,
and then at most five calls and none to XMLHttpRequest, WebSocket or the registry, which share nothing with the caches. *StructuredClone*: three
cells of at most two slots are enough for a cycle, a shared part and something refused in one graph. *Render*: documents
of four nodes, one external script and two reasons allowed, one hop: each cap is
reached and passed.

**Fairness.** `Tabs!Fairness`: a handler that can go on does (weak fairness), the
transport answers or fails (the client sets finite time limits), the channel grants
places in the order they were asked for (strong fairness of `Send`: tokio's
semaphore is FIFO), and the worker takes commands. That scripts end is an
assumption about pages: nothing in the code interrupts a running script. `WorkerDies`
and `Cancel` are never required. `WebSocket!Fairness`: a receive or a drain that can read or
whose time limit can pass does one of them. No fairness is assumed of the peer, nor of
the writes of `ws_send` and of `ws_close`'s own close frame, which have no time
limit: `ReadsEnd` therefore begins after that write. `HttpClient!FairSpec`: the guard is
evaluated and the clock runs, and a request without a body is written, as its head
fits into the buffer of the socket; that a server reads a body, or answers, is not assumed. `Session!FairSpec`:
each handler's steps, and those by which the process listens and exits; nothing boots it or stops it.
`EventLoop!Spec`: the pump, with the return of the callbacks it makes, and the clock.
`WebApi!Spec`: dispatch and the job queue. The other modules state no liveness.

`CHECK_DEADLOCK FALSE` is said where the system may really stop or a bound ends the calls:
all runs but those of `Tabs` and `NetLog`.

## 4. What is proved

Proved by TLAPS for every value of the constants, from the named assumptions
of the modules (`tlapm <module>.tla`):

| theorem | statement | assumes |
|---|---|---|
| `TabsProofs!TypeCorrect` | `Spec => []TypeOK` | `ConstantsOK`, `NoneOK` |
| `TabsProofs!SessionStoragePrivate` | `Spec => []SessionStorageIsPrivate` | the same |
| `TabsProofs!TableImplementsLiveDocument` | `Spec => MutationsAccumulate` | the same |
| `TabsProofs!RepliesAlwaysMatch` | `Spec => []RepliesMatchHandlers` | the same |
| `TabsProofs!LocalStorageShared` | `Spec => []LocalStorageIsShared` | the same |
| `TabsProofs!SessionStorageKept` | one navigator at most: `Spec => SessionStorageIsKept` | the same |
| `NetProofs!LogTypeCorrect` | `LogSpec => []LogTypeOK` | `CapOK`, `MaxHopsOK`, `NothingOK` |
| `NetProofs!RingHoldsLatest` | `LogSpec => []RingIsLatest` | `CapOK`, `MaxHopsOK`, `NothingOK` |
| `NetProofs!NumbersNeverCollide` | `LogSpec => []NumbersAreUnique` | the same |
| `WebSocketProofs!TypeCorrect` | `Spec => []TypeOK` | `ClientsOK`, `BoundsOK` |
| `WebSocketProofs!PoolSound` | `Spec => []PoolIsSound` | the same |
| `WebSocketProofs!AgentsGetMessagesInOrder` | `Spec => MessagesInOrder` | the same |
| `WebSocketProofs!PingsGetPongsInOrder` | `Spec => PingsAnsweredInOrder` | the same |
| `NetProofs!TypeCorrect` | `Spec => []TypeOK` | `BudgetsOK`, `BodiesOK` |
| `NetProofs!RefusedNeverDialled` | `Spec => []NeverDialsRefused` | the same |
| `NetProofs!BudgetsHold` | `Spec => []WithinBudget` | the same |
| `NetProofs!BodiesFollowMethods` | `Spec => []BodyGoesWithMethod` | the same |
| `NetProofs!CookiesAlwaysRide` | `Spec => []CookiesRide` | the same |
| `NetProofs!BodiesAreWhole` | `Spec => []NoPrefixServed` | the same |
| `SessionProofs!TypeCorrect` | `Spec => []TypeOK` | `ClientsOK`, `NoneOK`, `DefaultTabOK` |
| `SessionProofs!CookiesAlwaysScoped` | `Spec => []CookiesKeepScope` | `ClientsOK`, `NoneOK` |
| `SessionProofs!ResetAlwaysForgets` | `Spec => []ResetForgets` | the same |
| `SessionProofs!FileAlwaysLastSaved` | no two savers: `Spec => []FileIsLastSaved` | the same |
| `EventLoopProofs!TypeCorrect` | `Spec => []TypeOK` | `ClockOutlastsBudget`, `TimesAreNatural`, `SetupsAreTargets` |
| `EventLoopProofs!ClearedStays` | no guessed ids: `Spec => []ClearedStaysCleared` | the same |
| `EventLoopProofs!PromisesAreQueued` | no guessed ids: `Spec => []PromisedWorkIsQueued` | the same |
| `EventLoopProofs!RecordsAlwaysInOnePlace` | `Spec => []RecordsInOnePlace` | the same |
| `PageProofs!HistoryAlwaysCoherent` | `Spec => []HistoryCoherent` | none |
| `PageProofs!TextFollowsTree` | `Spec => []HtmlFollowsTree` | `OriginalIsMarkup` |
| `PageProofs!WrappersStay` | `Spec => []WrappersKeepTheirElement` | `OriginalIsMarkup` |
| `WebApiProofs!CallbacksRunOnce` | `Spec => []SignalsFireOnce` | none |
| `WebApiProofs!CachesServeWhatWasPut` | `Spec => []CacheServesWhatWasPut` | none |
| `WebApiProofs!XhrShowsOneAnswer` | `Spec => []XhrAnswersTogether` | `BodiesOK` |
| `WebApiProofs!AudioTypeCorrect` | `AudioSpec => []TypeOK` | `HopsOK`, `KindsOK`, `SamplesOK`, `ChannelsOK` |
| `WebApiProofs!RendersGraph` | `AudioSpec => RendersTheGraph` | the same |
| `WebApiProofs!ClonesFaithful` | `CloneSpec => []ClonesAreFaithful` | `CellsOK` |
| `RenderProofs!ScriptsAccounted` | `Spec => []ScriptsAccountedFor` | `DocTagsOK`, `LimitsOK` |
| `RenderProofs!TerminalReasonKept` | `Spec => []TerminalReasonSurvives` | the same |
| `RenderProofs!SnapshotExact` | `Spec => []SnapshotListsVisible` | the same |
| `RenderProofs!TextExact` | `Spec => []TextBreaksAtBlocks` | the same |

Three theorems have a hypothesis of their own, each because the statement is false without it:
two navigators lose session storage (`tabs_concurrent_navigation`), two savers share a file,
and a page that clears ids it was never given cancels the bridge's timers (all under
*What the code does not do*).

*Tabs.* `IInv` joins `TypeOK` with `TabsSound`, `SlotsSound` and `RequestsSound`.
The type invariant is not inductive alone: that a handler which stores a tab has one to
store, or that one which follows has a hop left, depends on how it came to be
where it is (`RequestSound`). Privacy needs the same of the tabs about to be stored and
of the pages in flight. For the refinement, a writeback in a slot or in a handler must be exactly one
mutation on top of the document it is tagged with (`WritebackSound`): adoption, which
compares the tag, is then one `Mutate` of `LiveDocument`; storing a tab is a `Load`, because
a navigation's document is unmutated; every other action leaves the documents alone.
Replies match because each handler is owed at most one (`OwedOnce`), which is
`RepliesMatchHandlers` said of one client and without counting. Local maps are shared because every
page in flight has the map that is in the pool (`PagesShareMaps`); session maps are
kept because what a navigation is about to store has every map of the tab that it replaces
(`NextKeepsMaps`), which a second navigator would make false in between.

*NetLog.* That a number is not taken twice needs every number that is in the
ring or with a recorder to be below `next`. The ring is a suffix of `arrived`; `PushedIsLatest`
says that pushing preserves that.

*WebSocket.* `PoolIsSound` is not inductive because a receive on a closed connection could pool it again:
`NoLateRecv` says that there is none before a time limit has come inside a frame, and
`NewIsOpen` that a connection enters the pool open. The refinements of `Mailbox` rest on `OrderInv`,
which is about what is still on its way: until such a time limit, what the peer has begun to send and
nobody has read (`Stream`) is made of whole frames, after the body of the one that is being read
(`StreamFramed`), and the messages in it are numbered on from the last that was answered or is being
read to the last that was posted, in order (`MessagesAhead`); the pings likewise, from the last pong
(`PingsAhead`). `Numbered` says so of a sequence of parts; its lemmas say what adding a frame and reading
a part make of it. An answer is then a `Take` of the mailbox; a time limit ends
the history that counts at what it is, a stutter, and so is what is answered after it.
A drain of `ws_close` may throw messages away, so nothing is claimed of messages
once a client closes (`Listening`); pings are answered even then. That the pings ahead go on
from the last pong also means that none has been read and forgotten (`NothingForgotten`).
`RestTyped` adds the types of what the invariants do not speak of.

*HttpClient.* The budget is the interesting part: `WithinBudget` bounds a product, and is kept
because a refresh starts a request with fresh redirects. The invariant relates the hops sent
to the redirects and refreshes followed so far, one bound for a request about to be sent
and one for a request that waits. Cookies ride because `given` is contained in the jar and the jar only
grows within a run of the module (the types add, in `KindsAndHosts`, that a request keeps its kind through every hop); a body is served only by the readers, whose lemmas say what "ok" implies.

*Session.* `IInv` says that whatever carries cookies (the jar, a handler's artifact, the files
that have a name) has them in their scope: the wire form and its reading are inverse to each other
on scoped cookies only. `ResetAlwaysForgets` rests on `TabsPending` and `PoolPending`:
an older item may be left in the tabs or the pool only while some handler is still to empty
them on behalf of the *latest* reset; so the emptying by an overtaken reset is not
relied on. `Held` are the maps that are or may yet come to be a tab's, with what navigations
have computed and not stored: of those, only the `missed` may be older. `FileAlwaysLastSaved` needs that a save has the `.tmp` file to itself (`TmpIsOwn`),
which with one saver follows from the process saving only when all handlers have ended
(`OneSaver`), and that there is always an unused inode, a pigeonhole argument (`SomeUnused`).
`TInv` adds to the types what follows a handler: the tab it works for (`HasTab`), and that a process which is off runs none.

*EventLoop.* The lemmas are about what the code selects from its queues: `InOrder` lists every place of
a set once and in order, `Pick`, `Only` and `Without` keep what they should and each element
once, `GroupedBy` puts every element in one group. With them: a cleared timer stays cleared because ids are given out
once and script knows only those that it was handed (`IdsSound`); a promise is kept because
its timer is among those still to fire wherever the pump stands, in the queue or in the batch
(`Promised`); a record is in one place because the queue, the groups of the flush and `fate` agree
in both directions (`RecordsSound`, `GroupsSound`).

*Page.* The history: the index lies in the entries and the states are as many as the entries, because
`NavigateCore` cuts both at the index (`Cursor`). The text: a tree that was dropped is parsed again from
it, so `HtmlFollowsTree` rests on a fact about data, that serializing what was parsed from a
serialization changes nothing (`MarkupIsMarkup`), and this on what `Markup` makes of any arena:
the nodes below one, each once, in document order, each below the one it was below. `PageInv` adds
that the text is such markup, that what every wrapper knows can be grafted (`Forest`, kept by
`Outer` and `Fragment`), that every node is below an earlier one or below none, and that, while no tree was dropped, a wrapper with an
identity is on a node of the tree, and the one it was read from.

*WebApi.* Three invariants for three parts of the state. `DomInv`: a dispatch has to call only what
nothing has called (`TodoIsFresh`), what is still to be listed has not been called
(`UnlistedIsFresh`), a registration belongs to one controller and a signal to one frame. `CacheInv`: a promise that
resolves with something other than the body finds its put settled (`LateOrRight`). `XhrInv`: before
`send` there are no headers.

*Audio.* `startRendering` adds up whole chains, source by source; the API adds up what comes in at each
node. `MixIsSignal` says that the two sums are one, for any walk length and any graph of plain chains. `AreWeights` says what
a unit of each node's output counts for at the destination when it has so many edges to go: the gains on that way,
and the compressor at its end. What all nodes put out at one depth counts as much as what sources play
there and what all nodes put out one depth before (`StepBack`), because gains are additive; a compressor is not,
but where there is one every node is fed by one other at most. So the sum moves back edge by edge
(`ArrivesAdded`) until nothing but sources puts anything out, and each source has been counted once, at the end of
its walk, with what the walk met (`AddedIs`). `AudioInv` is the types: a node leads to nodes, plays a buffer there is, and a
buffer is as long as its channels (`NodesTyped`, `BuffersTyped`, `ContextsTyped`).
That a graph is plain is a hypothesis of the property, which `startRendering`'s linear walk needs; `audio` builds
plain graphs and others.

*StructuredClone.* `CloneSound` relates the cells made to the original while calls are under way: a copy belongs to one
object and has its first slots filled with what they are to be copied to (`CopiesSound`), all of them once its call
has ended (`CopiesFull`), and the calls are of different objects, each met in the slot that the one before
awaits (`CallsSound`). One lemma each says that it is kept by one more cell (`CellAdded`), a filled slot
(`SlotFilled`) and an object that is entered (`ObjectEntered`). When the calls have ended, following one path in the original
and in the copy leads to an object and its copy, or ends in both (`JointFollow`), so two paths meet in the one just
when they do in the other; paths of any length do, though the property is about those that a graph of this size
needs. A refusal is justified because the calls under way are themselves a path to what is refused
(`RefusedIsThere`), short enough to count since they are of different objects (`CallsFit`, by the pigeonhole
principle).

*Render.* `Kept` has the types and that the document is a tree in document order (`Tree`: a node
is below the node before it, or below one that this is below); `Account` is the sum at every place of a pass: what
ran, what was skipped and what is still to run are the script elements there were. A statistics record changes in three
ways only (`OneReasonMore`, `TruncatedIs`, `RepeatedIs`), so the sum is kept per action by arithmetic.
The snapshot and the text are algorithms, and their theorems compare them with definitions that know of no
order. `FromTheBottom` gives every recursion over a document its solution, computed from the last node to the first;
`FromTheKids` is the induction that goes with it. The snapshot of a node lists what is visible from it,
once, increasing, at its depth (`Lists`): `KidsListed` puts the lists of the children one after another, which
stay in order because what is below a node is a run of nodes (`BelowIsARun`, `SiblingsApart`), and two increasing
lists of the same numbers are one list (`SortedSame`). For the text, `Comes` says of a sequence of marks that each is the
word, the beginning or the end of a rendered node, and that they come in the order of the document (`Precedes`);
`BreaksAre` then finds a break between two words just where `LineEnds` says, and `PutMarkIs` that
what has been put out after each mark is the words so far with a space or one newline between them.

*Recursion.* What is true of a recursive function on every input is an induction, and the theorem that
would start one takes an operator, which these provers cannot instantiate. Where an order is
well founded there is another way, used in `EventLoopProofs`, `PageProofs`, `WebApiProofs` and `RenderProofs`: a set of numbers that is not
empty has a least one (`LeastNumber`, from the theorem on minimal elements, which takes none), so if
something fails it fails for a least number, and there the step is a contradiction. `AncestorsAre`, the
equation of `Ancestors` on any arena, and `FromTheTop` are proved so. It needs selections by places:
`SelectSeq` and the folds cannot be expanded by the prover at all.

*Only model-checked*: liveness (`RequestsEnd` twice, `ReadsEnd`, `BootAndStopEnd`, `PumpEnds`,
`PutsSettle`), which is beyond this prover, and all violations. Every safety invariant and
action property of a passing run, and every refinement, is a theorem, three of them under the hypotheses named above.

## 5. What is not modelled

`PROJECT.json` lists every component with its status. Left out on purpose:

- parsing, selecting and serializing HTML (html5ever and the selectors crate do it), the
  headers of image formats, `extract_object_literal` (a scan of characters, of which a
  model would be the same scan again), percent-decoding and data: URLs;
- fingerprints, crypto, intl, device and media stubs: constant or stateless answers, which are the
  largest part of `bridge.rs`; what an oscillator or a compressor computes of a sample;
- headers no property is about (client hints, fetch metadata, Referer), TLS, wording and
  status fields of answers;
- lengths, masks, size limits and UTF-8 of WebSocket frames;
- the rules of the cookie_store crate (paths, expiry, public suffixes);
- the families of reflected properties and handler properties of elements, and listeners'
  view of an event object;
- the HTTP/2 capture tool, a development tool that is no part of the engine.

Worth doing next: a composition of `Session` with `Tabs`, which now share the reset and the restore
but not their states.
