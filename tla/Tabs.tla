-------------------------------- MODULE Tabs --------------------------------
(***************************************************************************)
(* The tab table of the sidecar engine (crates/se-serve/src/lib.rs) and    *)
(* the requests that work on it: goto / fetch (with and without render),   *)
(* eval, close_tab, session_reset and storage_state_set.                   *)
(*                                                                         *)
(* Every verb is an async handler on a multi-threaded runtime.  No lock is *)
(* held across an await, so a handler is a sequence of short critical      *)
(* sections with the network, the JS worker thread or nothing at all in    *)
(* between; each critical section is one action here.  Scripts run on ONE  *)
(* worker thread fed by a bounded FIFO channel.                            *)
(*                                                                         *)
(* Documents are abstract: a body the server sent, and the sequence of     *)
(* clients whose scripts have mutated it since.  An Arc<Mutex<..>> of the  *)
(* code is told from its like by a number of Ids, free again once nothing  *)
(* refers to it: the loads of a tab (one writeback slot each), the session *)
(* maps of a tab and origin, the local maps of an origin.  What a storage  *)
(* map holds, and the Referer a navigation sends, are not modelled.        *)
(***************************************************************************)
EXTENDS Naturals, Sequences, FiniteSets

CONSTANTS
  TabIds,       \* keys of the tab table
  Urls,         \* document addresses, fragment stripped
  Origins,      \* scheme://host:port of those addresses
  OriginOf,     \* [Urls -> Origins]
  Docs,         \* bodies a server may answer with
  Ids,          \* numbers that tell maps and slots of one kind apart
  Navigators,   \* clients that send goto / fetch
  Evaluators,   \* clients that send eval
  Admins,       \* clients that send close_tab, session_reset, storage_state_set
  JsCapacity,   \* capacity of the channel to the JS worker (16 in the code)
  NavMaxHops,   \* RENDER_NAV_MAX_HOPS (10 in the code)
  MaxMutations, \* BOUND: mutations of one document
  MaxOrphans,   \* BOUND: commands of disconnected clients not run yet
  None          \* the absent value of every Option, and the empty string

Clients == Navigators \cup Evaluators \cup Admins

Html == [doc : Docs \cup {None}, muts : Seq(Clients)]

\* A session-storage map: the tab and origin it was created for, and which one.
Store == [tab : TabIds, origin : Origins \cup {None}, born : Ids]

\* load names the document's writeback slot, fresh with every document.
Tab == [url : Urls \cup {None}, html : Html, load : Ids, session : Store,
        archive : [Origins -> Store \cup {None}]]

Writeback == [from : Html, html : Html]

\* What an eval is given: the tab as it was, and handles of the live maps.
Page == [tab : TabIds, url : Urls \cup {None}, html : Html, load : Ids,
         session : Store, local : Ids]

\* A command on the channel; reply is FALSE once its sender has gone away.
Cmd == [by : Clients, reply : BOOLEAN, page : Page \cup {None}]

Verbs == {"none", "goto", "render", "eval", "restore"}

Points == {"idle", "fetching", "insert", "snapshot", "scripts", "sending",
           "waiting", "take", "adopt", "follow", "pool"}

Request == [pc : Points, verb : Verbs, tab : TabIds \cup {None},
            page : Page \cup {None}, next : Tab \cup {None},
            nav : Urls \cup {None}, hops : 0..NavMaxHops, pending : Writeback \cup {None},
            mutated : BOOLEAN]

ASSUME ConstantsOK ==
  /\ OriginOf \in [Urls -> Origins]
  /\ JsCapacity \in Nat \ {0}
  /\ NavMaxHops \in Nat
  /\ MaxMutations \in Nat
  /\ MaxOrphans \in Nat
  /\ Navigators \cap Evaluators = {}
  /\ Navigators \cap Admins = {}
  /\ Evaluators \cap Admins = {}

ASSUME NoneOK ==
  /\ None \notin TabIds /\ None \notin Urls /\ None \notin Origins
  /\ None \notin Docs /\ None \notin Ids /\ None \notin Clients
  /\ None \notin Html
  /\ None \notin Tab
  /\ None \notin Store
  /\ None \notin Page
  /\ None \notin Writeback
  /\ None \notin Cmd

VARIABLES
  tabs,     \* the tab table
  slots,    \* the writeback slot of each document
  pool,     \* the session-global localStorage map of each origin
  channel,  \* commands waiting for the JS worker
  running,  \* the command it is executing
  alive,    \* whether the worker thread still exists
  req       \* the handler of each client's request

vars == <<tabs, slots, pool, channel, running, alive, req>>

IdleRequest ==
  [pc |-> "idle", verb |-> "none", tab |-> None, page |-> None, next |-> None,
   nav |-> None, hops |-> 0, pending |-> None, mutated |-> FALSE]

Init ==
  /\ tabs = [t \in TabIds |-> None]
  /\ slots = [t \in TabIds |-> [i \in Ids |-> None]]
  /\ pool = [o \in Origins \cup {None} |-> None]
  /\ channel = << >>
  /\ running = None
  /\ alive = TRUE
  /\ req = [c \in Clients |-> IdleRequest]

-----------------------------------------------------------------------------
(* Helpers *)

OriginOfUrl(u) == IF u = None THEN None ELSE OriginOf[u]

\* The tabs (stored or about to be) and pages that still hold handles.
HeldTabs == ({tabs[t] : t \in TabIds} \cup {req[c].next : c \in Clients}) \ {None}

HeldPages ==
  ({req[c].page : c \in Clients} \cup {channel[k].page : k \in DOMAIN channel}
   \cup (IF running = None THEN {} ELSE {running.page})) \ {None}

LoadsOf(t) == {x.load : x \in {y \in HeldTabs \cup HeldPages : y.session.tab = t}}

SessionMaps ==
  {x.session : x \in HeldTabs \cup HeldPages}
  \cup UNION {{x.archive[o] : o \in Origins} : x \in HeldTabs}

LocalMapsOf(o) ==
  {pool[o]} \cup {p.local : p \in {q \in HeldPages : OriginOfUrl(q.url) = o}}

NewLoad(t) == CHOOSE i \in Ids : i \notin LoadsOf(t)

NewStore(t, u) ==
  CHOOSE s \in {[tab |-> t, origin |-> OriginOfUrl(u), born |-> i] : i \in Ids} :
    s \notin SessionMaps

NewLocalMap(o) == CHOOSE i \in Ids : i \notin LocalMapsOf(o)

\* BOUND: a navigation needs a free number for its slot and its session map.
CanLoad(t, u) ==
  /\ \E i \in Ids : i \notin LoadsOf(t)
  /\ \E i \in Ids : [tab |-> t, origin |-> OriginOfUrl(u), born |-> i] \notin SessionMaps

\* BOUND: a new local map needs a free number.
CanMap(o) == \E i \in Ids : i \notin LocalMapsOf(o)

\* MUTANT: the origin being entered keeps its archived copy too, and the live
\* map is always a new one.
AfterNavigationForgetsArchive(t, old, u, d) ==
  [url |-> u, html |-> [doc |-> d, muts |-> << >>], load |-> NewLoad(t),
   session |-> NewStore(t, u),
   archive |-> IF old = None THEN [o \in Origins |-> None] ELSE old.archive]

\* MUTANT: the map follows the tab across a cross-origin navigation.
AfterNavigationCarriesSession(t, old, u, d) ==
  [url |-> u, html |-> [doc |-> d, muts |-> << >>], load |-> NewLoad(t),
   session |-> IF old = None THEN NewStore(t, u) ELSE old.session,
   archive |-> IF old = None THEN [o \in Origins |-> None] ELSE old.archive]

\* The tab that replaces `old' when document d of address u has been loaded:
\* the session map stays on the same origin, is archived when the origin is
\* left and comes back out of the archive when it is entered again.
AfterNavigation(t, old, u, d) ==
  LET origin   == OriginOf[u]
      left     == IF old = None THEN None ELSE OriginOfUrl(old.url)
      archive  == IF old = None THEN [o \in Origins |-> None] ELSE old.archive
      archived == IF left = None THEN archive
                  ELSE [archive EXCEPT ![left] = old.session]
      restored == IF archived[origin] = None THEN NewStore(t, u)
                  ELSE archived[origin]
      html     == [doc |-> d, muts |-> << >>]
  IN  IF left = origin
      THEN [url |-> u, html |-> html, load |-> NewLoad(t), session |-> old.session,
            archive |-> archive]
      ELSE [url |-> u, html |-> html, load |-> NewLoad(t), session |-> restored,
            archive |-> [archived EXCEPT ![origin] = None]]

\* The handler of client c moves on to state r.
Become(c, r) == req' = [req EXCEPT ![c] = r]

\* Where a handler goes once its eval is over: only render looks at the page.
AfterEval(c) ==
  IF req[c].verb = "eval" THEN IdleRequest
  ELSE [req[c] EXCEPT !.pc = "follow", !.pending = None]

-----------------------------------------------------------------------------
(* goto and fetch: load a document into a tab *)

\* The handler reads the initiator's address and starts the navigation.
Navigate(c, t, render) ==
  /\ req[c].pc = "idle"
  /\ Become(c, [IdleRequest EXCEPT
                !.pc = "fetching",
                !.verb = IF render THEN "render" ELSE "goto",
                !.tab = t])
  /\ UNCHANGED <<tabs, slots, pool, channel, running, alive>>

\* Transport error, refused target or redirect loop.
NavigationFails(c) ==
  /\ req[c].pc = "fetching"
  /\ Become(c, IdleRequest)
  /\ UNCHANGED <<tabs, slots, pool, channel, running, alive>>

\* MUTANT: hops of the render follow are not counted.
NavigationAnswersUncounted(c, u, d) ==
  /\ req[c].pc = "fetching"
  /\ CanLoad(req[c].tab, u)
  /\ Become(c, [req[c] EXCEPT
                !.pc = "insert", !.nav = None,
                !.next = AfterNavigation(req[c].tab, tabs[req[c].tab], u, d)])
  /\ slots' = [slots EXCEPT ![req[c].tab][NewLoad(req[c].tab)] = None]
  /\ UNCHANGED <<tabs, pool, channel, running, alive>>

\* The response arrives; the new tab is computed from the table under one
\* lock.  The final address u is the server's choice (redirects).
NavigationAnswers(c, u, d) ==
  /\ req[c].pc = "fetching"
  /\ CanLoad(req[c].tab, u)
  /\ Become(c, [req[c] EXCEPT
                !.pc = "insert", !.nav = None,
                !.hops = IF req[c].nav = None THEN @ ELSE @ + 1,
                !.next = AfterNavigation(req[c].tab, tabs[req[c].tab], u, d)])
  /\ slots' = [slots EXCEPT ![req[c].tab][NewLoad(req[c].tab)] = None]
  /\ UNCHANGED <<tabs, pool, channel, running, alive>>

\* The table lock is taken again to store it.
InsertTab(c) ==
  /\ req[c].pc = "insert"
  /\ tabs' = [tabs EXCEPT ![req[c].tab] = req[c].next]
  /\ Become(c, IF req[c].verb = "goto" THEN IdleRequest
             ELSE [req[c] EXCEPT !.pc = "snapshot", !.next = None])
  /\ UNCHANGED <<slots, pool, channel, running, alive>>

-----------------------------------------------------------------------------
(* Snapshot of the tab for an eval *)

\* The localStorage map of an origin, created on first use.
LocalMap(o) == IF pool[o] = None THEN NewLocalMap(o) ELSE pool[o]

\* MUTANT: a map per eval instead of one per origin.
PageOfPrivateMap(t) ==
  [tab |-> t, url |-> tabs[t].url, html |-> tabs[t].html, load |-> tabs[t].load,
   session |-> tabs[t].session, local |-> NewLocalMap(OriginOfUrl(tabs[t].url))]

PageOf(t) ==
  [tab |-> t, url |-> tabs[t].url, html |-> tabs[t].html, load |-> tabs[t].load,
   session |-> tabs[t].session, local |-> LocalMap(OriginOfUrl(tabs[t].url))]

\* The tabs lock is held while the pool hands out (or creates) the map.
Snapshot(t) ==
  LET o == OriginOfUrl(tabs[t].url)
  IN  /\ tabs[t] # None
      /\ pool[o] # None \/ CanMap(o)
      /\ pool' = [pool EXCEPT ![o] = LocalMap(o)]

\* The render pass reads the tab; without one it only reports an error.
RenderSnapshot(c) ==
  LET t == req[c].tab
  IN  /\ req[c].pc = "snapshot"
      /\ \/ /\ tabs[t] = None
            /\ Become(c, IdleRequest)
            /\ UNCHANGED pool
         \/ /\ Snapshot(t)
            /\ Become(c, [req[c] EXCEPT !.pc = "scripts", !.page = PageOf(t)])
      /\ UNCHANGED <<tabs, slots, channel, running, alive>>

\* External scripts are fetched outside every lock.  A document that yields no
\* script to run ends the render.
CollectScripts(c) ==
  /\ req[c].pc = "scripts"
  /\ \/ Become(c, IdleRequest)
     \/ Become(c, [req[c] EXCEPT !.pc = "sending"])
  /\ UNCHANGED <<tabs, slots, pool, channel, running, alive>>

\* The eval verb; a script for a tab that does not exist runs without a page.
Eval(c, t) ==
  /\ req[c].pc = "idle"
  /\ \/ /\ tabs[t] = None
        /\ Become(c, [IdleRequest EXCEPT !.pc = "sending", !.verb = "eval", !.tab = t])
        /\ UNCHANGED pool
     \/ /\ Snapshot(t)
        /\ Become(c, [IdleRequest EXCEPT !.pc = "sending", !.verb = "eval", !.tab = t,
                                       !.page = PageOf(t)])
  /\ UNCHANGED <<tabs, slots, channel, running, alive>>

-----------------------------------------------------------------------------
(* The JS worker *)

\* Sending waits for a free place in the channel.
Send(c) ==
  /\ req[c].pc = "sending"
  /\ alive
  /\ Len(channel) < JsCapacity
  /\ channel' = Append(channel, [by |-> c, reply |-> TRUE, page |-> req[c].page])
  /\ Become(c, [req[c] EXCEPT !.pc = "waiting"])
  /\ UNCHANGED <<tabs, slots, pool, running, alive>>

\* What a handler does with the reply: nothing is adopted without a page.
Answered(c, u, m) ==
  IF req[c].page = None THEN IdleRequest
  ELSE [req[c] EXCEPT !.pc = "take", !.mutated = m,
                      !.nav = IF req[c].verb = "render" THEN u ELSE None]

\* The worker thread is gone: the send fails, and with it the eval.
SendFails(c) ==
  /\ req[c].pc = "sending"
  /\ ~alive
  /\ Become(c, Answered(c, None, FALSE))
  /\ UNCHANGED <<tabs, slots, pool, channel, running, alive>>

WorkerTakes ==
  /\ alive
  /\ running = None
  /\ channel # << >>
  /\ running' = Head(channel)
  /\ channel' = Tail(channel)
  /\ UNCHANGED <<tabs, slots, pool, alive, req>>

\* The document a mutating script leaves, tagged with the one it began with.
MutationOf(cmd) ==
  [from |-> cmd.page.html,
   html |-> [cmd.page.html EXCEPT !.muts = Append(@, cmd.by)]]

\* The script has run and its timers have settled.  A script that mutated the
\* document publishes the result in the slot of the page, over what is there;
\* u is the address it has left the page at.
ScriptEnds(mutates, u) ==
  LET page == running.page
  IN  /\ running # None
      /\ page = None => u = None
      /\ page # None => (u = None => page.url = None)
      /\ mutates => page # None /\ Len(page.html.muts) < MaxMutations
      /\ slots' = IF mutates THEN [slots EXCEPT ![page.tab][page.load] = MutationOf(running)]
                  ELSE slots
      /\ running' = None
      /\ IF running.reply THEN Become(running.by, Answered(running.by, u, mutates))
         ELSE UNCHANGED req
      /\ UNCHANGED <<tabs, pool, channel, alive>>

\* MUTANT: the commands still in the channel are never answered.
WorkerDiesSilently ==
  /\ running # None
  /\ alive' = FALSE
  /\ running' = None
  /\ channel' = << >>
  /\ req' = [c \in Clients |->
               IF running.reply /\ running.by = c THEN Answered(c, None, FALSE)
               ELSE req[c]]
  /\ UNCHANGED <<tabs, slots, pool>>

\* A panic ends the thread: the receiver and every command in it are dropped,
\* and each of their senders sees its reply channel closed.
WorkerDies ==
  /\ running # None
  /\ alive' = FALSE
  /\ running' = None
  /\ channel' = << >>
  /\ req' = [c \in Clients |-> IF req[c].pc = "waiting" THEN Answered(c, None, FALSE)
                               ELSE req[c]]
  /\ UNCHANGED <<tabs, slots, pool>>

-----------------------------------------------------------------------------
(* After the eval: adopt the mutation, follow the script's navigation *)

\* The handler empties the slot of the page it evaluated.
TakeWriteback(c) ==
  LET page == req[c].page
      wb   == slots[page.tab][page.load]
  IN  /\ req[c].pc = "take"
      /\ slots' = [slots EXCEPT ![page.tab][page.load] = None]
      /\ Become(c, IF wb = None THEN AfterEval(c)
                   ELSE [req[c] EXCEPT !.pc = "adopt", !.pending = wb])
      /\ UNCHANGED <<tabs, pool, channel, running, alive>>

\* MUTANT: adopt whatever the tab has become.
AdoptUnconditionally(c) ==
  LET t == req[c].tab
  IN  /\ req[c].pc = "adopt"
      /\ tabs' = IF tabs[t] = None THEN tabs
                 ELSE [tabs EXCEPT ![t].html = req[c].pending.html]
      /\ Become(c, AfterEval(c))
      /\ UNCHANGED <<slots, pool, channel, running, alive>>

\* The mutation becomes the document if the document is still the text the
\* script began with.
Adopt(c) ==
  LET t == req[c].tab
      wb == req[c].pending
  IN  /\ req[c].pc = "adopt"
      /\ tabs' = IF tabs[t] # None /\ tabs[t].html = wb.from
                 THEN [tabs EXCEPT ![t].html = wb.html]
                 ELSE tabs
      /\ Become(c, AfterEval(c))
      /\ UNCHANGED <<slots, pool, channel, running, alive>>

\* MUTANT: the hop budget is off by one.
FollowOneTooMany(c) ==
  LET tab == tabs[req[c].tab]
      nav == req[c].nav
  IN  /\ req[c].pc = "follow"
      /\ \/ /\ nav = None \/ tab = None \/ tab.url = nav
            /\ Become(c, IdleRequest)
         \/ /\ nav # None /\ tab # None /\ tab.url # nav
            /\ req[c].hops <= NavMaxHops
            /\ Become(c, [req[c] EXCEPT !.pc = "fetching", !.page = None,
                                        !.mutated = FALSE])
      /\ UNCHANGED <<tabs, slots, pool, channel, running, alive>>

\* The render follow: if the tab is not at the address the scripts left the
\* page at, navigate there, up to NavMaxHops times.
Follow(c) ==
  LET tab == tabs[req[c].tab]
      nav == req[c].nav
  IN  /\ req[c].pc = "follow"
      /\ \/ /\ nav = None \/ tab = None
            /\ Become(c, IdleRequest)
         \/ /\ nav # None /\ tab # None
            /\ tab.url = nav \/ req[c].hops >= NavMaxHops
            /\ Become(c, IdleRequest)
         \/ /\ nav # None /\ tab # None
            /\ tab.url # nav
            /\ req[c].hops < NavMaxHops
            /\ Become(c, [req[c] EXCEPT !.pc = "fetching", !.page = None,
                                        !.mutated = FALSE])
      /\ UNCHANGED <<tabs, slots, pool, channel, running, alive>>

\* Commands that will answer nobody.
Orphans ==
  Cardinality({k \in DOMAIN channel : ~channel[k].reply})
  + (IF running # None /\ ~running.reply THEN 1 ELSE 0)

\* The client disconnects: its handler is dropped at the await it is in.  A
\* command already on the channel stays there and runs.
Cancel(c) ==
  LET orphan(cmd) == IF cmd.by = c THEN [cmd EXCEPT !.reply = FALSE] ELSE cmd
  IN  /\ \/ req[c].pc \in {"fetching", "scripts", "sending"}
         \/ req[c].pc = "waiting" /\ Orphans < MaxOrphans
      /\ Become(c, IdleRequest)
      /\ channel' = [k \in DOMAIN channel |-> orphan(channel[k])]
      /\ running' = IF running = None THEN None ELSE orphan(running)
      /\ UNCHANGED <<tabs, slots, pool, alive>>

-----------------------------------------------------------------------------
(* close_tab, session_reset, storage_state_set *)

CloseTab(c, t) ==
  /\ req[c].pc = "idle"
  /\ tabs' = [tabs EXCEPT ![t] = None]
  /\ UNCHANGED <<slots, pool, channel, running, alive, req>>

\* Tabs stay open and keep their maps, which are emptied in place; the pool
\* forgets its maps.
SessionReset(c) ==
  /\ req[c].pc = "idle"
  /\ pool' = [o \in Origins \cup {None} |-> None]
  /\ UNCHANGED <<tabs, slots, channel, running, alive, req>>

EmptyTab(t) ==
  [url |-> None, html |-> [doc |-> None, muts |-> << >>], load |-> NewLoad(t),
   session |-> NewStore(t, None), archive |-> [o \in Origins |-> None]]

\* storage_state_set first makes sure the tab exists,
RestoreTab(c, t) ==
  /\ req[c].pc = "idle"
  /\ \/ /\ tabs[t] # None
        /\ UNCHANGED <<tabs, slots>>
     \/ /\ tabs[t] = None
        /\ CanLoad(t, None)
        /\ tabs' = [tabs EXCEPT ![t] = EmptyTab(t)]
        /\ slots' = [slots EXCEPT ![t][NewLoad(t)] = None]
  /\ Become(c, [IdleRequest EXCEPT !.pc = "pool", !.verb = "restore", !.tab = t])
  /\ UNCHANGED <<pool, channel, running, alive>>

\* then puts a new map in the pool for the origin of the artifact.
\* BOUND: an artifact has local storage for at most one origin.
RestorePool(c) ==
  /\ req[c].pc = "pool"
  /\ \/ UNCHANGED pool
     \/ \E o \in Origins :
          CanMap(o) /\ pool' = [pool EXCEPT ![o] = NewLocalMap(o)]
  /\ Become(c, IdleRequest)
  /\ UNCHANGED <<tabs, slots, channel, running, alive>>

-----------------------------------------------------------------------------
Next ==
  \/ \E c \in Navigators, t \in TabIds, render \in BOOLEAN : Navigate(c, t, render)
  \/ \E c \in Navigators, u \in Urls, d \in Docs : NavigationAnswers(c, u, d)
  \/ \E c \in Navigators :
       \/ NavigationFails(c)
       \/ InsertTab(c)
       \/ RenderSnapshot(c)
       \/ CollectScripts(c)
       \/ Follow(c)
  \/ \E c \in Evaluators, t \in TabIds : Eval(c, t)
  \/ \E c \in Clients :
       \/ Send(c)
       \/ SendFails(c)
       \/ TakeWriteback(c)
       \/ Adopt(c)
       \/ Cancel(c)
  \/ WorkerTakes
  \/ \E mutates \in BOOLEAN, u \in Urls \cup {None} : ScriptEnds(mutates, u)
  \/ WorkerDies
  \/ \E c \in Admins, t \in TabIds : CloseTab(c, t) \/ RestoreTab(c, t)
  \/ \E c \in Admins : SessionReset(c) \/ RestorePool(c)

Spec == Init /\ [][Next]_vars

-----------------------------------------------------------------------------
(* Fairness.  A handler that can continue does; the transport answers or     *)
(* fails (its timeouts are finite); the channel grants places in the order   *)
(* they were asked for, so a sender that keeps finding places gets one; the  *)
(* worker takes commands and scripts end (the code stops no running script,  *)
(* so this is an assumption about pages).  Clients need not send anything.   *)
Continues(c) ==
  \/ NavigationFails(c)
  \/ \E u \in Urls, d \in Docs : NavigationAnswers(c, u, d)
  \/ InsertTab(c)
  \/ RenderSnapshot(c)
  \/ CollectScripts(c)
  \/ SendFails(c)
  \/ TakeWriteback(c)
  \/ Adopt(c)
  \/ Follow(c)
  \/ RestorePool(c)

Fairness ==
  /\ \A c \in Clients : WF_vars(Continues(c)) /\ SF_vars(Send(c))
  /\ WF_vars(WorkerTakes)
  /\ WF_vars(\E mutates \in BOOLEAN, u \in Urls \cup {None} : ScriptEnds(mutates, u))

FairSpec == Spec /\ Fairness

-----------------------------------------------------------------------------
(* Properties *)

\* Every variable holds a value of its type.
TypeOK ==
  /\ tabs \in [TabIds -> Tab \cup {None}]
  /\ slots \in [TabIds -> [Ids -> Writeback \cup {None}]]
  /\ pool \in [Origins \cup {None} -> Ids \cup {None}]
  /\ channel \in Seq(Cmd) /\ Len(channel) <= JsCapacity
  /\ running \in Cmd \cup {None}
  /\ alive \in BOOLEAN
  /\ req \in [Clients -> Request]

\* A tab, or the tab a navigation is about to store, is well kept if its live
\* session map belongs to this tab and to the origin it shows, every archived
\* map to the origin it is filed under, and the shown origin is not archived
\* (after_navigation: two homes for one origin would let them diverge).
WellKept(t, tab) ==
  /\ tab.session.tab = t
  /\ tab.url # None => tab.session.origin = OriginOfUrl(tab.url)
  /\ \A o \in Origins : tab.archive[o] # None =>
       /\ tab.archive[o].tab = t
       /\ tab.archive[o].origin = o
       /\ o # OriginOfUrl(tab.url)

\* Session storage is private to an origin of a tab: whatever navigations,
\* closings and restores interleave, no tab and no eval in flight holds the
\* session map of another tab or of another origin.
SessionStorageIsPrivate ==
  /\ \A t \in TabIds : tabs[t] # None => WellKept(t, tabs[t])
  /\ \A c \in Clients : req[c].next # None => WellKept(req[c].tab, req[c].next)
  /\ \A c \in Clients : req[c].page # None =>
       /\ req[c].page.session.tab = req[c].page.tab
       /\ req[c].page.url # None =>
            req[c].page.session.origin = OriginOfUrl(req[c].page.url)

Commands == {k \in DOMAIN channel : channel[k].reply}

\* Every handler that waits for the worker has exactly one command that will
\* answer it, waiting or running, and no command answers anyone else: a
\* disconnected client's command never answers its next request, and a dying
\* worker leaves nobody waiting.
RepliesMatchHandlers ==
  \A c \in Clients :
    LET queued  == {k \in Commands : channel[k].by = c}
        current == running # None /\ running.reply /\ running.by = c
    IN  IF req[c].pc = "waiting"
        THEN \/ current /\ queued = {}
             \/ ~current /\ \E k \in queued : queued = {k}
        ELSE ~current /\ queued = {}

Commit(c) == req[c].pc = "adopt" /\ req'[c].pc # "adopt"

\* The maps a tab holds for an origin.
MapFor(tab, o) ==
  IF OriginOfUrl(tab.url) = o THEN tab.session ELSE tab.archive[o]

\* While a tab stays open it keeps the session map of every origin it has one
\* for, across every navigation (the A -> B -> A contract of after_navigation).
SessionStorageIsKept ==
  [][\A t \in TabIds, o \in Origins :
       tabs[t] # None /\ tabs'[t] # None /\ MapFor(tabs[t], o) # None
         => MapFor(tabs'[t], o) = MapFor(tabs[t], o)]_vars

\* Without a reset or a restore, every eval in flight works on the one local
\* map of its origin, so tabs on one origin see each other's writes.
LocalStorageIsShared ==
  Admins = {} =>
    \A c \in Clients : req[c].page # None =>
      pool[OriginOfUrl(req[c].page.url)] = req[c].page.local

\* The tab's document as LiveDocument describes it: mutations are adopted one
\* at a time on top of what is there, so no adopted mutation is lost.
LiveDoc == INSTANCE LiveDocument
  WITH Bodies <- Docs \cup {None}, Mutators <- Clients, NoDocument <- None,
       document <- [t \in TabIds |-> IF tabs[t] = None THEN None ELSE tabs[t].html]

MutationsAccumulate == LiveDoc!Spec

\* Every request ends: the render follow is bounded, the channel drains, and a
\* worker that dies fails the evals it owed.
RequestsEnd ==
  \A c \in Clients : (req[c].pc # "idle") ~> (req[c].pc = "idle")

\* "an unchanged URL is a reload no-op": a render whose scripts left the page
\* where it was follows no navigation.
UnchangedUrlIsNoFollow ==
  [][\A c \in Navigators :
       req[c].pc = "follow" /\ req'[c].pc = "fetching"
         => req[c].nav # req[c].page.url]_vars

\* "the fresh navigation always wins": a mutation is adopted only into the
\* document its script ran on.
FreshNavigationWins ==
  [][\A c \in Clients :
       Commit(c) /\ tabs' # tabs
         => tabs[req[c].tab].load = req[c].page.load]_vars

Marks(html) == {html.muts[k] : k \in DOMAIN html.muts}

\* The clients with a mutation in the document of t, or in a writeback for it.
MarksOf(t) ==
  LET pending == ({slots[t][i] : i \in Ids}
                  \cup {req[c].pending : c \in {d \in Clients : req[d].tab = t}})
                 \ {None}
  IN  Marks(tabs[t].html) \cup UNION {Marks(wb.html) : wb \in pending}

\* "the mutation becomes the tab's live document" when no navigation replaced
\* the tab in between: an eval that mutated the document ends with its mutation
\* in the document or still on its way there.
MutationBecomesLive ==
  [][\A c \in Evaluators, t \in TabIds :
       /\ req[c].pc \in {"take", "adopt"} /\ req'[c].pc = "idle"
       /\ req[c].tab = t /\ req[c].mutated
       /\ tabs[t] # None /\ tabs[t].load = req[c].page.load
       => c \in MarksOf(t)']_vars

=============================================================================
