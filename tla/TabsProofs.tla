----------------------------- MODULE TabsProofs -----------------------------
(***************************************************************************)
(* Proofs about Tabs, for every set of clients, tabs, addresses and        *)
(* bounds: the type invariant, the privacy and the persistence of session  *)
(* storage, the sharing of local storage, that every waiting handler is    *)
(* owed exactly one reply, and that the tab table implements LiveDocument. *)
(*                                                                         *)
(* None of them is inductive alone. Which fields of a handler are set      *)
(* depends on where the handler is, and a writeback is one mutation on top *)
(* of the document it is tagged with (RequestSound, WritebackSound). The   *)
(* replies need a single place per handler in the channel (OwedOnce), and  *)
(* each storage property needs to follow the maps from the tab table into  *)
(* the pages (PagesShareMaps, OpenTabsKeepMaps).                           *)
(***************************************************************************)
EXTENDS Tabs, TLAPS

WritebackSound(wb) ==
  \E m \in Clients : wb.html = [wb.from EXCEPT !.muts = Append(@, m)]

\* What each point of a handler needs to have been set, and what is set is sound.
RequestSound(r) ==
  /\ r.pc # "idle" => r.tab \in TabIds
  /\ r.pc = "insert" => r.next # None
  /\ r.pc \in {"take", "adopt"} => r.page # None
  /\ r.pc = "adopt" => r.pending # None
  /\ r.pc = "fetching" /\ r.nav # None => r.hops < NavMaxHops
  /\ r.next # None => WellKept(r.tab, r.next) /\ r.next.html.muts = << >>
  /\ r.page # None => r.tab \in TabIds
  /\ r.page # None => /\ r.page.session.tab = r.page.tab
                      /\ r.page.url # None =>
                           r.page.session.origin = OriginOfUrl(r.page.url)
  /\ r.pending # None => WritebackSound(r.pending)

RequestsSound == \A c \in Clients : RequestSound(req[c])

TabsSound == \A t \in TabIds : tabs[t] # None => WellKept(t, tabs[t])

SlotsSound ==
  \A t \in TabIds, i \in Ids : slots[t][i] # None => WritebackSound(slots[t][i])

\* The inductive invariant.
IInv == TypeOK /\ TabsSound /\ SlotsSound /\ RequestsSound

-----------------------------------------------------------------------------
(* The operators of the model *)

\* Numbers and maps given out are of the right kind.
LEMMA NewLoadType ==
  ASSUME NEW t, \E i \in Ids : i \notin LoadsOf(t)
  PROVE  NewLoad(t) \in Ids
BY DEF NewLoad

LEMMA NewStoreType ==
  ASSUME NEW t \in TabIds, NEW u \in Urls \cup {None}, CanLoad(t, u)
  PROVE  /\ NewStore(t, u) \in Store
         /\ NewStore(t, u).tab = t
         /\ NewStore(t, u).origin = OriginOfUrl(u)
<1> DEFINE stores == {[tab |-> t, origin |-> OriginOfUrl(u), born |-> i] : i \in Ids}
<1>1. \E s \in stores : s \notin SessionMaps
  BY DEF CanLoad
<1>2. NewStore(t, u) \in stores
  BY <1>1 DEF NewStore
<1>3. OriginOfUrl(u) \in Origins \cup {None}
  BY ConstantsOK DEF OriginOfUrl
<1>4. PICK i \in Ids : NewStore(t, u) = [tab |-> t, origin |-> OriginOfUrl(u), born |-> i]
  BY <1>2
<1> QED
  BY <1>3, <1>4 DEF Store

LEMMA NewLocalMapType ==
  ASSUME NEW o, CanMap(o)
  PROVE  NewLocalMap(o) \in Ids
BY DEF NewLocalMap, CanMap

\* The tab a navigation computes is a tab, shows the untouched body, and is
\* well kept if the tab it replaces was.
LEMMA AfterNavigationSound ==
  ASSUME NEW t \in TabIds, NEW old \in Tab \cup {None}, NEW u \in Urls, NEW d \in Docs,
         old # None => WellKept(t, old),
         CanLoad(t, u)
  PROVE  /\ AfterNavigation(t, old, u, d) \in Tab
         /\ WellKept(t, AfterNavigation(t, old, u, d))
         /\ AfterNavigation(t, old, u, d).html.muts = << >>
<1> DEFINE origin   == OriginOf[u]
           left     == IF old = None THEN None ELSE OriginOfUrl(old.url)
           archive  == IF old = None THEN [o \in Origins |-> None] ELSE old.archive
           archived == IF left = None THEN archive
                       ELSE [archive EXCEPT ![left] = old.session]
           restored == IF archived[origin] = None THEN NewStore(t, u)
                       ELSE archived[origin]
           html     == [doc |-> d, muts |-> << >>]
           stay     == [url |-> u, html |-> html, load |-> NewLoad(t),
                        session |-> old.session, archive |-> archive]
           leave    == [url |-> u, html |-> html, load |-> NewLoad(t),
                        session |-> restored,
                        archive |-> [archived EXCEPT ![origin] = None]]
<1>1. AfterNavigation(t, old, u, d) = IF left = origin THEN stay ELSE leave
  BY DEF AfterNavigation
<1>2. origin \in Origins /\ origin # None /\ OriginOfUrl(u) = origin
  BY ConstantsOK, NoneOK DEF OriginOfUrl
<1>3. html \in Html /\ NewLoad(t) \in Ids /\ u \in Urls \cup {None} /\ u # None
  BY NewLoadType, NoneOK DEF Html, CanLoad
<1>4. archive \in [Origins -> Store \cup {None}]
  BY DEF Tab
<1>5. left \in Origins \cup {None}
  BY ConstantsOK DEF OriginOfUrl, Tab
<1>6. left # None => old # None /\ left = OriginOfUrl(old.url) /\ old.url # None
  BY DEF OriginOfUrl
<1>7. left # None => old.session \in Store /\ old.session.tab = t /\ old.session.origin = left
  BY <1>6 DEF WellKept, Tab
<1>8. \A o \in Origins : archive[o] # None =>
        archive[o].tab = t /\ archive[o].origin = o /\ o # left
  BY NoneOK DEF WellKept
<1>9. CASE left = origin
  <2>1. old # None /\ old.session \in Store /\ old.session.tab = t
        /\ old.session.origin = origin
    BY <1>2, <1>6, <1>7, <1>9
  <2>2. stay \in Tab
    BY <1>3, <1>4, <2>1 DEF Tab
  <2>3. WellKept(t, stay)
    BY <1>2, <1>8, <1>9, <2>1 DEF WellKept
  <2> QED
    BY <1>1, <1>9, <2>2, <2>3
<1>10. CASE left # origin
  <2>1. archived \in [Origins -> Store \cup {None}]
    BY <1>4, <1>5, <1>7
  <2>2. \A o \in Origins : archived[o] # None =>
          archived[o].tab = t /\ archived[o].origin = o
    BY <1>4, <1>5, <1>7, <1>8
  <2>3. restored \in Store /\ restored.tab = t /\ restored.origin = origin
    BY <1>2, <2>1, <2>2, NewStoreType
  <2>4. leave \in Tab
    BY <1>2, <1>3, <2>1, <2>3 DEF Tab
  <2>5. WellKept(t, leave)
    BY <1>2, <2>1, <2>2, <2>3 DEF WellKept
  <2> QED
    BY <1>1, <1>10, <2>4, <2>5
<1> QED
  BY <1>9, <1>10

\* A page snapshot of a well kept tab is a page of that tab and origin.
LEMMA PageOfSound ==
  ASSUME TypeOK, TabsSound, NEW t \in TabIds, tabs[t] # None,
         pool[OriginOfUrl(tabs[t].url)] # None \/ CanMap(OriginOfUrl(tabs[t].url))
  PROVE  /\ LocalMap(OriginOfUrl(tabs[t].url)) \in Ids
         /\ OriginOfUrl(tabs[t].url) \in Origins \cup {None}
         /\ PageOf(t) \in Page
         /\ PageOf(t).session.tab = PageOf(t).tab
         /\ PageOf(t).url # None =>
              PageOf(t).session.origin = OriginOfUrl(PageOf(t).url)
<1>1. tabs[t] \in Tab
  BY DEF TypeOK
<1>2. OriginOfUrl(tabs[t].url) \in Origins \cup {None}
  BY <1>1, ConstantsOK DEF Tab, OriginOfUrl
<1>3. LocalMap(OriginOfUrl(tabs[t].url)) \in Ids
  BY <1>2, NewLocalMapType DEF LocalMap, TypeOK
<1>4. WellKept(t, tabs[t])
  BY DEF TabsSound
<1> QED
  BY <1>1, <1>2, <1>3, <1>4 DEF PageOf, Page, Tab, WellKept

\* The parts of the invariant that speak of one variable keep while it does.
LEMMA TabsFrame == ASSUME TabsSound, tabs' = tabs PROVE TabsSound'
BY DEF TabsSound, WellKept, OriginOfUrl

LEMMA SlotsFrame == ASSUME SlotsSound, slots' = slots PROVE SlotsSound'
BY ZenonT(60) DEF SlotsSound, WritebackSound

LEMMA RequestsFrame == ASSUME RequestsSound, req' = req PROVE RequestsSound'
<1>1. \A d \in Clients : RequestSound(req'[d])
  BY DEF RequestsSound
<1>2. RequestsSound' <=> \A d \in Clients : RequestSound(req'[d])
  BY DEF RequestsSound, RequestSound, WellKept, OriginOfUrl, WritebackSound
<1> QED
  BY <1>1, <1>2

\* One slot is emptied, or filled with a sound writeback.
LEMMA SlotsUpdate ==
  ASSUME TypeOK, SlotsSound, NEW t \in TabIds, NEW i \in Ids,
         NEW wb \in Writeback \cup {None}, wb # None => WritebackSound(wb),
         slots' = [slots EXCEPT ![t][i] = wb]
  PROVE  slots' \in [TabIds -> [Ids -> Writeback \cup {None}]] /\ SlotsSound'
<1>1. slots' \in [TabIds -> [Ids -> Writeback \cup {None}]]
  BY DEF TypeOK
<1>2. \A u \in TabIds, j \in Ids : slots'[u][j] # None => WritebackSound(slots'[u][j])
  BY DEF TypeOK, SlotsSound
<1>3. SlotsSound' <=> \A u \in TabIds, j \in Ids :
                        slots'[u][j] # None => WritebackSound(slots'[u][j])
  BY DEF SlotsSound, WritebackSound
<1> QED
  BY <1>1, <1>2, <1>3

\* A handler that moves on to a sound state leaves every handler sound.
LEMMA BecomeSound ==
  ASSUME TypeOK, RequestsSound, NEW c \in Clients, NEW r \in Request,
         RequestSound(r), Become(c, r)
  PROVE  req' \in [Clients -> Request] /\ RequestsSound'
<1>1. req' \in [Clients -> Request]
  BY DEF TypeOK, Become
<1>2. \A d \in Clients : RequestSound(req'[d])
  BY DEF TypeOK, Become, RequestsSound
<1>3. RequestsSound' <=> \A d \in Clients : RequestSound(req'[d])
  BY DEF RequestsSound, RequestSound, WellKept, OriginOfUrl, WritebackSound
<1> QED
  BY <1>1, <1>2, <1>3

LEMMA IdleSound == IdleRequest \in Request /\ RequestSound(IdleRequest)
BY ConstantsOK DEF IdleRequest, Request, Points, Verbs, RequestSound

LEMMA IdleFields ==
  /\ IdleRequest \in Request
  /\ IdleRequest.page = None /\ IdleRequest.next = None /\ IdleRequest.nav = None
  /\ IdleRequest.pending = None /\ IdleRequest.hops = 0
BY IdleSound DEF IdleRequest

\* The answer of the worker, or its absence, leaves a handler sound.
LEMMA AnsweredSound ==
  ASSUME TypeOK, RequestsSound, NEW c \in Clients, NEW u \in Urls \cup {None},
         NEW m \in BOOLEAN
  PROVE  Answered(c, u, m) \in Request /\ RequestSound(Answered(c, u, m))
<1>1. req[c] \in Request /\ RequestSound(req[c])
  BY DEF TypeOK, RequestsSound
<1>2. CASE req[c].page = None
  BY <1>2, IdleSound DEF Answered
<1>3. CASE req[c].page # None
  <2> DEFINE r == [req[c] EXCEPT !.pc = "take", !.mutated = m,
                                 !.nav = IF req[c].verb = "render" THEN u ELSE None]
  <2>1. Answered(c, u, m) = r
    BY <1>3 DEF Answered
  <2>2. r \in Request
    BY <1>1, ZenonT(60) DEF Request, Points
  <2>3. RequestSound(r)
    BY <1>1, <1>3 DEF RequestSound, Request
  <2> QED
    BY <2>1, <2>2, <2>3
<1> QED
  BY <1>2, <1>3

\* So does the end of an eval.
LEMMA AfterEvalSound ==
  ASSUME TypeOK, RequestsSound, NEW c \in Clients, req[c].pc # "idle"
  PROVE  AfterEval(c) \in Request /\ RequestSound(AfterEval(c))
<1>1. req[c] \in Request /\ RequestSound(req[c])
  BY DEF TypeOK, RequestsSound
<1> DEFINE r == [req[c] EXCEPT !.pc = "follow", !.pending = None]
<1>2. r \in Request
  BY <1>1 DEF Request, Points
<1>3. RequestSound(r)
  BY <1>1 DEF RequestSound, Request
<1> QED
  BY <1>2, <1>3, IdleSound DEF AfterEval

-----------------------------------------------------------------------------
(* The actions preserve the invariant *)

LEMMA NavigationSteps ==
  ASSUME IInv, NEW c \in Navigators
  PROVE  /\ \A t \in TabIds, render \in BOOLEAN : Navigate(c, t, render) => IInv'
         /\ \A u \in Urls, d \in Docs : NavigationAnswers(c, u, d) => IInv'
         /\ NavigationFails(c) => IInv'
         /\ InsertTab(c) => IInv'
<1>0. c \in Clients /\ req[c] \in Request /\ RequestSound(req[c])
  BY DEF Clients, IInv, TypeOK, RequestsSound
<1> USE DEF IInv
<1>1. ASSUME NEW t \in TabIds, NEW render \in BOOLEAN, Navigate(c, t, render)
      PROVE  IInv'
  <2> DEFINE r == [IdleRequest EXCEPT !.pc = "fetching",
                     !.verb = IF render THEN "render" ELSE "goto", !.tab = t]
  <2>1. r \in Request
    BY IdleFields DEF Request, Points, Verbs
  <2>2. RequestSound(r)
    BY IdleFields DEF RequestSound, Request
  <2>3. Become(c, r)
    BY <1>1 DEF Navigate
  <2>4. req' \in [Clients -> Request] /\ RequestsSound'
    BY <1>0, <2>1, <2>2, <2>3, BecomeSound
  <2> QED
    BY <1>1, <2>4, TabsFrame, SlotsFrame DEF Navigate, TypeOK
<1>2. ASSUME NEW u \in Urls, NEW d \in Docs, NavigationAnswers(c, u, d)
      PROVE  IInv'
  <2> DEFINE t   == req[c].tab
             new == AfterNavigation(t, tabs[t], u, d)
             r   == [req[c] EXCEPT !.pc = "insert", !.nav = None,
                       !.hops = IF req[c].nav = None THEN @ ELSE @ + 1,
                       !.next = new]
  <2>1. t \in TabIds /\ CanLoad(t, u)
    BY <1>0, <1>2 DEF NavigationAnswers, RequestSound
  <2>2. tabs[t] \in Tab \cup {None} /\ (tabs[t] # None => WellKept(t, tabs[t]))
    BY <2>1 DEF TypeOK, TabsSound
  <2>3. new \in Tab /\ WellKept(t, new) /\ new.html.muts = << >>
    BY <2>1, <2>2, AfterNavigationSound
  <2>4. new # None
    BY <2>3, NoneOK
  <2>5. r \in Request
    <3>1. (IF req[c].nav = None THEN req[c].hops ELSE req[c].hops + 1) \in 0..NavMaxHops
      BY <1>0, <1>2, ConstantsOK DEF NavigationAnswers, RequestSound, Request
    <3> QED
      BY <1>0, <2>3, <3>1 DEF Request, Points
  <2>6. RequestSound(r)
    BY <1>0, <2>1, <2>3, <2>4 DEF RequestSound, Request
  <2>7. Become(c, r)
    BY <1>2 DEF NavigationAnswers
  <2>8. req' \in [Clients -> Request] /\ RequestsSound'
    BY <1>0, <2>5, <2>6, <2>7, BecomeSound
  <2>9. slots' = [slots EXCEPT ![t][NewLoad(t)] = None]
    BY <1>2 DEF NavigationAnswers
  <2>10. NewLoad(t) \in Ids
    BY <2>1, NewLoadType DEF CanLoad
  <2>11. slots' \in [TabIds -> [Ids -> Writeback \cup {None}]] /\ SlotsSound'
    BY <2>1, <2>9, <2>10, SlotsUpdate
  <2> QED
    BY <1>2, <2>8, <2>11, TabsFrame DEF NavigationAnswers, TypeOK
<1>3. ASSUME NavigationFails(c) PROVE IInv'
  <2>1. req' \in [Clients -> Request] /\ RequestsSound'
    BY <1>0, <1>3, IdleSound, BecomeSound DEF NavigationFails
  <2> QED
    BY <1>3, <2>1, TabsFrame, SlotsFrame DEF NavigationFails, TypeOK
<1>4. ASSUME InsertTab(c) PROVE IInv'
  <2> DEFINE t == req[c].tab
             r == [req[c] EXCEPT !.pc = "snapshot", !.next = None]
  <2>1. t \in TabIds /\ req[c].next \in Tab /\ WellKept(t, req[c].next)
    BY <1>0, <1>4 DEF InsertTab, RequestSound, Request
  <2>2. r \in Request /\ RequestSound(r)
    <3>1. r \in Request
      BY <1>0 DEF Request, Points
    <3>2. RequestSound(r)
      BY <1>0, <1>4 DEF InsertTab, RequestSound, Request
    <3> QED
      BY <3>1, <3>2
  <2>3. Become(c, IF req[c].verb = "goto" THEN IdleRequest ELSE r)
    BY <1>4 DEF InsertTab
  <2>4. req' \in [Clients -> Request] /\ RequestsSound'
    BY <1>0, <2>2, <2>3, IdleSound, BecomeSound
  <2>5. tabs' = [tabs EXCEPT ![t] = req[c].next]
    BY <1>4 DEF InsertTab
  <2>6. tabs' \in [TabIds -> Tab \cup {None}]
    BY <2>1, <2>5 DEF TypeOK
  <2>7. TabsSound'
    BY <2>1, <2>5 DEF TypeOK, TabsSound, WellKept, OriginOfUrl
  <2> QED
    BY <1>4, <2>4, <2>6, <2>7, SlotsFrame DEF InsertTab, TypeOK
<1> QED
  BY <1>1, <1>2, <1>3, <1>4

LEMMA SnapshotSteps ==
  ASSUME IInv
  PROVE  /\ \A c \in Navigators : RenderSnapshot(c) => IInv'
         /\ \A c \in Navigators : CollectScripts(c) => IInv'
         /\ \A c \in Evaluators, t \in TabIds : Eval(c, t) => IInv'
<1> USE DEF IInv
<1>0. \A c \in Clients : req[c] \in Request /\ RequestSound(req[c])
  BY DEF TypeOK, RequestsSound
<1>1. ASSUME NEW t \in TabIds, Snapshot(t)
      PROVE  /\ pool' \in [Origins \cup {None} -> Ids \cup {None}]
             /\ PageOf(t) \in Page
             /\ PageOf(t).session.tab = PageOf(t).tab
             /\ PageOf(t).url # None =>
                  PageOf(t).session.origin = OriginOfUrl(PageOf(t).url)
  <2> DEFINE o == OriginOfUrl(tabs[t].url)
  <2>1. /\ tabs[t] # None
        /\ pool[o] # None \/ CanMap(o)
        /\ pool' = [pool EXCEPT ![o] = LocalMap(o)]
    BY <1>1 DEF Snapshot
  <2> QED
    BY <2>1, PageOfSound DEF TypeOK
<1>2. ASSUME NEW c \in Navigators, RenderSnapshot(c) PROVE IInv'
  <2> DEFINE t == req[c].tab
             r == [req[c] EXCEPT !.pc = "scripts", !.page = PageOf(t)]
  <2>1. c \in Clients /\ t \in TabIds
    BY <1>0, <1>2 DEF Clients, RenderSnapshot, RequestSound
  <2>2. CASE tabs[t] = None /\ Become(c, IdleRequest) /\ UNCHANGED pool
    <3>1. req' \in [Clients -> Request] /\ RequestsSound'
      BY <2>1, <2>2, IdleSound, BecomeSound
    <3> QED
      BY <1>2, <2>2, <3>1, TabsFrame, SlotsFrame DEF RenderSnapshot, TypeOK
  <2>3. CASE Snapshot(t) /\ Become(c, r)
    <3>1. pool' \in [Origins \cup {None} -> Ids \cup {None}] /\ PageOf(t) \in Page
      BY <1>1, <2>1, <2>3
    <3>2. r \in Request
      BY <1>0, <2>1, <3>1 DEF Request, Points
    <3>3. RequestSound(r)
      BY <1>0, <1>1, <2>1, <2>3 DEF RequestSound, Request
    <3>4. req' \in [Clients -> Request] /\ RequestsSound'
      BY <2>1, <2>3, <3>2, <3>3, BecomeSound
    <3> QED
      BY <1>2, <3>1, <3>4, TabsFrame, SlotsFrame DEF RenderSnapshot, TypeOK
  <2> QED
    BY <1>2, <2>2, <2>3 DEF RenderSnapshot
<1>3. ASSUME NEW c \in Navigators, CollectScripts(c) PROVE IInv'
  <2> DEFINE r == [req[c] EXCEPT !.pc = "sending"]
  <2>1. c \in Clients /\ req[c] \in Request /\ RequestSound(req[c]) /\ req[c].pc = "scripts"
    BY <1>0, <1>3 DEF Clients, CollectScripts
  <2>2. r \in Request /\ RequestSound(r)
    BY <2>1 DEF Request, Points, RequestSound
  <2>3. Become(c, IdleRequest) \/ Become(c, r)
    BY <1>3 DEF CollectScripts
  <2>4. req' \in [Clients -> Request] /\ RequestsSound'
    BY <2>1, <2>2, <2>3, IdleSound, BecomeSound
  <2> QED
    BY <1>3, <2>4, TabsFrame, SlotsFrame DEF CollectScripts, TypeOK
<1>4. ASSUME NEW c \in Evaluators, NEW t \in TabIds, Eval(c, t) PROVE IInv'
  <2> DEFINE bare == [IdleRequest EXCEPT !.pc = "sending", !.verb = "eval", !.tab = t]
             r == [IdleRequest EXCEPT !.pc = "sending", !.verb = "eval", !.tab = t,
                                      !.page = PageOf(t)]
  <2>1. c \in Clients
    BY DEF Clients
  <2>2. CASE Become(c, bare) /\ UNCHANGED pool
    <3>0. bare \in Request
      BY IdleFields DEF Request, Points, Verbs
    <3>1. RequestSound(bare)
      BY IdleFields DEF RequestSound, Request
    <3>2. req' \in [Clients -> Request] /\ RequestsSound'
      BY <2>1, <2>2, <3>0, <3>1, BecomeSound
    <3> QED
      BY <1>4, <2>2, <3>2, TabsFrame, SlotsFrame DEF Eval, TypeOK
  <2>3. CASE Snapshot(t) /\ Become(c, r)
    <3>0. r \in Request
      BY <1>1, <2>3, IdleFields DEF Request, Points, Verbs
    <3>1. RequestSound(r)
      BY <1>1, <2>3, IdleFields DEF RequestSound, Request
    <3>2. req' \in [Clients -> Request] /\ RequestsSound'
      BY <2>1, <2>3, <3>0, <3>1, BecomeSound
    <3> QED
      BY <1>1, <1>4, <2>3, <3>2, TabsFrame, SlotsFrame DEF Eval, TypeOK
  <2> QED
    BY <1>4, <2>2, <2>3 DEF Eval
<1> QED
  BY <1>2, <1>3, <1>4

LEMMA WorkerSteps ==
  ASSUME IInv
  PROVE  /\ \A c \in Clients : Send(c) => IInv'
         /\ \A c \in Clients : SendFails(c) => IInv'
         /\ WorkerTakes => IInv'
         /\ \A m \in BOOLEAN, u \in Urls \cup {None} : ScriptEnds(m, u) => IInv'
         /\ WorkerDies => IInv'
<1> USE DEF IInv
<1>0. \A c \in Clients : req[c] \in Request /\ RequestSound(req[c])
  BY DEF TypeOK, RequestsSound
<1>1. ASSUME NEW c \in Clients, Send(c) PROVE IInv'
  <2> DEFINE cmd == [by |-> c, reply |-> TRUE, page |-> req[c].page]
             r   == [req[c] EXCEPT !.pc = "waiting"]
  <2>1. cmd \in Cmd
    BY <1>0 DEF Cmd, Request
  <2>2. channel' \in Seq(Cmd) /\ Len(channel') <= JsCapacity
    BY <1>1, <2>1, ConstantsOK DEF Send, TypeOK
  <2>3. r \in Request /\ RequestSound(r)
    BY <1>0, <1>1 DEF Send, Request, Points, RequestSound
  <2>4. req' \in [Clients -> Request] /\ RequestsSound'
    BY <1>1, <2>3, BecomeSound DEF Send
  <2> QED
    BY <1>1, <2>2, <2>4, TabsFrame, SlotsFrame DEF Send, TypeOK
<1>2. ASSUME NEW c \in Clients, SendFails(c) PROVE IInv'
  <2>1. req' \in [Clients -> Request] /\ RequestsSound'
    BY <1>2, AnsweredSound, BecomeSound DEF SendFails
  <2> QED
    BY <1>2, <2>1, TabsFrame, SlotsFrame DEF SendFails, TypeOK
<1>3. ASSUME WorkerTakes PROVE IInv'
  <2>1. channel' \in Seq(Cmd) /\ Len(channel') <= JsCapacity /\ running' \in Cmd
    BY <1>3, ConstantsOK DEF WorkerTakes, TypeOK
  <2>2. RequestsSound'
    BY <1>3, RequestsFrame DEF WorkerTakes
  <2> QED
    BY <1>3, <2>1, <2>2, TabsFrame, SlotsFrame DEF WorkerTakes, TypeOK
<1>4. ASSUME NEW m \in BOOLEAN, NEW u \in Urls \cup {None}, ScriptEnds(m, u)
      PROVE  IInv'
  <2> DEFINE page == running.page
             new  == MutationOf(running)
  <2>1. running \in Cmd /\ running.by \in Clients /\ running' = None
    BY <1>4 DEF ScriptEnds, TypeOK, Cmd
  <2>2. req' \in [Clients -> Request] /\ RequestsSound'
    <3>1. CASE running.reply
      BY <1>4, <2>1, <3>1, AnsweredSound, BecomeSound DEF ScriptEnds
    <3>2. CASE ~running.reply
      BY <1>4, <3>2, RequestsFrame DEF ScriptEnds, TypeOK
    <3> QED
      BY <3>1, <3>2
  <2>3. slots' \in [TabIds -> [Ids -> Writeback \cup {None}]] /\ SlotsSound'
    <3>1. CASE m
      <4>1. page \in Page /\ slots' = [slots EXCEPT ![page.tab][page.load] = new]
        BY <1>4, <2>1, <3>1 DEF ScriptEnds, Cmd
      <4>2. page.tab \in TabIds /\ page.load \in Ids /\ page.html \in Html
        BY <4>1 DEF Page
      <4>3. new.html = [page.html EXCEPT !.muts = Append(@, running.by)]
            /\ new.from = page.html
        BY DEF MutationOf
      <4>4. page.html.muts \in Seq(Clients) /\ Append(page.html.muts, running.by) \in Seq(Clients)
        BY <2>1, <4>2 DEF Html
      <4>5. new.html \in Html
        BY <4>2, <4>3, <4>4 DEF Html
      <4>6. new \in Writeback
        BY <4>2, <4>3, <4>5 DEF MutationOf, Writeback
      <4>7. WritebackSound(new)
        BY <2>1, <4>3 DEF WritebackSound
      <4> QED
        BY <4>1, <4>2, <4>6, <4>7, SlotsUpdate
    <3>2. CASE ~m
      BY <1>4, <3>2, SlotsFrame DEF ScriptEnds, TypeOK
    <3> QED
      BY <3>1, <3>2
  <2> QED
    BY <1>4, <2>1, <2>2, <2>3, TabsFrame DEF ScriptEnds, TypeOK
<1>5. ASSUME WorkerDies PROVE IInv'
  <2>1. \A c \in Clients : Answered(c, None, FALSE) \in Request
                          /\ RequestSound(Answered(c, None, FALSE))
    BY AnsweredSound
  <2>2. req' \in [Clients -> Request] /\ \A c \in Clients : RequestSound(req'[c])
    BY <1>0, <1>5, <2>1 DEF WorkerDies, TypeOK
  <2>3. RequestsSound'
    BY <2>2 DEF RequestsSound, RequestSound, WellKept, OriginOfUrl, WritebackSound
  <2>4. channel' \in Seq(Cmd) /\ Len(channel') <= JsCapacity
    BY <1>5, ConstantsOK DEF WorkerDies
  <2> QED
    BY <1>5, <2>2, <2>3, <2>4, TabsFrame, SlotsFrame DEF WorkerDies, TypeOK
<1> QED
  BY <1>1, <1>2, <1>3, <1>4, <1>5

LEMMA AfterwardsSteps ==
  ASSUME IInv
  PROVE  /\ \A c \in Clients : TakeWriteback(c) => IInv'
         /\ \A c \in Clients : Adopt(c) => IInv'
         /\ \A c \in Navigators : Follow(c) => IInv'
         /\ \A c \in Clients : Cancel(c) => IInv'
<1> USE DEF IInv
<1>0. \A c \in Clients : req[c] \in Request /\ RequestSound(req[c])
  BY DEF TypeOK, RequestsSound
<1>1. ASSUME NEW c \in Clients, TakeWriteback(c) PROVE IInv'
  <2> DEFINE page == req[c].page
             wb   == slots[page.tab][page.load]
             r    == [req[c] EXCEPT !.pc = "adopt", !.pending = wb]
  <2>1. req[c] \in Request /\ RequestSound(req[c]) /\ req[c].pc = "take"
    BY <1>0, <1>1 DEF TakeWriteback
  <2>2. page \in Page /\ page.tab \in TabIds /\ page.load \in Ids
    BY <2>1 DEF RequestSound, Request, Page
  <2>3. wb \in Writeback \cup {None} /\ (wb # None => WritebackSound(wb))
    BY <2>2 DEF TypeOK, SlotsSound
  <2>4. slots' = [slots EXCEPT ![page.tab][page.load] = None]
    BY <1>1 DEF TakeWriteback
  <2>5. slots' \in [TabIds -> [Ids -> Writeback \cup {None}]] /\ SlotsSound'
    BY <2>2, <2>4, SlotsUpdate
  <2>6. req' \in [Clients -> Request] /\ RequestsSound'
    <3>1. CASE wb = None
      BY <1>1, <2>1, <3>1, AfterEvalSound, BecomeSound DEF TakeWriteback
    <3>2. CASE wb # None
      <4>1. r \in Request
        BY <2>1, <2>3 DEF Request, Points
      <4>2. RequestSound(r)
        BY <2>1, <2>3, <3>2 DEF RequestSound, Request
      <4> QED
        BY <1>1, <3>2, <4>1, <4>2, BecomeSound DEF TakeWriteback
    <3> QED
      BY <3>1, <3>2
  <2> QED
    BY <1>1, <2>5, <2>6, TabsFrame DEF TakeWriteback, TypeOK
<1>2. ASSUME NEW c \in Clients, Adopt(c) PROVE IInv'
  <2> DEFINE t  == req[c].tab
             wb == req[c].pending
  <2>1. req[c] \in Request /\ RequestSound(req[c]) /\ req[c].pc = "adopt"
    BY <1>0, <1>2 DEF Adopt
  <2>2. t \in TabIds /\ wb \in Writeback /\ wb.html \in Html
    BY <2>1 DEF RequestSound, Request, Writeback
  <2>3. req' \in [Clients -> Request] /\ RequestsSound'
    BY <1>2, <2>1, AfterEvalSound, BecomeSound DEF Adopt
  <2>4. CASE tabs' = tabs
    BY <1>2, <2>3, <2>4, TabsFrame, SlotsFrame DEF Adopt, TypeOK
  <2>5. CASE tabs[t] # None /\ tabs' = [tabs EXCEPT ![t].html = wb.html]
    <3>1. tabs[t] \in Tab
      BY <2>2, <2>5 DEF TypeOK
    <3>2. tabs'[t] = [tabs[t] EXCEPT !.html = wb.html]
      BY <2>2, <2>5 DEF TypeOK
    <3>3. tabs'[t] \in Tab /\ WellKept(t, tabs'[t])
      BY <2>2, <2>5, <3>1, <3>2 DEF Tab, TabsSound, WellKept
    <3>4. tabs' \in [TabIds -> Tab \cup {None}]
      BY <2>2, <2>5, <3>2, <3>3 DEF TypeOK
    <3>5. \A x \in TabIds : tabs'[x] # None => WellKept(x, tabs'[x])
      BY <2>2, <2>5, <3>3 DEF TypeOK, TabsSound
    <3>6. TabsSound'
      BY <3>5 DEF TabsSound, WellKept, OriginOfUrl
    <3> QED
      BY <1>2, <2>3, <3>4, <3>6, SlotsFrame DEF Adopt, TypeOK
  <2> QED
    BY <1>2, <2>4, <2>5 DEF Adopt
<1>3. ASSUME NEW c \in Navigators, Follow(c) PROVE IInv'
  <2> DEFINE r == [req[c] EXCEPT !.pc = "fetching", !.page = None, !.mutated = FALSE]
  <2>1. c \in Clients /\ req[c] \in Request /\ RequestSound(req[c]) /\ req[c].pc = "follow"
    BY <1>0, <1>3 DEF Clients, Follow
  <2>2. CASE Become(c, IdleRequest)
    <3>1. req' \in [Clients -> Request] /\ RequestsSound'
      BY <2>1, <2>2, IdleSound, BecomeSound
    <3> QED
      BY <1>3, <3>1, TabsFrame, SlotsFrame DEF Follow, TypeOK
  <2>3. CASE req[c].hops < NavMaxHops /\ Become(c, r)
    <3>1. r \in Request
      BY <2>1 DEF Request, Points
    <3>2. RequestSound(r)
      BY <2>1, <2>3 DEF RequestSound, Request
    <3>3. req' \in [Clients -> Request] /\ RequestsSound'
      BY <2>1, <2>3, <3>1, <3>2, BecomeSound
    <3> QED
      BY <1>3, <3>3, TabsFrame, SlotsFrame DEF Follow, TypeOK
  <2> QED
    BY <1>3, <2>2, <2>3 DEF Follow
<1>4. ASSUME NEW c \in Clients, Cancel(c) PROVE IInv'
  <2> DEFINE orphan(cmd) == IF cmd.by = c THEN [cmd EXCEPT !.reply = FALSE] ELSE cmd
  <2>1. \A cmd \in Cmd : orphan(cmd) \in Cmd
    BY DEF Cmd
  <2>2. channel' = [k \in DOMAIN channel |-> orphan(channel[k])]
        /\ running' = (IF running = None THEN None ELSE orphan(running))
    BY <1>4 DEF Cancel
  <2>3. channel' \in Seq(Cmd) /\ Len(channel') <= JsCapacity
    <3>1. channel \in Seq(Cmd) /\ DOMAIN channel = 1..Len(channel) /\ Len(channel) \in Nat
          /\ Len(channel) <= JsCapacity
      BY DEF TypeOK
    <3>2. channel' \in [1..Len(channel) -> Cmd]
      BY <2>1, <2>2, <3>1
    <3> QED
      BY <3>1, <3>2
  <2>4. running' \in Cmd \cup {None}
    BY <2>1, <2>2 DEF TypeOK
  <2>5. req' \in [Clients -> Request] /\ RequestsSound'
    BY <1>4, IdleSound, BecomeSound DEF Cancel
  <2> QED
    BY <1>4, <2>3, <2>4, <2>5, TabsFrame, SlotsFrame DEF Cancel, TypeOK
<1> QED
  BY <1>1, <1>2, <1>3, <1>4

\* The tab a restore opens is a well kept tab, and so is what it leaves in the pool.
LEMMA RestoreSteps ==
  ASSUME IInv, NEW c \in Admins
  PROVE  /\ \A t \in TabIds : CloseTab(c, t) => IInv'
         /\ \A t \in TabIds : RestoreTab(c, t) => IInv'
         /\ SessionReset(c) => IInv'
         /\ RestorePool(c) => IInv'
<1> USE DEF IInv
<1>0. c \in Clients
  BY DEF Clients
<1>1. ASSUME NEW t \in TabIds, CloseTab(c, t) PROVE IInv'
  <2>1. tabs' \in [TabIds -> Tab \cup {None}]
    BY <1>1 DEF CloseTab, TypeOK
  <2>2. TabsSound'
    BY <1>1 DEF CloseTab, TypeOK, TabsSound, WellKept, OriginOfUrl
  <2> QED
    BY <1>1, <2>1, <2>2, SlotsFrame, RequestsFrame DEF CloseTab, TypeOK
<1>2. ASSUME NEW t \in TabIds, RestoreTab(c, t) PROVE IInv'
  <2> DEFINE r   == [IdleRequest EXCEPT !.pc = "pool", !.verb = "restore", !.tab = t]
             new == EmptyTab(t)
  <2>1. r \in Request
    BY IdleFields DEF Request, Points, Verbs
  <2>2. RequestSound(r)
    BY IdleFields DEF RequestSound, Request
  <2>3. Become(c, r)
    BY <1>2 DEF RestoreTab
  <2>4. req' \in [Clients -> Request] /\ RequestsSound'
    BY <1>0, <2>1, <2>2, <2>3, BecomeSound
  <2>5. CASE UNCHANGED <<tabs, slots>>
    BY <1>2, <2>4, <2>5, TabsFrame, SlotsFrame DEF RestoreTab, TypeOK
  <2>6. CASE /\ CanLoad(t, None)
             /\ tabs' = [tabs EXCEPT ![t] = new]
             /\ slots' = [slots EXCEPT ![t][NewLoad(t)] = None]
    <3>1. NewLoad(t) \in Ids
      BY <2>6, NewLoadType DEF CanLoad
    <3>2. NewStore(t, None) \in Store /\ NewStore(t, None).tab = t
      BY <2>6, NewStoreType
    <3>3. new \in Tab
      BY <3>1, <3>2 DEF EmptyTab, Tab, Html
    <3>4. WellKept(t, new)
      BY <3>2 DEF EmptyTab, WellKept
    <3>5. tabs' \in [TabIds -> Tab \cup {None}]
      BY <2>6, <3>3 DEF TypeOK
    <3>6. \A x \in TabIds : tabs'[x] # None => WellKept(x, tabs'[x])
      BY <2>6, <3>4 DEF TypeOK, TabsSound
    <3>7. TabsSound'
      BY <3>6 DEF TabsSound, WellKept, OriginOfUrl
    <3>8. slots' \in [TabIds -> [Ids -> Writeback \cup {None}]] /\ SlotsSound'
      BY <2>6, <3>1, SlotsUpdate
    <3> QED
      BY <1>2, <2>4, <3>5, <3>7, <3>8 DEF RestoreTab, TypeOK
  <2> QED
    BY <1>2, <2>5, <2>6 DEF RestoreTab
<1>3. ASSUME SessionReset(c) PROVE IInv'
  BY <1>3, TabsFrame, SlotsFrame, RequestsFrame DEF SessionReset, TypeOK
<1>4. ASSUME RestorePool(c) PROVE IInv'
  <2>1. req' \in [Clients -> Request] /\ RequestsSound'
    BY <1>0, <1>4, IdleSound, BecomeSound DEF RestorePool
  <2>2. pool' \in [Origins \cup {None} -> Ids \cup {None}]
    BY <1>4, NewLocalMapType DEF RestorePool, TypeOK
  <2> QED
    BY <1>4, <2>1, <2>2, TabsFrame, SlotsFrame DEF RestorePool, TypeOK
<1> QED
  BY <1>1, <1>2, <1>3, <1>4

-----------------------------------------------------------------------------
(* The invariant *)

LEMMA Initially == Init => IInv
<1> SUFFICES ASSUME Init PROVE IInv
  OBVIOUS
<1>1. req \in [Clients -> Request] /\ RequestsSound
  BY IdleSound DEF Init, RequestsSound
<1>2. << >> \in Seq(Cmd) /\ Len(<< >>) <= JsCapacity
  BY ConstantsOK
<1>3. TypeOK
  BY <1>1, <1>2 DEF Init, TypeOK
<1>4. TabsSound /\ SlotsSound
  BY DEF Init, TabsSound, SlotsSound
<1> QED
  BY <1>1, <1>3, <1>4 DEF IInv

LEMMA Preserved == IInv /\ [Next]_vars => IInv'
<1> SUFFICES ASSUME IInv, [Next]_vars PROVE IInv'
  OBVIOUS
<1>1. CASE UNCHANGED vars
  BY <1>1, TabsFrame, SlotsFrame, RequestsFrame DEF vars, IInv, TypeOK
<1>2. CASE Next
  BY <1>2, NavigationSteps, SnapshotSteps, WorkerSteps, AfterwardsSteps, RestoreSteps
     DEF Next
<1> QED
  BY <1>1, <1>2

LEMMA Invariance == Spec => []IInv
BY Initially, Preserved, PTL DEF Spec

\* Every variable always holds a value of its type: in particular no handler
\* takes a writeback without a page, stores a tab it has not computed, or
\* counts more than NavMaxHops hops, and the channel never overflows.
THEOREM TypeCorrect == Spec => []TypeOK
<1>1. IInv => TypeOK
  BY DEF IInv
<1> QED
  BY <1>1, Invariance, PTL

\* Whatever the tabs, clients and interleavings, no tab and no eval in flight
\* ever holds the session map of another tab or another origin.
THEOREM SessionStoragePrivate == Spec => []SessionStorageIsPrivate
<1>1. IInv => SessionStorageIsPrivate
  BY DEF IInv, TabsSound, RequestsSound, RequestSound, SessionStorageIsPrivate
<1> QED
  BY <1>1, Invariance, PTL

-----------------------------------------------------------------------------
(* The tab table implements LiveDocument *)

DocOf(tab) == IF tab = None THEN None ELSE tab.html

Documents == [t \in TabIds |-> DocOf(tabs[t])]

\* Only four actions touch the table.
LEMMA TableSteps ==
  ASSUME Next
  PROVE  \/ tabs' = tabs
         \/ \E c \in Navigators : InsertTab(c)
         \/ \E c \in Clients : Adopt(c)
         \/ \E c \in Admins, t \in TabIds : CloseTab(c, t) \/ RestoreTab(c, t)
<1>1. CASE tabs' = tabs
  BY <1>1
<1>2. CASE ~(tabs' = tabs)
  <2>1. /\ \A c \in Navigators, t \in TabIds, render \in BOOLEAN : ~Navigate(c, t, render)
        /\ \A c \in Navigators, u \in Urls, d \in Docs : ~NavigationAnswers(c, u, d)
        /\ \A c \in Navigators : ~NavigationFails(c) /\ ~RenderSnapshot(c)
                                /\ ~CollectScripts(c) /\ ~Follow(c)
    BY <1>2 DEF Navigate, NavigationAnswers, NavigationFails, RenderSnapshot,
                CollectScripts, Follow
  <2>2. /\ \A c \in Evaluators, t \in TabIds : ~Eval(c, t)
        /\ \A c \in Clients : ~Send(c) /\ ~SendFails(c) /\ ~TakeWriteback(c) /\ ~Cancel(c)
    BY <1>2 DEF Eval, Send, SendFails, TakeWriteback, Cancel
  <2>3. /\ ~WorkerTakes /\ ~WorkerDies
        /\ \A m \in BOOLEAN, u \in Urls \cup {None} : ~ScriptEnds(m, u)
        /\ \A c \in Admins : ~SessionReset(c) /\ ~RestorePool(c)
    BY <1>2 DEF WorkerTakes, WorkerDies, ScriptEnds, SessionReset, RestorePool
  <2> QED
    BY <2>1, <2>2, <2>3 DEF Next
<1> QED
  BY <1>1, <1>2

\* A change of one tab changes one document.
LEMMA OneDocument ==
  ASSUME TypeOK, NEW t \in TabIds, NEW tab, tabs' = [tabs EXCEPT ![t] = tab]
  PROVE  Documents' = [Documents EXCEPT ![t] = DocOf(tab)]
<1>1. \A x \in TabIds : tabs'[x] = IF x = t THEN tab ELSE tabs[x]
  BY DEF TypeOK
<1>2. Documents' = [x \in TabIds |-> DocOf(tabs'[x])]
  BY DEF Documents, DocOf
<1>3. \A x \in TabIds : DocOf(tabs'[x]) = IF x = t THEN DocOf(tab) ELSE DocOf(tabs[x])
  BY <1>1
<1>4. [Documents EXCEPT ![t] = DocOf(tab)]
      = [x \in TabIds |-> IF x = t THEN DocOf(tab) ELSE DocOf(tabs[x])]
  BY DEF Documents
<1> QED
  BY <1>2, <1>3, <1>4

LEMMA RefinementStep ==
  ASSUME IInv, Next
  PROVE  LiveDoc!Next \/ Documents' = Documents
<1> USE DEF IInv
<1>0. \A c \in Clients : req[c] \in Request /\ RequestSound(req[c])
  BY DEF TypeOK, RequestsSound
<1>a. Documents = [t \in TabIds |-> IF tabs[t] = None THEN None ELSE tabs[t].html]
  BY DEF Documents, DocOf
<1>b. \A x \in Tab : DocOf(x) = x.html
  BY NoneOK DEF DocOf
<1>1. CASE tabs' = tabs
  BY <1>1 DEF Documents, DocOf
<1>2. ASSUME NEW c \in Navigators, InsertTab(c) PROVE LiveDoc!Next
  <2> DEFINE t == req[c].tab
             next == req[c].next
  <2>1. /\ t \in TabIds /\ next \in Tab
        /\ next.html.muts = << >>
        /\ tabs' = [tabs EXCEPT ![t] = next]
    BY <1>0, <1>2 DEF Clients, InsertTab, RequestSound, Request
  <2>2. next.html \in Html
    BY <2>1 DEF Tab
  <2>3. PICK d \in Docs \cup {None} : next.html = [doc |-> d, muts |-> << >>]
    BY <2>1, <2>2 DEF Html
  <2>4. Documents' = [Documents EXCEPT ![t] = [doc |-> d, muts |-> << >>]]
    <3>1. DocOf(next) = [doc |-> d, muts |-> << >>]
      BY <1>b, <2>1, <2>3
    <3>2. Documents' = [Documents EXCEPT ![t] = DocOf(next)]
      BY <2>1, OneDocument
    <3> QED
      BY <3>1, <3>2
  <2>5. LiveDoc!Load(t, d)
    BY <2>4 DEF LiveDoc!Load, Documents, DocOf
  <2> QED
    BY <2>1, <2>5 DEF LiveDoc!Next
<1>3. ASSUME NEW c \in Clients, Adopt(c) PROVE LiveDoc!Next \/ Documents' = Documents
  <2> DEFINE t  == req[c].tab
             wb == req[c].pending
             new == [tabs[t] EXCEPT !.html = wb.html]
  <2>1. t \in TabIds /\ wb \in Writeback /\ WritebackSound(wb)
    BY <1>0, <1>3 DEF Adopt, RequestSound, Request
  <2>2. CASE tabs' = tabs
    BY <2>2 DEF Documents, DocOf
  <2>3. CASE /\ tabs[t] # None /\ tabs[t].html = wb.from
             /\ tabs' = [tabs EXCEPT ![t].html = wb.html]
    <3>1. PICK m \in Clients : wb.html = [wb.from EXCEPT !.muts = Append(@, m)]
      BY <2>1 DEF WritebackSound
    <3>2. tabs[t] \in Tab /\ tabs' = [tabs EXCEPT ![t] = new]
      BY <2>1, <2>3 DEF TypeOK
    <3>3. new # None /\ new.html = wb.html
      <4>1. new \in Tab
        BY <2>1, <3>2 DEF Tab, Writeback
      <4> QED
        BY <3>2, <4>1, NoneOK DEF Tab
    <3>4. Documents' = [Documents EXCEPT ![t] = wb.html]
      BY <2>1, <3>2, <3>3, OneDocument DEF DocOf
    <3>5. Documents[t] = wb.from /\ wb.from # None
      <4>1. Documents[t] = wb.from
        BY <2>1, <2>3 DEF Documents, DocOf
      <4>2. wb.from \in Html
        BY <2>1 DEF Writeback
      <4> QED
        BY <4>1, <4>2, NoneOK
    <3>6. Documents' = [Documents EXCEPT ![t].muts = Append(@, m)]
      BY <2>1, <3>1, <3>4, <3>5 DEF Documents
    <3>7. LiveDoc!Mutate(t, m)
      BY <2>1, <3>5, <3>6 DEF LiveDoc!Mutate, Documents, DocOf
    <3> QED
      BY <2>1, <3>7 DEF LiveDoc!Next
  <2> QED
    BY <1>3, <2>2, <2>3 DEF Adopt
<1>4. ASSUME NEW c \in Admins, NEW t \in TabIds, CloseTab(c, t) PROVE LiveDoc!Next
  <2>1. Documents' = [Documents EXCEPT ![t] = None]
    BY <1>4, OneDocument DEF CloseTab, DocOf
  <2>2. LiveDoc!Close(t)
    BY <2>1 DEF LiveDoc!Close, Documents, DocOf
  <2> QED
    BY <2>2 DEF LiveDoc!Next
<1>5. ASSUME NEW c \in Admins, NEW t \in TabIds, RestoreTab(c, t)
      PROVE  LiveDoc!Next \/ Documents' = Documents
  <2>1. CASE tabs' = tabs
    BY <2>1 DEF Documents, DocOf
  <2>2. CASE CanLoad(t, None) /\ tabs' = [tabs EXCEPT ![t] = EmptyTab(t)]
    <3>1. NewLoad(t) \in Ids /\ NewStore(t, None) \in Store
      BY <2>2, NewLoadType, NewStoreType DEF CanLoad
    <3>2. EmptyTab(t) \in Tab /\ EmptyTab(t).html = [doc |-> None, muts |-> << >>]
      BY <3>1 DEF EmptyTab, Tab, Html
    <3>3. Documents' = [Documents EXCEPT ![t] = [doc |-> None, muts |-> << >>]]
      <4>1. DocOf(EmptyTab(t)) = [doc |-> None, muts |-> << >>]
        BY <1>b, <3>2
      <4>2. Documents' = [Documents EXCEPT ![t] = DocOf(EmptyTab(t))]
        BY <2>2, OneDocument
      <4> QED
        BY <4>1, <4>2
    <3>4. LiveDoc!Load(t, None)
      BY <3>3 DEF LiveDoc!Load, Documents, DocOf
    <3> QED
      BY <3>4 DEF LiveDoc!Next
  <2> QED
    BY <1>5, <2>1, <2>2 DEF RestoreTab
<1> QED
  BY <1>1, <1>2, <1>3, <1>4, <1>5, TableSteps

\* The document of every tab evolves as LiveDocument says: only a navigation, a
\* restore or a close replaces it, and an adopted mutation is added to the
\* document as it is at that moment, never over one adopted in between.
THEOREM TableImplementsLiveDocument == Spec => MutationsAccumulate
<1>1. Init => LiveDoc!Init
  BY DEF Init, LiveDoc!Init
<1>2. IInv /\ [Next]_vars => [LiveDoc!Next]_Documents
  <2>1. UNCHANGED vars => Documents' = Documents
    BY DEF vars, Documents, DocOf
  <2> QED
    BY <2>1, RefinementStep
<1>3. LiveDoc!Spec <=> LiveDoc!Init /\ [][LiveDoc!Next]_Documents
  BY DEF LiveDoc!Spec, Documents, DocOf
<1> QED
  BY <1>1, <1>2, <1>3, Invariance, PTL DEF Spec, MutationsAccumulate

-----------------------------------------------------------------------------
(* Replies.  RepliesMatchHandlers is inductive, once the numbers of places on    *)
(* the channel are said without sets of places: OwedOnce says the same of one    *)
(* client at a time.                                                             *)

Answers(cmd, c) == cmd # None /\ cmd.reply /\ cmd.by = c

Queued(c) == \E k \in DOMAIN channel : Answers(channel[k], c)

OwedOnce(c) ==
  /\ req[c].pc = "waiting" <=> Queued(c) \/ Answers(running, c)
  /\ Answers(running, c) => ~Queued(c)
  /\ \A j, k \in DOMAIN channel : Answers(channel[j], c) /\ Answers(channel[k], c) => j = k

EachOwedOnce == \A c \in Clients : OwedOnce(c)

\* The two ways of saying it.
LEMMA OwedOnceIsMatch == ASSUME TypeOK, EachOwedOnce PROVE RepliesMatchHandlers
<1>0. \A k \in DOMAIN channel : channel[k] \in Cmd /\ channel[k] # None
  BY NoneOK DEF TypeOK
<1> SUFFICES ASSUME NEW c \in Clients
             PROVE  LET queued  == {k \in Commands : channel[k].by = c}
                        current == running # None /\ running.reply /\ running.by = c
                    IN  IF req[c].pc = "waiting"
                        THEN \/ current /\ queued = {}
                             \/ ~current /\ \E k \in queued : queued = {k}
                        ELSE ~current /\ queued = {}
  BY DEF RepliesMatchHandlers
<1> DEFINE queued == {k \in Commands : channel[k].by = c}
<1>1. \A k : k \in queued <=> k \in DOMAIN channel /\ Answers(channel[k], c)
  BY <1>0 DEF Commands, Answers
<1>2. OwedOnce(c)
  BY DEF EachOwedOnce
<1>3. Queued(c) => \E k \in queued : queued = {k}
  BY <1>1, <1>2 DEF OwedOnce, Queued
<1>4. ~Queued(c) => queued = {}
  BY <1>1 DEF Queued
<1>5. CASE req[c].pc = "waiting"
  <2>1. CASE Answers(running, c)
    BY <1>2, <1>4, <1>5, <2>1 DEF OwedOnce, Answers
  <2>2. CASE ~Answers(running, c)
    BY <1>2, <1>3, <1>5, <2>2 DEF OwedOnce, Answers
  <2> QED
    BY <2>1, <2>2
<1>6. CASE req[c].pc # "waiting"
  BY <1>2, <1>4, <1>6 DEF OwedOnce, Answers
<1> QED
  BY <1>5, <1>6

\* A step that leaves the channel and the worker alone, and nobody begins or stops to wait.
LEMMA OwedFrame ==
  ASSUME EachOwedOnce, channel' = channel, running' = running,
         \A c \in Clients : req'[c].pc = "waiting" <=> req[c].pc = "waiting"
  PROVE  EachOwedOnce'
BY DEF EachOwedOnce, OwedOnce, Queued, Answers

LEMMA OwedBecome ==
  ASSUME TypeOK, EachOwedOnce, channel' = channel, running' = running,
         NEW c \in Clients, NEW r, Become(c, r),
         r.pc = "waiting" <=> req[c].pc = "waiting"
  PROVE  EachOwedOnce'
<1>1. \A d \in Clients : req'[d] = IF d = c THEN r ELSE req[d]
  BY DEF Become, TypeOK
<1> QED
  BY <1>1, OwedFrame

LEMMA NeverWaits ==
  ASSUME TypeOK, NEW c \in Clients, NEW u, NEW m
  PROVE  /\ IdleRequest.pc = "idle"
         /\ Answered(c, u, m).pc # "waiting"
         /\ AfterEval(c).pc # "waiting"
BY DEF IdleRequest, Answered, AfterEval, TypeOK, Request

LEMMA OwedSend ==
  ASSUME TypeOK, EachOwedOnce, NEW c \in Clients, Send(c)
  PROVE  EachOwedOnce'
<1> DEFINE cmd == [by |-> c, reply |-> TRUE, page |-> req[c].page]
<1>1. /\ channel \in Seq(Cmd) /\ channel' = Append(channel, cmd)
      /\ running' = running /\ req[c].pc = "sending"
      /\ req' = [req EXCEPT ![c] = [req[c] EXCEPT !.pc = "waiting"]]
  BY DEF Send, Become, TypeOK
<1>2. \A d \in Clients : req'[d].pc = IF d = c THEN "waiting" ELSE req[d].pc
  BY <1>1 DEF TypeOK, Request
<1>3. /\ DOMAIN channel' = DOMAIN channel \cup {Len(channel) + 1}
      /\ Len(channel) + 1 \notin DOMAIN channel
      /\ channel'[Len(channel) + 1] = cmd
      /\ \A k \in DOMAIN channel : channel'[k] = channel[k]
  BY <1>1
<1>4. cmd \in Cmd /\ cmd # None
  <2>1. req[c].page \in Page \cup {None}
    BY DEF TypeOK, Request
  <2>2. cmd \in Cmd
    BY <2>1 DEF Cmd
  <2> QED
    BY <2>2, NoneOK
<1>5. \A d : Answers(cmd, d) <=> d = c
  BY <1>4 DEF Answers
<1> HIDE DEF cmd
<1> SUFFICES ASSUME NEW d \in Clients PROVE OwedOnce(d)'
  BY DEF EachOwedOnce
<1>6. OwedOnce(d)
  BY DEF EachOwedOnce
<1>7. Queued(d)' <=> Queued(d) \/ d = c
  BY <1>3, <1>5 DEF Queued, Answers
<1>8. d = c => ~Queued(c) /\ ~Answers(running, c)
  BY <1>1, <1>6 DEF OwedOnce
<1>9. Answers(running, d)' <=> Answers(running, d)
  BY <1>1 DEF Answers
<1>10. ASSUME NEW j \in DOMAIN channel', NEW k \in DOMAIN channel',
              Answers(channel'[j], d), Answers(channel'[k], d)
       PROVE  j = k
  <2>1. CASE d = c
    BY <1>3, <1>8, <1>10, <2>1 DEF Queued
  <2>2. CASE d # c
    BY <1>3, <1>5, <1>6, <1>10, <2>2 DEF OwedOnce
  <2> QED
    BY <2>1, <2>2
<1>11. \A j, k \in DOMAIN channel' : Answers(channel'[j], d) /\ Answers(channel'[k], d) => j = k
  BY <1>10
<1> QED
  BY <1>2, <1>6, <1>7, <1>8, <1>9, <1>11 DEF OwedOnce, Answers

LEMMA OwedTakes ==
  ASSUME TypeOK, EachOwedOnce, WorkerTakes
  PROVE  EachOwedOnce'
<1>1. /\ channel \in Seq(Cmd) /\ channel # << >> /\ running = None
      /\ running' = Head(channel) /\ channel' = Tail(channel) /\ req' = req
  BY DEF WorkerTakes, TypeOK
<1>2. /\ Len(channel) \in Nat \ {0} /\ DOMAIN channel = 1..Len(channel)
      /\ DOMAIN channel' = 1..(Len(channel) - 1)
      /\ \A k \in DOMAIN channel' : channel'[k] = channel[k + 1]
      /\ running' = channel[1]
  BY <1>1
<1> SUFFICES ASSUME NEW d \in Clients PROVE OwedOnce(d)'
  BY DEF EachOwedOnce
<1>3. OwedOnce(d) /\ ~Answers(running, d)
  BY <1>1 DEF EachOwedOnce, Answers
<1>4. Queued(d) <=> Answers(channel[1], d) \/ \E k \in DOMAIN channel' : Answers(channel'[k], d)
  <2>1. \A k \in DOMAIN channel : k = 1 \/ (k - 1 \in DOMAIN channel' /\ channel[k] = channel'[k - 1])
    BY <1>2
  <2>2. \A k \in DOMAIN channel' : k + 1 \in DOMAIN channel /\ k + 1 # 1 /\ channel'[k] = channel[k + 1]
    BY <1>2
  <2>3. 1 \in DOMAIN channel
    BY <1>2
  <2> QED
    BY <2>1, <2>2, <2>3 DEF Queued
<1>5. Answers(channel[1], d) => \A k \in DOMAIN channel' : ~Answers(channel'[k], d)
  BY <1>2, <1>3 DEF OwedOnce
<1>6. \A j, k \in DOMAIN channel' : Answers(channel'[j], d) /\ Answers(channel'[k], d) => j = k
  BY <1>2, <1>3 DEF OwedOnce
<1> QED
  BY <1>1, <1>2, <1>3, <1>4, <1>5, <1>6 DEF OwedOnce, Queued, Answers

LEMMA OwedScriptEnds ==
  ASSUME TypeOK, EachOwedOnce, NEW m \in BOOLEAN, NEW u, ScriptEnds(m, u)
  PROVE  EachOwedOnce'
<1>1. running # None /\ running \in Cmd /\ running.by \in Clients /\ running' = None /\ channel' = channel
  BY DEF ScriptEnds, TypeOK, Cmd
<1>2. \A d \in Clients : req'[d].pc = "waiting" <=> req[d].pc = "waiting" /\ ~Answers(running, d)
  <2>1. CASE running.reply
    <3>1. req' = [req EXCEPT ![running.by] = Answered(running.by, u, m)]
      BY <2>1 DEF ScriptEnds, Become
    <3>2. Answered(running.by, u, m).pc # "waiting"
      BY <1>1, NeverWaits
    <3> QED
      BY <1>1, <2>1, <3>1, <3>2 DEF TypeOK, Answers
  <2>2. CASE ~running.reply
    BY <2>2 DEF ScriptEnds, Answers
  <2> QED
    BY <2>1, <2>2
<1> QED
  BY <1>1, <1>2 DEF EachOwedOnce, OwedOnce, Queued, Answers

LEMMA OwedDies ==
  ASSUME TypeOK, EachOwedOnce, WorkerDies
  PROVE  EachOwedOnce'
<1>1. channel' = << >> /\ running' = None
      /\ \A d \in Clients : req'[d] = IF req[d].pc = "waiting" THEN Answered(d, None, FALSE) ELSE req[d]
  BY DEF WorkerDies
<1>2. \A d \in Clients : req'[d].pc # "waiting"
  BY <1>1, NeverWaits
<1> QED
  BY <1>1, <1>2 DEF EachOwedOnce, OwedOnce, Queued, Answers

LEMMA OwedCancel ==
  ASSUME TypeOK, EachOwedOnce, NEW c \in Clients, Cancel(c)
  PROVE  EachOwedOnce'
<1> DEFINE orphan(cmd) == IF cmd.by = c THEN [cmd EXCEPT !.reply = FALSE] ELSE cmd
<1>1. /\ req' = [req EXCEPT ![c] = IdleRequest]
      /\ channel' = [k \in DOMAIN channel |-> orphan(channel[k])]
      /\ running' = IF running = None THEN None ELSE orphan(running)
  BY DEF Cancel, Become
<1>2. \A cmd \in Cmd : \A d : Answers(orphan(cmd), d) <=> Answers(cmd, d) /\ d # c
  BY NoneOK DEF Answers, Cmd
<1>3. /\ \A k \in DOMAIN channel : channel[k] \in Cmd
      /\ running \in Cmd \cup {None}
  BY DEF TypeOK
<1> HIDE DEF orphan
<1>4. /\ DOMAIN channel' = DOMAIN channel
      /\ \A k \in DOMAIN channel : \A d :
           Answers(channel'[k], d) <=> Answers(channel[k], d) /\ d # c
      /\ \A d : Answers(running', d) <=> Answers(running, d) /\ d # c
  BY <1>1, <1>2, <1>3, NoneOK DEF Answers
<1>5. \A d \in Clients : req'[d].pc = "waiting" <=> req[d].pc = "waiting" /\ d # c
  BY <1>1 DEF TypeOK, IdleRequest
<1> SUFFICES ASSUME NEW d \in Clients PROVE OwedOnce(d)'
  BY DEF EachOwedOnce
<1>6. OwedOnce(d)
  BY DEF EachOwedOnce
<1>7. Queued(d)' <=> Queued(d) /\ d # c
  BY <1>4 DEF Queued, Answers
<1>8. Answers(running, d)' <=> Answers(running, d) /\ d # c
  BY <1>4 DEF Answers
<1>9. \A j, k \in DOMAIN channel' : Answers(channel'[j], d) /\ Answers(channel'[k], d) => j = k
  BY <1>4, <1>6 DEF OwedOnce
<1> QED
  BY <1>5, <1>6, <1>7, <1>8, <1>9 DEF OwedOnce, Answers

\* Every other step of a handler leaves the channel and the worker alone.
LEMMA OwedElsewhere ==
  ASSUME TypeOK, EachOwedOnce, channel' = channel, running' = running,
         NEW c \in Clients, NEW r, Become(c, r),
         req[c].pc # "waiting", r.pc # "waiting"
  PROVE  EachOwedOnce'
BY OwedBecome

LEMMA OwedNavigation ==
  ASSUME TypeOK, EachOwedOnce, NEW c \in Navigators
  PROVE  /\ \A t \in TabIds, render \in BOOLEAN : Navigate(c, t, render) => EachOwedOnce'
         /\ \A u \in Urls, d \in Docs : NavigationAnswers(c, u, d) => EachOwedOnce'
         /\ NavigationFails(c) \/ InsertTab(c) => EachOwedOnce'
         /\ RenderSnapshot(c) \/ CollectScripts(c) \/ Follow(c) => EachOwedOnce'
<1>0. c \in Clients /\ req[c] \in Request /\ IdleRequest.pc = "idle" /\ IdleRequest \in [pc : {"idle"}, verb : {"none"}, tab : {None},
            page : {None}, next : {None}, nav : {None}, hops : {0}, pending : {None}, mutated : {FALSE}]
  BY DEF Clients, TypeOK, IdleRequest
<1>1. ASSUME NEW t \in TabIds, NEW render \in BOOLEAN, Navigate(c, t, render) PROVE EachOwedOnce'
  BY <1>0, <1>1, OwedElsewhere DEF Navigate
<1>2. ASSUME NEW u \in Urls, NEW d \in Docs, NavigationAnswers(c, u, d) PROVE EachOwedOnce'
  <2> DEFINE r == [req[c] EXCEPT !.pc = "insert", !.nav = None,
                !.hops = IF req[c].nav = None THEN @ ELSE @ + 1,
                !.next = AfterNavigation(req[c].tab, tabs[req[c].tab], u, d)]
  <2>1. r.pc = "insert"
    BY <1>0 DEF Request
  <2> QED
    BY <1>0, <1>2, <2>1, OwedElsewhere DEF NavigationAnswers
<1>3. ASSUME NavigationFails(c) \/ InsertTab(c) PROVE EachOwedOnce'
  <2> DEFINE r == IF req[c].verb = "goto" THEN IdleRequest
             ELSE [req[c] EXCEPT !.pc = "snapshot", !.next = None]
  <2>1. r.pc # "waiting"
    BY <1>0 DEF Request
  <2>2. CASE NavigationFails(c)
    BY <1>0, <2>2, OwedElsewhere DEF NavigationFails
  <2>3. CASE InsertTab(c)
    BY <1>0, <2>1, <2>3, OwedElsewhere DEF InsertTab
  <2> QED
    BY <1>3, <2>2, <2>3
<1>4. ASSUME RenderSnapshot(c) PROVE EachOwedOnce'
  <2> DEFINE r == [req[c] EXCEPT !.pc = "scripts", !.page = PageOf(req[c].tab)]
  <2>1. r.pc = "scripts"
    BY <1>0 DEF Request
  <2>2. Become(c, IdleRequest) \/ Become(c, r)
    BY <1>4 DEF RenderSnapshot
  <2> QED
    BY <1>0, <1>4, <2>1, <2>2, OwedElsewhere DEF RenderSnapshot
<1>5. ASSUME CollectScripts(c) PROVE EachOwedOnce'
  <2> DEFINE r == [req[c] EXCEPT !.pc = "sending"]
  <2>1. r.pc = "sending"
    BY <1>0 DEF Request
  <2>2. Become(c, IdleRequest) \/ Become(c, r)
    BY <1>5 DEF CollectScripts
  <2> QED
    BY <1>0, <1>5, <2>1, <2>2, OwedElsewhere DEF CollectScripts
<1>6. ASSUME Follow(c) PROVE EachOwedOnce'
  <2> DEFINE r == [req[c] EXCEPT !.pc = "fetching", !.page = None, !.mutated = FALSE]
  <2>1. r.pc = "fetching"
    BY <1>0 DEF Request
  <2>2. Become(c, IdleRequest) \/ Become(c, r)
    BY <1>6 DEF Follow
  <2> QED
    BY <1>0, <1>6, <2>1, <2>2, OwedElsewhere DEF Follow
<1> QED
  BY <1>1, <1>2, <1>3, <1>4, <1>5, <1>6

LEMMA OwedHandlers ==
  ASSUME TypeOK, EachOwedOnce, NEW c \in Clients
  PROVE  /\ \A t \in TabIds : Eval(c, t) => EachOwedOnce'
         /\ SendFails(c) \/ TakeWriteback(c) \/ Adopt(c) => EachOwedOnce'
         /\ \A t \in TabIds : CloseTab(c, t) \/ RestoreTab(c, t) => EachOwedOnce'
         /\ SessionReset(c) \/ RestorePool(c) => EachOwedOnce'
<1>0. req[c] \in Request /\ IdleRequest.pc = "idle" /\ IdleRequest \in [pc : {"idle"}, verb : {"none"}, tab : {None},
            page : {None}, next : {None}, nav : {None}, hops : {0}, pending : {None}, mutated : {FALSE}]
  BY DEF TypeOK, IdleRequest
<1>1. ASSUME NEW t \in TabIds, Eval(c, t) PROVE EachOwedOnce'
  <2> DEFINE r == [IdleRequest EXCEPT !.pc = "sending", !.verb = "eval", !.tab = t]
             s == [IdleRequest EXCEPT !.pc = "sending", !.verb = "eval", !.tab = t, !.page = PageOf(t)]
  <2>1. r.pc = "sending" /\ s.pc = "sending"
    BY <1>0
  <2>2. Become(c, r) \/ Become(c, s)
    BY <1>1 DEF Eval
  <2> QED
    BY <1>0, <1>1, <2>1, <2>2, OwedElsewhere DEF Eval
<1>2. ASSUME SendFails(c) PROVE EachOwedOnce'
  BY <1>2, NeverWaits, OwedElsewhere DEF SendFails
<1>3. ASSUME TakeWriteback(c) PROVE EachOwedOnce'
  <2> DEFINE wb == slots[req[c].page.tab][req[c].page.load]
             r == [req[c] EXCEPT !.pc = "adopt", !.pending = wb]
  <2>1. r.pc = "adopt"
    BY <1>0 DEF Request
  <2>2. Become(c, AfterEval(c)) \/ Become(c, r)
    BY <1>3 DEF TakeWriteback
  <2> QED
    BY <1>3, <2>1, <2>2, NeverWaits, OwedElsewhere DEF TakeWriteback
<1>4. ASSUME Adopt(c) PROVE EachOwedOnce'
  BY <1>4, NeverWaits, OwedElsewhere DEF Adopt
<1>5. ASSUME NEW t \in TabIds, CloseTab(c, t) PROVE EachOwedOnce'
  BY <1>5, OwedFrame DEF CloseTab
<1>6. ASSUME NEW t \in TabIds, RestoreTab(c, t) PROVE EachOwedOnce'
  BY <1>0, <1>6, OwedElsewhere DEF RestoreTab
<1>7. ASSUME SessionReset(c) PROVE EachOwedOnce'
  BY <1>7, OwedFrame DEF SessionReset
<1>8. ASSUME RestorePool(c) PROVE EachOwedOnce'
  BY <1>0, <1>8, OwedElsewhere DEF RestorePool
<1> QED
  BY <1>1, <1>2, <1>3, <1>4, <1>5, <1>6, <1>7, <1>8

LEMMA OwedPreserved == TypeOK /\ EachOwedOnce /\ [Next]_vars => EachOwedOnce'
<1> SUFFICES ASSUME TypeOK, EachOwedOnce, [Next]_vars PROVE EachOwedOnce'
  OBVIOUS
<1>0. Evaluators \subseteq Clients /\ Admins \subseteq Clients
  BY DEF Clients
<1>1. CASE UNCHANGED vars
  BY <1>1, OwedFrame DEF vars
<1>2. CASE \E c \in Clients : Send(c) \/ Cancel(c)
  BY <1>2, OwedSend, OwedCancel
<1>3. CASE WorkerTakes \/ WorkerDies \/ \E m \in BOOLEAN, u \in Urls \cup {None} : ScriptEnds(m, u)
  BY <1>3, OwedTakes, OwedDies, OwedScriptEnds
<1> QED
  BY <1>0, <1>1, <1>2, <1>3, OwedNavigation, OwedHandlers DEF Next

\* Whoever waits for the worker is owed exactly one reply, and nobody else is owed
\* one: however requests are cancelled and sent again, a handler is never answered
\* with what a former request of its client asked for, and a worker that dies
\* leaves nobody waiting (JsActor::eval, its oneshot replies).
THEOREM RepliesAlwaysMatch == Spec => []RepliesMatchHandlers
<1>1. Init => EachOwedOnce
  BY DEF Init, EachOwedOnce, OwedOnce, Queued, Answers, IdleRequest
<1>2. IInv => TypeOK
  BY DEF IInv
<1>3. TypeOK /\ EachOwedOnce => RepliesMatchHandlers
  BY OwedOnceIsMatch
<1> QED
  BY <1>1, <1>2, <1>3, OwedPreserved, Invariance, PTL DEF Spec

-----------------------------------------------------------------------------
(* Local storage.  Without a reset or a restore only a snapshot touches the pool:*)
(* it hands out the map that is there, or makes the first one of its origin.     *)

PagesShareMaps ==
  \A c \in Clients : req[c].page # None =>
    pool[OriginOfUrl(req[c].page.url)] = req[c].page.local

LEMMA ShareFrame ==
  ASSUME PagesShareMaps, pool' = pool,
         \A c \in Clients : req'[c].page = None \/ req'[c].page = req[c].page
  PROVE  PagesShareMaps'
<1> SUFFICES ASSUME NEW c \in Clients, req'[c].page # None
             PROVE  pool'[OriginOfUrl(req'[c].page.url)] = req'[c].page.local
  BY DEF PagesShareMaps, OriginOfUrl
<1> QED
  BY DEF PagesShareMaps

\* A handler moves on and keeps its page, or drops it.
LEMMA ShareBecome ==
  ASSUME TypeOK, PagesShareMaps, pool' = pool, NEW c \in Clients, NEW r, Become(c, r),
         r.page = None \/ r.page = req[c].page
  PROVE  PagesShareMaps'
<1>1. \A d \in Clients : req'[d] = IF d = c THEN r ELSE req[d]
  BY DEF Become, TypeOK
<1> QED
  BY <1>1, ShareFrame

\* What becomes of a handler that gets its reply, or none, has its page or no page.
LEMMA PageStays ==
  ASSUME TypeOK, NEW c \in Clients, NEW u, NEW m
  PROVE  /\ IdleRequest.page = None
         /\ Answered(c, u, m).page \in {None, req[c].page}
         /\ AfterEval(c).page \in {None, req[c].page}
<1>1. req[c] \in Request
  BY DEF TypeOK
<1> QED
  BY <1>1 DEF IdleRequest, Answered, AfterEval, Request

\* A snapshot of a tab is given the map every other page of its origin has.
LEMMA ShareSnapshot ==
  ASSUME TypeOK, PagesShareMaps, NEW c \in Clients, NEW t \in TabIds, NEW r,
         Snapshot(t), Become(c, r), r.page = PageOf(t)
  PROVE  PagesShareMaps'
<1> DEFINE o == OriginOfUrl(tabs[t].url)
<1>1. pool' = [pool EXCEPT ![o] = LocalMap(o)] /\ tabs[t] \in Tab
  BY DEF Snapshot, TypeOK
<1>2. o \in Origins \cup {None}
  BY <1>1, ConstantsOK DEF OriginOfUrl, Tab
<1>3. pool' = [p \in Origins \cup {None} |-> IF p = o THEN LocalMap(o) ELSE pool[p]]
  BY <1>1 DEF TypeOK
<1>4. PageOf(t).url = tabs[t].url /\ PageOf(t).local = LocalMap(o)
  BY DEF PageOf
<1>5. \A d \in Clients : req'[d] = IF d = c THEN r ELSE req[d]
  BY DEF Become, TypeOK
<1> SUFFICES ASSUME NEW d \in Clients, req'[d].page # None
             PROVE  pool'[OriginOfUrl(req'[d].page.url)] = req'[d].page.local
  BY DEF PagesShareMaps, OriginOfUrl
<1>6. CASE d = c
  BY <1>2, <1>3, <1>4, <1>5, <1>6
<1>7. CASE d # c
  <2> DEFINE page == req[d].page
             q    == OriginOfUrl(page.url)
  <2>1. req'[d].page = page /\ page # None
    BY <1>5, <1>7
  <2>2. page \in Page
    BY <2>1 DEF TypeOK, Request
  <2>3. q \in Origins \cup {None}
    BY <2>2, ConstantsOK DEF Page, OriginOfUrl
  <2>4. pool[q] = page.local /\ page.local \in Ids
    BY <2>1, <2>2 DEF PagesShareMaps, Page
  <2>5. q = o => LocalMap(o) = pool[q]
    BY <2>4, NoneOK DEF LocalMap
  <2> QED
    BY <1>3, <2>1, <2>3, <2>4, <2>5
<1> QED
  BY <1>6, <1>7

LEMMA ShareHandlers ==
  ASSUME TypeOK, PagesShareMaps, NEW c \in Clients
  PROVE  /\ \A t \in TabIds, render \in BOOLEAN : Navigate(c, t, render) => PagesShareMaps'
         /\ \A u \in Urls, d \in Docs : NavigationAnswers(c, u, d) => PagesShareMaps'
         /\ NavigationFails(c) \/ InsertTab(c) \/ CollectScripts(c) \/ Follow(c) => PagesShareMaps'
         /\ Send(c) \/ SendFails(c) \/ TakeWriteback(c) \/ Adopt(c) \/ Cancel(c) => PagesShareMaps'
<1>0. req[c] \in Request /\ IdleRequest.page = None
  BY PageStays DEF TypeOK
<1>1. ASSUME NEW t \in TabIds, NEW render \in BOOLEAN, Navigate(c, t, render) PROVE PagesShareMaps'
  <2> DEFINE r == [IdleRequest EXCEPT !.pc = "fetching",
                     !.verb = IF render THEN "render" ELSE "goto", !.tab = t]
  <2>1. r.page = None
    BY DEF IdleRequest
  <2> QED
    BY <1>1, <2>1, ShareBecome DEF Navigate
<1>2. ASSUME NEW u \in Urls, NEW d \in Docs, NavigationAnswers(c, u, d) PROVE PagesShareMaps'
  <2> DEFINE r == [req[c] EXCEPT !.pc = "insert", !.nav = None,
                !.hops = IF req[c].nav = None THEN @ ELSE @ + 1,
                !.next = AfterNavigation(req[c].tab, tabs[req[c].tab], u, d)]
  <2>1. r.page = req[c].page
    BY <1>0 DEF Request
  <2> QED
    BY <1>2, <2>1, ShareBecome DEF NavigationAnswers
<1>3. ASSUME NavigationFails(c) \/ InsertTab(c) PROVE PagesShareMaps'
  <2> DEFINE r == IF req[c].verb = "goto" THEN IdleRequest
             ELSE [req[c] EXCEPT !.pc = "snapshot", !.next = None]
  <2>1. r.page = None \/ r.page = req[c].page
    BY <1>0 DEF Request
  <2>2. Become(c, IdleRequest) \/ Become(c, r)
    BY <1>3 DEF NavigationFails, InsertTab
  <2> QED
    BY <1>0, <1>3, <2>1, <2>2, ShareBecome DEF NavigationFails, InsertTab
<1>4. ASSUME CollectScripts(c) PROVE PagesShareMaps'
  <2> DEFINE r == [req[c] EXCEPT !.pc = "sending"]
  <2>1. r.page = req[c].page
    BY <1>0 DEF Request
  <2> QED
    BY <1>0, <1>4, <2>1, ShareBecome DEF CollectScripts
<1>5. ASSUME Follow(c) PROVE PagesShareMaps'
  <2> DEFINE r == [req[c] EXCEPT !.pc = "fetching", !.page = None, !.mutated = FALSE]
  <2>1. r.page = None
    BY <1>0 DEF Request
  <2>2. Become(c, IdleRequest) \/ Become(c, r)
    BY <1>5 DEF Follow
  <2> QED
    BY <1>0, <1>5, <2>1, <2>2, ShareBecome DEF Follow
<1>6. ASSUME Send(c) PROVE PagesShareMaps'
  <2> DEFINE r == [req[c] EXCEPT !.pc = "waiting"]
  <2>1. r.page = req[c].page
    BY <1>0 DEF Request
  <2> QED
    BY <1>6, <2>1, ShareBecome DEF Send
<1>7. ASSUME TakeWriteback(c) PROVE PagesShareMaps'
  <2> DEFINE wb == slots[req[c].page.tab][req[c].page.load]
             r == [req[c] EXCEPT !.pc = "adopt", !.pending = wb]
  <2>1. r.page = req[c].page
    BY <1>0 DEF Request
  <2>2. Become(c, AfterEval(c)) \/ Become(c, r)
    BY <1>7 DEF TakeWriteback
  <2>3. AfterEval(c).page = None \/ AfterEval(c).page = req[c].page
    BY PageStays
  <2> QED
    BY <1>7, <2>1, <2>2, <2>3, ShareBecome DEF TakeWriteback
<1>8. ASSUME Adopt(c) PROVE PagesShareMaps'
  <2>1. AfterEval(c).page = None \/ AfterEval(c).page = req[c].page
    BY PageStays
  <2> QED
    BY <1>8, <2>1, ShareBecome DEF Adopt
<1>9. ASSUME SendFails(c) PROVE PagesShareMaps'
  <2>1. Answered(c, None, FALSE).page = None \/ Answered(c, None, FALSE).page = req[c].page
    BY PageStays
  <2> QED
    BY <1>9, <2>1, ShareBecome DEF SendFails
<1>10. ASSUME Cancel(c) PROVE PagesShareMaps'
  BY <1>0, <1>10, ShareBecome DEF Cancel
<1> QED
  BY <1>1, <1>2, <1>3, <1>4, <1>5, <1>6, <1>7, <1>8, <1>9, <1>10

LEMMA ShareSnapshots ==
  ASSUME TypeOK, RequestsSound, PagesShareMaps, NEW c \in Clients
  PROVE  /\ RenderSnapshot(c) => PagesShareMaps'
         /\ \A t \in TabIds : Eval(c, t) => PagesShareMaps'
<1>0. req[c] \in Request /\ RequestSound(req[c]) /\ IdleRequest.page = None
  BY PageStays DEF TypeOK, RequestsSound
<1>1. ASSUME RenderSnapshot(c) PROVE PagesShareMaps'
  <2> DEFINE t == req[c].tab
             r == [req[c] EXCEPT !.pc = "scripts", !.page = PageOf(t)]
  <2>1. t \in TabIds
    BY <1>0, <1>1 DEF RenderSnapshot, RequestSound
  <2>2. r.page = PageOf(t)
    BY <1>0 DEF Request
  <2>3. CASE Become(c, IdleRequest) /\ pool' = pool
    BY <1>0, <2>3, ShareBecome
  <2>4. CASE Snapshot(t) /\ Become(c, r)
    BY <2>1, <2>2, <2>4, ShareSnapshot
  <2> QED
    BY <1>1, <2>3, <2>4 DEF RenderSnapshot
<1>2. ASSUME NEW t \in TabIds, Eval(c, t) PROVE PagesShareMaps'
  <2> DEFINE r == [IdleRequest EXCEPT !.pc = "sending", !.verb = "eval", !.tab = t]
             s == [IdleRequest EXCEPT !.pc = "sending", !.verb = "eval", !.tab = t, !.page = PageOf(t)]
  <2>1. r.page = None /\ s.page = PageOf(t)
    BY DEF IdleRequest
  <2>2. CASE Become(c, r) /\ pool' = pool
    BY <2>1, <2>2, ShareBecome
  <2>3. CASE Snapshot(t) /\ Become(c, s)
    BY <2>1, <2>3, ShareSnapshot
  <2> QED
    BY <1>2, <2>2, <2>3 DEF Eval
<1> QED
  BY <1>1, <1>2

LEMMA SharePreserved ==
  ASSUME Admins = {}
  PROVE  IInv /\ PagesShareMaps /\ [Next]_vars => PagesShareMaps'
<1> SUFFICES ASSUME TypeOK, RequestsSound, PagesShareMaps, [Next]_vars PROVE PagesShareMaps'
  BY DEF IInv
<1>0. Navigators \subseteq Clients /\ Evaluators \subseteq Clients
  BY DEF Clients
<1>1. CASE UNCHANGED vars \/ WorkerTakes
  BY <1>1, ShareFrame DEF vars, WorkerTakes
<1>2. CASE WorkerDies
  <2>1. \A c \in Clients : req'[c].page = None \/ req'[c].page = req[c].page
    BY <1>2, PageStays DEF WorkerDies
  <2> QED
    BY <1>2, <2>1, ShareFrame DEF WorkerDies
<1>3. ASSUME NEW m \in BOOLEAN, NEW u \in Urls \cup {None}, ScriptEnds(m, u) PROVE PagesShareMaps'
  <2>1. running.by \in Clients
    BY <1>3 DEF ScriptEnds, TypeOK, Cmd
  <2>2. Answered(running.by, u, m).page = None
        \/ Answered(running.by, u, m).page = req[running.by].page
    BY <2>1, PageStays
  <2>3. CASE running.reply
    BY <1>3, <2>1, <2>2, <2>3, ShareBecome DEF ScriptEnds
  <2>4. CASE ~running.reply
    BY <1>3, <2>4, ShareFrame DEF ScriptEnds
  <2> QED
    BY <2>3, <2>4
<1> QED
  BY <1>0, <1>1, <1>2, <1>3, ShareHandlers, ShareSnapshots DEF Next

\* Without a reset or a restore every eval in flight works on the one local map of
\* its origin, whatever tabs it came from and however navigations and evals of any
\* number of clients interleave (local_storage_for hands out an Arc of the pool's).
THEOREM LocalStorageShared == Spec => []LocalStorageIsShared
<1>1. CASE Admins = {}
  <2>1. Init => PagesShareMaps
    BY DEF Init, PagesShareMaps, IdleRequest
  <2>2. IInv /\ PagesShareMaps /\ [Next]_vars => PagesShareMaps'
    BY <1>1, SharePreserved
  <2>3. PagesShareMaps => LocalStorageIsShared
    BY DEF PagesShareMaps, LocalStorageIsShared
  <2> QED
    BY <2>1, <2>2, <2>3, Invariance, PTL DEF Spec
<1>2. CASE Admins # {}
  <2>1. LocalStorageIsShared
    BY <1>2 DEF LocalStorageIsShared
  <2> QED
    BY <2>1, PTL
<1> QED
  BY <1>1, <1>2

-----------------------------------------------------------------------------
(* Session storage across navigations.  The tab a navigation is about to store   *)
(* has the maps of the one it replaces, as long as no other navigation stores    *)
(* one in between: with one navigating client that never happens.                *)

\* Tab `new' has every map that `old' has.
KeepsMaps(old, new) ==
  \A o \in Origins : MapFor(old, o) # None => MapFor(new, o) = MapFor(old, o)

NextKeepsMaps ==
  \A c \in Clients : req[c].next # None =>
    /\ c \in Navigators
    /\ tabs[req[c].tab] # None => KeepsMaps(tabs[req[c].tab], req[c].next)

\* A document replaced under the tab does not touch its maps.
LEMMA MapsIgnoreHtml ==
  ASSUME NEW tab \in Tab, NEW html, NEW o
  PROVE  MapFor([tab EXCEPT !.html = html], o) = MapFor(tab, o)
BY DEF MapFor, Tab

\* after_navigation: the map of the origin left goes to the archive, the map of
\* the origin entered comes out of it, every other one stays.
LEMMA NavigationKeepsMaps ==
  ASSUME NEW t, NEW old \in Tab, NEW u \in Urls, NEW d, old # None
  PROVE  KeepsMaps(old, AfterNavigation(t, old, u, d))
<1> DEFINE origin   == OriginOf[u]
           left     == OriginOfUrl(old.url)
           archived == IF left = None THEN old.archive
                       ELSE [old.archive EXCEPT ![left] = old.session]
           restored == IF archived[origin] = None THEN NewStore(t, u) ELSE archived[origin]
           html     == [doc |-> d, muts |-> << >>]
           stay     == [url |-> u, html |-> html, load |-> NewLoad(t),
                        session |-> old.session, archive |-> old.archive]
           leave    == [url |-> u, html |-> html, load |-> NewLoad(t), session |-> restored,
                        archive |-> [archived EXCEPT ![origin] = None]]
<1>1. AfterNavigation(t, old, u, d) = IF left = origin THEN stay ELSE leave
  BY DEF AfterNavigation
<1>2. origin \in Origins /\ origin # None /\ OriginOfUrl(u) = origin
  BY ConstantsOK, NoneOK DEF OriginOfUrl
<1>3. old.archive \in [Origins -> Store \cup {None}] /\ left \in Origins \cup {None}
  BY ConstantsOK DEF Tab, OriginOfUrl
<1>4. \A o \in Origins : MapFor(old, o) = IF left = o THEN old.session ELSE old.archive[o]
  BY DEF MapFor
<1>5. CASE left = origin
  <2>1. \A o \in Origins : MapFor(stay, o) = IF origin = o THEN old.session ELSE old.archive[o]
    BY <1>2 DEF MapFor
  <2> QED
    BY <1>1, <1>4, <1>5, <2>1 DEF KeepsMaps
<1>6. CASE left # origin
  <2>1. \A o \in Origins : archived[o] = IF left = o THEN old.session ELSE old.archive[o]
    BY <1>3, NoneOK
  <2>2. archived \in [Origins -> (Store \cup {None}) \cup {old.session}]
    BY <1>3
  <2>3. \A o \in Origins : MapFor(leave, o) = IF origin = o THEN restored ELSE archived[o]
    BY <1>2, <2>2 DEF MapFor
  <2>4. \A o \in Origins : MapFor(old, o) = archived[o]
    BY <1>4, <2>1
  <2>5. \A o \in Origins : archived[o] # None => MapFor(leave, o) = archived[o]
    BY <1>2, <2>3
  <2> HIDE DEF leave, archived
  <2>6. KeepsMaps(old, leave)
    BY <2>4, <2>5 DEF KeepsMaps
  <2> QED
    BY <1>1, <1>6, <2>6
<1> QED
  BY <1>5, <1>6

\* Steps that leave the table alone and compute no tab.
LEMMA NextFrame ==
  ASSUME NextKeepsMaps, tabs' = tabs,
         \A c \in Clients : req'[c].next = None \/ (req'[c].next = req[c].next /\ req'[c].tab = req[c].tab)
  PROVE  NextKeepsMaps'
<1> SUFFICES ASSUME NEW c \in Clients, req'[c].next # None
             PROVE  /\ c \in Navigators
                    /\ tabs'[req'[c].tab] # None => KeepsMaps(tabs'[req'[c].tab], req'[c].next)
  BY DEF NextKeepsMaps, KeepsMaps, MapFor, OriginOfUrl
<1> QED
  BY DEF NextKeepsMaps

LEMMA NextBecome ==
  ASSUME TypeOK, NextKeepsMaps, tabs' = tabs, NEW c \in Clients, NEW r, Become(c, r),
         r.next = None \/ (r.next = req[c].next /\ r.tab = req[c].tab)
  PROVE  NextKeepsMaps'
<1>1. \A d \in Clients : req'[d] = IF d = c THEN r ELSE req[d]
  BY DEF Become, TypeOK
<1> QED
  BY <1>1, NextFrame

LEMMA NextStays ==
  ASSUME TypeOK, NEW c \in Clients, NEW u, NEW m
  PROVE  /\ IdleRequest.next = None
         /\ Answered(c, u, m).next = None
              \/ (Answered(c, u, m).next = req[c].next /\ Answered(c, u, m).tab = req[c].tab)
         /\ AfterEval(c).next = None
              \/ (AfterEval(c).next = req[c].next /\ AfterEval(c).tab = req[c].tab)
<1>1. req[c] \in Request
  BY DEF TypeOK
<1> QED
  BY <1>1 DEF IdleRequest, Answered, AfterEval, Request

LEMMA NextHandlers ==
  ASSUME TypeOK, NextKeepsMaps, NEW c \in Clients
  PROVE  /\ \A t \in TabIds, render \in BOOLEAN : Navigate(c, t, render) => NextKeepsMaps'
         /\ NavigationFails(c) \/ RenderSnapshot(c) \/ CollectScripts(c) \/ Follow(c) => NextKeepsMaps'
         /\ \A t \in TabIds : Eval(c, t) => NextKeepsMaps'
         /\ Send(c) \/ SendFails(c) \/ TakeWriteback(c) \/ Cancel(c) => NextKeepsMaps'
         /\ SessionReset(c) \/ RestorePool(c) => NextKeepsMaps'
<1>0. req[c] \in Request /\ IdleRequest.next = None
  BY NextStays DEF TypeOK
<1>1. ASSUME NEW t \in TabIds, NEW render \in BOOLEAN, Navigate(c, t, render) PROVE NextKeepsMaps'
  <2> DEFINE r == [IdleRequest EXCEPT !.pc = "fetching",
                     !.verb = IF render THEN "render" ELSE "goto", !.tab = t]
  <2>1. r.next = None
    BY DEF IdleRequest
  <2> QED
    BY <1>1, <2>1, NextBecome DEF Navigate
<1>2. ASSUME NavigationFails(c) \/ RenderSnapshot(c) PROVE NextKeepsMaps'
  <2> DEFINE r == [req[c] EXCEPT !.pc = "scripts", !.page = PageOf(req[c].tab)]
  <2>1. r.next = req[c].next /\ r.tab = req[c].tab
    BY <1>0 DEF Request
  <2>2. Become(c, IdleRequest) \/ Become(c, r)
    BY <1>2 DEF NavigationFails, RenderSnapshot
  <2> QED
    BY <1>0, <1>2, <2>1, <2>2, NextBecome DEF NavigationFails, RenderSnapshot
<1>3. ASSUME CollectScripts(c) PROVE NextKeepsMaps'
  <2> DEFINE r == [req[c] EXCEPT !.pc = "sending"]
  <2>1. r.next = req[c].next /\ r.tab = req[c].tab
    BY <1>0 DEF Request
  <2> QED
    BY <1>0, <1>3, <2>1, NextBecome DEF CollectScripts
<1>4. ASSUME Follow(c) PROVE NextKeepsMaps'
  <2> DEFINE r == [req[c] EXCEPT !.pc = "fetching", !.page = None, !.mutated = FALSE]
  <2>1. r.next = req[c].next /\ r.tab = req[c].tab
    BY <1>0 DEF Request
  <2>2. Become(c, IdleRequest) \/ Become(c, r)
    BY <1>4 DEF Follow
  <2> QED
    BY <1>0, <1>4, <2>1, <2>2, NextBecome DEF Follow
<1>5. ASSUME NEW t \in TabIds, Eval(c, t) PROVE NextKeepsMaps'
  <2> DEFINE r == [IdleRequest EXCEPT !.pc = "sending", !.verb = "eval", !.tab = t]
             s == [IdleRequest EXCEPT !.pc = "sending", !.verb = "eval", !.tab = t, !.page = PageOf(t)]
  <2>1. r.next = None /\ s.next = None
    BY DEF IdleRequest
  <2>2. Become(c, r) \/ Become(c, s)
    BY <1>5 DEF Eval
  <2> QED
    BY <1>5, <2>1, <2>2, NextBecome DEF Eval
<1>6. ASSUME Send(c) PROVE NextKeepsMaps'
  <2> DEFINE r == [req[c] EXCEPT !.pc = "waiting"]
  <2>1. r.next = req[c].next /\ r.tab = req[c].tab
    BY <1>0 DEF Request
  <2> QED
    BY <1>6, <2>1, NextBecome DEF Send
<1>7. ASSUME SendFails(c) PROVE NextKeepsMaps'
  BY <1>7, NextStays, NextBecome DEF SendFails
<1>8. ASSUME TakeWriteback(c) PROVE NextKeepsMaps'
  <2> DEFINE wb == slots[req[c].page.tab][req[c].page.load]
             r == [req[c] EXCEPT !.pc = "adopt", !.pending = wb]
  <2>1. r.next = req[c].next /\ r.tab = req[c].tab
    BY <1>0 DEF Request
  <2>2. Become(c, AfterEval(c)) \/ Become(c, r)
    BY <1>8 DEF TakeWriteback
  <2> QED
    BY <1>8, <2>1, <2>2, NextStays, NextBecome DEF TakeWriteback
<1>9. ASSUME Cancel(c) PROVE NextKeepsMaps'
  BY <1>0, <1>9, NextBecome DEF Cancel
<1>10. ASSUME SessionReset(c) PROVE NextKeepsMaps'
  BY <1>10, NextFrame DEF SessionReset
<1>11. ASSUME RestorePool(c) PROVE NextKeepsMaps'
  BY <1>0, <1>11, NextBecome DEF RestorePool
<1> QED
  BY <1>1, <1>2, <1>3, <1>4, <1>5, <1>6, <1>7, <1>8, <1>9, <1>10, <1>11

LEMMA NextWorker ==
  ASSUME TypeOK, NextKeepsMaps
  PROVE  /\ WorkerTakes \/ WorkerDies => NextKeepsMaps'
         /\ \A m \in BOOLEAN, u \in Urls \cup {None} : ScriptEnds(m, u) => NextKeepsMaps'
<1>1. ASSUME WorkerTakes PROVE NextKeepsMaps'
  BY <1>1, NextFrame DEF WorkerTakes
<1>2. ASSUME WorkerDies PROVE NextKeepsMaps'
  <2>1. \A c \in Clients : req'[c].next = None \/ (req'[c].next = req[c].next /\ req'[c].tab = req[c].tab)
    BY <1>2, NextStays DEF WorkerDies
  <2> QED
    BY <1>2, <2>1, NextFrame DEF WorkerDies
<1>3. ASSUME NEW m \in BOOLEAN, NEW u \in Urls \cup {None}, ScriptEnds(m, u) PROVE NextKeepsMaps'
  <2>1. running.by \in Clients
    BY <1>3 DEF ScriptEnds, TypeOK, Cmd
  <2>2. CASE running.reply
    BY <1>3, <2>1, <2>2, NextStays, NextBecome DEF ScriptEnds
  <2>3. CASE ~running.reply
    BY <1>3, <2>3, NextFrame DEF ScriptEnds
  <2> QED
    BY <2>2, <2>3
<1> QED
  BY <1>1, <1>2, <1>3

\* The response arrives: the tab to be stored has the maps of the one there is.
LEMMA NextAnswers ==
  ASSUME TypeOK, RequestsSound, NextKeepsMaps,
         NEW c \in Navigators, NEW u \in Urls, NEW d \in Docs, NavigationAnswers(c, u, d)
  PROVE  NextKeepsMaps'
<1> DEFINE t   == req[c].tab
           new == AfterNavigation(t, tabs[t], u, d)
           r   == [req[c] EXCEPT !.pc = "insert", !.nav = None,
                     !.hops = IF req[c].nav = None THEN @ ELSE @ + 1, !.next = new]
<1>1. c \in Clients /\ t \in TabIds
  BY DEF Clients, NavigationAnswers, RequestsSound, RequestSound
<1>2. r.next = new /\ r.tab = t
  BY <1>1 DEF TypeOK, Request
<1>3. tabs' = tabs /\ \A x \in Clients : req'[x] = IF x = c THEN r ELSE req[x]
  BY DEF NavigationAnswers, Become, TypeOK
<1>4. tabs[t] # None => KeepsMaps(tabs[t], new)
  BY <1>1, NavigationKeepsMaps DEF TypeOK
<1> HIDE DEF r, new
<1> SUFFICES ASSUME NEW x \in Clients, req'[x].next # None
             PROVE  /\ x \in Navigators
                    /\ tabs'[req'[x].tab] # None => KeepsMaps(tabs'[req'[x].tab], req'[x].next)
  BY DEF NextKeepsMaps, KeepsMaps, MapFor, OriginOfUrl
<1> QED
  BY <1>2, <1>3, <1>4 DEF NextKeepsMaps

\* What a step does to the table: an open tab that stays open keeps its maps.
OpenTabsKeepMaps ==
  \A t \in TabIds : tabs[t] # None /\ tabs'[t] # None => KeepsMaps(tabs[t], tabs'[t])

LEMMA KeepsSame == ASSUME NEW tab PROVE KeepsMaps(tab, tab)
BY DEF KeepsMaps

LEMMA NextInserts ==
  ASSUME TypeOK, RequestsSound, NextKeepsMaps, \A a, b \in Navigators : a = b,
         NEW c \in Navigators, InsertTab(c)
  PROVE  NextKeepsMaps' /\ OpenTabsKeepMaps
<1> DEFINE t == req[c].tab
           r == IF req[c].verb = "goto" THEN IdleRequest
                ELSE [req[c] EXCEPT !.pc = "snapshot", !.next = None]
<1>1. c \in Clients /\ t \in TabIds /\ req[c].next # None
  BY DEF Clients, InsertTab, RequestsSound, RequestSound
<1>2. r.next = None
  BY <1>1 DEF TypeOK, Request, IdleRequest
<1>3. \A x \in Clients : req'[x] = IF x = c THEN r ELSE req[x]
  BY DEF InsertTab, Become, TypeOK
<1>4. \A x \in Clients : req'[x].next = None
  BY <1>2, <1>3 DEF NextKeepsMaps
<1>5. \A x \in TabIds : tabs'[x] = IF x = t THEN req[c].next ELSE tabs[x]
  BY DEF InsertTab, TypeOK
<1>6. tabs[t] # None => KeepsMaps(tabs[t], req[c].next)
  BY <1>1 DEF NextKeepsMaps
<1>7. OpenTabsKeepMaps
  BY <1>5, <1>6, KeepsSame DEF OpenTabsKeepMaps
<1> QED
  BY <1>4, <1>7 DEF NextKeepsMaps

\* A step that leaves the maps of every open tab as they are, and the handlers'
\* tabs with them.
LEMMA NextOnSameMaps ==
  ASSUME NextKeepsMaps,
         \A c \in Clients : req'[c].next # None =>
           req'[c].next = req[c].next /\ req'[c].tab = req[c].tab /\ req[c].tab \in TabIds,
         \A t \in TabIds : tabs'[t] # None =>
           \A o \in Origins : MapFor(tabs'[t], o) # None =>
             tabs[t] # None /\ MapFor(tabs'[t], o) = MapFor(tabs[t], o)
  PROVE  NextKeepsMaps'
<1> SUFFICES ASSUME NEW c \in Clients, req'[c].next # None
             PROVE  /\ c \in Navigators
                    /\ tabs'[req'[c].tab] # None => KeepsMaps(tabs'[req'[c].tab], req'[c].next)
  BY DEF NextKeepsMaps, KeepsMaps, MapFor, OriginOfUrl
<1> QED
  BY DEF NextKeepsMaps, KeepsMaps

LEMMA NextAdopts ==
  ASSUME TypeOK, RequestsSound, NextKeepsMaps, NEW c \in Clients, Adopt(c)
  PROVE  NextKeepsMaps' /\ OpenTabsKeepMaps
<1> DEFINE t == req[c].tab
           wb == req[c].pending
<1>1. t \in TabIds
  BY DEF Adopt, RequestsSound, RequestSound
<1>2. tabs' = tabs \/ (tabs[t] # None /\ tabs' = [tabs EXCEPT ![t].html = wb.html])
  BY DEF Adopt
<1>3. \A x \in TabIds, o \in Origins :
        /\ tabs'[x] # None => tabs[x] # None
        /\ tabs[x] # None => MapFor(tabs'[x], o) = MapFor(tabs[x], o)
  <2>1. CASE tabs' = tabs
    BY <2>1
  <2>2. CASE tabs[t] # None /\ tabs' = [tabs EXCEPT ![t].html = wb.html]
    <3>1. \A x \in TabIds : tabs'[x] = IF x = t THEN [tabs[t] EXCEPT !.html = wb.html] ELSE tabs[x]
      BY <2>2 DEF TypeOK
    <3>2. tabs[t] \in Tab
      BY <1>1, <2>2 DEF TypeOK
    <3> QED
      BY <2>2, <3>1, <3>2, MapsIgnoreHtml
  <2> QED
    BY <1>2, <2>1, <2>2
<1>4. OpenTabsKeepMaps
  BY <1>3 DEF OpenTabsKeepMaps, KeepsMaps
<1>5. \A x \in Clients : req'[x].next # None =>
        req'[x].next = req[x].next /\ req'[x].tab = req[x].tab /\ req[x].tab \in TabIds
  <2>1. \A x \in Clients : req'[x] = IF x = c THEN AfterEval(c) ELSE req[x]
    BY DEF Adopt, Become, TypeOK
  <2>2. \A x \in Clients : req[x].next # None => req[x].tab \in TabIds
    <3> SUFFICES ASSUME NEW x \in Clients, req[x].next # None PROVE req[x].tab \in TabIds
      OBVIOUS
    <3>1. req[x].next \in Tab /\ req[x].next.session.tab = req[x].tab
      BY DEF TypeOK, Request, RequestsSound, RequestSound, WellKept
    <3> QED
      BY <3>1 DEF Tab, Store
  <2> QED
    BY <2>1, <2>2, NextStays
<1>6. NextKeepsMaps'
  BY <1>3, <1>5, NextOnSameMaps
<1> QED
  BY <1>4, <1>6

\* A tab that is closed has no maps, and one that is made anew none of an origin.
LEMMA NextAdmin ==
  ASSUME TypeOK, RequestsSound, NextKeepsMaps, NEW c \in Admins, NEW t \in TabIds,
         CloseTab(c, t) \/ RestoreTab(c, t)
  PROVE  NextKeepsMaps' /\ OpenTabsKeepMaps
<1>1. \A o \in Origins : MapFor(EmptyTab(t), o) = None
  BY NoneOK DEF MapFor, EmptyTab, OriginOfUrl
<1>2. \/ tabs' = tabs
      \/ tabs' = [tabs EXCEPT ![t] = None]
      \/ tabs[t] = None /\ tabs' = [tabs EXCEPT ![t] = EmptyTab(t)]
  BY DEF CloseTab, RestoreTab
<1>3. \A x \in TabIds : \/ tabs'[x] = tabs[x]
                        \/ tabs'[x] = None
                        \/ x = t /\ tabs[x] = None /\ tabs'[x] = EmptyTab(t)
  BY <1>2 DEF TypeOK
<1>4. OpenTabsKeepMaps
  BY <1>3, KeepsSame DEF OpenTabsKeepMaps
<1>5. \A x \in TabIds : tabs'[x] # None =>
        \A o \in Origins : MapFor(tabs'[x], o) # None =>
          tabs[x] # None /\ MapFor(tabs'[x], o) = MapFor(tabs[x], o)
  BY <1>1, <1>3
<1>6. \A x \in Clients : req'[x].next # None =>
        req'[x].next = req[x].next /\ req'[x].tab = req[x].tab /\ req[x].tab \in TabIds
  <2>1. c \in Clients /\ \A x \in Clients : req'[x] = req[x] \/ req'[x].next = None
    <3>1. [IdleRequest EXCEPT !.pc = "pool", !.verb = "restore", !.tab = t].next = None
      BY DEF IdleRequest
    <3> QED
      BY <3>1 DEF Clients, CloseTab, RestoreTab, Become, TypeOK
  <2>2. \A x \in Clients : req[x].next # None => req[x].tab \in TabIds
    <3> SUFFICES ASSUME NEW x \in Clients, req[x].next # None PROVE req[x].tab \in TabIds
      OBVIOUS
    <3>1. req[x].next \in Tab /\ req[x].next.session.tab = req[x].tab
      BY DEF TypeOK, Request, RequestsSound, RequestSound, WellKept
    <3> QED
      BY <3>1 DEF Tab, Store
  <2> QED
    BY <2>1, <2>2
<1>7. NextKeepsMaps'
  BY <1>5, <1>6, NextOnSameMaps
<1> QED
  BY <1>4, <1>7

LEMMA MapsPreserved ==
  ASSUME \A a, b \in Navigators : a = b
  PROVE  IInv /\ NextKeepsMaps /\ [Next]_vars => NextKeepsMaps' /\ OpenTabsKeepMaps
<1> SUFFICES ASSUME TypeOK, RequestsSound, NextKeepsMaps, [Next]_vars
             PROVE  NextKeepsMaps' /\ OpenTabsKeepMaps
  BY DEF IInv
<1>0. Navigators \subseteq Clients /\ Evaluators \subseteq Clients /\ Admins \subseteq Clients
  BY DEF Clients
<1>1. CASE \E c \in Navigators : InsertTab(c)
  BY <1>1, NextInserts
<1>2. CASE \E c \in Clients : Adopt(c)
  BY <1>2, NextAdopts
<1>3. CASE \E c \in Admins, t \in TabIds : CloseTab(c, t) \/ RestoreTab(c, t)
  BY <1>3, NextAdmin
<1>4. CASE \E c \in Navigators, u \in Urls, d \in Docs : NavigationAnswers(c, u, d)
  <2>1. tabs' = tabs
    BY <1>4 DEF NavigationAnswers
  <2> QED
    BY <1>4, <2>1, NextAnswers, KeepsSame DEF OpenTabsKeepMaps
<1>5. CASE UNCHANGED vars
  BY <1>5, NextFrame, KeepsSame DEF vars, OpenTabsKeepMaps
<1>6. CASE /\ Next /\ ~ (\E c \in Navigators : InsertTab(c)) /\ ~ (\E c \in Clients : Adopt(c))
           /\ ~ (\E c \in Admins, t \in TabIds : CloseTab(c, t) \/ RestoreTab(c, t))
           /\ ~ (\E c \in Navigators, u \in Urls, d \in Docs : NavigationAnswers(c, u, d))
  <2>1. tabs' = tabs
    BY <1>6, TableSteps
  <2>2. NextKeepsMaps'
    BY <1>0, <1>6, NextHandlers, NextWorker DEF Next
  <2> QED
    BY <2>1, <2>2, KeepsSame DEF OpenTabsKeepMaps
<1> QED
  BY <1>1, <1>2, <1>3, <1>4, <1>5, <1>6

\* With one client that navigates (the run tabs_concurrent_navigation shows why one)
\* a tab that stays open keeps the session map of every origin, whatever evals,
\* closings and restores run at the same time (after_navigation).
THEOREM SessionStorageKept ==
  ASSUME \A a, b \in Navigators : a = b
  PROVE  Spec => SessionStorageIsKept
<1>1. Init => NextKeepsMaps
  BY DEF Init, NextKeepsMaps, IdleRequest
<1>2. IInv /\ NextKeepsMaps /\ [Next]_vars => NextKeepsMaps' /\ OpenTabsKeepMaps
  BY MapsPreserved
<1>3. OpenTabsKeepMaps =>
        \A t \in TabIds, o \in Origins :
          tabs[t] # None /\ tabs'[t] # None /\ MapFor(tabs[t], o) # None
            => MapFor(tabs'[t], o) = MapFor(tabs[t], o)
  BY DEF OpenTabsKeepMaps, KeepsMaps
<1> QED
  BY <1>1, <1>2, <1>3, Invariance, PTL DEF Spec, SessionStorageIsKept

=============================================================================
