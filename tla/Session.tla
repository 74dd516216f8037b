------------------------------ MODULE Session ------------------------------
(***************************************************************************)
(* What a session keeps and how it is reset, exported, restored and put on *)
(* disk: the cookie jar (SessionStore in crates/se-net/src/lib.rs), the    *)
(* local storage pool and the tabs' session storage, and the verbs and the *)
(* boot and shutdown of crates/se-serve/src/lib.rs that work on them.      *)
(*                                                                         *)
(* Every critical section of a handler is one action, and so is every call *)
(* to the file system: a reset clears one part after the other, a save     *)
(* copies one part after the other, and the process may crash in between.  *)
(*                                                                         *)
(* Of what a storage map holds only the date of the last write is kept,    *)
(* counted in resets, and of a cookie two: when the request that set it    *)
(* began and when it was set.                                              *)
(***************************************************************************)
EXTENDS Naturals, Sequences, FiniteSets

CONSTANTS
  Clients,      \* handlers of the verbs
  Savers,       \* those that send session_save
  Restorers,    \* those that send session_load and storage_state_set
  TabIds, DefaultTab,
  Names,        \* of cookies
  MaxVerbs,     \* BOUND: verbs begun, but for resets and closed tabs
  MaxResets,    \* BOUND: resets begun
  MaxCrashes,   \* BOUND: crashes
  None

ASSUME SaversOK == Savers \subseteq Clients /\ Restorers \subseteq Clients
ASSUME DefaultTabOK == DefaultTab \in TabIds

Main == "main"     \* the process itself, while it boots and stops
ASSUME ClientsOK == IsFiniteSet(Clients) /\ Main \notin Clients
Handlers == Clients \union {Main}

VARIABLES
  up,        \* "off", "booting", "up" or "stopping"
  jar,       \* the cookies, by name
  pool,      \* local_pool, for one origin: the number of its map, or None
  maps,      \* the storage maps ever made, local and session: the item in each, or None
  tabs,      \* the tabs there are: the number of its session storage's map, or None
             \* for a tab that was restored and never navigated
  inodes,    \* what each file holds, the unlinked ones that are still open included
  file, tmp, \* which of them the session file and its .tmp sibling are, or None
  op,        \* where each handler is
  counts,    \* verbs, resets and crashes so far
  saved,     \* history: the artifact the last handler to commit had serialised
  missed     \* history: the maps with an item that no tab had when a reset last
             \* went through the tabs

vars == <<up, jar, pool, maps, tabs, inodes, file, tmp, op, counts, saved, missed>>
memory == <<jar, pool, maps, tabs>>
disk == <<inodes, file, tmp>>
history == <<saved, missed>>

Inodes == 1..(Cardinality(Handlers) + 2)
ASSUME NoneOK == None \notin Nat

Idle == [step |-> "idle"]
At(c, step) == op[c].step = step
Goes(c, step) == op' = [op EXCEPT ![c].step = step]
Ends(c) == op' = [op EXCEPT ![c] = Idle]

\* What a map holds once it is written to now.
Item == [at |-> counts.resets]

Init ==
  /\ up = "off"
  /\ jar = [n \in Names |-> None] /\ pool = None /\ maps = << >>
  /\ tabs = [t \in {} |-> None]
  /\ inodes = [i \in Inodes |-> None] /\ file = None /\ tmp = None
  /\ saved = None /\ missed = {}
  /\ op = [c \in Handlers |-> Idle]
  /\ counts = [verbs |-> 0, resets |-> 0, crashes |-> 0]

\* A verb arrives; `step' is its first critical section.
Begins(c, step, t) ==
  /\ up = "up" /\ At(c, "idle") /\ counts.verbs < MaxVerbs
  /\ op' = [op EXCEPT ![c] = [step |-> step, tab |-> t, began |-> counts.resets, art |-> None, fd |-> None]]
  /\ counts' = [counts EXCEPT !.verbs = @ + 1]
  /\ UNCHANGED <<up, memory, disk, history>>

Insert(ts, t, m) == [u \in DOMAIN ts \union {t} |-> IF u = t THEN m ELSE ts[u]]

-----------------------------------------------------------------------------
(* Cookies.  Outside the jar a domain cookie is written with a leading dot, and *)
(* the dot is all that tells it from a host-only one.  `by' is history: what put *)
(* the cookie into a jar first, a server's answer ("host" or "domain", by the    *)
(* scope it gave) or a "script".                                                *)

\* snapshot(), cookie_wire and playwright_domain.
CookieWire(k) == [name |-> k.name, dot |-> ~k.hostOnly, by |-> k.by]

\* session_restore's reading of it, and insert_entry: a host-only cookie gets
\* no Domain attribute.
FromWire(w) == [name |-> w.name, hostOnly |-> ~w.dot, by |-> w.by]

\* Cookie k as handler c puts it into the jar now.
Cookie(k, c) ==
  [name |-> k.name, hostOnly |-> k.hostOnly, by |-> k.by, began |-> op[c].began, at |-> counts.resets]

\* A cookie as a server sets it: with a Domain, or for its host only.
Served(n, by) == [name |-> n, hostOnly |-> by = "host", by |-> by]

-----------------------------------------------------------------------------
(* Requests and scripts of pages, as far as they touch the session *)

Visit(c, t) == Begins(c, "head", t)

\* The head of the answer arrives: set_cookies, under the jar's lock.
CookiesLand(c, n) ==
  /\ At(c, "head")
  /\ \E by \in {"host", "domain"} : jar' = [jar EXCEPT ![n] = Cookie(Served(n, by), c)]
  /\ Goes(c, "compute")
  /\ UNCHANGED <<up, pool, maps, tabs, disk, counts, history>>

\* after_navigation, under the tabs' lock: the map the tab has goes on to the new
\* document, any other tab gets a new one.
TabComputed(c) ==
  LET t == op[c].tab
      old == IF t \in DOMAIN tabs THEN tabs[t] ELSE None
  IN /\ At(c, "compute")
     /\ IF old # None THEN UNCHANGED maps ELSE maps' = Append(maps, None)
     /\ op' = [op EXCEPT ![c] =
          [step |-> "store", tab |-> t, session |-> IF old # None THEN old ELSE Len(maps) + 1]]
     /\ UNCHANGED <<up, jar, pool, tabs, disk, counts, history>>

\* The lock is taken again to insert what was computed, whatever has become of the
\* tab in between.
TabStored(c) ==
  /\ At(c, "store")
  /\ tabs' = Insert(tabs, op[c].tab, op[c].session)
  /\ Ends(c)
  /\ UNCHANGED <<up, jar, pool, maps, disk, counts, history>>

\* An eval takes the tab's map and the pool's of its origin, made if there is none,
\* and keeps both to its end.
Eval(c, t) ==
  /\ up = "up" /\ At(c, "idle") /\ counts.verbs < MaxVerbs
  /\ t \in DOMAIN tabs /\ tabs[t] # None
  /\ IF pool # None THEN UNCHANGED <<pool, maps>>
     ELSE pool' = Len(maps) + 1 /\ maps' = Append(maps, None)
  /\ op' = [op EXCEPT ![c] =
       [step |-> "script", began |-> counts.resets, map |-> pool', session |-> tabs[t]]]
  /\ counts' = [counts EXCEPT !.verbs = @ + 1]
  /\ UNCHANGED <<up, jar, tabs, disk, history>>

\* localStorage.setItem or sessionStorage.setItem.
ScriptStores(c) ==
  /\ At(c, "script")
  /\ \E m \in {op[c].map, op[c].session} : maps' = [maps EXCEPT ![m] = Item]
  /\ UNCHANGED <<up, jar, pool, tabs, disk, op, counts, history>>

\* document.cookie = ...: a cookie for the page's own host, which CookieEntry::new
\* leaves open to the host's subdomains; it replaces one of that name.
ScriptSetsCookie(c, n) ==
  /\ At(c, "script")
  /\ jar' = [jar EXCEPT ![n] = Cookie([name |-> n, hostOnly |-> FALSE, by |-> "script"], c)]
  /\ UNCHANGED <<up, pool, maps, tabs, disk, op, counts, history>>

ScriptEnds(c) == At(c, "script") /\ Ends(c) /\ UNCHANGED <<up, memory, disk, counts, history>>

CloseTab(c, t) ==
  /\ up = "up" /\ At(c, "idle") /\ t \in DOMAIN tabs
  /\ tabs' = [u \in DOMAIN tabs \ {t} |-> tabs[u]]
  /\ UNCHANGED <<up, jar, pool, maps, disk, op, counts, history>>

-----------------------------------------------------------------------------
(* session_reset: the jar, then (after the network log, NetLog's) what the tabs *)
(* hold, then the pool                                                          *)

ResetJar(c) ==
  /\ up = "up" /\ At(c, "idle") /\ counts.resets < MaxResets
  /\ jar' = [n \in Names |-> None]
  /\ op' = [op EXCEPT ![c] = [step |-> "reset_tabs", began |-> counts.resets + 1]]
  /\ counts' = [counts EXCEPT !.resets = @ + 1]
  /\ UNCHANGED <<up, pool, maps, tabs, disk, history>>

TabMaps == {tabs[t] : t \in DOMAIN tabs}

\* MUTANT: the tabs' maps are dropped, as the pool's are, and not emptied.
ResetTabsDropping(c) ==
  /\ At(c, "reset_tabs")
  /\ tabs' = [t \in DOMAIN tabs |-> None]
  /\ missed' = {m \in DOMAIN maps \ TabMaps : maps[m] # None}
  /\ Goes(c, "reset_pool")
  /\ UNCHANGED <<up, jar, pool, maps, disk, counts, saved>>

\* The maps of the tabs there are are emptied in place: who holds one goes on
\* writing to it, and a map that only a handler holds is not reached.
ResetTabs(c) ==
  /\ At(c, "reset_tabs")
  /\ maps' = [m \in DOMAIN maps |-> IF m \in TabMaps THEN None ELSE maps[m]]
  /\ missed' = {m \in DOMAIN maps \ TabMaps : maps[m] # None}
  /\ Goes(c, "reset_pool")
  /\ UNCHANGED <<up, jar, pool, tabs, disk, counts, saved>>

\* The pool is emptied, not its maps: who holds one keeps it to himself.
ResetPool(c) ==
  /\ At(c, "reset_pool")
  /\ pool' = None
  /\ Ends(c)
  /\ UNCHANGED <<up, jar, maps, tabs, disk, counts, history>>

-----------------------------------------------------------------------------
(* session_artifact and session_save_file *)

Save(c, t) == c \in Savers /\ Begins(c, "copy_jar", t)

\* The live jar, under its lock.
CopyJar(c) ==
  /\ At(c, "copy_jar")
  /\ op' = [op EXCEPT ![c].step = "copy_pool",
       ![c].art = [cookies |-> {CookieWire(jar[n]) : n \in {m \in Names : jar[m] # None}},
                   storage |-> FALSE, whole |-> TRUE]]
  /\ UNCHANGED <<up, memory, disk, counts, history>>

\* Whether the pool has something to export.
PoolHolds == pool # None /\ maps[pool] # None

\* The whole pool, if the tab exists; nothing of it otherwise.
CopyPool(c) ==
  /\ At(c, "copy_pool")
  /\ op' = [op EXCEPT ![c].step = "open", ![c].art.storage = op[c].tab \in DOMAIN tabs /\ PoolHolds]
  /\ UNCHANGED <<up, memory, disk, counts, history>>

\* A file nobody has open or a name for.
Unused == CHOOSE i \in Inodes :
  i \notin {file, tmp} /\ \A c \in Handlers : At(c, "write") => op[c].fd # i

\* Handler c opens file i to write it anew.
Opens(c, i) ==
  /\ inodes' = [inodes EXCEPT ![i] = [op[c].art EXCEPT !.whole = FALSE]]
  /\ op' = [op EXCEPT ![c].step = "write", ![c].fd = i]

\* MUTANT: without a .tmp file, into the session file itself.
OpenTmpInPlace(c) ==
  /\ At(c, "open")
  /\ file' = IF file = None THEN Unused ELSE file
  /\ Opens(c, file')
  /\ UNCHANGED <<up, memory, tmp, counts, history>>

\* fs::write makes the .tmp file or empties the one there is ...
OpenTmp(c) ==
  /\ At(c, "open")
  /\ tmp' = IF tmp = None THEN Unused ELSE tmp
  /\ Opens(c, tmp')
  /\ UNCHANGED <<up, memory, file, counts, history>>

\* ... and fills what it opened, wherever that has been moved to.
WriteTmp(c) ==
  /\ At(c, "write")
  /\ inodes' = [inodes EXCEPT ![op[c].fd] = op[c].art]
  /\ Goes(c, "rename")
  /\ UNCHANGED <<up, memory, file, tmp, counts, history>>

\* The commit.  Without a .tmp file it fails and the verb answers an error.
Rename(c) ==
  /\ At(c, "rename")
  /\ IF tmp = None THEN UNCHANGED <<disk, saved>>
     ELSE file' = tmp /\ tmp' = None /\ saved' = op[c].art
          /\ inodes' = IF file = None THEN inodes ELSE [inodes EXCEPT ![file] = None]
  /\ Ends(c)
  /\ UNCHANGED <<up, memory, counts, missed>>

-----------------------------------------------------------------------------
(* session_restore, for storage_state_set and for session_load_file *)

\* storage_state_set: the caller's artifact.
SetState(c, t, art) ==
  /\ c \in Restorers /\ up = "up" /\ At(c, "idle") /\ counts.verbs < MaxVerbs
  /\ op' = [op EXCEPT ![c] = [step |-> "insert", tab |-> t, began |-> counts.resets, art |-> art]]
  /\ counts' = [counts EXCEPT !.verbs = @ + 1]
  /\ UNCHANGED <<up, memory, disk, history>>

OnDisk == IF file = None THEN None ELSE inodes[file]

Load(c, t) == c \in Restorers /\ Begins(c, "read", t)

\* MUTANT: a file that cannot be read ends the boot nowhere.
ReadFileStuck(c) ==
  /\ At(c, "read")
  /\ file # None /\ OnDisk.whole
  /\ op' = [op EXCEPT ![c].step = "insert", ![c].art = OnDisk]
  /\ UNCHANGED <<up, memory, disk, counts, history>>

\* A file that is missing or cannot be parsed changes nothing.
ReadFile(c) ==
  /\ At(c, "read")
  /\ IF file = None \/ ~OnDisk.whole THEN Ends(c)
     ELSE op' = [op EXCEPT ![c].step = "insert", ![c].art = OnDisk]
  /\ UNCHANGED <<up, memory, disk, counts, history>>

\* MUTANT: every cookie is put back with a Domain attribute.
InsertCookieWidened(c) ==
  /\ At(c, "insert")
  /\ \/ \E w \in op[c].art.cookies :
          /\ jar' = [jar EXCEPT
               ![w.name] = Cookie([name |-> w.name, hostOnly |-> FALSE, by |-> w.by], c)]
          /\ op' = [op EXCEPT ![c].art.cookies = @ \ {w}]
     \/ op[c].art.cookies = {} /\ Goes(c, "tab") /\ UNCHANGED jar
  /\ UNCHANGED <<up, pool, maps, tabs, disk, counts, history>>

\* insert_entry takes the jar's lock for each cookie; cookies the jar has and the
\* artifact has not stay.
InsertCookie(c) ==
  /\ At(c, "insert")
  /\ \/ \E w \in op[c].art.cookies :
          /\ jar' = [jar EXCEPT ![w.name] = Cookie(FromWire(w), c)]
          /\ op' = [op EXCEPT ![c].art.cookies = @ \ {w}]
     \/ op[c].art.cookies = {} /\ Goes(c, "tab") /\ UNCHANGED jar
  /\ UNCHANGED <<up, pool, maps, tabs, disk, counts, history>>

\* The tab is made if it is not there.  It is of no origin: the map it has is no
\* page's of the origin modelled, and its first navigation drops it.
RestoreTab(c) ==
  /\ At(c, "tab")
  /\ tabs' = IF op[c].tab \in DOMAIN tabs THEN tabs ELSE Insert(tabs, op[c].tab, None)
  /\ Goes(c, "origins")
  /\ UNCHANGED <<up, jar, pool, maps, disk, counts, history>>

\* A new map replaces the pool's; who holds the old one keeps it to himself.
RestoreOrigins(c) ==
  /\ At(c, "origins")
  /\ IF op[c].art.storage
     THEN maps' = Append(maps, Item) /\ pool' = Len(maps) + 1
     ELSE UNCHANGED <<maps, pool>>
  /\ Ends(c)
  /\ UNCHANGED <<up, jar, tabs, disk, counts, history>>

-----------------------------------------------------------------------------
(* The process *)

\* serve_inner loads the session file into the tab `default' before it listens.
Boot ==
  /\ up = "off"
  /\ up' = "booting"
  /\ op' = [op EXCEPT ![Main] = [step |-> "read", tab |-> DefaultTab, began |-> counts.resets, art |-> None, fd |-> None]]
  /\ UNCHANGED <<memory, disk, counts, history>>

Listens ==
  /\ up = "booting" /\ At(Main, "idle")
  /\ up' = "up"
  /\ UNCHANGED <<memory, disk, op, counts, history>>

\* Ctrl-C: handlers that run are waited for, then the session of `default' is saved.
Stop ==
  /\ up = "up" /\ \A c \in Clients : At(c, "idle")
  /\ up' = "stopping"
  /\ op' = [op EXCEPT ![Main] =
       [step |-> "copy_jar", tab |-> DefaultTab, began |-> counts.resets, art |-> None, fd |-> None]]
  /\ UNCHANGED <<memory, disk, counts, history>>

\* All but the disk is gone with the process.
Forgets ==
  /\ up' = "off"
  /\ jar' = [n \in Names |-> None] /\ pool' = None /\ maps' = << >> /\ tabs' = [t \in {} |-> None]
  /\ op' = [c \in Handlers |-> Idle]
  /\ missed' = {}
  /\ UNCHANGED <<disk, saved>>

Exit == up = "stopping" /\ At(Main, "idle") /\ Forgets /\ UNCHANGED counts

\* The process dies; only the disk stays, as it is.
Crash ==
  /\ up # "off" /\ counts.crashes < MaxCrashes
  /\ counts' = [counts EXCEPT !.crashes = @ + 1]
  /\ Forgets

Runs(c) ==
  \/ \E n \in Names : CookiesLand(c, n)
  \/ TabComputed(c) \/ TabStored(c) \/ ScriptEnds(c)
  \/ ResetTabs(c) \/ ResetPool(c)
  \/ CopyJar(c) \/ CopyPool(c) \/ OpenTmp(c) \/ WriteTmp(c) \/ Rename(c)
  \/ ReadFile(c) \/ InsertCookie(c) \/ RestoreTab(c) \/ RestoreOrigins(c)

\* What storage_state_set is called with: host-only cookies and some storage.
Artifacts ==
  {[cookies |-> {CookieWire(Served(n, "host")) : n \in Names}, storage |-> TRUE, whole |-> TRUE]}

Next ==
  \/ \E c \in Clients, t \in TabIds :
       Visit(c, t) \/ Eval(c, t) \/ CloseTab(c, t) \/ Save(c, t) \/ Load(c, t)
  \/ \E c \in Clients, t \in TabIds, art \in Artifacts : SetState(c, t, art)
  \/ \E c \in Clients : ResetJar(c) \/ ScriptStores(c) \/ \E n \in Names : ScriptSetsCookie(c, n)
  \/ \E c \in Handlers : Runs(c)
  \/ Boot \/ Listens \/ Stop \/ Exit \/ Crash

Spec == Init /\ [][Next]_vars

\* Handlers and the process run on; scripts end; nothing makes it boot or stop.
FairSpec == Spec /\ \A c \in Handlers : WF_vars(Runs(c)) /\ WF_vars(Listens) /\ WF_vars(Exit)

-----------------------------------------------------------------------------
\* The types of the variables.
TypeOK ==
  /\ up \in {"off", "booting", "up", "stopping"}
  /\ \A n \in Names : jar[n] # None => jar[n].name = n /\ jar[n].at <= counts.resets
  /\ pool = None \/ pool \in 1..Len(maps)
  /\ DOMAIN tabs \subseteq TabIds /\ TabMaps \subseteq (DOMAIN maps) \union {None}
  /\ up = "off" => \A c \in Handlers : At(c, "idle")

\* A cookie has the scope it was first put into the jar with, however often the
\* session is saved, loaded, set and reset, and whoever sets a cookie of its name.
CookiesKeepScope == \A n \in Names : jar[n] # None => jar[n].hostOnly = (jar[n].by = "host")

Resetting == \E c \in Clients : op[c].step \in {"reset_tabs", "reset_pool"}

\* Item i, of the jar or of a map, was written after the last reset had begun.
Fresh(i) == i # None => i.at = counts.resets

\* Once session_reset has answered, all there is in the jar, in the pool and in
\* the tabs was written after it had begun: what a request or a script in flight
\* wrote before is gone, from whichever map it wrote to.  Not so of a map that no
\* tab had when the reset went through them, and a navigation put back later.
ResetForgets ==
  up = "up" /\ ~Resetting =>
    /\ \A n \in Names : Fresh(jar[n])
    /\ pool # None => Fresh(maps[pool])
    /\ \A m \in TabMaps \ (missed \union {None}) : Fresh(maps[m])

\* The artifact on disk is at any time, a crash included, exactly what the last
\* save to answer had serialised: never a part of it, never a mixture.
FileIsLastSaved == OnDisk = saved

\* The process gets through its boot and its stop, whatever is on disk.
BootAndStopEnd == up \in {"booting", "stopping"} ~> up \in {"up", "off"}

\* The artifact has the whole pool, whatever tab it is saved for (the comment of
\* session_artifact: "the pool IS the context").
WholePoolSaved ==
  [][\A c \in Handlers :
       At(c, "copy_pool") /\ op'[c].step = "open" => op'[c].art.storage = PoolHolds]_vars

\* Nothing of a page of the old session is in the new one (the comment of
\* session_reset: "a fresh session must not inherit a gated page's leftover state").
FreshAfterReset ==
  up = "up" /\ ~Resetting => \A n \in Names : jar[n] # None => jar[n].began = counts.resets

\* No tab has anything of the old session either (the protocol comment of
\* session_reset: it "clears the cookie jar AND any per-origin storage").
TabsForgotten ==
  up = "up" /\ ~Resetting => \A m \in TabMaps \ {None} : Fresh(maps[m])

\* What a page's script sets stays with the page's host (the comment of the setter
\* of document.cookie: "a page may only scope cookies to its own host").
ScriptCookiesAreHostOnly == \A n \in Names : jar[n] # None /\ jar[n].by = "script" => jar[n].hostOnly
=============================================================================
