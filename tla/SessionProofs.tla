--------------------------- MODULE SessionProofs ---------------------------
(***************************************************************************)
(* Proofs about Session, for every set of clients, tabs and cookies and    *)
(* any number of verbs, resets and crashes: cookies keep their scope over  *)
(* any number of round trips through files and artifacts, and, with one    *)
(* client that saves, the session file is always what was last committed,  *)
(* whenever the process crashes.                                           *)
(***************************************************************************)
EXTENDS Session, FiniteSetTheorems, SequenceTheorems, TLAPS

\* What the steps of a handler need of its record.
SaveSteps == {"copy_jar", "copy_pool", "open", "write", "rename"}
LoadSteps == {"read", "insert", "tab", "origins"}
Carrying == {"copy_pool", "open", "write", "rename", "insert", "tab", "origins"}

\* An artifact in which the dots are where they belong.
Scoped(a) ==
  /\ "cookies" \in DOMAIN a
  /\ \A w \in a.cookies : w.name \in Names /\ w.dot = (w.by # "host")

Fits(o) ==
  /\ "step" \in DOMAIN o
  /\ o.step \in SaveSteps \union LoadSteps => "art" \in DOMAIN o
  /\ o.step \in SaveSteps => "fd" \in DOMAIN o
  /\ o.step \in Carrying => Scoped(o.art)
  /\ o.step = "write" => o.fd \in Inodes

JarScoped ==
  /\ jar = [n \in Names |-> jar[n]]
  /\ \A n \in Names : jar[n] # None => jar[n].name = n /\ jar[n].hostOnly = (jar[n].by = "host")

DiskScoped ==
  /\ inodes = [i \in Inodes |-> inodes[i]]
  /\ \A i \in {file, tmp} : i # None => i \in Inodes /\ Scoped(inodes[i])
  /\ tmp # None => tmp # file

OpsFit ==
  /\ op = [c \in Handlers |-> op[c]]
  /\ \A c \in Handlers : Fits(op[c])

IInv == JarScoped /\ DiskScoped /\ OpsFit

-----------------------------------------------------------------------------
(* There is always a file left to make: the handlers that write have one each,   *)
(* and the two names another two.                                                *)

LEMMA HandlersFinite == IsFiniteSet(Handlers) /\ Cardinality(Handlers) \in Nat
<1>1. IsFiniteSet(Handlers)
  BY ClientsOK, FS_AddElement DEF Handlers
<1> QED BY <1>1, FS_CardinalityType

LEMMA OneMore ==
  ASSUME NEW S, NEW x, IsFiniteSet(S)
  PROVE  /\ IsFiniteSet(S \union {x}) /\ Cardinality(S \union {x}) \in Nat
         /\ Cardinality(S \union {x}) <= Cardinality(S) + 1
<1>1. IsFiniteSet(S \union {x})
      /\ Cardinality(S \union {x}) = IF x \in S THEN Cardinality(S) ELSE Cardinality(S) + 1
  BY FS_AddElement
<1>2. Cardinality(S) \in Nat /\ Cardinality(S \union {x}) \in Nat
  BY <1>1, FS_CardinalityType
<1> QED BY <1>1, <1>2

LEMMA SomeUnused ==
  ASSUME NEW c \in Handlers, op[c].step # "write"
  PROVE  /\ Unused \in Inodes /\ Unused \notin {file, tmp}
         /\ \A d \in Handlers : At(d, "write") => op[d].fd # Unused
<1> DEFINE W == {d \in Handlers : op[d].step = "write"}
           f == [d \in W |-> op[d].fd]
           F == {op[d].fd : d \in W}
           U == (F \union {file}) \union {tmp}
           n == Cardinality(Handlers)
<1>1. IsFiniteSet(W) /\ Cardinality(W) \in Nat /\ Cardinality(W) <= n - 1 /\ n \in Nat
  <2>1. IsFiniteSet(Handlers \ {c}) /\ Cardinality(Handlers \ {c}) = n - 1
    BY HandlersFinite, FS_RemoveElement
  <2>2. W \subseteq Handlers \ {c}
    OBVIOUS
  <2> HIDE DEF W
  <2> QED BY <2>1, <2>2, HandlersFinite, FS_Subset, FS_CardinalityType
<1>2. IsFiniteSet(F) /\ Cardinality(F) <= Cardinality(W) /\ Cardinality(F) \in Nat
  <2>1. f \in Surjection(W, F)
    BY DEF Surjection
  <2> HIDE DEF f, F, W
  <2> QED BY <2>1, <1>1, FS_Surjection, FS_CardinalityType
<1>3. IsFiniteSet(U) /\ Cardinality(U) \in Nat /\ Cardinality(U) <= n + 1
  <2>1. IsFiniteSet(F \union {file}) /\ Cardinality(F \union {file}) <= Cardinality(F) + 1
        /\ Cardinality(F \union {file}) \in Nat
    <3> HIDE DEF F
    <3> QED BY <1>2, OneMore
  <2> DEFINE V == F \union {file}
  <2>2. IsFiniteSet(V \union {tmp}) /\ Cardinality(V \union {tmp}) <= Cardinality(V) + 1
        /\ Cardinality(V \union {tmp}) \in Nat
    <3> HIDE DEF V
    <3> QED BY <2>1, OneMore DEF V
  <2> HIDE DEF F, W
  <2> QED BY <1>1, <1>2, <2>1, <2>2
<1>4. IsFiniteSet(Inodes) /\ Cardinality(Inodes) = n + 2
  <2>1. 1 \in Int /\ n + 2 \in Int /\ ~(1 > n + 2)
    BY <1>1
  <2> HIDE DEF n
  <2>2. IsFiniteSet(1..(n + 2)) /\ Cardinality(1..(n + 2)) = (n + 2) - 1 + 1
    BY <2>1, FS_Interval
  <2> QED BY <1>1, <2>2 DEF Inodes, n
<1>5. PICK i \in Inodes : i \notin U
  <2>1. CASE Inodes \subseteq U
    <3> HIDE DEF U, n
    <3>1. Cardinality(Inodes) <= Cardinality(U)
      BY <2>1, <1>3, FS_Subset
    <3> QED BY <3>1, <1>1, <1>3, <1>4
  <2> QED BY <2>1
<1>6. i \notin {file, tmp} /\ \A d \in Handlers : At(d, "write") => op[d].fd # i
  BY <1>5 DEF At
<1> QED BY <1>6, <1>5 DEF Unused

-----------------------------------------------------------------------------
(* A step of handler c changes its own record and puts only cookies of the right *)
(* scope into the jar and into files.                                            *)

LEMMA OpsStep ==
  ASSUME NEW c \in Handlers, NEW o, OpsFit, op' = [op EXCEPT ![c] = o], Fits(o)
  PROVE  OpsFit'
<1>1. op' = [d \in Handlers |-> IF d = c THEN o ELSE op[d]]
  BY DEF OpsFit
<1>2. \A d \in Handlers : Fits(op'[d])
  BY <1>1 DEF OpsFit
<1> QED BY <1>1, <1>2 DEF OpsFit, Fits, Scoped

LEMMA EndsFits ==
  ASSUME NEW c \in Handlers, OpsFit, Ends(c)
  PROVE  OpsFit'
<1>1. Fits(Idle)
  BY DEF Fits, Idle, SaveSteps, LoadSteps, Carrying
<1> QED BY <1>1, OpsStep DEF Ends

\* A handler whose record serves its next step as well as this one.
LEMMA GoesFits ==
  ASSUME NEW c \in Handlers, NEW s, OpsFit, Goes(c, s), s # "write",
         s \in SaveSteps => op[c].step \in SaveSteps,
         s \in LoadSteps => op[c].step \in LoadSteps,
         s \in Carrying => op[c].step \in Carrying
  PROVE  OpsFit'
<1> DEFINE o == [op[c] EXCEPT !.step = s]
<1>1. Fits(op[c])
  BY DEF OpsFit
<1>2. DOMAIN o = DOMAIN op[c] /\ o.step = s /\ o.art = op[c].art
  BY <1>1 DEF Fits
<1>3. Fits(o)
  <2> HIDE DEF o
  <2> QED BY <1>1, <1>2 DEF Fits
<1>4. op' = [op EXCEPT ![c] = o]
  BY DEF Goes
<1> HIDE DEF o
<1> QED BY <1>3, <1>4, OpsStep

LEMMA JarStep ==
  ASSUME JarScoped, NEW n \in Names, NEW k, NEW c, k.name = n, k.hostOnly = (k.by = "host"),
         jar' = [jar EXCEPT ![n] = Cookie(k, c)]
  PROVE  JarScoped'
<1>1. Cookie(k, c).name = n /\ Cookie(k, c).hostOnly = (Cookie(k, c).by = "host")
  BY DEF Cookie
<1> DEFINE x == Cookie(k, c)
<1>2. jar' = [m \in Names |-> IF m = n THEN x ELSE jar[m]]
  BY DEF JarScoped
<1> HIDE DEF x
<1> QED BY <1>1, <1>2 DEF JarScoped, x

LEMMA EmptyJar ==
  ASSUME jar' = [n \in Names |-> None]
  PROVE  JarScoped'
BY DEF JarScoped

LEMMA SameJar == ASSUME JarScoped, UNCHANGED jar PROVE JarScoped'
BY DEF JarScoped

LEMMA SameDisk == ASSUME DiskScoped, UNCHANGED disk PROVE DiskScoped'
BY DEF DiskScoped, disk, Scoped

-----------------------------------------------------------------------------
(* Per action *)

LEMMA InitIInv == Init => IInv
<1> SUFFICES ASSUME Init PROVE IInv
  OBVIOUS
<1>1. JarScoped
  BY DEF Init, JarScoped
<1>2. DiskScoped
  BY DEF Init, DiskScoped
<1>3. Fits(Idle)
  BY DEF Fits, Idle, SaveSteps, LoadSteps, Carrying
<1>4. OpsFit
  BY <1>3 DEF Init, OpsFit
<1> QED BY <1>1, <1>2, <1>4 DEF IInv

\* The first step of a verb that carries nothing yet.
LEMMA BeginsFit ==
  ASSUME NEW c \in Handlers, NEW s, NEW t, NEW b, OpsFit, s \notin Carrying,
         op' = [op EXCEPT ![c] = [step |-> s, tab |-> t, began |-> b, art |-> None, fd |-> None]]
  PROVE  OpsFit'
<1> DEFINE o == [step |-> s, tab |-> t, began |-> b, art |-> None, fd |-> None]
<1>1. Fits(o)
  BY DEF Fits, Carrying
<1> HIDE DEF o
<1> QED BY <1>1, OpsStep DEF o

LEMMA BeginsKeeps ==
  ASSUME IInv, NEW c \in Clients, NEW s, NEW t, s \notin Carrying, Begins(c, s, t)
  PROVE  IInv'
<1>1. OpsFit'
  BY BeginsFit DEF IInv, Begins, Handlers
<1>2. JarScoped' /\ DiskScoped'
  BY SameJar, SameDisk DEF IInv, Begins, memory
<1> QED BY <1>1, <1>2 DEF IInv

LEMMA VerbsKeep ==
  ASSUME IInv, NEW c \in Clients, NEW t \in TabIds,
         Visit(c, t) \/ Eval(c, t) \/ CloseTab(c, t) \/ Save(c, t) \/ Load(c, t)
  PROVE  IInv'
<1>1. CASE Visit(c, t)
  BY <1>1, BeginsKeeps DEF Visit, Carrying
<1>2. CASE Save(c, t)
  BY <1>2, BeginsKeeps DEF Save, Carrying
<1>3. CASE Load(c, t)
  BY <1>3, BeginsKeeps DEF Load, Carrying
<1>4. CASE Eval(c, t)
  <2> DEFINE o == [step |-> "script", began |-> counts.resets, map |-> pool', session |-> tabs[t]]
  <2>1. Fits(o)
    BY DEF Fits, Carrying, SaveSteps, LoadSteps
  <2>2. op' = [op EXCEPT ![c] = o]
    BY <1>4 DEF Eval
  <2> HIDE DEF o
  <2>3. OpsFit'
    BY <2>1, <2>2, OpsStep DEF IInv, Handlers
  <2>4. JarScoped' /\ DiskScoped'
    BY <1>4, SameJar, SameDisk DEF IInv, Eval
  <2> QED BY <2>3, <2>4 DEF IInv
<1>5. CASE CloseTab(c, t)
  <2>1. JarScoped' /\ DiskScoped' /\ UNCHANGED op
    BY <1>5, SameJar, SameDisk DEF IInv, CloseTab
  <2>2. OpsFit'
    BY <2>1 DEF IInv, OpsFit, Fits, Scoped
  <2> QED BY <2>1, <2>2 DEF IInv
<1> QED BY <1>1, <1>2, <1>3, <1>4, <1>5

LEMMA SetStateKeeps ==
  ASSUME IInv, NEW c \in Clients, NEW t \in TabIds, NEW art \in Artifacts, SetState(c, t, art)
  PROVE  IInv'
<1>1. Scoped(art)
  <2>1. \A n \in Names : LET w == CookieWire(Served(n, "host"))
                        IN w.name = n /\ w.dot = (w.by # "host") /\ DOMAIN w = {"name", "dot", "by"}
    BY DEF CookieWire, Served
  <2>2. art.cookies = {CookieWire(Served(n, "host")) : n \in Names}
        /\ DOMAIN art = {"cookies", "storage", "whole"}
    BY DEF Artifacts
  <2> QED BY <2>1, <2>2 DEF Scoped
<1> DEFINE o == [step |-> "insert", tab |-> t, began |-> counts.resets, art |-> art]
<1>2. Fits(o)
  BY <1>1 DEF Fits, SaveSteps
<1>3. op' = [op EXCEPT ![c] = o]
  BY DEF SetState
<1> HIDE DEF o
<1>4. OpsFit'
  BY <1>2, <1>3, OpsStep DEF IInv, Handlers
<1>5. JarScoped' /\ DiskScoped'
  BY SameJar, SameDisk DEF IInv, SetState, memory
<1> QED BY <1>4, <1>5 DEF IInv

LEMMA ScriptsAndResetKeep ==
  ASSUME IInv, NEW c \in Clients,
         ResetJar(c) \/ ScriptStores(c) \/ \E n \in Names : ScriptSetsCookie(c, n)
  PROVE  IInv'
<1>1. CASE ResetJar(c)
  <2> DEFINE o == [step |-> "reset_tabs", began |-> counts.resets + 1]
  <2>1. Fits(o)
    BY DEF Fits, Carrying, SaveSteps, LoadSteps
  <2>2. op' = [op EXCEPT ![c] = o]
    BY <1>1 DEF ResetJar
  <2> HIDE DEF o
  <2>3. OpsFit'
    BY <2>1, <2>2, OpsStep DEF IInv, Handlers
  <2>4. JarScoped' /\ DiskScoped'
    BY <1>1, EmptyJar, SameDisk DEF IInv, ResetJar
  <2> QED BY <2>3, <2>4 DEF IInv
<1>2. CASE ScriptStores(c)
  <2>1. JarScoped' /\ DiskScoped' /\ UNCHANGED op
    BY <1>2, SameJar, SameDisk DEF IInv, ScriptStores
  <2>2. OpsFit'
    BY <2>1 DEF IInv, OpsFit, Fits, Scoped
  <2> QED BY <2>1, <2>2 DEF IInv
<1>3. ASSUME NEW n \in Names, ScriptSetsCookie(c, n) PROVE IInv'
  <2> DEFINE k == [name |-> n, hostOnly |-> FALSE, by |-> "script"]
  <2>1. k.name = n /\ k.hostOnly = (k.by = "host") /\ jar' = [jar EXCEPT ![n] = Cookie(k, c)]
    BY <1>3 DEF ScriptSetsCookie
  <2> HIDE DEF k
  <2>2. JarScoped'
    BY <2>1, JarStep DEF IInv
  <2>3. DiskScoped' /\ UNCHANGED op
    BY <1>3, SameDisk DEF IInv, ScriptSetsCookie
  <2>4. OpsFit'
    BY <2>3 DEF IInv, OpsFit, Fits, Scoped
  <2> QED BY <2>2, <2>3, <2>4 DEF IInv
<1> QED BY <1>1, <1>2, <1>3

-----------------------------------------------------------------------------
(* The steps handlers take, those of Main included *)

LEMMA RequestsKeep ==
  ASSUME IInv, NEW c \in Handlers, (\E n \in Names : CookiesLand(c, n)) \/ TabComputed(c) \/ TabStored(c) \/ ScriptEnds(c)
  PROVE  IInv'
<1>1. ASSUME NEW n \in Names, CookiesLand(c, n) PROVE IInv'
  <2>0. PICK by \in {"host", "domain"} : jar' = [jar EXCEPT ![n] = Cookie(Served(n, by), c)]
    BY <1>1 DEF CookiesLand
  <2> DEFINE k == Served(n, by)
  <2>1. k.name = n /\ k.hostOnly = (k.by = "host") /\ jar' = [jar EXCEPT ![n] = Cookie(k, c)]
    BY <2>0 DEF Served
  <2> HIDE DEF k
  <2>2. JarScoped'
    BY <2>1, JarStep DEF IInv
  <2>3. DiskScoped'
    BY <1>1, SameDisk DEF IInv, CookiesLand
  <2>4. OpsFit'
    BY <1>1, GoesFits DEF IInv, CookiesLand, SaveSteps, LoadSteps, Carrying
  <2> QED BY <2>2, <2>3, <2>4 DEF IInv
<1>2. CASE TabStored(c) \/ ScriptEnds(c)
  <2>1. OpsFit'
    BY <1>2, EndsFits DEF IInv, TabStored, ScriptEnds
  <2>2. JarScoped' /\ DiskScoped'
    BY <1>2, SameJar, SameDisk DEF IInv, TabStored, ScriptEnds, memory
  <2> QED BY <2>1, <2>2 DEF IInv
<1>3. CASE TabComputed(c)
  <2>1. PICK x : op' = [op EXCEPT ![c] = [step |-> "store", tab |-> op[c].tab, session |-> x]]
    BY <1>3 DEF TabComputed
  <2> DEFINE o == [step |-> "store", tab |-> op[c].tab, session |-> x]
  <2>2. Fits(o) /\ op' = [op EXCEPT ![c] = o]
    BY <2>1 DEF Fits, Carrying, SaveSteps, LoadSteps
  <2> HIDE DEF o
  <2>3. OpsFit'
    BY <2>2, OpsStep DEF IInv
  <2>4. JarScoped' /\ DiskScoped'
    BY <1>3, SameJar, SameDisk DEF IInv, TabComputed
  <2> QED BY <2>3, <2>4 DEF IInv
<1> QED BY <1>1, <1>2, <1>3

LEMMA ResetsKeep ==
  ASSUME IInv, NEW c \in Handlers, ResetTabs(c) \/ ResetPool(c)
  PROVE  IInv'
<1>1. CASE ResetTabs(c)
  <2>1. OpsFit'
    BY <1>1, GoesFits DEF IInv, ResetTabs, SaveSteps, LoadSteps, Carrying
  <2> QED BY <1>1, <2>1, SameJar, SameDisk DEF IInv, ResetTabs
<1>2. CASE ResetPool(c)
  <2>1. OpsFit'
    BY <1>2, EndsFits DEF IInv, ResetPool
  <2> QED BY <1>2, <2>1, SameJar, SameDisk DEF IInv, ResetPool
<1> QED BY <1>1, <1>2

LEMMA CopiesKeep ==
  ASSUME IInv, NEW c \in Handlers, CopyJar(c) \/ CopyPool(c)
  PROVE  IInv'
<1>1. Fits(op[c])
  BY DEF IInv, OpsFit
<1>2. CASE CopyJar(c)
  <2> DEFINE ws == {CookieWire(jar[n]) : n \in {m \in Names : jar[m] # None}}
             a == [cookies |-> ws, storage |-> FALSE, whole |-> TRUE]
             o1 == [op[c] EXCEPT !.step = "copy_pool"]
             o == [o1 EXCEPT !.art = a]
  <2>1. ASSUME NEW w \in ws PROVE w.name \in Names /\ w.dot = (w.by # "host")
    <3>1. PICK n \in Names : jar[n] # None /\ w = CookieWire(jar[n])
      OBVIOUS
    <3>2. jar[n].name = n /\ jar[n].hostOnly = (jar[n].by = "host")
      BY <3>1 DEF IInv, JarScoped
    <3>3. w.name = jar[n].name /\ w.dot = ~jar[n].hostOnly /\ w.by = jar[n].by
      BY <3>1 DEF CookieWire
    <3>4. w.dot = ~(jar[n].by = "host")
      BY <3>2, <3>3
    <3> QED BY <3>2, <3>3, <3>4
  <2>2. Scoped(a)
    <3> HIDE DEF ws
    <3> QED BY <2>1 DEF Scoped
  <2>3. DOMAIN o1 = DOMAIN op[c] /\ o1.step = "copy_pool"
    BY <1>1 DEF Fits
  <2>4. op[c].step \in SaveSteps
    BY <1>2 DEF CopyJar, At, SaveSteps
  <2>5. "step" \in DOMAIN o1 /\ "art" \in DOMAIN o1 /\ "fd" \in DOMAIN o1
    BY <1>1, <2>3, <2>4 DEF Fits
  <2>6. DOMAIN o = DOMAIN o1 /\ o.step = "copy_pool" /\ o.art = a
    <3> HIDE DEF o1, a
    <3> QED BY <2>3, <2>5
  <2>7. op' = [op EXCEPT ![c] = o]
    BY <1>2 DEF CopyJar
  <2>8. Fits(o)
    <3> HIDE DEF o, o1, a
    <3> QED BY <2>2, <2>5, <2>6 DEF Fits
  <2> HIDE DEF o
  <2>9. OpsFit'
    BY <2>7, <2>8, OpsStep DEF IInv
  <2> QED BY <1>2, <2>9, SameJar, SameDisk DEF IInv, CopyJar, memory
<1>3. CASE CopyPool(c)
  <2> DEFINE x == op[c].tab \in DOMAIN tabs /\ PoolHolds
             a == [op[c].art EXCEPT !.storage = x]
             o1 == [op[c] EXCEPT !.step = "open"]
             o == [o1 EXCEPT !.art = a]
  <2>1. Scoped(op[c].art) /\ op[c].step \in SaveSteps
    BY <1>1, <1>3 DEF Fits, CopyPool, At, Carrying, SaveSteps
  <2>2. DOMAIN a = DOMAIN op[c].art /\ a.cookies = op[c].art.cookies
    <3> HIDE DEF x
    <3> QED BY <2>1 DEF Scoped
  <2>3. Scoped(a)
    <3> HIDE DEF a
    <3> QED BY <2>1, <2>2 DEF Scoped
  <2>4. DOMAIN o1 = DOMAIN op[c] /\ o1.step = "open" /\ o1.art = op[c].art
    BY <1>1 DEF Fits
  <2>5. "step" \in DOMAIN o1 /\ "art" \in DOMAIN o1 /\ "fd" \in DOMAIN o1
    BY <1>1, <2>1, <2>4 DEF Fits
  <2>6. DOMAIN o = DOMAIN o1 /\ o.step = "open" /\ o.art = a
    <3> HIDE DEF o1, a
    <3> QED BY <2>4, <2>5
  <2>7. op' = [op EXCEPT ![c] = o]
    <3> DEFINE op1 == [op EXCEPT ![c] = o1]
    <3>1. op' = [op1 EXCEPT ![c].art.storage = x]
      BY <1>3 DEF CopyPool
    <3>2. op1[c] = o1 /\ \A y : [op1 EXCEPT ![c] = y] = [op EXCEPT ![c] = y]
      <4> HIDE DEF o1
      <4> QED BY DEF IInv, OpsFit
    <3> HIDE DEF x, o1, op1
    <3>3. op' = [op1 EXCEPT ![c] = [op1[c] EXCEPT !.art = [op1[c].art EXCEPT !.storage = x]]]
      BY <3>1
    <3> QED BY <3>2, <3>3, <2>4
  <2>8. Fits(o)
    <3> HIDE DEF o, o1, a
    <3> QED BY <2>3, <2>5, <2>6 DEF Fits
  <2> HIDE DEF o
  <2>9. OpsFit'
    BY <2>7, <2>8, OpsStep DEF IInv
  <2> QED BY <1>3, <2>9, SameJar, SameDisk DEF IInv, CopyPool, memory
<1> QED BY <1>2, <1>3

LEMMA OpensFile ==
  ASSUME NEW c \in Handlers, OpenTmp(c), DiskScoped
  PROVE  tmp' \in Inodes /\ tmp' # file
<1>1. op[c].step # "write"
  BY DEF OpenTmp, At
<1>2. Unused \in Inodes /\ Unused # file
  BY <1>1, SomeUnused
<1> QED BY <1>2 DEF OpenTmp, DiskScoped

LEMMA FilesKeep ==
  ASSUME IInv, NEW c \in Handlers, OpenTmp(c) \/ WriteTmp(c) \/ Rename(c)
  PROVE  IInv'
<1>1. Fits(op[c])
  BY DEF IInv, OpsFit
<1>2. CASE OpenTmp(c)
  <2> DEFINE i == tmp'
             a == [op[c].art EXCEPT !.whole = FALSE]
             o1 == [op[c] EXCEPT !.step = "write"]
             o == [o1 EXCEPT !.fd = i]
  <2>1. Scoped(op[c].art) /\ op[c].step \in SaveSteps
    BY <1>1, <1>2 DEF Fits, OpenTmp, At, Carrying, SaveSteps
  <2>2. Scoped(a)
    BY <2>1 DEF Scoped
  <2>3. i \in Inodes /\ i # file
    BY <1>2, OpensFile DEF IInv
  <2>4. DOMAIN o1 = DOMAIN op[c] /\ o1.step = "write" /\ o1.art = op[c].art
    BY <1>1 DEF Fits
  <2>5. "step" \in DOMAIN o1 /\ "art" \in DOMAIN o1 /\ "fd" \in DOMAIN o1
    BY <1>1, <2>1, <2>4 DEF Fits
  <2>6. DOMAIN o = DOMAIN o1 /\ o.step = "write" /\ o.art = o1.art /\ o.fd = i
    <3> HIDE DEF o1, i
    <3> QED BY <2>4, <2>5
  <2>7. op' = [op EXCEPT ![c] = o]
    BY <1>2 DEF OpenTmp, Opens
  <2>8. Fits(o)
    <3> HIDE DEF o, o1, i
    <3> QED BY <2>1, <2>3, <2>4, <2>5, <2>6 DEF Fits
  <2>9. inodes' = [inodes EXCEPT ![i] = a] /\ file' = file
    BY <1>2 DEF OpenTmp, Opens
  <2>10. DiskScoped'
    <3> HIDE DEF a
    <3>1. inodes' = [j \in Inodes |-> IF j = i THEN a ELSE inodes[j]]
      BY <2>3, <2>9 DEF IInv, DiskScoped
    <3>2. \A j \in {file, i} : j # None => j \in Inodes /\ Scoped(inodes'[j])
      BY <2>2, <2>3, <3>1 DEF IInv, DiskScoped
    <3> QED BY <2>3, <2>9, <3>1, <3>2 DEF DiskScoped, Scoped
  <2> HIDE DEF o
  <2>11. OpsFit'
    BY <2>7, <2>8, OpsStep DEF IInv
  <2> QED BY <1>2, <2>10, <2>11, SameJar DEF IInv, OpenTmp, memory
<1>3. CASE WriteTmp(c)
  <2> DEFINE i == op[c].fd
             a == op[c].art
  <2>1. Scoped(a) /\ i \in Inodes
    BY <1>1, <1>3 DEF Fits, WriteTmp, At, Carrying
  <2>2. inodes' = [inodes EXCEPT ![i] = a] /\ file' = file /\ tmp' = tmp
    BY <1>3 DEF WriteTmp
  <2>3. DiskScoped'
    <3> HIDE DEF a, i
    <3>1. inodes' = [j \in Inodes |-> IF j = i THEN a ELSE inodes[j]]
      BY <2>1, <2>2 DEF IInv, DiskScoped
    <3>2. \A j \in {file, tmp} : j # None => j \in Inodes /\ Scoped(inodes'[j])
      BY <2>1, <3>1 DEF IInv, DiskScoped
    <3> QED BY <2>2, <3>1, <3>2 DEF IInv, DiskScoped, Scoped
  <2>4. OpsFit'
    BY <1>3, GoesFits DEF IInv, WriteTmp, At, SaveSteps, LoadSteps, Carrying
  <2> QED BY <1>3, <2>3, <2>4, SameJar DEF IInv, WriteTmp, memory
<1>4. CASE Rename(c)
  <2>1. OpsFit'
    BY <1>4, EndsFits DEF IInv, Rename
  <2>2. CASE tmp = None
    BY <1>4, <2>1, <2>2, SameJar, SameDisk DEF IInv, Rename, memory
  <2>3. CASE tmp # None
    <3>1. file' = tmp /\ tmp' = None
          /\ inodes' = IF file = None THEN inodes ELSE [inodes EXCEPT ![file] = None]
      BY <1>4, <2>3 DEF Rename
    <3>2. inodes' = [j \in Inodes |-> IF file # None /\ j = file THEN None ELSE inodes[j]]
      BY <3>1 DEF IInv, DiskScoped
    <3>3. tmp \in Inodes /\ Scoped(inodes'[tmp])
      BY <2>3, <3>2 DEF IInv, DiskScoped
    <3>4. DiskScoped'
      BY <2>3, <3>1, <3>2, <3>3 DEF IInv, DiskScoped, Scoped
    <3> QED BY <1>4, <2>1, <3>4, SameJar DEF IInv, Rename, memory
  <2> QED BY <2>2, <2>3
<1> QED BY <1>2, <1>3, <1>4

LEMMA LoadsKeep ==
  ASSUME IInv, NEW c \in Handlers, ReadFile(c) \/ InsertCookie(c) \/ RestoreTab(c) \/ RestoreOrigins(c)
  PROVE  IInv'
<1>1. Fits(op[c])
  BY DEF IInv, OpsFit
<1>2. CASE ReadFile(c)
  <2>1. JarScoped' /\ DiskScoped'
    BY <1>2, SameJar, SameDisk DEF IInv, ReadFile, memory
  <2>2. CASE file = None \/ ~OnDisk.whole
    <3>1. OpsFit'
      BY <1>2, <2>2, EndsFits DEF IInv, ReadFile
    <3> QED BY <2>1, <3>1 DEF IInv
  <2>3. CASE file # None /\ OnDisk.whole
    <3> DEFINE a == OnDisk
               o1 == [op[c] EXCEPT !.step = "insert"]
               o == [o1 EXCEPT !.art = a]
    <3>1. Scoped(a) /\ op[c].step \in LoadSteps
      BY <1>2, <2>3 DEF IInv, DiskScoped, OnDisk, ReadFile, At, LoadSteps
    <3>2. DOMAIN o1 = DOMAIN op[c] /\ o1.step = "insert"
      BY <1>1 DEF Fits
    <3>3. "step" \in DOMAIN o1 /\ "art" \in DOMAIN o1
      BY <1>1, <3>1, <3>2 DEF Fits
    <3>4. DOMAIN o = DOMAIN o1 /\ o.step = "insert" /\ o.art = a
      <4> HIDE DEF o1, a
      <4> QED BY <3>2, <3>3
    <3>5. Fits(o)
      <4> HIDE DEF o, o1, a
      <4> QED BY <3>1, <3>3, <3>4 DEF Fits, SaveSteps
    <3>6. op' = [op EXCEPT ![c] = o]
      BY <1>2, <2>3 DEF ReadFile
    <3> HIDE DEF o
    <3>7. OpsFit'
      BY <3>5, <3>6, OpsStep DEF IInv
    <3> QED BY <2>1, <3>7 DEF IInv
  <2> QED BY <2>2, <2>3 DEF ReadFile
<1>3. CASE InsertCookie(c)
  <2>1. DiskScoped'
    BY <1>3, SameDisk DEF IInv, InsertCookie
  <2>2. Scoped(op[c].art) /\ op[c].step = "insert"
    BY <1>1, <1>3 DEF Fits, InsertCookie, At, Carrying
  <2>3. ASSUME NEW w \in op[c].art.cookies,
               jar' = [jar EXCEPT ![w.name] = Cookie(FromWire(w), c)],
               op' = [op EXCEPT ![c].art.cookies = @ \ {w}]
        PROVE  IInv'
    <3> DEFINE n == w.name
               k == FromWire(w)
               ws == op[c].art.cookies \ {w}
               a == [op[c].art EXCEPT !.cookies = ws]
               o == [op[c] EXCEPT !.art = a]
    <3>1. n \in Names /\ w.dot = (w.by # "host")
      BY <2>2 DEF Scoped
    <3>2. k.name = n /\ k.hostOnly = ~w.dot /\ k.by = w.by
      BY DEF FromWire
    <3>3. k.hostOnly = (k.by = "host")
      <4> HIDE DEF n, k
      <4>1. k.hostOnly = ~(w.by # "host")
        BY <3>1, <3>2
      <4> QED BY <3>2, <4>1
    <3>4. JarScoped'
      <4> HIDE DEF k, n
      <4>1. jar' = [jar EXCEPT ![n] = Cookie(k, c)]
        BY <2>3 DEF k, n
      <4> QED BY <3>1, <3>2, <3>3, <4>1, JarStep DEF IInv
    <3>5. DOMAIN a = DOMAIN op[c].art /\ a.cookies = ws
      <4> HIDE DEF ws
      <4> QED BY <2>2 DEF Scoped
    <3>6. Scoped(a)
      <4> HIDE DEF a
      <4> QED BY <2>2, <3>5 DEF Scoped
    <3>7. DOMAIN o = DOMAIN op[c] /\ o.step = "insert" /\ o.art = a
      <4> HIDE DEF a
      <4> QED BY <1>1, <2>2 DEF Fits, LoadSteps
    <3>8. Fits(o)
      <4> HIDE DEF o, a
      <4> QED BY <1>1, <2>2, <3>6, <3>7 DEF Fits, SaveSteps
    <3>9. op' = [op EXCEPT ![c] = o]
      BY <2>3
    <3> HIDE DEF o
    <3>10. OpsFit'
      BY <3>8, <3>9, OpsStep DEF IInv
    <3> QED BY <2>1, <3>4, <3>10 DEF IInv
  <2>4. CASE Goes(c, "tab") /\ UNCHANGED jar
    <3>1. OpsFit'
      BY <2>2, <2>4, GoesFits DEF IInv, SaveSteps, LoadSteps, Carrying
    <3> QED BY <2>1, <2>4, <3>1, SameJar DEF IInv
  <2> QED BY <1>3, <2>3, <2>4 DEF InsertCookie
<1>4. CASE RestoreTab(c)
  <2>1. OpsFit'
    BY <1>4, GoesFits DEF IInv, RestoreTab, At, SaveSteps, LoadSteps, Carrying
  <2> QED BY <1>4, <2>1, SameJar, SameDisk DEF IInv, RestoreTab
<1>5. CASE RestoreOrigins(c)
  <2>1. OpsFit'
    BY <1>5, EndsFits DEF IInv, RestoreOrigins
  <2> QED BY <1>5, <2>1, SameJar, SameDisk DEF IInv, RestoreOrigins
<1> QED BY <1>2, <1>3, <1>4, <1>5

LEMMA ProcessKeeps ==
  ASSUME IInv, Boot \/ Listens \/ Stop \/ Exit \/ Crash
  PROVE  IInv'
<1>1. CASE Boot
  <2>1. op' = [op EXCEPT ![Main] =
          [step |-> "read", tab |-> DefaultTab, began |-> counts.resets, art |-> None, fd |-> None]]
    BY <1>1 DEF Boot
  <2>2. OpsFit'
    <3> DEFINE s == "read"
    <3>1. Main \in Handlers /\ s \notin Carrying
      BY DEF Handlers, Carrying
    <3> HIDE DEF s
    <3>2. op' = [op EXCEPT ![Main] =
            [step |-> s, tab |-> DefaultTab, began |-> counts.resets, art |-> None, fd |-> None]]
      BY <2>1 DEF s
    <3> QED BY <3>1, <3>2, BeginsFit DEF IInv
  <2> QED BY <1>1, <2>2, SameJar, SameDisk DEF IInv, Boot, memory
<1>2. CASE Stop
  <2>1. op' = [op EXCEPT ![Main] =
          [step |-> "copy_jar", tab |-> DefaultTab, began |-> counts.resets, art |-> None, fd |-> None]]
    BY <1>2 DEF Stop
  <2>2. OpsFit'
    <3> DEFINE s == "copy_jar"
    <3>1. Main \in Handlers /\ s \notin Carrying
      BY DEF Handlers, Carrying
    <3> HIDE DEF s
    <3>2. op' = [op EXCEPT ![Main] =
            [step |-> s, tab |-> DefaultTab, began |-> counts.resets, art |-> None, fd |-> None]]
      BY <2>1 DEF s
    <3> QED BY <3>1, <3>2, BeginsFit DEF IInv
  <2> QED BY <1>2, <2>2, SameJar, SameDisk DEF IInv, Stop, memory
<1>3. CASE Listens
  <2>1. OpsFit'
    BY <1>3 DEF IInv, OpsFit, Fits, Scoped, Listens
  <2> QED BY <1>3, <2>1, SameJar, SameDisk DEF IInv, Listens, memory
<1>4. CASE Exit \/ Crash
  <2>1. Forgets
    BY <1>4 DEF Exit, Crash
  <2>2. Fits(Idle)
    BY DEF Fits, Idle, SaveSteps, LoadSteps, Carrying
  <2>3. OpsFit'
    BY <2>1, <2>2 DEF Forgets, OpsFit, Fits, Scoped
  <2> QED BY <2>1, <2>3, EmptyJar, SameDisk DEF IInv, Forgets
<1> QED BY <1>1, <1>2, <1>3, <1>4

LEMMA Inductive == ASSUME IInv, [Next]_vars PROVE IInv'
<1>1. CASE UNCHANGED vars
  BY <1>1 DEF IInv, JarScoped, DiskScoped, OpsFit, Fits, Scoped, vars, memory, disk
<1>2. ASSUME NEW c \in Handlers, Runs(c) PROVE IInv'
  BY <1>2, RequestsKeep, ResetsKeep, CopiesKeep, FilesKeep, LoadsKeep DEF Runs
<1>3. CASE Next
  BY <1>2, <1>3, VerbsKeep, SetStateKeeps, ScriptsAndResetKeep, ProcessKeeps DEF Next
<1> QED BY <1>1, <1>3

\* However often the session is saved, loaded, set, reset, crashed and booted, a
\* cookie is host-only in the jar exactly if a server that set it made it so: what
\* scripts set, and what servers gave a Domain, is never narrowed, the rest never widened.
THEOREM CookiesAlwaysScoped == Spec => []CookiesKeepScope
<1>1. IInv => CookiesKeepScope
  BY DEF IInv, JarScoped, CookiesKeepScope
<1> QED BY InitIInv, Inductive, <1>1, PTL DEF Spec

-----------------------------------------------------------------------------
(* The session file, when no two clients save.  A save then has the .tmp file to *)
(* itself until it has renamed it: the process saves as it stops, when the       *)
(* clients have ended.                                                           *)

OneSaver ==
  /\ \A c \in Clients : op[c].step \in SaveSteps => c \in Savers
  /\ op[Main].step \in SaveSteps => up = "stopping"
  /\ up # "up" => \A c \in Clients : op[c].step = "idle"

TmpIsOwn ==
  /\ OnDisk = saved
  /\ \A c \in Handlers : op[c].step = "write" => tmp # None /\ op[c].fd = tmp
  /\ \A c \in Handlers : op[c].step = "rename" => tmp # None /\ inodes[tmp] = op[c].art

FInv == IInv /\ OneSaver /\ TmpIsOwn

LEMMA InitFInv == Init => FInv
<1> SUFFICES ASSUME Init PROVE FInv
  OBVIOUS
<1>1. \A c \in Handlers : op[c].step = "idle"
  BY DEF Init, Idle
<1>2. OneSaver
  BY <1>1 DEF OneSaver, Handlers, SaveSteps
<1>3. TmpIsOwn
  BY <1>1 DEF TmpIsOwn, OnDisk, Init
<1> QED BY <1>2, <1>3, InitIInv DEF FInv

LEMMA OnlyOneSaves ==
  ASSUME \A a, b \in Savers : a = b, OneSaver,
         NEW c \in Handlers, NEW d \in Handlers, op[c].step \in SaveSteps, op[d].step \in SaveSteps
  PROVE  c = d
BY DEF OneSaver, Handlers, SaveSteps

\* A handler's steps change its own record, and start no save.
LEMMA RunsShape ==
  ASSUME IInv, NEW c \in Handlers, Runs(c)
  PROVE  /\ op' = [op EXCEPT ![c] = op'[c]] /\ op[c].step # "idle" /\ UNCHANGED up
         /\ op'[c].step \in SaveSteps => op[c].step \in SaveSteps
         /\ op'[c].step = "store" => TabComputed(c)
<1>1. "step" \in DOMAIN op[c] /\ op = [d \in Handlers |-> op[d]]
  BY DEF IInv, OpsFit, Fits
<1>2. ASSUME NEW s, Goes(c, s) PROVE op' = [op EXCEPT ![c] = op'[c]] /\ op'[c].step = s
  BY <1>1, <1>2 DEF Goes
<1>3. ASSUME Ends(c) PROVE op' = [op EXCEPT ![c] = op'[c]] /\ op'[c].step = "idle"
  BY <1>1, <1>3 DEF Ends, Idle
<1>4. CASE (\E n \in Names : CookiesLand(c, n)) \/ TabStored(c) \/ ScriptEnds(c) \/ ResetTabs(c) \/ ResetPool(c)
  <2>1. UNCHANGED up /\ op[c].step \in {"head", "store", "script", "reset_tabs", "reset_pool"}
    BY <1>4 DEF CookiesLand, TabStored, ScriptEnds, ResetTabs, ResetPool, At
  <2>2. Ends(c) \/ Goes(c, "compute") \/ Goes(c, "reset_pool")
    BY <1>4 DEF CookiesLand, TabStored, ScriptEnds, ResetTabs, ResetPool
  <2>3. op' = [op EXCEPT ![c] = op'[c]] /\ op'[c].step \notin SaveSteps /\ op'[c].step # "store"
    BY <2>2, <1>2, <1>3 DEF SaveSteps
  <2> QED BY <2>1, <2>3
<1>5. CASE WriteTmp(c) \/ Rename(c) \/ RestoreTab(c) \/ RestoreOrigins(c)
  BY <1>2, <1>3, <1>5 DEF WriteTmp, Rename, RestoreTab, RestoreOrigins, At, SaveSteps
<1>6. CASE CopyJar(c) \/ CopyPool(c) \/ OpenTmp(c)
  <2>1. op' = [op EXCEPT ![c] = op'[c]]
    BY <1>1, <1>6 DEF CopyJar, CopyPool, OpenTmp, Opens
  <2>2. ASSUME NEW s, NEW x, \/ op' = [op EXCEPT ![c].step = s, ![c].art = x]
                             \/ op' = [op EXCEPT ![c].step = s, ![c].art.storage = x]
                             \/ op' = [op EXCEPT ![c].step = s, ![c].fd = x]
        PROVE  op'[c].step = s
    BY <1>1, <2>2
  <2>3. op'[c].step \in {"copy_pool", "open", "write"}
    BY <1>6, <2>2 DEF CopyJar, CopyPool, OpenTmp, Opens
  <2> QED BY <2>1, <2>3, <1>6 DEF CopyJar, CopyPool, OpenTmp, At, SaveSteps
<1>7. CASE ReadFile(c)
  <2>1. ASSUME op' = [op EXCEPT ![c].step = "insert", ![c].art = OnDisk]
        PROVE  op' = [op EXCEPT ![c] = op'[c]] /\ op'[c].step = "insert"
    BY <1>1, <2>1
  <2> QED BY <2>1, <1>3, <1>7 DEF ReadFile, At, SaveSteps
<1>8. CASE InsertCookie(c)
  <2>1. ASSUME NEW w, op' = [op EXCEPT ![c].art.cookies = @ \ {w}]
        PROVE  op' = [op EXCEPT ![c] = op'[c]] /\ op'[c].step = op[c].step
    BY <1>1, <2>1
  <2> QED BY <2>1, <1>2, <1>8 DEF InsertCookie, At, SaveSteps
<1>9. CASE TabComputed(c)
  <2>1. PICK x : op' = [op EXCEPT ![c] = [step |-> "store", tab |-> op[c].tab, session |-> x]]
    BY <1>9 DEF TabComputed
  <2>2. op' = [op EXCEPT ![c] = op'[c]] /\ op'[c].step = "store"
    BY <1>1, <2>1
  <2> QED BY <2>2, <1>9 DEF TabComputed, At, SaveSteps
<1> QED BY <1>4, <1>5, <1>6, <1>7, <1>8, <1>9 DEF Runs

LEMMA RunsOneSaver ==
  ASSUME IInv, OneSaver, NEW c \in Handlers, Runs(c)
  PROVE  OneSaver'
<1>1. \A d \in Handlers : d # c => op'[d] = op[d]
  BY RunsShape DEF IInv, OpsFit
<1> QED BY <1>1, RunsShape DEF OneSaver, Handlers

\* All that runs besides the writing of a file.
LEMMA Quiet ==
  ASSUME IInv, TmpIsOwn, NEW c \in Handlers, op' = [op EXCEPT ![c] = op'[c]],
         op'[c].step \notin {"write", "rename"}, UNCHANGED <<disk, saved>>
  PROVE  TmpIsOwn'
<1>1. \A d \in Handlers : d # c => op'[d] = op[d]
  BY DEF IInv, OpsFit
<1> QED BY <1>1 DEF TmpIsOwn, OnDisk, disk

LEMMA OpenKeepsFile ==
  ASSUME \A a, b \in Savers : a = b, FInv, NEW c \in Handlers, OpenTmp(c)
  PROVE  TmpIsOwn'
<1>1. op[c].step = "open"
  BY DEF OpenTmp, At
<1>2. tmp' \in Inodes /\ tmp' # file /\ tmp' # None
  <2>1. Inodes \subseteq Nat
    BY HandlersFinite DEF Inodes
  <2> QED BY <2>1, OpensFile, NoneOK DEF FInv, IInv
<1>3. \A d \in Handlers : d # c => op'[d] = op[d] /\ op[d].step \notin SaveSteps
  BY <1>1, OnlyOneSaves, RunsShape DEF FInv, IInv, OpsFit, SaveSteps, Runs
<1>4. op'[c].step = "write" /\ op'[c].fd = tmp'
  <2>1. Fits(op[c])
    BY DEF FInv, IInv, OpsFit
  <2>2. op' = [op EXCEPT ![c].step = "write", ![c].fd = tmp']
    BY DEF OpenTmp, Opens
  <2> DEFINE i == tmp'
             o1 == [op[c] EXCEPT !.step = "write"]
             o == [o1 EXCEPT !.fd = i]
  <2>3. "step" \in DOMAIN o1 /\ "fd" \in DOMAIN o1 /\ o1.step = "write"
    BY <1>1, <2>1 DEF Fits, SaveSteps
  <2>4. o.step = "write" /\ o.fd = i
    <3> HIDE DEF o1, i
    <3> QED BY <2>3
  <2>5. op' = [op EXCEPT ![c] = o]
    BY <2>2
  <2> HIDE DEF o
  <2> QED BY <2>4, <2>5 DEF FInv, IInv, OpsFit
<1>5. OnDisk' = OnDisk /\ UNCHANGED saved
  BY <1>2 DEF history, OpenTmp, Opens, OnDisk, FInv, IInv, DiskScoped
<1> QED BY <1>2, <1>3, <1>4, <1>5 DEF FInv, TmpIsOwn, SaveSteps

LEMMA WriteKeepsFile ==
  ASSUME \A a, b \in Savers : a = b, FInv, NEW c \in Handlers, WriteTmp(c)
  PROVE  TmpIsOwn'
<1>1. op[c].step = "write"
  BY DEF WriteTmp, At
<1>2. \A d \in Handlers : d # c => op'[d] = op[d] /\ op[d].step \notin SaveSteps
  BY <1>1, OnlyOneSaves, RunsShape DEF FInv, IInv, OpsFit, SaveSteps, Runs
<1>3. op[c].fd = tmp /\ tmp # None /\ tmp \in Inodes /\ tmp # file
  BY <1>1 DEF FInv, IInv, DiskScoped, TmpIsOwn
<1>4. inodes' = [inodes EXCEPT ![tmp] = op[c].art] /\ file' = file /\ tmp' = tmp /\ saved' = saved
  BY <1>3 DEF history, WriteTmp
<1>5. op'[c].step = "rename" /\ op'[c].art = op[c].art
  <2>1. Fits(op[c])
    BY DEF FInv, IInv, OpsFit
  <2> DEFINE o == [op[c] EXCEPT !.step = "rename"]
  <2>2. o.step = "rename" /\ o.art = op[c].art
    BY <2>1 DEF Fits
  <2>3. op' = [op EXCEPT ![c] = o]
    BY DEF WriteTmp, Goes
  <2> HIDE DEF o
  <2> QED BY <2>2, <2>3 DEF FInv, IInv, OpsFit
<1>6. inodes'[tmp] = op[c].art /\ (file # None => inodes'[file] = inodes[file])
  BY <1>3, <1>4 DEF FInv, IInv, DiskScoped
<1> QED BY <1>2, <1>3, <1>4, <1>5, <1>6 DEF FInv, TmpIsOwn, OnDisk, SaveSteps

LEMMA RenameKeepsFile ==
  ASSUME \A a, b \in Savers : a = b, FInv, NEW c \in Handlers, Rename(c)
  PROVE  TmpIsOwn'
<1>1. op[c].step = "rename"
  BY DEF Rename, At
<1>2. \A d \in Handlers : d # c => op'[d] = op[d] /\ op[d].step \notin SaveSteps
  BY <1>1, OnlyOneSaves, RunsShape DEF FInv, IInv, OpsFit, SaveSteps, Runs
<1>3. tmp # None /\ tmp # file /\ tmp \in Inodes /\ inodes[tmp] = op[c].art
  BY <1>1 DEF FInv, IInv, DiskScoped, TmpIsOwn
<1>4. file' = tmp /\ saved' = op[c].art
      /\ inodes' = IF file = None THEN inodes ELSE [inodes EXCEPT ![file] = None]
  BY <1>3 DEF Rename
<1>5. inodes'[tmp] = op[c].art
  BY <1>3, <1>4 DEF FInv, IInv, DiskScoped
<1>6. op'[c].step = "idle"
  BY DEF Rename, Ends, Idle, FInv, IInv, OpsFit
<1> QED BY <1>2, <1>3, <1>4, <1>5, <1>6 DEF TmpIsOwn, OnDisk, SaveSteps

LEMMA RunsKeepFile ==
  ASSUME \A a, b \in Savers : a = b, FInv, NEW c \in Handlers, Runs(c)
  PROVE  TmpIsOwn'
<1>1. "step" \in DOMAIN op[c] /\ op = [d \in Handlers |-> op[d]]
  BY DEF FInv, IInv, OpsFit, Fits
<1>2. op' = [op EXCEPT ![c] = op'[c]]
  BY RunsShape DEF FInv
<1>3. ASSUME NEW s, Goes(c, s) PROVE op'[c].step = s
  BY <1>1, <1>3 DEF Goes
<1>4. ASSUME Ends(c) PROVE op'[c].step = "idle"
  BY <1>1, <1>4 DEF Ends, Idle
<1> DEFINE Silent == op'[c].step \notin {"write", "rename"} /\ UNCHANGED <<disk, saved>>
<1>5. CASE (\E n \in Names : CookiesLand(c, n)) \/ TabStored(c) \/ ScriptEnds(c) \/ ResetTabs(c) \/ ResetPool(c)
  <2>1. Silent
    BY <1>3, <1>4, <1>5 DEF history, CookiesLand, TabStored, ScriptEnds, ResetTabs, ResetPool
  <2> QED BY <1>2, <2>1, Quiet DEF FInv
<1>6. CASE RestoreTab(c) \/ RestoreOrigins(c)
  <2>1. Silent
    BY <1>3, <1>4, <1>6 DEF history, RestoreTab, RestoreOrigins
  <2> QED BY <1>2, <2>1, Quiet DEF FInv
<1>7. CASE CopyJar(c) \/ CopyPool(c)
  <2>1. ASSUME NEW x, op' = [op EXCEPT ![c].step = "copy_pool", ![c].art = x]
        PROVE  op'[c].step = "copy_pool"
    BY <1>1, <2>1
  <2>2. ASSUME NEW x, op' = [op EXCEPT ![c].step = "open", ![c].art.storage = x]
        PROVE  op'[c].step = "open"
    BY <1>1, <2>2
  <2>3. op'[c].step \in {"copy_pool", "open"}
    BY <1>7, <2>1, <2>2 DEF CopyJar, CopyPool
  <2>4. Silent
    BY <1>7, <2>3 DEF history, CopyJar, CopyPool
  <2> QED BY <1>2, <2>4, Quiet DEF FInv
<1>8. CASE ReadFile(c)
  <2>1. ASSUME op' = [op EXCEPT ![c].step = "insert", ![c].art = OnDisk]
        PROVE  op'[c].step = "insert"
    BY <1>1, <2>1
  <2>2. Silent
    BY <1>4, <1>8, <2>1 DEF history, ReadFile
  <2> QED BY <1>2, <2>2, Quiet DEF FInv
<1>9. CASE InsertCookie(c)
  <2>1. ASSUME NEW w, op' = [op EXCEPT ![c].art.cookies = @ \ {w}]
        PROVE  op'[c].step = op[c].step
    BY <1>1, <2>1
  <2>2. Silent
    BY <1>3, <1>9, <2>1 DEF history, InsertCookie, At
  <2> QED BY <1>2, <2>2, Quiet DEF FInv
<1>10. CASE TabComputed(c)
  <2>1. PICK x : op' = [op EXCEPT ![c] = [step |-> "store", tab |-> op[c].tab, session |-> x]]
    BY <1>10 DEF TabComputed
  <2>2. Silent
    BY <1>1, <1>10, <2>1 DEF history, TabComputed
  <2> QED BY <1>2, <2>2, Quiet DEF FInv
<1> QED BY <1>5, <1>6, <1>7, <1>8, <1>9, <1>10, OpenKeepsFile, WriteKeepsFile, RenameKeepsFile DEF Runs

LEMMA FInductive ==
  ASSUME \A a, b \in Savers : a = b, FInv, [Next]_vars
  PROVE  FInv'
<1>1. IInv'
  BY Inductive DEF FInv
<1>2. ASSUME NEW c \in Handlers, Runs(c) PROVE FInv'
  BY <1>1, <1>2, RunsOneSaver, RunsKeepFile DEF FInv
<1>3. CASE UNCHANGED vars
  BY <1>1, <1>3 DEF FInv, OneSaver, TmpIsOwn, OnDisk, vars, disk
<1>4. ASSUME NEW c \in Clients, up = "up", UNCHANGED <<up, disk, saved>>,
             op' = [op EXCEPT ![c] = op'[c]], op'[c].step \notin {"write", "rename"},
             op'[c].step \in SaveSteps => c \in Savers
      PROVE  FInv'
  <2>1. c \in Handlers /\ c # Main /\ Main \in Handlers
    BY ClientsOK DEF Handlers
  <2>2. \A d \in Handlers : d # c => op'[d] = op[d]
    BY <1>4, <2>1 DEF FInv, IInv, OpsFit
  <2>3. OneSaver'
    BY <1>4, <2>1, <2>2 DEF FInv, OneSaver, Handlers
  <2>4. TmpIsOwn'
    BY <1>4, <2>1, Quiet DEF FInv
  <2> QED BY <1>1, <2>3, <2>4 DEF FInv
<1>5. ASSUME NEW c \in Clients, UNCHANGED op, UNCHANGED <<up, disk, saved>> PROVE FInv'
  BY <1>1, <1>5 DEF FInv, OneSaver, TmpIsOwn, OnDisk, disk
<1>6. ASSUME NEW c \in Clients, NEW t \in TabIds,
             Visit(c, t) \/ Eval(c, t) \/ CloseTab(c, t) \/ Save(c, t) \/ Load(c, t)
      PROVE  FInv'
  <2>1. c \in Handlers /\ op = [d \in Handlers |-> op[d]]
    BY DEF FInv, IInv, OpsFit, Handlers
  <2>2. ASSUME NEW s \in {"head", "copy_jar", "read"}, Begins(c, s, t)
        PROVE  op' = [op EXCEPT ![c] = op'[c]] /\ op'[c].step = s /\ up = "up"
               /\ UNCHANGED <<up, disk, saved>>
    BY <2>1, <2>2 DEF history, Begins
  <2>3. CASE Visit(c, t)
    <3>1. op'[c].step = "head" /\ op' = [op EXCEPT ![c] = op'[c]] /\ up = "up" /\ UNCHANGED <<up, disk, saved>>
      BY <2>2, <2>3 DEF Visit
    <3> QED BY <3>1, <1>4 DEF SaveSteps
  <2>4. CASE Save(c, t)
    <3>1. op'[c].step = "copy_jar" /\ op' = [op EXCEPT ![c] = op'[c]] /\ up = "up" /\ UNCHANGED <<up, disk, saved>>
      BY <2>2, <2>4 DEF Save
    <3> QED BY <2>4, <3>1, <1>4 DEF Save
  <2>5. CASE Load(c, t)
    <3>1. op'[c].step = "read" /\ op' = [op EXCEPT ![c] = op'[c]] /\ up = "up" /\ UNCHANGED <<up, disk, saved>>
      BY <2>2, <2>5 DEF Load
    <3> QED BY <3>1, <1>4 DEF SaveSteps
  <2>6. CASE Eval(c, t)
    <3>1. op'[c].step = "script" /\ op' = [op EXCEPT ![c] = op'[c]] /\ up = "up" /\ UNCHANGED <<up, disk, saved>>
      BY <2>1, <2>6 DEF history, Eval
    <3> QED BY <3>1, <1>4 DEF SaveSteps
  <2>7. CASE CloseTab(c, t)
    BY <1>5, <2>7 DEF history, CloseTab
  <2> QED BY <1>6, <2>3, <2>4, <2>5, <2>6, <2>7
<1>7. ASSUME NEW c \in Clients, NEW t \in TabIds, NEW art \in Artifacts, SetState(c, t, art)
      PROVE  FInv'
  <2>1. c \in Handlers /\ op = [d \in Handlers |-> op[d]]
    BY DEF FInv, IInv, OpsFit, Handlers
  <2>2. op'[c].step = "insert" /\ op' = [op EXCEPT ![c] = op'[c]] /\ up = "up" /\ UNCHANGED <<up, disk, saved>>
    BY <1>7, <2>1 DEF history, SetState
  <2> QED BY <2>2, <1>4 DEF SaveSteps
<1>8. ASSUME NEW c \in Clients, ResetJar(c) PROVE FInv'
  <2>1. c \in Handlers /\ op = [d \in Handlers |-> op[d]]
    BY DEF FInv, IInv, OpsFit, Handlers
  <2>2. op'[c].step = "reset_tabs" /\ op' = [op EXCEPT ![c] = op'[c]] /\ up = "up" /\ UNCHANGED <<up, disk, saved>>
    BY <1>8, <2>1 DEF history, ResetJar
  <2> QED BY <2>2, <1>4 DEF SaveSteps
<1>9. ASSUME NEW c \in Clients, ScriptStores(c) \/ \E n \in Names : ScriptSetsCookie(c, n) PROVE FInv'
  BY <1>5, <1>9 DEF history, ScriptStores, ScriptSetsCookie
<1>10. CASE Boot \/ Stop
  <2>1. Main \in Handlers /\ op = [d \in Handlers |-> op[d]] /\ UNCHANGED <<disk, saved>>
    BY <1>10 DEF history, FInv, IInv, OpsFit, Handlers, Boot, Stop
  <2>2. op' = [op EXCEPT ![Main] = op'[Main]] /\ op'[Main].step \in {"read", "copy_jar"}
        /\ (op'[Main].step \in SaveSteps => up' = "stopping")
    BY <1>10, <2>1 DEF Boot, Stop, SaveSteps
  <2>3. \A d \in Handlers : d # Main => op'[d] = op[d]
    BY <2>1, <2>2
  <2>4. \A c \in Clients : op[c].step = "idle" /\ op'[c] = op[c]
    BY <1>10, <2>3, ClientsOK DEF FInv, OneSaver, Boot, Stop, At, Handlers
  <2>5. OneSaver'
    BY <2>2, <2>4 DEF OneSaver, SaveSteps
  <2>6. TmpIsOwn'
    BY <2>1, <2>2, Quiet DEF FInv
  <2> QED BY <1>1, <2>5, <2>6 DEF FInv
<1>11. CASE Listens
  BY <1>1, <1>11 DEF history, FInv, OneSaver, TmpIsOwn, OnDisk, Listens, At, disk, SaveSteps
<1>12. CASE Exit \/ Crash
  <2>1. Forgets
    BY <1>12 DEF Exit, Crash
  <2>2. \A c \in Handlers : op'[c].step = "idle"
    BY <2>1 DEF Forgets, Idle
  <2>3. OneSaver'
    BY <2>2 DEF OneSaver, Handlers, SaveSteps
  <2>4. TmpIsOwn'
    BY <2>1, <2>2 DEF FInv, TmpIsOwn, OnDisk, Forgets, disk
  <2> QED BY <1>1, <2>3, <2>4 DEF FInv
<1> QED BY <1>2, <1>3, <1>6, <1>7, <1>8, <1>9, <1>10, <1>11, <1>12 DEF Next

\* With one client that saves, the file holds at any time, a crash included, all of
\* what the last save to answer had serialised.
THEOREM FileAlwaysLastSaved == ASSUME \A a, b \in Savers : a = b PROVE Spec => []FileIsLastSaved
<1>1. FInv => FileIsLastSaved
  BY DEF FInv, TmpIsOwn, FileIsLastSaved
<1> QED BY InitFInv, FInductive, <1>1, PTL DEF Spec

-----------------------------------------------------------------------------
(* What a reset leaves.  The jar is emptied as the reset begins; in the maps of  *)
(* the tabs and in the pool's an older item may be left only while some handler   *)
(* is still to empty them, on behalf of the latest reset.  The maps that matter   *)
(* are those of the tabs and those a navigation is about to give a tab.           *)

TabsPending == \E c \in Clients : op[c].step = "reset_tabs" /\ op[c].began = counts.resets
PoolPending ==
  \E c \in Clients : op[c].step \in {"reset_tabs", "reset_pool"} /\ op[c].began = counts.resets

OfTab(m) == \E t \in DOMAIN tabs : tabs[t] = m /\ m # None
Carried(m) == \E c \in Handlers : op[c].step = "store" /\ op[c].session = m
Held(m) == OfTab(m) \/ Carried(m)

JarFresh == \A n \in Names : Fresh(jar[n])
SessionsFresh == \A m : Held(m) /\ m \notin missed => Fresh(maps[m])
PoolFresh == pool # None => Fresh(maps[pool])

MapsAreMaps ==
  /\ \E S : maps \in Seq(S)
  /\ pool # None => pool \in 1..Len(maps)
  /\ \A m : Held(m) => m \in 1..Len(maps)

RInv ==
  /\ IInv /\ MapsAreMaps /\ "resets" \in DOMAIN counts
  /\ JarFresh
  /\ TabsPending \/ SessionsFresh
  /\ PoolPending \/ PoolFresh

LEMMA InitRInv == Init => RInv
<1> SUFFICES ASSUME Init PROVE RInv
  OBVIOUS
<1>1. \A m : ~Held(m)
  BY DEF Init, Held, OfTab, Carried, Idle
<1>2. MapsAreMaps
  <2>1. maps \in Seq({})
    BY DEF Init
  <2> QED BY <1>1, <2>1 DEF Init, MapsAreMaps
<1>3. JarFresh /\ SessionsFresh /\ PoolFresh /\ "resets" \in DOMAIN counts
  BY <1>1 DEF Init, JarFresh, SessionsFresh, PoolFresh, Fresh
<1> QED BY <1>2, <1>3, InitIInv DEF RInv

LEMMA PendingStays ==
  ASSUME IInv, NEW c \in Handlers, op' = [op EXCEPT ![c] = op'[c]],
         c \in Clients => op[c].step \notin {"reset_tabs", "reset_pool"},
         counts'.resets = counts.resets
  PROVE  (TabsPending => TabsPending') /\ (PoolPending => PoolPending')
<1>1. \A d \in Handlers : d # c => op'[d] = op[d]
  BY DEF IInv, OpsFit
<1> QED BY <1>1 DEF TabsPending, PoolPending, Handlers

\* The maps after a step: each is as it was, or what is in it was written now.
MapsGo ==
  /\ \E S : maps' \in Seq(S)
  /\ Len(maps) \in Nat /\ Len(maps') \in Nat /\ Len(maps) <= Len(maps')
  /\ \A m \in 1..Len(maps') : (m \in 1..Len(maps) /\ maps'[m] = maps[m]) \/ Fresh(maps'[m])

New(m) == m \in 1..Len(maps') /\ m \notin 1..Len(maps)

LEMMA SameMaps == ASSUME MapsAreMaps, UNCHANGED maps PROVE MapsGo
<1>1. PICK S : maps \in Seq(S)
  BY DEF MapsAreMaps
<1> QED BY <1>1 DEF MapsGo

LEMMA MapAdded ==
  ASSUME MapsAreMaps, NEW x, maps' = Append(maps, x), Fresh(x)
  PROVE  MapsGo /\ New(Len(maps) + 1)
<1>1. PICK S : maps \in Seq(S)
  BY DEF MapsAreMaps
<1>2. maps \in Seq(S \union {x}) /\ Len(maps) \in Nat
  BY <1>1
<1>3. maps' \in Seq(S \union {x}) /\ Len(maps') = Len(maps) + 1 /\ maps'[Len(maps) + 1] = x
      /\ \A m \in 1..Len(maps) : maps'[m] = maps[m]
  BY <1>2
<1>4. \A m \in 1..Len(maps') : m \in 1..Len(maps) \/ m = Len(maps) + 1
  BY <1>2, <1>3
<1> QED BY <1>2, <1>3, <1>4 DEF MapsGo, New

LEMMA MapWritten ==
  ASSUME MapsAreMaps, NEW i, NEW x, maps' = [maps EXCEPT ![i] = x], Fresh(x)
  PROVE  MapsGo
<1>1. PICK S : maps \in Seq(S)
  BY DEF MapsAreMaps
<1>2. maps \in Seq(S \union {x}) /\ Len(maps) \in Nat
  BY <1>1
<1>3. CASE i \in 1..Len(maps)
  <2> DEFINE R == S \union {x}
  <2>1. x \in R
    OBVIOUS
  <2> HIDE DEF R
  <2>2. maps' \in Seq(R) /\ Len(maps') = Len(maps)
        /\ \A j \in 1..Len(maps) : maps'[j] = IF j = i THEN x ELSE maps[j]
    BY <1>2, <1>3, <2>1, ExceptSeq DEF R
  <2> QED BY <1>2, <2>2 DEF MapsGo
<1>4. CASE i \notin 1..Len(maps)
  <2>1. DOMAIN maps = 1..Len(maps) /\ maps = [j \in DOMAIN maps |-> maps[j]]
    BY <1>1, LenProperties
  <2>2. maps' = maps
    BY <1>4, <2>1
  <2> QED BY <2>2, SameMaps
<1> QED BY <1>3, <1>4

LEMMA MapsEmptied ==
  ASSUME MapsAreMaps, maps' = [m \in DOMAIN maps |-> IF m \in TabMaps THEN None ELSE maps[m]]
  PROVE  /\ MapsGo /\ Len(maps') = Len(maps) /\ DOMAIN maps = 1..Len(maps)
         /\ \A m \in 1..Len(maps) : maps'[m] = IF m \in TabMaps THEN None ELSE maps[m]
<1>1. PICK S : maps \in Seq(S)
  BY DEF MapsAreMaps
<1> DEFINE R == S \union {None}
           n == Len(maps)
<1>2. n \in Nat /\ DOMAIN maps = 1..n /\ \A m \in 1..n : maps[m] \in R
  BY <1>1, LenProperties, ElementOfSeq
<1>3. maps' = [m \in 1..n |-> IF m \in TabMaps THEN None ELSE maps[m]]
  BY <1>2
<1>4. maps' \in [1..n -> R]
  <2> HIDE DEF n
  <2> QED BY <1>2, <1>3
<1>5. maps' \in Seq(R) /\ Len(maps') = n
  <2> HIDE DEF n, R
  <2>1. maps' \in Seq(R)
    BY <1>2, <1>4, SeqDef
  <2> QED BY <2>1, <1>2, <1>4, LenProperties
<1>6. \A m \in 1..n : maps'[m] = IF m \in TabMaps THEN None ELSE maps[m]
  <2> HIDE DEF n
  <2> QED BY <1>3
<1>7. \A m \in 1..n : maps'[m] = maps[m] \/ Fresh(maps'[m])
  <2> HIDE DEF n
  <2> QED BY <1>6 DEF Fresh
<1>8. MapsGo
  <2>1. Len(maps) \in Nat /\ Len(maps') = Len(maps)
    BY <1>2, <1>5
  <2>2. \E T : maps' \in Seq(T)
    <3> HIDE DEF R
    <3> QED BY <1>5
  <2> QED BY <2>1, <2>2, <1>7 DEF MapsGo
<1> QED BY <1>2, <1>5, <1>6, <1>8

\* A step after which the pool and the tabs hold maps they held before, or new ones.
LEMMA StillFresh ==
  ASSUME RInv, MapsGo, UNCHANGED missed, counts'.resets = counts.resets,
         pool' = pool \/ pool' = None \/ New(pool'),
         \A m : Held(m)' => Held(m) \/ New(m)
  PROVE  MapsAreMaps' /\ (SessionsFresh => SessionsFresh') /\ (PoolFresh => PoolFresh')
<1>1. \A i : Fresh(i)' = Fresh(i)'
  OBVIOUS
<1>2. ASSUME NEW m, New(m) PROVE m \in 1..Len(maps') /\ maps'[m] # None => maps'[m].at = counts.resets
  BY <1>2 DEF New, MapsGo, Fresh
<1>3. ASSUME NEW m \in 1..Len(maps), maps[m] # None => maps[m].at = counts.resets
      PROVE  m \in 1..Len(maps') /\ (maps'[m] # None => maps'[m].at = counts.resets)
  BY <1>3 DEF MapsGo, Fresh
<1>4. MapsAreMaps'
  <2>1. 1..Len(maps) \subseteq 1..Len(maps')
    BY DEF MapsGo
  <2>2. pool' # None => pool' \in 1..Len(maps')
    BY <2>1 DEF RInv, MapsAreMaps, New
  <2>3. \A m : Held(m)' => m \in 1..Len(maps')
    BY <2>1 DEF RInv, MapsAreMaps, New
  <2> QED BY <2>2, <2>3 DEF MapsAreMaps, MapsGo
<1>5. SessionsFresh => SessionsFresh'
  BY <1>2, <1>3, <1>4 DEF SessionsFresh, RInv, MapsAreMaps, Fresh, New
<1>6. PoolFresh => PoolFresh'
  BY <1>2, <1>3, <1>4 DEF PoolFresh, RInv, MapsAreMaps, Fresh, New
<1> QED BY <1>4, <1>5, <1>6

\* Which maps are held after a step of handler c.
LEMMA HeldFrom ==
  ASSUME NEW c \in Handlers, \A d \in Handlers : d # c => op'[d] = op[d], op'[c].step # "store",
         UNCHANGED tabs
  PROVE  \A m : Held(m)' => Held(m) \/ New(m)
BY DEF Held, OfTab, Carried

LEMMA JarWritten ==
  ASSUME RInv, NEW c, NEW n, NEW k, jar' = [jar EXCEPT ![n] = Cookie(k, c)],
         counts'.resets = counts.resets
  PROVE  JarFresh'
<1> DEFINE x == Cookie(k, c)
<1>1. x.at = counts.resets
  BY DEF Cookie
<1> HIDE DEF x
<1>2. \A m \in Names : jar'[m] = IF m = n THEN x ELSE jar[m]
  BY DEF RInv, IInv, JarScoped, x
<1> QED BY <1>1, <1>2 DEF RInv, JarFresh, Fresh

LEMMA JarSame == ASSUME RInv, UNCHANGED jar, counts'.resets = counts.resets PROVE JarFresh'
BY DEF RInv, JarFresh, Fresh

LEMMA RunsFresh ==
  ASSUME RInv, NEW c \in Handlers, Runs(c)
  PROVE  RInv'
<1>1. counts' = counts /\ IInv' /\ "resets" \in DOMAIN counts'
  <2>1. counts' = counts
    BY DEF Runs, CookiesLand, TabComputed, TabStored, ScriptEnds, ResetTabs, ResetPool, CopyJar, CopyPool,
           OpenTmp, WriteTmp, Rename, ReadFile, InsertCookie, RestoreTab, RestoreOrigins
  <2> QED BY <2>1, RequestsKeep, ResetsKeep, CopiesKeep, FilesKeep, LoadsKeep DEF RInv, Runs
<1>2. op' = [op EXCEPT ![c] = op'[c]] /\ (\A d \in Handlers : d # c => op'[d] = op[d])
      /\ (op'[c].step = "store" => TabComputed(c))
  BY RunsShape DEF RInv, IInv, OpsFit
<1>3. ASSUME op[c].step \notin {"reset_tabs", "reset_pool"}
      PROVE  (TabsPending => TabsPending') /\ (PoolPending => PoolPending')
  BY <1>1, <1>2, <1>3, PendingStays DEF RInv
<1>4. ASSUME ~TabComputed(c), UNCHANGED tabs PROVE \A m : Held(m)' => Held(m) \/ New(m)
  BY <1>2, <1>4, HeldFrom
<1>5. CASE (\E n \in Names : CookiesLand(c, n)) \/ InsertCookie(c)
  <2>1. op[c].step \in {"head", "insert"} /\ UNCHANGED <<pool, maps, tabs, missed>>
    BY <1>5 DEF CookiesLand, InsertCookie, At, history
  <2>2. UNCHANGED jar \/ \E n, k : jar' = [jar EXCEPT ![n] = Cookie(k, c)]
    BY <1>5 DEF CookiesLand, InsertCookie
  <2>3. JarFresh'
    BY <1>1, <2>2, JarWritten, JarSame
  <2>4. ~TabComputed(c)
    BY <2>1 DEF TabComputed, At
  <2>5. MapsAreMaps' /\ (SessionsFresh => SessionsFresh') /\ (PoolFresh => PoolFresh')
    BY <1>1, <1>4, <2>1, <2>4, SameMaps, StillFresh DEF RInv
  <2> QED BY <1>1, <1>3, <2>1, <2>3, <2>5 DEF RInv
<1>6. CASE TabComputed(c)
  <2>1. op[c].step = "compute" /\ UNCHANGED <<jar, pool, tabs, missed>>
    BY <1>6 DEF TabComputed, At, history
  <2> DEFINE t == op[c].tab
             old == IF t \in DOMAIN tabs THEN tabs[t] ELSE None
             new == IF old # None THEN old ELSE Len(maps) + 1
  <2>2. MapsGo /\ (old = None => New(Len(maps) + 1))
    <3>1. CASE old # None
      BY <1>6, <3>1, SameMaps DEF TabComputed, RInv
    <3>2. CASE old = None
      <4>1. maps' = Append(maps, None) /\ Fresh(None)
        BY <1>6, <3>2 DEF TabComputed, Fresh
      <4> QED BY <4>1, MapAdded DEF RInv
    <3> QED BY <3>1, <3>2
  <2>3. op'[c] = [step |-> "store", tab |-> t, session |-> new]
    <3>1. op' = [op EXCEPT ![c] = [step |-> "store", tab |-> t, session |-> new]]
      BY <1>6 DEF TabComputed
    <3> HIDE DEF t, new
    <3> QED BY <3>1 DEF RInv, IInv, OpsFit
  <2>4. OfTab(new) \/ New(new)
    BY <2>2 DEF OfTab
  <2>5. \A m : Held(m)' => Held(m) \/ New(m)
    <3> HIDE DEF new, t
    <3>1. op'[c].session = new
      BY <2>3
    <3> QED BY <1>2, <2>1, <2>4, <3>1 DEF Held, OfTab, Carried
  <2>6. MapsAreMaps' /\ (SessionsFresh => SessionsFresh') /\ (PoolFresh => PoolFresh')
    BY <1>1, <2>1, <2>2, <2>5, StillFresh
  <2> QED BY <1>1, <1>3, <2>1, <2>6, JarSame DEF RInv
<1>7. CASE TabStored(c) \/ RestoreTab(c)
  <2>1. op[c].step \in {"store", "tab"} /\ UNCHANGED <<jar, pool, maps, missed>> /\ ~TabComputed(c)
    BY <1>7 DEF TabStored, RestoreTab, TabComputed, At, history
  <2>2. \A m : OfTab(m)' => Held(m)
    <3>1. CASE TabStored(c)
      BY <2>1, <3>1 DEF TabStored, Insert, Held, OfTab, Carried, At
    <3>2. CASE RestoreTab(c)
      BY <3>2 DEF RestoreTab, Insert, Held, OfTab
    <3> QED BY <1>7, <3>1, <3>2
  <2>3. \A m : Held(m)' => Held(m) \/ New(m)
    BY <1>2, <2>1, <2>2 DEF Held, Carried
  <2>4. MapsAreMaps' /\ (SessionsFresh => SessionsFresh') /\ (PoolFresh => PoolFresh')
    BY <1>1, <2>1, <2>3, SameMaps, StillFresh DEF RInv
  <2> QED BY <1>1, <1>3, <2>1, <2>4, JarSame DEF RInv
<1>8. CASE ScriptEnds(c) \/ CopyJar(c) \/ CopyPool(c) \/ OpenTmp(c) \/ WriteTmp(c) \/ Rename(c) \/ ReadFile(c)
  <2>1. op[c].step \in {"script", "copy_jar", "copy_pool", "open", "write", "rename", "read"}
        /\ UNCHANGED <<jar, pool, maps, tabs, missed>>
    BY <1>8 DEF ScriptEnds, CopyJar, CopyPool, OpenTmp, WriteTmp, Rename, ReadFile, At, memory, history
  <2>2. ~TabComputed(c)
    BY <2>1 DEF TabComputed, At
  <2>3. MapsAreMaps' /\ (SessionsFresh => SessionsFresh') /\ (PoolFresh => PoolFresh')
    BY <1>1, <1>4, <2>1, <2>2, SameMaps, StillFresh DEF RInv
  <2> QED BY <1>1, <1>3, <2>1, <2>3, JarSame DEF RInv
<1>9. CASE RestoreOrigins(c)
  <2>1. op[c].step = "origins" /\ UNCHANGED <<jar, tabs, missed>>
    BY <1>9 DEF RestoreOrigins, At, history
  <2>2. ~TabComputed(c)
    BY <2>1 DEF TabComputed, At
  <2>3. MapsGo /\ (pool' = pool \/ New(pool'))
    <3>1. CASE UNCHANGED <<maps, pool>>
      BY <3>1, SameMaps DEF RInv
    <3>2. CASE maps' = Append(maps, Item) /\ pool' = Len(maps) + 1
      <4> DEFINE x == Item
      <4>1. Fresh(x)
        BY DEF Fresh, Item
      <4> HIDE DEF x
      <4>2. maps' = Append(maps, x)
        BY <3>2 DEF x
      <4> QED BY <3>2, <4>1, <4>2, MapAdded DEF RInv
    <3> QED BY <1>9, <3>1, <3>2 DEF RestoreOrigins
  <2>4. MapsAreMaps' /\ (SessionsFresh => SessionsFresh') /\ (PoolFresh => PoolFresh')
    BY <1>1, <1>4, <2>1, <2>2, <2>3, StillFresh
  <2> QED BY <1>1, <1>3, <2>1, <2>4, JarSame DEF RInv
<1>10. CASE ResetTabs(c)
  <2>1. op[c].step = "reset_tabs" /\ UNCHANGED <<jar, pool, tabs>> /\ Goes(c, "reset_pool")
        /\ maps' = [m \in DOMAIN maps |-> IF m \in TabMaps THEN None ELSE maps[m]]
        /\ missed' = {m \in DOMAIN maps \ TabMaps : maps[m] # None}
    BY <1>10 DEF ResetTabs, At
  <2>2. op'[c].step = "reset_pool" /\ op'[c].began = op[c].began
    <3>1. op = [d \in Handlers |-> op[d]] /\ "step" \in DOMAIN op[c]
      BY DEF RInv, IInv, OpsFit, Fits
    <3> DEFINE o == [op[c] EXCEPT !.step = "reset_pool"]
    <3>2. o.step = "reset_pool" /\ o.began = op[c].began
      BY <3>1
    <3>3. op' = [op EXCEPT ![c] = o]
      BY <2>1 DEF Goes
    <3> HIDE DEF o
    <3> QED BY <3>1, <3>2, <3>3
  <2>3. PoolPending => PoolPending'
    BY <1>1, <1>2, <2>1, <2>2 DEF PoolPending, Handlers
  <2>4. /\ MapsGo /\ Len(maps') = Len(maps) /\ DOMAIN maps = 1..Len(maps)
        /\ \A m \in 1..Len(maps) : maps'[m] = IF m \in TabMaps THEN None ELSE maps[m]
    BY <2>1, MapsEmptied DEF RInv
  <2>5. \A m : Held(m)' => Held(m)
    BY <1>2, <2>1, <2>2 DEF Held, OfTab, Carried
  <2>6. SessionsFresh'
    <3> SUFFICES ASSUME NEW m, Held(m)', m \notin missed' PROVE maps'[m] = None
      BY DEF SessionsFresh, Fresh
    <3>1. m \in 1..Len(maps)
      BY <2>5 DEF RInv, MapsAreMaps
    <3> QED BY <2>1, <2>4, <3>1
  <2>7. MapsAreMaps' /\ (PoolFresh => PoolFresh')
    <3>1. \A m \in 1..Len(maps) : Fresh(maps[m]) => Fresh(maps[m])
      OBVIOUS
    <3>2. MapsAreMaps'
      BY <2>1, <2>4, <2>5 DEF MapsGo, RInv, MapsAreMaps
    <3>3. PoolFresh => PoolFresh'
      BY <1>1, <2>1, <2>4 DEF RInv, MapsAreMaps, PoolFresh, Fresh
    <3> QED BY <3>2, <3>3
  <2> QED BY <1>1, <2>1, <2>3, <2>6, <2>7, JarSame DEF RInv
<1>11. CASE ResetPool(c)
  <2>1. op[c].step = "reset_pool" /\ UNCHANGED <<jar, tabs, maps, missed>> /\ pool' = None
    BY <1>11 DEF ResetPool, At, history
  <2>2. TabsPending => TabsPending'
    BY <1>1, <1>2, <2>1 DEF TabsPending, Handlers
  <2>3. PoolFresh' /\ ~TabComputed(c)
    BY <2>1 DEF PoolFresh, TabComputed, At
  <2>4. MapsAreMaps' /\ (SessionsFresh => SessionsFresh')
    BY <1>1, <1>4, <2>1, <2>3, SameMaps, StillFresh DEF RInv
  <2> QED BY <1>1, <2>1, <2>2, <2>3, <2>4, JarSame DEF RInv
<1> QED BY <1>5, <1>6, <1>7, <1>8, <1>9, <1>10, <1>11 DEF Runs

LEMMA VerbsFresh ==
  ASSUME RInv, NEW c \in Clients, NEW t \in TabIds,
         Visit(c, t) \/ Eval(c, t) \/ CloseTab(c, t) \/ Save(c, t) \/ Load(c, t)
         \/ \E art \in Artifacts : SetState(c, t, art)
  PROVE  RInv'
<1>1. IInv'
  BY VerbsKeep, SetStateKeeps DEF RInv
<1>2. c \in Handlers /\ op[c].step = "idle" /\ "resets" \in DOMAIN counts'
      /\ counts'.resets = counts.resets /\ UNCHANGED <<jar, missed>>
  BY DEF Visit, Save, Load, Begins, Eval, CloseTab, SetState, At, Handlers, memory, history, RInv
<1>3. op' = [op EXCEPT ![c] = op'[c]] /\ op'[c].step # "store"
  BY <1>2 DEF Visit, Save, Load, Begins, Eval, CloseTab, SetState, RInv, IInv, OpsFit
<1>4. (TabsPending => TabsPending') /\ (PoolPending => PoolPending')
  BY <1>2, <1>3, PendingStays DEF RInv
<1>5. \A d \in Handlers : d # c => op'[d] = op[d]
  BY <1>3 DEF RInv, IInv, OpsFit
<1>6. \A m : Held(m)' => Held(m) \/ New(m)
  <2>1. CASE UNCHANGED tabs
    BY <1>2, <1>3, <1>5, <2>1, HeldFrom
  <2>2. CASE CloseTab(c, t)
    BY <1>2, <1>3, <1>5, <2>2 DEF CloseTab, Held, OfTab, Carried
  <2> QED BY <2>1, <2>2 DEF Visit, Save, Load, Begins, Eval, SetState, memory
<1>7. MapsGo /\ (pool' = pool \/ New(pool'))
  <2>1. CASE Eval(c, t) /\ pool = None
    <3>1. maps' = Append(maps, None) /\ pool' = Len(maps) + 1 /\ Fresh(None)
      BY <2>1 DEF Eval, Fresh
    <3> QED BY <3>1, MapAdded DEF RInv
  <2>2. CASE UNCHANGED <<pool, maps>>
    BY <2>2, SameMaps DEF RInv
  <2> QED BY <2>1, <2>2 DEF Visit, Save, Load, Begins, Eval, CloseTab, SetState, memory
<1>8. MapsAreMaps' /\ (SessionsFresh => SessionsFresh') /\ (PoolFresh => PoolFresh')
  BY <1>2, <1>6, <1>7, StillFresh
<1> QED BY <1>1, <1>2, <1>4, <1>8, JarSame DEF RInv

LEMMA ScriptsFresh ==
  ASSUME RInv, NEW c \in Clients, ScriptStores(c) \/ \E n \in Names : ScriptSetsCookie(c, n)
  PROVE  RInv'
<1>1. IInv' /\ UNCHANGED <<op, counts, pool, tabs, missed>>
  BY ScriptsAndResetKeep DEF RInv, ScriptStores, ScriptSetsCookie, history
<1>2. (TabsPending => TabsPending') /\ (PoolPending => PoolPending')
  BY <1>1 DEF TabsPending, PoolPending
<1>3. \A m : Held(m)' => Held(m) \/ New(m)
  BY <1>1 DEF Held, OfTab, Carried
<1>4. CASE ScriptStores(c)
  <2> DEFINE x == Item
  <2>1. Fresh(x)
    BY DEF Item, Fresh
  <2>2. UNCHANGED jar /\ \E i : maps' = [maps EXCEPT ![i] = x]
    BY <1>4 DEF ScriptStores
  <2> HIDE DEF x
  <2>3. MapsGo
    BY <2>1, <2>2, MapWritten DEF RInv
  <2>4. MapsAreMaps' /\ (SessionsFresh => SessionsFresh') /\ (PoolFresh => PoolFresh')
    BY <1>1, <1>3, <2>3, StillFresh
  <2> QED BY <1>1, <1>2, <2>2, <2>4, JarSame DEF RInv
<1>5. CASE \E n \in Names : ScriptSetsCookie(c, n)
  <2>1. UNCHANGED maps /\ \E n, k : jar' = [jar EXCEPT ![n] = Cookie(k, c)]
    BY <1>5 DEF ScriptSetsCookie
  <2>2. JarFresh'
    BY <1>1, <2>1, JarWritten
  <2>3. MapsAreMaps' /\ (SessionsFresh => SessionsFresh') /\ (PoolFresh => PoolFresh')
    BY <1>1, <1>3, <2>1, SameMaps, StillFresh DEF RInv
  <2> QED BY <1>1, <1>2, <2>2, <2>3 DEF RInv
<1> QED BY <1>4, <1>5

LEMMA ResetFresh ==
  ASSUME RInv, NEW c \in Clients, ResetJar(c)
  PROVE  RInv'
<1> DEFINE o == [step |-> "reset_tabs", began |-> counts.resets + 1]
           x == counts.resets + 1
<1>1. IInv' /\ UNCHANGED <<pool, maps, tabs>> /\ c \in Handlers
  BY ScriptsAndResetKeep DEF RInv, ResetJar, Handlers
<1>2. op'[c] = o /\ \A d \in Handlers : d # c => op'[d] = op[d]
  BY <1>1 DEF ResetJar, RInv, IInv, OpsFit
<1>3. counts'.resets = x /\ "resets" \in DOMAIN counts'
  BY DEF ResetJar, RInv
<1>4. TabsPending' /\ PoolPending'
  BY <1>2, <1>3 DEF TabsPending, PoolPending
<1>5. JarFresh'
  BY DEF ResetJar, JarFresh, Fresh
<1>6. \A m : Held(m)' => Held(m)
  BY <1>1, <1>2 DEF Held, OfTab, Carried
<1> QED BY <1>1, <1>3, <1>4, <1>5, <1>6 DEF RInv, MapsAreMaps

LEMMA ProcessFresh ==
  ASSUME RInv, Boot \/ Listens \/ Stop \/ Exit \/ Crash
  PROVE  RInv'
<1>1. IInv'
  BY ProcessKeeps DEF RInv
<1>2. CASE Boot \/ Listens \/ Stop
  <2>1. UNCHANGED <<jar, pool, maps, tabs, counts, missed>> /\ Main \in Handlers /\ Main \notin Clients
    BY <1>2, ClientsOK DEF Boot, Listens, Stop, memory, history, Handlers
  <2>2. op' = [op EXCEPT ![Main] = op'[Main]] /\ (op'[Main].step = "store" => op'[Main] = op[Main])
    BY <1>2, <2>1 DEF Boot, Listens, Stop, RInv, IInv, OpsFit
  <2>3. (TabsPending => TabsPending') /\ (PoolPending => PoolPending')
    BY <2>1, <2>2, PendingStays DEF RInv
  <2>4. \A d \in Handlers : op'[d].step = "store" => op'[d] = op[d]
    BY <2>1, <2>2 DEF RInv, IInv, OpsFit
  <2>5. \A m : Held(m)' => Held(m) \/ New(m)
    BY <2>1, <2>4 DEF Held, OfTab, Carried
  <2>6. MapsAreMaps' /\ (SessionsFresh => SessionsFresh') /\ (PoolFresh => PoolFresh')
    BY <2>1, <2>5, SameMaps, StillFresh DEF RInv
  <2> QED BY <1>1, <2>1, <2>3, <2>6, JarSame DEF RInv
<1>3. CASE Exit \/ Crash
  <2>1. Forgets /\ "resets" \in DOMAIN counts'
    BY <1>3 DEF Exit, Crash, RInv
  <2>2. \A m : ~Held(m)'
    BY <2>1 DEF Forgets, Held, OfTab, Carried, Idle
  <2>3. JarFresh' /\ SessionsFresh' /\ PoolFresh'
    BY <2>1, <2>2 DEF Forgets, JarFresh, SessionsFresh, PoolFresh, Fresh
  <2>4. MapsAreMaps'
    <3>1. maps' \in Seq({}) /\ pool' = None
      BY <2>1 DEF Forgets
    <3> QED BY <2>2, <3>1 DEF MapsAreMaps
  <2> QED BY <1>1, <2>1, <2>3, <2>4 DEF RInv
<1> QED BY <1>2, <1>3

LEMMA RInductive == ASSUME RInv, [Next]_vars PROVE RInv'
<1>1. CASE UNCHANGED vars
  <2>1. IInv'
    BY Inductive DEF RInv
  <2>2. UNCHANGED <<jar, pool, maps, tabs, counts, op, missed>>
    BY <1>1 DEF vars, memory, history
  <2>3. (TabsPending => TabsPending') /\ (PoolPending => PoolPending')
    BY <2>2 DEF TabsPending, PoolPending
  <2>4. \A m : Held(m)' => Held(m) \/ New(m)
    BY <2>2 DEF Held, OfTab, Carried
  <2>5. MapsAreMaps' /\ (SessionsFresh => SessionsFresh') /\ (PoolFresh => PoolFresh')
    BY <2>2, <2>4, SameMaps, StillFresh DEF RInv
  <2> QED BY <2>1, <2>2, <2>3, <2>5, JarSame DEF RInv
<1>2. CASE Next
  BY <1>2, RunsFresh, VerbsFresh, ScriptsFresh, ResetFresh, ProcessFresh DEF Next
<1> QED BY <1>1, <1>2

\* Whatever else runs, once no reset is under way nothing is left in the jar, in the
\* pool and in the tabs that was written before the last one began, but in a map that
\* no tab had when the reset went through them.
THEOREM ResetAlwaysForgets == Spec => []ResetForgets
<1>1. RInv => ResetForgets
  <2> SUFFICES ASSUME RInv, ~Resetting PROVE ResetForgets
    BY DEF ResetForgets
  <2>1. ~TabsPending /\ ~PoolPending
    BY DEF Resetting, TabsPending, PoolPending
  <2>2. \A m \in TabMaps \ {None} : Held(m)
    BY DEF TabMaps, Held, OfTab
  <2> QED BY <2>1, <2>2 DEF RInv, ResetForgets, JarFresh, SessionsFresh, PoolFresh
<1> QED BY InitRInv, RInductive, <1>1, PTL DEF Spec
-----------------------------------------------------------------------------
(* Types.                                                                   *)

TabSteps == {"head", "compute", "store"} \union SaveSteps \union LoadSteps

\* The handlers that work for a tab, and those there are when the process is not.
HasTab(o) == o.step \in TabSteps => "tab" \in DOMAIN o /\ o.tab \in TabIds

TInv ==
  /\ up \in {"off", "booting", "up", "stopping"} /\ "resets" \in DOMAIN counts /\ counts.resets \in Nat
  /\ DOMAIN tabs \subseteq TabIds
  /\ \A c \in Handlers : HasTab(op[c])
  /\ up = "off" => \A c \in Handlers : op[c].step = "idle"

LEMMA InitTInv == Init => TInv
<1> SUFFICES ASSUME Init PROVE TInv
  OBVIOUS
<1>1. up = "off" /\ DOMAIN tabs = {} /\ counts.resets = 0 /\ "resets" \in DOMAIN counts
  BY DEF Init
<1>2. \A c \in Handlers : op[c].step = "idle"
  BY DEF Init, Idle
<1> QED
  BY <1>1, <1>2 DEF TInv, HasTab, TabSteps, SaveSteps, LoadSteps

\* A record that goes on in its tab, and one that ends.
LEMMA TabGoesOn ==
  ASSUME OpsFit, NEW c \in Handlers, HasTab(op[c]), op[c].step \in TabSteps, Runs(c)
  PROVE  HasTab(op'[c])
<1> DEFINE o == op[c]
<1>1. o.tab \in TabIds /\ {"tab", "step"} \subseteq DOMAIN o /\ op = [d \in Handlers |-> op[d]]
  BY DEF HasTab, OpsFit, Fits
<1>2. ASSUME NEW x, op' = [op EXCEPT ![c] = x], "tab" \in DOMAIN x, x.tab = o.tab PROVE HasTab(op'[c])
  BY <1>1, <1>2 DEF HasTab
<1>3. ASSUME NEW s, Goes(c, s) PROVE HasTab(op'[c])
  <2> DEFINE x == [o EXCEPT !.step = s]
  <2>1. op' = [op EXCEPT ![c] = x]
    BY <1>3 DEF Goes
  <2>2. "tab" \in DOMAIN x /\ x.tab = o.tab
    <3> HIDE DEF o
    <3> QED
      BY <1>1
  <2> HIDE DEF x
  <2> QED
    BY <1>2, <2>1, <2>2
<1>4. ASSUME Ends(c) PROVE HasTab(op'[c])
  <2>1. op'[c] = Idle
    BY <1>1, <1>4 DEF Ends
  <2> QED
    BY <2>1 DEF HasTab, Idle, TabSteps, SaveSteps, LoadSteps
<1>5. ASSUME NEW s, NEW a, op' = [op EXCEPT ![c].step = s, ![c].art = a] PROVE HasTab(op'[c])
  <2> DEFINE x == [o EXCEPT !.step = s, !.art = a]
  <2>1. op' = [op EXCEPT ![c] = x]
    BY <1>1, <1>5
  <2>2. "tab" \in DOMAIN x /\ x.tab = o.tab
    <3> HIDE DEF o
    <3> QED
      BY <1>1
  <2> HIDE DEF x
  <2> QED
    BY <1>2, <2>1, <2>2
<1>6. CASE CopyPool(c)
  <2> DEFINE b == op[c].tab \in DOMAIN tabs /\ PoolHolds
  <2> HIDE DEF b
  <2> DEFINE x == [o EXCEPT !.step = "open", !.art.storage = b]
  <2>1. op' = [op EXCEPT ![c].step = "open", ![c].art.storage = b]
    BY <1>6 DEF CopyPool, b
  <2>2. op' = [op EXCEPT ![c] = x]
    BY <1>1, <2>1
  <2>3. "tab" \in DOMAIN x /\ x.tab = o.tab
    <3> HIDE DEF o
    <3> QED
      BY <1>1
  <2> HIDE DEF x
  <2> QED
    BY <1>2, <2>2, <2>3
<1>7. CASE OpenTmp(c)
  <2> DEFINE x == [o EXCEPT !.step = "write", !.fd = tmp']
  <2>1. op' = [op EXCEPT ![c] = x]
    BY <1>1, <1>7 DEF OpenTmp, Opens
  <2>2. "tab" \in DOMAIN x /\ x.tab = o.tab
    <3> HIDE DEF o
    <3> QED
      BY <1>1
  <2> HIDE DEF x
  <2> QED
    BY <1>2, <2>1, <2>2
<1>8. CASE InsertCookie(c)
  <2>1. ASSUME NEW w, op' = [op EXCEPT ![c].art.cookies = @ \ {w}] PROVE HasTab(op'[c])
    <3> DEFINE x == [o EXCEPT !.art.cookies = @ \ {w}]
    <3>1. op' = [op EXCEPT ![c] = x]
      BY <1>1, <2>1
    <3>2. "tab" \in DOMAIN x /\ x.tab = o.tab
      <4> HIDE DEF o
      <4> QED
        BY <1>1
    <3> HIDE DEF x
    <3> QED
      BY <1>2, <3>1, <3>2
  <2> QED
    BY <1>3, <1>8, <2>1 DEF InsertCookie
<1>9. ~ ResetTabs(c) /\ ~ ResetPool(c) /\ ~ ScriptEnds(c)
  BY DEF ResetTabs, ResetPool, ScriptEnds, At, TabSteps, SaveSteps, LoadSteps
<1>10. CASE (\E n \in Names : CookiesLand(c, n)) \/ TabStored(c)
            \/ WriteTmp(c) \/ Rename(c) \/ RestoreTab(c) \/ RestoreOrigins(c)
  BY <1>3, <1>4, <1>10 DEF CookiesLand, TabStored, WriteTmp, Rename, RestoreTab, RestoreOrigins
<1>11. CASE CopyJar(c) \/ ReadFile(c)
  BY <1>4, <1>5, <1>11 DEF CopyJar, ReadFile
<1>12. CASE TabComputed(c)
  <2>1. PICK m : op' = [op EXCEPT ![c] = [step |-> "store", tab |-> o.tab, session |-> m]]
    BY <1>12 DEF TabComputed
  <2> DEFINE x == [step |-> "store", tab |-> o.tab, session |-> m]
  <2>2. op' = [op EXCEPT ![c] = x] /\ "tab" \in DOMAIN x /\ x.tab = o.tab
    BY <2>1
  <2> HIDE DEF x, o
  <2> QED
    BY <1>2, <2>2
<1> QED
  BY <1>6, <1>7, <1>8, <1>9, <1>10, <1>11, <1>12 DEF Runs

LEMMA RunsTyped == ASSUME IInv, TInv, NEW c \in Handlers, Runs(c) PROVE TInv'
<1>1. /\ op' = [op EXCEPT ![c] = op'[c]] /\ op[c].step # "idle" /\ UNCHANGED up
      /\ \A d \in Handlers : d # c => op'[d] = op[d]
  BY RunsShape DEF IInv, OpsFit
<1>2. up # "off"
  BY <1>1 DEF TInv
<1>3. HasTab(op'[c])
  <2>1. CASE op[c].step \in TabSteps
    BY <2>1, TabGoesOn DEF IInv, TInv
  <2>2. CASE op[c].step \notin TabSteps
    <3>1. ResetTabs(c) \/ ResetPool(c) \/ ScriptEnds(c)
      BY <2>2 DEF Runs, CookiesLand, TabComputed, TabStored, CopyJar, CopyPool, OpenTmp, WriteTmp, Rename,
                  ReadFile, InsertCookie, RestoreTab, RestoreOrigins, At, TabSteps, SaveSteps, LoadSteps
    <3>2. op = [d \in Handlers |-> op[d]] /\ "step" \in DOMAIN op[c]
      BY DEF IInv, OpsFit, Fits
    <3>3. op'[c].step \in {"reset_pool", "idle"}
      BY <3>1, <3>2 DEF ResetTabs, ResetPool, ScriptEnds, Goes, Ends, Idle
    <3> QED
      BY <3>3 DEF HasTab, TabSteps, SaveSteps, LoadSteps
  <2> QED
    BY <2>1, <2>2
<1>4. DOMAIN tabs' \subseteq TabIds
  <2>1. CASE TabStored(c) \/ RestoreTab(c)
    <3>1. op[c].step \in TabSteps /\ (tabs' = tabs \/ \E m : tabs' = Insert(tabs, op[c].tab, m))
      BY <2>1 DEF TabStored, RestoreTab, At, TabSteps, SaveSteps, LoadSteps
    <3>2. op[c].tab \in TabIds /\ DOMAIN tabs \subseteq TabIds
      BY <3>1 DEF TInv, HasTab
    <3> QED
      BY <3>1, <3>2 DEF Insert
  <2>2. CASE ~ TabStored(c) /\ ~ RestoreTab(c)
    <3>1. tabs' = tabs
      BY <2>2 DEF Runs, CookiesLand, TabComputed, ScriptEnds, ResetTabs, ResetPool, CopyJar, CopyPool, OpenTmp, WriteTmp,
                  Rename, ReadFile, InsertCookie, RestoreOrigins, memory
    <3> QED
      BY <3>1 DEF TInv
  <2> QED
    BY <2>1, <2>2
<1>5. counts' = counts
  BY DEF Runs, CookiesLand, TabComputed, TabStored, ScriptEnds, ResetTabs, ResetPool, CopyJar, CopyPool,
         OpenTmp, WriteTmp, Rename, ReadFile, InsertCookie, RestoreTab, RestoreOrigins
<1> QED
  BY <1>1, <1>2, <1>3, <1>4, <1>5 DEF TInv

\* A verb that begins, for a tab or to reset.
LEMMA VerbsTyped ==
  ASSUME IInv, TInv, NEW c \in Clients,
         \/ ResetJar(c)
         \/ \E t \in TabIds : \/ Visit(c, t) \/ Eval(c, t) \/ Save(c, t) \/ Load(c, t)
                              \/ \E art \in Artifacts : SetState(c, t, art)
  PROVE  TInv'
<1>1. c \in Handlers /\ op = [d \in Handlers |-> op[d]] /\ counts.resets \in Nat
  BY DEF IInv, OpsFit, Handlers, TInv
<1>2. up = "up" /\ up' = "up"
  BY DEF ResetJar, Visit, Save, Load, Begins, Eval, SetState
<1>3. DOMAIN tabs' \subseteq TabIds
  BY DEF ResetJar, Visit, Save, Load, Begins, Eval, SetState, TInv, memory
<1>4. counts'.resets \in Nat /\ "resets" \in DOMAIN counts'
  <2>1. counts'.resets \in {counts.resets, counts.resets + 1} /\ "resets" \in DOMAIN counts'
    BY DEF ResetJar, Visit, Save, Load, Begins, Eval, SetState, TInv
  <2> QED
    BY <1>1, <2>1
<1>5. ASSUME NEW o, op' = [op EXCEPT ![c] = o], HasTab(o) PROVE \A d \in Handlers : HasTab(op'[d])
  <2>1. \A d \in Handlers : op'[d] = IF d = c THEN o ELSE op[d]
    BY <1>1, <1>5
  <2> QED
    BY <1>5, <2>1 DEF TInv
<1>6. \A d \in Handlers : HasTab(op'[d])
  <2>1. CASE ResetJar(c)
    <3> DEFINE o == [step |-> "reset_tabs", began |-> counts.resets + 1]
    <3>1. HasTab(o) /\ op' = [op EXCEPT ![c] = o]
      BY <2>1 DEF ResetJar, HasTab, TabSteps, SaveSteps, LoadSteps
    <3> HIDE DEF o
    <3> QED
      BY <1>5, <3>1
  <2>2. ASSUME NEW t \in TabIds, NEW s, Begins(c, s, t) PROVE \A d \in Handlers : HasTab(op'[d])
    <3> DEFINE o == [step |-> s, tab |-> t, began |-> counts.resets, art |-> None, fd |-> None]
    <3>1. HasTab(o) /\ op' = [op EXCEPT ![c] = o]
      BY <2>2 DEF Begins, HasTab
    <3> HIDE DEF o
    <3> QED
      BY <1>5, <3>1
  <2>3. ASSUME NEW t \in TabIds, Eval(c, t) PROVE \A d \in Handlers : HasTab(op'[d])
    <3> DEFINE o == [step |-> "script", began |-> counts.resets, map |-> pool', session |-> tabs[t]]
    <3>1. HasTab(o) /\ op' = [op EXCEPT ![c] = o]
      BY <2>3 DEF Eval, HasTab, TabSteps, SaveSteps, LoadSteps
    <3> HIDE DEF o
    <3> QED
      BY <1>5, <3>1
  <2>4. ASSUME NEW t \in TabIds, NEW art \in Artifacts, SetState(c, t, art)
        PROVE  \A d \in Handlers : HasTab(op'[d])
    <3> DEFINE o == [step |-> "insert", tab |-> t, began |-> counts.resets, art |-> art]
    <3>1. HasTab(o) /\ op' = [op EXCEPT ![c] = o]
      BY <2>4 DEF SetState, HasTab
    <3> HIDE DEF o
    <3> QED
      BY <1>5, <3>1
  <2> QED
    BY <2>1, <2>2, <2>3, <2>4 DEF Visit, Save, Load
<1> QED
  BY <1>2, <1>3, <1>4, <1>6 DEF TInv

\* What leaves the handlers alone.
LEMMA TabsTyped ==
  ASSUME TInv, UNCHANGED << up, op, counts >>, DOMAIN tabs' \subseteq DOMAIN tabs
  PROVE  TInv'
BY DEF TInv, HasTab

LEMMA ProcessTyped == ASSUME IInv, TInv, Boot \/ Listens \/ Stop \/ Exit \/ Crash PROVE TInv'
<1>1. Main \in Handlers /\ op = [d \in Handlers |-> op[d]]
  BY DEF IInv, OpsFit, Handlers
<1>2. CASE Boot \/ Stop
  <2>1. PICK s : op' = [op EXCEPT ![Main] = [step |-> s, tab |-> DefaultTab, began |-> counts.resets,
                                              art |-> None, fd |-> None]]
    BY <1>2 DEF Boot, Stop
  <2> DEFINE o == [step |-> s, tab |-> DefaultTab, began |-> counts.resets, art |-> None, fd |-> None]
  <2>2. HasTab(o)
    BY DefaultTabOK DEF HasTab
  <2>3. op' = [op EXCEPT ![Main] = o]
    BY <2>1
  <2> HIDE DEF o
  <2>4. \A d \in Handlers : op'[d] = IF d = Main THEN o ELSE op[d]
    BY <1>1, <2>3
  <2>5. up' \in {"booting", "stopping"} /\ UNCHANGED << tabs, counts >>
    BY <1>2 DEF Boot, Stop, memory
  <2> QED
    BY <2>2, <2>4, <2>5 DEF TInv
<1>3. CASE Listens
  <2>1. up' = "up" /\ UNCHANGED << tabs, counts, op >>
    BY <1>3 DEF Listens, memory
  <2> QED
    BY <2>1 DEF TInv, HasTab
<1>4. CASE Exit \/ Crash
  <2>1. up' = "off" /\ DOMAIN tabs' = {} /\ \A c \in Handlers : op'[c].step = "idle"
    BY <1>4 DEF Exit, Crash, Forgets, Idle
  <2>2. counts'.resets = counts.resets /\ "resets" \in DOMAIN counts'
    BY <1>4 DEF Exit, Crash, TInv
  <2> QED
    BY <2>1, <2>2 DEF TInv, HasTab, TabSteps, SaveSteps, LoadSteps
<1> QED
  BY <1>2, <1>3, <1>4

LEMMA TInductive == ASSUME IInv, TInv, [Next]_vars PROVE TInv'
<1>1. CASE UNCHANGED vars
  BY <1>1, TabsTyped DEF vars, memory
<1>2. ASSUME NEW c \in Clients, NEW t \in TabIds, CloseTab(c, t) PROVE TInv'
  <2>1. UNCHANGED << up, op >> /\ DOMAIN tabs' \subseteq DOMAIN tabs
    BY <1>2 DEF CloseTab
  <2>2. counts'.resets = counts.resets /\ "resets" \in DOMAIN counts'
    BY <1>2 DEF CloseTab, TInv
  <2> QED
    BY <2>1, <2>2 DEF TInv, HasTab
<1>3. ASSUME NEW c \in Clients, ScriptStores(c) \/ \E n \in Names : ScriptSetsCookie(c, n) PROVE TInv'
  <2>1. UNCHANGED << up, op, counts >> /\ DOMAIN tabs' \subseteq DOMAIN tabs
    BY <1>3 DEF ScriptStores, ScriptSetsCookie
  <2> QED
    BY <2>1, TabsTyped
<1>4. CASE Next
  BY <1>2, <1>3, <1>4, RunsTyped, VerbsTyped, ProcessTyped DEF Next
<1> QED
  BY <1>1, <1>4

\* A handler that loads, saves or restores works for a tab there may be, the pool has
\* a map that was made, and a process that is off runs nothing (TypeOK), through
\* every crash and boot.
THEOREM TypeCorrect == Spec => []TypeOK
<1>1. RInv /\ TInv => TypeOK
  <2> SUFFICES ASSUME RInv, TInv PROVE TypeOK
    OBVIOUS
  <2>1. \A n \in Names : jar[n] # None => jar[n].name = n /\ jar[n].at <= counts.resets
    BY DEF RInv, IInv, JarScoped, JarFresh, Fresh, TInv
  <2>2. (pool = None \/ pool \in 1..Len(maps)) /\ TabMaps \subseteq (DOMAIN maps) \union {None}
    <3>1. DOMAIN maps = 1..Len(maps)
      BY LenProperties DEF RInv, MapsAreMaps
    <3> QED
      BY <3>1 DEF RInv, MapsAreMaps, Held, OfTab, TabMaps
  <2> QED
    BY <2>1, <2>2 DEF TInv, TypeOK, At
<1>2. RInv => IInv
  BY DEF RInv
<1> QED
  BY InitRInv, RInductive, InitTInv, TInductive, <1>1, <1>2, PTL DEF Spec
=============================================================================
