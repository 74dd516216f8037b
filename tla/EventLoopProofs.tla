-------------------------- MODULE EventLoopProofs --------------------------
(***************************************************************************)
(* Proofs about EventLoop, for every page, any number of observers,        *)
(* elements, calls and timers and any budget: types, that a cleared timer  *)
(* stays cleared, that what the bridge promised is still queued, and that  *)
(* a mutation record is in one place only.                                 *)
(*                                                                         *)
(* None of the three properties is inductive alone. A cleared timer stays  *)
(* cleared because ids are given out once and the page knows only those it *)
(* was handed (IdsSound); a promise is kept because its timer is among     *)
(* those still to fire wherever the pump stands (Promised), and because    *)
(* the page cannot clear it (IdsSound again); a record is in one place     *)
(* because the queue, the groups and the record's fate agree both ways     *)
(* (RecordsSound, GroupsSound).                                            *)
(*                                                                         *)
(* They rest on what the selections of the model do: InOrder lists a set   *)
(* of places in order, Pick, Only and Without keep what they should, each  *)
(* element once, and GroupedBy puts every element in exactly one group.    *)
(***************************************************************************)
EXTENDS EventLoop, TLAPS, FiniteSetTheorems, FunctionTheorems, SequenceTheorems,
        WellFoundedInduction

---------------------------------------------------------------------------
(* Places in order.                                                         *)

\* A set of numbers that is not empty has a least one.
LEMMA LeastNumber ==
  ASSUME NEW T, T \subseteq Nat, T # {}
  PROVE  \E n \in T : \A m \in T : n <= m
<1> DEFINE R == OpToRel(<, Nat)
<1>1. \E n \in T : \A m \in T : <<m, n>> \notin R
  BY NatLessThanWellFounded, WFMin
<1>2. \A n, m \in Nat : <<m, n>> \in R <=> m < n
  BY DEF OpToRel
<1> HIDE DEF R
<1>3. PICK n \in T : \A m \in T : <<m, n>> \notin R
  BY <1>1
<1>4. \A m \in T : m \in Nat /\ n \in Nat /\ ~ (m < n)
  BY <1>2, <1>3
<1> QED
  BY <1>4

\* How many places of P are before i.
Before(P, i) == {j \in P : j < i}

LEMMA BeforeCounts ==
  ASSUME NEW n \in Nat, NEW P \in SUBSET (1..n)
  PROVE  /\ IsFiniteSet(P) /\ Cardinality(P) \in Nat
         /\ \A i \in P : Cardinality(Before(P, i)) \in 0..(Cardinality(P) - 1)
         /\ \A i, j \in P : i < j => Cardinality(Before(P, i)) < Cardinality(Before(P, j))
<1>1. IsFiniteSet(P) /\ Cardinality(P) \in Nat
  <2>1. IsFiniteSet(1..n)
    BY FS_Interval
  <2> QED
    BY <2>1, FS_Subset, FS_CardinalityType
<1>5. \A i \in P : i \in Nat
  OBVIOUS
<1>2. \A T \in SUBSET P : /\ IsFiniteSet(T) /\ Cardinality(T) \in Nat
                          /\ Cardinality(T) <= Cardinality(P)
                          /\ T # P => Cardinality(T) # Cardinality(P)
  BY <1>1, FS_Subset, FS_CardinalityType
<1>3. ASSUME NEW i \in P
      PROVE  Cardinality(Before(P, i)) \in 0..(Cardinality(P) - 1)
  <2>1. Before(P, i) \in SUBSET P /\ i \notin Before(P, i)
    BY DEF Before
  <2>2. Before(P, i) # P
    BY <2>1
  <2> HIDE DEF Before
  <2> QED
    BY <1>1, <1>2, <2>1, <2>2
<1>4. ASSUME NEW i \in P, NEW j \in P, i < j
      PROVE  Cardinality(Before(P, i)) < Cardinality(Before(P, j))
  <2>1. Before(P, j) \in SUBSET P
    BY DEF Before
  <2>2. Before(P, i) \in SUBSET Before(P, j)
    <3>1. \A k \in P : k < i => k < j
      BY <1>4, <1>5
    <3> QED
      BY <3>1 DEF Before
  <2>3. i \in Before(P, j) /\ i \notin Before(P, i)
    <3>1. i \in Nat /\ ~ (i < i)
      BY <1>5
    <3> QED
      BY <1>4, <3>1 DEF Before
  <2>4. /\ IsFiniteSet(Before(P, j)) /\ Cardinality(Before(P, j)) \in Nat
        /\ Cardinality(Before(P, i)) \in Nat
    BY <1>2, <2>1, <2>2
  <2>5. /\ Cardinality(Before(P, i)) <= Cardinality(Before(P, j))
        /\ Cardinality(Before(P, i)) # Cardinality(Before(P, j))
    BY <2>2, <2>3, <2>4, FS_Subset
  <2> QED
    BY <2>4, <2>5
<1> QED
  BY <1>1, <1>3, <1>4

\* InOrder lists every place once, in increasing order.
LEMMA InOrderLists ==
  ASSUME NEW n \in Nat, NEW P \in SUBSET (1..n)
  PROVE  /\ Cardinality(P) \in Nat
         /\ InOrder(P) \in [1..Cardinality(P) -> P]
         /\ \A i \in P : \E k \in 1..Cardinality(P) : InOrder(P)[k] = i
         /\ \A k, l \in 1..Cardinality(P) : k < l => InOrder(P)[k] < InOrder(P)[l]
<1> DEFINE N == Cardinality(P)
           rank(i) == Cardinality(Before(P, i))
           f == [i \in P |-> rank(i) + 1]
<1>1. /\ IsFiniteSet(P) /\ N \in Nat
      /\ \A i \in P : i \in Nat /\ rank(i) \in 0..(N - 1)
      /\ \A i, j \in P : i < j => rank(i) < rank(j)
  BY BeforeCounts
<1>2. InOrder(P) = [k \in 1..N |-> CHOOSE i \in P : rank(i) = k - 1]
  BY DEF InOrder, Before
<1> HIDE DEF N, rank
<1>3. \A i, j \in P : rank(i) = rank(j) => i = j
  BY <1>1
<1>4. f \in Injection(P, 1..N)
  <2>1. f \in [P -> 1..N]
    BY <1>1
  <2>2. \A i, j \in P : f[i] = f[j] => i = j
    BY <1>1, <1>3
  <2> HIDE DEF f
  <2> QED
    BY <2>1, <2>2, Fun_IsInj
<1>5. IsFiniteSet(1..N) /\ Cardinality(1..N) = N
  BY <1>1, FS_Interval
<1>6. f \in Surjection(P, 1..N)
  <2> HIDE DEF f
  <2>1. Cardinality(P) = Cardinality(1..N)
    BY <1>5 DEF N
  <2> QED
    BY <1>4, <1>5, <2>1, FS_Injection
<1>7. \A k \in 1..N : \E i \in P : f[i] = k
  <2> HIDE DEF f
  <2> QED
    BY <1>6, Fun_SurjectionProperties
<1>8. \A k \in 1..N : \E i \in P : rank(i) = k - 1
  <2>1. \A i \in P : f[i] = rank(i) + 1
    OBVIOUS
  <2> HIDE DEF f
  <2> QED
    <3> SUFFICES ASSUME NEW k \in 1..N PROVE \E i \in P : rank(i) = k - 1
      OBVIOUS
    <3>1. PICK i \in P : f[i] = k
      BY <1>7
    <3>2. rank(i) \in Int /\ rank(i) + 1 = k
      BY <1>1, <2>1, <3>1
    <3> QED
      BY <3>2
<1>9. \A k \in 1..N : InOrder(P)[k] \in P /\ rank(InOrder(P)[k]) = k - 1
  BY <1>2, <1>8
<1>10. \A i \in P : rank(i) + 1 \in 1..N /\ InOrder(P)[rank(i) + 1] = i
  <2> SUFFICES ASSUME NEW i \in P
               PROVE  rank(i) + 1 \in 1..N /\ InOrder(P)[rank(i) + 1] = i
    OBVIOUS
  <2>1. rank(i) + 1 \in 1..N
    BY <1>1
  <2>2. /\ InOrder(P)[rank(i) + 1] \in P
        /\ rank(InOrder(P)[rank(i) + 1]) = rank(i)
    BY <1>1, <1>9, <2>1
  <2> QED
    BY <1>3, <2>1, <2>2
<1>11. \A k, l \in 1..N : k < l => InOrder(P)[k] < InOrder(P)[l]
  <2> SUFFICES ASSUME NEW k \in 1..N, NEW l \in 1..N, k < l,
                      ~ (InOrder(P)[k] < InOrder(P)[l])
               PROVE  FALSE
    OBVIOUS
  <2>1. /\ InOrder(P)[k] \in P /\ InOrder(P)[l] \in P
        /\ rank(InOrder(P)[k]) = k - 1 /\ rank(InOrder(P)[l]) = l - 1
    BY <1>9
  <2>3. InOrder(P)[k] \in Nat /\ InOrder(P)[l] \in Nat
    BY <1>1, <2>1
  <2>2. \/ InOrder(P)[k] = InOrder(P)[l]
        \/ InOrder(P)[l] < InOrder(P)[k]
    BY <2>3
  <2>4. rank(InOrder(P)[l]) <= rank(InOrder(P)[k])
    <3>1. CASE InOrder(P)[k] = InOrder(P)[l]
      BY <1>1, <2>1, <3>1
    <3>2. CASE InOrder(P)[l] < InOrder(P)[k]
      <4>1. rank(InOrder(P)[l]) < rank(InOrder(P)[k])
        BY <1>1, <2>1, <3>2
      <4> QED
        BY <1>1, <2>1, <4>1
    <3> QED
      BY <2>2, <3>1, <3>2
  <2> QED
    BY <1>1, <2>1, <2>4
<1>12. InOrder(P) \in [1..N -> P]
  BY <1>2, <1>9
<1> QED
  BY <1>1, <1>10, <1>11, <1>12 DEF N

\* What Pick takes out of a sequence: what is at the places, each once.
LEMMA PickTakes ==
  ASSUME NEW S, NEW s \in Seq(S), NEW P \in SUBSET (DOMAIN s)
  PROVE  /\ Pick(s, P) \in Seq(S)
         /\ ToSet(Pick(s, P)) = {s[i] : i \in P}
         /\ \A k, l \in DOMAIN Pick(s, P) :
              \E i, j \in P : /\ Pick(s, P)[k] = s[i] /\ Pick(s, P)[l] = s[j]
                              /\ k # l => i # j
<1>1. DOMAIN s = 1..Len(s) /\ Len(s) \in Nat
  OBVIOUS
<1> DEFINE N == Cardinality(P)  e == InOrder(P)
<1>2. /\ N \in Nat /\ e \in [1..N -> P]
      /\ \A i \in P : \E k \in 1..N : e[k] = i
      /\ \A k, l \in 1..N : k < l => e[k] < e[l]
  BY <1>1, InOrderLists
<1>3. Pick(s, P) = [k \in 1..N |-> s[e[k]]]
  BY <1>2 DEF Pick
<1> HIDE DEF N, e
<1>4. \A k \in 1..N : e[k] \in P /\ e[k] \in Nat /\ s[e[k]] \in S
  BY <1>1, <1>2
<1>5. Pick(s, P) \in Seq(S)
  BY <1>2, <1>3, <1>4
<1>6. \A k, l \in 1..N : k # l => e[k] # e[l]
  <2> SUFFICES ASSUME NEW k \in 1..N, NEW l \in 1..N, k # l PROVE e[k] # e[l]
    OBVIOUS
  <2>1. k < l \/ l < k
    BY <1>2
  <2> QED
    BY <1>2, <1>4, <2>1
<1>7. DOMAIN Pick(s, P) = 1..N /\ \A k \in 1..N : Pick(s, P)[k] = s[e[k]]
  BY <1>3
<1>8. ToSet(Pick(s, P)) = {s[i] : i \in P}
  <2>1. \A x : x \in ToSet(Pick(s, P)) <=> \E k \in 1..N : x = s[e[k]]
    BY <1>7 DEF ToSet
  <2>2. \A x : (\E k \in 1..N : x = s[e[k]]) <=> (\E i \in P : x = s[i])
    BY <1>2, <1>4
  <2> QED
    BY <2>1, <2>2
<1> QED
  BY <1>4, <1>5, <1>6, <1>7, <1>8

LEMMA OnlyKeeps ==
  ASSUME NEW S, NEW s \in Seq(S), NEW those
  PROVE  /\ Only(s, those) \in Seq(S)
         /\ ToSet(Only(s, those)) = ToSet(s) \cap those
         /\ \A k, l \in DOMAIN Only(s, those) :
              \E i, j \in DOMAIN s : /\ Only(s, those)[k] = s[i] /\ Only(s, those)[l] = s[j]
                                     /\ k # l => i # j
<1> DEFINE P == {i \in DOMAIN s : s[i] \in those}
<1>1. Only(s, those) = Pick(s, P)
  BY DEF Only
<1>2. P \in SUBSET (DOMAIN s)
  OBVIOUS
<1>3. {s[i] : i \in P} = ToSet(s) \cap those
  BY DEF ToSet
<1> HIDE DEF P
<1> QED
  BY <1>1, <1>2, <1>3, PickTakes

LEMMA WithoutKeeps ==
  ASSUME NEW S, NEW s \in Seq(S), NEW gone
  PROVE  /\ Without(s, gone) \in Seq(S)
         /\ ToSet(Without(s, gone)) = ToSet(s) \ gone
         /\ \A k, l \in DOMAIN Without(s, gone) :
              \E i, j \in DOMAIN s : /\ Without(s, gone)[k] = s[i] /\ Without(s, gone)[l] = s[j]
                                     /\ k # l => i # j
<1> DEFINE those == ToSet(s) \ gone
<1>1. ToSet(s) \cap those = ToSet(s) \ gone
  OBVIOUS
<1>2. Without(s, gone) = Only(s, those)
  BY DEF Without
<1> HIDE DEF those
<1> QED
  BY <1>1, <1>2, OnlyKeeps

\* GroupedBy puts every element in one group.
LEMMA GroupedByPartitions ==
  ASSUME NEW S, NEW s \in Seq(S), NEW who
  PROVE  LET G == GroupedBy(s, who) IN
         /\ G \in Seq(Seq(S))
         /\ \A k \in DOMAIN G : G[k] # << >> /\ ToSet(G[k]) \subseteq ToSet(s)
         /\ \A i \in DOMAIN s : \E k \in DOMAIN G : s[i] \in ToSet(G[k])
         /\ \A k, l \in DOMAIN G : \A a \in DOMAIN G[k], b \in DOMAIN G[l] :
              k # l => \E i, j \in DOMAIN s : i # j /\ G[k][a] = s[i] /\ G[l][b] = s[j]
<1> DEFINE G == GroupedBy(s, who)
           F == {i \in DOMAIN s : \A j \in 1..(i - 1) : who[j] # who[i]}
           N == Cardinality(F)
           firsts == InOrder(F)
           Like(k) == {i \in DOMAIN s : who[i] = who[firsts[k]]}
<1>1. DOMAIN s = 1..Len(s) /\ Len(s) \in Nat
  OBVIOUS
<1>2. /\ N \in Nat /\ firsts \in [1..N -> F]
      /\ \A i \in F : \E k \in 1..N : firsts[k] = i
      /\ \A k, l \in 1..N : k < l => firsts[k] < firsts[l]
  <2>1. F \in SUBSET (1..Len(s))
    BY <1>1
  <2> HIDE DEF F
  <2> QED
    BY <1>1, <2>1, InOrderLists
<1>3. G = [k \in 1..N |-> Pick(s, Like(k))]
  BY <1>2 DEF GroupedBy
<1>4. \A i \in F : i \in 1..Len(s) /\ \A j \in 1..(i - 1) : who[j] # who[i]
  BY <1>1
<1>5. ASSUME NEW i \in 1..Len(s)
      PROVE  \E k \in 1..N : i \in Like(k)
  <2> DEFINE T == {j \in 1..Len(s) : who[j] = who[i]}
  <2>1. PICK j \in T : \A m \in T : j <= m
    <3>1. T \subseteq Nat /\ T # {}
      OBVIOUS
    <3> HIDE DEF T
    <3> QED
      BY <3>1, LeastNumber
  <2>2. \A m \in 1..(j - 1) : who[m] # who[j]
    BY <1>1, <2>1
  <2>3. j \in F
    BY <1>1, <2>2
  <2>4. PICK k \in 1..N : firsts[k] = j
    BY <1>2, <2>3
  <2> QED
    BY <1>1, <2>4
<1> HIDE DEF F, N, firsts
<1>6. \A k \in 1..N : Like(k) \in SUBSET (DOMAIN s) /\ firsts[k] \in Like(k)
  BY <1>1, <1>2, <1>4
<1>7. \A k, l \in 1..N : \A i \in Like(k), j \in Like(l) : k # l => i # j
  <2> SUFFICES ASSUME NEW k \in 1..N, NEW l \in 1..N, k < l,
                      who[firsts[k]] = who[firsts[l]]
               PROVE  FALSE
    BY <1>2
  <2>1. firsts[k] \in F /\ firsts[l] \in F /\ firsts[k] < firsts[l]
    BY <1>2
  <2>2. firsts[k] \in 1..(firsts[l] - 1)
    BY <1>4, <2>1
  <2> QED
    BY <1>4, <2>1, <2>2
<1> HIDE DEF Like
<1>8. \A k \in 1..N : /\ Pick(s, Like(k)) \in Seq(S)
                      /\ ToSet(Pick(s, Like(k))) = {s[i] : i \in Like(k)}
  BY <1>6, PickTakes
<1>9. DOMAIN G = 1..N /\ \A k \in 1..N : G[k] = Pick(s, Like(k))
  BY <1>3
<1>10. G \in Seq(Seq(S))
  BY <1>2, <1>3, <1>8
<1> HIDE DEF G
<1>11. ASSUME NEW k \in 1..N
       PROVE  /\ G[k] # << >> /\ ToSet(G[k]) \subseteq ToSet(s)
              /\ \A a \in DOMAIN G[k] : \E i \in Like(k) : G[k][a] = s[i]
  <2>1. ToSet(G[k]) = {s[i] : i \in Like(k)}
    BY <1>8, <1>9
  <2>2. \A a \in DOMAIN G[k] : G[k][a] \in ToSet(G[k])
    BY DEF ToSet
  <2>3. ToSet(G[k]) \subseteq ToSet(s)
    BY <1>6, <2>1 DEF ToSet
  <2>4. s[firsts[k]] \in ToSet(G[k])
    BY <1>6, <2>1
  <2>5. G[k] # << >>
    BY <2>4 DEF ToSet
  <2> QED
    BY <2>1, <2>2, <2>3, <2>5
<1>12. \A i \in DOMAIN s : \E k \in 1..N : s[i] \in ToSet(G[k])
  BY <1>1, <1>5, <1>8, <1>9
<1>13. \A k, l \in 1..N : \A a \in DOMAIN G[k], b \in DOMAIN G[l] :
         k # l => \E i, j \in DOMAIN s : i # j /\ G[k][a] = s[i] /\ G[l][b] = s[j]
  <2> SUFFICES ASSUME NEW k \in 1..N, NEW l \in 1..N, k # l,
                      NEW a \in DOMAIN G[k], NEW b \in DOMAIN G[l]
               PROVE  \E i, j \in DOMAIN s : i # j /\ G[k][a] = s[i] /\ G[l][b] = s[j]
    OBVIOUS
  <2>1. PICK i \in Like(k) : G[k][a] = s[i]
    BY <1>11
  <2>2. PICK j \in Like(l) : G[l][b] = s[j]
    BY <1>11
  <2> QED
    BY <1>6, <1>7, <2>1, <2>2
<1> QED
  BY <1>9, <1>10, <1>11, <1>12, <1>13 DEF G

---------------------------------------------------------------------------
(* Types.                                                                   *)

LEMMA BuiltSeq ==
  ASSUME NEW S, NEW n \in Nat, NEW f \in [1..n -> S]
  PROVE  f \in Seq(S) /\ Len(f) = n
BY SeqDef

TimerSet == [id : Nat, due : Nat, every : Nat \cup {-1}, job : Jobs]
Record == [to : Observers, nr : Nat]
Group == [to : Watchers \cup Observers, recs : Seq(Record), live : BOOLEAN]

Fates == {"queued", "delivering", "delivered", "taken", "dropped"}

ClockTyped == now \in 0..MaxClock /\ calls \in 0..MaxCalls /\ promise \in {"none", "pending", "settled"}

TimersTyped ==
  /\ timers \in Seq(TimerSet) /\ batch \in Seq(TimerSet)
  /\ nextId \in Nat /\ cancelled \subseteq Nat /\ handed \subseteq Nat /\ asked \subseteq Nat
  /\ scheduled \in BOOLEAN
  /\ running \in {"script", "pump", "firing", "callback", "flushing", "observing", "done"}

ObserversTyped ==
  /\ queue \in Seq(Watchers \X Nodes)
  /\ targets \in Seq(Observers \X Nodes \X BOOLEAN)
  /\ records \in Seq(Record) /\ \A k \in DOMAIN records : records[k].nr \in DOMAIN fate
  /\ fate \in Seq(Fates)
  /\ groups \in Seq(Group)

\* The batch and the groups are there while they are worked on, and only then.
Placed ==
  /\ running \in {"script", "pump", "done"} => batch = << >>
  /\ running \in {"callback", "flushing", "observing"} => batch # << >>
  /\ running \notin {"flushing", "observing"} => groups = << >>

Typed == ClockTyped /\ TimersTyped /\ ObserversTyped /\ Placed

LEMMA TypedInit == Init => Typed
<1> SUFFICES ASSUME Init PROVE Typed
  OBVIOUS
<1>1. ClockTyped
  BY TimesAreNatural, ClockOutlastsBudget DEF Init, ClockTyped
<1>2. TimersTyped
  <2>1. \A S : << >> \in Seq(S)
    OBVIOUS
  <2> QED
    BY <2>1 DEF Init, TimersTyped
<1>3. ObserversTyped
  BY SetupsAreTargets DEF Init, ObserversTyped
<1> QED
  BY <1>1, <1>2, <1>3 DEF Init, Typed, Placed

\* Who sets running, batch and groups.
LEMMA PlacedNext == Placed /\ [Next]_vars => Placed'
<1> SUFFICES ASSUME Placed, [Next]_vars PROVE Placed'
  OBVIOUS
<1>1. CASE UNCHANGED pumpVars
  BY <1>1 DEF pumpVars, Placed
<1>2. CASE ScriptCalls \/ Tick \/ UNCHANGED vars
  BY <1>1, <1>2
  DEF ScriptCalls, ScheduleTimer, Ask, ClearTimer, Observe, Unobserve, TakeNotifications,
      MutationObserve, MutationUnobserve, Mutate, MutationCollect, Resolve, Tick, vars, pumpVars
<1>3. CASE TaskEnds \/ PumpStops \/ FireDueTimers \/ BatchDone \/ FireTimer
  BY <1>3 DEF TaskEnds, PumpStops, FireDueTimers, BatchDone, FireTimer, Placed
<1>4. CASE CallbackEnds \/ FlushStarts \/ DeliverGroup \/ ObserverReturns \/ FlushEnds
  BY <1>4 DEF CallbackEnds, FlushStarts, DeliverGroup, ObserverReturns, FlushEnds, Placed
<1> QED
  BY <1>2, <1>3, <1>4 DEF Next, PumpSteps

LEMMA TypedImpliesTypeOK == Typed => TypeOK
<1> SUFFICES ASSUME Typed PROVE TypeOK
  OBVIOUS
<1>1. records \in Seq([to : Observers, nr : DOMAIN fate])
  <2>1. records \in [1..Len(records) -> [to : Observers, nr : DOMAIN fate]]
    <3>1. records \in [1..Len(records) -> Record] /\ DOMAIN records = 1..Len(records)
      BY DEF Typed, ObserversTyped
    <3>2. \A k \in 1..Len(records) : records[k] \in [to : Observers, nr : DOMAIN fate]
      BY <3>1 DEF Typed, ObserversTyped, Record
    <3> QED
      BY <3>1, <3>2
  <2>2. Len(records) \in Nat
    BY DEF Typed, ObserversTyped
  <2> QED
    BY <2>1, <2>2, BuiltSeq
<1> QED
  BY <1>1 DEF Typed, ClockTyped, TimersTyped, ObserversTyped, TypeOK, TimerSet, Fates

\* The nearest due time is the due time of a timer.
LEMMA NextDueIsLeast ==
  ASSUME timers \in Seq(TimerSet), timers # << >>
  PROVE  NextDue \in Nat /\ \A i \in DOMAIN timers : NextDue <= timers[i].due
<1> DEFINE T == {timers[i].due : i \in DOMAIN timers}
<1>1. T \subseteq Nat
  <2>1. \A i \in DOMAIN timers : timers[i] \in TimerSet
    OBVIOUS
  <2> QED
    BY <2>1 DEF TimerSet
<1>2. timers[1].due \in T
  OBVIOUS
<1>3. \A d : (\A i \in DOMAIN timers : d <= timers[i].due) <=> \A m \in T : d <= m
  OBVIOUS
<1>4. NextDue = CHOOSE d \in T : \A i \in DOMAIN timers : d <= timers[i].due
  BY DEF NextDue
<1> HIDE DEF T
<1>5. \E d \in T : \A m \in T : d <= m
  BY <1>1, <1>2, LeastNumber
<1> QED
  BY <1>1, <1>3, <1>4, <1>5

LEMMA WakeInTime ==
  ASSUME Typed, timers # << >>
  PROVE  Wake \in 0..MaxClock
BY NextDueIsLeast, ClockOutlastsBudget DEF Wake, Typed, ClockTyped, TimersTyped

LEMMA PushTyped ==
  ASSUME now \in Nat, nextId \in Nat, timers \in Seq(TimerSet),
         NEW d \in Nat, NEW every \in Nat \cup {-1}, NEW job \in Jobs, Push(d, every, job)
  PROVE  timers' \in Seq(TimerSet) /\ nextId' \in Nat
BY DEF Push, Timer, TimerSet

LEMMA ScheduleFlushTyped ==
  ASSUME Typed, ScheduleFlush
  PROVE  timers' \in Seq(TimerSet) /\ nextId' \in Nat /\ scheduled' \in BOOLEAN
<1>1. now \in Nat /\ nextId \in Nat /\ timers \in Seq(TimerSet) /\ scheduled \in BOOLEAN
  BY DEF Typed, ClockTyped, TimersTyped
<1>2. CASE scheduled
  BY <1>1, <1>2 DEF ScheduleFlush, queueVars
<1>3. CASE ~ scheduled
  BY <1>1, <1>3, PushTyped DEF ScheduleFlush, Jobs
<1> QED
  BY <1>2, <1>3

LEMMA CallsTyped == ASSUME Typed, Calls PROVE calls' \in 0..MaxCalls
BY TimesAreNatural DEF Calls, Typed, ClockTyped

LEMMA MutateTyped ==
  ASSUME Typed, Mutate
  PROVE  ObserversTyped'
<1> USE DEF ObserversTyped
<1>1. PICK n \in Nodes :
        /\ records' = records \o [i \in DOMAIN Concerned(n) |->
                                    [to |-> Concerned(n)[i][1], nr |-> Len(fate) + i]]
        /\ fate' = fate \o [i \in DOMAIN Concerned(n) |-> "queued"]
  BY DEF Mutate
<1> DEFINE told == Concerned(n)
           made == [i \in DOMAIN told |-> [to |-> told[i][1], nr |-> Len(fate) + i]]
           marks == [i \in DOMAIN told |-> "queued"]
<1>2. told \in Seq(Observers \X Nodes \X BOOLEAN)
  BY OnlyKeeps DEF Concerned, Typed
<1>3. records' = records \o made /\ fate' = fate \o marks
  BY <1>1
<1>4. UNCHANGED << queue, targets, groups >>
  BY DEF Mutate, pumpVars
<1> HIDE DEF told
<1>5. Len(told) \in Nat /\ DOMAIN told = 1..Len(told) /\ Len(fate) \in Nat /\ DOMAIN fate = 1..Len(fate)
  BY <1>2 DEF Typed
<1>6. made \in Seq(Record) /\ Len(made) = Len(told)
  <2>1. \A i \in 1..Len(told) : [to |-> told[i][1], nr |-> Len(fate) + i] \in Record
    BY <1>2, <1>5 DEF Record
  <2> QED
    BY <1>5, <2>1
<1>7. marks \in Seq(Fates) /\ Len(marks) = Len(told)
  BY <1>5 DEF Fates
<1>8. \A i \in 1..Len(told) : made[i].nr = Len(fate) + i
  BY <1>5
<1> HIDE DEF made, marks
<1>9. fate' \in Seq(Fates) /\ Len(fate') = Len(fate) + Len(told)
  <2>1. fate \in Seq(Fates)
    BY DEF Typed
  <2>2. fate \o marks \in Seq(Fates) /\ Len(fate \o marks) = Len(fate) + Len(marks)
    BY <1>7, <2>1, ConcatProperties
  <2> QED
    BY <1>3, <1>7, <2>2
<1>10. /\ records' \in Seq(Record) /\ Len(records') = Len(records) + Len(told)
       /\ \A k \in 1..Len(records') :
            records'[k] = IF k <= Len(records) THEN records[k] ELSE made[k - Len(records)]
  <2>1. records \in Seq(Record)
    BY DEF Typed
  <2>2. /\ records \o made \in Seq(Record) /\ Len(records \o made) = Len(records) + Len(made)
        /\ \A k \in 1..(Len(records) + Len(made)) :
             (records \o made)[k] = IF k <= Len(records) THEN records[k] ELSE made[k - Len(records)]
    BY <1>6, <2>1, ConcatProperties
  <2> QED
    BY <1>3, <1>6, <2>2
<1>11. ASSUME NEW k \in DOMAIN records'
       PROVE  records'[k].nr \in DOMAIN fate'
  <2>1. /\ k \in 1..(Len(records) + Len(told)) /\ Len(records) \in Nat
        /\ DOMAIN fate' = 1..(Len(fate) + Len(told))
    BY <1>9, <1>10 DEF Typed
  <2>2. CASE k <= Len(records)
    <3>1. k \in DOMAIN records
      BY <2>1, <2>2 DEF Typed
    <3> QED
      BY <1>5, <1>10, <2>1, <2>2, <3>1 DEF Typed
  <2>3. CASE k > Len(records)
    <3>1. k - Len(records) \in 1..Len(told)
      BY <1>5, <2>1, <2>3
    <3> QED
      BY <1>5, <1>8, <1>10, <2>1, <2>3, <3>1
  <2> QED
    BY <2>1, <2>2, <2>3
<1> QED
  BY <1>4, <1>9, <1>10, <1>11 DEF Typed, Fates

LEMMA CollectTyped ==
  ASSUME Typed, NEW o \in Observers, NEW how \in Fates, Collect(o, how)
  PROVE  /\ fate' \in Seq(Fates) /\ DOMAIN fate' = DOMAIN fate
         /\ records' \in Seq(Record)
         /\ ToSet(records') = ToSet(records) \ {r \in ToSet(records) : r.to = o}
         /\ \A k \in DOMAIN records' : records'[k].nr \in DOMAIN fate'
<1> USE DEF Typed, ObserversTyped
<1>1. Len(fate) \in Nat /\ DOMAIN fate = 1..Len(fate) /\ \A i \in DOMAIN fate : fate[i] \in Fates
  BY DEF Fates
<1>2. fate' = [i \in DOMAIN fate |->
                 IF \E k \in DOMAIN records : records[k] = [to |-> o, nr |-> i]
                 THEN how ELSE fate[i]]
  BY DEF Collect
<1>3. fate' \in Seq(Fates) /\ DOMAIN fate' = DOMAIN fate
  BY <1>1, <1>2
<1>4. records' = Without(records, {r \in ToSet(records) : r.to = o})
  BY DEF Collect
<1>5. /\ records' \in Seq(Record)
      /\ ToSet(records') = ToSet(records) \ {r \in ToSet(records) : r.to = o}
  BY <1>4, WithoutKeeps
<1>6. \A k \in DOMAIN records' : records'[k] \in ToSet(records)
  BY <1>5 DEF ToSet
<1>7. \A r \in ToSet(records) : r.nr \in DOMAIN fate
  BY DEF ToSet
<1> QED
  BY <1>3, <1>5, <1>6, <1>7

LEMMA MutationCollectTyped ==
  ASSUME Typed, MutationCollect
  PROVE  ObserversTyped'
<1>1. PICK o \in Observers : TakeRecords(o) \/ Disconnect(o)
  BY DEF MutationCollect
<1>2. PICK how \in Fates : Collect(o, how)
  BY <1>1 DEF TakeRecords, Disconnect, Fates
<1>3. targets' \in Seq(Observers \X Nodes \X BOOLEAN)
  BY <1>1, WithoutKeeps DEF TakeRecords, Disconnect, Typed, ObserversTyped
<1> QED
  BY <1>2, <1>3, CollectTyped DEF MutationCollect, pumpVars, Typed, ObserversTyped, Fates

\* The groups a flush makes: of notifications, which keep no records, then of records.
Notices == GroupedBy(queue, [i \in DOMAIN queue |-> queue[i][1]])
Changes == GroupedBy(records, [i \in DOMAIN records |-> records[i].to])
NoticeGroups == [k \in DOMAIN Notices |-> [to |-> Notices[k][1][1], recs |-> << >>, live |-> TRUE]]
ChangeGroups == [k \in DOMAIN Changes |->
                   [to |-> Changes[k][1].to, recs |-> Changes[k], live |-> FALSE]]

LEMMA FlushGroups ==
  ASSUME Typed, FlushStarts
  PROVE  /\ groups' = NoticeGroups \o ChangeGroups
         /\ NoticeGroups \in Seq(Group) /\ ChangeGroups \in Seq(Group)
<1> USE DEF Typed, ObserversTyped
<1>1. groups' = NoticeGroups \o ChangeGroups
  BY DEF FlushStarts, NoticeGroups, ChangeGroups, Notices, Changes
<1>2. Notices \in Seq(Seq(Watchers \X Nodes)) /\ \A k \in DOMAIN Notices : Notices[k] # << >>
  BY GroupedByPartitions DEF Notices
<1>3. Changes \in Seq(Seq(Record)) /\ \A k \in DOMAIN Changes : Changes[k] # << >>
  BY GroupedByPartitions DEF Changes
<1>4. NoticeGroups \in Seq(Group)
  <2>1. \A k \in DOMAIN Notices : Notices[k] \in Seq(Watchers \X Nodes) /\ Notices[k][1] \in Watchers \X Nodes
    BY <1>2
  <2>2. \A k \in DOMAIN Notices : [to |-> Notices[k][1][1], recs |-> << >>, live |-> TRUE] \in Group
    BY <2>1 DEF Group
  <2>3. Len(Notices) \in Nat /\ DOMAIN Notices = 1..Len(Notices)
    BY <1>2
  <2> QED
    BY <2>2, <2>3, BuiltSeq DEF NoticeGroups
<1>5. ChangeGroups \in Seq(Group)
  <2>1. \A k \in DOMAIN Changes : Changes[k] \in Seq(Record) /\ Changes[k][1] \in Record
    BY <1>3
  <2>2. \A k \in DOMAIN Changes : [to |-> Changes[k][1].to, recs |-> Changes[k], live |-> FALSE] \in Group
    BY <2>1 DEF Group, Record
  <2>3. Len(Changes) \in Nat /\ DOMAIN Changes = 1..Len(Changes)
    BY <1>3
  <2> QED
    BY <2>2, <2>3, BuiltSeq DEF ChangeGroups
<1> QED
  BY <1>1, <1>4, <1>5

LEMMA TypedNext == Typed /\ [Next]_vars => Typed'
<1> SUFFICES ASSUME Typed, [Next]_vars PROVE Typed'
  OBVIOUS
<1> USE DEF Typed
<1>19. Placed'
  BY PlacedNext
<1> USE <1>19
<1>1. CASE ScheduleTimer
  <2>1. timers' \in Seq(TimerSet) /\ nextId' \in Nat
    BY <1>1, PushTyped, TimesAreNatural DEF ScheduleTimer, ClockTyped, TimersTyped, Jobs
  <2>2. handed' = handed \cup {nextId} /\ UNCHANGED << clockVars, observerVars, pumpVars, scheduled, cancelled, asked >>
    BY <1>1 DEF ScheduleTimer
  <2> QED
    BY <1>1, <2>1, <2>2, CallsTyped
    DEF ScheduleTimer, clockVars, observerVars, pumpVars, ClockTyped, TimersTyped, ObserversTyped
<1>2. CASE Ask
  <2>1. Push(0, -1, "answer") /\ asked' = asked \cup {nextId}
    BY <1>2 DEF Ask, AskDatabase, AskPosition, PostTask, Answer
  <2>2. timers' \in Seq(TimerSet) /\ nextId' \in Nat
    BY <2>1, PushTyped DEF ClockTyped, TimersTyped, Jobs
  <2> QED
    BY <1>2, <2>1, <2>2, CallsTyped
    DEF Ask, clockVars, observerVars, pumpVars, ClockTyped, TimersTyped, ObserversTyped
<1>3. CASE ClearTimer
  <2>1. PICK id \in IF GuessesIds THEN 1..nextId ELSE handed :
          /\ timers' = Without(timers, {t \in ToSet(timers) : t.id = id})
          /\ cancelled' = cancelled \cup {id}
    BY <1>3 DEF ClearTimer
  <2>2. id \in Nat
    BY DEF TimersTyped
  <2>3. timers' \in Seq(TimerSet)
    BY <2>1, WithoutKeeps DEF TimersTyped
  <2> QED
    BY <1>3, <2>1, <2>2, <2>3, CallsTyped
    DEF ClearTimer, clockVars, observerVars, pumpVars, ClockTyped, TimersTyped, ObserversTyped
<1>4. CASE Observe
  <2>1. queue' \in Seq(Watchers \X Nodes)
    BY <1>4 DEF Observe, ObserversTyped
  <2>2. timers' \in Seq(TimerSet) /\ nextId' \in Nat /\ scheduled' \in BOOLEAN
    BY <1>4, ScheduleFlushTyped DEF Observe
  <2> QED
    BY <1>4, <2>1, <2>2, CallsTyped
    DEF Observe, clockVars, idVars, pumpVars, ClockTyped, TimersTyped, ObserversTyped
<1>5. CASE Unobserve \/ TakeNotifications
  <2>1. queue' \in Seq(Watchers \X Nodes)
    <3>1. PICK gone : queue' = Without(queue, gone)
      BY <1>5 DEF Unobserve, TakeNotifications
    <3> QED
      BY <3>1, WithoutKeeps DEF ObserversTyped
  <2> QED
    BY <1>5, <2>1, CallsTyped
    DEF Unobserve, TakeNotifications, clockVars, idVars, pumpVars, queueVars,
        ClockTyped, TimersTyped, ObserversTyped
<1>6. CASE MutationObserve \/ MutationUnobserve
  <2>1. targets' \in Seq(Observers \X Nodes \X BOOLEAN)
    <3>1. CASE MutationObserve
      BY <3>1 DEF MutationObserve, ObserversTyped
    <3>2. CASE MutationUnobserve
      <4>1. PICK gone : targets' = Without(targets, gone)
        BY <3>2 DEF MutationUnobserve
      <4> QED
        BY <4>1, WithoutKeeps DEF ObserversTyped
    <3> QED
      BY <1>6, <3>1, <3>2
  <2> QED
    BY <1>6, <2>1, CallsTyped
    DEF MutationObserve, MutationUnobserve, clockVars, idVars, pumpVars, queueVars,
        ClockTyped, TimersTyped, ObserversTyped
<1>7. CASE Resolve
  BY <1>7, CallsTyped
  DEF Resolve, observerVars, idVars, pumpVars, queueVars, ClockTyped, TimersTyped, ObserversTyped
<1>8. CASE TaskEnds \/ PumpStops \/ BatchDone \/ ObserverReturns
  BY <1>8 DEF TaskEnds, PumpStops, BatchDone, ObserverReturns, clockVars, observerVars, queueVars,
              idVars, ClockTyped, TimersTyped, ObserversTyped
<1>9. CASE FireDueTimers
  <2>1. now' \in 0..MaxClock
    BY <1>9, WakeInTime DEF FireDueTimers, PumpOver
  <2>2. timers' \in Seq(TimerSet) /\ batch' \in Seq(TimerSet)
    BY <1>9, OnlyKeeps, WithoutKeeps DEF FireDueTimers, TimersTyped
  <2> QED
    BY <1>9, <2>1, <2>2 DEF FireDueTimers, observerVars, idVars, ClockTyped, TimersTyped, ObserversTyped
<1>10. CASE FireTimer
  BY <1>10 DEF FireTimer, clockVars, observerVars, queueVars, ClockTyped, TimersTyped, ObserversTyped
<1>11. CASE CallbackEnds
  <2>1. batch # << >>
    BY <1>11 DEF CallbackEnds, Placed
  <2>2. Head(batch) \in TimerSet /\ batch' \in Seq(TimerSet)
    BY <1>11, <2>1 DEF CallbackEnds, TimersTyped
  <2>3. timers' \in Seq(TimerSet)
    <3>1. CASE Head(batch).every >= 0 /\ Head(batch).id \notin cancelled
      <4>1. Timer(Head(batch).id, Head(batch).every, Head(batch).every, Head(batch).job) \in TimerSet
        BY <2>2, <3>1 DEF Timer, TimerSet, ClockTyped
      <4>2. timers' = Append(timers, Timer(Head(batch).id, Head(batch).every, Head(batch).every, Head(batch).job))
        BY <1>11, <3>1 DEF CallbackEnds
      <4> QED
        BY <4>1, <4>2 DEF TimersTyped
    <3>2. CASE ~ (Head(batch).every >= 0 /\ Head(batch).id \notin cancelled)
      BY <1>11, <3>2 DEF CallbackEnds, TimersTyped
    <3> QED
      BY <3>1, <3>2
  <2> QED
    BY <1>11, <2>2, <2>3
    DEF CallbackEnds, clockVars, observerVars, idVars, ClockTyped, TimersTyped, ObserversTyped
<1>12. CASE FlushEnds
  BY <1>12 DEF FlushEnds, Placed, clockVars, observerVars, queueVars, idVars, ClockTyped, TimersTyped, ObserversTyped
<1>13. CASE Tick
  BY <1>13, ClockOutlastsBudget
  DEF Tick, observerVars, pumpVars, queueVars, idVars, ClockTyped, TimersTyped, ObserversTyped
<1>14. CASE UNCHANGED vars
  BY <1>14 DEF vars, ClockTyped, TimersTyped, ObserversTyped
<1>15. CASE Mutate
  BY <1>15, CallsTyped, MutateTyped, ScheduleFlushTyped
  DEF Mutate, clockVars, idVars, pumpVars, ClockTyped, TimersTyped
<1>16. CASE MutationCollect
  BY <1>16, CallsTyped, MutationCollectTyped
  DEF MutationCollect, clockVars, idVars, pumpVars, queueVars, ClockTyped, TimersTyped
<1>17. CASE FlushStarts
  <2>1. groups' \in Seq(Group)
    BY <1>17, FlushGroups, ConcatProperties
  <2>2. fate' \in Seq(Fates)
    <3>1. \A i \in DOMAIN fate : fate[i] \in Fates
      BY DEF ObserversTyped
    <3>2. fate' = [i \in DOMAIN fate |-> IF fate[i] = "queued" THEN "delivering" ELSE fate[i]]
      BY <1>17 DEF FlushStarts
    <3> QED
      <4>1. /\ Len(fate) \in Nat /\ DOMAIN fate = 1..Len(fate)
        BY DEF ObserversTyped
      <4>2. fate' \in [1..Len(fate) -> Fates]
        BY <3>1, <3>2, <4>1 DEF Fates
      <4> QED
        BY <4>1, <4>2, BuiltSeq
  <2>3. \A S : << >> \in Seq(S)
    OBVIOUS
  <2>4. ObserversTyped'
    <3>1. queue' = << >> /\ records' = << >> /\ targets' = targets
      BY <1>17 DEF FlushStarts
    <3>2. DOMAIN << >> = {}
      OBVIOUS
    <3> QED
      BY <2>1, <2>2, <2>3, <3>1, <3>2 DEF ObserversTyped
  <2> QED
    BY <1>17, <2>4
    DEF FlushStarts, clockVars, idVars, ClockTyped, TimersTyped, ObserversTyped
<1>18. CASE DeliverGroup
  <2>1. groups' \in Seq(Group)
    BY <1>18 DEF DeliverGroup, ObserversTyped
  <2>2. fate' \in Seq(Fates) /\ DOMAIN fate' = DOMAIN fate
    <3>1. \A i \in DOMAIN fate : fate[i] \in Fates
      BY DEF ObserversTyped
    <3>2. PICK how \in Fates : fate' = MarkAs(Head(groups), how)
      BY <1>18 DEF DeliverGroup, Fates
    <3> QED
      <4>1. /\ Len(fate) \in Nat /\ DOMAIN fate = 1..Len(fate)
        BY DEF ObserversTyped
      <4>2. fate' \in [1..Len(fate) -> Fates]
        BY <3>1, <3>2, <4>1 DEF MarkAs
      <4> QED
        BY <4>1, <4>2, BuiltSeq
  <2>3. running' \in {running, "observing"}
    BY <1>18 DEF DeliverGroup
  <2> QED
    BY <1>18, <2>1, <2>2, <2>3
    DEF DeliverGroup, clockVars, queueVars, idVars, ClockTyped, TimersTyped, ObserversTyped, Fates
<1> QED
  BY <1>1, <1>2, <1>3, <1>4, <1>5, <1>6, <1>7, <1>8, <1>9, <1>10, <1>11, <1>12, <1>13, <1>14,
     <1>15, <1>16, <1>17, <1>18
  DEF Next, ScriptCalls, PumpSteps

\* Every variable keeps its type, the clock ends where it must and no call is made
\* that is not counted.
THEOREM TypeCorrect == Spec => []TypeOK
<1>1. Spec => []Typed
  BY TypedInit, TypedNext, PTL DEF Spec
<1> QED
  BY <1>1, TypedImpliesTypeOK, PTL

---------------------------------------------------------------------------
(* Identifiers: a cleared timer stays cleared.                              *)

\* The timers there are, in the queue or in the batch.
Timers == ToSet(timers) \cup ToSet(batch)

\* A page that guesses no ids knows those it was handed: never the id of a flush
\* or of an answer, and never one that is still to be given out.
IdsSound ==
  /\ handed \subseteq 1..(nextId - 1) /\ cancelled \subseteq handed
  /\ \A t \in Timers : t.id < nextId /\ (t.job # "page" => t.id \notin handed)
  /\ nextId >= 1
  /\ \A t \in ToSet(timers) : t.id \notin cancelled

LEMMA IdsInit == Init => IdsSound
BY DEF Init, IdsSound, Timers, ToSet

LEMMA ToSetAppend ==
  ASSUME NEW S, NEW s \in Seq(S), NEW e \in S
  PROVE  ToSet(Append(s, e)) = ToSet(s) \cup {e}
<1>1. /\ DOMAIN Append(s, e) = DOMAIN s \cup {Len(s) + 1}
      /\ \A i \in DOMAIN s : Append(s, e)[i] = s[i]
      /\ Append(s, e)[Len(s) + 1] = e
  OBVIOUS
<1> QED
  BY <1>1 DEF ToSet

LEMMA ToSetTail ==
  ASSUME NEW S, NEW s \in Seq(S), s # << >>
  PROVE  /\ ToSet(Tail(s)) = {s[i] : i \in (DOMAIN s) \ {1}}
         /\ ToSet(s) = {Head(s)} \cup ToSet(Tail(s))
<1>1. /\ Len(s) \in Nat /\ Len(s) >= 1 /\ DOMAIN s = 1..Len(s)
      /\ DOMAIN Tail(s) = 1..(Len(s) - 1)
      /\ \A i \in 1..(Len(s) - 1) : Tail(s)[i] = s[i + 1]
      /\ Head(s) = s[1]
  OBVIOUS
<1>2. \A x : x \in ToSet(Tail(s)) <=> \E i \in 1..(Len(s) - 1) : x = s[i + 1]
  BY <1>1 DEF ToSet
<1>3. \A x : (\E i \in 1..(Len(s) - 1) : x = s[i + 1]) <=> (\E i \in (1..Len(s)) \ {1} : x = s[i])
  <2> SUFFICES ASSUME NEW x, NEW i \in (1..Len(s)) \ {1}, x = s[i]
               PROVE  \E j \in 1..(Len(s) - 1) : x = s[j + 1]
    BY <1>1
  <2>1. i - 1 \in 1..(Len(s) - 1) /\ (i - 1) + 1 = i
    BY <1>1
  <2> QED
    BY <2>1
<1>4. ToSet(Tail(s)) = {s[i] : i \in (1..Len(s)) \ {1}}
  BY <1>2, <1>3, SMTT(60)
<1>5. ToSet(s) = {s[1]} \cup {s[i] : i \in (1..Len(s)) \ {1}}
  BY <1>1 DEF ToSet
<1> QED
  BY <1>1, <1>4, <1>5

\* A push adds one timer with the next id.
LEMMA PushAdds ==
  ASSUME Typed, NEW d \in Nat, NEW every \in Nat \cup {-1}, NEW job \in Jobs, Push(d, every, job)
  PROVE  /\ ToSet(timers') = ToSet(timers) \cup {Timer(nextId, d, every, job)}
         /\ nextId' = nextId + 1
<1>1. Timer(nextId, d, every, job) \in TimerSet
  BY DEF Timer, TimerSet, Typed, TimersTyped, ClockTyped
<1> QED
  BY <1>1, ToSetAppend DEF Push, Typed, TimersTyped

LEMMA IdsPush ==
  ASSUME Typed, IdsSound, NEW d \in Nat, NEW every \in Nat \cup {-1}, NEW job \in Jobs, Push(d, every, job),
         handed' = (IF job = "page" THEN handed \cup {nextId} ELSE handed),
         UNCHANGED << cancelled, batch >>
  PROVE  IdsSound'
<1> DEFINE new == Timer(nextId, d, every, job)
<1>1. ToSet(timers') = ToSet(timers) \cup {new} /\ nextId' = nextId + 1
  BY PushAdds
<1>2. new.id = nextId /\ new.job = job
  BY DEF Timer
<1> HIDE DEF new
<1>3. Timers' = Timers \cup {new}
  BY <1>1 DEF Timers
<1>4. nextId \in Nat /\ nextId \notin cancelled /\ nextId \notin handed
  BY DEF Typed, TimersTyped, IdsSound
<1>5. \A t \in Timers : t.id \in Nat
  <2>1. \A t \in Timers : t \in TimerSet
    BY DEF Timers, Typed, TimersTyped, ToSet
  <2> QED
    BY <2>1 DEF TimerSet
<1>6. handed' \subseteq 1..(nextId' - 1) /\ cancelled' \subseteq handed' /\ nextId' >= 1
  BY <1>1, <1>4 DEF IdsSound
<1>7. \A t \in Timers' : t.id < nextId' /\ (t.job # "page" => t.id \notin handed')
  BY <1>1, <1>2, <1>3, <1>4, <1>5 DEF IdsSound
<1>8. \A t \in ToSet(timers') : t.id \notin cancelled'
  BY <1>1, <1>2, <1>4 DEF IdsSound
<1> QED
  BY <1>6, <1>7, <1>8 DEF IdsSound

\* Steps that make no timer and no id.
LEMMA IdsFrame ==
  ASSUME IdsSound, Timers' \subseteq Timers,
         \A t \in ToSet(timers') : t.id \notin cancelled,
         UNCHANGED << nextId, handed, cancelled >>
  PROVE  IdsSound'
BY DEF IdsSound

LEMMA IdsScheduleFlush ==
  ASSUME Typed, IdsSound, ScheduleFlush, UNCHANGED << handed, cancelled, batch >>
  PROVE  IdsSound'
<1>1. CASE scheduled
  BY <1>1 DEF ScheduleFlush, queueVars, IdsSound, Timers
<1>2. CASE ~ scheduled
  <2>1. Push(0, -1, "flush")
    BY <1>2 DEF ScheduleFlush
  <2> QED
    BY <2>1, IdsPush DEF Jobs
<1> QED
  BY <1>1, <1>2

LEMMA IdsNext ==
  ASSUME ~ GuessesIds, Typed, IdsSound, [Next]_vars
  PROVE  IdsSound'
<1>1. CASE ScheduleTimer
  <2>1. PICK d \in Nat, every \in Nat \cup {-1} : Push(d, every, "page")
    BY <1>1, TimesAreNatural DEF ScheduleTimer
  <2> QED
    BY <1>1, <2>1, IdsPush DEF ScheduleTimer, Jobs, pumpVars
<1>2. CASE Ask
  <2>1. Push(0, -1, "answer")
    BY <1>2 DEF Ask, AskDatabase, AskPosition, PostTask, Answer
  <2> QED
    BY <1>2, <2>1, IdsPush DEF Ask, Jobs, pumpVars
<1>3. CASE ClearTimer
  <2>1. PICK id \in handed : /\ timers' = Without(timers, {t \in ToSet(timers) : t.id = id})
                             /\ cancelled' = cancelled \cup {id}
    BY <1>3 DEF ClearTimer
  <2>2. ToSet(timers') = ToSet(timers) \ {t \in ToSet(timers) : t.id = id}
    BY <2>1, WithoutKeeps DEF Typed, TimersTyped
  <2> QED
    BY <1>3, <2>1, <2>2 DEF ClearTimer, IdsSound, Timers, pumpVars
<1>4. CASE Observe \/ Mutate
  BY <1>4, IdsScheduleFlush DEF Observe, Mutate, idVars, pumpVars
<1>5. CASE \/ Unobserve \/ TakeNotifications \/ MutationObserve \/ MutationUnobserve
           \/ MutationCollect \/ Resolve
  BY <1>5 DEF Unobserve, TakeNotifications, MutationObserve, MutationUnobserve, MutationCollect,
              Resolve, queueVars, idVars, pumpVars, IdsSound, Timers
<1>6. CASE TaskEnds \/ PumpStops \/ BatchDone \/ ObserverReturns
  BY <1>6 DEF TaskEnds, PumpStops, BatchDone, ObserverReturns, queueVars, idVars, IdsSound, Timers
<1>7. CASE FireDueTimers
  <2>1. ToSet(timers') \subseteq ToSet(timers) /\ ToSet(batch') \subseteq ToSet(timers)
    BY <1>7, OnlyKeeps, WithoutKeeps DEF FireDueTimers, Typed, TimersTyped
  <2>2. Timers' \subseteq Timers /\ \A t \in ToSet(timers') : t.id \notin cancelled
    BY <2>1 DEF Timers, IdsSound
  <2> QED
    BY <1>7, <2>2, IdsFrame DEF FireDueTimers, idVars
<1>8. CASE FireTimer \/ FlushStarts \/ DeliverGroup
  BY <1>8 DEF FireTimer, FlushStarts, DeliverGroup, queueVars, idVars, IdsSound, Timers
<1>9. CASE CallbackEnds
  <2>1. /\ batch # << >> /\ batch \in Seq(TimerSet) /\ timers \in Seq(TimerSet)
        /\ now \in Nat /\ Head(batch) \in TimerSet
    BY <1>9 DEF CallbackEnds, Typed, Placed, TimersTyped, ClockTyped
  <2>2. ToSet(batch) = {Head(batch)} \cup ToSet(Tail(batch))
    BY <2>1, ToSetTail
  <2> DEFINE again == Timer(Head(batch).id, Head(batch).every, Head(batch).every, Head(batch).job)
  <2>3. CASE Head(batch).every >= 0 /\ Head(batch).id \notin cancelled
    <3>1. timers' = Append(timers, again) /\ batch' = Tail(batch)
      BY <1>9, <2>3 DEF CallbackEnds
    <3>2. again \in TimerSet
      BY <2>1, <2>3 DEF Timer, TimerSet
    <3>3. again.id = Head(batch).id /\ again.job = Head(batch).job
      BY DEF Timer
    <3> HIDE DEF again
    <3>4. ToSet(timers') = ToSet(timers) \cup {again}
      BY <2>1, <3>1, <3>2, ToSetAppend
    <3>5. Timers' \subseteq Timers \cup {again}
      BY <2>2, <3>1, <3>4 DEF Timers
    <3>6. Head(batch) \in Timers
      BY <2>2 DEF Timers
    <3> QED
      BY <1>9, <2>3, <3>3, <3>4, <3>5, <3>6 DEF CallbackEnds, idVars, IdsSound
  <2>4. CASE ~ (Head(batch).every >= 0 /\ Head(batch).id \notin cancelled)
    <3>1. timers' = timers /\ batch' = Tail(batch)
      BY <1>9, <2>4 DEF CallbackEnds
    <3>2. Timers' \subseteq Timers /\ \A t \in ToSet(timers') : t.id \notin cancelled
      BY <2>2, <3>1 DEF Timers, IdsSound
    <3> QED
      BY <1>9, <3>2, IdsFrame DEF CallbackEnds, idVars
  <2> QED
    BY <2>3, <2>4
<1>10. CASE FlushEnds
  <2>1. batch # << >> /\ batch \in Seq(TimerSet) /\ batch' = Tail(batch) /\ timers' = timers
    BY <1>10 DEF FlushEnds, queueVars, Typed, Placed, TimersTyped
  <2>2. Timers' \subseteq Timers /\ \A t \in ToSet(timers') : t.id \notin cancelled
    BY <2>1, ToSetTail DEF Timers, IdsSound
  <2> QED
    BY <1>10, <2>2, IdsFrame DEF FlushEnds, idVars, queueVars
<1>11. CASE Tick \/ UNCHANGED vars
  BY <1>11 DEF Tick, vars, queueVars, idVars, pumpVars, IdsSound, Timers
<1> QED
  BY <1>1, <1>2, <1>3, <1>4, <1>5, <1>6, <1>7, <1>8, <1>9, <1>10, <1>11
  DEF Next, ScriptCalls, PumpSteps

\* A timer the page cleared is gone from the queue for good, even an interval that
\* was firing when it was cleared, if the page clears only ids it was given
\* (cb_clear_timer, fire_due_timers).
THEOREM ClearedStays ==
  ASSUME ~ GuessesIds
  PROVE  Spec => []ClearedStaysCleared
<1>1. Typed /\ IdsSound /\ [Next]_vars => Typed' /\ IdsSound'
  BY TypedNext, IdsNext
<1>2. Typed /\ IdsSound => ClearedStaysCleared
  BY DEF IdsSound, ClearedStaysCleared, ToSet
<1> QED
  BY <1>1, <1>2, TypedInit, IdsInit, PTL DEF Spec

---------------------------------------------------------------------------
(* Promised work.                                                           *)

\* The timers that are going to fire: the head of the batch has fired, except
\* between two timers.
Pending == ToSet(timers) \cup {batch[i] : i \in {j \in DOMAIN batch : j > 1 \/ running = "firing"}}

Promised ==
  /\ queue # << >> \/ records # << >> => scheduled
  /\ scheduled => \E t \in Pending : t.job = "flush"
  /\ \A id \in asked : \E t \in Pending : t.id = id /\ t.job = "answer"

LEMMA NothingLeft ==
  ASSUME NEW S, NEW s \in Seq(S), NEW t \in Seq(S), ToSet(t) \subseteq ToSet(s), t # << >>
  PROVE  s # << >>
<1>1. t[1] \in ToSet(t)
  BY DEF ToSet
<1>2. PICK i \in DOMAIN s : s[i] = t[1]
  BY <1>1 DEF ToSet
<1> QED
  BY <1>2

LEMMA PromisedInit == Init => Promised
BY DEF Init, Promised

\* Steps that take no timer away and promise nothing new.
LEMMA PromisedFrame ==
  ASSUME Promised, Pending \subseteq Pending',
         queue' # << >> \/ records' # << >> => scheduled,
         UNCHANGED << scheduled, asked >>
  PROVE  Promised'
BY DEF Promised

LEMMA PendingFrame ==
  ASSUME UNCHANGED << timers, batch, running >>
  PROVE  Pending' = Pending
BY DEF Pending

\* With nothing in the batch the queue is all there is.
LEMMA PendingEmpty ==
  ASSUME batch = << >>
  PROVE  Pending = ToSet(timers)
BY DEF Pending

LEMMA PendingPush ==
  ASSUME Typed, NEW d \in Nat, NEW every \in Nat \cup {-1}, NEW job \in Jobs, Push(d, every, job),
         UNCHANGED << batch, running >>
  PROVE  /\ Pending \subseteq Pending'
         /\ \E t \in Pending' : t.id = nextId /\ t.job = job
<1>1. ToSet(timers') = ToSet(timers) \cup {Timer(nextId, d, every, job)}
  BY PushAdds
<1> QED
  <2>1. Timer(nextId, d, every, job).id = nextId /\ Timer(nextId, d, every, job).job = job
    BY DEF Timer
  <2>2. Pending \subseteq Pending' /\ Timer(nextId, d, every, job) \in Pending'
    BY <1>1 DEF Pending
  <2> QED
    BY <2>1, <2>2

LEMMA PromisedFlush ==
  ASSUME Typed, Promised, ScheduleFlush, UNCHANGED << batch, running, asked >>
  PROVE  Promised'
<1>1. CASE scheduled
  BY <1>1, PromisedFrame, PendingFrame DEF ScheduleFlush, queueVars
<1>2. CASE ~ scheduled
  <2>1. Push(0, -1, "flush") /\ scheduled'
    BY <1>2 DEF ScheduleFlush
  <2>2. Pending \subseteq Pending' /\ \E t \in Pending' : t.job = "flush"
    BY <2>1, PendingPush DEF Jobs
  <2> QED
    BY <2>1, <2>2 DEF Promised
<1> QED
  BY <1>1, <1>2

\* When the head of the batch has had its turn.
LEMMA PendingTail ==
  ASSUME Typed, batch # << >>, running # "firing", batch' = Tail(batch), running' = "firing",
         ToSet(timers) \subseteq ToSet(timers')
  PROVE  Pending \subseteq Pending'
<1>1. batch \in Seq(TimerSet)
  BY DEF Typed, TimersTyped
<1>2. ToSet(batch') = {batch[i] : i \in (DOMAIN batch) \ {1}}
  BY <1>1, ToSetTail
<1>3. \A j \in DOMAIN batch : j > 1 <=> j # 1
  BY <1>1
<1>4. {j \in DOMAIN batch : j > 1 \/ running = "firing"} = (DOMAIN batch) \ {1}
  BY <1>3
<1>5. {batch'[i] : i \in {j \in DOMAIN batch' : j > 1 \/ running' = "firing"}} = ToSet(batch')
  BY DEF ToSet
<1> QED
  BY <1>2, <1>4, <1>5 DEF Pending

\* When it is about to have it.
LEMMA PendingHead ==
  ASSUME Typed, batch # << >>, running = "firing", running' # "firing",
         UNCHANGED << batch, timers >>
  PROVE  Pending \subseteq {Head(batch)} \cup Pending'
<1>1. batch \in Seq(TimerSet)
  BY DEF Typed, TimersTyped
<1>2. /\ Len(batch) \in Nat /\ DOMAIN batch = 1..Len(batch) /\ Head(batch) = batch[1]
      /\ \A j \in DOMAIN batch : j > 1 <=> j # 1
  BY <1>1
<1>3. {j \in DOMAIN batch' : j > 1 \/ running' = "firing"} = (DOMAIN batch) \ {1}
  BY <1>2
<1>4. Pending' = ToSet(timers) \cup {batch[i] : i \in (DOMAIN batch) \ {1}}
  BY <1>3 DEF Pending
<1>5. \A x \in Pending : x \in ToSet(timers) \/ \E i \in DOMAIN batch : x = batch[i]
  BY DEF Pending
<1> QED
  BY <1>2, <1>4, <1>5

LEMMA PromisedNext ==
  ASSUME ~ GuessesIds, Typed, IdsSound, Promised, [Next]_vars
  PROVE  Promised'
<1>1. CASE ScheduleTimer
  <2>1. PICK d \in Nat, every \in Nat \cup {-1} : Push(d, every, "page")
    BY <1>1, TimesAreNatural DEF ScheduleTimer
  <2>2. Pending \subseteq Pending'
    BY <1>1, <2>1, PendingPush DEF ScheduleTimer, Jobs, pumpVars
  <2> QED
    BY <1>1, <2>2, PromisedFrame DEF ScheduleTimer, observerVars, Promised
<1>2. CASE Ask
  <2>1. Push(0, -1, "answer") /\ asked' = asked \cup {nextId}
    BY <1>2 DEF Ask, AskDatabase, AskPosition, PostTask, Answer
  <2>2. Pending \subseteq Pending' /\ \E t \in Pending' : t.id = nextId /\ t.job = "answer"
    BY <1>2, <2>1, PendingPush DEF Ask, Jobs, pumpVars
  <2> QED
    BY <1>2, <2>1, <2>2 DEF Ask, observerVars, Promised
<1>3. CASE ClearTimer
  <2>1. PICK id \in handed : timers' = Without(timers, {t \in ToSet(timers) : t.id = id})
    BY <1>3 DEF ClearTimer
  <2>2. ToSet(timers') = ToSet(timers) \ {t \in ToSet(timers) : t.id = id}
    BY <2>1, WithoutKeeps DEF Typed, TimersTyped
  <2>3. \A t \in Pending : t.job # "page" => t \in Pending'
    <3>1. UNCHANGED << batch, running >>
      BY <1>3 DEF ClearTimer, pumpVars
    <3>2. \A t \in ToSet(timers) : t.job # "page" => t.id # id
      BY DEF IdsSound, Timers
    <3> QED
      BY <2>2, <3>1, <3>2 DEF Pending
  <2> QED
    BY <1>3, <2>3 DEF ClearTimer, observerVars, Promised
<1>4. CASE Observe \/ Mutate
  BY <1>4, PromisedFlush DEF Observe, Mutate, idVars, pumpVars
<1>5. CASE Unobserve \/ TakeNotifications
  <2>1. queue' # << >> => queue # << >>
    <3>1. PICK gone : queue' = Without(queue, gone)
      BY <1>5 DEF Unobserve, TakeNotifications
    <3>2. queue \in Seq(Watchers \X Nodes)
      BY DEF Typed, ObserversTyped
    <3>3. queue' \in Seq(Watchers \X Nodes) /\ ToSet(queue') \subseteq ToSet(queue)
      BY <3>1, <3>2, WithoutKeeps
    <3> QED
      BY <3>2, <3>3, NothingLeft
  <2> QED
    BY <1>5, <2>1, PromisedFrame, PendingFrame
    DEF Unobserve, TakeNotifications, queueVars, idVars, pumpVars, Promised
<1>6. CASE MutationCollect
  <2>1. records' # << >> => records # << >>
    <3>1. PICK gone : records' = Without(records, gone)
      BY <1>6 DEF MutationCollect, TakeRecords, Disconnect, Collect
    <3>2. records \in Seq(Record)
      BY DEF Typed, ObserversTyped
    <3>3. records' \in Seq(Record) /\ ToSet(records') \subseteq ToSet(records)
      BY <3>1, <3>2, WithoutKeeps
    <3> QED
      BY <3>2, <3>3, NothingLeft
  <2> QED
    BY <1>6, <2>1, PromisedFrame, PendingFrame DEF MutationCollect, queueVars, idVars, pumpVars, Promised
<1>7. CASE MutationObserve \/ MutationUnobserve \/ Resolve
  BY <1>7, PromisedFrame, PendingFrame
  DEF MutationObserve, MutationUnobserve, Resolve, queueVars, idVars, pumpVars, observerVars, Promised
<1>8. CASE TaskEnds \/ PumpStops \/ BatchDone
  <2>1. batch = << >> /\ batch' = << >> /\ timers' = timers
    BY <1>8 DEF TaskEnds, PumpStops, BatchDone, queueVars, Typed, Placed
  <2>2. Pending' = Pending
    BY <2>1, PendingEmpty DEF Pending
  <2> QED
    BY <1>8, <2>2, PromisedFrame DEF TaskEnds, PumpStops, BatchDone, queueVars, idVars, observerVars, Promised
<1>9. CASE FireDueTimers
  <2>1. batch = << >> /\ running' = "firing"
    BY <1>9 DEF FireDueTimers, Typed, Placed
  <2>2. ToSet(timers') = ToSet(timers) \ DueBy(now') /\ ToSet(batch') = ToSet(timers) \cap DueBy(now')
    BY <1>9, OnlyKeeps, WithoutKeeps DEF FireDueTimers, Typed, TimersTyped
  <2>3. Pending' = ToSet(timers') \cup ToSet(batch')
    BY <2>1 DEF Pending, ToSet
  <2>4. Pending \subseteq Pending'
    BY <2>1, <2>2, <2>3, PendingEmpty
  <2> QED
    BY <1>9, <2>4, PromisedFrame DEF FireDueTimers, idVars, observerVars, Promised
<1>10. CASE FireTimer
  <2>1. Pending \subseteq {Head(batch)} \cup Pending'
    BY <1>10, PendingHead DEF FireTimer, queueVars
  <2> QED
    BY <1>10, <2>1 DEF FireTimer, queueVars, observerVars, Promised
<1>11. CASE CallbackEnds
  <2>1. /\ batch # << >> /\ batch \in Seq(TimerSet) /\ timers \in Seq(TimerSet)
        /\ now \in Nat /\ Head(batch) \in TimerSet
    BY <1>11 DEF CallbackEnds, Typed, Placed, TimersTyped, ClockTyped
  <2>2. ToSet(timers) \subseteq ToSet(timers')
    <3> DEFINE again == Timer(Head(batch).id, Head(batch).every, Head(batch).every, Head(batch).job)
    <3>1. CASE Head(batch).every >= 0 /\ Head(batch).id \notin cancelled
      <4>1. again \in TimerSet
        BY <2>1, <3>1 DEF Timer, TimerSet
      <4>2. timers' = Append(timers, again)
        BY <1>11, <3>1 DEF CallbackEnds
      <4> HIDE DEF again
      <4> QED
        BY <2>1, <4>1, <4>2, ToSetAppend
    <3>2. CASE ~ (Head(batch).every >= 0 /\ Head(batch).id \notin cancelled)
      BY <1>11, <3>2 DEF CallbackEnds
    <3> QED
      BY <3>1, <3>2
  <2>3. Pending \subseteq Pending'
    BY <1>11, <2>1, <2>2, PendingTail DEF CallbackEnds
  <2> QED
    BY <1>11, <2>3, PromisedFrame DEF CallbackEnds, idVars, observerVars, Promised
<1>12. CASE FlushStarts
  <2>1. Pending \subseteq {Head(batch)} \cup Pending'
    BY <1>12, PendingHead DEF FlushStarts
  <2> QED
    BY <1>12, <2>1 DEF FlushStarts, idVars, Promised
<1>13. CASE DeliverGroup \/ ObserverReturns
  <2>1. running # "firing" /\ running' # "firing" /\ UNCHANGED << timers, batch >>
    BY <1>13 DEF DeliverGroup, ObserverReturns, queueVars
  <2>2. Pending' = Pending
    BY <2>1 DEF Pending
  <2> QED
    BY <1>13, <2>2, PromisedFrame DEF DeliverGroup, ObserverReturns, queueVars, idVars, observerVars, Promised
<1>14. CASE FlushEnds
  <2>1. Pending \subseteq Pending'
    BY <1>14, PendingTail DEF FlushEnds, queueVars, Typed, Placed
  <2> QED
    BY <1>14, <2>1, PromisedFrame DEF FlushEnds, queueVars, idVars, observerVars, Promised
<1>15. CASE Tick \/ UNCHANGED vars
  BY <1>15, PromisedFrame, PendingFrame DEF Tick, vars, queueVars, idVars, pumpVars, observerVars, Promised
<1> QED
  BY <1>1, <1>2, <1>3, <1>4, <1>5, <1>6, <1>7, <1>8, <1>9, <1>10, <1>11, <1>12, <1>13, <1>14, <1>15
  DEF Next, ScriptCalls, PumpSteps

\* What the bridge promised to do later is still going to be done, if the page
\* clears only ids it was given: a queued notification or record has a flush on its
\* way, an unanswered request its answer (schedule_observer_flush, make_idb_request,
\* schedule_call_timer).
THEOREM PromisesAreQueued ==
  ASSUME ~ GuessesIds
  PROVE  Spec => []PromisedWorkIsQueued
<1>1. Typed /\ IdsSound /\ Promised /\ [Next]_vars => Typed' /\ IdsSound' /\ Promised'
  BY TypedNext, IdsNext, PromisedNext
<1>2. Promised => PromisedWorkIsQueued
  <2> SUFFICES ASSUME Promised PROVE PromisedWorkIsQueued
    OBVIOUS
  <2>1. \A t \in Pending : \/ \E i \in DOMAIN timers : t = timers[i]
                           \/ \E i \in DOMAIN batch : t = batch[i] /\ (i > 1 \/ running = "firing")
    BY DEF Pending, ToSet
  <2>2. queue # << >> \/ records # << >> => Waiting(LAMBDA t : t.job = "flush")
    BY <2>1 DEF Promised, Waiting
  <2>3. \A id \in asked : Waiting(LAMBDA t : t.id = id)
    BY <2>1 DEF Promised, Waiting
  <2> QED
    BY <2>2, <2>3 DEF PromisedWorkIsQueued
<1> QED
  BY <1>1, <1>2, TypedInit, IdsInit, PromisedInit, PTL DEF Spec

---------------------------------------------------------------------------
(* Mutation records.                                                        *)

RecordsSound ==
  /\ \A k \in DOMAIN records : fate[records[k].nr] = "queued"
  /\ \A k, l \in DOMAIN records : records[k].nr = records[l].nr => k = l
  /\ \A nr \in DOMAIN fate : fate[nr] = "queued" => \E k \in DOMAIN records : records[k].nr = nr

GroupsSound ==
  /\ \A g \in DOMAIN groups : \A nr \in Numbers(groups[g]) : nr \in DOMAIN fate /\ fate[nr] = "delivering"
  /\ \A g, h \in DOMAIN groups : \A nr \in Numbers(groups[g]) : nr \in Numbers(groups[h]) => g = h
  /\ \A nr \in DOMAIN fate : fate[nr] = "delivering" => \E g \in DOMAIN groups : nr \in Numbers(groups[g])

RecordsPlaced == RecordsSound /\ GroupsSound

LEMMA RecordsInit == Init => RecordsPlaced
BY DEF Init, RecordsPlaced, RecordsSound, GroupsSound

LEMMA RecordsMutate ==
  ASSUME Typed, RecordsPlaced, Mutate
  PROVE  RecordsPlaced'
<1> USE DEF Typed, ObserversTyped
<1>1. PICK n \in Nodes :
        /\ records' = records \o [i \in DOMAIN Concerned(n) |->
                                    [to |-> Concerned(n)[i][1], nr |-> Len(fate) + i]]
        /\ fate' = fate \o [i \in DOMAIN Concerned(n) |-> "queued"]
  BY DEF Mutate
<1> DEFINE told == Concerned(n)
           made == [i \in DOMAIN told |-> [to |-> told[i][1], nr |-> Len(fate) + i]]
           marks == [i \in DOMAIN told |-> "queued"]
<1>2. told \in Seq(Observers \X Nodes \X BOOLEAN)
  BY OnlyKeeps DEF Concerned
<1>3. records' = records \o made /\ fate' = fate \o marks /\ groups' = groups
  BY <1>1 DEF Mutate, pumpVars
<1> HIDE DEF told
<1> DEFINE N == Len(told)  R == Len(records)  F == Len(fate)
<1>4. /\ N \in Nat /\ DOMAIN told = 1..N /\ F \in Nat /\ DOMAIN fate = 1..F
      /\ R \in Nat /\ DOMAIN records = 1..R
  BY <1>2
<1>5. made \in Seq(Record) /\ Len(made) = N /\ \A i \in 1..N : made[i].nr = F + i
  <2>1. \A i \in 1..N : [to |-> told[i][1], nr |-> F + i] \in Record
    BY <1>2, <1>4 DEF Record
  <2>2. made \in [1..N -> Record]
    BY <1>4, <2>1
  <2> QED
    BY <1>4, <2>2, BuiltSeq
<1>6. marks \in Seq(Fates) /\ Len(marks) = N /\ \A i \in 1..N : marks[i] = "queued"
  <2>1. marks \in [1..N -> Fates]
    BY <1>4 DEF Fates
  <2> QED
    BY <1>4, <2>1, BuiltSeq
<1> HIDE DEF made, marks
<1>7. /\ DOMAIN fate' = 1..(F + N)
      /\ \A i \in 1..F : fate'[i] = fate[i]
      /\ \A i \in (F + 1)..(F + N) : fate'[i] = "queued"
  <2>1. fate \in Seq(Fates)
    OBVIOUS
  <2>2. /\ Len(fate \o marks) = F + N /\ fate \o marks \in Seq(Fates)
        /\ \A i \in 1..(F + N) : (fate \o marks)[i] = IF i <= F THEN fate[i] ELSE marks[i - F]
    <3>1. /\ fate \o marks \in Seq(Fates) /\ Len(fate \o marks) = Len(fate) + Len(marks)
          /\ \A i \in 1..(Len(fate) + Len(marks)) :
               (fate \o marks)[i] = IF i <= Len(fate) THEN fate[i] ELSE marks[i - Len(fate)]
      BY <1>6, <2>1, ConcatProperties
    <3> QED
      BY <1>6, <3>1
  <2>3. \A i \in (F + 1)..(F + N) : i - F \in 1..N /\ i \in 1..(F + N) /\ ~ (i <= F)
    BY <1>4
  <2>4. \A i \in 1..F : i \in 1..(F + N) /\ i <= F
    BY <1>4
  <2> QED
    BY <1>3, <1>6, <2>2, <2>3, <2>4
<1>8. /\ DOMAIN records' = 1..(R + N)
      /\ \A k \in 1..R : records'[k] = records[k]
      /\ \A k \in (R + 1)..(R + N) : records'[k].nr = F + (k - R)
  <2>1. records \in Seq(Record)
    OBVIOUS
  <2>2. /\ Len(records \o made) = R + N /\ records \o made \in Seq(Record)
        /\ \A k \in 1..(R + N) : (records \o made)[k] = IF k <= R THEN records[k] ELSE made[k - R]
    <3>1. /\ records \o made \in Seq(Record) /\ Len(records \o made) = Len(records) + Len(made)
          /\ \A k \in 1..(Len(records) + Len(made)) :
               (records \o made)[k] = IF k <= Len(records) THEN records[k] ELSE made[k - Len(records)]
      BY <1>5, <2>1, ConcatProperties, ZenonT(60)
    <3> QED
      BY <1>5, <3>1
  <2>3. \A k \in (R + 1)..(R + N) : k - R \in 1..N /\ k \in 1..(R + N) /\ ~ (k <= R)
    BY <1>4
  <2>4. \A k \in 1..R : k \in 1..(R + N) /\ k <= R
    BY <1>4
  <2> QED
    BY <1>3, <1>5, <2>2, <2>3, <2>4
<1>9. \A k \in 1..R : records[k].nr \in 1..F /\ fate[records[k].nr] = "queued"
  BY <1>4 DEF RecordsPlaced, RecordsSound
<1>10. \A k, l \in 1..R : records[k].nr = records[l].nr => k = l
  BY <1>4 DEF RecordsPlaced, RecordsSound
<1>11. \A nr \in 1..F : fate[nr] = "queued" => \E k \in 1..R : records[k].nr = nr
  BY <1>4 DEF RecordsPlaced, RecordsSound
<1> HIDE DEF N, R, F
<1>12. \A k \in 1..(R + N) : \/ k \in 1..R
                             \/ k \in (R + 1)..(R + N) /\ F + (k - R) \in (F + 1)..(F + N)
  BY <1>4
<1>13. \A nr \in 1..(F + N) : \/ nr \in 1..F
                              \/ /\ nr \in (F + 1)..(F + N) /\ R + (nr - F) \in (R + 1)..(R + N)
                                 /\ F + ((R + (nr - F)) - R) = nr
  BY <1>4
<1>14. \A k \in 1..(R + N) : fate'[records'[k].nr] = "queued"
  BY <1>7, <1>8, <1>9, <1>12, SMTT(60)
<1>15. ASSUME NEW k \in 1..(R + N), NEW l \in 1..(R + N), records'[k].nr = records'[l].nr
       PROVE  k = l
  <2>1. CASE k \in 1..R /\ l \in 1..R
    BY <1>8, <1>10, <1>15, <2>1
  <2>2. CASE k \in (R + 1)..(R + N) /\ l \in (R + 1)..(R + N)
    BY <1>4, <1>8, <1>15, <2>2
  <2>3. CASE k \in 1..R /\ l \in (R + 1)..(R + N)
    BY <1>4, <1>8, <1>9, <1>15, <2>3
  <2>4. CASE l \in 1..R /\ k \in (R + 1)..(R + N)
    BY <1>4, <1>8, <1>9, <1>15, <2>4
  <2> QED
    BY <1>12, <2>1, <2>2, <2>3, <2>4
<1>16. ASSUME NEW nr \in 1..(F + N), fate'[nr] = "queued"
       PROVE  \E k \in 1..(R + N) : records'[k].nr = nr
  <2>1. CASE nr \in 1..F
    <3>1. PICK k \in 1..R : records[k].nr = nr
      BY <1>7, <1>11, <1>16, <2>1
    <3>2. k \in 1..(R + N)
      BY <1>4
    <3> QED
      BY <1>8, <3>1, <3>2
  <2>2. CASE nr \in (F + 1)..(F + N)
    <3> DEFINE k == R + (nr - F)
    <3>1. k \in (R + 1)..(R + N) /\ F + (k - R) = nr
      BY <1>4, <2>2
    <3>2. k \in 1..(R + N)
      BY <1>4, <3>1
    <3> QED
      BY <1>8, <3>1, <3>2
  <2> QED
    BY <1>13, <2>1, <2>2
<1>17. RecordsSound'
  BY <1>7, <1>8, <1>14, <1>15, <1>16 DEF RecordsSound
<1>18. GroupsSound'
  <2>1. \A nr \in 1..F : nr \in 1..(F + N)
    BY <1>4
  <2>2. \A nr \in 1..(F + N) : fate'[nr] = "delivering" => nr \in 1..F /\ fate[nr] = "delivering"
    BY <1>7, <1>13
  <2>3. \A g : Numbers(groups[g])' = Numbers(groups[g])
    BY <1>3 DEF Numbers
  <2> QED
    BY <1>3, <1>4, <1>7, <2>1, <2>2, <2>3 DEF RecordsPlaced, GroupsSound
<1> QED
  BY <1>17, <1>18 DEF RecordsPlaced

\* takeRecords and disconnect: what leaves the queue is marked, and only that.
LEMMA RecordsCollect ==
  ASSUME Typed, RecordsPlaced, NEW o \in Observers, NEW how \in {"taken", "dropped"},
         Collect(o, how), groups' = groups
  PROVE  RecordsPlaced'
<1> USE DEF Typed, ObserversTyped
<1>1. /\ DOMAIN fate' = DOMAIN fate
      /\ \A i \in DOMAIN fate :
           fate'[i] = IF \E k \in DOMAIN records : records[k] = [to |-> o, nr |-> i]
                      THEN how ELSE fate[i]
  BY DEF Collect
<1> DEFINE gone == {r \in ToSet(records) : r.to = o}
<1>2. /\ records' \in Seq(Record)
      /\ ToSet(records') = ToSet(records) \ gone
      /\ \A k, l \in DOMAIN records' :
           \E i, j \in DOMAIN records : /\ records'[k] = records[i] /\ records'[l] = records[j]
                                        /\ k # l => i # j
  <2>1. records' = Without(records, gone)
    BY DEF Collect
  <2> HIDE DEF gone
  <2> QED
    BY <2>1, WithoutKeeps
<1>3. \A k \in DOMAIN records : records[k] \in Record
  OBVIOUS
<1>4. \A k \in DOMAIN records : records[k].to = o <=> records[k] = [to |-> o, nr |-> records[k].nr]
  BY <1>3 DEF Record
<1>5. \A k \in DOMAIN records :
        fate'[records[k].nr] = IF records[k].to = o THEN how ELSE fate[records[k].nr]
  <2> SUFFICES ASSUME NEW k \in DOMAIN records
               PROVE  fate'[records[k].nr] = IF records[k].to = o THEN how ELSE fate[records[k].nr]
    OBVIOUS
  <2>1. \A l \in DOMAIN records : records[l] = [to |-> o, nr |-> records[k].nr] => l = k
    BY DEF RecordsPlaced, RecordsSound
  <2>2. (\E l \in DOMAIN records : records[l] = [to |-> o, nr |-> records[k].nr]) <=> records[k].to = o
    BY <1>4, <2>1
  <2> QED
    BY <1>1, <2>2
<1>6. \A i \in DOMAIN fate : fate'[i] # fate[i] => fate[i] = "queued" /\ fate'[i] = how
  BY <1>1 DEF RecordsPlaced, RecordsSound
<1>7. \A k \in DOMAIN records' : \E i \in DOMAIN records : records'[k] = records[i] /\ records[i].to # o
  <2>1. \A k \in DOMAIN records' : records'[k] \in ToSet(records')
    BY DEF ToSet
  <2>2. \A r \in ToSet(records) \ gone : \E i \in DOMAIN records : r = records[i] /\ records[i].to # o
    BY DEF ToSet
  <2> HIDE DEF gone
  <2> QED
    BY <1>2, <2>1, <2>2
<1>8. RecordsSound'
  <2>1. \A k \in DOMAIN records' : fate'[records'[k].nr] = "queued"
    BY <1>5, <1>7, SMTT(60) DEF RecordsPlaced, RecordsSound
  <2>2. \A k, l \in DOMAIN records' : records'[k].nr = records'[l].nr => k = l
    <3> SUFFICES ASSUME NEW k \in DOMAIN records', NEW l \in DOMAIN records', k # l
                 PROVE  records'[k].nr # records'[l].nr
      OBVIOUS
    <3>1. PICK i, j \in DOMAIN records : records'[k] = records[i] /\ records'[l] = records[j] /\ i # j
      BY <1>2
    <3> QED
      BY <3>1 DEF RecordsPlaced, RecordsSound
  <2>3. ASSUME NEW nr \in DOMAIN fate', fate'[nr] = "queued"
        PROVE  \E k \in DOMAIN records' : records'[k].nr = nr
    <3>1. fate[nr] = "queued" /\ nr \in DOMAIN fate
      BY <1>1, <1>6, <2>3
    <3>2. PICK k \in DOMAIN records : records[k].nr = nr
      BY <3>1 DEF RecordsPlaced, RecordsSound
    <3>3. records[k].to # o
      BY <1>5, <2>3, <3>2
    <3>4. records[k] \in ToSet(records')
      BY <1>2, <3>3 DEF ToSet
    <3>5. PICK l \in DOMAIN records' : records'[l] = records[k]
      BY <3>4 DEF ToSet
    <3> QED
      BY <3>2, <3>5
  <2> QED
    BY <2>1, <2>2, <2>3 DEF RecordsSound
<1>9. GroupsSound'
  <2>1. \A i \in DOMAIN fate : fate'[i] = "delivering" <=> fate[i] = "delivering"
    BY <1>6
  <2>2. \A g : Numbers(groups[g])' = Numbers(groups[g])
    BY DEF Numbers
  <2> QED
    BY <1>1, <2>1, <2>2 DEF RecordsPlaced, GroupsSound
<1> QED
  BY <1>8, <1>9 DEF RecordsPlaced

LEMMA RecordsFrame ==
  ASSUME RecordsPlaced, UNCHANGED << records, fate, groups >>
  PROVE  RecordsPlaced'
BY DEF RecordsPlaced, RecordsSound, GroupsSound, Numbers

\* The flush moves every queued record into one group.
LEMMA RecordsFlush ==
  ASSUME Typed, RecordsPlaced, FlushStarts
  PROVE  RecordsPlaced'
<1> USE DEF Typed, ObserversTyped
<1>1. /\ groups = << >> /\ records' = << >>
      /\ fate' = [i \in DOMAIN fate |-> IF fate[i] = "queued" THEN "delivering" ELSE fate[i]]
  BY DEF FlushStarts, Placed
<1>2. \A nr \in DOMAIN fate : fate[nr] # "delivering"
  BY <1>1 DEF RecordsPlaced, GroupsSound
<1>3. DOMAIN fate' = DOMAIN fate /\ \A i \in DOMAIN fate : /\ fate'[i] # "queued"
                                                           /\ fate'[i] = "delivering" <=> fate[i] = "queued"
  BY <1>1, <1>2
<1>4. RecordsSound'
  BY <1>1, <1>3 DEF RecordsSound
<1>5. /\ Changes \in Seq(Seq(Record))
      /\ \A k \in DOMAIN Changes : ToSet(Changes[k]) \subseteq ToSet(records)
      /\ \A i \in DOMAIN records : \E k \in DOMAIN Changes : records[i] \in ToSet(Changes[k])
      /\ \A k, l \in DOMAIN Changes : \A a \in DOMAIN Changes[k], b \in DOMAIN Changes[l] :
           k # l => \E i, j \in DOMAIN records : /\ i # j /\ Changes[k][a] = records[i]
                                                 /\ Changes[l][b] = records[j]
  <2> DEFINE who == [i \in DOMAIN records |-> records[i].to]
  <2>1. Changes = GroupedBy(records, who) /\ records \in Seq(Record)
    BY DEF Changes
  <2> HIDE DEF who
  <2> QED
    BY <2>1, GroupedByPartitions
<1> DEFINE A == Len(NoticeGroups)  B == Len(Changes)
<1>6. /\ groups' = NoticeGroups \o ChangeGroups
      /\ NoticeGroups \in Seq(Group) /\ ChangeGroups \in Seq(Group)
  BY FlushGroups
<1>7. /\ DOMAIN ChangeGroups = DOMAIN Changes /\ Len(ChangeGroups) = B
      /\ A \in Nat /\ B \in Nat /\ DOMAIN Changes = 1..B
      /\ \A k \in 1..B : ChangeGroups[k].recs = Changes[k]
  BY <1>5, <1>6 DEF ChangeGroups
<1>8. \A k \in 1..A : NoticeGroups[k].recs = << >>
  BY <1>6 DEF NoticeGroups
<1>9. /\ DOMAIN groups' = 1..(A + B)
      /\ \A g \in 1..(A + B) : groups'[g] = IF g <= A THEN NoticeGroups[g] ELSE ChangeGroups[g - A]
  <2>1. /\ NoticeGroups \o ChangeGroups \in Seq(Group)
        /\ Len(NoticeGroups \o ChangeGroups) = Len(NoticeGroups) + Len(ChangeGroups)
        /\ \A g \in 1..(Len(NoticeGroups) + Len(ChangeGroups)) :
             (NoticeGroups \o ChangeGroups)[g] =
                IF g <= Len(NoticeGroups) THEN NoticeGroups[g] ELSE ChangeGroups[g - Len(NoticeGroups)]
    BY <1>6, ConcatProperties
  <2> QED
    BY <1>6, <1>7, <2>1
<1> HIDE DEF A, B
<1>10. \A g \in 1..(A + B) : \/ g <= A /\ g \in 1..A
                             \/ ~ (g <= A) /\ g - A \in 1..B
  BY <1>7
<1>11. ASSUME NEW g \in DOMAIN groups', NEW nr \in Numbers(groups'[g])
       PROVE  /\ ~ (g <= A) /\ g - A \in 1..B
              /\ \E a \in DOMAIN Changes[g - A] : Changes[g - A][a].nr = nr
  <2>1. g \in 1..(A + B)
    BY <1>9
  <2>2. CASE g <= A
    <3>1. groups'[g].recs = << >>
      BY <1>8, <1>9, <1>10, <2>1, <2>2
    <3> QED
      BY <3>1 DEF Numbers
  <2>3. CASE ~ (g <= A)
    <3>1. g - A \in 1..B /\ groups'[g].recs = Changes[g - A]
      BY <1>7, <1>9, <1>10, <2>1, <2>3
    <3> QED
      BY <2>3, <3>1 DEF Numbers
  <2> QED
    BY <2>2, <2>3
<1>12. \A k \in 1..B : \A a \in DOMAIN Changes[k] :
         \E i \in DOMAIN records : Changes[k][a] = records[i]
  <2>1. \A k \in 1..B : \A a \in DOMAIN Changes[k] : Changes[k][a] \in ToSet(Changes[k])
    BY DEF ToSet
  <2>2. \A k \in 1..B : \A a \in DOMAIN Changes[k] : Changes[k][a] \in ToSet(records)
    BY <1>5, <1>7, <2>1
  <2> QED
    BY <2>2 DEF ToSet
<1>13. GroupsSound'
  <2>1. ASSUME NEW g \in DOMAIN groups', NEW nr \in Numbers(groups'[g])
        PROVE  nr \in DOMAIN fate' /\ fate'[nr] = "delivering"
    <3>1. PICK a \in DOMAIN Changes[g - A] : Changes[g - A][a].nr = nr
      BY <1>11
    <3>2. PICK i \in DOMAIN records : Changes[g - A][a] = records[i]
      BY <1>11, <1>12
    <3> QED
      BY <1>3, <3>1, <3>2 DEF RecordsPlaced, RecordsSound
  <2>2. ASSUME NEW g \in DOMAIN groups', NEW h \in DOMAIN groups', NEW nr \in Numbers(groups'[g]),
               nr \in Numbers(groups'[h]), g # h
        PROVE  FALSE
    <3>1. PICK a \in DOMAIN Changes[g - A] : Changes[g - A][a].nr = nr
      BY <1>11
    <3>2. PICK b \in DOMAIN Changes[h - A] : Changes[h - A][b].nr = nr
      BY <1>11, <2>2
    <3>3. g - A \in DOMAIN Changes /\ h - A \in DOMAIN Changes
      BY <1>7, <1>11, <2>2
    <3>4. g - A # h - A
      BY <1>7, <1>9, <2>2
    <3>5. PICK i, j \in DOMAIN records : /\ i # j /\ Changes[g - A][a] = records[i]
                                         /\ Changes[h - A][b] = records[j]
      BY <1>5, <3>3, <3>4
    <3> QED
      BY <3>1, <3>2, <3>5 DEF RecordsPlaced, RecordsSound
  <2>3. ASSUME NEW nr \in DOMAIN fate', fate'[nr] = "delivering"
        PROVE  \E g \in DOMAIN groups' : nr \in Numbers(groups'[g])
    <3>1. PICK i \in DOMAIN records : records[i].nr = nr
      BY <1>3, <2>3 DEF RecordsPlaced, RecordsSound
    <3>2. PICK k \in 1..B : records[i] \in ToSet(Changes[k])
      BY <1>5, <1>7
    <3>3. PICK a \in DOMAIN Changes[k] : Changes[k][a] = records[i]
      BY <3>2 DEF ToSet
    <3>4. A + k \in 1..(A + B) /\ ~ (A + k <= A) /\ (A + k) - A = k
      BY <1>7
    <3>5. groups'[A + k].recs = Changes[k] /\ A + k \in DOMAIN groups'
      BY <1>7, <1>9, <3>4
    <3> QED
      BY <3>1, <3>3, <3>5 DEF Numbers
  <2>4. \A g : Numbers(groups[g])' = Numbers(groups'[g])
    BY DEF Numbers
  <2> QED
    BY <2>1, <2>2, <2>3, <2>4 DEF GroupsSound
<1> QED
  BY <1>4, <1>13 DEF RecordsPlaced

\* The first group is done with.
LEMMA RecordsDeliver ==
  ASSUME Typed, RecordsPlaced, DeliverGroup
  PROVE  RecordsPlaced'
<1> USE DEF Typed, ObserversTyped
<1>1. PICK how \in {"delivered", "dropped"} : fate' = MarkAs(Head(groups), how)
  BY DEF DeliverGroup
<1>2. groups # << >> /\ groups' = Tail(groups) /\ records' = records
  BY DEF DeliverGroup
<1>3. /\ Len(groups) \in Nat /\ 1 \in DOMAIN groups /\ Head(groups) = groups[1]
      /\ DOMAIN groups = 1..Len(groups) /\ DOMAIN groups' = 1..(Len(groups) - 1)
      /\ \A g \in 1..(Len(groups) - 1) : groups'[g] = groups[g + 1]
  BY <1>2
<1>4. DOMAIN fate' = DOMAIN fate
      /\ \A i \in DOMAIN fate : fate'[i] = IF i \in Numbers(groups[1]) THEN how ELSE fate[i]
  BY <1>1, <1>3 DEF MarkAs
<1>5. \A i \in Numbers(groups[1]) : i \in DOMAIN fate /\ fate[i] = "delivering"
  BY <1>3 DEF RecordsPlaced, GroupsSound
<1>6. \A i \in DOMAIN fate : /\ fate'[i] = "queued" <=> fate[i] = "queued"
                             /\ fate'[i] = "delivering" <=> fate[i] = "delivering" /\ i \notin Numbers(groups[1])
  BY <1>4, <1>5
<1>7. RecordsSound'
  BY <1>2, <1>4, <1>6 DEF RecordsPlaced, RecordsSound
<1>8. \A g : Numbers(groups[g])' = Numbers(groups'[g])
  BY DEF Numbers
<1>9. \A g \in 1..(Len(groups) - 1) : g + 1 \in DOMAIN groups /\ g + 1 # 1
  BY <1>3
<1>10. \A g \in DOMAIN groups : g = 1 \/ (g - 1 \in 1..(Len(groups) - 1) /\ (g - 1) + 1 = g)
  BY <1>3
<1>11. \A g, h \in DOMAIN groups : \A nr \in Numbers(groups[g]) : nr \in Numbers(groups[h]) => g = h
  BY DEF RecordsPlaced, GroupsSound
<1>12. ASSUME NEW g \in DOMAIN groups', NEW nr \in Numbers(groups'[g])
       PROVE  nr \in DOMAIN fate' /\ fate'[nr] = "delivering"
  <2>1. g + 1 \in DOMAIN groups /\ g + 1 # 1 /\ nr \in Numbers(groups[g + 1])
    BY <1>3, <1>9
  <2>2. nr \in DOMAIN fate /\ fate[nr] = "delivering"
    BY <2>1 DEF RecordsPlaced, GroupsSound
  <2>3. nr \notin Numbers(groups[1])
    BY <1>3, <1>11, <2>1
  <2> QED
    BY <1>4, <1>6, <2>2, <2>3
<1>13. ASSUME NEW g \in DOMAIN groups', NEW h \in DOMAIN groups', NEW nr \in Numbers(groups'[g]),
              nr \in Numbers(groups'[h])
       PROVE  g = h
  <2>1. g + 1 \in DOMAIN groups /\ h + 1 \in DOMAIN groups
    BY <1>3, <1>9
  <2>2. nr \in Numbers(groups[g + 1]) /\ nr \in Numbers(groups[h + 1])
    BY <1>3, <1>13
  <2>3. g + 1 = h + 1
    BY <1>11, <2>1, <2>2
  <2> QED
    BY <1>3, <2>3
<1>14. ASSUME NEW nr \in DOMAIN fate', fate'[nr] = "delivering"
       PROVE  \E g \in DOMAIN groups' : nr \in Numbers(groups'[g])
  <2>1. nr \in DOMAIN fate /\ fate[nr] = "delivering" /\ nr \notin Numbers(groups[1])
    BY <1>4, <1>6, <1>14
  <2>2. PICK g \in DOMAIN groups : nr \in Numbers(groups[g])
    BY <2>1 DEF RecordsPlaced, GroupsSound
  <2>3. g - 1 \in DOMAIN groups' /\ groups'[g - 1] = groups[g]
    BY <1>3, <1>10, <2>1, <2>2
  <2> QED
    BY <2>2, <2>3
<1>15. GroupsSound'
  BY <1>8, <1>12, <1>13, <1>14 DEF GroupsSound
<1> QED
  BY <1>7, <1>15 DEF RecordsPlaced

LEMMA RecordsNext ==
  ASSUME Typed, RecordsPlaced, [Next]_vars
  PROVE  RecordsPlaced'
<1>1. CASE Mutate
  BY <1>1, RecordsMutate
<1>2. CASE MutationCollect
  <2>1. PICK o \in Observers : Collect(o, "taken") \/ Collect(o, "dropped")
    BY <1>2 DEF MutationCollect, TakeRecords, Disconnect
  <2> QED
    BY <1>2, <2>1, RecordsCollect DEF MutationCollect, pumpVars
<1>3. CASE FlushStarts
  BY <1>3, RecordsFlush
<1>4. CASE DeliverGroup
  BY <1>4, RecordsDeliver
<1>5. CASE ScheduleTimer \/ Ask \/ ClearTimer \/ Resolve \/ Tick \/ UNCHANGED vars
  BY <1>5, RecordsFrame DEF ScheduleTimer, Ask, ClearTimer, Resolve, Tick, vars, observerVars, pumpVars
<1>6. CASE Observe \/ Unobserve \/ TakeNotifications \/ MutationObserve \/ MutationUnobserve
  BY <1>6, RecordsFrame DEF Observe, Unobserve, TakeNotifications, MutationObserve, MutationUnobserve, pumpVars
<1>7. CASE TaskEnds \/ PumpStops \/ BatchDone \/ ObserverReturns \/ FlushEnds \/ CallbackEnds
  BY <1>7, RecordsFrame
  DEF TaskEnds, PumpStops, BatchDone, ObserverReturns, FlushEnds, CallbackEnds, observerVars
<1>8. CASE FireDueTimers \/ FireTimer
  BY <1>8, RecordsFrame DEF FireDueTimers, FireTimer, observerVars
<1> QED
  BY <1>1, <1>2, <1>3, <1>4, <1>5, <1>6, <1>7, <1>8 DEF Next, ScriptCalls, PumpSteps

\* The places RecordsInOnePlace counts.
Places(nr) ==
  {<<"queue", i>> : i \in {j \in DOMAIN records : records[j].nr = nr}}
  \cup {<<"group", i>> : i \in {j \in DOMAIN groups : nr \in Numbers(groups[j])}}

LEMMA OnePlace ==
  ASSUME RecordsPlaced, NEW nr \in DOMAIN fate
  PROVE  Cardinality(Places(nr)) = (IF fate[nr] \in {"queued", "delivering"} THEN 1 ELSE 0)
<1>1. \A j \in DOMAIN records : records[j].nr = nr => fate[nr] = "queued"
  BY DEF RecordsPlaced, RecordsSound
<1>2. \A j \in DOMAIN groups : nr \in Numbers(groups[j]) => fate[nr] = "delivering"
  BY DEF RecordsPlaced, GroupsSound
<1>3. CASE fate[nr] = "queued"
  <2>1. PICK k \in DOMAIN records : records[k].nr = nr
    BY <1>3 DEF RecordsPlaced, RecordsSound
  <2>2. {j \in DOMAIN records : records[j].nr = nr} = {k}
    BY <2>1 DEF RecordsPlaced, RecordsSound
  <2>3. {j \in DOMAIN groups : nr \in Numbers(groups[j])} = {}
    BY <1>2, <1>3
  <2>4. Places(nr) = {<<"queue", k>>}
    BY <2>2, <2>3 DEF Places
  <2> QED
    BY <1>3, <2>4, FS_Singleton
<1>4. CASE fate[nr] = "delivering"
  <2>1. PICK g \in DOMAIN groups : nr \in Numbers(groups[g])
    BY <1>4 DEF RecordsPlaced, GroupsSound
  <2>2. {j \in DOMAIN groups : nr \in Numbers(groups[j])} = {g}
    BY <2>1 DEF RecordsPlaced, GroupsSound
  <2>3. {j \in DOMAIN records : records[j].nr = nr} = {}
    BY <1>1, <1>4
  <2>4. Places(nr) = {<<"group", g>>}
    BY <2>2, <2>3 DEF Places
  <2> QED
    BY <1>4, <2>4, FS_Singleton
<1>5. CASE fate[nr] \notin {"queued", "delivering"}
  <2>1. Places(nr) = {}
    BY <1>1, <1>2, <1>5 DEF Places
  <2> QED
    BY <1>5, <2>1, FS_EmptySet
<1> QED
  BY <1>3, <1>4, <1>5

\* A mutation record is in one place only: queued, being delivered, or done with.
\* None is lost by a flush, and none is seen twice, by the callback and by
\* takeRecords or by two flushes (cb_observer_flush, cb_mo_take_records).
THEOREM RecordsAlwaysInOnePlace == Spec => []RecordsInOnePlace
<1>1. Typed /\ RecordsPlaced /\ [Next]_vars => Typed' /\ RecordsPlaced'
  BY TypedNext, RecordsNext
<1>2. RecordsPlaced => RecordsInOnePlace
  BY OnePlace DEF RecordsInOnePlace, Places
<1> QED
  BY <1>1, <1>2, TypedInit, RecordsInit, PTL DEF Spec
=============================================================================
