---------------------------- MODULE WebApiProofs -----------------------------
(***************************************************************************)
(* Proofs about WebApi, Audio and StructuredClone.                         *)
(*                                                                         *)
(* WebApi: the callbacks of a signal run once, a cache serves what was put *)
(* there, and an XMLHttpRequest shows one answer.  The three concern three *)
(* separate parts of the state, and each has an inductive invariant of its *)
(* own.                                                                    *)
(*                                                                         *)
(* Audio: a rendering of plain chains is the signal that reaches the       *)
(* destination.  One adds up whole chains, the other what comes in at each *)
(* node.  AreWeights says what the output of each node counts for at the   *)
(* destination, so many edges before it; StepBack that the sum of what is  *)
(* counted stays when all of it is taken one edge further back, down to    *)
(* the sources.                                                            *)
(*                                                                         *)
(* StructuredClone: the copy is the original over again.  CloneSound says  *)
(* what the copies under way have in common with it; JointFollow that a    *)
(* path then leads to a cell and to its copy, or ends in both; and         *)
(* RefusedIsThere that the calls under way are a path to what is refused.  *)
(***************************************************************************)
EXTENDS WebApi, Audio, StructuredClone, FiniteSetTheorems, SequenceTheorems, WellFoundedInduction, TLAPS

---------------------------------------------------------------------------
(* The inductive invariants.                                                *)

Listeners == [reg : Nat, cb : Callbacks]
Signals == [aborted : BOOLEAN, reason : Reasons \cup {NoReason}, on : BOOLEAN,
            listeners : SUBSET Listeners]
Frames == [signal : Controllers, todo : SUBSET Nat, listed : BOOLEAN]

DomTyped ==
  /\ signals \in [Controllers -> Signals]
  /\ called \in Seq(Nat)
  /\ firing \in Seq(Frames)

\* The listeners of a controller are still to be listed: it is not aborted, or its
\* dispatch is at onabort.
Unlisted(c) ==
  \/ ~ signals[c].aborted
  \/ \E i \in DOMAIN firing : firing[i].signal = c /\ ~ firing[i].listed

\* A registration is one of one controller.
RegistrationsApart ==
  \A c \in Controllers : \A l \in signals[c].listeners :
    /\ l.reg \in DOMAIN called
    /\ \A d \in Controllers : \A m \in signals[d].listeners : l.reg = m.reg => c = d

\* One dispatch of a signal at a time, of an aborted one.
FramesApart ==
  \A i \in DOMAIN firing :
    /\ signals[firing[i].signal].aborted
    /\ \A j \in DOMAIN firing : firing[i].signal = firing[j].signal => i = j

\* What a dispatch has to call was not called yet, and no other has to call it.
TodoIsFresh ==
  \A i \in DOMAIN firing : \A r \in firing[i].todo :
    r # 0 =>
      /\ firing[i].listed /\ r \in DOMAIN called /\ called[r] = 0
      /\ \A j \in DOMAIN firing : r \in firing[j].todo => i = j

\* Nothing has called a listener that is still to be listed, and nothing is about to.
UnlistedIsFresh ==
  \A c \in Controllers : Unlisted(c) =>
    \A l \in signals[c].listeners :
      called[l.reg] = 0 /\ \A i \in DOMAIN firing : l.reg \notin firing[i].todo

DomInv ==
  /\ DomTyped /\ RegistrationsApart /\ FramesApart /\ TodoIsFresh /\ UnlistedIsFresh
  /\ \A r \in DOMAIN called : called[r] <= 1

Held == Bodies \cup {Nothing}
Responses == [text : {"pair", "promise", "refuses", "throws", "bare", "none"}, body : Held]
Records == [Keys -> Held \cup {NoEntry}]
PutsMade == [rec : Nat, key : Keys, resp : Nat, settled : BOOLEAN, refused : BOOLEAN]
PutJobs == [put : Nat, body : Held \cup {Undefined}]
AddJobs == [rec : Nat, key : Keys, resp : Nat]

CacheTyped ==
  /\ responses \in Seq(Responses)
  /\ records \in Seq(Records)
  /\ puts \in Seq(PutsMade)
  /\ jobs \in Seq(PutJobs \cup AddJobs)

\* What puts and adds name is there.
NamesKept ==
  /\ \A p \in DOMAIN puts : puts[p].rec \in DOMAIN records /\ puts[p].resp \in DOMAIN responses
  /\ \A i \in DOMAIN jobs :
       /\ jobs[i] \in PutJobs => jobs[i].put \in DOMAIN puts
       /\ jobs[i] \in AddJobs => jobs[i].rec \in DOMAIN records /\ jobs[i].resp \in DOMAIN responses

\* A promise that resolves with anything but the body comes too late.
LateOrRight ==
  \A i \in DOMAIN jobs : jobs[i] \in PutJobs =>
    \/ puts[jobs[i].put].settled
    \/ jobs[i].body = responses[puts[jobs[i].put].resp].body

CacheInv == CacheTyped /\ NamesKept /\ LateOrRight /\ CacheServesWhatWasPut

XhrInv ==
  /\ xhr \in [opened : BOOLEAN, status : {0, 200}, text : Bodies \cup {Nothing},
              headers : Bodies \cup {Nothing}]
  /\ ~ xhr.opened => xhr.text = Nothing /\ xhr.headers = Nothing
  /\ XhrAnswersTogether

---------------------------------------------------------------------------
(* Sequences.                                                               *)

\* Append, by places.
LEMMA Appended ==
  ASSUME NEW S, NEW s \in Seq(S), NEW e \in S
  PROVE  /\ Append(s, e) \in Seq(S)
         /\ DOMAIN s = 1..Len(s) /\ Len(s) \in Nat
         /\ DOMAIN Append(s, e) = DOMAIN s \cup {Len(s) + 1}
         /\ \A i \in DOMAIN s : Append(s, e)[i] = s[i]
         /\ Append(s, e)[Len(s) + 1] = e
<1> DEFINE t == Append(s, e)
<1>1. t \in Seq(S) /\ Len(t) = Len(s) + 1
  BY AppendProperties
<1>2. DOMAIN s = 1..Len(s) /\ Len(s) \in Nat /\ DOMAIN t = 1..Len(t)
  BY <1>1, LenProperties
<1>3. (\A i \in 1..Len(s) : t[i] = s[i]) /\ t[Len(s) + 1] = e
  BY AppendProperties
<1> HIDE DEF t
<1>4. DOMAIN t = DOMAIN s \cup {Len(s) + 1}
  BY <1>1, <1>2
<1> QED
  BY <1>1, <1>2, <1>3, <1>4 DEF t

\* What SubSeqProperties says of all places but the last.
LEMMA ButTheLast ==
  ASSUME NEW n \in Nat, n # 0, NEW m, m = IF 1 <= n - 1 THEN n - 1 - 1 + 1 ELSE 0
  PROVE  m = n - 1 /\ n - 1 - 1 + 1 = n - 1 /\ \A i \in 1..(n - 1) : 1 + i - 1 = i
OBVIOUS

\* The last element replaced.
LEMMA LastReplaced ==
  ASSUME NEW S, NEW s \in Seq(S), s # <<>>, NEW e \in S
  PROVE  /\ Append(Front(s), e) \in Seq(S) /\ DOMAIN Append(Front(s), e) = DOMAIN s
         /\ Len(s) \in DOMAIN s /\ Last(s) = s[Len(s)] /\ Last(s) \in S
         /\ \A i \in DOMAIN s : Append(Front(s), e)[i] = IF i = Len(s) THEN e ELSE s[i]
<1> DEFINE f == Front(s)
           t == Append(f, e)
<1>1. Len(s) \in Nat \ {0} /\ DOMAIN s = 1..Len(s)
  BY EmptySeq, LenProperties
<1>2. \A i \in 1..Len(s) : s[i] \in S
  BY ElementOfSeq
<1>3. /\ f \in Seq(S) /\ Len(f) = Len(s) - 1
      /\ \A i \in 1..(Len(s) - 1) : f[i] = s[i]
  <2>1. Len(s) - 1 \in Int /\ \A i \in 1..(Len(s) - 1) : s[i] \in S
    BY <1>1, <1>2
  <2>2. /\ f \in Seq(S)
        /\ Len(f) = IF 1 <= Len(s) - 1 THEN (Len(s) - 1) - 1 + 1 ELSE 0
        /\ \A i \in 1 .. (Len(s) - 1) - 1 + 1 : f[i] = s[1 + i - 1]
    BY <2>1, SubSeqProperties DEF Front
  <2> HIDE DEF f
  <2>3. /\ Len(f) = Len(s) - 1 /\ (Len(s) - 1) - 1 + 1 = Len(s) - 1
        /\ \A i \in 1..(Len(s) - 1) : 1 + i - 1 = i
    BY <2>2, <1>1, ButTheLast
  <2> QED
    BY <2>2, <2>3
<1> HIDE DEF f
<1>4. /\ t \in Seq(S) /\ DOMAIN t = DOMAIN f \cup {Len(f) + 1} /\ DOMAIN f = 1..Len(f)
      /\ \A i \in DOMAIN f : t[i] = f[i]
      /\ t[Len(f) + 1] = e
  BY <1>3, Appended
<1> HIDE DEF t
<1>5. t \in Seq(S) /\ DOMAIN t = DOMAIN s /\ \A i \in DOMAIN s : t[i] = IF i = Len(s) THEN e ELSE s[i]
  BY <1>1, <1>3, <1>4
<1>6. Len(s) \in DOMAIN s /\ Last(s) = s[Len(s)] /\ Last(s) \in S
  BY <1>1, <1>2 DEF Last
<1> QED
  BY <1>5, <1>6 DEF f, t

\* The last element taken away.
LEMMA LastDropped ==
  ASSUME NEW S, NEW s \in Seq(S), s # <<>>
  PROVE  /\ Front(s) \in Seq(S) /\ DOMAIN Front(s) = DOMAIN s \ {Len(s)}
         /\ \A i \in DOMAIN Front(s) : Front(s)[i] = s[i]
<1> DEFINE f == Front(s)
<1>1. Len(s) \in Nat \ {0} /\ DOMAIN s = 1..Len(s)
  BY EmptySeq, LenProperties
<1>2. Len(s) - 1 \in Int /\ \A i \in 1..(Len(s) - 1) : s[i] \in S
  BY <1>1, ElementOfSeq
<1>3. /\ f \in Seq(S)
      /\ Len(f) = IF 1 <= Len(s) - 1 THEN (Len(s) - 1) - 1 + 1 ELSE 0
      /\ \A i \in 1 .. (Len(s) - 1) - 1 + 1 : f[i] = s[1 + i - 1]
  BY <1>2, SubSeqProperties DEF Front
<1> HIDE DEF f
<1>4. DOMAIN f = 1..Len(f)
  BY <1>3, LenProperties
<1>5. /\ Len(f) = Len(s) - 1 /\ (Len(s) - 1) - 1 + 1 = Len(s) - 1
      /\ \A i \in 1..(Len(s) - 1) : 1 + i - 1 = i
  BY <1>1, <1>3, ButTheLast
<1>6. DOMAIN f = DOMAIN s \ {Len(s)}
  BY <1>1, <1>4, <1>5
<1>7. \A i \in DOMAIN f : f[i] = s[i]
  BY <1>3, <1>4, <1>5
<1> QED
  BY <1>3, <1>6, <1>7 DEF f

\* The first element taken away.
LEMMA FirstDropped ==
  ASSUME NEW S, NEW s \in Seq(S), s # <<>>
  PROVE  /\ Tail(s) \in Seq(S) /\ Head(s) = s[1] /\ 1 \in DOMAIN s /\ Head(s) \in S
         /\ \A i \in DOMAIN Tail(s) : i + 1 \in DOMAIN s /\ Tail(s)[i] = s[i + 1]
<1>1. Len(s) \in Nat \ {0} /\ DOMAIN s = 1..Len(s)
  BY EmptySeq, LenProperties
<1>2. /\ Head(s) \in S /\ Tail(s) \in Seq(S) /\ Len(Tail(s)) = Len(s) - 1
      /\ \A i \in 1..Len(Tail(s)) : Tail(s)[i] = s[i + 1]
  BY HeadTailProperties
<1>3. DOMAIN Tail(s) = 1..Len(Tail(s))
  BY <1>2, LenProperties
<1>4. Head(s) = s[1]
  OBVIOUS
<1> QED
  BY <1>1, <1>2, <1>3, <1>4

---------------------------------------------------------------------------
(* Signals fire once.                                                       *)

LEMMA DomInit == Init => DomInv
<1> SUFFICES ASSUME Init PROVE DomInv
  OBVIOUS
<1> DEFINE fresh == [aborted |-> FALSE, reason |-> NoReason, on |-> FALSE, listeners |-> {}]
<1>1. signals = [c \in Controllers |-> fresh] /\ called = <<>> /\ firing = <<>>
  BY DEF Init
<1>2. fresh \in Signals /\ fresh.listeners = {}
  BY DEF Signals
<1> HIDE DEF fresh
<1>3. signals \in [Controllers -> Signals] /\ \A c \in Controllers : signals[c].listeners = {}
  BY <1>1, <1>2
<1>4. called \in Seq(Nat) /\ firing \in Seq(Frames) /\ DOMAIN called = {} /\ DOMAIN firing = {}
  BY <1>1, EmptySeq
<1> QED
  BY <1>3, <1>4 DEF DomInv, DomTyped, RegistrationsApart, FramesApart, TodoIsFresh, UnlistedIsFresh

LEMMA FrameTypes ==
  ASSUME DomInv
  PROVE  \A i \in DOMAIN firing : firing[i] \in Frames /\ firing[i].signal \in Controllers
                                 /\ firing[i].todo \in SUBSET Nat
<1>1. firing \in Seq(Frames) /\ DOMAIN firing = 1..Len(firing)
  BY LenProperties DEF DomInv, DomTyped
<1>2. \A i \in DOMAIN firing : firing[i] \in Frames
  BY <1>1, ElementOfSeq
<1> QED
  BY <1>2 DEF Frames

LEMMA DomStutter ==
  ASSUME DomInv, UNCHANGED dom
  PROVE  DomInv'
BY DEF dom, DomInv, DomTyped, RegistrationsApart, FramesApart, TodoIsFresh, UnlistedIsFresh, Unlisted

\* addEventListener registers under a number that nothing has.
LEMMA AddListenerKeeps ==
  ASSUME DomInv, NEW c \in Controllers, NEW f \in Callbacks, AddListener(c, f)
  PROVE  DomInv'
<1> DEFINE new == Len(called) + 1
           l0 == [reg |-> new, cb |-> f]
<1>1. /\ called \in Seq(Nat) /\ signals \in [Controllers -> Signals] /\ firing \in Seq(Frames)
  BY DEF DomInv, DomTyped
<1>2. /\ called' \in Seq(Nat) /\ DOMAIN called' = DOMAIN called \cup {new} /\ new \in Nat
      /\ new \notin DOMAIN called
      /\ \A r \in DOMAIN called : called'[r] = called[r]
      /\ called'[new] = 0
  <2>1. called' = Append(called, 0) /\ 0 \in Nat
    BY DEF AddListener
  <2>2. /\ Append(called, 0) \in Seq(Nat)
        /\ DOMAIN called = 1..Len(called) /\ Len(called) \in Nat
        /\ DOMAIN Append(called, 0) = DOMAIN called \cup {new}
        /\ \A i \in DOMAIN called : Append(called, 0)[i] = called[i]
        /\ Append(called, 0)[new] = 0
    BY <1>1, <2>1, Appended
  <2> QED
    BY <2>1, <2>2
<1> HIDE DEF new
<1>3. /\ \A d \in Controllers : signals'[d].aborted = signals[d].aborted
      /\ \A d \in Controllers : d # c => signals'[d].listeners = signals[d].listeners
      /\ signals'[c].listeners = signals[c].listeners \cup {l0}
      /\ signals' \in [Controllers -> Signals]
      /\ firing' = firing
  <2>1. l0 \in Listeners
    BY <1>2 DEF Listeners
  <2>2. /\ signals' = [signals EXCEPT ![c].listeners = @ \cup {l0}]
        /\ firing' = firing
    BY DEF AddListener, new
  <2> HIDE DEF l0
  <2>3. signals[c] \in Signals /\ signals[c].listeners \cup {l0} \in SUBSET Listeners
    BY <1>1, <2>1 DEF Signals
  <2>4. [signals[c] EXCEPT !.listeners = @ \cup {l0}] \in Signals
    BY <2>3 DEF Signals
  <2> QED
    BY <1>1, <2>2, <2>3, <2>4 DEF Signals
<1>4. l0.reg = new
  OBVIOUS
<1> HIDE DEF l0
<1>5. DomTyped'
  BY <1>1, <1>2, <1>3 DEF DomTyped
<1>6. \A d \in Controllers : \A l \in signals'[d].listeners :
        (l \in signals[d].listeners /\ l.reg \in DOMAIN called) \/ (d = c /\ l.reg = new)
  BY <1>3, <1>4 DEF DomInv, RegistrationsApart
<1>7. RegistrationsApart'
  BY <1>2, <1>6 DEF DomInv, RegistrationsApart
<1>8. FramesApart'
  <2>1. \A i \in DOMAIN firing : firing[i].signal \in Controllers
    BY FrameTypes
  <2> QED
    BY <1>3, <2>1 DEF DomInv, FramesApart
<1>9. TodoIsFresh'
  BY <1>2, <1>3 DEF DomInv, TodoIsFresh
<1>10. UnlistedIsFresh'
  <2>1. \A i \in DOMAIN firing : new \notin firing[i].todo
    <3>1. new # 0
      BY <1>1, LenProperties DEF new
    <3> QED
      BY <1>2, <3>1 DEF DomInv, TodoIsFresh
  <2>2. SUFFICES ASSUME NEW d \in Controllers, Unlisted(d)', NEW l \in signals'[d].listeners
                 PROVE  called'[l.reg] = 0 /\ \A i \in DOMAIN firing : l.reg \notin firing[i].todo
    BY <1>3 DEF UnlistedIsFresh
  <2>3. Unlisted(d)
    BY <1>3, <2>2 DEF Unlisted
  <2>4. CASE l \in signals[d].listeners /\ l.reg \in DOMAIN called
    BY <1>2, <2>3, <2>4 DEF DomInv, UnlistedIsFresh
  <2>5. CASE l.reg = new
    BY <1>2, <2>1, <2>5
  <2> QED
    BY <1>6, <2>2, <2>4, <2>5
<1>11. (\A r \in DOMAIN called : called[r] <= 1)'
  BY <1>2 DEF DomInv
<1> QED
  BY <1>5, <1>7, <1>8, <1>9, <1>10, <1>11 DEF DomInv

\* Fewer listeners, or another onabort: the rest of the signals as before.
LEMMA FewerListenersKeep ==
  ASSUME DomInv, UNCHANGED << called, firing >>, signals' \in [Controllers -> Signals],
         \A d \in Controllers : /\ signals'[d].aborted = signals[d].aborted
                                /\ signals'[d].listeners \subseteq signals[d].listeners
  PROVE  DomInv'
<1>1. \A i \in DOMAIN firing : firing[i].signal \in Controllers
  BY FrameTypes
<1>2. DomTyped' /\ RegistrationsApart'
  BY DEF DomInv, DomTyped, RegistrationsApart
<1>3. FramesApart' /\ TodoIsFresh'
  BY <1>1 DEF DomInv, FramesApart, TodoIsFresh
<1>4. \A d \in Controllers : Unlisted(d)' => Unlisted(d)
  BY DEF Unlisted
<1>5. UnlistedIsFresh'
  BY <1>4 DEF DomInv, UnlistedIsFresh
<1> QED
  BY <1>2, <1>3, <1>5 DEF DomInv

LEMMA RemoveListenerKeeps ==
  ASSUME DomInv, NEW c \in Controllers, NEW f \in Callbacks, RemoveListener(c, f)
  PROVE  DomInv'
<1>1. signals \in [Controllers -> Signals] /\ signals[c] \in Signals
  BY DEF DomInv, DomTyped
<1>2. /\ signals' = [signals EXCEPT ![c].listeners = {l \in @ : l.cb # f}]
      /\ UNCHANGED << called, firing >>
  BY DEF RemoveListener
<1>3. [signals[c] EXCEPT !.listeners = {l \in @ : l.cb # f}] \in Signals
  BY <1>1 DEF Signals
<1>4. /\ signals' \in [Controllers -> Signals]
      /\ \A d \in Controllers : /\ signals'[d].aborted = signals[d].aborted
                                /\ signals'[d].listeners \subseteq signals[d].listeners
  BY <1>1, <1>2, <1>3 DEF Signals
<1> QED
  BY <1>2, <1>4, FewerListenersKeep

LEMMA SetOnAbortKeeps ==
  ASSUME DomInv, NEW c \in Controllers, SetOnAbort(c)
  PROVE  DomInv'
<1>1. signals \in [Controllers -> Signals] /\ signals[c] \in Signals
  BY DEF DomInv, DomTyped
<1>2. /\ signals' = [signals EXCEPT ![c].on = ~ @]
      /\ UNCHANGED << called, firing >>
  BY DEF SetOnAbort
<1>3. [signals[c] EXCEPT !.on = ~ @] \in Signals
  BY <1>1 DEF Signals
<1>4. /\ signals' \in [Controllers -> Signals]
      /\ \A d \in Controllers : /\ signals'[d].aborted = signals[d].aborted
                                /\ signals'[d].listeners \subseteq signals[d].listeners
  BY <1>1, <1>2, <1>3 DEF Signals
<1> QED
  BY <1>2, <1>4, FewerListenersKeep

\* abort puts a dispatch on the stack, the only one of its signal.
LEMMA AbortKeeps ==
  ASSUME DomInv, NEW c \in Controllers, NEW reason \in Reasons, Abort(c, reason)
  PROVE  DomInv'
<1> DEFINE new == Len(firing) + 1
           frame == Dispatch(c)
<1>1. signals \in [Controllers -> Signals] /\ firing \in Seq(Frames) /\ signals[c] \in Signals
  BY DEF DomInv, DomTyped
<1>2. frame \in Frames /\ frame.signal = c /\ ~ frame.listed /\ \A r \in frame.todo : r = 0
  BY DEF Dispatch, Frames
<1> HIDE DEF frame
<1>3. /\ firing' \in Seq(Frames) /\ DOMAIN firing' = DOMAIN firing \cup {new}
      /\ new \notin DOMAIN firing
      /\ \A i \in DOMAIN firing : firing'[i] = firing[i]
      /\ firing'[new] = frame
  <2>1. firing' = Append(firing, frame)
    BY DEF Abort, frame
  <2>2. /\ Append(firing, frame) \in Seq(Frames)
        /\ DOMAIN firing = 1..Len(firing) /\ Len(firing) \in Nat
        /\ DOMAIN Append(firing, frame) = DOMAIN firing \cup {new}
        /\ \A i \in DOMAIN firing : Append(firing, frame)[i] = firing[i]
        /\ Append(firing, frame)[new] = frame
    BY <1>1, <1>2, Appended
  <2> QED
    BY <2>1, <2>2
<1> HIDE DEF new
<1>4. /\ signals' \in [Controllers -> Signals]
      /\ \A d \in Controllers : /\ signals'[d].listeners = signals[d].listeners
                                /\ signals[d].aborted => signals'[d].aborted
                                /\ d # c => signals'[d].aborted = signals[d].aborted
      /\ signals'[c].aborted
      /\ called' = called
      /\ ~ signals[c].aborted
  <2>1. /\ signals' = [signals EXCEPT ![c].aborted = TRUE, ![c].reason = reason]
        /\ called' = called /\ ~ signals[c].aborted
    BY DEF Abort
  <2>2. [[signals[c] EXCEPT !.aborted = TRUE] EXCEPT !.reason = reason] \in Signals
    BY <1>1 DEF Signals
  <2> QED
    BY <1>1, <2>1, <2>2 DEF Signals
<1>5. \A i \in DOMAIN firing : firing[i].signal \in Controllers /\ firing[i].signal # c
  BY <1>4, FrameTypes DEF DomInv, FramesApart
<1>6. DomTyped'
  BY <1>3, <1>4 DEF DomInv, DomTyped
<1>7. RegistrationsApart'
  BY <1>4 DEF DomInv, RegistrationsApart
<1>8. FramesApart'
  BY <1>2, <1>3, <1>4, <1>5 DEF DomInv, FramesApart
<1>9. TodoIsFresh'
  BY <1>2, <1>3, <1>4 DEF DomInv, TodoIsFresh
<1>10. UnlistedIsFresh'
  <2>1. SUFFICES ASSUME NEW d \in Controllers, Unlisted(d)', NEW l \in signals[d].listeners
                 PROVE  called[l.reg] = 0 /\ \A i \in DOMAIN firing' : l.reg \notin firing'[i].todo
    BY <1>4 DEF UnlistedIsFresh
  <2>2. Unlisted(d)
    <3>1. CASE d = c
      BY <1>4, <3>1 DEF Unlisted
    <3>2. CASE d # c /\ ~ signals'[d].aborted
      BY <1>4, <3>2 DEF Unlisted
    <3>3. CASE d # c /\ \E i \in DOMAIN firing' : firing'[i].signal = d /\ ~ firing'[i].listed
      BY <1>2, <1>3, <3>3 DEF Unlisted
    <3> QED
      BY <2>1, <3>1, <3>2, <3>3 DEF Unlisted
  <2>3. called[l.reg] = 0 /\ \A i \in DOMAIN firing : l.reg \notin firing[i].todo
    BY <2>2 DEF DomInv, UnlistedIsFresh
  <2>4. l.reg # 0
    <3>1. l.reg \in DOMAIN called /\ called \in Seq(Nat)
      BY DEF DomInv, DomTyped, RegistrationsApart
    <3> QED
      BY <3>1, LenProperties
  <2> QED
    BY <1>2, <1>3, <2>3, <2>4
<1>11. (\A r \in DOMAIN called : called[r] <= 1)'
  BY <1>4 DEF DomInv
<1> QED
  BY <1>6, <1>7, <1>8, <1>9, <1>10, <1>11 DEF DomInv

\* The innermost dispatch goes on.
LEMMA TopReplaced ==
  ASSUME firing \in Seq(Frames), firing # <<>>, NEW frame \in Frames,
         firing' = Append(Front(firing), frame)
  PROVE  /\ firing' \in Seq(Frames) /\ DOMAIN firing' = DOMAIN firing
         /\ \A i \in DOMAIN firing : firing'[i] = IF i = Len(firing) THEN frame ELSE firing[i]
BY LastReplaced

\* A dispatch calls the next of its callbacks.
LEMMA CallbackKeeps ==
  ASSUME DomInv, firing # <<>>, NEW r \in Last(firing).todo, UNCHANGED signals,
         called' = IF r = 0 THEN called ELSE [called EXCEPT ![r] = @ + 1],
         firing' = Append(Front(firing), [Last(firing) EXCEPT !.todo = @ \ {r}])
  PROVE  DomInv'
<1> DEFINE n == Len(firing)
           top == Last(firing)
           frame == [top EXCEPT !.todo = @ \ {r}]
<1>1. firing \in Seq(Frames) /\ called \in Seq(Nat)
  BY DEF DomInv, DomTyped
<1>2. n \in DOMAIN firing /\ top = firing[n] /\ top \in Frames
  BY <1>1, LastReplaced
<1>3. /\ frame \in Frames /\ frame.signal = top.signal /\ frame.listed = top.listed
      /\ frame.todo = top.todo \ {r} /\ top.todo \in SUBSET Nat /\ r \in top.todo
  BY <1>2 DEF Frames
<1>4. /\ firing' \in Seq(Frames) /\ DOMAIN firing' = DOMAIN firing
      /\ \A i \in DOMAIN firing : firing'[i] = IF i = n THEN frame ELSE firing[i]
  <2>1. firing' = Append(Front(firing), frame)
    OBVIOUS
  <2> HIDE DEF frame
  <2> QED
    BY <1>1, <1>3, <2>1, TopReplaced
<1> HIDE DEF n, top, frame
<1>5. \A i \in DOMAIN firing :
        /\ firing'[i].signal = firing[i].signal /\ firing'[i].listed = firing[i].listed
        /\ firing'[i].todo \subseteq firing[i].todo
  BY <1>2, <1>3, <1>4
<1>6. r # 0 => /\ top.listed /\ r \in DOMAIN called /\ called[r] = 0
               /\ \A i \in DOMAIN firing : r \notin firing'[i].todo
  BY <1>2, <1>3, <1>4 DEF DomInv, TodoIsFresh
<1>7. /\ called' \in Seq(Nat) /\ DOMAIN called' = DOMAIN called
      /\ \A q \in DOMAIN called : called'[q] = IF q = r /\ r # 0 THEN 1 ELSE called[q]
  <2>1. CASE r = 0
    BY <1>1, <2>1
  <2>2. CASE r # 0
    <3>1. called' = [called EXCEPT ![r] = 1]
      BY <1>6, <2>2
    <3>2. DOMAIN called = 1..Len(called) /\ r \in 1..Len(called) /\ 1 \in Nat
      BY <1>1, <1>6, <2>2, LenProperties
    <3>3. [called EXCEPT ![r] = 1] \in Seq(Nat)
      BY <1>1, <3>2, ExceptSeq
    <3> QED
      BY <3>1, <3>3, <2>2
  <2> QED
    BY <2>1, <2>2
<1>8. DomTyped'
  BY <1>4, <1>7 DEF DomInv, DomTyped
<1>9. RegistrationsApart'
  BY <1>7 DEF DomInv, RegistrationsApart
<1>10. FramesApart'
  BY <1>4, <1>5, SMTT(60) DEF DomInv, FramesApart
<1>11. TodoIsFresh'
  <2>1. SUFFICES ASSUME NEW i \in DOMAIN firing, NEW q \in firing'[i].todo, q # 0
                 PROVE  /\ firing'[i].listed /\ q \in DOMAIN called /\ called'[q] = 0
                        /\ \A j \in DOMAIN firing : q \in firing'[j].todo => i = j
    <3>1. DOMAIN firing' = DOMAIN firing /\ DOMAIN called' = DOMAIN called
      BY <1>4, <1>7
    <3> QED
      BY <3>1 DEF TodoIsFresh
  <2>2. q \in firing[i].todo /\ q # r
    BY <1>5, <1>6, <2>1
  <2>3. /\ firing[i].listed /\ q \in DOMAIN called /\ called[q] = 0
        /\ \A j \in DOMAIN firing : q \in firing[j].todo => i = j
    BY <2>1, <2>2 DEF DomInv, TodoIsFresh
  <2> QED
    BY <1>5, <1>7, <2>2, <2>3
<1>12. UnlistedIsFresh'
  <2>1. SUFFICES ASSUME NEW d \in Controllers, Unlisted(d)', NEW l \in signals[d].listeners
                 PROVE  called'[l.reg] = 0 /\ \A i \in DOMAIN firing : l.reg \notin firing'[i].todo
    BY <1>4 DEF UnlistedIsFresh
  <2>2. Unlisted(d)
    BY <1>4, <1>5, <2>1 DEF Unlisted
  <2>3. called[l.reg] = 0 /\ \A i \in DOMAIN firing : l.reg \notin firing[i].todo
    BY <2>2 DEF DomInv, UnlistedIsFresh
  <2>4. l.reg \in DOMAIN called /\ l.reg # r
    BY <1>2, <1>3, <2>3 DEF DomInv, RegistrationsApart
  <2> QED
    BY <1>5, <1>7, <2>3, <2>4
<1>13. (\A q \in DOMAIN called : called[q] <= 1)'
  BY <1>7 DEF DomInv
<1> QED
  BY <1>8, <1>9, <1>10, <1>11, <1>12, <1>13 DEF DomInv

\* A dispatch lists the listeners of its signal, after onabort.
LEMMA ListingKeeps ==
  ASSUME DomInv, firing # <<>>, UNCHANGED << signals, called >>,
         Last(firing).todo = {}, ~ Last(firing).listed,
         firing' = Append(Front(firing),
                     [Last(firing) EXCEPT !.listed = TRUE,
                        !.todo = {l.reg : l \in signals[Last(firing).signal].listeners}])
  PROVE  DomInv'
<1> DEFINE n == Len(firing)
           top == Last(firing)
           c == top.signal
           regs == {l.reg : l \in signals[c].listeners}
           frame == [top EXCEPT !.listed = TRUE, !.todo = regs]
<1>1. firing \in Seq(Frames) /\ called \in Seq(Nat) /\ signals \in [Controllers -> Signals]
  BY DEF DomInv, DomTyped
<1>2. n \in DOMAIN firing /\ top = firing[n] /\ top \in Frames
  BY <1>1, LastReplaced
<1>3. c \in Controllers /\ ~ top.listed
  BY <1>2 DEF Frames
<1>4. regs \in SUBSET Nat
  BY <1>1, <1>3 DEF Signals, Listeners
<1>5. \A q \in regs : \E l \in signals[c].listeners : l.reg = q
  OBVIOUS
<1>6. frame \in Frames /\ frame.signal = c /\ frame.listed /\ frame.todo = regs
  <2> HIDE DEF regs
  <2> QED
    BY <1>2, <1>4 DEF Frames
<1>7. /\ firing' \in Seq(Frames) /\ DOMAIN firing' = DOMAIN firing
      /\ \A i \in DOMAIN firing : firing'[i] = IF i = n THEN frame ELSE firing[i]
  <2>1. firing' = Append(Front(firing), frame)
    OBVIOUS
  <2> HIDE DEF frame
  <2> QED
    BY <1>1, <1>6, <2>1, TopReplaced
<1> HIDE DEF n, top, regs, frame
<1> HIDE DEF c
<1>8. firing[n].signal = c
  BY <1>2 DEF c
<1>9. \A i \in DOMAIN firing : firing'[i].signal = firing[i].signal
  BY <1>6, <1>7, <1>8
<1>10. \A q \in regs : /\ q \in DOMAIN called /\ called[q] = 0
                       /\ \A i \in DOMAIN firing : q \notin firing[i].todo
  <2>1. Unlisted(c)
    BY <1>2, <1>3, <1>8 DEF Unlisted
  <2>2. SUFFICES ASSUME NEW l \in signals[c].listeners
                 PROVE  /\ l.reg \in DOMAIN called /\ called[l.reg] = 0
                        /\ \A i \in DOMAIN firing : l.reg \notin firing[i].todo
    BY <1>5
  <2> QED
    BY <1>3, <2>1, <2>2 DEF DomInv, RegistrationsApart, UnlistedIsFresh
<1>16. UNCHANGED << signals, called >>
  OBVIOUS
<1>11. DomTyped' /\ RegistrationsApart'
  <2>1. DomTyped'
    BY <1>1, <1>7, <1>16 DEF DomTyped
  <2>2. RegistrationsApart'
    BY <1>16 DEF DomInv, RegistrationsApart
  <2> QED
    BY <2>1, <2>2
<1>12. FramesApart'
  BY <1>7, <1>9, ZenonT(60) DEF DomInv, FramesApart
<1>13. TodoIsFresh'
  <2>1. SUFFICES ASSUME NEW i \in DOMAIN firing, NEW q \in firing'[i].todo, q # 0
                 PROVE  /\ firing'[i].listed /\ q \in DOMAIN called /\ called[q] = 0
                        /\ \A j \in DOMAIN firing : q \in firing'[j].todo => i = j
    <3>1. DOMAIN firing' = DOMAIN firing
      BY <1>7
    <3> QED
      BY <3>1, <1>16 DEF TodoIsFresh
  <2>2. CASE i = n
    BY <1>6, <1>7, <1>10, <2>1, <2>2
  <2>3. CASE i # n
    <3>1. q \in firing[i].todo /\ q \notin regs
      BY <1>7, <1>10, <2>1, <2>3
    <3> QED
      BY <1>6, <1>7, <2>1, <2>3, <3>1 DEF DomInv, TodoIsFresh
  <2> QED
    BY <2>2, <2>3
<1>14. UnlistedIsFresh'
  <2>1. SUFFICES ASSUME NEW d \in Controllers, Unlisted(d)', NEW l \in signals[d].listeners
                 PROVE  called[l.reg] = 0 /\ \A i \in DOMAIN firing : l.reg \notin firing'[i].todo
    BY <1>7 DEF UnlistedIsFresh
  <2>2. d # c /\ Unlisted(d)
    <3>1. signals[c].aborted /\ \A j \in DOMAIN firing : firing[j].signal = c => j = n
      BY <1>2, <1>8 DEF DomInv, FramesApart
    <3>2. CASE ~ signals[d].aborted
      BY <3>1, <3>2 DEF Unlisted
    <3>3. CASE \E i \in DOMAIN firing : firing'[i].signal = d /\ ~ firing'[i].listed
      <4>1. PICK i \in DOMAIN firing : firing'[i].signal = d /\ ~ firing'[i].listed
        BY <3>3
      <4>2. i # n /\ firing'[i] = firing[i]
        BY <1>6, <1>7, <4>1
      <4> QED
        BY <3>1, <4>1, <4>2 DEF Unlisted
    <3> QED
      BY <1>7, <2>1, <3>2, <3>3 DEF Unlisted
  <2>3. called[l.reg] = 0 /\ \A i \in DOMAIN firing : l.reg \notin firing[i].todo
    BY <2>2 DEF DomInv, UnlistedIsFresh
  <2>4. l.reg \notin regs
    BY <1>3, <1>5, <2>2 DEF DomInv, RegistrationsApart
  <2> QED
    BY <1>6, <1>7, <2>3, <2>4
<1>15. (\A q \in DOMAIN called : called[q] <= 1)'
  BY DEF DomInv
<1> QED
  BY <1>11, <1>12, <1>13, <1>14, <1>15 DEF DomInv

\* A dispatch that has listed returns.
LEMMA ReturnKeeps ==
  ASSUME DomInv, firing # <<>>, UNCHANGED << signals, called >>, Last(firing).listed,
         firing' = Front(firing)
  PROVE  DomInv'
<1> DEFINE n == Len(firing)
<1>1. firing \in Seq(Frames)
  BY DEF DomInv, DomTyped
<1>2. /\ firing' \in Seq(Frames) /\ DOMAIN firing' = DOMAIN firing \ {n}
      /\ \A i \in DOMAIN firing' : firing'[i] = firing[i]
  BY <1>1, LastDropped
<1> HIDE DEF n
<1>3. DomTyped' /\ RegistrationsApart'
  BY <1>2 DEF DomInv, DomTyped, RegistrationsApart
<1>4. FramesApart' /\ TodoIsFresh'
  BY <1>2 DEF DomInv, FramesApart, TodoIsFresh
<1>5. \A d \in Controllers : Unlisted(d)' => Unlisted(d)
  BY <1>2 DEF Unlisted
<1>6. UnlistedIsFresh'
  BY <1>2, <1>5 DEF DomInv, UnlistedIsFresh
<1> QED
  BY <1>3, <1>4, <1>6 DEF DomInv

LEMMA FireKeeps ==
  ASSUME DomInv, Fire
  PROVE  DomInv'
<1>1. firing # <<>> /\ UNCHANGED signals
  BY DEF Fire
<1>2. CASE \E r \in Last(firing).todo :
             /\ called' = IF r = 0 THEN called ELSE [called EXCEPT ![r] = @ + 1]
             /\ firing' = Append(Front(firing), [Last(firing) EXCEPT !.todo = @ \ {r}])
  BY <1>1, <1>2, CallbackKeeps
<1>3. CASE /\ Last(firing).todo = {} /\ ~ Last(firing).listed
           /\ firing' = Append(Front(firing),
                          [Last(firing) EXCEPT !.listed = TRUE,
                             !.todo = {l.reg : l \in signals[Last(firing).signal].listeners}])
           /\ UNCHANGED called
  BY <1>1, <1>3, ListingKeeps
<1>4. CASE Last(firing).listed /\ firing' = Front(firing) /\ UNCHANGED called
  BY <1>1, <1>4, ReturnKeeps
<1> QED
  BY <1>2, <1>3, <1>4 DEF Fire

LEMMA DomStep ==
  ASSUME DomInv, [Next]_vars
  PROVE  DomInv'
<1>1. CASE Call
  <2>1. CASE \E c \in Controllers : \E f \in Callbacks : AddListener(c, f)
    BY <2>1, AddListenerKeeps
  <2>2. CASE \E c \in Controllers : \E f \in Callbacks : RemoveListener(c, f)
    BY <2>2, RemoveListenerKeeps
  <2>3. CASE \E c \in Controllers : SetOnAbort(c)
    BY <2>3, SetOnAbortKeeps
  <2>4. CASE \E c \in Controllers : \E reason \in Reasons : Abort(c, reason)
    BY <2>4, AbortKeeps
  <2>5. CASE \E c \in Controllers : Fetch(c)
    BY <2>5, DomStutter DEF Fetch
  <2>6. CASE \E n \in Names : Open(n) \/ DeleteCache(n) \/ Define(n) \/ WhenDefined(n)
    BY <2>6, DomStutter DEF Open, DeleteCache, Define, WhenDefined
  <2>7. CASE \E r \in DOMAIN records, k \in Keys : DeleteEntry(r, k) \/ Match(r, k) \/ CacheAdd(r, k)
    BY <2>7, DomStutter DEF DeleteEntry, Match, CacheAdd
  <2>8. CASE \E r \in DOMAIN records, k \in Keys : \E resp \in DOMAIN responses : CachePut(r, k, resp)
    BY <2>8, DomStutter DEF CachePut
  <2>9. CASE XhrOpen \/ XhrSend \/ NewSocket \/ SocketSend \/ SocketClose
    BY <2>9, DomStutter DEF XhrOpen, XhrSend, NewSocket, SocketSend, SocketClose
  <2>10. CASE MakeResponse
    BY <2>10, DomStutter DEF MakeResponse
  <2> QED
    BY <1>1, <2>1, <2>2, <2>3, <2>4, <2>5, <2>6, <2>7, <2>8, <2>9, <2>10 DEF Call
<1>2. CASE Fire
  BY <1>2, FireKeeps
<1>3. CASE RunJob
  BY <1>3, DomStutter DEF RunJob
<1>4. CASE UNCHANGED vars
  BY <1>4, DomStutter DEF vars
<1> QED
  BY <1>1, <1>2, <1>3, <1>4 DEF Next

\* The callbacks of a signal run once, for any controllers, callbacks and calls:
\* a dispatch lists only what nothing has called or is about to call
\* (UnlistedIsFresh), and a signal is dispatched once (abort leaves an aborted
\* signal alone).
THEOREM CallbacksRunOnce == Spec => []SignalsFireOnce
<1>1. Init => DomInv
  BY DomInit
<1>2. DomInv /\ [Next]_vars => DomInv'
  BY DomStep
<1>3. DomInv => SignalsFireOnce
  BY DEF DomInv, FramesApart, SignalsFireOnce
<1> QED
  BY <1>1, <1>2, <1>3, PTL DEF Spec

---------------------------------------------------------------------------
(* A cache serves what was put there.                                       *)

LEMMA CacheInit == Init => CacheInv
<1> SUFFICES ASSUME Init PROVE CacheInv
  OBVIOUS
<1>1. responses = <<>> /\ records = <<>> /\ puts = <<>> /\ jobs = <<>>
  BY DEF Init
<1>2. DOMAIN responses = {} /\ DOMAIN records = {} /\ DOMAIN puts = {} /\ DOMAIN jobs = {}
  BY <1>1
<1>3. CacheTyped
  BY <1>1, EmptySeq DEF CacheTyped
<1> QED
  BY <1>2, <1>3 DEF CacheInv, NamesKept, LateOrRight, CacheServesWhatWasPut

LEMMA CacheStutter ==
  ASSUME CacheInv, UNCHANGED << responses, records, puts, jobs >>
  PROVE  CacheInv'
BY DEF CacheInv, CacheTyped, NamesKept, LateOrRight, CacheServesWhatWasPut

LEMMA CacheTypes ==
  ASSUME CacheInv
  PROVE  /\ \A i \in DOMAIN responses : responses[i] \in Responses
         /\ \A i \in DOMAIN records : records[i] \in Records
         /\ \A i \in DOMAIN puts : puts[i] \in PutsMade
         /\ \A i \in DOMAIN jobs : jobs[i] \in PutJobs \cup AddJobs
         /\ DOMAIN records \subseteq Nat /\ DOMAIN responses \subseteq Nat
         /\ DOMAIN puts \subseteq Nat
<1>1. /\ responses \in Seq(Responses) /\ records \in Seq(Records)
      /\ puts \in Seq(PutsMade) /\ jobs \in Seq(PutJobs \cup AddJobs)
  BY DEF CacheInv, CacheTyped
<1>2. /\ DOMAIN responses = 1..Len(responses) /\ DOMAIN records = 1..Len(records)
      /\ DOMAIN puts = 1..Len(puts) /\ DOMAIN jobs = 1..Len(jobs)
  BY <1>1, LenProperties
<1> QED
  BY <1>1, <1>2, ElementOfSeq

\* Responses are added to, never changed: all that was true of them stays true.
LEMMA MoreResponsesKeep ==
  ASSUME CacheInv, NEW resp \in Responses, responses' = Append(responses, resp),
         UNCHANGED << records, puts, jobs >>
  PROVE  CacheInv'
<1>1. responses \in Seq(Responses)
  BY DEF CacheInv, CacheTyped
<1>2. /\ responses' \in Seq(Responses) /\ DOMAIN responses \subseteq DOMAIN responses'
      /\ \A i \in DOMAIN responses : responses'[i] = responses[i]
  BY <1>1, Appended
<1>3. CacheTyped' /\ NamesKept'
  BY <1>2 DEF CacheInv, CacheTyped, NamesKept
<1>4. LateOrRight'
  BY <1>2 DEF CacheInv, NamesKept, LateOrRight
<1>5. CacheServesWhatWasPut'
  BY <1>2 DEF CacheInv, NamesKept, CacheServesWhatWasPut
<1> QED
  BY <1>3, <1>4, <1>5 DEF CacheInv

LEMMA FetchKeeps ==
  ASSUME CacheInv, NEW c \in Controllers, Fetch(c)
  PROVE  CacheInv'
<1>1. PICK b \in Bodies : responses' = Append(responses, Response("pair", b))
  BY DEF Fetch
<1>2. Response("pair", b) \in Responses
  BY DEF Response, Responses, Held
<1> QED
  BY <1>1, <1>2, MoreResponsesKeep DEF Fetch

LEMMA MakeResponseKeeps ==
  ASSUME CacheInv, MakeResponse
  PROVE  CacheInv'
<1>1. PICK text \in {"none", "refuses", "throws", "bare"}, b \in Held :
        responses' = Append(responses, Response(text, b))
  BY DEF MakeResponse, Held
<1>2. Response(text, b) \in Responses
  BY DEF Response, Responses
<1> QED
  BY <1>1, <1>2, MoreResponsesKeep DEF MakeResponse

LEMMA MatchKeeps ==
  ASSUME CacheInv, NEW r \in DOMAIN records, NEW k \in Keys, Match(r, k)
  PROVE  CacheInv'
<1>1. records[r] \in Records
  BY CacheTypes
<1>2. records[r][k] \in Held
  BY <1>1 DEF Match, Records
<1>3. Response("promise", records[r][k]) \in Responses
  BY <1>2 DEF Response, Responses
<1> QED
  BY <1>3, MoreResponsesKeep DEF Match

LEMMA OpenKeeps ==
  ASSUME CacheInv, NEW n \in Names, Open(n)
  PROVE  CacheInv'
<1> DEFINE empty == [k \in Keys |-> NoEntry]
           new == Len(records) + 1
<1>1. records \in Seq(Records) /\ empty \in Records /\ \A k \in Keys : empty[k] = NoEntry
  BY DEF CacheInv, CacheTyped, Records
<1>2. records' = Append(records, empty) /\ UNCHANGED << responses, puts, jobs >>
  BY DEF Open
<1> HIDE DEF empty
<1>3. /\ records' \in Seq(Records) /\ DOMAIN records' = DOMAIN records \cup {new}
      /\ \A i \in DOMAIN records : records'[i] = records[i]
      /\ records'[new] = empty
  BY <1>1, <1>2, Appended
<1> HIDE DEF new
<1>4. CacheTyped' /\ NamesKept' /\ LateOrRight'
  BY <1>2, <1>3 DEF CacheInv, CacheTyped, NamesKept, LateOrRight
<1>5. CacheServesWhatWasPut'
  BY <1>1, <1>2, <1>3 DEF CacheInv, CacheServesWhatWasPut
<1> QED
  BY <1>4, <1>5 DEF CacheInv

\* One entry of one cache set.
Sets(r, k, v) == records' = [records EXCEPT ![r][k] = v]

LEMMA EntrySet ==
  ASSUME records \in Seq(Records), NEW r \in DOMAIN records, NEW k \in Keys,
         NEW v \in Held \cup {NoEntry}, Sets(r, k, v)
  PROVE  /\ records' \in Seq(Records) /\ DOMAIN records' = DOMAIN records
         /\ \A i \in DOMAIN records, q \in Keys :
              records'[i][q] = IF i = r /\ q = k THEN v ELSE records[i][q]
<1> DEFINE rec == [records[r] EXCEPT ![k] = v]
<1>1. DOMAIN records = 1..Len(records)
  BY LenProperties
<1>2. records[r] \in Records
  BY <1>1, ElementOfSeq
<1>3. rec \in Records /\ \A q \in Keys : rec[q] = IF q = k THEN v ELSE records[r][q]
  BY <1>2 DEF Records
<1>4. records' = [records EXCEPT ![r] = rec]
  BY DEF Sets
<1> HIDE DEF rec
<1>5. records' \in Seq(Records)
  <2>1. r \in 1..Len(records)
    BY <1>1
  <2>2. [records EXCEPT ![r] = rec] \in Seq(Records)
    BY <1>3, <2>1, ExceptSeq
  <2> QED
    BY <1>4, <2>2
<1>6. DOMAIN records' = DOMAIN records
      /\ \A i \in DOMAIN records : records'[i] = IF i = r THEN rec ELSE records[i]
  BY <1>4
<1> QED
  BY <1>3, <1>5, <1>6

LEMMA DeleteEntryKeeps ==
  ASSUME CacheInv, NEW r \in DOMAIN records, NEW k \in Keys, DeleteEntry(r, k)
  PROVE  CacheInv'
<1>1. records \in Seq(Records)
  BY DEF CacheInv, CacheTyped
<1>2. /\ records' = [records EXCEPT ![r][k] = NoEntry]
      /\ UNCHANGED << responses, puts, jobs >>
  BY DEF DeleteEntry
<1>3. /\ records' \in Seq(Records) /\ DOMAIN records' = DOMAIN records
      /\ \A i \in DOMAIN records, q \in Keys :
           records'[i][q] = IF i = r /\ q = k THEN NoEntry ELSE records[i][q]
  <2>1. NoEntry \in Held \cup {NoEntry} /\ Sets(r, k, NoEntry)
    BY <1>2 DEF Sets
  <2> QED
    BY <1>1, <2>1, EntrySet
<1>4. CacheTyped' /\ NamesKept' /\ LateOrRight'
  BY <1>2, <1>3 DEF CacheInv, CacheTyped, NamesKept, LateOrRight
<1>5. CacheServesWhatWasPut'
  BY <1>2, <1>3 DEF CacheInv, CacheServesWhatWasPut
<1> QED
  BY <1>4, <1>5 DEF CacheInv

\* A put: an unsettled one, with at most a job that brings the right body; or a
\* settled one, whose body is in the cache.
LEMMA PutKeeps ==
  ASSUME CacheInv, NEW queue \in Seq(PutJobs \cup AddJobs),
         \A i \in DOMAIN queue : \E j \in DOMAIN jobs : queue[i] = jobs[j],
         NEW r \in DOMAIN records, NEW k \in Keys, NEW resp \in DOMAIN responses,
         Put(queue, r, k, resp), UNCHANGED responses
  PROVE  CacheInv'
<1> DEFINE told == responses[resp].text \in {"pair", "none"}
           later == responses[resp].text \in {"pair", "promise", "refuses"}
           body == responses[resp].body
           new == Len(puts) + 1
           put == PutRecord(r, k, resp)
           job == [put |-> new, body |-> IF responses[resp].text = "pair" THEN Undefined ELSE body]
<1>1. records \in Seq(Records) /\ puts \in Seq(PutsMade) /\ responses \in Seq(Responses)
  BY DEF CacheInv, CacheTyped
<1>2. r \in Nat /\ resp \in Nat /\ body \in Held /\ new \in Nat
  <2>1. responses[resp] \in Responses /\ r \in Nat /\ resp \in Nat
    BY CacheTypes
  <2>2. Len(puts) \in Nat
    BY <1>1, LenProperties
  <2> QED
    BY <2>1, <2>2 DEF Responses
<1>3. /\ puts' = Append(puts, put)
      /\ records' = IF put.settled THEN [records EXCEPT ![r][k] = body] ELSE records
      /\ jobs' = IF later THEN Append(queue, job) ELSE queue
  BY DEF Put
<1>4. put.settled = told
  BY DEF PutRecord
<1>5. /\ put \in PutsMade /\ put.rec = r /\ put.key = k /\ put.resp = resp
  BY <1>2 DEF PutRecord, PutsMade
<1>6. /\ job \in PutJobs /\ job.put = new /\ job \notin AddJobs
      /\ ~ told => job.body = body
  <2>1. job \in PutJobs
    BY <1>2 DEF PutJobs
  <2>2. job \notin AddJobs
    BY DEF AddJobs
  <2> QED
    BY <2>1, <2>2
<1> HIDE DEF told, later, body, put, job
<1>7. /\ puts' \in Seq(PutsMade) /\ DOMAIN puts' = DOMAIN puts \cup {new}
      /\ new \notin DOMAIN puts
      /\ \A p \in DOMAIN puts : puts'[p] = puts[p]
      /\ puts'[new] = put
  <2>1. /\ Append(puts, put) \in Seq(PutsMade)
        /\ DOMAIN puts = 1..Len(puts) /\ Len(puts) \in Nat
        /\ DOMAIN Append(puts, put) = DOMAIN puts \cup {new}
        /\ \A i \in DOMAIN puts : Append(puts, put)[i] = puts[i]
        /\ Append(puts, put)[new] = put
    BY <1>1, <1>5, Appended
  <2> QED
    BY <1>3, <2>1
<1> HIDE DEF new
<1>8. /\ jobs' \in Seq(PutJobs \cup AddJobs)
      /\ \A i \in DOMAIN jobs' : jobs'[i] = job \/ \E j \in DOMAIN jobs : jobs'[i] = jobs[j]
  <2>1. CASE later
    <3>1. job \in PutJobs \cup AddJobs
      BY <1>6
    <3>2. /\ Append(queue, job) \in Seq(PutJobs \cup AddJobs)
          /\ DOMAIN Append(queue, job) = DOMAIN queue \cup {Len(queue) + 1}
          /\ \A i \in DOMAIN queue : Append(queue, job)[i] = queue[i]
          /\ Append(queue, job)[Len(queue) + 1] = job
      BY <3>1, Appended
    <3> QED
      BY <1>3, <2>1, <3>2
  <2>2. CASE ~ later
    BY <1>3, <2>2
  <2> QED
    BY <2>1, <2>2
<1>9. /\ records' \in Seq(Records) /\ DOMAIN records' = DOMAIN records
      /\ \A i \in DOMAIN records, q \in Keys :
           records'[i][q] = IF told /\ i = r /\ q = k THEN body ELSE records[i][q]
  <2>1. CASE told
    <3>1. body \in Held \cup {NoEntry} /\ Sets(r, k, body)
      BY <1>2, <1>3, <1>4, <2>1 DEF Sets
    <3>2. /\ records' \in Seq(Records) /\ DOMAIN records' = DOMAIN records
          /\ \A i \in DOMAIN records, q \in Keys :
               records'[i][q] = IF i = r /\ q = k THEN body ELSE records[i][q]
      BY <1>1, <3>1, EntrySet
    <3> QED
      BY <2>1, <3>2
  <2>2. CASE ~ told
    BY <1>1, <1>3, <1>4, <2>2
  <2> QED
    BY <2>1, <2>2
<1>10. CacheTyped'
  BY <1>1, <1>7, <1>8, <1>9 DEF CacheTyped
<1>11. NamesKept'
  <2>1. \A p \in DOMAIN puts' : puts'[p].rec \in DOMAIN records /\ puts'[p].resp \in DOMAIN responses
    BY <1>5, <1>7 DEF CacheInv, NamesKept
  <2>2. SUFFICES ASSUME NEW i \in DOMAIN jobs'
                 PROVE  /\ jobs'[i] \in PutJobs => jobs'[i].put \in DOMAIN puts'
                        /\ jobs'[i] \in AddJobs => /\ jobs'[i].rec \in DOMAIN records
                                                   /\ jobs'[i].resp \in DOMAIN responses
    BY <1>9, <2>1 DEF NamesKept
  <2>3. CASE jobs'[i] = job
    BY <1>6, <1>7, <2>3
  <2>4. CASE \E j \in DOMAIN jobs : jobs'[i] = jobs[j]
    BY <1>7, <2>4 DEF CacheInv, NamesKept
  <2> QED
    BY <1>8, <2>3, <2>4
<1>12. LateOrRight'
  <2>1. SUFFICES ASSUME NEW i \in DOMAIN jobs', jobs'[i] \in PutJobs
                 PROVE  \/ puts'[jobs'[i].put].settled
                        \/ jobs'[i].body = responses[puts'[jobs'[i].put].resp].body
    BY DEF LateOrRight
  <2>2. CASE jobs'[i] = job
    BY <1>4, <1>5, <1>6, <1>7, <2>2 DEF body
  <2>3. CASE \E j \in DOMAIN jobs : jobs'[i] = jobs[j]
    BY <1>7, <2>1, <2>3 DEF CacheInv, NamesKept, LateOrRight
  <2> QED
    BY <1>8, <2>2, <2>3
<1>13. CacheServesWhatWasPut'
  <2>1. SUFFICES ASSUME NEW c \in DOMAIN records, NEW q \in Keys, records'[c][q] # NoEntry
                 PROVE  \E p \in DOMAIN puts' :
                          puts'[p].settled /\ puts'[p].rec = c /\ puts'[p].key = q
                            /\ responses[puts'[p].resp].body = records'[c][q]
    BY <1>9 DEF CacheServesWhatWasPut
  <2>2. CASE told /\ c = r /\ q = k
    <3>1. new \in DOMAIN puts' /\ puts'[new].settled /\ puts'[new].rec = c /\ puts'[new].key = q
          /\ responses[puts'[new].resp].body = records'[c][q]
      BY <1>4, <1>5, <1>7, <1>9, <2>2 DEF body
    <3> QED
      BY <3>1
  <2>3. CASE ~ (told /\ c = r /\ q = k)
    <3>1. PICK p \in DOMAIN puts :
            puts[p].settled /\ puts[p].rec = c /\ puts[p].key = q
              /\ responses[puts[p].resp].body = records'[c][q]
      BY <1>9, <2>1, <2>3 DEF CacheInv, CacheServesWhatWasPut
    <3> QED
      BY <1>7, <3>1
  <2> QED
    BY <2>2, <2>3
<1> QED
  BY <1>10, <1>11, <1>12, <1>13 DEF CacheInv

LEMMA CachePutKeeps ==
  ASSUME CacheInv, NEW r \in DOMAIN records, NEW k \in Keys, NEW resp \in DOMAIN responses,
         CachePut(r, k, resp)
  PROVE  CacheInv'
<1>1. jobs \in Seq(PutJobs \cup AddJobs) /\ \A i \in DOMAIN jobs : \E j \in DOMAIN jobs : jobs[i] = jobs[j]
  BY DEF CacheInv, CacheTyped
<1>2. Put(jobs, r, k, resp) /\ UNCHANGED responses
  BY DEF CachePut
<1> QED
  BY <1>1, <1>2, PutKeeps

LEMMA CacheAddKeeps ==
  ASSUME CacheInv, NEW r \in DOMAIN records, NEW k \in Keys, CacheAdd(r, k)
  PROVE  CacheInv'
<1> DEFINE new == Len(responses) + 1
           job == [rec |-> r, key |-> k, resp |-> new]
<1>1. responses \in Seq(Responses) /\ jobs \in Seq(PutJobs \cup AddJobs)
  BY DEF CacheInv, CacheTyped
<1>2. PICK b \in Bodies : responses' = Append(responses, Response("pair", b))
  BY DEF CacheAdd
<1>3. /\ responses' \in Seq(Responses) /\ DOMAIN responses' = DOMAIN responses \cup {new}
      /\ \A i \in DOMAIN responses : responses'[i] = responses[i]
      /\ new \in Nat
  <2>1. Response("pair", b) \in Responses
    BY DEF Response, Responses, Held
  <2>2. new \in Nat
    BY <1>1, LenProperties
  <2> QED
    BY <1>1, <1>2, <2>1, <2>2, Appended
<1>4. jobs' = Append(jobs, job) /\ UNCHANGED << records, puts >>
  BY DEF CacheAdd
<1> HIDE DEF new
<1>5. job \in AddJobs /\ job.rec = r /\ job.resp = new /\ job \notin PutJobs
  <2>1. r \in Nat
    BY CacheTypes
  <2> QED
    BY <1>3, <2>1 DEF AddJobs, PutJobs
<1> HIDE DEF job
<1>6. /\ jobs' \in Seq(PutJobs \cup AddJobs)
      /\ \A i \in DOMAIN jobs' : jobs'[i] = job \/ \E j \in DOMAIN jobs : jobs'[i] = jobs[j]
  <2>1. job \in PutJobs \cup AddJobs
    BY <1>5
  <2>2. /\ Append(jobs, job) \in Seq(PutJobs \cup AddJobs)
        /\ DOMAIN Append(jobs, job) = DOMAIN jobs \cup {Len(jobs) + 1}
        /\ \A i \in DOMAIN jobs : Append(jobs, job)[i] = jobs[i]
        /\ Append(jobs, job)[Len(jobs) + 1] = job
    BY <1>1, <2>1, Appended
  <2> QED
    BY <1>4, <2>2
<1>7. CacheTyped'
  BY <1>3, <1>4, <1>6 DEF CacheInv, CacheTyped
<1>8. NamesKept'
  <2>1. \A p \in DOMAIN puts : puts[p].rec \in DOMAIN records /\ puts[p].resp \in DOMAIN responses'
    BY <1>3 DEF CacheInv, NamesKept
  <2>2. SUFFICES ASSUME NEW i \in DOMAIN jobs'
                 PROVE  /\ jobs'[i] \in PutJobs => jobs'[i].put \in DOMAIN puts
                        /\ jobs'[i] \in AddJobs => /\ jobs'[i].rec \in DOMAIN records
                                                   /\ jobs'[i].resp \in DOMAIN responses'
    BY <1>4, <2>1 DEF NamesKept
  <2>3. CASE jobs'[i] = job
    BY <1>3, <1>5, <2>3
  <2>4. CASE \E j \in DOMAIN jobs : jobs'[i] = jobs[j]
    BY <1>3, <2>4 DEF CacheInv, NamesKept
  <2> QED
    BY <1>6, <2>3, <2>4
<1>9. LateOrRight'
  <2>1. SUFFICES ASSUME NEW i \in DOMAIN jobs', jobs'[i] \in PutJobs
                 PROVE  \/ puts[jobs'[i].put].settled
                        \/ jobs'[i].body = responses'[puts[jobs'[i].put].resp].body
    BY <1>4 DEF LateOrRight
  <2>2. PICK j \in DOMAIN jobs : jobs'[i] = jobs[j]
    BY <1>5, <1>6, <2>1
  <2>3. jobs[j].put \in DOMAIN puts /\ puts[jobs[j].put].resp \in DOMAIN responses
    BY <2>1, <2>2 DEF CacheInv, NamesKept
  <2> QED
    BY <1>3, <2>1, <2>2, <2>3 DEF CacheInv, LateOrRight
<1>10. CacheServesWhatWasPut'
  BY <1>3, <1>4 DEF CacheInv, NamesKept, CacheServesWhatWasPut
<1> QED
  BY <1>7, <1>8, <1>9, <1>10 DEF CacheInv

\* A promise brings a body to a put: a put that has one keeps it.
LEMMA SettleKeeps ==
  ASSUME CacheInv, NEW queue \in Seq(PutJobs \cup AddJobs),
         \A i \in DOMAIN queue : \E j \in DOMAIN jobs : queue[i] = jobs[j],
         NEW n \in DOMAIN jobs, jobs[n] \in PutJobs,
         Settle(jobs[n].put, jobs[n].body), jobs' = queue, UNCHANGED responses
  PROVE  CacheInv'
<1> DEFINE p == jobs[n].put
           body == jobs[n].body
<1>1. records \in Seq(Records) /\ puts \in Seq(PutsMade) /\ p \in DOMAIN puts
  BY DEF CacheInv, CacheTyped, NamesKept
<1>2. /\ puts[p] \in PutsMade /\ puts[p].rec \in DOMAIN records /\ puts[p].key \in Keys
      /\ puts[p].resp \in DOMAIN responses
  BY <1>1, CacheTypes DEF CacheInv, NamesKept, PutsMade
<1>3. puts[p].settled \/ body = responses[puts[p].resp].body
  BY DEF CacheInv, LateOrRight
<1>4. CASE puts[p].settled
  <2>1. UNCHANGED << puts, records, responses >>
    BY <1>4 DEF Settle
  <2>2. CacheTyped' /\ NamesKept' /\ LateOrRight'
    BY <2>1, SMTT(60) DEF CacheInv, CacheTyped, NamesKept, LateOrRight
  <2> QED
    BY <2>1, <2>2 DEF CacheInv, CacheServesWhatWasPut
<1>5. CASE ~ puts[p].settled
  <2> DEFINE r == puts[p].rec
             k == puts[p].key
             put == [puts[p] EXCEPT !.settled = TRUE]
  <2>1. puts' = [puts EXCEPT ![p] = put] /\ Sets(r, k, body)
    BY <1>5 DEF Settle, Sets
  <2>2. body \in Held \cup {NoEntry} /\ body = responses[puts[p].resp].body
    BY <1>2, <1>3, <1>5, CacheTypes DEF Responses
  <2>3. /\ put \in PutsMade /\ put.rec = r /\ put.key = k /\ put.resp = puts[p].resp /\ put.settled
    BY <1>2 DEF PutsMade
  <2> HIDE DEF put
  <2>4. /\ puts' \in Seq(PutsMade) /\ DOMAIN puts' = DOMAIN puts
        /\ \A q \in DOMAIN puts : puts'[q] = IF q = p THEN put ELSE puts[q]
    <3>1. p \in 1..Len(puts)
      BY <1>1, LenProperties
    <3> HIDE DEF p
    <3>2. [puts EXCEPT ![p] = put] \in Seq(PutsMade)
      BY <1>1, <2>3, <3>1, ExceptSeq
    <3> QED
      BY <2>1, <3>2
  <2>5. \A q \in DOMAIN puts :
          /\ puts'[q].rec = puts[q].rec /\ puts'[q].key = puts[q].key
          /\ puts'[q].resp = puts[q].resp
          /\ puts[q].settled => puts'[q].settled
    BY <2>3, <2>4
  <2>6. /\ records' \in Seq(Records) /\ DOMAIN records' = DOMAIN records
        /\ \A i \in DOMAIN records, q \in Keys :
             records'[i][q] = IF i = r /\ q = k THEN body ELSE records[i][q]
    BY <1>1, <1>2, <2>1, <2>2, EntrySet
  <2> HIDE DEF p, body, r, k
  <2>7. CacheTyped'
    BY <2>4, <2>6 DEF CacheInv, CacheTyped
  <2>8. NamesKept'
    BY <2>4, <2>5, <2>6 DEF CacheInv, NamesKept
  <2>9. LateOrRight'
    <3>1. SUFFICES ASSUME NEW i \in DOMAIN queue, queue[i] \in PutJobs
                   PROVE  \/ puts'[queue[i].put].settled
                          \/ queue[i].body = responses[puts'[queue[i].put].resp].body
      BY DEF LateOrRight
    <3>2. PICK j \in DOMAIN jobs : queue[i] = jobs[j]
      OBVIOUS
    <3>3. jobs[j].put \in DOMAIN puts
      BY <3>1, <3>2 DEF CacheInv, NamesKept
    <3> QED
      BY <2>5, <3>1, <3>2, <3>3 DEF CacheInv, LateOrRight
  <2>10. CacheServesWhatWasPut'
    <3>1. SUFFICES ASSUME NEW c \in DOMAIN records, NEW q \in Keys, records'[c][q] # NoEntry
                   PROVE  \E z \in DOMAIN puts :
                            puts'[z].settled /\ puts'[z].rec = c /\ puts'[z].key = q
                              /\ responses[puts'[z].resp].body = records'[c][q]
      BY <2>4, <2>6 DEF CacheServesWhatWasPut
    <3>2. CASE c = r /\ q = k
      <4>1. puts'[p].settled /\ puts'[p].rec = c /\ puts'[p].key = q
            /\ responses[puts'[p].resp].body = records'[c][q]
        BY <1>1, <2>2, <2>3, <2>4, <2>6, <3>2
      <4> QED
        BY <1>1, <4>1
    <3>3. CASE ~ (c = r /\ q = k)
      <4>1. PICK z \in DOMAIN puts :
              puts[z].settled /\ puts[z].rec = c /\ puts[z].key = q
                /\ responses[puts[z].resp].body = records'[c][q]
        BY <2>6, <3>1, <3>3 DEF CacheInv, CacheServesWhatWasPut
      <4> QED
        BY <2>5, <4>1
    <3> QED
      BY <3>2, <3>3
  <2> QED
    BY <2>7, <2>8, <2>9, <2>10 DEF CacheInv
<1> QED
  BY <1>4, <1>5

\* A promise that rejects leaves the cache alone, and of its put the body.
LEMMA RefusePutKeeps ==
  ASSUME CacheInv, NEW queue \in Seq(PutJobs \cup AddJobs),
         \A i \in DOMAIN queue : \E j \in DOMAIN jobs : queue[i] = jobs[j],
         NEW p \in DOMAIN puts, RefusePut(p), jobs' = queue, UNCHANGED responses
  PROVE  CacheInv'
<1> DEFINE put == [puts[p] EXCEPT !.refused = TRUE]
<1>1. puts \in Seq(PutsMade) /\ puts[p] \in PutsMade
  BY CacheTypes DEF CacheInv, CacheTyped
<1>2. /\ put \in PutsMade /\ put.rec = puts[p].rec /\ put.key = puts[p].key
      /\ put.resp = puts[p].resp /\ put.settled = puts[p].settled
  BY <1>1 DEF PutsMade
<1>3. puts' = [puts EXCEPT ![p] = put] /\ UNCHANGED records
  BY DEF RefusePut
<1> HIDE DEF put
<1>4. /\ puts' \in Seq(PutsMade) /\ DOMAIN puts' = DOMAIN puts
      /\ \A q \in DOMAIN puts : puts'[q] = IF q = p THEN put ELSE puts[q]
  <2>1. p \in 1..Len(puts)
    BY <1>1, LenProperties
  <2>2. [puts EXCEPT ![p] = put] \in Seq(PutsMade)
    BY <1>1, <1>2, <2>1, ExceptSeq
  <2> QED
    BY <1>3, <2>2
<1>5. \A q \in DOMAIN puts :
        /\ puts'[q].rec = puts[q].rec /\ puts'[q].key = puts[q].key
        /\ puts'[q].resp = puts[q].resp /\ puts'[q].settled = puts[q].settled
  BY <1>2, <1>4
<1>6. CacheTyped'
  BY <1>3, <1>4 DEF CacheInv, CacheTyped
<1>7. NamesKept'
  BY <1>3, <1>4, <1>5 DEF CacheInv, NamesKept
<1>8. LateOrRight'
  <2>1. SUFFICES ASSUME NEW i \in DOMAIN queue, queue[i] \in PutJobs
                 PROVE  \/ puts'[queue[i].put].settled
                        \/ queue[i].body = responses[puts'[queue[i].put].resp].body
    BY DEF LateOrRight
  <2>2. PICK j \in DOMAIN jobs : queue[i] = jobs[j]
    OBVIOUS
  <2>3. jobs[j].put \in DOMAIN puts
    BY <2>1, <2>2 DEF CacheInv, NamesKept
  <2> QED
    BY <1>5, <2>1, <2>2, <2>3 DEF CacheInv, LateOrRight
<1>9. CacheServesWhatWasPut'
  BY <1>3, <1>4, <1>5 DEF CacheInv, CacheServesWhatWasPut
<1> QED
  BY <1>6, <1>7, <1>8, <1>9 DEF CacheInv

LEMMA RunJobKeeps ==
  ASSUME CacheInv, RunJob
  PROVE  CacheInv'
<1> DEFINE job == Head(jobs)
           rest == Tail(jobs)
<1>1. jobs \in Seq(PutJobs \cup AddJobs) /\ jobs # <<>> /\ UNCHANGED responses
  BY DEF CacheInv, CacheTyped, RunJob
<1>2. /\ rest \in Seq(PutJobs \cup AddJobs) /\ job = jobs[1] /\ 1 \in DOMAIN jobs
      /\ job \in PutJobs \cup AddJobs
      /\ \A i \in DOMAIN rest : i + 1 \in DOMAIN jobs /\ rest[i] = jobs[i + 1]
  BY <1>1, FirstDropped
<1>3. IF "put" \in DOMAIN job
        THEN (Settle(job.put, job.body) \/ RefusePut(job.put)) /\ jobs' = rest
        ELSE Put(rest, job.rec, job.key, job.resp)
  BY DEF RunJob
<1> HIDE DEF job, rest
<1>4. CASE job \in PutJobs
  <2>1. (Settle(job.put, job.body) \/ RefusePut(job.put)) /\ jobs' = rest
    BY <1>3, <1>4 DEF PutJobs
  <2>2. \A i \in DOMAIN rest : \E j \in DOMAIN jobs : rest[i] = jobs[j]
    BY <1>2
  <2>3. job.put \in DOMAIN puts
    BY <1>2, <1>4 DEF CacheInv, NamesKept
  <2>4. CASE Settle(job.put, job.body)
    BY <1>1, <1>2, <1>4, <2>1, <2>2, <2>4, SettleKeeps
  <2>5. CASE RefusePut(job.put)
    BY <1>1, <1>2, <2>1, <2>2, <2>3, <2>5, RefusePutKeeps
  <2> QED
    BY <2>1, <2>4, <2>5
<1>5. CASE job \in AddJobs
  <2>1. Put(rest, job.rec, job.key, job.resp) /\ job.key \in Keys
    BY <1>3, <1>5 DEF AddJobs
  <2>2. job.rec \in DOMAIN records /\ job.resp \in DOMAIN responses
    BY <1>2, <1>5 DEF CacheInv, NamesKept
  <2>3. \A i \in DOMAIN rest : \E j \in DOMAIN jobs : rest[i] = jobs[j]
    BY <1>2
  <2> QED
    BY <1>1, <1>2, <2>1, <2>2, <2>3, PutKeeps
<1> QED
  BY <1>2, <1>4, <1>5

LEMMA CacheStep ==
  ASSUME CacheInv, [Next]_vars
  PROVE  CacheInv'
<1>1. CASE Call
  <2>1. CASE \E c \in Controllers : Fetch(c)
    BY <2>1, FetchKeeps
  <2>2. CASE \E n \in Names : Open(n)
    BY <2>2, OpenKeeps
  <2>3. CASE \E r \in DOMAIN records, k \in Keys : DeleteEntry(r, k)
    BY <2>3, DeleteEntryKeeps
  <2>4. CASE \E r \in DOMAIN records, k \in Keys : Match(r, k)
    BY <2>4, MatchKeeps
  <2>5. CASE \E r \in DOMAIN records, k \in Keys : CacheAdd(r, k)
    BY <2>5, CacheAddKeeps
  <2>6. CASE \E r \in DOMAIN records, k \in Keys : \E resp \in DOMAIN responses : CachePut(r, k, resp)
    BY <2>6, CachePutKeeps
  <2>7. CASE \E c \in Controllers :
               \/ \E f \in Callbacks : AddListener(c, f) \/ RemoveListener(c, f)
               \/ SetOnAbort(c)
               \/ \E reason \in Reasons : Abort(c, reason)
    BY <2>7, CacheStutter DEF AddListener, RemoveListener, SetOnAbort, Abort, cache
  <2>8. CASE \E n \in Names : DeleteCache(n) \/ Define(n) \/ WhenDefined(n)
    BY <2>8, CacheStutter DEF DeleteCache, Define, WhenDefined, cache
  <2>9. CASE XhrOpen \/ XhrSend \/ NewSocket \/ SocketSend \/ SocketClose
    BY <2>9, CacheStutter DEF XhrOpen, XhrSend, NewSocket, SocketSend, SocketClose, cache
  <2>10. CASE MakeResponse
    BY <2>10, MakeResponseKeeps
  <2> QED
    BY <1>1, <2>1, <2>2, <2>3, <2>4, <2>5, <2>6, <2>7, <2>8, <2>9, <2>10 DEF Call
<1>2. CASE Fire
  BY <1>2, CacheStutter DEF Fire, cache
<1>3. CASE RunJob
  BY <1>3, RunJobKeeps
<1>4. CASE UNCHANGED vars
  BY <1>4, CacheStutter DEF vars, cache
<1> QED
  BY <1>1, <1>2, <1>3, <1>4 DEF Next

\* What a cache serves was put there, for any caches, keys and bodies and whatever
\* order puts, deletions and promises come in: a put that has its body is settled,
\* and a promise that finds one unsettled brings that body (LateOrRight; put: "the
\* first body wins").
THEOREM CachesServeWhatWasPut == Spec => []CacheServesWhatWasPut
<1>1. Init => CacheInv
  BY CacheInit
<1>2. CacheInv /\ [Next]_vars => CacheInv'
  BY CacheStep
<1>3. CacheInv => CacheServesWhatWasPut
  BY DEF CacheInv
<1> QED
  BY <1>1, <1>2, <1>3, PTL DEF Spec

---------------------------------------------------------------------------
(* An XMLHttpRequest shows one answer.                                      *)

LEMMA XhrStep ==
  ASSUME XhrInv, [Next]_vars
  PROVE  XhrInv'
<1>1. CASE UNCHANGED xhr
  BY <1>1 DEF XhrInv, XhrAnswersTogether
<1>2. CASE XhrOpen
  BY <1>2 DEF XhrOpen, XhrInv, XhrAnswersTogether
<1>3. CASE XhrSend
  <2>1. CASE ~ xhr.opened
    <3>1. xhr' = [xhr EXCEPT !.status = 0, !.text = Nothing]
      BY <1>3, <2>1 DEF XhrSend, XhrUnopened
    <3> QED
      BY <2>1, <3>1 DEF XhrInv, XhrAnswersTogether
  <2>2. CASE xhr' = XhrFailed /\ xhr.opened
    BY <2>2 DEF XhrFailed, XhrInv, XhrAnswersTogether
  <2>3. CASE xhr.opened /\ \E b \in Bodies : xhr' = XhrAnswered(b)
    <3>1. PICK b \in Bodies : xhr' = [xhr EXCEPT !.status = 200, !.text = b, !.headers = b]
      BY <2>3 DEF XhrAnswered
    <3>2. b # Nothing
      BY BodiesOK
    <3>3. /\ xhr' \in [opened : BOOLEAN, status : {0, 200}, text : Bodies \cup {Nothing},
                       headers : Bodies \cup {Nothing}]
          /\ xhr'.opened /\ xhr'.status = 200 /\ xhr'.text = b /\ xhr'.headers = b
      BY <2>3, <3>1 DEF XhrInv
    <3> QED
      BY <3>2, <3>3 DEF XhrInv, XhrAnswersTogether
  <2> QED
    BY <1>3, <2>1, <2>2, <2>3 DEF XhrSend
<1>4. Next => XhrOpen \/ XhrSend \/ UNCHANGED xhr
  <2>1. Call => XhrOpen \/ XhrSend \/ UNCHANGED xhr
    BY DEF Call, AddListener, RemoveListener, SetOnAbort, Abort, MakeResponse, Fetch, Open, DeleteCache,
           DeleteEntry, Match, CacheAdd, CachePut, Define, WhenDefined, NewSocket, SocketSend,
           SocketClose, others
  <2> QED
    BY <2>1 DEF Next, Fire, RunJob, others
<1> QED
  BY <1>1, <1>2, <1>3, <1>4 DEF vars, others

\* What an XMLHttpRequest shows is of one answer, for any bodies and any order of
\* open and send: a failure clears the headers too, and only send before open
\* leaves them alone, when there are none.
THEOREM XhrShowsOneAnswer == Spec => []XhrAnswersTogether
<1>1. Init => XhrInv
  BY DEF Init, XhrInv, XhrAnswersTogether
<1>2. XhrInv /\ [Next]_vars => XhrInv'
  BY XhrStep
<1>3. XhrInv => XhrAnswersTogether
  BY DEF XhrInv
<1> QED
  BY <1>1, <1>2, <1>3, PTL DEF Spec

---------------------------------------------------------------------------
(* Audio: numbers and sums.                                                 *)

LEMMA LeastNumber ==
  ASSUME NEW T, T \subseteq Nat, T # {}
  PROVE  \E n \in T : \A m \in T : n <= m
<1> DEFINE R == OpToRel(<, Nat)
<1>1. \E n \in T : \A m \in T : <<m, n>> \notin R
  BY NatLessThanWellFounded, WFMin
<1>2. \A n, m \in Nat : <<m, n>> \in R <=> m < n
  BY DEF OpToRel
<1> HIDE DEF R
<1>3. PICK n \in T : \A m \in T : <<m, n>> \notin R
  BY <1>1
<1>4. \A m \in T : m \in Nat /\ n \in Nat /\ ~ (m < n)
  BY <1>2, <1>3
<1> QED
  BY <1>4

\* The induction over numbers, said of a set.
LEMMA UpTo ==
  ASSUME NEW N \in Nat, NEW T, 0 \in T, \A k \in 1..N : k - 1 \in T => k \in T
  PROVE  \A k \in 0..N : k \in T
<1> DEFINE bad == {k \in 0..N : k \notin T}
<1> SUFFICES ASSUME bad # {} PROVE FALSE
  OBVIOUS
<1>1. bad \subseteq Nat
  OBVIOUS
<1> HIDE DEF bad
<1>2. PICK k \in bad : \A m \in bad : k <= m
  BY <1>1, LeastNumber
<1>3. k \in 0..N /\ k \notin T
  BY DEF bad
<1>4. k \in 1..N /\ k - 1 \in 0..N /\ ~ (k <= k - 1)
  BY <1>3
<1>5. k - 1 \in T
  BY <1>2, <1>4 DEF bad
<1> QED
  BY <1>3, <1>4, <1>5

\* What is computed from one number to the next.
Goes(N, b, F, f) == f[0] = b /\ \A k \in 1..N : f[k] = F[k][f[k - 1]]

LEMMA Computes ==
  ASSUME NEW N \in Nat, NEW V, NEW b \in V, NEW F \in [1..N -> [V -> V]]
  PROVE  \E f \in [0..N -> V] : Goes(N, b, F, f)
<1> DEFINE Solves(f, n) == f[0] = b /\ \A k \in 1..N : k <= n => f[k] = F[k][f[k - 1]]
           T == {n \in 0..N : \E f \in [0..N -> V] : Solves(f, n)}
<1>1. 0 \in T
  <2>1. [k \in 0..N |-> b] \in [0..N -> V] /\ [k \in 0..N |-> b][0] = b
    OBVIOUS
  <2>2. \A k \in 1..N : ~ (k <= 0)
    OBVIOUS
  <2>3. Solves([k \in 0..N |-> b], 0)
    BY <2>1, <2>2
  <2> QED
    BY <2>1, <2>3
<1>2. ASSUME NEW n \in 1..N, n - 1 \in T PROVE n \in T
  <2>1. PICK f \in [0..N -> V] : Solves(f, n - 1)
    BY <1>2
  <2>2. n \in 0..N /\ n - 1 \in 0..N /\ n # 0
    OBVIOUS
  <2>3. F[n] \in [V -> V] /\ f[n - 1] \in V
    BY <2>2
  <2> DEFINE g == [f EXCEPT ![n] = F[n][f[n - 1]]]
  <2>4. g \in [0..N -> V] /\ g[n] = F[n][f[n - 1]] /\ \A k \in 0..N : k # n => g[k] = f[k]
    BY <2>2, <2>3
  <2> HIDE DEF g
  <2>5. ASSUME NEW k \in 1..N, k <= n PROVE g[k] = F[k][g[k - 1]]
    <3>1. k - 1 \in 0..N /\ k - 1 # n /\ k \in 0..N
      BY <2>5
    <3>2. g[k - 1] = f[k - 1]
      BY <2>4, <3>1
    <3>3. CASE k = n
      BY <2>4, <3>2, <3>3
    <3>4. CASE k # n
      <4>1. k <= n - 1
        BY <2>5, <3>4
      <4> QED
        BY <2>1, <2>4, <3>1, <3>2, <3>4, <4>1
    <3> QED
      BY <3>3, <3>4
  <2>6. Solves(g, n)
    BY <2>1, <2>2, <2>4, <2>5
  <2> HIDE DEF Solves
  <2> QED
    BY <2>2, <2>4, <2>6
<1> HIDE DEF T
<1>3. \A k \in 0..N : k \in T
  BY <1>1, <1>2, UpTo
<1>4. N \in T
  BY <1>3
<1>5. PICK f \in [0..N -> V] : Solves(f, N)
  BY <1>4 DEF T
<1> QED
  BY <1>5 DEF Goes

\* The running sum of f, and where it ends.
Runs(N, f, s) == s \in [0..N -> Int] /\ s[0] = 0 /\ \A k \in 1..N : s[k] = s[k - 1] + f[k]

SumOf(N, f) == (CHOOSE s : Runs(N, f, s))[N]

LEMMA SumIs ==
  ASSUME NEW N \in Nat, NEW f \in [1..N -> Int], NEW s, Runs(N, f, s)
  PROVE  SumOf(N, f) = s[N]
<1> DEFINE t == CHOOSE t : Runs(N, f, t)
<1>1. Runs(N, f, t)
  OBVIOUS
<1> HIDE DEF t
<1> DEFINE T == {k \in 0..N : s[k] = t[k]}
<1>2. 0 \in T
  BY <1>1 DEF Runs
<1>3. \A k \in 1..N : k - 1 \in T => k \in T
  BY <1>1 DEF Runs
<1> HIDE DEF T
<1>4. \A k \in 0..N : k \in T
  BY <1>2, <1>3, UpTo
<1>5. s[N] = t[N]
  BY <1>4 DEF T
<1> QED
  BY <1>5 DEF SumOf, t

LEMMA SumRuns ==
  ASSUME NEW N \in Nat, NEW f \in [1..N -> Int]
  PROVE  \E s : Runs(N, f, s)
<1> DEFINE F == [k \in 1..N |-> [x \in Int |-> x + f[k]]]
<1>1. F \in [1..N -> [Int -> Int]]
  OBVIOUS
<1>2. PICK s \in [0..N -> Int] : Goes(N, 0, F, s)
  <2> HIDE DEF F
  <2>1. 0 \in Int
    OBVIOUS
  <2> QED
    BY <1>1, <2>1, Computes
<1>3. ASSUME NEW k \in 1..N PROVE s[k] = s[k - 1] + f[k]
  <2>1. s[k - 1] \in Int
    OBVIOUS
  <2>2. F[k][s[k - 1]] = s[k - 1] + f[k]
    BY <2>1
  <2> QED
    BY <1>2, <2>2 DEF Goes
<1> QED
  BY <1>2, <1>3 DEF Goes, Runs

\* A sum is a number, of nothing it is nothing, and it grows by what one place does.
LEMMA SumTyped ==
  ASSUME NEW N \in Nat, NEW f \in [1..N -> Int]
  PROVE  SumOf(N, f) \in Int
<1>1. PICK s : Runs(N, f, s)
  BY SumRuns
<1>2. SumOf(N, f) = s[N]
  BY <1>1, SumIs
<1>3. s \in [0..N -> Int] /\ N \in 0..N
  BY <1>1 DEF Runs
<1> QED
  BY <1>2, <1>3

LEMMA SumOfNothing ==
  ASSUME NEW N \in Nat, NEW f \in [1..N -> Int], \A k \in 1..N : f[k] = 0
  PROVE  SumOf(N, f) = 0
<1> DEFINE s == [k \in 0..N |-> 0]
<1>1. Runs(N, f, s)
  BY DEF Runs
<1>2. SumOf(N, f) = s[N]
  <2> HIDE DEF s
  <2> QED
    BY <1>1, SumIs
<1> QED
  BY <1>2

Grown(N, f, g, m, x) ==
  /\ f \in [1..N -> Int] /\ g \in [1..N -> Int] /\ m \in 1..N /\ x \in Int
  /\ g[m] = f[m] + x /\ \A k \in 1..N : k # m => g[k] = f[k]

LEMMA SumGrows ==
  ASSUME NEW N \in Nat, NEW f, NEW g, NEW m, NEW x, Grown(N, f, g, m, x)
  PROVE  SumOf(N, g) = SumOf(N, f) + x
<1>0. /\ f \in [1..N -> Int] /\ g \in [1..N -> Int] /\ m \in 1..N /\ x \in Int
      /\ g[m] = f[m] + x /\ \A k \in 1..N : k # m => g[k] = f[k]
  BY DEF Grown
<1>1. PICK s : Runs(N, f, s)
  BY <1>0, SumRuns
<1> DEFINE t == [k \in 0..N |-> IF k < m THEN s[k] ELSE s[k] + x]
<1>2. Runs(N, g, t)
  <2>1. s \in [0..N -> Int] /\ s[0] = 0
    BY <1>1 DEF Runs
  <2>a. 0 \in 0..N /\ 0 < m /\ m \in Int
    BY <1>0
  <2>b. t[0] = 0
    BY <2>1, <2>a
  <2>c. ASSUME NEW k \in 0..N PROVE s[k] \in Int /\ s[k] + x \in Int
    <3>1. s[k] \in Int
      BY <2>1
    <3>2. x \in Int
      BY <1>0
    <3> QED
      BY <3>1, <3>2
  <2>d. t \in [0..N -> Int]
    <3>1. ASSUME NEW k \in 0..N PROVE (IF k < m THEN s[k] ELSE s[k] + x) \in Int
      BY <2>c
    <3> QED
      BY <3>1
  <2>2. t \in [0..N -> Int] /\ t[0] = 0
    BY <2>b, <2>d
  <2>3. ASSUME NEW k \in 1..N PROVE t[k] = t[k - 1] + g[k]
    <3>1. k \in 0..N /\ k - 1 \in 0..N
      OBVIOUS
    <3>2. s[k] = s[k - 1] + f[k] /\ s[k - 1] \in Int /\ s[k] \in Int /\ f[k] \in Int
      BY <1>0, <1>1, <2>1, <3>1 DEF Runs
    <3>3. t[k] = (IF k < m THEN s[k] ELSE s[k] + x) /\ t[k - 1] = (IF k - 1 < m THEN s[k - 1] ELSE s[k - 1] + x)
      BY <3>1
    <3> HIDE DEF t
    <3>4. CASE k < m
      BY <1>0, <3>2, <3>3, <3>4
    <3>5. CASE k = m
      BY <1>0, <3>2, <3>3, <3>5
    <3>6. CASE m < k
      BY <1>0, <3>2, <3>3, <3>6
    <3> QED
      BY <1>0, <3>4, <3>5, <3>6
  <2> HIDE DEF t
  <2> QED
    BY <2>2, <2>3 DEF Runs
<1>3. t[N] = s[N] + x
  BY <1>0
<1> HIDE DEF t
<1> QED
  BY <1>0, <1>1, <1>2, <1>3, SumIs

\* Two functions that begin alike and each time grow by the same somewhere.
LEMMA SameSums ==
  ASSUME NEW N \in Nat, NEW U \in [0..N -> [1..N -> Int]], NEW W \in [0..N -> [1..N -> Int]],
         U[0] = W[0],
         \A p \in 1..N : \E m, l, x : Grown(N, U[p - 1], U[p], m, x) /\ Grown(N, W[p - 1], W[p], l, x)
  PROVE  SumOf(N, U[N]) = SumOf(N, W[N])
<1> DEFINE T == {p \in 0..N : SumOf(N, U[p]) = SumOf(N, W[p])}
<1>1. 0 \in T
  OBVIOUS
<1>2. ASSUME NEW p \in 1..N, p - 1 \in T PROVE p \in T
  <2>1. PICK m, l, x : Grown(N, U[p - 1], U[p], m, x) /\ Grown(N, W[p - 1], W[p], l, x)
    OBVIOUS
  <2>2. p \in 0..N /\ p - 1 \in 0..N
    OBVIOUS
  <2> HIDE DEF T
  <2>3. SumOf(N, U[p]) = SumOf(N, U[p - 1]) + x
    BY <2>1, SumGrows
  <2>4. SumOf(N, W[p]) = SumOf(N, W[p - 1]) + x
    BY <2>1, SumGrows
  <2> QED
    BY <1>2, <2>2, <2>3, <2>4 DEF T
<1> HIDE DEF T
<1>3. \A p \in 0..N : p \in T
  BY <1>1, <1>2, UpTo
<1> QED
  BY <1>3 DEF T

---------------------------------------------------------------------------
(* Audio: the graph.                                                        *)

AudioNodes ==
  [kind : AllKinds \cup {"destination"}, dest : Nat, value : Int, buffer : Nat, loop : BOOLEAN,
   started : BOOLEAN, toDest : BOOLEAN, down : Seq(Nat)]

NodesTyped ==
  /\ nodes \in Seq(AudioNodes)
  /\ \A n \in DOMAIN nodes : \A j \in DOMAIN nodes[n].down : nodes[n].down[j] \in DOMAIN nodes

LEMMA NodesAre ==
  ASSUME NodesTyped
  PROVE  /\ Len(nodes) \in Nat /\ DOMAIN nodes = 1..Len(nodes)
         /\ \A n \in DOMAIN nodes : nodes[n] \in AudioNodes /\ nodes[n].value \in Int
         /\ \A n \in DOMAIN nodes : nodes[n].down # <<>> =>
              nodes[n].down[1] \in DOMAIN nodes /\ nodes[n].down[1] \in ToSet(nodes[n].down)
<1>1. Len(nodes) \in Nat /\ DOMAIN nodes = 1..Len(nodes)
  BY DEF NodesTyped
<1>2. \A n \in DOMAIN nodes : nodes[n] \in AudioNodes
  BY DEF NodesTyped
<1>3. ASSUME NEW n \in DOMAIN nodes, nodes[n].down # <<>>
      PROVE  nodes[n].down[1] \in DOMAIN nodes /\ nodes[n].down[1] \in ToSet(nodes[n].down)
  <2>1. nodes[n].down \in Seq(Nat)
    BY <1>2 DEF AudioNodes
  <2>2. 1 \in DOMAIN nodes[n].down
    BY <1>3, <2>1
  <2> QED
    BY <2>2 DEF NodesTyped, ToSet
<1>4. \A n \in DOMAIN nodes : nodes[n].value \in Int
  BY <1>2 DEF AudioNodes
<1> QED
  BY <1>1, <1>2, <1>3, <1>4

\* What a sum over nodes comes to.
LEMMA TotalIs ==
  ASSUME NodesTyped, NEW S, NEW f \in [DOMAIN nodes -> Int]
  PROVE  Total(S, f) = SumOf(Len(nodes), [k \in DOMAIN nodes |-> IF k \in S THEN f[k] ELSE 0])
<1> DEFINE N == Len(nodes)
           g == [k \in 1..N |-> IF k \in S THEN f[k] ELSE 0]
           step(s) == [k \in 0..N |-> IF k = 0 THEN 0 ELSE s[k - 1] + (IF k \in S THEN f[k] ELSE 0)]
           sum == CHOOSE s : s = step(s)
<1>1. N \in Nat /\ DOMAIN nodes = 1..N
  BY NodesAre
<1>2. g \in [1..N -> Int] /\ \A k \in 1..N : g[k] = IF k \in S THEN f[k] ELSE 0
  BY <1>1
<1>3. PICK s : Runs(N, g, s)
  <2> HIDE DEF N, g
  <2> QED
    BY <1>1, <1>2, SumRuns
<1>4. s = step(s)
  <2> HIDE DEF g, N
  <2>1. s \in [0..N -> Int] /\ s[0] = 0 /\ \A k \in 1..N : s[k] = s[k - 1] + (IF k \in S THEN f[k] ELSE 0)
    BY <1>2, <1>3 DEF Runs
  <2>2. \A k \in 0..N : k # 0 => k \in 1..N
    OBVIOUS
  <2>3. \A k \in 0..N : s[k] = IF k = 0 THEN 0 ELSE s[k - 1] + (IF k \in S THEN f[k] ELSE 0)
    BY <2>1, <2>2
  <2> QED
    BY <2>1, <2>3
<1>5. sum = step(sum)
  <2> HIDE DEF step
  <2> QED
    BY <1>4
<1>6. Runs(N, g, sum)
  <2> HIDE DEF sum, g, N
  <2>1. sum = [k \in 0..N |-> IF k = 0 THEN 0 ELSE sum[k - 1] + (IF k \in S THEN f[k] ELSE 0)]
    BY <1>5
  <2>2. sum[0] = 0 /\ \A k \in 1..N : k \in 0..N /\ k # 0
    BY <1>1, <2>1
  <2>3. ASSUME NEW k \in 1..N PROVE sum[k] = sum[k - 1] + g[k]
    BY <1>2, <2>1, <2>2
  <2> DEFINE T == {k \in 0..N : sum[k] \in Int}
  <2>4. 0 \in T
    BY <1>1, <2>2
  <2>5. \A k \in 1..N : k - 1 \in T => k \in T
    BY <1>2, <2>3
  <2> HIDE DEF T
  <2>6. \A k \in 0..N : k \in T
    BY <1>1, <2>4, <2>5, UpTo
  <2>7. sum \in [0..N -> Int]
    BY <2>1, <2>6 DEF T
  <2> QED
    BY <2>2, <2>3, <2>7 DEF Runs
<1>7. SumOf(N, g) = sum[N]
  <2> HIDE DEF sum, g, N
  <2> QED
    BY <1>1, <1>2, <1>6, SumIs
<1>8. Total(S, f) = sum[N]
  BY DEF Total
<1> HIDE DEF sum
<1> QED
  BY <1>1, <1>7, <1>8

LEMMA TotalTyped ==
  ASSUME NodesTyped, NEW S, NEW f \in [DOMAIN nodes -> Int]
  PROVE  Total(S, f) \in Int
<1> DEFINE g == [k \in DOMAIN nodes |-> IF k \in S THEN f[k] ELSE 0]
<1>1. Len(nodes) \in Nat /\ g \in [1..Len(nodes) -> Int]
  BY NodesAre
<1>2. SumOf(Len(nodes), g) \in Int
  <2> HIDE DEF g
  <2> QED
    BY <1>1, SumTyped
<1> QED
  BY <1>2, TotalIs

AudioBuffers == [channels : Nat \ {0}, len : Nat, data : Seq(Int)]

Whole(b) == b \in AudioBuffers /\ Len(b.data) = b.channels * b.len

BuffersTyped ==
  /\ buffers \in Seq(AudioBuffers)
  /\ \A b \in DOMAIN buffers : Whole(buffers[b])
  /\ \A n \in DOMAIN nodes : nodes[n].buffer \in 0..Len(buffers)

\* A channel is as long as the buffer says, and lies in its data.
LEMMA ChannelPlace ==
  ASSUME NEW b, Whole(b), NEW ch \in 1..b.channels, NEW i \in 1..b.len
  PROVE  (ch - 1) * b.len + i \in 1..(b.channels * b.len)
<1> DEFINE c == b.channels  l == b.len
<1>1. c \in Nat /\ l \in Nat /\ ch \in 1..c /\ i \in 1..l
  BY DEF Whole, AudioBuffers
<1> HIDE DEF c, l
<1>2. (ch - 1) * l >= 0 /\ (ch - 1) * l \in Int
  BY <1>1, SMTT(30)
<1>3. (ch - 1) * l + l = ch * l
  BY <1>1, SMTT(30)
<1>4. ch * l <= c * l /\ c * l \in Int
  BY <1>1, SMTT(30)
<1>5. (ch - 1) * l + i \in 1..(c * l)
  BY <1>1, <1>2, <1>3, <1>4
<1> QED
  BY <1>5 DEF c, l

LEMMA ChannelIs ==
  ASSUME NEW b, Whole(b), NEW ch \in 1..b.channels
  PROVE  /\ Channel(b, ch) \in Seq(Int) /\ Len(Channel(b, ch)) = b.len
         /\ \A i \in 1..b.len : Channel(b, ch)[i] = b.data[(ch - 1) * b.len + i]
<1> DEFINE l == b.len  d == b.data  from == (ch - 1) * l  to == ch * l
<1>1. b.channels \in Nat /\ l \in Nat /\ ch \in Nat /\ d \in Seq(Int) /\ Len(d) = b.channels * l
  BY DEF Whole, AudioBuffers
<1>2. from \in Nat /\ to = from + l
  <2> HIDE DEF l
  <2>1. ch - 1 \in Nat
    OBVIOUS
  <2> QED
    BY <1>1, <2>1, SMTT(30)
<1>3. \A i \in 1..l : from + i \in DOMAIN d
  BY <1>1, ChannelPlace
<1>4. Channel(b, ch) = SubSeq(d, from + 1, to)
  BY DEF Channel
<1> HIDE DEF l, d, from, to
<1>5. Channel(b, ch) = [i \in 1..l |-> d[from + i]]
  <2>1. SubSeq(d, from + 1, to) = [i \in 1..(to - (from + 1) + 1) |-> d[i + (from + 1) - 1]]
    BY <1>1, <1>2
  <2>2. to - (from + 1) + 1 = l /\ \A i \in 1..l : i + (from + 1) - 1 = from + i
    BY <1>1, <1>2
  <2> QED
    BY <1>4, <2>1, <2>2
<1>6. \A i \in 1..l : d[from + i] \in Int
  BY <1>1, <1>3
<1>7. Channel(b, ch) \in Seq(Int) /\ Len(Channel(b, ch)) = l /\ \A i \in 1..l : Channel(b, ch)[i] = d[from + i]
  BY <1>1, <1>5, <1>6
<1> QED
  BY <1>7 DEF l, d, from

LEMMA PlaysTyped ==
  ASSUME NodesTyped, BuffersTyped, NEW n \in DOMAIN nodes, NEW i \in Nat \ {0}
  PROVE  Plays(n, i) \in Int
<1> DEFINE s == nodes[n]
           ch == Channel(buffers[s.buffer], 1)
           at == IF s.loop THEN 1 + ((i - 1) % Len(ch)) ELSE i
<1>1. s.value \in Int /\ s.buffer \in 0..Len(buffers)
  BY NodesAre DEF BuffersTyped
<1>2. CASE s.kind = "oscillator"
  <2>1. 1 + (i % 2) \in Int
    OBVIOUS
  <2>2. s.value * (1 + (i % 2)) \in Int
    BY <1>1, <2>1
  <2> QED
    BY <1>2, <2>2 DEF Plays, Wave
<1>3. CASE s.kind # "oscillator" /\ s.buffer # 0
  <2>1. s.buffer \in DOMAIN buffers
    BY <1>1, <1>3 DEF BuffersTyped
  <2>2. Whole(buffers[s.buffer]) /\ 1 \in 1..buffers[s.buffer].channels
    BY <2>1 DEF BuffersTyped, Whole, AudioBuffers
  <2>3. ch \in Seq(Int)
    BY <2>2, ChannelIs
  <2>4. Plays(n, i) = IF ch = <<>> \/ at \notin DOMAIN ch THEN 0 ELSE ch[at]
    BY <1>3 DEF Plays
  <2> HIDE DEF ch, at
  <2> QED
    BY <2>3, <2>4
<1>4. CASE s.kind # "oscillator" /\ s.buffer = 0
  BY <1>4 DEF Plays
<1> QED
  BY <1>2, <1>3, <1>4

---------------------------------------------------------------------------
(* Audio: the walk of startRendering, and the signal.                       *)

Walks == [at : DOMAIN nodes, gain : Int, comp : 0..Len(nodes)]

Onward(w) == IF Stops(w.at) THEN w ELSE Past(nodes[w.at].down[1], w)

IsWalk(n, w) ==
  /\ w \in [1..Hops -> Walks] /\ w[1] = [at |-> n, gain |-> 1, comp |-> 0]
  /\ \A h \in 2..Hops : w[h] = Onward(w[h - 1])

LEMMA OnwardTyped == ASSUME NodesTyped, NEW w \in Walks PROVE Onward(w) \in Walks
<1>1. CASE Stops(w.at)
  BY <1>1 DEF Onward
<1>2. CASE ~ Stops(w.at)
  <2> DEFINE m == nodes[w.at].down[1]
  <2>1. w.at \in DOMAIN nodes /\ w.gain \in Int /\ w.comp \in 0..Len(nodes)
    BY DEF Walks
  <2>2. m \in DOMAIN nodes /\ m \in 0..Len(nodes)
    BY <1>2, <2>1, NodesAre DEF Stops
  <2>3. nodes[m].value \in Int
    BY <2>2, NodesAre
  <2>4. Onward(w) = Past(m, w)
    BY <1>2 DEF Onward
  <2> HIDE DEF m
  <2>5. w.gain * nodes[m].value \in Int
    BY <2>1, <2>3
  <2> QED
    BY <2>1, <2>2, <2>4, <2>5 DEF Past, Walks
<1> QED
  BY <1>1, <1>2

LEMMA WalkIs ==
  ASSUME NodesTyped, NEW n \in DOMAIN nodes
  PROVE  \E w : IsWalk(n, w) /\ Followed(n) = w[Hops]
<1> DEFINE b == [at |-> n, gain |-> 1, comp |-> 0]
           F == [k \in 1..(Hops - 1) |-> [w \in Walks |-> Onward(w)]]
           step(w) == [h \in 1..Hops |-> IF h = 1 THEN b ELSE IF Stops(w[h - 1].at) THEN w[h - 1]
                                         ELSE Past(nodes[w[h - 1].at].down[1], w[h - 1])]
           walk == CHOOSE w : w = step(w)
<1>1. Hops \in Nat /\ Hops - 1 \in Nat /\ 1 \in 1..Hops /\ Hops \in 1..Hops
  BY HopsOK
<1>2. b \in Walks
  BY NodesAre DEF Walks
<1>3. F \in [1..(Hops - 1) -> [Walks -> Walks]]
  BY OnwardTyped
<1>4. PICK f \in [0..(Hops - 1) -> Walks] : Goes(Hops - 1, b, F, f)
  <2> HIDE DEF F, b
  <2> QED
    BY <1>1, <1>2, <1>3, Computes
<1> DEFINE v == [h \in 1..Hops |-> f[h - 1]]
<1>5. \A h \in 2..Hops : h \in 1..Hops /\ h - 1 \in 1..Hops /\ h - 1 \in 1..(Hops - 1) /\ h # 1
  BY <1>1
<1>6. \A w : step(w) = [h \in 1..Hops |-> IF h = 1 THEN b ELSE Onward(w[h - 1])]
  BY DEF Onward
<1>7. v = step(v)
  <2>1. v[1] = b
    BY <1>1, <1>4 DEF Goes
  <2>2. ASSUME NEW h \in 2..Hops PROVE v[h] = Onward(v[h - 1])
    <3>1. h - 1 - 1 \in 0..(Hops - 1) /\ h - 1 \in 1..(Hops - 1)
      BY <1>1
    <3>2. f[h - 1] = F[h - 1][f[h - 1 - 1]]
      BY <1>4, <3>1 DEF Goes
    <3>3. F[h - 1][f[h - 1 - 1]] = Onward(f[h - 1 - 1])
      BY <3>1
    <3>4. v[h] = f[h - 1] /\ v[h - 1] = f[h - 1 - 1]
      BY <1>5
    <3> QED
      BY <3>2, <3>3, <3>4
  <2>3. v = [h \in 1..Hops |-> v[h]]
    OBVIOUS
  <2>4. \A h \in 1..Hops : h # 1 => h \in 2..Hops
    BY <1>1
  <2> HIDE DEF v, b, step
  <2>5. \A h \in 1..Hops : v[h] = IF h = 1 THEN b ELSE Onward(v[h - 1])
    BY <2>1, <2>2, <2>4
  <2> QED
    BY <1>6, <2>3, <2>5
<1>8. walk = step(walk)
  <2> HIDE DEF step, v
  <2> QED
    BY <1>7
<1>9. Followed(n) = walk[Hops]
  BY DEF Followed
<1> HIDE DEF walk, b, step
<1>a. walk = [h \in 1..Hops |-> IF h = 1 THEN b ELSE Onward(walk[h - 1])]
  BY <1>6, <1>8
<1>10. walk[1] = b
  BY <1>1, <1>a
<1>11. \A h \in 2..Hops : walk[h] = Onward(walk[h - 1])
  BY <1>5, <1>a
<1>12. walk = [h \in 1..Hops |-> walk[h]]
  BY <1>a
<1>13. \A h \in 1..Hops : walk[h] \in Walks
  <2> DEFINE T == {k \in 0..(Hops - 1) : walk[k + 1] \in Walks}
  <2>1. 0 \in T
    BY <1>1, <1>2, <1>10
  <2>2. ASSUME NEW k \in 1..(Hops - 1), k - 1 \in T PROVE k \in T
    <3>1. k + 1 \in 2..Hops /\ k + 1 - 1 = k /\ k - 1 + 1 = k /\ k \in 0..(Hops - 1)
      BY <1>1
    <3>2. walk[k + 1] = Onward(walk[k])
      BY <1>11, <3>1
    <3>3. walk[k] \in Walks
      BY <2>2, <3>1
    <3> QED
      BY <3>1, <3>2, <3>3, OnwardTyped
  <2> HIDE DEF T
  <2>3. \A k \in 0..(Hops - 1) : k \in T
    BY <1>1, <2>1, <2>2, UpTo
  <2>4. \A h \in 1..Hops : h - 1 \in 0..(Hops - 1) /\ h - 1 + 1 = h
    BY <1>1
  <2> QED
    BY <2>3, <2>4 DEF T
<1>14. walk \in [1..Hops -> Walks]
  BY <1>12, <1>13
<1> QED
  BY <1>9, <1>10, <1>11, <1>14 DEF IsWalk, b

LEMMA FollowedTyped == ASSUME NodesTyped, NEW n \in DOMAIN nodes PROVE Followed(n) \in Walks
<1>1. PICK w : IsWalk(n, w) /\ Followed(n) = w[Hops]
  BY WalkIs
<1>2. Hops \in 1..Hops
  BY HopsOK
<1> QED
  BY <1>1, <1>2 DEF IsWalk

LEMMA CompressTyped ==
  ASSUME NEW t \in Int, NEW x \in Int
  PROVE  Compress(t, x) \in Int /\ Compress(t, 0) = 0
<1>1. x \div 2 \in Int /\ 0 \div 2 = 0
  OBVIOUS
<1> QED
  BY <1>1 DEF Compress

\* What a walk makes of a sample is a number, and of silence silence.
LEMMA ThroughTyped ==
  ASSUME NodesTyped, NEW w, w.gain \in Int, w.comp \in 0..Len(nodes), NEW x \in Int
  PROVE  Through(w, x) \in Int /\ Through(w, 0) = 0
<1>1. w.gain * x \in Int /\ w.gain * 0 = 0
  OBVIOUS
<1>2. CASE w.comp = 0
  BY <1>1, <1>2 DEF Through
<1>3. CASE w.comp # 0
  <2>1. nodes[w.comp].value \in Int
    BY <1>3, NodesAre
  <2> QED
    BY <1>1, <1>3, <2>1, CompressTyped DEF Through
<1> QED
  BY <1>2, <1>3

LEMMA RenderedTyped ==
  ASSUME NodesTyped, BuffersTyped, NEW n \in DOMAIN nodes, NEW i \in Nat \ {0}
  PROVE  Rendered(n, i) \in Int
<1>1. Followed(n) \in Walks
  BY FollowedTyped
<1>2. Followed(n).gain \in Int /\ Followed(n).comp \in 0..Len(nodes)
  BY <1>1 DEF Walks
<1> QED
  BY <1>2, PlaysTyped, ThroughTyped DEF Rendered

\* What sources play, and what a node makes of what comes in.
Played(i) ==
  [k \in DOMAIN nodes |-> IF k \in Sources /\ nodes[k].started THEN Plays(k, i) ELSE 0]

Effect(m, x) ==
  CASE nodes[m].kind = "gain" -> x * nodes[m].value
    [] nodes[m].kind = "compressor" -> Compress(nodes[m].value, x)
    [] OTHER -> x

FlowsOn(i, x) ==
  [m \in DOMAIN nodes |-> IF m \in Sources THEN Played(i)[m] ELSE Effect(m, Total(Feeds(m), x))]

Depth == Len(nodes) + Hops

IsFlow(i, fl) ==
  /\ fl \in [0..Depth -> [DOMAIN nodes -> Int]]
  /\ fl[0] = Played(i)
  /\ \A d \in 1..Depth : fl[d] = FlowsOn(i, fl[d - 1])

LEMMA DepthIs == ASSUME NodesTyped PROVE Depth \in Nat /\ Hops <= Depth
BY NodesAre, HopsOK DEF Depth

LEMMA PlayedTyped ==
  ASSUME NodesTyped, BuffersTyped, NEW i \in Nat \ {0}
  PROVE  Played(i) \in [DOMAIN nodes -> Int]
BY PlaysTyped DEF Played

LEMMA EffectTyped ==
  ASSUME NodesTyped, NEW m \in DOMAIN nodes, NEW x \in Int
  PROVE  Effect(m, x) \in Int /\ Effect(m, 0) = 0
<1>1. nodes[m].value \in Int
  BY NodesAre
<1>2. x * nodes[m].value \in Int /\ 0 * nodes[m].value = 0
  BY <1>1
<1> QED
  BY <1>1, <1>2, CompressTyped DEF Effect

LEMMA FlowsOnTyped ==
  ASSUME NodesTyped, BuffersTyped, NEW i \in Nat \ {0}, NEW x \in [DOMAIN nodes -> Int]
  PROVE  FlowsOn(i, x) \in [DOMAIN nodes -> Int]
<1>1. ASSUME NEW m \in DOMAIN nodes PROVE Effect(m, Total(Feeds(m), x)) \in Int
  BY TotalTyped, EffectTyped
<1>2. Played(i) \in [DOMAIN nodes -> Int]
  BY PlayedTyped
<1> QED
  BY <1>1, <1>2 DEF FlowsOn

LEMMA FlowIs ==
  ASSUME NodesTyped, BuffersTyped, NEW i \in Nat \ {0}
  PROVE  \E fl : IsFlow(i, fl) /\ Signal(i) = fl[Depth]
<1> DEFINE V == [DOMAIN nodes -> Int]
           F == [d \in 1..Depth |-> [x \in V |-> FlowsOn(i, x)]]
           In(d, m, fl) == IF m \in Sources THEN (IF nodes[m].started THEN Plays(m, i) ELSE 0)
                           ELSE IF d = 0 THEN 0 ELSE Total(Feeds(m), fl[d - 1])
           step(fl) == [d \in 0..(Len(nodes) + Hops) |-> [m \in DOMAIN nodes |->
                          LET x == In(d, m, fl)
                          IN CASE nodes[m].kind = "gain" -> x * nodes[m].value
                               [] nodes[m].kind = "compressor" -> Compress(nodes[m].value, x)
                               [] OTHER -> x]]
           flow == CHOOSE fl : fl = step(fl)
<1>1. Depth \in Nat /\ 0 \in 0..Depth /\ \A d \in 1..Depth : d \in 0..Depth /\ d - 1 \in 0..Depth /\ d # 0
  BY DepthIs
<1>2. Played(i) \in V
  BY PlayedTyped
<1>3. F \in [1..Depth -> [V -> V]]
  BY FlowsOnTyped
<1>4. PICK f \in [0..Depth -> V] : Goes(Depth, Played(i), F, f)
  <2> HIDE DEF F, V
  <2> QED
    BY <1>1, <1>2, <1>3, Computes
<1>5. \A fl : step(fl) = [d \in 0..Depth |-> [m \in DOMAIN nodes |-> Effect(m, In(d, m, fl))]]
  BY DEF Effect, Depth
<1>6. \A fl : [m \in DOMAIN nodes |-> Effect(m, In(0, m, fl))] = Played(i)
  <2>1. ASSUME NEW fl, NEW m \in DOMAIN nodes PROVE Effect(m, In(0, m, fl)) = Played(i)[m]
    <3>1. CASE m \in Sources
      BY <3>1 DEF Effect, Sources, Played
    <3>2. CASE m \notin Sources
      <4>1. In(0, m, fl) = 0 /\ Played(i)[m] = 0
        BY <3>2 DEF Played
      <4> QED
        BY <4>1, EffectTyped
    <3> QED
      BY <3>1, <3>2
  <2> QED
    BY <2>1 DEF Played
<1>7. ASSUME NEW fl, NEW d \in 1..Depth
      PROVE  [m \in DOMAIN nodes |-> Effect(m, In(d, m, fl))] = FlowsOn(i, fl[d - 1])
  <2>1. ASSUME NEW m \in DOMAIN nodes PROVE Effect(m, In(d, m, fl)) = FlowsOn(i, fl[d - 1])[m]
    <3>1. CASE m \in Sources
      BY <3>1 DEF Effect, Sources, Played, FlowsOn
    <3>2. CASE m \notin Sources
      <4>1. In(d, m, fl) = Total(Feeds(m), fl[d - 1])
        BY <1>1, <3>2
      <4> QED
        BY <3>2, <4>1 DEF FlowsOn
    <3> QED
      BY <3>1, <3>2
  <2> QED
    BY <2>1 DEF FlowsOn
<1> HIDE DEF step, In
<1>8. \A fl : fl = step(fl) <=> /\ fl = [d \in 0..Depth |-> fl[d]]
                                /\ fl[0] = Played(i) /\ \A d \in 1..Depth : fl[d] = FlowsOn(i, fl[d - 1])
  <2> SUFFICES ASSUME NEW fl
               PROVE  fl = step(fl) <=> /\ fl = [d \in 0..Depth |-> fl[d]]
                        /\ fl[0] = Played(i) /\ \A d \in 1..Depth : fl[d] = FlowsOn(i, fl[d - 1])
    OBVIOUS
  <2> DEFINE g == [d \in 0..Depth |-> [m \in DOMAIN nodes |-> Effect(m, In(d, m, fl))]]
  <2>1. step(fl) = g
    BY <1>5
  <2>2. g[0] = Played(i) /\ \A d \in 1..Depth : g[d] = FlowsOn(i, fl[d - 1])
    BY <1>1, <1>6, <1>7
  <2>3. g = [d \in 0..Depth |-> g[d]]
    OBVIOUS
  <2>4. \A d \in 0..Depth : d = 0 \/ d \in 1..Depth
    BY <1>1
  <2>5. g = [d \in 0..Depth |-> IF d = 0 THEN Played(i) ELSE FlowsOn(i, fl[d - 1])]
    <3> HIDE DEF g
    <3>1. \A d \in 0..Depth : g[d] = IF d = 0 THEN Played(i) ELSE FlowsOn(i, fl[d - 1])
      BY <2>2, <2>4
    <3> QED
      BY <2>3, <3>1
  <2> HIDE DEF g
  <2>6. CASE fl = step(fl)
    <3>1. fl = [d \in 0..Depth |-> IF d = 0 THEN Played(i) ELSE FlowsOn(i, fl[d - 1])]
      BY <2>1, <2>5, <2>6
    <3>2. fl[0] = Played(i) /\ \A d \in 1..Depth : fl[d] = FlowsOn(i, fl[d - 1])
      BY <1>1, <3>1
    <3>3. fl = [d \in 0..Depth |-> fl[d]]
      BY <3>1
    <3> QED
      BY <2>6, <3>2, <3>3
  <2>7. CASE /\ fl = [d \in 0..Depth |-> fl[d]]
             /\ fl[0] = Played(i) /\ \A d \in 1..Depth : fl[d] = FlowsOn(i, fl[d - 1])
    <3>1. \A d \in 0..Depth : fl[d] = IF d = 0 THEN Played(i) ELSE FlowsOn(i, fl[d - 1])
      BY <1>1, <2>4, <2>7
    <3>2. fl = g
      BY <2>5, <2>7, <3>1
    <3> QED
      BY <2>1, <2>7, <3>2
  <2> QED
    BY <2>6, <2>7
<1>9. f = step(f)
  <2>1. \A d \in 1..Depth : f[d] = FlowsOn(i, f[d - 1])
    BY <1>1, <1>4 DEF Goes
  <2> QED
    BY <1>4, <1>8, <2>1 DEF Goes
<1>10. flow = step(flow)
  BY <1>9
<1>11. Signal(i) = flow[Depth]
  BY DEF Signal, Depth, step, In
<1> HIDE DEF flow
<1>12. /\ flow = [d \in 0..Depth |-> flow[d]]
       /\ flow[0] = Played(i) /\ \A d \in 1..Depth : flow[d] = FlowsOn(i, flow[d - 1])
  BY <1>8, <1>10
<1>13. \A d \in 0..Depth : flow[d] \in V
  <2> DEFINE T == {d \in 0..Depth : flow[d] \in V}
  <2>1. 0 \in T
    BY <1>1, <1>2, <1>12
  <2>2. ASSUME NEW d \in 1..Depth, d - 1 \in T PROVE d \in T
    <3>1. flow[d - 1] \in V
      BY <2>2
    <3>2. FlowsOn(i, flow[d - 1]) \in V
      BY <3>1, FlowsOnTyped
    <3> QED
      BY <1>1, <1>12, <3>2
  <2> HIDE DEF T
  <2>3. \A d \in 0..Depth : d \in T
    BY <1>1, <2>1, <2>2, UpTo
  <2> QED
    BY <2>3 DEF T
<1> QED
  BY <1>11, <1>12, <1>13 DEF IsFlow

---------------------------------------------------------------------------
(* Audio: what every node adds to a destination.                            *)

\* In a graph of plain chains a node feeds the one that is next, if any.
NextOf(n) == nodes[n].down[1]

LEMMA PlainMeans ==
  ASSUME NodesTyped, Plain, NEW n \in DOMAIN nodes
  PROVE  /\ nodes[n].toDest \/ nodes[n].kind = "compressor" => nodes[n].down = <<>>
         /\ nodes[n].down # <<>> =>
              NextOf(n) \in DOMAIN nodes /\ NextOf(n) \notin Sources /\ nodes[NextOf(n)].dest = nodes[n].dest
         /\ \A m : n \in Feeds(m) <=> nodes[n].down # <<>> /\ m = NextOf(n)
<1>1. nodes[n].down \in Seq(Nat) /\ nodes[n].toDest \in BOOLEAN
  BY NodesAre DEF AudioNodes
<1>2. Len(nodes[n].down) + (IF nodes[n].toDest THEN 1 ELSE 0) <= 1
  BY DEF Plain
<1>3. Len(nodes[n].down) <= 1 /\ (nodes[n].toDest => nodes[n].down = <<>>)
  <2>1. Len(nodes[n].down) \in Nat
    BY <1>1
  <2>2. CASE nodes[n].toDest
    BY <1>1, <1>2, <2>1, <2>2
  <2>3. CASE ~ nodes[n].toDest
    BY <1>2, <2>1, <2>3
  <2> QED
    BY <2>2, <2>3
<1>4. \A m : m \in ToSet(nodes[n].down) <=> nodes[n].down # <<>> /\ m = NextOf(n)
  <2>1. nodes[n].down # <<>> => DOMAIN nodes[n].down = {1}
    BY <1>1, <1>3
  <2>2. nodes[n].down = <<>> => DOMAIN nodes[n].down = {}
    OBVIOUS
  <2>3. ToSet(nodes[n].down) = {nodes[n].down[j] : j \in DOMAIN nodes[n].down}
    BY DEF ToSet
  <2> QED
    BY <2>1, <2>2, <2>3 DEF NextOf
<1>5. nodes[n].down # <<>> => NextOf(n) \in DOMAIN nodes /\ NextOf(n) \in ToSet(nodes[n].down)
  BY NodesAre DEF NextOf
<1>6. \A m \in ToSet(nodes[n].down) :
        nodes[m].dest = nodes[n].dest /\ m \notin Sources /\ nodes[n].kind # "compressor"
  BY DEF Plain
<1>7. \A m : n \in Feeds(m) <=> m \in ToSet(nodes[n].down)
  BY DEF Feeds
<1> QED
  BY <1>3, <1>4, <1>5, <1>6, <1>7

Weights == [gain : Int, comp : 0..Len(nodes)]

Nowhere == [gain |-> 0, comp |-> 0]

\* What leaves a node counts at the destination D as it is if the node is connected to
\* it; one edge before that, it counts as the next node makes it count; and so on.
Arriving(D) ==
  [k \in DOMAIN nodes |->
     [gain |-> IF nodes[k].toDest /\ nodes[k].dest = D THEN 1 ELSE 0, comp |-> 0]]

Into(m, r) ==
  [gain |-> IF nodes[m].kind = "gain" THEN nodes[m].value * r.gain ELSE r.gain,
   comp |-> IF nodes[m].kind = "compressor" THEN m ELSE r.comp]

OneBack(r) ==
  [k \in DOMAIN nodes |-> IF nodes[k].down = <<>> THEN Nowhere ELSE Into(NextOf(k), r[NextOf(k)])]

AreWeights(D, c) ==
  /\ c \in [0..Depth -> [DOMAIN nodes -> Weights]]
  /\ c[0] = Arriving(D) /\ \A j \in 1..Depth : c[j] = OneBack(c[j - 1])

\* Compressors are last, so what leaves one is not compressed again.
CompressorsLast(r) ==
  \A k \in DOMAIN nodes :
    /\ nodes[k].kind = "compressor" => r[k].comp = 0 /\ r[k].gain \in {0, 1}
    /\ r[k].comp # 0 => nodes[r[k].comp].kind = "compressor"

LEMMA ArrivingRight ==
  ASSUME NodesTyped, NEW D
  PROVE  Arriving(D) \in [DOMAIN nodes -> Weights] /\ CompressorsLast(Arriving(D))
<1>1. 0 \in 0..Len(nodes)
  BY NodesAre
<1> QED
  BY <1>1 DEF Arriving, Weights, CompressorsLast

LEMMA IntoTyped ==
  ASSUME NodesTyped, NEW m \in DOMAIN nodes, NEW r \in Weights
  PROVE  Into(m, r) \in Weights
<1>1. nodes[m].value \in Int /\ m \in 0..Len(nodes)
  BY NodesAre
<1>2. r.gain \in Int /\ r.comp \in 0..Len(nodes)
  BY DEF Weights
<1>3. nodes[m].value * r.gain \in Int
  BY <1>1, <1>2
<1> QED
  BY <1>1, <1>2, <1>3 DEF Into, Weights

LEMMA OneBackRight ==
  ASSUME NodesTyped, Plain, NEW r \in [DOMAIN nodes -> Weights], CompressorsLast(r)
  PROVE  OneBack(r) \in [DOMAIN nodes -> Weights] /\ CompressorsLast(OneBack(r))
<1>1. Nowhere \in Weights
  BY NodesAre DEF Nowhere, Weights
<1>2. ASSUME NEW k \in DOMAIN nodes, nodes[k].down # <<>> PROVE Into(NextOf(k), r[NextOf(k)]) \in Weights
  BY <1>2, PlainMeans, IntoTyped
<1>3. OneBack(r) \in [DOMAIN nodes -> Weights]
  BY <1>1, <1>2 DEF OneBack
<1>4. ASSUME NEW k \in DOMAIN nodes
      PROVE  /\ nodes[k].kind = "compressor" => OneBack(r)[k].comp = 0 /\ OneBack(r)[k].gain \in {0, 1}
             /\ OneBack(r)[k].comp # 0 => nodes[OneBack(r)[k].comp].kind = "compressor"
  <2>1. CASE nodes[k].down = <<>>
    BY <2>1 DEF OneBack, Nowhere
  <2>2. CASE nodes[k].down # <<>>
    <3> DEFINE m == NextOf(k)
    <3>1. nodes[k].kind # "compressor" /\ m \in DOMAIN nodes
      BY <2>2, PlainMeans
    <3>2. OneBack(r)[k] = Into(m, r[m])
      BY <2>2 DEF OneBack
    <3>3. Into(m, r[m]).comp = IF nodes[m].kind = "compressor" THEN m ELSE r[m].comp
      BY DEF Into
    <3>4. r[m].comp # 0 => nodes[r[m].comp].kind = "compressor"
      BY <3>1 DEF CompressorsLast
    <3> HIDE DEF m
    <3> QED
      BY <3>1, <3>2, <3>3, <3>4
  <2> QED
    BY <2>1, <2>2
<1> QED
  BY <1>3, <1>4 DEF CompressorsLast

LEMMA WeightsAre ==
  ASSUME NodesTyped, Plain, NEW D
  PROVE  \E c : AreWeights(D, c) /\ \A j \in 0..Depth : CompressorsLast(c[j])
<1> DEFINE V == {r \in [DOMAIN nodes -> Weights] : CompressorsLast(r)}
           F == [j \in 1..Depth |-> [r \in V |-> OneBack(r)]]
<1>1. Depth \in Nat /\ \A j \in 1..Depth : j - 1 \in 0..Depth
  BY DepthIs
<1>2. Arriving(D) \in V
  BY ArrivingRight
<1>3. F \in [1..Depth -> [V -> V]]
  BY OneBackRight
<1>4. PICK c \in [0..Depth -> V] : Goes(Depth, Arriving(D), F, c)
  <2> HIDE DEF F, V
  <2> QED
    BY <1>1, <1>2, <1>3, Computes
<1>5. \A j \in 1..Depth : c[j] = OneBack(c[j - 1])
  BY <1>1, <1>4 DEF Goes
<1>6. c \in [0..Depth -> [DOMAIN nodes -> Weights]] /\ \A j \in 0..Depth : CompressorsLast(c[j])
  <2>1. \A j \in 0..Depth : c[j] \in V
    BY <1>4
  <2> QED
    BY <1>4, <2>1
<1> QED
  BY <1>4, <1>5, <1>6 DEF AreWeights, Goes

\* What has come into node k of the outputs x of the first q nodes.
Inflow(x, q, k) ==
  SumOf(Len(nodes), [l \in 1..Len(nodes) |-> IF l <= q /\ l \in Feeds(k) THEN x[l] ELSE 0])

LEMMA InflowIs ==
  ASSUME NodesTyped, NEW x \in [DOMAIN nodes -> Int], NEW k
  PROVE  /\ Inflow(x, 0, k) = 0 /\ Inflow(x, Len(nodes), k) = Total(Feeds(k), x)
         /\ \A q \in 0..Len(nodes) : Inflow(x, q, k) \in Int
         /\ \A q \in 1..Len(nodes) :
              Inflow(x, q, k) = Inflow(x, q - 1, k) + (IF q \in Feeds(k) THEN x[q] ELSE 0)
<1> DEFINE N == Len(nodes)
           f(q) == [l \in 1..N |-> IF l <= q /\ l \in Feeds(k) THEN x[l] ELSE 0]
<1>1. N \in Nat /\ DOMAIN nodes = 1..N
  BY NodesAre
<1>2. \A q : f(q) \in [1..N -> Int] /\ Inflow(x, q, k) = SumOf(N, f(q))
  BY <1>1 DEF Inflow
<1>3. Inflow(x, 0, k) = 0
  <2>1. \A l \in 1..N : f(0)[l] = 0
    OBVIOUS
  <2> HIDE DEF f, N
  <2> QED
    BY <1>1, <1>2, <2>1, SumOfNothing
<1>4. Inflow(x, N, k) = Total(Feeds(k), x)
  <2>1. f(N) = [l \in DOMAIN nodes |-> IF l \in Feeds(k) THEN x[l] ELSE 0]
    BY <1>1
  <2> HIDE DEF f
  <2> QED
    BY <1>2, <2>1, TotalIs
<1>5. \A q \in 0..N : Inflow(x, q, k) \in Int
  <2> HIDE DEF f, N
  <2> QED
    BY <1>1, <1>2, SumTyped
<1>6. ASSUME NEW q \in 1..N
      PROVE  Inflow(x, q, k) = Inflow(x, q - 1, k) + (IF q \in Feeds(k) THEN x[q] ELSE 0)
  <2> DEFINE d == IF q \in Feeds(k) THEN x[q] ELSE 0
  <2>1. d \in Int
    BY <1>1
  <2>2. f(q)[q] = f(q - 1)[q] + d
    BY <1>1
  <2>3. \A l \in 1..N : l # q => f(q)[l] = f(q - 1)[l]
    OBVIOUS
  <2>4. Grown(N, f(q - 1), f(q), q, d)
    <3> HIDE DEF f, d
    <3> QED
      BY <1>2, <2>1, <2>2, <2>3 DEF Grown
  <2>5. SumOf(N, f(q)) = SumOf(N, f(q - 1)) + d
    <3> HIDE DEF f, N, d
    <3> QED
      BY <1>1, <2>4, SumGrows
  <2> HIDE DEF f
  <2> QED
    BY <1>2, <2>5
<1> QED
  BY <1>3, <1>4, <1>5, <1>6

LEMMA ThroughAdds ==
  ASSUME NodesTyped, NEW w \in Weights, NEW x \in Int, NEW y \in Int, w.comp = 0 \/ x = 0
  PROVE  Through(w, x + y) = Through(w, x) + Through(w, y)
<1>1. w.gain \in Int /\ w.comp \in 0..Len(nodes)
  BY DEF Weights
<1>2. CASE w.comp = 0
  <2>1. w.gain * (x + y) = w.gain * x + w.gain * y
    BY <1>1, SMTT(30)
  <2> QED
    BY <1>2, <2>1 DEF Through
<1>3. CASE x = 0
  <2>1. Through(w, 0) = 0 /\ Through(w, y) \in Int /\ 0 + y = y
    BY <1>1, ThroughTyped
  <2> QED
    BY <1>3, <2>1
<1> QED
  BY <1>2, <1>3

\* What leaves a node counts as what came in counts there.
LEMMA EffectCounts ==
  ASSUME NodesTyped, NEW r \in [DOMAIN nodes -> Weights], CompressorsLast(r),
         NEW k \in DOMAIN nodes, NEW x \in Int
  PROVE  Through(r[k], Effect(k, x)) = Through(Into(k, r[k]), x)
<1> DEFINE v == nodes[k].value  g == r[k].gain  c == r[k].comp
<1>1. v \in Int /\ g \in Int /\ c \in 0..Len(nodes) /\ 0 \notin DOMAIN nodes
  BY NodesAre DEF Weights
<1>2. CASE nodes[k].kind = "gain"
  <2>1. Effect(k, x) = x * v /\ Into(k, r[k]).gain = v * g /\ Into(k, r[k]).comp = c
    BY <1>2 DEF Effect, Into
  <2> HIDE DEF v, g, c
  <2>2. g * (x * v) = (v * g) * x
    BY <1>1, SMTT(30)
  <2> QED
    BY <2>1, <2>2 DEF Through, g, c
<1>3. CASE nodes[k].kind = "compressor"
  <2>1. Effect(k, x) = Compress(v, x) /\ Into(k, r[k]).gain = g /\ Into(k, r[k]).comp = k
    BY <1>3 DEF Effect, Into
  <2>2. c = 0 /\ g \in {0, 1}
    BY <1>3 DEF CompressorsLast
  <2>3. Compress(v, x) \in Int /\ Compress(v, 0) = 0
    BY <1>1, CompressTyped
  <2>4. Through(Into(k, r[k]), x) = Compress(v, g * x)
    BY <1>1, <2>1 DEF Through
  <2>5. Through(r[k], Effect(k, x)) = g * Compress(v, x)
    BY <2>1, <2>2 DEF Through
  <2> HIDE DEF v, g, c
  <2> QED
    BY <2>2, <2>3, <2>4, <2>5
<1>4. CASE nodes[k].kind \notin {"gain", "compressor"}
  <2>1. Effect(k, x) = x /\ Into(k, r[k]).gain = g /\ Into(k, r[k]).comp = c
    BY <1>4 DEF Effect, Into
  <2> QED
    BY <2>1 DEF Through
<1> QED
  BY <1>2, <1>3, <1>4

\* What nodes have added, and what their outputs count.
Counts(r, base, x) == [k \in DOMAIN nodes |-> base[k] + Through(r[k], x[k])]

\* What all nodes put out at one depth counts at the destination as what sources play
\* and what all nodes put out one depth before.
LEMMA StepBack ==
  ASSUME NodesTyped, BuffersTyped, Plain, NEW i \in Nat \ {0},
         NEW r \in [DOMAIN nodes -> Weights], CompressorsLast(r),
         NEW base \in [DOMAIN nodes -> Int], NEW x \in [DOMAIN nodes -> Int]
  PROVE  SumOf(Len(nodes), Counts(r, base, FlowsOn(i, x)))
           = SumOf(Len(nodes), Counts(OneBack(r), Counts(r, base, Played(i)), x))
<1> DEFINE played == Played(i)  y == FlowsOn(i, x)
<1>0. /\ played \in [DOMAIN nodes -> Int] /\ y \in [DOMAIN nodes -> Int]
      /\ \A k \in DOMAIN nodes : k \notin Sources => played[k] = 0
      /\ \A k \in DOMAIN nodes :
           y[k] = IF k \in Sources THEN played[k] ELSE Effect(k, Total(Feeds(k), x))
  <2>1. \A k \in DOMAIN nodes : k \notin Sources => played[k] = 0
    BY DEF Played
  <2>2. \A k \in DOMAIN nodes :
          y[k] = IF k \in Sources THEN played[k] ELSE Effect(k, Total(Feeds(k), x))
    BY DEF FlowsOn
  <2> QED
    BY <2>1, <2>2, PlayedTyped, FlowsOnTyped
<1> HIDE DEF played, y
<1> USE <1>0
<1> DEFINE N == Len(nodes)
           into(q, k) == IF k \in Sources THEN Through(r[k], played[k])
                         ELSE Through(Into(k, r[k]), Inflow(x, q, k))
           from(q, k) == IF k <= q THEN Through(OneBack(r)[k], x[k]) ELSE 0
           u(q, k) == base[k] + into(q, k)
           w(q, k) == (base[k] + Through(r[k], played[k])) + from(q, k)
           U == [q \in 0..N |-> [k \in 1..N |-> u(q, k)]]
           W == [q \in 0..N |-> [k \in 1..N |-> w(q, k)]]
<1>1. N \in Nat /\ DOMAIN nodes = 1..N
  BY NodesAre
<1>2. OneBack(r) \in [DOMAIN nodes -> Weights]
  BY OneBackRight
<1>3. \A v \in Weights : \A z \in Int : Through(v, z) \in Int /\ Through(v, 0) = 0
  BY ThroughTyped DEF Weights
<1>4. \A k \in DOMAIN nodes : r[k] \in Weights /\ Into(k, r[k]) \in Weights /\ OneBack(r)[k] \in Weights
  BY <1>2, IntoTyped
<1>5. ASSUME NEW q \in 0..N, NEW k \in 1..N
      PROVE  into(q, k) \in Int /\ from(q, k) \in Int /\ Through(r[k], played[k]) \in Int /\ base[k] \in Int
  <2>1. Inflow(x, q, k) \in Int
    BY InflowIs
  <2>2. played[k] \in Int /\ x[k] \in Int /\ base[k] \in Int
    BY <1>1
  <2>3. r[k] \in Weights /\ Into(k, r[k]) \in Weights /\ OneBack(r)[k] \in Weights
    BY <1>1, <1>4
  <2>4. /\ Through(r[k], played[k]) \in Int /\ Through(OneBack(r)[k], x[k]) \in Int
        /\ Through(Into(k, r[k]), Inflow(x, q, k)) \in Int
    BY <1>3, <2>1, <2>2, <2>3
  <2> QED
    BY <2>2, <2>4
<1>6. \A q \in 0..N : \A k \in 1..N : u(q, k) \in Int /\ w(q, k) \in Int
  <2> HIDE DEF into, from, N
  <2> QED
    BY <1>5
<1>7. U \in [0..N -> [1..N -> Int]] /\ W \in [0..N -> [1..N -> Int]]
      /\ \A q \in 0..N : \A k \in 1..N : U[q][k] = u(q, k) /\ W[q][k] = w(q, k)
  <2> HIDE DEF u, w, N
  <2> QED
    BY <1>6
<1>8. U[0] = W[0]
  <2>1. ASSUME NEW k \in 1..N PROVE u(0, k) = w(0, k)
    <3>1. from(0, k) = 0
      BY <1>1
    <3>2. into(0, k) = Through(r[k], played[k])
      <4>1. CASE k \in Sources
        BY <4>1
      <4>2. CASE k \notin Sources
        <5>1. into(0, k) = Through(Into(k, r[k]), 0)
          BY <4>2, InflowIs
        <5>2. played[k] = 0
          BY <1>1, <4>2
        <5> QED
          BY <1>1, <1>3, <1>4, <5>1, <5>2
      <4> QED
        BY <4>1, <4>2
    <3>3. base[k] \in Int /\ Through(r[k], played[k]) \in Int
      <4>1. base[k] \in Int /\ played[k] \in Int /\ r[k] \in Weights
        BY <1>1
      <4> QED
        BY <1>3, <4>1
    <3>4. u(0, k) = base[k] + Through(r[k], played[k])
      BY <3>2
    <3>5. w(0, k) = (base[k] + Through(r[k], played[k])) + 0
      BY <3>1
    <3> HIDE DEF u, w
    <3> QED
      BY <3>3, <3>4, <3>5
  <2> HIDE DEF u, w, N
  <2> QED
    BY <1>1, <2>1
<1>9. ASSUME NEW q \in 1..N
      PROVE  \E m, l, d : Grown(N, U[q - 1], U[q], m, d) /\ Grown(N, W[q - 1], W[q], l, d)
  <2>0. q \in 0..N /\ q - 1 \in 0..N /\ q \in DOMAIN nodes
    BY <1>1
  <2>1. \A k : Inflow(x, q, k) = Inflow(x, q - 1, k) + (IF q \in Feeds(k) THEN x[q] ELSE 0)
    BY InflowIs
  <2> DEFINE d == Through(OneBack(r)[q], x[q])
  <2>2. x[q] \in Int /\ d \in Int
    BY <1>3, <1>4, <2>0
  <2>3. from(q, q) = d /\ from(q - 1, q) = 0
    BY <2>0
  <2>4. \A k \in 1..N : k # q => from(q, k) = from(q - 1, k)
    BY <2>0
  <2>5. Grown(N, W[q - 1], W[q], q, d)
    <3>1. W[q] \in [1..N -> Int] /\ W[q - 1] \in [1..N -> Int]
      BY <1>7, <2>0
    <3>2. \A k \in 1..N : W[q][k] = w(q, k) /\ W[q - 1][k] = w(q - 1, k)
      BY <1>7, <2>0
    <3>3. base[q] + Through(r[q], played[q]) \in Int
      BY <1>5, <2>0
    <3>4. w(q, q) = w(q - 1, q) + d
      <4> HIDE DEF from, d
      <4> QED
        BY <2>2, <2>3, <3>3
    <3>5. \A k \in 1..N : k # q => w(q, k) = w(q - 1, k)
      <4> HIDE DEF from
      <4> QED
        BY <2>4
    <3> HIDE DEF w, W, d, N
    <3> QED
      BY <2>2, <3>1, <3>2, <3>4, <3>5 DEF Grown
  <2>6. \E m : Grown(N, U[q - 1], U[q], m, d)
    <3>1. U[q] \in [1..N -> Int] /\ U[q - 1] \in [1..N -> Int]
      BY <1>7, <2>0
    <3>2. \A k \in 1..N : U[q][k] = u(q, k) /\ U[q - 1][k] = u(q - 1, k)
      BY <1>7, <2>0
    <3>3. ASSUME NEW k \in 1..N, q \notin Feeds(k) \/ k \in Sources PROVE into(q, k) = into(q - 1, k)
      <4>1. CASE k \in Sources
        BY <4>1
      <4>2. CASE k \notin Sources
        <5>1. Inflow(x, q, k) = Inflow(x, q - 1, k) + 0
          BY <2>1, <3>3, <4>2
        <5>2. Inflow(x, q - 1, k) \in Int
          BY <2>0, InflowIs
        <5>3. Inflow(x, q, k) = Inflow(x, q - 1, k)
          BY <5>1, <5>2
        <5> QED
          BY <4>2, <5>3
      <4> QED
        BY <4>1, <4>2
    <3>4. \A k \in 1..N : into(q, k) = into(q - 1, k) => u(q, k) = u(q - 1, k)
      OBVIOUS
    <3>5. CASE nodes[q].down = <<>>
      <4>1. d = 0
        <5>1. OneBack(r)[q] = Nowhere
          BY <2>0, <3>5 DEF OneBack
        <5>2. 0 * x[q] = 0
          BY <2>2
        <5> QED
          BY <5>1, <5>2 DEF Nowhere, Through
      <4>2. \A k : q \notin Feeds(k)
        BY <2>0, <3>5, PlainMeans
      <4>3. \A k \in 1..N : u(q, k) = u(q - 1, k) /\ u(q - 1, k) \in Int
        <5> HIDE DEF into
        <5> QED
          BY <1>6, <2>0, <3>3, <3>4, <4>2
      <4> HIDE DEF u, U, d
      <4>4. Grown(N, U[q - 1], U[q], q, d)
        BY <3>1, <3>2, <4>1, <4>3 DEF Grown
      <4> QED
        BY <4>4
    <3>6. CASE nodes[q].down # <<>>
      <4> DEFINE m == NextOf(q)
      <4>1. m \in 1..N /\ m \notin Sources /\ \A k : q \in Feeds(k) <=> k = m
        BY <1>1, <2>0, <3>6, PlainMeans
      <4>2. OneBack(r)[q] = Into(m, r[m])
        BY <2>0, <3>6 DEF OneBack
      <4> HIDE DEF m
      <4>3. Inflow(x, q, m) = Inflow(x, q - 1, m) + x[q] /\ Inflow(x, q - 1, m) \in Int
        BY <2>0, <2>1, <4>1, InflowIs
      <4>4. Into(m, r[m]).comp = 0 \/ Inflow(x, q - 1, m) = 0
        <5>1. CASE \E k \in DOMAIN nodes : nodes[k].kind = "compressor"
          <6>1. \A k, l \in Feeds(m) : k = l
            BY <1>1, <4>1, <5>1 DEF Plain
          <6>2. \A l \in 1..N : ~ (l <= q - 1 /\ l \in Feeds(m))
            BY <2>0, <4>1, <6>1
          <6> DEFINE f == [l \in 1..N |-> IF l <= q - 1 /\ l \in Feeds(m) THEN x[l] ELSE 0]
          <6>3. f \in [1..N -> Int] /\ \A l \in 1..N : f[l] = 0
            BY <6>2
          <6>4. Inflow(x, q - 1, m) = SumOf(N, f)
            BY DEF Inflow
          <6> HIDE DEF f, N
          <6> QED
            BY <1>1, <6>3, <6>4, SumOfNothing
        <5>2. CASE ~ \E k \in DOMAIN nodes : nodes[k].kind = "compressor"
          <6>1. m \in DOMAIN nodes
            BY <1>1, <4>1
          <6>2. r[m].comp = 0 \/ (r[m].comp \in DOMAIN nodes /\ nodes[r[m].comp].kind = "compressor")
            BY <1>1, <6>1 DEF CompressorsLast, Weights
          <6>3. r[m].comp = 0 /\ nodes[m].kind # "compressor"
            BY <5>2, <6>1, <6>2
          <6> QED
            BY <6>3 DEF Into
        <5> QED
          BY <5>1, <5>2
      <4>5. into(q, m) = into(q - 1, m) + d
        <5>1. Into(m, r[m]) \in Weights
          BY <1>1, <1>4, <4>1
        <5>2. Through(Into(m, r[m]), Inflow(x, q - 1, m) + x[q])
                = Through(Into(m, r[m]), Inflow(x, q - 1, m)) + Through(Into(m, r[m]), x[q])
          BY <2>2, <4>3, <4>4, <5>1, ThroughAdds
        <5> QED
          BY <4>1, <4>2, <4>3, <5>2
      <4>6. u(q, m) = u(q - 1, m) + d
        <5>1. into(q - 1, m) \in Int /\ base[m] \in Int
          BY <1>5, <2>0, <4>1
        <5> HIDE DEF into, d
        <5> QED
          BY <2>2, <4>5, <5>1
      <4>7. \A k \in 1..N : k # m => u(q, k) = u(q - 1, k)
        <5> HIDE DEF into
        <5> QED
          BY <3>3, <4>1
      <4> HIDE DEF u, U, d, N
      <4>8. Grown(N, U[q - 1], U[q], m, d)
        BY <2>2, <3>1, <3>2, <4>1, <4>6, <4>7 DEF Grown
      <4> QED
        BY <4>8
    <3> QED
      BY <3>5, <3>6
  <2> HIDE DEF U, W, d, N
  <2> QED
    BY <2>5, <2>6
<1>10. SumOf(N, U[N]) = SumOf(N, W[N])
  <2> HIDE DEF U, W, N
  <2> QED
    BY <1>1, <1>7, <1>8, <1>9, SameSums
<1>11. U[N] = [k \in DOMAIN nodes |-> base[k] + Through(r[k], y[k])]
  <2>1. ASSUME NEW k \in 1..N PROVE into(N, k) = Through(r[k], y[k])
    <3>1. CASE k \in Sources
      BY <1>1, <3>1
    <3>2. CASE k \notin Sources
      <4>1. Inflow(x, N, k) = Total(Feeds(k), x) /\ Inflow(x, N, k) \in Int
        BY <1>1, InflowIs
      <4>2. y[k] = Effect(k, Inflow(x, N, k))
        BY <1>1, <3>2, <4>1
      <4>3. \A z \in Int : Through(r[k], Effect(k, z)) = Through(Into(k, r[k]), z)
        BY <1>1, EffectCounts
      <4> QED
        BY <3>2, <4>1, <4>2, <4>3
    <3> QED
      BY <3>1, <3>2
  <2> HIDE DEF into
  <2> QED
    BY <1>1, <2>1
<1>12. W[N] = [k \in DOMAIN nodes |-> (base[k] + Through(r[k], played[k])) + Through(OneBack(r)[k], x[k])]
  BY <1>1
<1> HIDE DEF U, W
<1>13. Counts(r, base, y) = U[N]
  BY <1>11 DEF Counts
<1>14. Counts(OneBack(r), Counts(r, base, played), x) = W[N]
  BY <1>12 DEF Counts
<1> QED
  BY <1>10, <1>13, <1>14 DEF played, y

\* What each node has added of its own after so many steps back.
Adds(i, c, a) ==
  /\ a \in [0..(Depth + 1) -> [DOMAIN nodes -> Int]]
  /\ a[0] = [k \in DOMAIN nodes |-> 0]
  /\ \A j \in 0..Depth : a[j + 1] = Counts(c[j], a[j], Played(i))

LEMMA CountsTyped ==
  ASSUME NodesTyped, NEW r \in [DOMAIN nodes -> Weights],
         NEW base \in [DOMAIN nodes -> Int], NEW x \in [DOMAIN nodes -> Int]
  PROVE  Counts(r, base, x) \in [DOMAIN nodes -> Int]
<1>1. ASSUME NEW k \in DOMAIN nodes PROVE Through(r[k], x[k]) \in Int
  <2>1. r[k].gain \in Int /\ r[k].comp \in 0..Len(nodes) /\ x[k] \in Int
    BY DEF Weights
  <2> QED
    BY <2>1, ThroughTyped
<1> QED
  BY <1>1 DEF Counts

LEMMA AddsAre ==
  ASSUME NodesTyped, BuffersTyped, NEW i \in Nat \ {0}, NEW D, NEW c, AreWeights(D, c)
  PROVE  \E a : Adds(i, c, a)
<1> DEFINE V == [DOMAIN nodes -> Int]
           zero == [k \in DOMAIN nodes |-> 0]
           F == [j \in 1..(Depth + 1) |-> [b \in V |-> Counts(c[j - 1], b, Played(i))]]
<1>1. Depth + 1 \in Nat /\ \A j \in 1..(Depth + 1) : j - 1 \in 0..Depth
  BY DepthIs
<1>2. zero \in V
  OBVIOUS
<1>3. ASSUME NEW j \in 1..(Depth + 1), NEW b \in V PROVE Counts(c[j - 1], b, Played(i)) \in V
  <2>1. c[j - 1] \in [DOMAIN nodes -> Weights] /\ Played(i) \in V
    BY <1>1, PlayedTyped DEF AreWeights
  <2> QED
    BY <2>1, CountsTyped
<1>4. F \in [1..(Depth + 1) -> [V -> V]]
  <2> HIDE DEF V
  <2> QED
    BY <1>3
<1>5. PICK a \in [0..(Depth + 1) -> V] : Goes(Depth + 1, zero, F, a)
  <2> HIDE DEF V, F, zero
  <2> QED
    BY <1>1, <1>2, <1>4, Computes
<1>6. ASSUME NEW j \in 0..Depth PROVE a[j + 1] = Counts(c[j], a[j], Played(i))
  <2>1. j + 1 \in 1..(Depth + 1) /\ j + 1 - 1 = j /\ j \in 0..(Depth + 1)
    BY DepthIs
  <2> DEFINE h == j + 1
  <2>2. h \in 1..(Depth + 1) /\ h - 1 = j
    BY <2>1
  <2> HIDE DEF h
  <2>3. a[h] = F[h][a[h - 1]]
    BY <1>5, <2>2 DEF Goes
  <2>4. a[j] \in V
    BY <2>1
  <2> HIDE DEF V
  <2>5. a[h] = Counts(c[j], a[j], Played(i))
    BY <2>2, <2>3, <2>4
  <2> QED
    BY <2>5 DEF h
<1>7. a[0] = [k \in DOMAIN nodes |-> 0]
  BY <1>5 DEF Goes
<1> QED
  BY <1>5, <1>6, <1>7 DEF Adds

\* What arrives at a destination is the sum of what the nodes add.
LEMMA ArrivesAdded ==
  ASSUME NodesTyped, BuffersTyped, Plain, NEW i \in Nat \ {0}, NEW D,
         NEW c, AreWeights(D, c), \A j \in 0..Depth : CompressorsLast(c[j]),
         NEW fl, IsFlow(i, fl), NEW a, Adds(i, c, a)
  PROVE  SumOf(Len(nodes), Counts(c[0], a[0], fl[Depth])) = SumOf(Len(nodes), a[Depth + 1])
<1> DEFINE N == Len(nodes)
           E(j) == Counts(c[j], a[j], fl[Depth - j])
           T == {j \in 0..Depth : SumOf(N, E(0)) = SumOf(N, E(j))}
<1>1. Depth \in Nat
  BY DepthIs
<1>2. ASSUME NEW j \in 0..Depth
      PROVE  /\ a[j] \in [DOMAIN nodes -> Int] /\ c[j] \in [DOMAIN nodes -> Weights]
             /\ fl[j] \in [DOMAIN nodes -> Int]
  <2>1. j \in 0..(Depth + 1)
    BY <1>1
  <2> QED
    BY <2>1 DEF Adds, AreWeights, IsFlow
<1>3. 0 \in T
  BY <1>1
<1>4. ASSUME NEW j \in 1..Depth, j - 1 \in T PROVE j \in T
  <2> DEFINE h == j - 1  d == Depth - j
  <2>1. /\ h \in 0..Depth /\ d \in 0..Depth /\ d + 1 \in 1..Depth /\ j \in 0..Depth
        /\ h + 1 = j /\ Depth - h = d + 1 /\ d + 1 - 1 = d
    BY <1>1
  <2>2. fl[d + 1] = FlowsOn(i, fl[d])
    BY <2>1 DEF IsFlow
  <2>3. a[j] = Counts(c[h], a[h], Played(i))
    BY <2>1 DEF Adds
  <2>4. c[j] = OneBack(c[h])
    BY DEF AreWeights
  <2>5. /\ a[h] \in [DOMAIN nodes -> Int] /\ c[h] \in [DOMAIN nodes -> Weights]
        /\ fl[d] \in [DOMAIN nodes -> Int] /\ CompressorsLast(c[h])
    BY <1>2, <2>1
  <2> HIDE DEF h, d
  <2>6. SumOf(Len(nodes), Counts(c[h], a[h], FlowsOn(i, fl[d])))
          = SumOf(Len(nodes), Counts(OneBack(c[h]), Counts(c[h], a[h], Played(i)), fl[d]))
    BY <2>5, StepBack
  <2>7. SumOf(N, E(h)) = SumOf(N, E(j))
    BY <2>1, <2>2, <2>3, <2>4, <2>6 DEF d
  <2>8. h \in T
    BY <1>4 DEF h
  <2> HIDE DEF E, N
  <2> QED
    BY <2>1, <2>7, <2>8
<1> HIDE DEF T
<1>5. \A j \in 0..Depth : j \in T
  BY <1>1, <1>3, <1>4, UpTo
<1>6. SumOf(N, E(0)) = SumOf(N, E(Depth))
  <2>1. Depth \in T
    BY <1>1, <1>5
  <2> HIDE DEF E, N
  <2> QED
    BY <2>1 DEF T
<1>7. Depth \in 0..Depth /\ Depth - 0 = Depth /\ Depth - Depth = 0
  BY <1>1
<1>8. a[Depth + 1] = E(Depth)
  <2>1. fl[0] = Played(i) /\ a[Depth + 1] = Counts(c[Depth], a[Depth], Played(i))
    BY <1>7 DEF IsFlow, Adds
  <2> QED
    BY <1>7, <2>1
<1> QED
  BY <1>6, <1>7, <1>8

---------------------------------------------------------------------------
(* Audio: the chains.                                                       *)

\* A walk that has not been stopped before step e has met what c says of its beginning.
Met(c, k, e, v) ==
  /\ nodes[v.at].dest = nodes[k].dest
  /\ v.comp # 0 => nodes[v.at].kind = "compressor"
  /\ \A j \in e..Depth :
       /\ c[j][k].gain = v.gain * c[j - e][v.at].gain
       /\ c[j][k].comp = IF v.comp # 0 THEN v.comp ELSE c[j - e][v.at].comp

LEMMA MetAtFirst ==
  ASSUME NodesTyped, NEW D, NEW c, AreWeights(D, c), NEW k \in DOMAIN nodes
  PROVE  Met(c, k, 0, [at |-> k, gain |-> 1, comp |-> 0])
<1> DEFINE v == [at |-> k, gain |-> 1, comp |-> 0]
<1>1. v.at = k /\ v.gain = 1 /\ v.comp = 0
  OBVIOUS
<1> HIDE DEF v
<1>2. ASSUME NEW j \in 0..Depth
      PROVE  c[j][k].gain = v.gain * c[j - 0][v.at].gain /\ c[j][k].comp = c[j - 0][v.at].comp
  <2>1. c[j][k].gain \in Int /\ j - 0 = j
    <3>1. c[j] \in [DOMAIN nodes -> Weights] /\ j \in Nat
      BY DepthIs DEF AreWeights
    <3>2. c[j][k] \in Weights
      BY <3>1
    <3> QED
      BY <3>1, <3>2 DEF Weights
  <2> QED
    BY <1>1, <2>1
<1>3. Met(c, k, 0, v)
  BY <1>1, <1>2 DEF Met
<1> QED
  BY <1>3 DEF v

LEMMA MetNext ==
  ASSUME NodesTyped, Plain, NEW D, NEW c, AreWeights(D, c), NEW k \in DOMAIN nodes,
         NEW e \in 1..Depth, NEW u \in Walks, Met(c, k, e - 1, u), ~ Stops(u.at)
  PROVE  Met(c, k, e, Onward(u))
<1> DEFINE n == u.at  m == NextOf(n)  v == Onward(u)
<1>1. n \in DOMAIN nodes /\ u.gain \in Int /\ nodes[n].down # <<>>
  BY DEF Walks, Stops
<1>2. m \in DOMAIN nodes /\ nodes[m].dest = nodes[n].dest /\ nodes[n].kind # "compressor"
      /\ nodes[m].value \in Int /\ m # 0
  BY <1>1, PlainMeans, NodesAre
<1>3. u.comp = 0 /\ nodes[n].dest = nodes[k].dest
  BY <1>2 DEF Met
<1>4. v = Past(m, u)
  BY DEF Onward, NextOf
<1> HIDE DEF m, n
<1>5. /\ v.at = m /\ v.gain = (IF nodes[m].kind = "gain" THEN u.gain * nodes[m].value ELSE u.gain)
      /\ v.comp = IF nodes[m].kind = "compressor" THEN m ELSE 0
  BY <1>3, <1>4 DEF Past
<1> HIDE DEF v
<1>6. ASSUME NEW j \in e..Depth
      PROVE  /\ c[j][k].gain = v.gain * c[j - e][v.at].gain
             /\ c[j][k].comp = IF v.comp # 0 THEN v.comp ELSE c[j - e][v.at].comp
  <2> DEFINE b == j - e  r == c[b]
  <2>1. j \in (e - 1)..Depth /\ j - (e - 1) = b + 1 /\ b \in 0..Depth /\ b + 1 \in 1..Depth /\ b + 1 - 1 = b
    BY DepthIs
  <2>2. c[j][k].gain = u.gain * c[b + 1][n].gain /\ c[j][k].comp = c[b + 1][n].comp
    BY <1>3, <2>1 DEF Met, n
  <2>3. c[b + 1] = OneBack(r)
    BY <2>1 DEF AreWeights
  <2>4. r \in [DOMAIN nodes -> Weights]
    BY <2>1 DEF AreWeights
  <2>5. c[b + 1][n] = Into(m, r[m])
    BY <1>1, <2>3 DEF OneBack, m
  <2>6. r[m].gain \in Int
    BY <1>2, <2>4 DEF Weights
  <2>7. r[m] = c[j - e][v.at]
    BY <1>5
  <2> HIDE DEF b, r
  <2>8. c[j][k].gain = v.gain * r[m].gain
    <3>1. Into(m, r[m]).gain = IF nodes[m].kind = "gain" THEN nodes[m].value * r[m].gain ELSE r[m].gain
      BY DEF Into
    <3>2. u.gain * (nodes[m].value * r[m].gain) = (u.gain * nodes[m].value) * r[m].gain
      BY <1>1, <1>2, <2>6, SMTT(30)
    <3> QED
      BY <1>5, <2>2, <2>5, <3>1, <3>2
  <2>9. c[j][k].comp = IF v.comp # 0 THEN v.comp ELSE r[m].comp
    BY <1>2, <1>5, <2>2, <2>5 DEF Into
  <2> QED
    BY <2>7, <2>8, <2>9
<1>7. nodes[v.at].dest = nodes[k].dest /\ (v.comp # 0 => nodes[v.at].kind = "compressor")
  BY <1>2, <1>3, <1>5
<1>8. Met(c, k, e, v)
  BY <1>6, <1>7 DEF Met
<1> QED
  BY <1>8 DEF v

LEMMA WeightOfNone ==
  ASSUME NodesTyped, NEW r \in Weights, r.gain = 0, NEW z \in Int
  PROVE  Through(r, z) = 0
<1>1. 0 * z = 0 /\ r.comp \in 0..Len(nodes)
  BY DEF Weights
<1>2. CASE r.comp # 0
  <2>1. nodes[r.comp].value \in Int
    BY <1>1, <1>2, NodesAre
  <2> QED
    BY <1>1, <1>2, <2>1, CompressTyped DEF Through
<1> QED
  BY <1>1, <1>2 DEF Through

\* The first stop of a walk, and what was met until then.
StopsAt(c, k, w, h) ==
  /\ h \in 1..Hops /\ Stops(w[h].at) /\ w[Hops] = w[h]
  /\ \A e \in 0..(h - 1) : Met(c, k, e, w[e + 1])
  /\ \A e \in 0..(h - 1) : e # h - 1 => ~ Stops(w[e + 1].at)

LEMMA WalkStops ==
  ASSUME NodesTyped, Plain, NEW D, NEW c, AreWeights(D, c), NEW k \in DOMAIN nodes,
         NEW w, IsWalk(k, w), Stops(w[Hops].at)
  PROVE  \E h : StopsAt(c, k, w, h)
<1> DEFINE stops == {h \in 1..Hops : Stops(w[h].at)}
<1>1. Hops \in Nat /\ Hops \in 1..Hops /\ Depth \in Nat /\ Hops <= Depth
  BY HopsOK, DepthIs
<1>2. stops \subseteq Nat /\ stops # {}
  BY <1>1
<1>3. PICK h \in stops : \A g \in stops : h <= g
  <2> HIDE DEF stops
  <2> QED
    BY <1>2, LeastNumber
<1>4. h \in 1..Hops /\ Stops(w[h].at) /\ h \in Nat
  BY <1>1
<1>5. \A e \in 0..(h - 1) : e # h - 1 => ~ Stops(w[e + 1].at)
  <2> SUFFICES ASSUME NEW e \in 0..(h - 1), e # h - 1, Stops(w[e + 1].at) PROVE FALSE
    OBVIOUS
  <2>1. e + 1 \in 1..Hops /\ ~ (h <= e + 1)
    BY <1>1, <1>4
  <2> QED
    BY <1>3, <2>1
<1> HIDE DEF stops
<1>6. w[Hops] = w[h]
  <2> DEFINE T == {e \in 0..(Hops - h) : w[h + e] = w[h]}
  <2>1. 0 \in T
    BY <1>1, <1>4
  <2>2. ASSUME NEW e \in 1..(Hops - h), e - 1 \in T PROVE e \in T
    <3> DEFINE g == h + e
    <3>1. g \in 2..Hops /\ g - 1 = h + (e - 1) /\ e \in 0..(Hops - h)
      BY <1>1, <1>4
    <3>2. \A f \in 2..Hops : w[f] = Onward(w[f - 1])
      BY DEF IsWalk
    <3>3. w[h + (e - 1)] = w[h]
      BY <2>2
    <3>4. w[h + e] = Onward(w[h])
      <4> HIDE DEF g
      <4>1. w[g] = Onward(w[g - 1])
        BY <3>1, <3>2
      <4> QED
        BY <3>1, <3>3, <4>1 DEF g
    <3> QED
      BY <1>4, <3>1, <3>4 DEF Onward
  <2> HIDE DEF T
  <2>3. Hops - h \in Nat
    BY <1>1, <1>4
  <2>4. \A e \in 0..(Hops - h) : e \in T
    BY <2>1, <2>2, <2>3, UpTo
  <2>5. Hops - h \in T /\ h + (Hops - h) = Hops
    BY <1>1, <1>4, <2>3, <2>4
  <2> QED
    BY <2>5 DEF T
<1>7. \A e \in 0..(h - 1) : Met(c, k, e, w[e + 1])
  <2> DEFINE T == {e \in 0..(h - 1) : Met(c, k, e, w[e + 1])}
  <2>1. 0 \in T
    <3>1. w[0 + 1] = [at |-> k, gain |-> 1, comp |-> 0] /\ 0 \in 0..(h - 1)
      BY <1>4 DEF IsWalk
    <3> QED
      BY <3>1, MetAtFirst
  <2>2. ASSUME NEW e \in 1..(h - 1), e - 1 \in T PROVE e \in T
    <3>1. /\ e \in 0..(h - 1) /\ e - 1 \in 0..(h - 1) /\ e - 1 # h - 1 /\ e \in 1..Depth
          /\ e + 1 \in 2..Hops /\ e + 1 - 1 = e /\ e - 1 + 1 = e /\ e \in 1..Hops
      BY <1>1, <1>4
    <3>2. Met(c, k, e - 1, w[e]) /\ ~ Stops(w[e].at)
      BY <1>5, <2>2, <3>1
    <3>3. w[e] \in Walks
      BY <3>1 DEF IsWalk
    <3>4. \A g \in 2..Hops : w[g] = Onward(w[g - 1])
      BY DEF IsWalk
    <3>5. w[e + 1] = Onward(w[e])
      BY <3>1, <3>4
    <3>6. Met(c, k, e, Onward(w[e]))
      BY <3>1, <3>2, <3>3, MetNext
    <3> QED
      BY <3>1, <3>5, <3>6
  <2> HIDE DEF T
  <2>3. h - 1 \in Nat
    BY <1>4
  <2>4. \A e \in 0..(h - 1) : e \in T
    BY <2>1, <2>2, <2>3, UpTo
  <2> QED
    BY <2>4 DEF T
<1> QED
  BY <1>4, <1>5, <1>6, <1>7 DEF StopsAt

\* A source counts once at its destination, at the end of its walk, and if that is
\* connected to it.
LEMMA WalkCounts ==
  ASSUME NodesTyped, Plain, NEW D, NEW c, AreWeights(D, c), NEW k \in DOMAIN nodes,
         Stops(Followed(k).at)
  PROVE  \E h \in 1..Hops : \A j \in 0..Depth : \A z \in Int :
           Through(c[j][k], z) = IF j = h - 1 /\ Heard(k) /\ nodes[k].dest = D
                                 THEN Through(Followed(k), z) ELSE 0
<1>1. PICK w : IsWalk(k, w) /\ Followed(k) = w[Hops]
  BY WalkIs
<1>2. PICK h : StopsAt(c, k, w, h)
  BY <1>1, WalkStops
<1>3. h \in 1..Hops /\ Hops \in Nat /\ Depth \in Nat /\ Hops <= Depth
  BY <1>2, HopsOK, DepthIs DEF StopsAt
<1> DEFINE v == w[h]  n == v.at
<1>4. v = Followed(k) /\ v \in Walks /\ n \in DOMAIN nodes
  BY <1>1, <1>2 DEF StopsAt, IsWalk, Walks
<1>5. Heard(k) <=> nodes[n].toDest
  BY <1>4 DEF Heard
<1>6. nodes[n].down = <<>>
  BY <1>2, <1>4, PlainMeans DEF StopsAt, Stops
<1>7. Met(c, k, h - 1, v)
  <2>1. h - 1 \in 0..(h - 1) /\ h - 1 + 1 = h
    BY <1>3
  <2>2. \A e \in 0..(h - 1) : Met(c, k, e, w[e + 1])
    BY <1>2 DEF StopsAt
  <2> QED
    BY <2>1, <2>2
<1> HIDE DEF v, n
<1>8. ASSUME NEW j \in 0..Depth, NEW z \in Int
      PROVE  Through(c[j][k], z) = IF j = h - 1 /\ Heard(k) /\ nodes[k].dest = D
                                   THEN Through(Followed(k), z) ELSE 0
  <2>1. c[j] \in [DOMAIN nodes -> Weights] /\ c[j][k] \in Weights
    BY DEF AreWeights
  <2>2. c[j][k].gain = 0 => Through(c[j][k], z) = 0
    BY <2>1, WeightOfNone
  <2>3. CASE j < h - 1
    <3> DEFINE u == w[j + 1]
    <3>1. j \in 0..(h - 1) /\ j # h - 1 /\ j + 1 \in 1..Hops
      BY <1>3, <2>3
    <3>2. Met(c, k, j, u) /\ ~ Stops(u.at)
      BY <1>2, <3>1 DEF StopsAt
    <3>3. u.gain \in Int /\ u.at \in DOMAIN nodes
      BY <1>1, <3>1 DEF IsWalk, Walks
    <3> HIDE DEF u
    <3>4. j \in j..Depth /\ j - j = 0
      BY <1>3
    <3>5. c[j][k].gain = u.gain * c[0][u.at].gain
      BY <3>2, <3>4 DEF Met
    <3>6. c[0][u.at].gain = 0
      BY <3>2, <3>3 DEF AreWeights, Arriving, Stops
    <3>7. c[j][k].gain = 0
      BY <3>3, <3>5, <3>6
    <3> QED
      BY <2>2, <2>3, <3>7
  <2>4. CASE j = h - 1
    <3>1. j \in (h - 1)..Depth /\ j - (h - 1) = 0
      BY <1>3, <2>4
    <3>2. /\ c[j][k].gain = v.gain * c[0][n].gain
          /\ c[j][k].comp = IF v.comp # 0 THEN v.comp ELSE c[0][n].comp
          /\ nodes[n].dest = nodes[k].dest
      BY <1>7, <3>1 DEF Met, n
    <3>3. c[0][n] = [gain |-> IF nodes[n].toDest /\ nodes[n].dest = D THEN 1 ELSE 0, comp |-> 0]
      BY <1>4 DEF AreWeights, Arriving
    <3>4. v.gain \in Int
      BY <1>4 DEF Walks
    <3>5. c[j][k].comp = v.comp
      BY <3>2, <3>3
    <3>6. CASE Heard(k) /\ nodes[k].dest = D
      <4>1. c[j][k].gain = v.gain
        BY <1>5, <3>2, <3>3, <3>4, <3>6
      <4>2. Through(c[j][k], z) = Through(v, z)
        BY <3>5, <4>1 DEF Through
      <4> QED
        BY <1>4, <2>4, <3>6, <4>2
    <3>7. CASE ~ (Heard(k) /\ nodes[k].dest = D)
      <4>1. c[j][k].gain = 0
        BY <1>5, <3>2, <3>3, <3>4, <3>7
      <4> QED
        BY <2>2, <3>7, <4>1
    <3> QED
      BY <3>6, <3>7
  <2>5. CASE j > h - 1
    <3> DEFINE b == j - (h - 1)
    <3>1. j \in (h - 1)..Depth /\ b \in 1..Depth
      BY <1>3, <2>5
    <3>2. c[j][k].gain = v.gain * c[b][n].gain
      BY <1>7, <3>1 DEF Met, n
    <3> HIDE DEF b
    <3>3. c[b][n] = Nowhere
      BY <1>4, <1>6, <3>1 DEF AreWeights, OneBack
    <3>4. v.gain \in Int
      BY <1>4 DEF Walks
    <3>5. c[j][k].gain = 0
      BY <3>2, <3>3, <3>4 DEF Nowhere
    <3>6. j # h - 1
      BY <1>3, <2>5
    <3> QED
      BY <2>2, <3>5, <3>6
  <2> QED
    BY <1>3, <2>3, <2>4, <2>5
<1> QED
  BY <1>3, <1>8

HeardAt(D) == {n \in Sources : nodes[n].dest = D /\ nodes[n].started /\ Heard(n)}

\* What a node has added in the end is what startRendering adds for it.
LEMMA AddedIs ==
  ASSUME NodesTyped, BuffersTyped, Plain, NEW i \in Nat \ {0}, NEW D,
         NEW c, AreWeights(D, c), NEW a, Adds(i, c, a), NEW k \in DOMAIN nodes
  PROVE  a[Depth + 1][k] = IF k \in HeardAt(D) THEN Rendered(k, i) ELSE 0
<1> DEFINE M == Depth + 1
           x == Played(i)[k]
<1>1. Depth \in Nat /\ M \in Nat /\ M \in 0..M
  BY DepthIs
<1>2. x \in Int
  BY PlayedTyped
<1>3. ASSUME NEW j \in 1..M
      PROVE  /\ j - 1 \in 0..Depth /\ c[j - 1][k] \in Weights /\ a[j - 1][k] \in Int
             /\ a[j][k] = a[j - 1][k] + Through(c[j - 1][k], x)
  <2> DEFINE h == j - 1
  <2>1. h \in 0..Depth /\ h \in 0..M /\ h + 1 = j
    BY <1>1
  <2> HIDE DEF h
  <2>2. a[h + 1] = Counts(c[h], a[h], Played(i)) /\ a[h] \in [DOMAIN nodes -> Int]
        /\ c[h] \in [DOMAIN nodes -> Weights]
    BY <2>1 DEF Adds, AreWeights
  <2>3. a[j][k] = a[h][k] + Through(c[h][k], x)
    BY <2>1, <2>2 DEF Counts
  <2>4. c[h][k] \in Weights /\ a[h][k] \in Int
    BY <2>2
  <2> QED
    BY <2>1, <2>3, <2>4 DEF h
<1>4. a[0][k] = 0
  BY DEF Adds
<1>5. CASE k \in Sources /\ nodes[k].started
  <2>1. x = Plays(k, i)
    BY <1>5 DEF Played
  <2>2. Stops(Followed(k).at)
    BY <1>5 DEF Plain
  <2>3. PICK h \in 1..Hops : \A j \in 0..Depth : \A z \in Int :
           Through(c[j][k], z) = IF j = h - 1 /\ Heard(k) /\ nodes[k].dest = D
                                 THEN Through(Followed(k), z) ELSE 0
    BY <2>2, WalkCounts
  <2> DEFINE y == Through(Followed(k), x)
             G == Heard(k) /\ nodes[k].dest = D
             T == {j \in 0..M : a[j][k] = IF h <= j /\ G THEN y ELSE 0}
  <2>4. y \in Int
    <3>1. Followed(k).gain \in Int /\ Followed(k).comp \in 0..Len(nodes)
      BY FollowedTyped DEF Walks
    <3> QED
      BY <1>2, <3>1, ThroughTyped
  <2>5. h \in Nat /\ h # 0 /\ h <= M
    BY <1>1, HopsOK, DepthIs
  <2>6. \A j \in 1..M : Through(c[j - 1][k], x) = IF j = h /\ G THEN y ELSE 0
    BY <1>2, <1>3, <2>3, <2>5
  <2> HIDE DEF y, G, M, x
  <2>7. 0 \in T
    BY <1>1, <1>4, <2>5
  <2>8. ASSUME NEW j \in 1..M, j - 1 \in T PROVE j \in T
    <3>1. a[j - 1][k] = IF h <= j - 1 /\ G THEN y ELSE 0
      BY <2>8
    <3>2. a[j][k] = (IF h <= j - 1 /\ G THEN y ELSE 0) + (IF j = h /\ G THEN y ELSE 0)
      BY <1>3, <2>6, <3>1
    <3>3. j \in 0..M
      BY <1>1
    <3>4. a[j][k] = IF h <= j /\ G THEN y ELSE 0
      BY <2>4, <2>5, <3>2, <3>3
    <3> QED
      BY <3>3, <3>4
  <2> HIDE DEF T
  <2>9. \A j \in 0..M : j \in T
    BY <1>1, <2>7, <2>8, UpTo
  <2>10. a[M][k] = IF G THEN y ELSE 0
    BY <1>1, <2>5, <2>9 DEF T
  <2> QED
    BY <1>5, <2>1, <2>10 DEF M, G, y, Rendered, HeardAt
<1>6. CASE ~ (k \in Sources /\ nodes[k].started)
  <2>1. x = 0
    BY <1>6 DEF Played
  <2> DEFINE T == {j \in 0..M : a[j][k] = 0}
  <2>2. 0 \in T
    BY <1>1, <1>4
  <2>3. ASSUME NEW j \in 1..M, j - 1 \in T PROVE j \in T
    <3>1. Through(c[j - 1][k], 0) = 0
      BY <1>3, ThroughTyped DEF Weights
    <3>2. a[j][k] = 0 + 0
      BY <1>3, <2>1, <2>3, <3>1
    <3> QED
      BY <1>1, <3>2
  <2> HIDE DEF T, M
  <2>4. \A j \in 0..M : j \in T
    BY <1>1, <2>2, <2>3, UpTo
  <2>5. a[M][k] = 0
    BY <1>1, <2>4 DEF T
  <2> QED
    BY <1>6, <2>5 DEF M, HeardAt
<1> QED
  BY <1>5, <1>6

\* What startRendering adds up is what arrives.
LEMMA MixIsSignal ==
  ASSUME NodesTyped, BuffersTyped, Plain, NEW i \in Nat \ {0}, NEW D
  PROVE  Total(HeardAt(D), [n \in DOMAIN nodes |-> Rendered(n, i)])
           = Total({n \in DOMAIN nodes : nodes[n].toDest /\ nodes[n].dest = D}, Signal(i))
<1> DEFINE F == {n \in DOMAIN nodes : nodes[n].toDest /\ nodes[n].dest = D}
           R == [n \in DOMAIN nodes |-> Rendered(n, i)]
<1>1. PICK c : AreWeights(D, c) /\ \A j \in 0..Depth : CompressorsLast(c[j])
  BY WeightsAre
<1>2. PICK fl : IsFlow(i, fl) /\ Signal(i) = fl[Depth]
  BY FlowIs
<1>3. PICK a : Adds(i, c, a)
  BY <1>1, AddsAre
<1>4. SumOf(Len(nodes), Counts(c[0], a[0], fl[Depth])) = SumOf(Len(nodes), a[Depth + 1])
  BY <1>1, <1>2, <1>3, ArrivesAdded
<1>5. Depth \in Nat /\ Depth \in 0..Depth /\ Depth + 1 \in 0..(Depth + 1)
  BY DepthIs
<1>6. Signal(i) \in [DOMAIN nodes -> Int] /\ a[Depth + 1] \in [DOMAIN nodes -> Int]
  BY <1>2, <1>3, <1>5 DEF IsFlow, Adds
<1>7. Counts(c[0], a[0], fl[Depth]) = [k \in DOMAIN nodes |-> IF k \in F THEN Signal(i)[k] ELSE 0]
  <2>1. ASSUME NEW k \in DOMAIN nodes
        PROVE  a[0][k] + Through(c[0][k], fl[Depth][k]) = IF k \in F THEN Signal(i)[k] ELSE 0
    <3>1. c[0][k] = [gain |-> IF k \in F THEN 1 ELSE 0, comp |-> 0]
      BY <1>1 DEF AreWeights, Arriving
    <3>2. a[0][k] = 0 /\ fl[Depth][k] \in Int /\ Signal(i)[k] = fl[Depth][k]
      BY <1>2, <1>3, <1>6 DEF Adds
    <3>3. Through(c[0][k], fl[Depth][k]) = (IF k \in F THEN 1 ELSE 0) * fl[Depth][k]
      BY <3>1 DEF Through
    <3> HIDE DEF F
    <3> QED
      BY <3>2, <3>3
  <2> HIDE DEF F
  <2> QED
    BY <2>1 DEF Counts
<1>8. a[Depth + 1] = [k \in DOMAIN nodes |-> IF k \in HeardAt(D) THEN R[k] ELSE 0]
  <2>1. \A k \in DOMAIN nodes : a[Depth + 1][k] = IF k \in HeardAt(D) THEN R[k] ELSE 0
    BY <1>1, <1>3, AddedIs
  <2> HIDE DEF R
  <2> QED
    BY <1>6, <2>1
<1>9. R \in [DOMAIN nodes -> Int]
  BY RenderedTyped
<1> HIDE DEF F, R
<1>10. Total(F, Signal(i)) = SumOf(Len(nodes), [k \in DOMAIN nodes |-> IF k \in F THEN Signal(i)[k] ELSE 0])
  BY <1>6, TotalIs
<1>11. Total(HeardAt(D), R) = SumOf(Len(nodes), [k \in DOMAIN nodes |-> IF k \in HeardAt(D) THEN R[k] ELSE 0])
  BY <1>9, TotalIs
<1>12. Total(HeardAt(D), R) = Total(F, Signal(i))
  BY <1>4, <1>7, <1>8, <1>10, <1>11
<1> QED
  BY <1>12 DEF F, R

---------------------------------------------------------------------------
(* Audio: the types.                                                        *)

AudioContexts == [offline : BOOLEAN, channels : Nat \ {0}, len : Nat, dest : Nat]

ContextsTyped ==
  /\ contexts \in Seq(AudioContexts)
  /\ \A c \in DOMAIN contexts : contexts[c].dest \in DOMAIN nodes

AudioInv == NodesTyped /\ BuffersTyped /\ ContextsTyped

LEMMA NodeAdded ==
  ASSUME AudioInv, NEW x \in AudioNodes, x.down = <<>>, x.buffer = 0,
         nodes' = Append(nodes, x), buffers' = buffers
  PROVE  NodesTyped' /\ BuffersTyped' /\ DOMAIN nodes \subseteq DOMAIN nodes' /\ Len(nodes) + 1 \in DOMAIN nodes'
<1> USE DEF AudioInv, NodesTyped, BuffersTyped
<1>1. /\ nodes' \in Seq(AudioNodes) /\ DOMAIN nodes' = 1..(Len(nodes) + 1)
      /\ DOMAIN nodes = 1..Len(nodes) /\ Len(nodes) \in Nat
      /\ \A n \in DOMAIN nodes : nodes'[n] = nodes[n]
      /\ nodes'[Len(nodes) + 1] = x
  OBVIOUS
<1>2. \A n \in DOMAIN nodes' : n \in DOMAIN nodes \/ nodes'[n] = x
  BY <1>1
<1>3. DOMAIN nodes \subseteq DOMAIN nodes' /\ Len(nodes) + 1 \in DOMAIN nodes' /\ Len(buffers) \in Nat
  BY <1>1
<1>4. NodesTyped'
  BY <1>1, <1>2, <1>3
<1>5. \A n \in DOMAIN nodes' : nodes'[n].buffer \in 0..Len(buffers)
  BY <1>1, <1>2, <1>3
<1> QED
  BY <1>3, <1>4, <1>5

LEMMA NodeChanged ==
  ASSUME AudioInv, NEW n \in DOMAIN nodes, NEW x \in AudioNodes,
         \A j \in DOMAIN x.down : x.down[j] \in DOMAIN nodes, x.buffer \in 0..Len(buffers),
         nodes' = [nodes EXCEPT ![n] = x], buffers' = buffers, contexts' = contexts
  PROVE  AudioInv'
<1>1. /\ nodes' \in Seq(AudioNodes) /\ DOMAIN nodes' = DOMAIN nodes
      /\ nodes'[n] = x /\ \A m \in DOMAIN nodes : m # n => nodes'[m] = nodes[m]
  BY DEF AudioInv, NodesTyped
<1>2. NodesTyped'
  BY <1>1 DEF AudioInv, NodesTyped
<1>3. BuffersTyped'
  BY <1>1 DEF AudioInv, BuffersTyped
<1>4. ContextsTyped'
  BY <1>1 DEF AudioInv, ContextsTyped
<1> QED
  BY <1>2, <1>3, <1>4 DEF AudioInv

LEMMA BufferAdded ==
  ASSUME AudioInv, NEW b, Whole(b), buffers' = Append(buffers, b), nodes' = nodes, contexts' = contexts
  PROVE  AudioInv'
<1>1. /\ buffers' \in Seq(AudioBuffers) /\ Len(buffers') = Len(buffers) + 1 /\ Len(buffers) \in Nat
      /\ DOMAIN buffers' = 1..(Len(buffers) + 1) /\ DOMAIN buffers = 1..Len(buffers)
      /\ \A m \in DOMAIN buffers : buffers'[m] = buffers[m]
      /\ buffers'[Len(buffers) + 1] = b
  BY DEF AudioInv, BuffersTyped, Whole
<1>2. \A m \in DOMAIN buffers' : m \in DOMAIN buffers \/ buffers'[m] = b
  BY <1>1
<1>3. \A m \in DOMAIN buffers' : Whole(buffers'[m])
  BY <1>1, <1>2 DEF AudioInv, BuffersTyped
<1>4. BuffersTyped'
  BY <1>1, <1>3 DEF AudioInv, BuffersTyped, Whole
<1>5. NodesTyped' /\ ContextsTyped'
  BY DEF AudioInv, NodesTyped, ContextsTyped
<1> QED
  BY <1>4, <1>5 DEF AudioInv

LEMMA MapsAreSeqs ==
  ASSUME NEW S, NEW l \in Nat, NEW z \in [1..l -> S]
  PROVE  z \in Seq(S) /\ Len(z) = l
<1>1. z \in Seq(S)
  OBVIOUS
<1>2. DOMAIN z = 1..l
  OBVIOUS
<1>3. Len(z) = l
  BY <1>1, <1>2
<1> QED
  BY <1>1, <1>3

LEMMA BufferWritten ==
  ASSUME AudioInv, NEW b \in DOMAIN buffers, NEW at \in Int, NEW vals \in Seq(Int),
         buffers' = [buffers EXCEPT ![b].data = Written(@, at, vals)], nodes' = nodes, contexts' = contexts
  PROVE  AudioInv'
<1> DEFINE x == [buffers[b] EXCEPT !.data = Written(@, at, vals)]
           d == buffers[b].data
<1>1. Whole(buffers[b]) /\ buffers \in Seq(AudioBuffers)
  BY DEF AudioInv, BuffersTyped
<1>2. d \in Seq(Int)
  BY <1>1 DEF Whole, AudioBuffers
<1>3. Written(d, at, vals) = [i \in DOMAIN d |-> IF i - at \in DOMAIN vals THEN vals[i - at] ELSE d[i]]
  BY DEF Written
<1>4. Written(d, at, vals) \in Seq(Int) /\ Len(Written(d, at, vals)) = Len(d)
  <2> DEFINE w == [i \in DOMAIN d |-> IF i - at \in DOMAIN vals THEN vals[i - at] ELSE d[i]]
  <2>1. \A i \in DOMAIN d : w[i] \in Int
    BY <1>2
  <2>2. DOMAIN w = 1..Len(d) /\ w = [i \in 1..Len(d) |-> w[i]] /\ Len(d) \in Nat
    BY <1>2
  <2> HIDE DEF w, d
  <2>a. \A i \in 1..Len(d) : w[i] \in Int
    BY <1>2, <2>1
  <2>b. w \in [1..Len(d) -> Int]
    BY <2>2, <2>a
  <2>3. w \in Seq(Int) /\ Len(w) = Len(d)
    <3> DEFINE l == Len(d)
    <3> HIDE DEF l
    <3>1. l \in Nat /\ w \in [1..l -> Int]
      BY <2>2, <2>b DEF l
    <3>2. w \in Seq(Int) /\ Len(w) = l
      BY <3>1
    <3> QED
      BY <3>2 DEF l
  <2> QED
    BY <1>3, <2>3 DEF w
<1> HIDE DEF d
<1>5. x.data = Written(d, at, vals) /\ x.channels = buffers[b].channels /\ x.len = buffers[b].len
      /\ x \in AudioBuffers
  BY <1>1, <1>4 DEF Whole, AudioBuffers, d
<1>6. Whole(x)
  BY <1>1, <1>4, <1>5 DEF Whole, d
<1> HIDE DEF x
<1>7. buffers' = [buffers EXCEPT ![b] = x]
  BY DEF x
<1>8. /\ buffers' \in Seq(AudioBuffers) /\ Len(buffers') = Len(buffers) /\ DOMAIN buffers' = DOMAIN buffers
      /\ \A m \in DOMAIN buffers : buffers'[m] = IF m = b THEN x ELSE buffers[m]
  <2>1. DOMAIN buffers' = DOMAIN buffers /\ \A m \in DOMAIN buffers : buffers'[m] = IF m = b THEN x ELSE buffers[m]
    BY <1>1, <1>7
  <2>2. buffers' \in Seq(AudioBuffers) /\ Len(buffers') = Len(buffers)
    <3>1. buffers' = [m \in 1..Len(buffers) |-> IF m = b THEN x ELSE buffers[m]]
      <4>1. DOMAIN buffers' = 1..Len(buffers) /\ DOMAIN buffers = 1..Len(buffers)
        BY <1>1, <2>1
      <4>2. buffers' = [m \in DOMAIN buffers' |-> buffers'[m]]
        BY <1>7
      <4> QED
        BY <2>1, <4>1, <4>2
    <3>2. \A m \in 1..Len(buffers) : (IF m = b THEN x ELSE buffers[m]) \in AudioBuffers
      BY <1>1, <1>5
    <3>3. Len(buffers) \in Nat
      BY <1>1
    <3>4. buffers' \in [1..Len(buffers) -> AudioBuffers]
      BY <3>1, <3>2
    <3> DEFINE l == Len(buffers)  z == buffers'
    <3>5. l \in Nat /\ z \in [1..l -> AudioBuffers]
      BY <3>3, <3>4
    <3> HIDE DEF l, z
    <3>6. z \in Seq(AudioBuffers) /\ Len(z) = l
      BY <3>5, MapsAreSeqs
    <3> QED
      BY <3>6 DEF l, z
  <2> QED
    BY <2>1, <2>2
<1>9. BuffersTyped'
  BY <1>6, <1>8 DEF AudioInv, BuffersTyped
<1>10. NodesTyped' /\ ContextsTyped'
  BY DEF AudioInv, NodesTyped, ContextsTyped
<1> QED
  BY <1>9, <1>10 DEF AudioInv

LEMMA AudioInitially == AudioInit => AudioInv
<1> SUFFICES ASSUME AudioInit PROVE AudioInv
  OBVIOUS
<1>1. nodes \in Seq(AudioNodes) /\ buffers \in Seq(AudioBuffers) /\ contexts \in Seq(AudioContexts)
  BY DEF AudioInit
<1>2. DOMAIN nodes = {} /\ DOMAIN buffers = {} /\ DOMAIN contexts = {}
  BY DEF AudioInit
<1> QED
  BY <1>1, <1>2 DEF AudioInv, NodesTyped, BuffersTyped, ContextsTyped

LEMMA NodeFresh ==
  ASSUME NEW kind \in AllKinds \cup {"destination"}, NEW dest \in Nat, NEW value \in Int
  PROVE  /\ Node(kind, dest, value) \in AudioNodes
         /\ Node(kind, dest, value).down = <<>> /\ Node(kind, dest, value).buffer = 0
BY DEF Node, AudioNodes

LEMMA NewContextTyped == AudioInv /\ NewContext => AudioInv'
<1> SUFFICES ASSUME AudioInv, NewContext PROVE AudioInv'
  OBVIOUS
<1>1. PICK offline \in BOOLEAN, channels \in Channels, len \in Lengths :
        contexts' = Append(contexts,
          [offline |-> offline, channels |-> channels, len |-> len, dest |-> Len(nodes) + 1])
  BY DEF NewContext
<1> DEFINE x == [offline |-> offline, channels |-> channels, len |-> len, dest |-> Len(nodes) + 1]
<1>2. Node("destination", 0, 0) \in AudioNodes
      /\ Node("destination", 0, 0).down = <<>> /\ Node("destination", 0, 0).buffer = 0
  BY NodeFresh
<1>3. NodesTyped' /\ BuffersTyped' /\ DOMAIN nodes \subseteq DOMAIN nodes' /\ Len(nodes) + 1 \in DOMAIN nodes'
  BY <1>2, NodeAdded DEF NewContext
<1>4. Len(nodes) \in Nat
  BY NodesAre DEF AudioInv
<1>5. x \in AudioContexts /\ x.dest = Len(nodes) + 1
  BY <1>4, SamplesOK, ChannelsOK DEF AudioContexts
<1> HIDE DEF x
<1>6. contexts' = Append(contexts, x)
  BY <1>1 DEF x
<1>7. /\ contexts' \in Seq(AudioContexts)
      /\ \A c \in DOMAIN contexts' : (c \in DOMAIN contexts /\ contexts'[c] = contexts[c]) \/ contexts'[c] = x
  BY <1>5, <1>6 DEF AudioInv, ContextsTyped
<1>8. ContextsTyped'
  BY <1>3, <1>5, <1>7 DEF AudioInv, ContextsTyped
<1> QED
  BY <1>3, <1>8 DEF AudioInv

LEMMA CreateNodeTyped == AudioInv /\ CreateNode => AudioInv'
<1> SUFFICES ASSUME AudioInv, CreateNode PROVE AudioInv'
  OBVIOUS
<1>1. PICK c \in DOMAIN contexts, k \in DOMAIN Kinds :
        nodes' = Append(nodes, Node(Kinds[k], contexts[c].dest, Default(Kinds[k])))
  BY DEF CreateNode
<1> DEFINE x == Node(Kinds[k], contexts[c].dest, Default(Kinds[k]))
<1>2. Kinds[k] \in AllKinds
  BY KindsOK
<1>3. contexts[c].dest \in Nat
  <2>1. contexts[c] \in AudioContexts
    BY DEF AudioInv, ContextsTyped
  <2> QED
    BY <2>1 DEF AudioContexts
<1>4. Default(Kinds[k]) \in Int
  <2>1. (CHOOSE v \in Values : TRUE) \in Values
    BY SamplesOK
  <2>2. (CHOOSE v \in Values : TRUE) \in Int
    BY <2>1, SamplesOK
  <2> QED
    BY <2>2 DEF Default
<1>5. x \in AudioNodes /\ x.down = <<>> /\ x.buffer = 0
  BY <1>2, <1>3, <1>4, NodeFresh
<1> HIDE DEF x
<1>6. nodes' = Append(nodes, x) /\ buffers' = buffers /\ contexts' = contexts
  BY <1>1 DEF CreateNode, x
<1>7. NodesTyped' /\ BuffersTyped' /\ DOMAIN nodes \subseteq DOMAIN nodes'
  BY <1>5, <1>6, NodeAdded
<1>8. ContextsTyped'
  BY <1>6, <1>7 DEF AudioInv, ContextsTyped
<1> QED
  BY <1>7, <1>8 DEF AudioInv

LEMMA EdgesGone ==
  ASSUME NEW r \in AudioNodes, NEW d \in Seq(Nat)
  PROVE  /\ [r EXCEPT !.down = d, !.toDest = FALSE] \in AudioNodes
         /\ [r EXCEPT !.down = d, !.toDest = FALSE].down = d
         /\ [r EXCEPT !.down = d, !.toDest = FALSE].buffer = r.buffer
<1> DEFINE x == [kind |-> r.kind, dest |-> r.dest, value |-> r.value, buffer |-> r.buffer, loop |-> r.loop,
                 started |-> r.started, toDest |-> FALSE, down |-> d]
           y == [r EXCEPT !.down = d, !.toDest = FALSE]
<1>1. /\ r.kind \in AllKinds \cup {"destination"} /\ r.dest \in Nat /\ r.value \in Int /\ r.buffer \in Nat
      /\ r.loop \in BOOLEAN /\ r.started \in BOOLEAN
  BY DEF AudioNodes
<1>2. DOMAIN r = {"kind", "dest", "value", "buffer", "loop", "started", "toDest", "down"}
  BY DEF AudioNodes
<1>3. y = [f \in {"kind", "dest", "value", "buffer", "loop", "started", "toDest", "down"} |->
             IF f = "toDest" THEN FALSE ELSE IF f = "down" THEN d ELSE r[f]]
  BY <1>2
<1> HIDE DEF y
<1>4. y = x
  BY <1>3
<1>5. x \in AudioNodes
  BY <1>1 DEF AudioNodes
<1> QED
  BY <1>4, <1>5 DEF y

LEMMA FieldsChanged ==
  ASSUME NEW r \in AudioNodes
  PROVE  /\ \A b \in BOOLEAN : LET x == [r EXCEPT !.toDest = b]
                               IN x \in AudioNodes /\ x.down = r.down /\ x.buffer = r.buffer
         /\ \A d \in Seq(Nat) : LET x == [r EXCEPT !.down = d]
                                IN x \in AudioNodes /\ x.down = d /\ x.buffer = r.buffer
         /\ LET x == [r EXCEPT !.down = <<>>, !.toDest = FALSE]
            IN x \in AudioNodes /\ x.down = <<>> /\ x.buffer = r.buffer
         /\ LET x == [r EXCEPT !.started = TRUE]
            IN x \in AudioNodes /\ x.down = r.down /\ x.buffer = r.buffer
         /\ \A v \in Int : LET x == [r EXCEPT !.value = v]
                           IN x \in AudioNodes /\ x.down = r.down /\ x.buffer = r.buffer
<1>a. /\ r.kind \in AllKinds \cup {"destination"} /\ r.dest \in Nat /\ r.value \in Int /\ r.buffer \in Nat
      /\ r.loop \in BOOLEAN /\ r.started \in BOOLEAN /\ r.toDest \in BOOLEAN /\ r.down \in Seq(Nat)
  BY DEF AudioNodes
<1>b. r = [kind |-> r.kind, dest |-> r.dest, value |-> r.value, buffer |-> r.buffer, loop |-> r.loop,
           started |-> r.started, toDest |-> r.toDest, down |-> r.down]
  BY DEF AudioNodes
<1>2. ASSUME NEW b \in BOOLEAN
      PROVE  LET x == [r EXCEPT !.toDest = b] IN x \in AudioNodes /\ x.down = r.down /\ x.buffer = r.buffer
  BY <1>a, <1>b DEF AudioNodes
<1>3. ASSUME NEW d \in Seq(Nat)
      PROVE  LET x == [r EXCEPT !.down = d] IN x \in AudioNodes /\ x.down = d /\ x.buffer = r.buffer
  <2> DEFINE x == [kind |-> r.kind, dest |-> r.dest, value |-> r.value, buffer |-> r.buffer, loop |-> r.loop,
                   started |-> r.started, toDest |-> r.toDest, down |-> d]
  <2>1. [r EXCEPT !.down = d] = x
    BY <1>b
  <2>2. x \in AudioNodes
    BY <1>a DEF AudioNodes
  <2> QED
    BY <2>1, <2>2
<1>4. LET x == [r EXCEPT !.down = <<>>, !.toDest = FALSE]
      IN x \in AudioNodes /\ x.down = <<>> /\ x.buffer = r.buffer
  <2>1. <<>> \in Seq(Nat)
    OBVIOUS
  <2> QED
    BY <2>1, EdgesGone
<1>5. LET x == [r EXCEPT !.started = TRUE] IN x \in AudioNodes /\ x.down = r.down /\ x.buffer = r.buffer
  BY <1>a, <1>b DEF AudioNodes
<1>6. ASSUME NEW v \in Int
      PROVE  LET x == [r EXCEPT !.value = v] IN x \in AudioNodes /\ x.down = r.down /\ x.buffer = r.buffer
  BY <1>a, <1>b DEF AudioNodes
<1> QED
  BY <1>2, <1>3, <1>4, <1>5, <1>6

LEMMA SourceFilled ==
  ASSUME NEW r \in AudioNodes, NEW m \in Nat, NEW b \in BOOLEAN
  PROVE  /\ [r EXCEPT !.buffer = m, !.loop = b] \in AudioNodes
         /\ [r EXCEPT !.buffer = m, !.loop = b].down = r.down
         /\ [r EXCEPT !.buffer = m, !.loop = b].buffer = m
BY DEF AudioNodes

\* The calls that change one node.
LEMMA OneNodeTyped ==
  ASSUME AudioInv, Connect \/ Disconnect \/ Start \/ SetParam \/ SetBuffer
  PROVE  AudioInv'
<1>0. \A n \in DOMAIN nodes :
        /\ nodes[n] \in AudioNodes /\ nodes[n].down \in Seq(Nat) /\ nodes[n].buffer \in 0..Len(buffers)
        /\ \A j \in DOMAIN nodes[n].down : nodes[n].down[j] \in DOMAIN nodes
  <2>1. ASSUME NEW n \in DOMAIN nodes PROVE nodes[n] \in AudioNodes
    BY DEF AudioInv, NodesTyped
  <2>2. \A n \in DOMAIN nodes : nodes[n].down \in Seq(Nat)
    BY <2>1 DEF AudioNodes
  <2> QED
    BY <2>1, <2>2 DEF AudioInv, NodesTyped, BuffersTyped
<1>1. ASSUME NEW n \in DOMAIN nodes, NEW x \in AudioNodes,
             \A j \in DOMAIN x.down : x.down[j] \in DOMAIN nodes, x.buffer \in 0..Len(buffers),
             nodes' = [nodes EXCEPT ![n] = x], buffers' = buffers, contexts' = contexts
      PROVE  AudioInv'
  BY <1>1, NodeChanged
<1>2. ASSUME NEW n \in DOMAIN nodes, NEW x \in AudioNodes,
             x.down = nodes[n].down \/ x.down = <<>>, x.buffer \in 0..Len(buffers),
             nodes' = [nodes EXCEPT ![n] = x], buffers' = buffers, contexts' = contexts
      PROVE  AudioInv'
  <2>1. \A j \in DOMAIN x.down : x.down[j] \in DOMAIN nodes
    BY <1>0, <1>2
  <2> QED
    BY <1>1, <1>2, <2>1
<1>3. CASE Connect
  <2>1. PICK n \in DOMAIN nodes, to \in DOMAIN nodes :
          nodes' = IF nodes[n].dest = to THEN [nodes EXCEPT ![n].toDest = TRUE]
                   ELSE [nodes EXCEPT ![n].down = Append(@, to)]
    BY <1>3 DEF Connect
  <2>2. buffers' = buffers /\ contexts' = contexts
    BY <1>3 DEF Connect
  <2>3. CASE nodes[n].dest = to
    <3> DEFINE x == [nodes[n] EXCEPT !.toDest = TRUE]
    <3>1. x \in AudioNodes /\ x.down = nodes[n].down /\ x.buffer = nodes[n].buffer
      BY <1>0, FieldsChanged
    <3>2. nodes' = [nodes EXCEPT ![n] = x]
      BY <2>1, <2>3
    <3> HIDE DEF x
    <3> QED
      BY <1>0, <1>2, <2>2, <3>1, <3>2
  <2>4. CASE nodes[n].dest # to
    <3> DEFINE d == Append(nodes[n].down, to)
               x == [nodes[n] EXCEPT !.down = d]
    <3>0. to \in Nat
      BY NodesAre DEF AudioInv
    <3>1. d \in Seq(Nat) /\ \A j \in DOMAIN d : d[j] \in DOMAIN nodes
      BY <1>0, <3>0
    <3> HIDE DEF d
    <3>2. x \in AudioNodes /\ x.down = d /\ x.buffer = nodes[n].buffer
      BY <1>0, <3>1, FieldsChanged
    <3>3. nodes' = [nodes EXCEPT ![n] = x]
      BY <2>1, <2>4 DEF d
    <3> HIDE DEF x
    <3> QED
      BY <1>0, <1>1, <2>2, <3>1, <3>2, <3>3
  <2> QED
    BY <2>3, <2>4
<1>4. CASE Disconnect
  <2>1. PICK n \in DOMAIN nodes : nodes' = [nodes EXCEPT ![n].down = <<>>, ![n].toDest = FALSE]
    BY <1>4 DEF Disconnect
  <2> DEFINE x == [nodes[n] EXCEPT !.down = <<>>, !.toDest = FALSE]
  <2>2. x \in AudioNodes /\ x.down = <<>> /\ x.buffer = nodes[n].buffer
    BY <1>0, FieldsChanged
  <2>3. nodes' = [nodes EXCEPT ![n] = x]
    BY <2>1
  <2> HIDE DEF x
  <2> QED
    BY <1>0, <1>2, <1>4, <2>2, <2>3 DEF Disconnect
<1>5. CASE Start
  <2>1. PICK n \in Sources : nodes' = [nodes EXCEPT ![n].started = TRUE]
    BY <1>5 DEF Start
  <2> DEFINE x == [nodes[n] EXCEPT !.started = TRUE]
  <2>2. n \in DOMAIN nodes
    BY DEF Sources
  <2>3. x \in AudioNodes /\ x.down = nodes[n].down /\ x.buffer = nodes[n].buffer
    BY <1>0, <2>2, FieldsChanged
  <2>4. nodes' = [nodes EXCEPT ![n] = x]
    BY <2>1
  <2> HIDE DEF x
  <2> QED
    BY <1>0, <1>2, <1>5, <2>2, <2>3, <2>4 DEF Start
<1>6. CASE SetParam
  <2>1. PICK n \in DOMAIN nodes, v \in Values : nodes' = [nodes EXCEPT ![n].value = v]
    BY <1>6 DEF SetParam
  <2> DEFINE x == [nodes[n] EXCEPT !.value = v]
  <2>2. v \in Int
    BY SamplesOK
  <2>3. x \in AudioNodes /\ x.down = nodes[n].down /\ x.buffer = nodes[n].buffer
    BY <1>0, <2>2, FieldsChanged
  <2>4. nodes' = [nodes EXCEPT ![n] = x]
    BY <2>1
  <2> HIDE DEF x
  <2> QED
    BY <1>0, <1>2, <1>6, <2>3, <2>4 DEF SetParam
<1>7. CASE SetBuffer
  <2>1. PICK n \in Sources, b \in DOMAIN buffers, loop \in BOOLEAN :
          nodes' = [nodes EXCEPT ![n].buffer = b, ![n].loop = loop]
    BY <1>7 DEF SetBuffer
  <2> DEFINE x == [nodes[n] EXCEPT !.buffer = b, !.loop = loop]
  <2>2. n \in DOMAIN nodes /\ b \in 0..Len(buffers) /\ b \in Nat
    BY DEF Sources, AudioInv, BuffersTyped
  <2>3. x \in AudioNodes /\ x.down = nodes[n].down /\ x.buffer = b
    <3> DEFINE r == nodes[n]
    <3>1. r \in AudioNodes
      BY <1>0, <2>2
    <3>2. b \in Nat /\ loop \in BOOLEAN
      BY <2>2
    <3> HIDE DEF r
    <3>3. /\ [r EXCEPT !.buffer = b, !.loop = loop] \in AudioNodes
          /\ [r EXCEPT !.buffer = b, !.loop = loop].down = r.down
          /\ [r EXCEPT !.buffer = b, !.loop = loop].buffer = b
      <4> HIDE DEF x
      <4> QED
        BY <3>1, <3>2, SourceFilled
    <3> QED
      BY <3>3 DEF r
  <2>4. nodes' = [nodes EXCEPT ![n] = x]
    BY <2>1
  <2> HIDE DEF x
  <2> QED
    BY <1>0, <1>2, <1>7, <2>2, <2>3, <2>4 DEF SetBuffer
<1> QED
  BY <1>3, <1>4, <1>5, <1>6, <1>7

\* A buffer that is a channel over and over.
LEMMA BufferMade ==
  ASSUME NEW channels \in Nat \ {0}, NEW len \in Nat, NEW f,
         \A i \in 1..(channels * len) : f[i] \in Int
  PROVE  Whole([channels |-> channels, len |-> len, data |-> [i \in 1..(channels * len) |-> f[i]]])
<1> DEFINE l == channels * len
           d == [i \in 1..l |-> f[i]]
<1>1. l \in Nat
  BY SMTT(30)
<1>2. \A i \in 1..l : f[i] \in Int
  OBVIOUS
<1> HIDE DEF l
<1>3. d \in [1..l -> Int]
  BY <1>2
<1>4. d \in Seq(Int) /\ Len(d) = l
  <2> HIDE DEF d
  <2> QED
    BY <1>1, <1>3
<1> HIDE DEF d
<1>5. Whole([channels |-> channels, len |-> len, data |-> d])
  BY <1>4 DEF Whole, AudioBuffers, l
<1> QED
  BY <1>5 DEF d, l

\* Where a channel starts in the data.
LEMMA ChannelStarts ==
  ASSUME AudioInv, NEW b \in DOMAIN buffers, NEW ch \in 1..buffers[b].channels
  PROVE  /\ buffers[b].len \in Nat /\ (ch - 1) * buffers[b].len \in Int
         /\ \A k \in 0..buffers[b].len : k \in Int /\ (ch - 1) * buffers[b].len + k \in Int
<1> DEFINE l == buffers[b].len
<1>1. l \in Nat /\ buffers[b].channels \in Nat
  BY DEF AudioInv, BuffersTyped, Whole, AudioBuffers
<1>2. ch - 1 \in Nat
  BY <1>1
<1> HIDE DEF l
<1>3. (ch - 1) * l \in Int
  BY <1>1, <1>2, SMTT(30)
<1>4. \A k \in 0..l : k \in Int /\ (ch - 1) * l + k \in Int
  BY <1>1, <1>3
<1> QED
  BY <1>1, <1>3, <1>4 DEF l

LEMMA NewBufferTyped == AudioInv /\ NewBuffer => AudioInv'
<1> SUFFICES ASSUME AudioInv, NewBuffer PROVE AudioInv'
  OBVIOUS
<1>1. PICK channels \in Channels, len \in Lengths : buffers' = Append(buffers, Silence(channels, len))
  BY DEF NewBuffer
<1>2. channels \in Nat \ {0} /\ len \in Nat
  BY SamplesOK, ChannelsOK
<1> DEFINE zero == [i \in 1..(channels * len) |-> 0]
<1>3. \A i \in 1..(channels * len) : zero[i] \in Int
  OBVIOUS
<1> HIDE DEF zero
<1>4. Whole([channels |-> channels, len |-> len, data |-> [i \in 1..(channels * len) |-> zero[i]]])
  BY <1>2, <1>3, BufferMade
<1>5. [i \in 1..(channels * len) |-> zero[i]] = [i \in 1..(channels * len) |-> 0]
  BY DEF zero
<1>6. Whole(Silence(channels, len))
  BY <1>4, <1>5 DEF Silence
<1> QED
  BY <1>1, <1>6, BufferAdded DEF NewBuffer

LEMMA CopyToChannelTyped == AudioInv /\ CopyToChannel => AudioInv'
<1> SUFFICES ASSUME AudioInv, CopyToChannel PROVE AudioInv'
  OBVIOUS
<1>1. PICK b \in DOMAIN buffers, v \in Values, n \in Lengths :
        \E ch \in 1..buffers[b].channels, start \in 0..buffers[b].len :
          buffers' = [buffers EXCEPT ![b].data =
                        Written(@, (ch - 1) * buffers[b].len + start, [i \in 1..n |-> v])]
  BY DEF CopyToChannel
<1>2. PICK ch \in 1..buffers[b].channels, start \in 0..buffers[b].len :
        buffers' = [buffers EXCEPT ![b].data =
                      Written(@, (ch - 1) * buffers[b].len + start, [i \in 1..n |-> v])]
  BY <1>1
<1> DEFINE at == (ch - 1) * buffers[b].len + start
           vals == [i \in 1..n |-> v]
<1>3. at \in Int
  BY ChannelStarts
<1>4. vals \in Seq(Int)
  BY SamplesOK
<1> HIDE DEF at, vals
<1>5. buffers' = [buffers EXCEPT ![b].data = Written(@, at, vals)] /\ nodes' = nodes /\ contexts' = contexts
  BY <1>2 DEF CopyToChannel, at, vals
<1> QED
  BY <1>3, <1>4, <1>5, BufferWritten

LEMMA CopyFromChannelTyped == AudioInv /\ CopyFromChannel => AudioInv'
<1> SUFFICES ASSUME AudioInv, CopyFromChannel PROVE AudioInv'
  OBVIOUS
<1>1. PICK a \in DOMAIN buffers, b \in DOMAIN buffers :
        \E ch \in 1..buffers[a].channels, to \in 1..buffers[b].channels, start \in 0..buffers[a].len :
          LET from == Channel(buffers[a], ch)
              vals == [k \in 1..buffers[b].len |-> IF start + k \in DOMAIN from THEN from[start + k] ELSE 0]
          IN buffers' = [buffers EXCEPT ![b].data = Written(@, (to - 1) * buffers[b].len, vals)]
  BY DEF CopyFromChannel
<1>2. PICK ch \in 1..buffers[a].channels, to \in 1..buffers[b].channels, start \in 0..buffers[a].len :
        LET from == Channel(buffers[a], ch)
            vals == [k \in 1..buffers[b].len |-> IF start + k \in DOMAIN from THEN from[start + k] ELSE 0]
        IN buffers' = [buffers EXCEPT ![b].data = Written(@, (to - 1) * buffers[b].len, vals)]
  BY <1>1
<1> DEFINE from == Channel(buffers[a], ch)
           l == buffers[b].len
           vals == [k \in 1..l |-> IF start + k \in DOMAIN from THEN from[start + k] ELSE 0]
           at == (to - 1) * buffers[b].len
<1>3. at \in Int /\ l \in Nat /\ start \in Int
  BY ChannelStarts
<1>4. from \in Seq(Int)
  BY ChannelIs DEF AudioInv, BuffersTyped
<1> HIDE DEF from, l, at
<1>5. \A k \in 1..l : (IF start + k \in DOMAIN from THEN from[start + k] ELSE 0) \in Int
  BY <1>4
<1>6. vals \in [1..l -> Int]
  BY <1>5
<1>7. buffers' = [buffers EXCEPT ![b].data = Written(@, at, vals)] /\ nodes' = nodes /\ contexts' = contexts
  BY <1>2 DEF CopyFromChannel, at, from, l
<1> HIDE DEF vals
<1>8. vals \in Seq(Int)
  BY <1>3, <1>6, MapsAreSeqs
<1> QED
  BY <1>3, <1>7, <1>8, BufferWritten

\* What startRendering appends.
LEMMA RenderingMade ==
  ASSUME AudioInv, NEW c \in DOMAIN contexts, StartRendering(c)
  PROVE  \E b : /\ Whole(b) /\ b.channels = contexts[c].channels /\ b.len = contexts[c].len
                /\ buffers' = Append(buffers, b) /\ nodes' = nodes /\ contexts' = contexts
                /\ \A i \in 1..(b.channels * b.len) : b.data[i] = Mix(c, 1 + ((i - 1) % b.len))
<1> DEFINE channels == contexts[c].channels
           len == contexts[c].len
           size == channels * len
           f == [i \in 1..size |-> Mix(c, 1 + ((i - 1) % len))]
<1>1. channels \in Nat \ {0} /\ len \in Nat
  <2>1. contexts[c] \in AudioContexts
    BY DEF AudioInv, ContextsTyped
  <2> QED
    BY <2>1 DEF AudioContexts
<1>2. ASSUME NEW i \in 1..size PROVE Mix(c, 1 + ((i - 1) % len)) \in Int
  <2> DEFINE j == 1 + ((i - 1) % len)
  <2>0. i \in Nat \ {0} /\ i <= size /\ size \in Int
    <3>1. size \in Int
      BY <1>1, SMTT(30)
    <3> HIDE DEF size
    <3> QED
      BY <3>1
  <2>1. len # 0
    <3>1. len = 0 => size = 0
      BY <1>1, SMTT(30)
    <3> HIDE DEF size, len
    <3> QED
      BY <2>0, <3>1
  <2>2. j \in Nat \ {0}
    <3> HIDE DEF len, size
    <3>1. i - 1 \in Nat /\ len \in Nat \ {0}
      BY <1>1, <2>0, <2>1
    <3> QED
      BY <3>1
  <2> HIDE DEF j
  <2> DEFINE R == [n \in DOMAIN nodes |-> Rendered(n, j)]
             S == {n \in Sources : nodes[n].dest = contexts[c].dest /\ nodes[n].started /\ Heard(n)}
  <2>3. R \in [DOMAIN nodes -> Int]
    BY <2>2, RenderedTyped DEF AudioInv
  <2>4. Mix(c, j) = Total(S, R)
    BY DEF Mix
  <2> HIDE DEF R, S
  <2>5. Total(S, R) \in Int
    BY <2>3, TotalTyped DEF AudioInv
  <2> QED
    BY <2>4, <2>5 DEF j
<1>3. \A i \in 1..size : f[i] \in Int /\ f[i] = Mix(c, 1 + ((i - 1) % len))
  BY <1>2
<1>4. f = [i \in 1..size |-> f[i]]
  OBVIOUS
<1> DEFINE b == [channels |-> channels, len |-> len, data |-> f]
<1>5. buffers' = Append(buffers, b) /\ nodes' = nodes /\ contexts' = contexts
  BY DEF StartRendering
<1> HIDE DEF f
<1>6. b.channels = channels /\ b.len = len /\ b.data = f
  OBVIOUS
<1>7. Whole(b)
  <2> HIDE DEF channels, len, b
  <2>1. Whole([channels |-> channels, len |-> len, data |-> [i \in 1..(channels * len) |-> f[i]]])
    BY <1>1, <1>3, BufferMade
  <2>2. b = [channels |-> channels, len |-> len, data |-> [i \in 1..(channels * len) |-> f[i]]]
    BY <1>4 DEF b
  <2> QED
    BY <2>1, <2>2
<1>8. \A i \in 1..(b.channels * b.len) : b.data[i] = Mix(c, 1 + ((i - 1) % b.len))
  BY <1>3, <1>6
<1> HIDE DEF b
<1> QED
  BY <1>5, <1>6, <1>7, <1>8

LEMMA StartRenderingTyped ==
  ASSUME AudioInv, NEW c \in DOMAIN contexts, StartRendering(c)
  PROVE  AudioInv'
BY RenderingMade, BufferAdded

LEMMA AudioStep == AudioInv /\ [AudioNext]_audioVars => AudioInv'
<1> SUFFICES ASSUME AudioInv, [AudioNext]_audioVars PROVE AudioInv'
  OBVIOUS
<1>1. CASE UNCHANGED audioVars
  BY <1>1 DEF audioVars, AudioInv, NodesTyped, BuffersTyped, ContextsTyped
<1>2. CASE AudioNext
  <2>1. CASE NewContext
    BY <2>1, NewContextTyped
  <2>2. CASE CreateNode
    BY <2>2, CreateNodeTyped
  <2>3. CASE Connect \/ Disconnect \/ Start \/ SetParam \/ SetBuffer
    BY <2>3, OneNodeTyped
  <2>4. CASE NewBuffer
    BY <2>4, NewBufferTyped
  <2>5. CASE CopyToChannel
    BY <2>5, CopyToChannelTyped
  <2>6. CASE CopyFromChannel
    BY <2>6, CopyFromChannelTyped
  <2>7. CASE \E c \in DOMAIN contexts : StartRendering(c)
    BY <2>7, StartRenderingTyped
  <2> QED
    BY <1>2, <2>1, <2>2, <2>3, <2>4, <2>5, <2>6, <2>7 DEF AudioNext, AudioCall
<1> QED
  BY <1>1, <1>2

LEMMA AudioInvTypes == AudioInv => TypeOK
<1> SUFFICES ASSUME AudioInv PROVE TypeOK
  OBVIOUS
<1>1. ASSUME NEW n \in DOMAIN nodes PROVE nodes[n].buffer \in {0} \cup DOMAIN buffers
  <2>1. buffers \in Seq(AudioBuffers) /\ nodes[n].buffer \in 0..Len(buffers)
    BY DEF AudioInv, BuffersTyped
  <2> QED
    BY <2>1
<1>2. ASSUME NEW n \in DOMAIN nodes PROVE ToSet(nodes[n].down) \subseteq DOMAIN nodes
  BY DEF AudioInv, NodesTyped, ToSet
<1>3. \A b \in DOMAIN buffers : Len(buffers[b].data) = buffers[b].channels * buffers[b].len
  BY DEF AudioInv, BuffersTyped, Whole
<1> QED
  BY <1>1, <1>2, <1>3 DEF TypeOK, AudioInv, ContextsTyped

\* What leads where exists, and every buffer keeps the size its channels need,
\* whatever script calls (connect, buffer = ..., copyToChannel, startRendering).
THEOREM AudioTypeCorrect == AudioSpec => []TypeOK
<1>1. AudioSpec => []AudioInv
  BY AudioInitially, AudioStep, PTL DEF AudioSpec
<1> QED
  BY <1>1, AudioInvTypes, PTL

LEMMA RenderStep ==
  ASSUME AudioInv, NEW c \in DOMAIN contexts, StartRendering(c), Plain, NEW i \in 1..contexts[c].len
  PROVE  Channel(Last(buffers'), 1)[i] =
           Total({n \in DOMAIN nodes : nodes[n].toDest /\ nodes[n].dest = contexts[c].dest}, Signal(i))
<1>1. PICK b : /\ Whole(b) /\ b.channels = contexts[c].channels /\ b.len = contexts[c].len
               /\ buffers' = Append(buffers, b)
               /\ \A k \in 1..(b.channels * b.len) : b.data[k] = Mix(c, 1 + ((k - 1) % b.len))
  BY RenderingMade
<1>2. Last(buffers') = b
  <2>1. buffers \in Seq(AudioBuffers) /\ b \in AudioBuffers
    BY <1>1 DEF AudioInv, BuffersTyped, Whole
  <2>2. Len(buffers') = Len(buffers) + 1 /\ buffers'[Len(buffers) + 1] = b
    BY <1>1, <2>1
  <2> QED
    BY <2>2 DEF Last
<1>3. b.channels \in Nat \ {0} /\ b.len \in Nat /\ i \in 1..b.len
  BY <1>1 DEF Whole, AudioBuffers
<1>4. 1 \in 1..b.channels
  BY <1>3
<1>5. Channel(b, 1)[i] = b.data[(1 - 1) * b.len + i] /\ (1 - 1) * b.len + i \in 1..(b.channels * b.len)
  BY <1>1, <1>3, <1>4, ChannelIs, ChannelPlace
<1>6. (1 - 1) * b.len + i = i /\ 1 + ((i - 1) % b.len) = i
  <2> DEFINE l == b.len
  <2>1. l \in Nat /\ i \in 1..l
    BY <1>3
  <2> HIDE DEF l
  <2>2. (1 - 1) * l + i = i
    BY <2>1
  <2>3. (i - 1) % l = i - 1
    <3>1. i - 1 \in 0..(l - 1) /\ l \in Nat \ {0}
      BY <2>1
    <3> QED
      BY <3>1, SMTT(30)
  <2> QED
    BY <2>1, <2>2, <2>3 DEF l
<1>7. Channel(b, 1)[i] = Mix(c, i)
  BY <1>1, <1>5, <1>6
<1>8. Mix(c, i) = Total(HeardAt(contexts[c].dest), [n \in DOMAIN nodes |-> Rendered(n, i)])
  BY DEF Mix, HeardAt
<1>9. i \in Nat \ {0}
  BY <1>3
<1> QED
  BY <1>2, <1>7, <1>8, <1>9, MixIsSignal DEF AudioInv

\* Rendering a graph of plain chains gives the signal that reaches the context's
\* destination: walking from each started source and multiplying the gains met
\* (startRendering, render_chain) is what the Web Audio API defines node by node.
THEOREM RendersGraph == AudioSpec => RendersTheGraph
<1>1. AudioSpec => []AudioInv
  BY AudioInitially, AudioStep, PTL DEF AudioSpec
<1>2. AudioInv /\ [AudioNext]_audioVars =>
        [\A c \in DOMAIN contexts :
           StartRendering(c) /\ Plain =>
             \A i \in 1..contexts[c].len :
               Channel(Last(buffers'), 1)[i] =
                 Total({n \in DOMAIN nodes : nodes[n].toDest /\ nodes[n].dest = contexts[c].dest},
                       Signal(i))]_audioVars
  BY RenderStep
<1> QED
  BY <1>1, <1>2, PTL DEF AudioSpec, RendersTheGraph

---------------------------------------------------------------------------
(* StructuredClone: the inductive invariant.                                *)

GraphCells == [kind : {"object", "buffer", "other"}, slots : Seq(Nat)]

\* Cell x of copies m, with the table s, is what v is to be copied to.
Matches(m, s, v, x) ==
  \/ v = 0 /\ x = 0
  \/ /\ v \in DOMAIN original /\ x \in DOMAIN m /\ m[x].kind = original[v].kind
     /\ \/ original[v].kind = "buffer" /\ m[x].slots = <<>>
        \/ original[v].kind = "object" /\ s[v] = x

SlotsOf(m, s, v) == m[s[v]].slots

\* The copy of an object is an object, its own, with the first slots filled as they are to be.
CopiesSound(m, s) ==
  \A v \in DOMAIN original : s[v] # 0 =>
    /\ original[v].kind = "object" /\ s[v] \in DOMAIN m /\ m[s[v]].kind = "object"
    /\ \A w \in DOMAIN original : s[w] = s[v] => w = v
    /\ Len(SlotsOf(m, s, v)) <= Len(original[v].slots)
    /\ \A j \in DOMAIN SlotsOf(m, s, v) : Matches(m, s, original[v].slots[j], SlotsOf(m, s, v)[j])

\* Only what is being cloned lacks slots.
CopiesFull(m, s, t) ==
  \A v \in DOMAIN original : s[v] # 0 /\ v \notin ToSet(t) =>
    Len(SlotsOf(m, s, v)) = Len(original[v].slots)

\* The next slot of u is there, and refers to v.
Awaits(m, s, u, v) ==
  /\ Len(SlotsOf(m, s, u)) < Len(original[u].slots)
  /\ original[u].slots[Len(SlotsOf(m, s, u)) + 1] = v

\* The calls under way, each in the slot that the one before awaits.
CallsSound(m, s, t) ==
  /\ \A k \in DOMAIN t : s[t[k]] # 0 /\ \A l \in DOMAIN t : t[k] = t[l] => k = l
  /\ t # <<>> => t[1] = 1
  /\ \A k \in DOMAIN t : k < Len(t) => Awaits(m, s, t[k], t[k + 1])

CloneTyped(m, s, t) ==
  /\ m \in Seq(GraphCells) /\ s \in [DOMAIN original -> Nat] /\ t \in Seq(DOMAIN original)
  /\ m # <<>> => Matches(m, s, 1, 1)

CloneSound(m, s, t) ==
  CloneTyped(m, s, t) /\ CopiesSound(m, s) /\ CopiesFull(m, s, t) /\ CallsSound(m, s, t)

Refusable ==
  \E p \in BoundedSeq(1..MaxSlots, MaxCells) : Exists(original, p) /\ KindAt(original, p) = "other"

CloneInv ==
  /\ outcome \in {"none", "cloning", "cloned", "refused"}
  /\ outcome = "none" => made = <<>> /\ todo = <<>>
  /\ outcome # "none" => original \in GraphsOf(MaxCells)
  /\ outcome \in {"cloning", "cloned"} => CloneSound(made, seen, todo)
  /\ outcome = "cloning" /\ todo = <<>> => made = <<>>
  /\ outcome = "cloned" => todo = <<>> /\ made # <<>>
  /\ outcome = "refused" => Refusable

LEMMA OriginalIs ==
  ASSUME original \in GraphsOf(MaxCells)
  PROVE  /\ DOMAIN original = 1..MaxCells /\ Len(original) = MaxCells /\ 1 \in DOMAIN original
         /\ \A v \in DOMAIN original :
              /\ original[v] \in GraphCells /\ Len(original[v].slots) <= MaxSlots
              /\ original[v].kind # "object" => original[v].slots = <<>>
              /\ \A j \in DOMAIN original[v].slots : original[v].slots[j] \in 0..MaxCells
<1> DEFINE O == {Cell("object", s) : s \in BoundedSeq(0..MaxCells, MaxSlots)}
           P == {Cell(k, <<>>) : k \in {"buffer", "other"}}
<1>1. MaxCells \in Nat \ {0} /\ MaxSlots \in Nat
  BY CellsOK
<1>2. original \in [1..MaxCells -> O \cup P]
  BY DEF GraphsOf
<1>3. ASSUME NEW c \in O
      PROVE  /\ c \in GraphCells /\ Len(c.slots) <= MaxSlots /\ c.kind = "object"
             /\ \A j \in DOMAIN c.slots : c.slots[j] \in 0..MaxCells
  <2>1. PICK s \in BoundedSeq(0..MaxCells, MaxSlots) : c = Cell("object", s)
    OBVIOUS
  <2>2. PICK n \in 0..MaxSlots : s \in [1..n -> 0..MaxCells]
    BY <1>1 DEF BoundedSeq, SeqOf
  <2>3. s \in Seq(0..MaxCells) /\ Len(s) = n
    BY <1>1, <2>2, MapsAreSeqs
  <2>4. s \in Seq(Nat)
    BY <1>1, <2>3
  <2>5. c.slots = s /\ c.kind = "object"
    BY <2>1 DEF Cell
  <2>6. c \in GraphCells
    BY <2>1, <2>4 DEF Cell, GraphCells
  <2> HIDE DEF O
  <2> QED
    BY <1>1, <2>2, <2>3, <2>5, <2>6
<1>4. ASSUME NEW c \in P
      PROVE  c \in GraphCells /\ c.kind # "object" /\ c.slots = <<>>
  <2>1. PICK k \in {"buffer", "other"} : c = Cell(k, <<>>)
    OBVIOUS
  <2>2. <<>> \in Seq(Nat)
    OBVIOUS
  <2> QED
    BY <2>1, <2>2 DEF Cell, GraphCells
<1> HIDE DEF O, P
<1>5. DOMAIN original = 1..MaxCells /\ 1 \in DOMAIN original
  BY <1>1, <1>2
<1>6. Len(original) = MaxCells
  BY <1>1, <1>2, MapsAreSeqs
<1>7. ASSUME NEW v \in DOMAIN original
      PROVE  /\ original[v] \in GraphCells /\ Len(original[v].slots) <= MaxSlots
             /\ original[v].kind # "object" => original[v].slots = <<>>
             /\ \A j \in DOMAIN original[v].slots : original[v].slots[j] \in 0..MaxCells
  <2>1. original[v] \in O \/ original[v] \in P
    BY <1>2
  <2>2. CASE original[v] \in O
    BY <1>3, <2>2
  <2>3. CASE original[v] \in P
    <3>1. original[v] \in GraphCells /\ original[v].kind # "object" /\ original[v].slots = <<>>
      BY <1>4, <2>3
    <3>2. Len(original[v].slots) = 0 /\ DOMAIN original[v].slots = {}
      BY <3>1
    <3> QED
      BY <1>1, <3>1, <3>2
  <2> QED
    BY <2>1, <2>2, <2>3
<1> QED
  BY <1>5, <1>6, <1>7

\* What stays: the copies there are, their kinds, and all of a buffer.
Grows(m, s, m2, s2) ==
  /\ DOMAIN m \subseteq DOMAIN m2
  /\ \A x \in DOMAIN m : m2[x].kind = m[x].kind /\ (m[x].kind = "buffer" => m2[x].slots = m[x].slots)
  /\ \A v \in DOMAIN original : s[v] # 0 => s2[v] = s[v]

LEMMA MatchesStay ==
  ASSUME NEW m, NEW s, NEW m2, NEW s2, Grows(m, s, m2, s2), m \in Seq(GraphCells),
         NEW v, NEW x, Matches(m, s, v, x)
  PROVE  Matches(m2, s2, v, x)
<1>1. CASE v = 0 /\ x = 0
  BY <1>1 DEF Matches
<1>2. CASE ~ (v = 0 /\ x = 0)
  <2>1. /\ v \in DOMAIN original /\ x \in DOMAIN m /\ m[x].kind = original[v].kind
        /\ \/ original[v].kind = "buffer" /\ m[x].slots = <<>>
           \/ original[v].kind = "object" /\ s[v] = x
    BY <1>2 DEF Matches
  <2>2. x # 0
    BY <2>1
  <2>3. x \in DOMAIN m2 /\ m2[x].kind = original[v].kind
    BY <2>1 DEF Grows
  <2>4. original[v].kind = "buffer" /\ m[x].slots = <<>> => m2[x].slots = <<>>
    BY <2>1 DEF Grows
  <2>5. original[v].kind = "object" /\ s[v] = x => s2[v] = x
    BY <2>1, <2>2 DEF Grows
  <2> QED
    BY <2>1, <2>3, <2>4, <2>5 DEF Matches
<1> QED
  BY <1>1, <1>2

\* The innermost object.
LEMMA InnermostIs ==
  ASSUME NEW m, NEW s, NEW t, CloneSound(m, s, t), t # <<>>
  PROVE  /\ Len(t) \in Nat \ {0} /\ Last(t) = t[Len(t)] /\ Len(t) \in DOMAIN t /\ DOMAIN t = 1..Len(t)
         /\ Last(t) \in DOMAIN original /\ s[Last(t)] # 0
         /\ original[Last(t)].kind = "object"
         /\ s[Last(t)] \in DOMAIN m /\ m[s[Last(t)]].kind = "object" /\ m[s[Last(t)]] \in GraphCells
<1>1. t \in Seq(DOMAIN original) /\ m \in Seq(GraphCells)
  BY DEF CloneSound, CloneTyped
<1>2. Len(t) \in Nat \ {0} /\ Len(t) \in DOMAIN t /\ DOMAIN t = 1..Len(t) /\ Last(t) = t[Len(t)]
      /\ t[Len(t)] \in DOMAIN original
  BY <1>1 DEF Last
<1>3. s[Last(t)] # 0
  BY <1>2 DEF CloneSound, CallsSound
<1>4. original[Last(t)].kind = "object" /\ s[Last(t)] \in DOMAIN m /\ m[s[Last(t)]].kind = "object"
  BY <1>2, <1>3 DEF CloneSound, CopiesSound
<1> QED
  BY <1>1, <1>2, <1>3, <1>4

LEMMA MatchesAllStay ==
  ASSUME NEW m, NEW s, NEW m2, NEW s2, Grows(m, s, m2, s2), m \in Seq(GraphCells)
  PROVE  \A v, x : Matches(m, s, v, x) => Matches(m2, s2, v, x)
BY MatchesStay

\* One more cell, of a copy not yet in any slot.
LEMMA CellAdded ==
  ASSUME original \in GraphsOf(MaxCells), NEW m, NEW s, NEW t, CloneSound(m, s, t),
         NEW c \in GraphCells, m = <<>> => Matches(Append(m, c), s, 1, 1)
  PROVE  /\ CloneSound(Append(m, c), s, t) /\ Len(Append(m, c)) = Len(m) + 1
         /\ Append(m, c)[Len(m) + 1] = c /\ Len(m) + 1 \in DOMAIN Append(m, c) /\ Len(m) \in Nat
         /\ \A x \in DOMAIN m : x \in DOMAIN Append(m, c) /\ Append(m, c)[x] = m[x]
         /\ Append(m, c) \in Seq(GraphCells)
<1> DEFINE m2 == Append(m, c)
<1>1. m \in Seq(GraphCells) /\ s \in [DOMAIN original -> Nat] /\ t \in Seq(DOMAIN original)
      /\ (m # <<>> => Matches(m, s, 1, 1))
  BY DEF CloneSound, CloneTyped
<1>2. /\ m2 \in Seq(GraphCells) /\ Len(m2) = Len(m) + 1 /\ Len(m) \in Nat /\ m2[Len(m) + 1] = c
      /\ Len(m) + 1 \in DOMAIN m2 /\ \A x \in DOMAIN m : x \in DOMAIN m2 /\ m2[x] = m[x]
  BY <1>1
<1> HIDE DEF m2
<1>3. \A v, x : Matches(m, s, v, x) => Matches(m2, s, v, x)
  <2>1. Grows(m, s, m2, s)
    BY <1>2 DEF Grows
  <2> QED
    BY <1>1, <2>1, MatchesAllStay
<1>4. \A v \in DOMAIN original : s[v] # 0 => s[v] \in DOMAIN m /\ SlotsOf(m2, s, v) = SlotsOf(m, s, v)
  BY <1>2 DEF CloneSound, CopiesSound, SlotsOf
<1>5. CloneTyped(m2, s, t)
  BY <1>1, <1>2, <1>3 DEF CloneTyped, m2
<1>6. CopiesSound(m2, s)
  <2>1. ASSUME NEW v \in DOMAIN original, s[v] # 0
        PROVE  /\ original[v].kind = "object" /\ s[v] \in DOMAIN m2 /\ m2[s[v]].kind = "object"
               /\ \A w \in DOMAIN original : s[w] = s[v] => w = v
               /\ Len(SlotsOf(m2, s, v)) <= Len(original[v].slots)
               /\ \A j \in DOMAIN SlotsOf(m2, s, v) :
                    Matches(m2, s, original[v].slots[j], SlotsOf(m2, s, v)[j])
    <3>1. /\ original[v].kind = "object" /\ s[v] \in DOMAIN m /\ m[s[v]].kind = "object"
          /\ \A w \in DOMAIN original : s[w] = s[v] => w = v
          /\ Len(SlotsOf(m, s, v)) <= Len(original[v].slots)
          /\ \A j \in DOMAIN SlotsOf(m, s, v) : Matches(m, s, original[v].slots[j], SlotsOf(m, s, v)[j])
      BY <2>1 DEF CloneSound, CopiesSound
    <3>2. SlotsOf(m2, s, v) = SlotsOf(m, s, v) /\ s[v] \in DOMAIN m2 /\ m2[s[v]] = m[s[v]]
      BY <1>2, <1>4, <2>1
    <3> QED
      BY <1>3, <3>1, <3>2
  <2> QED
    BY <2>1 DEF CopiesSound
<1>7. CopiesFull(m2, s, t)
  BY <1>4 DEF CloneSound, CopiesFull
<1>8. CallsSound(m2, s, t)
  <2>1. \A k \in DOMAIN t : t[k] \in DOMAIN original /\ s[t[k]] # 0
    BY <1>1 DEF CloneSound, CallsSound
  <2>2. \A k \in DOMAIN t : k < Len(t) => Awaits(m2, s, t[k], t[k + 1])
    BY <1>4, <2>1 DEF CloneSound, CallsSound, Awaits
  <2> QED
    BY <2>2 DEF CloneSound, CallsSound
<1> QED
  BY <1>2, <1>5, <1>6, <1>7, <1>8 DEF CloneSound, m2

\* A copy in the slot that awaits it.
LEMMA SlotFilled ==
  ASSUME original \in GraphsOf(MaxCells), NEW m, NEW s, NEW t, CloneSound(m, s, t), t # <<>>,
         NEW v, NEW x \in Nat, Awaits(m, s, Last(t), v), Matches(m, s, v, x)
  PROVE  CloneSound([m EXCEPT ![s[Last(t)]].slots = Append(@, x)], s, t)
<1> DEFINE u == Last(t)
           c == [m[s[u]] EXCEPT !.slots = Append(@, x)]
           m2 == [m EXCEPT ![s[u]] = c]
           old == m[s[u]].slots
<1>1. m \in Seq(GraphCells) /\ s \in [DOMAIN original -> Nat] /\ t \in Seq(DOMAIN original)
      /\ (m # <<>> => Matches(m, s, 1, 1))
  BY DEF CloneSound, CloneTyped
<1>2. /\ Len(t) \in Nat \ {0} /\ u = t[Len(t)] /\ Len(t) \in DOMAIN t /\ DOMAIN t = 1..Len(t)
      /\ u \in DOMAIN original /\ s[u] # 0 /\ original[u].kind = "object"
      /\ s[u] \in DOMAIN m /\ m[s[u]].kind = "object" /\ m[s[u]] \in GraphCells
  BY InnermostIs
<1>3. [m EXCEPT ![s[u]].slots = Append(@, x)] = m2
  BY <1>2
<1>4. old \in Seq(Nat)
  BY <1>2 DEF GraphCells
<1>5. c \in GraphCells /\ c.kind = "object" /\ c.slots = Append(old, x)
  <2>1. Append(old, x) \in Seq(Nat)
    BY <1>4
  <2> HIDE DEF old
  <2>2. c = [m[s[u]] EXCEPT !.slots = Append(old, x)]
    BY DEF old
  <2> HIDE DEF c
  <2> QED
    BY <1>2, <2>1, <2>2 DEF GraphCells
<1> HIDE DEF c
<1>6. /\ m2 \in Seq(GraphCells) /\ DOMAIN m2 = DOMAIN m /\ m2[s[u]] = c
      /\ \A y \in DOMAIN m : y # s[u] => m2[y] = m[y]
  BY <1>1, <1>2, <1>5
<1> HIDE DEF m2, u
<1>7. \A w, y : Matches(m, s, w, y) => Matches(m2, s, w, y)
  <2>1. \A y \in DOMAIN m : m2[y].kind = m[y].kind /\ (m[y].kind = "buffer" => m2[y].slots = m[y].slots)
    BY <1>2, <1>5, <1>6
  <2>2. Grows(m, s, m2, s)
    BY <1>6, <2>1 DEF Grows
  <2> QED
    BY <1>1, <2>2, MatchesAllStay
<1>8. \A w \in DOMAIN original : s[w] # 0 =>
        s[w] \in DOMAIN m /\ (w # u => m2[s[w]] = m[s[w]] /\ SlotsOf(m2, s, w) = SlotsOf(m, s, w))
  <2>1. ASSUME NEW w \in DOMAIN original, s[w] # 0
        PROVE  s[w] \in DOMAIN m /\ (s[w] = s[u] => w = u)
    BY <1>2, <2>1 DEF CloneSound, CopiesSound
  <2> QED
    BY <1>6, <2>1 DEF SlotsOf
<1>9. SlotsOf(m, s, u) = old /\ SlotsOf(m2, s, u) = Append(old, x)
  BY <1>5, <1>6 DEF SlotsOf
<1>10. CloneTyped(m2, s, t)
  <2>1. m2 # <<>> => m # <<>>
    BY <1>1, <1>2
  <2> QED
    BY <1>1, <1>6, <1>7, <2>1 DEF CloneTyped
<1>11. Len(old) < Len(original[u].slots) /\ original[u].slots[Len(old) + 1] = v
  BY <1>9 DEF Awaits, u
<1> HIDE DEF old
<1>12. CopiesSound(m2, s)
  <2>1. ASSUME NEW w \in DOMAIN original, s[w] # 0
        PROVE  /\ original[w].kind = "object" /\ s[w] \in DOMAIN m /\ m[s[w]].kind = "object"
               /\ \A z \in DOMAIN original : s[z] = s[w] => z = w
               /\ Len(SlotsOf(m, s, w)) <= Len(original[w].slots)
               /\ \A j \in DOMAIN SlotsOf(m, s, w) : Matches(m, s, original[w].slots[j], SlotsOf(m, s, w)[j])
    BY <2>1 DEF CloneSound, CopiesSound
  <2>2. ASSUME NEW w \in DOMAIN original, s[w] # 0, w # u
        PROVE  /\ original[w].kind = "object" /\ s[w] \in DOMAIN m2 /\ m2[s[w]].kind = "object"
               /\ \A z \in DOMAIN original : s[z] = s[w] => z = w
               /\ Len(SlotsOf(m2, s, w)) <= Len(original[w].slots)
               /\ \A j \in DOMAIN SlotsOf(m2, s, w) :
                    Matches(m2, s, original[w].slots[j], SlotsOf(m2, s, w)[j])
    <3>1. m2[s[w]] = m[s[w]] /\ SlotsOf(m2, s, w) = SlotsOf(m, s, w)
      BY <1>8, <2>2
    <3> QED
      BY <1>6, <1>7, <2>1, <2>2, <3>1
  <2>3. /\ s[u] \in DOMAIN m2 /\ m2[s[u]].kind = "object"
        /\ Len(SlotsOf(m2, s, u)) <= Len(original[u].slots)
        /\ \A j \in DOMAIN SlotsOf(m2, s, u) : Matches(m2, s, original[u].slots[j], SlotsOf(m2, s, u)[j])
    <3>1. Len(Append(old, x)) <= Len(original[u].slots)
      <4>1. original[u].slots \in Seq(Nat)
        BY <1>2, OriginalIs DEF GraphCells
      <4>2. Len(original[u].slots) \in Nat /\ Len(old) \in Nat /\ Len(Append(old, x)) = Len(old) + 1
        BY <1>4, <4>1
      <4> QED
        BY <1>11, <4>2
    <3>2. ASSUME NEW j \in DOMAIN Append(old, x)
          PROVE  Matches(m2, s, original[u].slots[j], Append(old, x)[j])
      <4>1. CASE j \in DOMAIN old
        <5>1. Append(old, x)[j] = old[j]
          BY <1>4, <4>1
        <5>2. Matches(m, s, original[u].slots[j], old[j])
          BY <1>2, <1>9, <2>1, <4>1
        <5> QED
          BY <1>7, <5>1, <5>2
      <4>2. CASE j = Len(old) + 1
        <5>1. Append(old, x)[Len(old) + 1] = x
          BY <1>4
        <5> QED
          BY <1>7, <1>11, <4>2, <5>1
      <4>3. j \in DOMAIN old \/ j = Len(old) + 1
        BY <1>4
      <4> QED
        BY <4>1, <4>2, <4>3
    <3> QED
      BY <1>2, <1>5, <1>6, <1>9, <3>1, <3>2
  <2>4. ASSUME NEW w \in DOMAIN original, s[w] # 0
        PROVE  /\ original[w].kind = "object" /\ s[w] \in DOMAIN m2 /\ m2[s[w]].kind = "object"
               /\ \A z \in DOMAIN original : s[z] = s[w] => z = w
               /\ Len(SlotsOf(m2, s, w)) <= Len(original[w].slots)
               /\ \A j \in DOMAIN SlotsOf(m2, s, w) :
                    Matches(m2, s, original[w].slots[j], SlotsOf(m2, s, w)[j])
    BY <2>1, <2>2, <2>3, <2>4
  <2> QED
    BY <2>4 DEF CopiesSound
<1>13. CopiesFull(m2, s, t)
  <2>1. u \in ToSet(t)
    BY <1>2 DEF ToSet
  <2> QED
    BY <1>8, <2>1 DEF CloneSound, CopiesFull
<1>14. CallsSound(m2, s, t)
  <2>1. ASSUME NEW k \in DOMAIN t, k < Len(t) PROVE Awaits(m2, s, t[k], t[k + 1])
    <3>1. t[k] # u /\ t[k] \in DOMAIN original /\ s[t[k]] # 0 /\ Awaits(m, s, t[k], t[k + 1])
      BY <1>1, <1>2, <2>1 DEF CloneSound, CallsSound
    <3> QED
      BY <1>8, <3>1 DEF Awaits
  <2> QED
    BY <2>1 DEF CloneSound, CallsSound
<1> QED
  BY <1>3, <1>10, <1>12, <1>13, <1>14 DEF CloneSound, u

\* The calls but the last.
LEMMA FrontIs ==
  ASSUME NEW S, NEW t \in Seq(S), t # <<>>
  PROVE  /\ Front(t) \in Seq(S) /\ Len(Front(t)) = Len(t) - 1 /\ Len(t) \in Nat \ {0}
         /\ DOMAIN Front(t) = 1..(Len(t) - 1) /\ DOMAIN t = 1..Len(t)
         /\ \A k \in 1..(Len(t) - 1) : Front(t)[k] = t[k]
         /\ Front(t) = <<>> <=> Len(t) = 1
<1>1. Len(t) \in Nat \ {0} /\ DOMAIN t = 1..Len(t)
  OBVIOUS
<1>2. 1 \in 1..(Len(t) + 1) /\ Len(t) - 1 \in (1 - 1)..Len(t)
  BY <1>1
<1>3. /\ Front(t) \in Seq(S) /\ Len(Front(t)) = Len(t) - 1
      /\ \A k \in 1..(Len(t) - 1) : Front(t)[k] = t[k]
  <2>1. /\ SubSeq(t, 1, Len(t) - 1) \in Seq(S) /\ Len(SubSeq(t, 1, Len(t) - 1)) = Len(t) - 1
        /\ \A k \in 1..(Len(t) - 1) : SubSeq(t, 1, Len(t) - 1)[k] = t[k]
    BY <1>1
  <2> QED
    BY <2>1 DEF Front
<1> QED
  BY <1>1, <1>3

\* What is said of the graph that is cloned holds when the step leaves it alone.
LEMMA SameOriginal ==
  ASSUME UNCHANGED original, CloneSound(made', seen', todo')
  PROVE  CloneSound(made, seen, todo)'
<1>1. \A v, x : Matches(made', seen', v, x) => Matches(made, seen, v, x)'
  BY DEF Matches
<1>2. CloneTyped(made, seen, todo)'
  BY <1>1 DEF CloneSound, CloneTyped, Matches
<1>3. CopiesSound(made, seen)'
  BY DEF CloneSound, CopiesSound, SlotsOf, Matches
<1>4. CopiesFull(made, seen, todo)'
  BY DEF CloneSound, CopiesFull, SlotsOf
<1>5. CallsSound(made, seen, todo)'
  BY DEF CloneSound, CallsSound, Awaits, SlotsOf
<1> QED
  BY <1>2, <1>3, <1>4, <1>5 DEF CloneSound

\* The call's answer, put where it is awaited.
LEMMA Answered ==
  ASSUME original \in GraphsOf(MaxCells), outcome = "cloning",
         NEW m, NEW t, NEW v, NEW x \in Nat, CloneSound(m, seen, t), Matches(m, seen, v, x),
         t = <<>> => m # <<>>, t # <<>> => Awaits(m, seen, Last(t), v),
         Answer(x, m, t), UNCHANGED seen
  PROVE  CloneInv'
<1>1. UNCHANGED original /\ todo' = t
  BY DEF Answer
<1>2. CloneSound(made', seen', todo')
  <2>1. CASE t = <<>>
    BY <2>1, <1>1 DEF Answer
  <2>2. CASE t # <<>>
    <3>1. CloneSound([m EXCEPT ![seen[Last(t)]].slots = Append(@, x)], seen, t)
      BY <2>2, SlotFilled
    <3> QED
      BY <2>2, <3>1, <1>1 DEF Answer
  <2> QED
    BY <2>1, <2>2
<1>3. CloneSound(made, seen, todo)'
  BY <1>1, <1>2, SameOriginal
<1>4. \/ t = <<>> /\ outcome' = "cloned" /\ made' # <<>>
      \/ t # <<>> /\ outcome' = "cloning"
  BY DEF Answer
<1>5. original' \in GraphsOf(MaxCells)'
  BY <1>1 DEF GraphsOf
<1> QED
  BY <1>1, <1>3, <1>4, <1>5 DEF CloneInv

\* What is due is what the innermost call awaits.
LEMMA DueIs ==
  ASSUME CloneInv, NEW v, Due(v)
  PROVE  /\ original \in GraphsOf(MaxCells) /\ outcome = "cloning" /\ CloneSound(made, seen, todo)
         /\ todo = <<>> => made = <<>> /\ v = 1
         /\ todo # <<>> => made # <<>> /\ Awaits(made, seen, Last(todo), v)
<1>1. original \in GraphsOf(MaxCells) /\ outcome = "cloning" /\ CloneSound(made, seen, todo)
  BY DEF CloneInv, Due
<1>2. todo = <<>> => made = <<>> /\ v = 1
  BY DEF CloneInv, Due
<1>3. ASSUME todo # <<>> PROVE made # <<>> /\ Awaits(made, seen, Last(todo), v)
  <2> DEFINE u == Last(todo)
  <2>1. u \in DOMAIN original /\ seen[u] # 0 /\ seen[u] \in DOMAIN made /\ made[seen[u]] \in GraphCells
    BY <1>1, <1>3, InnermostIs
  <2>2. original[u] \in GraphCells
    BY <1>1, <2>1, OriginalIs
  <2>3. Len(SlotsOf(made, seen, u)) \in Nat /\ Len(original[u].slots) \in Nat
    BY <2>1, <2>2 DEF GraphCells, SlotsOf
  <2>4. Len(SlotsOf(made, seen, u)) <= Len(original[u].slots)
    BY <1>1, <2>1 DEF CloneSound, CopiesSound
  <2>5. Len(SlotsOf(made, seen, u)) # Len(original[u].slots)
    BY <1>3 DEF Due, AllFilled, Filled, SlotsOf
  <2>6. v = original[u].slots[Len(SlotsOf(made, seen, u)) + 1]
    BY <1>3 DEF Due, Filled, SlotsOf
  <2> QED
    BY <2>1, <2>3, <2>4, <2>5, <2>6 DEF Awaits
<1> QED
  BY <1>1, <1>2, <1>3

LEMMA PrimitiveKeeps ==
  ASSUME CloneInv, ClonePrimitive
  PROVE  CloneInv'
<1>1. Due(0) /\ Answer(0, made, todo) /\ UNCHANGED seen
  BY DEF ClonePrimitive
<1>2. Matches(made, seen, 0, 0)
  BY DEF Matches
<1>3. todo # <<>>
  BY <1>1, DueIs
<1> QED
  BY <1>1, <1>2, <1>3, DueIs, Answered

LEMMA SeenKeeps ==
  ASSUME CloneInv, CloneSeen
  PROVE  CloneInv'
<1>1. PICK v \in DOMAIN original : Due(v) /\ Known(v) /\ Answer(seen[v], made, todo)
  BY DEF CloneSeen
<1>2. UNCHANGED seen
  BY DEF CloneSeen
<1>3. original \in GraphsOf(MaxCells) /\ CloneSound(made, seen, todo)
  BY <1>1, DueIs
<1>4. Matches(made, seen, v, seen[v]) /\ seen[v] \in Nat
  BY <1>1, <1>3 DEF Known, CloneSound, CloneTyped, CopiesSound, Matches
<1>5. made # <<>>
  <2>1. seen[v] \in DOMAIN made
    BY <1>1, <1>3 DEF Known, CloneSound, CopiesSound
  <2> QED
    BY <2>1
<1> QED
  BY <1>1, <1>2, <1>4, <1>5, DueIs, Answered

LEMMA BufferKeeps ==
  ASSUME CloneInv, CloneBuffer
  PROVE  CloneInv'
<1>1. PICK v \in DOMAIN original :
        Due(v) /\ original[v].kind = "buffer" /\ Answer(Len(made) + 1, Append(made, original[v]), todo)
  BY DEF CloneBuffer
<1>2. UNCHANGED seen
  BY DEF CloneBuffer
<1>3. original \in GraphsOf(MaxCells) /\ CloneSound(made, seen, todo) /\ outcome = "cloning"
  BY <1>1, DueIs
<1> DEFINE c == original[v]
           m == Append(made, c)
           x == Len(made) + 1
<1>4. c \in GraphCells /\ c.kind = "buffer" /\ c.slots = <<>>
  BY <1>1, <1>3, OriginalIs
<1>5. made \in Seq(GraphCells)
  BY <1>3 DEF CloneSound, CloneTyped
<1> HIDE DEF c
<1>6. x \in DOMAIN m /\ m[x] = c /\ x \in Nat
  BY <1>4, <1>5
<1>7. Matches(m, seen, v, x)
  BY <1>4, <1>6 DEF Matches, c
<1>8. made = <<>> => x = 1 /\ v = 1
  BY <1>1, DueIs
<1>9. CloneSound(m, seen, todo) /\ m # <<>>
  <2>1. made = <<>> => Matches(m, seen, 1, 1)
    BY <1>7, <1>8
  <2>2. CloneSound(m, seen, todo)
    BY <1>3, <1>4, <2>1, CellAdded
  <2> QED
    BY <1>6, <2>2
<1>10. ASSUME todo # <<>> PROVE Awaits(m, seen, Last(todo), v)
  <2>1. Awaits(made, seen, Last(todo), v)
    BY <1>1, <1>10, DueIs
  <2>2. seen[Last(todo)] \in DOMAIN made
    BY <1>3, <1>10, InnermostIs
  <2>3. m[seen[Last(todo)]] = made[seen[Last(todo)]]
    BY <1>4, <1>5, <2>2
  <2> QED
    BY <2>1, <2>3 DEF Awaits, SlotsOf
<1>11. Answer(x, m, todo)
  BY <1>1 DEF c
<1> HIDE DEF m, x
<1> QED
  BY <1>2, <1>3, <1>6, <1>7, <1>9, <1>10, <1>11, Answered

\* A new object: its empty copy, known, and its call innermost.
LEMMA ObjectEntered ==
  ASSUME original \in GraphsOf(MaxCells), NEW m, NEW s, NEW t, CloneSound(m, s, t),
         NEW v \in DOMAIN original, s[v] = 0, original[v].kind = "object",
         t = <<>> => m = <<>> /\ v = 1, t # <<>> => Awaits(m, s, Last(t), v)
  PROVE  CloneSound(Append(m, Cell("object", <<>>)), [s EXCEPT ![v] = Len(m) + 1], Append(t, v))
<1> DEFINE c == Cell("object", <<>>)
           n == Len(m) + 1
           m2 == Append(m, c)
           s2 == [s EXCEPT ![v] = n]
           t2 == Append(t, v)
<1>1. m \in Seq(GraphCells) /\ s \in [DOMAIN original -> Nat] /\ t \in Seq(DOMAIN original)
      /\ (m # <<>> => Matches(m, s, 1, 1))
  BY DEF CloneSound, CloneTyped
<1>2. c \in GraphCells /\ c.kind = "object" /\ c.slots = <<>>
  BY DEF Cell, GraphCells
<1> HIDE DEF c
<1>3. /\ m2 \in Seq(GraphCells) /\ Len(m) \in Nat /\ n \in Nat \ {0} /\ m2[n] = c /\ n \in DOMAIN m2
      /\ n \notin DOMAIN m /\ \A x \in DOMAIN m : x \in DOMAIN m2 /\ m2[x] = m[x]
  BY <1>1, <1>2
<1>4. s2 \in [DOMAIN original -> Nat] /\ s2[v] = n /\ \A w \in DOMAIN original : w # v => s2[w] = s[w]
  BY <1>1, <1>3
<1>5. /\ t2 \in Seq(DOMAIN original) /\ Len(t) \in Nat /\ Len(t2) = Len(t) + 1 /\ t2[Len(t) + 1] = v
      /\ DOMAIN t = 1..Len(t) /\ DOMAIN t2 = 1..(Len(t) + 1) /\ \A k \in DOMAIN t : t2[k] = t[k]
  BY <1>1
<1>6. m = <<>> <=> n = 1
  BY <1>1
<1> HIDE DEF m2, s2, t2, n
<1>7. \A w, x : Matches(m, s, w, x) => Matches(m2, s2, w, x)
  <2>1. Grows(m, s, m2, s2)
    BY <1>3, <1>4 DEF Grows
  <2> QED
    BY <1>1, <2>1, MatchesAllStay
<1>8. \A w \in DOMAIN original : s[w] # 0 =>
        w # v /\ s2[w] = s[w] /\ s[w] \in DOMAIN m /\ m2[s[w]] = m[s[w]] /\ SlotsOf(m2, s2, w) = SlotsOf(m, s, w)
  BY <1>3, <1>4 DEF CloneSound, CopiesSound, SlotsOf
<1>9. SlotsOf(m2, s2, v) = <<>>
  BY <1>2, <1>3, <1>4 DEF SlotsOf
<1>10. CloneTyped(m2, s2, t2)
  <2>1. m = <<>> => t = <<>>
    <3>1. t # <<>> => s[Last(t)] \in DOMAIN m
      BY InnermostIs
    <3> QED
      BY <3>1
  <2>2. m = <<>> => Matches(m2, s2, 1, 1)
    <3>1. Matches(m2, s2, v, n)
      BY <1>2, <1>3, <1>4 DEF Matches
    <3> QED
      BY <1>6, <2>1, <3>1
  <2> QED
    BY <1>1, <1>3, <1>4, <1>5, <1>7, <2>2 DEF CloneTyped
<1>11. CopiesSound(m2, s2)
  <2>1. ASSUME NEW w \in DOMAIN original, s[w] # 0
        PROVE  /\ original[w].kind = "object" /\ s2[w] \in DOMAIN m2 /\ m2[s2[w]].kind = "object"
               /\ \A z \in DOMAIN original : s2[z] = s2[w] => z = w
               /\ Len(SlotsOf(m2, s2, w)) <= Len(original[w].slots)
               /\ \A j \in DOMAIN SlotsOf(m2, s2, w) :
                    Matches(m2, s2, original[w].slots[j], SlotsOf(m2, s2, w)[j])
    <3>1. /\ original[w].kind = "object" /\ s[w] \in DOMAIN m /\ m[s[w]].kind = "object"
          /\ \A z \in DOMAIN original : s[z] = s[w] => z = w
          /\ Len(SlotsOf(m, s, w)) <= Len(original[w].slots)
          /\ \A j \in DOMAIN SlotsOf(m, s, w) : Matches(m, s, original[w].slots[j], SlotsOf(m, s, w)[j])
      BY <2>1 DEF CloneSound, CopiesSound
    <3>2. s2[w] = s[w] /\ m2[s[w]] = m[s[w]] /\ SlotsOf(m2, s2, w) = SlotsOf(m, s, w) /\ s[w] # n
      BY <1>3, <1>8, <2>1
    <3>3. ASSUME NEW z \in DOMAIN original, s2[z] = s2[w] PROVE z = w
      BY <1>4, <3>1, <3>2, <3>3
    <3> QED
      BY <1>3, <1>7, <3>1, <3>2, <3>3
  <2>2. /\ s2[v] \in DOMAIN m2 /\ m2[s2[v]].kind = "object"
        /\ \A z \in DOMAIN original : s2[z] = s2[v] => z = v
        /\ Len(SlotsOf(m2, s2, v)) <= Len(original[v].slots)
        /\ DOMAIN SlotsOf(m2, s2, v) = {}
    <3>1. \A z \in DOMAIN original : z # v => s2[z] # n
      <4>1. ASSUME NEW z \in DOMAIN original, z # v PROVE s2[z] # n
        <5>1. CASE s[z] = 0
          BY <1>3, <1>4, <4>1, <5>1
        <5>2. CASE s[z] # 0
          BY <1>3, <1>8, <5>2
        <5> QED
          BY <5>1, <5>2
      <4> QED
        BY <4>1
    <3>2. Len(original[v].slots) \in Nat
      BY OriginalIs DEF GraphCells
    <3>3. Len(<<>>) = 0 /\ DOMAIN <<>> = {}
      OBVIOUS
    <3> QED
      BY <1>2, <1>3, <1>4, <1>9, <3>1, <3>2, <3>3
  <2>3. \A w \in DOMAIN original : s2[w] # 0 => w = v \/ s[w] # 0
    BY <1>4
  <2> QED
    BY <2>1, <2>2, <2>3 DEF CopiesSound
<1>12. CopiesFull(m2, s2, t2)
  <2>1. ASSUME NEW w \in DOMAIN original, s2[w] # 0, w \notin ToSet(t2)
        PROVE  Len(SlotsOf(m2, s2, w)) = Len(original[w].slots)
    <3>1. w # v
      BY <1>5, <2>1 DEF ToSet
    <3>2. w \notin ToSet(t)
      BY <1>5, <2>1 DEF ToSet
    <3>3. s[w] # 0 /\ SlotsOf(m2, s2, w) = SlotsOf(m, s, w)
      BY <1>4, <1>8, <2>1, <3>1
    <3> QED
      BY <3>2, <3>3 DEF CloneSound, CopiesFull
  <2> QED
    BY <2>1 DEF CopiesFull
<1>13. CallsSound(m2, s2, t2)
  <2>1. \A k \in DOMAIN t : t[k] \in DOMAIN original /\ s[t[k]] # 0 /\ t[k] # v
    BY <1>1 DEF CloneSound, CallsSound
  <2>2. \A k \in DOMAIN t2 : k \in DOMAIN t \/ k = Len(t) + 1
    BY <1>5
  <2>3. ASSUME NEW k \in DOMAIN t2 PROVE s2[t2[k]] # 0
    <3>1. CASE k \in DOMAIN t
      <4>1. t2[k] = t[k] /\ t[k] \in DOMAIN original /\ s[t[k]] # 0
        BY <1>5, <2>1, <3>1
      <4> QED
        BY <1>8, <4>1
    <3>2. CASE k = Len(t) + 1
      BY <1>3, <1>4, <1>5, <3>2
    <3> QED
      BY <2>2, <3>1, <3>2
  <2>4. ASSUME NEW k \in DOMAIN t2, NEW l \in DOMAIN t2, t2[k] = t2[l] PROVE k = l
    <3>1. \A i, j \in DOMAIN t : t[i] = t[j] => i = j
      BY DEF CloneSound, CallsSound
    <3> QED
      BY <1>5, <2>1, <2>2, <2>4, <3>1
  <2>5. t2[1] = 1
    <3>1. CASE t = <<>>
      BY <1>5, <3>1
    <3>2. CASE t # <<>>
      <4>1. 1 \in DOMAIN t /\ t[1] = 1
        BY <1>5, <3>2 DEF CloneSound, CallsSound
      <4> QED
        BY <1>5, <4>1
    <3> QED
      BY <3>1, <3>2
  <2>6. ASSUME NEW k \in DOMAIN t2, k < Len(t2) PROVE Awaits(m2, s2, t2[k], t2[k + 1])
    <3>1. k \in DOMAIN t /\ t2[k] = t[k] /\ t # <<>>
      BY <1>5, <2>2, <2>6
    <3>2. Awaits(m, s, t[k], t2[k + 1])
      <4>1. CASE k = Len(t)
        BY <1>5, <3>1, <4>1 DEF Last
      <4>2. CASE k # Len(t)
        <5>1. k < Len(t) /\ k + 1 \in DOMAIN t
          BY <1>5, <3>1, <4>2
        <5>2. t2[k + 1] = t[k + 1]
          BY <1>5, <5>1
        <5> QED
          BY <3>1, <5>1, <5>2 DEF CloneSound, CallsSound
      <4> QED
        BY <4>1, <4>2
    <3> QED
      BY <1>8, <2>1, <3>1, <3>2 DEF Awaits
  <2> QED
    BY <2>3, <2>4, <2>5, <2>6 DEF CallsSound
<1> QED
  BY <1>10, <1>11, <1>12, <1>13 DEF CloneSound, c, m2, s2, t2, n

LEMMA EnterKeeps ==
  ASSUME CloneInv, EnterObject
  PROVE  CloneInv'
<1>1. PICK v \in DOMAIN original :
        /\ Due(v) /\ ~ Known(v) /\ original[v].kind = "object"
        /\ made' = Append(made, Cell("object", <<>>))
        /\ seen' = [seen EXCEPT ![v] = Len(made) + 1]
        /\ todo' = Append(todo, v)
  BY DEF EnterObject
<1>2. UNCHANGED << original, outcome >>
  BY DEF EnterObject
<1>3. original \in GraphsOf(MaxCells) /\ CloneSound(made, seen, todo) /\ outcome = "cloning"
  BY <1>1, DueIs
<1>4. CloneSound(made', seen', todo')
  <2>1. seen[v] = 0
    BY <1>1 DEF Known
  <2> QED
    BY <1>1, <1>3, <2>1, DueIs, ObjectEntered
<1>5. CloneSound(made, seen, todo)'
  BY <1>2, <1>4, SameOriginal
<1>6. todo' # <<>>
  <2>1. todo \in Seq(DOMAIN original)
    BY <1>3 DEF CloneSound, CloneTyped
  <2> QED
    BY <1>1, <2>1
<1>7. original' \in GraphsOf(MaxCells)'
  BY <1>2, <1>3 DEF GraphsOf
<1> QED
  BY <1>2, <1>3, <1>5, <1>6, <1>7 DEF CloneInv

LEMMA LeaveKeeps ==
  ASSUME CloneInv, LeaveObject
  PROVE  CloneInv'
<1> DEFINE t == Front(todo)
           u == Last(todo)
<1>1. outcome = "cloning" /\ AllFilled /\ Answer(seen[u], made, t) /\ UNCHANGED seen
  BY DEF LeaveObject
<1>2. todo # <<>> /\ Len(SlotsOf(made, seen, u)) = Len(original[u].slots)
  BY <1>1 DEF AllFilled, Filled, SlotsOf
<1>3. original \in GraphsOf(MaxCells) /\ CloneSound(made, seen, todo)
  BY <1>1 DEF CloneInv
<1>4. made \in Seq(GraphCells) /\ seen \in [DOMAIN original -> Nat] /\ todo \in Seq(DOMAIN original)
      /\ (made # <<>> => Matches(made, seen, 1, 1))
  BY <1>3 DEF CloneSound, CloneTyped
<1>5. /\ u = todo[Len(todo)] /\ u \in DOMAIN original /\ seen[u] # 0 /\ original[u].kind = "object"
      /\ seen[u] \in DOMAIN made /\ made[seen[u]].kind = "object"
  BY <1>2, <1>3, InnermostIs
<1>6. /\ t \in Seq(DOMAIN original) /\ Len(t) = Len(todo) - 1 /\ Len(todo) \in Nat \ {0}
      /\ DOMAIN t = 1..(Len(todo) - 1) /\ DOMAIN todo = 1..Len(todo)
      /\ \A k \in 1..(Len(todo) - 1) : t[k] = todo[k]
      /\ t = <<>> <=> Len(todo) = 1
  BY <1>2, <1>4, FrontIs
<1> HIDE DEF t, u
<1>7. CopiesFull(made, seen, t)
  <2>1. ASSUME NEW v \in DOMAIN original, seen[v] # 0, v \notin ToSet(t)
        PROVE  Len(SlotsOf(made, seen, v)) = Len(original[v].slots)
    <3>1. CASE v = u
      BY <1>2, <3>1
    <3>2. CASE v # u
      <4>1. v \notin ToSet(todo)
        <5>1. ASSUME NEW k \in DOMAIN todo, todo[k] = v PROVE FALSE
          <6>1. k \in 1..(Len(todo) - 1)
            BY <1>5, <1>6, <3>2, <5>1
          <6> QED
            BY <1>6, <2>1, <5>1, <6>1 DEF ToSet
        <5> QED
          BY <5>1 DEF ToSet
      <4> QED
        BY <1>3, <2>1, <4>1 DEF CloneSound, CopiesFull
    <3> QED
      BY <3>1, <3>2
  <2> QED
    BY <2>1 DEF CopiesFull
<1>8. CallsSound(made, seen, t)
  <2>1. \A k \in DOMAIN t : k \in DOMAIN todo /\ t[k] = todo[k]
    BY <1>6
  <2>2. t # <<>> => 1 \in DOMAIN t
    BY <1>6
  <2>3. t # <<>> => t[1] = 1
    BY <1>2, <1>3, <2>1, <2>2 DEF CloneSound, CallsSound
  <2>4. ASSUME NEW k \in DOMAIN t, k < Len(t) PROVE Awaits(made, seen, t[k], t[k + 1])
    <3>1. k + 1 \in DOMAIN t /\ k < Len(todo)
      BY <1>6, <2>4
    <3>2. t[k] = todo[k] /\ t[k + 1] = todo[k + 1] /\ k \in DOMAIN todo
      BY <2>1, <2>4, <3>1
    <3> QED
      BY <1>3, <3>1, <3>2 DEF CloneSound, CallsSound
  <2> QED
    BY <1>3, <2>1, <2>3, <2>4 DEF CloneSound, CallsSound
<1>9. CloneSound(made, seen, t)
  BY <1>3, <1>4, <1>6, <1>7, <1>8 DEF CloneSound, CloneTyped
<1>10. Matches(made, seen, u, seen[u]) /\ made # <<>> /\ seen[u] \in Nat
  BY <1>4, <1>5 DEF Matches
<1>11. ASSUME t # <<>> PROVE Awaits(made, seen, Last(t), u)
  <2> DEFINE k == Len(todo) - 1
  <2>1. k \in DOMAIN todo /\ k < Len(todo) /\ k + 1 = Len(todo) /\ k = Len(t) /\ t[k] = todo[k]
    BY <1>6, <1>11
  <2> HIDE DEF k
  <2>2. Awaits(made, seen, todo[k], todo[k + 1])
    BY <1>3, <2>1 DEF CloneSound, CallsSound
  <2> QED
    BY <1>5, <2>1, <2>2 DEF Last
<1> QED
  BY <1>1, <1>3, <1>9, <1>10, <1>11, Answered DEF t, u

LEMMA StartKeeps ==
  ASSUME CloneInv, StartClone
  PROVE  CloneInv'
<1>1. outcome = "none" /\ outcome' = "cloning" /\ original' \in GraphsOf(MaxCells)
      /\ seen' = [v \in 1..MaxCells |-> 0] /\ UNCHANGED << made, todo >>
  BY DEF StartClone
<1>2. made' = <<>> /\ todo' = <<>>
  BY <1>1 DEF CloneInv
<1>3. DOMAIN original' = 1..MaxCells
  <2>1. \A g \in GraphsOf(MaxCells) : DOMAIN g = 1..MaxCells
    BY DEF GraphsOf
  <2> QED
    BY <1>1, <2>1
<1>4. \A v \in DOMAIN original' : seen'[v] = 0
  BY <1>1, <1>3
<1>5. CloneTyped(made, seen, todo)'
  <2>1. <<>> \in Seq(GraphCells) /\ <<>> \in Seq(DOMAIN original')
    OBVIOUS
  <2>2. [v \in 1..MaxCells |-> 0] \in [1..MaxCells -> Nat]
    OBVIOUS
  <2> QED
    BY <1>1, <1>2, <1>3, <2>1, <2>2 DEF CloneTyped, GraphCells
<1>6. CopiesSound(made, seen)' /\ CopiesFull(made, seen, todo)'
  BY <1>4 DEF CopiesSound, CopiesFull
<1>7. CallsSound(made, seen, todo)'
  BY <1>2 DEF CallsSound
<1>8. CloneSound(made, seen, todo)'
  BY <1>5, <1>6, <1>7 DEF CloneSound
<1> QED
  BY <1>1, <1>2, <1>8 DEF CloneInv, GraphsOf

---------------------------------------------------------------------------
(* StructuredClone: paths.                                                  *)

\* From a cell on, along one slot.
Onto(graph, at, i) ==
  IF at \in DOMAIN graph /\ i \in DOMAIN graph[at].slots THEN graph[at].slots[i] ELSE Len(graph) + 1

IsWay(graph, path, w) ==
  /\ w \in [0..Len(path) -> Nat] /\ w[0] = 1
  /\ \A k \in 1..Len(path) : w[k] = Onto(graph, w[k - 1], path[k])

LEMMA OntoTyped ==
  ASSUME NEW graph \in Seq(GraphCells), NEW at, NEW i
  PROVE  Onto(graph, at, i) \in Nat
<1>1. CASE at \in DOMAIN graph /\ i \in DOMAIN graph[at].slots
  <2>1. graph[at] \in GraphCells
    BY <1>1
  <2>2. graph[at].slots \in Seq(Nat)
    BY <2>1 DEF GraphCells
  <2>3. graph[at].slots[i] \in Nat
    BY <1>1, <2>2
  <2> QED
    BY <1>1, <2>3 DEF Onto
<1>2. CASE ~ (at \in DOMAIN graph /\ i \in DOMAIN graph[at].slots)
  BY <1>2 DEF Onto
<1> QED
  BY <1>1, <1>2

\* A path is followed slot by slot.
LEMMA FollowIs ==
  ASSUME NEW graph \in Seq(GraphCells), NEW path, Len(path) \in Nat
  PROVE  \E w : IsWay(graph, path, w) /\ Follow(graph, path) = w[Len(path)]
<1> DEFINE N == Len(path)
           F == [k \in 1..N |-> [a \in Nat |-> Onto(graph, a, path[k])]]
           step(w) == [k \in 0..N |->
                         IF k = 0 THEN 1
                         ELSE IF w[k - 1] \in DOMAIN graph /\ path[k] \in DOMAIN graph[w[k - 1]].slots
                         THEN graph[w[k - 1]].slots[path[k]]
                         ELSE Len(graph) + 1]
           way == CHOOSE w : w = step(w)
<1>1. Follow(graph, path) = way[N]
  BY DEF Follow
<1>2. \A w : step(w) = [k \in 0..N |-> IF k = 0 THEN 1 ELSE Onto(graph, w[k - 1], path[k])]
  BY DEF Onto
<1>3. N \in Nat
  OBVIOUS
<1>4. F \in [1..N -> [Nat -> Nat]]
  BY OntoTyped
<1> HIDE DEF N
<1>5. PICK v \in [0..N -> Nat] : Goes(N, 1, F, v)
  <2> HIDE DEF F
  <2> QED
    BY <1>3, <1>4, Computes
<1>6. v[0] = 1 /\ \A k \in 1..N : v[k] = Onto(graph, v[k - 1], path[k])
  <2>1. ASSUME NEW k \in 1..N PROVE v[k] = Onto(graph, v[k - 1], path[k])
    <3>1. v[k - 1] \in Nat
      BY <1>3
    <3> QED
      BY <1>5, <3>1 DEF Goes
  <2> QED
    BY <1>5, <2>1 DEF Goes
<1>7. \A k \in 0..N : k # 0 => k \in 1..N
  BY <1>3
<1> HIDE DEF F, step
<1>8. v = step(v)
  <2>1. \A k \in 0..N : v[k] = IF k = 0 THEN 1 ELSE Onto(graph, v[k - 1], path[k])
    BY <1>6, <1>7
  <2>2. v = [k \in 0..N |-> v[k]]
    OBVIOUS
  <2> QED
    BY <1>2, <2>1, <2>2
<1>9. way = step(way)
  BY <1>8
<1> HIDE DEF way
<1>10. way = [k \in 0..N |-> IF k = 0 THEN 1 ELSE Onto(graph, way[k - 1], path[k])]
  BY <1>2, <1>9
<1>11. way[0] = 1 /\ \A k \in 1..N : way[k] = Onto(graph, way[k - 1], path[k])
  <2>1. 0 \in 0..N /\ \A k \in 1..N : k \in 0..N /\ k # 0
    BY <1>3
  <2> QED
    BY <1>10, <2>1
<1>12. way \in [0..N -> Nat]
  <2>1. \A k \in 0..N : way[k] \in Nat
    BY <1>7, <1>11, OntoTyped
  <2>2. way = [k \in 0..N |-> way[k]]
    BY <1>10
  <2> QED
    BY <2>1, <2>2
<1> QED
  BY <1>1, <1>11, <1>12 DEF IsWay, N

LEMMA OneWay ==
  ASSUME NEW graph \in Seq(GraphCells), NEW path, Len(path) \in Nat, NEW w, IsWay(graph, path, w)
  PROVE  Follow(graph, path) = w[Len(path)]
<1> DEFINE N == Len(path)
<1>1. PICK v : IsWay(graph, path, v) /\ Follow(graph, path) = v[N]
  BY FollowIs
<1> DEFINE T == {k \in 0..N : v[k] = w[k]}
<1>2. 0 \in T
  BY <1>1 DEF IsWay
<1>3. ASSUME NEW k \in 1..N, k - 1 \in T PROVE k \in T
  BY <1>1, <1>3 DEF IsWay
<1> HIDE DEF T
<1>4. \A k \in 0..N : k \in T
  BY <1>2, <1>3, UpTo
<1> QED
  BY <1>1, <1>4 DEF T

\* The calls under way are of different objects, so they are no more than the cells.
LEMMA CallsFit ==
  ASSUME original \in GraphsOf(MaxCells), CloneSound(made, seen, todo)
  PROVE  Len(todo) <= MaxCells
<1>1. todo \in [1..Len(todo) -> 1..MaxCells] /\ Len(todo) \in Nat /\ MaxCells \in Nat
  BY OriginalIs, CellsOK DEF CloneSound, CloneTyped
<1>2. \A k, l \in 1..Len(todo) : todo[k] = todo[l] => k = l
  BY <1>1 DEF CloneSound, CallsSound
<1>3. todo \in Injection(1..Len(todo), 1..MaxCells)
  BY <1>1, <1>2 DEF Injection, IsInjective
<1>4. \A n \in Nat : IsFiniteSet(1..n) /\ Cardinality(1..n) = n
  <2>1. ASSUME NEW n \in Nat PROVE IsFiniteSet(1..n) /\ Cardinality(1..n) = n
    <3>1. IsFiniteSet(1..n) /\ Cardinality(1..n) = IF 1 > n THEN 0 ELSE n - 1 + 1
      BY FS_Interval
    <3> QED
      BY <3>1
  <2> QED
    BY <2>1
<1>5. Cardinality(1..Len(todo)) <= Cardinality(1..MaxCells)
  BY <1>1, <1>3, <1>4, FS_Injection
<1> QED
  BY <1>1, <1>4, <1>5

\* What is refused is at the end of the path that the calls under way are on.
LEMMA RefusedIsThere ==
  ASSUME CloneInv, NEW v \in DOMAIN original, Due(v), original[v].kind = "other"
  PROVE  Refusable
<1> DEFINE N == Len(todo)
           p == [k \in 1..N |-> Len(SlotsOf(made, seen, todo[k])) + 1]
           w == [k \in 0..N |-> IF k = N THEN v ELSE todo[k + 1]]
<1>1. original \in GraphsOf(MaxCells) /\ CloneSound(made, seen, todo)
  BY DueIs
<1>2. /\ todo \in Seq(DOMAIN original) /\ made \in Seq(GraphCells) /\ N \in Nat /\ N <= MaxCells
      /\ DOMAIN original = 1..MaxCells /\ MaxCells \in Nat /\ MaxSlots \in Nat
  BY <1>1, CallsFit, OriginalIs, CellsOK DEF CloneSound, CloneTyped
<1>3. DOMAIN todo = 1..N /\ (todo = <<>> <=> N = 0)
  BY <1>2
<1>4. original \in Seq(GraphCells) /\ Len(original) = MaxCells
  BY <1>1, <1>2, OriginalIs, MapsAreSeqs DEF GraphsOf
<1> HIDE DEF N
<1>5. w[0] = 1
  <2>1. CASE N = 0
    <3>1. v = 1
      BY <1>3, <2>1, DueIs
    <3> QED
      BY <2>1, <3>1
  <2>2. CASE N # 0
    <3>1. todo[1] = 1
      BY <1>1, <1>3, <2>2 DEF CloneSound, CallsSound
    <3> QED
      BY <1>2, <2>2, <3>1
  <2> QED
    BY <2>1, <2>2
<1>6. ASSUME NEW k \in 1..N
      PROVE  w[k - 1] = todo[k] /\ Awaits(made, seen, todo[k], w[k])
  <2>1. k - 1 \in 0..N /\ k - 1 # N /\ k - 1 + 1 = k /\ k \in 0..N
    BY <1>2
  <2>2. w[k - 1] = todo[k]
    BY <2>1
  <2>3. CASE k = N
    <3>1. w[k] = v /\ Last(todo) = todo[k] /\ todo # <<>>
      <4>1. w[k] = v /\ N # 0
        BY <1>2, <2>1, <2>3
      <4>2. Last(todo) = todo[k]
        BY <2>3 DEF Last, N
      <4> QED
        BY <1>3, <4>1, <4>2
    <3> QED
      BY <2>2, <3>1, DueIs
  <2>4. CASE k # N
    <3>1. w[k] = todo[k + 1] /\ k < N /\ k \in DOMAIN todo
      BY <1>2, <1>3, <2>1, <2>4
    <3>2. Awaits(made, seen, todo[k], todo[k + 1])
      BY <1>1, <3>1 DEF CloneSound, CallsSound, N
    <3> QED
      BY <2>2, <3>1, <3>2
  <2> QED
    BY <2>3, <2>4
<1>7. w \in [0..N -> Nat]
  <2>1. ASSUME NEW k \in 0..N PROVE w[k] \in Nat
    <3>1. CASE k = N
      BY <1>2, <3>1
    <3>2. CASE k # N
      <4>1. k + 1 \in DOMAIN todo
        BY <1>2, <1>3, <3>2
      <4>2. todo[k + 1] \in Nat
        BY <1>2, <4>1
      <4> QED
        BY <3>2, <4>2
    <3> QED
      BY <3>1, <3>2
  <2> QED
    BY <2>1
<1>8. ASSUME NEW k \in 1..N
      PROVE  p[k] \in 1..MaxSlots /\ w[k] = Onto(original, w[k - 1], p[k])
  <2> DEFINE u == todo[k]
             l == Len(SlotsOf(made, seen, u))
  <2>1. u \in DOMAIN original /\ seen[u] # 0
    BY <1>1, <1>2, <1>3 DEF CloneSound, CallsSound
  <2>2. l \in Nat
    <3>1. made[seen[u]] \in GraphCells
      BY <1>1, <1>2, <2>1 DEF CloneSound, CopiesSound
    <3> QED
      BY <3>1 DEF GraphCells, SlotsOf
  <2>3. original[u].slots \in Seq(Nat) /\ Len(original[u].slots) <= MaxSlots
    BY <1>1, <2>1, OriginalIs DEF GraphCells
  <2>4. w[k - 1] = u /\ l < Len(original[u].slots) /\ original[u].slots[l + 1] = w[k]
    BY <1>6 DEF Awaits
  <2>5. p[k] = l + 1
    OBVIOUS
  <2> HIDE DEF p, w, u, l
  <2>6. l + 1 \in DOMAIN original[u].slots /\ l + 1 \in 1..MaxSlots
    BY <1>2, <2>2, <2>3, <2>4
  <2> QED
    BY <2>1, <2>4, <2>5, <2>6 DEF Onto
<1>9. p \in [1..N -> 1..MaxSlots] /\ Len(p) = N
  <2>1. p \in [1..N -> 1..MaxSlots]
    BY <1>8
  <2> HIDE DEF p
  <2> QED
    BY <1>2, <2>1, MapsAreSeqs
<1>10. w[N] = v
  BY <1>2
<1> HIDE DEF p, w
<1>11. IsWay(original, p, w)
  BY <1>5, <1>7, <1>8, <1>9 DEF IsWay
<1>12. Follow(original, p) = v
  BY <1>2, <1>4, <1>9, <1>10, <1>11, OneWay
<1>13. Exists(original, p) /\ KindAt(original, p) = "other"
  BY <1>2, <1>4, <1>12 DEF Exists, KindAt
<1>14. p \in BoundedSeq(1..MaxSlots, MaxCells)
  <2>1. N \in 0..MaxCells
    BY <1>2
  <2>2. p \in UNION {[1..m -> 1..MaxSlots] : m \in 0..MaxCells}
    BY <1>9, <2>1
  <2> QED
    BY <2>2 DEF BoundedSeq, SeqOf
<1> QED
  BY <1>13, <1>14 DEF Refusable

LEMMA RefuseKeeps ==
  ASSUME CloneInv, Refuse
  PROVE  CloneInv'
<1>1. PICK v \in DOMAIN original : Due(v) /\ original[v].kind = "other"
  BY DEF Refuse
<1>2. outcome' = "refused" /\ UNCHANGED original
  BY DEF Refuse
<1>3. Refusable
  BY <1>1, RefusedIsThere
<1>4. Refusable'
  BY <1>2, <1>3 DEF Refusable
<1>5. original \in GraphsOf(MaxCells)
  BY <1>1, DueIs
<1> QED
  BY <1>2, <1>4, <1>5 DEF CloneInv, GraphsOf

\* Both paths have ended, or lead to a cell and to its copy.
Joint(v, x) ==
  Matches(made, seen, v, x) \/ (v = Len(original) + 1 /\ x = Len(made) + 1)

Cloned == outcome = "cloned" /\ CloneInv

LEMMA ClonedIs ==
  ASSUME Cloned
  PROVE  /\ original \in GraphsOf(MaxCells) /\ CloneSound(made, seen, todo) /\ todo = <<>>
         /\ original \in Seq(GraphCells) /\ made \in Seq(GraphCells) /\ Matches(made, seen, 1, 1)
         /\ DOMAIN original = 1..Len(original) /\ Len(original) \in Nat
         /\ DOMAIN made = 1..Len(made) /\ Len(made) \in Nat
<1>1. original \in GraphsOf(MaxCells) /\ CloneSound(made, seen, todo) /\ todo = <<>> /\ made # <<>>
  BY DEF Cloned, CloneInv
<1>2. made \in Seq(GraphCells) /\ Matches(made, seen, 1, 1)
  BY <1>1 DEF CloneSound, CloneTyped
<1>3. MaxCells \in Nat /\ original \in [1..MaxCells -> GraphCells]
  BY <1>1, OriginalIs, CellsOK DEF GraphsOf
<1>4. original \in Seq(GraphCells)
  BY <1>3, MapsAreSeqs
<1> QED
  BY <1>1, <1>2, <1>4

LEMMA JointOnto ==
  ASSUME Cloned, NEW v, NEW x, Joint(v, x), NEW i
  PROVE  Joint(Onto(original, v, i), Onto(made, x, i))
<1>1. /\ original \in GraphsOf(MaxCells) /\ CloneSound(made, seen, todo) /\ todo = <<>>
      /\ DOMAIN original = 1..Len(original) /\ Len(original) \in Nat
      /\ DOMAIN made = 1..Len(made) /\ Len(made) \in Nat
  BY ClonedIs
<1>2. ASSUME v \notin DOMAIN original \/ i \notin DOMAIN original[v].slots,
             x \notin DOMAIN made \/ i \notin DOMAIN made[x].slots
      PROVE  Joint(Onto(original, v, i), Onto(made, x, i))
  BY <1>2 DEF Onto, Joint
<1>3. CASE v = Len(original) + 1 /\ x = Len(made) + 1
  <2>1. v \notin DOMAIN original /\ x \notin DOMAIN made
    BY <1>1, <1>3
  <2> QED
    BY <1>2, <2>1
<1>4. CASE v = 0 /\ x = 0
  <2>1. v \notin DOMAIN original /\ x \notin DOMAIN made
    BY <1>1, <1>4
  <2> QED
    BY <1>2, <2>1
<1>5. CASE v \in DOMAIN original /\ original[v].kind = "buffer" /\ made[x].slots = <<>>
  <2>1. original[v].slots = <<>>
    BY <1>1, <1>5, OriginalIs
  <2>2. i \notin DOMAIN original[v].slots /\ i \notin DOMAIN made[x].slots
    BY <1>5, <2>1
  <2> QED
    BY <1>2, <2>2
<1>6. CASE v \in DOMAIN original /\ x \in DOMAIN made /\ original[v].kind = "object" /\ seen[v] = x
  <2>1. x # 0 /\ SlotsOf(made, seen, v) = made[x].slots
    BY <1>1, <1>6 DEF SlotsOf
  <2>2. Len(made[x].slots) = Len(original[v].slots)
    <3>1. v \notin ToSet(todo)
      BY <1>1 DEF ToSet
    <3> QED
      BY <1>1, <1>6, <2>1, <3>1 DEF CloneSound, CopiesFull
  <2>3. made[x].slots \in Seq(Nat) /\ original[v].slots \in Seq(Nat)
    <3>1. made[x] \in GraphCells /\ original[v] \in GraphCells
      BY <1>6, ClonedIs
    <3> QED
      BY <3>1 DEF GraphCells
  <2>4. DOMAIN made[x].slots = DOMAIN original[v].slots
    BY <2>2, <2>3
  <2>5. CASE i \in DOMAIN made[x].slots
    <3>1. Matches(made, seen, original[v].slots[i], made[x].slots[i])
      BY <1>1, <1>6, <2>1, <2>5 DEF CloneSound, CopiesSound
    <3> QED
      BY <1>6, <2>4, <2>5, <3>1 DEF Onto, Joint
  <2>6. CASE i \notin DOMAIN made[x].slots
    BY <1>2, <2>4, <2>6
  <2> QED
    BY <2>5, <2>6
<1> QED
  BY <1>3, <1>4, <1>5, <1>6 DEF Joint, Matches

LEMMA JointFollow ==
  ASSUME Cloned, NEW path, Len(path) \in Nat
  PROVE  Joint(Follow(original, path), Follow(made, path))
<1> DEFINE N == Len(path)
<1>1. original \in Seq(GraphCells) /\ made \in Seq(GraphCells) /\ Matches(made, seen, 1, 1)
  BY ClonedIs
<1>2. PICK w : IsWay(original, path, w) /\ Follow(original, path) = w[N]
  BY <1>1, FollowIs
<1>3. PICK y : IsWay(made, path, y) /\ Follow(made, path) = y[N]
  BY <1>1, FollowIs
<1> DEFINE T == {k \in 0..N : Joint(w[k], y[k])}
<1>4. 0 \in T
  BY <1>1, <1>2, <1>3 DEF IsWay, Joint
<1>5. ASSUME NEW k \in 1..N, k - 1 \in T PROVE k \in T
  <2>1. Joint(w[k - 1], y[k - 1])
    BY <1>5
  <2>2. w[k] = Onto(original, w[k - 1], path[k]) /\ y[k] = Onto(made, y[k - 1], path[k])
    BY <1>2, <1>3 DEF IsWay
  <2>3. Joint(w[k], y[k])
    BY <2>1, <2>2, JointOnto
  <2> QED
    BY <2>3
<1> HIDE DEF T
<1>6. \A k \in 0..N : k \in T
  BY <1>4, <1>5, UpTo
<1> QED
  BY <1>2, <1>3, <1>6 DEF T

LEMMA JointMeans ==
  ASSUME Cloned, NEW p, NEW q, Len(p) \in Nat, Len(q) \in Nat
  PROVE  /\ Exists(original, p) = Exists(made, p)
         /\ Exists(original, p) =>
              KindAt(original, p) = KindAt(made, p) /\ KindAt(original, p) # "other"
         /\ Exists(original, p) /\ KindAt(original, p) = "object" =>
              (Follow(original, p) = Follow(original, q)) = (Follow(made, p) = Follow(made, q))
<1> DEFINE v == Follow(original, p)
           x == Follow(made, p)
           w == Follow(original, q)
           y == Follow(made, q)
<1>1. Joint(v, x) /\ Joint(w, y)
  BY JointFollow
<1>2. /\ Exists(original, p) \in BOOLEAN /\ (Exists(original, p) <=> v \in 0..Len(original))
      /\ Exists(made, p) \in BOOLEAN /\ (Exists(made, p) <=> x \in 0..Len(made))
  BY DEF Exists
<1>3. /\ KindAt(original, p) = IF v = 0 THEN "primitive" ELSE original[v].kind
      /\ KindAt(made, p) = IF x = 0 THEN "primitive" ELSE made[x].kind
  BY DEF KindAt
<1> HIDE DEF v, x, w, y
<1>4. /\ DOMAIN original = 1..Len(original) /\ Len(original) \in Nat /\ CloneSound(made, seen, todo)
      /\ DOMAIN made = 1..Len(made) /\ Len(made) \in Nat
  BY ClonedIs
<1>5. CASE v = Len(original) + 1 /\ x = Len(made) + 1
  <2>1. v \notin 0..Len(original) /\ x \notin 0..Len(made)
    BY <1>4, <1>5
  <2>2. ~ Exists(original, p) /\ ~ Exists(made, p)
    BY <1>2, <2>1
  <2> QED
    BY <1>2, <2>2
<1>6. CASE v = 0 /\ x = 0
  <2>1. v \in 0..Len(original) /\ x \in 0..Len(made)
    BY <1>4, <1>6
  <2> QED
    BY <1>2, <1>3, <1>6, <2>1
<1>7. CASE /\ v \in DOMAIN original /\ x \in DOMAIN made /\ made[x].kind = original[v].kind
           /\ original[v].kind = "buffer" \/ (original[v].kind = "object" /\ seen[v] = x)
  <2>1. v \in 0..Len(original) /\ x \in 0..Len(made) /\ v # 0 /\ x # 0
    BY <1>4, <1>7
  <2>2. ASSUME original[v].kind = "object" PROVE (v = w) = (x = y)
    <3>1. seen[v] = x /\ v # Len(original) + 1 /\ x # Len(made) + 1
      BY <1>4, <1>7, <2>2
    <3>2. ASSUME v = w PROVE x = y
      <4>1. Matches(made, seen, v, y)
        BY <1>1, <3>1, <3>2 DEF Joint
      <4> QED
        BY <2>1, <2>2, <3>1, <4>1 DEF Matches
    <3>3. ASSUME x = y PROVE v = w
      <4>1. Matches(made, seen, w, x)
        BY <1>1, <3>1, <3>3 DEF Joint
      <4>2. w \in DOMAIN original /\ seen[w] = x
        BY <1>7, <2>1, <2>2, <4>1 DEF Matches
      <4> QED
        BY <1>4, <1>7, <2>1, <3>1, <4>2 DEF CloneSound, CopiesSound
    <3> QED
      BY <3>2, <3>3
  <2>3. KindAt(original, p) = original[v].kind /\ KindAt(made, p) = original[v].kind
    BY <1>3, <1>7, <2>1
  <2>4. original[v].kind # "other"
    BY <1>7
  <2> QED
    BY <1>2, <2>1, <2>2, <2>3, <2>4 DEF v, x, w, y
<1> QED
  BY <1>1, <1>5, <1>6, <1>7 DEF Joint, Matches

LEMMA CloneInvMeans ==
  ASSUME CloneInv
  PROVE  ClonesAreFaithful
<1> DEFINE paths == BoundedSeq(1..MaxSlots, MaxCells)
           whole == ~ \E p \in paths : Exists(original, p) /\ KindAt(original, p) = "other"
<1>1. CASE outcome = "refused"
  <2>1. ~ whole
    BY <1>1 DEF CloneInv, Refusable
  <2> QED
    BY <1>1, <2>1 DEF ClonesAreFaithful
<1>2. CASE outcome = "cloned"
  <2>1. Cloned
    BY <1>2 DEF Cloned
  <2>2. \A p \in paths : Len(p) \in Nat
    <3>1. MaxCells \in Nat
      BY CellsOK
    <3>2. ASSUME NEW p \in paths PROVE Len(p) \in Nat
      <4>1. PICK n \in 0..MaxCells : p \in [1..n -> 1..MaxSlots]
        BY DEF BoundedSeq, SeqOf
      <4> QED
        BY <3>1, <4>1, MapsAreSeqs
    <3> QED
      BY <3>2
  <2> HIDE DEF paths
  <2>3. whole
    BY <2>1, <2>2, JointMeans
  <2>4. Isomorphic(original, made, paths)
    BY <2>1, <2>2, JointMeans DEF Isomorphic
  <2> QED
    BY <1>2, <2>3, <2>4 DEF ClonesAreFaithful, paths
<1>3. CASE outcome \notin {"cloned", "refused"}
  BY <1>3 DEF ClonesAreFaithful
<1> QED
  BY <1>1, <1>2, <1>3

LEMMA CloneStepKeeps ==
  ASSUME CloneInv, [CloneNext]_cloneVars
  PROVE  CloneInv'
<1>1. CASE StartClone
  BY <1>1, StartKeeps
<1>2. CASE ClonePrimitive
  BY <1>2, PrimitiveKeeps
<1>3. CASE CloneSeen
  BY <1>3, SeenKeeps
<1>4. CASE CloneBuffer
  BY <1>4, BufferKeeps
<1>5. CASE EnterObject
  BY <1>5, EnterKeeps
<1>6. CASE LeaveObject
  BY <1>6, LeaveKeeps
<1>7. CASE Refuse
  BY <1>7, RefuseKeeps
<1>8. CASE UNCHANGED cloneVars
  <2>1. UNCHANGED original /\ UNCHANGED made /\ UNCHANGED seen /\ UNCHANGED todo /\ UNCHANGED outcome
    BY <1>8 DEF cloneVars
  <2>2. outcome \in {"cloning", "cloned"} => CloneSound(made, seen, todo)'
    BY <2>1, SameOriginal DEF CloneInv
  <2>3. outcome = "refused" => Refusable'
    BY <2>1 DEF CloneInv, Refusable
  <2> QED
    BY <2>1, <2>2, <2>3 DEF CloneInv, GraphsOf
<1> QED
  BY <1>1, <1>2, <1>3, <1>4, <1>5, <1>6, <1>7, <1>8 DEF CloneNext

\* structuredClone's copy is the value over again, however its objects are shared and
\* whatever cycles they are in, and a value is refused just when something that cannot
\* be cloned can be reached in it (deep_clone_json).
THEOREM ClonesFaithful == CloneSpec => []ClonesAreFaithful
<1>1. CloneInit => CloneInv
  BY DEF CloneInit, CloneInv
<1>2. CloneInv /\ [CloneNext]_cloneVars => CloneInv'
  BY CloneStepKeeps
<1>3. CloneInv => ClonesAreFaithful
  BY CloneInvMeans
<1> QED
  BY <1>1, <1>2, <1>3, PTL DEF CloneSpec
==============================================================================
