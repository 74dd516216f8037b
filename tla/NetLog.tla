------------------------------- MODULE NetLog -------------------------------
(***************************************************************************)
(* The network log of a session (crates/se-net/src/lib.rs, NetLog) and the *)
(* verbs that read and empty it (network_log and session_reset in          *)
(* crates/se-serve/src/lib.rs).                                            *)
(*                                                                         *)
(* record() takes its number from an atomic counter BEFORE it takes the    *)
(* lock of the ring, and network_log with `clear' takes the lock twice,    *)
(* once to copy the ring and once to empty it.  Every critical section is  *)
(* one action.  An entry is its number; what it says of the hop is left    *)
(* out.  HttpClient is who records: names differ, so that a module may     *)
(* extend both.                                                            *)
(***************************************************************************)
EXTENDS Naturals, Sequences, Functions

CONSTANTS
  Recorders,   \* handlers and page scripts that record a completed hop
  Readers,     \* clients that send network_log or session_reset
  Cap,         \* NET_LOG_CAP (256 in the code)
  MaxHops,     \* BOUND: hops recorded in one behaviour
  Nothing

ASSUME CapOK == Cap \in Nat \ {0}
ASSUME MaxHopsOK == MaxHops \in Nat
ASSUME NothingOK == Nothing \notin Nat /\ Nothing \notin Seq(Nat)

VARIABLES
  next,      \* next_seq
  ring,      \* the entries, oldest first
  number,    \* the number a recorder has taken and not pushed yet
  response,  \* what a draining reader has copied and not yet emptied
  arrived,   \* history: every entry pushed since the log was last emptied
  lost       \* history: entries a drain removed without reporting them

logVars == <<next, ring, number, response, arrived, lost>>

LogInit ==
  /\ next = 0
  /\ ring = << >>
  /\ number = [c \in Recorders |-> Nothing]
  /\ response = [r \in Readers |-> Nothing]
  /\ arrived = << >>
  /\ lost = {}

-----------------------------------------------------------------------------
(* record() *)

\* next_seq.fetch_add(1), outside the lock.
TakeNumber(c) ==
  /\ number[c] = Nothing
  /\ next < MaxHops
  /\ number' = [number EXCEPT ![c] = next]
  /\ next' = next + 1
  /\ UNCHANGED <<ring, response, arrived, lost>>

\* MUTANT: the oldest entry is dropped one push too late.
PushedLate(e) == Append(IF Len(ring) > Cap THEN Tail(ring) ELSE ring, e)

\* A full ring gives up its oldest entry.
Pushed(e) == Append(IF Len(ring) >= Cap THEN Tail(ring) ELSE ring, e)

\* Under the lock of the ring.
Push(c) ==
  /\ number[c] # Nothing
  /\ ring' = Pushed(number[c])
  /\ arrived' = Append(arrived, number[c])
  /\ number' = [number EXCEPT ![c] = Nothing]
  /\ UNCHANGED <<next, response, lost>>

-----------------------------------------------------------------------------
(* network_log with clear, and session_reset *)

\* The response is built from a copy of the ring (without `clear' the verb
\* ends here, and has changed nothing).
Snapshot(r) ==
  /\ response[r] = Nothing
  /\ response' = [response EXCEPT ![r] = ring]
  /\ UNCHANGED <<next, ring, number, arrived, lost>>

\* The ring is emptied and the response leaves.
Drain(r) ==
  /\ response[r] # Nothing
  /\ ring' = << >>
  /\ arrived' = << >>
  /\ lost' = lost \cup (Range(ring) \ Range(response[r]))
  /\ response' = [response EXCEPT ![r] = Nothing]
  /\ UNCHANGED <<next, number>>

\* MUTANT: a reset starts the numbering again.
ResetRestartsNumbers(r) ==
  /\ response[r] = Nothing
  /\ ring' = << >>
  /\ arrived' = << >>
  /\ next' = 0
  /\ UNCHANGED <<number, response, lost>>

\* session_reset empties the log; the numbering goes on.
Reset(r) ==
  /\ response[r] = Nothing
  /\ ring' = << >>
  /\ arrived' = << >>
  /\ UNCHANGED <<next, number, response, lost>>

-----------------------------------------------------------------------------
LogNext ==
  \/ \E c \in Recorders : TakeNumber(c) \/ Push(c)
  \/ \E r \in Readers : Snapshot(r) \/ Drain(r) \/ Reset(r)

LogSpec == LogInit /\ [][LogNext]_logVars

-----------------------------------------------------------------------------
(* Properties *)

LogTypeOK ==
  /\ next \in 0..MaxHops
  /\ ring \in Seq(0..MaxHops)
  /\ number \in [Recorders -> (0..MaxHops) \cup {Nothing}]
  /\ response \in [Readers -> Seq(0..MaxHops) \cup {Nothing}]
  /\ arrived \in Seq(0..MaxHops)
  /\ lost \subseteq 0..MaxHops

\* The ring holds the latest entries to arrive since it was last emptied, in
\* the order they arrived, all of them up to Cap: the log never grows past its
\* bound and never drops an entry it still has room for.
RingIsLatest ==
  /\ Len(ring) = IF Len(arrived) <= Cap THEN Len(arrived) ELSE Cap
  /\ \A k \in 1..Len(ring) : ring[k] = arrived[Len(arrived) - Len(ring) + k]

\* "concurrent recorders never collide": no number is in the ring twice, or in
\* the ring and with a recorder, or with two recorders, across any resets.
NumbersAreUnique ==
  /\ \A j, k \in DOMAIN ring : j # k => ring[j] # ring[k]
  /\ \A c \in Recorders : number[c] # Nothing => number[c] \notin Range(ring)
  /\ \A c, d \in Recorders : c # d /\ number[c] # Nothing => number[c] # number[d]

\* "drains in one round trip - the response carries the entries that were
\* present, then empties the ring": a drain reports what it removes.
DrainReportsWhatItRemoves == lost = {}

=============================================================================
