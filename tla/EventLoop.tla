----------------------------- MODULE EventLoop -----------------------------
(***************************************************************************)
(* One evaluation of page script: the macrotask queue every deferred       *)
(* answer of the bridge rides on, the observer queues, and the pump that   *)
(* drains them until the evaluation settles (src/crates/se-js/src/bridge.rs *)
(* timers, observers, postTask, and settle).                               *)
(*                                                                         *)
(* Script is opaque: while any script runs it may make any of the calls    *)
(* below, at most MaxCalls of them.  A script task or callback ends.       *)
(***************************************************************************)
EXTENDS Integers, Sequences, FiniteSets, SequencesExt

CONSTANTS
  Watchers,     \* IntersectionObserver and ResizeObserver instances of the page
  Observers,    \* its MutationObserver instances
  Nodes,        \* elements it observes and mutates
  Root,         \* the element the others are in
  Setups,       \* what the page observes when the run begins
  Delays,       \* delays it passes to setTimeout and setInterval
  Frame,        \* the delay of requestAnimationFrame
  Budget,       \* how long the pump may run
  MaxCalls,     \* calls of the script into the bridge (a bound of the model)
  MaxClock,     \* the clock stops here (a bound of the model)
  GuessesIds    \* TRUE if the page clears timer ids it was never given

ASSUME ClockOutlastsBudget == Budget \in Nat /\ MaxClock \in Nat /\ Budget < MaxClock

ASSUME TimesAreNatural == Delays \subseteq Nat /\ Frame \in Nat /\ MaxCalls \in Nat

ASSUME SetupsAreTargets == Setups \subseteq Seq(Observers \X Nodes \X BOOLEAN)

VARIABLES
  now,          \* the monotonic clock
  timers,       \* State::timers, in the order they were pushed
  nextId,       \* State::next_timer_id
  cancelled,    \* State::cancelled
  queue,        \* State::observer_queue: notifications not yet delivered
  targets,      \* State::mutation_targets: what MutationObservers watch
  records,      \* State::mutation_records: records not yet delivered
  scheduled,    \* State::observer_flush_scheduled
  promise,      \* the completion value: "none", "pending" or "settled"
  running,      \* whose turn it is: see Script below
  batch,        \* the due timers fire_due_timers took out; the first is firing
  groups,       \* what cb_observer_flush took out; the first is being delivered
  handed,       \* ids page script was given
  asked,        \* timers of the requests that await their answer
  fate,         \* what became of each mutation record made
  calls         \* calls made so far

vars == << now, timers, nextId, cancelled, queue, targets, records, scheduled,
           promise, running, batch, groups, handed, asked, fate, calls >>

clockVars == << now, promise >>
observerVars == << queue, targets, records, fate >>
pumpVars == << running, batch, groups >>
queueVars == << timers, nextId, scheduled >>
idVars == << cancelled, handed, asked >>

Jobs == {"page", "answer", "flush"}

TypeOK ==
  /\ now \in 0..MaxClock
  /\ timers \in Seq([id : Nat, due : Nat, every : Nat \cup {-1}, job : Jobs])
  /\ batch \in Seq([id : Nat, due : Nat, every : Nat \cup {-1}, job : Jobs])
  /\ nextId \in Nat /\ cancelled \subseteq Nat /\ handed \subseteq Nat
  /\ queue \in Seq(Watchers \X Nodes)
  /\ targets \in Seq(Observers \X Nodes \X BOOLEAN)
  /\ records \in Seq([to : Observers, nr : DOMAIN fate])
  /\ fate \in Seq({"queued", "delivering", "delivered", "taken", "dropped"})
  /\ scheduled \in BOOLEAN
  /\ promise \in {"none", "pending", "settled"}
  /\ running \in {"script", "pump", "firing", "callback", "flushing",
                 "observing", "done"}
  /\ calls \in 0..MaxCalls

Init ==
  /\ now = 0 /\ timers = <<>> /\ nextId = 1 /\ cancelled = {}
  /\ queue = <<>> /\ targets \in Setups /\ records = <<>> /\ scheduled = FALSE
  /\ promise \in {"none", "pending"}
  /\ running = "script" /\ batch = <<>> /\ groups = <<>>
  /\ handed = {} /\ asked = {} /\ fate = <<>> /\ calls = 0

---------------------------------------------------------------------------
(* Calls of the script.                                                     *)

\* Page code is on the stack: the script itself, a timer's callback, or an
\* observer's callback inside the flush.  The microtasks each leaves are part of it.
Script == running \in {"script", "callback", "observing"}

Calls == Script /\ calls < MaxCalls /\ calls' = calls + 1

\* The places in a set of them, first to last, and what a sequence has there.
InOrder(places) ==
  [k \in 1..Cardinality(places) |->
     CHOOSE i \in places : Cardinality({j \in places : j < i}) = k - 1]

Pick(s, places) == [k \in DOMAIN InOrder(places) |-> s[InOrder(places)[k]]]

Only(s, those) == Pick(s, {i \in DOMAIN s : s[i] \in those})

Without(s, gone) == Only(s, ToSet(s) \ gone)

DueBy(time) == {t \in ToSet(timers) : t.due <= time}

Timer(id, delay, every, job) == [id |-> id, due |-> now + delay, every |-> every, job |-> job]

Push(delay, every, job) ==
  /\ timers' = Append(timers, Timer(nextId, delay, every, job))
  /\ nextId' = nextId + 1

\* setTimeout, setInterval and requestAnimationFrame share the queue and the ids.
ScheduleTimer ==
  /\ Calls
  /\ \/ \E d \in Delays, repeat \in BOOLEAN : Push(d, IF repeat THEN d ELSE -1, "page")
     \/ Push(Frame, -1, "page")
  /\ handed' = handed \cup {nextId}
  /\ UNCHANGED << clockVars, observerVars, pumpVars, scheduled, cancelled, asked >>

\* A request the bridge answers later, by a 0 ms timer whose id the page does not
\* see (schedule_call_timer).
Answer == Push(0, -1, "answer") /\ asked' = asked \cup {nextId}

\* indexedDB.open and deleteDatabase: the answer is an error event.
AskDatabase == Answer

\* getCurrentPosition and watchPosition, with a callback for errors: the answer is
\* a refusal.  Without one there is none.
AskPosition == Answer

\* scheduler.postTask: the answer is the task itself.
PostTask == Answer

Ask ==
  /\ Calls
  /\ AskDatabase \/ AskPosition \/ PostTask
  /\ UNCHANGED << clockVars, observerVars, pumpVars, scheduled, cancelled, handed >>

\* clearTimeout, clearInterval and cancelAnimationFrame: any number will do.
ClearTimer ==
  /\ Calls
  /\ \E id \in IF GuessesIds THEN 1..nextId ELSE handed :
       /\ timers' = Without(timers, {t \in ToSet(timers) : t.id = id})
       /\ cancelled' = cancelled \cup {id}
  /\ UNCHANGED << clockVars, observerVars, pumpVars, nextId, scheduled, handed, asked >>

\* MUTANT of ScheduleFlush: what an observer's callback changes waits for the next.
ScheduleFlushOutside ==
  IF scheduled \/ running = "observing"
  THEN UNCHANGED << timers, nextId, scheduled >>
  ELSE Push(0, -1, "flush") /\ scheduled' = TRUE

\* One 0 ms timer drains both observer queues, however many calls want it.
ScheduleFlush ==
  IF scheduled THEN UNCHANGED << queueVars >>
               ELSE Push(0, -1, "flush") /\ scheduled' = TRUE

\* IntersectionObserver and ResizeObserver: observing notifies once.
Observe ==
  /\ Calls
  /\ \E w \in Watchers, n \in Nodes : queue' = Append(queue, <<w, n>>)
  /\ ScheduleFlush
  /\ UNCHANGED << clockVars, pumpVars, idVars, targets, records, fate >>

\* unobserve of one node, or disconnect for all of them.
Unobserve ==
  /\ Calls
  /\ \E w \in Watchers, ns \in {Nodes} \cup {{n} : n \in Nodes} :
       queue' = Without(queue, {w} \X ns)
  /\ UNCHANGED << clockVars, pumpVars, queueVars, idVars, targets, records, fate >>

\* takeRecords of such an observer: its notifications are in script's hands.
TakeNotifications ==
  /\ Calls
  /\ \E w \in Watchers : queue' = Without(queue, {w} \X Nodes)
  /\ UNCHANGED << clockVars, pumpVars, queueVars, idVars, targets, records, fate >>

MutationObserve ==
  /\ Calls
  /\ \E o \in Observers, n \in Nodes, subtree \in BOOLEAN :
       targets' = Append(targets, <<o, n, subtree>>)
  /\ UNCHANGED << clockVars, pumpVars, queueVars, idVars, queue, records, fate >>

MutationUnobserve ==
  /\ Calls
  /\ \E o \in Observers, n \in Nodes :
       targets' = Without(targets, {o} \X {n} \X BOOLEAN)
  /\ UNCHANGED << clockVars, pumpVars, queueVars, idVars, queue, records, fate >>

\* Whom a mutation of node n concerns: one record per registration that matches.
Concerned(n) ==
  Only(targets, {t \in ToSet(targets) : t[2] = n \/ (t[3] /\ t[2] = Root)})

\* A mutation choke point of the bridge, after the tree changed.
Mutate ==
  /\ Calls
  /\ \E n \in Nodes :
       LET told == Concerned(n)
           made == [i \in DOMAIN told |-> [to |-> told[i][1], nr |-> Len(fate) + i]]
       IN /\ records' = records \o made
          /\ fate' = fate \o [i \in DOMAIN told |-> "queued"]
  /\ ScheduleFlush
  /\ UNCHANGED << clockVars, pumpVars, idVars, queue, targets >>

\* Records of observer o leave the queue for the page's hands, or for none.
Collect(o, how) ==
  /\ records' = Without(records, {r \in ToSet(records) : r.to = o})
  /\ fate' = [i \in DOMAIN fate |->
                IF \E k \in DOMAIN records : records[k] = [to |-> o, nr |-> i]
                THEN how ELSE fate[i]]

\* MUTANT of TakeRecords: the records are handed out and stay queued.
TakeRecordsCopy(o) ==
  /\ fate' = [i \in DOMAIN fate |->
                IF \E k \in DOMAIN records : records[k] = [to |-> o, nr |-> i]
                THEN "taken" ELSE fate[i]]
  /\ UNCHANGED << records, targets >>

TakeRecords(o) == Collect(o, "taken") /\ UNCHANGED targets

Disconnect(o) ==
  /\ Collect(o, "dropped")
  /\ targets' = Without(targets, {o} \X Nodes \X BOOLEAN)

MutationCollect ==
  /\ Calls
  /\ \E o \in Observers : TakeRecords(o) \/ Disconnect(o)
  /\ UNCHANGED << clockVars, pumpVars, queueVars, idVars, queue >>

\* The completion value's promise resolves or rejects.
Resolve ==
  /\ Calls
  /\ promise = "pending" /\ promise' = "settled"
  /\ UNCHANGED << observerVars, pumpVars, queueVars, idVars, now >>

---------------------------------------------------------------------------
(* The pump.                                                                *)

NextDue == CHOOSE d \in {timers[i].due : i \in DOMAIN timers} :
             \A i \in DOMAIN timers : d <= timers[i].due

TaskEnds ==
  /\ running = "script" /\ running' = "pump"
  /\ UNCHANGED << clockVars, observerVars, queueVars, idVars, batch, groups, calls >>

\* MUTANT of PumpOver: the budget is not looked at.
PumpOverUnbounded == promise = "settled" \/ timers = <<>>

\* The pump gives up: the promise settled, the budget is spent, or no timer is left.
PumpOver == promise = "settled" \/ now >= Budget \/ timers = <<>>

PumpStops ==
  /\ running = "pump" /\ PumpOver /\ running' = "done"
  /\ UNCHANGED << clockVars, observerVars, queueVars, idVars, batch, groups, calls >>

\* To the nearest timer or the end of the budget, whichever is first.
Wake == IF NextDue <= now THEN now ELSE IF NextDue < Budget THEN NextDue ELSE Budget

\* Sleep, then take out, as one batch, every timer then due.
FireDueTimers ==
  /\ running = "pump" /\ ~ PumpOver
  /\ now' = Wake
  /\ batch' = Only(timers, DueBy(now'))
  /\ timers' = Without(timers, DueBy(now'))
  /\ running' = "firing"
  /\ UNCHANGED << observerVars, idVars, promise, groups, nextId, scheduled, calls >>

BatchDone ==
  /\ running = "firing" /\ batch = <<>> /\ running' = "pump"
  /\ UNCHANGED << clockVars, observerVars, queueVars, idVars, batch, groups, calls >>

FireTimer ==
  /\ running = "firing" /\ batch # <<>> /\ Head(batch).job # "flush"
  /\ running' = "callback"
  /\ asked' = asked \ {Head(batch).id}
  /\ UNCHANGED << clockVars, observerVars, queueVars, batch, groups, cancelled, handed, calls >>

\* MUTANT of CallbackEnds: an interval is queued again whatever its callback cleared.
CallbackEndsBlind ==
  /\ running = "callback" /\ running' = "firing"
  /\ batch' = Tail(batch)
  /\ LET t == Head(batch)
     IN timers' = IF t.every >= 0
                  THEN Append(timers, Timer(t.id, t.every, t.every, t.job))
                  ELSE timers
  /\ UNCHANGED << clockVars, observerVars, idVars, groups, nextId, scheduled, calls >>

\* An interval goes back in the queue unless its id was cleared.
CallbackEnds ==
  /\ running = "callback" /\ running' = "firing"
  /\ batch' = Tail(batch)
  /\ LET t == Head(batch)
     IN timers' = IF t.every >= 0 /\ t.id \notin cancelled
                  THEN Append(timers, Timer(t.id, t.every, t.every, t.job))
                  ELSE timers
  /\ UNCHANGED << clockVars, observerVars, idVars, groups, nextId, scheduled, calls >>

\* One callback for each observer, with all that is queued for it.
GroupedBy(s, who) ==
  LET firsts == InOrder({i \in DOMAIN s : \A j \in 1..(i - 1) : who[j] # who[i]})
  IN [k \in DOMAIN firsts |-> Pick(s, {i \in DOMAIN s : who[i] = who[firsts[k]]})]

Numbers(group) == {group.recs[i].nr : i \in DOMAIN group.recs}

MarkAs(group, how) == [i \in DOMAIN fate |-> IF i \in Numbers(group) THEN how ELSE fate[i]]

\* The flush starts: both queues are taken up front, the flag is down so that
\* what the callbacks queue gets a flush of its own.
FlushStarts ==
  /\ running = "firing" /\ batch # <<>> /\ Head(batch).job = "flush"
  /\ running' = "flushing"
  /\ scheduled' = FALSE
  /\ queue' = <<>> /\ records' = <<>>
  /\ LET notices == GroupedBy(queue, [i \in DOMAIN queue |-> queue[i][1]])
         changes == GroupedBy(records, [i \in DOMAIN records |-> records[i].to])
     IN groups' = [k \in DOMAIN notices |-> [to |-> notices[k][1][1], recs |-> <<>>, live |-> TRUE]]
                  \o [k \in DOMAIN changes |->
                        [to |-> changes[k][1].to, recs |-> changes[k], live |-> FALSE]]
  /\ fate' = [i \in DOMAIN fate |-> IF fate[i] = "queued" THEN "delivering" ELSE fate[i]]
  /\ UNCHANGED << clockVars, idVars, targets, batch, timers, nextId, calls >>

\* Notifications carry their callback; records go to whoever is still registered.
Delivers(group) == group.live \/ \E i \in DOMAIN targets : targets[i][1] = group.to

\* The first group's callback is called, unless its observer is gone.
DeliverGroup ==
  /\ running = "flushing" /\ groups # <<>>
  /\ groups' = Tail(groups)
  /\ \/ /\ Delivers(Head(groups))
        /\ running' = "observing"
        /\ fate' = MarkAs(Head(groups), "delivered")
     \/ /\ ~ Delivers(Head(groups))
        /\ fate' = MarkAs(Head(groups), "dropped")
        /\ UNCHANGED running
  /\ UNCHANGED << clockVars, queueVars, idVars, queue, targets, records, batch, calls >>

ObserverReturns ==
  /\ running = "observing" /\ running' = "flushing"
  /\ UNCHANGED << clockVars, observerVars, queueVars, idVars, batch, groups, calls >>

FlushEnds ==
  /\ running = "flushing" /\ groups = <<>>
  /\ running' = "firing" /\ batch' = Tail(batch)
  /\ UNCHANGED << clockVars, observerVars, queueVars, idVars, groups, calls >>

Tick ==
  /\ running # "done" /\ now < MaxClock /\ now' = now + 1
  /\ UNCHANGED << observerVars, pumpVars, queueVars, idVars, promise, calls >>

ScriptCalls ==
  \/ ScheduleTimer \/ Ask \/ ClearTimer \/ Observe \/ Unobserve \/ TakeNotifications
  \/ MutationObserve \/ MutationUnobserve \/ Mutate \/ MutationCollect \/ Resolve

PumpSteps ==
  \/ TaskEnds \/ PumpStops \/ FireDueTimers \/ BatchDone \/ FireTimer \/ CallbackEnds
  \/ FlushStarts \/ DeliverGroup \/ ObserverReturns \/ FlushEnds

Next == ScriptCalls \/ PumpSteps \/ Tick

\* Every task and callback returns, and time passes.
Spec == Init /\ [][Next]_vars /\ WF_vars(PumpSteps) /\ WF_vars(Tick)

---------------------------------------------------------------------------
(* Properties.                                                              *)

\* The timer is in the queue, or in the batch and not yet fired.
Waiting(Is(_)) ==
  \/ \E i \in DOMAIN timers : Is(timers[i])
  \/ \E i \in DOMAIN batch : Is(batch[i]) /\ (i > 1 \/ running = "firing")

\* What the bridge promised to do later is still going to be done: a queued
\* notification or record has a flush on its way, an unanswered request its
\* answer (schedule_observer_flush, make_idb_request, schedule_call_timer).
PromisedWorkIsQueued ==
  /\ queue # <<>> \/ records # <<>> => Waiting(LAMBDA t : t.job = "flush")
  /\ \A id \in asked : Waiting(LAMBDA t : t.id = id)

\* A mutation record is in one place only: queued, being delivered, or done
\* with.  None is lost by a flush, and none is seen twice: by the callback and
\* by takeRecords, or by two flushes (cb_observer_flush, cb_mo_take_records).
RecordsInOnePlace ==
  \A nr \in DOMAIN fate :
    LET Places == {<<"queue", i>> : i \in {j \in DOMAIN records : records[j].nr = nr}}
                  \cup {<<"group", i>> : i \in {j \in DOMAIN groups : nr \in Numbers(groups[j])}}
    IN Cardinality(Places) = (IF fate[nr] \in {"queued", "delivering"} THEN 1 ELSE 0)

\* A timer the page cleared is gone from the queue for good, even an interval
\* that was firing when it was cleared (cb_clear_timer, fire_due_timers).
ClearedStaysCleared == \A i \in DOMAIN timers : timers[i].id \notin cancelled

\* The pump ends whatever timers and intervals the page keeps setting (settle).
PumpEnds == <>(running = "done")
=============================================================================
