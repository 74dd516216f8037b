--------------------------- MODULE WebSocketProofs ---------------------------
(***************************************************************************)
(* Proofs about WebSocket, for every set of clients and every bound.       *)
(*                                                                         *)
(* A verb has the connection to itself, and a connection whose close frame *)
(* has been read is not pooled unless a time limit has come in the middle  *)
(* of a frame.  PoolIsSound is not inductive: a recv that goes on reading a*)
(* connection that is closed would pool it again.  There is none before    *)
(* such a time limit (NoLateRecv), because a closed connection is not      *)
(* pooled for it.                                                          *)
(*                                                                         *)
(* The two mailboxes are refined because of what is on its way (OrderInv): *)
(* as long as no time limit has come in the middle of something, the parts *)
(* in the stream are whole frames in turn, and the messages among them are *)
(* numbered on from the one that is being read or was answered last, the   *)
(* pings likewise.                                                         *)
(***************************************************************************)
EXTENDS WebSocket, SequenceTheorems, TLAPS

Op == [verb : {"none", "send", "recv", "close"},
       pc : {"idle", "write", "bye", "head", "body", "pong", "echo"},
       kind : Kinds, n : Nat, fragments : BOOLEAN]

OpsTyped == op \in [Clients -> Op]

PartsTyped == inbox \in Seq(Part) /\ unsent \in Seq(Part) /\ posted \in Nat /\ pings \in Nat

\* A receive has nothing to read on a closed connection.
NoLateRecv ==
  \A c \in Clients :
    closed /\ cut = << >> /\ op[c].verb = "recv" => op[c].pc \in {"idle", "echo"}

NewIsOpen == owner = "unborn" => ~closed

IInv == OpsTyped /\ PartsTyped /\ PoolIsSound /\ NoLateRecv /\ NewIsOpen

LEMMA Initially == Init => IInv
BY ClientsOK DEF Init, IInv, OpsTyped, PartsTyped, PoolIsSound, NoLateRecv, NewIsOpen, Op, Idle, Kinds, Part

LEMMA IdleTyped == Idle \in Op /\ Idle.pc = "idle"
BY DEF Idle, Op, Kinds

LEMMA FrameTyped ==
  ASSUME NEW kind \in Kinds, NEW n \in Nat
  PROVE Frame(kind, n) \in Seq(Part)
BY DEF Frame, Part

LEMMA PeerSendsTyped ==
  ASSUME IInv, NEW parts \in Seq(Part), PeerSends(parts),
         posted' \in Nat, pings' \in Nat, UNCHANGED <<owner, closed, inbox, op, cut>>
  PROVE IInv'
BY DEF IInv, OpsTyped, PartsTyped, PoolIsSound, NoLateRecv, NewIsOpen, PeerSends

-----------------------------------------------------------------------------
(* A verb that ends, and one that goes on *)

\* The connection ends up with nobody, or in the pool when it may be there.
LEMMA DoneSound ==
  ASSUME IInv, PartsTyped', NEW c \in Clients, op[c].pc # "idle",
         NEW where \in {"pooled", "gone"}, Done(c, where),
         where = "pooled" /\ cut' = << >> => ~closed,
         closed' = closed, cut' = << >> => cut = << >>
  PROVE IInv'
<1>1. owner = c /\ owner' = where /\ op' = [op EXCEPT ![c] = Idle]
  BY DEF IInv, PoolIsSound, Done
<1>2. OpsTyped'
  BY <1>1, IdleTyped DEF IInv, OpsTyped
<1>3. \A d \in Clients : op'[d] = IF d = c THEN Idle ELSE op[d]
  BY <1>1 DEF IInv, OpsTyped
<1>4. \A d \in Clients : op'[d].pc = "idle"
  BY <1>1, <1>3, IdleTyped DEF IInv, PoolIsSound
<1>5. PoolIsSound'
  BY <1>1, <1>4, ClientsOK DEF PoolIsSound
<1>6. NoLateRecv'
  BY <1>4 DEF NoLateRecv
<1>7. NewIsOpen'
  BY <1>1, ClientsOK DEF NewIsOpen
<1> QED BY <1>2, <1>5, <1>6, <1>7 DEF IInv

\* A verb that goes on keeps the connection.
LEMMA ContinueSound ==
  ASSUME IInv, PartsTyped', NEW c \in Clients, op[c].pc # "idle",
         NEW next \in Op, next.pc # "idle", Continue(c, next),
         cut' = cut,
         closed' /\ cut = << >> /\ next.verb = "recv" => next.pc = "echo"
  PROVE IInv'
<1>1. owner = c /\ owner' = c /\ op' = [op EXCEPT ![c] = next]
  BY DEF IInv, PoolIsSound, Continue
<1>2. OpsTyped'
  BY <1>1 DEF IInv, OpsTyped
<1>3. \A d \in Clients : op'[d] = IF d = c THEN next ELSE op[d]
  BY <1>1 DEF IInv, OpsTyped
<1>4. \A d \in Clients \ {c} : op[d].pc = "idle"
  BY <1>1 DEF IInv, PoolIsSound
<1>5. PoolIsSound'
  BY <1>1, <1>3, <1>4, ClientsOK DEF PoolIsSound
<1>6. NoLateRecv'
  BY <1>3, <1>4 DEF NoLateRecv
<1>7. NewIsOpen'
  BY <1>1, ClientsOK DEF NewIsOpen
<1> QED BY <1>2, <1>5, <1>6, <1>7 DEF IInv

-----------------------------------------------------------------------------
(* The actions *)

LEMMA PeerSteps ==
  ASSUME IInv, \/ \E whole \in BOOLEAN : PeerMessage(whole)
               \/ PeerPing \/ PeerPingInside \/ PeerCloses \/ PeerSendsPart
               \/ StreamEnds \/ Connect \/ ConnectFails
  PROVE IInv'
<1> USE DEF IInv
<1>1. ASSUME NEW whole \in BOOLEAN, PeerMessage(whole) PROVE IInv'
  <2> DEFINE parts == IF whole THEN Frame("text", posted + 1)
                      ELSE Frame("first", 0) \o Frame("cont", posted + 1)
  <2>1. posted + 1 \in Nat /\ {"text", "first", "cont"} \subseteq Kinds
    BY DEF PartsTyped, Kinds
  <2>2. parts \in Seq(Part)
    BY <2>1, FrameTyped
  <2>3. PeerSends(parts) /\ posted' \in Nat /\ pings' \in Nat
    BY <1>1, <2>1 DEF PeerMessage, PartsTyped
  <2> QED BY <1>1, <2>2, <2>3, PeerSendsTyped DEF PeerMessage
<1>2. CASE PeerPing
  <2>1. pings + 1 \in Nat /\ "ping" \in Kinds
    BY DEF PartsTyped, Kinds
  <2>2. Frame("ping", pings + 1) \in Seq(Part)
    BY <2>1, FrameTyped
  <2>3. posted' \in Nat /\ pings' \in Nat
    BY <1>2, <2>1 DEF PeerPing, PartsTyped
  <2> QED BY <1>2, <2>2, <2>3, PeerSendsTyped DEF PeerPing
<1>3. CASE PeerPingInside
  <2> DEFINE parts == Frame("first", 0) \o Frame("ping", pings + 1)
                      \o Frame("cont", posted + 1)
  <2>1. posted + 1 \in Nat /\ pings + 1 \in Nat /\ {"ping", "first", "cont"} \subseteq Kinds
    BY DEF PartsTyped, Kinds
  <2>2. /\ Frame("first", 0) \in Seq(Part) /\ Frame("ping", pings + 1) \in Seq(Part)
        /\ Frame("cont", posted + 1) \in Seq(Part)
    BY <2>1, FrameTyped
  <2>3. parts \in Seq(Part)
    BY <2>2
  <2>4. PeerSends(parts) /\ posted' \in Nat /\ pings' \in Nat
    BY <1>3, <2>1 DEF PeerPingInside
  <2> QED BY <1>3, <2>3, <2>4, PeerSendsTyped DEF PeerPingInside
<1>4. CASE PeerCloses
  <2>1. Frame("close", 0) \in Seq(Part)
    BY FrameTyped DEF Kinds
  <2>2. posted' \in Nat /\ pings' \in Nat
    BY <1>4 DEF PeerCloses, PartsTyped
  <2> QED BY <1>4, <2>1, <2>2, PeerSendsTyped DEF PeerCloses
<1>5. CASE PeerSendsPart
  <2>1. Head(unsent) \in Part /\ Tail(unsent) \in Seq(Part)
    BY <1>5 DEF PeerSendsPart, PartsTyped
  <2>2. PartsTyped'
    BY <1>5, <2>1 DEF PeerSendsPart, PartsTyped
  <2> QED BY <1>5, <2>2 DEF PeerSendsPart, OpsTyped, PoolIsSound, NoLateRecv, NewIsOpen
<1>6. CASE StreamEnds
  BY <1>6 DEF StreamEnds, OpsTyped, PartsTyped, PoolIsSound, NoLateRecv, NewIsOpen
<1>7. CASE Connect
  <2>1. owner = "unborn" /\ owner' = "pooled"
    BY <1>7 DEF Connect
  <2>2. \A c \in Clients : op[c].pc = "idle"
    BY <2>1, ClientsOK DEF PoolIsSound
  <2>3. PoolIsSound'
    BY <1>7, <2>1, <2>2, ClientsOK DEF Connect, PoolIsSound, NewIsOpen
  <2> QED BY <1>7, <2>2, <2>3 DEF Connect, OpsTyped, PartsTyped, NoLateRecv, NewIsOpen, peerVars
<1>8. CASE ConnectFails
  <2>1. owner = "unborn" /\ owner' = "gone"
    BY <1>8 DEF ConnectFails
  <2>2. \A c \in Clients : op[c].pc = "idle"
    BY <2>1, ClientsOK DEF PoolIsSound
  <2>3. PoolIsSound'
    BY <1>8, <2>1, <2>2, ClientsOK DEF ConnectFails, PoolIsSound
  <2> QED BY <1>8, <2>1, <2>2, <2>3 DEF ConnectFails, OpsTyped, PartsTyped, NoLateRecv, NewIsOpen, peerVars
<1> QED BY <1>1, <1>2, <1>3, <1>4, <1>5, <1>6, <1>7, <1>8

LEMMA TakeStep ==
  ASSUME IInv, NEW c \in Clients, NEW verb \in {"send", "recv", "close"}, Take(c, verb)
  PROVE IInv'
<1> DEFINE first == [Idle EXCEPT !.verb = verb,
                                 !.pc = CASE verb = "send" -> "write"
                                          [] verb = "recv" -> "head"
                                          [] verb = "close" -> "bye"]
<1> USE DEF IInv
<1>1. owner = "pooled" /\ owner' = c /\ op' = [op EXCEPT ![c] = first]
      /\ UNCHANGED <<closed, cut, inbox, unsent, posted, pings>>
  BY DEF Take, peerVars
<1>2. first \in Op /\ first.pc # "idle"
  BY DEF Idle, Op, Kinds
<1>3. \A d \in Clients : op'[d] = IF d = c THEN first ELSE op[d]
  BY <1>1 DEF OpsTyped
<1>4. \A d \in Clients : op[d].pc = "idle"
  BY <1>1, ClientsOK DEF PoolIsSound
<1>5. OpsTyped' /\ PartsTyped'
  BY <1>1, <1>2 DEF OpsTyped, PartsTyped
<1>6. PoolIsSound'
  <2> HIDE DEF first
  <2>1. \A d \in Clients : op'[d].pc # "idle" <=> owner' = d
    BY <1>1, <1>2, <1>3, <1>4
  <2> QED BY <1>1, <2>1, ClientsOK DEF PoolIsSound
<1>7. NoLateRecv'
  BY <1>1, <1>3, <1>4 DEF NoLateRecv, PoolIsSound
<1>8. NewIsOpen'
  BY <1>1, ClientsOK DEF NewIsOpen
<1> QED BY <1>5, <1>6, <1>7, <1>8

LEMMA InboxTail ==
  ASSUME PartsTyped, inbox # << >>, inbox' = Tail(inbox), UNCHANGED peerVars
  PROVE PartsTyped' /\ Head(inbox) \in Part
BY DEF PartsTyped, peerVars

LEMMA InboxKept ==
  ASSUME PartsTyped, UNCHANGED inbox, UNCHANGED peerVars
  PROVE PartsTyped'
BY DEF PartsTyped, peerVars

\* What next_frame returns ends a receive and lets a drain go on.
LEMMA MessageSound ==
  ASSUME IInv, PartsTyped', NEW c \in Clients, op[c].pc \in {"body", "echo"},
         NEW m, Message(c, m), cut' = cut, closed' = closed
  PROVE IInv'
<1>1. CASE op[c].verb = "recv" /\ closed
  BY <1>1, DoneSound DEF Message
<1>2. CASE op[c].verb = "recv" /\ ~closed
  BY <1>2, DoneSound DEF Message
<1>3. CASE op[c].verb # "recv"
  <2> DEFINE next == [op[c] EXCEPT !.pc = "head", !.fragments = FALSE]
  <2>1. op[c] \in Op
    BY DEF IInv, OpsTyped
  <2>2. next \in Op /\ next.pc # "idle" /\ next.verb # "recv"
    BY <1>3, <2>1 DEF Op
  <2> QED BY <1>3, <2>2, ContinueSound DEF Message
<1> QED BY <1>1, <1>2, <1>3

\* The steps that end a verb, with the connection in the pool or gone.
LEMMA EndSteps ==
  ASSUME IInv, NEW c \in Clients,
         Write(c) \/ EndOfStream(c) \/ ReadClosed(c) \/ Timeout(c) \/ Cancel(c)
  PROVE IInv'
<1>1. CASE Write(c)
  <2>1. PartsTyped'
    BY <1>1, InboxKept DEF Write, IInv
  <2>2. op[c].pc # "idle" /\ closed' = closed /\ cut' = cut
    BY <1>1 DEF Write
  <2>3. \/ ~closed /\ Done(c, "pooled")
        \/ Done(c, "gone")
    BY <1>1 DEF Write
  <2> QED BY <2>1, <2>2, <2>3, DoneSound
<1>2. CASE EndOfStream(c)
  <2>1. PartsTyped'
    BY <1>2, InboxKept DEF EndOfStream, IInv
  <2> QED BY <1>2, <2>1, DoneSound DEF EndOfStream, Fails
<1>3. CASE ReadClosed(c)
  <2>1. PartsTyped'
    BY <1>3, InboxKept DEF ReadClosed, IInv
  <2> QED BY <1>3, <2>1, DoneSound DEF ReadClosed
<1>4. CASE Timeout(c)
  <2>1. PartsTyped'
    BY <1>4, InboxKept DEF Timeout, IInv
  <2>2. op[c].pc # "idle" /\ closed' = closed
    BY <1>4 DEF Timeout, Waits
  <2>3. cut' = << >> => cut = << >>
    BY <1>4 DEF Timeout
  <2>4. cut' = << >> => ~closed
    BY <1>4 DEF Timeout, Waits
  <2>5. Done(c, "pooled") \/ Done(c, "gone")
    BY <1>4 DEF Timeout
  <2> QED BY <2>1, <2>2, <2>3, <2>4, <2>5, DoneSound
<1>5. CASE Cancel(c)
  <2>1. PartsTyped'
    BY <1>5, InboxKept DEF Cancel, IInv
  <2> QED BY <1>5, <2>1, DoneSound DEF Cancel
<1> QED BY <1>1, <1>2, <1>3, <1>4, <1>5

\* The steps of a verb that may let it go on.
LEMMA ReadSteps ==
  ASSUME IInv, NEW c \in Clients,
         Bye(c) \/ ReadHead(c) \/ ReadBody(c) \/ Pong(c) \/ Echo(c)
  PROVE IInv'
<1>1. op[c] \in Op
  BY DEF IInv, OpsTyped
<1>2. CASE Bye(c)
  <2> DEFINE next == [op[c] EXCEPT !.pc = "head"]
  <2>1. PartsTyped' /\ op[c].pc # "idle" /\ cut' = cut /\ closed' = closed
    BY <1>2, InboxKept DEF Bye, IInv
  <2>2. CASE closed
    BY <1>2, <2>1, <2>2, DoneSound DEF Bye
  <2>3. CASE ~closed
    <3>1. next \in Op /\ next.pc # "idle" /\ Continue(c, next)
      BY <1>1, <1>2, <2>3 DEF Bye, Op
    <3> QED BY <2>1, <2>3, <3>1, ContinueSound
  <2> QED BY <2>2, <2>3
<1>3. CASE ReadHead(c)
  <2> DEFINE next(kind, n) == [op[c] EXCEPT !.pc = "body", !.kind = kind, !.n = n]
  <2>1. PartsTyped' /\ Head(inbox) \in Part /\ op[c].pc # "idle" /\ ~closed
        /\ cut' = cut /\ closed' = closed
    BY <1>3, InboxTail DEF ReadHead, IInv
  <2>2. Head(inbox).kind \in Kinds /\ Head(inbox).n \in Nat /\ "text" \in Kinds
    BY <2>1 DEF Part, Kinds
  <2>3. ASSUME NEW kind \in Kinds, NEW n \in Nat, Continue(c, next(kind, n))
        PROVE IInv'
    <3>1. next(kind, n) \in Op /\ next(kind, n).pc # "idle"
      BY <1>1 DEF Op
    <3> QED BY <2>1, <2>3, <3>1, ContinueSound
  <2>4. CASE Continue(c, next(Head(inbox).kind, Head(inbox).n))
    BY <2>2, <2>3, <2>4
  <2>5. CASE Continue(c, next("text", 0))
    BY <2>2, <2>3, <2>5
  <2>6. CASE Fails(c)
    BY <2>1, <2>6, DoneSound DEF Fails
  <2> QED BY <1>3, <2>4, <2>5, <2>6 DEF ReadHead
<1>4. CASE ReadBody(c)
  <2>1. PartsTyped' /\ op[c].pc = "body" /\ cut' = cut
    BY <1>4, InboxTail DEF ReadBody, IInv
  <2>2. CASE closed' = closed /\ Message(c, op[c].n)
    BY <2>1, <2>2, MessageSound
  <2>3. ASSUME NEW next \in Op, next.pc \in {"head", "pong"}, next.verb = op[c].verb,
               Continue(c, next), closed' = closed
        PROVE IInv'
    <3>1. closed' /\ cut = << >> /\ next.verb = "recv" => next.pc = "echo"
      BY <2>1, <2>3 DEF IInv, NoLateRecv
    <3> QED BY <2>1, <2>3, <3>1, ContinueSound
  <2>4. CASE closed' = closed
             /\ Continue(c, [op[c] EXCEPT !.pc = "head", !.fragments = TRUE])
    BY <1>1, <2>3, <2>4 DEF Op
  <2>5. CASE closed' = closed /\ Continue(c, [op[c] EXCEPT !.pc = "pong"])
    BY <1>1, <2>3, <2>5 DEF Op
  <2>6. CASE Continue(c, [op[c] EXCEPT !.pc = "echo"])
    <3> DEFINE next == [op[c] EXCEPT !.pc = "echo"]
    <3>1. next \in Op /\ next.pc = "echo"
      BY <1>1 DEF Op
    <3> QED BY <2>1, <2>6, <3>1, ContinueSound
  <2> QED BY <1>4, <2>2, <2>4, <2>5, <2>6 DEF ReadBody
<1>5. CASE Pong(c)
  <2> DEFINE next == [op[c] EXCEPT !.pc = "head"]
  <2>1. PartsTyped' /\ op[c].pc = "pong" /\ cut' = cut /\ closed' = closed
    BY <1>5, InboxKept DEF Pong, IInv
  <2>2. CASE Continue(c, next)
    <3>1. next \in Op /\ next.pc # "idle" /\ next.verb = op[c].verb
      BY <1>1 DEF Op
    <3>2. ~(closed /\ cut = << >> /\ op[c].verb = "recv")
      BY <2>1 DEF IInv, NoLateRecv
    <3> QED BY <2>1, <2>2, <3>1, <3>2, ContinueSound
  <2>3. CASE Fails(c)
    BY <2>1, <2>3, DoneSound DEF Fails
  <2> QED BY <1>5, <2>2, <2>3 DEF Pong
<1>6. CASE Echo(c)
  <2>1. PartsTyped'
    BY <1>6, InboxKept DEF Echo, IInv
  <2> QED BY <1>6, <2>1, MessageSound DEF Echo
<1> QED BY <1>2, <1>3, <1>4, <1>5, <1>6

LEMMA Preserved == IInv /\ [Next]_vars => IInv'
<1> SUFFICES ASSUME IInv, [Next]_vars PROVE IInv'
  OBVIOUS
<1>1. CASE UNCHANGED vars
  BY <1>1 DEF vars, peerVars, IInv, OpsTyped, PartsTyped, PoolIsSound, NoLateRecv, NewIsOpen
<1>2. CASE Next
  BY <1>2, PeerSteps, TakeStep, EndSteps, ReadSteps DEF Next, Read
<1> QED BY <1>1, <1>2

-----------------------------------------------------------------------------
\* A verb has the connection to itself, and no verb finds one whose close frame
\* has been read (the take, run, put back of ws_send, ws_recv and ws_close),
\* unless a time limit has come in the middle of a frame.
THEOREM PoolSound == Spec => []PoolIsSound
<1>1. IInv => PoolIsSound
  BY DEF IInv
<1> QED BY Initially, Preserved, <1>1, PTL DEF Spec
-----------------------------------------------------------------------------
(* Frames on their way *)

\* Heads and bodies take turns, and the last part is a body.
Framed(s, first) ==
  /\ s = << >> => first = "head"
  /\ s # << >> => s[1].part = first /\ s[Len(s)].part = "body"
  /\ \A i \in 1..(Len(s) - 1) : s[i].part # s[i + 1].part

Marks(s, kinds) == {i \in DOMAIN s : s[i].part = "head" /\ s[i].kind \in kinds}

\* The frames of these kinds are numbered from lo to hi, in order.
Numbered(s, kinds, lo, hi) ==
  /\ lo \in Nat /\ hi \in Nat /\ lo <= hi + 1
  /\ \A i \in Marks(s, kinds) : s[i].n \in lo..hi
  /\ \A i, j \in Marks(s, kinds) : i < j => s[i].n < s[j].n
  /\ \A m \in lo..hi : \E i \in Marks(s, kinds) : s[i].n = m

MessageKinds == {"text", "cont"}

\* The client that reads has read the head of a frame of these kinds.
InFrame(kinds) == owner \in Clients /\ op[owner].pc = "body" /\ op[owner].kind \in kinds

\* ... or has read a ping and not answered it.
PingHeld == InFrame({"ping"}) \/ (owner \in Clients /\ op[owner].pc = "pong")

StreamFramed == cut = << >> /\ owner # "gone" =>
  Framed(Stream, IF InFrame(Kinds) THEN "body" ELSE "head")

\* Somebody may still get a message: nobody is closing the connection.
Listening == owner # "gone" /\ (owner \in Clients => op[owner].verb # "close")

MessagesAhead == cut = << >> /\ Listening =>
  /\ InFrame(MessageKinds) => op[owner].n = Len(got) + 1 /\ op[owner].n <= posted
  /\ Numbered(Stream, MessageKinds, Len(got) + (IF InFrame(MessageKinds) THEN 2 ELSE 1), posted)

PingsAhead == cut = << >> /\ owner # "gone" =>
  /\ PingHeld => op[owner].n = Len(outbox.pongs) + 1 /\ op[owner].n <= pings
  /\ Numbered(Stream, {"ping"}, Len(outbox.pongs) + (IF PingHeld THEN 2 ELSE 1), pings)

\* What a verb is at, it is there for.
VerbsMatch ==
  \A c \in Clients :
    /\ op[c].pc \in {"head", "body", "pong", "echo"} => op[c].verb \in {"recv", "close"}
    /\ op[c].pc = "bye" => op[c].verb = "close"
    /\ op[c].pc = "write" => op[c].verb = "send"
    /\ op[c].pc = "echo" => closed

\* What was there when a time limit came in the middle is still there.
CutFits ==
  cut # << >> => cut[1] \in 0..Len(got) /\ cut[2] \in 0..Len(outbox.pongs)

HistoriesTyped ==
  /\ got \in Seq(Nat)
  /\ outbox \in [text : Nat, close : Nat, pongs : Seq(Nat)]

OrderInv ==
  /\ HistoriesTyped /\ VerbsMatch /\ CutFits
  /\ StreamFramed /\ MessagesAhead /\ PingsAhead

-----------------------------------------------------------------------------
(* Frames that are sent and parts that are read *)

\* A sequence of parts with one more frame.
LEMMA FrameAdded ==
  ASSUME NEW s \in Seq(Part), NEW kind \in Kinds, NEW n \in Nat
  PROVE  LET t == s \o Frame(kind, n)
         IN /\ t \in Seq(Part) /\ Len(s) \in Nat /\ Len(t) = Len(s) + 2
            /\ DOMAIN s = 1..Len(s) /\ DOMAIN t = 1..(Len(s) + 2)
            /\ \A i \in 1..Len(s) : t[i] = s[i]
            /\ t[Len(s) + 1].part = "head" /\ t[Len(s) + 1].kind = kind /\ t[Len(s) + 1].n = n
            /\ t[Len(s) + 2].part = "body"
<1> DEFINE f == Frame(kind, n)
           t == s \o f
<1>1. f \in Seq(Part) /\ Len(f) = 2
  BY FrameTyped DEF Frame
<1>2. f[1].part = "head" /\ f[1].kind = kind /\ f[1].n = n /\ f[2].part = "body"
  BY DEF Frame
<1> HIDE DEF f
<1>3. /\ t \in Seq(Part) /\ Len(t) = Len(s) + Len(f)
      /\ \A i \in 1 .. Len(s) + Len(f) :
           t[i] = IF i <= Len(s) THEN s[i] ELSE f[i - Len(s)]
  BY <1>1, ConcatProperties
<1>4. Len(s) \in Nat /\ DOMAIN s = 1..Len(s) /\ DOMAIN t = 1..Len(t)
  BY <1>3, LenProperties
<1> HIDE DEF t
<1>5. \A i \in 1..(Len(s) + 2) : t[i] = IF i <= Len(s) THEN s[i] ELSE f[i - Len(s)]
  BY <1>1, <1>3
<1>6. t[Len(s) + 1] = f[1]
  <2>1. Len(s) + 1 \in 1..(Len(s) + 2) /\ ~ (Len(s) + 1 <= Len(s)) /\ (Len(s) + 1) - Len(s) = 1
    BY <1>4
  <2> QED
    BY <1>5, <2>1
<1>7. t[Len(s) + 2] = f[2]
  <2>1. Len(s) + 2 \in 1..(Len(s) + 2) /\ ~ (Len(s) + 2 <= Len(s)) /\ (Len(s) + 2) - Len(s) = 2
    BY <1>4
  <2> QED
    BY <1>5, <2>1
<1>8. \A i \in 1..Len(s) : t[i] = s[i]
  BY <1>4, <1>5
<1> QED
  BY <1>1, <1>2, <1>3, <1>4, <1>6, <1>7, <1>8 DEF t, f

LEMMA FramedAdded ==
  ASSUME NEW s \in Seq(Part), NEW first, Framed(s, first), NEW kind \in Kinds, NEW n \in Nat
  PROVE  Framed(s \o Frame(kind, n), first)
<1> DEFINE t == s \o Frame(kind, n)
           l == Len(s)
<1>1. /\ l \in Nat /\ Len(t) = l + 2 /\ t \in Seq(Part)
      /\ \A i \in 1..l : t[i] = s[i]
      /\ t[l + 1].part = "head" /\ t[l + 2].part = "body"
  BY FrameAdded
<1> HIDE DEF t
<1>2. t # << >>
  BY <1>1, EmptySeq
<1>3. s = << >> <=> l = 0
  BY EmptySeq
<1> HIDE DEF l
<1>4. t[1].part = first
  BY <1>1, <1>3 DEF Framed, l
<1>5. ASSUME NEW i \in 1..(l + 1) PROVE t[i].part # t[i + 1].part
  <2>1. CASE i < l
    BY <1>1, <2>1 DEF Framed, l
  <2>2. CASE i = l
    <3>1. l # 0 /\ s[l].part = "body"
      BY <1>1, <1>3, <2>2 DEF Framed, l
    <3> QED
      BY <1>1, <2>2, <3>1
  <2>3. CASE i = l + 1
    <3>1. i + 1 = l + 2
      BY <1>1, <2>3
    <3> QED
      BY <1>1, <2>3, <3>1
  <2> QED
    BY <1>1, <2>1, <2>2, <2>3
<1>6. Len(t) - 1 = l + 1
  BY <1>1
<1> QED
  BY <1>1, <1>2, <1>4, <1>5, <1>6 DEF Framed, t

LEMMA NumberedAdded ==
  ASSUME NEW s \in Seq(Part), NEW kinds, NEW lo, NEW hi, Numbered(s, kinds, lo, hi),
         NEW kind \in Kinds, NEW n \in Nat, kind \in kinds => n = hi + 1
  PROVE  Numbered(s \o Frame(kind, n), kinds, lo, IF kind \in kinds THEN hi + 1 ELSE hi)
<1> DEFINE t == s \o Frame(kind, n)
           l == Len(s)
<1>1. /\ l \in Nat /\ DOMAIN s = 1..l /\ DOMAIN t = 1..(l + 2)
      /\ \A i \in 1..l : t[i] = s[i]
      /\ t[l + 1].part = "head" /\ t[l + 1].kind = kind /\ t[l + 1].n = n
      /\ t[l + 2].part = "body"
  BY FrameAdded
<1>2. lo \in Nat /\ hi \in Nat /\ lo <= hi + 1
  BY DEF Numbered
<1>3. \A i \in Marks(s, kinds) : s[i].n \in lo..hi /\ i \in 1..l /\ t[i] = s[i]
  BY <1>1 DEF Numbered, Marks
<1> HIDE DEF t, l
<1>4. \A i \in 1..(l + 2) : i \in 1..l \/ i = l + 1 \/ i = l + 2
  BY <1>1
<1>5. \A i \in Marks(t, kinds) : i \in Marks(s, kinds) \/ (i = l + 1 /\ kind \in kinds)
  BY <1>1, <1>4 DEF Marks
<1>6. Marks(s, kinds) \subseteq Marks(t, kinds)
  BY <1>1 DEF Marks
<1>7. CASE kind \notin kinds
  <2>1. Marks(t, kinds) = Marks(s, kinds)
    BY <1>5, <1>6, <1>7
  <2> QED
    BY <1>2, <1>3, <1>7, <2>1 DEF Numbered, t
<1>8. CASE kind \in kinds
  <2>1. l + 1 \in Marks(t, kinds) /\ t[l + 1].n = hi + 1
    BY <1>1, <1>8 DEF Marks
  <2>2. \A i \in Marks(t, kinds) : t[i].n \in lo..(hi + 1)
    BY <1>2, <1>3, <1>5, <2>1
  <2>3. ASSUME NEW i \in Marks(t, kinds), NEW j \in Marks(t, kinds), i < j
        PROVE  t[i].n < t[j].n
    <3>1. CASE i \in Marks(s, kinds) /\ j \in Marks(s, kinds)
      BY <1>3, <2>3, <3>1 DEF Numbered
    <3>2. CASE i \in Marks(s, kinds) /\ j = l + 1
      <4>1. t[i].n \in lo..hi
        BY <1>3, <3>2
      <4> QED
        BY <1>2, <2>1, <3>2, <4>1
    <3>3. CASE i = l + 1
      <4>1. j \in 1..l \/ j = l + 1
        BY <1>3, <1>5
      <4> QED
        BY <1>1, <2>3, <3>3, <4>1
    <3> QED
      BY <1>5, <3>1, <3>2, <3>3
  <2>4. ASSUME NEW m \in lo..(hi + 1) PROVE \E i \in Marks(t, kinds) : t[i].n = m
    <3>1. CASE m = hi + 1
      BY <2>1, <3>1
    <3>2. CASE m \in lo..hi
      <4>1. PICK i \in Marks(s, kinds) : s[i].n = m
        BY <3>2 DEF Numbered
      <4> QED
        BY <1>3, <1>6, <4>1
    <3> QED
      BY <1>2, <3>1, <3>2
  <2>5. lo <= (hi + 1) + 1 /\ hi + 1 \in Nat
    BY <1>2
  <2> QED
    BY <1>2, <1>8, <2>2, <2>3, <2>4, <2>5 DEF Numbered, t
<1> QED
  BY <1>7, <1>8 DEF t

\* A sequence of parts without its first.
LEMMA PartRead ==
  ASSUME NEW s \in Seq(Part), s # << >>
  PROVE  /\ Len(s) \in Nat \ {0} /\ DOMAIN s = 1..Len(s) /\ Head(s) = s[1] /\ s[1] \in Part
         /\ Tail(s) \in Seq(Part) /\ Len(Tail(s)) = Len(s) - 1
         /\ DOMAIN Tail(s) = 1..(Len(s) - 1)
         /\ \A i \in 1..(Len(s) - 1) : Tail(s)[i] = s[i + 1]
<1>1. Len(s) \in Nat \ {0} /\ DOMAIN s = 1..Len(s)
  BY EmptySeq, LenProperties
<1>2. /\ Tail(s) \in Seq(Part) /\ Len(Tail(s)) = Len(s) - 1
      /\ \A i \in 1..Len(Tail(s)) : Tail(s)[i] = s[i + 1]
  BY HeadTailProperties
<1>3. DOMAIN Tail(s) = 1..Len(Tail(s))
  BY <1>2, LenProperties
<1>4. Head(s) = s[1] /\ s[1] \in Part
  BY <1>1, ElementOfSeq
<1> QED
  BY <1>1, <1>2, <1>3, <1>4

LEMMA FramedRead ==
  ASSUME NEW s \in Seq(Part), s # << >>, NEW first, Framed(s, first)
  PROVE  /\ Head(s).part = first
         /\ Framed(Tail(s), IF first = "head" THEN "body" ELSE "head")
<1> DEFINE t == Tail(s)
           l == Len(s)
<1>1. /\ l \in Nat \ {0} /\ Head(s) = s[1] /\ t \in Seq(Part) /\ Len(t) = l - 1
      /\ \A i \in 1..(l - 1) : t[i] = s[i + 1]
      /\ \A i \in 1..l : s[i].part \in {"head", "body"}
  <2>1. \A i \in 1..l : s[i] \in Part
    BY ElementOfSeq
  <2> QED
    BY <2>1, PartRead DEF Part
<1>2. /\ s[1].part = first /\ s[l].part = "body"
      /\ \A i \in 1..(l - 1) : s[i].part # s[i + 1].part
  BY DEF Framed
<1>3. t = << >> <=> l = 1
  BY <1>1, EmptySeq
<1> HIDE DEF t, l
<1>4. t = << >> => first # "head"
  BY <1>2, <1>3
<1>5. ASSUME t # << >>
      PROVE  /\ t[1].part = (IF first = "head" THEN "body" ELSE "head")
             /\ t[Len(t)].part = "body"
  <2>1. 1 \in 1..(l - 1) /\ l - 1 \in 1..(l - 1) /\ (l - 1) + 1 = l /\ 1 + 1 = 2 /\ 2 \in 1..l
        /\ 1 \in 1..l
    BY <1>1, <1>3, <1>5
  <2>2. t[1] = s[2] /\ t[l - 1] = s[l] /\ s[1].part # s[2].part
    BY <1>1, <1>2, <2>1
  <2> QED
    BY <1>1, <1>2, <2>1, <2>2
<1>6. ASSUME NEW i \in 1..(Len(t) - 1) PROVE t[i].part # t[i + 1].part
  <2>1. i \in 1..(l - 1) /\ i + 1 \in 1..(l - 1)
    BY <1>1
  <2> QED
    BY <1>1, <1>2, <2>1
<1> QED
  BY <1>1, <1>2, <1>4, <1>5, <1>6 DEF Framed, t

LEMMA NumberedRead ==
  ASSUME NEW s \in Seq(Part), s # << >>, NEW kinds, NEW lo, NEW hi, Numbered(s, kinds, lo, hi)
  PROVE  IF Head(s).part = "head" /\ Head(s).kind \in kinds
         THEN Head(s).n = lo /\ lo <= hi /\ Numbered(Tail(s), kinds, lo + 1, hi)
         ELSE Numbered(Tail(s), kinds, lo, hi)
<1> DEFINE t == Tail(s)
           l == Len(s)
<1>1. /\ l \in Nat \ {0} /\ DOMAIN s = 1..l /\ Head(s) = s[1] /\ DOMAIN t = 1..(l - 1)
      /\ \A i \in 1..(l - 1) : t[i] = s[i + 1]
  BY PartRead
<1>2. lo \in Nat /\ hi \in Nat /\ lo <= hi + 1
  BY DEF Numbered
<1> HIDE DEF t, l
<1>3. \A i \in Marks(t, kinds) : i \in Nat /\ i + 1 \in Marks(s, kinds) /\ t[i] = s[i + 1]
  BY <1>1 DEF Marks
<1>4. \A i \in Marks(s, kinds) : i = 1 \/ (i - 1 \in Marks(t, kinds) /\ t[i - 1] = s[i])
  <2>1. SUFFICES ASSUME NEW i \in Marks(s, kinds), i # 1
                 PROVE  i - 1 \in Marks(t, kinds) /\ t[i - 1] = s[i]
    OBVIOUS
  <2>2. i \in 1..l /\ i - 1 \in 1..(l - 1) /\ (i - 1) + 1 = i
    BY <1>1, <2>1 DEF Marks
  <2> QED
    BY <1>1, <2>1, <2>2 DEF Marks
<1>5. \A i, j \in Marks(t, kinds) : i < j => t[i].n < t[j].n
  <2>1. SUFFICES ASSUME NEW i \in Marks(t, kinds), NEW j \in Marks(t, kinds), i < j
                 PROVE  t[i].n < t[j].n
    OBVIOUS
  <2>2. i + 1 < j + 1
    BY <1>3, <2>1
  <2> QED
    BY <1>3, <2>2 DEF Numbered
<1>6. CASE Head(s).part = "head" /\ Head(s).kind \in kinds
  <2>1. 1 \in Marks(s, kinds)
    BY <1>1, <1>6 DEF Marks
  <2>2. s[1].n \in lo..hi
    BY <2>1 DEF Numbered
  <2>3. lo <= hi
    BY <1>2, <2>2
  <2>4. \A i \in Marks(s, kinds) : i # 1 => s[1].n < s[i].n /\ s[i].n \in lo..hi
    <3>1. SUFFICES ASSUME NEW i \in Marks(s, kinds), i # 1
                   PROVE  s[1].n < s[i].n /\ s[i].n \in lo..hi
      OBVIOUS
    <3>2. 1 < i
      BY <1>1, <3>1 DEF Marks
    <3> QED
      BY <2>1, <3>2 DEF Numbered
  <2>5. s[1].n = lo
    <3>1. lo \in lo..hi
      BY <1>2, <2>3
    <3>2. PICK i \in Marks(s, kinds) : s[i].n = lo
      BY <3>1 DEF Numbered
    <3> QED
      BY <1>2, <2>2, <2>4, <3>2
  <2>6. \A i \in Marks(t, kinds) : t[i].n \in (lo + 1)..hi
    <3>1. SUFFICES ASSUME NEW i \in Marks(t, kinds) PROVE t[i].n \in (lo + 1)..hi
      OBVIOUS
    <3>2. i + 1 \in Marks(s, kinds) /\ i + 1 # 1 /\ t[i] = s[i + 1]
      <4>1. i # 0
        BY <1>1 DEF Marks
      <4> QED
        BY <1>3, <4>1
    <3>3. lo < s[i + 1].n /\ s[i + 1].n \in lo..hi
      BY <2>4, <2>5, <3>2
    <3> QED
      BY <1>2, <3>2, <3>3
  <2>7. \A m \in (lo + 1)..hi : \E i \in Marks(t, kinds) : t[i].n = m
    <3>1. SUFFICES ASSUME NEW m \in (lo + 1)..hi PROVE \E i \in Marks(t, kinds) : t[i].n = m
      OBVIOUS
    <3>2. m \in lo..hi /\ m # lo
      BY <1>2
    <3>3. PICK i \in Marks(s, kinds) : s[i].n = m
      BY <3>2 DEF Numbered
    <3> QED
      BY <1>4, <2>5, <3>2, <3>3
  <2>8. lo + 1 \in Nat /\ lo + 1 <= hi + 1
    BY <1>2, <2>3
  <2>9. Numbered(t, kinds, lo + 1, hi)
    BY <1>2, <1>5, <2>6, <2>7, <2>8 DEF Numbered
  <2> QED
    BY <1>1, <1>6, <2>3, <2>5, <2>9 DEF t
<1>7. CASE ~ (Head(s).part = "head" /\ Head(s).kind \in kinds)
  <2>1. 1 \notin Marks(s, kinds)
    BY <1>1, <1>7 DEF Marks
  <2>2. \A i \in Marks(t, kinds) : t[i].n \in lo..hi
    BY <1>3 DEF Numbered
  <2>3. \A m \in lo..hi : \E i \in Marks(t, kinds) : t[i].n = m
    BY <1>4, <2>1 DEF Numbered
  <2>4. Numbered(t, kinds, lo, hi)
    BY <1>2, <1>5, <2>2, <2>3 DEF Numbered
  <2> QED
    BY <1>7, <2>4 DEF t
<1> QED
  BY <1>6, <1>7

\* A part that is read is the first of the stream.
LEMMA StreamRead ==
  ASSUME PartsTyped, inbox # << >>, inbox' = Tail(inbox), UNCHANGED peerVars
  PROVE  /\ Stream \in Seq(Part) /\ Stream # << >> /\ Head(Stream) = Head(inbox)
         /\ Stream' = Tail(Stream)
<1>1. inbox \in Seq(Part) /\ unsent \in Seq(Part) /\ unsent' = unsent
  BY DEF PartsTyped, peerVars
<1>2. /\ Stream \in Seq(Part) /\ Len(Stream) = Len(inbox) + Len(unsent)
      /\ \A i \in 1 .. Len(inbox) + Len(unsent) :
           Stream[i] = IF i <= Len(inbox) THEN inbox[i] ELSE unsent[i - Len(inbox)]
  BY <1>1, ConcatProperties DEF Stream
<1>3. Len(inbox) \in Nat \ {0} /\ Len(unsent) \in Nat /\ Head(inbox) = inbox[1]
  BY <1>1, PartRead, LenProperties
<1>4. Stream # << >> /\ Stream[1] = inbox[1]
  BY <1>2, <1>3, EmptySeq
<1>5. Head(Stream) = Head(inbox)
  BY <1>2, <1>3, <1>4, PartRead
<1>6. Stream' = Tail(Stream)
  <2> DEFINE a == Tail(inbox)
             s == a \o unsent
             t == Tail(Stream)
  <2>1. /\ a \in Seq(Part) /\ Len(a) = Len(inbox) - 1
        /\ \A i \in 1..(Len(inbox) - 1) : a[i] = inbox[i + 1]
    BY <1>1, PartRead
  <2>2. /\ t \in Seq(Part) /\ Len(t) = Len(Stream) - 1
        /\ \A i \in 1..(Len(Stream) - 1) : t[i] = Stream[i + 1]
    BY <1>2, <1>4, PartRead
  <2> HIDE DEF a, t
  <2>3. /\ s \in Seq(Part) /\ Len(s) = Len(a) + Len(unsent)
        /\ \A i \in 1 .. Len(a) + Len(unsent) :
             s[i] = IF i <= Len(a) THEN a[i] ELSE unsent[i - Len(a)]
    BY <1>1, <2>1, ConcatProperties
  <2> HIDE DEF s
  <2>4. Len(s) = Len(t)
    BY <1>2, <1>3, <2>1, <2>2, <2>3
  <2>5. ASSUME NEW i \in 1..Len(s) PROVE s[i] = t[i]
    <3>1. i \in 1..(Len(Stream) - 1) /\ i + 1 \in 1..(Len(inbox) + Len(unsent))
      BY <1>2, <1>3, <2>1, <2>3
    <3>2. t[i] = Stream[i + 1]
      BY <2>2, <3>1
    <3>3. CASE i <= Len(a)
      <4>1. i \in 1..(Len(inbox) - 1) /\ i + 1 <= Len(inbox)
        BY <1>3, <2>1, <3>3
      <4>2. s[i] = inbox[i + 1]
        BY <2>1, <2>3, <3>3, <4>1
      <4>3. Stream[i + 1] = inbox[i + 1]
        BY <1>2, <3>1, <4>1
      <4> QED
        BY <3>2, <4>2, <4>3
    <3>4. CASE ~ (i <= Len(a))
      <4>1. ~ (i + 1 <= Len(inbox)) /\ i - Len(a) = (i + 1) - Len(inbox)
        BY <1>3, <2>1, <3>4
      <4>2. s[i] = unsent[i - Len(a)]
        BY <2>3, <3>4
      <4>3. Stream[i + 1] = unsent[(i + 1) - Len(inbox)]
        BY <1>2, <3>1, <4>1
      <4> QED
        BY <3>2, <4>1, <4>2, <4>3
    <3> QED
      BY <3>3, <3>4
  <2>6. s = t
    BY <2>2, <2>3, <2>4, <2>5, SeqEqual
  <2>7. Stream' = s
    BY <1>1 DEF Stream, s, a
  <2> QED
    BY <2>6, <2>7 DEF t
<1> QED
  BY <1>2, <1>4, <1>5, <1>6

\* A part that arrives was in the stream already.
LEMMA StreamArrives ==
  ASSUME PartsTyped, unsent # << >>, inbox' = Append(inbox, Head(unsent)), unsent' = Tail(unsent)
  PROVE  Stream' = Stream
<1> DEFINE e == Head(unsent)
           u == Tail(unsent)
<1>1. inbox \in Seq(Part) /\ unsent \in Seq(Part)
  BY DEF PartsTyped
<1>2. e \in Part /\ u \in Seq(Part) /\ <<e>> \in Seq(Part)
  BY <1>1, HeadTailProperties
<1>3. unsent = <<e>> \o u
  <2>1. <<e>> \o u = unsent
    BY <1>1, <1>2
  <2> QED
    BY <2>1
<1> HIDE DEF e, u
<1>4. Append(inbox, e) = inbox \o <<e>>
  BY <1>1, <1>2, AppendIsConcat
<1>5. (inbox \o <<e>>) \o u = inbox \o (<<e>> \o u)
  BY <1>1, <1>2, ConcatAssociative
<1> QED
  BY <1>3, <1>4, <1>5 DEF Stream, e, u

-----------------------------------------------------------------------------
(* Order is kept *)

LEMMA OrderInit == Init => OrderInv
<1> SUFFICES ASSUME Init PROVE OrderInv
  OBVIOUS
<1>1. /\ owner = "unborn" /\ inbox = << >> /\ unsent = << >> /\ posted = 0 /\ pings = 0
      /\ outbox = [text |-> 0, close |-> 0, pongs |-> << >>] /\ got = << >> /\ cut = << >>
      /\ \A c \in Clients : op[c].pc = "idle"
  BY DEF Init, Idle
<1>2. Stream = << >> /\ Len(Stream) = 0 /\ DOMAIN Stream = {}
  BY <1>1 DEF Stream
<1>3. owner \notin Clients
  BY <1>1, ClientsOK
<1>4. ~ PingHeld /\ \A kinds : ~ InFrame(kinds)
  BY <1>3 DEF PingHeld, InFrame
<1>5. \A kinds : Marks(Stream, kinds) = {}
  BY <1>2 DEF Marks
<1>6. \A kinds : Numbered(Stream, kinds, 1, 0)
  BY <1>5 DEF Numbered
<1>7. Framed(Stream, "head")
  BY <1>2 DEF Framed
<1>8. HistoriesTyped /\ Len(got) = 0 /\ Len(outbox.pongs) = 0
  BY <1>1 DEF HistoriesTyped
<1>9. VerbsMatch /\ CutFits
  BY <1>1 DEF VerbsMatch, CutFits
<1>10. StreamFramed
  BY <1>4, <1>7 DEF StreamFramed
<1>11. MessagesAhead /\ PingsAhead
  BY <1>1, <1>4, <1>6, <1>8 DEF MessagesAhead, PingsAhead
<1> QED
  BY <1>8, <1>9, <1>10, <1>11 DEF OrderInv

\* The verb of a client that has the connection, as far as the stream goes.
LEMMA HasFrame ==
  ASSUME IInv, NEW c \in Clients, op[c].pc # "idle"
  PROVE  /\ owner = c /\ op[c] \in Op
         /\ \A kinds : InFrame(kinds) <=> op[c].pc = "body" /\ op[c].kind \in kinds
         /\ PingHeld <=> (op[c].pc = "body" /\ op[c].kind = "ping") \/ op[c].pc = "pong"
         /\ Listening <=> op[c].verb # "close"
<1>1. owner = c /\ op[c] \in Op
  BY DEF IInv, PoolIsSound, OpsTyped
<1>2. owner # "gone"
  BY <1>1, ClientsOK
<1> QED
  BY <1>1, <1>2 DEF InFrame, PingHeld, Listening

\* A verb ends; if the connection is pooled again, what is ahead must be in order.
LEMMA DoneOrder ==
  ASSUME IInv, OrderInv, NEW c \in Clients, op[c].pc # "idle",
         NEW where \in {"pooled", "gone"}, Done(c, where),
         HistoriesTyped', CutFits', closed => closed',
         where = "pooled" /\ cut' = << >> =>
           /\ Framed(Stream', "head")
           /\ Numbered(Stream', MessageKinds, Len(got') + 1, posted')
           /\ Numbered(Stream', {"ping"}, Len(outbox'.pongs) + 1, pings')
  PROVE  OrderInv'
<1>1. /\ owner' = where /\ owner' \notin Clients
      /\ \A d \in Clients : op'[d] = IF d = c THEN Idle ELSE op[d]
  BY ClientsOK DEF Done, IInv, OpsTyped
<1>2. ~ PingHeld' /\ \A kinds : ~ InFrame(kinds)'
  BY <1>1 DEF PingHeld, InFrame
<1>3. VerbsMatch'
  BY <1>1 DEF OrderInv, VerbsMatch, Idle
<1>4. StreamFramed'
  BY <1>1, <1>2 DEF StreamFramed
<1>5. MessagesAhead'
  BY <1>1, <1>2 DEF MessagesAhead, Listening
<1>6. PingsAhead'
  BY <1>1, <1>2 DEF PingsAhead
<1> QED
  BY <1>3, <1>4, <1>5, <1>6 DEF OrderInv

\* A verb goes on.
LEMMA ContinueOrder ==
  ASSUME IInv, OrderInv, NEW c \in Clients, op[c].pc # "idle",
         NEW next, Continue(c, next), HistoriesTyped', CutFits', closed => closed',
         next.pc \in {"head", "body", "pong", "echo"}, next.verb \in {"recv", "close"},
         next.kind \in Kinds, next.pc = "echo" => closed',
         cut' = << >> =>
           /\ Framed(Stream', IF next.pc = "body" THEN "body" ELSE "head")
           /\ next.verb # "close" =>
                IF next.pc = "body" /\ next.kind \in MessageKinds
                THEN /\ next.n = Len(got') + 1 /\ next.n <= posted'
                     /\ Numbered(Stream', MessageKinds, Len(got') + 2, posted')
                ELSE Numbered(Stream', MessageKinds, Len(got') + 1, posted')
           /\ IF (next.pc = "body" /\ next.kind = "ping") \/ next.pc = "pong"
              THEN /\ next.n = Len(outbox'.pongs) + 1 /\ next.n <= pings'
                   /\ Numbered(Stream', {"ping"}, Len(outbox'.pongs) + 2, pings')
              ELSE Numbered(Stream', {"ping"}, Len(outbox'.pongs) + 1, pings')
  PROVE  OrderInv'
<1>1. /\ owner' = c /\ owner' # "gone"
      /\ \A d \in Clients : op'[d] = IF d = c THEN next ELSE op[d]
  BY HasFrame, ClientsOK DEF Continue, IInv, OpsTyped
<1>2. /\ \A kinds : InFrame(kinds)' <=> next.pc = "body" /\ next.kind \in kinds
      /\ PingHeld' <=> (next.pc = "body" /\ next.kind = "ping") \/ next.pc = "pong"
      /\ Listening' <=> next.verb # "close"
  BY <1>1 DEF InFrame, PingHeld, Listening
<1>3. VerbsMatch'
  BY <1>1 DEF OrderInv, VerbsMatch
<1>4. StreamFramed'
  BY <1>2 DEF StreamFramed
<1>5. MessagesAhead'
  BY <1>1, <1>2 DEF MessagesAhead
<1>6. PingsAhead'
  BY <1>1, <1>2 DEF PingsAhead
<1> QED
  BY <1>3, <1>4, <1>5, <1>6 DEF OrderInv

\* The peer sends: what it sends is numbered on.
LEMMA PeerOrder ==
  ASSUME IInv, OrderInv, UNCHANGED << owner, closed, inbox, outbox, op, got, cut >>,
         posted' \in Nat, pings' \in Nat, posted <= posted', pings <= pings',
         cut = << >> /\ owner # "gone" =>
           \A first, lo, on :
             /\ Framed(Stream, first) => Framed(Stream', first)
             /\ Numbered(Stream, MessageKinds, lo, posted) => Numbered(Stream', MessageKinds, lo, posted')
             /\ Numbered(Stream, {"ping"}, on, pings) => Numbered(Stream', {"ping"}, on, pings')
  PROVE  OrderInv'
<1>1. /\ \A kinds : InFrame(kinds)' = InFrame(kinds)
      /\ PingHeld' = PingHeld /\ Listening' = Listening
  BY DEF InFrame, PingHeld, Listening
<1>2. HistoriesTyped' /\ VerbsMatch' /\ CutFits'
  BY DEF OrderInv, HistoriesTyped, VerbsMatch, CutFits
<1>3. StreamFramed'
  BY <1>1 DEF OrderInv, StreamFramed
<1>4. posted \in Nat /\ pings \in Nat /\ \A d \in Clients : op[d].n \in Nat
  BY DEF IInv, PartsTyped, OpsTyped, Op
<1>5. MessagesAhead'
  <2>1. SUFFICES ASSUME cut = << >>, Listening
                 PROVE  /\ InFrame(MessageKinds) => op[owner].n = Len(got) + 1 /\ op[owner].n <= posted'
                        /\ Numbered(Stream', MessageKinds,
                             Len(got) + (IF InFrame(MessageKinds) THEN 2 ELSE 1), posted')
    BY <1>1 DEF MessagesAhead
  <2>2. /\ InFrame(MessageKinds) => op[owner].n = Len(got) + 1 /\ op[owner].n <= posted
        /\ Numbered(Stream, MessageKinds,
             Len(got) + (IF InFrame(MessageKinds) THEN 2 ELSE 1), posted)
    BY <2>1 DEF OrderInv, MessagesAhead
  <2>3. InFrame(MessageKinds) => owner \in Clients
    BY DEF InFrame
  <2>4. owner # "gone"
    BY <2>1 DEF Listening
  <2> QED
    BY <1>4, <2>1, <2>2, <2>3, <2>4
<1>6. PingsAhead'
  <2>1. SUFFICES ASSUME cut = << >>, owner # "gone"
                 PROVE  /\ PingHeld => op[owner].n = Len(outbox.pongs) + 1 /\ op[owner].n <= pings'
                        /\ Numbered(Stream', {"ping"},
                             Len(outbox.pongs) + (IF PingHeld THEN 2 ELSE 1), pings')
    BY <1>1 DEF PingsAhead
  <2>2. /\ PingHeld => op[owner].n = Len(outbox.pongs) + 1 /\ op[owner].n <= pings
        /\ Numbered(Stream, {"ping"}, Len(outbox.pongs) + (IF PingHeld THEN 2 ELSE 1), pings)
    BY <2>1 DEF OrderInv, PingsAhead
  <2>3. PingHeld => owner \in Clients
    BY DEF PingHeld, InFrame
  <2>4. PingHeld => op[owner].n <= pings'
    BY <1>4, <2>2, <2>3
  <2>5. \A on : Numbered(Stream, {"ping"}, on, pings) => Numbered(Stream', {"ping"}, on, pings')
    BY <2>1
  <2> QED
    BY <2>2, <2>4, <2>5
<1> QED
  BY <1>2, <1>3, <1>5, <1>6 DEF OrderInv

LEMMA Reassociated ==
  ASSUME NEW a \in Seq(Part), NEW b \in Seq(Part), NEW c \in Seq(Part)
  PROVE  a \o (b \o c) = (a \o b) \o c
<1> DEFINE Assoc == (a \o b) \o c = a \o (b \o c)
<1>1. Assoc
  BY ConcatAssociative
<1> QED
  BY <1>1

\* One frame sent.
LEMMA FrameSent ==
  ASSUME NEW s \in Seq(Part), NEW kind \in Kinds, NEW n \in Nat, NEW m \in Nat, NEW p \in Nat,
         kind \in MessageKinds => n = m + 1, kind = "ping" => n = p + 1
  PROVE  LET t == s \o Frame(kind, n)
         IN /\ t \in Seq(Part)
            /\ \A first : Framed(s, first) => Framed(t, first)
            /\ \A lo : Numbered(s, MessageKinds, lo, m) =>
                  Numbered(t, MessageKinds, lo, IF kind \in MessageKinds THEN m + 1 ELSE m)
            /\ \A lo : Numbered(s, {"ping"}, lo, p) =>
                  Numbered(t, {"ping"}, lo, IF kind = "ping" THEN p + 1 ELSE p)
<1>1. s \o Frame(kind, n) \in Seq(Part)
  BY FrameAdded
<1>2. \A first : Framed(s, first) => Framed(s \o Frame(kind, n), first)
  BY FramedAdded
<1>3. ASSUME NEW lo, Numbered(s, MessageKinds, lo, m)
      PROVE  Numbered(s \o Frame(kind, n), MessageKinds, lo, IF kind \in MessageKinds THEN m + 1 ELSE m)
  BY <1>3, NumberedAdded
<1>4. ASSUME NEW lo, Numbered(s, {"ping"}, lo, p)
      PROVE  Numbered(s \o Frame(kind, n), {"ping"}, lo, IF kind = "ping" THEN p + 1 ELSE p)
  <2>1. kind \in {"ping"} <=> kind = "ping"
    OBVIOUS
  <2>2. Numbered(s \o Frame(kind, n), {"ping"}, lo, IF kind \in {"ping"} THEN p + 1 ELSE p)
    BY <1>4, <2>1, NumberedAdded
  <2> QED
    BY <2>1, <2>2
<1> QED
  BY <1>1, <1>2, <1>3, <1>4


\* What is sent after s, when there were m messages and p pings, makes of it a t with
\* k messages and q pings.
Carries(s, m, p, t, k, q) ==
  /\ t \in Seq(Part)
  /\ \A first : Framed(s, first) => Framed(t, first)
  /\ \A lo : Numbered(s, MessageKinds, lo, m) => Numbered(t, MessageKinds, lo, k)
  /\ \A lo : Numbered(s, {"ping"}, lo, p) => Numbered(t, {"ping"}, lo, q)

LEMMA CarriesOn ==
  ASSUME NEW s, NEW m, NEW p, NEW t, NEW k, NEW q, NEW u, NEW j, NEW r,
         Carries(s, m, p, t, k, q), Carries(t, k, q, u, j, r)
  PROVE  Carries(s, m, p, u, j, r)
BY DEF Carries

LEMMA MessageCarried ==
  ASSUME NEW s \in Seq(Part), NEW m \in Nat, NEW p \in Nat, NEW kind \in {"text", "cont"}
  PROVE  /\ Frame(kind, m + 1) \in Seq(Part)
         /\ Carries(s, m, p, s \o Frame(kind, m + 1), m + 1, p)
<1>1. m + 1 \in Nat /\ kind \in Kinds /\ kind \in MessageKinds /\ kind # "ping"
  BY DEF Kinds, MessageKinds
<1>2. Frame(kind, m + 1) \in Seq(Part)
  BY <1>1, FrameTyped
<1> QED
  BY <1>1, <1>2, FrameSent DEF Carries

LEMMA PingCarried ==
  ASSUME NEW s \in Seq(Part), NEW m \in Nat, NEW p \in Nat
  PROVE  /\ Frame("ping", p + 1) \in Seq(Part)
         /\ Carries(s, m, p, s \o Frame("ping", p + 1), m, p + 1)
<1>1. p + 1 \in Nat /\ "ping" \in Kinds /\ "ping" \notin MessageKinds
  BY DEF Kinds, MessageKinds
<1>2. Frame("ping", p + 1) \in Seq(Part)
  BY <1>1, FrameTyped
<1> QED
  BY <1>1, <1>2, FrameSent DEF Carries

LEMMA OtherCarried ==
  ASSUME NEW s \in Seq(Part), NEW m \in Nat, NEW p \in Nat, NEW kind \in {"first", "close"}
  PROVE  /\ Frame(kind, 0) \in Seq(Part)
         /\ Carries(s, m, p, s \o Frame(kind, 0), m, p)
<1>1. kind \in Kinds /\ kind \notin MessageKinds /\ kind # "ping"
  BY DEF Kinds, MessageKinds
<1>2. Frame(kind, 0) \in Seq(Part)
  BY <1>1, FrameTyped
<1> QED
  BY <1>1, <1>2, FrameSent DEF Carries

LEMMA PeerOrderSteps ==
  ASSUME IInv, OrderInv,
         \/ \E whole \in BOOLEAN : PeerMessage(whole)
         \/ PeerPing \/ PeerPingInside \/ PeerCloses \/ PeerSendsPart
  PROVE  OrderInv'
<1>1. /\ inbox \in Seq(Part) /\ unsent \in Seq(Part) /\ posted \in Nat /\ pings \in Nat
      /\ posted + 1 \in Nat /\ pings + 1 \in Nat
      /\ posted <= posted + 1 /\ pings <= pings + 1 /\ posted <= posted /\ pings <= pings
  BY DEF IInv, PartsTyped
<1>2. ASSUME NEW parts \in Seq(Part), PeerSends(parts),
             UNCHANGED << owner, closed, inbox, outbox, op, got, cut >>,
             posted' \in {posted, posted + 1}, pings' \in {pings, pings + 1},
             Carries(inbox, posted, pings, inbox \o parts, posted', pings')
      PROVE  OrderInv'
  <2>1. unsent = << >> /\ unsent' = parts
    BY <1>2 DEF PeerSends
  <2>2. inbox \o << >> = inbox
    BY <1>1, ConcatEmptySeq
  <2>3. Stream = inbox /\ Stream' = inbox \o parts
    BY <1>2, <2>1, <2>2 DEF Stream
  <2>4. \A first, lo, on :
          /\ Framed(Stream, first) => Framed(Stream', first)
          /\ Numbered(Stream, MessageKinds, lo, posted) => Numbered(Stream', MessageKinds, lo, posted')
          /\ Numbered(Stream, {"ping"}, on, pings) => Numbered(Stream', {"ping"}, on, pings')
    BY <1>2, <2>3 DEF Carries
  <2>5. posted' \in Nat /\ pings' \in Nat /\ posted <= posted' /\ pings <= pings'
    BY <1>1, <1>2
  <2> QED
    BY <1>2, <2>4, <2>5, PeerOrder
<1>3. ASSUME PeerMessage(TRUE) PROVE OrderInv'
  <2> DEFINE f == Frame("text", posted + 1)
  <2>1. f \in Seq(Part) /\ Carries(inbox, posted, pings, inbox \o f, posted + 1, pings)
    BY <1>1, MessageCarried
  <2>2. /\ PeerSends(f) /\ posted' = posted + 1 /\ pings' = pings
        /\ UNCHANGED << owner, closed, inbox, outbox, op, got, cut >>
    BY <1>3 DEF PeerMessage
  <2> HIDE DEF f
  <2> QED
    BY <1>2, <2>1, <2>2
<1>4. ASSUME PeerMessage(FALSE) PROVE OrderInv'
  <2> DEFINE f == Frame("first", 0)
             g == Frame("cont", posted + 1)
  <2>1. /\ PeerSends(f \o g) /\ posted' = posted + 1 /\ pings' = pings
        /\ UNCHANGED << owner, closed, inbox, outbox, op, got, cut >>
    BY <1>4 DEF PeerMessage
  <2>2. f \in Seq(Part) /\ Carries(inbox, posted, pings, inbox \o f, posted, pings)
    BY <1>1, OtherCarried
  <2>3. inbox \o f \in Seq(Part)
    BY <2>2 DEF Carries
  <2>4. g \in Seq(Part)
        /\ Carries(inbox \o f, posted, pings, (inbox \o f) \o g, posted + 1, pings)
    <3> DEFINE s == inbox \o f
    <3>1. s \in Seq(Part)
      BY <2>3
    <3> HIDE DEF s
    <3>2. g \in Seq(Part) /\ Carries(s, posted, pings, s \o g, posted + 1, pings)
      BY <1>1, <3>1, MessageCarried
    <3> QED
      BY <3>2 DEF s
  <2> HIDE DEF f, g
  <2>5. f \o g \in Seq(Part) /\ inbox \o (f \o g) = (inbox \o f) \o g
    BY <1>1, <2>2, <2>4, Reassociated, ConcatProperties
  <2>6. Carries(inbox, posted, pings, inbox \o (f \o g), posted + 1, pings)
    BY <2>2, <2>4, <2>5, CarriesOn
  <2> QED
    BY <1>2, <2>1, <2>5, <2>6
<1>5. CASE PeerPing
  <2> DEFINE f == Frame("ping", pings + 1)
  <2>1. /\ pings' = pings + 1 /\ posted' = posted /\ PeerSends(f)
        /\ UNCHANGED << owner, closed, inbox, outbox, op, got, cut >>
    BY <1>5 DEF PeerPing
  <2>2. f \in Seq(Part) /\ Carries(inbox, posted, pings, inbox \o f, posted, pings + 1)
    BY <1>1, PingCarried
  <2> HIDE DEF f
  <2> QED
    BY <1>2, <2>1, <2>2
<1>6. CASE PeerPingInside
  <2> DEFINE f == Frame("first", 0)
             g == Frame("ping", pings + 1)
             h == Frame("cont", posted + 1)
             s == inbox \o f
             t == s \o g
  <2>1. /\ pings' = pings + 1 /\ posted' = posted + 1 /\ PeerSends((f \o g) \o h)
        /\ UNCHANGED << owner, closed, inbox, outbox, op, got, cut >>
    BY <1>6 DEF PeerPingInside
  <2>2. f \in Seq(Part) /\ Carries(inbox, posted, pings, s, posted, pings)
    BY <1>1, OtherCarried
  <2> HIDE DEF s
  <2>3. g \in Seq(Part) /\ Carries(s, posted, pings, t, posted, pings + 1)
    BY <1>1, <2>2, PingCarried DEF Carries
  <2> HIDE DEF t
  <2>4. h \in Seq(Part) /\ Carries(t, posted, pings + 1, t \o h, posted + 1, pings + 1)
    BY <1>1, <2>3, MessageCarried DEF Carries
  <2> HIDE DEF f, g, h
  <2>5. Carries(inbox, posted, pings, t \o h, posted + 1, pings + 1)
    BY <2>2, <2>3, <2>4, CarriesOn
  <2>6. (f \o g) \o h \in Seq(Part) /\ inbox \o ((f \o g) \o h) = ((inbox \o f) \o g) \o h
    <3>1. inbox \in Seq(Part) /\ f \in Seq(Part) /\ g \in Seq(Part) /\ h \in Seq(Part)
      BY <1>1, <2>2, <2>3, <2>4
    <3> DEFINE e == f \o g
    <3>2. e \in Seq(Part)
      BY <3>1, ConcatProperties
    <3>3. inbox \o e = (inbox \o f) \o g
      BY <3>1, Reassociated
    <3> HIDE DEF e
    <3>4. inbox \o (e \o h) = (inbox \o e) \o h
      BY <3>1, <3>2, Reassociated, SMTT(60)
    <3>5. e \o h \in Seq(Part)
      BY <3>1, <3>2, ConcatProperties
    <3> QED
      BY <3>3, <3>4, <3>5 DEF e
  <2>7. Carries(inbox, posted, pings, inbox \o ((f \o g) \o h), posted + 1, pings + 1)
    BY <2>5, <2>6 DEF s, t
  <2> DEFINE parts == (f \o g) \o h
  <2>8. parts \in Seq(Part) /\ PeerSends(parts)
        /\ Carries(inbox, posted, pings, inbox \o parts, posted + 1, pings + 1)
    BY <2>1, <2>6, <2>7
  <2> HIDE DEF parts
  <2> QED
    BY <1>2, <2>1, <2>8
<1>7. CASE PeerCloses
  <2> DEFINE f == Frame("close", 0)
  <2>1. /\ pings' = pings /\ posted' = posted /\ PeerSends(f)
        /\ UNCHANGED << owner, closed, inbox, outbox, op, got, cut >>
    BY <1>7 DEF PeerCloses
  <2>2. f \in Seq(Part) /\ Carries(inbox, posted, pings, inbox \o f, posted, pings)
    BY <1>1, OtherCarried
  <2> HIDE DEF f
  <2> QED
    BY <1>2, <2>1, <2>2
<1>8. CASE PeerSendsPart
  <2>1. Stream' = Stream /\ UNCHANGED << owner, closed, outbox, op, got, cut, posted, pings >>
    BY <1>8, StreamArrives DEF PeerSendsPart, IInv
  <2> QED
    BY <2>1 DEF OrderInv, HistoriesTyped, VerbsMatch, CutFits, StreamFramed, MessagesAhead,
                PingsAhead, InFrame, PingHeld, Listening
<1> QED
  BY <1>3, <1>4, <1>5, <1>6, <1>7, <1>8

\* What is ahead of a client that has the connection.
LEMMA Ahead ==
  ASSUME IInv, OrderInv, NEW c \in Clients, op[c].pc # "idle", cut = << >>
  PROVE  /\ Framed(Stream, IF op[c].pc = "body" THEN "body" ELSE "head")
         /\ op[c].verb # "close" =>
              IF op[c].pc = "body" /\ op[c].kind \in MessageKinds
              THEN /\ op[c].n = Len(got) + 1 /\ op[c].n <= posted
                   /\ Numbered(Stream, MessageKinds, Len(got) + 2, posted)
              ELSE Numbered(Stream, MessageKinds, Len(got) + 1, posted)
         /\ IF (op[c].pc = "body" /\ op[c].kind = "ping") \/ op[c].pc = "pong"
            THEN /\ op[c].n = Len(outbox.pongs) + 1 /\ op[c].n <= pings
                 /\ Numbered(Stream, {"ping"}, Len(outbox.pongs) + 2, pings)
            ELSE Numbered(Stream, {"ping"}, Len(outbox.pongs) + 1, pings)
<1>1. /\ owner = c /\ owner # "gone" /\ op[c].kind \in Kinds
      /\ \A kinds : InFrame(kinds) <=> op[c].pc = "body" /\ op[c].kind \in kinds
      /\ PingHeld <=> (op[c].pc = "body" /\ op[c].kind = "ping") \/ op[c].pc = "pong"
      /\ Listening <=> op[c].verb # "close"
  BY HasFrame, ClientsOK DEF Op
<1>2. Framed(Stream, IF op[c].pc = "body" THEN "body" ELSE "head")
  BY <1>1 DEF OrderInv, StreamFramed
<1>3. Listening => /\ InFrame(MessageKinds) => op[owner].n = Len(got) + 1 /\ op[owner].n <= posted
                   /\ Numbered(Stream, MessageKinds,
                        Len(got) + (IF InFrame(MessageKinds) THEN 2 ELSE 1), posted)
  BY <1>1 DEF OrderInv, MessagesAhead
<1>4. /\ PingHeld => op[owner].n = Len(outbox.pongs) + 1 /\ op[owner].n <= pings
      /\ Numbered(Stream, {"ping"}, Len(outbox.pongs) + (IF PingHeld THEN 2 ELSE 1), pings)
  BY <1>1 DEF OrderInv, PingsAhead
<1> QED
  BY <1>1, <1>2, <1>3, <1>4

LEMMA GoneOrder ==
  ASSUME IInv, OrderInv, NEW c \in Clients, op[c].pc # "idle", Done(c, "gone"),
         HistoriesTyped', CutFits', closed => closed'
  PROVE  OrderInv'
BY DoneOrder

LEMMA StreamKept ==
  ASSUME UNCHANGED inbox, UNCHANGED peerVars
  PROVE  Stream' = Stream /\ posted' = posted /\ pings' = pings
BY DEF Stream, peerVars

LEMMA HistoriesKept ==
  ASSUME OrderInv, UNCHANGED << outbox, got, cut >>
  PROVE  HistoriesTyped' /\ CutFits'
BY DEF OrderInv, HistoriesTyped, CutFits

LEMMA EndOrder ==
  ASSUME IInv, OrderInv, NEW c \in Clients,
         Write(c) \/ EndOfStream(c) \/ ReadClosed(c) \/ Timeout(c) \/ Cancel(c)
  PROVE  OrderInv'
<1>1. CASE Write(c)
  <2>1. op[c].pc = "write" /\ UNCHANGED << inbox, peerVars, closed, got, cut >>
    BY <1>1 DEF Write
  <2>2. op[c].verb = "send"
    BY <2>1 DEF OrderInv, VerbsMatch
  <2>3. Stream' = Stream /\ posted' = posted /\ pings' = pings
    BY <2>1, StreamKept
  <2>4. CASE outbox' = [outbox EXCEPT !.text = @ + 1] /\ Done(c, "pooled")
    <3>1. outbox \in [text : Nat, close : Nat, pongs : Seq(Nat)]
      BY DEF OrderInv, HistoriesTyped
    <3>2. outbox' \in [text : Nat, close : Nat, pongs : Seq(Nat)] /\ outbox'.pongs = outbox.pongs
      BY <2>4, <3>1
    <3>3. HistoriesTyped' /\ CutFits'
      BY <2>1, <3>2 DEF OrderInv, HistoriesTyped, CutFits
    <3>4. cut' = << >> =>
            /\ Framed(Stream', "head")
            /\ Numbered(Stream', MessageKinds, Len(got') + 1, posted')
            /\ Numbered(Stream', {"ping"}, Len(outbox'.pongs) + 1, pings')
      BY <2>1, <2>2, <2>3, <3>2, Ahead
    <3> QED
      BY <2>1, <2>4, <3>3, <3>4, DoneOrder
  <2>5. CASE Done(c, "gone") /\ UNCHANGED outbox
    <3>1. HistoriesTyped' /\ CutFits'
      BY <2>1, <2>5, HistoriesKept
    <3> QED
      BY <2>1, <2>5, <3>1, GoneOrder
  <2> QED
    BY <1>1, <2>4, <2>5 DEF Write
<1>2. CASE EndOfStream(c) \/ ReadClosed(c) \/ Cancel(c)
  <2>1. op[c].pc # "idle" /\ Done(c, "gone") /\ UNCHANGED << closed, outbox, got, cut >>
    BY <1>2 DEF EndOfStream, ReadClosed, Cancel, Fails
  <2>2. HistoriesTyped' /\ CutFits'
    BY <2>1, HistoriesKept
  <2> QED
    BY <2>1, <2>2, GoneOrder
<1>3. CASE Timeout(c)
  <2>1. /\ op[c].pc \in {"head", "body", "pong", "echo"}
        /\ UNCHANGED << inbox, peerVars, closed, outbox, got >>
        /\ cut' = IF cut = << >> /\ (op[c].pc # "head" \/ op[c].fragments)
                  THEN << Len(got), Len(outbox.pongs) >> ELSE cut
        /\ Done(c, IF op[c].verb = "recv" THEN "pooled" ELSE "gone")
    BY <1>3 DEF Timeout, Waits
  <2>2. Stream' = Stream /\ posted' = posted /\ pings' = pings
    BY <2>1, StreamKept
  <2>3. HistoriesTyped' /\ CutFits'
    <3>1. HistoriesTyped'
      BY <2>1 DEF OrderInv, HistoriesTyped
    <3>2. Len(got) \in Nat /\ Len(outbox.pongs) \in Nat
      <4>1. got \in Seq(Nat) /\ outbox.pongs \in Seq(Nat)
        BY DEF OrderInv, HistoriesTyped
      <4> QED
        BY <4>1, LenProperties
    <3>3. got' = got /\ outbox' = outbox
      BY <2>1
    <3>4. CASE cut' = cut
      <4>1. CutFits
        BY DEF OrderInv
      <4> QED
        BY <3>1, <3>3, <3>4, <4>1 DEF CutFits
    <3>5. CASE cut' = << Len(got), Len(outbox.pongs) >>
      <4>1. cut'[1] = Len(got) /\ cut'[2] = Len(outbox.pongs)
        BY <3>5
      <4>2. Len(got) \in 0..Len(got) /\ Len(outbox.pongs) \in 0..Len(outbox.pongs)
        BY <3>2
      <4> QED
        BY <3>1, <3>3, <4>1, <4>2 DEF CutFits
    <3> QED
      BY <2>1, <3>4, <3>5
  <2>4. CASE op[c].verb # "recv"
    BY <2>1, <2>3, <2>4, GoneOrder
  <2>5. CASE op[c].verb = "recv"
    <3>1. cut' = << >> => cut = << >> /\ op[c].pc = "head"
      BY <2>1
    <3>2. cut' = << >> =>
            /\ Framed(Stream', "head")
            /\ Numbered(Stream', MessageKinds, Len(got') + 1, posted')
            /\ Numbered(Stream', {"ping"}, Len(outbox'.pongs) + 1, pings')
      BY <2>1, <2>2, <2>5, <3>1, Ahead
    <3> QED
      BY <2>1, <2>3, <2>5, <3>2, DoneOrder
  <2> QED
    BY <2>4, <2>5
<1> QED
  BY <1>1, <1>2, <1>3

LEMMA QuietOrder ==
  ASSUME IInv, OrderInv,
         \/ StreamEnds \/ Connect \/ ConnectFails \/ UNCHANGED vars
         \/ \E c \in Clients, verb \in {"send", "recv", "close"} : Take(c, verb)
  PROVE  OrderInv'
<1>1. CASE StreamEnds \/ UNCHANGED vars
  <2>1. UNCHANGED << owner, closed, inbox, unsent, outbox, op, got, cut, posted, pings >>
    BY <1>1 DEF StreamEnds, vars, peerVars
  <2> QED
    BY <2>1 DEF OrderInv, HistoriesTyped, VerbsMatch, CutFits, StreamFramed, MessagesAhead,
                PingsAhead, InFrame, PingHeld, Listening, Stream
<1>2. CASE Connect \/ ConnectFails
  <2>1. /\ owner = "unborn" /\ owner' \in {"pooled", "gone"}
        /\ UNCHANGED << closed, inbox, unsent, outbox, op, got, cut, posted, pings >>
    BY <1>2 DEF Connect, ConnectFails, peerVars
  <2>2. owner \notin Clients /\ owner' \notin Clients
    BY <2>1, ClientsOK
  <2>3. /\ ~ PingHeld /\ ~ PingHeld' /\ Listening
        /\ \A kinds : ~ InFrame(kinds) /\ ~ InFrame(kinds)'
    BY <2>1, <2>2 DEF PingHeld, InFrame, Listening
  <2>4. HistoriesTyped' /\ VerbsMatch' /\ CutFits' /\ Stream' = Stream
    BY <2>1 DEF OrderInv, HistoriesTyped, VerbsMatch, CutFits, Stream
  <2>5. StreamFramed'
    BY <2>1, <2>3, <2>4 DEF OrderInv, StreamFramed
  <2>6. MessagesAhead'
    BY <2>1, <2>3, <2>4 DEF OrderInv, MessagesAhead
  <2>7. PingsAhead'
    BY <2>1, <2>3, <2>4 DEF OrderInv, PingsAhead
  <2> QED
    BY <2>4, <2>5, <2>6, <2>7 DEF OrderInv
<1>3. ASSUME NEW c \in Clients, NEW verb \in {"send", "recv", "close"}, Take(c, verb)
      PROVE  OrderInv'
  <2> DEFINE first == [Idle EXCEPT !.verb = verb,
                                   !.pc = CASE verb = "send" -> "write"
                                            [] verb = "recv" -> "head"
                                            [] verb = "close" -> "bye"]
  <2>1. /\ owner = "pooled" /\ owner' = c /\ op' = [op EXCEPT ![c] = first]
        /\ UNCHANGED << closed, inbox, unsent, outbox, got, cut, posted, pings >>
    BY <1>3 DEF Take, peerVars
  <2>2. /\ first.verb = verb /\ first.pc \in {"write", "head", "bye"}
        /\ first.pc = "head" => verb = "recv"
        /\ first.pc = "bye" => verb = "close"
        /\ first.pc = "write" => verb = "send"
    BY DEF Idle
  <2> HIDE DEF first
  <2>3. \A d \in Clients : op'[d] = IF d = c THEN first ELSE op[d]
    BY <2>1 DEF IInv, OpsTyped
  <2>4. owner \notin Clients /\ c # "gone"
    BY <2>1, ClientsOK
  <2>5. /\ ~ PingHeld /\ ~ PingHeld' /\ Listening
        /\ \A kinds : ~ InFrame(kinds) /\ ~ InFrame(kinds)'
    BY <2>1, <2>2, <2>3, <2>4 DEF PingHeld, InFrame, Listening
  <2>6. HistoriesTyped' /\ CutFits' /\ Stream' = Stream
    BY <2>1 DEF OrderInv, HistoriesTyped, CutFits, Stream
  <2>7. VerbsMatch'
    BY <2>1, <2>2, <2>3 DEF OrderInv, VerbsMatch
  <2>8. StreamFramed'
    BY <2>1, <2>5, <2>6 DEF OrderInv, StreamFramed
  <2>9. MessagesAhead'
    BY <2>1, <2>5, <2>6 DEF OrderInv, MessagesAhead
  <2>10. PingsAhead'
    BY <2>1, <2>5, <2>6 DEF OrderInv, PingsAhead
  <2> QED
    BY <2>6, <2>7, <2>8, <2>9, <2>10 DEF OrderInv
<1> QED
  BY <1>1, <1>2, <1>3

\* A part read by a client: what was ahead of it is ahead of it still.
LEMMA ReadAhead ==
  ASSUME IInv, OrderInv, inbox # << >>, inbox' = Tail(inbox), UNCHANGED peerVars,
         NEW first, NEW lo, NEW on
  PROVE  /\ Framed(Stream, first) =>
              /\ Head(inbox).part = first
              /\ Framed(Stream', IF first = "head" THEN "body" ELSE "head")
         /\ Numbered(Stream, MessageKinds, lo, posted) =>
              IF Head(inbox).part = "head" /\ Head(inbox).kind \in MessageKinds
              THEN Head(inbox).n = lo /\ lo <= posted /\ Numbered(Stream', MessageKinds, lo + 1, posted)
              ELSE Numbered(Stream', MessageKinds, lo, posted)
         /\ Numbered(Stream, {"ping"}, on, pings) =>
              IF Head(inbox).part = "head" /\ Head(inbox).kind = "ping"
              THEN Head(inbox).n = on /\ on <= pings /\ Numbered(Stream', {"ping"}, on + 1, pings)
              ELSE Numbered(Stream', {"ping"}, on, pings)
<1>1. /\ Stream \in Seq(Part) /\ Stream # << >> /\ Head(Stream) = Head(inbox)
      /\ Stream' = Tail(Stream)
  BY StreamRead DEF IInv
<1>2. Framed(Stream, first) =>
        /\ Head(inbox).part = first
        /\ Framed(Stream', IF first = "head" THEN "body" ELSE "head")
  BY <1>1, FramedRead
<1>3. ASSUME Numbered(Stream, MessageKinds, lo, posted)
      PROVE  IF Head(inbox).part = "head" /\ Head(inbox).kind \in MessageKinds
             THEN Head(inbox).n = lo /\ lo <= posted /\ Numbered(Stream', MessageKinds, lo + 1, posted)
             ELSE Numbered(Stream', MessageKinds, lo, posted)
  BY <1>1, <1>3, NumberedRead
<1>4. ASSUME Numbered(Stream, {"ping"}, on, pings)
      PROVE  IF Head(inbox).part = "head" /\ Head(inbox).kind \in {"ping"}
             THEN Head(inbox).n = on /\ on <= pings /\ Numbered(Stream', {"ping"}, on + 1, pings)
             ELSE Numbered(Stream', {"ping"}, on, pings)
  BY <1>1, <1>4, NumberedRead
<1>5. Head(inbox).kind \in {"ping"} <=> Head(inbox).kind = "ping"
  OBVIOUS
<1> QED
  BY <1>2, <1>3, <1>4, <1>5

LEMMA ReadHeadOrder ==
  ASSUME IInv, OrderInv, NEW c \in Clients, ReadHead(c)
  PROVE  OrderInv'
<1> DEFINE next(kind, n) == [op[c] EXCEPT !.pc = "body", !.kind = kind, !.n = n]
<1>1. /\ op[c].pc = "head" /\ inbox # << >> /\ inbox' = Tail(inbox)
      /\ UNCHANGED << closed, outbox, got, cut >> /\ UNCHANGED peerVars
  BY DEF ReadHead
<1>2. op[c] \in Op /\ op[c].verb \in {"recv", "close"}
  BY <1>1, HasFrame DEF OrderInv, VerbsMatch
<1>3. HistoriesTyped' /\ CutFits'
  BY <1>1, HistoriesKept
<1>4. Head(inbox) \in Part /\ posted' = posted /\ pings' = pings
  BY <1>1, InboxTail DEF IInv, peerVars
<1>5. CASE Fails(c)
  BY <1>1, <1>3, <1>5, GoneOrder DEF Fails
<1>6. ASSUME NEW kind \in Kinds, NEW n \in Nat, Continue(c, next(kind, n)),
             cut = << >> => kind = Head(inbox).kind /\ n = Head(inbox).n
      PROVE  OrderInv'
  <2> DEFINE go == next(kind, n)
  <2>1. go.pc = "body" /\ go.kind = kind /\ go.n = n /\ go.verb = op[c].verb
    BY <1>2 DEF Op
  <2>2. Continue(c, go)
    BY <1>6
  <2> HIDE DEF go, next
  <2>3. ASSUME cut' = << >>
        PROVE  /\ Framed(Stream', "body")
               /\ go.verb # "close" =>
                    IF go.kind \in MessageKinds
                    THEN /\ go.n = Len(got') + 1 /\ go.n <= posted'
                         /\ Numbered(Stream', MessageKinds, Len(got') + 2, posted')
                    ELSE Numbered(Stream', MessageKinds, Len(got') + 1, posted')
               /\ IF go.kind = "ping"
                  THEN /\ go.n = Len(outbox'.pongs) + 1 /\ go.n <= pings'
                       /\ Numbered(Stream', {"ping"}, Len(outbox'.pongs) + 2, pings')
                  ELSE Numbered(Stream', {"ping"}, Len(outbox'.pongs) + 1, pings')
    <3> DEFINE lo == Len(got) + 1
               on == Len(outbox.pongs) + 1
    <3>1. cut = << >> /\ kind = Head(inbox).kind /\ n = Head(inbox).n
      BY <1>1, <1>6, <2>3
    <3>2. /\ Framed(Stream, "head")
          /\ op[c].verb # "close" => Numbered(Stream, MessageKinds, lo, posted)
          /\ Numbered(Stream, {"ping"}, on, pings)
      BY <1>1, <3>1, Ahead
    <3>3. lo + 1 = Len(got') + 2 /\ on + 1 = Len(outbox'.pongs) + 2
          /\ lo = Len(got') + 1 /\ on = Len(outbox'.pongs) + 1
      <4>1. got \in Seq(Nat) /\ outbox.pongs \in Seq(Nat)
        BY DEF OrderInv, HistoriesTyped
      <4>2. Len(got) \in Nat /\ Len(outbox.pongs) \in Nat
        BY <4>1, LenProperties
      <4> QED
        BY <1>1, <4>2
    <3> HIDE DEF lo, on
    <3>4. Head(inbox).part = "head" /\ Framed(Stream', "body")
      BY <1>1, <3>2, ReadAhead
    <3>5. op[c].verb # "close" =>
            IF Head(inbox).kind \in MessageKinds
            THEN Head(inbox).n = lo /\ lo <= posted /\ Numbered(Stream', MessageKinds, lo + 1, posted)
            ELSE Numbered(Stream', MessageKinds, lo, posted)
      BY <1>1, <3>2, <3>4, ReadAhead
    <3>6. IF Head(inbox).kind = "ping"
          THEN Head(inbox).n = on /\ on <= pings /\ Numbered(Stream', {"ping"}, on + 1, pings)
          ELSE Numbered(Stream', {"ping"}, on, pings)
      BY <1>1, <3>2, <3>4, ReadAhead
    <3> QED
      BY <1>4, <2>1, <3>1, <3>3, <3>4, <3>5, <3>6
  <2> QED
    BY <1>1, <1>2, <1>3, <2>1, <2>2, <2>3, ContinueOrder
<1>7. CASE Continue(c, next(Head(inbox).kind, Head(inbox).n))
  <2>1. Head(inbox).kind \in Kinds /\ Head(inbox).n \in Nat
    BY <1>4 DEF Part
  <2> QED
    BY <1>6, <1>7, <2>1
<1>8. CASE Head(inbox).part = "body" /\ Continue(c, next("text", 0))
  <2>1. cut = << >> => Framed(Stream, "head")
    BY <1>1, Ahead
  <2>2. cut # << >>
    BY <1>1, <1>8, <2>1, ReadAhead
  <2>3. "text" \in Kinds
    BY DEF Kinds
  <2> QED
    BY <1>6, <1>8, <2>2, <2>3
<1> QED
  BY <1>5, <1>7, <1>8 DEF ReadHead

\* What next_frame returns.
LEMMA MessageOrder ==
  ASSUME IInv, OrderInv, NEW c \in Clients, op[c].pc \in {"body", "echo"}, closed' = closed,
         NEW m \in Nat, Message(c, m), UNCHANGED << cut, peerVars >>,
         outbox' \in [text : Nat, close : Nat, pongs : Seq(Nat)], outbox'.pongs = outbox.pongs,
         op[c].pc = "body" =>
           op[c].kind \in MessageKinds /\ m = op[c].n /\ inbox # << >> /\ inbox' = Tail(inbox),
         op[c].pc = "echo" => inbox' = inbox
  PROVE  OrderInv'
<1>1. /\ op[c] \in Op /\ op[c].verb \in {"recv", "close"} /\ (op[c].pc = "echo" => closed)
      /\ got \in Seq(Nat) /\ Len(got) \in Nat /\ posted' = posted /\ pings' = pings
  <2>1. got \in Seq(Nat)
    BY DEF OrderInv, HistoriesTyped
  <2> QED
    BY <2>1, HasFrame, LenProperties DEF OrderInv, VerbsMatch, peerVars
<1>2. got' = got \/ (got' = Append(got, m) /\ op[c].verb = "recv" /\ ~ closed)
  BY DEF Message
<1>3. HistoriesTyped' /\ Len(got) <= Len(got')
  <2>1. got' \in Seq(Nat) /\ Len(got) <= Len(got') /\ Len(got') \in Nat
    <3>1. Append(got, m) \in Seq(Nat) /\ Len(Append(got, m)) = Len(got) + 1
      BY <1>1, AppendProperties
    <3>2. Len(got) <= Len(Append(got, m)) /\ Len(Append(got, m)) \in Nat
      BY <1>1, <3>1
    <3>3. CASE got' = got
      BY <1>1, <3>3
    <3>4. CASE got' = Append(got, m)
      BY <3>1, <3>2, <3>4
    <3> QED
      BY <1>2, <3>3, <3>4
  <2> QED
    BY <2>1 DEF HistoriesTyped
<1>4. CutFits'
  BY <1>1, <1>2, <1>3, AppendProperties DEF OrderInv, CutFits
<1>5. CASE op[c].verb = "recv" /\ closed
  BY <1>3, <1>4, <1>5, GoneOrder DEF Message
<1>6. CASE op[c].verb = "recv" /\ ~ closed
  <2>1. Done(c, "pooled") /\ got' = Append(got, m) /\ op[c].pc = "body"
    BY <1>1, <1>6 DEF Message
  <2>2. op[c].kind \in MessageKinds /\ inbox # << >> /\ inbox' = Tail(inbox) /\ op[c].kind # "ping"
    BY <2>1 DEF MessageKinds
  <2>3. Len(got') + 1 = Len(got) + 2
    BY <1>1, <2>1, AppendProperties
  <2>4. ASSUME cut' = << >>
        PROVE  /\ Framed(Stream', "head")
               /\ Numbered(Stream', MessageKinds, Len(got') + 1, posted')
               /\ Numbered(Stream', {"ping"}, Len(outbox'.pongs) + 1, pings')
    <3>1. cut = << >>
      BY <2>4
    <3>2. /\ Framed(Stream, "body")
          /\ Numbered(Stream, MessageKinds, Len(got) + 2, posted)
          /\ Numbered(Stream, {"ping"}, Len(outbox.pongs) + 1, pings)
      BY <1>6, <2>1, <2>2, <3>1, Ahead
    <3>3. Head(inbox).part = "body" /\ Framed(Stream', "head")
      BY <2>2, <3>2, ReadAhead
    <3>4. Numbered(Stream', MessageKinds, Len(got) + 2, posted)
      BY <2>2, <3>2, <3>3, ReadAhead
    <3>5. Numbered(Stream', {"ping"}, Len(outbox.pongs) + 1, pings)
      BY <2>2, <3>2, <3>3, ReadAhead
    <3> QED
      BY <1>1, <2>3, <3>3, <3>4, <3>5
  <2> QED
    BY <1>3, <1>4, <2>1, <2>4, DoneOrder
<1>7. CASE op[c].verb = "close"
  <2> DEFINE go == [op[c] EXCEPT !.pc = "head", !.fragments = FALSE]
  <2>1. /\ Continue(c, go) /\ got' = got
        /\ go.pc = "head" /\ go.verb = "close" /\ go.kind \in Kinds
    BY <1>1, <1>7 DEF Message, Op
  <2> HIDE DEF go
  <2>2. ASSUME cut' = << >>
        PROVE  /\ Framed(Stream', "head")
               /\ Numbered(Stream', {"ping"}, Len(outbox'.pongs) + 1, pings')
    <3>1. cut = << >>
      BY <2>2
    <3>2. /\ Framed(Stream, IF op[c].pc = "body" THEN "body" ELSE "head")
          /\ Numbered(Stream, {"ping"}, Len(outbox.pongs) + 1, pings)
      BY <3>1, Ahead DEF MessageKinds
    <3>3. CASE op[c].pc = "echo"
      BY <1>1, <3>2, <3>3, StreamKept
    <3>4. CASE op[c].pc = "body"
      <4>1. Head(inbox).part = "body" /\ Framed(Stream', "head")
        BY <3>2, <3>4, ReadAhead
      <4>2. Numbered(Stream', {"ping"}, Len(outbox.pongs) + 1, pings)
        BY <3>2, <3>4, <4>1, ReadAhead
      <4> QED
        BY <1>1, <4>1, <4>2
    <3> QED
      BY <3>3, <3>4
  <2> QED
    BY <1>3, <1>4, <2>1, <2>2, ContinueOrder
<1> QED
  BY <1>1, <1>5, <1>6, <1>7

LEMMA BodyAndPongOrder ==
  ASSUME IInv, OrderInv, NEW c \in Clients, ReadBody(c) \/ Pong(c) \/ Echo(c) \/ Bye(c)
  PROVE  OrderInv'
<1>1. /\ op[c] \in Op /\ op[c].n \in Nat
      /\ outbox \in [text : Nat, close : Nat, pongs : Seq(Nat)]
      /\ outbox.pongs \in Seq(Nat) /\ Len(outbox.pongs) \in Nat
  <2>1. op[c] \in Op /\ outbox \in [text : Nat, close : Nat, pongs : Seq(Nat)]
    BY DEF IInv, OpsTyped, OrderInv, HistoriesTyped
  <2> QED
    BY <2>1, LenProperties DEF Op
<1>2. CASE ReadBody(c)
  <2>1. /\ op[c].pc = "body" /\ inbox # << >> /\ inbox' = Tail(inbox) /\ UNCHANGED << cut, peerVars >>
    BY <1>2 DEF ReadBody
  <2>2. op[c].verb \in {"recv", "close"} /\ posted' = posted /\ pings' = pings
    BY <2>1 DEF OrderInv, VerbsMatch, peerVars
  <2>3. CASE op[c].kind \in {"text", "cont"} /\ UNCHANGED << closed, outbox >> /\ Message(c, op[c].n)
    BY <1>1, <2>1, <2>3, MessageOrder DEF MessageKinds
  <2>4. ASSUME UNCHANGED << outbox, got >>, NEW go, Continue(c, go), closed => closed',
               go.pc \in {"head", "pong", "echo"}, go.pc = "echo" => closed',
               go.verb = op[c].verb, go.kind = op[c].kind, go.n = op[c].n,
               op[c].kind \in {"first", "ping", "close"}, go.pc = "pong" <=> op[c].kind = "ping"
        PROVE  OrderInv'
    <3>1. HistoriesTyped' /\ CutFits'
      BY <2>1, <2>4, HistoriesKept
    <3>2. op[c].kind \notin MessageKinds
      BY <2>4 DEF MessageKinds
    <3>3. ASSUME cut' = << >>
          PROVE  /\ Framed(Stream', "head")
                 /\ go.verb # "close" => Numbered(Stream', MessageKinds, Len(got') + 1, posted')
                 /\ IF go.pc = "pong"
                    THEN /\ go.n = Len(outbox'.pongs) + 1 /\ go.n <= pings'
                         /\ Numbered(Stream', {"ping"}, Len(outbox'.pongs) + 2, pings')
                    ELSE Numbered(Stream', {"ping"}, Len(outbox'.pongs) + 1, pings')
      <4>1. cut = << >>
        BY <2>1, <3>3
      <4>2. /\ Framed(Stream, "body")
            /\ op[c].verb # "close" => Numbered(Stream, MessageKinds, Len(got) + 1, posted)
            /\ IF op[c].kind = "ping"
               THEN /\ op[c].n = Len(outbox.pongs) + 1 /\ op[c].n <= pings
                    /\ Numbered(Stream, {"ping"}, Len(outbox.pongs) + 2, pings)
               ELSE Numbered(Stream, {"ping"}, Len(outbox.pongs) + 1, pings)
        BY <2>1, <3>2, <4>1, Ahead
      <4>3. Head(inbox).part = "body" /\ Framed(Stream', "head")
        BY <2>1, <4>2, ReadAhead
      <4>4. op[c].verb # "close" => Numbered(Stream', MessageKinds, Len(got) + 1, posted)
        BY <2>1, <4>2, <4>3, ReadAhead
      <4>5. \A on : Numbered(Stream, {"ping"}, on, pings) => Numbered(Stream', {"ping"}, on, pings)
        BY <2>1, <4>3, ReadAhead
      <4> QED
        BY <2>2, <2>4, <4>2, <4>3, <4>4, <4>5
    <3> QED
      BY <1>1, <2>1, <2>2, <2>4, <3>1, <3>3, ContinueOrder DEF Op
  <2>5. CASE /\ op[c].kind = "first" /\ UNCHANGED << closed, outbox, got >>
             /\ Continue(c, [op[c] EXCEPT !.pc = "head", !.fragments = TRUE])
    <3> DEFINE go == [op[c] EXCEPT !.pc = "head", !.fragments = TRUE]
    <3>1. go.pc = "head" /\ go.verb = op[c].verb /\ go.kind = op[c].kind /\ go.n = op[c].n
      BY <1>1 DEF Op
    <3>2. Continue(c, go)
      BY <2>5
    <3> HIDE DEF go
    <3> QED
      BY <2>4, <2>5, <3>1, <3>2
  <2>6. CASE /\ op[c].kind = "ping" /\ UNCHANGED << closed, outbox, got >>
             /\ Continue(c, [op[c] EXCEPT !.pc = "pong"])
    <3> DEFINE go == [op[c] EXCEPT !.pc = "pong"]
    <3>1. go.pc = "pong" /\ go.verb = op[c].verb /\ go.kind = op[c].kind /\ go.n = op[c].n
      BY <1>1 DEF Op
    <3>2. Continue(c, go)
      BY <2>6
    <3> HIDE DEF go
    <3> QED
      BY <2>4, <2>6, <3>1, <3>2
  <2>7. CASE /\ op[c].kind = "close" /\ closed' = TRUE /\ UNCHANGED << outbox, got >>
             /\ Continue(c, [op[c] EXCEPT !.pc = "echo"])
    <3> DEFINE go == [op[c] EXCEPT !.pc = "echo"]
    <3>1. go.pc = "echo" /\ go.verb = op[c].verb /\ go.kind = op[c].kind /\ go.n = op[c].n
      BY <1>1 DEF Op
    <3>2. Continue(c, go)
      BY <2>7
    <3> HIDE DEF go
    <3> QED
      BY <2>4, <2>7, <3>1, <3>2
  <2> QED
    BY <1>2, <2>3, <2>5, <2>6, <2>7 DEF ReadBody
<1>3. CASE Pong(c)
  <2>1. /\ op[c].pc = "pong" /\ UNCHANGED << closed, inbox, got, cut, peerVars >>
    BY <1>3 DEF Pong
  <2>2. /\ op[c].verb \in {"recv", "close"}
        /\ Stream' = Stream /\ posted' = posted /\ pings' = pings
    BY <2>1, StreamKept DEF OrderInv, VerbsMatch
  <2>3. CASE Fails(c) /\ UNCHANGED outbox
    <3>1. HistoriesTyped' /\ CutFits'
      BY <2>1, <2>3, HistoriesKept
    <3> QED
      BY <2>1, <2>3, <3>1, GoneOrder DEF Fails
  <2>4. CASE /\ outbox' = [outbox EXCEPT !.pongs = Append(@, op[c].n)]
             /\ Continue(c, [op[c] EXCEPT !.pc = "head"])
    <3> DEFINE go == [op[c] EXCEPT !.pc = "head"]
               more == Append(outbox.pongs, op[c].n)
    <3>1. go.pc = "head" /\ go.verb = op[c].verb /\ go.kind \in Kinds
      BY <1>1 DEF Op
    <3>2. Continue(c, go)
      BY <2>4
    <3>3. more \in Seq(Nat) /\ Len(more) = Len(outbox.pongs) + 1
      BY <1>1, AppendProperties
    <3> HIDE DEF go, more
    <3>4. outbox' \in [text : Nat, close : Nat, pongs : Seq(Nat)] /\ outbox'.pongs = more
      BY <1>1, <2>4, <3>3 DEF more
    <3>5. HistoriesTyped'
      BY <2>1, <3>4 DEF OrderInv, HistoriesTyped
    <3>6. CutFits'
      BY <1>1, <2>1, <3>3, <3>4 DEF OrderInv, CutFits
    <3>7. ASSUME cut' = << >>
          PROVE  /\ Framed(Stream', "head")
                 /\ go.verb # "close" => Numbered(Stream', MessageKinds, Len(got') + 1, posted')
                 /\ Numbered(Stream', {"ping"}, Len(outbox'.pongs) + 1, pings')
      <4>1. cut = << >>
        BY <2>1, <3>7
      <4>2. /\ Framed(Stream, "head")
            /\ op[c].verb # "close" => Numbered(Stream, MessageKinds, Len(got) + 1, posted)
            /\ Numbered(Stream, {"ping"}, Len(outbox.pongs) + 2, pings)
        BY <2>1, <4>1, Ahead
      <4>3. Len(outbox'.pongs) + 1 = Len(outbox.pongs) + 2
        BY <1>1, <3>3, <3>4
      <4> QED
        BY <2>1, <2>2, <3>1, <4>2, <4>3
    <3> QED
      BY <2>1, <2>2, <3>1, <3>2, <3>5, <3>6, <3>7, ContinueOrder
  <2> QED
    BY <1>3, <2>3, <2>4 DEF Pong
<1>4. CASE Echo(c) \/ Bye(c)
  <2>1. [outbox EXCEPT !.close = @ + 1] \in [text : Nat, close : Nat, pongs : Seq(Nat)]
        /\ [outbox EXCEPT !.close = @ + 1].pongs = outbox.pongs
    BY <1>1
  <2>2. CASE Echo(c)
    BY <2>1, <2>2, MessageOrder DEF Echo
  <2>3. CASE Bye(c)
    <3>1. op[c].pc = "bye" /\ UNCHANGED << closed, inbox, got, cut, peerVars >>
      BY <2>3 DEF Bye
    <3>2. op[c].verb = "close" /\ Stream' = Stream /\ posted' = posted /\ pings' = pings
      BY <3>1, StreamKept DEF OrderInv, VerbsMatch
    <3>3. CASE Done(c, "gone") /\ UNCHANGED outbox
      <4>1. HistoriesTyped' /\ CutFits'
        BY <3>1, <3>3, HistoriesKept
      <4> QED
        BY <3>1, <3>3, <4>1, GoneOrder
    <3>4. CASE /\ outbox' = [outbox EXCEPT !.close = @ + 1]
               /\ Continue(c, [op[c] EXCEPT !.pc = "head"])
      <4> DEFINE go == [op[c] EXCEPT !.pc = "head"]
      <4>1. go.pc = "head" /\ go.verb = "close" /\ go.kind \in Kinds
        BY <1>1, <3>2 DEF Op
      <4>2. Continue(c, go)
        BY <3>4
      <4> HIDE DEF go
      <4>3. HistoriesTyped' /\ CutFits' /\ outbox'.pongs = outbox.pongs
        BY <2>1, <3>1, <3>4 DEF OrderInv, HistoriesTyped, CutFits
      <4>4. cut' = << >> => /\ Framed(Stream', "head")
                            /\ Numbered(Stream', {"ping"}, Len(outbox'.pongs) + 1, pings')
        BY <3>1, <3>2, <4>3, Ahead
      <4> QED
        BY <3>1, <4>1, <4>2, <4>3, <4>4, ContinueOrder
    <3> QED
      BY <2>3, <3>3, <3>4 DEF Bye
  <2> QED
    BY <1>4, <2>2, <2>3
<1> QED
  BY <1>2, <1>3, <1>4

LEMMA OrderPreserved == IInv /\ OrderInv /\ [Next]_vars => OrderInv'
<1> SUFFICES ASSUME IInv, OrderInv, [Next]_vars PROVE OrderInv'
  OBVIOUS
<1> QED
  BY PeerOrderSteps, QuietOrder, EndOrder, ReadHeadOrder, BodyAndPongOrder DEF Next, Read

-----------------------------------------------------------------------------
(* What agents and the peer have got *)

\* What a step does to a history: it adds to it, or a time limit ends what counts.
LEMMA Histories ==
  ASSUME IInv, OrderInv, [Next]_vars
  PROVE  /\ \/ UNCHANGED << got, outbox.pongs, cut >> /\ posted' = posted /\ pings' = pings
            \/ /\ UNCHANGED << got, outbox.pongs, cut >>
               /\ posted' \in {posted, posted + 1} /\ pings' \in {pings, pings + 1}
            \/ /\ UNCHANGED << got, outbox.pongs, posted, pings >>
               /\ cut = << >> /\ cut' = << Len(got), Len(outbox.pongs) >>
            \/ /\ UNCHANGED << outbox.pongs, cut, posted, pings >>
               /\ \E m \in Nat : /\ got' = Append(got, m)
                                 /\ cut = << >> => m = Len(got) + 1 /\ m <= posted
            \/ /\ UNCHANGED << got, cut, posted, pings >>
               /\ \E n \in Nat : /\ outbox'.pongs = Append(outbox.pongs, n)
                                 /\ cut = << >> => n = Len(outbox.pongs) + 1 /\ n <= pings
<1> DEFINE Same == UNCHANGED << got, outbox.pongs, cut >>
           Still == UNCHANGED << posted, pings >>
           Cut == /\ UNCHANGED << got, outbox.pongs, posted, pings >>
                  /\ cut = << >> /\ cut' = << Len(got), Len(outbox.pongs) >>
           Answer == /\ UNCHANGED << outbox.pongs, cut, posted, pings >>
                     /\ \E m \in Nat : /\ got' = Append(got, m)
                                       /\ cut = << >> => m = Len(got) + 1 /\ m <= posted
           Ponged == /\ UNCHANGED << got, cut, posted, pings >>
                     /\ \E n \in Nat : /\ outbox'.pongs = Append(outbox.pongs, n)
                                       /\ cut = << >> => n = Len(outbox.pongs) + 1 /\ n <= pings
<1>1. CASE \/ \E whole \in BOOLEAN : PeerMessage(whole)
           \/ PeerPing \/ PeerPingInside \/ PeerCloses \/ PeerSendsPart
  <2>1. Same /\ posted' \in {posted, posted + 1} /\ pings' \in {pings, pings + 1}
    BY <1>1 DEF PeerMessage, PeerPing, PeerPingInside, PeerCloses, PeerSendsPart
  <2> QED
    BY <2>1
<1>2. CASE \/ StreamEnds \/ Connect \/ ConnectFails \/ UNCHANGED vars
           \/ \E c \in Clients, verb \in {"send", "recv", "close"} : Take(c, verb)
  <2>1. Same /\ Still
    BY <1>2 DEF StreamEnds, Connect, ConnectFails, vars, peerVars, Take
  <2> QED
    BY <2>1
<1>3. ASSUME NEW c \in Clients,
             Write(c) \/ Bye(c) \/ ReadHead(c) \/ EndOfStream(c) \/ ReadClosed(c) \/ Cancel(c)
      PROVE  Same /\ Still
  <2>1. UNCHANGED << got, cut, posted, pings >>
    BY <1>3 DEF Write, Bye, ReadHead, EndOfStream, ReadClosed, Cancel, peerVars
  <2>2. outbox \in [text : Nat, close : Nat, pongs : Seq(Nat)]
    BY DEF OrderInv, HistoriesTyped
  <2>3. outbox' \in {outbox, [outbox EXCEPT !.text = @ + 1], [outbox EXCEPT !.close = @ + 1]}
    BY <1>3 DEF Write, Bye, ReadHead, EndOfStream, ReadClosed, Cancel, Done
  <2>4. outbox'.pongs = outbox.pongs
    BY <2>2, <2>3
  <2> QED
    BY <2>1, <2>4
<1>4. ASSUME NEW c \in Clients, Timeout(c)
      PROVE  (Same /\ Still) \/ Cut
  BY <1>4 DEF Timeout, peerVars
<1>5. ASSUME NEW c \in Clients, ReadBody(c)
      PROVE  (Same /\ Still) \/ Answer
  <2>1. op[c].pc = "body" /\ UNCHANGED << cut, outbox, posted, pings >>
    BY <1>5 DEF ReadBody, peerVars
  <2>2. got' = got
        \/ (got' = Append(got, op[c].n) /\ op[c].verb = "recv" /\ op[c].kind \in {"text", "cont"})
    BY <1>5 DEF ReadBody, Message
  <2>3. CASE got' = got
    BY <2>1, <2>3
  <2>4. CASE got' = Append(got, op[c].n) /\ op[c].verb = "recv" /\ op[c].kind \in {"text", "cont"}
    <3>1. op[c].n \in Nat
      BY DEF IInv, OpsTyped, Op
    <3>2. cut = << >> => op[c].n = Len(got) + 1 /\ op[c].n <= posted
      BY <2>1, <2>4, Ahead DEF MessageKinds
    <3> QED
      BY <2>1, <2>4, <3>1, <3>2
  <2> QED
    BY <2>2, <2>3, <2>4
<1>6. ASSUME NEW c \in Clients, Pong(c)
      PROVE  (Same /\ Still) \/ Ponged
  <2>1. op[c].pc = "pong" /\ UNCHANGED << cut, got, posted, pings >>
    BY <1>6 DEF Pong, peerVars
  <2>2. CASE UNCHANGED outbox
    BY <2>1, <2>2
  <2>3. CASE outbox' = [outbox EXCEPT !.pongs = Append(@, op[c].n)]
    <3>1. op[c].n \in Nat
      BY DEF IInv, OpsTyped, Op
    <3>2. cut = << >> => op[c].n = Len(outbox.pongs) + 1 /\ op[c].n <= pings
      BY <2>1, Ahead
    <3>3. outbox'.pongs = Append(outbox.pongs, op[c].n)
      BY <2>3 DEF OrderInv, HistoriesTyped
    <3> QED
      BY <2>1, <3>1, <3>2, <3>3
  <2> QED
    BY <1>6, <2>2, <2>3 DEF Pong
<1>7. ASSUME NEW c \in Clients, Echo(c)
      PROVE  Same /\ Still
  <2>1. UNCHANGED << cut, posted, pings >> /\ outbox' = [outbox EXCEPT !.close = @ + 1]
    BY <1>7 DEF Echo, peerVars
  <2>2. got' = got
    BY <1>7 DEF Echo, Message, OrderInv, VerbsMatch
  <2>3. outbox'.pongs = outbox.pongs
    BY <2>1 DEF OrderInv, HistoriesTyped
  <2> QED
    BY <2>1, <2>2, <2>3
<1>8. Next => \/ \E whole \in BOOLEAN : PeerMessage(whole)
              \/ PeerPing \/ PeerPingInside \/ PeerCloses \/ PeerSendsPart
              \/ StreamEnds \/ Connect \/ ConnectFails
              \/ \E c \in Clients, verb \in {"send", "recv", "close"} : Take(c, verb)
              \/ \E c \in Clients :
                   \/ Write(c) \/ Bye(c) \/ ReadHead(c) \/ EndOfStream(c) \/ ReadClosed(c) \/ Cancel(c)
                   \/ Timeout(c) \/ ReadBody(c) \/ Pong(c) \/ Echo(c)
  BY DEF Next, Read
<1>9. CASE \E c \in Clients :
             \/ Write(c) \/ Bye(c) \/ ReadHead(c) \/ EndOfStream(c) \/ ReadClosed(c) \/ Cancel(c)
             \/ Timeout(c) \/ ReadBody(c) \/ Pong(c) \/ Echo(c)
  <2>1. (Same /\ Still) \/ Cut \/ Answer \/ Ponged
    <3> HIDE DEF Same, Still, Cut, Answer, Ponged
    <3> QED
      BY <1>3, <1>4, <1>5, <1>6, <1>7, <1>9
  <2> QED
    BY <2>1
<1> QED
  BY <1>1, <1>2, <1>8, <1>9

\* What counts of a history is not changed by what is added after a time limit.
LEMMA BeforeKept ==
  ASSUME NEW h \in Seq(Nat), NEW m \in Nat, NEW k \in 0..Len(h)
  PROVE  SubSeq(Append(h, m), 1, k) = SubSeq(h, 1, k)
<1> DEFINE a == Append(h, m)
           s == SubSeq(a, 1, k)
           t == SubSeq(h, 1, k)
<1>1. /\ a \in Seq(Nat) /\ Len(h) \in Nat /\ Len(a) = Len(h) + 1
      /\ \A i \in 1..Len(h) : a[i] = h[i]
  BY AppendProperties, LenProperties
<1>2. \A i \in 1..k : i \in 1..Len(h) /\ i \in 1..Len(a)
  BY <1>1
<1> HIDE DEF a
<1>3. \A i \in 1..k : a[i] \in Nat /\ h[i] \in Nat /\ a[i] = h[i]
  BY <1>1, <1>2, ElementOfSeq
<1>4. s = [i \in 1..k |-> a[i]]
  BY <1>1, <1>2
<1>5. t = [i \in 1..k |-> h[i]]
  BY <1>1, <1>2
<1> QED
  BY <1>3, <1>4, <1>5 DEF a

LEMMA WholeKept ==
  ASSUME NEW h \in Seq(Nat)
  PROVE  SubSeq(h, 1, Len(h)) = h
BY SubSeqFull

LEMMA MessagesStep ==
  ASSUME IInv, OrderInv, [Next]_vars
  PROVE  [Messages!Post \/ Messages!Take]_<< posted, Before(got, 1) >>
<1>1. got \in Seq(Nat) /\ Len(got) \in Nat /\ posted \in Nat
  <2>1. got \in Seq(Nat)
    BY DEF OrderInv, HistoriesTyped
  <2> QED
    BY <2>1, LenProperties DEF IInv, PartsTyped
<1>2. CASE UNCHANGED << got, cut >> /\ posted' \in {posted, posted + 1}
  BY <1>2 DEF Messages!Post, Before
<1>3. CASE UNCHANGED << got, posted >> /\ cut = << >> /\ cut' = << Len(got), Len(outbox.pongs) >>
  <2>1. Before(got, 1)' = SubSeq(got, 1, Len(got)) /\ Before(got, 1) = got
    BY <1>3 DEF Before
  <2> QED
    BY <1>1, <1>3, <2>1, WholeKept
<1>4. ASSUME UNCHANGED << cut, posted >>, NEW m \in Nat, got' = Append(got, m),
             cut = << >> => m = Len(got) + 1 /\ m <= posted
      PROVE  [Messages!Post \/ Messages!Take]_<< posted, Before(got, 1) >>
  <2>1. CASE cut = << >>
    <3>1. Before(got, 1) = got /\ Before(got, 1)' = got'
      BY <1>4, <2>1 DEF Before
    <3>2. Len(got) < posted
      BY <1>1, <1>4, <2>1
    <3> QED
      BY <1>4, <2>1, <3>1, <3>2 DEF Messages!Take
  <2>2. CASE cut # << >>
    <3>1. cut[1] \in 0..Len(got)
      BY <2>2 DEF OrderInv, CutFits
    <3>2. Before(got, 1) = SubSeq(got, 1, cut[1]) /\ Before(got, 1)' = SubSeq(Append(got, m), 1, cut[1])
      BY <1>4, <2>2 DEF Before
    <3>3. Before(got, 1)' = Before(got, 1)
      BY <1>1, <3>1, <3>2, BeforeKept
    <3> QED
      BY <1>4, <3>3
  <2> QED
    BY <2>1, <2>2
<1> QED
  BY <1>2, <1>3, <1>4, Histories

LEMMA PongsStep ==
  ASSUME IInv, OrderInv, [Next]_vars
  PROVE  [Pongs!Post \/ Pongs!Take]_<< pings, Before(outbox.pongs, 2) >>
<1>1. outbox.pongs \in Seq(Nat) /\ Len(outbox.pongs) \in Nat /\ pings \in Nat
  <2>1. outbox.pongs \in Seq(Nat)
    BY DEF OrderInv, HistoriesTyped
  <2> QED
    BY <2>1, LenProperties DEF IInv, PartsTyped
<1>2. CASE UNCHANGED << outbox.pongs, cut >> /\ pings' \in {pings, pings + 1}
  BY <1>2 DEF Pongs!Post, Before
<1>3. CASE UNCHANGED << outbox.pongs, pings >> /\ cut = << >>
           /\ cut' = << Len(got), Len(outbox.pongs) >>
  <2>1. /\ Before(outbox.pongs, 2)' = SubSeq(outbox.pongs, 1, Len(outbox.pongs))
        /\ Before(outbox.pongs, 2) = outbox.pongs
    BY <1>3 DEF Before
  <2> QED
    BY <1>1, <1>3, <2>1, WholeKept
<1>4. ASSUME UNCHANGED << cut, pings >>, NEW n \in Nat, outbox'.pongs = Append(outbox.pongs, n),
             cut = << >> => n = Len(outbox.pongs) + 1 /\ n <= pings
      PROVE  [Pongs!Post \/ Pongs!Take]_<< pings, Before(outbox.pongs, 2) >>
  <2>1. CASE cut = << >>
    <3>1. Before(outbox.pongs, 2) = outbox.pongs /\ Before(outbox.pongs, 2)' = outbox'.pongs
      BY <1>4, <2>1 DEF Before
    <3>2. Len(outbox.pongs) < pings
      BY <1>1, <1>4, <2>1
    <3> QED
      BY <1>4, <2>1, <3>1, <3>2 DEF Pongs!Take
  <2>2. CASE cut # << >>
    <3>1. cut[2] \in 0..Len(outbox.pongs)
      BY <2>2 DEF OrderInv, CutFits
    <3>2. /\ Before(outbox.pongs, 2) = SubSeq(outbox.pongs, 1, cut[2])
          /\ Before(outbox.pongs, 2)' = SubSeq(Append(outbox.pongs, n), 1, cut[2])
      BY <1>4, <2>2 DEF Before
    <3>3. Before(outbox.pongs, 2)' = Before(outbox.pongs, 2)
      BY <1>1, <3>1, <3>2, BeforeKept
    <3> QED
      BY <1>4, <3>3
  <2> QED
    BY <2>1, <2>2
<1> QED
  BY <1>2, <1>3, <1>4, Histories

\* Agents get the messages of the peer, those in two frames put together, in the
\* order in which it sent them, none lost, repeated or made up (the loop over
\* frames of WsConn::recv, under the verbs that hand the connection on), until a
\* time limit comes in the middle of one.
THEOREM AgentsGetMessagesInOrder == Spec => MessagesInOrder
<1>1. Init => Messages!Init
  BY DEF Init, Messages!Init, Before
<1>2. IInv /\ OrderInv /\ [Next]_vars => [Messages!Post \/ Messages!Take]_<< posted, Before(got, 1) >>
  BY MessagesStep
<1> QED
  BY Initially, Preserved, OrderInit, OrderPreserved, <1>1, <1>2, PTL
  DEF Spec, MessagesInOrder, Messages!Spec

\* The pings that are ahead include each that has no pong yet.
LEMMA NothingForgotten == IInv /\ OrderInv => NoPingForgotten
<1> SUFFICES ASSUME IInv, OrderInv, owner = "pooled", cut = << >>,
                    NEW n \in (Len(outbox.pongs) + 1)..pings
             PROVE  \E i \in DOMAIN Stream : Stream[i] = [part |-> "head", kind |-> "ping", n |-> n]
  BY DEF NoPingForgotten
<1>1. owner \notin Clients /\ ~ PingHeld
  BY ClientsOK DEF PingHeld, InFrame
<1>2. Numbered(Stream, {"ping"}, Len(outbox.pongs) + 1, pings)
  BY <1>1 DEF OrderInv, PingsAhead
<1>3. PICK i \in Marks(Stream, {"ping"}) : Stream[i].n = n
  BY <1>2 DEF Numbered
<1>4. Stream \in Seq(Part)
  BY DEF IInv, PartsTyped, Stream
<1>5. i \in DOMAIN Stream /\ Stream[i].part = "head" /\ Stream[i].kind = "ping"
  BY <1>3 DEF Marks
<1>6. Stream[i] \in Part
  BY <1>4, <1>5
<1>7. Stream[i] = [part |-> "head", kind |-> "ping", n |-> n]
  BY <1>3, <1>5, <1>6 DEF Part
<1> QED
  BY <1>5, <1>7

\* Each ping of the peer is answered with its own pong, in the order of the pings
\* and never twice, and none is left without one when a connection goes back to the
\* pool (next_frame answers before it reads on), whatever verbs read the connection,
\* until a time limit comes in the middle of a message or of a pong.
THEOREM PingsGetPongsInOrder == Spec => PingsAnsweredInOrder
<1>1. Init => Pongs!Init
  BY DEF Init, Pongs!Init, Before
<1>2. IInv /\ OrderInv /\ [Next]_vars => [Pongs!Post \/ Pongs!Take]_<< pings, Before(outbox.pongs, 2) >>
  BY PongsStep
<1>3. IInv /\ OrderInv => NoPingForgotten
  BY NothingForgotten
<1>4. (IInv /\ OrderInv)' => [NoPingForgotten']_vars
  BY <1>3, PTL
<1> QED
  BY Initially, Preserved, OrderInit, OrderPreserved, <1>1, <1>2, <1>4, PTL
  DEF Spec, PingsAnsweredInOrder, Pongs!Spec
-----------------------------------------------------------------------------
(* Types *)

\* What no invariant above speaks of.
RestTyped ==
  /\ owner \in {"unborn", "pooled", "gone"} \cup Clients
  /\ closed \in BOOLEAN /\ over \in BOOLEAN /\ dead \in BOOLEAN
  /\ posted \in 0..MaxMessages /\ pings \in 0..MaxPings
  /\ cut \in Seq(Nat)

LEMMA RestKept ==
  ASSUME RestTyped, owner' \in {owner, "pooled", "gone"} \cup Clients, closed' \in {closed, TRUE},
         over' \in {over, TRUE}, dead' \in {dead, TRUE},
         posted' = posted \/ (posted < MaxMessages /\ posted' = posted + 1),
         pings' = pings \/ (pings < MaxPings /\ pings' = pings + 1),
         cut' \in Seq(Nat)
  PROVE  RestTyped'
<1>1. posted' \in 0..MaxMessages /\ pings' \in 0..MaxPings
  BY BoundsOK DEF RestTyped
<1> QED
  BY <1>1 DEF RestTyped

LEMMA RestPeer ==
  ASSUME RestTyped, \/ \E whole \in BOOLEAN : PeerMessage(whole)
                    \/ PeerPing \/ PeerPingInside \/ PeerCloses \/ PeerSendsPart
                    \/ StreamEnds \/ Connect \/ ConnectFails
  PROVE  RestTyped'
<1>1. cut' = cut /\ closed' = closed /\ cut \in Seq(Nat)
  BY DEF RestTyped, PeerMessage, PeerPing, PeerPingInside, PeerCloses, PeerSendsPart, StreamEnds, Connect,
         ConnectFails, PeerSends
<1>2. over' \in {over, TRUE} /\ dead' \in {dead, TRUE} /\ owner' \in {owner, "pooled", "gone"}
  BY DEF PeerMessage, PeerPing, PeerPingInside, PeerCloses, PeerSendsPart, StreamEnds, Connect, ConnectFails,
         peerVars
<1>3. posted' = posted \/ (posted < MaxMessages /\ posted' = posted + 1)
  BY DEF PeerMessage, PeerPing, PeerPingInside, PeerCloses, PeerSendsPart, StreamEnds, Connect, ConnectFails,
         peerVars
<1>4. pings' = pings \/ (pings < MaxPings /\ pings' = pings + 1)
  BY DEF PeerMessage, PeerPing, PeerPingInside, PeerCloses, PeerSendsPart, StreamEnds, Connect, ConnectFails,
         peerVars
<1> QED
  BY <1>1, <1>2, <1>3, <1>4, RestKept

LEMMA RestClient ==
  ASSUME RestTyped, HistoriesTyped, NEW c \in Clients,
         \/ \E verb \in {"send", "recv", "close"} : Take(c, verb)
         \/ Write(c) \/ Bye(c) \/ Read(c) \/ Timeout(c) \/ Cancel(c)
  PROVE  RestTyped'
<1>1. UNCHANGED peerVars
  BY DEF Take, Write, Bye, Read, ReadHead, ReadBody, Pong, Echo, EndOfStream, ReadClosed, Timeout, Cancel
<1>2. owner' \in {owner, "pooled", "gone"} \cup Clients
  <2>1. ASSUME NEW m, Message(c, m) PROVE owner' \in {owner, "pooled", "gone"}
    BY <2>1 DEF Message, Done, Continue
  <2> QED
    BY <2>1 DEF Take, Write, Bye, Read, ReadHead, ReadBody, Pong, Echo, EndOfStream, ReadClosed, Timeout, Cancel,
                Done, Continue, Fails
<1>3. closed' \in {closed, TRUE}
  BY DEF Take, Write, Bye, Read, ReadHead, ReadBody, Pong, Echo, EndOfStream, ReadClosed, Timeout, Cancel
<1>4. cut' \in Seq(Nat)
  <2>1. CASE Timeout(c)
    <3>1. Len(got) \in Nat /\ Len(outbox.pongs) \in Nat
      BY DEF HistoriesTyped
    <3>2. << Len(got), Len(outbox.pongs) >> \in Seq(Nat)
      BY <3>1
    <3>3. cut' = cut \/ cut' = << Len(got), Len(outbox.pongs) >>
      BY <2>1 DEF Timeout
    <3> QED
      BY <3>2, <3>3 DEF RestTyped
  <2>2. CASE ~ Timeout(c)
    <3>1. cut' = cut
      BY <2>2 DEF Take, Write, Bye, Read, ReadHead, ReadBody, Pong, Echo, EndOfStream, ReadClosed, Cancel
    <3> QED
      BY <3>1 DEF RestTyped
  <2> QED
    BY <2>1, <2>2
<1> QED
  BY <1>1, <1>2, <1>3, <1>4, RestKept DEF peerVars

LEMMA RestNext == RestTyped /\ HistoriesTyped /\ [Next]_vars => RestTyped'
<1> SUFFICES ASSUME RestTyped, HistoriesTyped, [Next]_vars PROVE RestTyped'
  OBVIOUS
<1>1. CASE UNCHANGED vars
  BY <1>1 DEF vars, peerVars, RestTyped
<1>2. CASE Next
  BY <1>2, RestPeer, RestClient DEF Next
<1> QED
  BY <1>1, <1>2

\* The operation of a client is one of those of the verbs, the stream holds heads and
\* bodies of frames and nothing else, and the bounds of the peer hold (TypeOK): what
\* read_head makes of bytes it takes for a head is a frame again.
THEOREM TypeCorrect == Spec => []TypeOK
<1>1. Init => RestTyped
  <2> SUFFICES ASSUME Init PROVE RestTyped
    OBVIOUS
  <2>1. owner = "unborn" /\ cut = << >> /\ posted = 0 /\ pings = 0
    BY DEF Init
  <2>2. closed = FALSE /\ over = FALSE /\ dead = FALSE
    BY DEF Init
  <2>3. << >> \in Seq(Nat) /\ 0 \in 0..MaxMessages /\ 0 \in 0..MaxPings
    BY BoundsOK
  <2> QED
    BY <2>1, <2>2, <2>3 DEF RestTyped
<1>2. IInv /\ RestTyped /\ HistoriesTyped => TypeOK
  <2> SUFFICES ASSUME IInv, RestTyped, HistoriesTyped PROVE TypeOK
    OBVIOUS
  <2>1. inbox \in Seq(Part) /\ unsent \in Seq(Part) /\ op \in [Clients -> Op]
    BY DEF IInv, PartsTyped, OpsTyped
  <2> QED
    BY <2>1 DEF TypeOK, RestTyped, HistoriesTyped, Op
<1>3. OrderInv => HistoriesTyped
  BY DEF OrderInv
<1> QED
  BY Initially, Preserved, OrderInit, OrderPreserved, RestNext, <1>1, <1>2, <1>3, PTL DEF Spec
=============================================================================
