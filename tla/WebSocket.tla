------------------------------ MODULE WebSocket ------------------------------
(***************************************************************************)
(* An agent-owned WebSocket: the frame reader and writer of WsConn         *)
(* (crates/se-net/src/ws.rs) under the verbs ws_connect, ws_send, ws_recv  *)
(* and ws_close (crates/se-serve/src/lib.rs), which take the connection out*)
(* of the pool, run one operation on it and put it back.                   *)
(*                                                                         *)
(* One connection is modelled: ids are never reused and connections share  *)
(* nothing.  The stream is a sequence of frame parts, a head and a body per*)
(* frame, because read_head and read_payload await the stream separately.  *)
(* "text" stands for every frame that is a message of its own (text,       *)
(* binary, pong).  Payloads are numbers; lengths, masks, the opening       *)
(* handshake and the size limit are left out.                              *)
(***************************************************************************)
EXTENDS Naturals, Sequences

CONSTANTS
  Clients,       \* agents' requests in flight, one each
  MaxMessages,   \* BOUND: messages the peer sends
  MaxPings,      \* BOUND: pings the peer sends
  MaxSends       \* BOUND: messages the agent sends

ASSUME BoundsOK == MaxMessages \in Nat /\ MaxPings \in Nat /\ MaxSends \in Nat
ASSUME ClientsOK == {"unborn", "pooled", "gone"} \cap Clients = {}

VARIABLES
  owner,    \* who holds the connection: the pool, a client, nobody any more
  closed,   \* WsConn.closed: a close frame has been read
  inbox,    \* parts that have arrived and have not been read
  unsent,   \* parts of a message the peer has begun and not sent yet
  over,     \* the peer has sent its close frame
  dead,     \* the stream has ended
  posted,   \* messages the peer has begun
  pings,    \* pings the peer has begun
  outbox,   \* frames written to the peer: how many messages and close frames, and
            \* the numbers of the pongs
  op,       \* the operation of each client
  got,      \* history: messages answered to agents
  cut       \* history: how many messages and pongs there were when a time limit
            \* first came in the middle of a message, a pong or a close

peerVars == <<unsent, over, dead, posted, pings>>
vars == <<owner, closed, inbox, outbox, op, got, cut, peerVars>>

Kinds == {"text", "first", "cont", "ping", "close"}

\* kind and n are of the frame whose head has been read; fragments says that
\* the frames of a fragmented message are being put together.
Idle == [verb |-> "none", pc |-> "idle", kind |-> "text", n |-> 0, fragments |-> FALSE]

Init ==
  /\ owner = "unborn"
  /\ closed = FALSE
  /\ inbox = << >>
  /\ unsent = << >>
  /\ over = FALSE /\ dead = FALSE
  /\ posted = 0 /\ pings = 0
  /\ outbox = [text |-> 0, close |-> 0, pongs |-> << >>]
  /\ op = [c \in Clients |-> Idle]
  /\ got = << >>
  /\ cut = << >>

-----------------------------------------------------------------------------
(* The peer: any server that keeps to RFC 6455 *)

Frame(kind, n) == << [part |-> "head", kind |-> kind, n |-> n],
                     [part |-> "body", kind |-> kind, n |-> n] >>

PeerSends(parts) ==
  /\ ~over /\ ~dead
  /\ unsent = << >>
  /\ unsent' = parts

\* A message in one frame, or in two: what it says is known with the last one.
PeerMessage(whole) ==
  /\ posted < MaxMessages
  /\ posted' = posted + 1
  /\ PeerSends(IF whole THEN Frame("text", posted + 1)
               ELSE Frame("first", 0) \o Frame("cont", posted + 1))
  /\ UNCHANGED <<owner, closed, inbox, outbox, op, got, cut, over, dead, pings>>

PeerPing ==
  /\ pings < MaxPings
  /\ pings' = pings + 1
  /\ PeerSends(Frame("ping", pings + 1))
  /\ UNCHANGED <<owner, closed, inbox, outbox, op, got, cut, over, dead, posted>>

\* A control frame between the frames of a fragmented message.
PeerPingInside ==
  /\ posted < MaxMessages /\ pings < MaxPings
  /\ posted' = posted + 1
  /\ pings' = pings + 1
  /\ PeerSends(Frame("first", 0) \o Frame("ping", pings + 1)
               \o Frame("cont", posted + 1))
  /\ UNCHANGED <<owner, closed, inbox, outbox, op, got, cut, over, dead>>

\* Of its own accord or as the answer to the engine's close frame.
PeerCloses ==
  /\ PeerSends(Frame("close", 0))
  /\ over' = TRUE
  /\ UNCHANGED <<owner, closed, inbox, outbox, op, got, cut, dead, posted, pings>>

PeerSendsPart ==
  /\ unsent # << >> /\ ~dead
  /\ inbox' = Append(inbox, Head(unsent))
  /\ unsent' = Tail(unsent)
  /\ UNCHANGED <<owner, closed, outbox, op, got, cut, over, dead, posted, pings>>

StreamEnds ==
  /\ ~dead
  /\ dead' = TRUE
  /\ UNCHANGED <<owner, closed, inbox, outbox, op, got, cut, unsent, over, posted, pings>>

-----------------------------------------------------------------------------
(* The verbs *)

\* The handshake has succeeded; the connection enters the pool under a new id.
Connect ==
  /\ owner = "unborn"
  /\ owner' = "pooled"
  /\ UNCHANGED <<closed, inbox, outbox, op, got, cut, peerVars>>

\* The dial or the handshake fails: no server, another status than 101, a wrong
\* key, a stream that ends.  It fails too if a frame comes in the segment that ends
\* the headers: they are read until what was read ends with a blank line.
ConnectFails ==
  /\ owner = "unborn"
  /\ owner' = "gone"
  /\ UNCHANGED <<closed, inbox, outbox, op, got, cut, peerVars>>

\* A verb takes the connection out of the pool; if it is not there the verb
\* answers "no ws connection" and changes nothing.
Take(c, verb) ==
  /\ op[c].pc = "idle"
  /\ owner = "pooled"
  /\ verb = "send" => outbox.text < MaxSends
  /\ owner' = c
  /\ op' = [op EXCEPT ![c] = [Idle EXCEPT !.verb = verb,
                                          !.pc = CASE verb = "send" -> "write"
                                                   [] verb = "recv" -> "head"
                                                   [] verb = "close" -> "bye"]]
  /\ UNCHANGED <<closed, inbox, outbox, got, cut, peerVars>>

\* The verb is over and the connection ends up with `where'.
Done(c, where) ==
  /\ owner' = where
  /\ op' = [op EXCEPT ![c] = Idle]

Continue(c, next) ==
  /\ op' = [op EXCEPT ![c] = next]
  /\ UNCHANGED owner

\* ws_send writes one frame; on an error, or if a close frame has been read,
\* the connection is dropped.
Write(c) ==
  /\ op[c].pc = "write"
  /\ \/ /\ ~closed
        /\ outbox' = [outbox EXCEPT !.text = @ + 1]
        /\ Done(c, "pooled")
     \/ /\ closed \/ dead
        /\ Done(c, "gone")
        /\ UNCHANGED outbox
  /\ UNCHANGED <<closed, inbox, got, cut, peerVars>>

\* ws_close writes a close frame, whether that succeeds or not, and drains.
Bye(c) ==
  /\ op[c].pc = "bye"
  /\ IF closed THEN Done(c, "gone") /\ UNCHANGED outbox
     ELSE /\ outbox' = [outbox EXCEPT !.close = @ + 1]
          /\ Continue(c, [op[c] EXCEPT !.pc = "head"])
  /\ UNCHANGED <<closed, inbox, got, cut, peerVars>>

-----------------------------------------------------------------------------
(* next_frame, under recv and under the drain of close *)

\* An error of the stream or the protocol: the connection is dropped.
Fails(c) == Done(c, "gone")

\* read_head: a continuation is expected exactly inside a fragmented message.
\* Bytes of a body that are taken for a head may say anything.
ReadHead(c) ==
  LET part == Head(inbox)
      read(kind, n) == Continue(c, [op[c] EXCEPT !.pc = "body", !.kind = kind, !.n = n])
  IN  /\ op[c].pc = "head"
      /\ ~closed
      /\ inbox # << >>
      /\ inbox' = Tail(inbox)
      /\ \/ /\ part.part = "head"
            /\ op[c].fragments <=> part.kind = "cont"
            /\ read(part.kind, part.n)
         \/ /\ part.part = "head"
            /\ op[c].fragments <=> part.kind # "cont"
            /\ Fails(c)
         \/ /\ part.part = "body"
            /\ read("text", 0) \/ Fails(c)
      /\ UNCHANGED <<closed, outbox, got, cut, peerVars>>

\* MUTANT: the connection is pooled again after a close frame.
MessagePooledOnClose(c, m) ==
  IF op[c].verb = "recv"
  THEN Done(c, "pooled") /\ got' = IF closed THEN got ELSE Append(got, m)
  ELSE Continue(c, [op[c] EXCEPT !.pc = "head", !.fragments = FALSE]) /\ UNCHANGED got

\* recv answers with the message and returns the connection, unless the
\* message was a close; the drain of close goes on.
Message(c, m) ==
  IF op[c].verb = "recv"
  THEN IF closed THEN Done(c, "gone") /\ UNCHANGED got
       ELSE Done(c, "pooled") /\ got' = Append(got, m)
  ELSE Continue(c, [op[c] EXCEPT !.pc = "head", !.fragments = FALSE]) /\ UNCHANGED got

\* MUTANT: a fragmented message is answered at its first frame.
ReadBodyUnassembled(c) ==
  /\ op[c].pc = "body"
  /\ inbox # << >>
  /\ inbox' = Tail(inbox)
  /\ \/ /\ op[c].kind \in {"text", "first", "cont"}
        /\ Message(c, op[c].n)
        /\ UNCHANGED <<closed, outbox>>
     \/ /\ op[c].kind = "ping"
        /\ Continue(c, [op[c] EXCEPT !.pc = "pong"])
        /\ UNCHANGED <<closed, outbox, got>>
     \/ /\ op[c].kind = "close"
        /\ closed' = TRUE
        /\ Continue(c, [op[c] EXCEPT !.pc = "echo"])
        /\ UNCHANGED <<outbox, got>>
  /\ UNCHANGED <<cut, peerVars>>

\* read_payload, and what next_frame makes of the frame.
ReadBody(c) ==
  /\ op[c].pc = "body"
  /\ inbox # << >>
  /\ inbox' = Tail(inbox)
  /\ \/ /\ op[c].kind \in {"text", "cont"}
        /\ UNCHANGED <<closed, outbox>>
        /\ Message(c, op[c].n)
     \/ /\ op[c].kind = "first"
        /\ Continue(c, [op[c] EXCEPT !.pc = "head", !.fragments = TRUE])
        /\ UNCHANGED <<closed, outbox, got>>
     \/ /\ op[c].kind = "ping"
        /\ Continue(c, [op[c] EXCEPT !.pc = "pong"])
        /\ UNCHANGED <<closed, outbox, got>>
     \/ /\ op[c].kind = "close"
        /\ closed' = TRUE
        /\ Continue(c, [op[c] EXCEPT !.pc = "echo"])
        /\ UNCHANGED <<outbox, got>>
  /\ UNCHANGED <<cut, peerVars>>

\* MUTANT: a ping that comes when another has been answered is skipped.
PongOnce(c) ==
  /\ op[c].pc = "pong"
  /\ outbox' = IF outbox.pongs = << >> THEN [outbox EXCEPT !.pongs = <<op[c].n>>] ELSE outbox
  /\ Continue(c, [op[c] EXCEPT !.pc = "head"])
  /\ UNCHANGED <<closed, inbox, got, cut, peerVars>>

\* A ping is answered and reading goes on.
Pong(c) ==
  /\ op[c].pc = "pong"
  /\ \/ /\ outbox' = [outbox EXCEPT !.pongs = Append(@, op[c].n)]
        /\ Continue(c, [op[c] EXCEPT !.pc = "head"])
     \/ /\ dead
        /\ Fails(c)
        /\ UNCHANGED outbox
  /\ UNCHANGED <<closed, inbox, got, cut, peerVars>>

\* A close frame is answered with one, whether that succeeds or not.
Echo(c) ==
  /\ op[c].pc = "echo"
  /\ outbox' = [outbox EXCEPT !.close = @ + 1]
  /\ Message(c, 0)
  /\ UNCHANGED <<closed, inbox, cut, peerVars>>

EndOfStream(c) ==
  /\ op[c].pc \in {"head", "body"}
  /\ ~closed
  /\ inbox = << >> /\ dead
  /\ Fails(c)
  /\ UNCHANGED <<closed, inbox, outbox, got, cut, peerVars>>

\* Once a close frame has been read there is nothing to receive: the drain of
\* close stops, and recv fails.
ReadClosed(c) ==
  /\ op[c].pc = "head"
  /\ closed
  /\ Done(c, "gone")
  /\ UNCHANGED <<closed, inbox, outbox, got, cut, peerVars>>

\* MUTANT: only a receive has a time limit.
TimeoutRecvOnly(c) ==
  /\ op[c].pc \in {"head", "body"}
  /\ ~closed
  /\ inbox = << >>
  /\ op[c].verb = "recv"
  /\ Done(c, "pooled")
  /\ UNCHANGED <<closed, inbox, outbox, got, cut, peerVars>>

\* A read waits for the stream, or a write for a peer that does not read.
Waits(c) ==
  \/ op[c].pc \in {"head", "body"} /\ ~closed /\ inbox = << >>
  \/ op[c].pc \in {"pong", "echo"}

\* The time limit of recv (timeout_ms) or of the drain (250 ms) ends the wait.
\* What recv had read or written of a frame is forgotten, and the connection
\* goes back to the pool.
\* BOUND: fewer frames than a task may read without yielding.
Timeout(c) ==
  /\ Waits(c)
  /\ Done(c, IF op[c].verb = "recv" THEN "pooled" ELSE "gone")
  /\ cut' = IF cut = << >> /\ (op[c].pc # "head" \/ op[c].fragments)
            THEN <<Len(got), Len(outbox.pongs)>> ELSE cut
  /\ UNCHANGED <<closed, inbox, outbox, got, peerVars>>

\* The agent disconnects: its handler, and the connection it holds, is dropped.
Cancel(c) ==
  /\ op[c].pc # "idle"
  /\ Done(c, "gone")
  /\ UNCHANGED <<closed, inbox, outbox, got, cut, peerVars>>

-----------------------------------------------------------------------------
Read(c) ==
  ReadHead(c) \/ ReadBody(c) \/ Pong(c) \/ Echo(c) \/ EndOfStream(c) \/ ReadClosed(c)

Next ==
  \/ \E whole \in BOOLEAN : PeerMessage(whole)
  \/ PeerPing \/ PeerPingInside \/ PeerCloses \/ PeerSendsPart \/ StreamEnds
  \/ Connect \/ ConnectFails
  \/ \E c \in Clients, verb \in {"send", "recv", "close"} : Take(c, verb)
  \/ \E c \in Clients :
       \/ Write(c)
       \/ Bye(c)
       \/ Read(c)
       \/ Timeout(c)
       \/ Cancel(c)

Spec == Init /\ [][Next]_vars

\* A handler that can read does, or its time limit passes.  Nothing limits the
\* writes of ws_send and of ws_close's own close frame, which a peer that does
\* not read can hold up: no fairness is assumed of them, nor of the peer.
Fairness == \A c \in Clients : WF_vars(Read(c) \/ Timeout(c))

FairSpec == Spec /\ Fairness

-----------------------------------------------------------------------------
(* Properties *)

Part == [part : {"head", "body"}, kind : Kinds, n : Nat]

TypeOK ==
  /\ owner \in {"unborn", "pooled", "gone"} \cup Clients
  /\ closed \in BOOLEAN /\ over \in BOOLEAN /\ dead \in BOOLEAN
  /\ inbox \in Seq(Part) /\ unsent \in Seq(Part)
  /\ posted \in 0..MaxMessages /\ pings \in 0..MaxPings
  /\ outbox \in [text : Nat, close : Nat, pongs : Seq(Nat)]
  /\ op \in [Clients -> [verb : {"none", "send", "recv", "close"},
                         pc : {"idle", "write", "bye", "head", "body", "pong", "echo"},
                         kind : Kinds, n : Nat, fragments : BOOLEAN]]
  /\ got \in Seq(Nat) /\ cut \in Seq(Nat)

\* The connection is never used by two verbs, and never pooled while one uses
\* it or, as long as no time limit comes in the middle of a frame, once a close
\* frame has been read: a verb finds a connection it can use, or none.
PoolIsSound ==
  /\ \A c \in Clients : op[c].pc # "idle" <=> owner = c
  /\ owner = "pooled" /\ cut = << >> => ~closed

\* "Closed conns never go back": the same without that condition.
ClosedNeverGoesBack == owner = "pooled" => ~closed

\* The part of a history from before a time limit cut a message in two.
Before(history, k) == IF cut = << >> THEN history ELSE SubSeq(history, 1, cut[k])

\* One after the other, agents get the messages of the peer: none is lost,
\* repeated, reordered or made up, as long as the connection lasts and no time
\* limit comes in the middle of a frame or a fragmented message.
Messages == INSTANCE Mailbox WITH posted <- posted, taken <- Before(got, 1)
MessagesInOrder == Messages!Spec

\* What the peer has sent, or begun to, and nobody has read.
Stream == inbox \o unsent

\* While nobody reads a connection that can be used, each ping that has no pong yet
\* is still to be read.
NoPingForgotten ==
  owner = "pooled" /\ cut = << >> =>
    \A n \in (Len(outbox.pongs) + 1)..pings :
      \E i \in DOMAIN Stream : Stream[i] = [part |-> "head", kind |-> "ping", n |-> n]

\* "A ping arrived; it has been auto-answered": whichever verbs read them, pings are
\* answered once each and in order, on the same condition, and none that was read
\* is left without an answer on a connection that goes back to the pool.
Pongs == INSTANCE Mailbox WITH posted <- pings, taken <- Before(outbox.pongs, 2)
PingsAnsweredInOrder == Pongs!Spec /\ [][NoPingForgotten']_vars

\* "Pings are auto-answered and skipped": wherever the peer may put a ping, its head
\* does not end the verb that reads it.
PingsEndNoRead ==
  [][\A c \in Clients :
       /\ cut = << >> /\ ReadHead(c)
       /\ Head(inbox).part = "head" /\ Head(inbox).kind = "ping"
       => owner' = c]_vars

\* "Timeout is a NORMAL long-poll outcome ...: the conn goes back into the pool
\* and the agent retries": the messages are in order without that condition.
Retried == INSTANCE Mailbox WITH posted <- posted, taken <- got
MessagesSurviveTimeouts == Retried!Spec

\* recv ends, and close does once its close frame is out, whatever the peer
\* does or fails to do.
ReadsEnd ==
  \A c \in Clients :
    (op[c].pc \in {"head", "body", "pong", "echo"}) ~> (op[c].pc = "idle")

\* "if we didn't initiate, echo the close frame back": an endpoint sends one
\* close frame.
OneCloseFrame == outbox.close <= 1

=============================================================================
