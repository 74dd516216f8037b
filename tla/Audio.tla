-------------------------------- MODULE Audio --------------------------------
(***************************************************************************)
(* The Web Audio objects of a page: contexts, the graph of nodes script    *)
(* builds, buffers and their channels, and the rendering of an offline     *)
(* context (src/crates/se-js/src/bridge.rs and audio.rs).  Nothing is ever *)
(* played: a graph is data until startRendering walks it.                  *)
(*                                                                         *)
(* A sample is an integer.  Of the four waveforms, the compressor's curve  *)
(* and its envelope the model keeps that they depend on the parameter and  *)
(* the position.                                                           *)
(***************************************************************************)
EXTENDS Integers, Sequences, FiniteSets, SequencesExt

CONSTANTS
  Kinds,        \* the kinds of nodes script creates, in this order: the order of
                \* nodes of one context changes nothing
  Values,       \* what it sets a parameter to
  Lengths,      \* of the contexts and buffers it makes, in samples
  Channels,     \* how many channels it asks for
  Hops,         \* how far a chain is followed (8)
  MaxAudioCalls, MaxNodes, MaxEdges, MaxContexts, MaxBuffers  \* bounds of the model

AllKinds == {"oscillator", "bufferSource", "gain", "compressor", "other"}

ASSUME KindsOK == Kinds \in Seq(AllKinds)
ASSUME HopsOK == Hops \in Nat \ {0}
ASSUME SamplesOK == Values \subseteq Int /\ Values # {} /\ Lengths \subseteq Nat
ASSUME ChannelsOK == Channels \subseteq Nat \ {0}

VARIABLES
  contexts,   \* in the order they were made
  nodes,      \* of every context; a destination is a node too
  buffers,    \* every AudioBuffer; one ArrayBuffer holds all its channels
  audioCalls  \* of script, so far

audioVars == << contexts, nodes, buffers, audioCalls >>

AudioInit == contexts = <<>> /\ nodes = <<>> /\ buffers = <<>> /\ audioCalls = 0

Node(kind, dest, value) ==
  [kind |-> kind, dest |-> dest, value |-> value, buffer |-> 0, loop |-> FALSE,
   started |-> FALSE, toDest |-> FALSE, down |-> <<>>]

Silence(channels, len) == [channels |-> channels, len |-> len, data |-> [i \in 1..(channels * len) |-> 0]]

\* The samples of one channel: a view of the buffer at the channel's offset.
Channel(b, ch) == SubSeq(b.data, (ch - 1) * b.len + 1, ch * b.len)

---------------------------------------------------------------------------
(* Contexts, nodes and edges.                                               *)

\* new AudioContext() and new OfflineAudioContext(channels, length, rate).  Their
\* state attribute is left out: nothing here reads it.
NewContext ==
  /\ Len(contexts) < MaxContexts
  /\ \E offline \in BOOLEAN, channels \in Channels, len \in Lengths :
       contexts' = Append(contexts,
         [offline |-> offline, channels |-> channels, len |-> len, dest |-> Len(nodes) + 1])
  /\ nodes' = Append(nodes, Node("destination", 0, 0))
  /\ UNCHANGED buffers

Default(kind) == IF kind = "gain" THEN 1 ELSE CHOOSE v \in Values : TRUE

\* createOscillator, createGain, ...: each node keeps its context's destination.
CreateNode ==
  /\ Len(nodes) < MaxNodes
  /\ \E c \in DOMAIN contexts, k \in DOMAIN Kinds :
       /\ \A n \in DOMAIN nodes : nodes[n].kind \notin ToSet(SubSeq(Kinds, k + 1, Len(Kinds)))
       /\ nodes' = Append(nodes, Node(Kinds[k], contexts[c].dest, Default(Kinds[k])))
  /\ UNCHANGED << contexts, buffers >>

\* node.connect(to): its own destination is a flag, whatever else an edge.
Connect ==
  /\ \E n, to \in DOMAIN nodes :
       nodes' = IF nodes[n].dest = to THEN [nodes EXCEPT ![n].toDest = TRUE]
                ELSE [nodes EXCEPT ![n].down = Append(@, to)]
  /\ \A n \in DOMAIN nodes' : Len(nodes'[n].down) <= MaxEdges
  /\ UNCHANGED << contexts, buffers >>

\* node.disconnect(): from everything, whatever is passed.
Disconnect ==
  /\ \E n \in DOMAIN nodes : nodes' = [nodes EXCEPT ![n].down = <<>>, ![n].toDest = FALSE]
  /\ UNCHANGED << contexts, buffers >>

Sources == {n \in DOMAIN nodes : nodes[n].kind \in {"oscillator", "bufferSource"}}

\* start(); stop() does nothing.
Start ==
  /\ \E n \in Sources : nodes' = [nodes EXCEPT ![n].started = TRUE]
  /\ UNCHANGED << contexts, buffers >>

\* value = ... and the automation methods, which set it at once.
SetParam ==
  /\ \E n \in DOMAIN nodes, v \in Values :
       nodes[n].kind \in {"oscillator", "gain", "compressor"} /\ nodes' = [nodes EXCEPT ![n].value = v]
  /\ UNCHANGED << contexts, buffers >>

SetBuffer ==
  /\ \E n \in Sources, b \in DOMAIN buffers, loop \in BOOLEAN :
       nodes[n].kind = "bufferSource" /\ nodes' = [nodes EXCEPT ![n].buffer = b, ![n].loop = loop]
  /\ UNCHANGED << contexts, buffers >>

---------------------------------------------------------------------------
(* Buffers.                                                                 *)

\* new AudioBuffer(...) and createBuffer.
NewBuffer ==
  /\ Len(buffers) < MaxBuffers
  /\ \E channels \in Channels, len \in Lengths : buffers' = Append(buffers, Silence(channels, len))
  /\ UNCHANGED << contexts, nodes >>

\* Samples written from position at on, up to the end of the ArrayBuffer.
Written(data, at, vals) == [i \in DOMAIN data |-> IF i - at \in DOMAIN vals THEN vals[i - at] ELSE data[i]]

\* copyToChannel(vals, ch, start)
CopyToChannel ==
  /\ \E b \in DOMAIN buffers, v \in Values, n \in Lengths :
       \E ch \in 1..buffers[b].channels, start \in 0..buffers[b].len :
         buffers' = [buffers EXCEPT ![b].data =
                       Written(@, (ch - 1) * buffers[b].len + start, [i \in 1..n |-> v])]
  /\ UNCHANGED << contexts, nodes >>

\* copyFromChannel(view, ch, start) into a channel of another buffer, or of the
\* same: as many samples as the view has, zeros beyond the end.
CopyFromChannel ==
  /\ \E a, b \in DOMAIN buffers :
       \E ch \in 1..buffers[a].channels, to \in 1..buffers[b].channels, start \in 0..buffers[a].len :
         LET from == Channel(buffers[a], ch)
             vals == [k \in 1..buffers[b].len |-> IF start + k \in DOMAIN from THEN from[start + k] ELSE 0]
         IN buffers' = [buffers EXCEPT ![b].data = Written(@, (to - 1) * buffers[b].len, vals)]
  /\ UNCHANGED << contexts, nodes >>

---------------------------------------------------------------------------
(* Rendering.                                                               *)

\* osc_sample: some function of the frequency and the position.
Wave(frequency, i) == frequency * (1 + (i % 2))

\* A compressor lets through what is below its threshold, and of silence makes silence.
Compress(threshold, x) == IF x \in (- threshold)..threshold THEN x ELSE x \div 2

\* What a source plays at position i.  A buffer plays its first channel, once or
\* over and over.
Plays(n, i) ==
  LET s == nodes[n]
      ch == Channel(buffers[s.buffer], 1)
      at == IF s.loop THEN 1 + ((i - 1) % Len(ch)) ELSE i
  IN IF s.kind = "oscillator" THEN Wave(s.value, i)
     ELSE IF s.buffer = 0 \/ ch = <<>> \/ at \notin DOMAIN ch THEN 0
     ELSE ch[at]

\* One node further: gains are multiplied, the last compressor counts.
Past(m, w) ==
  [at |-> m,
   gain |-> IF nodes[m].kind = "gain" THEN w.gain * nodes[m].value ELSE w.gain,
   comp |-> IF nodes[m].kind = "compressor" THEN m ELSE w.comp]

Stops(m) == nodes[m].toDest \/ nodes[m].down = <<>>

\* Where the walk from a source ends, and what it met: first branches only, Hops
\* nodes at most, up to a node that is connected to its destination.
Followed(n) ==
  LET walk[h \in 1..Hops] ==
        IF h = 1 THEN [at |-> n, gain |-> 1, comp |-> 0]
        ELSE IF Stops(walk[h - 1].at) THEN walk[h - 1]
        ELSE Past(nodes[walk[h - 1].at].down[1], walk[h - 1])
  IN walk[Hops]

\* MUTANT of Heard: a chain that ends anywhere is heard.
HeardAnyway(n) == nodes[Followed(n).at].down = <<>>

Heard(n) == nodes[Followed(n).at].toDest

\* The gains on the way, then the last compressor, if any (0 is none).
Through(w, x) == IF w.comp = 0 THEN w.gain * x ELSE Compress(nodes[w.comp].value, w.gain * x)

Rendered(n, i) == Through(Followed(n), Plays(n, i))

\* The sum of f over the nodes of S, in the order they were made.
Total(S, f) ==
  LET sum[k \in 0..Len(nodes)] ==
        IF k = 0 THEN 0 ELSE sum[k - 1] + (IF k \in S THEN f[k] ELSE 0)
  IN sum[Len(nodes)]

Mix(c, i) ==
  Total({n \in Sources : nodes[n].dest = contexts[c].dest /\ nodes[n].started /\ Heard(n)},
        [n \in DOMAIN nodes |-> Rendered(n, i)])

\* startRendering(), any number of times: every channel of the buffer is the mix.
StartRendering(c) ==
  /\ contexts[c].offline /\ Len(buffers) < MaxBuffers
  /\ LET len == contexts[c].len
     IN buffers' = Append(buffers,
          [channels |-> contexts[c].channels, len |-> len,
           data |-> [i \in 1..(contexts[c].channels * len) |-> Mix(c, 1 + ((i - 1) % len))]])
  /\ UNCHANGED << contexts, nodes >>

AudioCall ==
  \/ NewContext \/ CreateNode \/ Connect \/ Disconnect \/ Start \/ SetParam \/ SetBuffer
  \/ NewBuffer \/ CopyToChannel \/ CopyFromChannel
  \/ \E c \in DOMAIN contexts : StartRendering(c)

AudioNext == audioCalls < MaxAudioCalls /\ audioCalls' = audioCalls + 1 /\ AudioCall

AudioSpec == AudioInit /\ [][AudioNext]_audioVars

---------------------------------------------------------------------------
(* Properties.                                                              *)

\* The types of the variables; a buffer never grows.
TypeOK ==
  /\ \A c \in DOMAIN contexts : contexts[c].dest \in DOMAIN nodes
  /\ \A n \in DOMAIN nodes :
       /\ nodes[n].buffer \in {0} \cup DOMAIN buffers
       /\ ToSet(nodes[n].down) \subseteq DOMAIN nodes
  /\ \A b \in DOMAIN buffers : Len(buffers[b].data) = buffers[b].channels * buffers[b].len

Feeds(m) == {k \in DOMAIN nodes : m \in ToSet(nodes[k].down)}

\* The signal that leaves each node at position i, as the Web Audio API defines it:
\* effects work on the sum of what comes in.  The depth is that of any chain below.
Signal(i) ==
  LET flow[d \in 0..(Len(nodes) + Hops)] ==
        [m \in DOMAIN nodes |->
           LET x == IF m \in Sources THEN (IF nodes[m].started THEN Plays(m, i) ELSE 0)
                    ELSE IF d = 0 THEN 0 ELSE Total(Feeds(m), flow[d - 1])
           IN CASE nodes[m].kind = "gain" -> x * nodes[m].value
                [] nodes[m].kind = "compressor" -> Compress(nodes[m].value, x)
                [] OTHER -> x]
  IN flow[Len(nodes) + Hops]

\* A graph of plain chains: no branches or edges between contexts, a compressor
\* last and nothing shared where there is one, and no source whose chain is
\* longer than is followed (or runs in a circle).
Plain ==
  /\ \A n \in DOMAIN nodes : Len(nodes[n].down) + (IF nodes[n].toDest THEN 1 ELSE 0) <= 1
  /\ \A n \in DOMAIN nodes : \A m \in ToSet(nodes[n].down) :
       nodes[m].dest = nodes[n].dest /\ m \notin Sources /\ nodes[n].kind # "compressor"
  /\ (\E n \in DOMAIN nodes : nodes[n].kind = "compressor") =>
       \A m \in DOMAIN nodes : \A k, l \in Feeds(m) : k = l
  /\ \A n \in Sources : Stops(Followed(n).at)

\* Rendering a graph of plain chains gives the signal that reaches the
\* context's destination (startRendering: "render every started source chain
\* into a mono mix").
RendersTheGraph ==
  [][\A c \in DOMAIN contexts :
       StartRendering(c) /\ Plain =>
         \A i \in 1..contexts[c].len :
           Channel(Last(buffers'), 1)[i] =
             Total({n \in DOMAIN nodes : nodes[n].toDest /\ nodes[n].dest = contexts[c].dest},
                   Signal(i))]_audioVars

\* Only the channel named is written (copyToChannel: "copy src values into the
\* channel's Float32Array at start").
CopyStaysInChannel ==
  [][CopyToChannel => \A b \in DOMAIN buffers :
       Cardinality({ch \in 1..buffers[b].channels :
                      Channel(buffers[b], ch) # Channel(buffers'[b], ch)}) <= 1]_audioVars
=============================================================================
