--------------------------- MODULE StructuredClone ---------------------------
(***************************************************************************)
(* structuredClone, as an algorithm on graphs of script's values           *)
(* (deep_clone_json in src/crates/se-js/src/bridge.rs).                    *)
(*                                                                         *)
(* A graph is a sequence of cells.  A cell has a kind and slots: what its   *)
(* properties or elements refer to, a cell's number or 0 for a primitive.   *)
(* "object" stands for arrays too, "buffer" for typed arrays and dates,     *)
(* "other" for what is refused: functions, maps, sets, errors, promises.    *)
(*                                                                         *)
(* The calls of deep_clone_json under way are a stack: each but the last    *)
(* waits for the copy of one slot of its object.                            *)
(***************************************************************************)
EXTENDS Naturals, Sequences, SequencesExt

CONSTANTS MaxCells, MaxSlots  \* bounds of the model: of a graph and of its cells

ASSUME CellsOK == MaxCells \in Nat \ {0} /\ MaxSlots \in Nat

VARIABLES
  original,  \* the graph script clones: the value is the first cell
  made,      \* the cells of the copy so far
  seen,      \* of each object met, the copy; 0 of what was not met
  todo,      \* the objects whose slots are being cloned, the innermost last
  outcome    \* of the call

cloneVars == << original, made, seen, todo, outcome >>

Cell(kind, slots) == [kind |-> kind, slots |-> slots]

\* All graphs of n cells.
GraphsOf(n) ==
  [1..n -> {Cell("object", s) : s \in BoundedSeq(0..n, MaxSlots)}
           \cup {Cell(k, <<>>) : k \in {"buffer", "other"}}]

CloneInit == original = <<>> /\ made = <<>> /\ seen = <<>> /\ todo = <<>> /\ outcome = "none"

\* structuredClone(value).  A call leaves nothing behind that another could meet:
\* BOUND: a behaviour has one.
StartClone ==
  /\ outcome = "none" /\ outcome' = "cloning"
  /\ \E graph \in GraphsOf(MaxCells) : original' = graph
  /\ seen' = [v \in 1..MaxCells |-> 0]
  /\ UNCHANGED << made, todo >>

---------------------------------------------------------------------------
(* deep_clone_json.                                                         *)

\* How many slots of the copy of v are filled.
Filled(v) == Len(made[seen[v]].slots)

\* All slots of the innermost object are.
AllFilled == todo # <<>> /\ Filled(Last(todo)) = Len(original[Last(todo)].slots)

\* What is cloned next: the value, and then a slot of the innermost object.
Due(v) ==
  /\ outcome = "cloning" /\ ~ AllFilled
  /\ v = IF todo = <<>> THEN 1 ELSE original[Last(todo)].slots[Filled(Last(todo)) + 1]

\* The call answers x, which the call that waits puts into its slot.
Answer(x, cells, waiting) ==
  /\ todo' = waiting
  /\ IF waiting = <<>> THEN made' = cells /\ outcome' = "cloned"
     ELSE /\ made' = [cells EXCEPT ![seen[Last(waiting)]].slots = Append(@, x)]
          /\ UNCHANGED outcome
  /\ UNCHANGED original

\* MUTANT of Known: only what is being cloned is known, not what has been.
KnownAbove(v) == v \in ToSet(todo)

Known(v) == seen[v] # 0

ClonePrimitive == Due(0) /\ Answer(0, made, todo) /\ UNCHANGED seen

\* A shared object, or a cycle: the copy there is.
CloneSeen ==
  /\ \E v \in DOMAIN original : Due(v) /\ Known(v) /\ Answer(seen[v], made, todo)
  /\ UNCHANGED seen

\* Buffers are copied wherever they are met.
CloneBuffer ==
  /\ \E v \in DOMAIN original :
       /\ Due(v) /\ ~ Known(v) /\ original[v].kind = "buffer"
       /\ Answer(Len(made) + 1, Append(made, original[v]), todo)
  /\ UNCHANGED seen

\* The copy of an object is known before its slots are cloned.
EnterObject ==
  /\ \E v \in DOMAIN original :
       /\ Due(v) /\ ~ Known(v) /\ original[v].kind = "object"
       /\ made' = Append(made, Cell("object", <<>>))
       /\ seen' = [seen EXCEPT ![v] = Len(made) + 1]
       /\ todo' = Append(todo, v)
  /\ UNCHANGED << original, outcome >>

LeaveObject ==
  /\ outcome = "cloning" /\ AllFilled
  /\ Answer(seen[Last(todo)], made, Front(todo))
  /\ UNCHANGED seen

\* A DataCloneError ends every call, and nothing is answered.
Refuse ==
  /\ \E v \in DOMAIN original : Due(v) /\ ~ Known(v) /\ original[v].kind = "other"
  /\ outcome' = "refused" /\ made' = <<>> /\ todo' = <<>>
  /\ UNCHANGED << original, seen >>

CloneNext ==
  \/ StartClone \/ ClonePrimitive \/ CloneSeen \/ CloneBuffer
  \/ EnterObject \/ LeaveObject \/ Refuse

CloneSpec == CloneInit /\ [][CloneNext]_cloneVars

---------------------------------------------------------------------------
(* What a clone is, said of paths: sequences of slots from the first cell.  *)

\* The cell a path leads to: 0 for a primitive, past the last for no such path.
Follow(graph, path) ==
  LET at[k \in 0..Len(path)] ==
        IF k = 0 THEN 1
        ELSE IF at[k - 1] \in DOMAIN graph /\ path[k] \in DOMAIN graph[at[k - 1]].slots
        THEN graph[at[k - 1]].slots[path[k]]
        ELSE Len(graph) + 1
  IN at[Len(path)]

Exists(graph, path) == Follow(graph, path) \in 0..Len(graph)

KindAt(graph, path) == IF Follow(graph, path) = 0 THEN "primitive" ELSE graph[Follow(graph, path)].kind

\* The same paths lead to the same kinds, and two meet in one object in the copy
\* just when they do in the original.
Isomorphic(graph, copy, paths) ==
  \A p \in paths :
    /\ Exists(graph, p) = Exists(copy, p)
    /\ Exists(graph, p) => KindAt(graph, p) = KindAt(copy, p)
    /\ Exists(graph, p) /\ KindAt(graph, p) = "object" =>
         \A q \in paths :
           (Follow(graph, p) = Follow(graph, q)) = (Follow(copy, p) = Follow(copy, q))

\* A clone is the value over again: as deep, with its sharing and its cycles, and
\* whole or not at all (deep_clone_json: "Cycles resolve to the already-built
\* clone", "rejected, not faked").
ClonesAreFaithful ==
  LET paths == BoundedSeq(1..MaxSlots, MaxCells)
  IN outcome \in {"cloned", "refused"} =>
       /\ (outcome = "cloned") = ~ \E p \in paths : Exists(original, p) /\ KindAt(original, p) = "other"
       /\ outcome = "cloned" => Isomorphic(original, made, paths)
=============================================================================
