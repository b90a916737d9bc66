------------------------------- MODULE LogTree -------------------------------
(***************************************************************************)
(* LogTree (log-tree/logtree.h): a buffer tree of at most BUFFER_SIZE      *)
(* points and NUM_TREES static kd-trees, tree n made for BUFFER_SIZE * 2^n *)
(* points.  tree_mask has bit n set when static tree n is in use.          *)
(*                                                                         *)
(* The caller runs one operation at a time; inside an operation the work   *)
(* is forked, and every forked task is an action of its own here:          *)
(*   - insert plans its moves (InsertPlan), then runs the moves and the    *)
(*     insertion into the buffer tree in parallel; a move gathers its      *)
(*     parts in parallel and then builds its tree;                         *)
(*   - erase erases from all the full trees in parallel, empties the       *)
(*     depleted ones in parallel, and reinserts what was in them.          *)
(* With parallel = false the code runs the same tasks in a fixed order,    *)
(* one of the interleavings of this module.                                *)
(*                                                                         *)
(* A static tree is the set of the points present in it.  The buffer tree  *)
(* also keeps its build_size, because erasing its last point does not      *)
(* clear it: entries [0, build_size) of its array present stay FALSE, and  *)
(* the insert that finds it empty builds over them.  No step of LogTree    *)
(* looks at a coordinate, and the points of a batch are distinct and new.  *)
(* The insert that erase calls has already changed the trees when it       *)
(* starts, so op tells it from the insert of a caller.                     *)
(***************************************************************************)
EXTENDS Integers, Sequences, FiniteSets, Functions

CONSTANTS NUM_TREES, BUFFER_SIZE, Pow2, Points, InsertBatches, EraseBatches

ASSUME SizesAssumption == NUM_TREES \in Nat \ {0} /\ BUFFER_SIZE \in Nat \ {0}

ASSUME Pow2Assumption ==
  /\ Pow2 \in [0..NUM_TREES -> Nat \ {0}]
  /\ Pow2[0] = 1
  /\ \A n \in 0..(NUM_TREES - 1) : Pow2[n + 1] = 2 * Pow2[n]

ASSUME PointsAssumption ==
  /\ IsFiniteSet(Points)
  /\ InsertBatches \subseteq Seq(Points)
  /\ \A batch \in EraseBatches : batch \subseteq Points

\* A point is an entry of a batch: two entries may agree in every coordinate, and
\* are two points.
ASSUME BatchesAssumption == \A batch \in InsertBatches : IsInjective(batch)

VARIABLES
  pc,              \* where the operation stands, "idle" between operations
  op,              \* the operation the caller runs: "none", "insert", "erase"
  tree_mask, static_trees,
  buffer_tree,     \* the points present in the buffer tree
  buffer_hidden,   \* points built into it that present says are not there
  build_size,      \* of the buffer tree
  points,          \* the batch insert works on
  \* the locals of insert's planning loop, see InsertPlan
  plan_pc, full_buffers, remainder, use_buffer, have_used_buffer,
  new_tree_mask, cur_points_end, outer_i, inner_j, to_gather, size_gathered,
  moves,
  \* the rebuild
  buffer_points,   \* what the buffer tree held, moved out
  filled,          \* fill_buff_f has run
  task,            \* the state of rebuild_static_f(k), for move k
  todo,            \* the parts move k has still to gather
  cur_items,       \* the points move k has gathered
  slot_size,       \* room reserved for tree n where it is moved to
  \* the erase
  to_erase,        \* the points to erase, while they are being erased
  erasing,         \* the trees still to erase them from
  scan_i,          \* i of the loop that looks for depleted trees
  erase_mask,      \* new_tree_mask of erase
  depleted,        \* depleted trees not emptied yet
  points_to_move   \* what was in the depleted trees

\* buffer_tree.size()
BufferSize == Cardinality(buffer_tree \cup buffer_hidden)

Plan == INSTANCE InsertPlan
          WITH num_points  <- Len(points),
               buffer_size <- BufferSize,
               BatchSizes  <- Nat

bufferVars == <<buffer_tree, buffer_hidden, build_size>>
storeVars == <<tree_mask, static_trees, bufferVars>>
planVars ==
  <<plan_pc, full_buffers, remainder, use_buffer, have_used_buffer, new_tree_mask,
    cur_points_end, outer_i, inner_j, to_gather, size_gathered, moves>>
rebuildVars == <<buffer_points, filled, task, todo, cur_items>>
eraseVars == <<to_erase, erasing, scan_i, erase_mask, depleted, points_to_move>>
vars == <<pc, op, storeVars, points, planVars, rebuildVars, slot_size, eraseVars>>

Trees == Plan!Trees

BUFFER_TREE_IDX == -1

\* As a part of a move: the slice of the batch the move takes.
Slice == -2

TreeIds == Trees \cup {BUFFER_TREE_IDX}

Parts == TreeIds \cup {Slice}

\* insert makes at most one move per static tree.
Moves == 1..NUM_TREES

NoTrees == [n \in Trees |-> {}]

TypeOK ==
  /\ pc \in {"idle", "plan", "rebuild", "erase", "scan", "empty"}
  /\ op \in {"none", "insert", "erase"}
  /\ buffer_tree \in SUBSET Points /\ buffer_hidden \in SUBSET Points
  /\ build_size \in 0..BUFFER_SIZE
  /\ static_trees \in [Trees -> SUBSET Points]
  /\ points \in Seq(Points)
  /\ Plan!TypeOK
  /\ buffer_points \in SUBSET Points /\ filled \in BOOLEAN
  /\ task \in [Moves -> {"none", "planned", "gathering", "built"}]
  /\ todo \in [Moves -> SUBSET Parts]
  /\ cur_items \in [Moves -> SUBSET Points]
  /\ slot_size \in [Trees -> Nat]
  /\ to_erase \in SUBSET Points /\ erasing \in SUBSET TreeIds
  /\ scan_i \in 0..NUM_TREES /\ erase_mask \in Nat
  /\ depleted \in SUBSET Trees
  /\ points_to_move \in [Trees -> SUBSET Points]

-----------------------------------------------------------------------------

NoSlots == [n \in Trees |-> 0]

\* The locals of a rebuild, and of an erase, when there is none.
NoRebuild ==
  /\ buffer_points = {} /\ filled = FALSE
  /\ task = [k \in Moves |-> "none"]
  /\ todo = [k \in Moves |-> {}] /\ cur_items = [k \in Moves |-> {}]

NoErase ==
  /\ to_erase = {} /\ erasing = {} /\ scan_i = 0 /\ erase_mask = 0
  /\ depleted = {} /\ points_to_move = NoTrees

Init ==
  /\ pc = "idle" /\ op = "none"
  /\ tree_mask = 0 /\ static_trees = NoTrees
  /\ buffer_tree = {} /\ buffer_hidden = {} /\ build_size = 0
  /\ points = <<>>
  /\ Plan!NoPlan /\ NoRebuild /\ NoErase
  /\ slot_size = NoSlots

Min2(a, b) == IF a < b THEN a ELSE b

Elements_OneEarly(a, b) ==
  {points[x + 1] : x \in (IF a > 0 THEN a - 1 ELSE 0)..(b - 1)}

\* points[a, b), the elements counted from 0
Elements(a, b) == {points[x + 1] : x \in a..(b - 1)}

\* What move k has not taken from the batch, and the buffer's points that no
\* tree holds.
Ungathered(k) ==
  (IF Slice \in todo[k]
     THEN Elements(moves[k].points_start, moves[k].points_end) ELSE {})
  \cup (IF BUFFER_TREE_IDX \in todo[k] THEN buffer_points ELSE {})

\* The points insert or erase holds outside the trees.
InFlight ==
  CASE pc = "plan"    -> IF op = "erase" THEN Range(points) ELSE {}
    [] pc = "rebuild" ->
         (IF filled THEN {} ELSE Elements(0, remainder))
         \cup UNION {Ungathered(k) \cup cur_items[k] : k \in Moves}
    [] pc = "empty"   -> UNION Range(points_to_move)
    [] OTHER          -> {}

\* All the points of the LogTree, wherever an operation has put them.
Contents ==
  (buffer_tree \cup buffer_hidden \cup InFlight \cup UNION Range(static_trees))
  \ to_erase

-----------------------------------------------------------------------------
(* insert *)

\* Hidden points are never found or moved again, and what is moved in their
\* place was never written.  The caller is followed no further than that.
CallerGoesOn == pc = "idle" /\ buffer_hidden = {}

\* The caller's insert.  Its points are not in the tree yet.
InsertBegin(batch) ==
  /\ CallerGoesOn
  /\ Range(batch) \cap Contents = {}
  /\ pc' = "plan" /\ op' = "insert" /\ points' = batch
  /\ UNCHANGED <<storeVars, planVars, rebuildVars, slot_size, eraseVars>>

PlanStep ==
  /\ pc = "plan"
  /\ UNCHANGED <<pc, op, points, storeVars, rebuildVars, slot_size, eraseVars>>
  /\ Plan!Next

\* insert throws before it has changed anything.  From erase the exception
\* takes points_to_move with it.
InsertThrows ==
  /\ pc = "plan" /\ plan_pc = "throw"
  /\ pc' = "idle" /\ op' = "none" /\ points' = <<>>
  /\ Plan!Return
  /\ UNCHANGED <<storeVars, rebuildVars, slot_size, eraseVars>>

\* The buffer is emptied before anything is forked.
BeginRebuild ==
  /\ pc = "plan" /\ plan_pc = "done"
  /\ pc' = "rebuild"
  /\ buffer_points' = IF have_used_buffer THEN buffer_tree ELSE {}
  /\ IF have_used_buffer
       THEN buffer_tree' = {} /\ build_size' = 0
       ELSE UNCHANGED <<buffer_tree, build_size>>
  /\ task' = [k \in Moves |-> IF k \in DOMAIN moves THEN "planned" ELSE "none"]
  /\ todo' = [k \in Moves |->
               IF k \in DOMAIN moves
                 THEN moves[k].trees \cup {Slice}
                      \cup (IF moves[k].uses_buffer THEN {BUFFER_TREE_IDX} ELSE {})
                 ELSE {}]
  /\ UNCHANGED <<op, tree_mask, static_trees, buffer_hidden, points, planVars,
                 filled, cur_items, slot_size, eraseVars>>

\* The buffer is built over the new points without moving the old ones out
InsertIntoBuffer_NotMovedOut(new) ==
  \/ new = {} /\ UNCHANGED bufferVars
  \/ new # {} /\ buffer_tree' = new /\ build_size' = Cardinality(new) /\ UNCHANGED buffer_hidden

\* buffer_tree.insert(new).  A tree with points is moved out, which clears it,
\* and built again; an empty one is built without being cleared, and the
\* layout decides which of the new points lie where present is FALSE.
InsertIntoBuffer(new) ==
  \/ new = {} /\ UNCHANGED bufferVars
  \/ /\ new # {} /\ buffer_tree # {}
     /\ buffer_tree' = buffer_tree \cup new
     /\ build_size' = Cardinality(buffer_tree) + Cardinality(new)
     /\ UNCHANGED buffer_hidden
  \/ /\ new # {} /\ buffer_tree = {}
     /\ \E shown \in SUBSET new :
          /\ Cardinality(new \ shown) = Min2(build_size, Cardinality(new))
          /\ buffer_tree' = shown /\ buffer_hidden' = new \ shown
     /\ build_size' = Cardinality(new)

FillBuffer ==
  /\ pc = "rebuild" /\ ~filled
  /\ filled' = TRUE
  /\ InsertIntoBuffer(Elements(0, remainder))
  /\ UNCHANGED <<pc, op, tree_mask, static_trees, points, planVars,
                 buffer_points, task, todo, cur_items, slot_size, eraseVars>>

SlotSize_Nominal(n) == Plan!NthTreeSize(n)

\* The room a tree takes in the array its points are moved to
SlotSize(n) == Cardinality(static_trees[n])

\* rebuild_static_f starts: the sizes of its trees give the gather_endpoints.
StartMove(k) ==
  /\ pc = "rebuild" /\ task[k] = "planned"
  /\ task' = [task EXCEPT ![k] = "gathering"]
  /\ slot_size' = [n \in Trees |-> IF n \in moves[k].trees
                                     THEN SlotSize(n)
                                     ELSE slot_size[n]]
  /\ UNCHANGED <<pc, op, storeVars, points, planVars, buffer_points, filled,
                 todo, cur_items, eraseVars>>

\* construct_points(idx), one iteration for each part of the move
GatherPart(k, part) ==
  /\ pc = "rebuild" /\ task[k] = "gathering" /\ part \in todo[k]
  /\ todo' = [todo EXCEPT ![k] = @ \ {part}]
  /\ \/ /\ part \in Trees
        /\ cur_items' = [cur_items EXCEPT ![k] = @ \cup static_trees[part]]
        /\ static_trees' = [static_trees EXCEPT ![part] = {}]
     \/ /\ part = Slice
        /\ cur_items' = [cur_items EXCEPT ![k] =
             @ \cup Elements(moves[k].points_start, moves[k].points_end)]
        /\ UNCHANGED static_trees
     \/ /\ part = BUFFER_TREE_IDX
        /\ cur_items' = [cur_items EXCEPT ![k] = @ \cup buffer_points]
        /\ UNCHANGED static_trees
  /\ UNCHANGED <<pc, op, tree_mask, bufferVars, points, planVars,
                 buffer_points, filled, task, slot_size, eraseVars>>

\* build overwrites whatever the tree held.
BuildTree(k) ==
  /\ pc = "rebuild" /\ task[k] = "gathering" /\ todo[k] = {}
  /\ task' = [task EXCEPT ![k] = "built"]
  /\ static_trees' = [static_trees EXCEPT ![moves[k].new_tree] = cur_items[k]]
  /\ cur_items' = [cur_items EXCEPT ![k] = {}]
  /\ UNCHANGED <<pc, op, tree_mask, bufferVars, points, planVars,
                 buffer_points, filled, todo, slot_size, eraseVars>>

\* All the tasks have been joined.
EndRebuild ==
  /\ pc = "rebuild" /\ filled
  /\ \A k \in Moves : task[k] \in {"none", "built"}
  /\ tree_mask' = new_tree_mask
  /\ pc' = "idle" /\ op' = "none" /\ points' = <<>>
  /\ Plan!Return
  /\ buffer_points' = {} /\ filled' = FALSE
  /\ task' = [k \in Moves |-> "none"]
  /\ slot_size' = NoSlots
  /\ UNCHANGED <<bufferVars, static_trees, todo, cur_items, eraseVars>>

-----------------------------------------------------------------------------
(* erase *)

FullTrees_NoBuffer == {n \in Trees : Plan!NthBitSet(tree_mask, n)}

\* gatherFullTrees
FullTrees ==
  {n \in Trees : Plan!NthBitSet(tree_mask, n)}
  \cup (IF BufferSize = 0 THEN {} ELSE {BUFFER_TREE_IDX})

EraseBegin(batch) ==
  /\ CallerGoesOn
  /\ pc' = "erase" /\ op' = "erase"
  /\ to_erase' = batch
  /\ erasing' = FullTrees
  /\ UNCHANGED <<storeVars, points, planVars, rebuildVars, slot_size, scan_i,
                 erase_mask, depleted, points_to_move>>

\* Phase 1, erase_from_tree(tid) for one of the trees.  A tree is not cleared
\* when its last point is erased.
EraseFromTree(id) ==
  /\ pc = "erase" /\ id \in erasing
  /\ erasing' = erasing \ {id}
  /\ \/ /\ id = BUFFER_TREE_IDX
        /\ buffer_tree' = buffer_tree \ to_erase
        /\ UNCHANGED static_trees
     \/ /\ id \in Trees
        /\ static_trees' = [static_trees EXCEPT ![id] = @ \ to_erase]
        /\ UNCHANGED buffer_tree
  /\ UNCHANGED <<pc, op, tree_mask, buffer_hidden, build_size, points, planVars,
                 rebuildVars, slot_size, to_erase, scan_i, erase_mask, depleted, points_to_move>>

EndPhase1 ==
  /\ pc = "erase" /\ erasing = {}
  /\ pc' = "scan"
  /\ to_erase' = {}
  /\ scan_i' = 0
  /\ erase_mask' = tree_mask
  /\ UNCHANGED <<op, storeVars, points, planVars, rebuildVars, slot_size,
                 erasing, depleted, points_to_move>>

IsDepleted_Below(n) == Cardinality(static_trees[n]) < Plan!NthTreeSize(n) \div 2

IsDepleted(n) == Cardinality(static_trees[n]) <= Plan!NthTreeSize(n) \div 2

UnsetNthBit_Unchecked(x, n) == x - Pow2[n]

UnsetNthBit_Lost(x, n) == x

UnsetNthBit(x, n) == x - (IF Plan!NthBitSet(x, n) THEN Pow2[n] ELSE 0)

\* Phase 2: a tree at most half full is depleted, and loses its bit.
ScanTree ==
  /\ pc = "scan" /\ scan_i < NUM_TREES
  /\ scan_i' = scan_i + 1
  /\ IF IsDepleted(scan_i)
       THEN /\ depleted' = depleted \cup {scan_i}
            /\ slot_size' = [slot_size EXCEPT ![scan_i] = SlotSize(scan_i)]
            /\ erase_mask' = UnsetNthBit(erase_mask, scan_i)
       ELSE UNCHANGED <<depleted, slot_size, erase_mask>>
  /\ UNCHANGED <<pc, op, storeVars, points, planVars, rebuildVars, to_erase,
                 erasing, points_to_move>>

EndScan ==
  /\ pc = "scan" /\ scan_i = NUM_TREES
  /\ pc' = "empty"
  /\ tree_mask' = erase_mask
  /\ UNCHANGED <<op, bufferVars, static_trees, points, planVars, rebuildVars,
                 slot_size, eraseVars>>

EmptyTree_NotCleared(n) ==
  /\ pc = "empty" /\ n \in depleted
  /\ depleted' = depleted \ {n}
  /\ points_to_move' = [points_to_move EXCEPT ![n] = static_trees[n]]
  /\ UNCHANGED <<pc, op, storeVars, points, planVars, rebuildVars, slot_size,
                 to_erase, erasing, scan_i, erase_mask>>

\* gather_tree(i) for one of the depleted trees
EmptyTree(n) ==
  /\ pc = "empty" /\ n \in depleted
  /\ depleted' = depleted \ {n}
  /\ points_to_move' = [points_to_move EXCEPT ![n] = static_trees[n]]
  /\ static_trees' = [static_trees EXCEPT ![n] = {}]
  /\ UNCHANGED <<pc, op, tree_mask, bufferVars, points, planVars, rebuildVars,
                 slot_size, to_erase, erasing, scan_i, erase_mask>>

\* points_to_move as a sequence: the smaller trees first, and the points of
\* one tree in the order its layout has left them in.
Arrangements ==
  LET moved == UNION Range(points_to_move)
  IN  {s \in [1..Cardinality(moved) -> moved] :
         /\ Range(s) = moved
         /\ \A x, y \in DOMAIN s : \A m, n \in Trees :
              s[x] \in points_to_move[m] /\ s[y] \in points_to_move[n] /\ m < n
                => x < y}

Reinsert ==
  /\ pc = "empty" /\ depleted = {}
  /\ points' \in Arrangements
  /\ pc' = "plan"
  /\ slot_size' = NoSlots
  /\ scan_i' = 0 /\ erase_mask' = 0 /\ points_to_move' = NoTrees
  /\ UNCHANGED <<to_erase, erasing, depleted>>
  /\ UNCHANGED <<op, storeVars, planVars, rebuildVars>>

-----------------------------------------------------------------------------

Insert == \E batch \in InsertBatches : InsertBegin(batch)

Erase == \E batch \in EraseBatches : EraseBegin(batch)

RunInsert ==
  \/ PlanStep \/ InsertThrows \/ BeginRebuild \/ FillBuffer
  \/ \E k \in Moves : StartMove(k) \/ BuildTree(k)
  \/ \E k \in Moves, part \in Parts : GatherPart(k, part)
  \/ EndRebuild

RunErase ==
  \/ \E id \in TreeIds : EraseFromTree(id)
  \/ EndPhase1 \/ ScanTree \/ EndScan
  \/ \E n \in Trees : EmptyTree(n)
  \/ Reinsert

Step == RunInsert \/ RunErase

Next == Insert \/ Erase \/ Step

\* The caller may stop calling; an operation it has called runs on, because
\* the work-stealing scheduler runs every forked task.
Spec == Init /\ [][Next]_vars /\ WF_vars(Step)

-----------------------------------------------------------------------------

\* What an insert has been given, until it starts to rebuild
Pending == IF pc = "plan" /\ op = "insert" THEN Range(points) ELSE {}

Set == INSTANCE PointSet WITH contents <- Contents, pending <- Pending

(***************************************************************************)
(* LogTree implements the set of points: whatever the tasks interleave,    *)
(* no operation loses, duplicates or resurrects a point, an insert that    *)
(* throws changes nothing, and neither does the rebuilding that ends an    *)
(* erase.  An insert takes effect when it starts to rebuild, an erase when *)
(* it begins.  Points that are hidden count as held (see                   *)
(* InsertedPointsAreFound).                                                *)
(***************************************************************************)
ImplementsPointSet == Set!Spec

\* Where the points of the LogTree may be
Places ==
  {<<"buffer", 0>>, <<"hidden", 0>>, <<"batch", 0>>}
  \cup ({"static", "moved"} \X Trees)
  \cup ({"gathered", "ungathered"} \X Moves)

Held(place) ==
  CASE place[1] = "buffer" -> buffer_tree
    [] place[1] = "hidden" -> buffer_hidden
    [] place[1] = "batch" ->
         IF pc = "rebuild" /\ ~filled THEN Elements(0, remainder)
         ELSE IF pc = "plan" /\ op = "erase" THEN Range(points) ELSE {}
    [] place[1] = "static" -> static_trees[place[2]]
    [] place[1] = "moved" -> points_to_move[place[2]]
    [] place[1] = "gathered" -> cur_items[place[2]]
    [] place[1] = "ungathered" -> Ungathered(place[2])

(***************************************************************************)
(* Every point of the LogTree is in one place only: no tree, slice, buffer *)
(* or array being filled shares a point with another.                      *)
(***************************************************************************)
EachPointOnce == \A p, q \in Places : p # q => Held(p) \cap Held(q) = {}

(***************************************************************************)
(* Between operations a static tree in use is more than half full and not  *)
(* overfull, one not in use is empty, and the mask has no bit past the     *)
(* last tree.  The planner counts a tree in use as full; erase keeps this  *)
(* true by pushing the depleted trees down.                                *)
(***************************************************************************)
MaskTellsSizes ==
  pc = "idle" =>
    /\ \A n \in Trees :
         IF Plan!NthBitSet(tree_mask, n)
           THEN Cardinality(static_trees[n])
                  \in (Plan!NthTreeSize(n) \div 2 + 1)..Plan!NthTreeSize(n)
           ELSE static_trees[n] = {}
    /\ tree_mask < Pow2[NUM_TREES]

\* LogTree::size, which counts only the trees the mask names
Size ==
  BufferSize
  + SumFunctionOnSet([n \in Trees |-> Cardinality(static_trees[n])],
                     {n \in Trees : Plan!NthBitSet(tree_mask, n)})

\* The points knn and erase get to see: those of gatherFullTrees.
PointsOf(id) ==
  IF id = BUFFER_TREE_IDX THEN buffer_tree \cup buffer_hidden ELSE static_trees[id]

\* contains and orthogonalQuery ask every tree, whatever the mask says.
AllTrees == Trees \cup {BUFFER_TREE_IDX}

FoundIn(id) == PointsOf(id) \ buffer_hidden

Contains(p) == \E id \in AllTrees : p \in FoundIn(id)

\* orthogonalQuery puts the answers of the trees one after the other: how often
\* each of the points in the box asked for is in the result.
OrthogonalQuery(inBox) ==
  [p \in inBox |-> Cardinality({id \in AllTrees : p \in FoundIn(id)})]

(***************************************************************************)
(* Between operations all queries see the same points, each once: size()   *)
(* is exact, gatherFullTrees misses no tree that knn and erase should look *)
(* at, and contains and orthogonalQuery, which look at all the trees, find *)
(* what those hold but for the hidden points.                              *)
(***************************************************************************)
MaskFindsAll ==
  pc = "idle" =>
    /\ Size = Cardinality(Contents)
    /\ UNION {PointsOf(id) : id \in FullTrees} = Contents
    /\ \A p \in Points \ buffer_hidden :
         /\ Contains(p) <=> p \in Contents
         /\ OrthogonalQuery(Points)[p] = IF Contains(p) THEN 1 ELSE 0

(***************************************************************************)
(* A move builds into an empty tree (the assert at line 341), which build  *)
(* would overwrite, and gives it more than half of what it is made for and *)
(* no more than that: the tree built is not degenerate (cokdtree.h:354),   *)
(* and its 2 * max_size - 1 nodes are enough.                              *)
(***************************************************************************)
BuildsIntoEmptyTree ==
  \A k \in Moves :
    task[k] = "gathering" /\ todo[k] = {} =>
      /\ static_trees[moves[k].new_tree] = {}
      /\ Cardinality(cur_items[k])
           \in (Plan!NthTreeSize(moves[k].new_tree) \div 2 + 1)
               ..Plan!NthTreeSize(moves[k].new_tree)

(***************************************************************************)
(* The size of a tree, read to reserve its slot in the array it is moved   *)
(* to, is still its size when a later task moves it there: no slot is left *)
(* partly unwritten or overrun (the asserts at lines 321 and 479).         *)
(***************************************************************************)
SlotsStayRight ==
  /\ \A k \in Moves :
       task[k] = "gathering" =>
         \A n \in todo[k] \cap Trees : slot_size[n] = Cardinality(static_trees[n])
  /\ pc = "empty" =>
       \A n \in depleted : slot_size[n] = Cardinality(static_trees[n])

(***************************************************************************)
(* The buffer tree is never given more points than it has room for: in a   *)
(* debug build its insert throws then, in the middle of the rebuild; in a  *)
(* release build it writes past its arrays (bhlkdtree.h:202-208, 220).     *)
(***************************************************************************)
BufferHasRoom ==
  /\ BufferSize <= BUFFER_SIZE
  /\ pc = "rebuild" /\ ~filled => BufferSize + remainder <= BUFFER_SIZE

(***************************************************************************)
(* The insert that ends an erase never throws: the points of the depleted  *)
(* trees, already taken out of them, always fit back in.                   *)
(***************************************************************************)
EraseNeverThrows == ~(op = "erase" /\ plan_pc = "throw")

(***************************************************************************)
(* An operation that is called returns.                                    *)
(***************************************************************************)
OperationsEnd == pc # "idle" ~> pc = "idle"

(***************************************************************************)
(* The tests insert and then assert that contains finds every point        *)
(* (LT2DDeleteTest.h:37-40): no point is built into the buffer tree where  *)
(* its array present still says FALSE.                                     *)
(***************************************************************************)
InsertedPointsAreFound == pc = "idle" => \A p \in Contents : Contains(p)

=============================================================================
