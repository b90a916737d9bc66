------------------------------ MODULE InsertPlan ------------------------------
(***************************************************************************)
(* The planning half of LogTree::insert (log-tree/logtree.h:146-238).      *)
(*                                                                         *)
(* Before it touches a tree, insert simulates the whole operation on       *)
(* sizes: it adds the number of full buffers to tree_mask and walks the    *)
(* trees from the largest to the smallest, one move per tree that becomes  *)
(* full.  A move names the smaller trees it empties, the slice of the      *)
(* batch it takes and whether it also takes the buffer tree.  The moves    *)
(* are later run in parallel, so all that keeps the points safe is what    *)
(* this sequential loop computes.                                          *)
(*                                                                         *)
(* The loop only reads sizes, so this module has no points: num_points is  *)
(* points.size(), buffer_size is buffer_tree.size().  LogTree.tla          *)
(* instantiates it with the sizes of its own batch and buffer.             *)
(***************************************************************************)
EXTENDS Integers, Sequences, FiniteSets, Functions

CONSTANTS
  NUM_TREES,    \* template parameter: how many static trees
  BUFFER_SIZE,  \* 1 << BUFFER_LOG2_SIZE
  Pow2,         \* Pow2[n] is 1 << n, for the trees and one past the last
  BatchSizes    \* the sizes of the batches the client inserts

ASSUME NumTreesAssumption == NUM_TREES \in Nat \ {0}

ASSUME BufferSizeAssumption == BUFFER_SIZE \in Nat \ {0}

ASSUME Pow2Assumption ==
  /\ Pow2 \in [0..NUM_TREES -> Nat \ {0}]
  /\ Pow2[0] = 1
  /\ \A n \in 0..(NUM_TREES - 1) : Pow2[n + 1] = 2 * Pow2[n]

ASSUME BatchSizesAssumption == BatchSizes \subseteq Nat

VARIABLES
  tree_mask,         \* bit n is set: static tree n is in use
  num_points,        \* points.size()
  buffer_size,       \* buffer_tree.size()
  plan_pc,           \* where the planner stands
  full_buffers,      \* buffers' worth of points not yet given to a tree
  remainder,         \* points that will go to the buffer tree
  use_buffer,        \* the buffer overflows: its points must move out
  have_used_buffer,  \* some move takes the buffer's points
  new_tree_mask,     \* the mask once the moves are done
  cur_points_end,    \* points [cur_points_end, num_points) are in a move
  outer_i,           \* i of the outer loop: the tree looked at
  inner_j,           \* j of the inner loop: a tree smaller than outer_i
  to_gather,         \* the trees the open move empties
  size_gathered,     \* their nominal sizes, added up
  moves              \* the finished moves, the largest new tree first

inputVars == <<tree_mask, num_points, buffer_size>>
headVars == <<use_buffer, remainder, new_tree_mask>>
moveVars == <<full_buffers, have_used_buffer, cur_points_end, moves>>
gatherVars == <<inner_j, to_gather, size_gathered>>
planVars == <<plan_pc, headVars, moveVars, outer_i, gatherVars>>
vars == <<inputVars, planVars>>

Trees == 0..(NUM_TREES - 1)

NthTreeSize_Unshifted(n) == Pow2[n]

NthTreeSize(n) == BUFFER_SIZE * Pow2[n]

NthBitSet(x, n) == (x \div Pow2[n]) % 2 = 1

Move == [uses_buffer : BOOLEAN, points_start : Int, points_end : Int,
         trees : SUBSET Trees, new_tree : Trees]

PlanPcs == {"start", "outer", "inner", "done", "throw"}

(***************************************************************************)
(* The type invariant: every local of the planner has the type its C++     *)
(* declaration gives it, without the widths.                               *)
(***************************************************************************)
TypeOK ==
  /\ tree_mask \in Nat
  /\ num_points \in Nat
  /\ buffer_size \in 0..BUFFER_SIZE
  /\ plan_pc \in PlanPcs
  /\ full_buffers \in Int /\ remainder \in Nat /\ new_tree_mask \in Nat
  /\ use_buffer \in BOOLEAN /\ have_used_buffer \in BOOLEAN
  /\ cur_points_end \in Int
  /\ outer_i \in -1..(NUM_TREES - 1) /\ inner_j \in -1..(NUM_TREES - 1)
  /\ to_gather \in SUBSET Trees /\ size_gathered \in Nat
  /\ moves \in Seq(Move)

-----------------------------------------------------------------------------

\* No insert is being planned: the locals do not exist, or are dead.
NoPlan ==
  /\ plan_pc = "start"
  /\ full_buffers = 0 /\ remainder = 0 /\ use_buffer = FALSE
  /\ have_used_buffer = FALSE /\ new_tree_mask = 0 /\ cur_points_end = 0
  /\ outer_i = -1 /\ inner_j = -1
  /\ to_gather = {} /\ size_gathered = 0 /\ moves = <<>>

\* insert returns or throws: the planner's locals are gone.
Return ==
  /\ plan_pc' = "start"
  /\ full_buffers' = 0 /\ remainder' = 0 /\ use_buffer' = FALSE
  /\ have_used_buffer' = FALSE /\ new_tree_mask' = 0 /\ cur_points_end' = 0
  /\ outer_i' = -1 /\ inner_j' = -1
  /\ to_gather' = {} /\ size_gathered' = 0 /\ moves' = <<>>

Init ==
  /\ tree_mask \in 0..(Pow2[NUM_TREES] - 1)
  /\ num_points \in BatchSizes
  /\ buffer_size \in 0..BUFFER_SIZE
  /\ NoPlan

\* What is left of the batch, counted in full buffers, does not fit into the
\* buffer tree: one more buffer's worth is pushed down.
Overflows_WholeBatch == num_points + buffer_size > BUFFER_SIZE

Overflows_OneLate == (num_points % BUFFER_SIZE) + buffer_size > BUFFER_SIZE + 1

Overflows == (num_points % BUFFER_SIZE) + buffer_size > BUFFER_SIZE

FullBuffers == (num_points \div BUFFER_SIZE) + (IF Overflows THEN 1 ELSE 0)

Remainder_NotSpilled == num_points % BUFFER_SIZE

Remainder ==
  (num_points % BUFFER_SIZE) + (IF Overflows THEN buffer_size - BUFFER_SIZE ELSE 0)

Start ==
  /\ plan_pc = "start"
  /\ plan_pc' = "outer"
  /\ use_buffer' = Overflows
  /\ full_buffers' = FullBuffers
  /\ remainder' = Remainder
  /\ new_tree_mask' = tree_mask + FullBuffers
  /\ cur_points_end' = num_points
  /\ outer_i' = NUM_TREES - 1
  /\ UNCHANGED <<inputVars, have_used_buffer, gatherVars, moves>>

\* Tree n was not full before and is full afterwards.
BecomesFull(n) == NthBitSet(new_tree_mask, n) /\ ~NthBitSet(tree_mask, n)

\* Tree n was full before and is not any more.
BecomesEmpty_OldBitOnly(n) == NthBitSet(tree_mask, n)

BecomesEmpty(n) == ~NthBitSet(new_tree_mask, n) /\ NthBitSet(tree_mask, n)

KeepTree_NoStep ==
  /\ plan_pc = "outer" /\ outer_i >= 0
  /\ ~BecomesFull(outer_i)
  /\ UNCHANGED vars

KeepTree ==
  /\ plan_pc = "outer" /\ outer_i >= 0
  /\ ~BecomesFull(outer_i)
  /\ outer_i' = outer_i - 1
  /\ UNCHANGED <<inputVars, plan_pc, headVars, moveVars, gatherVars>>

OpenMove_KeepsGathered ==
  /\ plan_pc = "outer" /\ outer_i >= 0
  /\ BecomesFull(outer_i)
  /\ plan_pc' = "inner"
  /\ inner_j' = outer_i - 1
  /\ size_gathered' = 0
  /\ UNCHANGED <<inputVars, headVars, moveVars, outer_i, to_gather>>

OpenMove ==
  /\ plan_pc = "outer" /\ outer_i >= 0
  /\ BecomesFull(outer_i)
  /\ plan_pc' = "inner"
  /\ inner_j' = outer_i - 1
  /\ to_gather' = {}
  /\ size_gathered' = 0
  /\ UNCHANGED <<inputVars, headVars, moveVars, outer_i>>

GatherTree ==
  /\ plan_pc = "inner" /\ inner_j >= 0
  /\ BecomesEmpty(inner_j)
  /\ to_gather' = to_gather \cup {inner_j}
  /\ size_gathered' = size_gathered + NthTreeSize(inner_j)
  /\ inner_j' = inner_j - 1
  /\ UNCHANGED <<inputVars, plan_pc, headVars, moveVars, outer_i>>

PassTree ==
  /\ plan_pc = "inner" /\ inner_j >= 0
  /\ NthBitSet(new_tree_mask, inner_j) = NthBitSet(tree_mask, inner_j)
  /\ inner_j' = inner_j - 1
  /\ UNCHANGED <<inputVars, plan_pc, headVars, moveVars, outer_i,
                 to_gather, size_gathered>>

\* The last move takes the buffer's points when the buffer overflows.
TakesBuffer_EveryMove(left) == use_buffer

TakesBuffer(left) == use_buffer /\ left = 0

\* The inner loop ends at the next tree that becomes full, or below tree 0.
CloseMove ==
  /\ plan_pc = "inner"
  /\ inner_j >= 0 => BecomesFull(inner_j)
  /\ LET num_from_trees == NthTreeSize(outer_i) - size_gathered
         left == full_buffers - (num_from_trees \div BUFFER_SIZE)
         num_from_points ==
           num_from_trees - (IF TakesBuffer(left) THEN buffer_size ELSE 0)
         cur_points_start == cur_points_end - num_from_points
     IN  /\ full_buffers' = left
         /\ have_used_buffer' = (have_used_buffer \/ TakesBuffer(left))
         /\ cur_points_end' = cur_points_start
         /\ moves' = Append(moves, [uses_buffer  |-> TakesBuffer(left),
                                    points_start |-> cur_points_start,
                                    points_end   |-> cur_points_end,
                                    trees        |-> to_gather,
                                    new_tree     |-> outer_i])
  /\ outer_i' = inner_j
  /\ plan_pc' = "outer"
  /\ UNCHANGED <<inputVars, headVars, gatherVars>>

\* "safety assertion": what is left over does not fit, insert throws.
Finish ==
  /\ plan_pc = "outer" /\ outer_i < 0
  /\ plan_pc' = IF full_buffers # 0 THEN "throw" ELSE "done"
  /\ UNCHANGED <<inputVars, headVars, moveVars, outer_i, gatherVars>>

Next ==
  \/ Start \/ KeepTree \/ OpenMove \/ GatherTree
  \/ PassTree \/ CloseMove \/ Finish

Spec == Init /\ [][Next]_vars

-----------------------------------------------------------------------------

Indices(m) == m.points_start..(m.points_end - 1)

Fits == new_tree_mask < Pow2[NUM_TREES]

(***************************************************************************)
(* As long as the trees have room, no assert of the loop fails: a tree     *)
(* that the outer loop keeps has the same bit in both masks (line 229),    *)
(* the buffer is taken at most once (line 211), and what the moves leave   *)
(* of the batch is what the buffer tree gets (line 233).                   *)
(***************************************************************************)
AssertsHold ==
  Fits =>
    /\ plan_pc = "outer" /\ outer_i >= 0 => ~BecomesEmpty(outer_i)
    /\ plan_pc = "outer" /\ outer_i < 0 => cur_points_end = remainder
    /\ have_used_buffer => full_buffers = 0 /\ plan_pc # "inner"

(***************************************************************************)
(* The moves do to the trees exactly what the masks say: the new trees are *)
(* those that become full, every tree that becomes empty is gathered by    *)
(* one move, into a larger tree, and no other tree is touched.             *)
(***************************************************************************)
MovesMatchMasks ==
  plan_pc = "done" =>
    /\ {moves[k].new_tree : k \in DOMAIN moves} = {n \in Trees : BecomesFull(n)}
    /\ UNION {moves[k].trees : k \in DOMAIN moves}
         = {n \in Trees : BecomesEmpty(n)}
    /\ \A k \in DOMAIN moves : \A n \in moves[k].trees : n < moves[k].new_tree
    /\ \A k, l \in DOMAIN moves :
         k # l => /\ moves[k].new_tree # moves[l].new_tree
                  /\ moves[k].trees \cap moves[l].trees = {}

(***************************************************************************)
(* Every point of the batch has exactly one destination: it is in the      *)
(* slice of one move, or among the first remainder points, which go to the *)
(* buffer tree.                                                            *)
(***************************************************************************)
SlicesPartitionBatch ==
  plan_pc = "done" =>
    /\ \A x \in 0..(num_points - 1) :
         x >= remainder => \E k \in DOMAIN moves : x \in Indices(moves[k])
    /\ \A k \in DOMAIN moves : Indices(moves[k]) \subseteq remainder..(num_points - 1)
    /\ \A k, l \in DOMAIN moves :
         k # l => Indices(moves[k]) \cap Indices(moves[l]) = {}

(***************************************************************************)
(* A new tree gets exactly the points it is full with, counting a gathered *)
(* tree as full, and the buffer's points go to exactly one new tree when   *)
(* the buffer overflows, and to none otherwise.                            *)
(***************************************************************************)
MovesFillTrees ==
  plan_pc = "done" =>
    /\ \A k \in DOMAIN moves :
         LET m == moves[k]
         IN  /\ m.points_end - m.points_start >= 0
             /\ (m.points_end - m.points_start)
                  + SumFunctionOnSet([n \in Trees |-> NthTreeSize(n)], m.trees)
                  + (IF m.uses_buffer THEN buffer_size ELSE 0)
                = NthTreeSize(m.new_tree)
    /\ Cardinality({k \in DOMAIN moves : moves[k].uses_buffer})
         = (IF use_buffer THEN 1 ELSE 0)

(***************************************************************************)
(* The remainder never overfills the buffer tree, whose insert checks its  *)
(* room in a debug build only (bhlkdtree.h:202-208).                       *)
(***************************************************************************)
RemainderFits ==
  plan_pc = "done" =>
    remainder + (IF have_used_buffer THEN 0 ELSE buffer_size) <= BUFFER_SIZE

(***************************************************************************)
(* insert throws "Not enough trees!" exactly when the trees cannot hold    *)
(* the new mask, so never with room left and never too late.               *)
(***************************************************************************)
ThrowsIffFull ==
  /\ plan_pc = "throw" => ~Fits
  /\ plan_pc = "done" => Fits

=============================================================================
