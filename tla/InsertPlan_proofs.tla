-------------------------- MODULE InsertPlan_proofs --------------------------
(***************************************************************************)
(* Proofs about the planning loop of LogTree::insert, for any number of    *)
(* trees, any buffer size, any mask and any batch.                         *)
(*                                                                         *)
(* The argument: when the loop looks at tree i, the full buffers it has    *)
(* left to place are what the low i+1 bits of the new mask have over those *)
(* of the old mask, plus, if the new mask has bits past the last tree, a   *)
(* slack of at least 2^(i+1).  A move of tree i takes away exactly what    *)
(* bit i adds, less the trees it gathers.                                  *)
(***************************************************************************)
EXTENDS InsertPlan, Counting_proofs

-----------------------------------------------------------------------------
(* Arithmetic *)

LEMMA DivMod ==
  ASSUME NEW x \in Nat, NEW p \in Nat \ {0}
  PROVE  /\ x \div p \in Nat
         /\ x % p \in 0..(p - 1)
         /\ x = p * (x \div p) + (x % p)
  OBVIOUS

LEMMA DivModUnique ==
  ASSUME NEW x \in Nat, NEW p \in Nat \ {0}, NEW q \in Nat, NEW r \in 0..(p - 1),
         x = p * q + r
  PROVE  x % p = r /\ x \div p = q
  OBVIOUS

LEMMA DivExact ==
  ASSUME NEW p \in Nat \ {0}, NEW q \in Nat
  PROVE  (p * q) \div p = q
  OBVIOUS

LEMMA ModDouble ==
  ASSUME NEW x \in Nat, NEW p \in Nat \ {0}
  PROVE  x % (2 * p) = (x % p) + (IF (x \div p) % 2 = 1 THEN p ELSE 0)
<1> DEFINE q == x \div p
           r == x % p
           h == q \div 2
<1>1. q \in Nat /\ r \in 0..(p - 1) /\ x = p * q + r
  BY DivMod
<1> HIDE DEF q, r
<1>2. h \in Nat /\ (q = 2 * h \/ q = 2 * h + 1)
  BY <1>1
<1> HIDE DEF h
<1> DEFINE m == 2 * p
<1>3. m \in Nat \ {0} /\ r \in 0..(m - 1) /\ p + r \in 0..(m - 1)
  BY <1>1
<1>4. CASE q = 2 * h
  <2>1. x = m * h + r
    BY <1>1, <1>2, <1>4
  <2>2. x % m = r
    <3> HIDE DEF m
    <3> QED
      BY <2>1, <1>3, <1>2, DivModUnique
  <2>3. q % 2 # 1
    BY <1>4, <1>2
  <2> QED
    BY <2>2, <2>3 DEF q, r
<1>5. CASE q = 2 * h + 1
  <2> DEFINE s == p + r
  <2>1. x = m * h + s
    BY <1>1, <1>2, <1>5
  <2>2. s \in 0..(m - 1)
    BY <1>3
  <2>3. x % m = s
    <3> HIDE DEF m, s
    <3> QED
      BY <2>1, <2>2, <1>3, <1>2, DivModUnique
  <2>4. q % 2 = 1
    BY <1>5, <1>2
  <2> QED
    BY <2>3, <2>4 DEF q, r
<1> QED
  BY <1>2, <1>4, <1>5

\* The n low bits of x.
Low(x, n) == x % Pow2[n]

\* What a mask's low bits are worth, bit by bit.
LEMMA LowBits ==
  /\ \A n \in 0..NUM_TREES : Pow2[n] \in Nat \ {0}
  /\ \A x \in Nat : Low(x, 0) = 0
  /\ \A x \in Nat, n \in 0..NUM_TREES : Low(x, n) \in 0..(Pow2[n] - 1)
  /\ \A x \in Nat, n \in Trees :
       Low(x, n + 1) = Low(x, n) + (IF NthBitSet(x, n) THEN Pow2[n] ELSE 0)
  /\ \A n \in Trees : Pow2[n + 1] = 2 * Pow2[n]
<1>1. \A n \in 0..NUM_TREES : Pow2[n] \in Nat \ {0}
  BY Pow2Assumption, NumTreesAssumption
<1>2. \A x \in Nat : Low(x, 0) = 0
  BY Pow2Assumption DEF Low
<1>3. \A x \in Nat, n \in 0..NUM_TREES : Low(x, n) \in 0..(Pow2[n] - 1)
  BY <1>1, DivMod DEF Low
<1>4. \A n \in Trees : Pow2[n + 1] = 2 * Pow2[n]
  BY Pow2Assumption DEF Trees
<1>5. ASSUME NEW x \in Nat, NEW n \in Trees
      PROVE Low(x, n + 1) = Low(x, n) + (IF NthBitSet(x, n) THEN Pow2[n] ELSE 0)
  <2>1. Pow2[n] \in Nat \ {0}
    BY <1>1, NumTreesAssumption DEF Trees
  <2>2. x % (2 * Pow2[n])
          = (x % Pow2[n]) + (IF (x \div Pow2[n]) % 2 = 1 THEN Pow2[n] ELSE 0)
    BY <2>1, ModDouble
  <2> QED
    BY <2>2, <1>4 DEF Low, NthBitSet
<1> QED
  BY <1>1, <1>2, <1>3, <1>4, <1>5

-----------------------------------------------------------------------------
(* The inductive invariant *)

\* s full buffers more than the bits below n account for
Slack(s, n) == IF Fits THEN s = 0 ELSE s >= Pow2[n]

\* What bits 0..n-1 of the new mask have over those of the old one
Gain(n) == Low(new_tree_mask, n) - Low(tree_mask, n)

SumInv ==
  /\ plan_pc = "outer" =>
       /\ full_buffers >= 0
       /\ Slack(full_buffers - Gain(outer_i + 1), outer_i + 1)
  /\ plan_pc = "inner" =>
       \E g \in 0..(Pow2[outer_i] - Pow2[inner_j + 1]) :
         /\ size_gathered = BUFFER_SIZE * g
         /\ Slack(full_buffers - (Pow2[outer_i] - g) - Gain(inner_j + 1), inner_j + 1)
  /\ plan_pc = "done" => full_buffers = 0 /\ Fits
  /\ plan_pc = "throw" => ~Fits

PointsInv ==
  plan_pc # "start" =>
    /\ cur_points_end =
         remainder + BUFFER_SIZE * full_buffers
         - (IF use_buffer /\ ~have_used_buffer THEN buffer_size ELSE 0)
    /\ have_used_buffer <=> (use_buffer /\ full_buffers = 0)
    /\ remainder + (IF use_buffer THEN 0 ELSE buffer_size) <= BUFFER_SIZE

\* The slices of the moves, the first move's at the end of the batch
SliceBounds ==
  /\ cur_points_end <= num_points
  /\ \A k \in DOMAIN moves :
       /\ cur_points_end <= moves[k].points_start
       /\ moves[k].points_start <= moves[k].points_end
       /\ moves[k].points_end <= num_points

SliceOrder ==
  \A k, l \in DOMAIN moves : k < l => moves[l].points_end <= moves[k].points_start

SliceCover ==
  \A x \in 0..(num_points - 1) :
    x >= cur_points_end => \E k \in DOMAIN moves : x \in Indices(moves[k])

SlicesInv == plan_pc # "start" => SliceBounds /\ SliceOrder /\ SliceCover

\* The trees of the moves, the first move's new tree the largest
TreeBounds ==
  \A k \in DOMAIN moves :
    /\ moves[k].new_tree > outer_i /\ BecomesFull(moves[k].new_tree)
    /\ \A n \in moves[k].trees :
         outer_i < n /\ n < moves[k].new_tree /\ BecomesEmpty(n)

TreeOrder ==
  \A k, l \in DOMAIN moves :
    k < l => /\ moves[l].new_tree < moves[k].new_tree
             /\ \A n \in moves[k].trees : moves[l].new_tree < n

TreeCover ==
  \A n \in Trees : n > outer_i =>
    /\ BecomesFull(n) => \E k \in DOMAIN moves : moves[k].new_tree = n
    /\ BecomesEmpty(n) /\ Fits => \E k \in DOMAIN moves : n \in moves[k].trees

TreesInv == plan_pc # "start" => TreeBounds /\ TreeOrder /\ TreeCover

GatherInv ==
  plan_pc = "inner" =>
    /\ inner_j < outer_i /\ BecomesFull(outer_i)
    /\ \A n \in to_gather : inner_j < n /\ n < outer_i /\ BecomesEmpty(n)
    /\ \A n \in Trees : inner_j < n /\ n < outer_i =>
         ~BecomesFull(n) /\ (BecomesEmpty(n) => n \in to_gather)

PcInv ==
  /\ tree_mask < Pow2[NUM_TREES]
  /\ plan_pc = "start" => moves = <<>> /\ ~have_used_buffer
  /\ plan_pc = "inner" => outer_i >= 0
  /\ plan_pc \in {"done", "throw"} => outer_i = -1

IInv ==
  /\ TypeOK /\ PcInv /\ SumInv /\ PointsInv /\ SlicesInv /\ TreesInv /\ GatherInv

LEMMA InitIInv == Init => IInv
<1> SUFFICES ASSUME Init PROVE IInv
  OBVIOUS
<1>1. Pow2[NUM_TREES] \in Nat
  BY Pow2Assumption, NumTreesAssumption
<1>2. TypeOK
  <2>1. tree_mask \in Nat /\ num_points \in Nat /\ buffer_size \in 0..BUFFER_SIZE
    BY <1>1, BatchSizesAssumption DEF Init
  <2>2. -1 \in -1..(NUM_TREES - 1) /\ <<>> \in Seq(Move)
    BY NumTreesAssumption
  <2>3. /\ plan_pc \in PlanPcs /\ full_buffers \in Int /\ remainder \in Nat
        /\ new_tree_mask \in Nat /\ cur_points_end \in Int
        /\ outer_i \in -1..(NUM_TREES - 1) /\ inner_j \in -1..(NUM_TREES - 1)
        /\ size_gathered \in Nat
    BY <2>2 DEF Init, NoPlan, PlanPcs
  <2>4. /\ use_buffer \in BOOLEAN /\ have_used_buffer \in BOOLEAN
        /\ to_gather \in SUBSET Trees /\ moves \in Seq(Move)
    BY <2>2 DEF Init, NoPlan
  <2> QED
    BY <2>1, <2>3, <2>4 DEF TypeOK
<1>3. PcInv
  BY <1>1 DEF Init, NoPlan, PcInv
<1>4. SumInv /\ PointsInv /\ SlicesInv /\ TreesInv /\ GatherInv
  BY DEF Init, NoPlan, SumInv, PointsInv, SlicesInv, TreesInv, GatherInv
<1> QED
  BY <1>2, <1>3, <1>4 DEF IInv

LEMMA StartIInv == IInv /\ Start => IInv'
<1> SUFFICES ASSUME IInv, Start PROVE IInv'
  OBVIOUS
<1> USE DEF inputVars, gatherVars
<1> DEFINE q == num_points \div BUFFER_SIZE
           r == num_points % BUFFER_SIZE
<1>1. q \in Nat /\ r \in 0..(BUFFER_SIZE - 1) /\ num_points = BUFFER_SIZE * q + r
  BY DivMod, BufferSizeAssumption DEF IInv, TypeOK
<1> HIDE DEF q, r
<1>2. /\ FullBuffers = q + (IF Overflows THEN 1 ELSE 0)
      /\ Remainder = r + (IF Overflows THEN buffer_size - BUFFER_SIZE ELSE 0)
      /\ Overflows <=> r + buffer_size > BUFFER_SIZE
  BY DEF FullBuffers, Remainder, Overflows, q, r
<1>3. /\ FullBuffers \in Nat /\ Remainder \in Nat /\ Overflows \in BOOLEAN
      /\ Overflows => FullBuffers > 0
      /\ num_points = Remainder + BUFFER_SIZE * FullBuffers
                       - (IF Overflows THEN buffer_size ELSE 0)
      /\ Remainder + (IF Overflows THEN 0 ELSE buffer_size) <= BUFFER_SIZE
  <2>1. BUFFER_SIZE * (q + 1) = BUFFER_SIZE * q + BUFFER_SIZE
    BY <1>1, BufferSizeAssumption
  <2>2. BUFFER_SIZE * q \in Nat /\ buffer_size \in 0..BUFFER_SIZE
    BY <1>1, BufferSizeAssumption DEF IInv, TypeOK
  <2>3. Overflows \in BOOLEAN
    BY DEF Overflows
  <2>4. CASE Overflows
    BY <1>1, <1>2, <2>1, <2>2, <2>3, <2>4, BufferSizeAssumption
  <2>5. CASE ~Overflows
    BY <1>1, <1>2, <2>2, <2>3, <2>5, BufferSizeAssumption
  <2> QED
    BY <2>4, <2>5
<1>4. TypeOK'
  BY <1>3, NumTreesAssumption DEF IInv, TypeOK, Start, PlanPcs
<1>5. PcInv'
  BY DEF IInv, PcInv, Start
<1>6. PointsInv'
  BY <1>3 DEF IInv, PcInv, TypeOK, PointsInv, Start
<1>7. SlicesInv' /\ TreesInv' /\ GatherInv'
  <2>1. moves' = <<>> /\ cur_points_end' = num_points' /\ num_points' \in Nat
        /\ outer_i' = NUM_TREES - 1 /\ plan_pc' = "outer"
    BY DEF IInv, PcInv, TypeOK, Start
  <2>2. SliceBounds' /\ SliceOrder' /\ SliceCover'
    <3>1. SliceBounds' /\ SliceOrder'
      BY <2>1 DEF SliceBounds, SliceOrder
    <3>2. num_points \in Nat /\ num_points' = num_points
      BY DEF IInv, TypeOK, Start
    <3>3. \A x \in 0..(num_points - 1) : x < num_points
      BY <3>2
    <3>4. SliceCover'
      BY <3>2, <3>3, <2>1 DEF SliceCover
    <3> QED
      BY <3>1, <3>4
  <2>3. TreeBounds' /\ TreeOrder' /\ TreeCover'
    BY <2>1, NumTreesAssumption DEF TreeBounds, TreeOrder, TreeCover, Trees
  <2> QED
    BY <2>1, <2>2, <2>3 DEF SlicesInv, TreesInv, GatherInv
<1>8. SumInv'
  <2> DEFINE P == Pow2[NUM_TREES]
             h == new_tree_mask' \div P
  <2>1. P \in Nat \ {0} /\ new_tree_mask' \in Nat
    BY LowBits, NumTreesAssumption, <1>4 DEF TypeOK
  <2>2. h \in Nat /\ new_tree_mask' = P * h + Low(new_tree_mask', NUM_TREES)
    BY <2>1, DivMod DEF Low
  <2>3. Low(new_tree_mask', NUM_TREES) \in 0..(P - 1)
    BY <2>1, LowBits, NumTreesAssumption
  <2>4. Low(tree_mask', NUM_TREES) = tree_mask
    <3>1. tree_mask = P * 0 + tree_mask /\ tree_mask \in 0..(P - 1)
      BY <2>1 DEF IInv, TypeOK, PcInv
    <3>2. tree_mask' = tree_mask
      BY DEF Start
    <3> QED
      BY <3>1, <3>2, <2>1, DivModUnique DEF Low
  <2> HIDE DEF h
  <2>5. full_buffers' - Gain(NUM_TREES)' = P * h
    <3>1. full_buffers' = new_tree_mask' - tree_mask
      BY <1>3 DEF Start, IInv, TypeOK
    <3>2. Gain(NUM_TREES)' = Low(new_tree_mask', NUM_TREES) - tree_mask
      BY <2>4 DEF Gain
    <3> DEFINE a == new_tree_mask'
               low == Low(a, NUM_TREES)
               ph == P * h
    <3>3. ph \in Nat /\ a = ph + low /\ low \in Int /\ tree_mask \in Nat
      BY <2>1, <2>2, <2>3 DEF IInv, TypeOK
    <3>4. full_buffers' = a - tree_mask /\ Gain(NUM_TREES)' = low - tree_mask
      BY <3>1, <3>2
    <3> HIDE DEF a, low, ph
    <3>5. full_buffers' - Gain(NUM_TREES)' = ph
      BY <3>3, <3>4
    <3> QED
      BY <3>5 DEF ph
  <2>6. Fits' => h = 0
    BY <2>1, <2>2, <2>3 DEF Fits
  <2>7. ~Fits' => P * h >= P
    <3>1. h = 0 => new_tree_mask' < P
      BY <2>1, <2>2, <2>3
    <3>2. h > 0 => P * h >= P
      BY <2>1, <2>2
    <3> QED
      BY <3>1, <3>2, <2>2 DEF Fits
  <2>8. Slack(full_buffers - Gain(NUM_TREES), NUM_TREES)'
    BY <2>5, <2>6, <2>7, <2>1 DEF Slack
  <2>9. outer_i' + 1 = NUM_TREES
    BY NumTreesAssumption DEF Start
  <2> QED
    BY <2>8, <2>9, <1>3 DEF SumInv, Start
<1> QED
  BY <1>4, <1>5, <1>6, <1>7, <1>8 DEF IInv

\* One bit more: the gain of bits 0..n over the gain of bits 0..n-1.
LEMMA GainStep ==
  ASSUME tree_mask \in Nat, new_tree_mask \in Nat, NEW n \in Trees
  PROVE  /\ Pow2[n] \in Nat \ {0} /\ Pow2[n + 1] = 2 * Pow2[n]
         /\ Gain(n) \in Int /\ -Pow2[n] < Gain(n) /\ Gain(n) < Pow2[n]
         /\ Gain(n + 1) \in Int
         /\ BecomesFull(n) => Gain(n + 1) = Gain(n) + Pow2[n]
         /\ BecomesEmpty(n) => Gain(n + 1) = Gain(n) - Pow2[n]
         /\ ~BecomesFull(n) /\ ~BecomesEmpty(n) => Gain(n + 1) = Gain(n)
<1>1. n \in 0..NUM_TREES /\ n + 1 \in 0..NUM_TREES
  BY NumTreesAssumption DEF Trees
<1>2. Pow2[n] \in Nat \ {0} /\ Pow2[n + 1] = 2 * Pow2[n]
  BY <1>1, LowBits
<1>3. Low(new_tree_mask, n) \in 0..(Pow2[n] - 1) /\ Low(tree_mask, n) \in 0..(Pow2[n] - 1)
  BY <1>1, LowBits
<1>4. /\ Low(new_tree_mask, n + 1)
           = Low(new_tree_mask, n) + (IF NthBitSet(new_tree_mask, n) THEN Pow2[n] ELSE 0)
      /\ Low(tree_mask, n + 1)
           = Low(tree_mask, n) + (IF NthBitSet(tree_mask, n) THEN Pow2[n] ELSE 0)
  BY LowBits
<1>5. NthBitSet(new_tree_mask, n) \in BOOLEAN /\ NthBitSet(tree_mask, n) \in BOOLEAN
  BY DEF NthBitSet
<1> QED
  BY <1>2, <1>3, <1>4, <1>5 DEF Gain, BecomesFull, BecomesEmpty

\* What a step leaves alone keeps the operators' values.
LEMMA FrameMasks ==
  ASSUME UNCHANGED <<tree_mask, new_tree_mask>>
  PROVE  /\ \A n \in Int : Gain(n)' = Gain(n)
         /\ \A n \in Int : BecomesFull(n)' = BecomesFull(n)
         /\ \A n \in Int : BecomesEmpty(n)' = BecomesEmpty(n)
         /\ Fits' = Fits
BY DEF Gain, BecomesFull, BecomesEmpty, Fits, Low, NthBitSet

LEMMA FrameSlices ==
  ASSUME SlicesInv, UNCHANGED <<num_points, cur_points_end, moves>>, plan_pc # "start"
  PROVE  SlicesInv'
<1>1. SliceBounds' /\ SliceOrder'
  BY DEF SlicesInv, SliceBounds, SliceOrder
<1>2. SliceCover'
  BY DEF SlicesInv, SliceCover, Indices
<1> QED
  BY <1>1, <1>2 DEF SlicesInv

\* The moves are records of numbers and trees.
LEMMA MoveTypes ==
  ASSUME TypeOK
  PROVE  /\ DOMAIN moves = 1..Len(moves) /\ Len(moves) \in Nat
         /\ \A k \in DOMAIN moves :
              /\ moves[k].uses_buffer \in BOOLEAN
              /\ moves[k].points_start \in Int /\ moves[k].points_end \in Int
              /\ moves[k].trees \subseteq Trees /\ moves[k].new_tree \in Trees
<1>1. moves \in Seq(Move)
  BY DEF TypeOK
<1>2. DOMAIN moves = 1..Len(moves) /\ Len(moves) \in Nat /\ \A k \in DOMAIN moves : moves[k] \in Move
  BY <1>1
<1> QED
  BY <1>2 DEF Move

\* When outer_i stays, the trees of the moves do too.
LEMMA FrameTrees ==
  ASSUME TypeOK, TreesInv, plan_pc # "start",
         UNCHANGED <<tree_mask, new_tree_mask, moves, outer_i>>
  PROVE  TreesInv'
<1>1. TreeBounds' /\ TreeOrder' /\ TreeCover'
  <2>1. TreeBounds'
    BY DEF TreesInv, TreeBounds, BecomesFull, BecomesEmpty, NthBitSet
  <2>2. TreeOrder'
    BY DEF TreesInv, TreeOrder
  <2>3. TreeCover'
    BY DEF TreesInv, TreeCover, BecomesFull, BecomesEmpty, NthBitSet, Fits
  <2> QED
    BY <2>1, <2>2, <2>3
<1> QED
  BY <1>1 DEF TreesInv

LEMMA KeepTreeIInv == IInv /\ KeepTree => IInv'
<1> SUFFICES ASSUME IInv, KeepTree PROVE IInv'
  OBVIOUS
<1> USE DEF inputVars, headVars, moveVars, gatherVars
<1>0. /\ outer_i \in Trees /\ tree_mask \in Nat /\ new_tree_mask \in Nat
      /\ full_buffers \in Int /\ outer_i' = outer_i - 1 /\ plan_pc = "outer"
      /\ UNCHANGED <<tree_mask, new_tree_mask, moves, plan_pc, full_buffers>>
  BY DEF IInv, TypeOK, KeepTree, Trees
<1>1. TypeOK'
  <2>1. outer_i' \in -1..(NUM_TREES - 1)
    BY <1>0, NumTreesAssumption DEF Trees
  <2> QED
    BY <2>1 DEF IInv, TypeOK, KeepTree
<1>2. PcInv' /\ PointsInv' /\ GatherInv'
  BY <1>0 DEF IInv, PcInv, PointsInv, GatherInv, KeepTree
<1>3. SlicesInv'
  BY <1>0, FrameSlices DEF IInv, KeepTree
<1>4. Fits => ~BecomesEmpty(outer_i)
  BY <1>0, GainStep DEF IInv, SumInv, Slack, KeepTree
<1>5. SumInv'
  <2>1. Slack(full_buffers - Gain(outer_i), outer_i)
    BY <1>0, <1>4, GainStep DEF IInv, SumInv, Slack, KeepTree
  <2>2. outer_i' + 1 = outer_i
    BY <1>0 DEF Trees
  <2> QED
    BY <2>1, <2>2, <1>0 DEF IInv, SumInv, Slack, Gain, Fits
<1>6. TreesInv'
  <2>1. outer_i \in Int /\ \A n \in Trees : n \in Int /\ (n > outer_i' <=> n > outer_i \/ n = outer_i)
    BY <1>0 DEF Trees
  <2>2. TreeBounds /\ TreeOrder /\ TreeCover /\ ~BecomesFull(outer_i)
    BY <1>0 DEF IInv, TreesInv, KeepTree
  <2>3. TreeBounds'
    <3>1. \A n \in Trees : outer_i < n => outer_i' < n
      BY <2>1
    <3>2. \A k \in DOMAIN moves : moves[k].trees \subseteq Trees /\ moves[k].new_tree \in Trees
      BY MoveTypes DEF IInv
    <3> QED
      BY <3>1, <3>2, <2>1, <2>2, <1>0 DEF TreeBounds, BecomesFull, BecomesEmpty, NthBitSet
  <2>4. TreeOrder'
    BY <2>2, <1>0 DEF TreeOrder
  <2>5. TreeCover'
    <3> SUFFICES ASSUME NEW n \in Trees, n > outer_i'
                 PROVE  (/\ BecomesFull(n) => \E k \in DOMAIN moves : moves[k].new_tree = n
                         /\ BecomesEmpty(n) /\ Fits
                              => \E k \in DOMAIN moves : n \in moves[k].trees)'
      BY DEF TreeCover
    <3>1. CASE n = outer_i
      BY <3>1, <2>2, <1>4, <1>0 DEF BecomesFull, BecomesEmpty, NthBitSet, Fits
    <3>2. CASE n > outer_i
      BY <3>2, <2>2, <1>0 DEF TreeCover, BecomesFull, BecomesEmpty, NthBitSet, Fits
    <3> QED
      BY <3>1, <3>2, <2>1
  <2> QED
    BY <2>3, <2>4, <2>5 DEF TreesInv
<1> QED
  BY <1>1, <1>2, <1>3, <1>5, <1>6 DEF IInv

LEMMA OpenMoveIInv == IInv /\ OpenMove => IInv'
<1> SUFFICES ASSUME IInv, OpenMove PROVE IInv'
  OBVIOUS
<1> USE DEF inputVars, headVars, moveVars
<1>0. /\ outer_i \in Trees /\ tree_mask \in Nat /\ new_tree_mask \in Nat
      /\ full_buffers \in Int /\ BecomesFull(outer_i) /\ plan_pc' = "inner"
      /\ inner_j' = outer_i - 1 /\ to_gather' = {} /\ size_gathered' = 0
      /\ plan_pc = "outer"
      /\ UNCHANGED <<tree_mask, new_tree_mask, moves, full_buffers, outer_i>>
  BY DEF IInv, TypeOK, OpenMove, Trees
<1>1. TypeOK'
  <2>1. inner_j' \in -1..(NUM_TREES - 1) /\ to_gather' \subseteq Trees /\ size_gathered' \in Nat
    BY <1>0, NumTreesAssumption DEF Trees
  <2> QED
    BY <2>1, <1>0 DEF IInv, TypeOK, OpenMove, PlanPcs
<1>2. PcInv' /\ PointsInv'
  BY <1>0 DEF IInv, PcInv, PointsInv, OpenMove, Trees
<1>3. SlicesInv' /\ TreesInv'
  BY <1>0, FrameSlices, FrameTrees DEF IInv, OpenMove
<1>4. SumInv'
  <2> DEFINE p == Pow2[outer_i]
             f == full_buffers
             gain == Gain(outer_i)
  <2>1. p \in Nat /\ f \in Int /\ gain \in Int /\ 0 \in 0..(p - p)
    BY <1>0, GainStep
  <2>2. Slack(f - (p - 0) - gain, outer_i)
    <3>1. Slack(f - Gain(outer_i + 1), outer_i + 1)
      BY <1>0 DEF IInv, SumInv
    <3> QED
      BY <3>1, <2>1, <1>0, GainStep DEF Slack
  <2>3. inner_j' + 1 = outer_i /\ size_gathered' = BUFFER_SIZE * 0
    BY <1>0, BufferSizeAssumption DEF Trees
  <2>4. Slack(f - (p - 0) - gain, outer_i)'
    BY <2>2, <1>0 DEF Slack, Gain, Fits
  <2> QED
    BY <2>1, <2>3, <2>4, <1>0 DEF SumInv
<1>5. GatherInv'
  BY <1>0 DEF GatherInv, BecomesFull, NthBitSet, Trees
<1> QED
  BY <1>1, <1>2, <1>3, <1>4, <1>5 DEF IInv

LEMMA GatherTreeIInv == IInv /\ GatherTree => IInv'
<1> SUFFICES ASSUME IInv, GatherTree PROVE IInv'
  OBVIOUS
<1> USE DEF inputVars, headVars, moveVars
<1>0. /\ inner_j \in Trees /\ tree_mask \in Nat /\ new_tree_mask \in Nat
      /\ full_buffers \in Int /\ BecomesEmpty(inner_j) /\ outer_i \in Trees
      /\ inner_j' = inner_j - 1 /\ to_gather' = to_gather \cup {inner_j}
      /\ size_gathered' = size_gathered + BUFFER_SIZE * Pow2[inner_j]
      /\ plan_pc = "inner"
      /\ UNCHANGED <<tree_mask, new_tree_mask, moves, full_buffers, outer_i, plan_pc>>
  BY DEF IInv, TypeOK, PcInv, GatherTree, Trees, NthTreeSize
<1>1. /\ Pow2[inner_j] \in Nat \ {0} /\ Pow2[inner_j + 1] = 2 * Pow2[inner_j]
      /\ Pow2[outer_i] \in Nat
  BY <1>0, GainStep
<1>2. TypeOK'
  <2>1. inner_j' \in -1..(NUM_TREES - 1) /\ to_gather' \subseteq Trees
    BY <1>0, NumTreesAssumption DEF Trees, IInv, TypeOK
  <2>2. size_gathered' \in Nat
    BY <1>0, <1>1, BufferSizeAssumption DEF IInv, TypeOK
  <2> QED
    BY <2>1, <2>2, <1>0 DEF IInv, TypeOK, GatherTree
<1>3. PcInv' /\ PointsInv'
  BY <1>0 DEF IInv, PcInv, PointsInv, GatherTree
<1>4. SlicesInv' /\ TreesInv'
  BY <1>0, FrameSlices, FrameTrees DEF IInv, GatherTree
<1>5. SumInv'
  <2>1. PICK g \in 0..(Pow2[outer_i] - Pow2[inner_j + 1]) :
          /\ size_gathered = BUFFER_SIZE * g
          /\ Slack(full_buffers - (Pow2[outer_i] - g) - Gain(inner_j + 1), inner_j + 1)
    BY <1>0 DEF IInv, SumInv
  <2> DEFINE g2 == g + Pow2[inner_j]
  <2>2. g \in Nat /\ g2 \in 0..(Pow2[outer_i] - Pow2[inner_j])
    BY <2>1, <1>1
  <2>3. size_gathered' = BUFFER_SIZE * g2
    BY <2>1, <2>2, <1>0, <1>1, BufferSizeAssumption
  <2>4. Slack(full_buffers - (Pow2[outer_i] - g2) - Gain(inner_j), inner_j)
    BY <2>1, <2>2, <1>0, <1>1, GainStep DEF Slack
  <2> HIDE DEF g2
  <2>5. inner_j' + 1 = inner_j
    BY <1>0 DEF Trees
  <2>6. Slack(full_buffers - (Pow2[outer_i] - g2) - Gain(inner_j' + 1), inner_j' + 1)
    BY <2>4, <2>5
  <2>7. g2 \in 0..(Pow2[outer_i] - Pow2[inner_j' + 1])
    BY <2>2, <2>5
  <2> QED
    BY <2>3, <2>6, <2>7, <1>0 DEF SumInv, Slack, Gain, Fits
<1>6. GatherInv'
  <2>1. \A n \in Trees : n \in Int /\ (inner_j' < n <=> inner_j < n \/ n = inner_j)
    BY <1>0 DEF Trees
  <2>2. /\ inner_j' < outer_i /\ BecomesFull(outer_i) /\ inner_j < outer_i
        /\ to_gather \subseteq Trees
    BY <1>0 DEF IInv, TypeOK, GatherInv, Trees
  <2>3. \A n \in to_gather' : inner_j' < n /\ n < outer_i /\ BecomesEmpty(n)
    BY <2>1, <2>2, <1>0 DEF IInv, GatherInv
  <2>4. \A n \in Trees : inner_j' < n /\ n < outer_i =>
          ~BecomesFull(n) /\ (BecomesEmpty(n) => n \in to_gather')
    BY <2>1, <1>0 DEF IInv, GatherInv, BecomesFull, BecomesEmpty
  <2> QED
    BY <2>2, <2>3, <2>4, <1>0 DEF GatherInv, BecomesFull, BecomesEmpty, NthBitSet
<1> QED
  BY <1>2, <1>3, <1>4, <1>5, <1>6 DEF IInv

LEMMA PassTreeIInv == IInv /\ PassTree => IInv'
<1> SUFFICES ASSUME IInv, PassTree PROVE IInv'
  OBVIOUS
<1> USE DEF inputVars, headVars, moveVars
<1>0. /\ inner_j \in Trees /\ tree_mask \in Nat /\ new_tree_mask \in Nat
      /\ full_buffers \in Int /\ outer_i \in Trees
      /\ ~BecomesEmpty(inner_j) /\ ~BecomesFull(inner_j)
      /\ inner_j' = inner_j - 1 /\ plan_pc = "inner"
      /\ UNCHANGED <<tree_mask, new_tree_mask, moves, full_buffers, outer_i, plan_pc,
                     to_gather, size_gathered>>
  BY DEF IInv, TypeOK, PcInv, PassTree, Trees, BecomesFull, BecomesEmpty
<1>1. /\ Pow2[inner_j] \in Nat \ {0} /\ Pow2[inner_j + 1] = 2 * Pow2[inner_j]
      /\ Pow2[outer_i] \in Nat
  BY <1>0, GainStep
<1>2. TypeOK'
  <2>1. inner_j' \in -1..(NUM_TREES - 1)
    BY <1>0, NumTreesAssumption DEF Trees
  <2> QED
    BY <2>1, <1>0 DEF IInv, TypeOK, PassTree
<1>3. PcInv' /\ PointsInv'
  BY <1>0 DEF IInv, PcInv, PointsInv, PassTree
<1>4. SlicesInv' /\ TreesInv'
  BY <1>0, FrameSlices, FrameTrees DEF IInv, PassTree
<1>5. SumInv'
  <2>1. PICK g \in 0..(Pow2[outer_i] - Pow2[inner_j + 1]) :
          /\ size_gathered = BUFFER_SIZE * g
          /\ Slack(full_buffers - (Pow2[outer_i] - g) - Gain(inner_j + 1), inner_j + 1)
    BY <1>0 DEF IInv, SumInv
  <2>2. g \in 0..(Pow2[outer_i] - Pow2[inner_j])
    BY <2>1, <1>1
  <2>3. Slack(full_buffers - (Pow2[outer_i] - g) - Gain(inner_j), inner_j)
    BY <2>1, <2>2, <1>0, <1>1, GainStep DEF Slack
  <2>4. inner_j' + 1 = inner_j
    BY <1>0 DEF Trees
  <2>5. /\ Slack(full_buffers - (Pow2[outer_i] - g) - Gain(inner_j' + 1), inner_j' + 1)
        /\ g \in 0..(Pow2[outer_i] - Pow2[inner_j' + 1])
    BY <2>2, <2>3, <2>4
  <2> QED
    BY <2>1, <2>5, <1>0 DEF SumInv, Slack, Gain, Fits
<1>6. GatherInv'
  <2>1. \A n \in Trees : n \in Int /\ (inner_j' < n <=> inner_j < n \/ n = inner_j)
    BY <1>0 DEF Trees
  <2>2. /\ inner_j' < outer_i /\ BecomesFull(outer_i) /\ inner_j < outer_i
        /\ to_gather \subseteq Trees
    BY <1>0 DEF IInv, TypeOK, GatherInv, Trees
  <2>3. \A n \in to_gather : inner_j' < n /\ n < outer_i /\ BecomesEmpty(n)
    BY <2>1, <2>2, <1>0 DEF IInv, GatherInv
  <2>4. \A n \in Trees : inner_j' < n /\ n < outer_i =>
          ~BecomesFull(n) /\ (BecomesEmpty(n) => n \in to_gather)
    BY <2>1, <1>0 DEF IInv, GatherInv
  <2> QED
    BY <2>2, <2>3, <2>4, <1>0 DEF GatherInv, BecomesFull, BecomesEmpty, NthBitSet
<1> QED
  BY <1>2, <1>3, <1>4, <1>5, <1>6 DEF IInv

LEMMA CloseMoveIInv == IInv /\ CloseMove => IInv'
<1> SUFFICES ASSUME IInv, CloseMove PROVE IInv'
  OBVIOUS
<1> USE DEF inputVars, headVars, gatherVars
<1> DEFINE i == outer_i
           j == inner_j
           from_trees == NthTreeSize(i) - size_gathered
           left == full_buffers - (from_trees \div BUFFER_SIZE)
           take == TakesBuffer(left)
           from_points == from_trees - (IF take THEN buffer_size ELSE 0)
           start == cur_points_end - from_points
           move == [uses_buffer |-> take, points_start |-> start,
                    points_end |-> cur_points_end, trees |-> to_gather,
                    new_tree |-> i]
<1>0. /\ i \in Trees /\ j \in -1..(NUM_TREES - 1)
      /\ tree_mask \in Nat /\ new_tree_mask \in Nat
      /\ full_buffers \in Int /\ plan_pc = "inner" /\ plan_pc' = "outer"
      /\ UNCHANGED <<tree_mask, new_tree_mask, num_points, buffer_size, remainder,
                     use_buffer, inner_j, to_gather, size_gathered>>
      /\ outer_i' = j /\ (j >= 0 => BecomesFull(j))
  BY DEF IInv, TypeOK, PcInv, CloseMove, Trees
<1>1. /\ full_buffers' = left /\ have_used_buffer' = (have_used_buffer \/ take)
      /\ cur_points_end' = start /\ moves' = Append(moves, move)
  BY DEF CloseMove
<1>2. PICK g \in 0..(Pow2[i] - Pow2[j + 1]) :
        /\ size_gathered = BUFFER_SIZE * g
        /\ Slack(full_buffers - (Pow2[i] - g) - Gain(j + 1), j + 1)
  BY <1>0 DEF IInv, SumInv
<1> DEFINE d == Pow2[i] - g
<1>3. /\ Pow2[i] \in Nat \ {0} /\ Pow2[j + 1] \in Nat \ {0} /\ d \in Nat \ {0}
      /\ j + 1 \in 0..NUM_TREES
  <2>1. Pow2[i] \in Nat \ {0}
    BY <1>0, LowBits, NumTreesAssumption DEF Trees
  <2>2. j + 1 \in 0..NUM_TREES
    BY <1>0, NumTreesAssumption
  <2>3. Pow2[j + 1] \in Nat \ {0}
    BY <2>2, LowBits
  <2> QED
    BY <2>1, <2>2, <2>3
<1>4. from_trees = BUFFER_SIZE * d /\ from_trees \div BUFFER_SIZE = d
  <2>1. from_trees = BUFFER_SIZE * d
    BY <1>2, <1>3, BufferSizeAssumption DEF NthTreeSize
  <2> QED
    BY <2>1, <1>3, DivExact, BufferSizeAssumption
<1>5. left = full_buffers - d /\ left \in Int
  BY <1>4, <1>3, <1>0
<1>6. Slack(left - Gain(j + 1), j + 1) /\ left >= 0
  <2>1. Slack(left - Gain(j + 1), j + 1)
    BY <1>2, <1>5
  <2>2. CASE j >= 0
    <3>1. j \in Trees
      BY <2>2, <1>0 DEF Trees
    <3> QED
      BY <3>1, <2>1, <2>2, <1>0, <1>5, GainStep DEF Slack
  <2>3. CASE j < 0
    <3>1. j + 1 = 0
      BY <2>3, <1>0
    <3>2. Gain(0) = 0
      BY LowBits, <1>0 DEF Gain
    <3> QED
      BY <3>1, <3>2, <2>1, <1>3, <1>5 DEF Slack
  <2> QED
    BY <2>1, <2>2, <2>3, <1>0
<1>7. ~have_used_buffer /\ use_buffer \in BOOLEAN
  <2>1. full_buffers # 0
    <3> HIDE DEF d, left
    <3> QED
      BY <1>0, <1>3, <1>5, <1>6
  <2>2. have_used_buffer => full_buffers = 0
    BY <1>0 DEF IInv, PointsInv
  <2> QED
    BY <2>1, <2>2 DEF IInv, TypeOK
<1>8. /\ take = (use_buffer /\ left = 0) /\ take \in BOOLEAN
  BY <1>7 DEF TakesBuffer
<1>9. /\ buffer_size \in 0..BUFFER_SIZE /\ cur_points_end \in Int
      /\ remainder \in Nat /\ num_points \in Nat
      /\ BUFFER_SIZE * d \in Nat /\ BUFFER_SIZE * d >= BUFFER_SIZE
      /\ BUFFER_SIZE * full_buffers - BUFFER_SIZE * d = BUFFER_SIZE * left
      /\ BUFFER_SIZE * full_buffers \in Int
  <2>1. /\ buffer_size \in 0..BUFFER_SIZE /\ cur_points_end \in Int
        /\ remainder \in Nat /\ num_points \in Nat
    BY DEF IInv, TypeOK
  <2> HIDE DEF d, left
  <2>2. /\ BUFFER_SIZE * d \in Nat /\ BUFFER_SIZE * d >= BUFFER_SIZE
        /\ BUFFER_SIZE * full_buffers \in Int
    BY <1>3, <1>0, BufferSizeAssumption
  <2>3. BUFFER_SIZE * full_buffers - BUFFER_SIZE * d = BUFFER_SIZE * left
    BY <1>3, <1>5, <1>0, BufferSizeAssumption
  <2> QED
    BY <2>1, <2>2, <2>3
<1>10. /\ from_points \in Int /\ from_points >= 0 /\ start \in Int
       /\ start <= cur_points_end
  BY <1>4, <1>8, <1>9, BufferSizeAssumption
<1> HIDE DEF d
<1>11. move \in Move
  BY <1>0, <1>8, <1>9, <1>10 DEF Move, IInv, TypeOK
<1>12. PointsInv'
  <2>1. PointsInv
    BY DEF IInv
  <2>2. start = remainder + BUFFER_SIZE * left - (IF use_buffer /\ left # 0 THEN buffer_size ELSE 0)
    <3> HIDE DEF left, from_trees
    <3> DEFINE bf == BUFFER_SIZE * full_buffers
               bd == BUFFER_SIZE * d
               bl == BUFFER_SIZE * left
    <3>1. cur_points_end = remainder + bf - (IF use_buffer THEN buffer_size ELSE 0)
      BY <2>1, <1>0, <1>7 DEF PointsInv
    <3>2. bf - bd = bl /\ bf \in Int /\ bd \in Nat /\ from_trees = bd
      BY <1>9, <1>4
    <3> HIDE DEF bf, bd, bl, take
    <3>3. bl \in Int
      BY <3>2
    <3>4. start = remainder + bl - (IF use_buffer /\ left # 0 THEN buffer_size ELSE 0)
      <4>1. CASE take
        <5>1. use_buffer /\ left = 0
          BY <4>1, <1>8
        <5> QED
          BY <4>1, <5>1, <3>1, <3>2, <3>3, <1>9
      <4>2. CASE ~take /\ use_buffer
        <5>1. left # 0
          BY <4>2, <1>8
        <5> QED
          BY <4>2, <5>1, <3>1, <3>2, <3>3, <1>9
      <4>3. CASE ~take /\ ~use_buffer
        BY <4>3, <3>1, <3>2, <3>3, <1>9
      <4> QED
        BY <4>1, <4>2, <4>3
    <3> QED
      BY <3>4 DEF bl
  <2> HIDE DEF start, left, take
  <2> QED
    BY <2>1, <2>2, <1>0, <1>1, <1>7, <1>8 DEF PointsInv
<1> HIDE DEF left, from_trees, from_points, take, start
<1>13. TypeOK'
  <2>1. moves' \in Seq(Move)
    BY <1>1, <1>11 DEF IInv, TypeOK
  <2>2. have_used_buffer' \in BOOLEAN
    BY <1>1, <1>7, <1>8
  <2> QED
    BY <2>1, <2>2, <1>0, <1>1, <1>5, <1>10 DEF IInv, TypeOK, PlanPcs
<1>14. PcInv'
  BY <1>0 DEF IInv, PcInv
<1>15. SumInv'
  BY <1>0, <1>1, <1>6 DEF SumInv, Slack, Gain, Fits
<1>16. GatherInv'
  BY <1>0 DEF GatherInv
<1> DEFINE last == Len(moves) + 1
<1>17. /\ DOMAIN moves = 1..Len(moves) /\ Len(moves) \in Nat
       /\ DOMAIN moves' = DOMAIN moves \cup {last}
       /\ \A k \in DOMAIN moves : moves'[k] = moves[k] /\ k < last
       /\ moves'[last] = move /\ last \in Int /\ ~(last < last)
       /\ \A k \in DOMAIN moves : k \in Int /\ ~(last < k)
  <2>1. moves \in Seq(Move)
    BY DEF IInv, TypeOK
  <2> HIDE DEF move
  <2> QED
    BY <2>1, <1>1, <1>11
<1> HIDE DEF last
<1>18. SlicesInv'
  <2>1. SliceBounds /\ SliceOrder /\ SliceCover
    BY <1>0 DEF IInv, SlicesInv
  <2>2. /\ move.points_start = start /\ move.points_end = cur_points_end
    OBVIOUS
  <2>3. \A k \in DOMAIN moves : moves[k].points_start \in Int /\ moves[k].points_end \in Int
    BY MoveTypes DEF IInv
  <2> HIDE DEF move
  <2>4. SliceBounds'
    <3>1. cur_points_end <= num_points /\ start <= num_points
      BY <2>1, <1>9, <1>10 DEF SliceBounds
    <3> SUFFICES ASSUME NEW k \in DOMAIN moves'
                 PROVE  /\ start <= moves'[k].points_start
                        /\ moves'[k].points_start <= moves'[k].points_end
                        /\ moves'[k].points_end <= num_points
      BY <3>1, <1>0, <1>1 DEF SliceBounds
    <3>2. CASE k \in DOMAIN moves
      BY <3>2, <2>1, <2>3, <1>9, <1>10, <1>17 DEF SliceBounds
    <3>3. CASE k = last
      BY <3>3, <3>1, <2>2, <1>9, <1>10, <1>17
    <3> QED
      BY <3>2, <3>3, <1>17
  <2>5. SliceOrder'
    <3> SUFFICES ASSUME NEW k \in DOMAIN moves', NEW l \in DOMAIN moves', k < l
                 PROVE  moves'[l].points_end <= moves'[k].points_start
      BY DEF SliceOrder
    <3>1. k \in DOMAIN moves
      BY <1>17
    <3>2. CASE l \in DOMAIN moves
      BY <3>1, <3>2, <2>1, <1>17 DEF SliceOrder
    <3>3. CASE l = last
      BY <3>1, <3>3, <2>1, <2>2, <1>17 DEF SliceBounds
    <3> QED
      BY <3>2, <3>3, <1>17
  <2>6. SliceCover'
    <3> SUFFICES ASSUME NEW x \in 0..(num_points - 1), x >= start
                 PROVE  \E k \in DOMAIN moves' : x \in Indices(moves'[k])
      BY <1>0, <1>1 DEF SliceCover, Indices
    <3>1. CASE x >= cur_points_end
      <4>1. PICK k \in DOMAIN moves : x \in Indices(moves[k])
        BY <3>1, <2>1 DEF SliceCover
      <4> QED
        BY <4>1, <1>17
    <3>2. CASE ~(x >= cur_points_end)
      <4>1. x \in Indices(move)
        BY <3>2, <2>2, <1>9, <1>10 DEF Indices
      <4> QED
        BY <4>1, <1>17
    <3> QED
      BY <3>1, <3>2
  <2> QED
    BY <2>4, <2>5, <2>6 DEF SlicesInv
<1>19. TreesInv'
  <2>1. TreeBounds /\ TreeOrder /\ TreeCover
    BY <1>0 DEF IInv, TreesInv
  <2>2. move.trees = to_gather /\ move.new_tree = i
    OBVIOUS
  <2>3. \A k \in DOMAIN moves : moves[k].trees \subseteq Trees /\ moves[k].new_tree \in Trees
    BY MoveTypes DEF IInv
  <2>4. /\ j < i /\ BecomesFull(i) /\ to_gather \subseteq Trees
        /\ \A n \in to_gather : j < n /\ n < i /\ BecomesEmpty(n)
        /\ \A n \in Trees : j < n /\ n < i =>
             ~BecomesFull(n) /\ (BecomesEmpty(n) => n \in to_gather)
    BY <1>0 DEF IInv, TypeOK, GatherInv
  <2>5. \A n \in Trees : /\ n \in Int /\ (n > i => n > j)
                         /\ (n > j => n > i \/ n = i \/ (j < n /\ n < i))
    BY <2>4, <1>0 DEF Trees
  <2>6. /\ \A n \in Int : BecomesFull(n)' = BecomesFull(n)
        /\ \A n \in Int : BecomesEmpty(n)' = BecomesEmpty(n)
        /\ Fits' = Fits
    BY <1>0, FrameMasks
  <2> HIDE DEF move
  <2>7. TreeBounds'
    <3> SUFFICES ASSUME NEW k \in DOMAIN moves'
                 PROVE  /\ moves'[k].new_tree > j /\ BecomesFull(moves'[k].new_tree)
                        /\ \A n \in moves'[k].trees :
                             j < n /\ n < moves'[k].new_tree /\ BecomesEmpty(n)
      BY <1>0 DEF TreeBounds, BecomesFull, BecomesEmpty, NthBitSet
    <3>1. CASE k \in DOMAIN moves
      <4>1. /\ moves[k].new_tree > i /\ BecomesFull(moves[k].new_tree)
            /\ \A n \in moves[k].trees : i < n /\ n < moves[k].new_tree /\ BecomesEmpty(n)
        BY <3>1, <2>1 DEF TreeBounds
      <4> QED
        BY <4>1, <3>1, <2>3, <2>5, <1>17
    <3>2. CASE k = last
      BY <3>2, <2>2, <2>4, <1>0, <1>17 DEF Trees
    <3> QED
      BY <3>1, <3>2, <1>17
  <2>8. TreeOrder'
    <3> SUFFICES ASSUME NEW k \in DOMAIN moves', NEW l \in DOMAIN moves', k < l
                 PROVE  /\ moves'[l].new_tree < moves'[k].new_tree
                        /\ \A n \in moves'[k].trees : moves'[l].new_tree < n
      BY DEF TreeOrder
    <3>1. k \in DOMAIN moves
      BY <1>17
    <3>2. CASE l \in DOMAIN moves
      BY <3>1, <3>2, <2>1, <1>17 DEF TreeOrder
    <3>3. CASE l = last
      BY <3>1, <3>3, <2>1, <2>2, <2>3, <1>0, <1>17 DEF TreeBounds, Trees
    <3> QED
      BY <3>2, <3>3, <1>17
  <2>9. TreeCover'
    <3> SUFFICES ASSUME NEW n \in Trees, n > j
                 PROVE  /\ BecomesFull(n) => \E k \in DOMAIN moves' : moves'[k].new_tree = n
                        /\ BecomesEmpty(n) /\ Fits
                             => \E k \in DOMAIN moves' : n \in moves'[k].trees
      BY <1>0 DEF TreeCover, BecomesFull, BecomesEmpty, NthBitSet, Fits
    <3>1. CASE n > i
      BY <3>1, <2>1, <1>17 DEF TreeCover
    <3>2. CASE n = i
      BY <3>2, <2>2, <2>4, <1>17 DEF BecomesFull, BecomesEmpty
    <3>3. CASE j < n /\ n < i
      BY <3>3, <2>2, <2>4, <1>17
    <3> QED
      BY <3>1, <3>2, <3>3, <2>5
  <2> QED
    BY <2>7, <2>8, <2>9 DEF TreesInv
<1> QED
  BY <1>12, <1>13, <1>14, <1>15, <1>16, <1>18, <1>19 DEF IInv

LEMMA FinishIInv == IInv /\ Finish => IInv'
<1> SUFFICES ASSUME IInv, Finish PROVE IInv'
  OBVIOUS
<1> USE DEF inputVars, headVars, moveVars, gatherVars
<1>0. /\ outer_i = -1 /\ full_buffers \in Int /\ tree_mask \in Nat /\ new_tree_mask \in Nat
      /\ plan_pc = "outer" /\ plan_pc' = (IF full_buffers # 0 THEN "throw" ELSE "done")
      /\ UNCHANGED <<tree_mask, new_tree_mask, moves, full_buffers, outer_i>>
  BY NumTreesAssumption DEF IInv, TypeOK, Finish
<1>1. TypeOK' /\ PcInv' /\ PointsInv' /\ GatherInv'
  BY <1>0 DEF IInv, TypeOK, PcInv, PointsInv, GatherInv, Finish, PlanPcs
<1>2. SlicesInv' /\ TreesInv'
  BY <1>0, FrameSlices, FrameTrees DEF IInv, Finish
<1>3. SumInv'
  <2>1. Slack(full_buffers - Gain(0), 0)
    BY <1>0 DEF IInv, SumInv
  <2>2. Gain(0) = 0 /\ Pow2[0] = 1
    BY <1>0, LowBits, Pow2Assumption DEF Gain
  <2>3. full_buffers = 0 <=> Fits
    BY <2>1, <2>2, <1>0 DEF Slack
  <2> QED
    BY <2>3, <1>0 DEF SumInv, Fits
<1> QED
  BY <1>1, <1>2, <1>3 DEF IInv

LEMMA StutterIInv == IInv /\ UNCHANGED vars => IInv'
<1> SUFFICES ASSUME IInv, UNCHANGED vars PROVE IInv'
  OBVIOUS
<1> USE DEF vars, planVars, inputVars, headVars, moveVars, gatherVars
<1>1. TypeOK' /\ PcInv' /\ PointsInv'
  BY DEF IInv, TypeOK, PcInv, PointsInv
<1>2. SlicesInv' /\ TreesInv'
  BY DEF IInv, SlicesInv, SliceBounds, SliceOrder, SliceCover, Indices, TreesInv, TreeBounds,
         TreeOrder, TreeCover, BecomesFull, BecomesEmpty, NthBitSet, Fits
<1>3. SumInv' /\ GatherInv'
  BY DEF IInv, SumInv, Slack, Gain, Low, GatherInv, BecomesFull, BecomesEmpty, NthBitSet, Fits
<1> QED
  BY <1>1, <1>2, <1>3 DEF IInv

LEMMA NextIInv == IInv /\ [Next]_vars => IInv'
BY StartIInv, KeepTreeIInv, OpenMoveIInv, GatherTreeIInv, PassTreeIInv, CloseMoveIInv,
   FinishIInv, StutterIInv DEF Next

-----------------------------------------------------------------------------
(* What the invariant says about the code *)

\* While a move is open, there are full buffers left to place.
LEMMA InnerHasBuffers == IInv /\ plan_pc = "inner" => full_buffers > 0
<1> SUFFICES ASSUME IInv, plan_pc = "inner" PROVE full_buffers > 0
  OBVIOUS
<1> DEFINE j == inner_j + 1
<1>1. PICK g \in 0..(Pow2[outer_i] - Pow2[j]) :
        Slack(full_buffers - (Pow2[outer_i] - g) - Gain(j), j)
  BY DEF IInv, SumInv
<1>2. j \in 0..NUM_TREES /\ outer_i \in 0..NUM_TREES /\ full_buffers \in Int
  BY NumTreesAssumption DEF IInv, TypeOK, PcInv
<1>3. /\ Low(new_tree_mask, j) \in 0..(Pow2[j] - 1) /\ Low(tree_mask, j) \in 0..(Pow2[j] - 1)
      /\ Pow2[j] \in Nat \ {0} /\ Pow2[outer_i] \in Nat
  BY <1>2, LowBits DEF IInv, TypeOK
<1> HIDE DEF j
<1>4. Gain(j) \in Int /\ -Pow2[j] < Gain(j)
  BY <1>3 DEF Gain
<1> QED
  BY <1>1, <1>2, <1>3, <1>4 DEF Slack

LEMMA AssertsLemma == IInv => AssertsHold
<1> SUFFICES ASSUME IInv, Fits
             PROVE  /\ plan_pc = "outer" /\ outer_i >= 0 => ~BecomesEmpty(outer_i)
                    /\ plan_pc = "outer" /\ outer_i < 0 => cur_points_end = remainder
                    /\ have_used_buffer => full_buffers = 0 /\ plan_pc # "inner"
  BY DEF AssertsHold
<1>0. /\ tree_mask \in Nat /\ new_tree_mask \in Nat /\ full_buffers \in Int
      /\ outer_i \in -1..(NUM_TREES - 1) /\ remainder \in Nat
  BY DEF IInv, TypeOK
<1>1. ASSUME plan_pc = "outer", outer_i >= 0 PROVE ~BecomesEmpty(outer_i)
  <2>1. outer_i \in Trees
    BY <1>0, <1>1 DEF Trees
  <2> QED
    BY <2>1, <1>0, <1>1, GainStep DEF IInv, SumInv, Slack
<1>2. ASSUME plan_pc = "outer", outer_i < 0 PROVE cur_points_end = remainder
  <2>1. outer_i + 1 = 0
    BY <1>0, <1>2, NumTreesAssumption
  <2>2. Gain(0) = 0
    BY <1>0, LowBits DEF Gain
  <2>3. full_buffers = 0
    BY <2>1, <2>2, <1>0, <1>2 DEF IInv, SumInv, Slack
  <2> QED
    BY <2>3, <1>0, <1>2, BufferSizeAssumption DEF IInv, PointsInv
<1>3. ASSUME have_used_buffer PROVE full_buffers = 0 /\ plan_pc # "inner"
  <2>1. full_buffers = 0
    BY <1>3 DEF IInv, PcInv, PointsInv
  <2> QED
    BY <2>1, InnerHasBuffers
<1> QED
  BY <1>1, <1>2, <1>3

LEMMA MovesLemma == IInv => MovesMatchMasks
<1> SUFFICES ASSUME IInv, plan_pc = "done" PROVE
      /\ {moves[k].new_tree : k \in DOMAIN moves} = {n \in Trees : BecomesFull(n)}
      /\ UNION {moves[k].trees : k \in DOMAIN moves} = {n \in Trees : BecomesEmpty(n)}
      /\ \A k \in DOMAIN moves : \A n \in moves[k].trees : n < moves[k].new_tree
      /\ \A k, l \in DOMAIN moves :
           k # l => /\ moves[k].new_tree # moves[l].new_tree
                    /\ moves[k].trees \cap moves[l].trees = {}
  BY DEF MovesMatchMasks
<1>1. TreeBounds /\ TreeOrder /\ TreeCover /\ outer_i = -1 /\ Fits
  BY DEF IInv, TreesInv, PcInv, SumInv
<1>2. /\ \A n \in Trees : n \in Int /\ n > outer_i
      /\ \A k \in DOMAIN moves : moves[k].trees \subseteq Trees /\ moves[k].new_tree \in Trees
      /\ \A k \in DOMAIN moves : k \in Int
  BY <1>1, MoveTypes DEF IInv, Trees
<1>3. {moves[k].new_tree : k \in DOMAIN moves} = {n \in Trees : BecomesFull(n)}
  BY <1>1, <1>2 DEF TreeBounds, TreeCover
<1>4. UNION {moves[k].trees : k \in DOMAIN moves} = {n \in Trees : BecomesEmpty(n)}
  <2>1. ASSUME NEW k \in DOMAIN moves, NEW n \in moves[k].trees
        PROVE  n \in Trees /\ BecomesEmpty(n)
    BY <1>1, <1>2 DEF TreeBounds
  <2>2. ASSUME NEW n \in Trees, BecomesEmpty(n)
        PROVE  \E k \in DOMAIN moves : n \in moves[k].trees
    BY <2>2, <1>1, <1>2 DEF TreeCover
  <2> QED
    BY <2>1, <2>2
<1>5. \A k \in DOMAIN moves : \A n \in moves[k].trees : n < moves[k].new_tree
  BY <1>1 DEF TreeBounds
<1>6. ASSUME NEW k \in DOMAIN moves, NEW l \in DOMAIN moves, k < l
      PROVE  /\ moves[k].new_tree # moves[l].new_tree
             /\ moves[k].trees \cap moves[l].trees = {}
  <2>1. moves[l].new_tree < moves[k].new_tree /\ \A n \in moves[k].trees : moves[l].new_tree < n
    BY <1>1, <1>6 DEF TreeOrder
  <2> QED
    BY <2>1, <1>2, <1>5
<1>7. \A k, l \in DOMAIN moves : k # l => k < l \/ l < k
  BY <1>2
<1> QED
  BY <1>3, <1>4, <1>5, <1>6, <1>7

LEMMA SlicesLemma == IInv => SlicesPartitionBatch
<1> SUFFICES ASSUME IInv, plan_pc = "done" PROVE
      /\ \A x \in 0..(num_points - 1) :
           x >= remainder => \E k \in DOMAIN moves : x \in Indices(moves[k])
      /\ \A k \in DOMAIN moves : Indices(moves[k]) \subseteq remainder..(num_points - 1)
      /\ \A k, l \in DOMAIN moves :
           k # l => Indices(moves[k]) \cap Indices(moves[l]) = {}
  BY DEF SlicesPartitionBatch
<1>1. SliceBounds /\ SliceOrder /\ SliceCover
  BY DEF IInv, SlicesInv
<1>2. remainder \in Nat /\ num_points \in Nat /\ buffer_size \in Nat
  BY BufferSizeAssumption DEF IInv, TypeOK
<1>3. cur_points_end = remainder
  BY <1>2, BufferSizeAssumption DEF IInv, SumInv, PointsInv
<1>4. /\ \A k \in DOMAIN moves : moves[k].points_start \in Int /\ moves[k].points_end \in Int
      /\ \A k \in DOMAIN moves : k \in Int
  BY MoveTypes DEF IInv
<1>5. \A k \in DOMAIN moves : Indices(moves[k]) \subseteq remainder..(num_points - 1)
  BY <1>1, <1>2, <1>3, <1>4 DEF SliceBounds, Indices
<1>6. ASSUME NEW k \in DOMAIN moves, NEW l \in DOMAIN moves, k < l
      PROVE  Indices(moves[k]) \cap Indices(moves[l]) = {}
  BY <1>1, <1>4, <1>6 DEF SliceOrder, Indices
<1>7. \A k, l \in DOMAIN moves : k # l => k < l \/ l < k
  BY <1>4
<1>8. \A k, l \in DOMAIN moves : k # l => Indices(moves[k]) \cap Indices(moves[l]) = {}
  BY <1>6, <1>7
<1> QED
  BY <1>1, <1>3, <1>5, <1>8 DEF SliceCover

LEMMA RemainderLemma == IInv => RemainderFits
BY BufferSizeAssumption DEF IInv, RemainderFits, PointsInv, SumInv, TypeOK

LEMMA ThrowsLemma == IInv => ThrowsIffFull
BY DEF IInv, ThrowsIffFull, SumInv

LEMMA Invariance == Spec => []IInv
BY InitIInv, NextIInv, PTL DEF Spec

-----------------------------------------------------------------------------
(* What LogTree needs of the plan beside its properties *)

BufferInv ==
  /\ plan_pc # "start" => new_tree_mask = tree_mask + FullBuffers
  /\ have_used_buffer <=> \E k \in DOMAIN moves : moves[k].uses_buffer
  /\ \A k, l \in DOMAIN moves : moves[k].uses_buffer /\ moves[l].uses_buffer => k = l

LEMMA InitBufferInv == Init => BufferInv
BY DEF Init, NoPlan, BufferInv

LEMMA CloseMoveBufferInv == IInv /\ BufferInv /\ CloseMove => BufferInv'
<1> SUFFICES ASSUME IInv, BufferInv, CloseMove PROVE BufferInv'
  OBVIOUS
<1> USE DEF inputVars, headVars, gatherVars
<1>1. PICK move \in [uses_buffer : BOOLEAN, points_start : Int, points_end : Int,
                     trees : SUBSET Trees, new_tree : Trees] :
        /\ moves' = Append(moves, move)
        /\ have_used_buffer' = (have_used_buffer \/ move.uses_buffer)
  <2>1. moves' \in Seq(Move) /\ moves \in Seq(Move)
    BY CloseMoveIInv DEF IInv, TypeOK
  <2>2. PICK move : /\ moves' = Append(moves, move)
                    /\ have_used_buffer' = (have_used_buffer \/ move.uses_buffer)
    BY DEF CloseMove
  <2>3. moves'[Len(moves) + 1] = move /\ Len(moves) + 1 \in DOMAIN moves'
    BY <2>1, <2>2
  <2>4. move \in Move
    BY <2>1, <2>3
  <2> QED
    BY <2>2, <2>4 DEF Move
<1>2. have_used_buffer = FALSE
  BY InnerHasBuffers DEF IInv, TypeOK, PointsInv, CloseMove
<1>3. moves \in Seq(Move) /\ \A k \in DOMAIN moves : ~moves[k].uses_buffer
  BY <1>2 DEF IInv, TypeOK, BufferInv
<1>4. /\ DOMAIN moves' = DOMAIN moves \cup {Len(moves) + 1}
      /\ \A k \in DOMAIN moves : moves'[k] = moves[k]
      /\ moves'[Len(moves) + 1].uses_buffer = move.uses_buffer
  BY <1>1, <1>3
<1>5. plan_pc' # "start" => new_tree_mask' = tree_mask' + FullBuffers'
  BY DEF CloseMove, BufferInv, FullBuffers, Overflows
<1> QED
  BY <1>1, <1>2, <1>3, <1>4, <1>5 DEF BufferInv

LEMMA NextBufferInv == IInv /\ BufferInv /\ [Next]_vars => BufferInv'
<1> SUFFICES ASSUME IInv, BufferInv, [Next]_vars PROVE BufferInv'
  OBVIOUS
<1> USE DEF BufferInv, FullBuffers, Overflows, inputVars, headVars, moveVars, gatherVars
<1>1. CASE Start
  BY <1>1 DEF Start
<1>2. CASE KeepTree
  BY <1>2 DEF KeepTree
<1>3. CASE OpenMove
  BY <1>3 DEF OpenMove
<1>4. CASE GatherTree
  BY <1>4 DEF GatherTree
<1>5. CASE PassTree
  BY <1>5 DEF PassTree
<1>6. CASE CloseMove
  BY <1>6, CloseMoveBufferInv
<1>7. CASE Finish
  BY <1>7 DEF Finish
<1>8. CASE UNCHANGED vars
  BY <1>8 DEF vars, planVars
<1> QED
  BY <1>1, <1>2, <1>3, <1>4, <1>5, <1>6, <1>7, <1>8 DEF Next

\* A finished move gives its tree what it is full with; the open one has added up
\* the sizes of the trees it has gathered.
MoveFills(m) ==
  (m.points_end - m.points_start)
    + SumFunctionOnSet([n \in Trees |-> NthTreeSize(n)], m.trees)
    + (IF m.uses_buffer THEN buffer_size ELSE 0)
  = NthTreeSize(m.new_tree)

FillInv ==
  /\ plan_pc = "inner" =>
       size_gathered = SumFunctionOnSet([n \in Trees |-> NthTreeSize(n)], to_gather)
  /\ \A k \in DOMAIN moves : MoveFills(moves[k])

LEMMA SizesAre ==
  /\ \A S \in SUBSET Trees : IsFiniteSet(S)
  /\ \A n \in Trees : /\ NthTreeSize(n) \in Nat \ {0}
                      /\ [m \in Trees |-> NthTreeSize(m)][n] \in Int
<1>1. IsFiniteSet(Trees)
  BY FS_Interval, NumTreesAssumption DEF Trees
<1>2. \A n \in Trees : Pow2[n] \in Nat \ {0}
  BY Pow2Assumption, NumTreesAssumption DEF Trees
<1>3. \A n \in Trees : NthTreeSize(n) \in Nat \ {0}
  BY <1>2, BufferSizeAssumption DEF NthTreeSize
<1> QED
  BY <1>1, <1>3, FS_Subset

LEMMA InitFillInv == Init => FillInv
BY DEF Init, NoPlan, FillInv

LEMMA GatherTreeFillInv == IInv /\ FillInv /\ GatherTree => FillInv'
<1> SUFFICES ASSUME IInv, FillInv, GatherTree PROVE FillInv'
  OBVIOUS
<1> DEFINE sizes == [n \in Trees |-> NthTreeSize(n)]
<1>1. inner_j \in Trees /\ inner_j \notin to_gather /\ to_gather \in SUBSET Trees
  BY DEF IInv, TypeOK, GatherInv, GatherTree, Trees
<1>2. sizes[inner_j] = NthTreeSize(inner_j)
  BY <1>1
<1>3. \A n \in to_gather : sizes[n] \in Int
  BY <1>1, SizesAre
<1> HIDE DEF sizes
<1>4. SumFunctionOnSet(sizes, to_gather \cup {inner_j})
        = SumFunctionOnSet(sizes, to_gather) + NthTreeSize(inner_j)
  BY <1>1, <1>2, <1>3, SizesAre, SumAdd
<1>5. size_gathered' = SumFunctionOnSet(sizes, to_gather')
  BY <1>4 DEF FillInv, GatherTree, sizes
<1>6. moves' = moves /\ buffer_size' = buffer_size
  BY DEF GatherTree, inputVars, moveVars
<1> QED
  BY <1>5, <1>6 DEF FillInv, MoveFills, sizes

LEMMA CloseMoveFillInv == IInv /\ FillInv /\ CloseMove => FillInv'
<1> SUFFICES ASSUME IInv, FillInv, CloseMove PROVE FillInv'
  OBVIOUS
<1> DEFINE num_from_trees == NthTreeSize(outer_i) - size_gathered
           left == full_buffers - (num_from_trees \div BUFFER_SIZE)
           from_buffer == IF TakesBuffer(left) THEN buffer_size ELSE 0
           start == cur_points_end - (num_from_trees - from_buffer)
           move == [uses_buffer |-> TakesBuffer(left), points_start |-> start,
                    points_end |-> cur_points_end, trees |-> to_gather,
                    new_tree |-> outer_i]
<1>1. /\ moves' = Append(moves, move) /\ moves \in Seq(Move)
      /\ plan_pc' = "outer" /\ buffer_size' = buffer_size
  BY DEF IInv, TypeOK, CloseMove, inputVars
<1>2. /\ DOMAIN moves' = DOMAIN moves \cup {Len(moves) + 1}
      /\ \A k \in DOMAIN moves : moves'[k] = moves[k]
      /\ moves'[Len(moves) + 1] = move
  BY <1>1
<1>3. /\ cur_points_end \in Int /\ buffer_size \in Nat /\ size_gathered \in Int
      /\ NthTreeSize(outer_i) \in Nat
  <2>1. outer_i \in Trees
    BY DEF IInv, TypeOK, PcInv, CloseMove, Trees
  <2> QED
    BY <2>1, SizesAre, BufferSizeAssumption DEF IInv, TypeOK
<1>4. size_gathered = SumFunctionOnSet([n \in Trees |-> NthTreeSize(n)], to_gather)
  BY DEF FillInv, CloseMove
<1>5. MoveFills(move)
  <2> HIDE DEF left
  <2>1. from_buffer \in Int
    BY <1>3
  <2>2. (cur_points_end - start) + size_gathered + from_buffer = NthTreeSize(outer_i)
    <3> HIDE DEF from_buffer
    <3> QED
      BY <1>3, <2>1
  <2> QED
    BY <1>4, <2>2 DEF MoveFills
<1> HIDE DEF move
<1>6. \A k \in DOMAIN moves' : MoveFills(moves'[k])
  BY <1>2, <1>5 DEF FillInv
<1> QED
  BY <1>1, <1>6 DEF FillInv, MoveFills

LEMMA NextFillInv == IInv /\ FillInv /\ [Next]_vars => FillInv'
<1> SUFFICES ASSUME IInv, FillInv, [Next]_vars PROVE FillInv'
  OBVIOUS
<1> USE DEF FillInv, MoveFills, inputVars, headVars, moveVars, gatherVars
<1>1. CASE Start
  BY <1>1 DEF Start
<1>2. CASE KeepTree
  BY <1>2 DEF KeepTree
<1>3. CASE OpenMove
  BY <1>3, SumEmpty DEF OpenMove
<1>4. CASE GatherTree
  BY <1>4, GatherTreeFillInv
<1>5. CASE PassTree
  BY <1>5 DEF PassTree
<1>6. CASE CloseMove
  BY <1>6, CloseMoveFillInv
<1>7. CASE Finish
  BY <1>7 DEF Finish
<1>8. CASE UNCHANGED vars
  BY <1>8 DEF vars, planVars
<1> QED
  BY <1>1, <1>2, <1>3, <1>4, <1>5, <1>6, <1>7, <1>8 DEF Next

LEMMA FillLemma == IInv /\ BufferInv /\ FillInv => MovesFillTrees
<1> SUFFICES ASSUME IInv, BufferInv, FillInv, plan_pc = "done"  PROVE MovesFillTrees
  BY DEF MovesFillTrees
<1> DEFINE users == {k \in DOMAIN moves : moves[k].uses_buffer}
<1>1. \A k \in DOMAIN moves : moves[k].points_end - moves[k].points_start >= 0
  <2>1. \A k \in DOMAIN moves : moves[k].points_end \in Int /\ moves[k].points_start \in Int
    BY MoveTypes DEF IInv, TypeOK
  <2> QED
    BY <2>1 DEF IInv, SlicesInv, SliceBounds
<1>2. use_buffer <=> users # {}
  BY DEF IInv, PointsInv, SumInv, BufferInv
<1>3. \A k, l \in users : k = l
  BY DEF BufferInv
<1>4. CASE users = {}
  BY <1>1, <1>2, <1>4, FS_EmptySet DEF MovesFillTrees, FillInv, MoveFills
<1>5. CASE users # {}
  <2>1. PICK k : users = {k}
    BY <1>3, <1>5
  <2>2. Cardinality(users) = 1
    BY <2>1, FS_Singleton
  <2> QED
    BY <1>1, <1>2, <1>5, <2>2 DEF MovesFillTrees, FillInv, MoveFills
<1> QED
  BY <1>4, <1>5

-----------------------------------------------------------------------------
(* Theorems *)

(***************************************************************************)
(* The planner's locals keep their types: the remainder and the gathered   *)
(* sizes never go below zero, and the trees it names exist                 *)
(* (logtree.h:151-238).                                                    *)
(***************************************************************************)
THEOREM TypeCorrect == Spec => []TypeOK
<1>1. IInv => TypeOK
  BY DEF IInv
<1> QED
  BY <1>1, Invariance, PTL

(***************************************************************************)
(* No assert of the planning loop fails while the trees have room, for any *)
(* mask, batch and buffer (logtree.h:190, 211, 229, 233).                  *)
(***************************************************************************)
THEOREM AssertsNeverFail == Spec => []AssertsHold
BY AssertsLemma, Invariance, PTL

(***************************************************************************)
(* The finished plan touches exactly the trees whose mask bits change,     *)
(* each in one move, so the parallel moves never share a tree              *)
(* (logtree.h:174-231).                                                    *)
(***************************************************************************)
THEOREM MovesFollowMasks == Spec => []MovesMatchMasks
BY MovesLemma, Invariance, PTL

(***************************************************************************)
(* Every point of the batch goes to exactly one place: the slice of one    *)
(* move or the buffer tree (logtree.h:216-227, 259).                       *)
(***************************************************************************)
THEOREM SlicesAreDisjoint == Spec => []SlicesPartitionBatch
BY SlicesLemma, Invariance, PTL

(***************************************************************************)
(* Every new tree gets exactly what it is made for, from its slice, the    *)
(* trees gathered, counted as full, and the buffer; and the buffer goes to *)
(* one move iff it overflows (logtree.h:192-227).                          *)
(***************************************************************************)
THEOREM MovesFillTheirTrees == Spec => []MovesFillTrees
<1>1. Init => IInv /\ BufferInv /\ FillInv
  BY InitIInv, InitBufferInv, InitFillInv
<1>2. IInv /\ BufferInv /\ FillInv /\ [Next]_vars => IInv' /\ BufferInv' /\ FillInv'
  BY NextIInv, NextBufferInv, NextFillInv
<1> QED
  BY <1>1, <1>2, FillLemma, PTL DEF Spec

(***************************************************************************)
(* The remainder fits into the buffer tree (logtree.h:152-161).            *)
(***************************************************************************)
THEOREM RemainderAlwaysFits == Spec => []RemainderFits
BY RemainderLemma, Invariance, PTL

(***************************************************************************)
(* "Not enough trees!" is thrown exactly when the new mask has a bit past  *)
(* the last tree (logtree.h:235-238).                                      *)
(***************************************************************************)
THEOREM ThrowsExactlyWhenFull == Spec => []ThrowsIffFull
BY ThrowsLemma, Invariance, PTL

=============================================================================
