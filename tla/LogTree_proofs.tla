---------------------------- MODULE LogTree_proofs ----------------------------
(***************************************************************************)
(* LogTree implements the set of points, for any number of trees, any      *)
(* buffer size, any batches and any interleaving of the forked tasks.      *)
(*                                                                         *)
(* The argument: a tree the mask does not name is empty; while a rebuild   *)
(* runs, the plan's moves touch different trees (MovesMatchMasks), take    *)
(* disjoint slices that leave the remainder (SlicesPartitionBatch), and    *)
(* build into trees that stay empty until then.  The insert that ends an   *)
(* erase never throws: the points of the depleted trees count for half of  *)
(* what their bits are worth, so the mask never gets past what it was.     *)
(***************************************************************************)
EXTENDS LogTree, Counting_proofs

PP == INSTANCE InsertPlan_proofs
        WITH num_points  <- Len(points),
             buffer_size <- BufferSize,
             BatchSizes  <- Nat

-----------------------------------------------------------------------------
(* Powers of two and masks *)

LEMMA TreesAre == Trees = 0..(NUM_TREES - 1) /\ Trees \subseteq Nat
BY SizesAssumption DEF Trees, Plan!Trees

LEMMA Pow2Step ==
  /\ \A n \in 0..NUM_TREES : Pow2[n] \in Nat \ {0}
  /\ \A n \in Trees : /\ n \in 0..NUM_TREES /\ n + 1 \in 0..NUM_TREES
                      /\ Pow2[n] \in Nat \ {0} /\ Pow2[n + 1] = 2 * Pow2[n]
BY TreesAre, SizesAssumption, Pow2Assumption

\* Pow2[m + d] is a multiple of Pow2[m].
LEMMA Pow2Multiple ==
  ASSUME NEW m \in 0..NUM_TREES, NEW n \in m..NUM_TREES
  PROVE  \E c \in Nat \ {0} : Pow2[n] = c * Pow2[m]
<1> DEFINE S == {d \in Nat : m + d <= NUM_TREES =>
                   \E c \in Nat \ {0} : Pow2[m + d] = c * Pow2[m]}
<1>1. 0 \in S
  <2>1. m + 0 = m /\ Pow2[m] = 1 * Pow2[m]
    BY Pow2Step
  <2> QED
    BY <2>1
<1>2. ASSUME NEW d \in Nat, d \in S
      PROVE  d + 1 \in S
  <2> SUFFICES ASSUME m + (d + 1) <= NUM_TREES
               PROVE  \E c \in Nat \ {0} : Pow2[m + (d + 1)] = c * Pow2[m]
    OBVIOUS
  <2>1. m + d <= NUM_TREES /\ m + d \in Trees /\ m + (d + 1) = (m + d) + 1
    BY TreesAre, SizesAssumption
  <2>2. PICK c \in Nat \ {0} : Pow2[m + d] = c * Pow2[m]
    BY <1>2, <2>1
  <2>3. Pow2[m + (d + 1)] = 2 * (c * Pow2[m])
    BY <2>1, <2>2, Pow2Step
  <2>4. Pow2[m] \in Nat
    BY Pow2Step
  <2>5. Pow2[m + (d + 1)] = (2 * c) * Pow2[m]
    BY <2>3, <2>4
  <2> QED
    BY <2>5
<1>3. Nat \subseteq S
  <2> HIDE DEF S
  <2> QED
    BY <1>1, <1>2, NatSetInduction
<1>4. n - m \in S /\ m + (n - m) = n
  BY <1>3, SizesAssumption
<1> QED
  BY <1>4, SizesAssumption

LEMMA DivModIs ==
  ASSUME NEW x \in Nat, NEW p \in Nat \ {0}, NEW q \in Nat, NEW r \in 0..(p - 1),
         x = p * q + r
  PROVE  x \div p = q /\ x % p = r
OBVIOUS

LEMMA DivModOf ==
  ASSUME NEW x \in Nat, NEW p \in Nat \ {0}
  PROVE  x \div p \in Nat /\ x % p \in 0..(p - 1) /\ x = p * (x \div p) + (x % p)
OBVIOUS

\* To unset a bit that is set leaves the others alone.
LEMMA UnsetOther ==
  ASSUME NEW x \in Nat, NEW n \in Trees, NEW m \in Trees, m # n,
         Plan!NthBitSet(x, n)
  PROVE  /\ x - Pow2[n] \in Nat
         /\ Plan!NthBitSet(x - Pow2[n], m) <=> Plan!NthBitSet(x, m)
<1> DEFINE p == Pow2[n]
           q == x \div p
           r == x % p
           y == x - p
<1>1. p \in Nat \ {0}
  BY Pow2Step
<1>2. q \in Nat /\ r \in 0..(p - 1) /\ x = p * q + r
  <2> HIDE DEF p
  <2> QED
    BY <1>1, DivModOf
<1>3. q % 2 = 1
  BY DEF Plan!NthBitSet
<1> HIDE DEF p, q, r
<1>4. PICK h \in Nat : q = 2 * h + 1
  <2>1. q \div 2 \in Nat /\ q = 2 * (q \div 2) + 1
    BY <1>2, <1>3
  <2> QED
    BY <2>1
<1>5. y = p * (2 * h) + r /\ y \in Nat
  <2>1. p * (2 * h + 1) = p * (2 * h) + p /\ p * (2 * h) \in Nat
    BY <1>1
  <2> QED
    BY <1>1, <1>2, <1>4, <2>1 DEF p
<1>6. CASE m < n
  <2>1. PICK c \in Nat \ {0} : p = c * (2 * Pow2[m])
    <3>1. m + 1 \in 0..NUM_TREES /\ n \in (m + 1)..NUM_TREES /\ Pow2[m + 1] = 2 * Pow2[m]
      BY <1>6, TreesAre, Pow2Step, SizesAssumption
    <3> QED
      BY <3>1, Pow2Multiple DEF p
  <2> DEFINE b == Pow2[m]
             s == y \div b
             t == y % b
  <2>2. b \in Nat \ {0}
    BY Pow2Step
  <2>3. s \in Nat /\ t \in 0..(b - 1) /\ y = b * s + t
    <3> HIDE DEF b
    <3> QED
      BY <1>5, <2>2, DivModOf
  <2>4. p = c * (2 * b)
    BY <2>1
  <2> HIDE DEF b, s, t
  <2>5. x = b * (s + 2 * c) + t
    <3>1. x = y + p
      BY <1>1, <1>2, <1>5 DEF p
    <3>2. p = b * (2 * c)
      BY <2>2, <2>4
    <3>3. b * (s + 2 * c) = b * s + b * (2 * c)
      BY <2>2, <2>3
    <3> QED
      BY <3>1, <3>2, <3>3, <2>2, <2>3
  <2>6. x \div b = s + 2 * c
    <3> s + 2 * c \in Nat
      BY <2>3
    <3> QED
      BY <2>5, <2>2, <2>3, DivModIs
  <2>7. (s + 2 * c) % 2 = s % 2
    BY <2>3
  <2> QED
    BY <1>5, <2>6, <2>7 DEF Plan!NthBitSet, b, s, p
<1>7. CASE n < m
  <2>1. PICK c \in Nat \ {0} : Pow2[m] = c * (2 * p)
    <3>1. n + 1 \in 0..NUM_TREES /\ m \in (n + 1)..NUM_TREES /\ Pow2[n + 1] = 2 * Pow2[n]
      BY <1>7, TreesAre, Pow2Step, SizesAssumption
    <3> QED
      BY <3>1, Pow2Multiple DEF p
  <2> DEFINE b == Pow2[m]
             s == h \div c
             t == h % c
  <2>2. s \in Nat /\ t \in 0..(c - 1) /\ h = c * s + t
    BY <1>4, DivModOf
  <2>3. b = c * (2 * p) /\ b \in Nat \ {0}
    BY <2>1, Pow2Step
  <2> HIDE DEF b, s, t
  <2> DEFINE z == p * (2 * t) + r
  <2>4. p * (2 * h) = b * s + p * (2 * t)
    <3>1. p * (2 * (c * s + t)) = p * (2 * (c * s)) + p * (2 * t)
      BY <1>1, <2>2
    <3>2. p * (2 * (c * s)) = (c * (2 * p)) * s
      BY <1>1, <2>2
    <3> QED
      BY <3>1, <3>2, <2>2, <2>3
  <2>5. z \in Nat /\ z + p < b
    <3>1. p * (2 * t) + 2 * p <= b
      <4>1. t + 1 <= c
        BY <2>2
      <4>2. p * (2 * (t + 1)) <= p * (2 * c)
        BY <4>1, <1>1, <2>2
      <4>3. p * (2 * (t + 1)) = p * (2 * t) + 2 * p /\ p * (2 * c) = c * (2 * p)
        BY <1>1, <2>2
      <4> QED
        BY <4>2, <4>3, <2>3
    <3>2. p * (2 * t) \in Nat
      BY <1>1, <2>2
    <3> QED
      BY <3>1, <3>2, <1>1, <1>2, <2>3
  <2>6. b * s \in Nat
    BY <2>2, <2>3
  <2>7. y = b * s + z
    <3> DEFINE bs == b * s
               pt == p * (2 * t)
               ph == p * (2 * h)
    <3>1. bs \in Nat /\ pt \in Nat /\ ph = bs + pt /\ y = ph + r /\ r \in Nat
      BY <2>6, <1>1, <2>2, <2>4, <1>5, <1>2
    <3> HIDE DEF bs, pt, ph, y
    <3>2. y = bs + (pt + r)
      BY <3>1
    <3> QED
      BY <3>2 DEF bs, pt
  <2>8. x = b * s + (z + p)
    <3>1. x = y + p
      BY <1>1, <1>2, <1>5 DEF p
    <3> QED
      BY <3>1, <2>5, <2>6, <2>7, <1>1
  <2> HIDE DEF z, y
  <2>9. y \div b = s /\ x \div b = s
    <3>1. z \in 0..(b - 1) /\ z + p \in 0..(b - 1)
      BY <2>5, <2>3, <1>1
    <3>2. y \div b = s
      BY <3>1, <2>7, <2>3, <2>2, <1>5, DivModIs
    <3>3. x \div b = s
      BY <3>1, <2>8, <2>3, <2>2, DivModIs
    <3> QED
      BY <3>2, <3>3
  <2> QED
    BY <1>5, <2>9 DEF Plan!NthBitSet, b, y, p
<1>8. m < n \/ n < m
  BY TreesAre
<1> QED
  BY <1>5, <1>6, <1>7, <1>8 DEF p

LEMMA UnsetSame ==
  ASSUME NEW x \in Nat, NEW n \in Trees, Plan!NthBitSet(x, n)
  PROVE  x - Pow2[n] \in 0..x /\ ~Plan!NthBitSet(x - Pow2[n], n)
<1> DEFINE p == Pow2[n]
           q == x \div p
           r == x % p
           y == x - p
<1>1. p \in Nat \ {0}
  BY Pow2Step
<1>2. q \in Nat /\ r \in 0..(p - 1) /\ x = p * q + r
  <2> HIDE DEF p
  <2> QED
    BY <1>1, DivModOf
<1>3. q % 2 = 1
  BY DEF Plan!NthBitSet
<1> HIDE DEF p, q, r
<1>4. q - 1 \in Nat /\ (q - 1) % 2 = 0
  BY <1>2, <1>3
<1>5. y = p * (q - 1) + r /\ y \in 0..x
  <2>1. p * q = p * (q - 1) + p /\ p * (q - 1) \in Nat
    BY <1>1, <1>2, <1>4
  <2> QED
    BY <1>1, <1>2, <2>1
<1> HIDE DEF y
<1>6. y \div p = q - 1
  <2> DEFINE k == q - 1
  <2>1. k \in Nat /\ y \in Nat /\ y = p * k + r
    BY <1>4, <1>5
  <2> HIDE DEF k
  <2>2. y \div p = k
    BY <1>1, <1>2, <2>1, DivModIs
  <2> QED
    BY <2>2 DEF k
<1> QED
  BY <1>4, <1>5, <1>6 DEF Plan!NthBitSet, y, p

-----------------------------------------------------------------------------
(* The planner inside the LogTree *)

LEMMA PlanAssumptions ==
  /\ PP!NumTreesAssumption /\ PP!BufferSizeAssumption
  /\ PP!Pow2Assumption /\ PP!BatchSizesAssumption
BY SizesAssumption, Pow2Assumption
   DEF PP!NumTreesAssumption, PP!BufferSizeAssumption, PP!Pow2Assumption,
       PP!BatchSizesAssumption

LEMMA PlanIs ==
  /\ Plan!TypeOK <=> PP!TypeOK
  /\ Plan!NoPlan <=> PP!NoPlan
  /\ Plan!Fits <=> PP!Fits
  /\ Plan!MovesMatchMasks <=> PP!MovesMatchMasks
  /\ Plan!SlicesPartitionBatch <=> PP!SlicesPartitionBatch
  /\ Plan!RemainderFits <=> PP!RemainderFits
  /\ Plan!FullBuffers = PP!FullBuffers
  /\ Plan!Move = PP!Move
BY DEF Plan!TypeOK, PP!TypeOK, Plan!PlanPcs, PP!PlanPcs, Plan!Move, PP!Move,
       Plan!NoPlan, PP!NoPlan, Plan!Fits, PP!Fits, Plan!Trees, PP!Trees,
       Plan!MovesMatchMasks, PP!MovesMatchMasks, Plan!BecomesFull, PP!BecomesFull,
       Plan!BecomesEmpty, PP!BecomesEmpty, Plan!NthBitSet, PP!NthBitSet,
       Plan!SlicesPartitionBatch, PP!SlicesPartitionBatch, Plan!Indices, PP!Indices,
       Plan!RemainderFits, PP!RemainderFits, Plan!FullBuffers, PP!FullBuffers,
       Plan!Overflows, PP!Overflows

\* The planner's sums are those of the other modules.
LEMMA PlanSumIs ==
  ASSUME NEW f, NEW S
  PROVE  /\ Plan!SumFunctionOnSet(f, S) = SumFunctionOnSet(f, S)
         /\ PP!SumFunctionOnSet(f, S) = SumFunctionOnSet(f, S)
BY DEF SumFunctionOnSet, FoldFunctionOnSet, MapThenFoldSet,
       Plan!SumFunctionOnSet, Plan!FoldFunctionOnSet, Plan!MapThenFoldSet,
       PP!SumFunctionOnSet, PP!FoldFunctionOnSet, PP!MapThenFoldSet

\* A move gives its tree what it is made for.
FillsTree(m) ==
  /\ m.points_end - m.points_start >= 0
  /\ (m.points_end - m.points_start)
       + SumFunctionOnSet([n \in Trees |-> Plan!NthTreeSize(n)], m.trees)
       + (IF m.uses_buffer THEN BufferSize ELSE 0)
     = Plan!NthTreeSize(m.new_tree)

LEMMA PlanFills ==
  ASSUME PP!MovesFillTrees, plan_pc = "done", NEW k \in DOMAIN moves
  PROVE  FillsTree(moves[k])
<1> DEFINE m == moves[k]
           sizes == [n \in Trees |-> Plan!NthTreeSize(n)]
<1>1. /\ [n \in PP!Trees |-> PP!NthTreeSize(n)] = sizes
      /\ PP!NthTreeSize(m.new_tree) = Plan!NthTreeSize(m.new_tree)
  BY DEF Trees, Plan!Trees, PP!Trees, Plan!NthTreeSize, PP!NthTreeSize
<1>2. /\ m.points_end - m.points_start >= 0
      /\ (m.points_end - m.points_start)
           + PP!SumFunctionOnSet([n \in PP!Trees |-> PP!NthTreeSize(n)], m.trees)
           + (IF m.uses_buffer THEN BufferSize ELSE 0)
         = PP!NthTreeSize(m.new_tree)
  BY DEF PP!MovesFillTrees
<1>3. PP!SumFunctionOnSet([n \in PP!Trees |-> PP!NthTreeSize(n)], m.trees)
        = SumFunctionOnSet(sizes, m.trees)
  BY <1>1, PlanSumIs
<1> QED
  BY <1>1, <1>2, <1>3 DEF FillsTree

LEMMA PlanNextIs == Plan!Next => PP!Next
<1> USE DEF Plan!inputVars, PP!inputVars, Plan!headVars, PP!headVars, Plan!moveVars,
            PP!moveVars, Plan!gatherVars, PP!gatherVars, Plan!NthBitSet, PP!NthBitSet,
            Plan!BecomesFull, PP!BecomesFull, Plan!BecomesEmpty, PP!BecomesEmpty,
            Plan!NthTreeSize, PP!NthTreeSize
<1>1. Plan!Start => PP!Start
  BY DEF Plan!Start, PP!Start, Plan!FullBuffers, PP!FullBuffers, Plan!Overflows,
         PP!Overflows, Plan!Remainder, PP!Remainder
<1>2. Plan!KeepTree => PP!KeepTree
  BY DEF Plan!KeepTree, PP!KeepTree
<1>3. Plan!OpenMove => PP!OpenMove
  BY DEF Plan!OpenMove, PP!OpenMove
<1>4. Plan!GatherTree => PP!GatherTree
  BY DEF Plan!GatherTree, PP!GatherTree
<1>5. Plan!PassTree => PP!PassTree
  BY DEF Plan!PassTree, PP!PassTree
<1>6. Plan!CloseMove => PP!CloseMove
  BY DEF Plan!CloseMove, PP!CloseMove, Plan!TakesBuffer, PP!TakesBuffer
<1>7. Plan!Finish => PP!Finish
  BY DEF Plan!Finish, PP!Finish
<1> QED
  BY <1>1, <1>2, <1>3, <1>4, <1>5, <1>6, <1>7 DEF Plan!Next, PP!Next

PlanOK == PP!IInv /\ PP!BufferInv /\ PP!FillInv

PlanMayBegin ==
  /\ Plan!NoPlan /\ tree_mask \in 0..(Pow2[NUM_TREES] - 1) /\ Len(points) \in Nat
  /\ BufferSize \in 0..BUFFER_SIZE

LEMMA PlanBegins == PlanMayBegin => PlanOK
<1>1. PlanMayBegin => PP!Init
  BY PlanIs DEF PP!Init, PlanMayBegin
<1> QED
  BY <1>1, PlanAssumptions, PP!InitIInv, PP!InitBufferInv, PP!InitFillInv DEF PlanOK

LEMMA PlanBeginsNext == PlanMayBegin' => PlanOK'
BY PlanBegins, PTL

LEMMA PlanGoesOn == PlanOK /\ Plan!Next => PlanOK'
BY PlanNextIs, PlanAssumptions, PP!NextIInv, PP!NextBufferInv, PP!NextFillInv
   DEF PlanOK

\* What the plan is known to be when it is carried out
PlanFacts ==
  /\ Plan!TypeOK
  /\ plan_pc = "done" => Plan!Fits /\ Plan!MovesMatchMasks
                         /\ Plan!SlicesPartitionBatch /\ Plan!RemainderFits
                         /\ remainder <= Len(points)
  /\ plan_pc = "throw" => ~Plan!Fits
  /\ plan_pc # "start" => new_tree_mask = tree_mask + Plan!FullBuffers
  /\ have_used_buffer <=> \E k \in DOMAIN moves : moves[k].uses_buffer
  /\ \A k, l \in DOMAIN moves : moves[k].uses_buffer /\ moves[l].uses_buffer => k = l

LEMMA PlanShows == PlanOK => PlanFacts
<1> SUFFICES ASSUME PlanOK
             PROVE  PlanFacts
  OBVIOUS
<1>1. PP!TypeOK /\ PP!ThrowsIffFull /\ PP!MovesMatchMasks /\ PP!SlicesPartitionBatch
      /\ PP!RemainderFits
  BY PlanAssumptions, PP!MovesLemma, PP!SlicesLemma, PP!RemainderLemma, PP!ThrowsLemma
     DEF PlanOK, PP!IInv
<1>2. plan_pc = "done" => remainder <= Len(points)
  <2> SUFFICES ASSUME plan_pc = "done"
               PROVE  remainder <= Len(points)
    OBVIOUS
  <2>1. cur_points_end <= Len(points) /\ full_buffers = 0
    BY DEF PlanOK, PP!IInv, PP!SlicesInv, PP!SliceBounds, PP!SumInv
  <2>2. ~(use_buffer /\ ~have_used_buffer)
    BY <2>1 DEF PlanOK, PP!IInv, PP!PointsInv
  <2>3. cur_points_end = remainder + BUFFER_SIZE * full_buffers - 0
    BY <2>2 DEF PlanOK, PP!IInv, PP!PointsInv
  <2> QED
    BY <1>1, <2>1, <2>3, SizesAssumption DEF PP!TypeOK
<1> QED
  BY <1>1, <1>2, PlanIs DEF PlanOK, PlanFacts, PP!ThrowsIffFull, PP!BufferInv

LEMMA PlanShowsFills ==
  ASSUME PlanOK, plan_pc = "done"
  PROVE  \A k \in DOMAIN moves : FillsTree(moves[k])
BY PlanAssumptions, PP!FillLemma, PlanFills DEF PlanOK

LEMMA PlanShowsNext == PlanOK' => PlanFacts'
BY PlanShows, PTL

\* num points still fit in, and half of the bits they could set are free.
RoomFor(num) ==
  \E x \in 0..Pow2[NUM_TREES] :
    2 * num <= BUFFER_SIZE * x /\ tree_mask + x < Pow2[NUM_TREES]

LEMMA RoomIsEnough ==
  ASSUME PlanOK, plan_pc # "start", RoomFor(Len(points))
  PROVE  Plan!Fits
<1> DEFINE num == Len(points)
           B == BUFFER_SIZE
           q == num \div B
           r == num % B
           b == BufferSize
<1>1. num \in Nat /\ b \in 0..B /\ tree_mask \in Nat /\ B \in Nat \ {0}
  BY PlanShows, SizesAssumption DEF PlanFacts, Plan!TypeOK
<1>2. PICK x \in Nat : 2 * num <= B * x /\ tree_mask + x < Pow2[NUM_TREES]
  BY Pow2Step, SizesAssumption DEF RoomFor
<1>3. q \in Nat /\ r \in 0..(B - 1) /\ num = B * q + r
  <2> HIDE DEF num, B
  <2> QED
    BY <1>1, DivModOf
<1>4. Plan!FullBuffers = q + (IF r + b > B THEN 1 ELSE 0)
  BY DEF Plan!FullBuffers, Plan!Overflows
<1>5. Pow2[NUM_TREES] \in Nat
  BY Pow2Step, SizesAssumption
<1> HIDE DEF num, B, q, r, b
<1>6. Plan!FullBuffers \in Nat /\ Plan!FullBuffers <= x
  <2>1. B * (2 * q) + 2 * r <= B * x
    <3>1. 2 * num = 2 * (B * q) + 2 * r /\ 2 * (B * q) = B * (2 * q) /\ B * q \in Nat
      BY <1>1, <1>3
    <3> QED
      BY <3>1, <1>2, <1>1, <1>3
  <2>2. 2 * q <= x
    <3> SUFFICES ASSUME 2 * q >= x + 1
                 PROVE  FALSE
      BY <1>2, <1>3
    <3>1. B * (2 * q) >= B * (x + 1) /\ B * (x + 1) = B * x + B /\ B * x \in Nat
      BY <1>1, <1>2, <1>3
    <3> QED
      BY <3>1, <2>1, <1>1, <1>2, <1>3
  <2>3. CASE r + b > B
    <3>1. r > 0
      BY <2>3, <1>1, <1>3
    <3>2. 2 * q # x
      BY <3>1, <2>1, <1>1, <1>2, <1>3
    <3> QED
      BY <3>2, <2>2, <2>3, <1>2, <1>3, <1>4
  <2>4. CASE ~(r + b > B)
    BY <2>2, <2>4, <1>2, <1>3, <1>4
  <2> QED
    BY <2>3, <2>4
<1>7. new_tree_mask = tree_mask + Plan!FullBuffers
  BY PlanShows DEF PlanFacts
<1> QED
  BY <1>1, <1>2, <1>5, <1>6, <1>7 DEF Plan!Fits

\* There is room for all the moves of the plan.
LEMMA MovesAreFew ==
  ASSUME moves \in Seq(Plan!Move), plan_pc = "done", Plan!MovesMatchMasks
  PROVE  DOMAIN moves \subseteq Moves
<1> DEFINE f == [k \in 1..Len(moves) |-> moves[k].new_tree]
<1>1. DOMAIN moves = 1..Len(moves) /\ Len(moves) \in Nat
  OBVIOUS
<1>2. f \in [1..Len(moves) -> Trees]
  <2>1. \A k \in 1..Len(moves) : moves[k] \in Plan!Move
    BY <1>1
  <2>2. \A m \in Plan!Move : m.new_tree \in Trees
    BY DEF Plan!Move, Trees
  <2> QED
    BY <2>1, <2>2
<1>3. \A x, y \in 1..Len(moves) : x # y => f[x] # f[y]
  BY <1>1 DEF Plan!MovesMatchMasks
<1>4. IsFiniteSet(Trees) /\ Cardinality(Trees) = NUM_TREES
  BY TreesAre, SizesAssumption, FS_Interval
<1>5. IsFiniteSet(1..Len(moves)) /\ Cardinality(1..Len(moves)) = Len(moves)
  <2>1. ASSUME NEW n \in Nat  PROVE IsFiniteSet(1..n) /\ Cardinality(1..n) = n
    BY FS_Interval
  <2> QED
    BY <1>1, <2>1
<1> HIDE DEF f
<1>6. ~(Cardinality(Trees) < Cardinality(1..Len(moves)))
  BY <1>2, <1>3, <1>4, <1>5, FS_PigeonHole
<1> QED
  BY <1>1, <1>4, <1>5, <1>6, SizesAssumption DEF Moves

-----------------------------------------------------------------------------
(* The invariant *)

Bit(x, n) == Plan!NthBitSet(x, n)

PcInv ==
  /\ pc = "idle" <=> op = "none"
  /\ pc \in {"erase", "scan", "empty"} => op = "erase"
  /\ pc \notin {"plan", "rebuild"} => Plan!NoPlan /\ points = <<>>
  /\ pc # "rebuild" => NoRebuild
  /\ pc \notin {"erase", "scan", "empty"} => NoErase
  /\ pc = "erase" =>
       scan_i = 0 /\ erase_mask = 0 /\ depleted = {} /\ points_to_move = NoTrees
  /\ pc = "scan" => to_erase = {} /\ erasing = {} /\ points_to_move = NoTrees
  /\ pc = "empty" => to_erase = {} /\ erasing = {}
  /\ pc # "idle" /\ ~filled => buffer_hidden = {}

MaskInv ==
  /\ tree_mask < Pow2[NUM_TREES]
  /\ pc \in {"idle", "plan", "erase", "scan"} =>
       \A n \in Trees : ~Bit(tree_mask, n) => static_trees[n] = {}

PlanInv ==
  /\ pc = "plan" => PlanOK
  /\ pc = "plan" /\ op = "erase" => RoomFor(Len(points))

\* The tasks of a rebuild, one for each move of the plan
TasksInv ==
  /\ DOMAIN moves \subseteq Moves
  /\ \A k \in Moves :
       /\ task[k] = "none" <=> k \notin DOMAIN moves
       /\ k \in DOMAIN moves => todo[k] \subseteq moves[k].trees \cup {Slice, BUFFER_TREE_IDX}
       /\ task[k] \in {"none", "built"} => todo[k] = {} /\ cur_items[k] = {}

\* The trees that are to be built, or have been gathered
EmptyInv ==
  \A n \in Trees :
    /\ ~Bit(tree_mask, n) /\ ~Bit(new_tree_mask, n) => static_trees[n] = {}
    /\ \A k \in DOMAIN moves :
         /\ moves[k].new_tree = n /\ task[k] # "built" => static_trees[n] = {}
         /\ n \in moves[k].trees /\ n \notin todo[k] => static_trees[n] = {}

RebuildInv ==
  pc = "rebuild" =>
    /\ plan_pc = "done" /\ Plan!Fits /\ Plan!MovesMatchMasks
    /\ Plan!SlicesPartitionBatch /\ remainder <= Len(points)
    /\ TasksInv /\ EmptyInv
    /\ ~filled => BufferSize + remainder <= BUFFER_SIZE

DepletedPoints == UNION {static_trees[n] : n \in depleted}

EraseInv ==
  /\ pc = "erase" =>
       /\ \A n \in Trees : n \notin erasing => static_trees[n] \cap to_erase = {}
       /\ BUFFER_TREE_IDX \notin erasing => buffer_tree \cap to_erase = {}
  /\ pc = "scan" =>
       /\ \A n \in depleted : n < scan_i
       /\ erase_mask \in 0..tree_mask
       /\ \A n \in Trees : Bit(erase_mask, n) <=> Bit(tree_mask, n) /\ n \notin depleted
       /\ 2 * Cardinality(DepletedPoints) <= BUFFER_SIZE * (tree_mask - erase_mask)
  /\ pc = "empty" =>
       /\ \A n \in depleted : points_to_move[n] = {}
       /\ \A n \in Trees : n \notin depleted /\ ~Bit(tree_mask, n) => static_trees[n] = {}
       /\ RoomFor(Cardinality(DepletedPoints \cup UNION Range(points_to_move)))

SlotsInv ==
  /\ \A k \in Moves :
       task[k] = "gathering" =>
         \A n \in todo[k] \cap Trees : slot_size[n] = Cardinality(static_trees[n])
  /\ pc \in {"scan", "empty"} =>
       \A n \in depleted : slot_size[n] = Cardinality(static_trees[n])

LInv ==
  TypeOK /\ PcInv /\ MaskInv /\ PlanInv /\ RebuildInv /\ EraseInv /\ SlotsInv

LEMMA FiniteParts ==
  ASSUME NEW S \in SUBSET Points
  PROVE  IsFiniteSet(S) /\ Cardinality(S) \in Nat
BY PointsAssumption, FS_Subset, FS_CardinalityType

LEMMA InitLInv == Init => LInv
<1> SUFFICES ASSUME Init PROVE LInv
  OBVIOUS
<1>1. BufferSize = 0
  <2>1. buffer_tree \cup buffer_hidden = {}
    BY DEF Init
  <2> QED
    BY <2>1, FS_EmptySet DEF BufferSize
<1>2. Pow2[NUM_TREES] \in Nat \ {0} /\ BUFFER_SIZE \in Nat /\ NUM_TREES \in Nat \ {0}
  BY Pow2Step, SizesAssumption
<1>3. Len(points) = 0 /\ points \in Seq(Points)
  BY DEF Init
<1>4. PlanOK
  BY <1>1, <1>2, <1>3, PlanBegins DEF Init, PlanMayBegin
<1>5. TypeOK
  <2>1. Plan!TypeOK
    BY <1>4, PlanShows DEF PlanFacts
  <2>2. /\ static_trees \in [Trees -> SUBSET Points] /\ points_to_move \in [Trees -> SUBSET Points]
        /\ slot_size \in [Trees -> Nat]
    BY DEF Init, NoTrees, NoSlots, NoErase
  <2>3. /\ task \in [Moves -> {"none", "planned", "gathering", "built"}]
        /\ todo \in [Moves -> SUBSET Parts] /\ cur_items \in [Moves -> SUBSET Points]
    BY DEF Init, NoRebuild
  <2>4. buffer_points = {} /\ filled \in BOOLEAN
    BY DEF Init, NoRebuild
  <2>5. /\ to_erase = {} /\ erasing = {} /\ scan_i = 0 /\ erase_mask = 0 /\ depleted = {}
    BY DEF Init, NoErase
  <2>6. pc = "idle" /\ op = "none" /\ buffer_tree = {} /\ buffer_hidden = {} /\ build_size = 0
    BY DEF Init
  <2> QED
    BY <1>2, <1>3, <2>1, <2>2, <2>3, <2>4, <2>5, <2>6 DEF TypeOK
<1>6. PcInv
  BY DEF Init, PcInv, NoRebuild
<1>7. MaskInv
  BY <1>2 DEF Init, MaskInv, NoTrees
<1>8. PlanInv /\ RebuildInv /\ EraseInv
  BY DEF Init, PlanInv, RebuildInv, EraseInv
<1>9. SlotsInv
  BY DEF Init, SlotsInv, NoRebuild
<1> QED
  BY <1>5, <1>6, <1>7, <1>8, <1>9 DEF LInv

USE DEF bufferVars, storeVars, planVars, rebuildVars, eraseVars

LEMMA InsertBeginLInv ==
  ASSUME LInv, NEW new \in InsertBatches, InsertBegin(new)
  PROVE  LInv'
<1>1. /\ pc = "idle" /\ pc' = "plan" /\ op' = "insert" /\ points' = new /\ buffer_hidden = {}
      /\ UNCHANGED <<storeVars, planVars, rebuildVars, slot_size, eraseVars>>
  BY DEF InsertBegin, CallerGoesOn
<1>2. points' \in Seq(Points) /\ Len(points') \in Nat
  BY <1>1, PointsAssumption
<1>3. PlanOK'
  <2>1. Plan!NoPlan /\ BufferSize \in 0..BUFFER_SIZE
    BY <1>1 DEF LInv, PcInv, TypeOK, Plan!TypeOK
  <2>2. tree_mask \in 0..(Pow2[NUM_TREES] - 1)
    BY Pow2Step, SizesAssumption DEF LInv, TypeOK, Plan!TypeOK, MaskInv
  <2>3. Plan!NoPlan' /\ BufferSize' = BufferSize /\ tree_mask' = tree_mask
    BY <1>1, <2>1 DEF Plan!NoPlan, BufferSize
  <2> QED
    BY <1>2, <2>1, <2>2, <2>3, PlanBeginsNext DEF PlanMayBegin
<1>4. Plan!TypeOK'
  BY <1>3, PlanShowsNext DEF PlanFacts
<1>5. TypeOK'
  BY <1>1, <1>2, <1>4 DEF LInv, TypeOK
<1>6. PcInv'
  BY <1>1 DEF LInv, PcInv, NoRebuild, NoErase
<1>7. MaskInv' /\ PlanInv' /\ RebuildInv' /\ EraseInv'
  BY <1>1, <1>3 DEF LInv, MaskInv, PlanInv, RebuildInv, EraseInv, Bit, Plan!NthBitSet
<1>8. SlotsInv'
  BY <1>1 DEF LInv, SlotsInv
<1> QED
  BY <1>5, <1>6, <1>7, <1>8 DEF LInv

LEMMA PlanStepLInv == ASSUME LInv, PlanStep  PROVE LInv'
<1>1. /\ pc = "plan" /\ pc' = "plan" /\ op' = op /\ Plan!Next
      /\ UNCHANGED <<points, storeVars, rebuildVars, slot_size, eraseVars>>
  BY DEF PlanStep
<1>2. PlanOK' /\ Plan!TypeOK'
  BY <1>1, PlanGoesOn, PlanShowsNext DEF LInv, PlanInv, PlanFacts
<1>3. TypeOK'
  BY <1>1, <1>2 DEF LInv, TypeOK
<1>4. PcInv'
  BY <1>1 DEF LInv, PcInv, NoRebuild, NoErase
<1>5. MaskInv' /\ PlanInv' /\ RebuildInv' /\ EraseInv'
  BY <1>1, <1>2
     DEF LInv, MaskInv, PlanInv, RebuildInv, EraseInv, Bit, Plan!NthBitSet, RoomFor
<1>6. SlotsInv'
  BY <1>1 DEF LInv, SlotsInv
<1> QED
  BY <1>3, <1>4, <1>5, <1>6 DEF LInv

\* The insert that ends an erase does not throw.
LEMMA EraseFits ==
  ASSUME LInv, pc = "plan", op = "erase"
  PROVE  plan_pc # "throw"
BY PlanShows, RoomIsEnough DEF LInv, PlanInv, PlanFacts

\* Once insert has returned or thrown, there is no plan.
LEMMA PlanReturns ==
  ASSUME Plan!Return, points' = <<>>, tree_mask' \in Nat, BufferSize' \in 0..BUFFER_SIZE
  PROVE  Plan!NoPlan' /\ Plan!TypeOK'
<1>1. Plan!NoPlan'
  BY DEF Plan!Return, Plan!NoPlan
<1>2. Len(points') \in Nat
  OBVIOUS
<1>3. /\ use_buffer' \in BOOLEAN /\ have_used_buffer' \in BOOLEAN
      /\ to_gather' \in SUBSET Plan!Trees /\ moves' \in Seq(Plan!Move)
  <2>1. <<>> \in Seq(Plan!Move)
    OBVIOUS
  <2> QED
    BY <1>1, <2>1 DEF Plan!NoPlan
<1>4. /\ plan_pc' \in Plan!PlanPcs /\ full_buffers' \in Int /\ remainder' \in Nat
      /\ new_tree_mask' \in Nat /\ cur_points_end' \in Int /\ size_gathered' \in Nat
      /\ outer_i' \in -1..(NUM_TREES - 1) /\ inner_j' \in -1..(NUM_TREES - 1)
  BY <1>1, SizesAssumption DEF Plan!NoPlan, Plan!PlanPcs
<1> QED
  BY <1>1, <1>2, <1>3, <1>4 DEF Plan!TypeOK

LEMMA InsertThrowsLInv == ASSUME LInv, InsertThrows  PROVE LInv'
<1>1. /\ pc = "plan" /\ pc' = "idle" /\ op' = "none" /\ points' = <<>> /\ Plan!Return
      /\ UNCHANGED <<storeVars, rebuildVars, slot_size, eraseVars>>
  BY DEF InsertThrows
<1>2. Plan!NoPlan' /\ Plan!TypeOK'
  <2>1. BufferSize' \in 0..BUFFER_SIZE /\ tree_mask' \in Nat
    BY <1>1 DEF LInv, TypeOK, Plan!TypeOK, BufferSize
  <2> QED
    BY <1>1, <2>1, PlanReturns
<1>3. TypeOK'
  BY <1>1, <1>2 DEF LInv, TypeOK
<1>4. PcInv'
  BY <1>1, <1>2 DEF LInv, PcInv, NoRebuild, NoErase
<1>5. MaskInv' /\ PlanInv' /\ RebuildInv' /\ EraseInv'
  BY <1>1 DEF LInv, MaskInv, PlanInv, RebuildInv, EraseInv, Bit, Plan!NthBitSet
<1>6. SlotsInv'
  BY <1>1 DEF LInv, SlotsInv
<1> QED
  BY <1>3, <1>4, <1>5, <1>6 DEF LInv

\* What the rebuild looks at of the plan does not change while it runs.
LEMMA PlanStands ==
  ASSUME UNCHANGED <<tree_mask, points, planVars>>
  PROVE  /\ Plan!MovesMatchMasks' <=> Plan!MovesMatchMasks
         /\ Plan!SlicesPartitionBatch' <=> Plan!SlicesPartitionBatch
         /\ Plan!Fits' <=> Plan!Fits
         /\ \A n \in Trees : /\ Bit(tree_mask, n)' <=> Bit(tree_mask, n)
                             /\ Bit(new_tree_mask, n)' <=> Bit(new_tree_mask, n)
BY DEF Plan!MovesMatchMasks, Plan!BecomesFull, Plan!BecomesEmpty, Plan!NthBitSet,
       Plan!Fits, Bit, Plan!SlicesPartitionBatch, Plan!Indices

LEMMA PlanTypeStands ==
  ASSUME Plan!TypeOK, UNCHANGED <<tree_mask, points, planVars>>,
         BufferSize' \in 0..BUFFER_SIZE
  PROVE  Plan!TypeOK'
BY DEF Plan!TypeOK

\* The mask says of every tree what its move does to it.
LEMMA MovesAre ==
  ASSUME plan_pc = "done", Plan!MovesMatchMasks, NEW k \in DOMAIN moves
  PROVE  /\ moves[k].new_tree \in Trees
         /\ Bit(new_tree_mask, moves[k].new_tree) /\ ~Bit(tree_mask, moves[k].new_tree)
         /\ \A n \in moves[k].trees :
              n \in Trees /\ Bit(tree_mask, n) /\ ~Bit(new_tree_mask, n)
         /\ \A l \in DOMAIN moves :
              k # l => /\ moves[k].new_tree # moves[l].new_tree
                       /\ moves[k].trees \cap moves[l].trees = {}
<1>1. moves[k].new_tree \in {n \in Trees : Plan!BecomesFull(n)}
  BY DEF Plan!MovesMatchMasks, Trees
<1>2. \A n \in moves[k].trees : n \in {m \in Trees : Plan!BecomesEmpty(m)}
  BY DEF Plan!MovesMatchMasks, Trees
<1> QED
  BY <1>1, <1>2 DEF Plan!MovesMatchMasks, Plan!BecomesFull, Plan!BecomesEmpty, Bit

LEMMA BeginRebuildLInv == ASSUME LInv, BeginRebuild  PROVE LInv'
<1>1. /\ pc = "plan" /\ plan_pc = "done" /\ pc' = "rebuild" /\ op' = op
      /\ buffer_hidden = {} /\ filled = FALSE /\ cur_items = [k \in Moves |-> {}]
      /\ UNCHANGED <<op, tree_mask, static_trees, buffer_hidden, points, planVars,
                     filled, cur_items, slot_size, eraseVars>>
  BY DEF BeginRebuild, LInv, PcInv, NoRebuild
<1>2. /\ Plan!TypeOK /\ Plan!Fits /\ Plan!MovesMatchMasks /\ Plan!RemainderFits
      /\ Plan!SlicesPartitionBatch /\ remainder <= Len(points)
      /\ moves \in Seq(Plan!Move)
  BY <1>1, PlanShows DEF LInv, PlanInv, PlanFacts, Plan!TypeOK
<1>3. DOMAIN moves \subseteq Moves
  BY <1>1, <1>2, MovesAreFew
<1>4. /\ BufferSize' \in 0..BUFFER_SIZE
      /\ BufferSize' + remainder' <= BUFFER_SIZE
  <2>1. CASE have_used_buffer
    <3>1. buffer_tree' \cup buffer_hidden' = {}
      BY <1>1, <2>1 DEF BeginRebuild
    <3>2. BufferSize' = 0
      BY <3>1, FS_EmptySet DEF BufferSize
    <3> QED
      BY <1>1, <1>2, <2>1, <3>2, SizesAssumption DEF Plan!RemainderFits, Plan!TypeOK
  <2>2. CASE ~have_used_buffer
    <3>1. BufferSize' = BufferSize
      BY <1>1, <2>2 DEF BeginRebuild, BufferSize
    <3> QED
      BY <1>1, <1>2, <2>2, <3>1, SizesAssumption DEF Plan!RemainderFits, Plan!TypeOK
  <2> QED
    BY <2>1, <2>2
<1>5. /\ task' = [k \in Moves |-> IF k \in DOMAIN moves THEN "planned" ELSE "none"]
      /\ \A k \in Moves :
           todo'[k] = IF k \in DOMAIN moves
                        THEN moves[k].trees \cup {Slice}
                             \cup (IF moves[k].uses_buffer THEN {BUFFER_TREE_IDX} ELSE {})
                        ELSE {}
      /\ todo' \in [Moves -> SUBSET Parts]
  <2>1. \A k \in DOMAIN moves : moves[k].trees \subseteq Trees
    BY <1>1, <1>2, MovesAre
  <2> QED
    BY <2>1 DEF BeginRebuild, Parts, TreeIds
<1>6. TypeOK'
  <2>1. Plan!TypeOK'
    BY <1>1, <1>2, <1>4, PlanTypeStands
  <2>2. /\ buffer_points' \in SUBSET Points /\ buffer_tree' \in SUBSET Points
        /\ build_size' \in 0..BUFFER_SIZE
    BY SizesAssumption DEF BeginRebuild, LInv, TypeOK
  <2>3. task' \in [Moves -> {"none", "planned", "gathering", "built"}]
    BY <1>5
  <2> QED
    BY <1>1, <1>5, <2>1, <2>2, <2>3 DEF LInv, TypeOK
<1>7. PcInv'
  BY <1>1 DEF LInv, PcInv, NoErase
<1>8. MaskInv' /\ PlanInv' /\ EraseInv'
  BY <1>1 DEF LInv, MaskInv, PlanInv, EraseInv
<1>9. TasksInv'
  BY <1>1, <1>3, <1>5 DEF TasksInv
<1>10. EmptyInv'
  <2>1. \A n \in Trees : ~Bit(tree_mask, n) => static_trees[n] = {}
    BY <1>1 DEF LInv, MaskInv
  <2>2. \A k \in DOMAIN moves : /\ ~Bit(tree_mask, moves[k].new_tree)
                                /\ \A n \in moves[k].trees : n \in todo'[k]
    BY <1>1, <1>2, <1>3, <1>5, MovesAre
  <2> QED
    BY <1>1, <2>1, <2>2 DEF EmptyInv, Bit, Plan!NthBitSet
<1>11. RebuildInv'
  BY <1>1, <1>2, <1>4, <1>9, <1>10, PlanStands DEF RebuildInv
<1>12. SlotsInv'
  BY <1>1, <1>5 DEF SlotsInv
<1> QED
  BY <1>6, <1>7, <1>8, <1>11, <1>12 DEF LInv

\* What the actions of a rebuild have in common
LEMMA RebuildFrame ==
  ASSUME LInv, pc = "rebuild", pc' = "rebuild",
         UNCHANGED <<op, tree_mask, points, planVars, buffer_points, eraseVars>>,
         TypeOK', TasksInv', EmptyInv', SlotsInv',
         filled => filled', filled' \/ buffer_hidden' = {},
         ~filled' => BufferSize' + remainder <= BUFFER_SIZE
  PROVE  LInv'
<1>1. PcInv'
  BY DEF LInv, PcInv, NoErase
<1>2. MaskInv' /\ PlanInv' /\ EraseInv'
  BY DEF LInv, MaskInv, PlanInv, EraseInv
<1>3. RebuildInv'
  BY PlanStands DEF LInv, RebuildInv
<1> QED
  BY <1>1, <1>2, <1>3 DEF LInv

\* The first remainder points of the batch are no more than that.
LEMMA ElementsFew ==
  ASSUME points \in Seq(Points), NEW n \in Nat, n <= Len(points)
  PROVE  /\ Elements(0, n) \subseteq Points /\ IsFiniteSet(Elements(0, n))
         /\ Cardinality(Elements(0, n)) \in 0..n
<1> DEFINE f == [y \in 1..n |-> points[y]]
<1>1. Elements(0, n) = {points[y] : y \in 1..n}
  <2>1. \A x \in 0..(n - 1) : x + 1 \in 1..n
    OBVIOUS
  <2>2. \A y \in 1..n : y - 1 \in 0..(n - 1) /\ (y - 1) + 1 = y
    OBVIOUS
  <2> QED
    BY <2>1, <2>2 DEF Elements
<1>2. Elements(0, n) \subseteq Points
  BY <1>1
<1>3. IsFiniteSet(1..n) /\ Cardinality(1..n) = n
  BY FS_Interval
<1>4. f \in Surjection(1..n, Elements(0, n))
  BY <1>1 DEF Surjection
<1>5. Cardinality(Elements(0, n)) <= n
  <2> HIDE DEF f
  <2> QED
    BY <1>3, <1>4, FS_Surjection
<1> QED
  BY <1>2, <1>5, FiniteParts

LEMMA FillBufferLInv == ASSUME LInv, FillBuffer  PROVE LInv'
<1> DEFINE new == Elements(0, remainder)
<1>1. /\ pc = "rebuild" /\ pc' = "rebuild" /\ ~filled /\ filled' = TRUE /\ InsertIntoBuffer(new)
      /\ buffer_hidden = {}
      /\ UNCHANGED <<op, tree_mask, static_trees, points, planVars, buffer_points, task,
                     todo, cur_items, slot_size, eraseVars>>
  BY DEF FillBuffer, LInv, PcInv
<1>2. /\ new \subseteq Points /\ IsFiniteSet(new) /\ Cardinality(new) \in 0..remainder
      /\ remainder \in Nat /\ BufferSize \in Nat /\ BufferSize + remainder <= BUFFER_SIZE
  BY <1>1, ElementsFew DEF LInv, RebuildInv, TypeOK, Plan!TypeOK
<1> HIDE DEF new
<1>3. /\ buffer_tree \subseteq Points /\ IsFiniteSet(buffer_tree)
      /\ Cardinality(buffer_tree) = BufferSize
  <2>1. buffer_tree \cup buffer_hidden = buffer_tree
    BY <1>1
  <2> QED
    BY <2>1, FiniteParts DEF BufferSize, LInv, TypeOK
<1>4. Cardinality(buffer_tree \cup new) \in 0..(BufferSize + remainder)
  <2>1. /\ IsFiniteSet(buffer_tree \cup new)
        /\ Cardinality(buffer_tree \cup new)
             = BufferSize + Cardinality(new) - Cardinality(buffer_tree \cap new)
    BY <1>2, <1>3, FS_Union
  <2>2. Cardinality(buffer_tree \cap new) \in Nat /\ Cardinality(buffer_tree \cup new) \in Nat
    BY <2>1, <1>2, <1>3, FS_Intersection, FS_CardinalityType
  <2> QED
    BY <2>1, <2>2, <1>2
<1>5. /\ buffer_tree' \cup buffer_hidden' = buffer_tree \cup new
      /\ buffer_tree' \subseteq Points /\ buffer_hidden' \subseteq Points
      /\ build_size' \in 0..BUFFER_SIZE
  <2>0. build_size \in 0..BUFFER_SIZE /\ BUFFER_SIZE \in Nat
    BY SizesAssumption DEF LInv, TypeOK
  <2>1. CASE new = {} /\ UNCHANGED bufferVars
    BY <1>1, <1>3, <2>0, <2>1
  <2>2. CASE /\ new # {} /\ buffer_tree # {} /\ buffer_tree' = buffer_tree \cup new
             /\ build_size' = Cardinality(buffer_tree) + Cardinality(new)
             /\ UNCHANGED buffer_hidden
    BY <1>1, <1>2, <1>3, <2>0, <2>2
  <2>3. CASE /\ new # {} /\ buffer_tree = {}
             /\ \E shown \in SUBSET new :
                  /\ Cardinality(new \ shown) = Min2(build_size, Cardinality(new))
                  /\ buffer_tree' = shown /\ buffer_hidden' = new \ shown
             /\ build_size' = Cardinality(new)
    BY <1>1, <1>2, <1>3, <2>0, <2>3
  <2> QED
    BY <1>1, <2>1, <2>2, <2>3 DEF InsertIntoBuffer
<1>6. BufferSize' \in 0..BUFFER_SIZE
  BY <1>2, <1>4, <1>5, SizesAssumption DEF BufferSize
<1>7. TypeOK'
  <2>1. Plan!TypeOK'
    BY <1>1, <1>6, PlanTypeStands DEF LInv, TypeOK
  <2> QED
    BY <1>1, <1>5, <2>1 DEF LInv, TypeOK
<1>8. TasksInv' /\ EmptyInv' /\ SlotsInv'
  BY <1>1 DEF LInv, RebuildInv, TasksInv, EmptyInv, SlotsInv, Bit, Plan!NthBitSet
<1> QED
  BY <1>1, <1>7, <1>8, RebuildFrame

LEMMA StartMoveLInv == ASSUME LInv, NEW k \in Moves, StartMove(k)  PROVE LInv'
<1>1. /\ pc = "rebuild" /\ pc' = "rebuild" /\ task[k] = "planned"
      /\ task' = [task EXCEPT ![k] = "gathering"]
      /\ slot_size' = [n \in Trees |-> IF n \in moves[k].trees
                                          THEN Cardinality(static_trees[n]) ELSE slot_size[n]]
      /\ UNCHANGED <<op, storeVars, points, planVars, buffer_points, filled, todo,
                     cur_items, eraseVars>>
  BY DEF StartMove, SlotSize
<1>2. BufferSize' = BufferSize
  BY <1>1 DEF BufferSize
<1>3. /\ plan_pc = "done" /\ Plan!MovesMatchMasks /\ TasksInv /\ EmptyInv
      /\ task \in [Moves -> {"none", "planned", "gathering", "built"}]
      /\ static_trees \in [Trees -> SUBSET Points] /\ slot_size \in [Trees -> Nat]
  BY <1>1 DEF LInv, RebuildInv, TypeOK
<1>4. TypeOK'
  <2>1. Plan!TypeOK'
    BY <1>1, <1>2, PlanTypeStands DEF LInv, TypeOK, Plan!TypeOK
  <2>2. slot_size' \in [Trees -> Nat]
    BY <1>1, <1>3, FiniteParts
  <2>3. task' \in [Moves -> {"none", "planned", "gathering", "built"}]
    BY <1>1, <1>3
  <2> QED
    BY <1>1, <2>1, <2>2, <2>3 DEF LInv, TypeOK
<1>5. TasksInv'
  BY <1>1, <1>3 DEF TasksInv
<1>6. EmptyInv'
  <2>1. \A l \in DOMAIN moves : task'[l] # "built" => task[l] # "built"
    BY <1>1, <1>3 DEF TasksInv
  <2> QED
    BY <1>1, <1>3, <2>1 DEF EmptyInv, Bit, Plan!NthBitSet
<1>7. SlotsInv'
  <2> SUFFICES ASSUME NEW l \in Moves, task'[l] = "gathering", NEW n \in todo[l] \cap Trees
               PROVE  slot_size'[n] = Cardinality(static_trees[n])
    BY <1>1 DEF SlotsInv
  <2>1. l \in DOMAIN moves /\ k \in DOMAIN moves /\ n \in moves[l].trees
    BY <1>1, <1>3, TreesAre DEF TasksInv, Slice, BUFFER_TREE_IDX
  <2>2. CASE l = k
    BY <1>1, <2>1, <2>2
  <2>3. CASE l # k
    <3>1. task[l] = "gathering" /\ n \notin moves[k].trees
      BY <1>1, <1>3, <2>1, <2>3, MovesAre
    <3> QED
      BY <1>1, <3>1 DEF LInv, SlotsInv
  <2> QED
    BY <2>2, <2>3
<1> QED
  BY <1>1, <1>2, <1>4, <1>5, <1>6, <1>7, RebuildFrame DEF LInv, RebuildInv, PcInv

\* The slice a move takes is made of points of the batch.
LEMMA SliceInBatch ==
  ASSUME points \in Seq(Points), remainder \in Nat, plan_pc = "done",
         Plan!SlicesPartitionBatch, NEW k \in DOMAIN moves
  PROVE  Elements(moves[k].points_start, moves[k].points_end) \subseteq Points
<1>1. moves[k].points_start..(moves[k].points_end - 1) \subseteq remainder..(Len(points) - 1)
  BY DEF Plan!SlicesPartitionBatch, Plan!Indices
<1>2. \A x \in remainder..(Len(points) - 1) : points[x + 1] \in Points
  OBVIOUS
<1> QED
  BY <1>1, <1>2 DEF Elements

LEMMA GatherPartLInv ==
  ASSUME LInv, NEW k \in Moves, NEW part \in Parts, GatherPart(k, part)
  PROVE  LInv'
<1>1. /\ pc = "rebuild" /\ pc' = "rebuild" /\ task[k] = "gathering" /\ part \in todo[k]
      /\ todo' = [todo EXCEPT ![k] = @ \ {part}]
      /\ UNCHANGED <<op, tree_mask, bufferVars, points, planVars, buffer_points, filled,
                     task, slot_size, eraseVars>>
  BY DEF GatherPart
<1>2. BufferSize' = BufferSize
  BY <1>1 DEF BufferSize
<1>3. /\ plan_pc = "done" /\ Plan!MovesMatchMasks /\ Plan!SlicesPartitionBatch
      /\ TasksInv /\ EmptyInv
      /\ points \in Seq(Points) /\ remainder \in Nat /\ buffer_points \subseteq Points
      /\ task \in [Moves -> {"none", "planned", "gathering", "built"}]
      /\ todo \in [Moves -> SUBSET Parts] /\ cur_items \in [Moves -> SUBSET Points]
      /\ static_trees \in [Trees -> SUBSET Points]
  BY <1>1 DEF LInv, RebuildInv, TypeOK, Plan!TypeOK
<1>4. k \in DOMAIN moves
  BY <1>1, <1>3 DEF TasksInv
<1>5. /\ static_trees' = IF part \in Trees THEN [static_trees EXCEPT ![part] = {}]
                         ELSE static_trees
      /\ \E S \in SUBSET Points : cur_items' = [cur_items EXCEPT ![k] = @ \cup S]
  <2>1. CASE part \in Trees
    <3>1. static_trees[part] \in SUBSET Points /\ part # Slice /\ part # BUFFER_TREE_IDX
      BY <1>3, <2>1, TreesAre DEF Slice, BUFFER_TREE_IDX
    <3>2. /\ cur_items' = [cur_items EXCEPT ![k] = @ \cup static_trees[part]]
          /\ static_trees' = [static_trees EXCEPT ![part] = {}]
      BY <2>1, <3>1 DEF GatherPart
    <3> QED
      BY <2>1, <3>1, <3>2
  <2>2. CASE part = Slice
    <3>1. part \notin Trees /\ part # BUFFER_TREE_IDX
      BY <2>2, TreesAre DEF Slice, BUFFER_TREE_IDX
    <3>2. Elements(moves[k].points_start, moves[k].points_end) \in SUBSET Points
      BY <1>3, <1>4, SliceInBatch
    <3> QED
      BY <2>2, <3>1, <3>2 DEF GatherPart
  <2>3. CASE part = BUFFER_TREE_IDX
    <3>1. part \notin Trees /\ part # Slice
      BY <2>3, TreesAre DEF Slice, BUFFER_TREE_IDX
    <3> QED
      BY <1>3, <2>3, <3>1 DEF GatherPart
  <2> QED
    BY <2>1, <2>2, <2>3 DEF Parts, TreeIds
<1>6. /\ static_trees' \in [Trees -> SUBSET Points]
      /\ cur_items' \in [Moves -> SUBSET Points]
      /\ todo' \in [Moves -> SUBSET Parts]
      /\ \A l \in Moves : l # k => cur_items'[l] = cur_items[l] /\ todo'[l] = todo[l]
      /\ todo'[k] = todo[k] \ {part}
      /\ \A n \in Trees : static_trees'[n] = IF n = part THEN {} ELSE static_trees[n]
  BY <1>1, <1>3, <1>5
<1>7. TypeOK'
  <2>1. Plan!TypeOK'
    BY <1>1, <1>2, PlanTypeStands DEF LInv, TypeOK, Plan!TypeOK
  <2> QED
    BY <1>1, <1>6, <2>1 DEF LInv, TypeOK
<1>8. TasksInv'
  BY <1>1, <1>3, <1>6 DEF TasksInv
<1>9. EmptyInv'
  <2>1. \A l \in DOMAIN moves : l # k => todo'[l] = todo[l]
    BY <1>3, <1>6 DEF TasksInv
  <2> QED
    BY <1>1, <1>3, <1>6, <2>1 DEF EmptyInv, Bit, Plan!NthBitSet
<1>10. SlotsInv'
  <2> SUFFICES ASSUME NEW l \in Moves, task[l] = "gathering", NEW n \in todo'[l] \cap Trees
               PROVE  slot_size[n] = Cardinality(static_trees'[n])
    BY <1>1 DEF SlotsInv
  <2>1. l \in DOMAIN moves /\ n \in todo[l] /\ n \in moves[l].trees
    BY <1>1, <1>3, <1>6, TreesAre DEF TasksInv, Slice, BUFFER_TREE_IDX
  <2>2. n # part
    <3>1. CASE l = k
      BY <1>6, <3>1
    <3>2. CASE l # k
      <4>1. part \in Trees => part \in moves[k].trees
        BY <1>1, <1>3, <1>4, TreesAre DEF TasksInv, Slice, BUFFER_TREE_IDX
      <4> QED
        BY <1>3, <1>4, <2>1, <3>2, <4>1, MovesAre
    <3> QED
      BY <3>1, <3>2
  <2> QED
    BY <1>6, <2>1, <2>2 DEF LInv, SlotsInv
<1> QED
  BY <1>1, <1>2, <1>7, <1>8, <1>9, <1>10, RebuildFrame DEF LInv, RebuildInv, PcInv

LEMMA BuildTreeLInv == ASSUME LInv, NEW k \in Moves, BuildTree(k)  PROVE LInv'
<1> DEFINE t == moves[k].new_tree
<1>1. /\ pc = "rebuild" /\ pc' = "rebuild" /\ task[k] = "gathering" /\ todo[k] = {}
      /\ task' = [task EXCEPT ![k] = "built"]
      /\ static_trees' = [static_trees EXCEPT ![t] = cur_items[k]]
      /\ cur_items' = [cur_items EXCEPT ![k] = {}]
      /\ UNCHANGED <<op, tree_mask, bufferVars, points, planVars, buffer_points, filled,
                     todo, slot_size, eraseVars>>
  BY DEF BuildTree
<1>2. BufferSize' = BufferSize
  BY <1>1 DEF BufferSize
<1>3. /\ plan_pc = "done" /\ Plan!MovesMatchMasks /\ TasksInv /\ EmptyInv
      /\ task \in [Moves -> {"none", "planned", "gathering", "built"}]
      /\ cur_items \in [Moves -> SUBSET Points]
      /\ static_trees \in [Trees -> SUBSET Points]
  BY <1>1 DEF LInv, RebuildInv, TypeOK
<1>4. k \in DOMAIN moves
  BY <1>1, <1>3 DEF TasksInv
<1>5. /\ t \in Trees /\ Bit(new_tree_mask, t)
      /\ \A l \in DOMAIN moves : t \notin moves[l].trees /\ (l # k => moves[l].new_tree # t)
  BY <1>3, <1>4, MovesAre
<1> HIDE DEF t
<1>6. /\ \A n \in Trees : n # t => static_trees'[n] = static_trees[n]
      /\ static_trees' \in [Trees -> SUBSET Points]
      /\ cur_items' \in [Moves -> SUBSET Points] /\ cur_items'[k] = {} /\ task'[k] = "built"
      /\ task' \in [Moves -> {"none", "planned", "gathering", "built"}]
      /\ \A l \in Moves : l # k => cur_items'[l] = cur_items[l] /\ task'[l] = task[l]
  BY <1>1, <1>3, <1>5
<1>7. TypeOK'
  <2>1. Plan!TypeOK'
    BY <1>1, <1>2, PlanTypeStands DEF LInv, TypeOK, Plan!TypeOK
  <2> QED
    BY <1>1, <1>6, <2>1 DEF LInv, TypeOK
<1>8. TasksInv'
  BY <1>1, <1>3, <1>4, <1>6 DEF TasksInv
<1>9. EmptyInv'
  <2> SUFFICES ASSUME NEW n \in Trees
               PROVE  /\ ~Bit(tree_mask, n) /\ ~Bit(new_tree_mask, n) => static_trees'[n] = {}
                      /\ \A l \in DOMAIN moves :
                           /\ moves[l].new_tree = n /\ task'[l] # "built" => static_trees'[n] = {}
                           /\ n \in moves[l].trees /\ n \notin todo[l] => static_trees'[n] = {}
    BY <1>1 DEF EmptyInv, Bit, Plan!NthBitSet
  <2>1. CASE n = t
    BY <1>5, <1>6, <2>1 DEF t
  <2>2. CASE n # t
    <3>1. \A l \in DOMAIN moves : task'[l] # "built" => task[l] # "built"
      BY <1>3, <1>6 DEF TasksInv
    <3> QED
      BY <1>3, <1>6, <2>2, <3>1 DEF EmptyInv
  <2> QED
    BY <2>1, <2>2
<1>10. SlotsInv'
  <2> SUFFICES ASSUME NEW l \in Moves, task'[l] = "gathering", NEW n \in todo[l] \cap Trees
               PROVE  slot_size[n] = Cardinality(static_trees'[n])
    BY <1>1 DEF SlotsInv
  <2>1. l # k /\ task[l] = "gathering"
    BY <1>6
  <2>2. l \in DOMAIN moves /\ n \in moves[l].trees
    BY <1>3, <2>1, TreesAre DEF TasksInv, Slice, BUFFER_TREE_IDX
  <2>3. static_trees'[n] = static_trees[n]
    BY <1>5, <1>6, <2>2
  <2> QED
    BY <2>1, <2>3 DEF LInv, SlotsInv
<1> QED
  BY <1>1, <1>2, <1>7, <1>8, <1>9, <1>10, RebuildFrame DEF LInv, RebuildInv, PcInv

LEMMA EndRebuildLInv == ASSUME LInv, EndRebuild  PROVE LInv'
<1>1. /\ pc = "rebuild" /\ filled /\ \A k \in Moves : task[k] \in {"none", "built"}
      /\ tree_mask' = new_tree_mask /\ pc' = "idle" /\ op' = "none" /\ points' = <<>>
      /\ Plan!Return /\ buffer_points' = {} /\ filled' = FALSE
      /\ task' = [k \in Moves |-> "none"] /\ slot_size' = NoSlots
      /\ UNCHANGED <<bufferVars, static_trees, todo, cur_items, eraseVars>>
  BY DEF EndRebuild
<1>2. TypeOK /\ TasksInv /\ EmptyInv /\ Plan!Fits /\ Plan!MovesMatchMasks /\ plan_pc = "done"
  BY <1>1 DEF LInv, RebuildInv
<1>3. \A k \in Moves : todo[k] = {} /\ cur_items[k] = {}
  BY <1>1, <1>2 DEF TasksInv
<1>4. todo' = [k \in Moves |-> {}] /\ cur_items' = [k \in Moves |-> {}]
  BY <1>1, <1>2, <1>3 DEF TypeOK
<1>5. Plan!NoPlan' /\ Plan!TypeOK'
  <2>1. BufferSize' \in 0..BUFFER_SIZE /\ tree_mask' \in Nat
    BY <1>1, <1>2 DEF TypeOK, Plan!TypeOK, BufferSize
  <2> QED
    BY <1>1, <2>1, PlanReturns
<1>6. TypeOK'
  <2>1. slot_size' \in [Trees -> Nat]
    BY <1>1 DEF NoSlots
  <2>2. task' \in [Moves -> {"none", "planned", "gathering", "built"}]
    BY <1>1
  <2>3. filled' \in BOOLEAN /\ points' \in Seq(Points)
    <3>1. FALSE \in BOOLEAN
      OBVIOUS
    <3>2. <<>> \in Seq(Points)
      OBVIOUS
    <3> QED
      BY <1>1, <3>1, <3>2
  <2> QED
    BY <1>1, <1>2, <1>5, <2>1, <2>2, <2>3 DEF TypeOK
<1>7. PcInv'
  <2>1. NoRebuild'
    BY <1>1, <1>4 DEF NoRebuild
  <2>2. NoErase'
    BY <1>1 DEF LInv, PcInv, NoErase
  <2> QED
    BY <1>1, <1>5, <2>1, <2>2 DEF PcInv
<1>8. MaskInv'
  <2>1. new_tree_mask < Pow2[NUM_TREES]
    BY <1>2 DEF Plan!Fits
  <2>2. ASSUME NEW n \in Trees, ~Bit(new_tree_mask, n)
        PROVE  static_trees[n] = {}
    <3>1. CASE ~Bit(tree_mask, n)
      BY <1>2, <2>2, <3>1 DEF EmptyInv
    <3>2. CASE Bit(tree_mask, n)
      <4>1. n \in UNION {moves[k].trees : k \in DOMAIN moves}
        BY <1>2, <2>2, <3>2 DEF Plan!MovesMatchMasks, Plan!BecomesEmpty, Bit, Trees
      <4>2. PICK k \in DOMAIN moves : n \in moves[k].trees
        BY <4>1
      <4>3. n \notin todo[k]
        BY <1>2, <1>3 DEF TasksInv
      <4> QED
        BY <1>2, <4>2, <4>3 DEF EmptyInv
    <3> QED
      BY <3>1, <3>2
  <2> QED
    BY <1>1, <2>1, <2>2 DEF MaskInv, Bit, Plan!NthBitSet
<1>9. PlanInv' /\ RebuildInv' /\ EraseInv' /\ SlotsInv'
  BY <1>1 DEF PlanInv, RebuildInv, EraseInv, SlotsInv
<1> QED
  BY <1>6, <1>7, <1>8, <1>9 DEF LInv

-----------------------------------------------------------------------------
(* An erase keeps the invariant. *)

\* What the actions of an erase have in common, until it reinserts
ErasesOn ==
  /\ pc \in {"idle", "erase", "scan", "empty"}
  /\ pc' \in {"erase", "scan", "empty"} /\ op' = "erase"
  /\ UNCHANGED <<points, planVars, rebuildVars, buffer_hidden, build_size>>
  /\ buffer_hidden = {} /\ buffer_tree' \subseteq buffer_tree
  /\ tree_mask' \in Nat /\ tree_mask' < Pow2[NUM_TREES]
  /\ static_trees' \in [Trees -> SUBSET Points] /\ slot_size' \in [Trees -> Nat]
  /\ to_erase' \in SUBSET Points /\ erasing' \in SUBSET TreeIds
  /\ scan_i' \in 0..NUM_TREES /\ erase_mask' \in Nat /\ depleted' \in SUBSET Trees
  /\ points_to_move' \in [Trees -> SUBSET Points]
  /\ pc' = "erase" => scan_i' = 0 /\ erase_mask' = 0 /\ depleted' = {}
                      /\ points_to_move' = NoTrees
  /\ pc' # "erase" => to_erase' = {} /\ erasing' = {}
  /\ pc' = "scan" => points_to_move' = NoTrees
  /\ pc' \in {"erase", "scan"} => \A n \in Trees : ~Bit(tree_mask', n) => static_trees'[n] = {}
  /\ pc' # "erase" => \A n \in depleted' : slot_size'[n] = Cardinality(static_trees'[n])

LEMMA EraseFrame == ASSUME LInv, ErasesOn, EraseInv'  PROVE LInv'
<1>1. TypeOK /\ NoRebuild /\ Plan!NoPlan /\ points = <<>>
  BY DEF LInv, PcInv, ErasesOn
<1>2. BufferSize' \in 0..BUFFER_SIZE /\ buffer_tree' \in SUBSET Points
  <2>1. /\ buffer_tree' \cup buffer_hidden' \subseteq buffer_tree \cup buffer_hidden
        /\ IsFiniteSet(buffer_tree \cup buffer_hidden)
        /\ buffer_tree' \in SUBSET Points
    BY <1>1, FiniteParts DEF TypeOK, ErasesOn
  <2>2. BufferSize' <= BufferSize /\ BufferSize' \in Nat
    BY <2>1, FS_Subset, FS_CardinalityType DEF BufferSize
  <2> QED
    BY <1>1, <2>1, <2>2, SizesAssumption DEF TypeOK, Plan!TypeOK
<1>3. Plan!NoPlan' /\ NoRebuild'
  BY <1>1 DEF Plan!NoPlan, NoRebuild, ErasesOn
<1>4. Plan!TypeOK'
  BY <1>1, <1>2 DEF TypeOK, Plan!TypeOK, ErasesOn
<1>5. TypeOK'
  BY <1>1, <1>2, <1>4 DEF TypeOK, ErasesOn
<1>6. PcInv'
  BY <1>1, <1>3 DEF PcInv, ErasesOn
<1>7. MaskInv'
  BY DEF MaskInv, Bit, Plan!NthBitSet, ErasesOn
<1>8. PlanInv' /\ RebuildInv'
  BY DEF PlanInv, RebuildInv, ErasesOn
<1>9. SlotsInv'
  BY <1>3 DEF SlotsInv, NoRebuild, ErasesOn
<1> QED
  BY <1>5, <1>6, <1>7, <1>8, <1>9 DEF LInv

LEMMA EraseBeginLInv ==
  ASSUME LInv, NEW batch \in EraseBatches, EraseBegin(batch)
  PROVE  LInv'
<1>1. /\ pc = "idle" /\ buffer_hidden = {} /\ pc' = "erase" /\ op' = "erase"
      /\ to_erase' = batch /\ erasing' = FullTrees
      /\ UNCHANGED <<storeVars, points, planVars, rebuildVars, slot_size, scan_i,
                     erase_mask, depleted, points_to_move>>
  BY DEF EraseBegin, CallerGoesOn
<1>2. TypeOK /\ NoErase /\ tree_mask \in Nat
      /\ tree_mask < Pow2[NUM_TREES]
      /\ \A n \in Trees : ~Bit(tree_mask, n) => static_trees[n] = {}
  BY <1>1 DEF LInv, PcInv, MaskInv, TypeOK, Plan!TypeOK
<1>3. FullTrees \subseteq TreeIds
  BY DEF FullTrees, TreeIds
<1>4. EraseInv'
  <2>1. \A n \in Trees : n \notin FullTrees => static_trees[n] = {}
    BY <1>2 DEF FullTrees, Bit
  <2>2. BUFFER_TREE_IDX \notin FullTrees => buffer_tree = {}
    <3>1. BUFFER_TREE_IDX \notin FullTrees => BufferSize = 0
      BY DEF FullTrees
    <3>2. IsFiniteSet(buffer_tree \cup buffer_hidden)
      BY <1>2, FiniteParts DEF TypeOK
    <3> QED
      BY <3>1, <3>2, FS_EmptySet DEF BufferSize
  <2> QED
    BY <1>1, <2>1, <2>2 DEF EraseInv
<1>5. batch \in SUBSET Points
  BY PointsAssumption
<1>6. \A n \in Trees : ~Bit(tree_mask', n) => static_trees'[n] = {}
  BY <1>1, <1>2
<1>7. ErasesOn
  BY <1>1, <1>2, <1>3, <1>5, <1>6 DEF ErasesOn, TypeOK, NoErase
<1> QED
  BY <1>4, <1>7, EraseFrame

LEMMA EraseFromTreeLInv ==
  ASSUME LInv, NEW id \in TreeIds, EraseFromTree(id)
  PROVE  LInv'
<1>1. /\ pc = "erase" /\ id \in erasing /\ erasing' = erasing \ {id}
      /\ UNCHANGED <<pc, op, tree_mask, buffer_hidden, build_size, points, planVars,
                     rebuildVars, slot_size, to_erase, scan_i, erase_mask, depleted,
                     points_to_move>>
  BY DEF EraseFromTree
<1>2. /\ TypeOK /\ op = "erase" /\ buffer_hidden = {} /\ tree_mask \in Nat
      /\ tree_mask < Pow2[NUM_TREES] /\ EraseInv
      /\ scan_i = 0 /\ erase_mask = 0 /\ depleted = {} /\ points_to_move = NoTrees
      /\ \A n \in Trees : ~Bit(tree_mask, n) => static_trees[n] = {}
  BY <1>1 DEF LInv, PcInv, MaskInv, TypeOK, Plan!TypeOK, NoRebuild
<1>3. /\ buffer_tree' = IF id = BUFFER_TREE_IDX THEN buffer_tree \ to_erase ELSE buffer_tree
      /\ static_trees' = IF id \in Trees THEN [static_trees EXCEPT ![id] = @ \ to_erase]
                         ELSE static_trees
  <2> BUFFER_TREE_IDX \notin Trees
    BY TreesAre DEF BUFFER_TREE_IDX
  <2> QED
    BY DEF EraseFromTree, TreeIds
<1>4. /\ static_trees' \in [Trees -> SUBSET Points]
      /\ \A n \in Trees : static_trees'[n] = IF n = id THEN static_trees[n] \ to_erase
                                              ELSE static_trees[n]
  BY <1>2, <1>3 DEF TypeOK
<1>5. EraseInv'
  BY <1>1, <1>2, <1>3, <1>4 DEF EraseInv
<1>6. \A n \in Trees : ~Bit(tree_mask', n) => static_trees'[n] = {}
  BY <1>1, <1>2, <1>4
<1>7. ErasesOn
  BY <1>1, <1>2, <1>3, <1>4, <1>6 DEF ErasesOn, TypeOK
<1> QED
  BY <1>5, <1>7, EraseFrame

LEMMA EndPhase1LInv == ASSUME LInv, EndPhase1  PROVE LInv'
<1>1. /\ pc = "erase" /\ erasing = {} /\ pc' = "scan" /\ to_erase' = {} /\ scan_i' = 0
      /\ erase_mask' = tree_mask
      /\ UNCHANGED <<op, storeVars, points, planVars, rebuildVars, slot_size, erasing,
                     depleted, points_to_move>>
  BY DEF EndPhase1
<1>2. /\ TypeOK /\ op = "erase" /\ buffer_hidden = {} /\ tree_mask \in Nat
      /\ tree_mask < Pow2[NUM_TREES]
      /\ depleted = {} /\ points_to_move = NoTrees
      /\ \A n \in Trees : ~Bit(tree_mask, n) => static_trees[n] = {}
  BY <1>1 DEF LInv, PcInv, MaskInv, TypeOK, Plan!TypeOK, NoRebuild
<1>3. EraseInv'
  <2>1. DepletedPoints' = {}
    BY <1>1, <1>2 DEF DepletedPoints
  <2>2. 2 * Cardinality(DepletedPoints') <= BUFFER_SIZE * (tree_mask' - erase_mask')
    <3>1. Cardinality(DepletedPoints') = 0
      BY <2>1, FS_EmptySet
    <3> QED
      BY <1>1, <1>2, <3>1, SizesAssumption
  <2> QED
    BY <1>1, <1>2, <2>2 DEF EraseInv, Bit, Plan!NthBitSet
<1>4. \A n \in Trees : ~Bit(tree_mask', n) => static_trees'[n] = {}
  BY <1>1, <1>2
<1>5. ErasesOn
  BY <1>1, <1>2, <1>4, SizesAssumption DEF ErasesOn, TypeOK
<1> QED
  BY <1>3, <1>5, EraseFrame

LEMMA ScanTreeLInv == ASSUME LInv, ScanTree  PROVE LInv'
<1>1. /\ pc = "scan" /\ pc' = "scan" /\ scan_i < NUM_TREES /\ scan_i' = scan_i + 1
      /\ IF IsDepleted(scan_i)
           THEN /\ depleted' = depleted \cup {scan_i}
                /\ slot_size' = [slot_size EXCEPT ![scan_i] = SlotSize(scan_i)]
                /\ erase_mask' = UnsetNthBit(erase_mask, scan_i)
           ELSE UNCHANGED <<depleted, slot_size, erase_mask>>
      /\ UNCHANGED <<op, storeVars, points, planVars, rebuildVars, to_erase, erasing,
                     points_to_move>>
  BY DEF ScanTree
<1>2. /\ TypeOK /\ op = "erase" /\ buffer_hidden = {} /\ tree_mask \in Nat
      /\ tree_mask < Pow2[NUM_TREES] /\ to_erase = {} /\ erasing = {}
      /\ points_to_move = NoTrees
      /\ \A n \in Trees : ~Bit(tree_mask, n) => static_trees[n] = {}
      /\ slot_size \in [Trees -> Nat] /\ static_trees \in [Trees -> SUBSET Points]
      /\ depleted \subseteq Trees
  BY <1>1 DEF LInv, PcInv, MaskInv, TypeOK, Plan!TypeOK, NoRebuild
<1>3. /\ \A n \in depleted : n < scan_i
      /\ erase_mask \in 0..tree_mask
      /\ \A n \in Trees : Bit(erase_mask, n) <=> Bit(tree_mask, n) /\ n \notin depleted
      /\ 2 * Cardinality(DepletedPoints) <= BUFFER_SIZE * (tree_mask - erase_mask)
      /\ \A n \in depleted : slot_size[n] = Cardinality(static_trees[n])
  BY <1>1 DEF LInv, EraseInv, SlotsInv
<1>4. scan_i \in Trees /\ scan_i' \in 0..NUM_TREES /\ depleted \subseteq Nat
  BY <1>1, <1>2, TreesAre, SizesAssumption DEF TypeOK
<1>5. \A n \in Trees : ~Bit(tree_mask', n) => static_trees'[n] = {}
  BY <1>1, <1>2
<1>6. CASE ~IsDepleted(scan_i)
  <2>1. UNCHANGED <<depleted, slot_size, erase_mask>>
    BY <1>1, <1>6
  <2>2. EraseInv'
    <3>1. \A n \in depleted' : n < scan_i'
      <4>1. scan_i \in Nat
        BY <1>4, TreesAre
      <4>2. \A n \in depleted : n \in Nat
        BY <1>4
      <4> QED
        BY <1>1, <1>3, <2>1, <4>1, <4>2
    <3> QED
      BY <1>1, <1>3, <2>1, <3>1 DEF EraseInv, DepletedPoints, Bit, Plan!NthBitSet
  <2>3. \A n \in depleted' : slot_size'[n] = Cardinality(static_trees'[n])
    BY <1>1, <1>3, <2>1
  <2>4. ErasesOn
    BY <1>1, <1>2, <1>3, <1>4, <1>5, <2>1, <2>3 DEF ErasesOn, TypeOK
  <2> QED
    BY <2>2, <2>4, EraseFrame
<1>7. CASE IsDepleted(scan_i)
  <2> DEFINE S == static_trees[scan_i]
             half == Pow2[scan_i]
  <2>1. /\ depleted' = depleted \cup {scan_i}
        /\ slot_size' = [slot_size EXCEPT ![scan_i] = Cardinality(S)]
        /\ erase_mask' = UnsetNthBit(erase_mask, scan_i)
    BY <1>1, <1>7 DEF SlotSize
  <2>2. scan_i \notin depleted /\ half \in Nat \ {0}
    BY <1>3, <1>4, Pow2Step
  <2>3. S \subseteq Points /\ IsFiniteSet(S) /\ Cardinality(S) \in Nat
    BY <1>2, <1>4, FiniteParts
  <2>4. 2 * Cardinality(S) <= BUFFER_SIZE * half
    <3> DEFINE size == BUFFER_SIZE * half
    <3>1. Cardinality(S) <= size \div 2 /\ size \in Nat
      BY <1>7, <2>2, SizesAssumption DEF IsDepleted, Plan!NthTreeSize
    <3> HIDE DEF size
    <3>2. 2 * Cardinality(S) <= size
      BY <3>1, <2>3
    <3> QED
      BY <3>2 DEF size
  <2>5. DepletedPoints' = DepletedPoints \cup S
    BY <1>1, <2>1 DEF DepletedPoints
  <2>6. /\ IsFiniteSet(DepletedPoints) /\ Cardinality(DepletedPoints) \in Nat
        /\ Cardinality(DepletedPoints') \in 0..(Cardinality(DepletedPoints) + Cardinality(S))
    <3>1. DepletedPoints \subseteq Points
      BY <1>2 DEF DepletedPoints
    <3>2. IsFiniteSet(DepletedPoints) /\ Cardinality(DepletedPoints) \in Nat
      BY <3>1, FiniteParts
    <3>3. /\ IsFiniteSet(DepletedPoints \cup S)
          /\ Cardinality(DepletedPoints \cup S)
               = Cardinality(DepletedPoints) + Cardinality(S) - Cardinality(DepletedPoints \cap S)
      BY <2>3, <3>2, FS_Union
    <3>4. Cardinality(DepletedPoints \cap S) \in Nat /\ Cardinality(DepletedPoints \cup S) \in Nat
      BY <2>3, <3>2, <3>3, FS_Intersection, FS_CardinalityType
    <3> QED
      BY <2>3, <2>5, <3>2, <3>3, <3>4
  <2> HIDE DEF half, S
  <2>7. /\ erase_mask' \in 0..tree_mask
        /\ \A n \in Trees : Bit(erase_mask', n) <=> Bit(tree_mask, n) /\ n \notin depleted'
        /\ 2 * Cardinality(DepletedPoints') <= BUFFER_SIZE * (tree_mask - erase_mask')
    <3>1. CASE Bit(erase_mask, scan_i)
      <4>1. erase_mask' = erase_mask - half
        BY <2>1, <3>1 DEF UnsetNthBit, Bit, half
      <4>2. erase_mask' \in 0..erase_mask /\ ~Bit(erase_mask', scan_i)
        BY <1>2, <1>3, <1>4, <3>1, <4>1, UnsetSame DEF Bit, half
      <4>3. \A n \in Trees : n # scan_i => (Bit(erase_mask', n) <=> Bit(erase_mask, n))
        BY <1>2, <1>3, <1>4, <3>1, <4>1, UnsetOther DEF Bit, half
      <4>4. BUFFER_SIZE * (tree_mask - erase_mask')
              = BUFFER_SIZE * (tree_mask - erase_mask) + BUFFER_SIZE * half
        <5>1. tree_mask - erase_mask' = (tree_mask - erase_mask) + half
              /\ tree_mask - erase_mask \in Nat
          BY <1>2, <1>3, <2>2, <4>1
        <5> QED
          BY <5>1, <2>2, SizesAssumption
      <4>5. 2 * Cardinality(DepletedPoints') <= BUFFER_SIZE * (tree_mask - erase_mask')
        <5> DEFINE u == BUFFER_SIZE * (tree_mask - erase_mask)
                   v == BUFFER_SIZE * half
                   w == BUFFER_SIZE * (tree_mask - erase_mask')
        <5>1. u \in Nat /\ v \in Nat /\ w = u + v /\ 2 * Cardinality(S) <= v
              /\ 2 * Cardinality(DepletedPoints) <= u
          BY <1>2, <1>3, <2>2, <2>4, <4>4, SizesAssumption
        <5> HIDE DEF u, v, w
        <5>2. 2 * Cardinality(DepletedPoints') <= w
          BY <5>1, <2>3, <2>6
        <5> QED
          BY <5>2 DEF w
      <4> QED
        BY <1>2, <1>3, <2>1, <4>2, <4>3, <4>5
    <3>2. CASE ~Bit(erase_mask, scan_i)
      <4>1. erase_mask' = erase_mask
        BY <1>3, <2>1, <3>2 DEF UnsetNthBit, Bit
      <4>2. S = {}
        BY <1>2, <1>3, <1>4, <2>2, <3>2 DEF S
      <4>3. DepletedPoints' = DepletedPoints
        BY <2>5, <4>2
      <4> QED
        BY <1>3, <2>1, <3>2, <4>1, <4>3
    <3> QED
      BY <3>1, <3>2
  <2>8. EraseInv'
    <3>1. \A n \in depleted' : n < scan_i'
      <4>1. scan_i \in Nat
        BY <1>4, TreesAre
      <4>2. \A n \in depleted : n \in Nat
        BY <1>4
      <4> QED
        BY <1>1, <1>3, <2>1, <4>1, <4>2
    <3> QED
      BY <1>1, <2>7, <3>1 DEF EraseInv, Bit, Plan!NthBitSet
  <2>9. /\ slot_size' \in [Trees -> Nat] /\ depleted' \subseteq Trees
        /\ \A n \in depleted' : slot_size'[n] = Cardinality(static_trees'[n])
    BY <1>1, <1>2, <1>3, <1>4, <2>1, <2>3 DEF S
  <2>10. /\ tree_mask' \in Nat /\ tree_mask' < Pow2[NUM_TREES] /\ erase_mask' \in Nat
         /\ static_trees' \in [Trees -> SUBSET Points]
         /\ to_erase' \in SUBSET Points /\ erasing' \in SUBSET TreeIds
         /\ points_to_move' \in [Trees -> SUBSET Points] /\ points_to_move' = NoTrees
         /\ op' = "erase" /\ buffer_tree' \subseteq buffer_tree
    BY <1>1, <1>2, <2>7 DEF TypeOK
  <2>11. /\ UNCHANGED <<points, planVars, rebuildVars, buffer_hidden, build_size>>
         /\ pc \in {"idle", "erase", "scan", "empty"} /\ pc' = "scan"
    BY <1>1
  <2>12. ErasesOn
    <3>1. slot_size' \in [Trees -> Nat] /\ depleted' \in SUBSET Trees
      BY <2>9
    <3>2. pc' # "erase" => to_erase' = {} /\ erasing' = {}
      BY <1>1, <1>2
    <3>3. pc' # "erase" /\ scan_i' \in 0..NUM_TREES /\ buffer_hidden = {}
      BY <1>2, <1>4, <2>11
    <3> QED
      BY <1>5, <2>9, <2>10, <2>11, <3>1, <3>2, <3>3, Zenon DEF ErasesOn
  <2> QED
    BY <2>8, <2>12, EraseFrame
<1> QED
  BY <1>6, <1>7

LEMMA EndScanLInv == ASSUME LInv, EndScan  PROVE LInv'
<1>1. /\ pc = "scan" /\ scan_i = NUM_TREES /\ pc' = "empty" /\ tree_mask' = erase_mask
      /\ UNCHANGED <<op, bufferVars, static_trees, points, planVars, rebuildVars,
                     slot_size, eraseVars>>
  BY DEF EndScan
<1>2. /\ TypeOK /\ op = "erase" /\ buffer_hidden = {} /\ tree_mask \in Nat
      /\ tree_mask < Pow2[NUM_TREES] /\ to_erase = {} /\ erasing = {}
      /\ points_to_move = NoTrees
      /\ \A n \in Trees : ~Bit(tree_mask, n) => static_trees[n] = {}
  BY <1>1 DEF LInv, PcInv, MaskInv, TypeOK, Plan!TypeOK, NoRebuild
<1>3. /\ erase_mask \in 0..tree_mask
      /\ \A n \in Trees : Bit(erase_mask, n) <=> Bit(tree_mask, n) /\ n \notin depleted
      /\ 2 * Cardinality(DepletedPoints) <= BUFFER_SIZE * (tree_mask - erase_mask)
      /\ \A n \in depleted : slot_size[n] = Cardinality(static_trees[n])
  BY <1>1 DEF LInv, EraseInv, SlotsInv
<1>4. Pow2[NUM_TREES] \in Nat
  BY Pow2Step, SizesAssumption
<1>5. tree_mask' \in Nat /\ tree_mask' < Pow2[NUM_TREES]
  BY <1>1, <1>2, <1>3, <1>4
<1>6. EraseInv'
  <2>1. UNION Range(points_to_move) = {}
    BY <1>2 DEF NoTrees, Range
  <2>2. DepletedPoints' \cup UNION Range(points_to_move') = DepletedPoints
    BY <1>1, <2>1 DEF DepletedPoints
  <2>3. RoomFor(Cardinality(DepletedPoints \cup UNION Range(points_to_move)))'
    <3> DEFINE x == tree_mask - erase_mask
    <3>1. x \in 0..Pow2[NUM_TREES] /\ tree_mask' + x < Pow2[NUM_TREES]
      BY <1>1, <1>2, <1>3, <1>4
    <3>2. 2 * Cardinality(DepletedPoints) <= BUFFER_SIZE * x
      BY <1>3
    <3> HIDE DEF x
    <3> QED
      BY <2>2, <3>1, <3>2 DEF RoomFor
  <2>4. \A n \in depleted' : points_to_move'[n] = {}
    BY <1>1, <1>2 DEF NoTrees, TypeOK
  <2>5. \A n \in Trees : n \notin depleted' /\ ~Bit(tree_mask', n) => static_trees'[n] = {}
    BY <1>1, <1>2, <1>3
  <2> QED
    BY <1>1, <2>3, <2>4, <2>5 DEF EraseInv, Bit, Plan!NthBitSet
<1>7. ErasesOn
  BY <1>1, <1>2, <1>3, <1>5 DEF ErasesOn, TypeOK
<1> QED
  BY <1>6, <1>7, EraseFrame

LEMMA EmptyTreeLInv ==
  ASSUME LInv, NEW n \in Trees, EmptyTree(n)
  PROVE  LInv'
<1>1. /\ pc = "empty" /\ pc' = "empty" /\ n \in depleted /\ depleted' = depleted \ {n}
      /\ points_to_move' = [points_to_move EXCEPT ![n] = static_trees[n]]
      /\ static_trees' = [static_trees EXCEPT ![n] = {}]
      /\ UNCHANGED <<op, tree_mask, bufferVars, points, planVars, rebuildVars, slot_size,
                     to_erase, erasing, scan_i, erase_mask>>
  BY DEF EmptyTree
<1>2. /\ TypeOK /\ op = "erase" /\ buffer_hidden = {} /\ tree_mask \in Nat
      /\ tree_mask < Pow2[NUM_TREES] /\ to_erase = {} /\ erasing = {}
      /\ static_trees \in [Trees -> SUBSET Points]
      /\ points_to_move \in [Trees -> SUBSET Points]
      /\ depleted \in SUBSET Trees
  BY <1>1 DEF LInv, PcInv, MaskInv, TypeOK, Plan!TypeOK, NoRebuild
<1>3. /\ \A m \in depleted : points_to_move[m] = {}
      /\ \A m \in Trees : m \notin depleted /\ ~Bit(tree_mask, m) => static_trees[m] = {}
      /\ RoomFor(Cardinality(DepletedPoints \cup UNION Range(points_to_move)))
      /\ \A m \in depleted : slot_size[m] = Cardinality(static_trees[m])
  BY <1>1 DEF LInv, EraseInv, SlotsInv
<1>4. /\ static_trees' \in [Trees -> SUBSET Points] /\ static_trees'[n] = {}
      /\ points_to_move' \in [Trees -> SUBSET Points]
      /\ points_to_move'[n] = static_trees[n]
      /\ \A m \in Trees : m # n => /\ static_trees'[m] = static_trees[m]
                                   /\ points_to_move'[m] = points_to_move[m]
  BY <1>1, <1>2
<1>5. DepletedPoints' \cup UNION Range(points_to_move')
        = DepletedPoints \cup UNION Range(points_to_move)
  <2>1. /\ DepletedPoints = UNION {static_trees[m] : m \in depleted}
        /\ DepletedPoints' = UNION {static_trees'[m] : m \in depleted \ {n}}
        /\ UNION Range(points_to_move) = UNION {points_to_move[m] : m \in Trees}
        /\ UNION Range(points_to_move') = UNION {points_to_move'[m] : m \in Trees}
    BY <1>1, <1>2, <1>4 DEF DepletedPoints, Range
  <2>2. \A m \in depleted : m # n => static_trees'[m] = static_trees[m]
    BY <1>2, <1>4
  <2>3. points_to_move[n] = {}
    BY <1>1, <1>3
  <2>4. DepletedPoints = DepletedPoints' \cup static_trees[n]
    BY <1>1, <2>1, <2>2
  <2>5. UNION Range(points_to_move') = static_trees[n] \cup UNION Range(points_to_move)
    BY <1>4, <2>1, <2>3
  <2> QED
    BY <2>4, <2>5
<1>6. EraseInv'
  <2>1. \A m \in depleted' : points_to_move'[m] = {}
    BY <1>1, <1>2, <1>3, <1>4
  <2>2. \A m \in Trees : m \notin depleted' /\ ~Bit(tree_mask, m) => static_trees'[m] = {}
    BY <1>1, <1>3, <1>4
  <2>3. RoomFor(Cardinality(DepletedPoints \cup UNION Range(points_to_move)))'
    BY <1>1, <1>3, <1>5 DEF RoomFor
  <2> QED
    BY <1>1, <2>1, <2>2, <2>3 DEF EraseInv, Bit, Plan!NthBitSet
<1>7. \A m \in depleted' : slot_size'[m] = Cardinality(static_trees'[m])
  BY <1>1, <1>2, <1>3, <1>4
<1>8. ErasesOn
  BY <1>1, <1>2, <1>4, <1>7 DEF ErasesOn, TypeOK
<1> QED
  BY <1>6, <1>8, EraseFrame

LEMMA ReinsertLInv == ASSUME LInv, Reinsert  PROVE LInv'
<1> DEFINE moved == UNION Range(points_to_move)
<1>1. /\ pc = "empty" /\ pc' = "plan" /\ depleted = {} /\ points' \in Arrangements
      /\ slot_size' = NoSlots /\ scan_i' = 0 /\ erase_mask' = 0 /\ points_to_move' = NoTrees
      /\ UNCHANGED <<op, to_erase, erasing, depleted, storeVars, planVars, rebuildVars>>
  BY DEF Reinsert
<1>2. /\ TypeOK /\ op = "erase" /\ buffer_hidden = {} /\ Plan!NoPlan /\ NoRebuild
      /\ tree_mask \in Nat /\ tree_mask < Pow2[NUM_TREES] /\ to_erase = {} /\ erasing = {}
      /\ \A n \in Trees : ~Bit(tree_mask, n) => static_trees[n] = {}
      /\ RoomFor(Cardinality(DepletedPoints \cup moved))
  BY <1>1 DEF LInv, PcInv, MaskInv, EraseInv, TypeOK, Plan!TypeOK, NoRebuild
<1>3. moved \subseteq Points /\ Cardinality(moved) \in Nat
  <2>1. moved \subseteq Points
    BY <1>2 DEF TypeOK, Range
  <2> QED
    BY <2>1, FiniteParts
<1>4. points' \in Seq(Points) /\ Len(points') = Cardinality(moved) /\ Range(points') = moved
  <2>1. points' \in [1..Cardinality(moved) -> moved] /\ Range(points') = moved
    BY <1>1 DEF Arrangements
  <2> HIDE DEF moved
  <2>2. points' \in [1..Cardinality(moved) -> Points]
    BY <1>3, <2>1
  <2> QED
    BY <1>3, <2>1, <2>2
<1>5. RoomFor(Len(points))'
  <2>1. DepletedPoints \cup moved = moved
    BY <1>1 DEF DepletedPoints
  <2> QED
    BY <1>1, <1>2, <1>4, <2>1 DEF RoomFor
<1>6. BufferSize' = BufferSize /\ BufferSize \in 0..BUFFER_SIZE
  BY <1>1, <1>2 DEF BufferSize, TypeOK, Plan!TypeOK
<1>7. PlanOK'
  <2>1. Plan!NoPlan'
    BY <1>1, <1>2 DEF Plan!NoPlan
  <2>2. tree_mask' \in 0..(Pow2[NUM_TREES] - 1)
    BY <1>1, <1>2, Pow2Step, SizesAssumption
  <2> QED
    BY <1>3, <1>4, <1>6, <2>1, <2>2, PlanBeginsNext DEF PlanMayBegin
<1>8. TypeOK'
  <2>1. Plan!TypeOK'
    BY <1>7, PlanShowsNext DEF PlanFacts
  <2>2. slot_size' \in [Trees -> Nat] /\ points_to_move' \in [Trees -> SUBSET Points]
    BY <1>1 DEF NoSlots, NoTrees
  <2> QED
    BY <1>1, <1>2, <1>4, <2>1, <2>2, SizesAssumption DEF TypeOK
<1>9. PcInv'
  BY <1>1, <1>2 DEF PcInv, NoRebuild, NoErase
<1>10. MaskInv' /\ PlanInv' /\ RebuildInv' /\ EraseInv'
  BY <1>1, <1>2, <1>5, <1>7
     DEF MaskInv, PlanInv, RebuildInv, EraseInv, Bit, Plan!NthBitSet
<1>11. SlotsInv'
  BY <1>1, <1>2 DEF SlotsInv, NoRebuild
<1> QED
  BY <1>8, <1>9, <1>10, <1>11 DEF LInv

LEMMA StutterLInv == ASSUME LInv, UNCHANGED vars  PROVE LInv'
<1>1. UNCHANGED <<pc, op, storeVars, points, planVars, rebuildVars, slot_size, eraseVars>>
  BY DEF vars
<1>2. BufferSize' = BufferSize
  BY <1>1 DEF BufferSize
<1>3. TypeOK'
  BY <1>1, <1>2, PlanTypeStands DEF LInv, TypeOK, Plan!TypeOK
<1>4. PcInv'
  BY <1>1 DEF LInv, PcInv, NoRebuild, NoErase, Plan!NoPlan
<1>5. MaskInv' /\ EraseInv' /\ SlotsInv'
  <2>1. MaskInv'
    BY <1>1 DEF LInv, MaskInv, Bit, Plan!NthBitSet
  <2>2. EraseInv'
    <3>1. DepletedPoints' = DepletedPoints
      BY <1>1 DEF DepletedPoints
    <3> QED
      BY <1>1, <3>1 DEF LInv, EraseInv, Bit, Plan!NthBitSet, RoomFor
  <2>3. SlotsInv'
    BY <1>1 DEF LInv, SlotsInv
  <2> QED
    BY <2>1, <2>2, <2>3
<1>6. RebuildInv'
  BY <1>1, <1>2, PlanStands DEF LInv, RebuildInv, TasksInv, EmptyInv, Bit, Plan!NthBitSet
<1>7. PlanInv'
  <2> SUFFICES ASSUME pc = "plan"
               PROVE  PlanOK' /\ (op = "erase" => RoomFor(Len(points))')
    BY <1>1 DEF PlanInv
  <2>1. PlanOK /\ (op = "erase" => RoomFor(Len(points)))
    BY DEF LInv, PlanInv
  <2>2. PlanOK'
    <3>1. UNCHANGED PP!vars
      BY <1>1, <1>2 DEF PP!vars, PP!inputVars, PP!planVars, PP!headVars, PP!moveVars,
                        PP!gatherVars
    <3> QED
      BY <2>1, <3>1, PlanAssumptions, PP!NextIInv, PP!NextBufferInv, PP!NextFillInv
   DEF PlanOK
  <2> QED
    BY <1>1, <2>1, <2>2 DEF RoomFor
<1> QED
  BY <1>3, <1>4, <1>5, <1>6, <1>7 DEF LInv

LEMMA NextLInv == LInv /\ [Next]_vars => LInv'
<1> SUFFICES ASSUME LInv, [Next]_vars
             PROVE  LInv'
  OBVIOUS
<1>1. CASE Insert
  BY <1>1, InsertBeginLInv DEF Insert
<1>2. CASE Erase
  BY <1>2, EraseBeginLInv DEF Erase
<1>3. CASE RunInsert
  BY <1>3, PlanStepLInv, InsertThrowsLInv, BeginRebuildLInv, FillBufferLInv, StartMoveLInv,
     BuildTreeLInv, GatherPartLInv, EndRebuildLInv DEF RunInsert
<1>4. CASE RunErase
  BY <1>4, EraseFromTreeLInv, EndPhase1LInv, ScanTreeLInv, EndScanLInv, EmptyTreeLInv,
     ReinsertLInv DEF RunErase
<1>5. CASE UNCHANGED vars
  BY <1>5, StutterLInv
<1> QED
  BY <1>1, <1>2, <1>3, <1>4, <1>5 DEF Next, Step

LEMMA Invariance == Spec => []LInv
<1>1. Init => LInv
  BY InitLInv
<1>2. LInv /\ [Next]_vars => LInv'
  BY NextLInv
<1> QED
  BY <1>1, <1>2, PTL DEF Spec

-----------------------------------------------------------------------------
(* The refinement *)

Stored == buffer_tree \cup buffer_hidden \cup UNION Range(static_trees)

\* What move k holds, in the array it fills and still to come
InMove(k) == Ungathered(k) \cup cur_items[k]

ContentsFacts ==
  /\ Contents = (Stored \cup InFlight) \ to_erase
  /\ pc \in {"idle", "erase", "scan"} => InFlight = {}
  /\ pc = "plan" => InFlight = IF op = "erase" THEN Range(points) ELSE {}
  /\ pc = "rebuild" =>
       InFlight = (IF filled THEN {} ELSE Elements(0, remainder))
                  \cup UNION {InMove(k) : k \in Moves}
  /\ pc = "empty" => InFlight = UNION Range(points_to_move)

LEMMA ContentsIs == ContentsFacts
<1>1. Contents = (Stored \cup InFlight) \ to_erase
  BY DEF Contents, Stored
<1>2. ASSUME pc = "plan"
      PROVE  InFlight = IF op = "erase" THEN Range(points) ELSE {}
  BY <1>2 DEF InFlight
<1>3. ASSUME pc = "rebuild"
      PROVE  InFlight = (IF filled THEN {} ELSE Elements(0, remainder))
                        \cup UNION {Ungathered(k) \cup cur_items[k] : k \in Moves}
  BY <1>3 DEF InFlight
<1>4. ASSUME pc = "empty"
      PROVE  InFlight = UNION Range(points_to_move)
  BY <1>4 DEF InFlight
<1>5. ASSUME pc \in {"idle", "erase", "scan"}
      PROVE  InFlight = {}
  BY <1>5 DEF InFlight
<1> QED
  BY <1>1, <1>2, <1>3, <1>4, <1>5 DEF InMove, ContentsFacts

LEMMA ContentsNext == ContentsFacts'
BY ContentsIs, PTL

LEMMA PendingIs ==
  /\ Pending = IF pc = "plan" /\ op = "insert" THEN Range(points) ELSE {}
  /\ Pending' = IF pc' = "plan" /\ op' = "insert" THEN Range(points') ELSE {}
BY DEF Pending

LEMMA InsertBeginRefines ==
  ASSUME LInv, NEW batch \in InsertBatches, InsertBegin(batch)
  PROVE  Set!CallInsert(batch)
<1>1. /\ pc = "idle" /\ pc' = "plan" /\ op = "none" /\ op' = "insert" /\ points' = batch
      /\ Range(batch) \cap Contents = {}
      /\ UNCHANGED <<storeVars, eraseVars>>
  BY DEF InsertBegin, CallerGoesOn, LInv, PcInv
<1>2. Contents' = Contents
  BY <1>1, ContentsIs, ContentsNext DEF Stored, ContentsFacts
<1>3. Pending' = Range(batch)
  BY <1>1, PendingIs
<1> QED
  BY <1>1, <1>2, <1>3 DEF Set!CallInsert, Set!Range, Range

LEMMA PlanStepRefines == ASSUME LInv, PlanStep  PROVE UNCHANGED Set!vars
<1>1. /\ pc = "plan" /\ pc' = "plan"
      /\ UNCHANGED <<op, points, storeVars, eraseVars>>
  BY DEF PlanStep
<1>2. Contents' = Contents
  BY <1>1, ContentsIs, ContentsNext DEF Stored, ContentsFacts
<1>3. Pending' = Pending
  BY <1>1, PendingIs
<1> QED
  BY <1>1, <1>2, <1>3 DEF Set!vars

LEMMA InsertThrowsRefines == ASSUME LInv, InsertThrows  PROVE Set!Return
<1>1. /\ pc = "plan" /\ pc' = "idle" /\ plan_pc = "throw" /\ op' = "none"
      /\ UNCHANGED <<storeVars, eraseVars>>
  BY DEF InsertThrows
<1>2. op # "none" /\ op # "erase"
  BY <1>1, EraseFits DEF LInv, PcInv
<1>3. Contents' = Contents
  BY <1>1, <1>2, ContentsIs, ContentsNext DEF Stored, ContentsFacts
<1>4. Pending' = {}
  BY <1>1, PendingIs
<1> QED
  BY <1>1, <1>2, <1>3, <1>4 DEF Set!Return

\* When the rebuild begins, the batch is in the slices and the remainder.
LEMMA BatchIsTaken ==
  ASSUME points \in Seq(Points), remainder \in Nat, remainder <= Len(points),
         plan_pc = "done", Plan!SlicesPartitionBatch
  PROVE  Range(points)
           = Elements(0, remainder)
             \cup UNION {Elements(moves[k].points_start, moves[k].points_end) :
                           k \in DOMAIN moves}
<1> DEFINE n == Len(points)
<1>1. n \in Nat /\ DOMAIN points = 1..n
  OBVIOUS
<1>2. Range(points) = {points[x + 1] : x \in 0..(n - 1)}
  <2>1. \A y \in 1..n : y - 1 \in 0..(n - 1) /\ (y - 1) + 1 = y
    BY <1>1
  <2>2. \A x \in 0..(n - 1) : x + 1 \in 1..n
    BY <1>1
  <2>3. Range(points) = {points[y] : y \in 1..n}
    BY <1>1 DEF Range
  <2> HIDE DEF n
  <2> QED
    BY <2>1, <2>2, <2>3
<1>3. \A k \in DOMAIN moves :
        moves[k].points_start..(moves[k].points_end - 1) \subseteq remainder..(n - 1)
  BY DEF Plan!SlicesPartitionBatch, Plan!Indices
<1>4. \A x \in remainder..(n - 1) :
        \E k \in DOMAIN moves : x \in moves[k].points_start..(moves[k].points_end - 1)
  <2>1. \A x \in remainder..(n - 1) : x \in 0..(n - 1) /\ x >= remainder
    BY <1>1
  <2> QED
    BY <2>1 DEF Plan!SlicesPartitionBatch, Plan!Indices
<1>5. 0..(n - 1) = 0..(remainder - 1) \cup remainder..(n - 1)
  BY <1>1
<1> HIDE DEF n
<1>6. Range(points) = Elements(0, remainder) \cup {points[x + 1] : x \in remainder..(n - 1)}
  BY <1>2, <1>5 DEF Elements
<1>7. {points[x + 1] : x \in remainder..(n - 1)}
        = UNION {Elements(moves[k].points_start, moves[k].points_end) : k \in DOMAIN moves}
  BY <1>3, <1>4 DEF Elements
<1> QED
  BY <1>6, <1>7

LEMMA BeginRebuildRefines ==
  ASSUME LInv, BeginRebuild
  PROVE  Set!Insert \/ UNCHANGED Set!vars
<1> DEFINE slices == UNION {Elements(moves[k].points_start, moves[k].points_end) :
                              k \in DOMAIN moves}
           taken == IF have_used_buffer THEN buffer_tree ELSE {}
           placed == Elements(0, remainder)
<1>1. /\ pc = "plan" /\ plan_pc = "done" /\ pc' = "rebuild" /\ op \in {"insert", "erase"}
      /\ filled = FALSE /\ cur_items = [k \in Moves |-> {}] /\ to_erase = {}
      /\ UNCHANGED <<op, tree_mask, static_trees, buffer_hidden, points, planVars,
                     filled, cur_items, slot_size, eraseVars>>
  BY DEF BeginRebuild, LInv, PcInv, NoRebuild, NoErase, TypeOK
<1>2. /\ PlanFacts /\ Plan!MovesMatchMasks /\ Plan!SlicesPartitionBatch
      /\ remainder <= Len(points) /\ remainder \in Nat
      /\ moves \in Seq(Plan!Move) /\ points \in Seq(Points)
  BY <1>1, PlanShows DEF LInv, TypeOK, PlanInv, PlanFacts, Plan!TypeOK
<1>3. DOMAIN moves \subseteq Moves
  BY <1>1, <1>2, MovesAreFew
<1>4. Range(points) = placed \cup slices
  BY <1>1, <1>2, BatchIsTaken
<1>5. /\ buffer_points' = taken /\ buffer_tree' = IF have_used_buffer THEN {} ELSE buffer_tree
      /\ \A k \in Moves :
           todo'[k] = IF k \in DOMAIN moves
                        THEN moves[k].trees \cup {Slice}
                             \cup (IF moves[k].uses_buffer THEN {BUFFER_TREE_IDX} ELSE {})
                        ELSE {}
  BY DEF BeginRebuild
<1>6. \A k \in Moves :
        InMove(k)' = IF k \in DOMAIN moves
                       THEN Elements(moves[k].points_start, moves[k].points_end)
                            \cup (IF moves[k].uses_buffer THEN taken ELSE {})
                       ELSE {}
  <2> TAKE k \in Moves
  <2>1. cur_items'[k] = {}
    BY <1>1
  <2>2. CASE k \notin DOMAIN moves
    BY <1>5, <2>1, <2>2 DEF InMove, Ungathered
  <2>3. CASE k \in DOMAIN moves
    <3>1. moves[k].trees \subseteq Nat
      BY <1>1, <1>2, <2>3, MovesAre, TreesAre
    <3>2. /\ Slice \in todo'[k]
          /\ moves[k].uses_buffer => BUFFER_TREE_IDX \in todo'[k]
          /\ ~moves[k].uses_buffer => BUFFER_TREE_IDX \notin todo'[k]
      <4>1. BUFFER_TREE_IDX \notin moves[k].trees /\ Slice # BUFFER_TREE_IDX
        BY <3>1 DEF Slice, BUFFER_TREE_IDX
      <4>2. todo'[k] = moves[k].trees \cup {Slice}
                       \cup (IF moves[k].uses_buffer THEN {BUFFER_TREE_IDX} ELSE {})
        BY <1>5, <2>3
      <4> QED
        BY <4>1, <4>2
    <3>3. Elements(moves[k].points_start, moves[k].points_end)'
            = Elements(moves[k].points_start, moves[k].points_end)
      BY <1>1 DEF Elements
    <3> QED
      BY <1>1, <1>5, <2>1, <2>3, <3>2, <3>3 DEF InMove, Ungathered
  <2> QED
    BY <2>2, <2>3
<1>7. UNION {InMove(k)' : k \in Moves} = slices \cup taken
  <2>1. have_used_buffer <=> \E k \in DOMAIN moves : moves[k].uses_buffer
    BY <1>2 DEF PlanFacts
  <2> QED
    BY <1>3, <1>6, <2>1
<1>8. Elements(0, remainder)' = placed
  BY <1>1 DEF Elements
<1>9. InFlight' = placed \cup slices \cup taken
  BY <1>1, <1>7, <1>8, ContentsNext DEF ContentsFacts
<1>10. Stored' \cup taken = Stored
  BY <1>1, <1>5 DEF Stored
<1> HIDE DEF slices, taken, placed
<1>11. Contents' = (Stored \cup Range(points)) \ {}
  BY <1>1, <1>4, <1>9, <1>10, ContentsNext DEF ContentsFacts
<1>12. CASE op = "insert"
  <2>1. Contents = Stored /\ Pending = Range(points) /\ Pending' = {}
    BY <1>1, <1>12, ContentsIs, PendingIs DEF ContentsFacts
  <2> QED
    BY <1>1, <1>11, <1>12, <2>1 DEF Set!Insert
<1>13. CASE op = "erase"
  <2>1. Contents = Stored \cup Range(points) /\ Pending = {} /\ Pending' = {}
    BY <1>1, <1>13, ContentsIs, PendingIs DEF ContentsFacts
  <2> QED
    BY <1>1, <1>11, <1>13, <2>1 DEF Set!vars
<1> QED
  BY <1>1, <1>12, <1>13

\* Nothing outside the rebuild changes while it runs: what it holds decides.
LEMMA RebuildKeeps ==
  ASSUME LInv, pc = "rebuild", pc' = "rebuild", UNCHANGED <<op, eraseVars>>,
         Stored' \cup InFlight' = Stored \cup InFlight
  PROVE  UNCHANGED Set!vars
<1>1. Contents' = Contents
  BY ContentsIs, ContentsNext DEF ContentsFacts
<1>2. Pending' = Pending
  BY PendingIs
<1> QED
  BY <1>1, <1>2 DEF Set!vars

LEMMA FillBufferRefines == ASSUME LInv, FillBuffer  PROVE UNCHANGED Set!vars
<1> DEFINE new == Elements(0, remainder)
<1>1. /\ pc = "rebuild" /\ pc' = "rebuild" /\ ~filled /\ filled' = TRUE /\ InsertIntoBuffer(new)
      /\ buffer_hidden = {}
      /\ UNCHANGED <<op, static_trees, points, planVars, buffer_points, todo, cur_items,
                     eraseVars>>
  BY DEF FillBuffer, LInv, PcInv
<1> HIDE DEF new
<1>2. buffer_tree' \cup buffer_hidden' = buffer_tree \cup buffer_hidden \cup new
  BY <1>1 DEF InsertIntoBuffer
<1>3. \A k \in Moves : InMove(k)' = InMove(k)
  BY <1>1 DEF InMove, Ungathered, Elements
<1>4. InFlight = new \cup InFlight'
  <2>1. UNION {InMove(k)' : k \in Moves} = UNION {InMove(k) : k \in Moves}
    BY <1>3
  <2> QED
    BY <1>1, <2>1, ContentsIs, ContentsNext DEF ContentsFacts, new
<1>5. Stored' = Stored \cup new
  BY <1>1, <1>2 DEF Stored
<1> QED
  BY <1>1, <1>4, <1>5, RebuildKeeps

LEMMA StartMoveRefines == ASSUME LInv, NEW k \in Moves, StartMove(k)  PROVE UNCHANGED Set!vars
<1>1. /\ pc = "rebuild" /\ pc' = "rebuild"
      /\ UNCHANGED <<op, storeVars, points, planVars, buffer_points, filled, todo,
                     cur_items, eraseVars>>
  BY DEF StartMove
<1>2. \A l \in Moves : InMove(l)' = InMove(l)
  BY <1>1 DEF InMove, Ungathered, Elements
<1>3. InFlight' = InFlight
  <2>1. UNION {InMove(l)' : l \in Moves} = UNION {InMove(l) : l \in Moves}
    BY <1>2
  <2>2. Elements(0, remainder)' = Elements(0, remainder)
    BY <1>1 DEF Elements
  <2> QED
    BY <1>1, <2>1, <2>2, ContentsIs, ContentsNext DEF ContentsFacts
<1> QED
  BY <1>1, <1>3, RebuildKeeps DEF Stored

LEMMA GatherPartRefines ==
  ASSUME LInv, NEW k \in Moves, NEW part \in Parts, GatherPart(k, part)
  PROVE  UNCHANGED Set!vars
<1> DEFINE slice == Elements(moves[k].points_start, moves[k].points_end)
           gathered == IF part \in Trees THEN static_trees[part] ELSE {}
<1>1. /\ pc = "rebuild" /\ pc' = "rebuild" /\ part \in todo[k]
      /\ todo' = [todo EXCEPT ![k] = @ \ {part}]
      /\ UNCHANGED <<op, bufferVars, points, planVars, buffer_points, filled, eraseVars>>
  BY DEF GatherPart
<1>2. /\ todo \in [Moves -> SUBSET Parts] /\ cur_items \in [Moves -> SUBSET Points]
      /\ static_trees \in [Trees -> SUBSET Points]
  BY DEF LInv, TypeOK
<1>3. /\ Slice \notin Trees /\ BUFFER_TREE_IDX \notin Trees /\ Slice # BUFFER_TREE_IDX
  BY TreesAre DEF Slice, BUFFER_TREE_IDX
<1>4. /\ cur_items' = [cur_items EXCEPT ![k] =
           @ \cup gathered \cup (IF part = Slice THEN slice ELSE {})
             \cup (IF part = BUFFER_TREE_IDX THEN buffer_points ELSE {})]
      /\ static_trees' = IF part \in Trees THEN [static_trees EXCEPT ![part] = {}]
                         ELSE static_trees
  <2>1. CASE part \in Trees
    BY <1>2, <1>3, <2>1 DEF GatherPart
  <2>2. CASE part = Slice
    BY <1>2, <1>3, <2>2 DEF GatherPart
  <2>3. CASE part = BUFFER_TREE_IDX
    BY <1>2, <1>3, <2>3 DEF GatherPart
  <2> QED
    BY <2>1, <2>2, <2>3 DEF Parts, TreeIds
<1>5. \A l, a, b : Elements(moves[l].points_start, moves[l].points_end)'
                    = Elements(moves[l].points_start, moves[l].points_end)
  BY <1>1 DEF Elements
<1>6. \A l \in Moves : l # k => InMove(l)' = InMove(l)
  BY <1>1, <1>2, <1>4, <1>5 DEF InMove, Ungathered
<1>7. InMove(k)' = InMove(k) \cup gathered
  <2>1. /\ todo'[k] = todo[k] \ {part}
        /\ cur_items'[k] = cur_items[k] \cup gathered \cup (IF part = Slice THEN slice ELSE {})
             \cup (IF part = BUFFER_TREE_IDX THEN buffer_points ELSE {})
        /\ slice' = slice /\ buffer_points' = buffer_points
    BY <1>1, <1>2, <1>4, <1>5
  <2> HIDE DEF slice, gathered
  <2>2. /\ Ungathered(k) = (IF Slice \in todo[k] THEN slice ELSE {})
                           \cup (IF BUFFER_TREE_IDX \in todo[k] THEN buffer_points ELSE {})
        /\ Ungathered(k)' = (IF Slice \in todo'[k] THEN slice' ELSE {})
                            \cup (IF BUFFER_TREE_IDX \in todo'[k] THEN buffer_points' ELSE {})
    BY DEF Ungathered, slice
  <2> QED
    BY <1>1, <1>3, <2>1, <2>2 DEF InMove
<1>8. InFlight' = InFlight \cup gathered
  <2> HIDE DEF gathered
  <2>1. UNION {InMove(l)' : l \in Moves} = gathered \cup UNION {InMove(l) : l \in Moves}
    BY <1>6, <1>7
  <2>2. Elements(0, remainder)' = Elements(0, remainder)
    BY <1>1 DEF Elements
  <2> QED
    BY <1>1, <2>1, <2>2, ContentsIs, ContentsNext DEF ContentsFacts
<1>9. gathered \cup UNION Range(static_trees') = UNION Range(static_trees)
  <2>1. UNION Range(static_trees) = UNION {static_trees[n] : n \in Trees}
    BY <1>2 DEF Range
  <2>2. UNION Range(static_trees') = UNION {static_trees'[n] : n \in Trees}
    BY <1>2, <1>4 DEF Range
  <2>3. CASE part \in Trees
    <3>1. \A n \in Trees : static_trees'[n] = IF n = part THEN {} ELSE static_trees[n]
      BY <1>2, <1>4, <2>3
    <3> QED
      BY <2>1, <2>2, <2>3, <3>1
  <2>4. CASE part \notin Trees
    BY <1>4, <2>4
  <2> QED
    BY <2>3, <2>4
<1> HIDE DEF gathered
<1>10. Stored' \cup gathered = Stored
  BY <1>1, <1>9 DEF Stored
<1> QED
  BY <1>1, <1>8, <1>10, RebuildKeeps

LEMMA BuildTreeRefines == ASSUME LInv, NEW k \in Moves, BuildTree(k)  PROVE UNCHANGED Set!vars
<1> DEFINE t == moves[k].new_tree
<1>1. /\ pc = "rebuild" /\ pc' = "rebuild" /\ task[k] = "gathering" /\ todo[k] = {}
      /\ static_trees' = [static_trees EXCEPT ![t] = cur_items[k]]
      /\ cur_items' = [cur_items EXCEPT ![k] = {}]
      /\ UNCHANGED <<op, bufferVars, points, planVars, buffer_points, filled, todo, eraseVars>>
  BY DEF BuildTree
<1>2. /\ TasksInv /\ EmptyInv /\ Plan!MovesMatchMasks /\ plan_pc = "done"
      /\ cur_items \in [Moves -> SUBSET Points] /\ static_trees \in [Trees -> SUBSET Points]
  BY <1>1 DEF LInv, TypeOK, RebuildInv
<1>3. k \in DOMAIN moves /\ t \in Trees /\ static_trees[t] = {}
  <2>1. k \in DOMAIN moves
    BY <1>1, <1>2 DEF TasksInv
  <2> QED
    BY <1>1, <1>2, <2>1, MovesAre DEF EmptyInv
<1> HIDE DEF t
<1>4. \A l \in Moves : l # k => InMove(l)' = InMove(l)
  BY <1>1, <1>2 DEF InMove, Ungathered, Elements
<1>5. InMove(k) = cur_items[k] /\ InMove(k)' = {}
  BY <1>1, <1>2 DEF InMove, Ungathered
<1>6. InFlight = InFlight' \cup cur_items[k]
  <2>1. UNION {InMove(l) : l \in Moves} = cur_items[k] \cup UNION {InMove(l)' : l \in Moves}
    BY <1>4, <1>5
  <2>2. Elements(0, remainder)' = Elements(0, remainder)
    BY <1>1 DEF Elements
  <2> QED
    BY <1>1, <2>1, <2>2, ContentsIs, ContentsNext DEF ContentsFacts
<1>7. UNION Range(static_trees') = cur_items[k] \cup UNION Range(static_trees)
  <2>1. UNION Range(static_trees) = UNION {static_trees[n] : n \in Trees}
    BY <1>2 DEF Range
  <2>2. UNION Range(static_trees') = UNION {static_trees'[n] : n \in Trees}
    BY <1>1, <1>2 DEF Range
  <2>3. \A n \in Trees : static_trees'[n] = IF n = t THEN cur_items[k] ELSE static_trees[n]
    BY <1>1, <1>2
  <2> QED
    BY <1>3, <2>1, <2>2, <2>3
<1>8. Stored' = Stored \cup cur_items[k]
  BY <1>1, <1>7 DEF Stored
<1> QED
  BY <1>1, <1>6, <1>8, RebuildKeeps

LEMMA EndRebuildRefines == ASSUME LInv, EndRebuild  PROVE Set!Return
<1>1. /\ pc = "rebuild" /\ filled /\ \A k \in Moves : task[k] \in {"none", "built"}
      /\ pc' = "idle" /\ op' = "none" /\ UNCHANGED <<bufferVars, static_trees, eraseVars>>
  BY DEF EndRebuild
<1>2. \A k \in Moves : InMove(k) = {}
  BY <1>1 DEF LInv, RebuildInv, TasksInv, InMove, Ungathered
<1>3. InFlight = {} /\ InFlight' = {} /\ Stored' = Stored
  BY <1>1, <1>2, ContentsIs, ContentsNext DEF ContentsFacts, Stored
<1>4. Contents' = Contents /\ Pending' = {}
  BY <1>1, <1>3, ContentsIs, ContentsNext, PendingIs DEF ContentsFacts
<1> QED
  BY <1>1, <1>4 DEF Set!Return, LInv, PcInv

LEMMA EraseBeginRefines ==
  ASSUME LInv, NEW batch \in EraseBatches, EraseBegin(batch)
  PROVE  Set!Erase(batch)
<1>1. /\ pc = "idle" /\ pc' = "erase" /\ op = "none" /\ op' = "erase" /\ to_erase = {}
      /\ to_erase' = batch /\ UNCHANGED storeVars
  BY DEF EraseBegin, CallerGoesOn, LInv, PcInv, NoErase
<1>2. Contents' = Contents \ batch
  BY <1>1, ContentsIs, ContentsNext DEF ContentsFacts, Stored
<1> QED
  BY <1>1, <1>2, PendingIs DEF Set!Erase

\* An erase, once it has begun, changes nothing a caller sees.
LEMMA EraseKeeps ==
  ASSUME LInv, pc \in {"erase", "scan", "empty"}, op' = op,
         (Stored' \cup InFlight') \ to_erase' = (Stored \cup InFlight) \ to_erase
  PROVE  UNCHANGED Set!vars
<1>1. Contents' = Contents
  BY ContentsIs, ContentsNext DEF ContentsFacts
<1>2. Pending' = Pending
  BY PendingIs DEF LInv, PcInv
<1> QED
  BY <1>1, <1>2 DEF Set!vars

LEMMA EraseFromTreeRefines ==
  ASSUME LInv, NEW id \in TreeIds, EraseFromTree(id)
  PROVE  UNCHANGED Set!vars
<1>1. /\ pc = "erase" /\ UNCHANGED <<pc, op, buffer_hidden, to_erase>>
      /\ static_trees \in [Trees -> SUBSET Points]
  BY DEF EraseFromTree, LInv, TypeOK
<1>2. Stored' \ to_erase = Stored \ to_erase
  <2>1. CASE id = BUFFER_TREE_IDX /\ buffer_tree' = buffer_tree \ to_erase /\ UNCHANGED static_trees
    BY <1>1, <2>1 DEF Stored
  <2>2. CASE /\ id \in Trees /\ UNCHANGED buffer_tree
             /\ static_trees' = [static_trees EXCEPT ![id] = @ \ to_erase]
    <3>1. UNION Range(static_trees) = UNION {static_trees[n] : n \in Trees}
      BY <1>1 DEF Range
    <3>2. UNION Range(static_trees') = UNION {static_trees'[n] : n \in Trees}
      BY <1>1, <2>2 DEF Range
    <3>3. \A n \in Trees : static_trees'[n] = IF n = id THEN static_trees[n] \ to_erase
                                              ELSE static_trees[n]
      BY <1>1, <2>2
    <3>4. \A x : x \notin to_erase => (x \in UNION Range(static_trees')
                                       <=> x \in UNION Range(static_trees))
      <4> TAKE x
      <4> HAVE x \notin to_erase
      <4>1. \A n \in Trees : x \in static_trees'[n] <=> x \in static_trees[n]
        BY <3>3
      <4> QED
        BY <3>1, <3>2, <4>1
    <3> QED
      BY <1>1, <2>2, <3>4 DEF Stored
  <2> QED
    BY <2>1, <2>2 DEF EraseFromTree
<1>3. InFlight = {} /\ InFlight' = {}
  BY <1>1, ContentsIs, ContentsNext DEF ContentsFacts
<1> QED
  BY <1>1, <1>2, <1>3, EraseKeeps

LEMMA EndPhase1Refines == ASSUME LInv, EndPhase1  PROVE UNCHANGED Set!vars
<1>1. /\ pc = "erase" /\ pc' = "scan" /\ erasing = {} /\ to_erase' = {}
      /\ UNCHANGED <<op, storeVars>>
  BY DEF EndPhase1
<1>2. /\ \A n \in Trees : static_trees[n] \cap to_erase = {}
      /\ buffer_tree \cap to_erase = {} /\ buffer_hidden = {}
      /\ static_trees \in [Trees -> SUBSET Points]
  BY <1>1 DEF LInv, PcInv, EraseInv, NoRebuild, TypeOK
<1>3. Stored \cap to_erase = {}
  BY <1>2 DEF Stored, Range
<1>4. InFlight = {} /\ InFlight' = {} /\ Stored' = Stored
  BY <1>1, ContentsIs, ContentsNext DEF ContentsFacts, Stored
<1> QED
  BY <1>1, <1>3, <1>4, EraseKeeps

LEMMA ScanTreeRefines == ASSUME LInv, ScanTree  PROVE UNCHANGED Set!vars
<1>1. pc = "scan" /\ pc' = "scan" /\ UNCHANGED <<op, storeVars, to_erase>>
  BY DEF ScanTree
<1>2. InFlight = {} /\ InFlight' = {} /\ Stored' = Stored
  BY <1>1, ContentsIs, ContentsNext DEF ContentsFacts, Stored
<1> QED
  BY <1>1, <1>2, EraseKeeps

LEMMA EndScanRefines == ASSUME LInv, EndScan  PROVE UNCHANGED Set!vars
<1>1. /\ pc = "scan" /\ pc' = "empty" /\ points_to_move = NoTrees
      /\ UNCHANGED <<op, bufferVars, static_trees, eraseVars>>
  BY DEF EndScan, LInv, PcInv
<1>2. UNION Range(points_to_move') = {}
  BY <1>1 DEF NoTrees, Range
<1>3. InFlight = {} /\ InFlight' = {} /\ Stored' = Stored
  BY <1>1, <1>2, ContentsIs, ContentsNext DEF ContentsFacts, Stored
<1> QED
  BY <1>1, <1>3, EraseKeeps

LEMMA EmptyTreeRefines == ASSUME LInv, NEW n \in Trees, EmptyTree(n)  PROVE UNCHANGED Set!vars
<1>1. /\ pc = "empty" /\ pc' = "empty" /\ n \in depleted
      /\ points_to_move' = [points_to_move EXCEPT ![n] = static_trees[n]]
      /\ static_trees' = [static_trees EXCEPT ![n] = {}]
      /\ UNCHANGED <<op, bufferVars, to_erase>>
  BY DEF EmptyTree
<1>2. /\ static_trees \in [Trees -> SUBSET Points] /\ points_to_move \in [Trees -> SUBSET Points]
      /\ points_to_move[n] = {}
  BY <1>1 DEF LInv, TypeOK, EraseInv
<1>3. \A m \in Trees : /\ static_trees'[m] = IF m = n THEN {} ELSE static_trees[m]
                       /\ points_to_move'[m] = IF m = n THEN static_trees[n]
                                               ELSE points_to_move[m]
  BY <1>1, <1>2
<1>4. /\ UNION Range(static_trees) = UNION {static_trees[m] : m \in Trees}
      /\ UNION Range(static_trees') = UNION {static_trees'[m] : m \in Trees}
      /\ UNION Range(points_to_move) = UNION {points_to_move[m] : m \in Trees}
      /\ UNION Range(points_to_move') = UNION {points_to_move'[m] : m \in Trees}
  BY <1>1, <1>2 DEF Range
<1>5. UNION Range(static_trees) = static_trees[n] \cup UNION Range(static_trees')
  <2>1. UNION {static_trees[m] : m \in Trees}
          = static_trees[n] \cup UNION {static_trees'[m] : m \in Trees}
    BY <1>3
  <2> QED
    BY <1>4, <2>1
<1>6. UNION Range(points_to_move') = static_trees[n] \cup UNION Range(points_to_move)
  BY <1>2, <1>3, <1>4
<1>7. InFlight' = static_trees[n] \cup InFlight
  BY <1>1, <1>6, ContentsIs, ContentsNext DEF ContentsFacts
<1>8. Stored = static_trees[n] \cup Stored'
  BY <1>1, <1>5 DEF Stored
<1> QED
  BY <1>1, <1>7, <1>8, EraseKeeps

LEMMA ReinsertRefines == ASSUME LInv, Reinsert  PROVE UNCHANGED Set!vars
<1>1. /\ pc = "empty" /\ pc' = "plan" /\ op = "erase" /\ points' \in Arrangements
      /\ UNCHANGED <<op, to_erase, storeVars>>
  BY DEF Reinsert, LInv, PcInv
<1>2. Range(points') = UNION Range(points_to_move)
  BY <1>1 DEF Arrangements
<1>3. InFlight' = InFlight /\ Stored' = Stored
  BY <1>1, <1>2, ContentsIs, ContentsNext DEF ContentsFacts, Stored
<1> QED
  BY <1>1, <1>3, EraseKeeps

LEMMA StutterRefines == LInv /\ UNCHANGED vars => UNCHANGED Set!vars
<1> SUFFICES ASSUME LInv, UNCHANGED vars
             PROVE  UNCHANGED Set!vars
  OBVIOUS
<1>1. UNCHANGED <<pc, op, storeVars, points, planVars, rebuildVars, eraseVars>>
  BY DEF vars
<1>2. \A k \in Moves : InMove(k)' = InMove(k)
  BY <1>1 DEF InMove, Ungathered, Elements
<1>3. UNION {InMove(k)' : k \in Moves} = UNION {InMove(k) : k \in Moves}
  BY <1>2
<1>4. Elements(0, remainder)' = Elements(0, remainder) /\ Stored' = Stored
  BY <1>1 DEF Elements, Stored
<1>5. Contents' = Contents
  BY <1>1, <1>3, <1>4, ContentsIs, ContentsNext DEF ContentsFacts, LInv, TypeOK
<1>6. Pending' = Pending
  BY <1>1, PendingIs
<1> QED
  BY <1>1, <1>5, <1>6 DEF Set!vars

LEMMA NextRefines == LInv /\ [Next]_vars => [Set!Next]_Set!vars
<1> SUFFICES ASSUME LInv, [Next]_vars
             PROVE  Set!Next \/ UNCHANGED Set!vars
  OBVIOUS
<1>1. CASE Insert
  BY <1>1, InsertBeginRefines DEF Insert, Set!Next
<1>2. CASE Erase
  BY <1>2, EraseBeginRefines DEF Erase, Set!Next
<1>3. CASE RunInsert
  BY <1>3, PlanStepRefines, InsertThrowsRefines, BeginRebuildRefines, FillBufferRefines,
     StartMoveRefines, BuildTreeRefines, GatherPartRefines, EndRebuildRefines
     DEF RunInsert, Set!Next
<1>4. CASE RunErase
  BY <1>4, EraseFromTreeRefines, EndPhase1Refines, ScanTreeRefines, EndScanRefines,
     EmptyTreeRefines, ReinsertRefines DEF RunErase
<1>5. CASE UNCHANGED vars
  BY <1>5, StutterRefines
<1> QED
  BY <1>1, <1>2, <1>3, <1>4, <1>5 DEF Next, Step

LEMMA InitRefines == Init => Set!Init
<1> SUFFICES ASSUME Init
             PROVE  Set!Init
  OBVIOUS
<1>1. Contents = {}
  BY ContentsIs DEF Init, NoErase, NoTrees, ContentsFacts, Stored, Range
<1>2. Pending = {}
  BY PendingIs DEF Init
<1> QED
  BY <1>1, <1>2 DEF Init, Set!Init

-----------------------------------------------------------------------------
(* The theorems *)

(***************************************************************************)
(* Every variable of an insert or an erase keeps its type, whatever the    *)
(* tasks interleave: in particular the buffer tree never holds more than   *)
(* BUFFER_SIZE points and there are never more moves than static trees.    *)
(***************************************************************************)
THEOREM TypeCorrect == Spec => []TypeOK
BY Invariance, PTL DEF LInv

(***************************************************************************)
(* The buffer tree always has room for what insert gives it, so its insert *)
(* neither throws nor writes past its arrays (bhlkdtree.h:202-220).        *)
(***************************************************************************)
THEOREM BufferNeverOverfull == Spec => []BufferHasRoom
<1>1. LInv => BufferHasRoom
  BY DEF LInv, TypeOK, Plan!TypeOK, RebuildInv, BufferHasRoom
<1> QED
  BY <1>1, Invariance, PTL

(***************************************************************************)
(* The size read to reserve a tree's slot is still its size when a later   *)
(* task moves the tree there (logtree.h:321 and 479): no other task can    *)
(* empty it or build it in between.                                        *)
(***************************************************************************)
THEOREM SlotsAlwaysRight == Spec => []SlotsStayRight
<1>1. LInv => SlotsStayRight
  BY DEF LInv, SlotsInv, SlotsStayRight
<1> QED
  BY <1>1, Invariance, PTL

(***************************************************************************)
(* The insert at the end of an erase never throws "Not enough trees!":     *)
(* the points it reinserts have left the trees already (logtree.h:491).    *)
(***************************************************************************)
THEOREM EraseIsSafe == Spec => []EraseNeverThrows
<1>1. LInv => EraseNeverThrows
  <2> SUFFICES ASSUME LInv, op = "erase", plan_pc = "throw"
               PROVE  FALSE
    BY DEF EraseNeverThrows
  <2>1. CASE pc = "plan"
    BY <2>1, EraseFits
  <2>2. CASE pc = "rebuild"
    BY <2>2 DEF LInv, RebuildInv
  <2>3. CASE pc \notin {"plan", "rebuild"}
    BY <2>3 DEF LInv, PcInv, Plan!NoPlan
  <2> QED
    BY <2>1, <2>2, <2>3
<1> QED
  BY <1>1, Invariance, PTL

(***************************************************************************)
(* LogTree implements the set of points: no interleaving of the tasks of   *)
(* insert and erase (logtree.h:146-497) loses a point, duplicates one into *)
(* the set or brings an erased one back.                                   *)
(***************************************************************************)
THEOREM LogTreeRefines == Spec => ImplementsPointSet
<1>1. Init => Set!Init
  BY InitRefines
<1>2. LInv /\ [Next]_vars => [Set!Next]_Set!vars
  BY NextRefines
<1>3. Set!Init /\ [][Set!Next]_Set!vars => Set!Spec
  BY DEF Set!Spec
<1> QED
  BY <1>1, <1>2, <1>3, Invariance, PTL DEF Spec, ImplementsPointSet

-----------------------------------------------------------------------------
(***************************************************************************)
(* Every point of the LogTree is in one place, and every static tree in    *)
(* use is more than half full and not overfull, for any number of trees,   *)
(* any buffer size, any batches and any interleaving.                      *)
(*                                                                         *)
(* The argument: a step takes points out of a place before it puts them    *)
(* into another, and what it puts together was never together before.  So  *)
(* the size of a gathered array is the sum of the sizes of its parts; the  *)
(* plan makes the nominal sizes of the parts of a move add up to that of   *)
(* its new tree (MovesFillTrees), and each part has more than half of its  *)
(* nominal size.                                                           *)
(***************************************************************************)


-----------------------------------------------------------------------------
(* Places *)

PlacesInv ==
  /\ EachPointOnce
  /\ IsInjective(points)
  /\ pc = "plan" => Range(points) \cap Stored = {}
  /\ pc = "rebuild" => Range(points) \cap buffer_points = {}

BufferPlace == <<"buffer", 0>>
HiddenPlace == <<"hidden", 0>>
BatchPlace == <<"batch", 0>>

LEMMA PlacesAre ==
  /\ BufferPlace \in Places /\ HiddenPlace \in Places /\ BatchPlace \in Places
  /\ \A n \in Trees : <<"static", n>> \in Places /\ <<"moved", n>> \in Places
  /\ \A k \in Moves : <<"gathered", k>> \in Places /\ <<"ungathered", k>> \in Places
  /\ \A q \in Places :
       \/ q = BufferPlace \/ q = HiddenPlace \/ q = BatchPlace
       \/ \E n \in Trees : q = <<"static", n>> \/ q = <<"moved", n>>
       \/ \E k \in Moves : q = <<"gathered", k>> \/ q = <<"ungathered", k>>
BY DEF Places, BufferPlace, HiddenPlace, BatchPlace

LEMMA PlacesDiffer ==
  /\ BufferPlace # HiddenPlace /\ BufferPlace # BatchPlace /\ HiddenPlace # BatchPlace
  /\ \A n : \A p \in {BufferPlace, HiddenPlace, BatchPlace} :
       /\ p # <<"static", n>> /\ p # <<"moved", n>>
       /\ p # <<"gathered", n>> /\ p # <<"ungathered", n>>
  /\ \A n, m :
       /\ <<"static", n>> # <<"moved", m>> /\ <<"static", n>> # <<"gathered", m>>
       /\ <<"static", n>> # <<"ungathered", m>> /\ <<"moved", n>> # <<"gathered", m>>
       /\ <<"moved", n>> # <<"ungathered", m>> /\ <<"gathered", n>> # <<"ungathered", m>>
       /\ n # m => /\ <<"static", n>> # <<"static", m>> /\ <<"moved", n>> # <<"moved", m>>
                   /\ <<"gathered", n>> # <<"gathered", m>>
                   /\ <<"ungathered", n>> # <<"ungathered", m>>
BY DEF BufferPlace, HiddenPlace, BatchPlace

HeldFacts ==
  /\ Held(BufferPlace) = buffer_tree /\ Held(HiddenPlace) = buffer_hidden
  /\ Held(BatchPlace) =
       IF pc = "rebuild" /\ ~filled THEN Elements(0, remainder)
       ELSE IF pc = "plan" /\ op = "erase" THEN Range(points) ELSE {}
  /\ \A n \in Trees : /\ Held(<<"static", n>>) = static_trees[n]
                      /\ Held(<<"moved", n>>) = points_to_move[n]
  /\ \A k \in Moves : /\ Held(<<"gathered", k>>) = cur_items[k]
                      /\ Held(<<"ungathered", k>>) = Ungathered(k)

LEMMA HeldIs == HeldFacts
BY DEF HeldFacts, Held, BufferPlace, HiddenPlace, BatchPlace

LEMMA HeldNext == HeldFacts'
BY HeldIs, PTL

LEMMA HeldIn ==
  ASSUME LInv
  PROVE  /\ buffer_tree \subseteq Stored /\ buffer_hidden \subseteq Stored
         /\ \A n \in Trees : static_trees[n] \subseteq Stored
         /\ Range(static_trees) = {static_trees[n] : n \in Trees}
         /\ Range(points_to_move) = {points_to_move[n] : n \in Trees}
<1>1. DOMAIN static_trees = Trees /\ DOMAIN points_to_move = Trees
  BY DEF LInv, TypeOK
<1>2. /\ Range(static_trees) = {static_trees[n] : n \in Trees}
      /\ Range(points_to_move) = {points_to_move[n] : n \in Trees}
  BY <1>1 DEF Range
<1> QED
  BY <1>2 DEF Stored

\* The step adds X to the places B, and to no other.
LEMMA MovedOnce ==
  ASSUME EachPointOnce, NEW B \in SUBSET Places, NEW X,
         \A q \in Places \ B : Held(q)' \subseteq Held(q) /\ Held(q)' \cap X = {},
         \A b \in B : Held(b)' \subseteq Held(b) \cup X,
         \A a, b \in B : a # b => Held(a)' \cap Held(b)' = {}
  PROVE  EachPointOnce'
<1>1. Places' = Places
  BY DEF Places, Trees, Plan!Trees, Moves
<1>2. ASSUME NEW p \in Places, NEW q \in Places, p # q
      PROVE  Held(p)' \cap Held(q)' = {}
  <2>1. Held(p) \cap Held(q) = {}
    BY <1>2 DEF EachPointOnce
  <2>2. CASE p \in B /\ q \in B
    BY <1>2, <2>2
  <2>3. CASE p \in B /\ q \notin B
    <3>1. /\ Held(q)' \subseteq Held(q) /\ Held(q)' \cap X = {}
          /\ Held(p)' \subseteq Held(p) \cup X
      BY <1>2, <2>3
    <3> QED
      BY <2>1, <3>1
  <2>4. CASE p \notin B /\ q \in B
    <3>1. /\ Held(p)' \subseteq Held(p) /\ Held(p)' \cap X = {}
          /\ Held(q)' \subseteq Held(q) \cup X
      BY <1>2, <2>4
    <3> QED
      BY <2>1, <3>1
  <2>5. CASE p \notin B /\ q \notin B
    BY <1>2, <2>1, <2>5
  <2> QED
    BY <2>2, <2>3, <2>4, <2>5
<1> QED
  BY <1>1, <1>2 DEF EachPointOnce

\* Nothing is added anywhere.
LEMMA OnceStays ==
  ASSUME EachPointOnce, \A q \in Places : Held(q)' \subseteq Held(q)
  PROVE  EachPointOnce'
<1>1. \A q \in Places \ {} : Held(q)' \subseteq Held(q) /\ Held(q)' \cap {} = {}
  OBVIOUS
<1> QED
  BY <1>1, MovedOnce

LEMMA HeldShrinks ==
  ASSUME EachPointOnce,
         buffer_tree' \subseteq buffer_tree, buffer_hidden' \subseteq buffer_hidden,
         \A n \in Trees : /\ static_trees'[n] \subseteq static_trees[n]
                          /\ points_to_move'[n] \subseteq points_to_move[n],
         \A k \in Moves : /\ cur_items'[k] \subseteq cur_items[k]
                          /\ Ungathered(k)' \subseteq Ungathered(k),
         Held(BatchPlace)' \subseteq Held(BatchPlace)
  PROVE  EachPointOnce'
<1> SUFFICES ASSUME NEW q \in Places  PROVE Held(q)' \subseteq Held(q)
  BY OnceStays
<1>1. CASE q \in {BufferPlace, HiddenPlace, BatchPlace}
  BY <1>1, HeldIs, HeldNext DEF HeldFacts
<1>2. CASE \E n \in Trees : q = <<"static", n>> \/ q = <<"moved", n>>
  <2>1. PICK n \in Trees : q = <<"static", n>> \/ q = <<"moved", n>>
    BY <1>2
  <2>2. Held(<<"static", n>>)' \subseteq Held(<<"static", n>>)
    BY HeldIs, HeldNext DEF HeldFacts
  <2>3. Held(<<"moved", n>>)' \subseteq Held(<<"moved", n>>)
    BY HeldIs, HeldNext DEF HeldFacts
  <2> QED
    BY <2>1, <2>2, <2>3
<1>3. CASE \E k \in Moves : q = <<"gathered", k>> \/ q = <<"ungathered", k>>
  <2>1. PICK k \in Moves : q = <<"gathered", k>> \/ q = <<"ungathered", k>>
    BY <1>3
  <2>2. Held(<<"gathered", k>>)' \subseteq Held(<<"gathered", k>>)
    BY HeldIs, HeldNext DEF HeldFacts
  <2>3. Held(<<"ungathered", k>>)' \subseteq Held(<<"ungathered", k>>)
    BY HeldIs, HeldNext DEF HeldFacts
  <2> QED
    BY <2>1, <2>2, <2>3
<1> QED
  BY <1>1, <1>2, <1>3, PlacesAre

\* Outside a rebuild no move has parts.
LEMMA NoMoves ==
  ASSUME LInv, pc # "rebuild"
  PROVE  \A k \in Moves : Ungathered(k) = {} /\ cur_items[k] = {}
BY DEF LInv, PcInv, NoRebuild, Ungathered

LEMMA NoMovesNext ==
  ASSUME LInv', pc' # "rebuild"
  PROVE  \A k \in Moves : Ungathered(k)' = {} /\ cur_items'[k] = {}
<1>1. LInv' /\ (pc # "rebuild")' => (\A k \in Moves : Ungathered(k) = {} /\ cur_items[k] = {})'
  BY NoMoves, PTL
<1>2. Moves' = Moves
  BY DEF Moves
<1> QED
  BY <1>1, <1>2

LEMMA InitPlaces == Init => PlacesInv
<1> SUFFICES ASSUME Init PROVE PlacesInv
  OBVIOUS
<1>1. LInv
  BY InitLInv
<1>2. /\ pc = "idle" /\ buffer_tree = {} /\ buffer_hidden = {} /\ points = <<>>
      /\ \A n \in Trees : static_trees[n] = {} /\ points_to_move[n] = {}
  BY DEF Init, NoErase, NoTrees
<1>3. \A k \in Moves : Ungathered(k) = {} /\ cur_items[k] = {}
  BY <1>1, <1>2, NoMoves
<1>4. \A q \in Places : Held(q) = {}
  BY <1>2, <1>3, HeldIs, PlacesAre DEF HeldFacts
<1>5. EachPointOnce
  BY <1>4 DEF EachPointOnce
<1>6. IsInjective(points)
  BY <1>2 DEF IsInjective
<1> QED
  BY <1>2, <1>5, <1>6 DEF PlacesInv

\* A step outside a rebuild that moves no point
LEMMA PlacesStand ==
  ASSUME LInv, LInv', EachPointOnce, pc # "rebuild", pc' # "rebuild",
         UNCHANGED <<bufferVars, static_trees, points_to_move>>,
         Held(BatchPlace)' \subseteq Held(BatchPlace)
  PROVE  EachPointOnce' /\ Stored' = Stored
<1>1. \A k \in Moves : cur_items'[k] \subseteq cur_items[k] /\ Ungathered(k)' \subseteq Ungathered(k)
  BY NoMoves, NoMovesNext
<1>2. EachPointOnce'
  BY <1>1, HeldShrinks DEF bufferVars
<1> QED
  BY <1>2 DEF Stored, bufferVars

LEMMA InsertBeginPlaces ==
  ASSUME LInv, LInv', PlacesInv, NEW batch \in InsertBatches, InsertBegin(batch)
  PROVE  PlacesInv'
<1>1. /\ pc = "idle" /\ pc' = "plan" /\ op' = "insert" /\ points' = batch
      /\ Range(batch) \cap Contents = {}
      /\ UNCHANGED <<bufferVars, static_trees, points_to_move, to_erase>>
  BY DEF InsertBegin, CallerGoesOn, storeVars, eraseVars
<1>2. Held(BatchPlace)' = {}
  BY <1>1, HeldNext DEF HeldFacts
<1>3. EachPointOnce' /\ Stored' = Stored
  BY <1>1, <1>2, PlacesStand DEF PlacesInv
<1>4. Contents = Stored
  BY <1>1, ContentsIs DEF ContentsFacts, LInv, PcInv, NoErase
<1>5. IsInjective(points')
  BY <1>1, BatchesAssumption
<1> QED
  BY <1>1, <1>3, <1>4, <1>5 DEF PlacesInv, IsInjective

LEMMA PlanStepPlaces ==
  ASSUME LInv, LInv', PlacesInv, PlanStep
  PROVE  PlacesInv'
<1>1. /\ pc = "plan" /\ pc' = "plan" /\ points' = points /\ op' = op
      /\ UNCHANGED <<bufferVars, static_trees, points_to_move>>
  BY DEF PlanStep, storeVars, eraseVars
<1>2. Held(BatchPlace)' = Held(BatchPlace)
  BY <1>1, HeldIs, HeldNext DEF HeldFacts
<1>3. EachPointOnce' /\ Stored' = Stored
  BY <1>1, <1>2, PlacesStand DEF PlacesInv
<1> QED
  BY <1>1, <1>3 DEF PlacesInv, IsInjective

\* The steps after which nothing is planned or rebuilt
LEMMA PlacesAtRest ==
  ASSUME LInv, LInv', PlacesInv, pc # "rebuild", pc' \notin {"plan", "rebuild"},
         points' = <<>>, UNCHANGED <<bufferVars, static_trees, points_to_move>>
  PROVE  PlacesInv'
<1>1. Held(BatchPlace)' = {}
  BY HeldNext DEF HeldFacts
<1>2. EachPointOnce'
  BY <1>1, PlacesStand DEF PlacesInv
<1> QED
  BY <1>2 DEF PlacesInv, IsInjective

LEMMA InsertThrowsPlaces ==
  ASSUME LInv, LInv', PlacesInv, InsertThrows
  PROVE  PlacesInv'
BY PlacesAtRest DEF InsertThrows, storeVars, eraseVars

LEMMA EraseStepsPlaces ==
  ASSUME LInv, LInv', PlacesInv,
         \/ \E batch \in EraseBatches : EraseBegin(batch)
         \/ EndPhase1 \/ ScanTree \/ EndScan
  PROVE  PlacesInv'
<1>1. /\ pc # "rebuild" /\ pc' \notin {"plan", "rebuild"} /\ points' = points
      /\ UNCHANGED <<bufferVars, static_trees, points_to_move>>
  BY DEF EraseBegin, EndPhase1, ScanTree, EndScan, CallerGoesOn, storeVars, eraseVars
<1>2. points' = <<>>
  BY <1>1 DEF LInv, PcInv
<1> QED
  BY <1>1, <1>2, PlacesAtRest

LEMMA EraseFromTreePlaces ==
  ASSUME LInv, LInv', PlacesInv, NEW id \in TreeIds, EraseFromTree(id)
  PROVE  PlacesInv'
<1>1. /\ pc = "erase" /\ pc' = "erase" /\ buffer_tree' \subseteq buffer_tree
      /\ UNCHANGED <<buffer_hidden, points, points_to_move>>
  BY DEF EraseFromTree
<1>2. \A n \in Trees : static_trees'[n] \subseteq static_trees[n]
  BY DEF EraseFromTree, LInv, TypeOK
<1>3. \A k \in Moves : cur_items'[k] \subseteq cur_items[k] /\ Ungathered(k)' \subseteq Ungathered(k)
  BY <1>1, NoMoves, NoMovesNext
<1>4. Held(BatchPlace)' = {}
  BY <1>1, HeldNext DEF HeldFacts
<1>5. EachPointOnce'
  BY <1>1, <1>2, <1>3, <1>4, HeldShrinks DEF PlacesInv
<1> QED
  BY <1>1, <1>5 DEF PlacesInv, IsInjective

\* Points X go from place p into place b; no other place gains any.
LEMMA MovedInto ==
  ASSUME EachPointOnce, NEW p \in Places, NEW b \in Places, p # b, NEW X,
         X \subseteq Held(p), Held(p)' \subseteq Held(p) \ X,
         Held(b)' \subseteq Held(b) \cup X,
         \A q \in Places : q # p /\ q # b => Held(q)' \subseteq Held(q)
  PROVE  EachPointOnce'
<1>1. ASSUME NEW q \in Places \ {b}
      PROVE  Held(q)' \subseteq Held(q) /\ Held(q)' \cap X = {}
  <2>1. CASE q = p
    BY <2>1
  <2>2. CASE q # p
    <3>1. Held(q) \cap Held(p) = {} /\ Held(q)' \subseteq Held(q)
      BY <1>1, <2>2 DEF EachPointOnce
    <3> QED
      BY <3>1
  <2> QED
    BY <2>1, <2>2
<1>2. {b} \in SUBSET Places
  OBVIOUS
<1>3. \A c, d \in {b} : c # d => Held(c)' \cap Held(d)' = {}
  OBVIOUS
<1>4. \A c \in {b} : Held(c)' \subseteq Held(c) \cup X
  OBVIOUS
<1> QED
  BY <1>1, <1>2, <1>3, <1>4, MovedOnce

\* The rebuild looks at the same batch and the same buffer points throughout.
LEMMA RebuildPlaces ==
  ASSUME PlacesInv, pc = "rebuild", pc' = "rebuild",
         UNCHANGED <<points, buffer_points>>, EachPointOnce'
  PROVE  PlacesInv'
BY DEF PlacesInv, IsInjective

USE DEF bufferVars, storeVars, planVars, rebuildVars, eraseVars

LEMMA FillBufferPlaces ==
  ASSUME LInv, PlacesInv, FillBuffer
  PROVE  PlacesInv'
<1> DEFINE new == Elements(0, remainder)
<1>1. /\ pc = "rebuild" /\ pc' = "rebuild" /\ ~filled /\ filled' = TRUE /\ InsertIntoBuffer(new)
      /\ buffer_hidden = {}
      /\ UNCHANGED <<static_trees, points, planVars, buffer_points, todo, cur_items,
                     points_to_move>>
  BY DEF FillBuffer, LInv, PcInv
<1>2. Held(BatchPlace) = new /\ Held(BatchPlace)' = {}
  BY <1>1, HeldIs, HeldNext DEF HeldFacts
<1> HIDE DEF new
<1>3. \A k \in Moves : Ungathered(k)' = Ungathered(k)
  BY <1>1 DEF Ungathered, Elements
<1>4. /\ buffer_tree' \subseteq buffer_tree \cup new
      /\ buffer_hidden' \subseteq buffer_hidden \cup new
      /\ buffer_tree' \cap buffer_hidden' = {}
  BY <1>1 DEF InsertIntoBuffer
<1> DEFINE B == {BufferPlace, HiddenPlace}
<1>5. B \in SUBSET Places
  BY PlacesAre
<1>6. \A c \in B : Held(c)' \subseteq Held(c) \cup new
  BY <1>4, HeldIs, HeldNext DEF HeldFacts
<1>7. \A c, d \in B : c # d => Held(c)' \cap Held(d)' = {}
  BY <1>4, HeldNext DEF HeldFacts
<1>8. ASSUME NEW q \in Places \ B
      PROVE  Held(q)' \subseteq Held(q) /\ Held(q)' \cap new = {}
  <2>1. CASE q = BatchPlace
    BY <1>2, <2>1
  <2>2. CASE q # BatchPlace
    <3>1. Held(q) \cap new = {}
      BY <1>2, <1>8, <2>2, PlacesAre DEF PlacesInv, EachPointOnce
    <3>2. Held(q)' = Held(q)
      <4>1. CASE \E n \in Trees : q = <<"static", n>> \/ q = <<"moved", n>>
        <5>1. PICK n \in Trees : q = <<"static", n>> \/ q = <<"moved", n>>
          BY <4>1
        <5>2. /\ Held(<<"static", n>>)' = Held(<<"static", n>>)
              /\ Held(<<"moved", n>>)' = Held(<<"moved", n>>)
          BY <1>1, HeldIs, HeldNext DEF HeldFacts
        <5> QED
          BY <5>1, <5>2
      <4>2. CASE \E k \in Moves : q = <<"gathered", k>> \/ q = <<"ungathered", k>>
        <5>1. PICK k \in Moves : q = <<"gathered", k>> \/ q = <<"ungathered", k>>
          BY <4>2
        <5>2. /\ Held(<<"gathered", k>>)' = Held(<<"gathered", k>>)
              /\ Held(<<"ungathered", k>>)' = Held(<<"ungathered", k>>)
          BY <1>1, <1>3, HeldIs, HeldNext DEF HeldFacts
        <5> QED
          BY <5>1, <5>2
      <4> QED
        BY <1>8, <2>2, <4>1, <4>2, PlacesAre
    <3> QED
      BY <3>1, <3>2
  <2> QED
    BY <2>1, <2>2
<1> HIDE DEF B
<1>9. EachPointOnce'
  BY <1>5, <1>6, <1>7, <1>8, MovedOnce DEF PlacesInv
<1> QED
  BY <1>1, <1>9, RebuildPlaces

LEMMA StartMovePlaces ==
  ASSUME LInv, PlacesInv, NEW k \in Moves, StartMove(k)
  PROVE  PlacesInv'
<1>1. /\ pc = "rebuild" /\ pc' = "rebuild"
      /\ UNCHANGED <<storeVars, points, planVars, buffer_points, filled, todo, cur_items,
                     points_to_move>>
  BY DEF StartMove
<1>2. \A l \in Moves : Ungathered(l)' = Ungathered(l)
  BY <1>1 DEF Ungathered, Elements
<1>3. Held(BatchPlace)' = Held(BatchPlace)
  BY <1>1, HeldIs, HeldNext DEF HeldFacts, Elements
<1>4. EachPointOnce'
  BY <1>1, <1>2, <1>3, HeldShrinks DEF PlacesInv
<1> QED
  BY <1>1, <1>4, RebuildPlaces

\* The places outside B gain nothing, variable by variable.
LEMMA OthersShrink ==
  ASSUME NEW B,
         BufferPlace \notin B => buffer_tree' \subseteq buffer_tree,
         HiddenPlace \notin B => buffer_hidden' \subseteq buffer_hidden,
         BatchPlace \notin B => Held(BatchPlace)' \subseteq Held(BatchPlace),
         \A n \in Trees :
           /\ <<"static", n>> \notin B => static_trees'[n] \subseteq static_trees[n]
           /\ <<"moved", n>> \notin B => points_to_move'[n] \subseteq points_to_move[n],
         \A k \in Moves :
           /\ <<"gathered", k>> \notin B => cur_items'[k] \subseteq cur_items[k]
           /\ <<"ungathered", k>> \notin B => Ungathered(k)' \subseteq Ungathered(k)
  PROVE  \A q \in Places \ B : Held(q)' \subseteq Held(q)
<1> SUFFICES ASSUME NEW q \in Places \ B  PROVE Held(q)' \subseteq Held(q)
  OBVIOUS
<1>1. CASE q \in {BufferPlace, HiddenPlace, BatchPlace}
  BY <1>1, HeldIs, HeldNext DEF HeldFacts
<1>2. CASE \E n \in Trees : q = <<"static", n>> \/ q = <<"moved", n>>
  <2>1. PICK n \in Trees : q = <<"static", n>> \/ q = <<"moved", n>>
    BY <1>2
  <2>2. <<"static", n>> \notin B => Held(<<"static", n>>)' \subseteq Held(<<"static", n>>)
    BY HeldIs, HeldNext DEF HeldFacts
  <2>3. <<"moved", n>> \notin B => Held(<<"moved", n>>)' \subseteq Held(<<"moved", n>>)
    BY HeldIs, HeldNext DEF HeldFacts
  <2> QED
    BY <2>1, <2>2, <2>3
<1>3. CASE \E k \in Moves : q = <<"gathered", k>> \/ q = <<"ungathered", k>>
  <2>1. PICK k \in Moves : q = <<"gathered", k>> \/ q = <<"ungathered", k>>
    BY <1>3
  <2>2. <<"gathered", k>> \notin B => Held(<<"gathered", k>>)' \subseteq Held(<<"gathered", k>>)
    BY HeldIs, HeldNext DEF HeldFacts
  <2>3. <<"ungathered", k>> \notin B
          => Held(<<"ungathered", k>>)' \subseteq Held(<<"ungathered", k>>)
    BY HeldIs, HeldNext DEF HeldFacts
  <2> QED
    BY <2>1, <2>2, <2>3
<1> QED
  BY <1>1, <1>2, <1>3, PlacesAre

LEMMA BuildTreePlaces ==
  ASSUME LInv, PlacesInv, NEW k \in Moves, BuildTree(k)
  PROVE  PlacesInv'
<1>1. /\ pc = "rebuild" /\ pc' = "rebuild" /\ task[k] = "gathering"
      /\ static_trees' = [static_trees EXCEPT ![moves[k].new_tree] = cur_items[k]]
      /\ cur_items' = [cur_items EXCEPT ![k] = {}]
      /\ UNCHANGED <<bufferVars, points, planVars, buffer_points, filled, todo,
                     points_to_move>>
  BY DEF BuildTree
<1>2. PICK t \in Trees : t = moves[k].new_tree
  <2>1. k \in DOMAIN moves /\ plan_pc = "done" /\ Plan!MovesMatchMasks
    BY <1>1 DEF LInv, RebuildInv, TasksInv
  <2> QED
    BY <2>1, MovesAre
<1> DEFINE p == <<"gathered", k>>
           b == <<"static", t>>
<1>3. /\ \A n \in Trees : n # t => static_trees'[n] = static_trees[n]
      /\ \A l \in Moves : l # k => cur_items'[l] = cur_items[l]
      /\ cur_items'[k] = {} /\ static_trees'[t] = cur_items[k]
  BY <1>1, <1>2 DEF LInv, TypeOK
<1>4. \A l \in Moves : Ungathered(l)' = Ungathered(l)
  BY <1>1 DEF Ungathered, Elements
<1>5. Held(BatchPlace)' = Held(BatchPlace)
  BY <1>1, HeldIs, HeldNext DEF HeldFacts, Elements
<1>6. \A q \in Places \ {p, b} : Held(q)' \subseteq Held(q)
  <2>1. \A n \in Trees : <<"static", n>> \notin {p, b} => static_trees'[n] \subseteq static_trees[n]
    BY <1>3
  <2>2. \A l \in Moves : cur_items'[l] \subseteq cur_items[l]
    BY <1>3
  <2> HIDE DEF p, b
  <2> QED
    BY <1>1, <1>4, <1>5, <2>1, <2>2, OthersShrink
<1>7. p \in Places /\ b \in Places /\ p # b
  BY PlacesAre, PlacesDiffer
<1>8. Held(p) = cur_items[k] /\ Held(p)' = {} /\ Held(b)' = cur_items[k]
  BY <1>3, HeldIs, HeldNext DEF HeldFacts
<1> HIDE DEF p, b
<1>9. EachPointOnce'
  BY <1>6, <1>7, <1>8, MovedInto DEF PlacesInv
<1> QED
  BY <1>1, <1>9, RebuildPlaces

LEMMA EmptyTreePlaces ==
  ASSUME LInv, LInv', PlacesInv, NEW n \in Trees, EmptyTree(n)
  PROVE  PlacesInv'
<1> DEFINE p == <<"static", n>>
           b == <<"moved", n>>
<1>1. /\ pc = "empty" /\ pc' = "empty"
      /\ points_to_move' = [points_to_move EXCEPT ![n] = static_trees[n]]
      /\ static_trees' = [static_trees EXCEPT ![n] = {}]
      /\ UNCHANGED <<bufferVars, points, op>>
  BY DEF EmptyTree
<1>2. /\ static_trees \in [Trees -> SUBSET Points]
      /\ points_to_move \in [Trees -> SUBSET Points]
  BY DEF LInv, TypeOK
<1>3. /\ \A m \in Trees : m # n => /\ static_trees'[m] = static_trees[m]
                                   /\ points_to_move'[m] = points_to_move[m]
      /\ static_trees'[n] = {} /\ points_to_move'[n] = static_trees[n]
  BY <1>1, <1>2
<1>4. \A k \in Moves : cur_items'[k] \subseteq cur_items[k] /\ Ungathered(k)' \subseteq Ungathered(k)
  BY <1>1, NoMoves, NoMovesNext
<1>5. Held(BatchPlace)' = {}
  BY <1>1, HeldNext DEF HeldFacts
<1>6. \A q \in Places \ {p, b} : Held(q)' \subseteq Held(q)
  <2>1. buffer_tree' \subseteq buffer_tree /\ buffer_hidden' \subseteq buffer_hidden
        /\ Held(BatchPlace)' \subseteq Held(BatchPlace)
    BY <1>1, <1>5
  <2>2. \A m \in Trees :
          /\ <<"static", m>> \notin {p, b} => static_trees'[m] \subseteq static_trees[m]
          /\ <<"moved", m>> \notin {p, b} => points_to_move'[m] \subseteq points_to_move[m]
    BY <1>3
  <2>3. PICK B : B = {p, b}
    OBVIOUS
  <2> HIDE DEF p, b
  <2> QED
    BY <1>4, <2>1, <2>2, <2>3, OthersShrink
<1>7. p \in Places /\ b \in Places /\ p # b
  BY PlacesAre, PlacesDiffer
<1>8. Held(p) = static_trees[n] /\ Held(p)' = {} /\ Held(b)' = static_trees[n]
  BY <1>3, HeldIs, HeldNext DEF HeldFacts
<1> HIDE DEF p, b
<1>9. EachPointOnce'
  BY <1>6, <1>7, <1>8, MovedInto DEF PlacesInv
<1> QED
  BY <1>1, <1>9 DEF PlacesInv, IsInjective

LEMMA EndRebuildPlaces ==
  ASSUME LInv, LInv', PlacesInv, EndRebuild
  PROVE  PlacesInv'
<1>1. /\ pc' = "idle" /\ points' = <<>>
      /\ UNCHANGED <<bufferVars, static_trees, points_to_move>>
  BY DEF EndRebuild
<1>2. \A k \in Moves : cur_items'[k] \subseteq cur_items[k] /\ Ungathered(k)' \subseteq Ungathered(k)
  BY <1>1, NoMovesNext
<1>3. Held(BatchPlace)' = {}
  BY <1>1, HeldNext DEF HeldFacts
<1>4. EachPointOnce'
  BY <1>1, <1>2, <1>3, HeldShrinks DEF PlacesInv
<1> QED
  BY <1>1, <1>4 DEF PlacesInv, IsInjective

\* A slice has none of the points that were in the buffer tree.
LEMMA SliceApart ==
  ASSUME LInv, PlacesInv, pc = "rebuild", NEW k \in DOMAIN moves
  PROVE  Elements(moves[k].points_start, moves[k].points_end) \cap buffer_points = {}
<1>1. moves[k].points_start..(moves[k].points_end - 1) \subseteq remainder..(Len(points) - 1)
  BY DEF LInv, RebuildInv, Plan!SlicesPartitionBatch, Plan!Indices
<1>2. \A x \in remainder..(Len(points) - 1) : x + 1 \in DOMAIN points
  BY DEF LInv, TypeOK, Plan!TypeOK
<1>3. Elements(moves[k].points_start, moves[k].points_end) \subseteq Range(points)
  BY <1>1, <1>2 DEF Elements, Range
<1> QED
  BY <1>3 DEF PlacesInv

LEMMA GatherPartPlaces ==
  ASSUME LInv, PlacesInv, NEW k \in Moves, NEW part \in Parts, GatherPart(k, part)
  PROVE  PlacesInv'
<1> DEFINE b == <<"gathered", k>>
           u == <<"ungathered", k>>
           slice == Elements(moves[k].points_start, moves[k].points_end)
<1>1. /\ pc = "rebuild" /\ pc' = "rebuild" /\ task[k] = "gathering" /\ part \in todo[k]
      /\ todo' = [todo EXCEPT ![k] = @ \ {part}]
      /\ UNCHANGED <<bufferVars, points, planVars, buffer_points, filled, points_to_move>>
  BY DEF GatherPart
<1>2. /\ todo \in [Moves -> SUBSET Parts] /\ cur_items \in [Moves -> SUBSET Points]
      /\ static_trees \in [Trees -> SUBSET Points]
  BY DEF LInv, TypeOK
<1>3. k \in DOMAIN moves
  BY <1>1 DEF LInv, RebuildInv, TasksInv
<1>4. Held(BatchPlace)' = Held(BatchPlace)
  BY <1>1, HeldIs, HeldNext DEF HeldFacts, Elements
<1>5. slice' = slice /\ slice \cap buffer_points = {}
  BY <1>1, <1>3, SliceApart DEF Elements
<1> HIDE DEF slice
<1>6. /\ \A l \in Moves : l # k => todo'[l] = todo[l]
      /\ todo'[k] = todo[k] \ {part}
  BY <1>1, <1>2
<1>7. /\ Ungathered(k) = (IF Slice \in todo[k] THEN slice ELSE {})
                         \cup (IF BUFFER_TREE_IDX \in todo[k] THEN buffer_points ELSE {})
      /\ Ungathered(k)' = (IF Slice \in todo[k] \ {part} THEN slice ELSE {})
                          \cup (IF BUFFER_TREE_IDX \in todo[k] \ {part} THEN buffer_points
                                ELSE {})
  <2>1. /\ Ungathered(k) = (IF Slice \in todo[k] THEN slice ELSE {})
                           \cup (IF BUFFER_TREE_IDX \in todo[k] THEN buffer_points ELSE {})
        /\ Ungathered(k)' = (IF Slice \in todo'[k] THEN slice' ELSE {})
                            \cup (IF BUFFER_TREE_IDX \in todo'[k] THEN buffer_points' ELSE {})
    BY DEF Ungathered, slice
  <2> QED
    BY <1>1, <1>5, <1>6, <2>1
<1>8. \A l \in Moves : l # k => Ungathered(l)' = Ungathered(l)
  BY <1>1, <1>6 DEF Ungathered, Elements
<1>9. u \in Places /\ b \in Places /\ u # b
  BY PlacesAre, PlacesDiffer
<1>10. /\ Held(u) = Ungathered(k) /\ Held(u)' = Ungathered(k)'
       /\ Held(b) = cur_items[k] /\ Held(b)' = cur_items'[k]
  BY HeldIs, HeldNext DEF HeldFacts
<1>11. CASE part \in Trees
  <2> DEFINE p == <<"static", part>>
  <2>1. part # Slice /\ part # BUFFER_TREE_IDX
    BY <1>11, TreesAre DEF Slice, BUFFER_TREE_IDX
  <2>2. /\ cur_items' = [cur_items EXCEPT ![k] = @ \cup static_trees[part]]
        /\ static_trees' = [static_trees EXCEPT ![part] = {}]
    BY <1>11, <2>1 DEF GatherPart
  <2>3. /\ \A l \in Moves : l # k => cur_items'[l] = cur_items[l]
        /\ cur_items'[k] = cur_items[k] \cup static_trees[part]
        /\ \A n \in Trees : n # part => static_trees'[n] = static_trees[n]
        /\ static_trees'[part] = {}
    BY <1>2, <1>11, <2>2
  <2>4. \A l \in Moves : Ungathered(l)' = Ungathered(l)
    BY <1>7, <1>8, <2>1
  <2>5. \A q \in Places \ {p, b} : Held(q)' \subseteq Held(q)
    BY <1>1, <1>4, <2>3, <2>4, OthersShrink
  <2>6. p \in Places /\ p # b
    BY <1>11, PlacesAre, PlacesDiffer
  <2>7. Held(p) = static_trees[part] /\ Held(p)' = {}
    BY <1>11, <2>3, HeldIs, HeldNext DEF HeldFacts
  <2> HIDE DEF p, b, u
  <2>8. EachPointOnce'
    BY <1>9, <1>10, <2>3, <2>5, <2>6, <2>7, MovedInto DEF PlacesInv
  <2> QED
    BY <1>1, <2>8, RebuildPlaces
<1>12. CASE part \notin Trees
  <2> DEFINE X == IF part = Slice THEN slice ELSE buffer_points
  <2>1. part \in {Slice, BUFFER_TREE_IDX} /\ Slice # BUFFER_TREE_IDX
    BY <1>12 DEF Parts, TreeIds, Slice, BUFFER_TREE_IDX
  <2>2. cur_items' = [cur_items EXCEPT ![k] = @ \cup X] /\ static_trees' = static_trees
    BY <1>12, <2>1 DEF GatherPart, slice
  <2> HIDE DEF X
  <2>3. /\ \A l \in Moves : l # k => cur_items'[l] = cur_items[l]
        /\ cur_items'[k] = cur_items[k] \cup X
    BY <1>2, <2>2
  <2>4. X \subseteq Ungathered(k) /\ Ungathered(k)' \subseteq Ungathered(k) \ X
    BY <1>1, <1>5, <1>7, <2>1 DEF X
  <2>5. \A q \in Places \ {u, b} : Held(q)' \subseteq Held(q)
    BY <1>1, <1>4, <1>8, <2>2, <2>3, OthersShrink
  <2> HIDE DEF b, u
  <2>6. EachPointOnce'
    BY <1>9, <1>10, <2>3, <2>4, <2>5, MovedInto DEF PlacesInv
  <2> QED
    BY <1>1, <2>6, RebuildPlaces
<1> QED
  BY <1>11, <1>12

\* Two parts of the batch that share no index share no point.
LEMMA ElementsApart ==
  ASSUME IsInjective(points), NEW a, NEW b, NEW c, NEW d,
         \A x \in a..(b - 1) : x \in Int /\ x + 1 \in DOMAIN points,
         \A x \in c..(d - 1) : x \in Int /\ x + 1 \in DOMAIN points,
         (a..(b - 1)) \cap (c..(d - 1)) = {}
  PROVE  Elements(a, b) \cap Elements(c, d) = {}
<1> SUFFICES ASSUME NEW x \in a..(b - 1), NEW y \in c..(d - 1), points[x + 1] = points[y + 1]
             PROVE  FALSE
  BY DEF Elements
<1>1. x + 1 = y + 1
  BY DEF IsInjective
<1>2. x = y
  BY <1>1
<1> QED
  BY <1>2

LEMMA BeginRebuildPlaces ==
  ASSUME LInv, LInv', PlacesInv, BeginRebuild
  PROVE  PlacesInv'
<1> DEFINE slice(k) == Elements(moves[k].points_start, moves[k].points_end)
           taken == IF have_used_buffer THEN buffer_tree ELSE {}
           placed == Elements(0, remainder)
           X == Range(points) \cup taken
<1>1. /\ pc = "plan" /\ plan_pc = "done" /\ pc' = "rebuild"
      /\ filled = FALSE /\ cur_items = [k \in Moves |-> {}]
      /\ points_to_move = NoTrees
      /\ UNCHANGED <<static_trees, buffer_hidden, points, planVars, filled, cur_items,
                     points_to_move>>
  BY DEF BeginRebuild, LInv, PcInv, NoRebuild, NoErase
<1>2. /\ PlanFacts /\ Plan!MovesMatchMasks /\ Plan!SlicesPartitionBatch
      /\ remainder <= Len(points) /\ remainder \in Nat
      /\ moves \in Seq(Plan!Move) /\ points \in Seq(Points)
  BY <1>1, PlanShows DEF LInv, TypeOK, PlanInv, PlanFacts, Plan!TypeOK
<1>3. DOMAIN moves \subseteq Moves
  BY <1>1, <1>2, MovesAreFew
<1>4. Range(points) = placed \cup UNION {slice(k) : k \in DOMAIN moves}
  BY <1>1, <1>2, BatchIsTaken
<1>5. /\ buffer_points' = taken /\ buffer_tree' = IF have_used_buffer THEN {} ELSE buffer_tree
      /\ \A k \in Moves :
           todo'[k] = IF k \in DOMAIN moves
                        THEN moves[k].trees \cup {Slice}
                             \cup (IF moves[k].uses_buffer THEN {BUFFER_TREE_IDX} ELSE {})
                        ELSE {}
  BY DEF BeginRebuild
<1>6. \A k \in Moves :
        Ungathered(k)' = IF k \in DOMAIN moves
                           THEN slice(k) \cup (IF moves[k].uses_buffer THEN taken ELSE {})
                           ELSE {}
  <2> TAKE k \in Moves
  <2>1. CASE k \notin DOMAIN moves
    BY <1>5, <2>1 DEF Ungathered
  <2>2. CASE k \in DOMAIN moves
    <3>1. moves[k].trees \subseteq Nat
      BY <1>1, <1>2, <2>2, MovesAre, TreesAre
    <3>2. /\ Slice \in todo'[k]
          /\ BUFFER_TREE_IDX \in todo'[k] <=> moves[k].uses_buffer
      <4>1. BUFFER_TREE_IDX \notin moves[k].trees /\ Slice # BUFFER_TREE_IDX
        BY <3>1 DEF Slice, BUFFER_TREE_IDX
      <4>2. todo'[k] = moves[k].trees \cup {Slice}
                       \cup (IF moves[k].uses_buffer THEN {BUFFER_TREE_IDX} ELSE {})
        BY <1>5, <2>2
      <4>3. CASE moves[k].uses_buffer
        BY <4>2, <4>3
      <4>4. CASE ~moves[k].uses_buffer
        BY <4>1, <4>2, <4>4
      <4> QED
        BY <4>3, <4>4
    <3>3. Elements(moves[k].points_start, moves[k].points_end)' = slice(k)
      BY <1>1 DEF Elements
    <3> QED
      BY <1>1, <1>5, <2>2, <3>2, <3>3 DEF Ungathered
  <2> QED
    BY <2>1, <2>2
<1>7. Held(BatchPlace)' = placed
  BY <1>1, HeldNext DEF HeldFacts, Elements
<1>8. IsInjective(points) /\ Range(points) \cap Stored = {} /\ EachPointOnce
  BY <1>1 DEF PlacesInv
<1>9. DOMAIN points = 1..Len(points) /\ Len(points) \in Nat
  BY <1>2
<1>10. /\ \A x \in 0..(remainder - 1) : x \in Int /\ x + 1 \in DOMAIN points
       /\ \A k \in DOMAIN moves : \A x \in moves[k].points_start..(moves[k].points_end - 1) :
            x \in Int /\ x + 1 \in DOMAIN points /\ x \notin 0..(remainder - 1)
  <2>1. \A k \in DOMAIN moves :
          moves[k].points_start..(moves[k].points_end - 1) \subseteq remainder..(Len(points) - 1)
    BY <1>1, <1>2 DEF Plan!SlicesPartitionBatch, Plan!Indices
  <2>2. \A x \in remainder..(Len(points) - 1) :
          x \in Int /\ x + 1 \in DOMAIN points /\ x \notin 0..(remainder - 1)
    BY <1>2, <1>9
  <2>3. \A x \in 0..(remainder - 1) : x \in Int /\ x + 1 \in DOMAIN points
    BY <1>2, <1>9
  <2> QED
    BY <2>1, <2>2, <2>3
<1>11. \A k \in DOMAIN moves : placed \cap slice(k) = {}
  <2> TAKE k \in DOMAIN moves
  <2>1. (0..(remainder - 1)) \cap (moves[k].points_start..(moves[k].points_end - 1)) = {}
    BY <1>10
  <2> QED
    BY <1>8, <1>10, <2>1, ElementsApart
<1>12. \A k, l \in DOMAIN moves : k # l => slice(k) \cap slice(l) = {}
  <2> SUFFICES ASSUME NEW k \in DOMAIN moves, NEW l \in DOMAIN moves, k # l
               PROVE  slice(k) \cap slice(l) = {}
    OBVIOUS
  <2>1. (moves[k].points_start..(moves[k].points_end - 1))
          \cap (moves[l].points_start..(moves[l].points_end - 1)) = {}
    BY <1>1, <1>2 DEF Plan!SlicesPartitionBatch, Plan!Indices
  <2> QED
    BY <1>8, <1>10, <2>1, ElementsApart
<1> HIDE DEF slice, placed
<1>13. \A k \in DOMAIN moves : slice(k) \subseteq Range(points)
  BY <1>4
<1>14. placed \subseteq Range(points)
  BY <1>4
<1>15. taken \subseteq buffer_tree /\ Range(points) \cap taken = {}
  BY <1>8, HeldIn
<1> HIDE DEF taken
<1>16. \A k, l \in Moves : k # l => Ungathered(k)' \cap Ungathered(l)' = {}
  <2> SUFFICES ASSUME NEW k \in Moves, NEW l \in Moves, k # l,
                      k \in DOMAIN moves, l \in DOMAIN moves
               PROVE  Ungathered(k)' \cap Ungathered(l)' = {}
    BY <1>6
  <2>1. ~(moves[k].uses_buffer /\ moves[l].uses_buffer)
    BY <1>2 DEF PlanFacts
  <2>2. slice(k) \cap slice(l) = {}
    BY <1>12
  <2>3. slice(k) \cap taken = {} /\ slice(l) \cap taken = {}
    BY <1>13, <1>15
  <2> QED
    BY <1>6, <2>1, <2>2, <2>3
<1>17. \A k \in Moves : placed \cap Ungathered(k)' = {} /\ Ungathered(k)' \subseteq X
  BY <1>6, <1>11, <1>13, <1>14, <1>15
<1> DEFINE B == {BatchPlace} \cup {<<"ungathered", k>> : k \in Moves}
<1>18. B \in SUBSET Places
  BY PlacesAre
<1>19. \A k \in Moves : Held(<<"ungathered", k>>)' = Ungathered(k)'
  BY HeldNext DEF HeldFacts
<1>20. \A c \in B : Held(c)' \subseteq Held(c) \cup X
  <2> SUFFICES ASSUME NEW c \in B  PROVE Held(c)' \subseteq X
    OBVIOUS
  <2>1. CASE c = BatchPlace
    BY <1>7, <1>14, <2>1
  <2>2. CASE \E k \in Moves : c = <<"ungathered", k>>
    <3>1. PICK k \in Moves : c = <<"ungathered", k>>
      BY <2>2
    <3> QED
      BY <1>17, <1>19, <3>1
  <2> QED
    BY <2>1, <2>2
<1>21. \A c, d \in B : c # d => Held(c)' \cap Held(d)' = {}
  <2> SUFFICES ASSUME NEW c \in B, NEW d \in B, c # d
               PROVE  Held(c)' \cap Held(d)' = {}
    OBVIOUS
  <2>1. CASE c = BatchPlace
    <3>1. PICK k \in Moves : d = <<"ungathered", k>>
      BY <2>1
    <3> QED
      BY <1>7, <1>17, <1>19, <2>1, <3>1
  <2>2. CASE d = BatchPlace
    <3>1. PICK k \in Moves : c = <<"ungathered", k>>
      BY <2>2
    <3> QED
      BY <1>7, <1>17, <1>19, <2>2, <3>1
  <2>3. CASE c # BatchPlace /\ d # BatchPlace
    <3>1. PICK k \in Moves : c = <<"ungathered", k>>
      BY <2>3
    <3>2. PICK l \in Moves : d = <<"ungathered", l>>
      BY <2>3
    <3>3. k # l
      BY <3>1, <3>2
    <3> QED
      BY <1>16, <1>19, <3>1, <3>2, <3>3
  <2> QED
    BY <2>1, <2>2, <2>3
<1>22. \A q \in Places \ B : Held(q)' \subseteq Held(q)
  <2>1. BatchPlace \in B /\ \A k \in Moves : <<"ungathered", k>> \in B
    OBVIOUS
  <2>2. buffer_tree' \subseteq buffer_tree
    BY <1>5
  <2> HIDE DEF B
  <2> QED
    BY <1>1, <2>1, <2>2, OthersShrink
<1>23. ASSUME NEW q \in Places \ B  PROVE Held(q)' \cap X = {}
  <2>1. \/ q = BufferPlace \/ q = HiddenPlace
        \/ \E n \in Trees : q = <<"static", n>> \/ q = <<"moved", n>>
        \/ \E k \in Moves : q = <<"gathered", k>>
    BY <1>23, PlacesAre
  <2>2. CASE q = BufferPlace
    <3>1. Held(q)' = buffer_tree' /\ buffer_tree \subseteq Stored
      BY <2>2, HeldIn, HeldNext DEF HeldFacts
    <3> QED
      BY <1>5, <1>8, <3>1 DEF taken
  <2>3. CASE q = HiddenPlace
    <3>1. Held(q)' = buffer_hidden /\ Held(q) = buffer_hidden /\ buffer_hidden \subseteq Stored
      BY <1>1, <2>3, HeldIs, HeldIn, HeldNext DEF HeldFacts
    <3>2. buffer_tree \cap buffer_hidden = {}
      BY <1>8, PlacesAre, PlacesDiffer, HeldIs DEF EachPointOnce, HeldFacts
    <3> QED
      BY <1>8, <1>15, <3>1, <3>2
  <2>4. ASSUME NEW n \in Trees, q = <<"static", n>>  PROVE Held(q)' \cap X = {}
    <3>1. Held(q)' = static_trees[n] /\ static_trees[n] \subseteq Stored
      BY <1>1, <2>4, HeldIn, HeldNext DEF HeldFacts
    <3>2. Held(<<"static", n>>) = static_trees[n] /\ Held(BufferPlace) = buffer_tree
      BY HeldIs DEF HeldFacts
    <3>3. BufferPlace # <<"static", n>> /\ BufferPlace \in Places /\ <<"static", n>> \in Places
      BY PlacesAre, PlacesDiffer
    <3>4. buffer_tree \cap static_trees[n] = {}
      BY <1>8, <3>2, <3>3 DEF EachPointOnce
    <3> QED
      BY <1>8, <1>15, <3>1, <3>4
  <2>5. ASSUME NEW n \in Trees, q = <<"moved", n>>  PROVE Held(q)' = {}
    BY <1>1, <2>5, HeldNext DEF HeldFacts, NoTrees
  <2>6. ASSUME NEW k \in Moves, q = <<"gathered", k>>  PROVE Held(q)' = {}
    BY <1>1, <2>6, HeldNext DEF HeldFacts
  <2> QED
    BY <2>1, <2>2, <2>3, <2>4, <2>5, <2>6
<1> HIDE DEF B, X
<1>24. EachPointOnce'
  BY <1>8, <1>18, <1>20, <1>21, <1>22, <1>23, MovedOnce
<1>25. Range(points') \cap buffer_points' = {}
  BY <1>1, <1>5, <1>15
<1> QED
  BY <1>1, <1>24, <1>25 DEF PlacesInv, IsInjective

\* The points of the depleted trees come back in some order, each once.
LEMMA ReinsertPlaces ==
  ASSUME LInv, LInv', PlacesInv, Reinsert
  PROVE  PlacesInv'
<1> DEFINE moved == UNION Range(points_to_move)
<1>1. /\ pc = "empty" /\ pc' = "plan" /\ op' = "erase" /\ points' \in Arrangements
      /\ points_to_move' = NoTrees
      /\ UNCHANGED <<bufferVars, static_trees>>
  BY DEF Reinsert, LInv, PcInv
<1>2. points' \in [1..Cardinality(moved) -> moved] /\ Range(points') = moved
  BY <1>1 DEF Arrangements
<1>3. moved = UNION {points_to_move[n] : n \in Trees}
  BY HeldIn
<1>4. moved \subseteq Points /\ Cardinality(moved) \in Nat
  <2>1. \A n \in Trees : points_to_move[n] \subseteq Points
    BY DEF LInv, TypeOK
  <2>2. moved \subseteq Points
    BY <1>3, <2>1
  <2> QED
    BY <2>2, FiniteParts
<1> HIDE DEF moved
<1>5. IsInjective(points')
  <2>1. IsFiniteSet(1..Cardinality(moved)) /\ Cardinality(1..Cardinality(moved)) = Cardinality(moved)
    BY <1>4, FS_Interval
  <2>2. points' \in Surjection(1..Cardinality(moved), moved)
    BY <1>2 DEF Surjection, Range
  <2>3. points' \in Injection(1..Cardinality(moved), moved)
    BY <2>1, <2>2, FS_SurjSameCardinalityImpliesInj
  <2> QED
    BY <2>3 DEF Injection, IsInjective
<1>6. Held(BatchPlace)' = moved
  BY <1>1, <1>2, HeldNext DEF HeldFacts
<1>7. \A n \in Trees : /\ Held(<<"moved", n>>) = points_to_move[n]
                       /\ Held(<<"moved", n>>)' = {}
  BY <1>1, HeldIs, HeldNext DEF HeldFacts, NoTrees
<1>8. \A q \in Places \ {BatchPlace} : Held(q)' \subseteq Held(q)
  <2>1. \A k \in Moves : cur_items'[k] \subseteq cur_items[k] /\ Ungathered(k)' \subseteq Ungathered(k)
    BY <1>1, NoMoves, NoMovesNext
  <2>2. \A n \in Trees : points_to_move'[n] \subseteq points_to_move[n]
    BY <1>1 DEF NoTrees
  <2> QED
    BY <1>1, <2>1, <2>2, OthersShrink
<1>9. ASSUME NEW q \in Places, \A n \in Trees : q # <<"moved", n>>
      PROVE  Held(q) \cap moved = {}
  <2>1. \A n \in Trees : Held(q) \cap points_to_move[n] = {}
    BY <1>7, <1>9, PlacesAre DEF PlacesInv, EachPointOnce
  <2> QED
    BY <1>3, <2>1
<1>10. ASSUME NEW q \in Places \ {BatchPlace}
       PROVE  Held(q)' \subseteq Held(q) /\ Held(q)' \cap moved = {}
  BY <1>7, <1>8, <1>9, <1>10
<1>11. {BatchPlace} \in SUBSET Places
  BY PlacesAre
<1>12. /\ \A c \in {BatchPlace} : Held(c)' \subseteq Held(c) \cup moved
       /\ \A c, d \in {BatchPlace} : c # d => Held(c)' \cap Held(d)' = {}
  BY <1>6
<1>13. EachPointOnce'
  BY <1>10, <1>11, <1>12, MovedOnce DEF PlacesInv
<1>14. moved \cap Stored = {}
  <2>1. moved \cap buffer_tree = {} /\ moved \cap buffer_hidden = {}
    BY <1>9, PlacesAre, PlacesDiffer, HeldIs DEF HeldFacts
  <2>2. ASSUME NEW n \in Trees  PROVE moved \cap static_trees[n] = {}
    <3>1. Held(<<"static", n>>) = static_trees[n] /\ <<"static", n>> \in Places
      BY PlacesAre, HeldIs DEF HeldFacts
    <3>2. \A m \in Trees : <<"static", n>> # <<"moved", m>>
      BY PlacesDiffer
    <3> QED
      BY <1>9, <3>1, <3>2
  <2>3. moved \cap UNION Range(static_trees) = {}
    BY <2>2, HeldIn
  <2> QED
    BY <2>1, <2>3 DEF Stored
<1>15. Range(points') \cap Stored' = {}
  BY <1>1, <1>2, <1>14 DEF Stored
<1> QED
  BY <1>1, <1>5, <1>13, <1>15 DEF PlacesInv, IsInjective

LEMMA StutterPlaces ==
  ASSUME PlacesInv, UNCHANGED vars
  PROVE  PlacesInv'
<1>1. UNCHANGED <<pc, op, storeVars, points, planVars, rebuildVars, eraseVars>>
  BY DEF vars
<1>2. \A k \in Moves : Ungathered(k)' = Ungathered(k)
  BY <1>1 DEF Ungathered, Elements
<1>3. Held(BatchPlace)' = Held(BatchPlace)
  BY <1>1, HeldIs, HeldNext DEF HeldFacts, Elements
<1>4. EachPointOnce'
  BY <1>1, <1>2, <1>3, HeldShrinks DEF PlacesInv
<1> QED
  BY <1>1, <1>4 DEF PlacesInv, IsInjective, Stored

LEMMA NextPlaces ==
  ASSUME LInv, LInv', PlacesInv, [Next]_vars
  PROVE  PlacesInv'
<1>1. CASE Insert
  BY <1>1, InsertBeginPlaces DEF Insert
<1>2. CASE Erase
  BY <1>2, EraseStepsPlaces DEF Erase
<1>3. CASE RunInsert
  BY <1>3, PlanStepPlaces, InsertThrowsPlaces, BeginRebuildPlaces, FillBufferPlaces,
     StartMovePlaces, BuildTreePlaces, GatherPartPlaces, EndRebuildPlaces DEF RunInsert
<1>4. CASE RunErase
  BY <1>4, EraseFromTreePlaces, EraseStepsPlaces, EmptyTreePlaces, ReinsertPlaces
     DEF RunErase
<1>5. CASE UNCHANGED vars
  BY <1>5, StutterPlaces
<1> QED
  BY <1>1, <1>2, <1>3, <1>4, <1>5 DEF Next, Step

LEMMA PlacesInvariance == Spec => [](LInv /\ PlacesInv)
<1>1. Init => LInv /\ PlacesInv
  BY InitLInv, InitPlaces
<1>2. (LInv /\ PlacesInv) /\ [Next]_vars => (LInv /\ PlacesInv)'
  BY NextLInv, NextPlaces
<1> QED
  BY <1>1, <1>2, PTL DEF Spec

(***************************************************************************)
(* No tree, slice, buffer or array that is being filled shares a point     *)
(* with another, whatever the tasks of logtree.h:283-372 and 427-491       *)
(* interleave: a rebuild that runs twice over a point, or takes the        *)
(* buffer's points in two moves, would break it.                           *)
(***************************************************************************)
THEOREM EveryPointOnce == Spec => []EachPointOnce
<1>1. LInv /\ PlacesInv => EachPointOnce
  BY DEF PlacesInv
<1> QED
  BY <1>1, PlacesInvariance, PTL

-----------------------------------------------------------------------------
(* Sizes *)

\* More than half of what tree n is made for, and no more than that
HalfFull(S, n) ==
  Cardinality(S) \in (Plan!NthTreeSize(n) \div 2 + 1)..Plan!NthTreeSize(n)

Nominal == [n \in Trees |-> Plan!NthTreeSize(n)]

SliceSize(k) == moves[k].points_end - moves[k].points_start

\* What the parts that move k has still to gather count for
Left(k) ==
  (IF Slice \in todo[k] THEN SliceSize(k) ELSE 0)
  + (IF BUFFER_TREE_IDX \in todo[k] THEN Cardinality(buffer_points) ELSE 0)
  + SumFunctionOnSet(Nominal, todo[k] \cap Trees)

\* What those it has gathered count for
Gathered(k) == Plan!NthTreeSize(moves[k].new_tree) - Left(k)

\* A set of c points that counts for w
CountsFor(c, w) == c <= w /\ w <= 2 * c /\ (w > 0 => w < 2 * c)

MoveSizes(k) ==
  /\ SliceSize(k) >= 0
  /\ \A n \in todo[k] \cap Trees : HalfFull(static_trees[n], n)
  /\ task[k] = "built" => HalfFull(static_trees[moves[k].new_tree], moves[k].new_tree)
  /\ task[k] # "built" => CountsFor(Cardinality(cur_items[k]), Gathered(k))

SizesInv ==
  /\ pc \in {"idle", "plan", "empty"} =>
       \A n \in Trees : Bit(tree_mask, n) => HalfFull(static_trees[n], n)
  /\ pc \in {"erase", "scan"} =>
       \A n \in Trees :
         Bit(tree_mask, n) => Cardinality(static_trees[n]) <= Plan!NthTreeSize(n)
  /\ pc = "scan" =>
       \A n \in Trees :
         n < scan_i /\ Bit(erase_mask, n) => HalfFull(static_trees[n], n)
  /\ pc = "empty" => \A n \in depleted : ~Bit(tree_mask, n)
  /\ pc = "rebuild" =>
       /\ \A n \in Trees :
            Bit(tree_mask, n) /\ Bit(new_tree_mask, n) => HalfFull(static_trees[n], n)
       /\ \A k \in DOMAIN moves : MoveSizes(k)

LEMMA TreeSizes == \A n \in Trees : Plan!NthTreeSize(n) \in Nat \ {0}
BY Pow2Step, SizesAssumption DEF Plan!NthTreeSize

LEMMA HalfFullIs ==
  ASSUME NEW S \in SUBSET Points, NEW n \in Trees
  PROVE  HalfFull(S, n) <=> /\ Cardinality(S) <= Plan!NthTreeSize(n)
                            /\ Plan!NthTreeSize(n) < 2 * Cardinality(S)
<1> DEFINE c == Cardinality(S)
           z == Plan!NthTreeSize(n)
<1>1. c \in Nat /\ z \in Nat
  BY FiniteParts, TreeSizes
<1> HIDE DEF c, z
<1>2. c \in (z \div 2 + 1)..z <=> c <= z /\ z < 2 * c
  BY <1>1
<1> QED
  BY <1>2 DEF HalfFull, c, z

LEMMA CountsMore ==
  ASSUME NEW c \in Nat, NEW w \in Int, NEW d \in Nat, NEW v \in Int,
         CountsFor(c, w), CountsFor(d, v)
  PROVE  CountsFor(c + d, w + v)
BY DEF CountsFor

LEMMA ElementsSize ==
  ASSUME IsInjective(points), NEW a \in Int, NEW b \in Int, b - a >= 0,
         \A x \in a..(b - 1) : x + 1 \in DOMAIN points
  PROVE  Cardinality(Elements(a, b)) = b - a
<1> DEFINE f == [x \in a..(b - 1) |-> points[x + 1]]
<1>1. f \in Surjection(a..(b - 1), Elements(a, b))
  BY DEF Surjection, Elements
<1>2. f \in Injection(a..(b - 1), Elements(a, b))
  <2>1. ASSUME NEW x \in a..(b - 1), NEW y \in a..(b - 1), points[x + 1] = points[y + 1]
        PROVE  x = y
    <3>1. x + 1 = y + 1
      BY <2>1 DEF IsInjective
    <3> QED
      BY <3>1
  <2>2. f \in [a..(b - 1) -> Elements(a, b)]
    BY DEF Elements
  <2>3. \A x, y \in a..(b - 1) : f[x] = f[y] => x = y
    BY <2>1
  <2> HIDE DEF f
  <2> QED
    BY <2>2, <2>3 DEF Injection, IsInjective
<1>3. IsFiniteSet(a..(b - 1)) /\ Cardinality(a..(b - 1)) = b - a
  BY FS_Interval
<1> HIDE DEF f
<1> QED
  BY <1>1, <1>2, <1>3, FS_Surjection

LEMMA MoveTypes ==
  ASSUME moves \in Seq(Plan!Move), NEW k \in DOMAIN moves
  PROVE  /\ moves[k].points_start \in Int /\ moves[k].points_end \in Int
         /\ moves[k].new_tree \in Trees /\ moves[k].trees \in SUBSET Trees
<1>1. moves[k] \in Plan!Move
  OBVIOUS
<1> QED
  BY <1>1 DEF Plan!Move, Trees

\* The slice of a move has as many points as it has indices.
LEMMA SliceIs ==
  ASSUME LInv, PlacesInv, pc = "rebuild", NEW k \in DOMAIN moves, SliceSize(k) >= 0
  PROVE  /\ SliceSize(k) \in Int
         /\ Cardinality(Elements(moves[k].points_start, moves[k].points_end)) = SliceSize(k)
<1>1. moves[k].points_start..(moves[k].points_end - 1) \subseteq remainder..(Len(points) - 1)
  BY DEF LInv, RebuildInv, Plan!SlicesPartitionBatch, Plan!Indices
<1>2. \A x \in remainder..(Len(points) - 1) : x + 1 \in DOMAIN points
  BY DEF LInv, TypeOK, Plan!TypeOK
<1>3. moves[k].points_start \in Int /\ moves[k].points_end \in Int
  BY MoveTypes DEF LInv, TypeOK, Plan!TypeOK
<1>4. \A x \in moves[k].points_start..(moves[k].points_end - 1) : x + 1 \in DOMAIN points
  BY <1>1, <1>2
<1>5. Cardinality(Elements(moves[k].points_start, moves[k].points_end))
        = moves[k].points_end - moves[k].points_start
  BY <1>3, <1>4, ElementsSize DEF PlacesInv, SliceSize
<1> QED
  BY <1>3, <1>5 DEF SliceSize

\* The parts of a move, and what they count for
LEMMA LeftIs ==
  ASSUME LInv, pc = "rebuild", NEW k \in DOMAIN moves
  PROVE  /\ k \in Moves /\ moves[k].new_tree \in Trees /\ SliceSize(k) \in Int
         /\ Cardinality(buffer_points) \in Nat
         /\ IsFiniteSet(todo[k] \cap Trees)
         /\ \A n \in todo[k] \cap Trees : Nominal[n] \in Int
         /\ SumFunctionOnSet(Nominal, todo[k] \cap Trees) \in Int
         /\ Left(k) \in Int /\ Gathered(k) \in Int
         /\ Cardinality(cur_items[k]) \in Nat
<1>1. /\ k \in Moves /\ moves[k].new_tree \in Trees
      /\ moves[k].points_start \in Int /\ moves[k].points_end \in Int
      /\ buffer_points \in SUBSET Points /\ cur_items[k] \in SUBSET Points
  BY MoveTypes DEF LInv, RebuildInv, TasksInv, TypeOK, Plan!TypeOK
<1>2. IsFiniteSet(todo[k] \cap Trees)
  <2>1. IsFiniteSet(Trees)
    BY TreesAre, SizesAssumption, FS_Interval
  <2>2. todo[k] \cap Trees \subseteq Trees
    OBVIOUS
  <2> QED
    BY <2>1, <2>2, FS_Subset
<1>3. \A n \in todo[k] \cap Trees : Nominal[n] \in Int
  BY TreeSizes DEF Nominal
<1>4. SumFunctionOnSet(Nominal, todo[k] \cap Trees) \in Int
  BY <1>2, <1>3, SumType
<1>5. SliceSize(k) \in Int /\ Cardinality(buffer_points) \in Nat /\ Cardinality(cur_items[k]) \in Nat
  BY <1>1, FiniteParts DEF SliceSize
<1>6. Left(k) \in Int
  BY <1>4, <1>5 DEF Left
<1>7. Gathered(k) \in Int
  BY <1>1, <1>6, TreeSizes DEF Gathered
<1> QED
  BY <1>1, <1>2, <1>3, <1>4, <1>5, <1>6, <1>7

LEMMA InitSizes == Init => SizesInv
<1> SUFFICES ASSUME Init  PROVE SizesInv
  OBVIOUS
<1>1. pc = "idle" /\ tree_mask = 0
  BY DEF Init
<1>2. \A n \in Trees : ~Bit(0, n)
  <2> SUFFICES ASSUME NEW n \in Trees  PROVE ~Bit(0, n)
    OBVIOUS
  <2>1. Pow2[n] \in Nat \ {0}
    BY Pow2Step
  <2>2. 0 \div Pow2[n] = 0
    BY <2>1, DivModIs
  <2> QED
    BY <2>2 DEF Bit, Plan!NthBitSet
<1> QED
  BY <1>1, <1>2 DEF SizesInv

\* The steps between an operation's start and its work on the trees
LEMMA SizesStand ==
  ASSUME SizesInv, pc \in {"idle", "plan"}, pc' \in {"idle", "plan"},
         UNCHANGED <<tree_mask, static_trees>>
  PROVE  SizesInv'
BY DEF SizesInv, HalfFull, Bit, Plan!NthBitSet

LEMMA CallSizes ==
  ASSUME SizesInv,
         (\E batch \in InsertBatches : InsertBegin(batch)) \/ PlanStep \/ InsertThrows
  PROVE  SizesInv'
<1>1. pc \in {"idle", "plan"} /\ pc' \in {"idle", "plan"} /\ UNCHANGED <<tree_mask, static_trees>>
  BY DEF InsertBegin, CallerGoesOn, PlanStep, InsertThrows
<1> QED
  BY <1>1, SizesStand

LEMMA BeginRebuildSizes ==
  ASSUME LInv, LInv', SizesInv, BeginRebuild
  PROVE  SizesInv'
<1>1. /\ pc = "plan" /\ plan_pc = "done" /\ pc' = "rebuild" /\ buffer_hidden = {}
      /\ cur_items = [k \in Moves |-> {}] /\ task = [k \in Moves |-> "none"]
      /\ UNCHANGED <<tree_mask, static_trees, points, planVars, cur_items>>
  BY DEF BeginRebuild, LInv, PcInv, NoRebuild
<1>2. /\ PlanFacts /\ Plan!MovesMatchMasks /\ PlanOK
      /\ moves \in Seq(Plan!Move)
  BY <1>1, PlanShows DEF LInv, PlanInv, PlanFacts, Plan!TypeOK
<1>3. \A n \in Trees : Bit(tree_mask, n) => HalfFull(static_trees[n], n)
  BY <1>1 DEF SizesInv
<1>4. \A n \in Trees :
        Bit(tree_mask', n) /\ Bit(new_tree_mask', n) => HalfFull(static_trees'[n], n)
  BY <1>1, <1>3
<1>5. ASSUME NEW k \in DOMAIN moves  PROVE MoveSizes(k)'
  <2> DEFINE m == moves[k]
  <2>1. k \in Moves
    BY <1>1, <1>2, MovesAreFew
  <2>2. /\ m.trees \subseteq Trees /\ m.new_tree \in Trees
        /\ \A n \in m.trees : Bit(tree_mask, n)
    BY <1>1, <1>2, MovesAre
  <2>3. FillsTree(m)
    BY <1>1, <1>2, PlanShowsFills
  <2>4. SliceSize(k)' = SliceSize(k) /\ SliceSize(k) >= 0
    BY <1>1, <2>3 DEF SliceSize, FillsTree
  <2>5. todo'[k] = m.trees \cup {Slice} \cup (IF m.uses_buffer THEN {BUFFER_TREE_IDX} ELSE {})
    BY <2>1 DEF BeginRebuild
  <2>6. Slice \notin Trees /\ BUFFER_TREE_IDX \notin Trees /\ Slice # BUFFER_TREE_IDX
    BY TreesAre DEF Slice, BUFFER_TREE_IDX
  <2>7. /\ todo'[k] \cap Trees = m.trees /\ Slice \in todo'[k]
        /\ BUFFER_TREE_IDX \in todo'[k] <=> m.uses_buffer
    <3>1. CASE m.uses_buffer
      BY <2>2, <2>5, <2>6, <3>1
    <3>2. CASE ~m.uses_buffer
      BY <2>2, <2>5, <2>6, <3>2
    <3> QED
      BY <3>1, <3>2
  <2>8. task'[k] = "planned" /\ cur_items'[k] = {}
    BY <1>1, <2>1 DEF BeginRebuild
  <2>9. m.uses_buffer => Cardinality(buffer_points') = BufferSize
    <3> SUFFICES ASSUME m.uses_buffer  PROVE Cardinality(buffer_points') = BufferSize
      OBVIOUS
    <3>1. have_used_buffer
      BY <1>2 DEF PlanFacts
    <3>2. buffer_points' = buffer_tree /\ buffer_tree \cup buffer_hidden = buffer_tree
      BY <1>1, <3>1 DEF BeginRebuild
    <3> QED
      BY <3>2 DEF BufferSize
  <2>10. Left(k)' = Plan!NthTreeSize(m.new_tree)
    <3> DEFINE F == SumFunctionOnSet(Nominal, m.trees)
               b == IF m.uses_buffer THEN BufferSize ELSE 0
    <3>1. SliceSize(k) + F + b = Plan!NthTreeSize(m.new_tree)
      BY <2>3 DEF FillsTree, SliceSize, Nominal
    <3>2. SumFunctionOnSet(Nominal, todo'[k] \cap Trees) = F
      BY <2>7, Zenon
    <3>3. Left(k)' = SliceSize(k) + b + F
      <4>1. Left(k)' = (IF Slice \in todo'[k] THEN SliceSize(k)' ELSE 0)
                       + (IF BUFFER_TREE_IDX \in todo'[k] THEN Cardinality(buffer_points') ELSE 0)
                       + SumFunctionOnSet(Nominal, todo'[k] \cap Trees)
        BY DEF Left, Nominal, Trees, Plan!Trees, Plan!NthTreeSize
      <4> HIDE DEF F
      <4> QED
        BY <2>4, <2>7, <2>9, <3>2, <4>1
    <3>4. F \in Int /\ SliceSize(k) \in Int /\ b \in Int
      <4>1. IsFiniteSet(m.trees)
        <5>1. IsFiniteSet(Trees)
          BY TreesAre, SizesAssumption, FS_Interval
        <5> QED
          BY <2>2, <5>1, FS_Subset
      <4>2. \A n \in m.trees : Nominal[n] \in Int
        BY <2>2, TreeSizes DEF Nominal
      <4>3. F \in Int
        BY <4>1, <4>2, SumType
      <4>4. SliceSize(k) \in Int
        BY <1>2, MoveTypes DEF SliceSize
      <4>5. BufferSize \in Int
        BY DEF LInv, TypeOK, Plan!TypeOK
      <4> QED
        BY <4>3, <4>4, <4>5
    <3> HIDE DEF F, b
    <3> QED
      BY <3>1, <3>3, <3>4
  <2>11. Gathered(k)' = 0
    BY <1>1, <2>2, <2>10, TreeSizes DEF Gathered, Plan!NthTreeSize
  <2>12. CountsFor(Cardinality(cur_items[k]), Gathered(k))'
    BY <2>8, <2>11, FS_EmptySet DEF CountsFor
  <2>13. \A n \in todo'[k] \cap Trees : HalfFull(static_trees'[n], n)
    BY <1>1, <1>3, <2>2, <2>7
  <2> QED
    BY <2>4, <2>8, <2>12, <2>13 DEF MoveSizes, HalfFull
<1>6. \A k \in DOMAIN moves' : MoveSizes(k)'
  BY <1>1, <1>5
<1> QED
  BY <1>1, <1>4, <1>6 DEF SizesInv, Bit, Plan!NthBitSet, HalfFull

\* A step that leaves move k where it is
LEMMA MoveStands ==
  ASSUME NEW k \in DOMAIN moves, MoveSizes(k),
         UNCHANGED <<moves, buffer_points>>, todo'[k] = todo[k], cur_items'[k] = cur_items[k],
         task'[k] = "built" <=> task[k] = "built",
         \A n \in todo[k] \cap Trees : static_trees'[n] = static_trees[n],
         task[k] = "built" =>
           static_trees'[moves[k].new_tree] = static_trees[moves[k].new_tree]
  PROVE  MoveSizes(k)'
<1>1. SliceSize(k)' = SliceSize(k)
  BY DEF SliceSize
<1>2. Left(k)' = Left(k)
  BY <1>1 DEF Left, Nominal, Trees, Plan!Trees, Plan!NthTreeSize
<1>3. Gathered(k)' = Gathered(k)
  BY <1>2 DEF Gathered, Plan!NthTreeSize
<1>4. \A n \in (todo[k] \cap Trees)' : HalfFull(static_trees'[n], n)
  BY DEF MoveSizes, Trees, Plan!Trees
<1> QED
  BY <1>1, <1>3, <1>4 DEF MoveSizes, HalfFull, Plan!NthTreeSize, Trees, Plan!Trees

\* What the steps of a rebuild have in common
LEMMA RebuildSizes ==
  ASSUME SizesInv, pc = "rebuild", pc' = "rebuild", UNCHANGED <<tree_mask, planVars>>,
         \A n \in Trees : Bit(tree_mask, n) /\ Bit(new_tree_mask, n) =>
                            static_trees'[n] = static_trees[n],
         \A k \in DOMAIN moves : MoveSizes(k)'
  PROVE  SizesInv'
<1>1. \A n \in Trees :
        Bit(tree_mask', n) /\ Bit(new_tree_mask', n) => HalfFull(static_trees'[n], n)
  BY DEF SizesInv
<1> QED
  BY <1>1 DEF SizesInv, Bit, Plan!NthBitSet, HalfFull

LEMMA FillOrStartSizes ==
  ASSUME LInv, SizesInv, FillBuffer \/ \E k \in Moves : StartMove(k)
  PROVE  SizesInv'
<1>1. /\ pc = "rebuild" /\ pc' = "rebuild"
      /\ UNCHANGED <<tree_mask, static_trees, planVars, buffer_points, todo, cur_items>>
  BY DEF FillBuffer, StartMove
<1>2. \A l \in Moves : task'[l] = "built" <=> task[l] = "built"
  BY DEF FillBuffer, StartMove, LInv, TypeOK
<1>3. DOMAIN moves \subseteq Moves /\ \A l \in DOMAIN moves : MoveSizes(l)
  BY <1>1 DEF LInv, RebuildInv, TasksInv, SizesInv
<1>4. \A l \in DOMAIN moves : MoveSizes(l)'
  BY <1>1, <1>2, <1>3, MoveStands
<1> QED
  BY <1>1, <1>4, RebuildSizes

\* What a part counts for
Worth(k, part) ==
  IF part = Slice THEN SliceSize(k)
  ELSE IF part = BUFFER_TREE_IDX THEN Cardinality(buffer_points)
  ELSE Plan!NthTreeSize(part)

LEMMA LeftDrops ==
  ASSUME LInv, pc = "rebuild", NEW k \in DOMAIN moves, NEW part \in todo[k],
         todo'[k] = todo[k] \ {part}, UNCHANGED <<moves, buffer_points>>
  PROVE  Worth(k, part) \in Int /\ Left(k)' = Left(k) - Worth(k, part)
<1> DEFINE Sum == SumFunctionOnSet(Nominal, todo[k] \cap Trees)
           SumAfter == SumFunctionOnSet(Nominal, (todo[k] \ {part}) \cap Trees)
           b == Cardinality(buffer_points)
<1>1. /\ SliceSize(k) \in Int /\ b \in Nat /\ IsFiniteSet(todo[k] \cap Trees)
      /\ \A n \in todo[k] \cap Trees : Nominal[n] \in Int
      /\ Sum \in Int
  BY LeftIs
<1>2. part \in Trees \cup {Slice, BUFFER_TREE_IDX}
  BY LeftIs DEF LInv, TypeOK, Parts, TreeIds
<1>3. Slice \notin Trees /\ BUFFER_TREE_IDX \notin Trees /\ Slice # BUFFER_TREE_IDX
  BY TreesAre DEF Slice, BUFFER_TREE_IDX
<1>4. SliceSize(k)' = SliceSize(k)
  BY DEF SliceSize
<1>5. Left(k)' = (IF Slice \in todo[k] \ {part} THEN SliceSize(k) ELSE 0)
                 + (IF BUFFER_TREE_IDX \in todo[k] \ {part} THEN b ELSE 0)
                 + SumAfter
  <2>1. Left(k)' = (IF Slice \in todo'[k] THEN SliceSize(k)' ELSE 0)
                   + (IF BUFFER_TREE_IDX \in todo'[k] THEN Cardinality(buffer_points') ELSE 0)
                   + SumFunctionOnSet(Nominal, todo'[k] \cap Trees)
    BY DEF Left, Nominal, Trees, Plan!Trees, Plan!NthTreeSize
  <2>2. SumFunctionOnSet(Nominal, todo'[k] \cap Trees) = SumAfter
    BY Zenon
  <2> HIDE DEF SumAfter
  <2> QED
    BY <1>4, <2>1, <2>2
<1>6. Left(k) = (IF Slice \in todo[k] THEN SliceSize(k) ELSE 0)
                + (IF BUFFER_TREE_IDX \in todo[k] THEN b ELSE 0) + Sum
  BY DEF Left
<1>7. CASE part \in Trees
  <2>1. Nominal[part] = Plan!NthTreeSize(part) /\ Worth(k, part) = Plan!NthTreeSize(part)
    BY <1>3, <1>7 DEF Nominal, Worth
  <2>2. Sum = Nominal[part] + SumFunctionOnSet(Nominal, (todo[k] \cap Trees) \ {part})
    BY <1>1, <1>7, SumRemove
  <2>3. (todo[k] \cap Trees) \ {part} = (todo[k] \ {part}) \cap Trees
    OBVIOUS
  <2>4. SumFunctionOnSet(Nominal, (todo[k] \cap Trees) \ {part}) = SumAfter
    BY <2>3, Zenon
  <2>5. SumAfter \in Int
    <3>1. IsFiniteSet((todo[k] \cap Trees) \ {part})
      BY <1>1, FS_RemoveElement
    <3>2. \A n \in (todo[k] \cap Trees) \ {part} : Nominal[n] \in Int
      BY <1>1
    <3> QED
      BY <2>4, <3>1, <3>2, SumType
  <2>6. Plan!NthTreeSize(part) \in Nat
    BY <1>7, TreeSizes
  <2>7. part # Slice /\ part # BUFFER_TREE_IDX
    BY <1>3, <1>7
  <2> HIDE DEF Sum, SumAfter, b
  <2> QED
    BY <1>1, <1>5, <1>6, <2>1, <2>2, <2>4, <2>5, <2>6, <2>7
<1>8. CASE part \notin Trees
  <2>1. todo[k] \cap Trees = (todo[k] \ {part}) \cap Trees
    BY <1>8
  <2>2. SumAfter = Sum
    BY <2>1, Zenon
  <2>3. part \in {Slice, BUFFER_TREE_IDX}
    BY <1>2, <1>8
  <2> HIDE DEF Sum, SumAfter, b
  <2>4. CASE part = Slice
    BY <1>1, <1>3, <1>5, <1>6, <2>2, <2>4 DEF Worth
  <2>5. CASE part = BUFFER_TREE_IDX
    BY <1>1, <1>3, <1>5, <1>6, <2>2, <2>5 DEF Worth, b
  <2> QED
    BY <2>3, <2>4, <2>5
<1> QED
  BY <1>7, <1>8

\* A part that is gathered adds what it counts for.
LEMMA GatherPartSizes ==
  ASSUME LInv, PlacesInv, SizesInv, NEW k \in Moves, NEW part \in Parts, GatherPart(k, part)
  PROVE  SizesInv'
<1>1. /\ pc = "rebuild" /\ pc' = "rebuild" /\ task[k] = "gathering" /\ part \in todo[k]
      /\ todo' = [todo EXCEPT ![k] = @ \ {part}]
      /\ UNCHANGED <<tree_mask, points, planVars, buffer_points, task>>
  BY DEF GatherPart
<1>2. /\ todo \in [Moves -> SUBSET Parts] /\ cur_items \in [Moves -> SUBSET Points]
      /\ static_trees \in [Trees -> SUBSET Points] /\ TasksInv /\ Plan!MovesMatchMasks
      /\ plan_pc = "done" /\ k \in DOMAIN moves /\ DOMAIN moves \subseteq Moves
  BY <1>1 DEF LInv, TypeOK, RebuildInv, TasksInv
<1>3. Slice \notin Trees /\ BUFFER_TREE_IDX \notin Trees /\ Slice # BUFFER_TREE_IDX
  BY TreesAre DEF Slice, BUFFER_TREE_IDX
<1>4. part \in Trees => part \in moves[k].trees
  BY <1>1, <1>2, <1>3 DEF TasksInv
<1>5. \A l \in DOMAIN moves : MoveSizes(l)
  BY <1>1 DEF SizesInv
<1> DEFINE slice == Elements(moves[k].points_start, moves[k].points_end)
           X == IF part \in Trees THEN static_trees[part]
                ELSE IF part = Slice THEN slice ELSE buffer_points
<1>6. /\ cur_items' = [cur_items EXCEPT ![k] = @ \cup X]
      /\ static_trees' = IF part \in Trees THEN [static_trees EXCEPT ![part] = {}]
                         ELSE static_trees
  <2>1. CASE part \in Trees
    BY <1>3, <2>1 DEF GatherPart
  <2>2. CASE part \notin Trees
    BY <1>3, <2>2 DEF GatherPart
  <2> QED
    BY <2>1, <2>2
<1>7. X \cap cur_items[k] = {}
  <2>1. /\ Held(<<"gathered", k>>) = cur_items[k] /\ <<"gathered", k>> \in Places
        /\ Held(<<"ungathered", k>>) = Ungathered(k) /\ <<"ungathered", k>> \in Places
        /\ \A n \in Trees : Held(<<"static", n>>) = static_trees[n] /\ <<"static", n>> \in Places
        /\ <<"gathered", k>> # <<"ungathered", k>>
        /\ \A n \in Trees : <<"gathered", k>> # <<"static", n>>
    BY HeldIs, PlacesAre, PlacesDiffer DEF HeldFacts
  <2>2. CASE part \in Trees
    <3>1. Held(<<"static", part>>) \cap Held(<<"gathered", k>>) = {}
      BY <2>1, <2>2 DEF PlacesInv, EachPointOnce
    <3> QED
      BY <2>1, <2>2, <3>1
  <2>3. CASE part \notin Trees
    <3>1. Ungathered(k) \cap cur_items[k] = {}
      BY <2>1 DEF PlacesInv, EachPointOnce
    <3>2. X \subseteq Ungathered(k)
      BY <1>1, <2>3 DEF Ungathered, Parts, TreeIds
    <3> QED
      BY <3>1, <3>2
  <2> QED
    BY <2>2, <2>3
<1>8. X \in SUBSET Points
  <2>1. buffer_points \in SUBSET Points /\ slice \in SUBSET Points
    BY <1>1, <1>2, SliceInBatch DEF LInv, TypeOK, Plan!TypeOK, RebuildInv
  <2> QED
    BY <1>2, <2>1
<1>9. CountsFor(Cardinality(X), Worth(k, part))
  <2>1. CASE part \in Trees
    <3>1. HalfFull(static_trees[part], part)
      BY <1>1, <1>2, <1>5, <2>1 DEF MoveSizes
    <3>2. Worth(k, part) = Plan!NthTreeSize(part)
      BY <1>3, <2>1 DEF Worth
    <3>3. X = static_trees[part]
      BY <2>1
    <3>4. Cardinality(X) \in Nat /\ Plan!NthTreeSize(part) \in Nat
      BY <1>8, <2>1, FiniteParts, TreeSizes
    <3>5. Cardinality(X) <= Plan!NthTreeSize(part) /\ Plan!NthTreeSize(part) < 2 * Cardinality(X)
      BY <1>8, <2>1, <3>1, <3>3, HalfFullIs
    <3> HIDE DEF X
    <3> QED
      BY <3>2, <3>4, <3>5 DEF CountsFor
  <2>2. CASE part = Slice
    <3>1. SliceSize(k) >= 0
      BY <1>2, <1>5 DEF MoveSizes
    <3>2. Cardinality(slice) = SliceSize(k) /\ SliceSize(k) \in Int
      BY <1>1, <1>2, <3>1, SliceIs
    <3>3. Worth(k, part) = SliceSize(k) /\ X = slice
      BY <1>3, <2>2 DEF Worth
    <3> HIDE DEF X, slice
    <3> QED
      BY <3>1, <3>2, <3>3 DEF CountsFor
  <2>3. CASE part = BUFFER_TREE_IDX
    <3>1. Cardinality(buffer_points) \in Nat
      BY FiniteParts DEF LInv, TypeOK
    <3>2. Worth(k, part) = Cardinality(buffer_points) /\ X = buffer_points
      BY <1>3, <2>3 DEF Worth
    <3> HIDE DEF X
    <3> QED
      BY <3>1, <3>2 DEF CountsFor
  <2> QED
    BY <2>1, <2>2, <2>3 DEF Parts, TreeIds
<1> HIDE DEF X, slice
<1>10. Cardinality(cur_items'[k]) = Cardinality(cur_items[k]) + Cardinality(X)
  <2>1. cur_items'[k] = cur_items[k] \cup X /\ cur_items[k] \in SUBSET Points
    BY <1>2, <1>6
  <2> QED
    BY <1>7, <1>8, <2>1, FiniteParts, DisjointSize
<1>11. MoveSizes(k)'
  <2>1. SliceSize(k)' = SliceSize(k) /\ SliceSize(k) >= 0
    BY <1>1, <1>2, <1>5 DEF SliceSize, MoveSizes
  <2>2. todo'[k] = todo[k] \ {part}
    BY <1>1, <1>2
  <2>3. \A n \in todo'[k] \cap Trees : HalfFull(static_trees'[n], n)
    <3>1. \A n \in todo'[k] \cap Trees : static_trees'[n] = static_trees[n]
      BY <1>2, <1>6, <2>2
    <3> QED
      BY <1>2, <1>5, <2>2, <3>1 DEF MoveSizes
  <2>4. Worth(k, part) \in Int /\ Left(k)' = Left(k) - Worth(k, part)
    BY <1>1, <1>2, <2>2, LeftDrops
  <2>5. Gathered(k)' = Gathered(k) + Worth(k, part)
    <3>1. Left(k) \in Int /\ moves[k].new_tree \in Trees
      BY <1>1, <1>2, LeftIs
    <3>2. Gathered(k)' = Plan!NthTreeSize(moves[k].new_tree) - Left(k)'
      BY <1>1 DEF Gathered, Plan!NthTreeSize
    <3>3. Gathered(k) = Plan!NthTreeSize(moves[k].new_tree) - Left(k)
      BY DEF Gathered
    <3>4. Plan!NthTreeSize(moves[k].new_tree) \in Nat
      BY <3>1, TreeSizes
    <3> QED
      BY <2>4, <3>1, <3>2, <3>3, <3>4
  <2>6. CountsFor(Cardinality(cur_items[k]), Gathered(k))
    BY <1>1, <1>2, <1>5 DEF MoveSizes
  <2>7. Cardinality(cur_items[k]) \in Nat /\ Gathered(k) \in Int /\ Cardinality(X) \in Nat
    BY <1>1, <1>2, <1>8, FiniteParts, LeftIs
  <2>8. CountsFor(Cardinality(cur_items'[k]), Gathered(k)')
    BY <1>9, <1>10, <2>4, <2>5, <2>6, <2>7, CountsMore
  <2>9. task'[k] = "gathering"
    BY <1>1
  <2> QED
    BY <2>1, <2>3, <2>8, <2>9 DEF MoveSizes, HalfFull, CountsFor
<1>12. ASSUME NEW l \in DOMAIN moves, l # k  PROVE MoveSizes(l)'
  <2>1. cur_items'[l] = cur_items[l] /\ todo'[l] = todo[l]
    BY <1>1, <1>2, <1>6, <1>12
  <2>2. \A n \in todo[l] \cap Trees : n \in moves[l].trees
    BY <1>2, <1>3 DEF TasksInv
  <2>3. moves[k].trees \cap moves[l].trees = {} /\ Bit(new_tree_mask, moves[l].new_tree)
    BY <1>2, <1>12, MovesAre
  <2>4. part \in Trees => ~Bit(new_tree_mask, part)
    BY <1>2, <1>4, MovesAre
  <2>5. \A n \in Trees : n # part => static_trees'[n] = static_trees[n]
    BY <1>2, <1>6
  <2>6. \A n \in todo[l] \cap Trees : static_trees'[n] = static_trees[n]
    BY <1>4, <2>2, <2>3, <2>5
  <2>7. static_trees'[moves[l].new_tree] = static_trees[moves[l].new_tree]
    <3>1. moves[l].new_tree \in Trees
      BY <1>2, MovesAre
    <3> QED
      BY <2>3, <2>4, <2>5, <3>1
  <2> QED
    BY <1>1, <1>5, <2>1, <2>6, <2>7, MoveStands
<1>13. \A l \in DOMAIN moves : MoveSizes(l)'
  BY <1>11, <1>12
<1>14. \A n \in Trees : Bit(tree_mask, n) /\ Bit(new_tree_mask, n) =>
                          static_trees'[n] = static_trees[n]
  <2>1. part \in Trees => ~Bit(new_tree_mask, part)
    BY <1>2, <1>4, MovesAre
  <2> QED
    BY <1>2, <1>6, <2>1
<1> QED
  BY <1>1, <1>13, <1>14, RebuildSizes

\* A move that has gathered all its parts has enough for its tree.
LEMMA GatheredAll ==
  ASSUME LInv, SizesInv, pc = "rebuild", NEW k \in DOMAIN moves, task[k] # "built",
         todo[k] = {}
  PROVE  HalfFull(cur_items[k], moves[k].new_tree)
<1>1. /\ moves[k].new_tree \in Trees /\ cur_items[k] \in SUBSET Points
      /\ Cardinality(cur_items[k]) \in Nat
  BY LeftIs DEF LInv, TypeOK
<1>2. Left(k) = 0
  <2>1. todo[k] \cap Trees = {}
    OBVIOUS
  <2>2. SumFunctionOnSet(Nominal, todo[k] \cap Trees) = SumFunctionOnSet(Nominal, {})
    BY <2>1, Zenon
  <2>3. SumFunctionOnSet(Nominal, todo[k] \cap Trees) = 0
    BY <2>2, SumEmpty
  <2> QED
    BY <2>3 DEF Left
<1>3. Plan!NthTreeSize(moves[k].new_tree) \in Nat \ {0}
  BY <1>1, TreeSizes
<1>4. CountsFor(Cardinality(cur_items[k]), Plan!NthTreeSize(moves[k].new_tree))
  <2>1. Gathered(k) = Plan!NthTreeSize(moves[k].new_tree)
    BY <1>2, <1>3 DEF Gathered
  <2> QED
    BY <2>1 DEF SizesInv, MoveSizes
<1> QED
  BY <1>1, <1>3, <1>4, HalfFullIs DEF CountsFor

LEMMA BuildTreeSizes ==
  ASSUME LInv, SizesInv, NEW k \in Moves, BuildTree(k)
  PROVE  SizesInv'
<1> DEFINE t == moves[k].new_tree
<1>1. /\ pc = "rebuild" /\ pc' = "rebuild" /\ task[k] = "gathering" /\ todo[k] = {}
      /\ task' = [task EXCEPT ![k] = "built"]
      /\ static_trees' = [static_trees EXCEPT ![t] = cur_items[k]]
      /\ cur_items' = [cur_items EXCEPT ![k] = {}]
      /\ UNCHANGED <<tree_mask, planVars, buffer_points, todo>>
  BY DEF BuildTree
<1>2. /\ Plan!MovesMatchMasks /\ plan_pc = "done" /\ TasksInv
      /\ task \in [Moves -> {"none", "planned", "gathering", "built"}]
      /\ cur_items \in [Moves -> SUBSET Points]
      /\ static_trees \in [Trees -> SUBSET Points]
      /\ k \in DOMAIN moves /\ DOMAIN moves \subseteq Moves
  BY <1>1 DEF LInv, TypeOK, RebuildInv, TasksInv
<1>3. \A l \in DOMAIN moves : MoveSizes(l)
  BY <1>1 DEF SizesInv
<1>4. /\ t \in Trees /\ ~Bit(tree_mask, t)
      /\ \A l \in DOMAIN moves : t \notin moves[l].trees /\ (l # k => moves[l].new_tree # t)
  BY <1>2, MovesAre
<1>5. HalfFull(cur_items[k], t)
  BY <1>1, <1>2, GatheredAll
<1> HIDE DEF t
<1>6. /\ \A n \in Trees : n # t => static_trees'[n] = static_trees[n]
      /\ static_trees'[t] = cur_items[k] /\ task'[k] = "built"
      /\ \A l \in Moves : l # k => cur_items'[l] = cur_items[l] /\ task'[l] = task[l]
  BY <1>1, <1>2, <1>4
<1>7. MoveSizes(k)'
  <2>1. SliceSize(k)' >= 0
    BY <1>1, <1>2, <1>3 DEF MoveSizes, SliceSize
  <2>2. HalfFull(static_trees'[moves'[k].new_tree], moves'[k].new_tree)
    BY <1>1, <1>5, <1>6 DEF t
  <2>3. todo'[k] = {}
    BY <1>1
  <2> QED
    BY <1>6, <2>1, <2>2, <2>3 DEF MoveSizes, HalfFull, Plan!NthTreeSize
<1>8. ASSUME NEW l \in DOMAIN moves, l # k  PROVE MoveSizes(l)'
  <2>1. \A n \in todo[l] \cap Trees : n \in moves[l].trees
    BY <1>2, TreesAre DEF TasksInv, Slice, BUFFER_TREE_IDX
  <2>2. \A n \in todo[l] \cap Trees : static_trees'[n] = static_trees[n]
    BY <1>4, <1>6, <2>1
  <2>3. static_trees'[moves[l].new_tree] = static_trees[moves[l].new_tree]
    <3>1. moves[l].new_tree \in Trees /\ moves[l].new_tree # t
      BY <1>2, <1>4, <1>8, MovesAre
    <3> QED
      BY <1>6, <3>1
  <2>4. cur_items'[l] = cur_items[l] /\ task'[l] = task[l] /\ todo'[l] = todo[l]
    BY <1>1, <1>2, <1>6, <1>8
  <2> QED
    BY <1>1, <1>3, <2>2, <2>3, <2>4, MoveStands
<1>9. \A l \in DOMAIN moves : MoveSizes(l)'
  BY <1>7, <1>8
<1> QED
  BY <1>1, <1>4, <1>6, <1>9, RebuildSizes

LEMMA EndRebuildSizes ==
  ASSUME LInv, SizesInv, EndRebuild
  PROVE  SizesInv'
<1>1. /\ pc = "rebuild" /\ pc' = "idle" /\ tree_mask' = new_tree_mask
      /\ \A k \in Moves : task[k] \in {"none", "built"}
      /\ UNCHANGED static_trees
  BY DEF EndRebuild
<1>2. /\ plan_pc = "done" /\ Plan!MovesMatchMasks /\ TasksInv
  BY <1>1 DEF LInv, RebuildInv
<1>3. ASSUME NEW n \in Trees, Bit(new_tree_mask, n)
      PROVE  HalfFull(static_trees[n], n)
  <2>1. CASE Bit(tree_mask, n)
    BY <1>1, <1>3, <2>1 DEF SizesInv
  <2>2. CASE ~Bit(tree_mask, n)
    <3>1. n \in {moves[k].new_tree : k \in DOMAIN moves}
      BY <1>2, <1>3, <2>2 DEF Plan!MovesMatchMasks, Plan!BecomesFull, Bit, Trees
    <3>2. PICK k \in DOMAIN moves : n = moves[k].new_tree
      BY <3>1
    <3>3. task[k] = "built"
      BY <1>1, <1>2 DEF TasksInv
    <3> QED
      BY <1>1, <3>2, <3>3 DEF SizesInv, MoveSizes
  <2> QED
    BY <2>1, <2>2
<1> QED
  BY <1>1, <1>3 DEF SizesInv, HalfFull, Bit, Plan!NthBitSet

LEMMA EraseBeginSizes ==
  ASSUME LInv, SizesInv, NEW batch \in EraseBatches, EraseBegin(batch)
  PROVE  SizesInv'
<1>1. pc = "idle" /\ pc' = "erase" /\ UNCHANGED <<tree_mask, static_trees>>
  BY DEF EraseBegin, CallerGoesOn
<1>2. ASSUME NEW n \in Trees, Bit(tree_mask, n)
      PROVE  Cardinality(static_trees[n]) <= Plan!NthTreeSize(n)
  <2>1. HalfFull(static_trees[n], n) /\ static_trees[n] \in SUBSET Points
    BY <1>1, <1>2 DEF SizesInv, LInv, TypeOK
  <2> QED
    BY <2>1, HalfFullIs
<1> QED
  BY <1>1, <1>2 DEF SizesInv, Bit, Plan!NthBitSet

LEMMA EraseFromTreeSizes ==
  ASSUME LInv, SizesInv, NEW id \in TreeIds, EraseFromTree(id)
  PROVE  SizesInv'
<1>1. pc = "erase" /\ pc' = "erase" /\ tree_mask' = tree_mask
  BY DEF EraseFromTree
<1>2. ASSUME NEW n \in Trees, Bit(tree_mask, n)
      PROVE  Cardinality(static_trees'[n]) <= Plan!NthTreeSize(n)
  <2>1. /\ Cardinality(static_trees[n]) <= Plan!NthTreeSize(n)
        /\ static_trees[n] \in SUBSET Points
    BY <1>1, <1>2 DEF SizesInv, LInv, TypeOK
  <2>2. static_trees'[n] \subseteq static_trees[n]
    BY DEF EraseFromTree, LInv, TypeOK
  <2>3. Cardinality(static_trees'[n]) <= Cardinality(static_trees[n])
    BY <2>1, <2>2, FiniteParts, FS_Subset
  <2>4. Cardinality(static_trees'[n]) \in Nat /\ Cardinality(static_trees[n]) \in Nat
    BY <2>1, <2>2, FiniteParts
  <2> QED
    BY <1>2, <2>1, <2>3, <2>4, TreeSizes
<1> QED
  BY <1>1, <1>2 DEF SizesInv, Bit, Plan!NthBitSet

LEMMA EndPhase1Sizes ==
  ASSUME LInv, SizesInv, EndPhase1
  PROVE  SizesInv'
<1>1. pc = "erase" /\ pc' = "scan" /\ scan_i' = 0 /\ UNCHANGED <<tree_mask, static_trees>>
  BY DEF EndPhase1
<1>2. \A n \in Trees : ~(n < 0)
  BY TreesAre
<1> QED
  BY <1>1, <1>2 DEF SizesInv, Bit, Plan!NthBitSet

\* A tree that keeps its bit is more than half full.
LEMMA ScanTreeSizes ==
  ASSUME LInv, LInv', SizesInv, ScanTree
  PROVE  SizesInv'
<1>1. /\ pc = "scan" /\ pc' = "scan" /\ scan_i < NUM_TREES /\ scan_i' = scan_i + 1
      /\ UNCHANGED <<tree_mask, static_trees>>
  BY DEF ScanTree
<1>2. scan_i \in Trees
  BY <1>1, TreesAre, SizesAssumption DEF LInv, TypeOK
<1>3. /\ \A n \in Trees : Bit(erase_mask, n) <=> Bit(tree_mask, n) /\ n \notin depleted
      /\ \A n \in Trees : Bit(erase_mask', n) <=> Bit(tree_mask, n) /\ n \notin depleted'
  <2>1. LInv' => (pc = "scan" => \A n \in Trees : Bit(erase_mask, n) <=>
                                                    Bit(tree_mask, n) /\ n \notin depleted)'
    BY DEF LInv, EraseInv
  <2>2. \A n \in Trees : Bit(erase_mask', n) <=> Bit(tree_mask', n) /\ n \notin depleted'
    BY <1>1, <2>1 DEF Bit, Plan!NthBitSet, Trees, Plan!Trees
  <2> QED
    BY <1>1, <2>2 DEF LInv, EraseInv
<1>4. ASSUME NEW n \in Trees, n < scan_i + 1, Bit(erase_mask', n)
      PROVE  HalfFull(static_trees[n], n)
  <2>1. Bit(tree_mask, n) /\ n \notin depleted'
    BY <1>3, <1>4
  <2>2. n \notin depleted
    BY <2>1 DEF ScanTree
  <2>3. CASE n < scan_i
    BY <1>1, <1>3, <2>1, <2>2, <2>3 DEF SizesInv
  <2>4. CASE n = scan_i
    <3>1. ~IsDepleted(n)
      BY <2>1, <2>4 DEF ScanTree
    <3>2. Cardinality(static_trees[n]) <= Plan!NthTreeSize(n)
      BY <1>1, <2>1 DEF SizesInv
    <3>3. Cardinality(static_trees[n]) \in Nat /\ Plan!NthTreeSize(n) \in Nat
      BY FiniteParts, TreeSizes DEF LInv, TypeOK
    <3> QED
      BY <3>1, <3>2, <3>3 DEF IsDepleted, HalfFull
  <2> QED
    BY <1>2, <1>4, <2>3, <2>4, TreesAre
<1> QED
  BY <1>1, <1>4 DEF SizesInv, HalfFull, Bit, Plan!NthBitSet

LEMMA EndScanSizes ==
  ASSUME LInv, SizesInv, EndScan
  PROVE  SizesInv'
<1>1. /\ pc = "scan" /\ pc' = "empty" /\ scan_i = NUM_TREES /\ tree_mask' = erase_mask
      /\ UNCHANGED <<static_trees, depleted>>
  BY DEF EndScan
<1>2. \A n \in Trees : n < scan_i
  BY <1>1, TreesAre, SizesAssumption
<1>3. \A n \in depleted : n \in Trees /\ ~Bit(erase_mask, n)
  BY <1>1 DEF LInv, TypeOK, EraseInv
<1>4. \A n \in Trees : Bit(erase_mask, n) => HalfFull(static_trees[n], n)
  BY <1>1, <1>2 DEF SizesInv
<1> QED
  BY <1>1, <1>3, <1>4 DEF SizesInv, HalfFull, Bit, Plan!NthBitSet

LEMMA EmptyTreeSizes ==
  ASSUME LInv, SizesInv, NEW n \in Trees, EmptyTree(n)
  PROVE  SizesInv'
<1>1. /\ pc = "empty" /\ pc' = "empty" /\ n \in depleted /\ depleted' = depleted \ {n}
      /\ static_trees' = [static_trees EXCEPT ![n] = {}] /\ tree_mask' = tree_mask
  BY DEF EmptyTree
<1>2. ~Bit(tree_mask, n)
  BY <1>1 DEF SizesInv
<1>3. \A m \in Trees : m # n => static_trees'[m] = static_trees[m]
  BY <1>1 DEF LInv, TypeOK
<1>4. \A m \in Trees : Bit(tree_mask, m) => HalfFull(static_trees'[m], m)
  BY <1>1, <1>2, <1>3 DEF SizesInv
<1>5. \A m \in depleted' : ~Bit(tree_mask, m)
  BY <1>1 DEF SizesInv
<1> QED
  BY <1>1, <1>4, <1>5 DEF SizesInv, HalfFull, Bit, Plan!NthBitSet

LEMMA ReinsertSizes ==
  ASSUME SizesInv, Reinsert
  PROVE  SizesInv'
<1>1. pc = "empty" /\ pc' = "plan" /\ UNCHANGED <<tree_mask, static_trees>>
  BY DEF Reinsert
<1> QED
  BY <1>1 DEF SizesInv, HalfFull, Bit, Plan!NthBitSet

LEMMA StutterSizes ==
  ASSUME LInv, SizesInv, UNCHANGED vars
  PROVE  SizesInv'
<1>1. UNCHANGED <<pc, storeVars, points, planVars, rebuildVars, eraseVars>>
  BY DEF vars
<1>2. CASE pc = "rebuild"
  <2>1. \A k \in DOMAIN moves : MoveSizes(k)
    BY <1>2 DEF SizesInv
  <2>2. \A k \in DOMAIN moves : MoveSizes(k)'
    BY <1>1, <2>1, MoveStands
  <2> QED
    BY <1>1, <1>2, <2>2, RebuildSizes
<1>3. CASE pc # "rebuild"
  BY <1>1, <1>3 DEF SizesInv, HalfFull, Bit, Plan!NthBitSet
<1> QED
  BY <1>2, <1>3

LEMMA NextSizes ==
  ASSUME LInv, LInv', PlacesInv, SizesInv, [Next]_vars
  PROVE  SizesInv'
<1>1. CASE Insert
  BY <1>1, CallSizes DEF Insert
<1>2. CASE Erase
  BY <1>2, EraseBeginSizes DEF Erase
<1>3. CASE RunInsert
  BY <1>3, CallSizes, BeginRebuildSizes, FillOrStartSizes, BuildTreeSizes, GatherPartSizes,
     EndRebuildSizes DEF RunInsert
<1>4. CASE RunErase
  BY <1>4, EraseFromTreeSizes, EndPhase1Sizes, ScanTreeSizes, EndScanSizes, EmptyTreeSizes,
     ReinsertSizes DEF RunErase
<1>5. CASE UNCHANGED vars
  BY <1>5, StutterSizes
<1> QED
  BY <1>1, <1>2, <1>3, <1>4, <1>5 DEF Next, Step

LEMMA SizesInvariance == Spec => [](LInv /\ PlacesInv /\ SizesInv)
<1>1. Init => LInv /\ PlacesInv /\ SizesInv
  BY InitLInv, InitPlaces, InitSizes
<1>2. (LInv /\ PlacesInv /\ SizesInv) /\ [Next]_vars => (LInv /\ PlacesInv /\ SizesInv)'
  BY NextLInv, NextPlaces, NextSizes
<1> QED
  BY <1>1, <1>2, PTL DEF Spec

(***************************************************************************)
(* Between operations the mask tells the sizes: a static tree in use is    *)
(* more than half full and not overfull, any other is empty.  It takes     *)
(* both operations to keep: insert counts a tree in use as full            *)
(* (logtree.h:205), and erase pushes down the trees that are not half full *)
(* any more (logtree.h:465-470).                                           *)
(***************************************************************************)
THEOREM SizesMatchMask == Spec => []MaskTellsSizes
<1>1. LInv /\ SizesInv => MaskTellsSizes
  BY DEF LInv, MaskInv, SizesInv, MaskTellsSizes, HalfFull, Bit
<1> QED
  BY <1>1, SizesInvariance, PTL

(***************************************************************************)
(* A move builds into an empty tree (the assert at logtree.h:341), and     *)
(* gives it more than half of what it is made for and no more than that,   *)
(* however its parts were gathered.                                        *)
(***************************************************************************)
THEOREM BuildsAreRight == Spec => []BuildsIntoEmptyTree
<1>1. LInv /\ SizesInv => BuildsIntoEmptyTree
  <2> SUFFICES ASSUME LInv, SizesInv, NEW k \in Moves, task[k] = "gathering", todo[k] = {}
               PROVE  /\ static_trees[moves[k].new_tree] = {}
                      /\ HalfFull(cur_items[k], moves[k].new_tree)
    BY DEF BuildsIntoEmptyTree, HalfFull
  <2>1. pc = "rebuild"
    BY DEF LInv, PcInv, NoRebuild
  <2>2. k \in DOMAIN moves /\ plan_pc = "done" /\ Plan!MovesMatchMasks /\ EmptyInv
    BY <2>1 DEF LInv, RebuildInv, TasksInv
  <2>3. HalfFull(cur_items[k], moves[k].new_tree)
    BY <2>1, <2>2, GatheredAll
  <2>4. static_trees[moves[k].new_tree] = {}
    BY <2>2, MovesAre DEF EmptyInv
  <2> QED
    BY <2>3, <2>4
<1> QED
  BY <1>1, SizesInvariance, PTL

-----------------------------------------------------------------------------
(* Queries *)

\* The trees that the mask names
Used == {n \in Trees : Bit(tree_mask, n)}

UsedPoints == UNION {static_trees[n] : n \in Used}

LEMMA UsedIs ==
  ASSUME LInv, PlacesInv, pc = "idle"
  PROVE  /\ Contents = buffer_tree \cup buffer_hidden \cup UsedPoints
         /\ (buffer_tree \cup buffer_hidden) \cap UsedPoints = {}
         /\ \A n \in Trees : static_trees[n] # {} => n \in Used
<1>1. \A n \in Trees : static_trees[n] # {} => n \in Used
  BY DEF LInv, MaskInv, Used
<1>2. UNION Range(static_trees) = UsedPoints
  BY <1>1, HeldIn DEF UsedPoints, Used
<1>3. Contents = Stored
  BY ContentsIs DEF ContentsFacts, LInv, PcInv, NoErase
<1>4. (buffer_tree \cup buffer_hidden) \cap UsedPoints = {}
  <2> SUFFICES ASSUME NEW n \in Trees
               PROVE  (buffer_tree \cup buffer_hidden) \cap static_trees[n] = {}
    BY DEF UsedPoints, Used
  <2>1. /\ Held(BufferPlace) = buffer_tree /\ Held(HiddenPlace) = buffer_hidden
        /\ Held(<<"static", n>>) = static_trees[n]
    BY HeldIs DEF HeldFacts
  <2>2. /\ BufferPlace \in Places /\ HiddenPlace \in Places /\ <<"static", n>> \in Places
        /\ BufferPlace # <<"static", n>> /\ HiddenPlace # <<"static", n>>
    BY PlacesAre, PlacesDiffer
  <2> QED
    BY <2>1, <2>2 DEF PlacesInv, EachPointOnce
<1> QED
  BY <1>1, <1>2, <1>3, <1>4 DEF Stored

LEMMA SizeIs ==
  ASSUME LInv, PlacesInv, pc = "idle"
  PROVE  Size = Cardinality(Contents)
<1> DEFINE sizes == [n \in Trees |-> Cardinality(static_trees[n])]
<1>1. IsFiniteSet(Used)
  <2>1. IsFiniteSet(Trees) /\ Used \subseteq Trees
    BY TreesAre, SizesAssumption, FS_Interval DEF Used
  <2> QED
    BY <2>1, FS_Subset
<1>2. \A n \in Used : /\ sizes[n] = Cardinality(static_trees[n])
                      /\ static_trees[n] \subseteq Points /\ IsFiniteSet(static_trees[n])
  BY FiniteParts DEF Used, LInv, TypeOK
<1>3. \A n, m \in Used : n # m => static_trees[n] \cap static_trees[m] = {}
  <2> SUFFICES ASSUME NEW n \in Trees, NEW m \in Trees, n # m
               PROVE  static_trees[n] \cap static_trees[m] = {}
    BY DEF Used
  <2>1. /\ Held(<<"static", n>>) = static_trees[n] /\ Held(<<"static", m>>) = static_trees[m]
        /\ <<"static", n>> \in Places /\ <<"static", m>> \in Places
    BY HeldIs, PlacesAre DEF HeldFacts
  <2>2. <<"static", n>> # <<"static", m>>
    BY PlacesDiffer
  <2> QED
    BY <2>1, <2>2 DEF PlacesInv, EachPointOnce
<1> HIDE DEF sizes
<1>4. /\ IsFiniteSet(UsedPoints)
      /\ Cardinality(UsedPoints) = SumFunctionOnSet(sizes, Used)
  BY <1>1, <1>2, <1>3, DisjointUnion DEF UsedPoints
<1>5. IsFiniteSet(buffer_tree \cup buffer_hidden)
  <2>1. buffer_tree \cup buffer_hidden \in SUBSET Points
    BY DEF LInv, TypeOK
  <2> QED
    BY <2>1, FiniteParts
<1>6. Cardinality(Contents) = BufferSize + SumFunctionOnSet(sizes, Used)
  <2>1. /\ Contents = (buffer_tree \cup buffer_hidden) \cup UsedPoints
        /\ (buffer_tree \cup buffer_hidden) \cap UsedPoints = {}
    BY UsedIs
  <2> QED
    BY <1>4, <1>5, <2>1, DisjointSize DEF BufferSize
<1>7. Size = BufferSize + SumFunctionOnSet(sizes, Used)
  BY DEF Size, sizes, Used, Bit
<1> QED
  BY <1>6, <1>7

LEMMA FullTreesFind ==
  ASSUME LInv, PlacesInv, pc = "idle"
  PROVE  UNION {PointsOf(id) : id \in FullTrees} = Contents
<1>1. /\ PointsOf(BUFFER_TREE_IDX) = buffer_tree \cup buffer_hidden
      /\ \A n \in Trees : PointsOf(n) = static_trees[n]
  BY TreesAre DEF PointsOf, BUFFER_TREE_IDX
<1>2. FullTrees = Used \cup (IF BufferSize = 0 THEN {} ELSE {BUFFER_TREE_IDX})
  BY DEF FullTrees, Used, Bit
<1>3. BufferSize = 0 => buffer_tree \cup buffer_hidden = {}
  <2>1. buffer_tree \cup buffer_hidden \in SUBSET Points
    BY DEF LInv, TypeOK
  <2> QED
    BY <2>1, FiniteParts, FS_EmptySet DEF BufferSize
<1>4. UsedPoints = UNION {PointsOf(id) : id \in Used}
  BY <1>1 DEF UsedPoints, Used
<1>5. UNION {PointsOf(id) : id \in FullTrees} = buffer_tree \cup buffer_hidden \cup UsedPoints
  <2>1. CASE BufferSize = 0
    BY <1>2, <1>3, <1>4, <2>1
  <2>2. CASE BufferSize # 0
    <3>1. FullTrees = Used \cup {BUFFER_TREE_IDX}
      BY <1>2, <2>2
    <3> QED
      BY <1>1, <1>4, <3>1
  <2> QED
    BY <2>1, <2>2
<1> QED
  BY <1>5, UsedIs

LEMMA AllTreesFind ==
  ASSUME LInv, PlacesInv, pc = "idle", NEW p \in Points \ buffer_hidden
  PROVE  /\ Contains(p) <=> p \in Contents
         /\ OrthogonalQuery(Points)[p] = IF Contains(p) THEN 1 ELSE 0
<1> DEFINE ids == {id \in AllTrees : p \in FoundIn(id)}
<1>1. /\ p \in FoundIn(BUFFER_TREE_IDX) <=> p \in buffer_tree
      /\ \A n \in Trees : p \in FoundIn(n) <=> p \in static_trees[n]
  BY TreesAre DEF FoundIn, PointsOf, BUFFER_TREE_IDX
<1>2. Contains(p) <=> p \in Contents
  <2>1. p \in Contents <=> p \in buffer_tree \/ \E n \in Trees : p \in static_trees[n]
    <3>1. \A n \in Trees : p \in static_trees[n] => n \in Used
      BY UsedIs
    <3> QED
      BY <3>1, UsedIs DEF UsedPoints, Used
  <2> QED
    BY <1>1, <2>1 DEF Contains, AllTrees
<1>3. \A i, j \in ids : i = j
  <2> SUFFICES ASSUME NEW i \in ids, NEW j \in ids, i # j  PROVE FALSE
    OBVIOUS
  <2> DEFINE place(id) == IF id = BUFFER_TREE_IDX THEN BufferPlace ELSE <<"static", id>>
  <2>1. \A id \in ids : p \in Held(place(id)) /\ place(id) \in Places
    <3> SUFFICES ASSUME NEW id \in ids  PROVE p \in Held(place(id)) /\ place(id) \in Places
      OBVIOUS
    <3>1. CASE id = BUFFER_TREE_IDX
      BY <1>1, <3>1, HeldIs, PlacesAre DEF HeldFacts
    <3>2. CASE id # BUFFER_TREE_IDX
      <4>1. id \in Trees /\ p \in static_trees[id]
        BY <1>1, <3>2 DEF AllTrees
      <4>2. Held(<<"static", id>>) = static_trees[id] /\ <<"static", id>> \in Places
        BY <4>1, HeldIs, PlacesAre DEF HeldFacts
      <4> QED
        BY <3>2, <4>1, <4>2
    <3> QED
      BY <3>1, <3>2
  <2>2. place(i) # place(j)
    BY PlacesDiffer
  <2> HIDE DEF place, ids
  <2> QED
    BY <2>1, <2>2 DEF PlacesInv, EachPointOnce
<1>4. OrthogonalQuery(Points)[p] = Cardinality(ids)
  BY DEF OrthogonalQuery
<1>5. Contains(p) <=> ids # {}
  BY DEF Contains
<1> HIDE DEF ids
<1>6. ids = {} => Cardinality(ids) = 0
  BY FS_EmptySet
<1>7. ids # {} => Cardinality(ids) = 1
  <2> SUFFICES ASSUME ids # {}  PROVE Cardinality(ids) = 1
    OBVIOUS
  <2>1. PICK i \in ids : TRUE
    OBVIOUS
  <2>2. ids = {i}
    BY <1>3, <2>1
  <2>3. Cardinality({i}) = 1
    BY FS_Singleton
  <2> QED
    BY <2>2, <2>3
<1>8. OrthogonalQuery(Points)[p] = IF Contains(p) THEN 1 ELSE 0
  <2>1. CASE Contains(p)
    BY <1>4, <1>5, <1>7, <2>1
  <2>2. CASE ~Contains(p)
    BY <1>4, <1>5, <1>6, <2>2
  <2> QED
    BY <2>1, <2>2
<1> QED
  BY <1>2, <1>8

(***************************************************************************)
(* Between operations size() (logtree.h:1164), the trees that a knn looks  *)
(* at (gatherFullTrees, 775) and contains and orthogonalQuery (715, 738),  *)
(* which look at all of them, agree on the points, and none is reported    *)
(* twice.                                                                  *)
(***************************************************************************)
THEOREM QueriesAgree == Spec => []MaskFindsAll
<1>1. LInv /\ PlacesInv => MaskFindsAll
  BY SizeIs, FullTreesFind, AllTreesFind DEF MaskFindsAll
<1> QED
  BY <1>1, PlacesInvariance, PTL

=============================================================================
