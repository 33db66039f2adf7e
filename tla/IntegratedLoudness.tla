-------------------------- MODULE IntegratedLoudness --------------------------
(***************************************************************************)
(* The gated programme loudness of ITU-R BS.1770: LoudnessAnalyzer adds    *)
(* the energy of one 400 ms block every 100 ms, and each addition has to   *)
(* recompute a two-pass gate over every block since the reset.  The second *)
(* pass is a query of IntegratedLoudnessIndex, a tree of sorted leaves     *)
(* whose internal nodes cache the sum, the count and the maximum of the    *)
(* values below them, so that the query reads one path of the tree.        *)
(*                                                                         *)
(* What is hard is the rebalancing: a full leaf is redistributed over a    *)
(* window of its neighbours, an extra leaf splits its parent, the split    *)
(* can climb to a new root, and each cached aggregate on the way has to be *)
(* refreshed in the right order.  An error there moves the displayed       *)
(* loudness by a fraction of a decibel after hours.                        *)
(*                                                                         *)
(* Energies are small integers and thresholds fractions of integers, so    *)
(* sums are exact: rounding is not modelled.  The node pools are the two   *)
(* reserved vectors; a node's number is its position in its pool.  The     *)
(* query counters that only feed the performance panel are left out.       *)
(***************************************************************************)
EXTENDS Integers, SequencesExt, Bags

CONSTANTS
    LeafCapacity,    \* leafValueCapacity, 256 in the code
    ChildCapacity,   \* internalChildCapacity, 64 in the code
    GroupSize,       \* leafRebalanceGroupSize, 16 in the code
    BlockCapacity,   \* effectiveIntegrationBlockCapacity_
    MaxBlocks,       \* bound of the model: blocks between two resets
    Energies,        \* the energies a block may have
    AbsoluteGate     \* lufsToEnergy(absoluteGateLufs)

ASSUME TreeShape ==
    /\ LeafCapacity \in Nat \ {0}
    /\ GroupSize \in Nat \ {0}
    /\ ChildCapacity \in Nat /\ ChildCapacity >= 4 /\ GroupSize <= ChildCapacity
ASSUME BlockBounds == BlockCapacity \in Nat /\ MaxBlocks \in Nat
ASSUME EnergyRange == Energies \subseteq Nat \ {0} /\ AbsoluteGate \in Nat

VARIABLES
    tree,      \* integrationEnergyIndex_
    gate,      \* absoluteGatedEnergySum_, absoluteGatedBlockCount_, integrationBlockCount_
    gated,    \* the integrated part of output_
    blocks     \* history: how often each energy was added since the reset

indexVars == <<tree, gate, gated, blocks>>

Smaller(a, b) == IF a < b THEN a ELSE b
Larger(a, b) == IF a < b THEN b ELSE a
Total(numbers) == FoldLeft(LAMBDA a, b : a + b, 0, numbers)

-----------------------------------------------------------------------------
(* The pools and their reservation                                         *)

DividedUp(a, b) == IF a = 0 THEN 0 ELSE 1 + ((a - 1) \div b)

(* Mutant: every leaf is expected to be full.                              *)
FullLeafPool == DividedUp(BlockCapacity, LeafCapacity)

LeafPool ==
    LET stable == (GroupSize * LeafCapacity + 1) \div (GroupSize + 1)
    IN  ChildCapacity + DividedUp(BlockCapacity, stable) + 2

MaximumDepth == 8

NodePool == DividedUp(LeafPool, (ChildCapacity \div 2) - 1) + MaximumDepth + 2

Leaf(values) == [values |-> values, sum |-> Total(values)]

EmptyTree ==
    [leaves |-> <<Leaf(<<>>)>>, nodes |-> <<>>, root |-> 1, level |-> 0, count |-> 0]

(* What a parent reads of a child, a leaf when the parent's level is 1.    *)
(* An empty leaf has maximum -infinity: 0, below every energy.             *)
ChildMaximum(t, level, c) ==
    IF level > 0 THEN t.nodes[c].maximum
    ELSE IF t.leaves[c].values = <<>> THEN 0 ELSE Last(t.leaves[c].values)
ChildSum(t, level, c) == IF level = 0 THEN t.leaves[c].sum ELSE t.nodes[c].sum
ChildCount(t, level, c) ==
    IF level = 0 THEN Len(t.leaves[c].values) ELSE t.nodes[c].count

Sums(t, n) == [i \in DOMAIN n.children |-> ChildSum(t, n.level - 1, n.children[i])]
Counts(t, n) == [i \in DOMAIN n.children |-> ChildCount(t, n.level - 1, n.children[i])]
Maxima(t, n) == [i \in DOMAIN n.children |-> ChildMaximum(t, n.level - 1, n.children[i])]

Aggregated(t, level, children) ==
    LET n == [level |-> level, children |-> children]
    IN  [level |-> level, children |-> children, sum |-> Total(Sums(t, n)),
         count |-> Total(Counts(t, n)), maximum |-> Last(Maxima(t, n))]

(* A node whose children changed, with its aggregates recomputed from them.*)
WithChildren(t, node, children) ==
    [t EXCEPT !.nodes[node] = Aggregated(t, t.nodes[node].level, children)]

Refreshed(t, node) == WithChildren(t, node, t.nodes[node].children)

(* Every ancestor on the path, the deepest first: each reads the one below.*)
AncestorsRefreshed(t, path) ==
    FoldLeft(LAMBDA u, step : Refreshed(u, step.node), t, Reverse(path))

-----------------------------------------------------------------------------
(* Insertion                                                               *)

(* From the root to a leaf: at each level the first child whose maximum    *)
(* passes the test; when none does, the last child or no path (the binary  *)
(* search of the code finds it because the maxima ascend).                 *)
PathOf(t, passing, otherwiseLast) ==
    FoldLeft(LAMBDA p, level :
                LET n == t.nodes[p.at]
                    found == SelectInSeq(Maxima(t, n), LAMBDA m : m \in passing)
                    child == IF found = 0 /\ otherwiseLast THEN Len(n.children) ELSE found
                IN  IF p.at = 0 \/ child = 0 THEN [p EXCEPT !.at = 0]
                    ELSE [at |-> n.children[child],
                          steps |-> Append(p.steps, [node |-> p.at, position |-> child])],
             [at |-> t.root, steps |-> <<>>],
             [i \in 1..t.level |-> i])

FindLeaf(t, value) == PathOf(t, {e \in Energies : value <= e}, TRUE)

InOrder(values, value) ==
    SelectSeq(values, LAMBDA v : v <= value) \o <<value>>
        \o SelectSeq(values, LAMBDA v : v > value)

(* The values of a group spread evenly over its leaves, the first ones     *)
(* taking what is left over.                                               *)
RefillLeafGroup(t, group, values) ==
    LET base == Len(values) \div Len(group)
        extra == Len(values) % Len(group)
        start(i) == (i - 1) * base + Smaller(i - 1, extra)
        share(i) == SubSeq(values, start(i) + 1, start(i + 1))
    IN  [t EXCEPT !.leaves =
            [l \in DOMAIN @ |->
                IF \E i \in DOMAIN group : group[i] = l
                THEN Leaf(share(CHOOSE i \in DOMAIN group : group[i] = l))
                ELSE @[l]]]

AppendLeaf(t) == [t EXCEPT !.leaves = Append(@, Leaf(<<>>))]
AppendNode(t, level, children) ==
    [t EXCEPT !.nodes = Append(@, Aggregated(t, level, children))]

NewRoot(t, left, right) ==
    LET grown == AppendNode(t, t.level + 1, <<left, right>>)
    IN  [grown EXCEPT !.root = Len(grown.nodes), !.level = @ + 1]

(* For a new leaf and at most one new node per level, and a root.          *)
HasRoom(t, path) ==
    /\ Len(t.leaves) + 1 <= LeafPool
    /\ Len(t.nodes) + Len(path) + 1 <= NodePool

(* The answer is the tree, or the refusal <<>>.                            *)
SplitRootLeaf(t, value) ==
    LET right == Len(t.leaves) + 1
        values == InOrder(t.leaves[t.root].values, value)
    IN  IF HasRoom(t, <<>>)
        THEN NewRoot(RefillLeafGroup(AppendLeaf(t), <<t.root, right>>, values), t.root, right)
        ELSE <<>>

(* The new leaf enters the deepest node of the path behind its group.  A   *)
(* full node keeps the first half of its children and hands a new sibling  *)
(* to its own parent; a full root gets a parent.                           *)
InsertChildAndPropagate(t, path, position, leaf) ==
    LET climb(state, step) ==
            LET n == state.tree.nodes[step.node]
                at == IF state.position # 0 THEN state.position ELSE step.position + 1
                children == InsertAt(n.children, at, state.child)
                half == (ChildCapacity + 1) \div 2
                cut == WithChildren(state.tree, step.node, SubSeq(children, 1, half))
            IN  IF state.child = 0
                THEN [state EXCEPT !.tree = Refreshed(@, step.node)]
                ELSE IF Len(n.children) < ChildCapacity
                THEN [tree |-> WithChildren(state.tree, step.node, children),
                      child |-> 0, position |-> 0]
                ELSE [tree |-> AppendNode(cut, n.level,
                                   SubSeq(children, half + 1, ChildCapacity + 1)),
                      child |-> Len(cut.nodes) + 1, position |-> 0]
        end == FoldLeft(climb, [tree |-> t, child |-> leaf, position |-> position],
                        Reverse(path))
    IN  IF end.child = 0 THEN end.tree ELSE NewRoot(end.tree, t.root, end.child)

(* The full leaf and up to GroupSize - 1 neighbours under the same parent. *)
RebalanceLeafGroup(t, path, value) ==
    LET step == Last(path)
        children == t.nodes[step.node].children
        size == Smaller(Len(children), GroupSize)
        first == Smaller(Larger(step.position - 1 - (size \div 2), 0), Len(children) - size)
        group == SubSeq(children, first + 1, first + size)
        values == InOrder(FlattenSeq([i \in 1..size |-> t.leaves[group[i]].values]), value)
        new == Len(t.leaves) + 1
    IN  IF Len(values) <= size * LeafCapacity
        THEN AncestorsRefreshed(RefillLeafGroup(t, group, values), path)
        ELSE IF ~HasRoom(t, path) THEN <<>>
        ELSE InsertChildAndPropagate(
                RefillLeafGroup(AppendLeaf(t), Append(group, new), values),
                path, first + size + 1, new)

(* insert: refused too when findLeaf meets a tree deeper than its path.    *)
Inserted(t, value) ==
    LET path == FindLeaf(t, value)
        values == t.leaves[path.at].values
        fits == AncestorsRefreshed(
                    [t EXCEPT !.leaves[path.at] =
                        [values |-> InOrder(values, value), sum |-> @.sum + value]],
                    path.steps)
        counted(u) == IF u = <<>> THEN <<>> ELSE [u EXCEPT !.count = @ + 1]
    IN  IF t.count >= BlockCapacity \/ t.level > MaximumDepth THEN <<>>
        ELSE IF Len(values) < LeafCapacity THEN counted(fits)
        ELSE IF path.steps = <<>> THEN counted(SplitRootLeaf(t, value))
        ELSE counted(RebalanceLeafGroup(t, path.steps, value))

-----------------------------------------------------------------------------
(* The query: thresholds are fractions.                                    *)

Exceeds(value, threshold) == value * threshold.of > threshold.energy

(* The child on the path is counted with its siblings.                     *)
QueryGreaterThanCountingPath(t, threshold) ==
    LET path == PathOf(t, {e \in Energies : Exceeds(e, threshold)}, FALSE)
        above == SelectSeq(t.leaves[path.at].values, LAMBDA v : Exceeds(v, threshold))
        from(step, numbers) == SubSeq(numbers, step.position, Len(numbers))
    IN  IF t.count = 0 \/ path.at = 0 THEN [sum |-> 0, count |-> 0]
        ELSE FoldLeft(LAMBDA r, step :
                        [sum |-> r.sum + Total(from(step, Sums(t, t.nodes[step.node]))),
                         count |-> r.count + Total(from(step, Counts(t, t.nodes[step.node])))],
                      [sum |-> Total(above), count |-> Len(above)],
                      path.steps)

QueryGreaterThan(t, threshold) ==
    LET path == PathOf(t, {e \in Energies : Exceeds(e, threshold)}, FALSE)
        above == SelectSeq(t.leaves[path.at].values, LAMBDA v : Exceeds(v, threshold))
        behind(step, numbers) == SubSeq(numbers, step.position + 1, Len(numbers))
    IN  IF t.count = 0 \/ path.at = 0 THEN [sum |-> 0, count |-> 0]
        ELSE FoldLeft(LAMBDA r, step :
                        [sum |-> r.sum + Total(behind(step, Sums(t, t.nodes[step.node]))),
                         count |-> r.count + Total(behind(step, Counts(t, t.nodes[step.node])))],
                      [sum |-> Total(above), count |-> Len(above)],
                      path.steps)

-----------------------------------------------------------------------------
(* The analyzer's gate                                                     *)

(* A mean, or -infinity when nothing passed the gate.                      *)
NoLoudness == [sum |-> 0, count |-> 0]

ClearedOutput ==
    [valid |-> FALSE, integrated |-> NoLoudness, exceeded |-> FALSE, blockCount |-> 0]

RelativeThreshold(absolute) == [energy |-> absolute.sum, of |-> 10 * absolute.count]

StricterThreshold(a, b) == IF a.energy * b.of > b.energy * a.of THEN a ELSE b

GateThreshold(absolute) ==
    StricterThreshold([energy |-> AbsoluteGate, of |-> 1], RelativeThreshold(absolute))

(* updateIntegratedOutput                                                  *)
Updated(t, g) ==
    [valid |-> g.blocks # 0,
     integrated |-> IF g.absolute.count = 0 THEN NoLoudness
                    ELSE QueryGreaterThan(t, GateThreshold(g.absolute)),
     exceeded |-> FALSE,
     blockCount |-> g.blocks]

(* A late overflow: the last loudness stays on the output.                *)
OverflowedKeepsLast(count) == [gated EXCEPT !.exceeded = TRUE, !.blockCount = count]

(* Once too many blocks were added, no loudness until the next reset.      *)
Overflowed(count) == [ClearedOutput EXCEPT !.exceeded = TRUE, !.blockCount = count]

IndexInit ==
    /\ tree = EmptyTree
    /\ gate = [absolute |-> NoLoudness, blocks |-> 0]
    /\ gated = ClearedOutput
    /\ blocks = EmptyBag

(* addIntegrationBlock                                                     *)
AddIntegrationBlock(energy) ==
    LET counted == [gate EXCEPT !.blocks = @ + 1]
        passes == energy > AbsoluteGate
        inserted == Inserted(tree, energy)
        refused == counted.blocks > BlockCapacity \/ (passes /\ inserted = <<>>)
        passed == [counted EXCEPT !.absolute.sum = @ + energy, !.absolute.count = @ + 1]
    IN  /\ gate.blocks < MaxBlocks
        /\ blocks' = blocks (+) SetToBag({energy})
        /\ \/ /\ gated.exceeded
              /\ gated' = [gated EXCEPT !.blockCount = counted.blocks]
              /\ gate' = counted
              /\ UNCHANGED tree
           \/ /\ ~gated.exceeded
              /\ refused
              /\ gated' = Overflowed(counted.blocks)
              /\ gate' = counted
              /\ UNCHANGED tree
           \/ /\ ~gated.exceeded
              /\ ~refused
              /\ tree' = IF passes THEN inserted ELSE tree
              /\ gate' = IF passes THEN passed ELSE counted
              /\ gated' = Updated(tree', gate')

(* clearIntegrationState: the next block starts an empty programme.        *)
ClearIntegrationState ==
    /\ tree' = EmptyTree
    /\ gate' = [absolute |-> NoLoudness, blocks |-> 0]
    /\ gated' = ClearedOutput
    /\ blocks' = EmptyBag

IndexNext == ClearIntegrationState \/ \E e \in Energies : AddIntegrationBlock(e)

IndexSpec == IndexInit /\ [][IndexNext]_indexVars

-----------------------------------------------------------------------------
(* Properties                                                              *)

(* The blocks of the history that pass a test, as the index would report.  *)
Reference(Passes(_)) ==
    LET chosen == {e \in DOMAIN blocks : Passes(e)}
        occurrences(e) == CopiesIn(e, blocks)
    IN  [sum |-> FoldSet(LAMBDA e, acc : acc + e * occurrences(e), 0, chosen),
         count |-> FoldSet(LAMBDA e, acc : acc + occurrences(e), 0, chosen)]

(* The displayed loudness is the one the two-pass definition gives for the *)
(* blocks since the reset (reduceIntegratedBlockEnergies, the reference    *)
(* reduction of LoudnessAnalyzer.cpp:256): the index may not lose a block, *)
(* count one twice, or answer for another threshold.                       *)
GateIsTwoPass ==
    ~gated.exceeded =>
        LET absolute == Reference(LAMBDA e : e > AbsoluteGate)
            relative == Reference(LAMBDA e :
                            /\ e > AbsoluteGate
                            /\ 10 * e * absolute.count > absolute.sum)
        IN  /\ gated.valid <=> gate.blocks # 0
            /\ gated.integrated = IF absolute.count = 0 THEN NoLoudness ELSE relative
            /\ gate.blocks = BagCardinality(blocks)

(* An exhausted programme shows no loudness, and is exhausted exactly when *)
(* more than BlockCapacity blocks were added: the node pools reserved in   *)
(* the constructor are never the reason for an earlier refusal             *)
(* (IntegratedLoudnessIndex.cpp:167-183).                                  *)
OnlyCapacityOverflows ==
    /\ gated.exceeded <=> gate.blocks > BlockCapacity
    /\ gated.exceeded => ~gated.valid /\ gated.integrated = NoLoudness

=============================================================================
