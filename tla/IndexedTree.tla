----------------------------- MODULE IndexedTree -----------------------------
(***************************************************************************)
(* The ordered index of the state in memory: a balanced tree in an arena   *)
(* of slots (src/src/indexed_avl.rs).  A key keeps the slot it was put in  *)
(* until it is removed, however the tree is turned around it: callers hold *)
(* on to slots.  Slots that were freed form a list and are used first.     *)
(*                                                                         *)
(* The two sides of the tree are treated alike: an operator takes the side *)
(* it works from.                                                          *)
(***************************************************************************)
EXTENDS Integers, Sequences, SequencesExt

CONSTANTS
    TreeKeys,       \* positive numbers
    TreeCapacity    \* max_entries

VARIABLES
    tree,           \* the root, the slots, the first free slot and the length
    placed          \* history: the keys put in and not removed, with their slots

treeVars == <<tree, placed>>

Absent == 0

NewNode(key) == [key |-> key, left |-> Absent, right |-> Absent, height |-> 1]
VacantSlot(next) == [next |-> next]
IsNode(slot) == "key" \in DOMAIN slot

TreeInit ==
    /\ tree = [root |-> Absent, slots |-> <<>>, free |-> Absent, len |-> 0]
    /\ placed = <<>>

Opposite(side) == IF side = "left" THEN "right" ELSE "left"

----------------------------------------------------------------------------
(* Balance *)

Height(slots, index) == IF index = Absent THEN 0 ELSE slots[index].height

UpdateHeight(slots, index) ==
    LET left == Height(slots, slots[index].left)
        right == Height(slots, slots[index].right)
    IN  [slots EXCEPT ![index].height = (IF left > right THEN left ELSE right) + 1]

\* How much higher the tree is on one side.
BalanceFactor(slots, index, side) ==
    Height(slots, slots[index][side]) - Height(slots, slots[index][Opposite(side)])

\* rotate_left, rotate_right: the root goes down on the named side.
Rotate(slots, root, side) ==
    LET pivot == slots[root][Opposite(side)]
        turned == [slots EXCEPT ![root][Opposite(side)] = slots[pivot][side],
                                ![pivot][side] = root]
    IN  [slots |-> UpdateHeight(UpdateHeight(turned, root), pivot), root |-> pivot]

\* The higher child leans to the inside.
IsBent(slots, child, side) == BalanceFactor(slots, child, side) < 0

Rebalance(slots, index) ==
    LET updated == UpdateHeight(slots, index)
        side == IF BalanceFactor(updated, index, "left") > 0 THEN "left" ELSE "right"
        child == updated[index][side]
        inner == Rotate(updated, child, side)
        straight == IF IsBent(updated, child, side)
                    THEN [inner.slots EXCEPT ![index][side] = inner.root] ELSE updated
    IN  IF BalanceFactor(updated, index, side) > 1 THEN Rotate(straight, index, Opposite(side))
        ELSE [slots |-> updated, root |-> index]

----------------------------------------------------------------------------
(* Operations *)

RECURSIVE FindFrom(_, _, _)
FindFrom(slots, index, key) ==
    IF index = Absent \/ slots[index].key = key THEN index
    ELSE FindFrom(slots, slots[index][IF key < slots[index].key THEN "left" ELSE "right"], key)

FindIndex(key) == FindFrom(tree.slots, tree.root, key)

RECURSIVE InsertIndex(_, _, _, _)
InsertIndex(slots, root, inserted, key) ==
    IF root = Absent THEN [slots |-> slots, root |-> inserted]
    ELSE LET side == IF key < slots[root].key THEN "left" ELSE "right"
             child == InsertIndex(slots, slots[root][side], inserted, key)
         IN  Rebalance([child.slots EXCEPT ![root][side] = child.root], root)

RECURSIVE DetachMinimum(_, _)
DetachMinimum(slots, root) ==
    IF slots[root].left = Absent
    THEN [slots |-> slots, root |-> slots[root].right, minimum |-> root]
    ELSE LET child == DetachMinimum(slots, slots[root].left)
             balanced == Rebalance([child.slots EXCEPT ![root].left = child.root], root)
         IN  [minimum |-> child.minimum] @@ balanced

\* Mutant of RemoveRoot: the next node takes over the links as they are.
RemoveRootInPlace(slots, root) ==
    LET node == slots[root]
        rest == DetachMinimum(slots, node.right)
    IN  IF node.left = Absent THEN [slots |-> slots, root |-> node.right]
        ELSE IF node.right = Absent THEN [slots |-> slots, root |-> node.left]
        ELSE [slots |-> [rest.slots EXCEPT ![rest.minimum].left = node.left,
                                           ![rest.minimum].right = rest.root],
              root |-> rest.minimum]

\* A node with two children is replaced by the next one in order.
RemoveRoot(slots, root) ==
    LET node == slots[root]
        rest == DetachMinimum(slots, node.right)
    IN  IF node.left = Absent THEN [slots |-> slots, root |-> node.right]
        ELSE IF node.right = Absent THEN [slots |-> slots, root |-> node.left]
        ELSE Rebalance([rest.slots EXCEPT ![rest.minimum].left = node.left,
                                          ![rest.minimum].right = rest.root], rest.minimum)

RECURSIVE DeleteIndex(_, _, _)
DeleteIndex(slots, root, key) ==
    IF root = Absent THEN [slots |-> slots, root |-> Absent]
    ELSE IF key = slots[root].key THEN RemoveRoot(slots, root)
    ELSE LET side == IF key < slots[root].key THEN "left" ELSE "right"
             child == DeleteIndex(slots, slots[root][side], key)
         IN  Rebalance([child.slots EXCEPT ![root][side] = child.root], root)

\* A new key in the slot that was freed last, or in a new one.
InsertKey(key) ==
    /\ FindIndex(key) = Absent
    /\ tree.free # Absent \/ Len(tree.slots) < TreeCapacity
    /\ LET reused == tree.free # Absent
           index == IF reused THEN tree.free ELSE Len(tree.slots) + 1
           slots == IF reused THEN [tree.slots EXCEPT ![index] = NewNode(key)]
                    ELSE Append(tree.slots, NewNode(key))
           inserted == InsertIndex(slots, tree.root, index, key)
       IN  /\ tree' = [root |-> inserted.root, slots |-> inserted.slots,
                       free |-> IF reused THEN tree.slots[index].next ELSE Absent,
                       len |-> tree.len + 1]
           /\ placed' = (key :> index) @@ placed

\* By the key, or by its slot and the key.
RemoveKey(key) ==
    /\ FindIndex(key) # Absent
    /\ LET removed == FindIndex(key)
           rest == DeleteIndex(tree.slots, tree.root, key)
       IN  tree' = [root |-> rest.root,
                    slots |-> [rest.slots EXCEPT ![removed] = VacantSlot(tree.free)],
                    free |-> removed, len |-> tree.len - 1]
    /\ placed' = [k \in DOMAIN placed \ {key} |-> placed[k]]

\* Every slot becomes free, the first one first.
ClearTree ==
    /\ tree' = [root |-> Absent,
                slots |-> [i \in DOMAIN tree.slots |->
                             VacantSlot(IF i = Len(tree.slots) THEN Absent ELSE i + 1)],
                free |-> IF tree.slots = <<>> THEN Absent ELSE 1,
                len |-> 0]
    /\ placed' = <<>>

TreeNext == (\E key \in TreeKeys : InsertKey(key) \/ RemoveKey(key)) \/ ClearTree

----------------------------------------------------------------------------
(* Reading in order *)

\* first_key_value, last_key_value
RECURSIVE Outermost(_, _)
Outermost(index, side) ==
    IF tree.slots[index][side] = Absent THEN tree.slots[index].key
    ELSE Outermost(tree.slots[index][side], side)

\* Whether the first of two keys comes first from a side.
Before(a, b, side) == IF side = "left" THEN a < b ELSE a > b

\* predecessor_key (on the left), successor_key (on the right)
RECURSIVE Neighbour(_, _, _, _)
Neighbour(index, key, side, candidate) ==
    IF index = Absent THEN candidate
    ELSE LET node == tree.slots[index] IN
         IF Before(node.key, key, side) THEN Neighbour(node[Opposite(side)], key, side, node.key)
         ELSE Neighbour(node[side], key, side, candidate)

\* push_front, push_back: the way down a side, as far as it is in the range.
RECURSIVE Push(_, _, _, _)
Push(stack, index, side, range) ==
    IF index = Absent THEN stack
    ELSE LET node == tree.slots[index] IN
         IF node.key < range.low THEN Push(stack, node.right, side, range)
         ELSE IF node.key > range.high THEN Push(stack, node.left, side, range)
         ELSE Push(Append(stack, index), node[side], side, range)

\* A walk over a range from both ends: what is still to be visited from each,
\* and what was.
StartWalk(range) ==
    [stack |-> [side \in {"left", "right"} |->
                  IF range.low > range.high THEN <<>> ELSE Push(<<>>, tree.root, side, range)],
     seen |-> [side \in {"left", "right"} |-> <<>>]]

\* next, next_back: the end is where the two meet.
IsFinished(walk, side) ==
    LET others == walk.seen[Opposite(side)] IN
    \/ walk.stack[side] = <<>>
    \/ /\ others # <<>>
       /\ ~Before(tree.slots[Last(walk.stack[side])].key, Last(others), side)

Visit(walk, side, range) ==
    LET node == tree.slots[Last(walk.stack[side])] IN
    [walk EXCEPT !.stack[side] = Push(Front(@), node[Opposite(side)], side, range),
                 !.seen[side] = Append(@, node.key)]

\* The keys of a range in order, taken from one end or from both in turn.
RECURSIVE Walked(_, _, _, _)
Walked(walk, side, turning, range) ==
    IF IsFinished(walk, side) THEN walk.seen["left"] \o Reverse(walk.seen["right"])
    ELSE Walked(Visit(walk, side, range), IF turning THEN Opposite(side) ELSE side, turning, range)

\* iter: over everything, ended by the length.
RECURSIVE Iterated(_, _, _, _)
Iterated(walk, side, turning, remaining) ==
    LET range == [low |-> 0, high |-> Max(TreeKeys)] IN
    IF remaining = 0 THEN walk.seen["left"] \o Reverse(walk.seen["right"])
    ELSE Iterated(Visit(walk, side, range), IF turning THEN Opposite(side) ELSE side,
                  turning, remaining - 1)

----------------------------------------------------------------------------
(* Properties *)

\* validate_subtree: strict order, balance and the heights kept.
RECURSIVE SubtreeFits(_, _, _)
SubtreeFits(index, low, high) ==
    index # Absent =>
      LET node == tree.slots[index] IN
      /\ IsNode(node)
      /\ low < node.key /\ node.key < high
      /\ SubtreeFits(node.left, low, node.key) /\ SubtreeFits(node.right, node.key, high)
      /\ BalanceFactor(tree.slots, index, "left") \in -1 .. 1
      /\ node.height = UpdateHeight(tree.slots, index)[index].height

\* The free list, as far as it goes.
RECURSIVE FreeFrom(_, _)
FreeFrom(index, passed) ==
    IF index = Absent \/ index \in passed THEN passed
    ELSE FreeFrom(tree.slots[index].next, passed \cup {index})

\* validate
ArenaFits ==
    LET nodes == {i \in DOMAIN tree.slots : IsNode(tree.slots[i])} IN
    /\ tree.len = Cardinality(nodes)
    /\ Len(tree.slots) <= TreeCapacity
    /\ FreeFrom(tree.free, {}) = DOMAIN tree.slots \ nodes
    /\ \A index \in nodes : FindIndex(tree.slots[index].key) = index

\* The keys of a range in order, from the tree.
Sorted(range) ==
    LET IsRead(key) == key \in DOMAIN placed /\ key \in range.low .. range.high
    IN  SelectSeq([key \in 1 .. Max(TreeKeys) |-> key], IsRead)

\* Ranges from either end and from both, neighbours and ends.
ReadsInOrder ==
    LET keys == DOMAIN placed
        everything == [low |-> 0, high |-> Max(TreeKeys)]
    IN  /\ keys # {} =>
             \A low, high \in TreeKeys :
                LET range == [low |-> low, high |-> high]
                    sorted == Sorted(range)
                IN  \A side \in {"left", "right"}, turning \in BOOLEAN :
                       Walked(StartWalk(range), side, turning, range) = sorted
        /\ \A side \in {"left", "right"}, turning \in BOOLEAN :
             Iterated(StartWalk(everything), side, turning, tree.len) = Sorted(everything)
        /\ \A key \in TreeKeys :
             LET less == {k \in keys : k < key}
                 more == {k \in keys : k > key}
             IN  /\ Neighbour(tree.root, key, "left", Absent) = IF less = {} THEN Absent ELSE Max(less)
                 /\ Neighbour(tree.root, key, "right", Absent) = IF more = {} THEN Absent ELSE Min(more)
        /\ keys # {} => /\ Outermost(tree.root, "left") = Min(keys)
                        /\ Outermost(tree.root, "right") = Max(keys)

\* Whatever was put in, taken out and put in again, the tree stays balanced
\* and its arena whole; each key is found in the slot it was first put in, and
\* ranges, neighbours and ends are those of the keys in order, from whichever
\* side they are read.
TreeIsOrdered ==
    /\ SubtreeFits(tree.root, 0, Max(TreeKeys) + 1)
    /\ ArenaFits
    /\ \A key \in TreeKeys :
         FindIndex(key) = IF key \in DOMAIN placed THEN placed[key] ELSE Absent
    /\ ReadsInOrder

=============================================================================
