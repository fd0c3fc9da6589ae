------------------------------- MODULE RbTree -------------------------------
(***************************************************************************)
(* The red-black tree of src/reordering_buffer/rbtree.c, as the            *)
(* resequencing counter uses it: entries are ordered by `before' on        *)
(* sequence numbers that wrap.                                             *)
(*                                                                         *)
(* A tree is a record of the root pointer and of the fields of all nodes.  *)
(* The code spells out every case twice, for a parent on the left and for  *)
(* one on the right; here the side is a parameter.                         *)
(***************************************************************************)
EXTENDS SeqSpace, FiniteSets, SequencesExt

CONSTANTS
    Nodes,      \* positions in the stream; each has a node of its own
    Isn         \* sequence number of position 0

ASSUME NodesAssumption == Nodes \subseteq 1..Half - 1

VARIABLES
    tree,       \* rb_root, with the fields of every node
    entries     \* history: the nodes inserted and not erased

vars == <<tree, entries>>

NULL == 0
Red == "red"
Black == "black"

Left == "left"
Right == "right"
Other(side) == IF side = Left THEN Right ELSE Left

Unlinked == [s \in {Left, Right} |-> NULL]

seq(n) == U32Of(Isn + n)
-----------------------------------------------------------------------------
(***************************************************************************)
(* Access to the nodes.                                                    *)
(***************************************************************************)
IsRed(t, n) == n # NULL /\ t.color[n] = Red

rb_set_parent_color(t, n, p, c) ==
    IF n = NULL THEN t ELSE [t EXCEPT !.parent[n] = p, !.color[n] = c]

rb_set_parent(t, n, p) == IF n = NULL THEN t ELSE [t EXCEPT !.parent[n] = p]

SetChild(t, n, side, c) == [t EXCEPT !.child[n][side] = c]

rb_change_child(t, old, new, parent) ==
    IF parent = NULL THEN [t EXCEPT !.root = new]
    ELSE SetChild(t, parent, IF t.child[parent][Left] = old THEN Left ELSE Right, new)

\* new takes the parent and the colour of old, and becomes its parent.
rb_rotate_set_parents(t, old, new, color) ==
    LET parent == t.parent[old]
        taken == rb_set_parent_color(t, new, parent, t.color[old])
    IN rb_change_child(rb_set_parent_color(taken, old, new, color), old, new, parent)

AdoptBlack(t, n, p) == rb_set_parent_color(t, n, p, Black)

\* The child of n on the other side rises into the place of n, which gets `color';
\* what is between them changes its parent and, if `blacken', its colour.
Rotate(t, n, side, color, blacken) ==
    LET up == t.child[n][Other(side)]
        between == t.child[up][side]
        turned == SetChild(SetChild(t, n, Other(side), between), up, side, n)
        adopted == IF blacken THEN AdoptBlack(turned, between, n)
                   ELSE rb_set_parent(turned, between, n)
    IN rb_rotate_set_parents(adopted, n, up, color)
-----------------------------------------------------------------------------
(***************************************************************************)
(* Insertion.                                                              *)
(***************************************************************************)
\* Mutant: case 2 is forgotten.
NoLift(t, node, parent, side) == t

\* Case 2: the inner grandchild changes places with the parent.
LiftInner(t, node, parent, side) ==
    LET inner == t.child[node][side]
        moved == SetChild(SetChild(t, parent, Other(side), inner), node, side, parent)
    IN rb_set_parent_color(AdoptBlack(moved, inner, parent), parent, node, Red)

RECURSIVE rb_insert(_, _, _)
rb_insert(t, node, parent) ==
    IF parent = NULL THEN rb_set_parent_color(t, node, NULL, Black)
    ELSE IF t.color[parent] = Black THEN t
    ELSE LET gparent == t.parent[parent]
             side == IF parent # t.child[gparent][Right] THEN Left ELSE Right
             uncle == t.child[gparent][Other(side)]
             up == t.parent[gparent]
         IN IF IsRed(t, uncle)
            THEN rb_insert(rb_set_parent_color(
                              AdoptBlack(AdoptBlack(t, uncle, gparent), parent, gparent),
                              gparent, up, Red),
                           gparent, up)
            ELSE LET inner == node = t.child[parent][Other(side)]
                     lifted == IF inner THEN LiftInner(t, node, parent, side) ELSE t
                     top == IF inner THEN node ELSE parent
                 IN Rotate(SetChild(lifted, gparent, side, top),
                           gparent, Other(side), Red, TRUE)

\* Where the descent of insert_or_send_packet ends: the new node and its parent.
RECURSIVE Descend(_, _, _, _)
Descend(t, n, at, parent) ==
    IF at = NULL THEN parent
    ELSE Descend(t, n, t.child[at][IF before(seq(n), seq(at)) THEN Left ELSE Right], at)

rb_link_node(t, n, parent) ==
    LET linked == [t EXCEPT !.child[n] = Unlinked, !.parent[n] = parent, !.color[n] = Red]
    IN IF parent = NULL THEN [linked EXCEPT !.root = n]
       ELSE SetChild(linked, parent,
                     IF before(seq(n), seq(parent)) THEN Left ELSE Right, n)

rb_insert_color(t, n) == rb_insert(t, n, t.parent[n])
-----------------------------------------------------------------------------
(***************************************************************************)
(* Removal.                                                                *)
(***************************************************************************)
\* Case 3: the red inner child of the sibling rises above it.
LiftNephew(t, parent, sibling, side) ==
    LET inner == t.child[sibling][side]
        outer == t.child[inner][Other(side)]
        moved == SetChild(SetChild(t, sibling, side, outer), inner, Other(side), sibling)
    IN AdoptBlack(SetChild(moved, parent, Other(side), inner), outer, sibling)

\* Case 4: the sibling rises above the parent, its outer child turns black.
LiftSibling(t, parent, side) ==
    LET sibling == t.child[parent][Other(side)]
        outer == t.child[sibling][Other(side)]
    IN Rotate(rb_set_parent_color(t, outer, sibling, Black),
              parent, side, Black, FALSE)

\* Mutant: the sibling is not made red, so the deficit is not passed on.
FlipNothing(t, sibling, parent) == t

\* Case 2: the other side gives up a black node, too.
FlipSibling(t, sibling, parent) == rb_set_parent_color(t, sibling, parent, Red)

\* The paths through node, a child of parent, lack a black node.
RECURSIVE rb_erase_color(_, _, _)
rb_erase_color(t, node, parent) ==
    LET side == IF node # t.child[parent][Right] THEN Left ELSE Right
        far == Other(side)
        turned == IF IsRed(t, t.child[parent][far])
                  THEN Rotate(t, parent, side, Red, TRUE) ELSE t     \* case 1
        sibling == turned.child[parent][far]
        flipped == FlipSibling(turned, sibling, parent)
    IN IF IsRed(turned, turned.child[sibling][far])
       THEN LiftSibling(turned, parent, side)
       ELSE IF IsRed(turned, turned.child[sibling][side])
       THEN LiftSibling(LiftNephew(turned, parent, sibling, side), parent, side)
       ELSE IF IsRed(flipped, parent) THEN [flipped EXCEPT !.color[parent] = Black]
       ELSE IF flipped.parent[parent] = NULL THEN flipped
       ELSE rb_erase_color(flipped, parent, flipped.parent[parent])

\* The node furthest down on one side.
RECURSIVE Outermost(_, _, _)
Outermost(t, n, side) ==
    IF t.child[n][side] = NULL THEN n ELSE Outermost(t, t.child[n][side], side)

\* A node with at most one child: the child takes its place and its colour.
\* Returns the tree and the node where it has to be rebalanced.
EraseLeafward(t, n) ==
    LET child == IF t.child[n][Left] = NULL THEN t.child[n][Right] ELSE t.child[n][Left]
        parent == t.parent[n]
        spliced == rb_change_child(t, n, child, parent)
    IN [tree |-> rb_set_parent_color(spliced, child, parent, t.color[n]),
        rebalance |-> IF child = NULL /\ t.color[n] = Black THEN parent ELSE NULL]

\* A node with two children: its successor takes its place and its colour.
EraseInner(t, n) ==
    LET right == t.child[n][Right]
        successor == Outermost(t, right, Left)
        near == successor = right
        child2 == t.child[successor][Right]
        parent == IF near THEN successor ELSE t.parent[successor]
        freed == IF near THEN t
                 ELSE rb_set_parent(SetChild(SetChild(t, parent, Left, child2),
                                             successor, Right, right), right, successor)
        left == t.child[n][Left]
        placed == rb_change_child(
                      rb_set_parent(SetChild(freed, successor, Left, left), left, successor),
                      n, successor, t.parent[n])
        coloured == rb_set_parent_color(placed, successor, t.parent[n], t.color[n])
    IN [tree |-> AdoptBlack(coloured, child2, parent),
        rebalance |-> IF child2 = NULL /\ t.color[successor] = Black THEN parent ELSE NULL]

\* The caller frees the node afterwards.
rb_erase(t, n) ==
    LET inner == t.child[n][Left] # NULL /\ t.child[n][Right] # NULL
        cut == IF inner THEN EraseInner(t, n) ELSE EraseLeafward(t, n)
        balanced == IF cut.rebalance = NULL THEN cut.tree
                    ELSE rb_erase_color(cut.tree, NULL, cut.rebalance)
    IN [balanced EXCEPT !.child[n] = Unlinked, !.parent[n] = NULL, !.color[n] = Red]

\* new takes over all pointers of victim, which is freed.
rb_replace_node(t, victim, new) ==
    LET outside == rb_change_child(t, victim, new, t.parent[victim])
        inside == rb_set_parent(rb_set_parent(outside, t.child[victim][Left], new),
                                t.child[victim][Right], new)
    IN [inside EXCEPT !.child[new] = t.child[victim], !.parent[new] = t.parent[victim],
                      !.color[new] = t.color[victim], !.child[victim] = Unlinked,
                      !.parent[victim] = NULL, !.color[victim] = Red]
-----------------------------------------------------------------------------
(***************************************************************************)
(* Iteration.                                                              *)
(***************************************************************************)
rb_first(t) == IF t.root = NULL THEN NULL ELSE Outermost(t, t.root, Left)
rb_last(t)  == IF t.root = NULL THEN NULL ELSE Outermost(t, t.root, Right)

\* The nearest ancestor that is not left by climbing from the given side.
RECURSIVE Climb(_, _, _)
Climb(t, n, side) ==
    LET parent == t.parent[n]
    IN IF parent # NULL /\ t.child[parent][side] = n THEN Climb(t, parent, side)
       ELSE parent

\* The neighbour of n on one side, in the order of the tree.
Neighbour(t, n, side) ==
    IF t.child[n][side] # NULL THEN Outermost(t, t.child[n][side], Other(side))
    ELSE Climb(t, n, side)

rb_next(t, n) == Neighbour(t, n, Right)
rb_prev(t, n) == Neighbour(t, n, Left)

\* The nodes that a loop from n meets; it is cut off when it meets too many.
RECURSIVE WalkFrom(_, _, _, _)
WalkFrom(t, n, Step(_, _), fuel) ==
    IF n = NULL \/ fuel = 0 THEN <<>>
    ELSE <<n>> \o WalkFrom(t, Step(t, n), Step, fuel - 1)

Walk(t, n, Step(_, _)) == WalkFrom(t, n, Step, Cardinality(Nodes) + 1)
-----------------------------------------------------------------------------
Init ==
    /\ tree = [root |-> NULL, child |-> [n \in Nodes |-> Unlinked],
               parent |-> [n \in Nodes |-> NULL], color |-> [n \in Nodes |-> Red]]
    /\ entries = {}

Insert(n) ==
    /\ n \notin entries
    /\ tree' = rb_insert_color(rb_link_node(tree, n, Descend(tree, n, tree.root, NULL)), n)
    /\ entries' = entries \cup {n}

Erase(n) ==
    /\ n \in entries
    /\ tree' = rb_erase(tree, n)
    /\ entries' = entries \ {n}

\* A caller may replace a node by one that belongs in the same place.
Replace(victim, new) ==
    /\ victim \in entries /\ new \notin entries
    /\ \A e \in entries \ {victim} : e < victim <=> e < new
    /\ tree' = rb_replace_node(tree, victim, new)
    /\ entries' = (entries \ {victim}) \cup {new}

Next ==
    \/ \E n \in Nodes : Insert(n)
    \/ \E n \in Nodes : Erase(n)
    \/ \E victim, new \in Nodes : Replace(victim, new)

Spec == Init /\ [][Next]_vars
-----------------------------------------------------------------------------
\* The numbers of black nodes on the paths from n down to the leaves.
RECURSIVE BlackHeights(_)
BlackHeights(n) ==
    IF n = NULL THEN {0}
    ELSE {h + IF tree.color[n] = Black THEN 1 ELSE 0 :
             h \in UNION {BlackHeights(tree.child[n][s]) : s \in {Left, Right}}}

\* The properties 2, 4 and 5 of the comment in lines 25-33: the root is black, the
\* children of a red node are black and all paths down from the root have the
\* same number of black nodes, after any sequence of insertions, removals and
\* replacements.
RedBlack ==
    /\ ~IsRed(tree, tree.root)
    /\ \A n \in entries : IsRed(tree, n) => \A s \in {Left, Right} :
            ~IsRed(tree, tree.child[n][s])
    /\ Cardinality(BlackHeights(tree.root)) = 1

\* The tree is the set that insert_or_send_packet takes it for: a loop with rb_next
\* meets what was inserted and not erased, once each and in the order of the
\* stream although the numbers wrap, and a loop with rb_prev the same backwards.
WalksInOrder ==
    LET sorted == SelectSeq([n \in 1..Half - 1 |-> n], LAMBDA n : n \in entries)
    IN /\ Walk(tree, rb_first(tree), rb_next) = sorted
       /\ Walk(tree, rb_last(tree), rb_prev) = Reverse(sorted)
=============================================================================
