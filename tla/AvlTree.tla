------------------------------- MODULE AvlTree -------------------------------
(***************************************************************************)
(* The AVL tree of src/comm/avl-tree.c, with its nodes, child and parent   *)
(* pointers and stored heights.  An operator that stands for one of the    *)
(* code's static functions takes the pointers it finds and returns the     *)
(* ones it leaves.                                                         *)
(*                                                                         *)
(* Keys compare as numbers, and several nodes may have the same one.  The  *)
(* value of a node never moves to another node and is left out.  A malloc  *)
(* that fails changes nothing.                                             *)
(***************************************************************************)
EXTENDS Integers, Sequences, FiniteSets, SequencesExt

CONSTANTS
    Nodes,      \* bound: the addresses malloc returns
    Keys,
    Null

ASSUME AvlTreeAssumption ==
    IsFiniteSet(Nodes) /\ Keys \subseteq Int /\ Null \notin Nodes

VARIABLES
    tree,       \* root_node and the children, parent and height of each node
    key,
    used,       \* the nodes malloc'd and not free'd
    num_nodes

vars == <<tree, key, used, num_nodes>>

Left == 0
Right == 1

Init ==
    /\ tree = [root_node |-> Null,
               children  |-> [n \in Nodes |-> [side \in {Left, Right} |-> Null]],
               parent    |-> [n \in Nodes |-> Null],
               height    |-> [n \in Nodes |-> 0]]
    /\ key = [n \in Nodes |-> CHOOSE k \in Keys : TRUE]
    /\ used = {} /\ num_nodes = 0

-----------------------------------------------------------------------------
(* Pointers and heights.                                                   *)

subtree_height(t, n) == IF n = Null THEN 0 ELSE t.height[n]

\* How much higher the subtree of n is on the right.
Bias(t, n) ==
    subtree_height(t, t.children[n][Right]) - subtree_height(t, t.children[n][Left])

update_height(t, n) ==
    [t EXCEPT !.height[n] =
        1 + IF Bias(t, n) < 0 THEN subtree_height(t, t.children[n][Left])
                              ELSE subtree_height(t, t.children[n][Right])]

parent_side(t, n) == IF t.children[t.parent[n]][Left] = n THEN Left ELSE Right

SetParent(t, n, p) == IF n = Null THEN t ELSE [t EXCEPT !.parent[n] = p]

\* Replace node1 with node2 at its parent.
node_replace(t, node1, node2) ==
    LET p == t.parent[node1]
        s == SetParent(t, node2, p)
    IN IF p = Null THEN [s EXCEPT !.root_node = node2]
       ELSE update_height([s EXCEPT !.children[p][parent_side(t, node1)] = node2], p)

\* Mutant: the subtree that changes sides keeps its parent.
Moved_only(t, n, r, direction) ==
    [t EXCEPT !.children[n][1 - direction] = t.children[r][direction],
              !.children[r][direction] = n,
              !.parent[n] = r]

\* "Rearrange pointers": n goes below r, which passes a subtree on to it.
Moved(t, n, r, direction) ==
    LET c == t.children[r][direction] IN
    SetParent([t EXCEPT !.children[n][1 - direction] = c,
                        !.children[r][direction] = n,
                        !.parent[n] = r], c, n)

avl_tree_rotate(t, n, direction) ==
    LET r == t.children[n][1 - direction]
    IN update_height(
         update_height(Moved(node_replace(t, n, r), n, r, direction), r), n)

\* The subtree of n once it is rotated in a direction, and first, if the child
\* that goes up is biased that way, the subtree of the child in the other.
Rotated(t, n, direction) ==
    LET child == t.children[n][1 - direction]
        inner == t.children[child]
        s == IF subtree_height(t, inner[1 - direction]) < subtree_height(t, inner[direction])
             THEN avl_tree_rotate(t, child, 1 - direction) ELSE t
        r == s.children[n][1 - direction]
    IN [tree |-> update_height(avl_tree_rotate(s, n, direction), r), node |-> r]

node_balance(t, n) ==
    IF Bias(t, n) >= 2 THEN Rotated(t, n, Left)
    ELSE IF Bias(t, n) <= -2 THEN Rotated(t, n, Right)
    ELSE [tree |-> update_height(t, n), node |-> n]

\* Walk up from n, which may be NULL, and balance.
balance_to_root(t, n) ==
    LET Up(s, i) ==
            IF s.rover = Null THEN s
            ELSE LET b == node_balance(s.tree, s.rover)
                 IN [tree |-> b.tree, rover |-> b.tree.parent[b.node]]
    IN FoldLeft(Up, [tree |-> t, rover |-> n], [i \in 1 .. Cardinality(Nodes) |-> i]).tree

-----------------------------------------------------------------------------
(* Walking down and through the tree.                                      *)

\* The nodes from n on, each followed by Step of it, until NULL.
Chain(n, Step(_)) ==
    LET at[i \in 0 .. Cardinality(Nodes)] ==
            IF i = 0 THEN n ELSE IF at[i - 1] = Null THEN Null ELSE Step(at[i - 1])
    IN SelectSeq([i \in 1 .. Cardinality(Nodes) + 1 |-> at[i - 1]], LAMBDA m : m # Null)

End(chain) == IF chain = <<>> THEN Null ELSE chain[Len(chain)]

\* Mutant: an equal key goes to the left.
InsertSide_equal_left(k, n) == IF k <= key[n] THEN Left ELSE Right

InsertSide(k, n) == IF k < key[n] THEN Left ELSE Right

avl_tree_lookup_node(k) ==
    LET Step(n) == IF k = key[n] THEN Null
                   ELSE tree.children[n][IF k < key[n] THEN Left ELSE Right]
        n == End(Chain(tree.root_node, Step))
    IN IF n # Null /\ key[n] = k THEN n ELSE Null

\* The nodes in the order of avl_tree_to_array.
InOrder ==
    LET walk[d \in 0 .. Cardinality(Nodes), n \in Nodes \cup {Null}] ==
            IF d = 0 \/ n = Null THEN <<>>
            ELSE walk[d - 1, tree.children[n][Left]] \o <<n>> \o
                 walk[d - 1, tree.children[n][Right]]
    IN walk[Cardinality(Nodes), tree.root_node]

-----------------------------------------------------------------------------
(* The calls.                                                              *)

avl_tree_insert(n, k) ==
    LET previous_node == End(Chain(tree.root_node,
                                   LAMBDA m : tree.children[m][InsertSide(k, m)]))
        new == [tree EXCEPT !.children[n] = [side \in {Left, Right} |-> Null],
                            !.parent[n] = previous_node, !.height[n] = 1]
        linked == IF previous_node = Null THEN [new EXCEPT !.root_node = n]
                  ELSE [new EXCEPT !.children[previous_node][InsertSide(k, previous_node)] = n]
    IN /\ n \notin used
       /\ used' = used \cup {n}
       /\ key' = [key EXCEPT ![n] = k]
       /\ tree' = balance_to_root(linked, previous_node)
       /\ num_nodes' = num_nodes + 1

\* Mutant: takes the child instead of the nearest node below it.
Nearest_child(n, side) == tree.children[n][side]

\* "Search down the tree, back towards the center."
Nearest(n, side) ==
    End(Chain(tree.children[n][side], LAMBDA m : tree.children[m][1 - side]))

\* The node that takes the place of n, and the pointers once it is unlinked.
node_get_replacement(n) ==
    LET side == IF Bias(tree, n) > 0 THEN Right ELSE Left
        result == Nearest(n, side)
    IN [node |-> result,
        tree |-> update_height(node_replace(tree, result, tree.children[result][side]),
                               tree.parent[result])]

\* Mutant: does not begin below the place of the removed node.
StartPoint_swap(n, swap_node) == swap_node

\* Where rebalancing starts.
StartPoint(n, swap_node) ==
    IF tree.parent[swap_node] = n THEN swap_node ELSE tree.parent[swap_node]

\* The pointers once swap_node has those of n and n's place.
Swapped(t, n, swap_node) ==
    LET s == [t EXCEPT !.children[swap_node] = t.children[n],
                       !.height[swap_node] = t.height[n]]
    IN node_replace(SetParent(SetParent(s, t.children[n][Left], swap_node),
                              t.children[n][Right], swap_node),
                    n, swap_node)

\* Mutant: the removed node is still counted.
Uncounted_not == num_nodes

Uncounted == num_nodes - 1

avl_tree_remove_node(n) ==
    /\ n \in used
    /\ IF tree.children[n] = [side \in {Left, Right} |-> Null]
       THEN tree' = balance_to_root(node_replace(tree, n, Null), tree.parent[n])
       ELSE LET r == node_get_replacement(n)
            IN tree' = balance_to_root(Swapped(r.tree, n, r.node), StartPoint(n, r.node))
    /\ used' = used \ {n}
    /\ num_nodes' = Uncounted
    /\ UNCHANGED key

avl_tree_remove(k) ==
    IF avl_tree_lookup_node(k) = Null THEN UNCHANGED vars
    ELSE avl_tree_remove_node(avl_tree_lookup_node(k))

\* avl_tree_free, and avl_tree_new for the next tree.
avl_tree_free ==
    /\ used' = used \ Range(InOrder)
    /\ tree' = [tree EXCEPT !.root_node = Null] /\ num_nodes' = 0
    /\ UNCHANGED key

-----------------------------------------------------------------------------
Next ==
    \/ \E n \in Nodes, k \in Keys : avl_tree_insert(n, k)
    \/ \E n \in Nodes : avl_tree_remove_node(n)
    \/ \E k \in Keys : avl_tree_remove(k)
    \/ avl_tree_free

Spec == Init /\ [][Next]_vars

-----------------------------------------------------------------------------
(* Properties.                                                             *)

\* After every call each allocated node is in the tree exactly once, num_nodes
\* counts them, and the parent pointers are the inverse of the child pointers:
\* a rotation or a removal neither drops, shares nor leaks a subtree.
WellFormed ==
    /\ Range(InOrder) = used /\ Len(InOrder) = num_nodes /\ num_nodes = Cardinality(used)
    /\ \A n \in used : n = tree.root_node <=> tree.parent[n] = Null
    /\ \A n \in used, side \in {Left, Right} :
          LET c == tree.children[n][side] IN c # Null => tree.parent[c] = n

\* "the tree remains balanced at all times": the stored heights, of which
\* rotations leave some stale on the way, are exact after every call, and those
\* of two siblings differ by at most one.
Balanced ==
    \A n \in used : Bias(tree, n) \in -1 .. 1 /\ update_height(tree, n) = tree

\* The keys are in order, and although rotations bring equal keys to both
\* sides of a node a lookup finds a node whenever there is one.
SearchTree ==
    /\ \A i, j \in DOMAIN InOrder : i < j => key[InOrder[i]] <= key[InOrder[j]]
    /\ \A k \in Keys :
          avl_tree_lookup_node(k) = Null <=> \A n \in used : key[n] # k

\* After every call the pointers are a balanced search tree of the nodes that
\* were inserted and not removed.
BalancedSearchTree == WellFormed /\ Balanced /\ SearchTree

\* No call changes the order of the nodes that stay, those with equal keys
\* included, and a new node comes after the ones with the same key.
StableOrder ==
    [][/\ SelectSeq(InOrder', LAMBDA n : n \in used)
            = SelectSeq(InOrder, LAMBDA n : n \in used')
       /\ \A i, j \in DOMAIN InOrder' :
             (InOrder'[i] \notin used /\ key'[InOrder'[i]] = key'[InOrder'[j]]) => j <= i]_vars

=============================================================================
