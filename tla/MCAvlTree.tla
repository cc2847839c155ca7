------------------------------ MODULE MCAvlTree ------------------------------
(***************************************************************************)
(* An instance of AvlTree for TLC: trees of up to twelve nodes, the first  *)
(* size at which a removal rotates at two levels.                          *)
(***************************************************************************)
EXTENDS AvlTree

\* The state up to the addresses of the nodes, which the code only compares
\* for equality: what the tree holds, by position.
Shape ==
    LET Position(n) == {i \in DOMAIN InOrder : InOrder[i] = n}
    IN <<[i \in DOMAIN InOrder |->
            <<key[InOrder[i]], tree.height[InOrder[i]], Position(tree.parent[InOrder[i]])>>],
         num_nodes, Cardinality(used)>>

=============================================================================
