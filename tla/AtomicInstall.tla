--------------------------- MODULE AtomicInstall ----------------------------
(***************************************************************************)
(* What the installer promises: a tree that changes only by an edit of one *)
(* file, or from one complete installation to another in a single step.    *)
(***************************************************************************)
CONSTANTS
    Files,             \* the files that edits change
    Installation(_, _) \* tree u is a complete installation over tree t

VARIABLE tree

Edit == \E f \in Files : \A x \in DOMAIN tree : x # f => tree'[x] = tree[x]
Switch == Installation(tree, tree')

Next == Edit \/ Switch

Spec == [][DOMAIN tree' = DOMAIN tree /\ Next]_tree
=============================================================================
