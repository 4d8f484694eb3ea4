------------------------------- MODULE MCCowTree -------------------------------
(***************************************************************************)
(* Bounds for CowTree after the main function of src/cow: one NewTree, one   *)
(* Clone, three keys, and room for the three nodes of the origin and two     *)
(* copies of a root and a child.  The key 1 is the one that is overwritten;  *)
(* in the trees that arise it is a root, a child or a grandchild.            *)
(***************************************************************************)
EXTENDS CowTree, TLC

Inputs == {[key |-> 1, value |-> 1], [key |-> 1, value |-> 2],
           [key |-> 2, value |-> 1], [key |-> 3, value |-> 1]}

(* Trees are interchangeable. *)
Symmetry == Permutations(Tree)
================================================================================
