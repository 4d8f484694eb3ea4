------------------------------ MODULE TreeCopies ------------------------------
(***************************************************************************)
(* What the copy-on-write tree of src/cow promises its users: every tree is *)
(* a map of its own.  Clone copies the map, and a later Upsert of one tree   *)
(* is never seen through another.                                           *)
(***************************************************************************)
CONSTANTS Tree, Key, Value,
          Absent  \* what Get answers for a key the tree does not hold

VARIABLES made,     \* the trees that exist
          contents  \* contents[t][k]: what Get(k) of tree t answers

Empty == [k \in Key |-> Absent]

Init == made = {} /\ contents = [t \in Tree |-> Empty]

Create(t) == /\ t \notin made
             /\ made' = made \cup {t}
             /\ UNCHANGED contents

Copy(t, u) == /\ t \in made /\ u \notin made
              /\ made' = made \cup {u}
              /\ contents' = [contents EXCEPT ![u] = contents[t]]

Put(t, k, v) == /\ t \in made
                /\ contents' = [contents EXCEPT ![t][k] = v]
                /\ UNCHANGED made

Next == \/ \E t \in Tree : Create(t)
        \/ \E t, u \in Tree : Copy(t, u)
        \/ \E t \in Tree, k \in Key, v \in Value : Put(t, k, v)

Spec == Init /\ [][Next]_<<made, contents>>
================================================================================
