----------------------------- MODULE CowTreeProofs -----------------------------
(***************************************************************************)
(* Ownership of nodes in CowTree, for every number of trees, keys, nodes and *)
(* contexts.  Type correctness and Ownership are inductive together: a copy  *)
(* has the children of a node that was reachable from the copying tree, and  *)
(* if another tree owned one of them, OwnedParents would carry the ownership *)
(* up the path, to a node the writer owns or to its root.                    *)
(*                                                                         *)
(* That the trees are independent maps is shown of what Get answers in a heap. *)
(* The answers are one function of the nodes as long as no path is a cycle, and *)
(* two heaps that agree on nodes no walk leaves answer alike there.  So a copy *)
(* answers what its original does; a write to nodes of one tree is not seen     *)
(* through the others, whose walks stay on nodes it does not own; and what is   *)
(* written at the end of a walk is found from the root the walk began at.      *)
(***************************************************************************)
EXTENDS CowTree, DataInduction

IInv == TypeOK /\ Ownership

USE CowAssumption DEF nil

(* A field of a node is replaced and nothing else.                           *)
LEMMA ReplacedField ==
    ASSUME NEW r \in Node, NEW c \in Nat, NEW v \in Value
    PROVE  /\ [r EXCEPT !.left = c] = [key |-> r.key, value |-> r.value,
                    left |-> c, right |-> r.right, cow |-> r.cow]
           /\ [r EXCEPT !.right = c] = [key |-> r.key, value |-> r.value,
                    left |-> r.left, right |-> c, cow |-> r.cow]
           /\ [r EXCEPT !.value = v] = [key |-> r.key, value |-> v,
                    left |-> r.left, right |-> r.right, cow |-> r.cow]
           /\ [r EXCEPT !.cow = c] = [key |-> r.key, value |-> r.value,
                    left |-> r.left, right |-> r.right, cow |-> c]
  BY DEF Node

(* WithChild changes one pointer, and leaves the owner alone.                *)
LEMMA ReplacedChild ==
    ASSUME TypeOK, NEW n \in 1..count, NEW k \in Key, NEW c \in 0..(count + 1)
    PROVE  /\ WithChild(n, k, c) \in Node
           /\ WithChild(n, k, c).cow = nodes[n].cow
           /\ WithChild(n, k, c).left \in {nodes[n].left, c}
           /\ WithChild(n, k, c).right \in {nodes[n].right, c}
  <1>1. PICK r \in Node : r = nodes[n]
    BY DEF TypeOK
  <1>2. WithChild(n, k, c) = IF k < r.key
            THEN [key |-> r.key, value |-> r.value,
                  left |-> c, right |-> r.right, cow |-> r.cow]
            ELSE [key |-> r.key, value |-> r.value,
                  left |-> r.left, right |-> c, cow |-> r.cow]
    <2>1. c \in Nat
      BY DEF TypeOK
    <2>2. WithChild(n, k, c) = IF k < r.key THEN [r EXCEPT !.left = c]
                                            ELSE [r EXCEPT !.right = c]
      BY <1>1, Zenon DEF WithChild
    <2>3. /\ [r EXCEPT !.left = c] = [key |-> r.key, value |-> r.value,
                    left |-> c, right |-> r.right, cow |-> r.cow]
          /\ [r EXCEPT !.right = c] = [key |-> r.key, value |-> r.value,
                    left |-> r.left, right |-> c, cow |-> r.cow]
      BY <2>1 DEF Node
    <2> QED BY <2>2, <2>3, Zenon
  <1> QED BY <1>1, <1>2 DEF TypeOK, Node

(* A walk goes on to one of the children, or ends at nil.                    *)
LEMMA ChildIsPointer ==
    ASSUME TypeOK, NEW n \in 1..count, NEW k \in Key
    PROVE  Child(n, k) \in 0..count /\ Child(n, k) \in {nodes[n].left, nodes[n].right}
  BY DEF TypeOK, Child

(* No tree exists, so there is nothing to own.                               *)
THEOREM InitIInv == Init => IInv
  BY DEF Init, IInv, TypeOK, Ownership, OwnedParents, OwnedRoots, WriterOwns,
         DistinctContexts, Exists, Owned

(* What an allocating step of tree t does to the heap: the new node carries  *)
(* the context of t, old nodes keep theirs, only nodes of t are linked to    *)
(* the new one, and no other tree owns a child of it.                        *)
HeapGrows(t) ==
    /\ count' = count + 1
    /\ UNCHANGED <<cows, cow>>
    /\ nodes' \in [1..(count + 1) -> Node]
    /\ \A n \in 1..(count + 1) : /\ nodes'[n].left \in 0..(count + 1)
                                 /\ nodes'[n].right \in 0..(count + 1)
    /\ nodes'[count + 1].cow = cow[t]
    /\ \A n \in 1..count : /\ nodes'[n].cow = nodes[n].cow
                           /\ nodes'[n].left \in {nodes[n].left, count + 1}
                           /\ nodes'[n].right \in {nodes[n].right, count + 1}
                           /\ count + 1 \in {nodes'[n].left, nodes'[n].right}
                                => Owned(n, t)
    /\ \A x \in {nodes'[count + 1].left, nodes'[count + 1].right}, u \in Tree :
          x # nil => x \in 1..count /\ (Exists(u) /\ Owned(x, u) => u = t)

(* A step that allocates a node for t keeps every other tree out of it.      *)
LEMMA GrowthKeepsOwnership ==
    ASSUME IInv, NEW t \in Tree, Exists(t), HeapGrows(t),
           root' \in [Tree -> 0..(count + 1)],
           at' \in [Tree -> 0..(count + 1)],
           \A u \in Tree \ {t} : root'[u] = root[u] /\ at'[u] = at[u],
           root'[t] \in {root[t], count + 1},
           at'[t] \in {nil, count + 1} \/ (at'[t] \in 1..count /\ Owned(at'[t], t))
    PROVE  Ownership'
  <1>0. /\ count \in Nat /\ count' = count + 1 /\ cow' = cow
        /\ \A n \in 1..count : nodes'[n].cow = nodes[n].cow
        /\ nodes'[count + 1].cow = cow[t]
    BY Zenon DEF HeapGrows, IInv, TypeOK
  <1>1. \A m \in 1..(count + 1) : nodes'[m].cow = IF m = count + 1 THEN cow[t] ELSE nodes[m].cow
    BY <1>0
  <1>2. OwnedParents'
    <2> SUFFICES ASSUME NEW u \in Tree, NEW m \in 1..(count + 1), NEW n \in 1..(count + 1),
                        Exists(u), nodes'[n].cow = cow[u],
                        n \in {nodes'[m].left, nodes'[m].right}
                 PROVE  nodes'[m].cow = cow[u]
      BY DEF OwnedParents, HeapGrows, Exists, Owned
    <2>a. m = count + 1 \/ m \in 1..count
      BY <1>0
    <2>b. n = count + 1 \/ n \in 1..count
      BY <1>0
    <2>1. CASE m = count + 1
      <3>1. n \in 1..count /\ (Exists(u) /\ Owned(n, u) => u = t)
        <4>1. n \in {nodes'[count + 1].left, nodes'[count + 1].right} /\ n # nil
          BY <2>1, <1>0
        <4> QED BY <4>1, Zenon DEF HeapGrows
      <3>2. Owned(n, u)
        BY <3>1, <1>0 DEF Owned
      <3> QED BY <2>1, <3>1, <3>2, <1>0
    <2>2. CASE m \in 1..count /\ n = count + 1
      <3>1. cow[u] = cow[t]
        BY <2>2, <1>0
      <3>2. u = t
        BY <3>1, Zenon DEF IInv, Ownership, DistinctContexts
      <3>3. Owned(m, t)
        BY <2>2, Zenon DEF HeapGrows
      <3> QED BY <2>2, <3>2, <3>3, <1>0 DEF Owned
    <2>3. CASE m \in 1..count /\ n \in 1..count
      <3>0. n # count + 1
        BY <2>3, <1>0
      <3>1. n \in {nodes[m].left, nodes[m].right}
        BY <2>3, <3>0, Zenon DEF HeapGrows
      <3>2. Owned(n, u)
        BY <2>3, <1>0 DEF Owned
      <3>3. Owned(m, u)
        BY <2>3, <3>1, <3>2, Zenon DEF IInv, Ownership, OwnedParents
      <3> QED BY <2>3, <3>3, <1>0 DEF Owned
    <2> QED BY <2>a, <2>b, <2>1, <2>2, <2>3
  <1>r. root \in [Tree -> 0..count] /\ at \in [Tree -> 0..count]
    BY Zenon DEF IInv, TypeOK
  <1>3. OwnedRoots'
    <2> SUFFICES ASSUME NEW u \in Tree, NEW w \in Tree, Exists(u), root'[w] # nil,
                        nodes'[root'[w]].cow = cow[u]
                 PROVE  w = u
      BY <1>0 DEF OwnedRoots, Exists, Owned
    <2>1. CASE root'[w] = count + 1
      <3>1. w = t
        BY <2>1, <1>0, <1>r
      <3>2. cow[u] = cow[t]
        BY <2>1, <1>0
      <3> QED BY <3>1, <3>2, Zenon DEF IInv, Ownership, DistinctContexts
    <2>2. CASE root'[w] # count + 1
      <3>1. root'[w] = root[w] /\ root[w] \in 1..count
        BY <2>2, <1>r, <1>0
      <3>2. Owned(root[w], u)
        BY <3>1, <1>0 DEF Owned
      <3> QED BY <3>1, <3>2, Zenon DEF IInv, Ownership, OwnedRoots
    <2> QED BY <2>1, <2>2
  <1>4. WriterOwns'
    <2> SUFFICES ASSUME NEW u \in Tree, at'[u] # nil
                 PROVE  Exists(u) /\ nodes'[at'[u]].cow = cow[u]
      BY <1>0 DEF WriterOwns, Exists, Owned
    <2>1. CASE u = t
      BY <2>1, <1>0 DEF Owned
    <2>2. CASE u # t
      <3>1. at'[u] = at[u] /\ at[u] \in 1..count
        BY <2>2, <1>r, <1>0
      <3>2. Exists(u) /\ Owned(at[u], u)
        BY <3>1, Zenon DEF IInv, Ownership, WriterOwns
      <3> QED BY <3>1, <3>2, <1>0 DEF Owned
    <2> QED BY <2>1, <2>2
  <1>5. DistinctContexts'
    BY <1>0, Zenon DEF IInv, Ownership, DistinctContexts, Exists
  <1> QED BY <1>2, <1>3, <1>4, <1>5 DEF Ownership

(* A leaf, or a copy of a node, belongs to the tree that makes it.           *)
LEMMA FreshNode ==
    ASSUME TypeOK, NEW t \in Tree, Exists(t)
    PROVE  /\ \A k \in Key, v \in Value :
                 /\ Leaf(t, k, v) \in Node
                 /\ Leaf(t, k, v).cow = cow[t]
                 /\ Leaf(t, k, v).left = nil /\ Leaf(t, k, v).right = nil
           /\ \A n \in 1..count :
                 /\ Copied(n, t) \in Node
                 /\ Copied(n, t).cow = cow[t]
                 /\ Copied(n, t).left = nodes[n].left
                 /\ Copied(n, t).right = nodes[n].right
  <1>1. cow[t] \in Nat
    BY DEF TypeOK
  <1>2. ASSUME NEW k \in Key, NEW v \in Value
        PROVE  /\ Leaf(t, k, v) \in Node
               /\ Leaf(t, k, v).cow = cow[t]
               /\ Leaf(t, k, v).left = nil /\ Leaf(t, k, v).right = nil
    BY <1>1 DEF Leaf, Node
  <1>3. ASSUME NEW n \in 1..count
        PROVE  /\ Copied(n, t) \in Node
               /\ Copied(n, t).cow = cow[t]
               /\ Copied(n, t).left = nodes[n].left
               /\ Copied(n, t).right = nodes[n].right
    <2>1. PICK r \in Node : r = nodes[n]
      BY DEF TypeOK
    <2>2. Copied(n, t) = [r EXCEPT !.cow = cow[t]]
      BY <2>1, Zenon DEF Copied
    <2>3. Copied(n, t) = [key |-> r.key, value |-> r.value, left |-> r.left,
                          right |-> r.right, cow |-> cow[t]]
      <3>1. \E v \in Value : TRUE
        BY <2>1 DEF Node
      <3> QED BY <2>2, <3>1, <1>1, ReplacedField, Zenon
    <2> QED BY <2>1, <2>3, <1>1 DEF Node
  <1> QED BY <1>2, <1>3

(* The heap after an allocation, with node n linked to the new node or not.  *)
LEMMA NewNodeGrows ==
    ASSUME IInv, NEW t \in Tree, Exists(t), NEW x \in Node,
           x.cow = cow[t], x.left \in 0..count, x.right \in 0..count,
           \A c \in {x.left, x.right}, u \in Tree :
              c # nil /\ Exists(u) /\ Owned(c, u) => u = t,
           NEW heap \in [1..count -> Node],
           \A n \in 1..count : /\ heap[n].cow = nodes[n].cow
                               /\ heap[n].left \in {nodes[n].left, count + 1}
                               /\ heap[n].right \in {nodes[n].right, count + 1}
                               /\ heap[n] = nodes[n] \/ Owned(n, t),
           nodes' = NewNode(heap, x), count' = count + 1,
           UNCHANGED <<cows, cow>>
    PROVE  HeapGrows(t)
  <1>1. count \in Nat
    BY DEF IInv, TypeOK
  <1>2. /\ nodes' \in [1..(count + 1) -> Node]
        /\ nodes'[count + 1] = x
        /\ \A n \in 1..count : nodes'[n] = heap[n]
    BY <1>1 DEF NewNode
  <1>3. \A n \in 1..count : nodes[n].left \in 0..count /\ nodes[n].right \in 0..count
    BY Zenon DEF IInv, TypeOK
  <1>4. \A n \in 1..(count + 1) : nodes'[n].left \in 0..(count + 1)
                                 /\ nodes'[n].right \in 0..(count + 1)
    <2> TAKE n \in 1..(count + 1)
    <2>1. CASE n = count + 1
      BY <2>1, <1>1, <1>2
    <2>2. CASE n \in 1..count
      <3>1. /\ heap[n].left = nodes[n].left \/ heap[n].left = count + 1
            /\ heap[n].right = nodes[n].right \/ heap[n].right = count + 1
            /\ nodes[n].left \in 0..count /\ nodes[n].right \in 0..count
        BY <2>2, <1>3, Zenon
      <3>2. heap[n].left \in 0..(count + 1) /\ heap[n].right \in 0..(count + 1)
        BY <3>1, <1>1
      <3> QED BY <2>2, <3>2, <1>2
    <2> QED BY <1>1, <2>1, <2>2
  <1>5. ASSUME NEW n \in 1..count
        PROVE  /\ nodes'[n].cow = nodes[n].cow
               /\ nodes'[n].left \in {nodes[n].left, count + 1}
               /\ nodes'[n].right \in {nodes[n].right, count + 1}
               /\ count + 1 \in {nodes'[n].left, nodes'[n].right} => Owned(n, t)
    <2>1. nodes[n].left # count + 1 /\ nodes[n].right # count + 1
      BY <1>1, <1>3
    <2>2. nodes'[n] = heap[n]
      BY <1>2
    <2>3. heap[n] = nodes[n] => /\ heap[n].left # count + 1
                                /\ heap[n].right # count + 1
      BY <2>1, Zenon
    <2> QED BY <2>2, <2>3, Zenon
  <1>6. ASSUME NEW c \in {nodes'[count + 1].left, nodes'[count + 1].right}, NEW u \in Tree,
               c # nil
        PROVE  c \in 1..count /\ (Exists(u) /\ Owned(c, u) => u = t)
    <2>1. c \in {x.left, x.right}
      BY <1>2
    <2>2. c \in 1..count
      BY <2>1, <1>1, <1>6
    <2> QED BY <2>1, <2>2, <1>6
  <1>7. nodes'[count + 1].cow = cow[t]
    BY <1>2
  <1> QED BY <1>2, <1>4, <1>5, <1>6, <1>7 DEF HeapGrows

(* The heap in which n points to the node about to be made.                  *)
Linked(n, k) == [nodes EXCEPT ![n] = WithChild(n, k, count + 1)]

(* The link is the only change, at a node its own tree writes.               *)
LEMMA LinkedHeap ==
    ASSUME IInv, NEW t \in Tree, NEW n \in 1..count, Owned(n, t), NEW k \in Key
    PROVE  /\ Linked(n, k) \in [1..count -> Node]
           /\ \A m \in 1..count : /\ Linked(n, k)[m].cow = nodes[m].cow
                                  /\ Linked(n, k)[m].left \in {nodes[m].left, count + 1}
                                  /\ Linked(n, k)[m].right \in {nodes[m].right, count + 1}
                                  /\ Linked(n, k)[m] = nodes[m] \/ Owned(m, t)
  <1>0. Linked(n, k) = [nodes EXCEPT ![n] = WithChild(n, k, count + 1)]
    BY Zenon DEF Linked
  <1>1. TypeOK /\ count \in Nat /\ nodes \in [1..count -> Node]
    BY DEF IInv, TypeOK
  <1>2. count + 1 \in 0..(count + 1)
    BY <1>1
  <1>3. /\ WithChild(n, k, count + 1) \in Node
        /\ WithChild(n, k, count + 1).cow = nodes[n].cow
        /\ WithChild(n, k, count + 1).left \in {nodes[n].left, count + 1}
        /\ WithChild(n, k, count + 1).right \in {nodes[n].right, count + 1}
    BY <1>1, <1>2, ReplacedChild, Zenon
  <1>4. Linked(n, k) \in [1..count -> Node]
    BY <1>0, <1>1, <1>3
  <1>5. \A m \in 1..count : Linked(n, k)[m] = IF m = n THEN WithChild(n, k, count + 1) ELSE nodes[m]
    BY <1>0, <1>1
  <1> QED BY <1>3, <1>4, <1>5

(* Types after a step that allocates.                                        *)
LEMMA GrowthKeepsTypes ==
    ASSUME IInv, NEW t \in Tree, Exists(t), HeapGrows(t),
           root' \in [Tree -> 0..(count + 1)],
           at' \in [Tree -> 0..(count + 1)],
           arg' \in [Tree -> Argument \cup {NoArgument}],
           \A u \in Tree : at'[u] # nil => arg'[u] \in Argument
    PROVE  TypeOK'
  <1>1. /\ count \in Nat /\ count' = count + 1 /\ cows' = cows /\ cow' = cow
        /\ nodes' \in [1..(count + 1) -> Node]
        /\ cows \in Nat /\ cow \in [Tree -> 0..cows]
    BY Zenon DEF IInv, TypeOK, HeapGrows
  <1>2. cow[t] \in 1..cows
    BY <1>1 DEF Exists
  <1>3. \A n \in 1..(count + 1) : nodes'[n].left \in 0..(count + 1)
                                 /\ nodes'[n].right \in 0..(count + 1)
    BY Zenon DEF HeapGrows
  <1>4. \A n \in 1..(count + 1) : nodes'[n].cow \in 1..cows
    <2>1. \A n \in 1..count : nodes'[n].cow = nodes[n].cow /\ nodes[n].cow \in 1..cows
      BY Zenon DEF HeapGrows, IInv, TypeOK
    <2>2. nodes'[count + 1].cow = cow[t]
      BY Zenon DEF HeapGrows
    <2> TAKE n \in 1..(count + 1)
    <2>3. CASE n = count + 1
      BY <2>2, <2>3, <1>2
    <2>4. CASE n \in 1..count
      BY <2>1, <2>4
    <2> QED BY <1>1, <2>3, <2>4
  <1>5. /\ count' \in Nat /\ cows' \in Nat
        /\ nodes' \in [1..count' -> Node]
        /\ root' \in [Tree -> 0..count']
        /\ cow' \in [Tree -> 0..cows']
        /\ at' \in [Tree -> 0..count']
    BY <1>1
  <1>6. \A n \in 1..count' : /\ nodes'[n].left \in 0..count'
                             /\ nodes'[n].right \in 0..count'
                             /\ nodes'[n].cow \in 1..cows'
    BY <1>1, <1>3, <1>4
  <1> QED BY <1>5, <1>6, Zenon DEF TypeOK

-------------------------------------------------------------------------------
(* Steps that allocate a node *)

(* The leaf an empty tree starts with is its own.                            *)
LEMMA UpsertEmptyIInv ==
    ASSUME IInv, NEW t \in Tree, NEW k \in Key, NEW v \in Value, UpsertEmpty(t, k, v)
    PROVE  IInv'
  <1>1. TypeOK /\ Exists(t) /\ count \in Nat /\ nodes \in [1..count -> Node]
    BY DEF IInv, TypeOK, UpsertEmpty, Idle
  <1>2. /\ Leaf(t, k, v) \in Node /\ Leaf(t, k, v).cow = cow[t]
        /\ Leaf(t, k, v).left = nil /\ Leaf(t, k, v).right = nil
    BY <1>1, FreshNode, Zenon
  <1>3. /\ nodes' = NewNode(nodes, Leaf(t, k, v)) /\ count' = count + 1
        /\ UNCHANGED <<cows, cow>>
    BY DEF UpsertEmpty
  <1>4. Leaf(t, k, v).left \in 0..count /\ Leaf(t, k, v).right \in 0..count
    BY <1>1, <1>2
  <1>5. HeapGrows(t)
    BY <1>1, <1>2, <1>3, <1>4, NewNodeGrows, Zenon
  <1>6. /\ root' \in [Tree -> 0..(count + 1)] /\ at' \in [Tree -> 0..(count + 1)]
        /\ arg' \in [Tree -> Argument \cup {NoArgument}]
        /\ \A u \in Tree : at'[u] # nil => arg'[u] \in Argument
        /\ \A u \in Tree \ {t} : root'[u] = root[u] /\ at'[u] = at[u]
        /\ root'[t] = count + 1 /\ at'[t] = nil
    BY <1>1 DEF UpsertEmpty, IInv, TypeOK, Idle
  <1> QED BY <1>1, <1>5, <1>6, GrowthKeepsTypes, GrowthKeepsOwnership, Zenon DEF IInv

(* A leaf is linked to a node of its own tree.                               *)
LEMMA UpsertLeafIInv ==
    ASSUME IInv, NEW t \in Tree, UpsertLeaf(t)
    PROVE  IInv'
  <1> DEFINE n == at[t]
             k == arg[t].key
             v == arg[t].value
             heap == Linked(n, k)
  <1>1. /\ TypeOK /\ count \in Nat /\ n \in 1..count /\ Exists(t) /\ Owned(n, t)
        /\ arg[t] \in Argument
    BY DEF IInv, TypeOK, UpsertLeaf, Ownership, WriterOwns
  <1>2. k \in Key /\ v \in Value
    BY <1>1 DEF Argument
  <1>3. /\ Leaf(t, k, v) \in Node /\ Leaf(t, k, v).cow = cow[t]
        /\ Leaf(t, k, v).left = nil /\ Leaf(t, k, v).right = nil
    BY <1>1, <1>2, FreshNode, Zenon
  <1>4. Leaf(t, k, v).left \in 0..count /\ Leaf(t, k, v).right \in 0..count
    BY <1>1, <1>3
  <1>5. /\ heap \in [1..count -> Node]
        /\ \A m \in 1..count : /\ heap[m].cow = nodes[m].cow
                               /\ heap[m].left \in {nodes[m].left, count + 1}
                               /\ heap[m].right \in {nodes[m].right, count + 1}
                               /\ heap[m] = nodes[m] \/ Owned(m, t)
    <2> HIDE DEF n, k
    <2> QED BY <1>1, <1>2, LinkedHeap, Zenon
  <1>6. /\ nodes' = NewNode(heap, Leaf(t, k, v)) /\ count' = count + 1
        /\ UNCHANGED <<cows, cow>>
    BY Zenon DEF UpsertLeaf, Linked
  <1>7. HeapGrows(t)
    <2> HIDE DEF heap, n, k, v
    <2> QED BY <1>1, <1>3, <1>4, <1>5, <1>6, NewNodeGrows, Zenon
  <1>8. /\ root' = root
        /\ at' = [at EXCEPT ![t] = nil] /\ arg' = [arg EXCEPT ![t] = NoArgument]
    BY Zenon DEF UpsertLeaf, Done
  <1>9. /\ root' \in [Tree -> 0..(count + 1)] /\ at' \in [Tree -> 0..(count + 1)]
        /\ arg' \in [Tree -> Argument \cup {NoArgument}]
        /\ \A u \in Tree : at'[u] # nil => arg'[u] \in Argument
        /\ \A u \in Tree \ {t} : root'[u] = root[u] /\ at'[u] = at[u]
        /\ root'[t] = root[t] /\ at'[t] = nil
    BY <1>1, <1>8 DEF TypeOK
  <1> QED BY <1>1, <1>7, <1>9, GrowthKeepsTypes, GrowthKeepsOwnership, Zenon DEF IInv

(* No other tree owns a child of a node t can reach and does not own.        *)
LEMMA CopiedChildren ==
    ASSUME IInv, NEW t \in Tree, NEW c \in 1..count, ~Owned(c, t),
           c = root[t] \/ (at[t] # nil /\ c \in {nodes[at[t]].left, nodes[at[t]].right})
    PROVE  \A x \in {nodes[c].left, nodes[c].right}, u \in Tree :
              x # nil /\ Exists(u) /\ Owned(x, u) => u = t
  <1> SUFFICES ASSUME NEW x \in {nodes[c].left, nodes[c].right}, NEW u \in Tree,
                      x # nil, Exists(u), Owned(x, u)
               PROVE  u = t
    OBVIOUS
  <1>1. TypeOK /\ OwnedParents /\ OwnedRoots /\ WriterOwns /\ DistinctContexts
    BY DEF IInv, Ownership
  <1>2. x \in 1..count
    BY <1>1 DEF TypeOK
  <1>3. Owned(c, u)
    BY <1>1, <1>2, Zenon DEF OwnedParents
  <1>4. CASE c = root[t]
    <2>1. root[t] # nil
      BY <1>4
    <2> QED BY <1>1, <1>3, <1>4, <2>1, Zenon DEF OwnedRoots
  <1>5. CASE at[t] # nil /\ c \in {nodes[at[t]].left, nodes[at[t]].right}
    <2>1. at[t] \in 1..count /\ Owned(at[t], t)
      BY <1>1, <1>5 DEF TypeOK, WriterOwns
    <2>2. Owned(at[t], u)
      BY <1>1, <1>3, <1>5, <2>1, Zenon DEF OwnedParents
    <2>3. cow[u] = cow[t]
      BY <2>1, <2>2 DEF Owned
    <2> QED BY <1>1, <2>3, Zenon DEF DistinctContexts
  <1> QED BY <1>4, <1>5

(* The copy of such a node, linked or not, is a step that grows the heap.    *)
LEMMA CopyGrows ==
    ASSUME IInv, NEW t \in Tree, Exists(t), NEW c \in 1..count, ~Owned(c, t),
           c = root[t] \/ (at[t] # nil /\ c \in {nodes[at[t]].left, nodes[at[t]].right}),
           NEW heap \in [1..count -> Node],
           \A n \in 1..count : /\ heap[n].cow = nodes[n].cow
                               /\ heap[n].left \in {nodes[n].left, count + 1}
                               /\ heap[n].right \in {nodes[n].right, count + 1}
                               /\ heap[n] = nodes[n] \/ Owned(n, t),
           nodes' = NewNode(heap, Copied(c, t)), count' = count + 1,
           UNCHANGED <<cows, cow>>
    PROVE  HeapGrows(t)
  <1>1. TypeOK
    BY DEF IInv
  <1>2. /\ Copied(c, t) \in Node /\ Copied(c, t).cow = cow[t]
        /\ Copied(c, t).left = nodes[c].left /\ Copied(c, t).right = nodes[c].right
    BY <1>1, FreshNode, Zenon
  <1>3. Copied(c, t).left \in 0..count /\ Copied(c, t).right \in 0..count
    BY <1>1, <1>2 DEF TypeOK
  <1>4. \A x \in {Copied(c, t).left, Copied(c, t).right}, u \in Tree :
           x # nil /\ Exists(u) /\ Owned(x, u) => u = t
    <2>1. \A x \in {nodes[c].left, nodes[c].right}, u \in Tree :
             x # nil /\ Exists(u) /\ Owned(x, u) => u = t
      BY CopiedChildren
    <2> QED BY <1>2, <2>1
  <1> QED BY <1>2, <1>3, <1>4, NewNodeGrows, Zenon

(* A root that is not owned is copied before the walk.                       *)
LEMMA UpsertRootIInv ==
    ASSUME IInv, NEW t \in Tree, NEW k \in Key, NEW v \in Value, UpsertRoot(t, k, v)
    PROVE  IInv'
  <1>1. /\ TypeOK /\ Exists(t) /\ count \in Nat /\ nodes \in [1..count -> Node]
        /\ root[t] \in 1..count /\ at[t] = nil
    BY DEF IInv, TypeOK, UpsertRoot, Idle
  <1>2. [key |-> k, value |-> v] \in Argument
    BY DEF Argument
  <1>3. CASE Owned(root[t], t)
    <2>1. /\ nodes' = nodes /\ count' = count /\ root' = root /\ cows' = cows /\ cow' = cow
          /\ at' = [at EXCEPT ![t] = root[t]]
          /\ arg' = [arg EXCEPT ![t] = [key |-> k, value |-> v]]
      BY <1>1, <1>3 DEF UpsertRoot, MutableFor, TypeOK
    <2>2. TypeOK'
      BY <1>1, <1>2, <2>1 DEF TypeOK
    <2>3. OwnedParents' /\ OwnedRoots' /\ DistinctContexts'
      BY <2>1, Zenon DEF IInv, Ownership, OwnedParents, OwnedRoots, DistinctContexts,
                         Exists, Owned
    <2>4. WriterOwns'
      BY <1>1, <1>3, <2>1 DEF IInv, Ownership, WriterOwns, Exists, Owned, TypeOK
    <2> QED BY <2>2, <2>3, <2>4, Zenon DEF IInv, Ownership
  <1>4. CASE ~Owned(root[t], t)
    <2>1. /\ nodes' = NewNode(nodes, Copied(root[t], t)) /\ count' = count + 1
          /\ UNCHANGED <<cows, cow>>
          /\ root' = [root EXCEPT ![t] = count + 1]
          /\ at' = [at EXCEPT ![t] = count + 1]
          /\ arg' = [arg EXCEPT ![t] = [key |-> k, value |-> v]]
      BY <1>4, Zenon DEF UpsertRoot, MutableFor
    <2>2. HeapGrows(t)
      BY <1>1, <1>4, <2>1, CopyGrows, Zenon
    <2>3. /\ root' \in [Tree -> 0..(count + 1)] /\ at' \in [Tree -> 0..(count + 1)]
          /\ arg' \in [Tree -> Argument \cup {NoArgument}]
          /\ \A u \in Tree : at'[u] # nil => arg'[u] \in Argument
          /\ \A u \in Tree \ {t} : root'[u] = root[u] /\ at'[u] = at[u]
          /\ root'[t] = count + 1 /\ at'[t] = count + 1
      BY <1>1, <1>2, <2>1 DEF TypeOK
    <2> QED BY <1>1, <2>2, <2>3, GrowthKeepsTypes, GrowthKeepsOwnership, Zenon DEF IInv
  <1> QED BY <1>3, <1>4

(* A child that is not owned is copied, and its parent is owned.             *)
LEMMA DescendIInv ==
    ASSUME IInv, NEW t \in Tree, Descend(t)
    PROVE  IInv'
  <1> DEFINE n == at[t]
             k == arg[t].key
             c == Child(n, k)
  <1>1. /\ TypeOK /\ count \in Nat /\ n \in 1..count /\ Exists(t) /\ Owned(n, t)
        /\ arg[t] \in Argument
    <2>1. n # nil
      BY Zenon DEF Descend
    <2> QED BY <2>1 DEF IInv, TypeOK, Ownership, WriterOwns
  <1>2. k \in Key
    BY <1>1 DEF Argument
  <1>3. c \in 1..count /\ c \in {nodes[n].left, nodes[n].right}
    <2>1. c \in 0..count /\ c \in {nodes[n].left, nodes[n].right}
      <3> HIDE DEF n, k
      <3> QED BY <1>1, <1>2, ChildIsPointer, Zenon
    <2>2. c # nil
      BY Zenon DEF Descend
    <2> QED BY <1>1, <2>1, <2>2
  <1>4. root' = root /\ cows' = cows /\ cow' = cow /\ arg' = arg
        /\ at' = [at EXCEPT ![t] = MutableFor(c, t)]
    BY Zenon DEF Descend
  <1>5. CASE Owned(c, t)
    <2>1. nodes' = nodes /\ count' = count /\ at' = [at EXCEPT ![t] = c]
      BY <1>4, <1>5, Zenon DEF Descend, MutableFor
    <2> HIDE DEF c
    <2>2. TypeOK'
      BY <1>1, <1>3, <1>4, <2>1 DEF TypeOK
    <2>3. OwnedParents' /\ OwnedRoots' /\ DistinctContexts'
      BY <1>4, <2>1, Zenon DEF IInv, Ownership, OwnedParents, OwnedRoots,
                               DistinctContexts, Exists, Owned
    <2>4. WriterOwns'
      BY <1>1, <1>3, <1>4, <1>5, <2>1 DEF IInv, Ownership, WriterOwns, Exists, Owned, TypeOK
    <2> QED BY <2>2, <2>3, <2>4, Zenon DEF IInv, Ownership
  <1>6. CASE ~Owned(c, t)
    <2>1. /\ nodes' = NewNode(Linked(n, k), Copied(c, t)) /\ count' = count + 1
          /\ at' = [at EXCEPT ![t] = count + 1]
      BY <1>4, <1>6, Zenon DEF Descend, MutableFor, Linked
    <2> HIDE DEF k, c
    <2>2. /\ Linked(n, k) \in [1..count -> Node]
          /\ \A m \in 1..count :
                /\ Linked(n, k)[m].cow = nodes[m].cow
                /\ Linked(n, k)[m].left \in {nodes[m].left, count + 1}
                /\ Linked(n, k)[m].right \in {nodes[m].right, count + 1}
                /\ Linked(n, k)[m] = nodes[m] \/ Owned(m, t)
      BY <1>1, <1>2, LinkedHeap, Zenon
    <2>3. UNCHANGED <<cows, cow>> /\ at[t] # nil
      BY <1>1, <1>4
    <2>4. HeapGrows(t)
      BY <1>1, <1>3, <1>6, <2>1, <2>2, <2>3, CopyGrows, Zenon
    <2>5. /\ root' \in [Tree -> 0..(count + 1)] /\ at' \in [Tree -> 0..(count + 1)]
          /\ arg' \in [Tree -> Argument \cup {NoArgument}]
          /\ \A u \in Tree : at'[u] # nil => arg'[u] \in Argument
          /\ \A u \in Tree \ {t} : root'[u] = root[u] /\ at'[u] = at[u]
          /\ root'[t] = root[t] /\ at'[t] = count + 1
      BY <1>1, <1>4, <2>1 DEF TypeOK
    <2> QED BY <1>1, <2>4, <2>5, GrowthKeepsTypes, GrowthKeepsOwnership, Zenon DEF IInv
  <1> QED BY <1>5, <1>6

-------------------------------------------------------------------------------
(* Steps that do not *)

(* A value is written to an owned node and no pointer changes.               *)
LEMMA UpsertValueIInv ==
    ASSUME IInv, NEW t \in Tree, UpsertValue(t)
    PROVE  IInv'
  <1>1. /\ count \in Nat /\ nodes \in [1..count -> Node] /\ at[t] \in 1..count
        /\ arg[t] \in Argument
    BY DEF IInv, TypeOK, UpsertValue
  <1>2. /\ nodes' = [nodes EXCEPT ![at[t]] = [nodes[at[t]] EXCEPT !.value = arg[t].value]]
        /\ count' = count /\ cows' = cows /\ root' = root /\ cow' = cow
        /\ at' = [at EXCEPT ![t] = nil] /\ arg' = [arg EXCEPT ![t] = NoArgument]
    BY Zenon DEF UpsertValue, Done
  <1>3. \A n \in 1..count : /\ nodes'[n] \in Node
                            /\ nodes'[n].cow = nodes[n].cow
                            /\ nodes'[n].left = nodes[n].left
                            /\ nodes'[n].right = nodes[n].right
    <2>1. PICK r \in Node : r = nodes[at[t]]
      BY <1>1
    <2>2. arg[t].value \in Value
      BY <1>1 DEF Argument
    <2>3. [nodes[at[t]] EXCEPT !.value = arg[t].value]
            = [key |-> r.key, value |-> arg[t].value, left |-> r.left,
               right |-> r.right, cow |-> r.cow]
      <3>1. 0 \in Nat
        OBVIOUS
      <3> QED BY <2>1, <2>2, <3>1, ReplacedField, Zenon
    <2>4. \A n \in 1..count : nodes'[n] = IF n = at[t]
                                THEN [key |-> r.key, value |-> arg[t].value, left |-> r.left,
                                      right |-> r.right, cow |-> r.cow]
                                ELSE nodes[n]
      BY <1>1, <1>2, <2>3
    <2> TAKE n \in 1..count
    <2>5. CASE n = at[t]
      BY <1>1, <2>1, <2>2, <2>4, <2>5 DEF Node
    <2>6. CASE n # at[t]
      BY <1>1, <2>4, <2>6
    <2> QED BY <2>5, <2>6
  <1>4. nodes' \in [1..count -> Node]
    BY <1>1, <1>2, <1>3
  <1>5. TypeOK'
    BY <1>1, <1>2, <1>3, <1>4 DEF IInv, TypeOK
  <1>6. OwnedParents' /\ DistinctContexts'
    <2>1. DistinctContexts'
      BY <1>2, Zenon DEF IInv, Ownership, DistinctContexts, Exists
    <2>2. OwnedParents'
      <3> SUFFICES ASSUME NEW u \in Tree, NEW m \in 1..count, NEW n \in 1..count,
                          cow[u] # nil, nodes'[n].cow = cow[u],
                          n \in {nodes'[m].left, nodes'[m].right}
                   PROVE  nodes'[m].cow = cow[u]
        BY <1>2 DEF OwnedParents, Exists, Owned
      <3>1. n \in {nodes[m].left, nodes[m].right} /\ nodes[n].cow = cow[u]
        BY <1>3
      <3>2. nodes[m].cow = cow[u]
        BY <3>1, Zenon DEF IInv, Ownership, OwnedParents, Exists, Owned
      <3> QED BY <1>3, <3>2
    <2> QED BY <2>1, <2>2
  <1>7. OwnedRoots'
    BY <1>1, <1>2, <1>3 DEF IInv, TypeOK, Ownership, OwnedRoots, Exists, Owned
  <1>8. WriterOwns'
    BY <1>1, <1>2, <1>3 DEF IInv, TypeOK, Ownership, WriterOwns, Exists, Owned
  <1> QED BY <1>5, <1>6, <1>7, <1>8, Zenon DEF IInv, Ownership

(* A new context owns no node, so the trees that get one share what they     *)
(* have read-only.                                                           *)
LEMMA ContextIInv ==
    ASSUME IInv, NEW t \in Tree, NewTree(t) \/ \E u \in Tree : Clone(t, u)
    PROVE  IInv'
  <1>0. /\ cows \in Nat /\ count \in Nat /\ cow \in [Tree -> 0..cows]
        /\ nodes \in [1..count -> Node] /\ root \in [Tree -> 0..count]
        /\ at \in [Tree -> 0..count]
        /\ \A n \in 1..count : nodes[n].cow \in 1..cows
    BY DEF IInv, TypeOK
  <1>1. CASE NewTree(t)
    <2>1. /\ cow[t] = nil /\ cows' = cows + 1 /\ cow' = [cow EXCEPT ![t] = cows + 1]
          /\ nodes' = nodes /\ count' = count /\ root' = root /\ at' = at /\ arg' = arg
      BY <1>1 DEF NewTree, Exists
    <2>2. TypeOK'
      BY <1>0, <2>1 DEF IInv, TypeOK
    <2>3. \A u \in Tree : cow'[u] = IF u = t THEN cows + 1 ELSE cow[u]
      BY <1>0, <2>1
    <2>4. \A n \in 1..count : nodes[n].cow # cows + 1
      BY <1>0
    <2>5. OwnedParents'
      BY <1>0, <2>1, <2>3, <2>4, Zenon DEF IInv, Ownership, OwnedParents, Exists, Owned
    <2>6. OwnedRoots'
      BY <1>0, <2>1, <2>3, <2>4 DEF IInv, Ownership, OwnedRoots, Exists, Owned
    <2>7. WriterOwns'
      BY <1>0, <2>1, <2>3 DEF IInv, Ownership, WriterOwns, Exists, Owned
    <2>8. DistinctContexts'
      BY <1>0, <2>1, <2>3 DEF IInv, Ownership, DistinctContexts, Exists
    <2> QED BY <2>2, <2>5, <2>6, <2>7, <2>8, Zenon DEF IInv, Ownership
  <1>2. ASSUME NEW u \in Tree, Clone(t, u)
        PROVE  IInv'
    <2>1. /\ t # u /\ at[t] = nil /\ cow[u] = nil /\ cow[t] # nil
          /\ cows' = cows + 2
          /\ cow' = [cow EXCEPT ![t] = cows + 1, ![u] = cows + 2]
          /\ root' = [root EXCEPT ![u] = root[t]]
          /\ nodes' = nodes /\ count' = count /\ at' = at /\ arg' = arg
      BY <1>2 DEF Clone, Idle, Exists
    <2>2. TypeOK'
      <3>1. cow' \in [Tree -> 0..cows'] /\ cows' \in Nat
        <4>1. cows' \in Nat /\ cows' = cows + 2
          BY <1>0, <2>1
        <4>2. cow \in [Tree -> 0..cows']
          BY <1>0, <4>1
        <4>3. cows + 1 \in 0..cows' /\ cows + 2 \in 0..cows'
          BY <1>0, <4>1
        <4> QED BY <2>1, <4>1, <4>2, <4>3, Zenon
      <3>2. root' \in [Tree -> 0..count]
        BY <1>0, <2>1
      <3>3. \A n \in 1..count : nodes[n].cow \in 1..cows'
        BY <1>0, <2>1
      <3>4. TypeOK
        BY DEF IInv
      <3> QED BY <2>1, <3>1, <3>2, <3>3, <3>4, Zenon DEF TypeOK
    <2>3. \A w \in Tree : cow'[w] = IF w = t THEN cows + 1
                                    ELSE IF w = u THEN cows + 2 ELSE cow[w]
      BY <1>0, <2>1
    <2>4. \A n \in 1..count : nodes[n].cow # cows + 1 /\ nodes[n].cow # cows + 2
      BY <1>0
    <2>5. OwnedParents'
      BY <1>0, <2>1, <2>3, <2>4, Zenon DEF IInv, Ownership, OwnedParents, Exists, Owned
    <2>6. OwnedRoots'
      <3> SUFFICES ASSUME NEW v \in Tree, NEW w \in Tree, cow'[v] # nil, root'[w] # nil,
                          nodes[root'[w]].cow = cow'[v]
                   PROVE  w = v
        BY <2>1 DEF OwnedRoots, Exists, Owned
      <3>1. root'[w] \in 1..count /\ root'[w] = IF w = u THEN root[t] ELSE root[w]
        BY <1>0, <2>1
      <3>2. v # t /\ v # u /\ cow'[v] = cow[v]
        BY <2>3, <2>4, <3>1
      <3>3. root[t] # nil /\ nodes[root[t]].cow = cow[v] => t = v
        BY <3>2, Zenon DEF IInv, Ownership, OwnedRoots, Exists, Owned
      <3>4. root[w] # nil /\ nodes[root[w]].cow = cow[v] => w = v
        BY <3>2, Zenon DEF IInv, Ownership, OwnedRoots, Exists, Owned
      <3> QED BY <3>1, <3>2, <3>3, <3>4
    <2>7. WriterOwns'
      BY <1>0, <2>1, <2>3 DEF IInv, Ownership, WriterOwns, Exists, Owned
    <2>8. DistinctContexts'
      BY <1>0, <2>1, <2>3 DEF IInv, Ownership, DistinctContexts, Exists
    <2> QED BY <2>2, <2>5, <2>6, <2>7, <2>8, Zenon DEF IInv, Ownership
  <1> QED BY <1>1, <1>2

(* Each step keeps types and ownership.                                      *)
LEMMA NextIInv == IInv /\ [Next]_vars => IInv'
  <1> SUFFICES ASSUME IInv, [Next]_vars PROVE IInv'
    OBVIOUS
  <1>1. ASSUME NEW t \in Tree, NewTree(t) PROVE IInv'
    BY <1>1, ContextIInv
  <1>2. ASSUME NEW t \in Tree, NEW u \in Tree, Clone(t, u) PROVE IInv'
    BY <1>2, ContextIInv, Zenon
  <1>3. ASSUME NEW t \in Tree, NEW k \in Key, NEW v \in Value,
               UpsertEmpty(t, k, v) \/ UpsertRoot(t, k, v)
        PROVE  IInv'
    BY <1>3, UpsertEmptyIInv, UpsertRootIInv, Zenon
  <1>4. ASSUME NEW t \in Tree, Write(t) PROVE IInv'
    BY <1>4, UpsertLeafIInv, DescendIInv, UpsertValueIInv, Zenon DEF Write
  <1>5. CASE UNCHANGED vars
    BY <1>5, Zenon DEF vars, IInv, TypeOK, Ownership, OwnedParents, OwnedRoots,
                       WriterOwns, DistinctContexts, Exists, Owned
  <1> QED BY <1>1, <1>2, <1>3, <1>4, <1>5, Zenon DEF Next

(* Types and ownership hold in every behaviour.                              *)
LEMMA Invariance == Spec => []IInv
  <1>1. Init => IInv
    BY InitIInv
  <1> QED BY <1>1, NextIInv, PTL DEF Spec

(* Every value of the tree's fields is a pointer, a context or an argument   *)
(* of its kind, for any number of trees, nodes and contexts.                 *)
THEOREM TypeCorrect == Spec => []TypeOK
  <1>1. IInv => TypeOK
    BY DEF IInv
  <1> QED BY <1>1, Invariance, PTL

(* However the writers of trees made by Clone interleave, a node with the    *)
(* context of a tree is reached by no other tree.                            *)
THEOREM OwnershipHolds == Spec => []Ownership
  <1>1. IInv => Ownership
    BY DEF IInv
  <1> QED BY <1>1, Invariance, PTL

(* A node of the heap changes only under the writer of the tree it belongs   *)
(* to: mutableFor never lets a shared node be written.                       *)
THEOREM SharedStaysReadOnly == Spec => SharedIsReadOnly
  <1> DEFINE Change == \A n \in 1..count :
                 nodes'[n] # nodes[n] => \E t \in Tree : /\ at[t] = n /\ Owned(n, t)
                                                         /\ cow'[t] = cow[t]
  <1>1. ASSUME IInv, [Next]_vars PROVE Change
    <2> SUFFICES ASSUME NEW n \in 1..count, nodes'[n] # nodes[n]
                 PROVE  \E t \in Tree : /\ at[t] = n /\ Owned(n, t)
                                        /\ cow'[t] = cow[t]
      OBVIOUS
    <2>1. count \in Nat /\ nodes \in [1..count -> Node]
      BY <1>1 DEF IInv, TypeOK
    <2>2. ASSUME NEW heap, NEW x, nodes' = NewNode(heap, x)
          PROVE  nodes'[n] = heap[n]
      BY <2>1, <2>2 DEF NewNode
    <2>3. \A t \in Tree : at[t] # nil => Owned(at[t], t)
      BY <1>1, Zenon DEF IInv, Ownership, WriterOwns
    <2>4. ASSUME NEW t \in Tree, NewTree(t) \/ \E u \in Tree : Clone(t, u)
          PROVE  FALSE
      BY <2>4, Zenon DEF NewTree, Clone
    <2>5. ASSUME NEW t \in Tree, NEW k \in Key, NEW v \in Value,
                 UpsertEmpty(t, k, v) \/ UpsertRoot(t, k, v)
          PROVE  FALSE
      BY <2>2, <2>5, Zenon DEF UpsertEmpty, UpsertRoot
    <2>6. ASSUME NEW t \in Tree, Write(t)
          PROVE  at[t] = n /\ cow'[t] = cow[t]
      <3>1. CASE UpsertLeaf(t)
        <4>1. nodes'[n] = [nodes EXCEPT ![at[t]] =
                             WithChild(at[t], arg[t].key, count + 1)][n]
          BY <2>2, <3>1, Zenon DEF UpsertLeaf
        <4> QED BY <2>1, <3>1, <4>1, Zenon DEF UpsertLeaf
      <3>2. CASE Descend(t)
        <4>1. nodes'[n] = [nodes EXCEPT ![at[t]] =
                             WithChild(at[t], arg[t].key, count + 1)][n]
          BY <2>2, <3>2, Zenon DEF Descend
        <4> QED BY <2>1, <3>2, <4>1, Zenon DEF Descend
      <3>3. CASE UpsertValue(t)
        BY <2>1, <3>3, Zenon DEF UpsertValue
      <3> QED BY <2>6, <3>1, <3>2, <3>3 DEF Write
    <2>7. n # nil
      BY <2>1
    <2>8. CASE UNCHANGED vars
      BY <2>8, Zenon DEF vars
    <2>9. CASE \E t \in Tree : Write(t)
      <3>1. PICK t \in Tree : Write(t)
        BY <2>9
      <3>2. at[t] = n /\ cow'[t] = cow[t]
        BY <3>1, <2>6
      <3>3. Owned(n, t)
        BY <3>2, <2>3, <2>7
      <3> QED BY <3>2, <3>3
    <2> QED BY <1>1, <2>4, <2>5, <2>8, <2>9, Zenon DEF Next
  <1>2. IInv /\ [Next]_vars => [Change]_vars
    BY <1>1
  <1> QED BY <1>2, Invariance, PTL DEF Spec, SharedIsReadOnly

-------------------------------------------------------------------------------
(* Heaps and the walks of Get in them                                        *)
Way(f, n, k) == IF k < f[n].key THEN f[n].left ELSE f[n].right

IsHeap(f, c) == /\ f \in [1..c -> Node]
                /\ \A n \in 1..c : f[n].left \in 0..c /\ f[n].right \in 0..c

(* The nodes can be ranked with every child below its parent.                *)
Ranks(rank, b, f, c) ==
    /\ rank \in [1..c -> 0..b]
    /\ \A n \in 1..c : \A m \in {f[n].left, f[n].right} : m # 0 => rank[m] < rank[n]
Acyclic(f, c) == \E b \in Nat : \E rank \in [1..c -> 0..b] : Ranks(rank, b, f, c)

(* w[n] is what the walk for k answers from n on.                            *)
Walks(w, f, n, k) == IF n = 0 THEN 0
                     ELSE IF k = f[n].key THEN f[n].value
                     ELSE w[Way(f, n, k)]
Answers(w, f, c, k) == w = [n \in 0..c |-> Walks(w, f, n, k)]
Answer(f, c, k) == CHOOSE w : Answers(w, f, c, k)

(* A set of pointers no walk for k leaves, and a function that answers on it. *)
Closed(S, f, k) == \A n \in S : n # 0 /\ f[n].key # k => Way(f, n, k) \in S
AnswersOn(w, S, f, k) == \A n \in S : w[n] = Walks(w, f, n, k)
AgreeOn(w, x, S) == \A n \in S : w[n] = x[n]

(* A walk goes on to a child.                                                *)
LEMMA WayIsPointer ==
    ASSUME NEW c \in Nat, NEW f, IsHeap(f, c), NEW k, NEW n \in 1..c
    PROVE  Way(f, n, k) \in 0..c /\ Way(f, n, k) \in {f[n].left, f[n].right}
  BY DEF IsHeap, Way

(* Two walks over the same part of an acyclic heap answer the same.          *)
LEMMA WalksAgree ==
    ASSUME NEW c \in Nat, NEW f, IsHeap(f, c), Acyclic(f, c), NEW k, NEW w, NEW x,
           NEW S \in SUBSET (0..c), Closed(S, f, k),
           AnswersOn(w, S, f, k), AnswersOn(x, S, f, k)
    PROVE  AgreeOn(w, x, S)
  <1> USE DEF Closed, AnswersOn, AgreeOn
  <1>0. PICK b \in Nat : \E rank \in [1..c -> 0..b] : Ranks(rank, b, f, c)
    BY Zenon DEF Acyclic
  <1>1. PICK rank \in [1..c -> 0..b] : Ranks(rank, b, f, c)
    BY <1>0
  <1> DEFINE D == {n \in S : w[n] # x[n]}
             T == {rank[n] : n \in D}
  <1>2. \A n \in D : n \in 1..c /\ f[n].key # k /\ Way(f, n, k) \in D
    <2> SUFFICES ASSUME NEW n \in D PROVE n \in 1..c /\ f[n].key # k /\ Way(f, n, k) \in D
      OBVIOUS
    <2>1. w[n] # x[n] /\ w[n] = Walks(w, f, n, k) /\ x[n] = Walks(x, f, n, k)
      OBVIOUS
    <2>2. n # 0 /\ f[n].key # k /\ w[Way(f, n, k)] # x[Way(f, n, k)]
      BY <2>1 DEF Walks
    <2> QED BY <2>2
  <1>3. T \subseteq Nat
    <2>1. \A n \in D : rank[n] \in Nat
      BY <1>1, <1>2
    <2> HIDE DEF D
    <2> QED BY <2>1
  <1>4. ASSUME NEW n \in D PROVE \E m \in D : rank[m] < rank[n]
    <2>1. n \in 1..c /\ Way(f, n, k) \in D /\ Way(f, n, k) \in 1..c
      BY <1>2
    <2>2. Way(f, n, k) \in {f[n].left, f[n].right}
      BY <2>1, WayIsPointer
    <2> QED BY <1>1, <2>1, <2>2 DEF Ranks
  <1>5. T = {}
    <2> SUFFICES ASSUME T # {} PROVE FALSE
      OBVIOUS
    <2>1. PICK y \in T : \A z \in T : y <= z
      <3> HIDE DEF T
      <3> QED BY <1>3, LeastNumber
    <2>2. PICK n \in D : y = rank[n]
      OBVIOUS
    <2>3. PICK m \in D : rank[m] < rank[n]
      BY <1>4
    <2>4. rank[m] \in T
      OBVIOUS
    <2>5. y \in Nat /\ rank[m] \in Nat
      BY <2>4, <1>3
    <2> HIDE DEF T, D
    <2> QED BY <2>1, <2>2, <2>3, <2>4, <2>5
  <1> QED BY <1>5

(* In an acyclic heap every walk ends.                                       *)
LEMMA WalksEnd ==
    ASSUME NEW c \in Nat, NEW f, IsHeap(f, c), Acyclic(f, c), NEW k
    PROVE  Answers(Answer(f, c, k), f, c, k)
  <1>0. PICK b \in Nat : \E rank \in [1..c -> 0..b] : Ranks(rank, b, f, c)
    BY Zenon DEF Acyclic
  <1>1. PICK rank \in [1..c -> 0..b] : Ranks(rank, b, f, c)
    BY <1>0
  <1> DEFINE M == Value \cup {0}
             Below(r) == {n \in 0..c : n = 0 \/ rank[n] < r}
             N == {r \in Nat : \E w \in [0..c -> M] : \A n \in Below(r) :
                                   w[n] = Walks(w, f, n, k)}
  <1>2. 0 \in N
    <2> DEFINE w == [n \in 0..c |-> 0]
    <2>1. w \in [0..c -> M] /\ w[0] = 0
      OBVIOUS
    <2>2. \A n \in Below(0) : n = 0
      BY <1>1
    <2>3. \A n \in Below(0) : w[n] = Walks(w, f, n, k)
      BY <2>1, <2>2 DEF Walks
    <2> HIDE DEF w
    <2> QED BY <2>1, <2>3
  <1>3. ASSUME NEW r \in Nat, r \in N PROVE r + 1 \in N
    <2>1. PICK w \in [0..c -> M] : \A n \in Below(r) : w[n] = Walks(w, f, n, k)
      BY <1>3
    <2> DEFINE y == [n \in 0..c |-> Walks(w, f, n, k)]
    <2>2. ASSUME NEW n \in 0..c PROVE Walks(w, f, n, k) \in M
      <3>1. CASE n = 0
        BY <3>1 DEF Walks
      <3>2. CASE n \in 1..c
        <4>1. Way(f, n, k) \in 0..c /\ f[n].value \in Value
          BY <3>2, WayIsPointer DEF IsHeap, Node
        <4>2. w[Way(f, n, k)] \in M
          BY <4>1
        <4> QED BY <4>1, <4>2, Zenon DEF Walks
      <3> QED BY <3>1, <3>2
    <2>3. y \in [0..c -> M]
      BY <2>2
    <2>4. ASSUME NEW n \in Below(r + 1) PROVE y[n] = Walks(y, f, n, k)
      <3>1. y[n] = Walks(w, f, n, k)
        OBVIOUS
      <3>2. CASE n = 0
        BY <3>1, <3>2 DEF Walks
      <3>3. CASE n \in 1..c
        <4>1. Way(f, n, k) \in 0..c /\ Way(f, n, k) \in {f[n].left, f[n].right}
          BY <3>3, WayIsPointer
        <4>2. Way(f, n, k) \in Below(r)
          <5>1. CASE Way(f, n, k) = 0
            BY <5>1, <4>1
          <5>2. CASE Way(f, n, k) # 0
            <6>1. rank[Way(f, n, k)] < rank[n] /\ rank[n] < r + 1
              BY <1>1, <3>3, <4>1, <5>2 DEF Ranks
            <6>2. rank[Way(f, n, k)] \in Int /\ rank[n] \in Int
              BY <3>3, <4>1, <5>2
            <6> QED BY <6>1, <6>2, <4>1
          <5> QED BY <5>1, <5>2
        <4>3. y[Way(f, n, k)] = w[Way(f, n, k)]
          BY <4>1, <4>2, <2>1
        <4> HIDE DEF y
        <4> QED BY <3>1, <4>3, Zenon DEF Walks
      <3> QED BY <3>2, <3>3
    <2> HIDE DEF y
    <2> QED BY <2>3, <2>4
  <1>4. b + 1 \in N
    <2>1. Nat \subseteq N
      <3> HIDE DEF N
      <3> QED BY <1>2, <1>3, NumberInduction
    <2> HIDE DEF N
    <2> QED BY <2>1
  <1>5. PICK w \in [0..c -> M] : \A n \in Below(b + 1) : w[n] = Walks(w, f, n, k)
    BY <1>4
  <1>6. \A n \in 0..c : n \in Below(b + 1)
    BY <1>1
  <1>7. w = [n \in 0..c |-> Walks(w, f, n, k)]
    BY <1>5, <1>6
  <1> QED BY <1>7, Zenon DEF Answer, Answers

(* What answers is found by Get.                                             *)
LEMMA AnswerIs ==
    ASSUME NEW c \in Nat, NEW f, IsHeap(f, c), Acyclic(f, c), NEW k,
           NEW w, Answers(w, f, c, k)
    PROVE  Answer(f, c, k) = w
  <1> DEFINE x == Answer(f, c, k)
  <1>1. Answers(x, f, c, k)
    BY WalksEnd
  <1> HIDE DEF x
  <1>2. /\ w = [n \in 0..c |-> Walks(w, f, n, k)]
        /\ x = [n \in 0..c |-> Walks(x, f, n, k)]
    BY <1>1, Zenon DEF Answers
  <1>3. AnswersOn(w, 0..c, f, k) /\ AnswersOn(x, 0..c, f, k)
    BY <1>2, Zenon DEF AnswersOn
  <1>4. Closed(0..c, f, k)
    BY WayIsPointer DEF Closed
  <1>s. (0..c) \in SUBSET (0..c)
    OBVIOUS
  <1>5. \A n \in 0..c : w[n] = x[n]
    <2>1. AgreeOn(w, x, 0..c)
      BY <1>s, <1>3, <1>4, WalksAgree, Zenon
    <2> QED BY <2>1, Zenon DEF AgreeOn
  <1>6. w = [n \in 0..c |-> w[n]] /\ x = [n \in 0..c |-> x[n]]
    BY <1>2, Zenon
  <1>7. w = x
    BY <1>5, <1>6, Zenon
  <1> QED BY <1>7 DEF x

(* Get is the answer at the root.                                            *)
LEMMA GetAnswers ==
    ASSUME NEW t \in Tree, NEW k
    PROVE  /\ Get(t, k) = Answer(nodes, count, k)[root[t]]
           /\ Get(t, k)' = Answer(nodes', count', k)[root'[t]]
  BY Zenon DEF Get, Answer, Answers, Walks, Way, Child, nil

(* Ranks can be given to a heap with one node more.                          *)
LEMMA AcyclicGrows ==
    ASSUME NEW c \in Nat, NEW f, IsHeap(f, c), NEW g, IsHeap(g, c + 1),
           NEW b \in Nat, NEW rank \in [1..c -> 0..b], Ranks(rank, b, f, c),
           NEW top \in 0..(b + 1),
           \A m \in {g[c + 1].left, g[c + 1].right} :
              m # 0 => m \in 1..c /\ rank[m] + 1 < top,
           \A n \in 1..c : /\ g[n].left \in {f[n].left, c + 1}
                           /\ g[n].right \in {f[n].right, c + 1}
                           /\ c + 1 \in {g[n].left, g[n].right} => top < rank[n] + 1
    PROVE  Acyclic(g, c + 1)
  <1> DEFINE new == [n \in 1..(c + 1) |-> IF n = c + 1 THEN top ELSE rank[n] + 1]
  <1>1. \A n \in 1..c : rank[n] + 1 \in 0..(b + 1) /\ rank[n] \in 0..b
    OBVIOUS
  <1>2. new \in [1..(c + 1) -> 0..(b + 1)]
    BY <1>1
  <1>3. new[c + 1] = top /\ \A n \in 1..c : new[n] = rank[n] + 1
    OBVIOUS
  <1> HIDE DEF new
  <1>4. ASSUME NEW n \in 1..(c + 1), NEW m \in {g[n].left, g[n].right}, m # 0
        PROVE  new[m] < new[n]
    <2>1. CASE n = c + 1
      <3>1. m \in 1..c /\ rank[m] + 1 < top
        BY <2>1, <1>4
      <3> QED BY <3>1, <2>1, <1>3
    <2>2. CASE n \in 1..c
      <3>1. CASE m = c + 1
        <4>1. top < rank[n] + 1
          BY <2>2, <3>1
        <4> QED BY <4>1, <2>2, <3>1, <1>3
      <3>2. CASE m # c + 1
        <4>1. m \in {f[n].left, f[n].right}
          BY <2>2, <3>2
        <4>2. m \in 1..c /\ rank[m] < rank[n]
          <5>1. m \in 1..c
            BY <2>2, <4>1, <1>4 DEF IsHeap
          <5>2. rank[m] < rank[n]
            BY <2>2, <4>1, <1>4, Zenon DEF Ranks
          <5> QED BY <5>1, <5>2
        <4> QED BY <4>2, <2>2, <1>1, <1>3
      <3> QED BY <3>1, <3>2
    <2> QED BY <2>1, <2>2
  <1>5. Ranks(new, b + 1, g, c + 1)
    BY <1>2, <1>4 DEF Ranks
  <1>6. b + 1 \in Nat
    OBVIOUS
  <1> QED BY <1>2, <1>5, <1>6, Zenon DEF Acyclic

(* g is f with a leaf more, which hangs where nothing did.                   *)
HasLeaf(g, f, c) ==
    /\ g[c + 1].left = 0 /\ g[c + 1].right = 0
    /\ \A n \in 1..c :
          /\ g[n].key = f[n].key /\ g[n].value = f[n].value
          /\ g[n].left = f[n].left \/ (f[n].left = 0 /\ g[n].left = c + 1)
          /\ g[n].right = f[n].right \/ (f[n].right = 0 /\ g[n].right = c + 1)

(* g is f with a copy of node s, which hangs where s did.                    *)
HasCopy(g, f, c, s) ==
    /\ g[c + 1].key = f[s].key /\ g[c + 1].value = f[s].value
    /\ g[c + 1].left = f[s].left /\ g[c + 1].right = f[s].right
    /\ \A n \in 1..c :
          /\ g[n].key = f[n].key /\ g[n].value = f[n].value
          /\ g[n].left = f[n].left \/ (f[n].left = s /\ g[n].left = c + 1)
          /\ g[n].right = f[n].right \/ (f[n].right = s /\ g[n].right = c + 1)

(* A leaf makes no cycle, and neither does a copy.                           *)
LEMMA LeafAcyclic ==
    ASSUME NEW c \in Nat, NEW f, IsHeap(f, c), Acyclic(f, c),
           NEW g, IsHeap(g, c + 1), HasLeaf(g, f, c)
    PROVE  Acyclic(g, c + 1)
  <1>0. PICK b \in Nat : \E rank \in [1..c -> 0..b] : Ranks(rank, b, f, c)
    BY Zenon DEF Acyclic
  <1>1. PICK rank \in [1..c -> 0..b] : Ranks(rank, b, f, c)
    BY <1>0
  <1>2. \A n \in 1..c : /\ g[n].left \in {f[n].left, c + 1}
                        /\ g[n].right \in {f[n].right, c + 1}
                        /\ c + 1 \in {g[n].left, g[n].right} => 0 < rank[n] + 1
    BY DEF HasLeaf
  <1>3. \A m \in {g[c + 1].left, g[c + 1].right} : m # 0 => m \in 1..c /\ rank[m] + 1 < 0
    BY DEF HasLeaf
  <1>4. 0 \in 0..(b + 1)
    OBVIOUS
  <1> QED BY <1>1, <1>2, <1>3, <1>4, AcyclicGrows, Zenon

(* Neither does a copy: it takes the rank of its original.                   *)
LEMMA CopyAcyclic ==
    ASSUME NEW c \in Nat, NEW f, IsHeap(f, c), Acyclic(f, c), NEW s \in 1..c,
           NEW g, IsHeap(g, c + 1), HasCopy(g, f, c, s)
    PROVE  Acyclic(g, c + 1)
  <1>0. PICK b \in Nat : \E rank \in [1..c -> 0..b] : Ranks(rank, b, f, c)
    BY Zenon DEF Acyclic
  <1>1. PICK rank \in [1..c -> 0..b] : Ranks(rank, b, f, c)
    BY <1>0
  <1> DEFINE top == rank[s] + 1
  <1>2. \A n \in 1..c : f[n].left \in 0..c /\ f[n].right \in 0..c /\ rank[n] \in 0..b
    BY DEF IsHeap
  <1>3. ASSUME NEW n \in 1..c
        PROVE  /\ g[n].left \in {f[n].left, c + 1}
               /\ g[n].right \in {f[n].right, c + 1}
               /\ c + 1 \in {g[n].left, g[n].right} => top < rank[n] + 1
    <2>1. c + 1 \in {g[n].left, g[n].right} => s \in {f[n].left, f[n].right}
      BY <1>2 DEF HasCopy
    <2>2. s \in {f[n].left, f[n].right} => rank[s] < rank[n]
      BY <1>1 DEF Ranks
    <2>3. g[n].left \in {f[n].left, c + 1} /\ g[n].right \in {f[n].right, c + 1}
      BY Zenon DEF HasCopy
    <2>4. s \in {f[n].left, f[n].right} => top < rank[n] + 1
      BY <1>2, <2>2
    <2> QED BY <2>1, <2>3, <2>4, Zenon
  <1>4. ASSUME NEW m \in {g[c + 1].left, g[c + 1].right}, m # 0
        PROVE  m \in 1..c /\ rank[m] + 1 < top
    <2>1. m \in {f[s].left, f[s].right}
      BY DEF HasCopy
    <2>2. m \in 1..c /\ rank[m] < rank[s]
      BY <1>1, <1>2, <1>4, <2>1 DEF Ranks
    <2> QED BY <2>2, <1>2
  <1>5. top \in 0..(b + 1)
    BY <1>2
  <1> HIDE DEF top
  <1> QED BY <1>1, <1>3, <1>4, <1>5, AcyclicGrows, Zenon

(* What an answer is, node by node.                                          *)
LEMMA AnswerWalks ==
    ASSUME NEW c \in Nat, NEW f, IsHeap(f, c), Acyclic(f, c), NEW k
    PROVE  \A n \in 0..c : Answer(f, c, k)[n] = Walks(Answer(f, c, k), f, n, k)
  <1> DEFINE x == Answer(f, c, k)
  <1>1. Answers(x, f, c, k)
    BY WalksEnd
  <1> HIDE DEF x
  <1>2. \A n \in 0..c : x[n] = Walks(x, f, n, k)
    BY <1>1, Zenon DEF Answers
  <1> QED BY <1>2 DEF x

(* A copy answers what the original does.                                    *)
LEMMA CopyAnswers ==
    ASSUME NEW c \in Nat, NEW f, IsHeap(f, c), Acyclic(f, c), NEW s \in 1..c,
           NEW g, IsHeap(g, c + 1), HasCopy(g, f, c, s), NEW k
    PROVE  /\ Answer(g, c + 1, k)[c + 1] = Answer(f, c, k)[s]
           /\ \A n \in 0..c : Answer(g, c + 1, k)[n] = Answer(f, c, k)[n]
  <1> DEFINE w == Answer(f, c, k)
             y == [n \in 0..(c + 1) |-> IF n = c + 1 THEN w[s] ELSE w[n]]
  <1>1. \A n \in 0..c : w[n] = Walks(w, f, n, k)
    BY AnswerWalks
  <1> HIDE DEF w
  <1>2. y[c + 1] = w[s] /\ \A n \in 0..c : y[n] = w[n]
    OBVIOUS
  <1>d. y = [n \in 0..(c + 1) |-> y[n]]
    OBVIOUS
  <1> HIDE DEF y
  <1>3. \A n \in 1..c : Way(f, n, k) \in 0..c
    BY WayIsPointer
  <1>4. ASSUME NEW n \in 0..(c + 1) PROVE y[n] = Walks(y, g, n, k)
    <2>1. CASE n = 0
      BY <2>1, <1>1, <1>2 DEF Walks
    <2>2. CASE n = c + 1
      <3>1. y[n] = w[s] /\ w[s] = Walks(w, f, s, k)
        BY <2>2, <1>1, <1>2
      <3>2. /\ g[n].key = f[s].key /\ g[n].value = f[s].value
            /\ Way(g, n, k) = Way(f, s, k)
        BY <2>2, Zenon DEF HasCopy, Way
      <3>3. y[Way(g, n, k)] = w[Way(f, s, k)]
        BY <3>2, <1>2, <1>3
      <3>4. n # 0 /\ s # 0
        BY <2>2
      <3> QED BY <3>1, <3>2, <3>3, <3>4, Zenon DEF Walks
    <2>3. CASE n \in 1..c
      <3>1. y[n] = w[n] /\ w[n] = Walks(w, f, n, k)
        BY <2>3, <1>1, <1>2
      <3>2. /\ g[n].key = f[n].key /\ g[n].value = f[n].value
            /\ Way(g, n, k) = Way(f, n, k) \/ (Way(f, n, k) = s /\ Way(g, n, k) = c + 1)
        BY <2>3, Zenon DEF HasCopy, Way
      <3>3. y[Way(g, n, k)] = w[Way(f, n, k)]
        BY <2>3, <3>2, <1>2, <1>3
      <3>4. n # 0
        BY <2>3
      <3> QED BY <3>1, <3>2, <3>3, <3>4, Zenon DEF Walks
    <2> QED BY <2>1, <2>2, <2>3
  <1>5. Answers(y, g, c + 1, k)
    BY <1>d, <1>4 DEF Answers
  <1>6. Acyclic(g, c + 1) /\ c + 1 \in Nat
    BY CopyAcyclic
  <1>7. Answer(g, c + 1, k) = y
    BY <1>5, <1>6, AnswerIs, Zenon
  <1> QED BY <1>2, <1>7 DEF w

(* A leaf with another key changes no answer.                                *)
LEMMA LeafAnswers ==
    ASSUME NEW c \in Nat, NEW f, IsHeap(f, c), Acyclic(f, c),
           NEW g, IsHeap(g, c + 1), HasLeaf(g, f, c), NEW k, g[c + 1].key # k
    PROVE  \A n \in 0..c : Answer(g, c + 1, k)[n] = Answer(f, c, k)[n]
  <1> DEFINE w == Answer(f, c, k)
             y == [n \in 0..(c + 1) |-> IF n = c + 1 THEN 0 ELSE w[n]]
  <1>1. \A n \in 0..c : w[n] = Walks(w, f, n, k)
    BY AnswerWalks
  <1> HIDE DEF w
  <1>0. w[0] = 0
    BY <1>1 DEF Walks
  <1>2. y[c + 1] = 0 /\ \A n \in 0..c : y[n] = w[n]
    OBVIOUS
  <1>d. y = [n \in 0..(c + 1) |-> y[n]]
    OBVIOUS
  <1> HIDE DEF y
  <1>3. \A n \in 1..c : Way(f, n, k) \in 0..c
    BY WayIsPointer
  <1>4. ASSUME NEW n \in 0..(c + 1) PROVE y[n] = Walks(y, g, n, k)
    <2>1. CASE n = 0
      BY <2>1, <1>0, <1>2 DEF Walks
    <2>2. CASE n = c + 1
      <3>1. Way(g, n, k) = 0 /\ g[n].key # k /\ n # 0
        BY <2>2 DEF HasLeaf, Way
      <3> QED BY <2>2, <3>1, <1>0, <1>2 DEF Walks
    <2>3. CASE n \in 1..c
      <3>1. y[n] = w[n] /\ w[n] = Walks(w, f, n, k)
        BY <2>3, <1>1, <1>2
      <3>2. /\ g[n].key = f[n].key /\ g[n].value = f[n].value
            /\ Way(g, n, k) = Way(f, n, k) \/ (Way(f, n, k) = 0 /\ Way(g, n, k) = c + 1)
        BY <2>3, Zenon DEF HasLeaf, Way
      <3>3. y[Way(g, n, k)] = w[Way(f, n, k)]
        BY <2>3, <3>2, <1>0, <1>2, <1>3
      <3>4. n # 0
        BY <2>3
      <3> QED BY <3>1, <3>2, <3>3, <3>4, Zenon DEF Walks
    <2> QED BY <2>1, <2>2, <2>3
  <1>5. Answers(y, g, c + 1, k)
    BY <1>d, <1>4 DEF Answers
  <1>6. Acyclic(g, c + 1) /\ c + 1 \in Nat
    BY LeafAcyclic
  <1>7. Answer(g, c + 1, k) = y
    BY <1>5, <1>6, AnswerIs, Zenon
  <1> QED BY <1>2, <1>7 DEF w

(* A value written to node n is seen for the key of n only.                  *)
HasValue(g, f, c, n) ==
    \A m \in 1..c : /\ g[m].key = f[m].key
                    /\ g[m].left = f[m].left /\ g[m].right = f[m].right
                    /\ m # n => g[m].value = f[m].value

(* Values make no cycle either.                                              *)
LEMMA ValueAcyclic ==
    ASSUME NEW c \in Nat, NEW f, Acyclic(f, c), NEW n, NEW g, HasValue(g, f, c, n)
    PROVE  Acyclic(g, c)
  <1>0. PICK b \in Nat : \E rank \in [1..c -> 0..b] : Ranks(rank, b, f, c)
    BY Zenon DEF Acyclic
  <1>1. PICK rank \in [1..c -> 0..b] : Ranks(rank, b, f, c)
    BY <1>0
  <1>2. Ranks(rank, b, g, c)
    BY <1>1 DEF Ranks, HasValue
  <1> QED BY <1>2, Zenon DEF Acyclic

(* A walk for another key never reads the value.                             *)
LEMMA ValueAnswers ==
    ASSUME NEW c \in Nat, NEW f, IsHeap(f, c), Acyclic(f, c), NEW n \in 1..c,
           NEW g, IsHeap(g, c), HasValue(g, f, c, n), NEW k, f[n].key # k
    PROVE  Answer(g, c, k) = Answer(f, c, k)
  <1> DEFINE w == Answer(f, c, k)
  <1>1. Answers(w, f, c, k)
    BY WalksEnd
  <1> HIDE DEF w
  <1>2. ASSUME NEW m \in 0..c PROVE Walks(w, g, m, k) = Walks(w, f, m, k)
    <2>1. CASE m = 0
      BY <2>1, Zenon DEF Walks
    <2>2. CASE m \in 1..c
      <3>1. Way(g, m, k) = Way(f, m, k)
        BY <2>2, Zenon DEF Way, HasValue
      <3>2. g[m].key = f[m].key /\ (f[m].key = k => g[m].value = f[m].value)
        BY <2>2, Zenon DEF HasValue
      <3> QED BY <3>1, <3>2, Zenon DEF Walks
    <2> QED BY <2>1, <2>2
  <1>3. Answers(w, g, c, k)
    BY <1>1, <1>2 DEF Answers
  <1>4. Acyclic(g, c)
    BY ValueAcyclic, Zenon
  <1>5. Answer(g, c, k) = w
    BY <1>3, <1>4, AnswerIs, Zenon
  <1> QED BY <1>5 DEF w

(* Node n is on the walk for k that starts at r: no set of nodes that the     *)
(* walk does not leave has r and not n.                                      *)
Leads(r, n, f, c, k) == \A S \in SUBSET (0..c) : r \in S /\ Closed(S, f, k) => n \in S

(* Two heaps in which the walk for k goes on the same way from the nodes of S. *)
SameWays(g, f, S, k) == \A n \in S : g[n].key = f[n].key /\ Way(g, n, k) = Way(f, n, k)

(* What is found at a node of the walk is found at its start.                *)
LEMMA LeadsToAnswer ==
    ASSUME NEW c \in Nat, NEW f, IsHeap(f, c), NEW n \in 1..c, NEW r \in 0..c, NEW k,
           Leads(r, n, f, c, k), NEW x, NEW g, AnswersOn(x, 1..c, g, k),
           SameWays(g, f, (1..c) \ {n}, k)
    PROVE  x[r] = x[n]
  <1> DEFINE T == {m \in 0..c : x[m] # x[n]}
  <1>1. ASSUME NEW m \in T, m # 0, f[m].key # k PROVE Way(f, m, k) \in T
    <2>1. m \in (1..c) \ {n} /\ x[m] # x[n] /\ Way(f, m, k) \in 0..c
      BY <1>1, WayIsPointer
    <2>2. x[m] = x[Way(f, m, k)]
      BY <2>1, <1>1, Zenon DEF AnswersOn, Walks, SameWays
    <2> QED BY <2>1, <2>2
  <1>2. T \in SUBSET (0..c) /\ n \notin T
    OBVIOUS
  <1>3. Closed(T, f, k)
    BY <1>1 DEF Closed
  <1>4. r \notin T
    <2> HIDE DEF T
    <2> QED BY <1>2, <1>3, Zenon DEF Leads
  <1> QED BY <1>4

-------------------------------------------------------------------------------
(* The trees *)

OnPath(t) == Leads(root[t], at[t], nodes, count, arg[t].key)

(* The heap has no cycle, and a writer is on the walk of its key: inductive    *)
(* with the ownership of nodes.                                              *)
RefInv == /\ IInv
          /\ Acyclic(nodes, count)
          /\ \A t \in Tree : at[t] # nil => OnPath(t)

(* The nodes of the trees are a heap.                                        *)
LEMMA TreesAreHeaps == TypeOK => IsHeap(nodes, count) /\ count \in Nat
  BY Zenon DEF TypeOK, IsHeap

(* The nodes t does not own: what is read there leads to no node of t.        *)
Foreign(t) == {n \in 0..count : n = 0 \/ ~Owned(n, t)}

(* A walk among foreign nodes stays there, by OwnedParents and OwnedRoots.   *)
LEMMA ForeignIsClosed ==
    ASSUME IInv, NEW t \in Tree, Exists(t), NEW k
    PROVE  /\ Foreign(t) \in SUBSET (0..count) /\ Closed(Foreign(t), nodes, k)
           /\ \A u \in Tree \ {t} : root[u] \in Foreign(t)
  <1>1. count \in Nat /\ IsHeap(nodes, count) /\ root \in [Tree -> 0..count]
    BY TreesAreHeaps DEF IInv, TypeOK
  <1>2. ASSUME NEW n \in Foreign(t), n # 0 PROVE Way(nodes, n, k) \in Foreign(t)
    <2>1. n \in 1..count /\ ~Owned(n, t)
      BY <1>1, <1>2 DEF Foreign
    <2>2. /\ Way(nodes, n, k) \in 0..count
          /\ Way(nodes, n, k) \in {nodes[n].left, nodes[n].right}
      BY <1>1, <2>1, WayIsPointer
    <2>3. CASE Way(nodes, n, k) # 0
      <3>1. Way(nodes, n, k) \in 1..count
        BY <1>1, <2>2, <2>3
      <3>2. ~Owned(Way(nodes, n, k), t)
        BY <2>1, <2>2, <3>1, Zenon DEF IInv, Ownership, OwnedParents
      <3> QED BY <2>2, <3>2 DEF Foreign
    <2>4. CASE Way(nodes, n, k) = 0
      BY <2>2, <2>4 DEF Foreign
    <2> QED BY <2>3, <2>4
  <1>3. Closed(Foreign(t), nodes, k)
    BY <1>2 DEF Closed
  <1>4. ASSUME NEW u \in Tree \ {t} PROVE root[u] \in Foreign(t)
    <2>1. root[u] = 0 \/ ~Owned(root[u], t)
      BY <1>4, Zenon DEF IInv, Ownership, OwnedRoots, nil
    <2> QED BY <2>1, <1>1 DEF Foreign
  <1> QED BY <1>3, <1>4 DEF Foreign

(* A step that writes the nodes of t only.                                   *)
WritesOwn(t) == /\ Exists(t) /\ count' \in {count, count + 1}
                /\ \A n \in 1..count : ~Owned(n, t) => nodes'[n] = nodes[n]

(* ... is not seen through another tree,                                     *)
LEMMA OthersAnswer ==
    ASSUME IInv, Acyclic(nodes, count), IsHeap(nodes', count'), Acyclic(nodes', count'),
           NEW t \in Tree, WritesOwn(t), NEW u \in Tree \ {t}, root'[u] = root[u], NEW k
    PROVE  Get(u, k)' = Get(u, k)
  <1> DEFINE w == Answer(nodes, count, k)
             x == Answer(nodes', count', k)
             S == Foreign(t)
  <1>1. count \in Nat /\ IsHeap(nodes, count) /\ count' \in Nat /\ 0..count \subseteq 0..count'
    BY TreesAreHeaps DEF IInv, WritesOwn
  <1>2. S \in SUBSET (0..count) /\ Closed(S, nodes, k) /\ root[u] \in S
    BY ForeignIsClosed DEF WritesOwn
  <1>3. \A n \in 0..count : w[n] = Walks(w, nodes, n, k)
    BY <1>1, AnswerWalks
  <1>4. \A n \in 0..count' : x[n] = Walks(x, nodes', n, k)
    BY <1>1, AnswerWalks
  <1> HIDE DEF w, x
  <1>5. AnswersOn(w, S, nodes, k)
    BY <1>2, <1>3, Zenon DEF AnswersOn
  <1>6. ASSUME NEW n \in S PROVE x[n] = Walks(x, nodes, n, k)
    <2>1. x[n] = Walks(x, nodes', n, k)
      BY <1>1, <1>2, <1>4
    <2>2. n = 0 \/ nodes'[n] = nodes[n]
      BY <1>1 DEF WritesOwn, Foreign
    <2> QED BY <2>1, <2>2, Zenon DEF Walks, Way
  <1>7. AnswersOn(x, S, nodes, k)
    BY <1>6 DEF AnswersOn
  <1>8. AgreeOn(w, x, S)
    <2> HIDE DEF S
    <2> QED BY <1>1, <1>2, <1>5, <1>7, WalksAgree, Zenon
  <1>9. w[root[u]] = x[root[u]]
    BY <1>2, <1>8, Zenon DEF AgreeOn
  <1>10. /\ Get(u, k) = w[root[u]]
         /\ Get(u, k)' = x[root'[u]]
    BY GetAnswers, Zenon DEF w, x
  <1> QED BY <1>9, <1>10, Zenon

(* ... and leaves the other writers on their walks.                          *)
LEMMA OthersOnPath ==
    ASSUME IInv, NEW t \in Tree, WritesOwn(t), NEW u \in Tree \ {t},
           root'[u] = root[u], at'[u] = at[u], arg'[u] = arg[u], OnPath(u)
    PROVE  OnPath(u)'
  <1> DEFINE k == arg[u].key
  <1>1. count \in Nat /\ IsHeap(nodes, count) /\ count' \in Nat /\ 0..count \subseteq 0..count'
    BY TreesAreHeaps DEF IInv, WritesOwn
  <1>2. Leads(root[u], at[u], nodes, count, k)
    BY DEF OnPath
  <1> SUFFICES ASSUME NEW S \in SUBSET (0..count'), root[u] \in S, Closed(S, nodes', k)
               PROVE  at[u] \in S
    BY Zenon DEF OnPath, Leads
  <1> HIDE DEF k
  <1> DEFINE R == S \cap Foreign(t)
  <1>3. /\ Foreign(t) \in SUBSET (0..count) /\ Closed(Foreign(t), nodes, k)
        /\ root[u] \in Foreign(t)
    BY ForeignIsClosed DEF WritesOwn
  <1>4. ASSUME NEW n \in R, n # 0, nodes[n].key # k PROVE Way(nodes, n, k) \in R
    <2>1. nodes'[n] = nodes[n]
      BY <1>1, <1>4 DEF Foreign, WritesOwn
    <2>2. Way(nodes', n, k) = Way(nodes, n, k)
      BY <2>1, Zenon DEF Way
    <2> QED BY <1>3, <1>4, <2>1, <2>2, Zenon DEF Closed
  <1>5. R \in SUBSET (0..count) /\ root[u] \in R /\ Closed(R, nodes, k)
    BY <1>3, <1>4 DEF Closed
  <1>6. at[u] \in R
    <2> HIDE DEF R
    <2> QED BY <1>2, <1>5, Zenon DEF Leads
  <1> QED BY <1>6

(* The same after a step.                                                    *)
LEMMA NextAreHeaps == TypeOK' => IsHeap(nodes', count') /\ count' \in Nat
  BY Zenon DEF TypeOK, IsHeap

(* What a step shows through Get: nothing, or one value of one tree.         *)
NothingSeen == \A u \in Tree, j \in Key : Get(u, j)' = Get(u, j)
PutSeen(t, k, v) ==
    \A u \in Tree, j \in Key : Get(u, j)' = IF u = t /\ j = k THEN v ELSE Get(u, j)

(* The last step of an Upsert of a key the tree has.                         *)
LEMMA UpsertValueSeen ==
    ASSUME RefInv, IInv', NEW t \in Tree, UpsertValue(t)
    PROVE  RefInv' /\ PutSeen(t, arg[t].key, arg[t].value)
  <1> DEFINE n == at[t]
             k == arg[t].key
             v == arg[t].value
  <1>1. /\ TypeOK /\ IInv /\ Acyclic(nodes, count) /\ OnPath(t)
        /\ count \in Nat /\ IsHeap(nodes, count) /\ count' = count /\ root' = root
        /\ n \in 1..count /\ Exists(t) /\ Owned(n, t) /\ arg[t] \in Argument
        /\ nodes \in [1..count -> Node] /\ root[t] \in 0..count
    <2>1. n # nil /\ count' = count /\ root' = root
      BY Zenon DEF UpsertValue
    <2>2. TypeOK /\ IInv /\ Acyclic(nodes, count) /\ OnPath(t)
      BY <2>1, Zenon DEF RefInv, IInv
    <2>3. Exists(t) /\ Owned(n, t)
      BY <2>1, <2>2, Zenon DEF IInv, Ownership, WriterOwns
    <2>4. /\ count \in Nat /\ at[t] \in 0..count /\ arg[t] \in Argument
          /\ nodes \in [1..count -> Node] /\ root[t] \in 0..count
      BY <2>1, <2>2 DEF TypeOK
    <2>5. n \in 1..count
      BY <2>1, <2>4
    <2> QED BY <2>1, <2>2, <2>3, <2>4, <2>5, TreesAreHeaps, Zenon
  <1>2. k \in Key /\ v \in Value /\ nodes[n].key = k
    BY <1>1 DEF Argument, UpsertValue
  <1>3. /\ nodes'[n] = [key |-> nodes[n].key, value |-> v, left |-> nodes[n].left,
                        right |-> nodes[n].right, cow |-> nodes[n].cow]
        /\ \A m \in (1..count) \ {n} : nodes'[m] = nodes[m]
    <2>1. nodes' = [nodes EXCEPT ![n].value = v]
      BY Zenon DEF UpsertValue
    <2>2. nodes'[n] = [nodes[n] EXCEPT !.value = v] /\ nodes[n] \in Node
      BY <2>1, <1>1
    <2>3. nodes'[n] = [key |-> nodes[n].key, value |-> v, left |-> nodes[n].left,
                        right |-> nodes[n].right, cow |-> nodes[n].cow]
      <3>1. 0 \in Nat
        OBVIOUS
      <3> HIDE DEF n, v
      <3> QED BY <2>2, <1>2, <3>1, ReplacedField, Zenon
    <2> HIDE DEF n, v
    <2> QED BY <2>1, <2>3, <1>1
  <1>4. HasValue(nodes', nodes, count, n)
    <2> HIDE DEF n, v
    <2> QED BY <1>3 DEF HasValue
  <1>5. IsHeap(nodes', count)
    BY <1>1, NextAreHeaps DEF IInv
  <1>6. Acyclic(nodes', count)
    BY <1>1, <1>4, ValueAcyclic, Zenon
  <1>7. WritesOwn(t)
    <2> HIDE DEF n, v
    <2> QED BY <1>1, <1>3 DEF WritesOwn
  <1>8. ASSUME NEW u \in Tree \ {t} PROVE at'[u] = at[u] /\ arg'[u] = arg[u]
    BY <1>1 DEF UpsertValue, Done, TypeOK
  <1>9. at'[t] = nil
    BY <1>1 DEF UpsertValue, Done, TypeOK
  <1>10. RefInv'
    <2>1. ASSUME NEW u \in Tree, at'[u] # nil PROVE OnPath(u)'
      <3>1. u \in Tree \ {t} /\ at[u] # nil
        BY <1>8, <1>9, <2>1
      <3>2. OnPath(u)
        BY <3>1 DEF RefInv
      <3> QED BY <3>1, <3>2, <1>1, <1>7, <1>8, OthersOnPath, Zenon
    <2> QED BY <2>1, <1>1, <1>6, Zenon DEF RefInv
  <1>11. ASSUME NEW u \in Tree \ {t}, NEW j \in Key PROVE Get(u, j)' = Get(u, j)
    BY <1>1, <1>5, <1>6, <1>7, OthersAnswer, Zenon
  <1>12. ASSUME NEW j \in Key, j # k PROVE Get(t, j)' = Get(t, j)
    <2>1. nodes[n].key # j
      BY <1>2, <1>12
    <2> HIDE DEF n, k, v
    <2>2. Answer(nodes', count, j) = Answer(nodes, count, j)
      BY <1>1, <1>4, <1>5, <2>1, ValueAnswers
    <2>3. /\ Get(t, j) = Answer(nodes, count, j)[root[t]]
          /\ Get(t, j)' = Answer(nodes', count', j)[root'[t]]
      BY GetAnswers, Zenon
    <2> QED BY <1>1, <2>2, <2>3, Zenon
  <1>13. ASSUME NEW j \in Key, j = k PROVE Get(t, j)' = v
    <2> DEFINE x == Answer(nodes', count, k)
    <2>1. \A m \in 0..count : x[m] = Walks(x, nodes', m, k)
      BY <1>1, <1>5, <1>6, AnswerWalks
    <2> HIDE DEF x, n, k, v
    <2>2. AnswersOn(x, 1..count, nodes', k)
      BY <2>1 DEF AnswersOn
    <2>3. Leads(root[t], n, nodes, count, k)
      BY <1>1 DEF OnPath, n, k
    <2>4. SameWays(nodes', nodes, (1..count) \ {n}, k)
      BY <1>4, Zenon DEF Way, SameWays, HasValue
    <2>5. x[root[t]] = x[n]
      BY <1>1, <2>2, <2>3, <2>4, LeadsToAnswer
    <2>6. x[n] = v
      <3>1. n # 0 /\ nodes'[n].key = k /\ nodes'[n].value = v
        BY <1>1, <1>2, <1>3
      <3> QED BY <3>1, <1>1, <2>1 DEF Walks
    <2>7. Get(t, j)' = Answer(nodes', count', j)[root'[t]]
      BY GetAnswers, Zenon
    <2> QED BY <1>1, <1>13, <2>5, <2>6, <2>7, Zenon DEF x
  <1> QED BY <1>10, <1>11, <1>12, <1>13 DEF PutSeen

(* A linked heap has what the heap had, and the link.                        *)
LEMMA LinkedKeeps ==
    ASSUME TypeOK, NEW n \in 1..count, NEW k \in Key
    PROVE  \A m \in 1..count :
              /\ Linked(n, k)[m].key = nodes[m].key
              /\ Linked(n, k)[m].value = nodes[m].value
              /\ Linked(n, k)[m].left = IF m = n /\ k < nodes[n].key THEN count + 1
                                                                    ELSE nodes[m].left
              /\ Linked(n, k)[m].right = IF m = n /\ ~(k < nodes[n].key)
                                         THEN count + 1 ELSE nodes[m].right
  <1>1. PICK r \in Node : r = nodes[n]
    BY DEF TypeOK
  <1>2. count + 1 \in Nat /\ nodes \in [1..count -> Node]
    BY DEF TypeOK
  <1>3. WithChild(n, k, count + 1) = IF k < r.key THEN [r EXCEPT !.left = count + 1]
                                                 ELSE [r EXCEPT !.right = count + 1]
    BY <1>1, Zenon DEF WithChild
  <1>4. /\ [r EXCEPT !.left = count + 1] = [key |-> r.key, value |-> r.value,
                    left |-> count + 1, right |-> r.right, cow |-> r.cow]
        /\ [r EXCEPT !.right = count + 1] = [key |-> r.key, value |-> r.value,
                    left |-> r.left, right |-> count + 1, cow |-> r.cow]
    <2>1. r.value \in Value
      BY DEF Node
    <2> QED BY <1>1, <1>2, <2>1, ReplacedField, Zenon
  <1> DEFINE y == WithChild(n, k, count + 1)
  <1>5. /\ y.key = r.key /\ y.value = r.value
        /\ y.left = IF k < r.key THEN count + 1 ELSE r.left
        /\ y.right = IF k < r.key THEN r.right ELSE count + 1
    BY <1>3, <1>4
  <1> HIDE DEF y
  <1>6. \A m \in 1..count : Linked(n, k)[m] = IF m = n THEN y ELSE nodes[m]
    BY <1>2 DEF Linked, y
  <1> QED BY <1>1, <1>5, <1>6

(* What a leaf and a copy are made of.                                       *)
LEMMA LeafIs ==
    ASSUME NEW t, NEW k, NEW v
    PROVE  /\ Leaf(t, k, v).key = k /\ Leaf(t, k, v).value = v
           /\ Leaf(t, k, v).left = 0 /\ Leaf(t, k, v).right = 0
  BY DEF Leaf

(* A copy has everything of its original but the context.                    *)
LEMMA CopiedIs ==
    ASSUME TypeOK, NEW t \in Tree, NEW n \in 1..count
    PROVE  /\ Copied(n, t).key = nodes[n].key /\ Copied(n, t).value = nodes[n].value
           /\ Copied(n, t).left = nodes[n].left /\ Copied(n, t).right = nodes[n].right
  <1>1. PICK r \in Node : r = nodes[n]
    BY DEF TypeOK
  <1>2. Copied(n, t) = [r EXCEPT !.cow = cow[t]]
    BY <1>1, Zenon DEF Copied
  <1>3. cow[t] \in Nat /\ \E v \in Value : TRUE
    BY <1>1 DEF TypeOK, Node
  <1>4. Copied(n, t) = [key |-> r.key, value |-> r.value, left |-> r.left,
                        right |-> r.right, cow |-> cow[t]]
    BY <1>2, <1>3, ReplacedField, Zenon
  <1> QED BY <1>1, <1>4

(* A step that allocates node x: what the heap becomes.                      *)
LEMMA NewNodeIs ==
    ASSUME count \in Nat, NEW heap, NEW x, nodes' = NewNode(heap, x)
    PROVE  nodes'[count + 1] = x /\ \A m \in 1..count : nodes'[m] = heap[m]
  BY DEF NewNode

(* The last step of an Upsert of a new key: the leaf is linked.              *)
LEMMA UpsertLeafSeen ==
    ASSUME RefInv, IInv', NEW t \in Tree, UpsertLeaf(t)
    PROVE  RefInv' /\ PutSeen(t, arg[t].key, arg[t].value)
  <1> DEFINE n == at[t]
             k == arg[t].key
             v == arg[t].value
  <1>1. /\ TypeOK /\ IInv /\ Acyclic(nodes, count) /\ OnPath(t)
        /\ count \in Nat /\ IsHeap(nodes, count) /\ count' = count + 1 /\ root' = root
        /\ n \in 1..count /\ Exists(t) /\ Owned(n, t) /\ arg[t] \in Argument
        /\ nodes \in [1..count -> Node] /\ root \in [Tree -> 0..count]
    <2>1. /\ n # nil /\ k # nodes[n].key /\ Child(n, k) = nil
          /\ count' = count + 1 /\ root' = root
      BY Zenon DEF UpsertLeaf
    <2>2. TypeOK /\ IInv /\ Acyclic(nodes, count) /\ OnPath(t)
      BY <2>1, Zenon DEF RefInv, IInv
    <2>3. Exists(t) /\ Owned(n, t)
      BY <2>1, <2>2, Zenon DEF IInv, Ownership, WriterOwns
    <2>4. /\ count \in Nat /\ at[t] \in 0..count /\ arg[t] \in Argument
          /\ nodes \in [1..count -> Node] /\ root \in [Tree -> 0..count]
      BY <2>1, <2>2 DEF TypeOK
    <2>5. n \in 1..count
      BY <2>1, <2>4
    <2> QED BY <2>1, <2>2, <2>3, <2>4, <2>5, TreesAreHeaps, Zenon
  <1>2. k \in Key /\ v \in Value /\ nodes[n].key # k /\ Child(n, k) = 0
    <2>1. k # nodes[n].key /\ Child(n, k) = nil
      BY Zenon DEF UpsertLeaf
    <2>2. k \in Key /\ v \in Value
      BY <1>1 DEF Argument
    <2> QED BY <2>1, <2>2
  <1>3. nodes' = NewNode(Linked(n, k), Leaf(t, k, v))
    BY Zenon DEF UpsertLeaf, Linked
  <1>8. ASSUME NEW u \in Tree \ {t} PROVE at'[u] = at[u] /\ arg'[u] = arg[u]
    BY <1>1 DEF UpsertLeaf, Done, TypeOK
  <1>9. at'[t] = nil
    BY <1>1 DEF UpsertLeaf, Done, TypeOK
  <1>p. n = at[t] /\ k = arg[t].key /\ v = arg[t].value
    OBVIOUS
  <1> HIDE DEF n, k, v
  <1>4. /\ nodes'[count + 1] = Leaf(t, k, v)
        /\ \A m \in 1..count : nodes'[m] = Linked(n, k)[m]
    BY <1>1, <1>3, NewNodeIs, Zenon
  <1>5. \A m \in 1..count :
              /\ nodes'[m].key = nodes[m].key /\ nodes'[m].value = nodes[m].value
              /\ nodes'[m].left = IF m = n /\ k < nodes[n].key THEN count + 1
                                                              ELSE nodes[m].left
              /\ nodes'[m].right = IF m = n /\ ~(k < nodes[n].key)
                                   THEN count + 1 ELSE nodes[m].right
    <2>1. \A m \in 1..count :
              /\ Linked(n, k)[m].key = nodes[m].key
              /\ Linked(n, k)[m].value = nodes[m].value
              /\ Linked(n, k)[m].left = IF m = n /\ k < nodes[n].key THEN count + 1
                                                                    ELSE nodes[m].left
              /\ Linked(n, k)[m].right = IF m = n /\ ~(k < nodes[n].key)
                                         THEN count + 1 ELSE nodes[m].right
      BY <1>1, <1>2, LinkedKeeps
    <2> QED BY <1>4, <2>1
  <1>6. /\ nodes'[count + 1].key = k /\ nodes'[count + 1].value = v
        /\ nodes'[count + 1].left = 0 /\ nodes'[count + 1].right = 0
    <2>1. /\ Leaf(t, k, v).key = k /\ Leaf(t, k, v).value = v
          /\ Leaf(t, k, v).left = 0 /\ Leaf(t, k, v).right = 0
      BY LeafIs
    <2> QED BY <1>4, <2>1, Zenon
  <1>7. HasLeaf(nodes', nodes, count)
    BY <1>2, <1>5, <1>6, Zenon DEF HasLeaf, Child
  <1>10. IsHeap(nodes', count + 1)
    BY <1>1, NextAreHeaps, Zenon DEF IInv
  <1>11. Acyclic(nodes', count + 1)
    BY <1>1, <1>7, <1>10, LeafAcyclic, Zenon
  <1>12. WritesOwn(t)
    <2>1. \A m \in 1..count : Linked(n, k)[m] = nodes[m] \/ Owned(m, t)
      BY <1>1, <1>2, LinkedHeap, Zenon
    <2> QED BY <1>1, <1>4, <2>1, Zenon DEF WritesOwn
  <1>13. RefInv'
    <2>1. ASSUME NEW u \in Tree, at'[u] # nil PROVE OnPath(u)'
      <3>1. u \in Tree \ {t} /\ at[u] # nil
        BY <1>8, <1>9, <2>1
      <3>2. OnPath(u)
        BY <3>1 DEF RefInv
      <3> QED BY <3>1, <3>2, <1>1, <1>12, <1>8, OthersOnPath, Zenon
    <2> QED BY <2>1, <1>1, <1>11, Zenon DEF RefInv
  <1>14. ASSUME NEW u \in Tree \ {t}, NEW j \in Key PROVE Get(u, j)' = Get(u, j)
    BY <1>1, <1>10, <1>11, <1>12, OthersAnswer, Zenon
  <1>15. ASSUME NEW j \in Key, j # k PROVE Get(t, j)' = Get(t, j)
    <2>1. nodes'[count + 1].key # j
      BY <1>6, <1>15
    <2>2. \A m \in 0..count : Answer(nodes', count + 1, j)[m] = Answer(nodes, count, j)[m]
      BY <1>1, <1>7, <1>10, <2>1, LeafAnswers
    <2>3. /\ Get(t, j) = Answer(nodes, count, j)[root[t]]
          /\ Get(t, j)' = Answer(nodes', count', j)[root'[t]]
      BY GetAnswers, Zenon
    <2> QED BY <1>1, <2>2, <2>3
  <1>16. ASSUME NEW j \in Key, j = k PROVE Get(t, j)' = v
    <2> DEFINE x == Answer(nodes', count + 1, k)
    <2>1. \A m \in 0..(count + 1) : x[m] = Walks(x, nodes', m, k)
      BY <1>1, <1>10, <1>11, AnswerWalks
    <2> HIDE DEF x
    <2>2. AnswersOn(x, 1..count, nodes', k)
      BY <2>1, <1>1 DEF AnswersOn
    <2>3. Leads(root[t], n, nodes, count, k)
      BY <1>1, <1>p DEF OnPath
    <2>4. SameWays(nodes', nodes, (1..count) \ {n}, k)
      BY <1>5, Zenon DEF Way, SameWays
    <2>5. x[root[t]] = x[n]
      BY <1>1, <2>2, <2>3, <2>4, LeadsToAnswer
    <2>6. x[n] = x[count + 1]
      <3>1. n \in 0..(count + 1) /\ n # 0
        BY <1>1
      <3>2. Way(nodes', n, k) = count + 1 /\ nodes'[n].key # k
        BY <1>1, <1>2, <1>5, Zenon DEF Way
      <3> QED BY <2>1, <3>1, <3>2, Zenon DEF Walks
    <2>7. x[count + 1] = v
      <3>1. count + 1 \in 0..(count + 1) /\ count + 1 # 0
        BY <1>1
      <3> QED BY <1>6, <2>1, <3>1, Zenon DEF Walks
    <2>8. Get(t, j)' = Answer(nodes', count', j)[root'[t]]
      BY GetAnswers, Zenon
    <2> QED BY <1>1, <1>16, <2>5, <2>6, <2>7, <2>8, Zenon DEF x
  <1> QED BY <1>13, <1>14, <1>15, <1>16, <1>p DEF PutSeen

(* The first Upsert of a tree: its root is a leaf.                           *)
LEMMA UpsertEmptySeen ==
    ASSUME RefInv, IInv', NEW t \in Tree, NEW k \in Key, NEW v \in Value,
           UpsertEmpty(t, k, v)
    PROVE  RefInv' /\ PutSeen(t, k, v)
  <1>0. /\ Exists(t) /\ at[t] = 0 /\ root[t] = 0
        /\ nodes' = NewNode(nodes, Leaf(t, k, v)) /\ count' = count + 1
        /\ root' = [root EXCEPT ![t] = count + 1] /\ at' = at /\ arg' = arg
    BY DEF UpsertEmpty, Idle
  <1>1. /\ TypeOK /\ IInv /\ Acyclic(nodes, count) /\ count \in Nat
        /\ IsHeap(nodes, count) /\ root \in [Tree -> 0..count]
    BY TreesAreHeaps DEF RefInv, IInv, TypeOK
  <1>2. root'[t] = count + 1 /\ \A u \in Tree \ {t} : root'[u] = root[u]
    BY <1>0, <1>1
  <1>3. /\ nodes'[count + 1] = Leaf(t, k, v)
        /\ \A m \in 1..count : nodes'[m] = nodes[m]
    BY <1>0, <1>1, NewNodeIs, Zenon
  <1>4. /\ nodes'[count + 1].key = k /\ nodes'[count + 1].value = v
        /\ nodes'[count + 1].left = 0 /\ nodes'[count + 1].right = 0
    <2>1. /\ Leaf(t, k, v).key = k /\ Leaf(t, k, v).value = v
          /\ Leaf(t, k, v).left = 0 /\ Leaf(t, k, v).right = 0
      BY LeafIs
    <2> QED BY <1>3, <2>1, Zenon
  <1>5. HasLeaf(nodes', nodes, count)
    BY <1>3, <1>4, Zenon DEF HasLeaf
  <1>6. IsHeap(nodes', count + 1)
    BY <1>0, NextAreHeaps, Zenon DEF IInv
  <1>7. Acyclic(nodes', count + 1)
    BY <1>1, <1>5, <1>6, LeafAcyclic, Zenon
  <1>8. WritesOwn(t)
    BY <1>0, <1>3, Zenon DEF WritesOwn
  <1>9. RefInv'
    <2>1. ASSUME NEW u \in Tree, at'[u] # nil PROVE OnPath(u)'
      <3>1. u \in Tree \ {t} /\ OnPath(u)
        BY <1>0, <2>1 DEF RefInv
      <3> QED BY <3>1, <1>0, <1>1, <1>2, <1>8, OthersOnPath, Zenon
    <2> QED BY <2>1, <1>0, <1>7, Zenon DEF RefInv
  <1>10. ASSUME NEW u \in Tree \ {t}, NEW j \in Key PROVE Get(u, j)' = Get(u, j)
    BY <1>0, <1>1, <1>2, <1>6, <1>7, <1>8, OthersAnswer, Zenon
  <1>11. ASSUME NEW j \in Key PROVE Get(t, j)' = IF j = k THEN v ELSE Get(t, j)
    <2>1. /\ Get(t, j) = Answer(nodes, count, j)[0]
          /\ Get(t, j)' = Answer(nodes', count + 1, j)[count + 1]
      <3>1. /\ Get(t, j) = Answer(nodes, count, j)[root[t]]
            /\ Get(t, j)' = Answer(nodes', count', j)[root'[t]]
        BY GetAnswers, Zenon
      <3> QED BY <1>0, <1>2, <3>1
    <2>2. Get(t, j) = 0
      <3>1. Answer(nodes, count, j)[0] = Walks(Answer(nodes, count, j), nodes, 0, j)
        BY <1>1, AnswerWalks
      <3> QED BY <2>1, <3>1, Zenon DEF Walks
    <2> DEFINE x == Answer(nodes', count + 1, j)
    <2>3. \A n \in 0..(count + 1) : x[n] = Walks(x, nodes', n, j)
      BY <1>1, <1>6, <1>7, AnswerWalks
    <2> HIDE DEF x
    <2>4. x[count + 1] = Walks(x, nodes', count + 1, j) /\ count + 1 # 0
      BY <1>1, <2>3
    <2>5. x[0] = 0
      BY <1>1, <2>3 DEF Walks
    <2>6. x[count + 1] = IF j = k THEN v ELSE 0
      BY <2>4, <2>5, <1>4, Zenon DEF Walks, Way
    <2> QED BY <2>1, <2>2, <2>6 DEF x
  <1> QED BY <1>9, <1>10, <1>11 DEF PutSeen

(* A step that leaves the heap and the roots alone, and one that copies a node, *)
(* show nothing.                                                             *)
LEMMA SameHeapSeen ==
    ASSUME nodes' = nodes, count' = count, root' = root
    PROVE  NothingSeen
  <1> SUFFICES ASSUME NEW u \in Tree, NEW j \in Key PROVE Get(u, j)' = Get(u, j)
    BY DEF NothingSeen
  <1>1. /\ Get(u, j) = Answer(nodes, count, j)[root[u]]
        /\ Get(u, j)' = Answer(nodes', count', j)[root'[u]]
    BY GetAnswers, Zenon
  <1> QED BY <1>1, Zenon

(* A copy in the place of its original shows nothing.                        *)
LEMMA CopySeen ==
    ASSUME TypeOK, Acyclic(nodes, count), count' = count + 1,
           IsHeap(nodes', count + 1), NEW s \in 1..count,
           HasCopy(nodes', nodes, count, s),
           \A u \in Tree : root'[u] = root[u] \/ (root[u] = s /\ root'[u] = count + 1)
    PROVE  NothingSeen
  <1> SUFFICES ASSUME NEW u \in Tree, NEW j \in Key PROVE Get(u, j)' = Get(u, j)
    BY DEF NothingSeen
  <1>1. /\ Get(u, j) = Answer(nodes, count, j)[root[u]]
        /\ Get(u, j)' = Answer(nodes', count', j)[root'[u]]
    BY GetAnswers, Zenon
  <1>2. count \in Nat /\ IsHeap(nodes, count) /\ root[u] \in 0..count
    BY TreesAreHeaps DEF TypeOK
  <1>3. /\ Answer(nodes', count + 1, j)[count + 1] = Answer(nodes, count, j)[s]
        /\ \A n \in 0..count : Answer(nodes', count + 1, j)[n] = Answer(nodes, count, j)[n]
    BY <1>2, CopyAnswers
  <1>4. Answer(nodes', count + 1, j)[root'[u]] = Answer(nodes, count, j)[root[u]]
    BY <1>2, <1>3, Zenon
  <1> QED BY <1>1, <1>4, Zenon

(* The writer of t starts at the root, or at a copy of it.                   *)
LEMMA UpsertRootSeen ==
    ASSUME RefInv, IInv', NEW t \in Tree, NEW k \in Key, NEW v \in Value,
           UpsertRoot(t, k, v)
    PROVE  RefInv' /\ NothingSeen
  <1> DEFINE s == root[t]
  <1>0. /\ Exists(t) /\ at[t] = 0 /\ s # 0
        /\ root' = [root EXCEPT ![t] = MutableFor(s, t)]
        /\ at' = [at EXCEPT ![t] = MutableFor(s, t)]
        /\ arg' = [arg EXCEPT ![t] = [key |-> k, value |-> v]]
    BY Zenon DEF UpsertRoot, Idle, nil
  <1>1. /\ TypeOK /\ IInv /\ Acyclic(nodes, count) /\ count \in Nat
        /\ IsHeap(nodes, count) /\ root \in [Tree -> 0..count] /\ at \in [Tree -> 0..count]
        /\ arg \in [Tree -> Argument \cup {NoArgument}] /\ s \in 1..count
    <2>1. TypeOK /\ IInv /\ Acyclic(nodes, count)
      BY Zenon DEF RefInv, IInv
    <2>2. /\ count \in Nat /\ root \in [Tree -> 0..count] /\ at \in [Tree -> 0..count]
          /\ arg \in [Tree -> Argument \cup {NoArgument}]
      BY <2>1, Zenon DEF TypeOK
    <2>3. s \in 1..count
      BY <1>0, <2>2
    <2> QED BY <2>1, <2>2, <2>3, TreesAreHeaps
  <1>s. s = root[t]
    OBVIOUS
  <1> HIDE DEF s
  <1>2. /\ root'[t] = MutableFor(s, t) /\ at'[t] = MutableFor(s, t)
        /\ \A u \in Tree \ {t} : root'[u] = root[u] /\ at'[u] = at[u] /\ arg'[u] = arg[u]
    BY <1>0, <1>1
  <1>3. OnPath(t)'
    BY <1>2, Zenon DEF OnPath, Leads
  <1>4. ASSUME WritesOwn(t), Acyclic(nodes', count') PROVE RefInv'
    <2>1. ASSUME NEW u \in Tree \ {t}, at'[u] # nil PROVE OnPath(u)'
      <3>1. OnPath(u)
        BY <1>2, <2>1 DEF RefInv
      <3> QED BY <3>1, <1>1, <1>2, <1>4, OthersOnPath, Zenon
    <2> QED BY <2>1, <1>3, <1>4, Zenon DEF RefInv
  <1>5. CASE Owned(s, t) /\ UNCHANGED <<nodes, count>>
    <2>1. MutableFor(s, t) = s
      BY <1>5, Zenon DEF MutableFor
    <2>2. root' = root
      BY <1>0, <1>1, <1>s, <2>1
    <2>3. WritesOwn(t)
      BY <1>0, <1>5, Zenon DEF WritesOwn
    <2>4. Acyclic(nodes', count')
      BY <1>1, <1>5, Zenon
    <2> QED BY <1>4, <1>5, <2>2, <2>3, <2>4, SameHeapSeen, Zenon
  <1>6. CASE /\ ~Owned(s, t) /\ nodes' = NewNode(nodes, Copied(s, t)) /\ count' = count + 1
    <2>1. MutableFor(s, t) = count + 1
      BY <1>6, Zenon DEF MutableFor
    <2>2. /\ nodes'[count + 1] = Copied(s, t)
          /\ \A m \in 1..count : nodes'[m] = nodes[m]
      BY <1>1, <1>6, NewNodeIs, Zenon
    <2>3. HasCopy(nodes', nodes, count, s)
      <3>1. /\ Copied(s, t).key = nodes[s].key /\ Copied(s, t).value = nodes[s].value
            /\ Copied(s, t).left = nodes[s].left /\ Copied(s, t).right = nodes[s].right
        BY <1>0, <1>1, CopiedIs
      <3> QED BY <2>2, <3>1, Zenon DEF HasCopy
    <2>4. IsHeap(nodes', count + 1)
      BY <1>6, NextAreHeaps, Zenon DEF IInv
    <2>5. Acyclic(nodes', count')
      BY <1>1, <1>6, <2>3, <2>4, CopyAcyclic, Zenon
    <2>6. WritesOwn(t)
      BY <1>0, <1>6, <2>2, Zenon DEF WritesOwn
    <2>7. NothingSeen
      <3>1. \A u \in Tree : root'[u] = root[u] \/ (root[u] = s /\ root'[u] = count + 1)
        BY <1>2, <1>s, <2>1, Zenon
      <3> QED BY <1>1, <1>6, <2>3, <2>4, <3>1, CopySeen, Zenon
    <2> QED BY <1>4, <2>5, <2>6, <2>7
  <1>7. \/ Owned(s, t) /\ UNCHANGED <<nodes, count>>
        \/ ~Owned(s, t) /\ nodes' = NewNode(nodes, Copied(s, t)) /\ count' = count + 1
    BY Zenon DEF UpsertRoot, s
  <1> QED BY <1>5, <1>6, <1>7, Zenon

(* The node the walk goes on to is on the walk as well.                      *)
LEMMA LeadsOn ==
    ASSUME NEW c, NEW f, NEW r, NEW n, n # 0, NEW k, f[n].key # k,
           Leads(r, n, f, c, k)
    PROVE  Leads(r, Way(f, n, k), f, c, k)
  BY Zenon DEF Leads, Closed

(* ... and so is a copy of it that replaces it.                              *)
LEMMA LeadsToCopy ==
    ASSUME NEW c \in Nat, NEW f, IsHeap(f, c), NEW n \in 1..c, NEW k, f[n].key # k,
           NEW r \in 0..c, Leads(r, n, f, c, k),
           NEW g, SameWays(g, f, (1..c) \ {n}, k),
           g[n].key = f[n].key, Way(g, n, k) = c + 1
    PROVE  Leads(r, c + 1, g, c + 1, k)
  <1> SUFFICES ASSUME NEW S \in SUBSET (0..(c + 1)), r \in S, Closed(S, g, k),
                      c + 1 \notin S
               PROVE  FALSE
    BY Zenon DEF Leads
  <1>1. n \notin S
    <2>1. n # 0
      OBVIOUS
    <2> QED BY <2>1, Zenon DEF Closed
  <1>2. S \in SUBSET (0..c)
    OBVIOUS
  <1>3. ASSUME NEW m \in S, m # 0, f[m].key # k PROVE Way(f, m, k) \in S
    <2>1. m \in (1..c) \ {n}
      BY <1>1, <1>2, <1>3
    <2>2. g[m].key = f[m].key /\ Way(g, m, k) = Way(f, m, k)
      BY <2>1, Zenon DEF SameWays
    <2> QED BY <1>3, <2>2, Zenon DEF Closed
  <1>4. n \in S
    BY <1>2, <1>3, Zenon DEF Leads, Closed
  <1> QED BY <1>1, <1>4

(* The writer of t goes on to the child of its node, or to a copy of it.     *)
LEMMA DescendSeen ==
    ASSUME RefInv, IInv', NEW t \in Tree, Descend(t)
    PROVE  RefInv' /\ NothingSeen
  <1> DEFINE n == at[t]
             k == arg[t].key
             s == Child(n, k)
  <1>0. /\ n # 0 /\ nodes[n].key # k /\ s # 0
        /\ at' = [at EXCEPT ![t] = MutableFor(s, t)]
        /\ root' = root /\ cow' = cow /\ arg' = arg
        /\ \/ Owned(s, t) /\ UNCHANGED <<nodes, count>>
           \/ /\ ~Owned(s, t) /\ nodes' = NewNode(Linked(n, k), Copied(s, t))
              /\ count' = count + 1
    BY Zenon DEF Descend, Linked, nil
  <1>p. n = at[t] /\ k = arg[t].key /\ s = Way(nodes, n, k)
    BY Zenon DEF Child, Way
  <1>1. /\ TypeOK /\ IInv /\ Acyclic(nodes, count) /\ OnPath(t) /\ Exists(t)
        /\ Owned(n, t) /\ k \in Key
    <2>1. TypeOK /\ IInv /\ Acyclic(nodes, count) /\ OnPath(t)
      BY <1>0, Zenon DEF RefInv, IInv, nil
    <2>2. Exists(t) /\ Owned(n, t)
      BY <1>0, <2>1, Zenon DEF IInv, Ownership, WriterOwns, nil
    <2>3. arg[t] \in Argument
      BY <1>0, <2>1, Zenon DEF TypeOK, nil
    <2>4. k \in Key
      BY <2>3 DEF Argument
    <2> QED BY <2>1, <2>2, <2>4
  <1> HIDE DEF n, k, s
  <1>2. /\ count \in Nat /\ IsHeap(nodes, count) /\ root \in [Tree -> 0..count]
        /\ at \in [Tree -> 0..count] /\ n \in 1..count
    BY <1>0, <1>1, <1>p, TreesAreHeaps DEF TypeOK
  <1>3. s \in 1..count
    BY <1>0, <1>2, <1>p, WayIsPointer
  <1>4. at'[t] = MutableFor(s, t) /\ \A u \in Tree \ {t} : at'[u] = at[u]
    BY <1>0, <1>2
  <1>5. ASSUME WritesOwn(t), Acyclic(nodes', count'), OnPath(t)' PROVE RefInv'
    <2>1. ASSUME NEW u \in Tree \ {t}, at'[u] # nil PROVE OnPath(u)'
      <3>1. OnPath(u)
        BY <1>4, <2>1 DEF RefInv
      <3> QED BY <3>1, <1>0, <1>1, <1>4, <1>5, OthersOnPath, Zenon
    <2> QED BY <2>1, <1>5, Zenon DEF RefInv
  <1>6. Leads(root[t], n, nodes, count, k)
    BY <1>1, <1>p, Zenon DEF OnPath
  <1>7. CASE Owned(s, t) /\ UNCHANGED <<nodes, count>>
    <2>1. at'[t] = s
      BY <1>4, <1>7, Zenon DEF MutableFor
    <2>2. WritesOwn(t)
      BY <1>1, <1>7, Zenon DEF WritesOwn
    <2>3. Leads(root[t], s, nodes, count, k)
      BY <1>0, <1>6, <1>p, LeadsOn
    <2>4. OnPath(t)'
      BY <1>0, <1>7, <1>p, <2>1, <2>3, Zenon DEF OnPath
    <2>5. Acyclic(nodes', count')
      BY <1>1, <1>7, Zenon
    <2> QED BY <1>0, <1>5, <1>7, <2>2, <2>4, <2>5, SameHeapSeen, Zenon
  <1>8. CASE /\ ~Owned(s, t) /\ nodes' = NewNode(Linked(n, k), Copied(s, t))
             /\ count' = count + 1
    <2>1. at'[t] = count + 1
      BY <1>4, <1>8, Zenon DEF MutableFor
    <2>2. /\ nodes'[count + 1] = Copied(s, t)
          /\ \A m \in 1..count : nodes'[m] = Linked(n, k)[m]
      BY <1>2, <1>8, NewNodeIs, Zenon
    <2>3. \A m \in 1..count :
              /\ nodes'[m].key = nodes[m].key /\ nodes'[m].value = nodes[m].value
              /\ nodes'[m].left = IF m = n /\ k < nodes[n].key THEN count + 1
                                                              ELSE nodes[m].left
              /\ nodes'[m].right = IF m = n /\ ~(k < nodes[n].key)
                                   THEN count + 1 ELSE nodes[m].right
      <3>1. \A m \in 1..count :
              /\ Linked(n, k)[m].key = nodes[m].key
              /\ Linked(n, k)[m].value = nodes[m].value
              /\ Linked(n, k)[m].left = IF m = n /\ k < nodes[n].key THEN count + 1
                                                                    ELSE nodes[m].left
              /\ Linked(n, k)[m].right = IF m = n /\ ~(k < nodes[n].key)
                                         THEN count + 1 ELSE nodes[m].right
        BY <1>1, <1>2, LinkedKeeps
      <3> QED BY <2>2, <3>1
    <2>4. HasCopy(nodes', nodes, count, s)
      <3>1. /\ Copied(s, t).key = nodes[s].key /\ Copied(s, t).value = nodes[s].value
            /\ Copied(s, t).left = nodes[s].left /\ Copied(s, t).right = nodes[s].right
        BY <1>1, <1>3, CopiedIs
      <3>2. /\ nodes'[count + 1].key = nodes[s].key
            /\ nodes'[count + 1].value = nodes[s].value
            /\ nodes'[count + 1].left = nodes[s].left
            /\ nodes'[count + 1].right = nodes[s].right
        BY <2>2, <3>1, Zenon
      <3>3. s = IF k < nodes[n].key THEN nodes[n].left ELSE nodes[n].right
        BY <1>p, Zenon DEF Way
      <3> QED BY <2>3, <3>2, <3>3, Zenon DEF HasCopy
    <2>5. IsHeap(nodes', count + 1)
      BY <1>8, NextAreHeaps, Zenon DEF IInv
    <2>6. Acyclic(nodes', count')
      BY <1>1, <1>2, <1>3, <1>8, <2>4, <2>5, CopyAcyclic, Zenon
    <2>7. WritesOwn(t)
      <3>1. \A m \in 1..count : Linked(n, k)[m] = nodes[m] \/ Owned(m, t)
        BY <1>1, <1>2, LinkedHeap, Zenon
      <3> QED BY <1>1, <1>8, <2>2, <3>1, Zenon DEF WritesOwn
    <2>8. OnPath(t)'
      <3>1. SameWays(nodes', nodes, (1..count) \ {n}, k)
        BY <2>3, Zenon DEF Way, SameWays
      <3>2. nodes'[n].key = nodes[n].key /\ Way(nodes', n, k) = count + 1
        BY <1>2, <2>3, Zenon DEF Way
      <3>3. root[t] \in 0..count
        BY <1>2
      <3>4. Leads(root[t], count + 1, nodes', count + 1, k)
        BY <1>0, <1>2, <1>6, <3>1, <3>2, <3>3, LeadsToCopy
      <3> QED BY <1>0, <1>8, <1>p, <2>1, <3>4, Zenon DEF OnPath
    <2>9. NothingSeen
      BY <1>0, <1>1, <1>3, <1>8, <2>4, <2>5, CopySeen, Zenon
    <2> QED BY <1>5, <2>6, <2>7, <2>8, <2>9
  <1>9. \/ Owned(s, t) /\ UNCHANGED <<nodes, count>>
        \/ /\ ~Owned(s, t) /\ nodes' = NewNode(Linked(n, k), Copied(s, t))
           /\ count' = count + 1
    BY <1>0, Zenon
  <1> QED BY <1>7, <1>8, <1>9, Zenon

-------------------------------------------------------------------------------
(* The maps *)

Made == {t \in Tree : Exists(t)}
Contents == [t \in Tree |-> [k \in Key |-> Get(t, k)]]

(* A step that shows nothing changes no map, and one that stores a value one.*)
LEMMA NothingSeenStutters ==
    ASSUME NothingSeen, cow' = cow
    PROVE  Made' = Made /\ Contents' = Contents
  <1>1. Made' = Made
    BY Zenon DEF Made, Exists
  <1>2. \A t \in Tree, k \in Key : Get(t, k)' = Get(t, k)
    BY Zenon DEF NothingSeen
  <1>3. Contents' = [t \in Tree |-> [k \in Key |-> Get(t, k)']]
    BY Zenon DEF Contents
  <1>4. Contents' = Contents
    BY <1>2, <1>3, Zenon DEF Contents
  <1> QED BY <1>1, <1>4

(* A step that stores one value is a Put.                                    *)
LEMMA PutSeenPuts ==
    ASSUME NEW t \in Tree, NEW k \in Key, NEW v, Exists(t), PutSeen(t, k, v), cow' = cow
    PROVE  /\ Made' = Made /\ t \in Made
           /\ Contents' = [Contents EXCEPT ![t][k] = v]
  <1>1. Made' = Made /\ t \in Made
    BY Zenon DEF Made, Exists
  <1>2. \A u \in Tree, j \in Key :
            Get(u, j)' = IF u = t /\ j = k THEN v ELSE Get(u, j)
    BY Zenon DEF PutSeen
  <1>3. Contents' = [u \in Tree |-> [j \in Key |-> Get(u, j)']]
    BY Zenon DEF Contents
  <1> DEFINE G == [u \in Tree |-> [j \in Key |-> IF u = t /\ j = k THEN v ELSE Get(u, j)]]
  <1>4. Contents' = G
    BY <1>2, <1>3, Zenon
  <1>5. G = [Contents EXCEPT ![t][k] = v]
    BY DEF Contents
  <1> QED BY <1>1, <1>4, <1>5, Zenon

(* A new tree is empty, and a clone answers what its origin does.            *)
LEMMA ContextSeen ==
    ASSUME RefInv, IInv', NEW t \in Tree
    PROVE  /\ NewTree(t) => /\ RefInv' /\ t \notin Made /\ Made' = Made \cup {t}
                            /\ Contents' = Contents
           /\ \A u \in Tree : Clone(t, u) =>
                 /\ RefInv' /\ t \in Made /\ u \notin Made /\ Made' = Made \cup {u}
                 /\ Contents' = [Contents EXCEPT ![u] = Contents[t]]
  <1>1. /\ TypeOK /\ IInv /\ Acyclic(nodes, count)
        /\ cow \in [Tree -> 0..cows] /\ cows \in Nat /\ root \in [Tree -> 0..count]
        /\ \A u \in Tree : at[u] # nil => Exists(u) /\ OnPath(u)
    BY DEF RefInv, IInv, TypeOK, Ownership, WriterOwns
  <1>2. ASSUME NewTree(t)
        PROVE  /\ RefInv' /\ t \notin Made /\ Made' = Made \cup {t}
               /\ Contents' = Contents
    <2>1. /\ ~Exists(t) /\ cow' = [cow EXCEPT ![t] = cows + 1]
          /\ nodes' = nodes /\ count' = count /\ root' = root /\ at' = at /\ arg' = arg
      BY <1>2, Zenon DEF NewTree
    <2>2. \A u \in Tree : OnPath(u) => OnPath(u)'
      BY <2>1, Zenon DEF OnPath
    <2>3. RefInv'
      BY <1>1, <2>1, <2>2, Zenon DEF RefInv
    <2>4. t \notin Made /\ Made' = Made \cup {t}
      BY <1>1, <2>1 DEF Made, Exists
    <2>5. \A u \in Tree, k \in Key : Get(u, k)' = Get(u, k)
      BY <2>1, SameHeapSeen, Zenon DEF NothingSeen
    <2>6. Contents' = [u \in Tree |-> [k \in Key |-> Get(u, k)']]
      BY Zenon DEF Contents
    <2>7. Contents' = Contents
      BY <2>5, <2>6, Zenon DEF Contents
    <2> QED BY <2>3, <2>4, <2>7
  <1>3. ASSUME NEW u \in Tree, Clone(t, u)
        PROVE  /\ RefInv' /\ t \in Made /\ u \notin Made /\ Made' = Made \cup {u}
               /\ Contents' = [Contents EXCEPT ![u] = Contents[t]]
    <2>1. /\ Exists(t) /\ at[t] = nil /\ ~Exists(u)
          /\ cow' = [cow EXCEPT ![t] = cows + 1, ![u] = cows + 2]
          /\ root' = [root EXCEPT ![u] = root[t]]
          /\ nodes' = nodes /\ count' = count /\ at' = at /\ arg' = arg
      BY <1>3, Zenon DEF Clone, Idle
    <2>2. /\ root'[u] = root[t] /\ \A w \in Tree \ {u} : root'[w] = root[w]
          /\ at[u] = nil /\ t # u
      BY <1>1, <2>1
    <2>3. ASSUME NEW w \in Tree, at'[w] # nil PROVE OnPath(w)'
      <3>1. root'[w] = root[w] /\ OnPath(w)
        BY <1>1, <2>1, <2>2, <2>3
      <3> QED BY <2>1, <3>1, Zenon DEF OnPath
    <2>4. RefInv'
      BY <1>1, <2>1, <2>3, Zenon DEF RefInv
    <2>5. t \in Made /\ u \notin Made /\ Made' = Made \cup {u}
      BY <1>1, <2>1 DEF Made, Exists
    <2>6. \A w \in Tree, k \in Key : Get(w, k)' = IF w = u THEN Get(t, k) ELSE Get(w, k)
      <3> SUFFICES ASSUME NEW w \in Tree, NEW k \in Key
                   PROVE  Get(w, k)' = IF w = u THEN Get(t, k) ELSE Get(w, k)
        OBVIOUS
      <3>1. /\ Get(w, k) = Answer(nodes, count, k)[root[w]]
            /\ Get(w, k)' = Answer(nodes', count', k)[root'[w]]
            /\ Get(t, k) = Answer(nodes, count, k)[root[t]]
        BY GetAnswers, Zenon
      <3>2. Get(w, k)' = Answer(nodes, count, k)[root'[w]]
        BY <2>1, <3>1, Zenon
      <3> QED BY <2>2, <3>1, <3>2
    <2>7. Contents' = [w \in Tree |-> [k \in Key |-> Get(w, k)']]
      BY Zenon DEF Contents
    <2> DEFINE G == [w \in Tree |-> [k \in Key |-> IF w = u THEN Get(t, k) ELSE Get(w, k)]]
    <2>8. Contents' = G
      BY <2>6, <2>7, Zenon
    <2>9. G = [Contents EXCEPT ![u] = Contents[t]]
      BY DEF Contents
    <2> QED BY <2>4, <2>5, <2>8, <2>9, Zenon
  <1> QED BY <1>2, <1>3

(* No tree, no answer.                                                       *)
LEMMA InitRefInv == Init => RefInv /\ Copies!Init
  <1> SUFFICES ASSUME Init PROVE RefInv /\ Copies!Init
    OBVIOUS
  <1>1. IInv
    BY InitIInv
  <1>2. /\ count = 0 /\ root = [t \in Tree |-> 0] /\ cow = [t \in Tree |-> 0]
        /\ at = [t \in Tree |-> 0]
    BY Zenon DEF Init, nil
  <1>3. Acyclic(nodes, count)
    <2> DEFINE rank == [n \in 1..0 |-> 0]
    <2>1. rank \in [1..0 -> 0..0] /\ Ranks(rank, 0, nodes, 0)
      BY DEF Ranks
    <2> HIDE DEF rank
    <2>2. 0 \in Nat
      OBVIOUS
    <2> QED BY <1>2, <2>1, <2>2, Zenon DEF Acyclic
  <1>4. RefInv
    BY <1>1, <1>2, <1>3 DEF RefInv
  <1>5. ASSUME NEW t \in Tree, NEW k \in Key PROVE Get(t, k) = 0
    <2>1. IsHeap(nodes, count) /\ count \in Nat
      BY <1>1, TreesAreHeaps, Zenon DEF IInv
    <2>2. Answer(nodes, count, k)[0] = Walks(Answer(nodes, count, k), nodes, 0, k)
      BY <1>3, <2>1, AnswerWalks
    <2>3. Get(t, k) = Answer(nodes, count, k)[root[t]]
      BY GetAnswers, Zenon
    <2>4. Answer(nodes, count, k)[0] = 0
      BY <2>2, Zenon DEF Walks
    <2> QED BY <1>2, <2>3, <2>4, Zenon
  <1>6. {t \in Tree : Exists(t)} = {}
    BY <1>2 DEF Exists
  <1>7. [t \in Tree |-> [k \in Key |-> Get(t, k)]] = [t \in Tree |-> [k \in Key |-> nil]]
    BY <1>5, Zenon DEF nil
  <1> QED BY <1>4, <1>6, <1>7, Zenon DEF Copies!Init, Copies!Empty

(* Every step keeps the heap in order, and does to the maps what it may do.  *)
LEMMA NextRefInv ==
    ASSUME RefInv, [Next]_vars
    PROVE  RefInv' /\ [Copies!Next]_<<Made, Contents>>
  <1>0. IInv'
    BY NextIInv DEF RefInv
  <1>1. ASSUME NEW t \in Tree, NewTree(t)
        PROVE  RefInv' /\ Copies!Next
    <2>1. /\ RefInv' /\ t \notin Made /\ Made' = Made \cup {t}
          /\ Contents' = Contents
      BY <1>0, <1>1, ContextSeen, Zenon
    <2>2. Copies!Create(t)
      BY <2>1, Zenon DEF Copies!Create, Made, Contents
    <2> QED BY <2>1, <2>2, Zenon DEF Copies!Next
  <1>2. ASSUME NEW t \in Tree, NEW u \in Tree, Clone(t, u)
        PROVE  RefInv' /\ Copies!Next
    <2>1. /\ RefInv' /\ t \in Made /\ u \notin Made /\ Made' = Made \cup {u}
          /\ Contents' = [Contents EXCEPT ![u] = Contents[t]]
      BY <1>0, <1>2, ContextSeen, Zenon
    <2>2. Copies!Copy(t, u)
      BY <2>1, Zenon DEF Copies!Copy, Made, Contents
    <2> QED BY <2>1, <2>2, Zenon DEF Copies!Next
  <1>3. ASSUME NEW t \in Tree, NEW k \in Key, NEW v \in Value, RefInv', Exists(t),
               cow' = cow, PutSeen(t, k, v)
        PROVE  RefInv' /\ Copies!Next
    <2>1. /\ Made' = Made /\ t \in Made
          /\ Contents' = [Contents EXCEPT ![t][k] = v]
      BY <1>3, PutSeenPuts, Zenon
    <2>2. Copies!Put(t, k, v)
      BY <2>1, Zenon DEF Copies!Put, Made, Contents
    <2> QED BY <1>3, <2>2, Zenon DEF Copies!Next
  <1>4. ASSUME RefInv', NothingSeen, cow' = cow
        PROVE  RefInv' /\ UNCHANGED <<Made, Contents>>
    BY <1>4, NothingSeenStutters, Zenon
  <1>5. ASSUME NEW t \in Tree, UpsertLeaf(t) \/ UpsertValue(t)
        PROVE  RefInv' /\ Copies!Next
    <2>1. at[t] # nil /\ cow' = cow
      BY <1>5, Zenon DEF UpsertLeaf, UpsertValue
    <2>2. Exists(t) /\ arg[t] \in Argument
      BY <2>1, Zenon DEF RefInv, IInv, TypeOK, Ownership, WriterOwns
    <2>3. arg[t].key \in Key /\ arg[t].value \in Value
      BY <2>2 DEF Argument
    <2>4. RefInv' /\ PutSeen(t, arg[t].key, arg[t].value)
      BY <1>0, <1>5, UpsertLeafSeen, UpsertValueSeen, Zenon
    <2> QED BY <1>3, <2>1, <2>2, <2>3, <2>4, Zenon
  <1>6. ASSUME NEW t \in Tree, NEW k \in Key, NEW v \in Value, UpsertEmpty(t, k, v)
        PROVE  RefInv' /\ Copies!Next
    <2>1. Exists(t) /\ cow' = cow
      BY <1>6, Zenon DEF UpsertEmpty, Idle
    <2> QED BY <1>0, <1>3, <1>6, <2>1, UpsertEmptySeen, Zenon
  <1>7. ASSUME NEW t \in Tree, NEW k \in Key, NEW v \in Value, UpsertRoot(t, k, v)
        PROVE  RefInv' /\ UNCHANGED <<Made, Contents>>
    <2>1. cow' = cow
      BY <1>7, Zenon DEF UpsertRoot
    <2> QED BY <1>0, <1>4, <1>7, <2>1, UpsertRootSeen, Zenon
  <1>8. ASSUME NEW t \in Tree, Descend(t)
        PROVE  RefInv' /\ UNCHANGED <<Made, Contents>>
    <2>1. cow' = cow
      BY <1>8, Zenon DEF Descend
    <2> QED BY <1>0, <1>4, <1>8, <2>1, DescendSeen, Zenon
  <1>9. CASE UNCHANGED vars
    <2>1. /\ nodes' = nodes /\ count' = count /\ root' = root /\ cow' = cow
          /\ at' = at /\ arg' = arg
      BY <1>9, Zenon DEF vars
    <2>2. RefInv'
      BY <1>0, <2>1, Zenon DEF RefInv, OnPath
    <2> QED BY <1>4, <2>1, <2>2, SameHeapSeen, Zenon
  <1>10. ASSUME NEW t \in Tree, Write(t)
         PROVE  RefInv' /\ (Copies!Next \/ UNCHANGED <<Made, Contents>>)
    BY <1>5, <1>8, <1>10, Zenon DEF Write
  <1> QED BY <1>1, <1>2, <1>6, <1>7, <1>9, <1>10, Zenon DEF Next

(* The trees are maps of their own, for any number of trees, keys, nodes and  *)
(* contexts: Clone copies a map, and an Upsert takes effect at once, on one    *)
(* tree, at its last step, whatever the other writers have copied or shared.   *)
THEOREM TreesAreIndependent == Spec => IndependentMaps
  <1>1. Init => RefInv /\ Copies!Init
    BY InitRefInv
  <1>2. RefInv /\ [Next]_vars => RefInv' /\ [Copies!Next]_<<Made, Contents>>
    BY NextRefInv
  <1>3. RefInv /\ [Next]_vars =>
           [Copies!Next]_<<{t \in Tree : Exists(t)},
                          [t \in Tree |-> [k \in Key |-> Get(t, k)]]>>
    BY <1>2, Zenon DEF Made, Contents
  <1> QED BY <1>1, <1>2, <1>3, PTL DEF Spec, IndependentMaps, Copies!Spec
================================================================================
