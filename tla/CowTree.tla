-------------------------------- MODULE CowTree --------------------------------
(***************************************************************************)
(* The copy-on-write search tree of src/cow.  Trees made by Clone share     *)
(* nodes; a tree writes in place only the nodes that carry its own           *)
(* copyOnWriteContext and copies the others on its way down.                 *)
(*                                                                         *)
(* An Upsert is a walk of several steps.  A tree has one writer, as in       *)
(* google/btree, which the code follows; the writers of different trees      *)
(* interleave.  Pointers are natural numbers, nil is 0.                      *)
(***************************************************************************)
EXTENDS Integers

CONSTANTS Tree, Key, Value,
          Input,     \* the keys and values Upsert is called with
          MaxNodes,  \* bound on allocated nodes
          MaxCows,   \* bound on allocated contexts
          MaxNew     \* NewTree is called only below so many contexts (main: once)

ASSUME CowAssumption == /\ Key \subseteq Int
                        /\ Input \subseteq [key : Key, value : Value]
                        /\ MaxNodes \in Nat /\ MaxCows \in Nat /\ MaxNew \in 0..MaxCows

VARIABLES nodes,   \* the heap: nodes[n] for every allocated n
          count,   \* number of allocated nodes
          cows,    \* number of allocated contexts
          root,    \* root[t], 0 for an empty tree
          cow,     \* cow[t], 0 for a tree that does not exist
          at,      \* the node upsertNode of t is at, 0 when t is not written
          arg      \* arg[t]: key and value of the running Upsert

vars == <<nodes, count, cows, root, cow, at, arg>>

nil == 0
Node == [key : Key, value : Value, left : Nat, right : Nat, cow : Nat]
Argument == [key : Key, value : Value]
NoArgument == [none |-> nil]

Exists(t) == cow[t] # nil
Idle(t) == Exists(t) /\ at[t] = nil

TypeOK == /\ count \in Nat
          /\ nodes \in [1..count -> Node]
          /\ cows \in Nat
          /\ root \in [Tree -> 0..count]
          /\ cow \in [Tree -> 0..cows]
          /\ at \in [Tree -> 0..count]
          /\ arg \in [Tree -> Argument \cup {NoArgument}]
          /\ \A t \in Tree : at[t] # nil => arg[t] \in Argument
          /\ \A n \in 1..count : nodes[n].left \in 0..count /\ nodes[n].right \in 0..count
                                 /\ nodes[n].cow \in 1..cows

Init == /\ count = 0 /\ nodes = [n \in 1..0 |-> 0]
        /\ cows = 0
        /\ root = [t \in Tree |-> nil]
        /\ cow = [t \in Tree |-> nil]
        /\ at = [t \in Tree |-> nil]
        /\ arg = [t \in Tree |-> NoArgument]

(* Mutant: the context of a new tree is handed out again. *)
NewTreeSharing(t) == /\ ~Exists(t)
                     /\ cows < MaxNew
                     /\ cow' = [cow EXCEPT ![t] = cows + 1]
                     /\ UNCHANGED <<nodes, count, cows, root, at, arg>>

NewTree(t) == /\ ~Exists(t)
              /\ cows < MaxNew
              /\ cows' = cows + 1
              /\ cow' = [cow EXCEPT ![t] = cows + 1]
              /\ UNCHANGED <<nodes, count, root, at, arg>>

(* Mutant: only the clone gets a new context. *)
CloneKeepsContext(t, u) ==
    /\ Idle(t) /\ ~Exists(u)
    /\ cows + 2 <= MaxCows
    /\ cows' = cows + 2
    /\ cow' = [cow EXCEPT ![u] = cows + 2]
    /\ root' = [root EXCEPT ![u] = root[t]]
    /\ UNCHANGED <<nodes, count, at, arg>>

(* Both trees get a new context, so that neither owns the shared nodes.      *)
Clone(t, u) == /\ Idle(t) /\ ~Exists(u)
               /\ cows + 2 <= MaxCows
               /\ cows' = cows + 2
               /\ cow' = [cow EXCEPT ![t] = cows + 1, ![u] = cows + 2]
               /\ root' = [root EXCEPT ![u] = root[t]]
               /\ UNCHANGED <<nodes, count, at, arg>>

NewNode(heap, x) == [n \in 1..(count + 1) |-> IF n = count + 1 THEN x ELSE heap[n]]
Leaf(t, k, v) == [key |-> k, value |-> v, left |-> nil, right |-> nil, cow |-> cow[t]]

(* mutableFor: where the writable version of node n is, and the copy that    *)
(* has to be made for it when n is not owned.                                *)
Owned(n, t) == nodes[n].cow = cow[t]
MutableFor(n, t) == IF Owned(n, t) THEN n ELSE count + 1
Copied(n, t) == [nodes[n] EXCEPT !.cow = cow[t]]

UpsertEmpty(t, k, v) ==
    /\ Idle(t) /\ root[t] = nil
    /\ count < MaxNodes
    /\ nodes' = NewNode(nodes, Leaf(t, k, v))
    /\ count' = count + 1
    /\ root' = [root EXCEPT ![t] = count + 1]
    /\ UNCHANGED <<cows, cow, at, arg>>

UpsertRoot(t, k, v) ==
    /\ Idle(t) /\ root[t] # nil
    /\ \/ /\ Owned(root[t], t)
          /\ UNCHANGED <<nodes, count>>
       \/ /\ ~Owned(root[t], t)
          /\ count < MaxNodes
          /\ nodes' = NewNode(nodes, Copied(root[t], t))
          /\ count' = count + 1
    /\ root' = [root EXCEPT ![t] = MutableFor(root[t], t)]
    /\ at' = [at EXCEPT ![t] = MutableFor(root[t], t)]
    /\ arg' = [arg EXCEPT ![t] = [key |-> k, value |-> v]]
    /\ UNCHANGED <<cows, cow>>

(* The child the key of the argument leads to.                               *)
Child(n, k) == IF k < nodes[n].key THEN nodes[n].left ELSE nodes[n].right

(* Node n with that child replaced.                                          *)
WithChild(n, k, c) == IF k < nodes[n].key THEN [nodes[n] EXCEPT !.left = c]
                                          ELSE [nodes[n] EXCEPT !.right = c]

Done(t) == /\ at' = [at EXCEPT ![t] = nil]
           /\ arg' = [arg EXCEPT ![t] = NoArgument]

UpsertLeaf(t) ==
    LET n == at[t]
        k == arg[t].key
    IN /\ n # nil /\ k # nodes[n].key /\ Child(n, k) = nil
       /\ count < MaxNodes
       /\ nodes' = NewNode([nodes EXCEPT ![n] = WithChild(n, k, count + 1)],
                           Leaf(t, k, arg[t].value))
       /\ count' = count + 1
       /\ Done(t)
       /\ UNCHANGED <<cows, root, cow>>

(* Mutant: shared children are walked into and not copied. *)
DescendShared(t) ==
    LET n == at[t]
        k == arg[t].key
    IN /\ n # nil /\ k # nodes[n].key /\ Child(n, k) # nil
       /\ at' = [at EXCEPT ![t] = Child(n, k)]
       /\ UNCHANGED <<nodes, count, cows, root, cow, arg>>

Descend(t) ==
    LET n == at[t]
        k == arg[t].key
        c == Child(n, k)
    IN /\ n # nil /\ k # nodes[n].key /\ c # nil
       /\ \/ /\ Owned(c, t)
             /\ UNCHANGED <<nodes, count>>
          \/ /\ ~Owned(c, t)
             /\ count < MaxNodes
             /\ nodes' = NewNode([nodes EXCEPT ![n] = WithChild(n, k, count + 1)],
                                 Copied(c, t))
             /\ count' = count + 1
       /\ at' = [at EXCEPT ![t] = MutableFor(c, t)]
       /\ UNCHANGED <<cows, root, cow, arg>>

UpsertValue(t) ==
    LET n == at[t]
    IN /\ n # nil /\ arg[t].key = nodes[n].key
       /\ nodes' = [nodes EXCEPT ![n].value = arg[t].value]
       /\ Done(t)
       /\ UNCHANGED <<count, cows, root, cow>>

Write(t) == UpsertLeaf(t) \/ Descend(t) \/ UpsertValue(t)

Next == \/ \E t \in Tree : NewTree(t)
        \/ \E t, u \in Tree : Clone(t, u)
        \/ \E t \in Tree, x \in Input : \/ UpsertEmpty(t, x.key, x.value)
                                   \/ UpsertRoot(t, x.key, x.value)
        \/ \E t \in Tree : Write(t)

Spec == Init /\ [][Next]_vars

-------------------------------------------------------------------------------
(* A tree that owns a node is the only one that can reach it: whoever points *)
(* to an owned node is owned by the same tree, and only its own root is.     *)
OwnedParents ==
    \A t \in Tree, m, n \in 1..count :
        Exists(t) /\ Owned(n, t) /\ n \in {nodes[m].left, nodes[m].right}
            => Owned(m, t)
OwnedRoots ==
    \A t, u \in Tree : Exists(t) /\ root[u] # nil /\ Owned(root[u], t) => u = t

(* The walk of an Upsert is always at a node its tree owns (line 59, 70, 77), *)
(* however many clones were made of the tree before.                         *)
WriterOwns == \A t \in Tree : at[t] # nil => Exists(t) /\ Owned(at[t], t)

(* No two trees share a context, and no node with the context of a living    *)
(* tree is ever reachable from another.                                      *)
DistinctContexts == \A t, u \in Tree : Exists(t) /\ cow[t] = cow[u] => t = u
Ownership == OwnedParents /\ OwnedRoots /\ WriterOwns /\ DistinctContexts

(* A step changes a node only for the tree that owns it, and never again     *)
(* once a Clone has taken that context away: what a clone shares with its    *)
(* origin is read-only for ever (lines 42-52).                               *)
SharedIsReadOnly ==
    [][\A n \in 1..count :
         nodes'[n] # nodes[n] => \E t \in Tree : /\ at[t] = n /\ Owned(n, t)
                                                 /\ cow'[t] = cow[t]]_vars

-------------------------------------------------------------------------------
Get(t, k) ==
    LET walk[n \in 0..count] ==
            IF n = nil THEN nil
            ELSE IF k = nodes[n].key THEN nodes[n].value
            ELSE walk[Child(n, k)]
    IN walk[root[t]]

(* Through Get, the trees are independent maps: an Upsert takes effect on    *)
(* one tree, at its last step.                                               *)
Copies == INSTANCE TreeCopies WITH
    Absent <- nil,
    made <- {t \in Tree : Exists(t)},
    contents <- [t \in Tree |-> [k \in Key |-> Get(t, k)]]
IndependentMaps == Copies!Spec
================================================================================
