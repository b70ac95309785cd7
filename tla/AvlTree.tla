------------------------------- MODULE AvlTree -------------------------------
(***************************************************************************)
(* The contacts in an AVL tree (module2/4/4.3).  A tree is a value: a node *)
(* with its subtrees, or Nil for a null pointer; a function of the code    *)
(* that changes nodes and returns one is an operator from tree to tree.    *)
(* "*node = *child; free(child)" then is the child in the node's place.    *)
(* A contact is its place in the order of compare_contact().               *)
(***************************************************************************)
EXTENDS Integers, Sequences, FiniteSets

CONSTANT TreeContacts    \* contacts, as numbers in their order

ASSUME TreeAssumption == TreeContacts \subseteq Nat /\ IsFiniteSet(TreeContacts)

VARIABLES
  root,
  stored       \* history: the contacts that the calls so far leave behind

treeVars == <<root, stored>>

Nil == [height |-> 0]                   \* height(NULL) is 0

\* The trees of at most n levels, and those that TreeContacts can fill: no
\* tree that holds each contact once has more levels than there are contacts.
TreeOf[n \in Nat] ==
  IF n = 0 THEN {Nil}
  ELSE LET lower == TreeOf[n - 1]
       IN  {Nil} \cup
             [data : TreeContacts, height : Nat, left : lower, right : lower]

Trees == TreeOf[Cardinality(TreeContacts)]

Taller(a, b) == IF a > b THEN a ELSE b  \* max_int

\* The node with its height set from those of its subtrees.
Measured(n) == [n EXCEPT !.height = Taller(n.left.height, n.right.height) + 1]

Leaf(c) == [data |-> c, left |-> Nil, right |-> Nil, height |-> 1]

rotate_right(y) ==
  LET lower == Measured([y EXCEPT !.left = y.left.right])
  IN  Measured([y.left EXCEPT !.right = lower])

rotate_left(x) ==
  LET lower == Measured([x EXCEPT !.right = x.right.left])
  IN  Measured([x.right EXCEPT !.left = lower])

\* Mutant: the inner grandchild is not looked at.
single_rotation(node) ==
  LET n   == Measured(node)
      bal == n.left.height - n.right.height
  IN  IF bal > 1 THEN rotate_right(n)
      ELSE IF bal < -1 THEN rotate_left(n)
      ELSE n

balance(node) ==
  LET n   == Measured(node)
      bal == n.left.height - n.right.height
  IN  IF bal > 1 THEN
        rotate_right(IF n.left.left.height >= n.left.right.height THEN n
                     ELSE [n EXCEPT !.left = rotate_left(@)])
      ELSE IF bal < -1 THEN
        rotate_left(IF n.right.right.height >= n.right.left.height THEN n
                    ELSE [n EXCEPT !.right = rotate_right(@)])
      ELSE n

insert_node[t \in Trees] == [c \in TreeContacts |->
  IF t = Nil THEN Leaf(c)
  ELSE IF c < t.data THEN balance([t EXCEPT !.left = insert_node[t.left][c]])
  ELSE IF c > t.data THEN balance([t EXCEPT !.right = insert_node[t.right][c]])
  ELSE t]

\* find_node: the data of the node found, or none.
find_node[t \in Trees] == [c \in TreeContacts |->
  IF t = Nil THEN {}
  ELSE IF c < t.data THEN find_node[t.left][c]
  ELSE IF c > t.data THEN find_node[t.right][c]
  ELSE {t.data}]

find_min[t \in Trees \ {Nil}] ==
  IF t.left = Nil THEN t.data ELSE find_min[t.left]

delete_node[t \in Trees] == [c \in TreeContacts |->
  IF t = Nil THEN Nil
  ELSE IF c < t.data THEN balance([t EXCEPT !.left = delete_node[t.left][c]])
  ELSE IF c > t.data THEN balance([t EXCEPT !.right = delete_node[t.right][c]])
  ELSE IF t.left = Nil /\ t.right = Nil THEN Nil
  ELSE IF t.left = Nil THEN balance(t.right)
  ELSE IF t.right = Nil THEN balance(t.left)
  ELSE LET min == find_min[t.right]
       IN  balance([t EXCEPT !.data = min, !.right = delete_node[t.right][min]])]

inorder[t \in Trees] ==
  IF t = Nil THEN <<>> ELSE inorder[t.left] \o <<t.data>> \o inorder[t.right]
-----------------------------------------------------------------------------
TreeInit == root = Nil /\ stored = {}

TreeInsert(c) ==
  /\ root' = insert_node[root][c]
  /\ stored' = stored \cup {c}

TreeDelete(c) ==
  /\ root' = delete_node[root][c]
  /\ stored' = stored \ {c}

\* free_tree(root); root = NULL
TreeFree == root' = Nil /\ stored' = {}

TreeNext ==
  \/ \E c \in TreeContacts : TreeInsert(c) \/ TreeDelete(c)
  \/ TreeFree

TreeSpec == TreeInit /\ [][TreeNext]_treeVars
-----------------------------------------------------------------------------
\* The true height of a tree, and its nodes, each with what hangs on it.
depth[t \in Trees] == IF t = Nil THEN 0 ELSE Taller(depth[t.left], depth[t.right]) + 1

nodes[t \in Trees] == IF t = Nil THEN {} ELSE {t} \cup nodes[t.left] \cup nodes[t.right]

(***************************************************************************)
(* After any sequence of insertions and deletions the height written in    *)
(* each node is its true height, the subtrees of a node differ by one      *)
(* level at most, the contacts come out in order, each once, and           *)
(* find_node finds exactly those that were inserted and not deleted: the   *)
(* rotations on the way up, and the node that takes the place of a         *)
(* deleted one, lose nothing.                                              *)
(***************************************************************************)
TreeKept ==
  /\ \A t \in nodes[root] :
       /\ t.height = depth[t]
       /\ depth[t.left] - depth[t.right] \in -1 .. 1
  /\ LET out == inorder[root]
     IN  /\ \A i, j \in DOMAIN out : i < j => out[i] < out[j]
         /\ {out[i] : i \in DOMAIN out} = stored
  /\ \A c \in TreeContacts : find_node[root][c] = stored \cap {c}
=============================================================================
