----------------------------- MODULE ContactList -----------------------------
(***************************************************************************)
(* The sorted list of contacts, linked both ways (module2/4/4.1; list.c of *)
(* 6/6.1 and 6/6.2 is the same code).  node is the heap: a function on the *)
(* addresses that malloc() gave and free() did not take back, so that a    *)
(* stale pointer would be an error.  A contact is its place in the order   *)
(* of compare_contact().                                                   *)
(***************************************************************************)
EXTENDS Integers, Sequences, FiniteSets

CONSTANTS
  Addresses,       \* bound: the nodes malloc() has room for
  NoNode,          \* NULL
  ListContacts     \* contacts, as numbers in their order

ASSUME ListAssumption ==
  IsFiniteSet(Addresses) /\ NoNode \notin Addresses /\ ListContacts \subseteq Nat

VARIABLES
  head, node,
  held             \* history: how many of each contact the calls leave behind

listVars == <<head, node, held>>

Live == DOMAIN node

\* The walks along next from the head, as far as they please.
Walks ==
  {s \in UNION {[1 .. k -> Live] : k \in 1 .. Cardinality(Live)} :
     s[1] = head /\ \A i \in DOMAIN s : i > 1 => s[i] = node[s[i - 1]].next}

LastOf(s) == s[Len(s)]

\* Mutant: the node behind is not told of the new one.
LinkedOneWay(a, c, p, n) ==
  [x \in Live \cup {a} |->
     IF x = a THEN [data |-> c, prev |-> p, next |-> n]
     ELSE IF x = p THEN [node[x] EXCEPT !.next = a]
     ELSE node[x]]

\* A new node at a, with p before it and n behind it.
Linked(a, c, p, n) ==
  [x \in Live \cup {a} |->
     IF x = a THEN [data |-> c, prev |-> p, next |-> n]
     ELSE IF x = p THEN [node[x] EXCEPT !.next = a]
     ELSE IF x = n THEN [node[x] EXCEPT !.prev = a]
     ELSE node[x]]

Unlinked(a, p, n) ==
  [x \in Live \ {a} |->
     IF x = p THEN [node[x] EXCEPT !.next = n]
     ELSE IF x = n THEN [node[x] EXCEPT !.prev = p]
     ELSE node[x]]

\* The place in front of the head.
GoesFirst(c) == head # NoNode => c < node[head].data

\* cur, where the loop of insert_sorted stops.
StopsBehind(c, cur) ==
  \E s \in Walks :
    /\ LastOf(s) = cur
    /\ \A i \in 2 .. Len(s) : c > node[s[i]].data
    /\ node[cur].next # NoNode => ~(c > node[node[cur].next].data)

Finds(c, x) ==
  \E s \in Walks :
    LastOf(s) = x /\ node[x].data = c /\ \A i \in 1 .. Len(s) - 1 : node[s[i]].data # c
-----------------------------------------------------------------------------
ListInit ==
  head = NoNode /\ node = <<>> /\ held = [c \in ListContacts |-> 0]

insert_sorted(c) ==
  /\ \E a \in Addresses \ Live :
       \/ GoesFirst(c) /\ head' = a /\ node' = Linked(a, c, NoNode, head)
       \/ \E cur \in Live :
            /\ ~GoesFirst(c) /\ StopsBehind(c, cur)
            /\ node' = Linked(a, c, cur, node[cur].next)
            /\ UNCHANGED head
  /\ held' = [held EXCEPT ![c] = @ + 1]

\* delete_node(find_node(..)) with a contact that is in the list
delete_found(c) ==
  /\ \E x \in Live :
       /\ Finds(c, x)
       /\ node' = Unlinked(x, node[x].prev, node[x].next)
       /\ head' = IF node[x].prev # NoNode THEN head ELSE node[x].next
  /\ held' = [held EXCEPT ![c] = @ - 1]

free_list ==
  head' = NoNode /\ node' = <<>> /\ held' = [c \in ListContacts |-> 0]

ListNext ==
  \/ \E c \in ListContacts : insert_sorted(c) \/ delete_found(c)
  \/ free_list

ListSpec == ListInit /\ [][ListNext]_listVars
-----------------------------------------------------------------------------
\* Of neighbours, each points to the other and the contacts are in order.
Neighbours ==
  /\ head # NoNode => head \in Live /\ node[head].prev = NoNode
  /\ \A x \in Live :
       /\ node[x].next # NoNode =>
            /\ node[x].next \in Live /\ node[node[x].next].prev = x
            /\ node[x].data <= node[node[x].next].data
       /\ node[x].prev # NoNode =>
            node[x].prev \in Live /\ node[node[x].prev].next = x
       /\ node[x].prev = NoNode => x = head

(***************************************************************************)
(* After any sequence of insertions and deletions both directions of the   *)
(* list agree and the contacts are in order; from the head every node that *)
(* was not freed is reached, once; and the list holds as many of each      *)
(* contact as were inserted and not deleted, also of equal ones, which     *)
(* insert_sorted puts in front of each other, but behind an equal head.    *)
(***************************************************************************)
ListKept ==
  /\ Neighbours
  /\ Live # {} => \E s \in Walks : Len(s) = Cardinality(Live)
                               /\ \A x \in Live : \E i \in DOMAIN s : s[i] = x
  /\ \A c \in ListContacts :
       held[c] = Cardinality({x \in Live : node[x].data = c})
=============================================================================
