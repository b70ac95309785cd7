---------------------------- MODULE StructureProofs ----------------------------
(***************************************************************************)
(* Proofs about the sequential programs of module2 that keep a structure:  *)
(* the sorted list of contacts, the queue with priorities, the phone book, *)
(* the AVL tree of contacts.                                               *)
(***************************************************************************)
EXTENDS ContactList, PriorityQueue, PhoneBook, AvlTree, BasicFacts,
        FiniteSetTheorems, SequenceTheorems

(***************************************************************************)
(* The sorted list, for any number of nodes and contacts.  What is kept is *)
(* a chain: the live nodes in a row, each once, with the links that belong *)
(* to their places.                                                        *)
(***************************************************************************)
Links == Addresses \cup {NoNode}
NodeValues == [data : ListContacts, prev : Links, next : Links]

Size == Cardinality(Live)

\* The nodes beside place k of the row s.
Behind(s, k) == IF k = 1 THEN NoNode ELSE s[k - 1]
Ahead(s, k) == IF k = Size THEN NoNode ELSE s[k + 1]

Chain(s) ==
  /\ s \in [1 .. Size -> Live]
  /\ \A x \in Live : \E i \in 1 .. Size : s[i] = x
  /\ \A i, j \in 1 .. Size : s[i] = s[j] => i = j
  /\ head = IF Size = 0 THEN NoNode ELSE s[1]
  /\ \A i \in 1 .. Size : node[s[i]].prev = Behind(s, i) /\ node[s[i]].next = Ahead(s, i)
  /\ \A i \in 1 .. Size - 1 : node[s[i]].data <= node[s[i + 1]].data

Holding(c) == {x \in Live : node[x].data = c}

ITypes ==
  /\ Live \subseteq Addresses /\ node \in [Live -> NodeValues]
  /\ held \in [ListContacts -> Int]

IList ==
  /\ ITypes
  /\ \E s : Chain(s)
  /\ \A c \in ListContacts : held[c] = Cardinality(Holding(c))

LEMMA LiveFinite ==
  ASSUME ITypes
  PROVE  IsFiniteSet(Live) /\ Size \in Nat /\ (Size = 0 <=> Live = {}) /\ NoNode \notin Live
<1>1. IsFiniteSet(Live)
  BY ListAssumption, FS_Subset DEF ListAssumption, ITypes
<1>. QED
  BY <1>1, FS_CardinalityType, FS_EmptySet, ListAssumption DEF ListAssumption, ITypes, Size

\* The live nodes have numbers for contacts.
LEMMA Data ==
  ASSUME ITypes, NEW x \in Live
  PROVE  node[x].data \in ListContacts /\ node[x].data \in Nat
<1>1. node[x].data \in ListContacts
  BY DEF ITypes, NodeValues
<1>. QED
  BY <1>1, ListAssumption, Zenon DEF ListAssumption

-----------------------------------------------------------------------------
(***************************************************************************)
(* A node a is put at place k of the row s.                                *)
(***************************************************************************)
LEMMA InsertChain ==
  ASSUME ITypes, NEW s, Chain(s), NEW k \in 1 .. Size + 1,
         NEW a \in Addresses \ Live, NEW c \in ListContacts,
         NEW p, p = IF k = 1 THEN NoNode ELSE s[k - 1],
         NEW n, n = IF k = Size + 1 THEN NoNode ELSE s[k],
         node' = Linked(a, c, p, n),
         head' = IF k = 1 THEN a ELSE head,
         k > 1 => node[s[k - 1]].data <= c,
         k <= Size => c <= node[s[k]].data
  PROVE  /\ ITypes' <=> (held' \in [ListContacts -> Int])
         /\ \E t : Chain(t)'
         /\ Live' = Live \cup {a} /\ a \notin Live
         /\ \A x \in Live : node'[x].data = node[x].data
         /\ node'[a].data = c
<1>0. IsFiniteSet(Live) /\ Size \in Nat /\ NoNode \notin Live
  BY LiveFinite
<1>1. Live' = Live \cup {a} /\ a \notin Live /\ a # NoNode
  BY ListAssumption DEF ListAssumption, Live, Linked
<1>2. Size' = Size + 1
  BY <1>0, <1>1, FS_AddElement DEF Size
<1>3. \A j \in 1 .. Size : s[j] \in Live
  BY DEF Chain
<1>4. p \in Live \cup {NoNode} /\ n \in Live \cup {NoNode}
  BY <1>0, <1>3
<1>5. (p = NoNode <=> k = 1) /\ (n = NoNode <=> k = Size + 1) /\ (p # NoNode => p # n)
  <2>1. k > 1 => k - 1 \in 1 .. Size /\ s[k - 1] # NoNode
    BY <1>0, <1>3
  <2>2. k <= Size => k \in 1 .. Size /\ s[k] # NoNode
    BY <1>0, <1>3
  <2>3. k > 1 /\ k <= Size => s[k - 1] # s[k]
    BY <1>0, <2>1, <2>2 DEF Chain
  <2>. QED
    BY <2>1, <2>2, <2>3, <1>0
\* What each node is afterwards.
<1>6. node'[a] = [data |-> c, prev |-> p, next |-> n]
  BY DEF Linked
<1>7. \A x \in Live : /\ node[x] \in NodeValues
                      /\ x = p => node'[x] = [node[x] EXCEPT !.next = a]
                      /\ x # p /\ x = n => node'[x] = [node[x] EXCEPT !.prev = a]
                      /\ x # p /\ x # n => node'[x] = node[x]
  BY <1>1 DEF Linked, ITypes
<1>8. ASSUME NEW x \in Live
      PROVE  /\ node'[x] \in NodeValues
             /\ node'[x].data = node[x].data
             /\ node'[x].next = IF x = p THEN a ELSE node[x].next
             /\ node'[x].prev = IF x = n THEN a ELSE node[x].prev
  <2>1. a \in Links /\ a # NoNode /\ node[x] \in NodeValues
    BY <1>1, <1>7 DEF Links
  <2>2. CASE x = p
    <3>1. node'[x] = [node[x] EXCEPT !.next = a] /\ x # n
      BY <2>2, <1>0, <1>5, <1>7
    <3>. QED
      BY <3>1, <2>1, <2>2 DEF NodeValues
  <2>3. CASE x # p /\ x = n
    <3>1. node'[x] = [node[x] EXCEPT !.prev = a]
      BY <2>3, <1>7
    <3>. QED
      BY <3>1, <2>1, <2>3 DEF NodeValues
  <2>4. CASE x # p /\ x # n
    BY <2>4, <2>1, <1>7
  <2>. QED
    BY <2>2, <2>3, <2>4
<1>9. ITypes' <=> (held' \in [ListContacts -> Int])
  <2>1. node'[a] \in NodeValues
    BY <1>4, <1>6, <1>1 DEF NodeValues, Links, ITypes
  <2>2. \A x \in Live' : node'[x] \in NodeValues
    BY <1>1, <1>8, <2>1
  <2>3. node' = [x \in Live' |-> node'[x]]
    BY DEF Linked, Live
  <2>4. node' \in [Live' -> NodeValues]
    BY <2>2, <2>3
  <2>. QED
    BY <2>4, <1>1 DEF ITypes
<1>r. PICK t : t = [j \in 1 .. Size + 1 |->
                      IF j < k THEN s[j] ELSE IF j = k THEN a ELSE s[j - 1]]
  OBVIOUS
<1>10. \A j \in 1 .. Size + 1 :
         /\ j < k => j \in 1 .. Size /\ t[j] = s[j]
         /\ j = k => t[j] = a
         /\ j > k => j - 1 \in 1 .. Size /\ t[j] = s[j - 1]
  BY <1>0, <1>r
<1>11. t \in [1 .. Size + 1 -> Live \cup {a}]
  BY <1>3, <1>0, <1>r
<1>12. \A x \in Live \cup {a} : \E j \in 1 .. Size + 1 : t[j] = x
  <2>1. \E j \in 1 .. Size + 1 : t[j] = a
    BY <1>10
  <2>2. ASSUME NEW x \in Live
        PROVE  \E j \in 1 .. Size + 1 : t[j] = x
    <3>1. PICK i \in 1 .. Size : s[i] = x
      BY DEF Chain
    <3>2. CASE i < k
      BY <3>1, <3>2, <1>0, <1>10
    <3>3. CASE i >= k
      <4>1. i + 1 \in 1 .. Size + 1 /\ i + 1 > k /\ (i + 1) - 1 = i
        BY <3>3, <1>0
      <4>. QED
        BY <4>1, <3>1, <1>10
    <3>. QED
      BY <3>2, <3>3, <1>0
  <2>. QED
    BY <2>1, <2>2
<1>13. ASSUME NEW i \in 1 .. Size + 1, NEW j \in 1 .. Size + 1, t[i] = t[j]
       PROVE  i = j
  <2>1. \A m \in 1 .. Size + 1 : m = k <=> t[m] = a
    BY <1>0, <1>1, <1>3, <1>10
  <2>2. CASE i = k \/ j = k
    BY <2>1, <2>2, <1>13
  <2>3. CASE i < k /\ j < k
    BY <2>3, <1>13, <1>10 DEF Chain
  <2>4. CASE i > k /\ j > k
    <3>1. i - 1 = j - 1
      BY <2>4, <1>13, <1>10 DEF Chain
    <3>. QED
      BY <3>1, <1>0
  <2>5. CASE i < k /\ j > k
    <3>1. i = j - 1
      BY <2>5, <1>13, <1>10 DEF Chain
    <3>. QED
      BY <3>1, <2>5, <1>0
  <2>6. CASE i > k /\ j < k
    <3>1. i - 1 = j
      BY <2>6, <1>13, <1>10 DEF Chain
    <3>. QED
      BY <3>1, <2>6, <1>0
  <2>. QED
    BY <2>2, <2>3, <2>4, <2>5, <2>6, <1>0
<1>14. head' = t[1]
  <2>1. CASE k = 1
    BY <2>1, <1>10, <1>0
  <2>2. CASE k > 1
    <3>1. Size # 0 /\ 1 \in 1 .. Size + 1 /\ 1 < k
      BY <2>2, <1>0
    <3>. QED
      BY <3>1, <1>10 DEF Chain
  <2>. QED
    BY <2>1, <2>2
<1>15. ASSUME NEW j \in 1 .. Size + 1
       PROVE  node'[t[j]].next = IF j = Size + 1 THEN NoNode ELSE t[j + 1]
  <2>1. CASE j = k
    <3>1. node'[t[j]].next = n
      BY <2>1, <1>6, <1>10
    <3>2. j # Size + 1 => j + 1 \in 1 .. Size + 1 /\ j + 1 > k /\ (j + 1) - 1 = k
      BY <2>1, <1>0
    <3>. QED
      BY <3>1, <3>2, <2>1, <1>10
  <2>2. CASE j = k - 1
    <3>1. t[j] = p /\ t[j] \in Live
      BY <2>2, <1>3, <1>10, <1>0
    <3>2. j + 1 = k /\ j # Size + 1
      BY <2>2, <1>0
    <3>. QED
      BY <3>1, <3>2, <1>8, <1>10
  <2>3. CASE j < k - 1
    <3>1. /\ j \in 1 .. Size /\ j # Size /\ t[j] = s[j] /\ j # Size + 1
          /\ j + 1 < k /\ j + 1 \in 1 .. Size + 1
      BY <2>3, <1>10, <1>0
    <3>2. k - 1 \in 1 .. Size /\ p = s[k - 1] /\ j # k - 1
      BY <2>3, <1>0
    <3>3. t[j] \in Live /\ t[j] # p
      BY <3>1, <3>2, <1>3 DEF Chain
    <3>4. node[s[j]].next = s[j + 1]
      BY <3>1 DEF Chain, Ahead
    <3>. QED
      BY <3>1, <3>3, <3>4, <1>8, <1>10
  <2>4. CASE j > k
    <3>1. j - 1 \in 1 .. Size /\ t[j] = s[j - 1]
      BY <2>4, <1>10
    <3>2. k > 1 => k - 1 \in 1 .. Size /\ p = s[k - 1] /\ j - 1 # k - 1
      BY <2>4, <1>0
    <3>3. t[j] \in Live /\ t[j] # p
      BY <3>1, <3>2, <1>0, <1>3, <1>5 DEF Chain
    <3>4. node[s[j - 1]].next = IF j - 1 = Size THEN NoNode ELSE s[(j - 1) + 1]
      BY <3>1 DEF Chain, Ahead
    <3>5. j # Size + 1 => j + 1 \in 1 .. Size + 1 /\ j + 1 > k /\ (j + 1) - 1 = (j - 1) + 1
      BY <2>4, <1>0
    <3>6. j - 1 = Size <=> j = Size + 1
      BY <1>0
    <3>. QED
      BY <3>1, <3>3, <3>4, <3>5, <3>6, <1>8, <1>10
  <2>. QED
    BY <2>1, <2>2, <2>3, <2>4, <1>0
<1>16. ASSUME NEW j \in 1 .. Size + 1
       PROVE  node'[t[j]].prev = IF j = 1 THEN NoNode ELSE t[j - 1]
  <2>1. CASE j = k
    <3>1. node'[t[j]].prev = p
      BY <2>1, <1>6, <1>10
    <3>2. j # 1 => j - 1 \in 1 .. Size + 1 /\ j - 1 < k /\ j - 1 = k - 1
      BY <2>1, <1>0
    <3>. QED
      BY <3>1, <3>2, <2>1, <1>10
  <2>2. CASE j = k + 1
    <3>1. t[j] = s[k] /\ j - 1 = k /\ j # 1 /\ k # Size + 1
      BY <2>2, <1>10, <1>0
    <3>2. t[j] = n /\ t[j] \in Live
      BY <3>1, <1>3, <1>0
    <3>. QED
      BY <3>1, <3>2, <1>8, <1>10
  <2>3. CASE j > k + 1
    <3>1. j - 1 \in 1 .. Size /\ t[j] = s[j - 1] /\ j - 1 # k /\ j - 1 # 1 /\ j # 1
      BY <2>3, <1>10, <1>0
    <3>2. k \in 1 .. Size /\ n = s[k]
      BY <2>3, <1>0
    <3>3. t[j] \in Live /\ t[j] # n
      BY <3>1, <3>2, <1>3 DEF Chain
    <3>4. node[s[j - 1]].prev = s[(j - 1) - 1]
      BY <3>1 DEF Chain, Behind
    <3>5. j - 1 \in 1 .. Size + 1 /\ j - 1 > k
      BY <2>3, <1>0
    <3>. QED
      BY <3>1, <3>3, <3>4, <3>5, <1>8, <1>10
  <2>4. CASE j < k
    <3>1. j \in 1 .. Size /\ t[j] = s[j]
      BY <2>4, <1>10
    <3>2. k <= Size => k \in 1 .. Size /\ n = s[k] /\ j # k
      BY <2>4, <1>0
    <3>3. t[j] \in Live /\ t[j] # n
      BY <3>1, <3>2, <1>0, <1>3, <1>5 DEF Chain
    <3>4. node[s[j]].prev = IF j = 1 THEN NoNode ELSE s[j - 1]
      BY <3>1 DEF Chain, Behind
    <3>5. j # 1 => j - 1 \in 1 .. Size + 1 /\ j - 1 < k
      BY <2>4, <1>0
    <3>. QED
      BY <3>1, <3>3, <3>4, <3>5, <1>8, <1>10
  <2>. QED
    BY <2>1, <2>2, <2>3, <2>4, <1>0
<1>17. ASSUME NEW j \in 1 .. Size
       PROVE  node'[t[j]].data <= node'[t[j + 1]].data
  <2>0. j \in 1 .. Size + 1 /\ j + 1 \in 1 .. Size + 1
    BY <1>0
  <2>1. \A x \in Live : node'[x].data = node[x].data
    BY <1>8
  <2>2. CASE j = k
    <3>1. t[j] = a /\ t[j + 1] = s[k] /\ s[k] \in Live /\ k <= Size
      BY <2>2, <2>0, <1>0, <1>3, <1>10
    <3>. QED
      BY <3>1, <2>1, <1>6
  <2>3. CASE j = k - 1
    <3>1. t[j] = s[k - 1] /\ t[j + 1] = a /\ s[k - 1] \in Live /\ k > 1
      BY <2>3, <2>0, <1>0, <1>3, <1>10
    <3>. QED
      BY <3>1, <2>1, <1>6
  <2>4. CASE j < k - 1
    <3>1. /\ t[j] = s[j] /\ t[j + 1] = s[j + 1] /\ j \in 1 .. Size - 1
          /\ s[j] \in Live /\ s[j + 1] \in Live
      BY <2>4, <2>0, <1>0, <1>3, <1>10
    <3>. QED
      BY <3>1, <2>1 DEF Chain
  <2>5. CASE j > k
    <3>1. /\ t[j] = s[j - 1] /\ t[j + 1] = s[(j - 1) + 1] /\ j - 1 \in 1 .. Size - 1
          /\ s[j - 1] \in Live /\ s[(j - 1) + 1] \in Live
      BY <2>5, <2>0, <1>0, <1>3, <1>10
    <3>. QED
      BY <3>1, <2>1 DEF Chain
  <2>. QED
    BY <2>2, <2>3, <2>4, <2>5, <1>0
<1>18. Chain(t)'
  <2>1. /\ t \in [1 .. Size' -> Live']
        /\ \A x \in Live' : \E i \in 1 .. Size' : t[i] = x
        /\ \A i, j \in 1 .. Size' : t[i] = t[j] => i = j
    BY <1>1, <1>2, <1>11, <1>12, <1>13
  <2>2. head' = IF Size' = 0 THEN NoNode ELSE t[1]
    BY <1>0, <1>2, <1>14
  <2>3. \A i \in 1 .. Size' :
          node'[t[i]].prev = Behind(t, i) /\ node'[t[i]].next = Ahead(t, i)'
    BY <1>2, <1>15, <1>16 DEF Behind, Ahead
  <2>4. \A i \in 1 .. Size' - 1 : node'[t[i]].data <= node'[t[i + 1]].data
    BY <1>0, <1>2, <1>17
  <2>. QED
    BY <2>1, <2>2, <2>3, <2>4 DEF Chain, Behind
<1>. QED
  BY <1>1, <1>6, <1>8, <1>9, <1>18

-----------------------------------------------------------------------------
(***************************************************************************)
(* The node at place k of the row s is taken out.                          *)
(***************************************************************************)
LEMMA DeleteChain ==
  ASSUME ITypes, NEW s, Chain(s), NEW k \in 1 .. Size,
         NEW x, x = s[k],
         NEW p, p = node[x].prev, NEW n, n = node[x].next,
         node' = Unlinked(x, p, n),
         head' = IF p # NoNode THEN head ELSE n
  PROVE  /\ ITypes' <=> (held' \in [ListContacts -> Int])
         /\ \E t : Chain(t)'
         /\ Live' = Live \ {x} /\ x \in Live
         /\ \A y \in Live' : node'[y].data = node[y].data
<1>0. IsFiniteSet(Live) /\ Size \in Nat /\ NoNode \notin Live
  BY LiveFinite
<1>1. Live' = Live \ {x}
  BY DEF Live, Unlinked
<1>3. \A j \in 1 .. Size : s[j] \in Live
  BY DEF Chain
<1>2. Size' = Size - 1 /\ Size' \in Nat /\ x \in Live
  <2>1. x \in Live
    BY <1>3
  <2>2. Size' = Size - 1
    BY <1>0, <1>1, <2>1, FS_RemoveElement DEF Size
  <2>. QED
    BY <2>1, <2>2, <1>0
<1>4. p = Behind(s, k) /\ n = Ahead(s, k)
  BY DEF Chain
<1>5. /\ p \in Live \cup {NoNode} /\ n \in Live \cup {NoNode}
      /\ p = NoNode <=> k = 1
      /\ n = NoNode <=> k = Size
      /\ p # NoNode => p # n
  <2>1. k > 1 => k - 1 \in 1 .. Size /\ p = s[k - 1] /\ s[k - 1] # NoNode
    BY <1>0, <1>3, <1>4 DEF Behind
  <2>2. k < Size => k + 1 \in 1 .. Size /\ n = s[k + 1] /\ s[k + 1] # NoNode
    BY <1>0, <1>3, <1>4 DEF Ahead
  <2>3. (k = 1 => p = NoNode) /\ (k = Size => n = NoNode)
    BY <1>4 DEF Behind, Ahead
  <2>4. k > 1 /\ k < Size => s[k - 1] # s[k + 1]
    BY <1>0, <2>1, <2>2 DEF Chain
  <2>5. p \in Live \cup {NoNode} /\ n \in Live \cup {NoNode}
    BY <2>1, <2>2, <2>3, <1>0, <1>3
  <2>. QED
    BY <2>1, <2>2, <2>3, <2>4, <2>5, <1>0
\* What each node is afterwards.
<1>6. \A y \in Live' : /\ y \in Live /\ node[y] \in NodeValues
                       /\ y = p => node'[y] = [node[y] EXCEPT !.next = n]
                       /\ y # p /\ y = n => node'[y] = [node[y] EXCEPT !.prev = p]
                       /\ y # p /\ y # n => node'[y] = node[y]
  BY <1>1 DEF Unlinked, ITypes
<1>7. p \in Links /\ n \in Links
  BY <1>5 DEF Links, ITypes
<1>8. ASSUME NEW y \in Live'
      PROVE  /\ node'[y] \in NodeValues
             /\ node'[y].data = node[y].data
             /\ node'[y].next = IF y = p THEN n ELSE node[y].next
             /\ node'[y].prev = IF y = n THEN p ELSE node[y].prev
  <2>1. CASE y = p
    <3>1. node'[y] = [node[y] EXCEPT !.next = n] /\ y # n /\ node[y] \in NodeValues
      BY <2>1, <1>0, <1>5, <1>6
    <3>. QED
      BY <3>1, <1>7, <2>1 DEF NodeValues
  <2>2. CASE y # p /\ y = n
    <3>1. node'[y] = [node[y] EXCEPT !.prev = p] /\ node[y] \in NodeValues
      BY <2>2, <1>6
    <3>. QED
      BY <3>1, <1>7, <2>2 DEF NodeValues
  <2>3. CASE y # p /\ y # n
    BY <2>3, <1>6
  <2>. QED
    BY <2>1, <2>2, <2>3
<1>9. ITypes' <=> (held' \in [ListContacts -> Int])
  <2>1. node' = [y \in Live' |-> node'[y]]
    BY DEF Unlinked, Live
  <2>2. node' \in [Live' -> NodeValues]
    BY <1>8, <2>1
  <2>. QED
    BY <2>2, <1>1 DEF ITypes
<1>r. PICK t : t = [j \in 1 .. Size - 1 |-> IF j < k THEN s[j] ELSE s[j + 1]]
  OBVIOUS
<1>10. \A j \in 1 .. Size - 1 :
         /\ j \in 1 .. Size /\ j + 1 \in 1 .. Size
         /\ j < k => t[j] = s[j]
         /\ j >= k => t[j] = s[j + 1]
  BY <1>0, <1>r
<1>11. t \in [1 .. Size - 1 -> Live \ {x}]
  <2>1. \A j \in 1 .. Size : j # k => s[j] \in Live \ {x}
    BY <1>3 DEF Chain
  <2>2. \A j \in 1 .. Size - 1 : t[j] \in Live \ {x}
    BY <2>1, <1>10, <1>0
  <2>. QED
    BY <2>2, <1>r
<1>12. ASSUME NEW y \in Live \ {x}
       PROVE  \E j \in 1 .. Size - 1 : t[j] = y
  <2>1. PICK i \in 1 .. Size : s[i] = y
    BY DEF Chain
  <2>2. CASE i < k
    <3>1. i \in 1 .. Size - 1
      BY <2>2, <1>0
    <3>. QED
      BY <3>1, <2>1, <2>2, <1>10
  <2>3. CASE i > k
    <3>1. i - 1 \in 1 .. Size - 1 /\ i - 1 >= k /\ (i - 1) + 1 = i
      BY <2>3, <1>0
    <3>. QED
      BY <3>1, <2>1, <1>10
  <2>. QED
    BY <2>1, <2>2, <2>3, <1>0
<1>13. ASSUME NEW i \in 1 .. Size - 1, NEW j \in 1 .. Size - 1, t[i] = t[j]
       PROVE  i = j
  <2>1. CASE i < k /\ j < k
    BY <2>1, <1>13, <1>10 DEF Chain
  <2>2. CASE i >= k /\ j >= k
    <3>1. i + 1 = j + 1
      BY <2>2, <1>13, <1>10 DEF Chain
    <3>. QED
      BY <3>1, <1>0
  <2>3. CASE i < k /\ j >= k
    <3>1. i = j + 1
      BY <2>3, <1>13, <1>10 DEF Chain
    <3>. QED
      BY <3>1, <2>3, <1>0
  <2>4. CASE i >= k /\ j < k
    <3>1. i + 1 = j
      BY <2>4, <1>13, <1>10 DEF Chain
    <3>. QED
      BY <3>1, <2>4, <1>0
  <2>. QED
    BY <2>1, <2>2, <2>3, <2>4, <1>0
<1>14. head' = IF Size - 1 = 0 THEN NoNode ELSE t[1]
  <2>1. CASE k = 1
    <3>1. head' = n
      BY <2>1, <1>5
    <3>2. Size - 1 = 0 <=> k = Size
      BY <2>1, <1>0
    <3>3. Size - 1 # 0 => 1 \in 1 .. Size - 1 /\ t[1] = s[1 + 1] /\ n = s[1 + 1]
      BY <2>1, <1>0, <1>4, <1>10 DEF Ahead
    <3>. QED
      BY <3>1, <3>2, <3>3, <1>5
  <2>2. CASE k > 1
    <3>1. head' = head /\ Size - 1 # 0 /\ 1 \in 1 .. Size - 1 /\ t[1] = s[1] /\ Size # 0
      BY <2>2, <1>5, <1>0, <1>10
    <3>. QED
      BY <3>1 DEF Chain
  <2>. QED
    BY <2>1, <2>2, <1>0
<1>b. \A j \in 1 .. Size - 1 : t[j] \in Live'
  BY <1>1, <1>11
<1>15. ASSUME NEW j \in 1 .. Size - 1
       PROVE  node'[t[j]].next = IF j = Size - 1 THEN NoNode ELSE t[j + 1]
  <2>1. CASE j = k - 1
    <3>1. t[j] = s[k - 1] /\ p = s[k - 1]
      BY <2>1, <1>0, <1>4, <1>10 DEF Behind
    <3>2. node'[t[j]].next = n
      BY <3>1, <1>b, <1>8
    <3>3. j = Size - 1 <=> k = Size
      BY <2>1, <1>0
    <3>4. j # Size - 1 => t[j + 1] = s[k + 1] /\ n = s[k + 1]
      BY <2>1, <1>0, <1>4, <1>10 DEF Ahead
    <3>. QED
      BY <3>2, <3>3, <3>4, <1>5
  <2>2. CASE j < k - 1
    <3>1. /\ t[j] = s[j] /\ j # Size /\ p = s[k - 1] /\ j # k - 1 /\ k - 1 \in 1 .. Size
          /\ j # Size - 1 /\ t[j + 1] = s[j + 1] /\ j \in 1 .. Size
      BY <2>2, <1>0, <1>4, <1>10 DEF Behind
    <3>2. t[j] # p
      BY <3>1 DEF Chain
    <3>3. node[s[j]].next = s[j + 1]
      BY <3>1 DEF Chain, Ahead
    <3>. QED
      BY <3>1, <3>2, <3>3, <1>b, <1>8
  <2>3. CASE j >= k
    <3>1. t[j] = s[j + 1] /\ j + 1 \in 1 .. Size
      BY <2>3, <1>10
    <3>2. k > 1 => p = s[k - 1] /\ k - 1 \in 1 .. Size /\ j + 1 # k - 1
      BY <2>3, <1>0, <1>4 DEF Behind
    <3>3. t[j] # p
      BY <3>1, <3>2, <1>0, <1>3, <1>5 DEF Chain
    <3>4. node[s[j + 1]].next = IF j + 1 = Size THEN NoNode ELSE s[(j + 1) + 1]
      BY <3>1 DEF Chain, Ahead
    <3>5. /\ j + 1 = Size <=> j = Size - 1
          /\ j # Size - 1 => t[j + 1] = s[(j + 1) + 1]
      BY <2>3, <1>0, <1>10
    <3>. QED
      BY <3>1, <3>3, <3>4, <3>5, <1>b, <1>8
  <2>. QED
    BY <2>1, <2>2, <2>3, <1>0
<1>16. ASSUME NEW j \in 1 .. Size - 1
       PROVE  node'[t[j]].prev = IF j = 1 THEN NoNode ELSE t[j - 1]
  <2>1. CASE j = k
    <3>1. t[j] = s[k + 1] /\ n = s[k + 1]
      BY <2>1, <1>0, <1>4, <1>10 DEF Ahead
    <3>2. node'[t[j]].prev = p
      BY <3>1, <1>b, <1>8
    <3>3. j # 1 => t[j - 1] = s[k - 1] /\ p = s[k - 1]
      BY <2>1, <1>0, <1>4, <1>10 DEF Behind
    <3>. QED
      BY <3>2, <3>3, <2>1, <1>5
  <2>2. CASE j > k
    <3>1. /\ t[j] = s[j + 1] /\ j + 1 \in 1 .. Size /\ n = s[k + 1] /\ k + 1 \in 1 .. Size
          /\ j + 1 # k + 1 /\ j # 1 /\ t[j - 1] = s[(j - 1) + 1] /\ j + 1 # 1
          /\ (j + 1) - 1 = (j - 1) + 1
      BY <2>2, <1>0, <1>4, <1>10 DEF Ahead
    <3>2. t[j] # n
      BY <3>1 DEF Chain
    <3>3. node[s[j + 1]].prev = s[(j + 1) - 1]
      BY <3>1 DEF Chain, Behind
    <3>. QED
      BY <3>1, <3>2, <3>3, <1>b, <1>8
  <2>3. CASE j < k
    <3>1. t[j] = s[j] /\ j \in 1 .. Size
      BY <2>3, <1>10
    <3>2. k < Size => n = s[k + 1] /\ k + 1 \in 1 .. Size /\ j # k + 1
      BY <2>3, <1>0, <1>4 DEF Ahead
    <3>3. t[j] # n
      BY <3>1, <3>2, <1>0, <1>3, <1>5 DEF Chain
    <3>4. node[s[j]].prev = IF j = 1 THEN NoNode ELSE s[j - 1]
      BY <3>1 DEF Chain, Behind
    <3>5. j # 1 => t[j - 1] = s[j - 1]
      BY <2>3, <1>0, <1>10
    <3>. QED
      BY <3>1, <3>3, <3>4, <3>5, <1>b, <1>8
  <2>. QED
    BY <2>1, <2>2, <2>3, <1>0
<1>17. ASSUME NEW j \in 1 .. (Size - 1) - 1
       PROVE  node'[t[j]].data <= node'[t[j + 1]].data
  <2>0. /\ j \in 1 .. Size - 1 /\ j + 1 \in 1 .. Size - 1
        /\ j \in 1 .. Size /\ j + 1 \in 1 .. Size /\ (j + 1) + 1 \in 1 .. Size
    BY <1>0
  <2>1. node'[t[j]].data = node[t[j]].data /\ node'[t[j + 1]].data = node[t[j + 1]].data
    BY <2>0, <1>b, <1>8
  <2>2. /\ node[s[j]].data <= node[s[j + 1]].data
        /\ node[s[j + 1]].data <= node[s[(j + 1) + 1]].data
    BY <2>0, <1>0 DEF Chain
  <2>3. CASE j + 1 < k
    <3>1. t[j] = s[j] /\ t[j + 1] = s[j + 1]
      BY <2>0, <2>3, <1>0, <1>10
    <3>. QED
      BY <3>1, <2>1, <2>2
  <2>4. CASE j < k /\ j + 1 >= k
    <3>1. t[j] = s[j] /\ t[j + 1] = s[(j + 1) + 1]
      BY <2>0, <2>4, <1>0, <1>10
    <3>2. /\ node[s[j]].data \in Nat /\ node[s[j + 1]].data \in Nat
          /\ node[s[(j + 1) + 1]].data \in Nat
      BY <2>0, <1>3, Data
    <3>. QED
      BY <3>1, <3>2, <2>1, <2>2
  <2>5. CASE j >= k
    <3>1. t[j] = s[j + 1] /\ t[j + 1] = s[(j + 1) + 1]
      BY <2>0, <2>5, <1>0, <1>10
    <3>. QED
      BY <3>1, <2>1, <2>2
  <2>. QED
    BY <2>3, <2>4, <2>5, <1>0
<1>18. Chain(t)'
  <2>1. /\ t \in [1 .. Size' -> Live']
        /\ \A y \in Live' : \E i \in 1 .. Size' : t[i] = y
        /\ \A i, j \in 1 .. Size' : t[i] = t[j] => i = j
    BY <1>1, <1>2, <1>11, <1>12, <1>13
  <2>2. head' = IF Size' = 0 THEN NoNode ELSE t[1]
    BY <1>2, <1>14
  <2>3. \A i \in 1 .. Size' :
          node'[t[i]].prev = Behind(t, i) /\ node'[t[i]].next = Ahead(t, i)'
    BY <1>2, <1>15, <1>16 DEF Behind, Ahead
  <2>4. \A i \in 1 .. Size' - 1 : node'[t[i]].data <= node'[t[i + 1]].data
    BY <1>2, <1>17
  <2>. QED
    BY <2>1, <2>2, <2>3, <2>4 DEF Chain, Behind
<1>. QED
  BY <1>1, <1>2, <1>8, <1>9, <1>18

-----------------------------------------------------------------------------
\* A walk is a sequence of live nodes.
LEMMA WalkLength ==
  ASSUME ITypes, NEW w \in Walks
  PROVE  /\ Len(w) \in Nat \ {0} /\ w \in [1 .. Len(w) -> Live]
         /\ w[1] = head /\ DOMAIN w = 1 .. Len(w)
<1>1. PICK k \in 1 .. Size : w \in [1 .. k -> Live]
  BY DEF Walks, Size
<1>2. Size \in Nat
  BY LiveFinite
<1>3. w \in Seq(Live)
  BY <1>1, <1>2, SeqDef
<1>4. Len(w) = k
  <2>1. DOMAIN w = 1 .. k /\ DOMAIN w = 1 .. Len(w) /\ Len(w) \in Nat
    BY <1>1, <1>3, LenProperties
  <2>. QED
    BY <2>1, <1>2
<1>5. w[1] = head
  BY DEF Walks
<1>. QED
  BY <1>1, <1>2, <1>4, <1>5

\* How many nodes hold a contact, when one is put in or taken out.
LEMMA OneMore ==
  ASSUME ITypes, NEW a, a \notin Live, Live' = Live \cup {a}, NEW c \in ListContacts,
         \A x \in Live : node'[x].data = node[x].data, node'[a].data = c,
         NEW d \in ListContacts
  PROVE  Cardinality(Holding(d)') = Cardinality(Holding(d)) + (IF d = c THEN 1 ELSE 0)
<1>1. IsFiniteSet(Holding(d)) /\ a \notin Holding(d)
  BY LiveFinite, FS_Subset DEF Holding
<1>2. Holding(d)' = IF d = c THEN Holding(d) \cup {a} ELSE Holding(d)
  BY DEF Holding
<1>3. Cardinality(Holding(d)) \in Nat
  BY <1>1, FS_CardinalityType
<1>4. Cardinality(Holding(d) \cup {a}) = Cardinality(Holding(d)) + 1
  BY <1>1, FS_AddElement
<1>5. CASE d = c
  BY <1>2, <1>4, <1>5
<1>6. CASE d # c
  BY <1>2, <1>3, <1>6
<1>. QED
  BY <1>5, <1>6

LEMMA OneLess ==
  ASSUME ITypes, NEW x \in Live, Live' = Live \ {x}, NEW c \in ListContacts,
         \A y \in Live' : node'[y].data = node[y].data, node[x].data = c,
         NEW d \in ListContacts
  PROVE  Cardinality(Holding(d)') = Cardinality(Holding(d)) - (IF d = c THEN 1 ELSE 0)
<1>1. IsFiniteSet(Holding(d)) /\ (x \in Holding(d) <=> d = c)
  BY LiveFinite, FS_Subset DEF Holding
<1>2. Holding(d)' = IF d = c THEN Holding(d) \ {x} ELSE Holding(d)
  BY DEF Holding
<1>3. Cardinality(Holding(d)) \in Nat
  BY <1>1, FS_CardinalityType
<1>4. x \in Holding(d) => Cardinality(Holding(d) \ {x}) = Cardinality(Holding(d)) - 1
  BY <1>1, FS_RemoveElement
<1>5. CASE d = c
  BY <1>1, <1>2, <1>4, <1>5
<1>6. CASE d # c
  BY <1>2, <1>3, <1>6
<1>. QED
  BY <1>5, <1>6

\* An empty list is a chain.
LEMMA EmptyChain ==
  ASSUME head = NoNode, node = <<>>, held = [c \in ListContacts |-> 0]
  PROVE  IList
<1>1. Live = {} /\ Size = 0
  BY FS_EmptySet DEF Live, Size
<1>2. ITypes
  BY <1>1 DEF ITypes, Live
<1>3. Chain(<<>>)
  BY <1>1 DEF Chain
<1>4. \A c \in ListContacts : held[c] = Cardinality(Holding(c))
  <2>1. \A c : Holding(c) = {}
    BY <1>1 DEF Holding
  <2>. QED
    BY <2>1, FS_EmptySet
<1>. QED
  BY <1>2, <1>3, <1>4 DEF IList

\* insert_sorted puts the contact where the order is kept.
LEMMA InsertKeeps ==
  ASSUME IList, NEW c \in ListContacts, insert_sorted(c)
  PROVE  IList'
<1>t. ITypes
  BY DEF IList
<1>0. Size \in Nat /\ NoNode \notin Live
  BY <1>t, LiveFinite
<1>1. PICK s : Chain(s)
  BY DEF IList
<1>2. \A j \in 1 .. Size : s[j] \in Live
  BY <1>1 DEF Chain
<1>3. PICK a \in Addresses \ Live :
        \/ GoesFirst(c) /\ head' = a /\ node' = Linked(a, c, NoNode, head)
        \/ \E cur \in Live :
             /\ ~GoesFirst(c) /\ StopsBehind(c, cur)
             /\ node' = Linked(a, c, cur, node[cur].next)
             /\ UNCHANGED head
  BY DEF insert_sorted
<1>4. /\ ITypes' <=> (held' \in [ListContacts -> Int])
      /\ \E t : Chain(t)'
      /\ Live' = Live \cup {a} /\ a \notin Live
      /\ \A x \in Live : node'[x].data = node[x].data
      /\ node'[a].data = c
  <2>1. CASE GoesFirst(c) /\ head' = a /\ node' = Linked(a, c, NoNode, head)
    <3>1. 1 \in 1 .. Size + 1 /\ (1 = Size + 1 <=> Size = 0)
      BY <1>0
    <3>2. head = IF 1 = Size + 1 THEN NoNode ELSE s[1]
      BY <1>1, <3>1 DEF Chain
    <3>3. 1 <= Size => c <= node[s[1]].data
      <4>1. HAVE 1 <= Size
      <4>2. head = s[1] /\ s[1] \in Live /\ head # NoNode
        BY <4>1, <1>0, <1>2, <3>2
      <4>3. c < node[s[1]].data
        BY <4>2, <2>1 DEF GoesFirst
      <4>4. c \in Nat /\ node[s[1]].data \in Nat
        BY <4>2, <1>t, Data, ListAssumption DEF ListAssumption
      <4>. QED
        BY <4>3, <4>4
    <3>. QED
      BY <3>1, <3>2, <3>3, <2>1, <1>t, <1>1, InsertChain
  <2>2. CASE ~GoesFirst(c) /\ UNCHANGED head /\
             \E cur \in Live : /\ StopsBehind(c, cur)
                               /\ node' = Linked(a, c, cur, node[cur].next)
    <3>1. PICK cur \in Live : /\ StopsBehind(c, cur)
                              /\ node' = Linked(a, c, cur, node[cur].next)
      BY <2>2
    <3>2. PICK m \in 1 .. Size : s[m] = cur
      BY <1>1 DEF Chain
    <3>3. PICK w \in Walks :
            /\ LastOf(w) = cur
            /\ \A i \in 2 .. Len(w) : c > node[w[i]].data
            /\ node[cur].next # NoNode => ~(c > node[node[cur].next].data)
      BY <3>1 DEF StopsBehind
    <3>4. c \in Nat /\ node[cur].data \in Nat
      BY <1>t, Data, ListAssumption DEF ListAssumption
    <3>5. node[cur].data <= c
      <4>1. Len(w) \in Nat \ {0} /\ w[1] = head
        BY <1>t, WalkLength
      <4>2. CASE Len(w) = 1
        <5>1. head = cur
          BY <4>1, <4>2, <3>3 DEF LastOf
        <5>. QED
          BY <5>1, <2>2, <3>4 DEF GoesFirst
      <4>3. CASE Len(w) > 1
        <5>1. c > node[w[Len(w)]].data
          BY <4>1, <4>3, <3>3
        <5>. QED
          BY <5>1, <3>3, <3>4 DEF LastOf
      <4>4. PICK l \in Nat \ {0} : l = Len(w)
        BY <4>1
      <4>5. l = 1 \/ l > 1
        OBVIOUS
      <4>. QED
        BY <4>2, <4>3, <4>4, <4>5
    <3>6. m + 1 \in 1 .. Size + 1 /\ m + 1 # 1 /\ (m + 1) - 1 = m
          /\ (m + 1 = Size + 1 <=> m = Size)
      BY <1>0
    <3>7. node[cur].next = IF m = Size THEN NoNode ELSE s[m + 1]
      BY <1>1, <3>2 DEF Chain, Ahead
    <3>8. m + 1 <= Size => c <= node[s[m + 1]].data
      <4>1. HAVE m + 1 <= Size
      <4>2. node[cur].next = s[m + 1] /\ s[m + 1] \in Live /\ s[m + 1] # NoNode
        BY <4>1, <1>0, <1>2, <3>7
      <4>3. ~(c > node[s[m + 1]].data) /\ node[s[m + 1]].data \in Nat
        BY <4>2, <3>3, <1>t, Data
      <4>. QED
        BY <4>3, <3>4
    <3>9. cur = IF m + 1 = 1 THEN NoNode ELSE s[(m + 1) - 1]
      BY <3>2, <3>6
    <3>10. node[cur].next = IF m + 1 = Size + 1 THEN NoNode ELSE s[m + 1]
      BY <3>6, <3>7
    <3>11. m + 1 > 1 => node[s[(m + 1) - 1]].data <= c
      BY <3>2, <3>5, <3>6
    <3>12. head' = IF m + 1 = 1 THEN a ELSE head
      BY <2>2, <3>6
    <3>. QED
      BY <3>1, <3>6, <3>8, <3>9, <3>10, <3>11, <3>12, <1>t, <1>1, InsertChain
  <2>. QED
    BY <1>3, <2>1, <2>2
<1>5. held' = [held EXCEPT ![c] = @ + 1] /\ held \in [ListContacts -> Int]
  BY DEF insert_sorted, IList, ITypes
<1>6. ITypes'
  BY <1>4, <1>5
<1>7. \A d \in ListContacts : held'[d] = Cardinality(Holding(d)')
  <2>1. TAKE d \in ListContacts
  <2>2. Cardinality(Holding(d)') = Cardinality(Holding(d)) + (IF d = c THEN 1 ELSE 0)
    BY <1>t, <1>4, OneMore
  <2>3. held[d] = Cardinality(Holding(d)) /\ held[d] \in Int
    BY <1>5 DEF IList
  <2>. QED
    BY <2>2, <2>3, <1>5
<1>. QED
  BY <1>4, <1>6, <1>7 DEF IList

\* delete_node takes out the node that find_node stopped at.
LEMMA DeleteKeeps ==
  ASSUME IList, NEW c \in ListContacts, delete_found(c)
  PROVE  IList'
<1>t. ITypes
  BY DEF IList
<1>1. PICK s : Chain(s)
  BY DEF IList
<1>2. PICK x \in Live :
        /\ Finds(c, x)
        /\ node' = Unlinked(x, node[x].prev, node[x].next)
        /\ head' = IF node[x].prev # NoNode THEN head ELSE node[x].next
  BY DEF delete_found
<1>3. PICK k \in 1 .. Size : s[k] = x
  BY <1>1 DEF Chain
<1>4. /\ ITypes' <=> (held' \in [ListContacts -> Int])
      /\ \E t : Chain(t)'
      /\ Live' = Live \ {x}
      /\ \A y \in Live' : node'[y].data = node[y].data
  BY <1>t, <1>1, <1>2, <1>3, DeleteChain
<1>5. node[x].data = c
  BY <1>2 DEF Finds
<1>6. held' = [held EXCEPT ![c] = @ - 1] /\ held \in [ListContacts -> Int]
  BY DEF delete_found, IList, ITypes
<1>7. ITypes'
  BY <1>4, <1>6
<1>8. \A d \in ListContacts : held'[d] = Cardinality(Holding(d)')
  <2>1. TAKE d \in ListContacts
  <2>2. Cardinality(Holding(d)') = Cardinality(Holding(d)) - (IF d = c THEN 1 ELSE 0)
    BY <1>t, <1>4, <1>5, OneLess
  <2>3. held[d] = Cardinality(Holding(d)) /\ held[d] \in Int
    BY <1>6 DEF IList
  <2>. QED
    BY <2>2, <2>3, <1>6
<1>. QED
  BY <1>4, <1>7, <1>8 DEF IList

-----------------------------------------------------------------------------
\* A chain is what the runs check of the list.
LEMMA ChainIsKept ==
  ASSUME IList
  PROVE  ListKept
<1>t. ITypes
  BY DEF IList
<1>0. Size \in Nat /\ NoNode \notin Live /\ (Size = 0 <=> Live = {})
  BY <1>t, LiveFinite
<1>1. PICK s : Chain(s)
  BY DEF IList
<1>2. \A j \in 1 .. Size : s[j] \in Live
  BY <1>1 DEF Chain
<1>3. head # NoNode => head \in Live /\ node[head].prev = NoNode
  <2>1. HAVE head # NoNode
  <2>2. Size # 0 /\ head = s[1] /\ 1 \in 1 .. Size
    BY <2>1, <1>0, <1>1 DEF Chain
  <2>. QED
    BY <2>2, <1>1, <1>2 DEF Chain, Behind
<1>4. ASSUME NEW x \in Live
      PROVE  /\ node[x].next # NoNode =>
                  /\ node[x].next \in Live /\ node[node[x].next].prev = x
                  /\ node[x].data <= node[node[x].next].data
             /\ node[x].prev # NoNode =>
                  node[x].prev \in Live /\ node[node[x].prev].next = x
             /\ node[x].prev = NoNode => x = head
  <2>1. PICK m \in 1 .. Size : s[m] = x
    BY <1>1 DEF Chain
  <2>2. node[x].next = Ahead(s, m) /\ node[x].prev = Behind(s, m)
    BY <1>1, <2>1 DEF Chain
  <2>3. ASSUME node[x].next # NoNode
        PROVE  /\ node[x].next \in Live /\ node[node[x].next].prev = x
               /\ node[x].data <= node[node[x].next].data
    <3>1. /\ m + 1 \in 1 .. Size /\ m \in 1 .. Size - 1 /\ m + 1 # 1 /\ (m + 1) - 1 = m
          /\ node[x].next = s[m + 1]
      BY <2>2, <2>3, <1>0 DEF Ahead
    <3>2. node[s[m + 1]].prev = s[m] /\ node[s[m]].data <= node[s[m + 1]].data
      BY <3>1, <1>1 DEF Chain, Behind
    <3>. QED
      BY <3>1, <3>2, <2>1, <1>2
  <2>4. ASSUME node[x].prev # NoNode
        PROVE  node[x].prev \in Live /\ node[node[x].prev].next = x
    <3>1. /\ m - 1 \in 1 .. Size /\ m - 1 # Size /\ (m - 1) + 1 = m
          /\ node[x].prev = s[m - 1]
      BY <2>2, <2>4, <1>0 DEF Behind
    <3>2. node[s[m - 1]].next = s[m]
      BY <3>1, <1>1 DEF Chain, Ahead
    <3>. QED
      BY <3>1, <3>2, <2>1, <1>2
  <2>5. node[x].prev = NoNode => x = head
    <3>1. HAVE node[x].prev = NoNode
    <3>2. m = 1
      <4>1. m # 1 => m - 1 \in 1 .. Size /\ node[x].prev = s[m - 1]
        BY <2>2, <1>0 DEF Behind
      <4>. QED
        BY <4>1, <3>1, <1>0, <1>2
    <3>3. Size # 0
      BY <1>0
    <3>. QED
      BY <3>2, <3>3, <2>1, <1>1 DEF Chain
  <2>. QED
    BY <2>3, <2>4, <2>5
<1>5. ASSUME Live # {}
      PROVE  \E w \in Walks : Len(w) = Cardinality(Live)
                           /\ \A x \in Live : \E i \in DOMAIN w : w[i] = x
  <2>1. Size \in 1 .. Size /\ Size # 0
    BY <1>5, <1>0
  <2>2. s \in [1 .. Size -> Live] /\ DOMAIN s = 1 .. Size
    BY <1>1 DEF Chain
  <2>3. s[1] = head
    BY <2>1, <1>1 DEF Chain
  <2>4. ASSUME NEW i \in DOMAIN s, i > 1
        PROVE  s[i] = node[s[i - 1]].next
    <3>1. i - 1 \in 1 .. Size /\ i - 1 # Size /\ (i - 1) + 1 = i
      BY <2>2, <2>4, <1>0
    <3>. QED
      BY <3>1, <1>1 DEF Chain, Ahead
  <2>5. s \in Walks
    BY <2>1, <2>2, <2>3, <2>4 DEF Walks, Size
  <2>6. Len(s) = Size
    <3>1. s \in Seq(Live)
      BY <2>2, <1>0, SeqDef
    <3>2. 1 .. Len(s) = 1 .. Size /\ Len(s) \in Nat
      BY <3>1, <2>2, LenProperties
    <3>. QED
      BY <3>2, <1>0
  <2>7. \A x \in Live : \E i \in DOMAIN s : s[i] = x
    BY <1>1, <2>2 DEF Chain
  <2>. QED
    BY <2>5, <2>6, <2>7 DEF Size
<1>6. \A c \in ListContacts : held[c] = Cardinality({x \in Live : node[x].data = c})
  BY DEF IList, Holding
<1>. QED
  BY <1>3, <1>4, <1>5, <1>6 DEF ListKept, Neighbours

(***************************************************************************)
(* For any number of nodes and contacts and any sequence of insert_sorted, *)
(* delete_node of a node found, and free_list, the list stays linked both  *)
(* ways, in order, whole, and with as many of each contact as were put in  *)
(* and not taken out (list.c, main.c of module2/4/4.1).                    *)
(***************************************************************************)
THEOREM ListIsKept == ListSpec => []ListKept
<1>1. ListInit => IList
  BY EmptyChain DEF ListInit
<1>2. IList /\ [ListNext]_listVars => IList'
  <2>. SUFFICES ASSUME IList, [ListNext]_listVars PROVE IList'
    OBVIOUS
  <2>1. CASE \E c \in ListContacts : insert_sorted(c)
    BY <2>1, InsertKeeps
  <2>2. CASE \E c \in ListContacts : delete_found(c)
    BY <2>2, DeleteKeeps
  <2>3. CASE free_list
    <3>1. Live' = {} /\ Size' = 0
      BY <2>3, FS_EmptySet DEF free_list, Live, Size
    <3>2. ITypes'
      BY <2>3, <3>1 DEF ITypes, free_list, Live
    <3>3. Chain(<<>>)'
      BY <2>3, <3>1 DEF Chain, free_list
    <3>4. \A c : Holding(c)' = {}
      BY <3>1 DEF Holding
    <3>5. \A c \in ListContacts : held'[c] = Cardinality(Holding(c)')
      BY <2>3, <3>4, FS_EmptySet DEF free_list
    <3>. QED
      BY <3>2, <3>3, <3>5 DEF IList
  <2>4. CASE UNCHANGED listVars
    <3>1. UNCHANGED <<head, node, held>>
      BY <2>4 DEF listVars
    <3>2. Live' = Live /\ Size' = Size /\ ITypes' = ITypes
      BY <3>1 DEF Live, Size, ITypes
    <3>3. \A c : Holding(c)' = Holding(c)
      BY <3>1, <3>2 DEF Holding
    <3>4. PICK s : Chain(s)
      BY DEF IList
    <3>5. Chain(s)'
      BY <3>1, <3>2, <3>4 DEF Chain, Behind, Ahead
    <3>6. ITypes' /\ \A c \in ListContacts : held'[c] = Cardinality(Holding(c)')
      BY <3>1, <3>2, <3>3 DEF IList
    <3>. QED
      BY <3>5, <3>6 DEF IList
  <2>. QED
    BY <2>1, <2>2, <2>3, <2>4 DEF ListNext
<1>3. IList => ListKept
  BY ChainIsKept
<1>. QED
  BY <1>1, <1>2, <1>3, PTL DEF ListSpec
-----------------------------------------------------------------------------
(***************************************************************************)
(* The queue with priorities, for any priorities and any number of items.  *)
(***************************************************************************)
\* What all dequeues rest on: who leaves first stands first.
InLeavingOrder(q) == \A i, j \in DOMAIN q : i < j => Before(q[i], q[j])

IQueue ==
  /\ queue \in Seq(Items) /\ arrived \in 0 .. MaxMessages
  /\ InLeavingOrder(queue)
  /\ \A i \in DOMAIN queue : queue[i].message <= arrived

\* r is q without its place i.
Lacks(r, q, i) ==
  /\ r \in Seq(Items) /\ Len(r) = Len(q) - 1
  /\ \A j \in 1 .. Len(r) : r[j] = IF j < i THEN q[j] ELSE q[j + 1]

LEMMA ItemFields ==
  ASSUME NEW x \in Items
  PROVE  x.priority \in Int /\ x.message \in Int
<1>1. x.priority \in Priorities /\ x.message \in 1 .. MaxMessages
  BY DEF Items
<1>2. x.priority \in Int
  BY <1>1, QueueAssumption, Zenon DEF QueueAssumption
<1>3. x.message \in Int
  BY <1>1, QueueAssumption, SMT DEF QueueAssumption
<1>. QED
  BY <1>2, <1>3

LEMMA WithoutLacks ==
  ASSUME queue \in Seq(Items), NEW i \in DOMAIN queue
  PROVE  Lacks(WithoutIndex(i), queue, i)
<1>. DEFINE a == SubSeq(queue, 1, i - 1)
            b == SubSeq(queue, i + 1, Len(queue))
<1>0. i \in 1 .. Len(queue) /\ Len(queue) \in Nat
  BY LenProperties
<1>1. \A j \in 1 .. Len(queue) : queue[j] \in Items
  BY ElementOfSeq
<1>2. /\ a \in Seq(Items) /\ Len(a) = i - 1
      /\ \A j \in 1 .. i - 1 : a[j] = queue[j]
  <2>1. /\ a \in Seq(Items)
        /\ Len(a) = IF 1 <= i - 1 THEN (i - 1) - 1 + 1 ELSE 0
        /\ \A j \in 1 .. (i - 1) - 1 + 1 : a[j] = queue[1 + j - 1]
    BY <1>0, <1>1, SubSeqProperties
  <2>. QED
    BY <2>1, <1>0
<1>3. /\ b \in Seq(Items) /\ Len(b) = Len(queue) - i
      /\ \A j \in 1 .. Len(queue) - i : b[j] = queue[i + j]
  <2>1. /\ b \in Seq(Items)
        /\ Len(b) = IF i + 1 <= Len(queue) THEN Len(queue) - (i + 1) + 1 ELSE 0
        /\ \A j \in 1 .. Len(queue) - (i + 1) + 1 : b[j] = queue[(i + 1) + j - 1]
    BY <1>0, <1>1, SubSeqProperties
  <2>. QED
    BY <2>1, <1>0
<1>. HIDE DEF a, b
<1>4. /\ a \o b \in Seq(Items) /\ Len(a \o b) = Len(a) + Len(b)
      /\ \A j \in 1 .. Len(a) + Len(b) :
           (a \o b)[j] = IF j <= Len(a) THEN a[j] ELSE b[j - Len(a)]
  BY <1>2, <1>3, ConcatProperties
<1>5. ASSUME NEW j \in 1 .. Len(queue) - 1
      PROVE  (a \o b)[j] = IF j < i THEN queue[j] ELSE queue[j + 1]
  <2>1. CASE j < i
    <3>1. j \in 1 .. i - 1 /\ j <= Len(a) /\ j \in 1 .. Len(a) + Len(b)
      BY <2>1, <1>0, <1>2, <1>3
    <3>. QED
      BY <2>1, <3>1, <1>2, <1>4
  <2>2. CASE ~(j < i)
    <3>1. (a \o b)[j] = b[j - (i - 1)]
      <4>1. j \in 1 .. Len(a) + Len(b) /\ ~(j <= Len(a))
        BY <2>2, <1>0, <1>2, <1>3
      <4>2. (a \o b)[j] = b[j - Len(a)]
        BY <4>1, <1>4
      <4>. QED
        BY <4>2, <1>2
    <3>2. b[j - (i - 1)] = queue[i + (j - (i - 1))]
      BY <2>2, <1>0, <1>3
    <3>. QED
      BY <3>1, <3>2, <2>2, <1>0
  <2>. QED
    BY <2>1, <2>2
<1>6. Len(a \o b) = Len(queue) - 1
  BY <1>0, <1>2, <1>3, <1>4
<1>7. Lacks(a \o b, queue, i)
  BY <1>4, <1>5, <1>6 DEF Lacks
<1>. QED
  BY <1>7 DEF WithoutIndex, a, b

LEMMA TailLacks ==
  ASSUME queue \in Seq(Items), queue # <<>>
  PROVE  1 \in DOMAIN queue /\ Lacks(Tail(queue), queue, 1)
<1>1. /\ Tail(queue) \in Seq(Items) /\ Len(Tail(queue)) = Len(queue) - 1
      /\ \A i \in 1 .. Len(Tail(queue)) : Tail(queue)[i] = queue[i + 1]
  BY HeadTailProperties
<1>2. Len(queue) \in Nat \ {0} /\ DOMAIN queue = 1 .. Len(queue)
  BY EmptySeq, LenProperties
<1>. QED
  BY <1>1, <1>2 DEF Lacks

\* A queue that lacks one of its items is still in order.
LEMMA LackKeeps ==
  ASSUME IQueue, NEW i \in DOMAIN queue, NEW r, Lacks(r, queue, i)
  PROVE  /\ InLeavingOrder(r)
         /\ \A j \in DOMAIN r : r[j].message <= arrived
<1>0. /\ DOMAIN queue = 1 .. Len(queue) /\ Len(queue) \in Nat
      /\ DOMAIN r = 1 .. Len(r) /\ Len(r) = Len(queue) - 1
  BY LenProperties DEF IQueue, Lacks
<1>. DEFINE From(j) == IF j < i THEN j ELSE j + 1
<1>1. \A j \in DOMAIN r : From(j) \in DOMAIN queue /\ r[j] = queue[From(j)]
  BY <1>0 DEF Lacks
<1>2. \A j, k \in DOMAIN r : j < k => From(j) < From(k)
  BY <1>0
<1>. HIDE DEF From
<1>. QED
  BY <1>1, <1>2 DEF IQueue, InLeavingOrder

\* Its items are the others.
LEMMA LackLeaves ==
  ASSUME IQueue, NEW i \in DOMAIN queue, NEW r, Lacks(r, queue, i)
  PROVE  {r[j] : j \in DOMAIN r} = Waiting \ {queue[i]}
<1>0. /\ DOMAIN queue = 1 .. Len(queue) /\ Len(queue) \in Nat
      /\ DOMAIN r = 1 .. Len(r) /\ Len(r) = Len(queue) - 1
  BY LenProperties DEF IQueue, Lacks
<1>1. \A j \in DOMAIN queue : j # i => queue[j] # queue[i]
  <2>1. \A j \in DOMAIN queue : queue[j] \in Items
    BY <1>0, ElementOfSeq DEF IQueue
  <2>2. \A x \in Items : ~Before(x, x)
    BY ItemFields DEF Before
  <2>. QED
    BY <2>1, <2>2, <1>0 DEF IQueue, InLeavingOrder
<1>2. ASSUME NEW x \in {r[j] : j \in DOMAIN r}
      PROVE  x \in Waiting \ {queue[i]}
  <2>1. PICK j \in DOMAIN r : x = r[j]
    BY <1>2
  <2>2. \E k \in DOMAIN queue : k # i /\ x = queue[k]
    <3>1. CASE j < i
      BY <3>1, <2>1, <1>0 DEF Lacks
    <3>2. CASE ~(j < i)
      BY <3>2, <2>1, <1>0 DEF Lacks
    <3>. QED
      BY <3>1, <3>2
  <2>. QED
    BY <2>2, <1>1 DEF Waiting
<1>3. ASSUME NEW x \in Waiting \ {queue[i]}
      PROVE  x \in {r[j] : j \in DOMAIN r}
  <2>1. PICK k \in DOMAIN queue : x = queue[k] /\ k # i
    BY <1>3 DEF Waiting
  <2>2. \E j \in DOMAIN r : r[j] = queue[k]
    <3>1. CASE k < i
      BY <3>1, <2>1, <1>0 DEF Lacks
    <3>2. CASE k > i
      <4>1. k - 1 \in DOMAIN r /\ ~(k - 1 < i) /\ (k - 1) + 1 = k
        BY <3>2, <1>0
      <4>. QED
        BY <4>1, <1>0 DEF Lacks
    <3>. QED
      BY <3>1, <3>2, <2>1, <1>0
  <2>. QED
    BY <2>1, <2>2
<1>. QED
  BY <1>2, <1>3

\* The first item that fits leaves before all others that fit.
LEMMA FirstFits ==
  ASSUME IQueue, NEW i \in DOMAIN queue, Lacks(queue', queue, i),
         NEW S \in SUBSET Waiting, queue[i] \in S,
         \A j \in DOMAIN queue : j < i => queue[j] \notin S
  PROVE  FirstLeaves(S)
<1>0. DOMAIN queue = 1 .. Len(queue) /\ Len(queue) \in Nat
  BY LenProperties DEF IQueue
<1>1. ASSUME NEW y \in S \ {queue[i]}
      PROVE  Before(queue[i], y)
  <2>1. PICK j \in DOMAIN queue : y = queue[j]
    BY DEF Waiting
  <2>2. j > i
    BY <2>1, <1>0
  <2>. QED
    BY <2>1, <2>2 DEF IQueue, InLeavingOrder
<1>2. Waiting' = Waiting \ {queue[i]}
  BY LackLeaves DEF Waiting
<1>3. Len(queue') = Len(queue) - 1
  BY DEF Lacks
<1>. QED
  BY <1>1, <1>2, <1>3 DEF FirstLeaves

\* r is q with x at place i.
Gains(r, q, i, x) ==
  /\ r \in Seq(Items) /\ Len(r) = Len(q) + 1
  /\ \A j \in 1 .. Len(r) :
       r[j] = IF j < i THEN q[j] ELSE IF j = i THEN x ELSE q[j - 1]

LEMMA InsertedGains ==
  ASSUME queue \in Seq(Items), NEW i \in 1 .. Len(queue) + 1, NEW x \in Items
  PROVE  Gains(InsertedAt(i, x), queue, i, x)
<1>. DEFINE a == SubSeq(queue, 1, i - 1)
            b == SubSeq(queue, i, Len(queue))
            ax == a \o <<x>>
<1>0. Len(queue) \in Nat /\ i \in Int /\ 1 <= i /\ i <= Len(queue) + 1
  BY LenProperties
<1>1. \A j \in 1 .. Len(queue) : queue[j] \in Items
  BY ElementOfSeq
<1>2. /\ a \in Seq(Items) /\ Len(a) = i - 1
      /\ \A j \in 1 .. i - 1 : a[j] = queue[j]
  <2>1. /\ a \in Seq(Items)
        /\ Len(a) = IF 1 <= i - 1 THEN (i - 1) - 1 + 1 ELSE 0
        /\ \A j \in 1 .. (i - 1) - 1 + 1 : a[j] = queue[1 + j - 1]
    BY <1>0, <1>1, SubSeqProperties
  <2>. QED
    BY <2>1, <1>0
<1>3. /\ b \in Seq(Items) /\ Len(b) = Len(queue) - i + 1
      /\ \A j \in 1 .. Len(queue) - i + 1 : b[j] = queue[i + j - 1]
  <2>1. /\ b \in Seq(Items)
        /\ Len(b) = IF i <= Len(queue) THEN Len(queue) - i + 1 ELSE 0
        /\ \A j \in 1 .. Len(queue) - i + 1 : b[j] = queue[i + j - 1]
    BY <1>0, <1>1, SubSeqProperties
  <2>. QED
    BY <2>1, <1>0
<1>4. <<x>> \in Seq(Items) /\ Len(<<x>>) = 1 /\ <<x>>[1] = x
  OBVIOUS
<1>. HIDE DEF a, b
<1>5. /\ ax \in Seq(Items) /\ Len(ax) = Len(a) + Len(<<x>>)
      /\ \A j \in 1 .. Len(a) + Len(<<x>>) :
           ax[j] = IF j <= Len(a) THEN a[j] ELSE <<x>>[j - Len(a)]
  BY <1>2, <1>4, ConcatProperties
<1>6. ax \in Seq(Items) /\ Len(ax) = i /\ (\A j \in 1 .. i - 1 : ax[j] = queue[j]) /\ ax[i] = x
  BY <1>0, <1>2, <1>4, <1>5
<1>. HIDE DEF ax
<1>7. /\ ax \o b \in Seq(Items) /\ Len(ax \o b) = Len(ax) + Len(b)
      /\ \A j \in 1 .. Len(ax) + Len(b) :
           (ax \o b)[j] = IF j <= Len(ax) THEN ax[j] ELSE b[j - Len(ax)]
  BY <1>3, <1>6, ConcatProperties
<1>8. Len(ax \o b) = Len(queue) + 1
  BY <1>0, <1>3, <1>6, <1>7
<1>9. ASSUME NEW j \in 1 .. Len(queue) + 1
      PROVE  (ax \o b)[j] = IF j < i THEN queue[j] ELSE IF j = i THEN x ELSE queue[j - 1]
  <2>1. j \in 1 .. Len(ax) + Len(b)
    BY <1>0, <1>3, <1>6
  <2>2. CASE j <= i
    <3>1. (ax \o b)[j] = ax[j]
      BY <2>1, <2>2, <1>6, <1>7
    <3>. QED
      BY <3>1, <2>2, <1>0, <1>6
  <2>3. CASE j > i
    <3>1. (ax \o b)[j] = b[j - i]
      <4>1. ~(j <= Len(ax))
        BY <2>3, <1>0, <1>6
      <4>2. (ax \o b)[j] = b[j - Len(ax)]
        BY <4>1, <2>1, <1>7
      <4>. QED
        BY <4>2, <1>6
    <3>2. j - i \in 1 .. Len(queue) - i + 1 /\ i + (j - i) - 1 = j - 1
      BY <2>3, <1>0
    <3>. QED
      BY <3>1, <3>2, <1>3, <2>3, <1>0
  <2>4. j <= i \/ j > i
    BY <1>0
  <2>. QED
    BY <2>2, <2>3, <2>4
<1>. QED
  BY <1>7, <1>8, <1>9 DEF Gains, InsertedAt, a, b, ax

LEMMA GainKeeps ==
  ASSUME IQueue, NEW p \in Priorities, NEW i \in 1 .. Len(queue) + 1, StopsAt(i, p),
         NEW r, Gains(r, queue, i, Item(p, arrived + 1))
  PROVE  /\ InLeavingOrder(r)
         /\ \A j \in DOMAIN r : r[j].message <= arrived + 1
<1>. DEFINE x == Item(p, arrived + 1)
<1>0. /\ DOMAIN queue = 1 .. Len(queue) /\ Len(queue) \in Nat
      /\ DOMAIN r = 1 .. Len(queue) + 1 /\ arrived \in Nat
  BY LenProperties DEF IQueue, Gains
<1>1. \A j \in DOMAIN queue :
        /\ queue[j].priority \in Int /\ queue[j].message \in Int
        /\ queue[j].message <= arrived
  BY <1>0, ElementOfSeq, ItemFields DEF IQueue
<1>2. p \in Int /\ x.priority = p /\ x.message = arrived + 1
  BY QueueAssumption DEF QueueAssumption, Item
<1>3. \A j \in DOMAIN queue : j < i => Before(queue[j], x)
  BY <1>0, <1>1, <1>2 DEF StopsAt, Before
<1>4. \A j \in DOMAIN queue : j >= i => Before(x, queue[j])
  <2>1. SUFFICES ASSUME NEW j \in DOMAIN queue, j >= i
                 PROVE  queue[j].priority < p
    BY <1>2 DEF Before
  <2>2. i \in DOMAIN queue /\ queue[i].priority < p
    BY <2>1, <1>0 DEF StopsAt
  <2>3. j = i \/ Before(queue[i], queue[j])
    BY <2>1, <2>2, <1>0 DEF IQueue, InLeavingOrder
  <2>. QED
    BY <2>2, <2>3, <1>1, <1>2 DEF Before
<1>5. \A j \in DOMAIN r :
        /\ j < i => j \in DOMAIN queue /\ r[j] = queue[j]
        /\ j = i => r[j] = x
        /\ j > i => j - 1 \in DOMAIN queue /\ r[j] = queue[j - 1]
  BY <1>0 DEF Gains
<1>. HIDE DEF x
<1>6. ASSUME NEW j \in DOMAIN r, NEW k \in DOMAIN r, j < k
      PROVE  Before(r[j], r[k])
  <2>1. CASE k < i
    BY <2>1, <1>0, <1>5, <1>6 DEF IQueue, InLeavingOrder
  <2>2. CASE k = i
    BY <2>2, <1>0, <1>3, <1>5, <1>6
  <2>3. CASE k > i /\ j < i
    <3>1. j < k - 1
      BY <2>3, <1>0
    <3>. QED
      BY <3>1, <2>3, <1>5 DEF IQueue, InLeavingOrder
  <2>4. CASE k > i /\ j = i
    <3>1. k - 1 >= i
      BY <2>4, <1>0
    <3>. QED
      BY <3>1, <2>4, <1>4, <1>5
  <2>5. CASE k > i /\ j > i
    <3>1. j - 1 < k - 1
      BY <1>0, <1>6
    <3>. QED
      BY <3>1, <2>5, <1>5 DEF IQueue, InLeavingOrder
  <2>. QED
    BY <2>1, <2>2, <2>3, <2>4, <2>5, <1>0
<1>7. \A j \in DOMAIN r : r[j].message <= arrived + 1
  BY <1>0, <1>1, <1>2, <1>5
<1>. QED
  BY <1>6, <1>7 DEF InLeavingOrder

\* What an item is taken out by.
LEMMA TakeTakes ==
  ASSUME IQueue, NEW fits, TakeFirst(fits)
  PROVE  /\ FirstLeaves({x \in Waiting : x.priority \in fits})
         /\ IQueue'
<1>. DEFINE S == {x \in Waiting : x.priority \in fits}
<1>1. CASE (\A i \in DOMAIN queue : queue[i].priority \notin fits) /\ UNCHANGED queue
  <2>1. S = {}
    BY <1>1 DEF Waiting
  <2>. QED
    BY <2>1, <1>1 DEF FirstLeaves, TakeFirst, IQueue, InLeavingOrder
<1>2. ASSUME NEW i \in DOMAIN queue, queue[i].priority \in fits,
             \A j \in 1 .. i - 1 : queue[j].priority \notin fits,
             queue' = WithoutIndex(i)
      PROVE  FirstLeaves(S) /\ IQueue'
  <2>1. Lacks(queue', queue, i)
    BY <1>2, WithoutLacks DEF IQueue
  <2>2. \A j \in DOMAIN queue : j < i => queue[j] \notin S
    BY <1>2, LenProperties DEF IQueue
  <2>3. queue[i] \in S /\ S \in SUBSET Waiting
    BY <1>2 DEF Waiting
  <2>. HIDE DEF S
  <2>4. FirstLeaves(S)
    BY <2>1, <2>2, <2>3, FirstFits
  <2>5. InLeavingOrder(queue') /\ \A j \in DOMAIN queue' : queue'[j].message <= arrived
    BY <2>1, LackKeeps
  <2>. QED
    BY <2>1, <2>4, <2>5 DEF IQueue, TakeFirst, Lacks
<1>. QED
  BY <1>1, <1>2 DEF TakeFirst

LEMMA FirstTakes ==
  ASSUME IQueue, dequeue_first
  PROVE  FirstLeaves(Waiting) /\ IQueue'
<1>1. CASE queue = <<>>
  <2>1. Waiting = {}
    BY <1>1 DEF Waiting
  <2>. QED
    BY <2>1, <1>1 DEF FirstLeaves, dequeue_first, IQueue, InLeavingOrder
<1>2. CASE queue # <<>>
  <2>1. 1 \in DOMAIN queue /\ Lacks(queue', queue, 1)
    BY <1>2, TailLacks DEF dequeue_first, IQueue
  <2>2. \A j \in DOMAIN queue : ~(j < 1)
    BY LenProperties DEF IQueue
  <2>3. queue[1] \in Waiting /\ Waiting \in SUBSET Waiting
    BY <2>1 DEF Waiting
  <2>4. FirstLeaves(Waiting)
    BY <2>1, <2>2, <2>3, FirstFits
  <2>5. InLeavingOrder(queue') /\ \A j \in DOMAIN queue' : queue'[j].message <= arrived
    BY <2>1, LackKeeps
  <2>. QED
    BY <2>1, <2>4, <2>5 DEF IQueue, dequeue_first, Lacks
<1>. QED
  BY <1>1, <1>2

LEMMA EnqueueKeeps ==
  ASSUME IQueue, NEW p \in Priorities, enqueue(p)
  PROVE  IQueue'
<1>1. PICK i \in 1 .. Len(queue) + 1 :
        StopsAt(i, p) /\ queue' = InsertedAt(i, Item(p, arrived + 1))
  BY DEF enqueue
<1>2. arrived' = arrived + 1 /\ arrived' \in 0 .. MaxMessages /\ arrived + 1 \in 1 .. MaxMessages
  BY QueueAssumption DEF QueueAssumption, enqueue, IQueue
<1>3. Item(p, arrived + 1) \in Items
  BY <1>2 DEF Item, Items
<1>4. Gains(queue', queue, i, Item(p, arrived + 1))
  BY <1>1, <1>3, InsertedGains DEF IQueue
<1>5. InLeavingOrder(queue') /\ \A j \in DOMAIN queue' : queue'[j].message <= arrived + 1
  BY <1>1, <1>4, GainKeeps
<1>. QED
  BY <1>2, <1>4, <1>5 DEF IQueue, Gains

LEMMA QueueStarts == QueueInit => IQueue
BY QueueAssumption DEF QueueAssumption, QueueInit, IQueue, InLeavingOrder

LEMMA QueueStep == IQueue /\ [QueueNext]_queueVars => IQueue'
<1>. SUFFICES ASSUME IQueue, [QueueNext]_queueVars
              PROVE  IQueue'
  OBVIOUS
<1>1. ASSUME NEW p \in Priorities, enqueue(p)
      PROVE  IQueue'
  BY <1>1, EnqueueKeeps
<1>2. ASSUME NEW p \in Priorities, dequeue_by_priority(p)
      PROVE  IQueue'
  BY <1>2, TakeTakes DEF dequeue_by_priority
<1>3. ASSUME NEW p \in Priorities, dequeue_by_min_priority(p)
      PROVE  IQueue'
  BY <1>3, TakeTakes DEF dequeue_by_min_priority
<1>4. CASE dequeue_first
  BY <1>4, FirstTakes
<1>5. CASE free_queue
  BY <1>5, QueueAssumption DEF QueueAssumption, free_queue, IQueue, InLeavingOrder
<1>6. CASE UNCHANGED queueVars
  BY <1>6 DEF queueVars, IQueue, InLeavingOrder
<1>. QED
  BY <1>1, <1>2, <1>3, <1>4, <1>5, <1>6 DEF QueueNext

(***************************************************************************)
(* At all times the list holds the items in the order in which they are to *)
(* leave: by priority, and by arrival within one priority.                 *)
(***************************************************************************)
THEOREM QueueOrdered == QueueSpec => []IQueue
BY QueueStarts, QueueStep, PTL DEF QueueSpec

(***************************************************************************)
(* For any priorities and any number of items each of the three dequeues   *)
(* takes the most urgent of the oldest that fit, and nothing else.         *)
(***************************************************************************)
THEOREM UrgentOldestFirst == QueueSpec => MostUrgentOldestFirst
<1>1. IQueue => DequeuesInOrder
  <2>. SUFFICES ASSUME IQueue
                PROVE  DequeuesInOrder
    OBVIOUS
  <2>1. dequeue_first => FirstLeaves(Waiting)
    BY FirstTakes
  <2>2. ASSUME NEW p \in Priorities, dequeue_by_priority(p)
        PROVE  FirstLeaves({x \in Waiting : x.priority = p})
    <3>1. {x \in Waiting : x.priority \in {p}} = {x \in Waiting : x.priority = p}
      OBVIOUS
    <3>. QED
      BY <2>2, <3>1, TakeTakes DEF dequeue_by_priority
  <2>3. ASSUME NEW p \in Priorities, dequeue_by_min_priority(p)
        PROVE  FirstLeaves({x \in Waiting : x.priority >= p})
    <3>1. ASSUME NEW x \in Waiting
          PROVE  x.priority \in Priorities
      <4>1. PICK i \in DOMAIN queue : x = queue[i]
        BY DEF Waiting
      <4>2. x \in Items
        BY <4>1, ElementOfSeq, LenProperties DEF IQueue
      <4>. QED
        BY <4>2 DEF Items
    <3>2. {x \in Waiting : x.priority \in {q \in Priorities : q >= p}}
            = {x \in Waiting : x.priority >= p}
      BY <3>1
    <3>. QED
      BY <2>3, <3>2, TakeTakes DEF dequeue_by_min_priority
  <2>. QED
    BY <2>1, <2>2, <2>3 DEF DequeuesInOrder
<1>. QED
  BY <1>1, QueueOrdered, PTL DEF MostUrgentOldestFirst
-----------------------------------------------------------------------------
(***************************************************************************)
(* The phone book, for any size and whatever is typed.                     *)
(***************************************************************************)
Contacts ==
  [is_active : BOOLEAN, surname : Names \cup {Blank}, name : Names \cup {Blank},
   phones : [1 .. MaxPhones -> Phones \cup {Blank}], phone_count : 0 .. MaxPhones]

IBook ==
  /\ phonebook \in [Places -> Contacts]
  /\ typed = [i \in DOMAIN typed |-> typed[i]]
  /\ Active = DOMAIN typed /\ total_contacts = Cardinality(Active)
  /\ \A i \in Active : Shown(i) = typed[i]

LEMMA ActiveFinite == Active \subseteq Places /\ IsFiniteSet(Active)
<1>1. IsFiniteSet(Places) /\ Active \subseteq Places
  BY BookAssumption, FS_Interval DEF BookAssumption, Places, Active
<1>. QED
  BY <1>1, FS_Subset

LEMMA LeastIn ==
  ASSUME NEW S, NEW i \in Least(S)
  PROVE  i \in S
BY DEF Least

\* Fewer contacts than places: one is free.
LEMMA RoomIsFree ==
  ASSUME IBook, total_contacts < MaxContacts
  PROVE  FreePlace # {}
<1>1. Cardinality(Places) = MaxContacts /\ IsFiniteSet(Places)
  BY BookAssumption, FS_Interval DEF BookAssumption, Places
<1>2. Places \ Active # {}
  <2>1. SUFFICES ASSUME Places \subseteq Active
                 PROVE  FALSE
    OBVIOUS
  <2>2. Active = Places
    BY <2>1, ActiveFinite
  <2>. QED
    BY <2>2, <1>1, BookAssumption DEF BookAssumption, IBook
<1>3. Places \ Active \subseteq Nat
  BY DEF Places
<1>4. \E i \in Places \ Active : \A j \in Places \ Active : i <= j
  BY <1>2, <1>3, LeastNumber
<1>. QED
  BY <1>4 DEF FreePlace, Least

LEMMA BookStarts == BookInit => IBook
<1>. SUFFICES ASSUME BookInit
              PROVE  IBook
  OBVIOUS
<1>1. Active = {} /\ DOMAIN typed = {} /\ typed = [i \in DOMAIN typed |-> typed[i]]
  BY DEF BookInit, Active
<1>2. phonebook \in [Places -> Contacts]
  BY BookAssumption DEF BookAssumption, BookInit, Contacts
<1>. QED
  BY <1>1, <1>2, FS_EmptySet DEF BookInit, IBook

LEMMA AddKeeps ==
  ASSUME IBook, NEW s \in Names, NEW n \in Names, NEW k \in 0 .. MaxPhones,
         NEW numbers \in [1 .. k -> Phones], add_contact(s, n, numbers)
  PROVE  IBook'
<1>0. k \in Nat /\ k <= MaxPhones /\ MaxPhones \in Nat
  BY BookAssumption DEF BookAssumption
<1>1. numbers \in Seq(Phones) /\ Len(numbers) = k
  <2>1. numbers \in Seq(Phones)
    BY <1>0, SeqDef
  <2>2. DOMAIN numbers = 1 .. k
    OBVIOUS
  <2>. QED
    BY <2>1, <2>2, <1>0, LenProperties
<1>. DEFINE new(i) ==
       [is_active |-> TRUE, surname |-> s, name |-> n,
        phones |-> [j \in 1 .. MaxPhones |->
                      IF j <= Len(numbers) THEN numbers[j] ELSE phonebook[i].phones[j]],
        phone_count |-> Len(numbers)]
<1>2. PICK i \in FreePlace :
        /\ phonebook' = [phonebook EXCEPT ![i] = new(i)]
        /\ typed' = [j \in DOMAIN typed \cup {i} |->
                       IF j = i THEN <<s, n, numbers>> ELSE typed[j]]
  BY DEF add_contact
<1>3. i \in Places /\ i \notin Active
  BY LeastIn DEF FreePlace
<1>4. new(i) \in Contacts
  <2>1. phonebook[i].phones \in [1 .. MaxPhones -> Phones \cup {Blank}]
    BY <1>3 DEF IBook, Contacts
  <2>2. [j \in 1 .. MaxPhones |->
           IF j <= Len(numbers) THEN numbers[j] ELSE phonebook[i].phones[j]]
          \in [1 .. MaxPhones -> Phones \cup {Blank}]
    BY <2>1, <1>0, <1>1
  <2>. QED
    BY <2>2, <1>0, <1>1 DEF Contacts
<1>5. \A j \in Places : phonebook'[j] = IF j = i THEN new(i) ELSE phonebook[j]
  BY <1>2 DEF IBook
<1>6. phonebook' \in [Places -> Contacts]
  BY <1>2, <1>3, <1>4 DEF IBook
<1>7. Active' = Active \cup {i}
  <2>1. new(i).is_active
    OBVIOUS
  <2>. HIDE DEF new
  <2>. QED
    BY <1>3, <1>5, <2>1 DEF Active
<1>8. total_contacts' = Cardinality(Active')
  BY <1>3, <1>7, ActiveFinite, FS_AddElement DEF IBook, add_contact
<1>9. Shown(i)' = <<s, n, numbers>>
  <2>1. /\ new(i).surname = s /\ new(i).name = n /\ new(i).phone_count = k
        /\ \A j \in 1 .. k : new(i).phones[j] = numbers[j]
    BY <1>0, <1>1
  <2>. HIDE DEF new
  <2>2. [j \in 1 .. k |-> new(i).phones[j]] = numbers
    BY <2>1
  <2>. QED
    BY <1>3, <1>5, <2>1, <2>2 DEF Shown
<1>. HIDE DEF new
<1>10. \A j \in Active : Shown(j)' = Shown(j)
  <2>1. \A j \in Active : phonebook'[j] = phonebook[j]
    BY <1>3, <1>5, ActiveFinite
  <2>. QED
    BY <2>1 DEF Shown
<1>11. /\ typed' = [j \in DOMAIN typed' |-> typed'[j]]
       /\ DOMAIN typed' = Active \cup {i}
       /\ typed'[i] = <<s, n, numbers>> /\ \A j \in Active : typed'[j] = typed[j]
  BY <1>2, <1>3 DEF IBook
<1>. QED
  BY <1>6, <1>7, <1>8, <1>9, <1>10, <1>11 DEF IBook

LEMMA EditKeeps ==
  ASSUME IBook, NEW s \in Names, NEW n \in Names, NEW new \in Names,
         edit_contact(s, n, new)
  PROVE  IBook'
<1>1. PICK i \in Found(s, n) :
        /\ phonebook' = [phonebook EXCEPT ![i].surname = new]
        /\ typed' = [typed EXCEPT ![i][1] = new]
        /\ UNCHANGED total_contacts
  BY DEF edit_contact
<1>2. i \in Active /\ i \in Places
  BY LeastIn, ActiveFinite DEF Found
<1>3. \A j \in Places :
        phonebook'[j] = IF j = i THEN [phonebook[i] EXCEPT !.surname = new] ELSE phonebook[j]
  BY <1>1 DEF IBook
<1>4. phonebook' \in [Places -> Contacts]
  BY <1>1, <1>2 DEF IBook, Contacts
<1>5. phonebook[i] \in Contacts
  BY <1>2 DEF IBook
<1>6. /\ phonebook'[i].is_active = phonebook[i].is_active /\ phonebook'[i].surname = new
      /\ phonebook'[i].name = phonebook[i].name /\ phonebook'[i].phones = phonebook[i].phones
      /\ phonebook'[i].phone_count = phonebook[i].phone_count
  BY <1>2, <1>3, <1>5 DEF Contacts
<1>7. Active' = Active
  BY <1>2, <1>3, <1>6 DEF Active
<1>8. \A j \in Active : j # i => Shown(j)' = Shown(j)
  BY <1>3, ActiveFinite DEF Shown
<1>9. Shown(i)' = <<new, Shown(i)[2], Shown(i)[3]>>
  BY <1>6 DEF Shown
<1>10. typed'[i] = [typed[i] EXCEPT ![1] = new] /\ DOMAIN typed' = DOMAIN typed
       /\ typed' = [j \in DOMAIN typed' |-> typed'[j]]
       /\ \A j \in Active : j # i => typed'[j] = typed[j]
  BY <1>1, <1>2 DEF IBook
<1>11. [typed[i] EXCEPT ![1] = new] = <<new, typed[i][2], typed[i][3]>>
  <2>1. typed[i] = <<phonebook[i].surname, phonebook[i].name,
                     [k \in 1 .. phonebook[i].phone_count |-> phonebook[i].phones[k]]>>
    BY <1>2 DEF IBook, Shown
  <2>2. \A a, b, c, d : [<<a, b, c>> EXCEPT ![1] = d] = <<d, b, c>>
    OBVIOUS
  <2>. QED
    BY <2>1, <2>2
<1>. QED
  BY <1>1, <1>2, <1>4, <1>7, <1>8, <1>9, <1>10, <1>11 DEF IBook

LEMMA DeleteContactKeeps ==
  ASSUME IBook, NEW s \in Names, NEW n \in Names, delete_contact(s, n)
  PROVE  IBook'
<1>1. PICK i \in Found(s, n) :
        /\ phonebook' = [phonebook EXCEPT ![i].is_active = FALSE]
        /\ total_contacts' = total_contacts - 1
        /\ typed' = [j \in DOMAIN typed \ {i} |-> typed[j]]
  BY DEF delete_contact
<1>2. i \in Active /\ i \in Places
  BY LeastIn, ActiveFinite DEF Found
<1>3. \A j \in Places :
        phonebook'[j] = IF j = i THEN [phonebook[i] EXCEPT !.is_active = FALSE]
                        ELSE phonebook[j]
  BY <1>1 DEF IBook
<1>4. phonebook' \in [Places -> Contacts]
  BY <1>1, <1>2 DEF IBook, Contacts
<1>5. ~phonebook'[i].is_active
  BY <1>2, <1>3 DEF IBook, Contacts
<1>6. Active' = Active \ {i}
  BY <1>2, <1>3, <1>5 DEF Active
<1>7. total_contacts' = Cardinality(Active')
  BY <1>1, <1>2, <1>6, ActiveFinite, FS_RemoveElement DEF IBook
<1>8. \A j \in Active \ {i} : Shown(j)' = Shown(j)
  BY <1>3, ActiveFinite DEF Shown
<1>. QED
  BY <1>1, <1>4, <1>6, <1>7, <1>8 DEF IBook

LEMMA BookStep == IBook /\ [BookNext]_bookVars => IBook'
<1>. SUFFICES ASSUME IBook, [BookNext]_bookVars
              PROVE  IBook'
  OBVIOUS
<1>1. ASSUME NEW s \in Names, NEW n \in Names, NEW k \in 0 .. MaxPhones,
             NEW numbers \in [1 .. k -> Phones], add_contact(s, n, numbers)
      PROVE  IBook'
  BY <1>1, AddKeeps
<1>2. ASSUME NEW s \in Names, NEW n \in Names, NEW new \in Names, edit_contact(s, n, new)
      PROVE  IBook'
  BY <1>2, EditKeeps
<1>3. ASSUME NEW s \in Names, NEW n \in Names, delete_contact(s, n)
      PROVE  IBook'
  BY <1>3, DeleteContactKeeps
<1>4. CASE UNCHANGED bookVars
  BY <1>4 DEF bookVars, IBook, Active, Shown
<1>. QED
  BY <1>1, <1>2, <1>3, <1>4 DEF BookNext

(***************************************************************************)
(* For any number of places and telephones, and whatever is typed, the     *)
(* book shows each contact as it was typed last, counts its contacts       *)
(* right, and has a free place whenever it says so.                        *)
(***************************************************************************)
THEOREM BookIsKept == BookSpec => []BookKept
<1>1. IBook => BookKept
  BY RoomIsFree DEF IBook, BookKept
<1>. QED
  BY <1>1, BookStarts, BookStep, PTL DEF BookSpec
-----------------------------------------------------------------------------
(***************************************************************************)
(* The AVL tree, for any finite set of contacts.  First what makes its     *)
(* recursive functions usable: TreeOf has the levels its definition says   *)
(* (LevelOfTrees), trees can be reasoned about by induction                *)
(* (TreeInduction), and functions defined by recursion over them exist     *)
(* (TreeRecursion), so that each of the module's functions equals its      *)
(* definition (NodesValues ... DeleteValues).  Then what balance() makes   *)
(* of a node out of level by two (Balances), and by induction what         *)
(* insertion and deletion make of a whole tree (InsertIsGood,              *)
(* DeleteIsGood).                                                          *)
(***************************************************************************)
NodesOver(S) == [data : TreeContacts, height : Nat, left : S, right : S]

\* The first n levels of a row of sets that is defined as TreeOf is.
LevelsTo(f, n) ==
  f = [k \in 0 .. n |-> IF k = 0 THEN {Nil} ELSE {Nil} \cup NodesOver(f[k - 1])]

LEMMA LevelValue ==
  ASSUME NEW f, NEW n \in Nat, LevelsTo(f, n), NEW k \in 0 .. n
  PROVE  /\ k = 0 => f[k] = {Nil}
         /\ k # 0 => f[k] = {Nil} \cup NodesOver(f[k - 1])
BY DEF LevelsTo

LEMMA LevelsAgree ==
  ASSUME NEW f, NEW g, NEW n \in Nat, NEW m \in Nat, LevelsTo(f, n), LevelsTo(g, m)
  PROVE  \A k \in Nat : k <= n /\ k <= m => f[k] = g[k]
<1> DEFINE S == {k \in Nat : k <= n /\ k <= m => f[k] = g[k]}
<1>1. 0 \in S
  BY DEF LevelsTo
<1>2. ASSUME NEW k \in Nat, k \in S PROVE k + 1 \in S
  <2> SUFFICES ASSUME k + 1 <= n, k + 1 <= m PROVE f[k + 1] = g[k + 1]
    OBVIOUS
  <2>1. f[k] = g[k] /\ k + 1 # 0 /\ (k + 1) - 1 = k
    BY <1>2
  <2>2. k + 1 \in 0 .. n /\ k + 1 \in 0 .. m
    OBVIOUS
  <2>3. f[k + 1] = {Nil} \cup NodesOver(f[k])
    BY <2>1, <2>2 DEF LevelsTo
  <2>4. g[k + 1] = {Nil} \cup NodesOver(g[k])
    BY <2>1, <2>2 DEF LevelsTo
  <2>. QED
    BY <2>1, <2>3, <2>4
<1> HIDE DEF S
<1>3. \A k \in Nat : k \in S
  BY <1>1, <1>2, SetInduction
<1>. QED
  BY <1>3 DEF S

LEMMA LevelsExist == \A n \in Nat : \E f : LevelsTo(f, n)
<1> DEFINE S == {n \in Nat : \E f : LevelsTo(f, n)}
<1>1. 0 \in S
  <2> DEFINE f == [k \in 0 .. 0 |-> {Nil}]
  <2>1. f = [k \in 0 .. 0 |-> IF k = 0 THEN {Nil} ELSE {Nil} \cup NodesOver(f[k - 1])]
    OBVIOUS
  <2>. QED
    BY <2>1 DEF LevelsTo
<1>2. ASSUME NEW n \in Nat, n \in S PROVE n + 1 \in S
  <2>1. PICK f : LevelsTo(f, n)
    BY <1>2
  <2> DEFINE g == [k \in 0 .. n + 1 |-> IF k <= n THEN f[k] ELSE {Nil} \cup NodesOver(f[n])]
  <2>2. ASSUME NEW k \in 0 .. n + 1
        PROVE  g[k] = IF k = 0 THEN {Nil} ELSE {Nil} \cup NodesOver(g[k - 1])
    <3>1. CASE k = 0
      BY <3>1, <2>1 DEF LevelsTo
    <3>2. CASE k # 0 /\ k <= n
      <4>1. k \in 0 .. n /\ k - 1 \in 0 .. n + 1 /\ k - 1 <= n
        BY <3>2
      <4>2. f[k] = {Nil} \cup NodesOver(f[k - 1])
        BY <4>1, <3>2, <2>1 DEF LevelsTo
      <4>3. g[k] = f[k] /\ g[k - 1] = f[k - 1]
        BY <4>1, <3>2
      <4>. QED
        BY <4>2, <4>3, <3>2
    <3>3. CASE k = n + 1
      <4>1. ~(k <= n) /\ k # 0 /\ k - 1 = n /\ n \in 0 .. n + 1 /\ n <= n
        BY <3>3
      <4>2. g[k] = {Nil} \cup NodesOver(f[n]) /\ g[n] = f[n]
        BY <4>1
      <4>. QED
        BY <4>1, <4>2
    <3>. QED
      BY <3>1, <3>2, <3>3
  <2>3. LevelsTo(g, n + 1)
    BY <2>2 DEF LevelsTo
  <2>. QED
    BY <2>3
<1> HIDE DEF S
<1>3. \A n \in Nat : n \in S
  BY <1>1, <1>2, SetInduction
<1>. QED
  BY <1>3 DEF S

IsTreeOf(f) ==
  f = [n \in Nat |-> IF n = 0 THEN {Nil}
                     ELSE LET lower == f[n - 1]
                          IN  {Nil} \cup
                [data : TreeContacts, height : Nat, left : lower, right : lower]]

LEMMA LevelOfTrees ==
  /\ TreeOf[0] = {Nil}
  /\ \A n \in Nat : TreeOf[n + 1] = {Nil} \cup NodesOver(TreeOf[n])
<1> DEFINE h == [n \in Nat |-> CHOOSE f : LevelsTo(f, n)]
           g == [n \in Nat |-> h[n][n]]
<1>1. \A n \in Nat : LevelsTo(h[n], n)
  BY LevelsExist
<1> HIDE DEF h
<1>2. ASSUME NEW n \in Nat, n # 0
      PROVE  g[n] = {Nil} \cup NodesOver(g[n - 1])
  <2>1. n - 1 \in Nat /\ n - 1 <= n /\ n - 1 <= n - 1 /\ n \in 0 .. n
    BY <1>2
  <2>3. LevelsTo(h[n], n) /\ LevelsTo(h[n - 1], n - 1)
    BY <1>1, <2>1
  <2>2. h[n][n] = {Nil} \cup NodesOver(h[n][n - 1])
    BY <2>3, <1>2, <2>1, LevelValue
  <2>4. h[n][n - 1] = h[n - 1][n - 1]
    BY <2>1, <2>3, LevelsAgree
  <2>5. g[n] = h[n][n] /\ g[n - 1] = h[n - 1][n - 1]
    BY <2>1
  <2>. QED
    BY <2>2, <2>4, <2>5
<1>3. g[0] = {Nil}
  <2>1. LevelsTo(h[0], 0) /\ 0 \in 0 .. 0 /\ 0 \in Nat
    BY <1>1
  <2>2. h[0][0] = {Nil}
    BY <2>1, LevelValue
  <2>. QED
    BY <2>1, <2>2
<1>4. IsTreeOf(g)
  <2>1. g = [n \in Nat |-> g[n]]
    OBVIOUS
  <2> HIDE DEF g
  <2>. QED
    BY <2>1, <1>2, <1>3 DEF IsTreeOf, NodesOver
<1>5. IsTreeOf(TreeOf)
  <2>1. TreeOf = CHOOSE f : IsTreeOf(f)
    BY DEF TreeOf, IsTreeOf
  <2>. QED
    BY <2>1, <1>4
<1>6. TreeOf[0] = {Nil}
  BY <1>5 DEF IsTreeOf
<1>7. ASSUME NEW n \in Nat
      PROVE  TreeOf[n + 1] = {Nil} \cup NodesOver(TreeOf[n])
  <2>1. n + 1 \in Nat /\ n + 1 # 0 /\ (n + 1) - 1 = n
    OBVIOUS
  <2>. QED
    BY <1>5, <2>1 DEF IsTreeOf, NodesOver
<1>. QED
  BY <1>6, <1>7
-----------------------------------------------------------------------------
Levels == Cardinality(TreeContacts)

LEMMA LevelsCount == Levels \in Nat /\ Trees = TreeOf[Levels]
<1>1. IsFiniteSet(TreeContacts)
  BY TreeAssumption
<1>. QED
  BY <1>1, FS_CardinalityType DEF Levels, Trees

\* A null pointer is not a node.
LEMMA NilIsNoNode == ASSUME NEW S PROVE Nil \notin NodesOver(S)
BY DEF Nil, NodesOver

\* A tree with more levels allowed is still a tree.
LEMMA TreesGrow ==
  ASSUME NEW n \in Nat, NEW m \in Nat, m <= n
  PROVE  TreeOf[m] \subseteq TreeOf[n]
<1> DEFINE S == {k \in Nat : TreeOf[k] \subseteq TreeOf[k + 1]}
           T == {k \in Nat : TreeOf[m] \subseteq TreeOf[m + k]}
<1>1. 0 \in S
  BY LevelOfTrees
<1>2. ASSUME NEW k \in Nat, k \in S PROVE k + 1 \in S
  <2>1. TreeOf[k] \subseteq TreeOf[k + 1]
    BY <1>2
  <2>2. NodesOver(TreeOf[k]) \subseteq NodesOver(TreeOf[k + 1])
    BY <2>1 DEF NodesOver
  <2>. QED
    BY <2>2, LevelOfTrees
<1> HIDE DEF S
<1>3. \A k \in Nat : k \in S
  BY <1>1, <1>2, SetInduction
<1>4. 0 \in T
  OBVIOUS
<1>5. ASSUME NEW k \in Nat, k \in T PROVE k + 1 \in T
  <2>1. m + k \in Nat /\ (m + k) + 1 = m + (k + 1)
    OBVIOUS
  <2>2. TreeOf[m + k] \subseteq TreeOf[(m + k) + 1]
    BY <1>3, <2>1 DEF S
  <2>. QED
    BY <1>5, <2>1, <2>2
<1> HIDE DEF T
<1>6. \A k \in Nat : k \in T
  BY <1>4, <1>5, SetInduction
<1>7. n - m \in Nat /\ m + (n - m) = n
  OBVIOUS
<1>. QED
  BY <1>6, <1>7 DEF T

\* What hangs on a node has fewer levels.
LEMMA TreeParts ==
  ASSUME NEW n \in Nat, NEW t \in TreeOf[n], t # Nil
  PROVE  /\ n - 1 \in Nat
         /\ t \in NodesOver(TreeOf[n - 1])
         /\ t.data \in TreeContacts /\ t.height \in Nat
         /\ t.left \in TreeOf[n - 1] /\ t.right \in TreeOf[n - 1]
<1>1. n # 0
  BY LevelOfTrees
<1>2. n - 1 \in Nat /\ (n - 1) + 1 = n
  BY <1>1
<1>3. TreeOf[n] = {Nil} \cup NodesOver(TreeOf[n - 1])
  BY <1>2, LevelOfTrees
<1>4. t \in NodesOver(TreeOf[n - 1])
  BY <1>3
<1>. QED
  BY <1>2, <1>4 DEF NodesOver

LEMMA NilIsTree == Nil \in Trees /\ \A n \in Nat : Nil \in TreeOf[n]
<1>1. \A n \in Nat : Nil \in TreeOf[n]
  <2> TAKE n \in Nat
  <2>1. 0 \in Nat /\ 0 <= n
    OBVIOUS
  <2>2. TreeOf[0] \subseteq TreeOf[n]
    BY <2>1, TreesGrow
  <2>. QED
    BY <2>2, LevelOfTrees
<1>. QED
  BY <1>1, LevelsCount

\* What hangs on a node of a tree is a tree.
LEMMA NodeParts ==
  ASSUME NEW t \in Trees, t # Nil
  PROVE  /\ t \in NodesOver(Trees)
         /\ t.data \in TreeContacts /\ t.height \in Nat
         /\ t.left \in Trees /\ t.right \in Trees
<1>1. Levels \in Nat /\ Levels - 1 \in Nat /\ Levels - 1 <= Levels
  BY LevelsCount, TreeParts
<1>2. t \in NodesOver(TreeOf[Levels - 1]) /\ t.data \in TreeContacts /\ t.height \in Nat
  BY LevelsCount, TreeParts
<1>3. TreeOf[Levels - 1] \subseteq Trees
  BY <1>1, TreesGrow, LevelsCount
<1>. QED
  BY <1>2, <1>3 DEF NodesOver

\* Induction over trees: what holds of the null pointer, and of each node when
\* it holds of what hangs on it, holds of every tree.
LEMMA TreeInduction ==
  ASSUME NEW S, Nil \in S,
         \A t \in Trees : t # Nil /\ t.left \in S /\ t.right \in S => t \in S
  PROVE  \A t \in Trees : t \in S
<1> DEFINE T == {k \in Nat : k <= Levels => TreeOf[k] \subseteq S}
<1>1. 0 \in T
  BY LevelOfTrees
<1>2. ASSUME NEW k \in Nat, k \in T PROVE k + 1 \in T
  <2> SUFFICES ASSUME k + 1 <= Levels, NEW t \in TreeOf[k + 1], t # Nil PROVE t \in S
    OBVIOUS
  <2>1. k <= Levels /\ k + 1 \in Nat /\ (k + 1) - 1 = k
    BY LevelsCount
  <2>2. TreeOf[k] \subseteq S
    BY <1>2, <2>1
  <2>3. t.left \in TreeOf[k] /\ t.right \in TreeOf[k]
    BY <2>1, TreeParts
  <2>4. t \in Trees
    BY <2>1, TreesGrow, LevelsCount
  <2>. QED
    BY <2>2, <2>3, <2>4
<1> HIDE DEF T
<1>3. \A k \in Nat : k \in T
  BY <1>1, <1>2, SetInduction
<1>4. Levels \in T
  BY <1>3, LevelsCount
<1>. QED
  BY <1>4, LevelsCount DEF T

\* Recursion over trees: there is a function of trees with a given value for
\* the null pointer and a given way from the values of the subtrees to that of
\* the node.
IsRecursive(f, X, base, g) ==
  \A t \in X : f[t] = IF t = Nil THEN base ELSE g[<<t, f[t.left], f[t.right]>>]

LEMMA TreeRecursion ==
  ASSUME NEW V, NEW base \in V, NEW g \in [(Trees \ {Nil}) \X V \X V -> V]
  PROVE  \E f \in [Trees -> V] : IsRecursive(f, Trees, base, g)
<1> DEFINE T == {k \in Nat : k <= Levels =>
                   \E f \in [TreeOf[k] -> V] : IsRecursive(f, TreeOf[k], base, g)}
<1>1. 0 \in T
  <2> DEFINE f == [t \in TreeOf[0] |-> base]
  <2>1. f \in [TreeOf[0] -> V]
    OBVIOUS
  <2>2. IsRecursive(f, TreeOf[0], base, g)
    BY LevelOfTrees DEF IsRecursive
  <2>. QED
    BY <2>1, <2>2
<1>2. ASSUME NEW k \in Nat, k \in T PROVE k + 1 \in T
  <2> SUFFICES ASSUME k + 1 <= Levels
               PROVE  \E f \in [TreeOf[k + 1] -> V] : IsRecursive(f, TreeOf[k + 1], base, g)
    OBVIOUS
  <2>1. k <= Levels /\ k + 1 \in Nat /\ (k + 1) - 1 = k /\ k <= k + 1
    BY LevelsCount
  <2>2. PICK f \in [TreeOf[k] -> V] : IsRecursive(f, TreeOf[k], base, g)
    BY <1>2, <2>1
  <2> DEFINE h == [t \in TreeOf[k + 1] |->
                     IF t = Nil THEN base ELSE g[<<t, f[t.left], f[t.right]>>]]
  <2>3. \A t \in TreeOf[k + 1] : t # Nil => t.left \in TreeOf[k] /\ t.right \in TreeOf[k]
    BY <2>1, TreeParts
  <2>4. TreeOf[k + 1] \subseteq Trees /\ TreeOf[k] \subseteq TreeOf[k + 1]
    BY <2>1, TreesGrow, LevelsCount
  <2>5. h \in [TreeOf[k + 1] -> V]
    <3> SUFFICES ASSUME NEW t \in TreeOf[k + 1], t # Nil
                 PROVE  g[<<t, f[t.left], f[t.right]>>] \in V
      OBVIOUS
    <3>1. t \in Trees /\ f[t.left] \in V /\ f[t.right] \in V
      BY <2>3, <2>4
    <3>. QED
      BY <3>1
  <2>6. \A t \in TreeOf[k] : h[t] = f[t]
    BY <2>2, <2>4 DEF IsRecursive
  <2>7. IsRecursive(h, TreeOf[k + 1], base, g)
    <3> SUFFICES ASSUME NEW t \in TreeOf[k + 1], t # Nil
                 PROVE  h[t] = g[<<t, h[t.left], h[t.right]>>]
      BY DEF IsRecursive
    <3>1. h[t] = g[<<t, f[t.left], f[t.right]>>]
      OBVIOUS
    <3>2. h[t.left] = f[t.left] /\ h[t.right] = f[t.right]
      BY <2>3, <2>6
    <3>. QED
      BY <3>1, <3>2
  <2> HIDE DEF h
  <2>. QED
    BY <2>5, <2>7
<1> HIDE DEF T
<1>3. \A k \in Nat : k \in T
  BY <1>1, <1>2, SetInduction
<1>4. Levels \in T
  BY <1>3, LevelsCount
<1>. QED
  BY <1>4, LevelsCount DEF T

\* The values of a function of trees are in V when each is as soon as those of
\* the subtrees are.
LEMMA ValuesIn ==
  ASSUME NEW V, NEW f, f[Nil] \in V,
         \A t \in Trees : t # Nil /\ f[t.left] \in V /\ f[t.right] \in V => f[t] \in V
  PROVE  \A t \in Trees : f[t] \in V
<1> DEFINE S == {t \in Trees : f[t] \in V}
<1>1. Nil \in S
  BY NilIsTree
<1>2. ASSUME NEW t \in Trees, t # Nil, t.left \in S, t.right \in S PROVE t \in S
  BY <1>2
<1> HIDE DEF S
<1>3. \A t \in Trees : t \in S
  BY <1>1, <1>2, TreeInduction
<1>. QED
  BY <1>3 DEF S
-----------------------------------------------------------------------------
\* All trees, of any number of levels: what the rotations make of one is one.
AllTrees == UNION {TreeOf[n] : n \in Nat}

LEMMA AllTreesClosed ==
  /\ Nil \in AllTrees /\ Trees \subseteq AllTrees
  /\ NodesOver(AllTrees) \subseteq AllTrees
  /\ \A t \in AllTrees : t # Nil => t \in NodesOver(AllTrees)
<1>1. Nil \in AllTrees
  BY NilIsTree DEF AllTrees
<1>2. Trees \subseteq AllTrees
  BY LevelsCount DEF AllTrees
<1>3. ASSUME NEW t \in NodesOver(AllTrees) PROVE t \in AllTrees
  <2>1. t.left \in AllTrees /\ t.right \in AllTrees
    BY <1>3 DEF NodesOver
  <2>2. PICK n \in Nat : t.left \in TreeOf[n]
    BY <2>1 DEF AllTrees
  <2>3. PICK m \in Nat : t.right \in TreeOf[m]
    BY <2>1 DEF AllTrees
  <2>4. n + m \in Nat /\ n <= n + m /\ m <= n + m /\ n + m + 1 \in Nat
    OBVIOUS
  <2>5. t.left \in TreeOf[n + m] /\ t.right \in TreeOf[n + m]
    BY <2>2, <2>3, <2>4, TreesGrow
  <2>6. t \in NodesOver(TreeOf[n + m])
    BY <1>3, <2>5 DEF NodesOver
  <2>7. t \in TreeOf[n + m + 1]
    BY <2>4, <2>6, LevelOfTrees
  <2>. QED
    BY <2>4, <2>7 DEF AllTrees
<1>4. ASSUME NEW t \in AllTrees, t # Nil PROVE t \in NodesOver(AllTrees)
  <2>1. PICK n \in Nat : t \in TreeOf[n]
    BY DEF AllTrees
  <2>2. n - 1 \in Nat /\ t \in NodesOver(TreeOf[n - 1])
    BY <1>4, <2>1, TreeParts
  <2>3. TreeOf[n - 1] \subseteq AllTrees
    BY <2>2 DEF AllTrees
  <2>. QED
    BY <2>2, <2>3 DEF NodesOver
<1>. QED
  BY <1>1, <1>2, <1>3, <1>4

\* The parts of a node.
LEMMA AllParts ==
  ASSUME NEW n \in NodesOver(AllTrees)
  PROVE  /\ n.data \in TreeContacts /\ n.height \in Nat
         /\ n.left \in AllTrees /\ n.right \in AllTrees
         /\ n # Nil /\ n \in AllTrees
BY NilIsNoNode, AllTreesClosed DEF NodesOver

LEMMA HeightIsNat ==
  /\ \A t \in AllTrees : t.height \in Nat
  /\ \A t \in AllTrees : t.height > 0 => t \in NodesOver(AllTrees)
  /\ Nil.height = 0
<1>1. Nil.height = 0
  BY DEF Nil
<1>2. \A t \in AllTrees : t # Nil => t.height \in Nat
  BY AllTreesClosed, AllParts
<1>. QED
  BY <1>1, <1>2, AllTreesClosed

\* The node of d with l and r on it, measured.
Join(d, l, r) ==
  [data |-> d, left |-> l, right |-> r, height |-> Taller(l.height, r.height) + 1]

LEMMA JoinParts ==
  ASSUME NEW d \in TreeContacts, NEW l \in AllTrees, NEW r \in AllTrees
  PROVE  /\ Join(d, l, r) \in NodesOver(AllTrees)
         /\ Join(d, l, r).data = d
         /\ Join(d, l, r).left = l /\ Join(d, l, r).right = r
         /\ Join(d, l, r).height = Taller(l.height, r.height) + 1
         /\ Join(d, l, r).height \in Nat
<1>1. Taller(l.height, r.height) + 1 \in Nat
  BY HeightIsNat DEF Taller
<1>. QED
  BY <1>1 DEF Join, NodesOver

LEMMA MeasuredJoin ==
  ASSUME NEW n \in NodesOver(AllTrees)
  PROVE  Measured(n) = Join(n.data, n.left, n.right)
BY DEF Measured, Join, NodesOver

LEMMA SetLeft ==
  ASSUME NEW n \in NodesOver(AllTrees), NEW t \in AllTrees
  PROVE  /\ [n EXCEPT !.left = t] \in NodesOver(AllTrees)
         /\ [n EXCEPT !.left = t].data = n.data
         /\ [n EXCEPT !.left = t].left = t
         /\ [n EXCEPT !.left = t].right = n.right
BY DEF NodesOver

LEMMA MeasuredLeft ==
  ASSUME NEW n \in NodesOver(AllTrees), NEW t \in AllTrees
  PROVE  Measured([n EXCEPT !.left = t]) = Join(n.data, t, n.right)
<1>1. PICK m : m = [n EXCEPT !.left = t]
  OBVIOUS
<1>2. /\ m \in NodesOver(AllTrees) /\ m.data = n.data
      /\ m.left = t /\ m.right = n.right
  BY <1>1, SetLeft
<1>3. Measured(m) = Join(m.data, m.left, m.right)
  BY <1>2, MeasuredJoin
<1>. QED
  BY <1>1, <1>2, <1>3

LEMMA SetRight ==
  ASSUME NEW n \in NodesOver(AllTrees), NEW t \in AllTrees
  PROVE  /\ [n EXCEPT !.right = t] \in NodesOver(AllTrees)
         /\ [n EXCEPT !.right = t].data = n.data
         /\ [n EXCEPT !.right = t].left = n.left
         /\ [n EXCEPT !.right = t].right = t
BY DEF NodesOver

LEMMA MeasuredRight ==
  ASSUME NEW n \in NodesOver(AllTrees), NEW t \in AllTrees
  PROVE  Measured([n EXCEPT !.right = t]) = Join(n.data, n.left, t)
<1>1. PICK m : m = [n EXCEPT !.right = t]
  OBVIOUS
<1>2. /\ m \in NodesOver(AllTrees) /\ m.data = n.data
      /\ m.left = n.left /\ m.right = t
  BY <1>1, SetRight
<1>3. Measured(m) = Join(m.data, m.left, m.right)
  BY <1>2, MeasuredJoin
<1>. QED
  BY <1>1, <1>2, <1>3

LEMMA RotatedRight ==
  ASSUME NEW y \in NodesOver(AllTrees), y.left # Nil
  PROVE  rotate_right(y) =
           Join(y.left.data, y.left.left, Join(y.data, y.left.right, y.right))
<1> DEFINE lower == Measured([y EXCEPT !.left = y.left.right])
<1>1. y.left \in NodesOver(AllTrees) /\ y.data \in TreeContacts /\ y.right \in AllTrees
  BY AllParts, AllTreesClosed
<1>2. y.left.right \in AllTrees /\ y.left.left \in AllTrees
  BY <1>1, AllParts
<1>3. lower = Join(y.data, y.left.right, y.right)
  <2>1. \A t \in AllTrees : Measured([y EXCEPT !.left = t]) = Join(y.data, t, y.right)
    BY MeasuredLeft
  <2>. QED
    BY SMTT(30), <1>2, <2>1
<1>4. lower \in AllTrees
  BY <1>1, <1>2, <1>3, JoinParts, AllParts
<1> HIDE DEF lower
<1>5. Measured([y.left EXCEPT !.right = lower]) = Join(y.left.data, y.left.left, lower)
  BY <1>1, <1>4, MeasuredRight
<1>. QED
  BY <1>3, <1>5 DEF rotate_right, lower

LEMMA RotatedLeft ==
  ASSUME NEW x \in NodesOver(AllTrees), x.right # Nil
  PROVE  rotate_left(x) =
           Join(x.right.data, Join(x.data, x.left, x.right.left), x.right.right)
<1> DEFINE lower == Measured([x EXCEPT !.right = x.right.left])
<1>1. x.right \in NodesOver(AllTrees) /\ x.data \in TreeContacts /\ x.left \in AllTrees
  BY AllParts, AllTreesClosed
<1>2. x.right.left \in AllTrees /\ x.right.right \in AllTrees
  BY <1>1, AllParts
<1>3. lower = Join(x.data, x.left, x.right.left)
  <2>1. \A t \in AllTrees : Measured([x EXCEPT !.right = t]) = Join(x.data, x.left, t)
    BY MeasuredRight
  <2>. QED
    BY SMTT(30), <1>2, <2>1
<1>4. lower \in AllTrees
  BY <1>1, <1>2, <1>3, JoinParts, AllParts
<1> HIDE DEF lower
<1>5. Measured([x.right EXCEPT !.left = lower]) = Join(x.right.data, lower, x.right.right)
  BY <1>1, <1>4, MeasuredLeft
<1>. QED
  BY <1>3, <1>5 DEF rotate_left, lower

\* What balance() makes of a node, by the heights of what hangs on it.
LEMMA BalanceCases ==
  ASSUME NEW n \in NodesOver(AllTrees)
  PROVE  LET l == n.left
             r == n.right
         IN  /\ (l.height <= r.height + 1 /\ r.height <= l.height + 1)
                => balance(n) = Join(n.data, l, r)
             /\ l.height > r.height + 1
                => /\ l \in NodesOver(AllTrees)
                   /\ l.left.height >= l.right.height
                      => balance(n) = Join(l.data, l.left, Join(n.data, l.right, r))
                   /\ l.left.height < l.right.height
                      => /\ l.right \in NodesOver(AllTrees)
                         /\ balance(n) = Join(l.right.data,
                                              Join(l.data, l.left, l.right.left),
                                              Join(n.data, l.right.right, r))
             /\ r.height > l.height + 1
                => /\ r \in NodesOver(AllTrees)
                   /\ r.right.height >= r.left.height
                      => balance(n) = Join(r.data, Join(n.data, l, r.left), r.right)
                   /\ r.right.height < r.left.height
                      => /\ r.left \in NodesOver(AllTrees)
                         /\ balance(n) = Join(r.left.data,
                                              Join(n.data, l, r.left.left),
                                              Join(r.data, r.left.right, r.right))
<1> DEFINE l == n.left
           r == n.right
<1>1. PICK m : m = Measured(n)
  OBVIOUS
<1>2. /\ n.data \in TreeContacts /\ l \in AllTrees /\ r \in AllTrees
      /\ l.height \in Nat /\ r.height \in Nat
  BY AllParts, HeightIsNat
<1>3. m = Join(n.data, l, r)
  BY <1>1, MeasuredJoin
<1>4. /\ m \in NodesOver(AllTrees) /\ m.data = n.data
      /\ m.left = l /\ m.right = r
  BY <1>2, <1>3, JoinParts
<1>5. balance(n) =
        IF m.left.height - m.right.height > 1 THEN
          rotate_right(IF m.left.left.height >= m.left.right.height THEN m
                       ELSE [m EXCEPT !.left = rotate_left(m.left)])
        ELSE IF m.left.height - m.right.height < -1 THEN
          rotate_left(IF m.right.right.height >= m.right.left.height THEN m
                      ELSE [m EXCEPT !.right = rotate_right(m.right)])
        ELSE m
  BY <1>1 DEF balance
<1> HIDE DEF l, r
<1>6. CASE l.height <= r.height + 1 /\ r.height <= l.height + 1
  <2>1. ~(l.height - r.height > 1) /\ ~(l.height - r.height < -1)
    BY <1>2, <1>6
  <2>2. balance(n) = m
    BY <1>4, <1>5, <2>1
  <2>. QED
    BY <1>2, <1>3, <1>6, <2>2 DEF l, r
<1>7. CASE l.height > r.height + 1
  <2>1. l.height - r.height > 1 /\ l.height > 0 /\ ~(r.height > l.height + 1)
        /\ ~(l.height <= r.height + 1)
    BY <1>2, <1>7
  <2>2. l \in NodesOver(AllTrees) /\ l # Nil
    BY <1>2, <2>1, HeightIsNat, AllParts
  <2>3. /\ l.left \in AllTrees /\ l.right \in AllTrees /\ l.data \in TreeContacts
        /\ l.left.height \in Nat /\ l.right.height \in Nat
    BY <2>2, AllParts, HeightIsNat
  <2>4. ASSUME l.left.height >= l.right.height
        PROVE  balance(n) = Join(l.data, l.left, Join(n.data, l.right, r))
    <3>1. balance(n) = rotate_right(m)
      BY <1>4, <1>5, <2>1, <2>4
    <3>. QED
      BY <3>1, <1>4, <2>2, RotatedRight
  <2>5. ASSUME l.left.height < l.right.height
        PROVE  /\ l.right \in NodesOver(AllTrees)
               /\ balance(n) = Join(l.right.data,
                                    Join(l.data, l.left, l.right.left),
                                    Join(n.data, l.right.right, r))
    <3>1. ~(l.left.height >= l.right.height) /\ l.right.height > 0
      BY <2>3, <2>5
    <3>2. l.right \in NodesOver(AllTrees) /\ l.right # Nil
      BY <2>3, <3>1, HeightIsNat, AllParts
    <3>3. PICK k : k = rotate_left(l)
      OBVIOUS
    <3>4. balance(n) = rotate_right([m EXCEPT !.left = k])
      BY <1>4, <1>5, <2>1, <3>1, <3>3
    <3>5. k = Join(l.right.data, Join(l.data, l.left, l.right.left), l.right.right)
      BY <2>2, <3>2, <3>3, RotatedLeft
    <3>6. /\ l.right.data \in TreeContacts
          /\ l.right.left \in AllTrees /\ l.right.right \in AllTrees
      BY <3>2, AllParts
    <3>7. Join(l.data, l.left, l.right.left) \in AllTrees
      BY <2>3, <3>6, JoinParts, AllParts
    <3>8. /\ k \in NodesOver(AllTrees) /\ k # Nil /\ k \in AllTrees
          /\ k.data = l.right.data /\ k.right = l.right.right
          /\ k.left = Join(l.data, l.left, l.right.left)
      <4>1. /\ k \in NodesOver(AllTrees)
            /\ k.data = l.right.data /\ k.right = l.right.right
            /\ k.left = Join(l.data, l.left, l.right.left)
        BY <3>5, <3>6, <3>7, JoinParts
      <4>. QED
        BY <4>1, AllParts
    <3>9. PICK y : y = [m EXCEPT !.left = k]
      OBVIOUS
    <3>10. /\ y \in NodesOver(AllTrees) /\ y.data = n.data
           /\ y.left = k /\ y.right = r
      BY <1>4, <3>8, <3>9, SetLeft
    <3>11. balance(n) = Join(k.data, k.left, Join(n.data, k.right, r))
      BY <3>4, <3>8, <3>9, <3>10, RotatedRight
    <3>. QED
      BY <3>2, <3>8, <3>11
  <2>. QED
    BY <2>1, <2>2, <2>4, <2>5 DEF l, r
<1>8. CASE r.height > l.height + 1
  <2>1. ~(l.height - r.height > 1) /\ l.height - r.height < -1 /\ r.height > 0
        /\ ~(l.height > r.height + 1) /\ ~(r.height <= l.height + 1)
    BY <1>2, <1>8
  <2>2. r \in NodesOver(AllTrees) /\ r # Nil
    BY <1>2, <2>1, HeightIsNat, AllParts
  <2>3. /\ r.left \in AllTrees /\ r.right \in AllTrees /\ r.data \in TreeContacts
        /\ r.left.height \in Nat /\ r.right.height \in Nat
    BY <2>2, AllParts, HeightIsNat
  <2>4. ASSUME r.right.height >= r.left.height
        PROVE  balance(n) = Join(r.data, Join(n.data, l, r.left), r.right)
    <3>1. balance(n) = rotate_left(m)
      BY <1>4, <1>5, <2>1, <2>4
    <3>. QED
      BY <3>1, <1>4, <2>2, RotatedLeft
  <2>5. ASSUME r.right.height < r.left.height
        PROVE  /\ r.left \in NodesOver(AllTrees)
               /\ balance(n) = Join(r.left.data,
                                    Join(n.data, l, r.left.left),
                                    Join(r.data, r.left.right, r.right))
    <3>1. ~(r.right.height >= r.left.height) /\ r.left.height > 0
      BY <2>3, <2>5
    <3>2. r.left \in NodesOver(AllTrees) /\ r.left # Nil
      BY <2>3, <3>1, HeightIsNat, AllParts
    <3>3. PICK k : k = rotate_right(r)
      OBVIOUS
    <3>4. balance(n) = rotate_left([m EXCEPT !.right = k])
      BY <1>4, <1>5, <2>1, <3>1, <3>3
    <3>5. k = Join(r.left.data, r.left.left, Join(r.data, r.left.right, r.right))
      BY <2>2, <3>2, <3>3, RotatedRight
    <3>6. /\ r.left.data \in TreeContacts
          /\ r.left.left \in AllTrees /\ r.left.right \in AllTrees
      BY <3>2, AllParts
    <3>7. Join(r.data, r.left.right, r.right) \in AllTrees
      BY <2>3, <3>6, JoinParts, AllParts
    <3>8. /\ k \in NodesOver(AllTrees) /\ k # Nil /\ k \in AllTrees
          /\ k.data = r.left.data /\ k.left = r.left.left
          /\ k.right = Join(r.data, r.left.right, r.right)
      <4>1. /\ k \in NodesOver(AllTrees)
            /\ k.data = r.left.data /\ k.left = r.left.left
            /\ k.right = Join(r.data, r.left.right, r.right)
        BY <3>5, <3>6, <3>7, JoinParts
      <4>. QED
        BY <4>1, AllParts
    <3>9. PICK y : y = [m EXCEPT !.right = k]
      OBVIOUS
    <3>10. /\ y \in NodesOver(AllTrees) /\ y.data = n.data
           /\ y.left = l /\ y.right = k
      BY <1>4, <3>8, <3>9, SetRight
    <3>11. balance(n) = Join(k.data, Join(n.data, l, k.left), k.right)
      BY <3>4, <3>8, <3>9, <3>10, RotatedLeft
    <3>. QED
      BY <3>2, <3>8, <3>11
  <2>. QED
    BY <2>1, <2>2, <2>4, <2>5 DEF l, r
<1>9. \/ l.height <= r.height + 1 /\ r.height <= l.height + 1
      \/ l.height > r.height + 1 \/ r.height > l.height + 1
  BY <1>2
<1>. QED
  BY <1>6, <1>7, <1>8, <1>9 DEF l, r

LEMMA BalanceType ==
  ASSUME NEW n \in NodesOver(AllTrees)
  PROVE  balance(n) \in AllTrees
<1> DEFINE l == n.left
           r == n.right
<1>1. /\ n.data \in TreeContacts /\ l \in AllTrees /\ r \in AllTrees
      /\ l.height \in Nat /\ r.height \in Nat
  BY AllParts, HeightIsNat
<1>2. \A d \in TreeContacts : \A a, b \in AllTrees : Join(d, a, b) \in AllTrees
  BY JoinParts, AllParts
<1>3. \A a \in NodesOver(AllTrees) :
        /\ a.data \in TreeContacts /\ a.left \in AllTrees /\ a.right \in AllTrees
        /\ a.left.height \in Nat /\ a.right.height \in Nat
  BY AllParts, HeightIsNat
<1> HIDE DEF l, r
<1>4. CASE l.height <= r.height + 1 /\ r.height <= l.height + 1
  BY <1>1, <1>2, <1>4, BalanceCases DEF l, r
<1>5. CASE l.height > r.height + 1
  <2>1. l \in NodesOver(AllTrees)
    BY <1>5, BalanceCases DEF l, r
  <2>2. CASE l.left.height >= l.right.height
    <3>1. balance(n) = Join(l.data, l.left, Join(n.data, l.right, r))
      BY <1>5, <2>2, BalanceCases DEF l, r
    <3>. QED
      BY <3>1, <2>1, <1>1, <1>2, <1>3
  <2>3. CASE l.left.height < l.right.height
    <3>1. /\ l.right \in NodesOver(AllTrees)
          /\ balance(n) = Join(l.right.data, Join(l.data, l.left, l.right.left),
                               Join(n.data, l.right.right, r))
      BY <1>5, <2>3, BalanceCases DEF l, r
    <3>. QED
      BY <3>1, <2>1, <1>1, <1>2, <1>3
  <2>. QED
    BY <2>1, <2>2, <2>3, <1>3
<1>6. CASE r.height > l.height + 1
  <2>1. r \in NodesOver(AllTrees)
    BY <1>6, BalanceCases DEF l, r
  <2>2. CASE r.right.height >= r.left.height
    <3>1. balance(n) = Join(r.data, Join(n.data, l, r.left), r.right)
      BY <1>6, <2>2, BalanceCases DEF l, r
    <3>. QED
      BY <3>1, <2>1, <1>1, <1>2, <1>3
  <2>3. CASE r.right.height < r.left.height
    <3>1. /\ r.left \in NodesOver(AllTrees)
          /\ balance(n) = Join(r.left.data, Join(n.data, l, r.left.left),
                               Join(r.data, r.left.right, r.right))
      BY <1>6, <2>3, BalanceCases DEF l, r
    <3>. QED
      BY <3>1, <2>1, <1>1, <1>2, <1>3
  <2>. QED
    BY <2>1, <2>2, <2>3, <1>3
<1>7. \/ l.height <= r.height + 1 /\ r.height <= l.height + 1
      \/ l.height > r.height + 1 \/ r.height > l.height + 1
  BY <1>1
<1>. QED
  BY <1>4, <1>5, <1>6, <1>7
-----------------------------------------------------------------------------
(***************************************************************************)
(* The recursive functions of the module are what their definitions say.   *)
(***************************************************************************)
NodesBody(f, t) == IF t = Nil THEN {} ELSE {t} \cup f[t.left] \cup f[t.right]

LEMMA NodesValues ==
  /\ \A t \in Trees : nodes[t] \subseteq Trees
  /\ nodes[Nil] = {}
  /\ \A t \in Trees : t # Nil => nodes[t] = {t} \cup nodes[t.left] \cup nodes[t.right]
<1> DEFINE V == SUBSET Trees
           g == [p \in (Trees \ {Nil}) \X V \X V |-> {p[1]} \cup p[2] \cup p[3]]
           Is(f) == f = [t \in Trees |-> NodesBody(f, t)]
<1>1. g \in [(Trees \ {Nil}) \X V \X V -> V] /\ {} \in V
  OBVIOUS
<1>2. \A t \in Trees \ {Nil} : \A a, b \in V : g[<<t, a, b>>] = {t} \cup a \cup b
  OBVIOUS
<1> HIDE DEF g, V
<1>3. PICK f \in [Trees -> V] : IsRecursive(f, Trees, {}, g)
  BY <1>1, TreeRecursion
<1>4. Is(f)
  <2>1. ASSUME NEW t \in Trees, t # Nil PROVE f[t] = {t} \cup f[t.left] \cup f[t.right]
    <3>1. t \in Trees \ {Nil} /\ f[t.left] \in V /\ f[t.right] \in V
      BY <2>1, NodeParts
    <3>2. f[t] = g[<<t, f[t.left], f[t.right]>>]
      BY <2>1, <1>3 DEF IsRecursive
    <3>. QED
      BY <3>1, <3>2, <1>2
  <2>2. f = [t \in Trees |-> f[t]]
    OBVIOUS
  <2>. QED
    BY <2>1, <2>2, <1>3, NilIsTree DEF IsRecursive, NodesBody
<1>5. Is(nodes)
  <2>1. nodes = CHOOSE h : Is(h)
    BY DEF nodes, NodesBody
  <2> HIDE DEF Is
  <2>. QED
    BY <2>1, <1>4
<1>6. \A t \in Trees : nodes[t] = NodesBody(nodes, t)
  BY <1>5
<1>7. \A t \in Trees : nodes[t] \in V
  <2>1. nodes[Nil] \in V
    BY <1>6, NilIsTree DEF NodesBody, V
  <2>2. \A t \in Trees : t # Nil /\ nodes[t.left] \in V /\ nodes[t.right] \in V => nodes[t] \in V
    BY <1>6 DEF NodesBody, V
  <2>. QED
    BY <2>1, <2>2, ValuesIn
<1>. QED
  BY <1>6, <1>7, NilIsTree DEF NodesBody, V

DepthBody(f, t) == IF t = Nil THEN 0 ELSE Taller(f[t.left], f[t.right]) + 1

LEMMA DepthValues ==
  /\ \A t \in Trees : depth[t] \in Nat
  /\ depth[Nil] = 0
  /\ \A t \in Trees : t # Nil => depth[t] = Taller(depth[t.left], depth[t.right]) + 1
<1> DEFINE g == [p \in (Trees \ {Nil}) \X Nat \X Nat |-> Taller(p[2], p[3]) + 1]
           Is(f) == f = [t \in Trees |-> DepthBody(f, t)]
<1>1. g \in [(Trees \ {Nil}) \X Nat \X Nat -> Nat] /\ 0 \in Nat
  BY DEF Taller
<1>2. \A t \in Trees \ {Nil} : \A a, b \in Nat : g[<<t, a, b>>] = Taller(a, b) + 1
  OBVIOUS
<1> HIDE DEF g
<1>3. PICK f \in [Trees -> Nat] : IsRecursive(f, Trees, 0, g)
  BY <1>1, TreeRecursion
<1>4. Is(f)
  <2>1. ASSUME NEW t \in Trees, t # Nil PROVE f[t] = Taller(f[t.left], f[t.right]) + 1
    <3>1. t \in Trees \ {Nil} /\ f[t.left] \in Nat /\ f[t.right] \in Nat
      BY <2>1, NodeParts
    <3>2. f[t] = g[<<t, f[t.left], f[t.right]>>]
      BY <2>1, <1>3 DEF IsRecursive
    <3>. QED
      BY <3>1, <3>2, <1>2
  <2>2. f = [t \in Trees |-> f[t]]
    OBVIOUS
  <2>. QED
    BY <2>1, <2>2, <1>3, NilIsTree DEF IsRecursive, DepthBody
<1>5. Is(depth)
  <2>1. depth = CHOOSE h : Is(h)
    BY DEF depth, DepthBody
  <2> HIDE DEF Is
  <2>. QED
    BY <2>1, <1>4
<1>6. \A t \in Trees : depth[t] = DepthBody(depth, t)
  BY <1>5
<1>7. \A t \in Trees : depth[t] \in Nat
  <2>1. depth[Nil] \in Nat
    BY <1>6, NilIsTree DEF DepthBody
  <2>2. \A t \in Trees :
          t # Nil /\ depth[t.left] \in Nat /\ depth[t.right] \in Nat => depth[t] \in Nat
    BY <1>6 DEF DepthBody, Taller
  <2>. QED
    BY <2>1, <2>2, ValuesIn
<1>. QED
  BY <1>6, <1>7, NilIsTree DEF DepthBody

InorderBody(f, t) == IF t = Nil THEN <<>> ELSE f[t.left] \o <<t.data>> \o f[t.right]

LEMMA InorderValues ==
  /\ \A t \in Trees : inorder[t] \in Seq(TreeContacts)
  /\ inorder[Nil] = <<>>
  /\ \A t \in Trees : t # Nil =>
       inorder[t] = inorder[t.left] \o <<t.data>> \o inorder[t.right]
<1> DEFINE V == Seq(TreeContacts)
           g == [p \in (Trees \ {Nil}) \X V \X V |-> p[2] \o <<p[1].data>> \o p[3]]
           Is(f) == f = [t \in Trees |-> InorderBody(f, t)]
<1>1. ASSUME NEW t \in Trees, t # Nil, NEW a \in V, NEW b \in V
      PROVE  a \o <<t.data>> \o b \in V
  <2>1. <<t.data>> \in Seq(TreeContacts)
    BY <1>1, NodeParts
  <2>. QED
    BY <2>1
<1>2. g \in [(Trees \ {Nil}) \X V \X V -> V] /\ <<>> \in V
  BY <1>1
<1>3. \A t \in Trees \ {Nil} : \A a, b \in V : g[<<t, a, b>>] = a \o <<t.data>> \o b
  OBVIOUS
<1> HIDE DEF g, V
<1>4. PICK f \in [Trees -> V] : IsRecursive(f, Trees, <<>>, g)
  BY <1>2, TreeRecursion
<1>5. Is(f)
  <2>1. ASSUME NEW t \in Trees, t # Nil PROVE f[t] = f[t.left] \o <<t.data>> \o f[t.right]
    <3>1. t \in Trees \ {Nil} /\ f[t.left] \in V /\ f[t.right] \in V
      BY <2>1, NodeParts
    <3>2. f[t] = g[<<t, f[t.left], f[t.right]>>]
      BY <2>1, <1>4 DEF IsRecursive
    <3>. QED
      BY <3>1, <3>2, <1>3
  <2>2. f = [t \in Trees |-> f[t]]
    OBVIOUS
  <2>. QED
    BY <2>1, <2>2, <1>4, NilIsTree DEF IsRecursive, InorderBody
<1>6. Is(inorder)
  <2>1. inorder = CHOOSE h : Is(h)
    BY DEF inorder, InorderBody
  <2> HIDE DEF Is
  <2>. QED
    BY <2>1, <1>5
<1>7. \A t \in Trees : inorder[t] = InorderBody(inorder, t)
  BY <1>6
<1>8. \A t \in Trees : inorder[t] \in V
  <2>1. inorder[Nil] \in V
    BY <1>2, <1>7, NilIsTree DEF InorderBody
  <2>2. ASSUME NEW t \in Trees, t # Nil, inorder[t.left] \in V, inorder[t.right] \in V
        PROVE  inorder[t] \in V
    <3>1. inorder[t] = inorder[t.left] \o <<t.data>> \o inorder[t.right]
      BY <1>7, <2>2 DEF InorderBody
    <3>. QED
      BY <3>1, <2>2, <1>1
  <2>. QED
    BY <2>1, <2>2, ValuesIn
<1>. QED
  BY <1>7, <1>8, NilIsTree DEF InorderBody, V

FindAt(t, l, r) ==
  [c \in TreeContacts |-> IF c < t.data THEN l[c] ELSE IF c > t.data THEN r[c] ELSE {t.data}]
FindNil == [c \in TreeContacts |-> {}]
FindBody(f, t) == [c \in TreeContacts |->
  IF t = Nil THEN {}
  ELSE IF c < t.data THEN f[t.left][c]
  ELSE IF c > t.data THEN f[t.right][c]
  ELSE {t.data}]

LEMMA FindValues ==
  \A c \in TreeContacts :
    /\ find_node[Nil][c] = {}
    /\ \A t \in Trees : t # Nil =>
         find_node[t][c] = IF c < t.data THEN find_node[t.left][c]
                           ELSE IF c > t.data THEN find_node[t.right][c]
                           ELSE {t.data}
<1> DEFINE V == [TreeContacts -> SUBSET TreeContacts]
           g == [p \in (Trees \ {Nil}) \X V \X V |-> FindAt(p[1], p[2], p[3])]
           Is(f) == f = [t \in Trees |-> FindBody(f, t)]
<1>1. ASSUME NEW t \in Trees, t # Nil, NEW a \in V, NEW b \in V
      PROVE  FindAt(t, a, b) \in V
  BY <1>1, NodeParts DEF FindAt
<1>2. g \in [(Trees \ {Nil}) \X V \X V -> V] /\ FindNil \in V
  BY <1>1 DEF FindNil
<1>3. \A t \in Trees \ {Nil} : \A a, b \in V : g[<<t, a, b>>] = FindAt(t, a, b)
  OBVIOUS
<1> HIDE DEF g, V
<1>4. PICK f \in [Trees -> V] : IsRecursive(f, Trees, FindNil, g)
  BY <1>2, TreeRecursion
<1>5. Is(f)
  <2>1. ASSUME NEW t \in Trees, t # Nil PROVE f[t] = FindBody(f, t)
    <3>1. t \in Trees \ {Nil} /\ f[t.left] \in V /\ f[t.right] \in V
      BY <2>1, NodeParts
    <3>2. f[t] = g[<<t, f[t.left], f[t.right]>>]
      BY <2>1, <1>4 DEF IsRecursive
    <3>3. f[t] = FindAt(t, f[t.left], f[t.right])
      BY <3>1, <3>2, <1>3
    <3>. QED
      BY <3>3, <2>1 DEF FindAt, FindBody
  <2>2. f[Nil] = FindBody(f, Nil)
    BY <1>4, NilIsTree DEF IsRecursive, FindNil, FindBody
  <2>3. f = [t \in Trees |-> f[t]]
    OBVIOUS
  <2>. QED
    BY <2>1, <2>2, <2>3
<1>6. Is(find_node)
  <2>1. find_node = CHOOSE h : Is(h)
    BY DEF find_node, FindBody
  <2> HIDE DEF Is
  <2>. QED
    BY <2>1, <1>5
<1>7. \A t \in Trees : find_node[t] = FindBody(find_node, t)
  BY <1>6
<1>. QED
  BY <1>7, NilIsTree DEF FindBody

FindMinBody(f, t) == IF t.left = Nil THEN t.data ELSE f[t.left]

LEMMA FindMinValues ==
  \A t \in Trees : t # Nil =>
    find_min[t] = IF t.left = Nil THEN t.data ELSE find_min[t.left]
<1> DEFINE V == Nat
           g == [p \in (Trees \ {Nil}) \X V \X V |->
                   IF p[1].left = Nil THEN p[1].data ELSE p[2]]
           Is(f) == f = [t \in Trees \ {Nil} |-> FindMinBody(f, t)]
<1>1. \A t \in Trees \ {Nil} : t.data \in V
  BY NodeParts, TreeAssumption
<1>2. g \in [(Trees \ {Nil}) \X V \X V -> V] /\ 0 \in V
  BY <1>1
<1>3. \A t \in Trees \ {Nil} : \A a, b \in V :
        g[<<t, a, b>>] = IF t.left = Nil THEN t.data ELSE a
  OBVIOUS
<1> HIDE DEF g, V
<1>4. PICK f \in [Trees -> V] : IsRecursive(f, Trees, 0, g)
  BY <1>2, TreeRecursion
<1> DEFINE m == [t \in Trees \ {Nil} |-> f[t]]
<1>5. Is(m)
  <2>1. ASSUME NEW t \in Trees \ {Nil} PROVE m[t] = FindMinBody(m, t)
    <3>1. t.left \in Trees /\ f[t.left] \in V /\ f[t.right] \in V
      BY <2>1, NodeParts
    <3>2. f[t] = g[<<t, f[t.left], f[t.right]>>]
      BY <2>1, <1>4 DEF IsRecursive
    <3>3. f[t] = IF t.left = Nil THEN t.data ELSE f[t.left]
      BY <3>1, <3>2, <1>3
    <3>. QED
      BY <3>1, <3>3 DEF FindMinBody
  <2>2. m = [t \in Trees \ {Nil} |-> m[t]]
    OBVIOUS
  <2> HIDE DEF m
  <2>. QED
    BY <2>1, <2>2
<1>6. Is(find_min)
  <2>1. find_min = CHOOSE h : Is(h)
    BY DEF find_min, FindMinBody
  <2> HIDE DEF Is, m
  <2>. QED
    BY <2>1, <1>5
<1>7. \A t \in Trees \ {Nil} : find_min[t] = FindMinBody(find_min, t)
  BY <1>6
<1>. QED
  BY <1>7 DEF FindMinBody

LEMMA FindMinType == \A t \in Trees : t # Nil => find_min[t] \in TreeContacts
<1> DEFINE S == {t \in Trees : t # Nil => find_min[t] \in TreeContacts}
<1>1. Nil \in S
  BY NilIsTree
<1>2. ASSUME NEW t \in Trees, t # Nil, t.left \in S, t.right \in S PROVE t \in S
  BY <1>2, NodeParts, FindMinValues
<1> HIDE DEF S
<1>3. \A t \in Trees : t \in S
  BY <1>1, <1>2, TreeInduction
<1>. QED
  BY <1>3 DEF S

InsertAt(t, l, r) == [c \in TreeContacts |->
  IF c < t.data THEN balance([t EXCEPT !.left = l[c]])
  ELSE IF c > t.data THEN balance([t EXCEPT !.right = r[c]])
  ELSE t]
InsertNil == [c \in TreeContacts |-> Leaf(c)]
InsertBody(f, t) == [c \in TreeContacts |->
  IF t = Nil THEN Leaf(c)
  ELSE IF c < t.data THEN balance([t EXCEPT !.left = f[t.left][c]])
  ELSE IF c > t.data THEN balance([t EXCEPT !.right = f[t.right][c]])
  ELSE t]

LEMMA LeafJoin == \A c \in TreeContacts : Leaf(c) = Join(c, Nil, Nil)
BY DEF Leaf, Join, Nil, Taller

LEMMA InsertValues ==
  \A c \in TreeContacts :
    /\ insert_node[Nil][c] = Leaf(c)
    /\ \A t \in Trees : t # Nil =>
         insert_node[t][c] =
           IF c < t.data THEN balance([t EXCEPT !.left = insert_node[t.left][c]])
           ELSE IF c > t.data THEN balance([t EXCEPT !.right = insert_node[t.right][c]])
           ELSE t
<1> DEFINE V == [TreeContacts -> AllTrees]
           g == [p \in (Trees \ {Nil}) \X V \X V |-> InsertAt(p[1], p[2], p[3])]
           Is(f) == f = [t \in Trees |-> InsertBody(f, t)]
<1>1. ASSUME NEW t \in Trees, t # Nil, NEW a \in V, NEW b \in V
      PROVE  InsertAt(t, a, b) \in V
  <2>1. t \in NodesOver(AllTrees)
    BY <1>1, AllTreesClosed
  <2>2. ASSUME NEW c \in TreeContacts
        PROVE  /\ balance([t EXCEPT !.left = a[c]]) \in AllTrees
               /\ balance([t EXCEPT !.right = b[c]]) \in AllTrees
    <3>1. a[c] \in AllTrees /\ b[c] \in AllTrees
      OBVIOUS
    <3>2. /\ [t EXCEPT !.left = a[c]] \in NodesOver(AllTrees)
          /\ [t EXCEPT !.right = b[c]] \in NodesOver(AllTrees)
      BY <2>1, <3>1, SetLeft, SetRight
    <3>. QED
      BY <3>2, BalanceType
  <2>3. t \in AllTrees
    BY <2>1, AllParts
  <2>. QED
    BY <2>2, <2>3 DEF InsertAt
<1>2. g \in [(Trees \ {Nil}) \X V \X V -> V] /\ InsertNil \in V
  <2>1. \A c \in TreeContacts : Leaf(c) \in AllTrees
    BY LeafJoin, JoinParts, AllParts, AllTreesClosed
  <2>2. InsertNil \in V
    BY <2>1 DEF InsertNil
  <2>. QED
    BY <1>1, <2>2
<1>3. \A t \in Trees \ {Nil} : \A a, b \in V : g[<<t, a, b>>] = InsertAt(t, a, b)
  OBVIOUS
<1> HIDE DEF g, V
<1>4. PICK f \in [Trees -> V] : IsRecursive(f, Trees, InsertNil, g)
  BY <1>2, TreeRecursion
<1>5. Is(f)
  <2>1. ASSUME NEW t \in Trees, t # Nil PROVE f[t] = InsertBody(f, t)
    <3>1. t \in Trees \ {Nil} /\ f[t.left] \in V /\ f[t.right] \in V
      BY <2>1, NodeParts
    <3>2. f[t] = g[<<t, f[t.left], f[t.right]>>]
      BY <2>1, <1>4 DEF IsRecursive
    <3>3. f[t] = InsertAt(t, f[t.left], f[t.right])
      BY <3>1, <3>2, <1>3
    <3>. QED
      BY <3>3, <2>1 DEF InsertAt, InsertBody
  <2>2. f[Nil] = InsertBody(f, Nil)
    BY <1>4, NilIsTree DEF IsRecursive, InsertNil, InsertBody
  <2>3. f = [t \in Trees |-> f[t]]
    OBVIOUS
  <2>. QED
    BY <2>1, <2>2, <2>3
<1>6. Is(insert_node)
  <2>1. insert_node = CHOOSE h : Is(h)
    BY DEF insert_node, InsertBody
  <2> HIDE DEF Is
  <2>. QED
    BY <2>1, <1>5
<1>7. \A t \in Trees : insert_node[t] = InsertBody(insert_node, t)
  BY <1>6
<1>. QED
  BY <1>7, NilIsTree DEF InsertBody

\* The node of t with another contact and another right subtree.
Replaced(t, d, r) == [t EXCEPT !.data = d, !.right = r]

DeleteAt(t, l, r) == [c \in TreeContacts |->
  IF c < t.data THEN balance([t EXCEPT !.left = l[c]])
  ELSE IF c > t.data THEN balance([t EXCEPT !.right = r[c]])
  ELSE IF t.left = Nil /\ t.right = Nil THEN Nil
  ELSE IF t.left = Nil THEN balance(t.right)
  ELSE IF t.right = Nil THEN balance(t.left)
  ELSE balance(Replaced(t, find_min[t.right], r[find_min[t.right]]))]
DeleteNil == [c \in TreeContacts |-> Nil]
DeleteBody(f, t) == [c \in TreeContacts |->
  IF t = Nil THEN Nil
  ELSE IF c < t.data THEN balance([t EXCEPT !.left = f[t.left][c]])
  ELSE IF c > t.data THEN balance([t EXCEPT !.right = f[t.right][c]])
  ELSE IF t.left = Nil /\ t.right = Nil THEN Nil
  ELSE IF t.left = Nil THEN balance(t.right)
  ELSE IF t.right = Nil THEN balance(t.left)
  ELSE LET min == find_min[t.right]
       IN  balance([t EXCEPT !.data = min, !.right = f[t.right][min]])]

LEMMA ReplacedParts ==
  ASSUME NEW n \in NodesOver(AllTrees), NEW d \in TreeContacts, NEW r \in AllTrees
  PROVE  /\ Replaced(n, d, r) \in NodesOver(AllTrees)
         /\ Replaced(n, d, r).data = d
         /\ Replaced(n, d, r).left = n.left /\ Replaced(n, d, r).right = r
BY DEF Replaced, NodesOver

LEMMA DeleteValues ==
  \A c \in TreeContacts :
    /\ delete_node[Nil][c] = Nil
    /\ \A t \in Trees : t # Nil =>
         delete_node[t][c] =
           IF c < t.data THEN balance([t EXCEPT !.left = delete_node[t.left][c]])
           ELSE IF c > t.data THEN balance([t EXCEPT !.right = delete_node[t.right][c]])
           ELSE IF t.left = Nil /\ t.right = Nil THEN Nil
           ELSE IF t.left = Nil THEN balance(t.right)
           ELSE IF t.right = Nil THEN balance(t.left)
           ELSE balance(Replaced(t, find_min[t.right],
                                 delete_node[t.right][find_min[t.right]]))
<1> DEFINE V == [TreeContacts -> AllTrees]
           g == [p \in (Trees \ {Nil}) \X V \X V |-> DeleteAt(p[1], p[2], p[3])]
           Is(f) == f = [t \in Trees |-> DeleteBody(f, t)]
<1>1. ASSUME NEW t \in Trees, t # Nil, NEW a \in V, NEW b \in V
      PROVE  DeleteAt(t, a, b) \in V
  <2>1. t \in NodesOver(AllTrees)
    BY <1>1, AllTreesClosed
  <2>2. t.left \in Trees /\ t.right \in Trees
    BY <1>1, NodeParts
  <2>3. ASSUME NEW c \in TreeContacts
        PROVE  /\ balance([t EXCEPT !.left = a[c]]) \in AllTrees
               /\ balance([t EXCEPT !.right = b[c]]) \in AllTrees
    <3>1. a[c] \in AllTrees /\ b[c] \in AllTrees
      OBVIOUS
    <3>2. /\ [t EXCEPT !.left = a[c]] \in NodesOver(AllTrees)
          /\ [t EXCEPT !.right = b[c]] \in NodesOver(AllTrees)
      BY <2>1, <3>1, SetLeft, SetRight
    <3>. QED
      BY <3>2, BalanceType
  <2>4. /\ t.left # Nil => balance(t.left) \in AllTrees
        /\ t.right # Nil => balance(t.right) \in AllTrees
    BY <2>2, AllTreesClosed, BalanceType
  <2>5. ASSUME t.right # Nil
        PROVE  balance(Replaced(t, find_min[t.right], b[find_min[t.right]])) \in AllTrees
    <3>1. find_min[t.right] \in TreeContacts
      BY <2>2, <2>5, FindMinType
    <3>2. b[find_min[t.right]] \in AllTrees
      BY <3>1
    <3>. QED
      BY <2>1, <3>1, <3>2, ReplacedParts, BalanceType
  <2>. QED
    BY <2>3, <2>4, <2>5, AllTreesClosed DEF DeleteAt
<1>2. g \in [(Trees \ {Nil}) \X V \X V -> V] /\ DeleteNil \in V
  <2>1. DeleteNil \in V
    BY AllTreesClosed DEF DeleteNil
  <2>. QED
    BY <1>1, <2>1
<1>3. \A t \in Trees \ {Nil} : \A a, b \in V : g[<<t, a, b>>] = DeleteAt(t, a, b)
  OBVIOUS
<1> HIDE DEF g, V
<1>4. PICK f \in [Trees -> V] : IsRecursive(f, Trees, DeleteNil, g)
  BY <1>2, TreeRecursion
<1>5. Is(f)
  <2>1. ASSUME NEW t \in Trees, t # Nil PROVE f[t] = DeleteBody(f, t)
    <3>1. t \in Trees \ {Nil} /\ f[t.left] \in V /\ f[t.right] \in V
      BY <2>1, NodeParts
    <3>2. f[t] = g[<<t, f[t.left], f[t.right]>>]
      BY <2>1, <1>4 DEF IsRecursive
    <3>3. f[t] = DeleteAt(t, f[t.left], f[t.right])
      BY <3>1, <3>2, <1>3
    <3>. QED
      BY <3>3, <2>1 DEF DeleteAt, DeleteBody, Replaced
  <2>2. f[Nil] = DeleteBody(f, Nil)
    BY <1>4, NilIsTree DEF IsRecursive, DeleteNil, DeleteBody
  <2>3. f = [t \in Trees |-> f[t]]
    OBVIOUS
  <2>. QED
    BY <2>1, <2>2, <2>3
<1>6. Is(delete_node)
  <2>1. delete_node = CHOOSE h : Is(h)
    BY DEF delete_node, DeleteBody
  <2> HIDE DEF Is
  <2>. QED
    BY <2>1, <1>5
<1>7. \A t \in Trees : delete_node[t] = DeleteBody(delete_node, t)
  BY <1>6
<1>8. ASSUME NEW c \in TreeContacts PROVE delete_node[Nil][c] = Nil
  <2>1. delete_node[Nil] = DeleteBody(delete_node, Nil)
    BY <1>7, NilIsTree
  <2>. QED
    BY <2>1 DEF DeleteBody
<1>9. ASSUME NEW c \in TreeContacts, NEW t \in Trees, t # Nil
      PROVE  delete_node[t][c] =
               IF c < t.data THEN balance([t EXCEPT !.left = delete_node[t.left][c]])
               ELSE IF c > t.data THEN balance([t EXCEPT !.right = delete_node[t.right][c]])
               ELSE IF t.left = Nil /\ t.right = Nil THEN Nil
               ELSE IF t.left = Nil THEN balance(t.right)
               ELSE IF t.right = Nil THEN balance(t.left)
               ELSE balance(Replaced(t, find_min[t.right],
                                     delete_node[t.right][find_min[t.right]]))
  <2>1. delete_node[t] = DeleteBody(delete_node, t)
    BY <1>7
  <2>. QED
    BY <1>9, <2>1 DEF DeleteBody, Replaced
<1>. QED
  BY <1>8, <1>9
-----------------------------------------------------------------------------
(***************************************************************************)
(* The trees the program keeps: each node is measured, as high on one side *)
(* as on the other or one level higher, and between the contacts on its    *)
(* left and those on its right.                                            *)
(***************************************************************************)
Keys(t) == {m.data : m \in nodes[t]}

\* l and r can hang on a node with contact d.
Fits(d, l, r) ==
  /\ \A x \in Keys(l) : x < d
  /\ \A x \in Keys(r) : d < x

Level(l, r) == l.height <= r.height + 1 /\ r.height <= l.height + 1

Sound(m) ==
  /\ m.height = Taller(m.left.height, m.right.height) + 1
  /\ Level(m.left, m.right)
  /\ Fits(m.data, m.left, m.right)

Good(t) == t \in Trees /\ \A m \in nodes[t] : Sound(m)

LEMMA KeysOf ==
  /\ Keys(Nil) = {}
  /\ \A t \in Trees : Keys(t) \subseteq TreeContacts
  /\ \A t \in Trees : t # Nil => Keys(t) = Keys(t.left) \cup {t.data} \cup Keys(t.right)
<1>1. Keys(Nil) = {}
  BY NodesValues DEF Keys
<1>2. ASSUME NEW t \in Trees, t # Nil
      PROVE  Keys(t) = Keys(t.left) \cup {t.data} \cup Keys(t.right)
  <2>1. nodes[t] = {t} \cup nodes[t.left] \cup nodes[t.right]
    BY <1>2, NodesValues
  <2>. QED
    BY <2>1 DEF Keys
<1> DEFINE S == {t \in Trees : Keys(t) \subseteq TreeContacts}
<1>3. Nil \in S
  BY <1>1, NilIsTree
<1>4. ASSUME NEW t \in Trees, t # Nil, t.left \in S, t.right \in S PROVE t \in S
  BY <1>2, <1>4, NodeParts
<1> HIDE DEF S
<1>5. \A t \in Trees : t \in S
  BY <1>3, <1>4, TreeInduction
<1>. QED
  BY <1>1, <1>2, <1>5 DEF S

LEMMA GoodParts ==
  ASSUME NEW t, Good(t)
  PROVE  /\ t \in Trees /\ t \in AllTrees /\ t.height \in Nat
         /\ t # Nil => /\ t \in NodesOver(AllTrees) /\ Sound(t)
                       /\ t.data \in TreeContacts
                       /\ Good(t.left) /\ Good(t.right)
<1>1. t \in Trees /\ t \in AllTrees /\ t.height \in Nat
  BY AllTreesClosed, HeightIsNat DEF Good
<1>2. ASSUME t # Nil
      PROVE  /\ t \in NodesOver(AllTrees) /\ Sound(t) /\ t.data \in TreeContacts
             /\ Good(t.left) /\ Good(t.right)
  <2>1. nodes[t] = {t} \cup nodes[t.left] \cup nodes[t.right]
    BY <1>1, <1>2, NodesValues
  <2>2. t.left \in Trees /\ t.right \in Trees /\ t.data \in TreeContacts
    BY <1>1, <1>2, NodeParts
  <2>3. t \in NodesOver(AllTrees)
    BY <1>1, <1>2, AllTreesClosed
  <2>. QED
    BY <2>1, <2>2, <2>3 DEF Good
<1>. QED
  BY <1>1, <1>2

LEMMA NilIsGood == Good(Nil)
BY NilIsTree, NodesValues DEF Good

\* The contacts of a node are those on its left, its own and those on its
\* right, each once.
LEMMA CountKeys ==
  ASSUME NEW d \in TreeContacts, NEW l \in Trees, NEW r \in Trees, Fits(d, l, r)
  PROVE  /\ Cardinality(Keys(l)) \in Nat /\ Cardinality(Keys(r)) \in Nat
         /\ Cardinality(Keys(l) \cup {d} \cup Keys(r))
              = Cardinality(Keys(l)) + Cardinality(Keys(r)) + 1
         /\ Cardinality(Keys(l) \cup {d} \cup Keys(r)) <= Levels
<1> DEFINE a == Keys(l)
           b == Keys(r)
<1>1. a \subseteq TreeContacts /\ b \subseteq TreeContacts
      /\ IsFiniteSet(TreeContacts) /\ TreeContacts \subseteq Nat
  BY KeysOf, TreeAssumption
<1>2. IsFiniteSet(a) /\ IsFiniteSet(b)
  BY <1>1, FS_Subset
<1>3. Cardinality(a) \in Nat /\ Cardinality(b) \in Nat
  BY <1>2, FS_CardinalityType
<1>4. d \notin a /\ a \cup {d} \cup b = (a \cup {d}) \cup b /\ (a \cup {d}) \cap b = {}
  <2>1. \A x \in a : x < d /\ x \in Nat
    BY <1>1 DEF Fits
  <2>2. \A x \in b : d < x /\ x \in Nat
    BY <1>1 DEF Fits
  <2>3. d \in Nat
    BY <1>1
  <2> HIDE DEF a, b
  <2>. QED
    BY <2>1, <2>2, <2>3
<1> HIDE DEF a, b
<1>5. IsFiniteSet(a \cup {d}) /\ Cardinality(a \cup {d}) = Cardinality(a) + 1
  BY <1>2, <1>4, FS_AddElement
<1>6. Cardinality((a \cup {d}) \cup b)
        = Cardinality(a \cup {d}) + Cardinality(b) - Cardinality((a \cup {d}) \cap b)
  BY <1>2, <1>5, FS_Union
<1>7. Cardinality((a \cup {d}) \cap b) = 0
  BY <1>4, FS_EmptySet
<1>8. Cardinality((a \cup {d}) \cup b) = Cardinality(a) + Cardinality(b) + 1
  BY <1>3, <1>5, <1>6, <1>7
<1>9. a \cup {d} \cup b \subseteq TreeContacts
  BY <1>1
<1>10. Cardinality(a \cup {d} \cup b) <= Levels
  BY <1>1, <1>9, FS_Subset DEF Levels
<1>. QED
  BY <1>3, <1>4, <1>8, <1>10 DEF a, b

\* A node over trees with n and m levels has at most n + m + 1.
LEMMA NodeLevels ==
  ASSUME NEW n \in Nat, NEW m \in Nat, NEW t,
         t \in NodesOver(TreeOf[n] \cup TreeOf[m])
  PROVE  t \in TreeOf[n + m + 1]
<1>1. n + m \in Nat /\ n <= n + m /\ m <= n + m
  OBVIOUS
<1>2. TreeOf[n] \subseteq TreeOf[n + m] /\ TreeOf[m] \subseteq TreeOf[n + m]
  BY <1>1, TreesGrow
<1>3. t \in NodesOver(TreeOf[n + m])
  BY <1>2 DEF NodesOver
<1>. QED
  BY <1>1, <1>3, LevelOfTrees

\* A good tree has no more levels than contacts.
LEMMA GoodLevels ==
  \A t \in Trees : Good(t) => t \in TreeOf[Cardinality(Keys(t))]
<1> DEFINE S == {t \in Trees : Good(t) => t \in TreeOf[Cardinality(Keys(t))]}
<1>1. Nil \in S
  BY NilIsTree, KeysOf, FS_EmptySet
<1>2. ASSUME NEW t \in Trees, t # Nil, t.left \in S, t.right \in S PROVE t \in S
  <2> SUFFICES ASSUME Good(t) PROVE t \in TreeOf[Cardinality(Keys(t))]
    OBVIOUS
  <2>1. Good(t.left) /\ Good(t.right) /\ Sound(t)
    BY <1>2, GoodParts
  <2>2. /\ t \in NodesOver(Trees) /\ t.data \in TreeContacts
        /\ t.left \in Trees /\ t.right \in Trees
    BY <1>2, NodeParts
  <2>3. PICK n, m : n = Cardinality(Keys(t.left)) /\ m = Cardinality(Keys(t.right))
    OBVIOUS
  <2>4. n \in Nat /\ m \in Nat /\ Cardinality(Keys(t)) = n + m + 1
    <3>1. Fits(t.data, t.left, t.right)
      BY <2>1 DEF Sound
    <3>2. Keys(t) = Keys(t.left) \cup {t.data} \cup Keys(t.right)
      BY <1>2, KeysOf
    <3>3. /\ Cardinality(Keys(t.left)) \in Nat /\ Cardinality(Keys(t.right)) \in Nat
          /\ Cardinality(Keys(t.left) \cup {t.data} \cup Keys(t.right))
               = Cardinality(Keys(t.left)) + Cardinality(Keys(t.right)) + 1
      BY <2>2, <3>1, CountKeys
    <3>. QED
      BY <2>3, <3>2, <3>3
  <2>5. t.left \in TreeOf[n] /\ t.right \in TreeOf[m]
    BY <1>2, <2>1, <2>3
  <2>6. t \in NodesOver(TreeOf[n] \cup TreeOf[m])
    BY <2>2, <2>5 DEF NodesOver
  <2>. QED
    BY <2>4, <2>6, NodeLevels
<1> HIDE DEF S
<1>3. \A t \in Trees : t \in S
  BY <1>1, <1>2, TreeInduction
<1>. QED
  BY <1>3 DEF S

\* A node with good trees that fit and are level is a good tree.
LEMMA GoodJoin ==
  ASSUME NEW d \in TreeContacts, NEW l, NEW r, Good(l), Good(r),
         Fits(d, l, r), Level(l, r)
  PROVE  /\ Good(Join(d, l, r))
         /\ Keys(Join(d, l, r)) = Keys(l) \cup {d} \cup Keys(r)
         /\ Join(d, l, r).height = Taller(l.height, r.height) + 1
<1>1. l \in Trees /\ r \in Trees /\ l \in AllTrees /\ r \in AllTrees
  BY GoodParts
<1>2. PICK t : t = Join(d, l, r)
  OBVIOUS
<1>3. /\ t \in NodesOver(AllTrees) /\ t.data = d /\ t.left = l /\ t.right = r
      /\ t.height = Taller(l.height, r.height) + 1 /\ t.height \in Nat /\ t # Nil
  <2>1. /\ t \in NodesOver(AllTrees) /\ t.data = d /\ t.left = l /\ t.right = r
        /\ t.height = Taller(l.height, r.height) + 1 /\ t.height \in Nat
    BY <1>1, <1>2, JoinParts
  <2>. QED
    BY <2>1, NilIsNoNode
<1>4. PICK n, m : n = Cardinality(Keys(l)) /\ m = Cardinality(Keys(r))
  OBVIOUS
<1>5. n \in Nat /\ m \in Nat /\ n + m + 1 <= Levels
  BY <1>1, <1>4, CountKeys
<1>6. t \in NodesOver(TreeOf[n] \cup TreeOf[m])
  BY <1>1, <1>3, <1>4, GoodLevels DEF NodesOver
<1>7. t \in TreeOf[n + m + 1]
  BY <1>5, <1>6, NodeLevels
<1>8. t \in Trees
  <2>1. n + m + 1 \in Nat
    BY <1>5
  <2>2. TreeOf[n + m + 1] \subseteq TreeOf[Levels]
    BY <1>5, <2>1, LevelsCount, TreesGrow
  <2>. QED
    BY <1>7, <2>2, LevelsCount
<1>9. nodes[t] = {t} \cup nodes[l] \cup nodes[r]
  BY <1>3, <1>8, NodesValues
<1>10. Sound(t)
  BY <1>3 DEF Sound
<1>11. Good(t)
  BY <1>8, <1>9, <1>10 DEF Good
<1>12. Keys(t) = Keys(l) \cup {d} \cup Keys(r)
  BY <1>3, <1>8, KeysOf
<1>. QED
  BY <1>2, <1>3, <1>11, <1>12

\* What balance() promises of a node that is out of level by two at most.
Mended(b, d, l, r) ==
  /\ Good(b)
  /\ Keys(b) = Keys(l) \cup {d} \cup Keys(r)
  /\ b.height = Taller(l.height, r.height) \/ b.height = Taller(l.height, r.height) + 1
  /\ Level(l, r) => b.height = Taller(l.height, r.height) + 1

LEMMA LeftIsHigh ==
  ASSUME NEW n \in NodesOver(AllTrees), NEW d, NEW l, NEW r,
         d = n.data, l = n.left, r = n.right,
         Good(l), Good(r), Fits(d, l, r), l.height = r.height + 2
  PROVE  Mended(balance(n), d, l, r)
<1>1. d \in TreeContacts /\ l.height \in Nat /\ r.height \in Nat
  BY AllParts, GoodParts
<1>2. l # Nil /\ l.height > r.height + 1 /\ ~Level(l, r)
      /\ Taller(l.height, r.height) = l.height
  BY <1>1, HeightIsNat DEF Level, Taller
<1>3. /\ l.data \in TreeContacts /\ Sound(l) /\ Good(l.left) /\ Good(l.right)
      /\ l.left.height \in Nat /\ l.right.height \in Nat /\ l \in Trees
  BY <1>2, GoodParts
<1>4. PICK i, j, h : i = l.left.height /\ j = l.right.height /\ h = r.height
  OBVIOUS
<1>5. /\ i \in Nat /\ j \in Nat /\ h \in Nat
      /\ h + 2 = Taller(i, j) + 1 /\ i <= j + 1 /\ j <= i + 1
  BY <1>1, <1>3, <1>4 DEF Sound, Level
<1>6. Keys(l) = Keys(l.left) \cup {l.data} \cup Keys(l.right)
  BY <1>2, <1>3, KeysOf
<1>7. /\ Keys(l) \subseteq Nat /\ Keys(r) \subseteq Nat /\ d \in Nat
  BY <1>1, KeysOf, GoodParts, TreeAssumption
<1>8. /\ \A x \in Keys(l.left) : x < l.data
      /\ \A x \in Keys(l.right) : l.data < x
      /\ \A x \in Keys(l) : x < d
      /\ \A x \in Keys(r) : d < x
  BY <1>3 DEF Sound, Fits
<1>9. CASE i >= j
  <2>1. i = h + 1 /\ (j = h \/ j = h + 1)
    BY <1>5, <1>9 DEF Taller
  <2>2. balance(n) = Join(l.data, l.left, Join(d, l.right, r))
    BY <1>2, <1>4, <1>9, BalanceCases
  <2>3. PICK k : k = Join(d, l.right, r)
    OBVIOUS
  <2>4. Fits(d, l.right, r)
    BY <1>6, <1>8 DEF Fits
  <2>5. Level(l.right, r) /\ Taller(l.right.height, r.height) = j
    BY <1>4, <1>5, <2>1 DEF Level, Taller
  <2>6. Good(k) /\ Keys(k) = Keys(l.right) \cup {d} \cup Keys(r) /\ k.height = j + 1
    BY <1>1, <1>3, <2>3, <2>4, <2>5, GoodJoin
  <2>7. Fits(l.data, l.left, k)
    <3>1. l.data \in Keys(l) /\ l.data < d /\ l.data \in Nat
      BY <1>6, <1>7, <1>8
    <3>2. \A x \in Keys(r) : l.data < x
      BY <3>1, <1>7, <1>8
    <3>. QED
      BY <1>8, <2>6, <3>1, <3>2 DEF Fits
  <2>8. Level(l.left, k) /\ Taller(l.left.height, k.height) = j + 1
    BY <1>4, <1>5, <2>1, <2>6 DEF Level, Taller
  <2>9. PICK b : b = Join(l.data, l.left, k)
    OBVIOUS
  <2>10. Good(b) /\ Keys(b) = Keys(l.left) \cup {l.data} \cup Keys(k) /\ b.height = j + 1 + 1
    BY <1>3, <2>6, <2>7, <2>8, <2>9, GoodJoin
  <2>11. Keys(b) = Keys(l) \cup {d} \cup Keys(r)
    BY <1>6, <2>6, <2>10
  <2>12. b.height = l.height \/ b.height = l.height + 1
    BY <1>4, <1>5, <2>1, <2>10
  <2>. QED
    BY <1>2, <2>2, <2>3, <2>9, <2>10, <2>11, <2>12 DEF Mended
<1>10. CASE i < j
  <2>1. i = h /\ j = h + 1 /\ j > 0
    BY <1>5, <1>10 DEF Taller
  <2>2. PICK m : m = l.right
    OBVIOUS
  <2>3. m # Nil /\ Good(m) /\ m.height = h + 1
    <3>1. m.height = h + 1 /\ m.height > 0 /\ Good(m)
      BY <1>3, <1>4, <1>5, <2>1, <2>2
    <3>2. Nil.height = 0
      BY HeightIsNat
    <3>. QED
      BY <3>1, <3>2
  <2>4. balance(n) = Join(m.data, Join(l.data, l.left, m.left), Join(d, m.right, r))
    BY <1>2, <1>4, <1>10, <2>2, BalanceCases
  <2>5. /\ m.data \in TreeContacts /\ Sound(m) /\ Good(m.left) /\ Good(m.right)
        /\ m.left.height \in Nat /\ m.right.height \in Nat /\ m \in Trees
    BY <2>3, GoodParts
  <2>6. /\ m.left.height = h \/ m.left.height = h - 1
        /\ m.right.height = h \/ m.right.height = h - 1
    <3>1. PICK p, q : p = m.left.height /\ q = m.right.height
      OBVIOUS
    <3>2. /\ p \in Nat /\ q \in Nat /\ h + 1 = Taller(p, q) + 1
          /\ p <= q + 1 /\ q <= p + 1
      BY <2>3, <2>5, <3>1 DEF Sound, Level
    <3>3. (p = h \/ p = h - 1) /\ (q = h \/ q = h - 1)
      BY <1>5, <3>2 DEF Taller
    <3>. QED
      BY <3>1, <3>3
  <2>7. Keys(m) = Keys(m.left) \cup {m.data} \cup Keys(m.right)
    BY <2>3, <2>5, KeysOf
  <2>8. /\ \A x \in Keys(m.left) : x < m.data
        /\ \A x \in Keys(m.right) : m.data < x
    BY <2>5 DEF Sound, Fits
  <2>9. PICK a : a = Join(l.data, l.left, m.left)
    OBVIOUS
  <2>10. Fits(l.data, l.left, m.left)
    BY <1>8, <2>2, <2>7 DEF Fits
  <2>11. Level(l.left, m.left) /\ Taller(l.left.height, m.left.height) = h
    BY <1>4, <1>5, <2>1, <2>6 DEF Level, Taller
  <2>12. Good(a) /\ Keys(a) = Keys(l.left) \cup {l.data} \cup Keys(m.left) /\ a.height = h + 1
    BY <1>3, <2>5, <2>9, <2>10, <2>11, GoodJoin
  <2>13. PICK c : c = Join(d, m.right, r)
    OBVIOUS
  <2>14. Fits(d, m.right, r)
    BY <1>6, <1>8, <2>2, <2>7 DEF Fits
  <2>15. Level(m.right, r) /\ Taller(m.right.height, r.height) = h
    BY <1>4, <1>5, <2>6 DEF Level, Taller
  <2>16. Good(c) /\ Keys(c) = Keys(m.right) \cup {d} \cup Keys(r) /\ c.height = h + 1
    BY <1>1, <2>5, <2>13, <2>14, <2>15, GoodJoin
  <2>17. Fits(m.data, a, c)
    <3>1. m.data \in Keys(m) /\ m.data \in Keys(l) /\ m.data < d /\ m.data \in Nat
          /\ l.data < m.data /\ l.data \in Nat
      BY <1>6, <1>7, <1>8, <2>2, <2>7
    <3>2. \A x \in Keys(l.left) : x \in Nat /\ x < m.data
      BY <1>6, <1>7, <1>8, <3>1
    <3>3. \A x \in Keys(r) : m.data < x
      BY <1>7, <1>8, <3>1
    <3>. QED
      BY <2>8, <2>12, <2>16, <3>1, <3>2, <3>3 DEF Fits
  <2>18. Level(a, c) /\ Taller(a.height, c.height) = h + 1
    BY <1>5, <2>12, <2>16 DEF Level, Taller
  <2>19. PICK b : b = Join(m.data, a, c)
    OBVIOUS
  <2>20. Good(b) /\ Keys(b) = Keys(a) \cup {m.data} \cup Keys(c) /\ b.height = h + 1 + 1
    BY <2>5, <2>12, <2>16, <2>17, <2>18, <2>19, GoodJoin
  <2>21. Keys(b) = Keys(l) \cup {d} \cup Keys(r)
    BY <1>6, <2>2, <2>7, <2>12, <2>16, <2>20
  <2>22. b.height = l.height
    BY <1>4, <1>5, <2>20
  <2>. QED
    BY <1>2, <2>4, <2>9, <2>13, <2>19, <2>20, <2>21, <2>22 DEF Mended
<1>. QED
  BY <1>5, <1>9, <1>10

LEMMA RightIsHigh ==
  ASSUME NEW n \in NodesOver(AllTrees), NEW d, NEW l, NEW r,
         d = n.data, l = n.left, r = n.right,
         Good(l), Good(r), Fits(d, l, r), r.height = l.height + 2
  PROVE  Mended(balance(n), d, l, r)
<1>1. d \in TreeContacts /\ l.height \in Nat /\ r.height \in Nat
  BY AllParts, GoodParts
<1>2. r # Nil /\ r.height > l.height + 1 /\ ~Level(l, r)
      /\ Taller(l.height, r.height) = r.height
  BY <1>1, HeightIsNat DEF Level, Taller
<1>3. /\ r.data \in TreeContacts /\ Sound(r) /\ Good(r.left) /\ Good(r.right)
      /\ r.left.height \in Nat /\ r.right.height \in Nat /\ r \in Trees
  BY <1>2, GoodParts
<1>4. PICK i, j, h : i = r.right.height /\ j = r.left.height /\ h = l.height
  OBVIOUS
<1>5. /\ i \in Nat /\ j \in Nat /\ h \in Nat
      /\ h + 2 = Taller(j, i) + 1 /\ i <= j + 1 /\ j <= i + 1
  BY <1>1, <1>3, <1>4 DEF Sound, Level
<1>6. Keys(r) = Keys(r.left) \cup {r.data} \cup Keys(r.right)
  BY <1>2, <1>3, KeysOf
<1>7. /\ Keys(l) \subseteq Nat /\ Keys(r) \subseteq Nat /\ d \in Nat
  BY <1>1, KeysOf, GoodParts, TreeAssumption
<1>8. /\ \A x \in Keys(r.left) : x < r.data
      /\ \A x \in Keys(r.right) : r.data < x
      /\ \A x \in Keys(l) : x < d
      /\ \A x \in Keys(r) : d < x
  BY <1>3 DEF Sound, Fits
<1>9. CASE i >= j
  <2>1. i = h + 1 /\ (j = h \/ j = h + 1)
    BY <1>5, <1>9 DEF Taller
  <2>2. balance(n) = Join(r.data, Join(d, l, r.left), r.right)
    BY <1>2, <1>4, <1>9, BalanceCases
  <2>3. PICK k : k = Join(d, l, r.left)
    OBVIOUS
  <2>4. Fits(d, l, r.left)
    BY <1>6, <1>8 DEF Fits
  <2>5. Level(l, r.left) /\ Taller(l.height, r.left.height) = j
    BY <1>4, <1>5, <2>1 DEF Level, Taller
  <2>6. Good(k) /\ Keys(k) = Keys(l) \cup {d} \cup Keys(r.left) /\ k.height = j + 1
    BY <1>1, <1>3, <2>3, <2>4, <2>5, GoodJoin
  <2>7. Fits(r.data, k, r.right)
    <3>1. r.data \in Keys(r) /\ d < r.data /\ r.data \in Nat
      BY <1>6, <1>7, <1>8
    <3>2. \A x \in Keys(l) : x < r.data
      BY <3>1, <1>7, <1>8
    <3>. QED
      BY <1>8, <2>6, <3>1, <3>2 DEF Fits
  <2>8. Level(k, r.right) /\ Taller(k.height, r.right.height) = j + 1
    BY <1>4, <1>5, <2>1, <2>6 DEF Level, Taller
  <2>9. PICK b : b = Join(r.data, k, r.right)
    OBVIOUS
  <2>10. Good(b) /\ Keys(b) = Keys(k) \cup {r.data} \cup Keys(r.right) /\ b.height = j + 1 + 1
    BY <1>3, <2>6, <2>7, <2>8, <2>9, GoodJoin
  <2>11. Keys(b) = Keys(l) \cup {d} \cup Keys(r)
    BY <1>6, <2>6, <2>10
  <2>12. b.height = r.height \/ b.height = r.height + 1
    BY <1>4, <1>5, <2>1, <2>10
  <2>. QED
    BY <1>2, <2>2, <2>3, <2>9, <2>10, <2>11, <2>12 DEF Mended
<1>10. CASE i < j
  <2>1. i = h /\ j = h + 1 /\ j > 0
    BY <1>5, <1>10 DEF Taller
  <2>2. PICK m : m = r.left
    OBVIOUS
  <2>3. m # Nil /\ Good(m) /\ m.height = h + 1
    <3>1. m.height = h + 1 /\ m.height > 0 /\ Good(m)
      BY <1>3, <1>4, <1>5, <2>1, <2>2
    <3>2. Nil.height = 0
      BY HeightIsNat
    <3>. QED
      BY <3>1, <3>2
  <2>4. balance(n) = Join(m.data, Join(d, l, m.left), Join(r.data, m.right, r.right))
    BY <1>2, <1>4, <1>10, <2>2, BalanceCases
  <2>5. /\ m.data \in TreeContacts /\ Sound(m) /\ Good(m.left) /\ Good(m.right)
        /\ m.left.height \in Nat /\ m.right.height \in Nat /\ m \in Trees
    BY <2>3, GoodParts
  <2>6. /\ m.left.height = h \/ m.left.height = h - 1
        /\ m.right.height = h \/ m.right.height = h - 1
    <3>1. PICK p, q : p = m.left.height /\ q = m.right.height
      OBVIOUS
    <3>2. /\ p \in Nat /\ q \in Nat /\ h + 1 = Taller(p, q) + 1
          /\ p <= q + 1 /\ q <= p + 1
      BY <2>3, <2>5, <3>1 DEF Sound, Level
    <3>3. (p = h \/ p = h - 1) /\ (q = h \/ q = h - 1)
      BY <1>5, <3>2 DEF Taller
    <3>. QED
      BY <3>1, <3>3
  <2>7. Keys(m) = Keys(m.left) \cup {m.data} \cup Keys(m.right)
    BY <2>3, <2>5, KeysOf
  <2>8. /\ \A x \in Keys(m.left) : x < m.data
        /\ \A x \in Keys(m.right) : m.data < x
    BY <2>5 DEF Sound, Fits
  <2>9. PICK a : a = Join(d, l, m.left)
    OBVIOUS
  <2>10. Fits(d, l, m.left)
    BY <1>6, <1>8, <2>2, <2>7 DEF Fits
  <2>11. Level(l, m.left) /\ Taller(l.height, m.left.height) = h
    BY <1>4, <1>5, <2>6 DEF Level, Taller
  <2>12. Good(a) /\ Keys(a) = Keys(l) \cup {d} \cup Keys(m.left) /\ a.height = h + 1
    BY <1>1, <2>5, <2>9, <2>10, <2>11, GoodJoin
  <2>13. PICK c : c = Join(r.data, m.right, r.right)
    OBVIOUS
  <2>14. Fits(r.data, m.right, r.right)
    BY <1>8, <2>2, <2>7 DEF Fits
  <2>15. Level(m.right, r.right) /\ Taller(m.right.height, r.right.height) = h
    BY <1>4, <1>5, <2>1, <2>6 DEF Level, Taller
  <2>16. Good(c) /\ Keys(c) = Keys(m.right) \cup {r.data} \cup Keys(r.right) /\ c.height = h + 1
    BY <1>3, <2>5, <2>13, <2>14, <2>15, GoodJoin
  <2>17. Fits(m.data, a, c)
    <3>1. m.data \in Keys(m) /\ m.data \in Keys(r) /\ d < m.data /\ m.data \in Nat
          /\ m.data < r.data /\ r.data \in Nat
      BY <1>6, <1>7, <1>8, <2>2, <2>7
    <3>2. \A x \in Keys(r.right) : x \in Nat /\ m.data < x
      BY <1>6, <1>7, <1>8, <3>1
    <3>3. \A x \in Keys(l) : x < m.data
      BY <1>7, <1>8, <3>1
    <3>. QED
      BY <2>8, <2>12, <2>16, <3>1, <3>2, <3>3 DEF Fits
  <2>18. Level(a, c) /\ Taller(a.height, c.height) = h + 1
    BY <1>5, <2>12, <2>16 DEF Level, Taller
  <2>19. PICK b : b = Join(m.data, a, c)
    OBVIOUS
  <2>20. Good(b) /\ Keys(b) = Keys(a) \cup {m.data} \cup Keys(c) /\ b.height = h + 1 + 1
    BY <2>5, <2>12, <2>16, <2>17, <2>18, <2>19, GoodJoin
  <2>21. Keys(b) = Keys(l) \cup {d} \cup Keys(r)
    BY <1>6, <2>2, <2>7, <2>12, <2>16, <2>20
  <2>22. b.height = r.height
    BY <1>4, <1>5, <2>20
  <2>. QED
    BY <1>2, <2>4, <2>9, <2>13, <2>19, <2>20, <2>21, <2>22 DEF Mended
<1>. QED
  BY <1>5, <1>9, <1>10

LEMMA Balances ==
  ASSUME NEW n \in NodesOver(AllTrees), NEW d, NEW l, NEW r,
         d = n.data, l = n.left, r = n.right,
         Good(l), Good(r), Fits(d, l, r),
         l.height <= r.height + 2, r.height <= l.height + 2
  PROVE  Mended(balance(n), d, l, r)
<1>1. l.height \in Nat /\ r.height \in Nat /\ d \in TreeContacts
  BY GoodParts, AllParts
<1>2. CASE Level(l, r)
  <2>1. balance(n) = Join(d, l, r)
    BY <1>2, BalanceCases DEF Level
  <2>. QED
    BY <1>1, <1>2, <2>1, GoodJoin DEF Mended
<1>3. CASE ~Level(l, r)
  <2>1. l.height = r.height + 2 \/ r.height = l.height + 2
    BY <1>1, <1>3 DEF Level
  <2>2. CASE l.height = r.height + 2
    BY <2>2, LeftIsHigh
  <2>3. CASE r.height = l.height + 2
    BY <2>3, RightIsHigh
  <2>. QED
    BY <2>1, <2>2, <2>3
<1>. QED
  BY <1>2, <1>3

\* insert_node() adds its contact, and the tree grows by a level at most.
Inserted(t, c) ==
  LET u == insert_node[t][c]
  IN  /\ Good(u) /\ Keys(u) = Keys(t) \cup {c}
      /\ u.height = t.height \/ u.height = t.height + 1

LEMMA InsertIsGood ==
  \A t \in Trees : Good(t) => \A c \in TreeContacts : Inserted(t, c)
<1> DEFINE S == {t \in Trees : Good(t) => \A c \in TreeContacts : Inserted(t, c)}
<1>1. Nil \in S
  <2> SUFFICES ASSUME NEW c \in TreeContacts PROVE Inserted(Nil, c)
    BY NilIsTree
  <2>1. insert_node[Nil][c] = Join(c, Nil, Nil)
    BY InsertValues, LeafJoin
  <2>2. Fits(c, Nil, Nil) /\ Level(Nil, Nil) /\ Taller(Nil.height, Nil.height) = 0
    BY KeysOf, HeightIsNat DEF Fits, Level, Taller
  <2>. QED
    BY <2>1, <2>2, NilIsGood, GoodJoin, KeysOf, HeightIsNat DEF Inserted
<1>2. ASSUME NEW t \in Trees, t # Nil, t.left \in S, t.right \in S PROVE t \in S
  <2> SUFFICES ASSUME Good(t), NEW c \in TreeContacts PROVE Inserted(t, c)
    OBVIOUS
  <2>1. /\ t \in NodesOver(AllTrees) /\ Sound(t) /\ t.data \in TreeContacts
        /\ Good(t.left) /\ Good(t.right)
    BY <1>2, GoodParts
  <2>2. PICK d, l, r : d = t.data /\ l = t.left /\ r = t.right
    OBVIOUS
  <2>3. /\ l.height \in Nat /\ r.height \in Nat
        /\ t.height = Taller(l.height, r.height) + 1
        /\ l.height <= r.height + 1 /\ r.height <= l.height + 1
        /\ Fits(d, l, r) /\ Keys(t) = Keys(l) \cup {d} \cup Keys(r)
    BY <1>2, <2>1, <2>2, GoodParts, KeysOf DEF Sound, Level
  <2>4. d \in Nat /\ c \in Nat
    BY <2>1, <2>2, TreeAssumption
  <2>5. CASE c < d
    <3>1. PICK u : u = insert_node[l][c]
      OBVIOUS
    <3>2. /\ Good(u) /\ Keys(u) = Keys(l) \cup {c}
          /\ u.height = l.height \/ u.height = l.height + 1
      BY <1>2, <2>1, <2>2, <3>1 DEF Inserted
    <3>3. u \in AllTrees
      BY <3>2, GoodParts
    <3>4. PICK n : n = [t EXCEPT !.left = u]
      OBVIOUS
    <3>5. n \in NodesOver(AllTrees) /\ n.data = d /\ n.left = u /\ n.right = r
      BY <2>1, <2>2, <3>3, <3>4, SetLeft
    <3>6. insert_node[t][c] = balance(n)
      BY <1>2, <2>2, <2>5, <3>1, <3>4, InsertValues
    <3>7. Fits(d, u, r)
      BY <2>3, <2>5, <3>2 DEF Fits
    <3>8. u.height <= r.height + 2 /\ r.height <= u.height + 2
      BY <2>3, <3>2
    <3>9. PICK b : b = balance(n)
      OBVIOUS
    <3>10. Mended(b, d, u, r)
      BY <2>1, <2>2, <3>2, <3>5, <3>7, <3>8, <3>9, Balances
    <3>11. b.height = t.height \/ b.height = t.height + 1
      BY <2>3, <3>2, <3>10 DEF Mended, Level, Taller
    <3>12. Keys(b) = Keys(t) \cup {c}
      BY <2>3, <3>2, <3>10 DEF Mended
    <3>. QED
      BY <3>6, <3>9, <3>10, <3>11, <3>12 DEF Inserted, Mended
  <2>6. CASE c > d
    <3>1. PICK u : u = insert_node[r][c]
      OBVIOUS
    <3>2. /\ Good(u) /\ Keys(u) = Keys(r) \cup {c}
          /\ u.height = r.height \/ u.height = r.height + 1
      BY <1>2, <2>1, <2>2, <3>1 DEF Inserted
    <3>3. u \in AllTrees
      BY <3>2, GoodParts
    <3>4. PICK n : n = [t EXCEPT !.right = u]
      OBVIOUS
    <3>5. n \in NodesOver(AllTrees) /\ n.data = d /\ n.left = l /\ n.right = u
      BY <2>1, <2>2, <3>3, <3>4, SetRight
    <3>6. insert_node[t][c] = balance(n)
      <4>1. ~(c < t.data) /\ c > t.data
        BY <2>2, <2>4, <2>6
      <4>2. insert_node[t][c] = balance([t EXCEPT !.right = insert_node[t.right][c]])
        BY <1>2, <4>1, InsertValues
      <4>. QED
        BY <2>2, <3>1, <3>4, <4>2
    <3>7. Fits(d, l, u)
      BY <2>3, <2>4, <2>6, <3>2 DEF Fits
    <3>8. l.height <= u.height + 2 /\ u.height <= l.height + 2
      BY <2>3, <3>2
    <3>9. PICK b : b = balance(n)
      OBVIOUS
    <3>10. Mended(b, d, l, u)
      BY <2>1, <2>2, <3>2, <3>5, <3>7, <3>8, <3>9, Balances
    <3>11. b.height = t.height \/ b.height = t.height + 1
      BY <2>3, <3>2, <3>10 DEF Mended, Level, Taller
    <3>12. Keys(b) = Keys(t) \cup {c}
      BY <2>3, <3>2, <3>10 DEF Mended
    <3>. QED
      BY <3>6, <3>9, <3>10, <3>11, <3>12 DEF Inserted, Mended
  <2>7. CASE c = d
    <3>1. insert_node[t][c] = t
      <4>1. ~(c < t.data) /\ ~(c > t.data)
        BY <2>2, <2>4, <2>7
      <4>. QED
        BY <1>2, <4>1, InsertValues
    <3>2. Keys(t) = Keys(t) \cup {c}
      BY <2>3, <2>7
    <3>. QED
      BY <3>1, <3>2 DEF Inserted
  <2>. QED
    BY <2>4, <2>5, <2>6, <2>7
<1> HIDE DEF S
<1>3. \A t \in Trees : t \in S
  BY <1>1, <1>2, TreeInduction
<1>. QED
  BY <1>3 DEF S

\* find_min() finds the least contact.
LEMMA MinIsLeast ==
  \A t \in Trees : Good(t) /\ t # Nil =>
    find_min[t] \in Keys(t) /\ \A x \in Keys(t) : find_min[t] <= x
<1> DEFINE IsLeast(t) == find_min[t] \in Keys(t) /\ \A x \in Keys(t) : find_min[t] <= x
           S == {t \in Trees : Good(t) /\ t # Nil => IsLeast(t)}
<1>1. Nil \in S
  BY NilIsTree
<1>2. ASSUME NEW t \in Trees, t # Nil, t.left \in S, t.right \in S PROVE t \in S
  <2> SUFFICES ASSUME Good(t) PROVE IsLeast(t)
    OBVIOUS
  <2>1. Good(t.left) /\ Good(t.right) /\ Sound(t) /\ t.data \in TreeContacts
    BY <1>2, GoodParts
  <2>2. Keys(t) = Keys(t.left) \cup {t.data} \cup Keys(t.right)
    BY <1>2, KeysOf
  <2>3. Keys(t) \subseteq Nat
    BY KeysOf, TreeAssumption
  <2>4. /\ \A x \in Keys(t.left) : x < t.data
        /\ \A x \in Keys(t.right) : t.data < x
    BY <2>1 DEF Sound, Fits
  <2>5. CASE t.left = Nil
    <3>1. find_min[t] = t.data
      BY <1>2, <2>5, FindMinValues
    <3>2. Keys(t.left) = {}
      BY <2>5, KeysOf
    <3>3. \A x \in Keys(t) : t.data <= x
      BY <2>2, <2>3, <2>4, <3>2
    <3>. QED
      BY <2>2, <3>1, <3>3
  <2>6. CASE t.left # Nil
    <3>1. find_min[t] = find_min[t.left]
      BY <1>2, <2>6, FindMinValues
    <3>2. PICK f : f = find_min[t.left]
      OBVIOUS
    <3>3. f \in Keys(t.left) /\ \A x \in Keys(t.left) : f <= x
      BY <1>2, <2>1, <2>6, <3>2
    <3>4. \A x \in Keys(t) : f <= x
      BY <2>2, <2>3, <2>4, <3>3
    <3>. QED
      BY <2>2, <3>1, <3>2, <3>3, <3>4
  <2>. QED
    BY <2>5, <2>6
<1> HIDE DEF S
<1>3. \A t \in Trees : t \in S
  BY <1>1, <1>2, TreeInduction
<1>. QED
  BY <1>3 DEF S

\* A good tree stays as it was in what matters.
LEMMA StaysGood ==
  ASSUME NEW t, Good(t), t # Nil
  PROVE  Good(balance(t)) /\ Keys(balance(t)) = Keys(t) /\ balance(t).height = t.height
<1>1. /\ t \in NodesOver(AllTrees) /\ Sound(t) /\ t \in Trees
      /\ Good(t.left) /\ Good(t.right)
  BY GoodParts
<1>2. t.left.height \in Nat /\ t.right.height \in Nat
  BY <1>1, GoodParts
<1>3. /\ t.left.height <= t.right.height + 2 /\ t.right.height <= t.left.height + 2
      /\ Level(t.left, t.right) /\ Fits(t.data, t.left, t.right)
  BY <1>1, <1>2 DEF Sound, Level
<1>4. Mended(balance(t), t.data, t.left, t.right)
  BY <1>1, <1>3, Balances
<1>5. Keys(t) = Keys(t.left) \cup {t.data} \cup Keys(t.right)
  BY <1>1, KeysOf
<1>. QED
  BY <1>1, <1>3, <1>4, <1>5 DEF Mended, Sound

\* delete_node() takes its contact out, and the tree loses a level at most.
Deleted(t, c) ==
  LET u == delete_node[t][c]
  IN  /\ Good(u) /\ Keys(u) = Keys(t) \ {c}
      /\ u.height = t.height \/ u.height = t.height - 1

\* A node of which one side has lost a level.
LEMMA OneSideLower ==
  ASSUME NEW t, Good(t), t # Nil, NEW n \in NodesOver(AllTrees), Good(n.left), Good(n.right),
         Fits(n.data, n.left, n.right),
         \/ /\ n.right.height = t.right.height
            /\ n.left.height = t.left.height \/ n.left.height = t.left.height - 1
         \/ /\ n.left.height = t.left.height
            /\ n.right.height = t.right.height \/ n.right.height = t.right.height - 1
  PROVE  /\ Good(balance(n))
         /\ Keys(balance(n)) = Keys(n.left) \cup {n.data} \cup Keys(n.right)
         /\ balance(n).height = t.height \/ balance(n).height = t.height - 1
<1>1. Sound(t) /\ Good(t.left) /\ Good(t.right)
  BY GoodParts
<1>2. PICK i, j, p, q : /\ i = t.left.height /\ j = t.right.height
                        /\ p = n.left.height /\ q = n.right.height
  OBVIOUS
<1>3. i \in Nat /\ j \in Nat /\ p \in Nat /\ q \in Nat
  BY <1>1, <1>2, GoodParts
<1>4. t.height = Taller(i, j) + 1 /\ i <= j + 1 /\ j <= i + 1
  BY <1>1, <1>2 DEF Sound, Level
<1>5. p <= q + 2 /\ q <= p + 2
  BY <1>2, <1>3, <1>4
<1>6. Mended(balance(n), n.data, n.left, n.right)
  BY <1>2, <1>5, Balances
<1>7. PICK b : b = balance(n).height
  OBVIOUS
<1>8. /\ b = Taller(p, q) \/ b = Taller(p, q) + 1
      /\ (p <= q + 1 /\ q <= p + 1) => b = Taller(p, q) + 1
  BY <1>2, <1>6, <1>7 DEF Mended, Level
<1>9. b = t.height \/ b = t.height - 1
  <2>1. \/ q = j /\ (p = i \/ p = i - 1)
        \/ p = i /\ (q = j \/ q = j - 1)
    BY <1>2
  <2>. QED
    BY <1>3, <1>4, <1>8, <2>1 DEF Taller
<1>. QED
  BY <1>6, <1>7, <1>9 DEF Mended

LEMMA DeleteIsGood ==
  \A t \in Trees : Good(t) => \A c \in TreeContacts : Deleted(t, c)
<1> DEFINE S == {t \in Trees : Good(t) => \A c \in TreeContacts : Deleted(t, c)}
<1>1. Nil \in S
  BY NilIsTree, NilIsGood, KeysOf, DeleteValues DEF Deleted
<1>2. ASSUME NEW t \in Trees, t # Nil, t.left \in S, t.right \in S PROVE t \in S
  <2> SUFFICES ASSUME Good(t), NEW c \in TreeContacts PROVE Deleted(t, c)
    OBVIOUS
  <2>1. /\ t \in NodesOver(AllTrees) /\ Sound(t) /\ t.data \in TreeContacts
        /\ Good(t.left) /\ Good(t.right)
    BY <1>2, GoodParts
  <2>2. PICK d, l, r : d = t.data /\ l = t.left /\ r = t.right
    OBVIOUS
  <2>3. /\ l.height \in Nat /\ r.height \in Nat
        /\ t.height = Taller(l.height, r.height) + 1
        /\ l.height <= r.height + 1 /\ r.height <= l.height + 1
        /\ Fits(d, l, r) /\ Keys(t) = Keys(l) \cup {d} \cup Keys(r)
    BY <1>2, <2>1, <2>2, GoodParts, KeysOf DEF Sound, Level
  <2>4. d \in Nat /\ c \in Nat /\ Keys(t) \subseteq Nat
    BY <2>1, <2>2, TreeAssumption, KeysOf
  <2>5. /\ \A x \in Keys(l) : x < d /\ x \in Nat
        /\ \A x \in Keys(r) : d < x /\ x \in Nat
    BY <2>3, <2>4 DEF Fits
  <2>6. CASE c < d
    <3>1. PICK u : u = delete_node[l][c]
      OBVIOUS
    <3>2. /\ Good(u) /\ Keys(u) = Keys(l) \ {c}
          /\ u.height = l.height \/ u.height = l.height - 1
      BY <1>2, <2>1, <2>2, <3>1 DEF Deleted
    <3>3. PICK n : n = [t EXCEPT !.left = u]
      OBVIOUS
    <3>4. n \in NodesOver(AllTrees) /\ n.data = d /\ n.left = u /\ n.right = r
      BY <2>1, <2>2, <3>2, <3>3, GoodParts, SetLeft
    <3>5. delete_node[t][c] = balance(n)
      BY <1>2, <2>2, <2>6, <3>1, <3>3, DeleteValues
    <3>6. Fits(d, u, r)
      BY <2>3, <3>2 DEF Fits
    <3>7. /\ Good(balance(n))
          /\ Keys(balance(n)) = Keys(u) \cup {d} \cup Keys(r)
          /\ balance(n).height = t.height \/ balance(n).height = t.height - 1
      BY <1>2, <2>1, <2>2, <3>2, <3>4, <3>6, OneSideLower
    <3>8. Keys(balance(n)) = Keys(t) \ {c}
      <4>1. c # d /\ c \notin Keys(r)
        BY <2>4, <2>5, <2>6
      <4>. QED
        BY <2>3, <3>2, <3>7, <4>1
    <3>. QED
      BY <3>5, <3>7, <3>8 DEF Deleted
  <2>7. CASE c > d
    <3>1. PICK u : u = delete_node[r][c]
      OBVIOUS
    <3>2. /\ Good(u) /\ Keys(u) = Keys(r) \ {c}
          /\ u.height = r.height \/ u.height = r.height - 1
      BY <1>2, <2>1, <2>2, <3>1 DEF Deleted
    <3>3. PICK n : n = [t EXCEPT !.right = u]
      OBVIOUS
    <3>4. n \in NodesOver(AllTrees) /\ n.data = d /\ n.left = l /\ n.right = u
      BY <2>1, <2>2, <3>2, <3>3, GoodParts, SetRight
    <3>5. delete_node[t][c] = balance(n)
      <4>1. ~(c < t.data) /\ c > t.data
        BY <2>2, <2>4, <2>7
      <4>2. delete_node[t][c] = balance([t EXCEPT !.right = delete_node[t.right][c]])
        BY <1>2, <4>1, DeleteValues
      <4>. QED
        BY <2>2, <3>1, <3>3, <4>2
    <3>6. Fits(d, l, u)
      BY <2>3, <3>2 DEF Fits
    <3>7. /\ Good(balance(n))
          /\ Keys(balance(n)) = Keys(l) \cup {d} \cup Keys(u)
          /\ balance(n).height = t.height \/ balance(n).height = t.height - 1
      BY <1>2, <2>1, <2>2, <3>2, <3>4, <3>6, OneSideLower
    <3>8. Keys(balance(n)) = Keys(t) \ {c}
      <4>1. c # d /\ c \notin Keys(l)
        BY <2>4, <2>5, <2>7
      <4>. QED
        BY <2>3, <3>2, <3>7, <4>1
    <3>. QED
      BY <3>5, <3>7, <3>8 DEF Deleted
  <2>8. CASE c = d
    <3>1. ~(c < t.data) /\ ~(c > t.data)
      BY <2>2, <2>4, <2>8
    <3>2. d \notin Keys(l) /\ d \notin Keys(r)
      BY <2>4, <2>5
    <3>3. Nil.height = 0 /\ Keys(Nil) = {}
      BY HeightIsNat, KeysOf
    <3>4. CASE l = Nil /\ r = Nil
      <4>1. delete_node[t][c] = Nil
        BY <1>2, <2>2, <3>1, <3>4, DeleteValues
      <4>2. t.height = 1 /\ Keys(t) = {c}
        BY <2>3, <2>8, <3>3, <3>4 DEF Taller
      <4>. QED
        BY <3>3, <4>1, <4>2, NilIsGood DEF Deleted
    <3>5. CASE l = Nil /\ r # Nil
      <4>1. delete_node[t][c] = balance(r)
        BY <1>2, <2>2, <3>1, <3>5, DeleteValues
      <4>2. Good(balance(r)) /\ Keys(balance(r)) = Keys(r) /\ balance(r).height = r.height
        BY <2>1, <2>2, <3>5, StaysGood
      <4>3. t.height = r.height + 1
        BY <2>3, <3>3, <3>5 DEF Taller
      <4>4. Keys(r) = Keys(t) \ {c} /\ r.height = t.height - 1
        BY <2>3, <2>8, <3>2, <3>3, <3>5, <4>3
      <4>. QED
        BY <4>1, <4>2, <4>4 DEF Deleted
    <3>6. CASE l # Nil /\ r = Nil
      <4>1. delete_node[t][c] = balance(l)
        BY <1>2, <2>2, <3>1, <3>6, DeleteValues
      <4>2. Good(balance(l)) /\ Keys(balance(l)) = Keys(l) /\ balance(l).height = l.height
        BY <2>1, <2>2, <3>6, StaysGood
      <4>3. t.height = l.height + 1
        BY <2>3, <3>3, <3>6 DEF Taller
      <4>4. Keys(l) = Keys(t) \ {c} /\ l.height = t.height - 1
        BY <2>3, <2>8, <3>2, <3>3, <3>6, <4>3
      <4>. QED
        BY <4>1, <4>2, <4>4 DEF Deleted
    <3>7. CASE l # Nil /\ r # Nil
      <4>1. PICK m : m = find_min[r]
        OBVIOUS
      <4>2. r \in Trees
        BY <2>1, <2>2, GoodParts
      <4>3. m \in TreeContacts /\ m \in Keys(r) /\ \A x \in Keys(r) : m <= x
        BY <2>1, <2>2, <3>7, <4>1, <4>2, FindMinType, MinIsLeast
      <4>4. PICK u : u = delete_node[r][m]
        OBVIOUS
      <4>5. /\ Good(u) /\ Keys(u) = Keys(r) \ {m}
            /\ u.height = r.height \/ u.height = r.height - 1
        BY <1>2, <2>1, <2>2, <4>3, <4>4 DEF Deleted
      <4>6. PICK n : n = Replaced(t, m, u)
        OBVIOUS
      <4>7. n \in NodesOver(AllTrees) /\ n.data = m /\ n.left = l /\ n.right = u
        <5>1. u \in AllTrees
          BY <4>5, GoodParts
        <5>. QED
          BY <2>1, <2>2, <4>3, <4>6, <5>1, ReplacedParts
      <4>8. delete_node[t][c] = balance(n)
        BY <1>2, <2>2, <3>1, <3>7, <4>1, <4>4, <4>6, DeleteValues
      <4>9. Fits(m, l, u)
        <5>1. d < m /\ m \in Nat
          BY <2>5, <4>3
        <5>2. \A x \in Keys(l) : x < m
          BY <2>4, <2>5, <5>1
        <5>3. \A x \in Keys(u) : m < x
          BY <2>5, <4>3, <4>5, <5>1
        <5>. QED
          BY <5>2, <5>3 DEF Fits
      <4>10. /\ Good(balance(n))
             /\ Keys(balance(n)) = Keys(l) \cup {m} \cup Keys(u)
             /\ balance(n).height = t.height \/ balance(n).height = t.height - 1
        BY <1>2, <2>1, <2>2, <4>5, <4>7, <4>9, OneSideLower
      <4>11. Keys(balance(n)) = Keys(t) \ {c}
        BY <2>3, <2>8, <3>2, <4>3, <4>5, <4>10
      <4>. QED
        BY <4>8, <4>10, <4>11 DEF Deleted
    <3>. QED
      BY <3>4, <3>5, <3>6, <3>7
  <2>. QED
    BY <2>4, <2>6, <2>7, <2>8
<1> HIDE DEF S
<1>3. \A t \in Trees : t \in S
  BY <1>1, <1>2, TreeInduction
<1>. QED
  BY <1>3 DEF S

LEMMA NodesAreGood ==
  \A t \in Trees : Good(t) => \A m \in nodes[t] : Good(m) /\ m # Nil
<1> DEFINE S == {t \in Trees : Good(t) => \A m \in nodes[t] : Good(m) /\ m # Nil}
<1>1. Nil \in S
  BY NilIsTree, NodesValues
<1>2. ASSUME NEW t \in Trees, t # Nil, t.left \in S, t.right \in S PROVE t \in S
  BY <1>2, GoodParts, NodesValues
<1> HIDE DEF S
<1>3. \A t \in Trees : t \in S
  BY <1>1, <1>2, TreeInduction
<1>. QED
  BY <1>3 DEF S

\* The height a node shows is its own.
LEMMA DepthIsHeight == \A t \in Trees : Good(t) => depth[t] = t.height
<1> DEFINE S == {t \in Trees : Good(t) => depth[t] = t.height}
<1>1. Nil \in S
  BY NilIsTree, DepthValues, HeightIsNat
<1>2. ASSUME NEW t \in Trees, t # Nil, t.left \in S, t.right \in S PROVE t \in S
  BY <1>2, GoodParts, DepthValues DEF Sound
<1> HIDE DEF S
<1>3. \A t \in Trees : t \in S
  BY <1>1, <1>2, TreeInduction
<1>. QED
  BY <1>3 DEF S

\* find_node() finds the contacts of a good tree and no other.
LEMMA FindsIt ==
  \A t \in Trees : Good(t) => \A c \in TreeContacts : find_node[t][c] = Keys(t) \cap {c}
<1> DEFINE S == {t \in Trees : Good(t) =>
                   \A c \in TreeContacts : find_node[t][c] = Keys(t) \cap {c}}
<1>1. Nil \in S
  BY NilIsTree, FindValues, KeysOf
<1>2. ASSUME NEW t \in Trees, t # Nil, t.left \in S, t.right \in S PROVE t \in S
  <2> SUFFICES ASSUME Good(t), NEW c \in TreeContacts
               PROVE  find_node[t][c] = Keys(t) \cap {c}
    OBVIOUS
  <2>1. Good(t.left) /\ Good(t.right) /\ Sound(t) /\ t.data \in TreeContacts
    BY <1>2, GoodParts
  <2>2. Keys(t) = Keys(t.left) \cup {t.data} \cup Keys(t.right) /\ Keys(t) \subseteq Nat
    BY <1>2, KeysOf, TreeAssumption
  <2>3. /\ \A x \in Keys(t.left) : x < t.data /\ x \in Nat
        /\ \A x \in Keys(t.right) : t.data < x /\ x \in Nat
    BY <2>1, <2>2 DEF Sound, Fits
  <2>4. c \in Nat /\ t.data \in Nat
    BY <2>1, TreeAssumption
  <2>5. /\ find_node[t.left][c] = Keys(t.left) \cap {c}
        /\ find_node[t.right][c] = Keys(t.right) \cap {c}
    BY <1>2, <2>1
  <2>6. CASE c < t.data
    <3>1. find_node[t][c] = find_node[t.left][c]
      BY <1>2, <2>6, FindValues
    <3>2. c # t.data /\ c \notin Keys(t.right)
      BY <2>3, <2>4, <2>6
    <3>. QED
      BY <2>2, <2>5, <3>1, <3>2
  <2>7. CASE c > t.data
    <3>1. ~(c < t.data) /\ c > t.data
      BY <2>4, <2>7
    <3>2. find_node[t][c] = find_node[t.right][c]
      BY <1>2, <3>1, FindValues
    <3>3. c # t.data /\ c \notin Keys(t.left)
      BY <2>3, <2>4, <2>7
    <3>. QED
      BY <2>2, <2>5, <3>2, <3>3
  <2>8. CASE c = t.data
    <3>1. ~(c < t.data) /\ ~(c > t.data)
      BY <2>4, <2>8
    <3>2. find_node[t][c] = {t.data}
      BY <1>2, <3>1, FindValues
    <3>. QED
      BY <2>2, <2>8, <3>2
  <2>. QED
    BY <2>4, <2>6, <2>7, <2>8
<1> HIDE DEF S
<1>3. \A t \in Trees : t \in S
  BY <1>1, <1>2, TreeInduction
<1>. QED
  BY <1>3 DEF S

\* A row of contacts in their order that holds those of K.
Rising(s) == \A i, j \in 1 .. Len(s) : i < j => s[i] < s[j]
Lists(s, K) ==
  /\ \A i \in 1 .. Len(s) : s[i] \in K
  /\ \A x \in K : \E i \in 1 .. Len(s) : s[i] = x

\* Two such rows with a contact between them make one.
LEMMA RowsJoined ==
  ASSUME NEW a \in Seq(TreeContacts), NEW b \in Seq(TreeContacts), NEW d \in TreeContacts,
         NEW A, NEW B, Lists(a, A), Lists(b, B), Rising(a), Rising(b),
         \A x \in A : x < d, \A x \in B : d < x
  PROVE  Rising(a \o <<d>> \o b) /\ Lists(a \o <<d>> \o b, A \cup {d} \cup B)
<1>1. PICK n \in Nat, m \in Nat : n = Len(a) /\ m = Len(b)
  OBVIOUS
<1>2. PICK s : s = a \o <<d>> \o b
  OBVIOUS
<1>3. /\ Len(s) = n + m + 1
      /\ \A i \in 1 .. n : s[i] = a[i]
      /\ s[n + 1] = d
      /\ \A i \in 1 .. m : s[n + 1 + i] = b[i]
  <2>1. PICK c : c = a \o <<d>>
    OBVIOUS
  <2>2. /\ c \in Seq(TreeContacts) /\ Len(c) = n + 1
        /\ \A i \in 1 .. n : c[i] = a[i]
        /\ c[n + 1] = d
    BY <1>1, <2>1
  <2>3. /\ s = c \o b /\ Len(s) = n + 1 + m
        /\ \A i \in 1 .. n + 1 : s[i] = c[i]
        /\ \A i \in 1 .. m : s[n + 1 + i] = b[i]
    BY <1>1, <1>2, <2>1, <2>2
  <2>. QED
    BY <2>2, <2>3
<1>4. \A i \in 1 .. n + m + 1 :
        \/ i \in 1 .. n /\ s[i] = a[i]
        \/ i = n + 1 /\ s[i] = d
        \/ i - (n + 1) \in 1 .. m /\ s[i] = b[i - (n + 1)]
  <2> TAKE i \in 1 .. n + m + 1
  <2>1. CASE i \in 1 .. n
    BY <1>3, <2>1
  <2>2. CASE i = n + 1
    BY <1>3, <2>2
  <2>3. CASE i > n + 1
    <3>1. i - (n + 1) \in 1 .. m /\ n + 1 + (i - (n + 1)) = i
      BY <2>3
    <3>. QED
      BY <1>3, <3>1
  <2>. QED
    BY <2>1, <2>2, <2>3
<1>5. /\ \A i \in 1 .. n : a[i] \in A /\ a[i] \in Nat /\ a[i] < d
      /\ \A i \in 1 .. m : b[i] \in B /\ b[i] \in Nat /\ d < b[i]
      /\ d \in Nat
  <2>1. \A i \in 1 .. n : a[i] \in A /\ a[i] \in TreeContacts
    BY <1>1 DEF Lists
  <2>2. \A i \in 1 .. m : b[i] \in B /\ b[i] \in TreeContacts
    BY <1>1 DEF Lists
  <2>. QED
    BY <2>1, <2>2, TreeAssumption
<1>6. /\ \A i, j \in 1 .. n : i < j => a[i] < a[j]
      /\ \A i, j \in 1 .. m : i < j => b[i] < b[j]
  BY <1>1 DEF Rising
<1>7. ASSUME NEW i \in 1 .. n + m + 1, NEW j \in 1 .. n + m + 1, i < j
      PROVE  s[i] < s[j]
  <2>1. CASE i \in 1 .. n
    <3>1. s[i] = a[i]
      BY <1>3, <2>1
    <3>2. CASE j \in 1 .. n
      BY <1>3, <1>6, <1>7, <2>1, <3>1, <3>2
    <3>3. CASE j = n + 1
      BY <1>3, <1>5, <2>1, <3>1, <3>3
    <3>4. CASE j - (n + 1) \in 1 .. m /\ s[j] = b[j - (n + 1)]
      BY <1>5, <2>1, <3>1, <3>4
    <3>. QED
      BY <1>4, <3>2, <3>3, <3>4
  <2>2. CASE i = n + 1
    <3>1. j - (n + 1) \in 1 .. m /\ s[j] = b[j - (n + 1)]
      BY <1>4, <1>7, <2>2
    <3>. QED
      BY <1>3, <1>5, <2>2, <3>1
  <2>3. CASE i - (n + 1) \in 1 .. m /\ s[i] = b[i - (n + 1)]
    <3>1. j - (n + 1) \in 1 .. m /\ s[j] = b[j - (n + 1)] /\ i - (n + 1) < j - (n + 1)
      BY <1>4, <1>7, <2>3
    <3>. QED
      BY <1>6, <2>3, <3>1
  <2>. QED
    BY <1>4, <2>1, <2>2, <2>3
<1>8. Rising(s)
  BY <1>3, <1>7 DEF Rising
<1>9. \A i \in 1 .. n + m + 1 : s[i] \in A \cup {d} \cup B
  BY <1>4, <1>5
<1>10. ASSUME NEW x \in A \cup {d} \cup B PROVE \E i \in 1 .. n + m + 1 : s[i] = x
  <2>1. CASE x \in A
    <3>1. PICK i \in 1 .. n : a[i] = x
      BY <1>1, <2>1 DEF Lists
    <3>2. i \in 1 .. n + m + 1 /\ s[i] = x
      BY <1>3, <3>1
    <3>. QED
      BY <3>2
  <2>2. CASE x = d
    <3>1. n + 1 \in 1 .. n + m + 1 /\ s[n + 1] = x
      BY <1>3, <2>2
    <3>. QED
      BY <3>1
  <2>3. CASE x \in B
    <3>1. PICK i \in 1 .. m : b[i] = x
      BY <1>1, <2>3 DEF Lists
    <3>2. n + 1 + i \in 1 .. n + m + 1 /\ s[n + 1 + i] = x
      BY <1>3, <3>1
    <3>. QED
      BY <3>2
  <2>. QED
    BY <2>1, <2>2, <2>3
<1>11. Lists(s, A \cup {d} \cup B)
  BY <1>3, <1>9, <1>10 DEF Lists
<1>. QED
  BY <1>2, <1>8, <1>11

\* inorder() lists the contacts of a good tree in their order.
LEMMA ComesInOrder ==
  \A t \in Trees : Good(t) => Rising(inorder[t]) /\ Lists(inorder[t], Keys(t))
<1> DEFINE S == {t \in Trees : Good(t) => Rising(inorder[t]) /\ Lists(inorder[t], Keys(t))}
<1>1. Nil \in S
  <2>1. inorder[Nil] = <<>> /\ Len(<<>>) = 0 /\ Keys(Nil) = {}
    BY InorderValues, KeysOf
  <2>. QED
    BY <2>1, NilIsTree DEF Rising, Lists
<1>2. ASSUME NEW t \in Trees, t # Nil, t.left \in S, t.right \in S PROVE t \in S
  <2> SUFFICES ASSUME Good(t) PROVE Rising(inorder[t]) /\ Lists(inorder[t], Keys(t))
    OBVIOUS
  <2>1. /\ Good(t.left) /\ Good(t.right) /\ Sound(t) /\ t.data \in TreeContacts
        /\ t.left \in Trees /\ t.right \in Trees
    BY <1>2, GoodParts, NodeParts
  <2>2. Keys(t) = Keys(t.left) \cup {t.data} \cup Keys(t.right)
    BY <1>2, KeysOf
  <2>3. inorder[t] = inorder[t.left] \o <<t.data>> \o inorder[t.right]
    BY <1>2, InorderValues
  <2>4. inorder[t.left] \in Seq(TreeContacts) /\ inorder[t.right] \in Seq(TreeContacts)
    BY <2>1, InorderValues
  <2>5. /\ \A x \in Keys(t.left) : x < t.data
        /\ \A x \in Keys(t.right) : t.data < x
    BY <2>1 DEF Sound, Fits
  <2>6. /\ Rising(inorder[t.left]) /\ Lists(inorder[t.left], Keys(t.left))
        /\ Rising(inorder[t.right]) /\ Lists(inorder[t.right], Keys(t.right))
    BY <1>2, <2>1
  <2>7. /\ Rising(inorder[t.left] \o <<t.data>> \o inorder[t.right])
        /\ Lists(inorder[t.left] \o <<t.data>> \o inorder[t.right],
                 Keys(t.left) \cup {t.data} \cup Keys(t.right))
    BY <2>1, <2>4, <2>5, <2>6, RowsJoined
  <2>. QED
    BY <2>2, <2>3, <2>7
<1> HIDE DEF S
<1>3. \A t \in Trees : t \in S
  BY <1>1, <1>2, TreeInduction
<1>. QED
  BY <1>3 DEF S
-----------------------------------------------------------------------------
\* The inductive invariant: the tree is good and holds what is stored.
ITree == Good(root) /\ Keys(root) = stored /\ stored \subseteq TreeContacts

LEMMA ITreeKept == ITree => TreeKept
<1> SUFFICES ASSUME ITree PROVE TreeKept
  OBVIOUS
<1>1. Good(root) /\ Keys(root) = stored /\ root \in Trees
  BY GoodParts DEF ITree
<1>2. ASSUME NEW t \in nodes[root]
      PROVE  t.height = depth[t] /\ depth[t.left] - depth[t.right] \in -1 .. 1
  <2>1. Good(t) /\ t # Nil
    BY <1>1, NodesAreGood
  <2>2. Sound(t) /\ Good(t.left) /\ Good(t.right)
    BY <2>1, GoodParts
  <2>3. PICK i, j : i = t.left.height /\ j = t.right.height
    OBVIOUS
  <2>4. i \in Nat /\ j \in Nat /\ t \in Trees /\ t.left \in Trees /\ t.right \in Trees
    BY <2>1, <2>2, <2>3, GoodParts
  <2>5. depth[t] = t.height /\ depth[t.left] = i /\ depth[t.right] = j
    BY <2>1, <2>2, <2>3, <2>4, DepthIsHeight
  <2>6. i <= j + 1 /\ j <= i + 1
    BY <2>2, <2>3 DEF Sound, Level
  <2>7. i - j \in -1 .. 1
    BY <2>4, <2>6
  <2>. QED
    BY <2>5, <2>7
<1>3. PICK out : out = inorder[root]
  OBVIOUS
<1>4. out \in Seq(TreeContacts) /\ DOMAIN out = 1 .. Len(out)
  BY <1>1, <1>3, InorderValues
<1>5. Rising(out) /\ Lists(out, stored)
  BY <1>1, <1>3, ComesInOrder
<1>6. \A i, j \in DOMAIN out : i < j => out[i] < out[j]
  BY <1>4, <1>5 DEF Rising
<1>7. {out[i] : i \in DOMAIN out} = stored
  BY <1>4, <1>5 DEF Lists
<1>8. \A c \in TreeContacts : find_node[root][c] = stored \cap {c}
  BY <1>1, FindsIt
<1>. QED
  BY <1>2, <1>3, <1>6, <1>7, <1>8 DEF TreeKept

LEMMA TreeStarts == TreeInit => ITree
BY NilIsGood, KeysOf DEF TreeInit, ITree

LEMMA TreeSteps == ITree /\ [TreeNext]_treeVars => ITree'
<1> SUFFICES ASSUME ITree, [TreeNext]_treeVars PROVE ITree'
  OBVIOUS
<1>1. Good(root) /\ Keys(root) = stored /\ stored \subseteq TreeContacts /\ root \in Trees
  BY GoodParts DEF ITree
<1>2. ASSUME NEW c \in TreeContacts, TreeInsert(c) PROVE ITree'
  <2>1. Inserted(root, c)
    BY <1>1, InsertIsGood
  <2>2. root' = insert_node[root][c] /\ stored' = stored \cup {c}
    BY <1>2 DEF TreeInsert
  <2>3. Good(root') /\ Keys(root') = stored'
    BY <1>1, <2>1, <2>2 DEF Inserted
  <2>4. stored' \subseteq TreeContacts
    BY <1>1, <2>2
  <2>. QED
    BY <2>3, <2>4 DEF ITree
<1>3. ASSUME NEW c \in TreeContacts, TreeDelete(c) PROVE ITree'
  <2>1. Deleted(root, c)
    BY <1>1, DeleteIsGood
  <2>2. root' = delete_node[root][c] /\ stored' = stored \ {c}
    BY <1>3 DEF TreeDelete
  <2>3. Good(root') /\ Keys(root') = stored'
    BY <1>1, <2>1, <2>2 DEF Deleted
  <2>4. stored' \subseteq TreeContacts
    BY <1>1, <2>2
  <2>. QED
    BY <2>3, <2>4 DEF ITree
<1>4. CASE TreeFree
  BY <1>4, NilIsGood, KeysOf DEF TreeFree, ITree
<1>5. CASE UNCHANGED treeVars
  BY <1>1, <1>5 DEF treeVars, ITree
<1>. QED
  BY <1>2, <1>3, <1>4, <1>5 DEF TreeNext

\* For any finite set of contacts and any sequence of insertions and deletions
\* the tree of module2/4/4.3 stays balanced, its heights are true, it lists its
\* contacts in order, and find_node() finds those inserted and not deleted.
THEOREM TreeIsKept == TreeSpec => []TreeKept
BY TreeStarts, TreeSteps, ITreeKept, PTL DEF TreeSpec
=============================================================================
