---------------------------- MODULE BlocksProofs ----------------------------
(***************************************************************************)
(* Proofs about Blocks, for any sets of producers and consumers and any    *)
(* number of blocks.                                                       *)
(***************************************************************************)
EXTENDS Blocks, BasicFacts, FiniteSetTheorems

\* Where a producer is about to make one of its blocks.
Making == {"pop", "mark", "link", "publish", "unlock"}

(***************************************************************************)
(* The semaphore is 1 unless a process is inside, and a producer inside    *)
(* has a block left to make.                                               *)
(***************************************************************************)
ISection ==
  /\ TypeOK
  /\ MutualExclusion
  /\ \A p \in Producers : pc[p] \in Making => generated[p] < Limit

LEMMA InitSection == Init => ISection
<1> SUFFICES ASSUME Init PROVE ISection
  OBVIOUS
<1>1. \A b \in BlockIds : b # BlocksCount - 1 => b + 1 \in BlockIds
  BY BlocksAssumption DEF BlockIds
<1>2. 0 \in BlockIds /\ 0 \in 0 .. DataSize /\ 0 \in 0 .. Limit
  BY BlocksAssumption DEF BlockIds
<1>3. next \in [BlockIds -> BlockIds \cup {End}]
  BY <1>1 DEF Init
<1>4. TypeOK
  BY <1>2, <1>3 DEF Init, SemStart, TypeOK
<1>. QED
  BY <1>4 DEF Init, ISection, MutualExclusion, InSection, Making, Processes

\* Leaving the section gives the semaphore back.
LEMMA ReleaseSection ==
  ASSUME ISection, NEW p \in Processes,
         NEW from \in {"locked", "unlock"}, NEW to \in {"wait", "done"},
         Release(p, from, to)
  PROVE  /\ sem' \in {0, 1}
         /\ pc' \in [Processes -> {"off", "wait", "locked", "pop", "mark",
                                   "link", "publish", "unlock", "done"}]
         /\ MutualExclusion'
         /\ \A q \in Producers : pc'[q] \in Making =>
              pc[q] \in Making /\ q # p
         /\ UNCHANGED <<top, count, next, idx, alive>>
<1>1. InSection(p) /\ sem = 0 /\ \A q \in Processes : InSection(q) => q = p
  BY DEF Release, At, InSection, ISection, MutualExclusion
<1>2. pc' = [pc EXCEPT ![p] = to] /\ sem' = 1
  BY <1>1 DEF Release, At
<1>. QED
  BY <1>1, <1>2 DEF Release, ISection, TypeOK, MutualExclusion, InSection,
                    Making, Processes

LEMMA NextSection == ISection /\ [Next]_vars => ISection'
<1> SUFFICES ASSUME ISection, [Next]_vars PROVE ISection'
  OBVIOUS
<1> USE DEF ISection
<1>1. CASE UNCHANGED vars
  BY <1>1 DEF vars, shm, TypeOK, MutualExclusion, InSection
<1>2. ASSUME NEW p \in Processes, Start(p) PROVE ISection'
  BY <1>2 DEF Start, At, shm, TypeOK, MutualExclusion, InSection, Making,
              Processes
<1>3. ASSUME NEW p \in Processes, Lock(p) PROVE ISection'
  BY <1>3 DEF Lock, At, TypeOK, MutualExclusion, InSection, Making, Processes
<1>4. ASSUME NEW p \in Processes, Nothing(p) PROVE ISection'
  <2>1. PICK to \in {"wait", "done"} : Release(p, "locked", to)
    BY <1>4 DEF Nothing
  <2>. QED
    BY <1>4, <2>1, ReleaseSection DEF Nothing, TypeOK
<1>5. ASSUME NEW p \in Processes, Finish(p) PROVE ISection'
  BY <1>5, ReleaseSection DEF Finish, TypeOK
<1>6. ASSUME NEW p \in Processes, Pick(p) PROVE ISection'
  <2>1. p \in Producers => generated[p] < Limit
    BY <1>6, BlocksAssumption DEF Pick, Finished, TypeOK
  <2>2. top[Source(p)] \in BlockIds
    BY <1>6 DEF Pick, TypeOK, Source
  <2>. QED
    BY <1>6, <2>1, <2>2 DEF Pick, At, shm, TypeOK, MutualExclusion, InSection,
                            Making, Processes
<1>7. ASSUME NEW p \in Processes, Pop(p) PROVE ISection'
  BY <1>7 DEF Pop, At, TypeOK, MutualExclusion, InSection, Making, Source,
              Processes
<1>8. ASSUME NEW p \in Processes, Mark(p) PROVE ISection'
  BY <1>8, BlocksAssumption
     DEF Mark, At, TypeOK, MutualExclusion, InSection, Making, Processes
<1>9. ASSUME NEW p \in Processes, Link(p) PROVE ISection'
  BY <1>9 DEF Link, At, TypeOK, MutualExclusion, InSection, Making, Target,
              Processes
<1>10. ASSUME NEW p \in Processes, Publish(p) PROVE ISection'
  BY <1>10 DEF Publish, At, TypeOK, MutualExclusion, InSection, Making, Target,
               Processes
<1>11. ASSUME NEW p \in Processes, Unlock(p) PROVE ISection'
  <2>1. generated' \in [Processes -> 0 .. Limit]
    BY <1>11, BlocksAssumption DEF Unlock, Release, At, TypeOK, Making, Processes
  <2>2. \A q \in Processes : q # p => generated'[q] = generated[q]
    BY <1>11 DEF Unlock, TypeOK
  <2>. QED
    BY <1>11, <2>1, <2>2, ReleaseSection DEF Unlock, TypeOK, Processes
<1>12. ASSUME NEW p \in Processes, Kill(p) PROVE ISection'
  BY <1>12 DEF Kill, shm, TypeOK, MutualExclusion, InSection
<1>. QED
  BY <1>1, <1>2, <1>3, <1>4, <1>5, <1>6, <1>7, <1>8, <1>9, <1>10, <1>11, <1>12
     DEF Next, Work

LEMMA SectionInvariant == Spec => []ISection
BY InitSection, NextSection, PTL DEF Spec

\* Every variable keeps its type, and no index leaves blocks[].
THEOREM TypeCorrect == Spec => []TypeOK
BY SectionInvariant, PTL DEF ISection

(***************************************************************************)
(* One process at a time works on the lists, although any may be killed    *)
(* at any moment.                                                          *)
(***************************************************************************)
THEOREM Exclusion == Spec => []MutualExclusion
BY SectionInvariant, PTL DEF ISection
-----------------------------------------------------------------------------
(***************************************************************************)
(* What a process inside the section knows of the lists.                   *)
(***************************************************************************)
IHand ==
  \A p \in Processes :
    /\ pc[p] = "pop" => idx[p] = top[Source(p)] /\ idx[p] # End
    /\ pc[p] \in {"link", "publish"} =>
         IF p \in Producers THEN count[idx[p]] > 0 ELSE count[idx[p]] = 0
    /\ pc[p] = "publish" => next[idx[p]] = top[Target(p)]

ILists == ISection /\ IHand /\ BlocksKept

(***************************************************************************)
(* Lemmas about lists: a list depends only on next of its blocks, the rest *)
(* of a list is a list, and so is a list with a new block before it.       *)
(***************************************************************************)
Rest(s) == [i \in 1 .. Len(s) - 1 |-> s[i + 1]]
Before(b, s) == [i \in 1 .. Len(s) + 1 |-> IF i = 1 THEN b ELSE s[i - 1]]

LEMMA PathFacts ==
  ASSUME NEW s \in Paths
  PROVE  /\ Len(s) \in 0 .. BlocksCount
         /\ DOMAIN s = 1 .. Len(s)
         /\ \A i \in 1 .. Len(s) : s[i] \in BlockIds
         /\ s = <<>> <=> Len(s) = 0
         /\ s \in Seq(BlockIds)
<1>1. PICK n \in 0 .. BlocksCount : s \in [1 .. n -> BlockIds]
  BY DEF Paths
<1>2. s \in Seq(BlockIds)
  BY <1>1, BlocksAssumption
<1>3. Len(s) = n
  BY <1>1, <1>2, BlocksAssumption
<1>. QED
  BY <1>1, <1>2, <1>3

LEMMA PathLength ==
  ASSUME NEW n \in Nat, n <= BlocksCount, NEW s \in [1 .. n -> BlockIds]
  PROVE  s \in Paths /\ Len(s) = n
<1>1. n \in 0 .. BlocksCount
  BY BlocksAssumption
<1>2. s \in Paths
  BY <1>1 DEF Paths
<1>3. s \in Seq(BlockIds)
  BY PathFacts, <1>2
<1>. QED
  BY <1>2, <1>3

LEMMA RestIsList ==
  ASSUME NEW s \in Paths, NEW b \in BlockIds, IsList(b, s)
  PROVE  /\ Rest(s) \in Paths
         /\ IsList(next[b], Rest(s))
         /\ On(Rest(s)) = On(s) \ {b}
         /\ b \in On(s)
<1> DEFINE n == Len(s)
<1>1. /\ n \in 1 .. BlocksCount /\ DOMAIN s = 1 .. n /\ s[1] = b
      /\ \A i \in 1 .. n : s[i] \in BlockIds
  BY PathFacts, BlocksAssumption DEF IsList, End, BlockIds
<1>2. /\ Rest(s) = [i \in 1 .. n - 1 |-> s[i + 1]]
      /\ n - 1 \in Nat /\ n - 1 <= BlocksCount
      /\ \A i \in 1 .. n - 1 : i + 1 \in 1 .. n
  BY <1>1, BlocksAssumption DEF Rest
<1>7. Rest(s) \in [1 .. n - 1 -> BlockIds]
  BY <1>1, <1>2
<1>3. Rest(s) \in Paths /\ Len(Rest(s)) = n - 1
  BY <1>2, <1>7, PathLength
<1>4. IsList(next[b], Rest(s))
  <2>1. next[b] = IF Rest(s) = <<>> THEN End ELSE Rest(s)[1]
    BY <1>1, <1>3, PathFacts DEF IsList, Rest
  <2>2. ASSUME NEW i \in 1 .. n - 1
        PROVE  /\ next[Rest(s)[i]] = IF i = n - 1 THEN End ELSE Rest(s)[i + 1]
               /\ \A j \in 1 .. n - 1 : Rest(s)[i] = Rest(s)[j] => i = j
    <3>1. /\ i \in Nat /\ i + 1 \in 1 .. n /\ Rest(s)[i] = s[i + 1]
          /\ i = n - 1 <=> i + 1 = n
      BY <1>1, <1>2, <2>2
    <3>4. ASSUME i # n - 1 PROVE Rest(s)[i + 1] = s[i + 1 + 1]
      <4>1. n - 1 \in Nat /\ i \in 1 .. n - 1 /\ i # n - 1
        BY <1>2, <3>4
      <4>2. i + 1 \in 1 .. n - 1
        BY ONLY <4>1, SMT
      <4>. QED
        BY <1>2, <4>2
    <3>2. next[s[i + 1]] = IF i + 1 = n THEN End ELSE s[i + 1 + 1]
      BY <1>1, <3>1 DEF IsList
    <3>3. ASSUME NEW j \in 1 .. n - 1, Rest(s)[i] = Rest(s)[j]
          PROVE  i = j
      <4>1. j + 1 \in 1 .. n /\ s[i + 1] = s[j + 1]
        BY <1>1, <1>2, <3>1, <3>3
      <4>2. i + 1 = j + 1
        BY <1>1, <3>1, <4>1 DEF IsList
      <4>. QED
        BY <4>2
    <3>. QED
      BY <3>1, <3>2, <3>3, <3>4
  <2>. QED
    BY <1>2, <1>3, <2>1, <2>2 DEF IsList
<1>5. On(Rest(s)) = On(s) \ {b}
  <2>1. \A i \in 1 .. n - 1 : s[i + 1] # b
    BY <1>1, <1>2 DEF IsList
  <2>2. \A i \in 1 .. n : i # 1 => i - 1 \in 1 .. n - 1 /\ (i - 1) + 1 = i
    BY <1>1
  <2>3. On(s) = {s[i] : i \in 1 .. n} /\ On(Rest(s)) = {s[i + 1] : i \in 1 .. n - 1}
    BY <1>1, <1>2 DEF On
  <2>4. ASSUME NEW x \in On(s), x # b PROVE x \in On(Rest(s))
    <3>1. PICK i \in 1 .. n : x = s[i]
      BY <2>3
    <3>2. i # 1
      BY <1>1, <2>4, <3>1
    <3>. QED
      BY <2>2, <2>3, <3>1, <3>2
  <2>. QED
    BY <1>2, <2>1, <2>3, <2>4
<1>6. b \in On(s)
  BY <1>1 DEF On
<1>. QED
  BY <1>3, <1>4, <1>5, <1>6

(***************************************************************************)
(* A list visits no block twice, so it is no longer than there are blocks. *)
(***************************************************************************)
LEMMA PathBound ==
  ASSUME NEW n \in Nat, NEW s \in [1 .. n -> BlockIds],
         \A i, j \in 1 .. n : s[i] = s[j] => i = j
  PROVE  n <= BlocksCount
<1>1. s \in Injection(1 .. n, BlockIds)
  BY DEF Injection, IsInjective
<1>2. IsFiniteSet(BlockIds) /\ Cardinality(BlockIds) = BlocksCount
  BY BlocksAssumption, FS_Interval DEF BlockIds
<1>3. IsFiniteSet(1 .. n) /\ Cardinality(1 .. n) = n
  BY FS_Interval
<1>. QED
  BY <1>1, <1>2, <1>3, FS_Injection

LEMMA BeforeIsList ==
  ASSUME NEW s \in Paths, NEW b \in BlockIds, NEW h, IsList(h, s),
         b \notin On(s), next[b] = h
  PROVE  /\ Before(b, s) \in Paths
         /\ IsList(b, Before(b, s))
         /\ On(Before(b, s)) = On(s) \cup {b}
<1> DEFINE n == Len(s)
<1>1. n \in Nat /\ DOMAIN s = 1 .. n /\ \A i \in 1 .. n : s[i] \in BlockIds
  BY PathFacts, BlocksAssumption
<1>2. Before(b, s) \in [1 .. n + 1 -> BlockIds]
  BY <1>1 DEF Before
<1>3. \A i, j \in 1 .. n + 1 : Before(b, s)[i] = Before(b, s)[j] => i = j
  BY <1>1 DEF Before, IsList, On
<1>4. n + 1 <= BlocksCount
  <2>1. n + 1 \in Nat
    BY <1>1
  <2>. QED
    BY <1>2, <1>3, <2>1, PathBound
<1>5. Before(b, s) \in Paths /\ Len(Before(b, s)) = n + 1
  BY <1>1, <1>2, <1>4, PathLength
<1>6. Len(Before(b, s)) = n + 1 /\ Before(b, s) # <<>>
  BY <1>1, <1>5, PathFacts
<1>7. IsList(b, Before(b, s))
  <2>1. b = Before(b, s)[1]
    BY <1>1 DEF Before
  <2>2. ASSUME NEW i \in 1 .. n + 1
        PROVE  next[Before(b, s)[i]] =
                 IF i = n + 1 THEN End ELSE Before(b, s)[i + 1]
    <3>1. CASE i = 1
      BY <1>1, <3>1, PathFacts DEF Before, IsList
    <3>2. CASE i # 1
      BY <1>1, <2>2, <3>2 DEF Before, IsList
    <3>. QED
      BY <3>1, <3>2
  <2>. QED
    BY <1>2, <1>3, <1>6, <2>1, <2>2 DEF IsList
<1>8. On(Before(b, s)) = On(s) \cup {b}
  <2>1. \A i \in 1 .. n : Before(b, s)[i + 1] = s[i]
    BY <1>1 DEF Before
  <2>2. Before(b, s)[1] = b
    BY <1>1 DEF Before
  <2>3. On(s) = {s[i] : i \in 1 .. n}
        /\ On(Before(b, s)) = {Before(b, s)[i] : i \in 1 .. n + 1}
    BY <1>1, <1>2 DEF On
  <2>4. ASSUME NEW x \in On(s) \cup {b} PROVE x \in On(Before(b, s))
    <3>1. CASE x = b
      BY <1>1, <2>2, <2>3, <3>1
    <3>2. ASSUME NEW i \in 1 .. n, x = s[i] PROVE x \in On(Before(b, s))
      <4>1. i + 1 \in 1 .. n + 1
        BY <1>1
      <4>. QED
        BY <2>1, <2>3, <3>2, <4>1
    <3>. QED
      BY <2>3, <2>4, <3>1, <3>2
  <2>5. ASSUME NEW i \in 1 .. n + 1 PROVE Before(b, s)[i] \in On(s) \cup {b}
    BY <1>1, <2>3 DEF Before
  <2>. QED
    BY <2>3, <2>4, <2>5
<1>. QED
  BY <1>5, <1>7, <1>8

\* Changing next of blocks that are not on a list leaves the list alone.
LEMMA SameList ==
  ASSUME NEW h, NEW s \in Paths, IsList(h, s),
         \A b \in On(s) : next'[b] = next[b]
  PROVE  IsList(h, s)'
BY DEF IsList, On
-----------------------------------------------------------------------------
(***************************************************************************)
(* The lists as a pair of witnesses.                                       *)
(***************************************************************************)
Lists(d, f) ==
  /\ IsList(top["data"], d) /\ IsList(top["free"], f)
  /\ On(d) \cap On(f) = {}
  /\ Held = BlockIds \ (On(d) \cup On(f))
  /\ \A b \in On(d) : count[b] > 0
  /\ \A b \in On(f) : count[b] = 0

\* D and F are the blocks on the data list and on the free list.
Sets(D, F) == \E d, f \in Paths : Lists(d, f) /\ D = On(d) /\ F = On(f)

LEMMA KeptLists == BlocksKept <=> \E d, f \in Paths : Lists(d, f)
BY DEF BlocksKept, Lists

LEMMA KeptSets == BlocksKept <=> \E D, F : Sets(D, F)
BY KeptLists DEF Sets

LEMMA SetsNext ==
  ASSUME NEW d \in Paths, NEW f \in Paths, Lists(d, f)'
  PROVE  Sets(On(d), On(f))'
BY DEF Sets, On

LEMMA KeptSetsNext ==
  ASSUME NEW D, NEW F, Sets(D, F)'
  PROVE  BlocksKept'
BY DEF BlocksKept, Lists, Sets

LEMMA OnBlocks == \A s \in Paths : On(s) \subseteq BlockIds
BY PathFacts DEF On

LEMMA InitLists == Init => IHand /\ BlocksKept
<1> SUFFICES ASSUME Init PROVE IHand /\ BlocksKept
  OBVIOUS
<1>1. IHand
  BY DEF Init, IHand
<1> DEFINE f == [i \in 1 .. BlocksCount |-> i - 1]
           d == [i \in 1 .. 0 |-> 0]
<1>2. f \in Paths /\ Len(f) = BlocksCount
  <2>1. f \in [1 .. BlocksCount -> BlockIds]
    BY BlocksAssumption DEF BlockIds
  <2>. QED
    BY <2>1, BlocksAssumption, PathLength
<1>3. d \in Paths /\ Len(d) = 0
  <2>1. 0 \in Nat /\ 0 <= BlocksCount
    BY BlocksAssumption
  <2>2. d \in [1 .. 0 -> BlockIds]
    OBVIOUS
  <2>. QED
    BY <2>1, <2>2, PathLength
<1>4. IsList(0, f)
  <2>1. DOMAIN f = 1 .. BlocksCount /\ f # <<>> /\ f[1] = 0
    BY <1>2, BlocksAssumption, PathFacts
  <2>2. \A i \in 1 .. BlocksCount :
          next[f[i]] = IF i = BlocksCount THEN End ELSE f[i + 1]
    BY BlocksAssumption DEF Init, BlockIds
  <2>3. \A i, j \in 1 .. BlocksCount : f[i] = f[j] => i = j
    BY BlocksAssumption
  <2>. QED
    BY <1>2, <2>1, <2>2, <2>3 DEF IsList
<1>5. IsList(End, d)
  BY <1>3, PathFacts DEF IsList
<1>6. On(d) = {} /\ On(f) = BlockIds
  <2>1. On(d) = {}
    BY DEF On
  <2>2. \A b \in BlockIds : b + 1 \in 1 .. BlocksCount /\ f[b + 1] = b
    BY BlocksAssumption DEF BlockIds
  <2>3. BlockIds \subseteq On(f)
    BY <1>2, <2>2, PathFacts DEF On
  <2>. QED
    BY <1>2, <2>1, <2>3, OnBlocks
<1>7. Held = {}
  BY DEF Held, Init
<1>8. Lists(d, f)
  BY <1>4, <1>5, <1>6, <1>7 DEF Lists, Init
<1>. QED
  BY <1>1, <1>2, <1>3, <1>8, KeptLists

\* Steps that touch neither the lists nor the block in hand.
LEMMA IdleStep ==
  ASSUME UNCHANGED <<top, count, next>>, Held' = Held,
         NEW D, NEW F, Sets(D, F)
  PROVE  Sets(D, F)'
<1>1. PICK d \in Paths, f \in Paths : Lists(d, f) /\ D = On(d) /\ F = On(f)
  BY DEF Sets
<1>2. IsList(top["data"], d)' /\ IsList(top["free"], f)'
  BY <1>1 DEF Lists, IsList
<1>3. Lists(d, f)'
  BY <1>1, <1>2 DEF Lists, On
<1>. QED
  BY <1>1, <1>3, SetsNext DEF On

LEMMA OneHolds ==
  ASSUME ISection, NEW p \in Processes,
         pc[p] \in {"mark", "link", "publish"}
  PROVE  Held = {idx[p]}
BY DEF ISection, MutualExclusion, InSection, Held

LEMMA NoneHolds ==
  ASSUME ISection, NEW p \in Processes,
         pc[p] \in {"locked", "pop", "unlock"} \/ sem = 1
  PROVE  Held = {}
BY DEF ISection, MutualExclusion, InSection, Held

\* A process that turns to another point takes or lays down no block.
LEMMA SameHeld ==
  ASSUME ISection, NEW p \in Processes, NEW to,
         pc' = [pc EXCEPT ![p] = to],
         pc[p] \in {"mark", "link", "publish"} <=>
           to \in {"mark", "link", "publish"},
         \A q \in Processes : pc[q] \in {"mark", "link", "publish"} =>
           idx'[q] = idx[q]
  PROVE  Held' = Held
<1>1. \A q \in Processes : pc'[q] \in {"mark", "link", "publish"} <=>
                           pc[q] \in {"mark", "link", "publish"}
  BY DEF ISection, TypeOK
<1>. QED
  BY <1>1 DEF Held

LEMMA PopKeeps ==
  ASSUME ILists, ISection', NEW p \in Processes, Pop(p),
         NEW D, NEW F, Sets(D, F), NEW b, b = idx[p]
  PROVE  /\ Held = {}
         /\ IF p \in Producers THEN b \in F /\ Sets(D, F \ {b})'
                               ELSE b \in D /\ Sets(D \ {b}, F)'
<1>1. PICK d \in Paths, f \in Paths : Lists(d, f) /\ D = On(d) /\ F = On(f)
  BY DEF Sets
<1>2. Held = {} /\ b = top[Source(p)] /\ b \in BlockIds
  BY NoneHolds DEF ILists, IHand, Pop, At, ISection, TypeOK
<1>3. /\ top' = [top EXCEPT ![Source(p)] = next[b]]
      /\ UNCHANGED <<count, next, idx>>
      /\ pc'[p] = "mark"
  BY DEF Pop, At, ILists, ISection, TypeOK
<1>4. Held' = {b}
  <2>1. \A q \in Processes : pc'[q] \in {"mark", "link", "publish"} => q = p
    BY <1>3 DEF ISection, MutualExclusion, InSection
  <2>. QED
    BY <1>3, <2>1 DEF Held
<1>5. CASE p \in Producers
  <2>1. /\ Source(p) = "free"
        /\ top'["free"] = next[b] /\ top'["data"] = top["data"]
    BY <1>3, <1>5 DEF Source, ILists, ISection, TypeOK
  <2>2. /\ Rest(f) \in Paths /\ IsList(next[b], Rest(f))
        /\ On(Rest(f)) = On(f) \ {b} /\ b \in On(f)
    BY <1>1, <1>2, <2>1, RestIsList DEF Lists
  <2>3. IsList(top["data"], d)' /\ IsList(top["free"], Rest(f))'
    BY <1>1, <1>3, <2>1, <2>2 DEF Lists, IsList
  <2>4. Lists(d, Rest(f))'
    BY <1>1, <1>2, <1>3, <1>4, <2>2, <2>3, OnBlocks DEF Lists
  <2>. QED
    BY <1>1, <1>2, <1>5, <2>2, <2>4, SetsNext
<1>6. CASE p \notin Producers
  <2>1. /\ Source(p) = "data"
        /\ top'["data"] = next[b] /\ top'["free"] = top["free"]
    BY <1>3, <1>6 DEF Source, ILists, ISection, TypeOK
  <2>2. /\ Rest(d) \in Paths /\ IsList(next[b], Rest(d))
        /\ On(Rest(d)) = On(d) \ {b} /\ b \in On(d)
    BY <1>1, <1>2, <2>1, RestIsList DEF Lists
  <2>3. IsList(top["data"], Rest(d))' /\ IsList(top["free"], f)'
    BY <1>1, <1>3, <2>1, <2>2 DEF Lists, IsList
  <2>4. Lists(Rest(d), f)'
    BY <1>1, <1>2, <1>3, <1>4, <2>2, <2>3, OnBlocks DEF Lists
  <2>. QED
    BY <1>1, <1>2, <1>6, <2>2, <2>4, SetsNext
<1>. QED
  BY <1>5, <1>6

\* The block in hand is on no list, so it can be changed freely.
LEMMA HandKeeps ==
  ASSUME ILists, NEW p \in Processes, Mark(p) \/ Link(p),
         NEW D, NEW F, Sets(D, F)
  PROVE  Sets(D, F)'
<1> DEFINE b == idx[p]
<1>1. PICK d \in Paths, f \in Paths : Lists(d, f) /\ D = On(d) /\ F = On(f)
  BY DEF Sets
<1>2. Held = {b}
  BY OneHolds DEF ILists, Mark, Link, At
<1>3. /\ UNCHANGED <<top, idx>>
      /\ \A x \in BlockIds : x # b => next'[x] = next[x] /\ count'[x] = count[x]
  BY DEF Mark, Link, ILists, ISection, TypeOK
<1>4. Held' = Held
  <2>1. PICK to \in {"link", "publish"} :
          pc' = [pc EXCEPT ![p] = to] /\ pc[p] \in {"mark", "link", "publish"}
    BY DEF Mark, Link, At
  <2>. QED
    BY <1>3, <2>1, SameHeld DEF ILists
<1>5. b \notin On(d) /\ b \notin On(f)
  BY <1>1, <1>2 DEF Lists
<1>6. IsList(top["data"], d)' /\ IsList(top["free"], f)'
  <2>1. \A x \in On(d) \cup On(f) : next'[x] = next[x]
    BY <1>3, <1>5, OnBlocks
  <2>2. IsList(top["data"], d)
    BY <1>1 DEF Lists
  <2>3. IsList(top["free"], f)
    BY <1>1 DEF Lists
  <2>. QED
    BY <1>3, <2>1, <2>2, <2>3 DEF IsList, On
<1>7. \A x \in On(d) \cup On(f) : count'[x] = count[x]
  BY <1>3, <1>5, OnBlocks
<1>8. On(d)' = On(d) /\ On(f)' = On(f)
  OBVIOUS
<1>9. Lists(d, f)'
  BY <1>1, <1>4, <1>6, <1>7 DEF Lists
<1>. QED
  BY <1>1, <1>9, SetsNext

LEMMA PublishKeeps ==
  ASSUME ILists, ISection', NEW p \in Processes, Publish(p),
         NEW D, NEW F, Sets(D, F), NEW b, b = idx[p]
  PROVE  /\ Held = {b}
         /\ IF p \in Producers THEN Sets(D \cup {b}, F)'
                               ELSE Sets(D, F \cup {b})'
<1>0. b \in BlockIds
  BY DEF ILists, ISection, TypeOK
<1>1. PICK d \in Paths, f \in Paths : Lists(d, f) /\ D = On(d) /\ F = On(f)
  BY DEF Sets
<1>2. Held = {b}
  BY <1>0, OneHolds DEF ILists, Publish, At, ISection, TypeOK
<1>3. /\ top' = [top EXCEPT ![Target(p)] = b]
      /\ UNCHANGED <<count, next, idx>>
      /\ pc'[p] = "unlock"
      /\ next[b] = top[Target(p)]
      /\ IF p \in Producers THEN count[b] > 0 ELSE count[b] = 0
  BY <1>0 DEF Publish, At, ILists, IHand, ISection, TypeOK
<1>4. Held' = {}
  <2>1. \A q \in Processes : pc'[q] \notin {"mark", "link", "publish"}
    BY <1>3 DEF ISection, MutualExclusion, InSection
  <2>. QED
    BY <2>1 DEF Held
<1>5. b \notin On(d) /\ b \notin On(f)
  BY <1>1, <1>2 DEF Lists
<1>6. CASE p \in Producers
  <2>1. /\ Target(p) = "data"
        /\ top'["data"] = b /\ top'["free"] = top["free"]
    BY <1>3, <1>6 DEF Target, ILists, ISection, TypeOK
  <2>2. /\ Before(b, d) \in Paths /\ IsList(b, Before(b, d))
        /\ On(Before(b, d)) = On(d) \cup {b}
    BY <1>1, <1>2, <1>3, <1>5, <2>1, BeforeIsList DEF Lists
  <2>3. IsList(top["data"], Before(b, d))' /\ IsList(top["free"], f)'
    BY <1>1, <1>3, <2>1, <2>2 DEF Lists, IsList
  <2>4. Lists(Before(b, d), f)'
    BY <1>1, <1>2, <1>3, <1>4, <1>5, <1>6, <2>2, <2>3, OnBlocks DEF Lists
  <2>. QED
    BY <1>1, <1>2, <1>6, <2>2, <2>4, SetsNext
<1>7. CASE p \notin Producers
  <2>1. /\ Target(p) = "free"
        /\ top'["free"] = b /\ top'["data"] = top["data"]
    BY <1>3, <1>7 DEF Target, ILists, ISection, TypeOK
  <2>2. /\ Before(b, f) \in Paths /\ IsList(b, Before(b, f))
        /\ On(Before(b, f)) = On(f) \cup {b}
    BY <1>1, <1>2, <1>3, <1>5, <2>1, BeforeIsList DEF Lists
  <2>3. IsList(top["data"], d)' /\ IsList(top["free"], Before(b, f))'
    BY <1>1, <1>3, <2>1, <2>2 DEF Lists, IsList
  <2>4. Lists(d, Before(b, f))'
    BY <1>1, <1>2, <1>3, <1>4, <1>5, <1>7, <2>2, <2>3, OnBlocks DEF Lists
  <2>. QED
    BY <1>1, <1>2, <1>7, <2>2, <2>4, SetsNext
<1>. QED
  BY <1>6, <1>7

\* A step other than Pop and Publish leaves each block where it is.
LEMMA OtherKeeps ==
  ASSUME ILists, [Next]_vars, \A p \in Processes : ~Pop(p) /\ ~Publish(p),
         NEW D, NEW F, Sets(D, F)
  PROVE  Sets(D, F)'
<1>0. ISection
  BY DEF ILists
<1>1. CASE UNCHANGED vars
  BY <1>1, IdleStep DEF vars, shm, Held
<1>2. ASSUME NEW p \in Processes,
             \/ Start(p) \/ Lock(p) \/ Nothing(p) \/ Finish(p)
             \/ Pick(p) \/ Unlock(p)
      PROVE  Sets(D, F)'
  <2>1. UNCHANGED <<top, count, next>>
    BY <1>2 DEF Start, Lock, Nothing, Finish, Pick, Unlock, Release, shm
  <2>2. PICK to \in {"wait", "locked", "done", "pop"} :
          pc' = [pc EXCEPT ![p] = to]
          /\ pc[p] \notin {"mark", "link", "publish"}
    BY <1>2 DEF Start, Lock, Nothing, Finish, Pick, Unlock, Release, At
  <2>3. \A q \in Processes : q # p => idx'[q] = idx[q]
    BY <1>0, <1>2 DEF Start, Lock, Nothing, Finish, Pick, Unlock, Release, shm,
                ISection, TypeOK
  <2>4. Held' = Held
    BY <1>0, <2>2, <2>3, SameHeld
  <2>. QED
    BY <2>1, <2>4, IdleStep
<1>3. ASSUME NEW p \in Processes, Kill(p) PROVE Sets(D, F)'
  BY <1>3, IdleStep DEF Kill, shm, Held
<1>. QED
  BY <1>1, <1>2, <1>3, HandKeeps DEF Next, Work

LEMMA NextKept == ILists /\ [Next]_vars => BlocksKept'
<1> SUFFICES ASSUME ILists, [Next]_vars PROVE BlocksKept'
  OBVIOUS
<1>0. ISection'
  BY NextSection DEF ILists
<1>1. PICK D, F : Sets(D, F)
  BY KeptSets DEF ILists
<1>2. ASSUME NEW p \in Processes, Pop(p) PROVE BlocksKept'
  BY <1>0, <1>1, <1>2, PopKeeps, KeptSetsNext
<1>3. ASSUME NEW p \in Processes, Publish(p) PROVE BlocksKept'
  BY <1>0, <1>1, <1>3, PublishKeeps, KeptSetsNext
<1>. QED
  BY <1>1, <1>2, <1>3, OtherKeeps, KeptSetsNext

LEMMA NextHand == ILists /\ [Next]_vars => IHand'
<1> SUFFICES ASSUME ILists, [Next]_vars PROVE IHand'
  OBVIOUS
<1> USE DEF ILists, ISection, IHand
<1>0. ISection'
  BY NextSection
<1>1. CASE UNCHANGED vars
  BY <1>1 DEF vars, shm, Source, Target
<1>2. ASSUME NEW p \in Processes, Start(p) \/ Lock(p) PROVE IHand'
  BY <1>2 DEF Start, Lock, At, shm, Source, Target, TypeOK
<1>3. ASSUME NEW p \in Processes, Kill(p) PROVE IHand'
  BY <1>3 DEF Kill, shm, Source, Target
\* Inside the section no other process has a block in hand.
<1>4. ASSUME NEW p \in Processes, Work(p) PROVE IHand'
  <2>1. \A q \in Processes : q # p => pc'[q] \notin {"pop", "link", "publish"}
    BY <1>4 DEF Work, Nothing, Finish, Pick, Pop, Mark, Link, Publish, Unlock,
                Release, At, TypeOK, MutualExclusion, InSection
  <2>2. CASE Nothing(p) \/ Finish(p) \/ Pop(p) \/ Publish(p) \/ Unlock(p)
    <3>1. pc'[p] \notin {"pop", "link", "publish"}
      BY <2>2 DEF Nothing, Finish, Pop, Publish, Unlock, Release, At, TypeOK
    <3>. QED
      BY <2>1, <3>1
  <2>3. CASE Pick(p)
    <3>1. pc'[p] = "pop" /\ idx'[p] = top[Source(p)] /\ top' = top
          /\ top[Source(p)] # End
      BY <2>3 DEF Pick, At, shm, TypeOK
    <3>. QED
      BY <2>1, <3>1 DEF Source
  <2>4. CASE Mark(p)
    <3>1. /\ pc'[p] = "link" /\ idx'[p] = idx[p]
          /\ IF p \in Producers THEN count'[idx[p]] > 0 ELSE count'[idx[p]] = 0
      BY <2>4, BlocksAssumption DEF Mark, At, TypeOK
    <3>. QED
      BY <2>1, <3>1
  <2>5. CASE Link(p)
    <3>1. /\ pc'[p] = "publish" /\ UNCHANGED <<idx, count, top>>
          /\ next'[idx[p]] = top[Target(p)] /\ pc[p] = "link"
      BY <2>5 DEF Link, At, TypeOK
    <3>. QED
      BY <2>1, <3>1 DEF Target
  <2>. QED
    BY <1>4, <2>2, <2>3, <2>4, <2>5 DEF Work
<1>. QED
  BY <1>1, <1>2, <1>3, <1>4 DEF Next

LEMMA ListsInvariant == Spec => []ILists
<1>1. Init => ILists
  BY InitSection, InitLists DEF ILists
<1>2. ILists /\ [Next]_vars => ILists'
  BY NextSection, NextHand, NextKept DEF ILists
<1>. QED
  BY <1>1, <1>2, PTL DEF Spec

(***************************************************************************)
(* Every block is on exactly one of the two lists or in the hands of one   *)
(* process, whatever processes are killed and when.                        *)
(***************************************************************************)
THEOREM NoBlockLost == Spec => []BlocksKept
BY ListsInvariant, PTL DEF ILists
-----------------------------------------------------------------------------
(***************************************************************************)
(* The lists implement BlockPool.  next determines a list, so the blocks   *)
(* of a list are those of any path from its head.                          *)
(***************************************************************************)
ListOf(nx, h, s) ==
  /\ h = IF s = <<>> THEN End ELSE s[1]
  /\ \A i \in DOMAIN s :
       /\ nx[s[i]] = IF i = Len(s) THEN End ELSE s[i + 1]
       /\ \A j \in DOMAIN s : s[i] = s[j] => i = j

LEMMA SamePath ==
  ASSUME NEW nx, NEW h, NEW s \in Paths, NEW t \in Paths,
         ListOf(nx, h, s), ListOf(nx, h, t)
  PROVE  On(s) \subseteq On(t)
<1>0. PICK n \in Nat, m \in Nat : n = Len(s) /\ m = Len(t)
  BY PathFacts, BlocksAssumption
<1> DEFINE S == {i \in Nat : i + 1 \in 1 .. n =>
                               i + 1 \in 1 .. m /\ s[i + 1] = t[i + 1]}
<1>1. /\ DOMAIN s = 1 .. n /\ (s = <<>> <=> n = 0)
      /\ DOMAIN t = 1 .. m /\ (t = <<>> <=> m = 0)
  BY <1>0, PathFacts
<1>2. \A i \in 1 .. n : s[i] # End
  BY <1>0, PathFacts, BlocksAssumption DEF End, BlockIds
<1>3. 0 \in S
  <2>1. CASE n = 0
    BY <2>1
  <2>2. CASE n # 0
    <3>1. h = s[1] /\ h # End
      BY <1>1, <1>2, <2>2 DEF ListOf
    <3>2. m # 0 /\ t[1] = h
      BY <1>1, <3>1 DEF ListOf
    <3>. QED
      BY <1>1, <3>1, <3>2
  <2>. QED
    BY <2>1, <2>2
<1>4. ASSUME NEW i \in Nat, i \in S PROVE i + 1 \in S
  <2> SUFFICES ASSUME (i + 1) + 1 \in 1 .. n
               PROVE  (i + 1) + 1 \in 1 .. m /\ s[(i + 1) + 1] = t[(i + 1) + 1]
    OBVIOUS
  <2>1. i + 1 \in 1 .. n /\ i + 1 # n
    OBVIOUS
  <2>2. i + 1 \in 1 .. m /\ s[i + 1] = t[i + 1]
    BY <1>4, <2>1
  <2>3. nx[s[i + 1]] = s[(i + 1) + 1] /\ s[(i + 1) + 1] # End
    BY <1>0, <1>1, <1>2, <2>1 DEF ListOf
  <2>4. nx[t[i + 1]] = IF i + 1 = m THEN End ELSE t[(i + 1) + 1]
    BY <1>0, <1>1, <2>2 DEF ListOf
  <2>5. i + 1 # m /\ s[(i + 1) + 1] = t[(i + 1) + 1]
    BY <2>2, <2>3, <2>4
  <2>. QED
    BY <2>2, <2>5
<1>5. \A i \in Nat : i \in S
  BY <1>3, <1>4, SetInduction
<1>6. ASSUME NEW i \in 1 .. n PROVE s[i] \in On(t)
  <2>1. i - 1 \in Nat /\ (i - 1) + 1 = i
    BY <1>1
  <2>2. i - 1 \in S
    BY <1>5, <2>1
  <2>3. i \in 1 .. m /\ s[i] = t[i]
    BY <2>1, <2>2
  <2>. QED
    BY <1>1, <2>3 DEF On
<1>. QED
  BY <1>1, <1>6 DEF On

\* The blocks that belong to the list from h.
OnPath(nx, h) == {b \in BlockIds : \E s \in Paths : ListOf(nx, h, s) /\ b \in On(s)}

LEMMA OnPathIs ==
  ASSUME NEW nx, NEW h, NEW s \in Paths, ListOf(nx, h, s)
  PROVE  OnPath(nx, h) = On(s)
BY SamePath, OnBlocks DEF OnPath

LEMMA MembersAre ==
  ASSUME NEW D, NEW F, Sets(D, F)
  PROVE  Members("data") = D /\ Members("free") = F
<1>1. PICK d \in Paths, f \in Paths : Lists(d, f) /\ D = On(d) /\ F = On(f)
  BY DEF Sets
<1>2. ListOf(next, top["data"], d) /\ ListOf(next, top["free"], f)
  BY <1>1 DEF Lists, IsList, ListOf
<1>3. \A l : Members(l) = OnPath(next, top[l])
  BY DEF Members, OnPath, IsList, ListOf
<1>. QED
  BY <1>1, <1>2, <1>3, OnPathIs

LEMMA MembersAreNext ==
  ASSUME NEW D, NEW F, Sets(D, F)'
  PROVE  Members("data")' = D /\ Members("free")' = F
<1>1. PICK d \in Paths, f \in Paths : Lists(d, f)' /\ D = On(d) /\ F = On(f)
  BY DEF Sets, On
<1>2. ListOf(next', top'["data"], d) /\ ListOf(next', top'["free"], f)
  BY <1>1 DEF Lists, IsList, ListOf
<1>3. Members("data")' = OnPath(next', top'["data"])
      /\ Members("free")' = OnPath(next', top'["free"])
  BY DEF Members, OnPath, IsList, ListOf, On
<1>. QED
  BY <1>1, <1>2, <1>3, OnPathIs

\* The process inside the section.
Holder == CHOOSE p \in Processes : InSection(p)

Owner == [b \in BlockIds |-> IF b \in Members("free") THEN "free"
                             ELSE IF b \in Members("data") THEN "data"
                             ELSE Holder]

LEMMA HolderIs ==
  ASSUME ISection, NEW p \in Processes, InSection(p)
  PROVE  Holder = p
BY DEF Holder, ISection, MutualExclusion

LEMMA HolderIsNext ==
  ASSUME ISection', NEW p \in Processes, InSection(p)'
  PROVE  Holder' = p
<1>1. \A q \in Processes : InSection(q)' => q = p
  BY DEF ISection, MutualExclusion
<1>. QED
  BY <1>1 DEF Holder

LEMMA OwnerIs ==
  ASSUME NEW D, NEW F, Sets(D, F)
  PROVE  Owner = [b \in BlockIds |-> IF b \in F THEN "free"
                                     ELSE IF b \in D THEN "data" ELSE Holder]
BY MembersAre DEF Owner

LEMMA OwnerIsNext ==
  ASSUME NEW D, NEW F, Sets(D, F)'
  PROVE  Owner' = [b \in BlockIds |-> IF b \in F THEN "free"
                                      ELSE IF b \in D THEN "data" ELSE Holder']
BY MembersAreNext DEF Owner

LEMMA SetsFacts ==
  ASSUME NEW D, NEW F, Sets(D, F)
  PROVE  D \cap F = {} /\ D \cup F = BlockIds \ Held
BY OnBlocks DEF Sets, Lists, Held

LEMMA InitPool == Init => Owner = [b \in BlockIds |-> "free"]
<1> SUFFICES ASSUME Init PROVE Owner = [b \in BlockIds |-> "free"]
  OBVIOUS
<1>1. PICK D, F : Sets(D, F)
  BY InitLists, KeptSets
<1>2. D \cap F = {} /\ D \cup F = BlockIds
  BY <1>1, SetsFacts DEF Held, Init
<1>3. D = {}
  <2>1. PICK d \in Paths : IsList(End, d) /\ D = On(d)
    BY <1>1 DEF Sets, Lists, Init
  <2>2. d = <<>>
    BY <2>1, PathFacts, BlocksAssumption DEF IsList, End, BlockIds
  <2>3. DOMAIN d = {}
    BY <2>2, PathFacts
  <2>. QED
    BY <2>1, <2>3 DEF On
<1>. QED
  BY <1>1, <1>2, <1>3, OwnerIs

LEMMA PopTakes ==
  ASSUME ILists, ISection', NEW p \in Processes, Pop(p)
  PROVE  \E b \in BlockIds :
           /\ \A c \in BlockIds : Owner[c] \notin Processes
           /\ Owner[b] = Source(p)
           /\ Owner' = [Owner EXCEPT ![b] = p]
<1>1. PICK D, F : Sets(D, F)
  BY KeptSets DEF ILists
<1>2. PICK b \in BlockIds : b = idx[p]
  BY DEF ILists, ISection, TypeOK
<1>3. /\ Held = {}
      /\ IF p \in Producers THEN b \in F /\ Sets(D, F \ {b})'
                            ELSE b \in D /\ Sets(D \ {b}, F)'
  BY <1>1, <1>2, PopKeeps
<1>4. D \cap F = {} /\ D \cup F = BlockIds
  BY <1>1, <1>3, SetsFacts
<1>5. Owner = [c \in BlockIds |-> IF c \in F THEN "free"
                                  ELSE IF c \in D THEN "data" ELSE Holder]
  BY <1>1, OwnerIs
<1>6. \A c \in BlockIds : Owner[c] = IF c \in F THEN "free" ELSE "data"
  BY <1>4, <1>5
<1>7. Holder' = p
  <2>1. InSection(p)'
    BY DEF Pop, At, InSection, ILists, ISection, TypeOK
  <2>. QED
    BY <2>1, HolderIsNext
<1>8. Owner' = [Owner EXCEPT ![b] = p]
  <2>1. CASE p \in Producers
    <3>1. Owner' = [c \in BlockIds |-> IF c \in F \ {b} THEN "free"
                                       ELSE IF c \in D THEN "data" ELSE Holder']
      BY <1>3, <2>1, OwnerIsNext
    <3>. QED
      BY <1>3, <1>4, <1>5, <1>7, <2>1, <3>1
  <2>2. CASE p \notin Producers
    <3>1. Owner' = [c \in BlockIds |-> IF c \in F THEN "free"
                                       ELSE IF c \in D \ {b} THEN "data" ELSE Holder']
      BY <1>3, <2>2, OwnerIsNext
    <3>. QED
      BY <1>3, <1>4, <1>5, <1>7, <2>2, <3>1
  <2>. QED
    BY <2>1, <2>2
<1>9. \A c \in BlockIds : Owner[c] \notin Processes
  BY <1>6, BlocksAssumption DEF Processes
<1>10. Owner[b] = Source(p)
  BY <1>3, <1>4, <1>6 DEF Source
<1>. QED
  BY <1>8, <1>9, <1>10

LEMMA PublishPuts ==
  ASSUME ILists, ISection', NEW p \in Processes, Publish(p)
  PROVE  \E b \in BlockIds :
           Owner[b] = p /\ Owner' = [Owner EXCEPT ![b] = Target(p)]
<1>1. PICK D, F : Sets(D, F)
  BY KeptSets DEF ILists
<1>2. PICK b \in BlockIds : b = idx[p]
  BY DEF ILists, ISection, TypeOK
<1>3. /\ Held = {b}
      /\ IF p \in Producers THEN Sets(D \cup {b}, F)'
                            ELSE Sets(D, F \cup {b})'
  BY <1>1, <1>2, PublishKeeps
<1>4. D \cap F = {} /\ D \cup F = BlockIds \ {b}
  BY <1>1, <1>3, SetsFacts
<1>5. Holder = p
  BY HolderIs DEF Publish, At, InSection, ILists
<1>6. Owner = [c \in BlockIds |-> IF c \in F THEN "free"
                                  ELSE IF c \in D THEN "data" ELSE p]
  BY <1>1, <1>5, OwnerIs
<1>7. Owner[b] = p
  BY <1>4, <1>6
<1>8. CASE p \in Producers
  <2>1. Owner' = [c \in BlockIds |-> IF c \in F THEN "free"
                                     ELSE IF c \in D \cup {b} THEN "data"
                                     ELSE Holder']
    BY <1>3, <1>8, OwnerIsNext
  <2>2. Owner' = [Owner EXCEPT ![b] = "data"]
    BY <1>4, <1>6, <2>1
  <2>. QED
    BY <1>7, <1>8, <2>2 DEF Target
<1>9. CASE p \notin Producers
  <2>1. Owner' = [c \in BlockIds |-> IF c \in F \cup {b} THEN "free"
                                     ELSE IF c \in D THEN "data"
                                     ELSE Holder']
    BY <1>3, <1>9, OwnerIsNext
  <2>2. Owner' = [Owner EXCEPT ![b] = "free"]
    BY <1>4, <1>6, <2>1
  <2>. QED
    BY <1>7, <1>9, <2>2 DEF Target
<1>. QED
  BY <1>8, <1>9

\* The process inside stays the same while it holds a block.
LEMMA OtherStays ==
  ASSUME ILists, ISection', [Next]_vars,
         \A p \in Processes : ~Pop(p) /\ ~Publish(p)
  PROVE  Owner' = Owner
<1>1. PICK D, F : Sets(D, F)
  BY KeptSets DEF ILists
<1>2. Sets(D, F)'
  BY <1>1, OtherKeeps
<1>3. CASE Held = {}
  <2>1. D \cup F = BlockIds
    BY <1>1, <1>3, SetsFacts
  <2>. QED
    BY <1>1, <1>2, <2>1, OwnerIs, OwnerIsNext
<1>4. CASE Held # {}
  <2>1. PICK p \in Processes : pc[p] \in {"mark", "link", "publish"}
    BY <1>4 DEF Held
  <2>2. InSection(p)
    BY <2>1 DEF InSection
  <2>3. pc'[p] \in {"mark", "link", "publish"}
    BY <2>1 DEF vars, shm, Next, Work, Start, Lock, Nothing, Finish, Pick, Mark,
       Link, Unlock, Release, Kill, At, ILists, ISection, TypeOK
  <2>4. InSection(p)'
    BY <2>3 DEF InSection
  <2>5. Holder = p /\ Holder' = p
    BY <2>2, <2>4, HolderIs, HolderIsNext DEF ILists
  <2>. QED
    BY <1>1, <1>2, <2>5, OwnerIs, OwnerIsNext
<1>. QED
  BY <1>3, <1>4

(***************************************************************************)
(* Two linked lists and a semaphore implement the pool of blocks: a step   *)
(* of a process takes a block, puts it, or changes nothing for the others. *)
(***************************************************************************)
THEOREM Refinement == Spec => ImplementsPool
<1>1. Init => Pool!Init
  BY InitPool DEF Pool!Init, Owner, Holder
<1>2. ILists /\ ILists' /\ [Next]_vars => [Pool!Next]_Owner
  <2> SUFFICES ASSUME ILists, ILists', [Next]_vars
               PROVE  Pool!Next \/ UNCHANGED Owner
    OBVIOUS
  <2>1. ISection'
    BY DEF ILists
  <2>2. ASSUME NEW p \in Processes, Pop(p) PROVE Pool!Next
    <3>1. PICK b \in BlockIds :
            /\ \A c \in BlockIds : Owner[c] \notin Processes
            /\ Owner[b] = Source(p)
            /\ Owner' = [Owner EXCEPT ![b] = p]
      BY <2>1, <2>2, PopTakes
    <3>2. Pool!Take(p, b)
      BY <3>1 DEF Pool!Take, Pool!Source, Pool!Processes, Processes, Source,
                  Owner, Holder
    <3>. QED
      BY <3>2 DEF Pool!Next, Pool!Processes, Processes
  <2>3. ASSUME NEW p \in Processes, Publish(p) PROVE Pool!Next
    <3>1. PICK b \in BlockIds :
            Owner[b] = p /\ Owner' = [Owner EXCEPT ![b] = Target(p)]
      BY <2>1, <2>3, PublishPuts
    <3>2. Pool!Put(p, b)
      BY <3>1 DEF Pool!Put, Pool!Target, Target, Owner, Holder
    <3>. QED
      BY <3>2 DEF Pool!Next, Pool!Processes, Processes
  <2>. QED
    BY <2>1, <2>2, <2>3, OtherStays
<1>. QED
  BY <1>1, <1>2, ListsInvariant, PTL
     DEF Spec, ImplementsPool, Pool!Spec, Owner, Holder
-----------------------------------------------------------------------------
(***************************************************************************)
(* The consumer's end.                                                     *)
(***************************************************************************)

\* prod_done says that the producer is gone, as there is one only.
ILeft ==
  /\ prodDone => \A p \in Producers : pc[p] = "done"
  /\ NothingLeftBehind

LEMMA LeaveKeeps ==
  ASSUME ILists, ILeft, NEW p \in Processes, Nothing(p) \/ Finish(p),
         \A q, r \in Producers : q = r
  PROVE  ILeft'
<1>1. /\ pc[p] = "locked" /\ top' = top
      /\ prodDone => prodDone'
      /\ \A q \in Processes : q # p => pc'[q] = pc[q]
  BY DEF Nothing, Finish, Release, At, ILists, ISection, TypeOK
<1>2. CASE p \in Producers
  <2>1. ~prodDone /\ p \notin Consumers
    BY <1>1, <1>2, BlocksAssumption DEF ILeft
  <2>2. \A q \in Producers : q = p
    BY <1>2
  <2>3. prodDone' => pc'[p] = "done"
    BY <2>1 DEF Nothing, Finish, Release, At, ILists, ISection, TypeOK
  <2>4. \A c \in Consumers : pc'[c] = pc[c]
    BY <1>1, <2>1 DEF Processes
  <2>. QED
    BY <1>1, <2>2, <2>3, <2>4 DEF ILeft, NothingLeftBehind
<1>3. CASE p \in Consumers
  <2>1. p \notin Producers
    BY <1>3, BlocksAssumption
  <2>2. /\ Nothing(p) /\ top["data"] = End /\ prodDone' = prodDone
        /\ pc'[p] = "done" => prodDone
    BY <1>3, <2>1
       DEF Nothing, Finish, Finished, Source, Release, At, Drained, ILists,
           ISection, TypeOK
  <2>3. \A q \in Producers : pc'[q] = pc[q]
    BY <1>1, <2>1 DEF Processes
  <2>. QED
    BY <1>1, <2>2, <2>3 DEF ILeft, NothingLeftBehind, Processes
<1>. QED
  BY <1>2, <1>3 DEF Processes

LEMMA NextLeft ==
  ASSUME ILists, ILeft, [Next]_vars, \A p, q \in Producers : p = q
  PROVE  ILeft'
<1> USE DEF ILists, ISection, TypeOK, ILeft, NothingLeftBehind
<1>1. CASE UNCHANGED vars
  BY <1>1 DEF vars, shm
<1>2. ASSUME NEW p \in Processes, Nothing(p) \/ Finish(p) PROVE ILeft'
  BY <1>2, LeaveKeeps
\* The other steps end nothing, and move the data list only while it may move.
<1>3. ASSUME NEW p \in Processes, NEW from, NEW to, At(p, from, to),
             from # "done", to # "done", prodDone' = prodDone,
             top'["data"] = top["data"] \/ ~(top["data"] = End /\ prodDone)
      PROVE  ILeft'
  BY <1>3 DEF At, Processes
<1>4. ASSUME NEW p \in Processes,
             Start(p) \/ Lock(p) \/ Pick(p) \/ Mark(p) \/ Link(p) \/ Unlock(p)
      PROVE  ILeft'
  BY <1>3, <1>4 DEF Start, Lock, Pick, Mark, Link, Unlock, Release, shm
<1>5. ASSUME NEW p \in Processes, Pop(p) PROVE ILeft'
  <2>1. p \in Producers => top'["data"] = top["data"]
    BY <1>5 DEF Pop, Source
  <2>2. p \notin Producers => top["data"] # End
    BY <1>5 DEF Pop, At, IHand, Source
  <2>. QED
    BY <1>3, <1>5, <2>1, <2>2 DEF Pop
<1>6. ASSUME NEW p \in Processes, Publish(p) PROVE ILeft'
  <2>1. p \in Producers => ~prodDone
    BY <1>6 DEF Publish, At
  <2>2. p \notin Producers => top'["data"] = top["data"]
    BY <1>6 DEF Publish, Target
  <2>. QED
    BY <1>3, <1>6, <2>1, <2>2 DEF Publish
<1>7. ASSUME NEW p \in Processes, Kill(p) PROVE ILeft'
  BY <1>7 DEF Kill, shm
<1>. QED
  BY <1>1, <1>2, <1>4, <1>5, <1>6, <1>7 DEF Next, Work

(***************************************************************************)
(* With one producer, a consumer that has left will never be missed: the   *)
(* data list stays empty (NothingLeftBehind).  It needs that a consumer    *)
(* inside the section has seen a block, and that the producer set          *)
(* prod_done after its last one.                                           *)
(***************************************************************************)
THEOREM NothingBehind ==
  ASSUME \A p, q \in Producers : p = q
  PROVE  Spec => []NothingLeftBehind
<1>1. Init => ILeft
  BY DEF Init, ILeft, NothingLeftBehind, Processes
<1>2. ILists /\ ILeft /\ [Next]_vars => ILeft'
  BY NextLeft
<1>3. ILeft => NothingLeftBehind
  BY DEF ILeft
<1>. QED
  BY <1>1, <1>2, <1>3, ListsInvariant, PTL DEF Spec
=============================================================================
