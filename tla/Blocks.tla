------------------------------- MODULE Blocks -------------------------------
(***************************************************************************)
(* Producers and consumers over a pool of blocks in shared memory          *)
(* (module3/5/task5.c): two linked lists, of full and of free blocks, one  *)
(* POSIX semaphore around every access to them.                            *)
(*                                                                         *)
(* A producer and a consumer do the same thing in opposite directions:     *)
(* take the first block of one list, fill or empty it, put it first on     *)
(* the other.  One action is one access to shared memory, so that a        *)
(* process may be killed between any two of them.  The numbers in a block  *)
(* are reduced to how many there are.                                      *)
(***************************************************************************)
EXTENDS Integers, Sequences, FiniteSets

CONSTANTS
  Producers, Consumers,   \* the processes started with "prod" and "cons"
  BlocksCount,            \* BLOCKS_COUNT
  DataSize,               \* DATA_SIZE
  Limit                   \* the blocks one producer makes (10)

ASSUME BlocksAssumption ==
  /\ BlocksCount \in Nat \ {0}
  /\ DataSize \in Nat \ {0}
  /\ Limit \in Nat
  /\ Producers \cap Consumers = {}
  /\ {"free", "data"} \cap (Producers \cup Consumers) = {}

Processes == Producers \cup Consumers
BlockIds == 0 .. BlocksCount - 1
End == -1

VARIABLES
  sem, top, prodDone, count, next,  \* struct SharedMem; top: both list heads
  pc, idx, generated,               \* the locals of the processes
  alive                             \* FALSE once a process has been killed

shm == <<sem, top, prodDone, count, next>>
vars == <<shm, pc, idx, generated, alive>>

\* The list a process takes blocks from, and the one it puts them on.
Source(p) == IF p \in Producers THEN "free" ELSE "data"
Target(p) == IF p \in Producers THEN "data" ELSE "free"

\* Mutant: the semaphore starts at 2.
SemStartTwo == 2

\* sem_init(&shm->sem, 1, 1)
SemStart == 1

\* init_shm
Init ==
  /\ sem = SemStart
  /\ top = [l \in {"data", "free"} |-> IF l = "data" THEN End ELSE 0]
  /\ prodDone = FALSE
  /\ count = [b \in BlockIds |-> 0]
  /\ next = [b \in BlockIds |-> IF b = BlocksCount - 1 THEN End ELSE b + 1]
  /\ pc = [p \in Processes |-> "off"]
  /\ idx = [p \in Processes |-> 0]
  /\ generated = [p \in Processes |-> 0]
  /\ alive = [p \in Processes |-> TRUE]

At(p, from, to) == alive[p] /\ pc[p] = from /\ pc' = [pc EXCEPT ![p] = to]

Start(p) ==
  /\ At(p, "off", "wait")
  /\ UNCHANGED <<shm, idx, generated, alive>>

\* sem_wait
Lock(p) ==
  /\ At(p, "wait", "locked")
  /\ sem > 0
  /\ sem' = sem - 1
  /\ UNCHANGED <<top, prodDone, count, next, idx, generated, alive>>

\* sem_post, then sleep and the next turn, or the end of the process.
Release(p, from, to) ==
  /\ At(p, from, to)
  /\ sem' = sem + 1
  /\ UNCHANGED <<top, count, next, idx, alive>>

\* Mutant: > instead of >=.
FinishedLate(p) == p \in Producers /\ generated[p] > Limit

Finished(p) == p \in Producers /\ generated[p] >= Limit
Drained(p) == p \in Consumers /\ prodDone

\* Mutant: prod_done is looked at before the list.
NothingOrDrained(p) ==
  /\ top[Source(p)] = End \/ Drained(p)
  /\ Release(p, "locked", IF Drained(p) THEN "done" ELSE "wait")
  /\ UNCHANGED <<prodDone, generated>>

\* Mutant: the turn is given up without sem_post.
NothingKeepsSem(p) ==
  /\ top[Source(p)] = End
  /\ At(p, "locked", IF Drained(p) THEN "done" ELSE "wait")
  /\ UNCHANGED <<shm, idx, generated, alive>>

\* The list to take from is empty: a consumer may leave, the others retry.
Nothing(p) ==
  /\ top[Source(p)] = End
  /\ Release(p, "locked", IF Drained(p) THEN "done" ELSE "wait")
  /\ UNCHANGED <<prodDone, generated>>

\* The producer has made its blocks.
Finish(p) ==
  /\ top[Source(p)] # End
  /\ Finished(p)
  /\ prodDone' = TRUE
  /\ Release(p, "locked", "done")
  /\ UNCHANGED generated

\* idx = free_head, or idx = head.
Pick(p) ==
  /\ At(p, "locked", "pop")
  /\ top[Source(p)] # End /\ ~Finished(p)
  /\ idx' = [idx EXCEPT ![p] = top[Source(p)]]
  /\ UNCHANGED <<shm, generated, alive>>

\* free_head = blocks[idx].next, or head = blocks[idx].next.
Pop(p) ==
  /\ At(p, "pop", "mark")
  /\ top' = [top EXCEPT ![Source(p)] = next[idx[p]]]
  /\ UNCHANGED <<sem, prodDone, count, next, idx, generated, alive>>

\* The block is filled with rand() % DATA_SIZE + 1 numbers, or read and emptied.
Mark(p) ==
  /\ At(p, "mark", "link")
  /\ \E n \in IF p \in Producers THEN 1 .. DataSize ELSE {0} :
       count' = [count EXCEPT ![idx[p]] = n]
  /\ UNCHANGED <<sem, top, prodDone, next, idx, generated, alive>>

\* Mutant: the block is linked to the list it came from.
LinkBack(p) ==
  /\ At(p, "link", "publish")
  /\ next' = [next EXCEPT ![idx[p]] = top[Source(p)]]
  /\ UNCHANGED <<sem, top, prodDone, count, idx, generated, alive>>

\* blocks[idx].next = the other list.
Link(p) ==
  /\ At(p, "link", "publish")
  /\ next' = [next EXCEPT ![idx[p]] = top[Target(p)]]
  /\ UNCHANGED <<sem, top, prodDone, count, idx, generated, alive>>

\* Mutant: the first list gets the block back.
PublishBack(p) ==
  /\ At(p, "publish", "unlock")
  /\ top' = [top EXCEPT ![Source(p)] = idx[p]]
  /\ UNCHANGED <<sem, prodDone, count, next, idx, generated, alive>>

\* The other list starts with idx.
Publish(p) ==
  /\ At(p, "publish", "unlock")
  /\ top' = [top EXCEPT ![Target(p)] = idx[p]]
  /\ UNCHANGED <<sem, prodDone, count, next, idx, generated, alive>>

Unlock(p) ==
  /\ Release(p, "unlock", "wait")
  /\ generated' = [generated EXCEPT ![p] = IF p \in Producers THEN @ + 1 ELSE @]
  /\ UNCHANGED prodDone

\* SIGINT or SIGKILL: the semaphore keeps its value.
Kill(p) ==
  /\ alive[p] /\ pc[p] \notin {"off", "done"}
  /\ alive' = [alive EXCEPT ![p] = FALSE]
  /\ UNCHANGED <<shm, pc, idx, generated>>

\* What a process does once it holds the semaphore.
Work(p) ==
  \/ Nothing(p) \/ Finish(p) \/ Pick(p) \/ Pop(p) \/ Mark(p) \/ Link(p)
  \/ Publish(p) \/ Unlock(p)

Next == \E p \in Processes : Start(p) \/ Lock(p) \/ Work(p) \/ Kill(p)

(***************************************************************************)
(* A process that holds the semaphore goes on.  One that waits for it is   *)
(* not passed over for ever: after each turn the others sleep one or two   *)
(* seconds without it.  Nobody need start a process, or kill one.          *)
(***************************************************************************)
Fairness == \A p \in Processes : WF_vars(Work(p)) /\ SF_vars(Lock(p))

Spec == Init /\ [][Next]_vars /\ Fairness
-----------------------------------------------------------------------------
\* Every variable keeps its type; no index leaves blocks[].
TypeOK ==
  /\ sem \in {0, 1}
  /\ top \in [{"data", "free"} -> BlockIds \cup {End}]
  /\ prodDone \in BOOLEAN
  /\ count \in [BlockIds -> 0 .. DataSize]
  /\ next \in [BlockIds -> BlockIds \cup {End}]
  /\ pc \in [Processes -> {"off", "wait", "locked", "pop", "mark", "link",
                           "publish", "unlock", "done"}]
  /\ idx \in [Processes -> BlockIds]
  /\ generated \in [Processes -> 0 .. Limit]
  /\ alive \in [Processes -> BOOLEAN]

InSection(p) == pc[p] \notin {"off", "wait", "done"}

(***************************************************************************)
(* At most one process, dead ones included, is between sem_wait and        *)
(* sem_post, and then the semaphore is 0: a process killed there keeps all *)
(* others out, so nobody ever sees its half-done change.                   *)
(***************************************************************************)
MutualExclusion ==
  \A p \in Processes : InSection(p) =>
    sem = 0 /\ \A q \in Processes : InSection(q) => p = q

\* The block taken off one list and not yet put on the other.
Held == {idx[p] : p \in {q \in Processes : pc[q] \in {"mark", "link", "publish"}}}

Paths == UNION {[1 .. n -> BlockIds] : n \in 0 .. BlocksCount}

\* Following next from block h visits the blocks of s, each once, and ends.
IsList(h, s) ==
  /\ h = IF s = <<>> THEN End ELSE s[1]
  /\ \A i \in DOMAIN s :
       /\ next[s[i]] = IF i = Len(s) THEN End ELSE s[i + 1]
       /\ \A j \in DOMAIN s : s[i] = s[j] => i = j

On(s) == {s[i] : i \in DOMAIN s}

(***************************************************************************)
(* No block is lost or in two places: both lists end, they share no block, *)
(* and every block is on one of them or held by a process - also after a   *)
(* kill.  A block on the data list has numbers in it ("count > 0"), one on *)
(* the free list has none.                                                 *)
(***************************************************************************)
BlocksKept ==
  \E d \in Paths : IsList(top["data"], d) /\
    \E f \in Paths : IsList(top["free"], f) /\
      /\ On(d) \cap On(f) = {}
      /\ Held = BlockIds \ (On(d) \cup On(f))
      /\ \A b \in On(d) : count[b] > 0
      /\ \A b \in On(f) : count[b] = 0

(***************************************************************************)
(* A consumer that leaves does not leave anything behind: from then on the *)
(* data list is empty for good (stated for one producer, as test.sh runs). *)
(***************************************************************************)
NothingLeftBehind ==
  \A c \in Consumers : pc[c] = "done" => prodDone /\ top["data"] = End

\* Once all are started, all come to their end, unless one is killed.
Terminates ==
  (\A p \in Processes : pc[p] # "off") ~>
    \/ \A p \in Processes : pc[p] = "done"
    \/ \E p \in Processes : ~alive[p]

Members(l) == {b \in BlockIds : \E s \in Paths : IsList(top[l], s) /\ b \in On(s)}

(***************************************************************************)
(* The lists implement BlockPool: a block belongs to the list it is on, or *)
(* else to the process inside the section.                                 *)
(***************************************************************************)
Pool == INSTANCE BlockPool WITH
  owner <- [b \in BlockIds |->
              IF b \in Members("free") THEN "free"
              ELSE IF b \in Members("data") THEN "data"
              ELSE CHOOSE p \in Processes : InSection(p)]

ImplementsPool == Pool!Spec
=============================================================================
