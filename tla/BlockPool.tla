------------------------------ MODULE BlockPool ------------------------------
(***************************************************************************)
(* What the producer and the consumers of module3/5/task5.c promise, with  *)
(* neither lists nor semaphore: every block is free, full or held by one   *)
(* process; a process holds at most one block, and only while no other     *)
(* process holds one.                                                      *)
(***************************************************************************)
CONSTANTS
  Producers, Consumers,
  BlockIds      \* the indices of blocks[]

Processes == Producers \cup Consumers

VARIABLE owner  \* owner[b]: "free", "data" or the process that holds b

TypeOK == owner \in [BlockIds -> Processes \cup {"free", "data"}]

\* The list a process takes blocks from, and the one it puts them on.
Source(p) == IF p \in Producers THEN "free" ELSE "data"
Target(p) == IF p \in Producers THEN "data" ELSE "free"

Init == owner = [b \in BlockIds |-> "free"]

Take(p, b) ==
  /\ \A c \in BlockIds : owner[c] \notin Processes
  /\ owner[b] = Source(p)
  /\ owner' = [owner EXCEPT ![b] = p]

Put(p, b) ==
  /\ owner[b] = p
  /\ owner' = [owner EXCEPT ![b] = Target(p)]

Next == \E p \in Processes, b \in BlockIds : Take(p, b) \/ Put(p, b)

Spec == Init /\ [][Next]_owner
=============================================================================
