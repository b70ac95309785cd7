----------------------------- MODULE BlocksSysV -----------------------------
(***************************************************************************)
(* The System V variant of Blocks (module3/4/task4.c).  Its producer and   *)
(* consumer are those of Blocks with semop for sem_wait and sem_post, but  *)
(* main sets the semaphore to 1 (semctl SETVAL) whenever a process starts, *)
(* whoever holds it.                                                       *)
(***************************************************************************)
EXTENDS Blocks

InitSysV == Init

Attach(p) ==
  /\ At(p, "off", "wait")
  /\ sem' = 1
  /\ UNCHANGED <<top, prodDone, count, next, idx, generated, alive>>

ProducerSysV(p) == p \in Producers /\ (Lock(p) \/ Work(p))
ConsumerSysV(p) == p \in Consumers /\ (Lock(p) \/ Work(p))

NextSysV ==
  \E p \in Processes :
    Attach(p) \/ ProducerSysV(p) \/ ConsumerSysV(p) \/ Kill(p)

SpecSysV == InitSysV /\ [][NextSysV]_vars

(***************************************************************************)
(* "head: Индекс первого блока с данными", and a block with data has       *)
(* count > 0 (the comments of struct SharedMem and struct Block, lines 16  *)
(* and 22).                                                                *)
(***************************************************************************)
HeadHasData == top["data"] # End => count[top["data"]] > 0
=============================================================================
