----------------------------- MODULE MCPrograms -----------------------------
(***************************************************************************)
(* The smaller programs side by side: a behaviour is one of one program,   *)
(* and the variables of the others stay as they are.  So one run checks    *)
(* all of them, at the cost of the sum of their states.                    *)
(***************************************************************************)
EXTENDS AvlTree, ContactList, PriorityQueue, PhoneBook, FileCopy, QueueChat,
        KernelMessage

VARIABLE program

allVars == <<program, treeVars, listVars, queueVars, bookVars, copyVars,
             chatQueueVars, messageVars>>

MCInit ==
  /\ program \in {"tree", "list", "queue", "book", "copy", "chat", "message"}
  /\ TreeInit /\ ListInit /\ QueueInit /\ BookInit /\ CopyInit /\ ChatQueueInit
  /\ MessageInit
  \* One initial state of each program that does not run is enough.
  /\ program # "copy" => fifo /\ \A f \in Files : size[f] = Absent
  /\ program # "message" => driver = "char"

Tree ==
  /\ program = "tree" /\ TreeNext
  /\ UNCHANGED <<program, listVars, queueVars, bookVars, copyVars, chatQueueVars,
                 messageVars>>

List ==
  /\ program = "list" /\ ListNext
  /\ UNCHANGED <<program, treeVars, queueVars, bookVars, copyVars, chatQueueVars,
                 messageVars>>

Queue ==
  /\ program = "queue" /\ QueueNext
  /\ UNCHANGED <<program, treeVars, listVars, bookVars, copyVars, chatQueueVars,
                 messageVars>>

Book ==
  /\ program = "book" /\ BookNext
  /\ UNCHANGED <<program, treeVars, listVars, queueVars, copyVars, chatQueueVars,
                 messageVars>>

Copying ==
  /\ program = "copy" /\ CopyNext
  /\ UNCHANGED <<program, treeVars, listVars, queueVars, bookVars, chatQueueVars,
                 messageVars>>

Chatting ==
  /\ program = "chat" /\ ChatQueueNext
  /\ UNCHANGED <<program, treeVars, listVars, queueVars, bookVars, copyVars,
                 messageVars>>

Messages ==
  /\ program = "message" /\ MessageNext
  /\ UNCHANGED <<program, treeVars, listVars, queueVars, bookVars, copyVars,
                 chatQueueVars>>

MCNext == Tree \/ List \/ Queue \/ Book \/ Copying \/ Chatting \/ Messages

\* The fairness of CopySpec and of ChatQueueSpec, where those run.
MCFairness ==
  /\ WF_copyVars(program = "copy" /\ ParentStep)
  /\ WF_copyVars(program = "copy" /\ ChildStep)
  /\ \A s \in Sessions :
       /\ WF_chatQueueVars(program = "chat" /\ KillReader(s))
       /\ WF_chatQueueVars(program = "chat" /\ Receive(s))
  /\ \A p \in Processes : SF_chatQueueVars(program = "chat" /\ Handler(p))

MCSpec == MCInit /\ [][MCNext]_allVars /\ MCFairness
=============================================================================
