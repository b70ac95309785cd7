------------------------------ MODULE QueueChat ------------------------------
(***************************************************************************)
(* The chat over two POSIX message queues (module3/3).  A session is one   *)
(* run of the program: until fork() its writer, then a writer and a reader *)
(* process.  A queue lives on after mq_unlink() for those who have it      *)
(* open, so a queue is a number and the two names point to queues.  Each   *)
(* call on a queue is a step; Ctrl+C goes to both processes of a session.  *)
(***************************************************************************)
EXTENDS Integers, Sequences, FiniteSets

CONSTANTS
  Sessions,
  MaxMsg           \* MAX_MSG

ASSUME ChatQueueAssumption == IsFiniteSet(Sessions) /\ MaxMsg \in Nat \ {0}

VARIABLES
  name,                    \* what name1 and name2 point to, or None
  waiting,                 \* the queues: texts in order, and how many EXIT
  is_creator, mq_in, mq_out,
  pc,                      \* the processes
  interrupted,             \* the sessions that got Ctrl+C
  overlap                  \* history: queues were opened while being removed

sessionVars == <<is_creator, mq_in, mq_out>>
chatQueueVars == <<name, waiting, sessionVars, pc, interrupted, overlap>>

None == 0
Processes == Sessions \X {"writer", "reader"}
Writer(s) == <<s, "writer">>
Reader(s) == <<s, "reader">>
Empty == [texts |-> <<>>, exits |-> 0]
InHandler == {"bye", "close", "unlink1", "unlink2"}
Opening == {"create2", "join1", "join2"}

\* A creator has begun to leave and its process has not ended.
Removing == \E p \in Processes : pc[p] \in InHandler /\ is_creator[p[1]]

Filled(q) == Len(waiting[q].texts) + waiting[q].exits

\* Mutant: a send that fails is tried again.
SendAgain(q) == q # None /\ Filled(q) < MaxMsg

\* mq_send() returns: at once with an error, or when there is a place.
SendReturns(q) == q # None => Filled(q) < MaxMsg

Sent(q, m) ==
  IF q = None THEN waiting
  ELSE IF m = "bye" THEN [waiting EXCEPT ![q].exits = @ + 1]
  ELSE [waiting EXCEPT ![q].texts = Append(@, m)]

Goes(p, l) == pc' = [pc EXCEPT ![p] = l]
-----------------------------------------------------------------------------
ChatQueueInit ==
  /\ name = <<None, None>> /\ waiting = <<>>
  /\ is_creator = [s \in Sessions |-> FALSE]
  /\ mq_in = [s \in Sessions |-> None] /\ mq_out = [s \in Sessions |-> None]
  /\ pc = [p \in Processes |-> IF p[2] = "writer" THEN "start" ELSE "none"]
  /\ interrupted = {} /\ overlap = FALSE

Opens == overlap' = (overlap \/ Removing)

Removes ==
  overlap' = (overlap \/ \E s \in Sessions : pc[Writer(s)] \in Opening)

\* mq_open(name1, O_CREAT | O_EXCL | O_RDWR)
Create1(s) ==
  /\ pc[Writer(s)] = "start"
  /\ IF name[1] = None
       THEN /\ waiting' = Append(waiting, Empty)
            /\ name' = [name EXCEPT ![1] = Len(waiting')]
            /\ mq_in' = [mq_in EXCEPT ![s] = Len(waiting')]
            /\ is_creator' = [is_creator EXCEPT ![s] = TRUE]
            /\ Goes(Writer(s), "create2")
       ELSE /\ Goes(Writer(s), "join1")
            /\ UNCHANGED <<name, waiting, mq_in, is_creator>>
  /\ Opens /\ UNCHANGED <<mq_out, interrupted>>

\* mq_open(name2, O_CREAT | O_RDWR)
Create2(s) ==
  /\ pc[Writer(s)] = "create2"
  /\ IF name[2] = None
       THEN /\ waiting' = Append(waiting, Empty)
            /\ name' = [name EXCEPT ![2] = Len(waiting')]
       ELSE UNCHANGED <<name, waiting>>
  /\ mq_out' = [mq_out EXCEPT ![s] = name'[2]]
  /\ Goes(Writer(s), "signal")
  /\ Opens /\ UNCHANGED <<mq_in, is_creator, interrupted>>

\* Mutant: the joiner takes the names in the creator's order.
SameOrder(s) ==
  /\ \/ /\ pc[Writer(s)] = "join1"
        /\ mq_in' = [mq_in EXCEPT ![s] = name[1]]
        /\ Goes(Writer(s), "join2") /\ UNCHANGED mq_out
     \/ /\ pc[Writer(s)] = "join2"
        /\ mq_out' = [mq_out EXCEPT ![s] = name[2]]
        /\ Goes(Writer(s), "signal") /\ UNCHANGED mq_in
  /\ Opens /\ UNCHANGED <<name, waiting, is_creator, interrupted>>

\* mq_open(name1, O_RDWR), then mq_open(name2, O_RDWR)
Join(s) ==
  /\ \/ /\ pc[Writer(s)] = "join1"
        /\ mq_out' = [mq_out EXCEPT ![s] = name[1]]
        /\ Goes(Writer(s), "join2") /\ UNCHANGED mq_in
     \/ /\ pc[Writer(s)] = "join2"
        /\ mq_in' = [mq_in EXCEPT ![s] = name[2]]
        /\ Goes(Writer(s), "signal") /\ UNCHANGED mq_out
  /\ Opens /\ UNCHANGED <<name, waiting, is_creator, interrupted>>

Install(s) ==
  /\ pc[Writer(s)] = "signal" /\ Goes(Writer(s), "fork")
  /\ UNCHANGED <<name, waiting, sessionVars, interrupted, overlap>>

Fork(s) ==
  /\ pc[Writer(s)] = "fork"
  /\ pc' = [pc EXCEPT ![Writer(s)] = "typing", ![Reader(s)] = "receiving"]
  /\ UNCHANGED <<name, waiting, sessionVars, interrupted, overlap>>
-----------------------------------------------------------------------------
\* A line is typed and sent: a text, the text "EXIT", or "exit".
Type(s) ==
  /\ pc[Writer(s)] = "typing"
  /\ SendReturns(mq_out[s])
  /\ \/ /\ \E m \in {"text", "EXIT"} : waiting' = Sent(mq_out[s], m)
        /\ UNCHANGED pc
     \/ waiting' = Sent(mq_out[s], "text") /\ Goes(Writer(s), "kill")
  /\ UNCHANGED <<name, sessionVars, interrupted, overlap>>

EndOfInput(s) ==
  /\ pc[Writer(s)] = "typing" /\ Goes(Writer(s), "kill")
  /\ UNCHANGED <<name, waiting, sessionVars, interrupted, overlap>>

\* kill(pid, SIGTERM), also in the middle of the handler
KillReader(s) ==
  /\ pc[Writer(s)] = "kill"
  /\ pc' = [pc EXCEPT ![Writer(s)] = "bye", ![Reader(s)] = "ended"]
  /\ UNCHANGED <<name, waiting, sessionVars, interrupted, overlap>>

\* mq_receive(): the highest priority first
Receive(s) ==
  /\ pc[Reader(s)] = "receiving"
  /\ IF mq_in[s] = None
       THEN Goes(Reader(s), "ended") /\ UNCHANGED waiting
       ELSE LET q == mq_in[s]
            IN  \/ /\ waiting[q].exits > 0
                   /\ waiting' = [waiting EXCEPT ![q].exits = @ - 1]
                   /\ Goes(Reader(s), "ended")
                \/ /\ waiting[q].exits = 0 /\ waiting[q].texts # <<>>
                   /\ waiting' = [waiting EXCEPT ![q].texts = Tail(@)]
                   /\ IF Head(waiting[q].texts) = "EXIT"
                        THEN Goes(Reader(s), "ended")
                        ELSE UNCHANGED pc
  /\ UNCHANGED <<name, sessionVars, interrupted, overlap>>
-----------------------------------------------------------------------------
\* Without the handler the signal ends the process; in a handler that a
\* signal started it is blocked; one that main() called starts anew, where
\* a closed descriptor makes the send fail.
AfterSignal(p) ==
  CASE pc[p] \in Opening \cup {"signal"} -> "killed"
    [] pc[p] \in {"fork", "typing", "receiving", "kill", "bye", "close"} -> "bye"
    [] pc[p] \in {"unlink1", "unlink2"} -> "unlink1"
    [] OTHER -> pc[p]

CtrlC(s) ==
  /\ s \notin interrupted /\ pc[Writer(s)] # "start"
  /\ interrupted' = interrupted \cup {s}
  /\ pc' = [p \in Processes |-> IF p[1] = s THEN AfterSignal(p) ELSE pc[p]]
  /\ UNCHANGED <<name, waiting, sessionVars, overlap>>

\* sigint_handler
Handler(p) ==
  /\ \/ /\ pc[p] = "bye" /\ SendReturns(mq_out[p[1]])
        /\ waiting' = Sent(mq_out[p[1]], "bye")
        /\ Goes(p, "close")
        /\ UNCHANGED <<name, overlap>>
     \/ /\ pc[p] = "close"
        /\ Goes(p, IF is_creator[p[1]] THEN "unlink1" ELSE "ended")
        /\ UNCHANGED <<name, waiting, overlap>>
     \/ /\ pc[p] = "unlink1"
        /\ name' = [name EXCEPT ![1] = None]
        /\ Goes(p, "unlink2") /\ Removes /\ UNCHANGED waiting
     \/ /\ pc[p] = "unlink2"
        /\ name' = [name EXCEPT ![2] = None]
        /\ Goes(p, "ended") /\ Removes /\ UNCHANGED waiting
  /\ UNCHANGED <<sessionVars, interrupted>>

ChatQueueNext ==
  \/ \E s \in Sessions :
       \/ Create1(s) \/ Create2(s) \/ Join(s) \/ Install(s) \/ Fork(s)
       \/ Type(s) \/ EndOfInput(s) \/ KillReader(s) \/ Receive(s) \/ CtrlC(s)
  \/ \E p \in Processes : Handler(p)

(***************************************************************************)
(* The processes run; who types is up to the users.  The kernel gives a    *)
(* place that becomes free to a sender that waits for it.                  *)
(***************************************************************************)
ChatQueueFairness ==
  /\ \A s \in Sessions :
       WF_chatQueueVars(KillReader(s)) /\ WF_chatQueueVars(Receive(s))
  /\ \A p \in Processes : SF_chatQueueVars(Handler(p))

ChatQueueSpec ==
  ChatQueueInit /\ [][ChatQueueNext]_chatQueueVars /\ ChatQueueFairness
-----------------------------------------------------------------------------
Talking(s) == pc[Writer(s)] = "typing"

Used(s) == {mq_in[s], mq_out[s]} \ {None}

(***************************************************************************)
(* Of two who talk and share a queue, one of them its creator, the other   *)
(* has joined: it sends into the queue the creator receives from, and it   *)
(* receives from the one the creator sends into, however their mq_open()   *)
(* calls fell together, except that it may have found no second queue yet. *)
(* And when the last process has ended no queue is left.  This is so       *)
(* unless queues were opened and removed at the same time, or a creator    *)
(* got Ctrl+C before it had its handler.                                   *)
(***************************************************************************)
CrossedOver ==
  ~overlap /\ (\A s \in Sessions : is_creator[s] => pc[Writer(s)] # "killed") =>
    /\ \A s, t \in Sessions :
         s # t /\ Talking(s) /\ Talking(t) /\ is_creator[s] /\ Used(s) \cap Used(t) # {} =>
           /\ ~is_creator[t] /\ mq_out[t] = mq_in[s]
           /\ mq_in[t] \in {mq_out[s], None}
    /\ (\A p \in Processes : pc[p] \in {"none", "start", "ended", "killed"}) =>
         name = <<None, None>>

\* A place in this queue comes free only if somebody else opens it.
NobodyReads(q) ==
  \A s \in Sessions : mq_in[s] = q => pc[Reader(s)] # "receiving"

(***************************************************************************)
(* Whoever leaves, by "exit", by the end of input or by Ctrl+C, in any     *)
(* state of the other side, comes to an end; only one whose queue is full  *)
(* and read by nobody waits for ever to say EXIT.                          *)
(***************************************************************************)
LeavingEnds ==
  \A p \in Processes :
    <>[](pc[p] \in InHandler \cup {"kill"} =>
           /\ pc[p] = "bye" /\ mq_out[p[1]] # None
           /\ Filled(mq_out[p[1]]) = MaxMsg /\ NobodyReads(mq_out[p[1]]))
=============================================================================
