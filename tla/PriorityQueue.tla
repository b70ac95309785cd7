---------------------------- MODULE PriorityQueue ----------------------------
(***************************************************************************)
(* The queue with priorities (module2/4/4.2).  The linked list is a        *)
(* sequence, first item first; a message is the number of its arrival.     *)
(* enqueue() walks from the head to the place of the new item; the three   *)
(* dequeues walk to the first item that fits and take it out.              *)
(***************************************************************************)
EXTENDS Integers, Sequences

CONSTANTS
  Priorities,
  MaxMessages      \* bound: the items enqueued between two free_queue()

ASSUME QueueAssumption == Priorities \subseteq Int /\ MaxMessages \in Nat

VARIABLES
  queue,
  arrived          \* the number of items enqueued since free_queue()

queueVars == <<queue, arrived>>

Item(p, m) == [priority |-> p, message |-> m]
Items == [priority : Priorities, message : 1 .. MaxMessages]
Waiting == {queue[i] : i \in DOMAIN queue}

\* Mutant: the walk stops in front of items of the same priority.
StopsEarly(i, p) ==
  /\ i \in 1 .. Len(queue) + 1
  /\ i <= Len(queue) => queue[i].priority <= p
  /\ \A j \in 1 .. i - 1 : queue[j].priority > p

\* The new item comes before the first one of a lower priority.
StopsAt(i, p) ==
  /\ i \in 1 .. Len(queue) + 1
  /\ i <= Len(queue) => queue[i].priority < p
  /\ \A j \in 1 .. i - 1 : queue[j].priority >= p

InsertedAt(i, x) ==
  SubSeq(queue, 1, i - 1) \o <<x>> \o SubSeq(queue, i, Len(queue))

WithoutIndex(i) ==
  SubSeq(queue, 1, i - 1) \o SubSeq(queue, i + 1, Len(queue))
-----------------------------------------------------------------------------
QueueInit == queue = <<>> /\ arrived = 0

enqueue(p) ==
  /\ arrived < MaxMessages
  /\ arrived' = arrived + 1
  /\ \E i \in 1 .. Len(queue) + 1 :
       StopsAt(i, p) /\ queue' = InsertedAt(i, Item(p, arrived + 1))

dequeue_first ==
  /\ queue' = IF queue = <<>> THEN queue ELSE Tail(queue)
  /\ UNCHANGED arrived

\* The first item whose priority is among fits, if there is one.
TakeFirst(fits) ==
  /\ \/ /\ \A i \in DOMAIN queue : queue[i].priority \notin fits
        /\ UNCHANGED queue
     \/ \E i \in DOMAIN queue :
          /\ queue[i].priority \in fits
          /\ \A j \in 1 .. i - 1 : queue[j].priority \notin fits
          /\ queue' = WithoutIndex(i)
  /\ UNCHANGED arrived

dequeue_by_priority(p) == TakeFirst({p})

dequeue_by_min_priority(t) == TakeFirst({p \in Priorities : p >= t})

free_queue == queue' = <<>> /\ arrived' = 0

QueueNext ==
  \/ \E p \in Priorities :
       enqueue(p) \/ dequeue_by_priority(p) \/ dequeue_by_min_priority(p)
  \/ dequeue_first
  \/ free_queue

QueueSpec == QueueInit /\ [][QueueNext]_queueVars
-----------------------------------------------------------------------------
(***************************************************************************)
(* x leaves before y: it is more urgent, or as urgent and older.           *)
(***************************************************************************)
Before(x, y) ==
  \/ x.priority > y.priority
  \/ x.priority = y.priority /\ x.message < y.message

\* Of the items in S the first to leave does, and no other.
FirstLeaves(S) ==
  IF S = {} THEN UNCHANGED queue
  ELSE \E x \in S : /\ \A y \in S \ {x} : Before(x, y)
                    /\ Waiting' = Waiting \ {x} /\ Len(queue') = Len(queue) - 1

\* Each dequeue lets the first of those that fit leave.
DequeuesInOrder ==
  /\ dequeue_first => FirstLeaves(Waiting)
  /\ \A p \in Priorities :
       /\ dequeue_by_priority(p) => FirstLeaves({x \in Waiting : x.priority = p})
       /\ dequeue_by_min_priority(p) => FirstLeaves({x \in Waiting : x.priority >= p})

(***************************************************************************)
(* Whatever calls came before, and whichever of the three dequeues is      *)
(* called: it takes the most urgent item that fits, of several as urgent   *)
(* the one that came first, and leaves all others in the queue.            *)
(***************************************************************************)
MostUrgentOldestFirst == [][DequeuesInOrder]_queueVars
=============================================================================
