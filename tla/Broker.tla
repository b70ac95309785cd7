------------------------------- MODULE Broker -------------------------------
(***************************************************************************)
(* Publish and subscribe over one System V message queue                   *)
(* (module3/2/task2.c).  Messages for the broker (mtype 1) and messages    *)
(* for the subscribers (mtype their pid) wait in the same bounded queue.   *)
(*                                                                         *)
(* One life of the broker and of its queue; a topic stands for its name, a *)
(* publication for its publisher, since "task2 -p" sends one and ends.     *)
(***************************************************************************)
EXTENDS Integers, Sequences, FiniteSets

CONSTANTS
  Subscribers, Publishers,  \* processes started with -s and with -p
  Topics, NoTopic,          \* NoTopic: the empty name of a topic given up
  Wants,                    \* the topics on each subscriber's command line
  Posts,                    \* the topic each publisher sends to
  Leaves,                   \* bound: the unsubscribe requests sent, <<s, t>>
  ToBroker,                 \* mtype 1
  NoPid,                    \* the pid in an entry of subs not yet filled in
  Capacity                  \* the messages the queue holds (msg_qbytes)

ASSUME BrokerAssumption ==
  /\ IsFiniteSet(Subscribers)
  /\ Wants \in [Subscribers -> Seq(Topics) \ {<<>>}]   \* argc >= 3
  /\ Posts \in [Publishers -> Topics]
  /\ Leaves \subseteq Subscribers \X Topics
  /\ NoTopic \notin Topics
  /\ Subscribers \cap Publishers = {}
  /\ {ToBroker, NoPid} \cap Subscribers = {}
  /\ Capacity \in Nat \ {0}

VARIABLES
  queue,         \* the message queue
  bpc, msg, turn, subs,     \* the broker: its place, msg, i, subs[]
  spc, asked,    \* the subscribers: their place, the topics asked for
  ppc,           \* the publishers
  published,     \* history: the publications in the order they were queued
  received,      \* history: the publications each subscriber has printed
  since,         \* history: Len(published) when its last request was queued
  quit           \* history: the unsubscribe requests that were sent

brokerVars == <<bpc, msg, turn, subs>>
processVars == <<spc, asked, ppc>>
history == <<published, received, since, quit>>
vars == <<queue, brokerVars, processVars, history>>

Init ==
  /\ queue = <<>>
  /\ bpc = "off" /\ subs = <<>> /\ turn = 1
  /\ msg = [to |-> ToBroker, kind |-> "send", pid |-> NoPid, topic |-> NoTopic]
  /\ spc = [s \in Subscribers |-> "off"]
  /\ asked = [s \in Subscribers |-> 0]
  /\ ppc = [p \in Publishers |-> "off"]
  /\ published = <<>>
  /\ received = [s \in Subscribers |-> <<>>]
  /\ since = [s \in Subscribers |-> 0]
  /\ quit = {}

\* The queue exists: msgget and the queue calls succeed.
Exists == bpc \notin {"off", "gone"}

\* msgsnd with no flags: it waits for room.
Queue(m) == Len(queue) < Capacity /\ queue' = Append(queue, m)

\* msgrcv of the first message of a type.
HasFor(to) == \E i \in DOMAIN queue : queue[i].to = to

FirstFor(to) ==
  CHOOSE i \in DOMAIN queue :
    queue[i].to = to /\ \A j \in 1 .. i - 1 : queue[j].to # to

Without(i) == SubSeq(queue, 1, i - 1) \o SubSeq(queue, i + 1, Len(queue))

\* Mutant: the search for a subscriber begins at subs[1].
EntriesButFirst(s) == {i \in DOMAIN subs : subs[i].pid = s /\ i > 1}

EntriesOf(s) == {i \in DOMAIN subs : subs[i].pid = s}

InTopics(t, i) == \E j \in DOMAIN subs[i].topics : subs[i].topics[j] = t
-----------------------------------------------------------------------------
(***************************************************************************)
(* The broker.                                                             *)
(***************************************************************************)
BrokerStart ==
  /\ bpc = "off"
  /\ bpc' = "receive"
  /\ UNCHANGED <<queue, msg, turn, subs, processVars, history>>

\* Mutant: msgrcv of any type instead of type 1.
ReceiveAny ==
  /\ bpc = "receive" /\ queue # <<>>
  /\ msg' = queue[1] /\ queue' = Without(1) /\ bpc' = queue[1].kind
  /\ turn' = 1
  /\ UNCHANGED <<subs, processVars, history>>

Receive ==
  /\ bpc = "receive" /\ HasFor(ToBroker)
  /\ LET i == FirstFor(ToBroker)
     IN  msg' = queue[i] /\ queue' = Without(i) /\ bpc' = queue[i].kind
  /\ turn' = 1
  /\ UNCHANGED <<subs, processVars, history>>

\* found = sub_count++: the handler of SIGINT sees the entry at once.
NewEntry ==
  /\ bpc = "subscribe" /\ EntriesOf(msg.pid) = {}
  /\ subs' = Append(subs, [pid |-> NoPid, topics |-> <<>>])
  /\ bpc' = "enroll"
  /\ UNCHANGED <<queue, msg, turn, processVars, history>>

Enroll ==
  /\ bpc = "enroll"
  /\ subs' = [subs EXCEPT ![Len(subs)] = [pid |-> msg.pid, topics |-> <<>>]]
  /\ bpc' = "subscribe"
  /\ UNCHANGED <<queue, msg, turn, processVars, history>>

\* Mutant: a new topic takes the place of the old one (topic_count is not
\* counted up).
AddTopicOver ==
  /\ bpc = "subscribe"
  /\ \E i \in EntriesOf(msg.pid) :
       subs' = [subs EXCEPT ![i].topics = <<msg.topic>>]
  /\ bpc' = "receive"
  /\ UNCHANGED <<queue, msg, turn, processVars, history>>

AddTopic ==
  /\ bpc = "subscribe"
  /\ \E i \in EntriesOf(msg.pid) :
       subs' = [subs EXCEPT ![i].topics = Append(@, msg.topic)]
  /\ bpc' = "receive"
  /\ UNCHANGED <<queue, msg, turn, processVars, history>>

\* The topic is blanked wherever the subscriber asked for it.
Unsubscribe ==
  /\ bpc = "unsubscribe"
  /\ subs' = [i \in DOMAIN subs |->
                IF subs[i].pid # msg.pid THEN subs[i]
                ELSE [subs[i] EXCEPT !.topics =
                       [j \in DOMAIN @ |-> IF @[j] = msg.topic THEN NoTopic
                                           ELSE @[j]]]]
  /\ bpc' = "receive"
  /\ UNCHANGED <<queue, msg, turn, processVars, history>>

\* Mutant: no break: a subscriber gets a copy for every match.
ForwardAgain ==
  /\ bpc = "send" /\ turn \in DOMAIN subs /\ InTopics(msg.topic, turn)
  /\ Queue([msg EXCEPT !.to = subs[turn].pid])
  /\ \E more \in
       IF Cardinality({j \in DOMAIN subs[turn].topics :
                         subs[turn].topics[j] = msg.topic}) > 1
         THEN {0, 1} ELSE {1} : turn' = turn + more
  /\ UNCHANGED <<bpc, msg, subs, processVars, history>>

\* One copy to a subscriber of the topic (msgsnd may wait for room).
Forward ==
  /\ bpc = "send" /\ turn \in DOMAIN subs /\ InTopics(msg.topic, turn)
  /\ Queue([msg EXCEPT !.to = subs[turn].pid])
  /\ turn' = turn + 1
  /\ UNCHANGED <<bpc, msg, subs, processVars, history>>

Pass ==
  /\ bpc = "send" /\ turn \in DOMAIN subs /\ ~InTopics(msg.topic, turn)
  /\ turn' = turn + 1
  /\ UNCHANGED <<queue, bpc, msg, subs, processVars, history>>

Forwarded ==
  /\ bpc = "send" /\ turn \notin DOMAIN subs
  /\ bpc' = "receive"
  /\ UNCHANGED <<queue, msg, turn, subs, processVars, history>>

\* SIGINT: broker_cleanup interrupts the subscribers in subs - with pid 0 the
\* whole process group - and removes the queue.
Cleanup ==
  /\ Exists
  /\ LET all == \E i \in DOMAIN subs : subs[i].pid = NoPid
     IN  /\ spc' = [s \in Subscribers |->
                     IF spc[s] \notin {"off", "ended"}
                        /\ (all \/ EntriesOf(s) # {})
                     THEN "ended" ELSE spc[s]]
         /\ ppc' = [p \in Publishers |->
                     IF ppc[p] = "send" /\ all THEN "ended" ELSE ppc[p]]
  /\ queue' = <<>>
  /\ bpc' = "gone"
  /\ UNCHANGED <<msg, turn, subs, asked, history>>
-----------------------------------------------------------------------------
(***************************************************************************)
(* The subscribers.                                                        *)
(***************************************************************************)
SubscriberStart(s) ==
  /\ spc[s] = "off"
  /\ spc' = [spc EXCEPT ![s] = IF Exists THEN "subscribe" ELSE "ended"]
  /\ UNCHANGED <<queue, brokerVars, asked, ppc, history>>

\* One request; without a queue msgsnd fails and nobody looks.
Ask(s) ==
  /\ spc[s] = "subscribe"
  /\ asked' = [asked EXCEPT ![s] = @ + 1]
  /\ IF Exists
       THEN Queue([to |-> ToBroker, kind |-> "subscribe", pid |-> s,
                   topic |-> Wants[s][asked[s] + 1]])
       ELSE UNCHANGED queue
  /\ since' = [since EXCEPT ![s] = Len(published)]
  /\ spc' = [spc EXCEPT ![s] =
              IF asked'[s] = Len(Wants[s]) THEN "listen" ELSE "subscribe"]
  /\ UNCHANGED <<brokerVars, ppc, published, received, quit>>

\* msgrcv returns a message, at once or after a wait.
Deliver(s) ==
  /\ spc[s] \in {"listen", "blocked"}
  /\ Exists /\ HasFor(s)
  /\ received' = [received EXCEPT ![s] = Append(@, queue[FirstFor(s)].pid)]
  /\ queue' = Without(FirstFor(s))
  /\ spc' = [spc EXCEPT ![s] = "listen"]
  /\ UNCHANGED <<brokerVars, asked, ppc, published, since, quit>>

\* msgrcv waits.  (Once the queue is gone a new call fails with EINVAL, and
\* the loop goes on calling it: the subscriber stays at "listen".)
Block(s) ==
  /\ spc[s] = "listen" /\ Exists /\ ~HasFor(s)
  /\ spc' = [spc EXCEPT ![s] = "blocked"]
  /\ UNCHANGED <<queue, brokerVars, asked, ppc, history>>

\* The queue goes while msgrcv waits: EIDRM.
QueueGone(s) ==
  /\ spc[s] = "blocked" /\ bpc = "gone"
  /\ spc' = [spc EXCEPT ![s] = "ended"]
  /\ UNCHANGED <<queue, brokerVars, asked, ppc, history>>

\* The user ends a subscriber; the broker does not get to know.
Interrupt(s) ==
  /\ spc[s] \notin {"off", "ended"}
  /\ spc' = [spc EXCEPT ![s] = "ended"]
  /\ UNCHANGED <<queue, brokerVars, asked, ppc, history>>
-----------------------------------------------------------------------------
(***************************************************************************)
(* The publishers, and whoever sends an unsubscribe request: the broker    *)
(* takes it, but task2 has no command for it.                              *)
(***************************************************************************)
PublisherStart(p) ==
  /\ ppc[p] = "off"
  /\ ppc' = [ppc EXCEPT ![p] = IF Exists THEN "send" ELSE "ended"]
  /\ UNCHANGED <<queue, brokerVars, spc, asked, history>>

\* "sent to the broker" is printed even if the queue is gone.
Publish(p) ==
  /\ ppc[p] = "send"
  /\ IF Exists
       THEN /\ Queue([to |-> ToBroker, kind |-> "send", pid |-> p,
                      topic |-> Posts[p]])
            /\ published' = Append(published, p)
       ELSE UNCHANGED <<queue, published>>
  /\ ppc' = [ppc EXCEPT ![p] = "ended"]
  /\ UNCHANGED <<brokerVars, spc, asked, received, since, quit>>

SendUnsubscribe(s, t) ==
  /\ Exists /\ <<s, t>> \in Leaves \ quit
  /\ Queue([to |-> ToBroker, kind |-> "unsubscribe", pid |-> s, topic |-> t])
  /\ quit' = quit \cup {<<s, t>>}
  /\ UNCHANGED <<brokerVars, processVars, published, received, since>>

BrokerStep ==
  \/ Receive \/ NewEntry \/ Enroll \/ AddTopic \/ Unsubscribe
  \/ Forward \/ Pass \/ Forwarded

SubscriberStep(s) == Ask(s) \/ Deliver(s) \/ Block(s) \/ QueueGone(s)

Next ==
  \/ BrokerStart \/ BrokerStep \/ Cleanup
  \/ \E s \in Subscribers :
       \/ SubscriberStart(s) \/ SubscriberStep(s) \/ Interrupt(s)
       \/ \E t \in Topics : SendUnsubscribe(s, t)
  \/ \E p \in Publishers : PublisherStart(p) \/ Publish(p)

(***************************************************************************)
(* The broker and the subscribers go on whenever they can.  (A sender that *)
(* waits for room is passed over at most as often as others have something *)
(* left to send, so weak fairness is enough.)                              *)
(***************************************************************************)
Fairness ==
  /\ WF_vars(BrokerStep)
  /\ \A s \in Subscribers : WF_vars(SubscriberStep(s))

Spec == Init /\ [][Next]_vars /\ Fairness
-----------------------------------------------------------------------------
Message ==
  [to : Subscribers \cup {ToBroker}, kind : {"subscribe", "unsubscribe", "send"},
   pid : Subscribers \cup Publishers \cup {NoPid}, topic : Topics \cup {NoTopic}]

\* Every variable keeps its type; in particular nothing is sent to pid 0, and
\* the queue is never overfull.
TypeOK ==
  /\ queue \in Seq(Message) /\ Len(queue) <= Capacity
  /\ bpc \in {"off", "receive", "subscribe", "enroll", "unsubscribe", "send",
              "gone"}
  /\ msg \in Message
  /\ turn \in 1 .. Len(subs) + 1
  /\ subs \in Seq([pid : Subscribers \cup {NoPid},
                   topics : Seq(Topics \cup {NoTopic})])
  /\ Len(subs) <= Cardinality(Subscribers)
  /\ spc \in [Subscribers -> {"off", "subscribe", "listen", "blocked", "ended"}]
  /\ asked \in [Subscribers -> Nat]
  /\ \A s \in Subscribers : asked[s] <= Len(Wants[s])
  /\ ppc \in [Publishers -> {"off", "send", "ended"}]
  /\ published \in Seq(Publishers)
  /\ received \in [Subscribers -> Seq(Publishers)]
  /\ since \in [Subscribers -> 0 .. Len(published)]
  /\ quit \subseteq Leaves

Wanted(s) == {Wants[s][i] : i \in DOMAIN Wants[s]}

\* A message to the broker that it is to forward to s.
Coming(i, s) ==
  queue[i].to = ToBroker /\ queue[i].kind = "send" /\ queue[i].topic \in Wanted(s)

\* The broker has a publication in its hands that it is to forward to s.
InHand(s) ==
  /\ bpc = "send" /\ msg.topic \in Wanted(s)
  /\ \A i \in EntriesOf(s) : turn <= i

\* The publications that s has got or may still get, each with the place where
\* it is: printed, on the queue for s, in the broker's hands, on the queue for
\* the broker.
Way(s) ==
  {<<1, i, received[s][i]>> : i \in DOMAIN received[s]}
  \cup {<<2, i, queue[i].pid>> : i \in {j \in DOMAIN queue : queue[j].to = s}}
  \cup (IF InHand(s) THEN {<<3, 1, msg.pid>>} ELSE {})
  \cup {<<4, i, queue[i].pid>> : i \in {j \in DOMAIN queue : Coming(j, s)}}

\* What is at a gets, or got, to the subscriber before what is at b.
Before(a, b) == a[1] < b[1] \/ (a[1] = b[1] /\ a[2] < b[2])

Position(p) == CHOOSE i \in DOMAIN published : published[i] = p

(***************************************************************************)
(* A subscriber gets the publications of its topics only, each once even   *)
(* if it named the topic twice, in the order they were queued.             *)
(* ("weather ... must not come to the subscriber", test.sh.)               *)
(***************************************************************************)
InOrderOnce ==
  \A s \in Subscribers :
    /\ \A a, b \in Way(s) : Before(a, b) => Position(a[3]) < Position(b[3])
    /\ \A a \in Way(s) : Posts[a[3]] \in Wanted(s)

(***************************************************************************)
(* Nothing is missed: what was queued after the last request of a          *)
(* subscriber is on its way to it, or there - as long as the broker lives. *)
(***************************************************************************)
NothingMissed ==
  \A s \in Subscribers : Exists /\ spc[s] \in {"listen", "blocked"} =>
    \A i \in since[s] + 1 .. Len(published) :
      Posts[published[i]] \in Wanted(s) /\ <<s, Posts[published[i]]>> \notin quit
      => \E a \in Way(s) : a[3] = published[i]

Jammed == bpc = "send" /\ turn \in DOMAIN subs /\ Len(queue) = Capacity

(***************************************************************************)
(* Only a full queue stops the broker: unless it stays jammed for ever, it *)
(* is interrupted or the subscriber is, a listening subscriber has printed *)
(* in the end all that is on its way to it.                                *)
(***************************************************************************)
AllArrives ==
  \A s \in Subscribers :
    spc[s] \in {"listen", "blocked"} ~>
      \/ spc[s] = "ended" \/ bpc = "gone"
      \/ \A a \in Way(s) : a[1] = 1
      \/ []Jammed

(***************************************************************************)
(* The subscribers end when the queue is removed: "if(errno == EIDRM)      *)
(* break; // queue removed", and "(he kills the subscriber himself)" in    *)
(* test.sh about the broker.                                               *)
(***************************************************************************)
SubscribersEnd ==
  bpc = "gone" ~> \A s \in Subscribers : spc[s] \in {"off", "ended"}
=============================================================================
