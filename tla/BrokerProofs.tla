---------------------------- MODULE BrokerProofs ----------------------------
(***************************************************************************)
(* Proofs about Broker, for any subscribers and publishers, any topics     *)
(* they name and any room in the queue.                                    *)
(***************************************************************************)
EXTENDS Broker, BasicFacts, FiniteSetTheorems

InPublished(p) == \E k \in 1 .. Len(published) : published[k] = p

\* What a message says is true: its sender asked for that, or sent it.
Sound(m) ==
  /\ m.kind = "subscribe" =>
       m.pid \in Subscribers /\ m.topic \in Topics /\ m.topic \in Wanted(m.pid)
  /\ m.kind = "unsubscribe" => <<m.pid, m.topic>> \in quit
  /\ m.kind = "send" => InPublished(m.pid) /\ m.topic = Posts[m.pid]

\* Only publications are sent to the subscribers.
SoundQueue ==
  \A k \in 1 .. Len(queue) :
    Sound(queue[k]) /\ (queue[k].to # ToBroker => queue[k].kind = "send")

\* What the broker does is what the message in its hands asks for.
SoundHand ==
  /\ bpc \in {"subscribe", "unsubscribe", "send"} => msg.kind = bpc
  /\ bpc = "enroll" => msg.kind = "subscribe"
  /\ bpc \in {"subscribe", "enroll", "unsubscribe", "send"} => Sound(msg)

(***************************************************************************)
(* While the broker lives: one entry for each subscriber, an entry without *)
(* a pid only while it is made, and only topics its subscriber asked for.  *)
(***************************************************************************)
Entries ==
  Exists =>
    /\ \A i, j \in 1 .. Len(subs) : subs[i].pid = subs[j].pid => i = j
    /\ \A i \in 1 .. Len(subs) :
         subs[i].pid = NoPid => bpc = "enroll" /\ i = Len(subs)
    /\ bpc = "enroll" => /\ Len(subs) > 0 /\ subs[Len(subs)].pid = NoPid
                         /\ \A i \in 1 .. Len(subs) : subs[i].pid # msg.pid
    /\ \A i \in 1 .. Len(subs) : \A j \in 1 .. Len(subs[i].topics) :
         subs[i].topics[j] # NoTopic =>
           subs[i].pid \in Subscribers
             /\ subs[i].topics[j] \in Wanted(subs[i].pid)

\* A publisher sends once, and ends.
Publications ==
  /\ \A i, j \in 1 .. Len(published) : published[i] = published[j] => i = j
  /\ \A i \in 1 .. Len(published) : ppc[published[i]] = "ended"

BeforeStart ==
  bpc = "off" => /\ subs = <<>>
                 /\ \A s \in Subscribers : asked[s] = 0
                                           /\ spc[s] \in {"off", "ended"}

\* A subscriber listens once it has asked for all its topics.
Requests ==
  \A s \in Subscribers :
    /\ spc[s] = "off" => asked[s] = 0
    /\ spc[s] = "subscribe" => asked[s] < Len(Wants[s])
    /\ spc[s] \in {"listen", "blocked"} => asked[s] = Len(Wants[s])

Receipts ==
  \A s \in Subscribers : \A k \in 1 .. Len(received[s]) :
    InPublished(received[s][k])

IType ==
  /\ TypeOK /\ SoundQueue /\ SoundHand /\ Entries /\ Publications
  /\ BeforeStart /\ Requests /\ Receipts
-----------------------------------------------------------------------------
(***************************************************************************)
(* TypeOK, process by process.                                             *)
(***************************************************************************)
QueueType == queue \in Seq(Message) /\ Len(queue) <= Capacity

Entry == [pid : Subscribers \cup {NoPid}, topics : Seq(Topics \cup {NoTopic})]

BrokerType ==
  /\ bpc \in {"off", "receive", "subscribe", "enroll", "unsubscribe", "send",
              "gone"}
  /\ msg \in Message
  /\ turn \in 1 .. Len(subs) + 1
  /\ subs \in Seq(Entry)
  /\ Len(subs) <= Cardinality(Subscribers)

ProcessType ==
  /\ spc \in [Subscribers -> {"off", "subscribe", "listen", "blocked", "ended"}]
  /\ asked \in [Subscribers -> Nat]
  /\ \A s \in Subscribers : asked[s] <= Len(Wants[s])
  /\ ppc \in [Publishers -> {"off", "send", "ended"}]

HistoryType ==
  /\ published \in Seq(Publishers)
  /\ received \in [Subscribers -> Seq(Publishers)]
  /\ since \in [Subscribers -> 0 .. Len(published)]
  /\ quit \subseteq Leaves

LEMMA TypeParts ==
  /\ TypeOK <=> QueueType /\ BrokerType /\ ProcessType /\ HistoryType
  /\ TypeOK' <=> QueueType' /\ BrokerType' /\ ProcessType' /\ HistoryType'
BY DEF TypeOK, QueueType, BrokerType, ProcessType, HistoryType, Entry

\* The groups of variables a step leaves alone keep their types.
LEMMA UnchangedTypes ==
  /\ QueueType /\ UNCHANGED queue => QueueType'
  /\ BrokerType /\ UNCHANGED brokerVars => BrokerType'
  /\ ProcessType /\ UNCHANGED processVars => ProcessType'
  /\ HistoryType /\ UNCHANGED history => HistoryType'
BY DEF QueueType, BrokerType, ProcessType, HistoryType, brokerVars,
       processVars, history

\* The place in the queue that item k had before item i was taken out, and
\* the place that item k has after that.
Old(i, k) == IF k < i THEN k ELSE k + 1
New(i, k) == IF k < i THEN k ELSE k - 1

\* One message is taken out: the others stay, in their order.
LEMMA Removed ==
  ASSUME queue \in Seq(Message), NEW i \in 1 .. Len(queue), queue' = Without(i)
  PROVE  /\ queue' \in Seq(Message) /\ Len(queue') < Len(queue)
         /\ Len(queue') \in Nat /\ Len(queue) \in Nat
         /\ \A k \in 1 .. Len(queue') :
              /\ Old(i, k) \in 1 .. Len(queue) /\ Old(i, k) # i
              /\ queue'[k] = queue[Old(i, k)]
         /\ \A k \in 1 .. Len(queue) : k # i =>
              New(i, k) \in 1 .. Len(queue') /\ queue'[New(i, k)] = queue[k]
<1>1. PICK n \in Nat, q \in Seq(Message), m \in Nat :
        n = Len(queue) /\ q = queue /\ m = i - 1
  OBVIOUS
<1>2. i \in 1 .. n /\ m \in 0 .. n /\ m + 1 = i
  BY <1>1
<1> DEFINE a == SubSeq(q, 1, m)
           b == SubSeq(q, i + 1, n)
<1>3. a \in Seq(Message) /\ Len(a) = m /\ \A k \in 1 .. m : a[k] = q[k]
  <2>1. m \in 0 .. Len(q)
    BY <1>1, <1>2
  <2>. QED
    BY <2>1, CutInTwo
<1>4. /\ b \in Seq(Message) /\ Len(b) = n - i
      /\ \A k \in 1 .. n - i : b[k] = q[i + k]
  <2>1. i \in 0 .. Len(q) /\ n = Len(q) /\ i \in Nat
    BY <1>1, <1>2
  <2>. QED
    BY <2>1, CutInTwo
<1>5. queue' = a \o b
  BY <1>1 DEF Without
<1>6. /\ a \o b \in Seq(Message) /\ Len(a \o b) = m + (n - i)
      /\ \A k \in 1 .. m + (n - i) :
           (a \o b)[k] = IF k <= m THEN a[k] ELSE b[k - m]
  <2>1. PICK x, y, l, h : x = a /\ y = b /\ l = m /\ h = n - i
    OBVIOUS
  <2>2. /\ x \in Seq(Message) /\ y \in Seq(Message)
        /\ Len(x) = l /\ Len(y) = h
    BY <1>3, <1>4, <2>1
  <2>3. /\ x \o y \in Seq(Message) /\ Len(x \o y) = l + h
        /\ \A k \in 1 .. l + h :
             (x \o y)[k] = IF k <= l THEN x[k] ELSE y[k - l]
    BY <2>2, ConcatProperties
  <2>. QED
    BY <2>1, <2>3
<1>7. m + (n - i) = n - 1 /\ n - 1 \in Nat
  BY <1>2
<1>8. /\ queue' \in Seq(Message) /\ Len(queue') = n - 1
      /\ \A k \in 1 .. n - 1 : queue'[k] = IF k <= m THEN a[k] ELSE b[k - m]
  BY <1>5, <1>6, <1>7
<1>9. ASSUME NEW k \in 1 .. n - 1
      PROVE  Old(i, k) \in 1 .. n /\ Old(i, k) # i /\ queue'[k] = queue[Old(i, k)]
  <2>1. CASE k < i
    <3>1. k \in 1 .. m /\ Old(i, k) = k /\ k <= m /\ k # i /\ k \in 1 .. n
      BY <1>2, <2>1 DEF Old
    <3>. QED
      BY <1>1, <1>3, <1>8, <3>1
  <2>2. CASE ~ (k < i)
    <3>1. /\ ~ (k <= m) /\ k - m \in 1 .. n - i /\ i + (k - m) = k + 1
          /\ Old(i, k) = k + 1 /\ k + 1 \in 1 .. n /\ k + 1 # i
      BY <1>2, <2>2 DEF Old
    <3>2. queue'[k] = b[k - m]
      BY <1>8, <3>1
    <3>3. b[k - m] = q[i + (k - m)]
      BY <1>4, <3>1
    <3>. QED
      BY <1>1, <3>1, <3>2, <3>3
  <2>. QED
    BY <2>1, <2>2
<1>10. ASSUME NEW k \in 1 .. n, k # i
       PROVE  New(i, k) \in 1 .. n - 1 /\ queue'[New(i, k)] = queue[k]
  <2>1. New(i, k) \in 1 .. n - 1 /\ Old(i, New(i, k)) = k
    BY <1>2, <1>10 DEF New, Old
  <2>. QED
    BY <1>9, <2>1
<1>11. Len(queue') < Len(queue) /\ Len(queue') \in Nat /\ Len(queue) \in Nat
  BY <1>1, <1>7, <1>8
<1>. QED
  BY <1>1, <1>8, <1>9, <1>10, <1>11

LEMMA PlacesInOrder ==
  ASSUME NEW i \in Nat, NEW j \in Nat, NEW k \in Nat, j < k
  PROVE  /\ Old(i, j) < Old(i, k)
         /\ j # i /\ k # i => New(i, j) < New(i, k)
BY DEF Old, New

\* msgrcv takes the first message of its type.
LEMMA FirstOfItsType ==
  ASSUME queue \in Seq(Message), NEW to, HasFor(to)
  PROVE  /\ FirstFor(to) \in 1 .. Len(queue) /\ queue[FirstFor(to)].to = to
         /\ \A j \in 1 .. FirstFor(to) - 1 : queue[j].to # to
<1> DEFINE S == {i \in DOMAIN queue : queue[i].to = to}
<1>1. DOMAIN queue = 1 .. Len(queue) /\ S \subseteq Nat /\ S # {}
  BY DEF HasFor
<1>2. PICK x \in S : \A y \in S : x <= y
  BY <1>1, LeastNumber
<1>3. \A j \in 1 .. x - 1 : queue[j].to # to
  BY <1>1, <1>2
<1>4. \E i \in DOMAIN queue :
        queue[i].to = to /\ \A j \in 1 .. i - 1 : queue[j].to # to
  BY <1>2, <1>3
<1>. QED
  BY <1>1, <1>4 DEF FirstFor

\* What both receivers take out, and what they leave.
TakenOut(i, to) ==
  /\ i = FirstFor(to) /\ queue[i] \in Message /\ queue[i].to = to
  /\ \A j \in 1 .. Len(queue) : queue[j].to = to => i <= j
  /\ queue' \in Seq(Message)
  /\ Len(queue') \in Nat /\ Len(queue) \in Nat
  /\ Len(queue') < Len(queue)
  /\ \A k \in 1 .. Len(queue') :
       /\ Old(i, k) \in 1 .. Len(queue) /\ Old(i, k) # i
       /\ queue'[k] = queue[Old(i, k)]
  /\ \A k \in 1 .. Len(queue) : k # i =>
       New(i, k) \in 1 .. Len(queue') /\ queue'[New(i, k)] = queue[k]

LEMMA Taken ==
  ASSUME queue \in Seq(Message), NEW to, HasFor(to),
         queue' = Without(FirstFor(to))
  PROVE  \E i \in 1 .. Len(queue) : TakenOut(i, to)
<1>1. PICK i \in 1 .. Len(queue) : i = FirstFor(to)
  BY FirstOfItsType
<1>2. queue[i] \in Message /\ queue[i].to = to
  BY <1>1, FirstOfItsType
<1>3. ASSUME NEW j \in 1 .. Len(queue), queue[j].to = to
      PROVE  i <= j
  <2>1. j \notin 1 .. i - 1
    BY <1>1, <1>3, FirstOfItsType
  <2>2. PICK n \in Nat : n = Len(queue)
    OBVIOUS
  <2>. QED
    BY <2>1, <2>2
<1>4. queue' = Without(i)
  BY <1>1
<1>. QED
  BY <1>1, <1>2, <1>3, <1>4, Removed DEF TakenOut
-----------------------------------------------------------------------------
LEMMA InitType == Init => IType
<1> SUFFICES ASSUME Init PROVE IType
  OBVIOUS
<1>1. \A s \in Subscribers : /\ Len(Wants[s]) \in Nat /\ Len(Wants[s]) > 0
                             /\ Len(Wants[s]) >= 0
  <2> SUFFICES ASSUME NEW s \in Subscribers
               PROVE  Len(Wants[s]) \in Nat /\ Len(Wants[s]) > 0
    OBVIOUS
  <2>1. Wants[s] \in Seq(Topics) /\ Wants[s] # <<>>
    BY BrokerAssumption DEF BrokerAssumption
  <2>. QED
    BY <2>1
<1>2. /\ Len(queue) = 0 /\ Len(subs) = 0 /\ Len(published) = 0
      /\ \A s \in Subscribers : Len(received[s]) = 0
  BY DEF Init
<1>3. QueueType
  BY <1>2, BrokerAssumption DEF Init, QueueType, BrokerAssumption
<1>4. Cardinality(Subscribers) \in Nat
  BY BrokerAssumption, FS_CardinalityType DEF BrokerAssumption
<1>5. msg \in Message
  BY DEF Init, Message
<1>6. BrokerType
  BY <1>2, <1>4, <1>5 DEF Init, BrokerType
<1>7. ProcessType
  BY <1>1 DEF Init, ProcessType
<1>8. HistoryType
  BY <1>2 DEF Init, HistoryType
<1>9. SoundQueue /\ SoundHand /\ Entries /\ Publications
  BY <1>2 DEF Init, SoundQueue, SoundHand, Entries, Exists, Publications
<1>10. BeforeStart /\ Requests /\ Receipts
  BY <1>1, <1>2 DEF Init, BeforeStart, Requests, Receipts
<1>. QED
  BY <1>3, <1>6, <1>7, <1>8, <1>9, <1>10, TypeParts DEF IType

\* The messages that are sent are of the type of a message.
LEMMA SentType ==
  ASSUME IType
  PROVE  /\ \A s \in Subscribers : spc[s] = "subscribe" =>
              /\ asked[s] + 1 \in 1 .. Len(Wants[s])
              /\ Wants[s][asked[s] + 1] \in Topics
              /\ [to |-> ToBroker, kind |-> "subscribe", pid |-> s,
                  topic |-> Wants[s][asked[s] + 1]] \in Message
         /\ \A p \in Publishers :
              [to |-> ToBroker, kind |-> "send", pid |-> p,
               topic |-> Posts[p]] \in Message
         /\ \A s \in Subscribers, t \in Topics :
              [to |-> ToBroker, kind |-> "unsubscribe", pid |-> s,
               topic |-> t] \in Message
         /\ bpc = "send" => \A i \in 1 .. Len(subs) :
              /\ subs[i].pid \in Subscribers
              /\ [msg EXCEPT !.to = subs[i].pid] \in Message
<1> USE DEF IType
<1>1. ASSUME NEW s \in Subscribers, spc[s] = "subscribe"
      PROVE  /\ asked[s] + 1 \in 1 .. Len(Wants[s])
             /\ Wants[s][asked[s] + 1] \in Topics
  <2>1. Wants[s] \in Seq(Topics)
    BY BrokerAssumption DEF BrokerAssumption
  <2>2. asked[s] \in Nat /\ asked[s] < Len(Wants[s]) /\ Len(Wants[s]) \in Nat
    BY <1>1, <2>1, TypeParts DEF Requests, ProcessType
  <2>3. asked[s] + 1 \in 1 .. Len(Wants[s])
    BY <2>2
  <2>. QED
    BY <2>1, <2>3
<1>2. ASSUME NEW i \in 1 .. Len(subs), bpc = "send"
      PROVE  subs[i].pid \in Subscribers
  <2>1. subs[i] \in Entry
    BY TypeParts DEF BrokerType
  <2>2. subs[i].pid # NoPid
    BY <1>2 DEF Entries, Exists
  <2>. QED
    BY <2>1, <2>2 DEF Entry
<1>3. msg \in Message
  BY TypeParts DEF BrokerType
<1>4. \A p \in Publishers : Posts[p] \in Topics
  BY BrokerAssumption DEF BrokerAssumption
<1>. QED
  BY <1>1, <1>2, <1>3, <1>4 DEF Message

\* The steps, each with who takes it.
LEMMA Steps ==
  Next => \/ BrokerStart \/ Receive \/ NewEntry \/ Enroll \/ AddTopic
          \/ Unsubscribe \/ Forward \/ Pass \/ Forwarded \/ Cleanup
          \/ \E s \in Subscribers : SubscriberStart(s)
          \/ \E s \in Subscribers : Ask(s)
          \/ \E s \in Subscribers : Deliver(s)
          \/ \E s \in Subscribers : Block(s)
          \/ \E s \in Subscribers : QueueGone(s)
          \/ \E s \in Subscribers : Interrupt(s)
          \/ \E s \in Subscribers : \E t \in Topics : SendUnsubscribe(s, t)
          \/ \E p \in Publishers : PublisherStart(p)
          \/ \E p \in Publishers : Publish(p)
BY DEF Next, BrokerStep, SubscriberStep

\* The history only grows.
Grows ==
  /\ quit \subseteq quit'
  /\ Len(published) \in Nat /\ Len(published) <= Len(published')
  /\ \A k \in 1 .. Len(published) :
       k \in 1 .. Len(published') /\ published'[k] = published[k]

LEMMA HistoryGrows ==
  ASSUME IType, Next
  PROVE  HistoryType' /\ Grows
<1>1. HistoryType /\ Len(published) \in Nat
  BY TypeParts DEF IType, HistoryType
<1>2. CASE UNCHANGED history
  BY <1>1, <1>2, UnchangedTypes DEF history, Grows
<1>3. ASSUME NEW s \in Subscribers, Ask(s)
      PROVE  HistoryType' /\ Grows
  <2>1. /\ published' = published /\ received' = received /\ quit' = quit
        /\ since' = [since EXCEPT ![s] = Len(published)]
    BY <1>3 DEF Ask
  <2>2. Len(published) \in 0 .. Len(published)
    BY <1>1
  <2>. QED
    BY <1>1, <2>1, <2>2 DEF HistoryType, Grows
<1>4. ASSUME NEW s \in Subscribers, Deliver(s)
      PROVE  HistoryType' /\ Grows
  <2>1. /\ published' = published /\ since' = since /\ quit' = quit
        /\ HasFor(s)
        /\ received' =
             [received EXCEPT ![s] = Append(@, queue[FirstFor(s)].pid)]
    BY <1>4 DEF Deliver
  <2>2. PICK i \in 1 .. Len(queue) : i = FirstFor(s) /\ queue[i].to = s
    BY <2>1, FirstOfItsType, TypeParts DEF IType, QueueType
  <2>3. s # ToBroker
    BY BrokerAssumption DEF BrokerAssumption
  <2>4. InPublished(queue[i].pid)
    BY <2>2, <2>3 DEF IType, SoundQueue, Sound
  <2>5. queue[i].pid \in Publishers
    BY <1>1, <2>4 DEF InPublished, HistoryType
  <2>. QED
    BY <1>1, <2>1, <2>2, <2>5 DEF HistoryType, Grows
<1>5. ASSUME NEW p \in Publishers, Publish(p)
      PROVE  HistoryType' /\ Grows
  <2>1. received' = received /\ since' = since /\ quit' = quit
    BY <1>5 DEF Publish
  <2>2. CASE published' = published
    BY <1>1, <2>1, <2>2 DEF HistoryType, Grows
  <2>3. CASE published' = Append(published, p)
    <3>1. /\ published' \in Seq(Publishers)
          /\ Len(published') = Len(published) + 1
          /\ \A k \in 1 .. Len(published) : published'[k] = published[k]
      BY <1>1, <2>3, AppendItems DEF HistoryType
    <3>2. /\ \A k \in 1 .. Len(published) : k \in 1 .. Len(published')
          /\ \A k \in 0 .. Len(published) : k \in 0 .. Len(published')
          /\ Len(published) <= Len(published')
      BY <1>1, <3>1
    <3>3. since' \in [Subscribers -> 0 .. Len(published')]
      BY <1>1, <2>1, <3>2 DEF HistoryType
    <3>. QED
      BY <1>1, <2>1, <3>1, <3>2, <3>3 DEF HistoryType, Grows
  <2>. QED
    BY <1>5, <2>2, <2>3 DEF Publish
<1>6. ASSUME NEW s \in Subscribers, NEW t \in Topics, SendUnsubscribe(s, t)
      PROVE  HistoryType' /\ Grows
  <2>1. /\ published' = published /\ received' = received /\ since' = since
        /\ quit' = quit \cup {<<s, t>>} /\ <<s, t>> \in Leaves
    BY <1>6 DEF SendUnsubscribe
  <2>2. quit' \subseteq Leaves /\ quit \subseteq quit'
    BY <1>1, <2>1 DEF HistoryType
  <2>3. HistoryType'
    BY <1>1, <2>1, <2>2 DEF HistoryType
  <2>4. Grows
    BY <1>1, <2>1, <2>2 DEF Grows
  <2>. QED
    BY <2>3, <2>4
<1>7. ASSUME NEW s \in Subscribers,
             SubscriberStart(s) \/ Block(s) \/ QueueGone(s) \/ Interrupt(s)
      PROVE  UNCHANGED history
  BY <1>7 DEF SubscriberStart, Block, QueueGone, Interrupt
<1>8. ASSUME NEW p \in Publishers, PublisherStart(p)
      PROVE  UNCHANGED history
  BY <1>8 DEF PublisherStart
<1>9. BrokerStart \/ BrokerStep \/ Cleanup => UNCHANGED history
  BY DEF BrokerStart, BrokerStep, Cleanup, Receive, NewEntry, Enroll, AddTopic,
         Unsubscribe, Forward, Pass, Forwarded
<1>. QED
  BY <1>2, <1>3, <1>4, <1>5, <1>6, <1>7, <1>8, <1>9 DEF Next, SubscriberStep

\* What was true stays true.
LEMMA SoundStays ==
  ASSUME Grows
  PROVE  /\ \A p : InPublished(p) => InPublished(p)'
         /\ \A m : Sound(m) => Sound(m)'
<1>1. \A p : InPublished(p) => InPublished(p)'
  BY DEF Grows, InPublished
<1>. QED
  BY <1>1 DEF Grows, Sound, Wanted

\* What may be put on the queue.
Fits(m) == m \in Message /\ (m.to # ToBroker => m.kind = "send")

(***************************************************************************)
(* What a step does to the queue: nothing, one message more, one taken by  *)
(* the first of its type, or it is removed.                                *)
(***************************************************************************)
LEMMA QueueSteps ==
  ASSUME IType, Next
  PROVE  \/ queue' = queue
         \/ queue' = <<>> /\ ~ Exists'
         \/ \E m \in Message : Queue(m) /\ Fits(m) /\ Sound(m)'
         \/ Receive \/ \E s \in Subscribers : Deliver(s)
<1> DEFINE Sent == \E m \in Message : Queue(m) /\ Fits(m) /\ Sound(m)'
           Got == Receive \/ \E s \in Subscribers : Deliver(s)
<1>1. Grows
  BY HistoryGrows
<1>2. ASSUME NEW s \in Subscribers, Ask(s), Exists
      PROVE  Sent
  <2>1. PICK m : m = [to |-> ToBroker, kind |-> "subscribe", pid |-> s,
                      topic |-> Wants[s][asked[s] + 1]]
    OBVIOUS
  <2>2. spc[s] = "subscribe" /\ Queue(m)
    BY <1>2, <2>1 DEF Ask
  <2>3. /\ m \in Message /\ m.topic \in Topics
        /\ asked[s] + 1 \in 1 .. Len(Wants[s])
    BY <2>1, <2>2, SentType
  <2>4. Wants[s] \in Seq(Topics)
    BY BrokerAssumption DEF BrokerAssumption
  <2>5. m.topic \in Wanted(s)
    BY <2>1, <2>3, <2>4 DEF Wanted
  <2>6. m.kind = "subscribe" /\ m.pid = s /\ m.to = ToBroker
    BY <2>1
  <2>7. Sound(m)'
    BY <2>3, <2>5, <2>6 DEF Sound, Wanted
  <2>. QED
    BY <2>2, <2>3, <2>6, <2>7 DEF Fits
<1>3. ASSUME NEW p \in Publishers, Publish(p), Exists
      PROVE  Sent
  <2> DEFINE m == [to |-> ToBroker, kind |-> "send", pid |-> p,
                   topic |-> Posts[p]]
  <2>1. Queue(m) /\ published' = Append(published, p) /\ m \in Message
    BY <1>3, SentType DEF Publish
  <2>2. published \in Seq(Publishers)
    BY TypeParts DEF IType, HistoryType
  <2>3. /\ Len(published') = Len(published) + 1 /\ Len(published) \in Nat
        /\ published'[Len(published) + 1] = p
    BY <2>1, <2>2, AppendItems
  <2>4. InPublished(p)'
    BY <2>3 DEF InPublished
  <2>. QED
    BY <2>1, <2>4 DEF Fits, Sound
<1>4. ASSUME NEW s \in Subscribers, NEW t \in Topics, SendUnsubscribe(s, t)
      PROVE  Sent
  <2> DEFINE m == [to |-> ToBroker, kind |-> "unsubscribe", pid |-> s,
                   topic |-> t]
  <2>1. Queue(m) /\ <<s, t>> \in quit' /\ m \in Message
    BY <1>4, SentType DEF SendUnsubscribe
  <2>. QED
    BY <2>1 DEF Fits, Sound
<1>5. ASSUME Forward
      PROVE  Sent
  <2> DEFINE m == [msg EXCEPT !.to = subs[turn].pid]
  <2>1. bpc = "send" /\ turn \in 1 .. Len(subs) /\ Queue(m)
    <3>1. subs \in Seq(Entry)
      BY TypeParts DEF IType, BrokerType
    <3>. QED
      BY <1>5, <3>1 DEF Forward
  <2>2. m \in Message
    BY <2>1, SentType
  <2>3. msg \in Message /\ msg.kind = "send" /\ Sound(msg)
    BY <2>1, TypeParts DEF IType, BrokerType, SoundHand
  <2>4. m.kind = msg.kind /\ m.pid = msg.pid /\ m.topic = msg.topic
    BY <2>3 DEF Message
  <2>5. Sound(m)
    BY <2>3, <2>4 DEF Sound
  <2>. QED
    BY <1>1, <2>1, <2>2, <2>3, <2>4, <2>5, SoundStays DEF Fits
<1>6. Receive \/ (\E s \in Subscribers : Deliver(s)) => Got
  OBVIOUS
<1>7. Cleanup => queue' = <<>> /\ ~ Exists'
  BY DEF Cleanup, Exists
<1>8. BrokerStart \/ NewEntry \/ Enroll \/ AddTopic \/ Unsubscribe \/ Pass
        \/ Forwarded => queue' = queue
  BY DEF BrokerStart, NewEntry, Enroll, AddTopic, Unsubscribe, Pass, Forwarded
<1>9. ASSUME NEW s \in Subscribers,
             SubscriberStart(s) \/ Block(s) \/ QueueGone(s) \/ Interrupt(s)
      PROVE  queue' = queue
  BY <1>9 DEF SubscriberStart, Block, QueueGone, Interrupt
<1>10. ASSUME NEW p \in Publishers, PublisherStart(p)
       PROVE  queue' = queue
  BY <1>10 DEF PublisherStart
<1>11. ASSUME NEW s \in Subscribers, Ask(s)
       PROVE  queue' = queue \/ Sent
  BY <1>2, <1>11 DEF Ask
<1>12. ASSUME NEW p \in Publishers, Publish(p)
       PROVE  queue' = queue \/ Sent
  BY <1>3, <1>12 DEF Publish
<1> HIDE DEF Sent, Got
<1>13. queue' = queue \/ (queue' = <<>> /\ ~ Exists') \/ Sent \/ Got
  BY <1>4, <1>5, <1>6, <1>7, <1>8, <1>9, <1>10, <1>11, <1>12, Steps
<1>. QED
  BY <1>13 DEF Sent, Got

LEMMA QueueKept ==
  ASSUME IType, Next
  PROVE  QueueType' /\ SoundQueue'
<1>1. queue \in Seq(Message) /\ Len(queue) <= Capacity /\ Len(queue) \in Nat
  BY TypeParts DEF IType, QueueType
<1>2. /\ \A m : Sound(m) => Sound(m)'
      /\ \A k \in 1 .. Len(queue) :
           Sound(queue[k]) /\ (queue[k].to # ToBroker => queue[k].kind = "send")
  BY HistoryGrows, SoundStays DEF IType, SoundQueue
<1>3. CASE queue' = queue
  <2>1. \A k \in 1 .. Len(queue) : Sound(queue[k])'
    <3> SUFFICES ASSUME NEW k \in 1 .. Len(queue)
                 PROVE  Sound(queue[k])'
      OBVIOUS
    <3>1. PICK m : m = queue[k] /\ m = queue'[k]
      BY <1>3
    <3>2. Sound(m)'
      BY <1>2, <3>1
    <3>. QED
      BY <3>1, <3>2 DEF Sound
  <2>. QED
    BY <1>1, <1>2, <1>3, <2>1 DEF QueueType, SoundQueue
<1>4. CASE queue' = <<>>
  <2>1. Len(queue') = 0 /\ queue' \in Seq(Message)
    BY <1>4
  <2>2. 0 <= Capacity
    BY BrokerAssumption DEF BrokerAssumption
  <2>. QED
    BY <2>1, <2>2 DEF QueueType, SoundQueue
<1>5. ASSUME NEW m \in Message, Queue(m), Fits(m), Sound(m)'
      PROVE  QueueType' /\ SoundQueue'
  <2>1. queue' = Append(queue, m) /\ Len(queue) < Capacity
    BY <1>5 DEF Queue
  <2>2. /\ queue' \in Seq(Message) /\ Len(queue') = Len(queue) + 1
        /\ \A k \in 1 .. Len(queue) : queue'[k] = queue[k]
        /\ queue'[Len(queue) + 1] = m
    BY <1>1, <2>1, AppendItems
  <2>3. Len(queue') <= Capacity
    BY <1>1, <2>1, <2>2, BrokerAssumption DEF BrokerAssumption
  <2>4. ASSUME NEW k \in 1 .. Len(queue')
        PROVE  /\ Sound(queue[k])'
               /\ queue'[k].to # ToBroker => queue'[k].kind = "send"
    <3>1. CASE k \in 1 .. Len(queue)
      <4>1. PICK x : x = queue[k] /\ x = queue'[k]
        BY <2>2, <3>1
      <4>2. Sound(x)' /\ (x.to # ToBroker => x.kind = "send")
        BY <1>2, <3>1, <4>1
      <4>. QED
        BY <4>1, <4>2 DEF Sound
    <3>2. CASE k = Len(queue) + 1
      <4>1. m = queue'[k]
        BY <2>2, <3>2
      <4>. QED
        BY <1>5, <4>1 DEF Sound, Fits
    <3>. QED
      BY <1>1, <2>2, <3>1, <3>2
  <2>. QED
    BY <2>2, <2>3, <2>4 DEF QueueType, SoundQueue
<1>6. ASSUME NEW to, HasFor(to), queue' = Without(FirstFor(to))
      PROVE  QueueType' /\ SoundQueue'
  <2>1. PICK i \in 1 .. Len(queue) :
          /\ queue' \in Seq(Message) /\ Len(queue') \in Nat
          /\ Len(queue') < Len(queue)
          /\ \A k \in 1 .. Len(queue') :
               Old(i, k) \in 1 .. Len(queue) /\ queue'[k] = queue[Old(i, k)]
    BY <1>1, <1>6, Taken DEF TakenOut
  <2>2. Len(queue') <= Capacity
    BY <1>1, <2>1, BrokerAssumption DEF BrokerAssumption
  <2>3. ASSUME NEW k \in 1 .. Len(queue')
        PROVE  /\ Sound(queue[k])'
               /\ queue'[k].to # ToBroker => queue'[k].kind = "send"
    <3>1. PICK x : x = queue[Old(i, k)] /\ x = queue'[k]
      BY <2>1
    <3>2. Sound(x)' /\ (x.to # ToBroker => x.kind = "send")
      BY <1>2, <2>1, <3>1
    <3>. QED
      BY <3>1, <3>2 DEF Sound
  <2>. QED
    BY <2>1, <2>2, <2>3 DEF QueueType, SoundQueue
<1>7. Receive \/ (\E s \in Subscribers : Deliver(s)) =>
        \E to : HasFor(to) /\ queue' = Without(FirstFor(to))
  BY DEF Receive, Deliver
<1>. QED
  BY <1>3, <1>4, <1>5, <1>6, <1>7, QueueSteps

LEMMA HandKept ==
  ASSUME IType, Next
  PROVE  msg' \in Message /\ SoundHand'
<1>1. msg \in Message /\ SoundHand /\ queue \in Seq(Message)
  BY TypeParts DEF IType, BrokerType, QueueType
<1>2. \A m : Sound(m) => Sound(m)'
  BY HistoryGrows, SoundStays
<1>3. ASSUME UNCHANGED <<bpc, msg>>
      PROVE  msg' \in Message /\ SoundHand'
  <2>1. PICK m : m = msg /\ m = msg'
    BY <1>3
  <2>2. Sound(msg) => Sound(msg)'
    BY <1>2, <2>1 DEF Sound
  <2>. QED
    BY <1>1, <1>3, <2>2 DEF SoundHand
<1>4. ASSUME msg' = msg, bpc' \in {"receive", "gone"}
      PROVE  msg' \in Message /\ SoundHand'
  BY <1>1, <1>4 DEF SoundHand
<1>5. CASE Receive
  <2>1. /\ HasFor(ToBroker) /\ msg' = queue[FirstFor(ToBroker)]
        /\ bpc' = queue[FirstFor(ToBroker)].kind
    BY <1>5 DEF Receive
  <2>2. PICK i \in 1 .. Len(queue) : i = FirstFor(ToBroker)
    BY <1>1, <2>1, FirstOfItsType
  <2>3. PICK m \in Message : m = queue[i]
    BY <1>1
  <2>4. m = msg' /\ bpc' = m.kind /\ Sound(m)
    BY <2>1, <2>2, <2>3 DEF IType, SoundQueue
  <2>5. Sound(m)'
    BY <1>2, <2>4
  <2>6. Sound(msg)'
    BY <2>4, <2>5 DEF Sound
  <2>7. bpc' # "enroll"
    BY <2>4 DEF Message
  <2>. QED
    BY <2>4, <2>6, <2>7 DEF SoundHand
<1>6. CASE NewEntry \/ Enroll
  <2>1. /\ msg' = msg /\ bpc \in {"subscribe", "enroll"}
        /\ bpc' \in {"subscribe", "enroll"}
    BY <1>6 DEF NewEntry, Enroll
  <2>2. msg.kind = "subscribe" /\ Sound(msg)
    BY <1>1, <2>1 DEF SoundHand
  <2>3. PICK m : m = msg /\ m = msg'
    BY <2>1
  <2>4. Sound(msg)'
    BY <1>2, <2>2, <2>3 DEF Sound
  <2>. QED
    BY <1>1, <2>1, <2>2, <2>4 DEF SoundHand
<1>7. BrokerStart \/ AddTopic \/ Unsubscribe \/ Forwarded \/ Cleanup =>
        msg' = msg /\ bpc' \in {"receive", "gone"}
  BY DEF BrokerStart, AddTopic, Unsubscribe, Forwarded, Cleanup
<1>8. Forward \/ Pass => UNCHANGED <<bpc, msg>>
  BY DEF Forward, Pass
<1>9. ASSUME NEW s \in Subscribers,
             \/ SubscriberStart(s) \/ Ask(s) \/ Deliver(s) \/ Block(s)
             \/ QueueGone(s) \/ Interrupt(s)
             \/ \E t \in Topics : SendUnsubscribe(s, t)
      PROVE  UNCHANGED <<bpc, msg>>
  BY <1>9 DEF SubscriberStart, Ask, Deliver, Block, QueueGone, Interrupt,
              SendUnsubscribe, brokerVars
<1>10. ASSUME NEW p \in Publishers, PublisherStart(p) \/ Publish(p)
       PROVE  UNCHANGED <<bpc, msg>>
  BY <1>10 DEF PublisherStart, Publish, brokerVars
<1>. QED
  BY <1>3, <1>4, <1>5, <1>6, <1>7, <1>8, <1>9, <1>10, Steps
-----------------------------------------------------------------------------
(***************************************************************************)
(* subs[]: each subscriber has one entry at most, so that there is room    *)
(* for the entry of one that has none.                                     *)
(***************************************************************************)
LEMMA RoomInSubs ==
  ASSUME IType, NewEntry
  PROVE  Len(subs) + 1 <= Cardinality(Subscribers)
<1>1. PICK n \in Nat : n = Len(subs) /\ DOMAIN subs = 1 .. n
  BY TypeParts DEF IType, BrokerType
<1>2. bpc = "subscribe" /\ EntriesOf(msg.pid) = {}
  BY DEF NewEntry
<1>3. msg.pid \in Subscribers
  BY <1>2 DEF IType, SoundHand, Sound
<1>4. \A i \in 1 .. n : /\ subs[i].pid \in Subscribers /\ subs[i].pid # msg.pid
                        /\ \A j \in 1 .. n : subs[i].pid = subs[j].pid => i = j
  <2>1. \A i \in 1 .. n : subs[i] \in Entry
    BY <1>1, TypeParts DEF IType, BrokerType
  <2>2. Exists /\ bpc # "enroll"
    BY <1>2 DEF Exists
  <2>. QED
    BY <1>1, <1>2, <2>1, <2>2 DEF IType, Entries, EntriesOf, Entry
<1> DEFINE f == [i \in 1 .. n + 1 |-> IF i = n + 1 THEN msg.pid ELSE subs[i].pid]
<1>5. f \in [1 .. n + 1 -> Subscribers]
  BY <1>3, <1>4
<1>6. \A i, j \in 1 .. n + 1 : f[i] = f[j] => i = j
  BY <1>4
<1>7. IsFiniteSet(Subscribers)
  BY BrokerAssumption DEF BrokerAssumption
<1>8. IsFiniteSet(1 .. n + 1) /\ Cardinality(1 .. n + 1) = n + 1
  <2>1. PICK m \in Nat : m = n + 1
    OBVIOUS
  <2>. QED
    BY <2>1, FS_Interval
<1>9. PICK g, S : S = 1 .. n + 1 /\ g \in Injection(S, Subscribers)
  BY <1>5, <1>6 DEF Injection, IsInjective
<1>10. Cardinality(S) <= Cardinality(Subscribers)
  BY <1>7, <1>9, FS_Injection
<1>. QED
  BY <1>1, <1>8, <1>9, <1>10

LEMMA NewEntryKept ==
  ASSUME IType, NewEntry
  PROVE  BrokerType' /\ Entries'
<1>1. PICK n \in Nat : n = Len(subs) /\ DOMAIN subs = 1 .. n
  BY TypeParts DEF IType, BrokerType
<1>2. /\ bpc = "subscribe" /\ EntriesOf(msg.pid) = {} /\ bpc' = "enroll"
      /\ msg' = msg /\ turn' = turn
      /\ subs' = Append(subs, [pid |-> NoPid, topics |-> <<>>])
  BY DEF NewEntry
<1>3. msg.pid \in Subscribers /\ msg.pid # NoPid
  BY <1>2, BrokerAssumption DEF IType, SoundHand, Sound, BrokerAssumption
<1>4. subs \in Seq(Entry) /\ msg \in Message /\ turn \in 1 .. n + 1
  BY <1>1, TypeParts DEF IType, BrokerType
<1>5. PICK e \in Entry : e = [pid |-> NoPid, topics |-> <<>>]
  <2>1. <<>> \in Seq(Topics \cup {NoTopic})
    BY EmptySeq
  <2>. QED
    BY <2>1 DEF Entry
<1>6. /\ subs' \in Seq(Entry) /\ Len(subs') = n + 1
      /\ \A i \in 1 .. n : subs'[i] = subs[i]
      /\ subs'[n + 1] = e
  BY <1>1, <1>2, <1>4, <1>5, AppendItems
<1>7. e.pid = NoPid /\ Len(e.topics) = 0
  BY <1>5
<1>8. \A i \in 1 .. n + 1 : i \in 1 .. n \/ i = n + 1
  BY <1>1
<1>9. \A i \in 1 .. n : subs[i].pid # msg.pid /\ subs[i].pid # NoPid
  <2>1. Exists /\ bpc # "enroll"
    BY <1>2 DEF Exists
  <2>. QED
    BY <1>1, <1>2, <2>1 DEF IType, Entries, EntriesOf
<1>10. BrokerType'
  <2>1. n + 1 <= Cardinality(Subscribers)
    BY <1>1, RoomInSubs
  <2>2. turn' \in 1 .. Len(subs') + 1
    BY <1>2, <1>4, <1>6
  <2>. QED
    BY <1>2, <1>4, <1>6, <2>1, <2>2 DEF BrokerType
<1>11. Entries'
  <2>1. \A i, j \in 1 .. n : subs[i].pid = subs[j].pid => i = j
    BY <1>1, <1>2 DEF IType, Entries, Exists
  <2>2. \A i, j \in 1 .. n + 1 : subs'[i].pid = subs'[j].pid => i = j
    BY <1>6, <1>7, <1>8, <1>9, <2>1
  <2>3. \A i \in 1 .. n + 1 : subs'[i].pid = NoPid => i = n + 1
    BY <1>6, <1>8, <1>9
  <2>4. \A i \in 1 .. n + 1 : subs'[i].pid # msg.pid
    BY <1>3, <1>6, <1>7, <1>8, <1>9
  <2>5. \A i \in 1 .. n : \A j \in 1 .. Len(subs[i].topics) :
          subs[i].topics[j] # NoTopic =>
            subs[i].pid \in Subscribers
              /\ subs[i].topics[j] \in Wanted(subs[i].pid)
    BY <1>1, <1>2 DEF IType, Entries, Exists
  <2>6. \A i \in 1 .. n + 1 : \A j \in 1 .. Len(subs'[i].topics) :
          subs'[i].topics[j] # NoTopic =>
            subs'[i].pid \in Subscribers
              /\ subs'[i].topics[j] \in Wanted(subs'[i].pid)
    <3> SUFFICES ASSUME NEW i \in 1 .. n + 1, NEW j \in 1 .. Len(subs'[i].topics),
                        subs'[i].topics[j] # NoTopic
                 PROVE  subs'[i].pid \in Subscribers
                          /\ subs'[i].topics[j] \in Wanted(subs'[i].pid)
      OBVIOUS
    <3>1. i \in 1 .. n
      BY <1>6, <1>7, <1>8
    <3>2. PICK x : x = subs[i] /\ x = subs'[i]
      BY <1>6, <3>1
    <3>3. /\ x.topics[j] # NoTopic /\ j \in 1 .. Len(x.topics)
          /\ x.pid \in Subscribers /\ x.topics[j] \in Wanted(x.pid)
      BY <2>5, <3>1, <3>2
    <3>. QED
      BY <3>2, <3>3
  <2>7. Len(subs') > 0 /\ subs'[Len(subs')].pid = NoPid
    BY <1>6, <1>7
  <2>8. /\ Len(subs') = n + 1
        /\ \A i \in 1 .. n + 1 : \A j \in 1 .. Len(subs'[i].topics) :
             subs'[i].topics[j] # NoTopic =>
               subs'[i].pid \in Subscribers
                 /\ subs'[i].topics[j] \in Wanted(subs[i].pid)'
    BY <1>6, <2>6 DEF Wanted
  <2>. QED
    BY <1>2, <2>2, <2>3, <2>4, <2>7, <2>8 DEF Entries
<1>. QED
  BY <1>10, <1>11

LEMMA EnrollKept ==
  ASSUME IType, Enroll
  PROVE  BrokerType' /\ Entries'
<1>1. PICK n \in Nat : n = Len(subs) /\ DOMAIN subs = 1 .. n
  BY TypeParts DEF IType, BrokerType
<1>2. /\ bpc = "enroll" /\ bpc' = "subscribe" /\ msg' = msg /\ turn' = turn
      /\ subs' = [subs EXCEPT ![n] = [pid |-> msg.pid, topics |-> <<>>]]
  BY <1>1 DEF Enroll
<1>3. msg.pid \in Subscribers /\ msg.pid # NoPid
  BY <1>2, BrokerAssumption DEF IType, SoundHand, Sound, BrokerAssumption
<1>4. /\ subs \in Seq(Entry) /\ msg \in Message /\ turn \in 1 .. n + 1
      /\ n <= Cardinality(Subscribers)
  BY <1>1, TypeParts DEF IType, BrokerType
<1>5. PICK e \in Entry : e = [pid |-> msg.pid, topics |-> <<>>]
  <2>1. <<>> \in Seq(Topics \cup {NoTopic})
    BY EmptySeq
  <2>. QED
    BY <1>3, <2>1 DEF Entry
<1>6. /\ n \in 1 .. n
      /\ \A i, j \in 1 .. n : subs[i].pid = subs[j].pid => i = j
      /\ \A i \in 1 .. n : subs[i].pid = NoPid => i = n
      /\ \A i \in 1 .. n : subs[i].pid # msg.pid
      /\ \A i \in 1 .. n : \A j \in 1 .. Len(subs[i].topics) :
          subs[i].topics[j] # NoTopic =>
            subs[i].pid \in Subscribers
              /\ subs[i].topics[j] \in Wanted(subs[i].pid)
  BY <1>1, <1>2 DEF IType, Entries, Exists
<1>7. /\ subs' \in Seq(Entry) /\ Len(subs') = n
      /\ \A i \in 1 .. n : i # n => subs'[i] = subs[i]
      /\ subs'[n] = e
  BY <1>1, <1>2, <1>4, <1>5, <1>6
<1>8. e.pid = msg.pid /\ Len(e.topics) = 0
  BY <1>5
<1>9. BrokerType'
  BY <1>2, <1>4, <1>7 DEF BrokerType
<1>10. \A i, j \in 1 .. n : subs'[i].pid = subs'[j].pid => i = j
  BY <1>6, <1>7, <1>8
<1>11. \A i \in 1 .. n : subs'[i].pid # NoPid
  BY <1>3, <1>6, <1>7, <1>8
<1>12. \A i \in 1 .. n : \A j \in 1 .. Len(subs'[i].topics) :
         subs'[i].topics[j] # NoTopic =>
           subs'[i].pid \in Subscribers
             /\ subs'[i].topics[j] \in Wanted(subs'[i].pid)
  <2> SUFFICES ASSUME NEW i \in 1 .. n, NEW j \in 1 .. Len(subs'[i].topics),
                      subs'[i].topics[j] # NoTopic
               PROVE  subs'[i].pid \in Subscribers
                        /\ subs'[i].topics[j] \in Wanted(subs'[i].pid)
    OBVIOUS
  <2>1. i # n
    BY <1>7, <1>8
  <2>2. PICK x : x = subs[i] /\ x = subs'[i]
    BY <1>7, <2>1
  <2>3. /\ x.topics[j] # NoTopic /\ j \in 1 .. Len(x.topics)
        /\ x.pid \in Subscribers /\ x.topics[j] \in Wanted(x.pid)
    BY <1>6, <2>2
  <2>. QED
    BY <2>2, <2>3
<1>13. Entries'
  BY <1>2, <1>7, <1>10, <1>11, <1>12 DEF Entries, Wanted
<1>. QED
  BY <1>9, <1>13

LEMMA AddTopicKept ==
  ASSUME IType, AddTopic
  PROVE  BrokerType' /\ Entries'
<1>1. PICK n \in Nat : n = Len(subs) /\ DOMAIN subs = 1 .. n
  BY TypeParts DEF IType, BrokerType
<1>2. bpc = "subscribe" /\ bpc' = "receive" /\ msg' = msg /\ turn' = turn
  BY DEF AddTopic
<1>3. /\ subs \in Seq(Entry) /\ msg \in Message /\ turn \in 1 .. n + 1
      /\ n <= Cardinality(Subscribers)
  BY <1>1, TypeParts DEF IType, BrokerType
<1>4. PICK e \in 1 .. n :
        /\ subs[e].pid = msg.pid
        /\ subs' = [subs EXCEPT ![e].topics = Append(@, msg.topic)]
  BY <1>1 DEF AddTopic, EntriesOf
<1>5. /\ msg.pid \in Subscribers /\ msg.topic \in Topics
      /\ msg.topic \in Wanted(msg.pid)
  BY <1>2 DEF IType, SoundHand, Sound
<1>6. PICK x \in Entry, l \in Nat, q \in Seq(Topics \cup {NoTopic}) :
        x = subs[e] /\ q = x.topics /\ l = Len(q)
  <2>1. PICK x \in Entry : x = subs[e]
    BY <1>1, <1>3
  <2>2. PICK q \in Seq(Topics \cup {NoTopic}) : q = x.topics
    BY DEF Entry
  <2>3. Len(q) \in Nat
    OBVIOUS
  <2>. QED
    BY <2>1, <2>2, <2>3
<1>7. /\ Append(q, msg.topic) \in Seq(Topics \cup {NoTopic})
      /\ Len(Append(q, msg.topic)) = l + 1
      /\ \A k \in 1 .. l : Append(q, msg.topic)[k] = q[k]
      /\ Append(q, msg.topic)[l + 1] = msg.topic
  <2>1. msg.topic \in Topics \cup {NoTopic}
    BY <1>5
  <2>. QED
    BY <1>6, <2>1, AppendItems
<1>8. /\ subs' \in Seq(Entry) /\ Len(subs') = n
      /\ \A i \in 1 .. n : i # e => subs'[i] = subs[i]
      /\ subs'[e].pid = x.pid /\ subs'[e].topics = Append(q, msg.topic)
  <2>1. PICK r \in Seq(Topics \cup {NoTopic}) : r = Append(q, msg.topic)
    BY <1>7
  <2>2. PICK y \in Entry :
          /\ y = [x EXCEPT !.topics = Append(q, msg.topic)]
          /\ y.pid = x.pid /\ y.topics = Append(q, msg.topic)
    <3>1. [x EXCEPT !.topics = r] \in Entry
      BY DEF Entry
    <3>. QED
      BY <2>1, <3>1 DEF Entry
  <2>3. subs' = [subs EXCEPT ![e] = y]
    BY <1>4, <1>6, <2>2
  <2>. QED
    BY <1>1, <1>3, <2>2, <2>3
<1>9. BrokerType'
  BY <1>2, <1>3, <1>8 DEF BrokerType
<1>10. Exists /\ bpc # "enroll"
  BY <1>2 DEF Exists
<1>11. \A i \in 1 .. n : subs'[i].pid = subs[i].pid
  BY <1>6, <1>8
<1>12. /\ \A i, j \in 1 .. n : subs'[i].pid = subs'[j].pid => i = j
       /\ \A i \in 1 .. n : subs'[i].pid # NoPid
  BY <1>1, <1>10, <1>11 DEF IType, Entries
<1>13. \A i \in 1 .. n : \A j \in 1 .. Len(subs'[i].topics) :
         subs'[i].topics[j] # NoTopic =>
           subs'[i].pid \in Subscribers
             /\ subs'[i].topics[j] \in Wanted(subs'[i].pid)
  <2> SUFFICES ASSUME NEW i \in 1 .. n, NEW j \in 1 .. Len(subs'[i].topics),
                      subs'[i].topics[j] # NoTopic
               PROVE  subs'[i].pid \in Subscribers
                        /\ subs'[i].topics[j] \in Wanted(subs'[i].pid)
    OBVIOUS
  <2>1. \A k \in 1 .. Len(subs[i].topics) : subs[i].topics[k] # NoTopic =>
            subs[i].pid \in Subscribers
              /\ subs[i].topics[k] \in Wanted(subs[i].pid)
    BY <1>1, <1>10 DEF IType, Entries
  <2>2. CASE i # e
    <3>1. PICK y : y = subs[i] /\ y = subs'[i]
      BY <1>8, <2>2
    <3>2. /\ y.topics[j] # NoTopic /\ j \in 1 .. Len(y.topics)
          /\ y.pid \in Subscribers /\ y.topics[j] \in Wanted(y.pid)
      BY <2>1, <3>1
    <3>. QED
      BY <3>1, <3>2
  <2>3. CASE i = e /\ j \in 1 .. l
    <3>1. q[j] # NoTopic /\ subs'[i].topics[j] = q[j]
      BY <1>7, <1>8, <2>3
    <3>2. x.pid \in Subscribers /\ q[j] \in Wanted(x.pid)
      BY <1>6, <2>1, <2>3, <3>1
    <3>. QED
      BY <1>8, <2>3, <3>1, <3>2
  <2>4. CASE i = e /\ j = l + 1
    <3>1. subs'[i].topics[j] = msg.topic /\ subs'[i].pid = msg.pid
      BY <1>4, <1>6, <1>7, <1>8, <2>4
    <3>. QED
      BY <1>5, <3>1
  <2>5. i = e => j \in 1 .. l \/ j = l + 1
    BY <1>7, <1>8
  <2>. QED
    BY <2>2, <2>3, <2>4, <2>5
<1>14. Entries'
  BY <1>2, <1>8, <1>12, <1>13 DEF Entries, Wanted
<1>. QED
  BY <1>9, <1>14

LEMMA UnsubscribeKept ==
  ASSUME IType, Unsubscribe
  PROVE  BrokerType' /\ Entries'
<1>1. PICK n \in Nat : n = Len(subs) /\ DOMAIN subs = 1 .. n
  BY TypeParts DEF IType, BrokerType
<1>2. bpc = "unsubscribe" /\ bpc' = "receive" /\ msg' = msg /\ turn' = turn
  BY DEF Unsubscribe
<1>3. /\ subs \in Seq(Entry) /\ msg \in Message /\ turn \in 1 .. n + 1
      /\ n <= Cardinality(Subscribers)
  BY <1>1, TypeParts DEF IType, BrokerType
<1> DEFINE Blanked(x) ==
      [x EXCEPT !.topics = [j \in DOMAIN @ |-> IF @[j] = msg.topic THEN NoTopic
                                               ELSE @[j]]]
<1>4. subs' = [i \in 1 .. n |-> IF subs[i].pid # msg.pid THEN subs[i]
                                ELSE Blanked(subs[i])]
  BY <1>1 DEF Unsubscribe
<1>5. ASSUME NEW x \in Entry
      PROVE  /\ Blanked(x) \in Entry /\ Blanked(x).pid = x.pid
             /\ Len(Blanked(x).topics) = Len(x.topics)
             /\ \A j \in 1 .. Len(x.topics) :
                  Blanked(x).topics[j] # NoTopic =>
                    x.topics[j] = Blanked(x).topics[j]
  <2>1. PICK l \in Nat, q \in Seq(Topics \cup {NoTopic}) :
          q = x.topics /\ l = Len(q) /\ DOMAIN q = 1 .. l
    BY DEF Entry
  <2>2. PICK r : r = [j \in 1 .. l |-> IF q[j] = msg.topic THEN NoTopic
                                       ELSE q[j]]
    OBVIOUS
  <2>3. r \in [1 .. l -> Topics \cup {NoTopic}]
    BY <2>1, <2>2
  <2>4. r \in Seq(Topics \cup {NoTopic}) /\ Len(r) = l
    BY <2>3
  <2>5. Blanked(x) = [x EXCEPT !.topics = r]
    BY <2>1, <2>2
  <2>6. Blanked(x) \in Entry /\ Blanked(x).pid = x.pid /\ Blanked(x).topics = r
    BY <2>4, <2>5 DEF Entry
  <2>. QED
    BY <2>1, <2>2, <2>4, <2>6
<1> HIDE DEF Blanked
<1>6. \A i \in 1 .. n : subs[i] \in Entry
  BY <1>1, <1>3
<1>7. subs' \in Seq(Entry) /\ Len(subs') = n
  <2>1. subs' \in [1 .. n -> Entry]
    BY <1>4, <1>5, <1>6
  <2>. QED
    BY <1>1, <2>1
<1>8. ASSUME NEW i \in 1 .. n
      PROVE  /\ subs'[i].pid = subs[i].pid
             /\ Len(subs'[i].topics) = Len(subs[i].topics)
             /\ \A j \in 1 .. Len(subs[i].topics) :
                  subs'[i].topics[j] # NoTopic =>
                    subs[i].topics[j] = subs'[i].topics[j]
  <2>1. CASE subs[i].pid # msg.pid
    BY <1>4, <2>1
  <2>2. CASE subs[i].pid = msg.pid
    <3>1. PICK x \in Entry : x = subs[i] /\ Blanked(x) = subs'[i]
      BY <1>4, <1>6, <2>2
    <3>. QED
      BY <1>5, <3>1
  <2>. QED
    BY <2>1, <2>2
<1>9. BrokerType'
  BY <1>2, <1>3, <1>7 DEF BrokerType
<1>10. Exists /\ bpc # "enroll"
  BY <1>2 DEF Exists
<1>11. /\ \A i, j \in 1 .. n : subs'[i].pid = subs'[j].pid => i = j
       /\ \A i \in 1 .. n : subs'[i].pid # NoPid
  BY <1>1, <1>8, <1>10 DEF IType, Entries
<1>12. \A i \in 1 .. n : \A j \in 1 .. Len(subs'[i].topics) :
         subs'[i].topics[j] # NoTopic =>
           subs'[i].pid \in Subscribers
             /\ subs'[i].topics[j] \in Wanted(subs'[i].pid)
  <2> SUFFICES ASSUME NEW i \in 1 .. n, NEW j \in 1 .. Len(subs'[i].topics),
                      subs'[i].topics[j] # NoTopic
               PROVE  subs'[i].pid \in Subscribers
                        /\ subs'[i].topics[j] \in Wanted(subs'[i].pid)
    OBVIOUS
  <2>1. \A k \in 1 .. Len(subs[i].topics) : subs[i].topics[k] # NoTopic =>
            subs[i].pid \in Subscribers
              /\ subs[i].topics[k] \in Wanted(subs[i].pid)
    BY <1>1, <1>10 DEF IType, Entries
  <2>2. /\ j \in 1 .. Len(subs[i].topics)
        /\ subs[i].topics[j] = subs'[i].topics[j]
    BY <1>8
  <2>3. PICK t, p : t = subs'[i].topics[j] /\ p = subs'[i].pid
    OBVIOUS
  <2>4. t = subs[i].topics[j] /\ p = subs[i].pid
    BY <1>8, <2>2, <2>3
  <2>5. p \in Subscribers /\ t \in Wanted(p)
    BY <2>1, <2>2, <2>3, <2>4
  <2>. QED
    BY <2>3, <2>5
<1>13. Entries'
  BY <1>2, <1>7, <1>11, <1>12 DEF Entries, Wanted
<1>. QED
  BY <1>9, <1>13

LEMMA SubsKept ==
  ASSUME IType, Next
  PROVE  BrokerType' /\ Entries'
<1>1. BrokerType /\ Entries
  BY TypeParts DEF IType
<1>2. CASE UNCHANGED <<bpc, msg, turn, subs>>
  <2>1. BrokerType'
    BY <1>1, <1>2 DEF BrokerType
  <2>2. Entries'
    BY <1>1, <1>2 DEF Entries, Exists, Wanted
  <2>. QED
    BY <2>1, <2>2
<1>3. CASE NewEntry \/ Enroll \/ AddTopic \/ Unsubscribe
  BY <1>3, NewEntryKept, EnrollKept, AddTopicKept, UnsubscribeKept
<1>4. CASE BrokerStart
  <2>1. bpc = "off" /\ bpc' = "receive" /\ UNCHANGED <<msg, turn, subs>>
    BY <1>4 DEF BrokerStart
  <2>2. Len(subs') = 0
    BY <2>1 DEF IType, BeforeStart
  <2>3. BrokerType'
    BY <1>1, <2>1 DEF BrokerType
  <2>4. Entries'
    BY <2>1, <2>2 DEF Entries
  <2>. QED
    BY <2>3, <2>4
<1>5. CASE Receive
  <2>1. /\ bpc = "receive" /\ turn' = 1 /\ subs' = subs
        /\ HasFor(ToBroker) /\ bpc' = queue[FirstFor(ToBroker)].kind
    BY <1>5 DEF Receive
  <2>2. msg' \in Message /\ queue \in Seq(Message)
    BY HandKept, TypeParts DEF IType, QueueType
  <2>3. PICK m \in Message : bpc' = m.kind
    BY <2>1, <2>2, FirstOfItsType
  <2>4. bpc' \in {"subscribe", "unsubscribe", "send"}
    BY <2>3 DEF Message
  <2>5. turn' \in 1 .. Len(subs') + 1
    <3>1. Len(subs') \in Nat
      BY <1>1, <2>1 DEF BrokerType
    <3>. QED
      BY <2>1, <3>1
  <2>6. BrokerType'
    BY <1>1, <2>1, <2>2, <2>4, <2>5 DEF BrokerType
  <2>7. Entries'
    BY <1>1, <2>1, <2>4 DEF Entries, Exists, Wanted
  <2>. QED
    BY <2>6, <2>7
<1>6. CASE Forward \/ Pass
  <2>1. /\ bpc = "send" /\ UNCHANGED <<bpc, msg, subs>> /\ turn' = turn + 1
        /\ turn \in DOMAIN subs
    BY <1>6 DEF Forward, Pass
  <2>2. turn' \in 1 .. Len(subs') + 1
    BY <1>1, <2>1 DEF BrokerType
  <2>3. BrokerType'
    BY <1>1, <2>1, <2>2 DEF BrokerType
  <2>4. Entries'
    BY <1>1, <2>1 DEF Entries, Exists, Wanted
  <2>. QED
    BY <2>3, <2>4
<1>7. CASE Forwarded
  <2>1. bpc = "send" /\ bpc' = "receive" /\ UNCHANGED <<msg, turn, subs>>
    BY <1>7 DEF Forwarded
  <2>2. BrokerType'
    BY <1>1, <2>1 DEF BrokerType
  <2>3. Entries'
    BY <1>1, <2>1 DEF Entries, Exists, Wanted
  <2>. QED
    BY <2>2, <2>3
<1>8. CASE Cleanup
  <2>1. bpc' = "gone" /\ UNCHANGED <<msg, turn, subs>>
    BY <1>8 DEF Cleanup
  <2>2. BrokerType'
    BY <1>1, <2>1 DEF BrokerType
  <2>3. Entries'
    BY <2>1 DEF Entries, Exists
  <2>. QED
    BY <2>2, <2>3
<1>9. ASSUME NEW s \in Subscribers,
             \/ SubscriberStart(s) \/ Ask(s) \/ Deliver(s) \/ Block(s)
             \/ QueueGone(s) \/ Interrupt(s)
             \/ \E t \in Topics : SendUnsubscribe(s, t)
      PROVE  UNCHANGED <<bpc, msg, turn, subs>>
  BY <1>9 DEF SubscriberStart, Ask, Deliver, Block, QueueGone, Interrupt,
              SendUnsubscribe, brokerVars
<1>10. ASSUME NEW p \in Publishers, PublisherStart(p) \/ Publish(p)
       PROVE  UNCHANGED <<bpc, msg, turn, subs>>
  BY <1>10 DEF PublisherStart, Publish, brokerVars
<1>. QED
  BY <1>2, <1>3, <1>4, <1>5, <1>6, <1>7, <1>8, <1>9, <1>10, Steps

(***************************************************************************)
(* The subscribers and the publishers.                                     *)
(***************************************************************************)
LEMMA ProcessesKept ==
  ASSUME IType, Next
  PROVE  ProcessType' /\ Requests' /\ BeforeStart'
<1>1. ProcessType /\ Requests /\ BeforeStart
  BY TypeParts DEF IType
<1>2. CASE UNCHANGED <<bpc, subs, spc, asked, ppc>>
  BY <1>1, <1>2 DEF ProcessType, Requests, BeforeStart
<1>3. CASE bpc' # "off" /\ UNCHANGED processVars
  BY <1>1, <1>3 DEF ProcessType, Requests, BeforeStart, processVars
<1>4. Receive => bpc' # "off"
  <2> SUFFICES ASSUME Receive PROVE bpc' # "off"
    OBVIOUS
  <2>1. HasFor(ToBroker) /\ bpc' = queue[FirstFor(ToBroker)].kind
    BY DEF Receive
  <2>2. queue \in Seq(Message)
    BY TypeParts DEF IType, QueueType
  <2>3. PICK m \in Message : bpc' = m.kind
    BY <2>1, <2>2, FirstOfItsType
  <2>. QED
    BY <2>3 DEF Message
<1>5. ASSUME BrokerStart \/ Receive \/ NewEntry \/ Enroll \/ AddTopic
               \/ Unsubscribe \/ Forward \/ Pass \/ Forwarded
      PROVE  bpc' # "off" /\ UNCHANGED processVars
  BY <1>4, <1>5 DEF BrokerStart, Receive, NewEntry, Enroll, AddTopic,
                    Unsubscribe, Forward, Pass, Forwarded
<1>6. CASE Cleanup
  <2>1. /\ spc' \in [Subscribers ->
                      {"off", "subscribe", "listen", "blocked", "ended"}]
        /\ \A s \in Subscribers : spc'[s] = spc[s] \/ spc'[s] = "ended"
    BY <1>1, <1>6 DEF Cleanup, ProcessType
  <2>2. ppc' \in [Publishers -> {"off", "send", "ended"}]
    BY <1>1, <1>6 DEF Cleanup, ProcessType
  <2>3. asked' = asked /\ bpc' # "off"
    BY <1>6 DEF Cleanup
  <2>4. ProcessType'
    BY <1>1, <2>1, <2>2, <2>3 DEF ProcessType
  <2>5. Requests' /\ BeforeStart'
    BY <1>1, <2>1, <2>3 DEF Requests, BeforeStart
  <2>. QED
    BY <2>4, <2>5
<1>7. ASSUME NEW s \in Subscribers, SubscriberStart(s)
      PROVE  ProcessType' /\ Requests' /\ BeforeStart'
  <2>1. /\ spc[s] = "off" /\ UNCHANGED <<bpc, subs, asked, ppc>>
        /\ spc' = [spc EXCEPT ![s] = IF Exists THEN "subscribe" ELSE "ended"]
    BY <1>7 DEF SubscriberStart, brokerVars
  <2>2. asked[s] = 0 /\ 0 < Len(Wants[s])
    <3>1. Wants[s] \in Seq(Topics) /\ Wants[s] # <<>>
      BY BrokerAssumption DEF BrokerAssumption
    <3>. QED
      BY <1>1, <2>1, <3>1 DEF Requests
  <2>3. PICK x \in {"subscribe", "ended"} :
          spc' = [spc EXCEPT ![s] = x] /\ (bpc = "off" => x = "ended")
    BY <2>1 DEF Exists
  <2>4. /\ spc' \in [Subscribers ->
                     {"off", "subscribe", "listen", "blocked", "ended"}]
        /\ spc'[s] = x
        /\ \A r \in Subscribers : r # s => spc'[r] = spc[r]
    BY <1>1, <2>3 DEF ProcessType
  <2>5. ProcessType'
    BY <1>1, <2>1, <2>4 DEF ProcessType
  <2>6. Requests'
    BY <1>1, <2>1, <2>2, <2>4 DEF Requests
  <2>7. BeforeStart'
    BY <1>1, <2>1, <2>3, <2>4 DEF BeforeStart
  <2>. QED
    BY <2>5, <2>6, <2>7
<1>8. ASSUME NEW s \in Subscribers, Ask(s)
      PROVE  ProcessType' /\ Requests' /\ BeforeStart'
  <2>1. /\ spc[s] = "subscribe" /\ UNCHANGED <<bpc, subs, ppc>>
        /\ asked' = [asked EXCEPT ![s] = @ + 1]
        /\ spc' = [spc EXCEPT ![s] = IF asked'[s] = Len(Wants[s])
                                       THEN "listen" ELSE "subscribe"]
    BY <1>8 DEF Ask, brokerVars
  <2>2. /\ asked[s] + 1 \in 1 .. Len(Wants[s])
        /\ asked \in [Subscribers -> Nat] /\ Len(Wants[s]) \in Nat
    <3>1. Wants[s] \in Seq(Topics)
      BY BrokerAssumption DEF BrokerAssumption
    <3>2. asked \in [Subscribers -> Nat] /\ Len(Wants[s]) \in Nat
      BY <1>1, <3>1 DEF ProcessType
    <3>3. asked[s] + 1 \in 1 .. Len(Wants[s])
      BY <2>1, SentType
    <3>. QED
      BY <3>2, <3>3
  <2>3. /\ asked' \in [Subscribers -> Nat] /\ asked'[s] = asked[s] + 1
        /\ \A r \in Subscribers : r # s => asked'[r] = asked[r]
        /\ asked'[s] <= Len(Wants[s])
        /\ asked'[s] # Len(Wants[s]) => asked'[s] < Len(Wants[s])
    BY <2>1, <2>2
  <2>4. ProcessType'
    BY <1>1, <2>1, <2>3 DEF ProcessType
  <2>5. Requests'
    BY <1>1, <2>1, <2>3 DEF ProcessType, Requests
  <2>6. BeforeStart'
    BY <1>1, <2>1 DEF BeforeStart
  <2>. QED
    BY <2>4, <2>5, <2>6
<1>9. ASSUME NEW s \in Subscribers, Deliver(s) \/ Block(s)
      PROVE  ProcessType' /\ Requests' /\ BeforeStart'
  <2>1. PICK x \in {"listen", "blocked"} :
          /\ spc[s] \in {"listen", "blocked"} /\ spc' = [spc EXCEPT ![s] = x]
          /\ UNCHANGED <<bpc, subs, asked, ppc>>
    BY <1>9 DEF Deliver, Block, brokerVars
  <2>. QED
    BY <1>1, <2>1 DEF ProcessType, Requests, BeforeStart
<1>10. ASSUME NEW s \in Subscribers, QueueGone(s) \/ Interrupt(s)
       PROVE  ProcessType' /\ Requests' /\ BeforeStart'
  <2>1. /\ spc' = [spc EXCEPT ![s] = "ended"]
        /\ UNCHANGED <<bpc, subs, asked, ppc>>
    BY <1>10 DEF QueueGone, Interrupt, brokerVars
  <2>. QED
    BY <1>1, <2>1 DEF ProcessType, Requests, BeforeStart
<1>11. ASSUME NEW p \in Publishers, PublisherStart(p) \/ Publish(p)
       PROVE  ProcessType' /\ Requests' /\ BeforeStart'
  <2>1. PICK x \in {"send", "ended"} :
          ppc' = [ppc EXCEPT ![p] = x] /\ UNCHANGED <<bpc, subs, asked, spc>>
    BY <1>11 DEF PublisherStart, Publish, brokerVars
  <2>. QED
    BY <1>1, <2>1 DEF ProcessType, Requests, BeforeStart
<1>12. ASSUME NEW s \in Subscribers, NEW t \in Topics, SendUnsubscribe(s, t)
       PROVE  UNCHANGED <<bpc, subs, spc, asked, ppc>>
  BY <1>12 DEF SendUnsubscribe, brokerVars, processVars
<1>. QED
  BY <1>2, <1>3, <1>5, <1>6, <1>7, <1>8, <1>9, <1>10, <1>11, <1>12, Steps

\* What a publication adds to the history.
LEMMA PublishAdds ==
  ASSUME IType, NEW p \in Publishers, Publish(p)
  PROVE  \/ published' = published /\ queue' = queue /\ ~ Exists
         \/ /\ published' = Append(published, p) /\ Exists
            /\ Len(published') = Len(published) + 1
            /\ Len(published) \in Nat
            /\ \A k \in 1 .. Len(published) :
                 published'[k] = published[k] /\ published[k] # p
            /\ published'[Len(published) + 1] = p
<1>1. published \in Seq(Publishers)
  BY TypeParts DEF IType, HistoryType
<1>2. ppc[p] = "send"
  BY DEF Publish
<1>3. \A k \in 1 .. Len(published) : published[k] # p
  BY <1>2 DEF IType, Publications
<1>4. CASE Exists
  <2>1. published' = Append(published, p)
    BY <1>4 DEF Publish
  <2>. QED
    BY <1>1, <1>3, <1>4, <2>1, AppendItems
<1>5. CASE ~ Exists
  BY <1>5 DEF Publish
<1>. QED
  BY <1>4, <1>5

LEMMA HistoryKept ==
  ASSUME IType, Next
  PROVE  Publications' /\ Receipts'
<1>1. Publications /\ Receipts /\ ProcessType /\ HistoryType
  BY TypeParts DEF IType
<1>2. \A p : InPublished(p) => InPublished(p)'
  BY HistoryGrows, SoundStays
<1>3. ASSUME published' = published,
             \A p \in Publishers : ppc[p] = "ended" => ppc'[p] = "ended"
      PROVE  Publications'
  <2>1. \A k \in 1 .. Len(published) : published[k] \in Publishers
    BY <1>1 DEF HistoryType
  <2>. QED
    BY <1>1, <1>3, <2>1 DEF Publications
<1>4. ASSUME received' = received
      PROVE  Receipts'
  <2> SUFFICES ASSUME NEW s \in Subscribers, NEW k \in 1 .. Len(received[s])
               PROVE  InPublished(received[s][k])'
    BY <1>4 DEF Receipts
  <2>1. PICK p : p = received[s][k] /\ p = received'[s][k]
    BY <1>4
  <2>2. InPublished(p)'
    BY <1>1, <1>2, <2>1 DEF Receipts
  <2>. QED
    BY <2>1, <2>2 DEF InPublished
<1>5. ASSUME NEW s \in Subscribers, Deliver(s)
      PROVE  Publications' /\ Receipts'
  <2>1. /\ published' = published /\ ppc' = ppc /\ HasFor(s)
        /\ received' =
             [received EXCEPT ![s] = Append(@, queue[FirstFor(s)].pid)]
    BY <1>5 DEF Deliver
  <2>2. PICK i \in 1 .. Len(queue) : i = FirstFor(s) /\ queue[i].to = s
    BY <2>1, FirstOfItsType, TypeParts DEF IType, QueueType
  <2>3. s # ToBroker
    BY BrokerAssumption DEF BrokerAssumption
  <2>4. PICK x : x = queue[i].pid /\ InPublished(x)
    BY <2>2, <2>3 DEF IType, SoundQueue, Sound
  <2>5. x \in Publishers
    BY <1>1, <2>4 DEF InPublished, HistoryType
  <2>6. PICK q \in Seq(Publishers) : q = received[s]
    BY <1>1 DEF HistoryType
  <2>7. /\ received'[s] = Append(q, x)
        /\ Len(Append(q, x)) = Len(q) + 1 /\ Len(q) \in Nat
        /\ \A k \in 1 .. Len(q) : Append(q, x)[k] = q[k]
        /\ Append(q, x)[Len(q) + 1] = x
        /\ \A r \in Subscribers : r # s => received'[r] = received[r]
    BY <1>1, <2>1, <2>2, <2>4, <2>5, <2>6, AppendItems DEF HistoryType
  <2>8. ASSUME NEW r \in Subscribers, NEW k \in 1 .. Len(received'[r])
        PROVE  InPublished(received'[r][k])
    <3>1. CASE r # s
      BY <1>1, <2>7, <3>1 DEF Receipts
    <3>2. CASE r = s /\ k \in 1 .. Len(q)
      BY <1>1, <2>6, <2>7, <3>2 DEF Receipts
    <3>3. CASE r = s /\ k = Len(q) + 1
      BY <2>4, <2>7, <3>3
    <3>4. r = s => k \in 1 .. Len(q) \/ k = Len(q) + 1
      BY <2>7
    <3>. QED
      BY <3>1, <3>2, <3>3, <3>4
  <2>9. Receipts'
    BY <2>1, <2>8 DEF Receipts, InPublished
  <2>. QED
    BY <1>3, <2>1, <2>9
<1>6. ASSUME NEW p \in Publishers, Publish(p)
      PROVE  Publications' /\ Receipts'
  <2>1. received' = received /\ ppc' = [ppc EXCEPT ![p] = "ended"]
    BY <1>6 DEF Publish
  <2>2. ppc'[p] = "ended" /\ \A r \in Publishers : r # p => ppc'[r] = ppc[r]
    BY <1>1, <2>1 DEF ProcessType
  <2>3. CASE published' = published
    BY <1>3, <1>4, <2>1, <2>2, <2>3
  <2>4. CASE published' # published
    <3>1. /\ Len(published') = Len(published) + 1 /\ Len(published) \in Nat
          /\ \A k \in 1 .. Len(published) :
               published'[k] = published[k] /\ published[k] # p
          /\ published'[Len(published) + 1] = p
      BY <1>6, <2>4, PublishAdds
    <3>2. \A k \in 1 .. Len(published') :
            k \in 1 .. Len(published) \/ k = Len(published) + 1
      BY <3>1
    <3>3. \A i, j \in 1 .. Len(published') :
            published'[i] = published'[j] => i = j
      BY <1>1, <3>1, <3>2 DEF Publications
    <3>4. \A k \in 1 .. Len(published) : published[k] \in Publishers
      BY <1>1 DEF HistoryType
    <3>5. \A k \in 1 .. Len(published') : ppc'[published'[k]] = "ended"
      BY <1>1, <2>2, <3>1, <3>2, <3>4 DEF Publications
    <3>. QED
      BY <1>4, <2>1, <3>3, <3>5 DEF Publications
  <2>. QED
    BY <2>3, <2>4
<1>7. ASSUME NEW p \in Publishers, PublisherStart(p)
      PROVE  Publications' /\ Receipts'
  <2>1. PICK x \in {"send", "ended"} :
          /\ ppc[p] = "off" /\ ppc' = [ppc EXCEPT ![p] = x]
          /\ published' = published /\ received' = received
    BY <1>7 DEF PublisherStart, history
  <2>. QED
    BY <1>1, <1>3, <1>4, <2>1 DEF ProcessType
<1>8. CASE Cleanup
  <2>1. /\ published' = published /\ received' = received
        /\ \A p \in Publishers : ppc'[p] \in {ppc[p], "ended"}
    BY <1>8 DEF Cleanup, history
  <2>. QED
    BY <1>3, <1>4, <2>1
<1>9. ASSUME BrokerStart \/ Receive \/ NewEntry \/ Enroll \/ AddTopic
               \/ Unsubscribe \/ Forward \/ Pass \/ Forwarded
      PROVE  UNCHANGED <<published, received, ppc>>
  BY <1>9 DEF BrokerStart, Receive, NewEntry, Enroll, AddTopic,
              Unsubscribe, Forward, Pass, Forwarded, history, processVars
<1>10. ASSUME NEW s \in Subscribers,
              \/ SubscriberStart(s) \/ Ask(s) \/ Block(s) \/ QueueGone(s)
              \/ Interrupt(s) \/ \E t \in Topics : SendUnsubscribe(s, t)
       PROVE  UNCHANGED <<published, received, ppc>>
  BY <1>10 DEF SubscriberStart, Ask, Block, QueueGone, Interrupt,
               SendUnsubscribe, history, processVars
<1>11. CASE UNCHANGED <<published, received, ppc>>
  BY <1>3, <1>4, <1>11
<1>. QED
  BY <1>5, <1>6, <1>7, <1>8, <1>9, <1>10, <1>11, Steps

LEMMA NextType == IType /\ [Next]_vars => IType'
<1>1. ASSUME IType, Next
      PROVE  IType'
  <2>1. QueueType' /\ SoundQueue'
    BY <1>1, QueueKept
  <2>2. SoundHand' /\ BrokerType' /\ Entries'
    BY <1>1, HandKept, SubsKept
  <2>3. ProcessType' /\ Requests' /\ BeforeStart'
    BY <1>1, ProcessesKept
  <2>4. HistoryType' /\ Publications' /\ Receipts'
    BY <1>1, HistoryGrows, HistoryKept
  <2>. QED
    BY <2>1, <2>2, <2>3, <2>4, TypeParts DEF IType
<1>2. ASSUME IType, UNCHANGED vars
      PROVE  IType'
  <2>1. TypeOK'
    BY <1>2, UnchangedTypes, TypeParts DEF IType, vars
  <2>2. UNCHANGED <<queue, bpc, msg, subs, spc, asked, ppc, published,
                    received, quit>>
    BY <1>2 DEF vars, brokerVars, processVars, history
  <2>3. SoundQueue'
    BY <1>2, <2>2 DEF IType, SoundQueue, Sound, InPublished, Wanted
  <2>4. SoundHand'
    BY <1>2, <2>2 DEF IType, SoundHand, Sound, InPublished, Wanted
  <2>5. Entries'
    BY <1>2, <2>2 DEF IType, Entries, Exists, Wanted
  <2>6. Publications'
    BY <1>2, <2>2 DEF IType, Publications
  <2>7. BeforeStart' /\ Requests' /\ Receipts'
    BY <1>2, <2>2 DEF IType, BeforeStart, Requests, Receipts, InPublished
  <2>. QED
    BY <2>1, <2>3, <2>4, <2>5, <2>6, <2>7 DEF IType
<1>. QED
  BY <1>1, <1>2

\* TypeOK: the queue never holds more than msg_qbytes allows and a message for
\* pid 0 never gets onto it; subs[] needs no more entries than there are
\* subscribers (task2.c:50-55, which never frees one).
THEOREM TypeCorrect == Spec => []TypeOK
<1>1. IType => TypeOK
  BY DEF IType
<1>. QED
  BY <1>1, InitType, NextType, PTL DEF Spec
-----------------------------------------------------------------------------
(***************************************************************************)
(* What is on the way to a subscriber, stage by stage, in a state and in   *)
(* the next one.                                                           *)
(***************************************************************************)
LEMMA WayItems ==
  ASSUME NEW s
  PROVE  /\ \A a : a \in Way(s) <=>
              \/ \E k \in DOMAIN received[s] : a = <<1, k, received[s][k]>>
              \/ \E k \in DOMAIN queue :
                   queue[k].to = s /\ a = <<2, k, queue[k].pid>>
              \/ InHand(s) /\ a = <<3, 1, msg.pid>>
              \/ \E k \in DOMAIN queue :
                   Coming(k, s) /\ a = <<4, k, queue[k].pid>>
         /\ \A a : a \in Way(s)' <=>
              \/ \E k \in DOMAIN received'[s] : a = <<1, k, received'[s][k]>>
              \/ \E k \in DOMAIN queue' :
                   queue'[k].to = s /\ a = <<2, k, queue'[k].pid>>
              \/ InHand(s)' /\ a = <<3, 1, msg'.pid>>
              \/ \E k \in DOMAIN queue' :
                   Coming(k, s)' /\ a = <<4, k, queue'[k].pid>>
BY DEF Way

LEMMA WayPublished ==
  ASSUME IType, NEW s \in Subscribers
  PROVE  /\ DOMAIN queue = 1 .. Len(queue) /\ Len(queue) \in Nat
         /\ DOMAIN received[s] = 1 .. Len(received[s])
         /\ Len(received[s]) \in Nat
         /\ \A a \in Way(s) : InPublished(a[3]) /\ a[1] \in 1 .. 4 /\ a[2] \in Nat
<1>1. /\ DOMAIN queue = 1 .. Len(queue) /\ Len(queue) \in Nat
      /\ DOMAIN received[s] = 1 .. Len(received[s])
      /\ Len(received[s]) \in Nat
  BY TypeParts DEF IType, QueueType, HistoryType
<1>2. s # ToBroker
  BY BrokerAssumption DEF BrokerAssumption
<1> SUFFICES ASSUME NEW a \in Way(s)
             PROVE  InPublished(a[3]) /\ a[1] \in 1 .. 4 /\ a[2] \in Nat
  BY <1>1
<1>3. CASE \E k \in DOMAIN received[s] : a = <<1, k, received[s][k]>>
  BY <1>1, <1>3 DEF IType, Receipts
<1>4. CASE \E k \in DOMAIN queue : queue[k].to = s /\ a = <<2, k, queue[k].pid>>
  <2>1. PICK k \in 1 .. Len(queue) :
          queue[k].to = s /\ a = <<2, k, queue[k].pid>>
    BY <1>1, <1>4
  <2>2. InPublished(queue[k].pid)
    BY <1>2, <2>1 DEF IType, SoundQueue, Sound
  <2>. QED
    BY <1>1, <2>1, <2>2
<1>5. CASE InHand(s) /\ a = <<3, 1, msg.pid>>
  BY <1>5 DEF IType, SoundHand, Sound, InHand
<1>6. CASE \E k \in DOMAIN queue : Coming(k, s) /\ a = <<4, k, queue[k].pid>>
  <2>1. PICK k \in 1 .. Len(queue) :
          Coming(k, s) /\ a = <<4, k, queue[k].pid>>
    BY <1>1, <1>6
  <2>2. InPublished(queue[k].pid)
    BY <2>1 DEF IType, SoundQueue, Sound, Coming
  <2>. QED
    BY <1>1, <2>1, <2>2
<1>. QED
  BY <1>3, <1>4, <1>5, <1>6, WayItems

LEMMA WhereInPublished ==
  ASSUME IType, IType', Grows
  PROVE  /\ \A k \in 1 .. Len(published) : Position(published[k]) = k
         /\ \A k \in 1 .. Len(published') : \A p :
              p = published'[k] => Position(p)' = k
         /\ \A p : InPublished(p) => /\ Position(p) \in 1 .. Len(published)
                                     /\ Position(p)' = Position(p)
<1>1. /\ published \in Seq(Publishers) /\ published' \in Seq(Publishers)
      /\ DOMAIN published = 1 .. Len(published)
      /\ DOMAIN published' = 1 .. Len(published')
  BY TypeParts DEF IType, HistoryType
<1>2. /\ \A i, j \in 1 .. Len(published) : published[i] = published[j] => i = j
      /\ \A i, j \in 1 .. Len(published') :
           published'[i] = published'[j] => i = j
  BY DEF IType, Publications
<1>3. ASSUME NEW k \in 1 .. Len(published)
      PROVE  Position(published[k]) = k
  <2>1. \E i \in DOMAIN published : published[i] = published[k]
    BY <1>1
  <2>. QED
    BY <1>1, <1>2, <2>1 DEF Position
<1>4. ASSUME NEW k \in 1 .. Len(published'), NEW x, x = published'[k]
      PROVE  Position(x)' = k
  <2>1. x = published'[k]
    BY <1>4
  <2>2. \E i \in DOMAIN published' : published'[i] = x
    BY <1>1, <2>1
  <2>3. (CHOOSE i \in DOMAIN published' : published'[i] = x) = k
    BY <1>1, <1>2, <2>1, <2>2
  <2>. QED
    BY <2>1, <2>3 DEF Position
<1>5. ASSUME NEW p, InPublished(p)
      PROVE  /\ Position(p) \in 1 .. Len(published)
             /\ Position(p)' = Position(p)
  <2>1. PICK k \in 1 .. Len(published) : published[k] = p
    BY <1>5 DEF InPublished
  <2>2. k \in 1 .. Len(published') /\ published'[k] = p
    BY <2>1 DEF Grows
  <2>3. Position(p) = k
    BY <1>3, <2>1
  <2>4. (CHOOSE i \in DOMAIN published' : published'[i] = p) = k
    BY <1>1, <1>2, <2>2
  <2>. QED
    BY <2>3, <2>4 DEF Position
<1>. QED
  BY <1>3, <1>4, <1>5

InOrder(s) ==
  /\ \A a, b \in Way(s) : Before(a, b) => Position(a[3]) < Position(b[3])
  /\ \A a \in Way(s) : Posts[a[3]] \in Wanted(s)

(***************************************************************************)
(* Publications that were all on their way, in the same order, still are.  *)
(***************************************************************************)
LEMMA OrderKept ==
  ASSUME IType, IType', Grows, NEW s \in Subscribers, InOrder(s), NEW F,
         \A a \in Way(s)' : F[a] \in Way(s) /\ F[a][3] = a[3],
         \A a, b \in Way(s)' : Before(a, b) => Before(F[a], F[b])
  PROVE  InOrder(s)'
<1>1. \A a \in Way(s)' : Position(a[3])' = Position(F[a][3])
  BY WayPublished, WhereInPublished
<1>2. ASSUME NEW a \in Way(s)', NEW b \in Way(s)', Before(a, b)
      PROVE  Position(a[3])' < Position(b[3])'
  <2>1. Position(F[a][3]) < Position(F[b][3])
    BY <1>2 DEF InOrder
  <2>. QED
    BY <1>1, <2>1
<1>3. \A a \in Way(s)' : Posts[a[3]] \in Wanted(s)
  BY DEF InOrder
<1>. QED
  BY <1>2, <1>3 DEF InOrder, Before, Wanted

\* In particular if some of them went away and none moved.
LEMMA FewerInOrder ==
  ASSUME IType, IType', Grows, NEW s \in Subscribers, InOrder(s),
         \A a \in Way(s)' : a \in Way(s)
  PROVE  InOrder(s)'
<1>1. PICK F : F = [a \in Way(s)' |-> a]
  OBVIOUS
<1>2. \A a \in Way(s)' : F[a] = a
  BY <1>1
<1>. QED
  BY <1>2, OrderKept

\* The queue as it was, or with one request more.
OnlyRequests ==
  \/ queue' = queue
  \/ \E m \in Message : /\ m.to = ToBroker /\ m.kind # "send"
                        /\ queue' = Append(queue, m)

LEMMA RequestsAside ==
  ASSUME IType, NEW s \in Subscribers, received' = received, OnlyRequests
  PROVE  /\ (InHand(s)' => InHand(s) /\ msg' = msg) =>
              \A a \in Way(s)' : a \in Way(s)
         /\ (InHand(s) => InHand(s)' /\ msg' = msg) =>
              \A a \in Way(s) : a \in Way(s)'
<1>1. queue \in Seq(Message) /\ DOMAIN queue = 1 .. Len(queue)
      /\ Len(queue) \in Nat
  BY TypeParts DEF IType, QueueType
<1>2. s # ToBroker
  BY BrokerAssumption DEF BrokerAssumption
<1>3. /\ \A k \in DOMAIN queue : k \in DOMAIN queue' /\ queue'[k] = queue[k]
      /\ \A k \in DOMAIN queue' : k \notin DOMAIN queue =>
           queue'[k].to = ToBroker /\ queue'[k].kind # "send"
  <2>1. CASE queue' = queue
    BY <2>1
  <2>2. ASSUME NEW m \in Message, m.to = ToBroker, m.kind # "send",
               queue' = Append(queue, m)
        PROVE  <1>3!1 /\ <1>3!2
    <3>1. /\ queue' \in Seq(Message) /\ Len(queue') = Len(queue) + 1
          /\ \A k \in 1 .. Len(queue) : queue'[k] = queue[k]
          /\ queue'[Len(queue) + 1] = m
      BY <1>1, <2>2, AppendItems
    <3>2. DOMAIN queue' = 1 .. Len(queue) + 1
      BY <3>1
    <3>. QED
      BY <1>1, <2>2, <3>1, <3>2
  <2>. QED
    BY <2>1, <2>2 DEF OnlyRequests
<1>4. /\ \A k \in DOMAIN queue' : queue'[k].to = s =>
           k \in DOMAIN queue /\ queue[k].to = s /\ queue'[k] = queue[k]
      /\ \A k \in DOMAIN queue' : Coming(k, s)' =>
           k \in DOMAIN queue /\ Coming(k, s) /\ queue'[k] = queue[k]
      /\ \A k \in DOMAIN queue : Coming(k, s) => Coming(k, s)'
  BY <1>2, <1>3 DEF Coming, Wanted
<1>5. ASSUME InHand(s)' => InHand(s) /\ msg' = msg, NEW a \in Way(s)'
      PROVE  a \in Way(s)
  BY <1>4, <1>5, WayItems
<1>6. ASSUME InHand(s) => InHand(s)' /\ msg' = msg, NEW a \in Way(s)
      PROVE  a \in Way(s)'
  BY <1>3, <1>4, <1>6, WayItems
<1>. QED
  BY <1>5, <1>6

\* The steps that move no publication; two of them pass one over.
QuietStep ==
  \/ BrokerStart \/ NewEntry \/ Enroll \/ AddTopic \/ Unsubscribe
  \/ \E s \in Subscribers :
       \/ SubscriberStart(s) \/ Ask(s) \/ Block(s) \/ QueueGone(s)
       \/ Interrupt(s) \/ \E t \in Topics : SendUnsubscribe(s, t)
  \/ \E p \in Publishers : PublisherStart(p) \/ (Publish(p) /\ ~ Exists)

LEMMA QuietSteps ==
  ASSUME IType, QuietStep \/ Pass \/ Forwarded, NEW s \in Subscribers
  PROVE  /\ received' = received /\ published' = published /\ OnlyRequests
         /\ InHand(s)' => InHand(s) /\ msg' = msg
         /\ QuietStep => (InHand(s) => InHand(s)' /\ msg' = msg)
<1>1. ASSUME BrokerStart \/ NewEntry \/ Enroll \/ AddTopic \/ Unsubscribe
      PROVE  /\ UNCHANGED <<received, published, queue>>
             /\ ~ InHand(s) /\ ~ InHand(s)'
  BY <1>1 DEF BrokerStart, NewEntry, Enroll, AddTopic, Unsubscribe, history,
              InHand
<1>2. ASSUME Forwarded
      PROVE  UNCHANGED <<received, published, queue>> /\ ~ InHand(s)'
  BY <1>2 DEF Forwarded, history, InHand
<1>3. ASSUME Pass
      PROVE  /\ UNCHANGED <<received, published, queue>>
             /\ InHand(s)' => InHand(s) /\ msg' = msg
  <2>1. /\ UNCHANGED <<received, published, queue, bpc, msg, subs>>
        /\ turn' = turn + 1
    BY <1>3 DEF Pass, history
  <2>2. turn \in Nat /\ subs \in Seq(Entry)
    BY TypeParts DEF IType, BrokerType
  <2>3. \A i \in EntriesOf(s) : i \in Nat
    BY <2>2 DEF EntriesOf
  <2>4. EntriesOf(s)' = EntriesOf(s)
    BY <2>1 DEF EntriesOf
  <2>5. \A i \in EntriesOf(s) : turn' <= i => turn <= i
    BY <2>1, <2>2, <2>3
  <2>. QED
    BY <2>1, <2>4, <2>5 DEF InHand, Wanted
<1>4. ASSUME UNCHANGED brokerVars
      PROVE  InHand(s)' <=> InHand(s)
  BY <1>4 DEF brokerVars, InHand, EntriesOf, Wanted
<1>5. ASSUME NEW r \in Subscribers,
             SubscriberStart(r) \/ Block(r) \/ QueueGone(r) \/ Interrupt(r)
      PROVE  UNCHANGED <<received, published, queue, msg, brokerVars>>
  BY <1>5 DEF SubscriberStart, Block, QueueGone, Interrupt, history, brokerVars
<1>6. ASSUME NEW r \in Subscribers, Ask(r)
      PROVE  OnlyRequests /\ UNCHANGED <<received, published, msg, brokerVars>>
  <2>1. PICK m : m = [to |-> ToBroker, kind |-> "subscribe", pid |-> r,
                      topic |-> Wants[r][asked[r] + 1]]
    OBVIOUS
  <2>2. m \in Message /\ m.to = ToBroker /\ m.kind # "send"
    BY <1>6, <2>1, SentType DEF Ask
  <2>3. queue' = queue \/ queue' = Append(queue, m)
    BY <1>6, <2>1 DEF Ask, Queue
  <2>. QED
    BY <1>6, <2>2, <2>3 DEF OnlyRequests, Ask, brokerVars
<1>7. ASSUME NEW r \in Subscribers, NEW t \in Topics, SendUnsubscribe(r, t)
      PROVE  OnlyRequests /\ UNCHANGED <<received, published, msg, brokerVars>>
  <2>1. PICK m : m = [to |-> ToBroker, kind |-> "unsubscribe", pid |-> r,
                      topic |-> t]
    OBVIOUS
  <2>2. m \in Message /\ m.to = ToBroker /\ m.kind # "send"
    BY <2>1, SentType
  <2>3. queue' = Append(queue, m)
    BY <1>7, <2>1 DEF SendUnsubscribe, Queue
  <2>. QED
    BY <1>7, <2>2, <2>3 DEF OnlyRequests, SendUnsubscribe, brokerVars
<1>8. ASSUME NEW p \in Publishers, PublisherStart(p) \/ (Publish(p) /\ ~ Exists)
      PROVE  UNCHANGED <<received, published, queue, msg, brokerVars>>
  BY <1>8 DEF PublisherStart, Publish, history, brokerVars
<1>9. CASE BrokerStart \/ NewEntry \/ Enroll \/ AddTopic \/ Unsubscribe
  BY <1>1, <1>9 DEF OnlyRequests
<1>10. CASE /\ OnlyRequests \/ queue' = queue
            /\ UNCHANGED <<received, published, msg, brokerVars>>
  BY <1>4, <1>10 DEF OnlyRequests
<1>11. CASE Forwarded /\ ~ QuietStep
  BY <1>2, <1>11 DEF OnlyRequests
<1>12. CASE Pass /\ ~ QuietStep
  BY <1>3, <1>12 DEF OnlyRequests
<1>. QED
  BY <1>5, <1>6, <1>7, <1>8, <1>9, <1>10, <1>11, <1>12 DEF QuietStep

(***************************************************************************)
(* No publication gets lost, and none is passed by another.                *)
(***************************************************************************)
Kept(s) == \A a \in Way(s) : \E b \in Way(s)' : b[3] = a[3]

LEMMA ReceiveMoves ==
  ASSUME IType, IType', Grows, Receive, NEW s \in Subscribers
  PROVE  (InOrder(s) => InOrder(s)') /\ Kept(s)
<1>1. /\ bpc = "receive" /\ HasFor(ToBroker) /\ turn' = 1
      /\ msg' = queue[FirstFor(ToBroker)]
      /\ bpc' = queue[FirstFor(ToBroker)].kind
      /\ queue' = Without(FirstFor(ToBroker))
      /\ UNCHANGED <<subs, received>>
  BY DEF Receive, history
<1>2. /\ queue \in Seq(Message) /\ queue' \in Seq(Message)
      /\ subs \in Seq(Entry)
  BY TypeParts DEF IType, QueueType, BrokerType
<1>3. PICK i \in 1 .. Len(queue) : TakenOut(i, ToBroker)
  BY <1>1, <1>2, Taken
<1> USE DEF TakenOut
<1>4. s # ToBroker /\ i \in Nat /\ DOMAIN queue = 1 .. Len(queue)
      /\ DOMAIN queue' = 1 .. Len(queue')
  BY <1>2, <1>3, BrokerAssumption DEF BrokerAssumption
<1>5. /\ ~ InHand(s)
      /\ InHand(s)' <=> Coming(i, s)
  <2>1. msg' = queue[i] /\ bpc' = queue[i].kind
    BY <1>1, <1>3
  <2>2. \A j \in EntriesOf(s)' : turn' <= j
    BY <1>1, <1>2 DEF EntriesOf
  <2>. QED
    BY <1>1, <1>3, <2>1, <2>2 DEF InHand, Coming, Wanted
<1>6. ASSUME NEW k \in 1 .. Len(queue')
      PROVE  /\ Coming(k, s)' => Coming(Old(i, k), s) /\ i < Old(i, k)
             /\ Old(i, k) \in 1 .. Len(queue) /\ k \in Nat
             /\ queue'[k] = queue[Old(i, k)]
  <2>1. /\ Old(i, k) \in 1 .. Len(queue) /\ Old(i, k) # i
        /\ queue'[k] = queue[Old(i, k)]
    BY <1>3
  <2>2. queue[Old(i, k)].to = ToBroker => i < Old(i, k)
    BY <1>3, <1>4, <2>1
  <2>. QED
    BY <1>3, <2>1, <2>2 DEF Coming, Wanted
<1> DEFINE At(a) == IF a[1] = 3 THEN <<4, i, a[3]>>
                    ELSE IF a[1] = 1 THEN a ELSE <<a[1], Old(i, a[2]), a[3]>>
<1>7. PICK F : F = [a \in Way(s)' |-> At(a)]
  OBVIOUS
<1>8. ASSUME NEW a \in Way(s)'
      PROVE  /\ F[a] \in Way(s) /\ F[a][3] = a[3]
             /\ a[2] \in Nat /\ F[a][2] \in Nat
             /\ \/ a[1] = 1 /\ F[a][1] = 1 /\ F[a][2] = a[2]
                \/ a[1] = 2 /\ F[a][1] = 2 /\ F[a][2] = Old(i, a[2])
                \/ a[1] = 3 /\ a[2] = 1 /\ F[a][1] = 4 /\ F[a][2] = i
                \/ a[1] = 4 /\ F[a][1] = 4 /\ F[a][2] = Old(i, a[2])
                            /\ i < F[a][2]
  <2>1. F[a] = At(a)
    BY <1>7
  <2>2. CASE \E k \in DOMAIN received'[s] : a = <<1, k, received'[s][k]>>
    <3>1. PICK k \in DOMAIN received[s] : a = <<1, k, received[s][k]>>
      BY <1>1, <2>2
    <3>2. F[a] = a /\ k \in Nat
      BY <2>1, <3>1, WayPublished
    <3>. QED
      BY <3>1, <3>2, WayItems
  <2>3. CASE \E k \in DOMAIN queue' :
               queue'[k].to = s /\ a = <<2, k, queue'[k].pid>>
    <3>1. PICK k \in 1 .. Len(queue') :
            queue'[k].to = s /\ a = <<2, k, queue'[k].pid>>
      BY <1>4, <2>3
    <3>2. PICK l \in 1 .. Len(queue) : l = Old(i, k) /\ queue[l] = queue'[k]
      BY <1>6
    <3>3. F[a] = <<2, l, queue[l].pid>>
      BY <2>1, <3>1, <3>2
    <3>4. F[a] \in Way(s)
      BY <1>4, <3>1, <3>2, <3>3, WayItems
    <3>. QED
      BY <3>1, <3>2, <3>3, <3>4
  <2>4. CASE InHand(s)' /\ a = <<3, 1, msg'.pid>>
    <3>1. F[a] = <<4, i, queue[i].pid>> /\ a = <<3, 1, queue[i].pid>>
      BY <1>1, <1>3, <2>1, <2>4
    <3>2. F[a] \in Way(s)
      BY <1>4, <1>5, <2>4, <3>1, WayItems
    <3>. QED
      BY <1>4, <3>1, <3>2
  <2>5. CASE \E k \in DOMAIN queue' :
               Coming(k, s)' /\ a = <<4, k, queue'[k].pid>>
    <3>1. PICK k \in 1 .. Len(queue') :
            Coming(k, s)' /\ a = <<4, k, queue'[k].pid>>
      BY <1>4, <2>5
    <3>2. PICK l \in 1 .. Len(queue) :
            /\ l = Old(i, k) /\ queue[l] = queue'[k] /\ Coming(l, s)
            /\ i < l
      BY <1>6, <3>1
    <3>3. F[a] = <<4, l, queue[l].pid>>
      BY <2>1, <3>1, <3>2
    <3>4. F[a] \in Way(s)
      BY <1>4, <3>1, <3>2, <3>3, WayItems
    <3>. QED
      BY <3>1, <3>2, <3>3, <3>4
  <2>. QED
    BY <2>2, <2>3, <2>4, <2>5, WayItems
<1>9. ASSUME NEW a \in Way(s)', NEW b \in Way(s)', Before(a, b)
      PROVE  Before(F[a], F[b])
  <2>1. a[2] < b[2] => Old(i, a[2]) < Old(i, b[2])
    BY <1>4, <1>8, PlacesInOrder
  <2>. QED
    BY <1>4, <1>8, <1>9, <2>1 DEF Before
<1>10. ASSUME NEW a \in Way(s)
       PROVE  \E b \in Way(s)' : b[3] = a[3]
  <2>1. CASE \E k \in DOMAIN received[s] : a = <<1, k, received[s][k]>>
    <3>1. a \in Way(s)'
      BY <1>1, <2>1, WayItems
    <3>. QED
      BY <3>1
  <2>2. CASE \E k \in DOMAIN queue : queue[k].to = s /\ a = <<2, k, queue[k].pid>>
    <3>1. PICK k \in 1 .. Len(queue) :
            queue[k].to = s /\ a = <<2, k, queue[k].pid>>
      BY <1>4, <2>2
    <3>2. PICK l \in 1 .. Len(queue') : queue'[l] = queue[k]
      BY <1>3, <1>4, <3>1
    <3>3. <<2, l, queue'[l].pid>> \in Way(s)'
      BY <1>4, <3>1, <3>2, WayItems
    <3>. QED
      BY <3>1, <3>2, <3>3
  <2>3. CASE \E k \in DOMAIN queue :
               Coming(k, s) /\ a = <<4, k, queue[k].pid>>
    <3>1. PICK k \in 1 .. Len(queue) :
            Coming(k, s) /\ a = <<4, k, queue[k].pid>>
      BY <1>4, <2>3
    <3>2. CASE k = i
      <4>1. <<3, 1, msg'.pid>> \in Way(s)' /\ msg'.pid = queue[k].pid
        BY <1>1, <1>3, <1>5, <3>1, <3>2, WayItems
      <4>. QED
        BY <3>1, <4>1
    <3>3. CASE k # i
      <4>1. PICK l \in 1 .. Len(queue') : queue'[l] = queue[k]
        BY <1>3, <3>1, <3>3
      <4>2. Coming(l, s)'
        BY <3>1, <4>1 DEF Coming, Wanted
      <4>3. <<4, l, queue'[l].pid>> \in Way(s)'
        BY <1>4, <4>2, WayItems
      <4>. QED
        BY <3>1, <4>1, <4>3
    <3>. QED
      BY <3>2, <3>3
  <2>. QED
    BY <1>5, <2>1, <2>2, <2>3, WayItems
<1>11. ASSUME InOrder(s)
       PROVE  InOrder(s)'
  BY <1>8, <1>9, <1>11, OrderKept
<1>. QED
  BY <1>10, <1>11 DEF Kept

LEMMA DeliverMoves ==
  ASSUME IType, IType', Grows, NEW r \in Subscribers, Deliver(r),
         NEW s \in Subscribers
  PROVE  (InOrder(s) => InOrder(s)') /\ Kept(s)
<1>1. /\ HasFor(r) /\ queue' = Without(FirstFor(r))
      /\ received' = [received EXCEPT ![r] = Append(@, queue[FirstFor(r)].pid)]
      /\ UNCHANGED brokerVars
  BY DEF Deliver
<1>2. /\ queue \in Seq(Message) /\ queue' \in Seq(Message)
      /\ received \in [Subscribers -> Seq(Publishers)]
      /\ received' \in [Subscribers -> Seq(Publishers)]
  BY TypeParts DEF IType, QueueType, HistoryType
<1>3. PICK i \in 1 .. Len(queue) : TakenOut(i, r)
  BY <1>1, <1>2, Taken
<1> USE DEF TakenOut
<1>4. /\ s # ToBroker /\ r # ToBroker /\ i \in Nat
      /\ DOMAIN queue = 1 .. Len(queue) /\ DOMAIN queue' = 1 .. Len(queue')
  BY <1>2, <1>3, BrokerAssumption DEF BrokerAssumption
<1>5. msg' = msg /\ (InHand(s)' <=> InHand(s))
  BY <1>1 DEF brokerVars, InHand, EntriesOf, Wanted
<1>6. PICK n \in Nat : n = Len(received[s])
  BY <1>2
<1>x. PICK x : x = queue[i].pid
  OBVIOUS
<1>7. /\ DOMAIN received[s] = 1 .. n
      /\ \A k \in 1 .. n : received'[s][k] = received[s][k]
      /\ s # r => DOMAIN received'[s] = 1 .. n
      /\ s = r => DOMAIN received'[s] = 1 .. n + 1 /\ received'[s][n + 1] = x
  <2>1. CASE s # r
    BY <1>1, <1>2, <1>6, <2>1
  <2>2. CASE s = r
    <3>1. PICK q \in Seq(Publishers) : q = received[s]
      BY <1>2
    <3>2. received'[s] = Append(q, x)
      BY <1>1, <1>2, <1>3, <1>6, <1>x, <2>2, <3>1
    <3>3. Append(q, x) \in Seq(Publishers)
      BY <1>2, <3>2
    <3>4. x \in Publishers
      <4>1. Append(q, x)[Len(q) + 1] \in Publishers /\ Len(q) \in Nat
        BY <3>1, <3>3
      <4>. QED
        BY <4>1
    <3>5. /\ Len(Append(q, x)) = Len(q) + 1
          /\ \A k \in 1 .. Len(q) : Append(q, x)[k] = q[k]
          /\ Append(q, x)[Len(q) + 1] = x
      BY <3>1, <3>4, AppendItems
    <3>. QED
      BY <1>6, <2>2, <3>1, <3>2, <3>3, <3>5
  <2>. QED
    BY <2>1, <2>2
<1>8. ASSUME NEW k \in 1 .. Len(queue')
      PROVE  /\ Coming(k, s)' => Coming(Old(i, k), s)
             /\ Old(i, k) \in 1 .. Len(queue) /\ k \in Nat
             /\ queue'[k] = queue[Old(i, k)]
             /\ queue'[k].to = r => i < Old(i, k)
  <2>1. /\ Old(i, k) \in 1 .. Len(queue) /\ Old(i, k) # i
        /\ queue'[k] = queue[Old(i, k)]
    BY <1>3
  <2>2. queue[Old(i, k)].to = r => i < Old(i, k)
    BY <1>3, <1>4, <2>1
  <2>. QED
    BY <1>3, <2>1, <2>2 DEF Coming, Wanted
<1> DEFINE Printed(a) == s = r /\ a[1] = 1 /\ a[2] = n + 1
           At(a) == IF Printed(a) THEN <<2, i, a[3]>>
                    ELSE IF a[1] \in {1, 3} THEN a
                    ELSE <<a[1], Old(i, a[2]), a[3]>>
<1>9. PICK F : F = [a \in Way(s)' |-> At(a)]
  OBVIOUS
<1>10. ASSUME NEW a \in Way(s)'
       PROVE  /\ F[a] \in Way(s) /\ F[a][3] = a[3]
              /\ a[2] \in Nat /\ F[a][2] \in Nat
              /\ \/ a[1] = 1 /\ F[a][1] = 1 /\ F[a][2] = a[2] /\ a[2] <= n
                 \/ s = r /\ a[1] = 1 /\ a[2] = n + 1
                          /\ F[a][1] = 2 /\ F[a][2] = i
                 \/ a[1] = 2 /\ F[a][1] = 2 /\ F[a][2] = Old(i, a[2])
                             /\ (s = r => i < F[a][2])
                 \/ a[1] = 3 /\ F[a][1] = 3 /\ F[a][2] = a[2]
                 \/ a[1] = 4 /\ F[a][1] = 4 /\ F[a][2] = Old(i, a[2])
  <2>1. F[a] = At(a)
    BY <1>9
  <2>2. CASE \E k \in DOMAIN received'[s] : a = <<1, k, received'[s][k]>>
    <3>1. PICK k \in DOMAIN received'[s] : a = <<1, k, received'[s][k]>>
      BY <2>2
    <3>2. CASE k \in 1 .. n
      <4>1. F[a] = a /\ a = <<1, k, received[s][k]>> /\ k \in Nat /\ k <= n
        BY <1>6, <1>7, <2>1, <3>1, <3>2
      <4>2. a \in Way(s)
        BY <1>7, <3>2, <4>1, WayItems
      <4>. QED
        BY <4>1, <4>2
    <3>3. CASE s = r /\ k = n + 1
      <4>1. F[a] = <<2, i, x>> /\ a = <<1, n + 1, x>> /\ Printed(a)
        BY <1>7, <2>1, <3>1, <3>3
      <4>2. F[a] \in Way(s)
        BY <1>3, <1>4, <1>6, <1>x, <3>3, <4>1, WayItems
      <4>. QED
        BY <1>4, <1>6, <4>1, <4>2
    <3>. QED
      BY <1>6, <1>7, <3>1, <3>2, <3>3
  <2>3. CASE \E k \in DOMAIN queue' :
               queue'[k].to = s /\ a = <<2, k, queue'[k].pid>>
    <3>1. PICK k \in 1 .. Len(queue') :
            queue'[k].to = s /\ a = <<2, k, queue'[k].pid>>
      BY <1>4, <2>3
    <3>2. PICK l \in 1 .. Len(queue) :
            l = Old(i, k) /\ queue[l] = queue'[k] /\ (s = r => i < l)
      BY <1>8, <3>1
    <3>3. F[a] = <<2, l, queue[l].pid>>
      BY <2>1, <3>1, <3>2
    <3>4. F[a] \in Way(s)
      BY <1>4, <3>1, <3>2, <3>3, WayItems
    <3>. QED
      BY <3>1, <3>2, <3>3, <3>4
  <2>4. CASE InHand(s)' /\ a = <<3, 1, msg'.pid>>
    <3>1. F[a] = a /\ a = <<3, 1, msg.pid>>
      BY <1>5, <2>1, <2>4
    <3>2. a \in Way(s)
      BY <1>5, <2>4, <3>1, WayItems
    <3>. QED
      BY <3>1, <3>2
  <2>5. CASE \E k \in DOMAIN queue' :
               Coming(k, s)' /\ a = <<4, k, queue'[k].pid>>
    <3>1. PICK k \in 1 .. Len(queue') :
            Coming(k, s)' /\ a = <<4, k, queue'[k].pid>>
      BY <1>4, <2>5
    <3>2. PICK l \in 1 .. Len(queue) :
            l = Old(i, k) /\ queue[l] = queue'[k] /\ Coming(l, s)
      BY <1>8, <3>1
    <3>3. F[a] = <<4, l, queue[l].pid>>
      BY <2>1, <3>1, <3>2
    <3>4. F[a] \in Way(s)
      BY <1>4, <3>1, <3>2, <3>3, WayItems
    <3>. QED
      BY <3>1, <3>2, <3>3, <3>4
  <2>. QED
    BY <2>2, <2>3, <2>4, <2>5, WayItems
<1>11. ASSUME NEW a \in Way(s)', NEW b \in Way(s)', Before(a, b)
       PROVE  Before(F[a], F[b])
  <2>1. a[2] < b[2] => Old(i, a[2]) < Old(i, b[2])
    BY <1>4, <1>10, PlacesInOrder
  <2>. QED
    BY <1>4, <1>6, <1>10, <1>11, <2>1, SMTT(30) DEF Before
<1>12. ASSUME NEW a \in Way(s)
       PROVE  \E b \in Way(s)' : b[3] = a[3]
  <2>1. CASE \E k \in DOMAIN received[s] : a = <<1, k, received[s][k]>>
    <3>1. PICK k \in 1 .. n : a = <<1, k, received[s][k]>>
      BY <1>7, <2>1
    <3>2. k \in DOMAIN received'[s] /\ a = <<1, k, received'[s][k]>>
      BY <1>6, <1>7, <3>1
    <3>3. a \in Way(s)'
      BY <3>2, WayItems
    <3>. QED
      BY <3>3
  <2>2. CASE \E k \in DOMAIN queue : queue[k].to = s /\ a = <<2, k, queue[k].pid>>
    <3>1. PICK k \in 1 .. Len(queue) :
            queue[k].to = s /\ a = <<2, k, queue[k].pid>>
      BY <1>4, <2>2
    <3>2. CASE k = i
      <4>1. s = r /\ a[3] = x
        BY <1>3, <1>6, <1>x, <3>1, <3>2
      <4>2. n + 1 \in DOMAIN received'[s] /\ received'[s][n + 1] = x
        BY <1>6, <1>7, <4>1
      <4>3. <<1, n + 1, x>> \in Way(s)'
        BY <4>2, WayItems
      <4>. QED
        BY <4>1, <4>3
    <3>3. CASE k # i
      <4>1. PICK l \in 1 .. Len(queue') : queue'[l] = queue[k]
        BY <1>3, <3>1, <3>3
      <4>2. <<2, l, queue'[l].pid>> \in Way(s)'
        BY <1>4, <3>1, <4>1, WayItems
      <4>. QED
        BY <3>1, <4>1, <4>2
    <3>. QED
      BY <3>2, <3>3
  <2>3. CASE InHand(s) /\ a = <<3, 1, msg.pid>>
    <3>1. a \in Way(s)'
      BY <1>5, <2>3, WayItems
    <3>. QED
      BY <3>1
  <2>4. CASE \E k \in DOMAIN queue :
               Coming(k, s) /\ a = <<4, k, queue[k].pid>>
    <3>1. PICK k \in 1 .. Len(queue) :
            Coming(k, s) /\ a = <<4, k, queue[k].pid>>
      BY <1>4, <2>4
    <3>2. k # i
      BY <1>3, <1>4, <3>1 DEF Coming
    <3>3. PICK l \in 1 .. Len(queue') : queue'[l] = queue[k]
      BY <1>3, <3>1, <3>2
    <3>4. Coming(l, s)'
      BY <3>1, <3>3 DEF Coming, Wanted
    <3>5. <<4, l, queue'[l].pid>> \in Way(s)'
      BY <1>4, <3>4, WayItems
    <3>. QED
      BY <3>1, <3>3, <3>5
  <2>. QED
    BY <2>1, <2>2, <2>3, <2>4, WayItems
<1>13. ASSUME InOrder(s)
       PROVE  InOrder(s)'
  BY <1>10, <1>11, <1>13, OrderKept
<1>. QED
  BY <1>12, <1>13 DEF Kept

LEMMA ForwardMoves ==
  ASSUME IType, IType', Grows, Forward, NEW s \in Subscribers
  PROVE  (InOrder(s) => InOrder(s)') /\ Kept(s)
<1>1. /\ subs \in Seq(Entry) /\ DOMAIN subs = 1 .. Len(subs)
      /\ msg \in Message /\ queue \in Seq(Message)
  BY TypeParts DEF IType, BrokerType, QueueType
<1>2. /\ bpc = "send" /\ turn \in 1 .. Len(subs) /\ InTopics(msg.topic, turn)
      /\ queue' = Append(queue, [msg EXCEPT !.to = subs[turn].pid])
      /\ turn' = turn + 1 /\ UNCHANGED <<bpc, msg, subs, received>>
  <2>0. bpc = "send" /\ turn \in DOMAIN subs /\ InTopics(msg.topic, turn)
    BY DEF Forward
  <2>1. /\ bpc = "send" /\ turn \in 1 .. Len(subs) /\ InTopics(msg.topic, turn)
    BY <1>1, <2>0
  <2>2. queue' = Append(queue, [msg EXCEPT !.to = subs[turn].pid])
    BY DEF Forward, Queue
  <2>3. turn' = turn + 1 /\ UNCHANGED <<bpc, msg, subs, received>>
    BY DEF Forward, history
  <2>. QED
    BY <2>1, <2>2, <2>3
<1>3. PICK t \in Nat, n \in Nat : t = turn /\ n = Len(queue)
  <2>1. turn \in Nat
    BY <1>1, <1>2
  <2>2. Len(queue) \in Nat
    BY <1>1
  <2>. QED
    BY <2>1, <2>2
<1>4. PICK r \in Subscribers : r = subs[t].pid
  BY <1>2, <1>3, SentType
<1>5. PICK m \in Message : /\ m = [msg EXCEPT !.to = r]
                           /\ m.to = r /\ m.pid = msg.pid
  <2>1. [msg EXCEPT !.to = r] \in Message
    BY <1>1, <1>4 DEF Message
  <2>. QED
    BY <1>1, <2>1 DEF Message
<1>6. s # ToBroker /\ r # ToBroker
  BY BrokerAssumption DEF BrokerAssumption
<1>7. /\ DOMAIN queue = 1 .. n /\ DOMAIN queue' = 1 .. n + 1
      /\ \A k \in 1 .. n : queue'[k] = queue[k]
      /\ queue'[n + 1] = m
  <2>1. queue' = Append(queue, m)
    BY <1>2, <1>3, <1>4, <1>5
  <2>2. /\ queue' \in Seq(Message) /\ Len(queue') = n + 1
        /\ \A k \in 1 .. n : queue'[k] = queue[k]
        /\ queue'[n + 1] = m
    BY <1>1, <1>3, <2>1, AppendItems
  <2>. QED
    BY <1>1, <1>3, <2>2
<1>8. /\ \A k \in 1 .. n : Coming(k, s)' <=> Coming(k, s)
      /\ ~ Coming(n + 1, s)'
  BY <1>5, <1>6, <1>7 DEF Coming, Wanted
<1>9. \A j \in 1 .. Len(subs) : subs[j].pid = r => j = t
  <2>1. Exists
    BY <1>2 DEF Exists
  <2>. QED
    BY <1>2, <1>3, <1>4, <2>1 DEF IType, Entries
<1>10. s = r => InHand(s) /\ ~ InHand(s)'
  <2> SUFFICES ASSUME s = r
               PROVE  InHand(s) /\ ~ InHand(s)'
    OBVIOUS
  <2>1. msg.topic \in Wanted(s)
    <3>1. PICK j \in DOMAIN subs[t].topics : subs[t].topics[j] = msg.topic
      BY <1>2, <1>3 DEF InTopics
    <3>2. subs[t] \in Entry
      BY <1>1, <1>2, <1>3
    <3>3. j \in 1 .. Len(subs[t].topics)
      BY <3>1, <3>2 DEF Entry
    <3>4. msg.kind = "send" /\ Sound(msg)
      BY <1>2 DEF IType, SoundHand
    <3>5. InPublished(msg.pid) /\ msg.topic = Posts[msg.pid]
      BY <3>4 DEF Sound
    <3>6. msg.pid \in Publishers
      <4>1. published \in Seq(Publishers)
        BY TypeParts DEF IType, HistoryType
      <4>. QED
        BY <3>5, <4>1 DEF InPublished
    <3>7. msg.topic # NoTopic
      BY <3>5, <3>6, BrokerAssumption DEF BrokerAssumption
    <3>8. Exists
      BY <1>2 DEF Exists
    <3>. QED
      BY <1>2, <1>3, <1>4, <3>1, <3>3, <3>7, <3>8 DEF IType, Entries
  <2>2. EntriesOf(s) = {t} /\ EntriesOf(s)' = {t}
    BY <1>1, <1>2, <1>3, <1>4, <1>9 DEF EntriesOf
  <2>3. turn <= t /\ ~ (turn' <= t)
    BY <1>2, <1>3
  <2>. QED
    BY <1>2, <2>1, <2>2, <2>3 DEF InHand
<1>11. s # r => (InHand(s)' <=> InHand(s))
  <2> SUFFICES ASSUME s # r
               PROVE  InHand(s)' <=> InHand(s)
    OBVIOUS
  <2>1. EntriesOf(s)' = EntriesOf(s) /\ EntriesOf(s) \subseteq Nat
    BY <1>1, <1>2 DEF EntriesOf
  <2>2. t \notin EntriesOf(s)
    BY <1>4 DEF EntriesOf
  <2>3. \A j \in EntriesOf(s) : turn' <= j <=> turn <= j
    BY <1>2, <1>3, <2>1, <2>2
  <2>. QED
    BY <1>2, <2>1, <2>3 DEF InHand, Wanted
<1> DEFINE At(a) == IF a[1] = 2 /\ a[2] = n + 1 THEN <<3, 1, a[3]>> ELSE a
<1>12. PICK F : F = [a \in Way(s)' |-> At(a)]
  OBVIOUS
<1>13. ASSUME NEW a \in Way(s)'
       PROVE  /\ F[a] \in Way(s) /\ F[a][3] = a[3] /\ a[2] \in Nat
              /\ \/ a[1] = 1 /\ F[a] = a
                 \/ a[1] = 2 /\ F[a] = a /\ a[2] <= n
                 \/ a[1] = 2 /\ a[2] = n + 1 /\ F[a][1] = 3 /\ F[a][2] = 1
                             /\ s = r
                 \/ a[1] = 3 /\ F[a] = a /\ s # r
                 \/ a[1] = 4 /\ F[a] = a
  <2>1. F[a] = At(a)
    BY <1>12
  <2>2. CASE \E k \in DOMAIN received'[s] : a = <<1, k, received'[s][k]>>
    <3>1. PICK k \in DOMAIN received[s] : a = <<1, k, received[s][k]>>
      BY <1>2, <2>2
    <3>2. F[a] = a /\ k \in Nat
      BY <2>1, <3>1, WayPublished
    <3>. QED
      BY <3>1, <3>2, WayItems
  <2>3. CASE \E k \in DOMAIN queue' :
               queue'[k].to = s /\ a = <<2, k, queue'[k].pid>>
    <3>1. PICK k \in 1 .. n + 1 :
            queue'[k].to = s /\ a = <<2, k, queue'[k].pid>>
      BY <1>7, <2>3
    <3>2. CASE k \in 1 .. n
      <4>1. F[a] = a /\ k <= n /\ k \in Nat /\ a = <<2, k, queue[k].pid>>
            /\ queue[k].to = s
        BY <1>7, <2>1, <3>1, <3>2
      <4>2. a \in Way(s)
        BY <1>7, <3>2, <4>1, WayItems
      <4>. QED
        BY <4>1, <4>2
    <3>3. CASE k = n + 1
      <4>1. a = <<2, n + 1, msg.pid>> /\ s = r
        BY <1>5, <1>7, <3>1, <3>3
      <4>2. F[a] = <<3, 1, msg.pid>>
        BY <2>1, <4>1
      <4>3. F[a] \in Way(s)
        BY <1>10, <4>1, <4>2, WayItems
      <4>. QED
        BY <4>1, <4>2, <4>3
    <3>. QED
      BY <3>1, <3>2, <3>3
  <2>4. CASE InHand(s)' /\ a = <<3, 1, msg'.pid>>
    <3>1. s # r /\ InHand(s) /\ a = <<3, 1, msg.pid>>
      BY <1>2, <1>10, <1>11, <2>4
    <3>2. a \in Way(s) /\ F[a] = a
      BY <2>1, <3>1, WayItems
    <3>. QED
      BY <3>1, <3>2
  <2>5. CASE \E k \in DOMAIN queue' :
               Coming(k, s)' /\ a = <<4, k, queue'[k].pid>>
    <3>1. PICK k \in 1 .. n + 1 :
            Coming(k, s)' /\ a = <<4, k, queue'[k].pid>>
      BY <1>7, <2>5
    <3>2. k \in 1 .. n
      BY <1>8, <3>1
    <3>3. a = <<4, k, queue[k].pid>> /\ Coming(k, s) /\ k \in Nat
      BY <1>7, <1>8, <3>1, <3>2
    <3>4. a \in Way(s) /\ F[a] = a
      BY <1>7, <2>1, <3>2, <3>3, WayItems
    <3>. QED
      BY <3>3, <3>4
  <2>. QED
    BY <2>2, <2>3, <2>4, <2>5, WayItems
<1>14. ASSUME NEW a \in Way(s)', NEW b \in Way(s)', Before(a, b)
       PROVE  Before(F[a], F[b])
  BY <1>13, <1>14 DEF Before
<1>15. ASSUME NEW a \in Way(s)
       PROVE  \E b \in Way(s)' : b[3] = a[3]
  <2>1. CASE \E k \in DOMAIN received[s] : a = <<1, k, received[s][k]>>
    <3>1. a \in Way(s)'
      BY <1>2, <2>1, WayItems
    <3>. QED
      BY <3>1
  <2>2. CASE \E k \in DOMAIN queue : queue[k].to = s /\ a = <<2, k, queue[k].pid>>
    <3>1. PICK k \in 1 .. n : queue[k].to = s /\ a = <<2, k, queue[k].pid>>
      BY <1>7, <2>2
    <3>2. k \in DOMAIN queue' /\ queue'[k] = queue[k]
      BY <1>7, <3>1
    <3>3. a \in Way(s)'
      BY <3>1, <3>2, WayItems
    <3>. QED
      BY <3>3
  <2>3. CASE InHand(s) /\ a = <<3, 1, msg.pid>>
    <3>1. CASE s = r
      <4>1. n + 1 \in DOMAIN queue' /\ queue'[n + 1].to = s
            /\ queue'[n + 1].pid = msg.pid
        BY <1>5, <1>7, <3>1
      <4>2. <<2, n + 1, msg.pid>> \in Way(s)'
        BY <4>1, WayItems
      <4>. QED
        BY <2>3, <4>2
    <3>2. CASE s # r
      <4>1. a \in Way(s)'
        BY <1>2, <1>11, <2>3, <3>2, WayItems
      <4>. QED
        BY <4>1
    <3>. QED
      BY <3>1, <3>2
  <2>4. CASE \E k \in DOMAIN queue :
               Coming(k, s) /\ a = <<4, k, queue[k].pid>>
    <3>1. PICK k \in 1 .. n : Coming(k, s) /\ a = <<4, k, queue[k].pid>>
      BY <1>7, <2>4
    <3>2. k \in DOMAIN queue' /\ queue'[k] = queue[k] /\ Coming(k, s)'
      BY <1>7, <1>8, <3>1
    <3>3. a \in Way(s)'
      BY <3>1, <3>2, WayItems
    <3>. QED
      BY <3>3
  <2>. QED
    BY <2>1, <2>2, <2>3, <2>4, WayItems
<1>16. ASSUME InOrder(s)
       PROVE  InOrder(s)'
  BY <1>13, <1>14, <1>16, OrderKept
<1>. QED
  BY <1>15, <1>16 DEF Kept

LEMMA PublishMoves ==
  ASSUME IType, IType', Grows, NEW p \in Publishers, Publish(p), Exists,
         NEW s \in Subscribers
  PROVE  /\ InOrder(s) => InOrder(s)'
         /\ Kept(s)
         /\ Posts[p] \in Wanted(s) => \E b \in Way(s)' : b[3] = p
<1>1. PICK m \in Message :
        m = [to |-> ToBroker, kind |-> "send", pid |-> p, topic |-> Posts[p]]
  BY SentType
<1>2. queue' = Append(queue, m) /\ UNCHANGED <<brokerVars, received>>
  BY <1>1 DEF Publish, Queue
<1>3. queue \in Seq(Message) /\ DOMAIN queue = 1 .. Len(queue)
  BY TypeParts DEF IType, QueueType
<1>4. PICK n \in Nat : n = Len(queue)
  <2>1. Len(queue) \in Nat
    BY <1>3
  <2>. QED
    BY <2>1
<1>5. /\ DOMAIN queue = 1 .. n /\ DOMAIN queue' = 1 .. n + 1
      /\ \A k \in 1 .. n : queue'[k] = queue[k]
      /\ queue'[n + 1] = m
  <2>1. /\ queue' \in Seq(Message) /\ Len(queue') = n + 1
        /\ \A k \in 1 .. n : queue'[k] = queue[k]
        /\ queue'[n + 1] = m
    BY <1>2, <1>3, <1>4, AppendItems
  <2>. QED
    BY <1>3, <1>4, <2>1
<1>6. msg' = msg /\ (InHand(s)' <=> InHand(s))
  BY <1>2 DEF brokerVars, InHand, EntriesOf, Wanted
<1>7. /\ \A k \in 1 .. n : Coming(k, s)' <=> Coming(k, s)
      /\ Coming(n + 1, s)' <=> Posts[p] \in Wanted(s)
      /\ queue'[n + 1].to # s /\ queue'[n + 1].pid = p
  BY <1>1, <1>5, BrokerAssumption DEF Coming, Wanted, BrokerAssumption
<1>8. \A k \in 1 .. n + 1 : k \in 1 .. n \/ k = n + 1
  BY <1>4
<1>9. ASSUME NEW a \in Way(s)'
      PROVE  /\ a[1] \in 1 .. 4 /\ a[2] \in Nat /\ (a[1] = 4 => a[2] <= n + 1)
             /\ \/ a \in Way(s)
                \/ a[1] = 4 /\ a[2] = n + 1 /\ a[3] = p
                            /\ Posts[p] \in Wanted(s)
  <2>1. CASE \E k \in DOMAIN received'[s] : a = <<1, k, received'[s][k]>>
    <3>1. PICK k \in DOMAIN received[s] : a = <<1, k, received[s][k]>>
      BY <1>2, <2>1
    <3>2. k \in Nat
      BY <3>1, WayPublished
    <3>. QED
      BY <3>1, <3>2, WayItems
  <2>2. CASE \E k \in DOMAIN queue' :
               queue'[k].to = s /\ a = <<2, k, queue'[k].pid>>
    <3>1. PICK k \in 1 .. n + 1 :
            queue'[k].to = s /\ a = <<2, k, queue'[k].pid>>
      BY <1>5, <2>2
    <3>2. k \in 1 .. n /\ k \in Nat
      BY <1>7, <1>8, <3>1
    <3>3. a = <<2, k, queue[k].pid>> /\ queue[k].to = s
      BY <1>5, <3>1, <3>2
    <3>4. a \in Way(s)
      BY <1>5, <3>2, <3>3, WayItems
    <3>. QED
      BY <3>2, <3>3, <3>4
  <2>3. CASE InHand(s)' /\ a = <<3, 1, msg'.pid>>
    <3>1. a = <<3, 1, msg.pid>> /\ a \in Way(s)
      BY <1>6, <2>3, WayItems
    <3>. QED
      BY <3>1
  <2>4. CASE \E k \in DOMAIN queue' :
               Coming(k, s)' /\ a = <<4, k, queue'[k].pid>>
    <3>1. PICK k \in 1 .. n + 1 :
            Coming(k, s)' /\ a = <<4, k, queue'[k].pid>>
      BY <1>5, <2>4
    <3>2. CASE k \in 1 .. n
      <4>1. a = <<4, k, queue[k].pid>> /\ Coming(k, s) /\ k \in Nat /\ k <= n + 1
        BY <1>5, <1>7, <3>1, <3>2
      <4>2. a \in Way(s)
        BY <1>5, <3>2, <4>1, WayItems
      <4>. QED
        BY <4>1, <4>2
    <3>3. CASE k = n + 1
      BY <1>7, <3>1, <3>3
    <3>. QED
      BY <1>8, <3>1, <3>2, <3>3
  <2>. QED
    BY <2>1, <2>2, <2>3, <2>4, WayItems
<1>10. PICK l \in Nat :
         /\ l = Len(published) /\ Len(published') = l + 1
         /\ Position(p)' = l + 1
  <2>1. ~ (published' = published /\ queue' = queue /\ ~ Exists)
    OBVIOUS
  <2>2. /\ Len(published') = Len(published) + 1 /\ Len(published) \in Nat
        /\ published'[Len(published) + 1] = p
    BY <2>1, PublishAdds
  <2>3. Position(p)' = Len(published) + 1
    BY <2>2, WhereInPublished
  <2>. QED
    BY <2>2, <2>3
<1>11. \A a \in Way(s) : /\ Position(a[3])' = Position(a[3])
                         /\ Position(a[3]) \in 1 .. l
  BY <1>10, WayPublished, WhereInPublished
<1>12. ASSUME InOrder(s)
       PROVE  InOrder(s)'
  <2>1. ASSUME NEW a \in Way(s)', NEW b \in Way(s)', Before(a, b)
        PROVE  Position(a[3])' < Position(b[3])'
    <3>1. a \in Way(s)
      BY <1>4, <1>9, <2>1 DEF Before
    <3>2. CASE b \in Way(s)
      BY <1>11, <1>12, <2>1, <3>1, <3>2 DEF InOrder
    <3>3. CASE b[3] = p
      <4>1. Position(b[3])' = l + 1
        BY <1>10, <3>3
      <4>. QED
        BY <1>10, <1>11, <3>1, <4>1
    <3>. QED
      BY <1>9, <3>2, <3>3
  <2>2. \A a \in Way(s)' : Posts[a[3]] \in Wanted(s)
    BY <1>9, <1>12 DEF InOrder
  <2>. QED
    BY <2>1, <2>2 DEF InOrder, Before, Wanted
<1>13. ASSUME NEW a \in Way(s)
       PROVE  a \in Way(s)'
  <2>1. CASE \E k \in DOMAIN received[s] : a = <<1, k, received[s][k]>>
    BY <1>2, <2>1, WayItems
  <2>2. CASE \E k \in DOMAIN queue : queue[k].to = s /\ a = <<2, k, queue[k].pid>>
    <3>1. PICK k \in 1 .. n : queue[k].to = s /\ a = <<2, k, queue[k].pid>>
      BY <1>5, <2>2
    <3>2. k \in DOMAIN queue' /\ queue'[k] = queue[k]
      BY <1>5, <3>1
    <3>. QED
      BY <3>1, <3>2, WayItems
  <2>3. CASE InHand(s) /\ a = <<3, 1, msg.pid>>
    BY <1>6, <2>3, WayItems
  <2>4. CASE \E k \in DOMAIN queue :
               Coming(k, s) /\ a = <<4, k, queue[k].pid>>
    <3>1. PICK k \in 1 .. n : Coming(k, s) /\ a = <<4, k, queue[k].pid>>
      BY <1>5, <2>4
    <3>2. k \in DOMAIN queue' /\ queue'[k] = queue[k] /\ Coming(k, s)'
      BY <1>5, <1>7, <3>1
    <3>. QED
      BY <3>1, <3>2, WayItems
  <2>. QED
    BY <2>1, <2>2, <2>3, <2>4, WayItems
<1>14. ASSUME Posts[p] \in Wanted(s)
       PROVE  \E b \in Way(s)' : b[3] = p
  <2>1. n + 1 \in DOMAIN queue' /\ Coming(n + 1, s)' /\ queue'[n + 1].pid = p
    BY <1>5, <1>7, <1>14
  <2>2. <<4, n + 1, p>> \in Way(s)'
    BY <2>1, WayItems
  <2>. QED
    BY <2>2
<1>. QED
  BY <1>12, <1>13, <1>14 DEF Kept

\* SIGINT: what is still on the queue is lost, the rest is as it was.
LEMMA CleanupMoves ==
  ASSUME IType, IType', Grows, Cleanup, NEW s \in Subscribers, InOrder(s)
  PROVE  InOrder(s)'
<1>1. queue' = <<>> /\ received' = received /\ bpc' = "gone"
  BY DEF Cleanup, history
<1>2. DOMAIN queue' = {} /\ ~ InHand(s)'
  BY <1>1 DEF InHand
<1>3. \A a \in Way(s)' : a \in Way(s)
  BY <1>1, <1>2, WayItems
<1>. QED
  BY <1>3, FewerInOrder

\* The steps, by what they do to the publications.
LEMMA WaySteps ==
  Next => \/ QuietStep \/ Pass \/ Forwarded \/ Receive \/ Forward \/ Cleanup
          \/ \E r \in Subscribers : Deliver(r)
          \/ \E p \in Publishers : Publish(p) /\ Exists
BY Steps DEF QuietStep

LEMMA NextInOrder ==
  ASSUME IType, [Next]_vars, NEW s \in Subscribers, InOrder(s)
  PROVE  InOrder(s)'
<1>1. IType'
  BY NextType
<1>2. ASSUME Next
      PROVE  InOrder(s)'
  <2>1. Grows
    BY <1>2, HistoryGrows
  <2>2. CASE QuietStep \/ Pass \/ Forwarded
    <3>1. /\ received' = received /\ OnlyRequests
          /\ InHand(s)' => InHand(s) /\ msg' = msg
      BY <2>2, QuietSteps
    <3>2. \A a \in Way(s)' : a \in Way(s)
      BY <3>1, RequestsAside
    <3>. QED
      BY <1>1, <2>1, <3>2, FewerInOrder
  <2>3. CASE Receive
    BY <1>1, <2>1, <2>3, ReceiveMoves
  <2>4. CASE Forward
    BY <1>1, <2>1, <2>4, ForwardMoves
  <2>5. CASE Cleanup
    BY <1>1, <2>1, <2>5, CleanupMoves
  <2>6. ASSUME NEW r \in Subscribers, Deliver(r)
        PROVE  InOrder(s)'
    BY <1>1, <2>1, <2>6, DeliverMoves
  <2>7. ASSUME NEW p \in Publishers, Publish(p), Exists
        PROVE  InOrder(s)'
    BY <1>1, <2>1, <2>7, PublishMoves
  <2>. QED
    BY <1>2, <2>2, <2>3, <2>4, <2>5, <2>6, <2>7, WaySteps
<1>3. CASE UNCHANGED vars
  <2>1. UNCHANGED <<queue, bpc, msg, turn, subs, received, published>>
    BY <1>3 DEF vars, brokerVars, history
  <2>2. Way(s)' = Way(s)
    BY <2>1 DEF Way, InHand, Coming, EntriesOf, Wanted
  <2>3. \A p : Position(p)' = Position(p)
    BY <2>1 DEF Position
  <2>. QED
    BY <2>2, <2>3 DEF InOrder, Before, Wanted
<1>. QED
  BY <1>2, <1>3

AllInOrder == \A s \in Subscribers : InOrder(s)

LEMMA NextAllInOrder == IType /\ AllInOrder /\ [Next]_vars => AllInOrder'
<1> SUFFICES ASSUME IType, AllInOrder, [Next]_vars, NEW s \in Subscribers
             PROVE  InOrder(s)'
  BY DEF AllInOrder
<1>1. InOrder(s)
  BY DEF AllInOrder
<1>. QED
  BY <1>1, NextInOrder

LEMMA InitInOrder == Init => AllInOrder
<1> SUFFICES ASSUME Init, NEW s \in Subscribers
             PROVE  InOrder(s)
  BY DEF AllInOrder
<1>1. /\ DOMAIN received[s] = {} /\ DOMAIN queue = {} /\ ~ InHand(s)
  BY DEF Init, InHand
<1>2. Way(s) = {}
  BY <1>1, WayItems
<1>. QED
  BY <1>2 DEF InOrder

\* InOrderOnce: no subscriber gets a publication twice or ahead of an earlier
\* one, or one of a topic it did not ask for, however the messages for the
\* broker and for the subscribers mix in the one queue (task2.c:74-84, 112-116).
THEOREM OnceAndInOrder == Spec => []InOrderOnce
<1>1. AllInOrder => InOrderOnce
  BY DEF AllInOrder, InOrder, InOrderOnce
<1>. QED
  BY <1>1, InitType, NextType, InitInOrder, NextAllInOrder, PTL DEF Spec
-----------------------------------------------------------------------------
(***************************************************************************)
(* Nothing is missed.  A topic asked for has its request on the queue, or  *)
(* in the broker's hands, or in subs[], unless it was given up.            *)
(***************************************************************************)
Enrolled(s, t) == \E e \in 1 .. Len(subs) : subs[e].pid = s /\ InTopics(t, e)

Pending(k, s) == queue[k].kind = "subscribe" /\ queue[k].pid = s

Asked(s, t) ==
  \/ \E k \in 1 .. Len(queue) : Pending(k, s) /\ queue[k].topic = t
  \/ bpc \in {"subscribe", "enroll"} /\ msg.pid = s /\ msg.topic = t
  \/ Enrolled(s, t)
  \/ <<s, t>> \in quit

Requested ==
  Exists => \A s \in Subscribers : \A i \in 1 .. asked[s] : Asked(s, Wants[s][i])

\* What is published after the last request of s is behind its requests.
Late(k, s) ==
  queue[k].to = ToBroker /\ queue[k].kind = "send"
    /\ Position(queue[k].pid) > since[s]

Behind(s) ==
  /\ \A i, j \in 1 .. Len(queue) : Pending(i, s) /\ Late(j, s) => i < j
  /\ bpc = "send" /\ Position(msg.pid) > since[s] =>
       \A i \in 1 .. Len(queue) : ~ Pending(i, s)

\* subs[] keeps the topics of a subscriber, but for those it gives up.
LEMMA EnrolledKept ==
  ASSUME IType, IType', Next, Exists, Exists', NEW s \in Subscribers, NEW t \in Topics,
         Enrolled(s, t)
  PROVE  Enrolled(s, t)' \/ <<s, t>> \in quit'
<1>1. PICK n \in Nat, e \in Nat :
        /\ n = Len(subs) /\ DOMAIN subs = 1 .. n /\ e \in 1 .. n
        /\ subs[e].pid = s /\ InTopics(t, e)
  <2>1. subs \in Seq(Entry)
    BY TypeParts DEF IType, BrokerType
  <2>2. PICK n \in Nat : n = Len(subs) /\ DOMAIN subs = 1 .. n
    BY <2>1
  <2>3. PICK e \in 1 .. n : subs[e].pid = s /\ InTopics(t, e)
    BY <2>2 DEF Enrolled
  <2>4. e \in Nat
    OBVIOUS
  <2>. QED
    BY <2>2, <2>3, <2>4
<1>2. PICK x \in Entry, j \in Nat :
        /\ x = subs[e] /\ x.pid = s
        /\ j \in 1 .. Len(x.topics) /\ x.topics[j] = t
  <2>1. subs[e] \in Entry
    BY <1>1, TypeParts DEF IType, BrokerType
  <2>2. DOMAIN subs[e].topics = 1 .. Len(subs[e].topics)
    BY <2>1 DEF Entry
  <2>. QED
    BY <1>1, <2>1, <2>2 DEF InTopics
<1>3. x.topics \in Seq(Topics \cup {NoTopic}) /\ Len(x.topics) \in Nat
  BY DEF Entry
<1>4. subs' \in Seq(Entry) /\ DOMAIN subs' = 1 .. Len(subs')
  BY TypeParts DEF IType, BrokerType
<1>5. ASSUME e \in 1 .. Len(subs'), subs'[e].pid = s,
             j \in 1 .. Len(subs'[e].topics), subs'[e].topics[j] = t
      PROVE  Enrolled(s, t)'
  <2>1. subs'[e] \in Entry
    BY <1>4, <1>5
  <2>2. DOMAIN subs'[e].topics = 1 .. Len(subs'[e].topics)
    BY <2>1 DEF Entry
  <2>. QED
    BY <1>5, <2>2 DEF Enrolled, InTopics
<1>6. CASE subs' = subs
  BY <1>1, <1>2, <1>5, <1>6
<1>7. CASE NewEntry
  <2>1. subs' = Append(subs, [pid |-> NoPid, topics |-> <<>>])
    BY <1>7 DEF NewEntry
  <2>2. subs'[e] = subs[e] /\ e \in 1 .. Len(subs')
    BY <1>1, <1>4, <2>1
  <2>. QED
    BY <1>2, <1>5, <2>2
<1>8. CASE Enroll
  <2>1. /\ subs' = [subs EXCEPT ![Len(subs)] = [pid |-> msg.pid, topics |-> <<>>]]
        /\ bpc = "enroll"
    BY <1>8 DEF Enroll
  <2>2. subs[Len(subs)].pid = NoPid
    BY <2>1 DEF IType, Entries, Exists
  <2>3. NoPid # s
    BY BrokerAssumption DEF BrokerAssumption
  <2>4. subs'[e] = subs[e] /\ e \in 1 .. Len(subs')
    BY <1>1, <1>4, <2>1, <2>2, <2>3
  <2>. QED
    BY <1>2, <1>5, <2>4
<1>9. CASE AddTopic
  <2>1. PICK f \in 1 .. n :
          subs' = [subs EXCEPT ![f].topics = Append(@, msg.topic)]
    BY <1>1, <1>9 DEF AddTopic, EntriesOf
  <2>2. e \in 1 .. Len(subs')
    BY <1>1, <1>4, <2>1
  <2>3. CASE f # e
    <3>1. subs'[e] = subs[e]
      BY <1>1, <2>1, <2>3
    <3>. QED
      BY <1>2, <1>5, <2>2, <3>1
  <2>4. CASE f = e
    <3>1. subs'[e] = [x EXCEPT !.topics = Append(@, msg.topic)]
      BY <1>1, <1>2, <2>1, <2>4
    <3>2. subs'[e].pid = s /\ subs'[e].topics = Append(x.topics, msg.topic)
      BY <1>2, <3>1 DEF Entry
    <3>3. PICK q \in Seq(Topics \cup {NoTopic}), l \in Nat :
            q = x.topics /\ l = Len(q)
      BY <1>3
    <3>4. subs'[e] \in Entry
      BY <1>4, <2>2
    <3>5. Append(q, msg.topic) \in Seq(Topics \cup {NoTopic})
      BY <3>2, <3>3, <3>4 DEF Entry
    <3>6. msg.topic \in Topics
      BY <1>9 DEF AddTopic, IType, SoundHand, Sound
    <3>7. /\ Len(Append(q, msg.topic)) = l + 1
          /\ \A k \in 1 .. l : Append(q, msg.topic)[k] = q[k]
      BY <3>3, <3>6, AppendItems
    <3>. QED
      BY <1>2, <1>5, <2>2, <3>2, <3>3, <3>7
  <2>. QED
    BY <2>3, <2>4
<1>10. CASE Unsubscribe
  <2>1. /\ bpc = "unsubscribe" /\ Sound(msg) /\ msg.kind = "unsubscribe"
    BY <1>10 DEF Unsubscribe, IType, SoundHand
  <2>2. <<msg.pid, msg.topic>> \in quit'
    BY <2>1, HistoryGrows DEF Sound, Grows
  <2>3. CASE s = msg.pid /\ t = msg.topic
    BY <2>2, <2>3
  <2>4. CASE s # msg.pid
    <3>1. subs'[e] = subs[e] /\ e \in 1 .. Len(subs')
      BY <1>1, <1>4, <1>10, <2>4 DEF Unsubscribe
    <3>. QED
      BY <1>2, <1>5, <3>1
  <2>5. CASE s = msg.pid /\ t # msg.topic
    <3>1. /\ e \in 1 .. Len(subs')
          /\ subs'[e] = [x EXCEPT !.topics =
               [i \in DOMAIN @ |-> IF @[i] = msg.topic THEN NoTopic ELSE @[i]]]
      BY <1>1, <1>2, <1>4, <1>10, <2>5 DEF Unsubscribe
    <3>2. PICK q \in Seq(Topics \cup {NoTopic}), l \in Nat :
            q = x.topics /\ l = Len(q) /\ DOMAIN q = 1 .. l /\ j \in 1 .. l
      BY <1>2, <1>3
    <3>3. PICK r : r = [i \in 1 .. l |-> IF q[i] = msg.topic THEN NoTopic
                                         ELSE q[i]]
      OBVIOUS
    <3>4. subs'[e] = [x EXCEPT !.topics = r]
      BY <3>1, <3>2, <3>3
    <3>5. subs'[e].pid = s /\ subs'[e].topics = r
      BY <1>2, <3>4 DEF Entry
    <3>6. Len(r) = l /\ r[j] = t
      BY <1>2, <2>5, <3>2, <3>3
    <3>. QED
      BY <1>5, <3>1, <3>2, <3>5, <3>6
  <2>. QED
    BY <2>3, <2>4, <2>5
<1>11. BrokerStart \/ Receive \/ Forward \/ Pass \/ Forwarded \/ Cleanup =>
         subs' = subs
  BY DEF BrokerStart, Receive, Forward, Pass, Forwarded, Cleanup
<1>12. ASSUME NEW r \in Subscribers,
              \/ SubscriberStart(r) \/ Ask(r) \/ Deliver(r) \/ Block(r)
              \/ QueueGone(r) \/ Interrupt(r)
              \/ \E u \in Topics : SendUnsubscribe(r, u)
       PROVE  subs' = subs
  BY <1>12 DEF SubscriberStart, Ask, Deliver, Block, QueueGone, Interrupt,
               SendUnsubscribe, brokerVars
<1>13. ASSUME NEW p \in Publishers, PublisherStart(p) \/ Publish(p)
       PROVE  subs' = subs
  BY <1>13 DEF PublisherStart, Publish, brokerVars
<1>. QED
  BY <1>6, <1>7, <1>8, <1>9, <1>10, <1>11, <1>12, <1>13, Steps

\* A request that is on the queue stays there until the broker takes it.
LEMMA PendingKept ==
  ASSUME IType, IType', Next, Exists', NEW s \in Subscribers, NEW t,
         NEW k \in 1 .. Len(queue), Pending(k, s), queue[k].topic = t
  PROVE  Asked(s, t)'
<1>1. queue \in Seq(Message) /\ Len(queue) \in Nat
  BY TypeParts DEF IType, QueueType
<1>2. PICK x : x = queue[k] /\ x.kind = "subscribe" /\ x.pid = s /\ x.topic = t
  BY DEF Pending
<1>3. x.to = ToBroker
  BY <1>2 DEF IType, SoundQueue
<1>4. ASSUME NEW l \in 1 .. Len(queue'), queue'[l] = x
      PROVE  Asked(s, t)'
  BY <1>2, <1>4 DEF Asked, Pending
<1>5. CASE queue' = queue
  BY <1>2, <1>4, <1>5
<1>6. ASSUME NEW m \in Message, Queue(m)
      PROVE  Asked(s, t)'
  <2>1. /\ Len(queue') = Len(queue) + 1
        /\ \A l \in 1 .. Len(queue) : queue'[l] = queue[l]
    BY <1>1, <1>6, AppendItems DEF Queue
  <2>2. k \in 1 .. Len(queue')
    BY <1>1, <2>1
  <2>. QED
    BY <1>2, <1>4, <2>1, <2>2
<1>7. CASE Receive
  <2>1. PICK i \in 1 .. Len(queue) : TakenOut(i, ToBroker)
    BY <1>1, <1>7, Taken DEF Receive
  <2>2. CASE k = i
    <3>1. msg' = x /\ bpc' = x.kind
      BY <1>2, <1>7, <2>1, <2>2 DEF Receive, TakenOut
    <3>. QED
      BY <1>2, <3>1 DEF Asked
  <2>3. CASE k # i
    BY <1>2, <1>4, <2>1, <2>3 DEF TakenOut
  <2>. QED
    BY <2>2, <2>3
<1>8. ASSUME NEW r \in Subscribers, Deliver(r)
      PROVE  Asked(s, t)'
  <2>1. PICK i \in 1 .. Len(queue) : TakenOut(i, r)
    BY <1>1, <1>8, Taken DEF Deliver
  <2>2. k # i
    <3>1. r # ToBroker
      BY BrokerAssumption DEF BrokerAssumption
    <3>. QED
      BY <1>2, <1>3, <2>1, <3>1 DEF TakenOut
  <2>. QED
    BY <1>2, <1>4, <2>1, <2>2 DEF TakenOut
<1>. QED
  BY <1>5, <1>6, <1>7, <1>8, QueueSteps

\* A request in the broker's hands ends in subs[].
LEMMA HandedKept ==
  ASSUME IType, IType', Next, Exists', NEW s \in Subscribers, NEW t,
         bpc \in {"subscribe", "enroll"}, msg.pid = s, msg.topic = t
  PROVE  Asked(s, t)'
<1>1. CASE bpc' \in {"subscribe", "enroll"} /\ msg' = msg
  BY <1>1 DEF Asked
<1>2. CASE AddTopic
  <2>1. subs \in Seq(Entry) /\ DOMAIN subs = 1 .. Len(subs)
    BY TypeParts DEF IType, BrokerType
  <2>2. PICK e \in 1 .. Len(subs) :
          /\ subs[e].pid = s
          /\ subs' = [subs EXCEPT ![e].topics = Append(@, msg.topic)]
    BY <1>2, <2>1 DEF AddTopic, EntriesOf
  <2>3. PICK x \in Entry : x = subs[e]
    BY <2>1
  <2>4. PICK q \in Seq(Topics \cup {NoTopic}), l \in Nat :
          q = x.topics /\ l = Len(q)
    <3>1. x.topics \in Seq(Topics \cup {NoTopic}) /\ Len(x.topics) \in Nat
      BY DEF Entry
    <3>. QED
      BY <3>1
  <2>5. t \in Topics
    BY <1>2 DEF AddTopic, IType, SoundHand, Sound
  <2>6. /\ Len(Append(q, t)) = l + 1 /\ Append(q, t)[l + 1] = t
        /\ Append(q, t) \in Seq(Topics \cup {NoTopic})
    BY <2>4, <2>5, AppendItems
  <2>7. /\ e \in 1 .. Len(subs')
        /\ subs'[e] = [x EXCEPT !.topics = Append(@, t)]
    BY <2>1, <2>2, <2>3
  <2>8. subs'[e].pid = s /\ subs'[e].topics = Append(q, t)
    BY <2>2, <2>3, <2>4, <2>7 DEF Entry
  <2>9. l + 1 \in DOMAIN subs'[e].topics /\ subs'[e].topics[l + 1] = t
    BY <2>4, <2>6, <2>8
  <2>. QED
    BY <2>7, <2>8, <2>9 DEF Asked, Enrolled, InTopics
<1>3. NewEntry \/ Enroll => bpc' \in {"subscribe", "enroll"} /\ msg' = msg
  BY DEF NewEntry, Enroll
<1>4. ~ (BrokerStart \/ Receive \/ Unsubscribe \/ Forward \/ Pass \/ Forwarded)
  BY DEF BrokerStart, Receive, Unsubscribe, Forward, Pass, Forwarded
<1>5. ~ Cleanup
  BY DEF Cleanup, Exists
<1>6. ASSUME NEW r \in Subscribers,
             \/ SubscriberStart(r) \/ Ask(r) \/ Deliver(r) \/ Block(r)
             \/ QueueGone(r) \/ Interrupt(r)
             \/ \E u \in Topics : SendUnsubscribe(r, u)
      PROVE  UNCHANGED <<bpc, msg>>
  BY <1>6 DEF SubscriberStart, Ask, Deliver, Block, QueueGone, Interrupt,
              SendUnsubscribe, brokerVars
<1>7. ASSUME NEW p \in Publishers, PublisherStart(p) \/ Publish(p)
      PROVE  UNCHANGED <<bpc, msg>>
  BY <1>7 DEF PublisherStart, Publish, brokerVars
<1>. QED
  BY <1>1, <1>2, <1>3, <1>4, <1>5, <1>6, <1>7, Steps

LEMMA AskedKept ==
  ASSUME IType, IType', Next, Exists, Exists', NEW s \in Subscribers, NEW t \in Topics,
         Asked(s, t)
  PROVE  Asked(s, t)'
<1>1. CASE \E k \in 1 .. Len(queue) : Pending(k, s) /\ queue[k].topic = t
  BY <1>1, PendingKept
<1>2. CASE bpc \in {"subscribe", "enroll"} /\ msg.pid = s /\ msg.topic = t
  BY <1>2, HandedKept
<1>3. CASE Enrolled(s, t)
  BY <1>3, EnrolledKept DEF Asked
<1>4. CASE <<s, t>> \in quit
  BY <1>4, HistoryGrows DEF Grows, Asked
<1>. QED
  BY <1>1, <1>2, <1>3, <1>4 DEF Asked

LEMMA NextRequested ==
  ASSUME IType, IType', Next, Requested
  PROVE  Requested'
<1> SUFFICES ASSUME Exists', NEW s \in Subscribers, NEW i \in 1 .. asked'[s]
             PROVE  Asked(s, Wants[s][i])'
  BY DEF Requested, Asked, Enrolled, Pending, InTopics
<1>1. /\ asked \in [Subscribers -> Nat] /\ asked' \in [Subscribers -> Nat]
      /\ asked'[s] <= Len(Wants[s])
  BY TypeParts DEF IType, ProcessType
<1>2. PICK t \in Topics : t = Wants[s][i]
  <2>1. Wants[s] \in Seq(Topics)
    BY BrokerAssumption DEF BrokerAssumption
  <2>2. i \in 1 .. Len(Wants[s])
    BY <1>1, <2>1
  <2>. QED
    BY <2>1, <2>2
<1>3. CASE i \in 1 .. asked[s] /\ Exists
  <2>1. Asked(s, t)
    BY <1>2, <1>3 DEF Requested
  <2>2. Asked(s, t)'
    BY <1>3, <2>1, AskedKept
  <2>. QED
    BY <1>2, <2>2
<1>4. CASE i \notin 1 .. asked[s] /\ Ask(s)
  <2>1. PICK m : m = [to |-> ToBroker, kind |-> "subscribe", pid |-> s,
                      topic |-> Wants[s][asked[s] + 1]]
    OBVIOUS
  <2>2. m \in Message
    BY <1>4, <2>1, SentType DEF Ask
  <2>3. Exists
    BY <1>4 DEF Ask, brokerVars, Exists
  <2>4. queue' = Append(queue, m) /\ asked' = [asked EXCEPT ![s] = @ + 1]
    BY <1>4, <2>1, <2>3 DEF Ask, Queue
  <2>5. i = asked[s] + 1
    BY <1>1, <1>4, <2>4
  <2>6. queue \in Seq(Message)
    BY TypeParts DEF IType, QueueType
  <2>7. /\ Len(queue) \in Nat /\ Len(queue') = Len(queue) + 1
        /\ queue'[Len(queue) + 1] = m
    BY <2>2, <2>4, <2>6, AppendItems
  <2>8. PICK l \in 1 .. Len(queue') : queue'[l] = m
    BY <2>7
  <2>9. m.topic = t /\ m.kind = "subscribe" /\ m.pid = s
    BY <1>2, <2>1, <2>5
  <2>10. Asked(s, t)'
    BY <2>8, <2>9 DEF Asked, Pending
  <2>. QED
    BY <1>2, <2>10
<1>5. CASE BrokerStart
  <2>1. asked'[s] = 0
    BY <1>5 DEF BrokerStart, processVars, IType, BeforeStart
  <2>. QED
    BY <2>1
<1>6. ~ BrokerStart => Exists
  <2>1. ~ Exists => ~ (Receive \/ NewEntry \/ Enroll \/ AddTopic \/ Unsubscribe
                         \/ Forward \/ Pass \/ Forwarded \/ Cleanup)
    BY DEF Exists, Receive, NewEntry, Enroll, AddTopic, Unsubscribe, Forward,
           Pass, Forwarded, Cleanup
  <2>2. ASSUME NEW r \in Subscribers,
               \/ SubscriberStart(r) \/ Ask(r) \/ Deliver(r) \/ Block(r)
               \/ QueueGone(r) \/ Interrupt(r)
               \/ \E u \in Topics : SendUnsubscribe(r, u)
        PROVE  Exists
    BY <2>2 DEF SubscriberStart, Ask, Deliver, Block, QueueGone, Interrupt,
                SendUnsubscribe, brokerVars, Exists
  <2>3. ASSUME NEW p \in Publishers, PublisherStart(p) \/ Publish(p)
        PROVE  Exists
    BY <2>3 DEF PublisherStart, Publish, brokerVars, Exists
  <2>. QED
    BY <2>1, <2>2, <2>3, Steps
<1>7. Ask(s) \/ asked'[s] = asked[s]
  <2>1. ASSUME NEW r \in Subscribers, Ask(r), r # s
        PROVE  asked'[s] = asked[s]
    BY <1>1, <2>1 DEF Ask
  <2>2. ASSUME NEW r \in Subscribers,
               \/ SubscriberStart(r) \/ Deliver(r) \/ Block(r)
               \/ QueueGone(r) \/ Interrupt(r)
               \/ \E u \in Topics : SendUnsubscribe(r, u)
        PROVE  asked'[s] = asked[s]
    BY <2>2 DEF SubscriberStart, Deliver, Block, QueueGone, Interrupt,
                SendUnsubscribe, processVars
  <2>3. ASSUME NEW p \in Publishers, PublisherStart(p) \/ Publish(p)
        PROVE  asked'[s] = asked[s]
    BY <2>3 DEF PublisherStart, Publish
  <2>4. ASSUME BrokerStart \/ Receive \/ NewEntry \/ Enroll \/ AddTopic
                 \/ Unsubscribe \/ Forward \/ Pass \/ Forwarded \/ Cleanup
        PROVE  asked'[s] = asked[s]
    BY <2>4 DEF BrokerStart, Receive, NewEntry, Enroll, AddTopic, Unsubscribe,
                Forward, Pass, Forwarded, Cleanup, processVars
  <2>. QED
    BY <2>1, <2>2, <2>3, <2>4, Steps
<1>. QED
  BY <1>3, <1>4, <1>5, <1>6, <1>7

\* since changes for the one that asks.
LEMMA SinceKept ==
  ASSUME IType, Next, NEW s \in Subscribers, ~ Ask(s)
  PROVE  since'[s] = since[s]
<1>1. ASSUME NEW r \in Subscribers, Ask(r)
      PROVE  since'[s] = since[s]
  <2>1. since' = [since EXCEPT ![r] = Len(published)] /\ r # s
    BY <1>1 DEF Ask
  <2>2. since \in [Subscribers -> 0 .. Len(published)]
    BY TypeParts DEF IType, HistoryType
  <2>. QED
    BY <2>1, <2>2
<1>2. ASSUME NEW r \in Subscribers,
             \/ SubscriberStart(r) \/ Deliver(r) \/ Block(r)
             \/ QueueGone(r) \/ Interrupt(r)
             \/ \E u \in Topics : SendUnsubscribe(r, u)
      PROVE  since' = since
  BY <1>2 DEF SubscriberStart, Deliver, Block, QueueGone, Interrupt,
              SendUnsubscribe, history
<1>3. ASSUME NEW p \in Publishers, PublisherStart(p) \/ Publish(p)
      PROVE  since' = since
  BY <1>3 DEF PublisherStart, Publish, history
<1>4. BrokerStart \/ Receive \/ NewEntry \/ Enroll \/ AddTopic \/ Unsubscribe
        \/ Forward \/ Pass \/ Forwarded \/ Cleanup => since' = since
  BY DEF BrokerStart, Receive, NewEntry, Enroll, AddTopic, Unsubscribe,
         Forward, Pass, Forwarded, Cleanup, history
<1>. QED
  BY <1>1, <1>2, <1>3, <1>4, Steps

\* What the broker has in its hands to forward it got by Receive.
LEMMA HandSteps ==
  ASSUME Next, ~ Receive, bpc' = "send"
  PROVE  bpc = "send" /\ msg' = msg
<1>1. BrokerStart \/ NewEntry \/ Enroll \/ AddTopic \/ Unsubscribe
        \/ Forwarded \/ Cleanup => bpc' # "send"
  BY DEF BrokerStart, NewEntry, Enroll, AddTopic, Unsubscribe, Forwarded,
         Cleanup
<1>2. Forward \/ Pass => bpc = "send" /\ msg' = msg
  BY DEF Forward, Pass
<1>3. ASSUME NEW r \in Subscribers,
             \/ SubscriberStart(r) \/ Ask(r) \/ Deliver(r) \/ Block(r)
             \/ QueueGone(r) \/ Interrupt(r)
             \/ \E u \in Topics : SendUnsubscribe(r, u)
      PROVE  bpc = "send" /\ msg' = msg
  BY <1>3 DEF SubscriberStart, Ask, Deliver, Block, QueueGone, Interrupt,
              SendUnsubscribe, brokerVars
<1>4. ASSUME NEW p \in Publishers, PublisherStart(p) \/ Publish(p)
      PROVE  bpc = "send" /\ msg' = msg
  BY <1>4 DEF PublisherStart, Publish, brokerVars
<1>. QED
  BY <1>1, <1>2, <1>3, <1>4, Steps

\* Only the subscriber itself puts a request of its own on the queue.
LEMMA NobodyElseAsks ==
  ASSUME IType, Next, NEW s \in Subscribers, ~ Ask(s),
         NEW m \in Message, queue' = Append(queue, m), ~ Receive,
         \A r \in Subscribers : ~ Deliver(r)
  PROVE  ~ (m.kind = "subscribe" /\ m.pid = s)
<1>1. queue \in Seq(Message)
  BY TypeParts DEF IType, QueueType
<1>2. /\ Len(queue) \in Nat /\ queue' # queue /\ queue' # <<>>
      /\ queue'[Len(queue) + 1] = m
  BY <1>1, AppendItems
<1>3. ASSUME NEW x \in Message, Queue(x)
      PROVE  x = m
  <2>1. queue' = Append(queue, x)
    BY <1>3 DEF Queue
  <2>2. queue'[Len(queue) + 1] = x
    BY <1>1, <2>1, AppendItems
  <2>. QED
    BY <1>2, <2>2
<1>4. ASSUME NEW r \in Subscribers, Ask(r)
      PROVE  m.pid # s
  <2>1. PICK x : x = [to |-> ToBroker, kind |-> "subscribe", pid |-> r,
                      topic |-> Wants[r][asked[r] + 1]]
    OBVIOUS
  <2>2. x \in Message
    BY <1>4, <2>1, SentType DEF Ask
  <2>3. Queue(x)
    BY <1>2, <1>4, <2>1 DEF Ask
  <2>4. m.pid = r
    BY <1>3, <2>1, <2>2, <2>3
  <2>. QED
    BY <1>4, <2>4
<1>5. ASSUME NEW p \in Publishers, Publish(p)
      PROVE  m.kind # "subscribe"
  <2>1. PICK x : x = [to |-> ToBroker, kind |-> "send", pid |-> p,
                      topic |-> Posts[p]]
    OBVIOUS
  <2>2. x \in Message
    BY <2>1, SentType
  <2>3. Queue(x)
    BY <1>2, <1>5, <2>1 DEF Publish
  <2>. QED
    BY <1>3, <2>1, <2>2, <2>3
<1>6. ASSUME NEW r \in Subscribers, NEW t \in Topics, SendUnsubscribe(r, t)
      PROVE  m.kind # "subscribe"
  <2>1. PICK x : x = [to |-> ToBroker, kind |-> "unsubscribe", pid |-> r,
                      topic |-> t]
    OBVIOUS
  <2>2. x \in Message
    BY <2>1, SentType
  <2>3. Queue(x)
    BY <1>6, <2>1 DEF SendUnsubscribe
  <2>. QED
    BY <1>3, <2>1, <2>2, <2>3
<1>7. ASSUME Forward
      PROVE  m.kind # "subscribe"
  <2>1. /\ bpc = "send" /\ turn \in DOMAIN subs
        /\ Queue([msg EXCEPT !.to = subs[turn].pid])
    BY <1>7 DEF Forward
  <2>2. subs \in Seq(Entry) /\ msg \in Message
    BY TypeParts DEF IType, BrokerType
  <2>3. PICK x \in Message : x = [msg EXCEPT !.to = subs[turn].pid]
    BY <2>1, <2>2, SentType
  <2>4. x = m /\ x.kind = msg.kind
    BY <1>3, <2>1, <2>2, <2>3 DEF Message
  <2>5. msg.kind = "send"
    BY <2>1 DEF IType, SoundHand
  <2>. QED
    BY <2>4, <2>5
<1>8. BrokerStart \/ NewEntry \/ Enroll \/ AddTopic \/ Unsubscribe \/ Pass
        \/ Forwarded \/ Cleanup => queue' = queue \/ queue' = <<>>
  BY DEF BrokerStart, NewEntry, Enroll, AddTopic, Unsubscribe, Pass, Forwarded,
         Cleanup
<1>9. ASSUME NEW r \in Subscribers,
             SubscriberStart(r) \/ Block(r) \/ QueueGone(r) \/ Interrupt(r)
      PROVE  queue' = queue
  BY <1>9 DEF SubscriberStart, Block, QueueGone, Interrupt
<1>10. ASSUME NEW p \in Publishers, PublisherStart(p)
       PROVE  queue' = queue
  BY <1>10 DEF PublisherStart
<1>. QED
  BY <1>2, <1>4, <1>5, <1>6, <1>7, <1>8, <1>9, <1>10, Steps

\* A message that was on the queue, and is there still.
LEMMA SameMessage ==
  ASSUME IType, IType', Next, NEW s \in Subscribers, since'[s] = since[s],
         NEW k \in 1 .. Len(queue), NEW l \in 1 .. Len(queue'),
         queue'[l] = queue[k]
  PROVE  /\ Pending(l, s)' => Pending(k, s)
         /\ Late(l, s)' => Late(k, s)
<1>1. PICK x : x = queue[k] /\ x = queue'[l]
  OBVIOUS
<1>2. x.kind = "send" => Position(x.pid)' = Position(x.pid)
  <2>1. x.kind = "send" => InPublished(x.pid)
    BY <1>1 DEF IType, SoundQueue, Sound
  <2>. QED
    BY <2>1, HistoryGrows, WhereInPublished
<1>. QED
  BY <1>1, <1>2 DEF Pending, Late

LEMMA NextBehind ==
  ASSUME IType, IType', Next, NEW s \in Subscribers, Behind(s)
  PROVE  Behind(s)'
<1>1. /\ queue \in Seq(Message) /\ Len(queue) \in Nat
      /\ Grows
  BY HistoryGrows, TypeParts DEF IType, QueueType
<1>2. CASE Ask(s)
  <2>1. /\ published' = published /\ UNCHANGED brokerVars
        /\ since' = [since EXCEPT ![s] = Len(published)]
    BY <1>2 DEF Ask
  <2>2. since'[s] = Len(published') /\ Len(published') \in Nat
    BY <1>1, <2>1, TypeParts DEF IType, HistoryType, Grows
  <2>3. \A p : InPublished(p)' => ~ (Position(p)' > since'[s])
    <3> SUFFICES ASSUME NEW p, InPublished(p)'
                 PROVE  ~ (Position(p)' > since'[s])
      OBVIOUS
    <3>1. PICK k \in 1 .. Len(published') : published'[k] = p
      BY DEF InPublished
    <3>2. Position(p)' = k
      BY <1>1, <3>1, WhereInPublished
    <3>. QED
      BY <2>2, <3>2
  <2>4. \A k \in 1 .. Len(queue') : ~ Late(k, s)'
    <3> SUFFICES ASSUME NEW k \in 1 .. Len(queue'), queue'[k].kind = "send"
                 PROVE  ~ (Position(queue[k].pid)' > since'[s])
      BY DEF Late
    <3>1. PICK p : p = queue'[k].pid
      OBVIOUS
    <3>2. InPublished(p)'
      BY <3>1 DEF IType, SoundQueue, Sound
    <3>3. ~ (Position(p)' > since'[s])
      BY <2>3, <3>2
    <3>. QED
      BY <3>1, <3>3 DEF Position
  <2>5. bpc' = "send" => ~ (Position(msg.pid)' > since'[s])
    <3> SUFFICES ASSUME bpc' = "send"
                 PROVE  ~ (Position(msg.pid)' > since'[s])
      OBVIOUS
    <3>1. PICK p : p = msg'.pid
      OBVIOUS
    <3>2. InPublished(p)'
      BY <3>1 DEF IType, SoundHand, Sound
    <3>3. ~ (Position(p)' > since'[s])
      BY <2>3, <3>2
    <3>. QED
      BY <3>1, <3>3 DEF Position
  <2>. QED
    BY <2>4, <2>5 DEF Behind
<1>3. CASE ~ Ask(s) /\ ~ Receive /\ (\A r \in Subscribers : ~ Deliver(r))
           /\ queue' # <<>>
  <2>1. since'[s] = since[s]
    BY <1>3, SinceKept
  <2>2. ASSUME NEW k \in 1 .. Len(queue')
        PROVE  \/ k \in 1 .. Len(queue) /\ queue'[k] = queue[k]
               \/ k = Len(queue) + 1 /\ ~ Pending(k, s)'
    <3>1. CASE queue' = queue
      BY <3>1
    <3>2. ASSUME NEW m \in Message, Queue(m)
          PROVE  \/ k \in 1 .. Len(queue) /\ queue'[k] = queue[k]
                 \/ k = Len(queue) + 1 /\ ~ Pending(k, s)'
      <4>1. queue' = Append(queue, m)
        BY <3>2 DEF Queue
      <4>2. /\ Len(queue') = Len(queue) + 1
            /\ \A l \in 1 .. Len(queue) : queue'[l] = queue[l]
            /\ queue'[Len(queue) + 1] = m
        BY <1>1, <4>1, AppendItems
      <4>3. ~ (m.kind = "subscribe" /\ m.pid = s)
        BY <1>3, <4>1, NobodyElseAsks
      <4>4. k \in 1 .. Len(queue) \/ k = Len(queue) + 1
        BY <1>1, <4>2
      <4>. QED
        BY <4>2, <4>3, <4>4 DEF Pending
    <3>. QED
      BY <1>3, <3>1, <3>2, QueueSteps
  <2>3. ASSUME NEW k \in 1 .. Len(queue')
        PROVE  /\ k \in 1 .. Len(queue) => (Pending(k, s)' => Pending(k, s))
                                            /\ (Late(k, s)' => Late(k, s))
               /\ \/ k \in 1 .. Len(queue)
                  \/ k = Len(queue) + 1 /\ ~ Pending(k, s)'
    <3>1. CASE k \in 1 .. Len(queue) /\ queue'[k] = queue[k]
      BY <2>1, <3>1, SameMessage
    <3>2. CASE k = Len(queue) + 1 /\ ~ Pending(k, s)'
      <4>1. k \notin 1 .. Len(queue)
        BY <1>1, <3>2
      <4>. QED
        BY <3>2, <4>1
    <3>. QED
      BY <2>2, <3>1, <3>2
  <2>4. ASSUME NEW i \in 1 .. Len(queue'), NEW j \in 1 .. Len(queue'),
               Pending(i, s)', Late(j, s)'
        PROVE  i < j
    <3>1. i \in 1 .. Len(queue) /\ Pending(i, s)
      BY <2>3, <2>4
    <3>2. CASE j \in 1 .. Len(queue)
      BY <2>3, <2>4, <3>1, <3>2 DEF Behind
    <3>3. CASE j = Len(queue) + 1
      BY <1>1, <3>1, <3>3
    <3>. QED
      BY <2>3, <3>2, <3>3
  <2>5. ASSUME bpc' = "send", Position(msg.pid)' > since'[s],
               NEW k \in 1 .. Len(queue')
        PROVE  ~ Pending(k, s)'
    <3>1. bpc = "send" /\ msg' = msg
      BY <1>3, <2>5, HandSteps
    <3>2. PICK p : p = msg.pid /\ p = msg'.pid
      BY <3>1
    <3>3. Position(p)' = Position(p) /\ Position(msg.pid)' = Position(p)'
      <4>1. InPublished(p)
        BY <3>1, <3>2 DEF IType, SoundHand, Sound
      <4>. QED
        BY <1>1, <3>2, <4>1, WhereInPublished DEF Position
    <3>4. Position(msg.pid) > since[s]
      BY <2>1, <2>5, <3>2, <3>3
    <3>. QED
      BY <2>3, <3>1, <3>4 DEF Behind
  <2>. QED
    BY <2>4, <2>5 DEF Behind
<1>4. CASE queue' = <<>>
  BY <1>4 DEF Behind
<1>5. CASE Receive /\ ~ Ask(s)
  <2>1. since'[s] = since[s]
    BY <1>5, SinceKept
  <2>2. PICK i \in 1 .. Len(queue) : TakenOut(i, ToBroker)
    BY <1>1, <1>5, Taken DEF Receive
  <2>3. ASSUME NEW k \in 1 .. Len(queue')
        PROVE  /\ Old(i, k) \in 1 .. Len(queue)
               /\ Pending(k, s)' => Pending(Old(i, k), s)
               /\ Late(k, s)' => Late(Old(i, k), s)
    <3>1. Old(i, k) \in 1 .. Len(queue) /\ queue'[k] = queue[Old(i, k)]
      BY <2>2 DEF TakenOut
    <3>. QED
      BY <2>1, <3>1, SameMessage
  <2>4. ASSUME NEW a \in 1 .. Len(queue'), NEW b \in 1 .. Len(queue'),
               Pending(a, s)', Late(b, s)'
        PROVE  a < b
    <3>1. Old(i, a) < Old(i, b)
      BY <2>3, <2>4 DEF Behind
    <3>2. a \in Nat /\ b \in Nat /\ i \in Nat
      OBVIOUS
    <3>. QED
      BY <3>1, <3>2 DEF Old
  <2>5. ASSUME bpc' = "send", Position(msg.pid)' > since'[s],
               NEW k \in 1 .. Len(queue'), Pending(k, s)'
        PROVE  FALSE
    <3>1. PICK x : x = queue[i] /\ x = msg' /\ x.kind = bpc' /\ x.to = ToBroker
      BY <1>5, <2>2 DEF Receive, TakenOut
    <3>2. PICK p : p = x.pid
      OBVIOUS
    <3>3. InPublished(p)
      BY <2>5, <3>1, <3>2 DEF IType, SoundQueue, Sound
    <3>4. Position(p)' = Position(p) /\ Position(msg.pid)' = Position(p)'
      <4>1. Position(p)' = Position(p)
        BY <1>1, <3>3, WhereInPublished
      <4>2. msg'.pid = p
        BY <3>1, <3>2
      <4>3. Position(msg.pid)' = Position(p)'
        BY <4>2 DEF Position
      <4>. QED
        BY <4>1, <4>3
    <3>5. Late(i, s)
      BY <2>1, <2>5, <3>1, <3>2, <3>4 DEF Late
    <3>6. Old(i, k) \in 1 .. Len(queue) /\ Pending(Old(i, k), s)
      BY <2>3, <2>5
    <3>7. Old(i, k) < i
      BY <3>5, <3>6 DEF Behind
    <3>8. queue[Old(i, k)].to = ToBroker
      BY <3>6 DEF IType, SoundQueue, Pending
    <3>9. i <= Old(i, k)
      BY <2>2, <3>6, <3>8 DEF TakenOut
    <3>10. i \in Nat /\ Old(i, k) \in Nat
      BY <3>6
    <3>. QED
      BY <3>7, <3>9, <3>10
  <2>. QED
    BY <2>4, <2>5 DEF Behind
<1>6. ASSUME NEW r \in Subscribers, Deliver(r), ~ Ask(s)
      PROVE  Behind(s)'
  <2>1. since'[s] = since[s]
    BY <1>6, SinceKept
  <2>2. PICK i \in 1 .. Len(queue) : TakenOut(i, r)
    BY <1>1, <1>6, Taken DEF Deliver
  <2>3. ASSUME NEW k \in 1 .. Len(queue')
        PROVE  /\ Old(i, k) \in 1 .. Len(queue)
               /\ Pending(k, s)' => Pending(Old(i, k), s)
               /\ Late(k, s)' => Late(Old(i, k), s)
    <3>1. Old(i, k) \in 1 .. Len(queue) /\ queue'[k] = queue[Old(i, k)]
      BY <2>2 DEF TakenOut
    <3>. QED
      BY <2>1, <3>1, SameMessage
  <2>4. ASSUME NEW a \in 1 .. Len(queue'), NEW b \in 1 .. Len(queue'),
               Pending(a, s)', Late(b, s)'
        PROVE  a < b
    <3>1. Old(i, a) < Old(i, b)
      BY <2>3, <2>4 DEF Behind
    <3>2. a \in Nat /\ b \in Nat /\ i \in Nat
      OBVIOUS
    <3>. QED
      BY <3>1, <3>2 DEF Old
  <2>5. ASSUME bpc' = "send", Position(msg.pid)' > since'[s],
               NEW k \in 1 .. Len(queue'), Pending(k, s)'
        PROVE  FALSE
    <3>1. bpc = "send" /\ msg' = msg
      BY <1>6, <2>5 DEF Deliver, brokerVars
    <3>2. PICK p : p = msg.pid /\ p = msg'.pid
      BY <3>1
    <3>3. Position(p)' = Position(p) /\ Position(msg.pid)' = Position(p)'
      <4>1. InPublished(p)
        BY <3>1, <3>2 DEF IType, SoundHand, Sound
      <4>. QED
        BY <1>1, <3>2, <4>1, WhereInPublished DEF Position
    <3>4. Position(msg.pid) > since[s]
      BY <2>1, <2>5, <3>2, <3>3
    <3>. QED
      BY <2>3, <2>5, <3>1, <3>4 DEF Behind
  <2>. QED
    BY <2>4, <2>5 DEF Behind
<1>. QED
  BY <1>2, <1>3, <1>4, <1>5, <1>6

\* A publication that s is owed stays in the broker's hands until the turn of
\* the entry of s comes: by then the entry is there.
LEMMA StillInHand ==
  ASSUME IType, Next, NEW s \in Subscribers, Requested, Behind(s),
         Exists, spc[s] \in {"listen", "blocked"}, Pass \/ Forwarded,
         InHand(s), Position(msg.pid) > since[s], <<s, msg.topic>> \notin quit
  PROVE  InHand(s)' /\ msg' = msg
<1>1. /\ bpc = "send" /\ msg.topic \in Wanted(s)
      /\ \A i \in EntriesOf(s) : turn <= i
  BY DEF InHand
<1>2. PICK t : t = msg.topic
  OBVIOUS
<1>3. Asked(s, t)
  <2>1. DOMAIN Wants[s] = 1 .. Len(Wants[s]) /\ asked[s] = Len(Wants[s])
    BY BrokerAssumption DEF BrokerAssumption, IType, Requests
  <2>2. PICK j \in 1 .. asked[s] : Wants[s][j] = t
    BY <1>1, <1>2, <2>1 DEF Wanted
  <2>3. Asked(s, Wants[s][j])
    BY <2>2 DEF Requested
  <2>. QED
    BY <2>2, <2>3
<1>4. \A k \in 1 .. Len(queue) : ~ Pending(k, s)
  BY <1>1 DEF Behind
<1>5. Enrolled(s, t)
  BY <1>1, <1>2, <1>3, <1>4 DEF Asked
<1>6. PICK n \in Nat : n = Len(subs) /\ DOMAIN subs = 1 .. n
  BY TypeParts DEF IType, BrokerType
<1>7. turn \in 1 .. n + 1
  BY <1>6, TypeParts DEF IType, BrokerType
<1>8. PICK e \in 1 .. n : subs[e].pid = s /\ InTopics(t, e)
  BY <1>5, <1>6 DEF Enrolled
<1>9. turn <= e
  BY <1>1, <1>6, <1>8 DEF EntriesOf
<1>10. Pass /\ turn # e
  <2>1. turn \in 1 .. n
    BY <1>7, <1>8, <1>9
  <2>2. ~ Forwarded
    BY <1>6, <2>1 DEF Forwarded
  <2>3. Pass
    BY <2>2
  <2>. QED
    BY <1>2, <1>8, <2>3 DEF Pass
<1>11. /\ turn' = turn + 1 /\ subs' = subs /\ bpc' = bpc /\ msg' = msg
  BY <1>10 DEF Pass
<1>12. \A i \in EntriesOf(s) : i = e
  BY <1>6, <1>8 DEF IType, Entries, EntriesOf
<1>13. turn + 1 <= e
  BY <1>7, <1>9, <1>10
<1>14. \A i \in EntriesOf(s)' : turn' <= i
  <2>1. EntriesOf(s)' = EntriesOf(s)
    BY <1>11 DEF EntriesOf
  <2>. QED
    BY <1>11, <1>12, <1>13, <2>1
<1>. QED
  BY <1>1, <1>11, <1>14 DEF InHand, Wanted

\* What a subscriber that listens is owed of the publications: those of its
\* topics since its last request, but for topics given up.
Owed(i, s) ==
  /\ Exists /\ spc[s] \in {"listen", "blocked"}
  /\ i > since[s] /\ Posts[published[i]] \in Wanted(s)
  /\ <<s, Posts[published[i]]>> \notin quit

Served(s) ==
  \A i \in 1 .. Len(published) :
    Owed(i, s) => \E a \in Way(s) : a[3] = published[i]

\* What was published keeps on its way.
LEMMA OwedKept ==
  ASSUME IType, IType', Next, ~ Cleanup, NEW s \in Subscribers,
         Requested, Behind(s), NEW i \in 1 .. Len(published), Owed(i, s),
         NEW a \in Way(s), a[3] = published[i]
  PROVE  \E b \in Way(s)' : b[3] = a[3]
<1>1. Grows
  BY HistoryGrows
<1>2. CASE QuietStep
  <2>1. \A c \in Way(s) : c \in Way(s)'
    BY <1>2, QuietSteps, RequestsAside
  <2>. QED
    BY <2>1
<1>3. CASE Pass \/ Forwarded
  <2>1. CASE InHand(s) /\ a = <<3, 1, msg.pid>>
    <3>1. msg.pid = published[i]
      BY <2>1
    <3>2. Position(msg.pid) = i
      BY <1>1, <3>1, WhereInPublished
    <3>3. msg.topic = Posts[msg.pid]
      BY <2>1 DEF InHand, IType, SoundHand, Sound
    <3>4. InHand(s)' /\ msg' = msg
      BY <1>3, <2>1, <3>1, <3>2, <3>3, StillInHand DEF Owed
    <3>5. a = <<3, 1, msg'.pid>>
      BY <2>1, <3>4
    <3>6. a \in Way(s)'
      BY <3>4, <3>5, WayItems
    <3>. QED
      BY <3>6
  <2>2. CASE ~ (InHand(s) /\ a = <<3, 1, msg.pid>>)
    <3>1. queue' = queue /\ received' = received
      BY <1>3 DEF Pass, Forwarded, history
    <3>2. \A k : Coming(k, s)' <=> Coming(k, s)
      BY <3>1 DEF Coming, Wanted
    <3>3. a \in Way(s)'
      BY <2>2, <3>1, <3>2, WayItems
    <3>. QED
      BY <3>3
  <2>. QED
    BY <2>1, <2>2
<1>4. CASE Receive
  BY <1>1, <1>4, ReceiveMoves DEF Kept
<1>5. CASE Forward
  BY <1>1, <1>5, ForwardMoves DEF Kept
<1>6. ASSUME NEW r \in Subscribers, Deliver(r)
      PROVE  \E b \in Way(s)' : b[3] = a[3]
  BY <1>1, <1>6, DeliverMoves DEF Kept
<1>7. ASSUME NEW p \in Publishers, Publish(p), Exists
      PROVE  \E b \in Way(s)' : b[3] = a[3]
  BY <1>1, <1>7, PublishMoves DEF Kept
<1>. QED
  BY <1>2, <1>3, <1>4, <1>5, <1>6, <1>7, WaySteps

\* Who listens after a step and made no request in it listened before it.
LEMMA ListensBefore ==
  ASSUME IType, Next, NEW s \in Subscribers, ~ Ask(s), Exists',
         spc'[s] \in {"listen", "blocked"}
  PROVE  Exists /\ ~ Cleanup /\ spc[s] \in {"listen", "blocked"}
<1>1. spc \in [Subscribers -> {"off", "subscribe", "listen", "blocked", "ended"}]
  BY TypeParts DEF IType, ProcessType
<1>2. ~ Cleanup
  BY DEF Cleanup, Exists
<1>3. spc[s] \in {"listen", "blocked"}
  <2>1. ASSUME NEW r \in Subscribers, Ask(r)
        PROVE  spc'[s] = spc[s]
    BY <1>1, <2>1 DEF Ask
  <2>2. ASSUME NEW r \in Subscribers,
               \/ SubscriberStart(r) \/ Deliver(r) \/ Block(r)
               \/ QueueGone(r) \/ Interrupt(r)
               \/ \E u \in Topics : SendUnsubscribe(r, u)
        PROVE  spc[s] \in {"listen", "blocked"}
    BY <1>1, <2>2 DEF SubscriberStart, Deliver, Block, QueueGone, Interrupt,
                      SendUnsubscribe, processVars
  <2>3. ASSUME NEW p \in Publishers, PublisherStart(p) \/ Publish(p)
        PROVE  spc' = spc
    BY <2>3 DEF PublisherStart, Publish
  <2>4. BrokerStart \/ Receive \/ NewEntry \/ Enroll \/ AddTopic \/ Unsubscribe
          \/ Forward \/ Pass \/ Forwarded => spc' = spc
    BY DEF BrokerStart, Receive, NewEntry, Enroll, AddTopic, Unsubscribe,
           Forward, Pass, Forwarded, processVars
  <2>. QED
    BY <1>2, <2>1, <2>2, <2>3, <2>4, Steps
<1>4. Exists
  <2>1. bpc # "gone"
    <3> SUFFICES ASSUME bpc = "gone"
                 PROVE  FALSE
      OBVIOUS
    <3>1. ~ BrokerStart /\ ~ BrokerStep /\ ~ Cleanup
      BY DEF BrokerStep, Receive, NewEntry, Enroll, AddTopic, Unsubscribe,
             Forward, Pass, Forwarded, BrokerStart, Cleanup, Exists
    <3>2. ASSUME NEW r \in Subscribers,
                 \/ SubscriberStart(r) \/ Ask(r) \/ Deliver(r) \/ Block(r)
                 \/ QueueGone(r) \/ Interrupt(r)
                 \/ \E u \in Topics : SendUnsubscribe(r, u)
          PROVE  bpc' = bpc
      BY <3>2 DEF SubscriberStart, Ask, Deliver, Block, QueueGone, Interrupt,
                  SendUnsubscribe, brokerVars
    <3>3. ASSUME NEW p \in Publishers, PublisherStart(p) \/ Publish(p)
          PROVE  bpc' = bpc
      BY <3>3 DEF PublisherStart, Publish, brokerVars
    <3>. QED
      BY <3>1, <3>2, <3>3 DEF Next, SubscriberStep, Exists
  <2>2. bpc # "off"
    BY <1>3 DEF IType, BeforeStart
  <2>. QED
    BY <2>1, <2>2 DEF Exists
<1>. QED
  BY <1>2, <1>3, <1>4

LEMMA NextServed ==
  ASSUME IType, IType', Next, NEW s \in Subscribers, Requested, Behind(s),
         Served(s)
  PROVE  Served(s)'
<1>1. Grows
  BY HistoryGrows
<1>2. CASE Ask(s)
  <2>1. since' = [since EXCEPT ![s] = Len(published)] /\ published' = published
    BY <1>2 DEF Ask
  <2>2. since'[s] = Len(published') /\ Len(published') \in Nat
    BY <1>1, <2>1, TypeParts DEF IType, HistoryType, Grows
  <2>. QED
    BY <2>2 DEF Served, Owed
<1>3. CASE ~ Ask(s)
  <2> SUFFICES ASSUME NEW i \in 1 .. Len(published'), Owed(i, s)'
               PROVE  \E b \in Way(s)' : b[3] = published'[i]
    BY DEF Served
  <2>1. since'[s] = since[s]
    BY <1>3, SinceKept
  <2>2. Exists /\ ~ Cleanup /\ spc[s] \in {"listen", "blocked"}
    BY <1>3, ListensBefore DEF Owed
  <2>3. CASE i \in 1 .. Len(published)
    <3>1. published'[i] = published[i] /\ quit \subseteq quit'
      BY <1>1, <2>3 DEF Grows
    <3>2. Owed(i, s)
      BY <2>1, <2>2, <3>1 DEF Owed, Wanted
    <3>3. PICK a \in Way(s) : a[3] = published[i]
      BY <2>3, <3>2 DEF Served
    <3>4. \E b \in Way(s)' : b[3] = a[3]
      BY <2>2, <2>3, <3>2, <3>3, OwedKept
    <3>. QED
      BY <3>1, <3>3, <3>4
  <2>4. CASE i \notin 1 .. Len(published)
    <3>1. published' # published
      BY <2>4
    <3>2. PICK p \in Publishers : Publish(p)
      <4>1. UNCHANGED published \/ \E p \in Publishers : Publish(p)
        <5>1. ASSUME NEW r \in Subscribers,
                     \/ SubscriberStart(r) \/ Ask(r) \/ Deliver(r) \/ Block(r)
                     \/ QueueGone(r) \/ Interrupt(r)
                     \/ \E u \in Topics : SendUnsubscribe(r, u)
              PROVE  published' = published
          BY <5>1 DEF SubscriberStart, Ask, Deliver, Block, QueueGone,
                      Interrupt, SendUnsubscribe, history
        <5>2. ASSUME NEW p \in Publishers, PublisherStart(p)
              PROVE  published' = published
          BY <5>2 DEF PublisherStart, history
        <5>3. BrokerStart \/ Receive \/ NewEntry \/ Enroll \/ AddTopic
                \/ Unsubscribe \/ Forward \/ Pass \/ Forwarded \/ Cleanup
                => published' = published
          BY DEF BrokerStart, Receive, NewEntry, Enroll, AddTopic, Unsubscribe,
                 Forward, Pass, Forwarded, Cleanup, history
        <5>. QED
          BY <5>1, <5>2, <5>3, Steps
      <4>. QED
        BY <3>1, <4>1
    <3>3. published' = Append(published, p)
      BY <2>2, <3>2 DEF Publish
    <3>4. published \in Seq(Publishers) /\ Len(published) \in Nat
      BY TypeParts DEF IType, HistoryType
    <3>5. i = Len(published) + 1 /\ published'[i] = p
      BY <2>4, <3>3, <3>4, AppendItems
    <3>6. Posts[p] \in Wanted(s)
      BY <3>5 DEF Owed, Wanted
    <3>. QED
      BY <1>1, <2>2, <3>2, <3>5, <3>6, PublishMoves
  <2>. QED
    BY <2>3, <2>4
<1>. QED
  BY <1>2, <1>3

AllServed ==
  Requested /\ \A s \in Subscribers : Behind(s) /\ Served(s)

LEMMA InitServed == Init => AllServed
<1> SUFFICES ASSUME Init
             PROVE  AllServed
  OBVIOUS
<1>1. /\ queue = <<>> /\ published = <<>> /\ bpc = "off"
  BY DEF Init
<1>2. Len(queue) = 0 /\ Len(published) = 0
  BY <1>1
<1>. QED
  BY <1>1, <1>2 DEF AllServed, Requested, Exists, Behind, Served

LEMMA NextAllServed == IType /\ AllServed /\ [Next]_vars => AllServed'
<1> SUFFICES ASSUME IType, AllServed, [Next]_vars
             PROVE  AllServed'
  OBVIOUS
<1>1. IType'
  BY NextType
<1>2. CASE Next
  <2>1. Requested'
    BY <1>1, <1>2, NextRequested DEF AllServed
  <2>2. ASSUME NEW s \in Subscribers
        PROVE  Behind(s)' /\ Served(s)'
    <3>1. Requested /\ Behind(s) /\ Served(s)
      BY DEF AllServed
    <3>. QED
      BY <1>1, <1>2, <3>1, NextBehind, NextServed
  <2>. QED
    BY <2>1, <2>2 DEF AllServed
<1>3. CASE UNCHANGED vars
  <2>1. UNCHANGED <<queue, bpc, msg, turn, subs, spc, asked, published,
                    received, since, quit>>
    BY <1>3 DEF vars, brokerVars, processVars, history
  <2>2. Requested'
    BY <2>1 DEF AllServed, Requested, Exists, Asked, Pending, Enrolled, InTopics
  <2>3. ASSUME NEW s \in Subscribers
        PROVE  Behind(s)' /\ Served(s)'
    <3>1. Way(s)' = Way(s)
      BY <2>1 DEF Way, InHand, Coming, EntriesOf, Wanted
    <3>2. Behind(s)'
      BY <2>1 DEF AllServed, Behind, Pending, Late, Position
    <3>3. Served(s)'
      BY <2>1, <3>1 DEF AllServed, Served, Owed, Exists, Wanted
    <3>. QED
      BY <3>2, <3>3
  <2>. QED
    BY <2>2, <2>3 DEF AllServed
<1>. QED
  BY <1>2, <1>3

\* NothingMissed: a subscriber that listens has got, or is still to get, every
\* publication of its topics since its last request.  Its requests are ahead
\* of the publication on the one queue, so that its entry in subs[] holds the
\* topic when the loop over subs[] comes by (task2.c:76-84, 104-108).
THEOREM NothingIsMissed == Spec => []NothingMissed
<1>1. IType /\ AllServed => NothingMissed
  <2> SUFFICES ASSUME IType, AllServed, NEW s \in Subscribers,
                      Exists, spc[s] \in {"listen", "blocked"},
                      NEW i \in since[s] + 1 .. Len(published),
                      Posts[published[i]] \in Wanted(s),
                      <<s, Posts[published[i]]>> \notin quit
               PROVE  \E a \in Way(s) : a[3] = published[i]
    BY DEF NothingMissed
  <2>1. since[s] \in Nat /\ Len(published) \in Nat
    BY TypeParts DEF IType, HistoryType
  <2>2. i \in 1 .. Len(published) /\ i > since[s]
    BY <2>1
  <2>. QED
    BY <2>2 DEF AllServed, Served, Owed
<1>. QED
  BY <1>1, InitType, NextType, InitServed, NextAllServed, PTL DEF Spec
=============================================================================
