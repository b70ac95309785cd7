----------------------------- MODULE EchoProofs -----------------------------
(***************************************************************************)
(* Proofs about the echo server and its clients, for any table size and    *)
(* any clients on any hosts.                                               *)
(***************************************************************************)
EXTENDS Echo, BasicFacts, FiniteSetTheorems

IServer == ServerTypeOK /\ OneEntryEach

\* A scan of the table stops at an entry that is in the set looked for.
LEMMA FirstOf ==
  ASSUME NEW S, S \subseteq Entries, S # {}
  PROVE  First(S) \in S
<1>0. S \subseteq Nat
  BY ServerAssumption DEF Entries
<1>1. \E i \in S : \A j \in S : i <= j
  BY <1>0, LeastNumber
<1>. QED
  BY <1>1 DEF First

LEMMA FirstOfOne ==
  ASSUME NEW i \in Entries
  PROVE  First({i}) = i
BY FirstOf

\* An address that is registered has exactly one entry.
LEMMA Own ==
  ASSUME IServer, NEW a, NEW i \in EntriesOf(a)
  PROVE  EntriesOf(a) = {i} /\ NumberOf(a) = clients[i].counter
<1>1. EntriesOf(a) = {i}
  BY DEF IServer, OneEntryEach, EntriesOf
<1>. QED
  BY <1>1, FirstOfOne DEF NumberOf, EntriesOf

\* Where a message of a is counted.
LEMMA Place ==
  ASSUME IServer, NEW a, NEW i \in Entries, HasPlace(a, i)
  PROVE  \/ i \in EntriesOf(a) /\ EntriesOf(a) = {i}
         \/ i \in Free /\ EntriesOf(a) = {}
<1>1. CASE EntriesOf(a) # {}
  <2>1. i \in EntriesOf(a)
    BY <1>1, FirstOf DEF HasPlace, EntriesOf
  <2>. QED
    BY <2>1, Own
<1>2. CASE EntriesOf(a) = {}
  BY <1>2, FirstOf DEF HasPlace, Free
<1>. QED
  BY <1>1, <1>2

LEMMA InitServer == ServerInit => IServer
BY DEF ServerInit, IServer, ServerTypeOK, OneEntryEach, Entry

LEMMA CountServer ==
  ASSUME IServer, NEW a \in Addresses, NEW i \in Entries, CountMessage(a, i)
  PROVE  IServer'
<1>1. /\ clients' = [clients EXCEPT ![i] =
                      [active |-> TRUE, addr |-> a, counter |-> Number(a, i)]]
      /\ HasPlace(a, i)
      /\ listening' \in BOOLEAN /\ running' \in BOOLEAN
  BY DEF CountMessage, EndTurn, IServer, ServerTypeOK
<1>2. Number(a, i) \in Nat /\ Number(a, i) > 0
  BY DEF Number, IServer, ServerTypeOK, Entry
<1>3. ServerTypeOK'
  BY <1>1, <1>2 DEF IServer, ServerTypeOK, Entry
<1>4. ASSUME NEW j \in Entries, j # i, clients[j].active
      PROVE  clients[j].addr # a
  BY <1>1, <1>4, Place DEF EntriesOf
<1>5. OneEntryEach'
  BY <1>1, <1>2, <1>4 DEF IServer, ServerTypeOK, OneEntryEach
<1>. QED
  BY <1>3, <1>5 DEF IServer

LEMMA CloseServer ==
  ASSUME IServer, NEW a \in Addresses, CloseClient(a)
  PROVE  IServer'
<1>1. CASE EntriesOf(a) = {}
  BY <1>1 DEF CloseClient, EndTurn, IServer, ServerTypeOK, OneEntryEach
<1>2. CASE EntriesOf(a) # {}
  <2>1. PICK i \in Entries :
          clients' = [clients EXCEPT ![i].active = FALSE]
    BY <1>2, FirstOf DEF CloseClient, EntriesOf
  <2>2. listening' \in BOOLEAN /\ running' \in BOOLEAN
    BY DEF CloseClient, EndTurn, IServer, ServerTypeOK
  <2>3. ServerTypeOK'
    BY <2>1, <2>2 DEF IServer, ServerTypeOK, Entry
  <2>4. \A j \in Entries : clients'[j].active =>
          clients[j].active /\ clients'[j] = clients[j]
    BY <2>1 DEF IServer, ServerTypeOK, Entry
  <2>. QED
    BY <2>3, <2>4 DEF IServer, OneEntryEach
<1>. QED
  BY <1>1, <1>2

LEMMA NextServer == IServer /\ [ServerNext]_serverVars => IServer'
<1> SUFFICES ASSUME IServer, [ServerNext]_serverVars PROVE IServer'
  OBVIOUS
<1>1. CASE UNCHANGED serverVars
  BY <1>1 DEF serverVars, IServer, ServerTypeOK, OneEntryEach
<1>2. CASE IgnorePacket \/ ServerSignal
  BY <1>2 DEF IgnorePacket, ServerSignal, EndTurn, IServer, ServerTypeOK,
              OneEntryEach
<1>3. ASSUME NEW a \in Addresses, Refuse(a) PROVE IServer'
  BY <1>3 DEF Refuse, IgnorePacket, EndTurn, IServer, ServerTypeOK,
              OneEntryEach
<1>. QED
  BY <1>1, <1>2, <1>3, CountServer, CloseServer DEF ServerNext

LEMMA ServerInvariant == ServerSpec => []IServer
BY InitServer, NextServer, PTL DEF ServerSpec

(***************************************************************************)
(* No address ever has two entries in the table of the server.             *)
(***************************************************************************)
THEOREM UniqueEntry == ServerSpec => []OneEntryEach
BY ServerInvariant, PTL DEF IServer
-----------------------------------------------------------------------------
(***************************************************************************)
(* The table implements one number per address.  A message changes the     *)
(* number of its sender alone.                                             *)
(***************************************************************************)
LEMMA Numbers ==
  ASSUME IServer
  PROVE  \A a : NumberOf(a) \in Nat /\ (NumberOf(a) > 0 <=> EntriesOf(a) # {})
<1> SUFFICES ASSUME NEW a
             PROVE NumberOf(a) \in Nat /\ (NumberOf(a) > 0 <=> EntriesOf(a) # {})
  OBVIOUS
<1>1. CASE EntriesOf(a) = {}
  BY <1>1 DEF NumberOf
<1>2. CASE EntriesOf(a) # {}
  <2>1. PICK i \in EntriesOf(a) : TRUE
    BY <1>2
  <2>2. NumberOf(a) = clients[i].counter
    BY Own
  <2>. QED
    BY <1>2, <2>2 DEF EntriesOf, IServer, ServerTypeOK, OneEntryEach, Entry
<1>. QED
  BY <1>1, <1>2

\* Every registered address has an entry of its own.
LEMMA TableSize ==
  ASSUME IServer, NEW i \in Free
  PROVE  Cardinality(Counters!Registered) < MaxClients
<1> DEFINE R == Counters!Registered
           f == [a \in R |-> First(EntriesOf(a))]
<1>1. \A a \in R : EntriesOf(a) # {}
  BY Numbers DEF Counters!Registered
<1>2. \A a \in R : First(EntriesOf(a)) \in EntriesOf(a)
  BY <1>1, FirstOf DEF EntriesOf
<1>3. f \in [R -> Entries \ {i}]
  BY <1>2 DEF EntriesOf, Free
<1>4. \A a, b \in R : f[a] = f[b] => a = b
  BY <1>2 DEF EntriesOf
<1>5. f \in Injection(R, Entries \ {i})
  BY <1>3, <1>4 DEF Injection, IsInjective
<1>6. IsFiniteSet(Entries) /\ Cardinality(Entries) = MaxClients
  BY FS_Interval, ServerAssumption DEF Entries
<1>7. /\ IsFiniteSet(Entries \ {i})
      /\ Cardinality(Entries \ {i}) = MaxClients - 1
  BY <1>6, FS_RemoveElement DEF Free
<1>8. IsFiniteSet(R) /\ Cardinality(R) <= MaxClients - 1
  BY <1>5, <1>7, FS_Injection
<1>9. Cardinality(R) \in Nat
  BY <1>8, FS_CardinalityType
<1>. QED
  BY <1>8, <1>9, ServerAssumption

\* A step that leaves the entries of a alone leaves its number alone.
LEMMA SameNumber ==
  ASSUME NEW a, EntriesOf(a)' = EntriesOf(a),
         \A i \in EntriesOf(a) : clients'[i].counter = clients[i].counter,
         IServer
  PROVE  NumberOf(a)' = NumberOf(a)
<1>1. EntriesOf(a) # {} => First(EntriesOf(a)) \in EntriesOf(a)
  BY FirstOf DEF EntriesOf
<1>. QED
  BY <1>1 DEF NumberOf, First

Numbering == [a \in Addresses |-> NumberOf(a)]

\* The numbers after a message of a, and after a CLOSE of it.
LEMMA CountNumbers ==
  ASSUME IServer, IServer', NEW a \in Addresses, NEW i \in Entries,
         CountMessage(a, i)
  PROVE  /\ NumberOf(a)' = Number(a, i) /\ Number(a, i) = NumberOf(a) + 1
         /\ \A b \in Addresses : b # a =>
              /\ EntriesOf(b)' = EntriesOf(b)
              /\ NumberOf(b)' = NumberOf(b)
<1>1. /\ clients' = [clients EXCEPT ![i] =
                      [active |-> TRUE, addr |-> a, counter |-> Number(a, i)]]
      /\ HasPlace(a, i)
  BY DEF CountMessage
<1>2. /\ i \in EntriesOf(a)'
      /\ NumberOf(a)' = Number(a, i)
  <2>1. i \in EntriesOf(a)' /\ clients'[i].counter = Number(a, i)
    BY <1>1 DEF EntriesOf, IServer, ServerTypeOK
  <2>2. ASSUME NEW j \in EntriesOf(a)' PROVE j = i
    BY <2>1, <2>2 DEF IServer, OneEntryEach, EntriesOf
  <2>3. EntriesOf(a)' = {i}
    BY <2>1, <2>2
  <2>. QED
    BY <2>1, <2>3, FirstOfOne DEF NumberOf
<1>3. ASSUME NEW b \in Addresses, b # a
      PROVE  EntriesOf(b)' = EntriesOf(b) /\ NumberOf(b)' = NumberOf(b)
  <2>1. i \notin EntriesOf(b)
    BY <1>1, <1>3, Place DEF EntriesOf, Free
  <2>2. i \notin EntriesOf(b)'
    BY <1>1, <1>3 DEF EntriesOf, IServer, ServerTypeOK
  <2>3. \A j \in Entries : j # i => clients'[j] = clients[j]
    BY <1>1 DEF IServer, ServerTypeOK
  <2>4. EntriesOf(b)' = EntriesOf(b)
    BY <2>1, <2>2, <2>3 DEF EntriesOf
  <2>5. \A j \in EntriesOf(b) : clients'[j].counter = clients[j].counter
    BY <2>1, <2>3 DEF EntriesOf
  <2>. QED
    BY <2>4, <2>5, SameNumber
<1>4. Number(a, i) = NumberOf(a) + 1
  <2>1. CASE i \in EntriesOf(a)
    BY <2>1, Own DEF Number
  <2>2. CASE i \notin EntriesOf(a)
    BY <1>1, <2>2, Place DEF Number, NumberOf
  <2>. QED
    BY <2>1, <2>2
<1>. QED
  BY <1>2, <1>3, <1>4

LEMMA CloseNumbers ==
  ASSUME IServer, NEW a \in Addresses, CloseClient(a)
  PROVE  /\ EntriesOf(a)' = {} /\ NumberOf(a)' = 0
         /\ \A b \in Addresses : b # a =>
              /\ EntriesOf(b)' = EntriesOf(b)
              /\ NumberOf(b)' = NumberOf(b)
<1>1. ASSUME NEW b \in Addresses, b # a
      PROVE  EntriesOf(b)' = EntriesOf(b) /\ NumberOf(b)' = NumberOf(b)
  <2>1. \A j \in Entries : j \notin EntriesOf(a) => clients'[j] = clients[j]
    BY FirstOf DEF CloseClient, EntriesOf, IServer, ServerTypeOK
  <2>2. \A j \in EntriesOf(a) : clients'[j].addr = a
    BY FirstOf DEF CloseClient, EntriesOf, IServer, ServerTypeOK, Entry
  <2>3. EntriesOf(b)' = EntriesOf(b)
    BY <1>1, <2>1, <2>2 DEF EntriesOf
  <2>4. \A j \in EntriesOf(b) : clients'[j].counter = clients[j].counter
    BY <1>1, <2>1 DEF EntriesOf
  <2>. QED
    BY <2>3, <2>4, SameNumber
<1>2. EntriesOf(a)' = {}
  <2>1. CASE EntriesOf(a) = {}
    BY <2>1 DEF CloseClient, EntriesOf
  <2>2. CASE EntriesOf(a) # {}
    <3>1. PICK i \in EntriesOf(a) : i = First(EntriesOf(a))
      BY <2>2, FirstOf DEF EntriesOf
    <3>2. clients' = [clients EXCEPT ![i].active = FALSE]
          /\ EntriesOf(a) = {i}
      BY <2>2, <3>1, Own DEF CloseClient
    <3>. QED
      BY <3>1, <3>2 DEF EntriesOf, IServer, ServerTypeOK, Entry
  <2>. QED
    BY <2>1, <2>2
<1>3. NumberOf(a)' = 0
  BY <1>2 DEF NumberOf
<1>. QED
  BY <1>1, <1>2, <1>3

LEMMA CountStep ==
  ASSUME IServer, IServer', NEW a \in Addresses, NEW i \in Entries,
         CountMessage(a, i)
  PROVE  Counters!Count(a)
<1>1. Numbering' = [Numbering EXCEPT ![a] = @ + 1]
  BY CountNumbers DEF Numbering
<1>2. a \in Counters!Registered \/ Cardinality(Counters!Registered) < MaxClients
  <2>1. CASE i \in EntriesOf(a)
    BY <2>1, Numbers DEF Counters!Registered
  <2>2. CASE i \notin EntriesOf(a)
    BY <2>2, Place, TableSize DEF CountMessage
  <2>. QED
    BY <2>1, <2>2
<1>3. \A S : Counters!Cardinality(S) = Cardinality(S)
  BY DEF Counters!Cardinality, Cardinality
<1>. QED
  BY <1>1, <1>2, <1>3 DEF Counters!Count, Numbering

LEMMA CloseStep ==
  ASSUME IServer, NEW a \in Addresses, CloseClient(a)
  PROVE  Counters!Close(a)
<1>1. Numbering' = [Numbering EXCEPT ![a] = 0]
  BY CloseNumbers DEF Numbering
<1>. QED
  BY <1>1 DEF Counters!Close, Numbering

(***************************************************************************)
(* The server's table implements EchoCounters.                             *)
(***************************************************************************)
THEOREM Refinement == ServerSpec => Counters!Spec
<1>1. ServerInit => Counters!Init
  BY DEF ServerInit, Counters!Init, NumberOf, EntriesOf
<1>2. IServer /\ IServer' /\ [ServerNext]_serverVars
      => [Counters!Next]_Numbering
  <2> SUFFICES ASSUME IServer, IServer', [ServerNext]_serverVars
               PROVE  Counters!Next \/ UNCHANGED Numbering
    OBVIOUS
  <2>1. CASE clients' = clients
    <3>1. \A a \in Addresses : NumberOf(a)' = NumberOf(a)
      BY <2>1 DEF NumberOf, EntriesOf, First
    <3>. QED
      BY <3>1 DEF Numbering
  <2>2. CASE clients' # clients
    <3>1. PICK a \in Addresses :
            (\E i \in Entries : CountMessage(a, i)) \/ CloseClient(a)
      BY <2>2 DEF ServerNext, Refuse, IgnorePacket, ServerSignal, serverVars
    <3>. QED
      BY <3>1, CountStep, CloseStep DEF Counters!Next
  <2>. QED
    BY <2>1, <2>2
<1>. QED
  BY <1>1, <1>2, ServerInvariant, PTL
     DEF ServerSpec, Counters!Spec, Numbering
-----------------------------------------------------------------------------
(***************************************************************************)
(* The server among its clients.  Every packet in a socket comes from a    *)
(* client, and a wait goes on only while attempts are left.                *)
(***************************************************************************)
Sockets == Clients \cup {Server}

Sound ==
  [kind : {"data", "CLOSE", "reply"}, of : Clients, id : Nat, number : Nat]

IEcho ==
  /\ TypeOK
  /\ inbox \in [Sockets -> Seq(Sound)] /\ sent \in [Clients -> Nat]
  /\ \A c \in Clients :
       /\ pc[c] = "select" => attempts[c] < MaxAttempts
       /\ pc[c] = "send" => sent[c] < MaxSent[c]

LEMMA PutSound ==
  ASSUME NEW box \in [Sockets -> Seq(Sound)], NEW p \in Sound, NEW got
  PROVE  Put(box, p, got) \in [Sockets -> Seq(Sound)]
<1>1. \A s \in Sockets : Append(box[s], p) \in Seq(Sound)
  OBVIOUS
<1>. QED
  BY <1>1 DEF Put

LEMMA TailSound ==
  ASSUME NEW box \in [Sockets -> Seq(Sound)], NEW s \in Sockets, box[s] # <<>>
  PROVE  /\ Head(box[s]) \in Sound
         /\ [box EXCEPT ![s] = Tail(@)] \in [Sockets -> Seq(Sound)]
<1>1. Head(box[s]) \in Sound /\ Tail(box[s]) \in Seq(Sound)
  OBVIOUS
<1>. QED
  BY <1>1

LEMMA RequestSound ==
  ASSUME NEW c \in Clients, NEW kind \in {"data", "CLOSE"}, NEW id \in Nat
  PROVE  Request(c, kind, id) \in Sound
BY DEF Request, Sound

LEMMA SoundPackets ==
  [Sockets -> Seq(Sound)] \subseteq [Clients \cup {Server} -> Seq(Packet)]
<1>1. Sound \subseteq Packet
  BY DEF Sound, Packet
<1>2. Seq(Sound) \subseteq Seq(Packet)
  BY <1>1
<1>. QED
  BY <1>2 DEF Sockets

LEMMA InitEcho == Init => IEcho
<1> SUFFICES ASSUME Init PROVE IEcho
  OBVIOUS
<1>1. <<>> \in Seq(Sound)
  OBVIOUS
<1>2. inbox \in [Sockets -> Seq(Sound)]
  BY <1>1 DEF Init, Sockets
<1>3. Nothing \in Packet
  BY DEF Nothing, Packet
<1>4. ServerTypeOK
  BY InitServer DEF Init, IServer
<1>5. \A c \in Clients : MaxSent[c] \in Nat
  BY EchoAssumption
<1>6. TypeOK
  BY <1>2, <1>3, <1>4, <1>5, SoundPackets, EchoAssumption DEF Init, TypeOK
<1>. QED
  BY <1>2, <1>6 DEF IEcho, Init

\* What a step of the clients leaves the server with.
LEMMA ServerFrame ==
  ASSUME ServerTypeOK, UNCHANGED serverVars
  PROVE  ServerTypeOK'
BY DEF ServerTypeOK, serverVars

LEMMA SendCloseSound ==
  ASSUME IEcho, NEW c \in Clients, SendClose(c)
  PROVE  inbox' \in [Sockets -> Seq(Sound)] /\ closed' \in [Clients -> BOOLEAN]
<1>1. sent[c] \in Nat
  BY EchoAssumption DEF IEcho, TypeOK
<1>2. Request(c, "CLOSE", sent[c]) \in Sound
  BY <1>1, RequestSound
<1>3. inbox \in [Sockets -> Seq(Sound)] /\ closed \in [Clients -> BOOLEAN]
  BY DEF IEcho, TypeOK
<1>. QED
  BY <1>2, <1>3, PutSound DEF SendClose

LEMMA ClientEcho ==
  ASSUME IEcho, NEW c \in Clients, Client(c)
  PROVE  IEcho'
<1> USE DEF IEcho, TypeOK, Goto
<1>0. ServerTypeOK'
  BY ServerFrame DEF Client, Start, TypeLine, EmptyLineOrEof, Send, SendFails,
     Wait, GiveUp, TimeOut, NoAnswer, ReceiveReply, ReceiveRequest, Signal,
     Interrupted, End
<1>1. \A d \in Clients : sent[d] \in 0 .. MaxSent[d] /\ MaxSent[d] \in Nat
  BY EchoAssumption
<1>2. Top(c) \in {"end", "prompt"}
  BY DEF Top
<1>3. CASE Start(c) \/ EmptyLineOrEof(c) \/ SendFails(c)
  BY <1>0, <1>2, <1>3 DEF Start, EmptyLineOrEof, SendFails
<1>4. CASE TypeLine(c)
  <2>1. inbox' \in [Sockets -> Seq(Sound)] /\ closed' \in [Clients -> BOOLEAN]
    BY <1>4, SendCloseSound DEF TypeLine
  <2>2. inbox' \in [Clients \cup {Server} -> Seq(Packet)]
    BY <2>1, SoundPackets
  <2>3. /\ UNCHANGED <<shouldClose, attempts, sent, printed, late>>
        /\ sent[c] < MaxSent[c]
        /\ pc' = [pc EXCEPT ![c] = "end"] \/ pc' = [pc EXCEPT ![c] = "send"]
    BY <1>4 DEF TypeLine
  <2>. QED
    BY <1>0, <2>1, <2>2, <2>3
<1>5. CASE Send(c)
  <2>1. sent[c] + 1 \in Nat
    BY <1>1
  <2>2. inbox' \in [Sockets -> Seq(Sound)]
    <3>1. PICK kind \in {"data", "CLOSE"}, got \in Lossy(RequestSockets) :
            inbox' = Put(inbox, Request(c, kind, sent[c] + 1), got)
      BY <1>5 DEF Send
    <3>. QED
      BY <2>1, <3>1, PutSound, RequestSound
  <2>3. inbox' \in [Clients \cup {Server} -> Seq(Packet)]
    BY <2>2, SoundPackets
  <2>4. 0 \in 0 .. MaxAttempts
    BY EchoAssumption
  <2>5. \A d \in Clients : sent'[d] \in 0 .. MaxSent[d]
    BY <1>1, <1>5 DEF Send
  <2>. QED
    BY <1>0, <1>5, <2>2, <2>3, <2>4, <2>5 DEF Send
<1>6. CASE Wait(c)
  BY <1>0, <1>6 DEF Wait
<1>7. CASE GiveUp(c) \/ TimeOut(c)
  BY <1>0, <1>2, <1>7 DEF GiveUp, TimeOut, NoAnswer
<1>8. CASE ReceiveReply(c)
  <2>1. inbox' \in [Sockets -> Seq(Sound)] /\ Head(inbox[c]) \in Sound
    BY <1>8, TailSound DEF ReceiveReply, Sockets
  <2>2. Head(inbox[c]) \in Packet
    BY <2>1 DEF Sound, Packet
  <2>3. inbox' \in [Clients \cup {Server} -> Seq(Packet)]
    BY <2>1, SoundPackets
  <2>. QED
    BY <1>0, <1>2, <1>8, <2>1, <2>2, <2>3 DEF ReceiveReply
<1>9. CASE ReceiveRequest(c)
  <2>1. inbox' \in [Sockets -> Seq(Sound)]
    BY <1>9, TailSound DEF ReceiveRequest, Sockets
  <2>2. inbox' \in [Clients \cup {Server} -> Seq(Packet)]
    BY <2>1, SoundPackets
  <2>3. attempts[c] + 1 \in 0 .. MaxAttempts
    BY <1>9, EchoAssumption DEF ReceiveRequest
  <2>. QED
    BY <1>0, <1>9, <2>1, <2>2, <2>3 DEF ReceiveRequest
<1>10. CASE Signal(c)
  <2>1. pc' = pc \/ pc' = [pc EXCEPT ![c] = "close"]
    BY <1>10 DEF Signal
  <2>. QED
    BY <1>0, <1>10, <2>1 DEF Signal
<1>11. CASE Interrupted(c)
  <2>1. inbox' \in [Sockets -> Seq(Sound)] /\ closed' \in [Clients -> BOOLEAN]
    BY <1>11, SendCloseSound DEF Interrupted
  <2>2. inbox' \in [Clients \cup {Server} -> Seq(Packet)]
    BY <2>1, SoundPackets
  <2>. QED
    BY <1>0, <1>11, <2>1, <2>2 DEF Interrupted
<1>12. CASE End(c)
  <2>1. Request(c, "CLOSE", sent[c]) \in Sound
    BY <1>1, RequestSound
  <2>2. PICK got :
          /\ inbox' = [Put(inbox, Request(c, "CLOSE", sent[c]), got)
                       EXCEPT ![c] = <<>>]
          /\ closed' = [closed EXCEPT ![c] = @ \/ Server \in got]
    BY <1>12 DEF End
  <2>3. <<>> \in Seq(Sound)
    OBVIOUS
  <2>4. inbox' \in [Sockets -> Seq(Sound)]
    BY <2>1, <2>2, <2>3, PutSound
  <2>5. inbox' \in [Clients \cup {Server} -> Seq(Packet)]
    BY <2>4, SoundPackets
  <2>. QED
    BY <1>0, <1>12, <2>2, <2>4, <2>5 DEF End
<1>. QED
  BY <1>3, <1>4, <1>5, <1>6, <1>7, <1>8, <1>9, <1>10, <1>11, <1>12 DEF Client

\* The server's steps are steps of EchoServer.
LEMMA ServerMoves ==
  ASSUME IEcho, Answer \/ TooMany \/ TakeClose \/ OtherPort \/ StopServer
  PROVE  ServerNext
<1>1. Server \in Sockets /\ inbox \in [Sockets -> Seq(Sound)]
  BY DEF Sockets, IEcho
<1>2. ASSUME inbox[Server] # <<>>
      PROVE  HostOf[Head(inbox[Server]).of] \in Addresses
  BY <1>1, <1>2, TailSound, EchoAssumption DEF Sound
<1>3. CASE Answer
  BY <1>2, <1>3 DEF Answer, Incoming, ServerNext
<1>4. CASE TooMany
  BY <1>2, <1>4 DEF TooMany, Incoming, ServerNext
<1>5. CASE TakeClose
  BY <1>2, <1>5 DEF TakeClose, Incoming, ServerNext
<1>6. CASE OtherPort \/ StopServer
  BY <1>6 DEF OtherPort, StopServer, ServerNext
<1>. QED
  BY <1>3, <1>4, <1>5, <1>6

LEMMA ServerEcho ==
  ASSUME IEcho, IServer,
         Answer \/ TooMany \/ TakeClose \/ OtherPort \/ StopServer
  PROVE  IEcho'
<1>1. ServerTypeOK'
  BY ServerMoves, NextServer DEF IServer
<1>2. Server \in Sockets /\ inbox \in [Sockets -> Seq(Sound)]
  BY DEF Sockets, IEcho
<1>3. inbox' \in [Sockets -> Seq(Sound)]
  <2>1. ASSUME inbox[Server] # <<>> PROVE Taken \in [Sockets -> Seq(Sound)]
    BY <1>2, <2>1, TailSound DEF Taken
  <2>2. CASE Answer
    <3>0. PICK i \in Entries :
            \E got : inbox' = Put(Taken, [Head(inbox[Server]) EXCEPT
                       !.kind = "reply",
                       !.number = Number(HostOf[Head(inbox[Server]).of], i)], got)
      BY <2>2 DEF Answer
    <3>1. PICK got :
            inbox' = Put(Taken, [Head(inbox[Server]) EXCEPT
                       !.kind = "reply",
                       !.number = Number(HostOf[Head(inbox[Server]).of], i)], got)
      BY <3>0
    <3>2. Head(inbox[Server]) \in Sound
      BY <1>2, <2>2, TailSound DEF Answer, Incoming
    <3>3. Number(HostOf[Head(inbox[Server]).of], i) \in Nat
      BY DEF Number, IEcho, TypeOK, ServerTypeOK, Entry
    <3>4. [Head(inbox[Server]) EXCEPT
             !.kind = "reply",
             !.number = Number(HostOf[Head(inbox[Server]).of], i)] \in Sound
      BY <3>2, <3>3 DEF Sound
    <3>. QED
      BY <2>1, <2>2, <3>1, <3>4, PutSound DEF Answer, Incoming
  <2>3. CASE TooMany \/ TakeClose \/ OtherPort
    BY <2>1, <2>3 DEF TooMany, TakeClose, OtherPort, Incoming
  <2>4. CASE StopServer
    BY <1>2, <2>4 DEF StopServer
  <2>. QED
    BY <2>2, <2>3, <2>4
<1>4. inbox' \in [Clients \cup {Server} -> Seq(Packet)]
  BY <1>3, SoundPackets
<1>5. UNCHANGED clientVars
  BY DEF Answer, TooMany, TakeClose, OtherPort, StopServer
<1>. QED
  BY <1>1, <1>3, <1>4, <1>5 DEF IEcho, TypeOK, clientVars

LEMMA NextEcho ==
  IEcho /\ IServer /\ [Next]_vars => IEcho' /\ IServer' /\ [ServerNext]_serverVars
<1> SUFFICES ASSUME IEcho, IServer, [Next]_vars
             PROVE  IEcho' /\ [ServerNext]_serverVars
  BY NextServer
<1>1. CASE UNCHANGED vars
  BY <1>1 DEF vars, clientVars, serverVars, IEcho, TypeOK, ServerTypeOK
<1>2. ASSUME NEW c \in Clients, Client(c)
      PROVE  IEcho' /\ [ServerNext]_serverVars
  <2>1. UNCHANGED serverVars
    BY <1>2 DEF Client, Start, TypeLine, EmptyLineOrEof, Send, SendFails, Wait,
       GiveUp, TimeOut, NoAnswer, ReceiveReply, ReceiveRequest, Signal,
       Interrupted, End
  <2>. QED
    BY <1>2, <2>1, ClientEcho
<1>3. CASE Answer \/ TooMany \/ TakeClose \/ OtherPort \/ StopServer
  BY <1>3, ServerMoves, ServerEcho
<1>. QED
  BY <1>1, <1>2, <1>3 DEF Next

LEMMA EchoInvariant == Spec => [](IEcho /\ IServer)
<1>1. Init => IEcho /\ IServer
  BY InitEcho, InitServer DEF Init
<1>. QED
  BY <1>1, NextEcho, PTL DEF Spec

(***************************************************************************)
(* Among any clients the server makes only steps of EchoServer, so all     *)
(* that is proved of EchoServer holds in Echo.                             *)
(***************************************************************************)
THEOREM ServerAmongClients == Spec => ServerSpec
<1>1. Init => ServerInit
  BY DEF Init
<1>. QED
  BY <1>1, NextEcho, EchoInvariant, PTL DEF Spec, ServerSpec

\* The table implements one number per address for any clients.
THEOREM EchoRefinement == Spec => ImplementsCounters
BY ServerAmongClients, Refinement, PTL DEF ImplementsCounters

\* Every variable keeps its type, and no client waits more often than allowed.
THEOREM TypeCorrect == Spec => []TypeOK
BY EchoInvariant, PTL DEF IEcho
-----------------------------------------------------------------------------
(***************************************************************************)
(* What the sockets hold of one client that has its host for itself.       *)
(***************************************************************************)

\* No message of c to be answered is at place k of q or behind it.
NoData(q, c, k) == \A j \in k .. Len(q) : q[j].of = c => q[j].kind # "data"

CloseIn(q, c) ==
  \E k \in 1 .. Len(q) : q[k].of = c /\ q[k].kind = "CLOSE" /\ NoData(q, c, k)

\* Once a last CLOSE of c has got through, it is still to be read and nothing
\* of c to be answered is behind it, or c has no entry and nothing of it is to
\* be answered.
Forgets(c) ==
  closed[c] =>
    /\ pc[c] \in {"end", "done"}
    /\ \/ CloseIn(inbox[Server], c)
       \/ EntriesOf(HostOf[c]) = {} /\ NoData(inbox[Server], c, 1)

(***************************************************************************)
(* What a step does to a receive buffer: r is q without its first e items, *)
(* and perhaps with m behind them.                                         *)
(***************************************************************************)
Slides(q, r, e, m) ==
  /\ e \in {0, 1}
  /\ \A k \in 1 .. Len(r) :
       \/ k + e \in 1 .. Len(q) /\ r[k] = q[k + e]
       \/ k + e = Len(q) + 1 /\ r[k] = m

LEMMA Slide ==
  ASSUME NEW q \in Seq(Sound), NEW m \in Sound
  PROVE  /\ Slides(q, q, 0, m) /\ Slides(q, <<>>, 0, m)
         /\ Slides(q, Append(q, m), 0, m)
         /\ q # <<>> => /\ Slides(q, Tail(q), 1, m)
                        /\ Slides(q, Append(Tail(q), m), 1, m)
<1>1. Slides(q, q, 0, m) /\ Slides(q, <<>>, 0, m)
  BY DEF Slides
<1>2. Slides(q, Append(q, m), 0, m)
  BY AppendItems DEF Slides
<1>3. ASSUME q # <<>>
      PROVE  /\ Slides(q, Tail(q), 1, m)
             /\ Slides(q, Append(Tail(q), m), 1, m)
  <2>a. PICK t : t = Tail(q)
    OBVIOUS
  <2>b. PICK n \in Nat : n = Len(q)
    OBVIOUS
  <2>1. /\ n >= 1 /\ t \in Seq(Sound) /\ Len(t) = n - 1
        /\ \A k \in 1 .. n - 1 : t[k] = q[k + 1]
    BY <1>3, <2>a, <2>b, TailItems
  <2>2. /\ Len(Append(t, m)) = n - 1 + 1
        /\ \A k \in 1 .. n - 1 : Append(t, m)[k] = t[k]
        /\ Append(t, m)[n - 1 + 1] = m
    BY <2>1, AppendItems
  <2>3. \A k \in 1 .. n - 1 : k + 1 \in 1 .. n
    BY <2>1
  <2>4. \A k \in 1 .. n - 1 + 1 : k \in 1 .. n - 1 \/ k = n - 1 + 1
    BY <2>1
  <2>5. n - 1 + 1 + 1 = n + 1
    BY <2>1
  <2>6. Slides(q, t, 1, m)
    BY <2>1, <2>b, <2>3 DEF Slides
  <2>7. Slides(q, Append(t, m), 1, m)
    BY <2>1, <2>b, <2>2, <2>3, <2>4, <2>5 DEF Slides
  <2>. QED
    BY <2>a, <2>6, <2>7
<1>. QED
  BY <1>1, <1>2, <1>3

LEMMA SoundBox ==
  ASSUME IEcho, NEW c \in Clients
  PROVE  /\ Server \in Sockets /\ c \in Sockets /\ c # Server
         /\ inbox[Server] \in Seq(Sound) /\ inbox[c] \in Seq(Sound)
         /\ sent[c] \in Nat /\ sent[c] <= MaxSent[c]
         /\ \A id \in Nat : Request(c, "data", id) \in Sound
                            /\ Request(c, "CLOSE", id) \in Sound
<1>1. sent[c] \in 0 .. MaxSent[c] /\ MaxSent[c] \in Nat /\ c # Server
  BY EchoAssumption DEF IEcho, TypeOK
<1>2. inbox \in [Sockets -> Seq(Sound)]
  BY DEF IEcho
<1>3. sent[c] \in Nat /\ sent[c] <= MaxSent[c]
  BY <1>1
<1>. QED
  BY <1>1, <1>2, <1>3, RequestSound DEF Sockets

\* r is q, or q with m behind it.
Gets(q, r, m) == (r = q \/ r = Append(q, m)) /\ Slides(q, r, 0, m)

LEMMA PutSlides ==
  ASSUME NEW box \in [Sockets -> Seq(Sound)], NEW p \in Sound, NEW got,
         NEW s \in Sockets
  PROVE  /\ Put(box, p, got)[s] = IF s \in got THEN Append(box[s], p) ELSE box[s]
         /\ Gets(box[s], Put(box, p, got)[s], p)
<1>1. Put(box, p, got)[s] = IF s \in got THEN Append(box[s], p) ELSE box[s]
  BY DEF Put
<1>2. box[s] \in Seq(Sound)
  OBVIOUS
<1>. QED
  BY <1>1, <1>2, Slide DEF Gets

\* The other sockets get at most a request of the client that takes a step.
LEMMA ClientSends ==
  ASSUME IEcho, NEW d \in Clients, Client(d), NEW s \in Sockets, s # d
  PROVE  \E m \in Sound : /\ m.of = d /\ m.kind # "reply"
                          /\ Gets(inbox[s], inbox'[s], m)
<1>1. inbox \in [Sockets -> Seq(Sound)]
  BY DEF IEcho
<1>2. \A kind \in {"data", "CLOSE"}, id \in Nat :
        /\ Request(d, kind, id) \in Sound
        /\ Request(d, kind, id).of = d /\ Request(d, kind, id).kind # "reply"
  BY RequestSound DEF Request
<1>3. sent[d] \in Nat /\ sent[d] + 1 \in Nat
  BY SoundBox
<1>4. CASE inbox'[s] = inbox[s]
  BY <1>1, <1>2, <1>3, <1>4, Slide DEF Gets
<1>5. CASE SendClose(d)
  <2>1. PICK m \in Sound : /\ m = Request(d, "CLOSE", sent[d])
                           /\ m.of = d /\ m.kind # "reply"
    BY <1>2, <1>3
  <2>2. PICK got : inbox' = Put(inbox, m, got)
    BY <1>5, <2>1 DEF SendClose
  <2>3. Gets(inbox[s], Put(inbox, m, got)[s], m)
    BY <1>1, PutSlides
  <2>. QED
    BY <2>1, <2>2, <2>3
<1>6. CASE Send(d)
  <2>1. PICK kind \in {"data", "CLOSE"}, got \in Lossy(RequestSockets) :
          inbox' = Put(inbox, Request(d, kind, sent[d] + 1), got)
    BY <1>6 DEF Send
  <2>2. PICK m \in Sound : /\ m = Request(d, kind, sent[d] + 1)
                           /\ m.of = d /\ m.kind # "reply"
    BY <1>2, <1>3
  <2>3. Gets(inbox[s], Put(inbox, m, got)[s], m)
    BY <1>1, PutSlides
  <2>. QED
    BY <2>1, <2>2, <2>3
<1>7. CASE End(d)
  <2>1. PICK got : inbox' = [Put(inbox, Request(d, "CLOSE", sent[d]), got)
                             EXCEPT ![d] = <<>>]
    BY <1>7 DEF End
  <2>2. PICK m \in Sound : /\ m = Request(d, "CLOSE", sent[d])
                           /\ m.of = d /\ m.kind # "reply"
    BY <1>2, <1>3
  <2>3. inbox'[s] = Put(inbox, m, got)[s]
    BY <1>1, <2>1, <2>2, PutSound
  <2>4. Gets(inbox[s], Put(inbox, m, got)[s], m)
    BY <1>1, PutSlides
  <2>. QED
    BY <2>2, <2>3, <2>4
<1>8. CASE ReceiveReply(d) \/ ReceiveRequest(d)
  <2>1. inbox'[s] = inbox[s]
    BY <1>1, <1>8 DEF ReceiveReply, ReceiveRequest
  <2>. QED
    BY <1>4, <2>1
<1>. QED
  BY <1>4, <1>5, <1>6, <1>7, <1>8
     DEF Client, Start, TypeLine, EmptyLineOrEof, SendFails, Wait, GiveUp,
         TimeOut, NoAnswer, Signal, Interrupted

LEMMA OthersStay ==
  ASSUME IEcho, NEW d \in Clients, Client(d), NEW c \in Clients, c # d
  PROVE  /\ pc'[c] = pc[c] /\ sent'[c] = sent[c] /\ printed'[c] = printed[c]
         /\ late'[c] = late[c] /\ closed'[c] = closed[c]
<1>1. pc'[c] = pc[c]
  BY DEF IEcho, TypeOK, Goto, Client, Start, TypeLine, EmptyLineOrEof, Send,
         SendFails, Wait, GiveUp, TimeOut, NoAnswer, ReceiveReply,
         ReceiveRequest, Signal, Interrupted, End
<1>2. sent'[c] = sent[c]
  BY DEF IEcho, TypeOK, Client, Start, TypeLine, EmptyLineOrEof, Send,
         SendFails, Wait, GiveUp, TimeOut, NoAnswer, ReceiveReply,
         ReceiveRequest, Signal, Interrupted, End
<1>3. printed'[c] = printed[c]
  BY DEF IEcho, TypeOK, Client, Start, TypeLine, EmptyLineOrEof, Send,
         SendFails, Wait, GiveUp, TimeOut, NoAnswer, ReceiveReply,
         ReceiveRequest, Signal, Interrupted, End
<1>4. late'[c] = late[c]
  BY DEF IEcho, TypeOK, Client, Start, TypeLine, EmptyLineOrEof, Send,
         SendFails, Wait, GiveUp, TimeOut, NoAnswer, ReceiveReply,
         ReceiveRequest, Signal, Interrupted, End
<1>5. closed'[c] = closed[c]
  BY DEF IEcho, TypeOK, Client, Start, TypeLine, EmptyLineOrEof, Send,
         SendFails, Wait, GiveUp, TimeOut, NoAnswer, ReceiveReply,
         ReceiveRequest, Signal, Interrupted, End, SendClose
<1>. QED
  BY <1>1, <1>2, <1>3, <1>4, <1>5
-----------------------------------------------------------------------------
(***************************************************************************)
(* The last CLOSE of a client.                                             *)
(***************************************************************************)
LEMMA DataBehind ==
  ASSUME NEW q \in Seq(Sound), NEW m \in Sound, NEW c,
         ~ (m.of = c /\ m.kind = "data")
  PROVE  /\ NoData(q, c, 1) => NoData(Append(q, m), c, 1)
         /\ CloseIn(q, c) => CloseIn(Append(q, m), c)
         /\ m.of = c /\ m.kind = "CLOSE" => CloseIn(Append(q, m), c)
<1>1. PICK r : r = Append(q, m)
  OBVIOUS
<1>2. PICK n \in Nat : n = Len(q)
  OBVIOUS
<1>3. /\ Len(r) = n + 1 /\ r[n + 1] = m
      /\ \A k \in 1 .. n : r[k] = q[k]
  BY <1>1, <1>2, AppendItems
<1>4. ASSUME NEW k \in 1 .. n + 1, NoData(q, c, k)
      PROVE  NoData(r, c, k)
  <2>1. \A j \in k .. n + 1 : (j \in k .. n /\ j \in 1 .. n) \/ j = n + 1
    BY <1>4
  <2>. QED
    BY <1>2, <1>3, <1>4, <2>1 DEF NoData
<1>5. NoData(q, c, n + 1)
  BY <1>2 DEF NoData
<1>6. 1 \in 1 .. n + 1 /\ n + 1 \in 1 .. n + 1 /\ \A k \in 1 .. n : k \in 1 .. n + 1
  BY <1>2
<1>7. NoData(r, c, n + 1)
  BY <1>4, <1>5, <1>6
<1>8. CloseIn(q, c) => CloseIn(r, c)
  BY <1>2, <1>3, <1>4, <1>6 DEF CloseIn
<1>9. m.of = c /\ m.kind = "CLOSE" => CloseIn(r, c)
  BY <1>3, <1>6, <1>7 DEF CloseIn
<1>. QED
  BY <1>1, <1>4, <1>6, <1>8, <1>9

LEMMA DataAhead ==
  ASSUME NEW q \in Seq(Sound), q # <<>>, NEW c
  PROVE  /\ NoData(q, c, 1) => NoData(Tail(q), c, 1)
         /\ CloseIn(q, c) =>
              \/ CloseIn(Tail(q), c)
              \/ /\ Head(q).of = c /\ Head(q).kind = "CLOSE"
                 /\ NoData(Tail(q), c, 1)
<1>1. PICK r : r = Tail(q)
  OBVIOUS
<1>2. PICK n \in Nat : n = Len(q)
  OBVIOUS
<1>3. /\ n >= 1 /\ Len(r) = n - 1 /\ Head(q) = q[1]
      /\ \A k \in 1 .. n - 1 : r[k] = q[k + 1]
  BY <1>1, <1>2, TailItems
<1>4. ASSUME NEW k \in 1 .. n, NoData(q, c, k), NEW l \in {1, k - 1}, l >= 1
      PROVE  NoData(r, c, l) \/ (k > 2 /\ l = 1)
  <2>1. (k > 2 /\ l = 1) \/ l >= k - 1
    BY <1>4
  <2>2. CASE l >= k - 1
    <3>1. \A j \in l .. n - 1 : j \in 1 .. n - 1 /\ j + 1 \in k .. n
      BY <1>4, <2>2
    <3>. QED
      BY <1>2, <1>3, <1>4, <3>1 DEF NoData
  <2>. QED
    BY <2>1, <2>2
<1>5. NoData(q, c, 1) => NoData(r, c, 1)
  <2>1. 1 \in 1 .. n
    BY <1>3
  <2>. QED
    BY <1>4, <2>1
<1>6. ASSUME CloseIn(q, c)
      PROVE  \/ CloseIn(r, c)
             \/ /\ q[1].of = c /\ q[1].kind = "CLOSE"
                /\ NoData(r, c, 1)
  <2>1. PICK k \in 1 .. n : q[k].of = c /\ q[k].kind = "CLOSE" /\ NoData(q, c, k)
    BY <1>2, <1>6 DEF CloseIn
  <2>2. CASE k = 1
    BY <1>5, <2>1, <2>2
  <2>3. CASE k # 1
    <3>1. PICK l \in 1 .. n - 1 : l + 1 = k /\ l = k - 1
      BY <2>3
    <3>2. NoData(r, c, l)
      BY <1>4, <2>1, <3>1
    <3>3. r[l].of = c /\ r[l].kind = "CLOSE"
      BY <1>3, <2>1, <3>1
    <3>. QED
      BY <1>3, <3>2, <3>3 DEF CloseIn
  <2>. QED
    BY <2>2, <2>3
<1>. QED
  BY <1>1, <1>3, <1>5, <1>6

\* A client that has sent its last CLOSE sends nothing but another CLOSE.
LEMMA ClosesOnly ==
  ASSUME IEcho, NEW c \in Clients, Client(c), Forgets(c), closed'[c]
  PROVE  /\ pc'[c] \in {"end", "done"}
         /\ \E m \in Sound :
              /\ m.of = c /\ m.kind = "CLOSE"
              /\ \/ closed[c] /\ inbox'[Server] = inbox[Server]
                 \/ inbox'[Server] = Append(inbox[Server], m)
<1>1. PICK m \in Sound : m = Request(c, "CLOSE", sent[c])
  BY SoundBox
<1>2. m.of = c /\ m.kind = "CLOSE"
  BY <1>1 DEF Request
<1>3. /\ closed \in [Clients -> BOOLEAN] /\ c # Server
      /\ inbox \in [Sockets -> Seq(Sound)] /\ Server \in Sockets
      /\ pc \in [Clients -> {"off", "prompt", "send", "wait", "select",
                             "close", "end", "done"}]
  BY SoundBox DEF IEcho, TypeOK
<1>4. CASE (TypeLine(c) /\ shouldClose[c]) \/ Interrupted(c)
  <2>. SendClose(c) /\ Goto(c, "end")
    BY <1>4 DEF TypeLine, Interrupted
  <2>1. PICK got : /\ inbox' = Put(inbox, m, got)
                   /\ closed' = [closed EXCEPT ![c] = @ \/ Server \in got]
    BY <1>1 DEF SendClose
  <2>2. closed[c] \/ Server \in got
    BY <1>3, <2>1
  <2>3. inbox'[Server] = IF Server \in got THEN Append(inbox[Server], m)
                         ELSE inbox[Server]
    BY <1>3, <2>1, PutSlides
  <2>4. pc'[c] = "end"
    BY <1>3 DEF Goto
  <2>. QED
    BY <1>2, <2>2, <2>3, <2>4
<1>5. CASE End(c)
  <2>1. PICK got : /\ inbox' = [Put(inbox, m, got) EXCEPT ![c] = <<>>]
                   /\ closed' = [closed EXCEPT ![c] = @ \/ Server \in got]
    BY <1>1, <1>5 DEF End
  <2>2. closed[c] \/ Server \in got
    BY <1>3, <2>1
  <2>3. inbox'[Server] = Put(inbox, m, got)[Server]
    BY <1>3, <2>1, PutSound
  <2>4. Put(inbox, m, got)[Server] =
          IF Server \in got THEN Append(inbox[Server], m) ELSE inbox[Server]
    BY <1>3, PutSlides
  <2>5. pc'[c] = "done"
    BY <1>3, <1>5 DEF End, Goto
  <2>. QED
    BY <1>2, <2>2, <2>3, <2>4, <2>5
<1>6. CASE /\ ~ (TypeLine(c) /\ shouldClose[c]) /\ ~ Interrupted(c)
           /\ ~ End(c)
  <2>1. closed' = closed
    BY <1>6 DEF Client, Start, TypeLine, EmptyLineOrEof, Send, SendFails,
       Wait, GiveUp, TimeOut, NoAnswer, ReceiveReply, ReceiveRequest, Signal
  <2>2. closed[c] /\ pc[c] \in {"end", "done"}
    BY <2>1 DEF Forgets
  <2>3. Signal(c)
    BY <1>6, <2>2 DEF Client, Start, TypeLine, EmptyLineOrEof, Send, SendFails,
       Wait, GiveUp, TimeOut, ReceiveReply, ReceiveRequest
  <2>. QED
    BY <1>2, <2>2, <2>3 DEF Signal
<1>. QED
  BY <1>4, <1>5, <1>6

\* What the server answers with.
LEMMA AnswerShape ==
  ASSUME IEcho, Answer
  PROVE  \E i \in Entries, m \in Sound :
           /\ inbox[Server] # <<>> /\ Head(inbox[Server]) \in Sound
           /\ Head(inbox[Server]).kind = "data"
           /\ CountMessage(HostOf[Head(inbox[Server]).of], i)
           /\ m = [Head(inbox[Server]) EXCEPT
                    !.kind = "reply",
                    !.number = Number(HostOf[Head(inbox[Server]).of], i)]
           /\ \E got \in Lossy(ReplySockets(HostOf[Head(inbox[Server]).of])) :
                inbox' = Put(Taken, m, got)
<1> DEFINE p == Head(inbox[Server])
           h == HostOf[p.of]
<1>1. PICK i \in Entries :
        /\ CountMessage(h, i)
        /\ \E got \in Lossy(ReplySockets(h)) :
             inbox' = Put(Taken, [p EXCEPT !.kind = "reply",
                                           !.number = Number(h, i)], got)
  BY DEF Answer
<1>2. p \in Sound /\ p.kind = "data" /\ inbox[Server] # <<>>
  BY TailSound DEF Answer, Incoming, IEcho, Sockets
<1>3. Number(h, i) \in Nat
  BY DEF Number, IEcho, TypeOK, ServerTypeOK, Entry
<1>4. [p EXCEPT !.kind = "reply", !.number = Number(h, i)] \in Sound
  BY <1>2, <1>3 DEF Sound
<1>. QED
  BY <1>1, <1>2, <1>4

\* The server's socket loses its first packet and may get a reply; the table
\* changes at most for the host that the packet came from.
LEMMA ServerReads ==
  ASSUME IEcho, IServer, IServer', Answer \/ TooMany \/ TakeClose \/ OtherPort
  PROVE  /\ UNCHANGED clientVars
         /\ inbox[Server] \in Seq(Sound) /\ inbox[Server] # <<>>
         /\ Head(inbox[Server]) \in Sound
         /\ \E m \in Sound :
              /\ m.kind = "reply"
              /\ \/ inbox'[Server] = Tail(inbox[Server])
                 \/ inbox'[Server] = Append(Tail(inbox[Server]), m)
         /\ \A a \in Addresses :
              \/ EntriesOf(a)' = EntriesOf(a) /\ NumberOf(a)' = NumberOf(a)
              \/ /\ HostOf[Head(inbox[Server]).of] = a
                 /\ \/ Head(inbox[Server]).kind = "data" /\ Answer
                    \/ Head(inbox[Server]).kind = "CLOSE"
         /\ \A a \in Addresses :
              /\ HostOf[Head(inbox[Server]).of] = a
              /\ Head(inbox[Server]).kind = "CLOSE"
              => EntriesOf(a)' = {} /\ NumberOf(a)' = 0
<1>1. /\ UNCHANGED clientVars
      /\ inbox[Server] # <<>> /\ Head(inbox[Server]) \in Sound
      /\ Taken \in [Sockets -> Seq(Sound)] /\ Taken[Server] = Tail(inbox[Server])
      /\ inbox[Server] \in Seq(Sound) /\ Server \in Sockets
  BY TailSound DEF Answer, TooMany, TakeClose, OtherPort, Incoming, IEcho,
     Sockets, Taken
<1>2. PICK p \in Sound : p = Head(inbox[Server])
  BY <1>1
<1>3. PICK h \in Addresses : h = HostOf[p.of]
  BY <1>1, EchoAssumption DEF Sound
<1>4. CASE Answer
  <2>1. PICK i \in Entries, m \in Sound :
          /\ p.kind = "data" /\ CountMessage(h, i)
          /\ m = [p EXCEPT !.kind = "reply", !.number = Number(h, i)]
          /\ \E got \in Lossy(ReplySockets(h)) : inbox' = Put(Taken, m, got)
    BY <1>2, <1>3, <1>4, AnswerShape
  <2>2. m.kind = "reply"
    BY <1>1, <2>1 DEF Sound
  <2>3. \/ inbox'[Server] = Tail(inbox[Server])
        \/ inbox'[Server] = Append(Tail(inbox[Server]), m)
    <3>1. PICK got : inbox' = Put(Taken, m, got)
      BY <2>1
    <3>2. Put(Taken, m, got)[Server] = IF Server \in got
            THEN Append(Taken[Server], m) ELSE Taken[Server]
      BY <1>1 DEF Put
    <3>. QED
      BY <1>1, <3>1, <3>2
  <2>4. \A a \in Addresses : a # h =>
          EntriesOf(a)' = EntriesOf(a) /\ NumberOf(a)' = NumberOf(a)
    BY <2>1, CountNumbers
  <2>. QED
    BY <1>1, <1>2, <1>3, <1>4, <2>1, <2>2, <2>3, <2>4
<1>5. PICK m \in Sound : m.kind = "reply"
  <2>1. /\ [p EXCEPT !.kind = "reply"] \in Sound
        /\ [p EXCEPT !.kind = "reply"].kind = "reply"
    BY DEF Sound
  <2>. QED
    BY <2>1
<1>6. CASE TakeClose
  <2>1. /\ CloseClient(h) /\ p.kind = "CLOSE"
        /\ inbox'[Server] = Tail(inbox[Server])
    BY <1>1, <1>2, <1>3, <1>6 DEF TakeClose, Incoming
  <2>2. /\ EntriesOf(h)' = {} /\ NumberOf(h)' = 0
        /\ \A a \in Addresses : a # h =>
             EntriesOf(a)' = EntriesOf(a) /\ NumberOf(a)' = NumberOf(a)
    BY <2>1, CloseNumbers
  <2>. QED
    BY <1>1, <1>2, <1>3, <1>5, <2>1, <2>2
<1>7. CASE TooMany \/ OtherPort
  <2>1. clients' = clients /\ inbox' = Taken
    BY <1>7 DEF TooMany, OtherPort, Refuse, IgnorePacket
  <2>2. \A a : EntriesOf(a)' = EntriesOf(a) /\ NumberOf(a)' = NumberOf(a)
    BY <2>1 DEF EntriesOf, NumberOf, First
  <2>3. p.kind # "CLOSE" /\ inbox'[Server] = Tail(inbox[Server])
    BY <1>1, <1>2, <1>7, <2>1 DEF TooMany, OtherPort, Incoming
  <2>. QED
    BY <1>1, <1>2, <1>5, <2>2, <2>3
<1>. QED
  BY <1>4, <1>6, <1>7

LEMMA ServerForgets ==
  ASSUME IEcho, IServer, IServer', NEW c \in Clients, Alone(c), Forgets(c),
         Answer \/ TooMany \/ TakeClose \/ OtherPort
  PROVE  Forgets(c)'
<1> SUFFICES ASSUME closed'[c]
             PROVE  /\ pc'[c] \in {"end", "done"}
                    /\ \/ CloseIn(inbox'[Server], c)
                       \/ /\ EntriesOf(HostOf[c])' = {}
                          /\ NoData(inbox'[Server], c, 1)
  BY DEF Forgets, NoData, CloseIn
<1>1. PICK q : q = inbox[Server]
  OBVIOUS
<1>2. PICK r : r = inbox'[Server]
  OBVIOUS
<1>3. PICK m \in Sound :
        m.kind = "reply" /\ (r = Tail(q) \/ r = Append(Tail(q), m))
  BY <1>1, <1>2, ServerReads
<1>4. /\ q \in Seq(Sound) /\ q # <<>> /\ Head(q) \in Sound
      /\ Tail(q) \in Seq(Sound)
      /\ pc'[c] = pc[c] /\ closed[c]
  BY <1>1, ServerReads DEF clientVars
<1>5. /\ NoData(Tail(q), c, 1) => NoData(r, c, 1)
      /\ CloseIn(Tail(q), c) => CloseIn(r, c)
  <2>1. PICK t \in Seq(Sound) : t = Tail(q)
    BY <1>4
  <2>2. /\ NoData(t, c, 1) => NoData(Append(t, m), c, 1)
        /\ CloseIn(t, c) => CloseIn(Append(t, m), c)
    BY <1>3, DataBehind
  <2>. QED
    BY <1>3, <2>1, <2>2
<1>6. PICK h \in Addresses :
        h = HostOf[c] /\ (Head(q).of # c => HostOf[Head(q).of] # h)
  BY <1>4, EchoAssumption DEF Alone, Sound
<1>7. CASE CloseIn(q, c)
  <2>1. CASE CloseIn(Tail(q), c)
    BY <1>1, <1>2, <1>4, <1>5, <2>1 DEF Forgets
  <2>2. CASE /\ Head(q).of = c /\ Head(q).kind = "CLOSE"
             /\ NoData(Tail(q), c, 1)
    <3>1. EntriesOf(h)' = {}
      BY <1>1, <1>6, <2>2, ServerReads
    <3>. QED
      BY <1>2, <1>4, <1>5, <1>6, <2>2, <3>1 DEF Forgets
  <2>. QED
    BY <1>4, <1>7, <2>1, <2>2, DataAhead
<1>8. CASE EntriesOf(HostOf[c]) = {} /\ NoData(q, c, 1)
  <2>1. NoData(r, c, 1)
    BY <1>4, <1>5, <1>8, DataAhead
  <2>2. Head(q).of = c => Head(q).kind # "data"
    BY <1>4, <1>8, TailItems DEF NoData
  <2>3. EntriesOf(h)' = {}
    BY <1>1, <1>6, <1>8, <2>2, ServerReads
  <2>. QED
    BY <1>2, <1>4, <1>6, <2>1, <2>3 DEF Forgets
<1>. QED
  BY <1>1, <1>4, <1>7, <1>8 DEF Forgets

LEMMA ClientForgets ==
  ASSUME IEcho, NEW c \in Clients, Forgets(c), NEW d \in Clients, Client(d)
  PROVE  Forgets(c)'
<1> SUFFICES ASSUME closed'[c]
             PROVE  /\ pc'[c] \in {"end", "done"}
                    /\ \/ CloseIn(inbox'[Server], c)
                       \/ /\ EntriesOf(HostOf[c])' = {}
                          /\ NoData(inbox'[Server], c, 1)
  BY DEF Forgets, NoData, CloseIn
<1>1. EntriesOf(HostOf[c])' = EntriesOf(HostOf[c])
  <2>1. clients' = clients
    BY DEF serverVars, Client, Start, TypeLine, EmptyLineOrEof, Send, SendFails,
       Wait, GiveUp, TimeOut, NoAnswer, ReceiveReply, ReceiveRequest, Signal,
       Interrupted, End
  <2>. QED
    BY <2>1 DEF EntriesOf
<1>2. inbox[Server] \in Seq(Sound) /\ Server \in Sockets /\ d # Server
  BY SoundBox
<1>3. CASE d # c
  <2>1. PICK m \in Sound : /\ m.of = d
                           /\ \/ inbox'[Server] = inbox[Server]
                              \/ inbox'[Server] = Append(inbox[Server], m)
    BY <1>2, ClientSends DEF Gets
  <2>2. /\ NoData(inbox[Server], c, 1) => NoData(inbox'[Server], c, 1)
        /\ CloseIn(inbox[Server], c) => CloseIn(inbox'[Server], c)
    <3>1. PICK q \in Seq(Sound) : q = inbox[Server]
      BY <1>2
    <3>2. /\ NoData(q, c, 1) => NoData(Append(q, m), c, 1)
          /\ CloseIn(q, c) => CloseIn(Append(q, m), c)
      BY <1>3, <2>1, DataBehind
    <3>. QED
      BY <2>1, <3>1, <3>2
  <2>3. pc'[c] = pc[c] /\ closed[c]
    BY <1>3, OthersStay
  <2>. QED
    BY <1>1, <2>2, <2>3 DEF Forgets
<1>4. CASE d = c
  <2>1. PICK m \in Sound :
          /\ m.of = c /\ m.kind = "CLOSE"
          /\ \/ closed[c] /\ inbox'[Server] = inbox[Server]
             \/ inbox'[Server] = Append(inbox[Server], m)
    BY <1>4, ClosesOnly
  <2>2. pc'[c] \in {"end", "done"}
    BY <1>4, ClosesOnly
  <2>3. inbox'[Server] = Append(inbox[Server], m) => CloseIn(inbox'[Server], c)
    BY <1>2, <2>1, DataBehind
  <2>. QED
    BY <1>1, <2>1, <2>2, <2>3 DEF Forgets
<1>. QED
  BY <1>3, <1>4

LEMMA NextForgets ==
  ASSUME IEcho, IServer, IServer', [Next]_vars, NEW c \in Clients, Alone(c),
         Forgets(c)
  PROVE  Forgets(c)'
<1>1. CASE UNCHANGED vars \/ StopServer
  BY <1>1 DEF vars, serverVars, clientVars, StopServer, ServerSignal, Forgets,
     EntriesOf, NoData, CloseIn
<1>2. CASE Answer \/ TooMany \/ TakeClose \/ OtherPort
  BY <1>2, ServerForgets
<1>. QED
  BY <1>1, <1>2, ClientForgets DEF Next

AllForget == \A c \in Clients : Alone(c) => Forgets(c)

LEMMA ForgetsInvariant == Spec => [](IEcho /\ IServer /\ AllForget)
<1>1. Init => AllForget
  BY DEF Init, AllForget, Forgets
<1>2. IEcho /\ IServer /\ AllForget /\ [Next]_vars /\ IServer' => AllForget'
  <2> SUFFICES ASSUME IEcho, IServer, AllForget, [Next]_vars, IServer',
                      NEW c \in Clients, Alone(c)'
               PROVE  Forgets(c)'
    BY DEF AllForget
  <2>1. Alone(c)
    BY DEF Alone
  <2>. QED
    BY <2>1, NextForgets DEF AllForget
<1>. QED
  BY <1>1, <1>2, EchoInvariant, PTL DEF Spec

(***************************************************************************)
(* A client told to stop, one of whose CLOSEs got through, has no entry    *)
(* once the server has read its packets: no message of it comes after its  *)
(* last CLOSE and registers it anew.                                       *)
(***************************************************************************)
THEOREM NoEntryLeft == Spec => []ClosedIsForgotten
<1>1. IEcho /\ AllForget => ClosedIsForgotten
  <2> SUFFICES ASSUME IEcho, AllForget, NEW c \in Clients, Alone(c), closed[c],
                      \A i \in 1 .. Len(inbox[Server]) : inbox[Server][i].of # c
               PROVE  EntriesOf(HostOf[c]) = {}
    BY DEF ClosedIsForgotten
  <2>1. ~ CloseIn(inbox[Server], c)
    BY DEF CloseIn
  <2>. QED
    BY <2>1 DEF AllForget, Forgets
<1>. QED
  BY <1>1, ForgetsInvariant, PTL
-----------------------------------------------------------------------------
(***************************************************************************)
(* The answers to a client.                                                *)
(***************************************************************************)

\* A packet of c that the server is to answer, one of c that it reads, and one
\* that a client prints.
Asks(p, c) == p.kind = "data" /\ p.of = c
Requests(p, c) == p.kind # "reply" /\ p.of = c
Tells(p) == p.kind = "reply"

(***************************************************************************)
(* The lines of c from the last answer it printed (old) over the replies   *)
(* it has not read (in b) and the messages the server has not read (in q)  *)
(* to the last line it sent (new): each comes after all those before it.   *)
(***************************************************************************)
Lined(b, q, c, old, new) ==
  /\ old <= new
  /\ \A k \in 1 .. Len(b) : Tells(b[k]) =>
       b[k].of = c /\ old < b[k].id /\ b[k].id <= new
  /\ \A l \in 1 .. Len(q) : Asks(q[l], c) => old < q[l].id /\ q[l].id <= new
  /\ \A j, k \in 1 .. Len(b) :
       j < k /\ Tells(b[j]) /\ Tells(b[k]) => b[j].id < b[k].id
  /\ \A j, l \in 1 .. Len(q) :
       j < l /\ Asks(q[j], c) /\ Asks(q[l], c) => q[j].id < q[l].id
  /\ \A k \in 1 .. Len(b), l \in 1 .. Len(q) :
       Tells(b[k]) /\ Asks(q[l], c) => b[k].id < q[l].id

Ordered(c) == Lined(inbox[c], inbox[Server], c, printed[c].id, sent[c])

NoRequest(q, c) == \A l \in 1 .. Len(q) : ~ Requests(q[l], c)
NoAsk(q, c) == \A l \in 1 .. Len(q) : ~ Asks(q[l], c)
NoReply(b) == \A k \in 1 .. Len(b) : ~ Tells(b[k])

\* Everything that c has sent (n lines) has been answered (with number), and
\* the answers are printed.
Calm(b, q, c, number, n) == NoRequest(q, c) /\ NoReply(b) /\ number = n

\* The answer to the last line of c is all that is under way to it.
Answered(b, q, c, number, n) ==
  /\ NoRequest(q, c) /\ number = n
  /\ \A k \in 1 .. Len(b) : Tells(b[k]) => b[k].id = n /\ b[k].number = n

\* The last line of c is all that is under way to the server.
Unanswered(b, q, c, number, n) ==
  /\ NoReply(b) /\ number + 1 = n
  /\ \A l \in 1 .. Len(q) : Requests(q[l], c) =>
       /\ Asks(q[l], c) /\ q[l].id = n
       /\ \A j \in 1 .. Len(q) : Requests(q[j], c) => j = l

Awaits(b, q, c, number, n) ==
  \/ Answered(b, q, c, number, n)
  \/ Unanswered(b, q, c, number, n)
  \/ NoReply(b) /\ NoAsk(q, c)

Typing == {"off", "prompt", "send"}
Waiting == {"wait", "select"}

\* As long as every wait has ended with a reply.
Follows(c) ==
  ~ late[c] =>
    /\ pc[c] \in Typing =>
         Calm(inbox[c], inbox[Server], c, NumberOf(HostOf[c]), sent[c])
    /\ pc[c] \in Waiting =>
         Awaits(inbox[c], inbox[Server], c, NumberOf(HostOf[c]), sent[c])

InTurn(c) == Ordered(c) /\ Follows(c)

AllInTurn == \A c \in Clients : Alone(c) => InTurn(c)

\* The line printed comes before what stays, and all that before what comes in.
Fits(b, q, c, e, f, m, p, old, new) ==
  /\ \A k \in 1 .. Len(b) : k > e /\ Tells(b[k]) =>
       /\ old < b[k].id
       /\ Tells(m) => b[k].id < m.id
       /\ Asks(p, c) => b[k].id < p.id
  /\ \A l \in 1 .. Len(q) : l > f /\ Asks(q[l], c) =>
       /\ old < q[l].id
       /\ Tells(m) => m.id < q[l].id
       /\ Asks(p, c) => q[l].id < p.id
  /\ Tells(m) => m.of = c /\ old < m.id /\ m.id <= new
  /\ Asks(p, c) => old < p.id /\ p.id <= new /\ ~ Tells(m)

\* The lines stay in order when the buffers slide.
LEMMA LinedSlides ==
  ASSUME NEW b \in Seq(Sound), NEW q \in Seq(Sound), NEW c,
         NEW old, NEW new \in Nat,
         Lined(b, q, c, old, new),
         NEW b1, NEW q1, NEW e, NEW f, NEW m \in Sound, NEW p \in Sound,
         Slides(b, b1, e, m), Slides(q, q1, f, p),
         Len(b1) \in Nat, Len(q1) \in Nat,
         NEW old1, NEW new1 \in Nat, new <= new1, old1 <= new1,
         Fits(b, q, c, e, f, m, p, old1, new1)
  PROVE  Lined(b1, q1, c, old1, new1)
<1>1. /\ e \in {0, 1} /\ f \in {0, 1} /\ Len(b) \in Nat /\ Len(q) \in Nat
      /\ \A k \in 1 .. Len(b) : b[k] \in Sound
      /\ \A l \in 1 .. Len(q) : q[l] \in Sound
      /\ \A r \in Sound : r.id \in Nat
  <2>1. \A r \in Sound : r.id \in Nat
    BY DEF Sound
  <2>2. e \in {0, 1} /\ f \in {0, 1}
    BY DEF Slides
  <2>. QED
    BY <2>1, <2>2
<1>2. \A k \in 1 .. Len(b1) :
        \/ /\ k + e \in 1 .. Len(b) /\ k + e > e
           /\ b1[k] = b[k + e] /\ b1[k] \in Sound
        \/ k + e = Len(b) + 1 /\ b1[k] = m
  BY <1>1 DEF Slides
<1>3. \A l \in 1 .. Len(q1) :
        \/ /\ l + f \in 1 .. Len(q) /\ l + f > f
           /\ q1[l] = q[l + f] /\ q1[l] \in Sound
        \/ l + f = Len(q) + 1 /\ q1[l] = p
  BY <1>1 DEF Slides
<1>4. ASSUME NEW k \in 1 .. Len(b1), Tells(b1[k])
      PROVE  b1[k].of = c /\ old1 < b1[k].id /\ b1[k].id <= new1
  <2>1. CASE b1[k] = m
    BY <1>4, <2>1 DEF Fits
  <2>2. CASE /\ k + e \in 1 .. Len(b) /\ k + e > e
             /\ b1[k] = b[k + e] /\ b1[k] \in Sound
    <3>1. b1[k].of = c /\ b1[k].id <= new /\ old1 < b1[k].id
      BY <1>4, <2>2 DEF Lined, Fits
    <3>2. b1[k].id \in Nat
      BY <1>1, <2>2
    <3>. QED
      BY <3>1, <3>2
  <2>. QED
    BY <1>2, <2>1, <2>2
<1>5. ASSUME NEW l \in 1 .. Len(q1), Asks(q1[l], c)
      PROVE  old1 < q1[l].id /\ q1[l].id <= new1
  <2>1. CASE q1[l] = p
    BY <1>5, <2>1 DEF Fits
  <2>2. CASE /\ l + f \in 1 .. Len(q) /\ l + f > f
             /\ q1[l] = q[l + f] /\ q1[l] \in Sound
    <3>1. q1[l].id <= new /\ old1 < q1[l].id
      BY <1>5, <2>2 DEF Lined, Fits
    <3>2. q1[l].id \in Nat
      BY <1>1, <2>2
    <3>. QED
      BY <3>1, <3>2
  <2>. QED
    BY <1>3, <2>1, <2>2
<1>6. ASSUME NEW j \in 1 .. Len(b1), NEW k \in 1 .. Len(b1), j < k,
             Tells(b1[j]), Tells(b1[k])
      PROVE  b1[j].id < b1[k].id
  <2>0. j + e < k + e /\ (k + e \in 1 .. Len(b) \/ k + e = Len(b) + 1)
    BY <1>1, <1>2, <1>6
  <2>1. j + e \in 1 .. Len(b) /\ b1[j] = b[j + e] /\ j + e > e /\ j + e < k + e
    <3>1. j + e # Len(b) + 1
      BY <1>1, <2>0
    <3>. QED
      BY <1>2, <2>0, <3>1
  <2>2. CASE k + e \in 1 .. Len(b) /\ b1[k] = b[k + e]
    BY <1>6, <2>1, <2>2 DEF Lined
  <2>3. CASE b1[k] = m
    BY <1>6, <2>1, <2>3 DEF Fits
  <2>. QED
    BY <1>2, <2>2, <2>3
<1>7. ASSUME NEW j \in 1 .. Len(q1), NEW l \in 1 .. Len(q1), j < l,
             Asks(q1[j], c), Asks(q1[l], c)
      PROVE  q1[j].id < q1[l].id
  <2>0. j + f < l + f /\ (l + f \in 1 .. Len(q) \/ l + f = Len(q) + 1)
    BY <1>1, <1>3, <1>7
  <2>1. j + f \in 1 .. Len(q) /\ q1[j] = q[j + f] /\ j + f > f /\ j + f < l + f
    <3>1. j + f # Len(q) + 1
      BY <1>1, <2>0
    <3>. QED
      BY <1>3, <2>0, <3>1
  <2>2. CASE l + f \in 1 .. Len(q) /\ q1[l] = q[l + f]
    BY <1>7, <2>1, <2>2 DEF Lined
  <2>3. CASE q1[l] = p
    BY <1>7, <2>1, <2>3 DEF Fits
  <2>. QED
    BY <1>3, <2>2, <2>3
<1>8. ASSUME NEW k \in 1 .. Len(b1), NEW l \in 1 .. Len(q1),
             Tells(b1[k]), Asks(q1[l], c)
      PROVE  b1[k].id < q1[l].id
  <2>1. CASE b1[k] = m
    <3>1. l + f \in 1 .. Len(q) /\ l + f > f /\ q1[l] = q[l + f]
      BY <1>3, <1>8, <2>1 DEF Fits
    <3>. QED
      BY <1>8, <2>1, <3>1 DEF Fits
  <2>2. CASE k + e \in 1 .. Len(b) /\ k + e > e /\ b1[k] = b[k + e]
    <3>1. CASE q1[l] = p
      BY <1>8, <2>2, <3>1 DEF Fits
    <3>2. CASE l + f \in 1 .. Len(q) /\ q1[l] = q[l + f]
      BY <1>8, <2>2, <3>2 DEF Lined
    <3>. QED
      BY <1>3, <3>1, <3>2
  <2>. QED
    BY <1>2, <2>1, <2>2
<1>. QED
  BY <1>4, <1>5, <1>6, <1>7, <1>8 DEF Lined

\* Where a client stands stays when nothing comes in but what is not for it.
LEMMA FollowSlides ==
  ASSUME NEW b, NEW q, NEW c, NEW number, NEW n,
         Len(b) \in Nat, Len(q) \in Nat,
         NEW b1, NEW q1, NEW e, NEW f, NEW m, NEW p,
         Slides(b, b1, e, m), Slides(q, q1, f, p),
         Len(b1) \in Nat, Len(q1) \in Nat,
         ~ Tells(m), ~ Requests(p, c)
  PROVE  /\ NoReply(b) => NoReply(b1)
         /\ NoAsk(q, c) => NoAsk(q1, c)
         /\ Calm(b, q, c, number, n) => Calm(b1, q1, c, number, n)
         /\ Awaits(b, q, c, number, n) => Awaits(b1, q1, c, number, n)
<1>1. e \in {0, 1} /\ f \in {0, 1}
  BY DEF Slides
<1>2. \A k \in 1 .. Len(b1) : Tells(b1[k]) =>
        k + e \in 1 .. Len(b) /\ b1[k] = b[k + e]
  BY <1>1 DEF Slides
<1>3. \A l \in 1 .. Len(q1) : Requests(q1[l], c) =>
        l + f \in 1 .. Len(q) /\ q1[l] = q[l + f]
  BY <1>1 DEF Slides
<1>4. \A l \in 1 .. Len(q1) : Asks(q1[l], c) => Requests(q1[l], c)
  BY DEF Asks, Requests
<1>5. NoReply(b) => NoReply(b1)
  BY <1>2 DEF NoReply
<1>6. NoRequest(q, c) => NoRequest(q1, c)
  BY <1>3 DEF NoRequest
<1>7. NoAsk(q, c) => NoAsk(q1, c)
  BY <1>3, <1>4 DEF NoAsk
<1>8. Answered(b, q, c, number, n) => Answered(b1, q1, c, number, n)
  BY <1>2, <1>6 DEF Answered
<1>9. ASSUME Unanswered(b, q, c, number, n)
      PROVE  Unanswered(b1, q1, c, number, n)
  <2>1. ASSUME NEW l \in 1 .. Len(q1), Requests(q1[l], c)
        PROVE  /\ Asks(q1[l], c) /\ q1[l].id = n
               /\ \A j \in 1 .. Len(q1) : Requests(q1[j], c) => j = l
    <3>1. Asks(q1[l], c) /\ q1[l].id = n
      BY <1>3, <1>9, <2>1 DEF Unanswered
    <3>2. ASSUME NEW j \in 1 .. Len(q1), Requests(q1[j], c) PROVE j = l
      <4>1. j + f = l + f
        BY <1>3, <1>9, <2>1, <3>2 DEF Unanswered
      <4>. QED
        BY <1>1, <4>1
    <3>. QED
      BY <3>1, <3>2
  <2>. QED
    BY <1>5, <1>9, <2>1 DEF Unanswered
<1>. QED
  BY <1>5, <1>6, <1>7, <1>8, <1>9 DEF Calm, Awaits

(***************************************************************************)
(* What a step brings about for c, in its buffers, its place and its       *)
(* number, when it neither sends nor prints a line of c nor answers one.   *)
(***************************************************************************)
QuietIn(c) ==
  \E e, f \in {0, 1}, m, p \in Sound :
    /\ Slides(inbox[c], inbox'[c], e, m) /\ ~ Tells(m)
    /\ Slides(inbox[Server], inbox'[Server], f, p) /\ ~ Asks(p, c)
    /\ Requests(p, c) => pc'[c] \in {"end", "done"}

QuietAt(c) ==
  /\ sent'[c] = sent[c] /\ printed'[c] = printed[c]
  /\ \/ late'[c] \/ pc'[c] \in {"close", "end", "done"}
     \/ /\ late'[c] = late[c]
        /\ pc'[c] \in Typing => pc[c] \in Typing
        /\ pc'[c] \in Waiting => pc[c] \in Waiting

QuietNumber(c) ==
  \/ NumberOf(HostOf[c])' = NumberOf(HostOf[c])
  \/ /\ inbox[Server] # <<>> /\ Head(inbox[Server]).of = c
     /\ Head(inbox[Server]).kind = "CLOSE"

Quiet(c) == QuietIn(c) /\ QuietAt(c) /\ QuietNumber(c)

\* Any packet that is no reply, or that is one: something to slide in.
LEMMA SomePackets ==
  ASSUME IEcho, NEW c \in Clients
  PROVE  /\ \E m \in Sound : m.of = c /\ m.kind = "CLOSE"
         /\ \E m \in Sound : m.of = c /\ m.kind = "reply"
<1>1. Request(c, "CLOSE", 0) \in Sound
  BY SoundBox
<1>2. Request(c, "CLOSE", 0).of = c /\ Request(c, "CLOSE", 0).kind = "CLOSE"
  BY DEF Request
<1>3. /\ [kind |-> "reply", of |-> c, id |-> 0, number |-> 0] \in Sound
      /\ [kind |-> "reply", of |-> c, id |-> 0, number |-> 0].of = c
      /\ [kind |-> "reply", of |-> c, id |-> 0, number |-> 0].kind = "reply"
  BY DEF Sound
<1>. QED
  BY <1>1, <1>2, <1>3

LEMMA OtherIsQuiet ==
  ASSUME IEcho, NEW c \in Clients, NEW d \in Clients, Client(d), d # c
  PROVE  Quiet(c)
<1>1. /\ Server \in Sockets /\ c \in Sockets /\ d # Server /\ c # d
      /\ inbox[Server] \in Seq(Sound) /\ inbox[c] \in Seq(Sound)
  BY SoundBox
<1>2. PICK m \in Sound :
        m.of = d /\ m.kind # "reply" /\ Slides(inbox[c], inbox'[c], 0, m)
  BY <1>1, ClientSends DEF Gets
<1>3. PICK p \in Sound : p.of = d /\ Slides(inbox[Server], inbox'[Server], 0, p)
  BY <1>1, ClientSends DEF Gets
<1>4. QuietIn(c)
  <2>1. ~ Tells(m) /\ ~ Asks(p, c) /\ ~ Requests(p, c)
    BY <1>1, <1>2, <1>3 DEF Tells, Asks, Requests
  <2>. QED
    BY <1>2, <1>3, <2>1 DEF QuietIn
<1>5. QuietAt(c)
  BY <1>1, OthersStay DEF QuietAt
<1>6. QuietNumber(c)
  <2>1. clients' = clients
    BY DEF serverVars, Client, Start, TypeLine, EmptyLineOrEof, Send, SendFails,
       Wait, GiveUp, TimeOut, NoAnswer, ReceiveReply, ReceiveRequest, Signal,
       Interrupted, End
  <2>. QED
    BY <2>1 DEF QuietNumber, NumberOf, EntriesOf, First
<1>. QED
  BY <1>4, <1>5, <1>6 DEF Quiet

\* The steps of c itself that say CLOSE.
LEMMA CloseIsQuiet ==
  ASSUME IEcho, NEW c \in Clients,
         (TypeLine(c) /\ shouldClose[c]) \/ Interrupted(c) \/ End(c)
  PROVE  QuietIn(c) /\ pc'[c] \in {"end", "done"}
<1>1. PICK m \in Sound : m = Request(c, "CLOSE", sent[c])
  BY SoundBox
<1>2. ~ Tells(m) /\ ~ Asks(m, c)
  BY <1>1 DEF Request, Tells, Asks
<1>3. /\ c # Server /\ c \in Sockets /\ Server \in Sockets
      /\ inbox \in [Sockets -> Seq(Sound)]
      /\ inbox[Server] \in Seq(Sound) /\ inbox[c] \in Seq(Sound)
      /\ pc \in [Clients -> {"off", "prompt", "send", "wait", "select",
                             "close", "end", "done"}]
  BY SoundBox DEF IEcho, TypeOK
<1>4. pc'[c] \in {"end", "done"}
  BY <1>3 DEF TypeLine, Interrupted, End, Goto
<1>5. PICK got : \/ inbox' = Put(inbox, m, got)
                 \/ inbox' = [Put(inbox, m, got) EXCEPT ![c] = <<>>]
  BY <1>1 DEF TypeLine, Interrupted, End, SendClose
<1>6. /\ Slides(inbox[Server], Put(inbox, m, got)[Server], 0, m)
      /\ Slides(inbox[c], Put(inbox, m, got)[c], 0, m)
      /\ Slides(inbox[c], <<>>, 0, m)
      /\ Put(inbox, m, got) \in [Sockets -> Seq(Sound)]
  BY <1>3, PutSlides, PutSound, Slide DEF Gets
<1>7. inbox'[Server] = Put(inbox, m, got)[Server]
      /\ (inbox'[c] = Put(inbox, m, got)[c] \/ inbox'[c] = <<>>)
  BY <1>3, <1>5, <1>6
<1>8. /\ Slides(inbox[Server], inbox'[Server], 0, m)
      /\ Slides(inbox[c], inbox'[c], 0, m)
  BY <1>6, <1>7
<1>. QED
  BY <1>2, <1>4, <1>8 DEF QuietIn

LEMMA OwnIsQuiet ==
  ASSUME IEcho, NEW c \in Clients, Client(c), ~ Send(c), ~ ReceiveReply(c)
  PROVE  Quiet(c)
<1>1. /\ c # Server /\ c \in Sockets /\ Server \in Sockets
      /\ inbox \in [Sockets -> Seq(Sound)]
      /\ inbox[Server] \in Seq(Sound) /\ inbox[c] \in Seq(Sound)
      /\ pc \in [Clients -> {"off", "prompt", "send", "wait", "select",
                             "close", "end", "done"}]
      /\ late \in [Clients -> BOOLEAN]
  BY SoundBox DEF IEcho, TypeOK
<1>2. PICK m \in Sound : m.of = c /\ m.kind = "CLOSE"
  BY SomePackets
<1>3. PICK p \in Sound : p.of = c /\ p.kind = "reply"
  BY SomePackets
<1>4. QuietNumber(c)
  <2>1. clients' = clients
    BY DEF serverVars, Client, Start, TypeLine, EmptyLineOrEof, Send, SendFails,
       Wait, GiveUp, TimeOut, NoAnswer, ReceiveReply, ReceiveRequest, Signal,
       Interrupted, End
  <2>. QED
    BY <2>1 DEF QuietNumber, NumberOf, EntriesOf, First
<1>5. sent'[c] = sent[c] /\ printed'[c] = printed[c]
  BY DEF Client, Start, TypeLine, EmptyLineOrEof, SendFails, Wait, GiveUp,
     TimeOut, NoAnswer, ReceiveRequest, Signal, Interrupted, End
<1>6. CASE (TypeLine(c) /\ shouldClose[c]) \/ Interrupted(c) \/ End(c)
  BY <1>4, <1>5, <1>6, CloseIsQuiet DEF Quiet, QuietAt
<1>7. CASE ~ ((TypeLine(c) /\ shouldClose[c]) \/ Interrupted(c) \/ End(c))
  <2>1. QuietAt(c)
    <3>1. CASE GiveUp(c) \/ TimeOut(c)
      BY <1>1, <1>5, <3>1 DEF GiveUp, TimeOut, NoAnswer, QuietAt
    <3>2. CASE Start(c) \/ EmptyLineOrEof(c) \/ SendFails(c) \/ Wait(c)
      BY <1>1, <1>5, <3>2 DEF Start, EmptyLineOrEof, SendFails, Wait, QuietAt,
         Goto, Top, Typing, Waiting
    <3>3. CASE TypeLine(c) \/ ReceiveRequest(c) \/ Signal(c)
      BY <1>1, <1>5, <1>7, <3>3 DEF TypeLine, ReceiveRequest, Signal, QuietAt,
         Goto, Typing, Waiting
    <3>. QED
      BY <1>7, <3>1, <3>2, <3>3 DEF Client
  <2>2. /\ Slides(inbox[Server], inbox[Server], 0, p)
        /\ Slides(inbox[c], inbox[c], 0, m)
        /\ inbox[c] # <<>> => Slides(inbox[c], Tail(inbox[c]), 1, m)
    BY <1>1, Slide
  <2>3. /\ inbox'[Server] = inbox[Server]
        /\ \/ inbox'[c] = inbox[c]
           \/ inbox[c] # <<>> /\ inbox'[c] = Tail(inbox[c])
    BY <1>1, <1>7 DEF Client, Start, TypeLine, EmptyLineOrEof, SendFails, Wait,
       GiveUp, TimeOut, NoAnswer, ReceiveRequest, Signal
  <2>4. ~ Tells(m) /\ ~ Asks(p, c) /\ ~ Requests(p, c)
    BY <1>2, <1>3 DEF Tells, Asks, Requests
  <2>5. PICK e \in {0, 1} : Slides(inbox[c], inbox'[c], e, m)
    BY <2>2, <2>3
  <2>6. QuietIn(c)
    BY <2>2, <2>3, <2>4, <2>5 DEF QuietIn
  <2>. QED
    BY <1>4, <2>1, <2>6 DEF Quiet
<1>. QED
  BY <1>6, <1>7

LEMMA ServerIsQuiet ==
  ASSUME IEcho, IServer, IServer', NEW c \in Clients, Alone(c),
         \/ TooMany \/ TakeClose \/ OtherPort
         \/ Answer /\ Head(inbox[Server]).of # c
  PROVE  Quiet(c)
<1>1. PICK q \in Seq(Sound) : q = inbox[Server] /\ q # <<>> /\ Head(q) \in Sound
  BY ServerReads
<1>2. /\ c # Server /\ c \in Sockets /\ inbox[c] \in Seq(Sound)
      /\ inbox \in [Sockets -> Seq(Sound)]
  BY SoundBox DEF IEcho
<1>3. PICK h \in Addresses : h = HostOf[c] /\ (Head(q).of # c => HostOf[Head(q).of] # h)
  BY <1>1, EchoAssumption DEF Alone, Sound
<1>4. inbox'[c] = inbox[c]
  <2>1. Taken[c] = inbox[c] /\ c \in DOMAIN Taken
    BY <1>2 DEF Taken
  <2>2. CASE Answer /\ Head(inbox[Server]).of # c
    <3>0. PICK m \in Sound :
            \E got \in Lossy(ReplySockets(HostOf[Head(q).of])) :
              inbox' = Put(Taken, m, got)
      BY <1>1, <2>2, AnswerShape
    <3>1. PICK got \in Lossy(ReplySockets(HostOf[Head(q).of])) :
            inbox' = Put(Taken, m, got)
      BY <3>0
    <3>2. c \notin got
      BY <1>1, <1>2, <1>3, <2>2 DEF Lossy, ReplySockets, ClientsAt
    <3>. QED
      BY <2>1, <3>1, <3>2 DEF Put
  <2>. QED
    BY <2>1, <2>2 DEF TooMany, TakeClose, OtherPort
<1>5. PICK p \in Sound :
        /\ p.kind = "reply"
        /\ inbox'[Server] = Tail(q) \/ inbox'[Server] = Append(Tail(q), p)
  BY <1>1, ServerReads
<1>6. PICK m \in Sound : m.of = c /\ m.kind = "CLOSE"
  BY SomePackets
<1>7. /\ Slides(inbox[Server], inbox'[Server], 1, p)
      /\ Slides(inbox[c], inbox'[c], 0, m)
  BY <1>1, <1>2, <1>4, <1>5, Slide
<1>8. ~ Tells(m) /\ ~ Asks(p, c) /\ ~ Requests(p, c)
  BY <1>5, <1>6 DEF Tells, Asks, Requests
<1>9. QuietIn(c)
  BY <1>7, <1>8 DEF QuietIn
<1>10. QuietAt(c)
  BY ServerReads DEF QuietAt, clientVars
<1>11. QuietNumber(c)
  <2>1. CASE TooMany \/ OtherPort
    <3>1. clients' = clients
      BY <2>1 DEF TooMany, OtherPort, Refuse, IgnorePacket
    <3>. QED
      BY <3>1 DEF QuietNumber, NumberOf, EntriesOf, First
  <2>2. CASE TakeClose \/ (Answer /\ Head(q).of # c)
    <3>1. Head(q).kind = "CLOSE" \/ Head(q).of # c
      BY <1>1, <2>2 DEF TakeClose, Incoming
    <3>2. NumberOf(h)' = NumberOf(h) \/ HostOf[Head(q).of] = h
      BY <1>1, ServerReads
    <3>3. NumberOf(h)' = NumberOf(h) \/ Head(q).of = c
      BY <1>3, <3>2
    <3>. QED
      BY <1>1, <1>3, <3>1, <3>3 DEF QuietNumber
  <2>. QED
    BY <1>1, <2>1, <2>2
<1>. QED
  BY <1>9, <1>10, <1>11 DEF Quiet

LEMMA StepOf ==
  ASSUME IEcho, IServer, IServer', [Next]_vars, NEW c \in Clients, Alone(c)
  PROVE  \/ Quiet(c) \/ Send(c) \/ ReceiveReply(c)
         \/ Answer /\ Head(inbox[Server]).of = c
<1>1. CASE UNCHANGED vars \/ StopServer
  <2>1. UNCHANGED <<inbox, clientVars, clients>>
    BY <1>1 DEF vars, serverVars, StopServer, ServerSignal
  <2>2. inbox[Server] \in Seq(Sound) /\ inbox[c] \in Seq(Sound)
    BY SoundBox
  <2>3. PICK m \in Sound : m.of = c /\ m.kind = "CLOSE"
    BY SomePackets
  <2>4. PICK p \in Sound : p.of = c /\ p.kind = "reply"
    BY SomePackets
  <2>5. Slides(inbox[Server], inbox[Server], 0, p) /\ Slides(inbox[c], inbox[c], 0, m)
    BY <2>2, Slide
  <2>6. ~ Tells(m) /\ ~ Asks(p, c) /\ ~ Requests(p, c)
    BY <2>3, <2>4 DEF Tells, Asks, Requests
  <2>7. QuietIn(c)
    BY <2>1, <2>5, <2>6 DEF QuietIn
  <2>8. QuietAt(c) /\ QuietNumber(c)
    BY <2>1 DEF QuietAt, QuietNumber, clientVars, NumberOf, EntriesOf, First
  <2>. QED
    BY <2>7, <2>8 DEF Quiet
<1>2. ASSUME NEW d \in Clients, Client(d)
      PROVE  Quiet(c) \/ Send(c) \/ ReceiveReply(c)
  BY <1>2, OtherIsQuiet, OwnIsQuiet
<1>3. CASE Answer \/ TooMany \/ TakeClose \/ OtherPort
  BY <1>3, ServerIsQuiet
<1>. QED
  BY <1>1, <1>2, <1>3 DEF Next

LEMMA QuietInTurn ==
  ASSUME IEcho, IEcho', NEW c \in Clients, InTurn(c), Quiet(c)
  PROVE  InTurn(c)'
<1>1. PICK e \in {0, 1}, f \in {0, 1}, m \in Sound, p \in Sound :
        /\ Slides(inbox[c], inbox'[c], e, m) /\ ~ Tells(m)
        /\ Slides(inbox[Server], inbox'[Server], f, p) /\ ~ Asks(p, c)
        /\ Requests(p, c) => pc'[c] \in {"end", "done"}
  BY DEF Quiet, QuietIn
<1>2. PICK b \in Seq(Sound), q \in Seq(Sound) : b = inbox[c] /\ q = inbox[Server]
  BY SoundBox
<1>3. /\ inbox' \in [Sockets -> Seq(Sound)] /\ c \in Sockets /\ Server \in Sockets
  BY SoundBox DEF IEcho
<1>4. PICK b1 \in Seq(Sound), q1 \in Seq(Sound) : b1 = inbox'[c] /\ q1 = inbox'[Server]
  BY <1>3
<1>5. PICK old, new \in Nat : old = printed[c].id /\ new = sent[c]
  BY DEF IEcho, TypeOK, Packet
<1>6. Len(b) \in Nat /\ Len(q) \in Nat /\ Len(b1) \in Nat /\ Len(q1) \in Nat
  OBVIOUS
<1>7. sent'[c] = new /\ printed'[c].id = old
  BY <1>5 DEF Quiet, QuietAt
<1>8. Ordered(c)'
  <2>1. Lined(b, q, c, old, new)
    BY <1>2, <1>5 DEF InTurn, Ordered
  <2>2. /\ old <= new
        /\ \A k \in 1 .. Len(b) : Tells(b[k]) => old < b[k].id
        /\ \A l \in 1 .. Len(q) : Asks(q[l], c) => old < q[l].id
    BY <2>1 DEF Lined
  <2>3. /\ Slides(b, b1, e, m) /\ Slides(q, q1, f, p)
        /\ ~ Tells(m) /\ ~ Asks(p, c) /\ new <= new
    BY <1>1, <1>2, <1>4
  <2>a. Fits(b, q, c, e, f, m, p, old, new)
    BY <2>2, <2>3 DEF Fits
  <2>4. Lined(b1, q1, c, old, new)
    BY <1>6, <2>1, <2>2, <2>3, <2>a, LinedSlides
  <2>. QED
    BY <1>4, <1>7, <2>4 DEF Ordered, Lined
<1>9. Follows(c)'
  <2> SUFFICES ASSUME ~ late'[c], NEW number, number = NumberOf(HostOf[c])'
               PROVE  /\ pc'[c] \in Typing => Calm(b1, q1, c, number, new)
                      /\ pc'[c] \in Waiting => Awaits(b1, q1, c, number, new)
    BY <1>4, <1>7 DEF Follows, Calm, Awaits, Answered, Unanswered, NoReply, NoAsk,
       NoRequest
  <2>1. CASE pc'[c] \in {"close", "end", "done"}
    BY <2>1 DEF Typing, Waiting
  <2>2. CASE pc'[c] \notin {"close", "end", "done"}
    <3>0. PICK before : before = NumberOf(HostOf[c])
      OBVIOUS
    <3>1. /\ ~ late[c]
          /\ pc'[c] \in Typing => pc[c] \in Typing
          /\ pc'[c] \in Waiting => pc[c] \in Waiting
          /\ ~ Requests(p, c)
      BY <1>1, <2>2 DEF Quiet, QuietAt
    <3>2. /\ pc'[c] \in Typing => Calm(b, q, c, before, new)
          /\ pc'[c] \in Waiting => Awaits(b, q, c, before, new)
      BY <1>2, <1>5, <3>0, <3>1 DEF InTurn, Follows
    <3>3. /\ NoReply(b) => NoReply(b1)
          /\ NoAsk(q, c) => NoAsk(q1, c)
          /\ Calm(b, q, c, before, new) => Calm(b1, q1, c, before, new)
          /\ Awaits(b, q, c, before, new) => Awaits(b1, q1, c, before, new)
      BY <1>1, <1>2, <1>4, <1>6, <3>1, FollowSlides
    <3>4. CASE number = before
      BY <3>2, <3>3, <3>4
    <3>5. CASE /\ q # <<>> /\ Head(q).of = c /\ Head(q).kind = "CLOSE"
      <4>1. /\ 1 \in 1 .. Len(q) /\ Requests(q[1], c) /\ ~ Asks(q[1], c)
        BY <3>5, TailItems DEF Requests, Asks
      <4>2. ~ Calm(b, q, c, before, new)
        BY <4>1 DEF Calm, NoRequest
      <4>3. Awaits(b, q, c, before, new) => NoReply(b) /\ NoAsk(q, c)
        BY <4>1 DEF Awaits, Answered, Unanswered, NoRequest
      <4>. QED
        BY <3>2, <3>3, <4>2, <4>3 DEF Awaits
    <3>. QED
      BY <1>2, <3>0, <3>4, <3>5 DEF Quiet, QuietNumber
  <2>. QED
    BY <2>1, <2>2
<1>. QED
  BY <1>8, <1>9 DEF InTurn

\* What a step has to show of its new values, each named, to keep c in turn.
LEMMA InTurnAfter ==
  ASSUME NEW c \in Clients, NEW b1, NEW q1, NEW number, NEW new,
         b1 = inbox'[c], q1 = inbox'[Server], number = NumberOf(HostOf[c])',
         new = sent'[c],
         Lined(b1, q1, c, printed'[c].id, new),
         ~ late'[c] => /\ pc'[c] \in Typing => Calm(b1, q1, c, number, new)
                       /\ pc'[c] \in Waiting => Awaits(b1, q1, c, number, new)
  PROVE  InTurn(c)'
BY DEF InTurn, Ordered, Lined, Follows, Calm, Awaits, Answered, Unanswered,
       NoReply, NoAsk, NoRequest

LEMMA SendInTurn ==
  ASSUME IEcho, IEcho', NEW c \in Clients, InTurn(c), Send(c)
  PROVE  InTurn(c)'
<1>1. PICK b \in Seq(Sound), q \in Seq(Sound) : b = inbox[c] /\ q = inbox[Server]
  BY SoundBox
<1>2. /\ inbox' \in [Sockets -> Seq(Sound)] /\ c \in Sockets /\ Server \in Sockets
      /\ inbox \in [Sockets -> Seq(Sound)]
  BY SoundBox DEF IEcho
<1>3. PICK b1 \in Seq(Sound), q1 \in Seq(Sound) : b1 = inbox'[c] /\ q1 = inbox'[Server]
  BY <1>2
<1>4. PICK old, new \in Nat : old = printed[c].id /\ new = sent[c]
  BY DEF IEcho, TypeOK, Packet
<1>5. /\ sent'[c] = new + 1 /\ printed'[c].id = old /\ late'[c] = late[c]
      /\ pc[c] \in Typing /\ pc'[c] = "wait"
  BY <1>4 DEF Send, IEcho, TypeOK, Goto, Typing
<1>6. PICK kind \in {"data", "CLOSE"}, got \in Lossy(RequestSockets) :
        inbox' = Put(inbox, Request(c, kind, sent[c] + 1), got)
  BY DEF Send
<1>7. PICK m \in Sound : m = Request(c, kind, new + 1)
  BY RequestSound
<1>8. m.of = c /\ m.id = new + 1 /\ m.kind = kind /\ ~ Tells(m)
  BY <1>7 DEF Request, Tells
<1>9. /\ Slides(b, b1, 0, m) /\ Slides(q, q1, 0, m)
      /\ q1 = q \/ q1 = Append(q, m)
  <2>1. inbox' = Put(inbox, m, got)
    BY <1>4, <1>6, <1>7
  <2>2. /\ Gets(inbox[c], Put(inbox, m, got)[c], m)
        /\ Gets(inbox[Server], Put(inbox, m, got)[Server], m)
    BY <1>2, PutSlides
  <2>. QED
    BY <1>1, <1>3, <2>1, <2>2 DEF Gets
<1>10. Len(b) \in Nat /\ Len(q) \in Nat /\ Len(b1) \in Nat /\ Len(q1) \in Nat
  OBVIOUS
<1>11. PICK number : number = NumberOf(HostOf[c])
  OBVIOUS
<1>12. number = NumberOf(HostOf[c])'
  BY <1>11 DEF Send, serverVars, NumberOf, EntriesOf, First
<1>13. Lined(b1, q1, c, old, new + 1)
  <2>1. Lined(b, q, c, old, new)
    BY <1>1, <1>4 DEF InTurn, Ordered
  <2>2. /\ old <= new
        /\ \A k \in 1 .. Len(b) : Tells(b[k]) => old < b[k].id /\ b[k].id <= new
        /\ \A l \in 1 .. Len(q) : Asks(q[l], c) => old < q[l].id /\ q[l].id <= new
    BY <2>1 DEF Lined
  <2>3. /\ \A k \in 1 .. Len(b) : b[k].id \in Nat
        /\ \A l \in 1 .. Len(q) : q[l].id \in Nat
    <3>1. \A r \in Sound : r.id \in Nat
      BY DEF Sound
    <3>. QED
      BY <3>1
  <2>4. \A i \in Nat : i <= new => i < m.id
    BY <1>8
  <2>5. /\ new + 1 \in Nat /\ new <= new + 1 /\ old <= new + 1
        /\ old < m.id /\ m.id <= new + 1
    BY <1>8, <2>2
  <2>6. /\ \A k \in 1 .. Len(b) : Tells(b[k]) => old < b[k].id /\ b[k].id < m.id
        /\ \A l \in 1 .. Len(q) : Asks(q[l], c) => old < q[l].id /\ q[l].id < m.id
    BY <2>2, <2>3, <2>4
  <2>7. Fits(b, q, c, 0, 0, m, m, old, new + 1)
    BY <1>8, <2>5, <2>6 DEF Fits
  <2>. QED
    BY <1>9, <1>10, <2>1, <2>5, <2>7, LinedSlides
<1>14. ASSUME ~ late'[c] PROVE Awaits(b1, q1, c, number, new + 1)
  <2>1. Calm(b, q, c, number, new)
    BY <1>1, <1>4, <1>5, <1>11, <1>14 DEF InTurn, Follows
  <2>2. NoReply(b1)
    BY <1>8, <1>9, <1>10, <2>1 DEF Slides, Calm, NoReply
  <2>3. CASE q1 = q
    BY <2>1, <2>2, <2>3 DEF Calm, Awaits, Unanswered, NoRequest
  <2>4. CASE q1 = Append(q, m)
    <3>1. \A l \in 1 .. Len(q1) : Requests(q1[l], c) =>
            l = Len(q) + 1 /\ q1[l] = m
      <4>1. /\ Len(q1) = Len(q) + 1 /\ q1[Len(q) + 1] = m
            /\ \A l \in 1 .. Len(q) : q1[l] = q[l]
        BY <2>4, AppendItems
      <4>. QED
        BY <1>10, <2>1, <4>1 DEF Calm, NoRequest
    <3>2. CASE kind = "data"
      <4>1. Asks(m, c) /\ number + 1 = new + 1
        BY <1>8, <2>1, <3>2 DEF Asks, Calm
      <4>. QED
        BY <1>8, <2>2, <3>1, <4>1 DEF Awaits, Unanswered
    <3>3. CASE kind = "CLOSE"
      <4>1. \A l \in 1 .. Len(q1) : Asks(q1[l], c) => Requests(q1[l], c)
        BY DEF Asks, Requests
      <4>2. NoAsk(q1, c)
        BY <1>8, <3>1, <3>3, <4>1 DEF NoAsk, Asks
      <4>. QED
        BY <2>2, <4>2 DEF Awaits
    <3>. QED
      BY <3>2, <3>3
  <2>. QED
    BY <1>9, <2>3, <2>4
<1>15. pc'[c] \notin Typing
  BY <1>5 DEF Typing
<1>. QED
  BY <1>3, <1>5, <1>12, <1>13, <1>14, <1>15, InTurnAfter

\* The first packet of a buffer that holds lines in order.
LEMMA FirstReply ==
  ASSUME NEW b \in Seq(Sound), b # <<>>, Tells(Head(b)), NEW q \in Seq(Sound),
         NEW c, NEW old, NEW new, Lined(b, q, c, old, new)
  PROVE  /\ 1 \in 1 .. Len(b) /\ b[1] = Head(b) /\ Head(b).of = c
         /\ old < Head(b).id /\ Head(b).id <= new
         /\ \A k \in 1 .. Len(b) : k > 1 /\ Tells(b[k]) => Head(b).id < b[k].id
         /\ \A l \in 1 .. Len(q) : Asks(q[l], c) => Head(b).id < q[l].id
<1>1. 1 \in 1 .. Len(b) /\ b[1] = Head(b)
  BY TailItems
<1>. QED
  BY <1>1 DEF Lined

LEMMA ReplyInTurn ==
  ASSUME IEcho, IEcho', NEW c \in Clients, InTurn(c), ReceiveReply(c)
  PROVE  /\ InTurn(c)'
         /\ printed[c].id < printed'[c].id /\ printed'[c].id <= sent[c]
         /\ ~ late[c] => /\ printed'[c].of = c
                         /\ printed'[c].id = sent[c]
                         /\ printed'[c].number = sent[c]
<1>1. PICK b \in Seq(Sound), q \in Seq(Sound) : b = inbox[c] /\ q = inbox[Server]
  BY SoundBox
<1>2. /\ c \in Sockets /\ Server \in Sockets /\ c # Server
      /\ inbox \in [Sockets -> Seq(Sound)]
  BY SoundBox DEF IEcho
<1>3. /\ b # <<>> /\ Tells(Head(b)) /\ inbox'[c] = Tail(b) /\ inbox'[Server] = q
      /\ printed'[c] = Head(b) /\ sent'[c] = sent[c] /\ late'[c] = late[c]
      /\ pc[c] \in Waiting /\ pc'[c] \notin Waiting
  BY <1>1, <1>2 DEF ReceiveReply, Tells, Waiting, IEcho, TypeOK, Goto, Top
<1>4. PICK b1 \in Seq(Sound) : b1 = inbox'[c] /\ b1 = Tail(b)
  BY <1>3, TailItems
<1>5. PICK old, new \in Nat : old = printed[c].id /\ new = sent[c]
  BY DEF IEcho, TypeOK, Packet
<1>6. PICK r \in Sound : r = Head(b)
  BY <1>3
<1>7. Len(b) \in Nat /\ Len(q) \in Nat /\ Len(b1) \in Nat /\ r.id \in Nat
  <2>1. r.id \in Nat
    BY DEF Sound
  <2>. QED
    BY <2>1
<1>8. Lined(b, q, c, old, new)
  BY <1>1, <1>5 DEF InTurn, Ordered
<1>9. /\ 1 \in 1 .. Len(b) /\ b[1] = r /\ r.of = c
      /\ old < r.id /\ r.id <= new /\ new <= new
      /\ \A k \in 1 .. Len(b) : k > 1 /\ Tells(b[k]) => r.id < b[k].id
      /\ \A l \in 1 .. Len(q) : l > 0 /\ Asks(q[l], c) => r.id < q[l].id
  BY <1>3, <1>6, <1>8, FirstReply
<1>10. PICK m \in Sound : m.of = c /\ m.kind = "CLOSE"
  BY SomePackets
<1>11. ~ Tells(m) /\ ~ Asks(m, c)
  BY <1>10 DEF Tells, Asks
<1>12. Slides(b, b1, 1, m) /\ Slides(q, q, 0, m)
  BY <1>3, <1>4, Slide
<1>13. Lined(b1, q, c, r.id, new)
  <2>1. Fits(b, q, c, 1, 0, m, m, r.id, new)
    BY <1>9, <1>11 DEF Fits
  <2>. QED
    BY <1>7, <1>8, <1>9, <1>12, <2>1, LinedSlides
<1>14. PICK number : number = NumberOf(HostOf[c])
  OBVIOUS
<1>15. number = NumberOf(HostOf[c])'
  BY <1>14 DEF ReceiveReply, serverVars, NumberOf, EntriesOf, First
<1>16. ASSUME ~ late[c]
       PROVE  /\ Calm(b1, q, c, number, new)
              /\ r.id = new /\ r.number = new
  <2>1. Awaits(b, q, c, number, new)
    BY <1>1, <1>3, <1>5, <1>14, <1>16 DEF InTurn, Follows
  <2>2. Tells(b[1])
    BY <1>3, <1>6, <1>9
  <2>3. ~ NoReply(b)
    BY <1>9, <2>2 DEF NoReply
  <2>4. Answered(b, q, c, number, new)
    BY <2>1, <2>3 DEF Awaits, Unanswered
  <2>5. r.id = new /\ r.number = new
    BY <1>9, <2>2, <2>4 DEF Answered
  <2>6. NoReply(b1)
    <3>1. ASSUME NEW k \in 1 .. Len(b1), Tells(b1[k]) PROVE FALSE
      <4>1. k + 1 \in 1 .. Len(b) /\ k + 1 > 1 /\ b1[k] = b[k + 1]
        BY <1>7, <1>11, <1>12, <3>1 DEF Slides
      <4>2. r.id < b[k + 1].id /\ b[k + 1].id = new
        BY <1>9, <2>4, <3>1, <4>1 DEF Answered
      <4>. QED
        BY <1>7, <2>5, <4>2
    <3>. QED
      BY <3>1 DEF NoReply
  <2>. QED
    BY <2>4, <2>5, <2>6 DEF Calm, Answered
<1>17. InTurn(c)'
  BY <1>3, <1>4, <1>5, <1>6, <1>13, <1>15, <1>16, InTurnAfter
<1>. QED
  BY <1>3, <1>5, <1>6, <1>9, <1>16, <1>17

LEMMA AnswerInTurn ==
  ASSUME IEcho, IEcho', IServer, IServer', NEW c \in Clients, InTurn(c),
         Answer, Head(inbox[Server]).of = c
  PROVE  InTurn(c)'
<1>1. PICK b \in Seq(Sound), q \in Seq(Sound) : b = inbox[c] /\ q = inbox[Server]
  BY SoundBox
<1>2. /\ c \in Sockets /\ Server \in Sockets /\ c # Server
      /\ inbox \in [Sockets -> Seq(Sound)] /\ inbox' \in [Sockets -> Seq(Sound)]
  BY SoundBox DEF IEcho
<1>3. PICK b1 \in Seq(Sound), q1 \in Seq(Sound) : b1 = inbox'[c] /\ q1 = inbox'[Server]
  BY <1>2
<1>4. PICK old, new \in Nat : old = printed[c].id /\ new = sent[c]
  BY DEF IEcho, TypeOK, Packet
<1>5. /\ sent'[c] = new /\ printed'[c].id = old /\ late'[c] = late[c]
      /\ pc'[c] = pc[c]
  BY <1>4 DEF Answer, clientVars
<1>6. PICK h \in Addresses : h = HostOf[c]
  BY EchoAssumption
<1>7. PICK i \in Entries, m \in Sound :
        /\ q # <<>> /\ Head(q) \in Sound /\ Head(q).kind = "data"
        /\ CountMessage(h, i)
        /\ m = [Head(q) EXCEPT !.kind = "reply", !.number = Number(h, i)]
        /\ \E got \in Lossy(ReplySockets(h)) : inbox' = Put(Taken, m, got)
  BY <1>1, <1>6, AnswerShape
<1>8. /\ 1 \in 1 .. Len(q) /\ q[1] = Head(q)
      /\ Asks(q[1], c) /\ Requests(q[1], c)
  BY <1>1, <1>7, TailItems DEF Asks, Requests
<1>9. /\ Tells(m) /\ ~ Asks(m, c) /\ ~ Requests(m, c)
      /\ m.of = c /\ m.id = q[1].id /\ m.number = Number(h, i)
  BY <1>1, <1>7, <1>8 DEF Tells, Asks, Requests, Sound
<1>10. /\ NumberOf(h)' = Number(h, i) /\ Number(h, i) = NumberOf(h) + 1
  BY <1>7, CountNumbers
<1>11. Slides(b, b1, 0, m) /\ Slides(q, q1, 1, m)
  <2>1. PICK got : inbox' = Put(Taken, m, got)
    BY <1>7
  <2>2. /\ Taken \in [Sockets -> Seq(Sound)]
        /\ Taken[c] = b /\ Taken[Server] = Tail(q)
    BY <1>1, <1>2, <1>7, TailSound DEF Taken
  <2>3. /\ b1 = IF c \in got THEN Append(b, m) ELSE b
        /\ q1 = IF Server \in got THEN Append(Tail(q), m) ELSE Tail(q)
    BY <1>2, <1>3, <2>1, <2>2 DEF Put
  <2>. QED
    BY <1>7, <2>3, Slide
<1>12. Len(b) \in Nat /\ Len(q) \in Nat /\ Len(b1) \in Nat /\ Len(q1) \in Nat
  OBVIOUS
<1>13. Lined(b, q, c, old, new)
  BY <1>1, <1>4 DEF InTurn, Ordered
<1>14. Lined(b1, q1, c, old, new)
  <2>1. /\ old <= new /\ new <= new /\ old < m.id /\ m.id <= new
        /\ \A k \in 1 .. Len(b) : Tells(b[k]) => old < b[k].id /\ b[k].id < m.id
    BY <1>8, <1>9, <1>13 DEF Lined
  <2>2. \A l \in 1 .. Len(q) : l > 1 /\ Asks(q[l], c) =>
          old < q[l].id /\ m.id < q[l].id
    BY <1>8, <1>9, <1>13 DEF Lined
  <2>3. Fits(b, q, c, 0, 1, m, m, old, new)
    BY <1>9, <2>1, <2>2 DEF Fits
  <2>. QED
    BY <1>11, <1>12, <1>13, <2>1, <2>3, LinedSlides
<1>15. PICK before, after : before = NumberOf(h) /\ after = NumberOf(h)'
  OBVIOUS
<1>16. before + 1 = after /\ m.number = after
  BY <1>9, <1>10, <1>15
<1>17. ASSUME ~ late'[c]
       PROVE  /\ pc'[c] \notin Typing
              /\ pc'[c] \in Waiting => Awaits(b1, q1, c, after, new)
  <2>1. /\ pc'[c] \in Typing => Calm(b, q, c, before, new)
        /\ pc'[c] \in Waiting => Awaits(b, q, c, before, new)
    BY <1>1, <1>4, <1>5, <1>6, <1>15, <1>17 DEF InTurn, Follows
  <2>2. ~ Calm(b, q, c, before, new)
    BY <1>8 DEF Calm, NoRequest
  <2>3. ASSUME Awaits(b, q, c, before, new) PROVE Awaits(b1, q1, c, after, new)
    <3>1. Unanswered(b, q, c, before, new)
      BY <1>8, <2>3 DEF Awaits, Answered, NoRequest, NoAsk
    <3>2. /\ after = new /\ m.id = new /\ NoReply(b)
          /\ \A l \in 1 .. Len(q) : Requests(q[l], c) => l = 1
      BY <1>8, <1>9, <1>16, <3>1 DEF Unanswered
    <3>3. NoRequest(q1, c)
      <4>1. \A l \in 1 .. Len(q1) : Requests(q1[l], c) =>
              l + 1 \in 1 .. Len(q) /\ Requests(q[l + 1], c)
        BY <1>9, <1>11 DEF Slides
      <4>2. \A l \in 1 .. Len(q1) : l + 1 # 1
        BY <1>12
      <4>. QED
        BY <3>2, <4>1, <4>2 DEF NoRequest
    <3>4. \A k \in 1 .. Len(b1) : Tells(b1[k]) => b1[k] = m
      BY <1>11, <1>12, <3>2 DEF Slides, NoReply
    <3>. QED
      BY <1>16, <3>2, <3>3, <3>4 DEF Awaits, Answered
  <2>. QED
    BY <2>1, <2>2, <2>3
<1>. QED
  BY <1>3, <1>5, <1>6, <1>14, <1>15, <1>17, InTurnAfter

LEMMA NextInTurn ==
  ASSUME IEcho, IEcho', IServer, IServer', [Next]_vars, NEW c \in Clients,
         Alone(c), InTurn(c)
  PROVE  /\ InTurn(c)'
         /\ printed'[c] # printed[c] =>
              /\ printed[c].id < printed'[c].id /\ printed'[c].id <= sent[c]
              /\ ~ late[c] => /\ printed'[c].of = c
                              /\ printed'[c].id = sent[c]
                              /\ printed'[c].number = sent[c]
<1>1. CASE Quiet(c)
  BY <1>1, QuietInTurn DEF Quiet, QuietAt
<1>2. CASE Send(c)
  BY <1>2, SendInTurn DEF Send
<1>3. CASE ReceiveReply(c)
  BY <1>3, ReplyInTurn
<1>4. CASE Answer /\ Head(inbox[Server]).of = c
  BY <1>4, AnswerInTurn DEF Answer, clientVars
<1>. QED
  BY <1>1, <1>2, <1>3, <1>4, StepOf

LEMMA InitInTurn == Init => AllInTurn
<1> SUFFICES ASSUME Init, NEW c \in Clients PROVE InTurn(c)
  BY DEF AllInTurn
<1>1. /\ inbox[c] = <<>> /\ inbox[Server] = <<>> /\ sent[c] = 0
      /\ printed[c].id = 0 /\ pc[c] = "off"
  BY DEF Init, Nothing
<1>2. NumberOf(HostOf[c]) = 0
  BY DEF Init, ServerInit, NumberOf, EntriesOf
<1>3. Lined(<<>>, <<>>, c, 0, 0) /\ Calm(<<>>, <<>>, c, 0, 0)
  BY DEF Lined, Calm, NoRequest, NoReply
<1>. QED
  BY <1>1, <1>2, <1>3 DEF InTurn, Ordered, Follows, Waiting

LEMMA TurnsInvariant == Spec => [](IEcho /\ IServer /\ AllInTurn)
<1>1. /\ IEcho /\ IServer /\ AllInTurn /\ [Next]_vars /\ IEcho' /\ IServer'
      => AllInTurn'
  <2> SUFFICES ASSUME IEcho, IServer, AllInTurn, [Next]_vars, IEcho', IServer',
                      NEW c \in Clients, Alone(c)'
               PROVE  InTurn(c)'
    BY DEF AllInTurn
  <2>1. Alone(c)
    BY DEF Alone
  <2>. QED
    BY <2>1, NextInTurn DEF AllInTurn
<1>. QED
  BY <1>1, InitInTurn, EchoInvariant, PTL DEF Spec

(***************************************************************************)
(* A client that has its host for itself never prints an answer twice, nor *)
(* one to an earlier line after the answer to a later one, nor one to a    *)
(* line it has not sent.                                                   *)
(***************************************************************************)
THEOREM NoAnswerTwice == Spec => AnswersInOrder
<1>1. IEcho /\ IServer /\ AllInTurn /\ [Next]_vars /\ IEcho' /\ IServer' =>
      [\A c \in Clients : printed'[c] # printed[c] /\ Alone(c) =>
         printed[c].id < printed'[c].id /\ printed'[c].id <= sent[c]]_vars
  BY NextInTurn DEF AllInTurn
<1>. QED
  BY <1>1, TurnsInvariant, PTL DEF Spec, AnswersInOrder

(***************************************************************************)
(* As long as every wait of such a client has ended with a reply, it       *)
(* prints the answer to the line just typed, with the number of lines it   *)
(* has sent.                                                               *)
(***************************************************************************)
THEOREM AnswersTheLine == Spec => InStep
<1>1. IEcho /\ IServer /\ AllInTurn /\ [Next]_vars /\ IEcho' /\ IServer' =>
      [\A c \in Clients : printed'[c] # printed[c] /\ Alone(c) /\ ~late[c] =>
         /\ printed'[c].of = c
         /\ printed'[c].id = sent[c]
         /\ printed'[c].number = sent[c]]_vars
  BY NextInTurn DEF AllInTurn
<1>. QED
  BY <1>1, TurnsInvariant, PTL DEF Spec, InStep
=============================================================================
