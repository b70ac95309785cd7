----------------------------- MODULE ChatProofs -----------------------------
(***************************************************************************)
(* Proofs about Chat, for any set of clients, any room in the streams and  *)
(* any number of pieces.                                                   *)
(***************************************************************************)
EXTENDS Chat, BasicFacts, FiniteSetTheorems

(***************************************************************************)
(* No client is twice in clients[] or among the connections that wait, and *)
(* the event of the listener is there only while one waits.                *)
(***************************************************************************)
Distinct ==
  /\ \A i, j \in 1 .. Len(clients) : clients[i] = clients[j] => i = j
  /\ \A i, j \in 1 .. Len(backlog) : backlog[i] = backlog[j] => i = j
  /\ Listener \in batch => backlog # <<>>

\* What is on its way to the server has been sent.
Counted == \A c \in Clients : Len(up[c]) =< sent[c]

\* Who is in clients[] has connected.
Joined == \A c \in Members : state[c] # "out"

IType == TypeOK /\ Distinct /\ Counted /\ Joined

LEMMA TakenType ==
  ASSUME IType
  PROVE  \A c \in Clients : /\ Len(up[c]) \in Nat /\ sent[c] \in Nat
                            /\ Taken(c) \in Nat
<1>1. \A c \in Clients : Len(up[c]) \in Nat /\ sent[c] \in Nat
  BY DEF IType, TypeOK, StreamType, ClientType
<1>. QED
  BY <1>1 DEF IType, Counted, Taken

\* clients[] is what it is: its items, and how many there are.
LEMMA MembersFacts ==
  ASSUME clients \in Seq(Clients)
  PROVE  /\ Members = {clients[i] : i \in 1 .. Len(clients)}
         /\ Members \subseteq Clients
         /\ \A i \in 1 .. Len(clients) : clients[i] \in Members
         /\ DOMAIN clients = 1 .. Len(clients)
<1>1. DOMAIN clients = 1 .. Len(clients)
  OBVIOUS
<1>. QED
  BY <1>1 DEF Members

LEMMA MembersCount ==
  ASSUME NEW q \in Seq(Clients),
         \A i, j \in 1 .. Len(q) : q[i] = q[j] => i = j
  PROVE  Cardinality({q[i] : i \in DOMAIN q}) = Len(q)
<1> DEFINE M == {q[i] : i \in DOMAIN q}
<1>1. PICK n \in Nat : n = Len(q) /\ DOMAIN q = 1 .. n
  OBVIOUS
<1>2. /\ IsFiniteSet(1 .. n) /\ Cardinality(1 .. n) = n
  BY FS_Interval
<1>3. ExistsBijection(1 .. n, M)
  <2> DEFINE f == [i \in 1 .. n |-> q[i]]
  <2>1. f \in [1 .. n -> M]
    BY <1>1
  <2>2. \A i, j \in 1 .. n : f[i] = f[j] => i = j
    BY <1>1
  <2>3. \A c \in M : \E i \in 1 .. n : f[i] = c
    BY <1>1
  <2>4. f \in Bijection(1 .. n, M)
    BY <2>1, <2>2, <2>3 DEF Bijection, Injection, Surjection, IsInjective
  <2>. QED
    BY <2>4 DEF ExistsBijection
<1>. QED
  BY <1>1, <1>2, <1>3, FS_Bijection

\* An item that was not there leaves the items different from each other.
LEMMA AppendDistinct ==
  ASSUME NEW S, NEW q \in Seq(S), NEW x \in S,
         \A k \in 1 .. Len(q) : q[k] # x,
         \A i, j \in 1 .. Len(q) : q[i] = q[j] => i = j
  PROVE  /\ Append(q, x) # <<>>
         /\ \A i, j \in 1 .. Len(Append(q, x)) :
              Append(q, x)[i] = Append(q, x)[j] => i = j
<1>1. PICK n, r : n = Len(q) /\ r = Append(q, x)
  OBVIOUS
<1>2. /\ n \in Nat /\ Len(r) = n + 1 /\ r[n + 1] = x
      /\ \A k \in 1 .. n : r[k] = q[k]
  BY <1>1, AppendItems
<1>3. \A k \in 1 .. n + 1 : k \in 1 .. n \/ k = n + 1
  BY <1>2
<1>4. r # <<>>
  BY <1>2
<1>. QED
  BY <1>1, <1>2, <1>3, <1>4

\* The groups of variables a step leaves alone keep their types.
LEMMA UnchangedTypes ==
  /\ ServerType /\ UNCHANGED <<serverVars, state>> => ServerType'
  /\ BroadcastType /\ UNCHANGED broadcastVars => BroadcastType'
  /\ ClientType /\ UNCHANGED clientVars => ClientType'
  /\ StreamType /\ UNCHANGED <<up, down>> => StreamType'
  /\ Distinct /\ UNCHANGED <<clients, backlog, batch>> => Distinct'
  /\ Counted /\ UNCHANGED <<up, sent>> => Counted'
  /\ Joined /\ UNCHANGED <<clients, state>> => Joined'
BY DEF ServerType, BroadcastType, ClientType, StreamType, Distinct, Members,
       Counted, Joined, serverVars, broadcastVars, clientVars

LEMMA InitType == Init => IType
<1> SUFFICES ASSUME Init PROVE IType
  OBVIOUS
<1> USE ChatAssumption DEF Init, ChatAssumption
<1>1. Len(clients) = 0 /\ Len(backlog) = 0 /\ clients \in Seq(Clients)
  OBVIOUS
<1>2. Distinct
  BY <1>1 DEF Distinct
<1>3. Cardinality(Members) = Len(clients)
  BY <1>1, <1>2, MembersCount DEF Distinct, Members
<1>4. ServerType
  BY <1>1, <1>3 DEF ServerType
<1>5. BroadcastType /\ ClientType
  BY DEF BroadcastType, ClientType
<1>6. StreamType
  <2>1. \A c \in Clients : Len(up[c]) = 0 /\ Len(down[c]) = 0
    OBVIOUS
  <2>2. 0 =< UpRoom /\ 0 =< DownRoom
    OBVIOUS
  <2>3. up \in [Clients -> Seq(Pieces)] /\ down \in [Clients -> Seq(Pieces)]
    OBVIOUS
  <2>. QED
    BY <2>1, <2>2, <2>3 DEF StreamType
<1>7. Counted
  BY DEF Counted
<1>8. Joined
  BY <1>1, MembersFacts DEF Joined
<1>. QED
  BY <1>2, <1>4, <1>5, <1>6, <1>7, <1>8 DEF IType, TypeOK

\* A connection is accepted: it moves from the queue to the end of clients[].
LEMMA AcceptMoves ==
  ASSUME IType, Accept
  PROVE  /\ Head(backlog) \in Clients /\ Head(backlog) \notin Members
         /\ state[Head(backlog)] # "out"
         /\ clients' \in Seq(Clients) /\ Len(clients') = Len(clients) + 1
         /\ \A i \in 1 .. Len(clients) : clients'[i] = clients[i]
         /\ clients'[Len(clients) + 1] = Head(backlog)
         /\ Members' = Members \cup {Head(backlog)}
         /\ \A i \in 1 .. Len(backlog') :
              /\ backlog'[i] \in Clients /\ state[backlog'[i]] # "out"
              /\ backlog'[i] \notin Members'
         /\ Distinct'
<1> USE DEF IType, TypeOK
<1> DEFINE W == {c \in Clients : state[c] # "out" /\ c \notin Members}
           h == Head(backlog)
<1>1. clients \in Seq(Clients) /\ backlog \in Seq(W) /\ backlog # <<>>
  BY DEF Accept, Distinct, ServerType
<1>2. /\ h \in W /\ h = backlog[1] /\ Tail(backlog) \in Seq(W)
      /\ Len(backlog) \in Nat /\ Len(backlog) >= 1
      /\ Len(Tail(backlog)) = Len(backlog) - 1
      /\ \A k \in 1 .. Len(backlog) - 1 : Tail(backlog)[k] = backlog[k + 1]
  BY <1>1, TailItems
<1>3. /\ Append(clients, h) \in Seq(Clients) /\ Len(clients) \in Nat
      /\ Len(Append(clients, h)) = Len(clients) + 1
      /\ \A k \in 1 .. Len(clients) : Append(clients, h)[k] = clients[k]
      /\ Append(clients, h)[Len(clients) + 1] = h
  BY <1>1, <1>2, AppendItems
<1>4. clients' = Append(clients, h) /\ backlog' = Tail(backlog)
      /\ batch' = batch \ {Listener}
  BY DEF Accept
<1>5. Members' = Members \cup {h}
  <2>1. Members' = {clients'[i] : i \in 1 .. Len(clients) + 1}
    BY <1>3, <1>4, MembersFacts DEF Members
  <2>2. 1 .. Len(clients) + 1 = (1 .. Len(clients)) \cup {Len(clients) + 1}
    BY <1>3
  <2>3. \A i \in 1 .. Len(clients) : clients'[i] = clients[i]
    BY <1>3, <1>4
  <2>4. clients'[Len(clients) + 1] = h
    BY <1>3, <1>4
  <2>5. Members = {clients[i] : i \in 1 .. Len(clients)}
    BY <1>1, MembersFacts
  <2>. QED
    BY <2>1, <2>2, <2>3, <2>4, <2>5
<1>6. ASSUME NEW i \in 1 .. Len(backlog')
      PROVE  /\ i + 1 \in 1 .. Len(backlog) /\ backlog'[i] = backlog[i + 1]
             /\ backlog'[i] \in W /\ backlog'[i] # h
  <2>1. i \in 1 .. Len(backlog) - 1 /\ i + 1 \in 1 .. Len(backlog)
        /\ 1 \in 1 .. Len(backlog) /\ i + 1 # 1
    BY <1>2, <1>4, <1>6
  <2>2. backlog'[i] = backlog[i + 1] /\ backlog[i + 1] \in W
    BY <1>1, <1>2, <1>4, <2>1
  <2>3. backlog[i + 1] # backlog[1]
    BY <2>1 DEF Distinct
  <2>. QED
    BY <1>2, <2>1, <2>2, <2>3
<1>7. ASSUME NEW i \in 1 .. Len(clients'), NEW j \in 1 .. Len(clients'),
             clients'[i] = clients'[j]
      PROVE  i = j
  <2>1. \A k \in 1 .. Len(clients) : clients'[k] = clients[k] /\ clients[k] # h
    <3>1. \A k \in 1 .. Len(clients) : clients[k] \in Members
      BY <1>1, MembersFacts
    <3>. QED
      BY <1>2, <1>3, <1>4, <3>1
  <2>2. clients'[Len(clients) + 1] = h /\ Len(clients') = Len(clients) + 1
    BY <1>3, <1>4
  <2>3. \A k \in 1 .. Len(clients') :
          k \in 1 .. Len(clients) \/ k = Len(clients) + 1
    BY <1>3, <2>2
  <2>. QED
    BY <1>7, <2>1, <2>2, <2>3 DEF Distinct
<1>8. ASSUME NEW i \in 1 .. Len(backlog'), NEW j \in 1 .. Len(backlog'),
             backlog'[i] = backlog'[j]
      PROVE  i = j
  <2>1. i + 1 = j + 1
    BY <1>6, <1>8 DEF Distinct
  <2>. QED
    BY <2>1
<1>9. Distinct'
  BY <1>4, <1>7, <1>8 DEF Distinct
<1>. QED
  BY <1>2, <1>3, <1>4, <1>5, <1>6, <1>9

(***************************************************************************)
(* The swap of line 56: the client that left is gone, each other one is    *)
(* there still, once.                                                      *)
(***************************************************************************)
LEMMA WithoutFacts ==
  ASSUME clients \in Seq(Clients), Distinct, NEW c \in Members,
         clients' = Without(c)
  PROVE  /\ clients' \in Seq(Clients) /\ Len(clients) \in Nat
         /\ Len(clients) >= 1 /\ Len(clients') = Len(clients) - 1
         /\ Members' = Members \ {c}
         /\ \A i, j \in 1 .. Len(clients') : clients'[i] = clients'[j] => i = j
<1>1. PICK n \in Nat : n = Len(clients) /\ DOMAIN clients = 1 .. n
  OBVIOUS
<1>2. PICK j \in 1 .. n : /\ j = CHOOSE i \in DOMAIN clients : clients[i] = c
                          /\ clients[j] = c
  BY <1>1, MembersFacts
<1>3. n >= 1 /\ n \in 1 .. n /\ n - 1 \in 0 .. n
  BY <1>1, <1>2
<1> DEFINE e == [clients EXCEPT ![j] = clients[n]]
<1>4. /\ e \in Seq(Clients) /\ Len(e) = n
      /\ \A i \in 1 .. n : e[i] = IF i = j THEN clients[n] ELSE clients[i]
  <2>1. \A i \in 1 .. n : clients[i] \in Clients
    BY <1>1
  <2>2. e = [i \in 1 .. n |-> IF i = j THEN clients[n] ELSE clients[i]]
    BY <1>1
  <2>3. e \in [1 .. n -> Clients]
    BY <1>3, <2>1, <2>2
  <2>4. e \in Seq(Clients) /\ Len(e) = n
    BY <1>1, <2>3
  <2>. QED
    BY <2>2, <2>4
<1>5. clients' = SubSeq(e, 1, n - 1)
  BY <1>1, <1>2 DEF Without
<1>6. /\ clients' \in Seq(Clients) /\ Len(clients') = n - 1
      /\ \A i \in 1 .. n - 1 : clients'[i] = e[i]
  <2>1. PICK q, m : q = e /\ m = n - 1
    OBVIOUS
  <2>2. q \in Seq(Clients) /\ Len(q) = n
    BY <1>4, <2>1
  <2>3. m \in 0 .. Len(q)
    BY <1>3, <2>1, <2>2
  <2>4. /\ SubSeq(q, 1, m) \in Seq(Clients) /\ Len(SubSeq(q, 1, m)) = m
        /\ \A k \in 1 .. m : SubSeq(q, 1, m)[k] = q[k]
    BY <2>2, <2>3, CutInTwo
  <2>5. clients' = SubSeq(q, 1, m)
    BY <1>5, <2>1
  <2>. QED
    BY <2>1, <2>4, <2>5
<1>7. \A i \in 1 .. n - 1 :
        i \in 1 .. n /\ i # n
          /\ clients'[i] = IF i = j THEN clients[n] ELSE clients[i]
  BY <1>1, <1>4, <1>6
<1>8. \A i, k \in 1 .. n : clients[i] = clients[k] => i = k
  BY <1>1 DEF Distinct
<1>9. \A i, k \in 1 .. n - 1 : clients'[i] = clients'[k] => i = k
  BY <1>3, <1>7, <1>8
<1>10. Members' = {clients'[i] : i \in 1 .. n - 1}
  BY <1>6 DEF Members
<1>11. Members = {clients[i] : i \in 1 .. n}
  BY <1>1, MembersFacts
<1>12. ASSUME NEW x \in Members'
       PROVE  x \in Members \ {c}
  <2>1. PICK i \in 1 .. n - 1 : x = clients'[i]
    BY <1>10
  <2>2. CASE i = j
    <3>1. x = clients[n] /\ n # j
      BY <1>7, <2>1, <2>2
    <3>. QED
      BY <1>2, <1>3, <1>8, <1>11, <3>1
  <2>3. CASE i # j
    <3>1. x = clients[i] /\ i \in 1 .. n
      BY <1>7, <2>1, <2>3
    <3>. QED
      BY <1>2, <1>8, <1>11, <2>3, <3>1
  <2>. QED
    BY <2>2, <2>3
<1>13. ASSUME NEW x \in Members \ {c}
       PROVE  x \in Members'
  <2>1. PICK i \in 1 .. n : x = clients[i] /\ i # j
    BY <1>2, <1>11
  <2>2. CASE i = n
    <3>1. j \in 1 .. n - 1
      BY <1>1, <2>1, <2>2
    <3>2. clients'[j] = x
      BY <1>7, <2>1, <2>2, <3>1
    <3>. QED
      BY <1>10, <3>1, <3>2
  <2>3. CASE i # n
    <3>1. i \in 1 .. n - 1
      BY <1>1, <2>3
    <3>2. clients'[i] = x
      BY <1>7, <2>1, <3>1
    <3>. QED
      BY <1>10, <3>1, <3>2
  <2>. QED
    BY <2>2, <2>3
<1>14. Members' = Members \ {c}
  BY <1>12, <1>13
<1>. QED
  BY <1>1, <1>3, <1>6, <1>9, <1>14

\* Those that wait for accept() are still no members.
LEMMA BacklogRetyped ==
  ASSUME backlog \in Seq({c \in Clients : state[c] # "out" /\ c \notin Members}),
         backlog' = backlog, Members' \subseteq Members,
         \A c \in Clients : state[c] # "out" => state'[c] # "out"
  PROVE  backlog' \in
           Seq({c \in Clients : state'[c] # "out" /\ c \notin Members'})
<1> DEFINE W == {c \in Clients : state[c] # "out" /\ c \notin Members}
           V == {c \in Clients : state'[c] # "out" /\ c \notin Members'}
<1>1. W \subseteq V
  OBVIOUS
<1>2. \A k \in 1 .. Len(backlog) : backlog[k] \in W
  OBVIOUS
<1>. QED
  BY <1>1, <1>2, Retyped

LEMMA EventStepType ==
  ASSUME IType, EpollWait \/ Accept \/ \E c \in Clients : Take(c) \/ Drop(c)
  PROVE  IType'
<1> USE UnchangedTypes, ChatAssumption DEF IType, TypeOK, ChatAssumption
<1>1. CASE EpollWait
  <2>1. Members' = Members
    BY <1>1 DEF EpollWait, Members
  <2>2. ServerType'
    BY <1>1, <2>1 DEF EpollWait, ServerType, clientVars
  <2>3. Distinct'
    <3>1. Listener \notin Members
      BY MembersFacts DEF ServerType
    <3>. QED
      BY <1>1, <3>1 DEF EpollWait, Distinct
  <2>. QED
    BY <1>1, <2>2, <2>3 DEF EpollWait, clientVars
<1>2. CASE Accept
  <2>1. /\ Head(backlog) \in Clients /\ Members' = Members \cup {Head(backlog)}
        /\ clients' \in Seq(Clients) /\ Distinct'
    BY <1>2, AcceptMoves
  <2>2. Cardinality(Members') = Len(clients')
    BY <2>1, MembersCount DEF Distinct, Members
  <2>3. backlog' \in
          Seq({c \in Clients : state'[c] # "out" /\ c \notin Members'})
    <3>1. state' = state /\ backlog' = Tail(backlog) /\ backlog # <<>>
      BY <1>2 DEF Accept, Distinct, clientVars
    <3>2. backlog' \in
            Seq({c \in Clients : state[c] # "out" /\ c \notin Members})
      BY <3>1 DEF ServerType
    <3>3. \A k \in 1 .. Len(backlog') : backlog'[k] \in
            {c \in Clients : state'[c] # "out" /\ c \notin Members'}
      BY <1>2, <3>1, AcceptMoves
    <3>. QED
      BY <3>2, <3>3, Retyped
  <2>4. since' \in [Clients -> [Clients -> Nat]]
    BY <1>2, <2>1, TakenType DEF Accept, ServerType
  <2>5. ServerType'
    BY <1>2, <2>1, <2>2, <2>3, <2>4 DEF Accept, ServerType, clientVars
  <2>6. Joined'
    <3>1. state[Head(backlog)] # "out" /\ state' = state
      BY <1>2, AcceptMoves DEF Accept, clientVars
    <3>. QED
      BY <2>1, <3>1 DEF Joined
  <2>. QED
    BY <1>2, <2>1, <2>5, <2>6 DEF Accept, clientVars
<1>3. ASSUME NEW c \in Clients, Take(c)
      PROVE  IType'
  <2>1. PICK n \in 1 .. Len(up[c]) :
          /\ buf' = SubSeq(up[c], 1, n)
          /\ up' = [up EXCEPT ![c] = SubSeq(@, n + 1, Len(@))]
    BY <1>3 DEF Take
  <2>2. PICK q \in Seq(Pieces), l \in Nat :
          q = up[c] /\ l = Len(q) /\ n \in 0 .. Len(q) /\ n \in 1 .. l
    BY <2>1 DEF StreamType
  <2>3. /\ SubSeq(q, 1, n) \in Seq(Pieces)
        /\ SubSeq(q, n + 1, Len(q)) \in Seq(Pieces)
        /\ Len(SubSeq(q, 1, n)) = n
        /\ Len(SubSeq(q, n + 1, Len(q))) = Len(q) - n
    BY <2>2, CutInTwo
  <2>4. BroadcastType'
    BY <1>3, <2>1, <2>2, <2>3 DEF Take, BroadcastType
  <2>5. \A d \in Clients :
          up'[d] = IF d = c THEN SubSeq(q, n + 1, Len(q)) ELSE up[d]
    BY <2>1, <2>2 DEF StreamType
  <2>6. \A d \in Clients : /\ up'[d] \in Seq(Pieces)
                           /\ Len(up'[d]) =< UpRoom
                           /\ Len(up'[d]) =< sent[d]
    <3>1. l =< UpRoom /\ l =< sent[c] /\ sent[c] \in Nat /\ l - n =< l
      BY <2>2 DEF StreamType, ClientType, Counted
    <3>2. l - n =< UpRoom /\ l - n =< sent[c]
      BY <2>2, <3>1
    <3>. QED
      BY <2>2, <2>3, <2>5, <3>2 DEF StreamType, Counted
  <2>7. up' \in [Clients -> Seq(Pieces)]
    BY <2>1, <2>6 DEF StreamType
  <2>8. StreamType' /\ Counted'
    BY <1>3, <2>6, <2>7 DEF Take, StreamType, Counted, clientVars
  <2>9. ServerType' /\ Distinct' /\ Joined'
    <3>1. Members' = Members
      BY <1>3 DEF Take, Members
    <3>2. /\ batch' = batch \ {c}
          /\ UNCHANGED <<alive, clients, backlog, written, since, state>>
      BY <1>3 DEF Take, clientVars
    <3>3. ServerType'
      BY <3>1, <3>2 DEF ServerType
    <3>. QED
      BY <3>2, <3>3 DEF Distinct
  <2>. QED
    BY <1>3, <2>4, <2>8, <2>9 DEF Take, clientVars
<1>4. ASSUME NEW c \in Clients, Drop(c)
      PROVE  IType'
  <2>1. c \in Members /\ clients' = Without(c)
    BY <1>4 DEF Drop, ServerType
  <2>2. /\ clients' \in Seq(Clients) /\ Members' = Members \ {c}
        /\ \A i, j \in 1 .. Len(clients') : clients'[i] = clients'[j] => i = j
    BY <2>1, WithoutFacts DEF ServerType
  <2>3. Cardinality(Members') = Len(clients')
    BY <2>2, MembersCount DEF Members
  <2>4. backlog' \in
          Seq({x \in Clients : state'[x] # "out" /\ x \notin Members'})
    BY <1>4, <2>2, BacklogRetyped DEF Drop, ServerType, clientVars
  <2>5. ServerType'
    BY <1>4, <2>2, <2>3, <2>4 DEF Drop, ServerType, clientVars
  <2>6. Distinct' /\ Joined'
    BY <1>4, <2>2 DEF Drop, Distinct, Joined, clientVars
  <2>. QED
    BY <1>4, <2>5, <2>6 DEF Drop, clientVars
<1>. QED
  BY <1>1, <1>2, <1>3, <1>4

LEMMA BroadcastStepType ==
  ASSUME IType,
         Skip \/ BroadcastDone \/ \E c \in Clients : Hand(c) \/ HandGone(c)
  PROVE  IType'
<1> USE UnchangedTypes, ChatAssumption DEF IType, TypeOK, ChatAssumption
<1>1. CASE Skip
  <2>1. BroadcastType'
    BY <1>1 DEF Skip, BroadcastType
  <2>. QED
    BY <1>1, <2>1 DEF Skip, clientVars, serverVars
<1>2. CASE BroadcastDone
  <2>1. BroadcastType'
    BY <1>2 DEF BroadcastDone, EndBroadcast, BroadcastType
  <2>. QED
    BY <1>2, <2>1 DEF BroadcastDone, clientVars, serverVars
<1>3. ASSUME NEW c \in Clients, Hand(c)
      PROVE  IType'
  <2>1. buf \in Seq(Pieces) /\ buf # <<>> /\ done \in Nat /\ done < Len(buf)
        /\ turn \in Nat \ {0}
    BY <1>3 DEF Hand, To, Sending, BroadcastType
  <2>2. buf[done + 1] \in Pieces
    <3>1. done + 1 \in 1 .. Len(buf)
      BY <2>1
    <3>. QED
      BY <2>1, <3>1
  <2>3. /\ Append(down[c], buf[done + 1]) \in Seq(Pieces)
        /\ Len(Append(down[c], buf[done + 1])) = Len(down[c]) + 1
        /\ Len(down[c]) \in Nat
    BY <2>2, AppendItems DEF StreamType
  <2>4. Len(down[c]) + 1 =< DownRoom
    BY <1>3, <2>3 DEF Hand
  <2>5. \A d \in Clients : down'[d] =
          IF d = c THEN Append(down[c], buf[done + 1]) ELSE down[d]
    BY <1>3 DEF Hand, StreamType
  <2>6. \A d \in Clients : Len(down'[d]) =< DownRoom
    BY <2>3, <2>4, <2>5 DEF StreamType
  <2>7. down' \in [Clients -> Seq(Pieces)]
    BY <1>3, <2>3 DEF Hand, StreamType
  <2>8. StreamType'
    BY <1>3, <2>6, <2>7 DEF Hand, StreamType
  <2>9. BroadcastType'
    <3>1. turn + 1 \in Nat \ {0} /\ done + 1 \in Nat /\ 0 \in Nat
          /\ (done + 1 # Len(buf) => done + 1 < Len(buf)) /\ 0 < Len(buf)
      BY <2>1
    <3>. QED
      BY <1>3, <2>1, <3>1 DEF Hand, BroadcastType
  <2>. QED
    BY <1>3, <2>8, <2>9 DEF Hand, clientVars, serverVars
<1>4. ASSUME NEW c \in Clients, HandGone(c)
      PROVE  IType'
  <2>1. Counted'
    BY <1>4 DEF HandGone, clientVars
  <2>2. CASE c \in written
    <3>1. /\ alive' = FALSE /\ clients' = <<>> /\ batch' = {}
          /\ backlog' = <<>> /\ EndBroadcast
          /\ UNCHANGED <<written, since, clientVars, up, down>>
      BY <1>4, <2>2 DEF HandGone
    <3>2. Len(clients') = 0 /\ Len(backlog') = 0 /\ clients' \in Seq(Clients)
      BY <3>1
    <3>3. Distinct'
      BY <3>1, <3>2 DEF Distinct
    <3>4. Cardinality(Members') = Len(clients')
      BY <3>2, <3>3, MembersCount DEF Distinct, Members
    <3>5. backlog' \in
            Seq({x \in Clients : state'[x] # "out" /\ x \notin Members'})
      BY <3>1, EmptySeq
    <3>6. ServerType'
      BY <3>1, <3>2, <3>4, <3>5 DEF ServerType, clientVars
    <3>7. BroadcastType'
      BY <3>1 DEF EndBroadcast, BroadcastType
    <3>8. Joined'
      BY <3>2, MembersFacts DEF Joined, Members
    <3>. QED
      BY <2>1, <3>1, <3>3, <3>6, <3>7, <3>8
  <2>3. CASE c \notin written
    <3>1. /\ written' = written \cup {c} /\ turn' = turn + 1 /\ done' = 0
          /\ UNCHANGED <<alive, clients, batch, backlog, buf, sender, since,
                         clientVars, up, down>>
      BY <1>4, <2>3 DEF HandGone
    <3>2. Members' = Members
      BY <3>1 DEF Members
    <3>3. ServerType'
      BY <1>4, <3>1, <3>2 DEF HandGone, ServerType, clientVars
    <3>4. BroadcastType'
      BY <1>4, <3>1 DEF BroadcastType
    <3>. QED
      BY <2>1, <3>1, <3>3, <3>4 DEF clientVars
  <2>. QED
    BY <2>2, <2>3
<1>. QED
  BY <1>1, <1>2, <1>3, <1>4

\* Those that wait for accept(), and a client more.
LEMMA ConnectMoves ==
  ASSUME IType, NEW c \in Clients, Connect(c), alive
  PROVE  /\ backlog' \in
              Seq({x \in Clients : state'[x] # "out" /\ x \notin Members'})
         /\ Distinct'
<1> USE DEF IType, TypeOK, ServerType, ClientType
<1> DEFINE W == {x \in Clients : state[x] # "out" /\ x \notin Members}
           V == {x \in Clients : state'[x] # "out" /\ x \notin Members'}
<1>1. /\ state[c] = "out" /\ state' = [state EXCEPT ![c] = "in"]
      /\ backlog' = Append(backlog, c)
      /\ UNCHANGED <<clients, batch>>
  BY DEF Connect
<1>2. backlog \in Seq(W) /\ c \notin W
  BY <1>1
<1>3. Members' = Members
  BY <1>1 DEF Members
<1>4. W \subseteq V /\ c \in V
  BY <1>1, <1>3 DEF Joined
<1>5. \A k \in 1 .. Len(backlog) : backlog[k] \in W
  BY <1>2
<1>6. backlog \in Seq(V)
  BY <1>2, <1>4, <1>5, Retyped
<1>7. /\ Append(backlog, c) \in Seq(V)
      /\ Len(backlog) \in Nat
      /\ Len(Append(backlog, c)) = Len(backlog) + 1
      /\ \A k \in 1 .. Len(backlog) : Append(backlog, c)[k] = backlog[k]
      /\ Append(backlog, c)[Len(backlog) + 1] = c
  BY <1>4, <1>6, AppendItems
<1>8. \A k \in 1 .. Len(backlog) : backlog'[k] = backlog[k] /\ backlog[k] # c
  BY <1>1, <1>2, <1>5, <1>7
<1>9. /\ Append(backlog, c) # <<>>
      /\ \A i, j \in 1 .. Len(Append(backlog, c)) :
           Append(backlog, c)[i] = Append(backlog, c)[j] => i = j
  <2>1. PICK S, q : S = V /\ q = backlog
    OBVIOUS
  <2>2. /\ q \in Seq(S) /\ c \in S
        /\ \A k \in 1 .. Len(q) : q[k] # c
        /\ \A i, j \in 1 .. Len(q) : q[i] = q[j] => i = j
    BY <1>4, <1>6, <1>8, <2>1 DEF Distinct
  <2>3. /\ Append(q, c) # <<>>
        /\ \A i, j \in 1 .. Len(Append(q, c)) :
             Append(q, c)[i] = Append(q, c)[j] => i = j
    BY <2>2, AppendDistinct
  <2>. QED
    BY <2>1, <2>3
<1>10. Distinct'
  BY <1>1, <1>9 DEF Distinct
<1>. QED
  BY <1>1, <1>7, <1>10

LEMMA ClientStepType ==
  ASSUME IType, NEW c \in Clients,
         Client(c) \/ Connect(c) \/ Type(c) \/ Leave(c)
  PROVE  IType'
<1> USE UnchangedTypes, ChatAssumption DEF IType, TypeOK, ChatAssumption
<1>1. CASE Connect(c)
  <2>1. /\ state' = [state EXCEPT ![c] = IF alive THEN "in" ELSE "gone"]
        /\ state[c] = "out"
        /\ UNCHANGED <<alive, clients, batch, written, since, broadcastVars,
                       todo, sent, heard, up, down>>
    BY <1>1 DEF Connect
  <2>2. ClientType'
    BY <2>1 DEF ClientType
  <2>3. Members' = Members
    BY <2>1 DEF Members
  <2>4. \A x \in Clients : state[x] # "out" => state'[x] = state[x]
    BY <2>1 DEF ClientType
  <2>5. /\ backlog' \in
              Seq({x \in Clients : state'[x] # "out" /\ x \notin Members'})
        /\ Distinct'
    <3>1. CASE alive
      BY <1>1, <3>1, ConnectMoves
    <3>2. CASE ~alive
      <4>1. backlog' = backlog
        BY <1>1, <3>2 DEF Connect
      <4>. QED
        BY <2>1, <2>3, <2>4, <4>1, BacklogRetyped DEF ServerType
    <3>. QED
      BY <3>1, <3>2
  <2>6. ServerType' /\ Joined'
    <3>1. written' \subseteq {x \in Clients : state'[x] = "gone"}
      BY <2>1, <2>4 DEF ServerType
    <3>2. Members \subseteq Clients
      BY MembersFacts DEF ServerType
    <3>3. ServerType'
      BY <2>1, <2>3, <2>5, <3>1 DEF ServerType
    <3>. QED
      BY <2>3, <2>4, <3>2, <3>3 DEF Joined
  <2>. QED
    BY <2>1, <2>2, <2>5, <2>6
<1>2. CASE Type(c)
  <2>1. PICK n \in {1, 1 + Parts} : todo' = [todo EXCEPT ![c] = n]
    BY <1>2 DEF Type
  <2>2. n \in 0 .. 1 + Parts
    OBVIOUS
  <2>3. ClientType'
    BY <1>2, <2>1, <2>2 DEF Type, ClientType
  <2>. QED
    BY <1>2, <2>3 DEF Type, serverVars
<1>3. CASE Send(c)
  <2>1. /\ todo[c] > 0 /\ Len(up[c]) < UpRoom
        /\ up' = [up EXCEPT ![c] = Append(@, Piece(c, sent[c] + 1))]
        /\ sent' = [sent EXCEPT ![c] = @ + 1]
        /\ todo' = [todo EXCEPT ![c] = @ - 1]
        /\ UNCHANGED <<serverVars, broadcastVars, state, heard, down>>
    BY <1>3 DEF Send
  <2>2. ClientType'
    BY <2>1 DEF ClientType
  <2>3. sent[c] \in Nat /\ Piece(c, sent[c] + 1) \in Pieces
    BY DEF ClientType, Piece, Pieces
  <2>4. /\ Append(up[c], Piece(c, sent[c] + 1)) \in Seq(Pieces)
        /\ Len(Append(up[c], Piece(c, sent[c] + 1))) = Len(up[c]) + 1
        /\ Len(up[c]) \in Nat
    BY <2>3, AppendItems DEF StreamType
  <2>5. \A d \in Clients :
          /\ up'[d] = IF d = c THEN Append(up[c], Piece(c, sent[c] + 1))
                      ELSE up[d]
          /\ sent'[d] = IF d = c THEN sent[c] + 1 ELSE sent[d]
    BY <2>1 DEF StreamType, ClientType
  <2>6. Len(up[c]) + 1 =< UpRoom /\ Len(up[c]) + 1 =< sent[c] + 1
    BY <2>1, <2>3, <2>4 DEF Counted
  <2>7. \A d \in Clients : Len(up'[d]) =< UpRoom /\ Len(up'[d]) =< sent'[d]
    BY <2>4, <2>5, <2>6 DEF StreamType, Counted
  <2>8. up' \in [Clients -> Seq(Pieces)]
    BY <2>1, <2>4 DEF StreamType
  <2>9. StreamType' /\ Counted'
    BY <2>1, <2>7, <2>8 DEF StreamType, Counted
  <2>. QED
    BY <2>1, <2>2, <2>9 DEF serverVars
<1>4. CASE Read(c)
  <2>1. PICK n \in 1 .. Len(down[c]) :
          /\ heard' = [heard EXCEPT ![c] = @ \o SubSeq(down[c], 1, n)]
          /\ down' = [down EXCEPT ![c] = SubSeq(@, n + 1, Len(@))]
    BY <1>4 DEF Read
  <2>2. PICK q \in Seq(Pieces), l \in Nat :
          q = down[c] /\ l = Len(q) /\ n \in 0 .. Len(q) /\ n \in 1 .. l
    BY <2>1 DEF StreamType
  <2>3. /\ SubSeq(q, 1, n) \in Seq(Pieces)
        /\ SubSeq(q, n + 1, Len(q)) \in Seq(Pieces)
        /\ Len(SubSeq(q, n + 1, Len(q))) = Len(q) - n
    BY <2>2, CutInTwo
  <2>4. ClientType'
    <3>1. heard[c] \o SubSeq(q, 1, n) \in Seq(Pieces)
      BY <2>3, ConcatProperties DEF ClientType
    <3>. QED
      BY <1>4, <2>1, <2>2, <3>1 DEF Read, ClientType
  <2>5. l =< DownRoom /\ l - n =< DownRoom
    BY <2>2 DEF StreamType
  <2>6. \A d \in Clients :
          down'[d] = IF d = c THEN SubSeq(q, n + 1, Len(q)) ELSE down[d]
    BY <2>1, <2>2 DEF StreamType
  <2>7. \A d \in Clients : Len(down'[d]) =< DownRoom
    BY <2>2, <2>3, <2>5, <2>6 DEF StreamType
  <2>8. down' \in [Clients -> Seq(Pieces)]
    BY <2>1, <2>2, <2>3 DEF StreamType
  <2>9. StreamType'
    BY <1>4, <2>7, <2>8 DEF Read, StreamType
  <2>. QED
    BY <1>4, <2>4, <2>9 DEF Read, serverVars
<1>5. CASE Leave(c)
  <2>1. /\ state[c] = "in" /\ state' = [state EXCEPT ![c] = "gone"]
        /\ todo' = [todo EXCEPT ![c] = 0]
        /\ down' = [down EXCEPT ![c] = <<>>]
        /\ heard' = [heard EXCEPT ![c] = <<>>]
        /\ UNCHANGED <<alive, clients, batch, backlog, written, since,
                       broadcastVars, sent, up>>
    BY <1>5 DEF Leave, serverVars
  <2>2. ClientType'
    BY <2>1 DEF ClientType
  <2>3. \A x \in Clients : state'[x] = IF x = c THEN "gone" ELSE state[x]
    BY <2>1 DEF ClientType
  <2>4. Members' = Members
    BY <2>1 DEF Members
  <2>5. backlog' \in
          Seq({x \in Clients : state'[x] # "out" /\ x \notin Members'})
    BY <2>1, <2>3, <2>4, BacklogRetyped DEF ServerType
  <2>6. ServerType' /\ Joined'
    <3>1. written' \subseteq {x \in Clients : state'[x] = "gone"}
      BY <2>1, <2>3 DEF ServerType
    <3>2. Members \subseteq Clients
      BY MembersFacts DEF ServerType
    <3>3. ServerType'
      BY <2>1, <2>4, <2>5, <3>1 DEF ServerType
    <3>. QED
      BY <2>3, <2>4, <3>2, <3>3 DEF Joined
  <2>7. StreamType'
    <3>1. \A d \in Clients : down'[d] = IF d = c THEN <<>> ELSE down[d]
      BY <2>1 DEF StreamType
    <3>2. Len(<<>>) = 0 /\ 0 =< DownRoom
      OBVIOUS
    <3>3. \A d \in Clients : Len(down'[d]) =< DownRoom
      BY <3>1, <3>2 DEF StreamType
    <3>4. down' \in [Clients -> Seq(Pieces)]
      BY <2>1 DEF StreamType
    <3>. QED
      BY <2>1, <3>3, <3>4 DEF StreamType
  <2>. QED
    BY <2>1, <2>2, <2>6, <2>7
<1>. QED
  BY <1>1, <1>2, <1>3, <1>4, <1>5 DEF Client

LEMMA StepType == IType /\ [Next]_vars => IType'
<1> SUFFICES ASSUME IType, [Next]_vars PROVE IType'
  OBVIOUS
<1>1. CASE Server
  BY <1>1, EventStepType, BroadcastStepType DEF Server
<1>2. ASSUME NEW c \in Clients, Client(c) \/ Connect(c) \/ Type(c) \/ Leave(c)
      PROVE  IType'
  BY <1>2, ClientStepType
<1>3. CASE UNCHANGED vars
  BY <1>3, UnchangedTypes DEF vars, serverVars, clientVars, IType, TypeOK
<1>. QED
  BY <1>1, <1>2, <1>3 DEF Next

\* In every reachable state the variables of the chat have their types, the
\* events are for open descriptors, and nobody is in clients[] twice or both
\* there and among those that wait for accept().
THEOREM TypeCorrect == Spec => []TypeOK
<1>1. Spec => []IType
  BY InitType, StepType, PTL DEF Spec
<1>2. IType => TypeOK
  BY DEF IType
<1>. QED
  BY <1>1, <1>2, PTL
-----------------------------------------------------------------------------
(***************************************************************************)
(* What a client hears.  A piece goes from the buffer of the broadcast to  *)
(* the stream and from there to the client, and its place among what the   *)
(* client has heard and will hear is the same all the way.                 *)
(***************************************************************************)
LEMMA PieceOver ==
  ASSUME NEW h \in Seq(Pieces), NEW d \in Seq(Pieces), NEW b \in Seq(Pieces),
         NEW m \in Nat, m < Len(b)
  PROVE  (h \o d) \o SubSeq(b, m + 1, Len(b))
           = (h \o Append(d, b[m + 1])) \o SubSeq(b, m + 2, Len(b))
<1>1. PICK l \in Nat, k \in Nat : l = Len(b) /\ k = m + 1
  OBVIOUS
<1>2. k \in 1 .. Len(b) /\ Len(b) \in k .. Len(b) /\ k \in 0 .. Len(b)
      /\ b[k] \in Pieces /\ k + 1 = m + 2
  BY <1>1
<1>3. SubSeq(b, k, Len(b)) = <<b[k]>> \o SubSeq(b, k + 1, Len(b))
  BY <1>2, SubSeqRecursiveFirst
<1>4. PICK t \in Seq(Pieces), u \in Seq(Pieces), g \in Seq(Pieces) :
        /\ t = SubSeq(b, k + 1, Len(b)) /\ u = <<b[k]>> /\ g = h \o d
  <2>1. SubSeq(b, k + 1, Len(b)) \in Seq(Pieces)
    BY <1>2, CutInTwo
  <2>2. <<b[k]>> \in Seq(Pieces)
    BY <1>2
  <2>. QED
    BY <2>1, <2>2, ConcatProperties
<1>5. Append(d, b[k]) = d \o u
  BY <1>2, <1>4, AppendIsConcat
<1>6. g \o u = h \o (d \o u)
  BY <1>4, ConcatAssociative, SMTT(30)
<1>7. (g \o u) \o t = g \o (u \o t)
  BY ConcatAssociative, SMTT(30)
<1>. QED
  BY <1>1, <1>2, <1>3, <1>4, <1>5, <1>6, <1>7

LEMMA ReadOver ==
  ASSUME NEW h \in Seq(Pieces), NEW d \in Seq(Pieces), NEW r \in Seq(Pieces),
         NEW n \in 0 .. Len(d)
  PROVE  ((h \o SubSeq(d, 1, n)) \o SubSeq(d, n + 1, Len(d))) \o r
           = (h \o d) \o r
<1>1. PICK t \in Seq(Pieces), u \in Seq(Pieces) :
        t = SubSeq(d, 1, n) /\ u = SubSeq(d, n + 1, Len(d))
  BY CutInTwo
<1>2. t \o u = d
  <2>1. Len(d) \in Nat
    OBVIOUS
  <2>2. n \in 1 - 1 .. Len(d) /\ Len(d) \in n .. Len(d)
        /\ 1 \in 1 .. Len(d) + 1
    BY <2>1
  <2>3. SubSeq(d, 1, n) \o SubSeq(d, n + 1, Len(d)) = SubSeq(d, 1, Len(d))
    BY <2>2, ConcatAdjacentSubSeq
  <2>. QED
    BY <1>1, <2>3, SubSeqFull
<1>3. (h \o t) \o u = h \o (t \o u)
  BY ConcatAssociative, SMTT(30)
<1>. QED
  BY <1>1, <1>2, <1>3

\* What NothingSkipped says of the stream of c and the pieces of s.
HearsOf(stream, c, s, from, to) ==
  IF s = c THEN \A k \in DOMAIN stream : stream[k][1] # s
  ELSE Carries(stream, s, from, to)

LEMMA HearsNothingYet ==
  ASSUME NEW c, NEW s, NEW a \in Nat
  PROVE  HearsOf(<<>>, c, s, a, a)
<1>1. DOMAIN <<>> = {} /\ a + 1 .. a = {}
  OBVIOUS
<1>. QED
  BY <1>1 DEF HearsOf, Carries

\* The pieces of d after the u-th, one by one.
Run(b, d, u) == \A k \in 1 .. Len(b) : b[k] = Piece(d, u + k)

\* The items of r are the n of q and then m, the pieces of d after the u-th.
Longer(r, q, n, m, d, u) ==
  /\ DOMAIN q = 1 .. n /\ DOMAIN r = 1 .. n + m
  /\ \A k \in 1 .. n : k \in 1 .. n + m /\ r[k] = q[k]
  /\ \A k \in 1 .. m :
       /\ n + k \in 1 .. n + m
       /\ r[n + k] = Piece(d, u + k) /\ r[n + k][1] = d /\ r[n + k][2] = u + k
  /\ \A k \in 1 .. n + m : k \in 1 .. n \/ \E x \in 1 .. m : k = n + x

LEMMA RunAdded ==
  ASSUME NEW q \in Seq(Pieces), NEW b \in Seq(Pieces), NEW d, NEW u \in Nat,
         Run(b, d, u)
  PROVE  /\ Len(q) \in Nat /\ Len(b) \in Nat
         /\ Longer(q \o b, q, Len(q), Len(b), d, u)
<1>1. Len(q) \in Nat /\ Len(b) \in Nat
  OBVIOUS
<1>2. PICK n \in Nat, m \in Nat, r \in {q \o b} : n = Len(q) /\ m = Len(b)
  BY <1>1
<1>3. /\ r \in Seq(Pieces) /\ Len(r) = n + m
      /\ \A k \in 1 .. n + m : r[k] = IF k <= n THEN q[k] ELSE b[k - n]
  <2>1. q \o b \in Seq(Pieces) /\ Len(q \o b) = Len(q) + Len(b)
    BY ConcatProperties
  <2>2. \A k \in 1 .. Len(q) + Len(b) :
          (q \o b)[k] = IF k <= Len(q) THEN q[k] ELSE b[k - Len(q)]
    BY ConcatProperties
  <2>. QED
    BY <1>2, <2>1, <2>2
<1>4. DOMAIN q = 1 .. n /\ DOMAIN r = 1 .. n + m
  BY <1>2, <1>3
<1>5. \A k \in 1 .. n : k \in 1 .. n + m /\ r[k] = q[k]
  BY <1>3
<1>6. ASSUME NEW k \in 1 .. m
      PROVE  /\ n + k \in 1 .. n + m
             /\ r[n + k] = Piece(d, u + k) /\ r[n + k][1] = d
             /\ r[n + k][2] = u + k
  <2>1. n + k \in 1 .. n + m /\ ~(n + k <= n) /\ (n + k) - n = k
    OBVIOUS
  <2>2. r[n + k] = b[k]
    BY <1>3, <2>1
  <2>. QED
    BY <1>2, <2>1, <2>2 DEF Run, Piece
<1>7. ASSUME NEW k \in 1 .. n + m, k \notin 1 .. n
      PROVE  k - n \in 1 .. m /\ k = n + (k - n)
  BY <1>7
<1>8. Longer(r, q, n, m, d, u)
  BY <1>4, <1>5, <1>6, <1>7 DEF Longer
<1>. QED
  BY <1>1, <1>2, <1>8

\* The pieces of d that a broadcast adds come after those that were there.
LEMMA HearsMore ==
  ASSUME NEW q \in Seq(Pieces), NEW b \in Seq(Pieces), NEW c, NEW d, d # c,
         NEW a \in Nat, NEW t \in Nat, a =< t, Run(b, d, t),
         HearsOf(q, c, d, a, t)
  PROVE  HearsOf(q \o b, c, d, a, t + Len(b))
<1>1. PICK n \in Nat, m \in Nat, r \in {q \o b} :
        /\ n = Len(q) /\ m = Len(b) /\ r = q \o b
        /\ Longer(r, q, n, m, d, t)
  BY RunAdded
<1>2. /\ DOMAIN q = 1 .. n /\ DOMAIN r = 1 .. n + m
      /\ \A k \in 1 .. n : k \in 1 .. n + m /\ r[k] = q[k]
      /\ \A k \in 1 .. m :
           /\ n + k \in 1 .. n + m
           /\ r[n + k] = Piece(d, t + k) /\ r[n + k][1] = d
           /\ r[n + k][2] = t + k
      /\ \A k \in 1 .. n + m :
           k \in 1 .. n \/ \E x \in 1 .. m : k = n + x
  BY <1>1 DEF Longer
<1>3. /\ \A k \in 1 .. n : q[k][1] = d => q[k][2] \in a + 1 .. t
      /\ \A x \in a + 1 .. t : \E k \in 1 .. n : q[k] = Piece(d, x)
      /\ \A k, l \in 1 .. n :
           k < l /\ q[k][1] = d /\ q[l][1] = d => q[k][2] < q[l][2]
  BY <1>2 DEF HearsOf, Carries
<1>4. ASSUME NEW k \in 1 .. n + m, r[k][1] = d
      PROVE  r[k][2] \in a + 1 .. t + m
  <2>1. CASE k \in 1 .. n
    <3>1. PICK w \in a + 1 .. t : w = r[k][2]
      BY <1>2, <1>3, <1>4, <2>1
    <3>. QED
      BY <3>1
  <2>2. CASE \E x \in 1 .. m : k = n + x
    <3>1. PICK x \in 1 .. m : r[k][2] = t + x
      BY <1>2, <2>2
    <3>. QED
      BY <3>1
  <2>. QED
    BY <1>2, <2>1, <2>2
<1>5. ASSUME NEW x \in a + 1 .. t + m
      PROVE  \E k \in 1 .. n + m : r[k] = Piece(d, x)
  <2>1. CASE x \in a + 1 .. t
    BY <1>2, <1>3, <2>1
  <2>2. CASE x \notin a + 1 .. t
    <3>1. PICK y \in 1 .. m : x = t + y
      <4>1. x - t \in 1 .. m /\ x = t + (x - t)
        BY <2>2
      <4>. QED
        BY <4>1
    <3>. QED
      BY <1>2, <3>1
  <2>. QED
    BY <2>1, <2>2
<1>6. ASSUME NEW k \in 1 .. n + m, NEW l \in 1 .. n + m,
             k < l, r[k][1] = d, r[l][1] = d
      PROVE  r[k][2] < r[l][2]
  <2>1. CASE k \in 1 .. n /\ l \in 1 .. n
    BY <1>2, <1>3, <1>6, <2>1
  <2>2. CASE k \in 1 .. n /\ \E y \in 1 .. m : l = n + y
    <3>1. PICK w \in a + 1 .. t : w = r[k][2]
      BY <1>2, <1>3, <1>6, <2>2
    <3>2. PICK y \in 1 .. m : r[l][2] = t + y
      BY <1>2, <2>2
    <3>. QED
      BY <3>1, <3>2
  <2>3. CASE (\E x \in 1 .. m : k = n + x) /\ l \in 1 .. n
    BY <1>6, <2>3
  <2>4. CASE (\E x \in 1 .. m : k = n + x) /\ \E y \in 1 .. m : l = n + y
    <3>1. PICK x \in 1 .. m, y \in 1 .. m :
            k = n + x /\ l = n + y /\ r[k][2] = t + x /\ r[l][2] = t + y
      BY <1>2, <2>4
    <3>. QED
      BY <1>6, <3>1
  <2>. QED
    BY <1>2, <2>1, <2>2, <2>3, <2>4
<1>7. Carries(r, d, a, t + m)
  BY <1>2, <1>4, <1>5, <1>6 DEF Carries
<1>. QED
  BY <1>1, <1>7 DEF HearsOf

\* They change nothing about the pieces of the others, or about one's own.
LEMMA HearsOthers ==
  ASSUME NEW q \in Seq(Pieces), NEW b \in Seq(Pieces), NEW c, NEW d, d # c,
         NEW s, s # d, NEW a \in Nat, NEW t \in Nat, NEW u \in Nat,
         Run(b, d, u), HearsOf(q, c, s, a, t)
  PROVE  HearsOf(q \o b, c, s, a, t)
<1>1. PICK n \in Nat, m \in Nat, r \in {q \o b} :
        /\ n = Len(q) /\ m = Len(b) /\ r = q \o b
        /\ Longer(r, q, n, m, d, u)
  BY RunAdded
<1>2. /\ DOMAIN q = 1 .. n /\ DOMAIN r = 1 .. n + m
      /\ \A k \in 1 .. n : k \in 1 .. n + m /\ r[k] = q[k]
      /\ \A k \in 1 .. m : r[n + k][1] = d
      /\ \A k \in 1 .. n + m :
           k \in 1 .. n \/ \E x \in 1 .. m : k = n + x
  BY <1>1 DEF Longer
<1>3. \A k \in 1 .. n + m : r[k][1] = s => k \in 1 .. n
  BY <1>2
<1>4. CASE s = c
  BY <1>1, <1>2, <1>3, <1>4 DEF HearsOf
<1>5. CASE s # c
  <2>1. Carries(q, s, a, t)
    BY <1>5 DEF HearsOf
  <2>2. \A k \in 1 .. n + m : r[k][1] = s => r[k][2] \in a + 1 .. t
    BY <1>2, <1>3, <2>1 DEF Carries
  <2>3. \A x \in a + 1 .. t : \E k \in 1 .. n + m : r[k] = Piece(s, x)
    BY <1>2, <2>1 DEF Carries
  <2>4. \A k, l \in 1 .. n + m :
          k < l /\ r[k][1] = s /\ r[l][1] = s => r[k][2] < r[l][2]
    BY <1>2, <1>3, <2>1 DEF Carries
  <2>5. Carries(r, s, a, t)
    BY <1>2, <2>2, <2>3, <2>4 DEF Carries
  <2>. QED
    BY <1>1, <1>5, <2>5 DEF HearsOf
<1>. QED
  BY <1>4, <1>5
-----------------------------------------------------------------------------
(***************************************************************************)
(* The invariant of NothingSkipped.  The rest of the state is what makes   *)
(* a stream begin and go on at the right piece.                            *)
(***************************************************************************)
\* The stream to the server holds the pieces that follow the ones taken, and
\* no client was accepted after more pieces than that.
Numbered ==
  /\ \A c \in Clients : \A k \in 1 .. Len(up[c]) :
       up[c][k] = Piece(c, Taken(c) + k)
  /\ \A c, s \in Clients : since[c][s] =< Taken(s)

\* A client that is not in clients[] has received nothing, and one that has
\* left has nothing any more.
Fresh ==
  \A c \in Clients :
    state[c] = "gone" \/ c \notin Members =>
      heard[c] = <<>> /\ down[c] = <<>>

\* An event is there because there is something to read.
Ready == \A c \in batch \cap Clients : up[c] # <<>> \/ state[c] = "gone"

\* The broadcast gets to the sender at the start of the buffer.
AtSender ==
  buf # <<>> /\ turn \in 1 .. Len(clients) /\ clients[turn] = sender => done = 0

\* A client that is there waits for accept() or has been accepted.
Connected ==
  \A c \in Clients :
    state[c] = "in" =>
      c \in Members \/ \E i \in 1 .. Len(backlog) : backlog[i] = c

Flow == Numbered /\ Fresh /\ Ready /\ AtSender /\ Connected

Hears(i) ==
  state[clients[i]] = "in" =>
    \A s \in Clients :
      HearsOf(Stream(i), clients[i], s, since[clients[i]][s], Taken(s))

Hearing == \A i \in 1 .. Len(clients) : Hears(i)

IHeard == IType /\ (alive => Flow /\ Hearing)

\* The same pieces in the same stream.
LEMMA SameStream ==
  ASSUME NEW i, NEW j, clients'[i] = clients[j], clients[j] \in Clients, Hears(j),
         \A s \in Clients : Taken(s)' = Taken(s),
         since'[clients[j]] = since[clients[j]],
         state'[clients[j]] = "in" =>
           state[clients[j]] = "in" /\ Stream(i)' = Stream(j)
  PROVE  Hears(i)'
BY DEF Hears

\* Nothing is in the buffer: the streams are what has been sent to the clients.
LEMMA NoRest == \A i : buf = <<>> => Rest(i) = <<>>
BY DEF Rest

LEMMA StreamParts ==
  ASSUME IType, NEW i \in 1 .. Len(clients)
  PROVE  /\ clients[i] \in Clients /\ i \in Nat /\ Len(clients) \in Nat
         /\ heard[clients[i]] \in Seq(Pieces) /\ down[clients[i]] \in Seq(Pieces)
         /\ Rest(i) \in Seq(Pieces) /\ Stream(i) \in Seq(Pieces)
<1> USE DEF IType, TypeOK
<1>1. clients[i] \in Clients /\ i \in Nat /\ Len(clients) \in Nat
  BY DEF ServerType
<1>2. /\ heard[clients[i]] \in Seq(Pieces) /\ down[clients[i]] \in Seq(Pieces)
  BY <1>1 DEF ClientType, StreamType
<1>3. Rest(i) \in Seq(Pieces)
  <2>1. CASE buf = <<>> \/ i < turn \/ clients[i] = sender
    BY <2>1 DEF Rest
  <2>2. CASE ~(buf = <<>> \/ i < turn \/ clients[i] = sender)
    <3>1. PICK m \in Nat : m = IF i = turn THEN done ELSE 0
      BY DEF BroadcastType
    <3>2. m \in 0 .. Len(buf) /\ buf \in Seq(Pieces)
      BY <2>2, <3>1 DEF BroadcastType
    <3>3. Rest(i) = SubSeq(buf, m + 1, Len(buf))
      BY <2>2, <3>1 DEF Rest
    <3>. QED
      BY <3>2, <3>3, CutInTwo
  <2>. QED
    BY <2>1, <2>2
<1>4. Stream(i) \in Seq(Pieces)
  BY <1>2, <1>3, ConcatProperties DEF Stream
<1>. QED
  BY <1>1, <1>2, <1>3, <1>4

LEMMA InitHeard == Init => IHeard
<1> SUFFICES ASSUME Init PROVE Flow /\ Hearing
  BY InitType DEF IHeard
<1>1. Len(clients) = 0 /\ clients \in Seq(Clients) /\ buf = <<>> /\ batch = {}
  BY DEF Init
<1>2. Hearing /\ AtSender /\ Ready
  BY <1>1 DEF Hearing, AtSender, Ready
<1>3. Connected /\ Fresh
  BY DEF Init, Connected, Fresh
<1>4. Numbered
  <2>1. \A c \in Clients : Len(up[c]) = 0 /\ Taken(c) = 0
    BY DEF Init, Taken
  <2>2. \A c, s \in Clients : since[c][s] = 0
    BY DEF Init
  <2>. QED
    BY <2>1, <2>2 DEF Numbered
<1>. QED
  BY <1>2, <1>3, <1>4 DEF Flow

\* The steps that leave the streams and the buffer alone.
LEMMA QuietSteps ==
  ASSUME IHeard, alive,
         EpollWait \/ \E c \in Clients : Type(c) \/ Connect(c) \/ Send(c)
  PROVE  Flow' /\ Hearing'
<1> USE DEF IHeard, Flow
<1>1. \A c \in Clients : Taken(c)' = Taken(c)
  <2>1. CASE EpollWait \/ \E c \in Clients : Type(c) \/ Connect(c)
    BY <2>1 DEF EpollWait, Type, Connect, Taken, clientVars
  <2>2. ASSUME NEW c \in Clients, Send(c)
        PROVE  \A d \in Clients : Taken(d)' = Taken(d)
    <3>1. /\ sent[c] \in Nat /\ up[c] \in Seq(Pieces) /\ Len(up[c]) \in Nat
          /\ Piece(c, sent[c] + 1) \in Pieces
      BY DEF IType, TypeOK, ClientType, StreamType, Piece, Pieces
    <3>2. \A d \in Clients :
            /\ up'[d] = IF d = c THEN Append(up[c], Piece(c, sent[c] + 1))
                        ELSE up[d]
            /\ sent'[d] = IF d = c THEN sent[c] + 1 ELSE sent[d]
      BY <2>2 DEF Send, IType, TypeOK, ClientType, StreamType
    <3>3. Len(Append(up[c], Piece(c, sent[c] + 1))) = Len(up[c]) + 1
      BY <3>1, AppendItems
    <3>5. ASSUME NEW d \in Clients
          PROVE  sent'[d] - Len(up'[d]) = sent[d] - Len(up[d])
      <4>1. CASE d = c
        <5>1. PICK x \in Nat, y \in Nat : x = sent[c] /\ y = Len(up[c])
          BY <3>1
        <5>2. Len(up'[d]) = y + 1 /\ sent'[d] = x + 1
          BY <3>2, <3>3, <4>1, <5>1
        <5>3. sent'[d] - Len(up'[d]) = x - y
          BY <5>2
        <5>. QED
          BY <4>1, <5>1, <5>3
      <4>2. CASE d # c
        BY <3>2, <4>2
      <4>. QED
        BY <4>1, <4>2
    <3>. QED
      BY <3>5 DEF Taken
  <2>. QED
    BY <2>1, <2>2
<1>2. /\ UNCHANGED <<alive, clients, since, buf, sender, turn, done, heard, down>>
      /\ \A c \in Clients : state'[c] = state[c] \/ state[c] = "out"
  <2>1. ASSUME NEW c \in Clients, Connect(c)
        PROVE  \A d \in Clients : state'[d] = state[d] \/ state[d] = "out"
    BY <2>1 DEF Connect, IType, TypeOK, ClientType
  <2>. QED
    BY <2>1 DEF EpollWait, Type, Connect, Send, serverVars, clientVars,
                broadcastVars
<1>3. Members' = Members
  BY <1>2 DEF Members
<1>4. Hearing'
  <2> SUFFICES ASSUME NEW i \in 1 .. Len(clients) PROVE Hears(i)'
    BY <1>2 DEF Hearing
  <2>1. clients[i] \in Clients /\ clients[i] \in Members
    BY StreamParts, MembersFacts DEF IType, TypeOK, ServerType
  <2>2. state'[clients[i]] = state[clients[i]]
    BY <1>2, <2>1 DEF IType, Joined
  <2>3. Stream(i)' = Stream(i)
    BY <1>2 DEF Stream, Rest
  <2>4. Hears(i)
    BY DEF Hearing
  <2>. QED
    BY <1>1, <1>2, <2>1, <2>2, <2>3, <2>4, SameStream
<1>5. AtSender'
  BY <1>2 DEF AtSender
<1>6. Fresh'
  <2>1. \A c \in Clients : state[c] = "out" => c \notin Members
    BY DEF IType, Joined
  <2>. QED
    BY <1>2, <1>3, <2>1 DEF Fresh
<1>7. Numbered'
  <2>1. CASE EpollWait \/ \E c \in Clients : Type(c) \/ Connect(c)
    <3>1. up' = up
      BY <2>1 DEF EpollWait, Type, Connect
    <3>. QED
      BY <1>1, <1>2, <3>1 DEF Numbered
  <2>2. ASSUME NEW c \in Clients, Send(c)
        PROVE  \A d \in Clients : \A k \in 1 .. Len(up'[d]) :
                 up'[d][k] = Piece(d, Taken(d) + k)
    <3>1. /\ sent[c] \in Nat /\ up[c] \in Seq(Pieces) /\ Len(up[c]) \in Nat
          /\ Piece(c, sent[c] + 1) \in Pieces
      BY DEF IType, TypeOK, ClientType, StreamType, Piece, Pieces
    <3>2. \A d \in Clients :
            up'[d] = IF d = c THEN Append(up[c], Piece(c, sent[c] + 1))
                     ELSE up[d]
      BY <2>2 DEF Send, IType, TypeOK, StreamType
    <3>3. PICK n \in Nat, r \in {Append(up[c], Piece(c, sent[c] + 1))} :
            n = Len(up[c]) /\ r = Append(up[c], Piece(c, sent[c] + 1))
      BY <3>1
    <3>4. /\ Len(r) = n + 1 /\ r[n + 1] = Piece(c, sent[c] + 1)
          /\ \A k \in 1 .. n : r[k] = up[c][k]
      BY <3>1, <3>3, AppendItems
    <3>5. sent[c] + 1 = Taken(c) + (n + 1)
      BY <3>1, <3>3 DEF Taken
    <3>6. \A k \in 1 .. n : r[k] = Piece(c, Taken(c) + k)
      BY <3>3, <3>4 DEF Numbered
    <3>7. \A k \in 1 .. n + 1 : k \in 1 .. n \/ k = n + 1
      BY <3>3
    <3>8. \A k \in 1 .. Len(r) : r[k] = Piece(c, Taken(c) + k)
      BY <3>4, <3>5, <3>6, <3>7
    <3>. QED
      BY <3>2, <3>3, <3>8 DEF Numbered
  <2>. QED
    BY <1>1, <1>2, <2>1, <2>2 DEF Numbered
<1>8. Ready'
  <2>1. CASE EpollWait
    <3>1. \A c \in batch' \cap Clients : Readable(c)
      BY <2>1, ChatAssumption DEF EpollWait, ChatAssumption
    <3>. QED
      BY <2>1, <3>1 DEF EpollWait, Ready, Readable, clientVars
  <2>2. ASSUME NEW c \in Clients, Type(c) \/ Connect(c)
        PROVE  Ready'
    <3>1. UNCHANGED <<batch, up>>
      BY <2>2 DEF Type, Connect, serverVars
    <3>. QED
      BY <1>2, <3>1 DEF Ready
  <2>3. ASSUME NEW c \in Clients, Send(c)
        PROVE  Ready'
    <3>1. UNCHANGED <<batch, state>> /\ up'[c] # <<>>
          /\ \A d \in Clients : d # c => up'[d] = up[d]
      <4>1. Append(up[c], Piece(c, sent[c] + 1)) # <<>>
        <5>1. up[c] \in Seq(Pieces) /\ Piece(c, sent[c] + 1) \in Pieces
          BY DEF IType, TypeOK, ClientType, StreamType, Piece, Pieces
        <5>. QED
          BY <5>1, AppendProperties
      <4>. QED
        BY <2>3, <4>1 DEF Send, serverVars, IType, TypeOK, StreamType
    <3>. QED
      BY <3>1 DEF Ready
  <2>. QED
    BY <2>1, <2>2, <2>3
<1>9. Connected'
  <2>1. CASE EpollWait \/ \E c \in Clients : Type(c) \/ Send(c)
    <3>1. UNCHANGED <<state, backlog>>
      BY <2>1 DEF EpollWait, Type, Send, serverVars, clientVars
    <3>. QED
      BY <1>3, <3>1 DEF Connected
  <2>2. ASSUME NEW c \in Clients, Connect(c)
        PROVE  Connected'
    <3>1. backlog' = Append(backlog, c)
          /\ \A d \in Clients : d # c => state'[d] = state[d]
      BY <2>2 DEF Connect, IType, TypeOK, ClientType
    <3>2. PICK q, r : q = backlog /\ r = Append(q, c)
      OBVIOUS
    <3>3. q \in Seq(Clients)
      <4>1. \A k \in 1 .. Len(backlog) : backlog[k] \in Clients
        BY DEF IType, TypeOK, ServerType
      <4>. QED
        BY <3>2, <4>1, Retyped DEF IType, TypeOK, ServerType
    <3>4. /\ Len(q) \in Nat /\ Len(r) = Len(q) + 1 /\ r[Len(q) + 1] = c
          /\ \A k \in 1 .. Len(q) : r[k] = q[k]
      BY <3>2, <3>3, AppendItems
    <3>5. \E k \in 1 .. Len(r) : r[k] = c
      BY <3>4
    <3>6. \A k \in 1 .. Len(q) : k \in 1 .. Len(r) /\ r[k] = q[k]
      BY <3>4
    <3>. QED
      BY <1>3, <3>1, <3>2, <3>5, <3>6 DEF Connected
  <2>. QED
    BY <2>1, <2>2
<1>. QED
  BY <1>4, <1>5, <1>6, <1>7, <1>8, <1>9

LEMMA AcceptHeard ==
  ASSUME IHeard, alive, Accept
  PROVE  Flow' /\ Hearing'
<1> USE DEF IHeard, Flow
<1> DEFINE h == Head(backlog)
<1>1. /\ h \in Clients /\ h \notin Members
      /\ clients' \in Seq(Clients) /\ Len(clients') = Len(clients) + 1
      /\ \A i \in 1 .. Len(clients) : clients'[i] = clients[i]
      /\ clients'[Len(clients) + 1] = h
      /\ Members' = Members \cup {h}
  BY AcceptMoves
<1>2. /\ buf = <<>> /\ backlog' = Tail(backlog) /\ batch' = batch \ {Listener}
      /\ since' = [since EXCEPT ![h] = [s \in Clients |-> Taken(s)]]
      /\ UNCHANGED <<buf, sender, turn, done, state, todo, sent, heard, up, down>>
  BY DEF Accept, Idle, broadcastVars, clientVars
<1>3. \A s \in Clients : Taken(s)' = Taken(s)
  BY <1>2 DEF Taken
<1>4. \A c, s \in Clients :
        since'[c][s] = IF c = h THEN Taken(s) ELSE since[c][s]
  BY <1>1, <1>2 DEF IType, TypeOK, ServerType
<1>5. ASSUME NEW i \in 1 .. Len(clients')
      PROVE  Hears(i)'
  <2>1. CASE i \in 1 .. Len(clients)
    <3>1. clients'[i] = clients[i] /\ clients[i] \in Clients
          /\ clients[i] \in Members
      BY <1>1, <2>1, StreamParts, MembersFacts DEF IType, TypeOK, ServerType
    <3>2. Stream(i)' = Stream(i)
      BY <1>2, <3>1, NoRest DEF Stream, Rest
    <3>3. since'[clients[i]] = since[clients[i]]
      BY <1>1, <1>2, <3>1 DEF IType, TypeOK, ServerType
    <3>. QED
      BY <1>2, <1>3, <2>1, <3>1, <3>2, <3>3, SameStream DEF Hearing
  <2>2. CASE i \notin 1 .. Len(clients)
    <3>1. i = Len(clients) + 1 /\ clients'[i] = h
      <4>1. Len(clients) \in Nat
        BY DEF IType, TypeOK, ServerType
      <4>. QED
        BY <1>1, <2>2, <4>1
    <3>2. heard[h] = <<>> /\ down[h] = <<>>
      BY <1>1 DEF Fresh
    <3>3. Stream(i)' = <<>>
      <4>1. Stream(i)' = (<<>> \o <<>>) \o <<>>
        BY <1>2, <3>1, <3>2 DEF Stream, Rest
      <4>2. <<>> \o <<>> = <<>>
        BY EmptySeq, ConcatEmptySeq
      <4>. QED
        BY <4>1, <4>2
    <3>4. \A s \in Clients : HearsOf(<<>>, h, s, Taken(s), Taken(s))
      BY HearsNothingYet, TakenType
    <3>. QED
      BY <1>1, <1>3, <1>4, <3>1, <3>3, <3>4 DEF Hears
  <2>. QED
    BY <2>1, <2>2
<1>6. Hearing'
  BY <1>5 DEF Hearing
<1>7. Numbered'
  <2>1. \A s \in Clients : Taken(s) =< Taken(s)
    BY TakenType
  <2>. QED
    BY <1>2, <1>3, <1>4, <2>1 DEF Numbered
<1>8. Fresh' /\ Ready' /\ AtSender'
  BY <1>1, <1>2 DEF Fresh, Ready, AtSender
<1>9. Connected'
  <2> SUFFICES ASSUME NEW c \in Clients, state[c] = "in", c \notin Members'
               PROVE  \E i \in 1 .. Len(backlog') : backlog'[i] = c
    BY <1>2 DEF Connected
  <2>1. PICK i \in 1 .. Len(backlog) : backlog[i] = c
    BY <1>1 DEF Connected
  <2>2. /\ backlog # <<>> /\ h = backlog[1]
        /\ Len(backlog) \in Nat /\ Len(backlog) >= 1
        /\ Len(Tail(backlog)) = Len(backlog) - 1
        /\ \A k \in 1 .. Len(backlog) - 1 : Tail(backlog)[k] = backlog[k + 1]
    <3>1. backlog # <<>>
      BY DEF Accept, IType, Distinct
    <3>. QED
      BY <3>1, TailItems DEF IType, TypeOK, ServerType
  <2>3. i # 1
    BY <1>1, <2>1, <2>2
  <2>4. i - 1 \in 1 .. Len(backlog) - 1 /\ (i - 1) + 1 = i
    BY <2>1, <2>2, <2>3
  <2>. QED
    BY <1>2, <2>1, <2>2, <2>4
<1>. QED
  BY <1>6, <1>7, <1>8, <1>9

\* read() moves the next pieces of c to the end of every other stream.
LEMMA TakeHeard ==
  ASSUME IHeard, alive, NEW c \in Clients, Take(c)
  PROVE  Flow' /\ Hearing'
<1> USE DEF IHeard, Flow
<1>1. PICK n \in 1 .. Len(up[c]) :
        /\ buf' = SubSeq(up[c], 1, n)
        /\ up' = [up EXCEPT ![c] = SubSeq(@, n + 1, Len(@))]
  BY DEF Take
<1>2. PICK q \in Seq(Pieces), l \in Nat :
        q = up[c] /\ l = Len(q) /\ n \in 0 .. Len(q) /\ n \in 1 .. l
  BY <1>1 DEF IType, TypeOK, StreamType
<1>b. PICK b : b = SubSeq(q, 1, n)
  OBVIOUS
<1>3. /\ b \in Seq(Pieces) /\ Len(b) = n /\ \A k \in 1 .. n : b[k] = q[k]
      /\ Len(SubSeq(q, n + 1, Len(q))) = Len(q) - n
      /\ \A k \in 1 .. Len(q) - n : SubSeq(q, n + 1, Len(q))[k] = q[n + k]
  BY <1>2, <1>b, CutInTwo
<1>4. /\ buf = <<>> /\ buf' = b /\ sender' = c /\ turn' = 1 /\ done' = 0
      /\ batch' = batch \ {c}
      /\ UNCHANGED <<clients, backlog, since, state, sent, heard, down>>
  BY <1>1, <1>2, <1>b DEF Take, Idle, clientVars
<1>5. \A d \in Clients :
        up'[d] = IF d = c THEN SubSeq(q, n + 1, Len(q)) ELSE up[d]
  BY <1>1, <1>2 DEF IType, TypeOK, StreamType
<1>6. PICK u \in Nat : u = Taken(c)
  BY TakenType
<1>7. /\ Taken(c)' = u + n
      /\ \A s \in Clients : s # c => Taken(s)' = Taken(s)
  <2>1. Len(up'[c]) = l - n /\ sent'[c] = sent[c] /\ sent[c] \in Nat
    BY <1>2, <1>3, <1>4, <1>5, TakenType
  <2>2. u = sent[c] - l
    BY <1>2, <1>6 DEF Taken
  <2>. QED
    BY <1>4, <1>5, <2>1, <2>2 DEF Taken
<1>8. \A k \in 1 .. l : q[k] = Piece(c, u + k)
  BY <1>2, <1>6 DEF Numbered
<1>9. \A k \in 1 .. n : k \in 1 .. l
  BY <1>2
<1>10. Run(b, c, u)
  BY <1>3, <1>8, <1>9 DEF Run
<1>11. ASSUME NEW i \in 1 .. Len(clients)
      PROVE  Hears(i)'
  <2>1. /\ clients[i] \in Clients /\ i \in Nat /\ Stream(i) \in Seq(Pieces)
        /\ Hears(i)
    BY <1>11, StreamParts DEF Hearing
  <2>2. Stream(i) = (heard[clients[i]] \o down[clients[i]]) \o <<>>
    BY <1>4, NoRest DEF Stream
  <2>3. CASE clients[i] = c
    <3>1. Stream(i)' = Stream(i)
      BY <1>4, <2>2, <2>3 DEF Stream, Rest
    <3>2. \A s \in Clients :
            HearsOf(Stream(i), c, s, since[c][s], Taken(s)) =>
              HearsOf(Stream(i), c, s, since[c][s], Taken(s)')
      BY <1>7 DEF HearsOf
    <3>. QED
      BY <1>4, <2>1, <2>3, <3>1, <3>2 DEF Hears
  <2>4. CASE clients[i] # c
    <3>1. Stream(i)' = Stream(i) \o b
      <4>1. Rest(i)' = b
        <5>1. b # <<>>
          BY <1>2, <1>3
        <5>2. ~(i < 1)
          BY <2>1
        <5>3. Rest(i)' = SubSeq(b, 1, Len(b))
          BY <1>4, <2>4, <5>1, <5>2 DEF Rest
        <5>. QED
          BY <1>3, <5>3, SubSeqFull
      <4>2. heard[clients[i]] \o down[clients[i]] \in Seq(Pieces)
        BY <1>11, StreamParts, ConcatProperties
      <4>3. Stream(i) = heard[clients[i]] \o down[clients[i]]
        BY <2>2, <4>2, ConcatEmptySeq
      <4>. QED
        BY <1>4, <4>1, <4>3 DEF Stream
    <3>2. ASSUME NEW s \in Clients, state[clients[i]] = "in"
          PROVE  HearsOf(Stream(i) \o b, clients[i], s,
                         since[clients[i]][s], Taken(s)')
      <4>1. PICK r \in Seq(Pieces), x \in Clients, a \in Nat, t \in Nat :
              /\ r = Stream(i) /\ x = clients[i] /\ a = since[x][s]
              /\ t = Taken(s)
        BY <2>1, TakenType DEF IType, TypeOK, ServerType
      <4>2. a =< t /\ (s = c => t = u) /\ c # x
        BY <1>6, <2>1, <2>4, <4>1 DEF Numbered
      <4>3. HearsOf(r, x, s, a, t)
        BY <2>1, <3>2, <4>1 DEF Hears
      <4>4. CASE s = c
        <5>1. HearsOf(r, x, c, a, t) /\ Run(b, c, t) /\ b \in Seq(Pieces)
          BY <1>3, <1>10, <4>2, <4>3, <4>4
        <5>2. HearsOf(r \o b, x, c, a, t + Len(b))
          BY <4>2, <5>1, HearsMore
        <5>. QED
          BY <1>3, <1>7, <4>1, <4>2, <4>4, <5>2
      <4>5. CASE s # c
        <5>1. b \in Seq(Pieces)
          BY <1>3
        <5>2. HearsOf(r \o b, x, s, a, t)
          BY <1>10, <4>2, <4>3, <4>5, <5>1, HearsOthers
        <5>. QED
          BY <1>7, <4>1, <4>5, <5>2
      <4>. QED
        BY <4>4, <4>5
    <3>. QED
      BY <1>4, <3>1, <3>2 DEF Hears
  <2>. QED
    BY <2>3, <2>4
<1>12. Hearing'
  BY <1>4, <1>11 DEF Hearing
<1>13. Numbered'
  <2>1. ASSUME NEW d \in Clients, NEW k \in 1 .. Len(up'[d])
        PROVE  up'[d][k] = Piece(d, Taken(d)' + k)
    <3>1. CASE d = c
      <4>1. up'[d] = SubSeq(q, n + 1, Len(q)) /\ Len(up'[d]) = l - n
        BY <1>2, <1>3, <1>5, <3>1
      <4>2. k \in 1 .. l - n /\ up'[d][k] = q[n + k] /\ n + k \in 1 .. l
        BY <1>2, <1>3, <4>1
      <4>3. q[n + k] = Piece(c, u + (n + k)) /\ u + (n + k) = (u + n) + k
        BY <1>2, <1>8, <4>2
      <4>. QED
        BY <1>7, <3>1, <4>2, <4>3
    <3>2. CASE d # c
      BY <1>5, <1>7, <2>1, <3>2 DEF Numbered
    <3>. QED
      BY <3>1, <3>2
  <2>2. ASSUME NEW d \in Clients, NEW s \in Clients
        PROVE  since'[d][s] =< Taken(s)'
    <3>1. since[d][s] \in Nat /\ since[d][s] =< Taken(s)
      BY DEF IType, TypeOK, ServerType, Numbered
    <3>2. Taken(s)' = IF s = c THEN u + n ELSE Taken(s)
      BY <1>7
    <3>. QED
      BY <1>2, <1>4, <1>6, <3>1, <3>2
  <2>. QED
    BY <2>1, <2>2 DEF Numbered
<1>14. Fresh' /\ Ready' /\ AtSender' /\ Connected'
  <2>1. Members' = Members
    BY <1>4 DEF Members
  <2>. QED
    BY <1>4, <1>5, <2>1 DEF Fresh, Ready, AtSender, Connected
<1>. QED
  BY <1>12, <1>13, <1>14

\* The client that leaves clients[] takes no piece of another one along.
LEMMA DropHeard ==
  ASSUME IHeard, alive, NEW c \in Clients, Drop(c)
  PROVE  Flow' /\ Hearing'
<1> USE DEF IHeard, Flow
<1>1. /\ buf = <<>> /\ c \in batch /\ up[c] = <<>> /\ batch' = batch \ {c}
      /\ c \in Members /\ clients' = Without(c)
      /\ UNCHANGED <<backlog, since, buf, sender, turn, done, state, sent, heard,
                     up, down>>
  BY ChatAssumption
     DEF ChatAssumption, Drop, Idle, broadcastVars, clientVars, IType, TypeOK,
         ServerType
<1>2. state[c] = "gone"
  BY <1>1 DEF Ready
<1>3. /\ clients' \in Seq(Clients) /\ Members' = Members \ {c}
      /\ clients \in Seq(Clients)
  BY <1>1, WithoutFacts DEF IType, TypeOK, ServerType
<1>4. \A s \in Clients : Taken(s)' = Taken(s)
  BY <1>1 DEF Taken
<1>5. ASSUME NEW i \in 1 .. Len(clients')
      PROVE  Hears(i)'
  <2>1. clients'[i] \in Members'
    BY <1>3, <1>5 DEF Members
  <2>2. PICK j \in 1 .. Len(clients) : clients[j] = clients'[i]
    BY <1>3, <2>1, MembersFacts
  <2>3. clients[j] \in Clients /\ Hears(j)
    BY <1>3, <2>2 DEF Hearing
  <2>4. Stream(i)' = Stream(j)
    BY <1>1, <2>2, NoRest DEF Stream, Rest
  <2>. QED
    BY <1>1, <1>4, <2>2, <2>3, <2>4, SameStream
<1>6. Hearing' /\ Numbered'
  BY <1>1, <1>4, <1>5 DEF Hearing, Numbered
<1>7. Fresh' /\ Ready' /\ AtSender' /\ Connected'
  BY <1>1, <1>2, <1>3 DEF Fresh, Ready, AtSender, Connected
<1>. QED
  BY <1>6, <1>7

\* The steps of a broadcast: it goes on to the next client, or puts a piece
\* that its stream had to get into its stream.
LEMMA BroadcastFlow ==
  ASSUME IHeard, alive,
         UNCHANGED <<clients, batch, backlog, since, state, sent, heard, up>>,
         \A c \in Clients : down'[c] # down[c] => state[c] = "in" /\ c \in Members,
         AtSender',
         \A i \in 1 .. Len(clients) :
           state[clients[i]] = "in" => Stream(i)' = Stream(i)
  PROVE  Flow' /\ Hearing'
<1> USE DEF IHeard, Flow
<1>1. Members' = Members
  BY DEF Members
<1>2. \A s \in Clients : Taken(s)' = Taken(s)
  BY DEF Taken
<1>3. Numbered' /\ Ready' /\ Connected'
  BY <1>1, <1>2 DEF Numbered, Ready, Connected
<1>4. Fresh'
  BY <1>1 DEF Fresh
<1>5. ASSUME NEW i \in 1 .. Len(clients)
      PROVE  Hears(i)'
  <2>1. clients[i] \in Clients /\ Hears(i)
    BY StreamParts DEF Hearing
  <2>. QED
    BY <1>2, <2>1, SameStream
<1>. QED
  BY <1>3, <1>4, <1>5 DEF Hearing

LEMMA SkipHeard ==
  ASSUME IHeard, alive, Skip
  PROVE  Flow' /\ Hearing'
<1>1. /\ buf # <<>> /\ turn \in 1 .. Len(clients) /\ clients[turn] = sender
      /\ turn' = turn + 1 /\ turn \in Nat /\ done = 0 /\ done' = 0
      /\ UNCHANGED <<clients, batch, backlog, since, state, sent, heard, up,
                     down, buf, sender>>
  BY DEF Skip, Sending, serverVars, clientVars, IHeard, Flow, AtSender, IType,
         TypeOK, ServerType, BroadcastType
<1>2. AtSender'
  BY <1>1 DEF AtSender
<1>3. ASSUME NEW i \in 1 .. Len(clients)
      PROVE  Stream(i)' = Stream(i)
  <2>1. i \in Int
    BY StreamParts DEF IHeard
  <2>2. Rest(i)' = Rest(i)
    <3>1. CASE i = turn
      BY <1>1, <3>1 DEF Rest
    <3>2. CASE i < turn
      BY <1>1, <2>1, <3>2 DEF Rest
    <3>3. CASE i > turn
      <4>1. ~(i < turn) /\ ~(i < turn + 1) /\ i # turn
        BY <1>1, <2>1, <3>3
      <4>. QED
        BY <1>1, <4>1 DEF Rest
    <3>. QED
      BY <1>1, <2>1, <3>1, <3>2, <3>3
  <2>. QED
    BY <1>1, <2>2 DEF Stream
<1>. QED
  BY <1>1, <1>2, <1>3, BroadcastFlow

LEMMA DoneHeard ==
  ASSUME IHeard, alive, BroadcastDone
  PROVE  Flow' /\ Hearing'
<1>1. /\ turn \notin 1 .. Len(clients) /\ turn \in Nat \ {0} /\ buf' = <<>>
      /\ Len(clients) \in Nat
      /\ UNCHANGED <<clients, batch, backlog, since, state, sent, heard, up,
                     down>>
  BY DEF BroadcastDone, EndBroadcast, serverVars, clientVars, IHeard, IType,
         TypeOK, ServerType, BroadcastType
<1>2. AtSender'
  BY <1>1 DEF AtSender
<1>3. ASSUME NEW i \in 1 .. Len(clients)
      PROVE  Stream(i)' = Stream(i)
  <2>1. i < turn
    BY <1>1
  <2>. QED
    BY <1>1, <2>1 DEF Stream, Rest
<1>. QED
  BY <1>1, <1>2, <1>3, BroadcastFlow

LEMMA HandHeard ==
  ASSUME IHeard, alive, NEW c \in Clients, Hand(c)
  PROVE  Flow' /\ Hearing'
<1>1. /\ buf # <<>> /\ turn \in 1 .. Len(clients) /\ turn \in Nat
      /\ clients[turn] = c /\ c # sender /\ state[c] = "in"
      /\ buf \in Seq(Pieces) /\ done \in Nat /\ done < Len(buf)
      /\ down' = [down EXCEPT ![c] = Append(@, buf[done + 1])]
      /\ UNCHANGED <<clients, batch, backlog, since, state, sent, heard, up,
                     buf, sender>>
      /\ clients \in Seq(Clients)
  BY DEF Hand, To, Sending, serverVars, clientVars, IHeard, IType,
         TypeOK, ServerType, BroadcastType
<1>2. \/ done + 1 = Len(buf) /\ turn' = turn + 1 /\ done' = 0
      \/ done + 1 # Len(buf) /\ turn' = turn /\ done' = done + 1
  BY DEF Hand
<1>3. AtSender'
  BY <1>1, <1>2 DEF AtSender
<1>4. \A d \in Clients :
        down'[d] = IF d = c THEN Append(down[c], buf[done + 1]) ELSE down[d]
  BY <1>1 DEF IHeard, IType, TypeOK, StreamType
<1>5. c \in Members
  BY <1>1, MembersFacts
<1>6. ASSUME NEW i \in 1 .. Len(clients)
      PROVE  Stream(i)' = Stream(i)
  <2>1. i \in Int /\ clients[i] \in Clients
    BY StreamParts DEF IHeard
  <2>2. CASE i = turn
    <3>1. PICK h \in Seq(Pieces), d \in Seq(Pieces), b \in Seq(Pieces), m \in Nat :
            h = heard[c] /\ d = down[c] /\ b = buf /\ m = done
      BY <1>1 DEF IHeard, IType, TypeOK, StreamType, ClientType
    <3>2. m < Len(b)
      BY <1>1, <3>1
    <3>3. (h \o d) \o SubSeq(b, m + 1, Len(b))
            = (h \o Append(d, b[m + 1])) \o SubSeq(b, m + 2, Len(b))
      BY <3>2, PieceOver
    <3>4. Stream(i) = (h \o d) \o SubSeq(b, m + 1, Len(b))
      <4>1. ~(i < turn) /\ clients[i] # sender
        BY <1>1, <2>2
      <4>2. Rest(i) = SubSeq(b, m + 1, Len(b))
        BY <1>1, <2>2, <3>1, <4>1 DEF Rest
      <4>. QED
        BY <1>1, <2>2, <3>1, <4>2 DEF Stream
    <3>5. heard'[c] = h /\ down'[c] = Append(d, b[m + 1])
      BY <1>1, <1>4, <3>1
    <3>6. Rest(i)' = SubSeq(b, m + 2, Len(b))
      <4>1. CASE done + 1 = Len(buf)
        <5>1. Rest(i)' = <<>>
          <6>1. turn' = turn + 1
            BY <1>2, <4>1
          <6>2. i < turn + 1
            BY <1>1, <2>2
          <6>. QED
            BY <6>1, <6>2 DEF Rest
        <5>2. Len(b) < m + 2 /\ Len(b) \in Int /\ m + 2 \in Int
          BY <1>1, <3>1, <4>1
        <5>3. SubSeq(b, m + 2, Len(b)) = <<>>
          BY <5>2, SubSeqEmpty
        <5>. QED
          BY <5>1, <5>3
      <4>2. CASE done + 1 # Len(buf)
        <5>1. turn' = turn /\ done' = m + 1 /\ (m + 1) + 1 = m + 2
          BY <1>2, <3>1, <4>2
        <5>2. ~(i < turn) /\ clients[i] # sender
          BY <1>1, <2>2
        <5>. QED
          BY <1>1, <2>2, <3>1, <5>1, <5>2 DEF Rest
      <4>. QED
        BY <4>1, <4>2
    <3>7. Stream(i)' = (h \o Append(d, b[m + 1])) \o SubSeq(b, m + 2, Len(b))
      BY <1>1, <2>2, <3>5, <3>6 DEF Stream
    <3>. QED
      BY <3>3, <3>7, <3>4
  <2>3. CASE i # turn
    <3>1. clients[i] # c
      BY <1>1, <2>3 DEF IHeard, IType, Distinct
    <3>2. down'[clients[i]] = down[clients[i]]
      BY <1>4, <2>1, <3>1
    <3>3. Rest(i)' = Rest(i)
      <4>1. CASE i < turn
        <5>1. i < turn'
          BY <1>1, <1>2, <2>1, <4>1
        <5>. QED
          BY <4>1, <5>1 DEF Rest
      <4>2. CASE i > turn /\ turn' = turn
        BY <1>1, <2>3, <4>2 DEF Rest
      <4>3. CASE i > turn /\ turn' = turn + 1
        <5>1. done' = 0 /\ ~(i < turn) /\ ~(i < turn + 1)
          BY <1>1, <1>2, <2>1, <4>3
        <5>. QED
          BY <1>1, <2>3, <4>3, <5>1 DEF Rest
      <4>. QED
        BY <1>1, <1>2, <2>1, <2>3, <4>1, <4>2, <4>3
    <3>. QED
      BY <1>1, <3>2, <3>3 DEF Stream
  <2>. QED
    BY <2>2, <2>3
<1>. QED
  BY <1>1, <1>3, <1>4, <1>5, <1>6, BroadcastFlow

LEMMA HandGoneHeard ==
  ASSUME IHeard, alive, NEW c \in Clients, HandGone(c)
  PROVE  alive' => Flow' /\ Hearing'
<1> SUFFICES ASSUME alive' PROVE Flow' /\ Hearing'
  OBVIOUS
<1>1. /\ buf # <<>> /\ turn \in 1 .. Len(clients) /\ turn \in Nat
      /\ clients[turn] = c /\ state[c] = "gone"
      /\ turn' = turn + 1 /\ done' = 0
      /\ UNCHANGED <<clients, batch, backlog, since, state, sent, heard, up,
                     down, buf, sender>>
  BY DEF HandGone, To, Sending, clientVars, IHeard, IType,
         TypeOK, ServerType, BroadcastType
<1>2. AtSender'
  BY <1>1 DEF AtSender
<1>3. ASSUME NEW i \in 1 .. Len(clients), state[clients[i]] = "in"
      PROVE  Stream(i)' = Stream(i)
  <2>1. i \in Int /\ i # turn
    BY <1>1, <1>3, StreamParts DEF IHeard
  <2>2. Rest(i)' = Rest(i)
    <3>1. CASE i < turn
      <4>1. i < turn + 1
        BY <1>1, <2>1, <3>1
      <4>. QED
        BY <1>1, <3>1, <4>1 DEF Rest
    <3>2. CASE i > turn
      <4>1. ~(i < turn) /\ ~(i < turn + 1)
        BY <1>1, <2>1, <3>2
      <4>. QED
        BY <1>1, <2>1, <4>1 DEF Rest
    <3>. QED
      BY <1>1, <2>1, <3>1, <3>2
  <2>. QED
    BY <1>1, <2>2 DEF Stream
<1>. QED
  BY <1>1, <1>2, <1>3, BroadcastFlow

LEMMA ReadHeard ==
  ASSUME IHeard, alive, NEW c \in Clients, Read(c)
  PROVE  Flow' /\ Hearing'
<1>1. PICK n \in 1 .. Len(down[c]) :
        /\ heard' = [heard EXCEPT ![c] = @ \o SubSeq(down[c], 1, n)]
        /\ down' = [down EXCEPT ![c] = SubSeq(@, n + 1, Len(@))]
  BY DEF Read
<1>2. /\ state[c] = "in" /\ down[c] # <<>>
      /\ UNCHANGED <<clients, batch, backlog, since, state, sent, up, buf,
                     sender, turn, done>>
  BY DEF Read, serverVars, broadcastVars
<1>3. PICK h \in Seq(Pieces), d \in Seq(Pieces) :
        h = heard[c] /\ d = down[c] /\ n \in 0 .. Len(d)
  BY <1>1 DEF IHeard, IType, TypeOK, StreamType, ClientType
<1>4. \A x \in Clients :
        /\ heard'[x] = IF x = c THEN h \o SubSeq(d, 1, n) ELSE heard[x]
        /\ down'[x] = IF x = c THEN SubSeq(d, n + 1, Len(d)) ELSE down[x]
  BY <1>1, <1>3 DEF IHeard, IType, TypeOK, StreamType, ClientType
<1>5. c \in Members
  BY <1>2 DEF IHeard, Flow, Fresh
<1>6. ASSUME NEW i \in 1 .. Len(clients)
      PROVE  Stream(i)' = Stream(i)
  <2>1. clients[i] \in Clients /\ Rest(i) \in Seq(Pieces)
    BY StreamParts DEF IHeard
  <2>2. Rest(i)' = Rest(i)
    BY <1>2 DEF Rest
  <2>3. CASE clients[i] = c
    <3>1. PICK r \in Seq(Pieces) : r = Rest(i)
      BY <2>1
    <3>2. PICK m \in 0 .. Len(d) : m = n
      BY <1>3
    <3>3. ((h \o SubSeq(d, 1, m)) \o SubSeq(d, m + 1, Len(d))) \o r
            = (h \o d) \o r
      BY ReadOver
    <3>. QED
      BY <1>2, <1>3, <1>4, <2>2, <2>3, <3>1, <3>2, <3>3 DEF Stream
  <2>4. CASE clients[i] # c
    BY <1>2, <1>4, <2>1, <2>2, <2>4 DEF Stream
  <2>. QED
    BY <2>3, <2>4
<1>7. Members' = Members /\ \A s \in Clients : Taken(s)' = Taken(s)
  BY <1>2 DEF Members, Taken
<1>8. Numbered' /\ Ready' /\ Connected' /\ AtSender'
  BY <1>2, <1>7 DEF IHeard, Flow, Numbered, Ready, Connected, AtSender
<1>9. Fresh'
  BY <1>2, <1>4, <1>5, <1>7 DEF IHeard, Flow, Fresh
<1>10. ASSUME NEW i \in 1 .. Len(clients)
       PROVE  Hears(i)'
  <2>1. clients[i] \in Clients /\ Hears(i)
    BY StreamParts DEF IHeard, Hearing
  <2>. QED
    BY <1>2, <1>6, <1>7, <2>1, SameStream
<1>. QED
  BY <1>2, <1>8, <1>9, <1>10 DEF Flow, Hearing

LEMMA LeaveHeard ==
  ASSUME IHeard, alive, NEW c \in Clients, Leave(c)
  PROVE  Flow' /\ Hearing'
<1>1. /\ state[c] = "in" /\ state' = [state EXCEPT ![c] = "gone"]
      /\ down' = [down EXCEPT ![c] = <<>>]
      /\ heard' = [heard EXCEPT ![c] = <<>>]
      /\ UNCHANGED <<clients, batch, backlog, since, sent, up, buf, sender,
                     turn, done>>
  BY DEF Leave, serverVars, broadcastVars
<1>2. \A x \in Clients :
        /\ state'[x] = IF x = c THEN "gone" ELSE state[x]
        /\ down'[x] = IF x = c THEN <<>> ELSE down[x]
        /\ heard'[x] = IF x = c THEN <<>> ELSE heard[x]
  BY <1>1 DEF IHeard, IType, TypeOK, StreamType, ClientType
<1>3. Members' = Members /\ \A s \in Clients : Taken(s)' = Taken(s)
  BY <1>1 DEF Members, Taken
<1>4. Numbered' /\ Ready' /\ Connected' /\ AtSender' /\ Fresh'
  BY <1>1, <1>2, <1>3
     DEF IHeard, Flow, Numbered, Ready, Connected, AtSender, Fresh
<1>5. ASSUME NEW i \in 1 .. Len(clients)
      PROVE  Hears(i)'
  <2>1. clients[i] \in Clients /\ Hears(i)
    BY StreamParts DEF IHeard, Hearing
  <2>2. ASSUME state'[clients[i]] = "in"
        PROVE  state[clients[i]] = "in" /\ Stream(i)' = Stream(i)
    <3>1. clients[i] # c /\ state[clients[i]] = "in"
      BY <1>2, <2>1, <2>2
    <3>2. Rest(i)' = Rest(i)
      BY <1>1 DEF Rest
    <3>. QED
      BY <1>1, <1>2, <2>1, <3>1, <3>2 DEF Stream
  <2>. QED
    BY <1>1, <1>3, <2>1, <2>2, SameStream
<1>. QED
  BY <1>1, <1>4, <1>5 DEF Flow, Hearing

LEMMA StepHeard == IHeard /\ [Next]_vars => IHeard'
<1> SUFFICES ASSUME IHeard, [Next]_vars, alive' PROVE Flow' /\ Hearing'
  BY StepType DEF IHeard
<1>1. alive
  BY DEF Next, Server, EpollWait, Accept, Skip, BroadcastDone, Take, Drop, Hand,
         HandGone, Client, Connect, Type, Send, Read, Leave, Idle, Sending, To,
         serverVars, vars
<1>2. CASE Server
  <2>1. CASE EpollWait
    BY <1>1, <2>1, QuietSteps
  <2>2. CASE Accept
    BY <1>1, <2>2, AcceptHeard
  <2>3. CASE Skip
    BY <1>1, <2>3, SkipHeard
  <2>4. CASE BroadcastDone
    BY <1>1, <2>4, DoneHeard
  <2>5. ASSUME NEW c \in Clients, Take(c) \/ Drop(c) \/ Hand(c) \/ HandGone(c)
        PROVE  Flow' /\ Hearing'
    BY <1>1, <2>5, TakeHeard, DropHeard, HandHeard, HandGoneHeard
  <2>. QED
    BY <1>2, <2>1, <2>2, <2>3, <2>4, <2>5 DEF Server
<1>3. ASSUME NEW c \in Clients, Client(c) \/ Connect(c) \/ Type(c) \/ Leave(c)
      PROVE  Flow' /\ Hearing'
  <2>1. CASE Send(c) \/ Connect(c) \/ Type(c)
    BY <1>1, <2>1, QuietSteps
  <2>2. CASE Read(c)
    BY <1>1, <2>2, ReadHeard
  <2>3. CASE Leave(c)
    BY <1>1, <2>3, LeaveHeard
  <2>. QED
    BY <1>3, <2>1, <2>2, <2>3 DEF Client
<1>4. CASE UNCHANGED vars
  <2>1. UNCHANGED <<clients, batch, backlog, since, buf, sender, turn, done,
                    state, sent, heard, up, down>>
    BY <1>4 DEF vars, serverVars, broadcastVars, clientVars
  <2>2. AtSender' /\ \A i : Stream(i)' = Stream(i)
    BY <1>1, <2>1 DEF IHeard, Flow, AtSender, Stream, Rest
  <2>. QED
    BY <1>1, <2>1, <2>2, BroadcastFlow
<1>. QED
  BY <1>2, <1>3, <1>4 DEF Next

\* In every reachable state a client that was accepted and is still there has
\* heard, or is about to hear, every piece of every other client that the
\* server has read since, once and in order, and none of its own.
THEOREM NobodySkipped == Spec => []NothingSkipped
<1>1. IHeard => NothingSkipped
  <2> SUFFICES ASSUME IHeard, alive PROVE NothingSkipped
    BY DEF NothingSkipped
  <2>1. DOMAIN clients = 1 .. Len(clients) /\ DOMAIN backlog = 1 .. Len(backlog)
    BY DEF IHeard, IType, TypeOK, ServerType
  <2>2. \A i \in 1 .. Len(clients) : Hears(i)
    BY DEF IHeard, Hearing
  <2>3. \A c \in Clients :
          state[c] = "in" =>
            c \in Members \/ \E i \in 1 .. Len(backlog) : backlog[i] = c
    BY DEF IHeard, Flow, Connected
  <2>. QED
    BY <2>1, <2>2, <2>3 DEF NothingSkipped, Hears, HearsOf
<1>. QED
  BY <1>1, InitHeard, StepHeard, PTL DEF Spec
=============================================================================
