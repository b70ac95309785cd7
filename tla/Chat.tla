-------------------------------- MODULE Chat --------------------------------
(***************************************************************************)
(* The chat over TCP (module3/7): a server with one thread, epoll and the  *)
(* array clients[], and the clients' select() loop.                        *)
(*                                                                         *)
(* A piece, <<s, n>>, is the n-th portion of bytes that client s hands to  *)
(* its socket: a line is one piece, a file a header and its data, in one   *)
(* send() each.  A stream keeps the pieces in order and forgets which      *)
(* send() they came from.  A descriptor stands for its client: an event    *)
(* names a descriptor once, and only its own event closes it, so a number  *)
(* that accept() uses again meets no old event.  What a client prints or   *)
(* writes to disk is left out.  One life of the server.                    *)
(***************************************************************************)
EXTENDS Integers, Sequences, FiniteSets

CONSTANTS
  Clients,      \* the client processes, each connecting once
  Listener,     \* server_fd in an event
  MaxEvents,    \* MAX_EVENTS: the size of clients[] and of events[]
  UpRoom, DownRoom,  \* the pieces the kernel keeps of a stream to and from
                     \* the server
  Parts,        \* the pieces the data of a file comes in
  Talk          \* bound: the pieces that each client sends

\* accept() writes clients[client_count++] without a look at the size.
ASSUME ChatAssumption ==
  /\ IsFiniteSet(Clients) /\ Cardinality(Clients) < MaxEvents
  /\ Listener \notin Clients
  /\ {UpRoom, DownRoom, Parts} \subseteq Nat \ {0}
  /\ Talk \in [Clients -> Nat]

VARIABLES
  alive, clients, batch,         \* the server, clients[], events[i ..]
  buf, sender, turn, done,       \* read()'s buffer, broadcast()'s sender_fd,
                                 \* its i, the part of buf that send() has taken
  backlog,                       \* connections that wait for accept()
  state, todo,                   \* the clients, the pieces of send() in hand
  up, down,                      \* the streams to and from the server
  written,                       \* clients written to after they had left
  sent,                          \* history: the pieces each client has sent
  heard,                         \* history: the pieces each client has read
  since                          \* history: the pieces of each sender that the
                                 \* server had read when it accepted a client
  \* (a client that leaves takes its histories with it)

broadcastVars == <<buf, sender, turn, done>>
serverVars == <<alive, clients, batch, backlog, written, since>>
clientVars == <<state, todo, sent, heard>>
vars == <<serverVars, broadcastVars, clientVars, up, down>>

Init ==
  /\ alive = TRUE /\ clients = <<>> /\ batch = {}
  /\ buf = <<>> /\ sender = Listener /\ turn = 1 /\ done = 0
  /\ backlog = <<>> /\ written = {}
  /\ state = [c \in Clients |-> "out"] /\ todo = [c \in Clients |-> 0]
  /\ up = [c \in Clients |-> <<>>] /\ down = [c \in Clients |-> <<>>]
  /\ sent = [c \in Clients |-> 0] /\ heard = [c \in Clients |-> <<>>]
  /\ since = [c \in Clients |-> [s \in Clients |-> 0]]

Members == {clients[i] : i \in DOMAIN clients}

\* The pieces of s that the server has read.
Taken(s) == sent[s] - Len(up[s])

Piece(s, n) == <<s, n>>
-----------------------------------------------------------------------------
(***************************************************************************)
(* The server.  Between two events it is at EpollWait or in the batch, with*)
(* nothing to broadcast.                                                   *)
(***************************************************************************)
Idle == alive /\ buf = <<>>

\* Mutant: the end of a connection is no event.
HasData(c) == up[c] # <<>>

Readable(c) == up[c] # <<>> \/ state[c] = "gone"

\* The events come in the order the kernel likes: batch is a set.
EpollWait ==
  /\ Idle /\ batch = {}
  /\ batch' = {c \in Members : Readable(c)}
              \cup (IF backlog = <<>> THEN {} ELSE {Listener})
  /\ batch' # {}
  /\ UNCHANGED <<alive, clients, backlog, written, since, broadcastVars,
                 clientVars, up, down>>

Accept ==
  /\ Idle /\ Listener \in batch
  /\ clients' = Append(clients, Head(backlog))
  /\ backlog' = Tail(backlog)
  /\ since' = [since EXCEPT ![Head(backlog)] = [s \in Clients |-> Taken(s)]]
  /\ batch' = batch \ {Listener}
  /\ UNCHANGED <<alive, written, broadcastVars, clientVars, up, down>>

\* read() takes what there is, or a part of it that fits or has arrived.
Take(c) ==
  /\ Idle /\ c \in batch \cap Clients /\ up[c] # <<>>
  /\ \E n \in 1 .. Len(up[c]) :
       /\ buf' = SubSeq(up[c], 1, n)
       /\ up' = [up EXCEPT ![c] = SubSeq(@, n + 1, Len(@))]
  /\ sender' = c /\ turn' = 1 /\ done' = 0
  /\ batch' = batch \ {c}
  /\ UNCHANGED <<alive, clients, backlog, written, since, clientVars, down>>

\* Mutant: the last client takes the place of the first one.
WithoutFirst(c) ==
  LET last == Len(clients)
  IN  SubSeq([clients EXCEPT ![1] = clients[last]], 1, last - 1)

\* Mutant: the last entry is cut off and not moved to the gap.
WithoutLast(c) == SubSeq(clients, 1, Len(clients) - 1)

\* The last client takes the place of the one that left.
Without(c) ==
  LET last == Len(clients)
      j == CHOOSE i \in DOMAIN clients : clients[i] = c
  IN  SubSeq([clients EXCEPT ![j] = clients[last]], 1, last - 1)

\* read() returns 0 or an error.
Drop(c) ==
  /\ Idle /\ c \in batch \cap Clients /\ up[c] = <<>>
  /\ clients' = Without(c)
  /\ batch' = batch \ {c}
  /\ UNCHANGED <<alive, backlog, written, since, broadcastVars, clientVars,
                 up, down>>

EndBroadcast == buf' = <<>> /\ sender' = Listener /\ turn' = 1 /\ done' = 0

Sending == alive /\ buf # <<>> /\ turn \in DOMAIN clients

Skip ==
  /\ Sending /\ clients[turn] = sender
  /\ turn' = turn + 1
  /\ UNCHANGED <<serverVars, buf, sender, done, clientVars, up, down>>

To(c) == Sending /\ clients[turn] = c /\ c # sender

\* send() copies another piece, and waits while there is no room.
Hand(c) ==
  /\ To(c) /\ state[c] = "in" /\ Len(down[c]) < DownRoom
  /\ down' = [down EXCEPT ![c] = Append(@, buf[done + 1])]
  /\ IF done + 1 = Len(buf)
       THEN turn' = turn + 1 /\ done' = 0
       ELSE done' = done + 1 /\ UNCHANGED turn
  /\ UNCHANGED <<serverVars, buf, sender, clientVars, up>>

\* The first send() to a client that has left is lost; the next raises
\* SIGPIPE, which nobody catches.
HandGone(c) ==
  /\ To(c) /\ state[c] = "gone"
  /\ IF c \in written
       THEN /\ alive' = FALSE /\ clients' = <<>> /\ batch' = {}
            /\ backlog' = <<>> /\ EndBroadcast
            /\ UNCHANGED written
       ELSE /\ written' = written \cup {c} /\ turn' = turn + 1 /\ done' = 0
            /\ UNCHANGED <<alive, clients, batch, backlog, buf, sender>>
  /\ UNCHANGED <<since, clientVars, up, down>>

BroadcastDone ==
  /\ alive /\ buf # <<>> /\ turn \notin DOMAIN clients
  /\ EndBroadcast
  /\ UNCHANGED <<serverVars, clientVars, up, down>>
-----------------------------------------------------------------------------
(***************************************************************************)
(* The clients.                                                            *)
(***************************************************************************)
Connect(c) ==
  /\ state[c] = "out"
  /\ IF alive
       THEN /\ state' = [state EXCEPT ![c] = "in"]
            /\ backlog' = Append(backlog, c)
       ELSE state' = [state EXCEPT ![c] = "gone"] /\ UNCHANGED backlog
  /\ UNCHANGED <<alive, clients, batch, written, since, broadcastVars, todo,
                 sent, heard, up, down>>

\* A line, or a file: the header and then the data.
Type(c) ==
  /\ state[c] = "in" /\ todo[c] = 0
  /\ \E n \in {1, 1 + Parts} :
       /\ sent[c] + n =< Talk[c]
       /\ todo' = [todo EXCEPT ![c] = n]
  /\ UNCHANGED <<serverVars, broadcastVars, state, sent, heard, up, down>>

\* send() copies a piece, and waits while there is no room; select() is not
\* called until it has copied all.
Send(c) ==
  /\ alive /\ state[c] = "in" /\ todo[c] > 0 /\ Len(up[c]) < UpRoom
  /\ up' = [up EXCEPT ![c] = Append(@, Piece(c, sent[c] + 1))]
  /\ sent' = [sent EXCEPT ![c] = @ + 1]
  /\ todo' = [todo EXCEPT ![c] = @ - 1]
  /\ UNCHANGED <<serverVars, broadcastVars, state, heard, down>>

\* Mutant: a client takes data only as long as it has something to send.
ReadyToRead(c) == todo[c] > 0

\* The client is in select().
AtSelect(c) == todo[c] = 0

Read(c) ==
  /\ state[c] = "in" /\ AtSelect(c) /\ down[c] # <<>>
  /\ \E n \in 1 .. Len(down[c]) :
       /\ heard' = [heard EXCEPT ![c] = @ \o SubSeq(down[c], 1, n)]
       /\ down' = [down EXCEPT ![c] = SubSeq(@, n + 1, Len(@))]
  /\ UNCHANGED <<serverVars, broadcastVars, state, todo, sent, up>>

\* The user stops the client, or it finds the server gone: read() returns 0,
\* or send() raises SIGPIPE.
Leave(c) ==
  /\ state[c] = "in"
  /\ state' = [state EXCEPT ![c] = "gone"]
  /\ todo' = [todo EXCEPT ![c] = 0]
  /\ down' = [down EXCEPT ![c] = <<>>]
  /\ heard' = [heard EXCEPT ![c] = <<>>]
  /\ UNCHANGED <<serverVars, broadcastVars, sent, up>>
-----------------------------------------------------------------------------
Server ==
  \/ EpollWait \/ Accept \/ Skip \/ BroadcastDone
  \/ \E c \in Clients : Take(c) \/ Drop(c) \/ Hand(c) \/ HandGone(c)

Client(c) == Send(c) \/ Read(c)

Next ==
  \/ Server
  \/ \E c \in Clients : Client(c) \/ Connect(c) \/ Type(c) \/ Leave(c)

\* The server goes on while it can, and so does a client with something to
\* read or to send.  Nobody has to connect, to type or to leave.
Fairness == WF_vars(Server) /\ \A c \in Clients : WF_vars(Client(c))

Spec == Init /\ [][Next]_vars /\ Fairness
-----------------------------------------------------------------------------
Pieces == Clients \X (Nat \ {0})

ServerType ==
  /\ alive \in BOOLEAN
  /\ clients \in Seq(Clients) /\ Cardinality(Members) = Len(clients)
  /\ batch \subseteq Members \cup {Listener}
  /\ backlog \in Seq({c \in Clients : state[c] # "out" /\ c \notin Members})
  /\ written \subseteq {c \in Clients : state[c] = "gone"}
  /\ since \in [Clients -> [Clients -> Nat]]

BroadcastType ==
  /\ buf \in Seq(Pieces) /\ sender \in Clients \cup {Listener}
  /\ turn \in Nat \ {0} /\ done \in Nat /\ (buf # <<>> => done < Len(buf))

ClientType ==
  /\ state \in [Clients -> {"out", "in", "gone"}]
  /\ todo \in [Clients -> 0 .. 1 + Parts]
  /\ sent \in [Clients -> Nat] /\ heard \in [Clients -> Seq(Pieces)]

StreamType ==
  /\ up \in [Clients -> Seq(Pieces)] /\ down \in [Clients -> Seq(Pieces)]
  /\ \A c \in Clients : Len(up[c]) =< UpRoom /\ Len(down[c]) =< DownRoom

\* Every variable keeps its type; events are for descriptors that are open,
\* and no client stands in clients[] twice or before it was accepted.
TypeOK == ServerType /\ BroadcastType /\ ClientType /\ StreamType

\* What the broadcast under way has still to copy for the i-th client.
Rest(i) ==
  IF buf = <<>> \/ i < turn \/ clients[i] = sender THEN <<>>
  ELSE SubSeq(buf, IF i = turn THEN done + 1 ELSE 1, Len(buf))

\* All that the i-th client has received or is about to.
Stream(i) == heard[clients[i]] \o down[clients[i]] \o Rest(i)

\* The pieces of s in a stream are the ones after the from-th up to the to-th,
\* each once and in order.
Carries(stream, s, from, to) ==
  /\ \A k \in DOMAIN stream :
       stream[k][1] = s => stream[k][2] \in from + 1 .. to
  /\ \A n \in from + 1 .. to : \E k \in DOMAIN stream : stream[k] = Piece(s, n)
  /\ \A k, l \in DOMAIN stream :
       k < l /\ stream[k][1] = s /\ stream[l][1] = s =>
         stream[k][2] < stream[l][2]

\* A client that was accepted and is still there hears every piece of every
\* other one that the server reads from then on, once and in order, and none
\* of its own, whoever else comes and goes (broadcast(), the swap at line 56).
NothingSkipped ==
  alive =>
    /\ \A c \in Clients :
         state[c] = "in" =>
           c \in Members \/ \E i \in DOMAIN backlog : backlog[i] = c
    /\ \A i \in DOMAIN clients, s \in Clients :
         state[clients[i]] = "in" =>
           IF s = clients[i]
           THEN \A k \in DOMAIN Stream(i) : Stream(i)[k][1] # s
           ELSE Carries(Stream(i), s, since[clients[i]][s], Taken(s))

\* The server waits in send() for a client that waits in send() for it.
Jammed ==
  /\ Sending
  /\ LET c == clients[turn]
     IN  /\ state[c] = "in" /\ c # sender /\ Len(down[c]) = DownRoom
         /\ todo[c] > 0 /\ Len(up[c]) = UpRoom

\* A broadcast comes to its end unless the server is killed by SIGPIPE or
\* waits for a client that waits for the server: nothing else can hold it up.
BroadcastEnds == buf # <<>> ~> buf = <<>> \/ ~alive \/ Jammed

\* A client that has left is taken out of clients[] in the end, unless the
\* server is killed, or held up as above, before it comes to the event.
LeaverDropped ==
  \A c \in Clients :
    state[c] = "gone" /\ c \in Members ~> c \notin Members \/ ~alive \/ Jammed
=============================================================================
