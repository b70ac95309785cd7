-------------------------------- MODULE Echo --------------------------------
(***************************************************************************)
(* The raw UDP echo clients (module3/Cross-task/1/raw_echo_client.c), the  *)
(* network, and the server of module EchoServer.                           *)
(*                                                                         *)
(* All clients use source port 55555, so an address is a host.  A raw      *)
(* socket gets a copy of every UDP packet that reaches its host: on the    *)
(* server's host the clients also see the requests, their own included,    *)
(* and the server also sees its replies.  A packet may be lost, but packets *)
(* do not overtake each other.                                             *)
(***************************************************************************)
EXTENDS EchoServer, Sequences

CONSTANTS
  Clients,       \* client processes
  HostOf,        \* the host each runs on
  ServerHost,
  Server,        \* the server's socket
  MaxAttempts,   \* max_attempts
  MaxSent        \* bound: how many lines are typed at each client

ASSUME EchoAssumption ==
  /\ HostOf \in [Clients -> Addresses]
  /\ ServerHost \in Addresses
  /\ Server \notin Clients
  /\ MaxAttempts \in Nat /\ MaxSent \in [Clients -> Nat]

VARIABLES
  inbox,         \* the receive buffers of the sockets
  pc,            \* where each client is
  shouldClose,   \* should_close
  attempts,
  sent,          \* the messages each client has sent (also names them)
  printed,       \* the last reply each client has printed
  late,          \* history: a wait of the client has ended without a reply
  closed         \* history: its last packet, a CLOSE, has reached the server

clientVars == <<pc, shouldClose, attempts, sent, printed, late, closed>>
vars == <<serverVars, inbox, clientVars>>

Nothing == [kind |-> "reply", of |-> Server, id |-> 0, number |-> 0]

Request(c, kind, id) == [kind |-> kind, of |-> c, id |-> id, number |-> 0]

Open(c) == pc[c] \notin {"off", "done"}

ClientsAt(h) == {c \in Clients : Open(c) /\ HostOf[c] = h}

Init ==
  /\ ServerInit
  /\ inbox = [s \in Clients \cup {Server} |-> <<>>]
  /\ pc = [c \in Clients |-> "off"]
  /\ shouldClose = [c \in Clients |-> FALSE]
  /\ attempts = [c \in Clients |-> 0]
  /\ sent = [c \in Clients |-> 0]
  /\ printed = [c \in Clients |-> Nothing]
  /\ late = [c \in Clients |-> FALSE]
  /\ closed = [c \in Clients |-> FALSE]

\* A copy of packet p for each socket of got.
Put(box, p, got) ==
  [s \in DOMAIN box |-> IF s \in got THEN Append(box[s], p) ELSE box[s]]

\* The sockets on the way of a request: none once the server has closed its.
RequestSockets ==
  (IF listening THEN {Server} ELSE {}) \cup ClientsAt(ServerHost)

ReplySockets(h) ==
  ClientsAt(h) \cup (IF h = ServerHost /\ running THEN {Server} ELSE {})

\* A packet is lost or reaches all of them.
Lossy(sockets) == {{}, sockets}

Goto(c, to) == pc' = [pc EXCEPT ![c] = to]

\* Mutant: the outer loop does not look at should_close.
TopForever(c) == "prompt"

\* while (!should_close)
Top(c) == IF shouldClose[c] THEN "end" ELSE "prompt"
-----------------------------------------------------------------------------
(***************************************************************************)
(* The client.                                                             *)
(***************************************************************************)
Start(c) ==
  /\ pc[c] = "off"
  /\ Goto(c, "prompt")
  /\ UNCHANGED <<serverVars, inbox, shouldClose, attempts, sent, printed, late,
                 closed>>

\* send_close_message: nobody looks at whether it was sent.
SendClose(c) ==
  \E got \in Lossy(RequestSockets) :
    /\ inbox' = Put(inbox, Request(c, "CLOSE", sent[c]), got)
    /\ closed' = [closed EXCEPT ![c] = @ \/ Server \in got]

\* Mutant: no break after the CLOSE at line 84, so that the line is sent.
TypeAndGoOn(c) ==
  /\ pc[c] = "prompt" /\ sent[c] < MaxSent[c]
  /\ Goto(c, "send")
  /\ IF shouldClose[c] THEN SendClose(c) ELSE UNCHANGED <<inbox, closed>>
  /\ UNCHANGED <<serverVars, shouldClose, attempts, sent, printed, late>>

\* A line is read.  fgets is restarted after a signal, so a request to stop
\* shows only now: send_close_message and break.
TypeLine(c) ==
  /\ pc[c] = "prompt" /\ sent[c] < MaxSent[c]
  /\ IF shouldClose[c]
       THEN SendClose(c) /\ Goto(c, "end")
       ELSE UNCHANGED <<inbox, closed>> /\ Goto(c, "send")
  /\ UNCHANGED <<serverVars, shouldClose, attempts, sent, printed, late>>

\* An empty line (continue), or the end of the input (break).
EmptyLineOrEof(c) ==
  /\ pc[c] = "prompt"
  /\ \/ shouldClose[c] /\ Goto(c, "end")
     \/ Goto(c, "end")
  /\ UNCHANGED <<serverVars, inbox, shouldClose, attempts, sent, printed, late,
                 closed>>

\* The message, or a line that happens to be "CLOSE", goes to the server.
Send(c) ==
  /\ pc[c] = "send"
  /\ sent' = [sent EXCEPT ![c] = @ + 1]
  /\ \E kind \in {"data", "CLOSE"}, got \in Lossy(RequestSockets) :
       inbox' = Put(inbox, Request(c, kind, sent[c] + 1), got)
  /\ attempts' = [attempts EXCEPT ![c] = 0]
  /\ Goto(c, "wait")
  /\ UNCHANGED <<serverVars, shouldClose, printed, late, closed>>

\* sendto fails: the line is dropped.
SendFails(c) ==
  /\ pc[c] = "send"
  /\ Goto(c, Top(c))
  /\ UNCHANGED <<serverVars, inbox, shouldClose, attempts, sent, printed, late,
                 closed>>

\* Mutant: the inner loop does not count its attempts.
WaitForEver(c) ==
  /\ pc[c] = "wait"
  /\ ~shouldClose[c]
  /\ Goto(c, "select")
  /\ UNCHANGED <<serverVars, inbox, shouldClose, attempts, sent, printed, late,
                 closed>>

\* The condition of the inner loop.
Wait(c) ==
  /\ pc[c] = "wait"
  /\ attempts[c] < MaxAttempts /\ ~shouldClose[c]
  /\ Goto(c, "select")
  /\ UNCHANGED <<serverVars, inbox, shouldClose, attempts, sent, printed, late,
                 closed>>

NoAnswer(c) ==
  /\ late' = [late EXCEPT ![c] = TRUE]
  /\ Goto(c, Top(c))
  /\ UNCHANGED <<serverVars, inbox, shouldClose, attempts, sent, printed,
                 closed>>

GiveUp(c) ==
  /\ pc[c] = "wait"
  /\ attempts[c] >= MaxAttempts \/ shouldClose[c]
  /\ NoAnswer(c)

\* select returns 0 after two seconds: "No response from server."
TimeOut(c) ==
  /\ pc[c] = "select" /\ inbox[c] = <<>>
  /\ NoAnswer(c)

ReceiveReply(c) ==
  /\ pc[c] = "select" /\ inbox[c] # <<>> /\ Head(inbox[c]).kind = "reply"
  /\ printed' = [printed EXCEPT ![c] = Head(inbox[c])]
  /\ inbox' = [inbox EXCEPT ![c] = Tail(@)]
  /\ Goto(c, Top(c))
  /\ UNCHANGED <<serverVars, shouldClose, attempts, sent, late, closed>>

\* Mutant: the client's own packet is printed as if the server had sent it.
ReceiveOwnAsReply(c) ==
  /\ pc[c] = "select" /\ inbox[c] # <<>> /\ Head(inbox[c]).kind # "reply"
  /\ printed' = [printed EXCEPT ![c] = Head(inbox[c])]
  /\ inbox' = [inbox EXCEPT ![c] = Tail(@)]
  /\ Goto(c, Top(c))
  /\ UNCHANGED <<serverVars, shouldClose, attempts, sent, late, closed>>

\* A request, its own or of another client, is passed over.
ReceiveRequest(c) ==
  /\ pc[c] = "select" /\ inbox[c] # <<>> /\ Head(inbox[c]).kind # "reply"
  /\ attempts' = [attempts EXCEPT ![c] = @ + 1]
  /\ inbox' = [inbox EXCEPT ![c] = Tail(@)]
  /\ Goto(c, "wait")
  /\ UNCHANGED <<serverVars, shouldClose, sent, printed, late, closed>>

\* SIGINT or SIGTERM: only select with nothing to read fails with EINTR.
Signal(c) ==
  /\ Open(c)
  /\ shouldClose' = [shouldClose EXCEPT ![c] = TRUE]
  /\ IF pc[c] = "select" /\ inbox[c] = <<>> THEN Goto(c, "close")
     ELSE UNCHANGED pc
  /\ UNCHANGED <<serverVars, inbox, attempts, sent, printed, late, closed>>

\* EINTR: send_close_message, and out of both loops.
Interrupted(c) ==
  /\ pc[c] = "close"
  /\ SendClose(c)
  /\ Goto(c, "end")
  /\ UNCHANGED <<serverVars, shouldClose, attempts, sent, printed, late>>

\* After the loop: CLOSE again if a signal came, and the socket is closed.
End(c) ==
  /\ pc[c] = "end"
  /\ Goto(c, "done")
  /\ \E got \in IF shouldClose[c] THEN Lossy(RequestSockets) ELSE {{}} :
       /\ inbox' = [Put(inbox, Request(c, "CLOSE", sent[c]), got)
                    EXCEPT ![c] = <<>>]
       /\ closed' = [closed EXCEPT ![c] = @ \/ Server \in got]
  /\ UNCHANGED <<serverVars, shouldClose, attempts, sent, printed, late>>

Client(c) ==
  \/ Start(c) \/ TypeLine(c) \/ EmptyLineOrEof(c) \/ Send(c) \/ SendFails(c)
  \/ Wait(c) \/ GiveUp(c) \/ TimeOut(c) \/ ReceiveReply(c) \/ ReceiveRequest(c)
  \/ Signal(c) \/ Interrupted(c) \/ End(c)
-----------------------------------------------------------------------------
(***************************************************************************)
(* The server: one packet from its socket.                                 *)
(***************************************************************************)
Incoming(kind) ==
  /\ inbox[Server] # <<>>
  /\ Head(inbox[Server]).kind = kind

Taken == [inbox EXCEPT ![Server] = Tail(@)]

\* The message comes back with its number.
Answer ==
  /\ Incoming("data")
  /\ LET p == Head(inbox[Server])
         h == HostOf[p.of]
     IN  \E i \in Entries :
           /\ CountMessage(h, i)
           /\ \E got \in Lossy(ReplySockets(h)) :
                inbox' = Put(Taken, [p EXCEPT !.kind = "reply",
                                              !.number = Number(h, i)], got)
  /\ UNCHANGED clientVars

TooMany ==
  /\ Incoming("data")
  /\ Refuse(HostOf[Head(inbox[Server]).of])
  /\ inbox' = Taken
  /\ UNCHANGED clientVars

TakeClose ==
  /\ Incoming("CLOSE")
  /\ CloseClient(HostOf[Head(inbox[Server]).of])
  /\ inbox' = Taken
  /\ UNCHANGED clientVars

\* The server's own reply, on its way to port 55555.
OtherPort ==
  /\ Incoming("reply")
  /\ IgnorePacket
  /\ inbox' = Taken
  /\ UNCHANGED clientVars

StopServer == ServerSignal /\ UNCHANGED <<inbox, clientVars>>

Next ==
  \/ \E c \in Clients : Client(c)
  \/ Answer \/ TooMany \/ TakeClose \/ OtherPort \/ StopServer

(***************************************************************************)
(* A client that can go on without its user does.  Nobody need type,       *)
(* interrupt a client or stop the server.                                  *)
(***************************************************************************)
Fairness ==
  \A c \in Clients :
    WF_vars(\/ Send(c) \/ SendFails(c) \/ Wait(c) \/ GiveUp(c) \/ TimeOut(c)
            \/ ReceiveReply(c) \/ ReceiveRequest(c) \/ Interrupted(c) \/ End(c))

Spec == Init /\ [][Next]_vars /\ Fairness
-----------------------------------------------------------------------------
Packet == [kind : {"data", "CLOSE", "reply"}, of : Clients \cup {Server},
           id : Nat, number : Nat]

TypeOK ==
  /\ ServerTypeOK
  /\ inbox \in [Clients \cup {Server} -> Seq(Packet)]
  /\ pc \in [Clients -> {"off", "prompt", "send", "wait", "select", "close",
                         "end", "done"}]
  /\ shouldClose \in [Clients -> BOOLEAN]
  /\ attempts \in [Clients -> 0 .. MaxAttempts]
  /\ \A c \in Clients : sent[c] \in 0 .. MaxSent[c]
  /\ printed \in [Clients -> Packet]
  /\ late \in [Clients -> BOOLEAN]
  /\ closed \in [Clients -> BOOLEAN]

\* No other client runs on the host of c: they would share port and number.
Alone(c) == \A d \in Clients : HostOf[d] = HostOf[c] => d = c

(***************************************************************************)
(* As long as every wait of a client has ended with a reply, what it       *)
(* prints is the answer to the line just typed, numbered by how many it    *)
(* has sent - although its socket also gets every other packet.            *)
(***************************************************************************)
InStep ==
  [][\A c \in Clients :
       printed'[c] # printed[c] /\ Alone(c) /\ ~late[c] =>
         /\ printed'[c].of = c
         /\ printed'[c].id = sent[c]
         /\ printed'[c].number = sent[c]]_vars

(***************************************************************************)
(* After that the client may print answers to earlier lines, but it never  *)
(* prints one twice, and none after the answer to a later line.            *)
(***************************************************************************)
AnswersInOrder ==
  [][\A c \in Clients :
       printed'[c] # printed[c] /\ Alone(c) =>
         printed[c].id < printed'[c].id /\ printed'[c].id <= sent[c]]_vars

(***************************************************************************)
(* A client that was told to stop, and one of whose CLOSEs got through,    *)
(* leaves no entry behind once the server has read its packets: no message *)
(* of it comes after them and registers it anew.                           *)
(***************************************************************************)
ClosedIsForgotten ==
  \A c \in Clients :
    /\ Alone(c) /\ pc[c] = "done" /\ closed[c] /\ listening
    /\ \A i \in 1 .. Len(inbox[Server]) : inbox[Server][i].of # c
    => EntriesOf(HostOf[c]) = {}

(***************************************************************************)
(* A client told to stop while it sends or waits for a reply ends by       *)
(* itself: it never asks for another line.                                 *)
(***************************************************************************)
StopsWhenBusy ==
  \A c \in Clients :
    Open(c) /\ shouldClose[c] /\ pc[c] # "prompt" ~> pc[c] = "done"
=============================================================================
