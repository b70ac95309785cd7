----------------------------- MODULE EchoServer -----------------------------
(***************************************************************************)
(* The table of clients of the raw UDP echo server                         *)
(* (module3/Cross-task/1/raw_echo_server.c): one entry per address, which  *)
(* numbers the messages from that address until it says CLOSE.             *)
(*                                                                         *)
(* An address is an IP with a source port; one action is one packet.  The  *)
(* packets themselves are in module Echo, which sends and receives them.   *)
(***************************************************************************)
EXTENDS Integers, FiniteSets

CONSTANTS
  Addresses,     \* the senders
  NoAddress,     \* what memset leaves in an entry never used
  MaxClients     \* MAX_CLIENTS

ASSUME ServerAssumption == MaxClients \in Nat /\ NoAddress \notin Addresses

VARIABLES
  clients,       \* struct client_entry clients[]
  running,       \* FALSE after SIGINT or SIGTERM
  listening      \* the socket is open

serverVars == <<clients, running, listening>>

Entries == 1 .. MaxClients

Entry == [active : BOOLEAN, addr : Addresses \cup {NoAddress}, counter : Nat]

ServerInit ==
  /\ clients = [i \in Entries |->
                 [active |-> FALSE, addr |-> NoAddress, counter |-> 0]]
  /\ running = TRUE
  /\ listening = TRUE

\* Mutant: the entry of a client that has left still counts as its own.
EntriesEver(a) == {i \in Entries : clients[i].addr = a}

EntriesOf(a) == {i \in Entries : clients[i].active /\ clients[i].addr = a}

Free == {i \in Entries : ~clients[i].active}

First(S) == CHOOSE i \in S : \A j \in S : i <= j

\* Mutant: a free entry before the client's own is taken.
HasPlaceGreedy(a, i) ==
  LET usable == EntriesOf(a) \cup Free IN usable # {} /\ i = First(usable)

\* idx: the client's entry, or else the first free one.
HasPlace(a, i) ==
  IF EntriesOf(a) # {} THEN i = First(EntriesOf(a))
  ELSE Free # {} /\ i = First(Free)

\* Mutant: a new client goes on from the number left in the entry.
NumberKept(a, i) == clients[i].counter + 1

\* The number of the message: 1 in an entry just taken.
Number(a, i) == IF i \in EntriesOf(a) THEN clients[i].counter + 1 ELSE 1

\* The end of a turn of the loop: a signal only shows after the next packet,
\* since recvfrom is restarted.
EndTurn == listening' = running /\ UNCHANGED running

\* A message other than CLOSE, from an address that has or gets an entry.
CountMessage(a, i) ==
  /\ listening
  /\ HasPlace(a, i)
  /\ clients' = [clients EXCEPT ![i] =
                  [active |-> TRUE, addr |-> a, counter |-> Number(a, i)]]
  /\ EndTurn

\* "Too many clients", or a packet for another port.
IgnorePacket ==
  /\ listening
  /\ EndTurn
  /\ UNCHANGED clients

Refuse(a) == (\A i \in Entries : ~HasPlace(a, i)) /\ IgnorePacket

CloseClient(a) ==
  /\ listening
  /\ clients' = IF EntriesOf(a) = {} THEN clients
                ELSE [clients EXCEPT ![First(EntriesOf(a))].active = FALSE]
  /\ EndTurn

\* SIGINT or SIGTERM
ServerSignal ==
  /\ listening
  /\ running' = FALSE
  /\ UNCHANGED <<clients, listening>>

ServerNext ==
  \/ \E a \in Addresses :
       \/ \E i \in Entries : CountMessage(a, i)
       \/ Refuse(a) \/ CloseClient(a)
  \/ IgnorePacket \/ ServerSignal

ServerSpec == ServerInit /\ [][ServerNext]_serverVars
-----------------------------------------------------------------------------
\* Every entry is well formed.
ServerTypeOK ==
  /\ clients \in [Entries -> Entry]
  /\ running \in BOOLEAN /\ listening \in BOOLEAN

(***************************************************************************)
(* An address never has two entries, so its messages are numbered in one   *)
(* place, and an entry in use has numbered a message.                      *)
(***************************************************************************)
OneEntryEach ==
  \A i, j \in Entries :
    clients[i].active /\ clients[j].active =>
      /\ clients[i].addr = clients[j].addr => i = j
      /\ clients[i].counter > 0

(***************************************************************************)
(* The table implements the numbers of EchoCounters.                       *)
(***************************************************************************)
NumberOf(a) ==
  IF EntriesOf(a) = {} THEN 0 ELSE clients[First(EntriesOf(a))].counter

Counters == INSTANCE EchoCounters WITH
  number <- [a \in Addresses |-> NumberOf(a)]

ImplementsCounters == Counters!Spec
=============================================================================
