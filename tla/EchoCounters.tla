---------------------------- MODULE EchoCounters ----------------------------
(***************************************************************************)
(* What the table of the raw echo server promises: a number per address,   *)
(* 0 for an address that is not registered, and at most MaxClients         *)
(* addresses registered at a time.                                         *)
(***************************************************************************)
EXTENDS Naturals, FiniteSets

CONSTANTS Addresses, MaxClients

VARIABLE number

Registered == {a \in Addresses : number[a] > 0}

Init == number = [a \in Addresses |-> 0]

\* A message of a is numbered: the first one registers the address.
Count(a) ==
  /\ a \in Registered \/ Cardinality(Registered) < MaxClients
  /\ number' = [number EXCEPT ![a] = @ + 1]

\* "CLOSE" from a: its next message is number 1 again.
Close(a) == number' = [number EXCEPT ![a] = 0]

Next == \E a \in Addresses : Count(a) \/ Close(a)

Spec == Init /\ [][Next]_number
=============================================================================
