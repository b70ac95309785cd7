------------------------------ MODULE PhoneBook ------------------------------
(***************************************************************************)
(* The phone book in an array (module2/2/2.1): a place is taken by a       *)
(* contact or free, and what a contact that was deleted had in it stays.   *)
(* Of a contact the model keeps the surname, which can be edited, the name *)
(* it is found by, and the telephones; the other fields only pass through. *)
(***************************************************************************)
EXTENDS Integers, Sequences, FiniteSets

CONSTANTS
  MaxContacts,     \* MAX_CONTACTS
  MaxPhones,       \* MAX_PHONES
  Names, Phones    \* what users type; a surname is one of Names, too

ASSUME BookAssumption == MaxContacts \in Nat \ {0} /\ MaxPhones \in Nat

VARIABLES
  phonebook, total_contacts,
  typed            \* history: for each place what was typed for its contact

bookVars == <<phonebook, total_contacts, typed>>

Places == 0 .. MaxContacts - 1
Least(S) == {i \in S : \A j \in S : i <= j}

Blank == 0                    \* an empty line

BookInit ==
  /\ phonebook = [i \in Places |->
                   [is_active |-> FALSE, surname |-> Blank, name |-> Blank,
                    phones |-> [k \in 1 .. MaxPhones |-> Blank], phone_count |-> 0]]
  /\ total_contacts = 0 /\ typed = <<>>

Active == {i \in Places : phonebook[i].is_active}

\* Mutant: the places are counted, not searched.
NextPlace == {total_contacts} \cap Places

FreePlace == Least(Places \ Active)

Found(s, n) ==
  Least({i \in Active : phonebook[i].surname = s /\ phonebook[i].name = n})

\* The number asked for is cut at MaxPhones; below zero it stands for none.
add_contact(s, n, numbers) ==
  /\ total_contacts < MaxContacts
  /\ \E i \in FreePlace :
       /\ phonebook' = [phonebook EXCEPT ![i] =
            [is_active |-> TRUE, surname |-> s, name |-> n,
             phones |-> [k \in 1 .. MaxPhones |->
                           IF k <= Len(numbers) THEN numbers[k] ELSE @.phones[k]],
             phone_count |-> Len(numbers)]]
       /\ typed' = [j \in DOMAIN typed \cup {i} |->
                      IF j = i THEN <<s, n, numbers>> ELSE typed[j]]
  /\ total_contacts' = total_contacts + 1

\* Only the surname can be given anew; an empty line leaves it.
edit_contact(s, n, new) ==
  \E i \in Found(s, n) :
    /\ phonebook' = [phonebook EXCEPT ![i].surname = new]
    /\ typed' = [typed EXCEPT ![i][1] = new]
    /\ UNCHANGED total_contacts

delete_contact(s, n) ==
  \E i \in Found(s, n) :
    /\ phonebook' = [phonebook EXCEPT ![i].is_active = FALSE]
    /\ total_contacts' = total_contacts - 1
    /\ typed' = [j \in DOMAIN typed \ {i} |-> typed[j]]

BookNext ==
  \E s, n \in Names :
    \/ \E k \in 0 .. MaxPhones : \E numbers \in [1 .. k -> Phones] :
         add_contact(s, n, numbers)
    \/ \E new \in Names \ {Blank} : edit_contact(s, n, new)
    \/ delete_contact(s, n)

BookSpec == BookInit /\ [][BookNext]_bookVars
-----------------------------------------------------------------------------
\* What list_contacts shows of a place.
Shown(i) ==
  <<phonebook[i].surname, phonebook[i].name,
    [k \in 1 .. phonebook[i].phone_count |-> phonebook[i].phones[k]]>>

(***************************************************************************)
(* After any sequence of calls the book shows for each contact what was    *)
(* typed last, also in a place that another contact had before it, with no *)
(* contact lost and nothing of the old one left; and the count is that of  *)
(* the contacts, so that the book is full only when every place is taken.  *)
(***************************************************************************)
BookKept ==
  /\ Active = DOMAIN typed /\ total_contacts = Cardinality(Active)
  /\ \A i \in Active : Shown(i) = typed[i]
  /\ total_contacts < MaxContacts => FreePlace # {}
=============================================================================
