--------------------------- MODULE ProgramsProofs ---------------------------
(***************************************************************************)
(* Proofs about the smaller concurrent programs, each about its own        *)
(* specification: the message of the kernel modules, for any buffer, any   *)
(* numbers of readers and writes; the chat over two message queues, for    *)
(* any number of sessions; the copy of files to a child process, for any   *)
(* files, buffer and pipe.                                                 *)
(***************************************************************************)
EXTENDS KernelMessage, QueueChat, FileCopy, BasicFacts

(***************************************************************************)
(* The message of the kernel modules.                                      *)
(***************************************************************************)
Places == 0 .. BufLen - 1

MessageChar == [by : Nat \cup {NoWrite}, nl : BOOLEAN]

WriteCall ==
  [at : {"none", "memset", "copy", "ending", "count", "store", "done", "failed"},
   len : 0 .. BufLen, nl : BOOLEAN, next : 0 .. BufLen, loaded : Nat, before : SUBSET Nat,
   wiped : BOOLEAN]

ReadCall ==
  [at : {"none", "copy", "returned"}, offset : Nat, want : Nat, len : Nat,
   got : Seq(Nat \cup {NoWrite}), seen : Int, banned : SUBSET Nat]

MessageType ==
  /\ driver \in {"char", "proc"}
  /\ message \in [Places -> MessageChar]
  /\ msg_size \in Nat
  /\ wr \in [Writes -> WriteCall] /\ rd \in [Readers -> ReadCall]
  /\ last \in 0 .. MaxWrites /\ overlapped \subseteq Writes

\* The calls of write: numbered as they begin, and what was over before one of
\* them began stays so.
WritesKept ==
  \A w \in Writes :
    /\ wr[w].next <= wr[w].len
    /\ w > last <=> wr[w].at = "none"
    /\ wr[w].at = "none" => ~ wr[w].wiped
    /\ wr[w].at = "memset" => wr[w].next = 0
    /\ wr[w].at \in {"count", "store"} => wr[w].len < BufLen - 1
    /\ wr[w].before \subseteq Finished

\* Nothing in the message is of a write that a cleared message has left behind.
NothingBanned == \A i \in Places : message[i].by \notin Banned

\* Where the characters of a read come from.
From(r) ==
  IF rd[r].at = "copy" THEN rd[r].offset ELSE rd[r].offset - rd[r].len

\* Since a read that saw the last write began, nothing was written: what it has
\* got is what is in the message.
ReadKept(r) ==
  /\ rd[r].seen <= last /\ rd[r].banned \subseteq Banned
  /\ \A i \in 1 .. Len(rd[r].got) : rd[r].got[i] \notin rd[r].banned
  /\ rd[r].at = "copy" => Len(rd[r].got) <= rd[r].len
  /\ rd[r].at = "returned" =>
       rd[r].len <= rd[r].offset /\ Len(rd[r].got) = rd[r].len
  /\ rd[r].at # "none" /\ rd[r].seen = last =>
       /\ Under = {}
       /\ rd[r].len = IF From(r) >= msg_size THEN 0
                      ELSE Fewer(rd[r].want, msg_size - From(r))
       /\ \A i \in 1 .. Len(rd[r].got) :
            rd[r].got[i] = TextAt(From(r) + i - 1)

\* How far the text of a write that has the buffer for itself has come.
Written(w) ==
  /\ wr[w].at \in {"copy", "ending"} =>
       \A i \in Places :
         i < (IF wr[w].at = "copy" THEN wr[w].next ELSE wr[w].len) =>
           /\ message[i].by = w
           /\ message[i].nl = (wr[w].nl /\ i = wr[w].len - 1)
  /\ wr[w].at \in {"ending", "count", "store"} => msg_size = wr[w].len
  /\ wr[w].at = "store" => wr[w].loaded = wr[w].len
  /\ wr[w].at \in {"count", "store"} =>
       /\ driver = "char" /\ (wr[w].len = 0 \/ ~ wr[w].nl)
       /\ \A i \in Places : i <= wr[w].len => message[i].by = w
  /\ wr[w].at = "done" =>
       /\ msg_size \in SizesAfter(w)
       /\ \A i \in Places : i < msg_size => message[i].by = TextAfter(w, i)

TextKept ==
  last \notin overlapped =>
    /\ Under \subseteq {last}
    /\ last # 0 => Written(last)
    /\ last = 0 => /\ msg_size = HelloLen
                   /\ \A i \in Places : i < HelloLen => message[i].by = 0

IMessage ==
  /\ MessageType /\ WritesKept /\ NothingBanned /\ TextKept
  /\ \A r \in Readers : ReadKept(r)

LEMMA InitMessage == MessageInit => IMessage
<1> SUFFICES ASSUME MessageInit PROVE IMessage
  OBVIOUS
<1>1. /\ BufLen \in Nat \ {0, 1} /\ HelloLen \in 0 .. BufLen /\ MaxWrites \in Nat
  BY MessageAssumption DEF MessageAssumption
<1>2. <<>> \in Seq(Nat \cup {NoWrite}) /\ Len(<<>>) = 0
  OBVIOUS
<1>3. MessageType
  <2>1. message \in [Places -> MessageChar]
    BY DEF MessageInit, Places, MessageChar, Char, Zero, NoWrite
  <2>2. wr \in [Writes -> WriteCall]
    BY <1>1 DEF MessageInit, WriteCall
  <2>3. rd \in [Readers -> ReadCall]
    BY <1>2 DEF MessageInit, ReadCall, Idle, NoWrite
  <2>. QED
    BY <1>1, <2>1, <2>2, <2>3 DEF MessageInit, MessageType
<1>4. WritesKept
  BY <1>1 DEF MessageInit, WritesKept, Writes
<1>5. Banned = {} /\ Under = {}
  BY DEF MessageInit, Banned, Under
<1>6. NothingBanned
  BY <1>5 DEF NothingBanned
<1>7. TextKept
  BY <1>5 DEF MessageInit, TextKept, Places, Char
<1>8. \A r \in Readers : ReadKept(r)
  BY <1>2, <1>5 DEF MessageInit, ReadKept, Idle, NoWrite
<1>. QED
  BY <1>3, <1>4, <1>6, <1>7, <1>8 DEF IMessage

-----------------------------------------------------------------------------
(***************************************************************************)
(* A step of a write that has begun: the call becomes c.                   *)
(***************************************************************************)
Puts(w, c) == wr' = [wr EXCEPT ![w] = c]

Becomes(w, c) ==
  /\ Puts(w, c)
  /\ c \in WriteCall /\ c.next <= c.len /\ c.at \notin {"none", "memset"}
  /\ c.at \in {"count", "store"} => c.len < BufLen - 1
  /\ c.len = wr[w].len /\ c.nl = wr[w].nl /\ c.before = wr[w].before

WriteGoes(w) ==
  \/ Memset(w) \/ CopyIn(w) \/ SetSize(w)
  \/ EndLine(w) \/ LoadSize(w) \/ CountLine(w) \/ EndString(w)

LEMMA WriteParts ==
  ASSUME IMessage, NEW w \in Writes
  PROVE  /\ wr \in [Writes -> WriteCall] /\ wr[w] \in WriteCall
         /\ wr[w].len \in 0 .. BufLen /\ wr[w].next \in 0 .. BufLen
         /\ wr[w].next <= wr[w].len /\ wr[w].nl \in BOOLEAN
         /\ wr[w].at \in {"count", "store"} => wr[w].len < BufLen - 1
         /\ message \in [Places -> MessageChar] /\ msg_size \in Nat
         /\ BufLen \in Nat \ {0, 1} /\ last \in 0 .. MaxWrites /\ MaxWrites \in Nat
         /\ w \in Nat /\ w # 0
<1>1. wr[w] \in WriteCall
  BY DEF IMessage, MessageType
<1>2. /\ wr[w].len \in 0 .. BufLen /\ wr[w].next \in 0 .. BufLen
      /\ wr[w].nl \in BOOLEAN
  BY <1>1 DEF WriteCall
<1>. QED
  BY <1>1, <1>2, MessageAssumption DEF IMessage, MessageType, WritesKept, Writes

States == {"copy", "ending", "count", "store", "done", "failed"}

Same(c, old) == c.len = old.len /\ c.nl = old.nl /\ c.before = old.before

\* What an assignment to a field or two makes of a call.
At(c, a) == [c EXCEPT !.at = a]
NextIs(c, n) == [c EXCEPT !.next = n]
AtNext(c, a, n) == [c EXCEPT !.at = a, !.next = n]
Loads(c, n) == [c EXCEPT !.at = "store", !.loaded = n]
Wiped(c, a) == [c EXCEPT !.at = a, !.wiped = TRUE]

LEMMA CallAt ==
  ASSUME NEW c \in WriteCall, NEW a \in States
  PROVE  /\ At(c, a) \in WriteCall /\ Same(At(c, a), c)
         /\ At(c, a).at = a /\ At(c, a).next = c.next
BY DEF WriteCall, States, Same, At

LEMMA CallNext ==
  ASSUME NEW c \in WriteCall, NEW n \in 0 .. BufLen
  PROVE  /\ NextIs(c, n) \in WriteCall /\ Same(NextIs(c, n), c)
         /\ NextIs(c, n).at = c.at /\ NextIs(c, n).next = n
BY DEF WriteCall, States, Same, NextIs

LEMMA CallBoth ==
  ASSUME NEW c \in WriteCall, NEW a \in States, NEW n \in 0 .. BufLen
  PROVE  /\ AtNext(c, a, n) \in WriteCall /\ Same(AtNext(c, a, n), c)
         /\ AtNext(c, a, n).at = a /\ AtNext(c, a, n).next = n
BY DEF WriteCall, States, Same, AtNext

LEMMA CallLoads ==
  ASSUME NEW c \in WriteCall, NEW n \in Nat
  PROVE  /\ Loads(c, n) \in WriteCall /\ Same(Loads(c, n), c)
         /\ Loads(c, n).at = "store" /\ Loads(c, n).next = c.next
         /\ Loads(c, n).loaded = n
BY DEF WriteCall, Same, Loads

LEMMA CallWiped ==
  ASSUME NEW c \in WriteCall, NEW a \in States
  PROVE  /\ Wiped(c, a) \in WriteCall /\ Same(Wiped(c, a), c)
         /\ Wiped(c, a).at = a /\ Wiped(c, a).next = c.next
BY DEF WriteCall, States, Same, Wiped

LEMMA WriteBecomes ==
  ASSUME IMessage, NEW w \in Writes, WriteGoes(w)
  PROVE  /\ \E c \in WriteCall : Becomes(w, c)
         /\ w \in Under
         /\ UNCHANGED <<driver, rd, last, overlapped>>
         /\ message' \in [Places -> MessageChar] /\ msg_size' \in Nat
<1>0. /\ wr \in [Writes -> WriteCall] /\ wr[w] \in WriteCall
      /\ wr[w].len \in 0 .. BufLen /\ wr[w].next \in 0 .. BufLen
      /\ wr[w].next <= wr[w].len
      /\ wr[w].at \in {"count", "store"} => wr[w].len < BufLen - 1
      /\ message \in [Places -> MessageChar] /\ msg_size \in Nat
      /\ BufLen \in Nat
  BY WriteParts
<1>1. PICK old \in WriteCall : old = wr[w]
  BY <1>0
<1>2. /\ old.next \in 0 .. old.len /\ old.len \in 0 .. BufLen
      /\ 0 \in 0 .. BufLen /\ 0 \in 0 .. old.len
  BY <1>0, <1>1
<1>3. /\ Zero \in MessageChar /\ Char(w, TRUE) \in MessageChar
      /\ Char(w, wr[w].nl /\ wr[w].next = wr[w].len - 1) \in MessageChar
  BY WriteParts DEF Zero, Char, MessageChar
<1>12. /\ "copy" \in States /\ "ending" \in States /\ "failed" \in States
      /\ "done" \in States /\ "count" \in States /\ "store" \in States
  BY DEF States
<1>4. ASSUME NEW c \in WriteCall, Puts(w, c), Same(c, old),
             c.at \in States, c.next <= old.len,
             c.at \in {"count", "store"} => old.len < BufLen - 1
      PROVE  \E d \in WriteCall : Becomes(w, d)
  <2>1. Becomes(w, c)
    BY <1>0, <1>1, <1>2, <1>4 DEF Becomes, Same, States
  <2>. QED
    BY <2>1
<1>5. CASE Memset(w)
  <2>1. PICK c \in WriteCall :
          /\ c = Wiped(old, "copy")
          /\ Same(c, old) /\ c.at = "copy" /\ c.next = old.next
    BY <1>2, <1>12, CallWiped
  <2>2. Puts(w, c)
    BY <1>0, <1>1, <1>5, <2>1 DEF Puts, Memset, Wiped
  <2>3. \E d \in WriteCall : Becomes(w, d)
    BY <1>0, <1>2, <1>4, <1>12, <2>1, <2>2
  <2>4. message' \in [Places -> MessageChar]
    BY <1>0, <1>3, <1>5 DEF Memset
  <2>. QED
    BY <1>0, <1>5, <2>3, <2>4 DEF Memset, Under
<1>6. CASE CopyIn(w)
  <2>1. ASSUME wr' = [wr EXCEPT ![w].next = @ + 1]
        PROVE  \E d \in WriteCall : Becomes(w, d)
    <3>1. PICK n \in 0 .. old.len : n = old.next + 1 /\ n \in 0 .. BufLen
      BY <1>0, <1>1, <1>2, <1>6 DEF CopyIn
    <3>2. PICK c \in WriteCall :
            /\ c = NextIs(old, n)
            /\ Same(c, old) /\ c.at = old.at /\ c.next = n
      BY <3>1, CallNext
    <3>3. Puts(w, c) /\ c.at = "copy"
      BY <1>0, <1>1, <1>6, <2>1, <3>1, <3>2 DEF Puts, CopyIn, NextIs
    <3>. QED
      BY <1>0, <1>2, <1>4, <1>12, <3>1, <3>2, <3>3
  <2>2. ASSUME wr' = [wr EXCEPT ![w].at = "failed", ![w].next = 0]
        PROVE  \E d \in WriteCall : Becomes(w, d)
    <3>1. PICK c \in WriteCall :
            /\ c = AtNext(old, "failed", 0)
            /\ Same(c, old) /\ c.at = "failed" /\ c.next = 0
      BY <1>2, <1>12, CallBoth
    <3>2. Puts(w, c)
      BY <1>0, <1>1, <2>2, <3>1 DEF Puts, AtNext
    <3>. QED
      BY <1>0, <1>2, <1>4, <1>12, <3>1, <3>2
  <2>3. message' \in [Places -> MessageChar]
    BY <1>0, <1>3, <1>6 DEF CopyIn
  <2>4. \E c \in WriteCall : Becomes(w, c)
    BY <1>6, <2>1, <2>2 DEF CopyIn
  <2>. QED
    BY <1>0, <1>6, <2>3, <2>4 DEF CopyIn, Under
<1>7. CASE SetSize(w)
  <2>1. PICK c \in WriteCall :
          /\ c = AtNext(old, "ending", 0)
          /\ Same(c, old) /\ c.at = "ending" /\ c.next = 0
    BY <1>2, <1>12, CallBoth
  <2>2. Puts(w, c)
    BY <1>0, <1>1, <1>7, <2>1 DEF Puts, SetSize, AtNext
  <2>3. \E d \in WriteCall : Becomes(w, d)
    BY <1>0, <1>2, <1>4, <1>12, <2>1, <2>2
  <2>. QED
    BY <1>0, <1>7, <2>3 DEF SetSize, Under
<1>8. ASSUME NEW a \in {"done", "count"}, Go(w, a), a = "count" => wr[w].len < BufLen - 1
      PROVE  \E d \in WriteCall : Becomes(w, d)
  <2>1. PICK c \in WriteCall :
          /\ c = At(old, a)
          /\ Same(c, old) /\ c.at = a /\ c.next = old.next
    BY <1>2, <1>12, CallAt
  <2>2. Puts(w, c)
    BY <1>0, <1>1, <1>8, <2>1 DEF Puts, Go, At
  <2>3. c.at \in {"count", "store"} => old.len < BufLen - 1
    BY <1>1, <1>8, <2>1
  <2>. QED
    BY <1>0, <1>2, <1>4, <1>12, <2>1, <2>2, <2>3
<1>9. CASE EndLine(w)
  <2>1. CASE Go(w, "done") /\ UNCHANGED message
    BY <1>0, <1>8, <1>9, <2>1 DEF EndLine, Under
  <2>2. CASE /\ ~ (wr[w].len >= BufLen - 1) /\ Go(w, "count")
             /\ message' = [message EXCEPT ![wr[w].len] = Char(w, TRUE)]
    <3>1. \E c \in WriteCall : Becomes(w, c)
      BY <1>0, <1>8, <2>2
    <3>2. message' \in [Places -> MessageChar]
      BY <1>0, <1>3, <2>2
    <3>. QED
      BY <1>0, <1>9, <3>1, <3>2 DEF EndLine, Under
  <2>. QED
    BY <1>0, <1>9, <2>1, <2>2 DEF EndLine
<1>13. CASE LoadSize(w)
  <2>1. PICK n \in {wr[w].len, msg_size} :
          wr' = [wr EXCEPT ![w].at = "store", ![w].loaded = n]
    BY <1>13 DEF LoadSize
  <2>2. n \in Nat
    BY <1>0
  <2>3. PICK c \in WriteCall :
          /\ c = Loads(old, n)
          /\ Same(c, old) /\ c.at = "store" /\ c.next = old.next
    BY <2>2, CallLoads
  <2>4. Puts(w, c)
    BY <1>0, <1>1, <2>1, <2>3 DEF Puts, Loads
  <2>5. old.len < BufLen - 1
    BY <1>0, <1>1, <1>13 DEF LoadSize
  <2>6. \E d \in WriteCall : Becomes(w, d)
    BY <1>0, <1>2, <1>4, <1>12, <2>3, <2>4, <2>5
  <2>. QED
    BY <1>0, <1>13, <2>6 DEF LoadSize, Under
<1>10. CASE CountLine(w)
  <2>1. \E c \in WriteCall : Becomes(w, c)
    BY <1>8, <1>10 DEF CountLine
  <2>2. msg_size' \in Nat
    BY <1>0, <1>1, <1>10 DEF CountLine, WriteCall
  <2>. QED
    BY <1>0, <1>10, <2>1, <2>2 DEF CountLine, Under
<1>11. CASE EndString(w)
  <2>1. \E c \in WriteCall : Becomes(w, c)
    BY <1>8, <1>11 DEF EndString
  <2>2. message' \in [Places -> MessageChar]
    BY <1>0, <1>3, <1>11 DEF EndString, Fewer
  <2>. QED
    BY <1>0, <1>11, <2>1, <2>2 DEF EndString, Under
<1>. QED
  BY <1>5, <1>6, <1>7, <1>9, <1>10, <1>11, <1>13 DEF WriteGoes

(***************************************************************************)
(* What is over stays so, and what may not come back stays forbidden.      *)
(***************************************************************************)
LEMMA WriteOrder ==
  ASSUME IMessage, NEW w \in Writes, WriteGoes(w)
  PROVE  WritesKept' /\ Finished \subseteq Finished' /\ Under' \subseteq Under
<1>1. PICK c \in WriteCall : Becomes(w, c)
  BY WriteBecomes
<1>2. w \in Under /\ last' = last
  BY WriteBecomes
<1>3. \A v \in Writes : wr'[v] = IF v = w THEN c ELSE wr[v]
  BY <1>1, WriteParts DEF Becomes, Puts
<1>4. \A v \in Writes : wr[v] \in WriteCall
  BY WriteParts
<1>5. Finished \subseteq Finished'
  BY <1>2, <1>3 DEF Finished, Under
<1>6. Under' \subseteq Under
  BY <1>2, <1>3 DEF Under
<1>7. WritesKept'
  BY <1>1, <1>2, <1>3, <1>5 DEF WritesKept, IMessage, Becomes, Under
<1>. QED
  BY <1>5, <1>6, <1>7

LEMMA BannedGrows ==
  ASSUME IMessage, NEW w \in Writes, WriteGoes(w)
  PROVE  /\ Banned \subseteq Banned'
         /\ Memset(w) \/ Banned' = Banned
<1>1. CASE Memset(w)
  <2>1. wr' = [wr EXCEPT ![w].at = "copy", ![w].wiped = TRUE]
    BY <1>1 DEF Memset
  <2>2. \A v \in Writes : wr'[v].before = wr[v].before
                            /\ (wr[v].wiped => wr'[v].wiped)
    BY <2>1, WriteParts DEF WriteCall
  <2>. QED
    BY <1>1, <2>2 DEF Banned
<1>2. CASE ~ Memset(w)
  <2>1. \A v \in Writes : wr[v] \in WriteCall
    BY WriteParts
  <2>2. ASSUME NEW a, Go(w, a)
        PROVE  \A v \in Writes : wr'[v].before = wr[v].before
                                   /\ wr'[v].wiped = wr[v].wiped
    BY <2>1, <2>2, WriteParts DEF Go, WriteCall
  <2>3. ASSUME NEW a, NEW n, wr' = [wr EXCEPT ![w].at = a, ![w].next = n]
        PROVE  \A v \in Writes : wr'[v].before = wr[v].before
                                   /\ wr'[v].wiped = wr[v].wiped
    BY <2>1, <2>3, WriteParts DEF WriteCall
  <2>4. ASSUME NEW n, wr' = [wr EXCEPT ![w].next = n]
        PROVE  \A v \in Writes : wr'[v].before = wr[v].before
                                   /\ wr'[v].wiped = wr[v].wiped
    BY <2>1, <2>4, WriteParts DEF WriteCall
  <2>5. \A v \in Writes : wr'[v].before = wr[v].before /\ wr'[v].wiped = wr[v].wiped
    <3>1. CASE CopyIn(w)
      BY <2>3, <2>4, <3>1 DEF CopyIn
    <3>2. CASE SetSize(w)
      BY <2>3, <3>2 DEF SetSize
    <3>3. CASE EndLine(w) \/ CountLine(w) \/ EndString(w)
      BY <2>2, <3>3 DEF EndLine, CountLine, EndString
    <3>4. CASE LoadSize(w)
      <4>1. PICK n : wr' = [wr EXCEPT ![w].at = "store", ![w].loaded = n]
        BY <3>4 DEF LoadSize
      <4>. QED
        BY <2>1, <4>1, WriteParts DEF WriteCall
    <3>. QED
      BY <1>2, <3>1, <3>2, <3>3, <3>4 DEF WriteGoes
  <2>. QED
    BY <2>5 DEF Banned
<1>. QED
  BY <1>1, <1>2

LEMMA WriteTypes ==
  ASSUME IMessage, NEW w \in Writes, WriteGoes(w)
  PROVE  MessageType'
<1>1. PICK c \in WriteCall : Becomes(w, c)
  BY WriteBecomes
<1>2. wr' \in [Writes -> WriteCall]
  BY <1>1, WriteParts DEF Becomes, Puts
<1>. QED
  BY <1>2, WriteBecomes DEF IMessage, MessageType

\* Nobody who reads meanwhile counts as undisturbed.
LEMMA WriteReads ==
  ASSUME IMessage, NEW w \in Writes, WriteGoes(w), NEW r \in Readers
  PROVE  ReadKept(r)'
<1>1. /\ w \in Under /\ UNCHANGED <<rd, last>>
      /\ Banned \subseteq Banned'
  BY WriteBecomes, BannedGrows
<1>2. ReadKept(r) /\ ~ (rd[r].at # "none" /\ rd[r].seen = last)
  BY <1>1 DEF IMessage, ReadKept
<1>. QED
  BY <1>1, <1>2 DEF ReadKept

LEMMA WriteBans ==
  ASSUME IMessage, NEW w \in Writes, WriteGoes(w)
  PROVE  NothingBanned'
<1>1. w \notin Banned /\ NoWrite \notin Banned
  <2>1. ASSUME NEW v \in Writes PROVE wr[v].before \subseteq Finished
    BY DEF IMessage, WritesKept
  <2>2. Banned \subseteq Finished
    BY <2>1 DEF Banned
  <2>3. w \notin Finished
    BY WriteBecomes, WriteParts DEF Finished, Under
  <2>4. NoWrite \notin Finished
    BY MessageAssumption DEF Finished, NoWrite, Writes
  <2>. QED
    BY <2>2, <2>3, <2>4
<1>2. CASE Memset(w)
  <2>1. \A v \in Writes : wr'[v].before \subseteq Finished'
    BY WriteOrder DEF WritesKept
  <2>2. Banned' \subseteq Finished'
    BY <2>1 DEF Banned
  <2>3. NoWrite \notin Finished'
    BY MessageAssumption DEF Finished, NoWrite, Writes
  <2>4. \A i \in Places : message'[i] = Zero
    BY <1>2, WriteParts DEF Memset
  <2>. QED
    BY <2>2, <2>3, <2>4 DEF NothingBanned, Zero
<1>3. CASE ~ Memset(w)
  <2>1. Banned' = Banned
    BY <1>3, BannedGrows
  <2>2. \A i \in Places : message'[i].by \in {message[i].by, w, NoWrite}
    <3>1. /\ message \in [Places -> MessageChar]
          /\ \A nl : Char(w, nl).by = w
          /\ Zero.by = NoWrite
      BY WriteParts DEF Char, Zero
    <3>2. CASE CopyIn(w)
      BY <3>1, <3>2 DEF CopyIn
    <3>3. CASE SetSize(w) \/ LoadSize(w) \/ CountLine(w)
      BY <3>1, <3>3 DEF SetSize, LoadSize, CountLine
    <3>4. CASE EndLine(w)
      BY <3>1, <3>4 DEF EndLine
    <3>5. CASE EndString(w)
      BY <3>1, <3>5 DEF EndString
    <3>. QED
      BY <1>3, <3>2, <3>3, <3>4, <3>5 DEF WriteGoes
  <2>3. \A i \in Places : message[i].by \notin Banned
    BY DEF IMessage, NothingBanned
  <2>4. ASSUME NEW i \in Places PROVE message'[i].by \notin Banned'
    BY <1>1, <2>1, <2>2, <2>3
  <2>. QED
    BY <2>4 DEF NothingBanned
<1>. QED
  BY <1>2, <1>3

(***************************************************************************)
(* A write alone puts down its own text.                                   *)
(***************************************************************************)
LEMMA WriteText ==
  ASSUME IMessage, NEW w \in Writes, WriteGoes(w)
  PROVE  TextKept'
<1> SUFFICES ASSUME last' \notin overlapped' PROVE TextKept'
  BY DEF TextKept
<1>1. /\ w \in Under /\ UNCHANGED <<driver, last, overlapped>>
  BY WriteBecomes
<1>2. last = w /\ w # 0 /\ Under \subseteq {w} /\ Written(w)
  BY <1>1, WriteParts DEF IMessage, TextKept
<1>3. Under' \subseteq {w}
  BY <1>2, WriteOrder
<1>4. PICK c \in WriteCall : Becomes(w, c)
  BY WriteBecomes
<1>5. wr'[w] = c /\ c.len = wr[w].len /\ c.nl = wr[w].nl
  BY <1>4, WriteParts DEF Becomes, Puts
<1>6. /\ wr[w] \in WriteCall /\ wr \in [Writes -> WriteCall]
      /\ message \in [Places -> MessageChar]
      /\ wr[w].next \in 0 .. wr[w].len /\ wr[w].len \in 0 .. BufLen
      /\ BufLen \in Nat /\ BufLen > 1
  BY WriteParts
<1>7. CASE Memset(w)
  <2>1. c.at = "copy" /\ c.next = 0
    BY <1>5, <1>6, <1>7 DEF Memset, WriteCall, IMessage, WritesKept
  <2>2. Written(w)'
    BY <1>5, <1>6, <2>1 DEF Written, Places
  <2>. QED
    BY <1>1, <1>2, <1>3, <2>2 DEF TextKept
<1>8. CASE CopyIn(w)
  <2>1. CASE c.at = "failed"
    <3>1. Written(w)'
      BY <1>5, <2>1 DEF Written
    <3>. QED
      BY <1>1, <1>2, <1>3, <3>1 DEF TextKept
  <2>2. CASE c.at # "failed"
    <3>1. /\ wr[w].at = "copy" /\ wr[w].next < wr[w].len
          /\ message' = [message EXCEPT ![wr[w].next] =
                           Char(w, wr[w].nl /\ wr[w].next = wr[w].len - 1)]
          /\ wr' = [wr EXCEPT ![w].next = @ + 1]
      BY <1>5, <1>6, <1>8, <2>2 DEF CopyIn, WriteCall
    <3>2. c.at = "copy" /\ c.next = wr[w].next + 1
      BY <1>5, <1>6, <3>1 DEF WriteCall
    <3>3. \A i \in Places : i < wr[w].next =>
            message[i].by = w /\ message[i].nl = (wr[w].nl /\ i = wr[w].len - 1)
      BY <1>2, <3>1 DEF Written
    <3>4. ASSUME NEW i \in Places, i < c.next
          PROVE  message'[i].by = w /\ message'[i].nl = (wr[w].nl /\ i = wr[w].len - 1)
      <4>1. CASE i = wr[w].next
        BY <1>6, <3>1, <4>1 DEF Char
      <4>2. CASE i # wr[w].next
        BY <1>6, <3>1, <3>2, <3>3, <3>4, <4>2 DEF Places
      <4>. QED
        BY <4>1, <4>2
    <3>5. Written(w)'
      BY <1>5, <3>2, <3>4 DEF Written
    <3>. QED
      BY <1>1, <1>2, <1>3, <3>5 DEF TextKept
  <2>. QED
    BY <2>1, <2>2
<1>9. CASE SetSize(w)
  <2>1. c.at = "ending" /\ msg_size' = wr[w].len /\ message' = message
    BY <1>5, <1>6, <1>9 DEF SetSize, WriteCall
  <2>2. \A i \in Places : i < wr[w].len =>
          message[i].by = w /\ message[i].nl = (wr[w].nl /\ i = wr[w].len - 1)
    BY <1>2, <1>9 DEF Written, SetSize
  <2>3. Written(w)'
    BY <1>5, <2>1, <2>2 DEF Written
  <2>. QED
    BY <1>1, <1>2, <1>3, <2>3 DEF TextKept
<1>10. CASE EndLine(w)
  <2>1. /\ driver = "char" /\ wr[w].at = "ending" /\ msg_size' = msg_size
        /\ msg_size = wr[w].len
        /\ \A i \in Places : i < wr[w].len =>
             message[i].by = w /\ message[i].nl = (wr[w].nl /\ i = wr[w].len - 1)
    BY <1>2, <1>10 DEF Written, EndLine
  <2>2. PICK nl \in EndsInNewline(w) :
          IF nl \/ wr[w].len >= BufLen - 1
            THEN Go(w, "done") /\ UNCHANGED message
            ELSE /\ message' = [message EXCEPT ![wr[w].len] = Char(w, TRUE)]
                 /\ Go(w, "count")
    BY <1>10 DEF EndLine
  <2>3. wr[w].len = 0 \/ nl = wr[w].nl
    <3>1. CASE wr[w].len # 0
      <4>1. wr[w].len - 1 \in Places /\ wr[w].len - 1 < wr[w].len
        BY <1>6, <3>1 DEF Places
      <4>2. message[wr[w].len - 1].nl = wr[w].nl
        BY <1>6, <2>1, <4>1 DEF WriteCall
      <4>. QED
        BY <3>1, <2>2, <4>2 DEF EndsInNewline
    <3>. QED
      BY <3>1
  <2>4. \A i \in Places : TextAfter(w, i)' = w
    BY <1>1, <2>1 DEF TextAfter
  <2>5. CASE nl \/ wr[w].len >= BufLen - 1
    <3>1. c.at = "done" /\ message' = message
      BY <1>5, <1>6, <2>2, <2>5 DEF Go, WriteCall
    <3>2. SizesAfter(w)' = IF c.len = 0 THEN {0, 1}
                           ELSE IF c.nl \/ c.len >= BufLen - 1 THEN {c.len}
                           ELSE {c.len + 1}
      BY <1>1, <1>2, <1>5, <2>1 DEF SizesAfter
    <3>3. msg_size' \in SizesAfter(w)'
      BY <1>5, <1>6, <2>1, <2>3, <2>5, <3>2
    <3>4. Written(w)'
      BY <1>5, <2>1, <2>4, <3>1, <3>3 DEF Written
    <3>. QED
      BY <1>1, <1>2, <1>3, <3>4 DEF TextKept
  <2>6. CASE ~ (nl \/ wr[w].len >= BufLen - 1)
    <3>0. Go(w, "count") /\ message' = [message EXCEPT ![wr[w].len] = Char(w, TRUE)]
      BY <2>2, <2>6
    <3>1. c.at = "count" /\ message' = [message EXCEPT ![wr[w].len] = Char(w, TRUE)]
      BY <1>5, <1>6, <3>0 DEF Go, WriteCall
    <3>2. ASSUME NEW i \in Places, i <= wr[w].len PROVE message'[i].by = w
      BY <1>6, <2>1, <3>1, <3>2 DEF Char, Places
    <3>3. c.len = 0 \/ ~ c.nl
      BY <1>5, <2>3, <2>6
    <3>4. Written(w)'
      BY <1>1, <1>5, <2>1, <3>1, <3>2, <3>3 DEF Written
    <3>. QED
      BY <1>1, <1>2, <1>3, <3>4 DEF TextKept
  <2>. QED
    BY <2>5, <2>6
<1>13. CASE LoadSize(w)
  <2>1. /\ wr[w].at = "count" /\ msg_size = wr[w].len
        /\ msg_size' = msg_size /\ message' = message
    BY <1>2, <1>13 DEF LoadSize, Written
  <2>2. wr' = [wr EXCEPT ![w].at = "store", ![w].loaded = wr[w].len]
    BY <1>13, <2>1 DEF LoadSize
  <2>3. c.at = "store" /\ c.loaded = wr[w].len
    BY <1>5, <1>6, <2>2 DEF WriteCall
  <2>4. /\ driver = "char" /\ (wr[w].len = 0 \/ ~ wr[w].nl)
        /\ \A i \in Places : i <= wr[w].len => message[i].by = w
    BY <1>2, <2>1 DEF Written
  <2>5. Written(w)'
    BY <1>1, <1>5, <2>1, <2>3, <2>4 DEF Written
  <2>. QED
    BY <1>1, <1>2, <1>3, <2>5 DEF TextKept
<1>11. CASE CountLine(w)
  <2>0. wr[w].at = "store" /\ wr[w].loaded = wr[w].len
    BY <1>2, <1>11 DEF CountLine, Written
  <2>1. /\ c.at = "done" /\ msg_size' = wr[w].len + 1 /\ message' = message
        /\ wr[w].at = "store" /\ wr[w].len < BufLen - 1
    BY <1>5, <1>6, <1>11, <2>0 DEF CountLine, Go, WriteCall, IMessage, WritesKept
  <2>2. /\ driver = "char" /\ (wr[w].len = 0 \/ ~ wr[w].nl)
        /\ \A i \in Places : i <= wr[w].len => message[i].by = w
    BY <1>2, <2>1 DEF Written
  <2>3. \A i \in Places : TextAfter(w, i)' = w
    BY <1>1, <2>2 DEF TextAfter
  <2>4. SizesAfter(w)' = IF c.len = 0 THEN {0, 1}
                         ELSE IF c.nl \/ c.len >= BufLen - 1 THEN {c.len}
                         ELSE {c.len + 1}
    BY <1>1, <1>2, <1>5, <2>2 DEF SizesAfter
  <2>5. msg_size' \in SizesAfter(w)'
    BY <1>5, <1>6, <2>1, <2>2, <2>4
  <2>6. \A i \in Places : i < msg_size' => message'[i].by = w
    BY <1>6, <2>1, <2>2 DEF Places
  <2>7. Written(w)'
    BY <1>5, <2>1, <2>3, <2>5, <2>6 DEF Written
  <2>. QED
    BY <1>1, <1>2, <1>3, <2>7 DEF TextKept
<1>12. CASE EndString(w)
  <2>0. wr[w].at = "ending" /\ msg_size = wr[w].len
    BY <1>2, <1>12 DEF EndString, Written
  <2>1. /\ driver = "proc" /\ wr[w].at = "ending" /\ msg_size' = msg_size
        /\ c.at = "done"
        /\ message' = [message EXCEPT ![Fewer(wr[w].len, BufLen - 1)] = Zero]
    BY <1>5, <1>6, <1>12, <2>0 DEF EndString, Go, WriteCall
  <2>2. \A i \in Places : i < wr[w].len => message[i].by = w
    BY <1>2, <2>1 DEF Written
  <2>3. SizesAfter(w)' = {c.len}
    BY <1>1, <1>2, <1>5, <2>1 DEF SizesAfter
  <2>4. ASSUME NEW i \in Places, i < msg_size'
        PROVE  message'[i].by = TextAfter(w, i)'
    <3>1. CASE i = BufLen - 1
      <4>1. i = Fewer(wr[w].len, BufLen - 1)
        BY <1>6, <2>0, <2>1, <2>4, <3>1 DEF Fewer
      <4>2. message'[i] = Zero
        BY <1>6, <2>1, <4>1
      <4>. QED
        BY <1>1, <1>2, <2>1, <3>1, <4>2 DEF Zero, TextAfter
    <3>2. CASE i # BufLen - 1
      <4>1. i # Fewer(wr[w].len, BufLen - 1)
        BY <1>6, <2>0, <2>1, <2>4, <3>2 DEF Fewer, Places
      <4>2. message'[i] = message[i]
        BY <1>6, <2>1, <4>1
      <4>. QED
        BY <2>0, <2>1, <2>2, <2>4, <3>2, <4>2 DEF TextAfter
    <3>. QED
      BY <3>1, <3>2
  <2>5. Written(w)'
    BY <1>5, <2>0, <2>1, <2>3, <2>4 DEF Written
  <2>. QED
    BY <1>1, <1>2, <1>3, <2>5 DEF TextKept
<1>. QED
  BY <1>7, <1>8, <1>9, <1>10, <1>11, <1>12, <1>13 DEF WriteGoes

LEMMA WriteGoesOn ==
  ASSUME IMessage, NEW w \in Writes, WriteGoes(w)
  PROVE  IMessage'
BY WriteTypes, WriteOrder, WriteBans, WriteText, WriteReads DEF IMessage
-----------------------------------------------------------------------------
(***************************************************************************)
(* A write begins; those under way overlap from now on.                    *)
(***************************************************************************)
LEMMA WriteStarts ==
  ASSUME IMessage, NEW w \in Writes, WriteBegins(w)
  PROVE  IMessage'
<1>0. /\ wr \in [Writes -> WriteCall] /\ last \in Nat /\ w = last + 1
      /\ overlapped \subseteq Writes /\ BufLen \in Nat /\ w \in Nat
      /\ last' = w /\ UNCHANGED <<driver, message, msg_size, rd>>
      /\ overlapped' = IF Under = {} THEN overlapped ELSE overlapped \cup Under \cup {w}
      /\ Writes \subseteq Nat /\ Finished \subseteq Nat /\ MaxWrites \in Nat
  BY MessageAssumption DEF WriteBegins, IMessage, MessageType, Writes, Finished
<1>1. PICK n \in Lens, nl \in BOOLEAN :
        wr' = [wr EXCEPT ![w] =
          [at |-> IF driver = "char" THEN "memset" ELSE "copy",
           len |-> Fewer(n, BufLen), nl |-> nl /\ n \in 1 .. BufLen, next |-> 0,
           loaded |-> 0, before |-> Finished, wiped |-> FALSE]]
  BY DEF WriteBegins
<1>2. PICK c \in WriteCall :
        /\ wr' = [wr EXCEPT ![w] = c]
        /\ c.at \in {"memset", "copy"} /\ c.next = 0 /\ c.before = Finished
        /\ ~ c.wiped
  <2>1. Fewer(n, BufLen) \in 0 .. BufLen
    BY <1>0, MessageAssumption DEF Fewer
  <2>2. [at |-> IF driver = "char" THEN "memset" ELSE "copy",
         len |-> Fewer(n, BufLen), nl |-> nl /\ n \in 1 .. BufLen, next |-> 0,
         loaded |-> 0, before |-> Finished, wiped |-> FALSE] \in WriteCall
    BY <1>0, <2>1 DEF WriteCall
  <2>. QED
    BY <1>1, <2>2
<1>3. \A v \in Writes : wr'[v] = IF v = w THEN c ELSE wr[v]
  BY <1>0, <1>2
<1>4. wr[w].at = "none" /\ ~ wr[w].wiped
  BY <1>0 DEF IMessage, WritesKept
<1>5. Finished' = Finished /\ Under' = Under \cup {w}
  BY <1>2, <1>3, <1>4 DEF Finished, Under
<1>6. Banned' = Banned
  BY <1>2, <1>3, <1>4 DEF Banned
<1>7. MessageType'
  <2>1. wr' \in [Writes -> WriteCall]
    BY <1>0, <1>2
  <2>2. last' \in 0 .. MaxWrites
    BY <1>0, MessageAssumption DEF Writes
  <2>3. overlapped' \subseteq Writes
    BY <1>0 DEF Under
  <2>. QED
    BY <1>0, <2>1, <2>2, <2>3 DEF IMessage, MessageType
<1>8. WritesKept'
  <2>1. \A v \in Writes : wr'[v].before \subseteq Finished'
    BY <1>2, <1>3, <1>5 DEF IMessage, WritesKept
  <2>2. \A v \in Writes : v > last' <=> wr'[v].at = "none"
    BY <1>0, <1>2, <1>3 DEF IMessage, WritesKept
  <2>3. 0 <= c.len
    BY <1>0 DEF WriteCall
  <2>. QED
    BY <1>2, <1>3, <2>1, <2>2, <2>3 DEF IMessage, WritesKept
<1>9. NothingBanned'
  BY <1>0, <1>6 DEF IMessage, NothingBanned
<1>10. TextKept'
  <2>1. CASE Under = {}
    <3>1. Under' \subseteq {last'} /\ last' # 0
      BY <1>0, <1>5, <2>1
    <3>2. Written(w)'
      BY <1>0, <1>2, <1>3 DEF Written, Places
    <3>. QED
      BY <1>0, <3>1, <3>2 DEF TextKept
  <2>2. CASE Under # {}
    BY <1>0, <2>2 DEF TextKept
  <2>. QED
    BY <2>1, <2>2
<1>11. ASSUME NEW r \in Readers PROVE ReadKept(r)'
  <2>1. ReadKept(r) /\ rd[r].seen # last'
    <3>1. ReadKept(r) /\ rd[r].seen <= last /\ rd[r].seen \in Int
      BY DEF IMessage, ReadKept, MessageType, ReadCall
    <3>. QED
      BY <1>0, <3>1
  <2>2. rd[r].seen <= last'
    BY <1>0, <2>1 DEF ReadKept, IMessage, MessageType, ReadCall
  <2>. QED
    BY <1>0, <1>6, <2>1, <2>2 DEF ReadKept
<1>. QED
  BY <1>7, <1>8, <1>9, <1>10, <1>11 DEF IMessage
-----------------------------------------------------------------------------
(***************************************************************************)
(* The reads.                                                              *)
(***************************************************************************)
LEMMA ReadParts ==
  ASSUME IMessage, NEW r \in Readers
  PROVE  /\ rd \in [Readers -> ReadCall] /\ rd[r] \in ReadCall
         /\ rd[r].offset \in Nat /\ rd[r].len \in Nat /\ rd[r].want \in Nat
         /\ rd[r].got \in Seq(Nat \cup {NoWrite}) /\ rd[r].banned \in SUBSET Nat
         /\ rd[r].seen \in Int
         /\ msg_size \in Nat /\ BufLen \in Nat /\ last \in Nat
         /\ message \in [Places -> MessageChar]
         /\ Finished \subseteq Nat /\ Banned \subseteq Nat
<1>1. rd \in [Readers -> ReadCall] /\ rd[r] \in ReadCall
  BY DEF IMessage, MessageType
<1>2. /\ rd[r].offset \in Nat /\ rd[r].len \in Nat /\ rd[r].want \in Nat
      /\ rd[r].got \in Seq(Nat \cup {NoWrite}) /\ rd[r].banned \in SUBSET Nat
      /\ rd[r].seen \in Int
  BY <1>1 DEF ReadCall
<1>3. Finished \subseteq Nat
  BY MessageAssumption DEF Finished, Writes
<1>4. Banned \subseteq Nat
  <2>1. \A v \in Writes : wr[v].before \subseteq Nat
    BY <1>3 DEF IMessage, WritesKept
  <2>. QED
    BY <2>1 DEF Banned
<1>. QED
  BY <1>1, <1>2, <1>3, <1>4, MessageAssumption DEF IMessage, MessageType

\* A step of a reader leaves all but its own call alone.
LEMMA ReaderOnly ==
  ASSUME IMessage, NEW r \in Readers, NEW c \in ReadCall,
         rd' = [rd EXCEPT ![r] = c],
         UNCHANGED <<driver, message, msg_size, wr, last, overlapped>>,
         ReadKept(r)'
  PROVE  IMessage'
<1>1. /\ Under' = Under /\ Finished' = Finished /\ Banned' = Banned
  BY DEF Under, Finished, Banned
<1>2. MessageType'
  BY DEF IMessage, MessageType
<1>3. WritesKept' /\ NothingBanned'
  BY <1>1 DEF IMessage, WritesKept, NothingBanned
<1>4. TextKept'
  <2>1. \A w : Written(w) => Written(w)'
    BY DEF Written, SizesAfter, TextAfter
  <2>. QED
    BY <1>1, <2>1 DEF IMessage, TextKept
<1>5. ASSUME NEW q \in Readers, q # r PROVE ReadKept(q)'
  <2>1. ReadKept(q) /\ rd'[q] = rd[q]
    BY <1>5, ReadParts DEF IMessage
  <2>. QED
    BY <1>1, <2>1 DEF ReadKept, From, TextAt
<1>. QED
  BY <1>2, <1>3, <1>4, <1>5 DEF IMessage

LEMMA ReadStarts ==
  ASSUME IMessage, NEW r \in Readers, ReadBegins(r)
  PROVE  IMessage'
<1>0. UNCHANGED <<driver, message, msg_size, wr, last, overlapped>>
  BY DEF ReadBegins
<1>1. PICK n \in Wants, old \in ReadCall :
        /\ old = rd[r]
        /\ rd' = LET more == old.offset < msg_size
                 IN [rd EXCEPT ![r] =
             [at |-> IF more THEN "copy" ELSE "returned",
              offset |-> old.offset, want |-> n,
              len |-> IF more THEN Fewer(n, msg_size - old.offset) ELSE 0,
              got |-> <<>>, seen |-> IF Under = {} THEN last ELSE NoWrite,
              banned |-> Banned]]
  BY ReadParts DEF ReadBegins
<1>2. /\ n \in Nat /\ old.offset \in Nat /\ msg_size \in Nat
      /\ Banned \in SUBSET Nat /\ last \in Nat /\ NoWrite = -1
      /\ rd \in [Readers -> ReadCall]
  BY <1>1, ReadParts, MessageAssumption DEF NoWrite
<1>3. <<>> \in Seq(Nat \cup {NoWrite}) /\ Len(<<>>) = 0
  OBVIOUS
<1>4. PICK a \in {"copy", "returned"}, l \in Nat, v \in Int :
        /\ rd' = [rd EXCEPT ![r] =
             [at |-> a, offset |-> old.offset, want |-> n, len |-> l, got |-> <<>>,
              seen |-> v, banned |-> Banned]]
        /\ a = IF old.offset < msg_size THEN "copy" ELSE "returned"
        /\ l = IF old.offset < msg_size THEN Fewer(n, msg_size - old.offset) ELSE 0
        /\ v = IF Under = {} THEN last ELSE NoWrite
  <2>1. (IF old.offset < msg_size THEN Fewer(n, msg_size - old.offset) ELSE 0) \in Nat
    BY <1>2 DEF Fewer
  <2>2. (IF Under = {} THEN last ELSE NoWrite) \in Int
    BY <1>2
  <2>. QED
    BY <1>1, <2>1, <2>2
<1>5. PICK c \in ReadCall :
        /\ rd' = [rd EXCEPT ![r] = c]
        /\ c.at = a /\ c.offset = old.offset /\ c.want = n /\ c.len = l
        /\ c.got = <<>> /\ c.seen = v /\ c.banned = Banned
  <2>1. [at |-> a, offset |-> old.offset, want |-> n, len |-> l, got |-> <<>>,
         seen |-> v, banned |-> Banned] \in ReadCall
    BY <1>2, <1>3 DEF ReadCall
  <2>. QED
    BY <1>4, <2>1
<1>6. rd'[r] = c
  BY <1>2, <1>5
<1>7. /\ Under' = Under /\ Banned' = Banned
  BY <1>0 DEF Under, Banned
<1>8. ReadKept(r)'
  <2>1. From(r)' = old.offset
    BY <1>2, <1>4, <1>5, <1>6 DEF From
  <2>2. c.seen <= last /\ (c.seen = last => Under = {})
    BY <1>2, <1>4, <1>5
  <2>3. c.len = IF old.offset >= msg_size THEN 0 ELSE Fewer(c.want, msg_size - old.offset)
    BY <1>2, <1>4, <1>5
  <2>4. c.at = "copy" => Len(c.got) <= c.len
    BY <1>2, <1>3, <1>4, <1>5
  <2>5. c.at = "returned" => c.len <= c.offset /\ Len(c.got) = c.len
    BY <1>2, <1>3, <1>4, <1>5
  <2>6. 1 .. Len(c.got) = {}
    BY <1>3, <1>5
  <2>. QED
    BY <1>0, <1>5, <1>6, <1>7, <2>1, <2>2, <2>3, <2>4, <2>5, <2>6 DEF ReadKept
<1>. QED
  BY <1>0, <1>5, <1>8, ReaderOnly

LEMMA ReadGoesOn ==
  ASSUME IMessage, NEW r \in Readers, CopyOut(r)
  PROVE  IMessage'
<1>0. /\ UNCHANGED <<driver, message, msg_size, wr, last, overlapped>>
      /\ rd[r].at = "copy" /\ Len(rd[r].got) < rd[r].len
  BY DEF CopyOut
<1>1. PICK old \in ReadCall, k \in Nat, x \in Nat \cup {NoWrite} :
        /\ old = rd[r] /\ k = Len(old.got) /\ x = TextAt(old.offset + k)
        /\ x \notin Banned
  <2>1. Len(rd[r].got) \in Nat
    BY ReadParts
  <2>2. ASSUME NEW i
        PROVE  TextAt(i) \in Nat \cup {NoWrite} /\ TextAt(i) \notin Banned
    <3>1. NoWrite \notin Banned
      BY ReadParts DEF NoWrite
    <3>2. DOMAIN message = Places
      BY ReadParts
    <3>3. CASE i \in Places
      BY <3>2, <3>3, ReadParts DEF TextAt, MessageChar, IMessage, NothingBanned
    <3>4. CASE i \notin Places
      BY <3>1, <3>2, <3>4 DEF TextAt
    <3>. QED
      BY <3>3, <3>4
  <2>. QED
    BY <2>1, <2>2, ReadParts
<1>2. /\ old.got \in Seq(Nat \cup {NoWrite}) /\ old.offset \in Nat /\ old.len \in Nat
      /\ rd \in [Readers -> ReadCall] /\ old.at = "copy" /\ k < old.len
  BY <1>0, <1>1, ReadParts
<1>3. PICK s \in Seq(Nat \cup {NoWrite}) :
        /\ s = Append(old.got, x) /\ Len(s) = k + 1
        /\ \A i \in 1 .. k : s[i] = old.got[i]
        /\ s[k + 1] = x
  <2>1. Append(old.got, x) \in Seq(Nat \cup {NoWrite})
    BY <1>2
  <2>2. /\ Len(Append(old.got, x)) = Len(old.got) + 1
        /\ \A i \in 1 .. Len(old.got) : Append(old.got, x)[i] = old.got[i]
        /\ Append(old.got, x)[Len(old.got) + 1] = x
    BY <1>2
  <2>. QED
    BY <1>1, <2>1, <2>2
<1>4. rd' = [rd EXCEPT ![r] = [old EXCEPT !.got = s]]
  BY <1>1, <1>2, <1>3 DEF CopyOut
<1>5. PICK c \in ReadCall :
        /\ rd' = [rd EXCEPT ![r] = c]
        /\ c.got = s /\ c.at = old.at /\ c.offset = old.offset /\ c.want = old.want
        /\ c.len = old.len /\ c.seen = old.seen /\ c.banned = old.banned
  <2>1. LET c == [old EXCEPT !.got = s]
        IN  /\ c \in ReadCall
            /\ c.got = s /\ c.at = old.at /\ c.offset = old.offset /\ c.want = old.want
            /\ c.len = old.len /\ c.seen = old.seen /\ c.banned = old.banned
    BY DEF ReadCall
  <2>. QED
    BY <1>4, <2>1
<1>6. rd'[r] = c
  BY <1>2, <1>5
<1>7. Under' = Under /\ Banned' = Banned
  BY <1>0 DEF Under, Banned
<1>8. ReadKept(r)'
  <2>1. ReadKept(r)
    BY DEF IMessage
  <2>2. From(r) = old.offset /\ From(r)' = old.offset
    BY <1>1, <1>2, <1>5, <1>6 DEF From
  <2>3. ASSUME NEW i \in 1 .. k + 1 PROVE s[i] \notin old.banned
    BY <1>1, <1>2, <1>3, <2>1 DEF ReadKept
  <2>4. ASSUME old.seen = last, NEW i \in 1 .. k + 1
        PROVE  s[i] = TextAt(old.offset + i - 1)
    <3>1. CASE i = k + 1
      BY <1>1, <1>2, <1>3, <3>1
    <3>2. CASE i # k + 1
      <4>1. i \in 1 .. k
        BY <3>2
      <4>. QED
        BY <1>1, <1>2, <1>3, <2>1, <2>2, <2>4, <4>1 DEF ReadKept
    <3>. QED
      BY <3>1, <3>2
  <2>5. /\ rd'[r].seen <= last' /\ rd'[r].banned \subseteq Banned'
    BY <1>0, <1>1, <1>5, <1>6, <1>7, <2>1 DEF ReadKept
  <2>6. \A i \in 1 .. Len(rd'[r].got) : rd'[r].got[i] \notin rd'[r].banned
    BY <1>3, <1>5, <1>6, <2>3
  <2>7. Len(rd'[r].got) <= rd'[r].len
    BY <1>1, <1>2, <1>3, <1>5, <1>6, <2>1 DEF ReadKept
  <2>8. ASSUME rd'[r].seen = last'
        PROVE  /\ Under' = {}
               /\ rd'[r].len = IF From(r)' >= msg_size' THEN 0
                               ELSE Fewer(rd'[r].want, msg_size' - From(r)')
    BY <1>0, <1>1, <1>2, <1>5, <1>6, <1>7, <2>1, <2>2, <2>8 DEF ReadKept
  <2>9. ASSUME rd'[r].seen = last', NEW i \in 1 .. Len(rd'[r].got)
        PROVE  rd'[r].got[i] = TextAt(From(r) + i - 1)'
    <3>1. TextAt(From(r) + i - 1)' = TextAt(old.offset + i - 1)
      BY <1>0, <2>2 DEF TextAt
    <3>. QED
      BY <1>0, <1>3, <1>5, <1>6, <2>2, <2>4, <2>9, <3>1
  <2>. QED
    BY <1>2, <1>5, <1>6, <2>5, <2>6, <2>7, <2>8, <2>9 DEF ReadKept
<1>. QED
  BY <1>0, <1>5, <1>8, ReaderOnly

LEMMA ReadIsOver ==
  ASSUME IMessage, NEW r \in Readers, ReadEnds(r)
  PROVE  IMessage'
<1>0. /\ UNCHANGED <<driver, message, msg_size, wr, last, overlapped>>
      /\ rd[r].at = "copy"
  BY DEF ReadEnds
<1>1. PICK old \in ReadCall : old = rd[r]
  BY ReadParts
<1>2. /\ old.got \in Seq(Nat \cup {NoWrite}) /\ old.offset \in Nat /\ old.len \in Nat
      /\ rd \in [Readers -> ReadCall] /\ old.at = "copy"
      /\ last \in Nat
  BY <1>0, <1>1, ReadParts
<1>3. Under' = Under /\ Banned' = Banned
  BY <1>0 DEF Under, Banned
<1>4. ReadKept(r)
  BY DEF IMessage
<1>5. CASE Len(old.got) = old.len
  <2>1. rd' = [rd EXCEPT ![r] =
                 [old EXCEPT !.at = "returned", !.offset = old.offset + old.len]]
    <3>1. rd' = [rd EXCEPT ![r].at = "returned", ![r].offset = rd[r].offset + rd[r].len]
      BY <1>1, <1>5 DEF ReadEnds
    <3>. QED
      BY <1>1, <1>2, <3>1
  <2>2. old.offset + old.len \in Nat
    BY <1>2
  <2>3. PICK c \in ReadCall :
          /\ rd' = [rd EXCEPT ![r] = c]
          /\ c.got = old.got /\ c.at = "returned" /\ c.offset = old.offset + old.len
          /\ c.want = old.want /\ c.len = old.len /\ c.seen = old.seen
          /\ c.banned = old.banned
    <3>1. LET c == [old EXCEPT !.at = "returned", !.offset = old.offset + old.len]
          IN  /\ c \in ReadCall
              /\ c.got = old.got /\ c.at = "returned"
              /\ c.offset = old.offset + old.len
              /\ c.want = old.want /\ c.len = old.len /\ c.seen = old.seen
              /\ c.banned = old.banned
      BY <2>2 DEF ReadCall
    <3>. QED
      BY <2>1, <3>1
  <2>4. rd'[r] = c
    BY <1>2, <2>3
  <2>5. From(r) = old.offset /\ From(r)' = old.offset
    BY <1>1, <1>2, <2>3, <2>4 DEF From
  <2>7. \A i : TextAt(i)' = TextAt(i)
    BY <1>0 DEF TextAt
  <2>6. ReadKept(r)'
    BY <1>0, <1>1, <1>2, <1>3, <1>4, <1>5, <2>3, <2>4, <2>5, <2>7, SMTT(30) DEF ReadKept
  <2>. QED
    BY <1>0, <2>3, <2>6, ReaderOnly
<1>6. CASE Len(old.got) # old.len
  <2>1. rd' = [rd EXCEPT ![r] = Idle(old.offset)]
    BY <1>1, <1>2, <1>6 DEF ReadEnds
  <2>2. <<>> \in Seq(Nat \cup {NoWrite}) /\ Len(<<>>) = 0
    OBVIOUS
  <2>3. PICK c \in ReadCall :
          rd' = [rd EXCEPT ![r] = c] /\ c = Idle(old.offset)
    <3>1. Idle(old.offset) \in ReadCall
      BY <1>2, <2>2 DEF Idle, ReadCall, NoWrite
    <3>. QED
      BY <2>1, <3>1
  <2>4. rd'[r] = Idle(old.offset)
    BY <1>2, <2>3
  <2>5. ReadKept(r)'
    BY <1>0, <1>2, <2>2, <2>4 DEF ReadKept, Idle, NoWrite
  <2>. QED
    BY <1>0, <2>3, <2>5, ReaderOnly
<1>. QED
  BY <1>5, <1>6
-----------------------------------------------------------------------------
LEMMA NextMessage == IMessage /\ [MessageNext]_messageVars => IMessage'
<1> SUFFICES ASSUME IMessage, [MessageNext]_messageVars PROVE IMessage'
  OBVIOUS
<1>1. ASSUME NEW w \in Writes, WriteBegins(w) PROVE IMessage'
  BY <1>1, WriteStarts
<1>2. ASSUME NEW w \in Writes, WriteGoes(w) PROVE IMessage'
  BY <1>2, WriteGoesOn
<1>3. ASSUME NEW r \in Readers, ReadBegins(r) \/ CopyOut(r) \/ ReadEnds(r)
      PROVE  IMessage'
  BY <1>3, ReadStarts, ReadGoesOn, ReadIsOver
<1>4. CASE UNCHANGED messageVars
  <2>1. /\ UNCHANGED <<driver, message, msg_size, wr, rd, last, overlapped>>
    BY <1>4 DEF messageVars
  <2>2. /\ Under' = Under /\ Finished' = Finished /\ Banned' = Banned
    BY <2>1 DEF Under, Finished, Banned
  <2>3. MessageType' /\ WritesKept' /\ NothingBanned'
    BY <2>1, <2>2 DEF IMessage, MessageType, WritesKept, NothingBanned
  <2>4. \A w : Written(w) => Written(w)'
    BY <2>1 DEF Written, SizesAfter, TextAfter
  <2>5. TextKept'
    BY <2>1, <2>2, <2>4 DEF IMessage, TextKept
  <2>6. \A r \in Readers : ReadKept(r)'
    BY <2>1, <2>2 DEF IMessage, ReadKept, From, TextAt
  <2>. QED
    BY <2>3, <2>5, <2>6 DEF IMessage
<1>. QED
  BY <1>1, <1>2, <1>3, <1>4 DEF MessageNext, WriteGoes

\* A write that had the buffer for itself counts no more than the buffer holds.
LEMMA SizeFits ==
  ASSUME IMessage
  PROVE  \A n \in SizesAfter(last) : n <= BufLen
<1>1. BufLen \in Nat \ {0, 1} /\ HelloLen \in 0 .. BufLen
  BY MessageAssumption
<1>2. CASE last = 0
  BY <1>1, <1>2 DEF SizesAfter
<1>3. CASE last # 0
  <2>1. last \in Writes
    BY <1>3, MessageAssumption DEF IMessage, MessageType, Writes
  <2>2. wr[last].len \in 0 .. BufLen
    BY <2>1, WriteParts
  <2>. QED
    BY <1>1, <1>3, <2>2 DEF SizesAfter
<1>. QED
  BY <1>2, <1>3

LEMMA MessageSafe == IMessage => NoStaleText
<1> SUFFICES ASSUME IMessage, NEW r \in Readers
             PROVE
    /\ rd[r].at = "returned" /\ rd[r].seen = last
         /\ last \in Finished \ overlapped /\ (last = 0 \/ wr[last].at = "done") =>
       LET from == rd[r].offset - rd[r].len
       IN  /\ \E n \in SizesAfter(last) :
                rd[r].len = IF from >= n THEN 0 ELSE Fewer(rd[r].want, n - from)
           /\ \A i \in 1 .. rd[r].len :
                rd[r].got[i] = TextAfter(last, from + i - 1)
    /\ driver = "char" => \A i \in DOMAIN rd[r].got : rd[r].got[i] \notin rd[r].banned
  BY DEF NoStaleText
<1>1. ReadKept(r)
  BY DEF IMessage
<1>2. \A i \in DOMAIN rd[r].got : rd[r].got[i] \notin rd[r].banned
  BY <1>1, ReadParts, SMTT(30) DEF ReadKept
<1>3. ASSUME rd[r].at = "returned", rd[r].seen = last, last \notin overlapped,
             last = 0 \/ wr[last].at = "done"
      PROVE  LET from == rd[r].offset - rd[r].len
             IN  /\ \E n \in SizesAfter(last) :
                      rd[r].len = IF from >= n THEN 0 ELSE Fewer(rd[r].want, n - from)
                 /\ \A i \in 1 .. rd[r].len :
                      rd[r].got[i] = TextAfter(last, from + i - 1)
  <2>0. /\ From(r) = rd[r].offset - rd[r].len /\ From(r) \in Nat
        /\ rd[r].len <= rd[r].offset /\ Len(rd[r].got) = rd[r].len
    BY <1>1, <1>3, ReadParts DEF ReadKept, From
  <2>1. PICK from \in Nat :
          /\ from = rd[r].offset - rd[r].len /\ from = From(r)
          /\ rd[r].len = IF from >= msg_size THEN 0
                         ELSE Fewer(rd[r].want, msg_size - from)
          /\ \A i \in 1 .. rd[r].len : rd[r].got[i] = TextAt(from + i - 1)
    <3>1. /\ rd[r].len = IF From(r) >= msg_size THEN 0
                         ELSE Fewer(rd[r].want, msg_size - From(r))
          /\ \A i \in 1 .. Len(rd[r].got) : rd[r].got[i] = TextAt(From(r) + i - 1)
      BY <1>1, <1>3 DEF ReadKept
    <3>. QED
      BY <2>0, <3>1
  <2>2. /\ msg_size \in SizesAfter(last)
        /\ \A i \in Places : i < msg_size => message[i].by = TextAfter(last, i)
    <3>1. CASE last = 0
      BY <1>3, <3>1 DEF IMessage, TextKept, SizesAfter, TextAfter
    <3>2. CASE last # 0
      BY <1>3, <3>2 DEF IMessage, TextKept, Written
    <3>. QED
      BY <3>1, <3>2
  <2>3. ASSUME NEW i \in 1 .. rd[r].len
        PROVE  rd[r].got[i] = TextAfter(last, from + i - 1)
    <3>1. /\ rd[r].len \in Nat /\ rd[r].want \in Nat /\ i \in Nat /\ i >= 1
          /\ msg_size \in Nat /\ BufLen \in Nat
      BY ReadParts
    <3>2. ~ (from >= msg_size) /\ i <= msg_size - from
      BY <2>1, <3>1 DEF Fewer
    <3>3. msg_size <= BufLen
      BY <2>2, SizeFits
    <3>4. from + i - 1 \in Places /\ from + i - 1 < msg_size
      BY <3>1, <3>2, <3>3 DEF Places
    <3>5. TextAt(from + i - 1) = message[from + i - 1].by
      BY <3>4, ReadParts DEF TextAt
    <3>. QED
      BY <2>1, <2>2, <3>4, <3>5
  <2>. QED
    BY <2>1, <2>2, <2>3
<1>. QED
  BY <1>2, <1>3

(***************************************************************************)
(* NoStaleText: for any lengths, any buffer and any number of readers and  *)
(* writes, a read beside which nothing is written returns what the last    *)
(* write of its own left, and the device never gives back a text that was  *)
(* over before one that has cleared the message began.                     *)
(***************************************************************************)
THEOREM ReadsAreFresh == MessageSpec => []NoStaleText
<1>1. MessageSpec => []IMessage
  BY InitMessage, NextMessage, PTL DEF MessageSpec
<1>. QED
  BY <1>1, MessageSafe, PTL
-----------------------------------------------------------------------------
(***************************************************************************)
(* The chat over two message queues.                                       *)
(***************************************************************************)
W(s) == pc[Writer(s)]
R(s) == pc[Reader(s)]

Owning == {"create2", "signal", "fork", "typing", "kill"}

Active(s) == is_creator[s] /\ W(s) \in Owning
Leaving(s) == is_creator[s] /\ (W(s) \in InHandler \/ R(s) \in InHandler)

Labels ==
  {"start", "create2", "join1", "join2", "signal", "fork", "typing", "kill", "bye",
   "close", "unlink1", "unlink2", "ended", "killed", "none", "receiving"}

Message == {"text", "EXIT"}
KernelQueue == [texts : Seq(Message), exits : Nat]

\* A number that stands for one of n queues, or for none.
QueueType ==
  /\ waiting \in Seq(KernelQueue)
  /\ name \in [{1, 2} -> 0 .. Len(waiting)]
  /\ mq_in \in [Sessions -> 0 .. Len(waiting)]
  /\ mq_out \in [Sessions -> 0 .. Len(waiting)]

PcType ==
  /\ is_creator \in [Sessions -> BOOLEAN] /\ pc \in [Processes -> Labels]
  /\ interrupted \subseteq Sessions /\ overlap \in BOOLEAN

ControlOf(s) ==
  /\ R(s) = "receiving" => W(s) \in {"typing", "kill"}
  /\ R(s) \in InHandler => W(s) \in InHandler \cup {"ended"}
  /\ W(s) \in {"unlink1", "unlink2"} \/ R(s) \in {"unlink1", "unlink2"} => is_creator[s]
  /\ W(s) \in {"start", "join1", "join2"} => ~ is_creator[s] /\ mq_in[s] = None
  /\ W(s) \in {"start", "join1", "create2"} => mq_out[s] = None
  /\ W(s) = "create2" => is_creator[s]
  /\ W(s) \notin {"none", "receiving"}
  /\ R(s) \in {"none", "receiving", "ended"} \cup InHandler

Control == \A s \in Sessions : ControlOf(s)

\* What CrossedOver excepts.
Undisturbed ==
  ~overlap /\ (\A s \in Sessions : is_creator[s] => pc[Writer(s)] # "killed")

OneCreator ==
  \A s, t \in Sessions :
    (Active(s) \/ Leaving(s)) /\ (Active(t) \/ Leaving(t)) => s = t

NamesOf ==
  /\ \A s \in Sessions : Active(s) =>
       /\ name[1] = mq_in[s] /\ mq_in[s] # None
       /\ W(s) # "create2" => name[2] = mq_out[s]
  /\ name[1] # None => \E s \in Sessions :
       is_creator[s] /\ W(s) \in Owning \cup {"bye", "close", "unlink1"}
  /\ name[2] # None => \E s \in Sessions :
       is_creator[s] /\ W(s) \in (Owning \ {"create2"}) \cup InHandler
  /\ \A t \in Sessions : W(t) \in {"join1", "join2"} => name[1] # None

Paired(s, t) == mq_out[t] = mq_in[s] /\ mq_in[t] \in {mq_out[s], None}
Apart(s, t) ==
  \A q \in {mq_in[t], mq_out[t]} : q # None => q \notin {mq_in[s], mq_out[s]}

Pairs ==
  \A s, t \in Sessions : Active(s) /\ ~ is_creator[t] =>
    /\ W(t) = "join2" => mq_out[t] = mq_in[s]
    /\ Paired(s, t) \/ Apart(s, t)

Crossing == OneCreator /\ NamesOf /\ Pairs

IQueues == QueueType /\ PcType /\ Control /\ (Undisturbed => Crossing)
-----------------------------------------------------------------------------
LEMMA ProcessIs ==
  /\ \A s \in Sessions : Writer(s) \in Processes /\ Reader(s) \in Processes
  /\ \A p \in Processes : p[1] \in Sessions /\ (p = Writer(p[1]) \/ p = Reader(p[1]))
  /\ \A s, t : Writer(s)[1] = s /\ Reader(s)[1] = s /\ Writer(s) # Reader(t)
  /\ \A s, t : s # t => Writer(s) # Writer(t) /\ Reader(s) # Reader(t)
BY DEF Processes, Writer, Reader

\* The labels of all processes after a process went on.
LEMMA GoesTo ==
  ASSUME PcType, NEW p \in Processes, NEW l \in Labels, Goes(p, l)
  PROVE  /\ pc' \in [Processes -> Labels] /\ pc'[p] = l
         /\ \A q \in Processes : q # p => pc'[q] = pc[q]
BY DEF PcType, Goes

LEMMA PcTypes ==
  ASSUME PcType, ChatQueueNext
  PROVE  PcType'
<1> USE DEF PcType
<1>1. ASSUME NEW p \in Processes, NEW l \in Labels, Goes(p, l)
      PROVE  pc' \in [Processes -> Labels]
  BY <1>1, GoesTo
<1>2. ASSUME NEW s \in Sessions, Create1(s) PROVE PcType'
  BY <1>1, <1>2, ProcessIs DEF Create1, Opens, Removing, Labels
<1>3. ASSUME NEW s \in Sessions, Create2(s) PROVE PcType'
  BY <1>1, <1>3, ProcessIs DEF Create2, Opens, Removing, Labels
<1>4. ASSUME NEW s \in Sessions, Join(s) PROVE PcType'
  BY <1>1, <1>4, ProcessIs DEF Join, Opens, Removing, Labels
<1>5. ASSUME NEW s \in Sessions, Install(s) \/ EndOfInput(s) PROVE PcType'
  BY <1>1, <1>5, ProcessIs DEF Install, EndOfInput, sessionVars, Labels
<1>6. ASSUME NEW s \in Sessions, Fork(s) \/ KillReader(s) PROVE PcType'
  BY <1>6, ProcessIs DEF Fork, KillReader, sessionVars, Labels
<1>7. ASSUME NEW s \in Sessions, Type(s) PROVE PcType'
  BY <1>1, <1>7, ProcessIs DEF Type, sessionVars, Labels
<1>8. ASSUME NEW s \in Sessions, Receive(s) PROVE PcType'
  <2>1. pc' = pc \/ Goes(Reader(s), "ended")
    BY <1>8 DEF Receive
  <2>2. pc' \in [Processes -> Labels]
    BY <1>1, <2>1, ProcessIs DEF Labels
  <2>. QED
    BY <1>8, <2>2 DEF Receive, sessionVars
<1>9. ASSUME NEW s \in Sessions, CtrlC(s) PROVE PcType'
  <2>1. \A p \in Processes : AfterSignal(p) \in Labels
    BY DEF AfterSignal, Labels
  <2>. QED
    BY <1>9, <2>1 DEF CtrlC, sessionVars
<1>10. ASSUME NEW p \in Processes, Handler(p) PROVE PcType'
  BY <1>1, <1>10 DEF Handler, Removes, sessionVars, Labels
<1>. QED
  BY <1>2, <1>3, <1>4, <1>5, <1>6, <1>7, <1>8, <1>9, <1>10 DEF ChatQueueNext

(***************************************************************************)
(* The queues: their number only grows.                                    *)
(***************************************************************************)
Grows(w) == w \in Seq(KernelQueue) /\ Len(w) \in Nat /\ Len(w) >= Len(waiting)

LEMMA OneMore ==
  ASSUME QueueType
  PROVE  /\ Grows(Append(waiting, Empty)) /\ Grows(waiting)
         /\ Len(Append(waiting, Empty)) = Len(waiting) + 1
<1>1. Empty \in KernelQueue
  BY DEF Empty, KernelQueue
<1>. QED
  BY <1>1 DEF Grows, QueueType

\* A queue replaced.
LEMMA Replaced ==
  ASSUME QueueType, NEW q \in 1 .. Len(waiting), NEW k \in KernelQueue,
         NEW w, w = [waiting EXCEPT ![q] = k]
  PROVE  Grows(w) /\ Len(w) = Len(waiting)
BY DEF QueueType, Grows

LEMMA SentGrows ==
  ASSUME QueueType, NEW q \in 0 .. Len(waiting), NEW m \in Message \cup {"bye"}
  PROVE  Grows(Sent(q, m)) /\ Len(Sent(q, m)) = Len(waiting)
<1>1. CASE q = None
  BY <1>1, OneMore DEF Sent
<1>2. CASE q # None
  <2>1. PICK old \in KernelQueue : old = waiting[q] /\ q \in 1 .. Len(waiting)
    BY <1>2 DEF QueueType, None
  <2>2. CASE m = "bye"
    <3>1. Sent(q, m) = [waiting EXCEPT ![q] = [old EXCEPT !.exits = old.exits + 1]]
      BY <1>2, <2>1, <2>2 DEF Sent
    <3>2. [old EXCEPT !.exits = old.exits + 1] \in KernelQueue
      BY DEF KernelQueue
    <3>. QED
      BY <2>1, <3>1, <3>2, Replaced
  <2>3. CASE m # "bye"
    <3>1. Sent(q, m) = [waiting EXCEPT ![q] = [old EXCEPT !.texts = Append(old.texts, m)]]
      BY <1>2, <2>1, <2>3 DEF Sent
    <3>2. [old EXCEPT !.texts = Append(old.texts, m)] \in KernelQueue
      <4>1. Append(old.texts, m) \in Seq(Message)
        BY <2>3 DEF KernelQueue
      <4>. QED
        BY <4>1 DEF KernelQueue
    <3>. QED
      BY <2>1, <3>1, <3>2, Replaced
  <2>. QED
    BY <2>2, <2>3
<1>. QED
  BY <1>1, <1>2

LEMMA ReceiveGrows ==
  ASSUME QueueType, NEW s \in Sessions, Receive(s)
  PROVE  Grows(waiting')
<1>1. CASE mq_in[s] = None
  BY <1>1, OneMore DEF Receive
<1>2. CASE mq_in[s] # None
  <2>1. PICK q \in 1 .. Len(waiting), old \in KernelQueue :
          q = mq_in[s] /\ old = waiting[q]
    BY <1>2 DEF QueueType, None
  <2>2. CASE /\ old.exits > 0
             /\ waiting' = [waiting EXCEPT ![q].exits = @ - 1]
    <3>1. waiting' = [waiting EXCEPT ![q] = [old EXCEPT !.exits = old.exits - 1]]
      BY <2>1, <2>2
    <3>2. [old EXCEPT !.exits = old.exits - 1] \in KernelQueue
      BY <2>2 DEF KernelQueue
    <3>. QED
      BY <3>1, <3>2, Replaced
  <2>3. CASE /\ old.texts # <<>>
             /\ waiting' = [waiting EXCEPT ![q].texts = Tail(@)]
    <3>1. waiting' = [waiting EXCEPT ![q] = [old EXCEPT !.texts = Tail(old.texts)]]
      BY <2>1, <2>3
    <3>2. [old EXCEPT !.texts = Tail(old.texts)] \in KernelQueue
      <4>1. Tail(old.texts) \in Seq(Message)
        BY <2>3 DEF KernelQueue
      <4>. QED
        BY <4>1 DEF KernelQueue
    <3>. QED
      BY <3>1, <3>2, Replaced
  <2>. QED
    BY <1>2, <2>1, <2>2, <2>3 DEF Receive
<1>. QED
  BY <1>1, <1>2

LEMMA QueueTypes ==
  ASSUME QueueType, ChatQueueNext
  PROVE  QueueType' /\ Len(waiting') >= Len(waiting)
<1>0. Len(waiting) \in Nat
  BY DEF QueueType
<1>1. ASSUME Grows(waiting'), NEW n \in Nat, n = Len(waiting'),
             \E i \in {1, 2} : name' \in {name, [name EXCEPT ![i] = n]},
             \E s \in Sessions :
               mq_in' \in {mq_in, [mq_in EXCEPT ![s] = n]}
                           \cup {[mq_in EXCEPT ![s] = name[i]] : i \in {1, 2}},
             \E s \in Sessions, i \in {1, 2} :
               mq_out' \in {mq_out, [mq_out EXCEPT ![s] = n],
                            [mq_out EXCEPT ![s] = name[i]]}
      PROVE  QueueType' /\ Len(waiting') >= Len(waiting)
  <2>1. /\ name \in [{1, 2} -> 0 .. n] /\ mq_in \in [Sessions -> 0 .. n]
        /\ mq_out \in [Sessions -> 0 .. n] /\ n \in 0 .. n
        /\ \A i \in {1, 2} : name[i] \in 0 .. n
    BY <1>0, <1>1 DEF QueueType, Grows
  <2>2. name' \in [{1, 2} -> 0 .. n]
    BY <1>1, <2>1
  <2>3. mq_in' \in [Sessions -> 0 .. n]
    <3>1. PICK s \in Sessions :
            mq_in' \in {mq_in, [mq_in EXCEPT ![s] = n]}
                        \cup {[mq_in EXCEPT ![s] = name[i]] : i \in {1, 2}}
      BY <1>1
    <3>2. PICK m \in 0 .. n : mq_in' \in {mq_in, [mq_in EXCEPT ![s] = m]}
      BY <2>1, <3>1
    <3>. QED
      BY <2>1, <3>2
  <2>4. mq_out' \in [Sessions -> 0 .. n]
    BY <1>1, <2>1
  <2>. QED
    BY <1>0, <1>1, <2>2, <2>3, <2>4 DEF QueueType, Grows
<1>2. ASSUME NEW s \in Sessions, Create1(s)
      PROVE  QueueType' /\ Len(waiting') >= Len(waiting)
  <2>1. Grows(waiting')
    BY <1>2, OneMore DEF Create1
  <2>2. PICK n \in Nat : n = Len(waiting')
    BY <2>1 DEF Grows
  <2>3. /\ name' \in {name, [name EXCEPT ![1] = n]}
        /\ mq_in' \in {mq_in, [mq_in EXCEPT ![s] = n]} /\ mq_out' = mq_out
    BY <1>2, <2>2 DEF Create1
  <2>. QED
    BY <1>1, <2>1, <2>2, <2>3
<1>3. ASSUME NEW s \in Sessions, Create2(s)
      PROVE  QueueType' /\ Len(waiting') >= Len(waiting)
  <2>1. Grows(waiting')
    BY <1>3, OneMore DEF Create2
  <2>2. PICK n \in Nat : n = Len(waiting')
    BY <2>1 DEF Grows
  <2>3. /\ name' \in {name, [name EXCEPT ![2] = n]} /\ mq_in' = mq_in
        /\ mq_out' \in {[mq_out EXCEPT ![s] = n], [mq_out EXCEPT ![s] = name[2]]}
    BY <1>3, <2>2 DEF Create2, QueueType
  <2>. QED
    BY <1>1, <2>1, <2>2, <2>3
<1>4. ASSUME NEW s \in Sessions, Join(s)
      PROVE  QueueType' /\ Len(waiting') >= Len(waiting)
  <2>1. Grows(waiting') /\ name' = name
    BY <1>4, OneMore DEF Join
  <2>2. PICK n \in Nat : n = Len(waiting')
    BY <2>1 DEF Grows
  <2>3. \/ mq_in' = mq_in /\ mq_out' = [mq_out EXCEPT ![s] = name[1]]
        \/ mq_in' = [mq_in EXCEPT ![s] = name[2]] /\ mq_out' = mq_out
    BY <1>4 DEF Join
  <2>. QED
    BY <1>1, <2>1, <2>2, <2>3
<1>5. ASSUME UNCHANGED <<waiting, name, mq_in, mq_out>>
      PROVE  QueueType' /\ Len(waiting') >= Len(waiting)
  BY <1>0, <1>5 DEF QueueType
<1>6. ASSUME NEW s \in Sessions,
             Install(s) \/ Fork(s) \/ EndOfInput(s) \/ KillReader(s) \/ CtrlC(s)
      PROVE  QueueType' /\ Len(waiting') >= Len(waiting)
  BY <1>5, <1>6 DEF Install, Fork, EndOfInput, KillReader, CtrlC, sessionVars
<1>7. ASSUME Grows(waiting'), UNCHANGED <<name, mq_in, mq_out>>
      PROVE  QueueType' /\ Len(waiting') >= Len(waiting)
  BY <1>0, <1>7 DEF QueueType, Grows
<1>8. ASSUME NEW s \in Sessions, Type(s)
      PROVE  QueueType' /\ Len(waiting') >= Len(waiting)
  <2>1. mq_out[s] \in 0 .. Len(waiting)
    BY DEF QueueType
  <2>2. \A m \in Message : Grows(Sent(mq_out[s], m))
    BY <2>1, SentGrows
  <2>. QED
    BY <1>7, <1>8, <2>2 DEF Type, sessionVars, Message
<1>9. ASSUME NEW s \in Sessions, Receive(s)
      PROVE  QueueType' /\ Len(waiting') >= Len(waiting)
  BY <1>7, <1>9, ReceiveGrows DEF Receive, sessionVars
<1>10. ASSUME NEW p \in Processes, Handler(p)
       PROVE  QueueType' /\ Len(waiting') >= Len(waiting)
  <2>1. mq_out[p[1]] \in 0 .. Len(waiting)
    BY ProcessIs DEF QueueType
  <2>2. CASE waiting' = Sent(mq_out[p[1]], "bye") /\ UNCHANGED name
    BY <1>7, <1>10, <2>1, <2>2, SentGrows DEF Handler, sessionVars
  <2>3. CASE UNCHANGED <<name, waiting>>
    BY <1>5, <1>10, <2>3 DEF Handler, sessionVars
  <2>4. CASE /\ UNCHANGED waiting
             /\ \E i \in {1, 2} : name' = [name EXCEPT ![i] = None]
    BY <1>0, <1>10, <2>4 DEF Handler, sessionVars, QueueType, None
  <2>. QED
    BY <1>10, <2>2, <2>3, <2>4 DEF Handler
<1>. QED
  BY <1>2, <1>3, <1>4, <1>6, <1>8, <1>9, <1>10 DEF ChatQueueNext
-----------------------------------------------------------------------------
(***************************************************************************)
(* Where the two processes of each session are after a step.               *)
(***************************************************************************)
LEMMA WriterGoes ==
  ASSUME PcType, NEW s \in Sessions, NEW l \in Labels, Goes(Writer(s), l)
  PROVE  /\ \A t \in Sessions : W(t)' = IF t = s THEN l ELSE W(t)
         /\ \A t \in Sessions : R(t)' = R(t)
BY GoesTo, ProcessIs DEF W, R

LEMMA ReaderGoes ==
  ASSUME PcType, NEW s \in Sessions, NEW l \in Labels, Goes(Reader(s), l)
  PROVE  /\ \A t \in Sessions : R(t)' = IF t = s THEN l ELSE R(t)
         /\ \A t \in Sessions : W(t)' = W(t)
BY GoesTo, ProcessIs DEF W, R

LEMMA BothGo ==
  ASSUME PcType, NEW s \in Sessions, NEW l, NEW m,
         pc' = [pc EXCEPT ![Writer(s)] = l, ![Reader(s)] = m]
  PROVE  /\ \A t \in Sessions : W(t)' = IF t = s THEN l ELSE W(t)
         /\ \A t \in Sessions : R(t)' = IF t = s THEN m ELSE R(t)
BY ProcessIs DEF PcType, W, R

LEMMA SignalGoes ==
  ASSUME PcType, NEW s \in Sessions, CtrlC(s)
  PROVE  /\ \A t \in Sessions :
              W(t)' = IF t = s THEN AfterSignal(Writer(s)) ELSE W(t)
         /\ \A t \in Sessions :
              R(t)' = IF t = s THEN AfterSignal(Reader(s)) ELSE R(t)
         /\ W(s) # "start" /\ UNCHANGED <<name, waiting, sessionVars, overlap>>
BY ProcessIs DEF PcType, W, R, CtrlC

LEMMA NothingGoes ==
  ASSUME pc' = pc
  PROVE  \A t \in Sessions : W(t)' = W(t) /\ R(t)' = R(t)
BY DEF W, R

(***************************************************************************)
(* Control, step by step.                                                  *)
(***************************************************************************)
LEMMA OthersControl ==
  ASSUME Control, NEW s \in Sessions, ControlOf(s)',
         \A t \in Sessions : t # s =>
           W(t)' = W(t) /\ R(t)' = R(t) /\ is_creator'[t] = is_creator[t]
             /\ mq_in'[t] = mq_in[t] /\ mq_out'[t] = mq_out[t]
  PROVE  Control'
<1>1. ASSUME NEW t \in Sessions, t # s PROVE ControlOf(t)'
  BY <1>1 DEF Control, ControlOf
<1>. QED
  BY <1>1 DEF Control

LEMMA ControlKept ==
  ASSUME QueueType, PcType, Control, ChatQueueNext
  PROVE  Control'
<1> USE DEF QueueType, PcType
<1>0. /\ "signal" \in Labels /\ "fork" \in Labels /\ "typing" \in Labels
      /\ "receiving" \in Labels /\ "kill" \in Labels /\ "bye" \in Labels
      /\ "ended" \in Labels /\ "close" \in Labels
      /\ "unlink1" \in Labels /\ "unlink2" \in Labels
  BY DEF Labels
<1>1. ASSUME NEW s \in Sessions, Create1(s) PROVE Control'
  <2>1. W(s) = "start" /\ ControlOf(s)
    BY <1>1 DEF Create1, W, Control
  <2>2. CASE name[1] = None
    <3>1. /\ \A t \in Sessions : W(t)' = IF t = s THEN "create2" ELSE W(t)
          /\ \A t \in Sessions : R(t)' = R(t)
      BY <1>1, <2>2, WriterGoes DEF Create1, Labels
    <3>2. /\ is_creator'[s] /\ mq_out' = mq_out
          /\ \A t \in Sessions : t # s =>
               is_creator'[t] = is_creator[t] /\ mq_in'[t] = mq_in[t]
      BY <1>1, <2>2 DEF Create1
    <3>3. ControlOf(s)'
      BY <2>1, <3>1, <3>2 DEF ControlOf, InHandler
    <3>. QED
      BY <3>1, <3>2, <3>3, OthersControl
  <2>3. CASE name[1] # None
    <3>1. /\ \A t \in Sessions : W(t)' = IF t = s THEN "join1" ELSE W(t)
          /\ \A t \in Sessions : R(t)' = R(t)
      BY <1>1, <2>3, WriterGoes DEF Create1, Labels
    <3>2. UNCHANGED <<is_creator, mq_in, mq_out>>
      BY <1>1, <2>3 DEF Create1
    <3>3. ControlOf(s)'
      BY <2>1, <3>1, <3>2 DEF ControlOf, InHandler
    <3>. QED
      BY <3>1, <3>2, <3>3, OthersControl
  <2>. QED
    BY <2>2, <2>3
<1>2. ASSUME NEW s \in Sessions, Create2(s) PROVE Control'
  <2>1. W(s) = "create2" /\ ControlOf(s)
    BY <1>2 DEF Create2, W, Control
  <2>2. /\ \A t \in Sessions : W(t)' = IF t = s THEN "signal" ELSE W(t)
        /\ \A t \in Sessions : R(t)' = R(t)
    BY <1>2, WriterGoes DEF Create2, Labels
  <2>3. /\ UNCHANGED <<is_creator, mq_in>>
        /\ \A t \in Sessions : t # s => mq_out'[t] = mq_out[t]
    BY <1>2 DEF Create2
  <2>4. ControlOf(s)'
    BY <2>1, <2>2, <2>3 DEF ControlOf, InHandler
  <2>. QED
    BY <2>2, <2>3, <2>4, OthersControl
<1>3. ASSUME NEW s \in Sessions, Join(s) PROVE Control'
  <2>1. ControlOf(s)
    BY DEF Control
  <2>2. CASE W(s) = "join1" /\ Goes(Writer(s), "join2") /\ UNCHANGED mq_in
    <3>1. /\ \A t \in Sessions : W(t)' = IF t = s THEN "join2" ELSE W(t)
          /\ \A t \in Sessions : R(t)' = R(t)
      BY <2>2, WriterGoes DEF Labels
    <3>2. /\ UNCHANGED is_creator
          /\ \A t \in Sessions : t # s => mq_out'[t] = mq_out[t]
      BY <1>3 DEF Join
    <3>3. ControlOf(s)'
      BY <2>1, <2>2, <3>1, <3>2 DEF ControlOf, InHandler
    <3>. QED
      BY <2>2, <3>1, <3>2, <3>3, OthersControl
  <2>3. CASE W(s) = "join2" /\ Goes(Writer(s), "signal") /\ UNCHANGED mq_out
    <3>1. /\ \A t \in Sessions : W(t)' = IF t = s THEN "signal" ELSE W(t)
          /\ \A t \in Sessions : R(t)' = R(t)
      BY <2>3, WriterGoes DEF Labels
    <3>2. /\ UNCHANGED is_creator
          /\ \A t \in Sessions : t # s => mq_in'[t] = mq_in[t]
      BY <1>3 DEF Join
    <3>3. ControlOf(s)'
      BY <2>1, <2>3, <3>1, <3>2 DEF ControlOf, InHandler
    <3>. QED
      BY <2>3, <3>1, <3>2, <3>3, OthersControl
  <2>. QED
    BY <1>3, <2>2, <2>3 DEF Join, W
<1>4. ASSUME NEW s \in Sessions, NEW w \in Labels, NEW r \in Labels,
             UNCHANGED sessionVars,
             \A t \in Sessions : W(t)' = IF t = s THEN w ELSE W(t),
             \A t \in Sessions : R(t)' = IF t = s THEN r ELSE R(t),
             r \in {"none", "receiving", "ended"} \cup InHandler,
             r = "receiving" => w \in {"typing", "kill"},
             r \in InHandler => w \in InHandler \cup {"ended"},
             w \in {"unlink1", "unlink2"} \/ r \in {"unlink1", "unlink2"} => is_creator[s],
             w \notin {"start", "create2", "join1", "join2", "none", "receiving"}
      PROVE  Control'
  <2>1. ControlOf(s)'
    BY <1>4 DEF ControlOf, sessionVars
  <2>. QED
    BY <1>4, <2>1, OthersControl DEF sessionVars
<1>5. ASSUME NEW s \in Sessions, Install(s) PROVE Control'
  <2>1. W(s) = "signal" /\ ControlOf(s) /\ R(s) \in Labels
    BY <1>5, ProcessIs DEF Install, W, R, Control
  <2>2. /\ \A t \in Sessions : W(t)' = IF t = s THEN "fork" ELSE W(t)
        /\ \A t \in Sessions : R(t)' = IF t = s THEN R(s) ELSE R(t)
    BY <1>5, WriterGoes DEF Install, Labels
  <2>. QED
    BY <1>0, <1>4, <1>5, <2>1, <2>2 DEF Install, ControlOf, InHandler
<1>6. ASSUME NEW s \in Sessions, Fork(s) PROVE Control'
  <2>1. /\ \A t \in Sessions : W(t)' = IF t = s THEN "typing" ELSE W(t)
        /\ \A t \in Sessions : R(t)' = IF t = s THEN "receiving" ELSE R(t)
    BY <1>6, BothGo DEF Fork
  <2>. QED
    BY <1>0, <1>4, <1>6, <2>1 DEF Fork, InHandler
<1>7. ASSUME NEW s \in Sessions, W(s) = "typing", UNCHANGED sessionVars,
             pc' = pc \/ Goes(Writer(s), "kill")
      PROVE  Control'
  <2>1. ControlOf(s) /\ R(s) \in Labels
    BY ProcessIs DEF R, Control
  <2>2. CASE pc' = pc
    BY <1>7, <2>2, NothingGoes DEF Control, ControlOf, sessionVars
  <2>3. CASE Goes(Writer(s), "kill")
    <3>1. /\ \A t \in Sessions : W(t)' = IF t = s THEN "kill" ELSE W(t)
          /\ \A t \in Sessions : R(t)' = IF t = s THEN R(s) ELSE R(t)
      BY <2>3, WriterGoes DEF Labels
    <3>. QED
      BY <1>0, <1>4, <1>7, <2>1, <3>1 DEF ControlOf, InHandler
  <2>. QED
    BY <1>7, <2>2, <2>3
<1>8. ASSUME NEW s \in Sessions, Type(s) \/ EndOfInput(s) PROVE Control'
  BY <1>7, <1>8 DEF Type, EndOfInput, W
<1>9. ASSUME NEW s \in Sessions, KillReader(s) PROVE Control'
  <2>1. /\ \A t \in Sessions : W(t)' = IF t = s THEN "bye" ELSE W(t)
        /\ \A t \in Sessions : R(t)' = IF t = s THEN "ended" ELSE R(t)
    BY <1>9, BothGo DEF KillReader
  <2>. QED
    BY <1>0, <1>4, <1>9, <2>1 DEF KillReader, InHandler
<1>10. ASSUME NEW s \in Sessions, Receive(s) PROVE Control'
  <2>1. ControlOf(s) /\ W(s) \in Labels /\ R(s) = "receiving"
    BY <1>10, ProcessIs DEF Receive, W, R, Control
  <2>2. CASE pc' = pc
    BY <1>10, <2>2, NothingGoes DEF Receive, Control, ControlOf, sessionVars
  <2>3. CASE Goes(Reader(s), "ended")
    <3>1. /\ \A t \in Sessions : W(t)' = IF t = s THEN W(s) ELSE W(t)
          /\ \A t \in Sessions : R(t)' = IF t = s THEN "ended" ELSE R(t)
      BY <2>3, ReaderGoes DEF Labels
    <3>. QED
      BY <1>0, <1>4, <1>10, <2>1, <3>1 DEF Receive, ControlOf, InHandler
  <2>. QED
    BY <1>10, <2>2, <2>3 DEF Receive
<1>11. ASSUME NEW s \in Sessions, CtrlC(s) PROVE Control'
  <2>0. PICK w, r : w = AfterSignal(Writer(s)) /\ r = AfterSignal(Reader(s))
    OBVIOUS
  <2>1. w \in Labels /\ r \in Labels
    <3>1. pc[Writer(s)] \in Labels /\ pc[Reader(s)] \in Labels
      BY ProcessIs DEF PcType
    <3>2. \A p \in Processes : pc[p] \in Labels => AfterSignal(p) \in Labels
      BY DEF AfterSignal, Labels
    <3>. QED
      BY <2>0, <3>1, <3>2, ProcessIs
  <2>2. /\ \A t \in Sessions : W(t)' = IF t = s THEN w ELSE W(t)
        /\ \A t \in Sessions : R(t)' = IF t = s THEN r ELSE R(t)
        /\ W(s) # "start" /\ UNCHANGED sessionVars /\ ControlOf(s)
    BY <1>11, <2>0, <2>1, SignalGoes DEF Control
  <2>3. /\ w = IF W(s) \in Opening \cup {"signal"} THEN "killed"
               ELSE IF W(s) \in {"fork", "typing", "receiving", "kill", "bye", "close"}
                 THEN "bye"
               ELSE IF W(s) \in {"unlink1", "unlink2"} THEN "unlink1" ELSE W(s)
        /\ r = IF R(s) \in Opening \cup {"signal"} THEN "killed"
               ELSE IF R(s) \in {"fork", "typing", "receiving", "kill", "bye", "close"}
                 THEN "bye"
               ELSE IF R(s) \in {"unlink1", "unlink2"} THEN "unlink1" ELSE R(s)
    BY <2>0 DEF AfterSignal, W, R, Opening
  <2>4. w \notin {"start", "create2", "join1", "join2", "none", "receiving"}
    BY <2>2, <2>3 DEF Opening, ControlOf
  <2>5. /\ r \in {"none", "receiving", "ended"} \cup InHandler /\ r # "receiving"
    BY <2>2, <2>3 DEF Opening, ControlOf, InHandler
  <2>6. r \in InHandler => w \in InHandler \cup {"ended"}
    BY <2>2, <2>3 DEF Opening, ControlOf, InHandler
  <2>7. w \in {"unlink1", "unlink2"} \/ r \in {"unlink1", "unlink2"} => is_creator[s]
    BY <2>2, <2>3 DEF Opening, ControlOf, InHandler
  <2>. QED
    BY <1>4, <2>1, <2>2, <2>4, <2>5, <2>6, <2>7
<1>12. ASSUME NEW p \in Processes, Handler(p) PROVE Control'
  <2>1. PICK s \in Sessions : p[1] = s /\ (p = Writer(s) \/ p = Reader(s))
    BY ProcessIs
  <2>2. /\ ControlOf(s) /\ UNCHANGED sessionVars
        /\ W(s) \in Labels /\ R(s) \in Labels
    BY <1>12, ProcessIs DEF Control, Handler, W, R
  <2>3. PICK l \in {"close", "unlink1", "unlink2", "ended"} :
          /\ Goes(p, l) /\ pc[p] \in InHandler
          /\ l \in {"unlink1", "unlink2"} => is_creator[s] \/ pc[p] \in {"unlink1", "unlink2"}
    BY <1>12, <2>1 DEF Handler, InHandler
  <2>4. l \in Labels
    BY <1>0
  <2>5. CASE p = Writer(s)
    <3>1. /\ \A t \in Sessions : W(t)' = IF t = s THEN l ELSE W(t)
          /\ \A t \in Sessions : R(t)' = IF t = s THEN R(s) ELSE R(t)
          /\ W(s) \in InHandler
      BY <2>3, <2>4, <2>5, WriterGoes DEF W
    <3>2. l \in {"unlink1", "unlink2"} => is_creator[s]
      BY <2>2, <2>3, <2>5 DEF ControlOf, W
    <3>3. l \in InHandler \cup {"ended"}
      BY DEF InHandler
    <3>4. R(s) # "receiving"
      BY <2>2, <3>1 DEF ControlOf, InHandler
    <3>. QED
      BY <1>4, <2>2, <2>4, <3>1, <3>2, <3>3, <3>4 DEF ControlOf
  <2>6. CASE p = Reader(s)
    <3>1. /\ \A t \in Sessions : W(t)' = IF t = s THEN W(s) ELSE W(t)
          /\ \A t \in Sessions : R(t)' = IF t = s THEN l ELSE R(t)
          /\ R(s) \in InHandler
      BY <2>3, <2>4, <2>6, ReaderGoes DEF R
    <3>2. l \in {"unlink1", "unlink2"} => is_creator[s]
      BY <2>2, <2>3, <2>6 DEF ControlOf, R
    <3>3. l \in {"none", "receiving", "ended"} \cup InHandler /\ l # "receiving"
      BY DEF InHandler
    <3>4. W(s) \in InHandler \cup {"ended"}
      BY <2>2, <3>1 DEF ControlOf
    <3>5. W(s) \notin {"start", "create2", "join1", "join2", "none", "receiving"}
      BY <3>4 DEF InHandler
    <3>. QED
      BY <1>4, <2>2, <2>4, <3>1, <3>2, <3>3, <3>4, <3>5 DEF ControlOf
  <2>. QED
    BY <2>1, <2>5, <2>6
<1>. QED
  BY <1>1, <1>2, <1>3, <1>5, <1>6, <1>8, <1>9, <1>10, <1>11, <1>12 DEF ChatQueueNext
-----------------------------------------------------------------------------
(***************************************************************************)
(* What CrossedOver excepts stays so.                                      *)
(***************************************************************************)
LEMMA StillUndisturbed ==
  ASSUME PcType, ChatQueueNext, Undisturbed'
  PROVE  Undisturbed
<1>0. /\ "signal" \in Labels /\ "fork" \in Labels /\ "typing" \in Labels
      /\ "create2" \in Labels /\ "join1" \in Labels /\ "join2" \in Labels
      /\ "kill" \in Labels /\ "ended" \in Labels /\ "close" \in Labels
      /\ "unlink1" \in Labels /\ "unlink2" \in Labels
  BY DEF Labels
<1>1. ASSUME overlap => overlap',
             \A s \in Sessions : is_creator[s] /\ W(s) = "killed" =>
               is_creator'[s] /\ W(s)' = "killed"
      PROVE  Undisturbed
  BY <1>1 DEF Undisturbed, W
<1>2. ASSUME NEW s \in Sessions, W(s) # "killed", NEW l \in Labels,
             Goes(Writer(s), l), overlap => overlap',
             \A t \in Sessions : is_creator[t] => is_creator'[t]
      PROVE  Undisturbed
  BY <1>1, <1>2, WriterGoes
<1>3. ASSUME NEW s \in Sessions, Create1(s) PROVE Undisturbed
  BY <1>0, <1>2, <1>3 DEF Create1, Opens, W, PcType
<1>4. ASSUME NEW s \in Sessions, Create2(s) \/ Join(s) PROVE Undisturbed
  BY <1>0, <1>2, <1>4 DEF Create2, Join, Opens, W
<1>5. ASSUME NEW s \in Sessions, Install(s) \/ EndOfInput(s) PROVE Undisturbed
  BY <1>0, <1>2, <1>5 DEF Install, EndOfInput, sessionVars, W
<1>6. ASSUME NEW s \in Sessions, Fork(s) \/ KillReader(s) PROVE Undisturbed
  <2>1. \A t \in Sessions : W(t) = "killed" => W(t)' = "killed"
    BY <1>6, BothGo DEF Fork, KillReader, W
  <2>. QED
    BY <1>1, <1>6, <2>1 DEF Fork, KillReader, sessionVars
<1>7. ASSUME NEW s \in Sessions, Type(s) PROVE Undisturbed
  <2>1. CASE pc' = pc
    BY <1>1, <1>7, <2>1, NothingGoes DEF Type, sessionVars
  <2>2. CASE Goes(Writer(s), "kill")
    BY <1>0, <1>2, <1>7, <2>2 DEF Type, sessionVars, W
  <2>. QED
    BY <1>7, <2>1, <2>2 DEF Type
<1>8. ASSUME NEW s \in Sessions, Receive(s) PROVE Undisturbed
  <2>1. CASE pc' = pc
    BY <1>1, <1>8, <2>1, NothingGoes DEF Receive, sessionVars
  <2>2. CASE Goes(Reader(s), "ended")
    <3>1. \A t \in Sessions : W(t)' = W(t)
      BY <1>0, <2>2, ReaderGoes
    <3>. QED
      BY <1>1, <1>8, <3>1 DEF Receive, sessionVars
  <2>. QED
    BY <1>8, <2>1, <2>2 DEF Receive
<1>9. ASSUME NEW s \in Sessions, CtrlC(s) PROVE Undisturbed
  <2>1. W(s) = "killed" => AfterSignal(Writer(s)) = "killed"
    BY DEF W, AfterSignal, Opening
  <2>. QED
    BY <1>1, <1>9, <2>1, SignalGoes DEF sessionVars
<1>10. ASSUME NEW p \in Processes, Handler(p) PROVE Undisturbed
  <2>1. PICK s \in Sessions : p = Writer(s) \/ p = Reader(s)
    BY ProcessIs
  <2>2. /\ overlap => overlap'
        /\ is_creator' = is_creator /\ pc[p] # "killed"
    <3>1. UNCHANGED overlap \/ Removes
      BY <1>10 DEF Handler
    <3>2. is_creator' = is_creator /\ pc[p] # "killed"
      BY <1>10 DEF Handler, sessionVars
    <3>. QED
      BY <3>1, <3>2 DEF Removes, PcType
  <2>3. PICK l \in Labels : Goes(p, l)
    <3>1. PICK l \in {"close", "unlink1", "unlink2", "ended"} : Goes(p, l)
      BY <1>10 DEF Handler
    <3>. QED
      BY <1>0, <3>1
  <2>4. CASE p = Writer(s)
    BY <1>2, <2>2, <2>3, <2>4 DEF W
  <2>5. CASE p = Reader(s)
    <3>1. \A t \in Sessions : W(t)' = W(t)
      BY <2>3, <2>5, ReaderGoes
    <3>. QED
      BY <1>1, <2>2, <3>1
  <2>. QED
    BY <2>1, <2>4, <2>5
<1>. QED
  BY <1>3, <1>4, <1>5, <1>6, <1>7, <1>8, <1>9, <1>10 DEF ChatQueueNext

(***************************************************************************)
(* The steps that leave the names, and what the sessions know of them, as  *)
(* they are: nobody begins to own the queues, or gives them up.            *)
(***************************************************************************)
Before1 == Owning \cup {"bye", "close", "unlink1"}
Before2 == (Owning \ {"create2"}) \cup InHandler

Quiet(s) ==
  /\ UNCHANGED <<name, is_creator, mq_in, mq_out>>
  /\ \A t \in Sessions : t # s => W(t)' = W(t) /\ R(t)' = R(t)
  /\ W(s)' \in {"join1", "join2"} => W(s)' = W(s)
  /\ is_creator[s] =>
       /\ W(s)' \in Owning => W(s) \in Owning
       /\ W(s)' = "create2" <=> W(s) = "create2"
       /\ W(s)' \in InHandler \/ R(s)' \in InHandler => Active(s) \/ Leaving(s)
       /\ W(s) \in Before1 => W(s)' \in Before1
       /\ W(s) \in Before2 => W(s)' \in Before2

LEMMA QuietKeeps ==
  ASSUME Crossing, NEW s \in Sessions, Quiet(s)
  PROVE  Crossing'
<1>1. \A t \in Sessions : Active(t)' => Active(t)
  BY DEF Quiet, Active
<1>2. \A t \in Sessions : Active(t)' \/ Leaving(t)' => Active(t) \/ Leaving(t)
  BY <1>1 DEF Quiet, Leaving
<1>3. OneCreator'
  BY <1>2 DEF Crossing, OneCreator
<1>4. NamesOf'
  <2>1. ASSUME NEW t \in Sessions, Active(t)'
        PROVE  /\ name'[1] = mq_in'[t] /\ mq_in'[t] # None
               /\ W(t)' # "create2" => name'[2] = mq_out'[t]
    BY <1>1, <2>1 DEF Crossing, NamesOf, Quiet, Active
  <2>2. name'[1] # None => \E t \in Sessions : is_creator'[t] /\ W(t)' \in Before1
    BY DEF Crossing, NamesOf, Quiet, Before1
  <2>3. name'[2] # None => \E t \in Sessions : is_creator'[t] /\ W(t)' \in Before2
    BY DEF Crossing, NamesOf, Quiet, Before2
  <2>4. \A t \in Sessions : W(t)' \in {"join1", "join2"} => name'[1] # None
    BY DEF Crossing, NamesOf, Quiet
  <2>. QED
    BY <2>1, <2>2, <2>3, <2>4 DEF NamesOf, Before1, Before2
<1>5. Pairs'
  <2>1. ASSUME NEW u \in Sessions, NEW t \in Sessions, Active(u)', ~ is_creator'[t]
        PROVE  /\ W(t)' = "join2" => mq_out'[t] = mq_in'[u]
               /\ Paired(u, t)' \/ Apart(u, t)'
    <3>1. Active(u) /\ ~ is_creator[t]
      BY <1>1, <2>1 DEF Quiet
    <3>2. W(t)' = "join2" => W(t) = "join2"
      BY DEF Quiet
    <3>. QED
      BY <3>1, <3>2 DEF Crossing, Pairs, Quiet, Paired, Apart
  <2>. QED
    BY <2>1 DEF Pairs
<1>. QED
  BY <1>3, <1>4, <1>5 DEF Crossing

LEMMA QuietStep ==
  ASSUME PcType, Control, Undisturbed', NEW s \in Sessions,
         \/ Install(s) \/ Fork(s) \/ Type(s) \/ EndOfInput(s) \/ KillReader(s)
         \/ Receive(s) \/ CtrlC(s)
         \/ Handler(Writer(s)) /\ W(s) \in {"bye", "close"}
         \/ Handler(Reader(s)) /\ R(s) \in {"bye", "close"}
  PROVE  Quiet(s)
<1>0. /\ "fork" \in Labels /\ "kill" \in Labels /\ "ended" \in Labels
      /\ "close" \in Labels /\ "unlink1" \in Labels
  BY DEF Labels
<1>1. ControlOf(s) /\ W(s) \in Labels /\ R(s) \in Labels
  BY ProcessIs DEF Control, W, R, PcType
<1>2. ASSUME NEW w, NEW r, UNCHANGED <<name, sessionVars>>,
             \A t \in Sessions : W(t)' = IF t = s THEN w ELSE W(t),
             \A t \in Sessions : R(t)' = IF t = s THEN r ELSE R(t),
             w \in {"join1", "join2"} => w = W(s),
             is_creator[s] =>
               /\ w \in Owning => W(s) \in Owning
               /\ w = "create2" <=> W(s) = "create2"
               /\ w \in InHandler \/ r \in InHandler => Active(s) \/ Leaving(s)
               /\ W(s) \in Before1 => w \in Before1
               /\ W(s) \in Before2 => w \in Before2
      PROVE  Quiet(s)
  BY <1>2 DEF Quiet, sessionVars
<1>3. CASE Install(s)
  <2>1. /\ \A t \in Sessions : W(t)' = IF t = s THEN "fork" ELSE W(t)
        /\ \A t \in Sessions : R(t)' = IF t = s THEN R(s) ELSE R(t)
        /\ W(s) = "signal" /\ UNCHANGED <<name, sessionVars>>
    BY <1>0, <1>3, WriterGoes DEF Install, W
  <2>. QED
    BY <1>2, <2>1 DEF Owning, InHandler, Before1, Before2, Leaving
<1>4. CASE Fork(s)
  <2>1. /\ \A t \in Sessions : W(t)' = IF t = s THEN "typing" ELSE W(t)
        /\ \A t \in Sessions : R(t)' = IF t = s THEN "receiving" ELSE R(t)
        /\ W(s) = "fork" /\ UNCHANGED <<name, sessionVars>>
    BY <1>4, BothGo DEF Fork, W
  <2>. QED
    BY <1>2, <2>1 DEF Owning, InHandler, Before1, Before2
<1>5. CASE pc' = pc /\ UNCHANGED <<name, sessionVars>>
  BY <1>2, <1>5, NothingGoes DEF Active, Leaving
<1>6. CASE W(s) = "typing" /\ Goes(Writer(s), "kill") /\ UNCHANGED <<name, sessionVars>>
  <2>1. /\ \A t \in Sessions : W(t)' = IF t = s THEN "kill" ELSE W(t)
        /\ \A t \in Sessions : R(t)' = IF t = s THEN R(s) ELSE R(t)
    BY <1>0, <1>6, WriterGoes
  <2>. QED
    BY <1>2, <1>6, <2>1 DEF Owning, InHandler, Before1, Before2, Leaving
<1>7. CASE Type(s) \/ EndOfInput(s)
  BY <1>5, <1>6, <1>7 DEF Type, EndOfInput, W
<1>8. CASE KillReader(s)
  <2>1. /\ \A t \in Sessions : W(t)' = IF t = s THEN "bye" ELSE W(t)
        /\ \A t \in Sessions : R(t)' = IF t = s THEN "ended" ELSE R(t)
        /\ W(s) = "kill" /\ UNCHANGED <<name, sessionVars>>
    BY <1>8, BothGo DEF KillReader, W
  <2>. QED
    BY <1>2, <2>1 DEF Owning, InHandler, Before1, Before2, Active
<1>9. CASE Receive(s)
  <2>1. UNCHANGED <<name, sessionVars>> /\ (pc' = pc \/ Goes(Reader(s), "ended"))
    BY <1>9 DEF Receive
  <2>2. CASE Goes(Reader(s), "ended")
    <3>1. /\ \A t \in Sessions : W(t)' = IF t = s THEN W(s) ELSE W(t)
          /\ \A t \in Sessions : R(t)' = IF t = s THEN "ended" ELSE R(t)
      BY <1>0, <2>2, ReaderGoes
    <3>2. "ended" \notin InHandler
      BY DEF InHandler
    <3>. QED
      BY <1>2, <2>1, <3>1, <3>2 DEF Leaving
  <2>. QED
    BY <1>5, <2>1, <2>2
<1>10. CASE CtrlC(s)
  <2>1. PICK w, r : w = AfterSignal(Writer(s)) /\ r = AfterSignal(Reader(s))
    OBVIOUS
  <2>2. /\ \A t \in Sessions : W(t)' = IF t = s THEN w ELSE W(t)
        /\ \A t \in Sessions : R(t)' = IF t = s THEN r ELSE R(t)
        /\ W(s) # "start" /\ UNCHANGED <<name, sessionVars>>
    BY <1>10, <2>1, SignalGoes
  <2>3. is_creator[s] => w # "killed"
    BY <2>2 DEF Undisturbed, W, sessionVars
  <2>4. /\ w = IF W(s) \in Opening \cup {"signal"} THEN "killed"
               ELSE IF W(s) \in {"fork", "typing", "receiving", "kill", "bye", "close"}
                 THEN "bye"
               ELSE IF W(s) \in {"unlink1", "unlink2"} THEN "unlink1" ELSE W(s)
        /\ r = IF R(s) \in Opening \cup {"signal"} THEN "killed"
               ELSE IF R(s) \in {"fork", "typing", "receiving", "kill", "bye", "close"}
                 THEN "bye"
               ELSE IF R(s) \in {"unlink1", "unlink2"} THEN "unlink1" ELSE R(s)
    BY <2>1 DEF AfterSignal, W, R, Opening
  <2>5. w \notin {"join1", "join2"}
    BY <2>4 DEF Opening
  <2>6. ASSUME is_creator[s]
        PROVE  /\ w \in Owning => W(s) \in Owning
               /\ w = "create2" <=> W(s) = "create2"
               /\ W(s) \in Before1 => w \in Before1
               /\ W(s) \in Before2 => w \in Before2
    BY <2>3, <2>4, <2>6 DEF Opening, Owning, InHandler, Before1, Before2
  <2>7. ASSUME is_creator[s], w \in InHandler \/ r \in InHandler
        PROVE  Active(s) \/ Leaving(s)
    BY <1>1, <2>3, <2>4, <2>7
       DEF Opening, Owning, InHandler, Active, Leaving, ControlOf
  <2>. QED
    BY <1>2, <2>2, <2>5, <2>6, <2>7
<1>11. CASE Handler(Writer(s)) /\ W(s) \in {"bye", "close"}
  <2>1. /\ UNCHANGED <<name, sessionVars>>
        /\ \/ W(s) = "bye" /\ Goes(Writer(s), "close")
           \/ W(s) = "close" /\ ~ is_creator[s] /\ Goes(Writer(s), "ended")
           \/ W(s) = "close" /\ is_creator[s] /\ Goes(Writer(s), "unlink1")
    BY <1>11, ProcessIs DEF Handler, W
  <2>2. PICK w \in Labels :
          /\ Goes(Writer(s), w)
          /\ is_creator[s] => w = IF W(s) = "bye" THEN "close" ELSE "unlink1"
          /\ w \in {"close", "unlink1", "ended"}
    BY <1>0, <2>1
  <2>3. /\ \A t \in Sessions : W(t)' = IF t = s THEN w ELSE W(t)
        /\ \A t \in Sessions : R(t)' = IF t = s THEN R(s) ELSE R(t)
    BY <2>2, WriterGoes
  <2>. QED
    BY <1>2, <1>11, <2>1, <2>2, <2>3 DEF Owning, InHandler, Before1, Before2, Leaving
<1>12. CASE Handler(Reader(s)) /\ R(s) \in {"bye", "close"}
  <2>1. /\ UNCHANGED <<name, sessionVars>>
        /\ \E l \in {"close", "unlink1", "ended"} : Goes(Reader(s), l)
    BY <1>12, ProcessIs DEF Handler, R
  <2>2. PICK r \in Labels : Goes(Reader(s), r)
    BY <1>0, <2>1
  <2>3. /\ \A t \in Sessions : W(t)' = IF t = s THEN W(s) ELSE W(t)
        /\ \A t \in Sessions : R(t)' = IF t = s THEN r ELSE R(t)
    BY <2>2, ReaderGoes
  <2>. QED
    BY <1>2, <1>12, <2>1, <2>3 DEF InHandler, Leaving
<1>. QED
  BY <1>3, <1>4, <1>7, <1>8, <1>9, <1>10, <1>11, <1>12

(***************************************************************************)
(* The steps that open and remove queues.  While queues are opened no      *)
(* creator leaves, and while one leaves nobody opens; a name that points   *)
(* to a queue has a creator that owns it or is about to remove it.         *)
(***************************************************************************)
LEMMA NobodyLeaves ==
  ASSUME PcType, Undisturbed', Opens
  PROVE  \A t \in Sessions : ~ Leaving(t)
BY ProcessIs DEF PcType, Undisturbed, Opens, Removing, Leaving, W, R

LEMMA NobodyOpens ==
  ASSUME PcType, Undisturbed', Removes
  PROVE  \A t \in Sessions : W(t) \notin Opening
BY DEF PcType, Undisturbed, Removes, W

LEMMA OwnerIs ==
  ASSUME NEW s \in Sessions, is_creator[s], W(s) \in Before1 \cup Before2
  PROVE  Active(s) \/ Leaving(s)
BY DEF Before1, Before2, Owning, InHandler, Active, Leaving

LEMMA Create1Keeps ==
  ASSUME QueueType, PcType, Control, Crossing, Undisturbed',
         NEW s \in Sessions, Create1(s)
  PROVE  Crossing'
<1>1. /\ W(s) = "start" /\ ControlOf(s) /\ ~ is_creator[s]
      /\ mq_in[s] = None /\ mq_out[s] = None /\ mq_out' = mq_out
  BY DEF Create1, Control, ControlOf, W
<1>2. \A t \in Sessions : ~ Leaving(t)
  BY NobodyLeaves DEF Create1
<1>3. CASE name[1] # None
  <2>1. /\ \A t \in Sessions : W(t)' = IF t = s THEN "join1" ELSE W(t)
        /\ \A t \in Sessions : R(t)' = R(t)
        /\ UNCHANGED <<name, is_creator, mq_in, mq_out>>
    BY <1>3, WriterGoes DEF Create1, Labels
  <2>2. \A t \in Sessions : /\ Active(t)' <=> Active(t)
                            /\ Leaving(t)' <=> Leaving(t)
    BY <1>1, <2>1 DEF Active, Leaving
  <2>3. OneCreator'
    BY <2>2 DEF Crossing, OneCreator
  <2>4. NamesOf'
    <3>1. \A t \in Sessions : is_creator'[t] = is_creator[t] /\ (is_creator[t] => t # s)
      BY <1>1, <2>1
    <3>2. \A t \in Sessions : is_creator[t] => W(t)' = W(t)
      BY <2>1, <3>1
    <3>3. ASSUME NEW t \in Sessions, Active(t)'
          PROVE  /\ name'[1] = mq_in'[t] /\ mq_in'[t] # None
                 /\ W(t)' # "create2" => name'[2] = mq_out'[t]
      <4>1. Active(t) /\ W(t)' = W(t)
        BY <2>2, <3>1, <3>2, <3>3 DEF Active
      <4>. QED
        BY <2>1, <4>1 DEF Crossing, NamesOf
    <3>4. name'[1] # None => \E t \in Sessions : is_creator'[t] /\ W(t)' \in Before1
      BY <2>1, <3>1, <3>2 DEF Crossing, NamesOf, Before1
    <3>5. name'[2] # None => \E t \in Sessions : is_creator'[t] /\ W(t)' \in Before2
      BY <2>1, <3>1, <3>2 DEF Crossing, NamesOf, Before2
    <3>. QED
      BY <1>3, <2>1, <3>3, <3>4, <3>5 DEF NamesOf, Before1, Before2
  <2>5. Pairs'
    BY <2>1, <2>2 DEF Crossing, Pairs, Paired, Apart
  <2>. QED
    BY <2>3, <2>4, <2>5 DEF Crossing
<1>4. CASE name[1] = None
  <2>1. PICK n \in Nat : n = Len(waiting') /\ n = Len(waiting) + 1
    BY <1>4, OneMore DEF Create1, QueueType
  <2>2. /\ \A t \in Sessions : W(t)' = IF t = s THEN "create2" ELSE W(t)
        /\ \A t \in Sessions : R(t)' = R(t)
    BY <1>4, WriterGoes DEF Create1, Labels
  <2>3. /\ name' = [name EXCEPT ![1] = n] /\ mq_in' = [mq_in EXCEPT ![s] = n]
        /\ is_creator' = [is_creator EXCEPT ![s] = TRUE]
    BY <1>4, <2>1 DEF Create1
  <2>4. /\ name'[1] = n /\ name'[2] = name[2] /\ n # None
        /\ mq_in'[s] = n /\ is_creator'[s]
        /\ \A t \in Sessions : t # s =>
             mq_in'[t] = mq_in[t] /\ is_creator'[t] = is_creator[t]
    BY <2>1, <2>3 DEF QueueType, PcType, None
  <2>5. \A t \in Sessions : ~ Active(t)
    BY <1>4 DEF Crossing, NamesOf
  <2>6. \A t \in Sessions : t # s => ~ Active(t)' /\ ~ Leaving(t)'
    BY <1>2, <2>2, <2>4, <2>5 DEF Active, Leaving
  <2>7. OneCreator'
    BY <2>6 DEF OneCreator
  <2>8. NamesOf'
    <3>1. name[2] = None
      BY <1>2, <2>5, OwnerIs DEF Crossing, NamesOf, Before2
    <3>2. W(s)' = "create2" /\ "create2" \in Owning
      BY <2>2 DEF Owning
    <3>. QED
      BY <2>4, <2>6, <3>1, <3>2 DEF NamesOf
  <2>9. Pairs'
    <3>1. ASSUME NEW t \in Sessions, t # s
          PROVE  W(t)' # "join2" /\ Apart(s, t)'
      <4>1. W(t)' # "join2"
        BY <1>4, <2>2, <3>1 DEF Crossing, NamesOf
      <4>2. mq_in'[t] # n /\ mq_out'[t] # n
        BY <1>1, <2>1, <2>4, <3>1 DEF QueueType
      <4>. QED
        BY <1>1, <2>4, <4>1, <4>2 DEF Apart
    <3>. QED
      BY <2>4, <2>6, <3>1 DEF Pairs
  <2>. QED
    BY <2>7, <2>8, <2>9 DEF Crossing
<1>. QED
  BY <1>3, <1>4

LEMMA Create2Keeps ==
  ASSUME QueueType, PcType, Control, Crossing, Undisturbed',
         NEW s \in Sessions, Create2(s)
  PROVE  Crossing'
<1>1. /\ W(s) = "create2" /\ is_creator[s] /\ Active(s) /\ mq_out[s] = None
      /\ UNCHANGED <<mq_in, is_creator>>
  BY DEF Create2, Control, ControlOf, W, Active, Owning
<1>2. \A t \in Sessions : ~ Leaving(t) /\ (Active(t) => t = s)
  BY <1>1, NobodyLeaves DEF Create2, Crossing, OneCreator
<1>3. name[2] = None
  <2>1. "create2" \notin Before2
    BY DEF Before2, InHandler
  <2>. QED
    BY <1>1, <1>2, <2>1, OwnerIs DEF Crossing, NamesOf, Before2
<1>4. PICK n \in Nat : n = Len(waiting') /\ n = Len(waiting) + 1
  BY <1>3, OneMore DEF Create2, QueueType
<1>5. /\ \A t \in Sessions : W(t)' = IF t = s THEN "signal" ELSE W(t)
      /\ \A t \in Sessions : R(t)' = R(t)
  BY WriterGoes DEF Create2, Labels
<1>6. name' = [name EXCEPT ![2] = n] /\ mq_out' = [mq_out EXCEPT ![s] = name'[2]]
  BY <1>3, <1>4 DEF Create2
<1>7. /\ name'[1] = name[1] /\ name'[2] = n /\ mq_out'[s] = n
      /\ \A t \in Sessions : t # s => mq_out'[t] = mq_out[t]
  BY <1>6 DEF QueueType
<1>8. \A t \in Sessions : t # s => ~ Active(t)' /\ ~ Leaving(t)'
  BY <1>1, <1>2, <1>5 DEF Active, Leaving
<1>9. OneCreator'
  BY <1>8 DEF OneCreator
<1>10. NamesOf'
  <2>1. name[1] = mq_in[s] /\ mq_in[s] # None
    BY <1>1 DEF Crossing, NamesOf
  <2>2. W(s)' = "signal" /\ "signal" \in Owning
    BY <1>5 DEF Owning
  <2>. QED
    BY <1>1, <1>7, <1>8, <2>1, <2>2 DEF NamesOf
<1>11. Pairs'
  <2>1. ASSUME NEW t \in Sessions, ~ is_creator[t]
        PROVE  /\ W(t)' = "join2" => mq_out'[t] = mq_in'[s]
               /\ Paired(s, t)' \/ Apart(s, t)'
    <3>1. t # s /\ mq_out'[t] = mq_out[t] /\ mq_in'[t] = mq_in[t] /\ mq_in'[s] = mq_in[s]
      BY <1>1, <1>7, <2>1
    <3>2. /\ W(t)' = "join2" => mq_out[t] = mq_in[s]
          /\ Paired(s, t) \/ Apart(s, t)
      BY <1>1, <1>5, <2>1, <3>1 DEF Crossing, Pairs
    <3>3. mq_in[t] # n /\ mq_out[t] # n
      BY <1>4 DEF QueueType
    <3>4. CASE Paired(s, t)
      BY <1>1, <3>1, <3>2, <3>4 DEF Paired
    <3>5. CASE Apart(s, t)
      BY <1>7, <3>1, <3>2, <3>3, <3>5 DEF Apart
    <3>. QED
      BY <3>2, <3>4, <3>5
  <2>. QED
    BY <1>1, <1>8, <2>1 DEF Pairs
<1>. QED
  BY <1>9, <1>10, <1>11 DEF Crossing

LEMMA JoinKeeps ==
  ASSUME QueueType, PcType, Control, Crossing, Undisturbed',
         NEW s \in Sessions, Join(s)
  PROVE  Crossing'
<1>1. /\ ControlOf(s) /\ UNCHANGED <<name, is_creator>>
      /\ W(s) \in {"join1", "join2"} /\ ~ is_creator[s]
  BY DEF Join, Control, ControlOf, W
<1>2. PICK l \in {"join2", "signal"} :
        /\ Goes(Writer(s), l)
        /\ \/ /\ W(s) = "join1" /\ l = "join2" /\ mq_in' = mq_in
              /\ mq_out' = [mq_out EXCEPT ![s] = name[1]]
           \/ /\ W(s) = "join2" /\ l = "signal" /\ mq_out' = mq_out
              /\ mq_in' = [mq_in EXCEPT ![s] = name[2]]
  BY DEF Join, W
<1>3. /\ \A t \in Sessions : W(t)' = IF t = s THEN l ELSE W(t)
      /\ \A t \in Sessions : R(t)' = R(t)
  BY <1>2, WriterGoes DEF Labels
<1>4. /\ \A t \in Sessions : is_creator'[t] = is_creator[t] /\ (is_creator[t] => t # s)
      /\ \A t \in Sessions : is_creator[t] => W(t)' = W(t)
      /\ \A t \in Sessions : t # s => mq_in'[t] = mq_in[t] /\ mq_out'[t] = mq_out[t]
  BY <1>1, <1>2, <1>3 DEF QueueType
<1>5. \A t \in Sessions : /\ Active(t)' <=> Active(t)
                          /\ Leaving(t)' <=> Leaving(t)
  BY <1>3, <1>4 DEF Active, Leaving
<1>6. OneCreator'
  BY <1>5 DEF Crossing, OneCreator
<1>7. NamesOf'
  <2>1. ASSUME NEW t \in Sessions, Active(t)'
        PROVE  /\ name'[1] = mq_in'[t] /\ mq_in'[t] # None
               /\ W(t)' # "create2" => name'[2] = mq_out'[t]
    <3>1. Active(t) /\ W(t)' = W(t) /\ t # s
      BY <1>4, <1>5, <2>1 DEF Active
    <3>. QED
      BY <1>1, <1>4, <3>1 DEF Crossing, NamesOf
  <2>2. name'[1] # None => \E t \in Sessions : is_creator'[t] /\ W(t)' \in Before1
    BY <1>1, <1>4 DEF Crossing, NamesOf, Before1
  <2>3. name'[2] # None => \E t \in Sessions : is_creator'[t] /\ W(t)' \in Before2
    BY <1>1, <1>4 DEF Crossing, NamesOf, Before2
  <2>4. name[1] # None
    BY <1>1 DEF Crossing, NamesOf
  <2>. QED
    BY <1>1, <2>1, <2>2, <2>3, <2>4 DEF NamesOf, Before1, Before2
<1>8. Pairs'
  <2>1. ASSUME NEW u \in Sessions, NEW t \in Sessions, Active(u)', ~ is_creator'[t]
        PROVE  /\ W(t)' = "join2" => mq_out'[t] = mq_in'[u]
               /\ Paired(u, t)' \/ Apart(u, t)'
    <3>1. Active(u) /\ u # s /\ ~ is_creator[t] /\ name[1] = mq_in[u]
      BY <1>4, <1>5, <2>1 DEF Active, Crossing, NamesOf
    <3>2. /\ W(t) = "join2" => mq_out[t] = mq_in[u]
          /\ Paired(u, t) \/ Apart(u, t)
      BY <3>1 DEF Crossing, Pairs
    <3>3. mq_in'[u] = mq_in[u] /\ mq_out'[u] = mq_out[u]
      BY <1>4, <3>1
    <3>4. CASE t # s
      BY <1>3, <1>4, <3>2, <3>3, <3>4 DEF Paired, Apart
    <3>5. CASE t = s /\ W(s) = "join1"
      <4>1. mq_out'[s] = name[1] /\ mq_in'[s] = None
        BY <1>1, <1>2, <3>5 DEF ControlOf, QueueType
      <4>. QED
        BY <3>1, <3>3, <3>5, <4>1 DEF Paired
    <3>6. CASE t = s /\ W(s) = "join2"
      <4>1. mq_out'[s] = mq_in[u] /\ mq_in'[s] = name[2]
        BY <1>2, <3>2, <3>6 DEF QueueType
      <4>2. name[2] \in {mq_out[u], None}
        <5>1. CASE W(u) # "create2"
          BY <3>1, <5>1 DEF Crossing, NamesOf
        <5>2. CASE W(u) = "create2" /\ name[2] # None
          <6>1. PICK v \in Sessions : is_creator[v] /\ W(v) \in Before2
            BY <5>2 DEF Crossing, NamesOf, Before2
          <6>2. v = u
            BY <3>1, <6>1, OwnerIs DEF Crossing, OneCreator
          <6>. QED
            BY <5>2, <6>1, <6>2 DEF Before2, InHandler
        <5>. QED
          BY <5>1, <5>2
      <4>. QED
        BY <3>3, <3>6, <4>1, <4>2 DEF Paired
    <3>. QED
      BY <1>1, <3>4, <3>5, <3>6
  <2>. QED
    BY <2>1 DEF Pairs
<1>. QED
  BY <1>6, <1>7, <1>8 DEF Crossing

\* A process of s removes one of the two names.
LEMMA UnlinkKeeps ==
  ASSUME QueueType, PcType, Control, Crossing, Undisturbed',
         NEW s \in Sessions, NEW p \in {Writer(s), Reader(s)},
         Handler(p), pc[p] \in {"unlink1", "unlink2"}
  PROVE  Crossing'
<1>1. PICK i \in {1, 2}, l \in {"unlink2", "ended"} :
        /\ i = (IF pc[p] = "unlink1" THEN 1 ELSE 2)
        /\ l = (IF pc[p] = "unlink1" THEN "unlink2" ELSE "ended")
        /\ Goes(p, l) /\ Removes /\ UNCHANGED sessionVars
        /\ name' = [name EXCEPT ![i] = None]
  BY DEF Handler
<1>2. name'[i] = None /\ \A j \in {1, 2} : j # i => name'[j] = name[j]
  BY <1>1 DEF QueueType
<1>3. /\ ControlOf(s) /\ is_creator[s] /\ Leaving(s) /\ ~ Active(s)
      /\ UNCHANGED <<is_creator, mq_in, mq_out>>
  BY <1>1 DEF Control, ControlOf, W, R, Leaving, Active, InHandler, Owning, sessionVars
<1>4. /\ \A t \in Sessions : ~ Active(t) /\ (Leaving(t) => t = s)
      /\ \A t \in Sessions : W(t) \notin Opening
  BY <1>1, <1>3, NobodyOpens DEF Crossing, OneCreator
<1>5. /\ \A t \in Sessions : t # s => W(t)' = W(t) /\ R(t)' = R(t)
      /\ \/ p = Writer(s) /\ W(s) = pc[p] /\ W(s)' = l
         \/ p = Reader(s) /\ W(s)' = W(s)
  BY <1>1, WriterGoes, ReaderGoes DEF Labels, W
<1>6. W(s) \in InHandler \cup {"ended"} /\ W(s)' \in InHandler \cup {"ended"}
  BY <1>3, <1>5 DEF ControlOf, InHandler, W, R
<1>7. /\ \A t \in Sessions : ~ Active(t)' /\ (Leaving(t)' => t = s)
      /\ \A t \in Sessions : W(t)' \notin Opening
  BY <1>3, <1>4, <1>5, <1>6 DEF Active, Leaving, InHandler, Owning, Opening
<1>8. OneCreator' /\ Pairs'
  BY <1>7 DEF OneCreator, Pairs
<1>9. ASSUME name'[1] # None
      PROVE  \E t \in Sessions : is_creator'[t] /\ W(t)' \in Before1
  <2>1. name[1] # None /\ i = 2 /\ pc[p] = "unlink2"
    BY <1>1, <1>2, <1>9
  <2>2. PICK t \in Sessions : is_creator[t] /\ W(t) \in Before1
    BY <2>1 DEF Crossing, NamesOf, Before1
  <2>3. t = s
    BY <1>4, <2>2, OwnerIs
  <2>4. W(s)' = W(s)
    BY <1>5, <2>1, <2>2, <2>3 DEF Before1, Owning
  <2>. QED
    BY <1>3, <2>2, <2>3, <2>4
<1>10. ASSUME name'[2] # None
       PROVE  \E t \in Sessions : is_creator'[t] /\ W(t)' \in Before2
  <2>1. name[2] # None /\ i = 1 /\ l = "unlink2"
    BY <1>1, <1>2, <1>10
  <2>2. PICK t \in Sessions : is_creator[t] /\ W(t) \in Before2
    BY <2>1 DEF Crossing, NamesOf, Before2
  <2>3. t = s
    BY <1>4, <2>2, OwnerIs
  <2>4. W(s)' \in Before2
    BY <1>5, <2>1, <2>2, <2>3 DEF Before2, InHandler
  <2>. QED
    BY <1>3, <2>2, <2>3, <2>4
<1>11. NamesOf'
  BY <1>7, <1>9, <1>10 DEF NamesOf, Before1, Before2, Opening
<1>. QED
  BY <1>8, <1>11 DEF Crossing

(***************************************************************************)
(* The invariant.                                                          *)
(***************************************************************************)
LEMMA QueuesInit ==
  ASSUME ChatQueueInit
  PROVE  IQueues
<1>1. /\ \A s \in Sessions : W(s) = "start" /\ R(s) = "none"
      /\ pc \in [Processes -> Labels]
  BY ProcessIs DEF ChatQueueInit, W, R, Writer, Reader, Processes, Labels
<1>2. PcType
  BY <1>1 DEF ChatQueueInit, PcType
<1>3. QueueType
  <2>1. waiting \in Seq(KernelQueue) /\ Len(waiting) = 0
    BY DEF ChatQueueInit
  <2>2. name \in [{1, 2} -> 0 .. 0]
    BY DEF ChatQueueInit, None
  <2>3. mq_in \in [Sessions -> 0 .. 0] /\ mq_out \in [Sessions -> 0 .. 0]
    BY DEF ChatQueueInit, None
  <2>. QED
    BY <2>1, <2>2, <2>3 DEF QueueType
<1>4. Control
  BY <1>1 DEF ChatQueueInit, Control, ControlOf, InHandler
<1>5. Crossing
  BY <1>1 DEF ChatQueueInit, Crossing, OneCreator, NamesOf, Pairs, Active, Leaving
<1>. QED
  BY <1>2, <1>3, <1>4, <1>5 DEF IQueues

LEMMA QueuesKept ==
  ASSUME IQueues, [ChatQueueNext]_chatQueueVars
  PROVE  IQueues'
<1>1. CASE UNCHANGED chatQueueVars
  BY <1>1 DEF IQueues, chatQueueVars, sessionVars, QueueType, PcType, Control,
     ControlOf, W, R, Undisturbed, Crossing, OneCreator, NamesOf, Pairs, Active,
     Leaving, Paired, Apart
<1>2. CASE ChatQueueNext
  <2>1. QueueType /\ PcType /\ Control
    BY DEF IQueues
  <2>2. ASSUME Undisturbed' PROVE Crossing'
    <3>1. Crossing
      BY <1>2, <2>1, <2>2, StillUndisturbed DEF IQueues
    <3>2. ASSUME NEW s \in Sessions, Create1(s) \/ Create2(s) \/ Join(s) PROVE Crossing'
      BY <2>1, <2>2, <3>1, <3>2, Create1Keeps, Create2Keeps, JoinKeeps
    <3>3. ASSUME NEW s \in Sessions, NEW p \in {Writer(s), Reader(s)}, Handler(p)
          PROVE  Crossing'
      <4>1. CASE pc[p] \in {"unlink1", "unlink2"}
        BY <2>1, <2>2, <3>1, <3>3, <4>1, UnlinkKeeps
      <4>2. CASE pc[p] \in {"bye", "close"}
        BY <2>1, <2>2, <3>1, <3>3, <4>2, QuietStep, QuietKeeps DEF W, R
      <4>. QED
        BY <3>3, <4>1, <4>2 DEF Handler
    <3>4. ASSUME NEW s \in Sessions,
                 \/ Install(s) \/ Fork(s) \/ Type(s) \/ EndOfInput(s)
                 \/ KillReader(s) \/ Receive(s) \/ CtrlC(s)
          PROVE  Crossing'
      BY <2>1, <2>2, <3>1, <3>4, QuietStep, QuietKeeps
    <3>5. ASSUME NEW p \in Processes, Handler(p) PROVE Crossing'
      <4>1. PICK s \in Sessions : p \in {Writer(s), Reader(s)}
        BY ProcessIs
      <4>. QED
        BY <3>3, <3>5, <4>1
    <3>. QED
      BY <1>2, <3>2, <3>4, <3>5 DEF ChatQueueNext
  <2>. QED
    BY <1>2, <2>1, <2>2, QueueTypes, PcTypes, ControlKept DEF IQueues
<1>. QED
  BY <1>1, <1>2

LEMMA QueuesCross ==
  ASSUME IQueues
  PROVE  CrossedOver
<1>1. SUFFICES ASSUME Crossing PROVE CrossedOver
  BY DEF IQueues, Undisturbed, CrossedOver
<1>2. ASSUME NEW s \in Sessions, NEW t \in Sessions, s # t, Talking(s), Talking(t),
             is_creator[s], Used(s) \cap Used(t) # {}
      PROVE  ~ is_creator[t] /\ mq_out[t] = mq_in[s] /\ mq_in[t] \in {mq_out[s], None}
  <2>1. Active(s) /\ (is_creator[t] => Active(t))
    BY <1>2 DEF Talking, Active, W, Owning
  <2>2. ~ is_creator[t]
    BY <1>1, <1>2, <2>1 DEF Crossing, OneCreator
  <2>3. ~ Apart(s, t)
    BY <1>2 DEF Used, Apart
  <2>. QED
    BY <1>1, <2>1, <2>2, <2>3 DEF Crossing, Pairs, Paired
<1>3. ASSUME \A p \in Processes : pc[p] \in {"none", "start", "ended", "killed"}
      PROVE  name = <<None, None>>
  <2>1. \A s \in Sessions : W(s) \notin Before1 \cup Before2
    BY <1>3, ProcessIs DEF W, Before1, Before2, Owning, InHandler
  <2>2. name[1] = None /\ name[2] = None
    BY <1>1, <2>1 DEF Crossing, NamesOf, Before1, Before2
  <2>. QED
    BY <2>2 DEF IQueues, QueueType
<1>. QED
  BY <1>2, <1>3 DEF CrossedOver

(***************************************************************************)
(* However the mq_open() calls of the sessions fall together, the one that *)
(* joins sends into the queue the creator receives from and receives from  *)
(* the one the creator sends into, and the last to end leaves no name.     *)
(***************************************************************************)
THEOREM QueuesAreCrossed == ChatQueueSpec => []CrossedOver
<1>1. ChatQueueSpec => []IQueues
  BY QueuesInit, QueuesKept, PTL DEF ChatQueueSpec
<1>2. IQueues => CrossedOver
  BY QueuesCross
<1>. QED
  BY <1>1, <1>2, PTL
-----------------------------------------------------------------------------
(***************************************************************************)
(* The copy of files: the units that are in the stream or about to be      *)
(* written are a stretch of one fixed script.  A place in the script is a  *)
(* file and a portion of it: Line is its header, 0 the newline after it,   *)
(* and after the last file come END and its newline.                       *)
(***************************************************************************)
Line == -1

Sizes == [Files -> Nat \cup {Absent}]

IsNextFile(sz, f, g) ==
  /\ g \in f .. FileCount + 1
  /\ g # FileCount + 1 => sz[g] # Absent
  /\ \A h \in f .. g - 1 : sz[h] = Absent

\* The first file from f on that can be opened, or the end.
NextFile(sz, f) == CHOOSE g \in Nat : IsNextFile(sz, f, g)

Place == (1 .. FileCount + 1) \X {i \in Int : i >= Line}

After(sz, n) ==
  IF n[1] \in Files /\ n[2] >= sz[n[1]] THEN <<NextFile(sz, n[1] + 1), Line>>
  ELSE <<n[1], n[2] + 1>>

DataOf(f, k) == <<"data", f, k>>

Emits(sz, n) ==
  IF n[2] = Line
    THEN IF n[1] \in Files THEN <<"header", n[1], sz[n[1]]>> ELSE <<"END">>
  ELSE IF n[2] = 0 THEN NewLine
  ELSE DataOf(n[1], n[2])

Unit ==
  {<<"READY">>, NewLine, <<"END">>}
    \cup ({"header"} \X Files \X Nat) \cup ({"data"} \X Files \X Nat)

\* The units q are what the script has from place n up to place e.
Stretch(sz, n, q, e) ==
  \E p \in Seq(Place) :
    /\ Len(p) = Len(q) + 1 /\ p[1] = n /\ p[Len(p)] = e
    /\ \A k \in 1 .. Len(q) : q[k] = Emits(sz, p[k]) /\ p[k + 1] = After(sz, p[k])
-----------------------------------------------------------------------------
LEMMA NextFileIs ==
  ASSUME NEW sz \in Sizes, NEW f \in 1 .. FileCount + 1
  PROVE  NextFile(sz, f) \in Nat /\ IsNextFile(sz, f, NextFile(sz, f))
<1> USE CopyAssumption
<1> DEFINE S == {g \in Nat : g >= f /\ (g \in Files => sz[g] # Absent)}
<1>1. FileCount + 1 \in S /\ S \subseteq Nat
  BY DEF Files
<1>2. PICK g \in S : \A h \in S : g <= h
  BY <1>1, LeastNumber
<1>3. \A h \in f .. g - 1 : h \in Files /\ h \notin S
  BY <1>1, <1>2 DEF Files
<1>4. IsNextFile(sz, f, g) /\ g \in Nat
  BY <1>1, <1>2, <1>3 DEF IsNextFile, Files
<1>. QED
  BY <1>4 DEF NextFile

LEMMA NextFileOnly ==
  ASSUME NEW sz \in Sizes, NEW f \in 1 .. FileCount + 1,
         NEW g, IsNextFile(sz, f, g)
  PROVE  NextFile(sz, f) = g
<1> USE CopyAssumption
<1>1. PICK h \in Nat : h = NextFile(sz, f) /\ IsNextFile(sz, f, h)
  BY NextFileIs
<1>2. ~ (g < h) /\ ~ (h < g)
  BY <1>1 DEF IsNextFile
<1>. QED
  BY <1>1, <1>2 DEF IsNextFile

LEMMA NextFileFrom ==
  ASSUME NEW sz \in Sizes
  PROVE  /\ NextFile(sz, FileCount + 1) = FileCount + 1
         /\ \A f \in Files :
              NextFile(sz, f) = IF sz[f] = Absent THEN NextFile(sz, f + 1) ELSE f
<1> USE CopyAssumption
<1>1. NextFile(sz, FileCount + 1) = FileCount + 1
  <2>1. IsNextFile(sz, FileCount + 1, FileCount + 1)
    BY DEF IsNextFile
  <2>. QED
    BY <2>1, NextFileOnly
<1>2. ASSUME NEW f \in Files, sz[f] # Absent PROVE NextFile(sz, f) = f
  <2>1. IsNextFile(sz, f, f) /\ f \in 1 .. FileCount + 1
    BY <1>2 DEF IsNextFile, Files
  <2>. QED
    BY <2>1, NextFileOnly
<1>3. ASSUME NEW f \in Files, sz[f] = Absent
      PROVE  NextFile(sz, f) = NextFile(sz, f + 1)
  <2>1. f \in 1 .. FileCount + 1 /\ f + 1 \in 1 .. FileCount + 1
    BY DEF Files
  <2>2. PICK g \in Nat : g = NextFile(sz, f + 1) /\ IsNextFile(sz, f + 1, g)
    BY <2>1, NextFileIs
  <2>3. IsNextFile(sz, f, g)
    BY <1>3, <2>1, <2>2 DEF IsNextFile
  <2>. QED
    BY <2>1, <2>2, <2>3, NextFileOnly
<1>. QED
  BY <1>1, <1>2, <1>3

LEMMA AfterPlace ==
  ASSUME NEW sz \in Sizes, NEW n \in Place
  PROVE  After(sz, n) \in Place
<1> USE CopyAssumption
<1>1. CASE n[1] \in Files /\ n[2] >= sz[n[1]]
  <2>1. n[1] + 1 \in 1 .. FileCount + 1
    BY <1>1 DEF Files
  <2>2. NextFile(sz, n[1] + 1) \in 1 .. FileCount + 1
    BY <2>1, NextFileIs DEF IsNextFile
  <2>. QED
    BY <1>1, <2>2 DEF After, Place, Line
<1>2. CASE ~ (n[1] \in Files /\ n[2] >= sz[n[1]])
  BY <1>2 DEF After, Place, Line
<1>. QED
  BY <1>1, <1>2

LEMMA StretchIs ==
  ASSUME NEW sz, NEW n, NEW q, NEW e, NEW p \in Seq(Place),
         Len(p) = Len(q) + 1, p[1] = n, p[Len(q) + 1] = e,
         \A k \in 1 .. Len(q) : q[k] = Emits(sz, p[k]) /\ p[k + 1] = After(sz, p[k])
  PROVE  Stretch(sz, n, q, e)
BY DEF Stretch

\* The empty stretch.
LEMMA StretchEmpty ==
  ASSUME NEW sz, NEW n \in Place
  PROVE  Stretch(sz, n, <<>>, n)
<1>1. PICK p \in Seq(Place) : Len(p) = 1 /\ p[1] = n
  <2>1. <<n>> \in Seq(Place) /\ Len(<<n>>) = 1 /\ <<n>>[1] = n
    OBVIOUS
  <2>. QED
    BY <2>1
<1>2. PICK q : q = <<>> /\ Len(q) = 0
  OBVIOUS
<1>3. /\ Len(p) = Len(q) + 1 /\ p[Len(q) + 1] = n
      /\ \A k \in 1 .. Len(q) : q[k] = Emits(sz, p[k]) /\ p[k + 1] = After(sz, p[k])
  BY <1>1, <1>2
<1>4. Stretch(sz, n, q, n)
  BY <1>1, <1>3, StretchIs
<1>. QED
  BY <1>2, <1>4

\* What comes first, and what is left then.
LEMMA StretchTail ==
  ASSUME NEW sz, NEW n, NEW q \in Seq(Unit), NEW e, Stretch(sz, n, q, e), q # <<>>
  PROVE  Head(q) = Emits(sz, n) /\ Stretch(sz, After(sz, n), Tail(q), e)
<1>1. PICK p \in Seq(Place) :
        /\ Len(p) = Len(q) + 1 /\ p[1] = n /\ p[Len(p)] = e
        /\ \A k \in 1 .. Len(q) : q[k] = Emits(sz, p[k]) /\ p[k + 1] = After(sz, p[k])
  BY DEF Stretch
<1>2. /\ Head(q) = q[1] /\ Len(q) \in Nat /\ Len(q) >= 1
      /\ Len(Tail(q)) = Len(q) - 1
      /\ \A k \in 1 .. Len(q) - 1 : Tail(q)[k] = q[k + 1]
  BY TailItems
<1>3. /\ Tail(p) \in Seq(Place) /\ Len(Tail(p)) = Len(p) - 1
      /\ \A k \in 1 .. Len(p) - 1 : Tail(p)[k] = p[k + 1]
  <2>1. p # <<>>
    BY <1>1, <1>2
  <2>. QED
    BY <2>1, TailItems
<1>4. /\ Len(Tail(p)) = Len(Tail(q)) + 1
      /\ Tail(p)[1] = After(sz, n) /\ Tail(p)[Len(Tail(q)) + 1] = e
  BY <1>1, <1>2, <1>3
<1>5. \A k \in 1 .. Len(Tail(q)) :
        Tail(q)[k] = Emits(sz, Tail(p)[k]) /\ Tail(p)[k + 1] = After(sz, Tail(p)[k])
  BY <1>1, <1>2, <1>3
<1>6. Stretch(sz, After(sz, n), Tail(q), e)
  BY <1>3, <1>4, <1>5, StretchIs
<1>. QED
  BY <1>1, <1>2, <1>6

\* What comes next is added.
LEMMA StretchMore ==
  ASSUME NEW sz \in Sizes, NEW n, NEW q \in Seq(Unit), NEW e \in Place,
         Stretch(sz, n, q, e), NEW x \in Unit, x = Emits(sz, e)
  PROVE  Stretch(sz, n, Append(q, x), After(sz, e))
<1>1. PICK p \in Seq(Place) :
        /\ Len(p) = Len(q) + 1 /\ p[1] = n /\ p[Len(p)] = e
        /\ \A k \in 1 .. Len(q) : q[k] = Emits(sz, p[k]) /\ p[k + 1] = After(sz, p[k])
  BY DEF Stretch
<1>2. PICK a \in Place : a = After(sz, e)
  BY AfterPlace
<1>3. /\ Len(q) \in Nat /\ Len(Append(q, x)) = Len(q) + 1
      /\ \A k \in 1 .. Len(q) : Append(q, x)[k] = q[k]
      /\ Append(q, x)[Len(q) + 1] = x
  BY AppendItems
<1>4. /\ Append(p, a) \in Seq(Place) /\ Len(Append(p, a)) = Len(p) + 1
      /\ \A k \in 1 .. Len(p) : Append(p, a)[k] = p[k]
      /\ Append(p, a)[Len(p) + 1] = a
  BY AppendItems
<1>5. \A k \in 1 .. Len(Append(q, x)) :
        /\ Append(q, x)[k] = Emits(sz, Append(p, a)[k])
        /\ Append(p, a)[k + 1] = After(sz, Append(p, a)[k])
  BY <1>1, <1>2, <1>3, <1>4
<1>6. /\ Len(Append(p, a)) = Len(Append(q, x)) + 1
      /\ Append(p, a)[1] = n /\ Append(p, a)[Len(Append(q, x)) + 1] = a
  BY <1>1, <1>3, <1>4
<1>. QED
  BY <1>2, <1>4, <1>5, <1>6, StretchIs

\* The portions of a file from one to another: m of them.
IsRun(p, f, from, m) ==
  p \in Seq(Unit) /\ Len(p) = m /\ \A k \in 1 .. m : p[k] = DataOf(f, from + k)

LEMMA PortionsAre ==
  ASSUME NEW f \in Files, NEW from \in Nat, NEW m \in Nat, NEW upto \in Nat, upto = from + m
  PROVE  IsRun(Portions(f, from, upto), f, from, m)
<1>1. upto - from = m /\ \A k \in 1 .. m : DataOf(f, from + k) \in Unit
  BY DEF Unit, DataOf
<1>. QED
  BY <1>1 DEF Portions, DataOf, IsRun

LEMMA PortionsSame ==
  ASSUME NEW f \in Files, NEW from \in Nat, NEW m \in Nat, NEW upto \in Nat, upto = from + m,
         NEW q, IsRun(q, f, from, m)
  PROVE  q = Portions(f, from, upto)
<1>1. PICK p : p = Portions(f, from, upto) /\ IsRun(p, f, from, m)
  BY PortionsAre
<1>2. /\ p \in Seq(Unit) /\ q \in Seq(Unit)
      /\ Len(q) = Len(p) /\ \A k \in 1 .. Len(q) : q[k] = p[k]
  BY <1>1 DEF IsRun
<1>3. q = p
  BY <1>2, SeqEqual
<1>. QED
  BY <1>1, <1>3

LEMMA PortionsNone ==
  ASSUME NEW f \in Files, NEW from \in Nat
  PROVE  Portions(f, from, from) = <<>>
<1>1. PICK z \in Nat : z = 0 /\ from = from + z
  OBVIOUS
<1>2. IsRun(Portions(f, from, from), f, from, z)
  BY <1>1, PortionsAre
<1>. QED
  BY <1>1, <1>2, EmptySeq DEF IsRun

LEMMA PortionsMore ==
  ASSUME NEW f \in Files, NEW from \in Nat, NEW upto \in Nat, from <= upto,
         NEW next \in Nat, next = upto + 1
  PROVE  Portions(f, from, next) = Append(Portions(f, from, upto), DataOf(f, next))
<1>0. PICK m \in Nat : upto = from + m
  <2>1. upto - from \in Nat /\ upto = from + (upto - from)
    OBVIOUS
  <2>. QED
    BY <2>1
<1>1. PICK x \in Unit : x = DataOf(f, next)
  <2>1. DataOf(f, next) \in Unit
    BY DEF Unit, DataOf
  <2>. QED
    BY <2>1
<1>2. PICK q : q = Portions(f, from, upto) /\ IsRun(q, f, from, m)
  BY <1>0, PortionsAre
<1>3. PICK l \in Nat : l = m + 1 /\ next = from + l
  BY <1>0
<1>4. PICK r : r = Append(q, x)
  OBVIOUS
<1>5. /\ r \in Seq(Unit) /\ Len(r) = l
      /\ \A k \in 1 .. m : r[k] = q[k]
      /\ r[l] = x
  BY <1>2, <1>3, <1>4, AppendItems DEF IsRun
<1>6. ASSUME NEW k \in 1 .. l PROVE r[k] = DataOf(f, from + k)
  <2>1. CASE k = l
    BY <1>1, <1>3, <1>5, <2>1
  <2>2. CASE k # l
    <3>1. k \in 1 .. m
      BY <1>3, <2>2
    <3>. QED
      BY <1>2, <1>5, <3>1 DEF IsRun
  <2>. QED
    BY <2>1, <2>2
<1>7. IsRun(r, f, from, l)
  BY <1>5, <1>6 DEF IsRun
<1>8. r = Portions(f, from, next)
  BY <1>3, <1>7, PortionsSame
<1>. QED
  BY <1>1, <1>2, <1>4, <1>8

\* Appending commutes with what comes before.
LEMMA ConcatAppend ==
  ASSUME NEW S, NEW q \in Seq(S), NEW r \in Seq(S), NEW x \in S
  PROVE  q \o Append(r, x) = Append(q \o r, x)
BY AppendIsConcat, ConcatAssociative, ConcatProperties

\* Portions of a file, after the header or after other portions.
LEMMA StretchPortions ==
  ASSUME NEW sz \in Sizes, NEW n, NEW q \in Seq(Unit), NEW f \in Files, sz[f] # Absent,
         NEW from \in Nat, NEW upto \in Nat, from <= upto, upto <= sz[f],
         Stretch(sz, n, q, After(sz, <<f, from>>))
  PROVE  Stretch(sz, n, q \o Portions(f, from, upto), After(sz, <<f, upto>>))
<1> USE CopyAssumption
<1> DEFINE P(k) ==
      \A u \in Nat : u = from + k /\ u <= upto =>
        Stretch(sz, n, q \o Portions(f, from, u), After(sz, <<f, u>>))
<1>1. sz[f] \in Nat
  BY DEF Sizes, Absent
<1>2. P(0)
  <2>1. q \o Portions(f, from, from) = q
    BY PortionsNone, ConcatEmptySeq
  <2>2. \A u \in Nat : u = from + 0 => u = from
    OBVIOUS
  <2>. QED
    BY <2>1, <2>2
<1>3. ASSUME NEW k \in Nat, P(k) PROVE P(k + 1)
  <2>1. SUFFICES ASSUME NEW u \in Nat, u = from + (k + 1), u <= upto
                 PROVE  Stretch(sz, n, q \o Portions(f, from, u), After(sz, <<f, u>>))
    OBVIOUS
  <2>2. PICK v \in Nat : v = from + k /\ u = v + 1
    BY <2>1
  <2>3. Stretch(sz, n, q \o Portions(f, from, v), After(sz, <<f, v>>))
    BY <1>3, <2>1, <2>2
  <2>4. After(sz, <<f, v>>) = <<f, u>>
    BY <1>1, <2>1, <2>2 DEF After
  <2>5. PICK x \in Unit : /\ x = DataOf(f, u)
                          /\ Portions(f, from, u) = Append(Portions(f, from, v), x)
    <3>1. DataOf(f, u) \in Unit
      BY DEF Unit, DataOf
    <3>2. Portions(f, from, u) = Append(Portions(f, from, v), DataOf(f, u))
      <4>. HIDE DEF P
      <4>1. from <= v /\ u = v + 1
        BY <2>2
      <4>. QED
        BY <4>1, PortionsMore, SMTT(30)
    <3>. QED
      BY <3>1, <3>2
  <2>6. <<f, u>> \in Place /\ x = Emits(sz, <<f, u>>)
    <3>1. u # Line /\ u # 0 /\ u >= Line
      BY <2>2 DEF Line
    <3>. QED
      BY <2>5, <3>1 DEF Place, Emits, Files
  <2>7. PICK d \in Seq(Unit) : d = Portions(f, from, v)
    <3>1. IsRun(Portions(f, from, v), f, from, k)
      BY <2>2, PortionsAre
    <3>. QED
      BY <3>1 DEF IsRun
  <2>8. PICK r \in Seq(Unit) : r = q \o d
    BY ConcatProperties
  <2>9. q \o Portions(f, from, u) = Append(r, x)
    BY <2>5, <2>7, <2>8, ConcatAppend, SMTT(30)
  <2>. QED
    BY <2>3, <2>4, <2>6, <2>7, <2>8, <2>9, StretchMore
<1>4. \A k \in Nat : P(k)
  <2>. HIDE DEF P
  <2> DEFINE S == {k \in Nat : P(k)}
  <2>1. 0 \in S /\ \A k \in Nat : k \in S => k + 1 \in S
    BY <1>2, <1>3
  <2>2. \A k \in Nat : k \in S
    <3>. HIDE DEF S
    <3>. QED
      BY <2>1, SetInduction
  <2>. QED
    BY <2>2
<1>5. PICK m \in Nat : upto = from + m
  <2>1. upto - from \in Nat /\ upto = from + (upto - from)
    OBVIOUS
  <2>. QED
    BY <2>1
<1>6. P(m)
  BY <1>4
<1>. QED
  BY <1>5, <1>6

\* The first k units where portions of a file come.
LEMMA StretchData ==
  ASSUME NEW sz \in Sizes, NEW f \in Files, sz[f] # Absent, NEW i \in 1 .. sz[f],
         NEW q \in Seq(Unit), NEW e, Stretch(sz, <<f, i>>, q, e),
         NEW k \in 1 .. Len(q), NEW from \in Nat, NEW upto \in Nat,
         i = from + 1, upto = from + k, upto <= sz[f]
  PROVE  /\ IsRun(SubSeq(q, 1, k), f, from, k)
         /\ Stretch(sz, After(sz, <<f, upto>>), SubSeq(q, k + 1, Len(q)), e)
<1> USE CopyAssumption
<1>1. PICK p \in Seq(Place) :
        /\ Len(p) = Len(q) + 1 /\ p[1] = <<f, i>> /\ p[Len(p)] = e
        /\ \A j \in 1 .. Len(q) : q[j] = Emits(sz, p[j]) /\ p[j + 1] = After(sz, p[j])
  BY DEF Stretch
<1>2. /\ sz[f] \in Nat /\ Len(q) \in Nat /\ k \in Nat /\ i \in Nat
      /\ k \in 0 .. Len(q) /\ k \in 0 .. Len(p)
  BY <1>1 DEF Sizes, Absent
<1> DEFINE P(j) == \A v \in Nat : v = i + j /\ j < k => p[j + 1] = <<f, v>>
<1>3. \A j \in Nat : P(j)
  <2>1. P(0)
    BY <1>1, <1>2
  <2>2. ASSUME NEW j \in Nat, P(j) PROVE P(j + 1)
    <3>1. SUFFICES ASSUME NEW v \in Nat, v = i + (j + 1), j + 1 < k
                   PROVE  p[(j + 1) + 1] = <<f, v>>
      OBVIOUS
    <3>2. PICK u \in Nat : u = i + j /\ v = u + 1 /\ u < sz[f]
      BY <1>2, <3>1
    <3>3. p[j + 1] = <<f, u>>
      BY <1>2, <2>2, <3>1, <3>2
    <3>4. p[(j + 1) + 1] = After(sz, p[j + 1])
      <4>1. j + 1 \in 1 .. Len(q)
        BY <1>2, <3>1
      <4>. QED
        BY <1>1, <4>1
    <3>. QED
      BY <1>2, <3>2, <3>3, <3>4 DEF After
  <2>3. \A j \in Nat : P(j)
    <3>. HIDE DEF P
    <3> DEFINE S == {j \in Nat : P(j)}
    <3>1. 0 \in S /\ \A j \in Nat : j \in S => j + 1 \in S
      BY <2>1, <2>2
    <3>2. \A j \in Nat : j \in S
      <4>. HIDE DEF S
      <4>. QED
        BY <3>1, SetInduction
    <3>. QED
      BY <3>2
  <2>. QED
    BY <2>3
<1>4. /\ SubSeq(q, 1, k) \in Seq(Unit) /\ SubSeq(q, k + 1, Len(q)) \in Seq(Unit)
      /\ Len(SubSeq(q, 1, k)) = k
      /\ Len(SubSeq(q, k + 1, Len(q))) = Len(q) - k
      /\ \A j \in 1 .. k : SubSeq(q, 1, k)[j] = q[j]
      /\ \A j \in 1 .. Len(q) - k : SubSeq(q, k + 1, Len(q))[j] = q[k + j]
  BY <1>2, CutInTwo
<1>5. /\ SubSeq(p, k + 1, Len(p)) \in Seq(Place)
      /\ Len(SubSeq(p, k + 1, Len(p))) = Len(p) - k
      /\ \A j \in 1 .. Len(p) - k : SubSeq(p, k + 1, Len(p))[j] = p[k + j]
  BY <1>2, CutInTwo
<1>6. from = i - 1 /\ upto = i - 1 + k /\ from <= upto /\ i + k <= sz[f] + 1
  BY <1>2
<1>7. ASSUME NEW j \in 1 .. k
      PROVE  q[j] = DataOf(f, from + j) /\ p[j] = <<f, from + j>>
  <2>1. PICK l \in Nat : j = l + 1 /\ l < k
    BY <1>2
  <2>2. PICK v \in Nat : v = from + j /\ v = i + l /\ v > 0
    BY <1>2, <1>6, <2>1
  <2>3. p[j] = <<f, v>>
    BY <1>3, <2>1, <2>2
  <2>4. q[j] = Emits(sz, <<f, v>>)
    <3>1. j \in 1 .. Len(q)
      BY <1>2
    <3>2. q[j] = Emits(sz, p[j])
      BY <1>1, <3>1
    <3>. QED
      BY <2>3, <3>2
  <2>5. v # Line /\ v # 0
    BY <2>2 DEF Line
  <2>6. Emits(sz, <<f, v>>) = DataOf(f, v)
    BY <2>5 DEF Emits
  <2>. QED
    BY <2>2, <2>3, <2>4, <2>6
<1>8. IsRun(SubSeq(q, 1, k), f, from, k)
  <2>1. PICK r \in Seq(Unit) : r = SubSeq(q, 1, k)
    BY <1>4
  <2>2. Len(r) = k /\ \A j \in 1 .. k : r[j] = DataOf(f, from + j)
    BY <1>4, <1>7, <2>1
  <2>3. IsRun(r, f, from, k)
    BY <2>2 DEF IsRun
  <2>. QED
    BY <2>1, <2>3
<1>9. p[k + 1] = After(sz, <<f, upto>>)
  <2>1. k \in 1 .. k /\ from + k = upto
    BY <1>2, <1>6
  <2>. QED
    BY <1>1, <1>7, <2>1
<1>10. PICK r \in Seq(Unit), t \in Seq(Place) :
         r = SubSeq(q, k + 1, Len(q)) /\ t = SubSeq(p, k + 1, Len(p))
  BY <1>4, <1>5
<1>11. /\ Len(t) = Len(r) + 1 /\ t[1] = After(sz, <<f, upto>>) /\ t[Len(r) + 1] = e
       /\ \A j \in 1 .. Len(r) : r[j] = Emits(sz, t[j]) /\ t[j + 1] = After(sz, t[j])
  <2>1. Len(t) = Len(r) + 1 /\ Len(r) = Len(q) - k
    BY <1>1, <1>2, <1>4, <1>5, <1>10
  <2>2. \A j \in 1 .. Len(q) - k + 1 : t[j] = p[k + j]
    BY <1>1, <1>2, <1>5, <1>10
  <2>3. t[1] = After(sz, <<f, upto>>) /\ t[Len(r) + 1] = e
    <3>1. /\ 1 \in 1 .. Len(q) - k + 1 /\ Len(r) + 1 \in 1 .. Len(q) - k + 1
          /\ k + (Len(r) + 1) = Len(p)
      BY <1>1, <1>2, <2>1
    <3>. QED
      BY <1>1, <1>9, <2>2, <3>1
  <2>4. ASSUME NEW j \in 1 .. Len(r)
        PROVE  r[j] = Emits(sz, t[j]) /\ t[j + 1] = After(sz, t[j])
    <3>1. /\ j \in 1 .. Len(q) - k /\ j \in 1 .. Len(q) - k + 1
          /\ j + 1 \in 1 .. Len(q) - k + 1 /\ k + (j + 1) = (k + j) + 1
          /\ k + j \in 1 .. Len(q)
      BY <1>2, <2>1
    <3>2. r[j] = q[k + j]
      BY <1>4, <1>10, <3>1
    <3>3. t[j] = p[k + j] /\ t[j + 1] = p[(k + j) + 1]
      BY <2>2, <3>1
    <3>. QED
      BY <1>1, <3>1, <3>2, <3>3
  <2>. QED
    BY <2>1, <2>3, <2>4
<1>12. Stretch(sz, After(sz, <<f, upto>>), r, e)
  BY <1>11, StretchIs
<1>. QED
  BY <1>6, <1>8, <1>10, <1>12
-----------------------------------------------------------------------------
(***************************************************************************)
(* The types of the variables.                                             *)
(***************************************************************************)
Streams == [{"down", "up"} -> Seq(Unit)]

CopyType ==
  /\ fifo \in BOOLEAN /\ size \in Sizes /\ disturbed \in BOOLEAN
  /\ parent \in {"ready", "next", "send", "end", "done", "dead"}
  /\ child \in {"start", "header", "data", "done", "dead"}
  /\ current \in 1 .. FileCount + 1 /\ pos \in Nat
  /\ parent = "send" => current \in Files
  /\ out \in Seq(Unit) /\ header \in Seq(Unit) /\ stream \in Streams
  /\ fname \in Files \cup {Other} /\ remaining \in Nat
  /\ copy \in [Files -> Seq(Unit)]

LEMMA UnitsAre ==
  /\ <<"READY">> \in Unit /\ NewLine \in Unit /\ <<"END">> \in Unit
  /\ \A f \in Files, k \in Nat : <<"header", f, k>> \in Unit
  /\ \A u \in Unit : u[1] = "header" => u[2] \in Files /\ u[3] \in Nat
  /\ Ready \in Seq(Unit) /\ EndLines \in Seq(Unit)
<1>1. /\ <<"READY">> \in Unit /\ NewLine \in Unit /\ <<"END">> \in Unit
      /\ \A f \in Files, k \in Nat : <<"header", f, k>> \in Unit
  BY DEF Unit
<1>2. \A u \in Unit : u[1] = "header" => u[2] \in Files /\ u[3] \in Nat
  BY DEF Unit, NewLine
<1>3. Ready \in Seq(Unit) /\ EndLines \in Seq(Unit)
  BY <1>1 DEF Ready, EndLines
<1>. QED
  BY <1>1, <1>2, <1>3

\* A stream gets other units.
LEMMA StreamTypes ==
  ASSUME stream \in Streams, NEW s \in {"down", "up"}, NEW q \in Seq(Unit),
         stream' = [stream EXCEPT ![s] = q]
  PROVE  /\ stream' \in Streams /\ stream'[s] = q
         /\ \A t \in {"down", "up"} : t # s => stream'[t] = stream[t]
BY DEF Streams

LEMMA LineTypes ==
  ASSUME CopyType, HandleLine
  PROVE  /\ child' \in {"done", "data", "header"} /\ header' \in Seq(Unit)
         /\ fname' \in Files \cup {Other} /\ remaining' \in Nat
         /\ copy' \in [Files -> Seq(Unit)]
<1>1. CASE child' = "done" /\ UNCHANGED <<header, fname, remaining, copy>>
  BY <1>1 DEF CopyType
<1>2. ASSUME NEW f \in FileNamed(header), NEW n \in SizeNamed(header),
             fname' = f, remaining' = n, header' = <<>>,
             copy' = IF f \in Files THEN [copy EXCEPT ![f] = <<>>] ELSE copy,
             child' = IF n > 0 THEN "data" ELSE "header"
      PROVE  /\ child' \in {"done", "data", "header"} /\ header' \in Seq(Unit)
             /\ fname' \in Files \cup {Other} /\ remaining' \in Nat
             /\ copy' \in [Files -> Seq(Unit)]
  <2>1. Len(header) = 1 => header[1] \in Unit
    <3>1. PICK h \in Seq(Unit) : h = header
      BY DEF CopyType
    <3>2. \A k \in 1 .. Len(h) : h[k] \in Unit
      BY ElementOfSeq
    <3>. QED
      BY <3>1, <3>2
  <2>2. f \in Files \cup {Other}
    BY <2>1, UnitsAre DEF FileNamed, CopyType
  <2>3. n \in Nat
    BY <2>1, UnitsAre, CopyAssumption DEF SizeNamed
  <2>4. copy' \in [Files -> Seq(Unit)]
    BY <1>2 DEF CopyType
  <2>. QED
    BY <1>2, <2>2, <2>3, <2>4
<1>. QED
  BY <1>1, <1>2 DEF HandleLine

\* What read() gives: no more than the stream has and the file still lacks.
LEMMA PortionIs ==
  ASSUME CopyType, stream["down"] # <<>>
  PROVE  /\ Portion \in 0 .. Len(stream["down"]) /\ remaining - Portion \in Nat
         /\ remaining > 0 => Portion >= 1
<1>1. /\ Len(stream["down"]) \in Nat /\ Len(stream["down"]) >= 1
      /\ remaining \in Nat /\ BufSize \in Nat /\ BufSize >= 1
  BY CopyAssumption, TailItems DEF CopyType, Streams
<1>. QED
  BY <1>1 DEF Portion, Lesser

LEMMA CopyTypes ==
  ASSUME CopyType, CopyNext
  PROVE  CopyType'
<1> USE CopyAssumption
<1>1. CASE WaitReady
  <2>1. Up \in {"down", "up"} /\ <<>> \in Seq(Unit)
    BY DEF Up
  <2>2. stream' \in Streams
    BY <1>1, <2>1, StreamTypes DEF WaitReady, CopyType
  <2>. QED
    BY <1>1, <2>2 DEF WaitReady, CopyType, childVars, fileVars
<1>2. CASE OpenFile
  <2>1. size[current] # Absent => HeaderOf(current) \in Seq(Unit)
    <3>1. size[current] # Absent => <<"header", current, size[current]>> \in Unit
      BY <1>2, UnitsAre DEF OpenFile, CopyType, Sizes
    <3>. QED
      BY <3>1, UnitsAre DEF HeaderOf
  <2>2. current + 1 \in 1 .. FileCount + 1
    BY <1>2 DEF OpenFile, Files
  <2>. QED
    BY <1>2, <2>1, <2>2 DEF OpenFile, CopyType, childVars, fileVars
<1>3. CASE WritePart
  <2>1. Head(out) \in Unit /\ Tail(out) \in Seq(Unit)
    BY <1>3, TailItems DEF WritePart, CopyType
  <2>2. Append(stream["down"], Head(out)) \in Seq(Unit)
    BY <2>1, AppendItems DEF CopyType, Streams
  <2>3. stream' \in Streams
    BY <1>3, <2>2, StreamTypes DEF WritePart, CopyType
  <2>. QED
    BY <1>3, <2>1, <2>3 DEF WritePart, CopyType, childVars, fileVars
<1>4. CASE SigPipe
  BY <1>4 DEF SigPipe, CopyType, childVars, fileVars
<1>5. CASE ReadFile
  <2>1. PICK upto : /\ upto = Lesser(pos + BufSize, size[current])
                    /\ out' = Portions(current, pos, upto) /\ pos' = upto
    BY <1>5 DEF ReadFile
  <2>2. current \in Files /\ size[current] \in Nat /\ upto \in Nat /\ upto >= pos
    BY <1>5, <2>1 DEF ReadFile, CopyType, Sizes, Absent, Lesser
  <2>3. out' \in Seq(Unit)
    <3>1. PICK m \in Nat : upto = pos + m
      <4>1. upto - pos \in Nat /\ upto = pos + (upto - pos)
        BY <2>2 DEF CopyType
      <4>. QED
        BY <4>1
    <3>2. IsRun(out', current, pos, m)
      BY <2>1, <2>2, <3>1, PortionsAre DEF CopyType
    <3>. QED
      BY <3>2 DEF IsRun
  <2>. QED
    BY <1>5, <2>1, <2>2, <2>3 DEF ReadFile, CopyType, childVars, fileVars
<1>6. CASE CloseFile
  BY <1>6 DEF CloseFile, CopyType, childVars, fileVars, Files
<1>7. CASE SendEnd
  BY <1>7, UnitsAre DEF SendEnd, CopyType, childVars, fileVars
<1>8. CASE Reap
  BY <1>8 DEF Reap, CopyType, childVars, fileVars
<1>9. CASE SendReady
  <2>1. stream[Up] \o Ready \in Seq(Unit) /\ Up \in {"down", "up"}
    BY UnitsAre, ConcatProperties DEF CopyType, Streams, Up
  <2>2. stream' \in Streams
    BY <1>9, <2>1, StreamTypes DEF SendReady, CopyType
  <2>. QED
    BY <1>9, <2>2 DEF SendReady, CopyType, parentVars, fileVars
<1>10. CASE ReadByte
  <2>1. /\ stream' \in Streams
        /\ \/ HandleLine
           \/ /\ header' = Append(header, Head(stream["down"])) /\ stream["down"] # <<>>
              /\ UNCHANGED <<child, fname, remaining, copy>>
    <3>1. CASE stream["down"] # <<>> /\ stream' = [stream EXCEPT !["down"] = Tail(@)]
      <4>1. Tail(stream["down"]) \in Seq(Unit)
        BY <3>1, TailItems DEF CopyType, Streams
      <4>2. stream' \in Streams
        BY <3>1, <4>1, StreamTypes DEF CopyType
      <4>. QED
        BY <1>10, <3>1, <4>2 DEF ReadByte
    <3>2. CASE stream["down"] = <<>> /\ HandleLine /\ UNCHANGED stream
      BY <3>2 DEF CopyType
    <3>. QED
      BY <1>10, <3>1, <3>2 DEF ReadByte
  <2>2. CASE HandleLine
    BY <1>10, <2>1, <2>2, LineTypes DEF ReadByte, CopyType, parentVars, fileVars
  <2>3. CASE /\ header' = Append(header, Head(stream["down"])) /\ stream["down"] # <<>>
             /\ UNCHANGED <<child, fname, remaining, copy>>
    <3>1. Head(stream["down"]) \in Unit
      BY <2>3, TailItems DEF CopyType, Streams
    <3>2. header' \in Seq(Unit)
      BY <2>3, <3>1, AppendItems DEF CopyType
    <3>. QED
      BY <1>10, <2>1, <2>3, <3>2 DEF ReadByte, CopyType, parentVars, fileVars
  <2>. QED
    BY <2>1, <2>2, <2>3
<1>11. CASE CopyData
  <2>0. PICK q \in Seq(Unit) : q = stream["down"]
    BY DEF CopyType, Streams
  <2>1. PICK k \in 0 .. Len(q) : k = Portion /\ remaining - k \in Nat
    BY <1>11, <2>0, PortionIs DEF CopyData
  <2>2. SubSeq(q, 1, k) \in Seq(Unit) /\ SubSeq(q, k + 1, Len(q)) \in Seq(Unit)
    BY <2>1, CutInTwo
  <2>3. stream' \in Streams
    BY <1>11, <2>0, <2>1, <2>2, StreamTypes DEF CopyData, CopyType
  <2>4. copy' \in [Files -> Seq(Unit)]
    <3>1. CASE fname \in Files
      <4>1. copy' = [copy EXCEPT ![fname] = copy[fname] \o SubSeq(q, 1, k)]
        BY <1>11, <2>0, <2>1, <3>1 DEF CopyData
      <4>2. copy[fname] \o SubSeq(q, 1, k) \in Seq(Unit)
        BY <2>2, <3>1, ConcatProperties DEF CopyType
      <4>. QED
        BY <4>1, <4>2 DEF CopyType
    <3>2. CASE fname \notin Files
      BY <1>11, <3>2 DEF CopyData, CopyType
    <3>. QED
      BY <3>1, <3>2
  <2>5. remaining' \in Nat /\ child' \in {"data", "header"}
    BY <1>11, <2>1 DEF CopyData
  <2>. QED
    BY <1>11, <2>3, <2>4, <2>5 DEF CopyData, CopyType, parentVars, fileVars
<1>12. CASE DataEnds
  BY <1>12 DEF DataEnds, CopyType, parentVars, fileVars
<1>13. CASE FileChanges
  BY <1>13 DEF FileChanges, CopyType, parentVars, childVars, Sizes
<1>14. CASE Killed
  BY <1>14 DEF Killed, CopyType, fileVars
<1>. QED
  BY <1>1, <1>2, <1>3, <1>4, <1>5, <1>6, <1>7, <1>8, <1>9, <1>10, <1>11, <1>12,
     <1>13, <1>14 DEF CopyNext, ParentStep, ChildStep
-----------------------------------------------------------------------------
(***************************************************************************)
(* How it begins: the child says READY, and the parent waits for that.     *)
(***************************************************************************)
AtReady ==
  /\ current = 1 /\ child # "done" /\ header # <<<<"END">>>>
  /\ stream["down"] \in {<<>>, <<NewLine>>, Ready}
  /\ ~ fifo => stream["down"] = <<>>
  /\ child = "data" => stream["down"] = <<>>
  /\ child # "dead" /\ (~ fifo \/ stream["down"] = Ready) =>
       child \in {"start", "header"} /\ header = <<>>

Begun ==
  /\ child = "start" =>
       /\ parent \in {"ready", "dead"} /\ header = <<>>
       /\ stream["down"] = <<>> /\ stream["up"] = <<>>
  /\ parent \in {"ready", "next"} => out = <<>>
  /\ parent = "done" => child \in {"done", "dead"}
  /\ parent = "ready" => AtReady

LEMMA ReadyParts ==
  /\ Ready # <<>> /\ Head(Ready) = <<"READY">> /\ Tail(Ready) = <<NewLine>>
  /\ <<NewLine>> # <<>> /\ <<NewLine>> # Ready
  /\ Head(<<NewLine>>) = NewLine /\ Tail(<<NewLine>>) = <<>>
  /\ NewLine # <<"READY">> /\ NewLine # <<"END">> /\ <<"READY">> # <<"END">>
BY DEF Ready, NewLine

LEMMA LastUnit ==
  ASSUME NEW h \in Seq(Unit), NEW x \in Unit, NEW y, Append(h, x) = <<y>>
  PROVE  x = y
<1>1. /\ Append(h, x)[Len(h) + 1] = x /\ Len(Append(h, x)) = Len(h) + 1 /\ Len(h) \in Nat
  <2>1. Append(h, x)[Len(h) + 1] = x
    BY AppendItems
  <2>2. Len(Append(h, x)) = Len(h) + 1
    BY AppendItems
  <2>. QED
    BY <2>1, <2>2, LenProperties
<1>2. Len(<<y>>) = 1 /\ <<y>>[1] = y
  OBVIOUS
<1>. QED
  BY <1>1, <1>2

\* A line that is not END.
LEMMA NotTheEnd ==
  ASSUME HandleLine, header # <<<<"END">>>>
  PROVE  child' \in {"data", "header"} /\ header' = <<>>
BY DEF HandleLine

LEMMA BegunKept ==
  ASSUME CopyType, Begun, CopyNext
  PROVE  Begun'
<1>1. CASE WaitReady
  <2>1. child # "start"
    BY <1>1 DEF WaitReady, Begun, Up, Closed
  <2>. QED
    BY <1>1, <2>1 DEF WaitReady, Begun, childVars
<1>2. CASE OpenFile
  BY <1>2 DEF OpenFile, Begun, childVars
<1>3. CASE WritePart
  BY <1>3 DEF WritePart, Begun, childVars
<1>4. CASE SigPipe
  BY <1>4 DEF SigPipe, Begun, childVars
<1>5. CASE ReadFile \/ CloseFile
  BY <1>5 DEF ReadFile, CloseFile, Begun, childVars
<1>6. CASE SendEnd
  BY <1>6 DEF SendEnd, Begun, childVars
<1>7. CASE Reap
  BY <1>7 DEF Reap, Begun, childVars
<1>8. CASE SendReady
  <2>1. CASE parent = "ready"
    <3>1. stream["down"] = <<>> /\ stream["up"] = <<>> /\ header = <<>> /\ current = 1
      BY <1>8, <2>1 DEF SendReady, Begun, AtReady
    <3>2. child' = "header" /\ stream' = [stream EXCEPT ![Up] = <<>> \o Ready]
      BY <1>8, <2>1, <3>1 DEF SendReady, Closed, Up
    <3>3. <<>> \o Ready = Ready
      BY UnitsAre, ConcatEmptySeq
    <3>4. stream'["down"] = IF fifo THEN Ready ELSE <<>>
      BY <3>1, <3>2, <3>3 DEF CopyType, Streams, Up
    <3>5. header' = <<>> /\ UNCHANGED <<parent, current, out, fifo>>
      BY <1>8, <3>1 DEF SendReady, parentVars, fileVars
    <3>. QED
      BY <2>1, <3>1, <3>2, <3>4, <3>5 DEF Begun, AtReady
  <2>2. CASE parent # "ready"
    <3>1. parent = "dead"
      BY <1>8, <2>2 DEF SendReady, Begun
    <3>2. child' \in {"header", "dead"} /\ parent' = parent
      BY <1>8 DEF SendReady, parentVars
    <3>. QED
      BY <3>1, <3>2 DEF Begun
  <2>. QED
    BY <2>1, <2>2
<1>9. CASE ReadByte
  <2>1. /\ child = "header" /\ parent # "done" /\ UNCHANGED <<parent, current, out, fifo>>
        /\ child' \in {"header", "data", "done"}
    <3>1. child' \in {"header", "data", "done"}
      BY <1>9, LineTypes DEF ReadByte
    <3>. QED
      BY <1>9, <3>1 DEF ReadByte, Begun, parentVars, fileVars
  <2>2. CASE parent = "ready"
    <3>1. AtReady /\ out = <<>> /\ fifo
      BY <1>9, <2>2, ReadyParts DEF ReadByte, Begun, AtReady, Closed
    <3>2. /\ stream["down"] \in {<<NewLine>>, Ready}
          /\ stream' = [stream EXCEPT !["down"] = Tail(@)]
          /\ IF Head(stream["down"]) = NewLine THEN HandleLine
             ELSE /\ header' = Append(header, Head(stream["down"]))
                  /\ UNCHANGED <<child, fname, remaining, copy>>
      BY <1>9, <2>2, <3>1 DEF ReadByte, AtReady, Closed
    <3>3. stream'["down"] = Tail(stream["down"])
      BY <3>2 DEF CopyType, Streams
    <3>4. CASE stream["down"] = <<NewLine>>
      <4>1. HandleLine /\ stream'["down"] = <<>>
        BY <3>2, <3>3, <3>4, ReadyParts
      <4>2. child' \in {"data", "header"} /\ header' = <<>>
        BY <3>1, <4>1, NotTheEnd DEF AtReady
      <4>. QED
        BY <2>1, <2>2, <3>1, <4>1, <4>2, ReadyParts DEF Begun, AtReady
    <3>5. CASE stream["down"] = Ready
      <4>1. /\ stream'["down"] = <<NewLine>> /\ child' = "header"
            /\ header' = Append(header, <<"READY">>)
        BY <2>1, <3>2, <3>3, <3>5, ReadyParts
      <4>2. header' # <<<<"END">>>>
        BY <4>1, LastUnit, UnitsAre, ReadyParts DEF CopyType
      <4>. QED
        BY <2>1, <2>2, <3>1, <4>1, <4>2, ReadyParts DEF Begun, AtReady
    <3>. QED
      BY <3>2, <3>4, <3>5
  <2>3. CASE parent # "ready"
    BY <2>1, <2>3 DEF Begun
  <2>. QED
    BY <2>2, <2>3
<1>10. CASE CopyData
  <2>1. parent \notin {"ready", "done"} /\ parent' = parent /\ out' = out /\ child' # "start"
    BY <1>10 DEF CopyData, Begun, AtReady, parentVars
  <2>. QED
    BY <2>1 DEF Begun
<1>11. CASE DataEnds
  <2>1. parent \notin {"ready", "done"} /\ parent' = parent /\ out' = out /\ child' # "start"
    BY <1>11 DEF DataEnds, Begun, Closed, parentVars
  <2>. QED
    BY <2>1 DEF Begun
<1>12. CASE FileChanges
  BY <1>12 DEF FileChanges, Begun, parentVars, childVars
<1>13. CASE Killed
  BY <1>13 DEF Killed, Begun, AtReady, fileVars
<1>. QED
  BY <1>1, <1>2, <1>3, <1>4, <1>5, <1>6, <1>7, <1>8, <1>9, <1>10, <1>11, <1>12,
     <1>13 DEF CopyNext, ParentStep, ChildStep

(***************************************************************************)
(* The parent has been killed, and END will never come.                    *)
(***************************************************************************)
NoEnd(q) == \A k \in 1 .. Len(q) : q[k] # <<"END">>

Lost ==
  parent = "dead" /\ child # "done" /\ header # <<<<"END">>>> /\ NoEnd(stream["down"])

LEMMA LostKept ==
  ASSUME CopyType, Begun, Lost, CopyNext
  PROVE  Lost'
<1>1. ChildStep
  BY DEF Lost, CopyNext, ParentStep, WaitReady, OpenFile, WritePart, SigPipe, ReadFile,
     CloseFile, SendEnd, Reap, FileChanges, Killed
<1>2. PICK q \in Seq(Unit) : q = stream["down"] /\ NoEnd(q)
  BY DEF Lost, CopyType, Streams
<1>3. parent' = "dead"
  BY <1>1 DEF Lost, ChildStep, SendReady, ReadByte, CopyData, DataEnds, parentVars
<1>4. CASE SendReady
  <2>1. stream["down"] = <<>> /\ child' \in {"header", "dead"} /\ header' = header
    BY <1>4 DEF SendReady, Begun
  <2>2. <<>> \o Ready = Ready
    BY UnitsAre, ConcatEmptySeq
  <2>3. stream'["down"] \in {<<>>, Ready}
    BY <1>4, <2>1, <2>2 DEF SendReady, CopyType, Streams, Up
  <2>4. NoEnd(<<>>) /\ NoEnd(Ready)
    BY ReadyParts DEF NoEnd, Ready
  <2>. QED
    BY <1>3, <2>1, <2>3, <2>4 DEF Lost
<1>5. CASE ReadByte
  <2>1. CASE stream["down"] # <<>> /\ stream' = [stream EXCEPT !["down"] = Tail(@)]
    <3>1. /\ Head(q) \in Unit /\ Head(q) = q[1] /\ Len(q) \in Nat /\ Len(q) >= 1
          /\ Len(Tail(q)) = Len(q) - 1
          /\ \A k \in 1 .. Len(q) - 1 : Tail(q)[k] = q[k + 1]
      BY <1>2, <2>1, TailItems
    <3>2. stream'["down"] = Tail(q)
      BY <1>2, <2>1 DEF CopyType, Streams
    <3>3. NoEnd(Tail(q)) /\ Head(q) # <<"END">>
      BY <1>2, <3>1 DEF NoEnd
    <3>4. CASE HandleLine
      BY <1>3, <3>2, <3>3, <3>4, NotTheEnd DEF Lost
    <3>5. CASE header' = Append(header, Head(q)) /\ child' = child
      <4>1. header' # <<<<"END">>>>
        BY <3>1, <3>3, <3>5, LastUnit DEF CopyType
      <4>. QED
        BY <1>3, <3>2, <3>3, <3>5, <4>1 DEF Lost
    <3>. QED
      BY <1>2, <1>5, <2>1, <3>4, <3>5 DEF ReadByte
  <2>2. CASE HandleLine /\ UNCHANGED stream
    BY <1>3, <2>2, NotTheEnd DEF Lost
  <2>. QED
    BY <1>5, <2>1, <2>2 DEF ReadByte
<1>6. CASE CopyData
  <2>1. PICK k : k = Portion /\ k \in 0 .. Len(q)
    BY <1>2, <1>6, PortionIs DEF CopyData
  <2>2. /\ Len(SubSeq(q, k + 1, Len(q))) = Len(q) - k /\ Len(q) \in Nat
        /\ \A j \in 1 .. Len(q) - k : SubSeq(q, k + 1, Len(q))[j] = q[k + j]
    BY <2>1, CutInTwo
  <2>3. stream'["down"] = SubSeq(q, k + 1, Len(q))
    BY <1>2, <1>6, <2>1 DEF CopyData, CopyType, Streams
  <2>4. NoEnd(SubSeq(q, k + 1, Len(q)))
    BY <1>2, <2>1, <2>2 DEF NoEnd
  <2>. QED
    BY <1>3, <1>6, <2>3, <2>4 DEF CopyData, Lost
<1>7. CASE DataEnds
  BY <1>3, <1>7 DEF DataEnds, Lost
<1>. QED
  BY <1>1, <1>4, <1>5, <1>6, <1>7 DEF ChildStep

-----------------------------------------------------------------------------
(***************************************************************************)
(* The two are in step: from the unit that the child waits for to the one  *)
(* that the parent will write next, the stream and what the parent still   *)
(* has to write of its buffer are a stretch of the script, and the copies  *)
(* of the files before are whole.                                          *)
(***************************************************************************)
Flow == stream["down"] \o out

\* What the parent will write after out.
Comes ==
  CASE parent = "next" -> <<NextFile(size, current), Line>>
    [] parent = "send" -> After(size, <<current, pos>>)
    [] OTHER -> <<FileCount + 1, 1>>

WholeBefore(sz, cp, f) ==
  \A g \in Files : g < f /\ sz[g] # Absent => cp[g] = Portions(g, 0, sz[g])

\* The child waits for the unit at place n.
Expects(n) ==
  /\ n[1] \in Files => size[n[1]] # Absent
  /\ WholeBefore(size, copy, n[1])
  /\ \/ child = "header" /\ n[2] = Line /\ header = <<>>
     \/ child = "header" /\ n[2] = 0 /\ header = <<Emits(size, <<n[1], Line>>)>>
     \/ /\ child = "data" /\ header = <<>> /\ n[1] = fname /\ fname \in Files
        /\ n[2] \in 1 .. size[fname] /\ remaining = size[fname] + 1 - n[2]
        /\ copy[fname] = Portions(fname, 0, n[2] - 1)

Sending == parent = "send" => size[current] # Absent /\ pos \in 0 .. size[current]

InSync ==
  \/ child = "done" /\ WholeBefore(size, copy, FileCount + 1)
  \/ /\ Sending
     /\ \E n \in Place, e \in Place :
          Expects(n) /\ Stretch(size, n, Flow, e) /\ (parent # "dead" => e = Comes)

\* Portions joined to those before them.
LEMMA PortionsJoin ==
  ASSUME NEW f \in Files, NEW from \in Nat, NEW k \in Nat, NEW upto \in Nat, upto = from + k
  PROVE  Portions(f, 0, from) \o Portions(f, from, upto) = Portions(f, 0, upto)
<1>1. PICK q \in Seq(Unit) : q = Portions(f, 0, from) /\ IsRun(q, f, 0, from)
  <2>1. from = 0 + from
    OBVIOUS
  <2>2. IsRun(Portions(f, 0, from), f, 0, from)
    BY <2>1, PortionsAre
  <2>. QED
    BY <2>2 DEF IsRun
<1>2. PICK r \in Seq(Unit) : r = Portions(f, from, upto) /\ IsRun(r, f, from, k)
  <2>1. IsRun(Portions(f, from, upto), f, from, k)
    BY PortionsAre
  <2>. QED
    BY <2>1 DEF IsRun
<1>3. /\ q \o r \in Seq(Unit) /\ Len(q \o r) = Len(q) + Len(r)
      /\ \A j \in 1 .. Len(q) + Len(r) :
           (q \o r)[j] = IF j <= Len(q) THEN q[j] ELSE r[j - Len(q)]
  BY ConcatProperties
<1>4. Len(q) = from /\ Len(r) = k
  BY <1>1, <1>2 DEF IsRun
<1>5. ASSUME NEW j \in 1 .. upto PROVE (q \o r)[j] = DataOf(f, 0 + j)
  <2>1. CASE j <= from
    BY <1>1, <1>3, <1>4, <2>1 DEF IsRun
  <2>2. CASE ~ (j <= from)
    <3>1. PICK l \in 1 .. k : j = from + l /\ j - from = l
      <4>1. j - from \in 1 .. k /\ j = from + (j - from)
        BY <2>2
      <4>. QED
        BY <4>1
    <3>2. r[l] = DataOf(f, from + l)
      BY <1>2 DEF IsRun
    <3>3. (q \o r)[j] = r[l]
      BY <1>3, <1>4, <2>2, <3>1
    <3>. QED
      BY <3>1, <3>2, <3>3
  <2>. QED
    BY <2>1, <2>2
<1>6. IsRun(q \o r, f, 0, upto)
  BY <1>3, <1>4, <1>5 DEF IsRun
<1>7. q \o r = Portions(f, 0, upto)
  <2>1. upto = 0 + upto
    OBVIOUS
  <2>. QED
    BY <1>6, <2>1, PortionsSame
<1>. QED
  BY <1>1, <1>2, <1>7

\* One more file is whole: so are all that come before the next one.
LEMMA WholeNext ==
  ASSUME NEW sz \in Sizes, NEW f \in Files, NEW old, NEW cp, WholeBefore(sz, old, f),
         \A g \in Files : g # f => cp[g] = old[g],
         cp[f] = Portions(f, 0, sz[f])
  PROVE  WholeBefore(sz, cp, NextFile(sz, f + 1))
<1> USE CopyAssumption
<1>1. f + 1 \in 1 .. FileCount + 1
  BY DEF Files
<1>2. IsNextFile(sz, f + 1, NextFile(sz, f + 1)) /\ NextFile(sz, f + 1) \in Nat
  BY <1>1, NextFileIs
<1>3. ASSUME NEW g \in Files, g < NextFile(sz, f + 1), sz[g] # Absent
      PROVE  cp[g] = Portions(g, 0, sz[g])
  <2>1. g <= f
    BY <1>2, <1>3 DEF IsNextFile, Files
  <2>2. CASE g = f
    BY <2>2
  <2>3. CASE g # f
    <3>1. g < f
      BY <2>1, <2>3 DEF Files
    <3>. QED
      BY <1>3, <2>3, <3>1 DEF WholeBefore
  <2>. QED
    BY <2>2, <2>3
<1>. QED
  BY <1>3 DEF WholeBefore

\* Before the first file there is none to copy.
LEMMA WholeAtFirst ==
  ASSUME NEW sz \in Sizes, NEW cp
  PROVE  WholeBefore(sz, cp, NextFile(sz, 1))
<1> USE CopyAssumption
<1>1. 1 \in 1 .. FileCount + 1
  OBVIOUS
<1>2. IsNextFile(sz, 1, NextFile(sz, 1)) /\ NextFile(sz, 1) \in Nat
  BY <1>1, NextFileIs
<1>. QED
  BY <1>2 DEF IsNextFile, WholeBefore, Files

LEMMA NextPlace ==
  ASSUME NEW sz \in Sizes, NEW f \in 1 .. FileCount + 1
  PROVE  /\ <<NextFile(sz, f), Line>> \in Place
         /\ NextFile(sz, f) \in Files => sz[NextFile(sz, f)] # Absent
<1> USE CopyAssumption
<1>1. IsNextFile(sz, f, NextFile(sz, f)) /\ NextFile(sz, f) \in Nat
  BY NextFileIs
<1>2. NextFile(sz, f) \in 1 .. FileCount + 1
  BY <1>1 DEF IsNextFile
<1>3. NextFile(sz, f) \in Files => NextFile(sz, f) # FileCount + 1
  BY DEF Files
<1>. QED
  BY <1>1, <1>2, <1>3 DEF IsNextFile, Place, Line

\* What leaves the stream and what is written to it.
LEMMA FlowOf ==
  ASSUME NEW q \in Seq(Unit), NEW r \in Seq(Unit)
  PROVE  /\ q \o <<>> = q
         /\ r # <<>> => Append(q, Head(r)) \o Tail(r) = q \o r
         /\ q # <<>> => /\ q \o r # <<>> /\ Head(q \o r) = Head(q)
                        /\ Tail(q \o r) = Tail(q) \o r
<1>1. q \o <<>> = q
  BY ConcatEmptySeq
<1>2. ASSUME r # <<>> PROVE Append(q, Head(r)) \o Tail(r) = q \o r
  BY <1>2
<1>3. ASSUME q # <<>>
      PROVE  q \o r # <<>> /\ Head(q \o r) = Head(q) /\ Tail(q \o r) = Tail(q) \o r
  BY <1>3
<1>. QED
  BY <1>1, <1>2, <1>3

LEMMA FlowCut ==
  ASSUME NEW q \in Seq(Unit), NEW r \in Seq(Unit), NEW k \in 1 .. Len(q)
  PROVE  /\ SubSeq(q \o r, 1, k) = SubSeq(q, 1, k)
         /\ SubSeq(q \o r, k + 1, Len(q \o r)) = SubSeq(q, k + 1, Len(q)) \o r
         /\ k \in 1 .. Len(q \o r)
<1>1. PICK s \in Seq(Unit) : s = q \o r
  BY ConcatProperties
<1>2. /\ Len(s) = Len(q) + Len(r) /\ Len(q) \in Nat /\ Len(r) \in Nat /\ k \in 0 .. Len(q)
      /\ k \in 0 .. Len(s) /\ k \in 1 .. Len(s)
      /\ \A j \in 1 .. Len(q) + Len(r) :
           s[j] = IF j <= Len(q) THEN q[j] ELSE r[j - Len(q)]
  BY <1>1, ConcatProperties
<1>3a. /\ SubSeq(q, 1, k) \in Seq(Unit) /\ SubSeq(q, k + 1, Len(q)) \in Seq(Unit)
       /\ Len(SubSeq(q, 1, k)) = k
       /\ Len(SubSeq(q, k + 1, Len(q))) = Len(q) - k
       /\ \A j \in 1 .. k : SubSeq(q, 1, k)[j] = q[j]
       /\ \A j \in 1 .. Len(q) - k : SubSeq(q, k + 1, Len(q))[j] = q[k + j]
  BY <1>2, CutInTwo
<1>3b. PICK a \in Seq(Unit), b \in Seq(Unit) :
         a = SubSeq(q, 1, k) /\ b = SubSeq(q, k + 1, Len(q))
  BY <1>3a
<1>3. /\ Len(a) = k /\ Len(b) = Len(q) - k
      /\ \A j \in 1 .. k : a[j] = q[j]
      /\ \A j \in 1 .. Len(q) - k : b[j] = q[k + j]
  BY <1>3a, <1>3b
<1>4a. /\ SubSeq(s, 1, k) \in Seq(Unit) /\ SubSeq(s, k + 1, Len(s)) \in Seq(Unit)
       /\ Len(SubSeq(s, 1, k)) = k
       /\ Len(SubSeq(s, k + 1, Len(s))) = Len(s) - k
       /\ \A j \in 1 .. k : SubSeq(s, 1, k)[j] = s[j]
       /\ \A j \in 1 .. Len(s) - k : SubSeq(s, k + 1, Len(s))[j] = s[k + j]
  BY <1>2, CutInTwo
<1>4b. PICK c \in Seq(Unit), d \in Seq(Unit) :
         c = SubSeq(s, 1, k) /\ d = SubSeq(s, k + 1, Len(s))
  BY <1>4a
<1>4. /\ Len(c) = k /\ Len(d) = Len(s) - k
      /\ \A j \in 1 .. k : c[j] = s[j]
      /\ \A j \in 1 .. Len(s) - k : d[j] = s[k + j]
  BY <1>4a, <1>4b
<1>5. a = c
  <2>1. ASSUME NEW j \in 1 .. k PROVE a[j] = c[j]
    <3>1. a[j] = q[j] /\ c[j] = s[j]
      BY <1>3, <1>4
    <3>2. j <= Len(q) /\ j \in 1 .. Len(q) + Len(r)
      BY <1>2
    <3>. QED
      BY <1>2, <3>1, <3>2
  <2>2. Len(a) = k /\ Len(c) = k
    BY <1>3, <1>4
  <2>. QED
    BY <2>1, <2>2, SeqEqual
<1>6a. PICK t \in Seq(Unit) : t = b \o r
  BY ConcatProperties
<1>6. /\ Len(t) = Len(b) + Len(r)
      /\ \A j \in 1 .. Len(b) + Len(r) :
           t[j] = IF j <= Len(b) THEN b[j] ELSE r[j - Len(b)]
  BY <1>6a, ConcatProperties
<1>7. d = t
  <2>1. Len(d) = Len(t)
    BY <1>2, <1>3, <1>4, <1>6
  <2>2. ASSUME NEW j \in 1 .. Len(d) PROVE d[j] = t[j]
    <3>1. /\ d[j] = s[k + j] /\ j \in Nat /\ j >= 1 /\ k \in Nat
          /\ k + j \in 1 .. Len(q) + Len(r) /\ j \in 1 .. Len(b) + Len(r)
      BY <1>2, <1>3, <1>4
    <3>2. CASE k + j <= Len(q)
      <4>1. j <= Len(b) /\ j \in 1 .. Len(q) - k
        BY <1>2, <1>3, <3>1, <3>2
      <4>. QED
        BY <1>2, <1>3, <1>6, <3>1, <3>2, <4>1
    <3>3. CASE ~ (k + j <= Len(q))
      <4>1. ~ (j <= Len(b)) /\ (k + j) - Len(q) = j - Len(b)
        BY <1>2, <1>3, <3>1, <3>3
      <4>. QED
        BY <1>2, <1>6, <3>1, <3>3, <4>1
    <3>. QED
      BY <3>2, <3>3
  <2>. QED
    BY <2>1, <2>2, SeqEqual
<1>. QED
  BY <1>1, <1>2, <1>3b, <1>4b, <1>5, <1>6a, <1>7

\* The parent gets READY, and both are at the beginning of the script.
LEMMA StartsInSync ==
  ASSUME CopyType, Begun, WaitReady, child # "dead", ~ ReadyEaten'
  PROVE  InSync'
<1> USE CopyAssumption
<1>1. /\ parent = "ready" /\ AtReady /\ heard' = stream[Up] /\ out = <<>>
      /\ stream' = [stream EXCEPT ![Up] = <<>>] /\ parent' = "next"
      /\ UNCHANGED <<current, pos, out, child, header, fname, remaining, copy, fifo, size>>
  BY DEF WaitReady, Begun, childVars, fileVars
<1>2. /\ child = "header" /\ header = <<>> /\ current = 1
      /\ stream'["down"] = <<>>
  <2>1. child # "start"
    BY DEF WaitReady, Begun, Up, Closed
  <2>2. CASE fifo
    <3>1. stream["down"] # <<>> /\ heard' = stream["down"]
      BY <1>1, <2>2 DEF WaitReady, Up, Closed
    <3>2. stream["down"] = Ready
      BY <1>1, <3>1 DEF ReadyEaten
    <3>. QED
      BY <1>1, <2>1, <2>2, <3>2 DEF AtReady, Up, CopyType, Streams
  <2>3. CASE ~ fifo
    BY <1>1, <2>1, <2>3 DEF AtReady, Up, CopyType, Streams
  <2>. QED
    BY <2>2, <2>3
<1>3. PICK n \in Place : /\ n = <<NextFile(size, 1), Line>>
                         /\ n[1] \in Files => size[n[1]] # Absent
  <2>1. size \in Sizes /\ 1 \in 1 .. FileCount + 1
    BY DEF CopyType
  <2>. QED
    BY <2>1, NextPlace
<1>4. Expects(n)'
  <2>1. WholeBefore(size, copy, n[1])
    BY <1>3, WholeAtFirst DEF CopyType
  <2>. QED
    BY <1>1, <1>2, <1>3, <2>1 DEF Expects
<1>5. Flow' = <<>>
  BY <1>1, <1>2 DEF Flow
<1>6. Comes' = n
  BY <1>1, <1>2, <1>3 DEF Comes
<1>7. Stretch(size, n, Flow, n)'
  BY <1>5, StretchEmpty
<1>8. Sending'
  BY <1>1 DEF Sending
<1>. QED
  BY <1>4, <1>6, <1>7, <1>8 DEF InSync

LEMMA TwoMore ==
  ASSUME NEW S, NEW q \in Seq(S), NEW x \in S, NEW y \in S
  PROVE  Append(Append(q, x), y) = q \o <<x, y>>
OBVIOUS

\* A header or END and its newline, after the units there are.
LEMMA StretchLines ==
  ASSUME NEW sz \in Sizes, NEW n, NEW q \in Seq(Unit), NEW f \in 1 .. FileCount + 1,
         Stretch(sz, n, q, <<f, Line>>), NEW x \in Unit, x = Emits(sz, <<f, Line>>),
         f \in Files => sz[f] # Absent
  PROVE  Stretch(sz, n, q \o <<x, NewLine>>, After(sz, <<f, 0>>))
<1>1. <<f, Line>> \in Place /\ <<f, 0>> \in Place
  BY DEF Place, Line
<1>2. After(sz, <<f, Line>>) = <<f, 0>>
  BY DEF After, Sizes, Absent, Line
<1>3. NewLine \in Unit /\ NewLine = Emits(sz, <<f, 0>>)
  BY UnitsAre DEF Emits, Line
<1>4. PICK r \in Seq(Unit) : r = Append(q, x)
  BY AppendItems
<1>5. Stretch(sz, n, r, <<f, 0>>)
  BY <1>1, <1>2, <1>4, StretchMore
<1>6. Stretch(sz, n, Append(r, NewLine), After(sz, <<f, 0>>))
  BY <1>1, <1>3, <1>5, StretchMore
<1>7. Append(r, NewLine) = q \o <<x, NewLine>>
  BY <1>3, <1>4, TwoMore
<1>. QED
  BY <1>6, <1>7

\* What the parent does extends the stretch.
LEMMA ParentKeeps ==
  ASSUME CopyType, CopyType', Begun, InSync, ParentStep, parent # "ready"
  PROVE  InSync'
<1> USE CopyAssumption
<1>1. UNCHANGED <<child, header, fname, remaining, copy, size, fifo>>
  BY DEF ParentStep, WaitReady, OpenFile, WritePart, SigPipe, ReadFile, CloseFile,
     SendEnd, Reap, childVars, fileVars
<1>2. CASE child = "done" /\ WholeBefore(size, copy, FileCount + 1)
  BY <1>1, <1>2 DEF InSync
<1>3. ASSUME Sending, NEW n \in Place, NEW e \in Place,
             Expects(n), Stretch(size, n, Flow, e), parent # "dead" => e = Comes
      PROVE  InSync'
  <2>1. Expects(n)'
    BY <1>1, <1>3 DEF Expects
  <2>2. SUFFICES Sending' /\ \E d \in Place : /\ Stretch(size, n, Flow', d)
                                              /\ parent' # "dead" => d = Comes'
    BY <1>1, <2>1 DEF InSync
  <2>3. PICK s \in Seq(Unit) : s = stream["down"]
    BY DEF CopyType, Streams
  <2>4. s \o out = Flow /\ out \in Seq(Unit) /\ size \in Sizes
    BY <2>3 DEF Flow, CopyType
  <2>5. s \o <<>> = s
    BY FlowOf, UnitsAre DEF CopyType
  <2>6. CASE OpenFile
    <3>1. /\ out = <<>> /\ parent = "next" /\ current \in Files
          /\ e = <<NextFile(size, current), Line>>
      BY <1>3, <2>6 DEF OpenFile, Begun, Comes
    <3>2. Stretch(size, n, s, e)
      BY <1>3, <2>4, <2>5, <3>1
    <3>3. CASE size[current] = Absent
      <4>1. /\ current' = current + 1 /\ UNCHANGED <<parent, pos, out, stream>>
        BY <2>6, <3>3 DEF OpenFile
      <4>2. Comes' = e
        BY <1>1, <3>1, <3>3, <4>1, NextFileFrom, <2>4 DEF Comes
      <4>3. Flow' = Flow
        BY <4>1 DEF Flow
      <4>. QED
        BY <1>3, <3>1, <4>1, <4>2, <4>3 DEF Sending
    <3>4. CASE size[current] # Absent
      <4>1. /\ parent' = "send" /\ pos' = 0 /\ out' = HeaderOf(current)
            /\ UNCHANGED <<current, stream>>
        BY <2>6, <3>4 DEF OpenFile
      <4>2. PICK x \in Unit : /\ x = <<"header", current, size[current]>>
                              /\ x = Emits(size, <<current, Line>>)
        <5>1. <<"header", current, size[current]>> \in Unit
          BY <2>4, <3>1, <3>4, UnitsAre DEF Sizes
        <5>. QED
          BY <3>1, <5>1 DEF Emits
      <4>3. e = <<current, Line>> /\ current \in 1 .. FileCount + 1
        BY <2>4, <3>1, <3>4, NextFileFrom DEF Files
      <4>4. Stretch(size, n, s \o <<x, NewLine>>, After(size, <<current, 0>>))
        BY <2>4, <3>2, <3>4, <4>2, <4>3, StretchLines
      <4>5. Flow' = s \o <<x, NewLine>>
        BY <1>1, <2>3, <4>1, <4>2 DEF Flow, HeaderOf
      <4>6. Comes' = After(size, <<current, 0>>)
        BY <1>1, <4>1 DEF Comes
      <4>7. After(size, <<current, 0>>) \in Place
        <5>1. <<current, 0>> \in Place
          BY <4>3 DEF Place, Line
        <5>. QED
          BY <2>4, <5>1, AfterPlace
      <4>8. Sending'
        BY <1>1, <2>4, <3>1, <3>4, <4>1 DEF Sending, Sizes, Absent
      <4>. QED
        BY <4>4, <4>5, <4>6, <4>7, <4>8
    <3>. QED
      BY <3>3, <3>4
  <2>7. CASE WritePart
    <3>1. /\ out # <<>> /\ stream' = [stream EXCEPT !["down"] = Append(@, Head(out))]
          /\ out' = Tail(out) /\ UNCHANGED <<parent, current, pos>>
      BY <2>7 DEF WritePart
    <3>2. Append(s, Head(out)) \o Tail(out) = s \o out
      BY <2>4, <3>1, FlowOf
    <3>3. Flow' = Flow
      BY <2>3, <2>4, <3>1, <3>2 DEF Flow, CopyType, Streams
    <3>4. Comes' = Comes /\ Sending'
      BY <1>1, <1>3, <3>1 DEF Comes, Sending
    <3>. QED
      BY <1>3, <3>1, <3>3, <3>4
  <2>8. CASE SigPipe
    <3>1. parent' = "dead" /\ Flow' = Flow
      BY <2>8 DEF SigPipe, Flow
    <3>. QED
      BY <1>3, <3>1 DEF Sending
  <2>9. CASE ReadFile
    <3>1. PICK upto : /\ upto = Lesser(pos + BufSize, size[current])
                      /\ out' = Portions(current, pos, upto) /\ pos' = upto
      BY <2>9 DEF ReadFile
    <3>2. /\ parent = "send" /\ out = <<>> /\ pos < size[current]
          /\ UNCHANGED <<parent, current, stream>>
      BY <2>9 DEF ReadFile
    <3>3. /\ current \in Files /\ size[current] \in Nat /\ size[current] # Absent
          /\ pos \in Nat /\ upto \in Nat /\ pos <= upto /\ upto <= size[current]
      BY <1>3, <3>1, <3>2 DEF CopyType, Sending, Sizes, Absent, Lesser
    <3>4. Stretch(size, n, s, After(size, <<current, pos>>))
      BY <1>3, <2>4, <2>5, <3>2 DEF Comes
    <3>5. Stretch(size, n, s \o Portions(current, pos, upto), After(size, <<current, upto>>))
      BY <2>4, <3>3, <3>4, StretchPortions
    <3>6. Flow' = s \o Portions(current, pos, upto)
      BY <2>3, <3>1, <3>2 DEF Flow
    <3>7. Comes' = After(size, <<current, upto>>)
      BY <1>1, <3>1, <3>2 DEF Comes
    <3>8. After(size, <<current, upto>>) \in Place
      <4>1. <<current, upto>> \in Place
        BY <3>3 DEF Place, Line, Files
      <4>. QED
        BY <2>4, <4>1, AfterPlace
    <3>9. Sending'
      BY <1>1, <3>1, <3>2, <3>3 DEF Sending
    <3>. QED
      BY <3>5, <3>6, <3>7, <3>8, <3>9
  <2>10. CASE CloseFile
    <3>1. /\ parent = "send" /\ pos >= size[current] /\ parent' = "next"
          /\ current' = current + 1 /\ UNCHANGED <<pos, out, stream>>
      BY <2>10 DEF CloseFile
    <3>2. current \in Files
      BY <3>1 DEF CopyType
    <3>3. Comes' = Comes
      BY <1>1, <3>1, <3>2 DEF Comes, After
    <3>4. Flow' = Flow /\ Sending'
      BY <3>1 DEF Flow, Sending
    <3>. QED
      BY <1>3, <3>1, <3>3, <3>4
  <2>11. CASE SendEnd
    <3>1. /\ parent = "next" /\ current \notin Files /\ parent' = "end"
          /\ out' = EndLines /\ out = <<>> /\ UNCHANGED <<current, pos, stream>>
      BY <2>11 DEF SendEnd, Begun
    <3>2. current = FileCount + 1 /\ FileCount + 1 \in 1 .. FileCount + 1
          /\ FileCount + 1 \notin Files
      BY <3>1 DEF CopyType, Files
    <3>3. e = <<FileCount + 1, Line>>
      BY <1>3, <2>4, <3>1, <3>2, NextFileFrom DEF Comes
    <3>4. PICK x \in Unit : x = <<"END">> /\ x = Emits(size, <<FileCount + 1, Line>>)
      BY <3>2, UnitsAre DEF Emits
    <3>5. Stretch(size, n, s, <<FileCount + 1, Line>>)
      BY <1>3, <2>4, <2>5, <3>1, <3>3
    <3>6. Stretch(size, n, s \o <<x, NewLine>>, After(size, <<FileCount + 1, 0>>))
      BY <2>4, <3>2, <3>4, <3>5, StretchLines
    <3>7. After(size, <<FileCount + 1, 0>>) = <<FileCount + 1, 1>>
      BY <3>2 DEF After
    <3>8. Flow' = s \o <<x, NewLine>>
      BY <2>3, <3>1, <3>4 DEF Flow, EndLines
    <3>9. Comes' = <<FileCount + 1, 1>> /\ <<FileCount + 1, 1>> \in Place /\ Sending'
      BY <3>1, <3>2 DEF Comes, Place, Line, Sending
    <3>. QED
      BY <3>6, <3>7, <3>8, <3>9
  <2>12. CASE Reap
    <3>1. parent = "end" /\ parent' = "done" /\ UNCHANGED <<current, pos, out, stream>>
      BY <2>12 DEF Reap
    <3>2. Flow' = Flow /\ Comes' = Comes /\ Sending'
      BY <3>1 DEF Flow, Comes, Sending
    <3>. QED
      BY <1>3, <3>1, <3>2
  <2>. QED
    BY <2>6, <2>7, <2>8, <2>9, <2>10, <2>11, <2>12 DEF ParentStep, WaitReady
<1>. QED
  BY <1>2, <1>3 DEF InSync

\* What the child reads takes the stretch up from its beginning.
LEMMA ReadKeeps ==
  ASSUME CopyType, Begun, InSync, ReadByte, parent # "ready"
  PROVE  InSync' \/ Lost'
<1> USE CopyAssumption
<1>1. child = "header" /\ UNCHANGED <<parent, current, pos, out, size, fifo>>
  BY DEF ReadByte, parentVars, fileVars
<1>2. PICK n \in Place, e \in Place :
        /\ Sending /\ Expects(n) /\ Stretch(size, n, Flow, e)
        /\ parent # "dead" => e = Comes
  BY <1>1 DEF InSync
<1>3. /\ n = <<n[1], n[2]>> /\ n[1] \in 1 .. FileCount + 1
      /\ n[1] \in Files => size[n[1]] # Absent
      /\ WholeBefore(size, copy, n[1])
      /\ \/ n[2] = Line /\ header = <<>>
         \/ n[2] = 0 /\ header = <<Emits(size, <<n[1], Line>>)>>
  BY <1>1, <1>2 DEF Expects, Place
<1>4. size \in Sizes
  BY DEF CopyType
<1>5. Comes' = Comes /\ Sending'
  BY <1>1, <1>2 DEF Comes, Sending
<1>6. PICK s \in Seq(Unit), r \in Seq(Unit) :
        s = stream["down"] /\ r = out /\ Flow = s \o r
  BY DEF CopyType, Streams, Flow
<1>7. NewLine # <<"END">> /\ <<>> # <<<<"END">>>>
  BY ReadyParts
<1>8. ASSUME n[1] \in Files, n[2] = 0 PROVE header # <<<<"END">>>>
  <2>1. header = <<<<"header", n[1], size[n[1]]>>>>
    BY <1>3, <1>8 DEF Emits, Line
  <2>2. header[1][1] = "header" /\ <<<<"END">>>>[1][1] = "END"
    BY <2>1
  <2>. QED
    BY <2>2
<1>9. ASSUME n[1] \notin Files, n[2] = 0
      PROVE  header = <<<<"END">>>> /\ n[1] = FileCount + 1
  BY <1>3, <1>9 DEF Emits, Line, Files
<1>10. CASE /\ s # <<>> /\ stream' = [stream EXCEPT !["down"] = Tail(@)]
            /\ IF Head(s) = NewLine THEN HandleLine
               ELSE /\ header' = Append(header, Head(s))
                    /\ UNCHANGED <<child, fname, remaining, copy>>
  <2>1. stream'["down"] = Tail(s)
    BY <1>6, <1>10 DEF CopyType, Streams
  <2>2. Flow # <<>> /\ Head(Flow) = Head(s) /\ Tail(Flow) = Tail(s) \o r /\ Flow \in Seq(Unit)
    BY <1>6, <1>10, FlowOf, ConcatProperties
  <2>3. Flow' = Tail(Flow)
    BY <1>1, <1>6, <2>1, <2>2 DEF Flow
  <2>4. Head(s) = Emits(size, n) /\ Stretch(size, After(size, n), Flow', e)
    BY <1>2, <2>2, <2>3, StretchTail
  <2>5. SUFFICES ASSUME NEW m \in Place, m = After(size, n)
                 PROVE  Expects(m)' \/ (child' = "done" /\ WholeBefore(size, copy', FileCount + 1))
    <3>1. After(size, n) \in Place
      BY <1>4, AfterPlace
    <3>. QED
      BY <1>1, <1>2, <1>5, <2>4, <3>1 DEF InSync
  <2>6. CASE n[2] = Line
    <3>1. header = <<>>
      BY <1>3, <2>6 DEF Line
    <3>2. m = <<n[1], 0>>
      BY <1>3, <1>4, <2>5, <2>6 DEF After, Line, Sizes, Absent
    <3>3. Emits(size, n) = Emits(size, <<n[1], Line>>) /\ Emits(size, n) # NewLine
      BY <1>3, <1>7, <2>6 DEF Emits, NewLine
    <3>4. header' = Append(header, Head(s)) /\ UNCHANGED <<child, copy>>
      BY <1>10, <2>4, <3>3
    <3>5. header' = <<Emits(size, <<n[1], Line>>)>>
      BY <2>4, <3>1, <3>3, <3>4
    <3>. QED
      BY <1>1, <1>3, <3>2, <3>4, <3>5 DEF Expects
  <2>7. CASE n[2] = 0 /\ n[1] \in Files
    <3>1. PICK f \in Files : f = n[1]
      BY <2>7
    <3>2. HandleLine
      BY <1>10, <2>4, <2>7 DEF Emits, Line
    <3>3. header = <<<<"header", f, size[f]>>>>
      BY <1>3, <2>7, <3>1 DEF Emits, Line
    <3>4. FileNamed(header) = {f} /\ SizeNamed(header) = {size[f]}
      <4>1. Len(header) = 1 /\ header # <<>> /\ header[1] = <<"header", f, size[f]>>
        BY <3>3
      <4>2. header[1][1] = "header" /\ header[1][2] = f /\ header[1][3] = size[f]
        BY <4>1
      <4>. QED
        BY <4>1, <4>2 DEF FileNamed, SizeNamed
    <3>5. /\ fname' = f /\ remaining' = size[f] /\ header' = <<>>
          /\ copy' = [copy EXCEPT ![f] = <<>>]
          /\ child' = IF size[f] > 0 THEN "data" ELSE "header"
      BY <1>8, <2>7, <3>1, <3>2, <3>4 DEF HandleLine
    <3>6. /\ copy'[f] = Portions(f, 0, 0)
          /\ \A g \in Files : g # f => copy'[g] = copy[g]
      <4>1. Portions(f, 0, 0) = <<>>
        BY PortionsNone
      <4>. QED
        BY <3>5, <4>1 DEF CopyType
    <3>7. size[f] \in Nat
      BY <1>3, <1>4, <3>1 DEF Sizes
    <3>8. CASE size[f] > 0
      <4>1. m = <<f, 1>>
        BY <2>5, <2>7, <3>1, <3>7, <3>8 DEF After
      <4>2. WholeBefore(size, copy', f)
        BY <1>3, <3>1, <3>6 DEF WholeBefore, Files
      <4>. QED
        BY <1>1, <1>3, <3>1, <3>5, <3>6, <3>7, <3>8, <4>1, <4>2 DEF Expects
    <3>9. CASE ~ (size[f] > 0)
      <4>1. size[f] = 0
        BY <3>7, <3>9
      <4>2. m = <<NextFile(size, f + 1), Line>>
        BY <2>5, <2>7, <3>1, <4>1 DEF After
      <4>3. WholeBefore(size, copy', NextFile(size, f + 1))
        BY <1>3, <1>4, <3>1, <3>6, <4>1, WholeNext
      <4>4. NextFile(size, f + 1) \in Files => size[NextFile(size, f + 1)] # Absent
        <5>1. f + 1 \in 1 .. FileCount + 1
          BY DEF Files
        <5>. QED
          BY <1>4, <5>1, NextPlace
      <4>. QED
        BY <1>1, <3>5, <3>9, <4>2, <4>3, <4>4 DEF Expects
    <3>. QED
      BY <3>8, <3>9
  <2>8. CASE n[2] = 0 /\ n[1] \notin Files
    <3>1. HandleLine
      BY <1>10, <2>4, <2>8 DEF Emits, Line
    <3>2. child' = "done" /\ copy' = copy
      BY <1>9, <2>8, <3>1 DEF HandleLine
    <3>. QED
      BY <1>3, <1>9, <2>8, <3>2
  <2>. QED
    BY <1>3, <2>6, <2>7, <2>8
<1>11. CASE s = <<>> /\ Closed(parent) /\ HandleLine /\ UNCHANGED stream
  <2>1. parent = "dead"
    BY <1>1, <1>11 DEF Closed, Begun
  <2>2. NoEnd(stream'["down"])
    <3>1. NoEnd(<<>>)
      BY DEF NoEnd
    <3>. QED
      BY <1>6, <1>11, <3>1
  <2>3. CASE header # <<<<"END">>>>
    <3>1. child' \in {"data", "header"} /\ header' = <<>>
      BY <1>11, <2>3, NotTheEnd
    <3>. QED
      BY <1>1, <1>7, <2>1, <2>2, <3>1 DEF Lost
  <2>4. CASE header = <<<<"END">>>>
    <3>1. n[1] = FileCount + 1
      BY <1>3, <1>7, <1>8, <1>9, <2>4
    <3>2. child' = "done" /\ copy' = copy
      BY <1>11, <2>4 DEF HandleLine
    <3>. QED
      BY <1>1, <1>3, <3>1, <3>2 DEF InSync
  <2>. QED
    BY <2>3, <2>4
<1>. QED
  BY <1>6, <1>10, <1>11 DEF ReadByte

LEMMA CopyKeeps ==
  ASSUME CopyType, Begun, InSync, CopyData, parent # "ready"
  PROVE  InSync'
<1> USE CopyAssumption
<1>1. /\ child = "data" /\ stream["down"] # <<>>
      /\ UNCHANGED <<parent, current, pos, out, size, fifo, header, fname>>
  BY DEF CopyData, parentVars, fileVars
<1>2. PICK n \in Place, e \in Place :
        /\ Sending /\ Expects(n) /\ Stretch(size, n, Flow, e)
        /\ parent # "dead" => e = Comes
  BY <1>1 DEF InSync
<1>3. PICK f \in Files, i \in 1 .. size[fname] :
        /\ f = fname /\ n = <<f, i>> /\ size[f] # Absent /\ WholeBefore(size, copy, f)
        /\ header = <<>> /\ remaining = size[f] + 1 - i /\ copy[f] = Portions(f, 0, i - 1)
  <2>1. n = <<n[1], n[2]>>
    BY DEF Place
  <2>. QED
    BY <1>1, <1>2, <2>1 DEF Expects
<1>4. size \in Sizes /\ size[f] \in Nat /\ i \in Nat /\ i >= 1 /\ i <= size[f]
      /\ remaining \in Nat /\ remaining > 0
  BY <1>3 DEF CopyType, Sizes
<1>5. Comes' = Comes /\ Sending'
  BY <1>1, <1>2 DEF Comes, Sending
<1>6. PICK s \in Seq(Unit), r \in Seq(Unit) :
        s = stream["down"] /\ r = out /\ Flow = s \o r
  BY DEF CopyType, Streams, Flow
<1>7. PICK k \in 1 .. Len(s) : k = Portion /\ k <= remaining
  <2>1. Portion \in 0 .. Len(s) /\ remaining - Portion \in Nat /\ Portion >= 1
    BY <1>1, <1>4, <1>6, PortionIs
  <2>2. Portion \in 1 .. Len(s) /\ Portion <= remaining
    BY <1>4, <2>1
  <2>. QED
    BY <2>2
<1>8. k \in Nat /\ k >= 1
  BY <1>6
<1>9. /\ stream' = [stream EXCEPT !["down"] = SubSeq(@, k + 1, Len(@))]
      /\ copy' = [copy EXCEPT ![f] = @ \o SubSeq(s, 1, k)]
      /\ remaining' = remaining - k
      /\ child' = IF remaining' > 0 THEN "data" ELSE "header"
  BY <1>3, <1>6, <1>7 DEF CopyData
<1>10. PICK q \in Seq(Unit) : q = Flow
  BY <1>6, ConcatProperties
<1>11. /\ SubSeq(q, 1, k) = SubSeq(s, 1, k)
       /\ SubSeq(q, k + 1, Len(q)) = SubSeq(s, k + 1, Len(s)) \o r
       /\ k \in 1 .. Len(q)
  <2>1. SubSeq(s \o r, 1, k) = SubSeq(s, 1, k)
    BY FlowCut
  <2>2. SubSeq(s \o r, k + 1, Len(s \o r)) = SubSeq(s, k + 1, Len(s)) \o r
    BY FlowCut
  <2>3. k \in 1 .. Len(s \o r)
    BY FlowCut
  <2>. QED
    BY <1>6, <1>10, <2>1, <2>2, <2>3
<1>12. Flow' = SubSeq(q, k + 1, Len(q))
  <2>1. stream'["down"] = SubSeq(s, k + 1, Len(s))
    BY <1>6, <1>9 DEF CopyType, Streams
  <2>. QED
    BY <1>1, <1>6, <1>11, <2>1 DEF Flow
<1>13. PICK from \in Nat, upto \in Nat :
         /\ from = i - 1 /\ upto = i - 1 + k /\ upto = from + k /\ upto <= size[f]
         /\ remaining' = size[f] - upto
  <2>1. /\ i - 1 \in Nat /\ i - 1 + k \in Nat /\ i - 1 + k = (i - 1) + k
        /\ i - 1 + k <= size[f] /\ remaining' = size[f] - (i - 1 + k)
    BY <1>3, <1>4, <1>7, <1>8, <1>9
  <2>. QED
    BY <2>1
<1>14. /\ SubSeq(q, 1, k) = Portions(f, from, upto)
       /\ Stretch(size, After(size, <<f, upto>>), SubSeq(q, k + 1, Len(q)), e)
  <2>1. /\ size \in Sizes /\ size[f] # Absent /\ i \in 1 .. size[f] /\ k \in 1 .. Len(q)
        /\ Stretch(size, <<f, i>>, q, e)
        /\ i = from + 1 /\ upto = from + k /\ upto <= size[f]
    BY <1>2, <1>3, <1>4, <1>10, <1>11, <1>13
  <2>2. SubSeq(q, 1, k) = Portions(f, from, upto)
    <3>1. IsRun(SubSeq(q, 1, k), f, from, k)
      BY <2>1, StretchData
    <3>. QED
      BY <1>8, <2>1, <3>1, PortionsSame
  <2>3. Stretch(size, After(size, <<f, upto>>), SubSeq(q, k + 1, Len(q)), e)
    BY <2>1, StretchData
  <2>. QED
    BY <2>2, <2>3
<1>15. copy'[f] = Portions(f, 0, upto) /\ \A g \in Files : g # f => copy'[g] = copy[g]
  <2>1. copy'[f] = Portions(f, 0, from) \o Portions(f, from, upto)
    BY <1>3, <1>9, <1>11, <1>13, <1>14 DEF CopyType
  <2>2. Portions(f, 0, from) \o Portions(f, from, upto) = Portions(f, 0, upto)
    <3>1. k \in Nat /\ upto = from + k
      BY <1>8, <1>13
    <3>. QED
      BY <3>1, PortionsJoin
  <2>. QED
    BY <1>9, <2>1, <2>2 DEF CopyType
<1>16. PICK m \in Place : m = After(size, <<f, upto>>)
  <2>1. <<f, upto>> \in Place
    BY DEF Place, Line, Files
  <2>. QED
    BY <1>4, <2>1, AfterPlace
<1>17. Expects(m)'
  <2>1. CASE upto = size[f]
    <3>1. m = <<NextFile(size, f + 1), Line>>
      BY <1>16, <2>1, <1>4 DEF After
    <3>2. WholeBefore(size, copy', NextFile(size, f + 1))
      BY <1>3, <1>4, <1>15, <2>1, WholeNext
    <3>3. NextFile(size, f + 1) \in Files => size[NextFile(size, f + 1)] # Absent
      <4>1. f + 1 \in 1 .. FileCount + 1
        BY DEF Files
      <4>. QED
        BY <1>4, <4>1, NextPlace
    <3>4. child' = "header" /\ header' = <<>>
      BY <1>1, <1>3, <1>4, <1>9, <1>13, <2>1
    <3>. QED
      BY <1>1, <3>1, <3>2, <3>3, <3>4 DEF Expects
  <2>2. CASE upto # size[f]
    <3>1. PICK j \in Nat : j = upto + 1 /\ j - 1 = upto /\ j \in 1 .. size[f]
      <4>1. upto + 1 \in Nat /\ upto + 1 - 1 = upto /\ upto + 1 \in 1 .. size[f]
        BY <1>4, <1>13, <2>2, SMTT(30)
      <4>. QED
        BY <4>1
    <3>2. m = <<f, j>>
      BY <1>4, <1>13, <1>16, <2>2, <3>1 DEF After
    <3>3. WholeBefore(size, copy', f)
      BY <1>3, <1>15 DEF WholeBefore, Files
    <3>4. child' = "data" /\ header' = <<>> /\ remaining' = size[f] + 1 - j
      BY <1>1, <1>3, <1>4, <1>9, <1>13, <2>2, <3>1, SMTT(30)
    <3>. QED
      BY <1>1, <1>3, <1>15, <3>1, <3>2, <3>3, <3>4 DEF Expects
  <2>. QED
    BY <2>1, <2>2
<1>. QED
  BY <1>1, <1>2, <1>5, <1>12, <1>14, <1>16, <1>17 DEF InSync

-----------------------------------------------------------------------------
(***************************************************************************)
(* The inductive invariant: unless something spoils the copies, the two    *)
(* are in step once the parent has READY, or END will never come.          *)
(***************************************************************************)
Unspoiled == ~ disturbed /\ ~ ReadyEaten /\ parent # "ready" /\ child # "dead"

ICopy == CopyType /\ Begun /\ (Unspoiled => InSync \/ Lost)

LEMMA CopyStarts ==
  ASSUME CopyInit
  PROVE  ICopy
<1> USE CopyAssumption
<1>1. <<>> \in Seq(Unit) /\ 1 \in 1 .. FileCount + 1 /\ <<>> # <<<<"END">>>>
  BY UnitsAre, ReadyParts
<1>2. CopyType
  BY <1>1 DEF CopyInit, CopyType, Sizes, Streams
<1>3. Begun
  BY <1>1 DEF CopyInit, Begun, AtReady
<1>4. ~ Unspoiled
  BY DEF CopyInit, Unspoiled
<1>. QED
  BY <1>2, <1>3, <1>4 DEF ICopy

\* Whatever happens before the parent has READY.
LEMMA KilledAtReady ==
  ASSUME CopyType, Begun, Killed, parent = "ready", Unspoiled'
  PROVE  Lost'
<1>1. /\ parent' = "dead" /\ child # "done" /\ AtReady
      /\ UNCHANGED <<child, header, stream>>
  BY DEF Killed, Unspoiled, Begun
<1>2. NoEnd(<<>>) /\ NoEnd(<<NewLine>>) /\ NoEnd(Ready)
  BY ReadyParts DEF NoEnd, Ready, NewLine
<1>3. NoEnd(stream["down"])
  BY <1>1, <1>2 DEF AtReady
<1>. QED
  BY <1>1, <1>3 DEF Lost, AtReady

LEMMA SyncKept ==
  ASSUME CopyType, CopyType', Begun, Unspoiled => InSync \/ Lost, CopyNext, Unspoiled'
  PROVE  InSync' \/ Lost'
<1>1. ~ FileChanges
  BY DEF FileChanges, Unspoiled
<1>2. ~ disturbed
  BY <1>1 DEF CopyNext, ParentStep, WaitReady, OpenFile, WritePart, SigPipe, ReadFile,
     CloseFile, SendEnd, Reap, ChildStep, SendReady, ReadByte, CopyData, DataEnds, Killed,
     fileVars, Unspoiled
<1>3. child # "dead"
  <2>1. child = "dead" => ~ ChildStep
    BY DEF ChildStep, SendReady, ReadByte, CopyData, DataEnds
  <2>2. ParentStep => child' = child
    BY DEF ParentStep, WaitReady, OpenFile, WritePart, SigPipe, ReadFile, CloseFile,
       SendEnd, Reap, childVars
  <2>3. Killed => child # "dead"
    BY DEF Killed
  <2>. QED
    BY <1>1, <2>1, <2>2, <2>3 DEF CopyNext, Unspoiled
<1>4. CASE parent = "ready"
  <2>1. CASE WaitReady
    BY <1>3, <2>1, StartsInSync DEF Unspoiled
  <2>2. CASE Killed
    BY <1>4, <2>2, KilledAtReady
  <2>3. ~ ChildStep
    BY <1>4 DEF ChildStep, SendReady, ReadByte, CopyData, DataEnds, parentVars, Unspoiled
  <2>4. ParentStep => WaitReady
    BY <1>4 DEF ParentStep, OpenFile, WritePart, SigPipe, ReadFile, CloseFile, SendEnd,
       Reap, Begun, Unspoiled
  <2>. QED
    BY <1>1, <2>1, <2>2, <2>3, <2>4 DEF CopyNext
<1>5. CASE parent # "ready"
  <2>1. heard' = heard
    BY <1>1, <1>5 DEF CopyNext, ParentStep, WaitReady, OpenFile, WritePart, SigPipe, ReadFile,
       CloseFile, SendEnd, Reap, ChildStep, SendReady, ReadByte, CopyData, DataEnds, Killed,
       parentVars
  <2>2. ~ ReadyEaten
    BY <1>5, <2>1 DEF ReadyEaten, Unspoiled
  <2>3. InSync \/ Lost
    BY <1>2, <1>3, <1>5, <2>2 DEF Unspoiled
  <2>4. CASE Lost
    BY <2>4, LostKept
  <2>5. CASE InSync
    <3>1. CASE ParentStep
      BY <1>5, <2>5, <3>1, ParentKeeps
    <3>2. CASE ReadByte
      BY <1>5, <2>5, <3>2, ReadKeeps
    <3>3. CASE CopyData
      BY <1>5, <2>5, <3>3, CopyKeeps
    <3>4. CASE SendReady
      BY <2>5, <3>4 DEF SendReady, InSync, Expects
    <3>5. CASE DataEnds
      <4>1. /\ parent = "dead" /\ header = <<>> /\ child = "data" /\ stream["down"] = <<>>
            /\ parent' = parent /\ child' = "header" /\ header' = header /\ stream' = stream
        BY <2>5, <3>5 DEF DataEnds, InSync, Expects, Begun, Closed, parentVars
      <4>2. NoEnd(<<>>) /\ <<>> # <<<<"END">>>>
        BY ReadyParts DEF NoEnd
      <4>. QED
        BY <4>1, <4>2 DEF Lost
    <3>6. CASE Killed
      <4>1. /\ parent' = "dead"
            /\ UNCHANGED <<child, current, pos, out, header, fname, remaining, copy, size, stream>>
        BY <3>6 DEF Killed, fileVars, Unspoiled
      <4>2. \A n \in Place : Expects(n) => Expects(n)'
        BY <4>1 DEF Expects
      <4>3. Flow' = Flow /\ Sending'
        BY <4>1 DEF Flow, Sending
      <4>. QED
        BY <2>5, <4>1, <4>2, <4>3 DEF InSync
    <3>. QED
      BY <1>1, <3>1, <3>2, <3>3, <3>4, <3>5, <3>6 DEF CopyNext, ChildStep
  <2>. QED
    BY <2>3, <2>4, <2>5
<1>. QED
  BY <1>4, <1>5

LEMMA CopyKept ==
  ASSUME ICopy, [CopyNext]_copyVars
  PROVE  ICopy'
<1>1. CASE CopyNext
  <2>1. CopyType' /\ Begun'
    BY <1>1, CopyTypes, BegunKept DEF ICopy
  <2>. QED
    BY <1>1, <2>1, SyncKept DEF ICopy
<1>2. CASE UNCHANGED copyVars
  <2>1. UNCHANGED <<parent, current, pos, out, heard, child, header, fname, remaining, copy,
                    fifo, size, disturbed, stream>>
    BY <1>2 DEF copyVars, parentVars, childVars, fileVars
  <2>2. CopyType' /\ Begun'
    BY <2>1 DEF ICopy, CopyType, Begun, AtReady
  <2>3. Unspoiled' => Unspoiled
    BY <2>1 DEF Unspoiled, ReadyEaten
  <2>4. Lost => Lost'
    BY <2>1 DEF Lost
  <2>5. InSync => InSync'
    <3>1. \A n \in Place : Expects(n) => Expects(n)'
      BY <2>1 DEF Expects
    <3>2. Flow' = Flow /\ Comes' = Comes /\ Sending' = Sending
      BY <2>1 DEF Flow, Comes, Sending
    <3>. QED
      BY <2>1, <3>1, <3>2 DEF InSync
  <2>. QED
    BY <2>2, <2>3, <2>4, <2>5 DEF ICopy
<1>. QED
  BY <1>1, <1>2

\* A child that is done is not lost, and READY had been heard.
LEMMA CopyIsWhole ==
  ASSUME ICopy
  PROVE  CopiesEqual
<1>1. SUFFICES ASSUME child = "done", ~ disturbed, ~ ReadyEaten
               PROVE  \A f \in Files : size[f] # Absent => copy[f] = Portions(f, 0, size[f])
  BY DEF CopiesEqual
<1>2. Unspoiled
  BY <1>1 DEF ICopy, Begun, AtReady, Unspoiled
<1>3. WholeBefore(size, copy, FileCount + 1)
  BY <1>1, <1>2 DEF ICopy, InSync, Lost, Expects
<1>. QED
  BY <1>3, CopyAssumption DEF WholeBefore, Files

(***************************************************************************)
(* Every copy is equal to its file when the child has come to END          *)
(* (child_work and parent_work of module3/1), for any number of files, any *)
(* sizes, any BUF_SIZE and any capacity of the pipe.                       *)
(***************************************************************************)
THEOREM CopiesAreEqual == CopySpec => []CopiesEqual
<1>1. CopyInit => ICopy
  BY CopyStarts
<1>2. ICopy /\ [CopyNext]_copyVars => ICopy'
  BY CopyKept
<1>3. ICopy => CopiesEqual
  BY CopyIsWhole
<1>. QED
  BY <1>1, <1>2, <1>3, PTL DEF CopySpec
=============================================================================
