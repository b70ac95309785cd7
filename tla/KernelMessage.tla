---------------------------- MODULE KernelMessage ----------------------------
(***************************************************************************)
(* The message kept by the character device (module5/4) and by the /proc   *)
(* entry (module5/2): read and written by any number of processes without  *)
(* a lock.  Writes are numbered as they begin; 0 is the text the module    *)
(* starts with.  The copies to and from the user go character by           *)
(* character, a character being known by the write it came with.           *)
(***************************************************************************)
EXTENDS Integers, Sequences, FiniteSets

CONSTANTS
  MaxWrites,       \* bound: the writes
  Lens, Wants,     \* bound: the lengths given to a write, asked of a read
  Readers,
  BufLen,          \* BUF_LEN, BUFFER_SIZE
  HelloLen         \* the length of the first text

ASSUME MessageAssumption ==
  /\ MaxWrites \in Nat /\ Lens \cup Wants \subseteq Nat /\ BufLen \in Nat \ {0, 1}
  /\ HelloLen \in 0 .. BufLen

VARIABLES
  driver,                  \* "char" or "proc"
  message, msg_size,
  wr,                      \* the calls of dev_write, my_proc_write
  rd,                      \* the calls of dev_read, my_proc_read
  last, overlapped         \* history: the last write to begin; those during
                           \* which another one was under way

messageVars == <<driver, message, msg_size, wr, rd, last, overlapped>>

Writes == 1 .. MaxWrites
NoWrite == -1
Zero == [by |-> NoWrite, nl |-> FALSE]
Char(w, nl) == [by |-> w, nl |-> nl]
Fewer(a, b) == IF a < b THEN a ELSE b

Under == {w \in Writes : wr[w].at \notin {"none", "done", "failed"}}
Finished == {0} \cup {w \in Writes : wr[w].at \in {"done", "failed"}}

Idle(offset) == [at |-> "none", offset |-> offset, want |-> 0, len |-> 0,
                 got |-> <<>>, seen |-> NoWrite, banned |-> {}]

MessageInit ==
  /\ driver \in {"char", "proc"}
  /\ message = [i \in 0 .. BufLen - 1 |->
                  IF i < HelloLen THEN Char(0, i = HelloLen - 1) ELSE Zero]
  /\ msg_size = HelloLen
  /\ wr = [w \in Writes |-> [at |-> "none", len |-> 0, nl |-> FALSE, next |-> 0,
                             loaded |-> 0, before |-> {}, wiped |-> FALSE]]
  /\ rd = [r \in Readers |-> Idle(0)]
  /\ last = 0 /\ overlapped = {}

Go(w, a) == wr' = [wr EXCEPT ![w].at = a]
-----------------------------------------------------------------------------
(***************************************************************************)
(* A write: len is cut to the buffer; nl: the text ends in a newline.      *)
(***************************************************************************)
WriteBegins(w) ==
  /\ w = last + 1
  /\ \E n \in Lens, nl \in BOOLEAN :
       wr' = [wr EXCEPT ![w] =
         [at |-> IF driver = "char" THEN "memset" ELSE "copy",
          len |-> Fewer(n, BufLen), nl |-> nl /\ n \in 1 .. BufLen, next |-> 0,
          loaded |-> 0, before |-> Finished, wiped |-> FALSE]]
  /\ last' = w
  /\ overlapped' = IF Under = {} THEN overlapped ELSE overlapped \cup Under \cup {w}
  /\ UNCHANGED <<driver, message, msg_size, rd>>

\* Mutant: the old text stays until it is written over.
NoMemset(w) ==
  /\ wr[w].at = "memset"
  /\ wr' = [wr EXCEPT ![w].at = "copy", ![w].wiped = TRUE]
  /\ UNCHANGED <<driver, message, msg_size, rd, last, overlapped>>

\* memset(message, 0, BUF_LEN)
Memset(w) ==
  /\ wr[w].at = "memset"
  /\ message' = [i \in DOMAIN message |-> Zero]
  /\ wr' = [wr EXCEPT ![w].at = "copy", ![w].wiped = TRUE]
  /\ UNCHANGED <<driver, msg_size, rd, last, overlapped>>

\* copy_from_user() puts zeros in place of what it cannot read.
CopyIn(w) ==
  /\ wr[w].at = "copy" /\ wr[w].next < wr[w].len
  /\ \/ /\ message' = [message EXCEPT ![wr[w].next] =
                         Char(w, wr[w].nl /\ wr[w].next = wr[w].len - 1)]
        /\ wr' = [wr EXCEPT ![w].next = @ + 1]
     \/ /\ message' = [i \in DOMAIN message |->
                         IF i \in wr[w].next .. wr[w].len - 1 THEN Zero ELSE message[i]]
        /\ wr' = [wr EXCEPT ![w].at = "failed", ![w].next = 0]
  /\ UNCHANGED <<driver, msg_size, rd, last, overlapped>>

SetSize(w) ==
  /\ wr[w].at = "copy" /\ wr[w].next = wr[w].len
  /\ msg_size' = wr[w].len
  /\ wr' = [wr EXCEPT ![w].at = "ending", ![w].next = 0]
  /\ UNCHANGED <<driver, message, rd, last, overlapped>>

\* message[len - 1] is looked at even when len is 0.
EndsInNewline(w) == IF wr[w].len = 0 THEN BOOLEAN ELSE {message[wr[w].len - 1].nl}

\* The device adds a newline, if there is none and there is room.
EndLine(w) ==
  /\ driver = "char" /\ wr[w].at = "ending"
  /\ \E nl \in EndsInNewline(w) :
       IF nl \/ wr[w].len >= BufLen - 1
         THEN Go(w, "done") /\ UNCHANGED message
         ELSE /\ message' = [message EXCEPT ![wr[w].len] = Char(w, TRUE)]
              /\ Go(w, "count")
  /\ UNCHANGED <<driver, msg_size, rd, last, overlapped>>

\* size_of_message++ is a load and a store, and another write may come between.
\* The build need not load it: it may still have at hand what it stored itself.
LoadSize(w) ==
  /\ wr[w].at = "count"
  /\ \E n \in {wr[w].len, msg_size} :
       wr' = [wr EXCEPT ![w].at = "store", ![w].loaded = n]
  /\ UNCHANGED <<driver, message, msg_size, rd, last, overlapped>>

CountLine(w) ==
  /\ wr[w].at = "store"
  /\ msg_size' = wr[w].loaded + 1
  /\ Go(w, "done")
  /\ UNCHANGED <<driver, message, rd, last, overlapped>>

\* The /proc entry ends the text with a zero, in its last place if it is full; the
\* size, too, is loaded again or still at hand.
EndString(w) ==
  /\ driver = "proc" /\ wr[w].at = "ending"
  /\ \E n \in {wr[w].len, msg_size} :
       message' = [message EXCEPT ![Fewer(n, BufLen - 1)] = Zero]
  /\ Go(w, "done")
  /\ UNCHANGED <<driver, msg_size, rd, last, overlapped>>
-----------------------------------------------------------------------------
(***************************************************************************)
(* A read of an open file; the build loads the size once.                  *)
(***************************************************************************)
Banned == UNION {wr[w].before : w \in {v \in Writes : wr[v].wiped}}

ReadBegins(r) ==
  /\ rd[r].at # "copy"
  /\ \E n \in Wants :
       LET more == rd[r].offset < msg_size
       IN  rd' = [rd EXCEPT ![r] =
             [at |-> IF more THEN "copy" ELSE "returned",
              offset |-> rd[r].offset, want |-> n,
              len |-> IF more THEN Fewer(n, msg_size - rd[r].offset) ELSE 0,
              got |-> <<>>, seen |-> IF Under = {} THEN last ELSE NoWrite,
              banned |-> Banned]]
  /\ UNCHANGED <<driver, message, msg_size, wr, last, overlapped>>

\* Two writes at once may count a size beyond the buffer (LoadSize); what lies
\* there is the text of none.
TextAt(i) == IF i \in DOMAIN message THEN message[i].by ELSE NoWrite

CopyOut(r) ==
  /\ rd[r].at = "copy" /\ Len(rd[r].got) < rd[r].len
  /\ rd' = [rd EXCEPT ![r].got = Append(@, TextAt(rd[r].offset + Len(@)))]
  /\ UNCHANGED <<driver, message, msg_size, wr, last, overlapped>>

\* copy_to_user() has done all of it, or has failed.
ReadEnds(r) ==
  /\ rd[r].at = "copy"
  /\ rd' = IF Len(rd[r].got) = rd[r].len
             THEN [rd EXCEPT ![r].at = "returned", ![r].offset = @ + rd[r].len]
             ELSE [rd EXCEPT ![r] = Idle(rd[r].offset)]
  /\ UNCHANGED <<driver, message, msg_size, wr, last, overlapped>>

MessageNext ==
  \/ \E w \in Writes :
       \/ WriteBegins(w) \/ Memset(w) \/ CopyIn(w) \/ SetSize(w)
       \/ EndLine(w) \/ LoadSize(w) \/ CountLine(w) \/ EndString(w)
  \/ \E r \in Readers : ReadBegins(r) \/ CopyOut(r) \/ ReadEnds(r)

MessageSpec == MessageInit /\ [][MessageNext]_messageVars
-----------------------------------------------------------------------------
\* What a write that had the buffer for itself leaves behind: sizes and text.
SizesAfter(w) ==
  IF w = 0 THEN {HelloLen}
  ELSE IF driver = "proc" THEN {wr[w].len}
  ELSE IF wr[w].len = 0 THEN {0, 1}
  ELSE IF wr[w].nl \/ wr[w].len >= BufLen - 1 THEN {wr[w].len}
  ELSE {wr[w].len + 1}

TextAfter(w, i) == IF driver = "proc" /\ w # 0 /\ i = BufLen - 1 THEN NoWrite ELSE w

(***************************************************************************)
(* However writes and reads overlap, and wherever a copy fails: a read     *)
(* during which nothing is written returns what the last write left, if    *)
(* that one succeeded and had no other beside it, whatever earlier failed  *)
(* or overlapping writes had made of the message; and from the device no   *)
(* read gets a character of a write that was over before another one began *)
(* that had already cleared the message, even if this one failed.          *)
(***************************************************************************)
NoStaleText ==
  \A r \in Readers :
    /\ rd[r].at = "returned" /\ rd[r].seen = last
         /\ last \in Finished \ overlapped /\ (last = 0 \/ wr[last].at = "done") =>
       LET from == rd[r].offset - rd[r].len
       IN  /\ \E n \in SizesAfter(last) :
                rd[r].len = IF from >= n THEN 0 ELSE Fewer(rd[r].want, n - from)
           /\ \A i \in 1 .. rd[r].len :
                rd[r].got[i] = TextAfter(last, from + i - 1)
    /\ driver = "char" => \A i \in DOMAIN rd[r].got : rd[r].got[i] \notin rd[r].banned
=============================================================================
