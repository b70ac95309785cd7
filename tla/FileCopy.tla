------------------------------ MODULE FileCopy ------------------------------
(***************************************************************************)
(* Copying files to a child process (module3/1): over two pipes, or, with  *)
(* -p, over one FIFO that serves both directions.  A stream is a sequence  *)
(* of units: READY, a newline, a header (file and size), END, or a portion *)
(* of a file's data; the data hold no line that reads as a header.  Each   *)
(* read() and each portion of a write() is a step.  A file is its place    *)
(* among the arguments.                                                    *)
(***************************************************************************)
EXTENDS Integers, Sequences

CONSTANTS
  FileCount,     \* the files named on the command line
  FileSizes,     \* bound: how many portions of data a file may have
  BufSize,       \* BUF_SIZE, in portions
  Room           \* what the kernel keeps of a stream, in units

ASSUME CopyAssumption ==
  FileCount \in Nat /\ FileSizes \subseteq Nat /\ BufSize \in Nat \ {0} /\ Room \in Nat \ {0, 1}

VARIABLES
  fifo,                       \* -p
  size,                       \* the files; Absent: it cannot be opened
  parent, current, pos, out,  \* parent_work: control, i, fd_in, what is left
                              \* of the write() under way
  heard,                      \* what parent_work read as READY
  child, header, fname, remaining,  \* child_work
  copy,                       \* the copies
  stream,                     \* what is in the pipes
  disturbed                   \* history: a file changed while it was sent

parentVars == <<parent, current, pos, out, heard>>
childVars == <<child, header, fname, remaining, copy>>
fileVars == <<fifo, size, disturbed>>
copyVars == <<parentVars, childVars, fileVars, stream>>

Files == 1 .. FileCount
Absent == -1
Other == 0                    \* a name that is none of the files'

NewLine == <<"newline">>
Ready == <<<<"READY">>, NewLine>>
EndLines == <<<<"END">>, NewLine>>
HeaderOf(f) == <<<<"header", f, size[f]>>, NewLine>>
Portions(f, from, to) == [k \in 1 .. to - from |-> <<"data", f, from + k>>]

Lesser(a, b) == IF a < b THEN a ELSE b

\* The stream to the parent: with -p there is only one.
Up == IF fifo THEN "down" ELSE "up"

\* No more bytes will come: the FIFO is open for writing at the reader itself.
Closed(writer) == ~fifo /\ writer \in {"dead", "done"}

CopyInit ==
  /\ fifo \in BOOLEAN /\ size \in [Files -> FileSizes \cup {Absent}]
  /\ parent = "ready" /\ current = 1 /\ pos = 0 /\ out = <<>> /\ heard = <<>>
  /\ child = "start" /\ header = <<>> /\ fname = Other /\ remaining = 0
  /\ copy = [f \in Files |-> <<>>]
  /\ stream = [s \in {"down", "up"} |-> <<>>]
  /\ disturbed = FALSE
-----------------------------------------------------------------------------
(***************************************************************************)
(* The parent.                                                             *)
(***************************************************************************)

\* read(fd_read, buf): all that is there, or the end of the stream.
WaitReady ==
  /\ parent = "ready"
  /\ stream[Up] # <<>> \/ Closed(child)
  /\ heard' = stream[Up]
  /\ stream' = [stream EXCEPT ![Up] = <<>>]
  /\ parent' = "next"
  /\ UNCHANGED <<current, pos, out, childVars, fileVars>>

\* open() and fstat()
OpenFile ==
  /\ parent = "next" /\ current \in Files
  /\ IF size[current] = Absent
       THEN current' = current + 1 /\ UNCHANGED <<parent, pos, out>>
       ELSE /\ parent' = "send" /\ pos' = 0 /\ out' = HeaderOf(current)
            /\ UNCHANGED current
  /\ UNCHANGED <<heard, childVars, fileVars, stream>>

WritePart ==
  /\ out # <<>> /\ ~Closed(child) /\ parent # "dead"
  /\ Len(stream["down"]) < Room
  /\ stream' = [stream EXCEPT !["down"] = Append(@, Head(out))]
  /\ out' = Tail(out)
  /\ UNCHANGED <<parent, current, pos, heard, childVars, fileVars>>

\* Nobody reads the pipe any more.
SigPipe ==
  /\ out # <<>> /\ Closed(child) /\ parent # "dead"
  /\ parent' = "dead"
  /\ UNCHANGED <<current, pos, out, heard, childVars, fileVars, stream>>

ReadFile ==
  /\ parent = "send" /\ out = <<>> /\ pos < size[current]
  /\ LET upto == Lesser(pos + BufSize, size[current])
     IN  out' = Portions(current, pos, upto) /\ pos' = upto
  /\ UNCHANGED <<parent, current, heard, childVars, fileVars, stream>>

CloseFile ==
  /\ parent = "send" /\ out = <<>> /\ pos >= size[current]
  /\ parent' = "next" /\ current' = current + 1
  /\ UNCHANGED <<pos, out, heard, childVars, fileVars, stream>>

\* Mutant: END without its newline.
SendEndOnly ==
  /\ parent = "next" /\ current \notin Files
  /\ parent' = "end" /\ out' = <<<<"END">>>>
  /\ UNCHANGED <<current, pos, heard, childVars, fileVars, stream>>

SendEnd ==
  /\ parent = "next" /\ current \notin Files
  /\ parent' = "end" /\ out' = EndLines
  /\ UNCHANGED <<current, pos, heard, childVars, fileVars, stream>>

\* wait(NULL)
Reap ==
  /\ parent = "end" /\ out = <<>> /\ child \in {"done", "dead"}
  /\ parent' = "done"
  /\ UNCHANGED <<current, pos, out, heard, childVars, fileVars, stream>>

ParentStep ==
  WaitReady \/ OpenFile \/ WritePart \/ SigPipe \/ ReadFile \/ CloseFile
  \/ SendEnd \/ Reap
-----------------------------------------------------------------------------
(***************************************************************************)
(* The child.                                                              *)
(***************************************************************************)
SendReady ==
  /\ child = "start"
  /\ IF Closed(parent)
       THEN child' = "dead" /\ UNCHANGED stream
       ELSE /\ child' = "header"
            /\ stream' = [stream EXCEPT ![Up] = @ \o Ready]
  /\ UNCHANGED <<header, fname, remaining, copy, parentVars, fileVars>>

\* What sscanf() makes of a line: a line with nothing in it leaves the last
\* name where it was, any other one that is no header gives some other name;
\* the size is then what was there before.
FileNamed(line) ==
  CASE line = <<>> -> {fname}
    [] Len(line) = 1 /\ line[1][1] = "header" -> {line[1][2]}
    [] OTHER -> {Other}

SizeNamed(line) ==
  IF Len(line) = 1 /\ line[1][1] = "header" THEN {line[1][3]} ELSE FileSizes

\* The line is complete, or the stream has ended: open() empties the copy.
HandleLine ==
  IF header = <<<<"END">>>>
    THEN child' = "done" /\ UNCHANGED <<header, fname, remaining, copy>>
    ELSE \E f \in FileNamed(header), n \in SizeNamed(header) :
           /\ fname' = f /\ remaining' = n /\ header' = <<>>
           /\ copy' = IF f \in Files THEN [copy EXCEPT ![f] = <<>>] ELSE copy
           /\ child' = IF n > 0 THEN "data" ELSE "header"

ReadByte ==
  /\ child = "header"
  /\ \/ /\ stream["down"] # <<>>
        /\ stream' = [stream EXCEPT !["down"] = Tail(@)]
        /\ IF Head(stream["down"]) = NewLine THEN HandleLine
           ELSE /\ header' = Append(header, Head(stream["down"]))
                /\ UNCHANGED <<child, fname, remaining, copy>>
     \/ /\ stream["down"] = <<>> /\ Closed(parent)
        /\ HandleLine
        /\ UNCHANGED stream
  /\ UNCHANGED <<parentVars, fileVars>>

\* Mutant: BUF_SIZE instead of to_read.
WholeBuffer == Lesser(BufSize, Len(stream["down"]))

\* read(fd_read, buf, to_read)
Portion == Lesser(Lesser(remaining, BufSize), Len(stream["down"]))

CopyData ==
  /\ child = "data" /\ stream["down"] # <<>>
  /\ stream' = [stream EXCEPT !["down"] = SubSeq(@, Portion + 1, Len(@))]
  /\ copy' = IF fname \in Files
               THEN [copy EXCEPT ![fname] = @ \o SubSeq(stream["down"], 1, Portion)]
               ELSE copy
  /\ remaining' = remaining - Portion
  /\ child' = IF remaining' > 0 THEN "data" ELSE "header"
  /\ UNCHANGED <<header, fname, parentVars, fileVars>>

\* read() returns 0.
DataEnds ==
  /\ child = "data" /\ stream["down"] = <<>> /\ Closed(parent)
  /\ child' = "header"
  /\ UNCHANGED <<header, fname, remaining, copy, parentVars, fileVars, stream>>

ChildStep == SendReady \/ ReadByte \/ CopyData \/ DataEnds
-----------------------------------------------------------------------------
(***************************************************************************)
(* The file that is being sent is written to, once; a process is killed.   *)
(***************************************************************************)
FileChanges ==
  /\ parent = "send" /\ ~disturbed
  /\ \E n \in FileSizes : size' = [size EXCEPT ![current] = n]
  /\ disturbed' = TRUE
  /\ UNCHANGED <<fifo, parentVars, childVars, stream>>

Killed ==
  /\ {parent, child} \cap {"dead", "done"} = {}
  /\ \/ parent' = "dead" /\ UNCHANGED child
     \/ child' = "dead" /\ UNCHANGED parent
  /\ UNCHANGED <<current, pos, out, heard, header, fname, remaining, copy,
                 fileVars, stream>>

CopyNext == ParentStep \/ ChildStep \/ FileChanges \/ Killed

\* Two processes that the scheduler keeps running.
CopyFairness == WF_copyVars(ParentStep) /\ WF_copyVars(ChildStep)

CopySpec == CopyInit /\ [][CopyNext]_copyVars /\ CopyFairness
-----------------------------------------------------------------------------
\* With -p the child may read of its own READY before the parent does.
ReadyEaten ==
  \/ heard \notin {<<>>, Ready}
  \/ fifo /\ parent = "ready" /\ child # "start" /\ stream["down"] # Ready

(***************************************************************************)
(* However the stream was cut into reads, a child that has come to END has *)
(* written every file that could be opened as it was, unless a file        *)
(* changed between its fstat() and its last read().  With -p this holds    *)
(* if the parent got READY.                                                *)
(***************************************************************************)
CopiesEqual ==
  child = "done" /\ ~disturbed /\ ~ReadyEaten =>
    \A f \in Files :
      size[f] # Absent => copy[f] = Portions(f, 0, size[f])

(***************************************************************************)
(* Once the child has said READY the two come to an end together, however  *)
(* little the pipe holds, unless one is killed, a file changed under way,  *)
(* or with -p the child has read its own READY.                            *)
(***************************************************************************)
CopyEnds ==
  child # "start" ~>
    \/ parent = "done" /\ child = "done"
    \/ "dead" \in {parent, child} \/ disturbed \/ ReadyEaten
=============================================================================
