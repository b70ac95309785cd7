-------------------------------- MODULE Taxi --------------------------------
(***************************************************************************)
(* The taxi service of module3/Cross-task/2/taxi_cli.c: a command-line     *)
(* process (the CLI) forks driver processes and gives them timed tasks.    *)
(*                                                                         *)
(*   - CLI and driver d share one status record (busy, remaining) of a     *)
(*     POSIX shared memory segment, without any lock;                      *)
(*   - the CLI writes commands to the driver's command pipe and waits at   *)
(*     most one second (select) for a line on its response pipe;           *)
(*   - the driver polls its command pipe and its one-shot timer.           *)
(*                                                                         *)
(* A driver is named by its slot: the C code takes slot = shm->count at    *)
(* fork, and a slot is never given twice.  Time is abstracted: an armed    *)
(* timer expires at some later step and select may give up at any moment   *)
(* at which nothing is readable.                                           *)
(***************************************************************************)
EXTENDS Integers, Sequences, FiniteSets

CONSTANTS
  Pids,         \* the process ids fork() may return
  NoPid,        \* the zeroed pid of an unused record (memset)
  MaxDrivers,   \* MAX_DRIVERS
  Timers,       \* the task times the user may ask for
  MaxSent       \* bound of the model: tasks sent over the whole run

ASSUME TaxiAssumption ==
  /\ MaxDrivers \in Nat \ {0}
  /\ Timers \subseteq Nat \ {0}
  /\ MaxSent \in Nat
  /\ NoPid \notin Pids

Slots == 0 .. MaxDrivers - 1
Ids == 1 .. MaxSent

(***************************************************************************)
(* struct task_cmd and a line of the response pipe.  id is not in the      *)
(* code: it tells which command a reply answers.                           *)
(***************************************************************************)
Command == [id : Ids, timer : Timers]
Reply == [id : Ids, kind : {"OK", "Busy"}]
Fields == {"busy", "remaining"}

VARIABLES
  \* shared memory (struct shared_mem)
  slotPid, active, busy, remaining, count,
  \* the CLI's own table (drivers_info, num_drivers)
  infoPid, infoSlot, num,
  \* the CLI's control: where it is, the flag its signal handler clears, the
  \* pid fork() gave, the driver it deals with and the last slot to report
  cpc, running, newPid, target, last, reaped,
  \* per driver: control point, pipes, timerfd, revents of the last poll(),
  \* the command read, and the status fields still to be stored
  dpc, cmdPipe, respPipe, timer, revents, got, todo,
  \* history: commands sent, the one being waited for, what became of each,
  \* waits given up per driver, the last reply shown, and what the user knows
  \* of a driver: the time of the last task it said OK to, and whether it was
  \* shown Available since the last command sent to it
  sent, cur, verdict, giveUps, answer, told, seen

shmVars == <<slotPid, active, busy, remaining, count>>
infoVars == <<infoPid, infoSlot, num>>
cliVars == <<cpc, running, newPid, target, last, reaped>>
driverVars == <<dpc, cmdPipe, respPipe, timer, revents, got, todo>>
histVars == <<sent, cur, verdict, giveUps, answer, told, seen>>
vars == <<shmVars, infoVars, cliVars, driverVars, histVars>>
-----------------------------------------------------------------------------
NoCommand == [id |-> 0, timer |-> 0]

Init ==
  /\ slotPid = [d \in Slots |-> NoPid]
  /\ active = [d \in Slots |-> FALSE]
  /\ busy = [d \in Slots |-> 0]
  /\ remaining = [d \in Slots |-> 0]
  /\ count = 0
  /\ infoPid = [i \in Slots |-> NoPid]
  /\ infoSlot = [i \in Slots |-> 0]
  /\ num = 0
  /\ cpc = "prompt"
  /\ running = TRUE
  /\ newPid = NoPid
  /\ target = 0
  /\ last = 0
  /\ reaped = 0
  /\ dpc = [d \in Slots |-> "absent"]
  /\ cmdPipe = [d \in Slots |-> <<>>]
  /\ respPipe = [d \in Slots |-> <<>>]
  /\ timer = [d \in Slots |-> "off"]
  /\ revents = [d \in Slots |-> [cmd |-> FALSE, tmr |-> FALSE]]
  /\ got = [d \in Slots |-> NoCommand]
  /\ todo = [d \in Slots |-> {}]
  /\ sent = 0
  /\ cur = NoCommand
  /\ verdict = [c \in Ids |-> "none"]
  /\ giveUps = [d \in Slots |-> 0]
  /\ answer = [id |-> 0, slot |-> 0, replies |-> <<>>]
  /\ told = [d \in Slots |-> 0]
  /\ seen = [d \in Slots |-> FALSE]
-----------------------------------------------------------------------------
(***************************************************************************)
(* Helpers                                                                 *)
(***************************************************************************)
Alive(d) == dpc[d] \notin {"absent", "dead"}

\* The process of the CLI still exists: it holds its ends of every pipe.
CliAlive == cpc \notin {"done", "killed"}

(***************************************************************************)
(* Who holds the read end of the response pipe of d: the CLI, and every    *)
(* driver forked later, which inherited the CLI's descriptors (the child   *)
(* closes only the two ends of its own pipes).                             *)
(***************************************************************************)
HasReader(d) == CliAlive \/ \E e \in Slots : e > d /\ Alive(e)

\* Back at "while (cli_running)".
LoopTop == IF running THEN "prompt" ELSE "reap"

IsLeast(S, i) == i \in S /\ \A j \in S : i <= j

\* The loop of send_task over drivers_info.
InfoIndex(p, i) == IsLeast({j \in 0 .. num - 1 : infoPid[j] = p}, i)

\* Mutant: the search leaves out the last record.
SlotOfPidShort(p, s) ==
  IsLeast({j \in 0 .. count - 2 : active[j] /\ slotPid[j] = p}, s)

\* find_driver_slot_by_pid
SlotOfPid(p, s) ==
  IsLeast({j \in 0 .. count - 1 : active[j] /\ slotPid[j] = p}, s)
-----------------------------------------------------------------------------
(***************************************************************************)
(* The CLI: create_driver                                                  *)
(***************************************************************************)

\* Mutant: the limit is tested with > instead of >=.
LimitPassed == num > MaxDrivers \/ count > MaxDrivers

LimitReached == num >= MaxDrivers \/ count >= MaxDrivers

(***************************************************************************)
(* Limit check, pipes and fork.  A failing pipe() or fork() changes        *)
(* nothing that is modelled.  The kernel gives no pid that a driver still  *)
(* has: no driver is waited for before the CLI ends, so none is freed.     *)
(***************************************************************************)
Fork ==
  /\ cpc = "prompt"
  /\ ~LimitReached
  /\ \E p \in Pids :
       /\ \A d \in Slots : slotPid[d] # p
       /\ newPid' = p
  /\ dpc' = [dpc EXCEPT ![count] = "boot"]
  /\ cpc' = "forked"
  /\ UNCHANGED <<shmVars, infoVars, histVars, running, target, last, reaped,
                 cmdPipe, respPipe, timer, revents, got, todo>>

(***************************************************************************)
(* The parent's half of create_driver, concurrent with the child's start:  *)
(* fill in the shared record (again, its two status fields) and the        *)
(* CLI's own table.                                                        *)
(***************************************************************************)
Register ==
  /\ cpc = "forked"
  /\ slotPid' = [slotPid EXCEPT ![count] = newPid]
  /\ busy' = [busy EXCEPT ![count] = 0]
  /\ remaining' = [remaining EXCEPT ![count] = 0]
  /\ active' = [active EXCEPT ![count] = TRUE]
  /\ count' = count + 1
  /\ infoPid' = [infoPid EXCEPT ![num] = newPid]
  /\ infoSlot' = [infoSlot EXCEPT ![num] = count]
  /\ num' = num + 1
  /\ cpc' = LoopTop
  /\ UNCHANGED <<running, newPid, target, last, reaped, driverVars, histVars>>

(***************************************************************************)
(* The CLI: send_task                                                      *)
(***************************************************************************)

(***************************************************************************)
(* Look the driver up and write the command.  Only the driver holds the    *)
(* read end of its command pipe: once it is dead the write raises SIGPIPE, *)
(* which nobody handles.                                                   *)
(***************************************************************************)
SendTask(p, t) ==
  /\ cpc = "prompt"
  /\ sent < MaxSent
  /\ \E i \in Slots :
       /\ InfoIndex(p, i)
       /\ LET d == infoSlot[i] IN
          \/ /\ Alive(d)
             /\ cmdPipe' = [cmdPipe EXCEPT ![d] =
                              Append(@, [id |-> sent + 1, timer |-> t])]
             /\ verdict' = [verdict EXCEPT ![sent + 1] = "sent"]
             /\ sent' = sent + 1
             /\ cur' = [id |-> sent + 1, timer |-> t]
             /\ target' = d
             /\ seen' = [seen EXCEPT ![d] = FALSE]
             /\ cpc' = "select"
          \/ /\ ~Alive(d)
             /\ cpc' = "killed"
             /\ UNCHANGED <<cmdPipe, verdict, sent, cur, target, seen>>
  /\ UNCHANGED <<shmVars, infoVars, running, newPid, last, reaped, dpc,
                 respPipe, timer, revents, got, todo, giveUps, answer,
                 told>>

(***************************************************************************)
(* select() reports the response pipe readable and one read() takes all of *)
(* it.  An empty pipe is readable only when its writer, the driver, is     *)
(* gone: then read() returns 0 and an empty line is shown.                 *)
(***************************************************************************)
ReadReply ==
  /\ cpc = "select"
  /\ respPipe[target] # <<>> \/ ~Alive(target)
  /\ answer' = [id |-> cur.id, slot |-> target, replies |-> respPipe[target]]
  /\ respPipe' = [respPipe EXCEPT ![target] = <<>>]
  /\ told' = IF \E i \in DOMAIN respPipe[target] :
                  respPipe[target][i].kind = "OK"
             THEN [told EXCEPT ![target] = cur.timer]
             ELSE told
  /\ cpc' = LoopTop
  /\ UNCHANGED <<shmVars, infoVars, running, newPid, target, last, reaped, dpc,
                 cmdPipe, timer, revents, got, todo, sent, cur, verdict,
                 giveUps, seen>>

\* select() returns 0: "No response from driver".
NoResponse ==
  /\ cpc = "select"
  /\ respPipe[target] = <<>> /\ Alive(target)
  /\ giveUps' = [giveUps EXCEPT ![target] = @ + 1]
  /\ cpc' = LoopTop
  /\ UNCHANGED <<shmVars, infoVars, running, newPid, target, last, reaped,
                 driverVars, sent, cur, verdict, answer, told, seen>>

\* A signal interrupts select(): EINTR, send_task returns without a reply.
SelectInterrupted ==
  /\ cpc = "select"
  /\ running' = FALSE
  /\ giveUps' = [giveUps EXCEPT ![target] = @ + 1]
  /\ cpc' = "reap"
  /\ UNCHANGED <<shmVars, infoVars, newPid, target, last, reaped, driverVars,
                 sent, cur, verdict, answer, told, seen>>

(***************************************************************************)
(* The CLI: get_status and get_drivers                                     *)
(***************************************************************************)

\* get_status: one slot is reported.
GetStatus(p) ==
  /\ cpc = "prompt"
  /\ \E s \in Slots :
       /\ SlotOfPid(p, s)
       /\ target' = s /\ last' = s
  /\ cpc' = "scan"
  /\ UNCHANGED <<shmVars, infoVars, running, newPid, reaped, driverVars,
                 histVars>>

\* get_drivers: the slots 0 .. shm->count - 1 are reported in turn.
GetDrivers ==
  /\ cpc = "prompt"
  /\ count > 0
  /\ target' = 0 /\ last' = count - 1
  /\ cpc' = "scan"
  /\ UNCHANGED <<shmVars, infoVars, running, newPid, reaped, driverVars,
                 histVars>>

NextSlot ==
  IF target < last
  THEN target' = target + 1 /\ cpc' = "scan"
  ELSE target' = target /\ cpc' = LoopTop

(***************************************************************************)
(* The first access of the report reads busy: 0 is shown as Available,     *)
(* otherwise remaining is read by a second access.                         *)
(***************************************************************************)
ReadBusy ==
  /\ cpc = "scan"
  /\ IF active[target] /\ busy[target] # 0
     THEN cpc' = "scanRemaining" /\ UNCHANGED <<target, seen>>
     ELSE /\ NextSlot
          /\ seen' = [seen EXCEPT ![target] = @ \/ active[target]]
  /\ UNCHANGED <<shmVars, infoVars, running, newPid, last, reaped, driverVars,
                 sent, cur, verdict, giveUps, answer, told>>

\* "Busy <remaining>" is shown.
ReadRemaining ==
  /\ cpc = "scanRemaining"
  /\ NextSlot
  /\ UNCHANGED <<shmVars, infoVars, running, newPid, last, reaped, driverVars,
                 histVars>>
-----------------------------------------------------------------------------
(***************************************************************************)
(* The CLI: signals and the end of main                                    *)
(***************************************************************************)

(***************************************************************************)
(* SIGINT or SIGTERM.  signal() installs the handler with SA_RESTART, so   *)
(* the fgets() it may interrupt goes on waiting for a line.                *)
(***************************************************************************)
Signal ==
  /\ CliAlive
  /\ running' = FALSE
  /\ UNCHANGED <<shmVars, infoVars, cpc, newPid, target, last, reaped,
                 driverVars, histVars>>

\* "exit", or the end of the input.
Quit ==
  /\ cpc = "prompt"
  /\ cpc' = "reap"
  /\ UNCHANGED <<shmVars, infoVars, running, newPid, target, last, reaped,
                 driverVars, histVars>>

\* A line that does nothing (empty, unknown, bad arguments, unknown pid).
OtherLine ==
  /\ cpc = "prompt"
  /\ cpc' = LoopTop
  /\ UNCHANGED <<shmVars, infoVars, running, newPid, target, last, reaped,
                 driverVars, histVars>>

(***************************************************************************)
(* One turn of the final loop: kill(SIGTERM) and waitpid().  The driver    *)
(* was forked after signal(), so SIGTERM only runs its copy of             *)
(* cli_signal_handler and makes its poll() return EINTR, which it ignores: *)
(* kill() changes nothing, and waitpid() returns only if the driver died   *)
(* of something else.                                                      *)
(***************************************************************************)
Reap ==
  /\ cpc = "reap"
  /\ reaped < num
  /\ dpc[infoSlot[reaped]] = "dead"
  /\ reaped' = reaped + 1
  /\ UNCHANGED <<shmVars, infoVars, cpc, running, newPid, target, last,
                 driverVars, histVars>>

\* munmap, close, shm_unlink, "CLI terminated."
Finish ==
  /\ cpc = "reap"
  /\ reaped = num
  /\ cpc' = "done"
  /\ UNCHANGED <<shmVars, infoVars, running, newPid, target, last, reaped,
                 driverVars, histVars>>
-----------------------------------------------------------------------------
(***************************************************************************)
(* The driver d: driver_main                                               *)
(***************************************************************************)

\* Start: clear the two status fields, create the timer.
Boot(d) ==
  /\ dpc[d] = "boot"
  /\ busy' = [busy EXCEPT ![d] = 0]
  /\ remaining' = [remaining EXCEPT ![d] = 0]
  /\ dpc' = [dpc EXCEPT ![d] = "poll"]
  /\ UNCHANGED <<slotPid, active, count, infoVars, cliVars, histVars, cmdPipe,
                 respPipe, timer, revents, got, todo>>

(***************************************************************************)
(* poll() returns a snapshot of what is readable.  A signal makes it       *)
(* return EINTR and the loop call it again; a command pipe without writers *)
(* makes it return POLLHUP alone, which the loop does not look at: neither *)
(* changes anything, and the branch that reads 0 bytes is never taken.     *)
(***************************************************************************)
Poll(d) ==
  LET r == [cmd |-> cmdPipe[d] # <<>>, tmr |-> timer[d] = "expired"] IN
  /\ dpc[d] = "poll"
  /\ r.cmd \/ r.tmr
  /\ revents' = [revents EXCEPT ![d] = r]
  /\ dpc' = [dpc EXCEPT ![d] = IF r.cmd THEN "read" ELSE "expire"]
  /\ UNCHANGED <<shmVars, infoVars, cliVars, histVars, cmdPipe, respPipe,
                 timer, got, todo>>

\* Mutant: the timer is read whether poll() reported it or not.
TurnEndAlways(d) == "expire"

\* After the command, the timer is looked at if poll() reported it.
TurnEnd(d) == IF revents[d].tmr THEN "expire" ELSE "poll"

\* Mutant: OK is written before the status is stored and the timer set.
ConfirmFirst(d) ==
  CASE dpc[d] = "read" -> IF busy[d] = 0 THEN "confirm" ELSE "refuse"
    [] dpc[d] = "confirm" -> "take"
    [] dpc[d] = "take" -> "arm"
    [] dpc[d] \in {"arm", "refuse"} -> TurnEnd(d)
    [] dpc[d] = "expire" -> "free"
    [] dpc[d] = "free" -> "poll"

(***************************************************************************)
(* Where control goes from the middle of a turn of the loop: a command is  *)
(* taken (status, timer, confirmation) or refused, then the timer is       *)
(* looked at.                                                              *)
(***************************************************************************)
After(d) ==
  CASE dpc[d] = "read" -> IF busy[d] = 0 THEN "take" ELSE "refuse"
    [] dpc[d] = "take" -> "arm"
    [] dpc[d] = "arm" -> "confirm"
    [] dpc[d] \in {"confirm", "refuse"} -> TurnEnd(d)
    [] dpc[d] = "expire" -> "free"
    [] dpc[d] = "free" -> "poll"

\* Mutant: read() asks for more than one struct and the rest is dropped.
UnreadDropped(d) == <<>>

\* What read(sizeof(struct task_cmd)) leaves in the command pipe.
Unread(d) == Tail(cmdPipe[d])

\* Mutant: remaining is stored before the busy test.
RemainingStoredFirst(d) ==
  LET c == Head(cmdPipe[d])
      free == busy[d] = 0
  IN
  /\ dpc[d] = "read"
  /\ remaining' = [remaining EXCEPT ![d] = c.timer]
  /\ cmdPipe' = [cmdPipe EXCEPT ![d] = Unread(d)]
  /\ got' = [got EXCEPT ![d] = c]
  /\ verdict' = [verdict EXCEPT ![c.id] = IF free THEN "OK" ELSE "Busy"]
  /\ todo' = [todo EXCEPT ![d] = IF free THEN Fields ELSE {}]
  /\ dpc' = [dpc EXCEPT ![d] = After(d)]
  /\ UNCHANGED <<slotPid, active, busy, count, infoVars, cliVars, respPipe,
                 timer, revents, sent, cur, giveUps, answer, told, seen>>

\* read() one command and look whether a task is running.
ReadCmd(d) ==
  LET c == Head(cmdPipe[d])
      free == busy[d] = 0
  IN
  /\ dpc[d] = "read"
  /\ cmdPipe' = [cmdPipe EXCEPT ![d] = Unread(d)]
  /\ got' = [got EXCEPT ![d] = c]
  /\ verdict' = [verdict EXCEPT ![c.id] = IF free THEN "OK" ELSE "Busy"]
  /\ todo' = [todo EXCEPT ![d] = IF free THEN Fields ELSE {}]
  /\ dpc' = [dpc EXCEPT ![d] = After(d)]
  /\ UNCHANGED <<shmVars, infoVars, cliVars, respPipe, timer, revents, sent,
                 cur, giveUps, answer, told, seen>>

(***************************************************************************)
(* One of the two status fields is stored, for a task taken or a task      *)
(* ended.  The fields are plain ints shared without a lock, so the         *)
(* compiler may store them in either order.                                *)
(***************************************************************************)
StoreStatus(d) ==
  LET taking == dpc[d] = "take" IN
  /\ dpc[d] \in {"take", "free"}
  /\ \E f \in todo[d] :
       /\ busy' = IF f = "busy"
                  THEN [busy EXCEPT ![d] = IF taking THEN 1 ELSE 0]
                  ELSE busy
       /\ remaining' = IF f = "remaining"
                       THEN [remaining EXCEPT ![d] =
                               IF taking THEN got[d].timer ELSE 0]
                       ELSE remaining
       /\ todo' = [todo EXCEPT ![d] = @ \ {f}]
       /\ dpc' = IF todo[d] = {f} THEN [dpc EXCEPT ![d] = After(d)] ELSE dpc
  /\ UNCHANGED <<slotPid, active, count, infoVars, cliVars, histVars, cmdPipe,
                 respPipe, timer, revents, got>>

\* Mutant: the timer is not set.
ArmForgotten(d) ==
  /\ dpc[d] = "arm"
  /\ dpc' = [dpc EXCEPT ![d] = After(d)]
  /\ UNCHANGED <<shmVars, infoVars, cliVars, histVars, cmdPipe, respPipe,
                 timer, revents, got, todo>>

\* timerfd_settime: a one-shot timer of task_timer > 0 seconds.
Arm(d) ==
  /\ dpc[d] = "arm"
  /\ timer' = [timer EXCEPT ![d] = "armed"]
  /\ dpc' = [dpc EXCEPT ![d] = After(d)]
  /\ UNCHANGED <<shmVars, infoVars, cliVars, histVars, cmdPipe, respPipe,
                 revents, got, todo>>

\* Mutant: "Busy" falls through to the "OK" of the other branch.
WrittenBoth(d, kind) ==
  IF kind = "Busy"
  THEN respPipe[d] \o << [id |-> got[d].id, kind |-> "Busy"],
                         [id |-> got[d].id, kind |-> "OK"] >>
  ELSE Append(respPipe[d], [id |-> got[d].id, kind |-> "OK"])

Written(d, kind) == Append(respPipe[d], [id |-> got[d].id, kind |-> kind])

(***************************************************************************)
(* The reply is written.  When nobody holds the read end any more the      *)
(* write raises SIGPIPE and the driver dies of it.                         *)
(***************************************************************************)
Answer(d, kind) ==
  /\ \/ /\ HasReader(d)
        /\ respPipe' = [respPipe EXCEPT ![d] = Written(d, kind)]
        /\ dpc' = [dpc EXCEPT ![d] = After(d)]
        /\ UNCHANGED timer
     \/ /\ ~HasReader(d)
        /\ dpc' = [dpc EXCEPT ![d] = "dead"]
        /\ timer' = [timer EXCEPT ![d] = "off"]
        /\ UNCHANGED respPipe
  /\ UNCHANGED <<shmVars, infoVars, cliVars, histVars, cmdPipe, revents, got,
                 todo>>

Confirm(d) == dpc[d] = "confirm" /\ Answer(d, "OK")

Refuse(d) == dpc[d] = "refuse" /\ Answer(d, "Busy")

\* Mutant: the expiration is not consumed.
TimerNotRead(d) == timer[d]

\* read() of the timer consumes an expiration, or fails with EAGAIN.
TimerRead(d) == IF timer[d] = "expired" THEN "off" ELSE timer[d]

\* The code treats EAGAIN like an expiration.
Expire(d) ==
  /\ dpc[d] = "expire"
  /\ timer' = [timer EXCEPT ![d] = TimerRead(d)]
  /\ todo' = [todo EXCEPT ![d] = Fields]
  /\ dpc' = [dpc EXCEPT ![d] = After(d)]
  /\ UNCHANGED <<shmVars, infoVars, cliVars, histVars, cmdPipe, respPipe,
                 revents, got>>

\* The kernel's side of the timer.
TimerExpires(d) ==
  /\ timer[d] = "armed"
  /\ timer' = [timer EXCEPT ![d] = "expired"]
  /\ UNCHANGED <<shmVars, infoVars, cliVars, histVars, dpc, cmdPipe, respPipe,
                 revents, got, todo>>

\* SIGKILL from outside, or timerfd_create or poll failing.
DriverDies(d) ==
  /\ Alive(d)
  /\ dpc' = [dpc EXCEPT ![d] = "dead"]
  /\ timer' = [timer EXCEPT ![d] = "off"]
  /\ UNCHANGED <<shmVars, infoVars, cliVars, histVars, cmdPipe, respPipe,
                 revents, got, todo>>
-----------------------------------------------------------------------------
\* What the user and the environment do, when they want.
UserStep ==
  \/ Fork \/ GetDrivers \/ Quit \/ OtherLine \/ Signal \/ SelectInterrupted
  \/ \E p \in Pids : GetStatus(p) \/ \E t \in Timers : SendTask(p, t)

\* What the CLI does by itself once a command is entered.
CliStep ==
  \/ Register \/ ReadReply \/ NoResponse
  \/ ReadBusy \/ ReadRemaining \/ Reap \/ Finish

DriverStep(d) ==
  \/ Boot(d) \/ Poll(d) \/ ReadCmd(d) \/ StoreStatus(d) \/ Arm(d)
  \/ Confirm(d) \/ Refuse(d) \/ Expire(d)

Next ==
  \/ UserStep
  \/ CliStep
  \/ \E d \in Slots : DriverStep(d) \/ TimerExpires(d) \/ DriverDies(d)

(***************************************************************************)
(* A process that can run is scheduled, and an armed timer expires.  No    *)
(* command need ever be entered, no signal sent and no driver killed.      *)
(***************************************************************************)
Fairness ==
  /\ WF_vars(CliStep)
  /\ \A d \in Slots : WF_vars(DriverStep(d)) /\ WF_vars(TimerExpires(d))

Spec == Init /\ [][Next]_vars /\ Fairness
-----------------------------------------------------------------------------
(***************************************************************************)
(* Properties                                                              *)
(***************************************************************************)
Revents == [cmd : BOOLEAN, tmr : BOOLEAN]

ShmType ==
  /\ slotPid \in [Slots -> Pids \cup {NoPid}]
  /\ active \in [Slots -> BOOLEAN]
  /\ busy \in [Slots -> {0, 1}]
  /\ remaining \in [Slots -> Timers \cup {0}]
  /\ count \in 0 .. MaxDrivers

InfoType ==
  /\ infoPid \in [Slots -> Pids \cup {NoPid}]
  /\ infoSlot \in [Slots -> Slots]
  /\ num \in 0 .. MaxDrivers

CliType ==
  /\ cpc \in {"prompt", "forked", "select", "scan", "scanRemaining", "reap",
              "done", "killed"}
  /\ running \in BOOLEAN
  /\ newPid \in Pids \cup {NoPid}
  /\ target \in Slots /\ last \in Slots
  /\ reaped \in 0 .. MaxDrivers

DriverType ==
  /\ dpc \in [Slots -> {"absent", "boot", "poll", "read", "take", "arm",
                        "confirm", "refuse", "expire", "free", "dead"}]
  /\ cmdPipe \in [Slots -> Seq(Command)]
  /\ respPipe \in [Slots -> Seq(Reply)]
  /\ timer \in [Slots -> {"off", "armed", "expired"}]
  /\ revents \in [Slots -> Revents]
  /\ got \in [Slots -> Command \cup {NoCommand}]
  /\ todo \in [Slots -> SUBSET Fields]

HistType ==
  /\ sent \in 0 .. MaxSent
  /\ cur \in Command \cup {NoCommand}
  /\ verdict \in [Ids -> {"none", "sent", "OK", "Busy"}]
  /\ giveUps \in [Slots -> Nat]
  /\ answer \in [id : Ids \cup {0}, slot : Slots, replies : Seq(Reply)]
  /\ told \in [Slots -> Timers \cup {0}]
  /\ seen \in [Slots -> BOOLEAN]

(***************************************************************************)
(* Every variable keeps its type: no table index leaves drivers[] or       *)
(* drivers_info[] and no pc leaves its control points.                     *)
(***************************************************************************)
TypeOK == ShmType /\ InfoType /\ CliType /\ DriverType /\ HistType

BusyMatches(d) ==
  /\ dpc[d] \in {"poll", "read", "confirm", "refuse", "expire"} =>
       (busy[d] = 1 <=> timer[d] # "off")
  /\ dpc[d] \in {"boot", "take", "arm", "free"} => timer[d] = "off"
  /\ dpc[d] = "take" => (busy[d] = 0 <=> "busy" \in todo[d])
  /\ dpc[d] = "free" => (busy[d] = 1 <=> "busy" \in todo[d])
  /\ dpc[d] \in {"arm", "confirm"} => busy[d] = 1
  /\ dpc[d] \in {"read", "refuse", "expire"} /\ revents[d].tmr =>
       timer[d] = "expired"
  /\ dpc[d] = "expire" => revents[d].tmr
  /\ dpc[d] \in {"take", "arm", "confirm"} => ~revents[d].tmr

(***************************************************************************)
(* The busy flag and the timer tell the same story although they are       *)
(* changed at different moments: between two turns of its loop a driver is *)
(* busy exactly while its timer runs or has expired unread, it accepts a   *)
(* task only with the timer off, and an expiration seen by poll() is still *)
(* there when the timer is read (driver_main, lines 98-140).               *)
(***************************************************************************)
BusyMatchesTimer == \A d \in Slots : BusyMatches(d)

(***************************************************************************)
(* A driver gives up its task only when the timer of that task is spent:   *)
(* busy falls only while no timer is pending, so the EAGAIN that line 133  *)
(* takes for an expiration never ends a task early.                        *)
(***************************************************************************)
NoEarlyRelease ==
  [][\A d \in Slots : busy[d] = 1 /\ busy'[d] = 0 => timer[d] = "off"]_vars

\* A command has been read by d and not been answered.
InHand(d) == IF dpc[d] \in {"take", "arm", "confirm", "refuse"} THEN 1 ELSE 0

\* What has been asked of d and not yet been read back by the CLI.
Backlog(d) == Len(cmdPipe[d]) + InHand(d) + Len(respPipe[d])

\* The CLI is inside send_task for d.
Waiting(d) == cpc = "select" /\ target = d

\* The replies d may still owe: one per wait given up, and the one awaited.
Due(d) == giveUps[d] + (IF Waiting(d) THEN 1 ELSE 0)

(***************************************************************************)
(* A living driver owes the CLI the reply it waits for and one reply for   *)
(* every wait the CLI gave up, never more: neither pipe can fill up unless *)
(* the user keeps sending to a driver that does not answer.                *)
(***************************************************************************)
BacklogBounded == \A d \in Slots : Alive(d) => Backlog(d) <= Due(d)

(***************************************************************************)
(* As long as no wait for a driver was given up, the line the CLI shows    *)
(* for a task is the reply to that task, alone, and says what the driver   *)
(* did with it.                                                            *)
(***************************************************************************)
ReplyIsForThisTask ==
  \A i \in DOMAIN answer.replies : giveUps[answer.slot] = 0 =>
    /\ i = 1
    /\ answer.replies[i] = [id |-> answer.id, kind |-> verdict[answer.id]]

(***************************************************************************)
(* A driver reported Available to a user who has read all its replies      *)
(* stays available until the next task is sent to it, although the report  *)
(* reads the shared record without a lock (get_status, get_drivers).       *)
(***************************************************************************)
AvailableIsTrustworthy ==
  \A d \in Slots : seen[d] /\ giveUps[d] = 0 /\ Alive(d) => busy[d] = 0

(***************************************************************************)
(* The second access of "Busy <remaining>" may come after the task ended,  *)
(* and then shows 0, but it never shows the time of another task than the  *)
(* one the user was last told OK for.                                      *)
(***************************************************************************)
BusyReportIsFresh ==
  cpc = "scanRemaining" /\ giveUps[target] = 0 /\ Alive(target) =>
    remaining[target] \in {0, told[target]}

(***************************************************************************)
(* send_task and get_status look a pid up in two different tables, and     *)
(* find the same driver, whose record is active and is not the next one to *)
(* be given away.                                                          *)
(***************************************************************************)
TablesAgree ==
  /\ num = count
  /\ \A p \in Pids, i \in Slots : InfoIndex(p, i) =>
       SlotOfPid(p, infoSlot[i]) /\ dpc[infoSlot[i]] # "absent"

\* A driver that took a task becomes available again (or dies).
AcceptedTaskEnds ==
  \A d \in Slots : busy[d] = 1 ~> busy[d] = 0 \/ ~Alive(d)

(***************************************************************************)
(* A task the CLI has sent is taken or refused unless its driver dies,     *)
(* even when the CLI gave up waiting or has left its loop.                 *)
(***************************************************************************)
EveryTaskDecided ==
  \A c \in Ids : verdict[c] = "sent" ~>
    \/ verdict[c] # "sent"
    \/ \E d \in Slots :
         dpc[d] = "dead" /\ \E k \in DOMAIN cmdPipe[d] : cmdPipe[d][k].id = c

(***************************************************************************)
(* "Завершение всех драйверов" (line 378): once the command loop is left,  *)
(* the CLI terminates every driver and then itself.                        *)
(***************************************************************************)
ExitEnds == cpc = "reap" ~> cpc = "done"

(***************************************************************************)
(* "Подтверждение приёма" (line 121): an OK shown for a task says that the *)
(* driver accepted this task.                                              *)
(***************************************************************************)
OkConfirmsAcceptance ==
  (\E i \in DOMAIN answer.replies : answer.replies[i].kind = "OK") =>
    verdict[answer.id] = "OK"
=============================================================================
