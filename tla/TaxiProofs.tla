----------------------------- MODULE TaxiProofs -----------------------------
(***************************************************************************)
(* Proofs about Taxi, for every number of drivers, every set of task times *)
(* and every number of tasks sent.                                         *)
(***************************************************************************)
EXTENDS Taxi, BasicFacts, TLAPS

(***************************************************************************)
(* What the type invariant needs of the control points.                    *)
(***************************************************************************)
Control ==
  /\ cpc = "forked" => num < MaxDrivers /\ count < MaxDrivers
  /\ \A d \in Slots : dpc[d] = "read" => cmdPipe[d] # <<>>
  /\ \A d \in Slots :
       dpc[d] \in {"take", "arm", "confirm", "refuse"} => got[d] \in Command

IType == TypeOK /\ Control

\* Every step of UserStep, CliStep and the drivers, by name.
LEMMA NextCases ==
  ASSUME Next
  PROVE  \/ Fork \/ GetDrivers \/ Quit \/ OtherLine \/ Signal
         \/ SelectInterrupted
         \/ \E p \in Pids : GetStatus(p)
         \/ \E p \in Pids, t \in Timers : SendTask(p, t)
         \/ Register \/ ReadReply \/ NoResponse \/ ReadBusy \/ ReadRemaining
         \/ Reap \/ Finish
         \/ \E d \in Slots :
              \/ Boot(d) \/ Poll(d) \/ ReadCmd(d) \/ StoreStatus(d) \/ Arm(d)
              \/ Confirm(d) \/ Refuse(d) \/ Expire(d) \/ TimerExpires(d)
              \/ DriverDies(d)
BY DEF Next, UserStep, CliStep, DriverStep

(***************************************************************************)
(* A group of variables that a step leaves alone keeps its type.           *)
(***************************************************************************)
LEMMA UnchangedTypes ==
  /\ ShmType /\ UNCHANGED shmVars => ShmType'
  /\ InfoType /\ UNCHANGED infoVars => InfoType'
  /\ CliType /\ UNCHANGED cliVars => CliType'
  /\ DriverType /\ UNCHANGED driverVars => DriverType'
  /\ HistType /\ UNCHANGED histVars => HistType'
BY DEF ShmType, InfoType, CliType, DriverType, HistType, shmVars, infoVars,
       cliVars, driverVars, histVars

LEMMA SlotFacts ==
  /\ 0 \in Slots
  /\ \A n \in 0 .. MaxDrivers : n < MaxDrivers => n \in Slots
  /\ \A n \in 0 .. MaxDrivers : n > 0 => n - 1 \in Slots
  /\ \A n, m \in Slots : n < m => n + 1 \in Slots
  /\ Slots \subseteq 0 .. MaxDrivers
BY TaxiAssumption DEF Slots

LEMMA InitType == Init => IType
<1> SUFFICES ASSUME Init PROVE IType
  OBVIOUS
<1> USE TaxiAssumption, SlotFacts DEF Init
<1>1. ShmType /\ InfoType /\ CliType
  BY DEF ShmType, InfoType, CliType
<1>2. DriverType
  <2>1. [cmd |-> FALSE, tmr |-> FALSE] \in Revents
    BY DEF Revents
  <2>. QED
    BY <2>1 DEF DriverType
<1>3. HistType
  <2>1. answer \in [id : Ids \cup {0}, slot : Slots, replies : Seq(Reply)]
    OBVIOUS
  <2>. QED
    BY <2>1 DEF HistType
<1>4. Control
  BY DEF Control
<1>. QED
  BY <1>1, <1>2, <1>3, <1>4 DEF IType, TypeOK

LEMMA CliStepType ==
  ASSUME IType, CliStep
  PROVE  IType'
<1> USE SlotFacts, UnchangedTypes DEF IType, TypeOK, Control
<1>1. CASE Register
  <2>1. ShmType'
    BY <1>1, TaxiAssumption DEF Register, ShmType, CliType
  <2>2. InfoType'
    BY <1>1, TaxiAssumption DEF Register, InfoType, ShmType, CliType
  <2>3. CliType' /\ Control'
    BY <1>1 DEF Register, LoopTop, CliType, driverVars
  <2>. QED
    BY <1>1, <2>1, <2>2, <2>3 DEF Register
<1>2. CASE ReadReply
  <2>1. CliType' /\ Control'
    BY <1>2 DEF ReadReply, LoopTop, CliType, DriverType
  <2>2. DriverType'
    <3>1. <<>> \in Seq(Reply)
      OBVIOUS
    <3>2. respPipe' \in [Slots -> Seq(Reply)]
      BY <1>2, <3>1 DEF ReadReply, DriverType
    <3>. QED
      BY <1>2, <3>2 DEF ReadReply, DriverType
  <2>3. cur.timer \in Timers \cup {0} /\ cur.id \in Ids \cup {0}
    <3>1. cur \in Command \cup {NoCommand}
      BY DEF HistType
    <3>2. CASE cur \in Command
      BY <3>2 DEF Command
    <3>3. CASE cur = NoCommand
      BY <3>3 DEF NoCommand
    <3>. QED
      BY <3>1, <3>2, <3>3
  <2>4. answer' \in [id : Ids \cup {0}, slot : Slots, replies : Seq(Reply)]
    BY <1>2, <2>3 DEF ReadReply, CliType, DriverType
  <2>5. HistType'
    BY <1>2, <2>3, <2>4 DEF ReadReply, HistType, CliType
  <2>. QED
    BY <1>2, <2>1, <2>2, <2>5 DEF ReadReply
<1>3. CASE NoResponse
  BY <1>3 DEF NoResponse, LoopTop, CliType, HistType, driverVars
<1>4. CASE ReadBusy
  BY <1>4 DEF ReadBusy, NextSlot, LoopTop, CliType, HistType, driverVars
<1>5. CASE ReadRemaining
  BY <1>5 DEF ReadRemaining, NextSlot, LoopTop, CliType, driverVars
<1>6. CASE Reap
  BY <1>6, TaxiAssumption DEF Reap, CliType, InfoType, infoVars, shmVars,
                              driverVars
<1>7. CASE Finish
  BY <1>7 DEF Finish, CliType, driverVars
<1>. QED
  BY <1>1, <1>2, <1>3, <1>4, <1>5, <1>6, <1>7 DEF CliStep

LEMMA UserStepType ==
  ASSUME IType, UserStep
  PROVE  IType'
<1> USE SlotFacts, UnchangedTypes DEF IType, TypeOK, Control
<1>1. CASE Fork
  <2>1. CliType'
    BY <1>1 DEF Fork, CliType
  <2>3. num < MaxDrivers /\ count < MaxDrivers
    BY <1>1, TaxiAssumption DEF Fork, LimitReached, InfoType, ShmType
  <2>4. Control'
    BY <1>1, <2>3 DEF Fork, DriverType, ShmType, shmVars, infoVars
  <2>2. DriverType'
    BY <1>1 DEF Fork, LimitReached, DriverType, ShmType
  <2>. QED
    BY <1>1, <2>1, <2>2, <2>4 DEF Fork
<1>2. CASE GetDrivers
  BY <1>2 DEF GetDrivers, CliType, ShmType, driverVars
<1>3. CASE Quit \/ OtherLine \/ Signal
  BY <1>3 DEF Quit, OtherLine, Signal, LoopTop, CliType, driverVars, shmVars,
              infoVars
<1>4. CASE SelectInterrupted
  <2>1. CliType'
    BY <1>4 DEF SelectInterrupted, CliType
  <2>2. HistType'
    BY <1>4 DEF SelectInterrupted, HistType, CliType
  <2>3. Control'
    BY <1>4 DEF SelectInterrupted, driverVars
  <2>. QED
    BY <1>4, <2>1, <2>2, <2>3 DEF SelectInterrupted
<1>5. CASE \E p \in Pids : GetStatus(p)
  BY <1>5 DEF GetStatus, CliType, driverVars
<1>6. CASE \E p \in Pids, t \in Timers : SendTask(p, t)
  <2>1. PICK p \in Pids, t \in Timers : SendTask(p, t)
    BY <1>6
  <2>2. PICK i \in Slots :
          LET d == infoSlot[i]
              c == [id |-> sent + 1, timer |-> t] IN
          \/ /\ Alive(d)
             /\ cmdPipe' = [cmdPipe EXCEPT ![d] = Append(@, c)]
             /\ verdict' = [verdict EXCEPT ![sent + 1] = "sent"]
             /\ sent' = sent + 1
             /\ cur' = c
             /\ target' = d
             /\ seen' = [seen EXCEPT ![d] = FALSE]
             /\ cpc' = "select"
          \/ /\ ~Alive(d)
             /\ cpc' = "killed"
             /\ UNCHANGED <<cmdPipe, verdict, sent, cur, target, seen>>
    BY <2>1 DEF SendTask
  <2>3. infoSlot[i] \in Slots
    BY DEF InfoType
  <2>4. [id |-> sent + 1, timer |-> t] \in Command /\ sent + 1 \in Ids
    BY <2>1, TaxiAssumption DEF SendTask, HistType, Command, Ids
  <2>5. cmdPipe' \in [Slots -> Seq(Command)]
    <3>1. \A d \in Slots :
            Append(cmdPipe[d], [id |-> sent + 1, timer |-> t]) \in Seq(Command)
      BY <2>4 DEF DriverType
    <3>. QED
      BY <2>2, <2>3, <3>1 DEF DriverType
  <2>6. DriverType'
    BY <2>1, <2>5 DEF SendTask, DriverType
  <2>7. HistType'
    <3>1. sent + 1 \in 0 .. MaxSent
      BY <2>1, TaxiAssumption DEF SendTask, HistType
    <3>2. /\ sent' \in 0 .. MaxSent
          /\ cur' \in Command \cup {NoCommand}
      BY <2>2, <2>4, <3>1 DEF HistType
    <3>3. /\ verdict' \in [Ids -> {"none", "sent", "OK", "Busy"}]
          /\ seen' \in [Slots -> BOOLEAN]
      BY <2>2, <2>3, <2>4 DEF HistType
    <3>. QED
      BY <2>1, <3>2, <3>3 DEF SendTask, HistType
  <2>8. CliType'
    BY <2>1, <2>2, <2>3 DEF SendTask, CliType
  <2>9. Control'
    BY <2>1, <2>2, <2>3, <2>4 DEF SendTask, DriverType
  <2>. QED
    BY <2>1, <2>6, <2>7, <2>8, <2>9 DEF SendTask
<1>. QED
  BY <1>1, <1>2, <1>3, <1>4, <1>5, <1>6 DEF UserStep

LEMMA DriverStepType ==
  ASSUME IType, NEW d \in Slots,
         DriverStep(d) \/ TimerExpires(d) \/ DriverDies(d)
  PROVE  IType'
<1> USE SlotFacts, UnchangedTypes DEF IType, TypeOK, Control
<1>1. CASE Boot(d)
  <2>1. ShmType'
    BY <1>1 DEF Boot, ShmType, infoVars
  <2>2. DriverType'
    BY <1>1 DEF Boot, DriverType
  <2>3. \A e \in Slots : dpc'[e] = dpc[e] \/ dpc'[e] = "poll"
    BY <1>1 DEF Boot, DriverType
  <2>4. UNCHANGED <<cpc, num, count, cmdPipe, got>>
    BY <1>1 DEF Boot, infoVars, cliVars
  <2>5. cpc' = "forked" => num' < MaxDrivers /\ count' < MaxDrivers
    BY <2>4
  <2>6. Control'
    BY <2>3, <2>4, <2>5
  <2>. QED
    BY <1>1, <2>1, <2>2, <2>6 DEF Boot, infoVars, cliVars
<1>2. CASE Poll(d)
  <2>1. revents' \in [Slots -> Revents]
    BY <1>2 DEF Poll, DriverType, Revents
  <2>. QED
    BY <1>2, <2>1 DEF Poll, DriverType, shmVars, infoVars, cliVars
<1>3. CASE ReadCmd(d)
  <2>1. /\ Head(cmdPipe[d]) \in Command
        /\ Unread(d) \in Seq(Command)
    BY <1>3 DEF ReadCmd, DriverType, Unread
  <2>2. Head(cmdPipe[d]).id \in Ids
    BY <2>1 DEF Command
  <2>3. DriverType'
    BY <1>3, <2>1 DEF ReadCmd, After, DriverType, Fields
  <2>4. HistType'
    BY <1>3, <2>2 DEF ReadCmd, HistType
  <2>5. Control'
    BY <1>3, <2>1 DEF ReadCmd, After, DriverType, shmVars, infoVars, cliVars
  <2>. QED
    BY <1>3, <2>3, <2>4, <2>5 DEF ReadCmd
<1>4. CASE StoreStatus(d)
  <2>1. dpc[d] = "take" => got[d].timer \in Timers \cup {0}
    BY DEF Command
  <2>2. ShmType'
    BY <1>4, <2>1 DEF StoreStatus, ShmType
  <2>3. DriverType' /\ Control'
    BY <1>4 DEF StoreStatus, After, DriverType, infoVars, cliVars
  <2>. QED
    BY <1>4, <2>2, <2>3 DEF StoreStatus
<1>5. CASE Arm(d)
  BY <1>5 DEF Arm, After, DriverType, shmVars, infoVars, cliVars
<1>6. CASE Confirm(d) \/ Refuse(d)
  <2>1. PICK k \in {"OK", "Busy"} : Answer(d, k) /\ dpc[d] \in {"confirm", "refuse"}
    <3>1. CASE Confirm(d)
      BY <3>1 DEF Confirm
    <3>2. CASE Refuse(d)
      BY <3>2 DEF Refuse
    <3>. QED
      BY <1>6, <3>1, <3>2
  <2>2. [id |-> got[d].id, kind |-> k] \in Reply
    BY <2>1 DEF Command, Reply
  <2>3. respPipe' \in [Slots -> Seq(Reply)]
    <3>1. Written(d, k) \in Seq(Reply)
      BY <2>2 DEF Written, DriverType
    <3>. QED
      BY <2>1, <3>1 DEF Answer, DriverType
  <2>4. DriverType'
    BY <2>1, <2>3 DEF Answer, After, TurnEnd, DriverType, shmVars, infoVars,
                      cliVars
  <2>5. Control'
    BY <2>1 DEF Answer, After, TurnEnd, DriverType, shmVars, infoVars, cliVars
  <2>. QED
    BY <2>1, <2>4, <2>5 DEF Answer
<1>7. CASE Expire(d)
  BY <1>7 DEF Expire, After, TimerRead, DriverType, shmVars, infoVars, cliVars
<1>8. CASE TimerExpires(d)
  BY <1>8 DEF TimerExpires, DriverType, shmVars, infoVars, cliVars
<1>9. CASE DriverDies(d)
  BY <1>9 DEF DriverDies, DriverType, shmVars, infoVars, cliVars
<1>. QED
  BY <1>1, <1>2, <1>3, <1>4, <1>5, <1>6, <1>7, <1>8, <1>9 DEF DriverStep

LEMMA TypeInvariant == Spec => []IType
<1>1. IType /\ UNCHANGED vars => IType'
  BY UnchangedTypes DEF IType, TypeOK, Control, vars, shmVars, infoVars,
                        cliVars, driverVars
<1>2. IType /\ [Next]_vars => IType'
  BY <1>1, UserStepType, CliStepType, DriverStepType DEF Next
<1>. QED
  BY <1>2, InitType, PTL DEF Spec

(***************************************************************************)
(* Every variable keeps its type, for any number of drivers and tasks.     *)
(***************************************************************************)
THEOREM TypeCorrect == Spec => []TypeOK
BY TypeInvariant, PTL DEF IType
-----------------------------------------------------------------------------
(***************************************************************************)
(* A slot that has not been registered holds a driver that has done        *)
(* nothing, so the parent's half of create_driver overwrites only zeros.   *)
(***************************************************************************)
Fresh ==
  /\ num = count
  /\ \A i \in Slots : i < num => infoSlot[i] < count
  /\ \A d \in Slots : d >= count =>
       /\ dpc[d] \in {"absent", "boot", "poll", "dead"}
       /\ cmdPipe[d] = <<>> /\ respPipe[d] = <<>>
       /\ timer[d] = "off" /\ busy[d] = 0

LEMMA InitFresh == Init => Fresh
BY TaxiAssumption DEF Init, Fresh, Slots

LEMMA RegisterKeepsBusy ==
  ASSUME IType, Fresh, Register
  PROVE  busy' = busy
<1>1. count \in Slots /\ busy[count] = 0
  BY SlotFacts DEF IType, TypeOK, Control, Register, Fresh, ShmType
<1>. QED
  BY <1>1 DEF Register, IType, TypeOK, ShmType

\* Any other step of the CLI leaves the shared record alone.
LEMMA CliKeepsBusy ==
  ASSUME IType, Fresh, UserStep \/ CliStep
  PROVE  busy' = busy
BY RegisterKeepsBusy
   DEF UserStep, CliStep, Fork, GetDrivers, Quit, OtherLine, Signal,
       SelectInterrupted, GetStatus, SendTask, ReadReply, NoResponse, ReadBusy,
       ReadRemaining, Reap, Finish, shmVars

LEMMA UserStepFresh ==
  ASSUME IType, Fresh, UserStep
  PROVE  Fresh'
<1> USE DEF IType, TypeOK, Fresh
<1>1. CASE Fork
  BY <1>1 DEF Fork, shmVars, infoVars, DriverType
<1>2. CASE GetDrivers \/ Quit \/ OtherLine \/ Signal \/ SelectInterrupted
  BY <1>2 DEF GetDrivers, Quit, OtherLine, Signal, SelectInterrupted, shmVars,
              infoVars, driverVars
<1>3. CASE \E p \in Pids : GetStatus(p)
  BY <1>3 DEF GetStatus, shmVars, infoVars, driverVars
<1>4. CASE \E p \in Pids, t \in Timers : SendTask(p, t)
  <2>1. PICK p \in Pids, t \in Timers, i \in Slots :
          /\ SendTask(p, t)
          /\ InfoIndex(p, i)
          /\ \/ UNCHANGED cmdPipe
             \/ cmdPipe' = [cmdPipe EXCEPT ![infoSlot[i]] =
                              Append(@, [id |-> sent + 1, timer |-> t])]
    BY <1>4 DEF SendTask
  <2>2. infoSlot[i] \in Slots /\ infoSlot[i] < count
    BY <2>1, TaxiAssumption DEF InfoIndex, IsLeast, InfoType, Slots
  <2>3. \A d \in Slots : d >= count => cmdPipe'[d] = cmdPipe[d]
    <3>1. \A d \in Slots : d >= count => d # infoSlot[i]
      BY <2>2, TaxiAssumption DEF ShmType, Slots
    <3>. QED
      BY <2>1, <3>1 DEF DriverType
  <2>. QED
    BY <2>1, <2>3 DEF SendTask, shmVars, infoVars
<1>. QED
  BY <1>1, <1>2, <1>3, <1>4 DEF UserStep

LEMMA CliStepFresh ==
  ASSUME IType, Fresh, CliStep
  PROVE  Fresh'
<1> USE DEF IType, TypeOK, Fresh
<1>1. CASE Register
  <2>1. count \in Slots /\ num \in Slots /\ count' = count + 1 /\ num' = num + 1
    BY <1>1, SlotFacts DEF Register, Control, ShmType, InfoType
  <2>2. ASSUME NEW i \in Slots, i < num'
        PROVE  infoSlot'[i] < count'
    BY <1>1, <2>1, <2>2, TaxiAssumption DEF Register, InfoType, Slots
  <2>3. ASSUME NEW d \in Slots, d >= count'
        PROVE  d >= count
    BY <2>1, <2>3, TaxiAssumption DEF Slots
  <2>. QED
    BY <1>1, <2>1, <2>2, <2>3, RegisterKeepsBusy DEF Register, driverVars
<1>2. CASE ReadReply
  BY <1>2 DEF ReadReply, shmVars, infoVars, DriverType
<1>3. CASE NoResponse \/ ReadBusy \/ ReadRemaining \/ Reap \/ Finish
  BY <1>3 DEF NoResponse, ReadBusy, ReadRemaining, Reap, Finish, shmVars,
              infoVars, driverVars
<1>. QED
  BY <1>1, <1>2, <1>3 DEF CliStep

LEMMA DriverStepFresh ==
  ASSUME IType, Fresh, NEW d \in Slots,
         DriverStep(d) \/ TimerExpires(d) \/ DriverDies(d)
  PROVE  Fresh'
<1> USE DEF IType, TypeOK, Fresh
<1>1. CASE Boot(d)
  BY <1>1 DEF Boot, infoVars, ShmType, DriverType
<1>2. CASE Poll(d)
  BY <1>2 DEF Poll, shmVars, infoVars, DriverType
<1>3. CASE ReadCmd(d) \/ StoreStatus(d) \/ Arm(d) \/ Confirm(d) \/ Refuse(d)
             \/ Expire(d)
  <2>1. ~(d >= count)
    BY <1>3 DEF ReadCmd, StoreStatus, Arm, Confirm, Refuse, Expire
  <2>2. UNCHANGED <<count, infoVars>>
    BY <1>3 DEF ReadCmd, StoreStatus, Arm, Confirm, Refuse, Expire, Answer,
                shmVars
  <2>3. \A e \in Slots : e # d =>
          /\ dpc'[e] = dpc[e] /\ cmdPipe'[e] = cmdPipe[e]
          /\ respPipe'[e] = respPipe[e] /\ timer'[e] = timer[e]
          /\ busy'[e] = busy[e]
    BY <1>3 DEF ReadCmd, StoreStatus, Arm, Confirm, Refuse, Expire, Answer,
                shmVars, ShmType, DriverType
  <2>. QED
    BY <2>1, <2>2, <2>3 DEF infoVars
<1>4. CASE TimerExpires(d)
  BY <1>4 DEF TimerExpires, shmVars, infoVars, DriverType
<1>5. CASE DriverDies(d)
  BY <1>5 DEF DriverDies, shmVars, infoVars, DriverType
<1>. QED
  BY <1>1, <1>2, <1>3, <1>4, <1>5 DEF DriverStep

ISafe == IType /\ Fresh

LEMMA SafeInvariant == Spec => []ISafe
<1>1. Init => Fresh
  BY InitFresh
<1>2. ISafe /\ [Next]_vars => Fresh'
  <2>1. ASSUME Fresh, UNCHANGED vars PROVE Fresh'
    BY <2>1 DEF Fresh, vars, shmVars, infoVars, driverVars
  <2>. QED
    BY <2>1, UserStepFresh, CliStepFresh, DriverStepFresh DEF ISafe, Next
<1>. QED
  BY <1>1, <1>2, TypeInvariant, PTL DEF Spec, ISafe
-----------------------------------------------------------------------------
(***************************************************************************)
(* The busy flag and the timer.                                            *)
(***************************************************************************)
LEMMA DriverFrame ==
  ASSUME IType, NEW d \in Slots,
         DriverStep(d) \/ TimerExpires(d) \/ DriverDies(d),
         NEW e \in Slots, e # d
  PROVE  /\ dpc'[e] = dpc[e] /\ busy'[e] = busy[e] /\ timer'[e] = timer[e]
         /\ todo'[e] = todo[e] /\ revents'[e] = revents[e]
         /\ cmdPipe'[e] = cmdPipe[e] /\ respPipe'[e] = respPipe[e]
BY DEF DriverStep, Boot, Poll, ReadCmd, StoreStatus, Arm, Confirm, Refuse,
       Answer, Expire, TimerExpires, DriverDies, IType, TypeOK, ShmType,
       DriverType, shmVars

LEMMA DriverStepMatches ==
  ASSUME ISafe, NEW d \in Slots, BusyMatches(d),
         DriverStep(d) \/ TimerExpires(d) \/ DriverDies(d)
  PROVE  BusyMatches(d)'
<1> USE DEF ISafe, IType, TypeOK, ShmType, DriverType, BusyMatches
<1>1. CASE Boot(d)
  BY <1>1 DEF Boot
<1>2. CASE Poll(d)
  BY <1>2 DEF Poll, shmVars
<1>3. CASE ReadCmd(d)
  BY <1>3 DEF ReadCmd, After, Fields, shmVars
<1>4. CASE StoreStatus(d)
  <2>1. PICK f \in todo[d] :
          /\ f = "busy" => busy'[d] = IF dpc[d] = "take" THEN 1 ELSE 0
          /\ f # "busy" => busy'[d] = busy[d]
          /\ todo'[d] = todo[d] \ {f}
          /\ todo[d] = {f} =>
               dpc'[d] = IF dpc[d] = "take" THEN "arm" ELSE "poll"
          /\ todo[d] # {f} => dpc'[d] = dpc[d]
    BY <1>4 DEF StoreStatus, After
  <2>2. dpc[d] \in {"take", "free"} /\ busy[d] \in {0, 1}
    BY <1>4 DEF StoreStatus
  <2>3. timer' = timer /\ revents' = revents
    BY <1>4 DEF StoreStatus
  <2>. QED
    BY <2>1, <2>2, <2>3
<1>5. CASE Arm(d)
  BY <1>5 DEF Arm, After, shmVars
<1>6. CASE Confirm(d) \/ Refuse(d)
  BY <1>6 DEF Confirm, Refuse, Answer, After, TurnEnd, shmVars
<1>7. CASE Expire(d)
  BY <1>7 DEF Expire, After, TimerRead, Fields, shmVars
<1>8. CASE TimerExpires(d)
  BY <1>8 DEF TimerExpires, shmVars
<1>9. CASE DriverDies(d)
  BY <1>9 DEF DriverDies, shmVars
<1>. QED
  BY <1>1, <1>2, <1>3, <1>4, <1>5, <1>6, <1>7, <1>8, <1>9 DEF DriverStep

LEMMA CliStepMatches ==
  ASSUME ISafe, BusyMatchesTimer, UserStep \/ CliStep
  PROVE  BusyMatchesTimer'
<1>1. CASE Fork
  <2>1. \A d \in Slots : d = count => timer[d] = "off"
    BY TaxiAssumption DEF ISafe, Fresh, Slots
  <2>2. \A d \in Slots : dpc'[d] = IF d = count THEN "boot" ELSE dpc[d]
    BY <1>1 DEF Fork, ISafe, IType, TypeOK, DriverType
  <2>3. UNCHANGED <<busy, timer, todo, revents>>
    BY <1>1 DEF Fork, shmVars
  <2>. QED
    BY <2>1, <2>2, <2>3 DEF BusyMatchesTimer, BusyMatches
<1>2. CASE ~Fork
  <2>1. busy' = busy
    BY CliKeepsBusy DEF ISafe
  <2>2. UNCHANGED <<dpc, timer, todo, revents>>
    BY <1>2 DEF UserStep, CliStep, GetDrivers, Quit, OtherLine, Signal,
         SelectInterrupted, GetStatus, SendTask, Register, ReadReply,
         NoResponse, ReadBusy, ReadRemaining, Reap, Finish, driverVars
  <2>. QED
    BY <2>1, <2>2 DEF BusyMatchesTimer, BusyMatches
<1>. QED
  BY <1>1, <1>2

(***************************************************************************)
(* The status record and the timer tell the same story (BusyMatchesTimer), *)
(* for any number of drivers and tasks.                                    *)
(***************************************************************************)
THEOREM BusyTimer == Spec => []BusyMatchesTimer
<1>1. Init => BusyMatchesTimer
  BY DEF Init, BusyMatchesTimer, BusyMatches
<1>2. ISafe /\ BusyMatchesTimer /\ [Next]_vars => BusyMatchesTimer'
  <2> SUFFICES ASSUME ISafe, BusyMatchesTimer, [Next]_vars
               PROVE  BusyMatchesTimer'
    OBVIOUS
  <2>1. CASE UNCHANGED vars
    BY <2>1 DEF BusyMatchesTimer, BusyMatches, vars, shmVars, driverVars
  <2>2. CASE UserStep \/ CliStep
    BY <2>2, CliStepMatches
  <2>3. ASSUME NEW d \in Slots,
               DriverStep(d) \/ TimerExpires(d) \/ DriverDies(d)
        PROVE  BusyMatchesTimer'
    <3>1. BusyMatches(d)'
      BY <2>3, DriverStepMatches DEF BusyMatchesTimer
    <3>2. ASSUME NEW e \in Slots, e # d PROVE BusyMatches(e)'
      BY <2>3, <3>2, DriverFrame DEF BusyMatchesTimer, BusyMatches, ISafe
    <3>. QED
      BY <3>1, <3>2 DEF BusyMatchesTimer
  <2>. QED
    BY <2>1, <2>2, <2>3 DEF Next
<1>. QED
  BY <1>1, <1>2, SafeInvariant, PTL DEF Spec

(***************************************************************************)
(* A driver's task never ends before its timer (NoEarlyRelease): the       *)
(* EAGAIN that the code treats like an expiration never occurs.            *)
(***************************************************************************)
THEOREM TaskRunsItsTime == Spec => NoEarlyRelease
<1> DEFINE Kept == \A d \in Slots : busy[d] = 1 /\ busy'[d] = 0 => timer[d] = "off"
<1>1. ISafe /\ BusyMatchesTimer /\ [Next]_vars => [Kept]_vars
  <2> SUFFICES ASSUME ISafe, BusyMatchesTimer, Next PROVE Kept
    BY DEF vars
  <2>1. CASE UserStep \/ CliStep
    BY <2>1, CliKeepsBusy DEF ISafe
  <2>2. ASSUME NEW d \in Slots,
               DriverStep(d) \/ TimerExpires(d) \/ DriverDies(d)
        PROVE  Kept
    <3>1. \A e \in Slots : e # d => busy'[e] = busy[e]
      BY <2>2, DriverFrame DEF ISafe
    <3>2. dpc[d] \in {"boot", "take", "free"} \/ UNCHANGED busy
      BY <2>2 DEF DriverStep, Boot, Poll, ReadCmd, StoreStatus, Arm, Confirm,
           Refuse, Answer, Expire, TimerExpires, DriverDies, shmVars
    <3>. QED
      BY <3>1, <3>2 DEF BusyMatchesTimer, BusyMatches
  <2>. QED
    BY <2>1, <2>2 DEF Next
<1>. QED
  BY <1>1, SafeInvariant, BusyTimer, PTL DEF Spec, NoEarlyRelease
-----------------------------------------------------------------------------
(***************************************************************************)
(* The replies owed to the CLI.                                            *)
(***************************************************************************)
LEMMA BacklogType ==
  ASSUME IType, NEW d \in Slots
  PROVE  /\ Len(cmdPipe[d]) \in Nat /\ Len(respPipe[d]) \in Nat
         /\ giveUps[d] \in Nat
         /\ InHand(d) \in {0, 1} /\ Due(d) \in Nat
<1>1. Len(cmdPipe[d]) \in Nat /\ Len(respPipe[d]) \in Nat /\ giveUps[d] \in Nat
  BY DEF IType, TypeOK, DriverType, HistType
<1>. QED
  BY <1>1 DEF InHand, Due, Waiting

\* What a step of the driver d does to its own backlog: nothing, but for dying.
LEMMA DriverStepBacklog ==
  ASSUME IType, NEW d \in Slots,
         DriverStep(d) \/ TimerExpires(d) \/ DriverDies(d),
         Alive(d)'
  PROVE  Alive(d) /\ Backlog(d)' = Backlog(d)
<1> USE DEF IType, TypeOK, DriverType, Alive
<1>1. CASE Boot(d)
  BY <1>1 DEF Boot, Backlog, InHand
<1>2. CASE Poll(d)
  BY <1>2 DEF Poll, Backlog, InHand
<1>3. CASE ReadCmd(d)
  <2>1. /\ cmdPipe'[d] = Tail(cmdPipe[d]) /\ respPipe' = respPipe
        /\ dpc[d] = "read" /\ dpc'[d] \in {"take", "refuse"}
    BY <1>3 DEF ReadCmd, Unread, After
  <2>2. cmdPipe[d] \in Seq(Command) /\ cmdPipe[d] # <<>>
    BY <2>1 DEF Control
  <2>3. Len(cmdPipe'[d]) = Len(cmdPipe[d]) - 1 /\ Len(cmdPipe[d]) \in Nat
    BY <2>1, <2>2
  <2>4. InHand(d) = 0 /\ InHand(d)' = 1
    BY <2>1 DEF InHand
  <2>5. Len(respPipe[d]) \in Nat /\ respPipe'[d] = respPipe[d]
    BY <2>1, BacklogType
  <2>6. Backlog(d)' = Backlog(d)
    BY <2>3, <2>4, <2>5 DEF Backlog
  <2>. QED
    BY <2>1, <2>6
<1>4. CASE StoreStatus(d)
  BY <1>4 DEF StoreStatus, After, Backlog, InHand
<1>5. CASE Arm(d)
  BY <1>5 DEF Arm, After, Backlog, InHand
<1>6. CASE Confirm(d) \/ Refuse(d)
  <2>1. PICK k \in {"OK", "Busy"} :
          Answer(d, k) /\ dpc[d] \in {"confirm", "refuse"}
    BY <1>6 DEF Confirm, Refuse
  <2>2. /\ respPipe'[d] =
             Append(respPipe[d], [id |-> got[d].id, kind |-> k])
        /\ cmdPipe' = cmdPipe /\ dpc'[d] \in {"expire", "poll"}
    BY <2>1 DEF Answer, Written, After, TurnEnd
  <2>3. Len(respPipe'[d]) = Len(respPipe[d]) + 1 /\ Len(respPipe[d]) \in Nat
    BY <2>2
  <2>4. InHand(d) = 1 /\ InHand(d)' = 0
    BY <2>1, <2>2 DEF InHand
  <2>5. Len(cmdPipe[d]) \in Nat
    BY BacklogType
  <2>6. Backlog(d)' = Backlog(d)
    BY <2>2, <2>3, <2>4, <2>5 DEF Backlog
  <2>. QED
    BY <2>1, <2>6
<1>7. CASE Expire(d)
  BY <1>7 DEF Expire, After, Backlog, InHand
<1>8. CASE TimerExpires(d)
  BY <1>8 DEF TimerExpires, Backlog, InHand
<1>9. CASE DriverDies(d)
  BY <1>9 DEF DriverDies, Backlog, InHand
<1>. QED
  BY <1>1, <1>2, <1>3, <1>4, <1>5, <1>6, <1>7, <1>8, <1>9 DEF DriverStep

\* Driver steps leave the CLI's side of the account alone.
LEMMA DriverStepDue ==
  ASSUME NEW d \in Slots, DriverStep(d) \/ TimerExpires(d) \/ DriverDies(d)
  PROVE  UNCHANGED <<cpc, target, giveUps, seen, active>>
BY DEF DriverStep, Boot, Poll, ReadCmd, StoreStatus, Arm, Confirm, Refuse,
       Answer, Expire, TimerExpires, DriverDies, cliVars, histVars, shmVars

LEMMA SendTaskBacklog ==
  ASSUME ISafe, BacklogBounded, NEW p \in Pids, NEW t \in Timers, SendTask(p, t)
  PROVE  BacklogBounded'
<1> USE DEF ISafe, IType, TypeOK
<1>1. dpc' = dpc /\ respPipe' = respPipe /\ giveUps' = giveUps
  BY DEF SendTask
<1>2. \A d \in Slots : ~Waiting(d)
  BY DEF SendTask, Waiting
<1>3. CASE UNCHANGED cmdPipe /\ cpc' = "killed"
  BY <1>1, <1>2, <1>3 DEF BacklogBounded, Backlog, InHand, Due, Alive, Waiting
<1>4. ASSUME NEW s \in Slots, NEW c, target' = s, cpc' = "select",
             cmdPipe' = [cmdPipe EXCEPT ![s] = Append(@, c)], c \in Command
      PROVE  BacklogBounded'
  <2>1. /\ Len(cmdPipe'[s]) = Len(cmdPipe[s]) + 1
        /\ \A d \in Slots : d # s => cmdPipe'[d] = cmdPipe[d]
    BY <1>4 DEF DriverType
  <2>2. ASSUME NEW d \in Slots, Alive(d)'
        PROVE  (Backlog(d) <= Due(d))'
    <3>1. Backlog(d) <= giveUps[d]
      BY <1>1, <1>2, <2>2, BacklogType DEF BacklogBounded, Due, Alive
    <3>2. Due(d)' = IF d = s THEN giveUps[d] + 1 ELSE giveUps[d]
      BY <1>1, <1>4, BacklogType DEF Due, Waiting
    <3>3. InHand(d)' = InHand(d)
      BY <1>1 DEF InHand
    <3>4. Backlog(d)' = IF d = s THEN Backlog(d) + 1 ELSE Backlog(d)
      BY <1>1, <2>1, <3>3, BacklogType DEF Backlog
    <3>5. Backlog(d) \in Nat /\ giveUps[d] \in Nat
      BY BacklogType DEF Backlog
    <3>. QED
      BY <3>1, <3>2, <3>4, <3>5
  <2>. QED
    BY <2>2 DEF BacklogBounded
<1>5. PICK i \in Slots :
        \/ UNCHANGED cmdPipe /\ cpc' = "killed"
        \/ /\ cmdPipe' = [cmdPipe EXCEPT ![infoSlot[i]] =
                            Append(@, [id |-> sent + 1, timer |-> t])]
           /\ target' = infoSlot[i]
           /\ cpc' = "select"
  BY DEF SendTask
<1>6. infoSlot[i] \in Slots
  BY DEF InfoType
<1>7. [id |-> sent + 1, timer |-> t] \in Command
  BY TaxiAssumption DEF SendTask, HistType, Command, Ids
<1>. QED
  BY <1>3, <1>4, <1>5, <1>6, <1>7

LEMMA CliStepBacklog ==
  ASSUME ISafe, BacklogBounded, UserStep \/ CliStep
  PROVE  BacklogBounded'
<1> USE DEF ISafe, IType, TypeOK
<1>1. CASE Fork
  <2>1. \A d \in Slots : d = count => Backlog(d) = 0 /\ InHand(d) = 0
    <3>1. ASSUME NEW d \in Slots, d = count
          PROVE  /\ cmdPipe[d] = <<>> /\ respPipe[d] = <<>>
                 /\ dpc[d] \in {"absent", "boot", "poll", "dead"}
      BY <3>1, TaxiAssumption DEF Fresh, ShmType, Slots
    <3>2. ASSUME NEW d \in Slots, d = count
          PROVE  Backlog(d) = 0 /\ InHand(d) = 0
      <4>1. Len(cmdPipe[d]) = 0 /\ Len(respPipe[d]) = 0
        BY <3>1, <3>2
      <4>2. InHand(d) = 0
        BY <3>1, <3>2 DEF InHand
      <4>. QED
        BY <4>1, <4>2 DEF Backlog
    <3>. QED
      BY <3>2
  <2>2. ASSUME NEW d \in Slots, Alive(d)'
        PROVE  (Backlog(d) <= Due(d))'
    <3>1. /\ cpc = "prompt" /\ cpc' = "forked"
          /\ UNCHANGED <<cmdPipe, respPipe, giveUps>>
          /\ dpc'[d] = IF d = count THEN "boot" ELSE dpc[d]
      BY <1>1 DEF Fork, DriverType, histVars
    <3>2. CASE d = count
      <4>1. Due(d)' = giveUps[d] /\ giveUps[d] \in Nat
        BY <3>1, BacklogType DEF Due, Waiting
      <4>2. Backlog(d)' = Backlog(d)
        <5>1. InHand(d) = 0 /\ InHand(d)' = 0
          BY <2>1, <3>1, <3>2 DEF InHand
        <5>. QED
          BY <3>1, <5>1 DEF Backlog
      <4>. QED
        BY <2>1, <3>2, <4>1, <4>2
    <3>3. CASE d # count
      BY <2>2, <3>1, <3>3 DEF BacklogBounded, Backlog, InHand, Due, Waiting,
                                  Alive
    <3>. QED
      BY <3>2, <3>3
  <2>. QED
    BY <2>2 DEF BacklogBounded
<1>2. CASE ReadReply
  <2>1. ASSUME NEW d \in Slots, Alive(d)'
        PROVE  (Backlog(d) <= Due(d))'
    <3>1. /\ UNCHANGED <<dpc, cmdPipe, giveUps>> /\ cpc = "select"
          /\ respPipe'[d] = IF d = target THEN <<>> ELSE respPipe[d]
          /\ ~Waiting(d)'
      BY <1>2 DEF ReadReply, DriverType, LoopTop, Waiting
    <3>2. Backlog(d) <= Due(d) /\ Alive(d)
      BY <2>1, <3>1 DEF BacklogBounded, Alive
    <3>3. CASE d = target
      <4>1. respPipe[d] # <<>> /\ respPipe[d] \in Seq(Reply)
        BY <1>2, <3>2, <3>3 DEF ReadReply, DriverType
      <4>2. Len(respPipe[d]) >= 1 /\ Len(respPipe'[d]) = 0
        BY <3>1, <3>3, <4>1
      <4>. QED
        <5>1. Due(d) = giveUps[d] + 1 /\ Due(d)' = giveUps[d]
          BY <3>1, <3>3, BacklogType DEF Due, Waiting
        <5>2. cmdPipe'[d] = cmdPipe[d] /\ InHand(d)' = InHand(d)
          BY <3>1 DEF InHand
        <5>. QED
          BY <3>2, <4>2, <5>1, <5>2, BacklogType DEF Backlog
    <3>4. CASE d # target
      BY <3>1, <3>2, <3>4 DEF Backlog, InHand, Due, Waiting
    <3>. QED
      BY <3>3, <3>4
  <2>. QED
    BY <2>1 DEF BacklogBounded
<1>3. CASE NoResponse \/ SelectInterrupted
  <2>1. ASSUME NEW d \in Slots, Alive(d)'
        PROVE  (Backlog(d) <= Due(d))'
    <3>1. /\ UNCHANGED <<dpc, cmdPipe, respPipe>> /\ cpc = "select"
          /\ giveUps'[d] = IF d = target THEN giveUps[d] + 1 ELSE giveUps[d]
          /\ ~Waiting(d)'
      BY <1>3 DEF NoResponse, SelectInterrupted, driverVars, HistType, LoopTop,
                  Waiting
    <3>2. Backlog(d) <= Due(d)
      BY <2>1, <3>1 DEF BacklogBounded, Alive
    <3>3. Due(d)' = Due(d)
      BY <3>1, BacklogType DEF Due, Waiting
    <3>. QED
      BY <3>1, <3>2, <3>3 DEF Backlog, InHand
  <2>. QED
    BY <2>1 DEF BacklogBounded
<1>4. CASE \E p \in Pids, t \in Timers : SendTask(p, t)
  BY <1>4, SendTaskBacklog
<1>5. CASE \/ GetDrivers \/ Quit \/ OtherLine \/ Register \/ ReadBusy
           \/ ReadRemaining \/ Reap \/ Finish \/ \E p \in Pids : GetStatus(p)
  <2>1. UNCHANGED <<driverVars, giveUps>> /\ cpc # "select" /\ cpc' # "select"
    BY <1>5 DEF GetDrivers, Quit, OtherLine, Register, ReadBusy,
         ReadRemaining, Reap, Finish, GetStatus, NextSlot, LoopTop, histVars
  <2>. QED
    BY <2>1 DEF driverVars, BacklogBounded, Backlog, InHand, Due, Waiting, Alive
<1>6. CASE Signal
  BY <1>6 DEF Signal, driverVars, histVars, BacklogBounded, Backlog, InHand, Due, Waiting,
              Alive
<1>. QED
  BY <1>1, <1>2, <1>3, <1>4, <1>5, <1>6 DEF UserStep, CliStep

(***************************************************************************)
(* A living driver never owes more replies than the waits given up, plus   *)
(* the one awaited (BacklogBounded).                                       *)
(***************************************************************************)
THEOREM RepliesOwed == Spec => []BacklogBounded
<1>1. Init => BacklogBounded
  BY DEF Init, BacklogBounded, Alive
<1>2. ISafe /\ BacklogBounded /\ [Next]_vars => BacklogBounded'
  <2> SUFFICES ASSUME ISafe, BacklogBounded, [Next]_vars
               PROVE  BacklogBounded'
    OBVIOUS
  <2>1. CASE UNCHANGED vars
    BY <2>1 DEF BacklogBounded, Backlog, InHand, Due, Waiting, Alive, vars,
                cliVars, driverVars, histVars
  <2>2. CASE UserStep \/ CliStep
    BY <2>2, CliStepBacklog
  <2>3. ASSUME NEW d \in Slots,
               DriverStep(d) \/ TimerExpires(d) \/ DriverDies(d)
        PROVE  BacklogBounded'
    <3>1. \A e \in Slots : Due(e)' = Due(e)
      BY <2>3, DriverStepDue DEF Due, Waiting
    <3>2. Alive(d)' => (Backlog(d) <= Due(d))'
      BY <2>3, <3>1, DriverStepBacklog DEF ISafe, BacklogBounded
    <3>3. ASSUME NEW e \in Slots, e # d, Alive(e)'
          PROVE  (Backlog(e) <= Due(e))'
      BY <2>3, <3>1, <3>3, DriverFrame
         DEF ISafe, BacklogBounded, Backlog, InHand, Alive
    <3>. QED
      BY <3>2, <3>3 DEF BacklogBounded
  <2>. QED
    BY <2>1, <2>2, <2>3 DEF Next
<1>. QED
  BY <1>1, <1>2, SafeInvariant, PTL DEF Spec
-----------------------------------------------------------------------------
(***************************************************************************)
(* "Available" stays true.                                                 *)
(***************************************************************************)

\* What the user was shown about d is forgotten while a task is being sent.
WaitingUnseen == \A d \in Slots : Waiting(d) => ~seen[d]

Trust == WaitingUnseen /\ AvailableIsTrustworthy

\* A driver about to take a task has that command in hand.
LEMMA TakingIsOwed ==
  ASSUME IType, BacklogBounded, WaitingUnseen,
         NEW d \in Slots, dpc[d] = "take", giveUps[d] = 0
  PROVE  ~seen[d]
<1>1. Backlog(d) <= Due(d) /\ InHand(d) = 1
  BY DEF BacklogBounded, Alive, InHand
<1>2. Len(cmdPipe[d]) \in Nat /\ Len(respPipe[d]) \in Nat /\ Due(d) \in Nat
  BY BacklogType
<1>3. Waiting(d)
  <2>1. Due(d) # 0
    <3>1. Len(cmdPipe[d]) + 1 + Len(respPipe[d]) <= Due(d)
      BY <1>1 DEF Backlog
    <3>2. \A a, b \in Nat : ~(a + 1 + b <= 0)
      OBVIOUS
    <3>. QED
      BY <3>1, <3>2, <1>2, Zenon
  <2>2. Due(d) = IF cpc = "select" /\ target = d THEN 1 ELSE 0
    BY DEF Due, Waiting
  <2>. QED
    BY <2>1, <2>2 DEF Waiting
<1>. QED
  BY <1>3 DEF WaitingUnseen

LEMMA CliStepTrust ==
  ASSUME ISafe, Trust, UserStep \/ CliStep
  PROVE  Trust'
<1> USE DEF ISafe, IType, TypeOK
<1>1. CASE \E p \in Pids, t \in Timers : SendTask(p, t)
  <2>1. PICK i \in Slots :
          \/ /\ cpc' = "killed" /\ UNCHANGED <<seen, target>>
          \/ /\ target' = infoSlot[i]
             /\ seen' = [seen EXCEPT ![infoSlot[i]] = FALSE]
    BY <1>1 DEF SendTask
  <2>2. infoSlot[i] \in Slots
    BY DEF InfoType
  <2>3. WaitingUnseen'
    BY <2>1, <2>2 DEF WaitingUnseen, Waiting, HistType
  <2>4. UNCHANGED <<busy, giveUps, dpc>>
    BY <1>1 DEF SendTask, shmVars
  <2>5. \A d \in Slots : seen'[d] => seen[d]
    BY <2>1, <2>2 DEF HistType
  <2>. QED
    BY <2>3, <2>4, <2>5 DEF Trust, AvailableIsTrustworthy, Alive
<1>2. CASE ReadBusy
  <2>1. \A d \in Slots : seen'[d] => seen[d] \/ busy[d] = 0
    BY <1>2 DEF ReadBusy, HistType, ShmType
  <2>2. cpc' # "select" /\ UNCHANGED <<busy, giveUps, dpc>>
    BY <1>2 DEF ReadBusy, NextSlot, LoopTop, shmVars, driverVars
  <2>. QED
    BY <2>1, <2>2 DEF Trust, AvailableIsTrustworthy, WaitingUnseen, Waiting,
                      Alive
<1>3. CASE Fork
  <2>1. \A d \in Slots : d = count => busy[d] = 0
    BY TaxiAssumption DEF Fresh, ShmType, Slots
  <2>2. /\ UNCHANGED <<busy, giveUps, seen>> /\ cpc' # "select"
        /\ \A d \in Slots : d # count => dpc'[d] = dpc[d]
    BY <1>3 DEF Fork, shmVars, histVars, DriverType
  <2>. QED
    BY <2>1, <2>2 DEF Trust, AvailableIsTrustworthy, WaitingUnseen, Waiting,
                      Alive
<1>4. CASE NoResponse \/ SelectInterrupted
  <2>1. /\ UNCHANGED <<busy, seen, dpc>> /\ cpc' # "select"
        /\ \A d \in Slots : giveUps'[d] = 0 => giveUps[d] = 0
    BY <1>4 DEF NoResponse, SelectInterrupted, LoopTop, shmVars, driverVars,
                HistType
  <2>. QED
    BY <2>1 DEF Trust, AvailableIsTrustworthy, WaitingUnseen, Waiting, Alive
<1>5. CASE \/ GetDrivers \/ Quit \/ OtherLine \/ Register \/ ReadReply
           \/ ReadRemaining \/ Reap \/ Finish \/ Signal
           \/ \E p \in Pids : GetStatus(p)
  <2>1. busy' = busy
    BY CliKeepsBusy
  <2>2. UNCHANGED <<dpc, giveUps, seen>>
    BY <1>5 DEF GetDrivers, Quit, OtherLine, Register, ReadReply,
         ReadRemaining, Reap, Finish, Signal, GetStatus, histVars, driverVars
  <2>3. cpc' # "select" \/ UNCHANGED <<cpc, target>>
    BY <1>5 DEF GetDrivers, Quit, OtherLine, Register, ReadReply,
         ReadRemaining, Reap, Finish, Signal, GetStatus, NextSlot, LoopTop
  <2>. QED
    BY <2>1, <2>2, <2>3 DEF Trust, AvailableIsTrustworthy, WaitingUnseen,
                            Waiting, Alive
<1>. QED
  BY <1>1, <1>2, <1>3, <1>4, <1>5 DEF UserStep, CliStep

LEMMA DriverStepTrust ==
  ASSUME ISafe, Trust, BacklogBounded, NEW d \in Slots,
         DriverStep(d) \/ TimerExpires(d) \/ DriverDies(d)
  PROVE  Trust'
<1>1. UNCHANGED <<cpc, target, giveUps, seen>>
  BY DriverStepDue
<1>2. WaitingUnseen'
  BY <1>1 DEF Trust, WaitingUnseen, Waiting
<1>3. \A e \in Slots : Alive(e)' => Alive(e)
  BY DriverFrame, DriverStepBacklog DEF ISafe, Alive
<1>4. \A e \in Slots : e # d => busy'[e] = busy[e]
  BY DriverFrame DEF ISafe
<1>5. busy'[d] = busy[d] \/ busy'[d] = 0 \/ dpc[d] = "take"
  <2>1. \/ Boot(d) \/ StoreStatus(d)
        \/ UNCHANGED busy
    BY DEF DriverStep, Poll, ReadCmd, Arm, Confirm, Refuse, Answer, Expire,
           TimerExpires, DriverDies, shmVars
  <2>. QED
    BY <2>1 DEF Boot, StoreStatus, ISafe, IType, TypeOK, ShmType
<1>6. dpc[d] = "take" /\ giveUps[d] = 0 => ~seen[d]
  BY TakingIsOwed DEF ISafe, Trust
<1>. QED
  BY <1>1, <1>2, <1>3, <1>4, <1>5, <1>6 DEF Trust, AvailableIsTrustworthy

(***************************************************************************)
(* A driver shown Available to a user who gave up no wait for it is        *)
(* available until the next task is sent to it, although the report and    *)
(* the driver share the record without a lock.                             *)
(***************************************************************************)
THEOREM AvailableHolds == Spec => []AvailableIsTrustworthy
<1>1. Init => Trust
  BY DEF Init, Trust, WaitingUnseen, Waiting, AvailableIsTrustworthy
<1>2. ISafe /\ BacklogBounded /\ Trust /\ [Next]_vars => Trust'
  <2>1. ASSUME Trust, UNCHANGED vars PROVE Trust'
    BY <2>1 DEF Trust, WaitingUnseen, Waiting, AvailableIsTrustworthy, Alive,
                vars, shmVars, cliVars, driverVars, histVars
  <2>. QED
    BY <2>1, CliStepTrust, DriverStepTrust DEF Next
<1>3. Spec => []Trust
  BY <1>1, <1>2, SafeInvariant, RepliesOwed, PTL DEF Spec
<1>. QED
  BY <1>3, PTL DEF Trust
-----------------------------------------------------------------------------
(***************************************************************************)
(* The two tables.                                                         *)
(***************************************************************************)

\* create_driver fills both tables at the same index, with a pid of its own.
Tables ==
  /\ \A i \in Slots : i < count =>
       /\ infoSlot[i] = i /\ infoPid[i] = slotPid[i]
       /\ active[i] /\ dpc[i] # "absent"
  /\ \A i, j \in Slots :
       i < count /\ j < count /\ slotPid[i] = slotPid[j] => i = j
  /\ cpc = "forked" =>
       /\ dpc[count] # "absent"
       /\ \A i \in Slots : slotPid[i] # newPid

LEMMA InitTables == Init => Tables
BY TaxiAssumption DEF Init, Tables, Slots

LEMMA ForkTables ==
  ASSUME ISafe, Tables, Fork
  PROVE  Tables'
<1> USE DEF ISafe, IType, TypeOK
<1>1. /\ UNCHANGED <<infoSlot, infoPid, slotPid, active, count>>
      /\ \A i \in Slots : slotPid[i] # newPid'
  BY DEF Fork, shmVars, infoVars
<1>2. count \in Slots
  <2>1. ~(count >= MaxDrivers) /\ count \in 0 .. MaxDrivers
    BY DEF Fork, LimitReached, ShmType
  <2>. QED
    BY <2>1, TaxiAssumption DEF Slots
<1>3. /\ \A i \in Slots : dpc[i] # "absent" => dpc'[i] # "absent"
      /\ dpc'[count] # "absent"
  BY <1>2 DEF Fork, DriverType
<1>. QED
  BY <1>1, <1>3 DEF Tables

LEMMA RegisterTables ==
  ASSUME ISafe, Tables, Register
  PROVE  Tables'
<1> USE DEF ISafe, IType, TypeOK
<1>1. /\ count \in Slots /\ num = count /\ count' = count + 1
      /\ cpc' # "forked" /\ dpc' = dpc
  <2>1. count \in 0 .. MaxDrivers /\ count < MaxDrivers
    BY DEF Register, Control, ShmType
  <2>2. num = count /\ count' = count + 1 /\ cpc' # "forked" /\ dpc' = dpc
    BY DEF Register, Fresh, LoopTop, driverVars
  <2>. QED
    BY <2>1, <2>2, SlotFacts
<1>2. \A i \in Slots :
        /\ infoSlot'[i] = IF i = count THEN count ELSE infoSlot[i]
        /\ infoPid'[i] = IF i = count THEN newPid ELSE infoPid[i]
        /\ slotPid'[i] = IF i = count THEN newPid ELSE slotPid[i]
        /\ active'[i] = IF i = count THEN TRUE ELSE active[i]
  <2>1. /\ infoSlot' = [infoSlot EXCEPT ![count] = count]
        /\ infoPid' = [infoPid EXCEPT ![count] = newPid]
        /\ slotPid' = [slotPid EXCEPT ![count] = newPid]
        /\ active' = [active EXCEPT ![count] = TRUE]
    BY <1>1 DEF Register
  <2>2. /\ DOMAIN infoSlot = Slots /\ DOMAIN infoPid = Slots
        /\ DOMAIN slotPid = Slots /\ DOMAIN active = Slots
    BY DEF InfoType, ShmType
  <2>. QED
    BY <1>1, <2>1, <2>2
<1>3. \A i \in Slots : i < count' => i < count \/ i = count
  BY <1>1, TaxiAssumption DEF Slots, ShmType
<1>4. dpc[count] # "absent" /\ \A i \in Slots : slotPid[i] # newPid
  BY DEF Register, Tables
<1>5. ASSUME NEW i \in Slots, i < count'
      PROVE  /\ infoSlot'[i] = i /\ infoPid'[i] = slotPid'[i]
             /\ active'[i] /\ dpc'[i] # "absent"
  <2>1. CASE i = count
    BY <1>1, <1>2, <1>4, <2>1
  <2>2. CASE i < count
    <3>1. i # count
      BY <2>2, TaxiAssumption DEF Slots, ShmType
    <3>. QED
      BY <1>1, <1>2, <2>2, <3>1 DEF Tables
  <2>. QED
    BY <1>3, <1>5, <2>1, <2>2
<1>6. ASSUME NEW i \in Slots, NEW j \in Slots,
             i < count', j < count', slotPid'[i] = slotPid'[j]
      PROVE  i = j
  <2>1. \A k \in Slots : k < count' =>
          slotPid'[k] = (IF k = count THEN newPid ELSE slotPid[k])
            /\ (k < count \/ k = count) /\ slotPid[k] # newPid
    BY <1>2, <1>3, <1>4
  <2>2. CASE i = count \/ j = count
    BY <1>6, <2>1, <2>2
  <2>3. CASE i # count /\ j # count
    <3>1. slotPid[i] = slotPid[j] /\ i < count /\ j < count
      BY <1>6, <2>1, <2>3
    <3>. QED
      BY <3>1 DEF Tables
  <2>. QED
    BY <2>2, <2>3
<1>. QED
  BY <1>1, <1>5, <1>6 DEF Tables

LEMMA StepTables ==
  ASSUME ISafe, Tables, Next
  PROVE  Tables'
<1> USE DEF ISafe, IType, TypeOK
<1>1. CASE Fork \/ Register
  BY <1>1, ForkTables, RegisterTables
<1>2. CASE (UserStep /\ ~Fork) \/ (CliStep /\ ~Register)
  <2>1. UNCHANGED <<shmVars, infoVars, dpc, newPid>>
    BY <1>2 DEF UserStep, CliStep, GetDrivers, Quit, OtherLine, Signal,
         SelectInterrupted, GetStatus, SendTask, ReadReply, NoResponse,
         ReadBusy, ReadRemaining, Reap, Finish, driverVars
  <2>2. cpc' = "forked" => cpc = "forked"
    BY <1>2 DEF UserStep, CliStep, GetDrivers, Quit, OtherLine, Signal,
         SelectInterrupted, GetStatus, SendTask, ReadReply, NoResponse,
         ReadBusy, ReadRemaining, Reap, Finish, NextSlot, LoopTop
  <2>. QED
    BY <2>1, <2>2 DEF Tables, shmVars, infoVars
<1>3. ASSUME NEW d \in Slots,
             DriverStep(d) \/ TimerExpires(d) \/ DriverDies(d)
      PROVE  Tables'
  <2>1. UNCHANGED <<slotPid, active, count, infoVars, cliVars>>
    BY <1>3 DEF DriverStep, Boot, Poll, ReadCmd, StoreStatus, Arm, Confirm,
         Refuse, Answer, Expire, TimerExpires, DriverDies, shmVars
  <2>2. dpc[d] # "absent" => dpc'[d] # "absent"
    BY <1>3 DEF DriverStep, Boot, Poll, ReadCmd, StoreStatus, Arm, Confirm,
         Refuse, Answer, Expire, TimerExpires, DriverDies, DriverType, After,
         TurnEnd
  <2>3. \A e \in Slots : dpc[e] # "absent" => dpc'[e] # "absent"
    BY <1>3, <2>2, DriverFrame
  <2>4. cpc = "forked" => count \in Slots
    BY SlotFacts DEF Control, ShmType
  <2>. QED
    BY <2>1, <2>3, <2>4 DEF Tables, infoVars, cliVars
<1>. QED
  BY <1>1, <1>2, <1>3 DEF Next

(***************************************************************************)
(* send_task and get_status mean the same driver by the same pid           *)
(* (TablesAgree), whatever pids fork() gives.                              *)
(***************************************************************************)
THEOREM SameDriver == Spec => []TablesAgree
<1>1. ISafe /\ Tables /\ [Next]_vars => Tables'
  <2>1. ASSUME Tables, UNCHANGED vars PROVE Tables'
    BY <2>1 DEF Tables, vars, shmVars, infoVars, cliVars, driverVars
  <2>. QED
    BY <2>1, StepTables
<1>2. ISafe /\ Tables => TablesAgree
  <2> SUFFICES ASSUME ISafe, Tables,
                      NEW p \in Pids, NEW i \in Slots, InfoIndex(p, i)
               PROVE  SlotOfPid(p, infoSlot[i]) /\ dpc[infoSlot[i]] # "absent"
    BY DEF TablesAgree, ISafe, Fresh
  <2>1. i < count /\ infoPid[i] = p
    BY TaxiAssumption
       DEF InfoIndex, IsLeast, ISafe, Fresh, Slots, IType, TypeOK, ShmType
  <2>2. infoSlot[i] = i /\ slotPid[i] = p /\ active[i] /\ dpc[i] # "absent"
    BY <2>1 DEF Tables
  <2>3. \A j \in 0 .. count - 1 : j \in Slots /\ j < count
    BY TaxiAssumption DEF ISafe, IType, TypeOK, ShmType, Slots
  <2>4. i \in 0 .. count - 1
    BY <2>1, TaxiAssumption DEF ISafe, IType, TypeOK, ShmType, Slots
  <2>5. \A j \in 0 .. count - 1 : slotPid[j] = p => j = i
    BY <2>1, <2>2, <2>3 DEF Tables
  <2>6. i <= i
    BY TaxiAssumption DEF Slots
  <2>. QED
    BY <2>2, <2>4, <2>5, <2>6 DEF SlotOfPid, IsLeast
<1>. QED
  BY <1>1, <1>2, InitTables, SafeInvariant, PTL DEF Spec
-----------------------------------------------------------------------------
(***************************************************************************)
(* Which task a reply answers.                                             *)
(***************************************************************************)

\* A command that has not been read is waiting for its verdict, in one place.
Numbered ==
  /\ \A c \in Ids : c > sent => verdict[c] = "none"
  /\ \A d \in Slots : \A k \in 1 .. Len(cmdPipe[d]) :
       verdict[cmdPipe[d][k].id] = "sent"
  /\ \A d, e \in Slots :
       \A k \in 1 .. Len(cmdPipe[d]), l \in 1 .. Len(cmdPipe[e]) :
         cmdPipe[d][k].id = cmdPipe[e][l].id => d = e /\ k = l

LEMMA PipeItems ==
  ASSUME IType, NEW d \in Slots
  PROVE  /\ cmdPipe[d] \in Seq(Command) /\ respPipe[d] \in Seq(Reply)
         /\ \A k \in 1 .. Len(cmdPipe[d]) :
              cmdPipe[d][k] \in Command /\ cmdPipe[d][k].id \in Ids
         /\ \A k \in 1 .. Len(respPipe[d]) : respPipe[d][k] \in Reply
<1>1. cmdPipe[d] \in Seq(Command) /\ respPipe[d] \in Seq(Reply)
  BY DEF IType, TypeOK, DriverType
<1>2. \A k \in 1 .. Len(cmdPipe[d]) : cmdPipe[d][k] \in Command
  BY <1>1
<1>3. \A k \in 1 .. Len(respPipe[d]) : respPipe[d][k] \in Reply
  BY <1>1
<1>. QED
  BY <1>1, <1>2, <1>3 DEF Command

\* The two things send_task can do to the pipes and the histories.
LEMMA SendTaskEffect ==
  ASSUME ISafe, NEW p \in Pids, NEW t \in Timers, SendTask(p, t)
  PROVE  /\ cpc = "prompt"
         /\ UNCHANGED <<shmVars, count, dpc, respPipe, got, todo, giveUps,
                        answer, told>>
         /\ \/ /\ cpc' = "killed"
               /\ UNCHANGED <<cmdPipe, verdict, sent, cur, target>>
            \/ /\ cpc' = "select" /\ sent + 1 \in Ids /\ sent' = sent + 1
               /\ target' \in Slots /\ Alive(target')
               /\ cur' = [id |-> sent + 1, timer |-> t] /\ cur' \in Command
               /\ cmdPipe' =
                    [cmdPipe EXCEPT ![target'] = Append(@, cur')]
               /\ verdict' = [verdict EXCEPT ![sent + 1] = "sent"]
<1> USE DEF ISafe, IType, TypeOK
<1>1. PICK i \in Slots :
        \/ /\ cpc' = "killed"
           /\ UNCHANGED <<cmdPipe, verdict, sent, cur, target>>
        \/ /\ Alive(infoSlot[i])
           /\ cmdPipe' = [cmdPipe EXCEPT ![infoSlot[i]] =
                            Append(@, [id |-> sent + 1, timer |-> t])]
           /\ verdict' = [verdict EXCEPT ![sent + 1] = "sent"]
           /\ sent' = sent + 1
           /\ cur' = [id |-> sent + 1, timer |-> t]
           /\ target' = infoSlot[i]
           /\ cpc' = "select"
  BY DEF SendTask
<1>2. infoSlot[i] \in Slots
  BY DEF InfoType
<1>3. [id |-> sent + 1, timer |-> t] \in Command /\ sent + 1 \in Ids
  BY TaxiAssumption DEF SendTask, HistType, Command, Ids
<1>4. /\ cpc = "prompt"
      /\ UNCHANGED <<shmVars, count, dpc, respPipe, got, todo, giveUps,
                     answer, told>>
  BY DEF SendTask, shmVars
<1>. QED
  BY <1>1, <1>2, <1>3, <1>4

LEMMA SendTaskNumbered ==
  ASSUME ISafe, Numbered, NEW p \in Pids, NEW t \in Timers, SendTask(p, t)
  PROVE  Numbered'
<1>1. CASE UNCHANGED <<cmdPipe, verdict, sent>>
  BY <1>1 DEF Numbered
<1>2. CASE cpc' = "select"
  <2>1. /\ sent + 1 \in Ids /\ sent' = sent + 1 /\ target' \in Slots
        /\ cur' \in Command /\ cur'.id = sent + 1
        /\ cmdPipe' = [cmdPipe EXCEPT ![target'] = Append(@, cur')]
        /\ verdict' = [verdict EXCEPT ![sent + 1] = "sent"]
    BY <1>2, SendTaskEffect
  <2>2. PICK s \in Slots, c \in Command :
          s = target' /\ c = cur' /\ c.id = sent + 1
    BY <2>1
  <2>3. /\ verdict \in [Ids -> {"none", "sent", "OK", "Busy"}]
        /\ cmdPipe \in [Slots -> Seq(Command)] /\ sent \in Nat
    BY TaxiAssumption DEF ISafe, IType, TypeOK, DriverType, HistType
  <2>4. \A d \in Slots :
          cmdPipe'[d] = IF d = s THEN Append(cmdPipe[d], c) ELSE cmdPipe[d]
    BY <2>1, <2>2, <2>3
  <2>5. \A b \in Ids :
          verdict'[b] = IF b = sent + 1 THEN "sent" ELSE verdict[b]
    BY <2>1, <2>3
  <2>6. /\ Len(cmdPipe[s]) \in Nat /\ Len(cmdPipe'[s]) = Len(cmdPipe[s]) + 1
        /\ \A k \in 1 .. Len(cmdPipe[s]) : cmdPipe'[s][k] = cmdPipe[s][k]
        /\ cmdPipe'[s][Len(cmdPipe[s]) + 1] = c
    <3>1. PICK q \in Seq(Command) : q = cmdPipe[s]
      BY <2>3
    <3>2. cmdPipe'[s] = Append(q, c)
      BY <2>4, <3>1
    <3>. QED
      BY <3>1, <3>2, AppendItems
  \* An item of a pipe is an old one, with an old number, or the new one.
  <2>7. ASSUME NEW d \in Slots, NEW k \in 1 .. Len(cmdPipe'[d])
        PROVE  \/ /\ k \in 1 .. Len(cmdPipe[d])
                  /\ cmdPipe'[d][k] = cmdPipe[d][k]
                  /\ cmdPipe[d][k].id \in Ids /\ cmdPipe[d][k].id # sent + 1
               \/ /\ d = s /\ k = Len(cmdPipe[s]) + 1
                  /\ cmdPipe'[d][k].id = sent + 1
    <3>1. \A j \in 1 .. Len(cmdPipe[d]) :
            cmdPipe[d][j].id \in Ids /\ cmdPipe[d][j].id # sent + 1
      <4>1. verdict[sent + 1] = "none"
        BY <2>1, <2>3 DEF Numbered
      <4>. QED
        BY <4>1, PipeItems DEF ISafe, Numbered
    <3>2. CASE d # s
      BY <2>4, <2>7, <3>1, <3>2
    <3>3. CASE d = s /\ k \in 1 .. Len(cmdPipe[s])
      BY <2>6, <3>1, <3>3
    <3>4. CASE d = s /\ k \notin 1 .. Len(cmdPipe[s])
      <4>1. k = Len(cmdPipe[s]) + 1
        BY <2>6, <2>7, <3>4
      <4>. QED
        BY <2>2, <2>6, <3>4, <4>1
    <3>. QED
      BY <3>2, <3>3, <3>4
  <2>8. ASSUME NEW b \in Ids, b > sent' PROVE verdict'[b] = "none"
    <3>1. b # sent + 1 /\ b > sent
      BY <2>1, <2>3, <2>8 DEF Ids
    <3>. QED
      BY <2>5, <3>1 DEF Numbered
  <2>9. ASSUME NEW d \in Slots, NEW k \in 1 .. Len(cmdPipe'[d])
        PROVE  verdict'[cmdPipe'[d][k].id] = "sent"
    BY <2>1, <2>5, <2>7 DEF Numbered
  <2>10. ASSUME NEW d \in Slots, NEW e \in Slots,
                NEW k \in 1 .. Len(cmdPipe'[d]),
                NEW l \in 1 .. Len(cmdPipe'[e]),
                cmdPipe'[d][k].id = cmdPipe'[e][l].id
         PROVE  d = e /\ k = l
    <3>1. CASE k \in 1 .. Len(cmdPipe[d]) /\ l \in 1 .. Len(cmdPipe[e])
               /\ cmdPipe'[d][k] = cmdPipe[d][k]
               /\ cmdPipe'[e][l] = cmdPipe[e][l]
      <4>1. cmdPipe[d][k].id = cmdPipe[e][l].id
        BY <2>10, <3>1
      <4>. QED
        BY <3>1, <4>1 DEF Numbered
    <3>2. CASE cmdPipe'[d][k].id = sent + 1 \/ cmdPipe'[e][l].id = sent + 1
      BY <2>7, <2>10, <3>2
    <3>. QED
      BY <2>7, <3>1, <3>2
  <2>. QED
    BY <2>8, <2>9, <2>10 DEF Numbered
<1>. QED
  BY <1>1, <1>2, SendTaskEffect

LEMMA ReadCmdNumbered ==
  ASSUME ISafe, Numbered, NEW d \in Slots, ReadCmd(d)
  PROVE  Numbered'
<1> DEFINE c == cmdPipe[d][1].id
<1>1. /\ cmdPipe \in [Slots -> Seq(Command)]
      /\ verdict \in [Ids -> {"none", "sent", "OK", "Busy"}]
      /\ cmdPipe[d] # <<>>
  BY DEF ISafe, IType, TypeOK, Control, DriverType, HistType, ReadCmd
<1>2. /\ Head(cmdPipe[d]) = cmdPipe[d][1]
      /\ Len(cmdPipe[d]) \in Nat /\ Len(cmdPipe[d]) >= 1
      /\ Len(Tail(cmdPipe[d])) = Len(cmdPipe[d]) - 1
      /\ \A k \in 1 .. Len(cmdPipe[d]) - 1 :
           Tail(cmdPipe[d])[k] = cmdPipe[d][k + 1]
  BY <1>1, TailItems
<1>3. 1 \in 1 .. Len(cmdPipe[d]) /\ c \in Ids
  BY <1>2, PipeItems DEF ISafe
<1>4. /\ cmdPipe' = [cmdPipe EXCEPT ![d] = Tail(cmdPipe[d])]
      /\ sent' = sent
      /\ verdict' = [verdict EXCEPT ![c] = IF busy[d] = 0 THEN "OK"
                                                         ELSE "Busy"]
  BY <1>2 DEF ReadCmd, Unread
<1>5. \A b \in Ids : b # c => verdict'[b] = verdict[b]
  BY <1>1, <1>4
\* An item of a pipe after the step is another item than the one read.
<1>6. ASSUME NEW e \in Slots, NEW k \in 1 .. Len(cmdPipe'[e])
      PROVE  /\ (IF e = d THEN k + 1 ELSE k) \in 1 .. Len(cmdPipe[e])
             /\ cmdPipe'[e][k] = cmdPipe[e][IF e = d THEN k + 1 ELSE k]
             /\ cmdPipe'[e][k].id \in Ids /\ cmdPipe'[e][k].id # c
  <2>1. CASE e = d
    <3>1. Len(cmdPipe'[e]) = Len(cmdPipe[d]) - 1
      BY <1>1, <1>2, <1>4, <2>1
    <3>2. k + 1 \in 1 .. Len(cmdPipe[d]) /\ k \in 1 .. Len(cmdPipe[d]) - 1
      BY <1>2, <1>6, <3>1
    <3>3. cmdPipe'[e][k] = cmdPipe[d][k + 1]
      BY <1>1, <1>2, <1>4, <2>1, <3>2
    <3>4. cmdPipe[d][k + 1].id = c => k + 1 = 1
      BY <1>3, <3>2 DEF Numbered
    <3>5. k + 1 # 1
      BY <1>2, <3>2
    <3>6. cmdPipe[d][k + 1].id \in Ids
      BY <3>2, PipeItems DEF ISafe
    <3>. QED
      BY <2>1, <3>2, <3>3, <3>4, <3>5, <3>6
  <2>2. CASE e # d
    <3>1. cmdPipe'[e] = cmdPipe[e]
      BY <1>1, <1>4, <2>2
    <3>2. cmdPipe[e][k].id # c
      BY <1>3, <1>6, <2>2, <3>1 DEF Numbered
    <3>3. cmdPipe[e][k].id \in Ids
      BY <1>6, <3>1, PipeItems DEF ISafe
    <3>. QED
      BY <1>6, <2>2, <3>1, <3>2, <3>3
  <2>. QED
    BY <2>1, <2>2
<1>7. \A b \in Ids : b > sent' => verdict'[b] = "none"
  <2>1. verdict[c] = "sent"
    BY <1>3 DEF Numbered
  <2>2. \A b \in Ids : b > sent => b # c /\ verdict[b] = "none"
    BY <2>1 DEF Numbered
  <2>. QED
    BY <1>4, <1>5, <2>2
<1>8. ASSUME NEW e \in Slots, NEW k \in 1 .. Len(cmdPipe'[e])
      PROVE  verdict'[cmdPipe'[e][k].id] = "sent"
  <2>1. PICK i \in 1 .. Len(cmdPipe[e]) : cmdPipe'[e][k] = cmdPipe[e][i]
    BY <1>6
  <2>2. cmdPipe'[e][k].id # c /\ cmdPipe'[e][k].id \in Ids
    BY <1>6
  <2>3. verdict[cmdPipe[e][i].id] = "sent"
    BY DEF Numbered
  <2>. QED
    BY <1>5, <2>1, <2>2, <2>3
<1>9. ASSUME NEW e \in Slots, NEW f \in Slots,
             NEW k \in 1 .. Len(cmdPipe'[e]), NEW l \in 1 .. Len(cmdPipe'[f]),
             cmdPipe'[e][k].id = cmdPipe'[f][l].id
      PROVE  e = f /\ k = l
  <2>1. PICK i \in 1 .. Len(cmdPipe[e]) :
          i = (IF e = d THEN k + 1 ELSE k) /\ cmdPipe'[e][k] = cmdPipe[e][i]
    BY <1>6
  <2>2. PICK j \in 1 .. Len(cmdPipe[f]) :
          j = (IF f = d THEN l + 1 ELSE l) /\ cmdPipe'[f][l] = cmdPipe[f][j]
    BY <1>6
  <2>3. e = f /\ i = j
    BY <1>9, <2>1, <2>2 DEF Numbered
  <2>. QED
    BY <2>1, <2>2, <2>3
<1>. QED
  BY <1>7, <1>8, <1>9 DEF Numbered

LEMMA StepNumbered ==
  ASSUME ISafe, Numbered, [Next]_vars
  PROVE  Numbered'
<1>1. CASE \E p \in Pids, t \in Timers : SendTask(p, t)
  BY <1>1, SendTaskNumbered
<1>2. CASE \E d \in Slots : ReadCmd(d)
  BY <1>2, ReadCmdNumbered
<1>3. CASE \/ UNCHANGED vars
           \/ /\ Next
              /\ ~\E p \in Pids, t \in Timers : SendTask(p, t)
              /\ ~\E d \in Slots : ReadCmd(d)
  <2>1. UNCHANGED <<cmdPipe, verdict, sent>>
    BY <1>3 DEF vars, Next, UserStep, CliStep, DriverStep, Fork, GetDrivers,
         Quit, OtherLine, Signal, SelectInterrupted, GetStatus, Register,
         ReadReply, NoResponse, ReadBusy, ReadRemaining, Reap, Finish, Boot,
         Poll, StoreStatus, Arm, Confirm, Refuse, Answer, Expire,
         TimerExpires, DriverDies, driverVars, histVars
  <2>. QED
    BY <2>1 DEF Numbered
<1>. QED
  BY <1>1, <1>2, <1>3

LEMMA NumberedInvariant == Spec => []Numbered
<1>1. Init => Numbered
  <2>1. Init => \A d \in Slots : Len(cmdPipe[d]) = 0
    BY DEF Init
  <2>. QED
    BY <2>1 DEF Init, Numbered
<1>. QED
  BY <1>1, StepNumbered, SafeInvariant, PTL DEF Spec

(***************************************************************************)
(* While no wait for d was given up, all that is between the CLI and d is  *)
(* the task the CLI waits for, or its reply.                               *)
(***************************************************************************)
InStepWith(d) ==
  /\ ~Waiting(d) => respPipe[d] = <<>>
  /\ Waiting(d) =>
       /\ Alive(d) => \A k \in 1 .. Len(cmdPipe[d]) : cmdPipe[d][k] = cur
       /\ InHand(d) = 1 =>
            /\ got[d] = cur
            /\ verdict[cur.id] = IF dpc[d] = "refuse" THEN "Busy" ELSE "OK"
       /\ \A k \in 1 .. Len(respPipe[d]) :
            /\ k = 1
            /\ respPipe[d][k] = [id |-> cur.id, kind |-> verdict[cur.id]]

Owed == \A d \in Slots : giveUps[d] = 0 => InStepWith(d)

\* A driver never given up on holds one thing at a time, for the CLI's wait.
LEMMA OneAtATime ==
  ASSUME IType, BacklogBounded, NEW d \in Slots, Alive(d), giveUps[d] = 0
  PROVE  /\ cmdPipe[d] # <<>> \/ InHand(d) = 1 \/ respPipe[d] # <<>> =>
              Waiting(d)
         /\ cmdPipe[d] # <<>> => respPipe[d] = <<>>
         /\ InHand(d) = 1 => respPipe[d] = <<>> /\ cmdPipe[d] = <<>>
<1>1. PICK a \in Nat, b \in Nat, h \in {0, 1} :
        a = Len(cmdPipe[d]) /\ b = Len(respPipe[d]) /\ h = InHand(d)
  BY BacklogType
<1>2. (a > 0 <=> cmdPipe[d] # <<>>) /\ (b > 0 <=> respPipe[d] # <<>>)
  BY <1>1, PipeItems
<1>3. a + h + b <= (IF Waiting(d) THEN 1 ELSE 0)
  <2>1. a + h + b <= Due(d)
    BY <1>1 DEF BacklogBounded, Backlog
  <2>2. Due(d) = IF Waiting(d) THEN 1 ELSE 0
    BY DEF Due
  <2>. QED
    BY <2>1, <2>2
<1>. QED
  BY <1>1, <1>2, <1>3

IReply == ISafe /\ BacklogBounded /\ Numbered /\ Owed

\* The steps of the CLI that touch neither a pipe nor a wait.
LEMMA IdleStepOwed ==
  ASSUME IReply,
         \/ GetDrivers \/ Quit \/ OtherLine \/ Signal \/ Register \/ ReadBusy
         \/ ReadRemaining \/ Reap \/ Finish \/ UNCHANGED vars
         \/ \E p \in Pids : GetStatus(p)
  PROVE  /\ UNCHANGED <<dpc, cmdPipe, respPipe, got, todo, cur, verdict,
                        giveUps, told, answer>>
         /\ \A d \in Slots : Waiting(d)' <=> Waiting(d)
<1>1. UNCHANGED <<dpc, cmdPipe, respPipe, got, todo, cur, verdict, giveUps,
                  told, answer>>
  BY DEF GetDrivers, Quit, OtherLine, Signal, Register, ReadBusy,
       ReadRemaining, Reap, Finish, GetStatus, vars, driverVars, histVars
<1>2. \/ cpc # "select" /\ cpc' # "select"
      \/ UNCHANGED <<cpc, target>>
  BY DEF GetDrivers, Quit, OtherLine, Signal, Register, ReadBusy,
       ReadRemaining, Reap, Finish, GetStatus, NextSlot, LoopTop, vars,
       cliVars
<1>. QED
  BY <1>1, <1>2 DEF Waiting

LEMMA CliStepOwed ==
  ASSUME IReply, UserStep \/ CliStep
  PROVE  Owed'
<1> USE DEF IReply, ISafe, IType, TypeOK
<1>1. CASE Fork
  <2>1. UNCHANGED <<respPipe, giveUps>> /\ cpc = "prompt" /\ cpc' # "select"
    BY <1>1 DEF Fork, histVars
  <2>. QED
    BY <2>1 DEF Owed, InStepWith, Waiting
<1>2. ASSUME NEW p \in Pids, NEW t \in Timers, SendTask(p, t)
      PROVE  Owed'
  <2>1. cpc = "prompt" /\ UNCHANGED <<dpc, respPipe, got, giveUps>>
    BY <1>2, SendTaskEffect
  <2>2. \A d \in Slots : giveUps[d] = 0 => respPipe'[d] = <<>>
    BY <2>1 DEF Owed, InStepWith, Waiting
  <2>3. CASE cpc' = "killed"
    BY <2>1, <2>2, <2>3 DEF Owed, InStepWith, Waiting
  <2>4. CASE cpc' = "select"
    <3>1. PICK s \in Slots, c \in Command :
            /\ s = target' /\ c = cur' /\ Alive(s)
            /\ cmdPipe' = [cmdPipe EXCEPT ![s] = Append(@, c)]
      BY <1>2, <2>4, SendTaskEffect
    <3>2. ASSUME NEW d \in Slots, giveUps[d] = 0, Waiting(d)'
          PROVE  /\ d = s /\ InHand(d)' = 0 /\ Len(respPipe'[d]) = 0
                 /\ \A k \in 1 .. Len(cmdPipe'[d]) : cmdPipe'[d][k] = c
      <4>1. d = s
        BY <3>1, <3>2 DEF Waiting
      <4>2. ~Waiting(d)
        BY <2>1 DEF Waiting
      <4>3. InHand(d) \in {0, 1}
        BY BacklogType
      <4>4. cmdPipe[d] = <<>> /\ InHand(d) = 0
        BY <3>1, <3>2, <4>1, <4>2, <4>3, OneAtATime
      <4>5. InHand(d)' = 0
        BY <2>1, <4>4 DEF InHand
      <4>6. cmdPipe'[d] = Append(<<>>, c)
        BY <3>1, <4>1, <4>4 DEF DriverType
      <4>7. \A k \in 1 .. Len(cmdPipe'[d]) : cmdPipe'[d][k] = c
        BY <4>6
      <4>8. Len(respPipe'[d]) = 0
        BY <2>2, <3>2
      <4>. QED
        BY <4>1, <4>5, <4>7, <4>8
    <3>3. ASSUME NEW d \in Slots, giveUps'[d] = 0
          PROVE  InStepWith(d)'
      <4>1. CASE ~Waiting(d)'
        BY <2>1, <2>2, <3>3, <4>1 DEF InStepWith
      <4>2. CASE Waiting(d)'
        BY <2>1, <3>1, <3>2, <3>3, <4>2 DEF InStepWith
      <4>. QED
        BY <4>1, <4>2
    <3>. QED
      BY <3>3 DEF Owed
  <2>. QED
    BY <1>2, <2>3, <2>4, SendTaskEffect
<1>3. CASE ReadReply \/ NoResponse \/ SelectInterrupted
  <2>1. cpc = "select" /\ cpc' # "select"
    BY <1>3 DEF ReadReply, NoResponse, SelectInterrupted, LoopTop
  <2>2. \A d \in Slots : giveUps'[d] = 0 =>
          giveUps[d] = 0 /\ (respPipe'[d] = <<>> \/ ~Waiting(d))
    BY <1>3, <2>1 DEF ReadReply, NoResponse, SelectInterrupted, DriverType,
                      HistType, Waiting
  <2>3. \A d \in Slots : respPipe'[d] = <<>> \/ respPipe'[d] = respPipe[d]
    BY <1>3 DEF ReadReply, NoResponse, SelectInterrupted, DriverType,
                driverVars
  <2>. QED
    BY <2>1, <2>2, <2>3 DEF Owed, InStepWith, Waiting
<1>4. CASE \/ GetDrivers \/ Quit \/ OtherLine \/ Signal \/ Register
           \/ ReadBusy \/ ReadRemaining \/ Reap \/ Finish
           \/ \E p \in Pids : GetStatus(p)
  <2>1. /\ UNCHANGED <<dpc, cmdPipe, respPipe, got, cur, verdict, giveUps>>
        /\ \A d \in Slots : Waiting(d)' <=> Waiting(d)
    BY <1>4, IdleStepOwed
  <2>. QED
    BY <2>1 DEF Owed, InStepWith, Alive, InHand
<1>. QED
  BY <1>1, <1>2, <1>3, <1>4 DEF UserStep, CliStep

\* What a driver step leaves alone on the CLI's side and of other drivers.
LEMMA DriverHistory ==
  ASSUME IReply, NEW d \in Slots,
         DriverStep(d) \/ TimerExpires(d) \/ DriverDies(d)
  PROVE  /\ UNCHANGED <<cur, answer, giveUps, told>>
         /\ \A e \in Slots : Waiting(e)' <=> Waiting(e)
         /\ \A e \in Slots : e # d => got'[e] = got[e]
         /\ \A b \in Ids : verdict[b] # "sent" => verdict'[b] = verdict[b]
<1>1. UNCHANGED <<cur, answer, giveUps, told, cpc, target>>
  BY DEF DriverStep, Boot, Poll, ReadCmd, StoreStatus, Arm, Confirm, Refuse,
       Answer, Expire, TimerExpires, DriverDies, cliVars, histVars
<1>2. ASSUME NEW e \in Slots, e # d PROVE got'[e] = got[e]
  BY <1>2 DEF DriverStep, Boot, Poll, ReadCmd, StoreStatus, Arm, Confirm,
       Refuse, Answer, Expire, TimerExpires, DriverDies, IReply, ISafe, IType,
       TypeOK, DriverType
<1>3. CASE ReadCmd(d)
  <2>1. PICK c \in Ids : /\ verdict[c] = "sent"
                         /\ \A b \in Ids : b # c => verdict'[b] = verdict[b]
    <3>1. cmdPipe[d] \in Seq(Command) /\ cmdPipe[d] # <<>>
      BY <1>3 DEF IReply, ISafe, IType, TypeOK, Control, DriverType, ReadCmd
    <3>2. /\ Head(cmdPipe[d]) = cmdPipe[d][1]
          /\ 1 \in 1 .. Len(cmdPipe[d])
      BY <3>1, TailItems
    <3>3. cmdPipe[d][1].id \in Ids /\ verdict[cmdPipe[d][1].id] = "sent"
      BY <3>2, PipeItems DEF IReply, ISafe, Numbered
    <3>. QED
      BY <1>3, <3>2, <3>3 DEF ReadCmd, IReply, ISafe, IType, TypeOK, HistType
  <2>. QED
    BY <1>1, <1>2, <2>1 DEF Waiting
<1>4. CASE ~ReadCmd(d)
  <2>1. verdict' = verdict
    BY <1>4 DEF DriverStep, Boot, Poll, StoreStatus, Arm, Confirm,
         Refuse, Answer, Expire, TimerExpires, DriverDies, histVars
  <2>. QED
    BY <1>1, <1>2, <2>1 DEF Waiting
<1>. QED
  BY <1>3, <1>4

\* The reply awaited has a verdict, which no later command can change.
LEMMA CurIsNumbered ==
  ASSUME IReply, NEW d \in Slots, Waiting(d), giveUps[d] = 0,
         InHand(d) = 1 \/ respPipe[d] # <<>>
  PROVE  cur.id \in Ids /\ verdict[cur.id] \in {"OK", "Busy"}
<1> USE DEF IReply, ISafe
<1>1. CASE InHand(d) = 1
  <2>1. got[d] = cur /\ verdict[cur.id] \in {"OK", "Busy"}
    BY <1>1 DEF Owed, InStepWith
  <2>2. got[d] \in Command
    BY <1>1 DEF InHand, IType, Control
  <2>. QED
    BY <2>1, <2>2 DEF Command
<1>2. CASE respPipe[d] # <<>>
  <2>1. 1 \in 1 .. Len(respPipe[d])
    BY <1>2, PipeItems
  <2>2. respPipe[d][1] = [id |-> cur.id, kind |-> verdict[cur.id]]
    BY <2>1 DEF Owed, InStepWith
  <2>3. respPipe[d][1] \in Reply
    BY <2>1, PipeItems
  <2>. QED
    BY <2>2, <2>3 DEF Reply
<1>. QED
  BY <1>1, <1>2

LEMMA OtherDriverOwed ==
  ASSUME IReply, NEW d \in Slots,
         DriverStep(d) \/ TimerExpires(d) \/ DriverDies(d),
         NEW e \in Slots, e # d, giveUps[e] = 0
  PROVE  InStepWith(e)'
<1>1. /\ cmdPipe'[e] = cmdPipe[e] /\ respPipe'[e] = respPipe[e]
      /\ got'[e] = got[e] /\ dpc'[e] = dpc[e] /\ cur' = cur
      /\ Waiting(e)' <=> Waiting(e)
  BY DriverFrame, DriverHistory DEF IReply, ISafe
<1>2. InHand(e)' = InHand(e) /\ (Alive(e)' <=> Alive(e))
  BY <1>1 DEF InHand, Alive
<1>3. InStepWith(e)
  BY DEF IReply, Owed
<1>4. CASE ~Waiting(e)
  BY <1>1, <1>3, <1>4 DEF InStepWith
<1>5. CASE Waiting(e) /\ (InHand(e) = 1 \/ respPipe[e] # <<>>)
  <2>1. verdict'[cur.id] = verdict[cur.id]
    BY <1>5, CurIsNumbered, DriverHistory
  <2>. QED
    BY <1>1, <1>2, <1>3, <1>5, <2>1 DEF InStepWith
<1>6. CASE Waiting(e) /\ InHand(e) # 1 /\ respPipe[e] = <<>>
  <2>1. Len(respPipe'[e]) = 0
    BY <1>1, <1>6
  <2>. QED
    BY <1>1, <1>2, <1>3, <1>6, <2>1 DEF InStepWith
<1>. QED
  BY <1>4, <1>5, <1>6

LEMMA ReadCmdOwed ==
  ASSUME IReply, NEW d \in Slots, ReadCmd(d), giveUps[d] = 0
  PROVE  InStepWith(d)'
<1> USE DEF IReply, ISafe
<1>1. /\ cmdPipe[d] \in Seq(Command) /\ cmdPipe[d] # <<>> /\ Alive(d)
      /\ DriverStep(d)
  BY DEF IType, TypeOK, Control, DriverType, ReadCmd, Alive, DriverStep
<1>2. Waiting(d) /\ respPipe[d] = <<>>
  BY <1>1, OneAtATime
<1>3. \A k \in 1 .. Len(cmdPipe[d]) : cmdPipe[d][k] = cur
  BY <1>1, <1>2 DEF Owed, InStepWith
<1>4. /\ Head(cmdPipe[d]) = cmdPipe[d][1] /\ Head(cmdPipe[d]) \in Command
      /\ Len(cmdPipe[d]) \in Nat /\ Len(cmdPipe[d]) >= 1
      /\ Len(Tail(cmdPipe[d])) = Len(cmdPipe[d]) - 1
      /\ \A k \in 1 .. Len(cmdPipe[d]) - 1 :
           Tail(cmdPipe[d])[k] = cmdPipe[d][k + 1]
  BY <1>1, TailItems
<1>5. Head(cmdPipe[d]) = cur /\ cur.id \in Ids
  BY <1>3, <1>4 DEF Command
<1>6. \A k \in 1 .. Len(Tail(cmdPipe[d])) : Tail(cmdPipe[d])[k] = cur
  <2>1. \A k \in 1 .. Len(Tail(cmdPipe[d])) :
          k \in 1 .. Len(cmdPipe[d]) - 1 /\ k + 1 \in 1 .. Len(cmdPipe[d])
    BY <1>4
  <2>. QED
    BY <1>3, <1>4, <2>1
<1>7. /\ cmdPipe'[d] = Tail(cmdPipe[d]) /\ got'[d] = cur /\ cur' = cur
      /\ Len(respPipe'[d]) = 0
      /\ dpc'[d] = IF busy[d] = 0 THEN "take" ELSE "refuse"
      /\ verdict'[cur.id] = IF busy[d] = 0 THEN "OK" ELSE "Busy"
  BY <1>2, <1>5 DEF ReadCmd, Unread, After, IType, TypeOK, DriverType, HistType
<1>8. Waiting(d)'
  BY <1>1, <1>2, DriverHistory
<1>. QED
  BY <1>6, <1>7, <1>8 DEF InStepWith

LEMMA AnswerOwed ==
  ASSUME IReply, NEW d \in Slots, NEW k \in {"OK", "Busy"}, Answer(d, k),
         dpc[d] = IF k = "OK" THEN "confirm" ELSE "refuse",
         giveUps[d] = 0, DriverStep(d)
  PROVE  InStepWith(d)'
<1> USE DEF IReply, ISafe
<1>1. Alive(d) /\ InHand(d) = 1
  BY DEF Alive, InHand
<1>2. Waiting(d) /\ respPipe[d] = <<>> /\ cmdPipe[d] = <<>>
  BY <1>1, OneAtATime
<1>3. got[d] = cur /\ verdict[cur.id] = k
  BY <1>1, <1>2 DEF Owed, InStepWith
<1>4. UNCHANGED <<cmdPipe, cur, verdict>> /\ Waiting(d)'
  BY <1>2, DriverHistory DEF Answer, histVars
<1>5. InHand(d)' = 0
  BY DEF Answer, After, TurnEnd, InHand, IType, TypeOK, DriverType
<1>6. Len(cmdPipe'[d]) = 0
  BY <1>2, <1>4
<1>7. CASE respPipe'[d] = <<>>
  <2>1. Len(respPipe'[d]) = 0
    BY <1>7
  <2>. QED
    BY <1>4, <1>5, <1>6, <2>1 DEF InStepWith
<1>8. CASE respPipe'[d] = Append(<<>>, [id |-> cur.id, kind |-> k])
  <2>1. \A j \in 1 .. Len(respPipe'[d]) :
          j = 1 /\ respPipe'[d][j] = [id |-> cur.id, kind |-> k]
    BY <1>8
  <2>. QED
    BY <1>3, <1>4, <1>5, <1>6, <2>1 DEF InStepWith
<1>. QED
  BY <1>2, <1>3, <1>7, <1>8 DEF Answer, Written, IType, TypeOK, DriverType

LEMMA DriverStepOwed ==
  ASSUME IReply, NEW d \in Slots,
         DriverStep(d) \/ TimerExpires(d) \/ DriverDies(d)
  PROVE  Owed'
<1>1. ASSUME giveUps[d] = 0
      PROVE  InStepWith(d)'
  <2>1. CASE ReadCmd(d)
    BY <1>1, <2>1, ReadCmdOwed
  <2>2. CASE Confirm(d) \/ Refuse(d)
    BY <1>1, <2>2, AnswerOwed DEF Confirm, Refuse, DriverStep
  <2>3. CASE ~ReadCmd(d) /\ ~Confirm(d) /\ ~Refuse(d)
    <3>1. UNCHANGED <<cmdPipe, respPipe, got, verdict>>
      BY <2>3 DEF DriverStep, Boot, Poll, StoreStatus, Arm, Expire,
           TimerExpires, DriverDies, histVars
    <3>2. /\ InHand(d)' = 1 =>
               InHand(d) = 1 /\ (dpc'[d] = "refuse" <=> dpc[d] = "refuse")
          /\ Alive(d)' => Alive(d)
      BY <2>3 DEF DriverStep, Boot, Poll, StoreStatus, Arm, Expire, After,
           TimerExpires, DriverDies, InHand, Alive, IReply, ISafe, IType,
           TypeOK, DriverType
    <3>3. cur' = cur /\ (Waiting(d)' <=> Waiting(d))
      BY DriverHistory
    <3>. QED
      BY <1>1, <3>1, <3>2, <3>3 DEF IReply, Owed, InStepWith
  <2>. QED
    BY <2>1, <2>2, <2>3
<1>2. giveUps' = giveUps
  BY DriverHistory
<1>. QED
  BY <1>1, <1>2, OtherDriverOwed DEF Owed

LEMMA ReplyInvariant == Spec => []IReply
<1>1. Init => Owed
  BY DEF Init, Owed, InStepWith, Waiting
<1>2. IReply /\ [Next]_vars => Owed'
  <2>1. ASSUME IReply, UNCHANGED vars PROVE Owed'
    <3>1. /\ UNCHANGED <<dpc, cmdPipe, respPipe, got, cur, verdict, giveUps>>
          /\ \A d \in Slots : Waiting(d)' <=> Waiting(d)
      BY <2>1, IdleStepOwed
    <3>. QED
      BY <2>1, <3>1 DEF IReply, Owed, InStepWith, Alive, InHand
  <2>. QED
    BY <2>1, CliStepOwed, DriverStepOwed DEF Next
<1>. QED
  BY <1>1, <1>2, SafeInvariant, RepliesOwed, NumberedInvariant, PTL
     DEF Spec, IReply

(***************************************************************************)
(* The line the CLI shows for a task is the reply to that task, alone, and *)
(* tells what the driver did with it (ReplyIsForThisTask), as long as no   *)
(* wait for that driver was given up.                                      *)
(***************************************************************************)
THEOREM ReplyToTheTask == Spec => []ReplyIsForThisTask
<1>1. Init => ReplyIsForThisTask
  BY DEF Init, ReplyIsForThisTask
<1>2. IReply /\ ReplyIsForThisTask /\ [Next]_vars => ReplyIsForThisTask'
  <2> SUFFICES ASSUME IReply, ReplyIsForThisTask, [Next]_vars
               PROVE  ReplyIsForThisTask'
    OBVIOUS
  <2> USE DEF IReply, ISafe, IType, TypeOK
  <2>1. CASE ReadReply
    <3>1. /\ cpc = "select" /\ target \in Slots /\ verdict' = verdict
          /\ giveUps' = giveUps
          /\ answer' = [id |-> cur.id, slot |-> target,
                        replies |-> respPipe[target]]
      BY <2>1 DEF ReadReply, CliType
    <3>2. giveUps[target] = 0 => InStepWith(target) /\ Waiting(target)
      BY <3>1 DEF Owed, Waiting
    <3>3. DOMAIN respPipe[target] = 1 .. Len(respPipe[target])
      BY <3>1, PipeItems
    <3>. QED
      BY <3>1, <3>2, <3>3 DEF InStepWith, ReplyIsForThisTask
  \* Any other step leaves the line, and the verdict it shows, alone.
  <2>2. ASSUME answer' = answer,
               \A d \in Slots : giveUps'[d] = 0 => giveUps[d] = 0,
               \A b \in Ids : verdict[b] \in {"OK", "Busy"} =>
                                verdict'[b] = verdict[b]
        PROVE  ReplyIsForThisTask'
    <3> SUFFICES ASSUME NEW i \in DOMAIN answer.replies,
                        giveUps'[answer.slot] = 0
                 PROVE  /\ i = 1
                        /\ answer.replies[i] =
                             [id |-> answer.id, kind |-> verdict'[answer.id]]
      BY <2>2 DEF ReplyIsForThisTask
    <3>1. answer.slot \in Slots /\ answer.replies \in Seq(Reply)
      BY DEF HistType
    <3>2. /\ i = 1
          /\ answer.replies[i] = [id |-> answer.id,
                                  kind |-> verdict[answer.id]]
      BY <2>2, <3>1 DEF ReplyIsForThisTask
    <3>3. answer.replies[i] \in Reply
      BY <3>1
    <3>4. answer.id \in Ids /\ verdict[answer.id] \in {"OK", "Busy"}
      BY <3>2, <3>3 DEF Reply
    <3>. QED
      BY <2>2, <3>2, <3>4
  <2>3. CASE \E p \in Pids, t \in Timers : SendTask(p, t)
    <3>1. answer' = answer /\ giveUps' = giveUps
      BY <2>3, SendTaskEffect
    <3>2. \A b \in Ids : verdict[b] \in {"OK", "Busy"} =>
            verdict'[b] = verdict[b]
      <4>1. \/ verdict' = verdict
            \/ /\ sent + 1 \in Ids
               /\ verdict' = [verdict EXCEPT ![sent + 1] = "sent"]
        BY <2>3, SendTaskEffect
      <4>2. sent + 1 \in Ids => verdict[sent + 1] = "none"
        BY TaxiAssumption DEF Numbered, HistType
      <4>. QED
        BY <4>1, <4>2 DEF HistType
    <3>. QED
      BY <2>2, <3>1, <3>2
  <2>4. CASE NoResponse \/ SelectInterrupted
    <3>1. answer' = answer /\ verdict' = verdict
      BY <2>4 DEF NoResponse, SelectInterrupted
    <3>2. \A d \in Slots : giveUps'[d] = 0 => giveUps[d] = 0
      BY <2>4 DEF NoResponse, SelectInterrupted, HistType
    <3>. QED
      BY <2>2, <3>1, <3>2
  <2>5. CASE \/ Fork \/ GetDrivers \/ Quit \/ OtherLine \/ Signal \/ Register
             \/ ReadBusy \/ ReadRemaining \/ Reap \/ Finish \/ UNCHANGED vars
             \/ \E p \in Pids : GetStatus(p)
    <3>1. UNCHANGED <<answer, giveUps, verdict>>
      BY <2>5, IdleStepOwed DEF Fork, histVars
    <3>. QED
      BY <2>2, <3>1
  <2>6. ASSUME NEW d \in Slots,
               DriverStep(d) \/ TimerExpires(d) \/ DriverDies(d)
        PROVE  ReplyIsForThisTask'
    BY <2>2, <2>6, DriverHistory
  <2>. QED
    BY <2>1, <2>3, <2>4, <2>5, <2>6, NextCases DEF DriverStep
<1>. QED
  BY <1>1, <1>2, ReplyInvariant, PTL DEF Spec
-----------------------------------------------------------------------------
(***************************************************************************)
(* The time of the task in a report.                                       *)
(***************************************************************************)

(***************************************************************************)
(* The shared time is that of the last task confirmed, or 0; while the     *)
(* CLI waits for the reply to a task taken it is the time of that task, or *)
(* still the old one before the driver has stored it.                      *)
(***************************************************************************)
RemainingIs(d) ==
  IF Waiting(d) /\ verdict[cur.id] = "OK"
  THEN \/ remaining[d] \in {0, cur.timer}
       \/ /\ dpc[d] = "take" /\ "remaining" \in todo[d]
          /\ remaining[d] \in {0, told[d]}
  ELSE remaining[d] \in {0, told[d]}

Told ==
  \A d \in Slots :
    /\ d >= count => remaining[d] = 0
    /\ giveUps[d] = 0 /\ Alive(d) => RemainingIs(d)

\* A step that leaves all that RemainingIs speaks of alone.
LEMMA ToldFrame ==
  ASSUME Told, count' = count, NEW d \in Slots,
         UNCHANGED <<remaining[d], told[d], giveUps[d]>>,
         Alive(d)' => Alive(d),
         Waiting(d)' <=> Waiting(d),
         Waiting(d) => UNCHANGED cur,
         Waiting(d) /\ giveUps[d] = 0 /\ Alive(d) => UNCHANGED verdict[cur.id],
         dpc[d] = "take" => UNCHANGED <<dpc[d], todo[d]>>
  PROVE  /\ d >= count' => remaining'[d] = 0
         /\ giveUps'[d] = 0 /\ Alive(d)' => RemainingIs(d)'
<1> USE DEF Told
<1>1. d >= count' => remaining'[d] = 0
  OBVIOUS
<1>2. ASSUME giveUps'[d] = 0, Alive(d)' PROVE RemainingIs(d)'
  <2>1. RemainingIs(d)
    BY <1>2
  <2>2. CASE Waiting(d)
    BY <1>2, <2>1, <2>2 DEF RemainingIs
  <2>3. CASE ~Waiting(d)
    BY <1>2, <2>1, <2>3 DEF RemainingIs
  <2>. QED
    BY <2>2, <2>3
<1>. QED
  BY <1>1, <1>2

\* The number of the task waited for is in no other driver's pipe.
CurAtTarget ==
  cpc = "select" =>
    \A e \in Slots : e # target =>
      \A k \in 1 .. Len(cmdPipe[e]) : cmdPipe[e][k].id # cur.id

LEMMA SendTaskAtTarget ==
  ASSUME IReply, NEW p \in Pids, NEW t \in Timers, SendTask(p, t)
  PROVE  CurAtTarget'
<1> SUFFICES ASSUME cpc' = "select", NEW e \in Slots, e # target',
                    NEW k \in 1 .. Len(cmdPipe'[e])
             PROVE  cmdPipe'[e][k].id # cur'.id
  BY DEF CurAtTarget
<1> USE DEF IReply, ISafe, IType, TypeOK
<1>1. /\ sent + 1 \in Ids /\ cur'.id = sent + 1
      /\ cmdPipe' = [cmdPipe EXCEPT ![target'] = Append(@, cur')]
  BY SendTaskEffect
<1>2. cmdPipe'[e] = cmdPipe[e]
  BY <1>1 DEF DriverType
<1>3. verdict[cmdPipe[e][k].id] = "sent" /\ verdict[sent + 1] = "none"
  BY <1>1, <1>2, TaxiAssumption DEF Numbered, HistType
<1>. QED
  BY <1>1, <1>2, <1>3

LEMMA StepAtTarget ==
  ASSUME IReply, CurAtTarget, [Next]_vars
  PROVE  CurAtTarget'
<1> USE DEF IReply, ISafe, IType, TypeOK
<1>1. CASE \E p \in Pids, t \in Timers : SendTask(p, t)
  BY <1>1, SendTaskAtTarget
<1>2. ASSUME NEW d \in Slots, ReadCmd(d)
      PROVE  CurAtTarget'
  <2>1. cmdPipe[d] \in Seq(Command) /\ cmdPipe[d] # <<>>
    BY <1>2 DEF Control, DriverType, ReadCmd
  <2>2. /\ Len(cmdPipe[d]) \in Nat
        /\ Len(Tail(cmdPipe[d])) = Len(cmdPipe[d]) - 1
        /\ \A k \in 1 .. Len(cmdPipe[d]) - 1 :
             Tail(cmdPipe[d])[k] = cmdPipe[d][k + 1]
    BY <2>1, TailItems
  <2>3. UNCHANGED <<cpc, target, cur>>
    BY <1>2 DEF ReadCmd, cliVars
  <2>4. \A e \in Slots : cmdPipe'[e] =
          IF e = d THEN Tail(cmdPipe[d]) ELSE cmdPipe[e]
    BY <1>2 DEF ReadCmd, Unread, DriverType
  <2>5. ASSUME NEW e \in Slots, NEW k \in 1 .. Len(cmdPipe'[e])
        PROVE  \E i \in 1 .. Len(cmdPipe[e]) : cmdPipe'[e][k] = cmdPipe[e][i]
    <3>1. CASE e # d
      BY <2>4, <2>5, <3>1
    <3>2. CASE e = d
      <4>1. Len(cmdPipe'[e]) = Len(cmdPipe[d]) - 1
        BY <2>2, <2>4, <3>2
      <4>2. k \in 1 .. Len(cmdPipe[d]) - 1 /\ k + 1 \in 1 .. Len(cmdPipe[d])
        BY <2>2, <2>5, <4>1
      <4>. QED
        BY <2>2, <2>4, <3>2, <4>2
    <3>. QED
      BY <3>1, <3>2
  <2>. QED
    BY <2>3, <2>5 DEF CurAtTarget
<1>3. CASE \/ UNCHANGED vars
           \/ /\ Next
              /\ ~\E p \in Pids, t \in Timers : SendTask(p, t)
              /\ ~\E d \in Slots : ReadCmd(d)
  <2>1. UNCHANGED <<cmdPipe, cur>>
    BY <1>3 DEF vars, Next, UserStep, CliStep, DriverStep, Fork, GetDrivers,
         Quit, OtherLine, Signal, SelectInterrupted, GetStatus, Register,
         ReadReply, NoResponse, ReadBusy, ReadRemaining, Reap, Finish, Boot,
         Poll, StoreStatus, Arm, Confirm, Refuse, Answer, Expire,
         TimerExpires, DriverDies, driverVars, histVars
  <2>2. cpc' = "select" => cpc = "select" /\ target' = target
    BY <1>3 DEF vars, Next, UserStep, CliStep, DriverStep, Fork, GetDrivers,
         Quit, OtherLine, Signal, SelectInterrupted, GetStatus, Register,
         ReadReply, NoResponse, ReadBusy, ReadRemaining, Reap, Finish, Boot,
         Poll, StoreStatus, Arm, Confirm, Refuse, Answer, Expire, NextSlot,
         LoopTop, TimerExpires, DriverDies, cliVars
  <2>. QED
    BY <2>1, <2>2 DEF CurAtTarget
<1>. QED
  BY <1>1, <1>2, <1>3

\* The command a driver never given up on reads is the one waited for.
LEMMA ReadCmdIsCur ==
  ASSUME IReply, NEW d \in Slots, ReadCmd(d), giveUps[d] = 0
  PROVE  /\ Waiting(d) /\ verdict[cur.id] = "sent"
         /\ verdict'[cur.id] = IF busy[d] = 0 THEN "OK" ELSE "Busy"
         /\ busy[d] = 0 => dpc'[d] = "take" /\ todo'[d] = Fields
<1> USE DEF IReply, ISafe
<1>1. /\ cmdPipe[d] \in Seq(Command) /\ cmdPipe[d] # <<>> /\ Alive(d)
  BY DEF IType, TypeOK, Control, DriverType, ReadCmd, Alive
<1>2. Waiting(d)
  BY <1>1, OneAtATime
<1>3. Head(cmdPipe[d]) = cmdPipe[d][1] /\ 1 \in 1 .. Len(cmdPipe[d])
  BY <1>1, TailItems
<1>4. cmdPipe[d][1] = cur /\ cur.id \in Ids /\ verdict[cur.id] = "sent"
  BY <1>1, <1>2, <1>3, PipeItems DEF Owed, InStepWith, Numbered
<1>5. verdict'[cur.id] = IF busy[d] = 0 THEN "OK" ELSE "Busy"
  BY <1>3, <1>4 DEF ReadCmd, IType, TypeOK, HistType
<1>6. busy[d] = 0 => dpc'[d] = "take" /\ todo'[d] = Fields
  BY DEF ReadCmd, After, IType, TypeOK, DriverType
<1>. QED
  BY <1>2, <1>4, <1>5, <1>6

\* The verdict of the task another driver is waited for stays.
LEMMA CurVerdictFrame ==
  ASSUME IReply, CurAtTarget, NEW d \in Slots,
         DriverStep(d) \/ TimerExpires(d) \/ DriverDies(d),
         NEW e \in Slots, Waiting(e), e # d \/ ~ReadCmd(d)
  PROVE  verdict'[cur.id] = verdict[cur.id]
<1>1. CASE ~ReadCmd(d)
  BY <1>1 DEF DriverStep, Boot, Poll, StoreStatus, Arm, Confirm, Refuse,
       Answer, Expire, TimerExpires, DriverDies, histVars
<1>2. CASE ReadCmd(d) /\ e # d
  <2>1. cmdPipe[d] \in Seq(Command) /\ cmdPipe[d] # <<>>
    BY <1>2 DEF IReply, ISafe, IType, TypeOK, Control, DriverType, ReadCmd
  <2>2. Head(cmdPipe[d]) = cmdPipe[d][1] /\ 1 \in 1 .. Len(cmdPipe[d])
    BY <2>1, TailItems
  <2>3. cmdPipe[d][1].id # cur.id
    BY <1>2, <2>2 DEF CurAtTarget, Waiting
  <2>. QED
    BY <1>2, <2>2, <2>3 DEF ReadCmd, IReply, ISafe, IType, TypeOK, HistType
<1>. QED
  BY <1>1, <1>2

LEMMA StoreStatusTold ==
  ASSUME IReply, Told, NEW d \in Slots, StoreStatus(d), giveUps[d] = 0
  PROVE  RemainingIs(d)'
<1> USE DEF IReply, ISafe, IType, TypeOK
<1>1. Alive(d) /\ DriverStep(d) /\ ~ReadCmd(d)
  BY DEF StoreStatus, Alive, DriverStep, ReadCmd
<1>2. RemainingIs(d)
  BY <1>1 DEF Told
<1>3. UNCHANGED <<cur, told, verdict>> /\ (Waiting(d)' <=> Waiting(d))
  BY <1>1, DriverHistory DEF StoreStatus, histVars
<1>4. PICK f \in todo[d] :
        /\ remaining'[d] = IF f = "remaining"
                           THEN IF dpc[d] = "take" THEN got[d].timer ELSE 0
                           ELSE remaining[d]
        /\ todo'[d] = todo[d] \ {f}
        /\ todo[d] # {f} => dpc'[d] = dpc[d]
        /\ dpc[d] # "take" => dpc'[d] # "take"
  BY DEF StoreStatus, After, ShmType, DriverType
<1>5. f \in {"busy", "remaining"}
  BY <1>4 DEF DriverType, Fields
<1>6. CASE dpc[d] = "take"
  <2>1. InHand(d) = 1
    BY <1>6 DEF InHand
  <2>2. Waiting(d) /\ got[d] = cur /\ verdict[cur.id] = "OK"
    BY <1>1, <1>6, <2>1, OneAtATime DEF Owed, InStepWith
  <2>3. CASE f = "remaining"
    BY <1>3, <1>4, <1>6, <2>2, <2>3 DEF RemainingIs
  <2>4. CASE f = "busy" /\ "remaining" \in todo[d]
    <3>1. dpc'[d] = "take" /\ "remaining" \in todo'[d]
      BY <1>4, <1>6, <2>4
    <3>. QED
      BY <1>2, <1>3, <1>4, <2>2, <2>4, <3>1 DEF RemainingIs
  <2>5. CASE f = "busy" /\ "remaining" \notin todo[d]
    BY <1>2, <1>3, <1>4, <2>2, <2>5 DEF RemainingIs
  <2>. QED
    BY <1>5, <2>3, <2>4, <2>5
<1>7. CASE dpc[d] # "take"
  BY <1>2, <1>3, <1>4, <1>7 DEF RemainingIs
<1>. QED
  BY <1>6, <1>7

LEMMA DriverStepTold ==
  ASSUME IReply, CurAtTarget, Told, NEW d \in Slots,
         DriverStep(d) \/ TimerExpires(d) \/ DriverDies(d)
  PROVE  Told'
<1> USE DEF IReply, ISafe, IType, TypeOK
<1>1. /\ UNCHANGED <<cur, giveUps, told, count>>
      /\ \A e \in Slots : Waiting(e)' <=> Waiting(e)
  <2>1. count' = count
    BY DEF DriverStep, Boot, Poll, ReadCmd, StoreStatus, Arm, Confirm, Refuse,
         Answer, Expire, TimerExpires, DriverDies, shmVars
  <2>. QED
    BY <2>1, DriverHistory
<1>2. ASSUME NEW e \in Slots, e # d
      PROVE  /\ e >= count' => remaining'[e] = 0
             /\ giveUps'[e] = 0 /\ Alive(e)' => RemainingIs(e)'
  <2>1. remaining'[e] = remaining[e]
    BY <1>2 DEF DriverStep, Boot, Poll, ReadCmd, StoreStatus, Arm, Confirm,
         Refuse, Answer, Expire, TimerExpires, DriverDies, shmVars, ShmType
  <2>2. dpc'[e] = dpc[e] /\ todo'[e] = todo[e]
    BY <1>2, DriverFrame
  <2>3. Waiting(e) => verdict'[cur.id] = verdict[cur.id]
    BY <1>2, CurVerdictFrame
  <2>4. (verdict[cur.id])' = verdict'[cur.id]
    BY <1>1
  <2>. QED
    BY <1>1, <2>1, <2>2, <2>3, <2>4, ToldFrame DEF Alive
<1>3. d >= count' => remaining'[d] = 0
  <2>1. \/ remaining' = remaining \/ remaining'[d] = 0
        \/ dpc[d] \in {"take", "free"}
    BY DEF DriverStep, Boot, Poll, ReadCmd, StoreStatus, Arm, Confirm, Refuse,
         Answer, Expire, TimerExpires, DriverDies, shmVars, ShmType
  <2>. QED
    BY <1>1, <2>1 DEF Told, Fresh
<1>4. ASSUME giveUps'[d] = 0, Alive(d)' PROVE RemainingIs(d)'
  <2>1. CASE Boot(d)
    <3>1. remaining'[d] = 0
      BY <2>1 DEF Boot, ShmType
    <3>. QED
      BY <3>1 DEF RemainingIs
  <2>2. CASE ReadCmd(d)
    <3>1. Alive(d) /\ remaining' = remaining
      BY <2>2 DEF ReadCmd, Alive, shmVars
    <3>2. /\ Waiting(d) /\ verdict[cur.id] = "sent"
          /\ verdict'[cur.id] = IF busy[d] = 0 THEN "OK" ELSE "Busy"
          /\ busy[d] = 0 => dpc'[d] = "take" /\ todo'[d] = Fields
      BY <1>1, <1>4, <2>2, ReadCmdIsCur
    <3>3. remaining[d] \in {0, told[d]}
      BY <1>1, <1>4, <3>1, <3>2 DEF Told, RemainingIs
    <3>. QED
      BY <1>1, <3>1, <3>2, <3>3 DEF RemainingIs, Fields
  <2>3. CASE StoreStatus(d)
    BY <1>1, <1>4, <2>3, StoreStatusTold
  <2>4. CASE ~Boot(d) /\ ~ReadCmd(d) /\ ~StoreStatus(d)
    <3>1. remaining' = remaining /\ (Alive(d)' => Alive(d))
      BY <2>4, DriverStepBacklog
         DEF DriverStep, Poll, Arm, Confirm, Refuse, Answer, Expire,
             TimerExpires, DriverDies, shmVars
    <3>2. dpc[d] = "take" => UNCHANGED <<dpc[d], todo[d]>>
      BY <1>4, <2>4
         DEF DriverStep, Poll, Arm, Confirm, Refuse, Answer, Expire,
             TimerExpires, DriverDies, DriverType, Alive
    <3>3. Waiting(d) => (verdict[cur.id])' = verdict[cur.id]
      BY <1>1, <2>4, CurVerdictFrame
    <3>. QED
      BY <1>1, <1>4, <3>1, <3>2, <3>3, ToldFrame
  <2>. QED
    BY <2>1, <2>2, <2>3, <2>4
<1>. QED
  BY <1>2, <1>3, <1>4 DEF Told

LEMMA ReadReplyTold ==
  ASSUME IReply, Told, ReadReply
  PROVE  Told'
<1> USE DEF IReply, ISafe, IType, TypeOK
<1>1. /\ UNCHANGED <<remaining, count, giveUps, dpc, todo, verdict, cur>>
      /\ cpc = "select" /\ cpc' # "select" /\ target \in Slots
  BY DEF ReadReply, LoopTop, CliType, shmVars
<1>2. /\ told' = IF \E i \in DOMAIN respPipe[target] :
                      respPipe[target][i].kind = "OK"
                 THEN [told EXCEPT ![target] = cur.timer]
                 ELSE told
      /\ respPipe[target] # <<>> \/ ~Alive(target)
  BY DEF ReadReply
<1>3. \A d \in Slots : d >= count' => remaining'[d] = 0
  BY <1>1 DEF Told
<1>4. ASSUME NEW d \in Slots, giveUps[d] = 0, Alive(d), d # target
      PROVE  RemainingIs(d)'
  <2>1. told'[d] = told[d]
    BY <1>2, <1>4 DEF HistType
  <2>2. remaining[d] \in {0, told[d]}
    BY <1>4 DEF Told, RemainingIs, Waiting
  <2>3. ~Waiting(d)'
    BY <1>1 DEF Waiting
  <2>. QED
    BY <1>1, <2>1, <2>2, <2>3 DEF RemainingIs
<1>5. ASSUME giveUps[target] = 0, Alive(target)
      PROVE  RemainingIs(target)'
  <2>1. Waiting(target) /\ target' = target
    BY <1>1 DEF Waiting, ReadReply
  <2>2. 1 \in 1 .. Len(respPipe[target])
        /\ DOMAIN respPipe[target] = 1 .. Len(respPipe[target])
    BY <1>1, <1>2, <1>5, PipeItems
  <2>3. InHand(target) = 0 /\ dpc[target] # "take"
    <3>1. InHand(target) \in {0, 1}
      BY <1>1, BacklogType
    <3>2. InHand(target) # 1
      BY <1>1, <1>2, <1>5, OneAtATime
    <3>. QED
      BY <3>1, <3>2 DEF InHand
  <2>4. \A i \in 1 .. Len(respPipe[target]) :
          respPipe[target][i] = [id |-> cur.id, kind |-> verdict[cur.id]]
    BY <1>1, <1>5, <2>1 DEF Owed, InStepWith
  <2>5. RemainingIs(target)
    BY <1>1, <1>5 DEF Told
  <2>6. CASE verdict[cur.id] = "OK"
    <3>1. told'[target] = cur.timer
      <4>1. respPipe[target][1].kind = "OK"
        BY <2>2, <2>4, <2>6
      <4>2. told' = [told EXCEPT ![target] = cur.timer]
        BY <1>2, <2>2, <4>1
      <4>. QED
        BY <1>1, <4>2 DEF HistType
    <3>. QED
      BY <1>1, <2>1, <2>3, <2>5, <2>6, <3>1 DEF RemainingIs
  <2>7. CASE verdict[cur.id] # "OK"
    <3>1. told' = told
      BY <1>2, <2>2, <2>4, <2>7
    <3>2. remaining[target] \in {0, told[target]}
      BY <2>5, <2>7 DEF RemainingIs
    <3>3. ~Waiting(target)'
      BY <1>1 DEF Waiting
    <3>. QED
      BY <1>1, <2>1, <3>1, <3>2, <3>3 DEF RemainingIs
  <2>. QED
    BY <2>6, <2>7
<1>6. target' = target
  BY DEF ReadReply
<1>7. \A d \in Slots : giveUps'[d] = 0 /\ Alive(d)' => RemainingIs(d)'
  BY <1>1, <1>4, <1>5, <1>6 DEF Alive
<1>. QED
  BY <1>3, <1>7 DEF Told

LEMMA CliStepTold ==
  ASSUME IReply, Told, UserStep \/ CliStep
  PROVE  Told'
<1> USE DEF IReply, ISafe, IType, TypeOK
<1>1. CASE ReadReply
  BY <1>1, ReadReplyTold
<1>2. CASE Register
  <2>1. count \in Slots /\ count' = count + 1
    BY <1>2, SlotFacts DEF Register, Control, ShmType
  <2>2. remaining' = remaining
    <3>1. remaining[count] = 0
      BY <2>1, TaxiAssumption DEF Told, Slots
    <3>. QED
      BY <1>2, <2>1, <3>1 DEF Register, ShmType
  <2>3. \A d \in Slots : d >= count' => d >= count
    BY <2>1, TaxiAssumption DEF Slots
  <2>4. /\ UNCHANGED <<dpc, todo, cur, verdict, giveUps, told>>
        /\ \A d \in Slots : Waiting(d)' <=> Waiting(d)
    BY <1>2, IdleStepOwed
  <2>. QED
    BY <2>2, <2>3, <2>4 DEF Told, RemainingIs, Alive
<1>3. CASE Fork
  <2>1. UNCHANGED <<remaining, told, giveUps, count>>
    BY <1>3 DEF Fork, shmVars, histVars
  <2>2. \A d \in Slots : ~Waiting(d) /\ ~Waiting(d)'
    BY <1>3 DEF Fork, Waiting
  <2>3. \A d \in Slots : d # count => dpc'[d] = dpc[d]
    BY <1>3 DEF Fork, DriverType
  <2>4. \A d \in Slots : d = count => remaining[d] = 0
    BY TaxiAssumption DEF Told, Slots
  <2>. QED
    BY <2>1, <2>2, <2>3, <2>4 DEF Told, RemainingIs, Alive
<1>4. ASSUME NEW p \in Pids, NEW t \in Timers, SendTask(p, t)
      PROVE  Told'
  <2>1. /\ cpc = "prompt"
        /\ UNCHANGED <<remaining, count, dpc, todo, giveUps, told>>
        /\ cpc' = "select" => verdict'[cur'.id] = "sent"
        /\ cpc' \in {"killed", "select"}
    BY <1>4, SendTaskEffect DEF shmVars, HistType
  <2>2. \A d \in Slots : ~Waiting(d)
    BY <2>1 DEF Waiting
  <2>3. \A d \in Slots : Waiting(d)' => verdict'[cur'.id] # "OK"
    BY <2>1 DEF Waiting
  <2>. QED
    BY <2>1, <2>2, <2>3 DEF Told, RemainingIs, Alive
<1>5. CASE NoResponse \/ SelectInterrupted
  <2>1. /\ UNCHANGED <<remaining, told, dpc, count>>
        /\ \A d \in Slots : giveUps'[d] = 0 => giveUps[d] = 0 /\ ~Waiting(d)
        /\ cpc' # "select"
    BY <1>5 DEF NoResponse, SelectInterrupted, HistType, LoopTop, Waiting,
                shmVars, driverVars
  <2>2. \A d \in Slots : ~Waiting(d)'
    BY <2>1 DEF Waiting
  <2>. QED
    BY <2>1, <2>2 DEF Told, RemainingIs, Alive
<1>6. CASE \/ GetDrivers \/ Quit \/ OtherLine \/ Signal \/ ReadBusy
           \/ ReadRemaining \/ Reap \/ Finish
           \/ \E p \in Pids : GetStatus(p)
  <2>1. UNCHANGED <<remaining, count>>
    BY <1>6 DEF GetDrivers, Quit, OtherLine, Signal, ReadBusy, ReadRemaining,
         Reap, Finish, GetStatus, shmVars
  <2>2. /\ UNCHANGED <<dpc, todo, cur, verdict, giveUps, told>>
        /\ \A d \in Slots : Waiting(d)' <=> Waiting(d)
    BY <1>6, IdleStepOwed
  <2>. QED
    BY <2>1, <2>2 DEF Told, RemainingIs, Alive
<1>. QED
  BY <1>1, <1>2, <1>3, <1>4, <1>5, <1>6 DEF UserStep, CliStep

(***************************************************************************)
(* "Busy <remaining>" shows 0 or the time of the task the user was last    *)
(* told OK for, never another one (BusyReportIsFresh), although the two    *)
(* fields are read and stored one by one without a lock.                   *)
(***************************************************************************)
THEOREM BusyReport == Spec => []BusyReportIsFresh
<1>1. Init => Told /\ CurAtTarget
  BY DEF Init, Told, CurAtTarget, Alive
<1>2. IReply /\ CurAtTarget /\ Told /\ [Next]_vars => Told'
  <2>1. ASSUME IReply, Told, UNCHANGED vars PROVE Told'
    <3>1. UNCHANGED <<remaining, count>>
      BY <2>1 DEF vars, shmVars
    <3>2. /\ UNCHANGED <<dpc, todo, cur, verdict, giveUps, told>>
          /\ \A d \in Slots : Waiting(d)' <=> Waiting(d)
      BY <2>1, IdleStepOwed
    <3>. QED
      BY <2>1, <3>1, <3>2 DEF Told, RemainingIs, Alive
  <2>. QED
    BY <2>1, CliStepTold, DriverStepTold DEF Next
<1>3. IReply /\ Told => BusyReportIsFresh
  BY DEF IReply, ISafe, IType, TypeOK, CliType, Told, RemainingIs, Waiting,
         BusyReportIsFresh
<1>. QED
  BY <1>1, <1>2, <1>3, StepAtTarget, ReplyInvariant, PTL DEF Spec
=============================================================================
