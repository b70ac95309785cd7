# Models and proofs for practice-eltex-v17

The repository is a collection of practice programs in C: data structures and
small console programs (module2), programs of several processes that talk through
pipes, shared memory, message queues and sockets (module3), kernel modules
(module5), and logs and device configurations without a program (module1,
module4). What is hardest in it is in module3: processes interleave, messages are
late, lost or wait in full buffers, and processes are killed. The larger programs of
module3 have a model and a run each; the smaller ones, the data structures of module2 and
the buffers of module5 have a module each and share one run.

A module is checked by TLC on a small instance (`.cfg`) and, where a `...Proofs`
module exists, proved with TLAPS for all values of its constants. `PROJECT.json`
maps each definition to the lines it stands for, lists the runs, one mutation of
the code per property that the property must notice, the findings, the hazards
and the theorems.

## 1. Inventory

| System | State | Operations | Interaction | What is hard | Correct when |
|---|---|---|---|---|---|
| Taxi service, `module3/Cross-task/2/taxi_cli.c` | shared `drivers[]` (pid, busy, remaining, active), `count`; the CLI's `drivers_info[]`; two pipes and a timer per driver | create_driver, send_task, get_status, get_drivers, exit; driver loop: command, timer | shared memory without a lock, pipes, `poll`, `select` with a one second time-out, signals, `fork`, `waitpid` | late replies, torn reads, a command and the timer in one turn, deaths, the end | a reply belongs to its task, busy tells the truth, a task runs its whole time, every task is decided, exit ends |
| Echo server, `module3/Cross-task/1/raw_echo_server.c` | `clients[]` (active, ip, port, counter) | count and answer, CLOSE, refuse, ignore | raw UDP socket: sees all packets of its host | holes left by CLOSE, full table | one number per address: counts up, starts again after CLOSE |
| Echo client, `raw_echo_client.c` | should_close, the wait (attempts, two second time-out) | type a line, send, wait, read, CLOSE, signal | raw UDP socket: sees its own packets and those of others | loss, late answers, EINTR at every call | an answer belongs to the question until a wait fails; nothing is left at the server |
| Blocks, `module3/5/task5.c` (POSIX), `module3/4/task4.c` (System V) | two lists linked by `next` through one array, `count` of each block, `prod_done`, a semaphore | produce a block, consume a block | shared memory and semaphore | a kill inside the section, the end, SETVAL at every start | no block is lost or in two places, nothing is left behind, all end |
| Broker, `module3/2/task2.c` | one message queue, `subs[]` (pid, topics) | subscribe, unsubscribe, send; SIGINT | the same bounded queue carries requests and copies | the broker fills the queue it empties, subscribers die, the queue is removed | every publication arrives once, in order, at who asked before; subscribers end |
| TCP chat, `module3/7` | `clients[]`, the batch of epoll events, a broadcast; the client's `select` loop | accept, read, broadcast, drop; line, file | TCP streams of bounded size | blocking `send` at both ends, leaving in the middle of a batch, SIGPIPE | a member hears every piece once and in order; a broadcast ends |
| Queue chat, `module3/3/task3.c` | what two names point to, the queues, creator or not, a writer and a reader process per session | open, write, read, EXIT, unlink | bounded queues with priorities, signals to both processes | the names are opened and removed one by one, EXIT is sent into a full queue, queues outlive their names | the two ends are crossed over, no queue is left, who leaves ends |
| File copy, `module3/1/task1.c` | the stream of headers and data, the file being sent, the copy being written | READY, header, data, END | two pipes, or one FIFO for both directions | the reader cuts the stream by counting; with `-p` the child may read its own READY; deaths | the copy equals the file, both sides end |
| Broadcast chat, `module3/6`; sniffer, `module3/8` | none beyond a socket | send or print a datagram | UDP broadcast, packet socket | nothing to relate | - |
| Character device, `module5/4`; /proc entry, `module5/2` | `message`, its size, an offset per open file | read, write | several processes without a lock | a write in the middle of a read, a copy that fails half way | an undisturbed read returns the last text; no text from before a clearing comes back |
| LED timer `module5/3`, netlink `module5/5`, hello `module5/1` | led_state and led_mask; none | timer, sysfs; request and answer | - | nothing to relate | - |
| Contacts: list (`module2/4/4.1`, `6/6.1`, `6/6.2`), AVL tree (`4/4.3`), array (`2/2.1`); priority queue (`4/4.2`) | linked nodes, or places of an array with holes | insert, find, delete, edit, free; enqueue, three dequeues | - | long sequences of calls; what a deleted element leaves behind | order, links both ways, balance and heights, no contact lost, FIFO within a priority |
| Permissions `module2/3/3.1`, subnets `3/3.2`, calculators `2/2.2`, `2/2.3`, plugins `6/6.3` | none, or a table filled once | conversions, arithmetic | - | parsing of strings | conversions are inverse |

The hazards of this code, each at its line, are in `PROJECT.json`, with the
property that covers each, or why none does yet.

## 2. Modules

| Module | Code | What it is |
|---|---|---|
| `Taxi` | taxi_cli.c | CLI, drivers, pipes, timers, signals, deaths |
| `MCTaxi` | | symmetry of the process ids for TLC |
| `TaxiProofs` | | eight theorems |
| `BlockPool` | | abstract: every block is free, full, or in one process's hand |
| `Blocks` | task5.c | the two lists, access by access; implements `BlockPool` |
| `BlocksSysV` | task4.c | extends `Blocks`: SETVAL at each start, loops without prod_done |
| `BlocksProofs` | | five theorems, among them the refinement |
| `EchoCounters` | | abstract: one number per address |
| `EchoServer` | raw_echo_server.c | the table of the server; implements `EchoCounters` |
| `Echo` | raw_echo_client.c and the server | extends `EchoServer` by clients and network |
| `MCEchoServer`, `MCEcho` | | bounds and functions for TLC |
| `EchoProofs` | | eight theorems, among them two refinements |
| `Broker` | task2.c | broker, publishers, subscribers and their one queue |
| `MCBroker` | | what the subscribers want, for TLC |
| `BrokerProofs` | | three theorems |
| `Chat` | task7_server.c, task7_client.c | server, clients and the streams between them |
| `MCChat` | | how much each client talks, for TLC |
| `ChatProofs` | | two theorems |
| `QueueChat` | module3/3/task3.c | sessions, their two processes each, the queues and their names |
| `FileCopy` | module3/1/task1.c | parent and child, over two pipes or one FIFO |
| `KernelMessage` | module5/4, module5/2 | the message buffer with calls that overlap, character by character |
| `AvlTree` | module2/4/4.3 | the tree as a value, the code's recursions as functions on trees |
| `ContactList` | module2/4/4.1, list.c of 6.1 and 6.2 | the heap of linked nodes |
| `PriorityQueue` | module2/4/4.2 | the queue as a sequence |
| `PhoneBook` | module2/2/2.1 | the array with its holes |
| `MCPrograms` | | the seven modules above side by side, one program per behaviour |
| `StructureProofs` | | the list, the priority queue, the phone book, the AVL tree: five theorems |
| `ProgramsProofs` | | the queue chat, the file copy, the message of the kernel modules: three theorems |
| `BasicFacts` | | least number principle, induction over finite sets, items of a sequence, for the proofs |

### Taxi

`drivers[]` is `busy`, `remaining`, ..., indexed by the slot; the driver's loop is a
control variable whose steps are the single stores and calls of `driver_main`, in
their order, because the CLI reads the record without a lock between any two of
them. `create_driver` is two steps, `Fork` and `Register`: the child runs while the
parent still writes the slot. `send_task` is `SendTask` and then one of `ReadReply`,
`NoResponse`, `SelectInterrupted`; the two reads of a status report (`ReadBusy`,
`ReadRemaining`) are apart. Time is abstract: a timer that is set expires at some
later step, and `select` may give up whenever nothing can be read.

* `taxi` (two drivers, two tasks, two lengths). `BusyMatchesTimer`,
  `NoEarlyRelease`: busy falls only when the timer has run out, and the EAGAIN
  branch of line 133 is dead code. `BacklogBounded`, `ReplyIsForThisTask`: a reply can
  only be for an older task if a wait was given up before. `AvailableIsTrustworthy`:
  who saw "Available", and gave up no wait, is not refused. `BusyReportIsFresh`: what a
  torn read can show and what not. `TablesAgree`: the CLI's table and the shared
  one name the same drivers.
* `taxi_live` (one driver, three tasks). Every task is decided, every accepted one
  ends, unless the driver dies.
* `taxi_exit` (finding): the final loop does not end the drivers.
* `taxi_ok` (finding): a late OK is shown for a task that was refused.

Fairness: the CLI goes on inside a command (`CliStep`) but the user need not type;
each driver goes on, and a timer that is set expires. These are separate processes
under a scheduler, and no step of theirs waits for a lock.

### Blocks

`top` holds `head` and `free_head`, `next` and `count` are the arrays of the
segment, `sem` the semaphore. A turn of a process is lock, pop, mark, link, publish,
unlock: one step per shared access. `Kill` may come at any step; the semaphore is
then never given back.

`BlockPool` says what both lists are for: a block has one owner, "free", "data" or
a process. `Blocks` maps the owner from the lists and from who is inside the
section.

* `blocks` (a producer, two consumers, three blocks): `MutualExclusion`;
  `BlocksKept`: both lists end, are disjoint, and lack only the block in hand;
  `NothingLeftBehind`: when all ended without a kill no data are left;
  `ImplementsPool`; `Terminates`. Three blocks let both lists have two blocks while one is
  in hand; four turns of the producer go once round the pool and beyond.
* `blocks_sysv` (finding): `semctl(SETVAL, 1)` at each start opens the section for a
  second process, and `head` names an empty block.

Fairness: weak for the steps inside a turn, strong for taking the semaphore: a process
sleeps one or two seconds after each turn of a few microseconds, so no process
can take the semaphore each time before a waiting one.

### Echo

The table is an array with holes. `CountMessage` is lines 96-124 as one step, since
the server has one thread and the table is its own; so is `CloseClient`. `Echo`
sends real packets through it: `inbox` is the receive buffer of each raw socket,
and a packet that reaches a host is put into every raw socket on it, as the kernel
does. A packet may be lost (`Lossy`) for all sockets of a host, but packets do not
overtake each other and are not doubled. The clients are the main loop with
`attempts`, the time-out at any moment with nothing to read, and a signal at any
moment.

* `echo_server` (three addresses, two entries): `OneEntryEach` in spite of the holes, and
  the table implements `EchoCounters`.
* `echo` (a client on the server's host, one elsewhere, one entry): `InStep`: as
  long as no wait failed the answer printed is the one to this line and its
  number is the number of lines sent; `AnswersInOrder`: also later, answers never go
  back; `ClosedIsForgotten`: the server keeps no entry of a client that closed, once its
  packets are taken; `StopsWhenBusy`: a client told to stop that is not at the prompt
  ends. `InStep` and `ClosedIsForgotten` speak of clients alone on their host:
  all share port 55555, and two on one host share a counter.

Fairness: a client that is past the prompt goes on. Neither the network, nor the
server, nor the user is fair: the client's time-out is enough.

### Broker

`queue` is the one System V queue with its bound; `msgrcv` by type takes the first
message of the type. The broker's handler of a publication is a loop over `subs[]`
with a `msgsnd` that may wait, so each turn of it is a step. SIGINT to the broker may come
between `sub_count++` and the store of the pid.

* `broker` (two subscribers, one naming its topic twice, two publications, room
  for two): `InOrderOnce`, `NothingMissed`: what is queued after the request is
  neither lost nor repeated; `AllArrives`: a publication reaches its subscriber unless
  the queue is jammed by messages that nobody will take, or somebody is interrupted.
  The jam is reachable: without that exception the property fails.
* `broker_end` (finding): a subscriber that is not waiting when the queue goes never ends.

Fairness: broker and subscribers go on; publishers and signals need not come.

### Chat

A stream is a sequence of pieces (portions of bytes) with a bound; where one
`send()` ends is forgotten, as TCP does. `broadcast()` is stepwise, because `send()` waits
for room; `turn` and `done` say how far it is. A client in `send()` does not call
`select()`. The first send to a client that has left is lost, the next raises
SIGPIPE and ends the server.

* `chat` (three clients, two of which talk, room for one piece):
  `NothingSkipped`: the pieces of each sender that a member has read, or that wait for it,
  or that the broadcast under way still owes it, are exactly those the server read since
  it accepted the member, in order, in spite of the swap at line 56. `BroadcastEnds`: a
  broadcast is held up only by a client that is itself waiting in `send()`.
  `LeaverDropped`: who left is taken out of `clients[]`, with the same exception and that of
  a server killed by SIGPIPE. Both exceptions are reachable.

Fairness: the server and each client go on when they can; nobody has to connect,
type or leave.

### The run `programs`

The seven modules that follow do not interact. `MCPrograms` puts them side by side:
the variable `program` says which one a behaviour is about, the variables of the others
never change, so the states add up instead of multiplying, and each property is
checked in the states of its program. The fairness of `MCSpec` is that of `CopySpec` and
`ChatQueueSpec`, restricted to the behaviours in which those programs run.

### QueueChat

A queue of the kernel is a number, because it lives on after `mq_unlink()` for
who has it open; `name` says which queue the two names point to at present. A
session is one run of the program: `Create1`, `Create2` for the creator, `Join` (two steps,
one per name) for the other, `Install` (signal), `Fork`, and then a writer (`Type`,
`EndOfInput`, `KillReader`) and a reader (`Receive`). A queue keeps its texts in
order and counts the EXITs in front of them (priority 99). `Handler` is
`sigint_handler`, one step per call; both processes of a session run it after
Ctrl+C, and main runs it at the end of the input.

* `CrossedOver`: who joined sends into the queue the creator receives from, and the other
  way round, however the `mq_open()` calls fell together; it may have found no second queue
  yet, `mq_in` is then -1. And no queue is left when the last process has ended. It excepts
  queues that are opened while a creator removes them, and a creator killed by
  Ctrl+C before line 52 set its handler: both are reachable, and then two sessions may both
  join, or the names stay.
* `LeavingEnds`: whoever leaves ends, unless its queue is full and nobody reads it. That
  wait is real: a blocking `mq_send` in the handler.

Two sessions are the two participants, room for two messages lets a queue be full with
EXIT in it. The safety part was also checked with three sessions (a third participant
that opens the queues of the other two), too large to be kept as a run.

Fairness: the processes run. The user need not type. Strong fairness on `Handler`, since
the kernel hands a place that becomes free to a sender that waits for it.

### FileCopy

A stream is a sequence of units: READY, a newline, a header, END, or a portion of
data. `out` is what is left of a `write()` that waits for room, so a file's data
and the next header lie in the pipe together and `CopyData` may meet any part of them;
`Portion` is what keeps it from reading on. `Up` is the stream to the parent: with
`-p` it is the same FIFO. A file may be absent, may change once while it is sent, and one
side may be killed; the end of the stream and SIGPIPE follow from that.

* `CopiesEqual`: a child that came to END has written each file as it was.
* `CopyEnds`: once the child has said READY both sides end.

Both except a file that changed after `fstat()`, and with `-p` the runs in which the
child reads of its own READY (`ReadyEaten`); `CopyEnds` also
the death of a side. Each exception is reachable: a file that grows puts the child
out of step, with `-p` both sides may wait for ever, and a child whose parent was killed
goes round its loop at the end of the stream, truncating the last copy each time.

Two files of no or three portions, a buffer of two and room for three units: a file
takes two reads, the pipe fills in the middle of a file, and the end of one file and the
header of the next meet in it. Fairness: two processes under a scheduler.

### KernelMessage

`dev_write` is `WriteBegins`, `Memset`, `CopyIn` (one character a step, or the failure,
where `copy_from_user` puts zeros), `SetSize`, `EndLine`, and for `size_of_message++` a load, `LoadSize`,
and a store, `CountLine`; `my_proc_write` has no `Memset` and ends with `EndString`. The shared
size, looked at again by the writer that has just set it, is the value it stored or what
another write has made of it since: a build may do either. A read loads the size once and then
copies character by character. The two modules differ only there, so `driver` tells them apart.

* `NoStaleText`: a read beside which nothing is written returns what the last write left,
  if that one succeeded and overlapped no other, whatever failed or overlapping
  writes came before; and from the device no character comes back of a write
  that was over before another one began that has cleared the buffer. `/proc` has no
  such promise: after a failed copy the end of the old text stays.

Two writes of no, one or too many characters and a reader with an offset: each
branch about the newline and the end of the buffer is taken, and a second write begins at
every step of the first. Two writes at once may so count a size of one more than the
buffer, and a read then passes its end: `TextAt` says that no write's text lies there.

### AvlTree, ContactList, PriorityQueue, PhoneBook

These are sequential. What is hard to test in them is the sequence of calls, so
each next-state relation is "any call", without a bound on the number of calls (but
`MaxMessages` items between two calls of `free_queue`).

* `AvlTree`: a node with its subtrees is a value, since the tree has no other pointers into
  it; each recursion of the code is a recursive function on `Trees`, the trees of at most
  as many levels as there are contacts. That bound leaves nothing out: the theorem below
  shows that the contacts on each way down are different, so no call meets a deeper tree.
  `TreeKept`: stored heights are true, subtrees differ by one level, the contacts come out in
  order, each once, they are those put in and not taken out, and `find_node` finds exactly
  these. Twelve contacts, because a deletion that makes two rotations on its way up
  needs twelve nodes.
* `ContactList`: `node` is the heap; a freed address is outside its domain, so that
  using one would be an error. The walks of `insert_sorted` and `find_node` are walks
  along `next`. `ListKept`: both directions agree, the contacts are in order, each
  live node is reached once, and the list has as many of each contact as were put in. Four
  nodes and three contacts give equal contacts at the head, in the middle and at the end.
* `PriorityQueue`: `MostUrgentOldestFirst`: each dequeue takes the most urgent item that
  fits, the oldest of several, and leaves the others. Five items, three priorities.
* `PhoneBook`: `BookKept`: the book shows each contact as typed last, also in a place
  used before, and is full only when each place is taken. Three places, one telephone; a
  deleted contact's telephone stays in its place, which the property must not show.

### Bounds, and deadlock checking

Bounds are `MaxSent` (Taxi, Echo), `Limit` (turns of a producer), `Leaves` and the
number of publishers (Broker), `Talk` (Chat), `MaxNumber` (MCEchoServer),
`FileSizes` (FileCopy), `MaxWrites`, `Lens`, `Wants` (KernelMessage), `Addresses`
(ContactList), `MaxMessages` (PriorityQueue), and of QueueChat the number of sessions: each
cuts off an input that could go on for ever, at a size where each branch is taken,
a buffer fills and empties again, and two actors meet in every order.
`CHECK_DEADLOCK FALSE` stands in each configuration because each system stops: the user
types no more, all have ended, or a process was killed inside the section. Where
it may not stop, a liveness property says so.

## 3. What is proved

For all values of the constants that satisfy the named assumptions
(`TaxiAssumption`, `BlocksAssumption`, ...):

* **Taxi.** `TypeCorrect` from `IType` = `TypeOK` and `Control` (which fields fit which
  control point). `BusyTimer`: `BusyMatchesTimer` needs `Fresh`, that a slot
  not yet registered is untouched, because parent and child write it both.
  `TaskRunsItsTime` (an action property) follows from it. `RepliesOwed`: a driver owes one
  reply per wait given up and one for the wait under way; each step is
  counted. `AvailableHolds` strengthens by `WaitingUnseen`. `SameDriver` from `Tables`:
  `create_driver` fills both tables at one index with a pid of its own, also between `Fork`
  and `Register`. `ReplyToTheTask` from `Numbered` (a command that was not read waits for its
  verdict in one place only) and `Owed`: as long as no wait for a driver was given up, all that
  is between it and the CLI is the task waited for, or its reply. `BusyReport` from `Told`: the
  shared time is that of the last task confirmed, or of the one being taken, or 0.
* **Blocks.** `Exclusion` from `ISection`: the semaphore and the processes inside
  count one. `NoBlockLost`: `BlocksKept` by itself is not inductive; `ILists` adds
  `IHand`, what the process inside has in hand at each access. `Refinement`: the owner of
  a block is read from the lists, and `SamePath` shows that `next` determines a list, so that
  each step of the code is one step of `BlockPool` or none. `NothingBehind`, for one
  producer as in the code: `prod_done` is set by its last turn (`ILeft`). With two it does not hold, since
  the first to end sets it.
* **Echo.** `UniqueEntry` from `IServer`. `Refinement`: the table implements the numbers.
  `ServerAmongClients`: whatever clients and network do, the server only makes steps of
  `EchoServer`, since every packet names an address (`Sound`); so `EchoRefinement` holds for
  the whole system. `TypeCorrect` for the composition. The other three speak of a client alone
  on its host, as the properties do. `NoEntryLeft` from `Forgets`: a last CLOSE is still to be read
  with no line of the client behind it, or the client has no entry and no line under
  way. `NoAnswerTwice` from `Ordered`: the last answer printed, the replies in its socket, its
  lines in the server's socket and the last line sent come in this order. `AnswersTheLine` from
  `Follows`: while no wait failed, a client that types has nothing under way, and one that waits has
  its line, or the answer to it, and nothing else, or will get none.
* **Broker.** `TypeCorrect`: `TypeOK` needs what messages say to be true (`SoundQueue`,
  `SoundHand`), one entry of `subs[]` for each pid (`Entries`), and that each publisher sends once
  (`Publications`). `OnceAndInOrder`: the publications on their way to a subscriber, from what it got over
  its copies on the queue, the message the broker copies and what it has not read
  yet, are in the order of sending; each step maps the places it leaves filled to
  places filled before, in their order. `NothingIsMissed`: a topic asked for has its
  request on the queue, in the broker's hands or in `subs[]`, unless it was given up (`Requested`),
  and later publications are behind it (`Behind`).
* **Chat.** `TypeCorrect` from `IType`: nobody is twice in `clients[]` or among those who
  wait for `accept()`. `NobodySkipped` from `Flow` and `Hearing`: what the server has not read of
  a sender follows what it has read, a new member starts with nothing, the broadcast
  passes over the sender only, and the swap at line 56 moves a member that has heard the piece.
  For any number of clients, room in the streams and order of events.
* **QueueChat.** `QueuesAreCrossed`, for any number of sessions. `Control` says which labels the
  two processes of a session may have together; unless one of the two exceptions has happened
  (`Undisturbed`) there is one creator at a time (`OneCreator`), the names are its queues or
  nothing (`NamesOf`), and who joined has its queues crossed or shares none with it (`Pairs`),
  also between its two `mq_open()` calls: queues outlive their names, so a session may have those of an
  earlier creator open.
* **FileCopy.** `CopiesAreEqual`, for any files, buffer and pipe. All that the parent writes is one
  script, fixed by the sizes: `After` leads from a place in it to the next, `Emits` is the unit
  there. `InSync`: what is in the stream and in the parent's buffer is a `Stretch` of the script
  that begins at the place the child waits for (`Expects`) and ends where the parent will go
  on, and all files before are whole. `Lost` is the other way it may go: the parent was killed, and
  there is no END in the stream. `Begun` is about READY, before either holds. A child that
  takes k portions, however many the pipe has, takes what the script has there
  (`StretchData`), because `Portion` is at most what the file lacks.
* **KernelMessage.** `ReadsAreFresh`, for any buffer, lengths, readers and writes. `TextKept`: while the
  last write overlapped no other, the buffer holds its text as far as it has come
  (`Written`), and `SizeFits`: then the size is within it, which it need not be after writes that
overlapped. `ReadKept`: while nothing was written since a read began, what it has got is what is in
  the buffer. `NothingBanned`: a character of a write that was over before a clearing write
  began is nowhere in the buffer, whatever fails and overlaps later.
* **ContactList.** `ListIsKept`: `ListKept` from `IList`, that the live nodes stand in a
  row (`Chain`), each once, with the links that belong to their places. `ListKept`
  alone would do for the links, but its walk is not what a step is argued about: a row with a
  node put in (`InsertChain`) or taken out (`DeleteChain`) is again a row. That
  `insert_sorted` stops at the right place needs only the last comparison of its walk.
* **PriorityQueue.** `QueueOrdered`: the items are sorted by priority and arrival and no
  number is there twice (`IQueue`). From this `UrgentOldestFirst`: the first that fits in
  the order of the list is the one that must leave.
* **PhoneBook.** `BookIsKept`: `IBook` has the types and what is shown; that a place is free
  whenever the count is below the size (`RoomIsFree`) is an argument about cardinalities.

* **AvlTree.** `TreeIsKept`, for any finite set of contacts and any number of calls. The inductive
  invariant `ITree`: the tree is `Good` (every node measured, balanced by one level, and between
  the contacts on its left and on its right) and its contacts (`Keys`) are those stored.
  `TreeKept` follows from it; its list and its searches are what a reader sees, and a step is
  argued about node by node. The functions of the code are recursive, so that they exist
  must be shown first: `TreeRecursion` builds such a function level by level from what it does at a
  node, and `TreeInduction` is induction over the levels. `Balances` is the heart: a node with good
  subtrees two levels apart comes out of `balance` good, with the same contacts, at the height it
  had or one less (`LeftIsHigh`, `RightIsHigh`: single and double rotation). Then `InsertIsGood`,
  `MinIsLeast` and `DeleteIsGood` by induction: each recursion changes the height by
  one level at most. That results are again in `Trees` is `CountKeys` and `GoodLevels`: a good
  tree has no more levels than contacts.

`BasicFacts` derives the least number principle and induction over finite sets
from the well-founded order of the naturals, stated over sets instead of operators, so
that the provers can instantiate them, and has the facts about the items of sequences that
all these proofs need.

Only model-checked: all liveness (`AcceptedTaskEnds`, `EveryTaskDecided`, `Terminates`,
`StopsWhenBusy`, `AllArrives`, `BroadcastEnds`, `LeaverDropped`, `CopyEnds`, `LeavingEnds`),
which is beyond the prover, as is `ENABLED`. Every invariant and every action property of
the passing runs is a theorem.

## 4. Findings

1. `taxi_cli.c:380`: "Завершение всех драйверов" never ends, drivers inherit the handler of
   the CLI and ignore SIGTERM (`taxi_exit`).
2. `taxi_cli.c:240`: the OK of an earlier task is shown as the confirmation of a
   task that is refused (`taxi_ok`).
3. `task4.c:110`: SETVAL at each start breaks the mutual exclusion (`blocks_sysv`).
4. `task2.c:113`: EINVAL is not EIDRM, a subscriber may never end (`broker_end`).

Seen while modelling and covered by no run: `taxi_cli.c:92` cannot be reached when the CLI is
killed, and the driver then spins; `raw_echo_client.c:67` promises Ctrl+C at a prompt
where `fgets` is restarted; `task2.c:52` may signal the whole process group;
`clients[]`, `subs[]` and `topics[]` are not checked against their sizes;
with `-p` the child of `module3/1/task1.c` may read its own READY, against "Ждем READY" at
line 48, and then files are missing or both sides wait; a parent killed
leaves a child that empties the last copy again and again; a creator of the queue chat
killed before `task3.c:52` leaves its queues, and later participants then both join;
two writes at once may leave `size_of_message` of `my_chardev.c:118` above BUF_LEN;
`my_proc.c:40` keeps the end of the old text when the copy fails;
`clear_input_buffer` of `module2/2/2.1` never ends at the end of the input;
`module2/3/3.1/test.c:38` expects 0754 for "o-r" where 0775 gives 0771.

## 5. Not modelled

Components with status `not_modelled` in `PROJECT.json`, with the reason. Within the
modelled ones: failures of `fork`, `pipe`, `malloc`, `mq_open` and the like at the start, text
longer than its buffer, the numbers in the blocks, the header fields of packets, what the
chat client prints or saves, more clients or topics than an array holds, files whose
data read like a header line, file names with a blank, which `%s` at line 27 of
`module3/1/task1.c` would cut, fields of a contact that are only stored and shown, and
loading and unloading of the kernel modules.

Whole programs are left out where there is no state to relate: the broadcast chat and the
sniffer print what arrives; the LED timer, netlink and hello modules, the calculators and the
subnet counter do one thing per call; the permissions calculator is parsing and
formatting of strings around three bit operations; the table of plugins is filled once.

## 6. Plan

Done, in the order in which they matter: Taxi, Blocks, Echo, Broker, Chat; then the
queue chat, the file copy, the message of the kernel modules and the structures of module2; proofs
of all their safety properties, the tree's among them. Next: the receiving side of **Chat** (a
file cut out of a read), and several generations of producers over one segment in **Blocks**.

Runs stay few: one per question, and one for all the small programs.
