# TLA+ models of the XFS4IoT cash acceptor service

This directory models the service of this repository: a websocket server whose
clients send XFS4IoT commands to one cash acceptor, the sample device on a
DORS 210BA bill validator. Paths below are relative to the repository
(`src/`). All names of actions and variables follow the code where TLA+ allows.

## 1. The system

| Part | Source | State | Operations |
|---|---|---|---|
| Command queue | `framework/server/CommandQueue` | `contents_`, `currentCommand_`, its cancel flag; the event `signaled_`, `waiters_` | enqueue, withdraw by connection, `RunAsync`, `WaitAsync`, `Set` |
| Dispatcher | `framework/server/CommandDispatcher` | a queue and a queue thread per service | `Dispatch`: acknowledge, timer, run async commands at once or enqueue |
| Client connection | `framework/server/ClientConnection` | websocket, decoder, the message it handles | read loop, `SendMessageAsync`, clean-up when the client leaves |
| Endpoint, publisher | `framework/server/EndPoint`, `ServicePublisher` | acceptor, `connectionDetails_`, services | accept, route by URI, remove a connection |
| Service provider | `framework/server/ServiceProvider.hpp` | `connections_`, io thread | add and remove a connection, broadcast of events |
| State machine | `framework/core/common/StateMachine` | bounded history of device states, subscriptions, registered waits | `ChangeState`, `Subscribe`, `BlockedWait`, `AsyncCancel` |
| Cash acceptor | `Devices/CashAcceptorSample` | counts of the transaction, accepted items, limits, cassette, validator state | `CashInStart`, `CashIn`, `CashInEnd`, `Reset`, polling thread |
| Escrow manager | `.../Managers/EscrowManager` | status and counts, saved to a file | open, close, count, reset, load |
| Inhibit manager | `.../Managers/NotesInhibitManager` | a cache of what the validator was told | `_inhibit`, `_allow` |
| Power-up manager | `.../Managers/PowerUpManager` | the reset in progress | `Reset` |
| Persistent data | `framework/core/Persistent` | one JSON file | `read`, `update`, `saveToFile` |
| Validator driver | `Devices/HW` | task queue of the executor, serial port, `portValid_`, `commandCounter_` | `Poll`, `Stack`, `Return`, `EnableBillTypes`, `Reset`; `reconnectLoop` |
| Storage, common, schemas | `framework/ServiceClasses`, `framework/core` | capabilities, statuses, message data | mostly reads and conversions |

Threads. `main` runs one io_context with a single thread: endpoint,
connections, `Dispatch`. Each dispatcher has one queue thread, which executes
the commands that are not async one after another. Each service provider has
an io thread for events. A polling thread asks the validator for its state
and drives the state machine; handlers subscribed by a command run on it. The
driver has an executor thread, which is the only one to use the port for
commands, and a monitor thread, which closes and opens a port that was lost.

How they meet. A message goes from the websocket through the decoder to
`Dispatch`, which acknowledges it and gives it to the queue; its handler calls
`CashAcceptorSample` on the queue thread, which subscribes to the state machine
and gives orders to the validator; what they lead to is seen by the polling
thread, which changes the state and by that wakes the command. Both threads call
the driver, change the accounts and save them in the one file. The answer goes
back over the same websocket on which the main thread writes acknowledgements
and the io thread events.

What is hard. The queue thread and the main thread share the queue and a
hand-made event; a client may leave at any moment. A command waits for states
the polling thread reports, while handlers on that thread change the same
accounts. The accounts are kept four times (transaction, accepted items,
cassette, file), are changed in several steps, and the process may die between
two of them. The cache of the inhibit manager and the validator may disagree.
An answer of the validator may come after its time limit and be read by the
next call. A client that stops reading holds up the thread that writes to it.
`PROJECT.json` lists each of these hazards at its line.

What makes each part correct: the queue serves accepted commands once, in
order, one at a time, never for a client that is gone, and does not sleep
beside work; the state machine ends every wait that should end, and only those;
a cash-in counts each note once, keeps the counts until the transaction ends,
survives a crash, leaves no open validator behind, and ends when its client
stops it; a client is told of each message once and in order, and a connection
ends when it should and leaves nothing behind; the file says what the service
believes, and a crash loses no note; a call of the driver returns, with its own
answer, and a lost port is found again.

## 2. Modules

| Module | What it is |
|---|---|
| `CommandService` | Abstract: what a command queue promises its clients |
| `CommandQueue` | `CommandQueue` and `AsyncAutoResetEvent`; implements `CommandService` |
| `Sessions` | Endpoint, connections, dispatcher, service provider; contains `CommandService` in place of the queue |
| `StateMachine` | `StateMachine<...>` with waiting threads, the polling thread and cancellation |
| `Transaction` | Abstract: what the cash acceptor promises of a transaction and its notes, across crashes |
| `CashIn` | The four commands of a cash-in, the polling thread, the managers, the file, crashes; implements `Transaction` |
| `Persistent` | The file and the two threads that change it, failing writes, crashes |
| `Driver` | The way of a command to the validator and back, late answers, a lost port |
| `CommandQueueProofs`, `SessionsProofs`, `StateMachineProofs`, `CashInProofs`, `PersistentProofs`, `DriverProofs` | Theorems about each of them |
| `CashInRefinement` | That `CashIn` implements `Transaction` |
| `DriverAnswerProofs` | That an order reported as done was done |
| `MC...` | Values of the constants for TLC; the `.cfg` files name specification and properties |

How the modules fit together. `Sessions` uses what `CommandQueue` is shown to
implement, so that it need not repeat the events, and it is proved that the
abstract queue holds none of its threads back. `CashIn` has one step where
`StateMachine` looks into a change of state, one step for most of the saves
`Persistent` looks into, and an environment where `Driver` has the port. In the
other direction each of these three allows every order of calls the guards of
its callers allow; what it leaves out of those callers is named below.

### CommandQueue

One action per critical section, or per piece of code between two of them.
`syncMutex_` is held over several steps only by the withdrawal of a
connection's commands (`mainPc`), and every action that needs it asks for
`MutexFree`. `WaitAsync` is `EnterWait` (test `signaled_` or push a waiter),
`StartTimer` (the `async_wait`) and `LeaveWait`; `Set` takes a waiter
(`"popped"`) and `CancelWaiter` is its `cancel`, which reaches a timer that is
waited on (`"resumed"`) or is lost. `Disconnect`, `CancelNext`, `CancelDone`
are `TryCancelAllAsync`. `TryCancelSpecificAsync` is left out, since the only caller of
`CancelCommandsAsync` passes no request ids (`ClientConnection.cpp:130`).
`ReceiveItem`, `StartHandler`, `HandlerReturns`, `HandlerThrows`,
`ReportError`, `FinishItem` are the body of `RunAsync`; a throw outside of its
try block is `queuePc = "dead"`.

### Sessions

`conn[c]` is where the coroutine of connection `c` is, from `HandleConnection`
to its end: `Accept` (the accept loop), `Establish` (handshake and routing by
URI, after which the connection is listed) or `Refuse`, then the loop of `RunAsync`: `Receive` a message, `Acknowledged` when the
acknowledgement is written, `Execute` (an async command, or one put into the queue),
`NoHandler`, `Replied`; `ReadFails` ends the loop, `Close` is the websocket's
close, `Withdraw` the withdrawal of the client's commands and `Remove` the lines
after `RunAsync` in `HandleConnection`. An exception that leaves `RunAsync`
makes the connection `"deaf"`: no longer read, still listed. The main thread
runs all coroutines, which change hands only where they read and write; a close
and the removal are synchronous, which is `MainFree`. `TakeCommand`,
`Reply`, `QueueReplied` are the queue thread, `SendEvent` and `EventSent` the io
thread, `Leave`, `Stall` and `Shutdown` what clients and the operator do. A
write has a begin and an end (`writing`), and its end needs a client
that reads or is gone. Nothing keeps events apart: several may be under way, and one
that is sent to a connection to which another is being written joins that write.

### StateMachine

`ChangeState` records the state and copies the subscriptions, `RunHandler`
runs one of them, `NotifyWaits` gives registered waits their event: three
critical sections of the code. A waiting thread goes through `Begin`,
`CheckCurrent`, `Register`, `WaitEnds` or `TimeExpires`, `CleanUp`, and
`WaitAgain` (the loop of `_inhibit`) or `Finish`. Sequences of events are
matched as `_has_happened` does, over a history of `HistoryCapacity` states.

### CashIn

`tx` is `cashInStatus_`, `accepted` is `acceptedItems_`, `unit` the count of
the cassette in memory and `disk` the file. `call` is the command on the queue
thread with its token, `poll` the polling thread, `dev` the validator.
`StartTransaction .. ClearAccepted`, `CashInValidate .. CashInCount`,
`CashInEndValidate .. CloseTransaction`, `ResetClear .. ResetResolve` are the
commands, `PollRead`, `ChangeState`, `PollSwitch`, `PollSave` one turn of the
polling thread. An order to the validator that is reported to have succeeded was carried
out; one that is reported to have failed may have been, as `sendCommand` also fails
when only the answer was lost, garbled or late (`Allow`, `Forbidden` and `Refusing`,
`Ordered`). The order to return a note takes the place of the one to stack it, and an
order to stack ends with the state it was given for. Here a change of state is one step, which runs the handlers
and notifies the wait. The lost event between `CheckCurrent` and `Register` is
kept.

`Transaction` is what a client may rely on. `CashIn` implements it with its
`tx.status`, `tx.items` and `tx.unrec`; the fourth variable, what the file does
not know yet, is `Unsaved`: `"open"` while `OpenTransaction` writes, `"save"` while
the polling thread has a note to save, `"deposit"` from the moment the notes go into
the cassette until the transaction is closed (`Depositing`). `OpenTransaction`'s
two steps are `Open` and `Opened`; a count by any of the commands or by the polling thread
is `Count`, its save `Saved`; the write of `CashInEnd` is `Deposit`, its end `Close`;
a crash, and the process ended by the null pointer, are `Restart`. All other steps
stutter, `Reset`'s clearing of the accepted items and every step of the validator among
them. `Restart` says what the code can lose: the one note being saved, and, when the process
dies in a deposit, any of its notes.

Abstractions of `CashIn`. A note is recognised or not; an amount limit refuses
a note as the item limit does. `Holding` is `Escrow`; all error states are
`Failure`; notes the validator rejects are never counted and are left out, with
the two sequences of `Reset` that start from them. Left out too: the counter of
refused notes, `currentCashInItems_`, the count of unrecognised notes in the
file (written, never read back), cassette missing or replaced, statuses of
positions, loss of the port. The three updates of `SaveTransactionStatus` are
one. `CountNote` (a handler, a CashIn or a Reset that counts) saves the file in
one step; the races of reading and writing the file are kept where two threads
meet in it: the polling thread's own count, `addCashUnitNotes`, and
`OpenTransaction`. The null pointer that `ResetNoteNumberList` leaves to
`SaveTransactionStatus` ends the process. The validator (`Rest`, `MayBecome`)
is an environment: it follows the order of its states, stacks only when told
to, and may send a note back or fail with a note inside at any time.

### Persistent

`file` is the JSON file: whether it can be parsed, and its five entries that two
threads change or that survive a crash. `mem` is what the process believes.
`update` and `saveToFile` are `Read`, `Truncate` and `Write`: `m_fileMutex` is
held by the read, and from the truncation to the write, and free between. `job`
is what a thread still has to save; `SaveTransactionStatus`, which saves one
entry after another, is a job of two (its third entry, the refused notes, is left
out). Who saves: `OpenTransaction`,
`AddNote` (either thread), `Deposit`, `ClearAccepted`, `CloseTransaction`,
`ConfigureNoteTypes` on the queue thread, `SetManipulated` on the polling thread.
Those that save the transaction hold `mutex_` until they have saved it (`holds`),
which is what keeps their saves in order. `ResetClear`, `ResetCount` and `ResetRecord` are
`ResetDeviceAsync` with the jammed note of `PowerUpManager`: the note is counted
whatever the status, if it is recognised, and what was accepted since the reset began is added to the
notes of the cassette in the file, not to `unitCount_`. `WriteFails` leaves a torn or an
unchanged file; `Crash` restarts the service on what it finds, at any step, up to the
point where a start that found an open transaction saves it as unknown; `Started`,
which comes after that save, reads the note list and the notes of the cassette again.
`mishap`, `renewed` and `mem.strays` are history variables: what came between the file
and the memory, whether an unreadable file was ever replaced by an empty one, and the
notes of resets, which only the file has.

Left out: refused notes, unrecognised notes and fraud attempts, which are counted and
saved like the rest and do not touch these entries. A reset is here any time the queue
thread is free, with or without a jammed note; `CashIn` says when there is one.

### Driver

`Ask` is a method of `DorsHW` that puts its command into `m_taskQueue`, `Return`
what it makes of the answer. `TakeTask`, `WriteCommand`, `Listen`, `Receive`,
`ReceiveShort`, `TimeOut` and `Callback` are the executor in
`DevicePort::sendCommand`, with its attempts, its counter and its errors.
`MonitorLooks`, `MonitorCloses`, `MonitorOpens` are `reconnectLoop`. `Respond`,
`RespondBadly`, `Lose`, `Leave`, `ComeBack` are the validator and its line, an
environment. `NextPoll` is the count of port errors of `fnDevicePolling`. The
ghost `old` of a frame says that it answers a call that is over.

## 3. Runs

`pass` runs find no error; `violation` runs end in a counterexample to a
sentence of the repository, described under `findings` in `PROJECT.json`.

| Run | Config | Shows |
|---|---|---|
| queue | `MCCommandQueue.cfg` | events cover commands; no sleep beside work; the cancel flag belongs to the current command; nothing is current while waiting; only connected clients are served; implements `CommandService`; served unless halted |
| queue_woken | `MCCommandQueueWoken.cfg` | a withdrawn command leaves its wake-up: `ReceiveItemAsync` throws, `RunAsync` ends |
| queue_lost | `MCCommandQueueLost.cfg` | a `Set` before `async_wait` is lost |
| sessions | `MCSessions.cfg` | an acknowledgement, then at most one answer; no command of a removed client is left; where writes meet on a websocket; acknowledged commands are answered and connections end unless a client that does not read holds up the thread |
| sessions_removed | `MCSessionsRemoved.cfg` | a connection that ends by an exception stays in the list |
| machine | `MCStateMachine.cfg` | no stale result in a token that is used again; handlers run only while subscribed; a cancelled wait ends; a registered wait ends after its event |
| cashin | `MCCashIn.cfg` | accepted items are among the counted ones; the validator takes notes behind a cache that says forbidden only after an order to accept whose answer was lost; crashes are reported with their counts; implements `Transaction`: what was counted is kept, and found again after a crash; stopped commands end |
| cashin_cassette | `MCCashInCassette.cfg` | the file counts more notes than were stacked |
| persistent | `MCPersistent.cfg` | the file says what the service believes, and beyond it only the notes of resets; neither a crash nor the start after it loses a note; an unreadable file comes only of a fault |
| persistent_types | `MCPersistentTypes.cfg` | a disabled type of notes is still accepted |
| driver | `MCDriver.cfg` | no order is reported as done for the answer of another; an acknowledgement is recognised; every call returns; a port that is back is found |
| driver_attempts | `MCDriverAttempts.cfg` | after one lost and restored port the next error is reported without further attempts |

Each `pass` run also checks the type invariant of its module.

Bounds.

* Queue: two clients, one with two commands and one with one, so that
  commands of one client and of two compete, and a command is queued behind, in
  front of and beside a withdrawn one; every command is sent at most once.
* Sessions (240,000 states): two connections, the first of which may stop reading and the
  second of which may be the publisher's; two messages, so that one connection
  handles a message beside the answer to the one before, or two clients
  compete for the main thread, the queue thread and the io thread; one event,
  to either connection. A second one doubles the states and changes no writer; the
  theorems hold for any number.
* StateMachine (131,000 states): three states, a command that cancels itself on one
  state and skips old ones, and the inhibit manager, which waits again;
  `MaxUid = 3` changes with a history of three, which forgets its first state.
* CashIn (1,021,000 states): `MaxNotes = 2`, `MaxCommands = 4`, `MaxCrashes = 1`,
  `Capacity = 1`, item limit 2, so that a note is counted by two commands, a
  third count is refused for the limit, a note is stacked under another command
  than the one that counted it, jams and is put into the cassette by a reset, and
  the cassette is full at first or after one deposit.
* Persistent (5,484,000 states): two types of notes, alike (symmetry; it has no liveness
  property), two notes, three commands (open, deposit, one more; or a reset with a jam
  before or after), two faults: a write that fails and a crash later, or a crash during
  or after the restart.
* Driver (140,000 states): two callers, two attempts (four in the code), a counter of
  four values (sixteen), so that it returns; two faults, as a late answer whose
  successor is lost. `OkMeansDone` needs `faults + 1 < Modulus` (proved, and tight:
  with three values and two faults TLC finds an order reported as done for the answer
  of another). `PortAttempts` is 0 (ten), and 2 in the
  violation run, where the second round must find the count used up.

`CHECK_DEADLOCK FALSE` is set in every config: with its commands served and its
bounds used up a run may stop, and a queue thread that has died or lost its
wake-up, or a connection held by a client that does not read, really does.

Each property is shown to depend on the code by a mutant: a variant of one
definition, marked `Mutant:` in the modules, under which TLC finds the property
violated.

## 4. Fairness

`CommandQueue`: weak fairness of the queue thread's own steps and of the main
thread inside a critical section, since both threads keep running. Nothing is
assumed of clients, and that a handler ends is a hypothesis of
`ServedUnlessHalted`, not an assumption.

`Sessions`: weak fairness of each coroutine, of the end of a write and of the queue
thread's writing. That the queue takes commands and that handlers return are
hypotheses of `AckedIsAnswered`; nothing is assumed of clients.

`StateMachine`: weak fairness of a `ChangeState` once begun, strong fairness of the
waiting threads, because `m_state_mtx` is free again and again and an operating
system's mutex does not starve a thread for ever; none for new states of the
device or for cancellation.

`CashIn`: weak fairness of the queue thread and of a write the polling thread
has begun; none for client, validator or polling thread. The waits of CashInEnd
and Reset end by their time limits; that of CashIn has none to speak of, which
is why `StopEndsCommand` matters.

`Persistent`: none; a crash may come at any time, and nothing is claimed to
happen.

`Driver`: weak fairness of the executor (its time limit included), the monitor, a
caller with its answer, and a validator that has a request and is there; strong
fairness of the polling thread's `Poll`, because the queue thread gives a few
orders and then waits for a state that only the polling thread sees, so that
`m_portMutex` is free again and again. The monitor and the executor need no more,
as neither waits while holding what the other needs.

## 5. Proofs

Eight modules of theorems, each for every value of the constants that the
module's own `ASSUME` allows; no other assumption. Six of them prove
`Spec => []IInv` from `InitIInv` and `NextIInv` (or `NextKeeps`), one lemma per action
or group of actions, and take the properties from `IInv`; `CashInRefinement` and
`DriverAnswerProofs` go on from there. Why the checked
invariants are not enough by themselves:

* `CommandQueueProofs`. That no wake-up is missing depends on where the queue
  thread and the main thread are: `IInv` adds what is current at which step of
  `RunAsync`, that a registered waiter excludes a signal, and what a withdrawal
  still has to do. Proved: all invariants of the run `queue`,
  `OnlyConnectedServed`, and `QueueImplementsService` (`Spec => ServiceSpec`, by
  `StepRefines`: each step of the queue is a step of `CommandService` or a
  stutter).
* `SessionsProofs`. `MessageInv` ties each message to the one connection that
  handles it, and `ToldInv` what its client was told to where it is: in a
  coroutine, in the queue, on the queue thread, or answered. `FreshInv` says
  that a message not yet sent is nowhere, `RouteInv` that the publisher's
  connections own nothing queued, `RemovalInv` that whoever is removed has
  withdrawn its commands. Proved: `AckThenOneAnswer`, `NoCommandOfRemoved`,
  `WritesMeet`. `Sessions` conjoins its steps with those of `CommandService`, whose guards could
  hide a step the code would take. `SessionsQueueReady` shows that they do not: with
  `AnswerInv` (an unserved command has no answer, one that was served has) a coroutine
  always finds the command it queues new, the queue thread its own where it left it. And
  `SessionsServed` (`Spec => Queue!Spec`) says that nothing but the queue answers its
  commands: the rest of the server leaves the abstract queue alone (`QueueLeft`).
* `StateMachineProofs`. An outcome found in the history must have been completed
  no earlier than the call, unless the history no longer reaches back that far:
  `KnownInv` says so of every outcome a waiting thread holds, `HistoryInv` that no
  more states are remembered than there have been, and
  `ShiftKeepsKnown` that `KnownInv` survives the forgetting of the oldest state. `CallInv`
  describes the thread inside `BlockedWait`. Proved: `NoStaleEvent`,
  `HandlersOnlySubscribed`.
* `CashInProofs`. The accounts of memory and file agree unless one of three things is going
  on (`DiskInv`): the polling thread is about to save, CashInStart is opening,
  CashInEnd is depositing. It needs `SaveInv` (what the polling thread will
  write is the present transaction, because `mutex_` keeps the others out),
  `FileInv` and `OpeningInv` (where the command is), and `JamInv`: a Reset that
  found its jammed note stacked is alone with the accounts until it is over: an order to
  stack given before comes to nothing, so that the polling thread counts no further
  note. `InhibitingInv` follows `_inhibit` between its order and its cache, and with the
  types is all that `MisledOnlyByLostAnswer` needs. Proved: `AcceptedCounted`,
  `MisledOnlyByLostAnswer`, `CrashRecovered`, and `CountsKept`, which no run checks by itself
  since `TransactionKept` does.
* `CashInRefinement`. `CashInImplementsTransaction` is `Spec => TransactionKept`. A crash
  puts the file in the place of memory, so the map of a crash to `Restart` needs to know
  what the file says in every state: `FileOfNow` (the transaction of now, but
  for one note while the polling thread saves), `DepositCounted` (in a deposit, no more notes
  than were counted) and `CommandInv` (a CashIn or CashInEnd is in an active
  transaction, which makes the steps of `CashInEnd` `Deposit` and `Close`). Together they
  are `TInv`, which is inductive with `IInv`; `Simulated` is what every action is shown to
  do, by `QuietStep` for those the client does not see.
* `PersistentProofs`. `MutexInv` says who may be writing, `TornInv` that an
  unreadable file is one being written or one after a fault, `OwnedInv` which thread saves which
  entry and that it saves what is believed, `ShapeInv` the order of what is still
  to be saved, `RecordedInv` what the file says of every entry nobody is about to
  write and a start has read (`Unread`): for the notes of the cassette, those in memory
  with those of resets (`strays`). `KeptInv` says that the file knows the notes of an open
  transaction, but for one on its way, until the deposit has recorded them
  (`Depositing`), and no fewer notes of the cassette than memory. Proved: `RecordedUnlessPending`,
  `RenewedOnlyByFault`, `CrashKeepsNotes`.
* `DriverProofs`. `OneCall`: one caller is in the driver at a time, from the task to the
  callback and until it has looked at its answer (`m_portMutex`); `OwnAnswer`:
  a frame of this attempt carries the counter of the port; `TriesLeft` bounds the attempts.
  Proved: `AckRecognised`.
* `DriverAnswerProofs`. An answer of an earlier call can be taken for the present one only if
  the counter has gone once round in between. `LagInv` counts: what is on the line and with
  the validator (`OnTheWay`), each by its place and by how many commands ago it was
  asked for (`Age`), lags no more than the faults so far have paid for (`Budget`). The
  difficulty is the monitor: it closes a lost port under a command, so that one
  fault may fail several attempts (`Closures`, what of it is still to come). `HeldInv` follows an
  old answer to the caller that holds it, `PortInv` ties line, validator, port and
  monitor. Proved: `DriverOkMeansDone`, `OkMeansDone` as long as
  `faults + 1 < Modulus`. Faults are counted from the start, though a lost answer or a closed port may take
  the delay away again; with the code's sixteen values the theorem speaks of up to fourteen.

Every module's `TypeOK` is proved too. Only model-checked:

* all liveness properties (`ServedUnlessHalted`, `AckedIsAnswered`, `EndsWhenAsked`,
  `CancelEndsWait`, `EventEndsRegisteredWait`, `StopEndsCommand`,
  `EveryCallReturns`, `PollsAgain`): liveness under fairness is beyond the prover;
* `OkMeansDone` with more faults than the theorem speaks of: there it is false, as TLC
  finds with a counter of three values.

## 6. What is not claimed, and what is not modelled

Where the code does not do what one may expect of it and the models show it,
beside the five violation runs:

* A stopped command is answered as an internal error: the exception is stored in a
  variable that hides the one that is read (`CommandQueue.cpp:216`).
* An event between a wait's look at the history and its registration is lost to it
  (`StateMachine.hpp:344`); `EventEndsRegisteredWait` begins after it.
* `Reset` clears the accepted items and leaves the transaction open
  (`CashAcceptorSample.cpp:2177`).
* After a reset of the validator the cache may say "allowed" of a validator that
  has been disabled (`NotesInhibitManager.cpp:236`).
* The other direction matters for the customer's notes. When the order to accept them is
  carried out and its answer lost, `_allow` leaves the cache at "forbidden", `CashIn` ends with an
  error (`ExecuteCashIn.cpp:82-88`), and the next `_inhibit` returns at
  `NotesInhibitManager.cpp:116`, whose comment says that acceptance is forbidden already,
  while the validator takes notes. `MisledOnlyByLostAnswer` claims that there is no other way.
* A jammed note that `Reset` stacks is recorded in the file (`PowerUpManager.cpp:203`) and
  not added to `unitCount_`: the count of the cassette is too small until the next start.
* A deposit may be overwritten by a save of the polling thread that has read the
  file before (`PersistentDatasHandler.cpp:77`); the properties of `Persistent` exempt it
  by `mishap`.
* A start that finds an open transaction saves its status before it reads the counts
  (`EscrowManager.cpp:144-195`): a write that fails there loses them, in the file and in memory
  (`Started` after `WriteFails`; `CrashKeepsNotes` exempts it by `mishap`).
* A file torn by a crash is replaced by an empty one: the copy made beforehand is not read
  again, and `isValid` is always true (`PersistentDatasHandler.cpp:241`).
* The signal handler sets a stop token and wakes no pending read, accept or sleeping
  queue thread (`XFS4IoT.cpp:229-235`); `EndsWhenAsked` claims the rest.
* After one late answer every `Poll` reads the answer of the call before
  (`DevicePort.cpp:170`): states are seen one turn late until an answer is lost.
  Orders are not affected within the bound of `DriverOkMeansDone`.

Not modelled, and why:

* Message schemas, JSON, logging with its compression, settings and the vendored
  libraries: data classes and conversions, no control state. They are most of the
  repository's lines.
* Common service: registration of commands is a table built at start, capabilities
  and statuses are read. `SetVersions` applies a message's versions one by one and
  stops at the first it does not know, on one thread, with no state but the
  connection's table.
* Storage service: its units are never constructed (`ConstructCashUnits` has no
  caller), so that every operation on them finds nothing; the count of the cassette
  that CashAcceptorSample keeps is in `CashIn` and `Persistent`.
* Executors named `XFS3_...` and `CashInRollback`: not reachable from a registered
  command.
* Start-up: finding the serial port (`SearchDevices`) and a free websocket port, before
  any other thread runs.
* Of the dispatcher: the timer, a local of `Dispatch` that is destroyed before it
  could fire for a queued command, and `DispatchError`, since nothing raises what it is for.
* Of the queue: the withdrawal of single requests by their ids, which nobody asks for.
* Of the driver: bytes and CRC of a frame, `StopExecutor` (called when the process
  ends), `Reboot` (it compares with a counter that never moves), and the one state byte that
  `Poll_State` takes for a port error, should the validator report it.
* Of the cash acceptor: what the paragraph on abstractions above names.

## 7. What is left

* The two sequences of `PowerUpManager` that start from a rejected note, and the cassette
  that is missing or replaced: new states of `dev` in `CashIn`, whose run is near its
  limit of time; a module of `Reset` alone would carry them.
* A refinement from `CashIn`'s file to `Persistent`, which would need the three
  updates of `SaveTransactionStatus` apart in `CashIn`.
