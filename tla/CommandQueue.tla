-------------------------- MODULE CommandQueue --------------------------
(***************************************************************************)
(* framework/server/CommandQueue: the queue of the non-async commands of   *)
(* one service.  Two threads touch it.  The main thread runs the           *)
(* coroutines of every client connection: it enqueues commands, and when   *)
(* a connection ends it cancels the commands that connection left behind.  *)
(* The queue thread runs RunAsync: it waits for an item, executes its      *)
(* handler and turns to the next one.                                      *)
(*                                                                         *)
(* The grain is that of the two mutexes: syncMutex_ guards contents_ and   *)
(* currentCommand_, the mutex_ of AsyncAutoResetEvent guards signaled_ and *)
(* waiters_.  What the code does between two critical sections is a step   *)
(* of its own, in particular the start of the timer a waiter sleeps on.    *)
(* Left out: TryCancelSpecificAsync, the withdrawal of commands by their   *)
(* request ids; no caller passes any (ClientConnection.cpp:130).           *)
(***************************************************************************)
EXTENDS Naturals, Sequences, SequencesExt

CONSTANTS Connections,  \* client connections of the service
          Commands,     \* the commands they send, all of non-async handlers
          Owner,        \* the connection each command comes from
          NoCommand,    \* currentCommand_ without a value
          NoConnection  \* no connection is being cancelled

ASSUME QueueAssumption ==
    /\ Owner \in [Commands -> Connections]
    /\ NoCommand \notin Commands
    /\ NoConnection \notin Connections

VARIABLES contents,        \* contents_: accepted commands, oldest first
          current,         \* currentCommand_
          cancelRequested, \* currentCommandCancelRequested_
          stopRequested,   \* commands whose stop source was asked to stop
          signaled,        \* signaled_: set events nobody waited for
          waiter,          \* the sleeping timer of the queue thread
          queuePc,         \* where the queue thread is in RunAsync
          mainPc,          \* where the main thread is inside syncMutex_
          leaving,         \* the connection whose commands are being cancelled
          connected,       \* connections whose clean-up has not run (see Disconnect)
          answer,          \* the completion each command was given
          shutdown         \* the stop token RunAsync was started with

eventVars  == <<signaled, waiter>>
clientVars == <<connected, shutdown>>
itemVars   == <<contents, current, cancelRequested, stopRequested, answer>>
vars       == <<itemVars, eventVars, queuePc, mainPc, leaving, clientVars>>

-----------------------------------------------------------------------------

QueuePcs == {"loop",      \* at the while of RunAsync
             "wait",      \* entering WaitAsync
             "parking",   \* waiter pushed, its async_wait not started
             "parked",    \* async_wait started
             "resumed",   \* the timer was cancelled, WaitAsync goes on
             "woken",     \* WaitAsync returned
             "received",  \* ReceiveItemAsync returned the item
             "handling",  \* inside handler->Handle
             "stopSeen",  \* the item was stopped before its handler ran
             "thrown",    \* the handler threw a runtime_error
             "finish",    \* about to clear currentCommand_
             "exited",    \* RunAsync returned
             "dead"}      \* an exception ended RunAsync

(* "none": no timer; "queued": in waiters_; "popped": taken out by Set,    *)
(* which has yet to cancel it; "lost": cancelled before it was started.    *)
WaiterStates == {"none", "queued", "popped", "lost"}

Alive     == queuePc \notin {"exited", "dead"}
MutexFree == mainPc = "free"

TypeOK ==
    /\ contents \in Seq(Commands)
    /\ current \in Commands \cup {NoCommand}
    /\ cancelRequested \in BOOLEAN
    /\ stopRequested \in SUBSET Commands
    /\ signaled \in Nat
    /\ waiter \in WaiterStates
    /\ queuePc \in QueuePcs
    /\ mainPc \in {"free", "setting", "cancelling"}
    /\ leaving \in Connections \cup {NoConnection}
    /\ connected \in SUBSET Connections
    /\ answer \in [Commands -> {"none", "Result", "InternalError", "Canceled"}]
    /\ shutdown \in BOOLEAN

Init ==
    /\ contents = <<>>
    /\ current = NoCommand
    /\ cancelRequested = FALSE
    /\ stopRequested = {}
    /\ signaled = 0
    /\ waiter = "none"
    /\ queuePc = "loop"
    /\ mainPc = "free"
    /\ leaving = NoConnection
    /\ connected = Connections
    /\ answer = [cmd \in Commands |-> "none"]
    /\ shutdown = FALSE

-----------------------------------------------------------------------------
(* The main thread. *)

Unsent(cmd) ==
    /\ answer[cmd] = "none"
    /\ current # cmd
    /\ \A i \in DOMAIN contents : contents[i] # cmd

(* Mutants: Set as that of a binary event, and as one that forgets waiters_. *)
SetBinaryEvent ==
    IF waiter = "queued"
    THEN waiter' = "popped" /\ mainPc' = "setting" /\ UNCHANGED signaled
    ELSE signaled' = 1 /\ UNCHANGED <<waiter, mainPc>>

SetCountsOnly == signaled' = signaled + 1 /\ UNCHANGED <<waiter, mainPc>>

(* Set, up to the unlock of mutex_: hand the event to a waiter or count it. *)
SetEvent ==
    IF waiter = "queued"
    THEN waiter' = "popped" /\ mainPc' = "setting" /\ UNCHANGED signaled
    ELSE signaled' = signaled + 1 /\ UNCHANGED <<waiter, mainPc>>

(* Dispatch of a command whose handler is not async: the command's stop    *)
(* source starts out stopped when the service is already shutting down.    *)
EnqueueCommand(cmd) ==
    /\ MutexFree
    /\ Owner[cmd] \in connected
    /\ Unsent(cmd)
    /\ contents' = Append(contents, cmd)
    /\ stopRequested' = IF shutdown THEN stopRequested \cup {cmd} ELSE stopRequested
    /\ SetEvent
    /\ UNCHANGED <<current, cancelRequested, answer, queuePc, leaving, clientVars>>

(* The end of Set, still inside syncMutex_: cancelling a timer wakes the   *)
(* queue thread only if it has started to wait on it.                      *)
CancelWaiter ==
    /\ mainPc = "setting"
    /\ mainPc' = "free"
    /\ IF queuePc = "parked"
       THEN queuePc' = "resumed" /\ waiter' = "none"
       ELSE waiter' = "lost" /\ UNCHANGED queuePc
    /\ UNCHANGED <<itemVars, signaled, leaving, clientVars>>

(* A stop request to the command being executed. *)
StopCurrent ==
    /\ stopRequested' = stopRequested \cup {current}
    /\ cancelRequested' = TRUE

(* Mutant: RemovedItem without its test. *)
RemoveItemUncounted(i) ==
    /\ answer' = [answer EXCEPT ![contents[i]] = "Canceled"]
    /\ contents' = RemoveAt(contents, i)
    /\ signaled' = signaled - 1

(* One queued item is answered as cancelled, erased and RemovedItem.       *)
RemoveItem(i) ==
    /\ answer' = [answer EXCEPT ![contents[i]] = "Canceled"]
    /\ contents' = RemoveAt(contents, i)
    /\ signaled' = IF signaled > 0 THEN signaled - 1 ELSE signaled

(* Mutant: the clean-up looks at contents_ only. *)
DisconnectQueueOnly(c) ==
    /\ MutexFree
    /\ c \in connected
    /\ connected' = connected \ {c}
    /\ leaving' = c
    /\ mainPc' = "cancelling"
    /\ UNCHANGED <<itemVars, eventVars, queuePc, shutdown>>

(* TryCancelAllAsync(c), the clean-up after the reader of connection c has *)
(* ended: it takes syncMutex_ and first stops the running command of c.  A *)
(* reader that ends by an exception skips it: its connection sends nothing *)
(* more and stays in connected.  HandleError never suspends here, for the  *)
(* socket is closed before, so no other coroutine meets the locked mutex.  *)
Disconnect(c) ==
    /\ MutexFree
    /\ c \in connected
    /\ connected' = connected \ {c}
    /\ leaving' = c
    /\ mainPc' = "cancelling"
    /\ IF current # NoCommand /\ Owner[current] = c
       THEN StopCurrent
       ELSE UNCHANGED <<stopRequested, cancelRequested>>
    /\ UNCHANGED <<contents, current, answer, eventVars, queuePc, shutdown>>

FirstOf(i, cmds) ==
    /\ contents[i] \in cmds
    /\ \A j \in 1..(i - 1) : contents[j] \notin cmds

(* ... then, one after another, the queued items of c. *)
CancelNext ==
    /\ mainPc = "cancelling"
    /\ \E i \in DOMAIN contents :
        /\ FirstOf(i, {cmd \in Commands : Owner[cmd] = leaving})
        /\ RemoveItem(i)
    /\ UNCHANGED <<current, cancelRequested, stopRequested, waiter, queuePc,
                   mainPc, leaving, clientVars>>

CancelDone ==
    /\ mainPc = "cancelling"
    /\ \A i \in DOMAIN contents : Owner[contents[i]] # leaving
    /\ mainPc' = "free"
    /\ leaving' = NoConnection
    /\ UNCHANGED <<itemVars, eventVars, queuePc, clientVars>>

(* Ctrl+C: the stop token every RunAsync polls. *)
Shutdown ==
    /\ ~shutdown
    /\ shutdown' = TRUE
    /\ UNCHANGED <<itemVars, eventVars, queuePc, mainPc, leaving, connected>>

-----------------------------------------------------------------------------
(* The queue thread. *)

QueueStep(from, to) ==
    /\ queuePc = from
    /\ queuePc' = to
    /\ UNCHANGED <<mainPc, leaving, clientVars>>

(* The condition of the while of RunAsync. *)
LoopTest ==
    /\ QueueStep("loop", IF shutdown THEN "exited" ELSE "wait")
    /\ UNCHANGED <<itemVars, eventVars>>

(* Mutant: WaitAsync sleeps without a look at signaled_. *)
EnterWaitBlindly ==
    /\ \/ shutdown /\ QueueStep("wait", "dead") /\ UNCHANGED waiter
       \/ ~shutdown /\ waiter' = "queued" /\ QueueStep("wait", "parking")
    /\ UNCHANGED <<itemVars, signaled>>

(* WaitAsync inside mutex_: throw, take a counted event, or push a waiter. *)
EnterWait ==
    /\ \/ /\ shutdown
          /\ QueueStep("wait", "dead")
          /\ UNCHANGED eventVars
       \/ /\ ~shutdown
          /\ signaled > 0
          /\ signaled' = signaled - 1
          /\ QueueStep("wait", "woken")
          /\ UNCHANGED waiter
       \/ /\ ~shutdown
          /\ signaled = 0
          /\ waiter' = "queued"
          /\ QueueStep("wait", "parking")
          /\ UNCHANGED signaled
    /\ UNCHANGED itemVars

(* async_wait, after mutex_ was released. *)
StartTimer ==
    /\ QueueStep("parking", "parked")
    /\ UNCHANGED <<itemVars, eventVars>>

(* WaitAsync after the timer was cancelled: the token is tested again. *)
LeaveWait ==
    /\ QueueStep("resumed", IF shutdown THEN "dead" ELSE "woken")
    /\ UNCHANGED <<itemVars, eventVars>>

(* Mutant: the newest item is taken. *)
ReceiveNewest ==
    /\ MutexFree
    /\ IF contents = <<>> \/ current # NoCommand
       THEN QueueStep("woken", "dead") /\ UNCHANGED <<contents, current>>
       ELSE /\ QueueStep("woken", "received")
            /\ current' = Last(contents)
            /\ contents' = Front(contents)
    /\ UNCHANGED <<cancelRequested, stopRequested, answer, eventVars>>

(* ReceiveItemAsync inside syncMutex_; either check throws out of RunAsync. *)
ReceiveItem ==
    /\ MutexFree
    /\ IF contents = <<>> \/ current # NoCommand
       THEN QueueStep("woken", "dead") /\ UNCHANGED <<contents, current>>
       ELSE /\ QueueStep("woken", "received")
            /\ current' = Head(contents)
            /\ contents' = Tail(contents)
    /\ UNCHANGED <<cancelRequested, stopRequested, answer, eventVars>>

(* RunAsync throws for an item that was stopped, else enters its handler. *)
StartHandler ==
    /\ QueueStep("received", IF current \in stopRequested THEN "stopSeen" ELSE "handling")
    /\ UNCHANGED <<itemVars, eventVars>>

(* The handler sent its completion and returned. *)
HandlerReturns ==
    /\ QueueStep("handling", "finish")
    /\ answer' = [answer EXCEPT ![current] = "Result"]
    /\ UNCHANGED <<contents, current, cancelRequested, stopRequested, eventVars>>

(* The handler threw before it answered: a runtime_error is caught, any    *)
(* other exception is rethrown inside the catch block and ends RunAsync.   *)
HandlerThrows ==
    /\ \E to \in {"thrown", "dead"} : QueueStep("handling", to)
    /\ UNCHANGED <<itemVars, eventVars>>

(* Mutant: after an error the loop goes on without clearing the command. *)
ReportErrorAndContinue ==
    /\ \E from \in {"stopSeen", "thrown"} : QueueStep(from, "loop")
    /\ answer' = [answer EXCEPT ![current] = "InternalError"]
    /\ UNCHANGED <<contents, current, cancelRequested, stopRequested, eventVars>>

(* HandleError with the outer exPtr, which the catch block never assigned: *)
(* the completion code is the one of no exception at all.                  *)
ReportError ==
    /\ \E from \in {"stopSeen", "thrown"} : QueueStep(from, "finish")
    /\ answer' = [answer EXCEPT ![current] = "InternalError"]
    /\ UNCHANGED <<contents, current, cancelRequested, stopRequested, eventVars>>

(* Mutant: the flag is left as it is. *)
FinishItemKeepFlag ==
    /\ MutexFree
    /\ QueueStep("finish", "loop")
    /\ current' = NoCommand
    /\ UNCHANGED <<contents, cancelRequested, stopRequested, answer, eventVars>>

(* currentCommand_ and its flag are cleared inside syncMutex_. *)
FinishItem ==
    /\ MutexFree
    /\ QueueStep("finish", "loop")
    /\ current' = NoCommand
    /\ cancelRequested' = FALSE
    /\ UNCHANGED <<contents, stopRequested, answer, eventVars>>

-----------------------------------------------------------------------------

MainStep ==
    \/ \E cmd \in Commands : EnqueueCommand(cmd)
    \/ CancelWaiter
    \/ \E c \in Connections : Disconnect(c)
    \/ CancelNext
    \/ CancelDone
    \/ Shutdown

QueueThread ==
    \/ LoopTest
    \/ EnterWait
    \/ StartTimer
    \/ LeaveWait
    \/ ReceiveItem
    \/ StartHandler
    \/ HandlerReturns
    \/ HandlerThrows
    \/ ReportError
    \/ FinishItem

Next == MainStep \/ QueueThread

Spec == Init /\ [][Next]_vars

(* What the queue thread does by itself, outside of handlers. *)
QueueOwnStep ==
    LoopTest \/ EnterWait \/ StartTimer \/ LeaveWait \/ ReceiveItem
        \/ StartHandler \/ ReportError \/ FinishItem

(* Both threads keep running once they are inside the queue's code.  Not   *)
(* assumed: that a client sends or leaves, that Ctrl+C comes, that a       *)
(* handler ever returns (CashIn waits for a banknote without a limit).     *)
FairSpec ==
    /\ Spec
    /\ WF_vars(CancelWaiter \/ CancelNext \/ CancelDone)
    /\ WF_vars(QueueOwnStep)

-----------------------------------------------------------------------------
(* Properties. *)

Queued(cmd) == \E i \in DOMAIN contents : contents[i] = cmd

(* Set handed its event to the queue thread, which has not received an     *)
(* item for it yet; a lost wake-up stays in this state for ever.           *)
WakeupInFlight == waiter \in {"popped", "lost"} \/ queuePc \in {"resumed", "woken"}

Signals == signaled + (IF WakeupInFlight THEN 1 ELSE 0)

(* As long as RunAsync runs, every queued command has an event of its own, *)
(* counted or in flight, however enqueues, cancellations and waits         *)
(* interleave; and cancellation leaves at most one event too many          *)
(* (EnqueueCommandAsync, RemovedItem, WaitAsync, ReceiveItemAsync).        *)
SignalsCoverCommands ==
    Alive => Len(contents) <= Signals /\ Signals <= Len(contents) + 1

(* While the queue thread's timer sits in waiters_ nothing is queued: it   *)
(* never goes to sleep beside a command.                                   *)
SleepsOnlyWithoutWork == waiter = "queued" => contents = <<>>

(* The cancel flag never outlives the command it was raised for: whenever  *)
(* it is set, the current command was itself asked to stop.                *)
CancelFlagOfCurrent == cancelRequested => current \in stopRequested

(* ReceiveItemAsync throws "CurrentCommand expected to be null": it never  *)
(* has to, the previous command is always cleared before the next wait.    *)
NothingCurrentWhenWoken == queuePc \in {"wait", "parking", "parked", "woken"} => current = NoCommand

(* Once the clean-up of a connection has begun, no command of its client   *)
(* is handed to its handler: it was removed from the queue, or stopped     *)
(* before the handler started (TryCancelAllAsync, RunAsync).               *)
OnlyConnectedServed ==
    [][queuePc = "received" /\ queuePc' = "handling" => Owner[current] \in connected]_vars

(* The queue implements the service it promises: one command at a time, in *)
(* the order of arrival, one answer each, withdrawn commands never served. *)
Service == INSTANCE CommandService WITH pending <- contents, serving <- current
ServiceSpec == Service!Spec

(* If no handler runs for ever, a queued command is taken or cancelled,    *)
(* unless RunAsync has ended or its wake-up was lost.                      *)
Halted == ~Alive \/ waiter = "lost"

ServedUnlessHalted ==
    \A cmd \in Commands :
        []<>(queuePc # "handling") => (Queued(cmd) ~> (~Queued(cmd) \/ Halted))

(* The check of ReceiveItemAsync (CommandQueue.cpp:170): after an event    *)
(* there is an item.                                                       *)
WokenFindsItem == queuePc = "woken" /\ MutexFree => contents # <<>>

(* A waiter that Set takes out of waiters_ goes on to receive its item.    *)
SetWakesWaiter == waiter = "popped" ~> (queuePc = "woken" \/ ~Alive)

=============================================================================
