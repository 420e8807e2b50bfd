----------------------- MODULE CommandQueueProofs -----------------------
(***************************************************************************)
(* Proofs about CommandQueue, for any number of connections and commands.  *)
(***************************************************************************)
EXTENDS CommandQueue, TLAPS

(* The inductive invariant: what each program point of the two threads     *)
(* knows of the data.                                                      *)

(* The waiter's timer, its place in waiters_ and the two threads.          *)
WaiterInv ==
    /\ waiter = "none" <=> queuePc \notin {"parking", "parked"}
    /\ waiter = "popped" <=> mainPc = "setting"
    /\ waiter = "queued" => signaled = 0

(* currentCommand_ and its answer follow the queue thread.                 *)
CurrentInv ==
    /\ queuePc \in {"received", "handling", "stopSeen", "thrown", "finish"}
         => current \in Commands
    /\ queuePc \notin {"received", "handling", "stopSeen", "thrown", "finish", "dead"}
         => current = NoCommand
    /\ queuePc \in {"received", "handling", "stopSeen", "thrown"} => answer[current] = "none"
    /\ queuePc = "finish" => answer[current] # "none"
    /\ cancelRequested => current \in stopRequested

(* A command is in one place only, and unanswered while it is queued.      *)
ContentsInv ==
    /\ \A i, j \in DOMAIN contents : contents[i] = contents[j] => i = j
    /\ \A i \in DOMAIN contents : contents[i] # current /\ answer[contents[i]] = "none"

(* What a client that left can still have in the queue.                    *)
OwnerInv ==
    /\ mainPc = "cancelling" => leaving \in Connections
    /\ \A i \in DOMAIN contents :
          \/ Owner[contents[i]] \in connected
          \/ mainPc = "cancelling" /\ Owner[contents[i]] = leaving
    /\ current \in Commands => Owner[current] \in connected \/ current \in stopRequested

IInv == TypeOK /\ WaiterInv /\ CurrentInv /\ ContentsInv /\ OwnerInv /\ SignalsCoverCommands

-----------------------------------------------------------------------------

(* Erasing an item from contents_ keeps the others, in their order. *)
LEMMA RemoveAtFacts ==
    ASSUME NEW S, NEW s \in Seq(S), NEW i \in DOMAIN s
    PROVE  /\ RemoveAt(s, i) \in Seq(S)
           /\ Len(RemoveAt(s, i)) = Len(s) - 1
           /\ \A j \in DOMAIN RemoveAt(s, i) :
                /\ j \in Nat /\ j + 1 \in DOMAIN s /\ j \in DOMAIN s
                /\ RemoveAt(s, i)[j] = IF j < i THEN s[j] ELSE s[j + 1]
<1> DEFINE l == SubSeq(s, 1, i - 1)
           r == SubSeq(s, i + 1, Len(s))
<1>1. i \in 1..Len(s) /\ Len(s) \in Nat
  OBVIOUS
<1>2. l \in Seq(S) /\ Len(l) = i - 1 /\ \A j \in 1..(i - 1) : l[j] = s[j]
  BY <1>1
<1>3. r \in Seq(S) /\ Len(r) = Len(s) - i /\ \A j \in 1..(Len(s) - i) : r[j] = s[i + j]
  BY <1>1
<1>4. RemoveAt(s, i) = l \o r
  BY DEF RemoveAt
<1> HIDE DEF l, r
<1>5. QED
  BY <1>1, <1>2, <1>3, <1>4

(* The conjuncts of IInv that speak of contents survive the removal of one *)
(* item that is then answered.                                             *)
LEMMA RemoveItemKeeps ==
    ASSUME IInv, NEW i \in DOMAIN contents, RemoveItem(i), MutexFree \/ mainPc = "cancelling",
           UNCHANGED <<current, waiter, queuePc, mainPc, leaving, connected, shutdown>>,
           \/ UNCHANGED <<stopRequested, cancelRequested>>
           \/ StopCurrent /\ current \in Commands
    PROVE  IInv'
<1> USE QueueAssumption DEF IInv
<1> DEFINE rest == RemoveAt(contents, i)
<1>1. /\ rest \in Seq(Commands)
      /\ Len(rest) = Len(contents) - 1
      /\ \A j \in DOMAIN rest :
            /\ j \in Nat /\ j + 1 \in DOMAIN contents /\ j \in DOMAIN contents
            /\ rest[j] = IF j < i THEN contents[j] ELSE contents[j + 1]
  BY RemoveAtFacts DEF TypeOK
<1>2. contents' = rest /\ answer' = [answer EXCEPT ![contents[i]] = "Canceled"]
  BY DEF RemoveItem
<1>3. i \in 1..Len(contents) /\ Len(contents) \in Nat /\ contents[i] \in Commands
  BY DEF TypeOK
<1> HIDE DEF rest
<1>4. TypeOK'
  <2>1. contents' \in Seq(Commands) /\ signaled' \in Nat
    BY <1>1, <1>2 DEF TypeOK, RemoveItem
  <2>2. answer' \in [Commands -> {"none", "Result", "InternalError", "Canceled"}]
    BY <1>2, <1>3 DEF TypeOK
  <2>3. stopRequested' \in SUBSET Commands
    BY DEF TypeOK, StopCurrent
  <2>4. cancelRequested' \in BOOLEAN
    BY Zenon DEF TypeOK, StopCurrent
  <2>5. QED
    BY <2>1, <2>2, <2>3, <2>4 DEF TypeOK
<1>5. WaiterInv'
  BY DEF WaiterInv, RemoveItem, TypeOK
<1>6. contents[i] # current
  BY DEF ContentsInv
<1>7. CurrentInv'
  BY <1>2, <1>3, <1>6 DEF CurrentInv, TypeOK, StopCurrent
<1>8. \A j \in DOMAIN rest : rest[j] \in Commands /\ rest[j] # contents[i]
  BY <1>1, <1>3 DEF ContentsInv
<1>9. ContentsInv'
  <2>1. ASSUME NEW j \in DOMAIN rest, NEW k \in DOMAIN rest, rest[j] = rest[k]
        PROVE  j = k
    BY <1>1, <1>3, <2>1 DEF ContentsInv
  <2>2. ASSUME NEW j \in DOMAIN rest
        PROVE  rest[j] # current /\ answer'[rest[j]] = "none"
    BY <1>1, <1>2, <1>8 DEF ContentsInv, TypeOK
  <2>3. QED
    BY <1>2, <2>1, <2>2 DEF ContentsInv
<1>10. OwnerInv'
  <2>1. ASSUME NEW j \in DOMAIN rest
        PROVE  \E k \in DOMAIN contents : rest[j] = contents[k]
    BY <1>1
  <2>2. QED
    BY <1>2, <2>1 DEF OwnerInv, StopCurrent
<1>11. SignalsCoverCommands'
  BY <1>1, <1>2, <1>3 DEF SignalsCoverCommands, Signals, WakeupInFlight, Alive, RemoveItem, TypeOK
<1>12. QED
  BY <1>4, <1>5, <1>7, <1>9, <1>10, <1>11

(* The state the constructor of CommandQueue leaves. *)
LEMMA InitIInv == Init => IInv
<1> SUFFICES ASSUME Init PROVE IInv
  OBVIOUS
<1> USE QueueAssumption DEF Init
<1>1. TypeOK
  <2>1. cancelRequested \in BOOLEAN /\ shutdown \in BOOLEAN
    BY Zenon
  <2>2. QED
    BY <2>1 DEF TypeOK, QueuePcs, WaiterStates
<1>2. WaiterInv /\ CurrentInv
  <2>1. ~cancelRequested
    BY Zenon
  <2>2. WaiterInv
    BY DEF WaiterInv
  <2>3. CurrentInv
    BY <2>1 DEF CurrentInv
  <2>4. QED
    BY <2>2, <2>3
<1>3. ContentsInv /\ OwnerInv
  BY DEF ContentsInv, OwnerInv
<1>4. SignalsCoverCommands
  BY DEF SignalsCoverCommands, Signals, WakeupInFlight
<1>5. QED
  BY <1>1, <1>2, <1>3, <1>4 DEF IInv

(* A new command is at the end, unanswered, with the event Set adds. *)
LEMMA EnqueueKeeps ==
    ASSUME IInv, NEW cmd \in Commands, EnqueueCommand(cmd)
    PROVE  IInv'
<1> USE QueueAssumption DEF IInv, EnqueueCommand
<1>1. /\ contents' = Append(contents, cmd)
      /\ Len(contents') = Len(contents) + 1
      /\ DOMAIN contents = 1..Len(contents) /\ DOMAIN contents' = 1..(Len(contents) + 1)
      /\ contents'[Len(contents) + 1] = cmd
      /\ \A i \in 1..Len(contents) : contents'[i] = contents[i]
  BY DEF TypeOK
<1>2. TypeOK'
  BY DEF TypeOK, SetEvent, MutexFree, WaiterStates, clientVars
<1>3. WaiterInv'
  BY DEF TypeOK, WaiterInv, SetEvent, MutexFree
<1>4. CurrentInv'
  BY DEF CurrentInv
<1>5. ContentsInv'
  BY <1>1 DEF ContentsInv, Unsent, TypeOK
<1>6. OwnerInv'
  <2>1. mainPc' \in {"free", "setting"}
    BY DEF SetEvent, MutexFree
  <2>2. \A i \in DOMAIN contents : Owner[contents[i]] \in connected
    BY DEF OwnerInv, MutexFree
  <2>3. \A i \in DOMAIN contents' : Owner[contents'[i]] \in connected'
    BY <1>1, <2>2 DEF clientVars
  <2>4. current' \in Commands => Owner[current'] \in connected' \/ current' \in stopRequested'
    BY DEF OwnerInv, clientVars
  <2>5. QED
    BY <2>1, <2>3, <2>4 DEF OwnerInv
<1>7. SignalsCoverCommands'
  BY <1>1 DEF SignalsCoverCommands, Signals, WakeupInFlight, Alive, SetEvent, TypeOK, WaiterInv
<1>8. QED
  BY <1>2, <1>3, <1>4, <1>5, <1>6, <1>7

(* ReceiveItemAsync uses up the event in flight together with the item, or *)
(* ends RunAsync; events left over by a cancellation end it.               *)
LEMMA ReceiveKeeps ==
    ASSUME IInv, ReceiveItem
    PROVE  IInv'
<1> USE QueueAssumption DEF IInv, ReceiveItem, QueueStep, eventVars, clientVars
<1>1. CASE contents = <<>> \/ current # NoCommand
  BY <1>1 DEF TypeOK, QueuePcs, WaiterInv, CurrentInv, ContentsInv, OwnerInv, SignalsCoverCommands, Alive
<1>2. CASE ~(contents = <<>> \/ current # NoCommand)
  <2>1. /\ contents' = Tail(contents) /\ current' = contents[1]
        /\ contents' \in Seq(Commands) /\ Len(contents') = Len(contents) - 1
        /\ 1 \in DOMAIN contents /\ current' \in Commands
        /\ \A i \in DOMAIN contents' : i + 1 \in DOMAIN contents /\ contents'[i] = contents[i + 1]
    <3>1. contents \in Seq(Commands) /\ contents # <<>>
      BY <1>2 DEF TypeOK
    <3>2. contents' = Tail(contents) /\ current' = Head(contents)
      BY <1>2
    <3>3. QED
      BY <3>1, <3>2
  <2>2. TypeOK'
    BY <1>2, <2>1 DEF TypeOK, QueuePcs
  <2>3. WaiterInv'
    BY <1>2 DEF WaiterInv
  <2>4. CurrentInv'
    BY <1>2, <2>1 DEF CurrentInv, ContentsInv, TypeOK
  <2>5. ContentsInv'
    BY <1>2, <2>1 DEF ContentsInv, TypeOK
  <2>6. OwnerInv'
    BY <1>2, <2>1 DEF OwnerInv, MutexFree
  <2>7. SignalsCoverCommands'
    BY <1>2, <2>1 DEF SignalsCoverCommands, Signals, WakeupInFlight, Alive, TypeOK, WaiterInv
  <2>8. QED
    BY <2>2, <2>3, <2>4, <2>5, <2>6, <2>7
<1>3. QED
  BY <1>1, <1>2

(* Every step of the two threads preserves the invariant. *)
LEMMA NextKeeps == IInv /\ [Next]_vars => IInv'
<1> SUFFICES ASSUME IInv, [Next]_vars PROVE IInv'
  OBVIOUS
<1> USE QueueAssumption
<1> USE DEF IInv, TypeOK, WaiterInv, CurrentInv, ContentsInv, OwnerInv, SignalsCoverCommands,
            Signals, WakeupInFlight, Alive, QueuePcs, WaiterStates,
            itemVars, eventVars, clientVars
<1>1. ASSUME NEW cmd \in Commands, EnqueueCommand(cmd) PROVE IInv'
  BY <1>1, EnqueueKeeps
<1>2. ASSUME NEW c \in Connections, Disconnect(c) PROVE IInv'
  BY <1>2 DEF Disconnect, StopCurrent, MutexFree
<1>3. CASE CancelNext
  BY <1>3, RemoveItemKeeps DEF CancelNext
<1>4. CASE ReceiveItem
  BY <1>4, ReceiveKeeps
<1>5. CASE CancelWaiter
  BY <1>5 DEF CancelWaiter
<1>6. CASE CancelDone
  BY <1>6 DEF CancelDone
<1>7. CASE Shutdown
  BY <1>7 DEF Shutdown
<1>8. CASE LoopTest
  BY <1>8 DEF LoopTest, QueueStep
<1>9. CASE EnterWait
  <2>1. CASE queuePc' = "dead" /\ UNCHANGED eventVars
    BY <1>9, <2>1 DEF EnterWait, QueueStep
  <2>2. CASE signaled > 0 /\ signaled' = signaled - 1 /\ queuePc' = "woken" /\ UNCHANGED waiter
    BY <1>9, <2>2 DEF EnterWait, QueueStep
  <2>3. CASE signaled = 0 /\ waiter' = "queued" /\ queuePc' = "parking" /\ UNCHANGED signaled
    BY <1>9, <2>3 DEF EnterWait, QueueStep
  <2>4. QED
    BY <1>9, <2>1, <2>2, <2>3 DEF EnterWait, QueueStep
<1>10. CASE StartTimer
  BY <1>10 DEF StartTimer, QueueStep
<1>11. CASE LeaveWait
  BY <1>11 DEF LeaveWait, QueueStep
<1>12. CASE StartHandler
  BY <1>12 DEF StartHandler, QueueStep
<1>13. CASE HandlerReturns
  BY <1>13 DEF HandlerReturns, QueueStep
<1>14. CASE HandlerThrows
  BY <1>14 DEF HandlerThrows, QueueStep
<1>15. CASE ReportError
  BY <1>15 DEF ReportError, QueueStep
<1>16. CASE FinishItem
  <2>1. ~cancelRequested' /\ cancelRequested' \in BOOLEAN
    BY <1>16, Zenon DEF FinishItem
  <2>2. QED
    BY <1>16, <2>1 DEF FinishItem, QueueStep, MutexFree
<1>17. CASE UNCHANGED vars
  BY <1>17 DEF vars
<1>18. QED
  BY <1>1, <1>2, <1>3, <1>4, <1>5, <1>6, <1>7, <1>8, <1>9, <1>10, <1>11, <1>12, <1>13, <1>14, <1>15, <1>16, <1>17 DEF Next, MainStep, QueueThread

(* The inductive invariant holds in every reachable state. *)
THEOREM InductiveInvariant == Spec => []IInv
<1>1. Init => IInv
  BY InitIInv
<1>2. IInv /\ [Next]_vars => IInv'
  BY NextKeeps
<1>3. QED
  BY <1>1, <1>2, PTL DEF Spec

(* Types of the queue's state, for any set of connections and commands. *)
THEOREM TypeCorrect == Spec => []TypeOK
<1>1. IInv => TypeOK
  BY DEF IInv
<1>2. QED
  BY <1>1, InductiveInvariant, PTL

(* Every queued command keeps an event of its own, and cancellation never  *)
(* leaves more than one event too many.                                    *)
THEOREM EventsBalance == Spec => []SignalsCoverCommands
<1>1. IInv => SignalsCoverCommands
  BY DEF IInv
<1>2. QED
  BY <1>1, InductiveInvariant, PTL

(* The queue thread's timer is never in waiters_ beside a queued command:  *)
(* a queued waiter means no event counted or in flight, hence no command.  *)
THEOREM NeverSleepsBesideWork == Spec => []SleepsOnlyWithoutWork
<1>1. IInv => SleepsOnlyWithoutWork
  <2> SUFFICES ASSUME IInv, waiter = "queued" PROVE contents = <<>>
    BY DEF SleepsOnlyWithoutWork
  <2>1. Alive /\ ~WakeupInFlight /\ signaled = 0
    BY DEF IInv, WaiterInv, Alive, WakeupInFlight
  <2>2. Len(contents) <= 0
    BY <2>1 DEF IInv, SignalsCoverCommands, Signals
  <2>3. QED
    BY <2>2 DEF IInv, TypeOK
<1>2. QED
  BY <1>1, InductiveInvariant, PTL

(* The cancel flag belongs to the command being executed. *)
THEOREM CancelFlagCorrect == Spec => []CancelFlagOfCurrent
<1>1. IInv => CancelFlagOfCurrent
  BY DEF IInv, CurrentInv, CancelFlagOfCurrent
<1>2. QED
  BY <1>1, InductiveInvariant, PTL

(* ReceiveItemAsync never finds a current command. *)
THEOREM NothingCurrentCorrect == Spec => []NothingCurrentWhenWoken
<1>1. IInv => NothingCurrentWhenWoken
  BY DEF IInv, CurrentInv, NothingCurrentWhenWoken
<1>2. QED
  BY <1>1, InductiveInvariant, PTL

(* No command of a client that left reaches its handler. *)
THEOREM OnlyConnectedServedCorrect == Spec => OnlyConnectedServed
<1>1. IInv /\ [Next]_vars
        => [queuePc = "received" /\ queuePc' = "handling" => Owner[current] \in connected]_vars
  <2> SUFFICES ASSUME IInv, Next, queuePc = "received", queuePc' = "handling"
               PROVE  Owner[current] \in connected
    BY DEF vars
  <2>1. ASSUME UNCHANGED queuePc PROVE FALSE
    BY <2>1
  <2>2. ASSUME MainStep PROVE FALSE
    BY <2>1, <2>2 DEF MainStep, EnqueueCommand, CancelWaiter, Disconnect, CancelNext,
                      CancelDone, Shutdown
  <2>3. ASSUME QueueThread PROVE StartHandler
    BY <2>1, <2>3 DEF QueueThread, QueueStep, LoopTest, EnterWait, StartTimer, LeaveWait, ReceiveItem,
                      HandlerReturns, HandlerThrows, ReportError, FinishItem
  <2>4. current \notin stopRequested
    BY <2>2, <2>3 DEF Next, StartHandler, QueueStep
  <2>5. QED
    BY <2>4 DEF IInv, CurrentInv, OwnerInv
<1>2. QED
  BY <1>1, InductiveInvariant, PTL DEF Spec, OnlyConnectedServed

-----------------------------------------------------------------------------
(* Each step of the queue is a step of the service, or changes nothing the *)
(* service shows.                                                          *)
LEMMA StepRefines == IInv /\ [Next]_vars => [Service!Next]_(Service!svars)
<1> SUFFICES ASSUME IInv, [Next]_vars PROVE [Service!Next]_(Service!svars)
  OBVIOUS
<1> USE DEF Service!svars, Service!NoAnswer, itemVars
<1>1. ASSUME NEW cmd \in Commands, EnqueueCommand(cmd) PROVE Service!Accept(cmd)
  BY <1>1 DEF EnqueueCommand, Unsent, Service!Accept
<1>2. ASSUME NEW i \in DOMAIN contents, RemoveItem(i), UNCHANGED current
      PROVE  Service!Withdraw(i)
  BY <1>2 DEF RemoveItem, Service!Withdraw, RemoveAt, Service!RemoveAt, IInv, ContentsInv
<1>3. ASSUME NEW c \in Connections, Disconnect(c) PROVE UNCHANGED Service!svars
  BY <1>3 DEF Disconnect
<1>4. CASE CancelNext
  BY <1>2, <1>4 DEF CancelNext, Service!Next
<1>5. CASE ReceiveItem
  BY <1>5 DEF ReceiveItem, Service!Next, Service!BeginService
<1>6. CASE HandlerReturns
  <2>1. current # NoCommand /\ answer[current] = "none"
    BY <1>6, QueueAssumption DEF HandlerReturns, QueueStep, IInv, CurrentInv
  <2>2. Service!Answer("Result")
    BY <2>1, <1>6 DEF HandlerReturns, Service!Answer
  <2>3. QED
    BY <2>2 DEF Service!Next
<1>7. CASE ReportError
  <2>1. current # NoCommand /\ answer[current] = "none"
    BY <1>7, QueueAssumption DEF ReportError, QueueStep, IInv, CurrentInv
  <2>2. Service!Answer("InternalError")
    BY <2>1, <1>7 DEF ReportError, Service!Answer
  <2>3. QED
    BY <2>2 DEF Service!Next
<1>8. CASE FinishItem
  BY <1>8 DEF FinishItem, QueueStep, IInv, CurrentInv, Service!Next, Service!EndService
<1>9. CASE CancelWaiter \/ CancelDone \/ Shutdown \/ LoopTest \/ EnterWait \/ StartTimer
            \/ LeaveWait \/ StartHandler \/ HandlerThrows \/ UNCHANGED vars
  BY <1>9 DEF CancelWaiter, CancelDone, Shutdown, LoopTest, EnterWait, StartTimer, LeaveWait,
               StartHandler, HandlerThrows, vars
<1>10. QED
  BY <1>1, <1>3, <1>4, <1>5, <1>6, <1>7, <1>8, <1>9 DEF Next, MainStep, QueueThread, Service!Next

(* The queue implements the service it promises, for any number of clients *)
(* and commands.                                                           *)
THEOREM QueueImplementsService == Spec => ServiceSpec
<1>1. Init => Service!Init
  BY DEF Init, Service!Init, Service!NoAnswer
<1>2. IInv /\ [Next]_vars => [Service!Next]_(Service!svars)
  BY StepRefines
<1>3. QED
  BY <1>1, <1>2, InductiveInvariant, PTL DEF Spec, ServiceSpec, Service!Spec

=============================================================================
