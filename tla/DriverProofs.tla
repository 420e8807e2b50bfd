--------------------------- MODULE DriverProofs ---------------------------
(***************************************************************************)
(* Proofs about Driver, for any threads, attempts and values of the        *)
(* counter, and any number of faults.                                      *)
(***************************************************************************)
EXTENDS Driver, TLAPS

(* m_portMutex lets one caller in, so the task is queued or carried out. *)
OneCall ==
    /\ \A c, d \in Callers : call[c].pc # "idle" /\ call[d].pc # "idle" => c = d
    /\ exec.pc # "idle" => tasks = <<>>
    /\ Len(tasks) <= 1

(* An attempt that runs is not the one after the last. *)
TriesLeft == exec.pc \in {"write", "listen", "read"} => exec.tries < Retries

(* An answer of the last attempt carries the counter of that attempt, from *)
(* the moment it is read until the call returns.                           *)
OwnAnswer ==
    \A c \in Callers :
        call[c].own => /\ call[c].frame.tag = counter
                       /\ call[c].pc = "answered" \/ (exec.pc = "done" /\ exec.caller = c)

IInv == TypeOK /\ OneCall /\ TriesLeft /\ OwnAnswer

-----------------------------------------------------------------------------
(* The records and their fields. *)

CallType == [pc : {"idle", "waiting", "answered"}, cmd : Commands,
             res : Results, frame : Frames, own : BOOLEAN]
ExecType == [pc : {"idle", "write", "listen", "read", "done"}, caller : Callers,
             tries : 0..Retries, res : Results, stray : BOOLEAN]
RequestType == [cmd : Commands, tag : Tags, old : BOOLEAN]

(* A sequence that is not empty has a head. *)
LEMMA HeadFacts ==
    ASSUME NEW S, NEW s \in Seq(S), s # <<>>
    PROVE  Len(s) \in Nat /\ Len(s) >= 1 /\ Head(s) = s[1] /\ Head(s) \in S /\ Tail(s) \in Seq(S)
OBVIOUS

(* What the constants of the module are. *)
LEMMA ConstantTypes ==
    /\ 0 \in Tags /\ NoFrame \in Frames /\ NoCall \in CallType /\ Rest \in ExecType
    /\ NoCall.pc = "idle" /\ ~NoCall.own
    /\ Rest.pc = "idle" /\ Rest.tries = 0
<1>1. 0 \in Tags
  BY DriverAssumption DEF Tags
<1>2. NoFrame \in Frames
  BY <1>1 DEF NoFrame, Frames, Kinds
<1>3. NoCall \in CallType /\ NoCall.pc = "idle" /\ ~NoCall.own
  BY <1>2 DEF NoCall, CallType, Commands, Results
<1>4. Rest \in ExecType /\ Rest.pc = "idle" /\ Rest.tries = 0
  BY DriverAssumption DEF Rest, ExecType, Results
<1>5. QED
  BY <1>1, <1>2, <1>3, <1>4

(* commandCounter_ stays below its modulus. *)
LEMMA NextCounterType == ASSUME counter \in Tags PROVE NextCounter \in Tags
BY DriverAssumption DEF NextCounter, Tags

(* What is outdated keeps its place and its type. *)
LEMMA OutdatedType ==
    /\ wire \in Seq(RequestType) => Outdated(wire) \in Seq(RequestType)
    /\ line \in Seq(Frames) => Outdated(line) \in Seq(Frames)
<1>1. ASSUME wire \in Seq(RequestType) PROVE Outdated(wire) \in Seq(RequestType)
  <2>1. ASSUME NEW i \in DOMAIN wire PROVE [wire[i] EXCEPT !.old = TRUE] \in RequestType
    <3>1. wire[i] \in RequestType
      BY <1>1
    <3>2. QED
      BY <3>1 DEF RequestType
  <2>2. QED
    BY <1>1, <2>1 DEF Outdated
<1>2. ASSUME line \in Seq(Frames) PROVE Outdated(line) \in Seq(Frames)
  <2>1. ASSUME NEW i \in DOMAIN line PROVE [line[i] EXCEPT !.old = TRUE] \in Frames
    <3>1. line[i] \in Frames
      BY <1>2
    <3>2. QED
      BY <3>1 DEF Frames
  <2>2. QED
    BY <1>2, <2>1 DEF Outdated
<1>3. QED
  BY <1>1, <1>2

(* The first state satisfies the invariant. *)
LEMMA InitIInv == Init => IInv
<1> SUFFICES ASSUME Init PROVE IInv
  OBVIOUS
<1> USE DriverAssumption, ConstantTypes
<1>1. call \in [Callers -> CallType] /\ \A c \in Callers : call[c] = NoCall
  BY DEF Init
<1>2. TypeOK
  <2>1. port \in [open : BOOLEAN, valid : BOOLEAN] /\ poll \in [tried : 0..(PortAttempts + 1), bad : 0..(PortAttempts + 1)]
    BY DEF Init
  <2>2. exec \in ExecType /\ exec.pc = "idle" /\ tasks = <<>>
    BY DEF Init
  <2>3. QED
    BY <1>1, <2>1, <2>2 DEF TypeOK, Init, CallType, ExecType
<1>3. OneCall
  BY <1>1 DEF OneCall, Init
<1>4. TriesLeft /\ OwnAnswer
  BY <1>1 DEF TriesLeft, OwnAnswer, Init
<1>5. QED
  BY <1>2, <1>3, <1>4 DEF IInv

(* A step of the monitor, the validator or its line: nobody's call moves. *)
LEMMA ChannelKeeps ==
    ASSUME IInv, UNCHANGED <<call, tasks, exec, counter, poll>>,
           wire' \in Seq(RequestType), line' \in Seq(Frames),
           port' \in [open : BOOLEAN, valid : BOOLEAN],
           monitor' \in {"watch", "close", "open"}, link' \in {"up", "mute", "gone"},
           faults' \in 0..MaxFaults
    PROVE  IInv'
<1>1. TypeOK'
  BY DEF IInv, TypeOK, RequestType
<1>2. OneCall' /\ TriesLeft' /\ OwnAnswer'
  BY DEF IInv, OneCall, TriesLeft, OwnAnswer
<1>3. QED
  BY <1>1, <1>2 DEF IInv

(* While an attempt runs its caller waits, and no call has an answer. *)
LEMMA AttemptRuns ==
    ASSUME IInv, exec.pc \in {"write", "listen", "read"}
    PROVE  /\ exec.caller \in Callers /\ call[exec.caller].pc = "waiting"
           /\ call[exec.caller].cmd \in Commands
           /\ \A c \in Callers : ~call[c].own
           /\ exec.tries \in 0..(Retries - 1)
<1>1. exec.caller \in Callers /\ call[exec.caller].pc = "waiting" /\ call[exec.caller].cmd \in Commands
  BY DEF IInv, TypeOK
<1>2. \A c \in Callers : call[c].own => call[c].pc = "answered"
  BY DEF IInv, OwnAnswer
<1>3. \A c \in Callers : ~call[c].own
  BY <1>1, <1>2 DEF IInv, OneCall
<1>4. exec.tries \in 0..(Retries - 1)
  BY DriverAssumption DEF IInv, TypeOK, TriesLeft
<1>5. QED
  BY <1>1, <1>3, <1>4

(* A step of an attempt, up to the one that ends it without an answer. *)
LEMMA AttemptKeeps ==
    ASSUME IInv, exec.pc \in {"write", "listen", "read"},
           UNCHANGED <<call, tasks, monitor, link, poll>>,
           exec' \in ExecType, exec'.caller = exec.caller, exec'.pc # "idle",
           exec'.pc \in {"write", "listen", "read"} => exec'.tries < Retries,
           counter' \in Tags, wire' \in Seq(RequestType), line' \in Seq(Frames),
           port' \in [open : BOOLEAN, valid : BOOLEAN], faults' \in 0..MaxFaults
    PROVE  IInv'
<1>1. exec.pc # "idle" /\ tasks = <<>> /\ tasks' = <<>>
  BY DEF IInv, OneCall
<1>2. \A c \in Callers : (call[c].pc = "waiting" <=> exec.caller = c)
  BY <1>1 DEF IInv, TypeOK
<1>3. TypeOK'
  BY <1>1, <1>2 DEF IInv, TypeOK, RequestType, ExecType
<1>4. OneCall' /\ TriesLeft'
  BY <1>1 DEF IInv, OneCall, TriesLeft
<1>5. OwnAnswer'
  BY AttemptRuns DEF OwnAnswer
<1>6. QED
  BY <1>3, <1>4, <1>5 DEF IInv

(* Retry begins another attempt, or ends the last one with its result. *)
LEMMA RetryFacts ==
    ASSUME IInv, exec.pc \in {"write", "listen", "read"}, NEW res \in Results, Retry(res)
    PROVE  /\ exec' \in ExecType /\ exec'.caller = exec.caller /\ exec'.pc \in {"write", "done"}
           /\ exec'.pc = "write" => exec'.tries < Retries
<1>1. exec \in ExecType /\ exec.tries \in 0..(Retries - 1)
  BY AttemptRuns DEF IInv, TypeOK, ExecType
<1>2. Retries \in 0..Retries /\ exec.tries + 1 \in 0..Retries /\ exec.tries \in Nat
  BY <1>1, DriverAssumption
<1>3. CASE exec.tries + 1 = Retries
  <2>1. exec' = [exec EXCEPT !.pc = "done", !.tries = Retries, !.res = res]
    BY <1>3 DEF Retry
  <2>2. QED
    BY <1>1, <1>2, <2>1 DEF ExecType
<1>4. CASE exec.tries + 1 # Retries
  <2>1. exec' = [exec EXCEPT !.pc = "write", !.stray = FALSE, !.tries = exec.tries + 1]
    BY <1>4 DEF Retry
  <2>2. exec.tries + 1 < Retries
    BY <1>2, <1>4, DriverAssumption
  <2>3. exec' \in ExecType
    BY <1>1, <1>2, <2>1 DEF ExecType
  <2>4. exec'.caller = exec.caller /\ exec'.pc = "write" /\ exec'.tries = exec.tries + 1
    BY <1>1, <2>1 DEF ExecType
  <2>5. QED
    BY <2>2, <2>3, <2>4
<1>5. QED
  BY <1>3, <1>4

LEMMA FaultType == ASSUME faults \in 0..MaxFaults, Fault PROVE faults' \in 0..MaxFaults
BY DriverAssumption DEF Fault

(* The port after it was opened again, or was found lost. *)
LEMMA OpenPortType ==
    ASSUME OpenPort PROVE port' \in [open : BOOLEAN, valid : BOOLEAN] /\ line' \in Seq(Frames)
BY DEF OpenPort

-----------------------------------------------------------------------------
(* The callers. *)

(* A call that begins is the only one. *)
LEMMA AskKeeps ==
    ASSUME IInv, NEW c \in Callers, NEW cmd \in Commands, Ask(c, cmd)
    PROVE  IInv'
<1> USE ConstantTypes DEF IInv
<1>1. \A d \in Callers : call[d].pc = "idle"
  BY DEF Ask
<1>2. exec.pc = "idle" /\ tasks = <<>>
  <2>1. exec.pc = "idle"
    BY <1>1 DEF TypeOK
  <2>2. ASSUME Len(tasks) # 0 PROVE FALSE
    <3>1. 1 \in DOMAIN tasks /\ tasks[1] \in Callers
      BY <2>2 DEF TypeOK
    <3>2. call[tasks[1]].pc = "waiting"
      BY <3>1 DEF TypeOK
    <3>3. QED
      BY <1>1, <3>1, <3>2
  <2>3. QED
    BY <2>1, <2>2 DEF TypeOK
<1>3. tasks' = <<c>> /\ exec' = exec /\ counter' = counter
  BY <1>2 DEF Ask
<1>4. DEFINE new == [NoCall EXCEPT !.pc = "waiting", !.cmd = cmd]
<1>5. new \in CallType /\ new.pc = "waiting" /\ ~new.own
  BY DEF CallType
<1>6. /\ call' \in [Callers -> CallType] /\ call'[c] = new
      /\ \A d \in Callers \ {c} : call'[d] = call[d]
  BY <1>5 DEF Ask, TypeOK, CallType
<1> HIDE DEF new
<1>7. \A d \in Callers : call'[d].pc = "waiting" <=> d = c
  BY <1>1, <1>5, <1>6
<1>8. TypeOK'
  BY <1>2, <1>3, <1>6, <1>7 DEF Ask, TypeOK, CallType, channel
<1>9. OneCall'
  BY <1>1, <1>2, <1>3, <1>6 DEF OneCall
<1>10. TriesLeft' /\ OwnAnswer'
  BY <1>1, <1>2, <1>3, <1>5, <1>6 DEF TriesLeft, OwnAnswer
<1>11. QED
  BY <1>8, <1>9, <1>10

(* A caller that returns leaves the rest as it is. *)
LEMMA ReturnKeeps ==
    ASSUME IInv, NEW c \in Callers, Return(c)
    PROVE  IInv'
<1> USE ConstantTypes DEF IInv
<1>1. /\ call' \in [Callers -> CallType] /\ call'[c] = NoCall
      /\ \A d \in Callers \ {c} : call'[d] = call[d]
  BY DEF Return, TypeOK, CallType
<1>2. poll' \in [tried : 0..(PortAttempts + 1), bad : 0..(PortAttempts + 1)]
  BY DriverAssumption DEF Return, TypeOK, NextPoll
<1>3. /\ UNCHANGED <<tasks, exec, counter, wire, line, port, monitor, link, faults>>
      /\ call[c].pc = "answered"
  BY DEF Return, channel
<1>4. \A d \in Callers : call'[d].pc = "waiting" <=> call[d].pc = "waiting"
  BY <1>1, <1>3
<1>5. TypeOK'
  BY <1>1, <1>2, <1>3, <1>4 DEF TypeOK, CallType
<1>6. OneCall'
  BY <1>1, <1>3 DEF OneCall
<1>7. TriesLeft' /\ OwnAnswer'
  BY <1>1, <1>3 DEF TriesLeft, OwnAnswer
<1>8. QED
  BY <1>5, <1>6, <1>7

-----------------------------------------------------------------------------
(* The executor. *)

LEMMA TakeTaskKeeps ==
    ASSUME IInv, TakeTask
    PROVE  IInv'
<1> USE ConstantTypes DEF IInv
<1>1. exec.pc = "idle" /\ tasks # <<>> /\ Head(tasks) \in Callers
  BY DEF TakeTask, TypeOK
<1>2. Len(tasks) = 1 /\ tasks' = <<>> /\ tasks[1] = Head(tasks)
  <2>1. tasks \in Seq(Callers) /\ Len(tasks) \in Nat /\ Len(tasks) <= 1 /\ tasks' = Tail(tasks)
    BY DEF TakeTask, TypeOK, OneCall
  <2>2. Len(tasks) = 1
    <3>1. Len(tasks) >= 1
      BY <1>1, <2>1, HeadFacts, Zenon
    <3>2. \A n \in Nat : n >= 1 /\ n <= 1 => n = 1
      OBVIOUS
    <3>3. QED
      BY <2>1, <3>1, <3>2, Zenon
  <2>3. Tail(tasks) = <<>> /\ Head(tasks) = tasks[1]
    BY <1>1, <2>1, <2>2
  <2>4. QED
    BY <2>1, <2>2, <2>3
<1>3. port' \in [open : BOOLEAN, valid : BOOLEAN] /\ line' \in Seq(Frames)
  <2>1. CASE port.valid
    BY <2>1 DEF TakeTask, TypeOK
  <2>2. CASE ~port.valid
    BY <2>2, OpenPortType DEF TakeTask
  <2>3. QED
    BY <2>1, <2>2
<1>4. exec' \in ExecType /\ exec'.caller = Head(tasks) /\ exec'.pc \in {"write", "done"} /\ exec'.tries = 0
  <2>1. CASE exec' = [Rest EXCEPT !.pc = "write", !.caller = Head(tasks)]
    BY <1>1, <2>1 DEF ExecType
  <2>2. CASE exec' = [Rest EXCEPT !.pc = "done", !.caller = Head(tasks), !.res = "Err_Port"]
    BY <1>1, <2>2 DEF ExecType, Results
  <2>3. QED
    BY <2>1, <2>2 DEF TakeTask
<1>5. UNCHANGED <<call, counter, wire, monitor, link, poll, faults>>
  BY DEF TakeTask
<1>6. \A c \in Callers : call[c].pc = "waiting" <=> c = Head(tasks)
  <2>1. DOMAIN tasks = {1}
    BY <1>2 DEF TypeOK
  <2>2. QED
    BY <1>1, <1>2, <2>1 DEF TypeOK
<1>7. TypeOK'
  BY <1>2, <1>3, <1>4, <1>5, <1>6 DEF TypeOK, ExecType
<1>8. OneCall'
  BY <1>2, <1>5 DEF OneCall
<1>9. TriesLeft'
  BY <1>4, DriverAssumption DEF TriesLeft
<1>10. OwnAnswer'
  <2>1. ASSUME NEW c \in Callers, call[c].own PROVE call[c].pc = "answered"
    BY <1>1, <2>1 DEF OwnAnswer
  <2>2. QED
    BY <1>5, <2>1 DEF OwnAnswer
<1>11. QED
  BY <1>7, <1>8, <1>9, <1>10

LEMMA WriteCommandKeeps ==
    ASSUME IInv, WriteCommand
    PROVE  IInv'
<1> USE DEF IInv
<1>1. exec.pc = "write" /\ exec \in ExecType /\ exec.caller \in Callers
  BY DEF WriteCommand, TypeOK, ExecType
<1>2. counter' \in Tags
  BY NextCounterType DEF WriteCommand, TypeOK
<1>3. UNCHANGED <<call, tasks, line, monitor, link, poll, faults>>
  BY DEF WriteCommand
<1>4. port' \in [open : BOOLEAN, valid : BOOLEAN]
  BY DEF WriteCommand, TypeOK
<1>5. wire' \in Seq(RequestType)
  <2>1. [cmd |-> call[exec.caller].cmd, tag |-> counter', old |-> FALSE] \in RequestType
    BY <1>1, <1>2, AttemptRuns DEF RequestType
  <2>2. wire \in Seq(RequestType)
    BY DEF TypeOK, RequestType
  <2>3. QED
    BY <2>1, <2>2 DEF WriteCommand
<1>6. /\ exec' \in ExecType /\ exec'.caller = exec.caller /\ exec'.pc # "idle"
      /\ exec'.pc \in {"write", "listen", "read"} => exec'.tries < Retries
  <2>1. CASE Retry("Err_Port")
    BY <1>1, <2>1, RetryFacts DEF Results
  <2>2. CASE GiveUp("Err_Port")
    BY <1>1, <2>2 DEF GiveUp, ExecType, Results
  <2>3. CASE exec' = [exec EXCEPT !.pc = "listen"]
    BY <1>1, <2>3 DEF ExecType, TriesLeft
  <2>4. QED
    BY <2>1, <2>2, <2>3 DEF WriteCommand
<1>7. QED
  BY <1>1, <1>2, <1>3, <1>4, <1>5, <1>6, AttemptKeeps DEF TypeOK

LEMMA ListenKeeps ==
    ASSUME IInv, Listen
    PROVE  IInv'
<1> USE DEF IInv
<1>1. exec.pc = "listen" /\ exec \in ExecType
  BY DEF Listen, TypeOK, ExecType
<1>2. /\ exec' \in ExecType /\ exec'.caller = exec.caller /\ exec'.pc # "idle"
      /\ exec'.pc \in {"write", "listen", "read"} => exec'.tries < Retries
  <2>1. CASE GiveUp("Err_Port")
    BY <1>1, <2>1 DEF GiveUp, ExecType, Results
  <2>2. CASE exec' = [exec EXCEPT !.pc = "read"]
    BY <1>1, <2>2 DEF ExecType, TriesLeft
  <2>3. QED
    BY <2>1, <2>2 DEF Listen
<1>3. port' \in [open : BOOLEAN, valid : BOOLEAN]
  BY DEF Listen, TypeOK
<1>4. UNCHANGED <<call, tasks, counter, wire, line, monitor, link, poll, faults>>
  BY DEF Listen
<1>5. wire \in Seq(RequestType)
  BY DEF TypeOK, RequestType
<1>6. QED
  BY <1>1, <1>2, <1>3, <1>4, <1>5, AttemptKeeps DEF TypeOK

LEMMA TimeOutKeeps ==
    ASSUME IInv, TimeOut
    PROVE  IInv'
<1> USE DEF IInv
<1>1. exec.pc = "read" /\ Retry("Err_Port") /\ "Err_Port" \in Results
  BY DEF TimeOut, Results
<1>2. faults' \in 0..MaxFaults
  BY FaultType DEF TimeOut, TypeOK
<1>3. UNCHANGED <<call, tasks, counter, wire, line, port, monitor, link, poll>>
  BY DEF TimeOut, channel
<1>4. wire \in Seq(RequestType)
  BY DEF TypeOK, RequestType
<1>5. QED
  BY <1>1, <1>2, <1>3, <1>4, RetryFacts, AttemptKeeps DEF TypeOK

LEMMA ReceiveShortKeeps ==
    ASSUME IInv, ReceiveShort
    PROVE  IInv'
<1> USE DEF IInv
<1>1. exec.pc = "read" /\ exec \in ExecType /\ exec.tries \in 0..(Retries - 1)
  <2>1. exec.pc = "read"
    BY DEF ReceiveShort
  <2>2. QED
    BY <2>1, AttemptRuns DEF TypeOK, ExecType
<1>2. /\ exec' \in ExecType /\ exec'.caller = exec.caller /\ exec'.pc # "idle"
      /\ exec'.pc \in {"write", "listen", "read"} => exec'.tries < Retries
  <2>1. CASE Retry("Err_Port")
    BY <1>1, <2>1, RetryFacts DEF Results
  <2>2. CASE /\ exec.tries + 1 < Retries
             /\ exec' = [exec EXCEPT !.pc = "write", !.stray = TRUE, !.tries = exec.tries + 1]
    <3>1. exec.tries + 1 \in 0..Retries
      BY <1>1, DriverAssumption
    <3>2. QED
      BY <1>1, <2>2, <3>1 DEF ExecType
  <2>3. QED
    BY <2>1, <2>2 DEF ReceiveShort
<1>3. line' \in Seq(Frames)
  BY ConstantTypes DEF ReceiveShort, TypeOK
<1>4. faults' \in 0..MaxFaults
  BY FaultType DEF ReceiveShort, TypeOK
<1>5. UNCHANGED <<call, tasks, counter, wire, port, monitor, link, poll>>
  BY DEF ReceiveShort
<1>6. wire \in Seq(RequestType)
  BY DEF TypeOK, RequestType
<1>7. QED
  BY <1>1, <1>2, <1>3, <1>4, <1>5, <1>6, AttemptKeeps DEF TypeOK

(* Ended gives the caller of the last attempt what was read. *)
LEMMA EndedKeeps ==
    ASSUME IInv, exec.pc = "read", NEW res \in Results, NEW frame \in Frames, Ended(res, frame),
           UNCHANGED <<tasks, counter, wire, monitor, link, poll, faults>>,
           line' = <<>>, port' \in [open : BOOLEAN, valid : BOOLEAN]
    PROVE  IInv'
<1> USE DEF IInv
<1> DEFINE c == exec.caller
<1>1. /\ c \in Callers /\ call[c].pc = "waiting" /\ \A d \in Callers : ~call[d].own
      /\ exec \in ExecType
  BY AttemptRuns DEF TypeOK, ExecType
<1>2. exec' \in ExecType /\ exec'.pc = "done" /\ exec'.caller = c
  BY <1>1 DEF Ended, ExecType
<1>3. call \in [Callers -> CallType]
  BY DEF TypeOK, CallType
<1>4. call' = [call EXCEPT ![c] = [call[c] EXCEPT !.frame = frame, !.own = (frame.tag = counter)]]
  BY <1>1, <1>3 DEF Ended, CallType
<1>5. (frame.tag = counter) \in BOOLEAN
  OBVIOUS
<1>6. /\ [call[c] EXCEPT !.frame = frame, !.own = (frame.tag = counter)] \in CallType
      /\ call'[c].pc = call[c].pc /\ call'[c].frame = frame /\ call'[c].own = (frame.tag = counter)
  BY <1>1, <1>3, <1>4, <1>5 DEF CallType
<1>7. call' \in [Callers -> CallType] /\ \A d \in Callers \ {c} : call'[d] = call[d]
  BY <1>3, <1>4, <1>6
<1>8. tasks = <<>> /\ tasks' = <<>>
  BY DEF OneCall
<1> HIDE DEF c
<1>9. \A d \in Callers : call'[d].pc = call[d].pc
  BY <1>6, <1>7
<1>10. \A d \in Callers : call'[d].pc = "waiting" <=> d = c
  <2>1. \A d \in Callers : call[d].pc = "waiting" <=> d = c
    BY <1>8 DEF TypeOK, c
  <2>2. QED
    BY <1>9, <2>1
<1>11. TypeOK'
  BY <1>2, <1>7, <1>8, <1>10 DEF TypeOK, CallType, ExecType
<1>12. OneCall' /\ TriesLeft'
  BY <1>2, <1>8, <1>9 DEF OneCall, TriesLeft
<1>13. OwnAnswer'
  <2>1. \A d \in Callers : call'[d].own => d = c /\ frame.tag = counter'
    BY <1>1, <1>6, <1>7
  <2>2. QED
    BY <1>2, <1>6, <2>1 DEF OwnAnswer
<1>14. QED
  BY <1>11, <1>12, <1>13

LEMMA ReceiveKeeps ==
    ASSUME IInv, Receive
    PROVE  IInv'
<1> USE DEF IInv
<1> DEFINE frame == IF Len(line) = 1 THEN Head(line) ELSE NoFrame
<1>1. exec.pc = "read" /\ frame \in Frames
  BY ConstantTypes DEF Receive, TypeOK
<1>2. /\ line' = <<>> /\ port' \in [open : BOOLEAN, valid : BOOLEAN]
      /\ UNCHANGED <<tasks, counter, wire, monitor, link, poll, faults>>
  BY DEF Receive, TypeOK
<1>3. CASE Retry("Err_Crc") /\ UNCHANGED call
  <2>1. wire \in Seq(RequestType) /\ "Err_Crc" \in Results
    BY DEF TypeOK, RequestType, Results
  <2>2. QED
    BY <1>1, <1>2, <1>3, <2>1, RetryFacts, AttemptKeeps DEF TypeOK
<1>4. CASE Retry("Err_Nak") /\ UNCHANGED call
  <2>1. wire \in Seq(RequestType) /\ "Err_Nak" \in Results
    BY DEF TypeOK, RequestType, Results
  <2>2. QED
    BY <1>1, <1>2, <1>4, <2>1, RetryFacts, AttemptKeeps DEF TypeOK
<1>5. CASE Ended("Err_Illegal", frame)
  BY <1>1, <1>2, <1>5, EndedKeeps DEF Results
<1>6. CASE Ended("Ok", frame)
  BY <1>1, <1>2, <1>6, EndedKeeps DEF Results
<1>7. QED
  BY <1>3, <1>4, <1>5, <1>6 DEF Receive

(* The callback is the end of the call for the executor. *)
LEMMA CallbackKeeps ==
    ASSUME IInv, Callback
    PROVE  IInv'
<1> USE ConstantTypes DEF IInv
<1> DEFINE c == exec.caller
<1>1. exec.pc = "done" /\ exec \in ExecType /\ c \in Callers /\ exec.res \in Results
  BY DEF Callback, TypeOK, ExecType
<1>2. call \in [Callers -> CallType]
  BY DEF TypeOK, CallType
<1>3. call' = [call EXCEPT ![c] = [call[c] EXCEPT !.pc = "answered", !.res = exec.res]]
  BY <1>1, <1>2 DEF Callback, CallType
<1>4. /\ [call[c] EXCEPT !.pc = "answered", !.res = exec.res] \in CallType
      /\ call'[c].pc = "answered" /\ call'[c].frame = call[c].frame /\ call'[c].own = call[c].own
  BY <1>1, <1>2, <1>3 DEF CallType
<1>5. call' \in [Callers -> CallType] /\ \A d \in Callers \ {c} : call'[d] = call[d]
  BY <1>2, <1>3, <1>4
<1>6. /\ tasks = <<>> /\ tasks' = <<>> /\ exec' = Rest
      /\ UNCHANGED <<counter, port, monitor, link, poll, faults>>
  BY <1>1 DEF OneCall, Callback
<1>7. \A d \in Callers : call[d].pc = "waiting" <=> d = c
  BY <1>1, <1>6 DEF TypeOK
<1> HIDE DEF c
<1>8. \A d \in Callers : call'[d].pc # "waiting"
  BY <1>4, <1>5, <1>7
<1>9. wire' \in Seq(RequestType) /\ line' \in Seq(Frames)
  BY OutdatedType DEF Callback, TypeOK, RequestType
<1>10. TypeOK'
  BY <1>5, <1>6, <1>8, <1>9 DEF TypeOK, CallType, RequestType, ExecType
<1>11. OneCall'
  BY <1>1, <1>4, <1>5, <1>6, <1>7 DEF OneCall
<1>12. TriesLeft'
  BY <1>6 DEF TriesLeft
<1>13. OwnAnswer'
  <2>1. ASSUME NEW d \in Callers, call'[d].own
        PROVE  call'[d].frame.tag = counter' /\ call'[d].pc = "answered"
    <3>1. CASE d = c
      BY <1>4, <1>6, <2>1, <3>1 DEF OwnAnswer
    <3>2. CASE d # c
      BY <1>5, <1>6, <2>1, <3>2 DEF OwnAnswer, c
    <3>3. QED
      BY <3>1, <3>2
  <2>2. QED
    BY <2>1 DEF OwnAnswer
<1>14. QED
  BY <1>10, <1>11, <1>12, <1>13

-----------------------------------------------------------------------------
(* The monitor, the validator and its line. *)

LEMMA MonitorKeeps ==
    ASSUME IInv, MonitorStep
    PROVE  IInv'
<1>1. wire \in Seq(RequestType) /\ TypeOK
  BY DEF IInv, TypeOK, RequestType
<1>2. UNCHANGED <<call, tasks, exec, counter, poll, wire, link, faults>>
  BY DEF MonitorStep, MonitorLooks, MonitorCloses, MonitorOpens
<1>3. monitor' \in {"watch", "close", "open"}
  BY DEF MonitorStep, MonitorLooks, MonitorCloses, MonitorOpens
<1>4. port' \in [open : BOOLEAN, valid : BOOLEAN] /\ line' \in Seq(Frames)
  <2>1. CASE MonitorLooks
    BY <1>1, <2>1 DEF MonitorLooks, TypeOK
  <2>2. CASE MonitorCloses
    BY <2>2 DEF MonitorCloses
  <2>3. CASE MonitorOpens
    BY <2>3, OpenPortType DEF MonitorOpens
  <2>4. QED
    BY <2>1, <2>2, <2>3 DEF MonitorStep
<1>5. QED
  BY <1>1, <1>2, <1>3, <1>4, ChannelKeeps DEF TypeOK

(* What is sent repeats the counter of the request it answers. *)
LEMMA SendKeeps ==
    ASSUME IInv, wire # <<>>, NEW kind \in Kinds, Send(kind), faults' \in 0..MaxFaults
    PROVE  IInv'
<1>1. TypeOK /\ wire \in Seq(RequestType)
  BY DEF IInv, TypeOK, RequestType
<1>2. Head(wire) \in RequestType
  BY <1>1, HeadFacts, Zenon
<1>3. wire' \in Seq(RequestType)
  BY <1>1 DEF Send
<1>4. [kind |-> kind, tag |-> Head(wire).tag, old |-> Head(wire).old] \in Frames
  <2>1. Head(wire).tag \in Tags /\ Head(wire).old \in BOOLEAN
    BY <1>2 DEF RequestType
  <2>2. QED
    BY <2>1 DEF Frames
<1>5. line' \in Seq(Frames)
  BY <1>1, <1>4 DEF Send, TypeOK
<1>6. UNCHANGED <<call, tasks, exec, counter, port, monitor, link, poll>>
  BY DEF Send
<1>7. QED
  BY <1>1, <1>3, <1>5, <1>6, ChannelKeeps DEF TypeOK

LEMMA ValidatorKeeps ==
    ASSUME IInv, \/ Respond \/ RespondBadly \/ Lose \/ ComeBack
                 \/ \E how \in {"mute", "gone"} : Leave(how)
    PROVE  IInv'
<1>1. TypeOK /\ wire \in Seq(RequestType)
  BY DEF IInv, TypeOK, RequestType
<1>2. CASE Respond
  <2>1. Head(wire).cmd \in Commands /\ wire # <<>>
    <3>1. wire # <<>>
      BY <1>2 DEF Respond
    <3>2. Head(wire) \in RequestType
      BY <1>1, <3>1, HeadFacts, Zenon
    <3>3. QED
      BY <3>1, <3>2 DEF RequestType
  <2>2. Answer[Head(wire).cmd] \in Kinds
    BY <2>1 DEF Commands, Answer, Kinds
  <2>3. QED
    BY <1>1, <1>2, <2>1, <2>2, SendKeeps DEF Respond, TypeOK
<1>3. CASE RespondBadly
  <2>1. PICK kind \in {"nak", "illegal", "garbled"} : Send(kind)
    BY <1>3 DEF RespondBadly
  <2>2. wire # <<>> /\ kind \in Kinds /\ faults' \in 0..MaxFaults
    BY <1>1, <1>3, FaultType DEF RespondBadly, Kinds, TypeOK
  <2>3. QED
    BY <2>1, <2>2, SendKeeps
<1>4. CASE Lose
  <2>1. faults' \in 0..MaxFaults /\ wire' \in Seq(RequestType)
    BY <1>1, <1>4, FaultType DEF Lose, TypeOK
  <2>2. QED
    BY <1>1, <1>4, <2>1, ChannelKeeps DEF Lose, TypeOK
<1>5. CASE ComeBack
  BY <1>1, <1>5, ChannelKeeps DEF ComeBack, TypeOK
<1>6. ASSUME NEW how \in {"mute", "gone"}, Leave(how) PROVE IInv'
  <2>1. faults' \in 0..MaxFaults /\ wire' \in Seq(RequestType) /\ line' \in Seq(Frames)
    BY <1>1, <1>6, FaultType DEF Leave, TypeOK
  <2>2. QED
    BY <1>1, <1>6, <2>1, ChannelKeeps DEF Leave, TypeOK
<1>7. QED
  BY <1>2, <1>3, <1>4, <1>5, <1>6

-----------------------------------------------------------------------------

LEMMA NextIInv == IInv /\ [Next]_vars => IInv'
<1> SUFFICES ASSUME IInv, [Next]_vars PROVE IInv'
  OBVIOUS
<1>1. CASE \E c \in Callers : (\E cmd \in Commands : Ask(c, cmd)) \/ Return(c)
  BY <1>1, AskKeeps, ReturnKeeps
<1>2. CASE Execute
  BY <1>2, TakeTaskKeeps, WriteCommandKeeps, ListenKeeps, ReceiveKeeps, CallbackKeeps DEF Execute
<1>3. CASE TimeOut
  BY <1>3, TimeOutKeeps
<1>4. CASE ReceiveShort
  BY <1>4, ReceiveShortKeeps
<1>5. CASE MonitorStep
  BY <1>5, MonitorKeeps
<1>6. CASE \/ Respond \/ RespondBadly \/ Lose \/ ComeBack
           \/ \E how \in {"mute", "gone"} : Leave(how)
  BY <1>6, ValidatorKeeps
<1>7. CASE UNCHANGED vars
  BY <1>7 DEF vars, channel, IInv, TypeOK, OneCall, TriesLeft, OwnAnswer
<1>8. QED
  BY <1>1, <1>2, <1>3, <1>4, <1>5, <1>6, <1>7 DEF Next

(* One call at a time is carried out, and its answer is kept apart. *)
THEOREM DriverInvariant == Spec => []IInv
<1>1. QED
  BY InitIInv, NextIInv, PTL DEF Spec

(* Types of the state, and: a caller waits exactly as long as its task is  *)
(* queued or carried out, whoever else calls and whatever goes wrong.      *)
THEOREM DriverTypeOK == Spec => []TypeOK
<1>1. IInv => TypeOK
  BY DEF IInv
<1>2. QED
  BY DriverInvariant, <1>1, PTL

(* The counter an acknowledgement is compared with, after the return of    *)
(* sendCommand, is still that of its own attempt.                          *)
THEOREM DriverAckRecognised == Spec => []AckRecognised
<1>1. IInv => AckRecognised
  <2> SUFFICES ASSUME IInv, NEW c \in Callers, call[c].cmd = "Stack", call[c].res = "Ok",
                      call[c].frame.kind = "ack", call[c].own
               PROVE  Verdict(c) = "Ok"
    BY DEF AckRecognised
  <2>1. call[c].frame.tag = counter
    BY DEF IInv, OwnAnswer
  <2>2. StackVerdict(call[c].frame) = "Ok"
    BY <2>1 DEF StackVerdict, IsAck
  <2>3. QED
    BY <2>2 DEF Verdict
<1>2. QED
  BY DriverInvariant, <1>1, PTL

=============================================================================
