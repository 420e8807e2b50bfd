------------------------------ MODULE Driver ------------------------------
(***************************************************************************)
(* Devices/HW: the way of a command to the bill validator and of its       *)
(* answer back.  DorsHW puts the commands of the polling thread and of the *)
(* queue thread into the queue of its executor, which gives them to        *)
(* DevicePort::sendCommand; a monitor opens a lost port again.  The loop   *)
(* of fnDevicePolling that asks for the state is here as far as it deals   *)
(* with a lost port; what it makes of a state is CashIn's.                 *)
(*                                                                         *)
(* What the service sent and the validator has not answered is wire, what  *)
(* the validator sent and nobody has read is line.  The validator answers  *)
(* every request in order, as late as it likes; it, or the way to it, may  *)
(* lose, garble and cut an answer.  The bytes of an answer are its kind    *)
(* and the counter it repeats; old is a ghost, true of what belongs to a   *)
(* call that is over.  Several answers read at once, or one cut in two,    *)
(* fail the CRC check or are too short.  Left out: that the validator may  *)
(* repeat an answer when it gets a NAK, buffers too small, Reboot (which   *)
(* compares with a counter that never moves), DorsHW::SendCommand, which   *)
(* nobody calls, and the one state byte that Poll_State takes for a port   *)
(* error, should the validator report it.                                  *)
(***************************************************************************)
EXTENDS Naturals, Sequences

CONSTANTS Callers,      \* threads that call DorsHW
          Poller,       \* the polling thread
          Retries,      \* retries_, 4 in the code
          Modulus,      \* values of commandCounter_, 16 in the code
          PortAttempts, \* the limit of m_AttemptsToRestorePort, 10 in the code
          MaxFaults     \* bound: times the validator, its line or a timer goes wrong

ASSUME DriverAssumption ==
    /\ Poller \in Callers
    /\ Retries \in Nat \ {0} /\ Modulus \in Nat \ {0}
    /\ PortAttempts \in Nat /\ MaxFaults \in Nat

VARIABLES call,    \* what each caller waits for and what it got
          tasks,   \* m_taskQueue
          exec,    \* the executor in sendCommand
          counter, \* commandCounter_
          wire, line,
          port,    \* is the port open, and portValid_
          monitor, \* reconnectLoop
          link,    \* the validator: there, mute, or gone with its port
          poll,    \* m_AttemptsToRestorePort, and the port errors in a row
          faults

channel == <<wire, line, port, monitor, link>>
vars == <<call, tasks, exec, counter, channel, poll, faults>>

Tags == 0..(Modulus - 1)

(* Identification stands for the commands that want data, Stack for those  *)
(* that want an acknowledgement.                                           *)
Commands == {"Poll", "Identification", "Stack"}
Answer   == [Poll |-> "state", Identification |-> "data", Stack |-> "ack"]
Kinds    == {"state", "data", "ack", "nak", "illegal", "garbled"}
Frames   == [kind : Kinds, tag : Tags, old : BOOLEAN]
NoFrame  == [kind |-> "garbled", tag |-> 0, old |-> FALSE]
Results  == {"Ok", "Err_Port", "Err_Crc", "Err_Nak", "Err_Illegal"}

NoCall == [pc |-> "idle", cmd |-> "Poll", res |-> "Ok", frame |-> NoFrame, own |-> FALSE]
Rest   == [pc |-> "idle", caller |-> Poller, tries |-> 0, res |-> "Ok", stray |-> FALSE]

TypeOK ==
    /\ call \in [Callers -> [pc : {"idle", "waiting", "answered"}, cmd : Commands,
                             res : Results, frame : Frames, own : BOOLEAN]]
    /\ tasks \in Seq(Callers)
    /\ exec \in [pc : {"idle", "write", "listen", "read", "done"}, caller : Callers,
                 tries : 0..Retries, res : Results, stray : BOOLEAN]
    /\ \A c \in Callers :
         call[c].pc = "waiting" <=> \/ \E i \in DOMAIN tasks : tasks[i] = c
                                    \/ exec.pc # "idle" /\ exec.caller = c
    /\ counter \in Tags
    /\ wire \in Seq([cmd : Commands, tag : Tags, old : BOOLEAN])
    /\ line \in Seq(Frames)
    /\ port \in [open : BOOLEAN, valid : BOOLEAN]
    /\ monitor \in {"watch", "close", "open"}
    /\ link \in {"up", "mute", "gone"}
    /\ poll \in [tried : 0..(PortAttempts + 1), bad : 0..(PortAttempts + 1)]
    /\ faults \in 0..MaxFaults

(* The port was opened and the monitor started by the constructor. *)
Init ==
    /\ call = [c \in Callers |-> NoCall]
    /\ tasks = <<>> /\ exec = Rest /\ counter = 0
    /\ wire = <<>> /\ line = <<>>
    /\ port = [open |-> TRUE, valid |-> TRUE]
    /\ monitor = "watch" /\ link = "up"
    /\ poll = [tried |-> 0, bad |-> 0]
    /\ faults = 0

Fault == faults < MaxFaults /\ faults' = faults + 1

-----------------------------------------------------------------------------
(* The callers. *)

(* Mutant: nobody takes m_portMutex. *)
AskUnlocked(c, cmd) ==
    /\ call[c].pc = "idle"
    /\ c = Poller <=> cmd = "Poll"
    /\ call' = [call EXCEPT ![c] = [NoCall EXCEPT !.pc = "waiting", !.cmd = cmd]]
    /\ tasks' = Append(tasks, c)
    /\ UNCHANGED <<exec, counter, channel, poll, faults>>

(* A command takes m_portMutex, and keeps it until it returns. *)
Ask(c, cmd) ==
    /\ \A d \in Callers : call[d].pc = "idle"
    /\ c = Poller <=> cmd = "Poll"
    /\ call' = [call EXCEPT ![c] = [NoCall EXCEPT !.pc = "waiting", !.cmd = cmd]]
    /\ tasks' = Append(tasks, c)
    /\ UNCHANGED <<exec, counter, channel, poll, faults>>

(* Mutant: an acknowledgement is one whatever its counter. *)
IsAckOfAny(frame, tag) == frame.kind = "ack"

IsAck(frame, tag) == frame.kind = "ack" /\ frame.tag = tag

(* Poll makes a state of any answer ... *)
PollVerdict(frame) == "Ok"

(* ... others ask for the length of what they want ... *)
IdentificationVerdict(frame) == IF frame.kind = "data" THEN "Ok" ELSE "Err_Unknown"

(* ... or for an acknowledgement of the last counter ... *)
StackVerdict(frame) == IF IsAck(frame, counter) THEN "Ok" ELSE "Err_Ack"

Verdict(c) ==
    LET frame == call[c].frame
    IN  IF call[c].res # "Ok" THEN call[c].res
        ELSE CASE call[c].cmd = "Poll"           -> PollVerdict(frame)
               [] call[c].cmd = "Identification" -> IdentificationVerdict(frame)
               [] call[c].cmd = "Stack"          -> StackVerdict(frame)

(* fnDevicePolling: a port error is passed over, up to a limit. *)
NextPoll(verdict) ==
    LET bad == IF poll.bad > PortAttempts THEN poll.bad ELSE poll.bad + 1
    IN  IF verdict # "Err_Port"
        THEN poll' = [poll EXCEPT !.bad = 0]
        ELSE poll' = [tried |-> IF poll.tried <= PortAttempts THEN poll.tried + 1 ELSE 0, bad |-> bad]

(* The last poll found the port lost, and went on with that. *)
Reported == poll.bad > 0 /\ poll.tried = 0

Return(c) ==
    /\ call[c].pc = "answered"
    /\ call' = [call EXCEPT ![c] = NoCall]
    /\ IF call[c].cmd = "Poll" THEN NextPoll(Verdict(c)) ELSE UNCHANGED poll
    /\ UNCHANGED <<tasks, exec, counter, channel, faults>>

-----------------------------------------------------------------------------
(* DevicePort: open, and the executor in sendCommand. *)

(* Mutant: a port that was opened again is not marked as such. *)
OpenPortUnmarked == port' = [open |-> link # "gone", valid |-> FALSE] /\ line' = <<>>

(* open(): closes the port and opens it again; unread bytes are gone. *)
OpenPort ==
    LET there == link # "gone"
    IN  port' = [open |-> there, valid |-> there] /\ line' = <<>>

(* sendCommand starts with the port it finds, or opens it. *)
TakeTask ==
    /\ exec.pc = "idle" /\ tasks # <<>>
    /\ tasks' = Tail(tasks)
    /\ IF port.valid THEN UNCHANGED <<port, line>> ELSE OpenPort
    /\ exec' = IF port'.valid THEN [Rest EXCEPT !.pc = "write", !.caller = Head(tasks)]
               ELSE [Rest EXCEPT !.pc = "done", !.caller = Head(tasks), !.res = "Err_Port"]
    /\ UNCHANGED <<call, counter, wire, monitor, link, poll, faults>>

(* Mutant: an attempt without an answer does not count. *)
RetryPatiently(res) ==
    exec' = IF res # "Err_Port" /\ exec.tries + 1 = Retries
            THEN [exec EXCEPT !.pc = "done", !.tries = Retries, !.res = res]
            ELSE [exec EXCEPT !.pc = "write", !.stray = FALSE,
                              !.tries = IF res = "Err_Port" THEN @ ELSE @ + 1]

(* An attempt is over.  Its result is that of the call if it was the last. *)
Retry(res) ==
    exec' = IF exec.tries + 1 = Retries
            THEN [exec EXCEPT !.pc = "done", !.tries = Retries, !.res = res]
            ELSE [exec EXCEPT !.pc = "write", !.stray = FALSE, !.tries = @ + 1]

GiveUp(res) == exec' = [exec EXCEPT !.pc = "done", !.res = res]

(* Mutant: the counter goes one too far. *)
NextCounterLate == IF counter < Modulus THEN counter + 1 ELSE 0

NextCounter == IF counter < Modulus - 1 THEN counter + 1 ELSE 0

(* The command is written, under the next counter.  A validator that is    *)
(* mute does not get it, one that is gone makes the write fail.            *)
WriteCommand ==
    /\ exec.pc = "write"
    /\ counter' = NextCounter
    /\ \/ /\ ~port.open \/ link = "gone"
          /\ port' = [port EXCEPT !.valid = FALSE]
          /\ IF port.open THEN Retry("Err_Port") ELSE GiveUp("Err_Port")
          /\ UNCHANGED wire
       \/ /\ port.open /\ link # "gone"
          /\ exec' = [exec EXCEPT !.pc = "listen"]
          /\ LET request == [cmd |-> call[exec.caller].cmd, tag |-> counter', old |-> FALSE]
             IN  wire' = IF link = "up" THEN Append(wire, request) ELSE wire
          /\ UNCHANGED port
    /\ UNCHANGED <<call, tasks, line, monitor, link, poll, faults>>

(* The asynchronous read is started, if the port is still open. *)
Listen ==
    /\ exec.pc = "listen"
    /\ \/ ~port.open /\ port' = [port EXCEPT !.valid = FALSE] /\ GiveUp("Err_Port")
       \/ port.open /\ UNCHANGED port /\ exec' = [exec EXCEPT !.pc = "read"]
    /\ UNCHANGED <<call, tasks, counter, wire, line, monitor, link, poll, faults>>

(* The time limit ends the read, or the end of its port.  While an answer  *)
(* is due this is a fault: the validator is late, or the timer of an       *)
(* earlier attempt runs now and cancels the wrong read.                    *)
TimeOut ==
    /\ exec.pc = "read"
    /\ IF (wire = <<>> /\ line = <<>>) \/ ~port.open THEN UNCHANGED faults
       ELSE (line = <<>> \/ exec.stray) /\ Fault
    /\ Retry("Err_Port")
    /\ UNCHANGED <<call, tasks, counter, channel, poll>>

(* sendAck: most orders are not acknowledged by the service. *)
Acknowledged(cmd) == cmd # "Stack"

Ended(res, frame) ==
    /\ exec' = [exec EXCEPT !.pc = "done", !.res = res]
    /\ call' = [call EXCEPT ![exec.caller].frame = frame, ![exec.caller].own = frame.tag = counter]

(* Everything that is in the line is read; an answer is one frame.  Only a *)
(* NAK or a refusal must carry the counter.  What is written in reply      *)
(* shows a lost port.                                                      *)
Receive ==
    /\ exec.pc = "read" /\ port.open /\ line # <<>>
    /\ LET frame == IF Len(line) = 1 THEN Head(line) ELSE NoFrame
           mine  == frame.tag = counter
           reply == \/ frame.kind = "garbled"
                    \/ ~(mine /\ frame.kind \in {"nak", "illegal"}) /\ Acknowledged(call[exec.caller].cmd)
       IN  /\ CASE frame.kind = "garbled"         -> Retry("Err_Crc") /\ UNCHANGED call
                [] frame.kind = "nak" /\ mine     -> Retry("Err_Nak") /\ UNCHANGED call
                [] frame.kind = "illegal" /\ mine -> Ended("Err_Illegal", frame)
                [] OTHER                          -> Ended("Ok", frame)
           /\ port' = IF reply /\ link = "gone" THEN [port EXCEPT !.valid = FALSE] ELSE port
    /\ line' = <<>>
    /\ UNCHANGED <<tasks, counter, wire, monitor, link, poll, faults>>

(* Less than a frame is read, and the next attempt begins at once: the     *)
(* handler of the cancelled timer may find its variables gone, and those   *)
(* of the next attempt in their place.                                     *)
ReceiveShort ==
    /\ exec.pc = "read" /\ port.open /\ line # <<>>
    /\ Fault
    /\ \/ Retry("Err_Port")
       \/ /\ exec.tries + 1 < Retries
          /\ exec' = [exec EXCEPT !.pc = "write", !.stray = TRUE, !.tries = @ + 1]
    /\ line' = <<NoFrame>> \o Tail(line)
    /\ UNCHANGED <<call, tasks, counter, wire, port, monitor, link, poll>>

Outdated(s) == [i \in DOMAIN s |-> [s[i] EXCEPT !.old = TRUE]]

(* The callback: what is on its way from now on belongs to nobody. *)
Callback ==
    /\ exec.pc = "done"
    /\ call' = [call EXCEPT ![exec.caller].pc = "answered", ![exec.caller].res = exec.res]
    /\ exec' = Rest
    /\ wire' = Outdated(wire) /\ line' = Outdated(line)
    /\ UNCHANGED <<tasks, counter, port, monitor, link, poll, faults>>

Execute == TakeTask \/ WriteCommand \/ Listen \/ Receive \/ Callback

-----------------------------------------------------------------------------
(* reconnectLoop: it looks at the port, and closes and opens it later. *)
MonitorLooks ==
    /\ monitor = "watch" /\ ~port.valid
    /\ monitor' = "close"
    /\ UNCHANGED <<call, tasks, exec, counter, wire, line, port, link, poll, faults>>

MonitorCloses ==
    /\ monitor = "close"
    /\ monitor' = "open"
    /\ port' = [open |-> FALSE, valid |-> FALSE] /\ line' = <<>>
    /\ UNCHANGED <<call, tasks, exec, counter, wire, link, poll, faults>>

MonitorOpens ==
    /\ monitor = "open"
    /\ monitor' = "watch"
    /\ OpenPort
    /\ UNCHANGED <<call, tasks, exec, counter, wire, link, poll, faults>>

MonitorStep == MonitorLooks \/ MonitorCloses \/ MonitorOpens

-----------------------------------------------------------------------------
(* The validator and its line. *)

Send(kind) ==
    LET request == Head(wire)
    IN  /\ wire' = Tail(wire)
        /\ line' = IF port.open THEN Append(line, [kind |-> kind, tag |-> request.tag, old |-> request.old])
                   ELSE line
        /\ UNCHANGED <<call, tasks, exec, counter, port, monitor, link, poll>>

Respond == wire # <<>> /\ Send(Answer[Head(wire).cmd]) /\ UNCHANGED faults

RespondBadly ==
    /\ wire # <<>> /\ Fault
    /\ \E kind \in {"nak", "illegal", "garbled"} : Send(kind)

(* A request or its answer is lost. *)
Lose ==
    /\ wire # <<>> /\ Fault
    /\ wire' = Tail(wire)
    /\ UNCHANGED <<call, tasks, exec, counter, line, port, monitor, link, poll>>

(* The validator is switched off, or its port vanishes with all that is in it. *)
Leave(how) ==
    /\ link = "up" /\ Fault
    /\ link' = how
    /\ wire' = <<>>
    /\ line' = IF how = "gone" THEN <<>> ELSE line
    /\ UNCHANGED <<call, tasks, exec, counter, port, monitor, poll>>

ComeBack ==
    /\ link # "up"
    /\ link' = "up"
    /\ UNCHANGED <<call, tasks, exec, counter, wire, line, port, monitor, poll, faults>>

-----------------------------------------------------------------------------

Next ==
    \/ \E c \in Callers : (\E cmd \in Commands : Ask(c, cmd)) \/ Return(c)
    \/ Execute \/ TimeOut \/ ReceiveShort
    \/ MonitorStep
    \/ Respond \/ RespondBadly \/ Lose
    \/ \E how \in {"mute", "gone"} : Leave(how)
    \/ ComeBack

Spec == Init /\ [][Next]_vars

(* Executor, timer and monitor run; a caller returns with its answer.  The *)
(* polling thread gets m_portMutex again and again (strong fairness): the  *)
(* queue thread orders a little and then waits for what the polling thread *)
(* sees.  The validator answers what it got, or a fault is counted.        *)
Fairness ==
    /\ SF_vars(Ask(Poller, "Poll"))
    /\ \A c \in Callers : WF_vars(Return(c))
    /\ WF_vars(Execute \/ TimeOut)
    /\ WF_vars(MonitorStep)
    /\ WF_vars(Respond)

FairSpec == Spec /\ Fairness

-----------------------------------------------------------------------------
(* Properties. *)

(* An order that was carried out and one that was not are told apart: Stack *)
(* (or Reset, Return, ...) reports success only if the validator said so to *)
(* this call, never because of an answer that came too late for another.   *)
OkMeansDone ==
    \A c \in Callers :
        call[c].pc = "answered" /\ call[c].cmd = "Stack" /\ Verdict(c) = "Ok"
            => ~call[c].frame.old

(* An acknowledgement of the last attempt is taken for one, although the   *)
(* counter it is compared with is shared by all callers.                   *)
AckRecognised ==
    \A c \in Callers :
        call[c].pc = "answered" /\ call[c].cmd = "Stack" /\ call[c].res = "Ok"
        /\ call[c].frame.kind = "ack" /\ call[c].own
            => Verdict(c) = "Ok"

(* Every call returns, whatever has become of validator, port and line. *)
EveryCallReturns == \A c \in Callers : call[c].pc = "waiting" ~> call[c].pc = "idle"

(* Once the validator stays, it is heard again: polls find the port, and   *)
(* no thread closes what another has opened for good.                      *)
PollsAgain == <>[](link = "up") => <>[](port.valid /\ poll.bad = 0)

(* CashAcceptorSample.cpp:412: a bad state is reported after so many       *)
(* attempts to restore the port, and only if they were in vain.            *)
ReportedAfterAttempts == Reported => poll.bad >= PortAttempts

=============================================================================
