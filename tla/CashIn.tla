----------------------------- MODULE CashIn -----------------------------
(***************************************************************************)
(* Devices/CashAcceptorSample: one cash-in transaction after another.  The *)
(* queue thread executes CashInStart, CashIn, CashInEnd and Reset, one at  *)
(* a time; the polling thread follows the state of the bill validator and  *)
(* counts notes of its own accord; a client may stop the command that is   *)
(* executed, and the process may crash and start again.                    *)
(*                                                                         *)
(* Notes are recognised or not; an amount limit refuses a note as the item *)
(* limit does, so one limit stands for both.  "Escrow" is EscrowPos or     *)
(* Holding, "Failure" any state the commands treat as an error; the states *)
(* of a rejected note are left out, as such a note is never counted.  The  *)
(* BlockedWait of CashIn, which has seven weeks, never times out.  An      *)
(* order to the validator that is reported to have failed may have been    *)
(* carried out, its answer lost (DevicePort::sendCommand); one that is     *)
(* reported to have succeeded was.  The                                    *)
(* persistent file is read, changed and written as a whole; where the two  *)
(* threads can do so at once, reading and writing are steps of their own.  *)
(***************************************************************************)
EXTENDS Naturals

CONSTANTS Limits,      \* item limits a CashInStart may ask for, 0 for none
          Capacity,    \* of the cassette, in notes
          MaxNotes,    \* bound: notes inserted
          MaxCommands, \* bound: commands sent
          MaxCrashes   \* bound: crashes

ASSUME CashInAssumption ==
    /\ Limits \subseteq Nat
    /\ {Capacity, MaxNotes, MaxCommands, MaxCrashes} \subseteq Nat

VARIABLES tx,       \* cashInStatus_: status and counts of the transaction
          accepted, \* acceptedItems_: notes accepted since CashInStart
          limit,    \* cashInLimits_
          stacker,  \* the intermediate stacker, as reported
          unit,     \* unitCount_ of the cassette
          disk,     \* the persistent file: status, note list, cassette notes
          allowed,  \* m_bNoteIdsCached and m_ulNoteIds: "no", "yes", "unknown"
          poll,     \* the polling thread and the state machine
          call,     \* the queue thread and the command it executes
          dev,      \* the validator itself
          sent, crashes

txVars   == <<tx, accepted, limit, stacker, unit, disk>>
budget   == <<sent, crashes>>
vars     == <<txVars, allowed, poll, call, dev, budget>>

-----------------------------------------------------------------------------

DevStates == {"UnitDisabled", "Idling", "Accepting", "Escrow", "Stacking",
              "BillStacked", "Returning", "Initialize", "Failure"}
Commands  == {"CashInStart", "CashIn", "CashInEnd", "Reset"}
Pcs       == {"idle", "opening", "opened", "validate", "settle", "leave", "allow", "arm",
              "branch", "clear", "launch", "check", "register", "wait", "resolve", "count",
              "inhibit", "inhibiting", "deposit", "record", "write", "forget", "commit", "close"}

Files == [status : {"Ok", "Active", "Unknown"}, items : Nat, notes : Nat]

(* Nothing of the file is about to be written. *)
NoFile == [status |-> "Ok", items |-> 0, notes |-> 0]

(* No command is executed.  cancel and event are those of its token, took  *)
(* is accepted_, fresh the states newer than skipUIDs (two are as good as  *)
(* more), jammed bNoteStacked, note the id of the note to be counted, file *)
(* what is about to be written.                                            *)
Idle == [cmd |-> "none", pc |-> "idle", stop |-> FALSE, cancel |-> FALSE, event |-> "none",
         took |-> FALSE, fresh |-> 0, jammed |-> FALSE, note |-> FALSE, file |-> NoFile]

TypeOK ==
    /\ tx \in [status : {"Ok", "Active", "Unknown"}, items : Nat, unrec : Nat]
    /\ disk \in Files
    /\ accepted \in Nat /\ limit \in Limits \cup {0} /\ unit \in Nat
    /\ stacker \in {"Empty", "NotEmpty"}
    /\ allowed \in {"no", "yes", "unknown"}
    /\ poll \in [pc : {"poll", "change", "switch", "save"}, state : DevStates, prev : DevStates,
                 flow : DevStates \cup {"Unknown"}, note : BOOLEAN, jam : 0..3, file : Files]
    /\ call \in [cmd : Commands \cup {"none"}, pc : Pcs, stop : BOOLEAN, cancel : BOOLEAN,
                 event : {"none", "good", "bad", "cancelled", "expired", "stopped"},
                 took : BOOLEAN, fresh : 0..2, jammed : BOOLEAN, note : BOOLEAN, file : Files]
    /\ call.cmd = "none" => call = Idle
    /\ dev \in [enabled : BOOLEAN, order : {"none", "stack", "reset"},
                inside : BOOLEAN, inserted : Nat, stacked : Nat]
    /\ sent \in Nat /\ crashes \in Nat

(* The state machine has recorded nothing but its initial state; the first *)
(* state the validator is found in makes the polling thread reboot it.     *)
Booted == [pc |-> "poll", state |-> "Initialize", prev |-> "Initialize", flow |-> "Unknown",
           note |-> FALSE, jam |-> 0, file |-> NoFile]

(* An idle service whose cassette holds what it did at the last stop. *)
Init ==
    /\ tx = [status |-> "Ok", items |-> 0, unrec |-> 0]
    /\ unit \in 0..Capacity
    /\ disk = [status |-> "Ok", items |-> 0, notes |-> unit]
    /\ accepted = 0 /\ limit = 0
    /\ stacker = "Empty"
    /\ allowed = "unknown"
    /\ poll = Booted
    /\ call = Idle
    /\ dev = [enabled |-> FALSE, order |-> "none", inside |-> FALSE, inserted |-> 0, stacked |-> unit]
    /\ sent = 0 /\ crashes = 0

-----------------------------------------------------------------------------
(* The accounts. *)

(* SaveTransactionStatus: the status and the recognised counts; the number *)
(* of unrecognised notes is written too, and never read back.              *)
Save(status, items) == disk' = [disk EXCEPT !.status = status, !.items = items]

(* mutex_ of EscrowManager is not held by another step of the two threads. *)
MutexFree == call.pc # "opening" /\ poll.pc # "save"

(* Mutant: an unrecognised note goes to acceptedItems_ too. *)
AddNoteTwice(recognised) ==
    /\ tx' = IF recognised THEN [tx EXCEPT !.items = @ + 1] ELSE [tx EXCEPT !.unrec = @ + 1]
    /\ accepted' = accepted + 1

(* AddAcceptedBanknote and AddNoteNumberList: an unrecognised note is not  *)
(* one of the accepted items ...                                           *)
AddNote(recognised) ==
    /\ tx' = IF recognised THEN [tx EXCEPT !.items = @ + 1] ELSE [tx EXCEPT !.unrec = @ + 1]
    /\ accepted' = IF recognised THEN accepted + 1 ELSE accepted

(* ... and the new counts are saved.                                       *)
CountNote(recognised) == MutexFree /\ AddNote(recognised) /\ Save(tx.status, tx'.items)

NothingCounted == UNCHANGED <<tx, accepted, disk>>

(* CheckCashInLimitsForNote. *)
OverLimit == limit > 0 /\ tx.unrec + accepted + 1 > limit

(* A CashIn counts one note, within the limits.                            *)
Takes == ~call.took /\ ~OverLimit

(* Mutant: what a command has seen is still there for the next one. *)
EndKeeping == call' = [call EXCEPT !.cmd = "none", !.pc = "idle"]

(* Every step of a command that ends without another word. *)
End == call' = Idle

Goto(pc) == call' = [call EXCEPT !.pc = pc]

-----------------------------------------------------------------------------
(* The client and the process. *)

Send(cmd, pc) ==
    /\ call.cmd = "none"
    /\ sent < MaxCommands
    /\ sent' = sent + 1
    /\ call' = [call EXCEPT !.cmd = cmd, !.pc = pc]
    /\ UNCHANGED <<allowed, poll, dev, crashes>>

(* CashInStart, refused while a transaction is active or the stacker holds *)
(* something: OpenTransaction up to the first of its writes ...            *)
StartTransaction(l) ==
    /\ tx.status # "Active" /\ stacker = "Empty" /\ MutexFree
    /\ Send("CashInStart", "opening")
    /\ limit' = l
    /\ tx' = [status |-> "Active", items |-> 0, unrec |-> 0]
    /\ accepted' = 0
    /\ disk' = [disk EXCEPT !.status = "Active"]
    /\ UNCHANGED <<stacker, unit>>

(* ... the last, which empties the note list ... *)
TransactionOpened ==
    /\ call.pc = "opening"
    /\ disk' = [disk EXCEPT !.items = 0]
    /\ Goto("opened")
    /\ UNCHANGED <<tx, accepted, limit, stacker, unit, allowed, poll, dev, budget>>

(* ... and CashInStart, which clears the accepted items once more. *)
ClearAccepted ==
    /\ call.pc = "opened"
    /\ accepted' = 0
    /\ End
    /\ UNCHANGED <<tx, limit, stacker, unit, disk, allowed, poll, dev, budget>>

(* CashIn and CashInEnd are refused by their handlers outside of an active *)
(* transaction; Reset never is.                                            *)
SendCommand ==
    /\ \/ tx.status = "Active" /\ \E cmd \in {"CashIn", "CashInEnd"} : Send(cmd, "validate")
       \/ Send("Reset", "clear")
    /\ UNCHANGED txVars

(* The client leaves: the command's stop source is asked to stop, and the  *)
(* stop callback, once it is there, cancels the token.                     *)
StopCommand ==
    /\ call.cmd \in {"CashIn", "CashInEnd", "Reset"}
    /\ ~call.stop
    /\ call' = [call EXCEPT !.stop = TRUE,
                  !.cancel = @ \/ (call.cmd # "Reset"
                                   /\ call.pc \in {"branch", "check", "register", "wait"})]
    /\ UNCHANGED <<txVars, allowed, poll, dev, budget>>

(* Mutant: an active transaction stays active. *)
RestartStillActive ==
    /\ tx' = [status |-> disk.status, items |-> disk.items, unrec |-> 0]
    /\ accepted' = disk.items
    /\ unit' = disk.notes
    /\ limit' = 0 /\ stacker' = "Empty" /\ allowed' = "unknown"
    /\ poll' = Booted /\ call' = Idle
    /\ dev' = [dev EXCEPT !.enabled = FALSE, !.order = "none"]
    /\ UNCHANGED <<disk, sent>>

(* What is left of a process that dies is its file: LoadTransactionStatus  *)
(* takes an active transaction for one of unknown outcome, and Initialize  *)
(* fills the cassette with the notes of the file.                          *)
Restart ==
    LET status == IF disk.status = "Active" THEN "Unknown" ELSE disk.status
    IN  /\ tx' = [status |-> status, items |-> disk.items, unrec |-> 0]
        /\ disk' = [disk EXCEPT !.status = status]
        /\ accepted' = disk.items
        /\ unit' = disk.notes
        /\ limit' = 0 /\ stacker' = "Empty" /\ allowed' = "unknown"
        /\ poll' = Booted /\ call' = Idle
        /\ dev' = [dev EXCEPT !.enabled = FALSE, !.order = "none"]
        /\ UNCHANGED sent

Crash ==
    /\ crashes < MaxCrashes
    /\ crashes' = crashes + 1
    /\ Restart

-----------------------------------------------------------------------------
(* The validator, and the polling thread that follows it. *)

Rest == IF dev.enabled THEN "Idling" ELSE "UnitDisabled"

(* The states the validator may be found in next.  A note in escrow is     *)
(* stacked only on demand, and may come back at any time.                  *)
MayBecome ==
    (CASE poll.state = "UnitDisabled" -> IF dev.enabled THEN {"Idling"} ELSE {}
       [] poll.state = "Idling"       -> IF ~dev.enabled THEN {"UnitDisabled"}
                                         ELSE IF dev.inserted < MaxNotes THEN {"Accepting"} ELSE {}
       [] poll.state = "Accepting"    -> {"Escrow", "Returning"}
       [] poll.state = "Escrow"       -> {"Returning"} \cup
                                         (IF dev.order = "stack" THEN {"Stacking", "BillStacked"} ELSE {})
       [] poll.state = "Stacking"     -> {"BillStacked"}
       [] poll.state \in {"BillStacked", "Returning"} -> {Rest}
       [] poll.state = "Initialize"   -> IF dev.inside THEN {"BillStacked", "Returning"} ELSE {"UnitDisabled"}
       [] poll.state = "Failure"      -> {})
    \cup (IF dev.order = "reset" /\ poll.state # "Initialize" THEN {"Initialize"} ELSE {})
    \cup (IF dev.inside /\ poll.state # "Initialize" THEN {"Failure"} ELSE {})

(* One poll finds the validator in a new state: m_State and the note id.   *)
PollRead(s, recognised) ==
    /\ poll.pc = "poll"
    /\ s \in MayBecome \ {poll.state}
    /\ recognised => s = "Escrow"
    /\ poll' = [poll EXCEPT !.pc = "change", !.prev = poll.state, !.state = s,
                  !.note = CASE s = "Escrow" -> recognised
                             [] s \in {"Accepting", "Idling", "UnitDisabled"} -> FALSE
                             [] OTHER -> @]
    /\ dev' = [dev EXCEPT
                 !.inserted = IF s = "Accepting" THEN @ + 1 ELSE @,
                 !.stacked  = IF s = "BillStacked" THEN @ + 1 ELSE @,
                 !.inside   = s = "Accepting" \/ (@ /\ s \notin {"BillStacked", "Returning"}),
                 !.enabled  = @ /\ s # "Initialize",
                 !.order    = IF s \in {"Initialize", "Stacking", "BillStacked", "Returning"}
                                 \/ (@ = "stack" /\ s # "Escrow")
                              THEN "none" ELSE @]
    /\ UNCHANGED <<txVars, allowed, call, budget>>

(* What each command waits for: its good outcomes and its bad ones. *)
Good(cmd) == CASE cmd = "CashIn"    -> {"Escrow", "BillStacked"}
               [] cmd = "CashInEnd" -> {"BillStacked"}
               [] cmd = "Reset"     -> {"UnitDisabled", "Idling"}
               [] OTHER             -> {}
Bad(cmd)  == CASE cmd = "CashInEnd" -> {"Returning", "Failure"}
               [] OTHER             -> {"Failure"}

Outcome(s) ==
    IF s \in Good(call.cmd) THEN "good" ELSE IF s \in Bad(call.cmd) THEN "bad" ELSE "none"

(* CashIn listens from its subscription to the end of the executor, Reset  *)
(* from its subscriptions to the return of PowerUpManager::Reset.          *)
Listening(cmd) ==
    call.cmd = cmd /\ call.pc \in {"check", "register", "wait", "resolve", "count",
                                      "inhibit", "inhibiting"}

(* An order whose answer is not looked at, or says that it failed.  The    *)
(* order to return a note, which comes back at any time anyway, only takes *)
(* the place of the order to stack it.                                     *)
Ordered(order) == dev' \in {dev, [dev EXCEPT !.order = order]}

(* ChangeState records the state, runs the handlers (the one of CashIn     *)
(* counts a stacked note and cancels the token; the one of _inhibit sends  *)
(* a note in escrow back; those of Reset follow the way of a jammed note)  *)
(* and gives its outcome to a registered wait.  Reset sees only what lies  *)
(* two states after its start, and looks at all of that when it checks.    *)
ChangeState ==
    LET s       == poll.state
        stacked == s = "BillStacked" /\ Listening("CashIn")
        takes   == stacked /\ Takes
        fresh   == IF Listening("Reset") /\ call.fresh < 2 THEN call.fresh + 1 ELSE call.fresh
        seen    == IF call.cmd = "Reset" /\ fresh < 2 THEN "none" ELSE Outcome(s)
        keeps   == \/ seen = "none"
                   \/ call.pc = "check" /\ (call.cmd # "Reset" \/ call.event = "good")
                   \/ call.pc \notin {"check", "wait"}
    IN  /\ poll.pc = "change"
        /\ poll' = [poll EXCEPT !.pc = "switch", !.flow = s,
                      !.jam = CASE s = "Failure" -> 1
                                [] s = "Initialize" /\ @ = 1 -> 2
                                [] s = "BillStacked" /\ @ = 2 -> 3
                                [] OTHER -> 0]
        /\ IF takes THEN CountNote(poll.note) ELSE NothingCounted
        /\ call' = [call EXCEPT
                      !.took    = @ \/ takes,
                      !.cancel  = @ \/ stacked,
                      !.fresh   = fresh,
                      !.jammed  = @ \/ (Listening("Reset") /\ s = "UnitDisabled" /\ poll.jam = 3),
                      !.event   = IF keeps THEN @ ELSE seen]
        /\ IF s = "Escrow" /\ call.pc = "inhibiting" THEN Ordered("none") ELSE UNCHANGED dev
        /\ UNCHANGED <<limit, stacker, unit, allowed, budget>>

(* Mutant: notes that come back take the counts of the transaction along. *)
PollSwitchResetting ==
    LET counts  == poll.state = "BillStacked" /\ poll.prev = "Stacking"
        resets  == poll.state = "Returning" /\ tx.status = "Active"
    IN  /\ poll.pc = "switch"
        /\ counts \/ resets => MutexFree
        /\ IF counts
           THEN /\ AddNote(poll.note)
                /\ poll' = [poll EXCEPT !.pc = "save", !.prev = poll.state, !.file = [disk EXCEPT !.items = tx'.items]]
           ELSE /\ poll' = [poll EXCEPT !.pc = "poll", !.prev = poll.state]
                /\ tx' = IF resets THEN [tx EXCEPT !.items = 0, !.unrec = 0] ELSE tx
                /\ UNCHANGED accepted
        /\ UNCHANGED <<limit, stacker, unit, disk, allowed, call, dev, budget>>

(* The polling thread after ChangeState.  A note whose stacking it saw is  *)
(* counted once more, without a look at the limits, and the file is read.  *)
(* When a note returns to the customer, ResetNoteNumberList drops the      *)
(* counts of an active transaction that has none, and then reads the null  *)
(* it left: the process dies.  The previous state is not looked at again.  *)
PollSwitch ==
    LET counts == poll.state = "BillStacked" /\ poll.prev = "Stacking"
        resets == poll.state = "Returning" /\ tx.status = "Active"
    IN  /\ poll.pc = "switch"
        /\ counts \/ resets => MutexFree
        /\ IF resets /\ tx.items + tx.unrec = 0
           THEN Restart /\ UNCHANGED crashes
           ELSE /\ IF counts
                   THEN /\ AddNote(poll.note)
                        /\ poll' = [poll EXCEPT !.pc = "save", !.prev = poll.state,
                                      !.file = [disk EXCEPT !.status = tx.status, !.items = tx'.items]]
                   ELSE poll' = [poll EXCEPT !.pc = "poll", !.prev = poll.state] /\ UNCHANGED <<tx, accepted>>
                /\ UNCHANGED <<limit, stacker, unit, disk, allowed, call, dev, budget>>

(* The file is written, with whatever else it held when it was read. *)
PollSave ==
    /\ poll.pc = "save"
    /\ disk' = poll.file
    /\ poll' = [poll EXCEPT !.pc = "poll", !.file = NoFile]
    /\ UNCHANGED <<tx, accepted, limit, stacker, unit, allowed, call, dev, budget>>

-----------------------------------------------------------------------------
(* CashIn. *)

CallStep(cmd, pc) == call.cmd = cmd /\ call.pc = pc /\ UNCHANGED <<poll, budget>>

(* ValidateProcessingConditions and, in it, IsReadyForCashIn: at once ...  *)
CashInValidate ==
    /\ CallStep("CashIn", "validate")
    /\ IF call.stop \/ unit >= Capacity \/ poll.state = "Failure" THEN End
       ELSE CASE poll.state \in {"Initialize", "Stacking"} -> Goto("settle")
              [] poll.state = "Returning"                  -> Goto("leave")
              [] OTHER                                     -> Goto("allow")
    /\ UNCHANGED <<txVars, allowed, dev>>

(* ... or after a short sleep, or within 60 seconds for a note to leave.   *)
CashInReady ==
    /\ \/ /\ CallStep("CashIn", "settle")
          /\ IF poll.state = "UnitDisabled" THEN Goto("allow") ELSE End
       \/ /\ CallStep("CashIn", "leave")
          /\ IF poll.state \in {"UnitDisabled", "Idling", "Escrow", "Accepting"}
             THEN Goto("allow") ELSE End
    /\ UNCHANGED <<txVars, allowed, dev>>

(* AllowAccept: nothing is sent when the cache says it was; the validator  *)
(* may refuse, or accept notes all the same when only its answer was lost. *)
Allow ==
    /\ CallStep("CashIn", "allow")
    /\ \/ allowed = "yes" /\ Goto("arm") /\ UNCHANGED <<allowed, dev>>
       \/ allowed # "yes" /\ Goto("arm") /\ allowed' = "yes" /\ dev' = [dev EXCEPT !.enabled = TRUE]
       \/ /\ allowed # "yes" /\ End /\ UNCHANGED allowed
          /\ dev' \in {dev, [dev EXCEPT !.enabled = TRUE]}
    /\ UNCHANGED txVars

(* Mutant: a stop requested before the callback was set is not noticed. *)
ArmLate ==
    /\ CallStep("CashIn", "arm")
    /\ Goto("check")
    /\ UNCHANGED <<txVars, allowed, dev>>

(* The token, its stop callback (called at once for a command that is      *)
(* stopped already) and the subscriptions.                                 *)
Arm ==
    /\ CallStep("CashIn", "arm")
    /\ call' = [call EXCEPT !.pc = "check", !.cancel = call.stop]
    /\ UNCHANGED <<txVars, allowed, dev>>

(* BlockedWait: look at what is there, register, wait. *)
Blocked(pc) == /\ \E cmd \in {"CashIn", "CashInEnd", "Reset"} : CallStep(cmd, pc)
               /\ UNCHANGED <<txVars, allowed, dev>>

CheckCurrent ==
    /\ Blocked("check")
    /\ LET seen == IF call.cmd = "Reset" THEN call.event ELSE Outcome(poll.flow)
       IN  call' = [call EXCEPT !.event = seen, !.pc = IF seen = "none" THEN "register" ELSE "resolve"]

Register == Blocked("register") /\ Goto("wait")

WaitEnds ==
    /\ Blocked("wait")
    /\ call.cancel \/ call.event # "none"
    /\ call' = [call EXCEPT !.pc = "resolve", !.event = IF call.cancel THEN "cancelled" ELSE @]

(* Thirty seconds are over in CashInEnd or Reset. *)
WaitExpires ==
    /\ Blocked("wait")
    /\ call.cmd # "CashIn" /\ ~call.cancel /\ call.event = "none"
    /\ call' = [call EXCEPT !.pc = "resolve", !.event = "expired"]

(* The end of CashIn: acceptance is forbidden, unless a note it took is    *)
(* still in escrow.                                                        *)
ScopeExit(took) ==
    IF took /\ poll.state = "Escrow"
    THEN End
    ELSE call' = [call EXCEPT !.pc = "inhibit", !.took = took, !.event = "stopped"]

(* After its wait CashIn first looks at the stop token; a cancelled wait   *)
(* or an error forbids acceptance at once; a note in escrow, or a stacked  *)
(* one that the handler did not count, is found to be within the limits    *)
(* and is counted later: nothing keeps the handler from counting it too.   *)
CashInResolve ==
    /\ CallStep("CashIn", "resolve")
    /\ \/ call.stop /\ ScopeExit(call.took) /\ UNCHANGED stacker
       \/ ~call.stop /\ call.event # "good" /\ Goto("inhibit") /\ UNCHANGED stacker
       \/ /\ ~call.stop /\ call.event = "good"
          /\ IF Takes
             THEN call' = [call EXCEPT !.pc = "count", !.note = poll.note] /\ UNCHANGED stacker
             ELSE ScopeExit(call.took) /\ stacker' = IF call.took THEN "NotEmpty" ELSE stacker
    /\ UNCHANGED <<tx, accepted, limit, unit, disk, allowed, dev>>

CashInCount ==
    /\ CallStep("CashIn", "count")
    /\ CountNote(call.note)
    /\ stacker' = "NotEmpty"
    /\ ScopeExit(TRUE)
    /\ UNCHANGED <<limit, unit, allowed, dev>>

(* What follows _inhibit: the end of CashInEnd, or that of CashIn, with    *)
(* another _inhibit after the one of a cancelled wait or of an error.      *)
AfterInhibit ==
    /\ stacker' = IF call.event = "cancelled" /\ call.took THEN "NotEmpty" ELSE stacker
    /\ IF call.cmd = "CashInEnd" THEN Goto("close")
       ELSE IF call.event \in {"cancelled", "bad"} THEN ScopeExit(call.took) ELSE End
    /\ UNCHANGED <<tx, accepted, limit, unit, disk>>

(* What of a note before the stacker: it is sent back, and nobody looks    *)
(* whether the validator has taken the order.                              *)
SendBack == {dev.order} \cup (IF poll.state \in {"Escrow", "Accepting"} THEN {"none"} ELSE {})

(* The validators _inhibit may leave behind when its order to accept       *)
(* nothing is reported to have succeeded, or to have failed.               *)
Forbidden == {[dev EXCEPT !.order = o, !.enabled = FALSE] : o \in SendBack}
Refusing  == {[dev EXCEPT !.order = o] : o \in SendBack} \cup Forbidden

(* Mutant: a refusal of the validator is not noticed. *)
InhibitUnchecked ==
    /\ \E cmd \in {"CashIn", "CashInEnd"} : CallStep(cmd, "inhibit")
    /\ \/ allowed = "no" /\ AfterInhibit /\ UNCHANGED dev
       \/ /\ allowed # "no" /\ AfterInhibit
          /\ dev' \in Refusing
       \/ /\ allowed # "no" /\ Goto("inhibiting") /\ UNCHANGED txVars
          /\ dev' \in Forbidden
    /\ allowed' = IF call'.pc = "inhibiting" THEN allowed ELSE "no"

(* _inhibit of NotesInhibitManager, called by CashIn and by CashInEnd: a   *)
(* note before the stacker is sent back, acceptance is forbidden, which    *)
(* the validator may refuse ...                                            *)
Inhibit ==
    /\ \E cmd \in {"CashIn", "CashInEnd"} : CallStep(cmd, "inhibit")
    /\ \/ allowed = "no" /\ AfterInhibit /\ UNCHANGED dev
       \/ /\ allowed # "no" /\ AfterInhibit
          /\ dev' \in Refusing
       \/ /\ allowed # "no" /\ Goto("inhibiting") /\ UNCHANGED txVars
          /\ dev' \in Forbidden
    /\ UNCHANGED allowed

(* ... and confirmed by UnitDisabled, or ended by an error or given up     *)
(* after 30 seconds.                                                       *)
Inhibited ==
    /\ \E cmd \in {"CashIn", "CashInEnd"} : CallStep(cmd, "inhibiting")
    /\ AfterInhibit
    /\ \/ poll.flow = "UnitDisabled" /\ allowed' = "no"
       \/ allowed' = "unknown"
    /\ UNCHANGED dev

-----------------------------------------------------------------------------
(* CashInEnd. *)

Close == MutexFree /\ tx' = [tx EXCEPT !.status = "Ok"] /\ Save("Ok", tx.items)

(* A transaction without a note in escrow or stacked is closed. *)
CashInEndValidate ==
    /\ CallStep("CashInEnd", "validate")
    /\ IF call.stop \/ accepted = 0 \/ poll.state \notin {"Escrow", "BillStacked"}
       THEN Close /\ End
       ELSE Goto("branch") /\ UNCHANGED <<tx, disk>>
    /\ UNCHANGED <<accepted, limit, stacker, unit, allowed, dev>>

(* m_State is read once more: a stacked note is deposited at once, any     *)
(* other is to be stacked; an error of Stack ends the command.             *)
CashInEndBranch ==
    /\ CallStep("CashInEnd", "branch")
    /\ \/ poll.state = "BillStacked" /\ Goto("deposit") /\ UNCHANGED dev
       \/ poll.state # "BillStacked" /\ Goto("check") /\ dev' = [dev EXCEPT !.order = "stack"]
       \/ poll.state # "BillStacked" /\ End /\ Ordered("stack")
    /\ UNCHANGED <<txVars, allowed>>

CashInEndResolve ==
    /\ CallStep("CashInEnd", "resolve")
    /\ IF ~call.stop /\ call.event = "good" THEN Goto("deposit") ELSE End
    /\ UNCHANGED <<txVars, allowed, dev>>

(* BuildMovementAndCommit, step by step: the count of the cassette, the    *)
(* notes of the cassette in the file, the transaction in the file, the one *)
(* in memory.                                                              *)
Deposit ==
    /\ CallStep("CashInEnd", "deposit")
    /\ unit' = unit + accepted
    /\ Goto("record")
    /\ UNCHANGED <<tx, accepted, limit, stacker, disk, allowed, dev>>

(* addCashUnitNotes, of CashInEnd or of Reset, holds no mutex between      *)
(* reading the file ...                                                    *)
Record ==
    /\ \E cmd \in {"CashInEnd", "Reset"} : CallStep(cmd, "record")
    /\ call' = [call EXCEPT !.pc = "write", !.file = [disk EXCEPT !.notes = @ + accepted]]
    /\ UNCHANGED <<txVars, allowed, dev>>

(* ... and writing it. *)
Write ==
    /\ \E cmd \in {"CashInEnd", "Reset"} : CallStep(cmd, "write")
    /\ disk' = call.file
    /\ IF call.cmd = "Reset" THEN End ELSE call' = [call EXCEPT !.pc = "forget", !.file = NoFile]
    /\ UNCHANGED <<tx, accepted, limit, stacker, unit, allowed, dev>>

Forget ==
    /\ CallStep("CashInEnd", "forget")
    /\ Save("Ok", 0)
    /\ Goto("commit")
    /\ UNCHANGED <<tx, accepted, limit, stacker, unit, allowed, dev>>

Commit ==
    /\ CallStep("CashInEnd", "commit")
    /\ accepted' = 0 /\ limit' = 0 /\ stacker' = "Empty"
    /\ Goto("inhibit")
    /\ UNCHANGED <<tx, unit, disk, allowed, dev>>

CloseTransaction ==
    /\ CallStep("CashInEnd", "close")
    /\ Close /\ End
    /\ UNCHANGED <<accepted, limit, stacker, unit, allowed, dev>>

-----------------------------------------------------------------------------
(* Reset. *)

(* ResetDeviceAsync, unless it is stopped during its first second. *)
ResetClear ==
    /\ CallStep("Reset", "clear")
    /\ IF call.stop
       THEN End /\ UNCHANGED <<accepted, limit, stacker>>
       ELSE accepted' = 0 /\ limit' = 0 /\ stacker' = "Empty" /\ Goto("launch")
    /\ UNCHANGED <<tx, unit, disk, allowed, dev>>

(* PowerUpManager::Reset: note id and uid of the moment, then the reset of *)
(* the validator; after Err_Port it is rebooted and waited for all the     *)
(* same, after any other error it is not.                                  *)
ResetLaunch ==
    /\ CallStep("Reset", "launch")
    /\ \/ /\ call' = [call EXCEPT !.pc = "check", !.note = poll.note]
          /\ Ordered("reset")
       \/ End /\ Ordered("reset")
    /\ UNCHANGED <<txVars, allowed>>

(* A jammed note the reset has stacked is counted and put in the cassette, *)
(* with all the notes accepted since the reset began.                      *)
ResetResolve ==
    /\ CallStep("Reset", "resolve")
    /\ IF call.event = "good" /\ call.jammed
       THEN CountNote(call.note) /\ Goto("record")
       ELSE NothingCounted /\ End
    /\ UNCHANGED <<limit, stacker, unit, allowed, dev>>

-----------------------------------------------------------------------------

(* What the queue thread does by itself; every wait among it has a time    *)
(* limit, except the one of CashIn.                                        *)
QueueStep ==
    \/ TransactionOpened \/ ClearAccepted
    \/ CashInValidate \/ CashInReady \/ Allow \/ Arm
    \/ CheckCurrent \/ Register \/ WaitEnds \/ WaitExpires
    \/ CashInResolve \/ CashInCount \/ Inhibit \/ Inhibited
    \/ CashInEndValidate \/ CashInEndBranch \/ CashInEndResolve
    \/ Deposit \/ Record \/ Write \/ Forget \/ Commit \/ CloseTransaction
    \/ ResetClear \/ ResetLaunch \/ ResetResolve

Poller ==
    \/ \E s \in DevStates, recognised \in BOOLEAN : PollRead(s, recognised)
    \/ ChangeState
    \/ PollSwitch
    \/ PollSave

Next ==
    \/ \E l \in Limits : StartTransaction(l)
    \/ SendCommand
    \/ StopCommand
    \/ Crash
    \/ QueueStep
    \/ Poller

Spec == Init /\ [][Next]_vars

(* The queue thread keeps running, and the polling thread does not stop    *)
(* between reading and writing.  Nothing is assumed of the client, of the  *)
(* validator or of the polling thread elsewhere.                           *)
FairSpec == Spec /\ WF_vars(QueueStep) /\ WF_vars(PollSave)

-----------------------------------------------------------------------------
(* Properties. *)

(* Accepted items are among the notes the transaction counts: the list     *)
(* that is deposited never runs ahead of the one reported to the client,   *)
(* whichever thread counts and whichever command clears.                   *)
AcceptedCounted == accepted <= tx.items

(* The cache says that acceptance is forbidden, so that the next _inhibit  *)
(* is skipped, and the validator accepts notes.                            *)
Misled == allowed = "no" /\ dev.enabled

(* A skipped _inhibit leaves no open validator behind, whatever the        *)
(* polling thread, a Reset or a failed command did since, except in one    *)
(* way: an order to accept notes was carried out and its answer lost, so   *)
(* that _allow leaves the cache at "no" and CashIn ends.                   *)
MisledOnlyByLostAnswer ==
    [][Misled' => Misled \/ (call.cmd = "CashIn" /\ call.pc = "allow" /\ call'.cmd = "none")]_vars

(* What the file does not know yet: a deposit, from the moment its notes   *)
(* are written to the moment the transaction is closed, a transaction that *)
(* is being opened, a note that is being saved.                            *)
Depositing ==
    call.cmd = "CashInEnd" /\ call.pc \in {"forget", "commit", "inhibit", "inhibiting", "close"}

Unsaved ==
    (IF call.pc = "opening" THEN {"open"} ELSE {})
    \cup (IF poll.pc = "save" THEN {"save"} ELSE {})
    \cup (IF Depositing THEN {"deposit"} ELSE {})

(* What the client is promised, whichever thread counts, saves and clears, *)
(* and wherever the process dies: Transaction.                             *)
Client == INSTANCE Transaction WITH
              status <- tx.status, items <- tx.items, unrec <- tx.unrec, unsaved <- Unsaved

TransactionKept == Client!Spec

(* CashInStart, a write of the file or a deposit is not finished. *)
Unsettled ==
    \/ call.pc = "opening" \/ poll.pc = "save"
    \/ call.pc \in {"record", "write", "forget", "commit", "inhibit", "inhibiting", "close"}
       /\ call.cmd # "CashIn"

(* A crash in an open transaction is never silent: after the restart its   *)
(* outcome is unknown and its recognised notes are all there, unless the   *)
(* crash falls into CashInStart, into a write of the file or into a        *)
(* deposit (EscrowManager::LoadTransactionStatus).                         *)
CrashRecovered ==
    [][crashes' # crashes /\ tx.status = "Active" /\ ~Unsettled
         => tx'.status = "Unknown" /\ tx'.items = tx.items /\ accepted' = tx.items]_vars

(* What an active transaction has counted is never taken back while it     *)
(* stays active, not even when a note returns (ResetNoteNumberList).       *)
CountsKept ==
    [][tx.status = "Active" /\ tx'.status = "Active"
         => tx'.items >= tx.items /\ tx'.unrec >= tx.unrec]_vars

(* A command its client has stopped comes to an end, wherever the stop     *)
(* finds it: before its token exists, between check and registration, in   *)
(* the wait.                                                               *)
StopEndsCommand == call.stop ~> call.cmd = "none"

(* PersistentDatasHandler.cpp:420: the file holds the number of notes in   *)
(* the cassette (stated as: of no more than were ever stacked there).      *)
CassetteCountExact == disk.notes <= dev.stacked

=============================================================================
