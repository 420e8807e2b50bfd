------------------------ MODULE CashInRefinement ------------------------
(***************************************************************************)
(* Proof that CashIn keeps the promise of Transaction, for any limits and  *)
(* capacity and for any number of notes, commands and crashes.  On top of  *)
(* the invariant of CashInProofs it takes three facts: a CashIn or a       *)
(* CashInEnd is in an active transaction; the file is the transaction of   *)
(* now, but for one note while the polling thread saves and for any of     *)
(* them while a deposit is recorded; and what CashInEnd is about to write  *)
(* was counted.                                                            *)
(***************************************************************************)
EXTENDS CashInProofs

CommandInv == call.cmd \in {"CashIn", "CashInEnd"} => tx.status = "Active"

(* Nothing of the transaction is being put down as a deposit: the file is  *)
(* the one in memory, but for the note that is being saved.                *)
FileOfNow ==
    ~Depositing /\ call.pc # "opening" =>
        /\ disk.status = tx.status
        /\ disk.items = tx.items \/ (poll.pc = "save" /\ tx.items = disk.items + 1)

(* A deposit is of notes that were counted. *)
DepositCounted ==
    /\ Depositing => disk.items <= tx.items
    /\ call.cmd = "CashInEnd" /\ call.pc = "write" => call.file.items <= tx.items

TInv == CommandInv /\ FileOfNow /\ DepositCounted

(* What a step of CashIn is to the client. *)
Simulated == TInv' /\ (Client!Next \/ UNCHANGED Client!tvars)

-----------------------------------------------------------------------------
(* What the file does not know yet. *)

LEMMA UnsavedFacts ==
    /\ Unsaved \subseteq {"open", "save", "deposit"}
    /\ "open" \in Unsaved <=> call.pc = "opening"
    /\ "save" \in Unsaved <=> poll.pc = "save"
    /\ "deposit" \in Unsaved <=> Depositing
BY DEF Unsaved

LEMMA UnsavedNext ==
    /\ Unsaved' \subseteq {"open", "save", "deposit"}
    /\ "open" \in Unsaved' <=> call'.pc = "opening"
    /\ "save" \in Unsaved' <=> poll'.pc = "save"
    /\ "deposit" \in Unsaved' <=> Depositing'
BY DEF Unsaved

(* A transaction is not opened while a deposit is recorded. *)
LEMMA OpeningAlone == call.pc = "opening" => ~Depositing
BY DEF Depositing

(* One note more, recognised or not. *)
LEMMA AddNoteExact ==
    ASSUME Typed, NEW recognised \in BOOLEAN, AddNote(recognised)
    PROVE  /\ tx'.status = tx.status
           /\ \/ tx'.items = tx.items + 1 /\ tx'.unrec = tx.unrec
              \/ tx'.items = tx.items /\ tx'.unrec = tx.unrec + 1
<1>1. CASE recognised
  <2>1. tx' = [tx EXCEPT !.items = tx.items + 1]
    BY <1>1 DEF AddNote
  <2>2. QED
    BY <2>1 DEF Typed, Txs
<1>2. CASE ~recognised
  <2>1. tx' = [tx EXCEPT !.unrec = tx.unrec + 1]
    BY <1>2 DEF AddNote
  <2>2. QED
    BY <2>1 DEF Typed, Txs
<1>3. QED
  BY <1>1, <1>2

-----------------------------------------------------------------------------
(* Steps the client does not see. *)

LEMMA QuietStep ==
    ASSUME TInv, UNCHANGED <<tx, disk>>,
           poll'.pc = "save" <=> poll.pc = "save",
           call'.pc = "opening" <=> call.pc = "opening",
           Depositing' <=> Depositing,
           call'.cmd \in {"CashIn", "CashInEnd"} => tx.status = "Active",
           call'.cmd = "CashInEnd" /\ call'.pc = "write" =>
              call.cmd = "CashInEnd" /\ call.pc = "write" /\ call'.file = call.file
    PROVE  Simulated
<1>1. Unsaved' = Unsaved
  BY DEF Unsaved
<1>2. UNCHANGED Client!tvars
  BY <1>1 DEF Client!tvars
<1>3. TInv'
  BY DEF TInv, CommandInv, FileOfNow, DepositCounted
<1>4. QED
  BY <1>2, <1>3 DEF Simulated

(* A command goes on to a place where it neither deposits nor writes. *)
LEMMA CommandGoesOn ==
    ASSUME TInv, UNCHANGED <<tx, disk, poll>>, call.pc # "opening", ~Depositing,
           \/ call' = Idle
           \/ /\ call'.cmd = call.cmd /\ call'.pc \notin {"opening", "write"}
              /\ call.cmd = "CashInEnd" =>
                    call'.pc \in {"branch", "check", "register", "wait", "resolve", "deposit", "record"}
    PROVE  Simulated
<1>1. ~Depositing' /\ call'.pc # "opening"
  BY IdleFacts DEF Depositing
<1>2. call'.cmd \in {"CashIn", "CashInEnd"} => tx.status = "Active"
  BY IdleFacts DEF TInv, CommandInv
<1>3. ~(call'.cmd = "CashInEnd" /\ call'.pc = "write")
  BY IdleFacts
<1>4. QED
  BY <1>1, <1>2, <1>3, QuietStep

LEMMA WaitingQuiet ==
    ASSUME IInv, TInv, CheckCurrent \/ Register \/ WaitEnds \/ WaitExpires
    PROVE  Simulated
<1>1. Typed
  BY TypedIsTypeOK DEF IInv
<1>2. UNCHANGED <<tx, disk, poll>> /\ call.pc \in {"check", "register", "wait"}
  BY DEF CheckCurrent, Register, WaitEnds, WaitExpires, Blocked, CallStep, txVars
<1>3. call'.cmd = call.cmd /\ call'.pc \in {"register", "wait", "resolve"}
  <2>1. CASE CheckCurrent
    <3>1. PICK seen, pc : /\ pc \in {"register", "resolve"}
                          /\ call' = [call EXCEPT !.event = seen, !.pc = pc]
      <4> DEFINE seen == IF call.cmd = "Reset" THEN call.event ELSE Outcome(poll.flow)
                 pc   == IF seen = "none" THEN "register" ELSE "resolve"
      <4>1. call' = [call EXCEPT !.event = seen, !.pc = pc]
        BY <2>1 DEF CheckCurrent
      <4>2. pc \in {"register", "resolve"}
        OBVIOUS
      <4> HIDE DEF seen, pc
      <4>3. QED
        BY <4>1, <4>2
    <3>2. QED
      BY <1>1, <3>1 DEF Typed, Calls
  <2>2. CASE Register
    BY <1>1, <2>2, GotoFacts DEF Register, Pcs
  <2>3. CASE WaitEnds \/ WaitExpires
    BY <1>1, <2>3 DEF WaitEnds, WaitExpires, Typed, Calls
  <2>4. QED
    BY <2>1, <2>2, <2>3
<1>4. ~Depositing
  BY <1>2 DEF Depositing
<1>5. QED
  BY <1>2, <1>3, <1>4, CommandGoesOn

LEMMA CashInQuiet ==
    ASSUME IInv, TInv, CashInValidate \/ CashInReady \/ Allow \/ Arm \/ CashInResolve
    PROVE  Simulated
<1>1. Typed
  BY TypedIsTypeOK DEF IInv
<1>2. /\ UNCHANGED <<tx, disk, poll>> /\ call.cmd = "CashIn"
      /\ call.pc \in {"validate", "settle", "leave", "allow", "arm", "resolve"}
  BY DEF CashInValidate, CashInReady, Allow, Arm, CashInResolve, CallStep, txVars
<1>3. call' = Idle \/ (call'.cmd = call.cmd /\ call'.pc \notin {"opening", "write"})
  <2>1. CASE CashInValidate \/ CashInReady \/ Allow
    <3>1. End \/ Goto("settle") \/ Goto("leave") \/ Goto("allow") \/ Goto("arm")
      BY <2>1 DEF CashInValidate, CashInReady, Allow
    <3>2. QED
      BY <1>1, <3>1, GotoFacts DEF End, Pcs
  <2>2. CASE Arm
    BY <1>1, <2>2 DEF Arm, Typed, Calls
  <2>3. CASE CashInResolve
    <3>1. \/ ScopeExit(call.took) \/ Goto("inhibit")
          \/ call' = [call EXCEPT !.pc = "count", !.note = poll.note]
      BY <2>3 DEF CashInResolve
    <3>2. call.took \in BOOLEAN
      BY <1>1 DEF Typed, Calls
    <3>3. CASE ScopeExit(call.took)
      BY <1>1, <3>2, <3>3, ScopeExitFacts
    <3>4. CASE Goto("inhibit")
      BY <1>1, <3>4, GotoFacts DEF Pcs
    <3>5. CASE call' = [call EXCEPT !.pc = "count", !.note = poll.note]
      BY <1>1, <3>5 DEF Typed, Calls
    <3>6. QED
      BY <3>1, <3>3, <3>4, <3>5
  <2>4. QED
    BY <2>1, <2>2, <2>3
<1>4. ~Depositing
  BY <1>2 DEF Depositing
<1>5. QED
  BY <1>2, <1>3, <1>4, CommandGoesOn

LEMMA CashInEndQuiet ==
    ASSUME IInv, TInv, CashInEndBranch \/ CashInEndResolve \/ Deposit
    PROVE  Simulated
<1>1. Typed
  BY TypedIsTypeOK DEF IInv
<1>2. /\ UNCHANGED <<tx, disk, poll>> /\ call.cmd = "CashInEnd"
      /\ call.pc \in {"branch", "resolve", "deposit"}
  BY DEF CashInEndBranch, CashInEndResolve, Deposit, CallStep, txVars
<1>3. call' = Idle \/ (call'.cmd = call.cmd /\ call'.pc \in {"check", "deposit", "record"})
  <2>1. End \/ Goto("check") \/ Goto("deposit") \/ Goto("record")
    BY DEF CashInEndBranch, CashInEndResolve, Deposit
  <2>2. QED
    BY <1>1, <2>1, GotoFacts DEF End, Pcs
<1>4. ~Depositing
  BY <1>2 DEF Depositing
<1>5. QED
  BY <1>2, <1>3, <1>4, CommandGoesOn

LEMMA OtherQuiet ==
    ASSUME IInv, TInv, ClearAccepted \/ ResetClear \/ ResetLaunch
    PROVE  Simulated
<1>1. Typed
  BY TypedIsTypeOK DEF IInv
<1>2. /\ UNCHANGED <<tx, disk, poll>>
      /\ call.pc = "opened" \/ (call.cmd = "Reset" /\ call.pc \in {"clear", "launch"})
  BY DEF ClearAccepted, ResetClear, ResetLaunch, CallStep, txVars
<1>3. \/ call' = Idle
      \/ call.cmd = "Reset" /\ call'.cmd = call.cmd /\ call'.pc \in {"launch", "check"}
  <2>1. CASE ClearAccepted
    BY <2>1 DEF ClearAccepted, End
  <2>2. CASE ResetClear
    <3>1. call.cmd = "Reset" /\ (End \/ Goto("launch"))
      BY <2>2 DEF ResetClear, CallStep
    <3>2. QED
      BY <1>1, <3>1, GotoFacts DEF End, Pcs
  <2>3. CASE ResetLaunch
    <3>1. call.cmd = "Reset" /\ (End \/ call' = [call EXCEPT !.pc = "check", !.note = poll.note])
      BY <2>3 DEF ResetLaunch, CallStep
    <3>2. QED
      BY <1>1, <3>1 DEF End, Typed, Calls
  <2>4. QED
    BY <2>1, <2>2, <2>3
<1>4. ~Depositing
  BY <1>2 DEF Depositing
<1>5. QED
  BY <1>2, <1>3, <1>4, CommandGoesOn

(* The end of a CashIn, and a deposit on its way. *)
LEMMA InhibitQuiet ==
    ASSUME IInv, TInv, Inhibit \/ Inhibited \/ Commit
    PROVE  Simulated
<1>1. Typed
  BY TypedIsTypeOK DEF IInv
<1>2. /\ UNCHANGED <<tx, disk, poll>> /\ call.cmd \in {"CashIn", "CashInEnd"}
      /\ call.pc \in {"inhibit", "inhibiting", "commit"}
      /\ \/ call' = Idle /\ call.cmd = "CashIn"
         \/ call'.cmd = call.cmd /\ call'.pc \in {"inhibit", "inhibiting", "close"}
      /\ call.pc = "commit" => call.cmd = "CashInEnd"
  <2>1. CASE Commit
    <3>1. /\ UNCHANGED <<tx, disk, poll>> /\ call.cmd = "CashInEnd" /\ call.pc = "commit"
          /\ Goto("inhibit")
      BY <2>1 DEF Commit, CallStep
    <3>2. QED
      BY <1>1, <3>1, GotoFacts DEF Pcs
  <2>2. CASE Inhibit \/ Inhibited
    <3>1. /\ UNCHANGED poll /\ call.cmd \in {"CashIn", "CashInEnd"}
          /\ call.pc \in {"inhibit", "inhibiting"}
          /\ AfterInhibit \/ (Goto("inhibiting") /\ UNCHANGED txVars)
      BY <2>2 DEF Inhibit, Inhibited, CallStep
    <3>2. CASE AfterInhibit
      BY <1>1, <3>1, <3>2, AfterInhibitFacts
    <3>3. CASE Goto("inhibiting") /\ UNCHANGED txVars
      BY <1>1, <3>1, <3>3, GotoFacts DEF Pcs, txVars
    <3>4. QED
      BY <3>1, <3>2, <3>3
  <2>3. QED
    BY <2>1, <2>2
<1>3. Depositing' <=> Depositing
  BY <1>2, IdleFacts DEF Depositing
<1>4. call'.cmd \in {"CashIn", "CashInEnd"} => tx.status = "Active"
  BY <1>2 DEF TInv, CommandInv
<1>5. QED
  BY <1>2, <1>3, <1>4, IdleFacts, QuietStep

LEMMA ClientQuiet ==
    ASSUME IInv, TInv, SendCommand \/ StopCommand
    PROVE  Simulated
<1>1. Typed
  BY TypedIsTypeOK DEF IInv
<1>2. CASE SendCommand
  <2>1. UNCHANGED <<tx, disk>>
    BY <1>2 DEF SendCommand, txVars
  <2>2. /\ UNCHANGED poll /\ call.cmd = "none" /\ call.pc = "idle"
        /\ \/ call'.cmd \in {"CashIn", "CashInEnd"} /\ call'.pc = "validate" /\ tx.status = "Active"
           \/ call'.cmd = "Reset" /\ call'.pc = "clear"
    <3>1. CASE tx.status = "Active" /\ \E cmd \in {"CashIn", "CashInEnd"} : Send(cmd, "validate")
      BY <1>1, <3>1, SendFacts DEF Commands, Pcs
    <3>2. CASE Send("Reset", "clear")
      BY <1>1, <3>2, SendFacts DEF Commands, Pcs
    <3>3. QED
      BY <1>2, <3>1, <3>2 DEF SendCommand
  <2>3. ~Depositing /\ ~Depositing'
    BY <2>2 DEF Depositing
  <2>4. QED
    BY <2>1, <2>2, <2>3, QuietStep
<1>3. CASE StopCommand
  <2>1. UNCHANGED <<tx, disk, poll>>
    BY <1>3 DEF StopCommand, txVars
  <2>2. PICK cancel : call' = [call EXCEPT !.stop = TRUE, !.cancel = cancel]
    BY <1>3 DEF StopCommand
  <2>3. call'.cmd = call.cmd /\ call'.pc = call.pc /\ call'.file = call.file
    BY <1>1, <2>2 DEF Typed, Calls
  <2>4. Depositing' <=> Depositing
    BY <2>3 DEF Depositing
  <2>5. call'.cmd \in {"CashIn", "CashInEnd"} => tx.status = "Active"
    BY <2>3 DEF TInv, CommandInv
  <2>6. QED
    BY <2>1, <2>3, <2>4, <2>5, QuietStep
<1>4. QED
  BY <1>2, <1>3

-----------------------------------------------------------------------------
(* Steps the client is promised. *)

(* A note is counted and saved at once. *)
LEMMA CountedAndSaved ==
    ASSUME IInv, TInv, NEW recognised \in BOOLEAN, CountNote(recognised),
           poll'.pc # "save", call'.pc # "opening", ~Depositing, ~Depositing',
           call'.cmd \in {call.cmd, "none"}, call'.cmd = "CashInEnd" => call'.pc # "write"
    PROVE  Simulated
<1>1. Typed
  BY TypedIsTypeOK DEF IInv
<1>2. /\ disk'.status = tx'.status /\ disk'.items = tx'.items
      /\ call.pc # "opening" /\ poll.pc # "save"
  BY <1>1, CountNoteFacts
<1>3. AddNote(recognised)
  BY DEF CountNote
<1>4. /\ tx'.status = tx.status
      /\ \/ tx'.items = tx.items + 1 /\ tx'.unrec = tx.unrec
         \/ tx'.items = tx.items /\ tx'.unrec = tx.unrec + 1
  BY <1>1, <1>3, AddNoteExact
<1>5. Unsaved = {} /\ Unsaved' = {}
  BY <1>2 DEF Unsaved
<1>6. Client!Count
  BY <1>4, <1>5 DEF Client!Count
<1>7. TInv'
  BY <1>2, <1>4 DEF TInv, CommandInv, FileOfNow, DepositCounted
<1>8. QED
  BY <1>6, <1>7 DEF Simulated, Client!Next

LEMMA CashInCountSimulated ==
    ASSUME IInv, TInv, CashInCount
    PROVE  Simulated
<1>1. Typed
  BY TypedIsTypeOK DEF IInv
<1>2. /\ call.cmd = "CashIn" /\ CountNote(call.note) /\ ScopeExit(TRUE) /\ UNCHANGED poll
  BY DEF CashInCount, CallStep
<1>3. call.note \in BOOLEAN
  BY <1>1 DEF Typed, Calls
<1>4. poll.pc # "save"
  BY <1>2 DEF CountNote, MutexFree
<1>5. call' = Idle \/ (call'.cmd = call.cmd /\ call'.pc = "inhibit")
  BY <1>1, <1>2, ScopeExitFacts
<1>6. ~Depositing /\ ~Depositing'
  BY <1>2, <1>5, IdleFacts DEF Depositing
<1>7. QED
  BY <1>2, <1>3, <1>4, <1>5, <1>6, IdleFacts, CountedAndSaved

LEMMA ResetResolveSimulated ==
    ASSUME IInv, TInv, ResetResolve
    PROVE  Simulated
<1>1. Typed
  BY TypedIsTypeOK DEF IInv
<1>2. /\ call.cmd = "Reset" /\ call.pc = "resolve" /\ UNCHANGED poll
      /\ \/ CountNote(call.note) /\ Goto("record")
         \/ call' = Idle /\ UNCHANGED <<tx, disk>>
  BY DEF ResetResolve, CallStep, NothingCounted, End
<1>3. ~Depositing
  BY <1>2 DEF Depositing
<1>4. CASE CountNote(call.note) /\ Goto("record")
  <2>1. call.note \in BOOLEAN
    BY <1>1 DEF Typed, Calls
  <2>2. poll.pc # "save"
    BY <1>4 DEF CountNote, MutexFree
  <2>3. call'.cmd = call.cmd /\ call'.pc = "record"
    BY <1>1, <1>4, GotoFacts DEF Pcs
  <2>4. ~Depositing'
    BY <2>3 DEF Depositing
  <2>5. QED
    BY <1>2, <1>3, <1>4, <2>1, <2>2, <2>3, <2>4, CountedAndSaved
<1>5. CASE call' = Idle /\ UNCHANGED <<tx, disk>>
  BY <1>2, <1>3, <1>5, CommandGoesOn
<1>6. QED
  BY <1>2, <1>4, <1>5

LEMMA ChangeStateSimulated ==
    ASSUME IInv, TInv, ChangeState
    PROVE  Simulated
<1>1. Typed
  BY TypedIsTypeOK DEF IInv
<1>2. /\ poll.pc = "change"
      /\ \/ call.cmd = "CashIn" /\ CountNote(poll.note)
         \/ UNCHANGED <<tx, disk>>
  BY DEF ChangeState, Listening, NothingCounted
<1>3. poll'.pc = "switch"
  <2>1. PICK flow, jam : poll' = [poll EXCEPT !.pc = "switch", !.flow = flow, !.jam = jam]
    <3> DEFINE jam == CASE poll.state = "Failure" -> 1
                        [] poll.state = "Initialize" /\ poll.jam = 1 -> 2
                        [] poll.state = "BillStacked" /\ poll.jam = 2 -> 3
                        [] OTHER -> 0
    <3>1. poll' = [poll EXCEPT !.pc = "switch", !.flow = poll.state, !.jam = jam]
      BY DEF ChangeState
    <3> HIDE DEF jam
    <3>2. QED
      BY <3>1
  <2>2. QED
    BY <1>1, <2>1 DEF Typed, Polls
<1>4. call'.cmd = call.cmd /\ call'.pc = call.pc /\ call'.file = call.file
  <2>1. PICK took, cancel, fresh, jammed, event :
          call' = [call EXCEPT !.took = took, !.cancel = cancel, !.fresh = fresh,
                               !.jammed = jammed, !.event = event]
    <3> DEFINE s       == poll.state
               stacked == s = "BillStacked" /\ Listening("CashIn")
               takes   == stacked /\ Takes
               fresh   == IF Listening("Reset") /\ call.fresh < 2 THEN call.fresh + 1 ELSE call.fresh
               seen    == IF call.cmd = "Reset" /\ fresh < 2 THEN "none" ELSE Outcome(s)
               keeps   == \/ seen = "none"
                          \/ call.pc = "check" /\ (call.cmd # "Reset" \/ call.event = "good")
                          \/ call.pc \notin {"check", "wait"}
               took    == call.took \/ takes
               cancel  == call.cancel \/ stacked
               jammed  == call.jammed \/ (Listening("Reset") /\ s = "UnitDisabled" /\ poll.jam = 3)
               event   == IF keeps THEN call.event ELSE seen
    <3>1. call' = [call EXCEPT !.took = took, !.cancel = cancel, !.fresh = fresh,
                               !.jammed = jammed, !.event = event]
      BY DEF ChangeState
    <3> HIDE DEF took, cancel, fresh, jammed, event
    <3>2. QED
      BY <3>1
  <2>2. QED
    BY <1>1, <2>1 DEF Typed, Calls
<1>5. Depositing' <=> Depositing
  BY <1>4 DEF Depositing
<1>6. CASE call.cmd = "CashIn" /\ CountNote(poll.note)
  <2>1. poll.note \in BOOLEAN
    BY <1>1 DEF Typed, Polls
  <2>2. ~Depositing /\ call.pc # "opening"
    BY <1>6 DEF Depositing, CountNote, MutexFree
  <2>3. QED
    BY <1>3, <1>4, <1>5, <1>6, <2>1, <2>2, CountedAndSaved
<1>7. CASE UNCHANGED <<tx, disk>>
  <2>1. call'.cmd \in {"CashIn", "CashInEnd"} => tx.status = "Active"
    BY <1>4 DEF TInv, CommandInv
  <2>2. QED
    BY <1>2, <1>3, <1>4, <1>5, <1>7, <2>1, QuietStep
<1>8. QED
  BY <1>2, <1>6, <1>7

LEMMA StartTransactionSimulated ==
    ASSUME IInv, TInv, NEW l \in Limits, StartTransaction(l)
    PROVE  Simulated
<1>1. Typed
  BY TypedIsTypeOK DEF IInv
<1>2. /\ tx.status # "Active" /\ MutexFree /\ Send("CashInStart", "opening")
      /\ tx' = [status |-> "Active", items |-> 0, unrec |-> 0]
  BY DEF StartTransaction
<1>3. /\ call'.cmd = "CashInStart" /\ call'.pc = "opening" /\ UNCHANGED poll
      /\ call.cmd = "none" /\ poll.pc # "save" /\ call.pc # "opening"
  BY <1>1, <1>2, SendFacts DEF Commands, Pcs, MutexFree
<1>4. tx'.status = "Active" /\ tx'.items = 0 /\ tx'.unrec = 0
  BY <1>2
<1>5. Unsaved = {} /\ Unsaved' = {"open"}
  BY <1>3 DEF Unsaved, Depositing
<1>6. Client!Open
  BY <1>2, <1>4, <1>5 DEF Client!Open
<1>7. TInv'
  BY <1>3, <1>4 DEF TInv, CommandInv, FileOfNow, DepositCounted, Depositing
<1>8. QED
  BY <1>6, <1>7 DEF Simulated, Client!Next

LEMMA TransactionOpenedSimulated ==
    ASSUME IInv, TInv, TransactionOpened
    PROVE  Simulated
<1>1. Typed
  BY TypedIsTypeOK DEF IInv
<1>2. /\ call.pc = "opening" /\ Goto("opened") /\ UNCHANGED <<tx, poll>>
      /\ disk' = [disk EXCEPT !.items = 0]
  BY DEF TransactionOpened
<1>3. /\ tx.status = "Active" /\ tx.items = 0 /\ disk.status = "Active" /\ poll.pc # "save"
  BY <1>2 DEF IInv, OpeningInv
<1>4. call'.pc = "opened" /\ call'.cmd = call.cmd
  BY <1>1, <1>2, GotoFacts DEF Pcs
<1>5. disk'.items = 0 /\ disk'.status = disk.status
  BY <1>1, <1>2 DEF Typed, Files
<1>6. Unsaved = {"open"} /\ Unsaved' = {}
  BY <1>2, <1>3, <1>4 DEF Unsaved, Depositing
<1>7. Client!Opened
  BY <1>2, <1>6 DEF Client!Opened
<1>8. TInv'
  BY <1>2, <1>3, <1>4, <1>5 DEF TInv, CommandInv, FileOfNow, DepositCounted, Depositing
<1>9. QED
  BY <1>7, <1>8 DEF Simulated, Client!Next

(* What CashInEnd reads from the file was counted; a note that is being    *)
(* saved may be missing from it.                                           *)
LEMMA RecordQuiet ==
    ASSUME IInv, TInv, Record
    PROVE  Simulated
<1>1. Typed
  BY TypedIsTypeOK DEF IInv
<1>2. /\ UNCHANGED <<tx, disk, poll>> /\ call.pc = "record"
      /\ call' = [call EXCEPT !.pc = "write", !.file = [disk EXCEPT !.notes = disk.notes + accepted]]
  BY DEF Record, CallStep, txVars
<1>3. call'.pc = "write" /\ call'.cmd = call.cmd /\ call'.file.items = disk.items
  BY <1>1, <1>2 DEF Typed, Calls, Files
<1>4. ~Depositing /\ ~Depositing'
  BY <1>2, <1>3 DEF Depositing
<1>5. disk.items \in Nat /\ tx.items \in Nat
  BY <1>1 DEF Typed, Txs, Files
<1>6. disk.items <= tx.items
  BY <1>2, <1>4, <1>5 DEF TInv, FileOfNow
<1>7. Unsaved' = Unsaved
  BY <1>2, <1>3, <1>4 DEF Unsaved
<1>8. TInv'
  BY <1>2, <1>3, <1>4, <1>6 DEF TInv, CommandInv, FileOfNow, DepositCounted
<1>9. QED
  BY <1>2, <1>7, <1>8 DEF Simulated, Client!tvars

LEMMA WriteSimulated ==
    ASSUME IInv, TInv, Write
    PROVE  Simulated
<1>1. Typed
  BY TypedIsTypeOK DEF IInv
<1>2. /\ UNCHANGED <<tx, poll>> /\ call.cmd \in {"CashInEnd", "Reset"} /\ call.pc = "write"
      /\ disk' = call.file
      /\ \/ call.cmd = "Reset" /\ call' = Idle
         \/ call.cmd = "CashInEnd" /\ call' = [call EXCEPT !.pc = "forget", !.file = NoFile]
  BY DEF Write, CallStep, End
<1>3. ~Depositing
  BY <1>2 DEF Depositing
<1>4. CASE call.cmd = "Reset" /\ call' = Idle
  <2>1. disk'.status = disk.status /\ disk'.items = disk.items
    BY <1>2, <1>4 DEF IInv, FileInv
  <2>2. ~Depositing' /\ call'.cmd = "none" /\ call'.pc = "idle"
    BY <1>4, IdleFacts DEF Depositing
  <2>3. Unsaved' = Unsaved
    BY <1>2, <1>3, <2>2 DEF Unsaved
  <2>4. TInv'
    BY <1>2, <1>3, <2>1, <2>2 DEF TInv, CommandInv, FileOfNow, DepositCounted
  <2>5. QED
    BY <1>2, <2>3, <2>4 DEF Simulated, Client!tvars
<1>5. CASE call.cmd = "CashInEnd" /\ call' = [call EXCEPT !.pc = "forget", !.file = NoFile]
  <2>1. call'.cmd = "CashInEnd" /\ call'.pc = "forget"
    BY <1>1, <1>5 DEF Typed, Calls
  <2>2. Depositing'
    BY <2>1 DEF Depositing
  <2>3. Unsaved \subseteq {"save"} /\ Unsaved' = Unsaved \cup {"deposit"}
    BY <1>2, <1>3, <2>1, <2>2 DEF Unsaved
  <2>4. tx.status = "Active"
    BY <1>5 DEF TInv, CommandInv
  <2>5. Client!Deposit
    BY <1>2, <2>3, <2>4 DEF Client!Deposit
  <2>6. disk'.items <= tx'.items
    BY <1>2, <1>5 DEF TInv, DepositCounted
  <2>7. TInv'
    BY <1>2, <2>1, <2>2, <2>4, <2>6 DEF TInv, CommandInv, FileOfNow, DepositCounted
  <2>8. QED
    BY <2>5, <2>7 DEF Simulated, Client!Next
<1>6. QED
  BY <1>2, <1>4, <1>5

LEMMA ForgetQuiet ==
    ASSUME IInv, TInv, Forget
    PROVE  Simulated
<1>1. Typed
  BY TypedIsTypeOK DEF IInv
<1>2. /\ UNCHANGED <<tx, poll>> /\ call.cmd = "CashInEnd" /\ call.pc = "forget"
      /\ Save("Ok", 0) /\ Goto("commit")
  BY DEF Forget, CallStep
<1>3. disk'.items = 0
  BY <1>1, <1>2, SaveFacts
<1>4. call'.cmd = "CashInEnd" /\ call'.pc = "commit"
  BY <1>1, <1>2, GotoFacts DEF Pcs
<1>5. Depositing /\ Depositing'
  BY <1>2, <1>4 DEF Depositing
<1>6. tx.items \in Nat
  BY <1>1 DEF Typed, Txs
<1>7. disk'.items <= tx'.items
  BY <1>2, <1>3, <1>6
<1>8. Unsaved' = Unsaved
  BY <1>2, <1>4, <1>5 DEF Unsaved
<1>9. TInv'
  BY <1>2, <1>4, <1>5, <1>7 DEF TInv, CommandInv, FileOfNow, DepositCounted
<1>10. QED
  BY <1>2, <1>8, <1>9 DEF Simulated, Client!tvars

LEMMA CloseSimulated ==
    ASSUME IInv, TInv, Close, call.cmd = "CashInEnd", call' = Idle, UNCHANGED poll
    PROVE  Simulated
<1>1. Typed
  BY TypedIsTypeOK DEF IInv
<1>2. /\ tx' = [tx EXCEPT !.status = "Ok"] /\ Save("Ok", tx.items)
      /\ call.pc # "opening" /\ poll.pc # "save"
  BY DEF Close, MutexFree
<1>3. /\ tx'.status = "Ok" /\ tx'.items = tx.items /\ tx'.unrec = tx.unrec /\ tx.items \in Nat
  BY <1>1, <1>2 DEF Typed, Txs
<1>4. disk'.status = "Ok" /\ disk'.items = tx.items
  BY <1>1, <1>2, <1>3, SaveFacts
<1>5. call'.cmd = "none" /\ call'.pc = "idle" /\ ~Depositing'
  BY IdleFacts DEF Depositing
<1>6. Unsaved \subseteq {"deposit"} /\ Unsaved' = {}
  BY <1>2, <1>5 DEF Unsaved
<1>7. Client!Close
  BY <1>3, <1>6 DEF Client!Close, TInv, CommandInv
<1>8. TInv'
  BY <1>3, <1>4, <1>5 DEF TInv, CommandInv, FileOfNow, DepositCounted
<1>9. QED
  BY <1>7, <1>8 DEF Simulated, Client!Next

LEMMA CashInEndClosesSimulated ==
    ASSUME IInv, TInv, CashInEndValidate \/ CloseTransaction
    PROVE  Simulated
<1>1. Typed
  BY TypedIsTypeOK DEF IInv
<1>2. /\ call.cmd = "CashInEnd" /\ UNCHANGED poll
      /\ \/ Close /\ call' = Idle
         \/ call.pc = "validate" /\ Goto("branch") /\ UNCHANGED <<tx, disk>>
  BY DEF CashInEndValidate, CloseTransaction, CallStep, End
<1>3. CASE Close /\ call' = Idle
  BY <1>2, <1>3, CloseSimulated
<1>4. CASE call.pc = "validate" /\ Goto("branch") /\ UNCHANGED <<tx, disk>>
  <2>1. call'.cmd = call.cmd /\ call'.pc = "branch"
    BY <1>1, <1>4, GotoFacts DEF Pcs
  <2>2. ~Depositing
    BY <1>4 DEF Depositing
  <2>3. QED
    BY <1>2, <1>4, <2>1, <2>2, CommandGoesOn
<1>5. QED
  BY <1>2, <1>3, <1>4

-----------------------------------------------------------------------------
(* The end of the process, and the polling thread. *)

LEMMA RestartSimulated ==
    ASSUME IInv, TInv, Restart
    PROVE  Simulated
<1>1. Typed
  BY TypedIsTypeOK DEF IInv
<1> DEFINE status == IF disk.status = "Active" THEN "Unknown" ELSE disk.status
<1>2. /\ tx' = [status |-> status, items |-> disk.items, unrec |-> 0]
      /\ disk' = [disk EXCEPT !.status = status]
      /\ poll' = Booted /\ call' = Idle
  BY DEF Restart
<1>3. /\ status \in {"Ok", "Unknown"} /\ disk.items \in Nat /\ tx.items \in Nat
      /\ disk.status = tx.status => status = IF tx.status = "Active" THEN "Unknown" ELSE tx.status
  BY <1>1 DEF Typed, Files, Txs
<1>4. call.pc = "opening" => disk.status = tx.status
  BY DEF IInv, OpeningInv
<1> HIDE DEF status
<1>5. /\ tx'.status = status /\ tx'.items = disk.items /\ tx'.unrec = 0
      /\ disk'.status = status /\ disk'.items = disk.items
  BY <1>1, <1>2 DEF Typed, Files
<1>6. poll'.pc = "poll" /\ call'.cmd = "none" /\ call'.pc = "idle"
  BY <1>2, IdleFacts DEF Booted
<1>7. ~Depositing' /\ Unsaved' = {}
  BY <1>6 DEF Unsaved, Depositing
<1>8. \/ tx'.status = IF tx.status = "Active" THEN "Unknown" ELSE tx.status
      \/ "deposit" \in Unsaved /\ tx'.status \in {"Ok", "Unknown"}
  BY <1>3, <1>4, <1>5, UnsavedFacts DEF TInv, FileOfNow
<1>9. \/ tx'.items = tx.items
      \/ Unsaved = {"open"} /\ tx'.items \in Nat
      \/ "save" \in Unsaved /\ tx.items = tx'.items + 1
      \/ "deposit" \in Unsaved /\ tx'.items \in 0..tx.items
  <2>1. CASE Depositing
    <3>1. disk.items <= tx.items
      BY <2>1 DEF TInv, DepositCounted
    <3>2. disk.items \in 0..tx.items
      BY <1>3, <3>1
    <3>3. QED
      BY <1>5, <2>1, <3>2, UnsavedFacts
  <2>2. CASE call.pc = "opening"
    <3>1. Unsaved = {"open"}
      BY <2>2, OpeningAlone DEF Unsaved, IInv, OpeningInv
    <3>2. QED
      BY <1>3, <1>5, <3>1
  <2>3. CASE ~Depositing /\ call.pc # "opening"
    BY <1>5, <2>3, UnsavedFacts DEF TInv, FileOfNow
  <2>4. QED
    BY <2>1, <2>2, <2>3
<1>10. Client!Restart
  BY <1>5, <1>7, <1>8, <1>9 DEF Client!Restart
<1>11. TInv'
  BY <1>5, <1>6, <1>7 DEF TInv, CommandInv, FileOfNow, DepositCounted
<1>12. QED
  BY <1>10, <1>11 DEF Simulated, Client!Next

LEMMA PollReadQuiet ==
    ASSUME IInv, TInv, NEW s \in DevStates, NEW recognised \in BOOLEAN, PollRead(s, recognised)
    PROVE  Simulated
<1>1. Typed
  BY TypedIsTypeOK DEF IInv
<1>2. poll.pc = "poll" /\ UNCHANGED <<tx, disk, call>>
  BY DEF PollRead, txVars
<1>3. poll'.pc = "change"
  <2>1. PICK note : poll' = [poll EXCEPT !.pc = "change", !.prev = poll.state, !.state = s, !.note = note]
    <3> DEFINE note == CASE s = "Escrow" -> recognised
                         [] s \in {"Accepting", "Idling", "UnitDisabled"} -> FALSE
                         [] OTHER -> poll.note
    <3>1. poll' = [poll EXCEPT !.pc = "change", !.prev = poll.state, !.state = s, !.note = note]
      BY DEF PollRead
    <3> HIDE DEF note
    <3>2. QED
      BY <3>1
  <2>2. QED
    BY <1>1, <2>1 DEF Typed, Polls
<1>4. Depositing' <=> Depositing
  BY <1>2 DEF Depositing
<1>5. call'.cmd \in {"CashIn", "CashInEnd"} => tx.status = "Active"
  BY <1>2 DEF TInv, CommandInv
<1>6. QED
  BY <1>2, <1>3, <1>4, <1>5, QuietStep

(* A note is counted, and the file does not know it yet. *)
LEMMA PollSwitchSimulated ==
    ASSUME IInv, TInv, PollSwitch
    PROVE  Simulated
<1>1. Typed
  BY TypedIsTypeOK DEF IInv
<1>2. /\ poll.pc = "switch"
      /\ \/ Restart
         \/ /\ MutexFree /\ AddNote(poll.note)
            /\ poll' = [poll EXCEPT !.pc = "save", !.prev = poll.state,
                          !.file = [disk EXCEPT !.status = tx.status, !.items = tx'.items]]
            /\ UNCHANGED <<disk, call>>
         \/ poll' = [poll EXCEPT !.pc = "poll", !.prev = poll.state] /\ UNCHANGED <<tx, disk, call>>
  BY DEF PollSwitch
<1>3. CASE Restart
  BY <1>3, RestartSimulated
<1>4. CASE /\ MutexFree /\ AddNote(poll.note)
           /\ poll' = [poll EXCEPT !.pc = "save", !.prev = poll.state,
                         !.file = [disk EXCEPT !.status = tx.status, !.items = tx'.items]]
           /\ UNCHANGED <<disk, call>>
  <2>1. poll.note \in BOOLEAN
    BY <1>1 DEF Typed, Polls
  <2>2. /\ tx'.status = tx.status
        /\ \/ tx'.items = tx.items + 1 /\ tx'.unrec = tx.unrec
           \/ tx'.items = tx.items /\ tx'.unrec = tx.unrec + 1
    BY <1>1, <1>4, <2>1, AddNoteExact
  <2>3. call.pc # "opening" /\ poll'.pc = "save"
    BY <1>1, <1>4 DEF MutexFree, Typed, Polls
  <2>4. Depositing' <=> Depositing
    BY <1>4 DEF Depositing
  <2>5. Unsaved \subseteq {"deposit"} /\ Unsaved' = Unsaved \cup {"save"}
    BY <1>2, <1>4, <2>3, <2>4 DEF Unsaved
  <2>6. Client!Count
    BY <2>2, <2>5 DEF Client!Count
  <2>7. /\ tx.items \in Nat /\ disk.items \in Nat
        /\ call.cmd = "CashInEnd" /\ call.pc = "write" => call.file.items \in Nat
    BY <1>1 DEF Typed, Txs, Files, Calls
  <2>8. CommandInv'
    BY <1>4, <2>2 DEF TInv, CommandInv
  <2>9. FileOfNow'
    BY <1>2, <1>4, <2>2, <2>3, <2>4 DEF TInv, FileOfNow
  <2>10. DepositCounted'
    BY <1>4, <2>2, <2>4, <2>7 DEF TInv, DepositCounted
  <2>11. QED
    BY <2>6, <2>8, <2>9, <2>10 DEF Simulated, Client!Next, TInv
<1>5. CASE poll' = [poll EXCEPT !.pc = "poll", !.prev = poll.state] /\ UNCHANGED <<tx, disk, call>>
  <2>1. poll'.pc = "poll"
    BY <1>1, <1>5 DEF Typed, Polls
  <2>2. Depositing' <=> Depositing
    BY <1>5 DEF Depositing
  <2>3. call'.cmd \in {"CashIn", "CashInEnd"} => tx.status = "Active"
    BY <1>5 DEF TInv, CommandInv
  <2>4. QED
    BY <1>2, <1>5, <2>1, <2>2, <2>3, QuietStep
<1>6. QED
  BY <1>2, <1>3, <1>4, <1>5

LEMMA PollSaveSimulated ==
    ASSUME IInv, TInv, PollSave
    PROVE  Simulated
<1>1. Typed
  BY TypedIsTypeOK DEF IInv
<1>2. /\ poll.pc = "save" /\ disk' = poll.file
      /\ poll' = [poll EXCEPT !.pc = "poll", !.file = NoFile]
      /\ UNCHANGED <<tx, call>>
  BY DEF PollSave
<1>3. poll'.pc = "poll"
  BY <1>1, <1>2 DEF Typed, Polls
<1>4. disk'.status = tx.status /\ disk'.items = tx.items /\ tx.items \in Nat
  BY <1>1, <1>2 DEF IInv, SaveInv, Typed, Txs
<1>5. Depositing' <=> Depositing
  BY <1>2 DEF Depositing
<1>6. "save" \in Unsaved /\ Unsaved' = Unsaved \ {"save"}
  BY <1>2, <1>3, <1>5 DEF Unsaved
<1>7. Client!Saved
  BY <1>2, <1>6 DEF Client!Saved
<1>8. TInv'
  BY <1>2, <1>4, <1>5 DEF TInv, CommandInv, FileOfNow, DepositCounted
<1>9. QED
  BY <1>7, <1>8 DEF Simulated, Client!Next

-----------------------------------------------------------------------------

LEMMA InitSimulated ==
    ASSUME Init
    PROVE  TInv /\ Client!Init
<1>1. /\ tx = [status |-> "Ok", items |-> 0, unrec |-> 0]
      /\ disk = [status |-> "Ok", items |-> 0, notes |-> unit]
      /\ poll = Booted /\ call = Idle
  BY DEF Init
<1>2. /\ tx.status = "Ok" /\ tx.items = 0 /\ tx.unrec = 0
      /\ disk.status = "Ok" /\ disk.items = 0 /\ poll.pc = "poll"
      /\ call.cmd = "none" /\ call.pc = "idle"
  BY <1>1, IdleFacts DEF Booted
<1>3. Unsaved = {} /\ ~Depositing
  BY <1>2 DEF Unsaved, Depositing
<1>4. QED
  BY <1>2, <1>3 DEF TInv, CommandInv, FileOfNow, DepositCounted, Client!Init

LEMMA NextSimulated ==
    ASSUME IInv, TInv, [Next]_vars
    PROVE  Simulated
<1>1. ASSUME NEW l \in Limits, StartTransaction(l)
      PROVE  Simulated
  BY <1>1, StartTransactionSimulated
<1>2. CASE SendCommand \/ StopCommand
  BY <1>2, ClientQuiet
<1>3. CASE Crash
  BY <1>3, RestartSimulated DEF Crash
<1>4. CASE QueueStep
  <2>1. CASE CheckCurrent \/ Register \/ WaitEnds \/ WaitExpires
    BY <2>1, WaitingQuiet
  <2>2. CASE CashInValidate \/ CashInReady \/ Allow \/ Arm \/ CashInResolve
    BY <2>2, CashInQuiet
  <2>3. CASE CashInEndBranch \/ CashInEndResolve \/ Deposit
    BY <2>3, CashInEndQuiet
  <2>4. CASE ClearAccepted \/ ResetClear \/ ResetLaunch
    BY <2>4, OtherQuiet
  <2>5. CASE Inhibit \/ Inhibited \/ Commit
    BY <2>5, InhibitQuiet
  <2>6. CASE Record \/ Write \/ Forget
    BY <2>6, RecordQuiet, WriteSimulated, ForgetQuiet
  <2>7. CASE CashInEndValidate \/ CloseTransaction
    BY <2>7, CashInEndClosesSimulated
  <2>8. CASE TransactionOpened \/ CashInCount \/ ResetResolve
    BY <2>8, TransactionOpenedSimulated, CashInCountSimulated, ResetResolveSimulated
  <2>9. QED
    BY <1>4, <2>1, <2>2, <2>3, <2>4, <2>5, <2>6, <2>7, <2>8 DEF QueueStep
<1>5. CASE Poller
  BY <1>5, PollReadQuiet, ChangeStateSimulated, PollSwitchSimulated, PollSaveSimulated DEF Poller
<1>6. CASE UNCHANGED vars
  <2>1. UNCHANGED <<tx, disk, poll, call>>
    BY <1>6 DEF vars, txVars
  <2>2. Depositing' <=> Depositing
    BY <2>1 DEF Depositing
  <2>3. call'.cmd \in {"CashIn", "CashInEnd"} => tx.status = "Active"
    BY <2>1 DEF TInv, CommandInv
  <2>4. QED
    BY <2>1, <2>2, <2>3, QuietStep
<1>7. QED
  BY <1>1, <1>2, <1>3, <1>4, <1>5, <1>6 DEF Next

(* A CashIn or a CashInEnd runs in an active transaction, the file is the  *)
(* transaction of now but for what is being saved or deposited, and what   *)
(* is deposited was counted.                                               *)
THEOREM CashInFileOfNow == Spec => []TInv
<1>1. Init => TInv
  BY InitSimulated
<1>2. IInv /\ TInv /\ [Next]_vars => TInv'
  BY NextSimulated DEF Simulated
<1>3. QED
  BY <1>1, <1>2, CashInInvariant, PTL DEF Spec

(* CashIn implements Transaction: whichever thread counts and saves,       *)
(* whatever the validator does and wherever the process dies, the client   *)
(* finds the notes that were counted (EscrowManager).                      *)
THEOREM CashInImplementsTransaction == Spec => TransactionKept
<1>1. Init => Client!Init
  BY InitSimulated
<1>2. IInv /\ TInv /\ [Next]_vars => [Client!Next]_Client!tvars
  BY NextSimulated DEF Simulated
<1>3. QED
  BY <1>1, <1>2, CashInInvariant, CashInFileOfNow, PTL DEF Spec, TransactionKept, Client!Spec

=============================================================================
