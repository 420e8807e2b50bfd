-------------------------- MODULE CashInProofs --------------------------
(***************************************************************************)
(* Proofs about CashIn, for any limits and capacity and for any number of  *)
(* notes, commands and crashes.                                            *)
(***************************************************************************)
EXTENDS CashIn, TLAPS

(* Acceptance stays forbidden while _inhibit waits for its confirmation.   *)
InhibitingInv == call.pc = "inhibiting" => ~dev.enabled

(* A transaction that is being opened has no counts, and keeps mutex_. *)
OpeningInv ==
    call.pc = "opening" =>
        tx.status = "Active" /\ tx.items = 0 /\ disk.status = "Active" /\ poll.pc # "save"

(* What the polling thread is about to write is the transaction of now. *)
SaveInv == poll.pc = "save" => poll.file.status = tx.status /\ poll.file.items = tx.items

(* Once a Reset has found the jammed note stacked, the polling thread      *)
(* counts no other note until the Reset is over: an order to stack that    *)
(* was given before comes to nothing.                                      *)
JamInv ==
    call.cmd = "Reset" =>
        /\ call.pc \in {"record", "write"} => call.jammed
        /\ call.jammed => /\ call.pc \notin {"clear", "launch"}
                          /\ dev.order = "stack" => poll.state = "UnitDisabled"
                          /\ poll.pc # "save" /\ poll.state # "Stacking"
                          /\ ~(poll.state = "BillStacked" /\ poll.prev = "Stacking")

(* What a Reset is about to write differs from the file in its notes only. *)
FileInv ==
    call.cmd = "Reset" /\ call.pc = "write" =>
        call.file.status = disk.status /\ call.file.items = disk.items

(* The file holds the active transaction, except while one of the threads  *)
(* is about to write it.                                                   *)
DiskInv ==
    tx.status = "Active" /\ poll.pc # "save" /\ call.pc # "opening" /\ ~Depositing =>
        disk.status = "Active" /\ disk.items = tx.items

IInv ==
    /\ TypeOK
    /\ AcceptedCounted /\ InhibitingInv
    /\ OpeningInv /\ SaveInv /\ JamInv /\ FileInv /\ DiskInv

-----------------------------------------------------------------------------
(* The types of the records, and what the operators do to their fields. *)

Txs   == [status : {"Ok", "Active", "Unknown"}, items : Nat, unrec : Nat]
Polls == [pc : {"poll", "change", "switch", "save"}, state : DevStates, prev : DevStates,
          flow : DevStates \cup {"Unknown"}, note : BOOLEAN, jam : 0..3, file : Files]
Calls == [cmd : Commands \cup {"none"}, pc : Pcs, stop : BOOLEAN, cancel : BOOLEAN,
          event : {"none", "good", "bad", "cancelled", "expired", "stopped"},
          took : BOOLEAN, fresh : 0..2, jammed : BOOLEAN, note : BOOLEAN, file : Files]
Devs  == [enabled : BOOLEAN, order : {"none", "stack", "reset"},
          inside : BOOLEAN, inserted : Nat, stacked : Nat]

Typed ==
    /\ tx \in Txs /\ disk \in Files
    /\ accepted \in Nat /\ limit \in Limits \cup {0} /\ unit \in Nat
    /\ stacker \in {"Empty", "NotEmpty"}
    /\ allowed \in {"no", "yes", "unknown"}
    /\ poll \in Polls /\ call \in Calls /\ dev \in Devs
    /\ call.cmd = "none" => call = Idle
    /\ sent \in Nat /\ crashes \in Nat

LEMMA TypedIsTypeOK == TypeOK <=> Typed
BY DEF TypeOK, Typed, Txs, Polls, Calls, Devs

LEMMA TypedThen == Typed' => TypeOK'
BY DEF TypeOK, Typed, Txs, Polls, Calls, Devs

LEMMA NoFileFacts == NoFile \in Files
BY DEF NoFile, Files

LEMMA IdleFacts ==
    /\ Idle \in Calls
    /\ Idle.cmd = "none" /\ Idle.pc = "idle" /\ ~Idle.jammed
BY NoFileFacts DEF Idle, Calls, Pcs

(* Only the place in the command changes. *)
LEMMA GotoFacts ==
    ASSUME Typed, NEW pc \in Pcs, Goto(pc)
    PROVE  /\ call' \in Calls /\ call'.pc = pc
           /\ call'.cmd = call.cmd /\ call'.jammed = call.jammed /\ call'.file = call.file
BY DEF Typed, Goto, Calls

LEMMA SaveFacts ==
    ASSUME Typed, NEW status \in {"Ok", "Active", "Unknown"}, NEW items \in Nat, Save(status, items)
    PROVE  disk' \in Files /\ disk'.status = status /\ disk'.items = items
BY DEF Typed, Save, Files

LEMMA AddNoteFacts ==
    ASSUME Typed, NEW recognised \in BOOLEAN, AddNote(recognised)
    PROVE  /\ tx' \in Txs /\ tx'.status = tx.status
           /\ tx'.items >= tx.items /\ tx'.unrec >= tx.unrec
           /\ accepted' \in Nat
           /\ accepted <= tx.items => accepted' <= tx'.items
<1>1. CASE recognised
  <2>1. tx' = [tx EXCEPT !.items = tx.items + 1] /\ accepted' = accepted + 1
    BY <1>1 DEF AddNote
  <2>2. tx' \in Txs /\ tx'.status = tx.status /\ tx'.items = tx.items + 1 /\ tx'.unrec = tx.unrec
    BY <2>1 DEF Typed, Txs
  <2>3. QED
    BY <2>1, <2>2 DEF Typed, Txs
<1>2. CASE ~recognised
  <2>1. tx' = [tx EXCEPT !.unrec = tx.unrec + 1] /\ accepted' = accepted
    BY <1>2 DEF AddNote
  <2>2. tx' \in Txs /\ tx'.status = tx.status /\ tx'.items = tx.items /\ tx'.unrec = tx.unrec + 1
    BY <2>1 DEF Typed, Txs
  <2>3. QED
    BY <2>1, <2>2 DEF Typed, Txs
<1>3. QED
  BY <1>1, <1>2

LEMMA CountNoteFacts ==
    ASSUME Typed, NEW recognised \in BOOLEAN, CountNote(recognised)
    PROVE  /\ tx' \in Txs /\ tx'.status = tx.status
           /\ tx'.items >= tx.items /\ tx'.unrec >= tx.unrec
           /\ accepted' \in Nat
           /\ accepted <= tx.items => accepted' <= tx'.items
           /\ disk' \in Files /\ disk'.status = tx'.status /\ disk'.items = tx'.items
           /\ call.pc # "opening" /\ poll.pc # "save"
<1>1. AddNote(recognised) /\ Save(tx.status, tx'.items) /\ MutexFree
  BY DEF CountNote
<1>2. /\ tx' \in Txs /\ tx'.status = tx.status
      /\ tx'.items >= tx.items /\ tx'.unrec >= tx.unrec
      /\ accepted' \in Nat
      /\ accepted <= tx.items => accepted' <= tx'.items
  BY <1>1, AddNoteFacts
<1>3. tx.status \in {"Ok", "Active", "Unknown"} /\ tx'.items \in Nat
  BY <1>2 DEF Typed, Txs
<1>4. disk' \in Files /\ disk'.status = tx.status /\ disk'.items = tx'.items
  BY <1>1, <1>3, SaveFacts
<1>5. QED
  BY <1>1, <1>2, <1>4 DEF MutexFree

LEMMA CloseFacts ==
    ASSUME Typed, Close
    PROVE  /\ tx' \in Txs /\ tx'.status = "Ok" /\ tx'.items = tx.items
           /\ disk' \in Files
           /\ call.pc # "opening" /\ poll.pc # "save"
<1>1. tx' = [tx EXCEPT !.status = "Ok"] /\ Save("Ok", tx.items) /\ MutexFree
  BY DEF Close
<1>2. tx' \in Txs /\ tx'.status = "Ok" /\ tx'.items = tx.items /\ tx.items \in Nat
  BY <1>1 DEF Typed, Txs
<1>3. disk' \in Files
  BY <1>1, <1>2, SaveFacts
<1>4. QED
  BY <1>1, <1>2, <1>3 DEF MutexFree

LEMMA ScopeExitFacts ==
    ASSUME Typed, NEW took \in BOOLEAN, ScopeExit(took)
    PROVE  /\ call' \in Calls
           /\ \/ call' = Idle
              \/ call'.cmd = call.cmd /\ call'.pc = "inhibit" /\ call'.jammed = call.jammed
<1>1. CASE call' = Idle
  BY <1>1, IdleFacts
<1>2. CASE call' = [call EXCEPT !.pc = "inhibit", !.took = took, !.event = "stopped"]
  BY <1>2 DEF Typed, Calls, Pcs
<1>3. QED
  BY <1>1, <1>2 DEF ScopeExit, End

(* A transaction of unknown outcome, or none, has the items of the file. *)
LEMMA RestartFacts ==
    ASSUME Typed, Restart
    PROVE  /\ tx' \in Txs /\ tx'.status # "Active" /\ tx'.items = disk.items
           /\ tx.status = "Active" /\ disk.status = "Active" => tx'.status = "Unknown"
           /\ disk' \in Files
           /\ accepted' = disk.items /\ accepted' \in Nat
           /\ unit' \in Nat /\ limit' = 0 /\ stacker' = "Empty" /\ allowed' = "unknown"
           /\ poll' \in Polls /\ poll'.pc = "poll"
           /\ call' = Idle /\ dev' \in Devs /\ sent' = sent
<1> DEFINE status == IF disk.status = "Active" THEN "Unknown" ELSE disk.status
<1>1. /\ tx' = [status |-> status, items |-> disk.items, unrec |-> 0]
      /\ disk' = [disk EXCEPT !.status = status]
      /\ dev' = [dev EXCEPT !.enabled = FALSE, !.order = "none"]
      /\ poll' = Booted
      /\ accepted' = disk.items /\ unit' = disk.notes
      /\ limit' = 0 /\ stacker' = "Empty" /\ allowed' = "unknown"
      /\ call' = Idle /\ sent' = sent
  BY DEF Restart
<1>2. /\ status \in {"Ok", "Unknown"} /\ disk.items \in Nat /\ disk.notes \in Nat
      /\ disk.status = "Active" => status = "Unknown"
  BY DEF Typed, Files
<1> HIDE DEF status
<1>3. tx' \in Txs /\ tx'.status = status /\ tx'.items = disk.items
  BY <1>1, <1>2 DEF Txs
<1>4. disk' \in Files
  BY <1>1, <1>2 DEF Typed, Files
<1>5. dev' \in Devs
  BY <1>1 DEF Typed, Devs
<1>6. poll' \in Polls /\ poll'.pc = "poll"
  BY <1>1, NoFileFacts DEF Booted, Polls, DevStates
<1>7. QED
  BY <1>1, <1>2, <1>3, <1>4, <1>5, <1>6

-----------------------------------------------------------------------------
(* The invariant holds at first and every step keeps it.                   *)

LEMMA InitInvariant ==
    ASSUME Init
    PROVE  IInv
<1>1. /\ tx = [status |-> "Ok", items |-> 0, unrec |-> 0]
      /\ disk = [status |-> "Ok", items |-> 0, notes |-> unit]
      /\ dev = [enabled |-> FALSE, order |-> "none", inside |-> FALSE, inserted |-> 0, stacked |-> unit]
      /\ poll = Booted /\ call = Idle /\ unit \in Nat /\ accepted = 0
  BY CashInAssumption DEF Init
<1>2. tx \in Txs /\ disk \in Files /\ dev \in Devs
  BY <1>1 DEF Txs, Files, Devs
<1>3. poll \in Polls /\ poll.pc = "poll"
  BY <1>1, NoFileFacts DEF Booted, Polls, DevStates
<1>4. call \in Calls /\ call.cmd = "none" /\ call.pc = "idle"
  BY <1>1, IdleFacts
<1>5. TypeOK
  <2>1. Typed
    BY <1>1, <1>2, <1>3, <1>4 DEF Init, Typed
  <2>2. QED
    BY <2>1, TypedIsTypeOK
<1>6. tx.status = "Ok" /\ tx.items = 0 /\ ~dev.enabled
  BY <1>1
<1>7. QED
  BY <1>1, <1>3, <1>4, <1>5, <1>6 DEF IInv, AcceptedCounted,
     InhibitingInv, OpeningInv, SaveInv, JamInv, FileInv, DiskInv

(* A step of the command that changes nothing but the call, at a place     *)
(* where it has nothing to write.                                          *)
LEMMA CallOnlyKeeps ==
    ASSUME IInv, UNCHANGED <<tx, accepted, limit, unit, disk, allowed, poll, dev, sent, crashes>>,
           stacker' \in {"Empty", "NotEmpty"},
           \/ call' = Idle /\ ~Depositing /\ call.pc # "opening"
           \/ /\ call' \in Calls /\ call'.cmd = call.cmd /\ call.cmd # "none"
              /\ call'.jammed = call.jammed /\ ~Depositing
              /\ call.pc \notin {"opening", "clear", "launch"}
              /\ call'.pc \notin {"opening", "clear", "launch", "inhibiting", "record", "write"}
    PROVE  IInv'
<1>1. Typed
  BY TypedIsTypeOK DEF IInv
<1>2. Typed'
  BY <1>1, IdleFacts DEF Typed
<1>3. TypeOK'
  BY <1>2, TypedThen
<1>4. CASE call' = Idle /\ ~Depositing /\ call.pc # "opening"
  BY <1>3, <1>4, IdleFacts DEF IInv, AcceptedCounted, Depositing,
     InhibitingInv, OpeningInv, SaveInv, JamInv, FileInv, DiskInv
<1>5. CASE ~(call' = Idle /\ ~Depositing /\ call.pc # "opening")
  BY <1>3, <1>5 DEF IInv, AcceptedCounted, Depositing,
     InhibitingInv, OpeningInv, SaveInv, JamInv, FileInv, DiskInv
<1>6. QED
  BY <1>4, <1>5

LEMMA WaitingKeeps ==
    ASSUME IInv, CheckCurrent \/ Register \/ WaitEnds \/ WaitExpires
    PROVE  IInv'
<1>1. Typed
  BY TypedIsTypeOK DEF IInv
<1>2. /\ UNCHANGED <<tx, accepted, limit, unit, disk, allowed, poll, dev, sent, crashes>>
      /\ stacker' \in {"Empty", "NotEmpty"}
      /\ call.cmd \in {"CashIn", "CashInEnd", "Reset"} /\ call.pc \in {"check", "register", "wait"}
  BY <1>1 DEF CheckCurrent, Register, WaitEnds, WaitExpires, Blocked, CallStep, txVars, budget, Typed
<1>3. /\ call' \in Calls /\ call'.cmd = call.cmd /\ call'.jammed = call.jammed
      /\ call'.pc \in {"register", "wait", "resolve"}
  <2>1. CASE CheckCurrent
    <3>1. PICK seen, pc : /\ call' = [call EXCEPT !.event = seen, !.pc = pc]
                          /\ seen \in {"none", "good", "bad", "cancelled", "expired", "stopped"}
                          /\ pc \in {"register", "resolve"}
      <4> DEFINE seen == IF call.cmd = "Reset" THEN call.event ELSE Outcome(poll.flow)
      <4>1. call' = [call EXCEPT !.event = seen, !.pc = IF seen = "none" THEN "register" ELSE "resolve"]
        BY <2>1 DEF CheckCurrent
      <4>2. Outcome(poll.flow) \in {"none", "good", "bad"}
        BY DEF Outcome
      <4>3. seen \in {"none", "good", "bad", "cancelled", "expired", "stopped"}
        BY <1>1, <4>2 DEF Typed, Calls
      <4> HIDE DEF seen
      <4>4. QED
        BY <4>1, <4>3
    <3>2. QED
      BY <1>1, <3>1 DEF Typed, Calls, Pcs
  <2>2. CASE Register
    BY <1>1, <2>2, GotoFacts DEF Register, Pcs
  <2>3. CASE WaitEnds
    BY <1>1, <2>3 DEF WaitEnds, Typed, Calls, Pcs
  <2>4. CASE WaitExpires
    BY <1>1, <2>4 DEF WaitExpires, Typed, Calls, Pcs
  <2>5. QED
    BY <2>1, <2>2, <2>3, <2>4
<1>4. ~Depositing
  BY <1>2 DEF Depositing
<1>5. QED
  BY <1>2, <1>3, <1>4, CallOnlyKeeps

LEMMA CashInBeginsKeeps ==
    ASSUME IInv, CashInValidate \/ CashInReady \/ Arm
    PROVE  IInv'
<1>1. Typed
  BY TypedIsTypeOK DEF IInv
<1>2. /\ UNCHANGED <<tx, accepted, limit, unit, disk, allowed, poll, dev, sent, crashes>>
      /\ stacker' \in {"Empty", "NotEmpty"}
      /\ call.cmd = "CashIn" /\ call.pc \in {"validate", "settle", "leave", "arm"}
  BY <1>1 DEF CashInValidate, CashInReady, Arm, CallStep, txVars, budget, Typed
<1>3. \/ call' = Idle
      \/ /\ call' \in Calls /\ call'.cmd = call.cmd /\ call'.jammed = call.jammed
         /\ call'.pc \in {"settle", "leave", "allow", "check"}
  <2>1. CASE CashInValidate
    <3>1. End \/ Goto("settle") \/ Goto("leave") \/ Goto("allow")
      BY <2>1 DEF CashInValidate
    <3>2. QED
      BY <1>1, <3>1, GotoFacts DEF End, Pcs
  <2>2. CASE CashInReady
    <3>1. End \/ Goto("allow")
      BY <2>2 DEF CashInReady
    <3>2. QED
      BY <1>1, <3>1, GotoFacts DEF End, Pcs
  <2>3. CASE Arm
    BY <1>1, <2>3 DEF Arm, Typed, Calls, Pcs
  <2>4. QED
    BY <2>1, <2>2, <2>3
<1>4. ~Depositing
  BY <1>2 DEF Depositing
<1>5. QED
  BY <1>2, <1>3, <1>4, CallOnlyKeeps

LEMMA ResolveKeeps ==
    ASSUME IInv, CashInResolve \/ CashInEndResolve
    PROVE  IInv'
<1>1. Typed
  BY TypedIsTypeOK DEF IInv
<1>2. /\ UNCHANGED <<tx, accepted, limit, unit, disk, allowed, poll, dev, sent, crashes>>
      /\ stacker' \in {"Empty", "NotEmpty"}
      /\ call.cmd \in {"CashIn", "CashInEnd"} /\ call.pc = "resolve"
  BY <1>1 DEF CashInResolve, CashInEndResolve, CallStep, txVars, budget, Typed
<1>3. \/ call' = Idle
      \/ /\ call' \in Calls /\ call'.cmd = call.cmd /\ call'.jammed = call.jammed
         /\ call'.pc \in {"inhibit", "count", "deposit"}
  <2>1. CASE CashInResolve
    <3>1. \/ ScopeExit(call.took)
          \/ Goto("inhibit")
          \/ call' = [call EXCEPT !.pc = "count", !.note = poll.note]
      BY <2>1 DEF CashInResolve
    <3>2. call.took \in BOOLEAN /\ poll.note \in BOOLEAN
      BY <1>1 DEF Typed, Calls, Polls
    <3>3. CASE ScopeExit(call.took)
      BY <1>1, <3>2, <3>3, ScopeExitFacts
    <3>4. CASE Goto("inhibit")
      BY <1>1, <3>4, GotoFacts DEF Pcs
    <3>5. CASE call' = [call EXCEPT !.pc = "count", !.note = poll.note]
      BY <1>1, <3>2, <3>5 DEF Typed, Calls, Pcs
    <3>6. QED
      BY <3>1, <3>3, <3>4, <3>5
  <2>2. CASE CashInEndResolve
    <3>1. End \/ Goto("deposit")
      BY <2>2 DEF CashInEndResolve
    <3>2. QED
      BY <1>1, <3>1, GotoFacts DEF End, Pcs
  <2>3. QED
    BY <2>1, <2>2
<1>4. ~Depositing
  BY <1>2 DEF Depositing
<1>5. QED
  BY <1>2, <1>3, <1>4, CallOnlyKeeps

(* The end of _inhibit. *)
LEMMA AfterInhibitFacts ==
    ASSUME Typed, AfterInhibit, call.cmd \in {"CashIn", "CashInEnd"}
    PROVE  /\ stacker' \in {"Empty", "NotEmpty"}
           /\ UNCHANGED <<tx, accepted, limit, unit, disk>>
           /\ \/ call' = Idle /\ call.cmd = "CashIn"
              \/ /\ call' \in Calls /\ call'.cmd = call.cmd
                 /\ IF call.cmd = "CashInEnd" THEN call'.pc = "close" ELSE call'.pc = "inhibit"
<1>1. /\ stacker' \in {"Empty", "NotEmpty"}
      /\ UNCHANGED <<tx, accepted, limit, unit, disk>>
  BY DEF AfterInhibit, Typed
<1>2. CASE call.cmd = "CashInEnd"
  <2>1. Goto("close")
    BY <1>2 DEF AfterInhibit
  <2>2. QED
    BY <1>1, <1>2, <2>1, GotoFacts DEF Pcs
<1>3. CASE call.cmd = "CashIn"
  <2>1. ScopeExit(call.took) \/ End
    BY <1>3 DEF AfterInhibit
  <2>2. call.took \in BOOLEAN
    BY DEF Typed, Calls
  <2>3. QED
    BY <1>1, <1>3, <2>1, <2>2, ScopeExitFacts DEF End
<1>4. QED
  BY <1>2, <1>3

(* What _inhibit does never lets notes in. *)
LEMMA RefusingFacts ==
    ASSUME Typed
    PROVE  /\ Forbidden \subseteq {d \in Devs : ~d.enabled}
           /\ Refusing \subseteq {d \in Devs : d.enabled => dev.enabled}
           /\ Forbidden \cup Refusing \subseteq {d \in Devs : d.enabled => dev.enabled}
<1>1. SendBack \subseteq {"none", "stack", "reset"}
  BY DEF SendBack, Typed, Devs
<1>2. ASSUME NEW o \in SendBack
      PROVE  /\ [dev EXCEPT !.order = o] \in {d \in Devs : d.enabled => dev.enabled}
             /\ [dev EXCEPT !.order = o, !.enabled = FALSE] \in {d \in Devs : ~d.enabled}
  BY <1>1, <1>2 DEF Typed, Devs
<1>3. QED
  BY <1>2 DEF Forbidden, Refusing

LEMMA InhibitKeeps ==
    ASSUME IInv, Inhibit
    PROVE  IInv'
<1>1. Typed
  BY TypedIsTypeOK DEF IInv
<1>2. /\ call.cmd \in {"CashIn", "CashInEnd"} /\ call.pc = "inhibit"
      /\ UNCHANGED <<poll, sent, crashes, allowed>>
  BY DEF Inhibit, CallStep, budget
<1>3. /\ Forbidden \subseteq {d \in Devs : ~d.enabled}
      /\ Refusing \subseteq {d \in Devs : d.enabled => dev.enabled}
  BY <1>1, RefusingFacts
<1>4. CASE AfterInhibit /\ (dev' = dev \/ dev' \in Refusing)
  <2>1. /\ stacker' \in {"Empty", "NotEmpty"}
        /\ UNCHANGED <<tx, accepted, limit, unit, disk>>
        /\ \/ call' = Idle /\ call.cmd = "CashIn"
           \/ /\ call' \in Calls /\ call'.cmd = call.cmd
              /\ IF call.cmd = "CashInEnd" THEN call'.pc = "close" ELSE call'.pc = "inhibit"
    BY <1>1, <1>2, <1>4, AfterInhibitFacts
  <2>2. dev' \in Devs /\ (dev'.enabled => dev.enabled)
    BY <1>1, <1>3, <1>4 DEF Typed
  <2>3. Typed'
    BY <1>1, <1>2, <2>1, <2>2, IdleFacts DEF Typed
  <2>4. QED
    BY <1>2, <2>1, <2>2, <2>3, TypedThen, IdleFacts DEF IInv, AcceptedCounted,
       Depositing, InhibitingInv, OpeningInv, SaveInv, JamInv, FileInv, DiskInv
<1>5. CASE /\ Goto("inhibiting") /\ UNCHANGED txVars
           /\ dev' \in Forbidden
  <2>1. call' \in Calls /\ call'.pc = "inhibiting" /\ call'.cmd = call.cmd
    BY <1>1, <1>5, GotoFacts DEF Pcs
  <2>2. dev' \in Devs /\ ~dev'.enabled
    BY <1>3, <1>5
  <2>3. UNCHANGED <<tx, accepted, limit, stacker, unit, disk>>
    BY <1>5 DEF txVars
  <2>4. Typed'
    BY <1>1, <1>2, <2>1, <2>2, <2>3 DEF Typed
  <2>5. QED
    BY <1>2, <2>1, <2>2, <2>3, <2>4, TypedThen DEF IInv, AcceptedCounted,
       Depositing, InhibitingInv, OpeningInv, SaveInv, JamInv, FileInv, DiskInv
<1>6. QED
  BY <1>4, <1>5 DEF Inhibit

LEMMA InhibitedKeeps ==
    ASSUME IInv, Inhibited
    PROVE  IInv'
<1>1. Typed
  BY TypedIsTypeOK DEF IInv
<1>2. /\ call.cmd \in {"CashIn", "CashInEnd"} /\ call.pc = "inhibiting"
      /\ UNCHANGED <<poll, sent, crashes, dev>>
      /\ allowed' \in {"no", "unknown"} /\ AfterInhibit
  BY DEF Inhibited, CallStep, budget
<1>3. /\ stacker' \in {"Empty", "NotEmpty"}
      /\ UNCHANGED <<tx, accepted, limit, unit, disk>>
      /\ \/ call' = Idle /\ call.cmd = "CashIn"
         \/ /\ call' \in Calls /\ call'.cmd = call.cmd
            /\ IF call.cmd = "CashInEnd" THEN call'.pc = "close" ELSE call'.pc = "inhibit"
  BY <1>1, <1>2, AfterInhibitFacts
<1>4. Typed'
  BY <1>1, <1>2, <1>3, IdleFacts DEF Typed
<1>5. ~dev.enabled
  BY <1>2 DEF IInv, InhibitingInv
<1>6. QED
  BY <1>2, <1>3, <1>4, <1>5, TypedThen, IdleFacts DEF IInv, AcceptedCounted,
     Depositing, InhibitingInv, OpeningInv, SaveInv, JamInv, FileInv, DiskInv

LEMMA TransactionOpenedKeeps ==
    ASSUME IInv, TransactionOpened
    PROVE  IInv'
<1>1. Typed
  BY TypedIsTypeOK DEF IInv
<1>2. /\ call.pc = "opening" /\ Goto("opened")
      /\ disk' = [disk EXCEPT !.items = 0]
      /\ UNCHANGED <<tx, accepted, limit, stacker, unit, allowed, poll, dev, sent, crashes>>
  BY DEF TransactionOpened, budget
<1>3. call' \in Calls /\ call'.pc = "opened" /\ call'.cmd = call.cmd /\ call'.jammed = call.jammed
  BY <1>1, <1>2, GotoFacts DEF Pcs
<1>4. disk' \in Files /\ disk'.items = 0 /\ disk'.status = disk.status
  BY <1>1, <1>2 DEF Typed, Files
<1>5. call.cmd # "none"
  BY <1>1, <1>2, IdleFacts DEF Typed
<1>6. Typed'
  BY <1>1, <1>2, <1>3, <1>4, <1>5 DEF Typed
<1>7. QED
  BY <1>2, <1>3, <1>4, <1>5, <1>6, TypedThen DEF IInv, AcceptedCounted,
     Depositing, InhibitingInv, OpeningInv, SaveInv, JamInv, FileInv, DiskInv

LEMMA ClearAcceptedKeeps ==
    ASSUME IInv, ClearAccepted
    PROVE  IInv'
<1>1. Typed
  BY TypedIsTypeOK DEF IInv
<1>2. /\ call.pc = "opened" /\ call' = Idle /\ accepted' = 0
      /\ UNCHANGED <<tx, limit, stacker, unit, disk, allowed, poll, dev, sent, crashes>>
  BY DEF ClearAccepted, End, budget
<1>3. tx.items \in Nat
  BY <1>1 DEF Typed, Txs
<1>4. Typed'
  BY <1>1, <1>2, <1>3, IdleFacts DEF Typed
<1>5. QED
  BY <1>2, <1>3, <1>4, TypedThen, IdleFacts DEF IInv, AcceptedCounted,
     Depositing, InhibitingInv, OpeningInv, SaveInv, JamInv, FileInv, DiskInv

LEMMA DepositKeeps ==
    ASSUME IInv, Deposit
    PROVE  IInv'
<1>1. Typed
  BY TypedIsTypeOK DEF IInv
<1>2. /\ call.cmd = "CashInEnd" /\ call.pc = "deposit" /\ Goto("record")
      /\ unit' = unit + accepted
      /\ UNCHANGED <<tx, accepted, limit, stacker, disk, allowed, poll, dev, sent, crashes>>
  BY DEF Deposit, CallStep, budget
<1>3. call' \in Calls /\ call'.pc = "record" /\ call'.cmd = call.cmd
  BY <1>1, <1>2, GotoFacts DEF Pcs
<1>4. Typed'
  BY <1>1, <1>2, <1>3 DEF Typed
<1>5. QED
  BY <1>2, <1>3, <1>4, TypedThen DEF IInv, AcceptedCounted,
     Depositing, InhibitingInv, OpeningInv, SaveInv, JamInv, FileInv, DiskInv

LEMMA RecordKeeps ==
    ASSUME IInv, Record
    PROVE  IInv'
<1>1. Typed
  BY TypedIsTypeOK DEF IInv
<1>2. /\ call.cmd \in {"CashInEnd", "Reset"} /\ call.pc = "record"
      /\ call' = [call EXCEPT !.pc = "write", !.file = [disk EXCEPT !.notes = disk.notes + accepted]]
      /\ UNCHANGED <<tx, accepted, limit, stacker, unit, disk, allowed, poll, dev, sent, crashes>>
  BY DEF Record, CallStep, txVars, budget
<1>3. PICK file : /\ file \in Files /\ file.status = disk.status /\ file.items = disk.items
                  /\ call' = [call EXCEPT !.pc = "write", !.file = file]
  <2> DEFINE file == [disk EXCEPT !.notes = disk.notes + accepted]
  <2>1. file \in Files /\ file.status = disk.status /\ file.items = disk.items
    BY <1>1 DEF Typed, Files
  <2> HIDE DEF file
  <2>2. call' = [call EXCEPT !.pc = "write", !.file = file]
    BY <1>2 DEF file
  <2>3. QED
    BY <2>1, <2>2
<1>4. /\ call' \in Calls /\ call'.pc = "write" /\ call'.cmd = call.cmd
      /\ call'.jammed = call.jammed /\ call'.file = file
  BY <1>1, <1>3 DEF Typed, Calls, Pcs
<1>5. Typed'
  BY <1>1, <1>2, <1>3, <1>4 DEF Typed
<1>6. QED
  BY <1>2, <1>3, <1>4, <1>5, TypedThen DEF IInv, AcceptedCounted,
     Depositing, InhibitingInv, OpeningInv, SaveInv, JamInv, FileInv, DiskInv

LEMMA WriteKeeps ==
    ASSUME IInv, Write
    PROVE  IInv'
<1>1. Typed
  BY TypedIsTypeOK DEF IInv
<1>2. /\ call.cmd \in {"CashInEnd", "Reset"} /\ call.pc = "write" /\ disk' = call.file
      /\ UNCHANGED <<tx, accepted, limit, stacker, unit, allowed, poll, dev, sent, crashes>>
  BY DEF Write, CallStep, budget
<1>3. disk' \in Files
  BY <1>1, <1>2 DEF Typed, Calls
<1>4. \/ call.cmd = "Reset" /\ call' = Idle
      \/ call.cmd = "CashInEnd" /\ call' \in Calls /\ call'.cmd = call.cmd /\ call'.pc = "forget"
  <2>1. \/ call.cmd = "Reset" /\ call' = Idle
        \/ call.cmd = "CashInEnd" /\ call' = [call EXCEPT !.pc = "forget", !.file = NoFile]
    BY <1>2 DEF Write, End
  <2>2. QED
    BY <1>1, <2>1, NoFileFacts DEF Typed, Calls, Pcs
<1>5. call.cmd = "Reset" => disk'.status = disk.status /\ disk'.items = disk.items
  BY <1>2 DEF IInv, FileInv
<1>6. Typed'
  BY <1>1, <1>2, <1>3, <1>4, <1>5, IdleFacts DEF Typed
<1>7. QED
  BY <1>2, <1>3, <1>4, <1>5, <1>6, TypedThen, IdleFacts DEF IInv, AcceptedCounted,
     Depositing, InhibitingInv, OpeningInv, SaveInv, JamInv, FileInv, DiskInv

LEMMA ForgetKeeps ==
    ASSUME IInv, Forget
    PROVE  IInv'
<1>1. Typed
  BY TypedIsTypeOK DEF IInv
<1>2. /\ call.cmd = "CashInEnd" /\ call.pc = "forget" /\ Save("Ok", 0) /\ Goto("commit")
      /\ UNCHANGED <<tx, accepted, limit, stacker, unit, allowed, poll, dev, sent, crashes>>
  BY DEF Forget, CallStep, budget
<1>3. disk' \in Files
  BY <1>1, <1>2, SaveFacts
<1>4. call' \in Calls /\ call'.pc = "commit" /\ call'.cmd = call.cmd
  BY <1>1, <1>2, GotoFacts DEF Pcs
<1>5. Typed'
  BY <1>1, <1>2, <1>3, <1>4 DEF Typed
<1>6. QED
  BY <1>2, <1>3, <1>4, <1>5, TypedThen DEF IInv, AcceptedCounted,
     Depositing, InhibitingInv, OpeningInv, SaveInv, JamInv, FileInv, DiskInv

LEMMA CommitKeeps ==
    ASSUME IInv, Commit
    PROVE  IInv'
<1>1. Typed
  BY TypedIsTypeOK DEF IInv
<1>2. /\ call.cmd = "CashInEnd" /\ call.pc = "commit" /\ Goto("inhibit")
      /\ accepted' = 0 /\ limit' = 0 /\ stacker' = "Empty"
      /\ UNCHANGED <<tx, unit, disk, allowed, poll, dev, sent, crashes>>
  BY DEF Commit, CallStep, budget
<1>3. call' \in Calls /\ call'.pc = "inhibit" /\ call'.cmd = call.cmd
  BY <1>1, <1>2, GotoFacts DEF Pcs
<1>4. tx.items \in Nat
  BY <1>1 DEF Typed, Txs
<1>5. Typed'
  BY <1>1, <1>2, <1>3, <1>4 DEF Typed
<1>6. QED
  BY <1>2, <1>3, <1>4, <1>5, TypedThen DEF IInv, AcceptedCounted,
     Depositing, InhibitingInv, OpeningInv, SaveInv, JamInv, FileInv, DiskInv

LEMMA CloseTransactionKeeps ==
    ASSUME IInv, CloseTransaction
    PROVE  IInv'
<1>1. Typed
  BY TypedIsTypeOK DEF IInv
<1>2. /\ call.cmd = "CashInEnd" /\ call.pc = "close" /\ Close /\ call' = Idle
      /\ UNCHANGED <<accepted, limit, stacker, unit, allowed, poll, dev, sent, crashes>>
  BY DEF CloseTransaction, CallStep, End, budget
<1>3. /\ tx' \in Txs /\ tx'.status = "Ok" /\ tx'.items = tx.items
      /\ disk' \in Files /\ poll.pc # "save"
  BY <1>1, <1>2, CloseFacts
<1>4. Typed'
  BY <1>1, <1>2, <1>3, IdleFacts DEF Typed
<1>5. QED
  BY <1>2, <1>3, <1>4, TypedThen, IdleFacts DEF IInv, AcceptedCounted,
     Depositing, InhibitingInv, OpeningInv, SaveInv, JamInv, FileInv, DiskInv

LEMMA CashInEndValidateKeeps ==
    ASSUME IInv, CashInEndValidate
    PROVE  IInv'
<1>1. Typed
  BY TypedIsTypeOK DEF IInv
<1>2. /\ call.cmd = "CashInEnd" /\ call.pc = "validate"
      /\ (Close /\ call' = Idle) \/ (Goto("branch") /\ UNCHANGED <<tx, disk>>)
      /\ UNCHANGED <<accepted, limit, stacker, unit, allowed, poll, dev, sent, crashes>>
  BY DEF CashInEndValidate, CallStep, End, budget
<1>3. \/ /\ call' = Idle /\ tx' \in Txs /\ tx'.status = "Ok" /\ tx'.items = tx.items
         /\ disk' \in Files /\ poll.pc # "save"
      \/ /\ call' \in Calls /\ call'.pc = "branch" /\ call'.cmd = call.cmd
         /\ UNCHANGED <<tx, disk>>
  BY <1>1, <1>2, CloseFacts, GotoFacts DEF Pcs
<1>4. Typed'
  BY <1>1, <1>2, <1>3, IdleFacts DEF Typed
<1>5. QED
  BY <1>2, <1>3, <1>4, TypedThen, IdleFacts DEF IInv, AcceptedCounted,
     Depositing, InhibitingInv, OpeningInv, SaveInv, JamInv, FileInv, DiskInv

LEMMA CashInEndBranchKeeps ==
    ASSUME IInv, CashInEndBranch
    PROVE  IInv'
<1>1. Typed
  BY TypedIsTypeOK DEF IInv
<1>2. /\ call.cmd = "CashInEnd" /\ call.pc = "branch"
      /\ End \/ Goto("deposit") \/ Goto("check")
      /\ dev' = dev \/ dev' = [dev EXCEPT !.order = "stack"]
      /\ UNCHANGED <<tx, accepted, limit, stacker, unit, disk, allowed, poll, sent, crashes>>
  BY DEF CashInEndBranch, CallStep, Ordered, txVars, budget
<1>3. \/ call' = Idle
      \/ call' \in Calls /\ call'.pc \in {"deposit", "check"} /\ call'.cmd = call.cmd
  BY <1>1, <1>2, GotoFacts DEF End, Pcs
<1>4. dev' \in Devs /\ dev'.enabled = dev.enabled
  BY <1>1, <1>2 DEF Typed, Devs
<1>5. Typed'
  BY <1>1, <1>2, <1>3, <1>4, IdleFacts DEF Typed
<1>6. QED
  BY <1>2, <1>3, <1>4, <1>5, TypedThen, IdleFacts DEF IInv, AcceptedCounted,
     Depositing, InhibitingInv, OpeningInv, SaveInv, JamInv, FileInv, DiskInv

LEMMA AllowKeeps ==
    ASSUME IInv, Allow
    PROVE  IInv'
<1>1. Typed
  BY TypedIsTypeOK DEF IInv
<1>2. /\ call.cmd = "CashIn" /\ call.pc = "allow"
      /\ End \/ Goto("arm")
      /\ allowed' \in {allowed, "yes"}
      /\ dev' \in {dev, [dev EXCEPT !.enabled = TRUE]}
      /\ UNCHANGED <<tx, accepted, limit, stacker, unit, disk, poll, sent, crashes>>
  BY DEF Allow, CallStep, txVars, budget
<1>3. \/ call' = Idle
      \/ call' \in Calls /\ call'.pc = "arm" /\ call'.cmd = call.cmd
  BY <1>1, <1>2, GotoFacts DEF End, Pcs
<1>4. dev' \in Devs
  BY <1>1, <1>2 DEF Typed, Devs
<1>5. Typed'
  BY <1>1, <1>2, <1>3, <1>4, IdleFacts DEF Typed
<1>6. QED
  BY <1>2, <1>3, <1>4, <1>5, TypedThen, IdleFacts DEF IInv, AcceptedCounted,
     Depositing, InhibitingInv, OpeningInv, SaveInv, JamInv, FileInv, DiskInv

LEMMA CashInCountKeeps ==
    ASSUME IInv, CashInCount
    PROVE  IInv'
<1>1. Typed
  BY TypedIsTypeOK DEF IInv
<1>2. /\ call.cmd = "CashIn" /\ call.pc = "count" /\ CountNote(call.note) /\ ScopeExit(TRUE)
      /\ stacker' = "NotEmpty"
      /\ UNCHANGED <<limit, unit, allowed, poll, dev, sent, crashes>>
  BY DEF CashInCount, CallStep, budget
<1>3. call.note \in BOOLEAN
  BY <1>1 DEF Typed, Calls
<1>4. /\ tx' \in Txs /\ accepted' \in Nat /\ disk' \in Files
      /\ accepted <= tx.items => accepted' <= tx'.items
      /\ disk'.status = tx'.status /\ disk'.items = tx'.items /\ poll.pc # "save"
  BY <1>1, <1>2, <1>3, CountNoteFacts
<1>5. \/ call' = Idle
      \/ call' \in Calls /\ call'.pc = "inhibit" /\ call'.cmd = call.cmd
  BY <1>1, <1>2, ScopeExitFacts
<1>6. Typed'
  BY <1>1, <1>2, <1>3, <1>4, <1>5, IdleFacts DEF Typed
<1>7. QED
  BY <1>2, <1>3, <1>4, <1>5, <1>6, TypedThen, IdleFacts DEF IInv, AcceptedCounted,
     Depositing, InhibitingInv, OpeningInv, SaveInv, JamInv, FileInv, DiskInv

LEMMA ResetClearKeeps ==
    ASSUME IInv, ResetClear
    PROVE  IInv'
<1>1. Typed
  BY TypedIsTypeOK DEF IInv
<1>2. /\ call.cmd = "Reset" /\ call.pc = "clear"
      /\ \/ End /\ UNCHANGED <<accepted, limit, stacker>>
         \/ accepted' = 0 /\ limit' = 0 /\ stacker' = "Empty" /\ Goto("launch")
      /\ UNCHANGED <<tx, unit, disk, allowed, poll, dev, sent, crashes>>
  BY DEF ResetClear, CallStep, budget
<1>3. \/ call' = Idle
      \/ /\ call' \in Calls /\ call'.pc = "launch" /\ call'.cmd = call.cmd
         /\ call'.jammed = call.jammed
  BY <1>1, <1>2, GotoFacts DEF End, Pcs
<1>4. tx.items \in Nat
  BY <1>1 DEF Typed, Txs
<1>5. Typed'
  BY <1>1, <1>2, <1>3, <1>4, IdleFacts DEF Typed
<1>6. QED
  BY <1>2, <1>3, <1>4, <1>5, TypedThen, IdleFacts DEF IInv, AcceptedCounted,
     Depositing, InhibitingInv, OpeningInv, SaveInv, JamInv, FileInv, DiskInv

LEMMA ResetLaunchKeeps ==
    ASSUME IInv, ResetLaunch
    PROVE  IInv'
<1>1. Typed
  BY TypedIsTypeOK DEF IInv
<1>2. /\ call.cmd = "Reset" /\ call.pc = "launch"
      /\ \/ /\ call' = [call EXCEPT !.pc = "check", !.note = poll.note]
         \/ call' = Idle
      /\ dev' \in {dev, [dev EXCEPT !.order = "reset"]}
      /\ UNCHANGED <<tx, accepted, limit, stacker, unit, disk, allowed, poll, sent, crashes>>
  BY DEF ResetLaunch, CallStep, Ordered, End, txVars, budget
<1>3. \/ call' = Idle
      \/ /\ call' \in Calls /\ call'.pc = "check" /\ call'.cmd = call.cmd
         /\ call'.jammed = call.jammed
  <2>1. poll.note \in BOOLEAN
    BY <1>1 DEF Typed, Polls
  <2>2. QED
    BY <1>1, <1>2, <2>1 DEF Typed, Calls, Pcs
<1>4. ~call.jammed
  BY <1>2 DEF IInv, JamInv
<1>5. dev' \in Devs /\ dev'.enabled = dev.enabled
  BY <1>1, <1>2 DEF Typed, Devs
<1>6. Typed'
  BY <1>1, <1>2, <1>3, <1>5, IdleFacts DEF Typed
<1>7. QED
  BY <1>2, <1>3, <1>4, <1>5, <1>6, TypedThen, IdleFacts DEF IInv, AcceptedCounted,
     Depositing, InhibitingInv, OpeningInv, SaveInv, JamInv, FileInv, DiskInv

LEMMA ResetResolveKeeps ==
    ASSUME IInv, ResetResolve
    PROVE  IInv'
<1>1. Typed
  BY TypedIsTypeOK DEF IInv
<1>2. /\ call.cmd = "Reset" /\ call.pc = "resolve"
      /\ \/ call.jammed /\ CountNote(call.note) /\ Goto("record")
         \/ call' = Idle /\ UNCHANGED <<tx, accepted, disk>>
      /\ UNCHANGED <<limit, stacker, unit, allowed, poll, dev, sent, crashes>>
  BY DEF ResetResolve, CallStep, NothingCounted, End, budget
<1>3. call.note \in BOOLEAN
  BY <1>1 DEF Typed, Calls
<1>4. \/ /\ tx' \in Txs /\ accepted' \in Nat /\ disk' \in Files
         /\ accepted <= tx.items => accepted' <= tx'.items
         /\ disk'.status = tx'.status /\ disk'.items = tx'.items /\ poll.pc # "save"
         /\ call' \in Calls /\ call'.pc = "record" /\ call'.cmd = call.cmd
         /\ call'.jammed = call.jammed /\ call.jammed
      \/ call' = Idle /\ UNCHANGED <<tx, accepted, disk>>
  BY <1>1, <1>2, <1>3, CountNoteFacts, GotoFacts DEF Pcs
<1>5. Typed'
  BY <1>1, <1>2, <1>3, <1>4, IdleFacts DEF Typed
<1>6. QED
  BY <1>2, <1>3, <1>4, <1>5, TypedThen, IdleFacts DEF IInv, AcceptedCounted,
     Depositing, InhibitingInv, OpeningInv, SaveInv, JamInv, FileInv, DiskInv

LEMMA SendFacts ==
    ASSUME Typed, NEW cmd \in Commands, NEW pc \in Pcs, Send(cmd, pc)
    PROVE  /\ call' \in Calls /\ call'.cmd = cmd /\ call'.pc = pc /\ ~call'.jammed
           /\ call.cmd = "none" /\ call.pc = "idle" /\ cmd # "none"
           /\ sent' \in Nat /\ UNCHANGED <<allowed, poll, dev, crashes>>
<1>1. /\ call = Idle /\ call.cmd = "none" /\ sent' = sent + 1
      /\ call' = [call EXCEPT !.cmd = cmd, !.pc = pc]
      /\ UNCHANGED <<allowed, poll, dev, crashes>>
  BY DEF Send, Typed
<1>2. call \in Calls /\ sent \in Nat
  BY DEF Typed
<1>3. ~call.jammed /\ call.pc = "idle"
  BY <1>1, IdleFacts
<1>4. call' \in Calls /\ call'.cmd = cmd /\ call'.pc = pc /\ call'.jammed = call.jammed
  BY <1>1, <1>2 DEF Calls
<1>5. cmd # "none"
  BY DEF Commands
<1>6. QED
  BY <1>1, <1>2, <1>3, <1>4, <1>5

LEMMA StartTransactionKeeps ==
    ASSUME IInv, NEW l \in Limits, StartTransaction(l)
    PROVE  IInv'
<1>1. Typed
  BY TypedIsTypeOK DEF IInv
<1>2. /\ MutexFree /\ Send("CashInStart", "opening")
      /\ tx' = [status |-> "Active", items |-> 0, unrec |-> 0]
      /\ disk' = [disk EXCEPT !.status = "Active"]
      /\ limit' = l /\ accepted' = 0
      /\ UNCHANGED <<stacker, unit>>
  BY DEF StartTransaction
<1>3. /\ call' \in Calls /\ call'.cmd = "CashInStart" /\ call'.pc = "opening"
      /\ sent' \in Nat /\ UNCHANGED <<allowed, poll, dev, crashes>>
      /\ call.pc = "idle"
  BY <1>1, <1>2, SendFacts DEF Commands, Pcs
<1>4. tx' \in Txs /\ tx'.status = "Active" /\ tx'.items = 0
  BY <1>2 DEF Txs
<1>5. disk' \in Files /\ disk'.status = "Active"
  BY <1>1, <1>2 DEF Typed, Files
<1>6. poll.pc # "save"
  BY <1>2 DEF MutexFree
<1>7. Typed'
  BY <1>1, <1>2, <1>3, <1>4, <1>5, <1>6 DEF Typed
<1>8. QED
  BY <1>2, <1>3, <1>4, <1>5, <1>6, <1>7, TypedThen DEF IInv, AcceptedCounted,
     Depositing, InhibitingInv, OpeningInv, SaveInv, JamInv, FileInv, DiskInv

LEMMA SendCommandKeeps ==
    ASSUME IInv, SendCommand
    PROVE  IInv'
<1>1. Typed
  BY TypedIsTypeOK DEF IInv
<1>2. UNCHANGED <<tx, accepted, limit, stacker, unit, disk>>
  BY DEF SendCommand, txVars
<1>3. /\ call' \in Calls
      /\ \/ call'.cmd \in {"CashIn", "CashInEnd"} /\ call'.pc = "validate"
         \/ call'.cmd = "Reset" /\ call'.pc = "clear"
      /\ ~call'.jammed /\ call.cmd = "none" /\ call.pc = "idle"
      /\ sent' \in Nat /\ UNCHANGED <<allowed, poll, dev, crashes>>
  <2>1. CASE \E cmd \in {"CashIn", "CashInEnd"} : Send(cmd, "validate")
    BY <1>1, <2>1, SendFacts DEF Commands, Pcs
  <2>2. CASE Send("Reset", "clear")
    BY <1>1, <2>2, SendFacts DEF Commands, Pcs
  <2>3. QED
    BY <2>1, <2>2 DEF SendCommand
<1>4. Typed'
  BY <1>1, <1>2, <1>3 DEF Typed
<1>5. QED
  BY <1>2, <1>3, <1>4, TypedThen DEF IInv, AcceptedCounted,
     Depositing, InhibitingInv, OpeningInv, SaveInv, JamInv, FileInv, DiskInv

LEMMA StopCommandKeeps ==
    ASSUME IInv, StopCommand
    PROVE  IInv'
<1>1. Typed
  BY TypedIsTypeOK DEF IInv
<1>2. /\ call.cmd \in {"CashIn", "CashInEnd", "Reset"}
      /\ UNCHANGED <<tx, accepted, limit, stacker, unit, disk, allowed, poll, dev, sent, crashes>>
  BY DEF StopCommand, txVars, budget
<1>3. PICK cancel \in BOOLEAN : call' = [call EXCEPT !.stop = TRUE, !.cancel = cancel]
  BY <1>1 DEF StopCommand, Typed, Calls
<1>4. /\ call' \in Calls /\ call'.cmd = call.cmd /\ call'.pc = call.pc
      /\ call'.jammed = call.jammed /\ call'.file = call.file
  BY <1>1, <1>3 DEF Typed, Calls
<1>5. Typed'
  BY <1>1, <1>2, <1>3, <1>4 DEF Typed
<1>6. QED
  BY <1>2, <1>3, <1>4, <1>5, TypedThen DEF IInv, AcceptedCounted,
     Depositing, InhibitingInv, OpeningInv, SaveInv, JamInv, FileInv, DiskInv

LEMMA CrashKeeps ==
    ASSUME IInv, Crash
    PROVE  IInv'
<1>1. Typed
  BY TypedIsTypeOK DEF IInv
<1>2. Restart /\ crashes' = crashes + 1
  BY DEF Crash
<1>3. /\ tx' \in Txs /\ tx'.status # "Active" /\ tx'.items = disk.items /\ disk' \in Files
      /\ accepted' = disk.items /\ accepted' \in Nat
      /\ unit' \in Nat /\ limit' = 0 /\ stacker' = "Empty" /\ allowed' = "unknown"
      /\ poll' \in Polls /\ poll'.pc = "poll"
      /\ call' = Idle /\ dev' \in Devs /\ sent' = sent
  BY <1>1, <1>2, RestartFacts
<1>4. crashes' \in Nat
  BY <1>1, <1>2 DEF Typed
<1>5. Typed'
  BY <1>1, <1>2, <1>3, <1>4, IdleFacts DEF Typed
<1>6. QED
  BY <1>2, <1>3, <1>4, <1>5, TypedThen, IdleFacts DEF IInv, AcceptedCounted,
     Depositing, InhibitingInv, OpeningInv, SaveInv, JamInv, FileInv, DiskInv

(* The validator stacks a note from escrow only when it is ordered to, and *)
(* a note comes to the escrow only when one has been inserted.             *)
LEMMA StackingFacts ==
    ASSUME Typed
    PROVE  /\ "Stacking" \in MayBecome => poll.state = "Escrow" /\ dev.order = "stack"
           /\ "Escrow" \in MayBecome => poll.state = "Accepting"
<1>1. poll.state \in DevStates
  BY DEF Typed, Polls
<1>2. CASE poll.state = "UnitDisabled"
  BY <1>2 DEF MayBecome, Rest
<1>3. CASE poll.state = "Idling"
  BY <1>3 DEF MayBecome, Rest
<1>4. CASE poll.state = "Accepting"
  BY <1>4 DEF MayBecome, Rest
<1>5. CASE poll.state = "Escrow"
  BY <1>5 DEF MayBecome, Rest
<1>6. CASE poll.state = "Stacking"
  BY <1>6 DEF MayBecome, Rest
<1>7. CASE poll.state = "BillStacked"
  BY <1>7 DEF MayBecome, Rest
<1>8. CASE poll.state = "Returning"
  BY <1>8 DEF MayBecome, Rest
<1>9. CASE poll.state = "Initialize"
  BY <1>9 DEF MayBecome, Rest
<1>10. CASE poll.state = "Failure"
  BY <1>10 DEF MayBecome, Rest
<1>11. QED
  BY <1>1, <1>2, <1>3, <1>4, <1>5, <1>6, <1>7, <1>8, <1>9, <1>10 DEF DevStates

LEMMA PollReadKeeps ==
    ASSUME IInv, NEW s \in DevStates, NEW recognised \in BOOLEAN, PollRead(s, recognised)
    PROVE  IInv'
<1>1. Typed
  BY TypedIsTypeOK DEF IInv
<1>2. /\ s \in MayBecome /\ poll.pc = "poll"
      /\ UNCHANGED <<tx, accepted, limit, stacker, unit, disk, allowed, call, sent, crashes>>
  BY DEF PollRead, txVars, budget
<1>3. /\ poll' \in Polls /\ poll'.pc = "change"
      /\ poll'.prev = poll.state /\ poll'.state = s
  <2>1. PICK note \in BOOLEAN :
          poll' = [poll EXCEPT !.pc = "change", !.prev = poll.state, !.state = s, !.note = note]
    <3> DEFINE note == CASE s = "Escrow" -> recognised
                         [] s \in {"Accepting", "Idling", "UnitDisabled"} -> FALSE
                         [] OTHER -> poll.note
    <3>1. poll.note \in BOOLEAN
      BY <1>1 DEF Typed, Polls
    <3>2. note \in BOOLEAN
      <4>1. CASE s = "Escrow"
        BY <4>1
      <4>2. CASE s \in {"Accepting", "Idling", "UnitDisabled"}
        BY <4>2
      <4>3. CASE s \notin {"Escrow", "Accepting", "Idling", "UnitDisabled"}
        BY <3>1, <4>3
      <4>4. QED
        BY <4>1, <4>2, <4>3
    <3>3. poll' = [poll EXCEPT !.pc = "change", !.prev = poll.state, !.state = s, !.note = note]
      BY DEF PollRead
    <3> HIDE DEF note
    <3>4. QED
      BY <3>2, <3>3
  <2>2. QED
    BY <1>1, <2>1 DEF Typed, Polls
<1>4. /\ dev' \in Devs
      /\ dev'.enabled => dev.enabled
      /\ dev'.order = "stack" => dev.order = "stack" /\ s = "Escrow"
  <2>1. PICK inserted \in Nat, stacked \in Nat, inside \in BOOLEAN, order \in {dev.order, "none"} :
          /\ order = "stack" => s = "Escrow"
          /\ dev' = [dev EXCEPT !.inserted = inserted, !.stacked = stacked, !.inside = inside,
                                !.enabled = dev.enabled /\ s # "Initialize", !.order = order]
    <3>1. dev.inserted \in Nat /\ dev.stacked \in Nat /\ dev.inside \in BOOLEAN
      BY <1>1 DEF Typed, Devs
    <3> DEFINE inserted == IF s = "Accepting" THEN dev.inserted + 1 ELSE dev.inserted
               stacked  == IF s = "BillStacked" THEN dev.stacked + 1 ELSE dev.stacked
               inside   == s = "Accepting" \/ (dev.inside /\ s \notin {"BillStacked", "Returning"})
               order    == IF s \in {"Initialize", "Stacking", "BillStacked", "Returning"}
                              \/ (dev.order = "stack" /\ s # "Escrow")
                           THEN "none" ELSE dev.order
    <3>2. /\ inserted \in Nat /\ stacked \in Nat /\ inside \in BOOLEAN
          /\ order \in {dev.order, "none"} /\ (order = "stack" => s = "Escrow")
      BY <3>1
    <3>3. dev' = [dev EXCEPT !.inserted = inserted, !.stacked = stacked, !.inside = inside,
                             !.enabled = dev.enabled /\ s # "Initialize", !.order = order]
      BY DEF PollRead
    <3> HIDE DEF inserted, stacked, inside, order
    <3>4. QED
      BY <3>2, <3>3
  <2>2. order \in {"none", "stack", "reset"}
    BY <1>1, <2>1 DEF Typed, Devs
  <2>3. QED
    BY <1>1, <2>1, <2>2 DEF Typed, Devs
<1>5. /\ s = "Stacking" => poll.state = "Escrow" /\ dev.order = "stack"
      /\ s = "Escrow" => poll.state = "Accepting"
  BY <1>1, <1>2, StackingFacts
<1>6. Typed'
  BY <1>1, <1>2, <1>3, <1>4, <1>5 DEF Typed
<1>7. QED
  BY <1>2, <1>3, <1>4, <1>5, <1>6, TypedThen DEF IInv, AcceptedCounted,
     Depositing, InhibitingInv, OpeningInv, SaveInv, JamInv, FileInv, DiskInv

LEMMA PollSaveKeeps ==
    ASSUME IInv, PollSave
    PROVE  IInv'
<1>1. Typed
  BY TypedIsTypeOK DEF IInv
<1>2. /\ poll.pc = "save" /\ disk' = poll.file
      /\ poll' = [poll EXCEPT !.pc = "poll", !.file = NoFile]
      /\ UNCHANGED <<tx, accepted, limit, stacker, unit, allowed, call, dev, sent, crashes>>
  BY DEF PollSave, budget
<1>3. /\ poll' \in Polls /\ poll'.pc = "poll"
      /\ poll'.state = poll.state /\ poll'.prev = poll.prev
  BY <1>1, <1>2, NoFileFacts DEF Typed, Polls
<1>4. disk' \in Files
  BY <1>1, <1>2 DEF Typed, Polls
<1>5. Typed'
  BY <1>1, <1>2, <1>3, <1>4 DEF Typed
<1>6. QED
  BY <1>2, <1>3, <1>4, <1>5, TypedThen DEF IInv, AcceptedCounted,
     Depositing, InhibitingInv, OpeningInv, SaveInv, JamInv, FileInv, DiskInv

LEMMA ChangeStateKeeps ==
    ASSUME IInv, ChangeState
    PROVE  IInv'
<1>1. Typed
  BY TypedIsTypeOK DEF IInv
<1>2. /\ UNCHANGED <<limit, stacker, unit, allowed, sent, crashes>>
      /\ poll.pc = "change"
  BY DEF ChangeState, budget
<1>3. poll' \in Polls /\ poll'.pc = "switch" /\ poll'.state = poll.state /\ poll'.prev = poll.prev
  <2>1. PICK jam \in 0..3 :
          poll' = [poll EXCEPT !.pc = "switch", !.flow = poll.state, !.jam = jam]
    <3> DEFINE jam == CASE poll.state = "Failure" -> 1
                        [] poll.state = "Initialize" /\ poll.jam = 1 -> 2
                        [] poll.state = "BillStacked" /\ poll.jam = 2 -> 3
                        [] OTHER -> 0
    <3>1. jam \in 0..3
      <4>1. CASE poll.state = "Failure"
        BY <4>1
      <4>2. CASE poll.state = "Initialize" /\ poll.jam = 1
        BY <4>2
      <4>3. CASE poll.state = "BillStacked" /\ poll.jam = 2
        BY <4>3
      <4>4. CASE /\ poll.state # "Failure" /\ ~(poll.state = "Initialize" /\ poll.jam = 1)
                 /\ ~(poll.state = "BillStacked" /\ poll.jam = 2)
        BY <4>4
      <4>5. QED
        BY <4>1, <4>2, <4>3, <4>4
    <3>2. poll' = [poll EXCEPT !.pc = "switch", !.flow = poll.state, !.jam = jam]
      BY DEF ChangeState
    <3> HIDE DEF jam
    <3>3. QED
      BY <3>1, <3>2
  <2>2. QED
    BY <1>1, <2>1 DEF Typed, Polls
<1>4. \/ /\ call.cmd = "CashIn" /\ CountNote(poll.note)
      \/ UNCHANGED <<tx, accepted, disk>>
  BY DEF ChangeState, Listening, NothingCounted
<1>5. \/ /\ call.cmd = "CashIn"
         /\ tx' \in Txs /\ accepted' \in Nat /\ disk' \in Files
         /\ accepted <= tx.items => accepted' <= tx'.items
         /\ disk'.status = tx'.status /\ disk'.items = tx'.items /\ call.pc # "opening"
      \/ UNCHANGED <<tx, accepted, disk>>
  <2>1. poll.note \in BOOLEAN
    BY <1>1 DEF Typed, Polls
  <2>2. QED
    BY <1>1, <1>4, <2>1, CountNoteFacts
<1>6. /\ dev' \in Devs /\ dev'.enabled = dev.enabled
      /\ dev'.order \in {dev.order, "none"}
  <2>1. dev' \in {dev, [dev EXCEPT !.order = "none"]}
    BY DEF ChangeState, Ordered
  <2>2. QED
    BY <1>1, <2>1 DEF Typed, Devs
<1>7. /\ call' \in Calls /\ call'.cmd = call.cmd /\ call'.pc = call.pc /\ call'.file = call.file
      /\ call.jammed => call'.jammed
      /\ call'.jammed => \/ call.jammed
                         \/ /\ poll.state = "UnitDisabled"
                            /\ call.pc \notin {"clear", "launch"}
      /\ call.cmd = "none" => call' = call
  <2> DEFINE s       == poll.state
             stacked == s = "BillStacked" /\ Listening("CashIn")
             takes   == stacked /\ Takes
             fresh   == IF Listening("Reset") /\ call.fresh < 2 THEN call.fresh + 1 ELSE call.fresh
             seen    == IF call.cmd = "Reset" /\ fresh < 2 THEN "none" ELSE Outcome(s)
             keeps   == \/ seen = "none"
                        \/ call.pc = "check" /\ (call.cmd # "Reset" \/ call.event = "good")
                        \/ call.pc \notin {"check", "wait"}
             took    == call.took \/ takes
             cancel  == call.cancel \/ stacked
             jammed  == call.jammed \/ (Listening("Reset") /\ s = "UnitDisabled" /\ poll.jam = 3)
             event   == IF keeps THEN call.event ELSE seen
  <2>1. /\ call.took \in BOOLEAN /\ call.cancel \in BOOLEAN /\ call.fresh \in 0..2
        /\ call.jammed \in BOOLEAN
        /\ call.event \in {"none", "good", "bad", "cancelled", "expired", "stopped"}
    BY <1>1 DEF Typed, Calls
  <2>2. Outcome(s) \in {"none", "good", "bad"}
    BY DEF Outcome
  <2>3. took \in BOOLEAN /\ cancel \in BOOLEAN /\ fresh \in 0..2 /\ jammed \in BOOLEAN
    BY <2>1
  <2>4. event \in {"none", "good", "bad", "cancelled", "expired", "stopped"}
    BY <2>1, <2>2
  <2>5. call.jammed => jammed
    OBVIOUS
  <2>6. jammed => \/ call.jammed
                  \/ poll.state = "UnitDisabled" /\ call.pc \notin {"clear", "launch"}
    BY DEF Listening
  <2>7. ASSUME call.cmd = "none"
        PROVE  /\ took = call.took /\ cancel = call.cancel /\ fresh = call.fresh
               /\ jammed = call.jammed /\ event = call.event
    <3>1. ~Listening("CashIn") /\ ~Listening("Reset")
      BY <2>7 DEF Listening
    <3>2. call.pc = "idle"
      BY <1>1, <2>7, IdleFacts DEF Typed
    <3>3. keeps
      BY <3>2
    <3>4. QED
      BY <2>1, <3>1, <3>3
  <2>8. call' = [call EXCEPT !.took = took, !.cancel = cancel, !.fresh = fresh,
                             !.jammed = jammed, !.event = event]
    BY DEF ChangeState
  <2> HIDE DEF took, cancel, fresh, jammed, event
  <2>9. /\ call' \in Calls /\ call'.cmd = call.cmd /\ call'.pc = call.pc
        /\ call'.file = call.file /\ call'.jammed = jammed
    BY <1>1, <2>3, <2>4, <2>8 DEF Typed, Calls
  <2>10. call.cmd = "none" => call' = call
    <3>1. [call EXCEPT !.took = call.took, !.cancel = call.cancel, !.fresh = call.fresh,
                       !.jammed = call.jammed, !.event = call.event] = call
      BY <1>1 DEF Typed, Calls
    <3>2. QED
      BY <2>7, <2>8, <3>1
  <2>11. QED
    BY <2>6, <2>5, <2>9, <2>10
<1>8. Typed'
  BY <1>1, <1>2, <1>3, <1>4, <1>5, <1>6, <1>7 DEF Typed
<1>9. AcceptedCounted' /\ InhibitingInv'
  BY <1>2, <1>5, <1>6, <1>7 DEF IInv, AcceptedCounted, InhibitingInv
<1>10. OpeningInv' /\ SaveInv' /\ FileInv'
  BY <1>2, <1>3, <1>5, <1>7 DEF IInv, OpeningInv, SaveInv, FileInv
<1>11. JamInv'
  BY <1>2, <1>3, <1>6, <1>7 DEF IInv, JamInv
<1>12. DiskInv'
  BY <1>2, <1>3, <1>5, <1>7 DEF IInv, DiskInv, Depositing
<1>13. QED
  BY <1>8, <1>9, <1>10, <1>11, <1>12, TypedThen DEF IInv

LEMMA PollSwitchKeeps ==
    ASSUME IInv, PollSwitch
    PROVE  IInv'
<1>1. Typed
  BY TypedIsTypeOK DEF IInv
<1>2. \/ Restart /\ UNCHANGED crashes
      \/ /\ MutexFree /\ AddNote(poll.note)
         /\ poll.state = "BillStacked" /\ poll.prev = "Stacking"
         /\ poll' = [poll EXCEPT !.pc = "save", !.prev = poll.state,
                       !.file = [disk EXCEPT !.status = tx.status, !.items = tx'.items]]
         /\ UNCHANGED <<limit, stacker, unit, disk, allowed, call, dev, sent, crashes>>
      \/ /\ poll' = [poll EXCEPT !.pc = "poll", !.prev = poll.state] /\ poll.pc = "switch"
         /\ UNCHANGED <<tx, accepted, limit, stacker, unit, disk, allowed, call, dev, sent, crashes>>
  BY DEF PollSwitch, budget
<1>3. CASE Restart /\ UNCHANGED crashes
  <2>1. /\ tx' \in Txs /\ tx'.status # "Active" /\ tx'.items = disk.items /\ disk' \in Files
        /\ accepted' = disk.items /\ accepted' \in Nat
        /\ unit' \in Nat /\ limit' = 0 /\ stacker' = "Empty" /\ allowed' = "unknown"
        /\ poll' \in Polls /\ poll'.pc = "poll"
        /\ call' = Idle /\ dev' \in Devs /\ sent' = sent
    BY <1>1, <1>3, RestartFacts
  <2>2. Typed'
    BY <1>1, <1>3, <2>1, IdleFacts DEF Typed
  <2>3. QED
    BY <1>3, <2>1, <2>2, TypedThen, IdleFacts DEF IInv, AcceptedCounted,
       Depositing, InhibitingInv, OpeningInv, SaveInv, JamInv, FileInv, DiskInv
<1>4. CASE /\ MutexFree /\ AddNote(poll.note)
           /\ poll.state = "BillStacked" /\ poll.prev = "Stacking"
           /\ poll' = [poll EXCEPT !.pc = "save", !.prev = poll.state,
                         !.file = [disk EXCEPT !.status = tx.status, !.items = tx'.items]]
           /\ UNCHANGED <<limit, stacker, unit, disk, allowed, call, dev, sent, crashes>>
  <2>1. poll.note \in BOOLEAN
    BY <1>1 DEF Typed, Polls
  <2>2. /\ tx' \in Txs /\ tx'.status = tx.status /\ accepted' \in Nat
        /\ accepted <= tx.items => accepted' <= tx'.items
    BY <1>1, <1>4, <2>1, AddNoteFacts
  <2>3. PICK file \in Files : /\ poll' = [poll EXCEPT !.pc = "save", !.prev = poll.state, !.file = file]
                              /\ file.status = tx'.status /\ file.items = tx'.items
    <3> DEFINE file == [disk EXCEPT !.status = tx.status, !.items = tx'.items]
    <3>1. tx.status \in {"Ok", "Active", "Unknown"} /\ tx'.items \in Nat
      BY <1>1, <2>2 DEF Typed, Txs
    <3>2. file \in Files /\ file.status = tx.status /\ file.items = tx'.items
      BY <1>1, <3>1 DEF Typed, Files
    <3>3. poll' = [poll EXCEPT !.pc = "save", !.prev = poll.state, !.file = file]
      BY <1>4
    <3> HIDE DEF file
    <3>4. QED
      BY <2>2, <3>2, <3>3
  <2>4. poll' \in Polls /\ poll'.pc = "save" /\ poll'.file = file /\ poll'.state = poll.state
    BY <1>1, <2>3 DEF Typed, Polls
  <2>5. call.pc # "opening" /\ (call.cmd = "Reset" => ~call.jammed)
    BY <1>4 DEF IInv, JamInv, MutexFree
  <2>6. Typed'
    BY <1>1, <1>4, <2>2, <2>4 DEF Typed
  <2>7. QED
    BY <1>4, <2>2, <2>3, <2>4, <2>5, <2>6, TypedThen DEF IInv, AcceptedCounted,
       Depositing, InhibitingInv, OpeningInv, SaveInv, JamInv, FileInv, DiskInv
<1>5. CASE /\ poll' = [poll EXCEPT !.pc = "poll", !.prev = poll.state] /\ poll.pc = "switch"
           /\ UNCHANGED <<tx, accepted, limit, stacker, unit, disk, allowed, call, dev, sent, crashes>>
  <2>1. poll' \in Polls /\ poll'.pc = "poll" /\ poll'.state = poll.state /\ poll'.prev = poll.state
    BY <1>1, <1>5 DEF Typed, Polls
  <2>2. Typed'
    BY <1>1, <1>5, <2>1 DEF Typed
  <2>3. QED
    BY <1>5, <2>1, <2>2, TypedThen DEF IInv, AcceptedCounted,
       Depositing, InhibitingInv, OpeningInv, SaveInv, JamInv, FileInv, DiskInv
<1>6. QED
  BY <1>2, <1>3, <1>4, <1>5

LEMMA NextInvariant ==
    ASSUME IInv, [Next]_vars
    PROVE  IInv'
<1>1. ASSUME NEW l \in Limits, StartTransaction(l)
      PROVE  IInv'
  BY <1>1, StartTransactionKeeps
<1>2. CASE SendCommand \/ StopCommand \/ Crash
  BY <1>2, SendCommandKeeps, StopCommandKeeps, CrashKeeps
<1>3. CASE QueueStep
  <2>1. CASE CheckCurrent \/ Register \/ WaitEnds \/ WaitExpires
    BY <2>1, WaitingKeeps
  <2>2. CASE CashInValidate \/ CashInReady \/ Arm
    BY <2>2, CashInBeginsKeeps
  <2>3. CASE CashInResolve \/ CashInEndResolve
    BY <2>3, ResolveKeeps
  <2>4. CASE TransactionOpened \/ ClearAccepted \/ Allow \/ CashInCount \/ Inhibit \/ Inhibited
    BY <2>4, TransactionOpenedKeeps, ClearAcceptedKeeps, AllowKeeps, CashInCountKeeps,
       InhibitKeeps, InhibitedKeeps
  <2>5. CASE \/ CashInEndValidate \/ CashInEndBranch \/ Deposit \/ Record \/ Write
             \/ Forget \/ Commit \/ CloseTransaction
    BY <2>5, CashInEndValidateKeeps, CashInEndBranchKeeps, DepositKeeps, RecordKeeps, WriteKeeps,
       ForgetKeeps, CommitKeeps, CloseTransactionKeeps
  <2>6. CASE ResetClear \/ ResetLaunch \/ ResetResolve
    BY <2>6, ResetClearKeeps, ResetLaunchKeeps, ResetResolveKeeps
  <2>7. QED
    BY <1>3, <2>1, <2>2, <2>3, <2>4, <2>5, <2>6 DEF QueueStep
<1>4. CASE Poller
  BY <1>4, PollReadKeeps, ChangeStateKeeps, PollSwitchKeeps, PollSaveKeeps DEF Poller
<1>5. CASE UNCHANGED vars
  <2>1. Typed
    BY TypedIsTypeOK DEF IInv
  <2>2. UNCHANGED <<tx, accepted, limit, stacker, unit, disk, allowed, poll, call, dev, sent, crashes>>
    BY <1>5 DEF vars, txVars, budget
  <2>3. Typed'
    BY <2>1, <2>2 DEF Typed
  <2>4. QED
    BY <2>2, <2>3, TypedThen DEF IInv, AcceptedCounted, Depositing,
       InhibitingInv, OpeningInv, SaveInv, JamInv, FileInv, DiskInv
<1>6. QED
  BY <1>1, <1>2, <1>3, <1>4, <1>5 DEF Next

(* Only _allow lets notes in, and only _inhibit, once the validator was    *)
(* told to take none, says in the cache that acceptance is forbidden.      *)
LEMMA MisledStep ==
    ASSUME IInv, [Next]_vars, Misled'
    PROVE  Misled \/ (call.cmd = "CashIn" /\ call.pc = "allow" /\ call'.cmd = "none")
<1>1. Typed
  BY TypedIsTypeOK DEF IInv
<1>2. SUFFICES \/ allowed' # "no"
               \/ allowed' = allowed /\ (dev'.enabled => dev.enabled)
               \/ ~dev'.enabled
               \/ call.cmd = "CashIn" /\ call.pc = "allow" /\ call'.cmd = "none"
  BY DEF Misled
<1>3. Restart => allowed' = "unknown"
  BY DEF Restart
<1>4. [dev EXCEPT !.order = "stack"].enabled = dev.enabled
  BY <1>1 DEF Typed, Devs
<1>5. ASSUME NEW order, Ordered(order)
      PROVE  dev'.enabled = dev.enabled
  BY <1>1, <1>5 DEF Ordered, Typed, Devs
<1>6. CASE \/ \E l \in Limits : StartTransaction(l)
           \/ SendCommand \/ StopCommand \/ Crash
  BY <1>3, <1>6 DEF StartTransaction, SendCommand, Send, StopCommand, Crash
<1>7. CASE QueueStep
  <2>1. CASE Allow
    BY <2>1, IdleFacts DEF Allow, CallStep, End
  <2>2. CASE Inhibit
    <3>1. Forbidden \cup Refusing \subseteq {d \in Devs : d.enabled => dev.enabled}
      BY <1>1, RefusingFacts
    <3>2. QED
      BY <2>2, <3>1 DEF Inhibit
  <2>3. CASE Inhibited
    BY <2>3 DEF Inhibited, CallStep, IInv, InhibitingInv
  <2>4. CASE CashInEndBranch \/ ResetLaunch
    BY <1>4, <1>5, <2>4 DEF CashInEndBranch, ResetLaunch
  <2>5. CASE ~(Allow \/ Inhibit \/ Inhibited \/ CashInEndBranch \/ ResetLaunch)
    BY <1>7, <2>5 DEF QueueStep, TransactionOpened, ClearAccepted, CashInValidate, CashInReady, Arm,
       CheckCurrent, Register, WaitEnds, WaitExpires, Blocked, CashInResolve, CashInCount,
       CashInEndValidate, CashInEndResolve, Deposit, Record, Write, Forget, Commit,
       CloseTransaction, ResetClear, ResetResolve
  <2>6. QED
    BY <2>1, <2>2, <2>3, <2>4, <2>5
<1>8. CASE Poller
  <2>1. ASSUME NEW s \in DevStates, NEW recognised \in BOOLEAN, PollRead(s, recognised)
        PROVE  allowed' = allowed /\ (dev'.enabled => dev.enabled)
    BY <1>1, <2>1 DEF PollRead, Typed, Devs
  <2>2. CASE ChangeState
    BY <1>5, <2>2 DEF ChangeState
  <2>3. CASE PollSwitch \/ PollSave
    BY <1>3, <2>3 DEF PollSwitch, PollSave
  <2>4. QED
    BY <1>8, <2>1, <2>2, <2>3 DEF Poller
<1>9. CASE UNCHANGED vars
  BY <1>9 DEF vars
<1>10. QED
  BY <1>6, <1>7, <1>8, <1>9 DEF Next

-----------------------------------------------------------------------------
(* The theorems. *)

(* The invariant the others rest on: the accounts in memory, who is about  *)
(* to write the file and what, and that a Reset which counts a jammed note *)
(* is alone with the accounts.                                             *)
THEOREM CashInInvariant == Spec => []IInv
<1>1. Init => IInv
  BY InitInvariant
<1>2. IInv /\ [Next]_vars => IInv'
  BY NextInvariant
<1>3. QED
  BY <1>1, <1>2, PTL DEF Spec

(* Accounts, threads, file and validator keep their types, and a queue     *)
(* thread without a command keeps nothing of the last one.                 *)
THEOREM CashInTypeOK == Spec => []TypeOK
<1>1. IInv => TypeOK
  BY DEF IInv
<1>2. QED
  BY <1>1, CashInInvariant, PTL

(* The list that CashInEnd deposits never runs ahead of the counts the     *)
(* client is told, whichever thread counts (CASProc::addAcceptedItem,      *)
(* EscrowManager::AddNoteNumberList).                                      *)
THEOREM CashInAcceptedCounted == Spec => []AcceptedCounted
<1>1. IInv => AcceptedCounted
  BY DEF IInv
<1>2. QED
  BY <1>1, CashInInvariant, PTL

(* The cache of NotesInhibitManager comes to say that acceptance is         *)
(* forbidden of a validator that accepts notes in no other way than by an  *)
(* order of _allow that was carried out and whose answer was lost; the     *)
(* waits of _inhibit, Reset and the polling thread do not bring it about.  *)
THEOREM CashInMisledOnlyByLostAnswer == Spec => MisledOnlyByLostAnswer
<1>1. IInv /\ [Next]_vars =>
        [Misled' => Misled \/ (call.cmd = "CashIn" /\ call.pc = "allow" /\ call'.cmd = "none")]_vars
  BY MisledStep
<1>2. QED
  BY <1>1, CashInInvariant, PTL DEF Spec, MisledOnlyByLostAnswer

(* A crash in an open transaction is found by the next start, with every   *)
(* recognised note (EscrowManager::LoadTransactionStatus).                 *)
THEOREM CashInCrashRecovered == Spec => CrashRecovered
<1>1. ASSUME IInv, [Next]_vars, crashes' # crashes, tx.status = "Active", ~Unsettled
      PROVE  tx'.status = "Unknown" /\ tx'.items = tx.items /\ accepted' = tx.items
  <2>1. Typed
    BY <1>1, TypedIsTypeOK DEF IInv
  <2>2. Crash \/ crashes' = crashes
    <3>1. CASE \/ \E l \in Limits : StartTransaction(l)
               \/ SendCommand \/ StopCommand
      BY <3>1 DEF StartTransaction, SendCommand, StopCommand, Send, budget
    <3>2. CASE QueueStep
      BY <3>2 DEF QueueStep, TransactionOpened, ClearAccepted, CashInValidate, CashInReady, Allow, Arm,
         CheckCurrent, Register, WaitEnds, WaitExpires, Blocked, CashInResolve, CashInCount, Inhibit,
         Inhibited, CashInEndValidate, CashInEndBranch, CashInEndResolve, Deposit, Record, Write,
         Forget, Commit, CloseTransaction, ResetClear, ResetLaunch, ResetResolve, CallStep, budget
    <3>3. CASE Poller
      BY <3>3 DEF Poller, PollRead, ChangeState, PollSwitch, PollSave, budget
    <3>4. CASE UNCHANGED vars
      BY <3>4 DEF vars, budget
    <3>5. QED
      BY <1>1, <3>1, <3>2, <3>3, <3>4 DEF Next
  <2>3. Restart
    BY <1>1, <2>2 DEF Crash
  <2>4. disk.status = "Active" /\ disk.items = tx.items
    BY <1>1 DEF IInv, DiskInv, Depositing, Unsettled
  <2>5. QED
    BY <1>1, <2>1, <2>3, <2>4, RestartFacts
<1>2. IInv /\ [Next]_vars =>
        [crashes' # crashes /\ tx.status = "Active" /\ ~Unsettled
           => tx'.status = "Unknown" /\ tx'.items = tx.items /\ accepted' = tx.items]_vars
  BY <1>1
<1>3. QED
  BY <1>2, CashInInvariant, PTL DEF Spec, CrashRecovered

(* What an active transaction has counted is never taken back while it     *)
(* stays active, whoever counts, closes or returns notes.                  *)
THEOREM CashInCountsKept == Spec => CountsKept
<1>1. ASSUME IInv, [Next]_vars, tx.status = "Active", tx'.status = "Active"
      PROVE  tx'.items >= tx.items /\ tx'.unrec >= tx.unrec
  <2>1. Typed /\ tx.items \in Nat /\ tx.unrec \in Nat
    BY <1>1, TypedIsTypeOK DEF IInv, Typed, Txs
  <2>2. SUFFICES tx' = tx \/ tx'.status # "Active" \/ \E r \in BOOLEAN : AddNote(r)
    BY <1>1, <2>1, AddNoteFacts
  <2>3. poll.note \in BOOLEAN /\ call.note \in BOOLEAN
    BY <2>1 DEF Typed, Polls, Calls
  <2>4. Restart => tx'.status # "Active"
    BY <2>1, RestartFacts
  <2>5. Close => tx'.status # "Active"
    BY <2>1, CloseFacts
  <2>6. CASE \/ \E l \in Limits : StartTransaction(l)
             \/ SendCommand \/ StopCommand \/ Crash
    BY <1>1, <2>4, <2>6 DEF StartTransaction, SendCommand, StopCommand, Crash, txVars
  <2>7. CASE QueueStep
    <3>1. CASE \/ CashInCount \/ ResetResolve
      BY <2>3, <3>1 DEF CashInCount, ResetResolve, CountNote, NothingCounted
    <3>2. CASE \/ CashInEndValidate \/ CloseTransaction
      BY <2>5, <3>2 DEF CashInEndValidate, CloseTransaction
    <3>3. CASE \/ Inhibit \/ Inhibited
      BY <3>3 DEF Inhibit, Inhibited, AfterInhibit, txVars
    <3>4. CASE ~(CashInCount \/ ResetResolve \/ CashInEndValidate \/ CloseTransaction
                 \/ Inhibit \/ Inhibited)
      BY <2>7, <3>4 DEF QueueStep, TransactionOpened, ClearAccepted, CashInValidate, CashInReady, Allow,
         Arm, CheckCurrent, Register, WaitEnds, WaitExpires, Blocked, CashInResolve, CashInEndBranch,
         CashInEndResolve, Deposit, Record, Write, Forget, Commit, ResetClear, ResetLaunch, txVars
    <3>5. QED
      BY <3>1, <3>2, <3>3, <3>4
  <2>8. CASE Poller
    BY <2>3, <2>4, <2>8 DEF Poller, PollRead, ChangeState, PollSwitch, PollSave, CountNote,
       NothingCounted, txVars
  <2>9. CASE UNCHANGED vars
    BY <2>9 DEF vars, txVars
  <2>10. QED
    BY <1>1, <2>6, <2>7, <2>8, <2>9 DEF Next
<1>2. IInv /\ [Next]_vars =>
        [tx.status = "Active" /\ tx'.status = "Active"
           => tx'.items >= tx.items /\ tx'.unrec >= tx.unrec]_vars
  BY <1>1
<1>3. QED
  BY <1>2, CashInInvariant, PTL DEF Spec, CountsKept

=============================================================================
