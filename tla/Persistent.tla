---------------------------- MODULE Persistent ----------------------------
(***************************************************************************)
(* framework/core/Persistent: the one file in which the service keeps its  *)
(* accounts, and the two threads that change it.  The queue thread opens,  *)
(* deposits and closes transactions, puts down the notes of a jam after a  *)
(* Reset and configures the note types, the polling thread reports a       *)
(* manipulated cassette, and both count notes.                             *)
(* Every change is a read of the whole file, a truncation and a write;     *)
(* m_fileMutex covers the read, and the truncation with the write, but     *)
(* not what lies between.  The disk may fail, the process may crash.       *)
(*                                                                         *)
(* CashIn says when a transaction is opened, counted and closed; here any  *)
(* order its guards allow is possible.  Left out: the number of refused    *)
(* notes, the unrecognised ones, which nobody reads back, and the fraud    *)
(* attempts, which are all saved like the rest; the copy                   *)
(* saveToFile makes beforehand, which nobody reads; the signature and the  *)
(* encryption, which are commented out.  The replacement of an unreadable  *)
(* file is one step, and a number stands for the notes of a kind.          *)
(***************************************************************************)
EXTENDS Naturals, Sequences, FiniteSets

CONSTANTS NoteTypes, \* kinds of notes that can be configured
          MaxNotes,  \* bound: notes counted
          MaxOps,    \* bound: commands of clients
          MaxFaults  \* bound: failed writes and crashes

ASSUME PersistentAssumption == {MaxNotes, MaxOps, MaxFaults} \subseteq Nat

VARIABLES file,    \* the file: can it be read, and what it says
          mem,     \* what the process believes
          job,     \* the changes each thread is about to make
          stage,   \* what the queue thread does: start, commands, CashInEnd, Reset
          mishap,  \* what befell the file since the process started
          renewed, \* was an unreadable file ever replaced?
          counted, ops, faults

bounds == <<counted, ops, faults>>
vars == <<file, mem, job, stage, mishap, renewed, bounds>>

Threads  == {"queue", "poll"}
Statuses == {"Ok", "Active", "Unknown"}

(* The entries CashInStatus.Status and .NoteNumberList, Notes.CashUnit,    *)
(* Notes.ConfiguredNotes and MANIPULATED_FLAG.                             *)
Entries == {"status", "list", "notes", "enabled", "flag"}
Content == [status : Statuses, list : Nat, notes : Nat, enabled : SUBSET NoteTypes, flag : BOOLEAN]

(* What readers take a file for that has no entries. *)
Empty == [status |-> "Ok", list |-> 0, notes |-> 0, enabled |-> {}, flag |-> FALSE]

(* A change gives some of the entries a value. *)
Change == [status : Statuses] \cup [list : Nat] \cup [notes : Nat] \cup [enabled : SUBSET NoteTypes]
          \cup [flag : BOOLEAN] \cup [status : Statuses, list : Nat]

Changed(data, change) == [e \in Entries |-> IF e \in DOMAIN change THEN change[e] ELSE data[e]]

(* base is the content that update() read, holds says that the thread has  *)
(* mutex_ of EscrowManager.                                                *)
NoJob == [pc |-> "idle", todo |-> <<>>, base |-> Empty, holds |-> FALSE]

(* mem: cashInStatus_ with its note list, acceptedItems_, unitCount_ of    *)
(* the cassette, the configured note types and GetBillTypes, the flag of a *)
(* manipulated cassette.  strays is a history: the notes that a Reset has  *)
(* put down in the file alone since the process started.                   *)
TypeOK ==
    /\ file \in [whole : BOOLEAN, data : Content]
    /\ mem \in [status : Statuses, list : Nat, accepted : Nat, unit : Nat, strays : Nat,
                enabled : SUBSET NoteTypes, types : SUBSET NoteTypes, flag : BOOLEAN]
    /\ \A t \in Threads :
         /\ job[t].pc \in {"idle", "read", "truncate", "write"}
         /\ job[t].base \in Content /\ job[t].holds \in BOOLEAN
         /\ job[t].todo \in Seq(Change)
         /\ job[t].pc = "idle" <=> job[t].todo = <<>>
         /\ job[t].pc = "idle" => job[t] = NoJob
    /\ Cardinality({t \in Threads : job[t].pc = "write"}) <= 1
    /\ Cardinality({t \in Threads : job[t].holds}) <= 1
    /\ stage \in {"load", "ready", "deposited", "closing", "reset", "jammed"}
    /\ mishap \subseteq {"overlap", "failure"}
    /\ renewed \in BOOLEAN
    /\ counted \in 0..MaxNotes /\ ops \in 0..MaxOps /\ faults \in 0..MaxFaults

Init ==
    /\ file = [whole |-> TRUE, data |-> Empty]
    /\ mem = [status |-> "Ok", list |-> 0, accepted |-> 0, unit |-> 0, strays |-> 0,
              enabled |-> {}, types |-> {}, flag |-> FALSE]
    /\ job = [t \in Threads |-> NoJob]
    /\ stage = "ready"
    /\ mishap = {} /\ renewed = FALSE
    /\ counted = 0 /\ ops = 0 /\ faults = 0

-----------------------------------------------------------------------------
(* The file. *)

(* Mutant: nothing keeps a reader from a file that is being written. *)
FileFreeAlways == TRUE

(* m_fileMutex. *)
FileFree == \A t \in Threads : job[t].pc # "write"

Loaded == IF file.whole THEN file.data ELSE Empty

(* Mutant: a reader does not take the mutex. *)
ReadFileUnlocked ==
    /\ file' = [whole |-> TRUE, data |-> Loaded]
    /\ renewed' = (renewed \/ ~file.whole)

(* read(): a file that cannot be read is replaced by an empty one. *)

ReadFile ==
    /\ FileFree
    /\ file' = [whole |-> TRUE, data |-> Loaded]
    /\ renewed' = (renewed \/ ~file.whole)

(* update(): the first of the changes of a thread is made to a copy of the *)
(* file ...                                                                *)
Read(t) ==
    /\ job[t].pc = "read"
    /\ ReadFile
    /\ job' = [job EXCEPT ![t].pc = "truncate", ![t].base = Loaded]
    /\ UNCHANGED <<mem, stage, mishap, bounds>>

(* ... and saveToFile() empties the file, whatever became of it since ...  *)
Truncate(t) ==
    /\ job[t].pc = "truncate"
    /\ FileFree
    /\ job' = [job EXCEPT ![t].pc = "write"]
    /\ file' = [whole |-> FALSE, data |-> Empty]
    /\ mishap' = IF file = [whole |-> TRUE, data |-> job[t].base] THEN mishap
                 ELSE mishap \cup {"overlap"}
    /\ UNCHANGED <<mem, stage, renewed, bounds>>

(* The next change, or none. *)
Done(t) ==
    LET rest == Tail(job[t].todo)
        next == [pc |-> "read", todo |-> rest, base |-> Empty, holds |-> job[t].holds]
    IN  job' = [job EXCEPT ![t] = IF rest = <<>> THEN NoJob ELSE next]

(* ... and writes the copy.                                                *)
Write(t) ==
    /\ job[t].pc = "write"
    /\ file' = [whole |-> TRUE, data |-> Changed(job[t].base, Head(job[t].todo))]
    /\ Done(t)
    /\ UNCHANGED <<mem, stage, mishap, renewed, bounds>>

Fault == faults < MaxFaults /\ faults' = faults + 1

(* The file cannot be opened, or written once it is empty: saveToFile      *)
(* throws, its callers catch that and go on; the file stays as it is.      *)
WriteFails(t) ==
    /\ Fault
    /\ \/ job[t].pc = "truncate" /\ FileFree
       \/ job[t].pc = "write"
    /\ Done(t)
    /\ mishap' = mishap \cup {"failure"}
    /\ UNCHANGED <<file, mem, stage, renewed, counted, ops>>

-----------------------------------------------------------------------------
(* What makes the threads change it. *)

Idle(t) == job[t].pc = "idle"

Start(t, changes, holds) ==
    job' = [job EXCEPT ![t] = [pc |-> "read", todo |-> changes, base |-> Empty, holds |-> holds]]

(* Mutant: the mutex is given back before the file is changed. *)
SaveUnlocked(t, status, list) ==
    /\ \A u \in Threads : ~job[u].holds
    /\ Start(t, <<[status |-> status], [list |-> list]>>, FALSE)

(* SaveTransactionStatus, under mutex_. *)
SaveTransactionStatus(t, status, list) ==
    /\ \A u \in Threads : ~job[u].holds
    /\ Start(t, <<[status |-> status], [list |-> list]>>, TRUE)

Command ==
    /\ Idle("queue") /\ stage = "ready"
    /\ ops < MaxOps /\ ops' = ops + 1
    /\ UNCHANGED <<counted, faults>>

OpenTransaction ==
    /\ Command /\ mem.status # "Active"
    /\ mem' = [mem EXCEPT !.status = "Active", !.list = 0, !.accepted = 0]
    /\ SaveTransactionStatus("queue", "Active", 0)
    /\ UNCHANGED <<file, stage, mishap, renewed>>

(* AddAcceptedBanknote. *)
CountNote(t) ==
    /\ Idle(t)
    /\ counted < MaxNotes /\ counted' = counted + 1
    /\ mem' = [mem EXCEPT !.list = @ + 1, !.accepted = @ + 1]
    /\ SaveTransactionStatus(t, mem.status, mem.list + 1)
    /\ UNCHANGED <<file, mishap, renewed, ops, faults>>

(* A note is accepted: in CashIn, or seen to be stacked. *)
AddNote(t) ==
    /\ t = "queue" => mem.status = "Active" /\ stage = "ready"
    /\ t = "poll" => stage # "load"
    /\ CountNote(t)
    /\ UNCHANGED stage

(* Mutant: the transaction is forgotten before its notes are recorded. *)
DepositForgetting ==
    /\ Command /\ mem.status = "Active" /\ mem.accepted > 0
    /\ mem' = [mem EXCEPT !.unit = @ + mem.accepted]
    /\ ReadFile
    /\ Start("queue", <<[status |-> "Ok", list |-> 0], [notes |-> Loaded.notes + mem.accepted]>>, FALSE)
    /\ stage' = "deposited"
    /\ UNCHANGED mishap

(* BuildMovementAndCommit: addCashUnitNotes, which reads what it adds to,  *)
(* and resetCashInStatus ...                                               *)
Deposit ==
    /\ Command /\ mem.status = "Active" /\ mem.accepted > 0
    /\ mem' = [mem EXCEPT !.unit = @ + mem.accepted]
    /\ ReadFile
    /\ Start("queue", <<[notes |-> Loaded.notes + mem.accepted], [status |-> "Ok", list |-> 0]>>, FALSE)
    /\ stage' = "deposited"
    /\ UNCHANGED mishap

(* ... and the accepted items, which are cleared after both.               *)
ClearAccepted ==
    /\ Idle("queue") /\ stage = "deposited"
    /\ mem' = [mem EXCEPT !.accepted = 0]
    /\ stage' = "closing"
    /\ UNCHANGED <<file, job, mishap, renewed, bounds>>

(* CloseTransaction, after a deposit or without one; its note list is the  *)
(* one that was deposited, and is saved once more.                         *)
CloseTransaction ==
    /\ \/ Command /\ mem.status = "Active"
       \/ Idle("queue") /\ stage = "closing" /\ UNCHANGED bounds
    /\ mem' = [mem EXCEPT !.status = "Ok"]
    /\ SaveTransactionStatus("queue", "Ok", mem.list)
    /\ stage' = "ready"
    /\ UNCHANGED <<file, mishap, renewed>>

(* ResetDeviceAsync clears the accepted items, and not the counts of the   *)
(* transaction; without a jam that is all it changes ...                   *)
ResetClear ==
    /\ Command
    /\ mem' = [mem EXCEPT !.accepted = 0]
    /\ stage' \in {"ready", "reset"}
    /\ UNCHANGED <<file, job, mishap, renewed>>

(* ... and a jammed note that was stacked is counted, whatever the status  *)
(* of the transaction ...                                                  *)
ResetCount ==
    /\ stage = "reset"
    /\ CountNote("queue")
    /\ stage' = "jammed"

(* Mutant: the jammed notes replace those of the cassette. *)
ResetRecordReplacing ==
    /\ Idle("queue") /\ stage \in {"reset", "jammed"}
    /\ ReadFile
    /\ Start("queue", <<[notes |-> mem.accepted]>>, FALSE)
    /\ mem' = [mem EXCEPT !.strays = @ + mem.accepted]
    /\ stage' = "ready"
    /\ UNCHANGED <<mishap, bounds>>

(* ... if it is recognised, and recorded with all that were accepted since *)
(* the Reset began: in the file, not in unitCount_, and without an end to  *)
(* the transaction or to acceptedItems_.                                   *)
ResetRecord ==
    /\ Idle("queue") /\ stage \in {"reset", "jammed"}
    /\ ReadFile
    /\ Start("queue", <<[notes |-> Loaded.notes + mem.accepted]>>, FALSE)
    /\ mem' = [mem EXCEPT !.strays = @ + mem.accepted]
    /\ stage' = "ready"
    /\ UNCHANGED <<mishap, bounds>>

(* ConfigureNoteTypes: the enabled types are saved, and SetBillTypes adds  *)
(* theirs to the types the validator will be told to accept.               *)
ConfigureNoteTypes(on, off) ==
    /\ Command /\ mem.status # "Active"
    /\ on \cup off # {} /\ on \cap off = {}
    /\ LET enabled == (mem.enabled \cup on) \ off
           types   == mem.types \cup enabled
       IN  /\ mem' = [mem EXCEPT !.enabled = enabled, !.types = types]
           /\ Start("queue", <<[enabled |-> enabled]>>, FALSE)
    /\ UNCHANGED <<file, stage, mishap, renewed>>

(* The cassette was taken out or replaced, for the first time. *)
SetManipulated ==
    /\ Idle("poll") /\ stage # "load" /\ ~mem.flag
    /\ mem' = [mem EXCEPT !.flag = TRUE]
    /\ Start("poll", <<[flag |-> TRUE]>>, FALSE)
    /\ UNCHANGED <<file, stage, mishap, renewed, bounds>>

(* The process dies and is started again: what it believes is what it      *)
(* finds in the file, except that a transaction that was open is of        *)
(* unknown outcome and that nobody reads the flag.  "Unknown" is saved     *)
(* before anything but the status and the note types is read.              *)
Crash ==
    /\ Fault
    /\ file' = [whole |-> TRUE, data |-> Loaded]
    /\ renewed' = (renewed \/ ~file.whole)
    /\ LET open  == Loaded.status = "Active"
           found == IF open THEN Empty ELSE Loaded
       IN  /\ mem' = [status |-> IF open THEN "Unknown" ELSE Loaded.status,
                      list |-> found.list, accepted |-> found.list, unit |-> found.notes, strays |-> 0,
                      enabled |-> Loaded.enabled, types |-> Loaded.enabled, flag |-> FALSE]
           /\ job' = [t \in Threads |-> IF open /\ t = "queue"
                        THEN [NoJob EXCEPT !.pc = "read", !.todo = <<[status |-> "Unknown"]>>]
                        ELSE NoJob]
           /\ stage' = IF open THEN "load" ELSE "ready"
    /\ mishap' = {}
    /\ UNCHANGED <<counted, ops>>

(* Mutant: the note list is not read again. *)
StartedEmpty ==
    /\ stage = "load" /\ Idle("queue")
    /\ ReadFile
    /\ mem' = [mem EXCEPT !.unit = Loaded.notes]
    /\ stage' = "ready"
    /\ UNCHANGED <<job, mishap, bounds>>

(* LoadTransactionStatus goes on with the note list, Initialize with the   *)
(* notes of the cassette, from the file as it is now; then the polling     *)
(* thread starts.                                                          *)
Started ==
    /\ stage = "load" /\ Idle("queue")
    /\ ReadFile
    /\ mem' = [mem EXCEPT !.list = Loaded.list, !.accepted = Loaded.list, !.unit = Loaded.notes]
    /\ stage' = "ready"
    /\ UNCHANGED <<job, mishap, bounds>>

-----------------------------------------------------------------------------

Next ==
    \/ \E t \in Threads : Read(t) \/ Truncate(t) \/ Write(t) \/ WriteFails(t) \/ AddNote(t)
    \/ OpenTransaction \/ Deposit \/ ClearAccepted \/ CloseTransaction
    \/ ResetClear \/ ResetCount \/ ResetRecord
    \/ \E on, off \in SUBSET NoteTypes : ConfigureNoteTypes(on, off)
    \/ SetManipulated
    \/ Crash \/ Started

Spec == Init /\ [][Next]_vars

-----------------------------------------------------------------------------
(* Properties. *)

(* What the file said before the write that is going on. *)
Saved == IF FileFree THEN Loaded
         ELSE job[CHOOSE t \in Threads : job[t].pc = "write"].base

(* The entries that are still to be written, CloseTransaction included. *)
Pending == {e \in Entries :
    \/ \E t \in Threads : \E i \in DOMAIN job[t].todo : e \in DOMAIN job[t].todo[i]
    \/ stage \in {"deposited", "closing"} /\ e \in {"status", "list"}}

(* What a start that found an open transaction has not read yet. *)
Unread == IF stage = "load" THEN {"list", "notes"} ELSE {}

(* The notes of a Reset go to the file alone; memory never gets them.      *)
Believed == [status |-> mem.status, list |-> mem.list, notes |-> mem.unit + mem.strays,
             enabled |-> mem.enabled]

(* While nothing fails and no thread overwrites the other's change, the    *)
(* file says what the service believes, at every moment and in every entry *)
(* that nobody is about to write, but for the notes that a Reset has put   *)
(* down in the file alone: the order in which the threads save is the      *)
(* order in which they change the transaction (mutex_ held over both).     *)
RecordedUnlessPending ==
    mishap = {} =>
        /\ \A e \in DOMAIN Believed \ (Pending \cup Unread) : Saved[e] = Believed[e]
        /\ mem.flag /\ "flag" \notin Pending => Saved.flag

(* The notes the service answers for: those in its cassette and those of a *)
(* transaction that is not closed or deposited; as long as it has not read *)
(* them, those of the file.                                                *)
Answered ==
    LET known == IF stage = "load" THEN Saved ELSE [list |-> mem.list, notes |-> mem.unit]
    IN  known.notes
        + (IF mem.status = "Ok" \/ stage \in {"deposited", "closing"} THEN 0 ELSE known.list)

(* A crash, and the start after it, loses no note but one that is just     *)
(* being saved, wherever the crash falls (the middle of a deposit or of    *)
(* the next start included; notes may be counted twice, as                 *)
(* addCashUnitNotes comes before resetCashInStatus), unless it tears the   *)
(* file or the file had come to grief before.                              *)
CrashKeepsNotes ==
    [][(faults' > faults \/ stage = "load") /\ mishap = {} /\ mishap' = {} /\ file.whole
         => Answered' + Cardinality({t \in Threads : job[t].holds}) >= Answered]_vars

(* The accounts are not given up for nothing: a file is found unreadable,  *)
(* and replaced, only after a failed write or a crash, never because one   *)
(* thread reads what the other is writing.                                 *)
RenewedOnlyByFault == renewed => faults > 0

(* ICashAcceptorDevice.hpp:72: ConfigureNoteTypes changes the types of     *)
(* notes that are accepted; a disabled one is not among them.              *)
DisabledNotAccepted == mem.types \subseteq mem.enabled

=============================================================================
