------------------------- MODULE PersistentProofs -------------------------
(***************************************************************************)
(* Proofs about Persistent, for any kinds of notes, and any number of      *)
(* notes, commands and faults.                                             *)
(***************************************************************************)
EXTENDS Persistent, FiniteSetTheorems, SequenceTheorems, TLAPS

JobType == [pc : {"idle", "read", "truncate", "write"}, todo : Seq(Change),
            base : Content, holds : BOOLEAN]
MemType == [status : Statuses, list : Nat, accepted : Nat, unit : Nat, strays : Nat,
            enabled : SUBSET NoteTypes, types : SUBSET NoteTypes, flag : BOOLEAN]
Stages  == {"load", "ready", "deposited", "closing", "reset", "jammed"}

(* Types, and a thread without changes to make is at rest. *)
TypeInv ==
    /\ file \in [whole : BOOLEAN, data : Content]
    /\ mem \in MemType
    /\ job \in [Threads -> JobType]
    /\ \A t \in Threads : /\ job[t].pc = "idle" <=> job[t].todo = <<>>
                          /\ job[t].pc = "idle" => job[t] = NoJob
    /\ stage \in Stages
    /\ mishap \subseteq {"overlap", "failure"}
    /\ renewed \in BOOLEAN
    /\ counted \in 0..MaxNotes /\ ops \in 0..MaxOps /\ faults \in 0..MaxFaults

OneWriter == \A t, u \in Threads : job[t].pc = "write" /\ job[u].pc = "write" => t = u

(* The two mutexes, and what a writer does to the file. *)
MutexInv ==
    /\ OneWriter
    /\ \A t, u \in Threads : job[t].holds /\ job[u].holds => t = u
    /\ ~FileFree => ~file.whole

(* A file that nobody writes can be read unless something failed. *)
TornInv == /\ renewed => faults > 0
           /\ FileFree /\ ~file.whole => faults > 0

(* Believed, with the flag. *)
Belief == [status |-> mem.status, list |-> mem.list, notes |-> mem.unit + mem.strays,
           enabled |-> mem.enabled, flag |-> mem.flag]

(* Which thread may have which entry to write, and that it writes what is  *)
(* believed, but for the end of a transaction that a deposit writes ahead. *)
OwnedBy(t, change) ==
    \A e \in DOMAIN change :
        /\ e \in Entries
        /\ e \in {"notes", "enabled"} => t = "queue"
        /\ e = "notes" => stage \in {"deposited", "ready"} /\ ~job[t].holds
        /\ e = "flag" => t = "poll"
        /\ e \in {"status", "list"} =>
             job[t].holds \/ (t = "queue" /\ stage \in {"load", "deposited"})
        /\ mishap = {} => \/ change[e] = Belief[e]
                          \/ e \in {"status", "list"} /\ t = "queue" /\ stage = "deposited"

OwnedInv == \A t \in Threads : \A i \in DOMAIN job[t].todo : OwnedBy(t, job[t].todo[i])

(* RecordedUnlessPending, entry by entry. *)
RecordedInv ==
    mishap = {} => \A e \in Entries \ (Pending \cup Unread) :
                       Saved[e] = Belief[e] \/ (e = "flag" /\ ~mem.flag)

(* One note may be on its way into the file. *)
InFlight == IF \E t \in Threads : job[t].holds THEN 1 ELSE 0

(* A deposit has changed the counts and not yet recorded them. *)
Depositing == stage = "deposited" /\ "notes" \in Pending

(* What the file knows of the notes of the cassette, and of those of an    *)
(* open transaction until the deposit has recorded them elsewhere.         *)
KeptInv ==
    /\ mem.accepted <= mem.list
    /\ stage = "load" => /\ mem.status = "Unknown" /\ mem.strays = 0
                         /\ \A t \in Threads : ~job[t].holds
    /\ Depositing => mem.status = "Active"
    /\ mishap = {} =>
         /\ stage # "load" => mem.unit <= Saved.notes + (IF Depositing THEN mem.list ELSE 0)
         /\ mem.status # "Ok" /\ (stage \notin {"deposited", "closing"} \/ Depositing) =>
              /\ mem.list <= Saved.list + InFlight
              /\ Saved.status = "Ok" => job["queue"].holds /\ mem.list = 0

(* A deposit comes first, and a note list is saved before mutex_ is free. *)
ShapeInv ==
    \A t \in Threads :
        /\ \A i \in DOMAIN job[t].todo : "notes" \in DOMAIN job[t].todo[i] => i = 1
        /\ job[t].holds => /\ job[t].todo # <<>>
                           /\ "list" \in DOMAIN job[t].todo[Len(job[t].todo)]

IInv == TypeInv /\ MutexInv /\ TornInv /\ OwnedInv /\ RecordedInv /\ ShapeInv /\ KeptInv

-----------------------------------------------------------------------------
(* The data. *)

LEMMA EmptyType == Empty \in Content
BY DEF Empty, Content, Statuses

LEMMA NoJobType == /\ NoJob \in JobType /\ NoJob.pc = "idle" /\ NoJob.todo = <<>> /\ ~NoJob.holds
BY EmptyType DEF NoJob, JobType

LEMMA LoadedType == ASSUME TypeInv PROVE Loaded \in Content
BY EmptyType DEF Loaded, TypeInv

(* A change of some entries leaves a content of the file. *)
LEMMA ChangedType ==
    ASSUME NEW data \in Content, NEW change \in Change
    PROVE  /\ Changed(data, change) \in Content
           /\ DOMAIN change \subseteq Entries
           /\ \A e \in Entries : Changed(data, change)[e] =
                  IF e \in DOMAIN change THEN change[e] ELSE data[e]
<1> DEFINE new == Changed(data, change)
<1>1. \A e \in Entries : new[e] = IF e \in DOMAIN change THEN change[e] ELSE data[e]
  BY DEF Changed
<1>2. /\ DOMAIN change \subseteq Entries
      /\ "status" \in DOMAIN change => change["status"] \in Statuses
      /\ "list" \in DOMAIN change => change["list"] \in Nat
      /\ "notes" \in DOMAIN change => change["notes"] \in Nat
      /\ "enabled" \in DOMAIN change => change["enabled"] \in SUBSET NoteTypes
      /\ "flag" \in DOMAIN change => change["flag"] \in BOOLEAN
  <2>1. CASE change \in [status : Statuses]
    BY <2>1 DEF Entries
  <2>2. CASE change \in [list : Nat]
    BY <2>2 DEF Entries
  <2>3. CASE change \in [notes : Nat]
    BY <2>3 DEF Entries
  <2>4. CASE change \in [enabled : SUBSET NoteTypes]
    BY <2>4 DEF Entries
  <2>5. CASE change \in [flag : BOOLEAN]
    BY <2>5 DEF Entries
  <2>6. CASE change \in [status : Statuses, list : Nat]
    BY <2>6 DEF Entries
  <2>7. QED
    BY <2>1, <2>2, <2>3, <2>4, <2>5, <2>6 DEF Change
<1>3. /\ new["status"] \in Statuses /\ new["list"] \in Nat /\ new["notes"] \in Nat
      /\ new["enabled"] \in SUBSET NoteTypes /\ new["flag"] \in BOOLEAN
  BY <1>1, <1>2 DEF Content, Entries
<1>4. new = [status |-> new["status"], list |-> new["list"], notes |-> new["notes"],
             enabled |-> new["enabled"], flag |-> new["flag"]]
  BY DEF Changed, Entries
<1>5. new \in Content
  BY <1>3, <1>4 DEF Content
<1>6. QED
  BY <1>1, <1>2, <1>5

(* The items of a sequence without its head. *)
LEMMA TailFacts ==
    ASSUME NEW S, NEW s \in Seq(S), s # <<>>
    PROVE  /\ Head(s) \in S /\ 1 \in DOMAIN s /\ Head(s) = s[1] /\ Tail(s) \in Seq(S)
           /\ Len(s) = 1 <=> Tail(s) = <<>>
           /\ \A i \in DOMAIN s : i = 1 \/ (i - 1 \in DOMAIN Tail(s) /\ Tail(s)[i - 1] = s[i])
           /\ \A i \in DOMAIN Tail(s) : i + 1 \in DOMAIN s /\ Tail(s)[i] = s[i + 1]
<1>1. Len(s) \in Nat /\ Len(s) >= 1 /\ DOMAIN s = 1..Len(s)
  OBVIOUS
<1>2. Head(s) \in S /\ 1 \in DOMAIN s /\ Head(s) = s[1] /\ Tail(s) \in Seq(S)
  BY <1>1
<1>3. Len(Tail(s)) = Len(s) - 1 /\ \A i \in 1..(Len(s) - 1) : Tail(s)[i] = s[i + 1]
  BY <1>1
<1>4. DOMAIN Tail(s) = 1..(Len(s) - 1)
  BY <1>1, <1>2, <1>3
<1>5. ASSUME Len(s) = 1, Tail(s) # <<>> PROVE FALSE
  <2>1. Len(Tail(s)) \in Nat \ {0}
    BY <1>2, <1>5, EmptySeq, Zenon
  <2>2. QED
    BY <1>3, <1>5, <2>1
<1>6. Tail(s) = <<>> => Len(s) = 1
  BY <1>1, <1>2, <1>3, EmptySeq
<1>7. \A i \in DOMAIN s : i = 1 \/ (i - 1 \in DOMAIN Tail(s) /\ Tail(s)[i - 1] = s[i])
  BY <1>1, <1>3, <1>4
<1>8. \A i \in DOMAIN Tail(s) : i + 1 \in DOMAIN s /\ Tail(s)[i] = s[i + 1]
  BY <1>1, <1>3, <1>4
<1>9. QED
  BY <1>2, <1>5, <1>6, <1>7, <1>8

(* At most one of the two threads. *)
LEMMA AtMostOne ==
    ASSUME NEW S \in SUBSET Threads, \A t, u \in S : t = u
    PROVE  Cardinality(S) <= 1
<1>1. CASE S = {}
  BY <1>1, FS_EmptySet
<1>2. CASE S # {}
  <2>1. PICK t \in S : TRUE
    BY <1>2
  <2>2. S = {t}
    BY <2>1
  <2>3. QED
    BY <2>2, FS_Singleton
<1>3. QED
  BY <1>1, <1>2

(* What the file said before a write that is going on, now and after a step. *)
LEMMA SavedFacts ==
    /\ FileFree => Saved = Loaded
    /\ \A t \in Threads : OneWriter /\ job[t].pc = "write" => ~FileFree /\ Saved = job[t].base
<1>1. FileFree => Saved = Loaded
  BY DEF Saved
<1>2. ASSUME NEW t \in Threads, OneWriter, job[t].pc = "write" PROVE ~FileFree /\ Saved = job[t].base
  <2>1. ~FileFree
    BY <1>2 DEF FileFree
  <2>2. (CHOOSE u \in Threads : job[u].pc = "write") = t
    BY <1>2 DEF OneWriter
  <2>3. QED
    BY <2>1, <2>2 DEF Saved
<1>3. QED
  BY <1>1, <1>2

LEMMA SavedFactsNext ==
    /\ FileFree' => Saved' = Loaded'
    /\ \A t \in Threads : OneWriter' /\ job'[t].pc = "write" => ~FileFree' /\ Saved' = job'[t].base
<1>1. FileFree' => Saved' = Loaded'
  BY DEF Saved
<1>2. ASSUME NEW t \in Threads, OneWriter', job'[t].pc = "write" PROVE ~FileFree' /\ Saved' = job'[t].base
  <2>1. ~FileFree'
    BY <1>2 DEF FileFree
  <2>2. (CHOOSE u \in Threads : job'[u].pc = "write") = t
    BY <1>2 DEF OneWriter
  <2>3. QED
    BY <2>1, <2>2 DEF Saved
<1>3. QED
  BY <1>1, <1>2

(* The fields of what is believed. *)
LEMMA BeliefFacts ==
    /\ Belief["status"] = mem.status /\ Belief["list"] = mem.list /\ Belief["notes"] = mem.unit + mem.strays
    /\ Belief["enabled"] = mem.enabled /\ Belief["flag"] = mem.flag
BY DEF Belief

-----------------------------------------------------------------------------
(* The beginning of a job. *)

(* read() leaves what readers take the file for. *)
LEMMA ReadFileFacts ==
    ASSUME TypeInv, ReadFile
    PROVE  FileFree /\ file' = [whole |-> TRUE, data |-> Loaded] /\ Loaded' = Loaded /\ file'.whole
BY DEF ReadFile, Loaded

(* The new job of one thread; the other's is the same. *)
LEMMA StartFacts ==
    ASSUME IInv, NEW t \in Threads, Idle(t), NEW changes \in Seq(Change), changes # <<>>,
           NEW holds \in BOOLEAN, Start(t, changes, holds),
           \/ UNCHANGED <<file, renewed>>
           \/ ReadFile
    PROVE  /\ job' \in [Threads -> JobType]
           /\ job'[t].pc = "read" /\ job'[t].todo = changes /\ job'[t].holds = holds
           /\ \A u \in Threads \ {t} : job'[u] = job[u]
           /\ job[t].todo = <<>> /\ ~job[t].holds
           /\ FileFree' = FileFree /\ Saved' = Saved
<1> USE DEF IInv
<1> DEFINE new == [pc |-> "read", todo |-> changes, base |-> Empty, holds |-> holds]
<1>1. new \in JobType
  BY EmptyType DEF JobType
<1>2. job \in [Threads -> JobType] /\ job' = [job EXCEPT ![t] = new]
  BY DEF TypeInv, Start
<1>3. /\ job' \in [Threads -> JobType] /\ job'[t] = new
      /\ \A u \in Threads \ {t} : job'[u] = job[u]
  BY <1>1, <1>2
<1>4. job[t] = NoJob
  BY DEF Idle, TypeInv
<1>5. /\ job'[t].pc = "read" /\ job'[t].todo = changes /\ job'[t].holds = holds
      /\ job[t].todo = <<>> /\ ~job[t].holds /\ job[t].pc = "idle"
  BY <1>3, <1>4, NoJobType
<1> HIDE DEF new
<1>6. \A u \in Threads : job'[u].pc = "write" <=> job[u].pc = "write"
  BY <1>3, <1>5
<1>7. FileFree' = FileFree
  BY <1>6 DEF FileFree
<1>8. Saved' = Saved
  <2>1. CASE FileFree
    <3>1. Loaded' = Loaded
      BY ReadFileFacts DEF Loaded
    <3>2. QED
      BY <1>7, <2>1, <3>1 DEF Saved
  <2>2. CASE ~FileFree
    <3>1. PICK w \in Threads : job[w].pc = "write"
      BY <2>2 DEF FileFree
    <3>2. OneWriter /\ OneWriter' /\ job'[w].pc = "write"
      BY <1>6, <3>1 DEF MutexInv, OneWriter
    <3>3. w # t /\ job'[w] = job[w]
      BY <1>3, <1>5, <3>1
    <3>4. QED
      BY <3>1, <3>2, <3>3, SavedFacts, SavedFactsNext
  <2>3. QED
    BY <2>1, <2>2
<1>9. QED
  BY <1>3, <1>5, <1>7, <1>8

(* A job that begins with what it is about to write pending, and leaves    *)
(* the other thread's changes as right as they were.                       *)
LEMMA StartKeeps ==
    ASSUME IInv, NEW t \in Threads, Idle(t), NEW changes \in Seq(Change), changes # <<>>,
           NEW holds \in BOOLEAN, Start(t, changes, holds),
           holds => \A u \in Threads : ~job[u].holds,
           mem' \in MemType, stage # "load", stage' \in Stages,
           counted' \in 0..MaxNotes, ops' \in 0..MaxOps, UNCHANGED <<mishap, faults>>,
           \/ UNCHANGED <<file, renewed>>
           \/ ReadFile,
           OwnedInv', KeptInv',
           \A i \in DOMAIN changes : "notes" \in DOMAIN changes[i] => i = 1,
           holds => "list" \in DOMAIN changes[Len(changes)],
           Pending \subseteq Pending',
           \A e \in Entries \ Pending' : Belief'[e] = Belief[e]
    PROVE  IInv'
<1> USE DEF IInv
<1>1. /\ job' \in [Threads -> JobType]
      /\ job'[t].pc = "read" /\ job'[t].todo = changes /\ job'[t].holds = holds
      /\ \A u \in Threads \ {t} : job'[u] = job[u]
      /\ job[t].todo = <<>> /\ ~job[t].holds
      /\ FileFree' = FileFree /\ Saved' = Saved
  BY StartFacts
<1>2. file' \in [whole : BOOLEAN, data : Content] /\ renewed' \in BOOLEAN
  <2>1. CASE UNCHANGED <<file, renewed>>
    BY <2>1 DEF TypeInv
  <2>2. CASE ReadFile
    BY <2>2, LoadedType DEF TypeInv, ReadFile
  <2>3. QED
    BY <2>1, <2>2
<1>3. TypeInv'
  BY <1>1, <1>2 DEF TypeInv
<1>4. MutexInv'
  <2>1. OneWriter'
    BY <1>1 DEF MutexInv, OneWriter
  <2>2. \A u, v \in Threads : job'[u].holds /\ job'[v].holds => u = v
    BY <1>1 DEF MutexInv
  <2>3. ~FileFree' => ~file'.whole
    BY <1>1, ReadFileFacts DEF MutexInv
  <2>4. QED
    BY <2>1, <2>2, <2>3 DEF MutexInv
<1>5. TornInv'
  <2>1. CASE UNCHANGED <<file, renewed>>
    BY <1>1, <2>1 DEF TornInv
  <2>2. CASE ReadFile
    <3>1. FileFree /\ file'.whole
      BY <2>2, ReadFileFacts
    <3>2. renewed' => faults' > 0
      BY <2>2, <3>1 DEF TornInv, ReadFile
    <3>3. QED
      BY <3>1, <3>2 DEF TornInv
  <2>3. QED
    BY <2>1, <2>2
<1>6. RecordedInv'
  <2> SUFFICES ASSUME mishap' = {}, NEW e \in Entries \ Pending'
               PROVE  Saved'[e] = Belief'[e] \/ (e = "flag" /\ ~mem'.flag)
    BY DEF RecordedInv
  <2>1. Saved[e] = Belief[e] \/ (e = "flag" /\ ~mem.flag)
    BY DEF RecordedInv, Unread
  <2>2. Belief'[e] = Belief[e]
    OBVIOUS
  <2>3. e = "flag" => mem'.flag = mem.flag
    BY <2>2 DEF Belief
  <2>4. QED
    BY <1>1, <2>1, <2>2, <2>3
<1>7. ShapeInv'
  BY <1>1 DEF ShapeInv
<1>8. QED
  BY <1>3, <1>4, <1>5, <1>6, <1>7

(* What a thread has to write stays its own when the rest changes. *)
LEMMA OtherOwns ==
    ASSUME IInv, NEW t \in Threads, NEW u \in Threads, u # t, job'[u] = job[u], mishap' = mishap,
           u = "queue" => UNCHANGED stage,
           \A e \in Entries :
               \/ Belief'[e] = Belief[e]
               \/ e \in {"status", "list"} /\ ~job[u].holds /\ stage # "load"
               \/ e \in {"notes", "enabled"} /\ t = "queue"
               \/ e = "flag" /\ t = "poll"
    PROVE  \A i \in DOMAIN job'[u].todo : OwnedBy(u, job[u].todo[i])'
<1> SUFFICES ASSUME NEW i \in DOMAIN job[u].todo, NEW e \in DOMAIN job[u].todo[i]
             PROVE  LET change == job[u].todo[i]
                    IN  /\ e \in Entries
                        /\ e \in {"notes", "enabled"} => u = "queue"
                        /\ e = "notes" => stage' \in {"deposited", "ready"} /\ ~job'[u].holds
                        /\ e = "flag" => u = "poll"
                        /\ e \in {"status", "list"} =>
                             job'[u].holds \/ (u = "queue" /\ stage' \in {"load", "deposited"})
                        /\ mishap' = {} => \/ change[e] = Belief'[e]
                                           \/ e \in {"status", "list"} /\ u = "queue" /\ stage' = "deposited"
  BY DEF OwnedBy
<1>1. OwnedBy(u, job[u].todo[i])
  BY DEF IInv, OwnedInv
<1>2. u \in {"queue", "poll"} /\ t \in {"queue", "poll"}
  BY DEF Threads
<1>3. QED
  BY <1>1, <1>2 DEF OwnedBy

LEMMA SavedType == IInv => Saved \in Content
<1> SUFFICES ASSUME IInv PROVE Saved \in Content
  OBVIOUS
<1>1. CASE FileFree
  BY <1>1, SavedFacts, LoadedType DEF IInv
<1>2. CASE ~FileFree
  <2>1. PICK w \in Threads : job[w].pc = "write"
    BY <1>2 DEF FileFree
  <2>2. Saved = job[w].base /\ job[w].base \in Content
    BY <2>1, SavedFacts DEF IInv, MutexInv, TypeInv, JobType
  <2>3. QED
    BY <2>2
<1>3. QED
  BY <1>1, <1>2

(* Only the queue thread can have notes to write: a deposit's, a Reset's. *)
LEMMA NotesPending ==
    ASSUME IInv, "notes" \in Pending
    PROVE  stage \in {"deposited", "ready"} /\ job["queue"].pc # "idle" /\ ~job["queue"].holds
<1>1. PICK t \in Threads : \E i \in DOMAIN job[t].todo : "notes" \in DOMAIN job[t].todo[i]
  BY DEF Pending
<1>2. t = "queue" /\ stage \in {"deposited", "ready"} /\ ~job[t].holds
  BY <1>1 DEF IInv, OwnedInv, OwnedBy
<1>3. job["queue"].pc # "idle"
  <2>1. CASE job[t].todo = <<>>
    BY <1>1, <2>1
  <2>2. CASE job[t].todo # <<>>
    BY <1>1, <1>2, <2>2 DEF IInv, TypeInv
  <2>3. QED
    BY <2>1, <2>2
<1>4. QED
  BY <1>2, <1>3

(* What is pending after a job has begun. *)
LEMMA StartPending ==
    ASSUME NEW t \in Threads, NEW changes, job[t].todo = <<>>, job'[t].todo = changes,
           \A u \in Threads \ {t} : job'[u] = job[u]
    PROVE  /\ \A i \in DOMAIN changes : DOMAIN changes[i] \cap Entries \subseteq Pending'
           /\ stage' \in {"deposited", "closing"} \/ stage \notin {"deposited", "closing"}
                => Pending \subseteq Pending'
           /\ "notes" \in Pending' =>
                "notes" \in Pending \/ \E i \in DOMAIN changes : "notes" \in DOMAIN changes[i]
<1>1. \A i \in DOMAIN changes : DOMAIN changes[i] \cap Entries \subseteq Pending'
  BY DEF Pending
<1>2. ASSUME NEW u \in Threads, NEW i \in DOMAIN job[u].todo
      PROVE  i \in DOMAIN job'[u].todo /\ job'[u].todo[i] = job[u].todo[i]
  <2>1. u # t
    BY <1>2
  <2>2. QED
    BY <2>1, <1>2
<1>3. stage' \in {"deposited", "closing"} \/ stage \notin {"deposited", "closing"} => Pending \subseteq Pending'
  BY <1>2 DEF Pending
<1>4. ASSUME "notes" \in Pending', \A i \in DOMAIN changes : "notes" \notin DOMAIN changes[i]
      PROVE  "notes" \in Pending
  <2>1. PICK u \in Threads : \E i \in DOMAIN job'[u].todo : "notes" \in DOMAIN job'[u].todo[i]
    BY <1>4 DEF Pending
  <2>2. u # t
    BY <1>4, <2>1
  <2>3. QED
    BY <2>1, <2>2 DEF Pending, Entries
<1>5. QED
  BY <1>1, <1>3, <1>4

LEMMA BoundTypes == MaxNotes \in Nat /\ MaxOps \in Nat /\ MaxFaults \in Nat
BY PersistentAssumption

LEMMA CountType ==
    ASSUME NEW n, NEW max \in Nat, n \in 0..max, n < max
    PROVE  n + 1 \in 0..max
OBVIOUS

LEMMA OpenTransactionKeeps ==
    ASSUME IInv, OpenTransaction
    PROVE  IInv'
<1> USE DEF IInv
<1> DEFINE changes == <<[status |-> "Active"], [list |-> 0]>>
<1>1. /\ changes \in Seq(Change) /\ changes # <<>> /\ DOMAIN changes = {1, 2} /\ Len(changes) = 2
      /\ DOMAIN changes[1] = {"status"} /\ changes[1]["status"] = "Active"
      /\ DOMAIN changes[2] = {"list"} /\ changes[2]["list"] = 0
  BY DEF Change, Statuses
<1>2. /\ Idle("queue") /\ Start("queue", changes, TRUE) /\ \A u \in Threads : ~job[u].holds
      /\ "queue" \in Threads /\ stage = "ready"
      /\ mem' = [mem EXCEPT !.status = "Active", !.list = 0, !.accepted = 0]
      /\ UNCHANGED <<file, stage, mishap, renewed, counted, faults>> /\ ops < MaxOps /\ ops' = ops + 1
  BY DEF OpenTransaction, Command, SaveTransactionStatus, Threads
<1> HIDE DEF changes
<1>3. /\ job'["queue"].pc = "read" /\ job'["queue"].todo = changes /\ job'["queue"].holds
      /\ \A u \in Threads \ {"queue"} : job'[u] = job[u]
      /\ job["queue"].todo = <<>> /\ ~job["queue"].holds /\ Saved' = Saved
  BY <1>1, <1>2, StartFacts
<1>4. mem' \in MemType /\ ops' \in 0..MaxOps
  <2>1. ops' \in 0..MaxOps
    BY <1>2, BoundTypes, CountType DEF TypeInv
  <2>2. QED
    BY <1>2, <2>1 DEF TypeInv, MemType, Statuses
<1>5. /\ mem'.status = "Active" /\ mem'.list = 0 /\ mem'.accepted = 0 /\ mem'.unit = mem.unit
      /\ mem'.strays = mem.strays /\ mem'.enabled = mem.enabled /\ mem'.flag = mem.flag
  BY <1>2 DEF TypeInv, MemType
<1>6. Pending \subseteq Pending' /\ {"status", "list"} \subseteq Pending' /\ "notes" \notin Pending'
  <2>1. {"status", "list"} \subseteq Pending'
    BY <1>1, <1>2, <1>3, StartPending DEF Entries
  <2>2. Pending \subseteq Pending' /\ ("notes" \in Pending' => "notes" \in Pending)
    BY <1>1, <1>2, <1>3, StartPending
  <2>3. "notes" \notin Pending
    BY <1>2, NotesPending DEF Idle
  <2>4. QED
    BY <2>1, <2>2, <2>3
<1>7. \A e \in Entries : Belief'[e] = Belief[e] \/ e \in {"status", "list"}
  BY <1>5 DEF Belief, Entries
<1>8. OwnedInv'
  <2>1. ASSUME NEW i \in DOMAIN changes PROVE OwnedBy("queue", job["queue"].todo[i])'
    BY <1>1, <1>2, <1>3, <1>5 DEF OwnedBy, Belief, Entries
  <2>2. \A i \in DOMAIN job'["poll"].todo : OwnedBy("poll", job["poll"].todo[i])'
    BY <1>2, <1>3, <1>7, OtherOwns DEF Threads
  <2>3. QED
    BY <1>3, <2>1, <2>2 DEF OwnedInv, Threads
<1>9. KeptInv'
  <2>1. Saved.list \in Nat /\ Saved.notes \in Nat
    BY SavedType DEF Content
  <2>2. mishap = {} => mem.unit <= Saved.notes
    BY <1>2, <2>1 DEF KeptInv, Depositing
  <2>3. QED
    BY <1>2, <1>3, <1>5, <1>6, <2>1, <2>2 DEF KeptInv, InFlight, Depositing
<1>10. /\ changes \in Seq(Change) /\ changes # <<>>
       /\ \A i \in DOMAIN changes : "notes" \in DOMAIN changes[i] => i = 1
       /\ "list" \in DOMAIN changes[Len(changes)]
  BY <1>1
<1>11. /\ "queue" \in Threads /\ Idle("queue") /\ Start("queue", changes, TRUE)
       /\ \A u \in Threads : ~job[u].holds
       /\ UNCHANGED <<file, renewed>> /\ UNCHANGED <<mishap, faults>>
  BY <1>2
<1>12. stage # "load" /\ stage' \in Stages /\ counted' \in 0..MaxNotes
  BY <1>2 DEF TypeInv, Stages
<1>13. \A e \in Entries \ Pending' : Belief'[e] = Belief[e]
  BY <1>6, <1>7
<1>14. QED
  BY <1>4, <1>6, <1>8, <1>9, <1>10, <1>11, <1>12, <1>13, StartKeeps

(* A counted note: in a cash-in, by the polling thread, after a Reset. *)
LEMMA CountNoteKeeps ==
    ASSUME IInv, NEW t \in Threads, CountNote(t), stage # "load",
           \/ stage' = stage /\ (t = "queue" => stage = "ready")
           \/ stage = "reset" /\ stage' = "jammed" /\ t = "queue"
    PROVE  IInv'
<1> USE DEF IInv
<1> DEFINE changes == <<[status |-> mem.status], [list |-> mem.list + 1]>>
<1>1. /\ changes \in Seq(Change) /\ changes # <<>> /\ DOMAIN changes = {1, 2} /\ Len(changes) = 2
      /\ DOMAIN changes[1] = {"status"} /\ changes[1]["status"] = mem.status
      /\ DOMAIN changes[2] = {"list"} /\ changes[2]["list"] = mem.list + 1
  <2>1. mem.status \in Statuses /\ mem.list + 1 \in Nat
    BY DEF TypeInv, MemType
  <2>2. QED
    BY <2>1 DEF Change
<1>2. /\ Idle(t) /\ Start(t, changes, TRUE) /\ \A u \in Threads : ~job[u].holds
      /\ mem' = [mem EXCEPT !.list = mem.list + 1, !.accepted = mem.accepted + 1]
      /\ UNCHANGED <<file, mishap, renewed, ops, faults>>
      /\ counted < MaxNotes /\ counted' = counted + 1
  BY DEF CountNote, SaveTransactionStatus
<1> HIDE DEF changes
<1>3. /\ job'[t].pc = "read" /\ job'[t].todo = changes /\ job'[t].holds
      /\ \A u \in Threads \ {t} : job'[u] = job[u]
      /\ job[t].todo = <<>> /\ ~job[t].holds /\ Saved' = Saved
  BY <1>1, <1>2, StartFacts
<1>4. mem' \in MemType /\ counted' \in 0..MaxNotes
  <2>1. counted' \in 0..MaxNotes
    BY <1>2, BoundTypes, CountType DEF TypeInv
  <2>2. mem.list + 1 \in Nat /\ mem.accepted + 1 \in Nat
    BY DEF TypeInv, MemType
  <2>3. QED
    BY <1>2, <2>1, <2>2 DEF TypeInv, MemType
<1>5. /\ mem'.status = mem.status /\ mem'.list = mem.list + 1 /\ mem'.accepted = mem.accepted + 1
      /\ mem'.unit = mem.unit /\ mem'.strays = mem.strays
      /\ mem'.enabled = mem.enabled /\ mem'.flag = mem.flag
  BY <1>2 DEF TypeInv, MemType
<1>6. /\ Pending \subseteq Pending' /\ {"status", "list"} \subseteq Pending'
      /\ "notes" \in Pending' => "notes" \in Pending
  <2>1. {"status", "list"} \subseteq Pending'
    BY <1>1, <1>3, StartPending DEF Entries
  <2>2. Pending \subseteq Pending' /\ ("notes" \in Pending' => "notes" \in Pending)
    BY <1>1, <1>2, <1>3, StartPending
  <2>3. QED
    BY <2>1, <2>2
<1>7. \A e \in Entries : Belief'[e] = Belief[e] \/ e = "list"
  BY <1>5 DEF Belief, Entries
<1>8. stage \in Stages /\ stage' \in Stages /\ stage' # "load"
  BY DEF TypeInv, Stages
<1>9. OwnedInv'
  <2>1. ASSUME NEW i \in DOMAIN changes PROVE OwnedBy(t, job[t].todo[i])'
    BY <1>1, <1>2, <1>3, <1>5 DEF OwnedBy, Belief, Entries
  <2>2. ASSUME NEW u \in Threads \ {t}
        PROVE  \A i \in DOMAIN job'[u].todo : OwnedBy(u, job[u].todo[i])'
    <3>1. CASE stage' = stage
      BY <1>2, <1>3, <1>7, <3>1, OtherOwns
    <3>2. CASE t = "queue"
      BY <1>2, <1>3, <1>7, <3>2, OtherOwns
    <3>3. QED
      BY <3>1, <3>2
  <2>3. QED
    BY <1>3, <2>1, <2>2 DEF OwnedInv
<1>10. KeptInv'
  <2>1. InFlight = 0 /\ InFlight' = 1
    BY <1>2, <1>3 DEF InFlight
  <2>2. Saved.list \in Nat /\ Saved.notes \in Nat /\ mem.list \in Nat /\ mem.unit \in Nat /\ mem.accepted \in Nat
    BY SavedType DEF Content, TypeInv, MemType
  <2>3. mem'.accepted <= mem'.list
    BY <1>5, <2>2 DEF KeptInv
  <2>4. Depositing' <=> Depositing
    BY <1>6 DEF Depositing
  <2>5. mishap = {} => mem'.unit <= Saved.notes + (IF Depositing' THEN mem'.list ELSE 0)
    BY <1>5, <2>2, <2>4 DEF KeptInv
  <2>6. mishap = {} /\ mem.status # "Ok" /\ (stage' \notin {"deposited", "closing"} \/ Depositing')
          => mem'.list <= Saved.list + InFlight' /\ Saved.status # "Ok"
    <3>1. ~job["queue"].holds
      BY <1>2 DEF Threads
    <3>2. QED
      BY <1>5, <2>1, <2>2, <2>4, <3>1 DEF KeptInv
  <2>7. QED
    BY <1>2, <1>3, <1>5, <1>8, <2>3, <2>4, <2>5, <2>6 DEF KeptInv
<1>11. /\ changes \in Seq(Change) /\ changes # <<>>
       /\ \A i \in DOMAIN changes : "notes" \in DOMAIN changes[i] => i = 1
       /\ "list" \in DOMAIN changes[Len(changes)]
  BY <1>1
<1>12. QED
  BY <1>11, <1>2, <1>4, <1>6, <1>7, <1>8, <1>9, <1>10, StartKeeps DEF TypeInv

LEMMA AddNoteKeeps ==
    ASSUME IInv, NEW t \in Threads, AddNote(t)
    PROVE  IInv'
<1>1. CountNote(t) /\ stage' = stage /\ (t = "queue" => stage = "ready") /\ (t = "poll" => stage # "load")
  BY DEF AddNote
<1>2. stage # "load"
  BY <1>1 DEF Threads
<1>3. QED
  BY <1>1, <1>2, CountNoteKeeps

LEMMA ResetCountKeeps ==
    ASSUME IInv, ResetCount
    PROVE  IInv'
<1>1. CountNote("queue") /\ stage = "reset" /\ stage' = "jammed" /\ "queue" \in Threads
  BY DEF ResetCount, Threads
<1>2. QED
  BY <1>1, CountNoteKeeps

LEMMA DepositKeeps ==
    ASSUME IInv, Deposit
    PROVE  IInv'
<1> USE DEF IInv
<1> DEFINE changes == <<[notes |-> Loaded.notes + mem.accepted], [status |-> "Ok", list |-> 0]>>
<1>1. /\ changes \in Seq(Change) /\ changes # <<>> /\ DOMAIN changes = {1, 2} /\ Len(changes) = 2
      /\ DOMAIN changes[1] = {"notes"} /\ changes[1]["notes"] = Loaded.notes + mem.accepted
      /\ DOMAIN changes[2] = {"status", "list"}
  <2>1. Loaded.notes + mem.accepted \in Nat
    BY LoadedType DEF TypeInv, MemType, Content
  <2>2. QED
    BY <2>1 DEF Change, Statuses
<1>2. /\ Idle("queue") /\ Start("queue", changes, FALSE) /\ ReadFile /\ "queue" \in Threads
      /\ stage = "ready" /\ stage' = "deposited" /\ mem.status = "Active"
      /\ mem' = [mem EXCEPT !.unit = mem.unit + mem.accepted]
      /\ UNCHANGED <<mishap, counted, faults>> /\ ops < MaxOps /\ ops' = ops + 1
  BY DEF Deposit, Command, Threads
<1> HIDE DEF changes
<1>3. /\ job'["queue"].pc = "read" /\ job'["queue"].todo = changes /\ ~job'["queue"].holds
      /\ \A u \in Threads \ {"queue"} : job'[u] = job[u]
      /\ job["queue"].todo = <<>> /\ ~job["queue"].holds /\ Saved' = Saved
  BY <1>1, <1>2, StartFacts
<1>4. mem' \in MemType /\ ops' \in 0..MaxOps
  <2>1. ops' \in 0..MaxOps
    BY <1>2, BoundTypes, CountType DEF TypeInv
  <2>2. mem.unit + mem.accepted \in Nat
    BY DEF TypeInv, MemType
  <2>3. QED
    BY <1>2, <2>1, <2>2 DEF TypeInv, MemType
<1>5. /\ mem'.status = mem.status /\ mem'.list = mem.list /\ mem'.unit = mem.unit + mem.accepted
      /\ mem'.accepted = mem.accepted /\ mem'.strays = mem.strays
      /\ mem'.enabled = mem.enabled /\ mem'.flag = mem.flag
  BY <1>2 DEF TypeInv, MemType
<1>6. Pending \subseteq Pending' /\ "notes" \in Pending' /\ "notes" \notin Pending
  <2>1. "notes" \in Pending' /\ Pending \subseteq Pending'
    BY <1>1, <1>2, <1>3, StartPending DEF Entries
  <2>2. QED
    BY <1>2, <2>1, NotesPending DEF Idle
<1>7. \A e \in Entries : Belief'[e] = Belief[e] \/ e = "notes"
  BY <1>5 DEF Belief, Entries
<1>8. mishap = {} => Saved.notes = mem.unit + mem.strays /\ Loaded.notes = mem.unit + mem.strays
  <2>1. Saved = Loaded
    BY <1>2, ReadFileFacts, SavedFacts
  <2>2. mishap = {} => Saved["notes"] = Belief["notes"]
    BY <1>2, <1>6 DEF RecordedInv, Unread, Entries
  <2>3. QED
    BY <2>1, <2>2 DEF Belief
<1>9. OwnedInv'
  <2>1. ASSUME NEW i \in DOMAIN changes PROVE OwnedBy("queue", job["queue"].todo[i])'
    <3>1. CASE i = 1
      <4>1. mishap = {} => changes[1]["notes"] = Belief'["notes"]
        <5>1. mem.unit \in Nat /\ mem.accepted \in Nat /\ mem.strays \in Nat
          BY DEF TypeInv, MemType
        <5>2. Belief'["notes"] = mem.unit + mem.accepted + mem.strays
          BY <1>5 DEF Belief
        <5>3. QED
          BY <1>1, <1>8, <5>1, <5>2
      <4>2. QED
        BY <1>1, <1>2, <1>3, <3>1, <4>1 DEF OwnedBy, Entries
    <3>2. CASE i = 2
      BY <1>1, <1>2, <1>3, <3>2 DEF OwnedBy, Entries
    <3>3. QED
      BY <1>1, <3>1, <3>2
  <2>2. \A i \in DOMAIN job'["poll"].todo : OwnedBy("poll", job["poll"].todo[i])'
    BY <1>2, <1>3, <1>7, OtherOwns DEF Threads
  <2>3. QED
    BY <1>3, <2>1, <2>2 DEF OwnedInv, Threads
<1>10. KeptInv'
  <2>1. InFlight' = InFlight
    BY <1>3 DEF InFlight
  <2>2. /\ mem.accepted <= mem.list /\ mem.accepted \in Nat
        /\ mem.list \in Nat /\ mem.unit \in Nat /\ mem.strays \in Nat
    BY DEF KeptInv, TypeInv, MemType
  <2>3. mishap = {} => mem'.unit <= Saved.notes + mem'.list
    BY <1>5, <1>8, <2>2
  <2>4. mishap = {} => mem'.list <= Saved.list + InFlight' /\ Saved.status # "Ok"
    BY <1>2, <1>3, <1>5, <2>1 DEF KeptInv
  <2>5. Depositing'
    BY <1>2, <1>6 DEF Depositing
  <2>6. QED
    BY <1>2, <1>3, <1>5, <2>2, <2>3, <2>4, <2>5 DEF KeptInv
<1>11. /\ changes \in Seq(Change) /\ changes # <<>>
       /\ \A i \in DOMAIN changes : "notes" \in DOMAIN changes[i] => i = 1
  BY <1>1
<1>12. QED
  BY <1>11, <1>2, <1>4, <1>6, <1>7, <1>9, <1>10, StartKeeps DEF TypeInv, Stages

LEMMA ResetRecordKeeps ==
    ASSUME IInv, ResetRecord
    PROVE  IInv'
<1> USE DEF IInv
<1> DEFINE changes == <<[notes |-> Loaded.notes + mem.accepted]>>
<1>1. /\ changes \in Seq(Change) /\ changes # <<>> /\ DOMAIN changes = {1}
      /\ DOMAIN changes[1] = {"notes"} /\ changes[1]["notes"] = Loaded.notes + mem.accepted
  <2>1. Loaded.notes + mem.accepted \in Nat
    BY LoadedType DEF TypeInv, MemType, Content
  <2>2. QED
    BY <2>1 DEF Change
<1>2. /\ Idle("queue") /\ Start("queue", changes, FALSE) /\ ReadFile /\ "queue" \in Threads
      /\ stage \in {"reset", "jammed"} /\ stage' = "ready"
      /\ mem' = [mem EXCEPT !.strays = mem.strays + mem.accepted]
      /\ UNCHANGED <<mishap, counted, ops, faults>>
  BY DEF ResetRecord, Threads, bounds
<1> HIDE DEF changes
<1>3. /\ job'["queue"].pc = "read" /\ job'["queue"].todo = changes /\ ~job'["queue"].holds
      /\ \A u \in Threads \ {"queue"} : job'[u] = job[u]
      /\ job["queue"].todo = <<>> /\ ~job["queue"].holds /\ Saved' = Saved
  BY <1>1, <1>2, StartFacts
<1>4. mem' \in MemType
  <2>1. mem.strays + mem.accepted \in Nat
    BY DEF TypeInv, MemType
  <2>2. QED
    BY <1>2, <2>1 DEF TypeInv, MemType
<1>5. /\ mem'.status = mem.status /\ mem'.list = mem.list /\ mem'.unit = mem.unit
      /\ mem'.accepted = mem.accepted /\ mem'.strays = mem.strays + mem.accepted
      /\ mem'.enabled = mem.enabled /\ mem'.flag = mem.flag
  BY <1>2 DEF TypeInv, MemType
<1>6. Pending \subseteq Pending' /\ "notes" \in Pending' /\ "notes" \notin Pending
  <2>1. "notes" \in Pending' /\ Pending \subseteq Pending'
    BY <1>1, <1>2, <1>3, StartPending DEF Entries
  <2>2. QED
    BY <1>2, <2>1, NotesPending DEF Idle
<1>7. \A e \in Entries : Belief'[e] = Belief[e] \/ e = "notes"
  BY <1>5 DEF Belief, Entries
<1>8. mishap = {} => Saved.notes = mem.unit + mem.strays /\ Loaded.notes = mem.unit + mem.strays
  <2>1. Saved = Loaded
    BY <1>2, ReadFileFacts, SavedFacts
  <2>2. mishap = {} => Saved["notes"] = Belief["notes"]
    BY <1>2, <1>6 DEF RecordedInv, Unread, Entries
  <2>3. QED
    BY <2>1, <2>2 DEF Belief
<1>9. OwnedInv'
  <2>1. ASSUME NEW i \in DOMAIN changes PROVE OwnedBy("queue", job["queue"].todo[i])'
    <3>1. mishap = {} => changes[1]["notes"] = Belief'["notes"]
      <4>1. mem.unit \in Nat /\ mem.accepted \in Nat /\ mem.strays \in Nat
        BY DEF TypeInv, MemType
      <4>2. Belief'["notes"] = mem.unit + (mem.strays + mem.accepted)
        BY <1>5 DEF Belief
      <4>3. QED
        BY <1>1, <1>8, <4>1, <4>2
    <3>2. QED
      BY <1>1, <1>2, <1>3, <3>1 DEF OwnedBy, Entries
  <2>2. \A i \in DOMAIN job'["poll"].todo : OwnedBy("poll", job["poll"].todo[i])'
    BY <1>2, <1>3, <1>7, OtherOwns DEF Threads
  <2>3. QED
    BY <1>3, <2>1, <2>2 DEF OwnedInv, Threads
<1>10. KeptInv'
  <2>1. InFlight' = InFlight
    BY <1>3 DEF InFlight
  <2>2. /\ mem.unit \in Nat /\ mem.strays \in Nat /\ Saved.notes \in Nat
    BY SavedType DEF Content, TypeInv, MemType
  <2>3. mishap = {} => mem'.unit <= Saved.notes
    BY <1>5, <1>8, <2>2
  <2>4. ~Depositing'
    BY <1>2 DEF Depositing
  <2>5. QED
    BY <1>2, <1>3, <1>5, <2>1, <2>2, <2>3, <2>4 DEF KeptInv
<1>11. /\ changes \in Seq(Change) /\ changes # <<>>
       /\ \A i \in DOMAIN changes : "notes" \in DOMAIN changes[i] => i = 1
  BY <1>1
<1>12. QED
  BY <1>11, <1>2, <1>4, <1>6, <1>7, <1>9, <1>10, StartKeeps DEF TypeInv, Stages

LEMMA CloseTransactionKeeps ==
    ASSUME IInv, CloseTransaction
    PROVE  IInv'
<1> USE DEF IInv
<1> DEFINE changes == <<[status |-> "Ok"], [list |-> mem.list]>>
<1>1. /\ changes \in Seq(Change) /\ changes # <<>> /\ DOMAIN changes = {1, 2} /\ Len(changes) = 2
      /\ DOMAIN changes[1] = {"status"} /\ changes[1]["status"] = "Ok"
      /\ DOMAIN changes[2] = {"list"} /\ changes[2]["list"] = mem.list
  <2>1. mem.list \in Nat
    BY DEF TypeInv, MemType
  <2>2. QED
    BY <2>1 DEF Change, Statuses
<1>2. /\ Idle("queue") /\ Start("queue", changes, TRUE) /\ \A u \in Threads : ~job[u].holds
      /\ "queue" \in Threads /\ stage \in {"ready", "closing"} /\ stage' = "ready"
      /\ mem' = [mem EXCEPT !.status = "Ok"]
      /\ UNCHANGED <<file, mishap, renewed, counted, faults>>
      /\ (ops < MaxOps /\ ops' = ops + 1) \/ ops' = ops
  BY DEF CloseTransaction, Command, SaveTransactionStatus, Threads, bounds
<1> HIDE DEF changes
<1>3. /\ job'["queue"].pc = "read" /\ job'["queue"].todo = changes /\ job'["queue"].holds
      /\ \A u \in Threads \ {"queue"} : job'[u] = job[u]
      /\ job["queue"].todo = <<>> /\ ~job["queue"].holds /\ Saved' = Saved
  BY <1>1, <1>2, StartFacts
<1>4. mem' \in MemType /\ ops' \in 0..MaxOps
  <2>1. ops' \in 0..MaxOps
    BY <1>2, BoundTypes, CountType DEF TypeInv
  <2>2. QED
    BY <1>2, <2>1 DEF TypeInv, MemType, Statuses
<1>5. /\ mem'.status = "Ok" /\ mem'.list = mem.list /\ mem'.unit = mem.unit
      /\ mem'.accepted = mem.accepted /\ mem'.strays = mem.strays
      /\ mem'.enabled = mem.enabled /\ mem'.flag = mem.flag
  BY <1>2 DEF TypeInv, MemType
<1>6. Pending \subseteq Pending' /\ {"status", "list"} \subseteq Pending' /\ "notes" \notin Pending'
  <2>1. {"status", "list"} \subseteq Pending'
    BY <1>1, <1>2, <1>3, StartPending DEF Entries
  <2>2. ("notes" \in Pending' => "notes" \in Pending)
    BY <1>1, <1>2, <1>3, StartPending
  <2>3. "notes" \notin Pending
    BY <1>2, NotesPending DEF Idle
  <2>4. Pending \subseteq Pending'
    BY <1>2, <1>3, <2>1 DEF Pending
  <2>5. QED
    BY <2>1, <2>2, <2>3, <2>4
<1>7. \A e \in Entries : Belief'[e] = Belief[e] \/ e = "status"
  BY <1>5 DEF Belief, Entries
<1>8. OwnedInv'
  <2>1. ASSUME NEW i \in DOMAIN changes PROVE OwnedBy("queue", job["queue"].todo[i])'
    BY <1>1, <1>2, <1>3, <1>5 DEF OwnedBy, Belief, Entries
  <2>2. \A i \in DOMAIN job'["poll"].todo : OwnedBy("poll", job["poll"].todo[i])'
    BY <1>2, <1>3, <1>7, OtherOwns DEF Threads
  <2>3. QED
    BY <1>3, <2>1, <2>2 DEF OwnedInv, Threads
<1>9. KeptInv'
  <2>1. Saved.notes \in Nat /\ mem.unit \in Nat
    BY SavedType DEF Content, TypeInv, MemType
  <2>2. mishap = {} => mem.unit <= Saved.notes
    BY <1>2, <2>1 DEF KeptInv, Depositing
  <2>3. QED
    BY <1>2, <1>3, <1>5, <2>1, <2>2 DEF KeptInv, Depositing
<1>10. \A e \in Entries \ Pending' : Belief'[e] = Belief[e]
  BY <1>6, <1>7
<1>11. stage # "load" /\ stage' \in Stages /\ counted' \in 0..MaxNotes
  BY <1>2 DEF TypeInv, Stages
<1>12. changes \in Seq(Change) /\ changes # <<>> /\ UNCHANGED <<mishap, faults>>
       /\ UNCHANGED <<file, renewed>> /\ Pending \subseteq Pending'
  BY <1>1, <1>2, <1>6
<1>13. "queue" \in Threads /\ Idle("queue") /\ Start("queue", changes, TRUE)
       /\ \A u \in Threads : ~job[u].holds
  BY <1>2
<1>14. /\ changes \in Seq(Change) /\ changes # <<>>
       /\ \A i \in DOMAIN changes : "notes" \in DOMAIN changes[i] => i = 1
       /\ "list" \in DOMAIN changes[Len(changes)]
  BY <1>1
<1>15. QED
  BY <1>14, <1>4, <1>8, <1>9, <1>10, <1>11, <1>12, <1>13, StartKeeps

LEMMA ConfigureNoteTypesKeeps ==
    ASSUME IInv, NEW on \in SUBSET NoteTypes, NEW off \in SUBSET NoteTypes, ConfigureNoteTypes(on, off)
    PROVE  IInv'
<1> USE DEF IInv
<1> DEFINE enabled == (mem.enabled \cup on) \ off
           changes == <<[enabled |-> enabled]>>
<1>1. enabled \in SUBSET NoteTypes /\ mem.types \cup enabled \in SUBSET NoteTypes
  BY DEF TypeInv, MemType
<1>2. /\ Idle("queue") /\ Start("queue", changes, FALSE)
      /\ "queue" \in Threads /\ stage = "ready" /\ mem.status # "Active"
      /\ mem' = [mem EXCEPT !.enabled = enabled, !.types = mem.types \cup enabled]
      /\ UNCHANGED <<file, stage, mishap, renewed, counted, faults>> /\ ops < MaxOps /\ ops' = ops + 1
  BY DEF ConfigureNoteTypes, Command, Threads
<1> HIDE DEF enabled
<1>3. /\ changes \in Seq(Change) /\ changes # <<>> /\ DOMAIN changes = {1}
      /\ DOMAIN changes[1] = {"enabled"} /\ changes[1]["enabled"] = enabled
  BY <1>1 DEF Change
<1> HIDE DEF changes
<1>4. /\ job'["queue"].pc = "read" /\ job'["queue"].todo = changes /\ ~job'["queue"].holds
      /\ \A u \in Threads \ {"queue"} : job'[u] = job[u]
      /\ job["queue"].todo = <<>> /\ ~job["queue"].holds /\ Saved' = Saved
  BY <1>2, <1>3, StartFacts
<1>5. mem' \in MemType /\ ops' \in 0..MaxOps
  <2>1. ops' \in 0..MaxOps
    BY <1>2, BoundTypes, CountType DEF TypeInv
  <2>2. QED
    BY <1>1, <1>2, <2>1 DEF TypeInv, MemType
<1>6. /\ mem'.status = mem.status /\ mem'.list = mem.list /\ mem'.unit = mem.unit
      /\ mem'.accepted = mem.accepted /\ mem'.strays = mem.strays
      /\ mem'.enabled = enabled /\ mem'.flag = mem.flag
  BY <1>2 DEF TypeInv, MemType
<1>7. Pending \subseteq Pending' /\ "enabled" \in Pending' /\ "notes" \notin Pending'
  <2>1. "enabled" \in Pending' /\ Pending \subseteq Pending' /\ ("notes" \in Pending' => "notes" \in Pending)
    BY <1>2, <1>3, <1>4, StartPending DEF Entries
  <2>2. QED
    BY <1>2, <2>1, NotesPending DEF Idle
<1>8. \A e \in Entries : Belief'[e] = Belief[e] \/ e = "enabled"
  BY <1>6 DEF Belief, Entries
<1>9. OwnedInv'
  <2>1. ASSUME NEW i \in DOMAIN changes PROVE OwnedBy("queue", job["queue"].todo[i])'
    BY <1>2, <1>3, <1>4, <1>6 DEF OwnedBy, Belief, Entries
  <2>2. \A i \in DOMAIN job'["poll"].todo : OwnedBy("poll", job["poll"].todo[i])'
    BY <1>2, <1>4, <1>8, OtherOwns DEF Threads
  <2>3. QED
    BY <1>4, <2>1, <2>2 DEF OwnedInv, Threads
<1>10. KeptInv'
  <2>1. InFlight' = InFlight
    BY <1>4 DEF InFlight
  <2>2. ~Depositing' /\ ~Depositing
    BY <1>2 DEF Depositing
  <2>3. QED
    BY <1>2, <1>4, <1>6, <2>1, <2>2 DEF KeptInv
<1>11. \A e \in Entries \ Pending' : Belief'[e] = Belief[e]
  BY <1>7, <1>8
<1>12. QED
  BY <1>2, <1>3, <1>5, <1>7, <1>9, <1>10, <1>11, StartKeeps DEF TypeInv

LEMMA SetManipulatedKeeps ==
    ASSUME IInv, SetManipulated
    PROVE  IInv'
<1> USE DEF IInv
<1> DEFINE changes == <<[flag |-> TRUE]>>
<1>1. /\ changes \in Seq(Change) /\ changes # <<>> /\ DOMAIN changes = {1}
      /\ DOMAIN changes[1] = {"flag"} /\ changes[1]["flag"] = TRUE
  BY DEF Change
<1>2. /\ Idle("poll") /\ Start("poll", changes, FALSE) /\ "poll" \in Threads
      /\ stage # "load" /\ mem' = [mem EXCEPT !.flag = TRUE]
      /\ UNCHANGED <<file, stage, mishap, renewed, counted, ops, faults>>
  BY DEF SetManipulated, Threads, bounds
<1> HIDE DEF changes
<1>3. /\ job'["poll"].pc = "read" /\ job'["poll"].todo = changes /\ ~job'["poll"].holds
      /\ \A u \in Threads \ {"poll"} : job'[u] = job[u]
      /\ job["poll"].todo = <<>> /\ ~job["poll"].holds /\ Saved' = Saved
  BY <1>1, <1>2, StartFacts
<1>4. mem' \in MemType
  BY <1>2 DEF TypeInv, MemType
<1>5. /\ mem'.status = mem.status /\ mem'.list = mem.list /\ mem'.unit = mem.unit
      /\ mem'.accepted = mem.accepted /\ mem'.strays = mem.strays
      /\ mem'.enabled = mem.enabled /\ mem'.flag = TRUE
  BY <1>2 DEF TypeInv, MemType
<1>6. Pending \subseteq Pending' /\ "flag" \in Pending' /\ ("notes" \in Pending' => "notes" \in Pending)
  BY <1>1, <1>2, <1>3, StartPending DEF Entries
<1>7. \A e \in Entries : Belief'[e] = Belief[e] \/ e = "flag"
  BY <1>5 DEF Belief, Entries
<1>8. OwnedInv'
  <2>1. ASSUME NEW i \in DOMAIN changes PROVE OwnedBy("poll", job["poll"].todo[i])'
    <3>1. Belief'["flag"] = mem'.flag
      BY DEF Belief
    <3>2. changes[i]["flag"] = Belief'["flag"]
      BY <1>1, <1>5, <3>1
    <3>3. QED
      BY <1>1, <1>2, <1>3, <3>2 DEF OwnedBy, Entries
  <2>2. \A i \in DOMAIN job'["queue"].todo : OwnedBy("queue", job["queue"].todo[i])'
    BY <1>2, <1>3, <1>7, OtherOwns DEF Threads
  <2>3. QED
    BY <1>3, <2>1, <2>2 DEF OwnedInv, Threads
<1>9. KeptInv'
  <2>1. InFlight' = InFlight /\ job'["queue"] = job["queue"]
    BY <1>3 DEF InFlight, Threads
  <2>2. Depositing' <=> Depositing
    BY <1>2, <1>6 DEF Depositing
  <2>3. QED
    BY <1>2, <1>3, <1>5, <2>1, <2>2 DEF KeptInv
<1>10. \A e \in Entries \ Pending' : Belief'[e] = Belief[e]
  BY <1>6, <1>7
<1>11. QED
  BY <1>1, <1>2, <1>4, <1>6, <1>8, <1>9, <1>10, StartKeeps DEF TypeInv

-----------------------------------------------------------------------------
(* Steps that leave the jobs alone. *)

LEMMA QuietKeeps ==
    ASSUME IInv, ClearAccepted \/ ResetClear
    PROVE  IInv'
<1> USE DEF IInv
<1>1. /\ UNCHANGED <<file, job, mishap, renewed, counted, faults>>
      /\ Idle("queue") /\ mem' = [mem EXCEPT !.accepted = 0]
      /\ \/ stage = "deposited" /\ stage' = "closing"
         \/ stage = "ready" /\ stage' \in {"ready", "reset"}
      /\ (ops < MaxOps /\ ops' = ops + 1) \/ ops' = ops
  BY DEF ClearAccepted, ResetClear, Command, bounds
<1>2. /\ mem' \in MemType /\ mem'.status = mem.status /\ mem'.list = mem.list /\ mem'.unit = mem.unit
      /\ mem'.accepted = 0 /\ mem'.strays = mem.strays
      /\ mem'.enabled = mem.enabled /\ mem'.flag = mem.flag
  BY <1>1 DEF TypeInv, MemType
<1>3. Belief' = Belief /\ Saved' = Saved /\ FileFree' = FileFree /\ InFlight' = InFlight
  BY <1>1, <1>2 DEF Belief, Saved, Loaded, FileFree, InFlight
<1>4. Pending' = Pending /\ "notes" \notin Pending /\ Unread = {}
  <2>1. Pending' = Pending
    BY <1>1 DEF Pending
  <2>2. QED
    BY <1>1, <2>1, NotesPending DEF Idle, Unread
<1>5. TypeInv' /\ MutexInv' /\ TornInv'
  <2>1. ops' \in 0..MaxOps /\ stage' \in Stages
    BY <1>1, BoundTypes, CountType DEF TypeInv, Stages
  <2>2. QED
    BY <1>1, <1>2, <1>3, <2>1 DEF TypeInv, MutexInv, OneWriter, TornInv
<1>6. OwnedInv'
  <2> SUFFICES ASSUME NEW t \in Threads, NEW i \in DOMAIN job[t].todo
               PROVE  OwnedBy(t, job[t].todo[i])'
    BY <1>1 DEF OwnedInv
  <2>1. job["queue"].todo = <<>>
    BY <1>1 DEF TypeInv, Idle, Threads
  <2>2. t = "poll"
    BY <2>1 DEF Threads
  <2>3. OwnedBy(t, job[t].todo[i])
    BY DEF OwnedInv
  <2>4. QED
    BY <1>1, <1>3, <2>2, <2>3 DEF OwnedBy
<1>7. RecordedInv'
  BY <1>1, <1>2, <1>3, <1>4 DEF RecordedInv
<1>8. KeptInv'
  <2>1. ~Depositing /\ ~Depositing'
    BY <1>4 DEF Depositing
  <2>2. mem.list \in Nat
    BY DEF TypeInv, MemType
  <2>3. QED
    BY <1>1, <1>2, <1>3, <2>1, <2>2 DEF KeptInv
<1>9. ShapeInv'
  BY <1>1 DEF ShapeInv
<1>10. QED
  BY <1>5, <1>6, <1>7, <1>8, <1>9

(* The start reads on, from a file that says "Unknown" by now.             *)
LEMMA StartedKeeps ==
    ASSUME IInv, Started
    PROVE  /\ IInv' /\ Saved' = Saved
           /\ mem'.status = mem.status /\ mem'.list = Saved.list /\ mem'.unit = Saved.notes
<1> USE DEF IInv
<1>1. /\ stage = "load" /\ stage' = "ready" /\ Idle("queue") /\ ReadFile
      /\ mem' = [mem EXCEPT !.list = Loaded.list, !.accepted = Loaded.list, !.unit = Loaded.notes]
      /\ UNCHANGED <<job, mishap, counted, ops, faults>>
  BY DEF Started, bounds
<1>2. /\ FileFree /\ file' = [whole |-> TRUE, data |-> Loaded] /\ Loaded' = Loaded /\ file'.whole
      /\ renewed' = (renewed \/ ~file.whole)
  BY <1>1, ReadFileFacts DEF ReadFile
<1>3. FileFree' /\ Saved = Loaded /\ Saved' = Loaded
  <2>1. FileFree'
    BY <1>1, <1>2 DEF FileFree
  <2>2. QED
    BY <1>2, <2>1, SavedFacts, SavedFactsNext
<1>4. Loaded.list \in Nat /\ Loaded.notes \in Nat /\ Loaded \in Content
  BY LoadedType DEF Content
<1>5. /\ mem' \in MemType /\ mem'.status = mem.status /\ mem'.list = Loaded.list
      /\ mem'.accepted = Loaded.list /\ mem'.unit = Loaded.notes
      /\ mem'.strays = mem.strays /\ mem'.enabled = mem.enabled /\ mem'.flag = mem.flag
  BY <1>1, <1>4 DEF TypeInv, MemType
<1>6. mem.status = "Unknown" /\ mem.strays = 0 /\ \A t \in Threads : ~job[t].holds
  BY <1>1 DEF KeptInv
<1>7. /\ Pending' = Pending /\ Unread' = {} /\ Unread = {"list", "notes"}
      /\ \A e \in Entries \ {"list", "notes"} : Belief'[e] = Belief[e]
  BY <1>1, <1>5 DEF Pending, Unread, Belief, Entries
<1>8. TypeInv'
  <2>1. file' \in [whole : BOOLEAN, data : Content] /\ renewed' \in BOOLEAN
    BY <1>2, <1>4 DEF TypeInv
  <2>2. QED
    BY <1>1, <1>5, <2>1 DEF TypeInv, Stages
<1>9. MutexInv' /\ TornInv'
  BY <1>1, <1>2, <1>3 DEF MutexInv, OneWriter, TornInv
<1>10. OwnedInv'
  <2> SUFFICES ASSUME NEW t \in Threads, NEW i \in DOMAIN job[t].todo
               PROVE  OwnedBy(t, job[t].todo[i])'
    BY <1>1 DEF OwnedInv
  <2>1. job["queue"].todo = <<>>
    BY <1>1 DEF TypeInv, Idle, Threads
  <2>2. t = "poll"
    BY <2>1 DEF Threads
  <2>3. OwnedBy(t, job[t].todo[i])
    BY DEF OwnedInv
  <2>4. \A e \in DOMAIN job[t].todo[i] : e = "flag"
    BY <1>6, <2>2, <2>3 DEF OwnedBy, Entries
  <2>5. QED
    BY <1>1, <1>7, <2>2, <2>3, <2>4 DEF OwnedBy, Entries
<1>11. RecordedInv'
  <2> SUFFICES ASSUME mishap = {}, NEW e \in Entries \ Pending
               PROVE  Saved'[e] = Belief'[e] \/ (e = "flag" /\ ~mem'.flag)
    BY <1>1, <1>7 DEF RecordedInv
  <2>1. CASE e = "list"
    BY <1>3, <1>5, <2>1 DEF Belief
  <2>2. CASE e = "notes"
    <3>1. Belief'["notes"] = Loaded.notes + 0
      BY <1>5, <1>6 DEF Belief
    <3>2. QED
      BY <1>3, <1>4, <2>2, <3>1
  <2>3. CASE e \notin {"list", "notes"}
    BY <1>3, <1>5, <1>7, <2>3 DEF RecordedInv
  <2>4. QED
    BY <2>1, <2>2, <2>3
<1>12. KeptInv'
  <2>1. InFlight' = 0 /\ ~Depositing'
    BY <1>1, <1>6 DEF InFlight, Depositing
  <2>2. mishap = {} => Saved.status # "Ok"
    BY <1>1, <1>6 DEF KeptInv, Threads
  <2>3. QED
    BY <1>1, <1>3, <1>4, <1>5, <2>1, <2>2 DEF KeptInv
<1>13. ShapeInv'
  BY <1>1 DEF ShapeInv
<1>14. QED
  BY <1>3, <1>5, <1>8, <1>9, <1>10, <1>11, <1>12, <1>13

-----------------------------------------------------------------------------
(* Reading and truncating: the jobs keep their changes. *)

LEMMA SameChangesKeep ==
    ASSUME IInv, job' \in [Threads -> JobType],
           \A u \in Threads : /\ job'[u].todo = job[u].todo /\ job'[u].holds = job[u].holds
                              /\ job'[u].pc = "idle" => job'[u] = NoJob
                              /\ job'[u].pc = "idle" <=> job[u].pc = "idle",
           UNCHANGED <<mem, stage, counted, ops, faults>>,
           mishap' = mishap \/ mishap' = mishap \cup {"overlap"},
           mishap' = {} => Saved' = Saved,
           file' \in [whole : BOOLEAN, data : Content], renewed' \in BOOLEAN,
           MutexInv', TornInv'
    PROVE  IInv'
<1> USE DEF IInv
<1>1. mishap' \subseteq {"overlap", "failure"} /\ (mishap' = {} => mishap = {})
  BY DEF TypeInv
<1>2. TypeInv'
  BY <1>1 DEF TypeInv
<1>3. /\ Pending' = Pending /\ Belief' = Belief /\ InFlight' = InFlight
      /\ Unread' = Unread /\ Depositing' = Depositing
  BY DEF Pending, Belief, InFlight, Unread, Depositing
<1>4. OwnedInv'
  <2> SUFFICES ASSUME NEW t \in Threads, NEW i \in DOMAIN job[t].todo
               PROVE  OwnedBy(t, job[t].todo[i])'
    BY DEF OwnedInv
  <2>1. OwnedBy(t, job[t].todo[i])
    BY DEF OwnedInv
  <2>2. QED
    BY <1>1, <1>3, <2>1 DEF OwnedBy
<1>5. RecordedInv'
  BY <1>1, <1>3 DEF RecordedInv
<1>6. ShapeInv'
  BY DEF ShapeInv
<1>7. KeptInv'
  BY <1>1, <1>3 DEF KeptInv, Threads
<1>8. QED
  BY <1>2, <1>4, <1>5, <1>6, <1>7

LEMMA ReadKeeps ==
    ASSUME IInv, NEW t \in Threads, Read(t)
    PROVE  IInv' /\ (mishap' = {} => Saved' = Saved)
<1> USE DEF IInv
<1>1. job[t].pc = "read" /\ ReadFile /\ UNCHANGED <<mem, stage, mishap, counted, ops, faults>>
  BY DEF Read, bounds
<1>2. FileFree /\ file' = [whole |-> TRUE, data |-> Loaded] /\ Loaded' = Loaded /\ file'.whole
  BY <1>1, ReadFileFacts
<1>3. job' = [job EXCEPT ![t] = [job[t] EXCEPT !.pc = "truncate", !.base = Loaded]]
  BY DEF Read, TypeInv, JobType
<1>4. /\ job' \in [Threads -> JobType]
      /\ job'[t].pc = "truncate" /\ job'[t].todo = job[t].todo /\ job'[t].holds = job[t].holds
      /\ \A u \in Threads \ {t} : job'[u] = job[u]
  <2> DEFINE new == [job[t] EXCEPT !.pc = "truncate", !.base = Loaded]
  <2>1. /\ new \in JobType /\ new.pc = "truncate" /\ new.todo = job[t].todo
        /\ new.holds = job[t].holds
    <3>1. job[t] \in JobType /\ Loaded \in Content
      BY LoadedType DEF TypeInv
    <3>2. QED
      BY <3>1 DEF JobType
  <2> HIDE DEF new
  <2>2. QED
    BY <1>3, <2>1 DEF TypeInv, new
<1>5. FileFree' /\ OneWriter'
  BY <1>2, <1>4 DEF FileFree, OneWriter
<1>6. Saved' = Saved
  BY <1>2, <1>5, SavedFacts, SavedFactsNext
<1>7. MutexInv'
  BY <1>4, <1>5 DEF MutexInv
<1>8. TornInv'
  BY <1>1, <1>2 DEF TornInv, ReadFile
<1>9. file' \in [whole : BOOLEAN, data : Content] /\ renewed' \in BOOLEAN
  BY <1>1, <1>2, LoadedType DEF ReadFile, TypeInv
<1>10. \A u \in Threads : /\ job'[u].todo = job[u].todo /\ job'[u].holds = job[u].holds
                          /\ job'[u].pc = "idle" => job'[u] = NoJob
                          /\ job'[u].pc = "idle" <=> job[u].pc = "idle"
  BY <1>1, <1>4 DEF TypeInv
<1>11. QED
  BY <1>1, <1>4, <1>6, <1>7, <1>8, <1>9, <1>10, SameChangesKeep

(* The file is emptied: without a mishap it is the content that was read. *)
LEMMA TruncateKeeps ==
    ASSUME IInv, NEW t \in Threads, Truncate(t)
    PROVE  IInv' /\ (mishap' = {} => Saved' = Saved)
<1> USE DEF IInv
<1>1. /\ job[t].pc = "truncate" /\ FileFree /\ file' = [whole |-> FALSE, data |-> Empty]
      /\ UNCHANGED <<mem, stage, renewed, counted, ops, faults>>
      /\ mishap' = mishap \/ mishap' = mishap \cup {"overlap"}
      /\ mishap' = {} => file = [whole |-> TRUE, data |-> job[t].base]
  BY DEF Truncate, bounds
<1>2. job' = [job EXCEPT ![t] = [job[t] EXCEPT !.pc = "write"]]
  BY DEF Truncate, TypeInv, JobType
<1>3. /\ job' \in [Threads -> JobType]
      /\ job'[t].pc = "write" /\ job'[t].todo = job[t].todo /\ job'[t].holds = job[t].holds
      /\ job'[t].base = job[t].base
      /\ \A u \in Threads \ {t} : job'[u] = job[u]
  <2> DEFINE new == [job[t] EXCEPT !.pc = "write"]
  <2>1. /\ new \in JobType /\ new.pc = "write" /\ new.todo = job[t].todo
        /\ new.holds = job[t].holds /\ new.base = job[t].base
    <3>1. job[t] \in JobType
      BY DEF TypeInv
    <3>2. QED
      BY <3>1 DEF JobType
  <2> HIDE DEF new
  <2>2. QED
    BY <1>2, <2>1 DEF TypeInv, new
<1>4. OneWriter' /\ ~FileFree'
  BY <1>1, <1>3 DEF FileFree, OneWriter
<1>5. ASSUME mishap' = {} PROVE Saved' = Saved
  <2>1. Saved' = job[t].base
    BY <1>3, <1>4, SavedFactsNext
  <2>2. Saved = Loaded /\ Loaded = job[t].base
    BY <1>1, <1>5, SavedFacts DEF Loaded
  <2>3. QED
    BY <2>1, <2>2
<1>6. MutexInv'
  BY <1>1, <1>3, <1>4 DEF MutexInv
<1>7. TornInv'
  BY <1>1, <1>4 DEF TornInv
<1>8. file' \in [whole : BOOLEAN, data : Content] /\ renewed' \in BOOLEAN
  BY <1>1, EmptyType DEF TypeInv
<1>9. \A u \in Threads : /\ job'[u].todo = job[u].todo /\ job'[u].holds = job[u].holds
                         /\ job'[u].pc = "idle" => job'[u] = NoJob
                         /\ job'[u].pc = "idle" <=> job[u].pc = "idle"
  BY <1>1, <1>3 DEF TypeInv
<1>10. QED
  BY <1>1, <1>3, <1>5, <1>6, <1>7, <1>8, <1>9, SameChangesKeep

-----------------------------------------------------------------------------
(* The end of a change. *)

LEMMA DoneFacts ==
    ASSUME IInv, NEW t \in Threads, job[t].pc # "idle", Done(t)
    PROVE  /\ job' \in [Threads -> JobType]
           /\ job[t].todo \in Seq(Change) /\ job[t].todo # <<>>
           /\ job'[t].todo = Tail(job[t].todo)
           /\ job'[t].pc \in {"idle", "read"}
           /\ job'[t].pc = "idle" <=> job'[t].todo = <<>>
           /\ job'[t].pc = "idle" => job'[t] = NoJob
           /\ job'[t].todo # <<>> => job'[t].holds = job[t].holds
           /\ \A u \in Threads \ {t} : job'[u] = job[u]
<1> USE DEF IInv
<1> DEFINE s == job[t].todo
<1>1. job[t] \in JobType /\ s \in Seq(Change) /\ s # <<>> /\ job \in [Threads -> JobType]
  BY DEF TypeInv, JobType
<1>2. Tail(s) \in Seq(Change)
  BY <1>1, TailFacts
<1>3. CASE Tail(s) = <<>>
  <2>1. job' = [job EXCEPT ![t] = NoJob]
    BY <1>3 DEF Done
  <2>2. QED
    BY <1>1, <1>3, <2>1, NoJobType
<1>4. CASE Tail(s) # <<>>
  <2> DEFINE new == [pc |-> "read", todo |-> Tail(s), base |-> Empty, holds |-> job[t].holds]
  <2>1. job' = [job EXCEPT ![t] = new]
    BY <1>4 DEF Done
  <2>2. new \in JobType /\ new.pc = "read" /\ new.todo = Tail(s) /\ new.holds = job[t].holds
    BY <1>1, <1>2, EmptyType DEF JobType
  <2> HIDE DEF new
  <2>3. QED
    BY <1>1, <1>2, <1>4, <2>1, <2>2
<1>5. QED
  BY <1>3, <1>4

(* What is left to write was there before, and in its place. *)
LEMMA DoneLeaves ==
    ASSUME IInv, NEW t \in Threads, job[t].pc # "idle", Done(t), UNCHANGED <<mem, stage>>,
           mishap' = {} => mishap = {}
    PROVE  /\ OwnedInv' /\ ShapeInv' /\ Pending' \subseteq Pending
           /\ Pending \subseteq Pending' \cup DOMAIN Head(job[t].todo)
           /\ t = "queue" => "notes" \notin Pending'
           /\ \A u \in Threads : job'[u].holds => job[u].holds
<1> USE DEF IInv
<1> DEFINE s == job[t].todo
<1>1. /\ s \in Seq(Change) /\ s # <<>> /\ job'[t].todo = Tail(s)
      /\ job'[t].pc = "idle" <=> job'[t].todo = <<>>
      /\ job'[t].pc = "idle" => job'[t] = NoJob
      /\ job'[t].todo # <<>> => job'[t].holds = job[t].holds
      /\ \A u \in Threads \ {t} : job'[u] = job[u]
  BY DoneFacts
<1>2. /\ 1 \in DOMAIN s /\ Head(s) = s[1] /\ Tail(s) \in Seq(Change)
      /\ \A i \in DOMAIN s : i = 1 \/ (i - 1 \in DOMAIN Tail(s) /\ Tail(s)[i - 1] = s[i])
      /\ \A i \in DOMAIN Tail(s) : i + 1 \in DOMAIN s /\ Tail(s)[i] = s[i + 1]
  BY <1>1, TailFacts
<1>3. \A u \in Threads : \A i \in DOMAIN job'[u].todo :
          \E j \in DOMAIN job[u].todo : job'[u].todo[i] = job[u].todo[j]
  <2> SUFFICES ASSUME NEW u \in Threads, NEW i \in DOMAIN job'[u].todo
               PROVE  \E j \in DOMAIN job[u].todo : job'[u].todo[i] = job[u].todo[j]
    OBVIOUS
  <2>1. CASE u = t
    <3>1. i \in DOMAIN Tail(s) /\ job'[u].todo[i] = Tail(s)[i]
      BY <1>1, <2>1
    <3>2. i + 1 \in DOMAIN s /\ Tail(s)[i] = s[i + 1]
      BY <1>2, <3>1
    <3>3. QED
      BY <2>1, <3>1, <3>2
  <2>2. CASE u # t
    BY <1>1, <2>2
  <2>3. QED
    BY <2>1, <2>2
<1>4. \A u \in Threads : job'[u].holds => job[u].holds
  BY <1>1, NoJobType
<1>5. \A u \in Threads : job'[u].todo # <<>> => job'[u].holds = job[u].holds
  BY <1>1
<1>6. OwnedInv'
  <2> SUFFICES ASSUME NEW u \in Threads, NEW i \in DOMAIN job'[u].todo
               PROVE  OwnedBy(u, job[u].todo[i])'
    BY DEF OwnedInv
  <2>1. PICK j \in DOMAIN job[u].todo : job'[u].todo[i] = job[u].todo[j]
    BY <1>3
  <2>2. OwnedBy(u, job[u].todo[j])
    BY DEF OwnedInv
  <2>3. job'[u].holds = job[u].holds
    <3>1. job'[u].todo # <<>>
      OBVIOUS
    <3>2. QED
      BY <1>5, <3>1
  <2>4. Belief' = Belief
    BY DEF Belief
  <2>5. QED
    BY <2>1, <2>2, <2>3, <2>4 DEF OwnedBy
<1>7. Pending' \subseteq Pending
  BY <1>3 DEF Pending
<1>8. Pending \subseteq Pending' \cup DOMAIN Head(s)
  <2> SUFFICES ASSUME NEW e \in Pending, e \notin DOMAIN Head(s) PROVE e \in Pending'
    OBVIOUS
  <2>1. CASE stage \in {"deposited", "closing"} /\ e \in {"status", "list"}
    BY <2>1 DEF Pending
  <2>2. CASE \E u \in Threads : \E i \in DOMAIN job[u].todo : e \in DOMAIN job[u].todo[i]
    <3>1. PICK u \in Threads : \E i \in DOMAIN job[u].todo : e \in DOMAIN job[u].todo[i]
      BY <2>2
    <3>2. PICK i \in DOMAIN job[u].todo : e \in DOMAIN job[u].todo[i]
      BY <3>1
    <3>3. CASE u # t
      BY <1>1, <3>2, <3>3 DEF Pending
    <3>4. CASE u = t
      <4>1. i # 1
        BY <1>2, <3>2, <3>4
      <4>2. i - 1 \in DOMAIN job'[t].todo /\ job'[t].todo[i - 1] = job[t].todo[i]
        BY <1>1, <1>2, <3>2, <3>4, <4>1
      <4>3. QED
        BY <3>2, <3>4, <4>2 DEF Pending
    <3>5. QED
      BY <3>3, <3>4
  <2>3. QED
    BY <2>1, <2>2 DEF Pending
<1>9. \A i \in DOMAIN job'[t].todo : "notes" \notin DOMAIN job'[t].todo[i]
  <2> SUFFICES ASSUME NEW i \in DOMAIN Tail(s), "notes" \in DOMAIN Tail(s)[i] PROVE FALSE
    BY <1>1
  <2>1. i + 1 \in DOMAIN s /\ "notes" \in DOMAIN s[i + 1] /\ i \in Nat \ {0}
    BY <1>2
  <2>2. i + 1 = 1
    BY <2>1 DEF ShapeInv
  <2>3. QED
    BY <2>1, <2>2
<1>10. t = "queue" => "notes" \notin Pending'
  <2> SUFFICES ASSUME t = "queue", "notes" \in Pending' PROVE FALSE
    OBVIOUS
  <2>1. PICK u \in Threads : \E i \in DOMAIN job'[u].todo : "notes" \in DOMAIN job'[u].todo[i]
    BY DEF Pending
  <2>2. u = "queue"
    BY <1>6, <2>1 DEF OwnedInv, OwnedBy
  <2>3. QED
    BY <1>9, <2>1, <2>2
<1>11. ShapeInv'
  <2>1. ASSUME NEW u \in Threads \ {t}
        PROVE  /\ \A i \in DOMAIN job'[u].todo : "notes" \in DOMAIN job'[u].todo[i] => i = 1
               /\ job'[u].holds => /\ job'[u].todo # <<>>
                                   /\ "list" \in DOMAIN job'[u].todo[Len(job'[u].todo)]
    BY <1>1 DEF ShapeInv
  <2>2. ASSUME job'[t].holds
        PROVE  /\ job'[t].todo # <<>>
               /\ "list" \in DOMAIN job'[t].todo[Len(job'[t].todo)]
    <3>1. Tail(s) # <<>>
      BY <1>1, <2>2, NoJobType
    <3>2. Len(Tail(s)) \in Nat \ {0} /\ Len(Tail(s)) = Len(s) - 1 /\ Len(s) \in Nat
      BY <1>1, <1>2, <3>1, HeadTailProperties, EmptySeq, LenProperties, Zenon
    <3>3. Len(Tail(s)) \in DOMAIN Tail(s)
      <4>1. DOMAIN Tail(s) = 1..Len(Tail(s))
        BY <1>2
      <4>2. \A n \in Nat \ {0} : n \in 1..n
        OBVIOUS
      <4>3. QED
        BY <3>2, <4>1, <4>2, Zenon
    <3>4. Tail(s)[Len(Tail(s))] = s[Len(s)]
      BY <1>2, <3>2, <3>3
    <3>5. "list" \in DOMAIN s[Len(s)]
      BY <1>4, <2>2 DEF ShapeInv
    <3>6. QED
      BY <1>1, <3>1, <3>4, <3>5
  <2>3. QED
    BY <1>9, <2>1, <2>2 DEF ShapeInv
<1>12. QED
  BY <1>4, <1>6, <1>7, <1>8, <1>10, <1>11

LEMMA WriteKeeps ==
    ASSUME IInv, NEW t \in Threads, Write(t)
    PROVE  IInv'
<1> USE DEF IInv
<1> DEFINE head == Head(job[t].todo)
<1>1. /\ job[t].pc = "write" /\ Done(t)
      /\ file' = [whole |-> TRUE, data |-> Changed(job[t].base, head)]
      /\ UNCHANGED <<mem, stage, mishap, renewed, counted, ops, faults>>
  BY DEF Write, bounds
<1>2. /\ job' \in [Threads -> JobType]
      /\ job[t].todo \in Seq(Change) /\ job[t].todo # <<>>
      /\ job'[t].todo = Tail(job[t].todo)
      /\ job'[t].pc \in {"idle", "read"}
      /\ job'[t].pc = "idle" <=> job'[t].todo = <<>>
      /\ job'[t].pc = "idle" => job'[t] = NoJob
      /\ job'[t].todo # <<>> => job'[t].holds = job[t].holds
      /\ \A u \in Threads \ {t} : job'[u] = job[u]
  BY <1>1, DoneFacts
<1>3. /\ OwnedInv' /\ ShapeInv' /\ Pending' \subseteq Pending
      /\ Pending \subseteq Pending' \cup DOMAIN head
      /\ t = "queue" => "notes" \notin Pending'
      /\ \A u \in Threads : job'[u].holds => job[u].holds
  BY <1>1, DoneLeaves
<1>4. head \in Change /\ 1 \in DOMAIN job[t].todo /\ head = job[t].todo[1]
  BY <1>2, TailFacts
<1>5. OwnedBy(t, head)
  BY <1>4 DEF OwnedInv
<1>6. job[t].base \in Content
  BY DEF TypeInv, JobType
<1> HIDE DEF head
<1>7. /\ Changed(job[t].base, head) \in Content
      /\ \A e \in Entries : Changed(job[t].base, head)[e] =
             IF e \in DOMAIN head THEN head[e] ELSE job[t].base[e]
  BY <1>4, <1>6, ChangedType
<1>8. FileFree' /\ OneWriter'
  BY <1>1, <1>2 DEF MutexInv, OneWriter, FileFree
<1>9. Saved' = Changed(job[t].base, head) /\ Saved = job[t].base
  BY <1>1, <1>8, SavedFacts, SavedFactsNext DEF Loaded, MutexInv
<1>10. \A e \in Entries : Saved'[e] = IF e \in DOMAIN head THEN head[e] ELSE Saved[e]
  BY <1>7, <1>9
<1>11. TypeInv'
  <2>1. file' \in [whole : BOOLEAN, data : Content]
    BY <1>1, <1>7
  <2>2. \A u \in Threads : /\ job'[u].pc = "idle" <=> job'[u].todo = <<>>
                           /\ job'[u].pc = "idle" => job'[u] = NoJob
    BY <1>2 DEF TypeInv
  <2>3. QED
    BY <1>1, <1>2, <2>1, <2>2 DEF TypeInv
<1>12. MutexInv' /\ TornInv'
  BY <1>1, <1>3, <1>8 DEF MutexInv, TornInv
<1>13. RecordedInv'
  <2> SUFFICES ASSUME mishap = {}, NEW e \in Entries \ (Pending' \cup Unread)
               PROVE  Saved'[e] = Belief[e] \/ (e = "flag" /\ ~mem.flag)
    BY <1>1 DEF RecordedInv, Belief, Unread
  <2>1. CASE e \in DOMAIN head
    <3>1. \/ head[e] = Belief[e]
          \/ e \in {"status", "list"} /\ stage = "deposited"
      BY <1>5, <2>1 DEF OwnedBy
    <3>2. ~(e \in {"status", "list"} /\ stage = "deposited")
      BY <1>1 DEF Pending
    <3>3. QED
      BY <1>10, <2>1, <3>1, <3>2
  <2>2. CASE e \notin DOMAIN head
    BY <1>3, <1>10, <2>2 DEF RecordedInv
  <2>3. QED
    BY <2>1, <2>2
<1>14. KeptInv'
  <2>1. "notes" \in Pending' => "notes" \in Pending /\ t = "poll"
    BY <1>3 DEF Threads
  <2>2. ASSUME mishap = {}, stage # "load"
        PROVE  mem.unit <= Saved'.notes + (IF Depositing' THEN mem.list ELSE 0)
    <3>1. mem.unit \in Nat /\ mem.strays \in Nat /\ mem.list \in Nat
      BY DEF TypeInv, MemType
    <3>2. CASE "notes" \in DOMAIN head
      <4>1. head["notes"] = mem.unit + mem.strays
        BY <1>5, <2>2, <3>2 DEF OwnedBy, Belief
      <4>2. Saved'["notes"] = head["notes"]
        BY <1>10, <3>2 DEF Entries
      <4>3. QED
        BY <3>1, <4>1, <4>2
    <3>3. CASE "notes" \notin DOMAIN head
      <4>1. Saved'["notes"] = Saved["notes"]
        BY <1>10, <3>3 DEF Entries
      <4>2. Depositing' <=> Depositing
        BY <1>1, <1>3, <3>3 DEF Depositing
      <4>3. QED
        BY <2>2, <4>1, <4>2 DEF KeptInv
    <3>4. QED
      BY <3>2, <3>3
  <2>3. ASSUME mishap = {}, mem.status # "Ok", stage \notin {"deposited", "closing"} \/ Depositing'
        PROVE  /\ mem.list <= Saved'.list + InFlight'
               /\ Saved'.status = "Ok" => job'["queue"].holds /\ mem.list = 0
    <3>1. /\ mem.list <= Saved.list + InFlight
          /\ Saved.status = "Ok" => job["queue"].holds /\ mem.list = 0
      BY <1>1, <2>1, <2>3 DEF KeptInv, Depositing
    <3>2. t = "queue" => stage # "deposited"
      BY <1>1, <2>1, <2>3 DEF Depositing, Threads
    <3>3. /\ "list" \in DOMAIN head => Saved'.list = mem.list
          /\ "list" \notin DOMAIN head => Saved'.list = Saved.list
          /\ "status" \in DOMAIN head => Saved'.status = mem.status
          /\ "status" \notin DOMAIN head => Saved'.status = Saved.status
      BY <1>5, <1>10, <2>3, <3>2 DEF OwnedBy, Belief, Entries
    <3>4. Saved.list \in Nat /\ mem.list \in Nat /\ InFlight \in {0, 1} /\ InFlight' \in {0, 1}
      BY SavedType DEF InFlight, Content, TypeInv, MemType
    <3>5. "list" \notin DOMAIN head => InFlight' = InFlight
      <4> SUFFICES ASSUME "list" \notin DOMAIN head, NEW u \in Threads, job[u].holds PROVE job'[u].holds
        BY <1>3 DEF InFlight
      <4>1. CASE u = t
        <5>1. Len(job[t].todo) # 1
          BY <1>4, <4>1 DEF ShapeInv
        <5>2. Tail(job[t].todo) # <<>>
          BY <1>2, <5>1, TailFacts
        <5>3. QED
          BY <1>2, <4>1, <5>2
      <4>2. CASE u # t
        BY <1>2, <4>2
      <4>3. QED
        BY <4>1, <4>2
    <3>6. mem.list <= Saved'.list + InFlight'
      BY <3>1, <3>3, <3>4, <3>5
    <3>7. ASSUME Saved'.status = "Ok" PROVE job'["queue"].holds /\ mem.list = 0
      <4>1. Saved.status = "Ok" /\ "status" \notin DOMAIN head
        BY <2>3, <3>3, <3>7
      <4>2. job["queue"].holds /\ mem.list = 0
        BY <3>1, <4>1
      <4>3. "status" \in Pending'
        BY <1>13, <1>1, <2>3, <3>7 DEF RecordedInv, Belief, Entries, Unread
      <4>4. stage \notin {"deposited", "closing"}
        BY <1>1, <2>1, <2>3, <4>2, NotesPending DEF Depositing
      <4>5. PICK u \in Threads : \E i \in DOMAIN job'[u].todo : "status" \in DOMAIN job'[u].todo[i]
        BY <1>1, <4>3, <4>4 DEF Pending
      <4>6. job'[u].holds \/ (u = "queue" /\ stage = "load")
        BY <1>1, <1>3, <4>4, <4>5 DEF OwnedInv, OwnedBy
      <4>7. CASE job'[u].holds
        BY <1>3, <4>2, <4>7 DEF MutexInv, Threads
      <4>8. CASE u = "queue"
        <5>1. job'["queue"].todo # <<>>
          BY <4>5, <4>8
        <5>2. job'["queue"].holds = job["queue"].holds
          BY <1>2, <5>1 DEF Threads
        <5>3. QED
          BY <4>2, <5>2
      <4>9. QED
        BY <4>2, <4>6, <4>7, <4>8
    <3>8. QED
      BY <3>6, <3>7
  <2>4. QED
    BY <1>1, <1>3, <2>1, <2>2, <2>3 DEF KeptInv, Depositing
<1>15. QED
  BY <1>3, <1>11, <1>12, <1>13, <1>14

(* A write that fails is a mishap, and may leave the file torn. *)
LEMMA WriteFailsKeeps ==
    ASSUME IInv, NEW t \in Threads, WriteFails(t)
    PROVE  IInv'
<1> USE DEF IInv
<1>1. /\ job[t].pc \in {"truncate", "write"} /\ Done(t)
      /\ mishap' = mishap \cup {"failure"} /\ faults < MaxFaults /\ faults' = faults + 1
      /\ UNCHANGED <<file, mem, stage, renewed, counted, ops>>
  BY DEF WriteFails, Fault
<1>2. /\ job' \in [Threads -> JobType]
      /\ job'[t].pc \in {"idle", "read"}
      /\ job'[t].pc = "idle" <=> job'[t].todo = <<>>
      /\ job'[t].pc = "idle" => job'[t] = NoJob
      /\ \A u \in Threads \ {t} : job'[u] = job[u]
  BY <1>1, DoneFacts
<1>3. mishap' # {} /\ mishap' \subseteq {"overlap", "failure"}
  BY <1>1 DEF TypeInv
<1>4. /\ OwnedInv' /\ ShapeInv' /\ Pending' \subseteq Pending
      /\ \A u \in Threads : job'[u].holds => job[u].holds
  BY <1>1, <1>3, DoneLeaves
<1>5. faults' \in 0..MaxFaults /\ faults' > 0
  BY <1>1, BoundTypes, CountType DEF TypeInv
<1>6. TypeInv'
  BY <1>1, <1>2, <1>3, <1>5 DEF TypeInv
<1>7. MutexInv'
  <2>1. OneWriter'
    BY <1>2 DEF MutexInv, OneWriter
  <2>2. FileFree => FileFree'
    BY <1>2 DEF FileFree
  <2>3. QED
    BY <1>1, <1>4, <2>1, <2>2 DEF MutexInv
<1>8. TornInv' /\ RecordedInv'
  BY <1>3, <1>5 DEF TornInv, RecordedInv
<1>9. KeptInv'
  BY <1>1, <1>3, <1>4 DEF KeptInv, Depositing
<1>10. QED
  BY <1>4, <1>6, <1>7, <1>8, <1>9

-----------------------------------------------------------------------------

(* After a crash the service believes what the file says, except that it   *)
(* does not know what became of an open transaction.                       *)
LEMMA CrashKeeps ==
    ASSUME IInv, Crash
    PROVE  IInv' /\ Saved' = Loaded
<1> USE DEF IInv
<1> DEFINE last == <<[status |-> "Unknown"]>>
           load == [NoJob EXCEPT !.pc = "read", !.todo = last]
           found == IF Loaded.status = "Active" THEN Empty ELSE Loaded
<1>1. /\ file' = [whole |-> TRUE, data |-> Loaded] /\ mishap' = {}
      /\ mem'.status = (IF Loaded.status = "Active" THEN "Unknown" ELSE Loaded.status)
      /\ mem'.list = found.list /\ mem'.accepted = found.list /\ mem'.unit = found.notes
      /\ mem'.strays = 0 /\ mem'.enabled = Loaded.enabled /\ mem'.flag = FALSE
      /\ UNCHANGED <<counted, ops>> /\ faults < MaxFaults /\ faults' = faults + 1
      /\ renewed' = (renewed \/ ~file.whole)
      /\ job'["poll"] = NoJob
      /\ job'["queue"] = IF Loaded.status = "Active" THEN load ELSE NoJob
      /\ stage' = IF Loaded.status = "Active" THEN "load" ELSE "ready"
      /\ DOMAIN job' = Threads
  BY DEF Crash, Fault, Threads
<1>2. /\ Loaded \in Content /\ Loaded' = Loaded
      /\ Loaded.status \in Statuses /\ Loaded.list \in Nat /\ Loaded.notes \in Nat
      /\ Loaded.enabled \in SUBSET NoteTypes
      /\ found.list \in Nat /\ found.notes \in Nat /\ found.list <= Loaded.list
      /\ Loaded.status # "Active" => found = Loaded
  BY <1>1, LoadedType DEF Loaded, Content, Empty
<1> HIDE DEF found
<1>3. last \in Seq(Change) /\ last # <<>> /\ DOMAIN last = {1} /\ DOMAIN last[1] = {"status"}
      /\ last[1]["status"] = "Unknown"
  BY DEF Change, Statuses
<1> HIDE DEF last
<1>4. load \in JobType /\ load.pc = "read" /\ load.todo = last /\ ~load.holds
  BY <1>3, EmptyType DEF NoJob, JobType
<1> HIDE DEF load
<1>5. faults' \in 0..MaxFaults /\ faults' > 0
  BY <1>1, BoundTypes, CountType DEF TypeInv
<1>6. mem' \in MemType
  <2> DEFINE status == IF Loaded.status = "Active" THEN "Unknown" ELSE Loaded.status
  <2>1. mem' = [status |-> status, list |-> found.list, accepted |-> found.list,
                unit |-> found.notes, strays |-> 0,
                enabled |-> Loaded.enabled, types |-> Loaded.enabled, flag |-> FALSE]
    BY DEF Crash, found
  <2>2. status \in Statuses
    BY <1>2 DEF Statuses
  <2> HIDE DEF status
  <2>3. QED
    BY <1>2, <2>1, <2>2 DEF MemType
<1>7. \A t \in Threads : /\ job'[t] \in JobType /\ job'[t].pc \in {"idle", "read"} /\ ~job'[t].holds
                         /\ job'[t].pc = "idle" <=> job'[t].todo = <<>>
                         /\ job'[t].pc = "idle" => job'[t] = NoJob
                         /\ job'[t].todo # <<>> =>
                              /\ t = "queue" /\ job'[t].todo = last /\ Loaded.status = "Active"
  BY <1>1, <1>3, <1>4, NoJobType DEF Threads
<1>8. TypeInv'
  <2>1. job' \in [Threads -> JobType]
    <3>1. job' = [t \in Threads |-> job'[t]]
      BY DEF Crash
    <3>2. QED
      BY <1>7, <3>1
  <2>2. file' \in [whole : BOOLEAN, data : Content] /\ renewed' \in BOOLEAN
    BY <1>1, <1>2
  <2>3. QED
    BY <1>1, <1>5, <1>6, <1>7, <2>1, <2>2 DEF TypeInv, Stages
<1>9. FileFree' /\ MutexInv' /\ Saved' = Loaded
  <2>1. FileFree'
    BY <1>7 DEF FileFree
  <2>2. MutexInv'
    BY <1>7, <2>1 DEF MutexInv, OneWriter
  <2>3. QED
    BY <1>2, <2>1, <2>2, SavedFactsNext
<1>10. TornInv'
  BY <1>5 DEF TornInv
<1>11. Pending' \subseteq {"status"} /\ (Loaded.status = "Active" => "status" \in Pending')
  <2>1. stage' \notin {"deposited", "closing"}
    BY <1>1
  <2>2. \A t \in Threads : \A i \in DOMAIN job'[t].todo : DOMAIN job'[t].todo[i] = {"status"}
    BY <1>3, <1>7
  <2>3. Pending' \subseteq {"status"}
    BY <2>1, <2>2 DEF Pending
  <2>4. ASSUME Loaded.status = "Active" PROVE "status" \in Pending'
    <3>1. job'["queue"].todo = last
      BY <1>1, <1>4, <2>4
    <3>2. QED
      BY <1>3, <3>1 DEF Pending, Threads, Entries
  <2>5. QED
    BY <2>3, <2>4
<1>12. OwnedInv'
  <2> SUFFICES ASSUME NEW t \in Threads, NEW i \in DOMAIN job'[t].todo
               PROVE  OwnedBy(t, job[t].todo[i])'
    BY DEF OwnedInv
  <2>1. t = "queue" /\ job'[t].todo = last /\ Loaded.status = "Active"
    <3>1. job'[t].todo # <<>>
      OBVIOUS
    <3>2. QED
      BY <1>7, <3>1
  <2>2. stage' = "load" /\ Belief'["status"] = "Unknown"
    BY <1>1, <2>1 DEF Belief
  <2>3. QED
    BY <1>3, <2>1, <2>2 DEF OwnedBy, Entries
<1>13. RecordedInv'
  <2> SUFFICES ASSUME NEW e \in Entries \ (Pending' \cup Unread')
               PROVE  Saved'[e] = Belief'[e] \/ (e = "flag" /\ ~mem'.flag)
    BY DEF RecordedInv
  <2>1. CASE e \in {"enabled", "flag"}
    BY <1>1, <1>9, <2>1 DEF Belief
  <2>2. CASE e \notin {"enabled", "flag"}
    <3>1. Loaded.status # "Active" /\ found = Loaded
      BY <1>1, <1>2, <1>11, <2>2 DEF Unread, Entries
    <3>2. Belief'["notes"] = Loaded.notes + 0
      BY <1>1, <3>1 DEF Belief
    <3>3. QED
      BY <1>1, <1>2, <1>9, <2>2, <3>1, <3>2 DEF Belief, Entries
  <2>3. QED
    BY <2>1, <2>2
<1>14. ShapeInv'
  BY <1>3, <1>7 DEF ShapeInv
<1>15. KeptInv'
  <2>1. InFlight' = 0 /\ ~Depositing'
    BY <1>1, <1>7 DEF InFlight, Depositing
  <2>2. mem'.status # "Ok" => Saved'.status # "Ok"
    BY <1>1, <1>9
  <2>3. stage' = "load" => mem'.status = "Unknown" /\ mem'.strays = 0
    BY <1>1
  <2>4. mem'.list <= Saved'.list + InFlight' /\ mem'.accepted <= mem'.list
    BY <1>1, <1>2, <1>9, <2>1
  <2>5. stage' # "load" => mem'.unit <= Saved'.notes
    BY <1>1, <1>2, <1>9
  <2>6. Saved'.notes \in Nat /\ mem'.unit \in Nat
    BY <1>1, <1>2, <1>9
  <2>7. QED
    BY <1>7, <2>1, <2>2, <2>3, <2>4, <2>5, <2>6 DEF KeptInv
<1>16. QED
  BY <1>8, <1>9, <1>10, <1>12, <1>13, <1>14, <1>15

LEMMA InitIInv == Init => IInv
<1> SUFFICES ASSUME Init PROVE IInv
  OBVIOUS
<1>1. /\ file = [whole |-> TRUE, data |-> Empty] /\ mishap = {} /\ renewed = FALSE
      /\ mem = [status |-> "Ok", list |-> 0, accepted |-> 0, unit |-> 0, strays |-> 0,
                enabled |-> {}, types |-> {}, flag |-> FALSE]
      /\ job = [t \in Threads |-> NoJob] /\ stage = "ready"
      /\ counted = 0 /\ ops = 0 /\ faults = 0
  BY DEF Init
<1>2. \A t \in Threads : job[t] = NoJob
  BY <1>1
<1>3. TypeInv
  <2>1. file \in [whole : BOOLEAN, data : Content]
    BY <1>1, EmptyType
  <2>2. mem \in MemType
    BY <1>1 DEF MemType, Statuses
  <2>3. /\ job \in [Threads -> JobType]
        /\ \A t \in Threads : /\ job[t].pc = "idle" <=> job[t].todo = <<>>
                              /\ job[t].pc = "idle" => job[t] = NoJob
    BY <1>1, <1>2, NoJobType
  <2>4. counted \in 0..MaxNotes /\ ops \in 0..MaxOps /\ faults \in 0..MaxFaults
    BY <1>1, BoundTypes
  <2>5. QED
    BY <1>1, <2>1, <2>2, <2>3, <2>4 DEF TypeInv, Stages
<1>4. FileFree /\ MutexInv /\ TornInv
  BY <1>1, <1>2, NoJobType DEF FileFree, MutexInv, OneWriter, TornInv
<1>5. OwnedInv /\ ShapeInv /\ Pending = {}
  BY <1>1, <1>2, NoJobType DEF OwnedInv, ShapeInv, Pending
<1>6. Saved = Empty
  BY <1>1, <1>4, SavedFacts DEF Loaded
<1>7. RecordedInv
  BY <1>1, <1>6 DEF RecordedInv, Belief, Empty, Entries
<1>8. KeptInv
  BY <1>1, <1>5, <1>6 DEF KeptInv, Depositing, Empty
<1>9. QED
  BY <1>3, <1>4, <1>5, <1>7, <1>8 DEF IInv

LEMMA NextIInv == IInv /\ [Next]_vars => IInv'
<1> SUFFICES ASSUME IInv, [Next]_vars PROVE IInv'
  OBVIOUS
<1>1. ASSUME NEW t \in Threads, Read(t) \/ Truncate(t) \/ Write(t) \/ WriteFails(t) \/ AddNote(t)
      PROVE  IInv'
  BY <1>1, ReadKeeps, TruncateKeeps, WriteKeeps, WriteFailsKeeps, AddNoteKeeps
<1>2. CASE OpenTransaction \/ Deposit \/ ClearAccepted \/ CloseTransaction
  BY <1>2, OpenTransactionKeeps, DepositKeeps, QuietKeeps, CloseTransactionKeeps
<1>3. CASE \E on, off \in SUBSET NoteTypes : ConfigureNoteTypes(on, off)
  BY <1>3, ConfigureNoteTypesKeeps
<1>4. CASE ResetClear \/ ResetCount \/ ResetRecord \/ SetManipulated \/ Crash \/ Started
  BY <1>4, QuietKeeps, ResetCountKeeps, ResetRecordKeeps, SetManipulatedKeeps, CrashKeeps, StartedKeeps
<1>5. CASE UNCHANGED vars
  <2>1. UNCHANGED <<file, mem, job, stage, mishap, renewed, counted, ops, faults>>
    BY <1>5 DEF vars, bounds
  <2>2. /\ Pending' = Pending /\ Saved' = Saved /\ FileFree' = FileFree
        /\ Belief' = Belief /\ InFlight' = InFlight
        /\ Unread' = Unread /\ Depositing' = Depositing
    BY <2>1 DEF Pending, Saved, Loaded, FileFree, Belief, InFlight, Unread, Depositing
  <2>3. TypeInv' /\ MutexInv' /\ TornInv'
    BY <2>1, <2>2 DEF IInv, TypeInv, MutexInv, OneWriter, TornInv
  <2>4. OwnedInv' /\ RecordedInv' /\ ShapeInv' /\ KeptInv'
    BY <2>1, <2>2 DEF IInv, OwnedInv, OwnedBy, RecordedInv, ShapeInv, KeptInv
  <2>5. QED
    BY <2>3, <2>4 DEF IInv
<1>6. QED
  BY <1>1, <1>2, <1>3, <1>4, <1>5 DEF Next

(* Every thread writes its own entries, one file at a time, and what it    *)
(* writes is what the service believes.                                    *)
THEOREM PersistentInvariant == Spec => []IInv
<1>1. QED
  BY InitIInv, NextIInv, PTL DEF Spec

(* Types of the state; one thread at most has the file, one the escrow.    *)
THEOREM PersistentTypeOK == Spec => []TypeOK
<1>1. IInv => TypeOK
  <2> SUFFICES ASSUME IInv PROVE TypeOK
    OBVIOUS
  <2> DEFINE writers == {t \in Threads : job[t].pc = "write"}
             holders == {t \in Threads : job[t].holds}
  <2>1. Cardinality(writers) <= 1
    <3>1. writers \in SUBSET Threads /\ \A t, u \in writers : t = u
      BY DEF IInv, MutexInv, OneWriter
    <3>2. QED
      BY <3>1, AtMostOne
  <2>2. Cardinality(holders) <= 1
    <3>1. holders \in SUBSET Threads /\ \A t, u \in holders : t = u
      BY DEF IInv, MutexInv
    <3>2. QED
      BY <3>1, AtMostOne
  <2> HIDE DEF writers, holders
  <2>3. \A t \in Threads : job[t] \in JobType
    BY DEF IInv, TypeInv
  <2>4. QED
    BY <2>1, <2>2, <2>3 DEF IInv, TypeInv, TypeOK, JobType, MemType, Stages, writers, holders
<1>2. QED
  BY PersistentInvariant, <1>1, PTL

(* Reads and writes of the two threads exclude each other: only a failed   *)
(* write or a crash makes the file one that has to be replaced.            *)
THEOREM PersistentRenewedOnlyByFault == Spec => []RenewedOnlyByFault
<1>1. IInv => RenewedOnlyByFault
  BY DEF IInv, TornInv, RenewedOnlyByFault
<1>2. QED
  BY PersistentInvariant, <1>1, PTL

(* However the two threads' saves are interleaved, the file says what the  *)
(* service believes, unless a write failed or hid another.                 *)
THEOREM PersistentRecorded == Spec => []RecordedUnlessPending
<1>1. IInv => RecordedUnlessPending
  BY DEF IInv, RecordedInv, RecordedUnlessPending, Believed, Belief, Entries, Unread
<1>2. QED
  BY PersistentInvariant, <1>1, PTL

(* What the service answers for, while it starts and after it has. *)
LEMMA AnsweredFacts ==
    ASSUME IInv
    PROVE  /\ stage = "load" => Answered = Saved.notes + Saved.list
           /\ stage # "load" => Answered = mem.unit +
                (IF mem.status = "Ok" \/ stage \in {"deposited", "closing"} THEN 0 ELSE mem.list)
BY DEF Answered, IInv, KeptInv

LEMMA AnsweredFactsNext ==
    ASSUME IInv'
    PROVE  /\ stage' = "load" => Answered' = Saved'.notes + Saved'.list
           /\ stage' # "load" => Answered' = mem'.unit +
                (IF mem'.status = "Ok" \/ stage' \in {"deposited", "closing"} THEN 0 ELSE mem'.list)
BY DEF Answered, IInv, KeptInv

(* The number of threads that are saving a note. *)
LEMMA InFlightFacts ==
    ASSUME IInv
    PROVE  InFlight \in Nat /\ InFlight = Cardinality({t \in Threads : job[t].holds})
<1> DEFINE holders == {t \in Threads : job[t].holds}
<1> SUFFICES InFlight \in Nat /\ InFlight = Cardinality(holders)
  OBVIOUS
<1>1. CASE holders = {}
  <2>1. InFlight = 0
    BY <1>1 DEF InFlight
  <2> HIDE DEF holders
  <2>2. QED
    BY <1>1, <2>1, FS_EmptySet
<1>2. CASE holders # {}
  <2>1. PICK t \in holders : TRUE
    BY <1>2
  <2>2. holders = {t} /\ InFlight = 1
    BY <2>1 DEF IInv, MutexInv, InFlight
  <2> HIDE DEF holders
  <2>3. Cardinality({t}) = 1
    BY FS_Singleton
  <2>4. QED
    BY <2>2, <2>3
<1>3. QED
  BY <1>1, <1>2

(* The file knows as much as the service, up to the notes being saved. *)
LEMMA FileAnswers ==
    ASSUME IInv, mishap = {}
    PROVE  Saved.notes + (IF Saved.status = "Ok" THEN 0 ELSE Saved.list) + InFlight >= Answered
<1> USE DEF IInv
<1>1. /\ Saved.list \in Nat /\ Saved.notes \in Nat /\ InFlight \in Nat
      /\ mem.list \in Nat /\ mem.unit \in Nat
  BY SavedType, InFlightFacts DEF Content, TypeInv, MemType
<1>2. CASE stage = "load"
  <2>1. Saved.status # "Ok"
    BY <1>2 DEF KeptInv, Threads
  <2>2. QED
    BY <1>1, <1>2, <2>1, AnsweredFacts
<1>3. CASE Depositing
  <2>1. stage = "deposited" /\ ~job["queue"].holds /\ mem.status = "Active"
    BY <1>3, NotesPending DEF KeptInv, Depositing
  <2>2. /\ mem.unit <= Saved.notes + mem.list
        /\ mem.list <= Saved.list + InFlight /\ Saved.status # "Ok"
    BY <1>3, <2>1 DEF KeptInv
  <2>3. Answered = mem.unit
    BY <1>1, <2>1, AnsweredFacts
  <2>4. QED
    BY <1>1, <2>2, <2>3
<1>4. CASE stage # "load" /\ ~Depositing
  <2>1. mem.unit <= Saved.notes
    BY <1>1, <1>4 DEF KeptInv
  <2>2. CASE mem.status = "Ok" \/ stage \in {"deposited", "closing"}
    <3>1. Answered = mem.unit
      BY <1>1, <1>4, <2>2, AnsweredFacts
    <3>2. QED
      BY <1>1, <2>1, <3>1
  <2>3. CASE mem.status # "Ok" /\ stage \notin {"deposited", "closing"}
    <3>1. /\ mem.list <= Saved.list + InFlight
          /\ Saved.status = "Ok" => mem.list = 0
      BY <2>3 DEF KeptInv
    <3>2. Answered = mem.unit + mem.list
      BY <1>4, <2>3, AnsweredFacts
    <3>3. QED
      BY <1>1, <2>1, <3>1, <3>2
  <2>4. QED
    BY <2>2, <2>3
<1>5. QED
  BY <1>2, <1>3, <1>4

(* A crash and a start keep the notes: those recorded, and those of a      *)
(* transaction whose list the file has, up to one that is being saved.     *)
THEOREM PersistentCrashKeepsNotes == Spec => CrashKeepsNotes
<1>1. ASSUME IInv, [Next]_vars
      PROVE  [(faults' > faults \/ stage = "load") /\ mishap = {} /\ mishap' = {} /\ file.whole
                => Answered' + Cardinality({t \in Threads : job[t].holds}) >= Answered]_vars
  <2> SUFFICES ASSUME Next, faults' > faults \/ stage = "load", mishap = {}, mishap' = {}, file.whole
               PROVE  Answered' + InFlight >= Answered
    BY <1>1, InFlightFacts
  <2> USE <1>1 DEF IInv
  <2>1. IInv'
    BY NextIInv
  <2>2. FileFree /\ Saved = Loaded
    BY SavedFacts DEF MutexInv
  <2>3. /\ Saved.list \in Nat /\ Saved.notes \in Nat /\ InFlight \in Nat
    BY SavedType, InFlightFacts DEF Content
  <2>4. CASE Crash
    <3>1. Saved' = Saved
      BY <2>2, <2>4, CrashKeeps
    <3>2. /\ Saved.status = "Active" => stage' = "load"
          /\ Saved.status # "Active" => /\ stage' = "ready" /\ mem'.status = Saved.status
                                        /\ mem'.list = Saved.list /\ mem'.unit = Saved.notes
      BY <2>2, <2>4 DEF Crash
    <3>3. Answered' = Saved.notes + (IF Saved.status = "Ok" THEN 0 ELSE Saved.list)
      BY <2>1, <3>1, <3>2, AnsweredFactsNext
    <3>4. QED
      BY <3>3, FileAnswers
  <2>5. CASE stage = "load" /\ \E t \in Threads : Read(t) \/ Truncate(t)
    <3>1. Saved' = Saved /\ stage' = "load"
      BY <2>5, ReadKeeps, TruncateKeeps DEF Read, Truncate
    <3>2. Answered' = Answered
      BY <2>1, <2>5, <3>1, AnsweredFacts, AnsweredFactsNext
    <3>3. Answered \in Nat
      BY <2>3, <2>5, AnsweredFacts
    <3>4. QED
      BY <2>3, <3>2, <3>3
  <2>6. CASE stage = "load" /\ Started
    <3>1. mem'.list = Saved.list /\ mem'.unit = Saved.notes /\ mem'.status = "Unknown" /\ stage' = "ready"
      BY <2>6, StartedKeeps DEF Started, KeptInv
    <3>2. Answered' = Answered
      BY <2>1, <2>6, <3>1, AnsweredFacts, AnsweredFactsNext
    <3>3. Answered \in Nat
      BY <2>3, <2>6, AnsweredFacts
    <3>4. QED
      BY <2>3, <3>2, <3>3
  <2>7. ~\E t \in Threads : Write(t) \/ WriteFails(t)
    BY <2>2 DEF Write, WriteFails, FileFree
  <2>8. Crash \/ (stage = "load" /\ (Started \/ \E t \in Threads : Read(t) \/ Truncate(t)))
    <3>1. faults \in Nat
      BY BoundTypes DEF TypeInv
    <3>2. faults' = faults => stage = "load"
      BY <3>1
    <3>3. CASE \E t \in Threads : Read(t) \/ Truncate(t) \/ Write(t) \/ WriteFails(t) \/ AddNote(t)
      <4>1. PICK t \in Threads : Read(t) \/ Truncate(t) \/ AddNote(t)
        BY <2>7, <3>3
      <4>2. ~(AddNote(t) /\ stage = "load") /\ faults' = faults
        BY <4>1 DEF AddNote, CountNote, Read, Truncate, bounds, Threads
      <4>3. QED
        BY <3>2, <4>1, <4>2
    <3>4. CASE OpenTransaction \/ Deposit \/ ClearAccepted \/ CloseTransaction
      BY <3>2, <3>4 DEF OpenTransaction, Deposit, ClearAccepted, CloseTransaction, Command, bounds
    <3>5. CASE ResetClear \/ ResetCount \/ ResetRecord \/ SetManipulated
      BY <3>2, <3>5 DEF ResetClear, ResetCount, CountNote, ResetRecord, SetManipulated, Command, bounds
    <3>6. CASE \E on, off \in SUBSET NoteTypes : ConfigureNoteTypes(on, off)
      BY <3>2, <3>6 DEF ConfigureNoteTypes, Command
    <3>7. CASE Crash \/ Started
      BY <3>2, <3>7 DEF Started, bounds
    <3>8. QED
      BY <3>3, <3>4, <3>5, <3>6, <3>7 DEF Next
  <2>9. QED
    BY <2>4, <2>5, <2>6, <2>8
<1>2. QED
  BY PersistentInvariant, <1>1, PTL DEF Spec, CrashKeepsNotes

=============================================================================
