-------------------------- MODULE StateMachine --------------------------
(***************************************************************************)
(* framework/core/common/StateMachine: the machine through which the       *)
(* polling thread of a device tells the other threads what state the       *)
(* hardware is in.  ChangeState records the new state, runs the handlers   *)
(* subscribed to it and wakes the threads that wait for it; BlockedWait    *)
(* blocks a thread until one of its outcomes happens, its termination      *)
(* token is cancelled or its time is up.                                   *)
(*                                                                         *)
(* A step is a critical section of one of the four mutexes.  Every waiter  *)
(* is a thread that prepares a token, subscribes a handler that cancels    *)
(* it, calls BlockedWait and unsubscribes, as the device's commands do.    *)
(* The out parameter pCurrentUID is left out: no caller reads it.          *)
(***************************************************************************)
EXTENDS Integers, Sequences, FiniteSetsExt

CONSTANTS States,          \* _StateType
          InitialState,
          HistoryCapacity, \* _StateFlowHistoryCapacity
          Waiters,         \* threads that call BlockedWait
          Outcomes,        \* what each waits for: a sequence of sequences of events
          CancelOn,        \* the states whose handler cancels its own token
          Skipping,        \* those who may skip the states up to the current one
          MaxUid           \* bound: state changes followed

(* An event is a pair of sets: the states it leads from and to. *)
ASSUME MachineAssumption ==
    /\ InitialState \in States
    /\ HistoryCapacity \in Nat \ {0, 1}
    /\ \A w \in Waiters : Outcomes[w] \in Seq(Seq([from : SUBSET States, to : SUBSET States]))
    /\ CancelOn \in [Waiters -> SUBSET States]
    /\ Skipping \subseteq Waiters
    /\ MaxUid \in Nat

VARIABLES flow,       \* m_stateFlow: the last states, newest at the end
          lastUid,    \* m_next_record_uid
          pollPc,     \* the polling thread: outside ChangeState, or in it
          due,        \* eventsHappened: subscriptions whose handler is to run
          subscribed, \* m_subscriptions, by the waiter that owns them
          registered, \* m_blocked_waits, by the waiter that owns them
          waitPc,     \* where each waiter is in BlockedWait
          since,      \* the uid of the state in which its call began
          skip,       \* skipStatesWithUID_LE: that uid, or 0 to skip nothing
          cancel,     \* _bCancel of its token
          event,      \* _nEventOccurred of its token
          result      \* what BlockedWait returns

tokenVars == <<cancel, event>>
pollVars  == <<flow, lastUid, pollPc, due>>
callVars  == <<since, skip>>
waitVars  == <<subscribed, registered, waitPc, callVars, result>>
vars      == <<pollVars, waitVars, tokenVars>>

NoEvent == -1

(* BlockedWaitResult: an outcome's number (from 1 here), or one of these.  *)
TIMEOUT   == -1
CANCELLED == -2
FAILED    == -4

TypeOK ==
    /\ flow \in Seq(States) /\ Len(flow) \in 1..HistoryCapacity
    /\ lastUid \in 1..(MaxUid + 1)
    /\ pollPc \in {"outside", "handlers"}
    /\ due \subseteq Waiters
    /\ subscribed \subseteq Waiters
    /\ registered \subseteq Waiters
    /\ waitPc \in [Waiters -> {"idle", "checking", "registering", "waiting", "woken", "returned"}]
    /\ since \in [Waiters -> 0..lastUid]
    /\ skip \in [Waiters -> 0..lastUid] /\ \A w \in Waiters : skip[w] \in {0, since[w]}
    /\ cancel \in [Waiters -> BOOLEAN]
    /\ event \in [Waiters -> Nat \cup {NoEvent}]
    /\ result \in [Waiters -> Nat \cup {TIMEOUT, CANCELLED, FAILED}]

Init ==
    /\ flow = <<InitialState>>
    /\ lastUid = 1
    /\ pollPc = "outside"
    /\ due = {}
    /\ subscribed = {}
    /\ registered = {}
    /\ waitPc = [w \in Waiters |-> "idle"]
    /\ since = [w \in Waiters |-> 0]
    /\ skip = [w \in Waiters |-> 0]
    /\ cancel = [w \in Waiters |-> FALSE]
    /\ event = [w \in Waiters |-> NoEvent]
    /\ result = [w \in Waiters |-> FAILED]

-----------------------------------------------------------------------------

(* The events of seq happened one after another, ending at flow[last].     *)
EndsAt(seq, last) ==
    \A e \in DOMAIN seq :
        LET h == last - Len(seq) + e
        IN  flow[h - 1] \in seq[e].from /\ flow[h] \in seq[e].to

(* _has_happened.  With a uid to skip, only the records newer than it      *)
(* count, all of them are searched, and the record a sequence starts from  *)
(* must be among them; with 0, only the newest records are looked at.      *)
HasHappened(seq, uid) ==
    LET available == IF uid > 0 THEN Min({lastUid - uid, Len(flow)}) ELSE Len(flow)
        first     == IF uid > 0 THEN Len(flow) - available + Len(seq) + 1 ELSE Len(flow)
    IN  /\ available >= Len(seq) + 1
        /\ \E last \in first..Len(flow) : EndsAt(seq, last)

Happened(w) == {k \in DOMAIN Outcomes[w] : HasHappened(Outcomes[w][k], skip[w])}

(* Those of them that the newest state completes. *)
Completed(w) == {k \in Happened(w) : EndsAt(Outcomes[w][k], Len(flow))}

-----------------------------------------------------------------------------
(* The polling thread: one call of ChangeState, m_state_mtx held from the  *)
(* first step to the last.                                                 *)

(* A state other than the current one is recorded, the oldest record makes *)
(* room, and the subscriptions to run are collected.                       *)
ChangeState(s) ==
    /\ pollPc = "outside"
    /\ s # flow[Len(flow)]
    /\ lastUid <= MaxUid
    /\ flow' = LET all == Append(flow, s)
               IN  SubSeq(all, 1 + Max({0, Len(all) - HistoryCapacity}), Len(all))
    /\ lastUid' = lastUid + 1
    /\ due' = {w \in subscribed : s \in CancelOn[w]}
    /\ pollPc' = "handlers"
    /\ UNCHANGED <<waitVars, tokenVars>>

(* Mutant: the subscription is not looked up again. *)
RunHandlerUnchecked(w) ==
    /\ w \in due
    /\ due' = due \ {w}
    /\ cancel' = [cancel EXCEPT ![w] = TRUE]
    /\ UNCHANGED <<flow, lastUid, pollPc, waitVars, event>>

(* One handler that is due, if it is still subscribed: it cancels a token. *)
RunHandler(w) ==
    /\ w \in due
    /\ due' = due \ {w}
    /\ cancel' = [cancel EXCEPT ![w] = @ \/ w \in subscribed]
    /\ UNCHANGED <<flow, lastUid, pollPc, waitVars, event>>

(* Mutant: the first waiter found is the only one told. *)
NotifyOneWait ==
    /\ pollPc = "handlers"
    /\ due = {}
    /\ pollPc' = "outside"
    /\ LET told == {w \in registered : Completed(w) # {}}
       IN  event' = IF told = {} THEN event
                    ELSE LET w == CHOOSE x \in told : TRUE
                         IN  [event EXCEPT ![w] = Max(Completed(w))]
    /\ UNCHANGED <<flow, lastUid, due, waitVars, cancel>>

(* The registered waits, inside m_blocked_waits_mtx: the last of a wait's  *)
(* outcomes that happened is the one its token keeps.  The search looks at *)
(* the newest records only, even for a wait that skips older ones.         *)
NotifyWaits ==
    /\ pollPc = "handlers"
    /\ due = {}
    /\ pollPc' = "outside"
    /\ event' = [w \in Waiters |->
                   IF w \in registered /\ Completed(w) # {} THEN Max(Completed(w)) ELSE event[w]]
    /\ UNCHANGED <<flow, lastUid, due, waitVars, cancel>>

-----------------------------------------------------------------------------
(* The waiters. *)

(* A new token and a subscription; a caller that skips (Reset) asks for    *)
(* the uid of the current state, which takes m_state_mtx.                  *)
Begin(w) ==
    /\ waitPc[w] = "idle"
    /\ waitPc' = [waitPc EXCEPT ![w] = "checking"]
    /\ since' = [since EXCEPT ![w] = lastUid]
    /\ \/ skip' = [skip EXCEPT ![w] = 0]
       \/ w \in Skipping /\ pollPc = "outside" /\ skip' = [skip EXCEPT ![w] = lastUid]
    /\ subscribed' = subscribed \cup {w}
    /\ cancel' = [cancel EXCEPT ![w] = FALSE]
    /\ event' = [event EXCEPT ![w] = NoEvent]
    /\ UNCHANGED <<pollVars, registered, result>>

(* BlockedWait first looks whether an outcome is there already, inside     *)
(* m_state_mtx, and returns the first of them.                             *)
CheckCurrent(w) ==
    /\ waitPc[w] = "checking"
    /\ pollPc = "outside"
    /\ IF Happened(w) # {}
       THEN /\ waitPc' = [waitPc EXCEPT ![w] = "returned"]
            /\ result' = [result EXCEPT ![w] = Min(Happened(w))]
       ELSE /\ waitPc' = [waitPc EXCEPT ![w] = "registering"]
            /\ UNCHANGED result
    /\ UNCHANGED <<pollVars, subscribed, registered, callVars, tokenVars>>

(* Then it registers, inside m_blocked_waits_mtx alone. *)
Register(w) ==
    /\ waitPc[w] = "registering"
    /\ waitPc' = [waitPc EXCEPT ![w] = "waiting"]
    /\ registered' = registered \cup {w}
    /\ UNCHANGED <<pollVars, subscribed, callVars, result, tokenVars>>

(* Mutant: only an event ends the wait. *)
WaitEndsOnEvent(w) ==
    /\ waitPc[w] = "waiting"
    /\ event[w] # NoEvent
    /\ result' = [result EXCEPT ![w] = IF cancel[w] THEN CANCELLED ELSE event[w]]
    /\ waitPc' = [waitPc EXCEPT ![w] = "woken"]
    /\ UNCHANGED <<pollVars, subscribed, registered, callVars, tokenVars>>

(* wait_for returns because of the token: cancellation is looked at first. *)
WaitEnds(w) ==
    /\ waitPc[w] = "waiting"
    /\ cancel[w] \/ event[w] # NoEvent
    /\ result' = [result EXCEPT ![w] = IF cancel[w] THEN CANCELLED ELSE event[w]]
    /\ waitPc' = [waitPc EXCEPT ![w] = "woken"]
    /\ UNCHANGED <<pollVars, subscribed, registered, callVars, tokenVars>>

(* wait_for returns because its time is up (in CashIn after seven weeks).  *)
TimeExpires(w) ==
    /\ waitPc[w] = "waiting"
    /\ ~cancel[w] /\ event[w] = NoEvent
    /\ result' = [result EXCEPT ![w] = TIMEOUT]
    /\ waitPc' = [waitPc EXCEPT ![w] = "woken"]
    /\ UNCHANGED <<pollVars, subscribed, registered, callVars, tokenVars>>

(* Mutant: the token keeps the event. *)
CleanUpKeepEvent(w) ==
    /\ waitPc[w] = "woken"
    /\ waitPc' = [waitPc EXCEPT ![w] = "returned"]
    /\ registered' = registered \ {w}
    /\ UNCHANGED <<pollVars, subscribed, callVars, result, tokenVars>>

(* The registration is erased and the token forgets its event. *)
CleanUp(w) ==
    /\ waitPc[w] = "woken"
    /\ waitPc' = [waitPc EXCEPT ![w] = "returned"]
    /\ registered' = registered \ {w}
    /\ event' = [event EXCEPT ![w] = NoEvent]
    /\ UNCHANGED <<pollVars, subscribed, callVars, result, cancel>>

(* Mutant: a caller that skips waits again too, with the uid it had. *)
WaitAgainSkipping(w) ==
    /\ waitPc[w] = "returned"
    /\ result[w] = TIMEOUT
    /\ waitPc' = [waitPc EXCEPT ![w] = "checking"]
    /\ since' = [since EXCEPT ![w] = lastUid]
    /\ result' = [result EXCEPT ![w] = FAILED]
    /\ UNCHANGED <<pollVars, subscribed, registered, skip, tokenVars>>

(* After a timeout the caller may wait again on the same token (the loop   *)
(* of NotesInhibitManager).                                                *)
WaitAgain(w) ==
    /\ waitPc[w] = "returned"
    /\ result[w] = TIMEOUT
    /\ skip[w] = 0
    /\ waitPc' = [waitPc EXCEPT ![w] = "checking"]
    /\ since' = [since EXCEPT ![w] = lastUid]
    /\ result' = [result EXCEPT ![w] = FAILED]
    /\ UNCHANGED <<pollVars, subscribed, registered, skip, tokenVars>>

(* The caller unsubscribes; its token is gone with it. *)
Finish(w) ==
    /\ waitPc[w] = "returned"
    /\ waitPc' = [waitPc EXCEPT ![w] = "idle"]
    /\ subscribed' = subscribed \ {w}
    /\ result' = [result EXCEPT ![w] = FAILED]
    /\ UNCHANGED <<pollVars, registered, callVars, tokenVars>>

(* AsyncCancel from another thread: a stop callback, or _stop().           *)
AsyncCancel(w) ==
    /\ waitPc[w] # "idle"
    /\ cancel' = [cancel EXCEPT ![w] = TRUE]
    /\ UNCHANGED <<pollVars, waitVars, event>>

-----------------------------------------------------------------------------

WaiterStep(w) ==
    CheckCurrent(w) \/ Register(w) \/ WaitEnds(w) \/ CleanUp(w)

PollerStep == NotifyWaits \/ \E w \in Waiters : RunHandler(w)

Next ==
    \/ \E s \in States : ChangeState(s)
    \/ PollerStep
    \/ \E w \in Waiters :
         \/ WaiterStep(w)
         \/ Begin(w)
         \/ TimeExpires(w)
         \/ WaitAgain(w)
         \/ Finish(w)
         \/ AsyncCancel(w)

Spec == Init /\ [][Next]_vars

(* Threads inside the machine's code keep running; m_state_mtx is free     *)
(* between two polls, again and again, so a waiter gets it in the end.     *)
(* Not assumed: that the device changes state, that a wait is cancelled or *)
(* that its time is up.                                                    *)
FairSpec ==
    /\ Spec
    /\ WF_vars(PollerStep)
    /\ \A w \in Waiters : SF_vars(WaiterStep(w))

-----------------------------------------------------------------------------
(* Properties. *)

(* Uid of a record still in the history. *)
UidAt(i) == lastUid - Len(flow) + i

(* BlockedWait never reports what was over before the call: the outcome it *)
(* returns was completed by a state no older than the one the call began   *)
(* in, and by a newer one if the caller skips (stated for as long as the   *)
(* records that outcome could have begun in are in the history).           *)
NoStaleEvent ==
    \A w \in Waiters :
        result[w] \in Nat /\ (UidAt(1) = 1 \/ UidAt(1) + Len(Outcomes[w][result[w]]) <= since[w]) =>
            \E i \in DOMAIN flow :
                /\ UidAt(i) >= since[w] /\ UidAt(i) > skip[w]
                /\ i > Len(Outcomes[w][result[w]])
                /\ EndsAt(Outcomes[w][result[w]], i)

(* A handler is never run for a subscriber that has unsubscribed, even if  *)
(* it was found due before: the executor it points to is gone.             *)
HandlersOnlySubscribed ==
    [][\A w \in Waiters : waitPc[w] = "idle" /\ waitPc'[w] = "idle" => cancel'[w] = cancel[w]]_vars

InProgress(w) == waitPc[w] \in {"checking", "registering", "waiting"}

(* A cancelled wait ends, at whatever point of BlockedWait it is cancelled. *)
CancelEndsWait == \A w \in Waiters : (InProgress(w) /\ cancel[w]) ~> ~InProgress(w)

(* Once a wait is registered, a state that completes one of its outcomes   *)
(* ends it, whoever else waits.                                            *)
EventEndsRegisteredWait ==
    \A w \in Waiters :
        (waitPc[w] = "waiting" /\ pollPc = "handlers" /\ Completed(w) # {}) ~> ~InProgress(w)

=============================================================================
