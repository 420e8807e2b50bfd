------------------------- MODULE MCStateMachine -------------------------
(* The command thread, in CashIn, CashInEnd or Reset (which skips the      *)
(* states before it), and the thread of NotesInhibitManager, which waits   *)
(* again on the same token when its time is up.                            *)
EXTENDS StateMachine

MCStates  == {"Disabled", "Accepting", "Stacked"}
MCWaiters == {"command", "inhibit"}

EventTo(s) == [from |-> MCStates, to |-> {s}]

MCOutcomes ==
    [w \in MCWaiters |->
        IF w = "command"
        THEN << <<EventTo("Accepting"), EventTo("Disabled")>>, <<EventTo("Stacked")>> >>
        ELSE << <<EventTo("Disabled")>> >>]

MCCancelOn == [w \in MCWaiters |-> IF w = "command" THEN {"Stacked"} ELSE {}]

=============================================================================
