--------------------------- MODULE Transaction ---------------------------
(***************************************************************************)
(* What the cash acceptor promises of a cash-in transaction, whatever its  *)
(* threads, its validator and its file are doing: a transaction is opened, *)
(* its notes are counted one by one and it is closed with what it counted; *)
(* after a crash the client finds an open transaction as one of unknown    *)
(* outcome, with the recognised notes that were counted.  It may miss the  *)
(* note that is being saved and, while a deposit is recorded, any of them, *)
(* but it finds no more than were counted.  Only a crash within the start  *)
(* of a transaction shows the notes of the one before.                     *)
(***************************************************************************)
EXTENDS Naturals

VARIABLES status,  \* of the transaction
          items,   \* the notes it has counted, recognised ...
          unrec,   \* ... and not recognised
          unsaved  \* what the file does not know yet: "open", "save", "deposit"

tvars == <<status, items, unrec, unsaved>>

Init ==
    /\ status = "Ok"
    /\ items = 0 /\ unrec = 0
    /\ unsaved = {}

Open ==
    /\ status # "Active" /\ unsaved = {}
    /\ status' = "Active"
    /\ items' = 0 /\ unrec' = 0
    /\ unsaved' = {"open"}

Opened ==
    /\ unsaved = {"open"}
    /\ unsaved' = {}
    /\ UNCHANGED <<status, items, unrec>>

(* A note is counted, whether or not a transaction is open, and saved at   *)
(* once or soon.                                                           *)
Count ==
    /\ unsaved \subseteq {"deposit"}
    /\ \/ items' = items + 1 /\ UNCHANGED unrec
       \/ unrec' = unrec + 1 /\ UNCHANGED items
    /\ unsaved' \in {unsaved, unsaved \cup {"save"}}
    /\ UNCHANGED status

Saved ==
    /\ "save" \in unsaved
    /\ unsaved' = unsaved \ {"save"}
    /\ UNCHANGED <<status, items, unrec>>

(* The notes of an open transaction are put down as those of the cassette. *)
Deposit ==
    /\ status = "Active" /\ unsaved \subseteq {"save"}
    /\ unsaved' = unsaved \cup {"deposit"}
    /\ UNCHANGED <<status, items, unrec>>

Close ==
    /\ status = "Active" /\ unsaved \subseteq {"deposit"}
    /\ status' = "Ok"
    /\ unsaved' = {}
    /\ UNCHANGED <<items, unrec>>

(* The process died, and is back. *)
Restart ==
    /\ \/ status' = IF status = "Active" THEN "Unknown" ELSE status
       \/ "deposit" \in unsaved /\ status' \in {"Ok", "Unknown"}
    /\ \/ items' = items
       \/ unsaved = {"open"} /\ items' \in Nat
       \/ "save" \in unsaved /\ items = items' + 1
       \/ "deposit" \in unsaved /\ items' \in 0..items
    /\ unrec' = 0
    /\ unsaved' = {}

Next == Open \/ Opened \/ Count \/ Saved \/ Deposit \/ Close \/ Restart

Spec == Init /\ [][Next]_tvars

=============================================================================
