----------------------------- MODULE MCCashIn -----------------------------
(* Two notes, four commands and one crash: enough for a note to be counted *)
(* by two commands and refused by a third for the limit, stacked under a   *)
(* command other than the one that counted it, jammed and put into the     *)
(* cassette by a Reset; the cassette is full at first, or after one note.  *)
EXTENDS CashIn

MCLimits == {2}

=============================================================================
