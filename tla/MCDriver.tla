----------------------------- MODULE MCDriver -----------------------------
(* Two threads, two attempts, and a counter that returns after more steps  *)
(* than answers can be late.                                               *)
EXTENDS Driver

CONSTANTS queue, polling

MCCallers == {queue, polling}

=============================================================================
