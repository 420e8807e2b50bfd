------------------------- MODULE MCCommandQueue -------------------------
(* Two clients of one service; the first sends two commands, the second    *)
(* one, so that a client's own commands and two clients' commands compete. *)
EXTENDS CommandQueue

CONSTANTS c1, c2, a1, a2, b1

MCConnections == {c1, c2}
MCCommands    == {a1, a2, b1}
MCOwner       == [cmd \in MCCommands |-> IF cmd = b1 THEN c2 ELSE c1]

=============================================================================
