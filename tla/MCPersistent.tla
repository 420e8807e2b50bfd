---------------------------- MODULE MCPersistent ----------------------------
(* Two kinds of notes, as in a configuration that enables one and disables *)
(* the other.                                                              *)
EXTENDS Persistent, TLC

CONSTANTS n1, n2

NoteTypeSymmetry == Permutations(NoteTypes)

=============================================================================
