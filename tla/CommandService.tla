------------------------- MODULE CommandService -------------------------
(***************************************************************************)
(* What the command queue of one service promises its clients, whatever    *)
(* the locks, events and threads it is made of: commands are served one    *)
(* at a time and in the order they were accepted, a command gets at most   *)
(* one final answer, and a command that was withdrawn before its turn is   *)
(* never served.                                                           *)
(***************************************************************************)
EXTENDS Sequences, SequencesExt

CONSTANTS Commands,   \* identities of the commands clients send
          NoCommand   \* "no command is being served"

VARIABLES pending,    \* accepted commands that wait for their turn, oldest first
          serving,    \* the command being served, or NoCommand
          answer      \* what each command was told, if anything yet

svars == <<pending, serving, answer>>

NoAnswer     == "none"
FinalAnswers == {"Result", "InternalError", "Canceled"}

Init ==
    /\ pending = <<>>
    /\ serving = NoCommand
    /\ answer = [cmd \in Commands |-> NoAnswer]

(* A client submits a command it never submitted before. *)
Accept(cmd) ==
    /\ answer[cmd] = NoAnswer
    /\ cmd # serving
    /\ \A i \in DOMAIN pending : pending[i] # cmd
    /\ pending' = Append(pending, cmd)
    /\ UNCHANGED <<serving, answer>>

(* The oldest pending command gets its turn once nothing else is served. *)
BeginService ==
    /\ serving = NoCommand
    /\ pending # <<>>
    /\ serving' = Head(pending)
    /\ pending' = Tail(pending)
    /\ UNCHANGED answer

(* The command being served gets its only answer. *)
Answer(reply) ==
    /\ serving # NoCommand
    /\ answer[serving] = NoAnswer
    /\ answer' = [answer EXCEPT ![serving] = reply]
    /\ UNCHANGED <<pending, serving>>

(* The service turns to the next command only after the answer is given. *)
EndService ==
    /\ serving # NoCommand
    /\ answer[serving] # NoAnswer
    /\ serving' = NoCommand
    /\ UNCHANGED <<pending, answer>>

(* A pending command is withdrawn, and its client told so. *)
Withdraw(i) ==
    /\ answer[pending[i]] = NoAnswer
    /\ answer' = [answer EXCEPT ![pending[i]] = "Canceled"]
    /\ pending' = RemoveAt(pending, i)
    /\ UNCHANGED serving

Next ==
    \/ \E cmd \in Commands : Accept(cmd)
    \/ BeginService
    \/ \E reply \in {"Result", "InternalError"} : Answer(reply)
    \/ EndService
    \/ \E i \in DOMAIN pending : Withdraw(i)

Spec == Init /\ [][Next]_svars

=============================================================================
