---------------------------- MODULE Sessions ----------------------------
(***************************************************************************)
(* framework/server: the connections of the service from their acceptance  *)
(* to their removal, and what their clients are told.  The main thread     *)
(* runs the endpoint and one coroutine per connection, which suspend only  *)
(* where they read and write; the queue thread serves queued commands; the *)
(* io thread of the service sends events to all its connections; a client  *)
(* may send, stop reading or leave at any moment, and the process may be   *)
(* asked to stop.                                                          *)
(*                                                                         *)
(* The queue of the service is taken at its word: it is CommandService,    *)
(* which CommandQueue implements, and it may end (CommandQueue says when). *)
(* A message is sent as one write, the event before the answer to          *)
(* GetServices and the events of a handler included.  Schema validation    *)
(* and DispatchError are left out: the application gives no validator, and *)
(* nothing raises the exceptions they are for.                             *)
(***************************************************************************)
EXTENDS Naturals, Sequences

CONSTANTS MaxConnections, \* bound: connections, numbered as they are accepted
          Uri,         \* the dispatchers each client's URI may select
          Stalling,    \* connections whose client may stop reading
          MaxCommands, \* bound: messages clients send
          MaxEvents    \* bound: events sent to a connection

ASSUME SessionsAssumption ==
    /\ MaxConnections \in Nat /\ MaxCommands \in Nat /\ MaxEvents \in Nat
    /\ Uri \in [1..MaxConnections -> SUBSET {"publisher", "service"}]
    /\ Stalling \subseteq 1..MaxConnections

Connections == 1..MaxConnections
Commands  == 1..MaxCommands
NoCommand == 0

VARIABLES pending, serving, answer, \* the queue of the service, as CommandService
          queuePc,  \* the queue thread
          conn,     \* the coroutine of each connection
          via,      \* the dispatcher its URI selects
          open,     \* socket_->is_open()
          current,  \* the message it handles
          details,  \* connectionDetails_ of the endpoint
          members,  \* connections_ of the service
          acceptor,
          clients,  \* connections whose client is still there
          stalled,  \* connections whose client no longer reads
          sent,     \* messages received, which are numbered
          owner, kind,
          told,     \* what was written to its client about each message
          stopped,  \* commands whose stop source was asked to stop
          writing,  \* the threads that are writing to each connection
          events,   \* how many events were sent to a connection
          stop      \* the stop token of the process

queueVars  == <<pending, serving, answer>>
clientVars == <<clients, stalled>>
writeVars  == <<told, writing>>
listVars   == <<details, members>>
inputVars  == <<sent, owner, kind>>
vars == <<queueVars, queuePc, conn, via, open, current, listVars, acceptor, clientVars,
          inputVars, writeVars, stopped, events, stop>>

Queue == INSTANCE CommandService

Kinds   == {"async", "queued", "unknown", "bad"}
Writers == {"main", "queue", "events"}

ConnPcs == {"none", "handshake", "reading", "acking", "replying", "closing",
            "removing", "gone", "deaf"}

TypeOK ==
    /\ pending \in Seq(Commands) /\ serving \in Commands \cup {NoCommand}
    /\ answer \in [Commands -> {"none"} \cup Queue!FinalAnswers]
    /\ queuePc \in {"idle", "run", "reply"}
    /\ queuePc = "idle" <=> serving = NoCommand
    /\ conn \in [Connections -> ConnPcs]
    /\ via \in [Connections -> {"publisher", "service"}]
    /\ open \in [Connections -> BOOLEAN]
    /\ current \in [Connections -> Commands \cup {NoCommand}]
    /\ \A c \in Connections : current[c] # NoCommand <=> conn[c] \in {"acking", "replying"}
    /\ details \subseteq Connections /\ members \subseteq details
    /\ acceptor \in {"listening", "closed"}
    /\ clients \subseteq Connections /\ stalled \subseteq Connections
    /\ sent \in 0..MaxCommands
    /\ owner \in [1..sent -> Connections] /\ kind \in [1..sent -> Kinds]
    /\ told \in [Commands -> Seq({"ack", "answer"})]
    /\ stopped \subseteq Commands
    /\ writing \in [Connections -> SUBSET Writers]
    /\ events \in 0..MaxEvents
    /\ stop \in BOOLEAN

Init ==
    /\ Queue!Init
    /\ queuePc = "idle"
    /\ conn = [c \in Connections |-> "none"]
    /\ via = [c \in Connections |-> "publisher"]
    /\ open = [c \in Connections |-> FALSE]
    /\ current = [c \in Connections |-> NoCommand]
    /\ details = {} /\ members = {}
    /\ acceptor = "listening"
    /\ clients = {} /\ stalled = {}
    /\ sent = 0 /\ owner = <<>> /\ kind = <<>>
    /\ told = [m \in Commands |-> <<>>]
    /\ stopped = {}
    /\ writing = [c \in Connections |-> {}]
    /\ events = 0
    /\ stop = FALSE

-----------------------------------------------------------------------------
(* SendMessageAsync, in two steps. *)

(* A closed connection is written nothing.  Nothing serialises the writes  *)
(* of the threads to one websocket; two that meet may spoil its stream.    *)
Write(thread, c) ==
    writing' = IF open[c] THEN [writing EXCEPT ![c] = @ \cup {thread}] ELSE writing

Tell(m, c, what) == told' = IF open[c] THEN [told EXCEPT ![m] = Append(@, what)] ELSE told

(* Mutant: a write to a closed connection never ends. *)
WrittenWhileOpen(thread, c) ==
    /\ open[c] /\ c \notin clients \cap stalled
    /\ writing' = [writing EXCEPT ![c] = @ \ {thread}]
    /\ \/ open' = open
       \/ c \notin clients /\ open' = [open EXCEPT ![c] = FALSE]
    /\ UNCHANGED told

(* A write ends once the client reads, or with an error, which is logged;  *)
(* after an error the websocket may be no longer open.                     *)
Written(thread, c) ==
    /\ c \in clients \cap stalled => ~open[c]
    /\ writing' = [writing EXCEPT ![c] = @ \ {thread}]
    /\ \/ open' = open
       \/ c \notin clients /\ open[c] /\ open' = [open EXCEPT ![c] = FALSE]
    /\ UNCHANGED told

-----------------------------------------------------------------------------
(* The endpoint. *)

GoOn(c) == IF stop THEN "closing" ELSE "reading"

(* From the end of its loop to its removal a coroutine does not suspend,   *)
(* and no other one runs.                                                  *)
MainFree(c) == \A d \in Connections \ {c} : conn[d] \notin {"closing", "removing"}

(* RunAsync of EndPoint: after an accepted connection, which the coroutine *)
(* HandleConnection takes over, the stop token is looked at once more.     *)
Accept(c) ==
    /\ acceptor = "listening"
    /\ conn[c] = "none" /\ (\A d \in 1..(c - 1) : conn[d] # "none")
    /\ MainFree(c)
    /\ conn' = [conn EXCEPT ![c] = "handshake"]
    /\ clients' = clients \cup {c}
    /\ acceptor' = IF stop THEN "closed" ELSE "listening"
    /\ UNCHANGED <<queueVars, queuePc, via, open, current, listVars, stalled, inputVars,
                   writeVars, stopped, events, stop>>

(* Mutant: every connection is one of the service. *)
EstablishEverywhere(c, v) ==
    /\ conn[c] = "handshake" /\ MainFree(c)
    /\ c \in clients
    /\ conn' = [conn EXCEPT ![c] = GoOn(c)]
    /\ via' = [via EXCEPT ![c] = v]
    /\ open' = [open EXCEPT ![c] = TRUE]
    /\ details' = details \cup {c}
    /\ members' = members \cup {c}
    /\ UNCHANGED <<queueVars, queuePc, current, acceptor, clientVars, inputVars, writeVars,
                   stopped, events, stop>>

(* HandleConnection: the websocket is accepted and routed by its URI (one  *)
(* nobody has is answered by the publisher), the connection is listed, and *)
(* its RunAsync begins.                                                    *)
Establish(c, v) ==
    /\ conn[c] = "handshake" /\ MainFree(c)
    /\ c \in clients
    /\ conn' = [conn EXCEPT ![c] = GoOn(c)]
    /\ via' = [via EXCEPT ![c] = v]
    /\ open' = [open EXCEPT ![c] = TRUE]
    /\ details' = details \cup {c}
    /\ members' = IF v = "service" THEN members \cup {c} ELSE members
    /\ UNCHANGED <<queueVars, queuePc, current, acceptor, clientVars, inputVars, writeVars,
                   stopped, events, stop>>

(* A client that asks for no websocket is answered 400; one that leaves    *)
(* ends HandleConnection by an exception.                                  *)
Refuse(c) ==
    /\ conn[c] = "handshake" /\ MainFree(c)
    /\ conn' = [conn EXCEPT ![c] = "gone"]
    /\ clients' = clients \ {c}
    /\ UNCHANGED <<queueVars, queuePc, via, open, current, listVars, acceptor, stalled,
                   inputVars, writeVars, stopped, events, stop>>

-----------------------------------------------------------------------------
(* RunAsync of ClientConnection. *)

At(c, pc) == conn[c] = pc /\ MainFree(c)

ConnStep(c, pc) ==
    /\ conn' = [conn EXCEPT ![c] = pc]
    /\ clients' = IF pc = "gone" THEN clients \ {c} ELSE clients
    /\ UNCHANGED <<via, acceptor, stalled, events, stop>>

(* Mutant: the message stays that of the coroutine. *)
NextMessageKeeping(c) ==
    /\ ConnStep(c, IF stop \/ ~open'[c] THEN "closing" ELSE "reading")
    /\ UNCHANGED current

(* The loop looks at the stop token and the socket before it reads again. *)
NextMessage(c) ==
    /\ ConnStep(c, IF stop \/ ~open'[c] THEN "closing" ELSE "reading")
    /\ current' = [current EXCEPT ![c] = NoCommand]

(* A service answers at once what it does not know, like an async command; *)
(* the publisher has no handler for it, and none for a command to queue.   *)
Decodes(c) == Kinds \ {IF via[c] = "service" THEN "unknown" ELSE "queued"}

(* Mutant: a queued command goes to the queue unacknowledged. *)
ReceiveEnqueueFirst(c, k) ==
    /\ At(c, "reading") /\ c \in clients
    /\ sent < MaxCommands
    /\ k \in Decodes(c)
    /\ sent' = sent + 1
    /\ owner' = Append(owner, c) /\ kind' = Append(kind, k)
    /\ IF k = "queued"
       THEN /\ Queue!Accept(sent')
            /\ ConnStep(c, "reading") /\ UNCHANGED <<current, writeVars>>
       ELSE /\ ConnStep(c, "acking")
            /\ current' = [current EXCEPT ![c] = sent']
            /\ Write("main", c) /\ Tell(sent', c, "ack")
            /\ UNCHANGED queueVars
    /\ UNCHANGED <<queuePc, open, listVars, stopped>>

(* HandleIncomingMessage up to the acknowledgement that Dispatch writes    *)
(* before it looks for a handler.  A message that cannot be decoded or is  *)
(* too long raises an exception that ends the coroutine where it stands.   *)
Receive(c, k) ==
    /\ At(c, "reading") /\ c \in clients
    /\ sent < MaxCommands
    /\ k \in Decodes(c)
    /\ sent' = sent + 1
    /\ owner' = Append(owner, c) /\ kind' = Append(kind, k)
    /\ IF k = "bad"
       THEN ConnStep(c, "deaf") /\ UNCHANGED <<current, writeVars>>
       ELSE /\ ConnStep(c, "acking")
            /\ current' = [current EXCEPT ![c] = sent']
            /\ Write("main", c) /\ Tell(sent', c, "ack")
    /\ UNCHANGED <<queueVars, queuePc, open, listVars, stopped>>

(* Mutant: after an error the loop reads again. *)
ReadFailsRetry(c) ==
    /\ At(c, "reading") /\ c \notin clients
    /\ ConnStep(c, "reading")
    /\ UNCHANGED <<queueVars, queuePc, open, current, listVars, inputVars, writeVars, stopped>>

(* The client has closed the connection, or it is broken. *)
ReadFails(c) ==
    /\ At(c, "reading") /\ c \notin clients
    /\ ConnStep(c, "closing")
    /\ open' = [open EXCEPT ![c] = FALSE]
    /\ UNCHANGED <<queueVars, queuePc, current, listVars, inputVars, writeVars, stopped>>

(* Dispatch after the acknowledgement: a queued command goes to the queue, *)
(* stopped already if the process is to stop, and the coroutine reads on;  *)
(* an async one is executed at once, which ends with its answer ...        *)
Acknowledged(c) ==
    LET m == current[c]
    IN  /\ At(c, "acking")
        /\ kind[m] = "queued"
        /\ Written("main", c)
        /\ Queue!Accept(m)
        /\ NextMessage(c)
        /\ stopped' = IF stop THEN stopped \cup {m} ELSE stopped
        /\ UNCHANGED <<queuePc, listVars, inputVars>>

Execute(c) ==
    LET m == current[c]
    IN  /\ At(c, "acking")
        /\ kind[m] = "async"
        /\ c \in clients \cap stalled => ~open[c]
        /\ ConnStep(c, "replying")
        /\ \/ /\ Tell(m, c, "answer")
              /\ UNCHANGED <<open, writing>>
           \/ /\ c \notin clients /\ open[c]
              /\ open' = [open EXCEPT ![c] = FALSE]
              /\ writing' = [writing EXCEPT ![c] = @ \ {"main"}]
              /\ UNCHANGED told
        /\ UNCHANGED <<queueVars, queuePc, current, listVars, inputVars, stopped>>

(* ... and the publisher, which has no handler for it, raises an exception *)
(* that ends the coroutine.                                                *)
NoHandler(c) ==
    /\ At(c, "acking")
    /\ kind[current[c]] = "unknown"
    /\ Written("main", c)
    /\ ConnStep(c, "deaf")
    /\ current' = [current EXCEPT ![c] = NoCommand]
    /\ UNCHANGED <<queueVars, queuePc, listVars, inputVars, stopped>>

Replied(c) ==
    /\ At(c, "replying")
    /\ Written("main", c)
    /\ NextMessage(c)
    /\ UNCHANGED <<queueVars, queuePc, listVars, inputVars, stopped>>

(* The clean-up: a socket that is open is closed, which waits for the      *)
(* client to close its side; CancelCommandsAsync stops the running command *)
(* of this connection ...                                                  *)
Close(c) ==
    /\ At(c, "closing")
    /\ c \in clients \cap stalled => ~open[c]
    /\ ConnStep(c, "removing")
    /\ open' = [open EXCEPT ![c] = FALSE]
    /\ stopped' = IF serving # NoCommand /\ owner[serving] = c
                  THEN stopped \cup {serving} ELSE stopped
    /\ UNCHANGED <<queueVars, queuePc, current, listVars, inputVars, writeVars>>

Waiting(c) == {i \in DOMAIN pending : owner[pending[i]] = c}

(* The mutex of the queue is held until all its commands are withdrawn. *)
QueueFree == \A c \in Connections : At(c, "removing") => Waiting(c) = {}

(* ... withdraws its queued ones ... *)
Withdraw(c) ==
    /\ At(c, "removing")
    /\ \E i \in Waiting(c) : (\A j \in Waiting(c) : i <= j) /\ Queue!Withdraw(i)
    /\ UNCHANGED <<queuePc, conn, via, open, current, listVars, acceptor, clientVars,
                   inputVars, writeVars, stopped, events, stop>>

(* Mutant: the queued commands stay where they are. *)
RemoveOnly(c) ==
    /\ At(c, "removing")
    /\ ConnStep(c, "gone")
    /\ details' = details \ {c} /\ members' = members \ {c}
    /\ UNCHANGED <<queueVars, queuePc, open, current, inputVars, writeVars, stopped>>

(* ... and HandleConnection takes the connection from both lists. *)
Remove(c) ==
    /\ At(c, "removing") /\ Waiting(c) = {}
    /\ ConnStep(c, "gone")
    /\ details' = details \ {c} /\ members' = members \ {c}
    /\ UNCHANGED <<queueVars, queuePc, open, current, inputVars, writeVars, stopped>>

-----------------------------------------------------------------------------
(* The queue thread. *)

QueueStep(from, to) ==
    /\ queuePc = from
    /\ queuePc' = to
    /\ UNCHANGED <<conn, via, current, listVars, acceptor, clientVars, inputVars, events, stop>>

TakeCommand ==
    /\ QueueFree
    /\ QueueStep("idle", "run")
    /\ Queue!BeginService
    /\ UNCHANGED <<open, writeVars, stopped>>

(* The handler has a result, or an error to report, such as that the       *)
(* command was stopped: the queue thread writes the completion.            *)
Reply ==
    /\ QueueStep("run", "reply")
    /\ Queue!Answer("Result")
    /\ Write("queue", owner[serving])
    /\ Tell(serving, owner[serving], "answer")
    /\ UNCHANGED <<open, stopped>>

QueueReplied ==
    /\ QueueFree
    /\ QueueStep("reply", "idle")
    /\ Written("queue", owner[serving])
    /\ Queue!EndService
    /\ UNCHANGED stopped

-----------------------------------------------------------------------------
(* The io thread of the service: BroadcastEvent sends to one connection of *)
(* a copy of the list after another.  One that has been removed since the  *)
(* copy was made is closed and is sent nothing.  Every event is broadcast  *)
(* by a coroutine of its own, so that several are under way at once; one   *)
(* that comes to a connection to which the last is still being written     *)
(* counts as part of that write.                                           *)

EventStep ==
    UNCHANGED <<queueVars, queuePc, conn, via, current, listVars, acceptor, clientVars,
                inputVars, stopped, stop>>

SendEvent(c) ==
    /\ c \in members
    /\ events < MaxEvents
    /\ events' = events + 1
    /\ Write("events", c)
    /\ EventStep /\ UNCHANGED <<open, told>>

EventSent(c) ==
    /\ "events" \in writing[c]
    /\ Written("events", c)
    /\ EventStep /\ UNCHANGED events

-----------------------------------------------------------------------------
(* The clients, and Ctrl+C. *)

Outside ==
    UNCHANGED <<queueVars, queuePc, conn, via, open, current, listVars, acceptor,
                inputVars, writeVars, stopped, events>>

Leave(c) ==
    /\ c \in clients /\ conn[c] # "handshake"
    /\ clients' = clients \ {c}
    /\ Outside /\ UNCHANGED <<stalled, stop>>

Stall(c) ==
    /\ c \in (clients \cap Stalling) \ stalled /\ conn[c] # "handshake"
    /\ stalled' = stalled \cup {c}
    /\ Outside /\ UNCHANGED <<clients, stop>>

(* The signal sets the stop token and wakes nobody. *)
Shutdown ==
    /\ ~stop
    /\ stop' = TRUE
    /\ Outside /\ UNCHANGED clientVars

-----------------------------------------------------------------------------

(* What the coroutine of a connection does without a message of its client. *)
ConnectionStep(c) ==
    \/ ReadFails(c) \/ Acknowledged(c) \/ Execute(c) \/ NoHandler(c) \/ Replied(c)
    \/ Close(c) \/ Withdraw(c) \/ Remove(c)

Next ==
    \/ \E c \in Connections :
        \/ Accept(c)
        \/ \E v \in Uri[c] : Establish(c, v)
        \/ \E k \in Kinds : Receive(c, k)
        \/ Refuse(c)
        \/ ConnectionStep(c)
        \/ SendEvent(c) \/ EventSent(c)
        \/ Leave(c) \/ Stall(c)
    \/ TakeCommand
    \/ Reply
    \/ QueueReplied
    \/ Shutdown

Spec == Init /\ [][Next]_vars

(* Each thread goes on where it can; nothing is assumed of the clients,    *)
(* nothing of a handler, which may wait for the customer for ever, and not *)
(* that the queue thread takes a command: CommandQueue says when it does.  *)
FairSpec ==
    /\ Spec
    /\ \A c \in Connections :
        /\ WF_vars(ConnectionStep(c))
        /\ WF_vars(EventSent(c))
    /\ WF_vars(QueueReplied)

-----------------------------------------------------------------------------
(* Properties. *)

(* Whatever ends, stops or blocks meanwhile, a client is told of each of   *)
(* its messages in order: an acknowledgement first, then at most one       *)
(* answer (Dispatch acknowledges before it enqueues, and only the queue    *)
(* thread or the coroutine answers).                                       *)
AckThenOneAnswer ==
    \A m \in Commands : told[m] \in {<<>>, <<"ack">>, <<"ack", "answer">>}

(* A connection that was removed has no command left in the queue, and one *)
(* that is being served knows that it is to stop (clean-up of RunAsync).   *)
NoCommandOfRemoved ==
    \A c \in Connections : conn[c] = "gone" =>
        /\ \A i \in DOMAIN pending : owner[pending[i]] # c
        /\ serving # NoCommand /\ owner[serving] = c => serving \in stopped

(* Writes meet on a websocket only in two ways: an event of the service is *)
(* sent, or the queue thread answers a command while the coroutine handles *)
(* a later message of the same client.  A client of the publisher, and     *)
(* without events one that waits for each answer, gets no spoiled stream   *)
(* (SendMessageAsync takes no lock).                                       *)
WritesMeet ==
    \A c \in Connections :
        /\ via[c] = "publisher" => writing[c] \subseteq {"main"}
        /\ {"main", "queue"} \subseteq writing[c] =>
              owner[serving] = c /\ serving < current[c]

(* Some thread waits for a client that is there and does not read. *)
Blocked ==
    \E c \in clients \cap stalled : writing[c] # {} \/ (conn[c] = "closing" /\ open[c])

(* If the queue thread goes on serving commands and handlers return, an    *)
(* acknowledged command is answered, unless its connection ends first or a *)
(* thread is held up by a client that does not read, be it another one     *)
(* (Dispatch, Handle, BroadcastEvent).                                     *)
AckedIsAnswered ==
    WF_vars(TakeCommand) /\ WF_vars(Reply) =>
        \A m \in Commands :
            told[m] = <<"ack">> ~>
                \/ told[m] = <<"ack", "answer">>
                \/ \E c \in Connections :
                        sent >= m /\ owner[m] = c /\ (conn[c] = "deaf" \/ ~open[c])
                \/ Blocked

(* A connection ends when its client has left, or when the process is told *)
(* to stop while it handles a message; unless the main thread is held up   *)
(* by another client that does not read (RunAsync, HandleConnection).      *)
EndsWhenAsked ==
    \A c \in Connections :
        \/ c \notin clients /\ conn[c] # "none"
        \/ stop /\ conn[c] \in {"acking", "replying"}
        ~> conn[c] \in {"gone", "deaf"} \/ Blocked

(* What EndPoint.cpp:276 says: a connection whose messages are no longer   *)
(* handled is removed from the list.                                       *)
EndedConnectionRemoved ==
    \A c \in Connections : conn[c] \in {"gone", "deaf"} => c \notin details

=============================================================================
