-------------------------- MODULE SessionsProofs --------------------------
(***************************************************************************)
(* Proofs about Sessions, for any number of connections, messages and      *)
(* events, whichever dispatchers the clients select.                       *)
(***************************************************************************)
EXTENDS Sessions, SequenceTheorems, TLAPS

(* The messages that are queued, served and handled. *)
MessageInv ==
    /\ \A i, j \in DOMAIN pending : pending[i] = pending[j] => i = j
    /\ \A i \in DOMAIN pending :
          /\ pending[i] \in 1..sent /\ kind[pending[i]] = "queued"
          /\ pending[i] # serving
    /\ serving # NoCommand => serving \in 1..sent /\ kind[serving] = "queued"
    /\ \A c \in Connections : current[c] # NoCommand =>
          /\ current[c] \in 1..sent /\ owner[current[c]] = c /\ kind[current[c]] # "bad"
          /\ \A i \in DOMAIN pending : owner[pending[i]] = c => pending[i] < current[c]
          /\ serving # NoCommand /\ owner[serving] = c => serving < current[c]

(* A connection that is not established yet has done nothing. *)
FreshInv ==
    \A c \in Connections : conn[c] \in {"none", "handshake"} =>
        /\ ~open[c] /\ writing[c] = {} /\ c \notin details
        /\ \A m \in 1..sent : owner[m] # c

(* One coroutine at a time is in its clean-up, and knows what it left. *)
RemovalInv ==
    /\ \A c, d \in Connections :
          conn[c] \in {"closing", "removing"} /\ conn[d] \in {"closing", "removing"} => c = d
    /\ \A c \in Connections :
          conn[c] = "removing" /\ serving # NoCommand /\ owner[serving] = c => serving \in stopped
    /\ NoCommandOfRemoved

(* Who may write to a connection. *)
RouteInv ==
    /\ \A m \in 1..sent : kind[m] = "queued" => via[owner[m]] = "service"
    /\ \A c \in Connections :
          /\ c \in members => via[c] = "service"
          /\ "main" \in writing[c] => conn[c] \in {"acking", "replying"}
          /\ "queue" \in writing[c] => queuePc = "reply" /\ owner[serving] = c
          /\ "events" \in writing[c] => via[c] = "service"

(* Messages whose answer is still to be told. *)
Unanswered ==
    {pending[i] : i \in DOMAIN pending}
    \cup (IF queuePc = "run" THEN {serving} ELSE {})
    \cup {current[c] : c \in {d \in Connections : conn[d] = "acking"}}

(* A message that was not acknowledged had a closed connection. *)
ToldInv ==
    \A m \in Commands :
        /\ told[m] \in {<<>>, <<"ack">>, <<"ack", "answer">>}
        /\ m > sent => told[m] = <<>>
        /\ m <= sent /\ told[m] = <<>> /\ kind[m] # "bad" => ~open[owner[m]]
        /\ m \in Unanswered => told[m] # <<"ack", "answer">>

IInv == TypeOK /\ MessageInv /\ FreshInv /\ RemovalInv /\ RouteInv /\ ToldInv

-----------------------------------------------------------------------------
(* What the steps of the threads do, connection by connection. *)

LEMMA RemoveAtFacts ==
    ASSUME NEW S, NEW s \in Seq(S), NEW i \in DOMAIN s
    PROVE  /\ Queue!RemoveAt(s, i) \in Seq(S)
           /\ Len(Queue!RemoveAt(s, i)) = Len(s) - 1
           /\ \A j \in DOMAIN Queue!RemoveAt(s, i) :
                /\ j \in Nat /\ j + 1 \in DOMAIN s /\ j \in DOMAIN s
                /\ Queue!RemoveAt(s, i)[j] = IF j < i THEN s[j] ELSE s[j + 1]
<1> DEFINE l == SubSeq(s, 1, i - 1)
           r == SubSeq(s, i + 1, Len(s))
<1>1. i \in 1..Len(s) /\ Len(s) \in Nat
  OBVIOUS
<1>2. l \in Seq(S) /\ Len(l) = i - 1 /\ \A j \in 1..(i - 1) : l[j] = s[j]
  BY <1>1
<1>3. r \in Seq(S) /\ Len(r) = Len(s) - i /\ \A j \in 1..(Len(s) - i) : r[j] = s[i + j]
  BY <1>1
<1>4. Queue!RemoveAt(s, i) = l \o r
  BY DEF Queue!RemoveAt
<1> HIDE DEF l, r
<1>5. QED
  BY <1>1, <1>2, <1>3, <1>4

LEMMA AppendFacts ==
    ASSUME NEW S, NEW n \in Nat, NEW s \in [1..n -> S], NEW x \in S
    PROVE  /\ Append(s, x) \in [1..(n + 1) -> S]
           /\ Append(s, x)[n + 1] = x
           /\ \A i \in 1..n : Append(s, x)[i] = s[i]
<1>1. s \in Seq(S)
  BY SeqDef
<1>2. Len(s) = n
  <2>1. Len(s) \in Nat /\ 1..Len(s) = 1..n
    BY <1>1, LenProperties
  <2>2. \A a, b \in Nat : 1..a = 1..b => a = b
    <3>1. SUFFICES ASSUME NEW a \in Nat, NEW b \in Nat, 1..a = 1..b, a < b PROVE FALSE
      OBVIOUS
    <3>2. b \in 1..b /\ b \notin 1..a
      BY <3>1
    <3>3. QED
      BY <3>1, <3>2
  <2>3. QED
    BY <2>1, <2>2
<1>3. Append(s, x) \in Seq(S) /\ Len(Append(s, x)) = n + 1
  BY <1>1, <1>2, AppendProperties
<1>4. Append(s, x)[n + 1] = x /\ \A i \in 1..n : Append(s, x)[i] = s[i]
  BY <1>1, <1>2, AppendProperties
<1>5. QED
  BY <1>3, <1>4, LenProperties

(* Two words, told one after the other. *)
LEMMA AckThenAnswer == Append(<<"ack">>, "answer") = <<"ack", "answer">>
<1> DEFINE Words == {"ack", "answer"}
           a == <<"ack">>
           t == <<"ack", "answer">>
           s == Append(a, "answer")
<1>1. a \in Seq(Words) /\ t \in Seq(Words) /\ "answer" \in Words
  <2>1. a \in Seq(Words)
    OBVIOUS
  <2>2. t \in Seq(Words)
    OBVIOUS
  <2>3. QED
    BY <2>1, <2>2
<1>2. Len(a) = 1 /\ a[1] = "ack"
  OBVIOUS
<1>3. Len(t) = 2 /\ t[1] = "ack" /\ t[2] = "answer"
  OBVIOUS
<1> HIDE DEF a, t, Words
<1>4. s \in Seq(Words) /\ Len(s) = 2
  <2>1. s \in Seq(Words)
    BY <1>1
  <2>2. Len(s) = 2
    <3>1. Len(s) = Len(a) + 1
      BY <1>1, AppendProperties
    <3>2. QED
      BY <1>2, <3>1
  <2>3. QED
    BY <2>1, <2>2
<1>5. s[1] = "ack"
  <2>1. \A i \in 1..Len(a) : s[i] = a[i]
    BY <1>1, AppendProperties
  <2>2. 1 \in 1..Len(a)
    BY <1>2
  <2>3. QED
    BY <1>2, <2>1, <2>2, Zenon
<1>6. s[2] = "answer"
  <2>1. s[Len(a) + 1] = "answer"
    BY <1>1, AppendProperties, Zenon
  <2>2. Len(a) + 1 = 2
    BY <1>2
  <2>3. QED
    BY <2>1, <2>2, Zenon
<1> HIDE DEF s
<1>7. \A i \in 1..2 : s[i] = t[i]
  <2>1. \A i \in 1..2 : i = 1 \/ i = 2
    OBVIOUS
  <2>2. QED
    BY <1>3, <1>5, <1>6, <2>1, Zenon
<1>8. s = t
  BY <1>1, <1>3, <1>4, <1>7, SeqEqual
<1>9. QED
  BY <1>8 DEF a, s, t

LEMMA ConnStepFacts ==
    ASSUME TypeOK, NEW c \in Connections, NEW pc \in ConnPcs, ConnStep(c, pc)
    PROVE  /\ conn' \in [Connections -> ConnPcs] /\ conn'[c] = pc
           /\ \A d \in Connections \ {c} : conn'[d] = conn[d]
           /\ clients' \subseteq clients
           /\ UNCHANGED <<via, acceptor, stalled, events, stop>>
BY DEF TypeOK, ConnStep

LEMMA WriteFacts ==
    ASSUME TypeOK, NEW c \in Connections, NEW thread \in Writers, Write(thread, c)
    PROVE  /\ writing' \in [Connections -> SUBSET Writers]
           /\ \A d \in Connections \ {c} : writing'[d] = writing[d]
           /\ writing'[c] \in {writing[c], writing[c] \cup {thread}}
BY DEF TypeOK, Write

LEMMA WrittenFacts ==
    ASSUME TypeOK, NEW c \in Connections, NEW thread \in Writers, Written(thread, c)
    PROVE  /\ writing' \in [Connections -> SUBSET Writers]
           /\ \A d \in Connections \ {c} : writing'[d] = writing[d]
           /\ writing'[c] = writing[c] \ {thread}
           /\ open' \in [Connections -> BOOLEAN]
           /\ \A d \in Connections : open'[d] => open[d]
           /\ told' = told
BY DEF TypeOK, Written

LEMMA TellFacts ==
    ASSUME TypeOK, NEW c \in Connections, NEW m \in Commands,
           NEW what \in {"ack", "answer"}, Tell(m, c, what)
    PROVE  /\ told' \in [Commands -> Seq({"ack", "answer"})]
           /\ \A n \in Commands \ {m} : told'[n] = told[n]
           /\ told'[m] = IF open[c] THEN Append(told[m], what) ELSE told[m]
<1>1. told[m] \in Seq({"ack", "answer"})
  BY DEF TypeOK
<1>2. Append(told[m], what) \in Seq({"ack", "answer"})
  BY <1>1
<1>3. QED
  BY <1>2 DEF TypeOK, Tell

(* A step that tells nothing and opens no connection. *)
LEMMA ToldFrame ==
    ASSUME TypeOK, MessageInv, ToldInv, UNCHANGED <<told, sent, owner, kind>>,
           \A c \in Connections : open'[c] => open[c],
           Unanswered' \subseteq Unanswered
    PROVE  ToldInv'
<1>1. \A m \in Commands : m <= sent => m \in 1..sent
  BY SessionsAssumption DEF TypeOK, Commands
<1>2. \A m \in 1..sent : owner[m] \in Connections
  BY DEF TypeOK
<1>3. QED
  BY <1>1, <1>2, Zenon DEF ToldInv

(* A step that leaves the messages where they are. *)
LEMMA UnansweredFrame ==
    ASSUME TypeOK, UNCHANGED <<pending, serving, queuePc, current>>,
           \A c \in Connections : conn'[c] = "acking" => conn[c] = "acking"
    PROVE  Unanswered' \subseteq Unanswered
<1>1. Unanswered' = {pending[i] : i \in DOMAIN pending}
                    \cup (IF queuePc = "run" THEN {serving} ELSE {})
                    \cup {current[c] : c \in {d \in Connections : conn'[d] = "acking"}}
  BY Zenon DEF Unanswered
<1>2. QED
  BY <1>1 DEF Unanswered


-----------------------------------------------------------------------------
(* Each step keeps the invariant. *)

LEMMA AcceptKeeps ==
    ASSUME IInv, NEW c \in Connections, Accept(c)
    PROVE  IInv'
<1> USE SessionsAssumption DEF IInv, Accept, listVars, inputVars, writeVars, queueVars
<1>1. TypeOK'
  BY DEF TypeOK, ConnPcs, Writers
<1>2. MessageInv'
  BY DEF MessageInv, TypeOK
<1>3. FreshInv'
  BY DEF FreshInv, TypeOK, ConnPcs
<1>4. RemovalInv'
  BY DEF RemovalInv, NoCommandOfRemoved, TypeOK, MessageInv, FreshInv, MainFree, ConnPcs
<1>5. RouteInv'
  BY DEF RouteInv, TypeOK, MessageInv, ConnPcs
<1>6. ToldInv'
  <2>1. \A d \in Connections : conn'[d] = "acking" => conn[d] = "acking"
    BY DEF TypeOK
  <2>2. \A d \in Connections : open'[d] => open[d]
    BY DEF TypeOK
  <2>3. QED
    BY <2>1, <2>2, ToldFrame, UnansweredFrame
<1>7. QED
  BY <1>1, <1>2, <1>3, <1>4, <1>5, <1>6

LEMMA RefuseKeeps ==
    ASSUME IInv, NEW c \in Connections, Refuse(c)
    PROVE  IInv'
<1> USE SessionsAssumption DEF IInv, Refuse, listVars, inputVars, writeVars, queueVars
<1>1. TypeOK'
  BY DEF TypeOK, ConnPcs, Writers
<1>2. MessageInv'
  BY DEF MessageInv, TypeOK
<1>3. FreshInv'
  BY DEF FreshInv, TypeOK, ConnPcs
<1>4. RemovalInv'
  BY DEF RemovalInv, NoCommandOfRemoved, TypeOK, MessageInv, FreshInv, MainFree, ConnPcs
<1>5. RouteInv'
  BY DEF RouteInv, TypeOK, MessageInv, ConnPcs
<1>6. ToldInv'
  <2>1. \A d \in Connections : conn'[d] = "acking" => conn[d] = "acking"
    BY DEF TypeOK
  <2>2. \A d \in Connections : open'[d] => open[d]
    BY DEF TypeOK
  <2>3. QED
    BY <2>1, <2>2, ToldFrame, UnansweredFrame
<1>7. QED
  BY <1>1, <1>2, <1>3, <1>4, <1>5, <1>6

LEMMA ReadFailsKeeps ==
    ASSUME IInv, NEW c \in Connections, ReadFails(c)
    PROVE  IInv'
<1> USE SessionsAssumption DEF IInv, ReadFails, At, ConnStep, listVars, inputVars, writeVars,
      queueVars
<1>1. TypeOK'
  BY DEF TypeOK, ConnPcs, Writers
<1>2. MessageInv'
  BY DEF MessageInv, TypeOK
<1>3. FreshInv'
  BY DEF FreshInv, TypeOK, ConnPcs
<1>4. RemovalInv'
  BY DEF RemovalInv, NoCommandOfRemoved, TypeOK, MessageInv, FreshInv, MainFree, ConnPcs
<1>5. RouteInv'
  BY DEF RouteInv, TypeOK, MessageInv, ConnPcs
<1>6. ToldInv'
  <2>1. \A d \in Connections : conn'[d] = "acking" => conn[d] = "acking"
    BY DEF TypeOK
  <2>2. \A d \in Connections : open'[d] => open[d]
    BY DEF TypeOK
  <2>3. QED
    BY <2>1, <2>2, ToldFrame, UnansweredFrame
<1>7. QED
  BY <1>1, <1>2, <1>3, <1>4, <1>5, <1>6

LEMMA CloseKeeps ==
    ASSUME IInv, NEW c \in Connections, Close(c)
    PROVE  IInv'
<1> USE SessionsAssumption DEF IInv, Close, At, ConnStep, MainFree, listVars, inputVars,
      writeVars, queueVars
<1>1. TypeOK'
  BY DEF TypeOK, ConnPcs, Writers
<1>2. MessageInv'
  BY DEF MessageInv, TypeOK
<1>3. FreshInv'
  BY DEF FreshInv, TypeOK, ConnPcs
<1>4. RemovalInv'
  BY DEF RemovalInv, NoCommandOfRemoved, TypeOK, MessageInv, FreshInv, MainFree, ConnPcs
<1>5. RouteInv'
  BY DEF RouteInv, TypeOK, MessageInv, ConnPcs
<1>6. ToldInv'
  <2>1. \A d \in Connections : conn'[d] = "acking" => conn[d] = "acking"
    BY DEF TypeOK
  <2>2. \A d \in Connections : open'[d] => open[d]
    BY DEF TypeOK
  <2>3. QED
    BY <2>1, <2>2, ToldFrame, UnansweredFrame
<1>7. QED
  BY <1>1, <1>2, <1>3, <1>4, <1>5, <1>6

LEMMA RemoveKeeps ==
    ASSUME IInv, NEW c \in Connections, Remove(c)
    PROVE  IInv'
<1> USE SessionsAssumption DEF IInv, Remove, Waiting, At, ConnStep, MainFree, listVars,
      inputVars, writeVars, queueVars
<1>1. TypeOK'
  BY DEF TypeOK, ConnPcs, Writers
<1>2. MessageInv'
  BY DEF MessageInv, TypeOK
<1>3. FreshInv'
  BY DEF FreshInv, TypeOK, ConnPcs
<1>4. RemovalInv'
  BY DEF RemovalInv, NoCommandOfRemoved, TypeOK, MessageInv, FreshInv, MainFree, ConnPcs
<1>5. RouteInv'
  BY DEF RouteInv, TypeOK, MessageInv, ConnPcs
<1>6. ToldInv'
  <2>1. \A d \in Connections : conn'[d] = "acking" => conn[d] = "acking"
    BY DEF TypeOK
  <2>2. \A d \in Connections : open'[d] => open[d]
    BY DEF TypeOK
  <2>3. QED
    BY <2>1, <2>2, ToldFrame, UnansweredFrame
<1>7. QED
  BY <1>1, <1>2, <1>3, <1>4, <1>5, <1>6

LEMMA SendEventKeeps ==
    ASSUME IInv, NEW c \in Connections, SendEvent(c)
    PROVE  IInv'
<1> USE SessionsAssumption DEF IInv, SendEvent, Write, EventStep, listVars,
      inputVars, writeVars, queueVars, clientVars
<1>1. TypeOK'
  BY DEF TypeOK, ConnPcs, Writers
<1>2. MessageInv'
  BY DEF MessageInv, TypeOK
<1>3. FreshInv'
  BY DEF FreshInv, TypeOK, ConnPcs
<1>4. RemovalInv'
  BY DEF RemovalInv, NoCommandOfRemoved, TypeOK, MessageInv, FreshInv, MainFree, ConnPcs
<1>5. RouteInv'
  BY DEF RouteInv, TypeOK, MessageInv, ConnPcs
<1>6. ToldInv'
  <2>1. \A d \in Connections : conn'[d] = "acking" => conn[d] = "acking"
    BY DEF TypeOK
  <2>2. \A d \in Connections : open'[d] => open[d]
    BY DEF TypeOK
  <2>3. QED
    BY <2>1, <2>2, ToldFrame, UnansweredFrame
<1>7. QED
  BY <1>1, <1>2, <1>3, <1>4, <1>5, <1>6

LEMMA EventSentKeeps ==
    ASSUME IInv, NEW c \in Connections, EventSent(c)
    PROVE  IInv'
<1> USE SessionsAssumption DEF IInv, EventSent, Written, EventStep, listVars,
      inputVars, writeVars, queueVars, clientVars
<1>1. TypeOK'
  BY DEF TypeOK, ConnPcs, Writers
<1>2. MessageInv'
  BY DEF MessageInv, TypeOK
<1>3. FreshInv'
  BY DEF FreshInv, TypeOK, ConnPcs
<1>4. RemovalInv'
  BY DEF RemovalInv, NoCommandOfRemoved, TypeOK, MessageInv, FreshInv, MainFree, ConnPcs
<1>5. RouteInv'
  BY DEF RouteInv, TypeOK, MessageInv, ConnPcs
<1>6. ToldInv'
  <2>1. \A d \in Connections : conn'[d] = "acking" => conn[d] = "acking"
    BY DEF TypeOK
  <2>2. \A d \in Connections : open'[d] => open[d]
    BY DEF TypeOK
  <2>3. QED
    BY <2>1, <2>2, ToldFrame, UnansweredFrame
<1>7. QED
  BY <1>1, <1>2, <1>3, <1>4, <1>5, <1>6

LEMMA LeaveKeeps ==
    ASSUME IInv, NEW c \in Connections, Leave(c)
    PROVE  IInv'
<1> USE SessionsAssumption DEF IInv, Leave, Outside, listVars, inputVars, writeVars, queueVars,
      clientVars
<1>1. TypeOK'
  BY DEF TypeOK, ConnPcs, Writers
<1>2. MessageInv'
  BY DEF MessageInv, TypeOK
<1>3. FreshInv'
  BY DEF FreshInv, TypeOK, ConnPcs
<1>4. RemovalInv'
  BY DEF RemovalInv, NoCommandOfRemoved, TypeOK, MessageInv, FreshInv, MainFree, ConnPcs
<1>5. RouteInv'
  BY DEF RouteInv, TypeOK, MessageInv, ConnPcs
<1>6. ToldInv'
  <2>1. \A d \in Connections : conn'[d] = "acking" => conn[d] = "acking"
    BY DEF TypeOK
  <2>2. \A d \in Connections : open'[d] => open[d]
    BY DEF TypeOK
  <2>3. QED
    BY <2>1, <2>2, ToldFrame, UnansweredFrame
<1>7. QED
  BY <1>1, <1>2, <1>3, <1>4, <1>5, <1>6

LEMMA StallKeeps ==
    ASSUME IInv, NEW c \in Connections, Stall(c)
    PROVE  IInv'
<1> USE SessionsAssumption DEF IInv, Stall, Outside, listVars, inputVars, writeVars, queueVars,
      clientVars
<1>1. TypeOK'
  BY DEF TypeOK, ConnPcs, Writers
<1>2. MessageInv'
  BY DEF MessageInv, TypeOK
<1>3. FreshInv'
  BY DEF FreshInv, TypeOK, ConnPcs
<1>4. RemovalInv'
  BY DEF RemovalInv, NoCommandOfRemoved, TypeOK, MessageInv, FreshInv, MainFree, ConnPcs
<1>5. RouteInv'
  BY DEF RouteInv, TypeOK, MessageInv, ConnPcs
<1>6. ToldInv'
  <2>1. \A d \in Connections : conn'[d] = "acking" => conn[d] = "acking"
    BY DEF TypeOK
  <2>2. \A d \in Connections : open'[d] => open[d]
    BY DEF TypeOK
  <2>3. QED
    BY <2>1, <2>2, ToldFrame, UnansweredFrame
<1>7. QED
  BY <1>1, <1>2, <1>3, <1>4, <1>5, <1>6

LEMMA EstablishKeeps ==
    ASSUME IInv, NEW c \in Connections, NEW v \in Uri[c], Establish(c, v)
    PROVE  IInv'
<1> USE SessionsAssumption DEF IInv, Establish, GoOn, listVars, inputVars, writeVars, queueVars,
      clientVars
<1>0. v \in {"publisher", "service"}
  BY DEF Connections
<1>1. TypeOK'
  BY <1>0 DEF TypeOK, ConnPcs, Writers
<1>2. MessageInv'
  BY DEF MessageInv, TypeOK, FreshInv, NoCommand
<1>3. FreshInv'
  BY DEF FreshInv, TypeOK, ConnPcs
<1>4. RemovalInv'
  BY DEF RemovalInv, NoCommandOfRemoved, TypeOK, MessageInv, FreshInv, MainFree, ConnPcs
<1>5. RouteInv'
  BY DEF RouteInv, TypeOK, MessageInv, ConnPcs, FreshInv
<1>6. ToldInv'
  <2>1. Unanswered' \subseteq Unanswered
    <3>1. \A d \in Connections : conn'[d] = "acking" => conn[d] = "acking"
      BY DEF TypeOK
    <3>2. QED
      BY <3>1, UnansweredFrame
  <2>2. \A m \in Commands : m <= sent => owner[m] # c /\ owner[m] \in Connections
    BY DEF TypeOK, FreshInv, Commands
  <2>3. \A d \in Connections \ {c} : open'[d] = open[d]
    BY DEF TypeOK
  <2>4. QED
    BY <2>1, <2>2, <2>3, Zenon DEF ToldInv
<1>7. QED
  BY <1>1, <1>2, <1>3, <1>4, <1>5, <1>6

LEMMA NoHandlerKeeps ==
    ASSUME IInv, NEW c \in Connections, NoHandler(c)
    PROVE  IInv'
<1> USE SessionsAssumption DEF IInv, NoHandler, At, ConnStep, Written, listVars, inputVars,
      writeVars, queueVars, clientVars
<1>1. TypeOK'
  BY DEF TypeOK, ConnPcs, Writers
<1>2. MessageInv'
  BY DEF MessageInv, TypeOK, FreshInv, NoCommand
<1>3. FreshInv'
  BY DEF FreshInv, TypeOK, ConnPcs
<1>4. RemovalInv'
  BY DEF RemovalInv, NoCommandOfRemoved, TypeOK, MessageInv, FreshInv, MainFree, ConnPcs
<1>5. RouteInv'
  BY DEF RouteInv, TypeOK, MessageInv, ConnPcs, FreshInv
<1>6. ToldInv'
  <2>1. Unanswered' \subseteq Unanswered
    BY DEF Unanswered, TypeOK
  <2>2. \A d \in Connections : open'[d] => open[d]
    BY DEF TypeOK
  <2>3. QED
    BY <2>1, <2>2, ToldFrame
<1>7. QED
  BY <1>1, <1>2, <1>3, <1>4, <1>5, <1>6

LEMMA RepliedKeeps ==
    ASSUME IInv, NEW c \in Connections, Replied(c)
    PROVE  IInv'
<1> USE SessionsAssumption DEF IInv, Replied, At, NextMessage, ConnStep, Written, listVars,
      inputVars, writeVars, queueVars, clientVars
<1>1. TypeOK'
  BY DEF TypeOK, ConnPcs, Writers
<1>2. MessageInv'
  BY DEF MessageInv, TypeOK, FreshInv, NoCommand
<1>3. FreshInv'
  BY DEF FreshInv, TypeOK, ConnPcs
<1>4. RemovalInv'
  BY DEF RemovalInv, NoCommandOfRemoved, TypeOK, MessageInv, FreshInv, MainFree, ConnPcs
<1>5. RouteInv'
  BY DEF RouteInv, TypeOK, MessageInv, ConnPcs, FreshInv
<1>6. ToldInv'
  <2>1. Unanswered' \subseteq Unanswered
    BY DEF Unanswered, TypeOK
  <2>2. \A d \in Connections : open'[d] => open[d]
    BY DEF TypeOK
  <2>3. QED
    BY <2>1, <2>2, ToldFrame
<1>7. QED
  BY <1>1, <1>2, <1>3, <1>4, <1>5, <1>6

LEMMA QueueRepliedKeeps ==
    ASSUME IInv, QueueReplied
    PROVE  IInv'
<1> USE SessionsAssumption DEF IInv, QueueReplied, QueueStep, Queue!EndService, listVars,
      inputVars, writeVars, queueVars, clientVars
<1>0. /\ writing' \in [Connections -> SUBSET Writers]
      /\ told' = told /\ open' \in [Connections -> BOOLEAN]
      /\ \A d \in Connections : writing'[d] \subseteq writing[d] /\ (open'[d] => open[d])
  <2>1. owner[serving] \in Connections
    BY DEF TypeOK, MessageInv
  <2>2. QED
    BY <2>1, WrittenFacts DEF Writers
<1>q. \A d \in Connections : "queue" \notin writing'[d]
  <2>1. owner[serving] \in Connections
    BY DEF TypeOK, MessageInv
  <2>2. /\ writing'[owner[serving]] = writing[owner[serving]] \ {"queue"}
        /\ \A d \in Connections \ {owner[serving]} : writing'[d] = writing[d]
    BY <2>1, WrittenFacts DEF Writers
  <2>3. QED
    BY <2>1, <2>2 DEF RouteInv
<1>1. TypeOK'
  BY <1>0 DEF TypeOK, ConnPcs, Writers
<1>2. MessageInv'
  BY DEF MessageInv, TypeOK, FreshInv, NoCommand
<1>3. FreshInv'
  <2>1. UNCHANGED <<conn, details, owner, sent>>
    OBVIOUS
  <2>2. \A d \in Connections : writing[d] = {} => writing'[d] = {}
    BY <1>0
  <2>3. \A d \in Connections : ~open[d] => ~open'[d]
    BY <1>0
  <2>4. QED
    BY <2>1, <2>2, <2>3, Zenon DEF FreshInv
<1>4. RemovalInv'
  BY DEF RemovalInv, NoCommandOfRemoved, TypeOK, MessageInv, FreshInv, MainFree, ConnPcs
<1>5. RouteInv'
  BY <1>0, <1>q DEF RouteInv, TypeOK, MessageInv, ConnPcs, FreshInv
<1>6. ToldInv'
  <2>1. Unanswered' \subseteq Unanswered
    BY DEF Unanswered, TypeOK
  <2>2. told' = told /\ \A d \in Connections : open'[d] => open[d]
    BY <1>0
  <2>3. QED
    BY <2>1, <2>2, ToldFrame
<1>7. QED
  BY <1>1, <1>2, <1>3, <1>4, <1>5, <1>6

LEMMA ShutdownKeeps ==
    ASSUME IInv, Shutdown
    PROVE  IInv'
<1> USE SessionsAssumption DEF IInv, Shutdown, Outside, listVars, inputVars, writeVars,
      queueVars, clientVars
<1>1. TypeOK'
  BY DEF TypeOK, ConnPcs, Writers
<1>2. MessageInv'
  BY DEF MessageInv, TypeOK, FreshInv, NoCommand
<1>3. FreshInv'
  BY DEF FreshInv, TypeOK, ConnPcs
<1>4. RemovalInv'
  BY DEF RemovalInv, NoCommandOfRemoved, TypeOK, MessageInv, FreshInv, MainFree, ConnPcs
<1>5. RouteInv'
  BY DEF RouteInv, TypeOK, MessageInv, ConnPcs, FreshInv
<1>6. ToldInv'
  <2>1. \A d \in Connections : conn'[d] = "acking" => conn[d] = "acking"
    BY DEF TypeOK
  <2>2. \A d \in Connections : open'[d] => open[d]
    BY DEF TypeOK
  <2>3. QED
    BY <2>1, <2>2, ToldFrame, UnansweredFrame
<1>7. QED
  BY <1>1, <1>2, <1>3, <1>4, <1>5, <1>6

LEMMA ReceiveKeeps ==
    ASSUME IInv, NEW c \in Connections, NEW k \in Kinds, Receive(c, k)
    PROVE  IInv'
<1> USE SessionsAssumption DEF IInv
<1> DEFINE n == sent + 1
<1>a. /\ n = sent + 1 /\ n \in Commands /\ n \notin 1..sent /\ sent' = n /\ sent \in Nat
      /\ owner' \in [1..n -> Connections] /\ kind' \in [1..n -> Kinds]
      /\ owner'[n] = c /\ kind'[n] = k
      /\ \A m \in 1..sent : m \in 1..n /\ owner'[m] = owner[m] /\ kind'[m] = kind[m]
      /\ 1..n = 1..sent \cup {n}
  <2>1. /\ sent \in Nat /\ sent < MaxCommands /\ sent' = n
        /\ owner' = Append(owner, c) /\ kind' = Append(kind, k)
        /\ owner \in [1..sent -> Connections] /\ kind \in [1..sent -> Kinds]
    BY DEF Receive, TypeOK
  <2>2. /\ n \in 1..MaxCommands /\ n \notin 1..sent /\ 1..n = 1..sent \cup {n}
    BY <2>1
  <2>3. /\ owner' \in [1..n -> Connections] /\ owner'[n] = c
        /\ \A m \in 1..sent : owner'[m] = owner[m]
    <3>1. Append(owner, c) \in [1..(sent + 1) -> Connections]
      BY <2>1, AppendFacts
    <3>2. Append(owner, c)[sent + 1] = c
      BY <2>1, AppendFacts
    <3>3. \A m \in 1..sent : Append(owner, c)[m] = owner[m]
      BY <2>1, AppendFacts
    <3>4. QED
      BY <2>1, <3>1, <3>2, <3>3, Zenon
  <2>4. /\ kind' \in [1..n -> Kinds] /\ kind'[n] = k
        /\ \A m \in 1..sent : kind'[m] = kind[m]
    <3>1. Append(kind, k) \in [1..(sent + 1) -> Kinds]
      BY <2>1, AppendFacts
    <3>2. Append(kind, k)[sent + 1] = k
      BY <2>1, AppendFacts
    <3>3. \A m \in 1..sent : Append(kind, k)[m] = kind[m]
      BY <2>1, AppendFacts
    <3>4. QED
      BY <2>1, <3>1, <3>2, <3>3, Zenon
  <2>5. QED
    BY <2>1, <2>2, <2>3, <2>4 DEF Commands
<1>b. /\ conn[c] = "reading" /\ conn' \in [Connections -> ConnPcs]
      /\ conn'[c] = IF k = "bad" THEN "deaf" ELSE "acking"
      /\ \A d \in Connections \ {c} : conn'[d] = conn[d]
      /\ clients' \subseteq clients
      /\ UNCHANGED <<via, acceptor, stalled, events, stop>>
  BY ConnStepFacts DEF Receive, At, ConnPcs
<1>c. UNCHANGED <<pending, serving, answer, queuePc, open, details, members, stopped>>
  BY DEF Receive, queueVars, listVars
<1>d. /\ current' \in [Connections -> Commands \cup {NoCommand}]
      /\ current'[c] = IF k = "bad" THEN NoCommand ELSE n
      /\ \A d \in Connections \ {c} : current'[d] = current[d]
  <2>1. current[c] = NoCommand
    BY <1>b DEF TypeOK
  <2>2. current' = IF k = "bad" THEN current ELSE [current EXCEPT ![c] = n]
    BY <1>a DEF Receive
  <2>3. n \in Commands /\ current \in [Connections -> Commands \cup {NoCommand}]
    BY <1>a DEF TypeOK
  <2> HIDE DEF n
  <2>4. QED
    BY <2>1, <2>2, <2>3
<1>e. /\ writing' \in [Connections -> SUBSET Writers]
      /\ \A d \in Connections \ {c} : writing'[d] = writing[d]
      /\ writing'[c] \in {writing[c], writing[c] \cup {"main"}}
      /\ "main" \in writing'[c] => k # "bad"
  <2>1. CASE k = "bad"
    BY <1>b, <2>1 DEF Receive, writeVars, TypeOK, RouteInv
  <2>2. CASE k # "bad"
    BY <2>2, WriteFacts DEF Receive, Writers
  <2>3. QED
    BY <2>1, <2>2
<1>f. /\ told' \in [Commands -> Seq({"ack", "answer"})]
      /\ \A m \in Commands \ {n} : told'[m] = told[m]
      /\ k = "bad" => told' = told
      /\ k # "bad" => told'[n] = IF open[c] THEN Append(told[n], "ack") ELSE told[n]
  <2>1. CASE k = "bad"
    BY <2>1 DEF Receive, writeVars, TypeOK
  <2>2. CASE k # "bad"
    BY <1>a, <2>2, TellFacts DEF Receive
  <2>3. QED
    BY <2>1, <2>2
<1>g. k = "queued" => via[c] = "service"
  BY DEF Receive, Decodes
<1> HIDE DEF n
<1>1. TypeOK'
  <2>1. \A d \in Connections : current'[d] # NoCommand <=> conn'[d] \in {"acking", "replying"}
    <3>1. n # NoCommand
      BY <1>a DEF Commands, NoCommand
    <3>2. current'[c] # NoCommand <=> conn'[c] \in {"acking", "replying"}
      BY <1>b, <1>d, <3>1
    <3>3. \A d \in Connections \ {c} : current'[d] # NoCommand <=> conn'[d] \in {"acking",
          "replying"}
      BY <1>b, <1>d DEF TypeOK
    <3>4. QED
      BY <3>2, <3>3
  <2>2. sent' \in 0..MaxCommands /\ sent' = n
    BY <1>a DEF Commands
  <2>3. clients' \subseteq Connections /\ stalled' \subseteq Connections /\ events' \in 0..MaxEvents /\ stop' \in BOOLEAN
    BY <1>b DEF TypeOK
  <2>4. QED
    BY <1>a, <1>b, <1>c, <1>d, <1>e, <1>f, <2>1, <2>2, <2>3 DEF TypeOK
<1>2. MessageInv'
  <2>1. \A i \in DOMAIN pending :
          /\ pending[i] \in 1..n /\ kind'[pending[i]] = "queued"
          /\ owner'[pending[i]] = owner[pending[i]] /\ pending[i] # serving
    BY <1>a DEF MessageInv
  <2>2. serving # NoCommand =>
          /\ serving \in 1..n /\ kind'[serving] = "queued" /\ owner'[serving] = owner[serving]
    BY <1>a DEF MessageInv
  <2>3. ASSUME NEW d \in Connections, current'[d] # NoCommand
        PROVE  /\ current'[d] \in 1..n /\ owner'[current'[d]] = d /\ kind'[current'[d]] # "bad"
               /\ \A i \in DOMAIN pending : owner[pending[i]] = d => pending[i] < current'[d]
               /\ serving # NoCommand /\ owner[serving] = d => serving < current'[d]
    <3>1. CASE d = c
      <4>1. current'[d] = n /\ k # "bad"
        BY <1>d, <2>3, <3>1
      <4>2. \A m \in 1..sent : m < n
        BY <1>a
      <4>3. QED
        BY <1>a, <3>1, <4>1, <4>2 DEF MessageInv
    <3>2. CASE d # c
      BY <1>a, <1>d, <2>3, <3>2 DEF MessageInv
    <3>3. QED
      BY <3>1, <3>2
  <2>4. QED
    BY <1>a, <1>c, <2>1, <2>2, <2>3 DEF MessageInv
<1>3. FreshInv'
  <2>1. SUFFICES ASSUME NEW d \in Connections, conn'[d] \in {"none", "handshake"}
                 PROVE  /\ ~open[d] /\ writing'[d] = {} /\ d \notin details
                        /\ \A m \in 1..n : owner'[m] # d
    BY <1>a, <1>c DEF FreshInv
  <2>2. d # c /\ conn[d] \in {"none", "handshake"}
    BY <1>b, <2>1
  <2>3. QED
    BY <1>a, <1>e, <2>2 DEF FreshInv
<1>4. RemovalInv'
  <2>1. NoCommandOfRemoved'
    BY <1>a, <1>b, <1>c DEF RemovalInv, NoCommandOfRemoved, MessageInv
  <2>2. QED
    BY <1>a, <1>b, <1>c, <2>1 DEF RemovalInv, MessageInv
<1>5. RouteInv'
  <2>1. \A m \in 1..n : kind'[m] = "queued" => via[owner'[m]] = "service"
    BY <1>a, <1>g DEF RouteInv
  <2>2. serving # NoCommand => owner'[serving] = owner[serving]
    BY <1>a DEF MessageInv
  <2>3. ASSUME NEW d \in Connections
        PROVE  /\ d \in members => via[d] = "service"
               /\ "main" \in writing'[d] => conn'[d] \in {"acking", "replying"}
               /\ "queue" \in writing'[d] => queuePc = "reply" /\ owner'[serving] = d
               /\ "events" \in writing'[d] => via[d] = "service"
    <3>1. "main" \in writing'[d] => conn'[d] \in {"acking", "replying"}
      BY <1>b, <1>e DEF RouteInv
    <3>2. \A w \in {"queue", "events"} : w \in writing'[d] => w \in writing[d]
      BY <1>e
    <3>3. queuePc = "reply" => serving # NoCommand
      BY DEF TypeOK
    <3>4. QED
      BY <2>2, <3>1, <3>2, <3>3 DEF RouteInv
  <2>4. QED
    BY <1>a, <1>b, <1>c, <2>1, <2>3 DEF RouteInv
<1>6. ToldInv'
  <2>1. Unanswered' \subseteq Unanswered \cup {n}
    BY <1>a, <1>b, <1>c, <1>d DEF Unanswered
  <2>2. told[n] = <<>>
    BY <1>a DEF ToldInv
  <2>3. told'[n] \in {<<>>, <<"ack">>} /\ (told'[n] = <<>> => k = "bad" \/ ~open[c])
    <3>1. Append(told[n], "ack") = <<"ack">> /\ <<"ack">> # <<>>
      BY <2>2
    <3>2. QED
      BY <1>f, <2>2, <3>1
  <2>4. \A m \in Commands : m > n => m > sent
    BY <1>a DEF Commands
  <2>5. \A m \in Commands : m <= n /\ m # n => m <= sent /\ m \in 1..sent
    BY <1>a DEF Commands
  <2>6. <<"ack">> # <<"ack", "answer">> /\ <<>> # <<"ack", "answer">>
    OBVIOUS
  <2>7. \A m \in Commands \ {n} :
          /\ told'[m] \in {<<>>, <<"ack">>, <<"ack", "answer">>}
          /\ m > n => told'[m] = <<>>
          /\ m <= n /\ told'[m] = <<>> /\ kind'[m] # "bad" => ~open[owner'[m]]
          /\ m \in Unanswered' => told'[m] # <<"ack", "answer">>
    BY <1>a, <1>f, <2>1, <2>4, <2>5 DEF ToldInv
  <2>8. /\ told'[n] \in {<<>>, <<"ack">>, <<"ack", "answer">>}
        /\ ~(n > n)
        /\ told'[n] = <<>> /\ kind'[n] # "bad" => ~open[owner'[n]]
        /\ told'[n] # <<"ack", "answer">>
    <3>1. ~(n > n)
      BY <1>a
    <3>2. QED
      BY <1>a, <2>3, <2>6, <3>1, Zenon
  <2>9. \A m \in Commands :
          /\ told'[m] \in {<<>>, <<"ack">>, <<"ack", "answer">>}
          /\ m > n => told'[m] = <<>>
          /\ m <= n /\ told'[m] = <<>> /\ kind'[m] # "bad" => ~open[owner'[m]]
          /\ m \in Unanswered' => told'[m] # <<"ack", "answer">>
    <3>1. SUFFICES ASSUME NEW m \in Commands
                   PROVE  /\ told'[m] \in {<<>>, <<"ack">>, <<"ack", "answer">>}
                          /\ m > n => told'[m] = <<>>
                          /\ m <= n /\ told'[m] = <<>> /\ kind'[m] # "bad" => ~open[owner'[m]]
                          /\ m \in Unanswered' => told'[m] # <<"ack", "answer">>
      OBVIOUS
    <3>2. CASE m = n
      BY <2>8, <3>2, Zenon
    <3>3. CASE m # n
      BY <2>7, <3>3
    <3>4. QED
      BY <3>2, <3>3
  <2>10. QED
    BY <1>a, <1>c, <2>9, Zenon DEF ToldInv
<1>7. QED
  BY <1>1, <1>2, <1>3, <1>4, <1>5, <1>6

LEMMA AcknowledgedKeeps ==
    ASSUME IInv, NEW c \in Connections, Acknowledged(c)
    PROVE  IInv'
<1> USE SessionsAssumption DEF IInv
<1> DEFINE m == current[c]
<1>a. /\ m \in 1..sent /\ m \in Commands /\ m # NoCommand /\ owner[m] = c /\ kind[m] = "queued"
      /\ \A i \in DOMAIN pending : pending[i] \in Nat /\ pending[i] # m
      /\ serving # m
  BY DEF Acknowledged, At, TypeOK, MessageInv, Commands, NoCommand
<1>b. /\ conn[c] = "acking" /\ conn' \in [Connections -> ConnPcs]
      /\ conn'[c] \in {"closing", "reading"}
      /\ \A d \in Connections \ {c} : conn'[d] = conn[d]
      /\ clients' \subseteq clients
      /\ UNCHANGED <<via, acceptor, stalled, events, stop>>
  BY ConnStepFacts DEF Acknowledged, At, NextMessage, ConnPcs
<1>c. UNCHANGED <<serving, answer, queuePc, details, members, sent, owner, kind>>
  BY DEF Acknowledged, listVars, inputVars, Queue!Accept
<1>d. /\ current' \in [Connections -> Commands \cup {NoCommand}]
      /\ current'[c] = NoCommand
      /\ \A d \in Connections \ {c} : current'[d] = current[d]
  BY DEF Acknowledged, NextMessage, TypeOK
<1>e. /\ writing' \in [Connections -> SUBSET Writers]
      /\ \A d \in Connections \ {c} : writing'[d] = writing[d]
      /\ writing'[c] = writing[c] \ {"main"}
      /\ open' \in [Connections -> BOOLEAN]
      /\ \A d \in Connections : open'[d] => open[d]
      /\ told' = told
  BY WrittenFacts DEF Acknowledged, Writers
<1>f. /\ pending' = Append(pending, m) /\ pending' \in Seq(Commands)
      /\ DOMAIN pending' = DOMAIN pending \cup {Len(pending) + 1}
      /\ pending'[Len(pending) + 1] = m
      /\ \A i \in DOMAIN pending : pending'[i] = pending[i] /\ i # Len(pending) + 1
  BY <1>a DEF Acknowledged, Queue!Accept, TypeOK
<1>g. stopped \subseteq stopped' /\ stopped' \subseteq Commands
  BY <1>a DEF Acknowledged, TypeOK
<1>h. MainFree(c)
  BY DEF Acknowledged, At
<1> HIDE DEF m
<1>1. TypeOK'
  <2>1. \A d \in Connections : current'[d] # NoCommand <=> conn'[d] \in {"acking", "replying"}
    BY <1>b, <1>d DEF TypeOK
  <2>2. clients' \subseteq Connections /\ stalled' \subseteq Connections
    BY <1>b DEF TypeOK
  <2>3. QED
    BY <1>b, <1>c, <1>d, <1>e, <1>f, <1>g, <2>1, <2>2 DEF TypeOK
<1>2. MessageInv'
  <2>1. \A i, j \in DOMAIN pending' : pending'[i] = pending'[j] => i = j
    BY <1>a, <1>f DEF MessageInv
  <2>2. \A i \in DOMAIN pending' :
          pending'[i] = m \/ \E j \in DOMAIN pending : pending'[i] = pending[j]
    BY <1>f
  <2>3. \A i \in DOMAIN pending' :
          /\ pending'[i] \in 1..sent /\ kind[pending'[i]] = "queued"
          /\ pending'[i] # serving
    BY <1>a, <2>2 DEF MessageInv
  <2>4. ASSUME NEW d \in Connections, current'[d] # NoCommand
        PROVE  /\ current'[d] \in 1..sent /\ owner[current'[d]] = d /\ kind[current'[d]] # "bad"
               /\ \A i \in DOMAIN pending' : owner[pending'[i]] = d => pending'[i] < current'[d]
               /\ serving # NoCommand /\ owner[serving] = d => serving < current'[d]
    <3>1. d # c /\ current'[d] = current[d]
      BY <1>d, <2>4
    <3>2. \A i \in DOMAIN pending' : owner[pending'[i]] = d =>
             \E j \in DOMAIN pending : pending'[i] = pending[j]
      BY <1>a, <2>2, <3>1
    <3>3. QED
      BY <2>4, <3>1, <3>2 DEF MessageInv
  <2>5. QED
    BY <1>c, <2>1, <2>3, <2>4 DEF MessageInv
<1>3. FreshInv'
  BY <1>b, <1>c, <1>e DEF FreshInv
<1>4. RemovalInv'
  <2>1. NoCommandOfRemoved'
    <3>1. SUFFICES ASSUME NEW d \in Connections, conn'[d] = "gone"
                   PROVE  /\ \A i \in DOMAIN pending' : owner[pending'[i]] # d
                          /\ serving # NoCommand /\ owner[serving] = d => serving \in stopped'
      BY <1>c DEF NoCommandOfRemoved
    <3>2. d # c /\ conn[d] = "gone"
      BY <1>b, <3>1
    <3>3. \A i \in DOMAIN pending' :
            pending'[i] = m \/ \E j \in DOMAIN pending : pending'[i] = pending[j]
      BY <1>f
    <3>4. QED
      BY <1>a, <1>g, <3>2, <3>3 DEF RemovalInv, NoCommandOfRemoved
  <2>2. QED
    BY <1>b, <1>c, <1>g, <1>h, <2>1 DEF RemovalInv, MainFree
<1>5. RouteInv'
  BY <1>b, <1>c, <1>e DEF RouteInv
<1>6. ToldInv'
  <2>1. Unanswered' \subseteq Unanswered
    <3>1. m \in Unanswered
      BY <1>b DEF Unanswered, m
    <3>2. ASSUME NEW x \in Unanswered' PROVE x \in Unanswered
      <4>1. \/ \E i \in DOMAIN pending' : x = pending'[i]
            \/ queuePc = "run" /\ x = serving
            \/ \E d \in Connections : conn'[d] = "acking" /\ x = current'[d]
        BY <1>c, <3>2 DEF Unanswered
      <4>2. (\E i \in DOMAIN pending' : x = pending'[i])
              => x = m \/ \E i \in DOMAIN pending : x = pending[i]
        BY <1>f
      <4>3. (\E d \in Connections : conn'[d] = "acking" /\ x = current'[d])
              => \E d \in Connections : conn[d] = "acking" /\ x = current[d]
        BY <1>b, <1>d
      <4>4. QED
        BY <3>1, <4>1, <4>2, <4>3 DEF Unanswered
    <3>3. QED
      BY <3>2
  <2>2. QED
    BY <1>c, <1>e, <2>1, ToldFrame
<1>7. QED
  BY <1>1, <1>2, <1>3, <1>4, <1>5, <1>6

(* A step that answers a message which then waits for no answer any more. *)
LEMMA AnswerTold ==
    ASSUME TypeOK, ToldInv, NEW m \in Commands, NEW c \in Connections,
           m \in Unanswered, m <= sent, owner[m] = c, kind[m] # "bad",
           Tell(m, c, "answer"), UNCHANGED <<sent, owner, kind, open>>,
           Unanswered' \subseteq Unanswered \ {m}
    PROVE  ToldInv'
<1>1. told[m] \in {<<>>, <<"ack">>} /\ (told[m] = <<>> => ~open[c])
  BY DEF ToldInv
<1>2. /\ told'[m] = IF open[c] THEN Append(told[m], "answer") ELSE told[m]
      /\ \A n \in Commands \ {m} : told'[n] = told[n]
  BY TellFacts
<1>3. told'[m] \in {<<>>, <<"ack">>, <<"ack", "answer">>} /\ (told'[m] = <<>> => ~open[c])
  <2>1. Append(<<"ack">>, "answer") = <<"ack", "answer">>
    BY AckThenAnswer
  <2>2. <<"ack", "answer">> # <<>>
    OBVIOUS
  <2>3. QED
    BY <1>1, <1>2, <2>1, <2>2, Zenon
<1>4. SUFFICES ASSUME NEW n \in Commands
               PROVE  /\ told'[n] \in {<<>>, <<"ack">>, <<"ack", "answer">>}
                      /\ n > sent => told'[n] = <<>>
                      /\ n <= sent /\ told'[n] = <<>> /\ kind[n] # "bad" => ~open[owner[n]]
                      /\ n \in Unanswered' => told'[n] # <<"ack", "answer">>
  BY Zenon DEF ToldInv
<1>5. CASE n = m
  <2>1. ~(m > sent) /\ m \notin Unanswered'
    BY SessionsAssumption DEF TypeOK, Commands
  <2>2. QED
    BY <1>3, <1>5, <2>1, Zenon
<1>6. CASE n # m
  <2>1. told'[n] = told[n]
    BY <1>2, <1>6
  <2>2. n \in Unanswered' => n \in Unanswered
    OBVIOUS
  <2>3. QED
    BY <2>1, <2>2, Zenon DEF ToldInv
<1>7. QED
  BY <1>5, <1>6

LEMMA ExecuteKeeps ==
    ASSUME IInv, NEW c \in Connections, Execute(c)
    PROVE  IInv'
<1> USE SessionsAssumption DEF IInv
<1> DEFINE m == current[c]
<1>a. /\ m \in 1..sent /\ m \in Commands /\ m # NoCommand /\ owner[m] = c /\ kind[m] = "async"
      /\ \A i \in DOMAIN pending : pending[i] # m
      /\ serving # m
  BY DEF Execute, At, TypeOK, MessageInv, Commands, NoCommand
<1>b. /\ conn[c] = "acking" /\ conn' \in [Connections -> ConnPcs]
      /\ conn'[c] = "replying"
      /\ \A d \in Connections \ {c} : conn'[d] = conn[d]
      /\ clients' \subseteq clients
      /\ UNCHANGED <<via, acceptor, stalled, events, stop>>
  BY ConnStepFacts DEF Execute, At, ConnPcs
<1>c. UNCHANGED <<pending, serving, answer, queuePc, details, members, current, stopped,
                  sent, owner, kind>>
  BY DEF Execute, listVars, inputVars, queueVars
<1>d. \/ Tell(m, c, "answer") /\ open' = open /\ writing' = writing
      \/ /\ open' = [open EXCEPT ![c] = FALSE] /\ told' = told
         /\ writing' = [writing EXCEPT ![c] = @ \ {"main"}]
  BY DEF Execute
<1>e. /\ writing' \in [Connections -> SUBSET Writers]
      /\ \A d \in Connections \ {c} : writing'[d] = writing[d]
      /\ writing'[c] \subseteq writing[c]
      /\ open' \in [Connections -> BOOLEAN]
      /\ \A d \in Connections : open'[d] => open[d]
  <2>1. open \in [Connections -> BOOLEAN] /\ writing \in [Connections -> SUBSET Writers]
    BY DEF TypeOK
  <2>2. CASE open' = open /\ writing' = writing
    BY <2>1, <2>2
  <2>3. CASE /\ open' = [open EXCEPT ![c] = FALSE]
             /\ writing' = [writing EXCEPT ![c] = @ \ {"main"}]
    BY <2>1, <2>3
  <2>4. QED
    BY <1>d, <2>2, <2>3
<1>f. told' \in [Commands -> Seq({"ack", "answer"})]
  BY <1>a, <1>d, TellFacts DEF TypeOK
<1> HIDE DEF m
<1>1. TypeOK'
  <2>1. \A d \in Connections : current'[d] # NoCommand <=> conn'[d] \in {"acking", "replying"}
    BY <1>b, <1>c DEF TypeOK
  <2>2. clients' \subseteq Connections /\ stalled' \subseteq Connections
    BY <1>b DEF TypeOK
  <2>3. QED
    BY <1>b, <1>c, <1>e, <1>f, <2>1, <2>2 DEF TypeOK
<1>2. MessageInv'
  BY <1>c DEF MessageInv
<1>3. FreshInv'
  BY <1>b, <1>c, <1>e DEF FreshInv
<1>4. RemovalInv'
  BY <1>b, <1>c DEF RemovalInv, NoCommandOfRemoved
<1>5. RouteInv'
  BY <1>b, <1>c, <1>e DEF RouteInv
<1>6. ToldInv'
  <2>1. Unanswered' \subseteq Unanswered \ {m}
    <3>1. ASSUME NEW x \in Unanswered' PROVE x \in Unanswered /\ x # m
      <4>1. \/ \E i \in DOMAIN pending : x = pending[i]
            \/ queuePc = "run" /\ x = serving
            \/ \E d \in Connections : conn'[d] = "acking" /\ x = current[d]
        BY <1>c, <3>1 DEF Unanswered
      <4>2. \A d \in Connections : conn'[d] = "acking" => d # c /\ conn[d] = "acking"
        BY <1>b
      <4>3. \A d \in Connections : conn[d] = "acking" => owner[current[d]] = d
        BY DEF TypeOK, MessageInv
      <4>4. QED
        BY <1>a, <4>1, <4>2, <4>3 DEF Unanswered
    <3>2. QED
      BY <3>1
  <2>2. m \in Unanswered
    BY <1>b DEF Unanswered, m
  <2>3. CASE told' = told
    BY <1>c, <1>e, <2>1, <2>3, ToldFrame
  <2>4. CASE Tell(m, c, "answer") /\ open' = open
    <3>1. m <= sent /\ kind[m] # "bad"
      BY <1>a DEF TypeOK
    <3>2. QED
      BY <1>a, <1>c, <2>1, <2>2, <2>4, <3>1, AnswerTold
  <2>5. QED
    BY <1>d, <2>3, <2>4
<1>7. QED
  BY <1>1, <1>2, <1>3, <1>4, <1>5, <1>6

LEMMA ReplyKeeps ==
    ASSUME IInv, Reply
    PROVE  IInv'
<1> USE SessionsAssumption DEF IInv
<1> DEFINE m == serving
           c == owner[serving]
<1>a. /\ m \in 1..sent /\ m \in Commands /\ m # NoCommand /\ c \in Connections /\ kind[m] = "queued"
      /\ \A i \in DOMAIN pending : pending[i] # m
      /\ \A d \in Connections : current[d] # NoCommand => current[d] # m
  <2>1. m # NoCommand /\ m \in 1..sent
    BY DEF Reply, Queue!Answer, MessageInv
  <2>2. c \in Connections /\ m \in Commands
    BY <2>1 DEF TypeOK, Commands
  <2>3. ASSUME NEW d \in Connections, current[d] = m PROVE FALSE
    <3>1. owner[m] = d /\ m < m
      BY <2>1, <2>3 DEF MessageInv
    <3>2. QED
      BY <2>1, <3>1 DEF TypeOK
  <2>4. QED
    BY <2>1, <2>2, <2>3 DEF MessageInv
<1>b. queuePc = "run" /\ queuePc' = "reply"
  BY DEF Reply, QueueStep
<1>c. UNCHANGED <<pending, serving, conn, via, open, current, details, members, acceptor, clients,
                  stalled, sent, owner, kind, stopped, events, stop>>
  BY DEF Reply, QueueStep, Queue!Answer, listVars, inputVars, clientVars
<1>d. answer' \in [Commands -> {"none"} \cup Queue!FinalAnswers]
  BY <1>a DEF Reply, Queue!Answer, TypeOK, Queue!FinalAnswers
<1>e. /\ writing' \in [Connections -> SUBSET Writers]
      /\ \A d \in Connections \ {c} : writing'[d] = writing[d]
      /\ writing'[c] \in {writing[c], writing[c] \cup {"queue"}}
  BY <1>a, WriteFacts DEF Reply, Writers
<1>f. Tell(m, c, "answer")
  BY DEF Reply
<1>g. told' \in [Commands -> Seq({"ack", "answer"})]
  BY <1>a, <1>f, TellFacts
<1>h. \A i \in DOMAIN pending : pending[i] # m
  BY <1>a
<1> HIDE DEF m, c
<1>1. TypeOK'
  BY <1>b, <1>c, <1>d, <1>e, <1>g DEF TypeOK
<1>2. MessageInv'
  BY <1>c DEF MessageInv
<1>3. FreshInv'
  <2>1. \A d \in Connections : conn[d] \in {"none", "handshake"} => d # c
    BY <1>a DEF FreshInv, c, m
  <2>2. QED
    BY <1>c, <1>e, <2>1 DEF FreshInv
<1>4. RemovalInv'
  BY <1>c DEF RemovalInv, NoCommandOfRemoved
<1>5. RouteInv'
  <2>1. c = owner[serving]
    BY DEF c
  <2>2. \A d \in Connections : "queue" \notin writing[d]
    BY <1>b DEF RouteInv
  <2>3. \A d \in Connections : "queue" \in writing'[d] => owner[serving] = d
    BY <1>e, <2>1, <2>2
  <2>4. \A d \in Connections : \A w \in {"main", "events"} : w \in writing'[d] => w \in writing[d]
    BY <1>e
  <2>5. QED
    BY <1>b, <1>c, <2>3, <2>4 DEF RouteInv
<1>6. ToldInv'
  <2>1. Unanswered' \subseteq Unanswered \ {m}
    <3>1. ASSUME NEW x \in Unanswered' PROVE x \in Unanswered /\ x # m
      <4>1. \/ \E i \in DOMAIN pending : x = pending[i]
            \/ \E d \in Connections : conn[d] = "acking" /\ x = current[d]
        BY <1>b, <1>c, <3>1 DEF Unanswered
      <4>2. \A d \in Connections : conn[d] = "acking" => current[d] # NoCommand
        BY DEF TypeOK
      <4>3. QED
        BY <1>a, <4>1, <4>2 DEF Unanswered
    <3>2. QED
      BY <3>1
  <2>2. m \in Unanswered /\ owner[m] = c
    BY <1>b DEF Unanswered, m, c
  <2>3. m <= sent /\ kind[m] # "bad"
    BY <1>a DEF TypeOK
  <2>4. QED
    BY <1>a, <1>c, <1>f, <2>1, <2>2, <2>3, AnswerTold
<1>7. QED
  BY <1>1, <1>2, <1>3, <1>4, <1>5, <1>6

LEMMA WithdrawKeeps ==
    ASSUME IInv, NEW c \in Connections, Withdraw(c)
    PROVE  IInv'
<1> USE SessionsAssumption DEF IInv
<1>a. PICK i \in Waiting(c) : Queue!Withdraw(i)
  BY DEF Withdraw
<1>b. UNCHANGED <<serving, queuePc, conn, via, open, current, details, members, acceptor, clients,
                  stalled, sent, owner, kind, told, writing, stopped, events, stop>>
  BY <1>a DEF Withdraw, Queue!Withdraw, listVars, inputVars, clientVars, writeVars
<1>c. /\ pending' \in Seq(Commands)
      /\ \A j \in DOMAIN pending' :
           /\ j \in Nat /\ j + 1 \in DOMAIN pending /\ j \in DOMAIN pending
           /\ pending'[j] = IF j < i THEN pending[j] ELSE pending[j + 1]
  <2>1. i \in DOMAIN pending /\ pending \in Seq(Commands)
    BY DEF Waiting, TypeOK
  <2>2. pending' = Queue!RemoveAt(pending, i)
    BY <1>a DEF Queue!Withdraw
  <2>3. QED
    BY <2>1, <2>2, RemoveAtFacts
<1>d. i \in Nat
  BY DEF Waiting, TypeOK
<1>e. \A j \in DOMAIN pending' : \E n \in DOMAIN pending : pending'[j] = pending[n]
  BY <1>c
<1>f. \A j, n \in DOMAIN pending' : pending'[j] = pending'[n] => j = n
  <2>1. SUFFICES ASSUME NEW j \in DOMAIN pending', NEW n \in DOMAIN pending',
                        pending'[j] = pending'[n]
                 PROVE  j = n
    OBVIOUS
  <2>2. DEFINE a == IF j < i THEN j ELSE j + 1
               b == IF n < i THEN n ELSE n + 1
  <2>3. /\ a \in DOMAIN pending /\ b \in DOMAIN pending
        /\ pending'[j] = pending[a] /\ pending'[n] = pending[b]
    BY <1>c
  <2>4. a = b
    <3> HIDE DEF a, b
    <3>1. QED
      BY <2>1, <2>3 DEF MessageInv
  <2>5. QED
    BY <1>c, <1>d, <2>4
<1>g. answer' \in [Commands -> {"none"} \cup Queue!FinalAnswers]
  BY <1>a DEF Queue!Withdraw, TypeOK, Queue!FinalAnswers
<1>1. TypeOK'
  BY <1>b, <1>c, <1>g DEF TypeOK
<1>2. MessageInv'
  BY <1>b, <1>e, <1>f DEF MessageInv
<1>3. FreshInv'
  BY <1>b DEF FreshInv
<1>4. RemovalInv'
  BY <1>b, <1>e DEF RemovalInv, NoCommandOfRemoved
<1>5. RouteInv'
  BY <1>b DEF RouteInv
<1>6. ToldInv'
  <2>1. Unanswered' \subseteq Unanswered
    BY <1>b, <1>e DEF Unanswered
  <2>2. QED
    BY <1>b, <2>1, ToldFrame
<1>7. QED
  BY <1>1, <1>2, <1>3, <1>4, <1>5, <1>6

LEMMA TakeCommandKeeps ==
    ASSUME IInv, TakeCommand
    PROVE  IInv'
<1> USE SessionsAssumption DEF IInv
<1>a. /\ queuePc = "idle" /\ queuePc' = "run" /\ serving = NoCommand
      /\ pending # <<>> /\ serving' = Head(pending) /\ pending' = Tail(pending)
  BY DEF TakeCommand, QueueStep, Queue!BeginService
<1>b. UNCHANGED <<answer, conn, via, open, current, details, members, acceptor, clients,
                  stalled, sent, owner, kind, told, writing, stopped, events, stop>>
  BY DEF TakeCommand, QueueStep, Queue!BeginService, listVars, inputVars, clientVars, writeVars
<1>c. 1 \in DOMAIN pending /\ serving' = pending[1] /\ serving' \in Commands /\ serving' # NoCommand
  BY <1>a DEF TypeOK, Commands, NoCommand
<1>d. /\ pending' \in Seq(Commands)
      /\ \A j \in DOMAIN pending' :
           j + 1 \in DOMAIN pending /\ j + 1 # 1 /\ pending'[j] = pending[j + 1]
  BY <1>a DEF TypeOK
<1>e. \A j \in DOMAIN pending' :
        pending'[j] # pending[1] /\ \E n \in DOMAIN pending : pending'[j] = pending[n]
  BY <1>c, <1>d DEF MessageInv
<1>f. \A j, n \in DOMAIN pending' : pending'[j] = pending'[n] => j = n
  BY <1>d DEF MessageInv
<1>1. TypeOK'
  BY <1>a, <1>b, <1>c, <1>d DEF TypeOK
<1>2. MessageInv'
  <2>1. \A j \in DOMAIN pending' :
          /\ pending'[j] \in 1..sent /\ kind[pending'[j]] = "queued"
          /\ pending'[j] # serving'
    BY <1>c, <1>e DEF MessageInv
  <2>2. serving' \in 1..sent /\ kind[serving'] = "queued"
    BY <1>c DEF MessageInv
  <2>3. ASSUME NEW d \in Connections, current[d] # NoCommand
        PROVE  /\ current[d] \in 1..sent /\ owner[current[d]] = d /\ kind[current[d]] # "bad"
               /\ \A i \in DOMAIN pending' : owner[pending'[i]] = d => pending'[i] < current[d]
               /\ owner[serving'] = d => serving' < current[d]
    BY <1>c, <1>e, <2>3 DEF MessageInv
  <2>4. QED
    BY <1>b, <1>f, <2>1, <2>2, <2>3 DEF MessageInv
<1>3. FreshInv'
  BY <1>b DEF FreshInv
<1>4. RemovalInv'
  <2>1. \A d \in Connections : conn[d] = "removing" => owner[pending[1]] # d
    <3>1. SUFFICES ASSUME NEW d \in Connections, conn[d] = "removing"
                   PROVE  owner[pending[1]] # d
      OBVIOUS
    <3>2. At(d, "removing")
      BY <3>1 DEF At, MainFree, RemovalInv
    <3>3. Waiting(d) = {}
      BY <3>2 DEF TakeCommand, QueueFree
    <3>4. QED
      BY <1>c, <3>3 DEF Waiting
  <2>2. \A d \in Connections : conn[d] = "gone" =>
          owner[pending[1]] # d /\ \A i \in DOMAIN pending' : owner[pending'[i]] # d
    BY <1>c, <1>e DEF RemovalInv, NoCommandOfRemoved
  <2>3. QED
    BY <1>b, <1>c, <2>1, <2>2 DEF RemovalInv, NoCommandOfRemoved
<1>5. RouteInv'
  BY <1>a, <1>b DEF RouteInv
<1>6. ToldInv'
  <2>1. ASSUME NEW x \in Unanswered' PROVE x \in Unanswered
    <3>1. \/ \E i \in DOMAIN pending' : x = pending'[i]
          \/ x = serving'
          \/ \E d \in Connections : conn[d] = "acking" /\ x = current[d]
      BY <1>a, <1>b, <2>1 DEF Unanswered
    <3>2. (\E i \in DOMAIN pending' : x = pending'[i]) \/ x = serving'
            => \E i \in DOMAIN pending : x = pending[i]
      BY <1>c, <1>e
    <3>3. QED
      BY <3>1, <3>2 DEF Unanswered
  <2>2. \A d \in Connections : open'[d] => open[d]
    BY <1>b
  <2>3. QED
    BY <1>b, <2>1, <2>2, ToldFrame
<1>7. QED
  BY <1>1, <1>2, <1>3, <1>4, <1>5, <1>6

-----------------------------------------------------------------------------
(* The theorems. *)

LEMMA InitIInv == Init => IInv
<1> SUFFICES ASSUME Init PROVE IInv
  OBVIOUS
<1> USE SessionsAssumption DEF Init, Queue!Init
<1>1. TypeOK
  <2>1. answer \in [Commands -> {"none"} \cup Queue!FinalAnswers]
    BY DEF Queue!NoAnswer
  <2>2. told \in [Commands -> Seq({"ack", "answer"})]
    OBVIOUS
  <2>3. owner \in [1..sent -> Connections] /\ kind \in [1..sent -> Kinds] /\ sent \in 0..MaxCommands
    OBVIOUS
  <2>4. \A c \in Connections : current[c] # NoCommand <=> conn[c] \in {"acking", "replying"}
    OBVIOUS
  <2>5. pending \in Seq(Commands) /\ serving \in Commands \cup {NoCommand}
    OBVIOUS
  <2>6. /\ conn \in [Connections -> ConnPcs] /\ via \in [Connections -> {"publisher", "service"}]
        /\ open \in [Connections -> BOOLEAN] /\ writing \in [Connections -> SUBSET Writers]
        /\ current \in [Connections -> Commands \cup {NoCommand}]
    BY DEF ConnPcs, Writers
  <2>7. events \in 0..MaxEvents /\ (queuePc = "idle" <=> serving = NoCommand)
    OBVIOUS
  <2>8. /\ details \subseteq Connections /\ members \subseteq details
        /\ clients \subseteq Connections /\ stalled \subseteq Connections /\ stopped \subseteq Commands
        /\ acceptor \in {"listening", "closed"} /\ stop \in BOOLEAN /\ queuePc \in {"idle",
              "run", "reply"}
    OBVIOUS
  <2>9. QED
    BY <2>1, <2>2, <2>3, <2>4, <2>5, <2>6, <2>7, <2>8, Zenon DEF TypeOK
<1>2. MessageInv /\ FreshInv /\ RemovalInv /\ RouteInv
  <2>1. MessageInv
    BY DEF MessageInv
  <2>2. FreshInv
    BY DEF FreshInv
  <2>3. RemovalInv
    BY DEF RemovalInv, NoCommandOfRemoved
  <2>4. RouteInv
    BY DEF RouteInv
  <2>5. QED
    BY <2>1, <2>2, <2>3, <2>4
<1>3. ToldInv
  <2>1. Unanswered = {}
    BY DEF Unanswered
  <2>2. \A m \in Commands : ~(m <= sent)
    BY DEF Commands
  <2>3. QED
    BY <2>1, <2>2 DEF ToldInv
<1>4. QED
  BY <1>1, <1>2, <1>3 DEF IInv

LEMMA NextIInv == IInv /\ [Next]_vars => IInv'
<1> SUFFICES ASSUME IInv, [Next]_vars PROVE IInv'
  OBVIOUS
<1>1. ASSUME NEW c \in Connections, ConnectionStep(c) PROVE IInv'
  BY <1>1, ReadFailsKeeps, AcknowledgedKeeps, ExecuteKeeps, NoHandlerKeeps, RepliedKeeps,
     CloseKeeps, WithdrawKeeps, RemoveKeeps DEF ConnectionStep
<1>2. ASSUME NEW c \in Connections,
             \/ Accept(c) \/ Refuse(c) \/ SendEvent(c) \/ EventSent(c) \/ Leave(c) \/ Stall(c)
             \/ \E v \in Uri[c] : Establish(c, v)
             \/ \E k \in Kinds : Receive(c, k)
      PROVE  IInv'
  BY <1>2, AcceptKeeps, RefuseKeeps, SendEventKeeps, EventSentKeeps, LeaveKeeps, StallKeeps,
     EstablishKeeps, ReceiveKeeps
<1>3. CASE TakeCommand \/ Reply \/ QueueReplied \/ Shutdown
  BY <1>3, TakeCommandKeeps, ReplyKeeps, QueueRepliedKeeps, ShutdownKeeps
<1>4. CASE UNCHANGED vars
  <2>1. UNCHANGED <<pending, serving, answer, queuePc, conn, via, open, current, details, members,
                    acceptor, clients, stalled, sent, owner, kind, told, writing, stopped,
                    events, stop>>
    BY <1>4 DEF vars, queueVars, listVars, clientVars, inputVars, writeVars
  <2>2. TypeOK' /\ MessageInv' /\ FreshInv'
    <3>1. TypeOK'
      BY <2>1 DEF IInv, TypeOK
    <3>2. MessageInv'
      BY <2>1 DEF IInv, MessageInv
    <3>3. FreshInv'
      BY <2>1 DEF IInv, FreshInv
    <3>4. QED
      BY <3>1, <3>2, <3>3
  <2>3. RemovalInv'
    BY <2>1 DEF IInv, RemovalInv, NoCommandOfRemoved
  <2>4. RouteInv'
    BY <2>1 DEF IInv, RouteInv
  <2>5. ToldInv'
    BY <2>1, ToldFrame, UnansweredFrame DEF IInv
  <2>6. QED
    BY <2>2, <2>3, <2>4, <2>5 DEF IInv
<1>5. QED
  BY <1>1, <1>2, <1>3, <1>4 DEF Next

(* Every reachable state satisfies IInv. *)
THEOREM SessionsInvariant == Spec => []IInv
BY InitIInv, NextIInv, PTL DEF Spec

(* The variables keep their types, and a coroutine knows the message it    *)
(* handles exactly while it acknowledges or answers it.                    *)
THEOREM SessionsTypeOK == Spec => []TypeOK
<1>1. IInv => TypeOK
  BY DEF IInv
<1>2. QED
  BY <1>1, SessionsInvariant, PTL

(* However many clients send, stall and leave, each is told of each of its *)
(* messages an acknowledgement first and at most one answer after it.      *)
THEOREM SessionsAckThenOneAnswer == Spec => []AckThenOneAnswer
<1>1. IInv => AckThenOneAnswer
  BY DEF IInv, ToldInv, AckThenOneAnswer
<1>2. QED
  BY <1>1, SessionsInvariant, PTL

(* The clean-up of RunAsync leaves no command of a removed connection in   *)
(* the queue, and none of it in a handler that was not told to stop.       *)
THEOREM SessionsNoCommandOfRemoved == Spec => []NoCommandOfRemoved
<1>1. IInv => NoCommandOfRemoved
  BY DEF IInv, RemovalInv
<1>2. QED
  BY <1>1, SessionsInvariant, PTL

(* Two threads write to one websocket only if one of them sends an event   *)
(* of the service, or answers a command while a later message is handled.  *)
THEOREM SessionsWritesMeet == Spec => []WritesMeet
<1>1. IInv => WritesMeet
  <2>1. SUFFICES ASSUME IInv, NEW c \in Connections
                 PROVE  /\ via[c] = "publisher" => writing[c] \subseteq {"main"}
                        /\ {"main", "queue"} \subseteq writing[c] =>
                              owner[serving] = c /\ serving < current[c]
    BY DEF WritesMeet
  <2>2. "queue" \in writing[c] =>
          serving # NoCommand /\ owner[serving] = c /\ via[c] = "service"
    BY <2>1 DEF IInv, TypeOK, MessageInv, RouteInv
  <2>3. "main" \in writing[c] => current[c] # NoCommand
    BY <2>1 DEF IInv, TypeOK, RouteInv
  <2>4. "events" \in writing[c] => via[c] = "service"
    BY <2>1 DEF IInv, RouteInv
  <2>5. writing[c] \subseteq {"main", "queue", "events"}
    BY <2>1 DEF IInv, TypeOK, Writers
  <2>6. QED
    BY <2>1, <2>2, <2>3, <2>4, <2>5 DEF IInv, MessageInv
<1>2. QED
  BY <1>1, SessionsInvariant, PTL

-----------------------------------------------------------------------------
(* The queue is taken at its word (CommandService), and its word must not  *)
(* hold anybody back: nothing is answered before its turn or by another    *)
(* than the queue, and what each thread asks of the queue it may ask.      *)

AnswerInv ==
    /\ \A m \in Commands : m > sent \/ m \in Unanswered => answer[m] = "none"
    /\ queuePc = "reply" => answer[serving] # "none"

(* A coroutine that has acknowledged a command to queue finds it new, the  *)
(* queue thread finds its command where it left it, and a clean-up finds   *)
(* the commands it withdraws unanswered.                                   *)
QueueReady ==
    /\ \A c \in Connections : conn[c] = "acking" /\ kind[current[c]] = "queued" =>
          /\ answer[current[c]] = "none" /\ current[c] # serving
          /\ \A i \in DOMAIN pending : pending[i] # current[c]
    /\ queuePc = "idle" => serving = NoCommand
    /\ queuePc = "run" => serving # NoCommand /\ answer[serving] = "none"
    /\ queuePc = "reply" => serving # NoCommand /\ answer[serving] # "none"
    /\ \A i \in DOMAIN pending : answer[pending[i]] = "none"

(* A step that asks nothing of the queue. *)
QueueLeft ==
    /\ UNCHANGED <<pending, serving, answer, queuePc>>
    /\ sent' \in {sent, sent + 1}
    /\ \A d \in Connections : conn'[d] = "acking" =>
          \/ conn[d] = "acking" /\ current'[d] = current[d]
          \/ sent' = sent + 1 /\ current'[d] = sent'

LEMMA QueueLeftKeeps ==
    ASSUME TypeOK, AnswerInv, QueueLeft
    PROVE  AnswerInv'
<1>1. sent \in Nat /\ Commands \subseteq Nat
  BY DEF TypeOK, Commands
<1>2. \A x \in Unanswered' : x \in Unanswered \/ (sent' = sent + 1 /\ x = sent')
  BY DEF QueueLeft, Unanswered
<1>3. ASSUME NEW m \in Commands, m > sent' \/ m \in Unanswered'
      PROVE  answer'[m] = "none"
  <2>1. m > sent \/ m \in Unanswered
    BY <1>1, <1>2, <1>3 DEF QueueLeft
  <2>2. QED
    BY <2>1 DEF AnswerInv, QueueLeft
<1>4. QED
  BY <1>3 DEF AnswerInv, QueueLeft

LEMMA ConnectionLeavesQueue ==
    ASSUME IInv, NEW c \in Connections,
           \/ Accept(c) \/ Refuse(c) \/ SendEvent(c) \/ EventSent(c) \/ Leave(c) \/ Stall(c)
           \/ \E v \in Uri[c] : Establish(c, v)
           \/ \E k \in Kinds : Receive(c, k)
           \/ ReadFails(c) \/ Execute(c) \/ NoHandler(c) \/ Replied(c) \/ Close(c) \/ Remove(c)
    PROVE  QueueLeft
<1> USE DEF IInv, TypeOK
<1>1. CASE Accept(c) \/ Refuse(c)
  BY <1>1 DEF Accept, Refuse, QueueLeft, queueVars, inputVars
<1>2. CASE SendEvent(c) \/ EventSent(c) \/ Leave(c) \/ Stall(c)
  BY <1>2 DEF SendEvent, EventSent, EventStep, Leave, Stall, Outside, QueueLeft, queueVars, inputVars
<1>3. CASE \E v \in Uri[c] : Establish(c, v)
  BY <1>3 DEF Establish, GoOn, QueueLeft, queueVars, inputVars
<1>4. CASE \E k \in Kinds : Receive(c, k)
  BY <1>4 DEF Receive, ConnStep, QueueLeft, queueVars
<1>5. CASE ReadFails(c) \/ Execute(c) \/ NoHandler(c)
  BY <1>5 DEF ReadFails, Execute, NoHandler, ConnStep, QueueLeft, queueVars, inputVars
<1>6. CASE Replied(c) \/ Close(c) \/ Remove(c)
  BY <1>6 DEF Replied, NextMessage, Close, Remove, ConnStep, QueueLeft, queueVars, inputVars
<1>7. QED
  BY <1>1, <1>2, <1>3, <1>4, <1>5, <1>6

(* The message of a coroutine is neither queued nor served. *)
LEMMA CurrentIsNew ==
    ASSUME IInv, NEW c \in Connections, conn[c] = "acking"
    PROVE  /\ current[c] \in Commands /\ current[c] \in Unanswered
           /\ current[c] # serving
           /\ \A i \in DOMAIN pending : pending[i] # current[c]
<1>1. current[c] # NoCommand /\ current[c] \in Commands
  BY DEF IInv, TypeOK
<1>2. current[c] \in Unanswered
  BY DEF Unanswered
<1>3. current[c] \in Nat /\ ~(current[c] < current[c])
  BY <1>1 DEF Commands
<1>4. QED
  BY <1>1, <1>2, <1>3 DEF IInv, MessageInv

LEMMA AcknowledgedAnswers ==
    ASSUME IInv, AnswerInv, NEW c \in Connections, Acknowledged(c)
    PROVE  AnswerInv'
<1>1. /\ conn[c] = "acking" /\ pending' = Append(pending, current[c])
      /\ UNCHANGED <<serving, answer, queuePc, sent>>
  BY DEF Acknowledged, At, Queue!Accept, inputVars
<1>2. /\ \A d \in Connections \ {c} : conn'[d] = conn[d] /\ current'[d] = current[d]
      /\ conn'[c] # "acking"
  BY DEF Acknowledged, NextMessage, ConnStep, IInv, TypeOK
<1>3. current[c] \in Commands /\ current[c] \in Unanswered
  BY <1>1, CurrentIsNew
<1>4. \A i \in DOMAIN pending' :
        pending'[i] = current[c] \/ \E j \in DOMAIN pending : pending'[i] = pending[j]
  BY <1>1, <1>3 DEF IInv, TypeOK
<1>5. ASSUME NEW x \in Unanswered' PROVE x \in Unanswered
  <2>1. \/ \E i \in DOMAIN pending' : x = pending'[i]
        \/ queuePc = "run" /\ x = serving
        \/ \E d \in Connections : conn'[d] = "acking" /\ x = current'[d]
    BY <1>1, <1>5 DEF Unanswered
  <2>2. QED
    BY <1>2, <1>3, <1>4, <2>1 DEF Unanswered
<1>6. QED
  BY <1>1, <1>5 DEF AnswerInv

LEMMA WithdrawAnswers ==
    ASSUME IInv, AnswerInv, NEW c \in Connections, Withdraw(c)
    PROVE  AnswerInv'
<1>1. PICK i \in DOMAIN pending : Queue!Withdraw(i)
  BY DEF Withdraw, Waiting
<1>2. /\ UNCHANGED <<serving, queuePc, conn, current, sent>>
      /\ answer' = [answer EXCEPT ![pending[i]] = "Canceled"]
      /\ pending' = Queue!RemoveAt(pending, i)
  BY <1>1 DEF Withdraw, Queue!Withdraw, inputVars
<1>3. /\ pending \in Seq(Commands) /\ i \in Nat
      /\ answer \in [Commands -> {"none"} \cup Queue!FinalAnswers]
  BY DEF IInv, TypeOK
<1>4. \A j \in DOMAIN pending' :
        /\ j \in Nat /\ j + 1 \in DOMAIN pending /\ j \in DOMAIN pending
        /\ pending'[j] = IF j < i THEN pending[j] ELSE pending[j + 1]
  BY <1>2, <1>3, RemoveAtFacts
<1>5. \A j \in DOMAIN pending' : \E n \in DOMAIN pending \ {i} : pending'[j] = pending[n]
  BY <1>3, <1>4
<1>6. \A m \in Commands : m # pending[i] => answer'[m] = answer[m]
  BY <1>2, <1>3
<1>7. pending[i] \in 1..sent /\ pending[i] # serving
  BY DEF IInv, MessageInv
<1>8. ASSUME NEW x \in Unanswered' PROVE x \in Unanswered /\ x # pending[i]
  <2>1. \/ \E n \in DOMAIN pending \ {i} : x = pending[n]
        \/ queuePc = "run" /\ x = serving
        \/ \E d \in Connections : conn[d] = "acking" /\ x = current[d]
    BY <1>2, <1>5, <1>8 DEF Unanswered
  <2>2. QED
    BY <1>7, <2>1, CurrentIsNew DEF Unanswered, IInv, MessageInv
<1>9. \A m \in Commands : m > sent => m # pending[i]
  BY <1>7 DEF IInv, TypeOK, Commands
<1>10. \A m \in Commands : m > sent' \/ m \in Unanswered' => answer'[m] = "none"
  BY <1>2, <1>6, <1>8, <1>9 DEF AnswerInv
<1>11. queuePc = "reply" => serving \in Commands
  BY DEF IInv, TypeOK
<1>12. queuePc' = "reply" => answer'[serving'] # "none"
  BY <1>2, <1>6, <1>7, <1>11 DEF AnswerInv
<1>13. QED
  BY <1>10, <1>12 DEF AnswerInv

LEMMA QueueThreadAnswers ==
    ASSUME IInv, AnswerInv, TakeCommand \/ Reply \/ QueueReplied
    PROVE  AnswerInv'
<1>1. /\ UNCHANGED <<conn, current, sent>>
      /\ answer \in [Commands -> {"none"} \cup Queue!FinalAnswers]
      /\ pending \in Seq(Commands)
  BY DEF TakeCommand, Reply, QueueReplied, QueueStep, inputVars, IInv, TypeOK
<1>2. CASE TakeCommand
  <2>1. /\ queuePc' = "run" /\ answer' = answer
        /\ pending # <<>> /\ serving' = Head(pending) /\ pending' = Tail(pending)
    BY <1>2 DEF TakeCommand, QueueStep, Queue!BeginService
  <2>2. /\ \E n \in DOMAIN pending : serving' = pending[n]
        /\ \A j \in DOMAIN pending' : \E n \in DOMAIN pending : pending'[j] = pending[n]
    BY <1>1, <2>1
  <2>3. Unanswered' \subseteq Unanswered
    BY <1>1, <2>1, <2>2 DEF Unanswered
  <2>4. QED
    BY <1>1, <2>1, <2>3 DEF AnswerInv
<1>3. CASE Reply
  <2>1. /\ queuePc = "run" /\ queuePc' = "reply" /\ UNCHANGED <<pending, serving>>
        /\ answer' = [answer EXCEPT ![serving] = "Result"]
    BY <1>3 DEF Reply, QueueStep, Queue!Answer
  <2>2. serving \in Commands /\ serving \in 1..sent
    BY <2>1 DEF IInv, TypeOK, MessageInv
  <2>3. ASSUME NEW x \in Unanswered' PROVE x \in Unanswered /\ x # serving
    <3>1. \/ \E n \in DOMAIN pending : x = pending[n]
          \/ \E d \in Connections : conn[d] = "acking" /\ x = current[d]
      BY <1>1, <2>1, <2>3 DEF Unanswered
    <3>2. QED
      BY <3>1, CurrentIsNew DEF Unanswered, IInv, MessageInv
  <2>4. \A m \in Commands : m > sent => m # serving
    BY <2>2 DEF IInv, TypeOK, Commands
  <2>5. /\ \A m \in Commands : m # serving => answer'[m] = answer[m]
        /\ answer'[serving] = "Result"
    BY <1>1, <2>1, <2>2
  <2>6. QED
    BY <1>1, <2>1, <2>3, <2>4, <2>5 DEF AnswerInv
<1>4. CASE QueueReplied
  <2>1. queuePc = "reply" /\ queuePc' = "idle" /\ UNCHANGED <<pending, answer>>
    BY <1>4 DEF QueueReplied, QueueStep, Queue!EndService
  <2>2. Unanswered' \subseteq Unanswered
    BY <1>1, <2>1 DEF Unanswered
  <2>3. QED
    BY <1>1, <2>1, <2>2 DEF AnswerInv
<1>5. QED
  BY <1>2, <1>3, <1>4

(* What a step of the server is to its queue. *)
LEMMA NextOfQueue ==
    ASSUME IInv, AnswerInv, [Next]_vars
    PROVE  AnswerInv' /\ [Queue!Next]_Queue!svars
<1>1. QueueLeft => AnswerInv' /\ UNCHANGED Queue!svars
  BY QueueLeftKeeps DEF IInv, QueueLeft, Queue!svars
<1>2. ASSUME NEW c \in Connections, ConnectionStep(c)
      PROVE  AnswerInv' /\ [Queue!Next]_Queue!svars
  <2>1. CASE Acknowledged(c)
    <3>1. Queue!Accept(current[c]) /\ conn[c] = "acking"
      BY <2>1 DEF Acknowledged, At
    <3>2. Queue!Next
      BY <3>1, CurrentIsNew DEF Queue!Next
    <3>3. QED
      BY <2>1, <3>2, AcknowledgedAnswers
  <2>2. CASE Withdraw(c)
    <3>1. \E i \in DOMAIN pending : Queue!Withdraw(i)
      BY <2>2 DEF Withdraw, Waiting
    <3>2. QED
      BY <2>2, <3>1, WithdrawAnswers DEF Queue!Next
  <2>3. QED
    BY <1>1, <1>2, <2>1, <2>2, ConnectionLeavesQueue DEF ConnectionStep
<1>3. ASSUME NEW c \in Connections,
             \/ Accept(c) \/ Refuse(c) \/ SendEvent(c) \/ EventSent(c) \/ Leave(c) \/ Stall(c)
             \/ \E v \in Uri[c] : Establish(c, v)
             \/ \E k \in Kinds : Receive(c, k)
      PROVE  AnswerInv' /\ [Queue!Next]_Queue!svars
  BY <1>1, <1>3, ConnectionLeavesQueue
<1>4. CASE TakeCommand \/ Reply \/ QueueReplied
  <2>1. Queue!Next
    BY <1>4 DEF TakeCommand, Reply, QueueReplied, Queue!Next
  <2>2. QED
    BY <1>4, <2>1, QueueThreadAnswers
<1>5. CASE Shutdown \/ UNCHANGED vars
  <2>1. UNCHANGED <<pending, serving, answer, queuePc, conn, current, sent>>
    BY <1>5 DEF Shutdown, Outside, vars, queueVars, inputVars
  <2>2. QueueLeft
    BY <2>1 DEF QueueLeft
  <2>3. QED
    BY <1>1, <2>2
<1>6. QED
  BY <1>2, <1>3, <1>4, <1>5 DEF Next

LEMMA InitOfQueue == Init => AnswerInv /\ Queue!Init
<1>1. SUFFICES ASSUME Init PROVE AnswerInv
  BY DEF Init
<1>2. \A m \in Commands : answer[m] = "none"
  BY <1>1 DEF Init, Queue!Init, Queue!NoAnswer
<1>3. QED
  BY <1>1, <1>2 DEF Init, AnswerInv

(* The promise of the queue is not bought by holding a thread back:        *)
(* whatever the server asks of its queue - to take a command, to serve,    *)
(* answer and end one, to withdraw those of a connection - the queue may   *)
(* do at once (Dispatch, RunAsync, CommandQueue::RunAsync).                *)
THEOREM SessionsQueueReady == Spec => []QueueReady
<1>1. IInv /\ AnswerInv /\ [Next]_vars => AnswerInv'
  BY NextOfQueue
<1>2. Spec => []AnswerInv
  BY <1>1, InitOfQueue, SessionsInvariant, PTL DEF Spec
<1>3. ASSUME IInv, AnswerInv PROVE QueueReady
  <2>1. ASSUME NEW i \in DOMAIN pending PROVE answer[pending[i]] = "none"
    <3>1. pending[i] \in Commands /\ pending[i] \in Unanswered
      BY <1>3 DEF IInv, TypeOK, Unanswered
    <3>2. QED
      BY <1>3, <3>1 DEF AnswerInv
  <2>2. queuePc = "run" => serving # NoCommand /\ answer[serving] = "none"
    <3>1. queuePc = "run" => serving \in Commands /\ serving # NoCommand /\ serving \in Unanswered
      BY <1>3 DEF IInv, TypeOK, Unanswered
    <3>2. QED
      BY <1>3, <3>1 DEF AnswerInv
  <2>3. /\ queuePc = "idle" => serving = NoCommand
        /\ queuePc = "reply" => serving # NoCommand /\ answer[serving] # "none"
    BY <1>3 DEF IInv, TypeOK, AnswerInv
  <2>4. ASSUME NEW c \in Connections, conn[c] = "acking"
        PROVE  /\ answer[current[c]] = "none" /\ current[c] # serving
               /\ \A i \in DOMAIN pending : pending[i] # current[c]
    BY <1>3, <2>4, CurrentIsNew DEF AnswerInv
  <2>5. QED
    BY <2>1, <2>2, <2>3, <2>4 DEF QueueReady
<1>4. QED
  BY <1>2, <1>3, SessionsInvariant, PTL

(* What the connections, the queue thread and the events do together is a  *)
(* behaviour of CommandService, which CommandQueue implements: commands    *)
(* are served one at a time, in the order they were accepted, and answered *)
(* at most once.                                                           *)
THEOREM SessionsServed == Spec => Queue!Spec
<1>1. IInv /\ AnswerInv /\ [Next]_vars => AnswerInv' /\ [Queue!Next]_Queue!svars
  BY NextOfQueue
<1>2. QED
  BY <1>1, InitOfQueue, SessionsInvariant, PTL DEF Spec, Queue!Spec

=============================================================================
