----------------------- MODULE StateMachineProofs -----------------------
(***************************************************************************)
(* Proofs about StateMachine, for any states, waiters and outcomes and a   *)
(* history of any length.                                                  *)
(***************************************************************************)
EXTENDS StateMachine, WellFoundedInduction, TLAPS

(* What a waiter has with the machine follows from where it is. *)
CallInv ==
    \A w \in Waiters :
        /\ w \in subscribed <=> waitPc[w] # "idle"
        /\ w \in registered <=> waitPc[w] \in {"waiting", "woken"}
        /\ event[w] # NoEvent => w \in registered /\ event[w] \in DOMAIN Outcomes[w]
        /\ result[w] \in Nat =>
             waitPc[w] \in {"woken", "returned"} /\ result[w] \in DOMAIN Outcomes[w]

(* No more states are remembered than there have been. *)
HistoryInv == Len(flow) <= lastUid

(* Outcome k of w was completed no earlier than its call, unless the       *)
(* history no longer reaches back that far.                                *)
Known(w, k) ==
    UidAt(1) = 1 \/ UidAt(1) + Len(Outcomes[w][k]) <= since[w] =>
        \E i \in DOMAIN flow :
            /\ UidAt(i) >= since[w] /\ UidAt(i) > skip[w]
            /\ i > Len(Outcomes[w][k])
            /\ EndsAt(Outcomes[w][k], i)

KnownInv ==
    \A w \in Waiters :
        /\ event[w] # NoEvent => Known(w, event[w])
        /\ result[w] \in Nat => Known(w, result[w])

IInv == TypeOK /\ CallInv /\ HistoryInv /\ KnownInv

-----------------------------------------------------------------------------
(* The least and the greatest of some numbers. *)

LEMMA MinFacts ==
    ASSUME NEW S, S \subseteq Nat, S # {}
    PROVE  /\ Min(S) \in S /\ \A y \in S : Min(S) <= y
<1>1. PICK x \in S : \A y \in S : <<y, x>> \notin OpToRel(<, Nat)
  BY NatLessThanWellFounded, WFMin, Zenon
<1>2. \A y \in S : ~ (y < x)
  BY <1>1, Zenon DEF OpToRel
<1>3. \A y \in S : x <= y
  BY <1>2
<1>4. QED
  BY <1>3, Zenon DEF Min

LEMMA MaxFacts ==
    ASSUME NEW S, NEW n \in Nat, S \subseteq 1..n, S # {}
    PROVE  /\ Max(S) \in S /\ \A y \in S : y <= Max(S)
<1> DEFINE Upper == {m \in Nat : \A y \in S : y <= m}
           m == Min(Upper)
<1>1. n \in Upper /\ Upper \subseteq Nat
  OBVIOUS
<1>2. m \in Upper /\ \A y \in Upper : m <= y
  BY <1>1, MinFacts
<1>3. m \in S
  <2>1. SUFFICES ASSUME m \notin S PROVE FALSE
    OBVIOUS
  <2>2. PICK s \in S : TRUE
    OBVIOUS
  <2>3. \A y \in S : y \in Nat /\ y <= m /\ y # m
    BY <1>2, <2>1
  <2>4. m \in Nat /\ m - 1 \in Nat /\ \A y \in S : y <= m - 1
    BY <1>2, <2>2, <2>3
  <2>5. m - 1 \in Upper
    BY <2>4
  <2>6. QED
    BY <1>2, <2>4, <2>5
<1>4. \A y \in S : m >= y
  BY <1>2
<1>5. QED
  BY <1>3, <1>4 DEF Max

LEMMA MinOfTwo ==
    ASSUME NEW a \in Int, NEW b \in Int
    PROVE  Min({a, b}) = IF a <= b THEN a ELSE b
<1> DEFINE m == IF a <= b THEN a ELSE b
<1>1. m \in {a, b} /\ \A y \in {a, b} : m =< y
  OBVIOUS
<1>2. \A x \in {a, b} : (\A y \in {a, b} : x =< y) => x = m
  OBVIOUS
<1> HIDE DEF m
<1>3. Min({a, b}) = m
  BY <1>1, <1>2, Zenon DEF Min
<1>4. QED
  BY <1>3 DEF m

LEMMA MaxOfTwo ==
    ASSUME NEW a \in Int, NEW b \in Int
    PROVE  Max({a, b}) = IF a >= b THEN a ELSE b
<1> DEFINE m == IF a >= b THEN a ELSE b
<1>1. m \in {a, b} /\ \A y \in {a, b} : m >= y
  OBVIOUS
<1>2. \A x \in {a, b} : (\A y \in {a, b} : x >= y) => x = m
  OBVIOUS
<1> HIDE DEF m
<1>3. Max({a, b}) = m
  BY <1>1, <1>2, Zenon DEF Max
<1>4. QED
  BY <1>3 DEF m

-----------------------------------------------------------------------------
(* What the search finds. *)

LEMMA OutcomeTypes ==
    ASSUME NEW w \in Waiters
    PROVE  /\ Len(Outcomes[w]) \in Nat /\ DOMAIN Outcomes[w] = 1..Len(Outcomes[w])
           /\ \A k \in DOMAIN Outcomes[w] :
                /\ Len(Outcomes[w][k]) \in Nat
                /\ DOMAIN Outcomes[w][k] = 1..Len(Outcomes[w][k])
BY MachineAssumption

LEMMA HappenedFacts ==
    ASSUME TypeOK, NEW w \in Waiters
    PROVE  /\ Happened(w) \subseteq 1..Len(Outcomes[w])
           /\ \A k \in Happened(w) : k \in DOMAIN Outcomes[w] /\ Known(w, k)
<1> DEFINE n == Len(flow)
<1>1. /\ n \in Nat /\ n >= 1 /\ DOMAIN flow = 1..n /\ lastUid \in Nat /\ lastUid >= 1
      /\ since[w] \in Nat /\ since[w] <= lastUid /\ skip[w] \in {0, since[w]}
  BY MachineAssumption DEF TypeOK
<1>2. ASSUME NEW k \in Happened(w)
      PROVE  k \in DOMAIN Outcomes[w] /\ Known(w, k)
  <2> DEFINE seq == Outcomes[w][k]
             available == IF skip[w] > 0 THEN Min({lastUid - skip[w], n}) ELSE n
             first == IF skip[w] > 0 THEN n - available + Len(seq) + 1 ELSE n
  <2>1. k \in DOMAIN Outcomes[w]
    BY DEF Happened
  <2>2. Len(seq) \in Nat
    BY <2>1, OutcomeTypes
  <2>3. HasHappened(seq, skip[w])
    BY DEF Happened
  <2>4. available >= Len(seq) + 1 /\ \E last \in first..n : EndsAt(seq, last)
    BY <2>3 DEF HasHappened
  <2>5. PICK last \in first..n : EndsAt(seq, last)
    BY <2>4
  <2>6. /\ available \in Int /\ available <= n
        /\ skip[w] > 0 => available <= lastUid - skip[w]
    <3>1. CASE skip[w] > 0
      <4>1. Min({lastUid - skip[w], n}) = IF lastUid - skip[w] <= n THEN lastUid - skip[w] ELSE n
        <5>1. lastUid - skip[w] \in Int /\ n \in Int
          BY <1>1
        <5>2. QED
          BY <5>1, MinOfTwo, Zenon
      <4>2. available = Min({lastUid - skip[w], n})
        BY <3>1
      <4> HIDE DEF available
      <4>3. QED
        BY <1>1, <4>1, <4>2
    <3>2. CASE ~(skip[w] > 0)
      <4>1. available = n
        BY <3>2
      <4> HIDE DEF available
      <4>2. QED
        BY <1>1, <3>2, <4>1
    <3>3. QED
      BY <3>1, <3>2
  <2>7. first = IF skip[w] > 0 THEN n - available + Len(seq) + 1 ELSE n
    OBVIOUS
  <2>8. /\ last \in 1..n /\ last > Len(seq)
        /\ lastUid - n + last >= since[w] /\ lastUid - n + last > skip[w]
    <3>1. available >= Len(seq) + 1
      BY <2>4
    <3> HIDE DEF available, first, n, seq
    <3>2. CASE skip[w] > 0
      <4>1. last \in Int /\ last >= n - available + Len(seq) + 1 /\ last <= n
        BY <1>1, <2>2, <2>6, <2>7, <3>2
      <4>2. QED
        BY <1>1, <2>2, <2>6, <3>1, <3>2, <4>1
    <3>3. CASE ~(skip[w] > 0)
      <4>1. last \in n..n /\ skip[w] = 0
        BY <1>1, <2>7, <3>3
      <4>2. QED
        BY <1>1, <2>2, <2>6, <3>1, <4>1
    <3>4. QED
      BY <3>2, <3>3
  <2>9. QED
    BY <1>1, <2>1, <2>5, <2>8 DEF Known, UidAt
<1>3. \A k \in Happened(w) : k \in 1..Len(Outcomes[w])
  BY <1>2, OutcomeTypes
<1>4. QED
  BY <1>2, <1>3

LEMMA FirstHappened ==
    ASSUME TypeOK, NEW w \in Waiters, Happened(w) # {}
    PROVE  Min(Happened(w)) \in Nat /\ Min(Happened(w)) \in Happened(w)
<1>1. Happened(w) \subseteq Nat
  BY HappenedFacts, OutcomeTypes
<1>2. QED
  BY <1>1, MinFacts

LEMMA LastCompleted ==
    ASSUME TypeOK, NEW w \in Waiters, Completed(w) # {}
    PROVE  Max(Completed(w)) \in Nat /\ Max(Completed(w)) \in Happened(w)
<1>1. Completed(w) \subseteq Happened(w)
  BY DEF Completed
<1>2. Completed(w) \subseteq 1..Len(Outcomes[w])
  BY <1>1, HappenedFacts
<1>3. Len(Outcomes[w]) \in Nat
  BY OutcomeTypes
<1>4. Max(Completed(w)) \in Completed(w)
  BY <1>2, <1>3, MaxFacts
<1>5. QED
  BY <1>1, <1>2, <1>3, <1>4

(* A sequence that gets one more element, and may lose its first one.      *)
LEMMA ShiftFacts ==
    ASSUME NEW S, NEW f \in Seq(S), NEW x \in S, NEW d \in 0..1, NEW g,
           g = SubSeq(Append(f, x), 1 + d, Len(f) + 1)
    PROVE  /\ g \in Seq(S) /\ Len(g) = Len(f) + 1 - d
           /\ \A i \in 1..Len(f) : i > d => i - d \in 1..Len(g) /\ g[i - d] = f[i]
<1> DEFINE all == Append(f, x)
           n == Len(f)
<1>0. g = SubSeq(all, 1 + d, n + 1)
  OBVIOUS
<1>1. n \in Nat /\ all \in Seq(S) /\ Len(all) = n + 1
  OBVIOUS
<1>2. \A i \in 1..n : all[i] = f[i]
  OBVIOUS
<1> HIDE DEF all, n
<1>3. /\ g \in Seq(S) /\ Len(g) = n + 1 - d
      /\ \A i \in 1..(n + 1 - d) : g[i] = all[i + d]
  <2>1. g \in Seq(S)
    BY <1>0, <1>1
  <2>2. Len(g) = n + 1 - d
    BY <1>0, <1>1
  <2>3. \A i \in 1..(n + 1 - d) : g[i] = all[i + d]
    BY <1>0, <1>1
  <2>4. QED
    BY <2>1, <2>2, <2>3
<1>4. ASSUME NEW i \in 1..n, i > d
      PROVE  i - d \in 1..(n + 1 - d) /\ g[i - d] = f[i]
  <2>1. i - d \in 1..(n + 1 - d) /\ (i - d) + d = i
    BY <1>1, <1>4
  <2>2. g[i - d] = all[(i - d) + d]
    BY <1>3, <2>1
  <2>3. QED
    BY <1>2, <2>1, <2>2
<1>5. QED
  BY <1>3, <1>4 DEF n

(* The shift of the history by ChangeState loses no outcome that could be  *)
(* searched for.                                                           *)
LEMMA ShiftKeepsKnown ==
    ASSUME TypeOK, HistoryInv, NEW s \in States, ChangeState(s)
    PROVE  /\ flow' \in Seq(States) /\ Len(flow') \in 1..HistoryCapacity /\ HistoryInv'
           /\ \A w \in Waiters : \A k \in DOMAIN Outcomes[w] : Known(w, k) => Known(w, k)'
<1> DEFINE n == Len(flow)
<1>1. /\ flow \in Seq(States) /\ n \in Nat /\ n >= 1 /\ n <= HistoryCapacity
      /\ HistoryCapacity \in Nat /\ HistoryCapacity >= 2 /\ DOMAIN flow = 1..n
      /\ lastUid \in Nat /\ lastUid' = lastUid + 1 /\ n <= lastUid
      /\ since' = since /\ skip' = skip
  BY MachineAssumption DEF TypeOK, HistoryInv, ChangeState, waitVars, callVars
<1>2. PICK drop \in 0..1 :
        /\ flow' = SubSeq(Append(flow, s), 1 + drop, n + 1)
        /\ n + 1 - drop <= HistoryCapacity
        /\ drop = 1 => n = HistoryCapacity
  <2> DEFINE all == Append(flow, s)
             m == Len(all)
             d == Max({0, m - HistoryCapacity})
  <2>1. m = n + 1
    BY <1>1
  <2>2. flow' = SubSeq(all, 1 + d, m)
    BY DEF ChangeState
  <2> HIDE DEF m
  <2>3. 0 \in Int /\ m - HistoryCapacity \in Int
    BY <1>1, <2>1
  <2>4. d = IF 0 >= m - HistoryCapacity THEN 0 ELSE m - HistoryCapacity
    BY <2>3, MaxOfTwo, Zenon
  <2> HIDE DEF d, n
  <2>5. d \in 0..1 /\ n + 1 - d <= HistoryCapacity /\ (d = 1 => n = HistoryCapacity)
    BY <1>1, <2>1, <2>4
  <2>6. flow' = SubSeq(Append(flow, s), 1 + d, n + 1)
    BY <2>1, <2>2
  <2>7. QED
    BY <2>5, <2>6
<1>3. /\ flow' \in Seq(States) /\ Len(flow') = n + 1 - drop
      /\ \A i \in 1..n : i > drop => i - drop \in 1..Len(flow') /\ flow'[i - drop] = flow[i]
  <2>1. flow \in Seq(States) /\ s \in States /\ n = Len(flow)
    BY <1>1
  <2>2. flow' = SubSeq(Append(flow, s), 1 + drop, Len(flow) + 1)
    BY <1>2
  <2>3. flow' \in Seq(States) /\ Len(flow') = Len(flow) + 1 - drop
    BY <2>1, <2>2, ShiftFacts
  <2>4. \A i \in 1..Len(flow) : i > drop => i - drop \in 1..Len(flow') /\ flow'[i - drop] = flow[i]
    BY <2>1, <2>2, ShiftFacts
  <2>5. QED
    BY <2>3, <2>4
<1> HIDE DEF n
<1>4. drop \in Nat /\ drop <= 1 /\ Len(flow') \in Nat /\ DOMAIN flow' = 1..Len(flow')
  BY <1>2, <1>3
<1>8. HistoryInv' /\ Len(flow') \in 1..HistoryCapacity
  BY <1>1, <1>2, <1>3, <1>4 DEF HistoryInv
<1>9. ASSUME NEW w \in Waiters, NEW k \in DOMAIN Outcomes[w], Known(w, k)
      PROVE  Known(w, k)'
  <2> DEFINE seq == Outcomes[w][k]
  <2>1. Len(seq) \in Nat /\ DOMAIN seq = 1..Len(seq)
    BY OutcomeTypes
  <2>2. since[w] \in Nat
    BY DEF TypeOK
  <2> HIDE DEF n
  <2>3. SUFFICES ASSUME lastUid' - Len(flow') + 1 = 1
                        \/ lastUid' - Len(flow') + 1 + Len(seq) <= since[w]
                 PROVE  \E i \in DOMAIN flow' :
                           /\ lastUid' - Len(flow') + i >= since[w]
                           /\ lastUid' - Len(flow') + i > skip[w]
                           /\ i > Len(seq)
                           /\ EndsAt(seq, i)'
    BY <1>1 DEF Known, UidAt
  <2> DEFINE l == Len(seq)
             u == lastUid
             b == since[w]
  <2>a. /\ l \in Nat /\ u \in Nat /\ b \in Nat /\ n \in Nat /\ n <= u /\ drop \in Nat /\ drop <= 1
        /\ lastUid' - Len(flow') = u - n + drop
    BY <1>1, <1>3, <1>4, <2>1, <2>2
  <2>b. u - n + drop + 1 = 1 \/ u - n + drop + 1 + l <= b
    BY <2>3, <2>a
  <2> HIDE DEF l, u, b
  <2>c. u - n + 1 = 1 \/ u - n + 1 + l <= b
    BY <2>a, <2>b
  <2>d. drop = 1 => u - n + 2 + l <= b
    BY <2>a, <2>b
  <2>4. lastUid - n + 1 = 1 \/ lastUid - n + 1 + Len(seq) <= since[w]
    BY <2>c DEF l, u, b
  <2>5. PICK i \in 1..n : /\ lastUid - n + i >= since[w] /\ lastUid - n + i > skip[w]
                          /\ i > Len(seq) /\ EndsAt(seq, i)
    BY <1>1, <1>9, <2>4 DEF Known, UidAt, n
  <2>6. i \in Nat /\ i - drop > Len(seq)
    <3>1. i \in Nat /\ u - n + i >= b /\ i > l
      BY <1>1, <2>5 DEF u, b, l
    <3>2. drop = 0 \/ drop = 1
      BY <2>a
    <3>3. i - drop > l
      BY <2>a, <2>d, <3>1, <3>2
    <3>4. QED
      BY <3>1, <3>3 DEF l
  <2>7. /\ i - drop \in DOMAIN flow'
        /\ lastUid' - Len(flow') + (i - drop) = lastUid - n + i
    <3>1. /\ i \in 1..n /\ drop \in Nat /\ n \in Nat /\ i > drop
          /\ lastUid \in Nat /\ lastUid' = lastUid + 1
      <4>1. l \in Nat /\ i \in Nat /\ i - drop > l /\ drop \in Nat
        BY <1>4, <2>a, <2>6 DEF l
      <4>2. i > drop
        BY <4>1
      <4>3. QED
        BY <1>1, <2>a, <4>2
    <3>2. i - drop \in DOMAIN flow'
      BY <1>3, <1>4, <3>1
    <3>3. Len(flow') = n + 1 - drop
      BY <1>3
    <3>4. QED
      BY <3>1, <3>2, <3>3
  <2>8. EndsAt(seq, i - drop)'
    <3>1. SUFFICES ASSUME NEW e \in 1..Len(seq)
                   PROVE  /\ flow'[i - drop - Len(seq) + e - 1] \in seq[e].from
                          /\ flow'[i - drop - Len(seq) + e] \in seq[e].to
      BY <2>1 DEF EndsAt
    <3> DEFINE h == i - Len(seq) + e
    <3>2. flow[h - 1] \in seq[e].from /\ flow[h] \in seq[e].to
      BY <2>1, <2>5 DEF EndsAt
    <3>3. /\ h - 1 \in 1..n /\ h - 1 > drop /\ h \in 1..n /\ h > drop
          /\ i - drop - Len(seq) + e - 1 = h - 1 - drop
          /\ i - drop - Len(seq) + e = h - drop
      <4>1. e \in Nat /\ e >= 1 /\ e <= Len(seq) /\ i \in Nat /\ i <= n
        BY <1>1, <2>1, <2>5
      <4>2. Len(seq) \in Nat /\ n \in Nat /\ drop \in Nat /\ i > drop + Len(seq)
        BY <1>1, <1>4, <2>1, <2>6
      <4> HIDE DEF seq
      <4>3. QED
        BY <4>1, <4>2
    <3> HIDE DEF h
    <3>4. flow'[h - 1 - drop] = flow[h - 1] /\ flow'[h - drop] = flow[h]
      BY <1>3, <3>3
    <3>5. QED
      BY <3>2, <3>3, <3>4
  <2>9. QED
    BY <2>5, <2>6, <2>7, <2>8
<1>10. QED
  BY <1>3, <1>8, <1>9

-----------------------------------------------------------------------------
(* The invariant holds at first and every step keeps it.                   *)

LEMMA InitInvariant ==
    ASSUME Init
    PROVE  IInv
<1>1. TypeOK
  BY MachineAssumption DEF Init, TypeOK, NoEvent, FAILED
<1>2. CallInv /\ KnownInv
  BY DEF Init, CallInv, KnownInv, NoEvent, FAILED
<1>3. HistoryInv
  BY MachineAssumption DEF Init, HistoryInv
<1>4. QED
  BY <1>1, <1>2, <1>3 DEF IInv

LEMMA ChangeStateKeeps ==
    ASSUME IInv, NEW s \in States, ChangeState(s)
    PROVE  IInv'
<1>1. TypeOK /\ CallInv /\ HistoryInv /\ KnownInv
  BY DEF IInv
<1>2. /\ flow' \in Seq(States) /\ Len(flow') \in 1..HistoryCapacity /\ HistoryInv'
      /\ \A w \in Waiters : \A k \in DOMAIN Outcomes[w] : Known(w, k) => Known(w, k)'
  BY <1>1, ShiftKeepsKnown
<1>3. /\ lastUid' = lastUid + 1 /\ lastUid <= MaxUid /\ pollPc' = "handlers"
      /\ due' = {w \in subscribed : s \in CancelOn[w]}
      /\ UNCHANGED <<subscribed, registered, waitPc, since, skip, result, cancel, event>>
  BY DEF ChangeState, waitVars, callVars, tokenVars
<1>4. TypeOK'
  <2>1. lastUid' \in 1..(MaxUid + 1) /\ due' \subseteq Waiters /\ 0..lastUid \subseteq 0..lastUid'
    BY <1>1, <1>3, MachineAssumption DEF TypeOK
  <2>2. since' \in [Waiters -> 0..lastUid'] /\ \A w \in Waiters : skip'[w] \in {0, since'[w]}
    BY <1>1, <1>3, <2>1 DEF TypeOK
  <2>3. QED
    BY <1>1, <1>2, <1>3, <2>1, <2>2 DEF TypeOK
<1>5. CallInv'
  BY <1>1, <1>3 DEF CallInv
<1>6. KnownInv'
  <2>1. ASSUME NEW w \in Waiters, NEW k, k = event[w], k # NoEvent
        PROVE  Known(w, k)'
    <3>1. k \in DOMAIN Outcomes[w] /\ Known(w, k)
      BY <1>1, <2>1 DEF CallInv, KnownInv
    <3>2. QED
      BY <1>2, <3>1
  <2>2. ASSUME NEW w \in Waiters, NEW k, k = result[w], k \in Nat
        PROVE  Known(w, k)'
    <3>1. k \in DOMAIN Outcomes[w] /\ Known(w, k)
      BY <1>1, <2>2 DEF CallInv, KnownInv
    <3>2. QED
      BY <1>2, <3>1
  <2>3. event' = event /\ result' = result
    BY <1>3
  <2>4. QED
    <3>1. ASSUME NEW w \in Waiters
          PROVE  /\ event'[w] # NoEvent => Known(w, event[w])'
                 /\ result'[w] \in Nat => Known(w, result[w])'
      <4>1. \A k : k = event[w] /\ k # NoEvent => Known(w, k)'
        BY <2>1
      <4>2. \A k : k = result[w] /\ k \in Nat => Known(w, k)'
        BY <2>2
      <4>3. QED
        BY <2>3, <4>1, <4>2 DEF Known, UidAt, EndsAt
    <3>2. QED
      BY <3>1 DEF KnownInv
<1>7. QED
  BY <1>2, <1>4, <1>5, <1>6 DEF IInv

LEMMA RunHandlerKeeps ==
    ASSUME IInv, NEW w \in Waiters, RunHandler(w)
    PROVE  IInv'
<1>1. TypeOK /\ CallInv /\ HistoryInv /\ KnownInv
  BY DEF IInv
<1>2. TypeOK'
  BY <1>1 DEF TypeOK, RunHandler, waitVars, callVars
<1>3. CallInv' /\ HistoryInv'
  BY <1>1 DEF CallInv, HistoryInv, RunHandler, waitVars, callVars
<1>4. KnownInv'
  BY <1>1 DEF KnownInv, Known, UidAt, EndsAt, RunHandler, waitVars, callVars
<1>5. QED
  BY <1>2, <1>3, <1>4 DEF IInv

LEMMA NotifyWaitsKeeps ==
    ASSUME IInv, NotifyWaits
    PROVE  IInv'
<1>1. TypeOK /\ CallInv /\ HistoryInv /\ KnownInv
  BY DEF IInv
<1>2. /\ pollPc' = "outside"
      /\ event' = [w \in Waiters |->
                     IF w \in registered /\ Completed(w) # {} THEN Max(Completed(w)) ELSE event[w]]
      /\ UNCHANGED <<flow, lastUid, due, subscribed, registered, waitPc, since, skip>>
      /\ UNCHANGED <<result, cancel>>
  BY DEF NotifyWaits, waitVars, callVars
<1>3. \A w \in Waiters :
        \/ event'[w] = event[w]
        \/ /\ event'[w] \in Nat /\ w \in registered
           /\ event'[w] \in DOMAIN Outcomes[w] /\ Known(w, event'[w])
  <2>1. SUFFICES ASSUME NEW w \in Waiters, w \in registered, Completed(w) # {},
                        event'[w] = Max(Completed(w))
                 PROVE  /\ event'[w] \in Nat
                        /\ event'[w] \in DOMAIN Outcomes[w] /\ Known(w, event'[w])
    BY <1>2
  <2>2. event'[w] \in Nat /\ event'[w] \in Happened(w)
    BY <1>1, <2>1, LastCompleted
  <2>3. QED
    BY <1>1, <2>2, HappenedFacts
<1>4. TypeOK'
  <2>1. event' \in [Waiters -> Nat \cup {NoEvent}]
    BY <1>1, <1>2, <1>3 DEF TypeOK
  <2>2. QED
    BY <1>1, <1>2, <2>1 DEF TypeOK
<1>5. CallInv' /\ HistoryInv'
  BY <1>1, <1>2, <1>3 DEF CallInv, HistoryInv
<1>6. \A w \in Waiters : event'[w] # NoEvent => Known(w, event'[w])
  BY <1>1, <1>3 DEF KnownInv
<1>7. KnownInv'
  <2>1. ASSUME NEW w \in Waiters, event'[w] # NoEvent PROVE Known(w, event[w])'
    <3> DEFINE k == event'[w]
    <3>1. Known(w, k)
      BY <1>6, <2>1
    <3>2. QED
      BY <1>2, <3>1 DEF Known, UidAt, EndsAt
  <2>2. ASSUME NEW w \in Waiters, result'[w] \in Nat PROVE Known(w, result[w])'
    <3>1. Known(w, result[w]) /\ result' = result
      BY <1>1, <1>2, <2>2 DEF KnownInv
    <3>2. QED
      BY <1>2, <3>1 DEF Known, UidAt, EndsAt
  <2>3. QED
    BY <2>1, <2>2 DEF KnownInv
<1>8. QED
  BY <1>4, <1>5, <1>7 DEF IInv

LEMMA BeginKeeps ==
    ASSUME IInv, NEW w \in Waiters, Begin(w)
    PROVE  IInv'
<1>1. TypeOK /\ CallInv /\ HistoryInv /\ KnownInv
  BY DEF IInv
<1>2. /\ waitPc[w] = "idle"
      /\ waitPc' = [waitPc EXCEPT ![w] = "checking"]
      /\ since' = [since EXCEPT ![w] = lastUid]
      /\ skip' = [skip EXCEPT ![w] = 0] \/ skip' = [skip EXCEPT ![w] = lastUid]
      /\ subscribed' = subscribed \cup {w}
      /\ cancel' = [cancel EXCEPT ![w] = FALSE]
      /\ event' = [event EXCEPT ![w] = NoEvent]
      /\ UNCHANGED <<flow, lastUid, pollPc, due, registered, result>>
  BY DEF Begin, pollVars
<1>3. TypeOK'
  <2>1. since' \in [Waiters -> 0..lastUid'] /\ lastUid' = lastUid
    BY <1>1, <1>2, MachineAssumption DEF TypeOK
  <2>2. \A x \in Waiters : skip'[x] \in {0, since'[x]}
    <3>1. DOMAIN since = Waiters
      BY <1>1 DEF TypeOK
    <3>2. ASSUME NEW x \in Waiters, x # w PROVE skip'[x] = skip[x] /\ since'[x] = since[x]
      BY <1>1, <1>2, <3>2 DEF TypeOK
    <3>3. QED
      BY <1>1, <1>2, <3>1, <3>2 DEF TypeOK
  <2>3. QED
    BY <1>1, <1>2, <2>1, <2>2 DEF TypeOK
<1>4. CallInv' /\ HistoryInv'
  BY <1>1, <1>2 DEF TypeOK, CallInv, HistoryInv
<1>5. result[w] \notin Nat /\ event'[w] = NoEvent
  BY <1>1, <1>2 DEF TypeOK, CallInv
<1>6. \A x \in Waiters : x # w => since'[x] = since[x] /\ skip'[x] = skip[x] /\ event'[x] = event[x]
  BY <1>1, <1>2 DEF TypeOK
<1>7. KnownInv'
  <2>1. ASSUME NEW x \in Waiters, event'[x] # NoEvent PROVE Known(x, event[x])'
    <3>1. x # w /\ Known(x, event[x])
      BY <1>1, <1>5, <1>6, <2>1 DEF KnownInv
    <3>2. since'[x] = since[x] /\ skip'[x] = skip[x] /\ event'[x] = event[x]
      BY <1>6, <3>1
    <3>3. QED
      BY <1>2, <3>1, <3>2 DEF Known, UidAt, EndsAt
  <2>2. ASSUME NEW x \in Waiters, result'[x] \in Nat PROVE Known(x, result[x])'
    <3>1. x # w /\ Known(x, result[x]) /\ result' = result
      BY <1>1, <1>2, <1>5, <2>2 DEF KnownInv
    <3>2. since'[x] = since[x] /\ skip'[x] = skip[x]
      BY <1>6, <3>1
    <3>3. QED
      BY <1>2, <3>1, <3>2 DEF Known, UidAt, EndsAt
  <2>3. QED
    BY <2>1, <2>2 DEF KnownInv
<1>8. QED
  BY <1>3, <1>4, <1>7 DEF IInv

LEMMA CheckCurrentKeeps ==
    ASSUME IInv, NEW w \in Waiters, CheckCurrent(w)
    PROVE  IInv'
<1>1. TypeOK /\ CallInv /\ HistoryInv /\ KnownInv
  BY DEF IInv
<1>2. UNCHANGED <<flow, lastUid, pollPc, due, subscribed, registered, since, skip, cancel, event>>
  BY DEF CheckCurrent, pollVars, callVars, tokenVars
<1>3. \/ /\ waitPc' = [waitPc EXCEPT ![w] = "returned"]
         /\ result' = [result EXCEPT ![w] = Min(Happened(w))]
         /\ Min(Happened(w)) \in Nat
         /\ Min(Happened(w)) \in DOMAIN Outcomes[w] /\ Known(w, Min(Happened(w)))
      \/ waitPc' = [waitPc EXCEPT ![w] = "registering"] /\ result' = result
  <2>1. CASE Happened(w) = {}
    BY <2>1 DEF CheckCurrent
  <2>2. CASE Happened(w) # {}
    <3>1. Min(Happened(w)) \in Nat /\ Min(Happened(w)) \in Happened(w)
      BY <1>1, <2>2, FirstHappened
    <3>2. Min(Happened(w)) \in DOMAIN Outcomes[w] /\ Known(w, Min(Happened(w)))
      BY <1>1, <3>1, HappenedFacts
    <3>3. QED
      BY <2>2, <3>1, <3>2 DEF CheckCurrent
  <2>3. QED
    BY <2>1, <2>2
<1>4. waitPc[w] = "checking"
  BY DEF CheckCurrent
<1> DEFINE m == Min(Happened(w))
<1> HIDE DEF m
<1>5. \/ /\ waitPc' = [waitPc EXCEPT ![w] = "returned"]
         /\ result' = [result EXCEPT ![w] = m]
         /\ m \in Nat /\ m \in DOMAIN Outcomes[w] /\ Known(w, m)
      \/ waitPc' = [waitPc EXCEPT ![w] = "registering"] /\ result' = result
  BY <1>3 DEF m
<1>6. TypeOK'
  BY <1>1, <1>2, <1>5 DEF TypeOK
<1>7. \A x \in Waiters :
        \/ result'[x] = result[x] /\ (x # w => waitPc'[x] = waitPc[x])
        \/ x = w /\ waitPc'[x] = "returned" /\ result'[x] = m
  BY <1>1, <1>5 DEF TypeOK
<1>8. CallInv' /\ HistoryInv'
  BY <1>1, <1>2, <1>4, <1>5 DEF TypeOK, CallInv, HistoryInv
<1>9. \A x \in Waiters : result'[x] \in Nat => Known(x, result'[x])
  BY <1>1, <1>5, <1>7 DEF TypeOK, KnownInv
<1>10. KnownInv'
  BY <1>1, <1>2, <1>9 DEF KnownInv, Known, UidAt, EndsAt
<1>11. QED
  BY <1>6, <1>8, <1>10 DEF IInv

LEMMA RegisterKeeps ==
    ASSUME IInv, NEW w \in Waiters, Register(w)
    PROVE  IInv'
<1>1. TypeOK /\ CallInv /\ HistoryInv /\ KnownInv
  BY DEF IInv
<1>2. UNCHANGED <<flow, lastUid, pollPc, due, subscribed, since, skip, result, cancel, event>>
  BY DEF Register, pollVars, callVars, tokenVars
<1>3. /\ waitPc[w] = "registering"
      /\ waitPc' = [waitPc EXCEPT ![w] = "waiting"]
      /\ registered' = registered \cup {w}
  BY DEF Register
<1>4. TypeOK'
  BY <1>1, <1>2, <1>3 DEF TypeOK
<1>5. CallInv' /\ HistoryInv'
  BY <1>1, <1>2, <1>3 DEF TypeOK, CallInv, HistoryInv
<1>6. KnownInv'
  BY <1>1, <1>2 DEF KnownInv, Known, UidAt, EndsAt
<1>7. QED
  BY <1>4, <1>5, <1>6 DEF IInv

LEMMA WaitEndsKeeps ==
    ASSUME IInv, NEW w \in Waiters, WaitEnds(w) \/ TimeExpires(w)
    PROVE  IInv'
<1>1. TypeOK /\ CallInv /\ HistoryInv /\ KnownInv
  BY DEF IInv
<1>2. /\ UNCHANGED <<flow, lastUid, pollPc, due, subscribed, registered, since, skip, cancel, event>>
      /\ waitPc[w] = "waiting" /\ waitPc' = [waitPc EXCEPT ![w] = "woken"]
  BY DEF WaitEnds, TimeExpires, pollVars, callVars, tokenVars
<1>3. PICK r : /\ result' = [result EXCEPT ![w] = r]
               /\ r \in {CANCELLED, TIMEOUT} \/ (r = event[w] /\ event[w] # NoEvent)
  BY DEF WaitEnds, TimeExpires
<1>4. /\ r \in Nat \cup {TIMEOUT, CANCELLED, FAILED}
      /\ r \in Nat => r = event[w] /\ event[w] # NoEvent
  BY <1>1, <1>3 DEF TypeOK, TIMEOUT, CANCELLED
<1>5. r \in Nat => r \in DOMAIN Outcomes[w] /\ Known(w, r)
  BY <1>1, <1>4 DEF CallInv, KnownInv
<1>6. TypeOK'
  BY <1>1, <1>2, <1>3, <1>4 DEF TypeOK
<1>7. /\ result'[w] = r
      /\ \A x \in Waiters : x # w => result'[x] = result[x] /\ waitPc'[x] = waitPc[x]
  BY <1>1, <1>2, <1>3 DEF TypeOK
<1>8. CallInv' /\ HistoryInv'
  BY <1>1, <1>2, <1>5, <1>7 DEF TypeOK, CallInv, HistoryInv
<1>9. \A x \in Waiters : result'[x] \in Nat => Known(x, result'[x])
  BY <1>1, <1>5, <1>7 DEF KnownInv
<1>10. KnownInv'
  BY <1>1, <1>2, <1>9 DEF KnownInv, Known, UidAt, EndsAt
<1>11. QED
  BY <1>6, <1>8, <1>10 DEF IInv

LEMMA CleanUpKeeps ==
    ASSUME IInv, NEW w \in Waiters, CleanUp(w)
    PROVE  IInv'
<1>1. TypeOK /\ CallInv /\ HistoryInv /\ KnownInv
  BY DEF IInv
<1>2. /\ waitPc[w] = "woken"
      /\ waitPc' = [waitPc EXCEPT ![w] = "returned"]
      /\ registered' = registered \ {w}
      /\ event' = [event EXCEPT ![w] = NoEvent]
      /\ UNCHANGED <<flow, lastUid, pollPc, due, subscribed, since, skip, result, cancel>>
  BY DEF CleanUp, pollVars, callVars
<1>3. TypeOK'
  BY <1>1, <1>2 DEF TypeOK
<1>4. CallInv' /\ HistoryInv'
  BY <1>1, <1>2 DEF TypeOK, CallInv, HistoryInv
<1>5. \A x \in Waiters : event'[x] # NoEvent => event'[x] = event[x]
  BY <1>1, <1>2 DEF TypeOK
<1>6. KnownInv'
  BY <1>1, <1>2, <1>5 DEF KnownInv, Known, UidAt, EndsAt
<1>7. QED
  BY <1>3, <1>4, <1>6 DEF IInv

LEMMA WaitAgainKeeps ==
    ASSUME IInv, NEW w \in Waiters, WaitAgain(w)
    PROVE  IInv'
<1>1. TypeOK /\ CallInv /\ HistoryInv /\ KnownInv
  BY DEF IInv
<1>2. /\ waitPc[w] = "returned" /\ skip[w] = 0
      /\ waitPc' = [waitPc EXCEPT ![w] = "checking"]
      /\ since' = [since EXCEPT ![w] = lastUid]
      /\ result' = [result EXCEPT ![w] = FAILED]
      /\ UNCHANGED <<flow, lastUid, pollPc, due, subscribed, registered, skip, cancel, event>>
  BY DEF WaitAgain, pollVars, tokenVars
<1>3. TypeOK'
  <2>1. since' \in [Waiters -> 0..lastUid'] /\ \A x \in Waiters : skip'[x] \in {0, since'[x]}
    BY <1>1, <1>2, MachineAssumption DEF TypeOK
  <2>2. QED
    BY <1>1, <1>2, <2>1 DEF TypeOK
<1>4. CallInv' /\ HistoryInv'
  BY <1>1, <1>2 DEF TypeOK, CallInv, HistoryInv, FAILED
<1>5. event[w] = NoEvent
  BY <1>1, <1>2 DEF CallInv
<1>6. \A x \in Waiters : x # w => since'[x] = since[x] /\ result'[x] = result[x]
  BY <1>1, <1>2 DEF TypeOK
<1>7. result'[w] \notin Nat
  BY <1>1, <1>2 DEF TypeOK, FAILED
<1>8. KnownInv'
  <2>1. ASSUME NEW x \in Waiters, event'[x] # NoEvent PROVE Known(x, event[x])'
    <3>1. x # w /\ Known(x, event[x]) /\ since'[x] = since[x]
      BY <1>1, <1>2, <1>5, <1>6, <2>1 DEF KnownInv
    <3>2. QED
      BY <1>2, <3>1 DEF Known, UidAt, EndsAt
  <2>2. ASSUME NEW x \in Waiters, result'[x] \in Nat PROVE Known(x, result[x])'
    <3>1. x # w /\ Known(x, result'[x]) /\ since'[x] = since[x]
      BY <1>1, <1>6, <1>7, <2>2 DEF KnownInv
    <3>2. QED
      BY <1>2, <3>1 DEF Known, UidAt, EndsAt
  <2>3. QED
    BY <2>1, <2>2 DEF KnownInv
<1>9. QED
  BY <1>3, <1>4, <1>8 DEF IInv

LEMMA FinishKeeps ==
    ASSUME IInv, NEW w \in Waiters, Finish(w)
    PROVE  IInv'
<1>1. TypeOK /\ CallInv /\ HistoryInv /\ KnownInv
  BY DEF IInv
<1>2. /\ waitPc[w] = "returned"
      /\ waitPc' = [waitPc EXCEPT ![w] = "idle"]
      /\ subscribed' = subscribed \ {w}
      /\ result' = [result EXCEPT ![w] = FAILED]
      /\ UNCHANGED <<flow, lastUid, pollPc, due, registered, since, skip, cancel, event>>
  BY DEF Finish, pollVars, callVars, tokenVars
<1>3. TypeOK'
  BY <1>1, <1>2 DEF TypeOK
<1>4. CallInv' /\ HistoryInv'
  BY <1>1, <1>2 DEF TypeOK, CallInv, HistoryInv, FAILED
<1>5. \A x \in Waiters : result'[x] \in Nat => result'[x] = result[x]
  BY <1>1, <1>2 DEF TypeOK, FAILED
<1>6. KnownInv'
  BY <1>1, <1>2, <1>5 DEF KnownInv, Known, UidAt, EndsAt
<1>7. QED
  BY <1>3, <1>4, <1>6 DEF IInv

LEMMA AsyncCancelKeeps ==
    ASSUME IInv, NEW w \in Waiters, AsyncCancel(w)
    PROVE  IInv'
<1>1. TypeOK /\ CallInv /\ HistoryInv /\ KnownInv
  BY DEF IInv
<1>2. TypeOK'
  BY <1>1 DEF TypeOK, AsyncCancel, pollVars, waitVars, callVars
<1>3. CallInv' /\ HistoryInv'
  BY <1>1 DEF CallInv, HistoryInv, AsyncCancel, pollVars, waitVars, callVars
<1>4. KnownInv'
  BY <1>1 DEF KnownInv, Known, UidAt, EndsAt, AsyncCancel, pollVars, waitVars, callVars
<1>5. QED
  BY <1>2, <1>3, <1>4 DEF IInv

LEMMA NextInvariant ==
    ASSUME IInv, [Next]_vars
    PROVE  IInv'
<1>1. CASE \E s \in States : ChangeState(s)
  BY <1>1, ChangeStateKeeps
<1>2. CASE PollerStep
  BY <1>2, NotifyWaitsKeeps, RunHandlerKeeps DEF PollerStep
<1>3. ASSUME NEW w \in Waiters, WaiterStep(w)
      PROVE  IInv'
  BY <1>3, CheckCurrentKeeps, RegisterKeeps, WaitEndsKeeps, CleanUpKeeps DEF WaiterStep
<1>4. ASSUME NEW w \in Waiters,
             Begin(w) \/ TimeExpires(w) \/ WaitAgain(w) \/ Finish(w) \/ AsyncCancel(w)
      PROVE  IInv'
  BY <1>4, BeginKeeps, WaitEndsKeeps, WaitAgainKeeps, FinishKeeps, AsyncCancelKeeps
<1>5. CASE UNCHANGED vars
  BY <1>5 DEF IInv, TypeOK, CallInv, HistoryInv, KnownInv, Known, UidAt, EndsAt,
              vars, pollVars, waitVars, callVars, tokenVars
<1>6. QED
  BY <1>1, <1>2, <1>3, <1>4, <1>5 DEF Next

-----------------------------------------------------------------------------
(* The theorems. *)

(* The invariant the others rest on: what each waiter has with the machine *)
(* follows from where it is in BlockedWait, and every event and every      *)
(* result it holds was completed no earlier than its call.                 *)
THEOREM MachineInvariant == Spec => []IInv
<1>1. Init => IInv
  BY InitInvariant
<1>2. IInv /\ [Next]_vars => IInv'
  BY NextInvariant
<1>3. QED
  BY <1>1, <1>2, PTL DEF Spec

(* The machine's variables keep their types: the history never outgrows    *)
(* its capacity and a result is an outcome's number or an error.           *)
THEOREM MachineTypeOK == Spec => []TypeOK
<1>1. IInv => TypeOK
  BY DEF IInv
<1>2. QED
  BY <1>1, MachineInvariant, PTL

(* BlockedWait never returns an outcome that was over before the call,     *)
(* whether its first look or NotifyWaits found it.                         *)
THEOREM MachineNoStaleEvent == Spec => []NoStaleEvent
<1>1. IInv => NoStaleEvent
  BY DEF IInv, KnownInv, Known, NoStaleEvent
<1>2. QED
  BY <1>1, MachineInvariant, PTL

(* ChangeState runs no handler of a subscriber that has unsubscribed since *)
(* the handler was found due.                                              *)
THEOREM MachineHandlersOnlySubscribed == Spec => HandlersOnlySubscribed
<1>1. ASSUME IInv, [Next]_vars, NEW w \in Waiters, waitPc[w] = "idle", waitPc'[w] = "idle"
      PROVE  cancel'[w] = cancel[w]
  <2>1. w \notin subscribed /\ cancel \in [Waiters -> BOOLEAN] /\ DOMAIN waitPc = Waiters
    BY <1>1 DEF IInv, TypeOK, CallInv
  <2>2. ASSUME NEW x \in Waiters, RunHandler(x)
        PROVE  cancel'[w] = cancel[w]
    <3>1. cancel' = [cancel EXCEPT ![x] = cancel[x] \/ x \in subscribed]
      BY <2>2 DEF RunHandler
    <3>2. CASE x = w
      BY <2>1, <3>1, <3>2
    <3>3. CASE x # w
      BY <2>1, <3>1, <3>3
    <3>4. QED
      BY <3>2, <3>3
  <2>3. CASE \E s \in States : ChangeState(s)
    BY <2>3 DEF ChangeState, tokenVars
  <2>4. CASE PollerStep
    BY <2>2, <2>4 DEF PollerStep, NotifyWaits
  <2>5. ASSUME NEW x \in Waiters, WaiterStep(x)
        PROVE  cancel'[w] = cancel[w]
    BY <2>5 DEF WaiterStep, CheckCurrent, Register, WaitEnds, CleanUp, tokenVars
  <2>6. ASSUME NEW x \in Waiters, Begin(x) \/ AsyncCancel(x)
        PROVE  cancel'[w] = cancel[w]
    BY <1>1, <2>1, <2>6 DEF Begin, AsyncCancel, waitVars
  <2>7. ASSUME NEW x \in Waiters, TimeExpires(x) \/ WaitAgain(x) \/ Finish(x)
        PROVE  cancel'[w] = cancel[w]
    BY <2>7 DEF TimeExpires, WaitAgain, Finish, tokenVars
  <2>8. CASE UNCHANGED vars
    BY <2>8 DEF vars, tokenVars
  <2>9. QED
    BY <1>1, <2>3, <2>4, <2>5, <2>6, <2>7, <2>8 DEF Next
<1>2. IInv /\ [Next]_vars =>
        [\A w \in Waiters : waitPc[w] = "idle" /\ waitPc'[w] = "idle" => cancel'[w] = cancel[w]]_vars
  BY <1>1
<1>3. QED
  BY <1>2, MachineInvariant, PTL DEF Spec, HandlersOnlySubscribed

=============================================================================
