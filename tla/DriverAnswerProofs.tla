------------------------ MODULE DriverAnswerProofs ------------------------
(***************************************************************************)
(* That an order which is reported as done was done (OkMeansDone): an      *)
(* answer of a call that is over is never taken for that of a later one.   *)
(* Late answers are read one call late, and every fault may make them one  *)
(* more late; the counter tells an answer from the right one as long as    *)
(* the lag is less than the number of its values.                          *)
(***************************************************************************)
EXTENDS DriverProofs, Integers

(* The port and what is on it.  A port that is closed while requests are   *)
(* answered is about to be opened by the monitor, which never acts before  *)
(* something went wrong.                                                   *)
PortInv ==
    /\ port.valid => port.open
    /\ ~port.open => line = <<>>
    /\ link # "up" => wire = <<>>
    /\ link = "gone" => line = <<>>
    /\ ~port.open /\ wire # <<>> => monitor = "open"
    /\ faults = 0 => link = "up" /\ monitor = "watch" /\ port.valid

(* An attempt whose command was written and whose answer was not read. *)
Flying == exec.pc \in {"listen", "read"}

(* Attempts that may still fail although no fault is counted for them: the *)
(* monitor closes the port once for each time it was found lost, between   *)
(* the writing and the reading, and then before the next writing.          *)
Closures ==
    IF monitor = "open"
    THEN IF port.open \/ exec.pc \in {"idle", "done"} THEN 0 ELSE IF Flying THEN 2 ELSE 1
    ELSE IF monitor = "watch" /\ port.valid THEN 0 ELSE 2

(* The delay that may have come about: a command for each fault, but for   *)
(* what is still to come, and one that waits for its answer now.           *)
Budget == (faults + (IF Flying THEN 2 ELSE 1)) - Closures

(* How many commands ago the counter, which is n now, was t. *)
Age(n, t) == IF t <= n THEN n - t ELSE (n + Modulus) - t

(* What is still to be read of the answers l and the requests w, in order. *)
OnTheWay(l, w) ==
    {[place |-> i, tag |-> l[i].tag, old |-> l[i].old] : i \in {j \in DOMAIN l : l[j].kind # "garbled"}}
    \cup {[place |-> Len(l) + i, tag |-> w[i].tag, old |-> w[i].old] : i \in DOMAIN w}

(* Nothing on the way lags more than b commands behind the counter n, and  *)
(* what is old is not taken for the answer of a command that is flying.    *)
Lag(l, w, n, flying, b) ==
    /\ Len(l) + Len(w) <= b
    /\ \A x \in OnTheWay(l, w) : /\ Age(n, x.tag) + x.place <= b
                                 /\ flying /\ x.old => x.tag # n

Nothing(s) == DOMAIN s = {}

(* What is on the way in k and v was on the way in l and w, s places back. *)
Nearer(l, w, k, v, same, s) ==
    /\ Len(k) + Len(v) + s <= Len(l) + Len(w)
    /\ \A x \in OnTheWay(k, v) : \E y \in OnTheWay(l, w) :
         x.tag = y.tag /\ x.place + s <= y.place /\ (same => x.old = y.old)

LagInv == Lag(line, wire, counter, Flying, Budget)

(* What a caller was given of an earlier call carries another counter. *)
HeldInv ==
    \A c \in Callers :
        call[c].frame.old => /\ call[c].frame.tag # counter
                             /\ call[c].pc = "answered" \/ (exec.pc = "done" /\ exec.caller = c)

AnswerInv == PortInv /\ (faults + 1 < Modulus => LagInv /\ HeldInv)

-----------------------------------------------------------------------------
(* Ages and places. *)

LEMMA AgeType ==
    ASSUME NEW n \in Tags, NEW t \in Tags
    PROVE  Age(n, t) \in Nat /\ (Age(n, t) = 0 <=> t = n)
BY DriverAssumption DEF Tags, Age

(* The next command makes everything one older, short of a whole round. *)
LEMMA AgeGrows ==
    ASSUME NEW n \in Tags, NEW t \in Tags, NEW m \in Tags,
           m = IF n < Modulus - 1 THEN n + 1 ELSE 0, Age(n, t) + 1 < Modulus
    PROVE  Age(m, t) = Age(n, t) + 1 /\ t # m
BY DriverAssumption DEF Tags, Age

LEMMA OnTheWayType ==
    ASSUME NEW l \in Seq(Frames), NEW w \in Seq(RequestType), NEW x \in OnTheWay(l, w)
    PROVE  x.tag \in Tags /\ x.place \in Nat /\ x.place >= 1 /\ x.old \in BOOLEAN
<1>1. CASE \E i \in DOMAIN l : x = [place |-> i, tag |-> l[i].tag, old |-> l[i].old]
  <2>1. PICK i \in DOMAIN l : x = [place |-> i, tag |-> l[i].tag, old |-> l[i].old]
    BY <1>1
  <2>2. l[i] \in Frames /\ i \in Nat /\ i >= 1
    OBVIOUS
  <2>3. QED
    BY <2>1, <2>2 DEF Frames
<1>2. CASE \E i \in DOMAIN w : x = [place |-> Len(l) + i, tag |-> w[i].tag, old |-> w[i].old]
  <2>1. PICK i \in DOMAIN w : x = [place |-> Len(l) + i, tag |-> w[i].tag, old |-> w[i].old]
    BY <1>2
  <2>2. w[i] \in RequestType /\ i \in Nat /\ i >= 1 /\ Len(l) \in Nat
    OBVIOUS
  <2>3. QED
    BY <2>1, <2>2 DEF RequestType
<1>3. QED
  BY <1>1, <1>2 DEF OnTheWay

(* A channel that is empty lags behind nothing. *)
LEMMA EmptyLag ==
    ASSUME NEW n, NEW flying, NEW b \in Nat
    PROVE  Lag(<<>>, <<>>, n, flying, b)
<1>1. OnTheWay(<<>>, <<>>) = {}
  BY DEF OnTheWay
<1>2. Len(<<>>) = 0
  OBVIOUS
<1>3. QED
  BY <1>1, <1>2 DEF Lag

(* What is on the way comes s places nearer: so may the bound. *)
LEMMA NearerLag ==
    ASSUME NEW l \in Seq(Frames), NEW w \in Seq(RequestType),
           NEW k \in Seq(Frames), NEW v \in Seq(RequestType),
           NEW n \in Tags, NEW f, NEW g, NEW b \in Int, NEW d \in Int, NEW s \in {0, 1},
           Lag(l, w, n, f, b), Nearer(l, w, k, v, g, s), b <= d + s, g => f
    PROVE  Lag(k, v, n, g, d)
<1>1. Len(l) \in Nat /\ Len(w) \in Nat /\ Len(k) \in Nat /\ Len(v) \in Nat
  OBVIOUS
<1>2. Len(k) + Len(v) <= d
  BY <1>1 DEF Lag, Nearer
<1>3. ASSUME NEW x \in OnTheWay(k, v)
      PROVE  Age(n, x.tag) + x.place <= d /\ (g /\ x.old => x.tag # n)
  <2>1. PICK y \in OnTheWay(l, w) :
           x.tag = y.tag /\ x.place + s <= y.place /\ (g => x.old = y.old)
    BY DEF Nearer
  <2>2. y.tag \in Tags /\ y.place \in Nat /\ x.place \in Nat
    BY OnTheWayType
  <2>3. Age(n, y.tag) \in Nat
    BY <2>2, AgeType
  <2>4. Age(n, y.tag) + y.place <= b /\ (f /\ y.old => y.tag # n)
    BY DEF Lag
  <2>5. Age(n, y.tag) + x.place <= d
    BY <2>1, <2>2, <2>3, <2>4
  <2>6. QED
    BY <2>1, <2>4, <2>5
<1>4. QED
  BY <1>2, <1>3 DEF Lag

(* The same things on the way, as much time or more. *)
LEMMA SameLag ==
    ASSUME NEW l \in Seq(Frames), NEW w \in Seq(RequestType), NEW n \in Tags,
           NEW f, NEW g, NEW b \in Int, NEW d \in Int, Lag(l, w, n, f, b), b <= d, g => f
    PROVE  Lag(l, w, n, g, d)
<1>1. \A x \in OnTheWay(l, w) : x.place \in Nat /\ x.place + 0 <= x.place
  BY OnTheWayType
<1>2. Nearer(l, w, l, w, g, 0)
  BY <1>1 DEF Nearer
<1>3. QED
  BY <1>2, NearerLag

(* The line is emptied. *)
LEMMA Emptied ==
    ASSUME NEW l \in Seq(Frames), NEW w \in Seq(RequestType), NEW k \in Seq(Frames), Nothing(k),
           NEW s \in {0, 1}, s <= Len(l), NEW g
    PROVE  Nearer(l, w, k, w, g, s)
<1>1. Len(l) \in Nat /\ Len(w) \in Nat /\ DOMAIN k = {} /\ Len(k) = 0
  BY DEF Nothing
<1>2. Len(k) + Len(w) + s <= Len(l) + Len(w)
  BY <1>1
<1>3. ASSUME NEW x \in OnTheWay(k, w)
      PROVE  \E y \in OnTheWay(l, w) : x.tag = y.tag /\ x.place + s <= y.place /\ x.old = y.old
  <2>1. PICK i \in DOMAIN w : x = [place |-> Len(k) + i, tag |-> w[i].tag, old |-> w[i].old]
    BY <1>1 DEF OnTheWay
  <2>2. DEFINE y == [place |-> Len(l) + i, tag |-> w[i].tag, old |-> w[i].old]
  <2>3. y \in OnTheWay(l, w)
    BY DEF OnTheWay
  <2>4. x.tag = y.tag /\ x.old = y.old /\ x.place = i /\ y.place = Len(l) + i /\ i \in Nat
    BY <1>1, <2>1
  <2>5. x.place + s <= y.place
    BY <1>1, <2>4
  <2>6. QED
    BY <2>3, <2>4, <2>5
<1>4. QED
  BY <1>2, <1>3 DEF Nearer

LEMMA ClearedLag ==
    ASSUME NEW l \in Seq(Frames), NEW w \in Seq(RequestType), NEW k \in Seq(Frames), Nothing(k),
           NEW n \in Tags, NEW f, NEW b \in Int, NEW d \in Int, Lag(l, w, n, f, b), b <= d
    PROVE  Lag(k, w, n, f, d)
<1>1. 0 \in {0, 1} /\ 0 <= Len(l) /\ b <= d + 0
  OBVIOUS
<1>2. Nearer(l, w, k, w, f, 0)
  BY <1>1, Emptied
<1>3. QED
  BY <1>1, <1>2, NearerLag

(* A command that is written, or that fails to be, ages what is there. *)
LEMMA OlderLag ==
    ASSUME NEW l \in Seq(Frames), NEW w \in Seq(RequestType), NEW n \in Tags, NEW m \in Tags,
           NEW f, NEW g, NEW b \in Int,
           Lag(l, w, n, f, b), m = IF n < Modulus - 1 THEN n + 1 ELSE 0, b < Modulus
    PROVE  Lag(l, w, m, g, b + 1)
<1>1. Len(l) \in Nat /\ Len(w) \in Nat
  OBVIOUS
<1>2. Len(l) + Len(w) <= b + 1
  BY <1>1 DEF Lag
<1>3. ASSUME NEW x \in OnTheWay(l, w)
      PROVE  Age(m, x.tag) + x.place <= b + 1 /\ x.tag # m
  <2>1. x.tag \in Tags /\ x.place \in Nat /\ x.place >= 1
    BY OnTheWayType
  <2>2. Age(n, x.tag) \in Nat /\ Age(n, x.tag) + x.place <= b
    <3>1. Age(n, x.tag) \in Nat
      BY <2>1, AgeType, Zenon
    <3>2. QED
      BY <3>1 DEF Lag
  <2>3. Age(n, x.tag) + 1 < Modulus
    BY <2>1, <2>2, DriverAssumption
  <2>4. Age(m, x.tag) = Age(n, x.tag) + 1 /\ x.tag # m
    BY <2>1, <2>3, AgeGrows
  <2>5. QED
    BY <2>1, <2>2, <2>4
<1>4. QED
  BY <1>2, <1>3 DEF Lag

(* A new request is the last thing that is read, and of no age. *)
LEMMA RequestLag ==
    ASSUME NEW l \in Seq(Frames), NEW w \in Seq(RequestType), NEW n \in Tags,
           NEW f, NEW b \in Int, NEW r \in RequestType, r.tag = n, ~r.old,
           Lag(l, w, n, f, b), Len(l) + Len(w) < b
    PROVE  Lag(l, Append(w, r), n, f, b)
<1> DEFINE v == Append(w, r)
<1>1. /\ Len(l) \in Nat /\ Len(w) \in Nat /\ Len(v) = Len(w) + 1 /\ v[Len(w) + 1] = r
      /\ DOMAIN v = 1..(Len(w) + 1) /\ DOMAIN w = 1..Len(w)
      /\ \A i \in DOMAIN w : v[i] = w[i]
  OBVIOUS
<1> HIDE DEF v
<1>2. Len(l) + Len(v) <= b
  BY <1>1
<1>3. ASSUME NEW x \in OnTheWay(l, v)
      PROVE  Age(n, x.tag) + x.place <= b /\ (f /\ x.old => x.tag # n)
  <2>1. CASE x \in OnTheWay(l, w)
    BY <2>1 DEF Lag
  <2>2. CASE x = [place |-> Len(l) + (Len(w) + 1), tag |-> r.tag, old |-> r.old]
    <3>1. Age(n, n) = 0
      BY AgeType
    <3>2. x.tag = n /\ ~x.old /\ x.place = Len(l) + (Len(w) + 1)
      BY <2>2
    <3>3. QED
      BY <1>1, <3>1, <3>2
  <2>3. x \in OnTheWay(l, w) \/ x = [place |-> Len(l) + (Len(w) + 1), tag |-> r.tag, old |-> r.old]
    <3>1. CASE \E i \in {j \in DOMAIN l : l[j].kind # "garbled"} :
                  x = [place |-> i, tag |-> l[i].tag, old |-> l[i].old]
      BY <3>1 DEF OnTheWay
    <3>2. CASE \E i \in DOMAIN v : x = [place |-> Len(l) + i, tag |-> v[i].tag, old |-> v[i].old]
      <4>1. PICK i \in DOMAIN v : x = [place |-> Len(l) + i, tag |-> v[i].tag, old |-> v[i].old]
        BY <3>2
      <4>2. CASE i \in DOMAIN w
        BY <1>1, <4>1, <4>2 DEF OnTheWay
      <4>3. CASE i = Len(w) + 1
        BY <1>1, <4>1, <4>3
      <4>4. i \in DOMAIN w \/ i = Len(w) + 1
        BY <1>1
      <4>5. QED
        BY <4>2, <4>3, <4>4
    <3>3. QED
      BY <3>1, <3>2 DEF OnTheWay
  <2>4. QED
    BY <2>1, <2>2, <2>3
<1>4. QED
  BY <1>2, <1>3 DEF Lag, v

(* All that is in the line is read at once. *)
LEMMA ReadLag ==
    ASSUME NEW l \in Seq(Frames), NEW w \in Seq(RequestType), NEW k \in Seq(Frames), Nothing(k),
           NEW n \in Tags, NEW f, NEW g, ~g, NEW b \in Int, NEW d \in Int, b <= d + 1,
           Lag(l, w, n, f, b), 1 <= Len(l)
    PROVE  Lag(k, w, n, g, d)
<1>1. Nearer(l, w, k, w, g, 1)
  BY Emptied
<1>2. QED
  BY <1>1, NearerLag

(* The first answer is cut: what is left of it is no answer. *)
LEMMA CutLag ==
    ASSUME NEW l \in Seq(Frames), NEW w \in Seq(RequestType), NEW n \in Tags,
           NEW f, NEW g, ~g, NEW b \in Int, Lag(l, w, n, f, b), l # <<>>
    PROVE  Lag(<<NoFrame>> \o Tail(l), w, n, g, b)
<1> DEFINE k == <<NoFrame>> \o Tail(l)
<1>1. /\ Len(l) \in Nat /\ Len(l) >= 1 /\ Len(w) \in Nat
      /\ k \in Seq(Frames) /\ Len(k) = Len(l) /\ DOMAIN k = DOMAIN l
      /\ k[1] = NoFrame /\ \A i \in DOMAIN l : i # 1 => k[i] = l[i]
  BY HeadFacts, ConstantTypes
<1> HIDE DEF k
<1>2. Len(k) + Len(w) + 0 <= Len(l) + Len(w)
  BY <1>1
<1>3. \A x \in OnTheWay(k, w) : x \in OnTheWay(l, w)
  <2>1. \A i \in DOMAIN k : k[i].kind # "garbled" => i \in DOMAIN l /\ k[i] = l[i]
    BY <1>1 DEF NoFrame
  <2>2. QED
    BY <1>1, <2>1 DEF OnTheWay
<1>4. \A x \in OnTheWay(k, w) : x.place + 0 <= x.place
  BY <1>1, OnTheWayType
<1>5. \A x \in OnTheWay(k, w) : \E y \in OnTheWay(l, w) :
         x.tag = y.tag /\ x.place + 0 <= y.place /\ (g => x.old = y.old)
  BY <1>3, <1>4
<1>6. Nearer(l, w, k, w, g, 0)
  BY <1>2, <1>5 DEF Nearer
<1>7. Lag(k, w, n, g, b)
  BY <1>1, <1>6, NearerLag
<1>8. QED
  BY <1>7 DEF k

(* The end of a call changes nothing of what is on the way but its age. *)
LEMMA OutdatedLag ==
    ASSUME NEW l \in Seq(Frames), NEW w \in Seq(RequestType), NEW n \in Tags,
           NEW f, NEW g, ~g, NEW b \in Int, Lag(l, w, n, f, b)
    PROVE  Lag(Outdated(l), Outdated(w), n, g, b)
<1> DEFINE k == Outdated(l)
           v == Outdated(w)
<1>1. /\ Len(l) \in Nat /\ Len(w) \in Nat /\ k \in Seq(Frames) /\ v \in Seq(RequestType)
      /\ Len(k) = Len(l) /\ Len(v) = Len(w) /\ DOMAIN k = DOMAIN l /\ DOMAIN v = DOMAIN w
  <2>1. ASSUME NEW i \in DOMAIN l PROVE [l[i] EXCEPT !.old = TRUE] \in Frames
    <3>1. l[i] \in Frames
      OBVIOUS
    <3>2. QED
      BY <3>1 DEF Frames
  <2>2. ASSUME NEW i \in DOMAIN w PROVE [w[i] EXCEPT !.old = TRUE] \in RequestType
    <3>1. w[i] \in RequestType
      OBVIOUS
    <3>2. QED
      BY <3>1 DEF RequestType
  <2>3. k \in Seq(Frames) /\ Len(k) = Len(l) /\ DOMAIN k = DOMAIN l
    BY <2>1 DEF Outdated
  <2>4. v \in Seq(RequestType) /\ Len(v) = Len(w) /\ DOMAIN v = DOMAIN w
    BY <2>2 DEF Outdated
  <2>5. QED
    BY <2>3, <2>4
<1>2. ASSUME NEW i \in DOMAIN l PROVE k[i].tag = l[i].tag /\ k[i].kind = l[i].kind
  <2>1. l[i] \in Frames /\ k[i] = [l[i] EXCEPT !.old = TRUE]
    BY DEF Outdated
  <2>2. QED
    BY <2>1 DEF Frames
<1>3. ASSUME NEW i \in DOMAIN w PROVE v[i].tag = w[i].tag
  <2>1. w[i] \in RequestType /\ v[i] = [w[i] EXCEPT !.old = TRUE]
    BY DEF Outdated
  <2>2. QED
    BY <2>1 DEF RequestType
<1> HIDE DEF k, v
<1>4. Len(k) + Len(v) + 0 <= Len(l) + Len(w)
  BY <1>1
<1>5. ASSUME NEW x \in OnTheWay(k, v)
      PROVE  \E y \in OnTheWay(l, w) : x.tag = y.tag /\ x.place = y.place
  <2>1. CASE \E i \in {j \in DOMAIN k : k[j].kind # "garbled"} :
                x = [place |-> i, tag |-> k[i].tag, old |-> k[i].old]
    <3>1. PICK i \in {j \in DOMAIN k : k[j].kind # "garbled"} :
                x = [place |-> i, tag |-> k[i].tag, old |-> k[i].old]
      BY <2>1
    <3>2. [place |-> i, tag |-> l[i].tag, old |-> l[i].old] \in OnTheWay(l, w)
      BY <1>1, <1>2 DEF OnTheWay
    <3>3. QED
      BY <1>1, <1>2, <3>1, <3>2
  <2>2. CASE \E i \in DOMAIN v : x = [place |-> Len(k) + i, tag |-> v[i].tag, old |-> v[i].old]
    <3>1. PICK i \in DOMAIN v : x = [place |-> Len(k) + i, tag |-> v[i].tag, old |-> v[i].old]
      BY <2>2
    <3>2. [place |-> Len(l) + i, tag |-> w[i].tag, old |-> w[i].old] \in OnTheWay(l, w)
      BY <1>1 DEF OnTheWay
    <3>3. QED
      BY <1>1, <1>3, <3>1, <3>2
  <2>3. QED
    BY <2>1, <2>2 DEF OnTheWay
<1>6. \A x \in OnTheWay(k, v) : x.place + 0 <= x.place
  BY <1>1, OnTheWayType
<1>7. \A x \in OnTheWay(k, v) : \E y \in OnTheWay(l, w) :
         x.tag = y.tag /\ x.place + 0 <= y.place /\ (g => x.old = y.old)
  BY <1>5, <1>6
<1>8. Nearer(l, w, k, v, g, 0)
  BY <1>4, <1>7 DEF Nearer
<1>9. Lag(k, v, n, g, b)
  BY <1>1, <1>8, NearerLag
<1>10. QED
  BY <1>9 DEF k, v

(* A request or its answer is lost. *)
LEMMA LostLag ==
    ASSUME NEW l \in Seq(Frames), NEW w \in Seq(RequestType), NEW n \in Tags,
           NEW f, NEW b \in Int, Lag(l, w, n, f, b), w # <<>>
    PROVE  Lag(l, Tail(w), n, f, b)
<1> DEFINE v == Tail(w)
<1>1. /\ Len(l) \in Nat /\ Len(w) \in Nat /\ Len(w) >= 1
      /\ v \in Seq(RequestType) /\ Len(v) = Len(w) - 1
      /\ \A i \in DOMAIN v : i \in Nat /\ i + 1 \in DOMAIN w /\ v[i] = w[i + 1]
  BY HeadFacts
<1> HIDE DEF v
<1>2. Len(l) + Len(v) + 0 <= Len(l) + Len(w)
  BY <1>1
<1>3. ASSUME NEW x \in OnTheWay(l, v)
      PROVE  \E y \in OnTheWay(l, w) : x.tag = y.tag /\ x.place + 0 <= y.place /\ x.old = y.old
  <2>1. CASE x \in OnTheWay(l, w)
    <3>1. x.place + 0 <= x.place
      BY <2>1, OnTheWayType
    <3>2. QED
      BY <2>1, <3>1
  <2>2. CASE \E i \in DOMAIN v : x = [place |-> Len(l) + i, tag |-> v[i].tag, old |-> v[i].old]
    <3>1. PICK i \in DOMAIN v : x = [place |-> Len(l) + i, tag |-> v[i].tag, old |-> v[i].old]
      BY <2>2
    <3>2. DEFINE y == [place |-> Len(l) + (i + 1), tag |-> w[i + 1].tag, old |-> w[i + 1].old]
    <3>3. y \in OnTheWay(l, w)
      BY <1>1 DEF OnTheWay
    <3>4. /\ x.tag = y.tag /\ x.old = y.old /\ x.place = Len(l) + i /\ y.place = Len(l) + (i + 1)
          /\ i \in Nat
      BY <1>1, <3>1
    <3>5. x.place + 0 <= y.place
      BY <1>1, <3>4
    <3>6. QED
      BY <3>3, <3>4, <3>5
  <2>3. QED
    BY <2>1, <2>2 DEF OnTheWay
<1>4. \A x \in OnTheWay(l, v) : \E y \in OnTheWay(l, w) :
         x.tag = y.tag /\ x.place + 0 <= y.place /\ (f => x.old = y.old)
  BY <1>3
<1>5. Nearer(l, w, l, v, f, 0)
  BY <1>2, <1>4 DEF Nearer
<1>6. Lag(l, v, n, f, b)
  BY <1>1, <1>5, NearerLag
<1>7. QED
  BY <1>6 DEF v

(* An answer takes the place of the request it answers. *)
LEMMA SentLag ==
    ASSUME NEW l \in Seq(Frames), NEW w \in Seq(RequestType), NEW n \in Tags,
           NEW f, NEW b \in Int, Lag(l, w, n, f, b), w # <<>>, NEW kind \in Kinds
    PROVE  Lag(Append(l, [kind |-> kind, tag |-> Head(w).tag, old |-> Head(w).old]), Tail(w), n, f, b)
<1> DEFINE v == Tail(w)
           frame == [kind |-> kind, tag |-> Head(w).tag, old |-> Head(w).old]
           k == Append(l, frame)
<1>1. /\ Len(l) \in Nat /\ Len(w) \in Nat /\ Len(w) >= 1 /\ Head(w) = w[1] /\ w[1] \in RequestType
      /\ v \in Seq(RequestType) /\ Len(v) = Len(w) - 1
      /\ \A i \in DOMAIN v : i \in Nat /\ i + 1 \in DOMAIN w /\ v[i] = w[i + 1]
  BY HeadFacts
<1>2. frame \in Frames
  BY <1>1 DEF Frames, RequestType
<1>3. frame.tag = w[1].tag /\ frame.old = w[1].old
  BY <1>1
<1> HIDE DEF v, frame
<1>4. /\ k \in Seq(Frames) /\ Len(k) = Len(l) + 1 /\ DOMAIN k = 1..(Len(l) + 1)
      /\ k[Len(l) + 1] = frame /\ \A i \in DOMAIN l : k[i] = l[i] /\ i \in 1..Len(l)
      /\ \A i \in 1..Len(l) : i \in DOMAIN l
  BY <1>1, <1>2
<1> HIDE DEF k
<1>5. Len(k) + Len(v) + 0 <= Len(l) + Len(w)
  BY <1>1, <1>4
<1>6. ASSUME NEW x \in OnTheWay(k, v)
      PROVE  \E y \in OnTheWay(l, w) : x.tag = y.tag /\ x.place = y.place /\ x.old = y.old
  <2>1. CASE \E i \in {j \in DOMAIN k : k[j].kind # "garbled"} :
                x = [place |-> i, tag |-> k[i].tag, old |-> k[i].old]
    <3>1. PICK i \in {j \in DOMAIN k : k[j].kind # "garbled"} :
                x = [place |-> i, tag |-> k[i].tag, old |-> k[i].old]
      BY <2>1
    <3>2. CASE i \in DOMAIN l
      <4>1. x \in OnTheWay(l, w)
        BY <1>4, <3>1, <3>2 DEF OnTheWay
      <4>2. QED
        BY <4>1
    <3>3. CASE i = Len(l) + 1
      <4>1. 1 \in DOMAIN w
        BY <1>1
      <4>2. [place |-> Len(l) + 1, tag |-> w[1].tag, old |-> w[1].old] \in OnTheWay(l, w)
        BY <4>1 DEF OnTheWay
      <4>3. QED
        BY <1>3, <1>4, <3>1, <3>3, <4>2
    <3>4. QED
      BY <1>1, <1>4, <3>2, <3>3
  <2>2. CASE \E i \in DOMAIN v : x = [place |-> Len(k) + i, tag |-> v[i].tag, old |-> v[i].old]
    <3>1. PICK i \in DOMAIN v : x = [place |-> Len(k) + i, tag |-> v[i].tag, old |-> v[i].old]
      BY <2>2
    <3>2. [place |-> Len(l) + (i + 1), tag |-> w[i + 1].tag, old |-> w[i + 1].old] \in OnTheWay(l, w)
      BY <1>1 DEF OnTheWay
    <3>3. Len(k) + i = Len(l) + (i + 1)
      BY <1>1, <1>4
    <3>4. QED
      BY <1>1, <3>1, <3>2, <3>3
  <2>3. QED
    BY <2>1, <2>2 DEF OnTheWay
<1>7. \A x \in OnTheWay(k, v) : x.place + 0 <= x.place
  BY <1>1, <1>4, OnTheWayType
<1>8. \A x \in OnTheWay(k, v) : \E y \in OnTheWay(l, w) :
         x.tag = y.tag /\ x.place + 0 <= y.place /\ (f => x.old = y.old)
  BY <1>6, <1>7
<1>9. Nearer(l, w, k, v, f, 0)
  BY <1>5, <1>8 DEF Nearer
<1>10. Lag(k, v, n, f, b)
  BY <1>1, <1>4, <1>9, NearerLag
<1>11. QED
  BY <1>10 DEF k, v, frame

(* All that was not answered is lost. *)
LEMMA VanishedLag ==
    ASSUME NEW l \in Seq(Frames), NEW w \in Seq(RequestType), NEW v \in Seq(RequestType), Nothing(v),
           NEW n \in Tags, NEW f, NEW b \in Int, Lag(l, w, n, f, b)
    PROVE  Lag(l, v, n, f, b)
<1>1. Len(l) \in Nat /\ Len(w) \in Nat /\ DOMAIN v = {} /\ Len(v) = 0
  BY DEF Nothing
<1>2. Len(l) + Len(v) + 0 <= Len(l) + Len(w)
  BY <1>1
<1>3. \A x \in OnTheWay(l, v) : x \in OnTheWay(l, w)
  BY <1>1 DEF OnTheWay
<1>4. ASSUME NEW x \in OnTheWay(l, v) PROVE x.place + 0 <= x.place
  <2>1. x.place \in Nat
    BY <1>1, OnTheWayType
  <2>2. QED
    BY <2>1
<1>5. \A x \in OnTheWay(l, v) : \E y \in OnTheWay(l, w) :
         x.tag = y.tag /\ x.place + 0 <= y.place /\ (f => x.old = y.old)
  BY <1>3, <1>4
<1>6. Nearer(l, w, l, v, f, 0)
  BY <1>2, <1>5 DEF Nearer
<1>7. 0 \in {0, 1} /\ b <= b + 0
  OBVIOUS
<1>8. QED
  BY <1>6, <1>7, NearerLag

-----------------------------------------------------------------------------
(* The port. *)

(* The sequences and the budget, before and after a step. *)
LEMMA ChannelType ==
    ASSUME TypeOK
    PROVE  /\ line \in Seq(Frames) /\ wire \in Seq(RequestType) /\ counter \in Tags
           /\ faults \in Nat /\ Closures \in 0..2 /\ Flying \in BOOLEAN /\ Budget \in Int
           /\ port.open \in BOOLEAN /\ port.valid \in BOOLEAN
<1>1. line \in Seq(Frames) /\ wire \in Seq(RequestType) /\ counter \in Tags /\ faults \in Nat
  BY DriverAssumption DEF TypeOK, RequestType
<1>2. Closures \in 0..2
  BY DEF Closures
<1>3. Flying \in BOOLEAN
  BY DEF Flying
<1>4. Budget \in Int
  BY <1>1, <1>2 DEF Budget
<1>5. port.open \in BOOLEAN /\ port.valid \in BOOLEAN
  BY DEF TypeOK
<1>6. QED
  BY <1>1, <1>2, <1>3, <1>4, <1>5

LEMMA FaultGrows == ASSUME faults \in Nat, Fault PROVE faults' = faults + 1 /\ faults' # 0
BY DEF Fault

(* Nothing is answered unless the link is up. *)
LEMMA PortKept ==
    ASSUME IInv, PortInv, UNCHANGED <<wire, line, port, monitor, link>>,
           faults' = faults \/ faults' # 0
    PROVE  PortInv'
BY DEF PortInv

LEMMA TakeTaskPort ==
    ASSUME IInv, PortInv, TakeTask
    PROVE  PortInv'
<1>1. UNCHANGED <<wire, monitor, link, faults>>
  BY DEF TakeTask
<1>2. CASE port.valid
  BY <1>1, <1>2, PortKept DEF TakeTask
<1>3. CASE ~port.valid
  <2>1. line' = <<>> /\ port'.open = (link # "gone") /\ port'.valid = (link # "gone")
    BY <1>3 DEF TakeTask, OpenPort
  <2>2. QED
    BY <1>1, <1>3, <2>1 DEF PortInv
<1>4. QED
  BY <1>2, <1>3

LEMMA WriteCommandPort ==
    ASSUME IInv, PortInv, WriteCommand
    PROVE  PortInv'
<1>1. UNCHANGED <<line, monitor, link, faults>>
  BY DEF WriteCommand
<1>2. CASE (~port.open \/ link = "gone") /\ port' = [port EXCEPT !.valid = FALSE] /\ UNCHANGED wire
  <2>1. port'.open = port.open /\ ~port'.valid
    BY <1>2 DEF IInv, TypeOK
  <2>2. faults # 0
    BY <1>2 DEF PortInv
  <2>3. QED
    BY <1>1, <1>2, <2>1, <2>2 DEF PortInv
<1>3. CASE port.open /\ UNCHANGED port /\ (link # "up" => UNCHANGED wire)
  BY <1>1, <1>3 DEF PortInv
<1>4. QED
  BY <1>2, <1>3 DEF WriteCommand

LEMMA ListenPort ==
    ASSUME IInv, PortInv, Listen
    PROVE  PortInv'
<1>1. UNCHANGED <<wire, line, monitor, link, faults>>
  BY DEF Listen
<1>2. CASE ~port.open /\ port' = [port EXCEPT !.valid = FALSE]
  <2>1. port'.open = port.open /\ ~port'.valid
    BY <1>2 DEF IInv, TypeOK
  <2>2. faults # 0
    BY <1>2 DEF PortInv
  <2>3. QED
    BY <1>1, <1>2, <2>1, <2>2 DEF PortInv
<1>3. CASE UNCHANGED port
  BY <1>1, <1>3, PortKept
<1>4. QED
  BY <1>2, <1>3 DEF Listen

LEMMA TimeOutPort ==
    ASSUME IInv, PortInv, TimeOut
    PROVE  PortInv'
<1>1. UNCHANGED <<wire, line, port, monitor, link>>
  BY DEF TimeOut, channel
<1>2. faults' = faults \/ faults' # 0
  BY ChannelType, FaultGrows DEF TimeOut, IInv
<1>3. QED
  BY <1>1, <1>2, PortKept

(* A frame that was read came over a link that is there. *)
LEMMA ReceivePort ==
    ASSUME IInv, PortInv, Receive
    PROVE  PortInv' /\ UNCHANGED port
<1>1. UNCHANGED <<wire, monitor, link, faults>> /\ line' = <<>>
  BY DEF Receive
<1>2. link # "gone"
  BY DEF Receive, PortInv
<1>3. UNCHANGED port
  BY <1>2 DEF Receive
<1>4. QED
  BY <1>1, <1>3 DEF PortInv

LEMMA ReceiveShortPort ==
    ASSUME IInv, PortInv, ReceiveShort
    PROVE  PortInv'
<1>1. UNCHANGED <<wire, port, monitor, link>> /\ port.open /\ line # <<>>
  BY DEF ReceiveShort
<1>2. faults' # 0
  BY ChannelType, FaultGrows DEF ReceiveShort, IInv
<1>3. QED
  BY <1>1, <1>2 DEF PortInv

LEMMA CallbackPort ==
    ASSUME IInv, PortInv, Callback
    PROVE  PortInv'
<1>1. UNCHANGED <<port, monitor, link, faults>>
  BY DEF Callback
<1>2. wire = <<>> => wire' = <<>>
  BY DEF Callback, Outdated
<1>3. line = <<>> => line' = <<>>
  BY DEF Callback, Outdated
<1>4. wire' # <<>> => wire # <<>>
  BY <1>2
<1>5. QED
  BY <1>1, <1>2, <1>3, <1>4 DEF PortInv

LEMMA MonitorPort ==
    ASSUME IInv, PortInv, MonitorStep
    PROVE  PortInv'
<1>1. UNCHANGED <<wire, link, faults>>
  BY DEF MonitorStep, MonitorLooks, MonitorCloses, MonitorOpens
<1>2. faults # 0
  BY DEF MonitorStep, MonitorLooks, MonitorCloses, MonitorOpens, PortInv
<1>3. CASE MonitorLooks
  <2>1. UNCHANGED <<port, line>> /\ monitor = "watch"
    BY <1>3 DEF MonitorLooks
  <2>2. QED
    BY <1>1, <1>2, <2>1 DEF PortInv
<1>4. CASE MonitorCloses
  <2>1. ~port'.open /\ ~port'.valid /\ line' = <<>> /\ monitor' = "open"
    BY <1>4 DEF MonitorCloses
  <2>2. QED
    BY <1>1, <1>2, <2>1 DEF PortInv
<1>5. CASE MonitorOpens
  <2>1. line' = <<>> /\ port'.open = (link # "gone") /\ port'.valid = (link # "gone")
    BY <1>5 DEF MonitorOpens, OpenPort
  <2>2. QED
    BY <1>1, <1>2, <2>1 DEF PortInv
<1>6. QED
  BY <1>3, <1>4, <1>5 DEF MonitorStep

LEMMA SendPort ==
    ASSUME IInv, PortInv, wire # <<>>, NEW kind, Send(kind), faults' = faults \/ faults' # 0
    PROVE  PortInv'
<1>1. UNCHANGED <<port, monitor, link>> /\ link = "up" /\ (~port.open => line' = line)
  BY DEF Send, PortInv
<1>2. QED
  BY <1>1 DEF PortInv

LEMMA ValidatorPort ==
    ASSUME IInv, PortInv, \/ Respond \/ RespondBadly \/ Lose \/ ComeBack
                          \/ \E how \in {"mute", "gone"} : Leave(how)
    PROVE  PortInv'
<1>0. faults \in Nat
  BY ChannelType DEF IInv
<1>1. CASE Respond
  BY <1>1, SendPort DEF Respond
<1>2. CASE RespondBadly
  BY <1>0, <1>2, SendPort, FaultGrows DEF RespondBadly
<1>3. CASE Lose
  <2>1. UNCHANGED <<line, port, monitor, link>> /\ wire # <<>> /\ faults' # 0
    BY <1>0, <1>3, FaultGrows DEF Lose
  <2>2. QED
    BY <2>1 DEF PortInv
<1>4. CASE ComeBack
  BY <1>4 DEF ComeBack, PortInv
<1>5. ASSUME NEW how \in {"mute", "gone"}, Leave(how) PROVE PortInv'
  <2>1. /\ UNCHANGED <<port, monitor>> /\ wire' = <<>> /\ faults' # 0 /\ link' = how
        /\ (how = "gone" => line' = <<>>) /\ (how # "gone" => line' = line)
    BY <1>0, <1>5, FaultGrows DEF Leave
  <2>2. QED
    BY <2>1 DEF PortInv
<1>6. QED
  BY <1>1, <1>2, <1>3, <1>4, <1>5

-----------------------------------------------------------------------------
(* The delay, step by step. *)

(* As long as nothing is on the way, there is no delay. *)
LEMMA EmptyKeeps ==
    ASSUME TypeOK', PortInv', line' = <<>>, wire' = <<>>
    PROVE  LagInv'
<1>1. faults' \in Nat /\ Closures' \in 0..2
  BY DriverAssumption DEF TypeOK, Closures
<1>2. faults' = 0 => Closures' = 0
  BY DEF PortInv, Closures
<1>3. \A f \in Nat, c \in 0..2, g \in {1, 2} : (f = 0 => c = 0) => (f + g) - c \in Nat
  OBVIOUS
<1>4. Budget' = (faults' + (IF Flying' THEN 2 ELSE 1)) - Closures' /\ (IF Flying' THEN 2 ELSE 1) \in {1, 2}
  BY DEF Budget
<1>5. Budget' \in Nat
  BY <1>1, <1>2, <1>3, <1>4, Zenon
<1>6. QED
  BY <1>5, EmptyLag DEF LagInv

(* The callers, the end of a call, and a port that is found. *)
LEMMA QuietKeeps ==
    ASSUME IInv, LagInv, UNCHANGED <<line, wire, counter, faults, port, monitor>>,
           exec'.pc = exec.pc \/ (exec.pc = "idle" /\ exec'.pc \in {"write", "done"} /\ port.open)
              \/ (exec.pc = "listen" /\ exec'.pc = "read")
    PROVE  LagInv'
<1>1. Flying' = Flying
  BY DEF Flying
<1>2. Closures' = Closures
  BY <1>1 DEF Closures
<1>3. Budget' = Budget
  BY <1>1, <1>2 DEF Budget
<1>4. QED
  BY <1>1, <1>3 DEF LagInv

(* The port is opened: its line is empty, and the monitor has less to do. *)
LEMMA ClearedKeeps ==
    ASSUME IInv, LagInv, IInv', UNCHANGED <<wire, counter, faults>>, Nothing(line'),
           Flying' = Flying, Closures = 2 \/ Closures' = 0
    PROVE  LagInv'
<1>1. /\ line \in Seq(Frames) /\ wire \in Seq(RequestType) /\ counter \in Tags
      /\ faults \in Nat /\ Closures \in 0..2 /\ Budget \in Int
  BY ChannelType DEF IInv
<1>2. PICK c \in 0..2 : c = Closures' /\ (Closures = 2 \/ c = 0)
  BY DEF Closures
<1>3. PICK g \in {1, 2} : g = IF Flying THEN 2 ELSE 1
  OBVIOUS
<1>4. Budget = (faults + g) - Closures /\ Budget' = (faults + g) - c
  BY <1>2, <1>3 DEF Budget
<1>5. c <= Closures
  BY <1>1, <1>2
<1>6. \A f \in Nat, h \in {1, 2}, p, q \in 0..2 : p <= q => (f + h) - p \in Int /\ (f + h) - q <= (f + h) - p
  OBVIOUS
<1>7. (faults + g) - c \in Int /\ (faults + g) - Closures <= (faults + g) - c
  BY <1>1, <1>5, <1>6, Zenon
<1>8. line' \in Seq(Frames)
  BY DEF IInv, TypeOK
<1>9. Lag(line', wire, counter, Flying, (faults + g) - c)
  BY <1>1, <1>4, <1>7, <1>8, ClearedLag DEF LagInv
<1>10. QED
  BY <1>4, <1>9 DEF LagInv

LEMMA TakeTaskLag ==
    ASSUME IInv, IInv', PortInv, PortInv', LagInv, TakeTask
    PROVE  LagInv'
<1>1. exec.pc = "idle" /\ exec'.pc \in {"write", "done"} /\ UNCHANGED <<wire, counter, monitor, link, faults>>
  BY DEF TakeTask, Rest
<1>2. CASE port.valid
  BY <1>1, <1>2, QuietKeeps DEF TakeTask, PortInv
<1>3. CASE ~port.valid /\ link = "gone"
  BY <1>1, <1>3, EmptyKeeps DEF TakeTask, OpenPort, PortInv, IInv
<1>4. CASE ~port.valid /\ link # "gone"
  <2>1. port' = [open |-> TRUE, valid |-> TRUE] /\ Nothing(line')
    <3>1. port' = [open |-> TRUE, valid |-> TRUE] /\ line' = <<>>
      BY <1>4 DEF TakeTask, OpenPort
    <3>2. QED
      BY <3>1 DEF Nothing
  <2>2. Flying' = Flying
    BY <1>1 DEF Flying
  <2>3. Closures = 2 \/ Closures' = 0
    BY <1>1, <1>4, <2>1 DEF Closures
  <2>4. QED
    BY <1>1, <2>1, <2>2, <2>3, ClearedKeeps
<1>5. QED
  BY <1>2, <1>3, <1>4

(* What is written is the youngest; what failed to be written, once more   *)
(* than is counted, was foreseen when the monitor closed the port.         *)
LEMMA WriteCommandLag ==
    ASSUME IInv, IInv', PortInv, PortInv', LagInv, faults + 1 < Modulus, WriteCommand
    PROVE  LagInv'
<1>1. exec.pc = "write" /\ UNCHANGED <<line, monitor, link, faults>> /\ ~Flying
  BY DEF WriteCommand, Flying
<1>2. /\ line \in Seq(Frames) /\ wire \in Seq(RequestType) /\ counter \in Tags
      /\ faults \in Nat /\ Closures \in 0..2 /\ Budget \in Int
  BY ChannelType DEF IInv
<1>3. counter' \in Tags /\ counter' = IF counter < Modulus - 1 THEN counter + 1 ELSE 0
  BY <1>2, NextCounterType DEF WriteCommand, NextCounter
<1>4. Budget < Modulus
  BY <1>1, <1>2, DriverAssumption DEF Budget
<1>5. ASSUME NEW g PROVE Lag(line, wire, counter', g, Budget + 1)
  BY <1>2, <1>3, <1>4, OlderLag DEF LagInv
<1>6. CASE ~port.open /\ GiveUp("Err_Port") /\ UNCHANGED wire /\ port' = [port EXCEPT !.valid = FALSE]
  <2>1. exec'.pc = "done" /\ ~Flying' /\ port'.open = port.open
    BY <1>6 DEF GiveUp, Flying, IInv, TypeOK
  <2>2. CASE wire = <<>>
    BY <1>1, <1>6, <2>2, EmptyKeeps DEF PortInv, IInv
  <2>3. CASE wire # <<>>
    <3>1. monitor = "open"
      BY <1>6, <2>3 DEF PortInv
    <3>2. Closures = 1 /\ Closures' = 0
      BY <1>1, <1>6, <2>1, <3>1 DEF Closures
    <3>3. Budget' = faults + 1 /\ Budget = faults
      BY <1>1, <1>2, <2>1, <3>2 DEF Budget
    <3>4. QED
      BY <1>1, <1>5, <1>6, <2>1, <3>3 DEF LagInv
  <2>4. QED
    BY <2>2, <2>3
<1>7. CASE link = "gone" /\ UNCHANGED wire
  BY <1>1, <1>7, EmptyKeeps DEF PortInv, IInv
<1>8. CASE /\ port.open /\ exec' = [exec EXCEPT !.pc = "listen"] /\ UNCHANGED port
           /\ LET request == [cmd |-> call[exec.caller].cmd, tag |-> counter', old |-> FALSE]
              IN  wire' = IF link = "up" THEN Append(wire, request) ELSE wire
  <2>1. exec'.pc = "listen" /\ Flying'
    BY <1>8 DEF Flying, IInv, TypeOK
  <2>2. Closures' = Closures
    BY <1>1, <1>8, <2>1 DEF Closures
  <2>3. Budget' = Budget + 1
    BY <1>1, <1>2, <2>1, <2>2 DEF Budget
  <2>4. CASE wire' = wire
    BY <1>1, <1>5, <2>1, <2>3, <2>4 DEF LagInv
  <2>5. CASE wire' = Append(wire, [cmd |-> call[exec.caller].cmd, tag |-> counter', old |-> FALSE])
    <3> DEFINE r == [cmd |-> call[exec.caller].cmd, tag |-> counter', old |-> FALSE]
    <3>1. r \in RequestType /\ r.tag = counter' /\ ~r.old
      BY <1>1, <1>3, AttemptRuns DEF RequestType
    <3>2. Len(line) + Len(wire) <= Budget /\ Len(line) + Len(wire) \in Nat
      BY <1>2 DEF LagInv, Lag
    <3>3. Len(line) + Len(wire) < Budget + 1 /\ Budget + 1 \in Int
      BY <1>2, <3>2
    <3> HIDE DEF r
    <3>4. Lag(line, Append(wire, r), counter', TRUE, Budget + 1)
      BY <1>2, <1>3, <1>5, <3>1, <3>3, RequestLag
    <3>5. QED
      BY <1>1, <2>1, <2>3, <2>5, <3>4 DEF LagInv, r
  <2>6. QED
    BY <1>8, <2>4, <2>5
<1>9. QED
  BY <1>6, <1>7, <1>8 DEF WriteCommand

(* The port is gone before the read: what the monitor did is accounted for. *)
LEMMA ListenLag ==
    ASSUME IInv, IInv', PortInv, PortInv', LagInv, Listen
    PROVE  LagInv'
<1>1. exec.pc = "listen" /\ Flying /\ UNCHANGED <<wire, line, counter, monitor, link, faults>>
  BY DEF Listen, Flying
<1>2. CASE ~port.open /\ GiveUp("Err_Port") /\ port' = [port EXCEPT !.valid = FALSE]
  <2>1. exec'.pc = "done" /\ ~Flying' /\ port'.open = port.open /\ line = <<>>
    BY <1>2 DEF GiveUp, Flying, IInv, TypeOK, PortInv
  <2>2. CASE wire = <<>>
    BY <1>1, <2>1, <2>2, EmptyKeeps DEF IInv
  <2>3. CASE wire # <<>>
    <3>1. Closures = 2 /\ Closures' = 0
      BY <1>1, <1>2, <2>1, <2>3 DEF Closures, PortInv
    <3>2. Budget = faults /\ Budget' = faults + 1
      BY <1>1, <2>1, <3>1, ChannelType DEF Budget, IInv
    <3>3. Budget \in Int /\ faults + 1 \in Int /\ Budget <= faults + 1
      BY <3>2, ChannelType DEF IInv
    <3>4. Lag(line, wire, counter, Flying', faults + 1)
      BY <2>1, <3>3, ChannelType, SameLag DEF LagInv, IInv
    <3>5. QED
      BY <1>1, <2>1, <3>2, <3>4 DEF LagInv
  <2>4. QED
    BY <2>2, <2>3
<1>3. CASE port.open /\ UNCHANGED port /\ exec' = [exec EXCEPT !.pc = "read"]
  <2>1. exec'.pc = "read"
    BY <1>3 DEF IInv, TypeOK
  <2>2. QED
    BY <1>1, <1>3, <2>1, QuietKeeps
<1>4. QED
  BY <1>2, <1>3 DEF Listen

(* After an attempt without an answer, which costs a fault or was foreseen. *)
LEMMA TimeOutLag ==
    ASSUME IInv, IInv', PortInv, PortInv', LagInv, TimeOut
    PROVE  LagInv'
<1>1. exec.pc = "read" /\ Flying /\ UNCHANGED <<wire, line, counter, port, monitor, link>>
  BY DEF TimeOut, Flying, channel
<1>2. exec'.pc \in {"write", "done"} /\ ~Flying'
  <2>1. exec'.pc \in {"write", "done"}
    BY <1>1, RetryFacts DEF TimeOut, Results
  <2>2. QED
    BY <2>1 DEF Flying
<1>3. CASE wire = <<>> /\ line = <<>>
  BY <1>1, <1>3, EmptyKeeps DEF IInv
<1>4. CASE ~port.open /\ wire # <<>> /\ UNCHANGED faults
  <2>1. Closures = 2 /\ Closures' \in {0, 1}
    BY <1>1, <1>2, <1>4 DEF Closures, PortInv
  <2>2. Budget = faults /\ Budget' \in {faults, faults + 1}
    <3>1. Budget = faults
      BY <1>1, <2>1, ChannelType DEF Budget, IInv
    <3>2. CASE Closures' = 0
      BY <1>2, <1>4, <3>1, <3>2, ChannelType DEF Budget, IInv
    <3>3. CASE Closures' = 1
      BY <1>2, <1>4, <3>1, <3>3, ChannelType DEF Budget, IInv
    <3>4. QED
      BY <2>1, <3>1, <3>2, <3>3
  <2>3. PICK d \in {faults, faults + 1} : d = Budget'
    BY <2>2
  <2>4. Budget \in Int /\ d \in Int /\ Budget <= d
    BY <2>2, ChannelType DEF IInv
  <2>5. Lag(line, wire, counter, Flying', d)
    BY <1>2, <2>4, ChannelType, SameLag DEF LagInv, IInv
  <2>6. QED
    BY <1>1, <1>2, <2>3, <2>5 DEF LagInv
<1>5. CASE port.open /\ Fault
  <2>1. Closures' = Closures
    BY <1>1, <1>5 DEF Closures
  <2>2. Budget' = Budget
    BY <1>1, <1>2, <1>5, <2>1, ChannelType DEF Budget, Fault, IInv
  <2>3. Lag(line, wire, counter, Flying', Budget)
    BY <1>2, ChannelType, SameLag DEF LagInv, IInv
  <2>4. QED
    BY <1>1, <1>2, <2>2, <2>3 DEF LagInv
<1>6. QED
  BY <1>3, <1>4, <1>5 DEF TimeOut, PortInv

(* An answer is read: what comes after it is one nearer. *)
LEMMA ReceiveLag ==
    ASSUME IInv, IInv', PortInv, PortInv', LagInv, Receive
    PROVE  LagInv'
<1>1. /\ exec.pc = "read" /\ Flying /\ line # <<>> /\ line' = <<>> /\ port.open
      /\ UNCHANGED <<wire, counter, monitor, link, faults, port>>
  BY ReceivePort DEF Receive, Flying
<1>2. exec'.pc \in {"write", "done"} /\ ~Flying'
  <2>1. exec'.pc \in {"write", "done"}
    <3>1. CASE Retry("Err_Crc") \/ Retry("Err_Nak")
      BY <1>1, <3>1, RetryFacts DEF Results
    <3>2. ASSUME NEW res, NEW frame, Ended(res, frame) PROVE exec'.pc = "done"
      BY <3>2 DEF Ended, IInv, TypeOK
    <3>3. QED
      BY <3>1, <3>2 DEF Receive
  <2>2. QED
    BY <2>1 DEF Flying
<1>3. /\ line \in Seq(Frames) /\ wire \in Seq(RequestType) /\ counter \in Tags /\ Budget \in Int
      /\ faults \in Nat /\ Closures \in 0..2
  BY ChannelType DEF IInv
<1>4. Closures' = Closures
  BY <1>1 DEF Closures
<1>5. Budget' = Budget - 1
  BY <1>1, <1>2, <1>3, <1>4 DEF Budget
<1>6. line' \in Seq(Frames) /\ Nothing(line') /\ 1 <= Len(line)
      /\ Budget - 1 \in Int /\ Budget <= (Budget - 1) + 1
  BY <1>1, <1>3, HeadFacts DEF Nothing
<1>7. Lag(line', wire, counter, Flying', Budget - 1)
  BY <1>1, <1>2, <1>3, <1>6, ReadLag DEF LagInv
<1>8. QED
  BY <1>1, <1>5, <1>7 DEF LagInv

LEMMA ReceiveShortLag ==
    ASSUME IInv, IInv', PortInv, PortInv', LagInv, ReceiveShort
    PROVE  LagInv'
<1>1. /\ exec.pc = "read" /\ Flying /\ line # <<>> /\ line' = <<NoFrame>> \o Tail(line) /\ port.open
      /\ UNCHANGED <<wire, counter, monitor, link, port>> /\ Fault
  BY DEF ReceiveShort, Flying
<1>2. exec'.pc \in {"write", "done"} /\ ~Flying'
  <2>1. exec'.pc \in {"write", "done"}
    <3>1. CASE Retry("Err_Port")
      BY <1>1, <3>1, RetryFacts DEF Results
    <3>2. CASE exec' = [exec EXCEPT !.pc = "write", !.stray = TRUE, !.tries = exec.tries + 1]
      BY <3>2 DEF IInv, TypeOK
    <3>3. QED
      BY <3>1, <3>2 DEF ReceiveShort
  <2>2. QED
    BY <2>1 DEF Flying
<1>3. /\ line \in Seq(Frames) /\ wire \in Seq(RequestType) /\ counter \in Tags /\ Budget \in Int
      /\ faults \in Nat /\ Closures \in 0..2
  BY ChannelType DEF IInv
<1>4. Closures' = Closures
  BY <1>1 DEF Closures
<1>5. Budget' = Budget
  BY <1>1, <1>2, <1>3, <1>4 DEF Budget, Fault
<1>6. Lag(<<NoFrame>> \o Tail(line), wire, counter, Flying', Budget)
  BY <1>1, <1>2, <1>3, CutLag DEF LagInv
<1>7. QED
  BY <1>1, <1>2, <1>5, <1>6 DEF LagInv

LEMMA CallbackLag ==
    ASSUME IInv, IInv', PortInv, PortInv', LagInv, Callback
    PROVE  LagInv'
<1>1. /\ exec.pc = "done" /\ exec'.pc = "idle" /\ ~Flying /\ ~Flying'
      /\ line' = Outdated(line) /\ wire' = Outdated(wire)
      /\ UNCHANGED <<counter, port, monitor, link, faults>>
  BY DEF Callback, Flying, Rest
<1>2. /\ line \in Seq(Frames) /\ wire \in Seq(RequestType) /\ counter \in Tags /\ Budget \in Int
  BY ChannelType DEF IInv
<1>3. Closures' = Closures
  BY <1>1 DEF Closures
<1>4. Budget' = Budget
  BY <1>1, <1>3 DEF Budget
<1>5. Lag(Outdated(line), Outdated(wire), counter, Flying', Budget)
  BY <1>1, <1>2, OutdatedLag DEF LagInv
<1>6. QED
  BY <1>1, <1>4, <1>5 DEF LagInv

LEMMA MonitorLag ==
    ASSUME IInv, IInv', PortInv, PortInv', LagInv, MonitorStep
    PROVE  LagInv'
<1>1. UNCHANGED <<wire, link, faults, counter, exec>> /\ Flying' = Flying
  BY DEF MonitorStep, MonitorLooks, MonitorCloses, MonitorOpens, Flying
<1>2. CASE MonitorLooks
  <2>1. Closures' = Closures
    BY <1>1, <1>2 DEF Closures, MonitorLooks
  <2>2. Budget' = Budget
    BY <1>1, <2>1 DEF Budget
  <2>3. QED
    BY <1>1, <1>2, <2>2 DEF LagInv, MonitorLooks
<1>3. CASE MonitorCloses
  <2>1. Closures = 2 /\ Nothing(line')
    BY <1>3 DEF Closures, MonitorCloses, Nothing
  <2>2. QED
    BY <1>1, <2>1, ClearedKeeps
<1>4. CASE MonitorOpens /\ link = "gone"
  <2>1. line' = <<>> /\ wire' = <<>>
    BY <1>1, <1>4 DEF MonitorOpens, OpenPort, PortInv
  <2>2. QED
    BY <2>1, EmptyKeeps DEF IInv
<1>5. CASE MonitorOpens /\ link # "gone"
  <2>1. Closures' = 0 /\ Nothing(line')
    <3>1. Closures' = 0 /\ line' = <<>>
      BY <1>5 DEF Closures, MonitorOpens, OpenPort
    <3>2. QED
      BY <3>1 DEF Nothing
  <2>2. QED
    BY <1>1, <2>1, ClearedKeeps
<1>6. QED
  BY <1>2, <1>3, <1>4, <1>5 DEF MonitorStep

(* What the validator sends, or what is lost with a fault. *)
LEMMA ChannelLag ==
    ASSUME IInv, IInv', LagInv, UNCHANGED <<exec, counter, port, monitor>>, faults' = faults \/ Fault,
           NEW k \in Seq(Frames), NEW v \in Seq(RequestType), line' = k, wire' = v,
           Lag(k, v, counter, Flying, Budget)
    PROVE  LagInv'
<1>1. Flying' = Flying
  BY DEF Flying
<1>2. Closures' = Closures
  BY <1>1 DEF Closures
<1>3. CASE faults' = faults
  <2>1. Budget' = Budget
    BY <1>1, <1>2, <1>3 DEF Budget
  <2>2. QED
    BY <1>1, <2>1 DEF LagInv
<1>4. CASE Fault
  <2>1. Budget' = Budget + 1
    BY <1>1, <1>2, <1>4, ChannelType DEF Budget, Fault, IInv
  <2>2. Budget \in Int /\ Budget + 1 \in Int /\ Budget <= Budget + 1 /\ counter \in Tags
    BY ChannelType DEF IInv
  <2>3. Lag(k, v, counter, Flying, Budget + 1)
    BY <2>2, SameLag
  <2>4. QED
    BY <1>1, <2>1, <2>3 DEF LagInv
<1>5. QED
  BY <1>3, <1>4

LEMMA SendKeepsLag ==
    ASSUME IInv, IInv', LagInv, wire # <<>>, NEW kind \in Kinds, Send(kind), faults' = faults \/ Fault
    PROVE  LagInv'
<1>1. UNCHANGED <<exec, counter, port, monitor>> /\ wire' = Tail(wire)
  BY DEF Send
<1>2. /\ line \in Seq(Frames) /\ wire \in Seq(RequestType) /\ counter \in Tags /\ Budget \in Int
  BY ChannelType DEF IInv
<1>3. line' \in Seq(Frames) /\ Tail(wire) \in Seq(RequestType)
  <2>1. line' \in Seq(Frames)
    BY DEF IInv, TypeOK
  <2>2. QED
    BY <1>2, <2>1
<1>4. CASE UNCHANGED line
  <2>1. Lag(line, Tail(wire), counter, Flying, Budget)
    BY <1>2, LostLag DEF LagInv
  <2>2. QED
    BY <1>1, <1>2, <1>3, <1>4, <2>1, ChannelLag
<1>5. CASE line' = Append(line, [kind |-> kind, tag |-> Head(wire).tag, old |-> Head(wire).old])
  <2>1. Lag(line', Tail(wire), counter, Flying, Budget)
    BY <1>2, <1>5, SentLag DEF LagInv
  <2>2. QED
    BY <1>1, <1>3, <2>1, ChannelLag
<1>6. QED
  BY <1>4, <1>5 DEF Send

LEMMA ValidatorLag ==
    ASSUME IInv, IInv', PortInv, PortInv', LagInv,
           \/ Respond \/ RespondBadly \/ Lose \/ ComeBack
           \/ \E how \in {"mute", "gone"} : Leave(how)
    PROVE  LagInv'
<1>1. /\ line \in Seq(Frames) /\ wire \in Seq(RequestType) /\ counter \in Tags /\ Budget \in Int
  BY ChannelType DEF IInv
<1>2. CASE Respond
  <2>1. wire # <<>> /\ Send(Answer[Head(wire).cmd]) /\ faults' = faults
    BY <1>2 DEF Respond
  <2>2. Answer[Head(wire).cmd] \in Kinds
    <3>1. Head(wire) \in RequestType
      BY <1>1, <2>1, HeadFacts, Zenon
    <3>2. QED
      BY <3>1 DEF RequestType, Commands, Answer, Kinds
  <2>3. QED
    BY <2>1, <2>2, SendKeepsLag
<1>3. CASE RespondBadly
  <2>1. PICK kind \in {"nak", "illegal", "garbled"} : Send(kind)
    BY <1>3 DEF RespondBadly
  <2>2. kind \in Kinds /\ wire # <<>> /\ Fault
    BY <1>3 DEF RespondBadly, Kinds
  <2>3. QED
    BY <2>1, <2>2, SendKeepsLag
<1>4. CASE Lose
  <2>1. UNCHANGED <<exec, counter, port, monitor, line>> /\ wire' = Tail(wire) /\ wire # <<>> /\ Fault
    BY <1>4 DEF Lose
  <2>2. Lag(line, Tail(wire), counter, Flying, Budget) /\ Tail(wire) \in Seq(RequestType)
    BY <1>1, <2>1, LostLag DEF LagInv
  <2>3. QED
    BY <1>1, <2>1, <2>2, ChannelLag
<1>5. CASE ComeBack
  BY <1>1, <1>5, ChannelLag DEF ComeBack, LagInv
<1>6. ASSUME NEW how \in {"mute", "gone"}, Leave(how) PROVE LagInv'
  <2>1. UNCHANGED <<exec, counter, port, monitor>> /\ wire' = <<>> /\ Fault /\ (line' = line \/ line' = <<>>)
    BY <1>6 DEF Leave
  <2>2. /\ line' \in Seq(Frames) /\ wire' \in Seq(RequestType) /\ Nothing(wire')
        /\ line' = line \/ Nothing(line')
    <3>1. line' \in Seq(Frames)
      BY DEF IInv, TypeOK
    <3>2. wire' \in Seq(RequestType) /\ Nothing(wire')
      BY <2>1 DEF Nothing
    <3>3. line' = line \/ Nothing(line')
      BY <2>1 DEF Nothing
    <3>4. QED
      BY <3>1, <3>2, <3>3
  <2>3. Lag(line, wire', counter, Flying, Budget)
    BY <1>1, <2>2, VanishedLag DEF LagInv
  <2>4. CASE line' = line
    BY <1>1, <2>1, <2>2, <2>3, <2>4, ChannelLag
  <2>5. CASE Nothing(line')
    <3>1. Budget <= Budget
      BY <1>1
    <3>2. Lag(line', wire', counter, Flying, Budget)
      BY <1>1, <2>2, <2>3, <2>5, <3>1, ClearedLag
    <3>3. QED
      BY <1>1, <2>1, <2>2, <3>2, ChannelLag
  <2>6. QED
    BY <2>2, <2>4, <2>5
<1>7. QED
  BY <1>2, <1>3, <1>4, <1>5, <1>6

-----------------------------------------------------------------------------
(* What the callers were given. *)

(* No answer is kept while an attempt runs. *)
LEMMA NothingHeld ==
    ASSUME IInv, HeldInv, exec.pc \in {"write", "listen", "read"}, NEW c \in Callers
    PROVE  ~call[c].frame.old
<1>1. exec.caller \in Callers /\ call[exec.caller].pc = "waiting"
  BY AttemptRuns
<1>2. c # exec.caller => call[c].pc # "answered"
  BY <1>1 DEF IInv, OneCall
<1>3. QED
  BY <1>1, <1>2 DEF HeldInv

(* The callers are left alone. *)
LEMMA UntouchedHeld ==
    ASSUME IInv, HeldInv, UNCHANGED call,
           \/ exec.pc \in {"write", "listen", "read"}
           \/ UNCHANGED counter /\ (exec.pc = "done" => UNCHANGED exec)
    PROVE  HeldInv'
<1>1. CASE exec.pc \in {"write", "listen", "read"}
  <2>1. \A c \in Callers : ~call[c].frame.old
    BY <1>1, NothingHeld
  <2>2. QED
    BY <2>1 DEF HeldInv
<1>2. CASE UNCHANGED counter /\ (exec.pc = "done" => UNCHANGED exec)
  BY <1>2 DEF HeldInv
<1>3. QED
  BY <1>1, <1>2

LEMMA CallerHeld ==
    ASSUME IInv, HeldInv, NEW c \in Callers, (\E cmd \in Commands : Ask(c, cmd)) \/ Return(c)
    PROVE  HeldInv'
<1>1. call \in [Callers -> CallType] /\ UNCHANGED <<exec, counter>>
  BY DEF IInv, TypeOK, CallType, Ask, Return
<1>2. ~NoCall.frame.old /\ NoCall \in CallType
  BY ConstantTypes DEF NoCall, NoFrame
<1>3. /\ ~call'[c].frame.old
      /\ \A d \in Callers \ {c} : call'[d] = call[d]
  <2>1. CASE Return(c)
    BY <1>1, <1>2, <2>1 DEF Return
  <2>2. ASSUME NEW cmd \in Commands, Ask(c, cmd)
        PROVE  ~call'[c].frame.old /\ \A d \in Callers \ {c} : call'[d] = call[d]
    <3>1. [NoCall EXCEPT !.pc = "waiting", !.cmd = cmd].frame = NoCall.frame
      BY <1>2 DEF CallType
    <3>2. QED
      BY <1>1, <1>2, <2>2, <3>1 DEF Ask
  <2>3. QED
    BY <2>1, <2>2
<1>4. QED
  BY <1>1, <1>3 DEF HeldInv

(* An answer of an earlier call that is read now has another counter. *)
LEMMA ReceiveHeld ==
    ASSUME IInv, LagInv, HeldInv, Receive
    PROVE  HeldInv'
<1> DEFINE frame == IF Len(line) = 1 THEN Head(line) ELSE NoFrame
<1>1. exec.pc = "read" /\ Flying /\ UNCHANGED counter /\ exec.caller \in Callers /\ exec \in ExecType
  BY AttemptRuns DEF Receive, Flying, IInv, TypeOK, ExecType
<1>2. CASE UNCHANGED call
  BY <1>1, <1>2, UntouchedHeld
<1>3. frame.kind # "garbled" /\ frame.old => frame.tag # counter
  <2>1. CASE Len(line) = 1
    <3>1. 1 \in DOMAIN line /\ frame = line[1]
      BY <2>1 DEF IInv, TypeOK
    <3>2. frame.kind # "garbled"
             => [place |-> 1, tag |-> frame.tag, old |-> frame.old] \in OnTheWay(line, wire)
      BY <3>1 DEF OnTheWay
    <3>3. QED
      BY <1>1, <3>2 DEF LagInv, Lag
  <2>2. CASE Len(line) # 1
    BY <2>2 DEF NoFrame
  <2>3. QED
    BY <2>1, <2>2
<1>4. ASSUME NEW res, Ended(res, frame), frame.kind # "garbled"
      PROVE  HeldInv'
  <2>1. exec'.pc = "done" /\ exec'.caller = exec.caller
    BY <1>1, <1>4 DEF Ended, ExecType
  <2>2. \A c \in Callers : ~call[c].frame.old
    BY <1>1, NothingHeld
  <2>3. \A c \in Callers : call'[c].frame = IF c = exec.caller THEN frame ELSE call[c].frame
    <3>1. call \in [Callers -> CallType]
      BY DEF IInv, TypeOK, CallType
    <3>2. call' = [call EXCEPT ![exec.caller] =
                     [call[exec.caller] EXCEPT !.frame = frame, !.own = (frame.tag = counter)]]
      BY <1>1, <1>4, <3>1 DEF Ended, CallType
    <3>3. [call[exec.caller] EXCEPT !.frame = frame, !.own = (frame.tag = counter)].frame = frame
      BY <1>1, <3>1 DEF CallType
    <3> HIDE DEF frame
    <3>4. QED
      BY <1>1, <3>1, <3>2, <3>3
  <2> HIDE DEF frame
  <2>4. QED
    BY <1>1, <1>3, <1>4, <2>1, <2>2, <2>3 DEF HeldInv
<1>5. QED
  BY <1>2, <1>4 DEF Receive

LEMMA CallbackHeld ==
    ASSUME IInv, HeldInv, Callback
    PROVE  HeldInv'
<1> DEFINE c == exec.caller
<1>1. exec.pc = "done" /\ c \in Callers /\ call \in [Callers -> CallType] /\ UNCHANGED counter
  BY DEF Callback, IInv, TypeOK, ExecType, CallType
<1>2. call' = [call EXCEPT ![c] = [call[c] EXCEPT !.pc = "answered", !.res = exec.res]]
  BY <1>1 DEF Callback, CallType
<1>3. /\ call'[c].pc = "answered" /\ call'[c].frame = call[c].frame
      /\ \A d \in Callers \ {c} : call'[d] = call[d]
  BY <1>1, <1>2 DEF CallType
<1>4. ASSUME NEW d \in Callers, call'[d].frame.old
      PROVE  call'[d].frame.tag # counter' /\ call'[d].pc = "answered"
  <2>1. CASE d = c
    BY <1>1, <1>3, <1>4, <2>1 DEF HeldInv
  <2>2. CASE d # c
    BY <1>1, <1>3, <1>4, <2>2 DEF HeldInv
  <2>3. QED
    BY <2>1, <2>2
<1>5. QED
  BY <1>4 DEF HeldInv

-----------------------------------------------------------------------------

LEMMA InitAnswerInv == Init => AnswerInv
<1> SUFFICES ASSUME Init PROVE AnswerInv
  OBVIOUS
<1>1. line = <<>> /\ wire = <<>> /\ faults = 0 /\ exec.pc = "idle" /\ counter = 0
  BY ConstantTypes DEF Init
<1>2. PortInv
  BY DEF Init, PortInv
<1>3. Closures = 0 /\ ~Flying
  BY <1>1 DEF Init, Closures, Flying
<1>4. Budget = 1
  BY <1>1, <1>3 DEF Budget
<1>5. LagInv
  <2>1. Lag(<<>>, <<>>, counter, Flying, 1)
    BY EmptyLag
  <2>2. QED
    BY <1>1, <1>4, <2>1 DEF LagInv
<1>6. HeldInv
  <2>1. \A c \in Callers : call[c] = NoCall
    BY DEF Init
  <2>2. ~NoCall.frame.old
    BY DEF NoCall, NoFrame
  <2>3. QED
    BY <2>1, <2>2 DEF HeldInv
<1>7. QED
  BY <1>2, <1>5, <1>6 DEF AnswerInv

(* Faults are not taken back, so the bound held before. *)
LEMMA FaultsGrow ==
    ASSUME IInv, [Next]_vars
    PROVE  faults' = faults \/ faults' = faults + 1
BY DEF Next, vars, channel, Ask, Return, Execute, TakeTask, WriteCommand, Listen, Receive, Callback,
       TimeOut, ReceiveShort, MonitorStep, MonitorLooks, MonitorCloses, MonitorOpens,
       Respond, RespondBadly, Send, Lose, Leave, ComeBack, Fault

LEMMA NextPortInv ==
    ASSUME IInv, PortInv, [Next]_vars
    PROVE  PortInv'
<1>1. CASE \E c \in Callers : (\E cmd \in Commands : Ask(c, cmd)) \/ Return(c)
  BY <1>1, PortKept DEF Ask, Return, channel
<1>2. CASE Execute
  BY <1>2, TakeTaskPort, WriteCommandPort, ListenPort, ReceivePort, CallbackPort DEF Execute
<1>3. CASE TimeOut \/ ReceiveShort
  BY <1>3, TimeOutPort, ReceiveShortPort
<1>4. CASE MonitorStep
  BY <1>4, MonitorPort
<1>5. CASE \/ Respond \/ RespondBadly \/ Lose \/ ComeBack
           \/ \E how \in {"mute", "gone"} : Leave(how)
  BY <1>5, ValidatorPort
<1>6. CASE UNCHANGED vars
  BY <1>6, PortKept DEF vars, channel
<1>7. QED
  BY <1>1, <1>2, <1>3, <1>4, <1>5, <1>6 DEF Next

LEMMA NextLagInv ==
    ASSUME IInv, IInv', PortInv, PortInv', LagInv, faults + 1 < Modulus, [Next]_vars
    PROVE  LagInv'
<1>1. CASE \E c \in Callers : (\E cmd \in Commands : Ask(c, cmd)) \/ Return(c)
  BY <1>1, QuietKeeps DEF Ask, Return, channel
<1>2. CASE Execute
  BY <1>2, TakeTaskLag, WriteCommandLag, ListenLag, ReceiveLag, CallbackLag DEF Execute
<1>3. CASE TimeOut \/ ReceiveShort
  BY <1>3, TimeOutLag, ReceiveShortLag
<1>4. CASE MonitorStep
  BY <1>4, MonitorLag
<1>5. CASE \/ Respond \/ RespondBadly \/ Lose \/ ComeBack
           \/ \E how \in {"mute", "gone"} : Leave(how)
  BY <1>5, ValidatorLag
<1>6. CASE UNCHANGED vars
  BY <1>6, QuietKeeps DEF vars, channel
<1>7. QED
  BY <1>1, <1>2, <1>3, <1>4, <1>5, <1>6 DEF Next

LEMMA NextHeldInv ==
    ASSUME IInv, LagInv, HeldInv, [Next]_vars
    PROVE  HeldInv'
<1>1. CASE \E c \in Callers : (\E cmd \in Commands : Ask(c, cmd)) \/ Return(c)
  BY <1>1, CallerHeld
<1>2. CASE Receive
  BY <1>2, ReceiveHeld
<1>3. CASE Callback
  BY <1>3, CallbackHeld
<1>4. CASE TakeTask
  BY <1>4, UntouchedHeld DEF TakeTask
<1>5. CASE WriteCommand \/ Listen \/ TimeOut \/ ReceiveShort
  BY <1>5, UntouchedHeld DEF WriteCommand, Listen, TimeOut, ReceiveShort
<1>6. CASE MonitorStep
  BY <1>6, UntouchedHeld DEF MonitorStep, MonitorLooks, MonitorCloses, MonitorOpens
<1>7. CASE \/ Respond \/ RespondBadly \/ Lose \/ ComeBack
           \/ \E how \in {"mute", "gone"} : Leave(how)
  BY <1>7, UntouchedHeld DEF Respond, RespondBadly, Send, Lose, ComeBack, Leave
<1>8. CASE UNCHANGED vars
  BY <1>8, UntouchedHeld DEF vars
<1>9. QED
  BY <1>1, <1>2, <1>3, <1>4, <1>5, <1>6, <1>7, <1>8 DEF Next, Execute

LEMMA NextAnswerInv == IInv /\ IInv' /\ AnswerInv /\ [Next]_vars => AnswerInv'
<1> SUFFICES ASSUME IInv, IInv', AnswerInv, [Next]_vars PROVE AnswerInv'
  OBVIOUS
<1>1. PortInv /\ PortInv'
  BY NextPortInv DEF AnswerInv
<1>2. ASSUME faults' + 1 < Modulus PROVE faults + 1 < Modulus
  <2>1. faults \in Nat /\ Modulus \in Nat
    BY ChannelType, DriverAssumption DEF IInv
  <2>2. CASE faults' = faults
    BY <1>2, <2>2
  <2>3. CASE faults' = faults + 1
    BY <1>2, <2>1, <2>3
  <2>4. QED
    BY <2>2, <2>3, FaultsGrow
<1>3. ASSUME faults' + 1 < Modulus PROVE LagInv' /\ HeldInv'
  BY <1>1, <1>2, <1>3, NextLagInv, NextHeldInv DEF AnswerInv
<1>4. QED
  BY <1>1, <1>3 DEF AnswerInv

(* The lag of the answers is paid for by the faults, whatever their number. *)
THEOREM DriverAnswers == Spec => []AnswerInv
<1>1. QED
  BY DriverInvariant, InitAnswerInv, NextAnswerInv, PTL DEF Spec

(* An order that is reported as done was acknowledged by the validator, as *)
(* long as less went wrong than the counter has values but one.            *)
THEOREM DriverOkMeansDone == Spec => [](faults + 1 < Modulus => OkMeansDone)
<1>1. ASSUME AnswerInv, faults + 1 < Modulus, NEW c \in Callers,
             call[c].cmd = "Stack", Verdict(c) = "Ok"
      PROVE  ~call[c].frame.old
  <2>1. StackVerdict(call[c].frame) = "Ok"
    BY <1>1 DEF Verdict
  <2>2. call[c].frame.tag = counter
    BY <2>1 DEF StackVerdict, IsAck
  <2>3. QED
    BY <1>1, <2>2 DEF AnswerInv, HeldInv
<1>2. AnswerInv => (faults + 1 < Modulus => OkMeansDone)
  BY <1>1 DEF OkMeansDone
<1>3. QED
  BY DriverAnswers, <1>2, PTL

=============================================================================
