--------------------------- MODULE TransferProofs ---------------------------
(***************************************************************************)
(* Proofs about module Transfer, for any number of pages, any limits of    *)
(* the queues, the bucket and the assembler, and any number of messages    *)
(* and of lost channels.                                                   *)
(*                                                                         *)
(* None of the properties is inductive: they speak of what the phone has,  *)
(* and what will reach it is spread over four queues, a frame in hand, the *)
(* phone's requests and the bucket. IInv says how these fit together:      *)
(*   - LineInv: whatever is ahead of a frame is older, or is a part of the *)
(*     same message, or the frame belongs to what is sent again;           *)
(*   - EndInv: a transfer that is begun on the wire has its DONE behind;   *)
(*   - AskInv: nothing of a message is under way while it is asked for,    *)
(*     and it is asked for once, so an answer cannot meet an older one;    *)
(*   - GoneInv, AgeInv: nothing is left anywhere of what was handed up,    *)
(*     and what comes is newer;                                            *)
(*   - GreetInv: until the hub's hello is read, the phone has asked for    *)
(*     nothing and gets nothing of what it holds from the channel before.  *)
(*                                                                         *)
(* First the sequences: what is appended, taken and joined, and what that  *)
(* means for the parts, for the bucket and for the frames in line. Then    *)
(* one lemma per action, and one per kind of frame the phone reads.        *)
(***************************************************************************)
EXTENDS Transfer, FiniteSetTheorems, WellFoundedInduction, SequenceTheorems, TLAPS

Sorts == {"hello", "begin", "data", "done", "abort", "plain", "none"} \cup Urgents
Frame == [t : Sorts, m : Nat, p : Nat]
Request == [t : {"ack", "nack"}, m : Nat, missing : SUBSET Pages, resume : BOOLEAN]
Piece == [m : Nat, got : SUBSET Pages]
History == [losses : Nat, resent : SUBSET Nat, shunned : SUBSET Nat, dropped : SUBSET Nat]

Types ==
  /\ open \in BOOLEAN /\ pumping \in BOOLEAN /\ listed \in BOOLEAN
  /\ msgs \in Seq(Kinds) /\ Len(msgs) <= MaxMessages
  /\ urgent \in [Urgents -> Seq(Frame)] /\ bulk \in Seq(Frame) /\ wire \in Seq(Frame)
  /\ held \in Frame /\ Len(bulk) <= BulkLimit
  /\ back \in Seq(Request) /\ retained \in Seq(Nat)
  /\ parts \in Seq(Piece) /\ delivered \in Seq(Piece)
  /\ hist \in History

\* A transfer the hub has been given to send.
Sent(ms, m) == m \in 1 .. Len(ms) /\ ms[m] = "transfer"

\* What a frame says of its message is so.
Truthful(f, ms) ==
  /\ f.t # "data" => f.p = 0
  /\ \/ f.t \in {"hello", "none"} /\ f.m = 0
     \/ f.t \in {"begin", "data", "done", "abort"} /\ Sent(ms, f.m)
     \/ f.t \in Urgents \cup {"plain"} /\ f.m \in 1 .. Len(ms) /\ ms[f.m] = f.t

\* The frames of one message, or those of it that are sent again.
Burst(b, m) ==
  /\ b \in Seq(Frame) /\ b # <<>>
  /\ \A i \in 1 .. Len(b) :
       /\ b[i].m = m /\ (b[i].t # "data" => b[i].p = 0)
       /\ i < Len(b) => b[i].t \in {"begin", "data"}
  /\ b[Len(b)].t \in {"done", "plain"}
  /\ 1 < Len(b) => b[Len(b)].t = "done"

\* f may be ahead of g.
Before(f, g, again) ==
  /\ g.t # "hello"
  /\ f.m = g.m => f.t \in {"hello", "none", "begin", "data"}
  /\ f.t \in {"done", "plain"} /\ g.t \in {"done", "plain"} => f.m < g.m \/ g.m \in again
  /\ f.t \in Urgents /\ g.t = f.t => f.m < g.m

InLine(s, again) == \A i, j \in 1 .. Len(s) : i < j => Before(s[i], s[j], again)
Ahead(s, r, again) == \A i \in 1 .. Len(s), j \in 1 .. Len(r) : Before(s[i], r[j], again)

FrameInv ==
  /\ \A f \in ToSet(wire) : Truthful(f, msgs) /\ f.t # "none"
  /\ Truthful(held, msgs) /\ held.t \notin {"hello", "abort"}
  /\ \A c \in Urgents : \A f \in ToSet(urgent[c]) : Truthful(f, msgs) /\ f.t = c
  /\ \A f \in ToSet(bulk) : Truthful(f, msgs) /\ f.t \in {"begin", "data", "done", "plain"}

LineInv ==
  LET again == hist.resent IN
  /\ InLine(wire, again) /\ InLine(bulk, again) /\ Ahead(wire, bulk, again)
  /\ \A c \in Urgents : InLine(urgent[c], again) /\ Ahead(wire, urgent[c], again)
  /\ \A i \in 1 .. Len(wire) : Before(wire[i], held, again)
  /\ \A c \in Urgents : \A j \in 1 .. Len(urgent[c]) : Before(held, urgent[c][j], again)
  /\ \A j \in 1 .. Len(bulk) : Before(held, bulk[j], again)

\* What is begun is ended.
EndInv == \A f \in OnTheWay : f.t \in {"begin", "data"} => F("done", f.m) \in OnTheWay

\* Nothing of a message is under way while it is asked for, and it is asked for once.
AskInv ==
  \A n \in 1 .. Len(back) : back[n].t = "nack" =>
    /\ Sent(msgs, back[n].m)
    /\ \A f \in OnTheWay : f.m # back[n].m
    /\ \A k \in 1 .. Len(back) : back[k].t = "nack" /\ back[k].m = back[n].m => k = n

\* No two parts are of one transfer.
Apart(s) == \A i, j \in 1 .. Len(s) : s[i].m = s[j].m => i = j

PartInv ==
  /\ Apart(parts)
  /\ \A m \in Ids(parts) : Sent(msgs, m)
  /\ ~TooMuch(parts)

\* What is in the control queue and in the interactive queue.
Queued == UNION {ToSet(urgent[c]) : c \in Urgents}

\* Nothing is left of what was delivered.
GoneInv ==
  \A i \in 1 .. Len(delivered) : LET d == delivered[i].m IN
    /\ d \in 1 .. Len(msgs)
    /\ d \notin Ids(parts)
    /\ \A f \in OnTheWay \cup Queued : f.m # d
    /\ \A n \in 1 .. Len(back) : back[n].t = "nack" => back[n].m # d

\* Before the phone is greeted nothing of what it has begun is under way.
GreetInv ==
  F("hello", 0) \in ToSet(wire) =>
    back = <<>> /\ \A f \in OnTheWay : f.m \notin Ids(parts)

\* What comes is newer than what was delivered.
AgeInv ==
  \A i \in 1 .. Len(delivered), f \in OnTheWay \cup Queued :
    LET d == delivered[i].m IN
    /\ Class(d) = "bulk" /\ f.t \in {"done", "plain"} => d < f.m \/ f.m \in hist.resent
    /\ f.t \in Urgents /\ Class(d) = f.t => d < f.m

Single(s) == \A i, j \in 1 .. Len(s) : s[i] = s[j] => i = j

KeepInv ==
  /\ Single(retained) /\ Len(retained) <= RetainLimit
  /\ \A m \in ToSet(retained) : Sent(msgs, m)

ClosedInv ==
  /\ ~open => bulk = <<>> /\ urgent = NoneQueued /\ wire = <<>> /\ back = <<>> /\ held = None
  /\ ~pumping => held = None

IInv ==
  /\ Types /\ FrameInv /\ LineInv /\ EndInv /\ AskInv /\ PartInv /\ GoneInv /\ GreetInv
  /\ AgeInv /\ KeepInv /\ ClosedInv
  /\ DeliveredOnceAndWhole /\ OrderKept /\ NothingWaitsInVain

-----------------------------------------------------------------------------
(* Sequences.                                                              *)

LEMMA Grown ==
    ASSUME NEW S, NEW s \in Seq(S), NEW x \in S
    PROVE  /\ Append(s, x) \in Seq(S) /\ Len(s) \in Nat /\ Len(Append(s, x)) = Len(s) + 1
           /\ \A i \in 1 .. Len(s) : Append(s, x)[i] = s[i]
           /\ Append(s, x)[Len(s) + 1] = x
           /\ ToSet(Append(s, x)) = ToSet(s) \cup {x}
<1>1. /\ Append(s, x) \in Seq(S) /\ Len(s) \in Nat /\ Len(Append(s, x)) = Len(s) + 1
      /\ \A i \in 1 .. Len(s) : Append(s, x)[i] = s[i]
      /\ Append(s, x)[Len(s) + 1] = x
  BY AppendProperties, LenProperties
<1> DEFINE r == Append(s, x)
<1>2. DOMAIN r = 1 .. Len(s) + 1 /\ DOMAIN s = 1 .. Len(s)
  BY <1>1, LenProperties
<1> HIDE DEF r
<1>3. ToSet(r) = ToSet(s) \cup {x}
  BY <1>1, <1>2 DEF ToSet, r
<1> QED
  BY <1>1, <1>3 DEF r

LEMMA Shrunk ==
    ASSUME NEW S, NEW s \in Seq(S), s # <<>>
    PROVE  /\ Tail(s) \in Seq(S) /\ Len(s) \in Nat \ {0} /\ Len(Tail(s)) = Len(s) - 1
           /\ Head(s) = s[1] /\ Head(s) \in S
           /\ \A i \in 1 .. Len(s) - 1 : Tail(s)[i] = s[i + 1]
           /\ ToSet(s) = ToSet(Tail(s)) \cup {Head(s)}
<1>1. /\ Tail(s) \in Seq(S) /\ Len(s) \in Nat \ {0} /\ Len(Tail(s)) = Len(s) - 1
      /\ Head(s) = s[1] /\ Head(s) \in S
      /\ \A i \in 1 .. Len(s) - 1 : Tail(s)[i] = s[i + 1]
  BY HeadTailProperties, LenProperties, EmptySeq
<1> DEFINE r == Tail(s)  h == Head(s)
<1>2. DOMAIN r = 1 .. Len(s) - 1 /\ DOMAIN s = 1 .. Len(s)
  BY <1>1, LenProperties
<1> HIDE DEF r, h
<1>3. \A i \in 1 .. Len(s) : i = 1 \/ (i - 1 \in 1 .. Len(s) - 1 /\ s[i] = r[i - 1])
  BY <1>1 DEF r
<1>4. ToSet(s) = ToSet(r) \cup {h}
  <2>1. ToSet(r) = {r[i] : i \in 1 .. Len(s) - 1} /\ ToSet(s) = {s[i] : i \in 1 .. Len(s)}
    BY <1>2 DEF ToSet
  <2>2. ASSUME NEW i \in 1 .. Len(s) PROVE s[i] = h \/ s[i] \in ToSet(r)
    BY <1>1, <1>3, <2>1 DEF h
  <2>3. ASSUME NEW i \in 1 .. Len(s) - 1 PROVE r[i] \in ToSet(s)
    <3>1. i + 1 \in 1 .. Len(s) /\ r[i] = s[i + 1]
      BY <1>1 DEF r
    <3> QED
      BY <2>1, <3>1
  <2>4. h \in ToSet(s)
    BY <1>1, <2>1 DEF h
  <2> QED
    BY <2>1, <2>2, <2>3, <2>4
<1> QED
  BY <1>1, <1>4 DEF r, h

LEMMA Joint ==
    ASSUME NEW S, NEW s \in Seq(S), NEW r \in Seq(S)
    PROVE  /\ s \o r \in Seq(S) /\ Len(s) \in Nat /\ Len(r) \in Nat /\ Len(s \o r) = Len(s) + Len(r)
           /\ \A i \in 1 .. Len(s) : (s \o r)[i] = s[i]
           /\ \A i \in 1 .. Len(r) : (s \o r)[Len(s) + i] = r[i]
           /\ ToSet(s \o r) = ToSet(s) \cup ToSet(r)
<1> DEFINE q == s \o r
<1>1. /\ q \in Seq(S) /\ Len(s) \in Nat /\ Len(r) \in Nat /\ Len(q) = Len(s) + Len(r)
      /\ \A i \in 1 .. Len(s) + Len(r) : q[i] = IF i <= Len(s) THEN s[i] ELSE r[i - Len(s)]
  BY ConcatProperties, LenProperties
<1>2. DOMAIN q = 1 .. Len(s) + Len(r) /\ DOMAIN s = 1 .. Len(s) /\ DOMAIN r = 1 .. Len(r)
  BY <1>1, LenProperties
<1> HIDE DEF q
<1>3. /\ \A i \in 1 .. Len(s) : q[i] = s[i] /\ i \in 1 .. Len(s) + Len(r)
      /\ \A i \in 1 .. Len(r) : q[Len(s) + i] = r[i] /\ Len(s) + i \in 1 .. Len(s) + Len(r)
      /\ \A i \in 1 .. Len(s) + Len(r) : i \in 1 .. Len(s) \/ (i - Len(s) \in 1 .. Len(r) /\ q[i] = r[i - Len(s)])
  <2>1. \A i \in 1 .. Len(s) : q[i] = s[i] /\ i \in 1 .. Len(s) + Len(r)
    BY <1>1
  <2>2. ASSUME NEW i \in 1 .. Len(r) PROVE q[Len(s) + i] = r[i] /\ Len(s) + i \in 1 .. Len(s) + Len(r)
    <3>1. Len(s) + i \in 1 .. Len(s) + Len(r) /\ ~(Len(s) + i <= Len(s)) /\ (Len(s) + i) - Len(s) = i
      BY <1>1
    <3> QED
      BY <1>1, <3>1
  <2>3. \A i \in 1 .. Len(s) + Len(r) : i \in 1 .. Len(s) \/ (i - Len(s) \in 1 .. Len(r) /\ q[i] = r[i - Len(s)])
    BY <1>1
  <2> QED
    BY <2>1, <2>2, <2>3
<1>4. ToSet(q) = ToSet(s) \cup ToSet(r)
  <2>1. ASSUME NEW x \in ToSet(q) PROVE x \in ToSet(s) \cup ToSet(r)
    <3>1. PICK i \in 1 .. Len(s) + Len(r) : x = q[i]
      BY <1>2 DEF ToSet
    <3> QED
      BY <1>2, <1>3, <3>1 DEF ToSet
  <2>2. ASSUME NEW x \in ToSet(s) \cup ToSet(r) PROVE x \in ToSet(q)
    <3>1. CASE \E i \in 1 .. Len(s) : x = s[i]
      BY <1>2, <1>3, <3>1 DEF ToSet
    <3>2. CASE \E i \in 1 .. Len(r) : x = r[i]
      BY <1>2, <1>3, <3>2 DEF ToSet
    <3> QED
      BY <1>2, <2>2, <3>1, <3>2 DEF ToSet
  <2> QED
    BY <2>1, <2>2
<1> QED
  BY <1>1, <1>3, <1>4 DEF q

\* One element taken out of a sequence.
LEMMA TakenOut ==
    ASSUME NEW S, NEW s \in Seq(S), NEW n \in 1 .. Len(s)
    PROVE  /\ RemoveAt(s, n) \in Seq(S) /\ Len(s) \in Nat /\ Len(RemoveAt(s, n)) = Len(s) - 1
           /\ \A i \in 1 .. Len(s) - 1 : RemoveAt(s, n)[i] = IF i < n THEN s[i] ELSE s[i + 1]
           /\ ToSet(RemoveAt(s, n)) = {s[i] : i \in (1 .. Len(s)) \ {n}}
<1> DEFINE a == SubSeq(s, 1, n - 1)  b == SubSeq(s, n + 1, Len(s))  q == RemoveAt(s, n)
<1>0. Len(s) \in Nat /\ \A i \in 1 .. Len(s) : s[i] \in S
  BY LenProperties, ElementOfSeq
<1>1. a \in Seq(S) /\ Len(a) = n - 1 /\ \A i \in 1 .. n - 1 : a[i] = s[i]
  <2>1. \A i \in 1 .. n - 1 : s[i] \in S
    BY <1>0
  <2>2. 1 \in Int /\ n - 1 \in Int
    BY <1>0
  <2> HIDE DEF a
  <2>3. /\ a \in Seq(S) /\ Len(a) = IF 1 <= n - 1 THEN (n - 1) - 1 + 1 ELSE 0
        /\ \A i \in 1 .. (n - 1) - 1 + 1 : a[i] = s[1 + i - 1]
    BY <2>1, <2>2, SubSeqProperties DEF a
  <2> QED
    BY <1>0, <2>3
<1>2. b \in Seq(S) /\ Len(b) = Len(s) - n /\ \A i \in 1 .. Len(s) - n : b[i] = s[n + i]
  <2>1. \A i \in n + 1 .. Len(s) : s[i] \in S
    BY <1>0
  <2>2. n + 1 \in Int /\ Len(s) \in Int
    BY <1>0
  <2> HIDE DEF b
  <2>3. /\ b \in Seq(S) /\ Len(b) = IF n + 1 <= Len(s) THEN Len(s) - (n + 1) + 1 ELSE 0
        /\ \A i \in 1 .. Len(s) - (n + 1) + 1 : b[i] = s[(n + 1) + i - 1]
    BY <2>1, <2>2, SubSeqProperties DEF b
  <2> QED
    BY <1>0, <2>3
<1>3. q = a \o b
  BY DEF RemoveAt
<1> HIDE DEF a, b, q
<1>4. /\ q \in Seq(S) /\ Len(q) = Len(s) - 1
      /\ \A i \in 1 .. Len(s) - 1 : q[i] = IF i < n THEN s[i] ELSE s[i + 1]
  <2>1. /\ q \in Seq(S) /\ Len(q) = Len(a) + Len(b)
        /\ \A i \in 1 .. Len(a) + Len(b) : q[i] = IF i <= Len(a) THEN a[i] ELSE b[i - Len(a)]
    BY <1>1, <1>2, <1>3, ConcatProperties
  <2>2. ASSUME NEW i \in 1 .. Len(s) - 1 PROVE q[i] = IF i < n THEN s[i] ELSE s[i + 1]
    <3>1. CASE i < n
      <4>1. i \in 1 .. n - 1 /\ i <= Len(a) /\ i \in 1 .. Len(a) + Len(b)
        BY <1>0, <1>1, <1>2, <3>1
      <4> QED
        BY <1>1, <2>1, <3>1, <4>1
    <3>2. CASE ~(i < n)
      <4>1. i - Len(a) \in 1 .. Len(s) - n /\ ~(i <= Len(a)) /\ i \in 1 .. Len(a) + Len(b)
            /\ n + (i - Len(a)) = i + 1
        BY <1>0, <1>1, <1>2, <3>2
      <4> QED
        BY <1>2, <2>1, <3>2, <4>1
    <3> QED
      BY <3>1, <3>2
  <2> QED
    BY <1>0, <1>1, <1>2, <2>1, <2>2
<1>5. ToSet(q) = {s[i] : i \in (1 .. Len(s)) \ {n}}
  <2>1. DOMAIN q = 1 .. Len(s) - 1
    BY <1>4, LenProperties
  <2>2. ASSUME NEW i \in 1 .. Len(s) - 1 PROVE \E j \in (1 .. Len(s)) \ {n} : q[i] = s[j]
    <3>1. CASE i < n
      BY <1>0, <1>4, <3>1
    <3>2. CASE ~(i < n)
      BY <1>0, <1>4, <3>2
    <3> QED
      BY <3>1, <3>2
  <2>3. ASSUME NEW j \in (1 .. Len(s)) \ {n} PROVE \E i \in 1 .. Len(s) - 1 : q[i] = s[j]
    <3>1. CASE j < n
      BY <1>0, <1>4, <3>1
    <3>2. CASE ~(j < n)
      <4>1. j - 1 \in 1 .. Len(s) - 1 /\ ~(j - 1 < n) /\ (j - 1) + 1 = j
        BY <1>0, <3>2
      <4> QED
        BY <1>4, <4>1
    <3> QED
      BY <3>1, <3>2
  <2> QED
    <3>1. ToSet(q) = {q[i] : i \in 1 .. Len(s) - 1}
      BY <2>1 DEF ToSet
    <3> DEFINE R == {s[i] : i \in (1 .. Len(s)) \ {n}}
    <3>2. ASSUME NEW x \in ToSet(q) PROVE x \in R
      <4>1. PICK i \in 1 .. Len(s) - 1 : x = q[i]
        BY <3>1
      <4>2. PICK j \in (1 .. Len(s)) \ {n} : q[i] = s[j]
        BY <2>2
      <4> QED
        BY <4>1, <4>2
    <3>3. ASSUME NEW x \in R PROVE x \in ToSet(q)
      <4>1. PICK j \in (1 .. Len(s)) \ {n} : x = s[j]
        BY <3>3
      <4>2. PICK i \in 1 .. Len(s) - 1 : q[i] = s[j]
        BY <2>3
      <4> QED
        BY <3>1, <4>1, <4>2
    <3> QED
      BY <3>2, <3>3
<1> QED
  BY <1>0, <1>4, <1>5 DEF q

-----------------------------------------------------------------------------
(* What may be ahead of what.                                              *)

LEMMA LineGrown ==
    ASSUME NEW s \in Seq(Frame), NEW x \in Frame, NEW a, InLine(s, a),
           \A i \in 1 .. Len(s) : Before(s[i], x, a)
    PROVE  InLine(Append(s, x), a)
<1> DEFINE q == Append(s, x)
<1>1. /\ Len(s) \in Nat /\ Len(q) = Len(s) + 1
      /\ \A i \in 1 .. Len(s) : q[i] = s[i]
      /\ q[Len(s) + 1] = x
  BY Grown
<1> HIDE DEF q
<1>2. ASSUME NEW i \in 1 .. Len(q), NEW j \in 1 .. Len(q), i < j PROVE Before(q[i], q[j], a)
  <2>1. i \in 1 .. Len(s) /\ q[i] = s[i]
    BY <1>1, <1>2
  <2>2. CASE j \in 1 .. Len(s)
    <3>1. Before(s[i], s[j], a)
      BY <1>2, <2>1, <2>2 DEF InLine
    <3> QED
      BY <1>1, <2>1, <2>2, <3>1
  <2>3. CASE j = Len(s) + 1
    BY <1>1, <2>1, <2>3
  <2> QED
    BY <1>1, <2>2, <2>3
<1> QED
  BY <1>2 DEF InLine, q

LEMMA LineShrunk ==
    ASSUME NEW s \in Seq(Frame), s # <<>>, NEW a, InLine(s, a)
    PROVE  /\ InLine(Tail(s), a)
           /\ \A i \in 1 .. Len(Tail(s)) : Before(Head(s), Tail(s)[i], a)
<1> DEFINE q == Tail(s)
<1>1. /\ Len(s) \in Nat \ {0} /\ Len(q) = Len(s) - 1 /\ Head(s) = s[1]
      /\ \A i \in 1 .. Len(s) - 1 : q[i] = s[i + 1]
  BY Shrunk
<1> HIDE DEF q
<1>2. ASSUME NEW i \in 1 .. Len(q), NEW j \in 1 .. Len(q), i < j PROVE Before(q[i], q[j], a)
  <2>1. i + 1 \in 1 .. Len(s) /\ j + 1 \in 1 .. Len(s) /\ i + 1 < j + 1 /\ q[i] = s[i + 1] /\ q[j] = s[j + 1]
    BY <1>1, <1>2
  <2> QED
    BY <2>1 DEF InLine
<1>3. ASSUME NEW i \in 1 .. Len(q) PROVE Before(Head(s), q[i], a)
  <2>1. 1 \in 1 .. Len(s) /\ i + 1 \in 1 .. Len(s) /\ 1 < i + 1 /\ q[i] = s[i + 1]
    BY <1>1
  <2> QED
    BY <1>1, <2>1 DEF InLine
<1> QED
  BY <1>2, <1>3 DEF InLine, q

LEMMA LineJoint ==
    ASSUME NEW s \in Seq(Frame), NEW r \in Seq(Frame), NEW a, InLine(s, a), InLine(r, a), Ahead(s, r, a)
    PROVE  InLine(s \o r, a)
<1> DEFINE q == s \o r
<1>1. /\ Len(s) \in Nat /\ Len(r) \in Nat /\ Len(q) = Len(s) + Len(r)
      /\ \A i \in 1 .. Len(s) : q[i] = s[i]
      /\ \A i \in 1 .. Len(r) : q[Len(s) + i] = r[i]
  BY Joint
<1> HIDE DEF q
<1>2. \A i \in 1 .. Len(q) : \/ i \in 1 .. Len(s) /\ q[i] = s[i]
                             \/ i > Len(s) /\ i - Len(s) \in 1 .. Len(r) /\ q[i] = r[i - Len(s)]
  <2> TAKE i \in 1 .. Len(q)
  <2>1. CASE i <= Len(s)
    BY <1>1, <2>1
  <2>2. CASE i > Len(s)
    <3>1. i - Len(s) \in 1 .. Len(r) /\ Len(s) + (i - Len(s)) = i
      BY <1>1, <2>2
    <3>2. q[Len(s) + (i - Len(s))] = r[i - Len(s)]
      BY <1>1, <3>1
    <3> QED
      BY <2>2, <3>1, <3>2
  <2> QED
    BY <1>1, <2>1, <2>2
<1>3. ASSUME NEW i \in 1 .. Len(q), NEW j \in 1 .. Len(q), i < j PROVE Before(q[i], q[j], a)
  <2>1. CASE i \in 1 .. Len(s) /\ q[i] = s[i]
    <3>1. CASE j \in 1 .. Len(s) /\ q[j] = s[j]
      BY <1>3, <2>1, <3>1 DEF InLine
    <3>2. CASE j - Len(s) \in 1 .. Len(r) /\ q[j] = r[j - Len(s)]
      BY <2>1, <3>2 DEF Ahead
    <3> QED
      BY <1>2, <3>1, <3>2
  <2>2. CASE i > Len(s) /\ i - Len(s) \in 1 .. Len(r) /\ q[i] = r[i - Len(s)]
    <3>1. j - Len(s) \in 1 .. Len(r) /\ q[j] = r[j - Len(s)] /\ i - Len(s) < j - Len(s)
      BY <1>1, <1>2, <1>3, <2>2
    <3> QED
      BY <2>2, <3>1 DEF InLine
  <2> QED
    BY <1>2, <2>1, <2>2
<1> QED
  BY <1>3 DEF InLine, q

LEMMA AheadGrown ==
    ASSUME NEW s \in Seq(Frame), NEW r \in Seq(Frame), NEW x \in Frame, NEW a, Ahead(s, r, a)
    PROVE  /\ (\A j \in 1 .. Len(r) : Before(x, r[j], a)) => Ahead(Append(s, x), r, a)
           /\ (\A i \in 1 .. Len(s) : Before(s[i], x, a)) => Ahead(s, Append(r, x), a)
<1> DEFINE q == Append(s, x)  p == Append(r, x)
<1>1. /\ Len(s) \in Nat /\ Len(q) = Len(s) + 1
      /\ \A i \in 1 .. Len(s) : q[i] = s[i]
      /\ q[Len(s) + 1] = x
  BY Grown
<1>2. /\ Len(r) \in Nat /\ Len(p) = Len(r) + 1
      /\ \A i \in 1 .. Len(r) : p[i] = r[i]
      /\ p[Len(r) + 1] = x
  BY Grown
<1> HIDE DEF q, p
<1>3. \A i \in 1 .. Len(q) : i \in 1 .. Len(s) \/ i = Len(s) + 1
  BY <1>1
<1>4. \A i \in 1 .. Len(p) : i \in 1 .. Len(r) \/ i = Len(r) + 1
  BY <1>2
<1>5. ASSUME \A j \in 1 .. Len(r) : Before(x, r[j], a) PROVE Ahead(q, r, a)
  BY <1>1, <1>3, <1>5 DEF Ahead
<1>6. ASSUME \A i \in 1 .. Len(s) : Before(s[i], x, a) PROVE Ahead(s, p, a)
  BY <1>2, <1>4, <1>6 DEF Ahead
<1> QED
  BY <1>5, <1>6 DEF q, p

LEMMA AheadShrunk ==
    ASSUME NEW s \in Seq(Frame), NEW r \in Seq(Frame), NEW a, Ahead(s, r, a)
    PROVE  /\ s # <<>> => Ahead(Tail(s), r, a) /\ \A j \in 1 .. Len(r) : Before(Head(s), r[j], a)
           /\ r # <<>> => Ahead(s, Tail(r), a) /\ \A i \in 1 .. Len(s) : Before(s[i], Head(r), a)
<1>1. ASSUME s # <<>>
      PROVE  Ahead(Tail(s), r, a) /\ \A j \in 1 .. Len(r) : Before(Head(s), r[j], a)
  <2> DEFINE q == Tail(s)
  <2>1. /\ Len(s) \in Nat \ {0} /\ Len(q) = Len(s) - 1 /\ Head(s) = s[1]
        /\ \A i \in 1 .. Len(s) - 1 : q[i] = s[i + 1]
    BY <1>1, Shrunk
  <2> HIDE DEF q
  <2>2. \A i \in 1 .. Len(q) : i + 1 \in 1 .. Len(s) /\ q[i] = s[i + 1]
    BY <2>1
  <2>3. 1 \in 1 .. Len(s)
    BY <2>1
  <2>4. Ahead(q, r, a) /\ \A j \in 1 .. Len(r) : Before(Head(s), r[j], a)
    BY <2>1, <2>2, <2>3 DEF Ahead
  <2> QED
    BY <2>4 DEF q
<1>2. ASSUME r # <<>>
      PROVE  Ahead(s, Tail(r), a) /\ \A i \in 1 .. Len(s) : Before(s[i], Head(r), a)
  <2> DEFINE q == Tail(r)
  <2>1. /\ Len(r) \in Nat \ {0} /\ Len(q) = Len(r) - 1 /\ Head(r) = r[1]
        /\ \A i \in 1 .. Len(r) - 1 : q[i] = r[i + 1]
    BY <1>2, Shrunk
  <2> HIDE DEF q
  <2>2. \A i \in 1 .. Len(q) : i + 1 \in 1 .. Len(r) /\ q[i] = r[i + 1]
    BY <2>1
  <2>3. 1 \in 1 .. Len(r)
    BY <2>1
  <2>4. Ahead(s, q, a) /\ \A i \in 1 .. Len(s) : Before(s[i], Head(r), a)
    BY <2>1, <2>2, <2>3 DEF Ahead
  <2> QED
    BY <2>4 DEF q
<1> QED
  BY <1>1, <1>2

LEMMA AheadJoint ==
    ASSUME NEW s \in Seq(Frame), NEW r \in Seq(Frame), NEW q \in Seq(Frame), NEW a,
           Ahead(s, r, a), Ahead(s, q, a)
    PROVE  Ahead(s, r \o q, a)
<1> DEFINE p == r \o q
<1>1. /\ Len(r) \in Nat /\ Len(q) \in Nat /\ Len(p) = Len(r) + Len(q)
      /\ \A i \in 1 .. Len(r) : p[i] = r[i]
      /\ \A i \in 1 .. Len(q) : p[Len(r) + i] = q[i]
  BY Joint
<1> HIDE DEF p
<1>2. ASSUME NEW i \in 1 .. Len(s), NEW j \in 1 .. Len(p) PROVE Before(s[i], p[j], a)
  <2>1. CASE j \in 1 .. Len(r)
    BY <1>1, <2>1 DEF Ahead
  <2>2. CASE j > Len(r)
    <3>1. j - Len(r) \in 1 .. Len(q) /\ Len(r) + (j - Len(r)) = j
      BY <1>1, <2>2
    <3>2. p[Len(r) + (j - Len(r))] = q[j - Len(r)]
      BY <1>1, <3>1
    <3> QED
      BY <3>1, <3>2 DEF Ahead
  <2> QED
    BY <1>1, <2>1, <2>2
<1> QED
  BY <1>2 DEF Ahead, p

\* Sending more again puts nothing out of order.
LEMMA MoreAgain ==
    ASSUME NEW a, NEW b, a \subseteq b
    PROVE  /\ \A f, g : Before(f, g, a) => Before(f, g, b)
           /\ \A s : InLine(s, a) => InLine(s, b)
           /\ \A s, r : Ahead(s, r, a) => Ahead(s, r, b)
<1>1. \A f, g : Before(f, g, a) => Before(f, g, b)
  BY DEF Before
<1> QED
  BY <1>1 DEF InLine, Ahead

-----------------------------------------------------------------------------
(* The transfers that are put together, and the ones that are kept.        *)

\* A non-empty set of numbers has a least element.
LEMMA LeastOf ==
    ASSUME NEW S, S \subseteq Nat, S # {}
    PROVE  \E x \in S : \A y \in S : x <= y
<1> DEFINE R == OpToRel(<, Nat)
<1>1. \E x \in S : \A y \in S : ~(<<y, x>> \in R)
  <2>1. IsWellFoundedOn(R, Nat)
    BY NatLessThanWellFounded
  <2> HIDE DEF R
  <2> QED
    BY <2>1, WFMin
<1>2. \A x, y \in Nat : y < x => <<y, x>> \in R
  BY DEF OpToRel
<1> HIDE DEF R
<1>3. PICK x \in S : \A y \in S : ~(<<y, x>> \in R)
  BY <1>1
<1>4. ASSUME NEW y \in S PROVE x <= y
  <2>1. x \in Nat /\ y \in Nat
    OBVIOUS
  <2>2. ~(y < x)
    BY <1>2, <1>3, <2>1
  <2> QED
    BY <2>1, <2>2
<1> QED
  BY <1>3, <1>4

LEMMA LeastIs ==
    ASSUME NEW S \in SUBSET Nat, S # {}
    PROVE  Min(S) \in S /\ \A k \in S : Min(S) <= k
<1>1. \E x \in S : \A y \in S : x <= y
  BY LeastOf
<1> QED
  BY <1>1 DEF Min

LEMMA IdsAre ==
    ASSUME NEW s \in Seq(Piece)
    PROVE  /\ Len(s) \in Nat /\ DOMAIN s = 1 .. Len(s)
           /\ \A i \in 1 .. Len(s) : s[i] \in Piece
           /\ ToSet(s) = {s[i] : i \in 1 .. Len(s)} /\ Ids(s) = {s[i].m : i \in 1 .. Len(s)}
           /\ Ids(s) = {a.m : a \in ToSet(s)}
<1>1. Len(s) \in Nat /\ DOMAIN s = 1 .. Len(s) /\ \A i \in 1 .. Len(s) : s[i] \in Piece
  BY LenProperties, ElementOfSeq
<1>2. ToSet(s) = {s[i] : i \in 1 .. Len(s)} /\ Ids(s) = {s[i].m : i \in 1 .. Len(s)}
  BY <1>1 DEF ToSet, Ids
<1>3. Ids(s) = {a.m : a \in ToSet(s)}
  BY <1>2
<1> QED
  BY <1>1, <1>2, <1>3

\* One part less.
LEMMA OneLess ==
    ASSUME NEW s \in Seq(Piece), Apart(s), NEW n \in 1 .. Len(s)
    PROVE  /\ RemoveAt(s, n) \in Seq(Piece) /\ Apart(RemoveAt(s, n))
           /\ Len(RemoveAt(s, n)) = Len(s) - 1
           /\ ToSet(RemoveAt(s, n)) = {a \in ToSet(s) : a.m # s[n].m}
<1> DEFINE w == RemoveAt(s, n)
<1>1. /\ w \in Seq(Piece) /\ Len(s) \in Nat /\ Len(w) = Len(s) - 1
      /\ \A i \in 1 .. Len(s) - 1 : w[i] = IF i < n THEN s[i] ELSE s[i + 1]
      /\ ToSet(w) = {s[i] : i \in (1 .. Len(s)) \ {n}}
  BY TakenOut
<1> HIDE DEF w
<1>2. Apart(w)
  <2> SUFFICES ASSUME NEW i \in 1 .. Len(w), NEW j \in 1 .. Len(w), w[i].m = w[j].m PROVE i = j
    BY DEF Apart
  <2> DEFINE x == IF i < n THEN i ELSE i + 1  y == IF j < n THEN j ELSE j + 1
  <2>1. x \in 1 .. Len(s) /\ y \in 1 .. Len(s) /\ (x = y => i = j)
    BY <1>1
  <2>2. w[i] = s[x] /\ w[j] = s[y]
    BY <1>1
  <2> HIDE DEF x, y
  <2> QED
    BY <2>1, <2>2 DEF Apart
<1>3. ToSet(w) = {a \in ToSet(s) : a.m # s[n].m}
  <2>1. \A i \in 1 .. Len(s) : s[i].m = s[n].m <=> i = n
    BY DEF Apart
  <2>2. ToSet(s) = {s[i] : i \in 1 .. Len(s)}
    BY IdsAre
  <2>3. ASSUME NEW a PROVE a \in ToSet(w) <=> a \in ToSet(s) /\ a.m # s[n].m
    BY <1>1, <2>1, <2>2
  <2> QED
    BY <2>3
<1> QED
  BY <1>1, <1>2, <1>3 DEF w

LEMMA WithoutOne ==
    ASSUME NEW s \in Seq(Piece), Apart(s), NEW m
    PROVE  /\ Without(s, m) \in Seq(Piece) /\ Apart(Without(s, m))
           /\ Len(Without(s, m)) = IF m \in Ids(s) THEN Len(s) - 1 ELSE Len(s)
           /\ ToSet(Without(s, m)) = {a \in ToSet(s) : a.m # m}
<1> DEFINE I == {i \in 1 .. Len(s) : s[i].m = m}
<1>1. /\ Len(s) \in Nat /\ ToSet(s) = {s[i] : i \in 1 .. Len(s)} /\ Ids(s) = {s[i].m : i \in 1 .. Len(s)}
  BY IdsAre
<1>2. CASE I = {}
  <2>1. Without(s, m) = s
    BY <1>2 DEF Without, RemoveFirstMatch
  <2>2. m \notin Ids(s) /\ ToSet(s) = {a \in ToSet(s) : a.m # m}
    BY <1>1, <1>2
  <2> QED
    BY <2>1, <2>2
<1>3. CASE I # {}
  <2>1. Without(s, m) = RemoveAt(s, Min(I))
    BY <1>3 DEF Without, RemoveFirstMatch, SelectInSeq
  <2>2. Min(I) \in I
    <3>1. I \in SUBSET Nat
      BY <1>1
    <3> QED
      BY <1>3, <3>1, LeastIs
  <2>3. m \in Ids(s)
    BY <1>1, <1>3
  <2> DEFINE n == Min(I)
  <2>4. n \in 1 .. Len(s) /\ s[n].m = m
    BY <2>2
  <2>5. Without(s, m) = RemoveAt(s, n)
    BY <2>1
  <2> HIDE DEF n
  <2>6. /\ RemoveAt(s, n) \in Seq(Piece) /\ Apart(RemoveAt(s, n)) /\ Len(RemoveAt(s, n)) = Len(s) - 1
        /\ ToSet(RemoveAt(s, n)) = {a \in ToSet(s) : a.m # s[n].m}
    BY <2>4, OneLess
  <2> QED
    BY <2>3, <2>4, <2>5, <2>6
<1> QED
  BY <1>2, <1>3

LEMMA Fewer ==
    ASSUME NEW s \in Seq(Piece), NEW r \in Seq(Piece), NEW n \in Nat, ToSet(r) \subseteq ToSet(s),
           \A a \in ToSet(s) : a.m <= n
    PROVE  Total(s) \in Nat /\ Total(r) <= Total(s)
<1> DEFINE P(q) == UNION {{a.m} \X a.got : a \in ToSet(q)}
<1>1. IsFiniteSet((0 .. n) \X Pages)
  <2>1. IsFiniteSet(0 .. n)
    BY FS_Interval
  <2>2. IsFiniteSet(Pages)
    BY FS_Interval, TransferAssumption DEF Pages
  <2> QED
    BY <2>1, <2>2, FS_Product
<1>2. P(s) \subseteq (0 .. n) \X Pages
  <2>1. \A a \in ToSet(s) : a \in Piece
    BY IdsAre
  <2>2. \A a \in ToSet(s) : a.m \in 0 .. n /\ a.got \subseteq Pages
    BY <2>1 DEF Piece
  <2> QED
    BY <2>2
<1>3. P(r) \subseteq P(s)
  OBVIOUS
<1> HIDE DEF P
<1>4. IsFiniteSet(P(s)) /\ Cardinality(P(s)) \in Nat
  BY <1>1, <1>2, FS_Subset, FS_CardinalityType
<1>5. Cardinality(P(r)) <= Cardinality(P(s))
  BY <1>3, <1>4, FS_Subset
<1> QED
  BY <1>4, <1>5 DEF Total, P

\* The parts that are left when it was too much.
LEMMA Fits ==
    ASSUME NEW s \in Seq(Piece), Apart(s), NEW n \in Nat, \A a \in ToSet(s) : a.m <= n
    PROVE  /\ Enforced(s) \in Seq(Piece) /\ Apart(Enforced(s))
           /\ ToSet(Enforced(s)) \subseteq ToSet(s) /\ ~TooMuch(Enforced(s))
<1> DEFINE Rest(k) == SubSeq(s, k + 1, Len(s))
           I == {k \in 0 .. Len(s) : ~TooMuch(Rest(k))}
           k == Min(I)
           e == Rest(k)
<1>1. /\ Len(s) \in Nat /\ \A i \in 1 .. Len(s) : s[i] \in Piece
      /\ ToSet(s) = {s[i] : i \in 1 .. Len(s)}
  BY IdsAre
<1>2. Enforced(s) = e
  BY DEF Enforced
<1>3. Len(s) \in I
  <2>1. Rest(Len(s)) = <<>>
    BY <1>1, SubSeqEmpty
  <2>2. ~TooMuch(<<>>)
    <3>1. Total(<<>>) = 0 /\ Len(<<>>) = 0
      <4>1. ToSet(<<>>) = {}
        BY DEF ToSet
      <4>2. UNION {{a.m} \X a.got : a \in ToSet(<<>>)} = {}
        BY <4>1
      <4> QED
        BY <4>2, FS_EmptySet DEF Total
    <3> QED
      BY <3>1, TransferAssumption DEF TooMuch
  <2> HIDE DEF Rest
  <2> QED
    BY <1>1, <2>1, <2>2
<1>4. k \in 0 .. Len(s) /\ ~TooMuch(e)
  <2>1. I \in SUBSET Nat
    BY <1>1
  <2>2. k \in I
    BY <1>3, <2>1, LeastIs
  <2> HIDE DEF k, Rest
  <2> QED
    BY <2>2
<1> HIDE DEF k, I
<1>5. /\ e \in Seq(Piece) /\ Len(e) = Len(s) - k
      /\ \A i \in 1 .. Len(s) - k : e[i] = s[k + i]
  <2> HIDE DEF e
  <2>1. k + 1 \in Int /\ Len(s) \in Int /\ \A i \in k + 1 .. Len(s) : s[i] \in Piece
    BY <1>1, <1>4
  <2>2. /\ e \in Seq(Piece) /\ Len(e) = IF k + 1 <= Len(s) THEN Len(s) - (k + 1) + 1 ELSE 0
        /\ \A i \in 1 .. Len(s) - (k + 1) + 1 : e[i] = s[(k + 1) + i - 1]
    BY <2>1, SubSeqProperties DEF e
  <2> QED
    BY <1>1, <1>4, <2>2
<1> HIDE DEF e
<1>6. \A i \in 1 .. Len(e) : k + i \in 1 .. Len(s) /\ e[i] = s[k + i]
  BY <1>1, <1>4, <1>5
<1>7. Apart(e)
  <2> SUFFICES ASSUME NEW i \in 1 .. Len(e), NEW j \in 1 .. Len(e), e[i].m = e[j].m PROVE i = j
    BY DEF Apart
  <2>1. k + i = k + j
    BY <1>6 DEF Apart
  <2> QED
    BY <1>1, <1>4, <1>5, <2>1
<1>8. ToSet(e) \subseteq ToSet(s)
  <2>1. ToSet(e) = {e[i] : i \in 1 .. Len(e)}
    BY <1>5, IdsAre
  <2> QED
    BY <1>1, <1>6, <2>1
<1> QED
  BY <1>2, <1>4, <1>5, <1>7, <1>8

\* A part more, or one that was touched: the last in the row.
LEMMA OneMore ==
    ASSUME NEW s \in Seq(Piece), Apart(s), NEW a \in Piece, a.m \notin Ids(s)
    PROVE  /\ Append(s, a) \in Seq(Piece) /\ Apart(Append(s, a)) /\ Len(Append(s, a)) = Len(s) + 1
           /\ ToSet(Append(s, a)) = ToSet(s) \cup {a}
<1> DEFINE q == Append(s, a)
<1>1. /\ q \in Seq(Piece) /\ Len(s) \in Nat /\ Len(q) = Len(s) + 1
      /\ \A i \in 1 .. Len(s) : q[i] = s[i]
      /\ q[Len(s) + 1] = a
      /\ ToSet(q) = ToSet(s) \cup {a}
  BY Grown
<1>2. \A i \in 1 .. Len(s) : s[i].m # a.m
  BY IdsAre
<1> HIDE DEF q
<1>3. \A i \in 1 .. Len(q) : i \in 1 .. Len(s) \/ i = Len(s) + 1
  BY <1>1
<1>4. Apart(q)
  BY <1>1, <1>2, <1>3 DEF Apart
<1> QED
  BY <1>1, <1>4 DEF q

LEMMA TouchedOne ==
    ASSUME NEW s \in Seq(Piece), Apart(s), NEW a \in Piece, a.m \in Ids(s)
    PROVE  LET q == Append(Without(s, a.m), a) IN
           /\ q \in Seq(Piece) /\ Apart(q) /\ Len(q) = Len(s)
           /\ ToSet(q) = {b \in ToSet(s) : b.m # a.m} \cup {a}
           /\ Ids(q) = Ids(s)
<1> DEFINE w == Without(s, a.m)  q == Append(w, a)
<1>1. /\ w \in Seq(Piece) /\ Apart(w) /\ Len(w) = Len(s) - 1
      /\ ToSet(w) = {b \in ToSet(s) : b.m # a.m}
  BY WithoutOne
<1> HIDE DEF w
<1>2. a.m \notin Ids(w)
  BY <1>1, IdsAre
<1>3. /\ q \in Seq(Piece) /\ Apart(q) /\ Len(q) = Len(w) + 1
      /\ ToSet(q) = ToSet(w) \cup {a}
  BY <1>1, <1>2, OneMore
<1> HIDE DEF q
<1>4. Ids(q) = Ids(s)
  <2>1. Ids(q) = {b.m : b \in ToSet(q)} /\ Ids(s) = {b.m : b \in ToSet(s)}
    BY <1>3, IdsAre
  <2> QED
    BY <1>1, <1>3, <2>1
<1>5. Len(s) \in Nat
  BY IdsAre
<1> QED
  BY <1>1, <1>3, <1>4, <1>5 DEF q, w

\* There are as many parts as transfers.
LEMMA CountedOnce ==
    ASSUME NEW s \in Seq(Piece), Apart(s)
    PROVE  Cardinality(Ids(s)) = Len(s)
<1> DEFINE f == [i \in 1 .. Len(s) |-> s[i].m]
<1>1. Len(s) \in Nat /\ Ids(s) = {s[i].m : i \in 1 .. Len(s)}
  BY IdsAre
<1>2. f \in Bijection(1 .. Len(s), Ids(s))
  BY <1>1 DEF Apart, Bijection, Injection, Surjection, IsInjective
<1>3. ExistsBijection(1 .. Len(s), Ids(s))
  BY <1>2 DEF ExistsBijection
<1> QED
  BY <1>1, <1>3, FS_CountingElements

LEMMA NatSeq ==
    ASSUME NEW s \in Seq(Nat)
    PROVE  Len(s) \in Nat /\ DOMAIN s = 1 .. Len(s) /\ ToSet(s) = {s[i] : i \in 1 .. Len(s)}
<1>1. Len(s) \in Nat /\ DOMAIN s = 1 .. Len(s)
  BY LenProperties
<1> QED
  BY <1>1 DEF ToSet

\* One transfer is no longer kept.
LEMMA OneGone ==
    ASSUME NEW s \in Seq(Nat), Single(s), NEW n \in 1 .. Len(s)
    PROVE  /\ RemoveAt(s, n) \in Seq(Nat) /\ Single(RemoveAt(s, n))
           /\ Len(RemoveAt(s, n)) <= Len(s) /\ ToSet(RemoveAt(s, n)) \subseteq ToSet(s)
<1> DEFINE w == RemoveAt(s, n)
<1>1. /\ w \in Seq(Nat) /\ Len(s) \in Nat /\ Len(w) = Len(s) - 1
      /\ \A i \in 1 .. Len(s) - 1 : w[i] = IF i < n THEN s[i] ELSE s[i + 1]
      /\ ToSet(w) = {s[i] : i \in (1 .. Len(s)) \ {n}}
  BY TakenOut
<1> HIDE DEF w
<1>2. Single(w)
  <2> SUFFICES ASSUME NEW i \in 1 .. Len(w), NEW j \in 1 .. Len(w), w[i] = w[j] PROVE i = j
    BY DEF Single
  <2> DEFINE x == IF i < n THEN i ELSE i + 1  y == IF j < n THEN j ELSE j + 1
  <2>1. x \in 1 .. Len(s) /\ y \in 1 .. Len(s) /\ (x = y => i = j)
    <3>1. Len(s) \in Nat /\ i \in 1 .. Len(s) - 1 /\ j \in 1 .. Len(s) - 1 /\ n \in 1 .. Len(s)
      BY <1>1
    <3> QED
      BY <3>1
  <2>2. w[i] = s[x] /\ w[j] = s[y]
    BY <1>1
  <2> HIDE DEF x, y
  <2> QED
    BY <2>1, <2>2 DEF Single
<1>3. ToSet(w) \subseteq ToSet(s)
  BY <1>1, NatSeq
<1> QED
  BY <1>1, <1>2, <1>3 DEF w

LEMMA FirstGone ==
    ASSUME NEW s \in Seq(Nat), Single(s), NEW m
    PROVE  /\ RemoveFirst(s, m) \in Seq(Nat) /\ Single(RemoveFirst(s, m))
           /\ Len(RemoveFirst(s, m)) <= Len(s) /\ ToSet(RemoveFirst(s, m)) \subseteq ToSet(s)
<1> DEFINE I == {i \in 1 .. Len(s) : s[i] = m}
<1>1. Len(s) \in Nat
  BY NatSeq
<1>2. CASE I = {}
  <2>1. RemoveFirst(s, m) = s
    BY <1>2 DEF RemoveFirst
  <2> QED
    BY <1>1, <2>1
<1>3. CASE I # {}
  <2>1. RemoveFirst(s, m) = RemoveAt(s, Min(I))
    BY <1>3 DEF RemoveFirst, SelectInSeq
  <2>2. Min(I) \in I
    <3>1. I \in SUBSET Nat
      BY <1>1
    <3> QED
      BY <1>3, <3>1, LeastIs
  <2> DEFINE n == Min(I)
  <2>3. n \in 1 .. Len(s)
    BY <2>2
  <2> HIDE DEF n
  <2> QED
    BY <2>1, <2>3, OneGone DEF n
<1> QED
  BY <1>2, <1>3

\* One transfer more is kept, and the oldest are not when they are too many.
LEMMA KeptOne ==
    ASSUME NEW s \in Seq(Nat), Single(s), NEW m \in Nat, m \notin ToSet(s), retained = s
    PROVE  /\ Keep(m) \in Seq(Nat) /\ Single(Keep(m))
           /\ Len(Keep(m)) <= RetainLimit /\ ToSet(Keep(m)) \subseteq ToSet(s) \cup {m}
<1> DEFINE r == Append(s, m)
           k == IF Len(r) > RetainLimit THEN Len(r) - RetainLimit + 1 ELSE 1
           q == SubSeq(r, k, Len(r))
<1>1. Keep(m) = q
  BY DEF Keep
<1>2. /\ r \in Seq(Nat) /\ Len(s) \in Nat /\ Len(r) = Len(s) + 1
      /\ \A i \in 1 .. Len(s) : r[i] = s[i]
      /\ r[Len(s) + 1] = m
      /\ ToSet(r) = ToSet(s) \cup {m}
  BY Grown
<1>3. ToSet(s) = {s[i] : i \in 1 .. Len(s)} /\ ToSet(r) = {r[i] : i \in 1 .. Len(r)}
  BY <1>2, NatSeq
<1> HIDE DEF r
<1>4. \A i \in 1 .. Len(r) : r[i] \in Nat
  BY <1>2, ElementOfSeq
<1>5. Single(r)
  <2>1. \A i \in 1 .. Len(r) : i \in 1 .. Len(s) \/ i = Len(s) + 1
    BY <1>2
  <2>2. \A i \in 1 .. Len(s) : s[i] # m
    BY <1>3
  <2> QED
    BY <1>2, <2>1, <2>2 DEF Single
<1>6. k \in Nat \ {0} /\ k <= Len(r) + 1 /\ Len(r) - k + 1 <= RetainLimit
  <2>1. RetainLimit \in Nat /\ Len(r) \in Nat \ {0}
    BY <1>2, TransferAssumption
  <2> QED
    BY <2>1
<1> HIDE DEF k
<1>7. /\ q \in Seq(Nat) /\ Len(q) = Len(r) - k + 1
      /\ \A i \in 1 .. Len(r) - k + 1 : q[i] = r[k + i - 1]
  <2> HIDE DEF q
  <2>1. k \in Int /\ Len(r) \in Int /\ \A i \in k .. Len(r) : r[i] \in Nat
    BY <1>2, <1>4, <1>6
  <2>2. /\ q \in Seq(Nat) /\ Len(q) = IF k <= Len(r) THEN Len(r) - k + 1 ELSE 0
        /\ \A i \in 1 .. Len(r) - k + 1 : q[i] = r[k + i - 1]
    BY <2>1, SubSeqProperties DEF q
  <2> QED
    BY <1>2, <1>6, <2>2
<1> HIDE DEF q
<1>8. ASSUME NEW i \in 1 .. Len(q) PROVE k + i - 1 \in 1 .. Len(r) /\ q[i] = r[k + i - 1]
  <2>1. Len(r) \in Nat /\ k \in Nat \ {0} /\ i \in 1 .. Len(r) - k + 1
    BY <1>2, <1>6, <1>7
  <2> QED
    BY <1>7, <2>1
<1>9. Single(q)
  <2> SUFFICES ASSUME NEW i \in 1 .. Len(q), NEW j \in 1 .. Len(q), q[i] = q[j] PROVE i = j
    BY DEF Single
  <2>1. k + i - 1 = k + j - 1
    BY <1>5, <1>8 DEF Single
  <2> QED
    BY <1>2, <1>6, <1>7, <2>1
<1>10. ToSet(q) \subseteq ToSet(r)
  <2>1. ToSet(q) = {q[i] : i \in 1 .. Len(q)}
    BY <1>7, NatSeq
  <2> QED
    BY <1>3, <1>8, <2>1
<1> QED
  BY <1>1, <1>2, <1>6, <1>7, <1>9, <1>10

-----------------------------------------------------------------------------
(* The frames of a message.                                                *)

LEMMA FrameOf ==
    ASSUME NEW k \in Sorts, NEW m \in Nat
    PROVE  F(k, m) \in Frame /\ F(k, m).t = k /\ F(k, m).m = m /\ F(k, m).p = 0
BY DEF F, Frame

LEMMA PageOf ==
    ASSUME NEW m \in Nat, NEW p \in Pages
    PROVE  Data(m, p) \in Frame /\ Data(m, p).t = "data" /\ Data(m, p).m = m
<1>1. p \in Nat
  BY TransferAssumption DEF Pages
<1> QED
  BY <1>1 DEF Data, Frame, Sorts

\* Nothing or BEGIN, pages in any order, and DONE.
LEMMA PagesBurst ==
    ASSUME NEW m \in Nat, NEW a \in Seq(Frame), NEW b \in Seq(Frame),
           a = <<>> \/ a = <<F("begin", m)>>,
           \A i \in 1 .. Len(b) : b[i].t = "data" /\ b[i].m = m
    PROVE  Burst(a \o b \o <<F("done", m)>>, m)
<1> DEFINE c == a \o b  d == F("done", m)  q == Append(c, d)
<1>1. /\ c \in Seq(Frame) /\ Len(a) \in Nat /\ Len(b) \in Nat /\ Len(c) = Len(a) + Len(b)
      /\ \A i \in 1 .. Len(a) + Len(b) : c[i] = IF i <= Len(a) THEN a[i] ELSE b[i - Len(a)]
  BY ConcatProperties, LenProperties
<1>2. d \in Frame /\ d.t = "done" /\ d.m = m /\ d.p = 0
  BY FrameOf DEF Sorts
<1> HIDE DEF c
<1>3. \A i \in 1 .. Len(c) : /\ c[i].m = m /\ c[i].t \in {"begin", "data"}
                             /\ (c[i].t # "data" => c[i].p = 0)
  <2> TAKE i \in 1 .. Len(c)
  <2>1. CASE i <= Len(a)
    <3>1. a = <<F("begin", m)>> /\ i = 1 /\ c[i] = F("begin", m)
      BY <1>1, <2>1
    <3> QED
      BY <3>1, FrameOf DEF Sorts
  <2>2. CASE ~(i <= Len(a))
    <3>1. i - Len(a) \in 1 .. Len(b) /\ c[i] = b[i - Len(a)]
      BY <1>1, <2>2
    <3> QED
      BY <3>1
  <2> QED
    BY <2>1, <2>2
<1>4. c \o <<d>> = q
  BY <1>1, <1>2, AppendIsConcat
<1> HIDE DEF d
<1>9. c \in Seq(Frame) /\ d \in Frame
  BY <1>1, <1>2
<1>5. /\ q \in Seq(Frame) /\ Len(c) \in Nat /\ Len(q) = Len(c) + 1
      /\ \A i \in 1 .. Len(c) : q[i] = c[i]
      /\ q[Len(c) + 1] = d
  BY <1>9, Grown
<1> HIDE DEF q
<1>6. q # <<>>
  BY <1>5
<1>7. ASSUME NEW i \in 1 .. Len(q)
      PROVE  /\ q[i].m = m /\ (q[i].t # "data" => q[i].p = 0)
             /\ i < Len(q) => q[i].t \in {"begin", "data"}
  <2>1. CASE i \in 1 .. Len(c)
    BY <1>3, <1>5, <2>1
  <2>2. CASE i = Len(c) + 1
    BY <1>2, <1>5, <2>2
  <2> QED
    BY <1>5, <2>1, <2>2
<1>8. Burst(q, m)
  BY <1>2, <1>5, <1>6, <1>7 DEF Burst
<1> QED
  BY <1>4, <1>8 DEF c, d

LEMMA FramesBurst ==
    ASSUME NEW k \in {"plain", "transfer"}, NEW m \in Nat
    PROVE  /\ Burst(Frames(k, m), m)
           /\ \A i \in 1 .. Len(Frames(k, m)) :
                Frames(k, m)[i].t \in IF k = "transfer" THEN {"begin", "data", "done"} ELSE {"plain"}
<1>1. CASE k = "transfer"
  <2> DEFINE a == <<F("begin", m)>>  b == [p \in Pages |-> Data(m, p)]  q == a \o b \o <<F("done", m)>>
  <2>1. a \in Seq(Frame)
    BY FrameOf DEF Sorts
  <2>2. b \in Seq(Frame) /\ Len(b) = PageCount /\ \A i \in 1 .. Len(b) : b[i].t = "data" /\ b[i].m = m
    <3>1. b \in [1 .. PageCount -> Frame]
      BY PageOf DEF Pages
    <3>2. PageCount \in Nat
      BY TransferAssumption
    <3> HIDE DEF b
    <3>3. b \in Seq(Frame) /\ Len(b) = PageCount
      BY <3>1, <3>2
    <3>4. \A i \in 1 .. PageCount : b[i] = Data(m, i)
      BY DEF b, Pages
    <3> QED
      BY <3>3, <3>4, PageOf DEF Pages
  <2> HIDE DEF a, b
  <2>3. Burst(q, m)
    BY <2>1, <2>2, PagesBurst DEF a
  <2>4. Frames(k, m) = q
    BY <1>1 DEF Frames, a, b
  <2>5. q[Len(q)].t # "plain"
    <3>1. Len(q) = Len(a \o b) + 1 /\ q[Len(q)] = F("done", m)
      <4>1. a \o b \in Seq(Frame) /\ F("done", m) \in Frame
        BY <2>1, <2>2, ConcatProperties, FrameOf DEF Sorts
      <4>2. q = Append(a \o b, F("done", m))
        BY <4>1, AppendIsConcat
      <4> QED
        BY <4>1, <4>2, Grown
    <3> QED
      BY <3>1, FrameOf DEF Sorts
  <2> HIDE DEF q
  <2>6. \A i \in 1 .. Len(q) : q[i].t \in {"begin", "data", "done"}
    <3>1. Len(q) \in Nat
      BY <2>3, LenProperties DEF Burst
    <3> QED
      BY <2>3, <2>5, <3>1 DEF Burst
  <2> QED
    BY <1>1, <2>3, <2>4, <2>6
<1>2. CASE k = "plain"
  <2> DEFINE f == F("plain", m)
  <2>1. Frames(k, m) = <<f>>
    BY <1>2 DEF Frames
  <2>2. f \in Frame /\ f.t = "plain" /\ f.m = m /\ f.p = 0
    BY FrameOf DEF Sorts
  <2> HIDE DEF f
  <2>3. Len(<<f>>) = 1 /\ <<f>>[1] = f /\ <<f>> # <<>> /\ <<f>> \in Seq(Frame)
    BY <2>2
  <2> QED
    <3> DEFINE b == <<f>>
    <3>1. Len(b) = 1 /\ b[1] = f /\ b # <<>> /\ b \in Seq(Frame)
      BY <2>3
    <3> HIDE DEF b
    <3>2. \A i \in 1 .. Len(b) : b[i] = f /\ i = 1
      BY <3>1
    <3>3. Burst(b, m)
      BY <2>2, <3>1, <3>2 DEF Burst
    <3> QED
      BY <1>2, <2>1, <2>2, <3>2, <3>3 DEF b
<1> QED
  BY <1>1, <1>2

LEMMA SetToSeqOf ==
    ASSUME NEW S, IsFiniteSet(S)
    PROVE  Cardinality(S) \in Nat /\ SetToSeq(S) \in [1 .. Cardinality(S) -> S]
<1>1. Cardinality(S) \in Nat /\ \E f : f \in Bijection(1 .. Cardinality(S), S)
  BY FS_CardinalityType DEF ExistsBijection
<1>2. PICK f \in [1 .. Cardinality(S) -> S] : IsInjective(f)
  BY <1>1 DEF Bijection, Injection
<1> QED
  BY <1>1, <1>2 DEF SetToSeq

LEMMA AgainBurst ==
    ASSUME NEW r \in Request
    PROVE  /\ Burst(Again(r), r.m)
           /\ \A i \in 1 .. Len(Again(r)) : Again(r)[i].t \in {"begin", "data", "done"}
<1> DEFINE a == IF r.resume THEN <<F("begin", r.m)>> ELSE <<>>
           P == {Data(r.m, p) : p \in r.missing}
           b == SetToSeq(P)
           q == a \o b \o <<F("done", r.m)>>
<1>0. r.m \in Nat /\ r.missing \subseteq Pages
  BY DEF Request
<1>1. a \in Seq(Frame)
  BY <1>0, FrameOf DEF Sorts
<1>2. IsFiniteSet(P) /\ \A f \in P : f \in Frame /\ f.t = "data" /\ f.m = r.m
  <2>1. IsFiniteSet(r.missing)
    <3>1. IsFiniteSet(Pages)
      BY FS_Interval, TransferAssumption DEF Pages
    <3> QED
      BY <1>0, <3>1, FS_Subset
  <2>2. IsFiniteSet(P)
    <3> DEFINE f == [p \in r.missing |-> Data(r.m, p)]
    <3>1. f \in Surjection(r.missing, P)
      BY DEF Surjection
    <3> HIDE DEF f, P
    <3> QED
      BY <2>1, <3>1, FS_Surjection
  <2> QED
    BY <1>0, <2>2, PageOf
<1> HIDE DEF P
<1>3. b \in Seq(Frame) /\ \A i \in 1 .. Len(b) : b[i].t = "data" /\ b[i].m = r.m
  <2>1. Cardinality(P) \in Nat /\ b \in [1 .. Cardinality(P) -> P]
    BY <1>2, SetToSeqOf
  <2> HIDE DEF b
  <2>2. b \in Seq(P) /\ Len(b) = Cardinality(P)
    BY <2>1
  <2>3. b \in Seq(Frame)
    BY <1>2, <2>2, SeqMonotonic
  <2> QED
    BY <1>2, <2>2, <2>3, ElementOfSeq
<1> HIDE DEF a, b
<1>4. Burst(q, r.m)
  BY <1>0, <1>1, <1>3, PagesBurst DEF a
<1>5. q[Len(q)].t # "plain"
  <2>1. a \o b \in Seq(Frame) /\ F("done", r.m) \in Frame
    BY <1>0, <1>1, <1>3, ConcatProperties, FrameOf DEF Sorts
  <2>2. q = Append(a \o b, F("done", r.m))
    BY <2>1, AppendIsConcat
  <2>3. Len(q) = Len(a \o b) + 1 /\ q[Len(q)] = F("done", r.m)
    BY <2>1, <2>2, Grown
  <2> QED
    BY <1>0, <2>3, FrameOf DEF Sorts
<1>6. Again(r) = q
  BY DEF Again, a, b, P
<1> HIDE DEF q
<1>7. \A i \in 1 .. Len(q) : q[i].t \in {"begin", "data", "done"}
  <2>1. Len(q) \in Nat
    BY <1>4, LenProperties DEF Burst
  <2> QED
    BY <1>4, <1>5, <2>1 DEF Burst
<1> QED
  BY <1>4, <1>6, <1>7

\* A burst is in line, and what it begins it ends.
LEMMA BurstInLine ==
    ASSUME NEW b, NEW m, Burst(b, m)
    PROVE  /\ b \in Seq(Frame) /\ Len(b) \in Nat \ {0} /\ \A a : InLine(b, a)
           /\ \A f \in ToSet(b) : f \in Frame /\ f.m = m
           /\ \A f \in ToSet(b) : f.t \in {"begin", "data"} => F("done", m) \in ToSet(b)
<1>1. b \in Seq(Frame) /\ b # <<>> /\ Len(b) \in Nat \ {0} /\ DOMAIN b = 1 .. Len(b)
      /\ \A i \in 1 .. Len(b) : b[i] \in Frame
  BY EmptySeq, LenProperties, ElementOfSeq DEF Burst
<1>2. ASSUME NEW a PROVE InLine(b, a)
  BY <1>1 DEF Burst, InLine, Before, Urgents
<1>3. ToSet(b) = {b[i] : i \in 1 .. Len(b)}
  BY <1>1 DEF ToSet
<1>4. ASSUME NEW i \in 1 .. Len(b), b[i].t \in {"begin", "data"} PROVE F("done", m) \in ToSet(b)
  <2>0. b[Len(b)].t \in {"done", "plain"}
    BY DEF Burst
  <2>1. i # Len(b) /\ 1 < Len(b)
    <3>1. i # Len(b)
      BY <1>4, <2>0
    <3>2. Len(b) \in Nat /\ i \in 1 .. Len(b)
      BY <1>1
    <3> DEFINE l == Len(b)
    <3>3. l \in Nat /\ i \in 1 .. l /\ i # l
      BY <3>1, <3>2
    <3> HIDE DEF l
    <3>4. 1 < l
      BY <3>3
    <3> QED
      BY <3>1, <3>4 DEF l
  <2>2. b[Len(b)].t = "done" /\ b[Len(b)].m = m /\ b[Len(b)].p = 0 /\ b[Len(b)] \in Frame
    <3>1. Len(b) \in 1 .. Len(b)
      BY <1>1
    <3>2. b[Len(b)].t = "done"
      BY <2>1 DEF Burst
    <3> QED
      BY <1>1, <3>1, <3>2 DEF Burst
  <2>3. b[Len(b)] = F("done", m)
    BY <2>2 DEF Frame, F
  <2> QED
    BY <1>1, <1>3, <2>3
<1> QED
  BY <1>1, <1>2, <1>3, <1>4 DEF Burst

-----------------------------------------------------------------------------
(* Messages handed to the hub.                                             *)

LEMMA FrameSeq ==
    ASSUME NEW s \in Seq(Frame)
    PROVE  /\ Len(s) \in Nat /\ DOMAIN s = 1 .. Len(s) /\ \A i \in 1 .. Len(s) : s[i] \in Frame
           /\ ToSet(s) = {s[i] : i \in 1 .. Len(s)} /\ ToSet(s) \subseteq Frame
<1>1. Len(s) \in Nat /\ DOMAIN s = 1 .. Len(s) /\ \A i \in 1 .. Len(s) : s[i] \in Frame
  BY LenProperties, ElementOfSeq
<1>2. ToSet(s) = {s[i] : i \in 1 .. Len(s)}
  BY <1>1 DEF ToSet
<1> QED
  BY <1>1, <1>2

Afloat == OnTheWay \cup Queued

LEMMA QueuedSeq ==
    ASSUME NEW u \in [Urgents -> Seq(Frame)]
    PROVE  \A c \in Urgents :
             /\ u[c] \in Seq(Frame) /\ Len(u[c]) \in Nat /\ ToSet(u[c]) \subseteq Frame
             /\ ToSet(u[c]) = {u[c][i] : i \in 1 .. Len(u[c])}
             /\ \A i \in 1 .. Len(u[c]) : u[c][i] \in ToSet(u[c])
<1>1. \A c \in Urgents : u[c] \in Seq(Frame)
  OBVIOUS
<1> QED
  BY <1>1, FrameSeq

\* Every frame is of a message that was handed over.
LEMMA Known ==
    ASSUME Types, FrameInv
    PROVE  /\ Len(msgs) \in Nat /\ OnTheWay \subseteq Afloat
           /\ \A f \in Afloat : f \in Frame /\ Truthful(f, msgs) /\ f.m \in 0 .. Len(msgs)
<1>1. Len(msgs) \in Nat
  BY LenProperties DEF Types
<1>2. \A f \in Afloat : f \in Frame /\ Truthful(f, msgs)
  <2>1. \A f \in OnTheWay : f \in Frame /\ Truthful(f, msgs)
    BY FrameSeq DEF Types, FrameInv, OnTheWay
  <2>2. \A f \in Queued : f \in Frame /\ Truthful(f, msgs)
    <3> SUFFICES ASSUME NEW c \in Urgents, NEW f \in ToSet(urgent[c])
                 PROVE  f \in Frame /\ Truthful(f, msgs)
      BY DEF Queued
    <3>1. ToSet(urgent[c]) \subseteq Frame
      BY QueuedSeq DEF Types
    <3> QED
      BY <3>1 DEF FrameInv
  <2> QED
    BY <2>1, <2>2 DEF Afloat
<1> QED
  BY <1>1, <1>2 DEF Truthful, Sent, Afloat

LEMMA MessageMore ==
    ASSUME NEW ms \in Seq(Kinds), NEW k \in Kinds
    PROVE  LET new == Append(ms, k) IN
           /\ new \in Seq(Kinds) /\ Len(ms) \in Nat /\ Len(new) = Len(ms) + 1 /\ new[Len(ms) + 1] = k
           /\ \A m \in 1 .. Len(ms) : new[m] = ms[m]
           /\ \A m : Sent(ms, m) => Sent(new, m)
           /\ \A f : Truthful(f, ms) => Truthful(f, new)
<1> DEFINE new == Append(ms, k)
<1>1. /\ new \in Seq(Kinds) /\ Len(ms) \in Nat /\ Len(new) = Len(ms) + 1 /\ new[Len(ms) + 1] = k
      /\ \A m \in 1 .. Len(ms) : new[m] = ms[m]
  BY Grown
<1> HIDE DEF new
<1>2. \A m \in 1 .. Len(ms) : m \in 1 .. Len(new)
  BY <1>1
<1>3. \A m : Sent(ms, m) => Sent(new, m)
  BY <1>1, <1>2 DEF Sent
<1>4. \A f : Truthful(f, ms) => Truthful(f, new)
  BY <1>1, <1>2, <1>3 DEF Truthful
<1> QED
  BY <1>1, <1>3, <1>4 DEF new

\* One message more, and frames of it alone, or none.
LEMMA NewMessage ==
    ASSUME IInv, NEW k \in Kinds, msgs' = Append(msgs, k),
           UNCHANGED <<open, held, back, parts, delivered, hist>>,
           NEW N, OnTheWay' \cup Queued' \subseteq Afloat \cup N,
           OnTheWay \subseteq OnTheWay', OnTheWay' \subseteq OnTheWay \cup N,
           F("hello", 0) \in ToSet(wire') <=> F("hello", 0) \in ToSet(wire),
           \A f \in N : /\ f \in Frame /\ f.m = Len(msgs) + 1
                        /\ f.t \in {"begin", "data"} => F("done", f.m) \in OnTheWay'
PROVE  /\ EndInv' /\ AskInv' /\ PartInv' /\ GoneInv' /\ GreetInv' /\ AgeInv'
           /\ DeliveredOnceAndWhole' /\ OrderKept' /\ NothingWaitsInVain'
<1>1. /\ Len(msgs) \in Nat /\ Len(msgs') = Len(msgs) + 1 /\ msgs'[Len(msgs) + 1] = k
      /\ \A m \in 1 .. Len(msgs) : msgs'[m] = msgs[m]
      /\ \A m : Sent(msgs, m) => Sent(msgs', m)
  BY MessageMore DEF IInv, Types
<1>2. \A f \in N : ~Sent(msgs, f.m) /\ f.m \notin 1 .. Len(msgs)
  BY <1>1 DEF Sent
<1>3. EndInv'
  BY DEF IInv, EndInv
<1>4. AskInv'
  BY <1>1, <1>2 DEF IInv, AskInv
<1>5. PartInv'
  <2>1. Ids(parts)' = Ids(parts) /\ TooMuch(parts)' = TooMuch(parts) /\ Apart(parts)' = Apart(parts)
    BY DEF Ids, TooMuch, Total, ToSet, Apart
  <2> QED
    BY <1>1, <2>1 DEF IInv, PartInv
<1>6. GoneInv'
  <2> SUFFICES ASSUME NEW i \in 1 .. Len(delivered)
               PROVE  LET d == delivered[i].m IN
                      /\ d \in 1 .. Len(msgs')
                      /\ d \notin Ids(parts)
                      /\ \A f \in OnTheWay' \cup Queued' : f.m # d
                      /\ \A n \in 1 .. Len(back) : back[n].t = "nack" => back[n].m # d
    BY DEF GoneInv, Ids
  <2> DEFINE d == delivered[i].m
  <2>1. /\ d \in 1 .. Len(msgs) /\ d \notin Ids(parts) /\ \A f \in Afloat : f.m # d
        /\ \A n \in 1 .. Len(back) : back[n].t = "nack" => back[n].m # d
    BY DEF IInv, GoneInv, Afloat
  <2> HIDE DEF d
  <2>2. d \in 1 .. Len(msgs')
    BY <1>1, <2>1
  <2>3. \A f \in OnTheWay' \cup Queued' : f.m # d
    BY <1>2, <2>1
  <2> QED
    BY <2>1, <2>2, <2>3 DEF d
<1>7. GreetInv'
  <2>1. Ids(parts)' = Ids(parts)
    BY DEF Ids
  <2>2. \A m \in Ids(parts) : Sent(msgs, m)
    BY DEF IInv, PartInv
  <2> QED
    BY <1>2, <2>1, <2>2 DEF IInv, GreetInv, ToSet
<1>8. \A i \in 1 .. Len(delivered) : delivered[i].m \in 1 .. Len(msgs)
                                     /\ Class(delivered[i].m)' = Class(delivered[i].m)
  BY <1>1 DEF IInv, GoneInv, Class
<1>9. AgeInv'
  <2> SUFFICES ASSUME NEW i \in 1 .. Len(delivered), NEW f \in OnTheWay' \cup Queued'
               PROVE  LET d == delivered[i].m IN
                      /\ Class(d) = "bulk" /\ f.t \in {"done", "plain"} => d < f.m \/ f.m \in hist.resent
                      /\ f.t \in Urgents /\ Class(d) = f.t => d < f.m
    BY <1>8 DEF AgeInv
  <2>1. CASE f \in Afloat
    BY <2>1 DEF IInv, AgeInv, Afloat
  <2>2. CASE f \in N
    BY <1>1, <1>8, <2>2
  <2> QED
    BY <2>1, <2>2
<1>10. DeliveredOnceAndWhole'
  BY DEF IInv, DeliveredOnceAndWhole
<1>11. DOMAIN delivered = 1 .. Len(delivered)
  BY LenProperties DEF IInv, Types
<1>12. OrderKept'
  BY <1>8, <1>11 DEF IInv, OrderKept
<1>13. NothingWaitsInVain'
  <2>1. Ids(parts)' = Ids(parts)
    BY DEF Ids
  <2> QED
    BY <2>1 DEF IInv, NothingWaitsInVain, ToSet
<1> QED
  BY <1>3, <1>4, <1>5, <1>6, <1>7, <1>9, <1>10, <1>12, <1>13

\* A frame of a message that was handed over last comes after all others.
LEMMA LastInLine ==
    ASSUME IInv, NEW f \in Afloat, NEW g, g.m = Len(msgs) + 1, g.t # "hello", NEW a
    PROVE  Before(f, g, a)
<1>1. Len(msgs) \in Nat /\ f.m \in 0 .. Len(msgs)
  BY Known DEF IInv
<1> QED
  BY <1>1 DEF Before

LEMMA NoneIs ==
    /\ None \in Frame /\ None.t = "none" /\ None.m = 0
    /\ \A f \in Frame : \A ms : Truthful(f, ms) /\ f.t = "none" => f = None
    /\ \A ms : Truthful(None, ms)
BY DEF None, Frame, Truthful, Sorts, Urgents

\* Whatever has come out of a queue comes before and after nothing in hand.
LEMMA NoneInLine ==
    ASSUME NEW f, NEW ms, NEW a
    PROVE  /\ Truthful(f, ms) => Before(f, None, a)
           /\ f.t # "hello" => Before(None, f, a)
BY NoneIs DEF Before, Truthful, Sent, Urgents

\* Past the queues, or into the queue of its class: only what an urgent message does
\* to the wire and to the queues matters.
LEMMA PastKeeps ==
    ASSUME IInv, NEW c \in Urgents, open, Len(msgs) + 1 <= MaxMessages, msgs' = Append(msgs, c),
           Idle, wire' = Append(wire, F(c, Len(msgs) + 1)), UNCHANGED <<urgent, pumping>>,
           UNCHANGED <<open, bulk, held, back, retained, listed, parts, delivered, hist>>
    PROVE  IInv'
<1> DEFINE m == Len(msgs) + 1  u == F(c, m)  a == hist.resent
<1>1. Types /\ FrameInv /\ LineInv /\ PartInv /\ ClosedInv /\ KeepInv
  BY DEF IInv
<1>2. /\ msgs' \in Seq(Kinds) /\ Len(msgs) \in Nat /\ Len(msgs') = m /\ msgs'[m] = c
      /\ \A x : Sent(msgs, x) => Sent(msgs', x)
      /\ \A f : Truthful(f, msgs) => Truthful(f, msgs')
  BY <1>1, MessageMore DEF Types, Kinds
<1>3. u \in Frame /\ u.t = c /\ u.m = m /\ u.p = 0 /\ Truthful(u, msgs') /\ u.t \notin {"hello", "none"}
  <2>1. u \in Frame /\ u.t = c /\ u.m = m /\ u.p = 0
    BY <1>2, FrameOf DEF Sorts, Urgents
  <2> HIDE DEF u
  <2> QED
    BY <1>2, <2>1 DEF Truthful, Urgents
<1>4. wire \in Seq(Frame) /\ wire' = Append(wire, u)
  BY <1>1 DEF Types
<1>5. \A f \in Afloat : Before(f, u, a)
  <2> HIDE DEF u
  <2> QED
    BY <1>3, LastInLine
<1> HIDE DEF u, m
<1>6. \A i \in 1 .. Len(wire) : wire[i] \in Afloat
  BY <1>4, FrameSeq DEF Afloat, OnTheWay
<1>7. wire' \in Seq(Frame) /\ ToSet(wire') = ToSet(wire) \cup {u}
  BY <1>3, <1>4, Grown
<1>8. bulk = <<>> /\ held = None /\ \A e \in Urgents : Len(urgent[e]) = 0
  BY <1>1 DEF Idle, NoneQueued, ClosedInv
<1>9. Types'
  BY <1>1, <1>2, <1>7 DEF Types, m
<1>10. FrameInv'
  BY <1>1, <1>2, <1>3, <1>7 DEF FrameInv
<1>11. LineInv'
  <2>1. InLine(wire', a)
    BY <1>1, <1>3, <1>4, <1>5, <1>6, LineGrown DEF LineInv
  <2>2. \A i \in 1 .. Len(wire') : Before(wire'[i], held, a)
    <3>1. \A i \in 1 .. Len(wire') : wire'[i] \in ToSet(wire')
      BY <1>7, FrameSeq
    <3>2. \A f \in ToSet(wire') : Truthful(f, msgs')
      BY <1>1, <1>2, <1>3, <1>7 DEF FrameInv
    <3> QED
      BY <1>8, <3>1, <3>2, NoneInLine
  <2>3. Len(bulk) = 0
    BY <1>8
  <2> QED
    BY <1>1, <1>8, <2>1, <2>2, <2>3 DEF LineInv, Ahead
<1>12. KeepInv'
  BY <1>1, <1>2 DEF KeepInv, Single, ToSet
<1>13. ClosedInv'
  BY <1>1 DEF ClosedInv
<1>14. /\ EndInv' /\ AskInv' /\ PartInv' /\ GoneInv' /\ GreetInv' /\ AgeInv'
       /\ DeliveredOnceAndWhole' /\ OrderKept' /\ NothingWaitsInVain'
  <2> DEFINE N == {u}
  <2>1. OnTheWay' = OnTheWay \cup N
    BY <1>7 DEF OnTheWay, ToSet
  <2>2. OnTheWay' \cup Queued' \subseteq Afloat \cup N
    BY <2>1 DEF Afloat, Queued, ToSet
  <2>3. F("hello", 0) \in ToSet(wire') <=> F("hello", 0) \in ToSet(wire)
    BY <1>3, <1>7, FrameOf DEF Sorts
  <2>4. \A f \in N : /\ f \in Frame /\ f.m = Len(msgs) + 1
                     /\ f.t \in {"begin", "data"} => F("done", f.m) \in OnTheWay'
    BY <1>3 DEF m, Urgents
  <2>5. c \in Kinds
    BY DEF Kinds
  <2> HIDE DEF N
  <2> QED
    BY <2>1, <2>2, <2>3, <2>4, <2>5, NewMessage
<1> QED
  BY <1>9, <1>10, <1>11, <1>12, <1>13, <1>14 DEF IInv

LEMMA QueueKeeps ==
    ASSUME IInv, NEW c \in Urgents, open, Len(msgs) + 1 <= MaxMessages, msgs' = Append(msgs, c),
           Queue(c, Len(msgs) + 1),
           UNCHANGED <<open, bulk, held, back, retained, listed, parts, delivered, hist>>
    PROVE  IInv'
<1> DEFINE m == Len(msgs) + 1  u == F(c, m)  a == hist.resent  q == urgent[c]  r == Append(q, u)
<1>1. Types /\ FrameInv /\ LineInv /\ PartInv /\ ClosedInv /\ KeepInv
  BY DEF IInv
<1>2. /\ msgs' \in Seq(Kinds) /\ Len(msgs) \in Nat /\ Len(msgs') = m /\ msgs'[m] = c
      /\ \A x : Sent(msgs, x) => Sent(msgs', x)
      /\ \A f : Truthful(f, msgs) => Truthful(f, msgs')
  BY <1>1, MessageMore DEF Types, Kinds
<1>3. u \in Frame /\ u.t = c /\ u.m = m /\ u.p = 0 /\ Truthful(u, msgs') /\ u.t # "hello"
  <2>1. u \in Frame /\ u.t = c /\ u.m = m /\ u.p = 0
    BY <1>2, FrameOf DEF Sorts, Urgents
  <2> HIDE DEF u
  <2> QED
    BY <1>2, <2>1 DEF Truthful, Urgents
<1>4. /\ wire \in Seq(Frame) /\ urgent \in [Urgents -> Seq(Frame)] /\ q \in Seq(Frame)
  BY <1>1 DEF Types
<1>5. \A f \in Afloat : Before(f, u, a)
  <2> HIDE DEF u
  <2> QED
    BY <1>3, LastInLine
<1>6. urgent' = [urgent EXCEPT ![c] = r] /\ wire' = wire /\ pumping' = TRUE
  BY DEF Queue
<1>7. /\ r \in Seq(Frame) /\ ToSet(r) = ToSet(q) \cup {u} /\ Len(q) \in Nat /\ Len(r) = Len(q) + 1
      /\ \A i \in 1 .. Len(q) : r[i] = q[i]
      /\ r[Len(q) + 1] = u
  <2> HIDE DEF u, q
  <2> QED
    BY <1>3, <1>4, Grown
<1> HIDE DEF u, m, q, r
<1>8. /\ urgent' \in [Urgents -> Seq(Frame)] /\ urgent'[c] = r
      /\ \A e \in Urgents : e # c => urgent'[e] = urgent[e]
  BY <1>4, <1>6, <1>7
<1>9. /\ \A i \in 1 .. Len(wire) : wire[i] \in Afloat
      /\ \A i \in 1 .. Len(q) : q[i] \in Afloat
      /\ held \in Afloat
  BY <1>4, FrameSeq DEF Afloat, OnTheWay, Queued, q
<1>10. Types'
  BY <1>1, <1>2, <1>6, <1>8 DEF Types, m
<1>11. FrameInv'
  <2>1. \A e \in Urgents : \A f \in ToSet(urgent'[e]) : Truthful(f, msgs') /\ f.t = e
    BY <1>1, <1>2, <1>3, <1>7, <1>8 DEF FrameInv, q
  <2> QED
    BY <1>1, <1>2, <1>6, <2>1 DEF FrameInv
<1>12. LineInv'
  <2>1. InLine(r, a)
    BY <1>1, <1>3, <1>4, <1>5, <1>9, LineGrown DEF LineInv, q, r
  <2>2. Ahead(wire, r, a)
    BY <1>1, <1>3, <1>4, <1>5, <1>9, AheadGrown DEF LineInv, q, r
  <2>3. \A j \in 1 .. Len(r) : Before(held, r[j], a)
    <3>1. \A j \in 1 .. Len(r) : j \in 1 .. Len(q) \/ j = Len(q) + 1
      BY <1>7
    <3>2. \A j \in 1 .. Len(q) : Before(held, q[j], a)
      BY <1>1 DEF LineInv, q
    <3> QED
      BY <1>5, <1>7, <1>9, <3>1, <3>2
  <2>4. \A e \in Urgents : /\ InLine(urgent'[e], a) /\ Ahead(wire, urgent'[e], a)
                           /\ \A j \in 1 .. Len(urgent'[e]) : Before(held, urgent'[e][j], a)
    BY <1>1, <1>8, <2>1, <2>2, <2>3 DEF LineInv
  <2> QED
    BY <1>1, <1>6, <2>4 DEF LineInv
<1>13. KeepInv'
  BY <1>1, <1>2 DEF KeepInv, Single, ToSet
<1>14. ClosedInv'
  BY <1>6 DEF ClosedInv
<1>15. /\ EndInv' /\ AskInv' /\ PartInv' /\ GoneInv' /\ GreetInv' /\ AgeInv'
       /\ DeliveredOnceAndWhole' /\ OrderKept' /\ NothingWaitsInVain'
  <2> DEFINE N == {u}
  <2>1. OnTheWay' = OnTheWay
    BY <1>6 DEF OnTheWay, ToSet
  <2>2. OnTheWay' \cup Queued' \subseteq Afloat \cup N
    <3>1. \A e \in Urgents : ToSet(urgent'[e]) \subseteq ToSet(urgent[e]) \cup N
      BY <1>7, <1>8 DEF q
    <3> QED
      BY <2>1, <3>1 DEF Afloat, Queued
  <2>3. F("hello", 0) \in ToSet(wire') <=> F("hello", 0) \in ToSet(wire)
    BY <1>6
  <2>4. \A f \in N : /\ f \in Frame /\ f.m = Len(msgs) + 1
                     /\ f.t \in {"begin", "data"} => F("done", f.m) \in OnTheWay'
    BY <1>3 DEF m, Urgents
  <2>5. c \in Kinds
    BY DEF Kinds
  <2> HIDE DEF N
  <2> QED
    BY <2>1, <2>2, <2>3, <2>4, <2>5, NewMessage
<1> QED
  BY <1>10, <1>11, <1>12, <1>13, <1>14, <1>15 DEF IInv

LEMMA SendUrgentKeeps ==
    ASSUME IInv, NEW c \in Urgents, SendUrgent(c)
    PROVE  IInv'
BY PastKeeps, QueueKeeps DEF SendUrgent

LEMMA SendPriorityKeeps ==
    ASSUME IInv, SendPriority
    PROVE  IInv'
BY QueueKeeps DEF SendPriority, Urgents

\* The bulk queue takes all or nothing.
LEMMA AdmittedAll ==
    ASSUME bulk \in Seq(Frame), Len(bulk) <= BulkLimit, NEW b, NEW m, Burst(b, m)
    PROVE  /\ Admitted(b) \in Seq(Frame) /\ Len(Admitted(b)) <= BulkLimit
           /\ Admitted(b) # bulk => Admitted(b) = bulk \o b
<1>1. b \in Seq(Frame)
  BY DEF Burst
<1>2. bulk \o b \in Seq(Frame) /\ Len(bulk \o b) = Len(bulk) + Len(b)
  BY <1>1, ConcatProperties
<1> QED
  BY <1>2 DEF Admitted

LEMMA SendBulkKeeps ==
    ASSUME IInv, NEW k \in {"plain", "transfer"}, SendBulk(k)
    PROVE  IInv'
<1> DEFINE m == Len(msgs) + 1  b == Frames(k, m)  a == hist.resent
<1>1. Types /\ FrameInv /\ LineInv /\ PartInv /\ ClosedInv /\ KeepInv
  BY DEF IInv
<1>2. /\ open /\ m <= MaxMessages /\ msgs' = Append(msgs, k) /\ bulk' = Admitted(b)
      /\ retained' = IF k = "transfer" /\ bulk' # bulk THEN Keep(m) ELSE retained
      /\ UNCHANGED <<open, urgent, held, wire, back, listed, parts, delivered, hist>>
      /\ pumping' = (pumping \/ bulk' # bulk)
  BY DEF SendBulk
<1>3. /\ msgs' \in Seq(Kinds) /\ Len(msgs) \in Nat /\ Len(msgs') = m /\ msgs'[m] = k
      /\ \A x : Sent(msgs, x) => Sent(msgs', x)
      /\ \A f : Truthful(f, msgs) => Truthful(f, msgs')
      /\ m \in Nat \ {0} /\ k \in Kinds
  BY <1>1, <1>2, MessageMore DEF Types, Kinds, Urgents
<1>4. /\ Burst(b, m)
      /\ \A i \in 1 .. Len(b) : b[i].t \in IF k = "transfer" THEN {"begin", "data", "done"} ELSE {"plain"}
  BY <1>3, FramesBurst
<1> HIDE DEF b
<1>5. /\ b \in Seq(Frame) /\ Len(b) \in Nat /\ InLine(b, a)
      /\ \A f \in ToSet(b) : f \in Frame /\ f.m = m
      /\ \A f \in ToSet(b) : f.t \in {"begin", "data"} => F("done", m) \in ToSet(b)
  BY <1>4, BurstInLine
<1>6. \A f \in ToSet(b) : /\ Truthful(f, msgs')
                          /\ f.t \in IF k = "transfer" THEN {"begin", "data", "done"} ELSE {"plain"}
  <2>1. ToSet(b) = {b[i] : i \in 1 .. Len(b)}
    BY <1>5, FrameSeq
  <2>2. \A f \in ToSet(b) : /\ f.m = m /\ (f.t # "data" => f.p = 0)
                            /\ f.t \in IF k = "transfer" THEN {"begin", "data", "done"} ELSE {"plain"}
    BY <1>4, <2>1 DEF Burst
  <2> QED
    BY <1>3, <2>2 DEF Truthful, Sent
<1>7. bulk \in Seq(Frame) /\ wire \in Seq(Frame) /\ urgent \in [Urgents -> Seq(Frame)] /\ Len(bulk) <= BulkLimit
  BY <1>1 DEF Types
<1>8. /\ \A i \in 1 .. Len(wire) : wire[i] \in Afloat
      /\ \A i \in 1 .. Len(bulk) : bulk[i] \in Afloat
      /\ held \in Afloat
  BY <1>7, FrameSeq DEF Afloat, OnTheWay
<1>9. ASSUME NEW f \in Afloat PROVE \A i \in 1 .. Len(b) : Before(f, b[i], a)
  <2>1. \A i \in 1 .. Len(b) : b[i].m = m /\ b[i].t # "hello"
    BY <1>4 DEF Burst
  <2> HIDE DEF a
  <2> QED
    BY <2>1, LastInLine DEF m
<1>10. KeepInv' /\ retained' \in Seq(Nat)
  <2>1. Single(retained) /\ Len(retained) <= RetainLimit /\ retained \in Seq(Nat)
        /\ \A x \in ToSet(retained) : Sent(msgs, x)
    BY <1>1 DEF KeepInv, Types
  <2>2. CASE k = "transfer" /\ bulk' # bulk
    <3>1. m \notin ToSet(retained)
      BY <1>3, <2>1 DEF Sent
    <3>2. /\ Keep(m) \in Seq(Nat) /\ Single(Keep(m))
          /\ Len(Keep(m)) <= RetainLimit /\ ToSet(Keep(m)) \subseteq ToSet(retained) \cup {m}
      BY <1>3, <2>1, <3>1, KeptOne
    <3>3. Sent(msgs', m)
      BY <1>3, <2>2 DEF Sent
    <3> HIDE DEF m
    <3>4. retained' = Keep(m)
      BY <1>2, <2>2
    <3>5. \A x \in ToSet(retained') : Sent(msgs', x)
      BY <1>3, <2>1, <3>2, <3>3, <3>4
    <3>6. retained' \in Seq(Nat) /\ Single(retained') /\ Len(retained') <= RetainLimit
      BY <3>2, <3>4
    <3> QED
      BY <3>5, <3>6 DEF KeepInv, Single, ToSet
  <2>3. CASE ~(k = "transfer" /\ bulk' # bulk)
    <3>1. retained' = retained
      BY <1>2, <2>3
    <3> QED
      BY <1>3, <2>1, <3>1 DEF KeepInv, Single, ToSet
  <2> QED
    BY <2>2, <2>3
<1>11. bulk' \in Seq(Frame) /\ Len(bulk') <= BulkLimit /\ (bulk' # bulk => bulk' = bulk \o b)
  BY <1>2, <1>4, <1>7, AdmittedAll
<1>12. Types'
  <2>1. pumping' \in BOOLEAN
    BY <1>2
  <2> QED
    BY <1>1, <1>2, <1>3, <1>10, <1>11, <2>1 DEF Types
<1>13. ClosedInv'
  BY <1>1, <1>2 DEF ClosedInv
<1> HIDE DEF m
<1>14. CASE bulk' = bulk
  <2>1. FrameInv'
    BY <1>1, <1>2, <1>3, <1>14 DEF FrameInv
  <2>2. LineInv'
    BY <1>1, <1>2, <1>14 DEF LineInv
  <2>3. /\ EndInv' /\ AskInv' /\ PartInv' /\ GoneInv' /\ GreetInv' /\ AgeInv'
        /\ DeliveredOnceAndWhole' /\ OrderKept' /\ NothingWaitsInVain'
    <3> DEFINE N == {}
    <3>1. OnTheWay' = OnTheWay
      BY <1>2, <1>14 DEF OnTheWay, ToSet
    <3>2. OnTheWay' \cup Queued' \subseteq Afloat \cup N
      BY <1>2, <3>1 DEF Afloat, Queued, ToSet
    <3>3. F("hello", 0) \in ToSet(wire') <=> F("hello", 0) \in ToSet(wire)
      BY <1>2
    <3>4. \A f \in N : /\ f \in Frame /\ f.m = Len(msgs) + 1
                       /\ f.t \in {"begin", "data"} => F("done", f.m) \in OnTheWay'
OBVIOUS
    <3> HIDE DEF N
    <3> QED
      BY <1>2, <1>3, <3>1, <3>2, <3>3, <3>4, NewMessage
  <2> QED
    BY <1>10, <1>12, <1>13, <2>1, <2>2, <2>3 DEF IInv
<1>15. CASE bulk' = bulk \o b
  <2>0. ToSet(bulk') = ToSet(bulk) \cup ToSet(b)
    BY <1>5, <1>7, <1>15, Joint
  <2>1. FrameInv'
    BY <1>1, <1>2, <1>3, <1>6, <2>0 DEF FrameInv
  <2>2. LineInv'
    <3>1. InLine(bulk', a)
      <4>1. Ahead(bulk, b, a)
        BY <1>8, <1>9 DEF Ahead
      <4> QED
        BY <1>1, <1>5, <1>7, <1>15, <4>1, LineJoint DEF LineInv
    <3>2. Ahead(wire, bulk', a)
      <4>1. Ahead(wire, b, a)
        BY <1>8, <1>9 DEF Ahead
      <4> QED
        BY <1>1, <1>5, <1>7, <1>15, <4>1, AheadJoint DEF LineInv
    <3>3. \A j \in 1 .. Len(bulk') : Before(held, bulk'[j], a)
      <4>1. ToSet(bulk') = {bulk'[j] : j \in 1 .. Len(bulk')} /\ ToSet(bulk) = {bulk[j] : j \in 1 .. Len(bulk)}
            /\ ToSet(b) = {b[j] : j \in 1 .. Len(b)}
        BY <1>5, <1>7, <1>11, FrameSeq
      <4>2. \A f \in ToSet(bulk) : Before(held, f, a)
        BY <1>1, <4>1 DEF LineInv
      <4>3. \A f \in ToSet(b) : Before(held, f, a)
        BY <1>8, <1>9, <4>1
      <4> HIDE DEF a
      <4> QED
        BY <2>0, <4>1, <4>2, <4>3
    <3>4. hist' = hist
      BY <1>2
    <3> QED
      BY <1>1, <1>2, <3>1, <3>2, <3>3, <3>4 DEF LineInv
  <2>3. /\ EndInv' /\ AskInv' /\ PartInv' /\ GoneInv' /\ GreetInv' /\ AgeInv'
        /\ DeliveredOnceAndWhole' /\ OrderKept' /\ NothingWaitsInVain'
    <3> DEFINE N == ToSet(b)
    <3>1. OnTheWay' = OnTheWay \cup N
      BY <1>2, <2>0 DEF OnTheWay, ToSet
    <3>2. OnTheWay' \cup Queued' \subseteq Afloat \cup N
      BY <1>2, <3>1 DEF Afloat, Queued, ToSet
    <3>3. F("hello", 0) \in ToSet(wire') <=> F("hello", 0) \in ToSet(wire)
      BY <1>2
    <3>4. \A f \in N : /\ f \in Frame /\ f.m = Len(msgs) + 1
                       /\ f.t \in {"begin", "data"} => F("done", f.m) \in OnTheWay'
BY <1>5, <1>6, <3>1 DEF m
    <3> HIDE DEF N
    <3> QED
      BY <1>2, <1>3, <3>1, <3>2, <3>3, <3>4, NewMessage
  <2> QED
    BY <1>10, <1>12, <1>13, <2>1, <2>2, <2>3 DEF IInv
<1> QED
  BY <1>11, <1>14, <1>15

-----------------------------------------------------------------------------
(* The pump.                                                               *)

\* Frames move on.
LEMMA Moved ==
    ASSUME IInv, UNCHANGED <<open, msgs, back, parts, delivered, hist>>,
           Afloat' \subseteq Afloat \cup {None},
           NEW U \in SUBSET Queued, OnTheWay' \subseteq OnTheWay \cup U \cup {None},
           OnTheWay \subseteq OnTheWay' \cup {None},
           F("hello", 0) \in ToSet(wire') <=> F("hello", 0) \in ToSet(wire)
    PROVE  /\ EndInv' /\ AskInv' /\ PartInv' /\ GoneInv' /\ GreetInv' /\ AgeInv'
           /\ DeliveredOnceAndWhole' /\ OrderKept' /\ NothingWaitsInVain'
<1>1. None.t = "none" /\ None.m = 0 /\ \A k, m : k # "none" => F(k, m) # None
  BY DEF None, F
<1>2. \A f \in U : f.t \in Urgents /\ ~Sent(msgs, f.m)
  BY DEF IInv, FrameInv, Truthful, Sent, Queued, Urgents
<1>3. ~Sent(msgs, 0)
  <2>1. Len(msgs) \in Nat
    BY LenProperties DEF IInv, Types
  <2> QED
    BY <2>1 DEF Sent
<1>4. EndInv'
  BY <1>1, <1>2 DEF IInv, EndInv, Urgents
<1>5. AskInv'
  BY <1>1, <1>2, <1>3 DEF IInv, AskInv
<1>6. PartInv'
  <2>1. Ids(parts)' = Ids(parts) /\ TooMuch(parts)' = TooMuch(parts) /\ Apart(parts)' = Apart(parts)
    BY DEF Ids, TooMuch, Total, ToSet, Apart
  <2> QED
    BY <2>1 DEF IInv, PartInv
<1>7. GoneInv'
  <2>1. Ids(parts)' = Ids(parts)
    BY DEF Ids
  <2>2. \A f \in Afloat' : f \in Afloat \/ f.m = 0
    BY <1>1
  <2>3. \A i \in 1 .. Len(delivered) : delivered[i].m # 0
    <3>1. Len(msgs) \in Nat
      BY LenProperties DEF IInv, Types
    <3> QED
      BY <3>1 DEF IInv, GoneInv
  <2> QED
    BY <2>1, <2>2, <2>3 DEF IInv, GoneInv, Afloat, ToSet
<1>8. GreetInv'
  <2>1. Ids(parts)' = Ids(parts)
    BY DEF Ids
  <2>2. \A m \in Ids(parts) : Sent(msgs, m)
    BY DEF IInv, PartInv
  <2>3. \A f \in OnTheWay' : f \in OnTheWay \/ ~Sent(msgs, f.m)
    BY <1>1, <1>2, <1>3
  <2> QED
    BY <2>1, <2>2, <2>3 DEF IInv, GreetInv, ToSet
<1>9. AgeInv'
  <2>1. \A f \in Afloat' : f \in Afloat \/ f.t = "none"
    BY <1>1
  <2> QED
    BY <2>1 DEF IInv, AgeInv, Afloat, Class, Urgents
<1>10. DeliveredOnceAndWhole' /\ OrderKept'
  BY DEF IInv, DeliveredOnceAndWhole, OrderKept, Class
<1>11. NothingWaitsInVain'
  <2>1. Ids(parts)' = Ids(parts)
    BY DEF Ids
  <2> QED
    BY <1>1, <2>1 DEF IInv, NothingWaitsInVain, ToSet
<1> QED
  BY <1>4, <1>5, <1>6, <1>7, <1>8, <1>9, <1>10, <1>11

LEMMA PumpTakesKeeps ==
    ASSUME IInv, PumpTakes
    PROVE  IInv'
<1> DEFINE a == hist.resent
<1>1. Types /\ FrameInv /\ LineInv /\ ClosedInv /\ KeepInv
  BY DEF IInv
<1>2. /\ held = None /\ pumping
      /\ UNCHANGED <<open, msgs, pumping, wire, back, retained, listed, parts, delivered, hist>>
      /\ \/ \E c \in Urgents : /\ urgent[c] # <<>> /\ held' = Head(urgent[c])
                               /\ urgent' = [urgent EXCEPT ![c] = Tail(@)] /\ bulk' = bulk
         \/ urgent = NoneQueued /\ bulk # <<>> /\ held' = Head(bulk) /\ bulk' = Tail(bulk) /\ urgent' = urgent
  BY DEF PumpTakes, TakesFrom, TakesBulk, Urgents
<1>3. wire \in Seq(Frame) /\ urgent \in [Urgents -> Seq(Frame)] /\ bulk \in Seq(Frame)
  BY <1>1 DEF Types
<1>4. KeepInv' /\ hist' = hist
  BY <1>1, <1>2 DEF KeepInv, Single, ToSet
<1>5. ClosedInv'
  BY <1>1, <1>2 DEF ClosedInv, NoneQueued
<1>6. ASSUME NEW c \in Urgents, urgent[c] # <<>>, held' = Head(urgent[c]),
             urgent' = [urgent EXCEPT ![c] = Tail(@)], bulk' = bulk
      PROVE  IInv'
  <2> DEFINE q == urgent[c]  r == Tail(q)  u == Head(q)
  <2>1. /\ q \in Seq(Frame) /\ r \in Seq(Frame) /\ u \in Frame
        /\ ToSet(q) = ToSet(r) \cup {u}
    BY <1>3, <1>6, Shrunk
  <2>2. /\ urgent' \in [Urgents -> Seq(Frame)] /\ urgent'[c] = r /\ q = urgent[c] /\ held' = u
        /\ \A e \in Urgents : e # c => urgent'[e] = urgent[e]
    BY <1>3, <1>6, <2>1
  <2>3. /\ InLine(r, a) /\ \A i \in 1 .. Len(r) : Before(u, r[i], a)
        /\ Ahead(wire, r, a) /\ \A i \in 1 .. Len(wire) : Before(wire[i], u, a)
    BY <1>1, <1>3, <1>6, <2>1, LineShrunk, AheadShrunk DEF LineInv
  <2> HIDE DEF q, r, u
  <2>4. u \in Queued /\ Truthful(u, msgs) /\ u.t = c
    BY <1>1, <2>1, <2>2 DEF FrameInv, Queued
  <2>5. Types'
    BY <1>1, <1>2, <1>6, <2>1, <2>2 DEF Types
  <2>6. FrameInv'
    <3>1. \A e \in Urgents : \A f \in ToSet(urgent'[e]) : Truthful(f, msgs) /\ f.t = e
      BY <1>1, <2>1, <2>2 DEF FrameInv
    <3>2. u.t \notin {"hello", "abort"}
      BY <2>4 DEF Urgents
    <3> QED
      BY <1>1, <1>2, <1>6, <2>2, <2>4, <3>1, <3>2 DEF FrameInv
  <2>7. LineInv'
    <3>1. \A j \in 1 .. Len(bulk) : Before(u, bulk[j], a)
      <4>1. \A j \in 1 .. Len(bulk) : bulk[j] \in ToSet(bulk)
        BY <1>3, FrameSeq
      <4>2. \A f \in ToSet(bulk) : f.m # u.m /\ f.t \notin Urgents \cup {"hello"}
        BY <1>1, <2>4 DEF FrameInv, Truthful, Sent, Urgents
      <4> QED
        BY <2>4, <4>1, <4>2 DEF Before, Urgents
    <3>2. \A e \in Urgents : e # c => \A j \in 1 .. Len(urgent[e]) : Before(u, urgent[e][j], a)
      <4>1. \A e \in Urgents : \A j \in 1 .. Len(urgent[e]) : urgent[e][j] \in ToSet(urgent[e])
        BY <1>3, QueuedSeq
      <4>2. \A e \in Urgents : e # c => \A f \in ToSet(urgent[e]) : f.m # u.m /\ f.t # u.t /\ f.t \in Urgents
        BY <1>1, <2>4 DEF FrameInv, Truthful, Urgents
      <4> QED
        BY <2>4, <4>1, <4>2 DEF Before, Urgents
    <3>3. \A e \in Urgents : /\ InLine(urgent'[e], a) /\ Ahead(wire, urgent'[e], a)
                             /\ \A j \in 1 .. Len(urgent'[e]) : Before(u, urgent'[e][j], a)
      BY <1>1, <2>2, <2>3, <3>2 DEF LineInv
    <3> QED
      <4>1. /\ InLine(wire, a)' /\ InLine(bulk, a)' /\ Ahead(wire, bulk, a)'
            /\ \A j \in 1 .. Len(bulk') : Before(held', bulk'[j], hist'.resent)
        BY <1>1, <1>2, <1>4, <1>6, <2>2, <3>1 DEF LineInv
      <4>2. \A e \in Urgents : InLine(urgent[e], a)' /\ Ahead(wire, urgent[e], a)'
        BY <1>2, <1>4, <3>3
      <4>3. \A i \in 1 .. Len(wire') : Before(wire'[i], held', hist'.resent)
        BY <1>2, <1>4, <2>2, <2>3
      <4>4. \A e \in Urgents : \A j \in 1 .. Len(urgent'[e]) : Before(held', urgent'[e][j], hist'.resent)
        BY <1>4, <2>2, <3>3
      <4> QED
        BY <1>4, <4>1, <4>2, <4>3, <4>4 DEF LineInv
  <2>8. /\ EndInv' /\ AskInv' /\ PartInv' /\ GoneInv' /\ GreetInv' /\ AgeInv'
        /\ DeliveredOnceAndWhole' /\ OrderKept' /\ NothingWaitsInVain'
    <3> DEFINE U == {u}
    <3>1. OnTheWay' = (OnTheWay \ {None}) \cup U \/ OnTheWay' = OnTheWay \cup U
      BY <1>2, <1>6, <2>2 DEF OnTheWay, ToSet
    <3>2. Afloat' \subseteq Afloat \cup {None}
      <4>1. \A e \in Urgents : ToSet(urgent'[e]) \subseteq ToSet(urgent[e])
        BY <2>1, <2>2
      <4> QED
        BY <2>4, <3>1, <4>1 DEF Afloat, Queued
    <3>3. U \in SUBSET Queued
      BY <2>4
    <3> HIDE DEF U
    <3> QED
      BY <1>2, <3>1, <3>2, <3>3, Moved
  <2> QED
    BY <1>4, <1>5, <2>5, <2>6, <2>7, <2>8 DEF IInv
<1>7. CASE urgent = NoneQueued /\ bulk # <<>> /\ held' = Head(bulk) /\ bulk' = Tail(bulk) /\ urgent' = urgent
  <2> DEFINE u == Head(bulk)
  <2>1. /\ Tail(bulk) \in Seq(Frame) /\ u \in Frame /\ Len(bulk) \in Nat /\ Len(Tail(bulk)) = Len(bulk) - 1
        /\ ToSet(bulk) = ToSet(Tail(bulk)) \cup {u}
    BY <1>3, <1>7, Shrunk
  <2>2. Truthful(u, msgs) /\ u.t \in {"begin", "data", "done", "plain"}
    BY <1>1, <2>1 DEF FrameInv
  <2>3. Types'
    <3>1. BulkLimit \in Nat
      BY TransferAssumption
    <3>2. pumping' \in BOOLEAN /\ open' \in BOOLEAN /\ listed' \in BOOLEAN
      BY <1>1, <1>2 DEF Types
    <3>3. Len(bulk') <= BulkLimit
      BY <1>1, <1>7, <2>1, <3>1 DEF Types
    <3> QED
      BY <1>1, <1>2, <1>7, <2>1, <3>2, <3>3 DEF Types
  <2>4. FrameInv'
    BY <1>1, <1>2, <1>7, <2>1, <2>2 DEF FrameInv
  <2>5. LineInv'
    <3>1. InLine(Tail(bulk), a) /\ \A i \in 1 .. Len(Tail(bulk)) : Before(u, Tail(bulk)[i], a)
      BY <1>1, <1>3, <1>7, LineShrunk DEF LineInv
    <3>2. Ahead(wire, Tail(bulk), a) /\ \A i \in 1 .. Len(wire) : Before(wire[i], u, a)
      BY <1>1, <1>3, <1>7, AheadShrunk DEF LineInv
    <3>3. \A c \in Urgents : Len(urgent[c]) = 0
      BY <1>7 DEF NoneQueued
    <3> HIDE DEF u
    <3> QED
      BY <1>1, <1>2, <1>4, <1>7, <3>1, <3>2, <3>3 DEF LineInv, u
  <2>6. /\ EndInv' /\ AskInv' /\ PartInv' /\ GoneInv' /\ GreetInv' /\ AgeInv'
        /\ DeliveredOnceAndWhole' /\ OrderKept' /\ NothingWaitsInVain'
    <3> DEFINE U == {}
    <3>1. OnTheWay' \cup {None} = OnTheWay \cup {None}
      BY <1>2, <1>7, <2>1 DEF OnTheWay, ToSet
    <3>2. Afloat' \subseteq Afloat \cup {None}
      BY <1>2, <1>7, <3>1 DEF Afloat, Queued, ToSet
    <3>3. U \in SUBSET Queued
      OBVIOUS
    <3> HIDE DEF U
    <3> QED
      BY <1>2, <3>1, <3>2, <3>3, Moved
  <2> QED
    BY <1>4, <1>5, <2>3, <2>4, <2>5, <2>6 DEF IInv
<1> QED
  BY <1>2, <1>6, <1>7

LEMMA PumpSendsKeeps ==
    ASSUME IInv, PumpSends
    PROVE  IInv'
<1> DEFINE a == hist.resent
<1>1. Types /\ FrameInv /\ LineInv /\ ClosedInv /\ KeepInv
  BY DEF IInv
<1>2. /\ held # None /\ wire' = Append(wire, held) /\ held' = None
      /\ UNCHANGED <<open, msgs, urgent, bulk, pumping, back, retained, listed, parts, delivered, hist>>
  BY DEF PumpSends
<1>3. wire \in Seq(Frame) /\ urgent \in [Urgents -> Seq(Frame)] /\ bulk \in Seq(Frame) /\ held \in Frame
  BY <1>1 DEF Types
<1>4. KeepInv' /\ hist' = hist
  BY <1>1, <1>2 DEF KeepInv, Single, ToSet
<1>5. ClosedInv'
  BY <1>1, <1>2 DEF ClosedInv
<1>6. wire' \in Seq(Frame) /\ ToSet(wire') = ToSet(wire) \cup {held}
  BY <1>2, <1>3, Grown
<1>7. Truthful(held, msgs) /\ held.t \notin {"none", "hello"}
  BY <1>1, <1>2, <1>3, NoneIs DEF FrameInv
<1>8. Types'
  BY <1>1, <1>2, <1>6, NoneIs DEF Types
<1>9. FrameInv'
  BY <1>1, <1>2, <1>6, <1>7, NoneIs DEF FrameInv
<1>10. LineInv'
  <2>1. InLine(wire', a)
    BY <1>1, <1>2, <1>3, LineGrown DEF LineInv
  <2>2. (\A c \in Urgents : Ahead(wire', urgent[c], a)) /\ Ahead(wire', bulk, a)
    BY <1>1, <1>2, <1>3, QueuedSeq, AheadGrown DEF LineInv
  <2>3. \A i \in 1 .. Len(wire') : Before(wire'[i], held', a)
    <3>1. \A i \in 1 .. Len(wire') : wire'[i] \in ToSet(wire')
      BY <1>6, FrameSeq
    <3>2. \A f \in ToSet(wire') : Truthful(f, msgs)
      BY <1>1, <1>6, <1>7 DEF FrameInv
    <3> QED
      BY <1>2, <3>1, <3>2, NoneInLine
  <2>4. /\ \A c \in Urgents : \A j \in 1 .. Len(urgent[c]) : Before(held', urgent[c][j], a)
        /\ \A j \in 1 .. Len(bulk) : Before(held', bulk[j], a)
    <3>1. /\ \A c \in Urgents : \A i \in 1 .. Len(urgent[c]) : urgent[c][i] \in ToSet(urgent[c])
          /\ \A i \in 1 .. Len(bulk) : bulk[i] \in ToSet(bulk)
      BY <1>3, QueuedSeq, FrameSeq
    <3>2. /\ \A c \in Urgents : \A f \in ToSet(urgent[c]) : f.t # "hello"
          /\ \A f \in ToSet(bulk) : f.t # "hello"
      BY <1>1 DEF FrameInv, Urgents
    <3> QED
      BY <1>2, <3>1, <3>2, NoneInLine
  <2> QED
    BY <1>1, <1>2, <1>4, <2>1, <2>2, <2>3, <2>4 DEF LineInv
<1>11. /\ EndInv' /\ AskInv' /\ PartInv' /\ GoneInv' /\ GreetInv' /\ AgeInv'
       /\ DeliveredOnceAndWhole' /\ OrderKept' /\ NothingWaitsInVain'
  <2> DEFINE U == {}
  <2>1. OnTheWay' = OnTheWay \cup {None}
    BY <1>2, <1>6 DEF OnTheWay, ToSet
  <2>2. Afloat' \subseteq Afloat \cup {None}
    BY <1>2, <2>1 DEF Afloat, Queued, ToSet
  <2>3. U \in SUBSET Queued
    OBVIOUS
  <2>4. F("hello", 0) \in ToSet(wire') <=> F("hello", 0) \in ToSet(wire)
    BY <1>6, <1>7, FrameOf DEF Sorts
  <2> HIDE DEF U
  <2> QED
    BY <1>2, <2>1, <2>2, <2>3, <2>4, Moved
<1> QED
  BY <1>4, <1>5, <1>8, <1>9, <1>10, <1>11 DEF IInv

-----------------------------------------------------------------------------
(* What the phone asks for.                                                *)

LEMMA BackSeq ==
    ASSUME NEW s \in Seq(Request)
    PROVE  /\ Len(s) \in Nat /\ DOMAIN s = 1 .. Len(s) /\ \A i \in 1 .. Len(s) : s[i] \in Request
BY LenProperties, ElementOfSeq

\* The first of the requests is answered with frames of its transfer, or not at all.
LEMMA Answered ==
    ASSUME IInv, back # <<>>, back' = Tail(back), UNCHANGED <<open, msgs, urgent, held, parts, delivered>>,
           NEW N, OnTheWay' = OnTheWay \cup N,
           \A f \in N : /\ f.m = Head(back).m /\ Head(back).t = "nack"
                        /\ f.t \in {"begin", "data", "done", "abort"}
                        /\ f.t \in {"begin", "data"} => F("done", f.m) \in N
                        /\ f.t = "done" => f.m \in hist.resent',
           hist.resent \subseteq hist.resent', hist.shunned \subseteq hist.shunned',
           Head(back).t = "nack" => \/ Head(back).m \in hist.shunned'
                                    \/ F("done", Head(back).m) \in N
                                    \/ F("abort", Head(back).m) \in N,
           F("hello", 0) \in ToSet(wire') <=> F("hello", 0) \in ToSet(wire)
    PROVE  /\ EndInv' /\ AskInv' /\ PartInv' /\ GoneInv' /\ GreetInv' /\ AgeInv'
           /\ DeliveredOnceAndWhole' /\ OrderKept' /\ NothingWaitsInVain'
<1> DEFINE r == Head(back)
<1>1. /\ back \in Seq(Request) /\ Tail(back) \in Seq(Request) /\ Len(back) \in Nat \ {0}
      /\ Len(back') = Len(back) - 1 /\ r = back[1] /\ r \in Request
      /\ \A n \in 1 .. Len(back) - 1 : back'[n] = back[n + 1]
  BY Shrunk DEF IInv, Types
<1>2. \A n \in 1 .. Len(back') : n + 1 \in 1 .. Len(back) /\ n + 1 # 1 /\ back'[n] = back[n + 1]
  BY <1>1
<1>3. 1 \in 1 .. Len(back)
  BY <1>1
<1>4. ASSUME r.t = "nack"
      PROVE  /\ Sent(msgs, r.m) /\ \A f \in OnTheWay : f.m # r.m
             /\ \A n \in 1 .. Len(back') : back'[n].t = "nack" => back'[n].m # r.m
             /\ \A i \in 1 .. Len(delivered) : delivered[i].m # r.m
  BY <1>1, <1>2, <1>3, <1>4 DEF IInv, AskInv, GoneInv
<1>5. EndInv'
  BY DEF IInv, EndInv
<1>6. AskInv'
  <2> SUFFICES ASSUME NEW n \in 1 .. Len(back'), back'[n].t = "nack"
               PROVE  /\ Sent(msgs, back'[n].m)
                      /\ \A f \in OnTheWay' : f.m # back'[n].m
                      /\ \A k \in 1 .. Len(back') : back'[k].t = "nack" /\ back'[k].m = back'[n].m => k = n
    BY DEF AskInv
  <2>1. /\ Sent(msgs, back'[n].m) /\ \A f \in OnTheWay : f.m # back'[n].m
        /\ \A k \in 1 .. Len(back) : back[k].t = "nack" /\ back[k].m = back'[n].m => k = n + 1
    BY <1>2 DEF IInv, AskInv
  <2>2. \A f \in N : f.m # back'[n].m
    BY <1>4
  <2>3. \A k \in 1 .. Len(back') : back'[k].t = "nack" /\ back'[k].m = back'[n].m => k + 1 = n + 1
    BY <1>2, <2>1
  <2>4. Len(back') \in Nat
    BY <1>1
  <2>5. \A k \in 1 .. Len(back') : k + 1 = n + 1 => k = n
    BY <2>4
  <2> QED
    BY <2>1, <2>2, <2>3, <2>5
<1>7. PartInv'
  <2>1. Ids(parts)' = Ids(parts) /\ TooMuch(parts)' = TooMuch(parts) /\ Apart(parts)' = Apart(parts)
    BY DEF Ids, TooMuch, Total, ToSet, Apart
  <2> QED
    BY <2>1 DEF IInv, PartInv
<1>8. Ids(parts)' = Ids(parts) /\ Queued' = Queued
  BY DEF Ids, Queued, ToSet
<1>9. GoneInv'
  BY <1>2, <1>4, <1>8 DEF IInv, GoneInv
<1>10. GreetInv'
  BY <1>8 DEF IInv, GreetInv, ToSet
<1>11. AgeInv'
  <2> SUFFICES ASSUME NEW i \in 1 .. Len(delivered), NEW f \in OnTheWay' \cup Queued
               PROVE  LET d == delivered[i].m IN
                      /\ Class(d) = "bulk" /\ f.t \in {"done", "plain"} => d < f.m \/ f.m \in hist.resent'
                      /\ f.t \in Urgents /\ Class(d) = f.t => d < f.m
    BY <1>8 DEF AgeInv, Class
  <2>1. CASE f \in N
    BY <2>1 DEF Urgents
  <2>2. CASE f \in Afloat
    BY <2>2 DEF IInv, AgeInv, Afloat
  <2> QED
    BY <2>1, <2>2 DEF Afloat
<1>12. DeliveredOnceAndWhole' /\ OrderKept'
  BY DEF IInv, DeliveredOnceAndWhole, OrderKept, Class
<1>13. NothingWaitsInVain'
  <2>0. DOMAIN back = 1 .. Len(back) /\ DOMAIN back' = 1 .. Len(back')
    BY <1>1, BackSeq
  <2> SUFFICES ASSUME open, F("hello", 0) \notin ToSet(wire), NEW m \in Ids(parts), m \notin hist.shunned'
               PROVE  \/ F("done", m) \in OnTheWay' \/ F("abort", m) \in OnTheWay'
                      \/ \E n \in 1 .. Len(back') : back'[n].t = "nack" /\ back'[n].m = m
    BY <1>8, <2>0 DEF NothingWaitsInVain, ToSet
  <2>1. \/ F("done", m) \in OnTheWay \/ F("abort", m) \in OnTheWay
        \/ \E n \in 1 .. Len(back) : back[n].t = "nack" /\ back[n].m = m
    BY <2>0 DEF IInv, NothingWaitsInVain
  <2>2. ASSUME NEW n \in 1 .. Len(back), back[n].t = "nack", back[n].m = m, n # 1
        PROVE  \E k \in 1 .. Len(back') : back'[k].t = "nack" /\ back'[k].m = m
    <3>1. n - 1 \in 1 .. Len(back') /\ (n - 1) + 1 = n
      BY <1>1, <2>2
    <3> QED
      BY <1>2, <2>2, <3>1
  <2>3. CASE r.t = "nack" /\ r.m = m
    BY <2>3
  <2> QED
    BY <1>1, <2>1, <2>2, <2>3
<1> QED
  BY <1>5, <1>6, <1>7, <1>9, <1>10, <1>11, <1>12, <1>13

LEMMA HubReceivesKeeps ==
    ASSUME IInv, HubReceives
    PROVE  IInv'
<1> DEFINE r == Head(back)  a == hist.resent
<1>1. Types /\ FrameInv /\ LineInv /\ ClosedInv /\ KeepInv /\ AskInv
  BY DEF IInv
<1>2. /\ back # <<>> /\ back' = Tail(back)
      /\ UNCHANGED <<open, msgs, urgent, held, listed, parts, delivered>>
      /\ \/ /\ r.t = "ack" /\ retained' = RemoveFirst(retained, r.m)
            /\ UNCHANGED <<bulk, wire, hist>>
         \/ /\ r.t = "nack" /\ wire' = Append(wire, F("abort", r.m))
            /\ UNCHANGED <<bulk, retained, hist>>
         \/ /\ r.t = "nack" /\ bulk' = Admitted(Again(r))
            /\ hist' = IF bulk' = bulk THEN [hist EXCEPT !.shunned = @ \cup {r.m}]
                       ELSE [hist EXCEPT !.resent = @ \cup {r.m}]
            /\ UNCHANGED <<wire, retained>>
      /\ pumping' = pumping \/ pumping' = (pumping \/ bulk' # bulk)
  BY DEF HubReceives
<1>3. /\ wire \in Seq(Frame) /\ urgent \in [Urgents -> Seq(Frame)] /\ bulk \in Seq(Frame) /\ held \in Frame
      /\ Len(bulk) <= BulkLimit /\ hist \in History
  BY <1>1 DEF Types
<1>4. back' \in Seq(Request) /\ r \in Request /\ r = back[1] /\ 1 \in 1 .. Len(back)
  <2>1. /\ back \in Seq(Request) /\ Tail(back) \in Seq(Request) /\ Len(back) \in Nat \ {0} /\ r \in Request
        /\ r = back[1]
    BY <1>1, <1>2, Shrunk DEF Types
  <2> QED
    BY <1>2, <2>1
<1>5. ClosedInv' /\ pumping' \in BOOLEAN
  <2>1. pumping \in BOOLEAN
    BY <1>1 DEF Types
  <2>2. pumping' \in BOOLEAN /\ (pumping => pumping')
    <3>1. CASE pumping' = pumping
      BY <2>1, <3>1
    <3>2. CASE pumping' = (pumping \/ bulk' # bulk)
      BY <3>2
    <3> QED
      BY <1>2, <3>1, <3>2
  <2> QED
    BY <1>1, <1>2, <2>2 DEF ClosedInv
<1>6. r.t = "nack" => Sent(msgs, r.m) /\ \A f \in OnTheWay : f.m # r.m
  BY <1>1, <1>4 DEF AskInv
<1>7. r.m \in Nat
  BY <1>4 DEF Request
<1>8. /\ \A i \in 1 .. Len(wire) : wire[i] \in OnTheWay
      /\ \A i \in 1 .. Len(bulk) : bulk[i] \in OnTheWay
      /\ held \in OnTheWay
  BY <1>3, FrameSeq DEF OnTheWay
<1>9. CASE /\ r.t = "ack" /\ retained' = RemoveFirst(retained, r.m)
           /\ UNCHANGED <<bulk, wire, hist>>
  <2>1. retained' \in Seq(Nat) /\ KeepInv'
    <3>1. retained \in Seq(Nat) /\ Single(retained) /\ Len(retained) <= RetainLimit /\ Len(retained) \in Nat
      BY <1>1, NatSeq DEF Types, KeepInv
    <3>2. /\ retained' \in Seq(Nat) /\ Single(retained')
          /\ Len(retained') <= Len(retained) /\ ToSet(retained') \subseteq ToSet(retained)
      BY <1>9, <3>1, FirstGone
    <3>3. Len(retained') <= RetainLimit
      <4>1. Len(retained') \in Nat /\ RetainLimit \in Nat
        BY <3>2, NatSeq, TransferAssumption
      <4> QED
        BY <3>1, <3>2, <4>1
    <3> QED
      BY <1>1, <1>2, <3>2, <3>3 DEF KeepInv, Single, ToSet
  <2>2. Types'
    BY <1>1, <1>2, <1>4, <1>9, <2>1 DEF Types
  <2>3. FrameInv' /\ LineInv'
    BY <1>1, <1>2, <1>9 DEF FrameInv, LineInv
  <2>4. /\ EndInv' /\ AskInv' /\ PartInv' /\ GoneInv' /\ GreetInv' /\ AgeInv'
        /\ DeliveredOnceAndWhole' /\ OrderKept' /\ NothingWaitsInVain'
    <3> DEFINE N == {}
    <3>1. OnTheWay' = OnTheWay \cup N
      BY <1>2, <1>9 DEF OnTheWay, ToSet
    <3>2. \A f \in N : /\ f.m = r.m /\ r.t = "nack"
                       /\ f.t \in {"begin", "data", "done", "abort"}
                       /\ f.t \in {"begin", "data"} => F("done", f.m) \in N
                       /\ f.t = "done" => f.m \in hist.resent'
      OBVIOUS
    <3>3. r.t # "nack"
      BY <1>9
    <3> HIDE DEF N
    <3> QED
      BY <1>2, <1>9, <3>1, <3>2, <3>3, Answered
  <2> QED
    BY <1>5, <2>1, <2>2, <2>3, <2>4 DEF IInv
<1>10. CASE /\ r.t = "nack" /\ wire' = Append(wire, F("abort", r.m))
            /\ UNCHANGED <<bulk, retained, hist>>
  <2> DEFINE g == F("abort", r.m)
  <2>1. g \in Frame /\ g.t = "abort" /\ g.m = r.m /\ g.p = 0
    BY <1>7, FrameOf DEF Sorts
  <2>2. g # F("hello", 0)
    BY <2>1, FrameOf DEF Sorts
  <2>3. F("done", r.m) \notin {g}
    BY <1>7, <2>1, FrameOf DEF Sorts
  <2> HIDE DEF g
  <2>4. wire' = Append(wire, g)
    BY <1>10 DEF g
  <2>5. wire' \in Seq(Frame) /\ ToSet(wire') = ToSet(wire) \cup {g}
    BY <1>3, <2>1, <2>4, Grown
  <2>6. KeepInv'
    BY <1>1, <1>2, <1>10 DEF KeepInv, Single, ToSet
  <2>7. Types'
    BY <1>1, <1>2, <1>4, <1>10, <2>5 DEF Types
  <2>8. FrameInv'
    <3>1. Truthful(g, msgs)
      BY <1>6, <1>10, <2>1 DEF Truthful
    <3> QED
      BY <1>1, <1>2, <1>10, <2>1, <2>5, <3>1 DEF FrameInv
  <2>9. LineInv'
    <3>1. \A f \in OnTheWay : Before(f, g, a)
      BY <1>6, <1>10, <2>1 DEF Before, Urgents
    <3>2. \A f \in OnTheWay : f.t # "hello" => Before(g, f, a)
      BY <1>6, <1>10, <2>1 DEF Before, Urgents
    <3>3. \A f \in Queued : Before(g, f, a)
      <4>1. \A f \in Queued : f.t \in Urgents /\ f.m # r.m
        BY <1>1, <1>6, <1>10 DEF FrameInv, Truthful, Sent, Queued, Urgents
      <4> QED
        BY <2>1, <4>1 DEF Before, Urgents
    <3>4. InLine(wire', a)
      BY <1>1, <1>3, <1>8, <2>1, <2>4, <3>1, LineGrown DEF LineInv
    <3>5. ASSUME NEW c \in Urgents PROVE Ahead(wire', urgent[c], a)
      <4>1. \A j \in 1 .. Len(urgent[c]) : Before(g, urgent[c][j], a)
        BY <1>3, <3>3, QueuedSeq DEF Queued
      <4> QED
        BY <1>1, <1>3, <2>1, <2>4, <4>1, QueuedSeq, AheadGrown DEF LineInv
    <3>6. Ahead(wire', bulk, a)
      <4>1. \A j \in 1 .. Len(bulk) : bulk[j] \in ToSet(bulk)
        BY <1>3, FrameSeq
      <4>2. \A j \in 1 .. Len(bulk) : Before(g, bulk[j], a)
        BY <1>1, <1>8, <3>2, <4>1 DEF FrameInv
      <4> QED
        BY <1>1, <1>3, <2>1, <2>4, <4>2, AheadGrown DEF LineInv
    <3>7. \A i \in 1 .. Len(wire') : Before(wire'[i], held, a)
      <4>1. Before(g, held, a)
        BY <1>1, <1>8, <3>2 DEF FrameInv
      <4>2. /\ Len(wire) \in Nat /\ Len(wire') = Len(wire) + 1
            /\ \A i \in 1 .. Len(wire) : wire'[i] = wire[i]
            /\ wire'[Len(wire) + 1] = g
        BY <1>3, <2>1, <2>4, Grown
      <4>3. \A i \in 1 .. Len(wire') : i \in 1 .. Len(wire) \/ i = Len(wire) + 1
        BY <4>2
      <4> QED
        BY <1>1, <4>1, <4>2, <4>3 DEF LineInv
    <3> QED
      BY <1>1, <1>2, <1>10, <3>4, <3>5, <3>6, <3>7 DEF LineInv
  <2>10. /\ EndInv' /\ AskInv' /\ PartInv' /\ GoneInv' /\ GreetInv' /\ AgeInv'
         /\ DeliveredOnceAndWhole' /\ OrderKept' /\ NothingWaitsInVain'
    <3> DEFINE N == {g}
    <3>1. OnTheWay' = OnTheWay \cup N
      BY <1>2, <1>10, <2>5 DEF OnTheWay, ToSet
    <3>2. \A f \in N : /\ f.m = r.m /\ r.t = "nack"
                       /\ f.t \in {"begin", "data", "done", "abort"}
                       /\ f.t \in {"begin", "data"} => F("done", f.m) \in N
                       /\ f.t = "done" => f.m \in hist.resent'
      BY <1>10, <2>1
    <3>3. F("abort", r.m) \in N
      BY DEF g
    <3>4. F("hello", 0) \in ToSet(wire') <=> F("hello", 0) \in ToSet(wire)
      BY <2>2, <2>5
    <3> HIDE DEF N
    <3> QED
      BY <1>2, <1>10, <3>1, <3>2, <3>3, <3>4, Answered
  <2> QED
    BY <1>5, <2>6, <2>7, <2>8, <2>9, <2>10 DEF IInv
<1>11. CASE /\ r.t = "nack" /\ bulk' = Admitted(Again(r))
            /\ hist' = IF bulk' = bulk THEN [hist EXCEPT !.shunned = @ \cup {r.m}]
                       ELSE [hist EXCEPT !.resent = @ \cup {r.m}]
            /\ UNCHANGED <<wire, retained>>
  <2> DEFINE b == Again(r)
  <2>1. /\ Burst(b, r.m)
        /\ \A i \in 1 .. Len(b) : b[i].t \in {"begin", "data", "done"}
    BY <1>4, AgainBurst
  <2> HIDE DEF b
  <2>2. /\ b \in Seq(Frame) /\ Len(b) \in Nat /\ \A c : InLine(b, c)
        /\ \A f \in ToSet(b) : f \in Frame /\ f.m = r.m
        /\ \A f \in ToSet(b) : f.t \in {"begin", "data"} => F("done", r.m) \in ToSet(b)
    BY <2>1, BurstInLine
  <2>3. bulk' \in Seq(Frame) /\ Len(bulk') <= BulkLimit /\ (bulk' # bulk => bulk' = bulk \o b)
    BY <1>3, <1>11, <2>1, AdmittedAll DEF b
  <2>4. KeepInv'
    BY <1>1, <1>2, <1>11 DEF KeepInv, Single, ToSet
  <2>5. hist' \in History /\ hist.resent \subseteq hist'.resent /\ hist.shunned \subseteq hist'.shunned
        /\ (bulk' = bulk => r.m \in hist'.shunned) /\ (bulk' # bulk => r.m \in hist'.resent)
        /\ (bulk' = bulk => hist'.resent = hist.resent)
    BY <1>3, <1>7, <1>11 DEF History
  <2>6. Types'
    BY <1>1, <1>2, <1>4, <1>11, <2>3, <2>5 DEF Types
  <2>7. CASE bulk' = bulk
    <3>1. FrameInv' /\ LineInv'
      BY <1>1, <1>2, <1>11, <2>5, <2>7 DEF FrameInv, LineInv
    <3>2. /\ EndInv' /\ AskInv' /\ PartInv' /\ GoneInv' /\ GreetInv' /\ AgeInv'
          /\ DeliveredOnceAndWhole' /\ OrderKept' /\ NothingWaitsInVain'
      <4> DEFINE N == {}
      <4>1. OnTheWay' = OnTheWay \cup N
        BY <1>2, <1>11, <2>7 DEF OnTheWay, ToSet
      <4>2. \A f \in N : /\ f.m = r.m /\ r.t = "nack"
                         /\ f.t \in {"begin", "data", "done", "abort"}
                         /\ f.t \in {"begin", "data"} => F("done", f.m) \in N
                         /\ f.t = "done" => f.m \in hist.resent'
        OBVIOUS
      <4> HIDE DEF N
      <4> QED
        BY <1>2, <1>11, <2>5, <2>7, <4>1, <4>2, Answered
    <3> QED
      BY <1>5, <2>4, <2>6, <3>1, <3>2 DEF IInv
  <2>8. CASE bulk' # bulk
    <3>1. bulk' = bulk \o b /\ ToSet(bulk') = ToSet(bulk) \cup ToSet(b)
      <4>1. bulk' = bulk \o b /\ bulk \in Seq(Frame) /\ b \in Seq(Frame)
        BY <1>3, <2>2, <2>3, <2>8
      <4> QED
        BY <4>1, Joint
    <3>2. ToSet(b) = {b[i] : i \in 1 .. Len(b)}
      BY <2>2, FrameSeq
    <3>3. \A f \in ToSet(b) : Truthful(f, msgs) /\ f.t \in {"begin", "data", "done"} /\ f.m = r.m
      BY <1>6, <1>11, <2>1, <3>2 DEF Truthful, Burst
    <3>4. FrameInv'
      BY <1>1, <1>2, <1>11, <3>1, <3>3 DEF FrameInv
    <3> DEFINE c == hist'.resent
    <3>5. LineInv'
      <4>1. /\ InLine(wire, c) /\ InLine(bulk, c) /\ Ahead(wire, bulk, c)
            /\ \A e \in Urgents : InLine(urgent[e], c) /\ Ahead(wire, urgent[e], c)
            /\ \A i \in 1 .. Len(wire) : Before(wire[i], held, c)
            /\ \A e \in Urgents : \A j \in 1 .. Len(urgent[e]) : Before(held, urgent[e][j], c)
            /\ \A j \in 1 .. Len(bulk) : Before(held, bulk[j], c)
        BY <1>1, <2>5, MoreAgain DEF LineInv
      <4>2. \A f \in OnTheWay, g \in ToSet(b) : Before(f, g, c)
        BY <1>6, <1>11, <2>5, <2>8, <3>3 DEF Before, Urgents
      <4> HIDE DEF c
      <4>3. InLine(bulk', c)
        <5>1. Ahead(bulk, b, c)
          BY <1>8, <3>2, <4>2 DEF Ahead
        <5> QED
          BY <1>3, <2>2, <3>1, <4>1, <5>1, LineJoint
      <4>4. Ahead(wire, bulk', c)
        <5>1. Ahead(wire, b, c)
          BY <1>8, <3>2, <4>2 DEF Ahead
        <5> QED
          BY <1>3, <2>2, <3>1, <4>1, <5>1, AheadJoint
      <4>5. \A j \in 1 .. Len(bulk') : Before(held, bulk'[j], c)
        <5>1. ToSet(bulk') = {bulk'[j] : j \in 1 .. Len(bulk')} /\ ToSet(bulk) = {bulk[j] : j \in 1 .. Len(bulk)}
          BY <1>3, <2>3, FrameSeq
        <5>2. \A f \in ToSet(bulk) : Before(held, f, c)
          BY <4>1, <5>1
        <5> QED
          BY <1>8, <3>1, <4>2, <5>1, <5>2
      <4> QED
        BY <1>2, <1>11, <4>1, <4>3, <4>4, <4>5 DEF LineInv, c
    <3>6. /\ EndInv' /\ AskInv' /\ PartInv' /\ GoneInv' /\ GreetInv' /\ AgeInv'
          /\ DeliveredOnceAndWhole' /\ OrderKept' /\ NothingWaitsInVain'
      <4> DEFINE N == ToSet(b)
      <4>1. OnTheWay' = OnTheWay \cup N
        BY <1>2, <1>11, <3>1 DEF OnTheWay, ToSet
      <4>2. \A f \in N : /\ f.m = r.m /\ r.t = "nack"
                         /\ f.t \in {"begin", "data", "done", "abort"}
                         /\ f.t \in {"begin", "data"} => F("done", f.m) \in N
                         /\ f.t = "done" => f.m \in hist.resent'
        BY <1>11, <2>2, <2>5, <2>8, <3>3
      <4>3. F("done", r.m) \in N
        <5>1. 1 \in 1 .. Len(b) /\ b[Len(b)] \in N /\ b[Len(b)].t \in {"done", "plain"} /\ b[Len(b)].m = r.m
              /\ b[Len(b)].p = 0
          <6>1. Len(b) \in Nat \ {0}
            BY <2>1, BurstInLine
          <6>2. Len(b) \in 1 .. Len(b) /\ 1 \in 1 .. Len(b)
            BY <6>1
          <6>3. b[Len(b)].t \in {"done", "plain"}
            BY <2>1 DEF Burst
          <6> QED
            BY <2>1, <3>2, <6>2, <6>3 DEF Burst
        <5>2. b[Len(b)] \in Frame /\ b[Len(b)].t = "done"
          BY <2>2, <3>3, <5>1
        <5>3. b[Len(b)] = F("done", r.m)
          BY <5>1, <5>2 DEF Frame, F
        <5> QED
          BY <5>1, <5>3
      <4> HIDE DEF N
      <4> QED
        BY <1>2, <1>11, <2>5, <2>8, <4>1, <4>2, <4>3, Answered
    <3> QED
      BY <1>5, <2>4, <2>6, <3>4, <3>5, <3>6 DEF IInv
  <2> QED
    BY <2>7, <2>8
<1> QED
  BY <1>2, <1>9, <1>10, <1>11

\* Some of the parts of transfers the hub was given fit if all do.
LEMMA FewerFit ==
    ASSUME Types, parts \in Seq(Piece), ~TooMuch(parts), \A m \in Ids(parts) : Sent(msgs, m),
           NEW r \in Seq(Piece), Len(r) <= Len(parts), ToSet(r) \subseteq ToSet(parts)
    PROVE  ~TooMuch(r)
<1>1. Len(msgs) \in Nat
  BY DEF Types
<1>2. \A a \in ToSet(parts) : a.m <= Len(msgs)
  <2>1. \A a \in ToSet(parts) : a.m \in 1 .. Len(msgs)
    BY IdsAre DEF Sent
  <2> QED
    BY <1>1, <2>1
<1>3. Total(parts) \in Nat /\ Total(r) <= Total(parts)
  BY <1>1, <1>2, Fewer
<1>4. Total(r) \in Nat
  <2>1. \A a \in ToSet(r) : a.m <= Len(msgs)
    BY <1>2
  <2> QED
    BY <1>1, <2>1, Fewer
<1>5. Len(r) \in Nat /\ Len(parts) \in Nat /\ AssemblyLimit \in Nat /\ PageLimit \in Nat
  BY LenProperties, TransferAssumption
<1> QED
  BY <1>3, <1>4, <1>5 DEF TooMuch

-----------------------------------------------------------------------------
(* What is kept, given up, lost.                                           *)

RetainedLeft ==
  /\ UNCHANGED <<open, msgs, urgent, bulk, held, wire, back, parts, delivered, hist>>
  /\ pumping' = pumping \/ held = None

\* What is about frames, parts and messages does not look at the bucket.
OnlyRetained ==
  /\ FrameInv /\ LineInv /\ EndInv /\ AskInv /\ PartInv /\ GoneInv /\ GreetInv /\ AgeInv
  /\ ClosedInv /\ DeliveredOnceAndWhole /\ OrderKept /\ NothingWaitsInVain

LEMMA BucketAside ==
    ASSUME OnlyRetained, RetainedLeft
    PROVE  OnlyRetained'
<1> USE DEF RetainedLeft
<1>1. OnTheWay' = OnTheWay /\ Ids(parts)' = Ids(parts) /\ Queued' = Queued
      /\ ToSet(wire)' = ToSet(wire) /\ ToSet(bulk)' = ToSet(bulk)
  BY DEF OnTheWay, Ids, Queued, ToSet
<1>2. FrameInv' /\ LineInv' /\ EndInv' /\ AskInv'
  BY <1>1 DEF OnlyRetained, FrameInv, LineInv, EndInv, AskInv
<1>3. PartInv'
  <2>1. TooMuch(parts)' = TooMuch(parts) /\ Apart(parts)' = Apart(parts)
    BY DEF TooMuch, Total, ToSet, Apart
  <2> QED
    BY <1>1, <2>1 DEF OnlyRetained, PartInv
<1>4. GoneInv' /\ GreetInv'
  BY <1>1 DEF OnlyRetained, GoneInv, GreetInv
<1>5. AgeInv' /\ ClosedInv'
  BY <1>1 DEF OnlyRetained, AgeInv, ClosedInv, Class
<1>6. DeliveredOnceAndWhole' /\ OrderKept'
  BY DEF OnlyRetained, DeliveredOnceAndWhole, OrderKept, Class
<1>7. NothingWaitsInVain'
  BY <1>1 DEF OnlyRetained, NothingWaitsInVain
<1> QED
  BY <1>2, <1>3, <1>4, <1>5, <1>6, <1>7 DEF OnlyRetained

LEMMA RetainedExpiresKeeps ==
    ASSUME IInv, RetainedExpires
    PROVE  IInv'
<1>1. OnlyRetained'
  BY BucketAside DEF IInv, OnlyRetained, RetainedLeft, RetainedExpires
<1>2. retained \in Seq(Nat) /\ Single(retained) /\ Len(retained) <= RetainLimit /\ Types /\ KeepInv
  BY DEF IInv, Types, KeepInv
<1>3. PICK n \in 1 .. Len(retained) : retained' = RemoveAt(retained, n)
  BY <1>2, NatSeq DEF RetainedExpires
<1>4. /\ retained' \in Seq(Nat) /\ Single(retained') /\ Len(retained') <= Len(retained)
      /\ ToSet(retained') \subseteq ToSet(retained)
  BY <1>2, <1>3, OneGone
<1>5. Len(retained') <= RetainLimit
  <2>1. Len(retained') \in Nat /\ Len(retained) \in Nat /\ RetainLimit \in Nat
    BY <1>2, <1>4, NatSeq, TransferAssumption
  <2> QED
    BY <1>2, <1>4, <2>1
<1>6. Types' /\ KeepInv'
  BY <1>2, <1>4, <1>5 DEF Types, KeepInv, Single, ToSet, RetainedExpires
<1> QED
  BY <1>1, <1>6 DEF IInv, OnlyRetained

LEMMA BucketSweptKeeps ==
    ASSUME IInv, BucketSwept
    PROVE  IInv'
<1>1. OnlyRetained'
  BY BucketAside DEF IInv, OnlyRetained, RetainedLeft, BucketSwept
<1>2. KeepInv'
  BY DEF IInv, KeepInv, Single, ToSet, BucketSwept
<1>3. Types'
  <2>1. Types /\ listed' = FALSE /\ RetainedLeft /\ UNCHANGED <<retained, pumping>>
    BY DEF IInv, BucketSwept, RetainedLeft
  <2> QED
    BY <2>1 DEF Types, RetainedLeft
<1> QED
  BY <1>1, <1>2, <1>3 DEF IInv, OnlyRetained

LEMMA StutterKeeps ==
    ASSUME IInv, UNCHANGED vars
    PROVE  IInv'
<1>1. OnlyRetained'
  BY BucketAside DEF IInv, OnlyRetained, RetainedLeft, vars
<1>2. Types' /\ KeepInv'
  BY DEF IInv, Types, KeepInv, Single, ToSet, vars
<1> QED
  BY <1>1, <1>2 DEF IInv, OnlyRetained

LEMMA PumpRestsKeeps ==
    ASSUME IInv, PumpRests
    PROVE  IInv'
<1>1. held = None /\ pumping' = FALSE /\ UNCHANGED retained
      /\ UNCHANGED <<open, msgs, urgent, bulk, held, wire, back, listed, parts, delivered, hist>>
  BY DEF PumpRests
<1>2. OnlyRetained'
  BY <1>1, BucketAside DEF IInv, OnlyRetained, RetainedLeft
<1>3. Types' /\ KeepInv'
  BY <1>1 DEF IInv, Types, KeepInv, Single, ToSet
<1> QED
  BY <1>2, <1>3 DEF IInv, OnlyRetained

LEMMA PartExpiresKeeps ==
    ASSUME IInv, PartExpires
    PROVE  IInv'
<1>1. Types /\ PartInv /\ KeepInv
  BY DEF IInv
<1>2. parts \in Seq(Piece) /\ Apart(parts) /\ ~TooMuch(parts) /\ \A m \in Ids(parts) : Sent(msgs, m)
  BY <1>1 DEF Types, PartInv
<1>3. PICK n \in 1 .. Len(parts) : parts' = RemoveAt(parts, n)
  BY <1>2, IdsAre DEF PartExpires
<1>4. /\ parts' \in Seq(Piece) /\ Apart(parts') /\ Len(parts') = Len(parts) - 1
      /\ ToSet(parts') \subseteq ToSet(parts)
  BY <1>2, <1>3, OneLess
<1>5. Ids(parts') \subseteq Ids(parts)
  BY <1>2, <1>4, IdsAre
<1>6. ~TooMuch(parts')
  BY <1>1, <1>2, <1>4, <1>5, FewerFit
<1>7. UNCHANGED <<open, msgs, urgent, bulk, pumping, held, wire, back, retained, listed, delivered, hist>>
  BY DEF PartExpires
<1>8. PartInv'
  BY <1>2, <1>4, <1>5, <1>6, <1>7 DEF PartInv, Ids, Apart
<1>9. Types' /\ KeepInv' /\ ClosedInv'
  BY <1>1, <1>4, <1>7 DEF IInv, Types, KeepInv, ClosedInv, Single, ToSet
<1>10. OnTheWay' = OnTheWay /\ Queued' = Queued
       /\ ToSet(wire)' = ToSet(wire) /\ ToSet(bulk)' = ToSet(bulk) /\ Ids(parts)' = Ids(parts')
  BY <1>7 DEF OnTheWay, ToSet, Ids, Queued
<1>11. FrameInv' /\ LineInv' /\ EndInv' /\ AskInv'
  BY <1>7, <1>10 DEF IInv, FrameInv, LineInv, EndInv, AskInv
<1>12. GoneInv' /\ GreetInv'
  BY <1>5, <1>7, <1>10 DEF IInv, GoneInv, GreetInv
<1>13. AgeInv' /\ DeliveredOnceAndWhole' /\ OrderKept'
  BY <1>7, <1>10 DEF IInv, AgeInv, DeliveredOnceAndWhole, OrderKept, Class
<1>14. NothingWaitsInVain'
  BY <1>5, <1>7, <1>10 DEF IInv, NothingWaitsInVain
<1> QED
  BY <1>8, <1>9, <1>11, <1>12, <1>13, <1>14 DEF IInv

LEMMA OpensKeeps ==
    ASSUME IInv, Opens
    PROVE  IInv'
<1> DEFINE g == F("hello", 0)
<1>1. /\ ~open /\ open' = TRUE /\ wire' = <<g>> /\ listed' = TRUE
      /\ retained' = (IF listed THEN retained ELSE <<>>)
      /\ hist' = [hist EXCEPT !.dropped = IF listed THEN @ ELSE @ \cup ToSet(retained)]
      /\ UNCHANGED <<msgs, urgent, bulk, pumping, held, back, parts, delivered>>
  BY DEF Opens
<1>2. bulk = <<>> /\ urgent = NoneQueued /\ wire = <<>> /\ back = <<>> /\ held = None
  BY <1>1 DEF IInv, ClosedInv
<1>3. g \in Frame /\ g.t = "hello" /\ g.m = 0 /\ g.p = 0
  BY FrameOf DEF Sorts
<1>4. hist \in History /\ retained \in Seq(Nat) /\ ToSet(retained) \subseteq Nat
  <2>1. hist \in History /\ retained \in Seq(Nat)
    BY DEF IInv, Types
  <2> QED
    BY <2>1, NatSeq, ElementOfSeq
<1>5. hist' \in History /\ hist'.resent = hist.resent /\ hist'.shunned = hist.shunned
  BY <1>1, <1>4 DEF History
<1> HIDE DEF g
<1>6. ToSet(wire') = {g} /\ ToSet(bulk)' = {} /\ Queued' = {} /\ wire' \in Seq(Frame) /\ Len(wire') = 1
      /\ Len(bulk') = 0 /\ Len(back') = 0 /\ held' = None /\ wire'[1] = g
      /\ \A c \in Urgents : Len(urgent'[c]) = 0 /\ ToSet(urgent'[c]) = {}
  BY <1>1, <1>2, <1>3 DEF ToSet, Queued, NoneQueued
<1>7. OnTheWay' = {g, None}
  BY <1>1, <1>6 DEF OnTheWay, ToSet
<1>8. Types'
  BY <1>1, <1>2, <1>4, <1>5, <1>6 DEF IInv, Types
<1>9. FrameInv'
  BY <1>1, <1>2, <1>3, <1>6, NoneIs DEF FrameInv, Truthful, ToSet
<1>10. LineInv'
  <2>1. Before(g, None, hist'.resent)
    BY <1>3, NoneIs DEF Before
  <2> QED
    BY <1>6, <2>1 DEF LineInv, InLine, Ahead
<1>11. EndInv'
  BY <1>3, <1>7, NoneIs DEF EndInv
<1>12. AskInv'
  BY <1>6 DEF AskInv
<1>13. PartInv'
  <2>1. Ids(parts)' = Ids(parts) /\ TooMuch(parts)' = TooMuch(parts) /\ Apart(parts)' = Apart(parts)
    BY <1>1 DEF Ids, TooMuch, Total, ToSet, Apart
  <2> QED
    BY <1>1, <2>1 DEF IInv, PartInv
<1>14. Ids(parts)' = Ids(parts) /\ \A m \in Ids(parts) : m # 0
  <2>1. \A m \in Ids(parts) : m \in 1 .. Len(msgs)
    BY DEF IInv, PartInv, Sent
  <2>2. Len(msgs) \in Nat
    BY Known DEF IInv
  <2> QED
    BY <1>1, <2>1, <2>2 DEF Ids
<1>15. GoneInv'
  <2>1. \A i \in 1 .. Len(delivered) : delivered[i].m \in 1 .. Len(msgs) /\ delivered[i].m \notin Ids(parts)
    BY DEF IInv, GoneInv
  <2>2. Len(msgs) \in Nat
    BY Known DEF IInv
  <2>3. \A i \in 1 .. Len(delivered) : delivered[i].m # 0
    BY <2>1, <2>2
  <2>4. \A f \in (OnTheWay \cup Queued)' : f.m = 0
    BY <1>3, <1>6, <1>7, NoneIs
  <2> QED
    BY <1>1, <1>6, <1>14, <2>1, <2>3, <2>4 DEF GoneInv
<1>16. GreetInv'
  BY <1>1, <1>2, <1>3, <1>7, <1>14, NoneIs DEF GreetInv
<1>17. AgeInv'
  <2>1. \A f \in (OnTheWay \cup Queued)' : f.t \in {"hello", "none"}
    BY <1>3, <1>6, <1>7, NoneIs
  <2> QED
    BY <2>1 DEF AgeInv, Urgents
<1>18. KeepInv'
  <2>1. RetainLimit \in Nat
    BY TransferAssumption
  <2>2. Single(<<>>) /\ Len(<<>>) <= RetainLimit /\ ToSet(<<>>) = {}
    BY <2>1 DEF Single, ToSet
  <2>3. KeepInv
    BY DEF IInv
  <2>4. \/ retained' = retained
        \/ Single(retained') /\ Len(retained') <= RetainLimit /\ ToSet(retained') = {}
    BY <1>1, <2>2
  <2>5. CASE retained' = retained
    BY <1>1, <2>3, <2>5 DEF KeepInv, Single, ToSet
  <2>6. CASE Single(retained') /\ Len(retained') <= RetainLimit /\ ToSet(retained') = {}
    BY <2>6 DEF KeepInv, Single, ToSet
  <2> QED
    BY <2>4, <2>5, <2>6
<1>19. ClosedInv'
  BY <1>1, <1>2 DEF ClosedInv
<1>20. DeliveredOnceAndWhole' /\ OrderKept'
  BY <1>1, <1>5 DEF IInv, DeliveredOnceAndWhole, OrderKept, Class
<1>21. NothingWaitsInVain'
  <2>1. g \in ToSet(wire)'
    BY <1>6 DEF ToSet
  <2> QED
    BY <2>1 DEF NothingWaitsInVain, g
<1> QED
  BY <1>8, <1>9, <1>10, <1>11, <1>12, <1>13, <1>15, <1>16, <1>17, <1>18, <1>19, <1>20, <1>21 DEF IInv

LEMMA ClosesKeeps ==
    ASSUME IInv, Closes
    PROVE  IInv'
<1>1. /\ open' = FALSE /\ hist' = [hist EXCEPT !.losses = @ + 1]
      /\ urgent' = NoneQueued /\ bulk' = <<>> /\ pumping' = FALSE /\ held' = None /\ wire' = <<>> /\ back' = <<>>
      /\ UNCHANGED <<msgs, retained, listed, parts, delivered>>
  BY DEF Closes
<1>2. hist' \in History /\ hist'.resent = hist.resent /\ hist'.shunned = hist.shunned
  <2>1. hist \in History
    BY DEF IInv, Types
  <2>2. hist.losses + 1 \in Nat
    BY <2>1 DEF History
  <2> QED
    BY <1>1, <2>1, <2>2 DEF History
<1>3. ToSet(wire)' = {} /\ ToSet(bulk)' = {} /\ Queued' = {}
      /\ Len(wire') = 0 /\ Len(bulk') = 0 /\ Len(back') = 0
      /\ \A c \in Urgents : Len(urgent'[c]) = 0 /\ ToSet(urgent'[c]) = {}
  BY <1>1 DEF ToSet, Queued, NoneQueued
<1>4. OnTheWay' = {None}
  BY <1>1, <1>3 DEF OnTheWay
<1>5. Types'
  <2>1. 0 <= BulkLimit
    BY TransferAssumption
  <2>2. Types
    BY DEF IInv
  <2>3. /\ urgent' \in [Urgents -> Seq(Frame)] /\ bulk' \in Seq(Frame) /\ wire' \in Seq(Frame)
        /\ held' \in Frame /\ back' \in Seq(Request)
    BY <1>1, NoneIs DEF NoneQueued
  <2>4. open' \in BOOLEAN /\ pumping' \in BOOLEAN
    BY <1>1
  <2>5. Len(bulk') <= BulkLimit
    BY <1>3, <2>1
  <2> QED
    BY <1>1, <1>2, <2>2, <2>3, <2>4, <2>5 DEF Types
<1>6. FrameInv' /\ LineInv' /\ EndInv' /\ AskInv' /\ GreetInv' /\ ClosedInv'
  BY <1>1, <1>3, <1>4, NoneIs DEF FrameInv, LineInv, InLine, Ahead, EndInv, AskInv, GreetInv, ClosedInv
<1>7. PartInv' /\ KeepInv'
  <2>1. Ids(parts)' = Ids(parts) /\ TooMuch(parts)' = TooMuch(parts) /\ Apart(parts)' = Apart(parts)
    BY <1>1 DEF Ids, TooMuch, Total, ToSet, Apart
  <2> QED
    BY <1>1, <2>1 DEF IInv, PartInv, KeepInv, Single, ToSet
<1>8. GoneInv'
  <2>1. \A i \in 1 .. Len(delivered) : delivered[i].m \in 1 .. Len(msgs) /\ delivered[i].m \notin Ids(parts)
    BY DEF IInv, GoneInv
  <2>2. Len(msgs) \in Nat
    BY Known DEF IInv
  <2>3. \A i \in 1 .. Len(delivered) : delivered[i].m # 0
    BY <2>1, <2>2
  <2>4. Ids(parts)' = Ids(parts)
    BY <1>1 DEF Ids
  <2> QED
    BY <1>1, <1>3, <1>4, <2>1, <2>3, <2>4, NoneIs DEF GoneInv
<1>9. AgeInv'
  BY <1>3, <1>4, NoneIs DEF AgeInv, Urgents
<1>10. DeliveredOnceAndWhole' /\ OrderKept' /\ NothingWaitsInVain'
  BY <1>1, <1>2 DEF IInv, DeliveredOnceAndWhole, OrderKept, NothingWaitsInVain, Class
<1> QED
  BY <1>5, <1>6, <1>7, <1>8, <1>9, <1>10 DEF IInv
-----------------------------------------------------------------------------
(* The phone takes a frame.                                                *)

Takes == wire # <<>> /\ wire' = Tail(wire) /\ UNCHANGED <<open, msgs, urgent, bulk, pumping, held, retained, listed, hist>>

\* What is still to come, when f has been taken, is behind f.
LEMMA WireTaken ==
    ASSUME IInv, Takes
    PROVE  LET f == Head(wire) IN
           /\ wire' \in Seq(Frame) /\ f \in Frame /\ f.t # "none" /\ Truthful(f, msgs)
           /\ OnTheWay = OnTheWay' \cup {f} /\ Afloat = Afloat' \cup {f} /\ OnTheWay' \subseteq Afloat'
           /\ \A g \in Afloat' : Before(f, g, hist.resent) /\ g.t # "hello"
           /\ F("hello", 0) \notin ToSet(wire')
           /\ f.t \in Urgents \cup {"done", "plain", "abort"} => \A g \in Afloat' : g.m # f.m
           /\ F("hello", 0) \in ToSet(wire) <=> f.t = "hello"
           /\ FrameInv' /\ LineInv' /\ EndInv' /\ GreetInv' /\ KeepInv' /\ ClosedInv' /\ open
<1> DEFINE f == Head(wire)  a == hist.resent
<1>1. /\ wire \in Seq(Frame) /\ urgent \in [Urgents -> Seq(Frame)] /\ bulk \in Seq(Frame) /\ held \in Frame
      /\ FrameInv /\ LineInv /\ EndInv /\ KeepInv /\ ClosedInv
  BY DEF IInv, Types
<1>2. /\ wire # <<>> /\ wire' = Tail(wire) /\ UNCHANGED <<open, msgs, urgent, bulk, pumping, held, retained, hist>>
  BY DEF Takes
<1>3. /\ wire' \in Seq(Frame) /\ f \in Frame /\ ToSet(wire) = ToSet(wire') \cup {f}
  BY <1>1, <1>2, Shrunk
<1>4. f.t # "none" /\ Truthful(f, msgs)
  BY <1>1, <1>3 DEF FrameInv
<1>5. ToSet(bulk)' = ToSet(bulk) /\ Queued' = Queued /\ ToSet(wire)' = ToSet(wire')
  BY <1>2 DEF ToSet, Queued
<1>6. /\ OnTheWay = ToSet(wire) \cup ToSet(bulk) \cup {held} /\ OnTheWay' = ToSet(wire') \cup ToSet(bulk) \cup {held}
      /\ Afloat = OnTheWay \cup Queued /\ Afloat' = OnTheWay' \cup Queued
  BY <1>2, <1>5 DEF OnTheWay, Afloat
<1>7. OnTheWay = OnTheWay' \cup {f} /\ Afloat = Afloat' \cup {f} /\ OnTheWay' \subseteq Afloat'
  BY <1>3, <1>6
<1>8. /\ InLine(wire', a) /\ Ahead(wire', bulk, a) /\ \A c \in Urgents : Ahead(wire', urgent[c], a)
      /\ \A i \in 1 .. Len(wire') : Before(f, wire'[i], a)
      /\ \A c \in Urgents : \A j \in 1 .. Len(urgent[c]) : Before(f, urgent[c][j], a)
      /\ \A j \in 1 .. Len(bulk) : Before(f, bulk[j], a)
  BY <1>1, <1>2, QueuedSeq, LineShrunk, AheadShrunk DEF LineInv
<1>9. /\ Len(wire) \in Nat \ {0} /\ Len(wire') = Len(wire) - 1 /\ f = wire[1]
      /\ \A i \in 1 .. Len(wire) - 1 : wire'[i] = wire[i + 1]
  BY <1>1, <1>2, Shrunk
<1>10. Before(f, held, a) /\ \A i \in 1 .. Len(wire') : Before(wire'[i], held, a)
  <2>1. 1 \in 1 .. Len(wire) /\ \A i \in 1 .. Len(wire') : i + 1 \in 1 .. Len(wire) /\ wire'[i] = wire[i + 1]
    BY <1>9
  <2> QED
    BY <1>1, <1>9, <2>1 DEF LineInv
<1>11. \A g \in Afloat' : Before(f, g, a) /\ g.t # "hello"
  <2>1. /\ ToSet(wire') = {wire'[i] : i \in 1 .. Len(wire')}
        /\ \A c \in Urgents : ToSet(urgent[c]) = {urgent[c][i] : i \in 1 .. Len(urgent[c])}
        /\ ToSet(bulk) = {bulk[i] : i \in 1 .. Len(bulk)}
    BY <1>1, <1>3, QueuedSeq, FrameSeq
  <2>2. \A g \in Afloat' : Before(f, g, a)
    <3> SUFFICES ASSUME NEW g \in Afloat' PROVE Before(f, g, a)
      OBVIOUS
    <3>1. CASE g \in Queued
      <4>1. PICK c \in Urgents : g \in ToSet(urgent[c])
        BY <3>1 DEF Queued
      <4>2. PICK i \in 1 .. Len(urgent[c]) : g = urgent[c][i]
        BY <2>1, <4>1
      <4>3. Before(f, urgent[c][i], a)
        BY <1>8
      <4> QED
        BY <4>2, <4>3
    <3>2. CASE g \in ToSet(wire') \cup ToSet(bulk) \cup {held}
      BY <1>8, <1>10, <2>1, <3>2
    <3> QED
      BY <1>6, <3>1, <3>2
  <2> QED
    BY <2>2 DEF Before
<1>12. F("hello", 0).t = "hello"
  BY FrameOf DEF Sorts
<1>13. F("hello", 0) \notin ToSet(wire')
  BY <1>6, <1>11, <1>12
<1>14. f.t \in Urgents \cup {"done", "plain", "abort"} => \A g \in Afloat' : g.m # f.m
  BY <1>11 DEF Before, Urgents
<1>15. F("hello", 0) \in ToSet(wire) <=> f.t = "hello"
  <2>1. f.t = "hello" => f.m = 0 /\ f.p = 0
    BY <1>4 DEF Truthful, Urgents
  <2>2. f.t = "hello" => f = F("hello", 0)
    BY <1>3, <2>1 DEF Frame, F
  <2> QED
    BY <1>3, <1>12, <1>13, <2>2
<1>16. FrameInv'
  BY <1>1, <1>2, <1>3, <1>5 DEF FrameInv
<1>17. LineInv'
  BY <1>1, <1>2, <1>8, <1>10 DEF LineInv
<1>18. EndInv'
  <2> SUFFICES ASSUME NEW g \in OnTheWay', g.t \in {"begin", "data"}
               PROVE  F("done", g.m) \in OnTheWay'
    BY DEF EndInv
  <2>1. F("done", g.m) \in OnTheWay
    BY <1>1, <1>7 DEF EndInv
  <2>2. CASE f = F("done", g.m)
    <3>1. f.t = "done" /\ f.m = g.m
      BY <2>2 DEF F
    <3> QED
      BY <1>7, <1>14, <3>1
  <2> QED
    BY <1>7, <2>1, <2>2
<1>19. GreetInv'
  BY <1>5, <1>13 DEF GreetInv
<1>20. KeepInv' /\ open /\ ClosedInv'
  BY <1>1, <1>2 DEF KeepInv, Single, ToSet, ClosedInv
<1> QED
  BY <1>3, <1>4, <1>7, <1>11, <1>13, <1>14, <1>15, <1>16, <1>17, <1>18, <1>19, <1>20

Asked(m, s) == \E n \in 1 .. Len(s) : s[n].t = "nack" /\ s[n].m = m

\* A frame that hands nothing up, and may begin a transfer or ask for parts.
LEMMA Received ==
    ASSUME IInv, Takes, delivered' = delivered,
           parts' \in Seq(Piece), Apart(parts'), ~TooMuch(parts'),
           \A m \in Ids(parts') : m \in Ids(parts) \/ (Head(wire).t = "begin" /\ Head(wire).m = m),
           back' \in Seq(Request), Len(back) <= Len(back'), \A n \in 1 .. Len(back) : back'[n] = back[n],
           \A n \in 1 .. Len(back') : n > Len(back) =>
             /\ back'[n].t = "nack" /\ back'[n].m \in Ids(parts)
             /\ \A g \in OnTheWay' : g.m # back'[n].m
             /\ \A k \in 1 .. Len(back') : back'[k].t = "nack" /\ back'[k].m = back'[n].m => k = n,
           \A m \in Ids(parts') :
             (Head(wire).t = "hello" \/ (Head(wire).t \in {"done", "abort"} /\ Head(wire).m = m)) => Asked(m, back')
    PROVE  IInv'
<1> DEFINE f == Head(wire)
<1>1. UNCHANGED <<open, msgs, urgent, bulk, pumping, held, retained, listed, hist>>
  BY DEF Takes
<1>2. /\ wire' \in Seq(Frame) /\ f \in Frame /\ f.t # "none" /\ Truthful(f, msgs)
      /\ OnTheWay = OnTheWay' \cup {f} /\ Afloat = Afloat' \cup {f} /\ OnTheWay' \subseteq Afloat'
      /\ F("hello", 0) \notin ToSet(wire')
      /\ F("hello", 0) \in ToSet(wire) <=> f.t = "hello"
      /\ FrameInv' /\ LineInv' /\ EndInv' /\ GreetInv' /\ KeepInv' /\ ClosedInv' /\ open
  BY WireTaken
<1>3. back \in Seq(Request) /\ Len(back) \in Nat /\ Len(back') \in Nat
      /\ DOMAIN back = 1 .. Len(back) /\ DOMAIN back' = 1 .. Len(back')
  BY BackSeq DEF IInv, Types
<1>4. Types'
  BY <1>1, <1>2 DEF IInv, Types
<1>5. Ids(parts)' = Ids(parts') /\ Queued' = Queued /\ ToSet(wire)' = ToSet(wire')
      /\ TooMuch(parts)' = TooMuch(parts') /\ Apart(parts)' = Apart(parts')
  BY <1>1 DEF Ids, ToSet, TooMuch, Total, Apart, Queued
<1>6. \A m \in Ids(parts') : Sent(msgs, m)
  BY <1>2 DEF IInv, PartInv, Truthful, Urgents
<1>7. PartInv'
  BY <1>1, <1>5, <1>6 DEF PartInv
<1>8. \A n \in 1 .. Len(back') : (n \in 1 .. Len(back) /\ back'[n] = back[n]) \/ n > Len(back)
  BY <1>3
<1>9. AskInv'
  <2> SUFFICES ASSUME NEW n \in 1 .. Len(back'), back'[n].t = "nack"
               PROVE  /\ Sent(msgs, back'[n].m)
                      /\ \A g \in OnTheWay' : g.m # back'[n].m
                      /\ \A k \in 1 .. Len(back') : back'[k].t = "nack" /\ back'[k].m = back'[n].m => k = n
    BY <1>1 DEF AskInv
  <2>1. CASE n > Len(back)
    BY <2>1 DEF IInv, PartInv
  <2>2. CASE n \in 1 .. Len(back) /\ back'[n] = back[n]
    <3>1. /\ Sent(msgs, back[n].m) /\ \A g \in OnTheWay : g.m # back[n].m
          /\ \A k \in 1 .. Len(back) : back[k].t = "nack" /\ back[k].m = back[n].m => k = n
      BY <2>2 DEF IInv, AskInv
    <3>2. \A k \in 1 .. Len(back') : back'[k].t = "nack" /\ back'[k].m = back'[n].m => k = n
      <4> SUFFICES ASSUME NEW k \in 1 .. Len(back'), back'[k].t = "nack", back'[k].m = back'[n].m
                   PROVE  k = n
        OBVIOUS
      <4>1. CASE k > Len(back)
        BY <4>1
      <4>2. CASE k \in 1 .. Len(back) /\ back'[k] = back[k]
        BY <2>2, <3>1, <4>2
      <4> QED
        BY <1>8, <4>1, <4>2
    <3> QED
      BY <1>2, <2>2, <3>1, <3>2
  <2> QED
    BY <1>8, <2>1, <2>2
<1>10. GoneInv'
  <2> SUFFICES ASSUME NEW i \in 1 .. Len(delivered)
               PROVE  /\ delivered[i].m \in 1 .. Len(msgs) /\ delivered[i].m \notin Ids(parts')
                      /\ \A g \in OnTheWay' \cup Queued : g.m # delivered[i].m
                      /\ \A n \in 1 .. Len(back') : back'[n].t = "nack" => back'[n].m # delivered[i].m
    BY <1>1, <1>5 DEF GoneInv
  <2>1. /\ delivered[i].m \in 1 .. Len(msgs) /\ delivered[i].m \notin Ids(parts)
        /\ \A g \in OnTheWay \cup Queued : g.m # delivered[i].m
        /\ \A n \in 1 .. Len(back) : back[n].t = "nack" => back[n].m # delivered[i].m
    BY DEF IInv, GoneInv
  <2> QED
    BY <1>2, <1>8, <2>1
<1>11. AgeInv' /\ DeliveredOnceAndWhole' /\ OrderKept'
  <2>1. AgeInv'
    BY <1>1, <1>2, <1>5 DEF IInv, AgeInv, Class
  <2> QED
    BY <1>1, <2>1 DEF IInv, DeliveredOnceAndWhole, OrderKept, Class
<1>12. NothingWaitsInVain'
  <2> SUFFICES ASSUME NEW m \in Ids(parts'), m \notin hist.shunned
               PROVE  F("done", m) \in OnTheWay' \/ F("abort", m) \in OnTheWay' \/ Asked(m, back')
    BY <1>1, <1>3, <1>5 DEF NothingWaitsInVain, Asked
  <2>1. CASE f.t = "hello"
    BY <2>1
  <2>2. CASE (f.t = "begin" /\ f.m = m)
    <3>1. F("done", m) \in OnTheWay
      BY <1>2, <2>2 DEF IInv, EndInv
    <3>2. F("done", m) # f
      BY <2>2 DEF F
    <3> QED
      BY <1>2, <3>1, <3>2
  <2>3. CASE m \in Ids(parts) /\ f.t # "hello"
    <3>1. F("done", m) \in OnTheWay \/ F("abort", m) \in OnTheWay \/ Asked(m, back)
      BY <1>2, <1>3, <2>3 DEF IInv, NothingWaitsInVain, Asked
    <3>2. CASE Asked(m, back)
      <4>1. \A n \in 1 .. Len(back) : n \in 1 .. Len(back')
        BY <1>3
      <4> QED
        BY <3>2, <4>1 DEF Asked
    <3>3. CASE f = F("done", m) \/ f = F("abort", m)
      <4>1. f.t \in {"done", "abort"} /\ f.m = m
        BY <3>3 DEF F
      <4> QED
        BY <4>1
    <3> QED
      BY <1>2, <3>1, <3>2, <3>3
  <2> QED
    BY <2>1, <2>2, <2>3
<1> QED
  BY <1>2, <1>4, <1>7, <1>9, <1>10, <1>11, <1>12 DEF IInv

\* A frame that ends a message that is handed up.
LEMMA HandedUp ==
    ASSUME IInv, Takes, Head(wire).t \in Urgents \cup {"done", "plain"},
           delivered' = Append(delivered, [m |-> Head(wire).m, got |-> Pages]),
           parts' \in Seq(Piece), Apart(parts'), ~TooMuch(parts'), Ids(parts') = Ids(parts) \ {Head(wire).m},
           back' \in Seq(Request), Len(back) <= Len(back'), \A n \in 1 .. Len(back) : back'[n] = back[n],
           \A n \in 1 .. Len(back') : n > Len(back) => back'[n].t = "ack"
    PROVE  IInv'
<1> DEFINE f == Head(wire)  d == [m |-> f.m, got |-> Pages]
<1>1. UNCHANGED <<open, msgs, urgent, bulk, pumping, held, retained, listed, hist>>
  BY DEF Takes
<1>2. /\ wire' \in Seq(Frame) /\ f \in Frame /\ f.t # "none" /\ Truthful(f, msgs)
      /\ OnTheWay = OnTheWay' \cup {f} /\ Afloat = Afloat' \cup {f} /\ OnTheWay' \subseteq Afloat'
      /\ \A g \in Afloat' : Before(f, g, hist.resent)
      /\ F("hello", 0) \notin ToSet(wire')
      /\ \A g \in Afloat' : g.m # f.m
      /\ F("hello", 0) \in ToSet(wire) <=> f.t = "hello"
      /\ FrameInv' /\ LineInv' /\ EndInv' /\ GreetInv' /\ KeepInv' /\ ClosedInv' /\ open
  BY WireTaken
<1>3. back \in Seq(Request) /\ Len(back) \in Nat /\ Len(back') \in Nat
      /\ DOMAIN back = 1 .. Len(back) /\ DOMAIN back' = 1 .. Len(back')
  BY BackSeq DEF IInv, Types
<1>4. delivered \in Seq(Piece) /\ f.m \in Nat /\ d \in Piece /\ d.m = f.m /\ d.got = Pages
  BY <1>2 DEF IInv, Types, Piece, Frame
<1> HIDE DEF d
<1>5. /\ delivered' \in Seq(Piece) /\ Len(delivered) \in Nat /\ Len(delivered') = Len(delivered) + 1
      /\ \A i \in 1 .. Len(delivered) : delivered'[i] = delivered[i]
      /\ delivered'[Len(delivered) + 1] = d
  <2>1. delivered' = Append(delivered, d)
    BY DEF d
  <2> QED
    BY <1>4, <2>1, Grown
<1>6. \A i \in 1 .. Len(delivered') : \/ i \in 1 .. Len(delivered) /\ delivered'[i] = delivered[i]
                                      \/ i = Len(delivered) + 1 /\ delivered'[i] = d
  BY <1>5
<1>7. DOMAIN delivered = 1 .. Len(delivered) /\ DOMAIN delivered' = 1 .. Len(delivered')
  BY <1>4, <1>5, LenProperties
<1>8. Types'
  <2>1. Types /\ wire' \in Seq(Frame) /\ delivered' \in Seq(Piece)
    BY <1>2, <1>5 DEF IInv
  <2> QED
    BY <1>1, <2>1 DEF Types
<1>9. Ids(parts)' = Ids(parts') /\ Queued' = Queued /\ ToSet(wire)' = ToSet(wire')
      /\ TooMuch(parts)' = TooMuch(parts') /\ Apart(parts)' = Apart(parts')
  BY <1>1 DEF Ids, ToSet, TooMuch, Total, Apart, Queued
<1>10. PartInv'
  BY <1>1, <1>9 DEF IInv, PartInv
<1>11. \A n \in 1 .. Len(back') : back'[n].t = "nack" => n \in 1 .. Len(back) /\ back'[n] = back[n]
  <2>1. \A n \in 1 .. Len(back') : n \in 1 .. Len(back) \/ n > Len(back)
    BY <1>3
  <2> QED
    BY <2>1
<1>12. AskInv'
  BY <1>1, <1>2, <1>11 DEF IInv, AskInv
<1>13. Afloat' = (OnTheWay \cup Queued)'
  BY DEF Afloat
<1>14. \A n \in 1 .. Len(back') : back'[n].t = "nack" => back'[n].m # f.m
  BY <1>2, <1>11 DEF IInv, AskInv
<1>15. f.m \in 1 .. Len(msgs) /\ Class(f.m) = IF f.t \in Urgents THEN f.t ELSE "bulk"
  BY <1>2 DEF Truthful, Sent, Class, Urgents
<1>16. GoneInv'
  <2> SUFFICES ASSUME NEW i \in 1 .. Len(delivered')
               PROVE  /\ delivered'[i].m \in 1 .. Len(msgs) /\ delivered'[i].m \notin Ids(parts')
                      /\ \A g \in Afloat' : g.m # delivered'[i].m
                      /\ \A n \in 1 .. Len(back') : back'[n].t = "nack" => back'[n].m # delivered'[i].m
    BY <1>1, <1>9, <1>13 DEF GoneInv
  <2>1. CASE i \in 1 .. Len(delivered) /\ delivered'[i] = delivered[i]
    <3>1. /\ delivered[i].m \in 1 .. Len(msgs) /\ delivered[i].m \notin Ids(parts)
          /\ \A g \in Afloat : g.m # delivered[i].m
          /\ \A n \in 1 .. Len(back) : back[n].t = "nack" => back[n].m # delivered[i].m
      BY <2>1 DEF IInv, GoneInv, Afloat
    <3> QED
      BY <1>2, <1>11, <2>1, <3>1
  <2>2. CASE delivered'[i] = d
    BY <1>2, <1>4, <1>14, <1>15, <2>2
  <2> QED
    BY <1>6, <2>1, <2>2
<1>17. \A i \in 1 .. Len(delivered) :
         /\ delivered[i].m # f.m /\ delivered[i].got = Pages
         /\ Class(delivered[i].m) = "bulk" /\ f.t \in {"done", "plain"} => delivered[i].m < f.m \/ f.m \in hist.resent
         /\ f.t \in Urgents /\ Class(delivered[i].m) = f.t => delivered[i].m < f.m
  <2>1. f \in OnTheWay
    BY <1>2
  <2> QED
    BY <1>7, <2>1 DEF IInv, GoneInv, AgeInv, DeliveredOnceAndWhole
<1>18. AgeInv'
  <2> SUFFICES ASSUME NEW i \in 1 .. Len(delivered'), NEW g \in Afloat'
               PROVE  LET e == delivered'[i].m IN
                      /\ Class(e) = "bulk" /\ g.t \in {"done", "plain"} => e < g.m \/ g.m \in hist.resent
                      /\ g.t \in Urgents /\ Class(e) = g.t => e < g.m
    BY <1>1, <1>13 DEF AgeInv, Class
  <2>1. CASE i \in 1 .. Len(delivered) /\ delivered'[i] = delivered[i]
    <3>1. AgeInv /\ g \in OnTheWay \cup Queued
      BY <1>2 DEF IInv, Afloat
    <3> QED
      BY <2>1, <3>1 DEF AgeInv
  <2>2. CASE delivered'[i] = d
    BY <1>2, <1>4, <1>15, <2>2 DEF Before, Urgents
  <2> QED
    BY <1>6, <2>1, <2>2
<1>19. DeliveredOnceAndWhole'
  <2>1. \A i \in 1 .. Len(delivered') : delivered'[i].got = Pages
    BY <1>4, <1>6, <1>17
  <2>2. \A i, j \in 1 .. Len(delivered) : delivered[i].m = delivered[j].m => i = j
    BY <1>7 DEF IInv, DeliveredOnceAndWhole
  <2>3. \A i, j \in 1 .. Len(delivered') : delivered'[i].m = delivered'[j].m => i = j
    BY <1>4, <1>6, <1>17, <2>2
  <2> QED
    BY <1>7, <2>1, <2>3 DEF DeliveredOnceAndWhole, Pages
<1>20. OrderKept'
  <2> SUFFICES ASSUME NEW i \in 1 .. Len(delivered'), NEW j \in 1 .. Len(delivered'), i < j,
                      delivered'[i].m > delivered'[j].m, Class(delivered'[i].m) = Class(delivered'[j].m)
               PROVE  delivered'[j].m \in hist.resent
    BY <1>1, <1>7 DEF OrderKept, Class
  <2>1. i \in 1 .. Len(delivered) /\ delivered'[i] = delivered[i] /\ delivered[i].m \in Nat
    <3>1. i \in 1 .. Len(delivered)
      BY <1>5
    <3>2. delivered[i] \in Piece
      BY <1>4, <3>1, ElementOfSeq
    <3> QED
      BY <1>5, <3>1, <3>2 DEF Piece
  <2>2. CASE j \in 1 .. Len(delivered) /\ delivered'[j] = delivered[j]
    BY <1>7, <2>1, <2>2 DEF IInv, OrderKept
  <2>3. CASE delivered'[j] = d
    <3>1. delivered'[j].m = f.m /\ ~(delivered[i].m < f.m)
      <4>1. delivered'[j].m = f.m /\ f.m \in Nat /\ delivered[i].m \in Nat
        BY <1>4, <2>1, <2>3
      <4>2. delivered[i].m > f.m
        BY <2>1, <4>1
      <4> QED
        BY <4>1, <4>2
    <3>2. Class(delivered[i].m) = IF f.t \in Urgents THEN f.t ELSE "bulk"
      BY <1>15, <2>1, <3>1
    <3> QED
      BY <1>17, <2>1, <3>1, <3>2
  <2> QED
    BY <1>6, <2>2, <2>3
<1>21. NothingWaitsInVain'
  <2> SUFFICES ASSUME NEW m \in Ids(parts'), m \notin hist.shunned
               PROVE  F("done", m) \in OnTheWay' \/ F("abort", m) \in OnTheWay' \/ Asked(m, back')
    BY <1>1, <1>3, <1>9 DEF NothingWaitsInVain, Asked
  <2>1. m \in Ids(parts) /\ m # f.m
    OBVIOUS
  <2>2. F("done", m) \in OnTheWay \/ F("abort", m) \in OnTheWay \/ Asked(m, back)
    BY <1>2, <1>3, <2>1 DEF IInv, NothingWaitsInVain, Asked, Urgents
  <2>3. f # F("done", m) /\ f # F("abort", m)
    BY <2>1 DEF F
  <2>4. CASE Asked(m, back)
    <3>1. \A n \in 1 .. Len(back) : n \in 1 .. Len(back')
      BY <1>3
    <3> QED
      BY <2>4, <3>1 DEF Asked
  <2> QED
    BY <1>2, <2>2, <2>3, <2>4
<1> QED
  BY <1>2, <1>8, <1>10, <1>12, <1>16, <1>18, <1>19, <1>20, <1>21 DEF IInv
LEMMA PartOf ==
    ASSUME parts \in Seq(Piece), NEW m \in Ids(parts)
    PROVE  Part(m) \in ToSet(parts) /\ Part(m) \in Piece /\ Part(m).m = m /\ Part(m).got \subseteq Pages
<1>1. \E a \in ToSet(parts) : a.m = m
  BY IdsAre
<1>2. Part(m) \in ToSet(parts) /\ Part(m).m = m
  BY <1>1 DEF Part
<1>3. ToSet(parts) \subseteq Piece
  BY IdsAre
<1> QED
  BY <1>2, <1>3 DEF Piece

LEMMA NackOf ==
    ASSUME NEW a \in Piece, NEW w \in BOOLEAN
    PROVE  Nack(a, w) \in Request /\ Nack(a, w).t = "nack" /\ Nack(a, w).m = a.m
BY DEF Nack, Request, Piece, Missing

LEMMA AckOf ==
    ASSUME NEW m \in Nat
    PROVE  Ack(m) \in Request /\ Ack(m).t = "ack"
BY DEF Ack, Request

\* The parts again, with one of them touched.
LEMMA TouchedKept ==
    ASSUME IInv, NEW m \in Ids(parts), NEW q, q = Touched(Part(m))
    PROVE  q \in Seq(Piece) /\ Apart(q) /\ ~TooMuch(q) /\ Ids(q) = Ids(parts)
<1>1. parts \in Seq(Piece) /\ Apart(parts) /\ ~TooMuch(parts) /\ (\A k \in Ids(parts) : Sent(msgs, k)) /\ Types
  BY DEF IInv, Types, PartInv
<1>2. Part(m) \in ToSet(parts) /\ Part(m) \in Piece /\ Part(m).m = m
  BY <1>1, PartOf
<1>3. q = Append(Without(parts, Part(m).m), Part(m))
  BY DEF Touched
<1>4. /\ q \in Seq(Piece) /\ Apart(q) /\ Len(q) = Len(parts) /\ Ids(q) = Ids(parts)
      /\ ToSet(q) = {b \in ToSet(parts) : b.m # Part(m).m} \cup {Part(m)}
  BY <1>1, <1>2, <1>3, TouchedOne
<1>5. ToSet(q) \subseteq ToSet(parts)
  BY <1>2, <1>4
<1>6. Len(q) <= Len(parts)
  <2>1. Len(parts) \in Nat
    BY <1>1, LenProperties
  <2> QED
    BY <1>4, <2>1
<1> QED
  BY <1>1, <1>4, <1>5, <1>6, FewerFit

\* What is left of the parts of transfers the hub was given, when some had to go.
LEMMA EnforcedFits ==
    ASSUME IInv, NEW s \in Seq(Piece), Apart(s), \A m \in Ids(s) : Sent(msgs, m), NEW q, q = Enforced(s)
    PROVE  q \in Seq(Piece) /\ Apart(q) /\ ~TooMuch(q) /\ Ids(q) \subseteq Ids(s)
<1>1. Len(msgs) \in Nat
  BY DEF IInv, Types
<1>2. \A a \in ToSet(s) : a.m <= Len(msgs)
  <2>1. \A a \in ToSet(s) : a.m \in 1 .. Len(msgs)
    BY IdsAre DEF Sent
  <2> QED
    BY <1>1, <2>1
<1>3. q \in Seq(Piece) /\ Apart(q) /\ ToSet(q) \subseteq ToSet(s) /\ ~TooMuch(q)
  BY <1>1, <1>2, Fits
<1>4. Ids(q) = {a.m : a \in ToSet(q)} /\ Ids(s) = {a.m : a \in ToSet(s)}
  BY <1>3, IdsAre
<1> QED
  BY <1>3, <1>4

\* A frame that is answered by nothing, and hands nothing up.
LEMMA Silent ==
    ASSUME IInv, Takes, delivered' = delivered, back' = back, Head(wire).t # "hello",
           parts' \in Seq(Piece), Apart(parts'), ~TooMuch(parts'),
           \A m \in Ids(parts') : m \in Ids(parts) \/ (Head(wire).t = "begin" /\ Head(wire).m = m),
           Head(wire).t \in {"done", "abort"} => Head(wire).m \notin Ids(parts')
    PROVE  IInv'
<1>1. back \in Seq(Request) /\ Len(back) \in Nat
  BY BackSeq DEF IInv, Types
<1>2. \A n \in 1 .. Len(back') : ~(n > Len(back))
  BY <1>1
<1>3. Len(back) <= Len(back')
  BY <1>1
<1> QED
  BY <1>1, <1>2, <1>3, Received

LEMMA GreetedKeeps ==
    ASSUME IInv, Takes, Head(wire).t = "hello", PhoneGreeted
    PROVE  IInv'
<1> DEFINE q == [n \in DOMAIN parts |-> Nack(parts[n], TRUE)]
<1>1. F("hello", 0) \in ToSet(wire)
  BY WireTaken
<1>2. back = <<>> /\ \A g \in OnTheWay : g.m \notin Ids(parts)
  BY <1>1 DEF IInv, GreetInv
<1>3. /\ parts \in Seq(Piece) /\ Apart(parts) /\ ~TooMuch(parts) /\ Len(parts) \in Nat
      /\ DOMAIN parts = 1 .. Len(parts) /\ \A n \in 1 .. Len(parts) : parts[n] \in Piece
      /\ Ids(parts) = {parts[n].m : n \in 1 .. Len(parts)}
  BY IdsAre DEF IInv, Types, PartInv
<1>4. q = [n \in 1 .. Len(parts) |-> Nack(parts[n], TRUE)]
  BY <1>3
<1>5. \A n \in 1 .. Len(parts) : /\ Nack(parts[n], TRUE) \in Request /\ Nack(parts[n], TRUE).t = "nack"
                                 /\ Nack(parts[n], TRUE).m = parts[n].m
  BY <1>3, NackOf
<1>6. q \in Seq(Request) /\ Len(q) = Len(parts) /\ \A n \in 1 .. Len(parts) : q[n] = Nack(parts[n], TRUE)
  <2>1. q \in [1 .. Len(parts) -> Request]
    BY <1>4, <1>5
  <2>2. q \in Seq(Request)
    BY <1>3, <2>1, SeqDef
  <2>3. Len(q) = Len(parts)
    BY <1>3, <1>4, <2>2, LenProperties
  <2> QED
    BY <1>4, <2>2, <2>3
<1> HIDE DEF q
<1>7. back' = q /\ parts' = parts /\ delivered' = delivered
  <2>1. back' = back \o q /\ parts' = parts /\ delivered' = delivered
    BY DEF PhoneGreeted, q
  <2>2. \A r \in Seq(Request) : <<>> \o r = r
    OBVIOUS
  <2> QED
    BY <1>2, <1>6, <2>1, <2>2
<1>8. Len(back) = 0
  BY <1>2
<1>9. \A n \in 1 .. Len(back') :
        /\ back'[n].t = "nack" /\ back'[n].m = parts[n].m /\ back'[n].m \in Ids(parts)
        /\ \A k \in 1 .. Len(back') : back'[k].t = "nack" /\ back'[k].m = back'[n].m => k = n
  <2>1. \A n \in 1 .. Len(back') : n \in 1 .. Len(parts) /\ back'[n].t = "nack" /\ back'[n].m = parts[n].m
    BY <1>5, <1>6, <1>7
  <2> QED
    BY <1>3, <2>1 DEF Apart
<1>10. OnTheWay' \subseteq OnTheWay
  BY WireTaken
<1>11. \A m \in Ids(parts') : Asked(m, back')
  <2> SUFFICES ASSUME NEW m \in Ids(parts)
               PROVE  Asked(m, back')
    BY <1>7
  <2>1. PICK n \in 1 .. Len(parts) : parts[n].m = m
    BY <1>3
  <2>2. n \in 1 .. Len(back')
    BY <1>6, <1>7
  <2> QED
    BY <1>9, <2>1, <2>2 DEF Asked
<1>12. parts' \in Seq(Piece) /\ Apart(parts') /\ ~TooMuch(parts') /\ back' \in Seq(Request)
       /\ Len(back) <= Len(back') /\ (\A n \in 1 .. Len(back) : back'[n] = back[n])
       /\ \A m \in Ids(parts') : m \in Ids(parts)
  BY <1>3, <1>6, <1>7, <1>8
<1>13. \A n \in 1 .. Len(back') : n > Len(back) =>
         /\ back'[n].t = "nack" /\ back'[n].m \in Ids(parts)
         /\ \A g \in OnTheWay' : g.m # back'[n].m
         /\ \A k \in 1 .. Len(back') : back'[k].t = "nack" /\ back'[k].m = back'[n].m => k = n
  BY <1>2, <1>9, <1>10
<1> QED
  BY <1>7, <1>11, <1>12, <1>13, Received

LEMMA BeginsKeeps ==
    ASSUME IInv, Takes, Head(wire).t = "begin", PhoneBegins(Head(wire))
    PROVE  IInv'
<1> DEFINE f == Head(wire)
<1>1. UNCHANGED <<back, delivered>>
  BY DEF PhoneBegins
<1>2. f \in Frame /\ Truthful(f, msgs)
  BY WireTaken
<1>3. f.m \in Nat /\ Sent(msgs, f.m)
  BY <1>2 DEF Frame, Truthful, Urgents
<1>4. CASE f.m \in Ids(parts)
  <2>1. parts' = Touched(Part(f.m))
    BY <1>4 DEF PhoneBegins, Has
  <2>2. parts' \in Seq(Piece) /\ Apart(parts') /\ ~TooMuch(parts') /\ Ids(parts') = Ids(parts)
    BY <1>4, <2>1, TouchedKept
  <2> QED
    BY <1>1, <2>2, Silent
<1>5. CASE f.m \notin Ids(parts)
  <2> DEFINE a == [m |-> f.m, got |-> {}]
  <2>1. parts' = Enforced(Append(parts, a))
    BY <1>5 DEF PhoneBegins, Has
  <2>2. a \in Piece /\ a.m = f.m
    BY <1>3 DEF Piece
  <2>3. parts \in Seq(Piece) /\ Apart(parts) /\ \A m \in Ids(parts) : Sent(msgs, m)
    BY DEF IInv, Types, PartInv
  <2> HIDE DEF a
  <2>4. /\ Append(parts, a) \in Seq(Piece) /\ Apart(Append(parts, a))
        /\ ToSet(Append(parts, a)) = ToSet(parts) \cup {a}
    BY <1>5, <2>2, <2>3, OneMore
  <2>5. \A m \in Ids(Append(parts, a)) : m \in Ids(parts) \/ m = f.m
    <3>1. Ids(Append(parts, a)) = {b.m : b \in ToSet(Append(parts, a))} /\ Ids(parts) = {b.m : b \in ToSet(parts)}
      BY <2>3, <2>4, IdsAre
    <3> QED
      BY <2>2, <2>4, <3>1
  <2>6. \A m \in Ids(Append(parts, a)) : Sent(msgs, m)
    BY <1>3, <2>3, <2>5
  <2>7. /\ parts' \in Seq(Piece) /\ Apart(parts') /\ ~TooMuch(parts')
        /\ Ids(parts') \subseteq Ids(Append(parts, a))
    BY <2>1, <2>4, <2>6, EnforcedFits
  <2>8. \A m \in Ids(parts') : m \in Ids(parts) \/ (f.t = "begin" /\ f.m = m)
    BY <2>5, <2>7
  <2> QED
    BY <1>1, <2>7, <2>8, Silent
<1> QED
  BY <1>4, <1>5

LEMMA StoresKeeps ==
    ASSUME IInv, Takes, Head(wire).t = "data", PhoneStores(Head(wire))
    PROVE  IInv'
<1> DEFINE f == Head(wire)
<1>1. UNCHANGED <<back, delivered>>
  BY DEF PhoneStores
<1>2. parts \in Seq(Piece) /\ Apart(parts) /\ ~TooMuch(parts) /\ \A m \in Ids(parts) : Sent(msgs, m)
  BY DEF IInv, Types, PartInv
<1>3. CASE f.m \in Ids(parts) /\ f.p \in Missing(Part(f.m))
  <2> DEFINE a == [Part(f.m) EXCEPT !.got = @ \cup {f.p}]
  <2>1. parts' = Enforced(Touched(a))
    BY <1>3 DEF PhoneStores, Has
  <2>2. a \in Piece /\ a.m = f.m
    <3>1. Part(f.m) \in Piece /\ Part(f.m).m = f.m
      BY <1>2, <1>3, PartOf
    <3>2. f.p \in Pages
      BY <1>3 DEF Missing
    <3> QED
      BY <3>1, <3>2 DEF Piece
  <2> HIDE DEF a
  <2>3. Touched(a) \in Seq(Piece) /\ Apart(Touched(a)) /\ Ids(Touched(a)) = Ids(parts)
    <3>1. Touched(a) = Append(Without(parts, a.m), a)
      BY DEF Touched
    <3> QED
      BY <1>2, <1>3, <2>2, <3>1, TouchedOne
  <2>4. parts' \in Seq(Piece) /\ Apart(parts') /\ ~TooMuch(parts') /\ Ids(parts') \subseteq Ids(Touched(a))
    BY <1>2, <2>1, <2>3, EnforcedFits
  <2> QED
    BY <1>1, <2>3, <2>4, Silent
<1>4. CASE ~(f.m \in Ids(parts) /\ f.p \in Missing(Part(f.m)))
  <2>1. parts' = parts
    BY <1>4 DEF PhoneStores, Has
  <2> QED
    BY <1>1, <1>2, <2>1, Silent
<1> QED
  BY <1>3, <1>4

\* One of the parts goes.
LEMMA PartGone ==
    ASSUME IInv, NEW m, NEW q, q = Without(parts, m)
    PROVE  q \in Seq(Piece) /\ Apart(q) /\ ~TooMuch(q) /\ Ids(q) = Ids(parts) \ {m}
<1>1. parts \in Seq(Piece) /\ Apart(parts) /\ ~TooMuch(parts) /\ (\A k \in Ids(parts) : Sent(msgs, k)) /\ Types
  BY DEF IInv, Types, PartInv
<1>2. /\ q \in Seq(Piece) /\ Apart(q) /\ ToSet(q) = {a \in ToSet(parts) : a.m # m}
      /\ Len(q) = IF m \in Ids(parts) THEN Len(parts) - 1 ELSE Len(parts)
  BY <1>1, WithoutOne
<1>3. Len(q) <= Len(parts)
  <2>1. Len(parts) \in Nat
    BY <1>1, LenProperties
  <2> QED
    BY <1>2, <2>1
<1>4. ~TooMuch(q)
  BY <1>1, <1>2, <1>3, FewerFit
<1>5. Ids(q) = {a.m : a \in ToSet(q)} /\ Ids(parts) = {a.m : a \in ToSet(parts)}
  BY <1>1, <1>2, IdsAre
<1> QED
  BY <1>2, <1>4, <1>5

LEMMA AbortsKeeps ==
    ASSUME IInv, Takes, Head(wire).t = "abort", PhoneAborts(Head(wire))
    PROVE  IInv'
<1>1. UNCHANGED <<back, delivered>> /\ parts' = Without(parts, Head(wire).m)
  BY DEF PhoneAborts
<1>2. parts' \in Seq(Piece) /\ Apart(parts') /\ ~TooMuch(parts') /\ Ids(parts') = Ids(parts) \ {Head(wire).m}
  BY <1>1, PartGone
<1> QED
  BY <1>1, <1>2, Silent

LEMMA FinishesKeeps ==
    ASSUME IInv, Takes, Head(wire).t = "done", PhoneFinishes(Head(wire))
    PROVE  IInv'
<1> DEFINE f == Head(wire)
<1>1. parts \in Seq(Piece) /\ Apart(parts) /\ ~TooMuch(parts)
  BY DEF IInv, Types, PartInv
<1>2. /\ f \in Frame /\ f.m \in Nat /\ OnTheWay' \subseteq OnTheWay /\ f \in OnTheWay
      /\ \A g \in OnTheWay' : g.m # f.m
  <2>1. f \in Frame /\ OnTheWay = OnTheWay' \cup {f} /\ OnTheWay' \subseteq Afloat' /\ \A g \in Afloat' : g.m # f.m
    BY WireTaken
  <2> QED
    BY <2>1 DEF Frame
<1>3. /\ back \in Seq(Request) /\ Len(back) \in Nat
      /\ \A n \in 1 .. Len(back) : back[n].t = "nack" => back[n].m # f.m
  BY <1>2, BackSeq DEF IInv, Types, AskInv
<1>4. CASE f.m \notin Ids(parts)
  <2>1. UNCHANGED <<parts, back, delivered>>
    BY <1>4 DEF PhoneFinishes, Has
  <2> QED
    BY <1>1, <1>4, <2>1, Silent
<1> DEFINE a == Part(f.m)
<1>5. ASSUME f.m \in Ids(parts)
      PROVE  a \in Piece /\ a.m = f.m /\ a.got \subseteq Pages
  BY <1>1, <1>5, PartOf
<1>6. CASE f.m \in Ids(parts) /\ Missing(a) # {}
  <2>1. back' = Append(back, Nack(a, FALSE)) /\ parts' = Touched(a) /\ UNCHANGED delivered
    BY <1>6 DEF PhoneFinishes, Has
  <2> DEFINE q == Nack(a, FALSE)
  <2>2. q \in Request /\ q.t = "nack" /\ q.m = f.m
    BY <1>5, <1>6, NackOf
  <2> HIDE DEF q
  <2>3. /\ back' \in Seq(Request) /\ Len(back') = Len(back) + 1
        /\ \A n \in 1 .. Len(back) : back'[n] = back[n]
        /\ back'[Len(back) + 1] = q
    <3>1. back' = Append(back, q)
      BY <2>1 DEF q
    <3> QED
      BY <1>3, <2>2, <3>1, Grown
  <2>4. parts' \in Seq(Piece) /\ Apart(parts') /\ ~TooMuch(parts') /\ Ids(parts') = Ids(parts)
    BY <1>6, <2>1, TouchedKept
  <2>5. Len(back) <= Len(back') /\ Len(back) + 1 \in 1 .. Len(back')
        /\ \A n \in 1 .. Len(back') : n \in 1 .. Len(back) \/ n = Len(back) + 1
    BY <1>3, <2>3
  <2>6. \A k \in 1 .. Len(back') : back'[k].t = "nack" /\ back'[k].m = f.m => k = Len(back) + 1
    BY <1>3, <2>3, <2>5
  <2>7. \A n \in 1 .. Len(back') : n > Len(back) => n = Len(back) + 1
    BY <1>3, <2>3
  <2>8. \A n \in 1 .. Len(back') : n > Len(back) =>
          /\ back'[n].t = "nack" /\ back'[n].m \in Ids(parts)
          /\ \A g \in OnTheWay' : g.m # back'[n].m
          /\ \A k \in 1 .. Len(back') : back'[k].t = "nack" /\ back'[k].m = back'[n].m => k = n
    BY <1>2, <1>6, <2>2, <2>3, <2>6, <2>7
  <2>9. Asked(f.m, back')
    BY <2>2, <2>3, <2>5 DEF Asked
  <2> HIDE DEF a
  <2>10. \A m \in Ids(parts') : (f.t = "hello" \/ (f.t \in {"done", "abort"} /\ f.m = m)) => Asked(m, back')
    BY <2>9
  <2> QED
    BY <2>1, <2>3, <2>4, <2>5, <2>8, <2>10, Received
<1>7. CASE f.m \in Ids(parts) /\ Missing(a) = {}
  <2>1. /\ back' = Append(back, Ack(f.m)) /\ parts' = Without(parts, f.m)
        /\ delivered' = Append(delivered, [m |-> f.m, got |-> a.got])
    BY <1>7 DEF PhoneFinishes, Has
  <2>2. a.got = Pages
    BY <1>5, <1>7 DEF Missing
  <2>3. delivered' = Append(delivered, [m |-> f.m, got |-> Pages])
    BY <2>1, <2>2
  <2>4. Ack(f.m) \in Request /\ Ack(f.m).t = "ack"
    BY <1>2, AckOf
  <2>5. /\ back' \in Seq(Request) /\ Len(back') = Len(back) + 1
        /\ \A n \in 1 .. Len(back) : back'[n] = back[n]
        /\ back'[Len(back) + 1] = Ack(f.m)
    BY <1>3, <2>1, <2>4, Grown
  <2>6. Len(back) <= Len(back') /\ \A n \in 1 .. Len(back') : n > Len(back) => n = Len(back) + 1
    BY <1>3, <2>5
  <2>7. \A n \in 1 .. Len(back') : n > Len(back) => back'[n].t = "ack"
    BY <2>4, <2>5, <2>6
  <2>8. parts' \in Seq(Piece) /\ Apart(parts') /\ ~TooMuch(parts') /\ Ids(parts') = Ids(parts) \ {f.m}
    BY <2>1, PartGone
  <2> QED
    BY <2>3, <2>5, <2>6, <2>7, <2>8, HandedUp
<1> QED
  BY <1>4, <1>6, <1>7

LEMMA HandsUpKeeps ==
    ASSUME IInv, Takes, Head(wire).t \in Urgents \cup {"plain"}, PhoneHandsUp(Head(wire))
    PROVE  IInv'
<1> DEFINE f == Head(wire)
<1>1. delivered' = Append(delivered, [m |-> f.m, got |-> Pages]) /\ UNCHANGED <<parts, back>>
  BY DEF PhoneHandsUp
<1>2. parts \in Seq(Piece) /\ Apart(parts) /\ ~TooMuch(parts) /\ \A m \in Ids(parts) : Sent(msgs, m)
  BY DEF IInv, Types, PartInv
<1>3. Truthful(f, msgs)
  BY WireTaken
<1>4. msgs[f.m] = f.t /\ f.t # "transfer"
  BY <1>3 DEF Truthful, Urgents
<1>5. f.m \notin Ids(parts)
  BY <1>2, <1>4 DEF Sent
<1>6. Ids(parts') = Ids(parts) \ {f.m}
  BY <1>1, <1>5
<1>7. back \in Seq(Request) /\ Len(back) \in Nat
  BY BackSeq DEF IInv, Types
<1>8. Len(back) <= Len(back') /\ \A n \in 1 .. Len(back') : ~(n > Len(back))
  BY <1>1, <1>7
<1> QED
  BY <1>1, <1>2, <1>6, <1>7, <1>8, HandedUp

LEMMA PhoneReceivesKeeps ==
    ASSUME IInv, PhoneReceives
    PROVE  IInv'
<1>1. Takes
  BY DEF PhoneReceives, Takes
<1>2. \/ Head(wire).t = "hello" /\ PhoneGreeted
      \/ Head(wire).t = "begin" /\ PhoneBegins(Head(wire))
      \/ Head(wire).t = "data" /\ PhoneStores(Head(wire))
      \/ Head(wire).t = "done" /\ PhoneFinishes(Head(wire))
      \/ Head(wire).t = "abort" /\ PhoneAborts(Head(wire))
      \/ Head(wire).t \in Urgents \cup {"plain"} /\ PhoneHandsUp(Head(wire))
  BY DEF PhoneReceives
<1> QED
  BY <1>1, <1>2, GreetedKeeps, BeginsKeeps, StoresKeeps, FinishesKeeps, AbortsKeeps, HandsUpKeeps

-----------------------------------------------------------------------------
(* The invariant, and what follows from it.                                *)

LEMMA InitKeeps ==
    ASSUME Init
    PROVE  IInv
<1>1. /\ open = FALSE /\ msgs = <<>> /\ urgent = NoneQueued /\ bulk = <<>> /\ pumping = FALSE /\ held = None
      /\ wire = <<>> /\ back = <<>> /\ retained = <<>> /\ listed = FALSE /\ parts = <<>> /\ delivered = <<>>
      /\ hist = [losses |-> 0, resent |-> {}, shunned |-> {}, dropped |-> {}]
  BY DEF Init
<1>2. /\ Len(msgs) = 0 /\ (\A c \in Urgents : Len(urgent[c]) = 0 /\ ToSet(urgent[c]) = {}) /\ Len(bulk) = 0 /\ Len(wire) = 0 /\ Len(back) = 0
      /\ Len(retained) = 0 /\ Len(parts) = 0 /\ Len(delivered) = 0 /\ DOMAIN delivered = {} /\ DOMAIN parts = {}
      /\ ToSet(wire) = {} /\ ToSet(bulk) = {} /\ Queued = {} /\ ToSet(retained) = {} /\ ToSet(parts) = {}
  BY <1>1 DEF ToSet, NoneQueued, Queued
<1>3. 0 <= MaxMessages /\ 0 <= BulkLimit /\ 0 <= RetainLimit /\ 0 <= PageLimit /\ ~(0 > AssemblyLimit) /\ ~(0 > PageLimit)
  BY TransferAssumption
<1>4. OnTheWay = {None} /\ Ids(parts) = {}
  BY <1>1, <1>2 DEF OnTheWay, Ids
<1>5. Types
  <2>1. hist \in History
    BY <1>1 DEF History
  <2>2. open \in BOOLEAN /\ pumping \in BOOLEAN /\ listed \in BOOLEAN
    BY <1>1
  <2>3. /\ msgs \in Seq(Kinds) /\ urgent \in [Urgents -> Seq(Frame)] /\ bulk \in Seq(Frame) /\ wire \in Seq(Frame)
        /\ held \in Frame /\ back \in Seq(Request) /\ retained \in Seq(Nat)
        /\ parts \in Seq(Piece) /\ delivered \in Seq(Piece)
    BY <1>1, NoneIs DEF NoneQueued
  <2>4. Len(msgs) <= MaxMessages /\ Len(bulk) <= BulkLimit
    BY <1>2, <1>3
  <2> QED
    BY <2>1, <2>2, <2>3, <2>4 DEF Types
<1>6. FrameInv /\ LineInv /\ EndInv /\ AskInv /\ GoneInv /\ GreetInv /\ AgeInv
  BY <1>1, <1>2, <1>4, NoneIs DEF FrameInv, LineInv, InLine, Ahead, EndInv, AskInv, GoneInv, GreetInv, AgeInv, Urgents
<1>7. PartInv
  <2>1. Total(parts) = 0
    <3>1. UNION {{a.m} \X a.got : a \in ToSet(parts)} = {}
      BY <1>2
    <3> QED
      BY <3>1, FS_EmptySet DEF Total
  <2> QED
    BY <1>2, <1>3, <1>4, <2>1 DEF PartInv, Apart, TooMuch
<1>8. KeepInv /\ ClosedInv
  BY <1>1, <1>2, <1>3 DEF KeepInv, Single, ClosedInv
<1>9. DeliveredOnceAndWhole /\ OrderKept /\ NothingWaitsInVain
  BY <1>1, <1>2 DEF DeliveredOnceAndWhole, OrderKept, NothingWaitsInVain
<1> QED
  BY <1>5, <1>6, <1>7, <1>8, <1>9 DEF IInv

LEMMA NextKeeps ==
    ASSUME IInv, [Next]_vars
    PROVE  IInv'
<1>1. CASE (\E c \in Urgents : SendUrgent(c)) \/ SendPriority
  BY <1>1, SendUrgentKeeps, SendPriorityKeeps
<1>2. CASE SendBulk("plain") \/ SendBulk("transfer")
  BY <1>2, SendBulkKeeps
<1>3. CASE PumpTakes
  BY <1>3, PumpTakesKeeps
<1>4. CASE PumpSends
  BY <1>4, PumpSendsKeeps
<1>5. CASE HubReceives
  BY <1>5, HubReceivesKeeps
<1>6. CASE RetainedExpires
  BY <1>6, RetainedExpiresKeeps
<1>7. CASE PhoneReceives
  BY <1>7, PhoneReceivesKeeps
<1>8. CASE PartExpires
  BY <1>8, PartExpiresKeeps
<1>9. CASE BucketSwept
  BY <1>9, BucketSweptKeeps
<1>10. CASE Opens
  BY <1>10, OpensKeeps
<1>11. CASE Closes
  BY <1>11, ClosesKeeps
<1>12. CASE UNCHANGED vars
  BY <1>12, StutterKeeps
<1>13. CASE PumpRests
  BY <1>13, PumpRestsKeeps
<1> QED
  BY <1>1, <1>2, <1>3, <1>4, <1>5, <1>6, <1>7, <1>8, <1>9, <1>10, <1>11, <1>12, <1>13 DEF Next

\* What keeps the two ends of a channel in step holds in every state: the order of
\* the frames under way, the end of every transfer that is begun, the requests of
\* the phone, and what is kept (onBinaryFrame, pumpSendQueue, the assembler).
THEOREM TransferInvariant == Spec => []IInv
<1>1. Init => IInv
  BY InitKeeps
<1>2. IInv /\ [Next]_vars => IInv'
  BY NextKeeps
<1> QED
  BY <1>1, <1>2, PTL DEF Spec

\* The queues, the bucket and the assembler stay within their limits; no two parts
\* are of one transfer; a channel that is down has nothing left of it.
THEOREM TransferTypeCorrect == Spec => []TypeOK
<1>1. IInv => TypeOK
  <2> SUFFICES ASSUME IInv
               PROVE  TypeOK
    OBVIOUS
  <2>1. {open, pumping, listed} \subseteq BOOLEAN
    BY DEF IInv, Types
  <2>2. msgs \in BoundedSeq(Kinds, MaxMessages)
    <3>1. msgs \in Seq(Kinds) /\ Len(msgs) <= MaxMessages /\ Len(msgs) \in Nat /\ MaxMessages \in Nat
      BY TransferAssumption DEF IInv, Types
    <3>2. msgs \in [1 .. Len(msgs) -> Kinds]
      BY <3>1, LenProperties
    <3>3. Len(msgs) \in 0 .. MaxMessages
      BY <3>1
    <3> QED
      BY <3>2, <3>3 DEF BoundedSeq, SeqOf
  <2>3. Len(bulk) <= BulkLimit
    BY DEF IInv, Types
  <2>4. /\ IsInjective(retained) /\ Len(retained) <= RetainLimit
        /\ \A n \in DOMAIN retained : msgs[retained[n]] = "transfer"
    <3>1. /\ retained \in Seq(Nat) /\ Single(retained) /\ Len(retained) <= RetainLimit
          /\ \A m \in ToSet(retained) : Sent(msgs, m)
      BY DEF IInv, Types, KeepInv
    <3>2. DOMAIN retained = 1 .. Len(retained) /\ ToSet(retained) = {retained[i] : i \in 1 .. Len(retained)}
      BY <3>1, NatSeq
    <3> QED
      BY <3>1, <3>2 DEF IsInjective, Single, Sent
  <2>5. ~TooMuch(parts) /\ Cardinality(Ids(parts)) = Len(parts)
    BY CountedOnce DEF IInv, Types, PartInv
  <2>6. ~open => bulk = <<>> /\ urgent = NoneQueued /\ wire = <<>> /\ back = <<>> /\ held = None
    BY DEF IInv, ClosedInv
  <2> QED
    BY <2>1, <2>2, <2>3, <2>4, <2>5, <2>6 DEF TypeOK
<1> QED
  BY <1>1, TransferInvariant, PTL

\* However many channels are lost, and whatever is asked for again, the phone hands
\* up a message once, and a transfer with all its pages (tryFinish of the assembler).
THEOREM DeliveriesAreWhole == Spec => []DeliveredOnceAndWhole
<1>1. IInv => DeliveredOnceAndWhole
  BY DEF IInv
<1> QED
  BY <1>1, TransferInvariant, PTL

\* Within a class (control, interactive, bulk) the order of sending is the order of
\* handing up, but for what was sent again (admitFrames, pumpSendQueue with its three
\* queues, trySend past idle queues, sendPriority never past them).
THEOREM OrderIsKept == Spec => []OrderKept
<1>1. IInv => OrderKept
  BY DEF IInv
<1> QED
  BY <1>1, TransferInvariant, PTL

\* While the channel is up, no part at the phone waits for its timeout: its end, an
\* abort or the phone's own request is under way, unless the answer did not fit.
THEOREM NoPartStranded == Spec => []NothingWaitsInVain
<1>1. IInv => NothingWaitsInVain
  BY DEF IInv
<1> QED
  BY <1>1, TransferInvariant, PTL
=============================================================================
