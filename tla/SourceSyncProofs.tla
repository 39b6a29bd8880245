--------------------------- MODULE SourceSyncProofs ---------------------------
(***************************************************************************)
(* What the relay sends and what the hub has recorded fit together: within *)
(* an epoch the hub meets the events in sequence, whatever sockets drop,   *)
(* registrations wait and snapshots are taken in between.                  *)
(*                                                                         *)
(* RelayInSequence looks at the front of the channel only; what makes it   *)
(* stay true is what is behind.  SeqInv says it of all of it: events and   *)
(* snapshots are numbered along the channel (Numbered), the relay's own    *)
(* number is that of the end (UpTo), the hub's record that of the front    *)
(* (Linked), a registration that is under way or unanswered has nothing    *)
(* numbered behind it (Unanswered), and the answer to one that has ended   *)
(* is not there (AnswerInv).  The phone plays no part in any of this.      *)
(*                                                                         *)
(* The properties of the phone need more: which items the numbers stand    *)
(* for.  HistoryInv says that the events of an epoch carry consecutive     *)
(* items (WorldOK), that every snapshot and event under way, recorded,     *)
(* waiting or buffered says something true of them (FrameOK, RecordOK,     *)
(* MsgOK, BufferOK), and that what the phone shows joins up with the event *)
(* its cursor is at (Joined in CursorOK).  The cursor that is stored is    *)
(* one more cursor, of the same or of an earlier epoch.  All of it is a    *)
(* statement about one record (World), so that the lemmas about what the   *)
(* phone does on a message have no step in them, and a step of the relay   *)
(* or of the hub only has to show how that record grows (Grows).           *)
(*                                                                         *)
(* That what is shown stays (ShownStaysShown) rests on what is under way   *)
(* between the hub and the phone, whatever it stands for: ShowInv.         *)
(***************************************************************************)
EXTENDS SourceSync, FiniteSetTheorems, WellFoundedInduction, SequenceTheorems, TLAPS

\* The frames that carry an event's number, and what a frame adds to the numbering.
Carries(f) == f.kind \in {"event", "snapshot"}
One(f) == IF f.kind = "event" THEN 1 ELSE 0

\* No event between two places of a channel.
Quiet(s, i, j) == \A k \in (i + 1) .. (j - 1) : s[k].kind # "event"

\* Along a channel epochs do not go back, and within one each frame goes on where
\* the one before it had got.
Numbered(s) ==
    \A i, j \in 1 .. Len(s) :
        i < j /\ Carries(s[i]) /\ Carries(s[j]) =>
            /\ s[i].epoch <= s[j].epoch
            /\ s[i].epoch = s[j].epoch /\ Quiet(s, i, j) => s[j].seq = s[i].seq + One(s[j])

\* The sender's epoch and number are those of the end of the channel ...
UpTo(s, e, n) ==
    \A i \in 1 .. Len(s) :
        Carries(s[i]) =>
            /\ s[i].epoch <= e
            /\ s[i].epoch = e /\ Quiet(s, i, Len(s) + 1) => s[i].seq = n

\* ... and the receiver's those of its front.
Linked(s, er, nr, e, n) ==
    /\ er <= e
    /\ er = e /\ Quiet(s, 0, Len(s) + 1) => nr = n
    /\ \A j \in 1 .. Len(s) :
           Carries(s[j]) =>
               /\ er <= s[j].epoch
               /\ er = s[j].epoch /\ Quiet(s, 0, j) => s[j].seq = nr + One(s[j])

\* A channel is a sequence of frames, whatever else the frames say.
IsChannel(s) == \E S : s \in Seq(S)
Frames(s) == \A i \in 1 .. Len(s) : s[i].epoch \in Nat /\ s[i].seq \in Nat

-----------------------------------------------------------------------------
(* Channels.                                                               *)

LEMMA Appended ==
    ASSUME NEW s, IsChannel(s), NEW f
    PROVE  /\ IsChannel(Append(s, f)) /\ Len(s) \in Nat /\ Len(Append(s, f)) = Len(s) + 1
           /\ Append(s, f)[Len(s) + 1] = f
           /\ \A i \in 1 .. Len(s) : Append(s, f)[i] = s[i]
<1>1. PICK S : s \in Seq(S)
  BY DEF IsChannel
<1>2. s \in Seq(S \cup {f}) /\ f \in S \cup {f}
  BY <1>1
<1>3. Append(s, f) \in Seq(S \cup {f})
  BY <1>2
<1> QED
  BY <1>2, <1>3 DEF IsChannel

LEMMA Tailed ==
    ASSUME NEW s, IsChannel(s), s # <<>>
    PROVE  /\ IsChannel(Tail(s)) /\ Len(s) \in Nat /\ Len(s) >= 1 /\ Len(Tail(s)) = Len(s) - 1
           /\ Head(s) = s[1]
           /\ \A i \in 1 .. Len(s) - 1 : Tail(s)[i] = s[i + 1]
<1>1. PICK S : s \in Seq(S)
  BY DEF IsChannel
<1> QED
  BY <1>1 DEF IsChannel

LEMMA EmptyChannel ==
    IsChannel(<<>>) /\ Len(<<>>) = 0
BY DEF IsChannel

\* A frame that carries no number changes nothing.
LEMMA OtherFrame ==
    ASSUME NEW s, IsChannel(s), Frames(s), NEW f, ~Carries(f), f.epoch \in Nat, f.seq \in Nat,
           NEW e \in Nat, NEW n \in Nat
    PROVE  /\ Frames(Append(s, f))
           /\ Numbered(s) => Numbered(Append(s, f))
           /\ UpTo(s, e, n) => UpTo(Append(s, f), e, n)
           /\ \A er, nr : Linked(s, er, nr, e, n) => Linked(Append(s, f), er, nr, e, n)
<1> DEFINE t == Append(s, f)
<1>1. /\ Len(s) \in Nat /\ Len(t) = Len(s) + 1 /\ t[Len(t)] = f
      /\ \A i \in 1 .. Len(s) : t[i] = s[i]
  BY Appended
<1> HIDE DEF t
<1>2. \A i \in 1 .. Len(t) : i \in 1 .. Len(s) \/ (i = Len(t) /\ t[i] = f)
  BY <1>1
<1>3. Frames(t)
  BY <1>1, <1>2 DEF Frames
<1>4. \A i, j \in 0 .. Len(s) : Quiet(t, i, j) => Quiet(s, i, j)
  BY <1>1 DEF Quiet
<1>5. \A i \in 0 .. Len(s) : Quiet(t, i, Len(t) + 1) => Quiet(s, i, Len(s) + 1)
  BY <1>1 DEF Quiet
<1>6. Numbered(s) => Numbered(t)
  BY <1>1, <1>2, <1>4 DEF Numbered
<1>7. UpTo(s, e, n) => UpTo(t, e, n)
  BY <1>1, <1>2, <1>5 DEF UpTo
<1>8. ASSUME NEW er, NEW nr, Linked(s, er, nr, e, n) PROVE Linked(t, er, nr, e, n)
  BY <1>1, <1>2, <1>4, <1>5, <1>8 DEF Linked
<1> QED
  BY <1>3, <1>6, <1>7, <1>8 DEF t

\* The next frame of the sender's epoch, or the first of a new one.
LEMMA NextFrame ==
    ASSUME NEW s, IsChannel(s), Frames(s), NEW f, Carries(f), f.epoch \in Nat, f.seq \in Nat,
           NEW e \in Nat, NEW n \in Nat, Numbered(s), UpTo(s, e, n),
           \/ f.epoch = e /\ f.seq = n + One(f)
           \/ f.epoch > e
    PROVE  /\ Frames(Append(s, f)) /\ Numbered(Append(s, f)) /\ UpTo(Append(s, f), f.epoch, f.seq)
           /\ \A er \in Nat, nr \in Nat :
                Linked(s, er, nr, e, n) => Linked(Append(s, f), er, nr, f.epoch, f.seq)
<1> DEFINE t == Append(s, f)
<1>1. /\ Len(s) \in Nat /\ Len(t) = Len(s) + 1 /\ t[Len(t)] = f
      /\ \A i \in 1 .. Len(s) : t[i] = s[i]
  BY Appended
<1> HIDE DEF t
<1>2. \A i \in 1 .. Len(t) : i \in 1 .. Len(s) \/ (i = Len(t) /\ t[i] = f)
  BY <1>1
<1>3. Frames(t)
  BY <1>1, <1>2 DEF Frames
<1>4. \A i, j \in 0 .. Len(s) : Quiet(t, i, j) => Quiet(s, i, j)
  BY <1>1, SMTT(30) DEF Quiet
<1>5. \A i \in 0 .. Len(s) : Quiet(t, i, Len(t)) => Quiet(s, i, Len(s) + 1)
  BY <1>1 DEF Quiet
<1>6. \A i \in 0 .. Len(s) : Quiet(t, i, Len(t) + 1) => Quiet(s, i, Len(s) + 1) /\ f.kind # "event"
  BY <1>1 DEF Quiet
<1>7. Numbered(t)
  <2> SUFFICES ASSUME NEW i \in 1 .. Len(t), NEW j \in 1 .. Len(t), i < j, Carries(t[i]), Carries(t[j])
               PROVE  /\ t[i].epoch <= t[j].epoch
                      /\ t[i].epoch = t[j].epoch /\ Quiet(t, i, j) => t[j].seq = t[i].seq + One(t[j])
    BY DEF Numbered
  <2>1. i \in 1 .. Len(s) /\ t[i] = s[i]
    BY <1>1
  <2>2. CASE j \in 1 .. Len(s)
    BY <1>1, <1>4, <2>1, <2>2 DEF Numbered
  <2>3. CASE j = Len(t)
    <3>1. s[i].epoch <= e /\ s[i].epoch \in Nat /\ (s[i].epoch = e /\ Quiet(s, i, Len(s) + 1) => s[i].seq = n)
      BY <2>1 DEF UpTo, Frames
    <3>2. t[j] = f /\ (Quiet(t, i, j) => Quiet(s, i, Len(s) + 1))
      BY <1>1, <1>5, <2>1, <2>3
    <3> QED
      BY <2>1, <3>1, <3>2
  <2> QED
    BY <1>2, <2>2, <2>3
<1>8. UpTo(t, f.epoch, f.seq)
  <2> SUFFICES ASSUME NEW i \in 1 .. Len(t), Carries(t[i])
               PROVE  /\ t[i].epoch <= f.epoch
                      /\ t[i].epoch = f.epoch /\ Quiet(t, i, Len(t) + 1) => t[i].seq = f.seq
    BY DEF UpTo
  <2>1. CASE i \in 1 .. Len(s)
    <3>1. /\ t[i] = s[i] /\ s[i].epoch <= e /\ s[i].epoch \in Nat
          /\ (s[i].epoch = e /\ Quiet(s, i, Len(s) + 1) => s[i].seq = n)
      BY <1>1, <2>1 DEF UpTo, Frames
    <3>2. Quiet(t, i, Len(t) + 1) => Quiet(s, i, Len(s) + 1) /\ One(f) = 0
      BY <1>6, <2>1 DEF One
    <3> QED
      BY <3>1, <3>2
  <2>2. CASE i = Len(t)
    BY <1>1, <2>2
  <2> QED
    BY <1>2, <2>1, <2>2
<1>9. ASSUME NEW er \in Nat, NEW nr \in Nat, Linked(s, er, nr, e, n)
      PROVE  Linked(t, er, nr, f.epoch, f.seq)
  <2>1. er <= f.epoch
    BY <1>9 DEF Linked
  <2>2. er = f.epoch /\ Quiet(t, 0, Len(t) + 1) => nr = f.seq
    BY <1>1, <1>6, <1>9 DEF Linked, One
  <2>3. ASSUME NEW j \in 1 .. Len(t), Carries(t[j])
        PROVE  er <= t[j].epoch /\ (er = t[j].epoch /\ Quiet(t, 0, j) => t[j].seq = nr + One(t[j]))
    <3>1. CASE j \in 1 .. Len(s)
      BY <1>1, <1>4, <1>9, <2>3, <3>1 DEF Linked
    <3>2. CASE j = Len(t)
      <4>1. t[j] = f /\ (Quiet(t, 0, j) => Quiet(s, 0, Len(s) + 1))
        BY <1>1, <1>5, <3>2
      <4> QED
        BY <1>9, <2>1, <4>1 DEF Linked
    <3> QED
      BY <1>2, <3>1, <3>2
  <2> QED
    BY <2>1, <2>2, <2>3 DEF Linked
<1> QED
  BY <1>3, <1>7, <1>8, <1>9 DEF t

\* What is left of a channel when its first frame is taken off.
LEMMA RestOfChannel ==
    ASSUME NEW s, IsChannel(s), Frames(s), s # <<>>, NEW e \in Nat, NEW n \in Nat,
           Numbered(s), UpTo(s, e, n)
    PROVE  /\ Frames(Tail(s)) /\ Numbered(Tail(s)) /\ UpTo(Tail(s), e, n)
           /\ Carries(Head(s)) => Linked(Tail(s), Head(s).epoch, Head(s).seq, e, n)
<1> DEFINE t == Tail(s)
<1>1. /\ Len(s) \in Nat /\ Len(s) >= 1 /\ Len(t) = Len(s) - 1 /\ Head(s) = s[1]
      /\ \A i \in 1 .. Len(s) - 1 : t[i] = s[i + 1]
  BY Tailed
<1> HIDE DEF t
<1>2. \A i \in 1 .. Len(t) : i + 1 \in 1 .. Len(s) /\ t[i] = s[i + 1]
  BY <1>1
<1>3. Frames(t)
  BY <1>2 DEF Frames
<1>4. \A i \in 0 .. Len(t), j \in 0 .. Len(t) + 1 : Quiet(t, i, j) => Quiet(s, i + 1, j + 1)
  <2> SUFFICES ASSUME NEW i \in 0 .. Len(t), NEW j \in 0 .. Len(t) + 1, Quiet(t, i, j)
               PROVE  Quiet(s, i + 1, j + 1)
    OBVIOUS
  <2> SUFFICES ASSUME NEW k \in (i + 1 + 1) .. (j + 1 - 1) PROVE s[k].kind # "event"
    BY DEF Quiet
  <2>1. k - 1 \in (i + 1) .. (j - 1) /\ k - 1 \in 1 .. Len(s) - 1 /\ k = (k - 1) + 1
    BY <1>1
  <2>2. t[k - 1] = s[k]
    BY <1>1, <2>1
  <2> QED
    BY <2>1, <2>2 DEF Quiet
<1>5. Numbered(t)
  <2> SUFFICES ASSUME NEW i \in 1 .. Len(t), NEW j \in 1 .. Len(t), i < j, Carries(t[i]), Carries(t[j])
               PROVE  /\ t[i].epoch <= t[j].epoch
                      /\ t[i].epoch = t[j].epoch /\ Quiet(t, i, j) => t[j].seq = t[i].seq + One(t[j])
    BY DEF Numbered
  <2>1. /\ i + 1 \in 1 .. Len(s) /\ j + 1 \in 1 .. Len(s) /\ i + 1 < j + 1
        /\ t[i] = s[i + 1] /\ t[j] = s[j + 1]
    BY <1>2
  <2>2. Quiet(t, i, j) => Quiet(s, i + 1, j + 1)
    BY <1>1, <1>4
  <2> QED
    BY <2>1, <2>2 DEF Numbered
<1>6. UpTo(t, e, n)
  <2> SUFFICES ASSUME NEW i \in 1 .. Len(t), Carries(t[i])
               PROVE  /\ t[i].epoch <= e
                      /\ t[i].epoch = e /\ Quiet(t, i, Len(t) + 1) => t[i].seq = n
    BY DEF UpTo
  <2>1. i + 1 \in 1 .. Len(s) /\ t[i] = s[i + 1] /\ Len(t) + 1 + 1 = Len(s) + 1
    BY <1>1, <1>2
  <2>2. Quiet(t, i, Len(t) + 1) => Quiet(s, i + 1, Len(s) + 1)
    BY <1>1, <1>4, <2>1
  <2> QED
    BY <2>1, <2>2 DEF UpTo
<1>7. ASSUME Carries(s[1]) PROVE Linked(t, s[1].epoch, s[1].seq, e, n)
  <2>1. s[1].epoch <= e /\ (s[1].epoch = e /\ Quiet(s, 1, Len(s) + 1) => s[1].seq = n)
    BY <1>1, <1>7 DEF UpTo
  <2>2. Quiet(t, 0, Len(t) + 1) => Quiet(s, 1, Len(s) + 1)
    BY <1>1, <1>4
  <2>3. ASSUME NEW j \in 1 .. Len(t), Carries(t[j])
        PROVE  /\ s[1].epoch <= t[j].epoch
               /\ s[1].epoch = t[j].epoch /\ Quiet(t, 0, j) => t[j].seq = s[1].seq + One(t[j])
    <3>1. j + 1 \in 1 .. Len(s) /\ 1 < j + 1 /\ t[j] = s[j + 1] /\ 1 \in 1 .. Len(s)
      BY <1>1, <1>2
    <3>2. Quiet(t, 0, j) => Quiet(s, 1, j + 1)
      BY <1>1, <1>4
    <3> QED
      BY <1>7, <2>3, <3>1, <3>2 DEF Numbered
  <2> QED
    BY <2>1, <2>2, <2>3 DEF Linked
<1> QED
  BY <1>1, <1>3, <1>5, <1>6, <1>7 DEF t

\* A first frame that carries no number, or an event of another epoch than the
\* receiver's, may be passed over.
LEMMA PassedOver ==
    ASSUME NEW s, IsChannel(s), Frames(s), s # <<>>, NEW e \in Nat, NEW n \in Nat,
           NEW er \in Nat, NEW nr \in Nat,
           Numbered(s), UpTo(s, e, n), Linked(s, er, nr, e, n),
           \/ ~Carries(Head(s))
           \/ Carries(Head(s)) /\ Head(s).epoch # er
    PROVE  Linked(Tail(s), er, nr, e, n)
<1> DEFINE t == Tail(s)
<1>1. /\ Len(s) \in Nat /\ Len(s) >= 1 /\ Len(t) = Len(s) - 1 /\ Head(s) = s[1]
      /\ \A i \in 1 .. Len(s) - 1 : t[i] = s[i + 1]
  BY Tailed
<1> HIDE DEF t
<1>2. \A i \in 1 .. Len(t) : i + 1 \in 1 .. Len(s) /\ t[i] = s[i + 1]
  BY <1>1
<1>3. ASSUME ~Carries(s[1]) PROVE Linked(t, er, nr, e, n)
  <2>1. \A j \in 1 .. Len(t) + 1 : Quiet(t, 0, j) => Quiet(s, 0, j + 1)
    <3> SUFFICES ASSUME NEW j \in 1 .. Len(t) + 1, Quiet(t, 0, j), NEW k \in 1 .. j
                 PROVE  s[k].kind # "event"
      BY DEF Quiet
    <3>1. CASE k = 1
      BY <1>3, <3>1 DEF Carries
    <3>2. CASE k # 1
      <4>1. k - 1 \in 1 .. (j - 1) /\ k - 1 \in 1 .. Len(s) - 1 /\ k = (k - 1) + 1
        BY <1>1, <3>2
      <4>2. t[k - 1] = s[k]
        BY <1>1, <4>1
      <4> QED
        BY <4>1, <4>2 DEF Quiet
    <3> QED
      BY <3>1, <3>2
  <2>2. er <= e
    BY DEF Linked
  <2>3. er = e /\ Quiet(t, 0, Len(t) + 1) => nr = n
    BY <1>1, <2>1 DEF Linked
  <2>4. ASSUME NEW j \in 1 .. Len(t), Carries(t[j])
        PROVE  er <= t[j].epoch /\ (er = t[j].epoch /\ Quiet(t, 0, j) => t[j].seq = nr + One(t[j]))
    BY <1>1, <1>2, <2>1, <2>4, SMTT(30) DEF Linked
  <2> QED
    BY <2>2, <2>3, <2>4 DEF Linked
<1>4. ASSUME Carries(s[1]), s[1].epoch # er PROVE Linked(t, er, nr, e, n)
  <2>1. er < s[1].epoch /\ s[1].epoch <= e /\ s[1].epoch \in Nat
    BY <1>1, <1>4 DEF Linked, UpTo, Frames
  <2>2. ASSUME NEW j \in 1 .. Len(t), Carries(t[j])
        PROVE  er < t[j].epoch /\ t[j].epoch \in Nat
    <3>1. j + 1 \in 1 .. Len(s) /\ 1 < j + 1 /\ t[j] = s[j + 1] /\ 1 \in 1 .. Len(s)
      BY <1>1, <1>2
    <3>2. s[1].epoch <= s[j + 1].epoch /\ s[j + 1].epoch \in Nat
      BY <1>4, <2>2, <3>1 DEF Numbered, Frames
    <3> QED
      BY <2>1, <3>1, <3>2
  <2> QED
    BY <2>1, <2>2 DEF Linked
<1> QED
  BY <1>1, <1>3, <1>4 DEF t

-----------------------------------------------------------------------------
(* The hub's record.                                                       *)

HasFields(r) ==
    /\ r = [epoch |-> r.epoch, snapshot |-> r.snapshot, ring |-> r.ring, lastSeq |-> r.lastSeq,
            connected |-> r.connected]
    /\ r.epoch \in Nat /\ r.lastSeq \in Nat

LEMMA SnapshotSet ==
    ASSUME NEW r, HasFields(r), NEW e \in Nat, NEW b \in Nat
    PROVE  /\ HasFields(SetSnapshot(r, e, b)) /\ SetSnapshot(r, e, b).epoch = e
           /\ SetSnapshot(r, e, b).lastSeq
                = IF r.epoch = e /\ r.lastSeq >= b THEN r.lastSeq ELSE b
<1> DEFINE s == SwitchEpoch(r, e)
<1> DEFINE ring == Restrict(s.ring, {n \in DOMAIN s.ring : s.ring[n].epoch = e /\ n > b})
<1> DEFINE snap == [epoch |-> e, baseSeq |-> b]
<1> DEFINE last == IF s.lastSeq >= b THEN s.lastSeq ELSE b
<1>1. HasFields(s) /\ s.epoch = e /\ s.lastSeq = IF r.epoch = e THEN r.lastSeq ELSE 0
  BY DEF SwitchEpoch, NewRecord, HasFields
<1>2. SetSnapshot(r, e, b) = [s EXCEPT !.snapshot = snap, !.lastSeq = last, !.ring = ring]
  BY DEF SetSnapshot
<1> HIDE DEF s, ring, snap
<1>3. last \in Nat /\ last = IF r.epoch = e /\ r.lastSeq >= b THEN r.lastSeq ELSE b
  BY <1>1 DEF HasFields
<1> HIDE DEF last
<1>4. SetSnapshot(r, e, b) = [epoch |-> s.epoch, snapshot |-> snap, ring |-> ring, lastSeq |-> last,
                              connected |-> s.connected]
  BY <1>1, <1>2 DEF HasFields
<1> QED
  BY <1>1, <1>3, <1>4 DEF HasFields

LEMMA EventRecorded ==
    ASSUME NEW r, HasFields(r), NEW e \in Nat, NEW n \in Nat
    PROVE  /\ HasFields(RecordDesktopEvent(r, e, n, 0))
           /\ RecordDesktopEvent(r, e, n, 0).epoch = r.epoch
           /\ RecordDesktopEvent(r, e, n, 0).lastSeq = n
<1> DEFINE ring == Trim(AddEvent(r.ring, n, [epoch |-> e, size |-> 0]))
<1>1. RecordDesktopEvent(r, e, n, 0) = [r EXCEPT !.lastSeq = n, !.ring = ring]
  BY DEF RecordDesktopEvent, Push
<1> HIDE DEF ring
<1> QED
  BY <1>1 DEF HasFields

-----------------------------------------------------------------------------
(* The inductive invariant.                                                *)

RelayInv ==
    /\ log \in Seq(Seq(Nat)) /\ produced \in Nat
    /\ relay \in [open : BOOLEAN, registered : BOOLEAN, beating : BOOLEAN, epoch : Nat, seq : Nat]
    /\ relay.epoch = Len(log)
    /\ relay.registered => relay.open
    /\ relay.open => relay.epoch > 0
    /\ ~relay.open => up = <<>> /\ desk = "none"

StreamInv ==
    /\ IsChannel(up) /\ Frames(up)
    /\ Numbered(up) /\ UpTo(up, relay.epoch, relay.seq)

\* An epoch whose registration the relay has sent and the hub has not answered:
\* no event or snapshot of it is under way, and none will be.
Unanswered(e, r, s) ==
    /\ e \in 1 .. r.epoch
    /\ e = r.epoch => ~r.registered /\ r.seq = 0
    /\ \A j \in 1 .. Len(s) : Carries(s[j]) => e < s[j].epoch

FrontInv ==
    /\ \A i \in 1 .. Len(up) :
           up[i].kind = "register" => i = 1 /\ desk = "none" /\ Unanswered(up[i].epoch, relay, up)
    /\ desk = "registering" => Unanswered(registration.epoch, relay, up)
    /\ desk = "registered" =>
           HasFields(rec) /\ Linked(up, rec.epoch, rec.lastSeq, relay.epoch, relay.seq)

AnswerInv ==
    /\ IsChannel(down)
    /\ \A i \in 1 .. Len(down) : down[i].kind = "registered" => desk = "registered"

SeqInv == RelayInv /\ StreamInv /\ FrontInv /\ AnswerInv

LEMMA Starts == Init => SeqInv
<1> SUFFICES ASSUME Init PROVE SeqInv
  OBVIOUS
<1>1. IsChannel(up) /\ IsChannel(down) /\ Len(up) = 0 /\ Len(down) = 0
  BY EmptyChannel DEF Init
<1>2. RelayInv
  BY DEF Init, RelayInv
<1>3. StreamInv
  BY <1>1 DEF StreamInv, Frames, Numbered, UpTo
<1>4. FrontInv
  BY <1>1 DEF Init, FrontInv
<1>5. AnswerInv
  BY <1>1 DEF AnswerInv
<1> QED
  BY <1>2, <1>3, <1>4, <1>5 DEF SeqInv

\* A step of the phone, or of the hub towards the phone.
LEMMA Elsewhere ==
    ASSUME SeqInv, UNCHANGED <<relayVars, up, desk, registration, rec>>, AnswerInv'
    PROVE  SeqInv'
<1>1. relay' = relay /\ log' = log /\ produced' = produced
  BY DEF relayVars
<1>2. RelayInv' /\ StreamInv'
  BY <1>1 DEF SeqInv, RelayInv, StreamInv
<1>3. FrontInv'
  BY <1>1 DEF SeqInv, FrontInv, Unanswered
<1> QED
  BY <1>2, <1>3 DEF SeqInv

LEMMA AnswerLess ==
    ASSUME AnswerInv, down # <<>>, down' = Tail(down), desk' = desk
    PROVE  AnswerInv'
BY Tailed DEF AnswerInv

LEMMA AnswerMore ==
    ASSUME AnswerInv, NEW f, down' = Append(down, f), desk' = desk \/ desk' = "registered",
           f.kind = "registered" => desk' = "registered"
    PROVE  AnswerInv'
<1>1. /\ IsChannel(down') /\ Len(down) \in Nat /\ Len(down') = Len(down) + 1
      /\ down'[Len(down) + 1] = f /\ \A i \in 1 .. Len(down) : down'[i] = down[i]
  BY Appended DEF AnswerInv
<1>2. \A i \in 1 .. Len(down') : i \in 1 .. Len(down) \/ i = Len(down) + 1
  BY <1>1
<1> QED
  BY <1>1, <1>2 DEF AnswerInv

\* The relay sends an event or a snapshot, numbered by what it becomes.
LEMMA RelaySends ==
    ASSUME SeqInv, RelayInv', AnswerInv', NEW f, Carries(f), up' = Append(up, f),
           UNCHANGED <<desk, registration, rec>>,
           f.epoch = relay'.epoch, f.seq = relay'.seq,
           \/ /\ relay'.epoch = relay.epoch /\ relay'.seq = relay.seq + One(f)
              /\ relay.registered \/ desk = "registered"
           \/ relay'.epoch > relay.epoch
    PROVE  SeqInv'
<1>1. /\ relay.epoch \in Nat /\ relay.seq \in Nat /\ relay'.epoch \in Nat /\ relay'.seq \in Nat
      /\ relay.epoch <= relay'.epoch
  BY DEF SeqInv, RelayInv
<1>2. /\ IsChannel(up') /\ Len(up) \in Nat /\ Len(up') = Len(up) + 1 /\ up'[Len(up) + 1] = f
      /\ \A i \in 1 .. Len(up) : up'[i] = up[i]
  BY Appended DEF SeqInv, StreamInv
<1>3. /\ Frames(up') /\ Numbered(up') /\ UpTo(up', f.epoch, f.seq)
      /\ \A er \in Nat, nr \in Nat :
           Linked(up, er, nr, relay.epoch, relay.seq) => Linked(up', er, nr, f.epoch, f.seq)
  BY <1>1, NextFrame DEF SeqInv, StreamInv
<1>4. StreamInv'
  BY <1>2, <1>3 DEF StreamInv
<1>5. \A i \in 1 .. Len(up') : i \in 1 .. Len(up) \/ (i = Len(up) + 1 /\ up'[i] = f)
  BY <1>2
<1>6. ASSUME NEW e, Unanswered(e, relay, up), desk # "registered" PROVE Unanswered(e, relay', up')
  <2>1. e < relay'.epoch /\ e \in 1 .. relay'.epoch
    BY <1>1, <1>6 DEF Unanswered
  <2>2. \A j \in 1 .. Len(up') : Carries(up'[j]) => e < up'[j].epoch
    BY <1>2, <1>5, <1>6, <2>1 DEF Unanswered
  <2> QED
    BY <2>1, <2>2 DEF Unanswered
<1>7. \A i \in 1 .. Len(up') :
         up'[i].kind = "register" => i = 1 /\ desk' = "none" /\ Unanswered(up'[i].epoch, relay', up')
  <2> SUFFICES ASSUME NEW i \in 1 .. Len(up'), up'[i].kind = "register"
               PROVE  i = 1 /\ desk' = "none" /\ Unanswered(up'[i].epoch, relay', up')
    OBVIOUS
  <2>1. i \in 1 .. Len(up) /\ up'[i] = up[i]
    BY <1>2, <1>5 DEF Carries
  <2>2. i = 1 /\ desk = "none" /\ Unanswered(up[i].epoch, relay, up)
    BY <2>1 DEF SeqInv, FrontInv
  <2> QED
    BY <1>6, <2>1, <2>2
<1>8. desk' = "registering" => Unanswered(registration'.epoch, relay', up')
  BY <1>6 DEF SeqInv, FrontInv
<1>9. desk' = "registered" => HasFields(rec') /\ Linked(up', rec'.epoch, rec'.lastSeq, relay'.epoch, relay'.seq)
  BY <1>3 DEF SeqInv, FrontInv, HasFields
<1>10. FrontInv'
  BY <1>7, <1>8, <1>9 DEF FrontInv
<1> QED
  BY <1>4, <1>10 DEF SeqInv

-----------------------------------------------------------------------------
(* The relay's steps.                                                      *)

LEMMA MintedEpoch ==
    ASSUME RelayInv, NEW b \in BOOLEAN, NewEpoch(b)
    PROVE  /\ log' \in Seq(Seq(Nat)) /\ Len(log') = Len(log) + 1
           /\ relay' \in [open : BOOLEAN, registered : BOOLEAN, beating : BOOLEAN, epoch : Nat, seq : Nat]
           /\ relay'.open /\ relay'.registered = b /\ relay'.epoch = Len(log')
           /\ relay'.epoch = relay.epoch + 1 /\ relay'.seq = 0
<1>1. log' = Append(log, <<>>) /\ <<>> \in Seq(Nat) /\ Len(log) \in Nat
  BY DEF NewEpoch, RelayInv
<1>2. log' \in Seq(Seq(Nat)) /\ Len(log') = Len(log) + 1
  BY <1>1 DEF RelayInv
<1>3. relay' = [relay EXCEPT !.open = TRUE, !.registered = b, !.epoch = Len(log) + 1, !.seq = 0]
  BY DEF NewEpoch
<1>4. /\ relay'.open /\ relay'.registered = b /\ relay'.epoch = Len(log) + 1 /\ relay'.seq = 0
      /\ relay' \in [open : BOOLEAN, registered : BOOLEAN, beating : BOOLEAN, epoch : Nat, seq : Nat]
  <2> DEFINE n == Len(log) + 1
  <2>1. n \in Nat /\ relay' = [relay EXCEPT !.open = TRUE, !.registered = b, !.epoch = n, !.seq = 0]
    BY <1>1, <1>3
  <2> HIDE DEF n
  <2>2. relay'.open /\ relay'.registered = b /\ relay'.epoch = n /\ relay'.seq = 0
    BY <2>1 DEF RelayInv
  <2>3. relay' \in [open : BOOLEAN, registered : BOOLEAN, beating : BOOLEAN, epoch : Nat, seq : Nat]
    BY <2>1 DEF RelayInv
  <2> QED
    BY <2>2, <2>3 DEF n
<1> QED
  BY <1>2, <1>4 DEF RelayInv

LEMMA ConnectKeeps ==
    ASSUME SeqInv, RelayConnect
    PROVE  SeqInv'
<1> DEFINE f == Frame("register", relay'.epoch, 0, produced, 0)
<1>1. /\ log' \in Seq(Seq(Nat)) /\ relay'.open /\ ~relay'.registered /\ relay'.epoch = Len(log')
      /\ relay' \in [open : BOOLEAN, registered : BOOLEAN, beating : BOOLEAN, epoch : Nat, seq : Nat]
      /\ relay'.epoch = relay.epoch + 1 /\ relay'.seq = 0
  BY MintedEpoch DEF SeqInv, RelayConnect
<1>2. /\ up' = <<f>> /\ desk' = desk /\ desk = "none" /\ produced' = produced /\ down' = down
  BY DEF RelayConnect, hubVars, SeqInv, RelayInv
<1>3. f.kind = "register" /\ f.epoch = relay'.epoch /\ f.seq = 0
  BY DEF Frame
<1> HIDE DEF f
<1>4. Len(up') = 1 /\ up'[1] = f /\ IsChannel(up')
  <2>1. <<f>> \in Seq({f})
    OBVIOUS
  <2> QED
    BY <1>2, <2>1 DEF IsChannel
<1>5. RelayInv'
  BY <1>1, <1>2 DEF SeqInv, RelayInv
<1>6. StreamInv'
  BY <1>1, <1>3, <1>4 DEF StreamInv, Frames, Numbered, UpTo, Carries
<1>7. FrontInv'
  BY <1>1, <1>2, <1>3, <1>4 DEF FrontInv, Unanswered, Carries, SeqInv, RelayInv
<1>8. AnswerInv'
  BY <1>2 DEF SeqInv, AnswerInv
<1> QED
  BY <1>5, <1>6, <1>7, <1>8 DEF SeqInv

LEMMA ProduceKeeps ==
    ASSUME SeqInv, Produce
    PROVE  SeqInv'
<1>1. /\ produced' = produced + 1 /\ produced' \in Nat /\ AnswerInv'
      /\ UNCHANGED <<desk, registration, rec, down>>
  BY DEF Produce, hubVars, SeqInv, RelayInv, AnswerInv
<1>2. CASE relay.registered
  <2> DEFINE f == Frame("event", relay.epoch, relay'.seq, produced', 0)
  <2>1. /\ relay' = [relay EXCEPT !.seq = @ + 1] /\ up' = Append(up, f)
        /\ log' = [log EXCEPT ![relay.epoch] = Append(@, produced')]
    BY <1>2 DEF Produce
  <2>2. /\ relay' \in [open : BOOLEAN, registered : BOOLEAN, beating : BOOLEAN, epoch : Nat, seq : Nat]
        /\ relay'.open = relay.open /\ relay'.registered = relay.registered
        /\ relay'.epoch = relay.epoch /\ relay'.seq = relay.seq + 1
    BY <2>1 DEF SeqInv, RelayInv
  <2>3. relay.epoch \in DOMAIN log /\ log[relay.epoch] \in Seq(Nat) /\ relay.open
    BY <1>2 DEF SeqInv, RelayInv
  <2>4. Append(log[relay.epoch], produced') \in Seq(Nat)
    BY <1>1, <2>3
  <2>5. log' \in Seq(Seq(Nat)) /\ Len(log') = Len(log)
    BY <2>1, <2>3, <2>4 DEF SeqInv, RelayInv
  <2>6. RelayInv'
    BY <1>1, <2>2, <2>3, <2>5 DEF SeqInv, RelayInv
  <2>7. Carries(f) /\ f.epoch = relay'.epoch /\ f.seq = relay'.seq /\ One(f) = 1
    BY <2>2 DEF Frame, Carries, One
  <2> HIDE DEF f
  <2> QED
    BY <1>1, <1>2, <2>1, <2>2, <2>6, <2>7, RelaySends
<1>3. CASE ~relay.registered
  <2>1. relay' = relay /\ log' = log /\ up' = up
    BY <1>3 DEF Produce
  <2>2. RelayInv' /\ StreamInv'
    BY <1>1, <2>1 DEF SeqInv, RelayInv, StreamInv
  <2>3. FrontInv'
    BY <1>1, <2>1 DEF SeqInv, FrontInv
  <2> QED
    BY <1>1, <2>2, <2>3 DEF SeqInv
<1> QED
  BY <1>2, <1>3

LEMMA ResnapshotKeeps ==
    ASSUME SeqInv, Resnapshot, produced' \in Nat, AnswerInv', UNCHANGED <<desk, registration, rec>>
    PROVE  SeqInv'
<1> DEFINE f == Frame("snapshot", relay'.epoch, relay'.seq, produced', 0)
<1>1. /\ log' \in Seq(Seq(Nat)) /\ relay'.open /\ relay'.registered /\ relay'.epoch = Len(log')
      /\ relay' \in [open : BOOLEAN, registered : BOOLEAN, beating : BOOLEAN, epoch : Nat, seq : Nat]
      /\ relay'.epoch = relay.epoch + 1 /\ relay'.seq = 0 /\ up' = Append(up, f)
  BY MintedEpoch DEF SeqInv, Resnapshot, SnapshotFrame
<1>2. Carries(f) /\ f.epoch = relay'.epoch /\ f.seq = relay'.seq
  BY DEF Frame, Carries
<1> HIDE DEF f
<1>3. RelayInv' /\ relay'.epoch > relay.epoch
  BY <1>1 DEF SeqInv, RelayInv
<1> QED
  BY <1>1, <1>2, <1>3, RelaySends

LEMMA TooLargeKeeps ==
    ASSUME SeqInv, ProduceTooLarge
    PROVE  SeqInv'
<1>1. produced' \in Nat
  BY DEF ProduceTooLarge, SeqInv, RelayInv
<1>2. AnswerInv' /\ UNCHANGED <<desk, registration, rec>>
  BY DEF ProduceTooLarge, hubVars, SeqInv, AnswerInv
<1> QED
  BY <1>1, <1>2, ResnapshotKeeps DEF ProduceTooLarge

\* A snapshot of the present epoch, from a relay that is registered or has just been.
LEMMA SnapshotKeeps ==
    ASSUME SeqInv, AnswerInv', NEW id, NEW b \in BOOLEAN, NEW c \in BOOLEAN,
           log' = log, produced' = produced, up' = Append(up, SnapshotFrame(id)),
           UNCHANGED <<desk, registration, rec>>,
           relay.registered \/ desk = "registered",
           relay.open, relay' = [relay EXCEPT !.registered = b, !.beating = c]
    PROVE  SeqInv'
<1> DEFINE f == Frame("snapshot", relay'.epoch, relay'.seq, produced', id)
<1>1. up' = Append(up, f)
  BY DEF SnapshotFrame
<1>2. /\ relay' \in [open : BOOLEAN, registered : BOOLEAN, beating : BOOLEAN, epoch : Nat, seq : Nat]
      /\ relay'.open = relay.open /\ relay'.epoch = relay.epoch /\ relay'.seq = relay.seq
  BY DEF SeqInv, RelayInv
<1>3. Carries(f) /\ f.epoch = relay'.epoch /\ f.seq = relay'.seq /\ One(f) = 0
  BY DEF Frame, Carries, One
<1> HIDE DEF f
<1>4. RelayInv'
  BY <1>2 DEF SeqInv, RelayInv
<1>5. relay'.seq = relay.seq + One(f)
  BY <1>2, <1>3 DEF SeqInv, RelayInv
<1> QED
  BY <1>1, <1>2, <1>3, <1>4, <1>5, RelaySends

LEMMA UnavailableKeeps ==
    ASSUME SeqInv, AnswerInv', NEW f, ~Carries(f), f.kind # "register", f.epoch = 0, f.seq = 0,
           up' = Append(up, f), relay.open,
           UNCHANGED <<log, produced, relay, desk, registration, rec>>
    PROVE  SeqInv'
<1>1. relay.epoch \in Nat /\ relay.seq \in Nat
  BY DEF SeqInv, RelayInv
<1>2. /\ IsChannel(up') /\ Len(up) \in Nat /\ Len(up') = Len(up) + 1 /\ up'[Len(up) + 1] = f
      /\ \A i \in 1 .. Len(up) : up'[i] = up[i]
  BY Appended DEF SeqInv, StreamInv
<1>3. /\ Frames(up') /\ Numbered(up') /\ UpTo(up', relay.epoch, relay.seq)
      /\ \A er, nr : Linked(up, er, nr, relay.epoch, relay.seq)
                       => Linked(up', er, nr, relay.epoch, relay.seq)
  BY <1>1, OtherFrame DEF SeqInv, StreamInv
<1>4. \A i \in 1 .. Len(up') : i \in 1 .. Len(up) \/ (i = Len(up) + 1 /\ up'[i] = f)
  BY <1>2
<1>5. ASSUME NEW e, Unanswered(e, relay, up) PROVE Unanswered(e, relay', up')
  BY <1>2, <1>4, <1>5 DEF Unanswered
<1>6. FrontInv'
  <2>1. \A i \in 1 .. Len(up') :
           up'[i].kind = "register" => i = 1 /\ desk' = "none" /\ Unanswered(up'[i].epoch, relay', up')
    BY <1>2, <1>4, <1>5 DEF SeqInv, FrontInv
  <2>2. desk' = "registering" => Unanswered(registration'.epoch, relay', up')
    BY <1>5 DEF SeqInv, FrontInv
  <2>3. desk' = "registered" =>
           HasFields(rec') /\ Linked(up', rec'.epoch, rec'.lastSeq, relay'.epoch, relay'.seq)
    BY <1>3 DEF SeqInv, FrontInv
  <2> QED
    BY <2>1, <2>2, <2>3 DEF FrontInv
<1>7. RelayInv' /\ StreamInv'
  BY <1>2, <1>3 DEF SeqInv, RelayInv, StreamInv
<1> QED
  BY <1>6, <1>7 DEF SeqInv

LEMMA RelayReceiveKeeps ==
    ASSUME SeqInv, RelayReceive
    PROVE  SeqInv'
<1> DEFINE m == Head(down)
<1>1. /\ relay.open /\ down # <<>> /\ down' = Tail(down)
      /\ UNCHANGED <<desk, registration, rec>>
  BY DEF RelayReceive, hubVars
<1>2. AnswerInv'
  BY <1>1, AnswerLess DEF SeqInv
<1>3. ASSUME RelayRegistered(m) PROVE SeqInv'
  <2>1. log' = log /\ produced' = produced
    BY <1>3 DEF RelayRegistered
  <2>2. CASE m.epoch = relay.epoch
    <3>1. desk = "registered"
      <4>1. 1 \in 1 .. Len(down) /\ down[1].kind = "registered"
        BY <1>1, <1>3, Tailed DEF SeqInv, AnswerInv, RelayRegistered
      <4> QED
        BY <4>1 DEF SeqInv, AnswerInv
    <3>2. /\ relay' = [relay EXCEPT !.registered = TRUE, !.beating = TRUE]
          /\ up' = Append(up, SnapshotFrame(0))
      BY <1>3, <2>2 DEF RelayRegistered
    <3> QED
      BY <1>1, <1>2, <2>1, <3>1, <3>2, SnapshotKeeps
  <2>3. CASE m.epoch # relay.epoch
    <3>1. relay' = relay /\ up' = up
      BY <1>3, <2>3 DEF RelayRegistered
    <3>2. UNCHANGED <<relayVars, up, desk, registration, rec>>
      BY <1>1, <1>3, <2>1, <3>1 DEF relayVars, RelayRegistered
    <3> QED
      BY <1>2, <3>2, Elsewhere
  <2> QED
    BY <2>2, <2>3
<1>4. ASSUME RelayAsked(m) PROVE SeqInv'
  <2>1. log' = log /\ produced' = produced /\ relay' = relay
    BY <1>4 DEF RelayAsked, relayVars
  <2>2. CASE relay.registered
    <3>1. up' = Append(up, SnapshotFrame(m.id))
      BY <1>4, <2>2 DEF RelayAsked
    <3>2. /\ relay' = [relay EXCEPT !.registered = relay.registered, !.beating = relay.beating]
          /\ relay.registered \in BOOLEAN /\ relay.beating \in BOOLEAN
      BY <2>1 DEF SeqInv, RelayInv
    <3> QED
      BY <1>1, <1>2, <2>1, <2>2, <3>1, <3>2, SnapshotKeeps
  <2>3. CASE ~relay.registered
    <3> DEFINE f == Frame("unavailable", 0, 0, 0, m.id)
    <3>1. up' = Append(up, f)
      BY <1>4, <2>3 DEF RelayAsked
    <3>2. ~Carries(f) /\ f.kind # "register" /\ f.epoch = 0 /\ f.seq = 0
      BY DEF Frame, Carries
    <3> HIDE DEF f
    <3> QED
      BY <1>1, <1>2, <2>1, <3>1, <3>2, UnavailableKeeps
  <2> QED
    BY <2>2, <2>3
<1>5. ASSUME RelayResync(m) PROVE SeqInv'
  <2>1. Resnapshot /\ produced' \in Nat
    BY <1>5 DEF RelayResync, SeqInv, RelayInv
  <2> QED
    BY <1>1, <1>2, <2>1, ResnapshotKeeps
<1> QED
  BY <1>3, <1>4, <1>5 DEF RelayReceive

-----------------------------------------------------------------------------
(* The hub's steps.                                                        *)

\* The hub takes a frame off the channel and makes of it what it may.
LEMMA HubTakes ==
    ASSUME SeqInv, up # <<>>, up' = Tail(up), UNCHANGED relayVars,
           desk' = "registering" => Unanswered(registration'.epoch, relay, Tail(up)),
           desk' = "registered" =>
               HasFields(rec') /\ Linked(Tail(up), rec'.epoch, rec'.lastSeq, relay.epoch, relay.seq),
           AnswerInv'
    PROVE  SeqInv'
<1>1. relay' = relay /\ log' = log /\ produced' = produced
  BY DEF relayVars
<1>2. relay.epoch \in Nat /\ relay.seq \in Nat /\ relay.open
  BY DEF SeqInv, RelayInv
<1>3. /\ IsChannel(Tail(up)) /\ Len(up) \in Nat /\ Len(Tail(up)) = Len(up) - 1
      /\ \A i \in 1 .. Len(up) - 1 : Tail(up)[i] = up[i + 1]
  BY Tailed DEF SeqInv, StreamInv
<1>4. StreamInv'
  BY <1>1, <1>2, <1>3, RestOfChannel DEF SeqInv, StreamInv
<1>5. RelayInv'
  BY <1>1, <1>2 DEF SeqInv, RelayInv
<1>6. \A i \in 1 .. Len(up') : up'[i].kind # "register"
  <2> SUFFICES ASSUME NEW i \in 1 .. Len(up'), up'[i].kind = "register" PROVE FALSE
    OBVIOUS
  <2>1. i + 1 \in 1 .. Len(up) /\ up[i + 1].kind = "register" /\ i + 1 # 1
    BY <1>3
  <2> QED
    BY <2>1 DEF SeqInv, FrontInv
<1>7. FrontInv'
  BY <1>1, <1>6 DEF FrontInv
<1> QED
  BY <1>4, <1>5, <1>7 DEF SeqInv

LEMMA RegisterStartKeeps ==
    ASSUME SeqInv, HubRegisterStart
    PROVE  SeqInv'
<1>1. /\ up # <<>> /\ up' = Tail(up) /\ UNCHANGED relayVars /\ Head(up).kind = "register"
      /\ desk' = "registering" /\ registration' = Head(up) /\ down' = down
  BY DEF HubRegisterStart
<1>2. /\ Len(up) \in Nat /\ Len(up) >= 1 /\ Len(Tail(up)) = Len(up) - 1 /\ Head(up) = up[1]
      /\ \A i \in 1 .. Len(up) - 1 : Tail(up)[i] = up[i + 1]
  BY <1>1, Tailed DEF SeqInv, StreamInv
<1>3. desk = "none" /\ Unanswered(up[1].epoch, relay, up)
  BY <1>1, <1>2 DEF SeqInv, FrontInv
<1>4. Unanswered(up[1].epoch, relay, Tail(up))
  <2>1. \A j \in 1 .. Len(Tail(up)) : j + 1 \in 1 .. Len(up) /\ Tail(up)[j] = up[j + 1]
    BY <1>2
  <2> QED
    BY <1>3, <2>1 DEF Unanswered
<1>5. AnswerInv'
  BY <1>1, <1>3 DEF SeqInv, AnswerInv
<1> QED
  BY <1>1, <1>2, <1>4, <1>5, HubTakes

LEMMA RegisterDoneKeeps ==
    ASSUME SeqInv, HubRegisterDone
    PROVE  SeqInv'
<1> DEFINE e == registration.epoch
<1> DEFINE f == Frame("registered", e, 0, 0, 0)
<1>1. /\ desk = "registering" /\ desk' = "registered" /\ UNCHANGED <<relayVars, up>>
      /\ rec' = SetSnapshot(NewRecord(e, TRUE), e, 0) /\ down' = Append(down, f)
  BY DEF HubRegisterDone
<1>2. relay' = relay /\ log' = log /\ produced' = produced /\ up' = up
  BY <1>1 DEF relayVars
<1>3. Unanswered(e, relay, up) /\ e \in Nat /\ relay.epoch \in Nat
  BY <1>1 DEF SeqInv, FrontInv, RelayInv, Unanswered
<1> HIDE DEF e
<1>4. HasFields(NewRecord(e, TRUE)) /\ NewRecord(e, TRUE).epoch = e /\ NewRecord(e, TRUE).lastSeq = 0
  BY <1>3 DEF NewRecord, HasFields
<1>5. HasFields(rec') /\ rec'.epoch = e /\ rec'.lastSeq = 0
  <2> DEFINE r == NewRecord(e, TRUE)
  <2>1. HasFields(r) /\ r.epoch = e /\ r.lastSeq = 0 /\ e \in Nat /\ 0 \in Nat
    BY <1>3, <1>4
  <2>2. rec' = SetSnapshot(r, e, 0)
    BY <1>1
  <2> HIDE DEF r
  <2>3. /\ HasFields(SetSnapshot(r, e, 0)) /\ SetSnapshot(r, e, 0).epoch = e
        /\ SetSnapshot(r, e, 0).lastSeq = IF r.epoch = e /\ r.lastSeq >= 0 THEN r.lastSeq ELSE 0
    BY ONLY <2>1, SnapshotSet, ZenonT(60)
  <2> QED
    BY <2>1, <2>2, <2>3
<1>6. Linked(up, e, 0, relay.epoch, relay.seq)
  BY <1>3 DEF Linked, Unanswered, SeqInv, StreamInv, Frames
<1>7. \A i \in 1 .. Len(up') : up'[i].kind # "register"
  BY <1>1, <1>2 DEF SeqInv, FrontInv
<1>8. FrontInv'
  BY <1>1, <1>2, <1>5, <1>6, <1>7 DEF FrontInv
<1>9. RelayInv' /\ StreamInv'
  <2>1. relay.open
    BY <1>1 DEF SeqInv, RelayInv
  <2> QED
    BY <1>2, <2>1 DEF SeqInv, RelayInv, StreamInv
<1>10. AnswerInv'
  BY <1>1, AnswerMore DEF SeqInv
<1> QED
  BY <1>8, <1>9, <1>10 DEF SeqInv

LEMMA HubReceiveKeeps ==
    ASSUME SeqInv, HubReceive
    PROVE  SeqInv'
<1> DEFINE m == Head(up)
<1>1. /\ up # <<>> /\ m.kind # "register" /\ up' = Tail(up)
      /\ UNCHANGED <<relayVars, desk, registration>>
  BY DEF HubReceive
<1>2. /\ relay.epoch \in Nat /\ relay.seq \in Nat /\ IsChannel(up) /\ Frames(up)
      /\ Numbered(up) /\ UpTo(up, relay.epoch, relay.seq)
  BY DEF SeqInv, RelayInv, StreamInv
<1>3. /\ Len(up) \in Nat /\ Len(up) >= 1 /\ Len(Tail(up)) = Len(up) - 1 /\ m = up[1]
      /\ \A i \in 1 .. Len(up) - 1 : Tail(up)[i] = up[i + 1]
  BY <1>1, <1>2, Tailed
<1>4. m.epoch \in Nat /\ m.seq \in Nat
  BY <1>2, <1>3 DEF Frames
<1>5. desk' = "registering" => Unanswered(registration'.epoch, relay, Tail(up))
  <2> SUFFICES ASSUME desk = "registering" PROVE Unanswered(registration.epoch, relay, Tail(up))
    BY <1>1
  <2>1. Unanswered(registration.epoch, relay, up)
    BY DEF SeqInv, FrontInv
  <2>2. \A j \in 1 .. Len(Tail(up)) : j + 1 \in 1 .. Len(up) /\ Tail(up)[j] = up[j + 1]
    BY <1>3
  <2> QED
    BY <2>1, <2>2 DEF Unanswered
<1>6. Carries(m) => Linked(Tail(up), m.epoch, m.seq, relay.epoch, relay.seq)
  BY <1>1, <1>2, RestOfChannel
<1>7. desk = "registered" =>
        /\ HasFields(rec) /\ rec.epoch \in Nat /\ rec.lastSeq \in Nat
        /\ Linked(up, rec.epoch, rec.lastSeq, relay.epoch, relay.seq)
  BY DEF SeqInv, FrontInv, HasFields
<1>8. ASSUME desk = "registered", ~Carries(m) \/ m.epoch # rec.epoch
      PROVE  Linked(Tail(up), rec.epoch, rec.lastSeq, relay.epoch, relay.seq)
  BY <1>1, <1>2, <1>7, <1>8, PassedOver
<1>9. ASSUME desk = "registered", Carries(m), m.epoch = rec.epoch
      PROVE  m.seq = rec.lastSeq + One(m)
  <2>1. Quiet(up, 0, 1) /\ 1 \in 1 .. Len(up)
    BY <1>3 DEF Quiet
  <2> QED
    BY <1>3, <1>7, <1>9, <2>1 DEF Linked
<1> HIDE DEF m
<1>10. ASSUME HubRefuse(m) PROVE SeqInv'
  <2>1. desk # "registered" /\ down' = down
    BY <1>10 DEF HubRefuse
  <2>2. AnswerInv'
    BY <1>1, <2>1 DEF SeqInv, AnswerInv
  <2> QED
    BY <1>1, <1>5, <2>1, <2>2, HubTakes
<1>11. ASSUME HubSnapshot(m) PROVE SeqInv'
  <2>1. /\ desk = "registered" /\ rec' = SetSnapshot(rec, m.epoch, m.seq) /\ down' = down
        /\ m.kind = "snapshot"
    BY <1>11 DEF HubSnapshot
  <2>2. /\ HasFields(rec') /\ rec'.epoch = m.epoch
        /\ rec'.lastSeq = IF rec.epoch = m.epoch /\ rec.lastSeq >= m.seq THEN rec.lastSeq ELSE m.seq
    <3>1. HasFields(rec) /\ m.epoch \in Nat /\ m.seq \in Nat
      BY <1>4, <1>7, <2>1
    <3>2. /\ HasFields(SetSnapshot(rec, m.epoch, m.seq))
          /\ SetSnapshot(rec, m.epoch, m.seq).epoch = m.epoch
          /\ SetSnapshot(rec, m.epoch, m.seq).lastSeq
               = IF rec.epoch = m.epoch /\ rec.lastSeq >= m.seq THEN rec.lastSeq ELSE m.seq
      BY ONLY <3>1, SnapshotSet, ZenonT(60)
    <3> QED
      BY <2>1, <3>2, Zenon
  <2>3. rec'.lastSeq = m.seq
    BY <1>4, <1>7, <1>9, <2>1, <2>2 DEF Carries, One
  <2>4. AnswerInv'
    BY <1>1, <2>1 DEF SeqInv, AnswerInv
  <2> QED
    BY <1>1, <1>5, <1>6, <2>1, <2>2, <2>3, <2>4, HubTakes DEF Carries
<1>12. ASSUME HubUnavailable(m) PROVE SeqInv'
  <2>1. desk = "registered" /\ rec' = rec /\ down' = down /\ ~Carries(m)
    BY <1>12 DEF HubUnavailable, Carries
  <2>2. AnswerInv'
    BY <1>1, <2>1 DEF SeqInv, AnswerInv
  <2> QED
    BY <1>1, <1>5, <1>7, <1>8, <2>1, <2>2, HubTakes
<1>13. ASSUME HubEvent(m) PROVE SeqInv'
  <2>1. desk = "registered" /\ m.kind = "event" /\ Carries(m) /\ One(m) = 1
    BY <1>13 DEF HubEvent, Carries, One
  <2>2. CASE Accepts(rec, m.epoch, m.seq)
    <3>1. rec' = RecordDesktopEvent(rec, m.epoch, m.seq, 0) /\ down' = down
      BY <1>13, <2>2 DEF HubEvent
    <3>2. HasFields(rec') /\ rec'.epoch = m.epoch /\ rec'.lastSeq = m.seq
      BY <1>4, <1>7, <2>1, <2>2, <3>1, EventRecorded DEF Accepts
    <3>3. AnswerInv'
      BY <1>1, <3>1 DEF SeqInv, AnswerInv
    <3> QED
      BY <1>1, <1>5, <1>6, <2>1, <3>2, <3>3, HubTakes
  <2>3. CASE ~Accepts(rec, m.epoch, m.seq)
    <3> DEFINE f == Frame("resync", 0, 0, 0, 0)
    <3>1. rec' = rec /\ down' = Append(down, f)
      BY <1>13, <2>3 DEF HubEvent
    <3>2. m.epoch # rec.epoch
      BY <1>9, <2>1, <2>3 DEF Accepts
    <3>3. f.kind # "registered"
      BY DEF Frame
    <3> HIDE DEF f
    <3>4. AnswerInv'
      BY <1>1, <3>1, <3>3, AnswerMore DEF SeqInv
    <3> QED
      BY <1>1, <1>5, <1>7, <1>8, <2>1, <3>1, <3>2, <3>4, HubTakes
  <2> QED
    BY <2>2, <2>3
<1> QED
  BY <1>10, <1>11, <1>12, <1>13 DEF HubReceive, m

LEMMA HubRequestKeeps ==
    ASSUME SeqInv, HubRequest
    PROVE  SeqInv'
<1>1. UNCHANGED <<relayVars, up, desk, registration, rec>>
  BY DEF HubRequest
<1>2. down' = down \/ down' = Append(down, Frame("request", 0, 0, 0, FreshId))
  BY DEF HubRequest, HubSelect, HubSync, Ask
<1>3. Frame("request", 0, 0, 0, FreshId).kind # "registered"
  BY DEF Frame
<1>4. AnswerInv'
  <2>1. CASE down' = down
    BY <1>1, <2>1 DEF SeqInv, AnswerInv
  <2>2. CASE down' = Append(down, Frame("request", 0, 0, 0, FreshId))
    BY <1>1, <1>3, <2>2, AnswerMore DEF SeqInv
  <2> QED
    BY <1>2, <2>1, <2>2
<1> QED
  BY <1>1, <1>4, Elsewhere

LEMMA CloseKeeps ==
    ASSUME SeqInv, RelayClose
    PROVE  SeqInv'
<1>1. /\ relay' = [relay EXCEPT !.open = FALSE, !.registered = FALSE, !.beating = FALSE]
      /\ up' = <<>> /\ down' = <<>> /\ desk' = "none" /\ log' = log /\ produced' = produced
  BY DEF RelayClose
<1>2. /\ relay' \in [open : BOOLEAN, registered : BOOLEAN, beating : BOOLEAN, epoch : Nat, seq : Nat]
      /\ ~relay'.open /\ ~relay'.registered /\ relay'.epoch = relay.epoch
  BY <1>1 DEF SeqInv, RelayInv
<1>3. IsChannel(up') /\ IsChannel(down') /\ Len(up') = 0 /\ Len(down') = 0
  BY <1>1, EmptyChannel
<1>4. RelayInv'
  BY <1>1, <1>2 DEF SeqInv, RelayInv
<1>5. StreamInv'
  BY <1>3 DEF StreamInv, Frames, Numbered, UpTo
<1>6. FrontInv' /\ AnswerInv'
  BY <1>1, <1>3 DEF FrontInv, AnswerInv
<1> QED
  BY <1>4, <1>5, <1>6 DEF SeqInv

-----------------------------------------------------------------------------

LEMMA StepKeeps ==
    ASSUME SeqInv, [Next]_vars
    PROVE  SeqInv'
<1>1. ASSUME UNCHANGED <<relayVars, up, down, desk, registration, rec>> PROVE SeqInv'
  <2>1. AnswerInv'
    BY <1>1 DEF SeqInv, AnswerInv
  <2> QED
    BY <1>1, <2>1, Elsewhere
<1>2. CASE RelayConnect
  BY <1>2, ConnectKeeps
<1>3. CASE Produce
  BY <1>3, ProduceKeeps
<1>4. CASE ProduceTooLarge
  BY <1>4, TooLargeKeeps
<1>5. CASE RelaySnapshot
  <2>1. /\ relay.registered /\ log' = log /\ produced' = produced /\ relay' = relay /\ down' = down
        /\ UNCHANGED <<desk, registration, rec>> /\ up' = Append(up, SnapshotFrame(0))
    BY <1>5 DEF RelaySnapshot, relayVars, hubVars
  <2>2. AnswerInv' /\ relay.open
    BY <2>1 DEF SeqInv, AnswerInv, RelayInv
  <2>3. /\ relay' = [relay EXCEPT !.registered = relay.registered, !.beating = relay.beating]
        /\ relay.registered \in BOOLEAN /\ relay.beating \in BOOLEAN
    BY <2>1 DEF SeqInv, RelayInv
  <2> QED
    BY <2>1, <2>2, <2>3, SnapshotKeeps
<1>6. CASE RelayReceive
  BY <1>6, RelayReceiveKeeps
<1>7. CASE RelayDrop \/ HubSweep
  BY <1>7, CloseKeeps DEF RelayDrop, HubSweep
<1>8. CASE HubRegisterStart
  BY <1>8, RegisterStartKeeps
<1>9. CASE HubRegisterDone
  BY <1>9, RegisterDoneKeeps
<1>10. CASE HubReceive
  BY <1>10, HubReceiveKeeps
<1>11. CASE HubAskTimeout
  BY <1>1, <1>11 DEF HubAskTimeout
<1>12. CASE HubRequest
  BY <1>12, HubRequestKeeps
<1>13. CASE PhoneReceive \/ PhoneTimer \/ PhoneConnect \/ PhoneReselect \/ PhoneTimeout
  BY <1>1, <1>13 DEF PhoneReceive, PhoneTimer, PhoneConnect, PhoneReselect, PhoneTimeout, hubVars
<1>14. CASE PhoneDrop
  BY <1>1, <1>14 DEF PhoneDrop
<1>15. CASE UNCHANGED vars
  BY <1>1, <1>15 DEF vars, hubVars
<1> QED
  BY <1>2, <1>3, <1>4, <1>5, <1>6, <1>7, <1>8, <1>9, <1>10, <1>11, <1>12, <1>13, <1>14, <1>15
     DEF Next, RelayStep, HubStep, PhoneStep

THEOREM SyncInvariant == Spec => []SeqInv
<1>1. Init => SeqInv
  BY Starts
<1>2. SeqInv /\ [Next]_vars => SeqInv'
  BY StepKeeps
<1> QED
  BY <1>1, <1>2, PTL DEF Spec

\* The hub is never shown a hole: whatever it has recorded of an epoch, the next event
\* of that epoch on its way is numbered one past it, so that desktop_event refuses an
\* event only for its epoch (relay.ts: every snapshot is sent after what was on hold,
\* and nothing is numbered before the registration is answered).
THEOREM HubSeesNoHole == Spec => []RelayInSequence
<1>1. SeqInv => RelayInSequence
  <2> SUFFICES ASSUME SeqInv, NEW i \in DOMAIN up, up[i].kind = "event", desk = "registered",
                      up[i].epoch = rec.epoch, \A j \in 1 .. (i - 1) : up[j].kind # "event"
               PROVE  up[i].seq = rec.lastSeq + 1
    BY DEF RelayInSequence
  <2>1. i \in 1 .. Len(up)
    BY DEF SeqInv, StreamInv, IsChannel
  <2>2. Carries(up[i]) /\ One(up[i]) = 1 /\ Quiet(up, 0, i)
    BY DEF Carries, One, Quiet
  <2>3. Linked(up, rec.epoch, rec.lastSeq, relay.epoch, relay.seq)
    BY DEF SeqInv, FrontInv
  <2> QED
    BY <2>1, <2>2, <2>3 DEF Linked
<1> QED
  BY <1>1, SyncInvariant, PTL

-----------------------------------------------------------------------------
(* Least numbers, and the sorting of events.                               *)

\* A non-empty set of numbers has a least element.
LEMMA LeastOf ==
    ASSUME NEW S, S \subseteq Nat, S # {}
    PROVE  \E x \in S : \A y \in S : x <= y
<1> DEFINE R == OpToRel(<, Nat)
<1>1. \E x \in S : \A y \in S : ~(<<y, x>> \in R)
  <2>1. IsWellFoundedOn(R, Nat)
    BY NatLessThanWellFounded
  <2> HIDE DEF R
  <2> QED
    BY <2>1, WFMin
<1>2. \A x, y \in Nat : y < x => <<y, x>> \in R
  BY DEF OpToRel
<1> HIDE DEF R
<1>3. PICK x \in S : \A y \in S : ~(<<y, x>> \in R)
  BY <1>1
<1>4. ASSUME NEW y \in S PROVE x <= y
  <2>1. x \in Nat /\ y \in Nat
    OBVIOUS
  <2>2. ~(y < x)
    BY <1>2, <1>3, <2>1
  <2> QED
    BY <2>1, <2>2
<1> QED
  BY <1>3, <1>4

-----------------------------------------------------------------------------
(* Sorting.                                                                *)

\* What sorts n places by the numbers in them.
Sorts(f, n, key) ==
    /\ f \in Bijection(1 .. n, 1 .. n)
    /\ \A i, j \in 1 .. n : i < j => key[f[i]] <= key[f[j]]

\* One place more: the place of the least number comes first.
LEMMA SortsOneMore ==
    ASSUME NEW n \in Nat,
           \A key \in [1 .. n -> Nat] : \E f : Sorts(f, n, key),
           NEW key \in [1 .. n + 1 -> Nat]
    PROVE  \E f : Sorts(f, n + 1, key)
<1>1. PICK m \in 1 .. n + 1 : \A i \in 1 .. n + 1 : key[m] <= key[i]
  <2> DEFINE S == {key[i] : i \in 1 .. n + 1}
  <2>1. S \subseteq Nat /\ key[1] \in S
    OBVIOUS
  <2>2. PICK x \in S : \A y \in S : x <= y
    BY <2>1, LeastOf
  <2> QED
    BY <2>2
<1> DEFINE shift == [i \in 1 .. n |-> IF i < m THEN i ELSE i + 1]
<1> DEFINE rest == [i \in 1 .. n |-> key[shift[i]]]
<1>2. /\ \A i \in 1 .. n : shift[i] \in 1 .. n + 1 /\ shift[i] # m
      /\ \A i, j \in 1 .. n : shift[i] = shift[j] => i = j
      /\ \A k \in 1 .. n + 1 : k # m => \E i \in 1 .. n : shift[i] = k
  <2>1. ASSUME NEW k \in 1 .. n + 1, k # m PROVE \E i \in 1 .. n : shift[i] = k
    <3>1. CASE k < m
      <4>1. k \in 1 .. n /\ shift[k] = k
        BY <3>1
      <4> QED
        BY <4>1
    <3>2. CASE k > m
      <4>1. k - 1 \in 1 .. n /\ shift[k - 1] = k
        BY <3>2
      <4> QED
        BY <4>1
    <3> QED
      BY <2>1, <3>1, <3>2
  <2>2. \A i \in 1 .. n : shift[i] \in 1 .. n + 1 /\ shift[i] # m
    OBVIOUS
  <2>3. \A i, j \in 1 .. n : shift[i] = shift[j] => i = j
    OBVIOUS
  <2> QED
    BY <2>1, <2>2, <2>3
<1> HIDE DEF shift
<1>21. \A i, j \in 1 .. n : shift[i] = shift[j] => i = j
  BY <1>2
<1>3. rest \in [1 .. n -> Nat]
  BY <1>2
<1>4. PICK g : Sorts(g, n, rest)
  BY <1>3
<1> DEFINE f == [i \in 1 .. n + 1 |-> IF i = 1 THEN m ELSE shift[g[i - 1]]]
<1>5. /\ \A i \in 1 .. n : g[i] \in 1 .. n
      /\ \A i, j \in 1 .. n : g[i] = g[j] => i = j
      /\ \A k \in 1 .. n : \E i \in 1 .. n : g[i] = k
      /\ \A i, j \in 1 .. n : i < j => rest[g[i]] <= rest[g[j]]
  BY <1>4 DEF Sorts, Bijection, Injection, Surjection, IsInjective
<1>51. \A i \in 1 .. n : shift[g[i]] \in 1 .. n + 1 /\ shift[g[i]] # m
  <2> HIDE DEF rest
  <2> QED
    BY <1>2, <1>5
<1>52. \A i \in 2 .. n + 1 : i - 1 \in 1 .. n
  OBVIOUS
<1>6. f[1] = m /\ \A i \in 2 .. n + 1 : i - 1 \in 1 .. n /\ f[i] = shift[g[i - 1]] /\ f[i] # m /\ f[i] \in 1 .. n + 1
  <2>1. f[1] = m
    OBVIOUS
  <2>2. ASSUME NEW i \in 2 .. n + 1 PROVE f[i] = shift[g[i - 1]]
    OBVIOUS
  <2> HIDE DEF f
  <2> QED
    BY <1>51, <1>52, <2>1, <2>2
<1>7. f \in [1 .. n + 1 -> 1 .. n + 1]
  <2> SUFFICES ASSUME NEW i \in 1 .. n + 1 PROVE (IF i = 1 THEN m ELSE shift[g[i - 1]]) \in 1 .. n + 1
    OBVIOUS
  <2>1. CASE i # 1
    <3>1. i - 1 \in 1 .. n
      BY <2>1
    <3> QED
      BY <1>51, <2>1, <3>1
  <2> QED
    BY <2>1
<1>71. \A i \in 1 .. n + 1 : i = 1 \/ i \in 2 .. n + 1
  OBVIOUS
<1> HIDE DEF f, rest
<1>8. ASSUME NEW i \in 1 .. n + 1, NEW j \in 1 .. n + 1, f[i] = f[j] PROVE i = j
  <2>1. CASE i = 1 \/ j = 1
    BY <1>6, <1>71, <1>8, <2>1
  <2>2. CASE i # 1 /\ j # 1
    <3>1. i \in 2 .. n + 1 /\ j \in 2 .. n + 1
      BY <2>2
    <3>2. i - 1 \in 1 .. n /\ j - 1 \in 1 .. n /\ shift[g[i - 1]] = shift[g[j - 1]]
      BY <1>6, <1>8, <3>1
    <3>5. g[i - 1] \in 1 .. n /\ g[j - 1] \in 1 .. n
      BY <1>5, <3>2
    <3>3. g[i - 1] = g[j - 1]
      BY <1>21, <3>2, <3>5
    <3>4. i - 1 = j - 1
      BY <1>5, <3>2, <3>3
    <3> QED
      BY <3>4
  <2> QED
    BY <2>1, <2>2
<1>9. ASSUME NEW k \in 1 .. n + 1 PROVE \E i \in 1 .. n + 1 : f[i] = k
  <2>1. CASE k = m
    BY <1>6, <2>1
  <2>2. CASE k # m
    <3>1. PICK a \in 1 .. n : shift[a] = k
      BY <1>2, <2>2
    <3>2. PICK i \in 1 .. n : g[i] = a
      BY <1>5
    <3>3. i + 1 \in 2 .. n + 1 /\ (i + 1) - 1 = i
      OBVIOUS
    <3>4. f[i + 1] = k
      BY <1>6, <3>1, <3>2, <3>3
    <3> QED
      BY <3>3, <3>4
  <2> QED
    BY <2>1, <2>2
<1>10. ASSUME NEW i \in 1 .. n + 1, NEW j \in 1 .. n + 1, i < j PROVE key[f[i]] <= key[f[j]]
  <2>1. CASE i = 1
    BY <1>1, <1>6, <1>7, <2>1
  <2>2. CASE i # 1
    <3>1. i \in 2 .. n + 1 /\ j \in 2 .. n + 1 /\ i - 1 < j - 1
      BY <1>10, <2>2
    <3>2. rest[g[i - 1]] <= rest[g[j - 1]]
      BY <1>5, <1>6, <3>1
    <3>3. g[i - 1] \in 1 .. n /\ g[j - 1] \in 1 .. n
      BY <1>5, <1>6, <3>1
    <3>4. rest[g[i - 1]] = key[f[i]] /\ rest[g[j - 1]] = key[f[j]]
      BY <1>6, <3>1, <3>3 DEF rest
    <3> QED
      BY <3>2, <3>4
  <2> QED
    BY <2>1, <2>2
<1>11. f \in Bijection(1 .. n + 1, 1 .. n + 1)
  BY <1>7, <1>8, <1>9 DEF Bijection, Injection, Surjection, IsInjective
<1> QED
  BY <1>10, <1>11 DEF Sorts

LEMMA SortExists ==
    ASSUME NEW n \in Nat, NEW key \in [1 .. n -> Nat]
    PROVE  \E f : Sorts(f, n, key)
<1> DEFINE Sortable(k) == \A q \in [1 .. k -> Nat] : \E f : Sorts(f, k, q)
<1> DEFINE Bad == {k \in Nat : ~Sortable(k)}
<1>1. Sortable(0)
  <2> SUFFICES ASSUME NEW q \in [1 .. 0 -> Nat] PROVE \E f : Sorts(f, 0, q)
    OBVIOUS
  <2> DEFINE e == [i \in 1 .. 0 |-> i]
  <2>1. e \in Bijection(1 .. 0, 1 .. 0)
    BY DEF Bijection, Injection, Surjection, IsInjective
  <2>2. Sorts(e, 0, q)
    BY <2>1 DEF Sorts
  <2> QED
    BY <2>2
<1>2. ASSUME NEW k \in Nat, Sortable(k) PROVE Sortable(k + 1)
  BY <1>2, SortsOneMore
<1> HIDE DEF Sortable
<1>3. Bad = {}
  <2> SUFFICES ASSUME Bad # {} PROVE FALSE
    OBVIOUS
  <2>1. PICK k \in Bad : \A y \in Bad : k <= y
    <3>1. Bad \subseteq Nat
      OBVIOUS
    <3> HIDE DEF Bad
    <3> QED
      BY <3>1, LeastOf
  <2>2. k # 0
    BY <1>1
  <2>3. k - 1 \in Nat /\ k - 1 \notin Bad
    BY <2>1, <2>2
  <2>4. Sortable((k - 1) + 1)
    BY <1>2, <2>3
  <2> QED
    BY <2>4
<1>4. Sortable(n)
  BY <1>3
<1> QED
  BY <1>4 DEF Sortable

\* The events in order are the events.
LEMMA InOrderOnly ==
    ASSUME NEW es, NEW n \in Nat, DOMAIN es = 1 .. n, \A i \in 1 .. n : es[i].seq \in Nat
    PROVE  /\ DOMAIN InOrder(es) = 1 .. n
           /\ \A i \in 1 .. n : \E j \in 1 .. n : InOrder(es)[i] = es[j]
<1> DEFINE key == [i \in 1 .. n |-> es[i].seq]
<1> DEFINE from == CHOOSE f \in Bijection(1 .. n, 1 .. n) :
                       \A i, j \in 1 .. n : i < j => es[f[i]].seq <= es[f[j]].seq
<1>1. PICK f : Sorts(f, n, key)
  <2>1. key \in [1 .. n -> Nat]
    OBVIOUS
  <2> HIDE DEF key
  <2> QED
    BY <2>1, SortExists
<1>2. f \in Bijection(1 .. n, 1 .. n) /\ \A i \in 1 .. n : f[i] \in 1 .. n
  BY <1>1 DEF Sorts, Bijection, Injection
<1>3. \A i, j \in 1 .. n : i < j => es[f[i]].seq <= es[f[j]].seq
  BY <1>1, <1>2 DEF Sorts
<1>4. from \in Bijection(1 .. n, 1 .. n)
  BY <1>2, <1>3
<1>5. InOrder(es) = [i \in 1 .. n |-> es[from[i]]]
  BY DEF InOrder
<1> HIDE DEF from
<1>6. \A i \in 1 .. n : from[i] \in 1 .. n
  BY <1>4 DEF Bijection, Injection
<1> QED
  BY <1>5, <1>6

\* The members of a finite set in a sequence are its members.
LEMMA SetToSeqOnly ==
    ASSUME NEW S, IsFiniteSet(S)
    PROVE  /\ Cardinality(S) \in Nat /\ DOMAIN SetToSeq(S) = 1 .. Cardinality(S)
           /\ \A i \in 1 .. Cardinality(S) : SetToSeq(S)[i] \in S
<1>1. Cardinality(S) \in Nat /\ \E f : f \in Bijection(1 .. Cardinality(S), S)
  BY FS_CardinalityType DEF ExistsBijection
<1>2. PICK f \in [1 .. Cardinality(S) -> S] : IsInjective(f)
  BY <1>1 DEF Bijection, Injection
<1>3. SetToSeq(S) \in [1 .. Cardinality(S) -> S]
  BY <1>2 DEF SetToSeq
<1> QED
  BY <1>1, <1>3

-----------------------------------------------------------------------------
(* The history: what the events have carried and the hub has recorded.     *)

\* The part of the state that is about items; live is the epoch of an open relay,
\* epoch and last are those of the hub's record.
World ==
    [log |-> log, barred |-> barred, produced |-> produced,
     live |-> IF relay.open THEN relay.epoch ELSE 0,
     epoch |-> rec.epoch, last |-> IF rec = NoRecord THEN 0 ELSE rec.lastSeq]

\* The events of an epoch carry consecutive items, up to the last one while the
\* relay is in that epoch.
WorldOK(w) ==
    /\ w.log \in Seq(Seq(Nat)) /\ w.produced \in Nat /\ w.barred \subseteq 1 .. w.produced
    /\ w.live \in 0 .. Len(w.log)
    /\ \A e \in 1 .. Len(w.log) : \A k \in 1 .. Len(w.log[e]) :
           /\ w.log[e][k] \in 1 .. w.produced
           /\ k < Len(w.log[e]) => w.log[e][k + 1] = w.log[e][k] + 1
           /\ e = w.live /\ k = Len(w.log[e]) => w.log[e][k] = w.produced
    /\ w.epoch \in 0 .. Len(w.log) /\ w.last \in Nat
    /\ w.epoch # 0 => w.last <= Len(w.log[w.epoch])

\* Whoever shows V and is at the n-th event of epoch e lacks nothing up to it but
\* what no event carries, and goes on with the next event, if there will be one.
Joined(w, V, e, n) ==
    /\ n \in 0 .. Len(w.log[e])
    /\ n >= 1 => \A i \in 1 .. w.log[e][n] : i \in V \cup w.barred
    /\ n < Len(w.log[e]) => \A i \in 1 .. (w.log[e][n + 1] - 1) : i \in V \cup w.barred
    /\ n = Len(w.log[e]) /\ e = w.live => \A i \in 1 .. w.produced : i \in V \cup w.barred

\* The n-th event of epoch e has been sent; the 0-th is the beginning of the epoch.
Carried(w, e, n) == e \in 1 .. Len(w.log) /\ n \in 0 .. Len(w.log[e])

\* The items 1 .. upto are a history complete up to the n-th event of epoch e.
SoundSnapshot(w, e, n, upto) ==
    upto \in 0 .. w.produced /\ Carried(w, e, n) /\ Joined(w, 1 .. upto, e, n)

\* The hub has recorded that event, or had when the epoch was the source's.
Recorded(w, e, n) ==
    Carried(w, e, n) /\ e <= w.epoch /\ (e = w.epoch => n <= w.last)

\* What a step of the relay or of the hub does to all this: an epoch either gets no
\* event, and then what is produced while it is the relay's is barred, or it gets
\* the item produced.
NoEvent(w, w2, e) ==
    /\ Len(w2.log[e]) = Len(w.log[e])
    /\ w2.live = e => w.live = e /\ \A i \in 1 .. w2.produced : i <= w.produced \/ i \in w2.barred

OneEvent(w, w2, e) ==
    /\ Len(w2.log[e]) = Len(w.log[e]) + 1 /\ w.live = e
    /\ w2.produced = w.produced + 1 /\ w2.log[e][Len(w2.log[e])] = w2.produced

\* History is never rewritten, and the record never goes back.
Grows(w, w2) ==
    /\ WorldOK(w) /\ WorldOK(w2)
    /\ w.produced <= w2.produced /\ Len(w.log) <= Len(w2.log) /\ w.barred \subseteq w2.barred
    /\ \A e \in 1 .. Len(w.log) :
           /\ NoEvent(w, w2, e) \/ OneEvent(w, w2, e)
           /\ \A k \in 1 .. Len(w.log[e]) : w2.log[e][k] = w.log[e][k]
    /\ w.epoch <= w2.epoch /\ (w.epoch = w2.epoch => w.last <= w2.last)

LEMMA WorldTypes ==
    ASSUME NEW w, WorldOK(w)
    PROVE  /\ w.produced \in Nat /\ Len(w.log) \in Nat /\ w.epoch \in Nat /\ w.last \in Nat
           /\ \A e \in 1 .. Len(w.log) : Len(w.log[e]) \in Nat
           /\ \A e \in 1 .. Len(w.log) : \A k \in 1 .. Len(w.log[e]) : w.log[e][k] \in 1 .. w.produced
<1>1. \A e \in 1 .. Len(w.log) : w.log[e] \in Seq(Nat)
  BY DEF WorldOK
<1> QED
  BY <1>1 DEF WorldOK

LEMMA GrowsNot ==
    ASSUME NEW w, WorldOK(w)
    PROVE  Grows(w, w)
<1>1. \A e \in 1 .. Len(w.log) : NoEvent(w, w, e)
  BY WorldTypes DEF NoEvent
<1> QED
  BY <1>1, WorldTypes DEF Grows

LEMMA CarriedStays ==
    ASSUME NEW w, NEW w2, Grows(w, w2), NEW e, NEW n, Carried(w, e, n)
    PROVE  Carried(w2, e, n)
<1>1. e \in 1 .. Len(w.log) /\ n \in 0 .. Len(w.log[e]) /\ Len(w.log[e]) <= Len(w2.log[e])
  <2>1. WorldOK(w) /\ (NoEvent(w, w2, e) \/ OneEvent(w, w2, e))
    BY DEF Carried, Grows
  <2>2. Len(w.log[e]) \in Nat
    BY <2>1, WorldTypes DEF Carried
  <2> QED
    BY <2>1, <2>2 DEF NoEvent, OneEvent, Carried
<1>2. WorldOK(w2) /\ WorldOK(w) /\ Len(w.log) <= Len(w2.log)
  BY DEF Grows
<1>3. Len(w.log) \in Nat /\ Len(w2.log) \in Nat /\ Len(w.log[e]) \in Nat
  BY <1>1, <1>2, WorldTypes
<1>4. e \in 1 .. Len(w2.log)
  BY <1>1, <1>2, <1>3
<1>5. Len(w2.log[e]) \in Nat
  BY <1>2, <1>4, WorldTypes
<1> QED
  BY <1>1, <1>3, <1>4, <1>5 DEF Carried

LEMMA JoinedStays ==
    ASSUME NEW w, NEW w2, Grows(w, w2), NEW V, NEW e \in 1 .. Len(w.log), NEW n, Joined(w, V, e, n)
    PROVE  Joined(w2, V, e, n)
<1> DEFINE a == Len(w.log[e])
<1> DEFINE b == Len(w2.log[e])
<1> DEFINE p == w.produced
<1> DEFINE q == w2.produced
<1> DEFINE x == w.log[e]
<1> DEFINE y == w2.log[e]
<1> DEFINE have == V \cup w.barred
<1> DEFINE have2 == V \cup w2.barred
<1>1. WorldOK(w) /\ WorldOK(w2) /\ p <= q /\ Len(w.log) <= Len(w2.log) /\ w.barred \subseteq w2.barred
  BY DEF Grows
<1>2. Len(w.log) \in Nat /\ Len(w2.log) \in Nat /\ a \in Nat /\ p \in Nat /\ q \in Nat
  BY <1>1, WorldTypes
<1>3. e \in 1 .. Len(w2.log)
  BY <1>1, <1>2
<1>4. b \in Nat /\ \A k \in 1 .. b : y[k] \in 1 .. q
  BY <1>1, <1>3, WorldTypes
<1>5. \A k \in 1 .. a : x[k] \in 1 .. p /\ y[k] = x[k]
  BY <1>1, WorldTypes DEF Grows
<1>6. /\ n \in 0 .. a
      /\ n >= 1 => \A i \in 1 .. x[n] : i \in have
      /\ n < a => \A i \in 1 .. (x[n + 1] - 1) : i \in have
      /\ n = a /\ e = w.live => \A i \in 1 .. p : i \in have
  BY DEF Joined
<1>7. \A i : i \in have => i \in have2
  BY <1>1
<1>8. NoEvent(w, w2, e) \/ OneEvent(w, w2, e)
  BY DEF Grows
<1>9. \/ b = a /\ (w2.live = e => w.live = e /\ \A i \in 1 .. q : i <= p \/ i \in w2.barred)
      \/ b = a + 1 /\ w.live = e /\ q = p + 1 /\ y[b] = q
  BY <1>8 DEF NoEvent, OneEvent
<1>10. \A i \in w2.barred : i \in have2
  OBVIOUS
<1>11. Joined(w2, V, e, n) <=>
        /\ n \in 0 .. b
        /\ n >= 1 => \A i \in 1 .. y[n] : i \in have2
        /\ n < b => \A i \in 1 .. (y[n + 1] - 1) : i \in have2
        /\ n = b /\ e = w2.live => \A i \in 1 .. q : i \in have2
  BY DEF Joined
<1> HIDE DEF a, b, p, q, x, y, have, have2
<1>12. n \in 0 .. b /\ n \in Nat
  BY <1>2, <1>4, <1>6, <1>9
<1>13. n >= 1 => \A i \in 1 .. y[n] : i \in have2
  <2> SUFFICES ASSUME n >= 1, NEW i \in 1 .. y[n] PROVE i \in have2
    OBVIOUS
  <2>1. n \in 1 .. a
    BY <1>2, <1>6
  <2> QED
    BY <1>5, <1>6, <1>7, <2>1
<1>14. n < b => \A i \in 1 .. (y[n + 1] - 1) : i \in have2
  <2> SUFFICES ASSUME n < b, NEW i \in 1 .. (y[n + 1] - 1) PROVE i \in have2
    OBVIOUS
  <2>1. CASE n < a
    <3>1. n + 1 \in 1 .. a
      BY <1>2, <1>12, <2>1
    <3> QED
      BY <1>5, <1>6, <1>7, <2>1, <3>1
  <2>2. CASE n = a
    <3>1. b = a + 1 /\ w.live = e /\ q = p + 1 /\ y[n + 1] = q
      BY <1>2, <1>4, <1>9, <2>2
    <3>2. i \in 1 .. p
      BY <1>2, <3>1
    <3> QED
      BY <1>6, <1>7, <2>2, <3>1, <3>2
  <2> QED
    BY <1>2, <1>6, <2>1, <2>2
<1>15. n = b /\ e = w2.live => \A i \in 1 .. q : i \in have2
  <2> SUFFICES ASSUME n = b, e = w2.live, NEW i \in 1 .. q PROVE i \in have2
    OBVIOUS
  <2>1. b = a /\ w.live = e /\ (i <= p \/ i \in w2.barred)
    BY <1>2, <1>6, <1>9
  <2>2. i <= p => i \in 1 .. p
    BY <1>2
  <2> QED
    BY <1>6, <1>7, <1>10, <2>1, <2>2
<1> QED
  BY <1>11, <1>12, <1>13, <1>14, <1>15

LEMMA SnapshotStays ==
    ASSUME NEW w, NEW w2, Grows(w, w2), NEW e, NEW n, NEW upto, SoundSnapshot(w, e, n, upto)
    PROVE  SoundSnapshot(w2, e, n, upto)
<1>1. upto \in 0 .. w2.produced
  <2>1. w.produced \in Nat /\ w2.produced \in Nat /\ w.produced <= w2.produced
    BY WorldTypes DEF Grows
  <2> QED
    BY <2>1 DEF SoundSnapshot
<1>2. Carried(w2, e, n)
  BY CarriedStays DEF SoundSnapshot
<1>3. Joined(w2, 1 .. upto, e, n)
  BY JoinedStays DEF SoundSnapshot, Carried
<1> QED
  BY <1>1, <1>2, <1>3 DEF SoundSnapshot

LEMMA RecordedStays ==
    ASSUME NEW w, NEW w2, Grows(w, w2), NEW e, NEW n, Recorded(w, e, n)
    PROVE  Recorded(w2, e, n)
<1>1. Carried(w2, e, n)
  BY CarriedStays DEF Recorded
<1>2. w.epoch \in Nat /\ w2.epoch \in Nat /\ w.last \in Nat /\ w2.last \in Nat
  BY WorldTypes DEF Grows
<1>3. e \in 1 .. Len(w.log) /\ Len(w.log) \in Nat /\ Len(w.log[e]) \in Nat /\ n \in 0 .. Len(w.log[e])
  BY WorldTypes DEF Grows, Recorded, Carried
<1>4. e <= w.epoch /\ (e = w.epoch => n <= w.last)
  BY DEF Recorded
<1>5. w.epoch <= w2.epoch /\ (w.epoch = w2.epoch => w.last <= w2.last)
  BY DEF Grows
<1>6. e <= w2.epoch /\ (e = w2.epoch => n <= w2.last)
  BY <1>2, <1>3, <1>4, <1>5
<1> QED
  BY <1>1, <1>6 DEF Recorded

\* Showing more joins as well.
LEMMA JoinedMore ==
    ASSUME NEW w, NEW V, NEW W, V \subseteq W, NEW e, NEW n, Joined(w, V, e, n)
    PROVE  Joined(w, W, e, n)
<1>1. \A i : i \in V \cup w.barred => i \in W \cup w.barred
  OBVIOUS
<1> DEFINE have == V \cup w.barred
<1> DEFINE have2 == W \cup w.barred
<1>2. /\ n \in 0 .. Len(w.log[e])
      /\ n >= 1 => \A i \in 1 .. w.log[e][n] : i \in have
      /\ n < Len(w.log[e]) => \A i \in 1 .. (w.log[e][n + 1] - 1) : i \in have
      /\ n = Len(w.log[e]) /\ e = w.live => \A i \in 1 .. w.produced : i \in have
  BY DEF Joined
<1> HIDE DEF have
<1>3. /\ n \in 0 .. Len(w.log[e])
      /\ n >= 1 => \A i \in 1 .. w.log[e][n] : i \in have2
      /\ n < Len(w.log[e]) => \A i \in 1 .. (w.log[e][n + 1] - 1) : i \in have2
      /\ n = Len(w.log[e]) /\ e = w.live => \A i \in 1 .. w.produced : i \in have2
  <2> HIDE DEF have2
  <2>1. \A i : i \in have => i \in have2
    BY <1>1 DEF have, have2
  <2> QED
    BY <1>2, <2>1
<1> QED
  BY <1>3 DEF Joined

\* The next event, applied.
LEMMA JoinedNext ==
    ASSUME NEW w, WorldOK(w), NEW V, NEW e \in 1 .. Len(w.log), NEW n \in Nat, Joined(w, V, e, n),
           n + 1 \in 1 .. Len(w.log[e])
    PROVE  Joined(w, V \cup {w.log[e][n + 1]}, e, n + 1)
<1> DEFINE x == w.log[e]
<1> DEFINE a == Len(w.log[e])
<1> DEFINE have == V \cup w.barred
<1> DEFINE have2 == (V \cup {w.log[e][n + 1]}) \cup w.barred
<1>1. a \in Nat /\ w.produced \in Nat /\ \A k \in 1 .. a : x[k] \in 1 .. w.produced
  BY WorldTypes
<1>2. \A k \in 1 .. a : (k < a => x[k + 1] = x[k] + 1) /\ (e = w.live /\ k = a => x[k] = w.produced)
  BY DEF WorldOK
<1>3. \A i \in 1 .. (x[n + 1] - 1) : i \in have
  BY <1>1 DEF Joined
<1>4. \A i : i \in have \/ i = x[n + 1] => i \in have2
  OBVIOUS
<1>5. Joined(w, V \cup {w.log[e][n + 1]}, e, n + 1) <=>
        /\ n + 1 \in 0 .. a
        /\ n + 1 >= 1 => \A i \in 1 .. x[n + 1] : i \in have2
        /\ n + 1 < a => \A i \in 1 .. (x[n + 1 + 1] - 1) : i \in have2
        /\ n + 1 = a /\ e = w.live => \A i \in 1 .. w.produced : i \in have2
  BY DEF Joined
<1> HIDE DEF x, a, have, have2
<1>6. n + 1 \in 1 .. a
  BY DEF a
<1>7. \A i \in 1 .. x[n + 1] : i \in have2
  <2> SUFFICES ASSUME NEW i \in 1 .. x[n + 1] PROVE i \in have2
    OBVIOUS
  <2>1. i = x[n + 1] \/ i \in 1 .. (x[n + 1] - 1)
    BY <1>1, <1>6
  <2> QED
    BY <1>3, <1>4, <2>1
<1>8. n + 1 < a => \A i \in 1 .. (x[n + 1 + 1] - 1) : i \in have2
  <2>1. n + 1 < a => x[n + 1 + 1] = x[n + 1] + 1
    BY <1>2, <1>6
  <2>2. x[n + 1] \in Nat
    <3>1. x[n + 1] \in 1 .. w.produced /\ w.produced \in Nat
      BY <1>1, <1>6
    <3> QED
      BY <3>1
  <2>3. n + 1 < a => x[n + 1 + 1] - 1 = x[n + 1]
    BY <2>1, <2>2
  <2> QED
    BY <1>7, <2>3
<1>9. n + 1 = a /\ e = w.live => \A i \in 1 .. w.produced : i \in have2
  BY <1>2, <1>6, <1>7
<1> QED
  BY <1>1, <1>5, <1>6, <1>7, <1>8, <1>9

\* An epoch has no more events than there are items.
LEMMA LogLength ==
    ASSUME NEW w, WorldOK(w), NEW e \in 1 .. Len(w.log), NEW n \in 1 .. Len(w.log[e])
    PROVE  n <= w.log[e][n] /\ n <= w.produced
<1> DEFINE x == w.log[e]
<1> DEFINE a == Len(w.log[e])
<1> DEFINE Bad == {k \in 1 .. a : ~(k <= x[k])}
<1>1. a \in Nat /\ w.produced \in Nat /\ \A k \in 1 .. a : x[k] \in 1 .. w.produced
  BY WorldTypes
<1>2. \A k \in 1 .. a : k < a => x[k + 1] = x[k] + 1
  BY DEF WorldOK
<1> HIDE DEF x
<1>3. n \in 1 .. a
  OBVIOUS
<1> HIDE DEF a
<1>4. Bad = {}
  <2> SUFFICES ASSUME Bad # {} PROVE FALSE
    OBVIOUS
  <2>1. Bad \subseteq Nat
    BY <1>1
  <2>2. PICK k \in Bad : \A y \in Bad : k <= y
    <3> HIDE DEF Bad
    <3> QED
      BY <2>1, LeastOf
  <2>3. k \in 1 .. a /\ ~(k <= x[k]) /\ k # 1
    BY <1>1, <2>2
  <2>4. k - 1 \in 1 .. a /\ k - 1 < a /\ k - 1 \notin Bad /\ (k - 1) + 1 = k
    BY <1>1, <2>2, <2>3
  <2>5. k - 1 <= x[k - 1] /\ x[k] = x[k - 1] + 1 /\ x[k - 1] \in Nat
    BY <1>1, <1>2, <2>4
  <2> QED
    BY <1>1, <2>3, <2>5
<1>5. n <= x[n]
  BY <1>3, <1>4
<1> QED
  BY <1>1, <1>3, <1>5 DEF x

-----------------------------------------------------------------------------
(* What is on its way to the phone, and what the phone has.                *)

\* An answer to hub_sync: its events are recorded, its snapshot is sound.
AnswerOK(w, m) ==
    m.ok =>
       /\ m.epoch \in 1 .. w.epoch
       /\ IsFiniteSet(m.events) /\ \A n \in m.events : n >= 1 /\ Recorded(w, m.epoch, n)
       /\ m.mode = "snapshot" => SoundSnapshot(w, m.epoch, m.seq, m.upto) /\ Recorded(w, m.epoch, m.seq)

\* What may be said to the phone: events and epochs that the hub has recorded.
EventOK(w, m) == m.seq >= 1 /\ Recorded(w, m.epoch, m.seq)

MsgOK(w, m) ==
    /\ m.kind = "event" => EventOK(w, m)
    /\ m.kind \in {"sources", "selected"} => m.epoch \in 1 .. w.epoch
    /\ m.kind = "synced" => AnswerOK(w, m)

\* Only these two kinds give the phone an epoch whatever it has; no message ahead
\* of them is of a later one, nor is anything the phone remembers.  (The answer a
\* hub_sync had before it waited may be late.)
Dates(m) == m.kind \in {"sources", "selected"}
Dated(m) == Dates(m) \/ m.kind = "event" \/ (m.kind = "synced" /\ m.ok)

\* The messages are sound, and the dates along the queue do not go back.
QueueOK(w, q) ==
    /\ IsChannel(q)
    /\ \A i \in 1 .. Len(q) : MsgOK(w, q[i])
    /\ \A i, j \in 1 .. Len(q) : i < j /\ Dated(q[i]) /\ Dates(q[j]) => q[i].epoch <= q[j].epoch

\* Epoch e is no later than the record's, nor than any date still to come.
Behind(w, q, e) ==
    e \in 0 .. w.epoch /\ \A i \in 1 .. Len(q) : Dates(q[i]) => e <= q[i].epoch

\* What the phone shows, what it offers to load, and what a summary hid.
Held(p) == p.view \cup (1 .. p.earlier) \cup p.skipped

\* The cursor <<e, n>> of phone p: in the epoch of the history on the screen it is a
\* recorded event, and what is held joins up with it unless a gap was adopted.
CursorOK(w, q, p, e, n) ==
    /\ Behind(w, q, e) /\ n \in 0 .. w.produced
    /\ p.hydrated => p.base <= e
    /\ p.hydrated /\ e = p.base => Recorded(w, e, n) /\ (p.gapped \/ Joined(w, Held(p), e, n))

\* The list has items that exist, and all of them up to its leaf are held.
ListOK(w, p) ==
    /\ p.hydrated => p.base \in Nat \ {0}
    /\ p.view \subseteq 1 .. w.produced
    /\ p.leaf \in 0 .. w.produced
    /\ p.earlier \in 0 .. w.produced /\ p.skipped \subseteq 1 .. w.produced
    /\ \A i \in 1 .. p.leaf : i \in Held(p)
    /\ p.leaf # 0 => p.view # {}

\* The events that wait for the end of a synchronisation.
BufferOK(w, q, b) ==
    /\ IsChannel(b)
    /\ \A i \in 1 .. Len(b) : EventOK(w, b[i]) /\ Behind(w, q, b[i].epoch)

PhoneFields ==
    {"conn", "gen", "stage", "reconcile", "epoch", "seq", "disk", "hydrated", "view", "leaf", "earlier", "skipped",
     "buffer", "overflowed", "timer", "pending", "resyncGen", "listed", "online", "gapNotice",
     "gapped", "base", "out"}

IsCursor(c) == c = [epoch |-> c.epoch, seq |-> c.seq]

\* What the handlers keep of the phone; the cursor in storage is only asked about if d.
Core(w, q, p, d) ==
    /\ DOMAIN p = PhoneFields
    /\ ListOK(w, p)
    /\ CursorOK(w, q, p, p.epoch, p.seq)
    /\ d => CursorOK(w, q, p, p.disk.epoch, p.disk.seq) /\ IsCursor(p.disk)

Buffers(w, q, p) == BufferOK(w, q, p.buffer) /\ Len(p.buffer) <= MaxBuffer

PhoneOK(w, q, p) == Core(w, q, p, TRUE) /\ Buffers(w, q, p) /\ p.stage \in {"none", "select", "sync"}

\* The history and the cursors of two phones are the same.
SameList(p, r) ==
    /\ DOMAIN p = PhoneFields /\ DOMAIN r = PhoneFields
    /\ r.hydrated = p.hydrated /\ r.view = p.view /\ r.leaf = p.leaf
    /\ r.gapped = p.gapped /\ r.base = p.base /\ r.earlier = p.earlier /\ r.skipped = p.skipped
SameCursor(p, r) == SameList(p, r) /\ r.epoch = p.epoch /\ r.seq = p.seq /\ r.disk = p.disk

\* What a handler of events leaves alone.
Alike(p, r) ==
    /\ DOMAIN r = PhoneFields
    /\ r.stage = p.stage /\ r.buffer = p.buffer /\ r.conn = p.conn /\ r.gen = p.gen

LEMMA SameCursorOK ==
    ASSUME NEW w, NEW q, NEW p, NEW r, SameList(p, r), NEW e, NEW n, CursorOK(w, q, p, e, n)
    PROVE  CursorOK(w, q, r, e, n)
BY DEF SameList, CursorOK, Held

LEMMA SameCore ==
    ASSUME NEW w, NEW q, NEW p, NEW r, NEW d, SameCursor(p, r), Core(w, q, p, d)
    PROVE  Core(w, q, r, d)
<1>1. ListOK(w, r)
  BY DEF SameCursor, SameList, ListOK, Core, Held
<1>2. CursorOK(w, q, r, r.epoch, r.seq)
  BY SameCursorOK DEF SameCursor, Core
<1>3. d => CursorOK(w, q, r, r.disk.epoch, r.disk.seq) /\ IsCursor(r.disk)
  BY SameCursorOK DEF SameCursor, Core
<1> QED
  BY <1>1, <1>2, <1>3 DEF SameCursor, SameList, Core

LEMMA ScheduleSame ==
    ASSUME NEW p, DOMAIN p = PhoneFields
    PROVE  SameCursor(p, Schedule(p)) /\ Alike(p, Schedule(p))
BY DEF Schedule, PhoneFields, SameCursor, SameList, Alike

\* An event applied: the cursor moves to it, in memory and in storage.
LEMMA IngestFields ==
    ASSUME NEW p, DOMAIN p = PhoneFields, NEW e
    PROVE  /\ DOMAIN Ingest(p, e) = PhoneFields
           /\ Ingest(p, e).epoch = e.epoch /\ Ingest(p, e).seq = e.seq
           /\ Ingest(p, e).disk = [epoch |-> e.epoch, seq |-> e.seq]
           /\ Ingest(p, e).view = p.view \cup {log[e.epoch][e.seq]}
           /\ Ingest(p, e).hydrated = p.hydrated /\ Ingest(p, e).leaf = p.leaf
           /\ Ingest(p, e).gapped = p.gapped /\ Ingest(p, e).base = p.base
           /\ Ingest(p, e).earlier = p.earlier /\ Ingest(p, e).skipped = p.skipped
           /\ Alike(p, Ingest(p, e))
<1> DEFINE x == log[e.epoch][e.seq]
<1> DEFINE s == [p EXCEPT !.epoch = e.epoch, !.seq = e.seq, !.view = @ \cup {x}]
<1>1. Ingest(p, e) = [s EXCEPT !.disk = [epoch |-> s.epoch, seq |-> s.seq]]
  BY DEF Ingest, Saved
<1> HIDE DEF x
<1>2. /\ DOMAIN s = PhoneFields /\ s.epoch = e.epoch /\ s.seq = e.seq /\ s.view = p.view \cup {x}
      /\ s.hydrated = p.hydrated /\ s.leaf = p.leaf /\ s.gapped = p.gapped /\ s.base = p.base
      /\ s.earlier = p.earlier /\ s.skipped = p.skipped
      /\ s.stage = p.stage /\ s.buffer = p.buffer /\ s.conn = p.conn /\ s.gen = p.gen
  BY DEF PhoneFields
<1> HIDE DEF s
<1>3. /\ DOMAIN Ingest(p, e) = PhoneFields
      /\ Ingest(p, e).epoch = s.epoch /\ Ingest(p, e).seq = s.seq
      /\ Ingest(p, e).disk = [epoch |-> s.epoch, seq |-> s.seq]
      /\ Ingest(p, e).view = s.view
      /\ Ingest(p, e).hydrated = s.hydrated /\ Ingest(p, e).leaf = s.leaf
      /\ Ingest(p, e).gapped = s.gapped /\ Ingest(p, e).base = s.base
      /\ Ingest(p, e).earlier = s.earlier /\ Ingest(p, e).skipped = s.skipped
      /\ Ingest(p, e).stage = s.stage /\ Ingest(p, e).buffer = s.buffer
      /\ Ingest(p, e).conn = s.conn /\ Ingest(p, e).gen = s.gen
  BY <1>1, <1>2 DEF PhoneFields
<1> QED
  BY <1>2, <1>3 DEF Alike, x

\* The list and the cursors after that; the next event joins, another one is a gap.
LEMMA IngestKeeps ==
    ASSUME NEW w, WorldOK(w), w.log = log, NEW q, NEW p, NEW r, NEW d, Core(w, q, p, d),
           NEW e, EventOK(w, e), Behind(w, q, e.epoch),
           p.epoch = 0 \/ e.epoch = p.epoch,
           DOMAIN r = PhoneFields, r.epoch = e.epoch, r.seq = e.seq,
           r.disk = [epoch |-> e.epoch, seq |-> e.seq],
           r.view = p.view \cup {log[e.epoch][e.seq]},
           r.hydrated = p.hydrated, r.leaf = p.leaf, r.base = p.base,
           r.earlier = p.earlier, r.skipped = p.skipped,
           \/ r.gapped
           \/ r.gapped = p.gapped /\ e.seq = p.seq + 1
    PROVE  Core(w, q, r, TRUE)
<1>1. /\ e.epoch \in 1 .. Len(w.log) /\ e.seq \in 1 .. Len(w.log[e.epoch]) /\ e.seq \in Nat /\ e.epoch \in Nat
      /\ Recorded(w, e.epoch, e.seq)
  <2>1. /\ e.epoch \in 1 .. Len(w.log) /\ e.seq \in 0 .. Len(w.log[e.epoch]) /\ e.seq >= 1
        /\ Recorded(w, e.epoch, e.seq)
    BY DEF EventOK, Recorded, Carried
  <2>2. Len(w.log) \in Nat /\ Len(w.log[e.epoch]) \in Nat
    BY <2>1, WorldTypes
  <2> QED
    BY <2>1, <2>2
<1>2. log[e.epoch][e.seq] \in 1 .. w.produced /\ w.produced \in Nat /\ e.seq \in 0 .. w.produced
  <2>1. log[e.epoch][e.seq] \in 1 .. w.produced /\ w.produced \in Nat
    BY <1>1, WorldTypes
  <2>2. e.seq <= w.produced
    BY <1>1, LogLength
  <2> QED
    BY <1>1, <2>1, <2>2
<1>9. Held(r) = Held(p) \cup {log[e.epoch][e.seq]}
  BY DEF Held
<1>3. ListOK(w, r)
  BY <1>2, <1>9 DEF ListOK, Core
<1>4. CursorOK(w, q, p, p.epoch, p.seq) /\ p.epoch \in Nat /\ p.seq \in Nat
  BY WorldTypes DEF Core, CursorOK, Behind
<1>5. p.hydrated => p.base \in Nat \ {0} /\ p.base <= p.epoch /\ p.epoch = e.epoch
  BY <1>4 DEF CursorOK, Core, ListOK
<1>6. r.hydrated /\ e.epoch = r.base => r.gapped \/ Joined(w, Held(r), e.epoch, e.seq)
  <2> SUFFICES ASSUME r.hydrated, e.epoch = r.base, ~r.gapped PROVE Joined(w, Held(r), e.epoch, e.seq)
    OBVIOUS
  <2>1. Joined(w, Held(p), e.epoch, p.seq) /\ e.seq = p.seq + 1
    BY <1>4, <1>5 DEF CursorOK
  <2>2. Joined(w, Held(p) \cup {w.log[e.epoch][p.seq + 1]}, e.epoch, p.seq + 1)
    BY <1>1, <1>4, <2>1, JoinedNext
  <2> QED
    BY <1>9, <2>1, <2>2
<1>7. CursorOK(w, q, r, e.epoch, e.seq)
  BY <1>1, <1>2, <1>5, <1>6 DEF CursorOK
<1>8. IsCursor(r.disk)
  BY DEF IsCursor
<1> QED
  BY <1>3, <1>7, <1>8 DEF Core

-----------------------------------------------------------------------------
(* The handlers of the phone.                                              *)

LEMMA ApplyEventKeeps ==
    ASSUME NEW w, WorldOK(w), w.log = log, NEW q, NEW p, NEW d, Core(w, q, p, d),
           NEW e, EventOK(w, e), Behind(w, q, e.epoch)
    PROVE  Core(w, q, ApplyEvent(p, e), d) /\ Alike(p, ApplyEvent(p, e))
<1>1. DOMAIN p = PhoneFields
  BY DEF Core
<1>2. Alike(p, p)
  BY <1>1 DEF Alike
<1> DEFINE r == Ingest(p, e)
<1>3. /\ DOMAIN r = PhoneFields /\ r.epoch = e.epoch /\ r.seq = e.seq
      /\ r.disk = [epoch |-> e.epoch, seq |-> e.seq]
      /\ r.view = p.view \cup {log[e.epoch][e.seq]}
      /\ r.hydrated = p.hydrated /\ r.leaf = p.leaf
      /\ r.gapped = p.gapped /\ r.base = p.base /\ r.earlier = p.earlier /\ r.skipped = p.skipped
      /\ Alike(p, r)
  BY <1>1, IngestFields
<1> HIDE DEF r
<1>4. CASE p.epoch # 0 /\ e.epoch # p.epoch
  <2>1. ApplyEvent(p, e) = Schedule(p)
    BY <1>4 DEF ApplyEvent
  <2> QED
    BY <1>1, <2>1, ScheduleSame, SameCore
<1>5. CASE ~(p.epoch # 0 /\ e.epoch # p.epoch) /\ e.seq <= p.seq
  <2>1. ApplyEvent(p, e) = p
    BY <1>5 DEF ApplyEvent
  <2> QED
    BY <1>2, <2>1
<1>6. CASE ~(p.epoch # 0 /\ e.epoch # p.epoch) /\ ~(e.seq <= p.seq) /\ e.seq = p.seq + 1
  <2>1. ApplyEvent(p, e) = r
    BY <1>6 DEF ApplyEvent, r
  <2>2. Core(w, q, r, TRUE)
    BY <1>3, <1>6, IngestKeeps
  <2> QED
    BY <1>3, <2>1, <2>2 DEF Core
<1>7. CASE ~(p.epoch # 0 /\ e.epoch # p.epoch) /\ ~(e.seq <= p.seq) /\ e.seq # p.seq + 1
  <2> DEFINE g == [r EXCEPT !.gapNotice = TRUE, !.gapped = TRUE]
  <2>1. ApplyEvent(p, e) = Schedule(g)
    BY <1>7 DEF ApplyEvent, r
  <2>2. /\ DOMAIN g = PhoneFields /\ g.epoch = e.epoch /\ g.seq = e.seq
        /\ g.disk = [epoch |-> e.epoch, seq |-> e.seq]
        /\ g.view = p.view \cup {log[e.epoch][e.seq]}
        /\ g.hydrated = p.hydrated /\ g.leaf = p.leaf /\ g.base = p.base
        /\ g.earlier = p.earlier /\ g.skipped = p.skipped
        /\ g.gapped /\ Alike(p, g)
    BY <1>3 DEF Alike, PhoneFields
  <2> HIDE DEF g
  <2>3. Core(w, q, g, TRUE)
    BY <1>7, <2>2, IngestKeeps
  <2>4. Core(w, q, Schedule(g), TRUE) /\ Alike(g, Schedule(g))
    BY <2>2, <2>3, ScheduleSame, SameCore
  <2> QED
    BY <2>1, <2>2, <2>4 DEF Core, Alike
<1> QED
  BY <1>4, <1>5, <1>6, <1>7

-----------------------------------------------------------------------------
(* A sequence of events applied one after the other.                       *)

\* it[t] is what p becomes by the events whose places are in t, up to the n-th.
Folds(it, p, es, n) ==
    it = [t \in SUBSET (1 .. n) |-> IF t = {} THEN p ELSE ApplyEvent(it[t \ {Max(t)}], es[Max(t)])]

LEMMA MaxOfMore ==
    ASSUME NEW n \in Nat, NEW t \in SUBSET (1 .. n + 1), n + 1 \in t
    PROVE  Max(t) = n + 1 /\ t \ {Max(t)} \in SUBSET (1 .. n)
<1>1. \A y \in t : n + 1 >= y
  OBVIOUS
<1>2. ASSUME NEW x \in t, \A y \in t : x >= y PROVE x = n + 1
  BY <1>2
<1>3. Max(t) = n + 1
  BY <1>1, <1>2 DEF Max
<1> QED
  BY <1>3

LEMMA FoldsExist ==
    ASSUME NEW p, NEW es, NEW n \in Nat
    PROVE  \E it : Folds(it, p, es, n)
<1> DEFINE Has(k) == \E it : Folds(it, p, es, k)
<1> DEFINE Bad == {k \in Nat : ~Has(k)}
<1>1. Has(0)
  <2> DEFINE it == [t \in SUBSET (1 .. 0) |-> p]
  <2>1. \A t \in SUBSET (1 .. 0) : t = {}
    OBVIOUS
  <2>2. Folds(it, p, es, 0)
    BY <2>1 DEF Folds
  <2> QED
    BY <2>2
<1>2. ASSUME NEW k \in Nat, Has(k) PROVE Has(k + 1)
  <2>1. PICK it : Folds(it, p, es, k)
    BY <1>2
  <2> DEFINE more == [t \in SUBSET (1 .. k + 1) |->
                         IF k + 1 \in t THEN ApplyEvent(it[t \ {k + 1}], es[k + 1]) ELSE it[t]]
  <2>2. ASSUME NEW t \in SUBSET (1 .. k + 1)
        PROVE  more[t] = IF t = {} THEN p ELSE ApplyEvent(more[t \ {Max(t)}], es[Max(t)])
    <3>1. CASE k + 1 \in t
      <4>1. Max(t) = k + 1 /\ t \ {Max(t)} \in SUBSET (1 .. k)
        BY <3>1, MaxOfMore
      <4>2. t \ {Max(t)} \in SUBSET (1 .. k + 1) /\ k + 1 \notin t \ {Max(t)}
        BY <4>1
      <4>3. more[t \ {Max(t)}] = it[t \ {k + 1}]
        BY <4>1, <4>2
      <4> QED
        BY <3>1, <4>1, <4>3
    <3>2. CASE k + 1 \notin t
      <4>5. \A y \in 1 .. k + 1 : y # k + 1 => y \in 1 .. k
        OBVIOUS
      <4>6. t \in SUBSET (1 .. k)
        BY <3>2, <4>5
      <4>1. t \in SUBSET (1 .. k) /\ t \ {Max(t)} \in SUBSET (1 .. k)
        BY <4>6
      <4>2. it[t] = IF t = {} THEN p ELSE ApplyEvent(it[t \ {Max(t)}], es[Max(t)])
        BY <2>1, <4>1 DEF Folds
      <4>3. t \ {Max(t)} \in SUBSET (1 .. k + 1) /\ k + 1 \notin t \ {Max(t)}
        BY <4>1
      <4>4. more[t] = it[t] /\ more[t \ {Max(t)}] = it[t \ {Max(t)}]
        BY <3>2, <4>3
      <4> QED
        BY <4>2, <4>4
    <3> QED
      BY <3>1, <3>2
  <2>3. more = [t \in SUBSET (1 .. k + 1) |-> more[t]]
    OBVIOUS
  <2> HIDE DEF more
  <2>4. Folds(more, p, es, k + 1)
    BY <2>2, <2>3 DEF Folds
  <2> QED
    BY <2>4
<1> HIDE DEF Has
<1>3. Bad = {}
  <2> SUFFICES ASSUME Bad # {} PROVE FALSE
    OBVIOUS
  <2>1. PICK k \in Bad : \A y \in Bad : k <= y
    <3>1. Bad \subseteq Nat
      OBVIOUS
    <3> HIDE DEF Bad
    <3> QED
      BY <3>1, LeastOf
  <2>2. k # 0
    BY <1>1
  <2>3. k - 1 \in Nat /\ k - 1 \notin Bad
    BY <2>1, <2>2
  <2>4. Has((k - 1) + 1)
    BY <1>2, <2>3
  <2> QED
    BY <2>4
<1>4. Has(n)
  BY <1>3
<1> QED
  BY <1>4 DEF Has

LEMMA FoldKeeps ==
    ASSUME NEW w, WorldOK(w), w.log = log, NEW q, NEW p, NEW d, Core(w, q, p, d),
           NEW es, NEW n \in Nat, DOMAIN es = 1 .. n,
           \A i \in 1 .. n : EventOK(w, es[i]) /\ Behind(w, q, es[i].epoch)
    PROVE  /\ Core(w, q, FoldLeft(ApplyEvent, p, es), d)
           /\ Alike(p, FoldLeft(ApplyEvent, p, es))
<1> DEFINE Good(r) == Core(w, q, r, d) /\ Alike(p, r)
<1> DEFINE it == CHOOSE f : Folds(f, p, es, n)
<1>1. FoldLeft(ApplyEvent, p, es) = it[1 .. n]
  BY DEF FoldLeft, MapThenFoldSet, Folds
<1>2. Folds(it, p, es, n)
  BY FoldsExist
<1> HIDE DEF it
<1>3. \A t \in SUBSET (1 .. n) : it[t] = IF t = {} THEN p ELSE ApplyEvent(it[t \ {Max(t)}], es[Max(t)])
  BY <1>2 DEF Folds
<1>4. Good(p)
  BY DEF Core, Alike
<1>5. ASSUME NEW r, Good(r), NEW i \in 1 .. n PROVE Good(ApplyEvent(r, es[i]))
  <2>1. Core(w, q, ApplyEvent(r, es[i]), d) /\ Alike(r, ApplyEvent(r, es[i]))
    BY <1>5, ApplyEventKeeps
  <2> QED
    BY <1>5, <2>1 DEF Alike
<1> DEFINE All(k) == \A t \in SUBSET (1 .. k) : Good(it[t])
<1> DEFINE Bad == {k \in 0 .. n : ~All(k)}
<1>6. All(0)
  <2>1. \A t \in SUBSET (1 .. 0) : t = {} /\ t \in SUBSET (1 .. n)
    OBVIOUS
  <2> HIDE DEF Good
  <2> QED
    BY <1>3, <1>4, <2>1
<1> HIDE DEF Good
<1>7. ASSUME NEW k \in Nat, k + 1 <= n, All(k) PROVE All(k + 1)
  <2> SUFFICES ASSUME NEW t \in SUBSET (1 .. k + 1) PROVE Good(it[t])
    OBVIOUS
  <2>1. CASE k + 1 \in t
    <3>1. Max(t) = k + 1 /\ t \ {Max(t)} \in SUBSET (1 .. k)
      BY <2>1, MaxOfMore
    <3>2. Good(it[t \ {Max(t)}]) /\ k + 1 \in 1 .. n /\ t \in SUBSET (1 .. n) /\ t # {}
      BY <1>7, <2>1, <3>1
    <3>3. it[t] = ApplyEvent(it[t \ {Max(t)}], es[k + 1])
      BY <1>3, <3>1, <3>2
    <3> QED
      BY <1>5, <3>2, <3>3
  <2>2. CASE k + 1 \notin t
    <3>1. t \in SUBSET (1 .. k)
      BY <2>2
    <3> QED
      BY <1>7, <3>1
  <2> QED
    BY <2>1, <2>2
<1> HIDE DEF All
<1>8. Bad = {}
  <2> SUFFICES ASSUME Bad # {} PROVE FALSE
    OBVIOUS
  <2>1. PICK k \in Bad : \A y \in Bad : k <= y
    <3>1. Bad \subseteq Nat
      OBVIOUS
    <3> HIDE DEF Bad
    <3> QED
      BY <3>1, LeastOf
  <2>2. k # 0 /\ k \in 0 .. n
    BY <1>6, <2>1
  <2>3. k - 1 \in Nat /\ (k - 1) + 1 = k /\ k - 1 \in 0 .. n /\ k - 1 \notin Bad
    BY <2>1, <2>2
  <2>4. All((k - 1) + 1)
    BY <1>7, <2>2, <2>3
  <2> QED
    BY <2>1, <2>3, <2>4
<1>9. All(n)
  BY <1>8
<1>10. Good(it[1 .. n])
  BY <1>9 DEF All
<1> QED
  BY <1>1, <1>10 DEF Good

-----------------------------------------------------------------------------
(* What the phone does on its own account keeps what is known of it.       *)

LEMMA BehindLess ==
    ASSUME NEW w, NEW q, QueueOK(w, q), q # <<>>, NEW e, Behind(w, q, e)
    PROVE  Behind(w, Tail(q), e) /\ (Dates(Head(q)) => e <= Head(q).epoch)
<1>1. /\ Len(q) \in Nat /\ Len(q) >= 1 /\ Len(Tail(q)) = Len(q) - 1 /\ Head(q) = q[1]
      /\ \A i \in 1 .. Len(q) - 1 : Tail(q)[i] = q[i + 1]
  BY Tailed DEF QueueOK
<1>2. \A i \in 1 .. Len(Tail(q)) : i + 1 \in 1 .. Len(q) /\ Tail(q)[i] = q[i + 1]
  BY <1>1
<1>3. 1 \in 1 .. Len(q)
  BY <1>1
<1> QED
  BY <1>1, <1>2, <1>3 DEF Behind

LEMMA QueueLess ==
    ASSUME NEW w, WorldOK(w), NEW q, QueueOK(w, q), q # <<>>
    PROVE  /\ QueueOK(w, Tail(q)) /\ MsgOK(w, Head(q))
           /\ Dated(Head(q)) => Behind(w, Tail(q), Head(q).epoch)
<1>1. /\ IsChannel(Tail(q)) /\ Len(q) \in Nat /\ Len(q) >= 1 /\ Len(Tail(q)) = Len(q) - 1 /\ Head(q) = q[1]
      /\ \A i \in 1 .. Len(q) - 1 : Tail(q)[i] = q[i + 1]
  BY Tailed DEF QueueOK
<1>2. \A i \in 1 .. Len(Tail(q)) : i + 1 \in 1 .. Len(q) /\ Tail(q)[i] = q[i + 1]
  BY <1>1
<1>3. 1 \in 1 .. Len(q)
  BY <1>1
<1>4. MsgOK(w, Head(q))
  BY <1>1, <1>3 DEF QueueOK
<1>5. \A i \in 1 .. Len(Tail(q)) : MsgOK(w, Tail(q)[i])
  BY <1>2 DEF QueueOK
<1>6. \A i, j \in 1 .. Len(Tail(q)) :
         i < j /\ Dated(Tail(q)[i]) /\ Dates(Tail(q)[j]) => Tail(q)[i].epoch <= Tail(q)[j].epoch
  <2> SUFFICES ASSUME NEW i \in 1 .. Len(Tail(q)), NEW j \in 1 .. Len(Tail(q)), i < j,
                      Dated(Tail(q)[i]), Dates(Tail(q)[j])
               PROVE  Tail(q)[i].epoch <= Tail(q)[j].epoch
    OBVIOUS
  <2>1. i + 1 \in 1 .. Len(q) /\ j + 1 \in 1 .. Len(q) /\ i + 1 < j + 1
    BY <1>2
  <2> QED
    BY <1>2, <2>1 DEF QueueOK
<1>7. QueueOK(w, Tail(q))
  BY <1>1, <1>5, <1>6 DEF QueueOK
<1>8. ASSUME Dated(Head(q)) PROVE Behind(w, Tail(q), Head(q).epoch)
  <2>1. Head(q).epoch \in 0 .. w.epoch
    <3>1. Dates(Head(q)) => Head(q).epoch \in 1 .. w.epoch
      BY <1>4 DEF MsgOK, Dates
    <3>2. Head(q).kind = "event" => Recorded(w, Head(q).epoch, Head(q).seq)
      BY <1>4 DEF MsgOK, EventOK
    <3>3. Head(q).kind = "synced" /\ Head(q).ok => Head(q).epoch \in 1 .. w.epoch
      BY <1>4 DEF MsgOK, AnswerOK
    <3> QED
      BY <1>8, <3>1, <3>2, <3>3, WorldTypes DEF Dated, Recorded, Carried
  <2>2. \A i \in 1 .. Len(Tail(q)) : Dates(Tail(q)[i]) => Head(q).epoch <= Tail(q)[i].epoch
    <3> SUFFICES ASSUME NEW i \in 1 .. Len(Tail(q)), Dates(Tail(q)[i]) PROVE Head(q).epoch <= Tail(q)[i].epoch
      OBVIOUS
    <3>1. i + 1 \in 1 .. Len(q) /\ 1 < i + 1 /\ Tail(q)[i] = q[i + 1]
      BY <1>2
    <3> QED
      BY <1>1, <1>3, <1>8, <3>1 DEF QueueOK
  <2> QED
    BY <2>1, <2>2 DEF Behind
<1> QED
  BY <1>4, <1>7, <1>8

\* With less on its way the phone is as well off.
LEMMA PhoneLess ==
    ASSUME NEW w, NEW q, QueueOK(w, q), q # <<>>, NEW p, PhoneOK(w, q, p)
    PROVE  PhoneOK(w, Tail(q), p)
<1>1. CursorOK(w, Tail(q), p, p.epoch, p.seq)
  BY BehindLess DEF PhoneOK, Core, CursorOK
<1>2. CursorOK(w, Tail(q), p, p.disk.epoch, p.disk.seq)
  BY BehindLess DEF PhoneOK, Core, CursorOK
<1>3. BufferOK(w, Tail(q), p.buffer)
  BY BehindLess DEF PhoneOK, Buffers, BufferOK
<1> QED
  BY <1>1, <1>2, <1>3 DEF PhoneOK, Core, Buffers

\* A change of what controls the phone.
LEMMA ControlKeeps ==
    ASSUME NEW w, NEW q, NEW p, NEW r, SameCursor(p, r), r.buffer = p.buffer,
           r.stage \in {"none", "select", "sync"}, PhoneOK(w, q, p)
    PROVE  PhoneOK(w, q, r)
BY SameCore DEF PhoneOK, Buffers

LEMMA ControlEmptied ==
    ASSUME NEW w, NEW q, NEW p, NEW r, SameCursor(p, r), r.buffer = <<>>,
           r.stage \in {"none", "select", "sync"}, PhoneOK(w, q, p)
    PROVE  PhoneOK(w, q, r)
<1>1. Buffers(w, q, r)
  BY EmptyChannel, SyncAssumption DEF Buffers, BufferOK
<1> QED
  BY <1>1, SameCore DEF PhoneOK

LEMMA ScheduleKeeps ==
    ASSUME NEW w, NEW q, NEW p, PhoneOK(w, q, p)
    PROVE  PhoneOK(w, q, Schedule(p))
<1>1. DOMAIN p = PhoneFields
  BY DEF PhoneOK, Core
<1>2. SameCursor(p, Schedule(p)) /\ Alike(p, Schedule(p))
  BY <1>1, ScheduleSame
<1> QED
  BY <1>2, ControlKeeps DEF Alike, PhoneOK

LEMMA ReleaseKeeps ==
    ASSUME NEW w, NEW q, NEW p, PhoneOK(w, q, p)
    PROVE  PhoneOK(w, q, ReleasePending(p))
<1> DEFINE r == [p EXCEPT !.pending = FALSE]
<1>1. DOMAIN p = PhoneFields
  BY DEF PhoneOK, Core
<1>2. SameCursor(p, r) /\ r.buffer = p.buffer /\ r.stage = p.stage
  BY <1>1 DEF PhoneFields, SameCursor, SameList
<1>3. ReleasePending(p) = p \/ ReleasePending(p) = Schedule(r)
  BY DEF ReleasePending
<1> HIDE DEF r
<1>4. PhoneOK(w, q, r)
  BY <1>2, ControlKeeps DEF PhoneOK
<1> QED
  BY <1>3, <1>4, ScheduleKeeps

LEMMA IdleKeeps ==
    ASSUME NEW w, NEW q, NEW p, PhoneOK(w, q, p)
    PROVE  PhoneOK(w, q, Idle(p)) /\ Idle(p).stage = "none" /\ Idle(p).conn = p.conn
<1>1. DOMAIN p = PhoneFields
  BY DEF PhoneOK, Core
<1>2. SameCursor(p, Idle(p)) /\ Idle(p).buffer = p.buffer /\ Idle(p).stage = "none" /\ Idle(p).conn = p.conn
  BY <1>1 DEF PhoneFields, SameCursor, SameList, Idle
<1> QED
  BY <1>2, ControlKeeps

LEMMA SyncingKeeps ==
    ASSUME NEW w, NEW q, NEW p, PhoneOK(w, q, p), NEW forced, NEW gen
    PROVE  PhoneOK(w, q, Syncing(p, forced, gen))
<1> DEFINE s == [p EXCEPT !.stage = "sync", !.gen = gen]
<1> DEFINE o1 == Append(s.out, Request("sync", gen, 0, 0))
<1> DEFINE o2 == Append(s.out, Request("sync", gen, p.disk.epoch, p.disk.seq))
<1> DEFINE a == [s EXCEPT !.out = o1]
<1> DEFINE b == [s EXCEPT !.epoch = p.disk.epoch, !.seq = p.disk.seq, !.out = o2]
<1>1. DOMAIN p = PhoneFields
  BY DEF PhoneOK, Core
<1>2. SameCursor(p, s) /\ s.buffer = p.buffer /\ s.stage = "sync"
  BY <1>1 DEF PhoneFields, SameCursor, SameList
<1>3. Syncing(p, forced, gen) = a \/ Syncing(p, forced, gen) = b
  BY <1>1, <1>2 DEF Syncing, SameCursor, SameList, PhoneFields
<1> HIDE DEF s, o1, o2
<1>4. PhoneOK(w, q, a)
  <2>1. SameCursor(p, a) /\ a.buffer = p.buffer /\ a.stage = "sync"
    BY <1>1, <1>2 DEF PhoneFields, SameCursor, SameList
  <2> QED
    BY <2>1, ControlKeeps
<1>5. PhoneOK(w, q, b)
  <2>1. /\ SameList(p, b) /\ b.buffer = p.buffer /\ b.stage = "sync" /\ b.disk = p.disk
        /\ b.epoch = p.disk.epoch /\ b.seq = p.disk.seq
    BY <1>1, <1>2 DEF PhoneFields, SameCursor, SameList
  <2> HIDE DEF b
  <2>2. CursorOK(w, q, b, b.disk.epoch, b.disk.seq) /\ CursorOK(w, q, b, b.epoch, b.seq)
    BY <2>1, SameCursorOK DEF PhoneOK, Core
  <2>3. ListOK(w, b)
    BY <2>1 DEF SameList, ListOK, PhoneOK, Core, Held
  <2> QED
    BY <2>1, <2>2, <2>3 DEF PhoneOK, Core, Buffers, SameList
<1> QED
  BY <1>3, <1>4, <1>5

LEMMA SelectingKeeps ==
    ASSUME NEW w, NEW q, NEW p, PhoneOK(w, q, p), NEW gen
    PROVE  PhoneOK(w, q, Selecting(p, gen))
<1> DEFINE o == Append(p.out, Request("select", gen, 0, 0))
<1> DEFINE r == [p EXCEPT !.stage = "select", !.gen = gen, !.reconcile = TRUE, !.buffer = <<>>, !.out = o]
<1>1. DOMAIN p = PhoneFields
  BY DEF PhoneOK, Core
<1>2. Selecting(p, gen) = r
  BY DEF Selecting
<1> HIDE DEF o
<1>3. SameCursor(p, r) /\ r.buffer = <<>> /\ r.stage = "select"
  BY <1>1 DEF PhoneFields, SameCursor, SameList
<1> QED
  BY <1>2, <1>3, ControlEmptied

LEMMA BufferedKeeps ==
    ASSUME NEW w, WorldOK(w), NEW q, NEW p, PhoneOK(w, q, p), NEW e, EventOK(w, e), Behind(w, q, e.epoch)
    PROVE  PhoneOK(w, q, Buffered(p, e))
<1> DEFINE b == p.buffer
<1> DEFINE b1 == Append(p.buffer, e)
<1> DEFINE b2 == Append(Tail(p.buffer), e)
<1>1. DOMAIN p = PhoneFields /\ BufferOK(w, q, b) /\ Len(b) <= MaxBuffer /\ IsChannel(b) /\ MaxBuffer \in Nat \ {0}
  BY SyncAssumption DEF PhoneOK, Core, Buffers, BufferOK
<1>2. ASSUME NEW s, BufferOK(w, q, s) PROVE BufferOK(w, q, Append(s, e)) /\ Len(Append(s, e)) = Len(s) + 1 /\ Len(s) \in Nat
  <2>1. /\ IsChannel(Append(s, e)) /\ Len(s) \in Nat /\ Len(Append(s, e)) = Len(s) + 1
        /\ Append(s, e)[Len(s) + 1] = e /\ \A i \in 1 .. Len(s) : Append(s, e)[i] = s[i]
    BY <1>2, Appended DEF BufferOK
  <2>2. \A i \in 1 .. Len(Append(s, e)) : i \in 1 .. Len(s) \/ i = Len(s) + 1
    BY <2>1
  <2> QED
    BY <1>2, <2>1, <2>2 DEF BufferOK
<1>3. CASE Len(b) < MaxBuffer
  <2> DEFINE r == [p EXCEPT !.buffer = b1]
  <2>1. Buffered(p, e) = r
    BY <1>1, <1>3 DEF Buffered, PhoneFields
  <2>2. BufferOK(w, q, b1) /\ Len(b1) <= MaxBuffer
    BY <1>1, <1>2, <1>3
  <2> HIDE DEF b1
  <2>3. SameCursor(p, r) /\ r.buffer = b1 /\ r.stage = p.stage
    BY <1>1 DEF PhoneFields, SameCursor, SameList
  <2> QED
    BY <2>1, <2>2, <2>3, SameCore DEF PhoneOK, Buffers
<1>4. CASE ~(Len(b) < MaxBuffer)
  <2> DEFINE r == [p EXCEPT !.buffer = b2, !.overflowed = TRUE]
  <2>1. Buffered(p, e) = r
    BY <1>1, <1>4 DEF Buffered, PhoneFields
  <2>2. b # <<>>
    BY <1>1, <1>4, EmptyChannel
  <2>3. /\ IsChannel(Tail(b)) /\ Len(b) \in Nat /\ Len(b) >= 1 /\ Len(Tail(b)) = Len(b) - 1
        /\ \A i \in 1 .. Len(b) - 1 : Tail(b)[i] = b[i + 1]
    BY <1>1, <2>2, Tailed
  <2>4. \A i \in 1 .. Len(Tail(b)) : i + 1 \in 1 .. Len(b) /\ Tail(b)[i] = b[i + 1]
    BY <2>3
  <2>5. BufferOK(w, q, Tail(b))
    BY <1>1, <2>3, <2>4 DEF BufferOK
  <2>6. BufferOK(w, q, b2) /\ Len(b2) <= MaxBuffer
    BY <1>1, <1>2, <1>4, <2>3, <2>5
  <2> HIDE DEF b2
  <2>7. SameCursor(p, r) /\ r.buffer = b2 /\ r.stage = p.stage
    BY <1>1 DEF PhoneFields, SameCursor, SameList
  <2> QED
    BY <2>1, <2>6, <2>7, SameCore DEF PhoneOK, Buffers
<1> QED
  BY <1>3, <1>4

LEMMA DrainKeeps ==
    ASSUME NEW w, WorldOK(w), w.log = log, NEW q, NEW p, PhoneOK(w, q, p)
    PROVE  PhoneOK(w, q, Drain(p)) /\ Drain(p).conn = p.conn /\ Drain(p).stage = p.stage
<1> DEFINE s == [p EXCEPT !.buffer = <<>>]
<1> DEFINE es == InOrder(p.buffer)
<1> DEFINE n == Len(p.buffer)
<1> DEFINE r == FoldLeft(ApplyEvent, s, es)
<1> DEFINE t == [r EXCEPT !.overflowed = FALSE]
<1>1. DOMAIN p = PhoneFields /\ BufferOK(w, q, p.buffer)
  BY DEF PhoneOK, Core, Buffers
<1>2. SameCursor(p, s) /\ s.buffer = <<>> /\ s.stage = p.stage /\ s.conn = p.conn
  BY <1>1 DEF PhoneFields, SameCursor, SameList
<1>3. n \in Nat /\ DOMAIN p.buffer = 1 .. n
  BY <1>1 DEF BufferOK, IsChannel
<1>4. \A i \in 1 .. n : p.buffer[i].seq \in Nat
  <2> SUFFICES ASSUME NEW i \in 1 .. n PROVE p.buffer[i].seq \in Nat
    OBVIOUS
  <2>1. Carried(w, p.buffer[i].epoch, p.buffer[i].seq)
    BY <1>1 DEF BufferOK, EventOK, Recorded
  <2> QED
    BY <2>1, WorldTypes DEF Carried
<1>5. DOMAIN es = 1 .. n /\ \A i \in 1 .. n : \E j \in 1 .. n : es[i] = p.buffer[j]
  BY <1>3, <1>4, InOrderOnly
<1>6. \A i \in 1 .. n : EventOK(w, es[i]) /\ Behind(w, q, es[i].epoch)
  BY <1>1, <1>5 DEF BufferOK
<1>7. Core(w, q, s, TRUE)
  BY <1>2, SameCore DEF PhoneOK
<1>8. Drain(p) = IF p.overflowed THEN Schedule(t) ELSE r
  BY DEF Drain
<1> HIDE DEF s, es, n
<1>9. Core(w, q, r, TRUE) /\ Alike(s, r)
  BY <1>3, <1>5, <1>6, <1>7, FoldKeeps
<1> HIDE DEF r
<1>14. r.buffer = <<>> /\ r.stage = p.stage /\ r.conn = p.conn /\ DOMAIN r = PhoneFields
  BY <1>2, <1>9 DEF Alike
<1>15. Buffers(w, q, r)
  BY <1>14, EmptyChannel, SyncAssumption DEF Buffers, BufferOK
<1>10. PhoneOK(w, q, r) /\ r.stage = p.stage /\ r.conn = p.conn /\ DOMAIN r = PhoneFields
  BY <1>9, <1>14, <1>15 DEF PhoneOK
<1>11. SameCursor(r, t) /\ t.buffer = r.buffer /\ t.stage = r.stage /\ t.conn = r.conn /\ DOMAIN t = PhoneFields
  BY <1>10 DEF PhoneFields, SameCursor, SameList
<1> HIDE DEF t
<1>12. PhoneOK(w, q, t)
  BY <1>10, <1>11, ControlKeeps DEF PhoneOK
<1>13. PhoneOK(w, q, Schedule(t)) /\ Alike(t, Schedule(t))
  BY <1>11, <1>12, ScheduleKeeps, ScheduleSame
<1> QED
  BY <1>8, <1>10, <1>11, <1>13 DEF Alike

LEMMA FinishedKeeps ==
    ASSUME NEW w, WorldOK(w), w.log = log, NEW q, NEW p, PhoneOK(w, q, p)
    PROVE  PhoneOK(w, q, Finished(p))
<1> DEFINE s == Drain(Idle(p))
<1> DEFINE g == IF s.resyncGen = p.gen THEN 0 ELSE s.resyncGen
<1> DEFINE t == [s EXCEPT !.resyncGen = g]
<1>1. PhoneOK(w, q, s)
  BY IdleKeeps, DrainKeeps
<1>2. DOMAIN s = PhoneFields
  BY <1>1 DEF PhoneOK, Core
<1>3. Finished(p) = ReleasePending(t)
  BY <1>2 DEF Finished, PhoneFields
<1> HIDE DEF s, g
<1>4. SameCursor(s, t) /\ t.buffer = s.buffer /\ t.stage = s.stage
  BY <1>2 DEF PhoneFields, SameCursor, SameList
<1> HIDE DEF t
<1>5. PhoneOK(w, q, t)
  BY <1>1, <1>4, ControlKeeps DEF PhoneOK
<1> QED
  BY <1>3, <1>5, ReleaseKeeps

LEMMA SavedKeeps ==
    ASSUME NEW w, NEW q, NEW p, NEW d, Core(w, q, p, d)
    PROVE  Core(w, q, Saved(p), TRUE) /\ Alike(p, Saved(p))
<1> DEFINE c == [epoch |-> p.epoch, seq |-> p.seq]
<1> DEFINE r == [p EXCEPT !.disk = c]
<1>1. DOMAIN p = PhoneFields /\ c.epoch = p.epoch /\ c.seq = p.seq /\ Saved(p) = r
  BY DEF Core, Saved
<1> HIDE DEF c
<1>2. /\ SameList(p, r) /\ r.epoch = p.epoch /\ r.seq = p.seq /\ r.disk = c /\ Alike(p, r)
  BY <1>1 DEF PhoneFields, SameList, Alike
<1> HIDE DEF r
<1>3. CursorOK(w, q, r, p.epoch, p.seq)
  BY <1>2, SameCursorOK DEF Core
<1>4. ListOK(w, r)
  BY <1>2 DEF SameList, ListOK, Core, Held
<1>5. IsCursor(c)
  BY DEF IsCursor, c
<1> QED
  BY <1>1, <1>2, <1>3, <1>4, <1>5 DEF Core, SameList

\* What is sent of a snapshot: its last items, all but the omitted ones, and a summary.
LEMMA EntriesSent ==
    ASSUME NEW n \in Nat
    PROVE  /\ Omitted(n) \in 0 .. n /\ (n # 0 => Omitted(n) < n)
           /\ Entries(n) \subseteq 1 .. n
           /\ \A i \in 1 .. n : i <= Omitted(n) \/ i \in Entries(n)
           /\ n # 0 => n \in Entries(n)
<1> DEFINE before == Summaries \cap (1 .. Omitted(n))
<1> DEFINE last == {s \in before : \A t \in before : t <= s}
<1>1. TailLimit \in Nat /\ TailLimit # 0
  BY SyncAssumption
<1>2. Omitted(n) \in 0 .. n /\ Omitted(n) \in Nat /\ (n # 0 => Omitted(n) < n)
  BY <1>1 DEF Omitted
<1>3. Entries(n) = ((Omitted(n) + 1) .. n) \cup last
  BY DEF Entries
<1>4. last \subseteq 1 .. n
  BY <1>2
<1> HIDE DEF last
<1>5. \A i \in 1 .. n : i <= Omitted(n) \/ i \in (Omitted(n) + 1) .. n
  BY <1>2
<1>6. (Omitted(n) + 1) .. n \subseteq 1 .. n /\ (n # 0 => n \in (Omitted(n) + 1) .. n)
  BY <1>2
<1>7. Entries(n) \subseteq 1 .. n
  BY <1>3, <1>4, <1>6
<1> QED
  BY <1>2, <1>3, <1>5, <1>6, <1>7

\* A snapshot rebases the list and the cursor.
LEMMA ApplySnapshotKeeps ==
    ASSUME NEW w, WorldOK(w), NEW q, NEW p, Core(w, q, p, TRUE), NEW m,
           m.epoch \in 1 .. w.epoch, Behind(w, q, m.epoch),
           SoundSnapshot(w, m.epoch, m.seq, m.upto), Recorded(w, m.epoch, m.seq)
    PROVE  Core(w, q, ApplySnapshot(p, m), FALSE) /\ Alike(p, ApplySnapshot(p, m))
<1>1. DOMAIN p = PhoneFields
  BY DEF Core
<1>2. CASE m.upto = 0 /\ p.view # {}
  <2>1. ApplySnapshot(p, m) = Schedule(p)
    BY <1>2 DEF ApplySnapshot
  <2>2. Core(w, q, Schedule(p), TRUE) /\ Alike(p, Schedule(p))
    BY <1>1, ScheduleSame, SameCore
  <2> QED
    BY <2>1, <2>2 DEF Core
<1>3. CASE ~(m.upto = 0 /\ p.view # {})
  <2> DEFINE s == IF SameBranch(p, m) THEN p ELSE Reset(p)
  <2> DEFINE v == s.view \cup Entries(m.upto)
  <2> DEFINE l == IF m.upto = 0 THEN s.leaf ELSE m.upto
  <2> DEFINE b == IF s.hydrated THEN s.earlier ELSE Omitted(m.upto)
  <2> DEFINE k == IF s.hydrated THEN s.skipped \cup ((p.leaf + 1) .. Omitted(m.upto)) ELSE s.skipped
  <2> DEFINE r == [s EXCEPT !.view = v, !.hydrated = TRUE, !.gapped = FALSE, !.base = m.epoch,
                            !.earlier = b, !.skipped = k, !.leaf = l, !.epoch = m.epoch, !.seq = m.seq]
  <2>1. /\ DOMAIN Reset(p) = PhoneFields /\ Reset(p).view = {} /\ Reset(p).leaf = p.leaf
        /\ Reset(p).earlier = 0 /\ Reset(p).skipped = {} /\ ~Reset(p).hydrated
        /\ Alike(p, Reset(p))
    BY <1>1 DEF Reset, PhoneFields, Alike
  <2>2. /\ DOMAIN s = PhoneFields /\ s.view \subseteq p.view /\ s.leaf = p.leaf /\ Alike(p, s)
        /\ s.earlier \in {0, p.earlier} /\ s.skipped \subseteq p.skipped
        /\ s.hydrated => s = p /\ SameBranch(p, m)
    <3>1. Alike(p, p)
      BY <1>1 DEF Alike
    <3> QED
      BY <1>1, <2>1, <3>1
  <2>3. ApplySnapshot(p, m) = r
    BY <1>3, <2>2 DEF ApplySnapshot, PhoneFields
  <2> HIDE DEF s
  <2>4. w.produced \in Nat /\ m.upto \in 0 .. w.produced /\ m.upto \in Nat
    BY WorldTypes DEF SoundSnapshot
  <2>13. /\ Omitted(m.upto) \in 0 .. m.upto /\ Entries(m.upto) \subseteq 1 .. m.upto
         /\ \A i \in 1 .. m.upto : i <= Omitted(m.upto) \/ i \in Entries(m.upto)
         /\ m.upto # 0 => m.upto \in Entries(m.upto)
    BY <2>4, EntriesSent
  <2>14. /\ p.view \subseteq 1 .. w.produced /\ p.leaf \in 0 .. w.produced /\ p.leaf \in Nat
         /\ p.earlier \in 0 .. w.produced /\ p.skipped \subseteq 1 .. w.produced
         /\ (\A i \in 1 .. p.leaf : i \in Held(p)) /\ (p.leaf # 0 => p.view # {})
    BY <2>4 DEF Core, ListOK
  <2>15. b \in 0 .. w.produced /\ k \subseteq 1 .. w.produced
    <3>1. b \in 0 .. w.produced
      BY <2>2, <2>4, <2>13, <2>14
    <3>2. (p.leaf + 1) .. Omitted(m.upto) \subseteq 1 .. w.produced
      BY <2>4, <2>13, <2>14
    <3>3. s.skipped \subseteq 1 .. w.produced
      BY <2>2, <2>14
    <3> QED
      BY <3>1, <3>2, <3>3
  <2>16. \A i \in 1 .. m.upto : i \in v \cup (1 .. b) \cup k
    <3> SUFFICES ASSUME NEW i \in 1 .. m.upto, i \notin Entries(m.upto) PROVE i \in v \cup (1 .. b) \cup k
      OBVIOUS
    <3>1. i <= Omitted(m.upto) /\ i \in Nat \ {0} /\ Omitted(m.upto) \in Nat
      BY <2>4, <2>13
    <3>2. CASE ~s.hydrated
      <4>1. b = Omitted(m.upto)
        BY <3>2
      <4> QED
        BY <3>1, <4>1
    <3>3. CASE s.hydrated /\ i <= p.leaf
      <4>1. i \in Held(p)
        BY <2>14, <3>1, <3>3
      <4>2. s = p /\ b = p.earlier /\ p.skipped \subseteq k
        BY <2>2, <3>3
      <4> QED
        BY <4>1, <4>2 DEF Held
    <3>4. CASE s.hydrated /\ ~(i <= p.leaf)
      <4>1. i \in (p.leaf + 1) .. Omitted(m.upto)
        BY <2>14, <3>1, <3>4
      <4> QED
        BY <3>4, <4>1
    <3> QED
      BY <3>2, <3>3, <3>4
  <2>5. v \subseteq 1 .. w.produced
    BY <2>2, <2>4, <2>13, <2>14
  <2>6. /\ l \in 0 .. w.produced
        /\ (\A i \in 1 .. l : i \in v \cup (1 .. b) \cup k) /\ (l # 0 => v # {})
    <3>1. CASE m.upto = 0
      <4>1. l = 0
        BY <1>3, <2>2, <2>14, <3>1
      <4> QED
        BY <2>4, <4>1
    <3>2. CASE m.upto # 0
      BY <2>4, <2>13, <2>16, <3>2
    <3> QED
      BY <3>1, <3>2
  <2> HIDE DEF v, l, b, k
  <2>7. /\ DOMAIN r = PhoneFields /\ r.view = v /\ r.hydrated /\ ~r.gapped /\ r.base = m.epoch /\ r.leaf = l
        /\ r.epoch = m.epoch /\ r.seq = m.seq /\ Alike(p, r) /\ r.earlier = b /\ r.skipped = k
    BY <2>2 DEF PhoneFields, Alike
  <2> HIDE DEF r
  <2>17. Held(r) = v \cup (1 .. b) \cup k
    BY <2>7 DEF Held
  <2>8. ListOK(w, r)
    BY <2>5, <2>6, <2>7, <2>15, <2>17, WorldTypes DEF ListOK
  <2>9. m.seq \in 0 .. w.produced
    <3>1. m.epoch \in 1 .. Len(w.log) /\ m.seq \in 0 .. Len(w.log[m.epoch])
      BY DEF Recorded, Carried
    <3>2. Len(w.log[m.epoch]) \in Nat
      BY <3>1, WorldTypes
    <3>3. CASE m.seq = 0
      BY <2>4, <3>3
    <3>4. CASE m.seq # 0
      <4>1. m.seq \in 1 .. Len(w.log[m.epoch])
        BY <3>1, <3>2, <3>4
      <4>2. m.seq <= w.produced
        BY <3>1, <4>1, LogLength
      <4> QED
        BY <2>4, <3>2, <4>1, <4>2
    <3> QED
      BY <3>3, <3>4
  <2>10. Joined(w, Held(r), m.epoch, m.seq)
    BY <2>16, <2>17, JoinedMore DEF SoundSnapshot
  <2>11. CursorOK(w, q, r, m.epoch, m.seq)
    BY <2>7, <2>9, <2>10, WorldTypes DEF CursorOK
  <2>12. Core(w, q, r, FALSE)
    BY <2>7, <2>8, <2>11 DEF Core
  <2> QED
    BY <2>3, <2>7, <2>12
<1> QED
  BY <1>2, <1>3

\* The events of an answer, as the phone meets them.
LEMMA AnswerEvents ==
    ASSUME NEW w, WorldOK(w), NEW q, NEW m, m.ok, AnswerOK(w, m), Behind(w, q, m.epoch), NEW es,
           es = InOrder(SetToSeq({[epoch |-> m.epoch, seq |-> n] : n \in m.events}))
    PROVE  \E n \in Nat : /\ DOMAIN es = 1 .. n
                          /\ \A i \in 1 .. n : EventOK(w, es[i]) /\ Behind(w, q, es[i].epoch)
<1> DEFINE S == {[epoch |-> m.epoch, seq |-> n] : n \in m.events}
<1> DEFINE h == [n \in m.events |-> [epoch |-> m.epoch, seq |-> n]]
<1> DEFINE s == SetToSeq(S)
<1> DEFINE k == Cardinality(S)
<1>1. IsFiniteSet(m.events) /\ \A n \in m.events : n >= 1 /\ Recorded(w, m.epoch, n)
  BY DEF AnswerOK
<1>2. h \in Surjection(m.events, S)
  BY DEF Surjection
<1>3. IsFiniteSet(S)
  BY <1>1, <1>2, FS_Surjection
<1>4. k \in Nat /\ DOMAIN s = 1 .. k /\ \A i \in 1 .. k : s[i] \in S
  BY <1>3, SetToSeqOnly
<1>5. \A x \in S : EventOK(w, x) /\ Behind(w, q, x.epoch) /\ x.seq \in Nat
  <2> SUFFICES ASSUME NEW n \in m.events
               PROVE  LET x == [epoch |-> m.epoch, seq |-> n]
                      IN EventOK(w, x) /\ Behind(w, q, x.epoch) /\ x.seq \in Nat
    OBVIOUS
  <2>1. n >= 1 /\ Recorded(w, m.epoch, n) /\ n \in Nat
    BY <1>1, WorldTypes DEF Recorded, Carried
  <2> QED
    BY <2>1 DEF EventOK
<1> HIDE DEF S
<1>6. es = InOrder(s)
  BY DEF S
<1> HIDE DEF s, k, h
<1>9. k \in Nat /\ DOMAIN s = 1 .. k
  BY <1>4
<1>8. \A i \in 1 .. k : s[i].seq \in Nat
  BY <1>4, <1>5
<1>10. DOMAIN InOrder(s) = 1 .. k /\ \A i \in 1 .. k : \E j \in 1 .. k : InOrder(s)[i] = s[j]
  BY <1>8, <1>9, InOrderOnly, Zenon
<1>7. DOMAIN es = 1 .. k /\ \A i \in 1 .. k : \E j \in 1 .. k : es[i] = s[j]
  BY <1>6, <1>10
<1> QED
  BY <1>4, <1>5, <1>7

LEMMA AppliedKeeps ==
    ASSUME NEW w, WorldOK(w), w.log = log, NEW q, NEW p, PhoneOK(w, q, p),
           NEW m, m.ok, AnswerOK(w, m), Behind(w, q, m.epoch)
    PROVE  PhoneOK(w, q, Applied(p, m))
<1> DEFINE based == IF m.mode = "snapshot" THEN ApplySnapshot(p, m) ELSE p
<1> DEFINE es == InOrder(SetToSeq({[epoch |-> m.epoch, seq |-> n] : n \in m.events}))
<1> DEFINE r == FoldLeft(ApplyEvent, based, es)
<1> DEFINE g == r.gapNotice /\ ~m.continuous
<1> DEFINE t == [r EXCEPT !.gapNotice = g]
<1>1. Core(w, q, p, TRUE) /\ Alike(p, p)
  BY DEF PhoneOK, Core, Alike
<1>2. Core(w, q, based, FALSE) /\ Alike(p, based)
  <2>1. CASE m.mode = "snapshot"
    BY <1>1, <2>1, ApplySnapshotKeeps DEF AnswerOK
  <2>2. CASE m.mode # "snapshot"
    BY <1>1, <2>2 DEF Core
  <2> QED
    BY <2>1, <2>2
<1>3. PICK n \in Nat : /\ DOMAIN es = 1 .. n
                       /\ \A i \in 1 .. n : EventOK(w, es[i]) /\ Behind(w, q, es[i].epoch)
  BY AnswerEvents
<1> HIDE DEF based, es
<1>4. Core(w, q, r, FALSE) /\ Alike(based, r)
  BY <1>2, <1>3, FoldKeeps
<1>5. Applied(p, m) = Saved(t)
  <2>1. DOMAIN r = PhoneFields
    BY <1>4 DEF Core
  <2> QED
    BY <2>1 DEF Applied, PhoneFields, based, es
<1> HIDE DEF r, g
<1>6. SameCursor(r, t) /\ Alike(r, t)
  BY <1>4 DEF Core, PhoneFields, SameCursor, SameList, Alike
<1> HIDE DEF t
<1>7. Core(w, q, t, FALSE)
  BY <1>4, <1>6, SameCore
<1>8. Core(w, q, Saved(t), TRUE) /\ Alike(t, Saved(t))
  BY <1>7, SavedKeeps
<1> QED
  BY <1>2, <1>4, <1>5, <1>6, <1>8 DEF Alike, PhoneOK, Buffers

-----------------------------------------------------------------------------

\* A message from the hub gives the phone the present epoch.
LEMMA EpochTaken ==
    ASSUME NEW w, WorldOK(w), NEW q, NEW p, PhoneOK(w, q, p), NEW e \in 1 .. w.epoch, p.epoch <= e, Behind(w, q, e)
    PROVE  PhoneOK(w, q, [p EXCEPT !.epoch = e])
<1> DEFINE r == [p EXCEPT !.epoch = e]
<1>1. DOMAIN p = PhoneFields
  BY DEF PhoneOK, Core
<1>2. /\ SameList(p, r) /\ r.epoch = e /\ r.seq = p.seq /\ r.disk = p.disk /\ r.buffer = p.buffer
      /\ r.stage = p.stage
  BY <1>1 DEF PhoneFields, SameList
<1> HIDE DEF r
<1>3. CursorOK(w, q, p, p.epoch, p.seq) /\ CursorOK(w, q, p, p.disk.epoch, p.disk.seq) /\ ListOK(w, p)
  BY DEF PhoneOK, Core
<1>4. p.epoch \in Nat /\ e \in Nat
  BY <1>3, WorldTypes DEF CursorOK, Behind
<1>5. p.hydrated => p.base \in Nat /\ p.base <= e /\ (e = p.base => p.epoch = p.base)
  BY <1>3, <1>4 DEF ListOK, CursorOK
<1>6. CursorOK(w, q, p, e, p.seq)
  BY <1>3, <1>5 DEF CursorOK
<1>7. CursorOK(w, q, r, e, p.seq) /\ CursorOK(w, q, r, r.disk.epoch, r.disk.seq)
  BY <1>2, <1>3, <1>6, SameCursorOK
<1>8. ListOK(w, r)
  BY <1>2, <1>3 DEF SameList, ListOK, Held
<1>9. PhoneOK(w, q, r)
  BY <1>2, <1>7, <1>8 DEF SameList, PhoneOK, Core, Buffers
<1> QED
  BY <1>9 DEF r

LEMMA OnSelectedKeeps ==
    ASSUME NEW w, WorldOK(w), NEW q, NEW p, PhoneOK(w, q, p), NEW m,
           m.epoch \in 1 .. w.epoch, p.epoch <= m.epoch, Behind(w, q, m.epoch)
    PROVE  PhoneOK(w, q, OnSelected(p, m))
<1>1. PhoneOK(w, q, Idle(p)) /\ PhoneOK(w, q, [p EXCEPT !.epoch = m.epoch])
  BY IdleKeeps, EpochTaken
<1>2. PhoneOK(w, q, Syncing([p EXCEPT !.epoch = m.epoch], TRUE, p.gen))
  BY <1>1, SyncingKeeps
<1> QED
  BY <1>1, <1>2 DEF OnSelected

LEMMA OnSyncedKeeps ==
    ASSUME NEW w, WorldOK(w), w.log = log, NEW q, NEW p, PhoneOK(w, q, p), NEW m,
           AnswerOK(w, m), m.ok => Behind(w, q, m.epoch)
    PROVE  PhoneOK(w, q, OnSynced(p, m))
<1> DEFINE a == [p EXCEPT !.resyncGen = 0]
<1> DEFINE b == [p EXCEPT !.pending = TRUE]
<1>1. DOMAIN p = PhoneFields
  BY DEF PhoneOK, Core
<1>2. SameCursor(p, a) /\ a.buffer = p.buffer /\ a.stage = p.stage
  BY <1>1 DEF PhoneFields, SameCursor, SameList
<1>3. SameCursor(p, b) /\ b.buffer = p.buffer /\ b.stage = p.stage
  BY <1>1 DEF PhoneFields, SameCursor, SameList
<1>4. \/ OnSynced(p, m) \in {p, ReleasePending(a), Finished(b)}
      \/ m.ok /\ OnSynced(p, m) \in {Syncing(Applied(p, m), FALSE, p.gen), Finished(Applied(p, m))}
  BY DEF OnSynced
<1> HIDE DEF a, b
<1>5. PhoneOK(w, q, ReleasePending(a))
  BY <1>2, ControlKeeps, ReleaseKeeps DEF PhoneOK
<1>6. PhoneOK(w, q, Finished(b))
  BY <1>3, ControlKeeps, FinishedKeeps DEF PhoneOK
<1>7. ASSUME m.ok
      PROVE  PhoneOK(w, q, Syncing(Applied(p, m), FALSE, p.gen)) /\ PhoneOK(w, q, Finished(Applied(p, m)))
  <2>1. PhoneOK(w, q, Applied(p, m))
    BY <1>7, AppliedKeeps
  <2> QED
    BY <2>1, SyncingKeeps, FinishedKeeps
<1> QED
  BY <1>4, <1>5, <1>6, <1>7

LEMMA OnEventKeeps ==
    ASSUME NEW w, WorldOK(w), w.log = log, NEW q, NEW p, PhoneOK(w, q, p), NEW m,
           EventOK(w, m), Behind(w, q, m.epoch)
    PROVE  PhoneOK(w, q, OnEvent(p, m))
<1> DEFINE e == [epoch |-> m.epoch, seq |-> m.seq]
<1>1. EventOK(w, e) /\ Behind(w, q, e.epoch)
  BY DEF EventOK
<1>2. OnEvent(p, m) \in {Buffered(p, e), ApplyEvent(p, e)}
  BY DEF OnEvent
<1> HIDE DEF e
<1>3. PhoneOK(w, q, Buffered(p, e))
  BY <1>1, BufferedKeeps
<1>4. Core(w, q, ApplyEvent(p, e), TRUE) /\ Alike(p, ApplyEvent(p, e))
  BY <1>1, ApplyEventKeeps DEF PhoneOK
<1>5. PhoneOK(w, q, ApplyEvent(p, e))
  BY <1>4 DEF PhoneOK, Alike, Buffers
<1> QED
  BY <1>2, <1>3, <1>5

LEMMA OnAnnounceKeeps ==
    ASSUME NEW w, NEW q, NEW p, PhoneOK(w, q, p), NEW m
    PROVE  PhoneOK(w, q, OnAnnounce(p, m))
<1>1. OnAnnounce(p, m) \in {p, Schedule(p)}
  BY DEF OnAnnounce
<1> QED
  BY <1>1, ScheduleKeeps

LEMMA OnSourcesKeeps ==
    ASSUME NEW w, WorldOK(w), NEW q, NEW p, PhoneOK(w, q, p), NEW m,
           m.epoch \in 1 .. w.epoch, p.epoch <= m.epoch, Behind(w, q, m.epoch)
    PROVE  PhoneOK(w, q, OnSources(p, m))
<1> DEFINE s == [p EXCEPT !.listed = m.epoch, !.online = m.online]
<1> DEFINE a == [Reset(s) EXCEPT !.leaf = 0, !.buffer = <<>>, !.reconcile = FALSE, !.epoch = m.epoch, !.seq = 0]
<1> DEFINE b == [s EXCEPT !.epoch = m.epoch]
<1> DEFINE c == [s EXCEPT !.epoch = m.epoch, !.reconcile = TRUE]
<1>1. DOMAIN p = PhoneFields
  BY DEF PhoneOK, Core
<1>2. SameCursor(p, s) /\ s.buffer = p.buffer /\ s.stage = p.stage
  BY <1>1 DEF PhoneFields, SameCursor, SameList
<1>3. OnSources(p, m) \in {Syncing(a, TRUE, FreshGen), Syncing(c, TRUE, FreshGen), b}
  BY DEF OnSources
<1> HIDE DEF s
<1>4. PhoneOK(w, q, s) /\ DOMAIN s = PhoneFields /\ s.epoch = p.epoch
  BY <1>2, ControlKeeps DEF PhoneOK, SameCursor, SameList
<1>5. PhoneOK(w, q, b)
  BY <1>4, EpochTaken
<1>6. PhoneOK(w, q, c)
  <2>1. SameCursor(b, c) /\ c.buffer = b.buffer /\ c.stage = b.stage
    BY <1>4 DEF PhoneFields, SameCursor, SameList
  <2> HIDE DEF b, c
  <2> QED
    BY <1>5, <2>1, ControlKeeps DEF PhoneOK
<1>7. PhoneOK(w, q, a)
  <2>1. DOMAIN Reset(s) = PhoneFields /\ Reset(s).view = {} /\ ~Reset(s).hydrated /\ Reset(s).disk = s.disk
        /\ Reset(s).stage = s.stage /\ Reset(s).earlier = 0 /\ Reset(s).skipped = {}
    BY <1>4 DEF Reset, PhoneFields
  <2>2. /\ DOMAIN a = PhoneFields /\ a.view = {} /\ ~a.hydrated /\ a.leaf = 0 /\ a.buffer = <<>>
        /\ a.epoch = m.epoch /\ a.seq = 0 /\ a.disk = s.disk /\ a.stage = s.stage
        /\ a.earlier = 0 /\ a.skipped = {}
    BY <2>1 DEF PhoneFields
  <2> HIDE DEF a
  <2>3. w.produced \in Nat
    BY WorldTypes
  <2>4. CursorOK(w, q, a, a.epoch, a.seq)
    BY <2>2, <2>3 DEF CursorOK
  <2>5. CursorOK(w, q, a, a.disk.epoch, a.disk.seq)
    BY <1>4, <2>2 DEF CursorOK, PhoneOK, Core
  <2>6. ListOK(w, a)
    BY <2>2, <2>3 DEF ListOK
  <2>7. Buffers(w, q, a)
    BY <2>2, EmptyChannel, SyncAssumption DEF Buffers, BufferOK
  <2> QED
    BY <1>4, <2>2, <2>4, <2>5, <2>6, <2>7 DEF PhoneOK, Core
<1> HIDE DEF a, b, c
<1> QED
  BY <1>3, <1>5, <1>6, <1>7, SyncingKeeps

-----------------------------------------------------------------------------
(* The hub's record of the source.                                         *)

SoundRecord(r) == IsRecord(r) /\ Contiguous(r)

LEMMA RecordFields ==
    ASSUME NEW r, IsRecord(r)
    PROVE  DOMAIN r = {"epoch", "snapshot", "ring", "lastSeq", "connected"}
BY DEF IsRecord

LEMMA FreshRecord ==
    ASSUME NEW e \in Epochs, NEW c \in BOOLEAN
    PROVE  SoundRecord(NewRecord(e, c))
<1>1. IsRing(EmptyRing) /\ DOMAIN EmptyRing = {}
  BY DEF EmptyRing, IsRing
<1>2. IsRecord(NewRecord(e, c))
  BY <1>1 DEF NewRecord, IsRecord, Snapshots
<1>3. 0 \in 0 .. 0 /\ (0 + 1) .. 0 = {}
  OBVIOUS
<1> QED
  BY <1>1, <1>2, <1>3 DEF NewRecord, SoundRecord, Contiguous

LEMMA FlaggedRecord ==
    ASSUME NEW r, SoundRecord(r), NEW c \in BOOLEAN
    PROVE  /\ SoundRecord([r EXCEPT !.connected = c])
           /\ [r EXCEPT !.connected = c].epoch = r.epoch /\ [r EXCEPT !.connected = c].lastSeq = r.lastSeq
           /\ [r EXCEPT !.connected = c].snapshot = r.snapshot
<1> DEFINE p == [r EXCEPT !.connected = c]
<1>1. DOMAIN r = {"epoch", "snapshot", "ring", "lastSeq", "connected"}
  BY RecordFields DEF SoundRecord
<1>2. /\ p.epoch = r.epoch /\ p.snapshot = r.snapshot /\ p.ring = r.ring
      /\ p.lastSeq = r.lastSeq /\ p.connected = c
  BY <1>1
<1>3. p = [epoch |-> p.epoch, snapshot |-> p.snapshot, ring |-> p.ring,
           lastSeq |-> p.lastSeq, connected |-> p.connected]
  BY <1>1, <1>2
<1> HIDE DEF p
<1>4. SoundRecord(p)
  BY <1>2, <1>3 DEF SoundRecord, Contiguous, IsRecord
<1> QED
  BY <1>2, <1>4 DEF p

\* A ring that is a run of numbers still is one, to the same end, when it is trimmed.
LEMMA TrimmedRun ==
    ASSUME NEW ring, NEW low \in Nat, NEW last \in Nat, low < last,
           IsRing(ring), DOMAIN ring = (low + 1) .. last
    PROVE  /\ \E new \in low .. (last - 1) : DOMAIN Trim(ring) = (new + 1) .. last
           /\ Trim(ring) = [n \in DOMAIN Trim(ring) |-> ring[n]]
           /\ DOMAIN Trim(ring) \subseteq DOMAIN ring
<1> DEFINE kept == {n \in DOMAIN ring :
                       \E k \in DOMAIN ring : k <= n /\ Fits(ring, From(ring, k))}
<1>1. Trim(ring) = [n \in kept |-> ring[n]] /\ DOMAIN Trim(ring) = kept
  BY DEF Trim, Restrict
<1>2. last \in kept
  <2>1. From(ring, last) = {last}
    BY DEF From
  <2>4. Cardinality({last}) = 1
    BY FS_Singleton
  <2>2. Cardinality({last}) = 1 /\ 1 <= ReplayCapacity
    BY <2>4, RingAssumption
  <2>3. Fits(ring, From(ring, last))
    BY <2>1, <2>2 DEF Fits
  <2> QED
    BY <2>3
<1>3. \A n \in kept : \A m \in DOMAIN ring : n <= m => m \in kept
  OBVIOUS
<1>4. kept \subseteq (low + 1) .. last
  OBVIOUS
<1> HIDE DEF kept
<1>5. PICK m \in kept : \A n \in kept : m <= n
  <2>1. kept \subseteq Nat
    BY <1>4
  <2> QED
    BY <1>2, <2>1, LeastOf
<1>6. m \in (low + 1) .. last
  BY <1>4, <1>5
<1>7. kept \subseteq m .. last /\ m .. last \subseteq kept
  BY <1>3, <1>4, <1>5, <1>6
<1>8. m - 1 \in low .. (last - 1) /\ (m - 1) + 1 = m
  BY <1>6
<1>9. kept = ((m - 1) + 1) .. last
  <2>1. kept = m .. last
    BY <1>7, Zenon
  <2> QED
    BY <1>8, <2>1
<1> QED
  BY <1>1, <1>4, <1>8, <1>9

LEMMA NextEventRecorded ==
    ASSUME NEW r, SoundRecord(r), NEW n, n = r.lastSeq + 1
    PROVE  /\ SoundRecord(RecordDesktopEvent(r, r.epoch, n, 0))
           /\ RecordDesktopEvent(r, r.epoch, n, 0).epoch = r.epoch
           /\ RecordDesktopEvent(r, r.epoch, n, 0).lastSeq = n
           /\ RecordDesktopEvent(r, r.epoch, n, 0).snapshot = r.snapshot
<1> DEFINE x == [epoch |-> r.epoch, size |-> 0]
<1> DEFINE added == AddEvent(r.ring, n, x)
<1> DEFINE p == RecordDesktopEvent(r, r.epoch, n, 0)
<1>1. DOMAIN r = {"epoch", "snapshot", "ring", "lastSeq", "connected"} /\ IsRecord(r) /\ Contiguous(r)
  BY RecordFields DEF SoundRecord
<1>2. r.lastSeq \in Nat /\ r.epoch \in Epochs /\ n \in Nat /\ IsRing(r.ring)
  BY <1>1 DEF IsRecord
<1>3. PICK low \in 0 .. r.lastSeq : DOMAIN r.ring = (low + 1) .. r.lastSeq
  BY <1>1 DEF Contiguous
<1>4. p = [r EXCEPT !.lastSeq = n, !.ring = Trim(added)]
  BY DEF RecordDesktopEvent, Push
<1>5. x \in Events /\ x.epoch = r.epoch
  BY <1>2 DEF Events
<1> HIDE DEF x
<1>6. /\ DOMAIN added = (low + 1) .. n
      /\ \A k \in DOMAIN added : added[k] \in Events /\ added[k].epoch = r.epoch
      /\ added = [k \in DOMAIN added |-> added[k]]
  <2>1. ((low + 1) .. r.lastSeq) \cup {n} = (low + 1) .. n
    BY <1>2
  <2>2. \A k \in DOMAIN r.ring : r.ring[k] \in Events /\ r.ring[k].epoch = r.epoch
    BY <1>1, <1>2 DEF IsRing, Contiguous
  <2> QED
    BY <1>3, <1>5, <2>1, <2>2 DEF AddEvent
<1> HIDE DEF added
<1>7. low \in Nat /\ low < n /\ IsRing(added)
  BY <1>2, <1>6 DEF IsRing
<1>8. /\ \E new \in low .. (n - 1) : DOMAIN Trim(added) = (new + 1) .. n
      /\ Trim(added) = [k \in DOMAIN Trim(added) |-> added[k]]
      /\ DOMAIN Trim(added) \subseteq DOMAIN added
  BY <1>2, <1>6, <1>7, TrimmedRun
<1> DEFINE ring == Trim(added)
<1>9. p = [epoch |-> r.epoch, snapshot |-> r.snapshot, ring |-> ring, lastSeq |-> n, connected |-> r.connected]
  BY <1>1, <1>4
<1> HIDE DEF p, ring
<1>10. IsRing(ring) /\ \A k \in DOMAIN ring : ring[k].epoch = r.epoch
  <2>1. DOMAIN ring \subseteq DOMAIN added /\ ring = [k \in DOMAIN ring |-> added[k]]
    BY <1>8 DEF ring
  <2>2. \A k \in DOMAIN ring : ring[k] = added[k]
    BY <2>1
  <2> QED
    BY <1>6, <1>7, <2>1, <2>2 DEF IsRing
<1>11. IsRecord(p)
  BY <1>1, <1>2, <1>9, <1>10 DEF IsRecord
<1>12. Contiguous(p)
  <2>1. \E new \in 0 .. p.lastSeq : DOMAIN p.ring = (new + 1) .. p.lastSeq
    BY <1>2, <1>7, <1>8, <1>9 DEF ring
  <2>2. r.snapshot # NoSnapshot => r.snapshot.epoch = r.epoch /\ r.snapshot.baseSeq <= n
    <3>1. r.snapshot # NoSnapshot => r.snapshot.baseSeq \in Nat
      BY <1>1 DEF IsRecord, Snapshots
    <3> QED
      BY <1>1, <1>2, <3>1 DEF Contiguous
  <2> QED
    BY <1>9, <1>10, <2>1, <2>2 DEF Contiguous
<1> QED
  BY <1>9, <1>11, <1>12 DEF SoundRecord, p

LEMMA SnapshotStored ==
    ASSUME NEW r, SoundRecord(r), NEW e \in Epochs, NEW b \in Nat
    PROVE  /\ SoundRecord(SetSnapshot(r, e, b)) /\ SetSnapshot(r, e, b).epoch = e
           /\ SetSnapshot(r, e, b).snapshot = [epoch |-> e, baseSeq |-> b]
           /\ SetSnapshot(r, e, b).lastSeq = IF r.epoch = e /\ r.lastSeq >= b THEN r.lastSeq ELSE b
<1> DEFINE s == SwitchEpoch(r, e)
<1> DEFINE last == IF s.lastSeq >= b THEN s.lastSeq ELSE b
<1> DEFINE kept == {n \in DOMAIN s.ring : s.ring[n].epoch = e /\ n > b}
<1> DEFINE snap == [epoch |-> e, baseSeq |-> b]
<1> DEFINE p == SetSnapshot(r, e, b)
<1>1. SoundRecord(s) /\ s.epoch = e /\ s.lastSeq = IF r.epoch = e THEN r.lastSeq ELSE 0
  <2>1. CASE e = r.epoch
    BY <2>1 DEF SwitchEpoch
  <2>2. CASE e # r.epoch
    <3>1. r.connected \in BOOLEAN
      BY DEF SoundRecord, IsRecord
    <3>2. s = NewRecord(e, r.connected)
      BY <2>2 DEF SwitchEpoch
    <3> QED
      BY <2>2, <3>1, <3>2, FreshRecord DEF NewRecord
  <2> QED
    BY <2>1, <2>2
<1>2. p = [s EXCEPT !.snapshot = snap, !.lastSeq = last, !.ring = [n \in kept |-> s.ring[n]]]
  BY DEF SetSnapshot, Restrict
<1> HIDE DEF s
<1>3. DOMAIN s = {"epoch", "snapshot", "ring", "lastSeq", "connected"} /\ IsRecord(s) /\ Contiguous(s)
  BY <1>1, RecordFields DEF SoundRecord
<1>4. s.lastSeq \in Nat /\ IsRing(s.ring) /\ s.connected \in BOOLEAN
  BY <1>3 DEF IsRecord
<1>5. PICK low \in 0 .. s.lastSeq : DOMAIN s.ring = (low + 1) .. s.lastSeq
  BY <1>3 DEF Contiguous
<1>6. \A n \in DOMAIN s.ring : s.ring[n].epoch = e /\ s.ring[n] \in Events /\ n \in Nat
  BY <1>1, <1>3, <1>4 DEF Contiguous, IsRing
<1> DEFINE ring == [n \in kept |-> s.ring[n]]
<1>7. /\ DOMAIN ring = kept /\ kept \subseteq DOMAIN s.ring /\ \A n \in kept : ring[n] = s.ring[n]
      /\ ring = [n \in DOMAIN ring |-> ring[n]]
  OBVIOUS
<1>8. /\ last \in Nat /\ last >= s.lastSeq /\ last >= b
      /\ last = IF r.epoch = e /\ r.lastSeq >= b THEN r.lastSeq ELSE b
  <2>1. r.lastSeq \in Nat
    BY DEF SoundRecord, IsRecord
  <2> QED
    BY <1>1, <1>4, <2>1
<1>9. \E new \in 0 .. last : kept = (new + 1) .. last
  <2> DEFINE new == IF b < low THEN low ELSE IF b < s.lastSeq THEN b ELSE last
  <2>1. new \in 0 .. last
    BY <1>4, <1>5, <1>8
  <2>2. \A n \in kept : n \in (new + 1) .. last
    BY <1>4, <1>5, <1>8
  <2>3. \A n \in (new + 1) .. last : n \in kept
    BY <1>4, <1>5, <1>6, <1>8
  <2> HIDE DEF kept, last, new
  <2>4. kept = (new + 1) .. last
    BY <2>2, <2>3, Zenon
  <2> QED
    BY <2>1, <2>4
<1>10. p = [epoch |-> e, snapshot |-> snap, ring |-> ring, lastSeq |-> last, connected |-> s.connected]
  <2> HIDE DEF snap, kept, last
  <2> QED
    BY <1>1, <1>2, <1>3
<1>11. snap \in Snapshots /\ snap.epoch = e /\ snap.baseSeq = b
  BY DEF Snapshots
<1> HIDE DEF p, last, kept, snap, ring
<1>12. IsRing(ring) /\ \A n \in DOMAIN ring : ring[n].epoch = e
  BY <1>4, <1>6, <1>7 DEF IsRing
<1>13. IsRecord(p)
  BY <1>4, <1>8, <1>10, <1>11, <1>12 DEF IsRecord
<1>14. Contiguous(p)
  BY <1>7, <1>8, <1>9, <1>10, <1>11, <1>12 DEF Contiguous
<1> QED
  BY <1>8, <1>10, <1>13, <1>14 DEF SoundRecord, p, snap

-----------------------------------------------------------------------------
(* What the hub has recorded, and what it answers from that.               *)

\* The hub's record, with the items of its snapshot.
RecordOK(w, r, upto) ==
    /\ SoundRecord(r)
    /\ w.epoch = r.epoch /\ w.last = r.lastSeq
    /\ r.snapshot # NoSnapshot
    /\ SoundSnapshot(w, r.epoch, r.snapshot.baseSeq, upto)

LEMMA RecordMeans ==
    ASSUME NEW w, WorldOK(w), NEW r, NEW upto, RecordOK(w, r, upto)
    PROVE  /\ r.epoch \in 1 .. w.epoch /\ r.lastSeq \in Nat
           /\ \A n \in 0 .. r.lastSeq : Recorded(w, r.epoch, n)
           /\ r.snapshot.baseSeq \in 0 .. r.lastSeq
           /\ DOMAIN r.ring \subseteq 1 .. r.lastSeq
<1>1. IsRecord(r) /\ Contiguous(r) /\ w.epoch = r.epoch /\ w.last = r.lastSeq /\ r.snapshot # NoSnapshot
  BY DEF RecordOK, SoundRecord
<1>2. r.epoch \in Epochs /\ r.lastSeq \in Nat /\ r.snapshot \in Snapshots
  BY <1>1 DEF IsRecord
<1>3. r.snapshot.baseSeq \in 0 .. r.lastSeq
  BY <1>1, <1>2 DEF Snapshots, Contiguous
<1>4. DOMAIN r.ring \subseteq 1 .. r.lastSeq
  BY <1>1, <1>2 DEF Contiguous
<1>5. Carried(w, r.epoch, r.lastSeq)
  <2>1. r.epoch \in 1 .. Len(w.log) /\ w.last <= Len(w.log[w.epoch]) /\ Len(w.log) \in Nat
    BY <1>1, <1>2, WorldTypes DEF WorldOK, Epochs
  <2>2. Len(w.log[r.epoch]) \in Nat
    BY <2>1, WorldTypes
  <2> QED
    BY <1>1, <1>2, <2>1, <2>2 DEF Carried
<1>6. \A n \in 0 .. r.lastSeq : Recorded(w, r.epoch, n)
  <2>1. Len(w.log[r.epoch]) \in Nat /\ r.epoch \in 1 .. Len(w.log) /\ r.lastSeq \in 0 .. Len(w.log[r.epoch])
    BY <1>5, WorldTypes DEF Carried
  <2>2. w.epoch \in Nat
    BY WorldTypes
  <2> QED
    BY <1>1, <1>2, <2>1, <2>2 DEF Recorded, Carried
<1> QED
  BY <1>1, <1>2, <1>3, <1>4, <1>6 DEF Epochs

LEMMA AnswerSound ==
    ASSUME NEW w, WorldOK(w), NEW r, NEW upto, RecordOK(w, r, upto), NEW q
    PROVE  /\ AnswerOK(w, SyncAnswer(q, r, upto))
           /\ SyncAnswer(q, r, upto).kind = "synced" /\ SyncAnswer(q, r, upto).ok
<1> DEFINE a == SyncAnswer(q, r, upto)
<1> DEFINE sync == Sync(r, q.epoch = r.epoch, q.seq)
<1>1. /\ r.epoch \in 1 .. w.epoch /\ r.lastSeq \in Nat
      /\ \A n \in 0 .. r.lastSeq : Recorded(w, r.epoch, n)
      /\ r.snapshot.baseSeq \in 0 .. r.lastSeq
      /\ DOMAIN r.ring \subseteq 1 .. r.lastSeq
  BY RecordMeans
<1>2. sync.events \subseteq 1 .. r.lastSeq /\ (sync.mode = "snapshot" => sync.baseSeq = r.snapshot.baseSeq)
  BY <1>1 DEF Sync, EventsAfter
<1>3. /\ a.kind = "synced" /\ a.ok /\ a.epoch = r.epoch /\ a.mode = sync.mode /\ a.seq = sync.baseSeq
      /\ a.upto = upto /\ a.events = Page(sync.events)
  BY DEF SyncAnswer
<1> HIDE DEF a, sync
<1>4. a.events \subseteq 1 .. r.lastSeq
  BY <1>2, <1>3 DEF Page
<1>5. IsFiniteSet(a.events)
  <2>1. IsFiniteSet(1 .. r.lastSeq)
    BY <1>1, FS_Interval
  <2> QED
    BY <1>4, <2>1, FS_Subset
<1>6. \A n \in a.events : n >= 1 /\ Recorded(w, r.epoch, n)
  BY <1>1, <1>4
<1>7. a.mode = "snapshot" => SoundSnapshot(w, a.epoch, a.seq, a.upto) /\ Recorded(w, a.epoch, a.seq)
  BY <1>1, <1>2, <1>3 DEF RecordOK
<1>8. AnswerOK(w, a)
  BY <1>1, <1>3, <1>5, <1>6, <1>7 DEF AnswerOK
<1> QED
  BY <1>3, <1>8 DEF a

-----------------------------------------------------------------------------
(* More is sent to the phone, and the relay and the hub go on.             *)

LEMMA Listed ==
    ASSUME NEW S, NEW n \in Nat, NEW f \in [1 .. n -> S]
    PROVE  f \in Seq(S) /\ Len(f) = n
<1>1. f \in UNION {[1 .. m -> S] : m \in Nat}
  OBVIOUS
<1>2. f \in Seq(S)
  BY <1>1, SeqDef
<1>3. DOMAIN f = 1 .. n /\ DOMAIN f = 1 .. Len(f) /\ Len(f) \in Nat
  BY <1>2
<1> QED
  BY <1>2, <1>3

LEMMA JoinedChannel ==
    ASSUME NEW s, IsChannel(s), NEW t, IsChannel(t)
    PROVE  /\ IsChannel(s \o t) /\ Len(s) \in Nat /\ Len(t) \in Nat /\ Len(s \o t) = Len(s) + Len(t)
           /\ \A i \in 1 .. Len(s) : (s \o t)[i] = s[i]
           /\ \A i \in 1 .. Len(s \o t) : i > Len(s) => i - Len(s) \in 1 .. Len(t) /\ (s \o t)[i] = t[i - Len(s)]
<1>1. PICK S : s \in Seq(S)
  BY DEF IsChannel
<1>2. PICK T : t \in Seq(T)
  BY DEF IsChannel
<1>3. s \in Seq(S \cup T) /\ t \in Seq(S \cup T)
  BY <1>1, <1>2
<1>4. s \o t \in Seq(S \cup T) /\ Len(s) \in Nat /\ Len(t) \in Nat /\ Len(s \o t) = Len(s) + Len(t)
  BY <1>3
<1>5. \A i \in 1 .. Len(s \o t) : (s \o t)[i] = IF i <= Len(s) THEN s[i] ELSE t[i - Len(s)]
  BY <1>3, <1>4
<1> QED
  BY <1>4, <1>5 DEF IsChannel

LEMMA AnswerStays ==
    ASSUME NEW w, NEW w2, Grows(w, w2), NEW m, AnswerOK(w, m)
    PROVE  AnswerOK(w2, m)
<1>1. w.epoch \in Nat /\ w2.epoch \in Nat /\ w.epoch <= w2.epoch
  BY WorldTypes DEF Grows
<1>2. m.ok => m.epoch \in 1 .. w2.epoch
  BY <1>1 DEF AnswerOK
<1> QED
  BY <1>2, RecordedStays, SnapshotStays DEF AnswerOK

LEMMA MsgStays ==
    ASSUME NEW w, NEW w2, Grows(w, w2), NEW m, MsgOK(w, m)
    PROVE  MsgOK(w2, m)
<1>1. w.epoch \in Nat /\ w2.epoch \in Nat /\ w.epoch <= w2.epoch
  BY WorldTypes DEF Grows
<1>2. m.kind \in {"sources", "selected"} => m.epoch \in 1 .. w2.epoch
  BY <1>1 DEF MsgOK
<1>3. m.kind = "synced" => AnswerOK(w2, m)
  BY AnswerStays DEF MsgOK
<1>4. m.kind = "event" => EventOK(w2, m)
  BY RecordedStays DEF MsgOK, EventOK
<1> QED
  BY <1>2, <1>3, <1>4 DEF MsgOK

LEMMA QueueStays ==
    ASSUME NEW w, NEW w2, Grows(w, w2), NEW q, QueueOK(w, q)
    PROVE  QueueOK(w2, q)
BY MsgStays DEF QueueOK

LEMMA BehindStays ==
    ASSUME NEW w, NEW w2, Grows(w, w2), NEW q, NEW e, Behind(w, q, e)
    PROVE  Behind(w2, q, e)
<1>1. w.epoch \in Nat /\ w2.epoch \in Nat /\ w.epoch <= w2.epoch
  BY WorldTypes DEF Grows
<1> QED
  BY <1>1 DEF Behind

LEMMA CursorStays ==
    ASSUME NEW w, NEW w2, Grows(w, w2), NEW q, NEW p, NEW e, NEW n, CursorOK(w, q, p, e, n)
    PROVE  CursorOK(w2, q, p, e, n)
<1>1. Behind(w2, q, e)
  BY BehindStays DEF CursorOK
<1>2. n \in 0 .. w2.produced
  <2>1. w.produced \in Nat /\ w2.produced \in Nat /\ w.produced <= w2.produced
    BY WorldTypes DEF Grows
  <2> QED
    BY <2>1 DEF CursorOK
<1>3. p.hydrated /\ e = p.base => Recorded(w2, e, n) /\ (p.gapped \/ Joined(w2, Held(p), e, n))
  <2>1. SUFFICES ASSUME p.hydrated, e = p.base
                 PROVE  Recorded(w2, e, n) /\ (p.gapped \/ Joined(w2, Held(p), e, n))
    OBVIOUS
  <2>2. Recorded(w, e, n) /\ (p.gapped \/ Joined(w, Held(p), e, n))
    BY <2>1 DEF CursorOK
  <2>3. e \in 1 .. Len(w.log)
    BY <2>2 DEF Recorded, Carried
  <2> QED
    BY <2>2, <2>3, RecordedStays, JoinedStays
<1> QED
  BY <1>1, <1>2, <1>3 DEF CursorOK

LEMMA PhoneStays ==
    ASSUME NEW w, NEW w2, Grows(w, w2), NEW q, NEW p, PhoneOK(w, q, p)
    PROVE  PhoneOK(w2, q, p)
<1>1. CursorOK(w2, q, p, p.epoch, p.seq) /\ CursorOK(w2, q, p, p.disk.epoch, p.disk.seq)
  BY CursorStays DEF PhoneOK, Core
<1>2. BufferOK(w2, q, p.buffer)
  <2>1. BufferOK(w, q, p.buffer)
    BY DEF PhoneOK, Buffers
  <2> QED
    BY <2>1, BehindStays, RecordedStays DEF BufferOK, EventOK
<1>3. ListOK(w2, p)
  <2>1. w.produced \in Nat /\ w2.produced \in Nat /\ w.produced <= w2.produced
    BY WorldTypes DEF Grows
  <2> QED
    BY <2>1 DEF PhoneOK, Core, ListOK
<1> QED
  BY <1>1, <1>2, <1>3 DEF PhoneOK, Core, Buffers

\* What the hub may put on the queue: what it says of the source's epoch is of now.
Sendable(w, xs) ==
    /\ IsChannel(xs)
    /\ \A i \in 1 .. Len(xs) : MsgOK(w, xs[i]) /\ (Dates(xs[i]) => xs[i].epoch = w.epoch)

LEMMA NothingSent ==
    ASSUME NEW w
    PROVE  Sendable(w, <<>>)
BY EmptyChannel DEF Sendable

LEMMA OneSent ==
    ASSUME NEW w, NEW m, MsgOK(w, m), Dates(m) => m.epoch = w.epoch
    PROVE  Sendable(w, <<m>>)
<1>1. <<m>> \in Seq({m}) /\ Len(<<m>>) = 1 /\ <<m>>[1] = m
  OBVIOUS
<1>2. IsChannel(<<m>>)
  BY <1>1 DEF IsChannel
<1>3. \A i \in 1 .. Len(<<m>>) : <<m>>[i] = m
  BY <1>1
<1> QED
  BY <1>2, <1>3 DEF Sendable

LEMMA BehindMore ==
    ASSUME NEW w, WorldOK(w), NEW q, QueueOK(w, q), NEW xs, Sendable(w, xs), NEW e, Behind(w, q, e)
    PROVE  Behind(w, q \o xs, e)
<1>1. /\ Len(q) \in Nat /\ Len(xs) \in Nat /\ Len(q \o xs) = Len(q) + Len(xs)
      /\ \A i \in 1 .. Len(q) : (q \o xs)[i] = q[i]
      /\ \A i \in 1 .. Len(q \o xs) : i > Len(q) => i - Len(q) \in 1 .. Len(xs) /\ (q \o xs)[i] = xs[i - Len(q)]
  BY JoinedChannel DEF Sendable, QueueOK
<1>2. w.epoch \in Nat /\ e \in 0 .. w.epoch
  BY WorldTypes DEF Behind
<1>3. ASSUME NEW i \in 1 .. Len(q \o xs), Dates((q \o xs)[i])
      PROVE  e <= (q \o xs)[i].epoch
  <2>1. CASE i \in 1 .. Len(q)
    BY <1>1, <1>3, <2>1 DEF Behind
  <2>2. CASE i > Len(q)
    BY <1>1, <1>2, <1>3, <2>2 DEF Sendable
  <2> QED
    BY <1>1, <2>1, <2>2
<1> QED
  BY <1>2, <1>3 DEF Behind

LEMMA QueueMore ==
    ASSUME NEW w, WorldOK(w), NEW q, QueueOK(w, q), NEW xs, Sendable(w, xs)
    PROVE  QueueOK(w, q \o xs)
<1>1. /\ IsChannel(q \o xs) /\ Len(q) \in Nat /\ Len(xs) \in Nat /\ Len(q \o xs) = Len(q) + Len(xs)
      /\ \A i \in 1 .. Len(q) : (q \o xs)[i] = q[i]
      /\ \A i \in 1 .. Len(q \o xs) : i > Len(q) => i - Len(q) \in 1 .. Len(xs) /\ (q \o xs)[i] = xs[i - Len(q)]
  BY JoinedChannel DEF Sendable, QueueOK
<1>2. w.epoch \in Nat
  BY WorldTypes
<1>3. ASSUME NEW i \in 1 .. Len(q \o xs)
      PROVE  MsgOK(w, (q \o xs)[i]) /\ (i > Len(q) /\ Dates((q \o xs)[i]) => (q \o xs)[i].epoch = w.epoch)
  <2>1. CASE i \in 1 .. Len(q)
    BY <1>1, <2>1 DEF QueueOK
  <2>2. CASE i > Len(q)
    BY <1>1, <2>2 DEF Sendable
  <2> QED
    BY <1>1, <2>1, <2>2
<1>4. ASSUME NEW i \in 1 .. Len(q \o xs), NEW j \in 1 .. Len(q \o xs), i < j,
             Dated((q \o xs)[i]), Dates((q \o xs)[j])
      PROVE  (q \o xs)[i].epoch <= (q \o xs)[j].epoch
  <2>1. CASE j \in 1 .. Len(q)
    <3>1. i \in 1 .. Len(q)
      BY <1>1, <1>4, <2>1
    <3> QED
      BY <1>1, <1>4, <2>1, <3>1 DEF QueueOK
  <2>2. CASE j > Len(q)
    <3>1. (q \o xs)[j].epoch = w.epoch
      BY <1>3, <1>4, <2>2
    <3>2. (q \o xs)[i].epoch <= w.epoch
      <4> DEFINE m == (q \o xs)[i]
      <4>1. MsgOK(w, m) /\ Dated(m)
        BY <1>3, <1>4
      <4> HIDE DEF m
      <4>2. m.epoch <= w.epoch
        BY <1>2, <4>1 DEF MsgOK, Dated, Dates, EventOK, Recorded, AnswerOK
      <4> QED
        BY <4>2 DEF m
    <3> QED
      BY <3>1, <3>2
  <2> QED
    BY <1>1, <2>1, <2>2
<1> QED
  BY <1>1, <1>3, <1>4 DEF QueueOK

LEMMA PhoneMore ==
    ASSUME NEW w, WorldOK(w), NEW q, QueueOK(w, q), NEW xs, Sendable(w, xs), NEW p, PhoneOK(w, q, p)
    PROVE  PhoneOK(w, q \o xs, p)
<1>1. CursorOK(w, q \o xs, p, p.epoch, p.seq) /\ CursorOK(w, q \o xs, p, p.disk.epoch, p.disk.seq)
  BY BehindMore DEF PhoneOK, Core, CursorOK
<1>2. BufferOK(w, q \o xs, p.buffer)
  BY BehindMore DEF PhoneOK, Buffers, BufferOK
<1> QED
  BY <1>1, <1>2 DEF PhoneOK, Core, Buffers

LEMMA PhoneNone ==
    ASSUME NEW w, NEW q, NEW p, PhoneOK(w, q, p)
    PROVE  PhoneOK(w, <<>>, p)
<1>1. CursorOK(w, <<>>, p, p.epoch, p.seq) /\ CursorOK(w, <<>>, p, p.disk.epoch, p.disk.seq)
  BY DEF PhoneOK, Core, CursorOK, Behind
<1>2. BufferOK(w, <<>>, p.buffer)
  BY DEF PhoneOK, Buffers, BufferOK, Behind
<1> QED
  BY <1>1, <1>2 DEF PhoneOK, Core, Buffers

\* A request that waits for a snapshot, with the answer it had before.
QueryOK(w, q) == q.kind # "select" => q.answer.kind = "synced" /\ AnswerOK(w, q.answer)

LEMMA AnswersSent ==
    ASSUME NEW w, WorldOK(w), NEW r, NEW upto, RecordOK(w, r, upto), NEW s, IsChannel(s),
           \A i \in 1 .. Len(s) : QueryOK(w, s[i]), NEW fresh, NEW as,
           as = [i \in DOMAIN s |->
                    IF s[i].kind = "select" THEN SelectAnswer(s[i].gen, TRUE, r)
                    ELSE IF fresh THEN SyncAnswer(s[i], r, upto)
                    ELSE s[i].answer]
    PROVE  Sendable(w, as)
<1> DEFINE Answer(q) == IF q.kind = "select" THEN SelectAnswer(q.gen, TRUE, r)
                        ELSE IF fresh THEN SyncAnswer(q, r, upto)
                        ELSE q.answer
<1>1. DOMAIN s = 1 .. Len(s) /\ Len(s) \in Nat
  BY DEF IsChannel
<1>6. as = [i \in 1 .. Len(s) |-> Answer(s[i])]
  BY <1>1
<1>7. \A q : /\ q.kind = "select" => Answer(q) = SelectAnswer(q.gen, TRUE, r)
             /\ q.kind # "select" /\ fresh => Answer(q) = SyncAnswer(q, r, upto)
             /\ q.kind # "select" /\ ~fresh => Answer(q) = q.answer
  OBVIOUS
<1> HIDE DEF Answer
<1>2. as = [i \in 1 .. Len(s) |-> as[i]]
  BY <1>6
<1>8. \A i \in 1 .. Len(s) : as[i] = Answer(s[i])
  BY <1>6
<1>3. IsChannel(as) /\ Len(as) = Len(s)
  <2> DEFINE S == {as[i] : i \in 1 .. Len(s)}
  <2>1. \A i \in 1 .. Len(s) : as[i] \in S
    OBVIOUS
  <2> HIDE DEF S
  <2>2. as \in [1 .. Len(s) -> S]
    BY <1>2, <2>1
  <2>3. as \in Seq(S) /\ Len(as) = Len(s)
    BY <1>1, <2>2, Listed
  <2> QED
    BY <2>3 DEF IsChannel
<1>4. r.epoch = w.epoch /\ r.epoch \in 1 .. w.epoch
  BY RecordMeans DEF RecordOK
<1>5. ASSUME NEW i \in 1 .. Len(s)
      PROVE  MsgOK(w, as[i]) /\ (Dates(as[i]) => as[i].epoch = w.epoch)
  <2>1. CASE s[i].kind = "select"
    <3>1. as[i] = SelectAnswer(s[i].gen, TRUE, r)
      BY <1>7, <1>8, <2>1
    <3>2. as[i].kind = "selected" /\ as[i].epoch = r.epoch
      BY <3>1 DEF SelectAnswer
    <3> QED
      BY <1>4, <3>2 DEF MsgOK, Dates
  <2>2. CASE s[i].kind # "select" /\ fresh
    <3>1. as[i] = SyncAnswer(s[i], r, upto)
      BY <1>7, <1>8, <2>2
    <3>3. AnswerOK(w, SyncAnswer(s[i], r, upto)) /\ SyncAnswer(s[i], r, upto).kind = "synced"
      BY AnswerSound
    <3>2. AnswerOK(w, as[i]) /\ as[i].kind = "synced"
      BY <3>1, <3>3
    <3> QED
      BY <3>2 DEF MsgOK, Dates
  <2>3. CASE s[i].kind # "select" /\ ~fresh
    <3>1. as[i] = s[i].answer
      BY <1>7, <1>8, <2>3
    <3>2. AnswerOK(w, as[i]) /\ as[i].kind = "synced"
      BY <2>3, <3>1 DEF QueryOK
    <3> QED
      BY <3>2 DEF MsgOK, Dates
  <2> QED
    BY <2>1, <2>2, <2>3
<1> QED
  BY <1>3, <1>5 DEF Sendable

-----------------------------------------------------------------------------
(* How the relay and the hub go on.                                        *)

\* The record moves on, or the relay's socket closes.
LEMMA GrowsRecord ==
    ASSUME NEW w, WorldOK(w), NEW w2, w2.log = w.log, w2.barred = w.barred, w2.produced = w.produced,
           w2.live = w.live \/ w2.live = 0,
           w2.epoch \in 1 .. Len(w.log), w2.last \in 0 .. Len(w.log[w2.epoch]),
           w.epoch <= w2.epoch, w.epoch = w2.epoch => w.last <= w2.last
    PROVE  Grows(w, w2)
<1>1. Len(w.log) \in Nat /\ w.produced \in Nat /\ \A e \in 1 .. Len(w.log) : Len(w.log[e]) \in Nat
  BY WorldTypes
<1>2. w2.epoch \in 0 .. Len(w.log) /\ w2.last \in Nat /\ w2.last <= Len(w.log[w2.epoch])
  BY <1>1
<1>3. w2.live \in 0 .. Len(w.log)
  BY <1>1 DEF WorldOK
<1>4. \A e \in 1 .. Len(w.log) : e = w2.live => e = w.live
  BY <1>1
<1>5. WorldOK(w2)
  <2>1. \A e \in 1 .. Len(w2.log) : \A k \in 1 .. Len(w2.log[e]) :
           /\ w2.log[e][k] \in 1 .. w2.produced
           /\ k < Len(w2.log[e]) => w2.log[e][k + 1] = w2.log[e][k] + 1
           /\ e = w2.live /\ k = Len(w2.log[e]) => w2.log[e][k] = w2.produced
    <3>1. \A e \in 1 .. Len(w.log) : \A k \in 1 .. Len(w.log[e]) :
           /\ w.log[e][k] \in 1 .. w.produced
           /\ k < Len(w.log[e]) => w.log[e][k + 1] = w.log[e][k] + 1
           /\ e = w.live /\ k = Len(w.log[e]) => w.log[e][k] = w.produced
      BY DEF WorldOK
    <3>2. w2.log = w.log /\ w2.produced = w.produced
      OBVIOUS
    <3> QED
      BY <1>4, <3>1, <3>2, SMTT(30)
  <2>2. w2.log \in Seq(Seq(Nat)) /\ w2.produced \in Nat /\ w2.barred \subseteq 1 .. w2.produced
    BY DEF WorldOK
  <2> QED
    BY <1>2, <1>3, <2>1, <2>2 DEF WorldOK
<1>6. \A e \in 1 .. Len(w.log) : NoEvent(w, w2, e)
  BY <1>1, <1>4 DEF NoEvent
<1> QED
  BY <1>1, <1>5, <1>6 DEF Grows

\* ... or no source is registered yet.
LEMMA GrowsClosed ==
    ASSUME NEW w, WorldOK(w), NEW w2, w2.log = w.log, w2.barred = w.barred, w2.produced = w.produced,
           w2.live = w.live \/ w2.live = 0, w2.epoch = w.epoch, w2.last = w.last
    PROVE  Grows(w, w2)
<1>1. /\ Len(w.log) \in Nat /\ w.produced \in Nat /\ \A e \in 1 .. Len(w.log) : Len(w.log[e]) \in Nat
      /\ w.last \in Nat /\ w.epoch \in Nat
  BY WorldTypes
<1>3. w2.live \in 0 .. Len(w.log)
  BY <1>1 DEF WorldOK
<1>4. \A e \in 1 .. Len(w.log) : e = w2.live => e = w.live
  BY <1>1
<1>5. WorldOK(w2)
  <2>1. \A e \in 1 .. Len(w2.log) : \A k \in 1 .. Len(w2.log[e]) :
           /\ w2.log[e][k] \in 1 .. w2.produced
           /\ k < Len(w2.log[e]) => w2.log[e][k + 1] = w2.log[e][k] + 1
           /\ e = w2.live /\ k = Len(w2.log[e]) => w2.log[e][k] = w2.produced
    BY <1>4 DEF WorldOK
  <2>2. /\ w2.log \in Seq(Seq(Nat)) /\ w2.produced \in Nat /\ w2.barred \subseteq 1 .. w2.produced
        /\ w2.epoch \in 0 .. Len(w2.log) /\ w2.last \in Nat
        /\ w2.epoch # 0 => w2.last <= Len(w2.log[w2.epoch])
    BY DEF WorldOK
  <2> QED
    BY <1>3, <2>1, <2>2 DEF WorldOK
<1>6. \A e \in 1 .. Len(w.log) : NoEvent(w, w2, e)
  BY <1>1, <1>4 DEF NoEvent
<1> QED
  BY <1>1, <1>5, <1>6 DEF Grows

\* An item is produced of which there is no event.
LEMMA GrowsBarred ==
    ASSUME NEW w, WorldOK(w), NEW w2, w2.log = w.log, w2.live = w.live, w2.epoch = w.epoch, w2.last = w.last,
           w2.produced = w.produced + 1,
           w2.barred = IF w.live # 0 THEN w.barred \cup {w2.produced} ELSE w.barred,
           w.live # 0 => Len(w.log[w.live]) = 0
    PROVE  Grows(w, w2)
<1>1. /\ Len(w.log) \in Nat /\ w.produced \in Nat /\ \A e \in 1 .. Len(w.log) : Len(w.log[e]) \in Nat
      /\ w.last \in Nat /\ w.epoch \in Nat
      /\ \A e \in 1 .. Len(w.log) : \A k \in 1 .. Len(w.log[e]) : w.log[e][k] \in 1 .. w.produced
  BY WorldTypes
<1>2. w.barred \subseteq w2.barred /\ w2.barred \subseteq 1 .. w2.produced
  BY <1>1 DEF WorldOK
<1>3. \A e \in 1 .. Len(w2.log) : \A k \in 1 .. Len(w2.log[e]) :
           /\ w2.log[e][k] \in 1 .. w2.produced
           /\ k < Len(w2.log[e]) => w2.log[e][k + 1] = w2.log[e][k] + 1
           /\ e = w2.live /\ k = Len(w2.log[e]) => w2.log[e][k] = w2.produced
  <2> SUFFICES ASSUME NEW e \in 1 .. Len(w.log), NEW k \in 1 .. Len(w.log[e])
               PROVE  /\ w.log[e][k] \in 1 .. w2.produced
                      /\ k < Len(w.log[e]) => w.log[e][k + 1] = w.log[e][k] + 1
                      /\ e # w.live
    OBVIOUS
  <2>1. w.log[e][k] \in 1 .. w2.produced
    BY <1>1
  <2>2. k < Len(w.log[e]) => w.log[e][k + 1] = w.log[e][k] + 1
    BY DEF WorldOK
  <2>3. e # w.live
    BY <1>1
  <2> QED
    BY <2>1, <2>2, <2>3
<1>4. WorldOK(w2)
  <2>1. /\ w2.log \in Seq(Seq(Nat)) /\ w2.produced \in Nat
        /\ w2.live \in 0 .. Len(w2.log)
        /\ w2.epoch \in 0 .. Len(w2.log) /\ w2.last \in Nat
        /\ w2.epoch # 0 => w2.last <= Len(w2.log[w2.epoch])
    BY <1>1 DEF WorldOK
  <2> QED
    BY <1>2, <1>3, <2>1 DEF WorldOK
<1>5. \A e \in 1 .. Len(w.log) : NoEvent(w, w2, e)
  <2> SUFFICES ASSUME NEW e \in 1 .. Len(w.log), w.live = e
               PROVE  \A i \in 1 .. w2.produced : i <= w.produced \/ i \in w2.barred
    BY DEF NoEvent
  <2>1. w2.produced \in w2.barred
    BY <1>1
  <2> QED
    BY <1>1, <2>1
<1> QED
  BY <1>1, <1>2, <1>4, <1>5 DEF Grows

\* An epoch is minted.
LEMMA GrowsEpoch ==
    ASSUME NEW w, WorldOK(w), NEW w2, w2.log = Append(w.log, <<>>), w2.live = Len(w.log) + 1,
           w2.epoch = w.epoch, w2.last = w.last, w2.barred = w.barred,
           w2.produced = w.produced \/ w2.produced = w.produced + 1
    PROVE  /\ Grows(w, w2) /\ Len(w2.log) = Len(w.log) + 1 /\ Len(w2.log[w2.live]) = 0
           /\ w2.live \in 1 .. Len(w2.log)
<1>1. /\ Len(w.log) \in Nat /\ w.produced \in Nat /\ \A e \in 1 .. Len(w.log) : Len(w.log[e]) \in Nat
      /\ w.last \in Nat /\ w.epoch \in Nat
      /\ \A e \in 1 .. Len(w.log) : \A k \in 1 .. Len(w.log[e]) : w.log[e][k] \in 1 .. w.produced
  BY WorldTypes
<1>2. w.log \in Seq(Seq(Nat)) /\ <<>> \in Seq(Nat)
  BY DEF WorldOK
<1>3. /\ w2.log \in Seq(Seq(Nat)) /\ Len(w2.log) = Len(w.log) + 1
      /\ \A e \in 1 .. Len(w.log) : w2.log[e] = w.log[e]
      /\ w2.log[Len(w.log) + 1] = <<>> /\ Len(<<>>) = 0
  BY <1>1, <1>2
<1>4. w.produced <= w2.produced /\ w2.produced \in Nat /\ w2.barred \subseteq 1 .. w2.produced
  BY <1>1 DEF WorldOK
<1>5. \A e \in 1 .. Len(w2.log) : e \in 1 .. Len(w.log) \/ e = Len(w.log) + 1
  BY <1>1, <1>3
<1>6. \A e \in 1 .. Len(w2.log) : \A k \in 1 .. Len(w2.log[e]) :
           /\ w2.log[e][k] \in 1 .. w2.produced
           /\ k < Len(w2.log[e]) => w2.log[e][k + 1] = w2.log[e][k] + 1
           /\ e # w2.live
  <2> SUFFICES ASSUME NEW e \in 1 .. Len(w2.log), NEW k \in 1 .. Len(w2.log[e])
               PROVE  /\ w2.log[e][k] \in 1 .. w2.produced
                      /\ k < Len(w2.log[e]) => w2.log[e][k + 1] = w2.log[e][k] + 1
                      /\ e # w2.live
    OBVIOUS
  <2>1. e # Len(w.log) + 1
    BY <1>3
  <2>2. e \in 1 .. Len(w.log) /\ w2.log[e] = w.log[e]
    BY <1>3, <1>5, <2>1
  <2>3. w.log[e][k] \in 1 .. w.produced /\ (k < Len(w.log[e]) => w.log[e][k + 1] = w.log[e][k] + 1)
    BY <2>2 DEF WorldOK
  <2> QED
    BY <1>1, <1>4, <2>1, <2>2, <2>3, SMTT(30)
<1>7. WorldOK(w2)
  <2>1. /\ w2.live \in 0 .. Len(w2.log)
        /\ w2.epoch \in 0 .. Len(w2.log) /\ w2.last \in Nat
    BY <1>1, <1>3 DEF WorldOK
  <2>2. w2.epoch # 0 => w2.last <= Len(w2.log[w2.epoch])
    BY <1>1, <1>3 DEF WorldOK
  <2> QED
    BY <1>3, <1>4, <1>6, <2>1, <2>2, SMTT(30) DEF WorldOK
<1>8. \A e \in 1 .. Len(w.log) : NoEvent(w, w2, e)
  BY <1>1, <1>3 DEF NoEvent
<1>9. Grows(w, w2)
  BY <1>1, <1>3, <1>4, <1>7, <1>8 DEF Grows
<1> QED
  BY <1>1, <1>3, <1>9

LEMMA Replaced ==
    ASSUME NEW S, NEW s \in Seq(S), NEW l \in 1 .. Len(s), NEW x \in S, NEW t, t = [s EXCEPT ![l] = x]
    PROVE  /\ t \in Seq(S) /\ Len(t) = Len(s) /\ t[l] = x
           /\ \A e \in 1 .. Len(s) : e # l => t[e] = s[e]
<1>1. t \in Seq(S) /\ Len(t) = Len(s)
  BY ExceptSeq
<1> QED
  BY <1>1

\* Epoch l gets its next event, the item produced with it.
AddsEvent(w, w2, l, n, x) ==
    /\ l \in 1 .. Len(w.log) /\ l = w.live /\ n \in Nat /\ n = Len(w.log[l])
    /\ Len(x) = n + 1 /\ x[n + 1] = w.produced + 1 /\ \A k \in 1 .. n : x[k] = w.log[l][k]
    /\ w2.log \in Seq(Seq(Nat)) /\ Len(w2.log) = Len(w.log) /\ w2.log[l] = x
    /\ \A e \in 1 .. Len(w.log) : e # l => w2.log[e] = w.log[e]
    /\ w2.live = w.live /\ w2.epoch = w.epoch /\ w2.last = w.last /\ w2.barred = w.barred
    /\ w2.produced = w.produced + 1

\* An event is sent.
LEMMA EventLogged ==
    ASSUME NEW w, WorldOK(w), NEW w2, NEW l, NEW n, NEW x, AddsEvent(w, w2, l, n, x)
    PROVE  Grows(w, w2)
<1>1. /\ Len(w.log) \in Nat /\ w.produced \in Nat /\ \A e \in 1 .. Len(w.log) : Len(w.log[e]) \in Nat
      /\ w.last \in Nat /\ w.epoch \in Nat
      /\ \A e \in 1 .. Len(w.log) : \A k \in 1 .. Len(w.log[e]) : w.log[e][k] \in 1 .. w.produced
  BY WorldTypes
<1>2. l \in 1 .. Len(w.log) /\ l = w.live /\ n \in Nat /\ n = Len(w.log[l])
  BY DEF AddsEvent
<1>3. Len(x) = n + 1 /\ x[n + 1] = w.produced + 1 /\ \A k \in 1 .. n : x[k] = w.log[l][k]
  BY DEF AddsEvent
<1>4. /\ Len(w2.log) = Len(w.log) /\ w2.log[l] = x
      /\ \A e \in 1 .. Len(w.log) : e # l => w2.log[e] = w.log[e]
  BY DEF AddsEvent
<1>5. w2.log \in Seq(Seq(Nat))
  BY DEF AddsEvent
<1>6. /\ w2.live = w.live /\ w2.epoch = w.epoch /\ w2.last = w.last /\ w2.barred = w.barred
      /\ w2.produced = w.produced + 1
  BY DEF AddsEvent
<1>7. w2.produced \in Nat /\ w.produced <= w2.produced /\ w2.barred \subseteq 1 .. w2.produced
  BY <1>1, <1>6 DEF WorldOK
<1>8. \A k \in 1 .. n : k = n => w.log[l][k] = w.produced
  BY <1>2 DEF WorldOK
<1>9. \A e \in 1 .. Len(w.log) : \A k \in 1 .. Len(w.log[e]) : k < Len(w.log[e]) => w.log[e][k + 1] = w.log[e][k] + 1
  BY DEF WorldOK
<1>13. \A k \in 1 .. n + 1 :
           /\ x[k] \in 1 .. w.produced + 1
           /\ k < n + 1 => x[k + 1] = x[k] + 1
           /\ k = n + 1 => x[k] = w.produced + 1
  <2> DEFINE p == w.produced
  <2> DEFINE y == w.log[l]
  <2>1. p \in Nat /\ n \in Nat /\ \A k \in 1 .. n : y[k] \in 1 .. p
    BY <1>1, <1>2
  <2>2. \A k \in 1 .. n : (k < n => y[k + 1] = y[k] + 1) /\ (k = n => y[k] = p)
    BY <1>2, <1>8, <1>9
  <2>3. x[n + 1] = p + 1 /\ \A k \in 1 .. n : x[k] = y[k]
    BY <1>3
  <2> HIDE DEF p, y
  <2> SUFFICES ASSUME NEW k \in 1 .. n + 1
               PROVE  x[k] \in 1 .. p + 1 /\ (k < n + 1 => x[k + 1] = x[k] + 1) /\ (k = n + 1 => x[k] = p + 1)
    BY DEF p
  <2>4. CASE k = n + 1
    BY <2>1, <2>3, <2>4
  <2>5. CASE k = n
    <3>1. k \in 1 .. n /\ x[k] = p
      BY <2>1, <2>2, <2>3, <2>5
    <3> QED
      BY <2>1, <2>3, <2>5, <3>1
  <2>6. CASE k < n
    <3>1. k \in 1 .. n /\ k + 1 \in 1 .. n
      BY <2>1, <2>6
    <3>2. x[k] = y[k] /\ x[k + 1] = y[k + 1] /\ y[k + 1] = y[k] + 1 /\ y[k] \in 1 .. p
      BY <2>1, <2>2, <2>3, <2>6, <3>1
    <3> QED
      BY <2>1, <2>6, <3>1, <3>2
  <2>7. k = n + 1 \/ k = n \/ k < n
    BY <2>1
  <2> QED
    BY <2>4, <2>5, <2>6, <2>7
<1>10. \A e \in 1 .. Len(w2.log) : \A k \in 1 .. Len(w2.log[e]) :
           /\ w2.log[e][k] \in 1 .. w2.produced
           /\ k < Len(w2.log[e]) => w2.log[e][k + 1] = w2.log[e][k] + 1
           /\ e = w2.live /\ k = Len(w2.log[e]) => w2.log[e][k] = w2.produced
  <2> SUFFICES ASSUME NEW e \in 1 .. Len(w2.log), NEW k \in 1 .. Len(w2.log[e])
               PROVE  /\ w2.log[e][k] \in 1 .. w2.produced
                      /\ k < Len(w2.log[e]) => w2.log[e][k + 1] = w2.log[e][k] + 1
                      /\ e = w2.live /\ k = Len(w2.log[e]) => w2.log[e][k] = w2.produced
    OBVIOUS
  <2>1. CASE e # l
    <3>1. e \in 1 .. Len(w.log) /\ w2.log[e] = w.log[e] /\ e # w2.live
      BY <1>2, <1>4, <1>6, <2>1
    <3>2. w.log[e][k] \in 1 .. w.produced /\ w2.produced = w.produced + 1
      BY <1>1, <1>6, <3>1
    <3> QED
      BY <1>1, <1>9, <2>1, <3>1, <3>2
  <2>2. CASE e = l
    <3>1. w2.log[e] = x /\ Len(x) = n + 1 /\ k \in 1 .. n + 1
      BY <1>2, <1>3, <1>4, <2>2
    <3> QED
      BY <1>6, <1>13, <3>1
  <2> QED
    BY <2>1, <2>2
<1>11. WorldOK(w2)
  <2>1. /\ w2.live \in 0 .. Len(w2.log)
        /\ w2.epoch \in 0 .. Len(w2.log) /\ w2.last \in Nat
    BY <1>1, <1>2, <1>4, <1>6 DEF WorldOK
  <2>2. w2.epoch # 0 => w2.last <= Len(w2.log[w2.epoch])
    <3> SUFFICES ASSUME w.epoch # 0 PROVE w.last <= Len(w2.log[w.epoch])
      BY <1>6
    <3>1. w.last <= Len(w.log[w.epoch]) /\ w.epoch \in 1 .. Len(w.log)
      BY <1>1 DEF WorldOK
    <3>2. CASE w.epoch = l
      <4>1. w2.log[w.epoch] = x /\ w.last <= n
        BY <1>2, <1>4, <3>1, <3>2
      <4> QED
        BY <1>1, <1>2, <1>3, <4>1
    <3>3. CASE w.epoch # l
      BY <1>4, <3>1, <3>3
    <3> QED
      BY <3>2, <3>3
  <2> QED
    BY <1>5, <1>7, <1>10, <2>1, <2>2 DEF WorldOK
<1>12. \A e \in 1 .. Len(w.log) : /\ NoEvent(w, w2, e) \/ OneEvent(w, w2, e)
                                  /\ \A k \in 1 .. Len(w.log[e]) : w2.log[e][k] = w.log[e][k]
  <2> SUFFICES ASSUME NEW e \in 1 .. Len(w.log)
               PROVE  /\ NoEvent(w, w2, e) \/ OneEvent(w, w2, e)
                      /\ \A k \in 1 .. Len(w.log[e]) : w2.log[e][k] = w.log[e][k]
    OBVIOUS
  <2>1. CASE e # l
    BY <1>2, <1>4, <1>6, <2>1 DEF NoEvent
  <2>2. CASE e = l
    BY <1>2, <1>3, <1>4, <1>6, <2>2 DEF OneEvent
  <2> QED
    BY <2>1, <2>2
<1> QED
  BY <1>1, <1>4, <1>6, <1>7, <1>11, <1>12 DEF Grows

LEMMA GrowsEvent ==
    ASSUME NEW w, WorldOK(w), w.live # 0, NEW w2,
           w2.log = [w.log EXCEPT ![w.live] = Append(@, w.produced + 1)], w2.live = w.live,
           w2.epoch = w.epoch, w2.last = w.last, w2.barred = w.barred, w2.produced = w.produced + 1
    PROVE  /\ Grows(w, w2) /\ Len(w2.log) = Len(w.log) /\ Len(w2.log[w.live]) = Len(w.log[w.live]) + 1
           /\ w.live \in 1 .. Len(w.log)
<1> DEFINE l == w.live
<1> DEFINE n == Len(w.log[l])
<1> DEFINE x == Append(w.log[l], w.produced + 1)
<1>1. Len(w.log) \in Nat /\ w.produced \in Nat
  BY WorldTypes
<1>2. l \in 1 .. Len(w.log) /\ w.log \in Seq(Seq(Nat))
  BY <1>1 DEF WorldOK
<1>3. w.log[l] \in Seq(Nat) /\ n \in Nat
  <2>1. w.log[l] \in Seq(Nat)
    BY <1>2
  <2> QED
    BY <2>1
<1>4. x \in Seq(Nat) /\ Len(x) = n + 1 /\ x[n + 1] = w.produced + 1 /\ \A k \in 1 .. n : x[k] = w.log[l][k]
  BY <1>1, <1>3, SMTT(30)
<1>5. w2.log = [w.log EXCEPT ![l] = x]
  OBVIOUS
<1>6. n = Len(w.log[l]) /\ l = w.live
  OBVIOUS
<1> HIDE DEF x, l, n
<1>7. /\ w2.log \in Seq(Seq(Nat)) /\ Len(w2.log) = Len(w.log)
      /\ w2.log[l] = x /\ \A e \in 1 .. Len(w.log) : e # l => w2.log[e] = w.log[e]
  <2>1. w.log \in Seq(Seq(Nat)) /\ x \in Seq(Nat) /\ l \in 1 .. Len(w.log)
    BY <1>2, <1>4
  <2> DEFINE s == w.log
  <2> DEFINE t == w2.log
  <2>2. s \in Seq(Seq(Nat)) /\ l \in 1 .. Len(s) /\ t = [s EXCEPT ![l] = x]
    BY <1>5, <2>1
  <2> HIDE DEF s, t
  <2>3. t \in Seq(Seq(Nat)) /\ Len(t) = Len(s) /\ t[l] = x /\ \A e \in 1 .. Len(s) : e # l => t[e] = s[e]
    BY <2>1, <2>2, Replaced
  <2> QED
    BY <2>3 DEF s, t
<1>8. Grows(w, w2)
  <2>1. AddsEvent(w, w2, l, n, x)
    BY <1>2, <1>3, <1>4, <1>6, <1>7 DEF AddsEvent
  <2> QED
    BY <2>1, EventLogged
<1> QED
  BY <1>2, <1>4, <1>6, <1>7, <1>8

\* A snapshot with everything produced so far, at the end of an epoch.
LEMMA SnapshotSound ==
    ASSUME NEW w, WorldOK(w), NEW e \in 1 .. Len(w.log)
    PROVE  SoundSnapshot(w, e, Len(w.log[e]), w.produced)
<1>1. /\ Len(w.log) \in Nat /\ w.produced \in Nat /\ Len(w.log[e]) \in Nat
      /\ \A k \in 1 .. Len(w.log[e]) : w.log[e][k] \in 1 .. w.produced
  BY WorldTypes
<1> DEFINE n == Len(w.log[e])
<1>2. \A i \in 1 .. w.produced : i \in (1 .. w.produced) \cup w.barred
  OBVIOUS
<1>3. n >= 1 => \A i \in 1 .. w.log[e][n] : i \in 1 .. w.produced
  BY <1>1
<1>4. Joined(w, 1 .. w.produced, e, n)
  BY <1>1, <1>2, <1>3 DEF Joined
<1> QED
  BY <1>1, <1>4 DEF SoundSnapshot, Carried

\* A frame on its way to the hub: a snapshot is sound, an event was sent, and a
\* registration begins an epoch the record has not had.
FrameOK(w, f) ==
    /\ f.kind = "register" => f.seq = 0 /\ w.epoch < f.epoch
    /\ f.kind \in {"register", "snapshot"} => SoundSnapshot(w, f.epoch, f.seq, f.upto)
    /\ f.kind = "event" => f.seq >= 1 /\ Carried(w, f.epoch, f.seq)

LEMMA FrameStays ==
    ASSUME NEW w, NEW w2, Grows(w, w2), NEW f, FrameOK(w, f), f.kind = "register" => w2.epoch = w.epoch
    PROVE  FrameOK(w2, f)
BY SnapshotStays, CarriedStays DEF FrameOK

-----------------------------------------------------------------------------
(* The invariant, and the steps of the relay.                              *)

\* The relay numbers the events of its epoch, and only when it is registered.
RelayNow ==
    /\ relay.epoch # 0 => relay.seq = Len(log[relay.epoch])
    /\ relay.epoch = 0 => relay.seq = 0
    /\ relay.open /\ relay.seq > 0 => relay.registered

\* What is under way to the hub, the registration being reconciled included.
FramesInv ==
    /\ \A i \in 1 .. Len(up) : FrameOK(World, up[i])
    /\ desk \in {"none", "registering", "registered"}
    /\ desk = "registering" => registration.kind = "register" /\ FrameOK(World, registration)
    /\ desk # "registering" => registration = NoFrame

\* The record means what it says; a relay is registered only if there is one.
RecInv ==
    /\ rec # NoRecord => RecordOK(World, rec, recUpto)
    /\ recUpto \in 0 .. produced
    /\ desk = "registered" => rec # NoRecord

\* The requests that wait are sound, and before the first registration nobody is there.
HubInv ==
    /\ asked \in Nat /\ selected \in BOOLEAN
    /\ IsChannel(waiting) /\ \A i \in 1 .. Len(waiting) : QueryOK(World, waiting[i])
    /\ waiting # <<>> => asked # 0
    /\ rec = NoRecord => /\ ~phone.conn /\ phone.stage = "none" /\ ~selected /\ asked = 0
                         /\ toHub = <<>> /\ toPhone = <<>> /\ waiting = <<>>

\* What is under way to the phone, and the phone.
ScreenInv ==
    QueueOK(World, toPhone) /\ PhoneOK(World, toPhone, phone) /\ phone.out = <<>>

BoundsInv == produced <= MaxItems /\ Len(log) <= MaxEpoch

\* The inductive invariant behind TypeOK, CursorBacked and NoUnnoticedHole.
HistoryInv ==
    WorldOK(World) /\ RelayNow /\ FramesInv /\ RecInv /\ HubInv /\ ScreenInv /\ BoundsInv

LEMMA WorldFields ==
    /\ World.log = log /\ World.barred = barred /\ World.produced = produced
    /\ World.live = IF relay.open THEN relay.epoch ELSE 0
    /\ World.epoch = rec.epoch
    /\ World.last = IF rec = NoRecord THEN 0 ELSE rec.lastSeq
BY DEF World

LEMMA WorldFieldsNext ==
    /\ World'.log = log' /\ World'.barred = barred' /\ World'.produced = produced'
    /\ World'.live = IF relay'.open THEN relay'.epoch ELSE 0
    /\ World'.epoch = rec'.epoch
    /\ World'.last = IF rec' = NoRecord THEN 0 ELSE rec'.lastSeq
BY DEF World

LEMMA QueryStays ==
    ASSUME NEW w, NEW w2, Grows(w, w2), NEW q, QueryOK(w, q)
    PROVE  QueryOK(w2, q)
BY AnswerStays DEF QueryOK

\* A frame more on the way to the hub.
LEMMA FrameMore ==
    ASSUME NEW w, NEW w2, Grows(w, w2), w2.epoch = w.epoch, NEW s, IsChannel(s),
           \A i \in 1 .. Len(s) : FrameOK(w, s[i]), NEW f, FrameOK(w2, f)
    PROVE  \A i \in 1 .. Len(Append(s, f)) : FrameOK(w2, Append(s, f)[i])
<1>1. /\ Len(s) \in Nat /\ Len(Append(s, f)) = Len(s) + 1 /\ Append(s, f)[Len(s) + 1] = f
      /\ \A i \in 1 .. Len(s) : Append(s, f)[i] = s[i]
  BY Appended
<1>2. \A i \in 1 .. Len(Append(s, f)) : i \in 1 .. Len(s) \/ i = Len(s) + 1
  BY <1>1
<1> QED
  BY <1>1, <1>2, FrameStays

LEMMA FramesStay ==
    ASSUME NEW w, NEW w2, Grows(w, w2), w2.epoch = w.epoch, NEW s,
           \A i \in 1 .. Len(s) : FrameOK(w, s[i])
    PROVE  \A i \in 1 .. Len(s) : FrameOK(w2, s[i])
BY FrameStays

\* The frames of Frame.
LEMMA FrameFields ==
    ASSUME NEW k, NEW e, NEW n, NEW u, NEW id
    PROVE  /\ Frame(k, e, n, u, id).kind = k /\ Frame(k, e, n, u, id).epoch = e
           /\ Frame(k, e, n, u, id).seq = n /\ Frame(k, e, n, u, id).upto = u
BY DEF Frame

\* The record of the source means the same when history has moved on without it.
LEMMA RecordStays ==
    ASSUME NEW w, NEW w2, Grows(w, w2), w2.epoch = w.epoch, w2.last = w.last, NEW r, NEW u, RecordOK(w, r, u)
    PROVE  RecordOK(w2, r, u)
BY SnapshotStays DEF RecordOK

\* Whatever happens at the relay's end, the hub and the phone keep what they have.
LEMMA RelayGoesOn ==
    ASSUME HistoryInv, UNCHANGED <<hubVars, toHub, toPhone, phone>>,
           Grows(World, World'), RelayNow', BoundsInv', \A i \in 1 .. Len(up') : FrameOK(World', up'[i])
    PROVE  HistoryInv'
<1> DEFINE w == World
<1> DEFINE w2 == World'
<1>1. /\ desk' = desk /\ registration' = registration /\ rec' = rec /\ recUpto' = recUpto
      /\ selected' = selected /\ asked' = asked /\ waiting' = waiting
      /\ toHub' = toHub /\ toPhone' = toPhone /\ phone' = phone
  BY DEF hubVars
<1>2. w2.epoch = w.epoch /\ w2.last = w.last
  BY <1>1, WorldFields, WorldFieldsNext
<1>3. WorldOK(w) /\ WorldOK(w2) /\ Grows(w, w2) /\ w.produced <= w2.produced
  BY DEF Grows
<1>4. /\ desk = "registering" => registration.kind = "register" /\ FrameOK(w, registration)
      /\ desk \in {"none", "registering", "registered"}
      /\ desk # "registering" => registration = NoFrame
  BY DEF HistoryInv, FramesInv
<1>5. /\ rec # NoRecord => RecordOK(w, rec, recUpto)
      /\ recUpto \in 0 .. produced
      /\ desk = "registered" => rec # NoRecord
  BY DEF HistoryInv, RecInv
<1>6. \A i \in 1 .. Len(waiting) : QueryOK(w, waiting[i])
  BY DEF HistoryInv, HubInv
<1>7. QueueOK(w, toPhone) /\ PhoneOK(w, toPhone, phone) /\ phone.out = <<>>
  BY DEF HistoryInv, ScreenInv
<1>8. w.produced = produced /\ w2.produced = produced'
  BY WorldFields, WorldFieldsNext
<1>9. \A i \in 1 .. Len(up') : FrameOK(w2, up'[i])
  OBVIOUS
<1> HIDE DEF w, w2
<1>10. recUpto \in 0 .. produced'
  <2>1. w.produced \in Nat /\ w2.produced \in Nat
    BY <1>3, WorldTypes
  <2> QED
    BY <1>3, <1>5, <1>8, <2>1
<1>11. desk = "registering" => FrameOK(w2, registration)
  BY <1>2, <1>3, <1>4, FrameStays
<1>12. rec # NoRecord => RecordOK(w2, rec, recUpto)
  BY <1>2, <1>3, <1>5, RecordStays
<1>13. \A i \in 1 .. Len(waiting) : QueryOK(w2, waiting[i])
  BY <1>3, <1>6, QueryStays
<1>14. QueueOK(w2, toPhone) /\ PhoneOK(w2, toPhone, phone)
  BY <1>3, <1>7, QueueStays, PhoneStays
<1>15. FramesInv'
  BY <1>1, <1>4, <1>9, <1>11 DEF FramesInv, w2
<1>16. RecInv'
  BY <1>1, <1>5, <1>10, <1>12 DEF RecInv, w2
<1>17. HubInv'
  BY <1>1, <1>13 DEF HistoryInv, HubInv, w2
<1>18. ScreenInv'
  BY <1>1, <1>7, <1>14 DEF ScreenInv, w2
<1>19. WorldOK(World')
  BY <1>3 DEF w2
<1> QED
  BY <1>15, <1>16, <1>17, <1>18, <1>19 DEF HistoryInv

LEMMA MintedGrows ==
    ASSUME SeqInv, HistoryInv, NEW b \in BOOLEAN, NewEpoch(b), rec' = rec, barred' = barred,
           produced' = produced \/ produced' = produced + 1
    PROVE  /\ Grows(World, World') /\ RelayNow' /\ World'.epoch = World.epoch
           /\ World'.live = relay'.epoch /\ relay'.epoch \in 1 .. Len(World'.log)
           /\ Len(World'.log[relay'.epoch]) = 0 /\ relay'.seq = 0
           /\ Len(log') <= MaxEpoch /\ World.epoch < relay'.epoch
<1> DEFINE w == World
<1> DEFINE w2 == World'
<1>1. /\ relay'.open /\ relay'.registered = b /\ relay'.epoch = Len(log') /\ relay'.seq = 0
      /\ Len(log') = Len(log) + 1 /\ log' = Append(log, <<>>) /\ Len(log) < MaxEpoch
  BY MintedEpoch DEF SeqInv, NewEpoch
<1>2. /\ w2.log = Append(w.log, <<>>) /\ w2.live = Len(w.log) + 1 /\ w2.epoch = w.epoch /\ w2.last = w.last
      /\ w2.barred = w.barred /\ (w2.produced = w.produced \/ w2.produced = w.produced + 1)
      /\ w2.live = relay'.epoch /\ w2.log = log' /\ w.log = log
  BY <1>1, WorldFields, WorldFieldsNext
<1>3. WorldOK(w)
  BY DEF HistoryInv
<1> HIDE DEF w, w2
<1>4. /\ Grows(w, w2) /\ Len(w2.log) = Len(w.log) + 1 /\ Len(w2.log[w2.live]) = 0
      /\ w2.live \in 1 .. Len(w2.log)
  BY <1>2, <1>3, GrowsEpoch
<1>5. Len(w.log) \in Nat /\ w.epoch \in 0 .. Len(w.log)
  BY <1>3, WorldTypes DEF WorldOK
<1>6. MaxEpoch \in Nat
  BY SyncAssumption
<1>7. Len(log') <= MaxEpoch /\ w.epoch < relay'.epoch
  BY <1>1, <1>2, <1>5, <1>6
<1>8. RelayNow'
  BY <1>1, <1>2, <1>4 DEF RelayNow
<1> QED
  BY <1>1, <1>2, <1>4, <1>7, <1>8 DEF w, w2

LEMMA ConnectLogs ==
    ASSUME SeqInv, HistoryInv, RelayConnect
    PROVE  HistoryInv'
<1> DEFINE f == Frame("register", relay'.epoch, 0, produced, 0)
<1>1. /\ NewEpoch(FALSE) /\ up' = <<f>> /\ produced' = produced /\ barred' = barred
      /\ UNCHANGED <<hubVars, toHub, toPhone, phone>> /\ rec' = rec
  BY DEF RelayConnect, hubVars
<1>2. /\ Grows(World, World') /\ RelayNow' /\ World'.epoch = World.epoch
      /\ relay'.epoch \in 1 .. Len(World'.log)
      /\ Len(World'.log[relay'.epoch]) = 0 /\ Len(log') <= MaxEpoch /\ World.epoch < relay'.epoch
  BY <1>1, MintedGrows
<1>3. WorldOK(World') /\ World'.produced = produced
  BY <1>1, <1>2, WorldFieldsNext DEF Grows
<1>4. SoundSnapshot(World', relay'.epoch, 0, produced)
  BY <1>2, <1>3, SnapshotSound
<1>5. FrameOK(World', f)
  BY <1>2, <1>4, FrameFields DEF FrameOK
<1> HIDE DEF f
<1>6. BoundsInv'
  BY <1>1, <1>2 DEF HistoryInv, BoundsInv
<1>7. \A i \in 1 .. Len(up') : FrameOK(World', up'[i])
  BY <1>1, <1>5
<1> QED
  BY <1>1, <1>2, <1>6, <1>7, RelayGoesOn

\* resnapshot.
LEMMA ResnapshotLogs ==
    ASSUME SeqInv, HistoryInv, Resnapshot, UNCHANGED <<barred, hubVars, toHub, toPhone, phone>>,
           produced' = produced \/ (produced' = produced + 1 /\ produced < MaxItems)
    PROVE  HistoryInv'
<1> DEFINE f == Frame("snapshot", relay'.epoch, relay'.seq, produced', 0)
<1>1. NewEpoch(TRUE) /\ up' = Append(up, f) /\ barred' = barred /\ rec' = rec
  BY DEF Resnapshot, SnapshotFrame, hubVars
<1>2. /\ Grows(World, World') /\ RelayNow' /\ World'.epoch = World.epoch
      /\ relay'.epoch \in 1 .. Len(World'.log)
      /\ Len(World'.log[relay'.epoch]) = 0 /\ relay'.seq = 0 /\ Len(log') <= MaxEpoch
  BY <1>1, MintedGrows
<1>3. WorldOK(World') /\ World'.produced = produced'
  BY <1>1, <1>2, WorldFieldsNext DEF Grows
<1>4. SoundSnapshot(World', relay'.epoch, relay'.seq, produced')
  BY <1>2, <1>3, SnapshotSound
<1>5. FrameOK(World', f)
  BY <1>4, FrameFields DEF FrameOK
<1> HIDE DEF f
<1>6. BoundsInv'
  <2>1. produced \in Nat /\ MaxItems \in Nat
    BY SyncAssumption DEF SeqInv, RelayInv
  <2> QED
    BY <1>1, <1>2, <2>1 DEF HistoryInv, BoundsInv
<1>7. \A i \in 1 .. Len(up') : FrameOK(World', up'[i])
  <2>1. IsChannel(up) /\ \A i \in 1 .. Len(up) : FrameOK(World, up[i])
    BY DEF SeqInv, StreamInv, HistoryInv, FramesInv
  <2> QED
    BY <1>1, <1>2, <1>5, <2>1, FrameMore
<1> QED
  BY <1>2, <1>6, <1>7, RelayGoesOn

LEMMA TooLargeLogs ==
    ASSUME SeqInv, HistoryInv, ProduceTooLarge
    PROVE  HistoryInv'
<1>3. Resnapshot
  BY DEF ProduceTooLarge
<1>4. UNCHANGED <<barred, hubVars, down, toHub, toPhone, phone, bounds>>
  BY DEF ProduceTooLarge
<1>1. Resnapshot /\ UNCHANGED <<barred, hubVars, toHub, toPhone, phone>>
  BY <1>3, <1>4
<1>2. produced' = produced \/ (produced' = produced + 1 /\ produced < MaxItems)
  BY DEF ProduceTooLarge
<1> QED
  BY <1>1, <1>2, ResnapshotLogs

\* sendSnapshot without a new epoch, or any other frame.
LEMMA OldFrames ==
    ASSUME SeqInv, HistoryInv, UNCHANGED <<relayVars, hubVars, toHub, toPhone, phone>>,
           \A i \in 1 .. Len(up') : FrameOK(World, up'[i])
    PROVE  HistoryInv'
<1>1. World' = World
  BY DEF World, relayVars, hubVars
<1>2. Grows(World, World')
  <2>1. WorldOK(World)
    BY DEF HistoryInv
  <2> QED
    BY <1>1, <2>1, GrowsNot
<1>3. RelayNow' /\ BoundsInv'
  BY DEF HistoryInv, RelayNow, BoundsInv, relayVars
<1>4. \A i \in 1 .. Len(up') : FrameOK(World', up'[i])
  BY <1>1
<1>5. UNCHANGED <<hubVars, toHub, toPhone, phone>>
  OBVIOUS
<1> QED
  BY <1>2, <1>3, <1>4, <1>5, RelayGoesOn

\* The frames there are, and one more.
LEMMA OneFrameMore ==
    ASSUME SeqInv, HistoryInv, UNCHANGED <<relayVars, hubVars, toHub, toPhone, phone>>,
           NEW f, FrameOK(World, f), up' = Append(up, f)
    PROVE  HistoryInv'
<1>1. IsChannel(up) /\ \A i \in 1 .. Len(up) : FrameOK(World, up[i])
  BY DEF SeqInv, StreamInv, HistoryInv, FramesInv
<1>2. Grows(World, World)
  BY GrowsNot DEF HistoryInv
<1>3. \A i \in 1 .. Len(up') : FrameOK(World, up'[i])
  BY <1>1, <1>2, FrameMore
<1> QED
  BY <1>3, OldFrames

\* The relay's snapshot, while it is registered, or becomes so.
LEMMA SentSnapshot ==
    ASSUME SeqInv, HistoryInv, relay.open, NEW id
    PROVE  FrameOK(World, Frame("snapshot", relay.epoch, relay.seq, produced, id))
<1>1. relay.epoch # 0 /\ relay.epoch \in 1 .. Len(log) /\ relay.seq = Len(log[relay.epoch])
  BY DEF SeqInv, RelayInv, HistoryInv, RelayNow
<1>2. WorldOK(World) /\ World.log = log /\ World.produced = produced
  BY WorldFields DEF HistoryInv
<1>3. SoundSnapshot(World, relay.epoch, relay.seq, produced)
  BY <1>1, <1>2, SnapshotSound
<1> QED
  BY <1>3, FrameFields DEF FrameOK

LEMMA SnapshotLogs ==
    ASSUME SeqInv, HistoryInv, RelaySnapshot
    PROVE  HistoryInv'
<1> DEFINE f == Frame("snapshot", relay.epoch, relay.seq, produced, 0)
<1>1. relay.open /\ up' = Append(up, f) /\ UNCHANGED <<relayVars, hubVars, toHub, toPhone, phone>>
  BY DEF RelaySnapshot, SnapshotFrame, relayVars, SeqInv, RelayInv
<1>2. FrameOK(World, f)
  BY <1>1, SentSnapshot
<1> HIDE DEF f
<1> QED
  BY <1>1, <1>2, OneFrameMore

LEMMA ProduceLogs ==
    ASSUME SeqInv, HistoryInv, Produce
    PROVE  HistoryInv'
<1> DEFINE w == World
<1> DEFINE w2 == World'
<1>1. /\ UNCHANGED <<hubVars, toHub, toPhone, phone>> /\ rec' = rec
      /\ produced' = produced + 1 /\ produced < MaxItems
  BY DEF Produce, hubVars
<1>2. relay.epoch = Len(log) /\ (relay.open => relay.epoch # 0) /\ (relay.registered => relay.open)
  BY DEF SeqInv, RelayInv
<1>3. IsChannel(up) /\ (\A i \in 1 .. Len(up) : FrameOK(w, up[i])) /\ WorldOK(w)
  BY DEF SeqInv, StreamInv, HistoryInv, FramesInv
<1>4. produced' <= MaxItems
  <2>1. produced \in Nat /\ MaxItems \in Nat
    BY SyncAssumption DEF SeqInv, RelayInv
  <2> QED
    BY <1>1, <2>1
<1>5. CASE relay.registered
  <2> DEFINE f == Frame("event", relay.epoch, relay'.seq, produced', 0)
  <2>1. /\ relay' = [relay EXCEPT !.seq = @ + 1]
        /\ log' = [log EXCEPT ![relay.epoch] = Append(@, produced')]
        /\ up' = Append(up, f) /\ barred' = barred
    BY <1>5 DEF Produce
  <2>2. /\ relay'.open = relay.open /\ relay'.epoch = relay.epoch /\ relay'.seq = relay.seq + 1
        /\ relay'.registered = relay.registered /\ relay.seq \in Nat
    BY <2>1 DEF SeqInv, RelayInv
  <2>3. /\ w.live = relay.epoch /\ w.live # 0 /\ w.log = log /\ w.produced = produced
        /\ w2.log = [w.log EXCEPT ![w.live] = Append(@, w.produced + 1)] /\ w2.live = w.live
        /\ w2.epoch = w.epoch /\ w2.last = w.last /\ w2.barred = w.barred /\ w2.produced = w.produced + 1
        /\ w2.log = log'
    BY <1>1, <1>2, <1>5, <2>1, <2>2, WorldFields, WorldFieldsNext
  <2> HIDE DEF w, w2, f
  <2>4. /\ Grows(w, w2) /\ Len(w2.log) = Len(w.log) /\ Len(w2.log[w.live]) = Len(w.log[w.live]) + 1
        /\ w.live \in 1 .. Len(w.log)
    BY <1>3, <2>3, GrowsEvent
  <2>5. relay.seq = Len(log[relay.epoch])
    BY <1>2, <1>5 DEF HistoryInv, RelayNow
  <2>6. RelayNow'
    BY <1>2, <1>5, <2>2, <2>3, <2>4, <2>5 DEF RelayNow
  <2>7. FrameOK(w2, f)
    <3>1. f.kind = "event" /\ f.epoch = relay.epoch /\ f.seq = relay.seq + 1
      BY <2>2, FrameFields DEF f
    <3>2. f.seq >= 1 /\ Carried(w2, f.epoch, f.seq)
      BY <2>2, <2>3, <2>4, <2>5, <3>1 DEF Carried
    <3> QED
      BY <3>1, <3>2 DEF FrameOK
  <2>8. \A i \in 1 .. Len(up') : FrameOK(w2, up'[i])
    BY <1>3, <2>1, <2>3, <2>4, <2>7, FrameMore
  <2>9. BoundsInv'
    BY <1>4, <2>3, <2>4 DEF HistoryInv, BoundsInv
  <2> QED
    BY <1>1, <2>4, <2>6, <2>8, <2>9, RelayGoesOn DEF w, w2
<1>6. CASE ~relay.registered
  <2>1. /\ barred' = IF relay.open THEN barred \cup {produced'} ELSE barred
        /\ relay' = relay /\ log' = log /\ up' = up
    BY <1>6 DEF Produce
  <2>2. relay.open => Len(log[relay.epoch]) = 0
    <3>1. relay.seq \in Nat
      BY DEF SeqInv, RelayInv
    <3> QED
      BY <1>2, <1>6, <3>1 DEF HistoryInv, RelayNow
  <2>3. /\ w2.log = w.log /\ w2.live = w.live /\ w2.epoch = w.epoch /\ w2.last = w.last
        /\ w2.produced = w.produced + 1
        /\ w2.barred = IF w.live # 0 THEN w.barred \cup {w2.produced} ELSE w.barred
        /\ w.live # 0 => Len(w.log[w.live]) = 0
    <3>1. w.live = (IF relay.open THEN relay.epoch ELSE 0) /\ w.log = log
      BY WorldFields
    <3>2. w.live # 0 => relay.open /\ w.live = relay.epoch
      BY <3>1
    <3>3. w.live # 0 <=> relay.open
      BY <1>2, <3>1
    <3>4. /\ w2.log = w.log /\ w2.live = w.live /\ w2.epoch = w.epoch /\ w2.last = w.last
          /\ w2.produced = w.produced + 1 /\ w2.barred = barred' /\ w.barred = barred /\ w2.produced = produced'
      BY <1>1, <2>1, WorldFields, WorldFieldsNext
    <3> QED
      BY <2>1, <2>2, <3>1, <3>2, <3>3, <3>4
  <2> HIDE DEF w, w2
  <2>4. Grows(w, w2)
    BY <1>3, <2>3, GrowsBarred
  <2>5. RelayNow' /\ BoundsInv'
    BY <1>4, <2>1 DEF HistoryInv, RelayNow, BoundsInv
  <2>6. \A i \in 1 .. Len(up') : FrameOK(w2, up'[i])
    BY <1>3, <2>1, <2>3, <2>4, FramesStay
  <2> QED
    BY <1>1, <2>4, <2>5, <2>6, RelayGoesOn DEF w, w2
<1> QED
  BY <1>5, <1>6

LEMMA RelayReceiveLogs ==
    ASSUME SeqInv, HistoryInv, RelayReceive
    PROVE  HistoryInv'
<1> DEFINE m == Head(down)
<1>1. /\ relay.open /\ UNCHANGED <<hubVars, toHub, toPhone, phone>>
      /\ RelayRegistered(m) \/ RelayAsked(m) \/ RelayResync(m)
  BY DEF RelayReceive
<1> HIDE DEF m
<1>2. CASE RelayRegistered(m) /\ m.epoch # relay.epoch
  <2>1. UNCHANGED <<relayVars, hubVars, toHub, toPhone, phone>> /\ up' = up
    BY <1>1, <1>2 DEF RelayRegistered, relayVars
  <2>2. \A i \in 1 .. Len(up') : FrameOK(World, up'[i])
    BY <2>1 DEF HistoryInv, FramesInv
  <2> QED
    BY <2>1, <2>2, OldFrames
<1>3. CASE RelayRegistered(m) /\ m.epoch = relay.epoch
  <2> DEFINE f == Frame("snapshot", relay.epoch, relay.seq, produced, 0)
  <2>1. /\ relay' = [relay EXCEPT !.registered = TRUE, !.beating = TRUE]
        /\ produced' = produced /\ log' = log /\ barred' = barred /\ rec' = rec
        /\ up' = Append(up, Frame("snapshot", relay'.epoch, relay'.seq, produced', 0))
    BY <1>1, <1>3 DEF RelayRegistered, SnapshotFrame, hubVars
  <2>2. relay'.epoch = relay.epoch /\ relay'.seq = relay.seq /\ relay'.open = relay.open /\ relay'.registered
    BY <2>1 DEF SeqInv, RelayInv
  <2>3. up' = Append(up, f)
    BY <2>1, <2>2
  <2>4. FrameOK(World, f)
    BY <1>1, SentSnapshot
  <2>5. World' = World
    BY <2>1, <2>2 DEF World
  <2>6. IsChannel(up) /\ (\A i \in 1 .. Len(up) : FrameOK(World, up[i])) /\ WorldOK(World)
    BY DEF SeqInv, StreamInv, HistoryInv, FramesInv
  <2> HIDE DEF f
  <2>7. Grows(World, World)
    BY <2>6, GrowsNot
  <2>8. \A i \in 1 .. Len(up') : FrameOK(World', up'[i])
    BY <2>3, <2>4, <2>5, <2>6, <2>7, FrameMore
  <2>9. RelayNow' /\ BoundsInv'
    BY <2>1, <2>2 DEF HistoryInv, RelayNow, BoundsInv
  <2>10. Grows(World, World')
    BY <2>5, <2>7
  <2> QED
    BY <1>1, <2>8, <2>9, <2>10, RelayGoesOn
<1>4. CASE RelayAsked(m)
  <2>1. UNCHANGED <<relayVars, hubVars, toHub, toPhone, phone>>
    BY <1>1, <1>4 DEF RelayAsked
  <2>2. PICK f : up' = Append(up, f) /\ FrameOK(World, f)
    <3>1. CASE relay.registered
      <4>1. up' = Append(up, Frame("snapshot", relay.epoch, relay.seq, produced, m.id))
        BY <1>4, <2>1, <3>1 DEF RelayAsked, SnapshotFrame, relayVars
      <4> QED
        BY <1>1, <4>1, SentSnapshot
    <3>2. CASE ~relay.registered
      <4> DEFINE g == Frame("unavailable", 0, 0, 0, m.id)
      <4>1. up' = Append(up, g)
        BY <1>4, <3>2 DEF RelayAsked
      <4>2. FrameOK(World, g)
        BY FrameFields DEF FrameOK
      <4> QED
        BY <4>1, <4>2
    <3> QED
      BY <3>1, <3>2
  <2> QED
    BY <2>1, <2>2, OneFrameMore
<1>5. CASE RelayResync(m)
  <2>1. Resnapshot /\ UNCHANGED <<barred, hubVars, toHub, toPhone, phone>>
    BY <1>1, <1>5 DEF RelayResync
  <2>2. produced' = produced \/ (produced' = produced + 1 /\ produced < MaxItems)
    BY <1>5 DEF RelayResync
  <2> QED
    BY <2>1, <2>2, ResnapshotLogs
<1> QED
  BY <1>1, <1>2, <1>3, <1>4, <1>5

-----------------------------------------------------------------------------
(* The steps of the hub.                                                   *)

LEMMA Numbers ==
    ASSUME NEW a \in Nat, NEW f, DOMAIN f = 1 .. a
    PROVE  IsFiniteSet({f[i] : i \in 1 .. a}) /\ Cardinality({f[i] : i \in 1 .. a}) \in 0 .. a
<1> DEFINE T == {f[i] : i \in 1 .. a}
<1> DEFINE g == [i \in 1 .. a |-> f[i]]
<1>1. g \in Surjection(1 .. a, T)
  BY DEF Surjection
<1>2. IsFiniteSet(1 .. a)
  BY FS_Interval
<1>3. Cardinality(1 .. a) = a
  <2>1. Cardinality(1 .. a) = IF 1 > a THEN 0 ELSE a - 1 + 1
    BY FS_Interval
  <2> QED
    BY <2>1
<1> HIDE DEF g, T
<1>4. IsFiniteSet(T) /\ Cardinality(T) <= Cardinality(1 .. a)
  BY <1>1, <1>2, FS_Surjection
<1>5. Cardinality(T) \in Nat
  BY <1>4, FS_CardinalityType
<1> QED
  BY <1>3, <1>4, <1>5 DEF T

\* There is a number that no frame carries.
LEMMA FreshNumber ==
    ASSUME IsChannel(up), IsChannel(down)
    PROVE  FreshId \in Nat \ {0}
<1> DEFINE a == Len(up)
<1> DEFINE b == Len(down)
<1> DEFINE f == [i \in 1 .. a |-> up[i].id]
<1> DEFINE g == [i \in 1 .. b |-> down[i].id]
<1> DEFINE U == {f[i] : i \in 1 .. a}
<1> DEFINE D == {g[i] : i \in 1 .. b}
<1> DEFINE all == 1 .. (a + b + 1)
<1>1. a \in Nat /\ b \in Nat /\ DOMAIN up = 1 .. a /\ DOMAIN down = 1 .. b
  BY DEF IsChannel
<1>2. DOMAIN f = 1 .. a /\ DOMAIN g = 1 .. b
  OBVIOUS
<1>3. /\ \A i \in 1 .. a : up[i].id \in U
      /\ \A i \in 1 .. b : down[i].id \in D
  <2>1. (\A i \in 1 .. a : f[i] = up[i].id) /\ (\A i \in 1 .. b : g[i] = down[i].id)
    OBVIOUS
  <2>2. (\A i \in 1 .. a : f[i] \in U) /\ (\A i \in 1 .. b : g[i] \in D)
    OBVIOUS
  <2> QED
    BY <2>1, <2>2
<1>4. FreshId = CHOOSE id \in all : (\A i \in 1 .. a : up[i].id # id) /\ (\A i \in 1 .. b : down[i].id # id)
  BY <1>1 DEF FreshId
<1> HIDE DEF f, g, a, b
<1>5. IsFiniteSet(U) /\ Cardinality(U) \in 0 .. a
  BY <1>1, <1>2, Numbers
<1>6. IsFiniteSet(D) /\ Cardinality(D) \in 0 .. b
  BY <1>1, <1>2, Numbers
<1> HIDE DEF U, D
<1>7. /\ IsFiniteSet(U \cup D)
      /\ Cardinality(U \cup D) = Cardinality(U) + Cardinality(D) - Cardinality(U \cap D)
  BY <1>5, <1>6, FS_Union
<1>8. Cardinality(U \cap D) \in Nat
  <2>1. IsFiniteSet(U \cap D)
    BY <1>5, FS_Subset
  <2> QED
    BY <2>1, FS_CardinalityType
<1>9. Cardinality(U \cup D) <= a + b
  BY <1>1, <1>5, <1>6, <1>7, <1>8
<1>10. Cardinality(all) = a + b + 1
  <2>1. 1 \in Int /\ a + b + 1 \in Int
    BY <1>1
  <2>2. Cardinality(1 .. (a + b + 1)) = IF 1 > a + b + 1 THEN 0 ELSE (a + b + 1) - 1 + 1
    BY <2>1, FS_Interval
  <2> QED
    BY <1>1, <2>2
<1>11. ~(all \subseteq U \cup D)
  <2> SUFFICES ASSUME all \subseteq U \cup D PROVE FALSE
    OBVIOUS
  <2> HIDE DEF all
  <2>1. Cardinality(all) <= Cardinality(U \cup D)
    BY <1>7, FS_Subset
  <2>2. Cardinality(U \cup D) \in Nat
    BY <1>7, FS_CardinalityType
  <2> QED
    BY <1>1, <1>9, <1>10, <2>1, <2>2
<1>12. \E id \in all : (\A i \in 1 .. a : up[i].id # id) /\ (\A i \in 1 .. b : down[i].id # id)
  <2> HIDE DEF all
  <2>1. PICK id \in all : id \notin U \cup D
    BY <1>11
  <2> QED
    BY <1>3, <2>1
<1>13. FreshId \in all
  <2> HIDE DEF all
  <2> QED
    BY <1>4, <1>12
<1> QED
  BY <1>1, <1>13

LEMMA TailFrames ==
    ASSUME NEW w, NEW s, IsChannel(s), s # <<>>, \A i \in 1 .. Len(s) : FrameOK(w, s[i])
    PROVE  /\ FrameOK(w, Head(s)) /\ \A i \in 1 .. Len(Tail(s)) : FrameOK(w, Tail(s)[i])
           /\ \A i \in 1 .. Len(Tail(s)) : i + 1 \in 1 .. Len(s) /\ Tail(s)[i] = s[i + 1]
           /\ Len(s) \in Nat /\ 1 \in 1 .. Len(s) /\ Head(s) = s[1]
<1>1. /\ Len(s) \in Nat /\ Len(s) >= 1 /\ Len(Tail(s)) = Len(s) - 1 /\ Head(s) = s[1]
      /\ \A i \in 1 .. Len(s) - 1 : Tail(s)[i] = s[i + 1]
  BY Tailed
<1>2. \A i \in 1 .. Len(Tail(s)) : i + 1 \in 1 .. Len(s) /\ Tail(s)[i] = s[i + 1]
  BY <1>1
<1>3. 1 \in 1 .. Len(s)
  BY <1>1
<1> QED
  BY <1>1, <1>2, <1>3

LEMMA ScreenStays ==
    ASSUME HistoryInv, Grows(World, World'), toPhone' = toPhone, phone' = phone
    PROVE  ScreenInv'
<1>1. QueueOK(World, toPhone) /\ PhoneOK(World, toPhone, phone) /\ phone.out = <<>>
  BY DEF HistoryInv, ScreenInv
<1>2. QueueOK(World', toPhone) /\ PhoneOK(World', toPhone, phone)
  BY <1>1, QueueStays, PhoneStays
<1> QED
  BY <1>1, <1>2 DEF ScreenInv

LEMMA ScreenTold ==
    ASSUME HistoryInv, Grows(World, World'), NEW xs, Sendable(World', xs), toPhone' = toPhone \o xs,
           phone' = phone
    PROVE  ScreenInv'
<1>1. QueueOK(World, toPhone) /\ PhoneOK(World, toPhone, phone) /\ phone.out = <<>>
  BY DEF HistoryInv, ScreenInv
<1>2. QueueOK(World', toPhone) /\ PhoneOK(World', toPhone, phone) /\ WorldOK(World')
  BY <1>1, QueueStays, PhoneStays DEF Grows
<1>3. QueueOK(World', toPhone \o xs) /\ PhoneOK(World', toPhone \o xs, phone)
  BY <1>2, QueueMore, PhoneMore
<1> QED
  BY <1>1, <1>3 DEF ScreenInv

\* Two or three things at once.
LEMMA ScreenToldTwice ==
    ASSUME HistoryInv, Grows(World, World'), NEW xs, Sendable(World', xs), NEW ys, Sendable(World', ys),
           toPhone' = toPhone \o xs \o ys, phone' = phone
    PROVE  ScreenInv'
<1>1. QueueOK(World, toPhone) /\ PhoneOK(World, toPhone, phone) /\ phone.out = <<>>
  BY DEF HistoryInv, ScreenInv
<1>2. QueueOK(World', toPhone) /\ PhoneOK(World', toPhone, phone) /\ WorldOK(World')
  BY <1>1, QueueStays, PhoneStays DEF Grows
<1>3. QueueOK(World', toPhone \o xs) /\ PhoneOK(World', toPhone \o xs, phone)
  BY <1>2, QueueMore, PhoneMore
<1>4. QueueOK(World', toPhone \o xs \o ys) /\ PhoneOK(World', toPhone \o xs \o ys, phone)
  BY <1>2, <1>3, QueueMore, PhoneMore
<1> QED
  BY <1>1, <1>4 DEF ScreenInv

LEMMA ScreenToldThrice ==
    ASSUME HistoryInv, Grows(World, World'), NEW xs, Sendable(World', xs), NEW ys, Sendable(World', ys),
           NEW zs, Sendable(World', zs), toPhone' = toPhone \o xs \o ys \o zs, phone' = phone
    PROVE  ScreenInv'
<1>1. QueueOK(World, toPhone) /\ PhoneOK(World, toPhone, phone) /\ phone.out = <<>>
  BY DEF HistoryInv, ScreenInv
<1>2. QueueOK(World', toPhone) /\ PhoneOK(World', toPhone, phone) /\ WorldOK(World')
  BY <1>1, QueueStays, PhoneStays DEF Grows
<1>3. QueueOK(World', toPhone \o xs) /\ PhoneOK(World', toPhone \o xs, phone)
  BY <1>2, QueueMore, PhoneMore
<1>4. QueueOK(World', toPhone \o xs \o ys) /\ PhoneOK(World', toPhone \o xs \o ys, phone)
  BY <1>2, <1>3, QueueMore, PhoneMore
<1>5. QueueOK(World', toPhone \o xs \o ys \o zs) /\ PhoneOK(World', toPhone \o xs \o ys \o zs, phone)
  BY <1>2, <1>4, QueueMore, PhoneMore
<1> QED
  BY <1>1, <1>5 DEF ScreenInv

LEMMA QueriesStay ==
    ASSUME HistoryInv, Grows(World, World'), waiting' = waiting \/ waiting' = <<>>
    PROVE  IsChannel(waiting') /\ \A i \in 1 .. Len(waiting') : QueryOK(World', waiting'[i])
<1>1. IsChannel(waiting) /\ \A i \in 1 .. Len(waiting) : QueryOK(World, waiting[i])
  BY DEF HistoryInv, HubInv
<1>2. CASE waiting' = waiting
  BY <1>1, <1>2, QueryStays
<1>3. CASE waiting' = <<>>
  BY <1>3, EmptyChannel
<1> QED
  BY <1>2, <1>3

\* Settling a request, or not.
LEMMA SettleKeeps ==
    ASSUME HistoryInv, Grows(World, World'), NEW id, Settle(id)
    PROVE  /\ asked' \in Nat /\ (waiting' # <<>> => asked' # 0)
           /\ IsChannel(waiting') /\ \A i \in 1 .. Len(waiting') : QueryOK(World', waiting'[i])
<1>1. waiting' = waiting \/ waiting' = <<>>
  BY DEF Settle
<1>2. asked' \in Nat /\ (waiting' # <<>> => asked' # 0)
  BY DEF Settle, HistoryInv, HubInv
<1> QED
  BY <1>1, <1>2, QueriesStay

LEMMA AnswersOK ==
    ASSUME HistoryInv, Grows(World, World'), RecordOK(World', rec', recUpto'), NEW id, NEW ok
    PROVE  Sendable(World', Answers(id, ok))
<1> DEFINE s == waiting
<1> DEFINE r == rec'
<1> DEFINE u == recUpto'
<1> DEFINE w2 == World'
<1> DEFINE as == [i \in DOMAIN s |->
                    IF s[i].kind = "select" THEN SelectAnswer(s[i].gen, TRUE, r)
                    ELSE IF ok THEN SyncAnswer(s[i], r, u)
                    ELSE s[i].answer]
<1>1. Answers(id, ok) = as \/ Answers(id, ok) = <<>>
  BY DEF Answers, Resumed
<1>2. IsChannel(s) /\ \A i \in 1 .. Len(s) : QueryOK(World, s[i])
  BY DEF HistoryInv, HubInv
<1>3. \A i \in 1 .. Len(s) : QueryOK(w2, s[i])
  BY <1>2, QueryStays
<1>4. WorldOK(w2) /\ RecordOK(w2, r, u)
  BY DEF Grows
<1> DEFINE bs == as
<1>5. bs = [i \in DOMAIN s |->
                    IF s[i].kind = "select" THEN SelectAnswer(s[i].gen, TRUE, r)
                    ELSE IF ok THEN SyncAnswer(s[i], r, u)
                    ELSE s[i].answer]
  OBVIOUS
<1>6. Answers(id, ok) = bs \/ Answers(id, ok) = <<>>
  BY <1>1
<1> HIDE DEF s, r, u, w2, as, bs
<1>7. Sendable(w2, bs)
  BY <1>2, <1>3, <1>4, <1>5, AnswersSent
<1>8. Sendable(w2, <<>>)
  BY NothingSent
<1> QED
  BY <1>6, <1>7, <1>8 DEF w2

\* What is said of the source.
LEMMA SourcesSent ==
    ASSUME NEW w, NEW r, NEW u, WorldOK(w), RecordOK(w, r, u)
    PROVE  Sendable(w, Connected(SourcesMsg(r)))
<1> DEFINE m == SourcesMsg(r)
<1>1. m.kind = "sources" /\ m.epoch = r.epoch
  BY DEF SourcesMsg
<1>2. r.epoch = w.epoch /\ r.epoch \in 1 .. w.epoch
  BY RecordMeans DEF RecordOK
<1> HIDE DEF m
<1>3. MsgOK(w, m) /\ (Dates(m) => m.epoch = w.epoch)
  BY <1>1, <1>2 DEF MsgOK
<1>4. Sendable(w, <<m>>) /\ Sendable(w, <<>>)
  BY <1>3, OneSent, NothingSent
<1>5. Connected(m) = <<m>> \/ Connected(m) = <<>>
  BY DEF Connected
<1> QED
  BY <1>4, <1>5 DEF m

LEMMA AnnounceSent ==
    ASSUME NEW w, NEW f
    PROVE  Sendable(w, Subscribed(AnnounceMsg(f)))
<1> DEFINE m == AnnounceMsg(f)
<1>1. m.kind = "announce"
  BY DEF AnnounceMsg
<1> HIDE DEF m
<1>2. MsgOK(w, m) /\ ~Dates(m)
  BY <1>1 DEF MsgOK, Dates
<1>3. Sendable(w, <<m>>) /\ Sendable(w, <<>>)
  BY <1>2, OneSent, NothingSent
<1>4. Subscribed(m) = <<m>> \/ Subscribed(m) = <<>>
  BY DEF Subscribed
<1> QED
  BY <1>3, <1>4 DEF m

LEMMA EventSent ==
    ASSUME NEW w, NEW f, EventOK(w, f)
    PROVE  Sendable(w, Subscribed(EventMsg(f)))
<1> DEFINE m == EventMsg(f)
<1>1. m.kind = "event" /\ m.epoch = f.epoch /\ m.seq = f.seq
  BY DEF EventMsg
<1> HIDE DEF m
<1>2. MsgOK(w, m) /\ ~Dates(m)
  BY <1>1 DEF MsgOK, Dates, EventOK
<1>3. Sendable(w, <<m>>) /\ Sendable(w, <<>>)
  BY <1>2, OneSent, NothingSent
<1>4. Subscribed(m) = <<m>> \/ Subscribed(m) = <<>>
  BY DEF Subscribed
<1> QED
  BY <1>3, <1>4 DEF m

LEMMA NotNone ==
    ASSUME NEW r, SoundRecord(r)
    PROVE  r # NoRecord
<1>1. DOMAIN r = {"epoch", "snapshot", "ring", "lastSeq", "connected"}
  BY RecordFields DEF SoundRecord
<1>2. DOMAIN NoRecord = {"epoch"}
  BY DEF NoRecord
<1> QED
  BY <1>1, <1>2

LEMMA RegisterStartLogs ==
    ASSUME SeqInv, HistoryInv, HubRegisterStart
    PROVE  HistoryInv'
<1>1. /\ up # <<>> /\ Head(up).kind = "register" /\ desk' = "registering" /\ registration' = Head(up)
      /\ up' = Tail(up) /\ rec' = rec /\ recUpto' = recUpto /\ selected' = selected /\ asked' = asked
      /\ waiting' = waiting /\ toHub' = toHub /\ toPhone' = toPhone /\ phone' = phone
      /\ relay' = relay /\ log' = log /\ produced' = produced /\ barred' = barred
  BY DEF HubRegisterStart, relayVars
<1>2. World' = World /\ RelayNow' /\ BoundsInv'
  BY <1>1 DEF World, HistoryInv, RelayNow, BoundsInv
<1>3. FramesInv'
  <2>1. IsChannel(up) /\ \A i \in 1 .. Len(up) : FrameOK(World, up[i])
    BY DEF SeqInv, StreamInv, HistoryInv, FramesInv
  <2>2. FrameOK(World, Head(up)) /\ \A i \in 1 .. Len(Tail(up)) : FrameOK(World, Tail(up)[i])
    BY <1>1, <2>1, TailFrames
  <2> QED
    BY <1>1, <1>2, <2>2 DEF FramesInv
<1>4. RecInv' /\ HubInv' /\ ScreenInv'
  BY <1>1, <1>2 DEF HistoryInv, RecInv, HubInv, ScreenInv
<1> QED
  BY <1>2, <1>3, <1>4 DEF HistoryInv

LEMMA RegisterDoneLogs ==
    ASSUME SeqInv, HistoryInv, HubRegisterDone
    PROVE  HistoryInv'
<1> DEFINE w == World
<1> DEFINE w2 == World'
<1> DEFINE f == registration
<1> DEFINE fresh == NewRecord(f.epoch, TRUE)
<1> DEFINE xs == Connected(SourcesMsg(rec'))
<1>1. /\ desk = "registering" /\ desk' = "registered" /\ registration' = NoFrame
      /\ rec' = SetSnapshot(fresh, f.epoch, 0) /\ recUpto' = f.upto
      /\ toPhone' = toPhone \o xs
      /\ up' = up /\ selected' = selected /\ asked' = asked
      /\ waiting' = waiting /\ toHub' = toHub /\ phone' = phone
      /\ relay' = relay /\ log' = log /\ produced' = produced /\ barred' = barred
  BY DEF HubRegisterDone, relayVars
<1>2. /\ WorldOK(w) /\ f.kind = "register" /\ FrameOK(w, f)
      /\ \A i \in 1 .. Len(up) : FrameOK(w, up[i]) /\ up[i].kind # "register"
  <2>1. \A i \in 1 .. Len(up) : up[i].kind # "register"
    BY <1>1 DEF SeqInv, FrontInv
  <2> QED
    BY <1>1, <2>1 DEF HistoryInv, FramesInv
<1>3. f.seq = 0 /\ w.epoch < f.epoch /\ SoundSnapshot(w, f.epoch, 0, f.upto)
  BY <1>2 DEF FrameOK
<1>4. f.epoch \in 1 .. Len(w.log) /\ f.upto \in 0 .. w.produced /\ Len(w.log) \in Nat /\ Len(w.log[f.epoch]) \in Nat
  BY <1>2, <1>3, WorldTypes DEF SoundSnapshot, Carried
<1> HIDE DEF xs
<1>5. /\ SoundRecord(rec') /\ rec'.epoch = f.epoch /\ rec'.snapshot = [epoch |-> f.epoch, baseSeq |-> 0]
      /\ rec'.lastSeq = 0
  <2>1. f.epoch \in Epochs
    BY <1>4 DEF Epochs
  <2>2. SoundRecord(fresh) /\ fresh.lastSeq = 0
    BY <2>1, FreshRecord DEF NewRecord
  <2> HIDE DEF fresh, f
  <2>3. /\ SoundRecord(rec') /\ rec'.epoch = f.epoch /\ rec'.snapshot = [epoch |-> f.epoch, baseSeq |-> 0]
        /\ rec'.lastSeq = IF fresh.epoch = f.epoch /\ fresh.lastSeq >= 0 THEN fresh.lastSeq ELSE 0
    BY <1>1, <2>1, <2>2, SnapshotStored
  <2> QED
    BY <2>2, <2>3
<1>6. rec' # NoRecord
  BY <1>5, NotNone
<1>7. /\ w2.log = w.log /\ w2.barred = w.barred /\ w2.produced = w.produced /\ w2.live = w.live
      /\ w2.epoch = f.epoch /\ w2.last = 0 /\ w.produced = produced
  BY <1>1, <1>5, <1>6, WorldFields, WorldFieldsNext
<1> HIDE DEF w, w2, f
<1>8. Grows(w, w2)
  <2>1. /\ w2.epoch \in 1 .. Len(w.log) /\ w2.last \in 0 .. Len(w.log[w2.epoch])
        /\ w.epoch <= w2.epoch /\ w.epoch # w2.epoch
    <3>1. w.epoch \in Nat
      BY <1>2, WorldTypes
    <3> QED
      BY <1>3, <1>4, <1>7, <3>1
  <2> QED
    BY <1>2, <1>7, <2>1, GrowsRecord
<1>9. RecordOK(w2, rec', recUpto')
  <2>1. SoundSnapshot(w2, f.epoch, 0, f.upto)
    BY <1>3, <1>8, SnapshotStays
  <2>2. rec'.snapshot # NoSnapshot /\ rec'.snapshot.baseSeq = 0
    BY <1>4, <1>5 DEF NoSnapshot
  <2> QED
    BY <1>1, <1>5, <1>7, <2>1, <2>2 DEF RecordOK
<1>10. Sendable(w2, xs)
  <2>1. WorldOK(w2)
    BY <1>8 DEF Grows
  <2>2. Sendable(w2, Connected(SourcesMsg(rec')))
    BY <1>9, <2>1, SourcesSent
  <2> QED
    BY <2>2 DEF xs
<1>11. ScreenInv'
  BY <1>1, <1>8, <1>10, ScreenTold DEF w, w2
<1>12. \A i \in 1 .. Len(up) : FrameOK(w2, up[i])
  BY <1>2, <1>8, FrameStays
<1>13. FramesInv'
  BY <1>1, <1>12 DEF FramesInv, w2
<1>14. RecInv'
  BY <1>1, <1>4, <1>6, <1>7, <1>9 DEF RecInv, w2
<1>15. HubInv'
  <2>1. IsChannel(waiting') /\ \A i \in 1 .. Len(waiting') : QueryOK(World', waiting'[i])
    BY <1>1, <1>8, QueriesStay DEF w, w2
  <2> QED
    BY <1>1, <1>6, <2>1 DEF HubInv, HistoryInv
<1>16. WorldOK(World') /\ RelayNow' /\ BoundsInv'
  BY <1>1, <1>8 DEF Grows, w2, HistoryInv, RelayNow, BoundsInv
<1> QED
  BY <1>11, <1>13, <1>14, <1>15, <1>16 DEF HistoryInv

\* hub's frame handlers: what they share.
LEMMA HubHandles ==
    ASSUME SeqInv, HistoryInv, up # <<>>, up' = Tail(up),
           UNCHANGED <<relayVars, desk, registration, selected, toHub, phone>>,
           Grows(World, World'), RecInv', ScreenInv', rec' = rec \/ rec' # NoRecord,
           desk # "registered" => rec' = rec,
           asked' \in Nat, waiting' # <<>> => asked' # 0,
           IsChannel(waiting'), \A i \in 1 .. Len(waiting') : QueryOK(World', waiting'[i]),
           rec = NoRecord => asked' = asked /\ waiting' = waiting /\ toPhone' = toPhone
    PROVE  HistoryInv'
<1>1. /\ desk' = desk /\ registration' = registration /\ selected' = selected /\ toHub' = toHub /\ phone' = phone
      /\ relay' = relay /\ log' = log /\ produced' = produced /\ barred' = barred
  BY DEF relayVars
<1>2. WorldOK(World') /\ RelayNow' /\ BoundsInv'
  BY <1>1 DEF Grows, HistoryInv, RelayNow, BoundsInv
<1>3. FramesInv'
  <2>1. IsChannel(up) /\ \A i \in 1 .. Len(up) : FrameOK(World, up[i])
    BY DEF SeqInv, StreamInv, HistoryInv, FramesInv
  <2>2. /\ \A i \in 1 .. Len(Tail(up)) : FrameOK(World, Tail(up)[i])
        /\ \A i \in 1 .. Len(Tail(up)) : i + 1 \in 1 .. Len(up) /\ Tail(up)[i] = up[i + 1]
    BY <2>1, TailFrames
  <2>3. desk # "registered" => World'.epoch = World.epoch
    BY WorldFields, WorldFieldsNext
  <2>4. desk = "registered" => \A i \in 1 .. Len(Tail(up)) : Tail(up)[i].kind # "register"
    BY <2>2 DEF SeqInv, FrontInv
  <2>5. \A i \in 1 .. Len(Tail(up)) : FrameOK(World', Tail(up)[i])
    BY <2>2, <2>3, <2>4, FrameStays
  <2>6. desk = "registering" => registration.kind = "register" /\ FrameOK(World', registration)
    <3>1. desk = "registering" => registration.kind = "register" /\ FrameOK(World, registration)
      BY DEF HistoryInv, FramesInv
    <3> QED
      BY <2>3, <3>1, FrameStays
  <2>7. desk \in {"none", "registering", "registered"} /\ (desk # "registering" => registration = NoFrame)
    BY DEF HistoryInv, FramesInv
  <2> QED
    BY <1>1, <2>5, <2>6, <2>7 DEF FramesInv
<1>4. HubInv'
  BY <1>1 DEF HistoryInv, HubInv
<1> QED
  BY <1>2, <1>3, <1>4 DEF HistoryInv

LEMMA RefuseLogs ==
    ASSUME SeqInv, HistoryInv, HubReceive, HubRefuse(Head(up))
    PROVE  HistoryInv'
<1>1. /\ up # <<>> /\ up' = Tail(up) /\ UNCHANGED <<relayVars, desk, registration, selected, toHub, phone>>
      /\ rec' = rec /\ recUpto' = recUpto /\ asked' = asked /\ waiting' = waiting /\ toPhone' = toPhone
  BY DEF HubReceive, HubRefuse
<1>2. World' = World /\ phone' = phone /\ desk' = desk /\ produced' = produced
  BY <1>1 DEF World, relayVars
<1>3. Grows(World, World')
  <2>1. WorldOK(World)
    BY DEF HistoryInv
  <2> QED
    BY <1>2, <2>1, GrowsNot
<1>4. RecInv' /\ ScreenInv'
  BY <1>1, <1>2 DEF HistoryInv, RecInv, ScreenInv
<1>5. /\ asked' \in Nat /\ (waiting' # <<>> => asked' # 0)
      /\ IsChannel(waiting') /\ \A i \in 1 .. Len(waiting') : QueryOK(World', waiting'[i])
  BY <1>1, <1>2 DEF HistoryInv, HubInv
<1> QED
  BY <1>1, <1>3, <1>4, <1>5, HubHandles

LEMMA UnavailableLogs ==
    ASSUME SeqInv, HistoryInv, HubReceive, HubUnavailable(Head(up))
    PROVE  HistoryInv'
<1> DEFINE m == Head(up)
<1> DEFINE xs == Answers(m.id, FALSE)
<1>1. /\ up # <<>> /\ up' = Tail(up) /\ UNCHANGED <<relayVars, desk, registration, selected, toHub, phone>>
      /\ rec' = rec /\ recUpto' = recUpto /\ desk = "registered" /\ Settle(m.id) /\ toPhone' = toPhone \o xs
  BY DEF HubReceive, HubUnavailable
<1>2. World' = World /\ phone' = phone /\ desk' = desk /\ produced' = produced
  BY <1>1 DEF World, relayVars
<1>3. Grows(World, World')
  <2>1. WorldOK(World)
    BY DEF HistoryInv
  <2> QED
    BY <1>2, <2>1, GrowsNot
<1>4. RecInv'
  BY <1>1, <1>2 DEF HistoryInv, RecInv
<1>5. rec # NoRecord /\ RecordOK(World', rec', recUpto')
  BY <1>1, <1>2 DEF HistoryInv, RecInv
<1>6. Sendable(World', xs)
  BY <1>3, <1>5, AnswersOK
<1>7. /\ asked' \in Nat /\ (waiting' # <<>> => asked' # 0)
      /\ IsChannel(waiting') /\ \A i \in 1 .. Len(waiting') : QueryOK(World', waiting'[i])
  BY <1>1, <1>3, SettleKeeps
<1> HIDE DEF xs, m
<1>8. ScreenInv'
  BY <1>1, <1>2, <1>3, <1>6, ScreenTold
<1> QED
  BY <1>1, <1>3, <1>4, <1>5, <1>7, <1>8, HubHandles

LEMMA HubSnapshotLogs ==
    ASSUME SeqInv, HistoryInv, HubReceive, HubSnapshot(Head(up))
    PROVE  HistoryInv'
<1> DEFINE m == Head(up)
<1> DEFINE w == World
<1> DEFINE w2 == World'
<1> DEFINE xs == Subscribed(AnnounceMsg(m))
<1> DEFINE ys == Connected(SourcesMsg(rec'))
<1> DEFINE zs == Answers(m.id, TRUE)
<1>1. /\ up # <<>> /\ up' = Tail(up) /\ UNCHANGED <<relayVars, desk, registration, selected, toHub, phone>>
      /\ m.kind = "snapshot" /\ desk = "registered" /\ rec' = SetSnapshot(rec, m.epoch, m.seq)
      /\ recUpto' = m.upto /\ Settle(m.id) /\ toPhone' = toPhone \o xs \o ys \o zs
      /\ phone' = phone /\ desk' = desk
  BY DEF HubReceive, HubSnapshot
<1> HIDE DEF xs, ys, zs
<1>2. /\ relay' = relay /\ log' = log /\ produced' = produced /\ barred' = barred
  BY <1>1 DEF relayVars
<1>3. /\ WorldOK(w) /\ FrameOK(w, m) /\ rec # NoRecord /\ RecordOK(w, rec, recUpto)
      /\ rec.epoch <= m.epoch
  <2>1. IsChannel(up) /\ \A i \in 1 .. Len(up) : FrameOK(World, up[i])
    BY DEF SeqInv, StreamInv, HistoryInv, FramesInv
  <2>2. FrameOK(World, Head(up)) /\ 1 \in 1 .. Len(up) /\ Head(up) = up[1]
    BY <1>1, <2>1, TailFrames
  <2>3. Linked(up, rec.epoch, rec.lastSeq, relay.epoch, relay.seq)
    BY <1>1 DEF SeqInv, FrontInv
  <2>4. rec.epoch <= up[1].epoch
    BY <1>1, <2>2, <2>3 DEF Linked, Carries
  <2>5. WorldOK(World) /\ rec # NoRecord /\ RecordOK(World, rec, recUpto)
    BY <1>1 DEF HistoryInv, RecInv
  <2> QED
    BY <2>2, <2>4, <2>5
<1>4. SoundSnapshot(w, m.epoch, m.seq, m.upto)
  BY <1>1, <1>3 DEF FrameOK
<1>5. /\ m.epoch \in 1 .. Len(w.log) /\ m.upto \in 0 .. w.produced /\ Len(w.log) \in Nat
      /\ Len(w.log[m.epoch]) \in Nat /\ m.seq \in 0 .. Len(w.log[m.epoch])
  BY <1>3, <1>4, WorldTypes DEF SoundSnapshot, Carried
<1>6. /\ SoundRecord(rec') /\ rec'.epoch = m.epoch /\ rec'.snapshot = [epoch |-> m.epoch, baseSeq |-> m.seq]
      /\ rec'.lastSeq = IF rec.epoch = m.epoch /\ rec.lastSeq >= m.seq THEN rec.lastSeq ELSE m.seq
  <2>1. m.epoch \in Epochs /\ m.seq \in Nat /\ SoundRecord(rec)
    BY <1>3, <1>5 DEF Epochs, RecordOK
  <2> HIDE DEF m
  <2> QED
    BY <1>1, <2>1, SnapshotStored
<1>7. rec' # NoRecord
  BY <1>6, NotNone
<1>8. /\ w2.log = w.log /\ w2.barred = w.barred /\ w2.produced = w.produced /\ w2.live = w.live
      /\ w2.epoch = m.epoch /\ w2.last = rec'.lastSeq /\ w.produced = produced
      /\ w.epoch = rec.epoch /\ w.last = rec.lastSeq
  BY <1>2, <1>3, <1>6, <1>7, WorldFields, WorldFieldsNext
<1> HIDE DEF w, w2, m
<1>9. Grows(w, w2)
  <2>1. w.last \in Nat /\ (w.epoch # 0 => w.last <= Len(w.log[w.epoch])) /\ m.epoch # 0
    BY <1>3, <1>5, WorldTypes DEF WorldOK
  <2>2. w2.epoch \in 1 .. Len(w.log) /\ w.epoch <= w2.epoch
    BY <1>3, <1>5, <1>8
  <2>3. w2.last \in 0 .. Len(w.log[w2.epoch]) /\ (w.epoch = w2.epoch => w.last <= w2.last)
    BY <1>5, <1>6, <1>8, <2>1
  <2> QED
    BY <1>3, <1>8, <2>2, <2>3, GrowsRecord
<1>10. RecordOK(w2, rec', recUpto')
  <2>1. SoundSnapshot(w2, m.epoch, m.seq, m.upto)
    BY <1>4, <1>9, SnapshotStays
  <2>2. rec'.snapshot # NoSnapshot /\ rec'.snapshot.baseSeq = m.seq
    BY <1>5, <1>6 DEF NoSnapshot
  <2> QED
    BY <1>1, <1>6, <1>8, <2>1, <2>2 DEF RecordOK
<1>11. Sendable(w2, xs) /\ Sendable(w2, ys) /\ Sendable(w2, zs)
  <2>1. WorldOK(w2)
    BY <1>9 DEF Grows
  <2>2. Sendable(w2, xs)
    BY AnnounceSent DEF xs
  <2>3. Sendable(w2, ys)
    BY <1>10, <2>1, SourcesSent DEF ys
  <2>4. Sendable(w2, zs)
    BY <1>9, <1>10, AnswersOK DEF zs, w, w2
  <2> QED
    BY <2>2, <2>3, <2>4
<1>12. ScreenInv'
  <2>1. toPhone' = toPhone \o xs \o ys \o zs
    BY <1>1
  <2> QED
    BY <1>1, <1>9, <1>11, <2>1, ScreenToldThrice DEF w, w2
<1>13. RecInv'
  BY <1>1, <1>2, <1>5, <1>7, <1>8, <1>10 DEF RecInv, w2
<1>14. /\ asked' \in Nat /\ (waiting' # <<>> => asked' # 0)
       /\ IsChannel(waiting') /\ \A i \in 1 .. Len(waiting') : QueryOK(World', waiting'[i])
  BY <1>1, <1>9, SettleKeeps DEF w, w2
<1>15. Grows(World, World')
  BY <1>9 DEF w, w2
<1> QED
  BY <1>1, <1>3, <1>7, <1>12, <1>13, <1>14, <1>15, HubHandles

LEMMA HubEventLogs ==
    ASSUME SeqInv, HistoryInv, HubReceive, HubEvent(Head(up))
    PROVE  HistoryInv'
<1> DEFINE m == Head(up)
<1> DEFINE w == World
<1> DEFINE w2 == World'
<1>1. /\ up # <<>> /\ up' = Tail(up) /\ UNCHANGED <<relayVars, desk, registration, selected, toHub, phone>>
      /\ m.kind = "event" /\ desk = "registered"
      /\ phone' = phone /\ desk' = desk /\ recUpto' = recUpto /\ asked' = asked /\ waiting' = waiting
  BY DEF HubReceive, HubEvent
<1>2. /\ relay' = relay /\ log' = log /\ produced' = produced /\ barred' = barred
  BY <1>1 DEF relayVars
<1>3. WorldOK(w) /\ FrameOK(w, m) /\ rec # NoRecord /\ RecordOK(w, rec, recUpto) /\ recUpto \in 0 .. produced
  <2>1. IsChannel(up) /\ \A i \in 1 .. Len(up) : FrameOK(World, up[i])
    BY DEF SeqInv, StreamInv, HistoryInv, FramesInv
  <2>2. FrameOK(World, Head(up))
    BY <1>1, <2>1, TailFrames
  <2> QED
    BY <1>1, <2>2 DEF HistoryInv, RecInv
<1>4. CASE Accepts(rec, m.epoch, m.seq)
  <2> DEFINE xs == Subscribed(EventMsg(m))
  <2>1. rec' = RecordDesktopEvent(rec, rec.epoch, m.seq, 0) /\ toPhone' = toPhone \o xs /\ m.epoch = rec.epoch
        /\ m.seq = rec.lastSeq + 1
    BY <1>4 DEF HubEvent, Accepts
  <2> HIDE DEF xs
  <2>2. m.seq >= 1 /\ Carried(w, m.epoch, m.seq)
    BY <1>1, <1>3 DEF FrameOK
  <2>3. SoundRecord(rec) /\ rec.snapshot # NoSnapshot /\ SoundSnapshot(w, rec.epoch, rec.snapshot.baseSeq, recUpto)
    BY <1>3 DEF RecordOK
  <2>4. rec.lastSeq \in Nat /\ rec.epoch \in Nat
    BY <2>3 DEF SoundRecord, IsRecord, Epochs
  <2> HIDE DEF m
  <2>5. /\ SoundRecord(rec') /\ rec'.epoch = rec.epoch /\ rec'.lastSeq = m.seq /\ rec'.snapshot = rec.snapshot
    BY <2>1, <2>3, NextEventRecorded
  <2>6. rec' # NoRecord
    BY <2>5, NotNone
  <2>7. /\ w2.log = w.log /\ w2.barred = w.barred /\ w2.produced = w.produced /\ w2.live = w.live
        /\ w2.epoch = m.epoch /\ w2.last = m.seq
        /\ w.epoch = rec.epoch /\ w.last = rec.lastSeq
    BY <1>2, <1>3, <2>1, <2>5, <2>6, WorldFields, WorldFieldsNext
  <2> HIDE DEF w, w2
  <2>8. Grows(w, w2)
    <3>1. m.epoch \in 1 .. Len(w.log) /\ m.seq \in 0 .. Len(w.log[m.epoch])
      BY <2>2 DEF Carried
    <3>2. /\ w2.epoch \in 1 .. Len(w.log) /\ w.epoch <= w2.epoch
          /\ w2.last \in 0 .. Len(w.log[w2.epoch]) /\ (w.epoch = w2.epoch => w.last <= w2.last)
      BY <2>1, <2>4, <2>7, <3>1
    <3> QED
      BY <1>3, <2>7, <3>2, GrowsRecord
  <2>9. RecordOK(w2, rec', recUpto')
    <3>1. SoundSnapshot(w2, rec.epoch, rec.snapshot.baseSeq, recUpto)
      BY <2>3, <2>8, SnapshotStays
    <3> QED
      BY <1>1, <2>1, <2>3, <2>5, <2>7, <3>1 DEF RecordOK
  <2>10. EventOK(w2, m)
    <3>1. Carried(w2, m.epoch, m.seq)
      BY <2>2, <2>8, CarriedStays
    <3>2. m.epoch <= w2.epoch /\ m.seq <= w2.last
      BY <2>1, <2>4, <2>7
    <3> QED
      BY <2>2, <3>1, <3>2 DEF EventOK, Recorded
  <2>11. Sendable(w2, xs)
    BY <2>10, EventSent DEF xs
  <2>12. ScreenInv'
    BY <1>1, <2>1, <2>8, <2>11, ScreenTold DEF w, w2
  <2>13. RecInv'
    BY <1>1, <1>2, <1>3, <2>6, <2>9 DEF RecInv, w2
  <2>14. /\ asked' \in Nat /\ (waiting' # <<>> => asked' # 0)
         /\ IsChannel(waiting') /\ \A i \in 1 .. Len(waiting') : QueryOK(World', waiting'[i])
    <3>1. asked' \in Nat /\ (waiting' # <<>> => asked' # 0)
      BY <1>1 DEF HistoryInv, HubInv
    <3> QED
      BY <1>1, <2>8, <3>1, QueriesStay DEF w, w2
  <2>15. Grows(World, World')
    BY <2>8 DEF w, w2
  <2> QED
    BY <1>1, <1>3, <2>6, <2>12, <2>13, <2>14, <2>15, HubHandles
<1>5. CASE ~Accepts(rec, m.epoch, m.seq)
  <2>1. rec' = rec /\ toPhone' = toPhone
    BY <1>5 DEF HubEvent
  <2>2. World' = World
    BY <1>2, <2>1 DEF World
  <2>3. Grows(World, World')
    BY <1>3, <2>2, GrowsNot
  <2>4. RecInv' /\ ScreenInv'
    BY <1>1, <1>2, <2>1, <2>2 DEF HistoryInv, RecInv, ScreenInv
  <2>5. /\ asked' \in Nat /\ (waiting' # <<>> => asked' # 0)
        /\ IsChannel(waiting') /\ \A i \in 1 .. Len(waiting') : QueryOK(World', waiting'[i])
    BY <1>1, <2>2 DEF HistoryInv, HubInv
  <2> QED
    BY <1>1, <1>3, <2>1, <2>3, <2>4, <2>5, HubHandles
<1> QED
  BY <1>4, <1>5

\* A step of the hub that neither reads a frame nor changes the record.
LEMMA HubElsewhere ==
    ASSUME SeqInv, HistoryInv, UNCHANGED <<relayVars, desk, registration, rec, recUpto, up>>,
           ScreenInv', HubInv'
    PROVE  HistoryInv'
<1>1. /\ relay' = relay /\ log' = log /\ produced' = produced /\ barred' = barred
      /\ desk' = desk /\ registration' = registration /\ rec' = rec /\ recUpto' = recUpto /\ up' = up
  BY DEF relayVars
<1>2. World' = World
  BY <1>1 DEF World
<1>3. WorldOK(World') /\ RelayNow' /\ BoundsInv'
  BY <1>1, <1>2 DEF HistoryInv, RelayNow, BoundsInv
<1>4. FramesInv' /\ RecInv'
  BY <1>1, <1>2 DEF HistoryInv, FramesInv, RecInv
<1> QED
  BY <1>3, <1>4 DEF HistoryInv

LEMMA WorldStays ==
    ASSUME HistoryInv, UNCHANGED <<relayVars, rec>>
    PROVE  World' = World /\ Grows(World, World') /\ WorldOK(World')
<1>1. World' = World
  BY DEF World, relayVars
<1>2. WorldOK(World)
  BY DEF HistoryInv
<1> QED
  BY <1>1, <1>2, GrowsNot

LEMMA AskTimeoutLogs ==
    ASSUME SeqInv, HistoryInv, HubAskTimeout
    PROVE  HistoryInv'
<1> DEFINE xs == Answers(asked, FALSE)
<1>1. /\ asked # 0 /\ Settle(asked) /\ toPhone' = toPhone \o xs
      /\ UNCHANGED <<relayVars, desk, registration, rec, recUpto, up>>
      /\ rec' = rec /\ recUpto' = recUpto /\ selected' = selected /\ phone' = phone /\ toHub' = toHub
  BY DEF HubAskTimeout
<1>2. World' = World /\ Grows(World, World')
  BY <1>1, WorldStays
<1>3. rec # NoRecord /\ RecordOK(World', rec', recUpto')
  BY <1>1, <1>2 DEF HistoryInv, RecInv, HubInv
<1>4. Sendable(World', xs)
  BY <1>2, <1>3, AnswersOK
<1>5. /\ asked' \in Nat /\ (waiting' # <<>> => asked' # 0)
      /\ IsChannel(waiting') /\ \A i \in 1 .. Len(waiting') : QueryOK(World', waiting'[i])
  BY <1>1, <1>2, SettleKeeps
<1> HIDE DEF xs
<1>6. ScreenInv'
  BY <1>1, <1>2, <1>4, ScreenTold
<1>7. HubInv'
  BY <1>1, <1>3, <1>5 DEF HistoryInv, HubInv
<1> QED
  BY <1>1, <1>6, <1>7, HubElsewhere

\* An answer at once.
LEMMA AnsweredAtOnce ==
    ASSUME HistoryInv, UNCHANGED <<relayVars, rec>>, NEW m, MsgOK(World, m), Dates(m) => m.epoch = World.epoch,
           toPhone' = Append(toPhone, m), phone' = phone
    PROVE  ScreenInv'
<1>1. World' = World /\ Grows(World, World')
  BY WorldStays
<1>2. Sendable(World', <<m>>)
  BY <1>1, OneSent
<1>3. toPhone' = toPhone \o <<m>>
  <2>1. PICK S : toPhone \in Seq(S)
    BY DEF HistoryInv, ScreenInv, QueueOK, IsChannel
  <2> QED
    BY <2>1
<1> QED
  BY <1>1, <1>2, <1>3, ScreenTold

\* A request that waits.
LEMMA AskKeeps ==
    ASSUME SeqInv, HistoryInv, UNCHANGED <<relayVars, rec>>, NEW q, QueryOK(World, q), Ask(q), phone' = phone
    PROVE  /\ asked' \in Nat /\ asked' # 0 /\ ScreenInv'
           /\ IsChannel(waiting') /\ \A i \in 1 .. Len(waiting') : QueryOK(World', waiting'[i])
<1>1. World' = World /\ Grows(World, World')
  BY WorldStays
<1>2. waiting' = Append(waiting, q) /\ toPhone' = toPhone
  BY DEF Ask
<1>3. asked' \in Nat /\ asked' # 0
  <2>1. asked \in Nat
    BY DEF HistoryInv, HubInv
  <2>2. FreshId \in Nat \ {0}
    BY FreshNumber DEF SeqInv, StreamInv, AnswerInv
  <2> QED
    BY <2>1, <2>2 DEF Ask
<1>4. ScreenInv'
  BY <1>1, <1>2, ScreenStays
<1>5. IsChannel(waiting) /\ \A i \in 1 .. Len(waiting) : QueryOK(World, waiting[i])
  BY DEF HistoryInv, HubInv
<1>6. /\ IsChannel(waiting') /\ Len(waiting) \in Nat /\ Len(waiting') = Len(waiting) + 1
      /\ waiting'[Len(waiting) + 1] = q /\ \A i \in 1 .. Len(waiting) : waiting'[i] = waiting[i]
  BY <1>2, <1>5, Appended
<1>7. \A i \in 1 .. Len(waiting') : i \in 1 .. Len(waiting) \/ i = Len(waiting) + 1
  BY <1>6
<1>8. \A i \in 1 .. Len(waiting') : QueryOK(World', waiting'[i])
  BY <1>1, <1>5, <1>6, <1>7
<1> QED
  BY <1>3, <1>4, <1>6, <1>8

LEMMA SelectLogs ==
    ASSUME SeqInv, HistoryInv, HubRequest, HubSelect(Head(toHub))
    PROVE  HistoryInv'
<1> DEFINE q == Head(toHub)
<1>1. /\ toHub # <<>> /\ UNCHANGED <<relayVars, desk, registration, rec, recUpto, up>> /\ UNCHANGED <<relayVars, rec>>
      /\ rec' = rec /\ phone' = phone /\ toHub' = Tail(toHub) /\ q.kind = "select" /\ HubSelect(q)
  BY DEF HubRequest, HubSelect
<1> HIDE DEF q
<1>2. rec # NoRecord /\ RecordOK(World, rec, recUpto) /\ WorldOK(World)
  BY <1>1 DEF HistoryInv, HubInv, RecInv
<1>3. World' = World
  BY <1>1, WorldStays
<1>4. rec.epoch = World.epoch /\ rec.epoch \in 1 .. World.epoch
  BY <1>2, RecordMeans DEF RecordOK
<1>5. ASSUME NEW ok PROVE MsgOK(World, SelectAnswer(q.gen, ok, rec)) /\ SelectAnswer(q.gen, ok, rec).epoch = World.epoch
  <2> DEFINE m == SelectAnswer(q.gen, ok, rec)
  <2>1. m.kind = "selected" /\ m.epoch = rec.epoch
    BY DEF SelectAnswer
  <2> HIDE DEF m
  <2>2. MsgOK(World, m) /\ m.epoch = World.epoch
    BY <1>4, <2>1 DEF MsgOK
  <2> QED
    BY <2>2 DEF m
<1>6. /\ asked \in Nat /\ selected \in BOOLEAN /\ (waiting # <<>> => asked # 0)
      /\ IsChannel(waiting) /\ \A i \in 1 .. Len(waiting) : QueryOK(World, waiting[i])
  BY DEF HistoryInv, HubInv
<1>7. CASE ~rec.connected
  <2>1. toPhone' = Append(toPhone, SelectAnswer(q.gen, FALSE, rec)) /\ UNCHANGED <<selected, asked, waiting>>
    BY <1>1, <1>7 DEF HubSelect
  <2>2. ScreenInv'
    BY <1>1, <1>5, <2>1, AnsweredAtOnce
  <2>3. HubInv'
    BY <1>1, <1>2, <1>3, <1>6, <2>1 DEF HubInv
  <2> QED
    BY <1>1, <2>2, <2>3, HubElsewhere
<1>8. CASE rec.connected /\ Ask(q)
  <2>1. selected' = TRUE
    BY <1>1, <1>8 DEF HubSelect
  <2>2. QueryOK(World, q)
    BY <1>1 DEF QueryOK
  <2>3. /\ asked' \in Nat /\ asked' # 0 /\ ScreenInv'
        /\ IsChannel(waiting') /\ \A i \in 1 .. Len(waiting') : QueryOK(World', waiting'[i])
    BY <1>1, <1>8, <2>2, AskKeeps
  <2>4. HubInv'
    BY <1>1, <1>2, <2>1, <2>3 DEF HubInv
  <2> QED
    BY <1>1, <2>3, <2>4, HubElsewhere
<1>9. CASE rec.connected /\ toPhone' = Append(toPhone, SelectAnswer(q.gen, TRUE, rec)) /\ UNCHANGED <<asked, waiting>>
  <2>1. selected' = TRUE
    BY <1>1, <1>9 DEF HubSelect
  <2>2. ScreenInv'
    BY <1>1, <1>5, <1>9, AnsweredAtOnce
  <2>3. HubInv'
    BY <1>1, <1>2, <1>3, <1>6, <1>9, <2>1 DEF HubInv
  <2> QED
    BY <1>1, <2>2, <2>3, HubElsewhere
<1>10. \/ ~rec.connected \/ (rec.connected /\ Ask(q))
       \/ (rec.connected /\ toPhone' = Append(toPhone, SelectAnswer(q.gen, TRUE, rec)) /\ UNCHANGED <<asked, waiting>>)
  BY <1>1 DEF HubSelect
<1> QED
  BY <1>7, <1>8, <1>9, <1>10

LEMMA SyncLogs ==
    ASSUME SeqInv, HistoryInv, HubRequest, HubSync(Head(toHub))
    PROVE  HistoryInv'
<1> DEFINE q == Head(toHub)
<1> DEFINE a == SyncAnswer(q, rec, recUpto)
<1> DEFINE later == [kind |-> "sync", gen |-> q.gen, epoch |-> q.epoch, seq |-> q.seq, answer |-> a]
<1>1. /\ toHub # <<>> /\ UNCHANGED <<relayVars, desk, registration, rec, recUpto, up>> /\ UNCHANGED <<relayVars, rec>>
      /\ rec' = rec /\ phone' = phone /\ toHub' = Tail(toHub) /\ selected' = selected
  BY DEF HubRequest, HubSync
<1>2. \/ toPhone' = Append(toPhone, SyncRefusal(q)) /\ UNCHANGED <<asked, waiting>>
      \/ Ask(later)
      \/ toPhone' = Append(toPhone, a) /\ UNCHANGED <<asked, waiting>>
  BY DEF HubSync
<1>3. rec # NoRecord /\ RecordOK(World, rec, recUpto) /\ WorldOK(World)
  BY <1>1 DEF HistoryInv, HubInv, RecInv
<1>4. World' = World
  BY <1>1, WorldStays
<1>5. AnswerOK(World, a) /\ a.kind = "synced"
  BY <1>3, AnswerSound
<1>6. later.answer = a
  OBVIOUS
<1> DEFINE b == SyncRefusal(q)
<1>7. b.kind = "synced" /\ ~b.ok
  BY DEF SyncRefusal
<1>8. \/ toPhone' = Append(toPhone, b) /\ UNCHANGED <<asked, waiting>>
      \/ Ask(later)
      \/ toPhone' = Append(toPhone, a) /\ UNCHANGED <<asked, waiting>>
  BY <1>2
<1> HIDE DEF q, a, b, later
<1>9. MsgOK(World, a) /\ ~Dates(a)
  BY <1>5 DEF MsgOK, Dates
<1>10. MsgOK(World, b) /\ ~Dates(b)
  BY <1>7 DEF MsgOK, Dates, AnswerOK
<1>11. /\ asked \in Nat /\ selected \in BOOLEAN /\ (waiting # <<>> => asked # 0)
       /\ IsChannel(waiting) /\ \A i \in 1 .. Len(waiting) : QueryOK(World, waiting[i])
  BY DEF HistoryInv, HubInv
<1>12. ASSUME NEW m, MsgOK(World, m), ~Dates(m), toPhone' = Append(toPhone, m), UNCHANGED <<asked, waiting>>
       PROVE  HistoryInv'
  <2>1. ScreenInv'
    BY <1>1, <1>12, AnsweredAtOnce
  <2>2. HubInv'
    BY <1>1, <1>3, <1>4, <1>11, <1>12 DEF HubInv
  <2> QED
    BY <1>1, <2>1, <2>2, HubElsewhere
<1>13. CASE Ask(later)
  <2>1. QueryOK(World, later)
    BY <1>5, <1>6 DEF QueryOK
  <2>2. /\ asked' \in Nat /\ asked' # 0 /\ ScreenInv'
        /\ IsChannel(waiting') /\ \A i \in 1 .. Len(waiting') : QueryOK(World', waiting'[i])
    BY <1>1, <1>13, <2>1, AskKeeps
  <2>3. HubInv'
    BY <1>1, <1>3, <1>11, <2>2 DEF HubInv
  <2> QED
    BY <1>1, <2>2, <2>3, HubElsewhere
<1> QED
  BY <1>8, <1>9, <1>10, <1>12, <1>13

\* The relay's socket closes.
LEMMA CloseLogs ==
    ASSUME SeqInv, HistoryInv, RelayClose
    PROVE  HistoryInv'
<1> DEFINE w == World
<1> DEFINE w2 == World'
<1>1. /\ relay' = [relay EXCEPT !.open = FALSE, !.registered = FALSE, !.beating = FALSE]
      /\ up' = <<>> /\ desk' = "none" /\ registration' = NoFrame
      /\ produced' = produced /\ log' = log /\ barred' = barred /\ recUpto' = recUpto /\ selected' = selected
      /\ toHub' = toHub /\ phone' = phone
  BY DEF RelayClose
<1>2. ~relay'.open /\ relay'.epoch = relay.epoch /\ relay'.seq = relay.seq
  BY <1>1 DEF SeqInv, RelayInv
<1>3. RelayNow' /\ BoundsInv'
  BY <1>1, <1>2 DEF HistoryInv, RelayNow, BoundsInv
<1>4. FramesInv'
  <2>1. Len(up') = 0
    BY <1>1
  <2> QED
    BY <1>1, <2>1 DEF FramesInv
<1>5. WorldOK(w)
  BY DEF HistoryInv
<1>6. CASE desk = "registered"
  <2> DEFINE xs == Connected(SourcesMsg(rec'))
  <2> DEFINE ys == Answers(0, FALSE)
  <2>1. /\ rec' = [rec EXCEPT !.connected = FALSE] /\ Settle(0) /\ toPhone' = toPhone \o xs \o ys
    BY <1>6 DEF RelayClose
  <2>2. rec # NoRecord /\ RecordOK(w, rec, recUpto) /\ recUpto \in 0 .. produced
    BY <1>6 DEF HistoryInv, RecInv
  <2> HIDE DEF xs, ys
  <2>3. SoundRecord(rec') /\ rec'.epoch = rec.epoch /\ rec'.lastSeq = rec.lastSeq /\ rec'.snapshot = rec.snapshot
    BY <2>1, <2>2, FlaggedRecord DEF RecordOK
  <2>4. rec' # NoRecord
    BY <2>3, NotNone
  <2>5. /\ w2.log = w.log /\ w2.barred = w.barred /\ w2.produced = w.produced /\ w2.live = 0
        /\ w2.epoch = w.epoch /\ w2.last = w.last
    BY <1>1, <1>2, <2>2, <2>3, <2>4, WorldFields, WorldFieldsNext
  <2> HIDE DEF w, w2
  <2>6. Grows(w, w2)
    BY <1>5, <2>5, GrowsClosed
  <2>7. RecordOK(w2, rec', recUpto')
    <3>1. RecordOK(w2, rec, recUpto)
      BY <2>2, <2>5, <2>6, RecordStays
    <3> QED
      BY <1>1, <2>3, <3>1 DEF RecordOK
  <2>8. Sendable(w2, xs) /\ Sendable(w2, ys)
    <3>1. Sendable(w2, xs)
      BY <2>6, <2>7, SourcesSent DEF xs, Grows
    <3>2. Sendable(w2, ys)
      BY <2>6, <2>7, AnswersOK DEF ys, w, w2
    <3> QED
      BY <3>1, <3>2
  <2>9. ScreenInv'
    BY <1>1, <2>1, <2>6, <2>8, ScreenToldTwice DEF w, w2
  <2>10. RecInv'
    BY <1>1, <2>2, <2>4, <2>7 DEF RecInv, w2
  <2>11. HubInv'
    <3>1. /\ asked' \in Nat /\ (waiting' # <<>> => asked' # 0)
          /\ IsChannel(waiting') /\ \A i \in 1 .. Len(waiting') : QueryOK(World', waiting'[i])
      BY <2>1, <2>6, SettleKeeps DEF w, w2
    <3> QED
      BY <1>1, <2>4, <3>1 DEF HistoryInv, HubInv
  <2>12. WorldOK(World')
    BY <2>6 DEF Grows, w2
  <2> QED
    BY <1>3, <1>4, <2>9, <2>10, <2>11, <2>12 DEF HistoryInv
<1>7. CASE desk # "registered"
  <2>1. rec' = rec /\ asked' = asked /\ waiting' = waiting /\ toPhone' = toPhone
    BY <1>7 DEF RelayClose
  <2>2. /\ w2.log = w.log /\ w2.barred = w.barred /\ w2.produced = w.produced /\ w2.live = 0
        /\ w2.epoch = w.epoch /\ w2.last = w.last
    BY <1>1, <1>2, <2>1, WorldFields, WorldFieldsNext
  <2>3. (rec # NoRecord => RecordOK(w, rec, recUpto)) /\ recUpto \in 0 .. produced
    BY DEF HistoryInv, RecInv
  <2> HIDE DEF w, w2
  <2>4. Grows(w, w2)
    BY <1>5, <2>2, GrowsClosed
  <2>5. rec # NoRecord => RecordOK(w2, rec, recUpto)
    BY <2>2, <2>3, <2>4, RecordStays
  <2>6. RecInv'
    BY <1>1, <2>1, <2>3, <2>5 DEF RecInv, w2
  <2>7. ScreenInv'
    BY <1>1, <2>1, <2>4, ScreenStays DEF w, w2
  <2>8. HubInv'
    <3>1. IsChannel(waiting') /\ \A i \in 1 .. Len(waiting') : QueryOK(World', waiting'[i])
      BY <2>1, <2>4, QueriesStay DEF w, w2
    <3> QED
      BY <1>1, <2>1, <3>1 DEF HistoryInv, HubInv
  <2>9. WorldOK(World')
    BY <2>4 DEF Grows, w2
  <2> QED
    BY <1>3, <1>4, <2>6, <2>7, <2>8, <2>9 DEF HistoryInv
<1> QED
  BY <1>6, <1>7

-----------------------------------------------------------------------------
(* The steps of the phone.                                                 *)

LEMMA PhoneGoesOn ==
    ASSUME SeqInv, HistoryInv, UNCHANGED <<relayVars, hubVars, up>>, rec # NoRecord,
           NEW p, PhoneOK(World, toPhone', p), QueueOK(World, toPhone'), Become(p)
    PROVE  HistoryInv'
<1>1. /\ UNCHANGED <<relayVars, desk, registration, rec, recUpto, up>> /\ UNCHANGED <<relayVars, rec>>
      /\ selected' = selected /\ asked' = asked /\ waiting' = waiting /\ rec' = rec
  BY DEF hubVars
<1>2. World' = World
  BY <1>1, WorldStays
<1> DEFINE r == [p EXCEPT !.out = <<>>]
<1>3. phone' = r
  BY DEF Become
<1>4. DOMAIN p = PhoneFields /\ p.stage \in {"none", "select", "sync"}
  BY DEF PhoneOK, Core
<1>5. SameCursor(p, r) /\ r.buffer = p.buffer /\ r.stage = p.stage /\ r.out = <<>>
  BY <1>4 DEF PhoneFields, SameCursor, SameList
<1> HIDE DEF r
<1>6. PhoneOK(World, toPhone', r)
  BY <1>4, <1>5, ControlKeeps
<1>7. ScreenInv'
  BY <1>2, <1>3, <1>5, <1>6 DEF ScreenInv
<1>8. HubInv'
  BY <1>1, <1>2 DEF HistoryInv, HubInv
<1> QED
  BY <1>1, <1>7, <1>8, HubElsewhere

LEMMA PhoneReceiveLogs ==
    ASSUME SeqInv, HistoryInv, PhoneReceive
    PROVE  HistoryInv'
<1> DEFINE m == Head(toPhone)
<1> DEFINE q == toPhone
<1>1. /\ q # <<>> /\ toPhone' = Tail(q) /\ UNCHANGED <<relayVars, hubVars, up>>
      /\ \/ m.kind = "event"    /\ Become(OnEvent(phone, m))
         \/ m.kind = "announce" /\ Become(OnAnnounce(phone, m))
         \/ m.kind = "sources"  /\ Become(OnSources(phone, m))
         \/ m.kind = "selected" /\ Become(OnSelected(phone, m))
         \/ m.kind = "synced"   /\ Become(OnSynced(phone, m))
  BY DEF PhoneReceive
<1>2. /\ WorldOK(World) /\ World.log = log /\ QueueOK(World, q) /\ PhoneOK(World, q, phone)
      /\ rec # NoRecord
  BY <1>1, WorldFields DEF HistoryInv, ScreenInv, HubInv
<1>3. /\ QueueOK(World, Tail(q)) /\ MsgOK(World, m)
      /\ Dated(m) => Behind(World, Tail(q), m.epoch)
  BY <1>1, <1>2, QueueLess
<1>4. PhoneOK(World, Tail(q), phone)
  BY <1>1, <1>2, PhoneLess
<1>5. Behind(World, q, phone.epoch)
  BY <1>2 DEF PhoneOK, Core, CursorOK
<1>6. Dates(m) => phone.epoch <= m.epoch
  BY <1>1, <1>2, <1>5, BehindLess
<1> DEFINE t == Tail(q)
<1> HIDE DEF m, t
<1>7. /\ QueueOK(World, t) /\ PhoneOK(World, t, phone) /\ (Dated(m) => Behind(World, t, m.epoch))
      /\ toPhone' = t
  BY <1>1, <1>3, <1>4 DEF t
<1> HIDE DEF q
<1>8. ASSUME NEW p, Become(p), PhoneOK(World, t, p) PROVE HistoryInv'
  BY <1>1, <1>2, <1>7, <1>8, PhoneGoesOn
<1>9. CASE m.kind = "event" /\ Become(OnEvent(phone, m))
  <2>1. EventOK(World, m) /\ Behind(World, t, m.epoch)
    BY <1>3, <1>7, <1>9 DEF MsgOK, Dated
  <2>2. PhoneOK(World, t, OnEvent(phone, m))
    BY <1>2, <1>7, <2>1, OnEventKeeps
  <2> QED
    BY <1>8, <1>9, <2>2
<1>10. CASE m.kind = "announce" /\ Become(OnAnnounce(phone, m))
  <2>1. PhoneOK(World, t, OnAnnounce(phone, m))
    BY <1>7, OnAnnounceKeeps
  <2> QED
    BY <1>8, <1>10, <2>1
<1>11. CASE m.kind = "sources" /\ Become(OnSources(phone, m))
  <2>1. m.epoch \in 1 .. World.epoch /\ phone.epoch <= m.epoch /\ Behind(World, t, m.epoch)
    BY <1>3, <1>6, <1>7, <1>11 DEF MsgOK, Dated, Dates
  <2>2. PhoneOK(World, t, OnSources(phone, m))
    BY <1>2, <1>7, <2>1, OnSourcesKeeps
  <2> QED
    BY <1>8, <1>11, <2>2
<1>12. CASE m.kind = "selected" /\ Become(OnSelected(phone, m))
  <2>1. m.epoch \in 1 .. World.epoch /\ phone.epoch <= m.epoch /\ Behind(World, t, m.epoch)
    BY <1>3, <1>6, <1>7, <1>12 DEF MsgOK, Dated, Dates
  <2>2. PhoneOK(World, t, OnSelected(phone, m))
    BY <1>2, <1>7, <2>1, OnSelectedKeeps
  <2> QED
    BY <1>8, <1>12, <2>2
<1>13. CASE m.kind = "synced" /\ Become(OnSynced(phone, m))
  <2>1. AnswerOK(World, m) /\ (m.ok => Behind(World, t, m.epoch))
    BY <1>3, <1>7, <1>13 DEF MsgOK, Dated
  <2>2. PhoneOK(World, t, OnSynced(phone, m))
    BY <1>2, <1>7, <2>1, OnSyncedKeeps
  <2> QED
    BY <1>8, <1>13, <2>2
<1> QED
  BY <1>1, <1>9, <1>10, <1>11, <1>12, <1>13

\* A step of the phone that reads no message.
LEMMA PhoneAlone ==
    ASSUME SeqInv, HistoryInv, UNCHANGED <<relayVars, hubVars, up, toPhone>>, rec # NoRecord,
           NEW p, PhoneOK(World, toPhone, p), Become(p)
    PROVE  HistoryInv'
<1>1. QueueOK(World, toPhone) /\ toPhone' = toPhone
  BY DEF HistoryInv, ScreenInv
<1>2. UNCHANGED <<relayVars, hubVars, up>>
  OBVIOUS
<1> QED
  BY <1>1, <1>2, PhoneGoesOn

LEMMA PhoneTimerLogs ==
    ASSUME SeqInv, HistoryInv, PhoneTimer
    PROVE  HistoryInv'
<1> DEFINE p == [phone EXCEPT !.timer = FALSE]
<1> DEFINE pending == [p EXCEPT !.pending = TRUE]
<1> DEFINE begun == [p EXCEPT !.resyncGen = FreshGen, !.reconcile = TRUE]
<1>1. UNCHANGED <<relayVars, hubVars, up, toPhone>>
  BY DEF PhoneTimer
<1>2. \/ ~p.conn /\ Become(p)
      \/ p.conn /\ Become(pending)
      \/ p.conn /\ Become(Syncing(begun, FALSE, FreshGen))
  BY DEF PhoneTimer
<1>3. PhoneOK(World, toPhone, phone) /\ DOMAIN phone = PhoneFields /\ phone.out = <<>>
  BY DEF HistoryInv, ScreenInv, PhoneOK, Core
<1>4. /\ SameCursor(phone, p) /\ p.buffer = phone.buffer /\ p.stage = phone.stage
      /\ p.conn = phone.conn /\ p.out = <<>> /\ DOMAIN p = PhoneFields
  BY <1>3 DEF PhoneFields, SameCursor, SameList
<1> DEFINE g == FreshGen
<1>5. SameCursor(p, pending) /\ pending.buffer = p.buffer /\ pending.stage = p.stage
  <2> HIDE DEF p
  <2> QED
    BY <1>4 DEF PhoneFields, SameCursor, SameList
<1>6. SameCursor(p, begun) /\ begun.buffer = p.buffer /\ begun.stage = p.stage
  <2>1. begun = [p EXCEPT !.resyncGen = g, !.reconcile = TRUE]
    OBVIOUS
  <2> HIDE DEF p, g, begun
  <2> QED
    BY <1>4, <2>1 DEF PhoneFields, SameCursor, SameList
<1> HIDE DEF p, pending, begun, g
<1>7. phone.stage \in {"none", "select", "sync"}
  BY <1>3 DEF PhoneOK
<1>8. PhoneOK(World, toPhone, p)
  BY <1>3, <1>4, <1>7, ControlKeeps
<1>9. PhoneOK(World, toPhone, pending) /\ PhoneOK(World, toPhone, begun)
  BY <1>4, <1>5, <1>6, <1>7, <1>8, ControlKeeps
<1>10. PhoneOK(World, toPhone, Syncing(begun, FALSE, FreshGen))
  BY <1>9, SyncingKeeps
<1>11. CASE rec # NoRecord
  BY <1>1, <1>2, <1>8, <1>9, <1>10, <1>11, PhoneAlone
<1>12. CASE rec = NoRecord
  <2>1. ~p.conn /\ Become(p) /\ toHub = <<>> /\ p.stage = "none"
    BY <1>2, <1>4, <1>12 DEF HistoryInv, HubInv
  <2>2. toHub' = <<>> /\ phone' = [p EXCEPT !.out = <<>>]
    BY <1>4, <2>1 DEF Become
  <2>3. /\ SameCursor(p, phone') /\ phone'.buffer = p.buffer /\ phone'.stage = p.stage /\ phone'.out = <<>>
        /\ phone'.conn = p.conn
    BY <1>4, <2>2 DEF PhoneFields, SameCursor, SameList
  <2>4. PhoneOK(World, toPhone, phone')
    BY <1>4, <1>7, <1>8, <2>3, ControlKeeps
  <2>5. /\ UNCHANGED <<relayVars, desk, registration, rec, recUpto, up>> /\ UNCHANGED <<relayVars, rec>>
        /\ selected' = selected /\ asked' = asked /\ waiting' = waiting /\ rec' = rec /\ toPhone' = toPhone
    BY <1>1 DEF hubVars
  <2>6. World' = World
    BY <2>5, WorldStays
  <2>7. ScreenInv'
    BY <2>3, <2>4, <2>5, <2>6 DEF HistoryInv, ScreenInv
  <2>8. HubInv'
    BY <1>12, <2>1, <2>2, <2>3, <2>5, <2>6 DEF HistoryInv, HubInv
  <2> QED
    BY <2>5, <2>7, <2>8, HubElsewhere
<1> QED
  BY <1>11, <1>12

LEMMA PhoneConnectLogs ==
    ASSUME SeqInv, HistoryInv, PhoneConnect
    PROVE  HistoryInv'
<1> DEFINE p == [phone EXCEPT !.conn = TRUE, !.listed = rec.epoch, !.online = TRUE]
<1>1. UNCHANGED <<relayVars, hubVars, up, toPhone>> /\ rec # NoRecord /\ Become(Selecting(p, FreshGen))
  BY DEF PhoneConnect
<1>2. PhoneOK(World, toPhone, phone) /\ DOMAIN phone = PhoneFields /\ phone.stage \in {"none", "select", "sync"}
  BY DEF HistoryInv, ScreenInv, PhoneOK, Core
<1>3. SameCursor(phone, p) /\ p.buffer = phone.buffer /\ p.stage = phone.stage
  BY <1>2 DEF PhoneFields, SameCursor, SameList
<1> HIDE DEF p
<1>4. PhoneOK(World, toPhone, p)
  BY <1>2, <1>3, ControlKeeps
<1>5. PhoneOK(World, toPhone, Selecting(p, FreshGen))
  BY <1>4, SelectingKeeps
<1> QED
  BY <1>1, <1>5, PhoneAlone

LEMMA PhoneReselectLogs ==
    ASSUME SeqInv, HistoryInv, PhoneReselect
    PROVE  HistoryInv'
<1>1. UNCHANGED <<relayVars, hubVars, up, toPhone>> /\ phone.conn /\ Become(Selecting(phone, FreshGen))
  BY DEF PhoneReselect
<1>2. rec # NoRecord /\ PhoneOK(World, toPhone, phone)
  BY <1>1 DEF HistoryInv, HubInv, ScreenInv
<1>3. PhoneOK(World, toPhone, Selecting(phone, FreshGen))
  BY <1>2, SelectingKeeps
<1> QED
  BY <1>1, <1>2, <1>3, PhoneAlone

LEMMA PhoneTimeoutLogs ==
    ASSUME SeqInv, HistoryInv, PhoneTimeout
    PROVE  HistoryInv'
<1> DEFINE p == [phone EXCEPT !.pending = TRUE]
<1>1. UNCHANGED <<relayVars, hubVars, up, toPhone>> /\ Active(phone) /\ (Become(Idle(phone)) \/ Become(Finished(p)))
  BY DEF PhoneTimeout
<1>2. /\ rec # NoRecord /\ PhoneOK(World, toPhone, phone) /\ WorldOK(World) /\ World.log = log
      /\ DOMAIN phone = PhoneFields /\ phone.stage \in {"none", "select", "sync"}
  BY <1>1, WorldFields DEF HistoryInv, HubInv, ScreenInv, Active, PhoneOK, Core
<1>3. SameCursor(phone, p) /\ p.buffer = phone.buffer /\ p.stage = phone.stage
  BY <1>2 DEF PhoneFields, SameCursor, SameList
<1> HIDE DEF p
<1>4. PhoneOK(World, toPhone, p)
  BY <1>2, <1>3, ControlKeeps
<1>5. PhoneOK(World, toPhone, Finished(p))
  BY <1>2, <1>4, FinishedKeeps
<1>6. PhoneOK(World, toPhone, Idle(phone))
  BY <1>2, IdleKeeps
<1> QED
  BY <1>1, <1>2, <1>5, <1>6, PhoneAlone

LEMMA PhoneDropLogs ==
    ASSUME SeqInv, HistoryInv, PhoneDrop
    PROVE  HistoryInv'
<1> DEFINE i == Idle(phone)
<1> DEFINE later == i.pending /\ phone.resyncGen = 0
<1>1. /\ UNCHANGED <<relayVars, desk, registration, rec, recUpto, up>> /\ UNCHANGED <<relayVars, rec>>
      /\ phone.conn /\ toHub' = <<>> /\ toPhone' = <<>> /\ selected' = FALSE /\ waiting' = <<>>
      /\ asked' = asked /\ rec' = rec
      /\ phone' = [i EXCEPT !.conn = FALSE, !.buffer = <<>>, !.pending = later, !.resyncGen = 0]
  BY DEF PhoneDrop
<1>2. PhoneOK(World, toPhone, i) /\ i.stage = "none" /\ i.out = <<>> /\ DOMAIN i = PhoneFields /\ rec # NoRecord
  <2>1. PhoneOK(World, toPhone, phone) /\ phone.out = <<>> /\ rec # NoRecord
    BY <1>1 DEF HistoryInv, ScreenInv, HubInv
  <2>2. PhoneOK(World, toPhone, i) /\ i.stage = "none"
    BY <2>1, IdleKeeps
  <2>3. DOMAIN phone = PhoneFields
    BY <2>1 DEF PhoneOK, Core
  <2>4. i.out = <<>>
    BY <2>1, <2>3 DEF Idle, PhoneFields
  <2>5. DOMAIN i = PhoneFields
    BY <2>3 DEF Idle, PhoneFields
  <2> QED
    BY <2>1, <2>2, <2>4, <2>5
<1> HIDE DEF i, later
<1>3. SameCursor(i, phone') /\ phone'.buffer = <<>> /\ phone'.stage = "none" /\ phone'.out = <<>> /\ ~phone'.conn
  BY <1>1, <1>2 DEF PhoneFields, SameCursor, SameList
<1>4. PhoneOK(World, <<>>, phone')
  <2>1. PhoneOK(World, <<>>, i)
    BY <1>2, PhoneNone
  <2> QED
    BY <1>3, <2>1, ControlEmptied
<1>5. World' = World
  BY <1>1, WorldStays
<1>6. QueueOK(World, <<>>)
  BY EmptyChannel DEF QueueOK
<1>7. ScreenInv'
  BY <1>1, <1>3, <1>4, <1>5, <1>6 DEF ScreenInv
<1>8. HubInv'
  <2>1. IsChannel(waiting') /\ Len(waiting') = 0
    BY <1>1, EmptyChannel
  <2>2. asked \in Nat
    BY DEF HistoryInv, HubInv
  <2>3. \A j \in 1 .. Len(waiting') : QueryOK(World', waiting'[j])
    BY <2>1
  <2> QED
    BY <1>1, <1>2, <2>1, <2>2, <2>3 DEF HubInv
<1> QED
  BY <1>1, <1>7, <1>8, HubElsewhere

LEMMA StartsLogged == Init => HistoryInv
<1> SUFFICES ASSUME Init PROVE HistoryInv
  OBVIOUS
<1>1. /\ produced = 0 /\ log = <<>> /\ barred = {} /\ ~relay.open /\ relay.epoch = 0 /\ relay.seq = 0
      /\ up = <<>> /\ toHub = <<>> /\ toPhone = <<>> /\ desk = "none" /\ registration = NoFrame
      /\ rec = NoRecord /\ recUpto = 0 /\ selected = FALSE /\ asked = 0 /\ waiting = <<>>
  BY DEF Init
<1>2. /\ phone.stage = "none" /\ ~phone.conn /\ phone.out = <<>> /\ ~phone.hydrated /\ phone.view = {}
      /\ phone.leaf = 0 /\ phone.epoch = 0 /\ phone.seq = 0 /\ phone.disk = NoCursor /\ phone.buffer = <<>>
      /\ phone.earlier = 0 /\ phone.skipped = {}
      /\ DOMAIN phone = PhoneFields
  BY DEF Init, PhoneFields
<1>3. /\ World.log = <<>> /\ World.produced = 0 /\ World.barred = {} /\ World.live = 0 /\ World.epoch = 0
      /\ World.last = 0
  <2>1. NoRecord.epoch = 0
    BY DEF NoRecord
  <2> QED
    BY <1>1, <2>1, WorldFields
<1>4. Len(<<>>) = 0 /\ IsChannel(<<>>)
  BY EmptyChannel
<1>5. WorldOK(World)
  <2>1. <<>> \in Seq(Seq(Nat))
    OBVIOUS
  <2> QED
    BY <1>3, <1>4, <2>1 DEF WorldOK
<1>6. RelayNow /\ FramesInv /\ RecInv /\ HubInv
  <2>1. RelayNow
    BY <1>1 DEF RelayNow
  <2>2. FramesInv
    BY <1>1, <1>4 DEF FramesInv
  <2>3. RecInv
    BY <1>1 DEF RecInv
  <2>4. IsChannel(waiting) /\ \A i \in 1 .. Len(waiting) : QueryOK(World, waiting[i])
    BY <1>1, <1>4
  <2>5. HubInv
    BY <1>1, <1>2, <2>4 DEF HubInv
  <2> QED
    BY <2>1, <2>2, <2>3, <2>5
<1>7. BoundsInv
  BY <1>1, <1>4, SyncAssumption DEF BoundsInv
<1>8. NoCursor.epoch = 0 /\ NoCursor.seq = 0 /\ IsCursor(NoCursor)
  BY DEF NoCursor, IsCursor
<1>9. CursorOK(World, toPhone, phone, 0, 0)
  BY <1>1, <1>2, <1>3, <1>4 DEF CursorOK, Behind
<1>10. ListOK(World, phone)
  BY <1>2, <1>3 DEF ListOK
<1>11. Buffers(World, toPhone, phone)
  BY <1>2, <1>4, SyncAssumption DEF Buffers, BufferOK
<1>12. ScreenInv
  <2>1. QueueOK(World, toPhone)
    BY <1>1, <1>4 DEF QueueOK
  <2>2. PhoneOK(World, toPhone, phone)
    BY <1>2, <1>8, <1>9, <1>10, <1>11 DEF PhoneOK, Core
  <2> QED
    BY <1>2, <2>1, <2>2 DEF ScreenInv
<1> QED
  BY <1>5, <1>6, <1>7, <1>12 DEF HistoryInv

LEMMA StepLogs ==
    ASSUME SeqInv, HistoryInv, [Next]_vars
    PROVE  HistoryInv'
<1>1. CASE RelayStep
  <2>1. CASE RelayDrop
    BY <2>1, CloseLogs DEF RelayDrop
  <2> QED
    BY <1>1, <2>1, ConnectLogs, ProduceLogs, TooLargeLogs, SnapshotLogs, RelayReceiveLogs DEF RelayStep
<1>2. CASE HubStep
  <2>1. CASE HubReceive
    <3>1. \/ HubRefuse(Head(up)) \/ HubSnapshot(Head(up)) \/ HubUnavailable(Head(up)) \/ HubEvent(Head(up))
      BY <2>1 DEF HubReceive
    <3> QED
      BY <2>1, <3>1, RefuseLogs, HubSnapshotLogs, UnavailableLogs, HubEventLogs
  <2>2. CASE HubRequest
    <3>1. HubSelect(Head(toHub)) \/ HubSync(Head(toHub))
      BY <2>2 DEF HubRequest
    <3> QED
      BY <2>2, <3>1, SelectLogs, SyncLogs
  <2>3. CASE HubSweep
    BY <2>3, CloseLogs DEF HubSweep
  <2> QED
    BY <1>2, <2>1, <2>2, <2>3, RegisterStartLogs, RegisterDoneLogs, AskTimeoutLogs DEF HubStep
<1>3. CASE PhoneStep
  BY <1>3, PhoneReceiveLogs, PhoneTimerLogs, PhoneConnectLogs, PhoneReselectLogs, PhoneTimeoutLogs,
     PhoneDropLogs DEF PhoneStep
<1>4. CASE UNCHANGED vars
  <2>1. /\ UNCHANGED <<relayVars, desk, registration, rec, recUpto, up>> /\ UNCHANGED <<relayVars, rec>>
        /\ toPhone' = toPhone /\ phone' = phone /\ asked' = asked /\ selected' = selected /\ waiting' = waiting
        /\ toHub' = toHub /\ rec' = rec
    BY <1>4 DEF vars, hubVars
  <2>2. World' = World
    BY <2>1, WorldStays
  <2>3. ScreenInv' /\ HubInv'
    BY <2>1, <2>2 DEF HistoryInv, ScreenInv, HubInv
  <2> QED
    BY <2>1, <2>3, HubElsewhere
<1> QED
  BY <1>1, <1>2, <1>3, <1>4 DEF Next

-----------------------------------------------------------------------------
(* The theorems.                                                           *)

\* The history behind the three ends is sound in every reachable state: relay, hub and
\* phone (relay.ts, server.ts, pi_session.dart) agree on which item each number stands for.
THEOREM HistoryInvariant == Spec => []HistoryInv
<1>1. Init => HistoryInv
  BY StartsLogged
<1>2. SeqInv /\ HistoryInv /\ [Next]_vars => HistoryInv'
  BY StepLogs
<1> QED
  BY <1>1, <1>2, SyncInvariant, PTL DEF Spec

\* The items that the events of an epoch carry grow.
LEMMA LogOrdered ==
    ASSUME NEW w, WorldOK(w), NEW e \in 1 .. Len(w.log), NEW n \in 1 .. Len(w.log[e]), NEW k \in 1 .. n
    PROVE  w.log[e][k] <= w.log[e][n]
<1> DEFINE v == w.log[e]
<1> DEFINE a == Len(w.log[e])
<1> DEFINE late == {x \in k .. a : v[x] < v[k]}
<1>1. a \in Nat /\ \A x \in 1 .. a : v[x] \in Nat
  <2>1. w.produced \in Nat /\ a \in Nat /\ \A x \in 1 .. a : v[x] \in 1 .. w.produced
    BY WorldTypes
  <2> QED
    BY <2>1
<1>2. \A x \in 1 .. a : x < a => v[x + 1] = v[x] + 1
  BY DEF WorldOK
<1>3. n \in 1 .. a /\ k \in 1 .. n
  OBVIOUS
<1> HIDE DEF v, a
<1>4. SUFFICES ASSUME ~(v[k] <= v[n]) PROVE FALSE
  BY DEF v
<1>5. n \in late
  <2>1. n \in k .. a /\ v[n] \in Nat /\ v[k] \in Nat
    BY <1>1, <1>3
  <2> QED
    BY <1>4, <2>1
<1>6. PICK x \in late : \A y \in late : x <= y
  <2>1. late \subseteq Nat
    BY <1>1, <1>3
  <2> QED
    BY <1>5, <2>1, LeastOf
<1>7. x \in k .. a /\ v[x] < v[k] /\ x # k
  BY <1>1, <1>3, <1>6
<1>8. x - 1 \in k .. a /\ x - 1 \in 1 .. a /\ x - 1 < a /\ (x - 1) + 1 = x
  BY <1>1, <1>3, <1>7
<1>9. v[x] = v[x - 1] + 1
  BY <1>2, <1>8
<1>10. x - 1 \in late
  <2>1. v[x - 1] \in Nat /\ v[x] \in Nat /\ v[k] \in Nat
    BY <1>1, <1>3, <1>7, <1>8
  <2> QED
    BY <1>7, <1>8, <1>9, <2>1
<1> QED
  BY <1>6, <1>7, <1>8, <1>10

\* A phone whose history and cursor are of one epoch, and whose cursor joins up with
\* its history, lacks nothing that it has been told of but what no event carries.
LEMMA NothingMissing ==
    ASSUME NEW w, WorldOK(w), NEW e \in 1 .. Len(w.log), NEW n \in 0 .. Len(w.log[e]), NEW V, Joined(w, V, e, n),
           NEW leaf \in Nat, \A i \in 1 .. leaf : i \in V,
           NEW i \in Nat \ {0}, i \notin V,
           i <= leaf \/ \E k \in 1 .. n : i <= w.log[e][k]
    PROVE  i \in w.barred
<1>1. ~(i <= leaf)
  OBVIOUS
<1>2. PICK k \in 1 .. n : i <= w.log[e][k]
  BY <1>1
<1>3. Len(w.log[e]) \in Nat /\ n \in 1 .. Len(w.log[e]) /\ k \in 1 .. Len(w.log[e])
  BY <1>2, WorldTypes
<1>4. w.log[e][k] \in Nat /\ w.log[e][n] \in Nat
  <2>1. /\ w.produced \in Nat
        /\ w.log[e][k] \in 1 .. w.produced /\ w.log[e][n] \in 1 .. w.produced
    BY <1>3, WorldTypes
  <2> QED
    BY <2>1
<1>5. w.log[e][k] <= w.log[e][n]
  BY <1>3, LogOrdered
<1>6. i \in 1 .. w.log[e][n]
  BY <1>2, <1>4, <1>5
<1>7. i \in V \cup w.barred
  BY <1>3, <1>6 DEF Joined
<1> QED
  BY <1>7

\* What the invariant says of the phone.
LEMMA PhoneNow ==
    ASSUME HistoryInv
    PROVE  /\ WorldOK(World) /\ ListOK(World, phone) /\ IsCursor(phone.disk)
           /\ CursorOK(World, toPhone, phone, phone.epoch, phone.seq)
           /\ CursorOK(World, toPhone, phone, phone.disk.epoch, phone.disk.seq)
           /\ Len(phone.buffer) <= MaxBuffer /\ phone.stage \in {"none", "select", "sync"}
           /\ phone.out = <<>>
BY DEF HistoryInv, ScreenInv, PhoneOK, Core, Buffers

LEMMA CursorInBounds ==
    ASSUME HistoryInv, NEW e, NEW n, CursorOK(World, toPhone, phone, e, n)
    PROVE  e \in 0 .. MaxEpoch /\ n \in 0 .. MaxItems
<1>1. WorldOK(World) /\ produced <= MaxItems /\ Len(log) <= MaxEpoch
  BY DEF HistoryInv, BoundsInv
<1>2. World.log = log /\ World.produced = produced
  BY WorldFields
<1>3. Len(World.log) \in Nat /\ World.produced \in Nat /\ World.epoch \in 0 .. Len(World.log)
  BY <1>1, WorldTypes DEF WorldOK
<1>4. e \in 0 .. World.epoch /\ n \in 0 .. World.produced
  BY DEF CursorOK, Behind
<1> QED
  BY <1>1, <1>2, <1>3, <1>4, SyncAssumption

\* The sequences of the history, in the bounds.
LEMMA LogInBounds ==
    ASSUME HistoryInv
    PROVE  log \in Seq(Seq(1 .. MaxItems))
<1>1. WorldOK(World) /\ produced <= MaxItems
  BY DEF HistoryInv, BoundsInv
<1>2. World.log = log /\ World.produced = produced
  BY WorldFields
<1>3. /\ produced \in Nat /\ Len(log) \in Nat /\ log \in Seq(Seq(Nat))
      /\ \A e \in 1 .. Len(log) : Len(log[e]) \in Nat /\ \A k \in 1 .. Len(log[e]) : log[e][k] \in 1 .. produced
  <2>1. World.log \in Seq(Seq(Nat))
    BY <1>1 DEF WorldOK
  <2> QED
    BY <1>1, <1>2, <2>1, WorldTypes
<1>4. \A k \in 1 .. produced : k \in 1 .. MaxItems
  BY <1>1, <1>3, SyncAssumption
<1>5. ASSUME NEW e \in 1 .. Len(log) PROVE log[e] \in Seq(1 .. MaxItems)
  <2>1. log[e] \in Seq(Nat)
    BY <1>3
  <2>2. log[e] = [k \in 1 .. Len(log[e]) |-> log[e][k]]
    BY <2>1
  <2>3. log[e] \in [1 .. Len(log[e]) -> 1 .. MaxItems]
    BY <1>3, <1>4, <2>2
  <2> QED
    BY <1>3, <2>3, Listed
<1>6. log = [e \in 1 .. Len(log) |-> log[e]]
  BY <1>3
<1>7. log \in [1 .. Len(log) -> Seq(1 .. MaxItems)]
  BY <1>5, <1>6
<1> QED
  BY <1>3, <1>7, Listed

\* The relay's number is that of the last event of its epoch, so within the bound.
LEMMA NumberInBounds ==
    ASSUME SeqInv, HistoryInv
    PROVE  relay.epoch \in 0 .. Len(log) /\ relay.seq \in 0 .. MaxItems
<1>1. WorldOK(World) /\ produced <= MaxItems /\ RelayNow
  BY DEF HistoryInv, BoundsInv
<1>2. World.log = log /\ World.produced = produced
  BY WorldFields
<1>3. relay.epoch \in Nat /\ relay.seq \in Nat /\ relay.epoch = Len(log)
  BY DEF SeqInv, RelayInv
<1>4. produced \in Nat
  BY <1>1, <1>2, WorldTypes
<1>5. relay.seq <= produced
  <2>1. CASE relay.epoch = 0 \/ relay.seq = 0
    BY <1>1, <1>4, <2>1 DEF RelayNow
  <2>2. CASE relay.epoch # 0 /\ relay.seq # 0
    <3>1. relay.epoch \in 1 .. Len(World.log) /\ relay.seq = Len(World.log[relay.epoch])
      BY <1>1, <1>2, <1>3, <2>2 DEF RelayNow
    <3>2. relay.seq \in 1 .. Len(World.log[relay.epoch])
      BY <1>3, <2>2, <3>1
    <3> QED
      BY <1>1, <1>2, <3>1, <3>2, LogLength
  <2> QED
    BY <2>1, <2>2
<1> QED
  BY <1>1, <1>3, <1>4, <1>5, SyncAssumption

\* Every variable of the three ends keeps its shape (TypeOK).
THEOREM SyncTypeCorrect == Spec => []TypeOK
<1>1. SeqInv /\ HistoryInv => TypeOK
  <2> SUFFICES ASSUME SeqInv, HistoryInv PROVE TypeOK
    OBVIOUS
  <2>1. World.log = log /\ World.produced = produced /\ World.barred = barred
    BY WorldFields
  <2>2. produced \in 0 .. MaxItems /\ Len(log) <= MaxEpoch /\ barred \subseteq 1 .. MaxItems /\ produced \in Nat
    <3>1. WorldOK(World) /\ produced <= MaxItems /\ Len(log) <= MaxEpoch
      BY DEF HistoryInv, BoundsInv
    <3>2. produced \in Nat /\ barred \subseteq 1 .. produced
      BY <2>1, <3>1, WorldTypes DEF WorldOK
    <3> QED
      BY <3>1, <3>2, SyncAssumption
  <2>3. log \in Seq(Seq(1 .. MaxItems))
    BY LogInBounds
  <2>4. relay \in [open : BOOLEAN, registered : BOOLEAN, beating : BOOLEAN,
                   epoch : 0 .. Len(log), seq : 0 .. MaxItems]
    BY NumberInBounds DEF SeqInv, RelayInv
  <2>5. desk \in {"none", "registering", "registered"} /\ ((desk = "registering") <=> (registration # NoFrame))
    <3>1. NoFrame.kind = "none"
      BY DEF NoFrame
    <3> QED
      BY <3>1 DEF HistoryInv, FramesInv
  <2>6. rec = NoRecord \/ (IsRecord(rec) /\ Contiguous(rec))
    BY DEF HistoryInv, RecInv, RecordOK, SoundRecord
  <2>7. recUpto \in 0 .. produced
    BY DEF HistoryInv, RecInv
  <2>8. selected \in BOOLEAN /\ asked \in Nat /\ (waiting # <<>> => asked # 0)
    BY DEF HistoryInv, HubInv
  <2>9. phone.stage \in {"none", "select", "sync"} /\ Len(phone.buffer) <= MaxBuffer /\ phone.out = <<>>
    BY PhoneNow
  <2>10. /\ phone.view \subseteq 1 .. produced /\ phone.leaf \in 0 .. produced
         /\ phone.earlier \in 0 .. produced /\ phone.skipped \subseteq 1 .. produced
    BY <2>1, PhoneNow DEF ListOK
  <2>11. [epoch |-> phone.epoch, seq |-> phone.seq] \in Cursors
    BY PhoneNow, CursorInBounds DEF Cursors
  <2>12. phone.disk \in Cursors
    <3>1. phone.disk = [epoch |-> phone.disk.epoch, seq |-> phone.disk.seq]
      BY PhoneNow DEF IsCursor
    <3>2. phone.disk.epoch \in 0 .. MaxEpoch /\ phone.disk.seq \in 0 .. MaxItems
      BY PhoneNow, CursorInBounds
    <3> HIDE DEF HistoryInv, SeqInv
    <3> QED
      BY <3>1, <3>2 DEF Cursors
  <2> QED
    BY <2>2, <2>3, <2>4, <2>5, <2>6, <2>7, <2>8, <2>9, <2>10, <2>11, <2>12 DEF TypeOK
<1> QED
  BY <1>1, SyncInvariant, HistoryInvariant, PTL

\* The phone's cursor never runs ahead of what the hub has recorded of that epoch, in
\* memory or on disk (pi_session.dart saves it after every event and every answer), so
\* the hub can always tell what the phone lacks.
THEOREM CursorsBacked == Spec => []CursorBacked
<1>1. HistoryInv => CursorBacked
  <2> SUFFICES ASSUME HistoryInv, phone.hydrated,
                      NEW c \in {[epoch |-> phone.epoch, seq |-> phone.seq], phone.disk}, c.epoch = phone.base
               PROVE  c.seq <= Len(log[c.epoch]) /\ (c.epoch = rec.epoch => c.seq <= rec.lastSeq)
    BY DEF CursorBacked
  <2>1. CursorOK(World, toPhone, phone, c.epoch, c.seq)
    <3>1. CASE c = phone.disk
      BY <3>1, PhoneNow
    <3>2. CASE c = [epoch |-> phone.epoch, seq |-> phone.seq]
      <4>1. c.epoch = phone.epoch /\ c.seq = phone.seq
        BY <3>2
      <4> QED
        BY <4>1, PhoneNow
    <3> QED
      BY <3>1, <3>2
  <2>2. Recorded(World, c.epoch, c.seq)
    BY <2>1 DEF CursorOK
  <2>3. World.log = log /\ World.epoch = rec.epoch /\ (rec # NoRecord => World.last = rec.lastSeq)
    BY WorldFields
  <2>4. Carried(World, c.epoch, c.seq) /\ (c.epoch = World.epoch => c.seq <= World.last)
    BY <2>2 DEF Recorded
  <2>5. c.epoch \in 1 .. Len(log) /\ c.seq \in 0 .. Len(log[c.epoch])
    BY <2>3, <2>4 DEF Carried
  <2>6. WorldOK(World)
    BY PhoneNow
  <2>7. Len(log) \in Nat /\ Len(log[c.epoch]) \in Nat
    BY <2>3, <2>5, <2>6, WorldTypes
  <2>8. c.epoch = rec.epoch => rec # NoRecord
    <3>1. NoRecord.epoch = 0
      BY DEF NoRecord
    <3> QED
      BY <2>5, <2>7, <3>1
  <2> QED
    BY <2>3, <2>4, <2>5, <2>7, <2>8
<1> QED
  BY <1>1, HistoryInvariant, PTL

\* A phone with a history lacks nothing up to its cursor unless it has adopted a gap
\* (pi_session.dart _applySequencedEvent): no order of snapshots, pages, buffered and
\* live events, announcements and reconnections leaves out an item in silence, but for
\* those produced while a registration was being answered (relay.ts sendEvent), those
\* that come before the list and can be loaded, and those that a summary sent along
\* with the tail of a snapshot has hidden (server.ts clipEntriesForMobile).
THEOREM HolesNoticed == Spec => []NoUnnoticedHole
<1>1. HistoryInv => NoUnnoticedHole
  <2> SUFFICES ASSUME HistoryInv, phone.hydrated, phone.epoch = phone.base, ~phone.gapped,
                      NEW i \in Missing, i \notin phone.skipped
               PROVE  i \in barred
    BY DEF NoUnnoticedHole, Based
  <2>1. WorldOK(World) /\ ListOK(World, phone) /\ CursorOK(World, toPhone, phone, phone.epoch, phone.seq)
    BY PhoneNow
  <2>2. World.log = log /\ World.produced = produced /\ World.barred = barred
    BY WorldFields
  <2>3. /\ Recorded(World, phone.epoch, phone.seq)
        /\ Joined(World, Held(phone), phone.epoch, phone.seq)
    BY <2>1 DEF CursorOK
  <2>4. phone.epoch \in 1 .. Len(World.log) /\ phone.seq \in 0 .. Len(World.log[phone.epoch])
    BY <2>3 DEF Recorded, Carried
  <2>5. phone.leaf \in Nat /\ (\A j \in 1 .. phone.leaf : j \in Held(phone)) /\ World.produced \in Nat
    BY <2>1, WorldTypes DEF ListOK
  <2>6. i \in 1 .. produced /\ i \notin Held(phone) /\ \E last \in Told : i <= last
    <3>1. /\ i \in (phone.earlier + 1) .. produced /\ i \notin phone.view
          /\ \E last \in Told : i <= last
      BY DEF Missing
    <3>2. phone.earlier \in Nat /\ produced \in Nat
      BY <2>1, <2>2, <2>5 DEF ListOK
    <3>3. i \in 1 .. produced /\ i \notin 1 .. phone.earlier
      BY <3>1, <3>2
    <3> QED
      BY <3>1, <3>3 DEF Held
  <2>7. i <= phone.leaf \/ \E k \in 1 .. phone.seq : i <= World.log[phone.epoch][k]
    BY <2>2, <2>6 DEF Told
  <2>8. i \in Nat \ {0}
    BY <2>2, <2>5, <2>6
  <2>9. i \in World.barred
    BY <2>1, <2>3, <2>4, <2>5, <2>6, <2>7, <2>8, NothingMissing
  <2> QED
    BY <2>2, <2>9
<1> QED
  BY <1>1, HistoryInvariant, PTL

-----------------------------------------------------------------------------
(* What is shown stays.  ShowInv, below, says what is under way between    *)
(* the two ends: the phone has at most one request or answer of its        *)
(* generation under way (Turn), every answer has at least the items up to  *)
(* the phone's leaf (the hub's snapshots only grow), and the phone has     *)
(* been told of every epoch it remembers (Within, Listing).  First what    *)
(* the phone's handlers do to the list on the screen.                      *)

\* The connection, what is listed and the leaf are as they were, and nothing that was
\* shown is gone ...
Shows(p, r) ==
    /\ DOMAIN p = PhoneFields /\ DOMAIN r = PhoneFields
    /\ r.conn = p.conn /\ r.listed = p.listed /\ r.leaf = p.leaf /\ p.view \subseteq r.view
    /\ r.earlier = p.earlier

\* ... and the phone is about what it was about.
Busy(p, r) == r.stage = p.stage /\ r.gen = p.gen /\ r.out = p.out

LEMMA ShowsThen ==
    ASSUME NEW p, NEW r, NEW t, Shows(p, r), Shows(r, t)
    PROVE  Shows(p, t)
BY DEF Shows

LEMMA ScheduleShows ==
    ASSUME NEW p, DOMAIN p = PhoneFields
    PROVE  Shows(p, Schedule(p)) /\ Busy(p, Schedule(p))
BY DEF Schedule, PhoneFields, Shows, Busy

LEMMA IngestShows ==
    ASSUME NEW p, DOMAIN p = PhoneFields, NEW e
    PROVE  Shows(p, Ingest(p, e)) /\ Busy(p, Ingest(p, e))
<1> DEFINE x == log[e.epoch][e.seq]
<1> DEFINE s == [p EXCEPT !.epoch = e.epoch, !.seq = e.seq, !.view = @ \cup {x}]
<1> DEFINE c == [epoch |-> s.epoch, seq |-> s.seq]
<1>1. Ingest(p, e) = [s EXCEPT !.disk = c]
  BY DEF Ingest, Saved
<1> HIDE DEF x
<1>2. Shows(p, s) /\ Busy(p, s)
  BY DEF PhoneFields, Shows, Busy
<1> HIDE DEF s, c
<1>3. Shows(s, [s EXCEPT !.disk = c]) /\ Busy(s, [s EXCEPT !.disk = c])
  BY <1>2 DEF PhoneFields, Shows, Busy
<1> QED
  BY <1>1, <1>2, <1>3 DEF Shows, Busy

LEMMA ApplyEventShows ==
    ASSUME NEW p, DOMAIN p = PhoneFields, NEW e
    PROVE  Shows(p, ApplyEvent(p, e)) /\ Busy(p, ApplyEvent(p, e))
<1> DEFINE r == Ingest(p, e)
<1> DEFINE g == [r EXCEPT !.gapNotice = TRUE, !.gapped = TRUE]
<1>1. ApplyEvent(p, e) \in {p, Schedule(p), r, Schedule(g)}
  BY DEF ApplyEvent
<1>2. Shows(p, r) /\ Busy(p, r)
  BY IngestShows
<1> HIDE DEF r
<1>3. Shows(r, g) /\ Busy(r, g)
  BY <1>2 DEF PhoneFields, Shows, Busy
<1> HIDE DEF g
<1>4. Shows(g, Schedule(g)) /\ Busy(g, Schedule(g)) /\ Shows(p, Schedule(p)) /\ Busy(p, Schedule(p))
  BY <1>3, ScheduleShows DEF Shows
<1> QED
  BY <1>1, <1>2, <1>3, <1>4 DEF Shows, Busy

\* FoldLeft as what it becomes after each of the events.
Steps(s, p, es, n, r) ==
    /\ s[0] = p /\ s[n] = r
    /\ \A k \in 0 .. n : k < n => s[k + 1] = ApplyEvent(s[k], es[k + 1])

LEMMA FoldSteps ==
    ASSUME NEW p, NEW es, NEW n \in Nat, DOMAIN es = 1 .. n, NEW r, r = FoldLeft(ApplyEvent, p, es)
    PROVE  \E s : Steps(s, p, es, n, r)
<1> DEFINE it == CHOOSE f : Folds(f, p, es, n)
<1>1. r = it[1 .. n]
  BY DEF FoldLeft, MapThenFoldSet, Folds
<1>2. Folds(it, p, es, n)
  BY FoldsExist
<1> HIDE DEF it
<1>3. \A t \in SUBSET (1 .. n) : it[t] = IF t = {} THEN p ELSE ApplyEvent(it[t \ {Max(t)}], es[Max(t)])
  BY <1>2 DEF Folds
<1> DEFINE s == [k \in 0 .. n |-> it[1 .. k]]
<1>4. s[0] = p
  <2>1. 1 .. 0 = {} /\ 1 .. 0 \in SUBSET (1 .. n) /\ 0 \in 0 .. n
    OBVIOUS
  <2> QED
    BY <1>3, <2>1
<1>5. ASSUME NEW k \in 0 .. n, k < n PROVE s[k + 1] = ApplyEvent(s[k], es[k + 1])
  <2>1. 1 .. k + 1 \in SUBSET (1 .. k + 1) /\ k + 1 \in 1 .. k + 1 /\ k \in Nat
    OBVIOUS
  <2>2. Max(1 .. k + 1) = k + 1
    BY <2>1, MaxOfMore
  <2>3. (1 .. k + 1) \ {k + 1} = 1 .. k
    OBVIOUS
  <2>4. 1 .. k + 1 \in SUBSET (1 .. n) /\ 1 .. k + 1 # {} /\ k + 1 \in 0 .. n
    <3>1. k + 1 <= n /\ k \in Nat
      BY <1>5
    <3> QED
      BY <2>1, <3>1
  <2>5. it[1 .. k + 1] = ApplyEvent(it[1 .. k], es[k + 1])
    BY <1>3, <2>2, <2>3, <2>4
  <2> QED
    BY <2>4, <2>5
<1>6. s[n] = it[1 .. n]
  OBVIOUS
<1> HIDE DEF s
<1> QED
  BY <1>1, <1>4, <1>5, <1>6 DEF Steps

LEMMA FoldShows ==
    ASSUME NEW p, DOMAIN p = PhoneFields, NEW es, NEW n \in Nat, DOMAIN es = 1 .. n,
           NEW r, r = FoldLeft(ApplyEvent, p, es)
    PROVE  Shows(p, r) /\ Busy(p, r)
<1>7. PICK s : Steps(s, p, es, n, r)
  BY FoldSteps
<1>1. /\ s[0] = p /\ s[n] = r
      /\ \A k \in 0 .. n : k < n => s[k + 1] = ApplyEvent(s[k], es[k + 1])
  BY <1>7 DEF Steps
<1> DEFINE Good(k) == Shows(p, s[k]) /\ Busy(p, s[k])
<1> DEFINE Bad == {k \in 0 .. n : ~Good(k)}
<1>2. Good(0)
  BY <1>1 DEF Shows, Busy
<1>3. ASSUME NEW k \in 0 .. n, k < n, Good(k) PROVE Good(k + 1)
  <2>1. Shows(s[k], s[k + 1]) /\ Busy(s[k], s[k + 1])
    BY <1>1, <1>3, ApplyEventShows DEF Shows
  <2> QED
    BY <1>3, <2>1 DEF Shows, Busy
<1> HIDE DEF Good
<1>4. Bad = {}
  <2> SUFFICES ASSUME Bad # {} PROVE FALSE
    OBVIOUS
  <2>1. PICK k \in Bad : \A y \in Bad : k <= y
    <3>1. Bad \subseteq Nat
      OBVIOUS
    <3> HIDE DEF Bad
    <3> QED
      BY <3>1, LeastOf
  <2>2. k # 0 /\ k \in 0 .. n
    BY <1>2, <2>1
  <2>3. k - 1 \in 0 .. n /\ (k - 1) + 1 = k /\ k - 1 < n /\ k - 1 \notin Bad
    BY <2>1, <2>2
  <2>4. Good((k - 1) + 1)
    BY <1>3, <2>3
  <2> QED
    BY <2>1, <2>3, <2>4
<1>5. Good(n)
  BY <1>4
<1> QED
  BY <1>1, <1>5 DEF Good

\* The phone asks nobody, and is about what it was about or about nothing any more ...
Settled(p, r) ==
    r.out = p.out /\ (r.stage = "none" \/ (r.stage = p.stage /\ r.gen = p.gen))

\* ... or sends a request, of generation g.
Asks(p, r, g) ==
    r.stage # "none" /\ r.gen = g /\ \E x : r.out = Append(p.out, x) /\ x.gen = g

LEMMA ReleaseShows ==
    ASSUME NEW p, DOMAIN p = PhoneFields
    PROVE  Shows(p, ReleasePending(p)) /\ Busy(p, ReleasePending(p))
<1> DEFINE r == [p EXCEPT !.pending = FALSE]
<1>1. ReleasePending(p) \in {p, Schedule(r)}
  BY DEF ReleasePending
<1>2. Shows(p, r) /\ Busy(p, r)
  BY DEF PhoneFields, Shows, Busy
<1> HIDE DEF r
<1>3. Shows(r, Schedule(r)) /\ Busy(r, Schedule(r))
  BY <1>2, ScheduleShows DEF Shows
<1> QED
  BY <1>1, <1>2, <1>3 DEF Shows, Busy

LEMMA BufferedShows ==
    ASSUME NEW p, DOMAIN p = PhoneFields, NEW e
    PROVE  Shows(p, Buffered(p, e)) /\ Busy(p, Buffered(p, e))
<1> DEFINE b1 == Append(p.buffer, e)
<1> DEFINE b2 == Append(Tail(p.buffer), e)
<1>1. Buffered(p, e) \in {[p EXCEPT !.buffer = b1], [p EXCEPT !.buffer = b2, !.overflowed = TRUE]}
  BY DEF Buffered, PhoneFields
<1> HIDE DEF b1, b2
<1>2. /\ Shows(p, [p EXCEPT !.buffer = b1]) /\ Busy(p, [p EXCEPT !.buffer = b1])
      /\ Shows(p, [p EXCEPT !.buffer = b2, !.overflowed = TRUE])
      /\ Busy(p, [p EXCEPT !.buffer = b2, !.overflowed = TRUE])
  BY DEF PhoneFields, Shows, Busy
<1> QED
  BY <1>1, <1>2

LEMMA DrainShows ==
    ASSUME NEW w, WorldOK(w), NEW q, NEW p, DOMAIN p = PhoneFields, BufferOK(w, q, p.buffer)
    PROVE  Shows(p, Drain(p)) /\ Busy(p, Drain(p))
<1> DEFINE s == [p EXCEPT !.buffer = <<>>]
<1> DEFINE es == InOrder(p.buffer)
<1> DEFINE n == Len(p.buffer)
<1> DEFINE r == FoldLeft(ApplyEvent, s, es)
<1> DEFINE t == [r EXCEPT !.overflowed = FALSE]
<1>1. Shows(p, s) /\ Busy(p, s)
  BY DEF PhoneFields, Shows, Busy
<1>2. n \in Nat /\ DOMAIN p.buffer = 1 .. n
  BY DEF BufferOK, IsChannel
<1>3. \A i \in 1 .. n : p.buffer[i].seq \in Nat
  <2> SUFFICES ASSUME NEW i \in 1 .. n PROVE p.buffer[i].seq \in Nat
    OBVIOUS
  <2>1. Carried(w, p.buffer[i].epoch, p.buffer[i].seq)
    BY DEF BufferOK, EventOK, Recorded
  <2> QED
    BY <2>1, WorldTypes DEF Carried
<1>4. DOMAIN es = 1 .. n
  BY <1>2, <1>3, InOrderOnly
<1>5. Drain(p) \in {r, Schedule(t)}
  BY DEF Drain
<1> HIDE DEF s, es, n
<1>6. Shows(s, r) /\ Busy(s, r)
  BY <1>1, <1>2, <1>4, FoldShows DEF Shows
<1> HIDE DEF r
<1>7. Shows(r, t) /\ Busy(r, t)
  BY <1>6 DEF PhoneFields, Shows, Busy
<1> HIDE DEF t
<1>8. Shows(t, Schedule(t)) /\ Busy(t, Schedule(t))
  BY <1>7, ScheduleShows DEF Shows
<1>9. Shows(p, r) /\ Busy(p, r)
  BY <1>1, <1>6 DEF Shows, Busy
<1>10. Shows(r, Schedule(t)) /\ Busy(r, Schedule(t))
  BY <1>7, <1>8 DEF Shows, Busy
<1> QED
  BY <1>5, <1>9, <1>10 DEF Shows, Busy

LEMMA IdleShows ==
    ASSUME NEW p, DOMAIN p = PhoneFields
    PROVE  Shows(p, Idle(p)) /\ Idle(p).stage = "none" /\ Idle(p).out = p.out
           /\ Idle(p).buffer = p.buffer
BY DEF Idle, PhoneFields, Shows

LEMMA FinishedShows ==
    ASSUME NEW w, WorldOK(w), NEW q, NEW p, DOMAIN p = PhoneFields, BufferOK(w, q, p.buffer)
    PROVE  Shows(p, Finished(p)) /\ Finished(p).stage = "none" /\ Finished(p).out = p.out
<1> DEFINE i == Idle(p)
<1> DEFINE s == Drain(i)
<1> DEFINE g == IF s.resyncGen = p.gen THEN 0 ELSE s.resyncGen
<1> DEFINE t == [s EXCEPT !.resyncGen = g]
<1>1. Shows(p, i) /\ i.stage = "none" /\ i.out = p.out /\ i.buffer = p.buffer /\ DOMAIN i = PhoneFields
  BY IdleShows DEF Shows
<1> HIDE DEF i
<1>2. Shows(i, s) /\ Busy(i, s)
  BY <1>1, DrainShows
<1>3. Finished(p) = ReleasePending(t)
  BY <1>2 DEF Finished, PhoneFields, i, Shows
<1> HIDE DEF s, g
<1>4. Shows(s, t) /\ Busy(s, t) /\ DOMAIN t = PhoneFields
  BY <1>2 DEF PhoneFields, Shows, Busy
<1> HIDE DEF t
<1>5. Shows(t, ReleasePending(t)) /\ Busy(t, ReleasePending(t))
  BY <1>4, ReleaseShows
<1>6. Shows(p, s) /\ s.stage = "none" /\ s.out = p.out
  BY <1>1, <1>2 DEF Shows, Busy
<1> QED
  BY <1>3, <1>4, <1>5, <1>6 DEF Shows, Busy

LEMMA SyncingShows ==
    ASSUME NEW p, DOMAIN p = PhoneFields, NEW forced, NEW gen
    PROVE  /\ Shows(p, Syncing(p, forced, gen)) /\ Asks(p, Syncing(p, forced, gen), gen)
           /\ forced => Syncing(p, forced, gen).epoch = p.epoch
<1> DEFINE x1 == Request("sync", gen, 0, 0)
<1> DEFINE x2 == Request("sync", gen, p.disk.epoch, p.disk.seq)
<1> DEFINE o1 == Append(p.out, x1)
<1> DEFINE o2 == Append(p.out, x2)
<1> DEFINE a == [p EXCEPT !.stage = "sync", !.gen = gen, !.out = o1]
<1> DEFINE b == [p EXCEPT !.stage = "sync", !.gen = gen, !.epoch = p.disk.epoch, !.seq = p.disk.seq, !.out = o2]
<1>1. Syncing(p, forced, gen) \in {a, b} /\ (forced => Syncing(p, forced, gen) = a)
  BY DEF Syncing, PhoneFields
<1>2. x1.gen = gen /\ x2.gen = gen
  BY DEF Request
<1> HIDE DEF x1, x2
<1>3. /\ Shows(p, a) /\ Shows(p, b) /\ a.epoch = p.epoch
      /\ a.stage = "sync" /\ a.gen = gen /\ a.out = Append(p.out, x1)
      /\ b.stage = "sync" /\ b.gen = gen /\ b.out = Append(p.out, x2)
  <2> HIDE DEF o1, o2
  <2>1. /\ Shows(p, a) /\ Shows(p, b) /\ a.epoch = p.epoch
        /\ a.stage = "sync" /\ a.gen = gen /\ a.out = o1
        /\ b.stage = "sync" /\ b.gen = gen /\ b.out = o2
    BY DEF PhoneFields, Shows
  <2> QED
    BY <2>1 DEF o1, o2
<1> HIDE DEF a, b
<1>4. Asks(p, a, gen) /\ Asks(p, b, gen)
  BY <1>2, <1>3 DEF Asks
<1> QED
  BY <1>1, <1>3, <1>4

LEMMA SelectingShows ==
    ASSUME NEW p, DOMAIN p = PhoneFields, NEW gen
    PROVE  Shows(p, Selecting(p, gen)) /\ Asks(p, Selecting(p, gen), gen)
<1> DEFINE x == Request("select", gen, 0, 0)
<1> DEFINE o == Append(p.out, x)
<1> DEFINE r == [p EXCEPT !.stage = "select", !.gen = gen, !.reconcile = TRUE, !.buffer = <<>>, !.out = o]
<1>1. Selecting(p, gen) = r
  BY DEF Selecting, PhoneFields
<1>2. x.gen = gen
  BY DEF Request
<1> HIDE DEF x
<1>3. o = Append(p.out, x)
  OBVIOUS
<1> HIDE DEF o
<1>4. Shows(p, r) /\ r.stage = "select" /\ r.gen = gen /\ r.out = o
  BY DEF PhoneFields, Shows
<1> HIDE DEF r
<1> QED
  BY <1>1, <1>2, <1>3, <1>4 DEF Asks

\* What an answer to hub_sync may do to the list: its snapshot goes on from the leaf or
\* is empty, and then nothing is lost, or the list begins anew after what is omitted.
Rebased(p, m, r) ==
    /\ DOMAIN p = PhoneFields /\ DOMAIN r = PhoneFields
    /\ r.conn = p.conn /\ r.listed = p.listed /\ r.leaf \in {p.leaf, m.upto}
    /\ \/ p.view \subseteq r.view
       \/ ~SameBranch(p, m) /\ r.earlier = Omitted(m.upto)

LEMMA RebasedThen ==
    ASSUME NEW p, NEW m, NEW r, NEW t, Rebased(p, m, r), Shows(r, t)
    PROVE  Rebased(p, m, t)
BY DEF Rebased, Shows

LEMMA ShowsRebased ==
    ASSUME NEW p, NEW m, NEW r, Shows(p, r)
    PROVE  Rebased(p, m, r)
BY DEF Rebased, Shows

LEMMA SnapshotShows ==
    ASSUME NEW p, DOMAIN p = PhoneFields, NEW m
    PROVE  Rebased(p, m, ApplySnapshot(p, m)) /\ Busy(p, ApplySnapshot(p, m))
<1>1. CASE m.upto = 0 /\ p.view # {}
  <2>1. ApplySnapshot(p, m) = Schedule(p)
    BY <1>1 DEF ApplySnapshot
  <2>2. Shows(p, Schedule(p)) /\ Busy(p, Schedule(p))
    BY ScheduleShows
  <2> QED
    BY <2>1, <2>2, ShowsRebased
<1>2. CASE ~(m.upto = 0 /\ p.view # {})
  <2> DEFINE s == IF SameBranch(p, m) THEN p ELSE Reset(p)
  <2> DEFINE v == s.view \cup Entries(m.upto)
  <2> DEFINE l == IF m.upto = 0 THEN s.leaf ELSE m.upto
  <2> DEFINE b == IF s.hydrated THEN s.earlier ELSE Omitted(m.upto)
  <2> DEFINE k == IF s.hydrated THEN s.skipped \cup ((p.leaf + 1) .. Omitted(m.upto)) ELSE s.skipped
  <2> DEFINE r == [s EXCEPT !.view = v, !.hydrated = TRUE, !.gapped = FALSE, !.base = m.epoch,
                            !.earlier = b, !.skipped = k, !.leaf = l, !.epoch = m.epoch, !.seq = m.seq]
  <2>1. /\ DOMAIN Reset(p) = PhoneFields /\ Reset(p).leaf = p.leaf /\ Reset(p).conn = p.conn
        /\ Reset(p).listed = p.listed /\ ~Reset(p).hydrated /\ Busy(p, Reset(p))
    BY DEF Reset, PhoneFields, Busy
  <2>2. /\ DOMAIN s = PhoneFields /\ s.leaf = p.leaf /\ s.conn = p.conn /\ s.listed = p.listed /\ Busy(p, s)
        /\ s.view = p.view \/ (~SameBranch(p, m) /\ ~s.hydrated)
    BY <2>1 DEF Busy
  <2>3. ApplySnapshot(p, m) = r
    BY <1>2, <2>2 DEF ApplySnapshot, PhoneFields
  <2> HIDE DEF s
  <2>4. l \in {p.leaf, m.upto} /\ (p.view \subseteq v \/ (~SameBranch(p, m) /\ b = Omitted(m.upto)))
    BY <2>2
  <2> HIDE DEF v, l, b, k
  <2>5. /\ DOMAIN r = PhoneFields /\ r.view = v /\ r.leaf = l /\ r.conn = p.conn /\ r.listed = p.listed
        /\ r.earlier = b /\ Busy(p, r)
    BY <2>2 DEF PhoneFields, Busy
  <2> HIDE DEF r
  <2> QED
    BY <1>2, <2>3, <2>4, <2>5 DEF Rebased
<1> QED
  BY <1>1, <1>2

LEMMA AppliedShows ==
    ASSUME NEW w, WorldOK(w), NEW q, NEW p, DOMAIN p = PhoneFields, NEW m, m.ok, AnswerOK(w, m), Behind(w, q, m.epoch)
    PROVE  Rebased(p, m, Applied(p, m)) /\ Busy(p, Applied(p, m))
<1> DEFINE based == IF m.mode = "snapshot" THEN ApplySnapshot(p, m) ELSE p
<1> DEFINE es == InOrder(SetToSeq({[epoch |-> m.epoch, seq |-> n] : n \in m.events}))
<1> DEFINE r == FoldLeft(ApplyEvent, based, es)
<1> DEFINE g == r.gapNotice /\ ~m.continuous
<1> DEFINE t == [r EXCEPT !.gapNotice = g]
<1> DEFINE c == [epoch |-> t.epoch, seq |-> t.seq]
<1>1. Rebased(p, m, based) /\ Busy(p, based)
  <2>1. Rebased(p, m, p) /\ Busy(p, p)
    BY DEF Rebased, Busy
  <2> QED
    BY <2>1, SnapshotShows
<1>2. PICK n \in Nat : /\ DOMAIN es = 1 .. n
                       /\ \A i \in 1 .. n : EventOK(w, es[i]) /\ Behind(w, q, es[i].epoch)
  BY AnswerEvents
<1> HIDE DEF based, es
<1>3. DOMAIN based = PhoneFields
  BY <1>1 DEF Rebased
<1>4. Shows(based, r) /\ Busy(based, r)
  BY <1>2, <1>3, FoldShows
<1>5. Applied(p, m) = Saved(t)
  <2>1. DOMAIN r = PhoneFields
    BY <1>4 DEF Shows
  <2> QED
    BY <2>1 DEF Applied, PhoneFields, based, es
<1> HIDE DEF r, g
<1>6. Shows(r, t) /\ Busy(r, t)
  BY <1>4 DEF PhoneFields, Shows, Busy
<1>7. Saved(t) = [t EXCEPT !.disk = c]
  BY DEF Saved
<1> HIDE DEF t, c
<1>8. Shows(t, [t EXCEPT !.disk = c]) /\ Busy(t, [t EXCEPT !.disk = c])
  BY <1>6 DEF PhoneFields, Shows, Busy
<1>9. Rebased(p, m, t) /\ Busy(p, t)
  BY <1>1, <1>4, <1>6, RebasedThen DEF Busy
<1>10. Rebased(p, m, Saved(t)) /\ Busy(p, Saved(t))
  BY <1>7, <1>8, <1>9, RebasedThen DEF Busy
<1> QED
  BY <1>5, <1>10

-----------------------------------------------------------------------------
(* The handlers of messages.                                               *)

LEMMA OnEventShows ==
    ASSUME NEW p, DOMAIN p = PhoneFields, NEW m
    PROVE  Shows(p, OnEvent(p, m)) /\ Settled(p, OnEvent(p, m))
<1> DEFINE e == [epoch |-> m.epoch, seq |-> m.seq]
<1>1. OnEvent(p, m) \in {Buffered(p, e), ApplyEvent(p, e)}
  BY DEF OnEvent
<1> HIDE DEF e
<1> QED
  BY <1>1, BufferedShows, ApplyEventShows DEF Busy, Settled

LEMMA OnAnnounceShows ==
    ASSUME NEW p, DOMAIN p = PhoneFields, NEW m
    PROVE  Shows(p, OnAnnounce(p, m)) /\ Settled(p, OnAnnounce(p, m))
<1>1. OnAnnounce(p, m) \in {p, Schedule(p)}
  BY DEF OnAnnounce
<1>2. Shows(p, p)
  BY DEF Shows
<1> QED
  BY <1>1, <1>2, ScheduleShows DEF Busy, Settled

LEMMA OnSelectedShows ==
    ASSUME NEW p, DOMAIN p = PhoneFields, NEW m
    PROVE  /\ Shows(p, OnSelected(p, m))
           /\ \/ Settled(p, OnSelected(p, m))
              \/ Asks(p, OnSelected(p, m), p.gen) /\ m.gen = p.gen /\ p.stage = "select"
<1> DEFINE s == [p EXCEPT !.epoch = m.epoch]
<1>1. \/ OnSelected(p, m) \in {p, Idle(p)}
      \/ OnSelected(p, m) = Syncing(s, TRUE, p.gen) /\ m.gen = p.gen /\ p.stage = "select"
  BY DEF OnSelected
<1>2. Shows(p, p) /\ Settled(p, p) /\ Shows(p, Idle(p)) /\ Settled(p, Idle(p))
  BY IdleShows DEF Shows, Settled
<1>3. Shows(p, s) /\ s.out = p.out
  BY DEF PhoneFields, Shows
<1> HIDE DEF s
<1>4. Shows(s, Syncing(s, TRUE, p.gen)) /\ Asks(s, Syncing(s, TRUE, p.gen), p.gen)
  <2>1. DOMAIN s = PhoneFields
    BY <1>3 DEF Shows
  <2> QED
    BY <2>1, SyncingShows
<1>5. Shows(p, Syncing(s, TRUE, p.gen)) /\ Asks(p, Syncing(s, TRUE, p.gen), p.gen)
  BY <1>3, <1>4 DEF Shows, Asks
<1> QED
  BY <1>1, <1>2, <1>5

LEMMA OnSyncedShows ==
    ASSUME NEW w, WorldOK(w), NEW q, NEW p, PhoneOK(w, q, p), NEW m, m.ok => AnswerOK(w, m) /\ Behind(w, q, m.epoch),
           w.log = log
    PROVE  LET r == OnSynced(p, m)
           IN \/ Shows(p, r) /\ Settled(p, r)
              \/ /\ m.ok /\ m.gen = p.gen /\ p.stage = "sync" /\ Rebased(p, m, r)
                 /\ \/ r.stage = "none" /\ r.out = p.out
                    \/ Asks(p, r, p.gen)
<1> DEFINE a == [p EXCEPT !.resyncGen = 0]
<1> DEFINE b == [p EXCEPT !.pending = TRUE]
<1>1. DOMAIN p = PhoneFields /\ BufferOK(w, q, p.buffer)
  BY DEF PhoneOK, Core, Buffers
<1>2. Shows(p, a) /\ Busy(p, a)
  BY <1>1 DEF PhoneFields, Shows, Busy
<1>3. Shows(p, b) /\ b.buffer = p.buffer /\ b.out = p.out
  BY <1>1 DEF PhoneFields, Shows
<1>4. \/ OnSynced(p, m) \in {p, ReleasePending(a), Finished(b)}
      \/ /\ m.ok /\ m.gen = p.gen /\ p.stage = "sync"
         /\ OnSynced(p, m) \in {Syncing(Applied(p, m), FALSE, p.gen), Finished(Applied(p, m))}
  BY DEF OnSynced
<1> HIDE DEF a, b
<1>5. Shows(p, p) /\ Settled(p, p)
  BY <1>1 DEF Shows, Settled
<1>6. Shows(p, ReleasePending(a)) /\ Settled(p, ReleasePending(a))
  BY <1>2, ReleaseShows DEF Shows, Busy, Settled
<1>7. Shows(p, Finished(b)) /\ Settled(p, Finished(b))
  <2>1. Shows(b, Finished(b)) /\ Finished(b).stage = "none" /\ Finished(b).out = b.out
    BY <1>1, <1>3, FinishedShows DEF Shows
  <2> QED
    BY <1>3, <2>1 DEF Shows, Settled
<1>8. ASSUME m.ok
      PROVE  /\ Rebased(p, m, Syncing(Applied(p, m), FALSE, p.gen)) /\ Asks(p, Syncing(Applied(p, m), FALSE, p.gen), p.gen)
             /\ Rebased(p, m, Finished(Applied(p, m)))
             /\ Finished(Applied(p, m)).stage = "none" /\ Finished(Applied(p, m)).out = p.out
  <2> DEFINE r == Applied(p, m)
  <2>1. Rebased(p, m, r) /\ Busy(p, r)
    BY <1>1, <1>8, AppliedShows
  <2>2. PhoneOK(w, q, r)
    BY <1>8, AppliedKeeps
  <2>3. DOMAIN r = PhoneFields /\ BufferOK(w, q, r.buffer)
    BY <2>2 DEF PhoneOK, Core, Buffers
  <2> HIDE DEF r
  <2>4. Shows(r, Syncing(r, FALSE, p.gen)) /\ Asks(r, Syncing(r, FALSE, p.gen), p.gen)
    BY <2>3, SyncingShows
  <2>5. Shows(r, Finished(r)) /\ Finished(r).stage = "none" /\ Finished(r).out = r.out
    BY <2>3, FinishedShows
  <2>6. Asks(p, Syncing(r, FALSE, p.gen), p.gen) /\ Finished(r).out = p.out
    BY <2>1, <2>4, <2>5 DEF Busy, Asks
  <2>7. Rebased(p, m, Syncing(r, FALSE, p.gen)) /\ Rebased(p, m, Finished(r))
    BY <2>1, <2>4, <2>5, RebasedThen
  <2> QED
    BY <2>5, <2>6, <2>7 DEF r
<1> QED
  BY <1>4, <1>5, <1>6, <1>7, <1>8

\* A list of the sources voids the history only for another epoch.
LEMMA OnSourcesShows ==
    ASSUME NEW p, DOMAIN p = PhoneFields, NEW m
    PROVE  LET r == OnSources(p, m)
           IN /\ DOMAIN r = PhoneFields /\ r.conn = p.conn /\ r.listed = m.epoch /\ r.leaf \in {0, p.leaf}
              /\ \/ p.view \subseteq r.view
                 \/ p.listed # 0 /\ m.epoch # p.listed /\ r.epoch = m.epoch
              /\ Asks(p, r, FreshGen) \/ (Settled(p, r) /\ r.leaf = p.leaf)
<1> DEFINE s == [p EXCEPT !.listed = m.epoch, !.online = m.online]
<1> DEFINE a == [Reset(s) EXCEPT !.leaf = 0, !.buffer = <<>>, !.reconcile = FALSE, !.epoch = m.epoch, !.seq = 0]
<1> DEFINE b == [s EXCEPT !.epoch = m.epoch]
<1> DEFINE c == [s EXCEPT !.epoch = m.epoch, !.reconcile = TRUE]
<1>1. /\ DOMAIN s = PhoneFields /\ s.listed = m.epoch /\ s.conn = p.conn /\ s.leaf = p.leaf /\ s.view = p.view
      /\ Busy(p, s)
  BY DEF PhoneFields, Busy
<1>2. \/ OnSources(p, m) \in {Syncing(c, TRUE, FreshGen), b}
      \/ OnSources(p, m) = Syncing(a, TRUE, FreshGen) /\ p.listed # 0 /\ m.epoch # p.listed
  BY DEF OnSources
<1> HIDE DEF s
<1>3. Shows(s, b) /\ Busy(s, b) /\ Shows(s, c) /\ Busy(s, c)
  BY <1>1 DEF PhoneFields, Shows, Busy
<1>4. /\ DOMAIN a = PhoneFields /\ a.leaf = 0 /\ a.epoch = m.epoch /\ a.conn = p.conn /\ a.listed = m.epoch
      /\ a.out = p.out
  <2> DEFINE t == Reset(s)
  <2>1. DOMAIN t = PhoneFields /\ t.conn = p.conn /\ t.listed = m.epoch /\ t.out = p.out
    BY <1>1 DEF Reset, PhoneFields, Busy
  <2> HIDE DEF t
  <2>2. a = [t EXCEPT !.leaf = 0, !.buffer = <<>>, !.reconcile = FALSE, !.epoch = m.epoch, !.seq = 0]
    BY DEF t
  <2> QED
    BY <2>1, <2>2 DEF PhoneFields
<1> HIDE DEF a, b, c
<1>5. /\ Shows(a, Syncing(a, TRUE, FreshGen)) /\ Asks(a, Syncing(a, TRUE, FreshGen), FreshGen)
      /\ Syncing(a, TRUE, FreshGen).epoch = a.epoch
  BY <1>4, SyncingShows
<1>6. Shows(c, Syncing(c, TRUE, FreshGen)) /\ Asks(c, Syncing(c, TRUE, FreshGen), FreshGen)
  <2>1. DOMAIN c = PhoneFields
    BY <1>3 DEF Shows
  <2> QED
    BY <2>1, SyncingShows
<1>7. CASE OnSources(p, m) = b
  BY <1>1, <1>3, <1>7 DEF Shows, Busy, Settled
<1>8. CASE OnSources(p, m) = Syncing(c, TRUE, FreshGen)
  BY <1>1, <1>3, <1>6, <1>8 DEF Shows, Busy, Asks
<1>9. CASE OnSources(p, m) = Syncing(a, TRUE, FreshGen) /\ p.listed # 0 /\ m.epoch # p.listed
  BY <1>4, <1>5, <1>9 DEF Shows, Asks
<1> QED
  BY <1>2, <1>7, <1>8, <1>9

-----------------------------------------------------------------------------
(* What is under way between the hub and the phone.                        *)

\* What is said of the source has been told of in a list of the sources by then ...
Announced(q, l, i, e) ==
    e <= l \/ \E j \in 1 .. i : q[j].kind = "sources" /\ e <= q[j].epoch

\* ... and no list on its way takes the phone back: q is on its way to a phone that has
\* been told of epoch l, and the hub is in epoch e.
Listing(q, l, e) ==
    /\ l \in 0 .. e
    /\ \A i \in 1 .. Len(q) : Dated(q[i]) => q[i].epoch \in 0 .. e /\ Announced(q, l, i, q[i].epoch)
    /\ \A i \in 1 .. Len(q) : Dates(q[i]) => l <= q[i].epoch
    /\ Announced(q, l, Len(q), e)

\* Whatever the phone remembers is of epochs it has been told of.
Within(p, l) ==
    /\ p.epoch <= l /\ p.disk.epoch <= l
    /\ \A i \in 1 .. Len(p.buffer) : p.buffer[i].epoch <= l

News == {"event", "announce", "sources"}
Requests == {"select", "sync"}
Replies == {"selected", "synced"}
IsAnswer(m) == m.kind = "synced" /\ m.ok

\* A request that waits has the answer it had before.
Waits(q) ==
    /\ q.kind \in Requests
    /\ q.kind = "sync" => IsAnswer(q.answer) /\ q.answer.gen = q.gen

\* A request of generation g, or the answer to it.
Bears(m, g) == m.kind \in Requests \cup Replies /\ m.gen = g
Free(s, g) == \A i \in 1 .. Len(s) : ~Bears(s[i], g)
Single(s, g) == \A i, j \in 1 .. Len(s) : Bears(s[i], g) /\ Bears(s[j], g) => i = j

\* At most one is under way, and what it answers does not go behind the leaf l: h is
\* on its way to the hub, b waits there, q is on its way to the phone.
Turn(h, b, q, g, l, u) ==
    /\ Single(h, g) /\ Single(b, g) /\ Single(q, g)
    /\ \/ Free(h, g) /\ Free(b, g)
       \/ Free(h, g) /\ Free(q, g)
       \/ Free(b, g) /\ Free(q, g)
    /\ \A i \in 1 .. Len(q) : IsAnswer(q[i]) /\ q[i].gen = g => q[i].upto \in l .. u
    /\ \A i \in 1 .. Len(b) : b[i].kind = "sync" /\ b[i].gen = g => b[i].answer.upto \in l .. u

\* All of that for phone p, if the hub's record is of epoch e and has upto = u.
Wire(q, b, h, p, e, u) ==
    /\ IsChannel(q) /\ IsChannel(b) /\ IsChannel(h)
    /\ e \in Nat /\ u \in Nat /\ p.leaf \in 0 .. u
    /\ \A i \in 1 .. Len(q) : q[i].kind \in News \cup Replies
    /\ \A i \in 1 .. Len(b) : Waits(b[i])
    /\ p.conn => Listing(q, p.listed, e)
    /\ ~p.conn => q = <<>> /\ b = <<>> /\ h = <<>> /\ p.stage = "none"
    /\ p.stage # "none" => Turn(h, b, q, p.gen, p.leaf, u)

\* The snapshots on their way to the hub have ever more items, at least n.
Snaps(f) == f.kind \in {"register", "snapshot"}
Rising(s, n) ==
    /\ \A i \in 1 .. Len(s) : Snaps(s[i]) => n <= s[i].upto
    /\ \A i, j \in 1 .. Len(s) : i < j /\ Snaps(s[i]) /\ Snaps(s[j]) => s[i].upto <= s[j].upto
Floor == IF desk = "registering" THEN registration.upto ELSE recUpto

\* The inductive invariant behind ShownStaysShown.
ShowInv ==
    /\ recUpto <= Floor /\ Rising(up, Floor)
    /\ phone.conn => Within(phone, phone.listed)
    /\ ~phone.conn => ~selected
    /\ Wire(toPhone, waiting, toHub, phone, rec.epoch, recUpto)

-----------------------------------------------------------------------------
(* A message more on the way to the phone.                                 *)

LEMMA SentOne ==
    ASSUME NEW q, IsChannel(q), NEW m
    PROVE  /\ IsChannel(q \o <<m>>) /\ Len(q) \in Nat /\ Len(q \o <<m>>) = Len(q) + 1
           /\ (q \o <<m>>)[Len(q) + 1] = m
           /\ \A i \in 1 .. Len(q) : (q \o <<m>>)[i] = q[i]
           /\ \A i \in 1 .. Len(q \o <<m>>) : i \in 1 .. Len(q) \/ i = Len(q) + 1
<1>1. q \o <<m>> = Append(q, m)
  <2>1. PICK S : q \in Seq(S)
    BY DEF IsChannel
  <2> QED
    BY <2>1
<1>2. /\ IsChannel(Append(q, m)) /\ Len(q) \in Nat /\ Len(Append(q, m)) = Len(q) + 1
      /\ Append(q, m)[Len(q) + 1] = m
      /\ \A i \in 1 .. Len(q) : Append(q, m)[i] = q[i]
  BY Appended
<1>3. \A i \in 1 .. Len(Append(q, m)) : i \in 1 .. Len(q) \/ i = Len(q) + 1
  BY <1>2
<1> QED
  BY <1>1, <1>2, <1>3

LEMMA AnnouncedMore ==
    ASSUME NEW q, IsChannel(q), NEW m, NEW l, NEW i \in 1 .. Len(q), NEW e, Announced(q, l, i, e)
    PROVE  Announced(q \o <<m>>, l, i, e)
<1>1. \A j \in 1 .. i : (q \o <<m>>)[j] = q[j]
  BY SentOne
<1> QED
  BY <1>1 DEF Announced

LEMMA ListingMore ==
    ASSUME NEW q, IsChannel(q), NEW l, NEW e \in Nat, Listing(q, l, e), NEW m, NEW f \in Nat, e <= f,
           Dated(m) => m.epoch \in 0 .. f, Dates(m) => m.epoch = f,
           f = e \/ m.kind = "sources"
    PROVE  Listing(q \o <<m>>, l, f)
<1> DEFINE t == q \o <<m>>
<1> DEFINE n == Len(q)
<1>1. /\ IsChannel(t) /\ n \in Nat /\ Len(t) = n + 1 /\ t[n + 1] = m
      /\ \A i \in 1 .. n : t[i] = q[i]
      /\ \A i \in 1 .. Len(t) : i \in 1 .. n \/ i = n + 1
  BY SentOne
<1>2. \A i \in 1 .. n : \A x : Announced(q, l, i, x) => Announced(t, l, i, x)
  BY AnnouncedMore
<1> HIDE DEF t, n
<1>3. l \in 0 .. e /\ l \in 0 .. f
  BY DEF Listing
<1>4. ASSUME NEW x \in 0 .. f PROVE Announced(t, l, n + 1, x)
  <2>1. CASE m.kind = "sources"
    <3>1. m.epoch = f /\ n + 1 \in 1 .. n + 1
      BY <1>1, <2>1 DEF Dates
    <3> QED
      BY <1>1, <2>1, <3>1 DEF Announced
  <2>2. CASE f = e
    <3>1. Announced(q, l, n, e)
      BY DEF Listing, n
    <3>2. CASE e <= l
      BY <1>3, <2>2, <3>2 DEF Announced
    <3>3. CASE \E j \in 1 .. n : q[j].kind = "sources" /\ e <= q[j].epoch
      <4>1. PICK j \in 1 .. n : q[j].kind = "sources" /\ e <= q[j].epoch
        BY <3>3
      <4>2. q[j].epoch \in 0 .. e
        BY <4>1 DEF Listing, Dated, Dates, n
      <4>3. x <= t[j].epoch /\ t[j].kind = "sources" /\ j \in 1 .. n + 1
        BY <1>1, <2>2, <4>1, <4>2
      <4> QED
        BY <4>3 DEF Announced
    <3> QED
      BY <3>1, <3>2, <3>3 DEF Announced
  <2> QED
    BY <2>1, <2>2
<1>5. ASSUME NEW i \in 1 .. Len(t), Dated(t[i])
      PROVE  t[i].epoch \in 0 .. f /\ Announced(t, l, i, t[i].epoch)
  <2>1. CASE i \in 1 .. n
    <3>1. q[i].epoch \in 0 .. e /\ Announced(q, l, i, q[i].epoch)
      BY <1>1, <1>5, <2>1 DEF Listing, n
    <3> QED
      BY <1>1, <1>2, <2>1, <3>1
  <2>2. CASE i = n + 1
    BY <1>1, <1>4, <1>5, <2>2
  <2> QED
    BY <1>1, <2>1, <2>2
<1>6. ASSUME NEW i \in 1 .. Len(t), Dates(t[i])
      PROVE  l <= t[i].epoch
  <2>1. CASE i \in 1 .. n
    BY <1>1, <1>6, <2>1 DEF Listing, n
  <2>2. CASE i = n + 1
    BY <1>1, <1>3, <1>6, <2>2
  <2> QED
    BY <1>1, <2>1, <2>2
<1>7. Announced(t, l, Len(t), f)
  BY <1>1, <1>4
<1>8. Listing(t, l, f)
  BY <1>3, <1>5, <1>6, <1>7 DEF Listing
<1> QED
  BY <1>8 DEF t

\* A message that is no answer leaves the turn alone.
LEMMA TurnMore ==
    ASSUME NEW q, IsChannel(q), NEW m, m.kind \in News, NEW h, NEW b, NEW g, NEW l, NEW u, Turn(h, b, q, g, l, u)
    PROVE  Turn(h, b, q \o <<m>>, g, l, u)
<1> DEFINE t == q \o <<m>>
<1> DEFINE n == Len(q)
<1>1. /\ IsChannel(t) /\ n \in Nat /\ Len(t) = n + 1 /\ t[n + 1] = m
      /\ \A i \in 1 .. n : t[i] = q[i]
      /\ \A i \in 1 .. Len(t) : i \in 1 .. n \/ i = n + 1
  BY SentOne
<1> HIDE DEF t
<1>2. ~Bears(m, g) /\ ~IsAnswer(m)
  BY DEF News, Bears, Requests, Replies, IsAnswer
<1>3. \A i \in 1 .. Len(t) : Bears(t[i], g) => i \in 1 .. n /\ t[i] = q[i]
  BY <1>1, <1>2
<1>4. Single(t, g) /\ (Free(q, g) => Free(t, g))
  BY <1>3 DEF Single, Free, Turn
<1>5. \A i \in 1 .. Len(t) : IsAnswer(t[i]) /\ t[i].gen = g => t[i].upto \in l .. u
  BY <1>1, <1>2 DEF Turn
<1>6. Turn(h, b, t, g, l, u)
  BY <1>4, <1>5 DEF Turn
<1> QED
  BY <1>6 DEF t

LEMMA WireMore ==
    ASSUME NEW q, NEW b, NEW h, NEW p, NEW e, NEW u, Wire(q, b, h, p, e, u), p.conn,
           NEW m, m.kind \in News, NEW f \in Nat, e <= f,
           Dated(m) => m.epoch \in 0 .. f, Dates(m) => m.epoch = f,
           f = e \/ m.kind = "sources"
    PROVE  Wire(q \o <<m>>, b, h, p, f, u)
<1>1. IsChannel(q) /\ e \in Nat
  BY DEF Wire
<1>2. Listing(q \o <<m>>, p.listed, f)
  BY <1>1, ListingMore DEF Wire
<1>3. p.stage # "none" => Turn(h, b, q \o <<m>>, p.gen, p.leaf, u)
  BY <1>1, TurnMore DEF Wire
<1>4. \A i \in 1 .. Len(q \o <<m>>) : (q \o <<m>>)[i].kind \in News \cup Replies
  BY <1>1, SentOne DEF Wire
<1>5. IsChannel(q \o <<m>>)
  BY <1>1, SentOne
<1> QED
  BY <1>2, <1>3, <1>4, <1>5 DEF Wire

\* The hub's snapshot has more items.
LEMMA WireUpto ==
    ASSUME NEW q, NEW b, NEW h, NEW p, NEW e, NEW u, Wire(q, b, h, p, e, u), NEW v \in Nat, u <= v
    PROVE  Wire(q, b, h, p, e, v)
<1>1. p.leaf \in 0 .. v /\ p.leaf \in Nat /\ u \in Nat
  BY DEF Wire
<1>2. ASSUME p.stage # "none" PROVE Turn(h, b, q, p.gen, p.leaf, v)
  <2>1. Turn(h, b, q, p.gen, p.leaf, u)
    BY <1>2 DEF Wire
  <2>2. \A x : x \in p.leaf .. u => x \in p.leaf .. v
    BY <1>1
  <2> QED
    BY <2>1, <2>2 DEF Turn
<1> QED
  BY <1>1, <1>2 DEF Wire

\* The oldest one is taken.
LEMMA TakenOne ==
    ASSUME NEW s, IsChannel(s), s # <<>>
    PROVE  /\ IsChannel(Tail(s)) /\ Len(s) \in Nat /\ Len(s) >= 1 /\ 1 \in 1 .. Len(s) /\ Head(s) = s[1]
           /\ \A i \in 1 .. Len(Tail(s)) : i + 1 \in 1 .. Len(s) /\ Tail(s)[i] = s[i + 1]
           /\ Len(Tail(s)) = Len(s) - 1
<1>1. /\ IsChannel(Tail(s)) /\ Len(s) \in Nat /\ Len(s) >= 1 /\ Len(Tail(s)) = Len(s) - 1
      /\ Head(s) = s[1] /\ \A i \in 1 .. Len(s) - 1 : Tail(s)[i] = s[i + 1]
  BY Tailed
<1> QED
  BY <1>1

LEMMA TakenBears ==
    ASSUME NEW s, IsChannel(s), s # <<>>, NEW g, Single(s, g)
    PROVE  /\ Single(Tail(s), g) /\ (Free(s, g) => Free(Tail(s), g) /\ ~Bears(Head(s), g))
           /\ Bears(Head(s), g) => Free(Tail(s), g)
<1> DEFINE t == Tail(s)
<1>1. /\ Len(s) \in Nat /\ 1 \in 1 .. Len(s) /\ Head(s) = s[1]
      /\ \A i \in 1 .. Len(t) : i + 1 \in 1 .. Len(s) /\ t[i] = s[i + 1]
  BY TakenOne
<1> HIDE DEF t
<1>2. Single(t, g)
  <2> SUFFICES ASSUME NEW i \in 1 .. Len(t), NEW j \in 1 .. Len(t), Bears(t[i], g), Bears(t[j], g) PROVE i = j
    BY DEF Single
  <2>1. i + 1 = j + 1
    BY <1>1 DEF Single
  <2> QED
    BY <2>1
<1>3. Free(s, g) => Free(t, g) /\ ~Bears(Head(s), g)
  BY <1>1 DEF Free
<1>4. ASSUME Bears(Head(s), g) PROVE Free(t, g)
  <2> SUFFICES ASSUME NEW i \in 1 .. Len(t), Bears(t[i], g) PROVE FALSE
    BY DEF Free
  <2>1. i + 1 = 1
    BY <1>1, <1>4 DEF Single
  <2> QED
    BY <2>1
<1> QED
  BY <1>2, <1>3, <1>4 DEF t

LEMMA SentBears ==
    ASSUME NEW s, IsChannel(s), NEW m, NEW g
    PROVE  /\ Single(s, g) /\ ~Bears(m, g) => Single(s \o <<m>>, g)
           /\ Free(s, g) => Single(s \o <<m>>, g)
           /\ Free(s, g) /\ ~Bears(m, g) => Free(s \o <<m>>, g)
<1> DEFINE t == s \o <<m>>
<1> DEFINE n == Len(s)
<1>1. /\ n \in Nat /\ Len(t) = n + 1 /\ t[n + 1] = m
      /\ \A i \in 1 .. n : t[i] = s[i]
      /\ \A i \in 1 .. Len(t) : i \in 1 .. n \/ i = n + 1
  BY SentOne
<1> HIDE DEF t
<1>2. Free(s, g) => \A i \in 1 .. Len(t) : Bears(t[i], g) => i = n + 1
  BY <1>1 DEF Free
<1>3. ~Bears(m, g) => \A i \in 1 .. Len(t) : Bears(t[i], g) => i \in 1 .. n /\ t[i] = s[i]
  BY <1>1
<1>4. /\ Single(s, g) /\ ~Bears(m, g) => Single(t, g)
      /\ Free(s, g) => Single(t, g)
      /\ Free(s, g) /\ ~Bears(m, g) => Free(t, g)
  BY <1>2, <1>3 DEF Single, Free
<1> QED
  BY <1>4 DEF t

\* The hub answers a request at once ...
LEMMA TurnAnswered ==
    ASSUME NEW q, IsChannel(q), NEW b, NEW h, IsChannel(h), h # <<>>, NEW g, NEW l \in Nat, NEW u \in Nat, l <= u,
           Turn(h, b, q, g, l, u), Head(h).kind \in Requests, NEW m, m.kind \in Replies, m.gen = Head(h).gen,
           IsAnswer(m) => m.upto = u
    PROVE  Turn(Tail(h), b, q \o <<m>>, g, l, u)
<1> DEFINE t == q \o <<m>>
<1>1. Single(Tail(h), g) /\ (Free(h, g) => Free(Tail(h), g) /\ ~Bears(Head(h), g)) /\ (Bears(Head(h), g) => Free(Tail(h), g))
  BY TakenBears DEF Turn
<1>2. Bears(m, g) <=> Bears(Head(h), g)
  BY DEF Bears
<1>3. /\ Single(q, g) /\ ~Bears(m, g) => Single(t, g)
      /\ Free(q, g) => Single(t, g)
      /\ Free(q, g) /\ ~Bears(m, g) => Free(t, g)
  BY SentBears
<1>4. /\ Len(q) \in Nat /\ Len(t) = Len(q) + 1 /\ t[Len(q) + 1] = m
      /\ \A i \in 1 .. Len(q) : t[i] = q[i]
      /\ \A i \in 1 .. Len(t) : i \in 1 .. Len(q) \/ i = Len(q) + 1
  BY SentOne
<1> HIDE DEF t
<1>5. \A i \in 1 .. Len(t) : IsAnswer(t[i]) /\ t[i].gen = g => t[i].upto \in l .. u
  BY <1>4 DEF Turn
<1>6. Bears(Head(h), g) => ~Free(h, g)
  BY <1>1
<1>7. CASE Bears(m, g)
  BY <1>1, <1>2, <1>3, <1>5, <1>6, <1>7 DEF Turn, t
<1>8. CASE ~Bears(m, g)
  <2>1. Single(t, g) /\ (Free(q, g) => Free(t, g)) /\ (Free(h, g) => Free(Tail(h), g))
    BY <1>1, <1>3, <1>8 DEF Turn
  <2> QED
    BY <1>1, <1>5, <2>1 DEF Turn, t
<1> QED
  BY <1>7, <1>8

LEMMA WireAnswered ==
    ASSUME NEW q, NEW b, NEW h, NEW p, NEW e, NEW u, Wire(q, b, h, p, e, u), h # <<>>, Head(h).kind \in Requests,
           NEW m, m.kind \in Replies, m.gen = Head(h).gen, Dates(m) => m.epoch = e,
           IsAnswer(m) => m.epoch \in 0 .. e /\ m.upto = u
    PROVE  Wire(q \o <<m>>, b, Tail(h), p, e, u)
<1>1. IsChannel(q) /\ IsChannel(h) /\ e \in Nat /\ p.conn /\ u \in Nat /\ p.leaf \in 0 .. u
  BY DEF Wire
<1>2. Listing(q \o <<m>>, p.listed, e)
  <2>1. Dated(m) => m.epoch \in 0 .. e
    BY <1>1 DEF Dated, Dates, Replies, IsAnswer
  <2> QED
    BY <1>1, <2>1, ListingMore DEF Wire
<1>3. ASSUME p.stage # "none" PROVE Turn(Tail(h), b, q \o <<m>>, p.gen, p.leaf, u)
  <2>1. Turn(h, b, q, p.gen, p.leaf, u) /\ p.leaf \in Nat /\ p.leaf <= u
    BY <1>1, <1>3 DEF Wire
  <2> QED
    BY <1>1, <2>1, TurnAnswered
<1>4. \A i \in 1 .. Len(q \o <<m>>) : (q \o <<m>>)[i].kind \in News \cup Replies
  BY <1>1, SentOne, SMTT(30) DEF Wire
<1>5. IsChannel(q \o <<m>>) /\ IsChannel(Tail(h))
  BY <1>1, SentOne, TakenOne
<1> QED
  BY <1>1, <1>2, <1>3, <1>4, <1>5 DEF Wire

\* ... or has it wait.
LEMMA TurnWaits ==
    ASSUME NEW q, NEW b, IsChannel(b), NEW h, IsChannel(h), h # <<>>, NEW g, NEW l \in Nat, NEW u \in Nat, l <= u,
           Turn(h, b, q, g, l, u), Head(h).kind \in Requests, NEW x, Waits(x), x.gen = Head(h).gen,
           x.kind = "sync" => x.answer.upto = u
    PROVE  Turn(Tail(h), b \o <<x>>, q, g, l, u)
<1> DEFINE t == b \o <<x>>
<1>1. Single(Tail(h), g) /\ (Free(h, g) => Free(Tail(h), g) /\ ~Bears(Head(h), g)) /\ (Bears(Head(h), g) => Free(Tail(h), g))
  BY TakenBears DEF Turn
<1>2. Bears(x, g) <=> Bears(Head(h), g)
  BY DEF Bears, Waits
<1>3. /\ Single(b, g) /\ ~Bears(x, g) => Single(t, g)
      /\ Free(b, g) => Single(t, g)
      /\ Free(b, g) /\ ~Bears(x, g) => Free(t, g)
  BY SentBears
<1>4. /\ Len(b) \in Nat /\ Len(t) = Len(b) + 1 /\ t[Len(b) + 1] = x
      /\ \A i \in 1 .. Len(b) : t[i] = b[i]
      /\ \A i \in 1 .. Len(t) : i \in 1 .. Len(b) \/ i = Len(b) + 1
  BY SentOne
<1> HIDE DEF t
<1>5. \A i \in 1 .. Len(t) : t[i].kind = "sync" /\ t[i].gen = g => t[i].answer.upto \in l .. u
  BY <1>4 DEF Turn
<1>6. Bears(Head(h), g) => ~Free(h, g)
  BY <1>1
<1>7. CASE Bears(x, g)
  BY <1>1, <1>2, <1>3, <1>5, <1>6, <1>7 DEF Turn, t
<1>8. CASE ~Bears(x, g)
  <2>1. Single(t, g) /\ (Free(b, g) => Free(t, g)) /\ (Free(h, g) => Free(Tail(h), g))
    BY <1>1, <1>3, <1>8 DEF Turn
  <2> QED
    BY <1>1, <1>5, <2>1 DEF Turn, t
<1> QED
  BY <1>7, <1>8

LEMMA WireWaits ==
    ASSUME NEW q, NEW b, NEW h, NEW p, NEW e, NEW u, Wire(q, b, h, p, e, u), h # <<>>, Head(h).kind \in Requests,
           NEW x, Waits(x), x.gen = Head(h).gen, x.kind = "sync" => x.answer.upto = u
    PROVE  Wire(q, b \o <<x>>, Tail(h), p, e, u)
<1>1. IsChannel(b) /\ IsChannel(h) /\ p.conn /\ u \in Nat /\ p.leaf \in 0 .. u
  BY DEF Wire
<1>2. ASSUME p.stage # "none" PROVE Turn(Tail(h), b \o <<x>>, q, p.gen, p.leaf, u)
  <2>1. Turn(h, b, q, p.gen, p.leaf, u) /\ p.leaf \in Nat /\ p.leaf <= u
    BY <1>1, <1>2 DEF Wire
  <2> QED
    BY <1>1, <2>1, TurnWaits
<1>3. \A i \in 1 .. Len(b \o <<x>>) : Waits((b \o <<x>>)[i])
  BY <1>1, SentOne, SMTT(30) DEF Wire
<1>4. IsChannel(b \o <<x>>) /\ IsChannel(Tail(h))
  BY <1>1, SentOne, TakenOne
<1> QED
  BY <1>1, <1>2, <1>3, <1>4 DEF Wire

\* The requests b that waited are answered for by ys, in order.
Resumes(b, ys, e, u) ==
    /\ IsChannel(ys) /\ Len(ys) = Len(b)
    /\ \A i \in 1 .. Len(b) :
           /\ ys[i].kind \in Replies /\ ys[i].gen = b[i].gen
           /\ Dates(ys[i]) => ys[i].epoch = e
           /\ IsAnswer(ys[i]) => /\ ys[i].epoch \in 0 .. e
                                 /\ ys[i].upto = u \/ (b[i].kind = "sync" /\ ys[i] = b[i].answer)

LEMMA ListingResumed ==
    ASSUME NEW q, IsChannel(q), NEW l, NEW e \in Nat, Listing(q, l, e), NEW b, NEW u, NEW ys, Resumes(b, ys, e, u)
    PROVE  Listing(q \o ys, l, e)
<1> DEFINE t == q \o ys
<1> DEFINE n == Len(q)
<1>1. /\ n \in Nat /\ Len(t) = n + Len(ys) /\ Len(ys) \in Nat
      /\ \A i \in 1 .. n : t[i] = q[i]
      /\ \A i \in 1 .. Len(t) : i > n => i - n \in 1 .. Len(ys) /\ t[i] = ys[i - n]
  BY JoinedChannel DEF Resumes
<1> HIDE DEF t, n
<1>2. \A i \in 1 .. Len(ys) : Dates(ys[i]) => ys[i].epoch = e
  BY DEF Resumes
<1>3. \A i \in 1 .. Len(ys) : Dated(ys[i]) => ys[i].epoch \in 0 .. e
  BY <1>2 DEF Resumes, Dated, IsAnswer, Replies
<1>4. l \in 0 .. e
  BY DEF Listing
<1>5. ASSUME NEW i \in n .. Len(t), NEW x \in 0 .. e PROVE Announced(t, l, i, x)
  <2>1. Announced(q, l, n, e)
    BY DEF Listing, n
  <2>2. CASE e <= l
    BY <1>4, <2>2 DEF Announced
  <2>3. CASE \E j \in 1 .. n : q[j].kind = "sources" /\ e <= q[j].epoch
    <3>1. PICK j \in 1 .. n : q[j].kind = "sources" /\ e <= q[j].epoch
      BY <2>3
    <3>2. q[j].epoch \in 0 .. e
      BY <3>1 DEF Listing, Dated, Dates, n
    <3>3. x <= t[j].epoch /\ t[j].kind = "sources" /\ j \in 1 .. i
      BY <1>1, <3>1, <3>2
    <3> QED
      BY <3>3 DEF Announced
  <2> QED
    BY <2>1, <2>2, <2>3 DEF Announced
<1>6. ASSUME NEW i \in 1 .. n, NEW x, Announced(q, l, i, x) PROVE Announced(t, l, i, x)
  <2>1. \A j \in 1 .. i : t[j] = q[j]
    BY <1>1
  <2> QED
    BY <1>6, <2>1 DEF Announced
<1>7. ASSUME NEW i \in 1 .. Len(t), Dated(t[i])
      PROVE  t[i].epoch \in 0 .. e /\ Announced(t, l, i, t[i].epoch)
  <2>1. CASE i \in 1 .. n
    <3>1. q[i].epoch \in 0 .. e /\ Announced(q, l, i, q[i].epoch)
      BY <1>1, <1>7, <2>1 DEF Listing, n
    <3> QED
      BY <1>1, <1>6, <2>1, <3>1
  <2>2. CASE i > n
    <3>1. t[i].epoch \in 0 .. e /\ i \in n .. Len(t)
      BY <1>1, <1>3, <1>7, <2>2
    <3> QED
      BY <1>5, <3>1
  <2> QED
    BY <1>1, <2>1, <2>2
<1>8. ASSUME NEW i \in 1 .. Len(t), Dates(t[i]) PROVE l <= t[i].epoch
  <2>1. CASE i \in 1 .. n
    BY <1>1, <1>8, <2>1 DEF Listing, n
  <2>2. CASE i > n
    BY <1>1, <1>2, <1>4, <1>8, <2>2, SMTT(30)
  <2> QED
    BY <1>1, <2>1, <2>2
<1>9. Announced(t, l, Len(t), e)
  <2>1. Len(t) \in n .. Len(t) /\ e \in 0 .. e
    BY <1>1
  <2> QED
    BY <1>5, <2>1
<1>10. Listing(t, l, e)
  BY <1>4, <1>7, <1>8, <1>9 DEF Listing
<1> QED
  BY <1>10 DEF t

LEMMA TurnResumed ==
    ASSUME NEW q, IsChannel(q), NEW b, IsChannel(b), NEW h, NEW g, NEW l \in Nat, NEW u \in Nat, l <= u,
           Turn(h, b, q, g, l, u), \A i \in 1 .. Len(b) : Waits(b[i]), NEW ys, NEW e, Resumes(b, ys, e, u)
    PROVE  Turn(h, <<>>, q \o ys, g, l, u)
<1> DEFINE t == q \o ys
<1> DEFINE n == Len(q)
<1>1. /\ n \in Nat /\ Len(t) = n + Len(ys) /\ Len(ys) \in Nat
      /\ \A i \in 1 .. n : t[i] = q[i]
      /\ \A i \in 1 .. Len(t) : i > n => i - n \in 1 .. Len(ys) /\ t[i] = ys[i - n]
  BY JoinedChannel DEF Resumes
<1> HIDE DEF t
<1>2. Len(<<>>) = 0
  OBVIOUS
<1>3. Single(<<>>, g) /\ Free(<<>>, g)
  BY <1>2 DEF Single, Free
<1>4. \A i \in 1 .. Len(ys) : Bears(ys[i], g) => Bears(b[i], g) /\ i \in 1 .. Len(b)
  BY DEF Resumes, Waits, Bears
<1>5. \A i \in 1 .. Len(t) : IsAnswer(t[i]) /\ t[i].gen = g => t[i].upto \in l .. u
  <2> SUFFICES ASSUME NEW i \in 1 .. Len(t), IsAnswer(t[i]), t[i].gen = g PROVE t[i].upto \in l .. u
    OBVIOUS
  <2>1. CASE i \in 1 .. n
    BY <1>1, <2>1 DEF Turn
  <2>2. CASE i > n
    <3>1. PICK j \in 1 .. Len(b) : t[i] = ys[j]
      BY <1>1, <2>2 DEF Resumes
    <3>2. ys[j].gen = b[j].gen /\ (ys[j].upto = u \/ (b[j].kind = "sync" /\ ys[j] = b[j].answer))
      BY <3>1 DEF Resumes
    <3> QED
      BY <3>1, <3>2 DEF Turn
  <2> QED
    BY <1>1, <2>1, <2>2
<1>6. Single(q, g) /\ Single(b, g) /\ Single(h, g)
  BY DEF Turn
<1>7. CASE Free(b, g)
  <2>1. \A i \in 1 .. Len(t) : Bears(t[i], g) => i \in 1 .. n /\ t[i] = q[i]
    <3>1. \A i \in 1 .. Len(ys) : ~Bears(ys[i], g)
      BY <1>4, <1>7 DEF Free
    <3>2. \A i \in 1 .. Len(t) : i \in 1 .. n \/ i > n
      BY <1>1
    <3> QED
      BY <1>1, <3>1, <3>2
  <2>2. Single(t, g) /\ (Free(q, g) => Free(t, g))
    BY <1>6, <2>1 DEF Single, Free
  <2> QED
    BY <1>2, <1>3, <1>5, <1>6, <1>7, <2>2 DEF Turn, t
<1>8. CASE Free(q, g) /\ Free(h, g)
  <2>1. \A i \in 1 .. Len(t) : Bears(t[i], g) => i > n /\ Bears(b[i - n], g) /\ i - n \in 1 .. Len(b)
    BY <1>1, <1>4, <1>8 DEF Free
  <2>2. Single(t, g)
    <3> SUFFICES ASSUME NEW i \in 1 .. Len(t), NEW j \in 1 .. Len(t), Bears(t[i], g), Bears(t[j], g) PROVE i = j
      BY DEF Single
    <3>1. i - n = j - n
      BY <1>6, <2>1 DEF Single
    <3> QED
      BY <1>1, <3>1
  <2> QED
    BY <1>2, <1>3, <1>5, <1>6, <1>8, <2>2 DEF Turn, t
<1> QED
  BY <1>7, <1>8 DEF Turn

LEMMA WireResumed ==
    ASSUME NEW q, NEW b, NEW h, NEW p, NEW e, NEW u, Wire(q, b, h, p, e, u), NEW ys, Resumes(b, ys, e, u)
    PROVE  Wire(q \o ys, <<>>, h, p, e, u)
<1>1. /\ IsChannel(q) /\ IsChannel(b) /\ e \in Nat /\ u \in Nat /\ p.leaf \in 0 .. u
      /\ \A i \in 1 .. Len(b) : Waits(b[i])
  BY DEF Wire
<1>2. /\ IsChannel(q \o ys) /\ Len(q) \in Nat /\ Len(q \o ys) = Len(q) + Len(ys) /\ Len(ys) \in Nat
      /\ \A i \in 1 .. Len(q) : (q \o ys)[i] = q[i]
      /\ \A i \in 1 .. Len(q \o ys) : i > Len(q) => i - Len(q) \in 1 .. Len(ys) /\ (q \o ys)[i] = ys[i - Len(q)]
  BY <1>1, JoinedChannel DEF Resumes
<1>3. p.conn => Listing(q \o ys, p.listed, e)
  BY <1>1, ListingResumed DEF Wire
<1>4. ASSUME p.stage # "none" PROVE Turn(h, <<>>, q \o ys, p.gen, p.leaf, u)
  <2>1. Turn(h, b, q, p.gen, p.leaf, u) /\ p.leaf \in Nat /\ p.leaf <= u
    BY <1>1, <1>4 DEF Wire
  <2> QED
    BY <1>1, <2>1, TurnResumed
<1>5. \A i \in 1 .. Len(q \o ys) : (q \o ys)[i].kind \in News \cup Replies
  <2>1. \A i \in 1 .. Len(q) : q[i].kind \in News \cup Replies
    BY DEF Wire
  <2>2. \A i \in 1 .. Len(ys) : ys[i].kind \in Replies
    BY DEF Resumes
  <2>3. \A i \in 1 .. Len(q \o ys) : i \in 1 .. Len(q) \/ i > Len(q)
    BY <1>2
  <2> QED
    BY <1>2, <2>1, <2>2, <2>3
<1>6. ASSUME ~p.conn PROVE q \o ys = <<>>
  <2>1. Len(q) = 0 /\ Len(ys) = 0
    BY <1>6, EmptyChannel DEF Wire, Resumes
  <2>2. Len(q \o ys) = 0
    BY <1>2, <2>1
  <2> QED
    BY <1>2, <2>2 DEF IsChannel
<1>7. IsChannel(<<>>) /\ Len(<<>>) = 0
  BY EmptyChannel
<1> QED
  BY <1>1, <1>2, <1>3, <1>4, <1>5, <1>6, <1>7 DEF Wire

-----------------------------------------------------------------------------
(* What the hub sends.                                                     *)

\* Whom nobody is connected or has selected the source for, nothing is sent.
LEMMA WireSubscribed ==
    ASSUME NEW q, NEW b, NEW h, NEW p, NEW e, NEW u, Wire(q, b, h, p, e, u), ~p.conn => ~selected,
           NEW m, m.kind \in {"event", "announce"}, m.kind = "event" => m.epoch \in 0 .. e
    PROVE  Wire(q \o Subscribed(m), b, h, p, e, u)
<1>1. CASE selected
  <2>1. Subscribed(m) = <<m>>
    BY <1>1 DEF Subscribed
  <2>2. m.kind \in News /\ ~Dates(m) /\ (Dated(m) => m.epoch \in 0 .. e)
    BY DEF News, Dates, Dated
  <2>3. e \in Nat /\ e <= e /\ p.conn
    BY <1>1 DEF Wire
  <2>4. Wire(q \o <<m>>, b, h, p, e, u)
    BY <2>2, <2>3, WireMore
  <2> QED
    BY <2>1, <2>4
<1>2. CASE ~selected
  <2>1. Subscribed(m) = <<>>
    BY <1>2 DEF Subscribed
  <2>2. PICK S : q \in Seq(S)
    BY DEF Wire, IsChannel
  <2>3. q \o <<>> = q
    BY <2>2
  <2> QED
    BY <2>1, <2>3
<1> QED
  BY <1>1, <1>2

LEMMA WireSources ==
    ASSUME NEW q, NEW b, NEW h, Wire(q, b, h, phone, rec.epoch, recUpto), NEW r, r.epoch \in Nat, rec.epoch <= r.epoch
    PROVE  Wire(q \o Connected(SourcesMsg(r)), b, h, phone, r.epoch, recUpto)
<1> DEFINE m == SourcesMsg(r)
<1>1. m.kind = "sources" /\ m.epoch = r.epoch
  BY DEF SourcesMsg
<1> HIDE DEF m
<1>2. CASE phone.conn
  <2>1. Connected(m) = <<m>>
    BY <1>2 DEF Connected
  <2>2. m.kind \in News /\ m.epoch \in 0 .. r.epoch
    BY <1>1 DEF News
  <2>3. Wire(q \o <<m>>, b, h, phone, r.epoch, recUpto)
    BY <1>1, <1>2, <2>2, WireMore
  <2> QED
    BY <2>1, <2>3 DEF m
<1>3. CASE ~phone.conn
  <2>1. Connected(m) = <<>>
    BY <1>3 DEF Connected
  <2>2. PICK S : q \in Seq(S)
    BY DEF Wire, IsChannel
  <2>3. q \o <<>> = q
    BY <2>2
  <2>4. Wire(q, b, h, phone, r.epoch, recUpto)
    BY <1>3 DEF Wire
  <2> QED
    BY <2>1, <2>3, <2>4 DEF m
<1> QED
  BY <1>2, <1>3

LEMMA AnswersResume ==
    ASSUME NEW w, w.epoch \in Nat, NEW r, r.epoch \in Nat, w.epoch <= r.epoch, NEW u, NEW b, IsChannel(b),
           \A i \in 1 .. Len(b) : Waits(b[i]) /\ QueryOK(w, b[i]), NEW ok, NEW as,
           as = [i \in DOMAIN b |->
                    IF b[i].kind = "select" THEN SelectAnswer(b[i].gen, TRUE, r)
                    ELSE IF ok THEN SyncAnswer(b[i], r, u)
                    ELSE b[i].answer]
    PROVE  Resumes(b, as, r.epoch, u)
<1> DEFINE Reply(x) == IF x.kind = "select" THEN SelectAnswer(x.gen, TRUE, r)
                       ELSE IF ok THEN SyncAnswer(x, r, u)
                       ELSE x.answer
<1>1. DOMAIN b = 1 .. Len(b) /\ Len(b) \in Nat
  BY DEF IsChannel
<1>2. as = [i \in 1 .. Len(b) |-> Reply(b[i])]
  BY <1>1
<1>3. ASSUME NEW x, Waits(x), QueryOK(w, x)
      PROVE  /\ Reply(x).kind \in Replies /\ Reply(x).gen = x.gen
             /\ Dates(Reply(x)) => Reply(x).epoch = r.epoch
             /\ IsAnswer(Reply(x)) => /\ Reply(x).epoch \in 0 .. r.epoch
                                      /\ Reply(x).upto = u \/ (x.kind = "sync" /\ Reply(x) = x.answer)
  <2>1. CASE x.kind = "select"
    <3> DEFINE a == SelectAnswer(x.gen, TRUE, r)
    <3>1. Reply(x) = a
      BY <2>1
    <3>2. a.kind = "selected" /\ a.gen = x.gen /\ a.epoch = r.epoch
      BY DEF SelectAnswer
    <3> HIDE DEF a, Reply
    <3> QED
      BY <3>1, <3>2 DEF Replies, IsAnswer
  <2>2. CASE x.kind # "select" /\ ok
    <3> DEFINE a == SyncAnswer(x, r, u)
    <3>1. Reply(x) = a
      BY <2>2
    <3>2. a.kind = "synced" /\ a.gen = x.gen /\ a.epoch = r.epoch /\ a.upto = u
      BY DEF SyncAnswer
    <3> HIDE DEF a, Reply
    <3> QED
      BY <3>1, <3>2 DEF Replies, IsAnswer, Dates
  <2>3. CASE x.kind # "select" /\ ~ok
    <3>1. Reply(x) = x.answer
      BY <2>3
    <3>2. x.kind = "sync" /\ IsAnswer(x.answer) /\ x.answer.gen = x.gen
      BY <1>3, <2>3 DEF Waits, Requests
    <3>3. x.answer.epoch \in 1 .. w.epoch
      BY <1>3, <2>3, <3>2 DEF QueryOK, AnswerOK, IsAnswer
    <3>4. x.answer.epoch \in 0 .. r.epoch
      BY <3>3
    <3> HIDE DEF Reply
    <3> QED
      BY <3>1, <3>2, <3>4 DEF Replies, IsAnswer, Dates
  <2> QED
    BY <2>1, <2>2, <2>3
<1> HIDE DEF Reply
<1>4. as = [i \in 1 .. Len(b) |-> as[i]] /\ \A i \in 1 .. Len(b) : as[i] = Reply(b[i])
  BY <1>2
<1>5. IsChannel(as) /\ Len(as) = Len(b)
  <2> DEFINE S == {as[i] : i \in 1 .. Len(b)}
  <2>1. as \in [1 .. Len(b) -> S]
    BY <1>4
  <2> HIDE DEF S
  <2>2. as \in Seq(S) /\ Len(as) = Len(b)
    BY <1>1, <2>1, Listed
  <2> QED
    BY <2>2 DEF IsChannel
<1>6. \A i \in 1 .. Len(b) :
           /\ as[i].kind \in Replies /\ as[i].gen = b[i].gen
           /\ Dates(as[i]) => as[i].epoch = r.epoch
           /\ IsAnswer(as[i]) => /\ as[i].epoch \in 0 .. r.epoch
                                 /\ as[i].upto = u \/ (b[i].kind = "sync" /\ as[i] = b[i].answer)
  <2> TAKE i \in 1 .. Len(b)
  <2> DEFINE x == b[i]
  <2>1. as[i] = Reply(x) /\ Waits(x) /\ QueryOK(w, x)
    BY <1>4
  <2> HIDE DEF x
  <2>2. /\ Reply(x).kind \in Replies /\ Reply(x).gen = x.gen
        /\ Dates(Reply(x)) => Reply(x).epoch = r.epoch
        /\ IsAnswer(Reply(x)) => /\ Reply(x).epoch \in 0 .. r.epoch
                                 /\ Reply(x).upto = u \/ (x.kind = "sync" /\ Reply(x) = x.answer)
    BY <1>3, <2>1
  <2>3. /\ as[i].kind \in Replies /\ as[i].gen = x.gen
        /\ Dates(as[i]) => as[i].epoch = r.epoch
        /\ IsAnswer(as[i]) => /\ as[i].epoch \in 0 .. r.epoch
                              /\ as[i].upto = u \/ (x.kind = "sync" /\ as[i] = x.answer)
    BY <2>1, <2>2
  <2> QED
    BY <2>3 DEF x
<1> QED
  BY <1>5, <1>6 DEF Resumes

\* Settling a request, or not, and telling those that waited.
LEMMA WireSettled ==
    ASSUME HistoryInv, rec'.epoch \in Nat, rec.epoch <= rec'.epoch, NEW q, NEW h,
           Wire(q, waiting, h, phone, rec'.epoch, recUpto'), NEW id, Settle(id), NEW ok
    PROVE  Wire(q \o Answers(id, ok), waiting', h, phone, rec'.epoch, recUpto')
<1> DEFINE b == waiting
<1> DEFINE r == rec'
<1> DEFINE u == recUpto'
<1> DEFINE w == World
<1> DEFINE as == [i \in DOMAIN b |->
                    IF b[i].kind = "select" THEN SelectAnswer(b[i].gen, TRUE, r)
                    ELSE IF ok THEN SyncAnswer(b[i], r, u)
                    ELSE b[i].answer]
<1>1. \/ Answers(id, ok) = as /\ waiting' = <<>>
      \/ Answers(id, ok) = <<>> /\ waiting' = b
  BY DEF Answers, Resumed, Settle
<1>2. IsChannel(b) /\ \A i \in 1 .. Len(b) : QueryOK(w, b[i]) /\ Waits(b[i])
  BY DEF HistoryInv, HubInv, Wire
<1>3. w.epoch = rec.epoch /\ w.epoch \in Nat
  BY WorldFields, WorldTypes DEF HistoryInv
<1> DEFINE bs == as
<1>4. bs = [i \in DOMAIN b |->
                    IF b[i].kind = "select" THEN SelectAnswer(b[i].gen, TRUE, r)
                    ELSE IF ok THEN SyncAnswer(b[i], r, u)
                    ELSE b[i].answer]
  OBVIOUS
<1>5. w.epoch <= r.epoch /\ r.epoch \in Nat
  BY <1>3
<1>6. \/ Answers(id, ok) = bs /\ waiting' = <<>>
      \/ Answers(id, ok) = <<>> /\ waiting' = b
  BY <1>1
<1>7. Wire(q, b, h, phone, r.epoch, u)
  OBVIOUS
<1> HIDE DEF b, r, u, w, as, bs
<1>8. Resumes(b, bs, r.epoch, u)
  BY <1>2, <1>3, <1>4, <1>5, AnswersResume
<1>9. Wire(q \o bs, <<>>, h, phone, r.epoch, u)
  BY <1>7, <1>8, WireResumed
<1>10. q \o <<>> = q
  <2>1. PICK S : q \in Seq(S)
    BY <1>7 DEF Wire, IsChannel
  <2> QED
    BY <2>1
<1>11. Wire(q \o Answers(id, ok), waiting', h, phone, r.epoch, u)
  <2>1. CASE Answers(id, ok) = bs /\ waiting' = <<>>
    BY <1>9, <2>1
  <2>2. CASE Answers(id, ok) = <<>> /\ waiting' = b
    BY <1>7, <1>10, <2>2
  <2> QED
    BY <1>6, <2>1, <2>2
<1> QED
  BY <1>11 DEF r, u

-----------------------------------------------------------------------------
(* Snapshots on their way to the hub.                                      *)

LEMMA RisingLess ==
    ASSUME NEW s, IsChannel(s), s # <<>>, NEW n, Rising(s, n)
    PROVE  /\ Rising(Tail(s), n)
           /\ Snaps(Head(s)) => n <= Head(s).upto /\ Rising(Tail(s), Head(s).upto)
<1> DEFINE t == Tail(s)
<1>1. /\ Len(s) \in Nat /\ 1 \in 1 .. Len(s) /\ Head(s) = s[1]
      /\ \A i \in 1 .. Len(t) : i + 1 \in 1 .. Len(s) /\ t[i] = s[i + 1]
  BY TakenOne
<1> HIDE DEF t
<1>2. \A i, j \in 1 .. Len(t) : i < j /\ Snaps(t[i]) /\ Snaps(t[j]) => t[i].upto <= t[j].upto
  <2> SUFFICES ASSUME NEW i \in 1 .. Len(t), NEW j \in 1 .. Len(t), i < j, Snaps(t[i]), Snaps(t[j])
               PROVE  t[i].upto <= t[j].upto
    OBVIOUS
  <2>1. i + 1 \in 1 .. Len(s) /\ j + 1 \in 1 .. Len(s) /\ i + 1 < j + 1
    BY <1>1
  <2> QED
    BY <1>1, <2>1 DEF Rising
<1>3. Rising(t, n)
  BY <1>1, <1>2 DEF Rising
<1>4. ASSUME Snaps(Head(s)) PROVE n <= Head(s).upto /\ Rising(t, Head(s).upto)
  <2>1. n <= Head(s).upto
    BY <1>1, <1>4 DEF Rising
  <2>2. \A i \in 1 .. Len(t) : Snaps(t[i]) => Head(s).upto <= t[i].upto
    <3> SUFFICES ASSUME NEW i \in 1 .. Len(t), Snaps(t[i]) PROVE Head(s).upto <= t[i].upto
      OBVIOUS
    <3>1. i + 1 \in 1 .. Len(s) /\ 1 < i + 1 /\ 1 \in 1 .. Len(s)
      BY <1>1
    <3> QED
      BY <1>1, <1>4, <3>1 DEF Rising
  <2> QED
    BY <1>2, <2>1, <2>2 DEF Rising
<1> QED
  BY <1>3, <1>4 DEF t

LEMMA RisingMore ==
    ASSUME NEW s, IsChannel(s), NEW n, Rising(s, n), NEW c, n <= c, NEW f, Snaps(f) => f.upto = c,
           \A i \in 1 .. Len(s) : Snaps(s[i]) => s[i].upto <= c
    PROVE  Rising(Append(s, f), n)
<1> DEFINE t == Append(s, f)
<1> DEFINE m == Len(s)
<1>1. /\ m \in Nat /\ Len(t) = m + 1 /\ t[m + 1] = f
      /\ \A i \in 1 .. m : t[i] = s[i]
  BY Appended
<1>2. \A i \in 1 .. Len(t) : i \in 1 .. m \/ i = m + 1
  BY <1>1
<1> HIDE DEF t
<1>3. \A i \in 1 .. Len(t) : Snaps(t[i]) => n <= t[i].upto
  BY <1>1, <1>2 DEF Rising
<1>4. ASSUME NEW i \in 1 .. Len(t), NEW j \in 1 .. Len(t), i < j, Snaps(t[i]), Snaps(t[j])
      PROVE  t[i].upto <= t[j].upto
  <2>1. i \in 1 .. m
    BY <1>1, <1>2, <1>4
  <2>2. CASE j \in 1 .. m
    BY <1>1, <1>4, <2>1, <2>2 DEF Rising
  <2>3. CASE j = m + 1
    BY <1>1, <1>4, <2>1, <2>3
  <2> QED
    BY <1>2, <2>2, <2>3
<1>5. Rising(t, n)
  BY <1>3, <1>4 DEF Rising
<1> QED
  BY <1>5 DEF t

LEMMA RisingOne ==
    ASSUME NEW n, NEW c, n <= c, NEW f, Snaps(f) => f.upto = c
    PROVE  Rising(<<f>>, n)
<1>1. <<f>> \in Seq({f}) /\ Len(<<f>>) = 1 /\ <<f>>[1] = f
  OBVIOUS
<1>2. \A i \in 1 .. Len(<<f>>) : i = 1
  BY <1>1
<1> QED
  BY <1>1, <1>2 DEF Rising

\* What the relay does, the hub and the phone do not know of yet.
LEMMA RelayShows ==
    ASSUME SeqInv, HistoryInv, ShowInv, UNCHANGED <<hubVars, toHub, toPhone, phone>>,
           produced' \in Nat, produced <= produced', NEW f, Snaps(f) => f.upto = produced',
           up' \in {up, Append(up, f), <<f>>}
    PROVE  ShowInv'
<1>1. /\ desk' = desk /\ registration' = registration /\ rec' = rec /\ recUpto' = recUpto /\ selected' = selected
      /\ waiting' = waiting /\ toHub' = toHub /\ toPhone' = toPhone /\ phone' = phone
  BY DEF hubVars
<1>2. Floor' = Floor
  BY <1>1 DEF Floor
<1>3. produced \in Nat /\ IsChannel(up) /\ recUpto \in 0 .. produced
  BY DEF SeqInv, RelayInv, StreamInv, HistoryInv, RecInv
<1>4. \A x : FrameOK(World, x) /\ Snaps(x) => x.upto \in 0 .. produced
  BY WorldFields DEF FrameOK, Snaps, SoundSnapshot
<1>5. \A i \in 1 .. Len(up) : Snaps(up[i]) => up[i].upto <= produced'
  <2>1. \A i \in 1 .. Len(up) : FrameOK(World, up[i])
    BY DEF HistoryInv, FramesInv
  <2> QED
    BY <1>3, <1>4, <2>1
<1>6. Floor <= produced'
  <2>1. desk = "registering" => registration.kind = "register" /\ FrameOK(World, registration)
    BY DEF HistoryInv, FramesInv
  <2>2. Floor \in 0 .. produced
    BY <1>3, <1>4, <2>1 DEF Floor, Snaps
  <2> QED
    BY <1>3, <2>2
<1>7. Rising(up, Floor) /\ recUpto <= Floor
  BY DEF ShowInv
<1>8. Rising(up', Floor)
  BY <1>3, <1>5, <1>6, <1>7, RisingMore, RisingOne
<1> QED
  BY <1>1, <1>2, <1>7, <1>8 DEF ShowInv

\* The relay's end.
LEMMA RelayStepShows ==
    ASSUME SeqInv, HistoryInv, SeqInv', ShowInv,
           RelayConnect \/ Produce \/ ProduceTooLarge \/ RelaySnapshot \/ RelayReceive
    PROVE  ShowInv'
<1>1. produced \in Nat /\ produced' \in Nat
  BY DEF SeqInv, RelayInv
<1>2. ASSUME UNCHANGED hubVars, UNCHANGED <<toHub, toPhone, phone>>, produced <= produced', up' = up PROVE ShowInv'
  <2>1. UNCHANGED <<hubVars, toHub, toPhone, phone>>
    BY <1>2
  <2> DEFINE f == [kind |-> "none"]
  <2>2. ~Snaps(f)
    BY DEF Snaps
  <2> HIDE DEF f
  <2> QED
    BY <1>1, <1>2, <2>1, <2>2, RelayShows
<1>3. ASSUME UNCHANGED hubVars, UNCHANGED <<toHub, toPhone, phone>>, produced <= produced',
             NEW k, NEW e, NEW n, NEW id, NEW u, u = produced' \/ k \notin {"register", "snapshot"},
             up' \in {Append(up, Frame(k, e, n, u, id)), <<Frame(k, e, n, u, id)>>}
      PROVE  ShowInv'
  <2>1. UNCHANGED <<hubVars, toHub, toPhone, phone>>
    BY <1>3
  <2> DEFINE f == Frame(k, e, n, u, id)
  <2>2. Snaps(f) => f.upto = produced'
    BY <1>3, FrameFields DEF Snaps
  <2>3. up' \in {up, Append(up, f), <<f>>}
    BY <1>3
  <2> HIDE DEF f
  <2> QED
    BY <1>1, <1>3, <2>1, <2>2, <2>3, RelayShows
<1>4. ASSUME UNCHANGED hubVars, UNCHANGED <<toHub, toPhone, phone>>, produced <= produced',
             NEW id, up' = Append(up, SnapshotFrame(id))
      PROVE  ShowInv'
  <2>1. up' = Append(up, Frame("snapshot", relay'.epoch, relay'.seq, produced', id))
    BY <1>4 DEF SnapshotFrame
  <2> QED
    BY <1>3, <1>4, <2>1
<1>5. CASE RelayConnect
  <2>1. UNCHANGED hubVars /\ UNCHANGED <<toHub, toPhone, phone>> /\ produced' = produced
        /\ up' = <<Frame("register", relay'.epoch, 0, produced, 0)>>
    BY <1>5 DEF RelayConnect
  <2>2. produced <= produced' /\ produced = produced'
    BY <1>1, <2>1
  <2> QED
    BY <1>3, <2>1, <2>2
<1>6. CASE Produce
  <2>1. UNCHANGED hubVars /\ UNCHANGED <<toHub, toPhone, phone>> /\ produced' = produced + 1
        /\ (up' = up \/ up' = Append(up, Frame("event", relay.epoch, relay'.seq, produced', 0)))
    BY <1>6 DEF Produce
  <2>2. produced <= produced'
    BY <1>1, <2>1
  <2> QED
    BY <1>2, <1>3, <2>1, <2>2
<1>7. CASE ProduceTooLarge
  <2>1. UNCHANGED hubVars /\ UNCHANGED <<toHub, toPhone, phone>> /\ (produced' = produced + 1 \/ produced' = produced)
        /\ up' = Append(up, SnapshotFrame(0))
    BY <1>7 DEF ProduceTooLarge, Resnapshot
  <2>2. produced <= produced'
    BY <1>1, <2>1
  <2> QED
    BY <1>4, <2>1, <2>2
<1>8. CASE RelaySnapshot
  <2>1. UNCHANGED hubVars /\ UNCHANGED <<toHub, toPhone, phone>> /\ produced' = produced
        /\ up' = Append(up, SnapshotFrame(0))
    BY <1>8 DEF RelaySnapshot, relayVars
  <2>2. produced <= produced'
    BY <1>1, <2>1
  <2> QED
    BY <1>4, <2>1, <2>2
<1>9. CASE RelayReceive
  <2>1. UNCHANGED hubVars /\ UNCHANGED <<toHub, toPhone, phone>> /\ produced' = produced
        /\ \/ up' = up
           \/ \E id : up' = Append(up, SnapshotFrame(id))
           \/ up' = Append(up, Frame("unavailable", 0, 0, 0, Head(down).id))
    BY <1>9 DEF RelayReceive, RelayRegistered, RelayAsked, RelayResync, Resnapshot, relayVars
  <2>2. produced <= produced'
    BY <1>1, <2>1
  <2> QED
    BY <1>2, <1>3, <1>4, <2>1, <2>2
<1> QED
  BY <1>5, <1>6, <1>7, <1>8, <1>9

-----------------------------------------------------------------------------
(* The steps of the hub.                                                   *)

LEMMA HubShows ==
    ASSUME ShowInv, phone' = phone, recUpto' <= Floor', Rising(up', Floor'),
           ~phone.conn => ~selected', Wire(toPhone', waiting', toHub', phone, rec'.epoch, recUpto')
    PROVE  ShowInv'
BY DEF ShowInv

LEMMA EpochSet ==
    ASSUME NEW r, HasFields(r), NEW e \in Nat, NEW b \in Nat, NEW s, s = SetSnapshot(r, e, b)
    PROVE  s.epoch = e
BY SnapshotSet

LEMMA EpochKept ==
    ASSUME NEW r, HasFields(r), NEW e \in Nat, NEW n \in Nat, NEW s, s = RecordDesktopEvent(r, e, n, 0)
    PROVE  s.epoch = r.epoch
BY EventRecorded

LEMMA RegisterStartShows ==
    ASSUME SeqInv, HistoryInv, ShowInv, HubRegisterStart
    PROVE  ShowInv'
<1>1. /\ up # <<>> /\ Head(up).kind = "register" /\ desk' = "registering" /\ registration' = Head(up)
      /\ up' = Tail(up) /\ rec' = rec /\ recUpto' = recUpto /\ selected' = selected
      /\ waiting' = waiting /\ toHub' = toHub /\ toPhone' = toPhone /\ phone' = phone
  BY DEF HubRegisterStart
<1>2. Floor' = Head(up).upto
  BY <1>1 DEF Floor
<1>3. IsChannel(up) /\ Rising(up, Floor) /\ recUpto <= Floor
  BY DEF SeqInv, StreamInv, ShowInv
<1>4. Floor <= Head(up).upto /\ Rising(Tail(up), Head(up).upto)
  BY <1>1, <1>3, RisingLess DEF Snaps
<1>5. \A i \in 1 .. Len(up) : FrameOK(World, up[i])
  BY DEF HistoryInv, FramesInv
<1>6. Head(up).upto \in Nat
  <2>1. FrameOK(World, Head(up)) /\ World.produced \in Nat
    BY <1>1, <1>3, <1>5, TailFrames, WorldTypes DEF HistoryInv
  <2> QED
    BY <1>1, <2>1 DEF FrameOK, SoundSnapshot
<1>7. Floor \in Nat /\ recUpto \in Nat
  <2>1. recUpto \in 0 .. produced /\ produced \in Nat
    BY DEF HistoryInv, RecInv, SeqInv, RelayInv
  <2>2. desk = "registering" => registration.kind = "register" /\ FrameOK(World, registration)
    BY DEF HistoryInv, FramesInv
  <2>3. World.produced \in Nat
    BY WorldTypes DEF HistoryInv
  <2> QED
    BY <2>1, <2>2, <2>3 DEF Floor, FrameOK, SoundSnapshot
<1>8. recUpto <= Head(up).upto
  BY <1>3, <1>4, <1>6, <1>7
<1>9. Wire(toPhone, waiting, toHub, phone, rec.epoch, recUpto) /\ (~phone.conn => ~selected)
  BY DEF ShowInv
<1> QED
  BY <1>1, <1>2, <1>4, <1>8, <1>9, HubShows

LEMMA RegisterDoneShows ==
    ASSUME SeqInv, HistoryInv, ShowInv, HubRegisterDone
    PROVE  ShowInv'
<1> DEFINE f == registration
<1> DEFINE fresh == NewRecord(f.epoch, TRUE)
<1>1. /\ desk = "registering" /\ desk' = "registered" /\ registration' = NoFrame
      /\ rec' = SetSnapshot(fresh, f.epoch, 0) /\ recUpto' = f.upto
      /\ toPhone' = toPhone \o Connected(SourcesMsg(rec'))
      /\ up' = up /\ selected' = selected /\ waiting' = waiting /\ toHub' = toHub /\ phone' = phone
  BY DEF HubRegisterDone
<1>2. f.kind = "register" /\ FrameOK(World, f) /\ WorldOK(World)
  BY <1>1 DEF HistoryInv, FramesInv
<1>3. /\ f.epoch \in Nat /\ World.epoch < f.epoch /\ f.upto \in Nat /\ World.epoch = rec.epoch /\ rec.epoch \in Nat
  <2>1. World.epoch \in Nat /\ World.produced \in Nat /\ Len(World.log) \in Nat
    BY <1>2, WorldTypes
  <2> QED
    BY <1>2, <2>1, WorldFields DEF FrameOK, SoundSnapshot, Carried
<1>4. HasFields(fresh)
  BY <1>3 DEF HasFields, NewRecord
<1> HIDE DEF fresh
<1>5. rec'.epoch = f.epoch
  <2>1. f.epoch \in Nat /\ 0 \in Nat /\ rec' = SetSnapshot(fresh, f.epoch, 0)
    BY <1>1, <1>3
  <2> HIDE DEF f
  <2> QED
    BY <1>4, <2>1, EpochSet
<1>6. rec'.epoch \in Nat /\ rec.epoch <= rec'.epoch
  BY <1>3, <1>5
<1>7. Floor = f.upto /\ Floor' = f.upto /\ Rising(up, Floor) /\ recUpto <= Floor
  BY <1>1 DEF Floor, ShowInv
<1>8. Wire(toPhone, waiting, toHub, phone, rec.epoch, recUpto) /\ (~phone.conn => ~selected)
  BY DEF ShowInv
<1>9. Wire(toPhone', waiting, toHub, phone, rec'.epoch, recUpto)
  BY <1>1, <1>6, <1>8, WireSources
<1>10. Wire(toPhone', waiting', toHub', phone, rec'.epoch, recUpto')
  BY <1>1, <1>3, <1>7, <1>9, WireUpto
<1> QED
  BY <1>1, <1>3, <1>7, <1>8, <1>10, HubShows

LEMMA UpFacts ==
    ASSUME SeqInv, HistoryInv, ShowInv, desk = "registered", up # <<>>
    PROVE  /\ FrameOK(World, Head(up)) /\ WorldOK(World) /\ HasFields(rec)
           /\ Head(up).kind = "snapshot" => rec.epoch <= Head(up).epoch
           /\ Rising(Tail(up), recUpto) /\ recUpto \in Nat /\ Floor = recUpto
           /\ Snaps(Head(up)) => /\ Head(up).upto \in Nat /\ recUpto <= Head(up).upto
                                 /\ Rising(Tail(up), Head(up).upto)
<1>1. IsChannel(up) /\ \A i \in 1 .. Len(up) : FrameOK(World, up[i])
  BY DEF SeqInv, StreamInv, HistoryInv, FramesInv
<1>2. FrameOK(World, Head(up)) /\ 1 \in 1 .. Len(up) /\ Head(up) = up[1]
  BY <1>1, TailFrames
<1>3. Linked(up, rec.epoch, rec.lastSeq, relay.epoch, relay.seq) /\ HasFields(rec)
  BY DEF SeqInv, FrontInv
<1>4. Head(up).kind = "snapshot" => rec.epoch <= up[1].epoch
  BY <1>2, <1>3 DEF Linked, Carries
<1>5. Floor = recUpto /\ Rising(up, recUpto)
  BY DEF Floor, ShowInv
<1>6. /\ Rising(Tail(up), recUpto)
      /\ Snaps(Head(up)) => recUpto <= Head(up).upto /\ Rising(Tail(up), Head(up).upto)
  BY <1>1, <1>5, RisingLess
<1>7. WorldOK(World) /\ recUpto \in 0 .. produced /\ produced \in Nat
  BY DEF HistoryInv, RecInv, SeqInv, RelayInv
<1>8. World.produced \in Nat
  BY <1>7, WorldTypes
<1>9. Snaps(Head(up)) => Head(up).upto \in Nat
  BY <1>2, <1>8 DEF FrameOK, Snaps, SoundSnapshot
<1> QED
  BY <1>2, <1>3, <1>4, <1>5, <1>6, <1>7, <1>9

LEMMA RefuseShows ==
    ASSUME SeqInv, HistoryInv, ShowInv, HubReceive, HubRefuse(Head(up))
    PROVE  ShowInv'
<1>1. /\ up # <<>> /\ up' = Tail(up) /\ desk' = desk /\ registration' = registration /\ selected' = selected
      /\ rec' = rec /\ recUpto' = recUpto /\ waiting' = waiting /\ toPhone' = toPhone /\ toHub' = toHub /\ phone' = phone
  BY DEF HubReceive, HubRefuse
<1>2. Floor' = Floor /\ Rising(up, Floor) /\ recUpto <= Floor /\ IsChannel(up)
  BY <1>1 DEF Floor, ShowInv, SeqInv, StreamInv
<1>3. Rising(up', Floor)
  BY <1>1, <1>2, RisingLess
<1>4. Wire(toPhone, waiting, toHub, phone, rec.epoch, recUpto) /\ (~phone.conn => ~selected)
  BY DEF ShowInv
<1> QED
  BY <1>1, <1>2, <1>3, <1>4, HubShows

LEMMA SnapshotShown ==
    ASSUME SeqInv, HistoryInv, ShowInv, HubReceive, HubSnapshot(Head(up))
    PROVE  ShowInv'
<1> DEFINE m == Head(up)
<1> DEFINE a == AnnounceMsg(m)
<1>1. /\ up # <<>> /\ up' = Tail(up) /\ desk' = desk /\ selected' = selected
      /\ m.kind = "snapshot" /\ desk = "registered" /\ rec' = SetSnapshot(rec, m.epoch, m.seq)
      /\ recUpto' = m.upto /\ Settle(m.id) /\ toHub' = toHub /\ phone' = phone
      /\ toPhone' = toPhone \o Subscribed(a) \o Connected(SourcesMsg(rec')) \o Answers(m.id, TRUE)
  BY DEF HubReceive, HubSnapshot
<1>2. /\ FrameOK(World, m) /\ WorldOK(World) /\ HasFields(rec) /\ rec.epoch <= m.epoch
      /\ recUpto \in Nat /\ m.upto \in Nat /\ recUpto <= m.upto /\ Rising(Tail(up), m.upto)
  BY <1>1, UpFacts DEF Snaps
<1>3. m.epoch \in Nat /\ m.seq \in Nat
  <2>1. Carried(World, m.epoch, m.seq) /\ Len(World.log) \in Nat
    BY <1>1, <1>2, WorldTypes DEF FrameOK, SoundSnapshot
  <2>2. Len(World.log[m.epoch]) \in Nat
    BY <1>2, <2>1, WorldTypes DEF Carried
  <2> QED
    BY <2>1, <2>2 DEF Carried
<1>4. a.kind = "announce"
  BY DEF AnnounceMsg
<1> HIDE DEF m, a
<1>5. rec'.epoch = m.epoch
  <2>1. rec' = SetSnapshot(rec, m.epoch, m.seq)
    BY <1>1
  <2> QED
    BY <1>2, <1>3, <2>1, EpochSet
<1>6. rec'.epoch \in Nat /\ rec.epoch <= rec'.epoch
  BY <1>2, <1>3, <1>5
<1>7. Wire(toPhone, waiting, toHub, phone, rec.epoch, recUpto) /\ (~phone.conn => ~selected)
  BY DEF ShowInv
<1> DEFINE q1 == toPhone \o Subscribed(a)
<1> DEFINE q2 == q1 \o Connected(SourcesMsg(rec'))
<1>8. Wire(q1, waiting, toHub, phone, rec.epoch, recUpto)
  BY <1>4, <1>7, WireSubscribed
<1>9. toPhone' = q2 \o Answers(m.id, TRUE)
  BY <1>1
<1>10. Wire(q2, waiting, toHub, phone, rec'.epoch, recUpto)
  <2> HIDE DEF q1
  <2> QED
    BY <1>6, <1>8, WireSources
<1> HIDE DEF q2
<1>11. Wire(q2, waiting, toHub, phone, rec'.epoch, recUpto')
  BY <1>1, <1>2, <1>10, WireUpto
<1>12. Wire(toPhone', waiting', toHub, phone, rec'.epoch, recUpto')
  BY <1>1, <1>6, <1>9, <1>11, WireSettled
<1>13. Floor' = m.upto
  BY <1>1 DEF Floor
<1> QED
  BY <1>1, <1>2, <1>7, <1>12, <1>13, HubShows

LEMMA UnavailableShows ==
    ASSUME SeqInv, HistoryInv, ShowInv, HubReceive, HubUnavailable(Head(up))
    PROVE  ShowInv'
<1>1. /\ up # <<>> /\ up' = Tail(up) /\ desk' = desk /\ selected' = selected /\ desk = "registered"
      /\ rec' = rec /\ recUpto' = recUpto /\ Settle(Head(up).id) /\ toHub' = toHub /\ phone' = phone
      /\ toPhone' = toPhone \o Answers(Head(up).id, FALSE)
  BY DEF HubReceive, HubUnavailable
<1>2. Rising(Tail(up), recUpto) /\ recUpto \in Nat /\ HasFields(rec)
  BY <1>1, UpFacts
<1>3. Wire(toPhone, waiting, toHub, phone, rec.epoch, recUpto) /\ (~phone.conn => ~selected)
  BY DEF ShowInv
<1>4. rec'.epoch \in Nat /\ rec.epoch <= rec'.epoch
  BY <1>1, <1>2 DEF HasFields
<1>5. Wire(toPhone, waiting, toHub, phone, rec'.epoch, recUpto')
  BY <1>1, <1>3
<1>6. Wire(toPhone', waiting', toHub, phone, rec'.epoch, recUpto')
  BY <1>1, <1>4, <1>5, WireSettled
<1>7. Floor' = recUpto /\ recUpto' <= recUpto
  BY <1>1, <1>2 DEF Floor
<1> QED
  BY <1>1, <1>2, <1>3, <1>6, <1>7, HubShows

LEMMA EventShows ==
    ASSUME SeqInv, HistoryInv, ShowInv, HubReceive, HubEvent(Head(up))
    PROVE  ShowInv'
<1> DEFINE m == Head(up)
<1> DEFINE a == EventMsg(m)
<1>1. /\ up # <<>> /\ up' = Tail(up) /\ desk' = desk /\ selected' = selected /\ desk = "registered"
      /\ recUpto' = recUpto /\ waiting' = waiting /\ toHub' = toHub /\ phone' = phone /\ m.kind = "event"
  BY DEF HubReceive, HubEvent
<1>2. \/ rec' = RecordDesktopEvent(rec, rec.epoch, m.seq, 0) /\ m.epoch = rec.epoch /\ toPhone' = toPhone \o Subscribed(a)
      \/ rec' = rec /\ toPhone' = toPhone
  BY DEF HubEvent, Accepts
<1>3. Rising(Tail(up), recUpto) /\ recUpto \in Nat /\ HasFields(rec) /\ FrameOK(World, m) /\ WorldOK(World)
  BY <1>1, UpFacts
<1>4. m.seq \in Nat
  <2>1. Carried(World, m.epoch, m.seq)
    BY <1>1, <1>3 DEF FrameOK
  <2>2. Len(World.log[m.epoch]) \in Nat
    BY <1>3, <2>1, WorldTypes DEF Carried
  <2> QED
    BY <2>1, <2>2 DEF Carried
<1>5. a.kind = "event" /\ a.epoch = m.epoch
  BY DEF EventMsg
<1> HIDE DEF m, a
<1>6. rec.epoch \in Nat /\ rec'.epoch = rec.epoch
  <2>1. rec.epoch \in Nat
    BY <1>3 DEF HasFields
  <2>2. CASE rec' = RecordDesktopEvent(rec, rec.epoch, m.seq, 0)
    BY <1>3, <1>4, <2>1, <2>2, EpochKept
  <2>3. CASE rec' = rec
    BY <2>1, <2>3
  <2> QED
    BY <1>2, <2>1, <2>2, <2>3
<1>7. Wire(toPhone, waiting, toHub, phone, rec.epoch, recUpto) /\ (~phone.conn => ~selected)
  BY DEF ShowInv
<1>8. Wire(toPhone', waiting', toHub', phone, rec'.epoch, recUpto')
  <2>1. CASE m.epoch = rec.epoch /\ toPhone' = toPhone \o Subscribed(a)
    <3>1. a.epoch \in 0 .. rec.epoch /\ a.kind \in {"event", "announce"}
      BY <1>5, <1>6, <2>1
    <3>2. Wire(toPhone \o Subscribed(a), waiting, toHub, phone, rec.epoch, recUpto)
      BY <1>7, <3>1, WireSubscribed
    <3> QED
      BY <1>1, <1>6, <2>1, <3>2
  <2>2. CASE toPhone' = toPhone
    BY <1>1, <1>6, <1>7, <2>2
  <2> QED
    BY <1>2, <2>1, <2>2
<1>9. Floor' = recUpto /\ recUpto' <= recUpto
  BY <1>1, <1>3 DEF Floor
<1> QED
  BY <1>1, <1>3, <1>7, <1>8, <1>9, HubShows

LEMMA AskTimeoutShows ==
    ASSUME SeqInv, HistoryInv, ShowInv, HubAskTimeout
    PROVE  ShowInv'
<1>1. /\ asked # 0 /\ Settle(asked) /\ toPhone' = toPhone \o Answers(asked, FALSE)
      /\ desk' = desk /\ registration' = registration /\ up' = up /\ selected' = selected
      /\ rec' = rec /\ recUpto' = recUpto /\ toHub' = toHub /\ phone' = phone
  BY DEF HubAskTimeout
<1>2. Floor' = Floor /\ Rising(up, Floor) /\ recUpto <= Floor
  BY <1>1 DEF Floor, ShowInv
<1>3. Wire(toPhone, waiting, toHub, phone, rec.epoch, recUpto) /\ (~phone.conn => ~selected)
  BY DEF ShowInv
<1>4. rec.epoch \in Nat /\ rec.epoch <= rec.epoch
  BY <1>3 DEF Wire
<1>5. rec'.epoch \in Nat /\ rec.epoch <= rec'.epoch
  BY <1>1, <1>4
<1>6. Wire(toPhone, waiting, toHub, phone, rec'.epoch, recUpto')
  BY <1>1, <1>3
<1>7. Wire(toPhone', waiting', toHub', phone, rec'.epoch, recUpto')
  BY <1>1, <1>5, <1>6, WireSettled
<1> QED
  BY <1>1, <1>2, <1>3, <1>7, HubShows

\* A request is taken up: it has its answer at once, or waits.
LEMMA RequestShows ==
    ASSUME SeqInv, HistoryInv, ShowInv, HubRequest, Wire(toPhone', waiting', toHub', phone, rec.epoch, recUpto)
    PROVE  ShowInv'
<1>1. /\ toHub # <<>> /\ desk' = desk /\ registration' = registration /\ up' = up
      /\ rec' = rec /\ recUpto' = recUpto /\ phone' = phone
  BY DEF HubRequest
<1>2. Floor' = Floor /\ Rising(up, Floor) /\ recUpto <= Floor
  BY <1>1 DEF Floor, ShowInv
<1>3. phone.conn
  BY <1>1 DEF ShowInv, Wire
<1>4. Wire(toPhone', waiting', toHub', phone, rec'.epoch, recUpto')
  BY <1>1
<1> QED
  BY <1>1, <1>2, <1>3, <1>4, HubShows

LEMMA AppendedOne ==
    ASSUME NEW q, IsChannel(q), NEW m
    PROVE  Append(q, m) = q \o <<m>>
<1>1. PICK S : q \in Seq(S)
  BY DEF IsChannel
<1> QED
  BY <1>1

LEMMA SelectShows ==
    ASSUME SeqInv, HistoryInv, ShowInv, HubRequest, HubSelect(Head(toHub))
    PROVE  ShowInv'
<1> DEFINE q == Head(toHub)
<1> DEFINE a == SelectAnswer(q.gen, FALSE, rec)
<1> DEFINE b == SelectAnswer(q.gen, TRUE, rec)
<1>1. /\ toHub # <<>> /\ toHub' = Tail(toHub) /\ q.kind = "select"
  BY DEF HubRequest, HubSelect
<1>2. \/ toPhone' = Append(toPhone, a) /\ waiting' = waiting
      \/ toPhone' = toPhone /\ waiting' = Append(waiting, q)
      \/ toPhone' = Append(toPhone, b) /\ waiting' = waiting
  BY DEF HubSelect, Ask
<1>3. /\ a.kind = "selected" /\ a.gen = q.gen /\ a.epoch = rec.epoch
      /\ b.kind = "selected" /\ b.gen = q.gen /\ b.epoch = rec.epoch
  BY DEF SelectAnswer
<1>4. Wire(toPhone, waiting, toHub, phone, rec.epoch, recUpto)
  BY DEF ShowInv
<1>5. IsChannel(toPhone) /\ IsChannel(waiting)
  BY <1>4 DEF Wire
<1> HIDE DEF a, b
<1>6. q.kind \in Requests /\ a.kind \in Replies /\ b.kind \in Replies /\ ~IsAnswer(a) /\ ~IsAnswer(b)
  BY <1>1, <1>3 DEF Requests, Replies, IsAnswer
<1>7. Wire(toPhone \o <<a>>, waiting, Tail(toHub), phone, rec.epoch, recUpto)
  BY <1>1, <1>3, <1>4, <1>6, WireAnswered
<1>8. Wire(toPhone \o <<b>>, waiting, Tail(toHub), phone, rec.epoch, recUpto)
  BY <1>1, <1>3, <1>4, <1>6, WireAnswered
<1>9. Wire(toPhone, waiting \o <<q>>, Tail(toHub), phone, rec.epoch, recUpto)
  <2>1. Waits(q) /\ q.kind # "sync"
    BY <1>1, <1>6 DEF Waits
  <2> QED
    BY <1>1, <1>4, <1>6, <2>1, WireWaits
<1>10. Append(toPhone, a) = toPhone \o <<a>> /\ Append(toPhone, b) = toPhone \o <<b>>
  BY <1>5, AppendedOne
<1>11. Append(waiting, q) = waiting \o <<q>>
  BY <1>5, AppendedOne
<1>12. Wire(toPhone', waiting', toHub', phone, rec.epoch, recUpto)
  BY <1>1, <1>2, <1>7, <1>8, <1>9, <1>10, <1>11
<1> QED
  BY <1>12, RequestShows

LEMMA SyncShows ==
    ASSUME SeqInv, HistoryInv, ShowInv, HubRequest, HubSync(Head(toHub))
    PROVE  ShowInv'
<1> DEFINE q == Head(toHub)
<1> DEFINE a == SyncAnswer(q, rec, recUpto)
<1> DEFINE b == SyncRefusal(q)
<1> DEFINE later == [kind |-> "sync", gen |-> q.gen, epoch |-> q.epoch, seq |-> q.seq, answer |-> a]
<1>1. /\ toHub # <<>> /\ toHub' = Tail(toHub) /\ q.kind = "sync"
  BY DEF HubRequest, HubSync
<1>2. \/ toPhone' = Append(toPhone, b) /\ waiting' = waiting
      \/ toPhone' = toPhone /\ waiting' = Append(waiting, later)
      \/ toPhone' = Append(toPhone, a) /\ waiting' = waiting
  BY DEF HubSync, Ask
<1>3. /\ a.kind = "synced" /\ a.ok /\ a.gen = q.gen /\ a.epoch = rec.epoch /\ a.upto = recUpto
      /\ b.kind = "synced" /\ ~b.ok /\ b.gen = q.gen
  BY DEF SyncAnswer, SyncRefusal
<1>4. later.kind = "sync" /\ later.gen = q.gen /\ later.answer = a
  OBVIOUS
<1>5. Wire(toPhone, waiting, toHub, phone, rec.epoch, recUpto)
  BY DEF ShowInv
<1>6. IsChannel(toPhone) /\ IsChannel(waiting) /\ rec.epoch \in Nat
  BY <1>5 DEF Wire
<1> HIDE DEF a, b, later
<1>7. /\ q.kind \in Requests /\ a.kind \in Replies /\ b.kind \in Replies /\ IsAnswer(a) /\ ~IsAnswer(b)
      /\ ~Dates(a) /\ ~Dates(b) /\ rec.epoch \in 0 .. rec.epoch
  BY <1>1, <1>3, <1>6 DEF Requests, Replies, IsAnswer, Dates
<1>8. Wire(toPhone \o <<a>>, waiting, Tail(toHub), phone, rec.epoch, recUpto)
  <2>1. a.epoch \in 0 .. rec.epoch
    BY <1>3, <1>7
  <2> QED
    BY <1>1, <1>3, <1>5, <1>7, <2>1, WireAnswered
<1>9. Wire(toPhone \o <<b>>, waiting, Tail(toHub), phone, rec.epoch, recUpto)
  BY <1>1, <1>3, <1>5, <1>7, WireAnswered
<1>10. Wire(toPhone, waiting \o <<later>>, Tail(toHub), phone, rec.epoch, recUpto)
  <2>1. Waits(later) /\ later.answer.upto = recUpto
    BY <1>3, <1>4, <1>7 DEF Waits, Requests
  <2> QED
    BY <1>1, <1>4, <1>5, <1>7, <2>1, WireWaits
<1>11. Append(toPhone, a) = toPhone \o <<a>> /\ Append(toPhone, b) = toPhone \o <<b>>
  BY <1>6, AppendedOne
<1>12. Append(waiting, later) = waiting \o <<later>>
  BY <1>6, AppendedOne
<1>13. Wire(toPhone', waiting', toHub', phone, rec.epoch, recUpto)
  BY <1>1, <1>2, <1>8, <1>9, <1>10, <1>11, <1>12
<1> QED
  BY <1>13, RequestShows

LEMMA CloseShows ==
    ASSUME SeqInv, HistoryInv, ShowInv, RelayClose
    PROVE  ShowInv'
<1>1. /\ up' = <<>> /\ desk' = "none" /\ recUpto' = recUpto /\ selected' = selected
      /\ toHub' = toHub /\ phone' = phone
  BY DEF RelayClose
<1>2. Wire(toPhone, waiting, toHub, phone, rec.epoch, recUpto) /\ (~phone.conn => ~selected)
  BY DEF ShowInv
<1>3. rec.epoch \in Nat /\ recUpto \in Nat /\ rec.epoch <= rec.epoch
  BY <1>2 DEF Wire
<1>4. Floor' = recUpto /\ Rising(up', Floor') /\ recUpto' <= Floor'
  <2>1. Len(up') = 0 /\ Floor' = recUpto'
    BY <1>1 DEF Floor
  <2> QED
    BY <1>1, <1>3, <2>1 DEF Rising
<1>5. Wire(toPhone', waiting', toHub', phone, rec'.epoch, recUpto')
  <2>1. CASE desk = "registered"
    <3> DEFINE s == toPhone \o Connected(SourcesMsg(rec'))
    <3>1. /\ rec' = [rec EXCEPT !.connected = FALSE] /\ Settle(0)
          /\ toPhone' = s \o Answers(0, FALSE)
      BY <2>1 DEF RelayClose
    <3>2. HasFields(rec)
      BY <2>1 DEF SeqInv, FrontInv
    <3>3. rec'.epoch = rec.epoch
      BY <3>1, <3>2 DEF HasFields
    <3>4. Wire(s, waiting, toHub, phone, rec'.epoch, recUpto)
      BY <1>2, <1>3, <3>3, WireSources
    <3> HIDE DEF s
    <3>5. Wire(s, waiting, toHub, phone, rec'.epoch, recUpto')
      BY <1>1, <3>4
    <3>6. rec'.epoch \in Nat /\ rec.epoch <= rec'.epoch
      BY <1>3, <3>3
    <3>7. Wire(s \o Answers(0, FALSE), waiting', toHub, phone, rec'.epoch, recUpto')
      BY <3>1, <3>5, <3>6, WireSettled
    <3> QED
      BY <1>1, <3>1, <3>7
  <2>2. CASE desk # "registered"
    <3>1. rec' = rec /\ waiting' = waiting /\ toPhone' = toPhone
      BY <2>2 DEF RelayClose
    <3> QED
      BY <1>1, <1>2, <3>1
  <2> QED
    BY <2>1, <2>2
<1> QED
  BY <1>1, <1>2, <1>4, <1>5, HubShows

\* All the steps but the phone's.
LEMMA OthersShow ==
    ASSUME SeqInv, HistoryInv, SeqInv', ShowInv, RelayStep \/ HubStep
    PROVE  ShowInv'
<1>1. CASE RelayStep
  BY <1>1, RelayStepShows, CloseShows DEF RelayStep, RelayDrop
<1>2. CASE HubReceive
  <2>1. HubRefuse(Head(up)) \/ HubSnapshot(Head(up)) \/ HubUnavailable(Head(up)) \/ HubEvent(Head(up))
    BY <1>2 DEF HubReceive
  <2> QED
    BY <1>2, <2>1, RefuseShows, SnapshotShown, UnavailableShows, EventShows
<1>3. CASE HubRequest
  BY <1>3, SelectShows, SyncShows DEF HubRequest
<1>4. CASE HubSweep
  BY <1>4, CloseShows DEF HubSweep
<1> QED
  BY <1>1, <1>2, <1>3, <1>4, RegisterStartShows, RegisterDoneShows, AskTimeoutShows DEF HubStep

-----------------------------------------------------------------------------
(* A message reaches the phone.                                            *)

\* What is heard was announced, and what is still to come goes on from there.
LEMMA ListingTaken ==
    ASSUME NEW q, IsChannel(q), q # <<>>, NEW l, NEW e \in Nat, Listing(q, l, e), Head(q).kind # "sources"
    PROVE  /\ Listing(Tail(q), l, e)
           /\ Dated(Head(q)) => Head(q).epoch \in 0 .. e /\ Head(q).epoch <= l
<1> DEFINE t == Tail(q)
<1>1. /\ IsChannel(t) /\ Len(q) \in Nat /\ Len(q) >= 1 /\ 1 \in 1 .. Len(q) /\ Head(q) = q[1]
      /\ \A i \in 1 .. Len(t) : i + 1 \in 1 .. Len(q) /\ t[i] = q[i + 1]
      /\ Len(t) = Len(q) - 1
  BY TakenOne
<1> HIDE DEF t
<1>2. q[1].kind # "sources"
  BY <1>1
<1>3. ASSUME NEW i \in 0 .. Len(t), NEW x, Announced(q, l, i + 1, x) PROVE Announced(t, l, i, x)
  <2>1. CASE x <= l
    BY <2>1 DEF Announced
  <2>2. CASE \E j \in 1 .. i + 1 : q[j].kind = "sources" /\ x <= q[j].epoch
    <3>1. PICK j \in 1 .. i + 1 : q[j].kind = "sources" /\ x <= q[j].epoch
      BY <2>2
    <3>2. j # 1
      BY <1>2, <3>1
    <3>3. j - 1 \in 1 .. i /\ j - 1 \in 1 .. Len(t) /\ (j - 1) + 1 = j
      BY <1>1, <3>2
    <3>4. t[j - 1] = q[j]
      BY <1>1, <3>3
    <3> QED
      BY <3>1, <3>3, <3>4 DEF Announced
  <2> QED
    BY <1>3, <2>1, <2>2 DEF Announced
<1>4. ASSUME NEW i \in 1 .. Len(t), Dated(t[i])
      PROVE  t[i].epoch \in 0 .. e /\ Announced(t, l, i, t[i].epoch)
  <2>1. i + 1 \in 1 .. Len(q) /\ t[i] = q[i + 1] /\ i \in 0 .. Len(t)
    BY <1>1
  <2>2. q[i + 1].epoch \in 0 .. e /\ Announced(q, l, i + 1, q[i + 1].epoch)
    BY <1>4, <2>1 DEF Listing
  <2> QED
    BY <1>3, <2>1, <2>2
<1>5. \A i \in 1 .. Len(t) : Dates(t[i]) => l <= t[i].epoch
  BY <1>1 DEF Listing
<1>6. Announced(t, l, Len(t), e)
  <2>1. Len(t) \in 0 .. Len(t) /\ Len(q) = Len(t) + 1
    BY <1>1
  <2>2. Announced(q, l, Len(t) + 1, e)
    BY <2>1 DEF Listing
  <2> QED
    BY <1>3, <2>1, <2>2
<1>7. Listing(t, l, e)
  BY <1>4, <1>5, <1>6 DEF Listing
<1>8. ASSUME Dated(Head(q)) PROVE Head(q).epoch \in 0 .. e /\ Head(q).epoch <= l
  <2>1. q[1].epoch \in 0 .. e /\ Announced(q, l, 1, q[1].epoch)
    BY <1>1, <1>8 DEF Listing
  <2>2. \A j \in 1 .. 1 : j = 1
    OBVIOUS
  <2> QED
    BY <1>1, <1>2, <2>1, <2>2 DEF Announced
<1> QED
  BY <1>7, <1>8 DEF t

\* A list of the sources is never of an epoch before the one last told of.
LEMMA ListingListed ==
    ASSUME NEW w, NEW q, IsChannel(q), q # <<>>, NEW l, NEW e \in Nat, Listing(q, l, e), Head(q).kind = "sources",
           Behind(w, Tail(q), Head(q).epoch)
    PROVE  /\ Listing(Tail(q), Head(q).epoch, e)
           /\ l \in Nat /\ Head(q).epoch \in 0 .. e /\ l <= Head(q).epoch
<1> DEFINE t == Tail(q)
<1> DEFINE k == Head(q).epoch
<1>1. /\ IsChannel(t) /\ Len(q) \in Nat /\ Len(q) >= 1 /\ 1 \in 1 .. Len(q) /\ Head(q) = q[1]
      /\ \A i \in 1 .. Len(t) : i + 1 \in 1 .. Len(q) /\ t[i] = q[i + 1]
      /\ Len(t) = Len(q) - 1
  BY TakenOne
<1> HIDE DEF t
<1>2. Dates(q[1]) /\ Dated(q[1]) /\ k = q[1].epoch
  BY <1>1 DEF Dates, Dated
<1> HIDE DEF k
<1>3. l \in 0 .. e /\ k \in 0 .. e /\ l <= k /\ l \in Nat /\ k \in Nat
  BY <1>1, <1>2 DEF Listing
<1>4. ASSUME NEW i \in 0 .. Len(t), NEW x \in 0 .. e, Announced(q, l, i + 1, x) PROVE Announced(t, k, i, x)
  <2>1. CASE x <= l
    <3>1. x <= k
      BY <1>3, <2>1
    <3> QED
      BY <3>1 DEF Announced
  <2>2. CASE \E j \in 1 .. i + 1 : q[j].kind = "sources" /\ x <= q[j].epoch
    <3>1. PICK j \in 1 .. i + 1 : q[j].kind = "sources" /\ x <= q[j].epoch
      BY <2>2
    <3>2. CASE j = 1
      BY <1>2, <3>1, <3>2 DEF Announced
    <3>3. CASE j # 1
      <4>1. j - 1 \in 1 .. i /\ j - 1 \in 1 .. Len(t) /\ (j - 1) + 1 = j
        BY <1>1, <3>3
      <4>2. t[j - 1] = q[j]
        BY <1>1, <4>1
      <4> QED
        BY <3>1, <4>1, <4>2 DEF Announced
    <3> QED
      BY <3>2, <3>3
  <2> QED
    BY <1>4, <2>1, <2>2 DEF Announced
<1>5. ASSUME NEW i \in 1 .. Len(t), Dated(t[i])
      PROVE  t[i].epoch \in 0 .. e /\ Announced(t, k, i, t[i].epoch)
  <2>1. i + 1 \in 1 .. Len(q) /\ t[i] = q[i + 1] /\ i \in 0 .. Len(t)
    BY <1>1
  <2>2. q[i + 1].epoch \in 0 .. e /\ Announced(q, l, i + 1, q[i + 1].epoch)
    BY <1>5, <2>1 DEF Listing
  <2> QED
    BY <1>4, <2>1, <2>2
<1>6. \A i \in 1 .. Len(t) : Dates(t[i]) => k <= t[i].epoch
  BY DEF Behind, t, k
<1>7. Announced(t, k, Len(t), e)
  <2>1. Len(t) \in 0 .. Len(t) /\ Len(q) = Len(t) + 1 /\ e \in 0 .. e
    BY <1>1
  <2>2. Announced(q, l, Len(t) + 1, e)
    BY <2>1 DEF Listing
  <2> QED
    BY <1>4, <2>1, <2>2
<1>8. Listing(t, k, e)
  BY <1>3, <1>5, <1>6, <1>7 DEF Listing
<1> QED
  BY <1>3, <1>8 DEF t, k

\* An answer that is heard ends the turn of its generation.
LEMMA TurnTaken ==
    ASSUME NEW q, IsChannel(q), q # <<>>, NEW b, NEW h, NEW g, NEW l, NEW u, Turn(h, b, q, g, l, u)
    PROVE  /\ Turn(h, b, Tail(q), g, l, u)
           /\ Bears(Head(q), g) => Free(h, g) /\ Free(b, g) /\ Free(Tail(q), g)
           /\ IsAnswer(Head(q)) /\ Head(q).gen = g => Head(q).upto \in l .. u
<1> DEFINE t == Tail(q)
<1>1. /\ Len(q) \in Nat /\ 1 \in 1 .. Len(q) /\ Head(q) = q[1]
      /\ \A i \in 1 .. Len(t) : i + 1 \in 1 .. Len(q) /\ t[i] = q[i + 1]
  BY TakenOne
<1>2. /\ Single(t, g) /\ (Free(q, g) => Free(t, g) /\ ~Bears(Head(q), g))
      /\ Bears(Head(q), g) => Free(t, g)
  BY TakenBears DEF Turn
<1> HIDE DEF t
<1>3. ASSUME Bears(Head(q), g) PROVE Free(h, g) /\ Free(b, g) /\ Free(t, g)
  <2>1. ~Free(q, g) /\ Free(t, g)
    BY <1>2, <1>3
  <2> QED
    BY <2>1 DEF Turn
<1>4. \/ Free(h, g) /\ Free(b, g)
      \/ Free(h, g) /\ Free(t, g)
      \/ Free(b, g) /\ Free(t, g)
  <2>1. Free(q, g) => Free(t, g)
    BY <1>2
  <2>2. \/ Free(h, g) /\ Free(b, g)
        \/ Free(h, g) /\ Free(q, g)
        \/ Free(b, g) /\ Free(q, g)
    BY DEF Turn
  <2> QED
    BY <2>1, <2>2
<1>5. \A i \in 1 .. Len(t) : IsAnswer(t[i]) /\ t[i].gen = g => t[i].upto \in l .. u
  BY <1>1 DEF Turn
<1>6. Turn(h, b, t, g, l, u)
  BY <1>2, <1>4, <1>5 DEF Turn
<1>7. IsAnswer(Head(q)) /\ Head(q).gen = g => Head(q).upto \in l .. u
  BY <1>1 DEF Turn
<1> QED
  BY <1>3, <1>6, <1>7 DEF t

\* A request of a generation nobody bears begins a turn.
LEMMA TurnBegins ==
    ASSUME NEW q, NEW b, NEW h, IsChannel(h), NEW g, Free(h, g), Free(b, g), Free(q, g), NEW x, NEW l, NEW u
    PROVE  Turn(h \o <<x>>, b, q, g, l, u)
<1>1. Single(h \o <<x>>, g)
  BY SentBears
<1>2. Single(b, g) /\ Single(q, g)
  BY DEF Single, Free
<1>3. \A i \in 1 .. Len(q) : IsAnswer(q[i]) /\ q[i].gen = g => q[i].upto \in l .. u
  BY DEF Free, Bears, IsAnswer, Replies
<1>4. \A i \in 1 .. Len(b) : b[i].kind = "sync" /\ b[i].gen = g => b[i].answer.upto \in l .. u
  BY DEF Free, Bears, Requests
<1> QED
  BY <1>1, <1>2, <1>3, <1>4 DEF Turn

\* The phone p is r now, and t is still on its way to it.
LEMMA WireOn ==
    ASSUME NEW q, NEW b, NEW h, NEW p, NEW e, NEW u, Wire(q, b, h, p, e, u), NEW t, IsChannel(t),
           \A i \in 1 .. Len(t) : t[i].kind \in News \cup Replies,
           NEW r, r.conn, r.leaf \in 0 .. u, Listing(t, r.listed, e),
           \/ r.out = <<>> /\ (r.stage # "none" => Turn(h, b, t, r.gen, r.leaf, u))
           \/ \E x : r.out = <<x>> /\ Free(h, r.gen) /\ Free(b, r.gen) /\ Free(t, r.gen)
    PROVE  Wire(t, b, h \o r.out, r, e, u)
<1>1. /\ IsChannel(b) /\ IsChannel(h) /\ e \in Nat /\ u \in Nat /\ \A i \in 1 .. Len(b) : Waits(b[i])
  BY DEF Wire
<1>2. h \o <<>> = h
  <2>1. PICK S : h \in Seq(S)
    BY <1>1 DEF IsChannel
  <2> QED
    BY <2>1
<1>3. CASE r.out = <<>> /\ (r.stage # "none" => Turn(h, b, t, r.gen, r.leaf, u))
  <2>1. h \o r.out = h
    BY <1>2, <1>3
  <2>2. Wire(t, b, h, r, e, u)
    BY <1>1, <1>3 DEF Wire
  <2> QED
    BY <2>1, <2>2
<1>4. CASE \E x : r.out = <<x>> /\ Free(h, r.gen) /\ Free(b, r.gen) /\ Free(t, r.gen)
  <2>1. PICK x : r.out = <<x>> /\ Free(h, r.gen) /\ Free(b, r.gen) /\ Free(t, r.gen)
    BY <1>4
  <2>2. Turn(h \o <<x>>, b, t, r.gen, r.leaf, u) /\ IsChannel(h \o <<x>>)
    BY <1>1, <2>1, TurnBegins, SentOne
  <2>3. Wire(t, b, h \o <<x>>, r, e, u)
    BY <1>1, <2>2 DEF Wire
  <2> QED
    BY <2>1, <2>3
<1> QED
  BY <1>3, <1>4

-----------------------------------------------------------------------------
(* Generations, and what the phone remembers.                              *)

LEMMA NotIn ==
    ASSUME NEW S, IsFiniteSet(S)
    PROVE  (CHOOSE g \in 1 .. (Cardinality(S) + 1) : g \notin S) \notin S
<1> DEFINE n == Cardinality(S)
<1> DEFINE all == 1 .. (n + 1)
<1>1. n \in Nat
  BY FS_CardinalityType
<1>2. Cardinality(all) = n + 1
  <2> HIDE DEF n
  <2>1. 1 \in Int /\ n + 1 \in Int
    BY <1>1
  <2>2. Cardinality(1 .. (n + 1)) = IF 1 > n + 1 THEN 0 ELSE (n + 1) - 1 + 1
    BY <2>1, FS_Interval
  <2> QED
    BY <1>1, <2>2
<1>3. ~(all \subseteq S)
  <2> SUFFICES ASSUME all \subseteq S PROVE FALSE
    OBVIOUS
  <2> HIDE DEF all
  <2>1. Cardinality(all) <= Cardinality(S)
    BY FS_Subset
  <2> HIDE DEF n
  <2>2. n + 1 <= n
    BY <1>2, <2>1 DEF n
  <2> QED
    BY <1>1, <2>2
<1> HIDE DEF all
<1>4. \E g \in all : g \notin S
  BY <1>3
<1>5. (CHOOSE g \in all : g \notin S) \notin S
  BY <1>4
<1> QED
  BY <1>5 DEF all, n

LEMMA Gens ==
    ASSUME NEW s, IsChannel(s)
    PROVE  IsFiniteSet({s[i].gen : i \in DOMAIN s}) /\ DOMAIN s = 1 .. Len(s)
<1> DEFINE f == [i \in 1 .. Len(s) |-> s[i].gen]
<1>1. DOMAIN s = 1 .. Len(s) /\ Len(s) \in Nat
  BY DEF IsChannel
<1>2. DOMAIN f = 1 .. Len(s) /\ {f[i] : i \in 1 .. Len(s)} = {s[i].gen : i \in DOMAIN s}
  BY <1>1
<1> HIDE DEF f
<1> QED
  BY <1>1, <1>2, Numbers

\* Nobody bears a fresh generation.
LEMMA FreshFree ==
    ASSUME ShowInv
    PROVE  Free(toHub, FreshGen) /\ Free(waiting, FreshGen) /\ Free(toPhone, FreshGen)
<1> DEFINE A == {toHub[i].gen : i \in DOMAIN toHub}
<1> DEFINE B == {waiting[i].gen : i \in DOMAIN waiting}
<1> DEFINE J == {j \in DOMAIN toPhone : toPhone[j].kind \in {"selected", "synced"}}
<1> DEFINE C == {toPhone[i].gen : i \in J}
<1> DEFINE D == {toPhone[i].gen : i \in DOMAIN toPhone}
<1> DEFINE E == {phone.resyncGen}
<1>1. IsChannel(toHub) /\ IsChannel(waiting) /\ IsChannel(toPhone)
  BY DEF ShowInv, Wire
<1>2. /\ \A i \in 1 .. Len(toPhone) : toPhone[i].kind \in News \cup Replies
      /\ \A i \in 1 .. Len(waiting) : Waits(waiting[i])
  BY DEF ShowInv, Wire
<1>3. /\ IsFiniteSet(A) /\ IsFiniteSet(B) /\ IsFiniteSet(D)
      /\ DOMAIN toHub = 1 .. Len(toHub) /\ DOMAIN waiting = 1 .. Len(waiting) /\ DOMAIN toPhone = 1 .. Len(toPhone)
  BY <1>1, Gens
<1>4. C \subseteq D
  OBVIOUS
<1>5. /\ \A i \in 1 .. Len(toHub) : toHub[i].gen \in A
      /\ \A i \in 1 .. Len(waiting) : waiting[i].gen \in B
      /\ \A i \in 1 .. Len(toPhone) : toPhone[i].kind \in {"selected", "synced"} => toPhone[i].gen \in C
  BY <1>3
<1>6. GensInUse = A \cup B \cup C \cup E
  BY DEF GensInUse
<1>7. IsFiniteSet(E)
  BY FS_Singleton
<1> HIDE DEF A, B, C, D, E
<1>8. IsFiniteSet(C)
  BY <1>3, <1>4, FS_Subset
<1>9. IsFiniteSet(GensInUse)
  <2>1. IsFiniteSet(A \cup B)
    BY <1>3, FS_Union
  <2>2. IsFiniteSet(A \cup B \cup C)
    BY <1>8, <2>1, FS_Union
  <2>3. IsFiniteSet(A \cup B \cup C \cup E)
    BY <1>7, <2>2, FS_Union
  <2> QED
    BY <1>6, <2>3
<1>10. FreshGen \notin GensInUse
  <2> DEFINE S == GensInUse
  <2>1. FreshGen = CHOOSE g \in 1 .. (Cardinality(S) + 1) : g \notin S
    BY DEF FreshGen
  <2> HIDE DEF S
  <2>2. (CHOOSE g \in 1 .. (Cardinality(S) + 1) : g \notin S) \notin S
    BY <1>9, NotIn DEF S
  <2> QED
    BY <2>1, <2>2 DEF S
<1> DEFINE g == FreshGen
<1>11. g \notin A /\ g \notin B /\ g \notin C
  BY <1>6, <1>10
<1> HIDE DEF g
<1>12. Free(toHub, g) /\ Free(waiting, g)
  BY <1>5, <1>11 DEF Free, Bears
<1>13. Free(toPhone, g)
  <2>1. \A i \in 1 .. Len(toPhone) : toPhone[i].kind \in Requests \cup Replies => toPhone[i].kind \in {"selected", "synced"}
    BY <1>2 DEF News, Requests, Replies
  <2> QED
    BY <1>5, <1>11, <2>1 DEF Free, Bears
<1> QED
  BY <1>12, <1>13 DEF g

\* The list of the sources that alone would hold the phone's memory to epoch l.
Only(l) == <<[kind |-> "sources", epoch |-> l]>>

LEMMA OnlyOne ==
    ASSUME NEW l
    PROVE  Len(Only(l)) = 1 /\ Only(l)[1].epoch = l /\ Dates(Only(l)[1])
BY DEF Only, Dates

LEMMA BehindOnly ==
    ASSUME NEW w, NEW q, NEW e, NEW l, Behind(w, q, e), e <= l
    PROVE  Behind(w, Only(l), e)
<1>1. Len(Only(l)) = 1 /\ Only(l)[1].epoch = l
  BY OnlyOne
<1>2. \A i \in 1 .. Len(Only(l)) : e <= Only(l)[i].epoch
  BY <1>1
<1> QED
  BY <1>2 DEF Behind

LEMMA OnlyBehind ==
    ASSUME NEW w, NEW e, NEW l, Behind(w, Only(l), e)
    PROVE  e <= l
<1>1. Len(Only(l)) = 1 /\ Only(l)[1].epoch = l /\ Dates(Only(l)[1])
  BY OnlyOne
<1>2. 1 \in 1 .. Len(Only(l))
  BY <1>1
<1> QED
  BY <1>1, <1>2 DEF Behind

LEMMA WithinOK ==
    ASSUME NEW w, NEW q, NEW p, PhoneOK(w, q, p), NEW l, Within(p, l)
    PROVE  PhoneOK(w, Only(l), p)
<1> DEFINE o == Only(l)
<1>1. Behind(w, o, p.epoch) /\ Behind(w, o, p.disk.epoch)
  BY BehindOnly DEF PhoneOK, Core, CursorOK, Within
<1>2. \A i \in 1 .. Len(p.buffer) : Behind(w, o, p.buffer[i].epoch)
  BY BehindOnly DEF PhoneOK, Buffers, BufferOK, Within
<1> HIDE DEF o
<1>3. CursorOK(w, o, p, p.epoch, p.seq) /\ CursorOK(w, o, p, p.disk.epoch, p.disk.seq)
  BY <1>1 DEF PhoneOK, Core, CursorOK
<1>4. BufferOK(w, o, p.buffer)
  BY <1>2 DEF PhoneOK, Buffers, BufferOK
<1>5. PhoneOK(w, o, p)
  BY <1>3, <1>4 DEF PhoneOK, Core, Buffers
<1> QED
  BY <1>5 DEF o

LEMMA OKWithin ==
    ASSUME NEW w, NEW p, NEW l, PhoneOK(w, Only(l), p)
    PROVE  Within(p, l) /\ DOMAIN p = PhoneFields
<1> DEFINE o == Only(l)
<1>1. /\ Behind(w, o, p.epoch) /\ Behind(w, o, p.disk.epoch)
      /\ \A i \in 1 .. Len(p.buffer) : Behind(w, o, p.buffer[i].epoch)
  BY DEF PhoneOK, Core, CursorOK, Buffers, BufferOK
<1>2. p.epoch <= l /\ p.disk.epoch <= l
  BY <1>1, OnlyBehind
<1>3. \A i \in 1 .. Len(p.buffer) : p.buffer[i].epoch <= l
  BY <1>1, OnlyBehind
<1> QED
  BY <1>2, <1>3 DEF Within, PhoneOK, Core

\* What ShownStaysShown says of one step.
Stays(p, r) ==
    p.leaf # 0 /\ r.epoch = p.epoch /\ ~(p.stage = "sync" /\ ~p.reconcile)
        => p.view \subseteq r.view \/ p.leaf <= r.earlier

\* The phone sends what it has to say.
LEMMA BecomeShows ==
    ASSUME ShowInv, UNCHANGED hubVars, up' = up, NEW r, Become(r), DOMAIN r = PhoneFields,
           r.conn => Within(r, r.listed), ~r.conn => ~selected,
           Wire(toPhone', waiting, toHub \o r.out, r, rec.epoch, recUpto), Stays(phone, r)
    PROVE  ShowInv' /\ Stays(phone, phone')
<1>1. /\ desk' = desk /\ registration' = registration /\ rec' = rec /\ recUpto' = recUpto
      /\ waiting' = waiting /\ selected' = selected
  BY DEF hubVars
<1> DEFINE s == [r EXCEPT !.out = <<>>]
<1>2. phone' = s /\ toHub' = toHub \o r.out
  BY DEF Become
<1>3. /\ s.conn = r.conn /\ s.listed = r.listed /\ s.leaf = r.leaf /\ s.stage = r.stage /\ s.gen = r.gen
      /\ s.earlier = r.earlier /\ s.view = r.view /\ s.epoch = r.epoch /\ s.disk = r.disk /\ s.buffer = r.buffer
  BY DEF PhoneFields
<1> HIDE DEF s
<1>4. Floor' = Floor /\ Rising(up, Floor) /\ recUpto <= Floor
  BY <1>1 DEF Floor, ShowInv
<1>5. Wire(toPhone', waiting, toHub \o r.out, s, rec.epoch, recUpto)
  BY <1>3 DEF Wire
<1>6. s.conn => Within(s, s.listed)
  BY <1>3 DEF Within
<1>7. Stays(phone, s)
  BY <1>3 DEF Stays
<1>8. ShowInv'
  BY <1>1, <1>2, <1>3, <1>4, <1>5, <1>6 DEF ShowInv
<1> QED
  BY <1>2, <1>7, <1>8

-----------------------------------------------------------------------------
(* The steps of the phone.                                                 *)

LEMMA PhoneFacts ==
    ASSUME HistoryInv, ShowInv
    PROVE  /\ WorldOK(World) /\ World.log = log /\ World.epoch = rec.epoch /\ rec.epoch \in Nat /\ recUpto \in Nat
           /\ QueueOK(World, toPhone) /\ PhoneOK(World, toPhone, phone) /\ phone.out = <<>>
           /\ DOMAIN phone = PhoneFields /\ phone.leaf \in 0 .. recUpto
           /\ phone.conn => Within(phone, phone.listed) /\ Listing(toPhone, phone.listed, rec.epoch)
           /\ ~phone.conn => ~selected
           /\ Wire(toPhone, waiting, toHub, phone, rec.epoch, recUpto)
<1>1. WorldOK(World) /\ QueueOK(World, toPhone) /\ PhoneOK(World, toPhone, phone) /\ phone.out = <<>>
  BY DEF HistoryInv, ScreenInv
<1>2. World.log = log /\ World.epoch = rec.epoch
  BY WorldFields
<1>3. DOMAIN phone = PhoneFields
  BY <1>1 DEF PhoneOK, Core
<1>4. /\ Wire(toPhone, waiting, toHub, phone, rec.epoch, recUpto)
      /\ phone.conn => Within(phone, phone.listed)
      /\ ~phone.conn => ~selected
  BY DEF ShowInv
<1>5. /\ rec.epoch \in Nat /\ recUpto \in Nat /\ phone.leaf \in 0 .. recUpto
      /\ phone.conn => Listing(toPhone, phone.listed, rec.epoch)
  BY <1>4 DEF Wire
<1> QED
  BY <1>1, <1>2, <1>3, <1>4, <1>5

\* What is left on the way to the phone.
LEMMA TailWired ==
    ASSUME NEW q, NEW b, NEW h, NEW p, NEW e, NEW u, Wire(q, b, h, p, e, u), q # <<>>
    PROVE  /\ IsChannel(q) /\ IsChannel(Tail(q)) /\ \A i \in 1 .. Len(Tail(q)) : Tail(q)[i].kind \in News \cup Replies
           /\ p.conn
<1>1. IsChannel(q) /\ \A i \in 1 .. Len(q) : q[i].kind \in News \cup Replies
  BY DEF Wire
<1>2. IsChannel(Tail(q)) /\ \A i \in 1 .. Len(Tail(q)) : i + 1 \in 1 .. Len(q) /\ Tail(q)[i] = q[i + 1]
  BY <1>1, TakenOne
<1> QED
  BY <1>1, <1>2 DEF Wire

\* A message is heard that is no list of the sources.
LEMMA HeardShows ==
    ASSUME HistoryInv, ShowInv, toPhone # <<>>, toPhone' = Tail(toPhone), UNCHANGED hubVars, up' = up,
           Head(toPhone).kind # "sources", NEW r, Become(r), DOMAIN r = PhoneFields,
           r.conn = phone.conn, r.listed = phone.listed, r.leaf \in 0 .. recUpto, Stays(phone, r),
           Within(r, phone.listed),
           \/ r.leaf = phone.leaf /\ Settled(phone, r)
           \/ r.stage = "none" /\ r.out = <<>>
           \/ Asks(phone, r, phone.gen) /\ phone.stage # "none" /\ Bears(Head(toPhone), phone.gen)
    PROVE  ShowInv' /\ Stays(phone, phone')
<1> DEFINE q == toPhone
<1> DEFINE t == Tail(q)
<1> DEFINE e == rec.epoch
<1> DEFINE u == recUpto
<1>1. /\ Wire(q, waiting, toHub, phone, e, u) /\ e \in Nat /\ phone.out = <<>>
      /\ (phone.conn => Listing(q, phone.listed, e)) /\ (~phone.conn => ~selected)
  BY PhoneFacts
<1>2. IsChannel(q) /\ IsChannel(t) /\ (\A i \in 1 .. Len(t) : t[i].kind \in News \cup Replies) /\ phone.conn
  BY <1>1, TailWired
<1>3. Listing(t, phone.listed, e)
  BY <1>1, <1>2, ListingTaken
<1>4. phone.stage # "none" => Turn(toHub, waiting, q, phone.gen, phone.leaf, u)
  BY <1>1 DEF Wire
<1>5. phone.stage # "none" =>
         /\ Turn(toHub, waiting, t, phone.gen, phone.leaf, u)
         /\ Bears(Head(q), phone.gen) => Free(toHub, phone.gen) /\ Free(waiting, phone.gen) /\ Free(t, phone.gen)
  BY <1>2, <1>4, TurnTaken
<1>6. /\ r.conn /\ Listing(t, r.listed, e) /\ Within(r, r.listed) /\ toPhone' = t
      /\ r.leaf \in 0 .. u
  BY <1>2, <1>3
<1>7. \/ r.out = <<>> /\ (r.stage # "none" => Turn(toHub, waiting, t, r.gen, r.leaf, u))
      \/ \E x : r.out = <<x>> /\ Free(toHub, r.gen) /\ Free(waiting, r.gen) /\ Free(t, r.gen)
  <2>1. CASE r.leaf = phone.leaf /\ Settled(phone, r)
    BY <1>1, <1>5, <2>1 DEF Settled
  <2>2. CASE r.stage = "none" /\ r.out = <<>>
    BY <2>2
  <2>3. CASE Asks(phone, r, phone.gen) /\ phone.stage # "none" /\ Bears(Head(q), phone.gen)
    <3>1. PICK x : r.out = Append(<<>>, x) /\ r.gen = phone.gen
      BY <1>1, <2>3 DEF Asks
    <3>2. r.out = <<x>>
      BY <3>1
    <3> QED
      BY <1>5, <2>3, <3>1, <3>2
  <2> QED
    BY <2>1, <2>2, <2>3
<1> HIDE DEF q, t, e, u
<1>8. Wire(t, waiting, toHub \o r.out, r, e, u)
  BY <1>1, <1>2, <1>6, <1>7, WireOn
<1>9. Wire(toPhone', waiting, toHub \o r.out, r, rec.epoch, recUpto)
  BY <1>6, <1>8 DEF e, u
<1> QED
  BY <1>6, <1>9, BecomeShows

\* ... that leaves the list as it was, or longer.
LEMMA HeardAndShown ==
    ASSUME HistoryInv, ShowInv, toPhone # <<>>, toPhone' = Tail(toPhone), UNCHANGED hubVars, up' = up,
           Head(toPhone).kind # "sources", NEW r, Become(r), Shows(phone, r), PhoneOK(World, Only(phone.listed), r),
           \/ Settled(phone, r)
           \/ Asks(phone, r, phone.gen) /\ phone.stage # "none" /\ Bears(Head(toPhone), phone.gen)
    PROVE  ShowInv' /\ Stays(phone, phone')
<1>1. /\ DOMAIN r = PhoneFields /\ r.conn = phone.conn /\ r.listed = phone.listed /\ r.leaf = phone.leaf
      /\ Stays(phone, r)
  BY DEF Shows, Stays
<1>2. Within(r, phone.listed)
  BY OKWithin
<1>3. r.leaf \in 0 .. recUpto
  BY <1>1, PhoneFacts
<1> QED
  BY <1>1, <1>2, <1>3, HeardShows

LEMMA ReceiveShows ==
    ASSUME SeqInv, HistoryInv, ShowInv, PhoneReceive
    PROVE  ShowInv' /\ Stays(phone, phone')
<1> DEFINE m == Head(toPhone)
<1> DEFINE q == toPhone
<1> DEFINE t == Tail(q)
<1> DEFINE w == World
<1> DEFINE l == phone.listed
<1> DEFINE o == Only(l)
<1>1. /\ q # <<>> /\ toPhone' = t /\ UNCHANGED hubVars /\ up' = up
      /\ \/ m.kind = "event"    /\ Become(OnEvent(phone, m))
         \/ m.kind = "announce" /\ Become(OnAnnounce(phone, m))
         \/ m.kind = "sources"  /\ Become(OnSources(phone, m))
         \/ m.kind = "selected" /\ Become(OnSelected(phone, m))
         \/ m.kind = "synced"   /\ Become(OnSynced(phone, m))
  BY DEF PhoneReceive
<1>2. /\ WorldOK(w) /\ w.log = log /\ w.epoch = rec.epoch /\ rec.epoch \in Nat /\ recUpto \in Nat
      /\ QueueOK(w, q) /\ PhoneOK(w, q, phone) /\ phone.out = <<>>
      /\ DOMAIN phone = PhoneFields /\ phone.leaf \in 0 .. recUpto
      /\ phone.conn => Within(phone, l) /\ Listing(q, l, rec.epoch)
      /\ Wire(q, waiting, toHub, phone, rec.epoch, recUpto)
  BY PhoneFacts
<1>3. /\ QueueOK(w, t) /\ MsgOK(w, m)
      /\ Dated(m) => Behind(w, t, m.epoch)
  BY <1>1, <1>2, QueueLess
<1>4. IsChannel(q) /\ IsChannel(t) /\ (\A i \in 1 .. Len(t) : t[i].kind \in News \cup Replies) /\ phone.conn
  BY <1>1, <1>2, TailWired
<1>5. m.kind # "sources" => Listing(t, l, rec.epoch) /\ (Dated(m) => m.epoch \in 0 .. rec.epoch /\ m.epoch <= l)
  BY <1>1, <1>2, <1>4, ListingTaken
<1>6. PhoneOK(w, o, phone)
  BY <1>2, <1>4, WithinOK
<1>7. m.kind # "sources" /\ Dated(m) => Behind(w, o, m.epoch)
  BY <1>3, <1>5, BehindOnly
<1>8. PhoneOK(w, o, phone) /\ phone.epoch <= l
  BY <1>2, <1>4, <1>6 DEF Within
<1> HIDE DEF o
<1>9. CASE m.kind = "event" /\ Become(OnEvent(phone, m))
  <2> DEFINE r == OnEvent(phone, m)
  <2>1. EventOK(w, m) /\ Behind(w, o, m.epoch)
    BY <1>3, <1>7, <1>9 DEF MsgOK, Dated
  <2>2. PhoneOK(w, o, r)
    BY <1>2, <1>6, <2>1, OnEventKeeps
  <2>3. Shows(phone, r) /\ Settled(phone, r)
    BY <1>2, OnEventShows
  <2> HIDE DEF r
  <2> QED
    BY <1>1, <1>9, <2>2, <2>3, HeardAndShown DEF o, r
<1>10. CASE m.kind = "announce" /\ Become(OnAnnounce(phone, m))
  <2> DEFINE r == OnAnnounce(phone, m)
  <2>1. PhoneOK(w, o, r)
    BY <1>6, OnAnnounceKeeps
  <2>2. Shows(phone, r) /\ Settled(phone, r)
    BY <1>2, OnAnnounceShows
  <2> HIDE DEF r
  <2> QED
    BY <1>1, <1>10, <2>1, <2>2, HeardAndShown DEF o, r
<1>11. CASE m.kind = "selected" /\ Become(OnSelected(phone, m))
  <2> DEFINE r == OnSelected(phone, m)
  <2>1. /\ m.epoch \in 1 .. w.epoch /\ Dated(m) /\ Dates(m) /\ Behind(w, o, m.epoch)
    BY <1>3, <1>7, <1>11 DEF MsgOK, Dated, Dates
  <2>2. phone.epoch <= m.epoch
    <3>1. Behind(w, q, phone.epoch)
      BY <1>2 DEF PhoneOK, Core, CursorOK
    <3> QED
      BY <1>1, <1>2, <2>1, <3>1, BehindLess
  <2>3. PhoneOK(w, o, r)
    BY <1>2, <1>6, <2>1, <2>2, OnSelectedKeeps
  <2>4. /\ Shows(phone, r)
        /\ \/ Settled(phone, r)
           \/ Asks(phone, r, phone.gen) /\ m.gen = phone.gen /\ phone.stage = "select"
    BY <1>2, OnSelectedShows
  <2>5. m.gen = phone.gen => Bears(m, phone.gen)
    BY <1>11 DEF Bears, Replies
  <2> HIDE DEF r
  <2> QED
    BY <1>1, <1>11, <2>3, <2>4, <2>5, HeardAndShown DEF o, r
<1>12. CASE m.kind = "synced" /\ Become(OnSynced(phone, m))
  <2> DEFINE r == OnSynced(phone, m)
  <2>1. AnswerOK(w, m) /\ (m.ok => Behind(w, o, m.epoch))
    BY <1>3, <1>7, <1>12 DEF MsgOK, Dated
  <2>2. PhoneOK(w, o, r)
    BY <1>2, <1>6, <2>1, OnSyncedKeeps
  <2>3. \/ Shows(phone, r) /\ Settled(phone, r)
        \/ /\ m.ok /\ m.gen = phone.gen /\ phone.stage = "sync" /\ Rebased(phone, m, r)
           /\ \/ r.stage = "none" /\ r.out = phone.out
              \/ Asks(phone, r, phone.gen)
    BY <1>2, <1>6, <2>1, OnSyncedShows
  <2> HIDE DEF r
  <2>4. CASE Shows(phone, r) /\ Settled(phone, r)
    BY <1>1, <1>12, <2>2, <2>4, HeardAndShown DEF o, r
  <2>5. CASE /\ m.ok /\ m.gen = phone.gen /\ phone.stage = "sync" /\ Rebased(phone, m, r)
             /\ \/ r.stage = "none" /\ r.out = phone.out
                \/ Asks(phone, r, phone.gen)
    <3>1. Turn(toHub, waiting, q, phone.gen, phone.leaf, recUpto)
      BY <1>2, <2>5 DEF Wire
    <3>2. IsAnswer(m) /\ Bears(m, phone.gen)
      BY <1>12, <2>5 DEF IsAnswer, Bears, Replies
    <3>3. m.upto \in phone.leaf .. recUpto
      BY <1>1, <1>4, <2>5, <3>1, <3>2, TurnTaken
    <3>4. /\ r.conn = phone.conn /\ r.listed = l /\ r.leaf \in {phone.leaf, m.upto}
          /\ DOMAIN r = PhoneFields
          /\ \/ phone.view \subseteq r.view
             \/ ~SameBranch(phone, m) /\ r.earlier = Omitted(m.upto)
      BY <2>5 DEF Rebased
    <3>5. r.leaf \in 0 .. recUpto
      BY <1>2, <3>3, <3>4
    <3>6. Stays(phone, r)
      <4> SUFFICES ASSUME phone.leaf # 0, phone.reconcile, ~SameBranch(phone, m), r.earlier = Omitted(m.upto)
                   PROVE  phone.leaf <= r.earlier
        BY <2>5, <3>4 DEF Stays
      <4>1. phone.leaf \in 1 .. m.upto /\ m.upto \in Nat
        BY <1>2, <3>3
      <4>2. phone.leaf \notin Entries(m.upto)
        BY DEF SameBranch
      <4> QED
        BY <4>1, <4>2, EntriesSent
    <3>7. Within(r, l)
      BY <2>2, OKWithin DEF o
    <3> QED
      BY <1>1, <1>2, <1>12, <2>5, <3>2, <3>4, <3>5, <3>6, <3>7, HeardShows DEF r
  <2> QED
    BY <2>3, <2>4, <2>5
<1>13. CASE m.kind = "sources" /\ Become(OnSources(phone, m))
  <2> DEFINE r == OnSources(phone, m)
  <2> DEFINE k == m.epoch
  <2>1. m.epoch \in 1 .. w.epoch /\ Behind(w, t, m.epoch)
    BY <1>3, <1>13 DEF MsgOK, Dated, Dates
  <2>2. Listing(t, k, rec.epoch) /\ l \in Nat /\ k \in 0 .. rec.epoch /\ l <= k
    BY <1>1, <1>2, <1>4, <1>13, <2>1, ListingListed
  <2>3. phone.epoch \in Nat /\ phone.epoch <= l
    BY <1>2, <1>8 DEF PhoneOK, Core, CursorOK, Behind
  <2>4. phone.epoch <= k
    BY <2>2, <2>3
  <2>5. PhoneOK(w, Only(k), phone)
    <3>1. /\ phone.disk.epoch <= l /\ \A i \in 1 .. Len(phone.buffer) : phone.buffer[i].epoch <= l
      BY <1>2, <1>4 DEF Within
    <3>2. /\ phone.disk.epoch \in Nat
          /\ \A i \in 1 .. Len(phone.buffer) : phone.buffer[i].epoch \in Nat
      BY <1>2 DEF PhoneOK, Core, CursorOK, Behind, Buffers, BufferOK
    <3>3. Within(phone, k)
      BY <2>2, <2>4, <3>1, <3>2 DEF Within
    <3> QED
      BY <1>2, <3>3, WithinOK
  <2>6. Behind(w, Only(k), k)
    BY <2>1, <2>2, BehindOnly
  <2>7. PhoneOK(w, Only(k), r)
    BY <1>2, <2>1, <2>4, <2>5, <2>6, OnSourcesKeeps
  <2>8. /\ DOMAIN r = PhoneFields /\ r.conn = phone.conn /\ r.listed = k /\ r.leaf \in {0, phone.leaf}
        /\ \/ phone.view \subseteq r.view
           \/ l # 0 /\ k # l /\ r.epoch = k
        /\ Asks(phone, r, FreshGen) \/ (Settled(phone, r) /\ r.leaf = phone.leaf)
    BY <1>2, OnSourcesShows
  <2> HIDE DEF r
  <2>9. Stays(phone, r)
    BY <2>2, <2>3, <2>8 DEF Stays
  <2>10. Within(r, r.listed)
    BY <2>7, <2>8, OKWithin
  <2>11. r.leaf \in 0 .. recUpto
    BY <1>2, <2>8
  <2>12. \/ r.out = <<>> /\ (r.stage # "none" => Turn(toHub, waiting, t, r.gen, r.leaf, recUpto))
         \/ \E x : r.out = <<x>> /\ Free(toHub, r.gen) /\ Free(waiting, r.gen) /\ Free(t, r.gen)
    <3>1. CASE Settled(phone, r) /\ r.leaf = phone.leaf
      <4>1. phone.stage # "none" => Turn(toHub, waiting, q, phone.gen, phone.leaf, recUpto)
        BY <1>2 DEF Wire
      <4>2. phone.stage # "none" => Turn(toHub, waiting, t, phone.gen, phone.leaf, recUpto)
        BY <1>1, <1>4, <4>1, TurnTaken
      <4> QED
        BY <1>2, <3>1, <4>2 DEF Settled
    <3>2. CASE Asks(phone, r, FreshGen)
      <4>1. PICK x : r.out = Append(<<>>, x) /\ r.gen = FreshGen
        BY <1>2, <3>2 DEF Asks
      <4>2. Free(toHub, FreshGen) /\ Free(waiting, FreshGen) /\ Free(q, FreshGen)
        BY FreshFree
      <4>3. Free(t, FreshGen)
        <5>1. Single(q, FreshGen)
          BY <4>2 DEF Single, Free
        <5> QED
          BY <1>1, <1>4, <4>2, <5>1, TakenBears
      <4>4. r.out = <<x>>
        BY <4>1
      <4> QED
        BY <4>1, <4>2, <4>3, <4>4
    <3> QED
      BY <2>8, <3>1, <3>2
  <2>13. Wire(t, waiting, toHub \o r.out, r, rec.epoch, recUpto)
    <3> HIDE DEF t, q
    <3>1. r.conn /\ Listing(t, r.listed, rec.epoch)
      BY <1>4, <2>2, <2>8
    <3> QED
      BY <1>2, <1>4, <2>11, <2>12, <3>1, WireOn
  <2>14. r.conn
    BY <1>4, <2>8
  <2> QED
    BY <1>1, <1>13, <2>8, <2>9, <2>10, <2>13, <2>14, BecomeShows DEF r
<1> QED
  BY <1>1, <1>9, <1>10, <1>11, <1>12, <1>13

\* The connected phone does something by itself: it ends what it was about, or begins a turn.
LEMMA AloneShows ==
    ASSUME HistoryInv, ShowInv, toPhone' = toPhone, UNCHANGED hubVars, up' = up, phone.conn,
           NEW r, Become(r), Shows(phone, r), PhoneOK(World, Only(phone.listed), r),
           Settled(phone, r) \/ Asks(phone, r, FreshGen)
    PROVE  ShowInv' /\ Stays(phone, phone')
<1>1. /\ Wire(toPhone, waiting, toHub, phone, rec.epoch, recUpto) /\ phone.out = <<>>
      /\ Listing(toPhone, phone.listed, rec.epoch) /\ phone.leaf \in 0 .. recUpto
  BY PhoneFacts
<1>2. /\ DOMAIN r = PhoneFields /\ r.conn /\ r.listed = phone.listed /\ r.leaf = phone.leaf /\ Stays(phone, r)
  BY DEF Shows, Stays
<1>3. Within(r, r.listed)
  BY <1>2, OKWithin
<1>4. \/ r.out = <<>> /\ (r.stage # "none" => Turn(toHub, waiting, toPhone, r.gen, r.leaf, recUpto))
      \/ \E x : r.out = <<x>> /\ Free(toHub, r.gen) /\ Free(waiting, r.gen) /\ Free(toPhone, r.gen)
  <2>1. CASE Settled(phone, r)
    <3>1. phone.stage # "none" => Turn(toHub, waiting, toPhone, phone.gen, phone.leaf, recUpto)
      BY <1>1 DEF Wire
    <3> QED
      BY <1>1, <1>2, <2>1, <3>1 DEF Settled
  <2>2. CASE Asks(phone, r, FreshGen)
    <3>1. PICK x : r.out = Append(<<>>, x) /\ r.gen = FreshGen
      BY <1>1, <2>2 DEF Asks
    <3>2. r.out = <<x>>
      BY <3>1
    <3> QED
      BY <3>1, <3>2, FreshFree
  <2> QED
    BY <2>1, <2>2
<1>5. IsChannel(toPhone) /\ \A i \in 1 .. Len(toPhone) : toPhone[i].kind \in News \cup Replies
  BY <1>1 DEF Wire
<1>6. r.leaf \in 0 .. recUpto /\ Listing(toPhone, r.listed, rec.epoch)
  BY <1>1, <1>2
<1>7. Wire(toPhone, waiting, toHub \o r.out, r, rec.epoch, recUpto)
  BY <1>1, <1>2, <1>4, <1>5, <1>6, WireOn
<1>8. Wire(toPhone', waiting, toHub \o r.out, r, rec.epoch, recUpto)
  BY <1>7
<1> QED
  BY <1>2, <1>3, <1>8, BecomeShows

\* A change of what controls the phone, with the cursor and the list as they were.
LEMMA ControlShows ==
    ASSUME NEW w, NEW q, NEW p, PhoneOK(w, q, p), NEW r, SameCursor(p, r), r.buffer = p.buffer, r.stage = p.stage,
           r.gen = p.gen, r.out = p.out, r.conn = p.conn, r.listed = p.listed
    PROVE  PhoneOK(w, q, r) /\ Shows(p, r) /\ Busy(p, r) /\ DOMAIN r = PhoneFields
<1>1. r.stage \in {"none", "select", "sync"}
  BY DEF PhoneOK
<1>2. PhoneOK(w, q, r)
  BY <1>1, ControlKeeps
<1> QED
  BY <1>2 DEF SameCursor, SameList, Shows, Busy

LEMMA TimerShows ==
    ASSUME SeqInv, HistoryInv, ShowInv, PhoneTimer
    PROVE  ShowInv' /\ Stays(phone, phone')
<1> DEFINE p == [phone EXCEPT !.timer = FALSE]
<1> DEFINE pending == [p EXCEPT !.pending = TRUE]
<1> DEFINE g == FreshGen
<1> DEFINE begun == [p EXCEPT !.resyncGen = g, !.reconcile = TRUE]
<1> DEFINE o == Only(phone.listed)
<1>1. toPhone' = toPhone /\ UNCHANGED hubVars /\ up' = up
  BY DEF PhoneTimer
<1>2. \/ ~p.conn /\ Become(p)
      \/ p.conn /\ Become(pending)
      \/ p.conn /\ Become(Syncing(begun, FALSE, FreshGen))
  BY DEF PhoneTimer
<1>3. /\ PhoneOK(World, toPhone, phone) /\ DOMAIN phone = PhoneFields /\ phone.out = <<>>
      /\ (phone.conn => Within(phone, phone.listed)) /\ (~phone.conn => ~selected)
      /\ Wire(toPhone, waiting, toHub, phone, rec.epoch, recUpto)
      /\ phone.leaf \in 0 .. recUpto
  BY PhoneFacts
<1>4. /\ SameCursor(phone, p) /\ p.buffer = phone.buffer /\ p.stage = phone.stage /\ p.gen = phone.gen
      /\ p.conn = phone.conn /\ p.out = phone.out /\ p.listed = phone.listed /\ DOMAIN p = PhoneFields
  BY <1>3 DEF PhoneFields, SameCursor, SameList
<1>5. /\ SameCursor(p, pending) /\ pending.buffer = p.buffer /\ pending.stage = p.stage /\ pending.gen = p.gen
      /\ pending.conn = p.conn /\ pending.out = p.out /\ pending.listed = p.listed
  <2> HIDE DEF p
  <2> QED
    BY <1>4 DEF PhoneFields, SameCursor, SameList
<1>6. /\ SameCursor(p, begun) /\ begun.buffer = p.buffer /\ begun.stage = p.stage /\ begun.gen = p.gen
      /\ begun.conn = p.conn /\ begun.out = p.out /\ begun.listed = p.listed
  <2>1. begun = [p EXCEPT !.resyncGen = g, !.reconcile = TRUE]
    OBVIOUS
  <2> HIDE DEF p, g, begun
  <2> QED
    BY <1>4, <2>1 DEF PhoneFields, SameCursor, SameList
<1>7. begun.view = p.view /\ begun.leaf = p.leaf /\ p.view = phone.view /\ p.epoch = phone.epoch
  BY <1>4, <1>6 DEF SameCursor, SameList
<1> HIDE DEF p, pending, begun, g, o
<1>8. CASE phone.conn
  <2>1. PhoneOK(World, o, phone)
    BY <1>3, <1>8, WithinOK DEF o
  <2>2. PhoneOK(World, o, p) /\ Shows(phone, p) /\ Busy(phone, p)
    BY <1>4, <2>1, ControlShows
  <2>3. PhoneOK(World, o, pending) /\ Shows(p, pending) /\ Busy(p, pending)
    BY <1>5, <2>2, ControlShows
  <2>4. PhoneOK(World, o, begun) /\ Shows(p, begun) /\ Busy(p, begun) /\ DOMAIN begun = PhoneFields
    BY <1>6, <2>2, ControlShows
  <2> DEFINE r == Syncing(begun, FALSE, FreshGen)
  <2>5. PhoneOK(World, o, r)
    BY <2>4, SyncingKeeps
  <2>6. Shows(begun, r) /\ Asks(begun, r, FreshGen)
    BY <2>4, SyncingShows
  <2> HIDE DEF r
  <2>7. Shows(phone, r) /\ Asks(phone, r, FreshGen)
    BY <2>2, <2>4, <2>6 DEF Shows, Busy, Asks
  <2>8. Shows(phone, pending) /\ Settled(phone, pending)
    BY <2>2, <2>3 DEF Shows, Busy, Settled
  <2>9. \/ Become(pending)
        \/ Become(r)
    BY <1>2, <1>4, <1>8 DEF r
  <2>10. CASE Become(pending)
    BY <1>1, <1>8, <2>3, <2>8, <2>10, AloneShows DEF o
  <2>11. CASE Become(r)
    BY <1>1, <1>8, <2>5, <2>7, <2>11, AloneShows DEF o
  <2> QED
    BY <2>9, <2>10, <2>11
<1>9. CASE ~phone.conn
  <2>1. Become(p) /\ ~p.conn
    BY <1>2, <1>4, <1>9
  <2>2. /\ IsChannel(waiting) /\ IsChannel(toHub) /\ toHub = <<>> /\ phone.stage = "none"
    BY <1>3, <1>9 DEF Wire
  <2>3. toHub \o p.out = <<>>
    BY <1>3, <1>4, <2>2
  <2>4. p.leaf = phone.leaf
    BY <1>4 DEF SameCursor, SameList
  <2>5. Wire(toPhone, waiting, <<>>, p, rec.epoch, recUpto)
    BY <1>3, <1>4, <1>9, <2>2, <2>4 DEF Wire
  <2>6. Wire(toPhone', waiting, toHub \o p.out, p, rec.epoch, recUpto)
    BY <1>1, <2>3, <2>5
  <2>7. Stays(phone, p)
    BY <1>7 DEF Stays
  <2> QED
    BY <1>1, <1>3, <1>4, <1>9, <2>1, <2>6, <2>7, BecomeShows
<1> QED
  BY <1>8, <1>9

LEMMA ConnectShows ==
    ASSUME SeqInv, HistoryInv, ShowInv, PhoneConnect
    PROVE  ShowInv' /\ Stays(phone, phone')
<1> DEFINE e == rec.epoch
<1> DEFINE p == [phone EXCEPT !.conn = TRUE, !.listed = e, !.online = TRUE]
<1> DEFINE r == Selecting(p, FreshGen)
<1>1. ~phone.conn /\ toPhone' = toPhone /\ UNCHANGED hubVars /\ up' = up /\ Become(r)
  BY DEF PhoneConnect
<1>2. /\ PhoneOK(World, toPhone, phone) /\ DOMAIN phone = PhoneFields /\ phone.out = <<>>
      /\ Wire(toPhone, waiting, toHub, phone, e, recUpto) /\ World.epoch = e /\ e \in Nat
      /\ phone.leaf \in 0 .. recUpto
  BY PhoneFacts
<1>3. toPhone = <<>> /\ toHub = <<>> /\ waiting = <<>>
  BY <1>1, <1>2 DEF Wire
<1> HIDE DEF e
<1>4. /\ SameCursor(phone, p) /\ p.buffer = phone.buffer /\ p.stage = phone.stage /\ p.conn /\ p.listed = e
      /\ p.out = <<>> /\ p.view = phone.view /\ p.leaf = phone.leaf /\ DOMAIN p = PhoneFields
  BY <1>2 DEF PhoneFields, SameCursor, SameList
<1> HIDE DEF p
<1>5. PhoneOK(World, toPhone, p)
  <2>1. phone.stage \in {"none", "select", "sync"}
    BY <1>2 DEF PhoneOK
  <2> QED
    BY <1>2, <1>4, <2>1, ControlKeeps
<1>6. Within(p, e)
  <2>1. Behind(World, toPhone, p.epoch) /\ Behind(World, toPhone, p.disk.epoch)
    BY <1>5 DEF PhoneOK, Core, CursorOK
  <2>2. \A i \in 1 .. Len(p.buffer) : Behind(World, toPhone, p.buffer[i].epoch)
    BY <1>5 DEF PhoneOK, Buffers, BufferOK
  <2> QED
    BY <1>2, <2>1, <2>2 DEF Within, Behind
<1>7. PhoneOK(World, Only(e), p)
  BY <1>5, <1>6, WithinOK
<1>8. PhoneOK(World, Only(e), r)
  BY <1>7, SelectingKeeps
<1>9. Shows(p, r) /\ Asks(p, r, FreshGen)
  BY <1>4, SelectingShows
<1> HIDE DEF r
<1>10. /\ DOMAIN r = PhoneFields /\ r.conn /\ r.listed = e /\ r.leaf = phone.leaf /\ phone.view \subseteq r.view
  BY <1>4, <1>9 DEF Shows
<1>11. Within(r, r.listed) /\ Stays(phone, r)
  BY <1>8, <1>10, OKWithin DEF Stays
<1>12. \E x : r.out = <<x>> /\ Free(toHub, r.gen) /\ Free(waiting, r.gen) /\ Free(toPhone, r.gen)
  <2>1. PICK x : r.out = Append(<<>>, x) /\ r.gen = FreshGen
    BY <1>4, <1>9 DEF Asks
  <2>2. r.out = <<x>>
    BY <2>1
  <2> QED
    BY <2>1, <2>2, FreshFree
<1>13. Listing(toPhone, r.listed, e)
  <2>1. Len(toPhone) = 0 /\ e \in 0 .. e
    BY <1>2, <1>3
  <2> QED
    BY <1>2, <1>10, <2>1 DEF Listing, Announced
<1>14. IsChannel(toPhone) /\ \A i \in 1 .. Len(toPhone) : toPhone[i].kind \in News \cup Replies
  BY <1>2 DEF Wire
<1>15. r.leaf \in 0 .. recUpto
  BY <1>2, <1>10
<1>16. Wire(toPhone, waiting, toHub \o r.out, r, e, recUpto)
  BY <1>2, <1>10, <1>12, <1>13, <1>14, <1>15, WireOn
<1>17. Wire(toPhone', waiting, toHub \o r.out, r, rec.epoch, recUpto)
  BY <1>1, <1>16 DEF e
<1> QED
  BY <1>1, <1>10, <1>11, <1>17, BecomeShows

LEMMA ReselectShows ==
    ASSUME SeqInv, HistoryInv, ShowInv, PhoneReselect
    PROVE  ShowInv' /\ Stays(phone, phone')
<1> DEFINE r == Selecting(phone, FreshGen)
<1>1. phone.conn /\ toPhone' = toPhone /\ UNCHANGED hubVars /\ up' = up /\ Become(r)
  BY DEF PhoneReselect
<1>2. DOMAIN phone = PhoneFields /\ PhoneOK(World, Only(phone.listed), phone)
  BY <1>1, PhoneFacts, WithinOK
<1>3. PhoneOK(World, Only(phone.listed), r)
  BY <1>2, SelectingKeeps
<1>4. Shows(phone, r) /\ Asks(phone, r, FreshGen)
  BY <1>2, SelectingShows
<1> HIDE DEF r
<1> QED
  BY <1>1, <1>3, <1>4, AloneShows

LEMMA TimeoutShows ==
    ASSUME SeqInv, HistoryInv, ShowInv, PhoneTimeout
    PROVE  ShowInv' /\ Stays(phone, phone')
<1> DEFINE p == [phone EXCEPT !.pending = TRUE]
<1> DEFINE o == Only(phone.listed)
<1>1. phone.stage # "none" /\ toPhone' = toPhone /\ UNCHANGED hubVars /\ up' = up
      /\ (Become(Idle(phone)) \/ Become(Finished(p)))
  BY DEF PhoneTimeout, Active
<1>2. phone.conn
  BY <1>1, PhoneFacts DEF Wire
<1>3. /\ DOMAIN phone = PhoneFields /\ PhoneOK(World, o, phone) /\ WorldOK(World) /\ World.log = log /\ phone.out = <<>>
  BY <1>2, PhoneFacts, WithinOK
<1>4. /\ SameCursor(phone, p) /\ p.buffer = phone.buffer /\ p.stage = phone.stage /\ p.gen = phone.gen
      /\ p.conn = phone.conn /\ p.out = phone.out /\ p.listed = phone.listed
  BY <1>3 DEF PhoneFields, SameCursor, SameList
<1> HIDE DEF p, o
<1>5. PhoneOK(World, o, p) /\ Shows(phone, p) /\ Busy(phone, p) /\ DOMAIN p = PhoneFields
  BY <1>3, <1>4, ControlShows
<1>6. PhoneOK(World, o, Finished(p)) /\ PhoneOK(World, o, Idle(phone))
  BY <1>3, <1>5, FinishedKeeps, IdleKeeps
<1>7. Shows(phone, Idle(phone)) /\ Settled(phone, Idle(phone))
  BY <1>3, IdleShows DEF Settled
<1>8. Shows(phone, Finished(p)) /\ Settled(phone, Finished(p))
  <2>1. BufferOK(World, o, p.buffer)
    BY <1>5 DEF PhoneOK, Buffers
  <2>2. Shows(p, Finished(p)) /\ Finished(p).stage = "none" /\ Finished(p).out = p.out
    BY <1>3, <1>5, <2>1, FinishedShows
  <2> QED
    BY <1>4, <1>5, <2>2 DEF Shows, Settled
<1> DEFINE i == Idle(phone)
<1> DEFINE f == Finished(p)
<1>9. CASE Become(i)
  <2>1. PhoneOK(World, o, i) /\ Shows(phone, i) /\ Settled(phone, i)
    BY <1>6, <1>7
  <2> HIDE DEF i
  <2> QED
    BY <1>1, <1>2, <1>9, <2>1, AloneShows DEF o
<1>10. CASE Become(f)
  <2>1. PhoneOK(World, o, f) /\ Shows(phone, f) /\ Settled(phone, f)
    BY <1>6, <1>8
  <2> HIDE DEF f
  <2> QED
    BY <1>1, <1>2, <1>10, <2>1, AloneShows DEF o
<1> QED
  BY <1>1, <1>9, <1>10

LEMMA DropShows ==
    ASSUME SeqInv, HistoryInv, ShowInv, PhoneDrop
    PROVE  ShowInv' /\ Stays(phone, phone')
<1> DEFINE i == Idle(phone)
<1> DEFINE later == i.pending /\ phone.resyncGen = 0
<1>1. /\ desk' = desk /\ registration' = registration /\ rec' = rec /\ recUpto' = recUpto /\ up' = up
      /\ toHub' = <<>> /\ toPhone' = <<>> /\ selected' = FALSE /\ waiting' = <<>>
      /\ phone' = [i EXCEPT !.conn = FALSE, !.buffer = <<>>, !.pending = later, !.resyncGen = 0]
  BY DEF PhoneDrop
<1>2. DOMAIN phone = PhoneFields /\ phone.leaf \in 0 .. recUpto /\ rec.epoch \in Nat /\ recUpto \in Nat
  BY PhoneFacts
<1>3. Shows(phone, i) /\ i.stage = "none"
  BY <1>2, IdleShows
<1> HIDE DEF i, later
<1>4. /\ phone'.leaf = phone.leaf /\ phone'.view = i.view /\ phone'.stage = "none" /\ ~phone'.conn
  BY <1>1, <1>3 DEF Shows, PhoneFields
<1>5. Floor' = Floor /\ Rising(up, Floor) /\ recUpto <= Floor
  BY <1>1 DEF Floor, ShowInv
<1>6. Stays(phone, phone')
  BY <1>3, <1>4 DEF Stays, Shows
<1>7. Wire(toPhone', waiting', toHub', phone', rec'.epoch, recUpto')
  <2>1. IsChannel(<<>>) /\ Len(<<>>) = 0
    BY EmptyChannel
  <2> QED
    BY <1>1, <1>2, <1>4, <2>1 DEF Wire
<1>8. ShowInv'
  BY <1>1, <1>4, <1>5, <1>7 DEF ShowInv
<1> QED
  BY <1>6, <1>8

-----------------------------------------------------------------------------
(* Every behaviour.                                                        *)

LEMMA StartsShown == Init => ShowInv
<1> SUFFICES ASSUME Init PROVE ShowInv
  OBVIOUS
<1>1. /\ up = <<>> /\ toHub = <<>> /\ toPhone = <<>> /\ waiting = <<>> /\ desk = "none" /\ recUpto = 0 /\ ~selected
      /\ rec = [epoch |-> 0] /\ phone.leaf = 0 /\ phone.stage = "none" /\ ~phone.conn
  BY DEF Init, NoRecord
<1>2. IsChannel(<<>>) /\ Len(<<>>) = 0
  BY EmptyChannel
<1>3. rec.epoch = 0
  BY <1>1
<1>4. Wire(<<>>, <<>>, <<>>, phone, rec.epoch, 0)
  BY <1>1, <1>2, <1>3 DEF Wire
<1>5. Floor = 0 /\ Rising(up, 0)
  BY <1>1, <1>2 DEF Floor, Rising
<1> QED
  BY <1>1, <1>4, <1>5 DEF ShowInv

LEMMA PhoneShows ==
    ASSUME SeqInv, HistoryInv, ShowInv, PhoneStep
    PROVE  ShowInv' /\ Stays(phone, phone')
BY ReceiveShows, TimerShows, ConnectShows, ReselectShows, TimeoutShows, DropShows DEF PhoneStep

LEMMA StepShows ==
    ASSUME SeqInv, HistoryInv, SeqInv', ShowInv, [Next]_vars
    PROVE  ShowInv' /\ (phone' = phone \/ Stays(phone, phone'))
<1>1. CASE PhoneStep
  BY <1>1, PhoneShows
<1>2. CASE RelayStep \/ HubStep
  <2>1. phone' = phone
    BY <1>2 DEF RelayStep, HubStep, RelayConnect, Produce, ProduceTooLarge, RelaySnapshot, RelayReceive, RelayDrop,
                RelayClose, HubRegisterStart, HubRegisterDone, HubReceive, HubAskTimeout, HubRequest, HubSweep
  <2> QED
    BY <1>2, <2>1, OthersShow
<1>3. CASE UNCHANGED vars
  <2>1. /\ up' = up /\ toHub' = toHub /\ toPhone' = toPhone /\ waiting' = waiting /\ desk' = desk
        /\ registration' = registration /\ rec' = rec /\ recUpto' = recUpto /\ selected' = selected /\ phone' = phone
    BY <1>3 DEF vars, hubVars
  <2>2. Floor' = Floor
    BY <2>1 DEF Floor
  <2> QED
    BY <2>1, <2>2 DEF ShowInv
<1> QED
  BY <1>1, <1>2, <1>3 DEF Next

\* What is on the screen stays there while the epoch does, whatever order announcements,
\* pages, reconnections and a second selection come in (pi_session.dart: selectSource,
\* _applyHubSnapshot and handleSourcesChanged), unless the snapshot was clipped past the
\* old leaf (server.ts clipEntriesForMobile); then all up to it can be loaded.
THEOREM ShownStays == Spec => ShownStaysShown
<1>1. SeqInv /\ HistoryInv /\ SeqInv' /\ ShowInv /\ [Next]_vars
         => [phone.hydrated /\ phone.leaf # 0 /\ phone'.epoch = phone.epoch /\ ~Rebuilding
                => phone.view \subseteq phone'.view \/ phone.leaf <= phone'.earlier]_phone
  BY StepShows DEF Stays, Rebuilding
<1>2. SeqInv /\ HistoryInv /\ SeqInv' /\ ShowInv /\ [Next]_vars => ShowInv'
  BY StepShows
<1>3. Init => ShowInv
  BY StartsShown
<1>4. Spec => []SeqInv /\ []HistoryInv
  BY SyncInvariant, HistoryInvariant
<1> QED
  BY <1>1, <1>2, <1>3, <1>4, PTL DEF Spec, ShownStaysShown
=============================================================================
