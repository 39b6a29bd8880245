------------------------ MODULE SourceRegistryProofs ------------------------
(***************************************************************************)
(* Proofs about module SourceRegistry, for any sources, any ring limits    *)
(* and any sizes of events.                                                *)
(*                                                                         *)
(* First the operators of ReplayRing: the operations on a record keep its  *)
(* ring a run of consecutive numbers ending at lastSeq, and move its lower *)
(* end only up. Every record of the registry is built by them, so          *)
(* RegistryInv is close to TypeOK and RingContiguous. What it adds is      *)
(* about epochs and the history: an epoch in use was minted, and a         *)
(* headless event recorded in the present stream of a source is not        *)
(* numbered beyond that stream's last number.                              *)
(*                                                                         *)
(* Last the lease manager a record holds (module OwnerLease), for any      *)
(* clients, any times to live and any clock. Neither fencing property is   *)
(* inductive. LeaseInv adds what links the histories to the manager: ids   *)
(* only grow, so the id of an ended lease is never the active one's, and   *)
(* the last command let through carries a fence no newer than the newest,  *)
(* and if it is the newest, the holder is still the client that sent it.   *)
(***************************************************************************)
EXTENDS SourceRegistry, OwnerLease, FiniteSetTheorems, WellFoundedInduction, TLAPS

(* The operators of ReplayRing.                                            *)

SoundRecord(r) == IsRecord(r) /\ Contiguous(r)

-----------------------------------------------------------------------------

\* A non-empty set of numbers has a least element.
LEMMA MinOfNaturals ==
    ASSUME NEW S, S \subseteq Nat, S # {}
    PROVE  Min(S) \in S /\ \A y \in S : Min(S) <= y
<1> DEFINE R == OpToRel(<, Nat)
<1>1. \E x \in S : \A y \in S : ~(<<y, x>> \in R)
    <2>1. IsWellFoundedOn(R, Nat)
        BY NatLessThanWellFounded
    <2> HIDE DEF R
    <2>. QED  BY <2>1, WFMin
<1>2. \A x, y \in Nat : y < x => <<y, x>> \in R
    BY DEF OpToRel
<1> HIDE DEF R
<1>3. PICK x \in S : \A y \in S : ~(<<y, x>> \in R)
    BY <1>1
<1>4. ASSUME NEW y \in S PROVE x <= y
    <2>1. x \in Nat /\ y \in Nat
        OBVIOUS
    <2>2. ~(y < x)
        BY <1>2, <1>3, <2>1
    <2>. QED  BY <2>1, <2>2
<1>. QED  BY <1>3, <1>4 DEF Min

\* The least number of an interval that is not empty.
LEMMA MinOfInterval ==
    ASSUME NEW a \in Nat, NEW b \in Nat, a <= b
    PROVE  Min(a .. b) = a
<1>1. (a .. b) \subseteq Nat /\ (a .. b) # {} /\ a \in (a .. b)
    OBVIOUS
<1>2. Min(a .. b) \in (a .. b) /\ \A y \in (a .. b) : Min(a .. b) <= y
    BY <1>1, MinOfNaturals
<1>. QED  BY <1>1, <1>2

\* The lower end is what the run of numbers starts after.
LEMMA LowOfRecord ==
    ASSUME NEW r, SoundRecord(r)
    PROVE  /\ Low(r) \in 0 .. r.lastSeq
           /\ DOMAIN r.ring = (Low(r) + 1) .. r.lastSeq
<1>1. r.lastSeq \in Nat
    BY DEF SoundRecord, Contiguous, IsRecord
<1>2. PICK low \in 0 .. r.lastSeq : DOMAIN r.ring = (low + 1) .. r.lastSeq
    BY DEF SoundRecord, Contiguous
<1>3. CASE low = r.lastSeq
    BY <1>1, <1>2, <1>3 DEF Low
<1>4. CASE low < r.lastSeq
    <2>1. Min((low + 1) .. r.lastSeq) = low + 1
        BY <1>1, <1>4, MinOfInterval
    <2>2. DOMAIN r.ring # {}
        BY <1>1, <1>2, <1>4
    <2>. QED  BY <1>1, <1>2, <1>4, <2>1, <2>2 DEF Low
<1>. QED  BY <1>1, <1>3, <1>4

\* Trimming a run keeps its last number and a run that ends there, and never
\* changes an event that stays.
LEMMA TrimKeepsTail ==
    ASSUME NEW ring, NEW low \in Nat, NEW last \in Nat, low < last,
           IsRing(ring), DOMAIN ring = (low + 1) .. last
    PROVE  /\ \E new \in low .. (last - 1) : DOMAIN Trim(ring) = (new + 1) .. last
           /\ \A n \in DOMAIN Trim(ring) : n \in DOMAIN ring /\ Trim(ring)[n] = ring[n]
           /\ Trim(ring) = [n \in DOMAIN Trim(ring) |-> Trim(ring)[n]]
<1> DEFINE kept == {n \in DOMAIN ring :
                       \E k \in DOMAIN ring : k <= n /\ Fits(ring, From(ring, k))}
<1>1. Trim(ring) = [n \in kept |-> ring[n]]
    BY DEF Trim, Restrict
<1>2. From(ring, last) = {last}
    BY DEF From
<1>3. Fits(ring, From(ring, last))
    <2>1. Cardinality({last}) = 1
        BY FS_Singleton
    <2>2. 1 <= ReplayCapacity
        BY RingAssumption
    <2>. QED  BY <1>2, <2>1, <2>2 DEF Fits
<1>4. last \in kept
    BY <1>3
<1>5. \A n \in kept : \A m \in DOMAIN ring : n <= m => m \in kept
    OBVIOUS
<1>6. kept \subseteq (low + 1) .. last
    OBVIOUS
<1> HIDE DEF kept
<1>7. kept \subseteq Nat
    BY <1>6
<1>8. PICK m \in kept : \A n \in kept : m <= n
    BY <1>4, <1>7, MinOfNaturals
<1>9. m \in (low + 1) .. last /\ m \in Nat
    BY <1>6, <1>8
<1>11. kept \subseteq m .. last
    BY <1>6, <1>7, <1>8, <1>9
<1>12. m .. last \subseteq kept
    BY <1>5, <1>8, <1>9
<1>13. m - 1 \in low .. (last - 1) /\ kept = ((m - 1) + 1) .. last
    <2>1. (m - 1) + 1 = m
        BY <1>9
    <2>3. kept = m .. last
        BY <1>11, <1>12, Zenon
    <2>2. m - 1 \in low .. (last - 1)
        BY <1>9
    <2>. QED  BY <2>1, <2>2, <2>3
<1>10. DOMAIN Trim(ring) = kept
    BY <1>1
<1>. QED  BY <1>1, <1>6, <1>13, <1>10

\* pushEvent with the next number keeps the record sound, and the window
\* ends one number later and starts no earlier.
LEMMA PushSound ==
    ASSUME NEW r, SoundRecord(r), NEW event \in Events, event.epoch = r.epoch
    PROVE  LET p == Push(r, r.lastSeq + 1, event)
           IN /\ SoundRecord(p)
              /\ p.epoch = r.epoch
              /\ p.lastSeq = r.lastSeq + 1
              /\ Low(p) \in Low(r) .. r.lastSeq
<1> DEFINE p == Push(r, r.lastSeq + 1, event)
           added == AddEvent(r.ring, r.lastSeq + 1, event)
<1>1. /\ r.lastSeq \in Nat
      /\ Low(r) \in 0 .. r.lastSeq
      /\ DOMAIN r.ring = (Low(r) + 1) .. r.lastSeq
    BY LowOfRecord DEF SoundRecord, Contiguous, IsRecord
<1>14. r = [epoch |-> r.epoch, snapshot |-> r.snapshot, ring |-> r.ring,
            lastSeq |-> r.lastSeq, connected |-> r.connected]
    BY DEF SoundRecord, Contiguous, IsRecord
<1>15. p = [epoch |-> r.epoch, snapshot |-> r.snapshot, ring |-> Trim(added),
            lastSeq |-> r.lastSeq + 1, connected |-> r.connected]
    <2>1. DOMAIN r = {"epoch", "snapshot", "ring", "lastSeq", "connected"}
        BY <1>14
    <2>2. p = [[r EXCEPT !.lastSeq = r.lastSeq + 1] EXCEPT !.ring = Trim(added)]
        BY <2>1 DEF Push
    <2>. QED  BY <2>1, <2>2
<1>2. /\ p.epoch = r.epoch
      /\ p.snapshot = r.snapshot
      /\ p.ring = Trim(added)
      /\ p.lastSeq = r.lastSeq + 1
      /\ p.connected = r.connected
      /\ p = [epoch |-> p.epoch, snapshot |-> p.snapshot, ring |-> p.ring,
              lastSeq |-> p.lastSeq, connected |-> p.connected]
    BY <1>15
<1>3. /\ DOMAIN added = (Low(r) + 1) .. (r.lastSeq + 1)
      /\ added = [n \in DOMAIN added |-> added[n]]
      /\ \A n \in DOMAIN added : added[n] \in Events /\ added[n].epoch = r.epoch
    BY <1>1 DEF AddEvent, SoundRecord, Contiguous, IsRecord, IsRing
<1>4. IsRing(added)
    BY <1>1, <1>3 DEF IsRing
<1> HIDE DEF p, added
<1>5. /\ \E new \in Low(r) .. r.lastSeq : DOMAIN p.ring = (new + 1) .. p.lastSeq
      /\ \A n \in DOMAIN p.ring : n \in DOMAIN added /\ p.ring[n] = added[n]
      /\ p.ring = [n \in DOMAIN p.ring |-> p.ring[n]]
    BY <1>1, <1>2, <1>3, <1>4, TrimKeepsTail
<1>6. IsRing(p.ring) /\ \A n \in DOMAIN p.ring : p.ring[n].epoch = p.epoch
    BY <1>2, <1>3, <1>4, <1>5 DEF IsRing
<1>7. SoundRecord(p)
    <2>1. IsRecord(p)
        BY <1>1, <1>2, <1>6 DEF SoundRecord, Contiguous, IsRecord
    <2>2. \E low \in 0 .. p.lastSeq : DOMAIN p.ring = (low + 1) .. p.lastSeq
        BY <1>1, <1>2, <1>5
    <2>3. p.snapshot # NoSnapshot =>
              p.snapshot.epoch = p.epoch /\ p.snapshot.baseSeq <= p.lastSeq
        BY <1>1, <1>2 DEF SoundRecord, Contiguous, IsRecord, Snapshots
    <2>. QED  BY <1>6, <2>1, <2>2, <2>3 DEF SoundRecord, Contiguous
<1>8. Low(p) \in Low(r) .. r.lastSeq
    <2>1. PICK new \in Low(r) .. r.lastSeq : DOMAIN p.ring = (new + 1) .. p.lastSeq
        BY <1>5
    <2>2. new + 1 \in Nat /\ p.lastSeq \in Nat /\ new + 1 <= p.lastSeq
        BY <1>1, <1>2, <2>1
    <2>3. Min((new + 1) .. p.lastSeq) = new + 1
        BY <2>2, MinOfInterval
    <2>. QED  BY <1>1, <2>1, <2>2, <2>3 DEF Low
<1>. QED  BY <1>2, <1>7, <1>8 DEF p
-----------------------------------------------------------------------------

\* A fresh record is sound, and its window is empty.
LEMMA NewRecordSound ==
    ASSUME NEW e \in Epochs, NEW c \in BOOLEAN
    PROVE  /\ SoundRecord(NewRecord(e, c))
           /\ NewRecord(e, c).epoch = e
           /\ NewRecord(e, c).lastSeq = 0
           /\ Low(NewRecord(e, c)) = 0
           /\ NewRecord(e, c).connected = c
<1>1. IsRing(EmptyRing) /\ DOMAIN EmptyRing = {}
    BY DEF EmptyRing, IsRing
<1>2. NoSnapshot \in Snapshots
    BY DEF Snapshots
<1>3. IsRecord(NewRecord(e, c))
    BY <1>1, <1>2 DEF NewRecord, IsRecord
<1>4. 0 \in 0 .. 0 /\ (0 + 1) .. 0 = {}
    OBVIOUS
<1>. QED  BY <1>1, <1>3, <1>4 DEF NewRecord, SoundRecord, Contiguous, Low

\* The flag `connected' is not part of what makes a record sound.
LEMMA ConnectedSound ==
    ASSUME NEW r, SoundRecord(r), NEW c \in BOOLEAN
    PROVE  LET p == [r EXCEPT !.connected = c]
           IN /\ SoundRecord(p)
              /\ p.epoch = r.epoch
              /\ p.lastSeq = r.lastSeq
              /\ Low(p) = Low(r)
<1> DEFINE p == [r EXCEPT !.connected = c]
<1>1. DOMAIN r = {"epoch", "snapshot", "ring", "lastSeq", "connected"}
    BY DEF SoundRecord, Contiguous, IsRecord
<1>2. /\ p.epoch = r.epoch /\ p.snapshot = r.snapshot /\ p.ring = r.ring
      /\ p.lastSeq = r.lastSeq /\ p.connected = c
    BY <1>1
<1>3. p = [epoch |-> p.epoch, snapshot |-> p.snapshot, ring |-> p.ring,
           lastSeq |-> p.lastSeq, connected |-> p.connected]
    BY <1>1, <1>2
<1> HIDE DEF p
<1>4. SoundRecord(p)
    BY <1>2, <1>3 DEF SoundRecord, Contiguous, IsRecord
<1>. QED  BY <1>2, <1>4 DEF p, Low

\* Changing the epoch keeps the record sound.
LEMMA SwitchEpochSound ==
    ASSUME NEW r, SoundRecord(r), NEW e \in Epochs
    PROVE  /\ SoundRecord(SwitchEpoch(r, e))
           /\ SwitchEpoch(r, e).epoch = e
           /\ e = r.epoch => SwitchEpoch(r, e) = r
           /\ e # r.epoch => /\ SwitchEpoch(r, e).lastSeq = 0
                             /\ Low(SwitchEpoch(r, e)) = 0
<1>1. CASE e = r.epoch
    BY <1>1 DEF SwitchEpoch
<1>2. CASE e # r.epoch
    <2>1. r.connected \in BOOLEAN
        BY DEF SoundRecord, Contiguous, IsRecord
    <2>2. SwitchEpoch(r, e) = NewRecord(e, r.connected)
        BY <1>2 DEF SwitchEpoch
    <2>. QED  BY <1>2, <2>1, <2>2, NewRecordSound
<1>. QED  BY <1>1, <1>2

\* Storing a snapshot keeps the record sound.  In the same epoch the window
\* moves up, and jumps beyond the old end only if it becomes empty; in
\* another epoch it becomes empty.
LEMMA SetSnapshotSound ==
    ASSUME NEW r, SoundRecord(r), NEW e \in Epochs, NEW b \in Nat
    PROVE  LET p == SetSnapshot(r, e, b)
           IN /\ SoundRecord(p)
              /\ p.epoch = e
              /\ e = r.epoch => /\ Low(p) >= Low(r)
                                /\ p.lastSeq >= r.lastSeq
                                /\ p.lastSeq > r.lastSeq => Low(p) = p.lastSeq
              /\ e # r.epoch => Low(p) = p.lastSeq
<1> DEFINE p == SetSnapshot(r, e, b)
           s == SwitchEpoch(r, e)
           last == IF s.lastSeq >= b THEN s.lastSeq ELSE b
           kept == {n \in DOMAIN s.ring : s.ring[n].epoch = e /\ n > b}
<1>1. /\ SoundRecord(s) /\ s.epoch = e
      /\ e = r.epoch => s = r
      /\ e # r.epoch => s.lastSeq = 0 /\ Low(s) = 0
    BY SwitchEpochSound
<1> HIDE DEF s
<1>2. DOMAIN s = {"epoch", "snapshot", "ring", "lastSeq", "connected"}
    BY <1>1 DEF SoundRecord, Contiguous, IsRecord
<1>3. p = [[[s EXCEPT !.snapshot = [epoch |-> e, baseSeq |-> b]]
               EXCEPT !.lastSeq = last] EXCEPT !.ring = [n \in kept |-> s.ring[n]]]
    BY DEF SetSnapshot, Restrict, s
<1>4. /\ p.epoch = e /\ p.snapshot = [epoch |-> e, baseSeq |-> b]
      /\ p.ring = [n \in kept |-> s.ring[n]]
      /\ p.lastSeq = last /\ p.connected = s.connected
    BY <1>1, <1>2, <1>3
<1>5. p = [epoch |-> p.epoch, snapshot |-> p.snapshot, ring |-> p.ring,
           lastSeq |-> p.lastSeq, connected |-> p.connected]
    BY <1>2, <1>3
<1>6. /\ s.lastSeq \in Nat /\ Low(s) \in 0 .. s.lastSeq
      /\ DOMAIN s.ring = (Low(s) + 1) .. s.lastSeq
      /\ \A n \in DOMAIN s.ring : s.ring[n].epoch = e /\ s.ring[n] \in Events
      /\ s.connected \in BOOLEAN
    BY <1>1, LowOfRecord DEF SoundRecord, Contiguous, IsRecord, IsRing
<1> DEFINE low == IF b < Low(s) THEN Low(s) ELSE IF b < s.lastSeq THEN b ELSE last
<1>7. /\ last \in Nat /\ last >= s.lastSeq /\ last >= b
      /\ low \in 0 .. last /\ low >= Low(s)
      /\ last > s.lastSeq => low = last
    BY <1>6
<1>8. kept = (low + 1) .. last
    <2>1. \A n \in kept : n \in (low + 1) .. last
        BY <1>6, <1>7
    <2>2. \A n \in (low + 1) .. last : n \in kept
        BY <1>6, <1>7
    <2> HIDE DEF kept, low, last
    <2>. QED  BY <2>1, <2>2, Zenon
<1> HIDE DEF p, low, last, kept
<1>9. DOMAIN p.ring = (low + 1) .. last
    BY <1>4, <1>8
<1>10. \A n \in kept : n \in DOMAIN s.ring
    BY DEF kept
<1>11. IsRing(p.ring) /\ \A n \in DOMAIN p.ring : p.ring[n].epoch = e
    BY <1>4, <1>6, <1>7, <1>8, <1>10, SMTT(30) DEF IsRing
<1>12. SoundRecord(p)
    <2>1. p.snapshot \in Snapshots
        BY <1>4 DEF Snapshots
    <2>2. IsRecord(p)
        BY <1>4, <1>5, <1>6, <1>7, <1>11, <2>1 DEF IsRecord
    <2>. QED  BY <1>4, <1>7, <1>9, <1>11, <2>2 DEF SoundRecord, Contiguous
<1>13. Low(p) = low
    <2>1. CASE low = last
        BY <1>4, <1>7, <1>9, <2>1 DEF Low
    <2>2. CASE low < last
        <3>1. Min((low + 1) .. last) = low + 1
            BY <1>7, <2>2, MinOfInterval
        <3>2. DOMAIN p.ring # {}
            <4>1. low + 1 \in (low + 1) .. last
                BY <1>7, <2>2
            <4>. QED  BY <1>9, <4>1, Zenon
        <3>. QED  BY <1>7, <1>9, <3>1, <3>2 DEF Low
    <2>. QED  BY <1>7, <2>1, <2>2
<1>. QED  BY <1>1, <1>4, <1>6, <1>7, <1>12, <1>13 DEF p

-----------------------------------------------------------------------------
(* The registry.                                                           *)

RegistryInv ==
    /\ TypeOK
    /\ RingContiguous
    /\ \A s \in DesktopSources : \A e \in usedEpochs[s] : e <= lastEpoch
    /\ \A s \in Registered : records[s].epoch <= lastEpoch
    /\ \A x \in issued :
           /\ x[1] <= hubId
           /\ x[3] <= lastEpoch
           /\ x[1] = hubId /\ x[2] \in Registered /\ x[3] = records[x[2]].epoch =>
                  x[4] <= records[x[2]].lastSeq

\* What one step does to the record of one source, as its window shows it.
Opens(s, r) ==
    /\ s \in Registered => r.epoch # records[s].epoch
    /\ r.lastSeq \in {Low(r), 1}

Extends(s, r) ==
    /\ s \in Registered
    /\ r.epoch = records[s].epoch
    /\ r.lastSeq = records[s].lastSeq + 1
    /\ Low(r) \in Low(records[s]) .. records[s].lastSeq

Rebases(s, r) ==
    /\ s \in Registered
    /\ r.epoch = records[s].epoch
    /\ Low(r) >= Low(records[s])
    /\ r.lastSeq >= records[s].lastSeq
    /\ r.lastSeq > records[s].lastSeq => Low(r) = r.lastSeq

Moves(s, r) == Opens(s, r) \/ Extends(s, r) \/ Rebases(s, r)

-----------------------------------------------------------------------------

\* The records a step stores are sound.
LEMMA InvRecords ==
    ASSUME RegistryInv, NEW s \in Registered
    PROVE  SoundRecord(records[s]) /\ s \in Sources
BY DEF RegistryInv, TypeOK, RingContiguous, SoundRecord

\* register, whether the epoch is kept or not.
LEMMA RegisterSound ==
    ASSUME RegistryInv, NEW s, NEW e \in Epochs, NEW c \in BOOLEAN
    PROVE  LET p == Register(s, e, c)
           IN /\ SoundRecord(p)
              /\ p.epoch = e
              /\ s \in Registered /\ records[s].epoch = e =>
                     /\ p.lastSeq = records[s].lastSeq
                     /\ Low(p) = Low(records[s])
              /\ ~(s \in Registered /\ records[s].epoch = e) =>
                     p.lastSeq = 0 /\ Low(p) = 0
<1>1. CASE s \in Registered /\ records[s].epoch = e
    <2>1. SoundRecord(records[s])
        BY <1>1, InvRecords
    <2>. QED  BY <1>1, <2>1, ConnectedSound DEF Register
<1>2. CASE ~(s \in Registered /\ records[s].epoch = e)
    <2>1. Register(s, e, c) = NewRecord(e, c)
        BY <1>2 DEF Register
    <2>. QED  BY <1>2, <2>1, NewRecordSound
<1>. QED  BY <1>1, <1>2

\* Storing a sound record of a minted epoch keeps the invariant, provided the
\* history still fits the source's stream.
LEMMA PutInv ==
    ASSUME RegistryInv, NEW s \in Sources, NEW r, SoundRecord(r), Put(s, r),
           hubId' = hubId,
           lastEpoch' \in Nat, lastEpoch' >= lastEpoch, r.epoch <= lastEpoch',
           usedEpochs' \in [DesktopSources -> SUBSET Epochs],
           \A d \in DesktopSources : \A e \in usedEpochs'[d] : e <= lastEpoch',
           issued' \subseteq Epochs \X HeadlessSources \X Epochs \X Epochs,
           \A x \in issued' : x \in issued \/ x = <<hubId, s, r.epoch, r.lastSeq>>,
           \A x \in issued : x[1] = hubId /\ x[2] = s /\ x[3] = r.epoch => x[4] <= r.lastSeq
    PROVE  RegistryInv'
<1>1. /\ DOMAIN records' = Registered \cup {s}
      /\ records' = [x \in DOMAIN records' |-> records'[x]]
      /\ records'[s] = r
      /\ \A x \in Registered : x # s => records'[x] = records[x]
    BY DEF Put
<1>2. \A x \in DOMAIN records' : SoundRecord(records'[x])
    BY <1>1, InvRecords
<1>3. TypeOK'
    <2>1. hubId' \in Epochs
        BY DEF RegistryInv, TypeOK
    <2>2. DOMAIN records' \subseteq Sources
        BY <1>1 DEF RegistryInv, TypeOK
    <2>3. \A x \in DOMAIN records' : IsRecord(records'[x])
        BY <1>2 DEF SoundRecord
    <2>. QED  BY <1>1, <2>1, <2>2, <2>3 DEF TypeOK, Registered
<1>4. RingContiguous'
    BY <1>2 DEF RingContiguous, SoundRecord, Registered
<1>5. \A x \in DOMAIN records' : records'[x].epoch <= lastEpoch'
    <2>1. ASSUME NEW x \in Registered, x # s PROVE records'[x].epoch <= lastEpoch'
        BY <1>1, <2>1, InvRecords DEF RegistryInv, TypeOK, SoundRecord, IsRecord, Epochs
    <2>. QED  BY <1>1, <2>1
<1>6. ASSUME NEW x \in issued'
      PROVE  /\ x[1] <= hubId' /\ x[3] <= lastEpoch'
             /\ x[1] = hubId' /\ x[2] \in DOMAIN records' /\ x[3] = records'[x[2]].epoch =>
                    x[4] <= records'[x[2]].lastSeq
    <2>1. CASE x \in issued
        <3>1. x[1] <= hubId /\ x[3] <= lastEpoch /\ x[3] \in Nat
            BY <2>1 DEF RegistryInv, TypeOK, Epochs
        <3>2. x[3] <= lastEpoch'
            BY <3>1 DEF RegistryInv, TypeOK
        <3>3. ASSUME x[1] = hubId, x[2] \in DOMAIN records', x[3] = records'[x[2]].epoch
              PROVE  x[4] <= records'[x[2]].lastSeq
            <4>1. CASE x[2] = s
                BY <1>1, <2>1, <3>3, <4>1
            <4>2. CASE x[2] # s
                BY <1>1, <2>1, <3>3, <4>2 DEF RegistryInv
            <4>. QED  BY <4>1, <4>2
        <3>. QED  BY <3>1, <3>2, <3>3
    <2>2. CASE x = <<hubId, s, r.epoch, r.lastSeq>>
        <3>1. r.lastSeq \in Nat /\ hubId \in Nat
            BY DEF SoundRecord, IsRecord, RegistryInv, TypeOK, Epochs
        <3>. QED  BY <1>1, <2>2, <3>1
    <2>. QED  BY <2>1, <2>2
<1>. QED  BY <1>3, <1>4, <1>5, <1>6 DEF RegistryInv, Registered

-----------------------------------------------------------------------------
(* One step: the invariant survives, and the window of the source moves as *)
(* the abstract specification allows.                                      *)

\* What every step but the removals and the restart of the hub does.
Stores(s) ==
    /\ s \in Sources
    /\ hubId' = hubId
    /\ \E r : SoundRecord(r) /\ Put(s, r) /\ Moves(s, r)

\* A number given to a headless event is new to its hub, source and epoch.
Fresh ==
    \A s \in HeadlessSources :
        s \in DOMAIN records' =>
            LET r == records'[s]
            IN \/ r.lastSeq = 0
               \/ s \in Registered /\ r.epoch = records[s].epoch
                                   /\ r.lastSeq = records[s].lastSeq
               \/ <<hubId', s, r.epoch, r.lastSeq>> \notin issued

\* The epochs of the frames of a desktop are minted ones, before and after.
LEMMA DesktopEpochMinted ==
    ASSUME RegistryInv, NEW s \in DesktopSources, NEW e \in Epochs, DesktopEpoch(s, e)
    PROVE  /\ lastEpoch' \in Nat /\ lastEpoch' >= lastEpoch /\ e <= lastEpoch'
           /\ usedEpochs' \in [DesktopSources -> SUBSET Epochs]
           /\ \A d \in DesktopSources : \A x \in usedEpochs'[d] : x <= lastEpoch'
<1>1. CASE e \in usedEpochs[s] /\ UNCHANGED <<lastEpoch, usedEpochs>>
    BY <1>1 DEF RegistryInv, TypeOK
<1>2. CASE FreshEpoch(e) /\ usedEpochs' = [usedEpochs EXCEPT ![s] = @ \cup {e}]
    <2>1. lastEpoch \in Nat /\ e = lastEpoch + 1 /\ lastEpoch' = e
        BY <1>2 DEF FreshEpoch, RegistryInv, TypeOK
    <2>2. usedEpochs' \in [DesktopSources -> SUBSET Epochs]
        BY <1>2 DEF RegistryInv, TypeOK
    <2>3. ASSUME NEW d \in DesktopSources, NEW x \in usedEpochs'[d] PROVE x <= lastEpoch'
        <3>1. x \in usedEpochs[d] \/ x = e
            BY <1>2 DEF RegistryInv, TypeOK
        <3>2. x \in Nat
            BY <2>2 DEF Epochs
        <3>3. x \in usedEpochs[d] => x <= lastEpoch
            BY DEF RegistryInv
        <3>. QED  BY <2>1, <3>1, <3>2, <3>3
    <2>. QED  BY <2>1, <2>2, <2>3
<1>. QED  BY <1>1, <1>2 DEF DesktopEpoch

\* A step of a desktop that stores a record and numbers no headless event.
LEMMA DesktopStores ==
    ASSUME RegistryInv, NEW s \in DesktopSources, NEW r,
           SoundRecord(r), Put(s, r), Moves(s, r), UNCHANGED <<hubId, issued>>,
           lastEpoch' \in Nat, lastEpoch' >= lastEpoch, r.epoch <= lastEpoch',
           usedEpochs' \in [DesktopSources -> SUBSET Epochs],
           \A d \in DesktopSources : \A x \in usedEpochs'[d] : x <= lastEpoch'
    PROVE  RegistryInv' /\ Stores(s) /\ Fresh
<1>1. s \in Sources /\ s \notin HeadlessSources
    BY RegistryAssumption DEF Sources
<1>2. issued \subseteq Epochs \X HeadlessSources \X Epochs \X Epochs
    BY DEF RegistryInv, TypeOK
<1>3. \A x \in issued : x[2] # s
    BY <1>1, <1>2
<1>4. RegistryInv'
    BY <1>1, <1>2, <1>3, PutInv
<1>5. Stores(s)
    BY <1>1 DEF Stores
<1>6. Fresh
    BY <1>1 DEF Fresh, Put
<1>. QED  BY <1>4, <1>5, <1>6

\* A registration stores a sound record of a minted epoch.
LEMMA DesktopRegisterStep ==
    ASSUME RegistryInv, NEW s \in DesktopSources, DesktopRegister(s)
    PROVE  RegistryInv' /\ Stores(s) /\ Fresh
<1>1. PICK e \in 1 .. MaxEpoch, b \in 0 .. MaxSeq :
          /\ DesktopEpoch(s, e)
          /\ Put(s, SetSnapshot(Register(s, e, TRUE), e, b))
          /\ UNCHANGED <<hubId, issued>>
    BY DEF DesktopRegister
<1>2. e \in Epochs /\ b \in Nat
    BY RegistryAssumption DEF Epochs
<1> DEFINE q == Register(s, e, TRUE)
           r == SetSnapshot(q, e, b)
<1>3. /\ SoundRecord(q) /\ q.epoch = e
      /\ s \in Registered /\ records[s].epoch = e =>
             q.lastSeq = records[s].lastSeq /\ Low(q) = Low(records[s])
      /\ ~(s \in Registered /\ records[s].epoch = e) => q.lastSeq = 0 /\ Low(q) = 0
    BY <1>2, RegisterSound
<1> HIDE DEF q
<1>4. /\ SoundRecord(r) /\ r.epoch = e
      /\ Low(r) >= Low(q) /\ r.lastSeq >= q.lastSeq
      /\ r.lastSeq > q.lastSeq => Low(r) = r.lastSeq
    BY <1>2, <1>3, SetSnapshotSound
<1> HIDE DEF r
<1>5. Moves(s, r)
    <2>1. CASE s \in Registered /\ records[s].epoch = e
        BY <1>3, <1>4, <2>1 DEF Moves, Rebases
    <2>2. CASE ~(s \in Registered /\ records[s].epoch = e)
        <3>1. r.lastSeq \in Nat /\ Low(r) \in 0 .. r.lastSeq
            BY <1>4, LowOfRecord DEF SoundRecord, IsRecord
        <3>2. r.lastSeq = Low(r)
            BY <1>3, <1>4, <2>2, <3>1
        <3>. QED  BY <1>4, <2>2, <3>2 DEF Moves, Opens
    <2>. QED  BY <2>1, <2>2
<1>6. Put(s, r)
    BY <1>1 DEF q, r
<1>7. /\ lastEpoch' \in Nat /\ lastEpoch' >= lastEpoch /\ e <= lastEpoch'
      /\ usedEpochs' \in [DesktopSources -> SUBSET Epochs]
      /\ \A d \in DesktopSources : \A x \in usedEpochs'[d] : x <= lastEpoch'
    BY <1>1, <1>2, DesktopEpochMinted
<1>. QED  BY <1>1, <1>4, <1>5, <1>6, <1>7, DesktopStores

\* So does a snapshot, of the present epoch or of another.
LEMMA DesktopSnapshotStep ==
    ASSUME RegistryInv, NEW s \in DesktopSources, DesktopSnapshot(s)
    PROVE  RegistryInv' /\ Stores(s) /\ Fresh
<1>1. PICK e \in 1 .. MaxEpoch, b \in 0 .. MaxSeq :
          DesktopEpoch(s, e) /\ Put(s, SetSnapshot(records[s], e, b))
    BY DEF DesktopSnapshot
<1>2. e \in Epochs /\ b \in Nat
    BY RegistryAssumption DEF Epochs
<1>3. s \in Registered /\ SoundRecord(records[s])
    BY InvRecords DEF DesktopSnapshot
<1> DEFINE r == SetSnapshot(records[s], e, b)
<1>4. /\ SoundRecord(r) /\ r.epoch = e
      /\ e = records[s].epoch =>
             /\ Low(r) >= Low(records[s])
             /\ r.lastSeq >= records[s].lastSeq
             /\ r.lastSeq > records[s].lastSeq => Low(r) = r.lastSeq
      /\ e # records[s].epoch => Low(r) = r.lastSeq
    BY <1>2, <1>3, SetSnapshotSound
<1> HIDE DEF r
<1>5. Moves(s, r)
    BY <1>3, <1>4 DEF Moves, Rebases, Opens
<1>6. Put(s, r)
    BY <1>1 DEF r
<1>7. /\ lastEpoch' \in Nat /\ lastEpoch' >= lastEpoch /\ e <= lastEpoch'
      /\ usedEpochs' \in [DesktopSources -> SUBSET Epochs]
      /\ \A d \in DesktopSources : \A x \in usedEpochs'[d] : x <= lastEpoch'
    BY <1>1, <1>2, DesktopEpochMinted
<1>8. UNCHANGED <<hubId, issued>>
    BY DEF DesktopSnapshot
<1>. QED  BY <1>4, <1>5, <1>6, <1>7, <1>8, DesktopStores

\* An event that fits ends the window one number later.
LEMMA DesktopEventStep ==
    ASSUME RegistryInv, NEW s \in DesktopSources, DesktopEvent(s)
    PROVE  RegistryInv' /\ Stores(s) /\ Fresh
<1>1. PICK e \in usedEpochs[s], n \in 1 .. MaxSeq, size \in EventSizes :
          Accepts(records[s], e, n) /\ Put(s, RecordDesktopEvent(records[s], e, n, size))
    BY DEF DesktopEvent
<1>2. s \in Registered /\ SoundRecord(records[s])
    BY InvRecords DEF DesktopEvent
<1>3. e = records[s].epoch /\ n = records[s].lastSeq + 1 /\ size \in Nat /\ e \in Epochs
    BY <1>1, <1>2, RegistryAssumption DEF Accepts, SoundRecord, IsRecord
<1> DEFINE event == [epoch |-> e, size |-> size]
           r == Push(records[s], records[s].lastSeq + 1, event)
<1>4. event \in Events /\ event.epoch = records[s].epoch
    BY <1>3 DEF Events
<1>5. Put(s, r)
    BY <1>1, <1>3 DEF RecordDesktopEvent
<1> HIDE DEF event
<1>6. /\ SoundRecord(r) /\ r.epoch = records[s].epoch
      /\ r.lastSeq = records[s].lastSeq + 1
      /\ Low(r) \in Low(records[s]) .. records[s].lastSeq
    BY <1>2, <1>4, PushSound
<1> HIDE DEF r
<1>7. Moves(s, r)
    BY <1>2, <1>6 DEF Moves, Extends
<1>8. r.epoch <= lastEpoch
    BY <1>2, <1>6 DEF RegistryInv
<1>. QED  BY <1>5, <1>6, <1>7, <1>8, DesktopStores DEF DesktopEvent, RegistryInv, TypeOK

\* The socket of a desktop closed, or a process of the pool ended.
LEMMA OfflineStep ==
    ASSUME RegistryInv, NEW s \in Registered,
           Put(s, [records[s] EXCEPT !.connected = FALSE]),
           UNCHANGED <<hubId, lastEpoch, usedEpochs, issued>>
    PROVE  RegistryInv' /\ Stores(s) /\ Fresh
<1>1. s \in Sources /\ SoundRecord(records[s])
    BY InvRecords
<1> DEFINE r == [records[s] EXCEPT !.connected = FALSE]
<1>2. /\ SoundRecord(r) /\ r.epoch = records[s].epoch
      /\ r.lastSeq = records[s].lastSeq /\ Low(r) = Low(records[s])
    BY <1>1, ConnectedSound
<1>3. Put(s, r)
    OBVIOUS
<1> HIDE DEF r
<1>4. r.lastSeq \in Nat /\ Low(r) \in 0 .. r.lastSeq /\ r.epoch <= lastEpoch /\ lastEpoch \in Nat
    BY <1>2, LowOfRecord DEF SoundRecord, IsRecord, RegistryInv, TypeOK
<1>5. Moves(s, r)
    BY <1>2, <1>4 DEF Moves, Rebases
<1>6. RegistryInv'
    <2>1. /\ usedEpochs' \in [DesktopSources -> SUBSET Epochs]
          /\ \A d \in DesktopSources : \A e \in usedEpochs'[d] : e <= lastEpoch'
          /\ issued' \subseteq Epochs \X HeadlessSources \X Epochs \X Epochs
        BY DEF RegistryInv, TypeOK
    <2>2. \A x \in issued : x[1] = hubId /\ x[2] = s /\ x[3] = r.epoch => x[4] <= r.lastSeq
        BY <1>2 DEF RegistryInv
    <2>. QED  BY <1>1, <1>2, <1>3, <1>4, <2>1, <2>2, PutInv
<1>7. Stores(s)
    BY <1>1, <1>2, <1>3, <1>5 DEF Stores
<1>8. Fresh
    BY <1>2, <1>3 DEF Fresh, Put
<1>. QED  BY <1>6, <1>7, <1>8

\* A headless source gets a record of an epoch nobody has seen.
LEMMA FreshEpochUnseen ==
    ASSUME RegistryInv, NEW e, FreshEpoch(e)
    PROVE  /\ e \in Epochs /\ lastEpoch' \in Nat /\ lastEpoch' = e /\ lastEpoch' >= lastEpoch
           /\ \A s \in Registered : records[s].epoch # e
           /\ \A x \in issued : x[3] # e
           /\ \A d \in DesktopSources : \A x \in usedEpochs[d] : x <= lastEpoch'
<1>1. lastEpoch \in Nat /\ e = lastEpoch + 1 /\ lastEpoch' = e
    BY DEF RegistryInv, TypeOK, FreshEpoch
<1>2. \A s \in Registered : records[s].epoch # e
    <2>1. ASSUME NEW s \in Registered PROVE records[s].epoch # e
        <3>1. records[s].epoch <= lastEpoch /\ records[s].epoch \in Nat
            BY InvRecords DEF RegistryInv, SoundRecord, IsRecord, Epochs
        <3>. QED  BY <1>1, <3>1
    <2>. QED  BY <2>1
<1>3. \A x \in issued : x[3] # e
    <2>1. ASSUME NEW x \in issued PROVE x[3] # e
        <3>1. x[3] <= lastEpoch /\ x[3] \in Nat
            BY DEF RegistryInv, TypeOK, Epochs
        <3>. QED  BY <1>1, <3>1
    <2>. QED  BY <2>1
<1>4. ASSUME NEW d \in DesktopSources, NEW x \in usedEpochs[d] PROVE x <= lastEpoch'
    <2>1. x <= lastEpoch /\ x \in Nat
        BY DEF RegistryInv, TypeOK, Epochs
    <2>. QED  BY <1>1, <2>1
<1>. QED  BY <1>1, <1>2, <1>3, <1>4 DEF Epochs

\* A headless source starts with an empty window and no event issued.
LEMMA HeadlessRegisterStep ==
    ASSUME RegistryInv, NEW s \in HeadlessSources, HeadlessRegister(s)
    PROVE  RegistryInv' /\ Stores(s) /\ Fresh
<1>1. PICK e \in 1 .. MaxEpoch : FreshEpoch(e) /\ Put(s, NewRecord(e, FALSE))
    BY DEF HeadlessRegister
<1>2. /\ e \in Epochs /\ lastEpoch' \in Nat /\ lastEpoch' = e /\ lastEpoch' >= lastEpoch
      /\ \A x \in issued : x[3] # e
      /\ \A d \in DesktopSources : \A x \in usedEpochs[d] : x <= lastEpoch'
    BY <1>1, FreshEpochUnseen
<1> DEFINE r == NewRecord(e, FALSE)
<1>3. SoundRecord(r) /\ r.epoch = e /\ r.lastSeq = 0 /\ Low(r) = 0
    BY <1>2, NewRecordSound
<1>4. Put(s, r)
    BY <1>1
<1> HIDE DEF r
<1>5. s \in Sources /\ s \notin Registered /\ UNCHANGED <<hubId, usedEpochs, issued>>
    BY DEF Sources, HeadlessRegister
<1>6. RegistryInv'
    <2>1. r.epoch <= lastEpoch'
        BY <1>2, <1>3 DEF Epochs
    <2>2. /\ usedEpochs' \in [DesktopSources -> SUBSET Epochs]
          /\ issued' \subseteq Epochs \X HeadlessSources \X Epochs \X Epochs
        BY <1>5 DEF RegistryInv, TypeOK
    <2>. QED  BY <1>2, <1>3, <1>4, <1>5, <2>1, <2>2, PutInv
<1>7. Stores(s)
    BY <1>3, <1>4, <1>5 DEF Stores, Moves, Opens
<1>8. Fresh
    BY <1>3, <1>4, <1>5 DEF Fresh, Put
<1>. QED  BY <1>6, <1>7, <1>8

\* recordLocalEvent on the record that is about to be stored: of the epoch the
\* source is in, or of one nobody has seen.
LEMMA PutWithEventStep ==
    ASSUME RegistryInv, NEW s \in HeadlessSources, NEW q, SoundRecord(q),
           NEW size \in EventSizes, PutWithEvent(s, q, size),
           UNCHANGED <<hubId, usedEpochs>>,
           lastEpoch' \in Nat, lastEpoch' >= lastEpoch, q.epoch <= lastEpoch',
           \A d \in DesktopSources : \A x \in usedEpochs[d] : x <= lastEpoch',
           \/ /\ s \in Registered
              /\ q = records[s]
           \/ /\ s \in Registered => records[s].epoch # q.epoch
              /\ \A x \in issued : x[3] # q.epoch
              /\ q.lastSeq = 0
    PROVE  RegistryInv' /\ Stores(s) /\ Fresh
<1> DEFINE event == [epoch |-> q.epoch, size |-> size]
           r == Push(q, q.lastSeq + 1, event)
<1>1. q.lastSeq \in Nat /\ q.epoch \in Epochs /\ size \in Nat /\ Low(q) \in 0 .. q.lastSeq
    BY RegistryAssumption, LowOfRecord DEF SoundRecord, IsRecord
<1>2. event \in Events /\ event.epoch = q.epoch
    BY <1>1 DEF Events
<1>3. Put(s, r) /\ issued' = issued \cup {<<hubId, s, r.epoch, r.lastSeq>>}
    BY DEF PutWithEvent, RecordLocalEvent
<1> HIDE DEF event
<1>4. /\ SoundRecord(r) /\ r.epoch = q.epoch /\ r.lastSeq = q.lastSeq + 1
      /\ Low(r) \in Low(q) .. q.lastSeq
    BY <1>2, PushSound
<1> HIDE DEF r
<1>5. s \in Sources
    BY DEF Sources
<1>6. \A x \in issued : x[1] = hubId /\ x[2] = s /\ x[3] = r.epoch => x[4] < r.lastSeq
    <2>1. ASSUME NEW x \in issued, x[1] = hubId, x[2] = s, x[3] = r.epoch
          PROVE  x[4] < r.lastSeq
        <3>1. s \in Registered /\ q = records[s]
            BY <1>4, <2>1
        <3>2. x[4] <= q.lastSeq /\ x[4] \in Nat
            BY <1>4, <2>1, <3>1 DEF RegistryInv, TypeOK, Epochs
        <3>. QED  BY <1>1, <1>4, <3>2
    <2>. QED  BY <2>1
<1>7. RegistryInv'
    <2>1. /\ usedEpochs' \in [DesktopSources -> SUBSET Epochs]
          /\ hubId \in Epochs /\ r.epoch \in Epochs /\ r.lastSeq \in Epochs
          /\ issued \subseteq Epochs \X HeadlessSources \X Epochs \X Epochs
        BY <1>1, <1>4 DEF RegistryInv, TypeOK, Epochs
    <2>2. issued' \subseteq Epochs \X HeadlessSources \X Epochs \X Epochs
        BY <1>3, <2>1
    <2>3. \A x \in issued' : x \in issued \/ x = <<hubId, s, r.epoch, r.lastSeq>>
        BY <1>3
    <2>4. \A x \in issued : x[1] = hubId /\ x[2] = s /\ x[3] = r.epoch => x[4] <= r.lastSeq
        <3>1. \A x \in issued : x[4] \in Nat
            BY <2>1 DEF Epochs
        <3>. QED  BY <1>1, <1>4, <1>6, <3>1
    <2>. QED  BY <1>3, <1>4, <1>5, <2>1, <2>2, <2>3, <2>4, PutInv
<1>8. Moves(s, r)
    <2>1. CASE s \in Registered /\ q = records[s]
        BY <1>4, <2>1 DEF Moves, Extends
    <2>2. CASE (s \in Registered => records[s].epoch # q.epoch) /\ q.lastSeq = 0
        BY <1>1, <1>4, <2>2 DEF Moves, Opens
    <2>. QED  BY <2>1, <2>2
<1>9. Fresh
    <2>1. <<hubId, s, r.epoch, r.lastSeq>> \notin issued
        <3>1. ASSUME <<hubId, s, r.epoch, r.lastSeq>> \in issued PROVE FALSE
            <4>1. r.lastSeq < r.lastSeq
                BY <1>6, <3>1
            <4>. QED  BY <1>1, <1>4, <4>1
        <3>. QED  BY <3>1
    <2>. QED  BY <1>3, <2>1 DEF Fresh, Put
<1>. QED  BY <1>3, <1>4, <1>5, <1>7, <1>8, <1>9 DEF Stores

\* A new process starts an epoch nobody has seen with its first event.
LEMMA HeadlessSpawnStep ==
    ASSUME RegistryInv, NEW s \in HeadlessSources, HeadlessSpawn(s)
    PROVE  RegistryInv' /\ Stores(s) /\ Fresh
<1>1. PICK e \in 1 .. MaxEpoch, size \in EventSizes :
          /\ FreshEpoch(e)
          /\ PutWithEvent(s, [SwitchEpoch(records[s], e) EXCEPT !.connected = TRUE], size)
    BY DEF HeadlessSpawn
<1>2. /\ e \in Epochs /\ lastEpoch' \in Nat /\ lastEpoch' = e /\ lastEpoch' >= lastEpoch
      /\ \A x \in Registered : records[x].epoch # e
      /\ \A x \in issued : x[3] # e
      /\ \A d \in DesktopSources : \A x \in usedEpochs[d] : x <= lastEpoch'
    BY <1>1, FreshEpochUnseen
<1>3. s \in Registered /\ SoundRecord(records[s])
    BY InvRecords DEF HeadlessSpawn
<1> DEFINE k == SwitchEpoch(records[s], e)
           q == [k EXCEPT !.connected = TRUE]
<1>4. SoundRecord(k) /\ k.epoch = e /\ k.lastSeq = 0
    BY <1>2, <1>3, SwitchEpochSound
<1> HIDE DEF k
<1>5. SoundRecord(q) /\ q.epoch = e /\ q.lastSeq = 0
    BY <1>4, ConnectedSound
<1>6. PutWithEvent(s, q, size)
    BY <1>1 DEF k
<1> HIDE DEF q
<1>7. q.epoch <= lastEpoch' /\ UNCHANGED <<hubId, usedEpochs>>
    BY <1>2, <1>5 DEF HeadlessSpawn
<1>. QED  BY <1>2, <1>3, <1>5, <1>6, <1>7, PutWithEventStep

\* An event of a process is numbered one past the last of its epoch.
LEMMA HeadlessEventStep ==
    ASSUME RegistryInv, NEW s \in HeadlessSources, HeadlessEvent(s)
    PROVE  RegistryInv' /\ Stores(s) /\ Fresh
<1>1. PICK size \in EventSizes : PutWithEvent(s, records[s], size)
    BY DEF HeadlessEvent
<1>2. s \in Registered /\ SoundRecord(records[s])
    BY InvRecords DEF HeadlessEvent
<1>3. /\ UNCHANGED <<hubId, lastEpoch, usedEpochs>>
      /\ lastEpoch \in Nat
      /\ records[s].epoch <= lastEpoch
      /\ \A d \in DesktopSources : \A x \in usedEpochs[d] : x <= lastEpoch
    BY <1>2 DEF HeadlessEvent, RegistryInv, TypeOK
<1>4. lastEpoch' \in Nat /\ lastEpoch' >= lastEpoch
    BY <1>3
<1>. QED  BY <1>1, <1>2, <1>3, <1>4, PutWithEventStep

\* A source is removed.
LEMMA DesktopPruneStep ==
    ASSUME RegistryInv, NEW s, DesktopPrune(s)
    PROVE  RegistryInv' /\ Fresh
<1>1. /\ records' = [x \in Registered \ {s} |-> records[x]]
      /\ UNCHANGED <<hubId, lastEpoch, usedEpochs, issued>>
    BY DEF DesktopPrune, Restrict
<1>2. DOMAIN records' \subseteq Registered /\ \A x \in DOMAIN records' : records'[x] = records[x]
    BY <1>1
<1>3. TypeOK'
    <2>1. records' = [x \in DOMAIN records' |-> records'[x]]
        BY <1>1
    <2>. QED  BY <1>1, <1>2, <2>1 DEF RegistryInv, TypeOK, Registered
<1>4. RingContiguous'
    BY <1>1, <1>2 DEF RegistryInv, RingContiguous, Registered
<1>5. /\ \A x \in DOMAIN records' : records'[x].epoch <= lastEpoch'
      /\ \A d \in DesktopSources : \A e \in usedEpochs'[d] : e <= lastEpoch'
    BY <1>1, <1>2 DEF RegistryInv
<1>6. ASSUME NEW x \in issued'
      PROVE  /\ x[1] <= hubId' /\ x[3] <= lastEpoch'
             /\ x[1] = hubId' /\ x[2] \in DOMAIN records' /\ x[3] = records'[x[2]].epoch =>
                    x[4] <= records'[x[2]].lastSeq
    BY <1>1, <1>2 DEF RegistryInv
<1>7. RegistryInv'
    BY <1>3, <1>4, <1>5, <1>6 DEF RegistryInv, Registered
<1>8. Fresh
    BY <1>1, <1>2 DEF Fresh
<1>. QED  BY <1>7, <1>8

\* A restarted hub has no records, and a name nothing was issued under.
LEMMA HubRestartStep ==
    ASSUME RegistryInv, HubRestart
    PROVE  RegistryInv' /\ Fresh
<1>1. /\ hubId' = hubId + 1 /\ hubId \in Epochs /\ DOMAIN records' = {}
      /\ records' = [x \in DOMAIN records' |-> records'[x]]
      /\ usedEpochs' \in [DesktopSources -> SUBSET Epochs]
      /\ \A d \in DesktopSources : usedEpochs'[d] = {}
      /\ UNCHANGED <<lastEpoch, issued>>
    BY DEF HubRestart, RegistryInv, TypeOK
<1>2. hubId' \in Epochs
    BY <1>1 DEF Epochs
<1>3. TypeOK'
    BY <1>1, <1>2 DEF RegistryInv, TypeOK, Registered
<1>4. RingContiguous'
    BY <1>1 DEF RingContiguous, Registered
<1>5. ASSUME NEW x \in issued' PROVE x[1] <= hubId' /\ x[3] <= lastEpoch'
    <2>1. x[1] <= hubId /\ x[1] \in Nat /\ hubId \in Nat /\ x[3] <= lastEpoch
        BY <1>1 DEF RegistryInv, TypeOK, Epochs
    <2>. QED  BY <1>1, <2>1
<1>6. RegistryInv'
    BY <1>1, <1>3, <1>4, <1>5 DEF RegistryInv, Registered
<1>. QED  BY <1>1, <1>6 DEF Fresh

-----------------------------------------------------------------------------
(* Every step.                                                             *)

\* What a step is, as far as the theorems below are concerned.
Removes ==
    /\ DOMAIN records' \subseteq Registered
    /\ records' = [x \in DOMAIN records' |-> records[x]]

\* The initial state satisfies the inductive invariant.
LEMMA InitInv == Init => RegistryInv
<1> SUFFICES ASSUME Init PROVE RegistryInv
    OBVIOUS
<1>1. DOMAIN records = {} /\ records = [s \in DOMAIN records |-> records[s]]
    BY DEF Init
<1>2. TypeOK
    BY <1>1 DEF Init, TypeOK, Registered, Epochs
<1>3. RingContiguous
    BY <1>1 DEF RingContiguous, Registered
<1>. QED  BY <1>1, <1>2, <1>3 DEF Init, RegistryInv, Registered

\* Every step keeps the invariant and numbers headless events afresh, and it
\* stores one record, or removes records, or leaves them alone.
LEMMA NextStep ==
    ASSUME RegistryInv, Next
    PROVE  RegistryInv' /\ Fresh /\ ((\E s \in Sources : Stores(s)) \/ Removes)
<1>1. ASSUME NEW s \in DesktopSources, DesktopStep(s)
      PROVE  RegistryInv' /\ Fresh /\ (Stores(s) \/ Removes)
    <2>1. CASE DesktopRegister(s)
        BY <2>1, DesktopRegisterStep
    <2>2. CASE DesktopSnapshot(s)
        BY <2>2, DesktopSnapshotStep
    <2>3. CASE DesktopEvent(s)
        BY <2>3, DesktopEventStep
    <2>4. CASE DesktopClosed(s)
        BY <2>4, OfflineStep DEF DesktopClosed
    <2>5. CASE DesktopPrune(s)
        <3>1. Removes
            BY <2>5 DEF DesktopPrune, Restrict, Removes
        <3>. QED  BY <2>5, <3>1, DesktopPruneStep
    <2>. QED  BY <1>1, <2>1, <2>2, <2>3, <2>4, <2>5 DEF DesktopStep
<1>2. ASSUME NEW s \in HeadlessSources, HeadlessStep(s)
      PROVE  RegistryInv' /\ Fresh /\ Stores(s)
    <2>1. CASE HeadlessRegister(s)
        BY <2>1, HeadlessRegisterStep
    <2>2. CASE HeadlessSpawn(s)
        BY <2>2, HeadlessSpawnStep
    <2>3. CASE HeadlessEvent(s)
        BY <2>3, HeadlessEventStep
    <2>4. CASE HeadlessOffline(s)
        BY <2>4, OfflineStep DEF HeadlessOffline
    <2>. QED  BY <1>2, <2>1, <2>2, <2>3, <2>4 DEF HeadlessStep
<1>3. ASSUME HubRestart PROVE RegistryInv' /\ Fresh /\ Removes
    <2>1. records' = [s \in {} |-> NewRecord(1, FALSE)]
        BY <1>3 DEF HubRestart
    <2>2. DOMAIN records' = {}
        BY <2>1
    <2>3. records' = [x \in DOMAIN records' |-> records[x]]
        BY <2>1, <2>2
    <2>. QED  BY <1>3, <2>2, <2>3, HubRestartStep DEF Removes
<1>. QED  BY <1>1, <1>2, <1>3 DEF Next, Sources

\* So does a step that changes nothing.
LEMMA StutterStep ==
    ASSUME RegistryInv, UNCHANGED vars
    PROVE  RegistryInv'
BY DEF vars, RegistryInv, TypeOK, RingContiguous, Registered

\* Everything RegistryInv says holds in every reachable state.
THEOREM RegistryInvariant == Spec => []RegistryInv
<1>1. RegistryInv /\ [Next]_vars => RegistryInv'
    BY NextStep, StutterStep
<1>. QED  BY <1>1, InitInv, PTL DEF Spec

\* Every record is well formed, whatever arrives from relays and processes.
THEOREM RegistryTypeCorrect == Spec => []TypeOK
<1>1. RegistryInv => TypeOK
    BY DEF RegistryInv
<1>. QED  BY <1>1, RegistryInvariant, PTL

\* The ring is always a run of consecutive numbers that ends at the last one.
THEOREM RingsAreContiguous == Spec => []RingContiguous
<1>1. RegistryInv => RingContiguous
    BY DEF RegistryInv
<1>. QED  BY <1>1, RegistryInvariant, PTL

\* canReplay says yes only if every event after the cursor is in the ring.
LEMMA ReplayIsExact ==
    ASSUME NEW r, SoundRecord(r), NEW seq \in Nat, CanReplay(r, seq)
    PROVE  EventsAfter(r, seq) = (seq + 1) .. r.lastSeq
<1>1. /\ r.lastSeq \in Nat
      /\ Low(r) \in 0 .. r.lastSeq
      /\ DOMAIN r.ring = (Low(r) + 1) .. r.lastSeq
    BY LowOfRecord DEF SoundRecord, IsRecord
<1>2. seq >= Low(r) /\ seq <= r.lastSeq
    <2>1. CASE DOMAIN r.ring = {}
        BY <1>1, <2>1 DEF CanReplay, Low
    <2>2. CASE DOMAIN r.ring # {}
        BY <1>1, <2>2 DEF CanReplay, Low
    <2>. QED  BY <2>1, <2>2
<1>3. \A n \in EventsAfter(r, seq) : n \in (seq + 1) .. r.lastSeq
    BY <1>1 DEF EventsAfter
<1>4. \A n \in (seq + 1) .. r.lastSeq : n \in EventsAfter(r, seq)
    BY <1>1, <1>2 DEF EventsAfter
<1>. QED  BY <1>3, <1>4, Zenon

\* A client told to replay gets exactly the events that follow its cursor.
THEOREM ReplaysAreExact == Spec => []ReplayExact
<1>1. RegistryInv => ReplayExact
    <2> SUFFICES ASSUME RegistryInv, NEW s \in Registered, NEW seq \in 0 .. MaxSeq,
                        Sync(records[s], TRUE, seq).mode = "replay"
                 PROVE  Sync(records[s], TRUE, seq).events = (seq + 1) .. records[s].lastSeq
        BY DEF ReplayExact
    <2> DEFINE r == records[s]
    <2>1. SoundRecord(r)
        BY InvRecords
    <2> HIDE DEF r
    <2>2. CanReplay(r, seq)
        <3>1. ASSUME ~CanReplay(r, seq) PROVE Sync(r, TRUE, seq).mode # "replay"
            <4>1. CASE r.snapshot # NoSnapshot
                BY <3>1, <4>1 DEF Sync
            <4>2. CASE r.snapshot = NoSnapshot
                BY <3>1, <4>2 DEF Sync
            <4>. QED  BY <4>1, <4>2
        <3>. QED  BY <3>1 DEF r
    <2>3. Sync(r, TRUE, seq).events = EventsAfter(r, seq)
        BY <2>2 DEF Sync
    <2>4. seq \in Nat
        BY RegistryAssumption
    <2>. QED  BY <2>1, <2>2, <2>3, <2>4, ReplayIsExact DEF r
<1>. QED  BY <1>1, RegistryInvariant, PTL

\* A snapshot called continuous joins the events sent with it, up to the last.
THEOREM SnapshotsAreExact == Spec => []SnapshotExact
<1>1. RegistryInv => SnapshotExact
    <2> SUFFICES ASSUME RegistryInv, NEW s \in Registered,
                        Sync(records[s], FALSE, 0).mode = "snapshot",
                        Sync(records[s], FALSE, 0).continuous
                 PROVE  Sync(records[s], FALSE, 0).events =
                            (Sync(records[s], FALSE, 0).baseSeq + 1) .. records[s].lastSeq
        BY DEF SnapshotExact
    <2> DEFINE r == records[s]
               a == Sync(r, FALSE, 0)
               base == r.snapshot.baseSeq
               later == EventsAfter(r, base)
    <2>1. SoundRecord(r)
        BY InvRecords
    <2>2. a =
              IF r.snapshot # NoSnapshot
              THEN [mode |-> "snapshot", baseSeq |-> base, events |-> later,
                    continuous |-> IsSnapshotContinuous(r)]
              ELSE [mode |-> "rpc", baseSeq |-> r.lastSeq, events |-> {}, continuous |-> TRUE]
        BY DEF Sync
    <2>8. a.mode = "snapshot" /\ a.continuous
        OBVIOUS
    <2> HIDE DEF r, a
    <2>3. r.snapshot # NoSnapshot
        <3>1. ASSUME r.snapshot = NoSnapshot PROVE a.mode = "rpc"
            <4>1. a = [mode |-> "rpc", baseSeq |-> r.lastSeq,
                                       events |-> {}, continuous |-> TRUE]
                BY <2>2, <3>1, Zenon
            <4>. QED  BY <4>1
        <3>2. "rpc" # "snapshot"
            OBVIOUS
        <3>. QED  BY <2>8, <3>1, <3>2
    <2>4. /\ IsSnapshotContinuous(r)
          /\ a.events = later
          /\ a.baseSeq = base
        <3> DEFINE c == IsSnapshotContinuous(r)
        <3>1. a = [mode |-> "snapshot", baseSeq |-> base,
                                   events |-> later, continuous |-> c]
            BY <2>2, <2>3, Zenon
        <3> HIDE DEF c
        <3>2. /\ a.continuous = c
              /\ a.events = later
              /\ a.baseSeq = base
            BY <3>1
        <3>3. c
            BY <2>8, <3>2, Zenon
        <3>. QED  BY <3>2, <3>3 DEF c
    <2>5. /\ r.lastSeq \in Nat /\ Low(r) \in 0 .. r.lastSeq
          /\ DOMAIN r.ring = (Low(r) + 1) .. r.lastSeq
          /\ base \in Nat
        BY <2>1, LowOfRecord DEF SoundRecord, IsRecord, Snapshots, NoSnapshot
    <2>6. later = (base + 1) .. r.lastSeq
        <3>1. CASE later = {}
            BY <2>4, <2>5, <3>1 DEF IsSnapshotContinuous
        <3>2. CASE later # {}
            <4>1. Min(later) = base + 1
                BY <2>4, <3>2 DEF IsSnapshotContinuous
            <4>2. later \subseteq Nat
                BY <2>5 DEF EventsAfter
            <4>3. base + 1 \in later
                BY <3>2, <4>1, <4>2, MinOfNaturals
            <4>4. Low(r) <= base
                BY <2>5, <4>3 DEF EventsAfter
            <4>5. \A n \in later : n \in (base + 1) .. r.lastSeq
                BY <2>5 DEF EventsAfter
            <4>6. \A n \in (base + 1) .. r.lastSeq : n \in later
                BY <2>5, <4>4 DEF EventsAfter
            <4> HIDE DEF later
            <4>. QED  BY <4>5, <4>6, Zenon
        <3>. QED  BY <3>1, <3>2
    <2>. QED  BY <2>4, <2>6 DEF r, a
<1>. QED  BY <1>1, RegistryInvariant, PTL

\* Numbers of headless events are never handed out twice in one stream.
THEOREM LocalNumbersAreFresh == Spec => LocalNumbersFresh
<1>1. RegistryInv /\ [Next]_vars => [Fresh]_vars
    BY NextStep
<1>2. RegistryInv /\ [Next]_vars =>
          [\A s \in HeadlessSources :
               s \in DOMAIN records' =>
                   LET r == records'[s]
                   IN \/ r.lastSeq = 0
                      \/ s \in Registered /\ r.epoch = records[s].epoch
                                          /\ r.lastSeq = records[s].lastSeq
                      \/ <<hubId', s, r.epoch, r.lastSeq>> \notin issued]_vars
    BY <1>1 DEF Fresh
<1>. QED  BY <1>2, RegistryInvariant, PTL DEF Spec, LocalNumbersFresh

-----------------------------------------------------------------------------
(* The registry implements the replay window.                              *)

\* Storing one record moves one window.
LEMMA StoresWindow ==
    ASSUME RegistryInv, NEW s \in Sources, Stores(s)
    PROVE  Window!Next
<1>1. PICK r : SoundRecord(r) /\ Put(s, r) /\ Moves(s, r)
    BY DEF Stores
<1> DEFINE W == [x \in Registered |->
                    [epoch |-> records[x].epoch, low |-> Low(records[x]),
                     high |-> records[x].lastSeq]]
           w == [epoch |-> r.epoch, low |-> Low(r), high |-> r.lastSeq]
<1>2. /\ DOMAIN records' = Registered \cup {s}
      /\ records'[s] = r
      /\ \A x \in Registered : x # s => records'[x] = records[x]
    BY <1>1 DEF Put
<1>3. /\ DOMAIN W = Registered /\ DOMAIN W' = Registered \cup {s}
      /\ W'[s] = w
      /\ \A x \in Registered : x # s => W'[x] = W[x]
      /\ s \in Registered =>
             W[s] = [epoch |-> records[s].epoch, low |-> Low(records[s]),
                     high |-> records[s].lastSeq]
    BY <1>2 DEF Registered, Low
<1>4. w \in Window!Windows
    <2>1. r.epoch \in Nat \ {0} /\ r.lastSeq \in Nat /\ Low(r) \in 0 .. r.lastSeq
        BY <1>1, LowOfRecord DEF SoundRecord, IsRecord, Epochs
    <2>. QED  BY <2>1 DEF Window!Windows
<1>5. W' = [x \in DOMAIN W \cup {s} |-> IF x = s THEN w ELSE W[x]]
    BY <1>2, <1>3
<1>6. s \in Registered => /\ records[s].lastSeq \in Nat
                          /\ Low(records[s]) \in 0 .. records[s].lastSeq
    BY InvRecords, LowOfRecord DEF SoundRecord, IsRecord
<1>7. Window!Put(s, w)
    BY <1>5 DEF Window!Put
<1> HIDE DEF W
<1>8. CASE Opens(s, r)
    <2>1. Window!Start(s)
        BY <1>3, <1>4, <1>5, <1>8 DEF Opens, Window!Start, Window!Put, W
    <2>. QED  BY <2>1 DEF Window!Next
<1>9. CASE Extends(s, r)
    <2>1. /\ s \in DOMAIN W
          /\ W[s] = [epoch |-> r.epoch, low |-> Low(records[s]),
                     high |-> records[s].lastSeq]
          /\ r.lastSeq = records[s].lastSeq + 1
          /\ Low(r) \in Low(records[s]) .. records[s].lastSeq
        BY <1>3, <1>9 DEF Extends
    <2>2. /\ Low(r) \in W[s].low .. W[s].high
          /\ w = [epoch |-> W[s].epoch, low |-> Low(r), high |-> W[s].high + 1]
        BY <2>1
    <2>3. \E low \in W[s].low .. W[s].high :
              W' = [x \in DOMAIN W \cup {s} |->
                       IF x = s THEN [epoch |-> W[s].epoch, low |-> low, high |-> W[s].high + 1]
                                ELSE W[x]]
        BY <1>5, <2>2, Zenon
    <2>4. Window!Record(s)
        BY <2>1, <2>3 DEF Window!Record, Window!Put, W
    <2>. QED  BY <2>4 DEF Window!Next
<1>10. CASE Rebases(s, r)
    BY <1>3, <1>4, <1>5, <1>6, <1>10, ZenonT(60) DEF Rebases, Window!Rebase, Window!Put, Window!Next, W
<1>. QED  BY <1>1, <1>8, <1>9, <1>10 DEF Moves

\* Removing sources forgets their windows.
LEMMA RemovesWindow ==
    ASSUME RegistryInv, Removes
    PROVE  Window!Forget
<1> DEFINE W == [x \in Registered |->
                    [epoch |-> records[x].epoch, low |-> Low(records[x]),
                     high |-> records[x].lastSeq]]
           gone == Registered \ DOMAIN records'
<1>1. /\ DOMAIN W = Registered
      /\ Registered \ gone = DOMAIN records'
      /\ gone \in SUBSET DOMAIN W
    BY DEF Removes
<1>2. \A x \in DOMAIN records' : records'[x] = records[x]
    BY DEF Removes
<1>3. W' = [x \in DOMAIN records' |->
               [epoch |-> records'[x].epoch, low |-> Low(records'[x]),
                high |-> records'[x].lastSeq]]
    BY DEF Registered, Low
<1>4. W' = [x \in DOMAIN W \ gone |-> W[x]]
    BY <1>1, <1>2, <1>3 DEF Removes
<1>. QED  BY <1>1, <1>4 DEF Window!Forget

\* What hub clients can be sent behaves as the abstract replay window.
THEOREM RegistryImplementsWindow == Spec => ImplementsWindow
<1>1. Init => Window!Init
    <2> SUFFICES ASSUME Init PROVE Window!Init
        OBVIOUS
    <2>1. Registered = {}
        BY DEF Init, Registered
    <2>. QED  BY <2>1 DEF Window!Init
<1>2. RegistryInv /\ [Next]_vars =>
          [Window!Next]_([s \in Registered |-> [epoch |-> records[s].epoch,
                                                low   |-> Low(records[s]),
                                                high  |-> records[s].lastSeq]])
    <2>1. CASE RegistryInv /\ Next
        BY <2>1, NextStep, StoresWindow, RemovesWindow DEF Window!Next
    <2>2. CASE RegistryInv /\ UNCHANGED vars
        BY <2>2 DEF vars, Registered, Low
    <2>. QED  BY <2>1, <2>2
<1>. QED  BY <1>1, <1>2, RegistryInvariant, PTL DEF Spec, ImplementsWindow, Window!Spec
-----------------------------------------------------------------------------
(* The lease manager of a record.                                          *)

LeaseInv ==
    /\ LeaseTypeOK
    /\ ActiveIsNewest
    /\ \A l \in granted : l.leaseId <= lastLeaseId
    /\ \A id \in ended : id <= lastLeaseId
    /\ active # NoLease => active.leaseId \notin ended
    /\ lastCommand.fence <= nextFence
    /\ active # NoLease /\ lastCommand.fence = nextFence =>
           active.clientId = lastCommand.clientId

-----------------------------------------------------------------------------

\* Expiry leaves either the active lease or none.
LEMMA LiveCases == Live = active \/ Live = NoLease
BY DEF Live

\* No lease a client could hold is the absence of a lease.
LEMMA LeaseIsNotNoLease == \A l \in Leases : l # NoLease
BY DEF Leases, NoLease

\* The initial state satisfies the inductive invariant.
LEMMA LeaseInitInv == LeaseInit => LeaseInv
BY DEF LeaseInit, LeaseInv, LeaseTypeOK, ActiveIsNewest, NoLease, NoCommand

\* What the operations that mint nothing do to the lease: they keep it,
\* extend it, or drop it.
Kept ==
    /\ \/ active' = NoLease
       \/ /\ active # NoLease
          /\ \E t \in Nat : active' = [active EXCEPT !.expiresAt = t]
    /\ ended' = IF active # NoLease /\ active'.leaseId # active.leaseId
                THEN ended \cup {active.leaseId} ELSE ended
    /\ UNCHANGED <<nextFence, lastLeaseId, granted>>
    /\ now' \in Nat

\* The fields other than the expiry survive an extension.
LEMMA ExtendedFields ==
    ASSUME LeaseInv, NEW t \in Nat, active # NoLease,
           active' = [active EXCEPT !.expiresAt = t]
    PROVE  /\ active' \in Leases
           /\ active'.leaseId = active.leaseId
           /\ active'.fence = active.fence
           /\ active'.clientId = active.clientId
           /\ Identity(active') = Identity(active)
BY DEF LeaseInv, LeaseTypeOK, Leases, Identity

\* Whatever replaces the active lease, the ended ids stay below the last id.
LEMMA EndedBound ==
    ASSUME LeaseInv, NEW id2,
           ended' = IF active # NoLease /\ id2 # active.leaseId
                    THEN ended \cup {active.leaseId} ELSE ended
    PROVE  ended' \subseteq Nat /\ \A id \in ended' : id <= lastLeaseId
<1>1. active # NoLease => active.leaseId \in Nat /\ active.leaseId = lastLeaseId
    BY DEF LeaseInv, LeaseTypeOK, ActiveIsNewest
<1>2. /\ ended \subseteq Nat /\ lastLeaseId \in Nat
      /\ \A id \in ended : id <= lastLeaseId
    BY DEF LeaseInv, LeaseTypeOK
<1>3. CASE active # NoLease /\ id2 # active.leaseId
    <2>1. ended' = ended \cup {active.leaseId}
        BY <1>3
    <2>2. active.leaseId \in Nat /\ active.leaseId <= lastLeaseId
        BY <1>1, <1>2, <1>3
    <2>3. ended' \subseteq Nat
        BY <1>2, <2>1, <2>2
    <2>4. \A id \in ended' : id <= lastLeaseId
        BY <1>2, <2>1, <2>2
    <2>. QED  BY <2>3, <2>4
<1>4. CASE ~(active # NoLease /\ id2 # active.leaseId)
    BY <1>2, <1>4
<1>. QED  BY <1>3, <1>4

\* Such an operation preserves the invariant if it leaves lastCommand alone
\* or sets it to the holder's.
LEMMA KeptInv ==
    ASSUME LeaseInv, Kept,
           \/ lastCommand' = lastCommand
           \/ /\ active # NoLease
              /\ lastCommand' = [clientId |-> active.clientId, fence |-> active.fence]
    PROVE  LeaseInv'
<1>1. lastCommand' \in [clientId : Clients, fence : Nat \ {0}] \cup {NoCommand}
      /\ lastCommand'.fence <= nextFence
    BY DEF LeaseInv, LeaseTypeOK, ActiveIsNewest, Leases, NoLease
<1>2. CASE active' = NoLease
    <2>1. ended' \subseteq Nat /\ \A id \in ended' : id <= lastLeaseId
        BY EndedBound DEF Kept
    <2>. QED  BY <1>1, <1>2, <2>1 DEF LeaseInv, LeaseTypeOK, ActiveIsNewest, Kept
<1>3. CASE active # NoLease /\ \E t \in Nat : active' = [active EXCEPT !.expiresAt = t]
    <2>1. /\ active' \in Leases
          /\ active'.leaseId = active.leaseId
          /\ active'.fence = active.fence
          /\ active'.clientId = active.clientId
          /\ Identity(active') = Identity(active)
        BY <1>3, ExtendedFields
    <2>2. ended' = ended
        BY <2>1 DEF Kept
    <2>3. LeaseTypeOK'
        BY <1>1, <2>1, <2>2 DEF LeaseInv, LeaseTypeOK, Kept
    <2>4. ActiveIsNewest'
        BY <1>3, <2>1 DEF LeaseInv, ActiveIsNewest, Kept
    <2>5. (active # NoLease /\ lastCommand.fence = nextFence =>
               active.clientId = lastCommand.clientId)'
        BY <1>3, <2>1 DEF LeaseInv, ActiveIsNewest, Kept
    <2>. QED  BY <1>1, <1>3, <2>1, <2>2, <2>3, <2>4, <2>5 DEF LeaseInv, Kept
<1>. QED  BY <1>2, <1>3 DEF Kept

\* Minting preserves the invariant: the id and the fence are above all others.
LEMMA MintInv ==
    ASSUME LeaseInv, NEW c \in Clients, NEW ttl \in Ttls, Mint(c, ttl),
           UNCHANGED <<now, lastCommand>>
    PROVE  LeaseInv'
<1> DEFINE lease == [leaseId |-> lastLeaseId + 1, clientId |-> c,
                     fence |-> nextFence + 1, expiresAt |-> now + ttl]
<1>1. /\ nextFence' = nextFence + 1
      /\ lastLeaseId' = lastLeaseId + 1
      /\ active' = lease
      /\ granted' = granted \cup {Identity(lease)}
      /\ ended' = IF active # NoLease /\ lease.leaseId # active.leaseId
                  THEN ended \cup {active.leaseId} ELSE ended
    BY DEF Mint, SetActive
<1>2. lease \in Leases /\ Identity(lease) \in Identities
    BY LeaseAssumption DEF Leases, Identities, Identity, LeaseInv, LeaseTypeOK
<1>3. ended' \subseteq Nat /\ \A id \in ended' : id <= lastLeaseId
    BY <1>1, EndedBound
<1>4. LeaseTypeOK'
    BY <1>1, <1>2, <1>3 DEF LeaseInv, LeaseTypeOK
<1>5. ActiveIsNewest'
    BY <1>1 DEF ActiveIsNewest
<1>6. \A l \in granted' : l.leaseId <= lastLeaseId'
    BY <1>1 DEF LeaseInv, LeaseTypeOK, Identities, Identity
<1>7. \A id \in ended' : id <= lastLeaseId'
    BY <1>1, <1>3 DEF LeaseInv, LeaseTypeOK
<1>8. active'.leaseId \notin ended'
    BY <1>1, <1>3 DEF LeaseInv, LeaseTypeOK
<1>9. lastCommand'.fence <= nextFence' /\ lastCommand'.fence # nextFence'
    BY <1>1 DEF LeaseInv, LeaseTypeOK, NoCommand
<1>. QED  BY <1>4, <1>5, <1>6, <1>7, <1>8, <1>9 DEF LeaseInv

\* Every step preserves the inductive invariant.
LEMMA LeaseNextInv == LeaseInv /\ [LeaseNext]_leaseVars => LeaseInv'
<1> SUFFICES ASSUME LeaseInv, [LeaseNext]_leaseVars PROVE LeaseInv'
    OBVIOUS
<1>1. ASSUME NEW c \in Clients, AcquireExtends(c) PROVE LeaseInv'
    <2>1. Kept
        <3>1. Live = active /\ active # NoLease
            BY <1>1 DEF AcquireExtends, Live
        <3>2. PICK ttl \in Ttls : SetActive([active EXCEPT !.expiresAt = now + ttl])
            BY <1>1, <3>1 DEF AcquireExtends
        <3>3. now + ttl \in Nat
            BY LeaseAssumption DEF LeaseInv, LeaseTypeOK
        <3>. QED  BY <1>1, <3>1, <3>2, <3>3 DEF Kept, SetActive, AcquireExtends, LeaseInv, LeaseTypeOK
    <2>. QED  BY <1>1, <2>1, KeptInv DEF AcquireExtends
<1>2. ASSUME NEW c \in Clients, AcquireFree(c) PROVE LeaseInv'
    BY <1>2, MintInv DEF AcquireFree
<1>3. ASSUME NEW c \in Clients, AcquireSteals(c) PROVE LeaseInv'
    BY <1>3, MintInv DEF AcquireSteals
<1>4. ASSUME NEW c \in Clients, NEW l \in granted, Renew(c, l) PROVE LeaseInv'
    <2>1. Kept
        <3>1. Live = active /\ active # NoLease
            BY <1>4 DEF Renew, Matches, Live
        <3>2. PICK ttl \in Ttls : SetActive([active EXCEPT !.expiresAt = now + ttl])
            BY <1>4, <3>1 DEF Renew
        <3>3. now + ttl \in Nat
            BY LeaseAssumption DEF LeaseInv, LeaseTypeOK
        <3>. QED  BY <1>4, <3>1, <3>2, <3>3 DEF Kept, SetActive, Renew, LeaseInv, LeaseTypeOK
    <2>. QED  BY <1>4, <2>1, KeptInv DEF Renew
<1>5. ASSUME NEW c \in Clients, NEW l \in granted, Command(c, l) PROVE LeaseInv'
    <2>1. Live = active /\ active # NoLease /\ active.clientId = c /\ active.fence = l.fence
        BY <1>5 DEF Command, Matches, Live
    <2>2. active' = [active EXCEPT !.expiresAt = active.expiresAt]
          /\ active.expiresAt \in Nat
        BY <1>5, <2>1 DEF Command, SetActive, LeaseInv, LeaseTypeOK, Leases
    <2>3. Kept
        BY <1>5, <2>1, <2>2 DEF Command, SetActive, Kept, LeaseInv, LeaseTypeOK
    <2>. QED  BY <1>5, <2>1, <2>3, KeptInv DEF Command
<1>6. ASSUME NEW c \in Clients, NEW l \in granted, Release(c, l) PROVE LeaseInv'
    <2>1. Kept
        BY <1>6 DEF Release, SetActive, Kept, LeaseInv, LeaseTypeOK
    <2>. QED  BY <1>6, <2>1, KeptInv DEF Release
<1>7. ASSUME NEW c \in Clients, ReleaseClient(c) PROVE LeaseInv'
    <2>1. Kept
        BY <1>7 DEF ReleaseClient, SetActive, Kept, LeaseInv, LeaseTypeOK
    <2>. QED  BY <1>7, <2>1, KeptInv DEF ReleaseClient
<1>8. ASSUME Expire PROVE LeaseInv'
    <2>1. Kept
        BY <1>8, LiveCases DEF Expire, SetActive, Kept, LeaseInv, LeaseTypeOK
    <2>. QED  BY <1>8, <2>1, KeptInv DEF Expire
<1>9. ASSUME ForgetLease PROVE LeaseInv'
    <2>1. ended' \subseteq Nat /\ \A id \in ended' : id <= lastLeaseId
        BY <1>9, EndedBound DEF ForgetLease, SetActive
    <2>. QED  BY <1>9, <2>1 DEF ForgetLease, SetActive, LeaseInv, LeaseTypeOK, ActiveIsNewest, NoCommand
<1>10. ASSUME Clock PROVE LeaseInv'
    BY <1>10, LeaseAssumption DEF Clock, LeaseInv, LeaseTypeOK, ActiveIsNewest
<1>11. ASSUME UNCHANGED leaseVars PROVE LeaseInv'
    BY <1>11 DEF leaseVars, LeaseInv, LeaseTypeOK, ActiveIsNewest
<1>. QED  BY <1>1, <1>2, <1>3, <1>4, <1>5, <1>6, <1>7, <1>8, <1>9, <1>10, <1>11
          DEF LeaseNext, ClientStep

\* The inductive invariant holds of every behaviour.
THEOREM LeaseInvariant == LeaseSpec => []LeaseInv
BY LeaseInitInv, LeaseNextInv, PTL DEF LeaseSpec

-----------------------------------------------------------------------------

\* Type correctness of the lease manager and of its histories.
THEOREM LeaseTypeCorrect == LeaseSpec => []LeaseTypeOK
<1>1. LeaseInv => LeaseTypeOK
    BY DEF LeaseInv
<1>. QED  BY LeaseInvariant, <1>1, PTL

\* The lease in force is always the newest one minted.
THEOREM NewestInForce == LeaseSpec => []ActiveIsNewest
<1>1. LeaseInv => ActiveIsNewest
    BY DEF LeaseInv
<1>. QED  BY LeaseInvariant, <1>1, PTL

\* A lease that ended never validates again, whatever happens to the clock
\* and to the manager.
THEOREM EndedLeasesStayEnded == LeaseSpec => []EndedStaysEnded
<1>1. LeaseInv => EndedStaysEnded
    <2> SUFFICES ASSUME LeaseInv, NEW l \in granted, l.leaseId \in ended,
                        NEW c \in Clients, Matches(c, l)
                 PROVE  FALSE
        BY DEF EndedStaysEnded
    <2>1. active # NoLease /\ active.leaseId = l.leaseId
        BY LiveCases DEF Matches
    <2>. QED  BY <2>1 DEF LeaseInv
<1>. QED  BY LeaseInvariant, <1>1, PTL

\* Commands are let through in fence order, with a strictly higher fence
\* whenever the sender changed.
THEOREM CommandsAreFenced == LeaseSpec => CommandsFenced
<1> DEFINE Fenced ==
        lastCommand # NoCommand /\ lastCommand' # NoCommand =>
            /\ lastCommand'.fence >= lastCommand.fence
            /\ lastCommand'.clientId # lastCommand.clientId =>
                   lastCommand'.fence > lastCommand.fence
<1>1. ASSUME LeaseInv, [LeaseNext]_leaseVars PROVE [Fenced]_leaseVars
    <2>1. CASE \E c \in Clients, l \in granted : Command(c, l)
        <3>1. PICK c \in Clients, l \in granted : Command(c, l)
            BY <2>1
        <3>2. active # NoLease /\ active.clientId = c /\ active.fence = l.fence
            BY <3>1 DEF Command, Matches, Live
        <3>3. lastCommand'.fence = nextFence /\ lastCommand'.clientId = active.clientId
            BY <1>1, <3>1, <3>2 DEF Command, LeaseInv, ActiveIsNewest
        <3>. QED  BY <1>1, <3>2, <3>3 DEF LeaseInv, LeaseTypeOK, NoCommand
    <2>2. CASE lastCommand' = lastCommand \/ lastCommand' = NoCommand
        <3>1. lastCommand # NoCommand => lastCommand.fence \in Nat
            BY <1>1 DEF LeaseInv, LeaseTypeOK
        <3>. QED  BY <2>2, <3>1
    <2>. QED  BY <1>1, <2>1, <2>2
              DEF LeaseNext, ClientStep, leaseVars, AcquireExtends, AcquireFree, AcquireSteals,
                  Renew, Release, ReleaseClient, Expire, ForgetLease, Clock
<1>. QED  BY LeaseInvariant, <1>1, PTL DEF LeaseSpec, CommandsFenced
=============================================================================
