----------------------------- MODULE ReplayRing -----------------------------
(***************************************************************************)
(* One source record of the hub's registry and what the registry's methods *)
(* do to it (bridge/src/source_registry.ts).  The record keeps the epoch   *)
(* of the source's event stream, the last snapshot, and the replay ring:   *)
(* the tail of the events of that epoch, bounded in count and in bytes.    *)
(*                                                                         *)
(* The code keeps the ring in three parallel arrays in arrival order.      *)
(* Here it is a function from sequence numbers to events; that the two     *)
(* agree, i.e. that arrival order is sequence order without holes, is the  *)
(* invariant RingContiguous of module SourceRegistry.  An event's payload  *)
(* is only its epoch and its encoded size.                                 *)
(***************************************************************************)
EXTENDS Integers, FiniteSets, FiniteSetsExt, Functions

CONSTANTS
    ReplayCapacity,    \* events a ring may hold (1024 in the code)
    ReplayByteBudget   \* bytes a ring may hold (16 MiB in the code)

ASSUME RingAssumption ==
    /\ ReplayCapacity \in Nat \ {0}
    /\ ReplayByteBudget \in Nat

Epochs == Nat \ {0}              \* an epoch is a fresh UUID: a number never used before
Events == [epoch : Epochs, size : Nat]
EmptyRing == [n \in {} |-> [epoch |-> 1, size |-> 0]]
NoSnapshot == [epoch |-> 0, baseSeq |-> 0]
Snapshots == [epoch : Epochs, baseSeq : Nat] \cup {NoSnapshot}

IsRing(ring) ==
    /\ DOMAIN ring \subseteq Nat
    /\ ring = [n \in DOMAIN ring |-> ring[n]]
    /\ \A n \in DOMAIN ring : ring[n] \in Events

IsRecord(r) ==
    /\ r = [epoch |-> r.epoch, snapshot |-> r.snapshot, ring |-> r.ring,
            lastSeq |-> r.lastSeq, connected |-> r.connected]
    /\ r.epoch \in Epochs
    /\ r.snapshot \in Snapshots
    /\ IsRing(r.ring)
    /\ r.lastSeq \in Nat
    /\ r.connected \in BOOLEAN

-----------------------------------------------------------------------------
(* pushEvent: append, then drop from the front until the ring fits.        *)

Bytes(ring, seqs) == SumFunctionOnSet([n \in DOMAIN ring |-> ring[n].size], seqs)

\* The negation of the condition of pushEvent's while loop.
Fits(ring, seqs) ==
    /\ Cardinality(seqs) <= ReplayCapacity
    /\ Bytes(ring, seqs) <= ReplayByteBudget \/ Cardinality(seqs) <= 1

From(ring, k) == {n \in DOMAIN ring : n >= k}

\* The longest tail of the ring that fits.
Trim(ring) ==
    Restrict(ring, {n \in DOMAIN ring :
                        \E k \in DOMAIN ring : k <= n /\ Fits(ring, From(ring, k))})

AddEvent(ring, n, event) ==
    [m \in DOMAIN ring \cup {n} |-> IF m = n THEN event ELSE ring[m]]

Push(r, n, event) ==
    [r EXCEPT !.lastSeq = n, !.ring = Trim(AddEvent(r.ring, n, event))]

-----------------------------------------------------------------------------
(* The methods that change a record.                                       *)

\* Faulty variant of NewRecord: events numbered from zero.
NewRecordFromZero(epoch, connected) ==
    [epoch |-> epoch, snapshot |-> NoSnapshot, ring |-> EmptyRing,
     lastSeq |-> -1, connected |-> connected]

NewRecord(epoch, connected) ==
    [epoch |-> epoch, snapshot |-> NoSnapshot, ring |-> EmptyRing,
     lastSeq |-> 0, connected |-> connected]

\* Faulty variant of SwitchEpoch: everything is cleared, the epoch is not set.
SwitchEpochForgetful(r, epoch) ==
    IF epoch = r.epoch THEN r ELSE NewRecord(r.epoch, r.connected)

\* A new epoch voids the snapshot, the ring and the numbering.
SwitchEpoch(r, epoch) ==
    IF epoch = r.epoch THEN r ELSE NewRecord(epoch, r.connected)

\* Faulty variant of SetSnapshot: the ring of the former epoch is kept.
SetSnapshotKeepingRing(r, epoch, base) ==
    [r EXCEPT !.epoch = epoch,
              !.snapshot = [epoch |-> epoch, baseSeq |-> base],
              !.lastSeq = IF r.lastSeq >= base THEN r.lastSeq ELSE base,
              !.ring = Restrict(r.ring, {n \in DOMAIN r.ring : n > base})]

\* Faulty variant of SetSnapshot: a late snapshot takes the numbering back.
SetSnapshotRewinding(r, epoch, base) ==
    LET s    == SwitchEpoch(r, epoch)
        kept == {n \in DOMAIN s.ring : n > base}
    IN [s EXCEPT !.snapshot = [epoch |-> epoch, baseSeq |-> base],
                 !.lastSeq = base, !.ring = Restrict(s.ring, kept)]

SetSnapshot(r, epoch, base) ==
    LET s    == SwitchEpoch(r, epoch)
        kept == {n \in DOMAIN s.ring : s.ring[n].epoch = epoch /\ n > base}
    IN [s EXCEPT !.snapshot = [epoch |-> epoch, baseSeq |-> base],
                 !.lastSeq = IF s.lastSeq >= base THEN s.lastSeq ELSE base,
                 !.ring = Restrict(s.ring, kept)]

RecordLocalEvent(r, size) ==
    Push(r, r.lastSeq + 1, [epoch |-> r.epoch, size |-> size])

\* A desktop event carries its own epoch and number; both must fit.
Accepts(r, epoch, n) == epoch = r.epoch /\ n = r.lastSeq + 1

RecordDesktopEvent(r, epoch, n, size) ==
    Push(r, n, [epoch |-> epoch, size |-> size])

-----------------------------------------------------------------------------
(* The methods that answer a client.                                       *)

EventsAfter(r, seq) == {n \in DOMAIN r.ring : n > seq}

\* Faulty variant of CanReplay: off by one at the front of the ring.
CanReplayOneEarlier(r, seq) ==
    /\ seq <= r.lastSeq
    /\ IF DOMAIN r.ring = {} THEN seq = r.lastSeq
                             ELSE seq >= Min(DOMAIN r.ring) - 2

CanReplay(r, seq) ==
    /\ seq <= r.lastSeq
    /\ IF DOMAIN r.ring = {} THEN seq = r.lastSeq
                             ELSE seq >= Min(DOMAIN r.ring) - 1

\* Faulty variant of IsSnapshotContinuous: only the end is compared.
EndsAtLastSeq(r) ==
    LET later == EventsAfter(r, r.snapshot.baseSeq)
    IN /\ r.snapshot # NoSnapshot
       /\ r.snapshot.epoch = r.epoch
       /\ IF later = {} THEN r.lastSeq = r.snapshot.baseSeq
                        ELSE Max(later) = r.lastSeq

IsSnapshotContinuous(r) ==
    LET later == EventsAfter(r, r.snapshot.baseSeq)
    IN /\ r.snapshot # NoSnapshot
       /\ r.snapshot.epoch = r.epoch
       /\ IF later = {} THEN r.lastSeq = r.snapshot.baseSeq
                        ELSE /\ Min(later) = r.snapshot.baseSeq + 1
                             /\ Max(later) = r.lastSeq

\* The first number a client may be at and still be brought up to date.
Low(r) == IF DOMAIN r.ring = {} THEN r.lastSeq ELSE Min(DOMAIN r.ring) - 1

\* What hub_sync is answered: `matches' says the client's cursor is of this
\* hub process, this source and this epoch; `seq' is the cursor's number.
Sync(r, matches, seq) ==
    IF matches /\ CanReplay(r, seq)
    THEN [mode |-> "replay", baseSeq |-> seq,
          events |-> EventsAfter(r, seq), continuous |-> TRUE]
    ELSE IF r.snapshot # NoSnapshot
    THEN [mode |-> "snapshot", baseSeq |-> r.snapshot.baseSeq,
          events |-> EventsAfter(r, r.snapshot.baseSeq),
          continuous |-> IsSnapshotContinuous(r)]
    ELSE [mode |-> "rpc", baseSeq |-> r.lastSeq, events |-> {}, continuous |-> TRUE]

-----------------------------------------------------------------------------
(* What the operations keep true of a record: the ring is a run of numbers *)
(* that ends at lastSeq, all of the record's epoch, and the snapshot is of *)
(* that epoch and not ahead of lastSeq.                                    *)

Contiguous(r) ==
    /\ \E low \in 0 .. r.lastSeq : DOMAIN r.ring = (low + 1) .. r.lastSeq
    /\ \A n \in DOMAIN r.ring : r.ring[n].epoch = r.epoch
    /\ r.snapshot # NoSnapshot =>
           /\ r.snapshot.epoch = r.epoch
           /\ r.snapshot.baseSeq <= r.lastSeq
=============================================================================
