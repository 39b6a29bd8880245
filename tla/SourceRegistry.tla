--------------------------- MODULE SourceRegistry ---------------------------
(***************************************************************************)
(* The hub's registry of event sources (class SourceRegistry) as the       *)
(* handlers of bridge/src/server.ts drive it.  Desktop sources are relays  *)
(* inside a TUI: they choose epochs, numbers and snapshots.  Headless      *)
(* sources are processes of the hub's own pool: the hub numbers their      *)
(* events and never has a snapshot of them.                                *)
(*                                                                         *)
(* A replaced desktop socket is closed, not silenced, and its frames are   *)
(* not compared with the current socket: a frame of any epoch the source   *)
(* has used since the hub started may still arrive.                        *)
(*                                                                         *)
(* Leases, which a record also holds, are module OwnerLease.               *)
(***************************************************************************)
EXTENDS ReplayRing

CONSTANTS
    DesktopSources,
    HeadlessSources,
    EventSizes,      \* encoded sizes an event may have
    MaxSeq,          \* bound: numbers used in an epoch
    MaxEpoch,        \* bound: epochs ever minted
    MaxHub           \* bound: hub processes ever started

ASSUME RegistryAssumption ==
    /\ DesktopSources \cap HeadlessSources = {}
    /\ EventSizes \subseteq Nat
    /\ {MaxSeq, MaxEpoch, MaxHub} \subseteq Nat

VARIABLES
    hubId,       \* this hub process (a fresh UUID per process)
    records,     \* [registered sources -> record]
    lastEpoch,   \* epochs minted so far, by relays and by the hub
    usedEpochs,  \* [DesktopSources -> epochs the relay has used with this hub]
    issued       \* history: <<hub, source, epoch, seq>> of every headless event

vars == <<hubId, records, lastEpoch, usedEpochs, issued>>

Sources == DesktopSources \cup HeadlessSources
Registered == DOMAIN records

TypeOK ==
    /\ hubId \in Epochs
    /\ Registered \subseteq Sources
    /\ records = [s \in Registered |-> records[s]]
    /\ \A s \in Registered : IsRecord(records[s])
    /\ lastEpoch \in Nat
    /\ usedEpochs \in [DesktopSources -> SUBSET Epochs]
    /\ issued \subseteq Epochs \X HeadlessSources \X Epochs \X Epochs

Init ==
    /\ hubId = 1
    /\ records = [s \in {} |-> NewRecord(1, FALSE)]
    /\ lastEpoch = 0
    /\ usedEpochs = [s \in DesktopSources |-> {}]
    /\ issued = {}

-----------------------------------------------------------------------------
(* Helpers.                                                                *)

Put(s, r) ==
    records' = [x \in Registered \cup {s} |-> IF x = s THEN r ELSE records[x]]

\* register: the same epoch keeps snapshot, ring and numbering.
Register(s, epoch, connected) ==
    IF s \in Registered /\ records[s].epoch = epoch
    THEN [records[s] EXCEPT !.connected = connected]
    ELSE NewRecord(epoch, connected)

FreshEpoch(epoch) ==
    /\ lastEpoch < MaxEpoch
    /\ epoch = lastEpoch + 1
    /\ lastEpoch' = epoch

\* The epoch a frame of desktop s carries: used before, or just minted.
DesktopEpoch(s, epoch) ==
    \/ epoch \in usedEpochs[s] /\ UNCHANGED <<lastEpoch, usedEpochs>>
    \/ FreshEpoch(epoch) /\ usedEpochs' = [usedEpochs EXCEPT ![s] = @ \cup {epoch}]

\* recordLocalEvent on a record that is about to be stored.
PutWithEvent(s, r, size) ==
    LET pushed == RecordLocalEvent(r, size)
    IN /\ r.lastSeq < MaxSeq
       /\ Put(s, pushed)
       /\ issued' = issued \cup {<<hubId, s, pushed.epoch, pushed.lastSeq>>}

-----------------------------------------------------------------------------
(* Desktop sources (handleDesktopMessage, socket close, desktopSweeper).   *)

\* desktop_register, once the session claim is settled: register, then store
\* the snapshot that came with it.
DesktopRegister(s) ==
    \E epoch \in 1 .. MaxEpoch, base \in 0 .. MaxSeq :
        /\ DesktopEpoch(s, epoch)
        /\ Put(s, SetSnapshot(Register(s, epoch, TRUE), epoch, base))
        /\ UNCHANGED <<hubId, issued>>

\* desktop_snapshot, on demand or after the relay changed epoch.
DesktopSnapshot(s) ==
    /\ s \in Registered
    /\ \E epoch \in 1 .. MaxEpoch, base \in 0 .. MaxSeq :
           /\ DesktopEpoch(s, epoch)
           /\ Put(s, SetSnapshot(records[s], epoch, base))
    /\ UNCHANGED <<hubId, issued>>

\* desktop_event: an event that does not fit is refused, and the relay is
\* told to resynchronise; the record does not change.
DesktopEvent(s) ==
    /\ s \in Registered
    /\ \E epoch \in usedEpochs[s], n \in 1 .. MaxSeq, size \in EventSizes :
           /\ Accepts(records[s], epoch, n)
           /\ Put(s, RecordDesktopEvent(records[s], epoch, n, size))
    /\ UNCHANGED <<hubId, lastEpoch, usedEpochs, issued>>

DesktopClosed(s) ==
    /\ s \in Registered
    /\ Put(s, [records[s] EXCEPT !.connected = FALSE])
    /\ UNCHANGED <<hubId, lastEpoch, usedEpochs, issued>>

\* A desktop offline for desktopPruneMs is removed.
DesktopPrune(s) ==
    /\ s \in Registered
    /\ ~records[s].connected
    /\ records' = Restrict(records, Registered \ {s})
    /\ UNCHANGED <<hubId, lastEpoch, usedEpochs, issued>>

-----------------------------------------------------------------------------
(* Headless sources (ensureSession and the pool's callbacks).              *)

\* registerHeadlessSource: offline, until a process is started for it.  (When
\* no process can be opened ensureSession withdraws it in the same call.)
HeadlessRegister(s) ==
    /\ s \notin Registered
    /\ \E epoch \in 1 .. MaxEpoch : FreshEpoch(epoch) /\ Put(s, NewRecord(epoch, FALSE))
    /\ UNCHANGED <<hubId, usedEpochs, issued>>

\* onSpawn: a fresh epoch, connected, and the event bridge_pi_start.
HeadlessSpawn(s) ==
    /\ s \in Registered /\ ~records[s].connected
    /\ \E epoch \in 1 .. MaxEpoch, size \in EventSizes :
           /\ FreshEpoch(epoch)
           /\ PutWithEvent(s, [SwitchEpoch(records[s], epoch) EXCEPT !.connected = TRUE], size)
    /\ UNCHANGED <<hubId, usedEpochs>>

\* onLine, bridge_dir_switched and extension_ui_answered.
HeadlessEvent(s) ==
    /\ s \in Registered
    /\ \E size \in EventSizes : PutWithEvent(s, records[s], size)
    /\ UNCHANGED <<hubId, lastEpoch, usedEpochs>>

\* onExit, hub_close_session and the handoff to a desktop.
HeadlessOffline(s) ==
    /\ s \in Registered
    /\ Put(s, [records[s] EXCEPT !.connected = FALSE])
    /\ UNCHANGED <<hubId, lastEpoch, usedEpochs, issued>>

\* The registry lives in memory: a restarted hub starts from nothing.
HubRestart ==
    /\ hubId < MaxHub
    /\ hubId' = hubId + 1
    /\ records' = [s \in {} |-> NewRecord(1, FALSE)]
    /\ usedEpochs' = [s \in DesktopSources |-> {}]
    /\ UNCHANGED <<lastEpoch, issued>>

DesktopStep(s) ==
    \/ DesktopRegister(s)
    \/ DesktopSnapshot(s)
    \/ DesktopEvent(s)
    \/ DesktopClosed(s)
    \/ DesktopPrune(s)

HeadlessStep(s) ==
    \/ HeadlessRegister(s)
    \/ HeadlessSpawn(s)
    \/ HeadlessEvent(s)
    \/ HeadlessOffline(s)

Next ==
    \/ \E s \in DesktopSources : DesktopStep(s)
    \/ \E s \in HeadlessSources : HeadlessStep(s)
    \/ HubRestart

Spec == Init /\ [][Next]_vars

-----------------------------------------------------------------------------
(* Properties.                                                             *)

\* The ring holds a run of consecutive numbers that ends at lastSeq, all of
\* the record's epoch, and a snapshot is of that epoch too: no interleaving of
\* late frames, snapshots and epoch changes leaves a hole, a leftover of a
\* former stream, or a number beyond the newest (pushEvent, filterEvents,
\* setSnapshot, setConnected, register).
RingContiguous == \A s \in Registered : Contiguous(records[s])

\* Whatever number a client's cursor holds, when hub_sync answers `replay' it
\* hands over exactly the events that follow the cursor: none missing at the
\* front (canReplay against a trimmed ring), none at the end.
ReplayExact ==
    \A s \in Registered : \A seq \in 0 .. MaxSeq :
        LET answer == Sync(records[s], TRUE, seq)
        IN answer.mode = "replay" =>
               answer.events = (seq + 1) .. records[s].lastSeq

\* A snapshot announced as continuous really joins the events sent with it:
\* base and events together reach lastSeq without a hole.
SnapshotExact ==
    \A s \in Registered :
        LET answer == Sync(records[s], FALSE, 0)
        IN answer.mode = "snapshot" /\ answer.continuous =>
               answer.events = (answer.baseSeq + 1) .. records[s].lastSeq

\* A headless event never gets a number that another event of the same hub,
\* source and epoch already has, however often the process is restarted and
\* the source withdrawn and registered again: a client's cursor names one event.
LocalNumbersFresh ==
    [][\A s \in HeadlessSources :
           s \in DOMAIN records' =>
               LET r == records'[s]
               IN \/ r.lastSeq = 0
                  \/ s \in Registered /\ r.epoch = records[s].epoch
                                      /\ r.lastSeq = records[s].lastSeq
                  \/ <<hubId', s, r.epoch, r.lastSeq>> \notin issued]_vars

\* What a client sees of the rings is the abstract replay window.
Window == INSTANCE ReplayWindow WITH
    window <- [s \in Registered |->
                  [epoch |-> records[s].epoch,
                   low   |-> Low(records[s]),
                   high  |-> records[s].lastSeq]]

\* The registry implements the replay window: within an epoch it never moves
\* back, and it never jumps over events without emptying the ring.
ImplementsWindow == Window!Spec
=============================================================================
