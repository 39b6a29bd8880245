----------------------------- MODULE SourceSync -----------------------------
(***************************************************************************)
(* One conversation on its way from the computer to the phone: the relay   *)
(* inside the TUI (extension/src/relay.ts) sends events and snapshots, the *)
(* hub (bridge/src/server.ts) keeps them in the source's record (module    *)
(* ReplayRing) and forwards the events, and the phone                      *)
(* (lib/state/pi_session.dart) selects the source, synchronises, applies   *)
(* the events, buffers those that arrive during a synchronisation, and     *)
(* schedules a resynchronisation whenever it notices that it is behind.    *)
(*                                                                         *)
(* The conversation is a growing list of items 1 .. produced.  An event    *)
(* carries one item, a snapshot all of them so far, of which the hub sends *)
(* the phone the last ones only; `log' remembers which item each event     *)
(* carried.  The four channels are the two sockets, FIFO in each           *)
(* direction; what is under way is lost when a socket drops.               *)
(*                                                                         *)
(* Left out: coalescing of streaming updates, the loading of earlier items *)
(* and their cutting by the relay, the local cache with its rebase anchor, *)
(* the leaf moving back, more than one source, phone or relay socket, the  *)
(* removal of the source, and a restart of the hub or of the app.  Saves   *)
(* of the phone's cursor take effect at once.                              *)
(***************************************************************************)
EXTENDS ReplayRing, Sequences, SequencesExt

CONSTANTS
    PageLimit,     \* events per hub_sync answer (64 KiB in the code)
    MaxBuffer,     \* events the phone buffers (2048 in the code)
    TailLimit,     \* items of a snapshot sent to the phone (1 MB or 128 KiB)
    Summaries,     \* the items that are summaries of what was compacted
    MaxItems,      \* bound: items ever produced
    MaxEpoch,      \* bound: epochs ever minted
    MaxDrops,      \* bound: times a socket drops
    MaxRetries,    \* bound: selections by the user and requests that time out
    MaxSnapshots   \* bound: snapshots the relay sends by itself

ASSUME SyncAssumption ==
    /\ {PageLimit, MaxBuffer, TailLimit} \subseteq Nat \ {0}
    /\ Summaries \subseteq Nat
    /\ {MaxItems, MaxEpoch, MaxDrops, MaxRetries, MaxSnapshots} \subseteq Nat

VARIABLES
    produced,    \* items in the conversation
    log,         \* history: [epochs minted -> sequence of the items its events carried]
    barred,      \* history: items produced between a registration and its answer
    relay,       \* the relay: socket, registered, heartbeat, epoch, seq
    up, down,    \* relay -> hub, hub -> relay
    desk,        \* the hub's view of the relay's socket: none, registering, registered
    registration, \* the desktop_register frame that is being reconciled
    rec, recUpto,\* the hub's record of the source, and the items of its snapshot
    selected,    \* the phone has selected the source
    asked,       \* id of the snapshot request in flight, or 0
    waiting,     \* requests of the phone that wait for that snapshot, oldest first
    toHub, toPhone,
    phone,       \* the phone's state
    drops, retries, snapshots  \* how much of the bounds is used

relayVars == <<produced, log, barred, relay>>
hubVars == <<desk, registration, rec, recUpto, selected, asked, waiting>>
bounds == <<drops, retries, snapshots>>
vars == <<relayVars, hubVars, up, down, toHub, toPhone, phone, bounds>>

NoRecord == [epoch |-> 0]
NoFrame == [kind |-> "none"]
NoCursor == [epoch |-> 0, seq |-> 0]

Init ==
    /\ produced = 0
    /\ log = <<>>
    /\ barred = {}
    /\ relay = [open |-> FALSE, registered |-> FALSE, beating |-> FALSE, epoch |-> 0, seq |-> 0]
    /\ up = <<>> /\ down = <<>> /\ toHub = <<>> /\ toPhone = <<>>
    /\ desk = "none" /\ registration = NoFrame
    /\ rec = NoRecord /\ recUpto = 0
    /\ selected = FALSE /\ asked = 0 /\ waiting = <<>>
    /\ phone = [conn |-> FALSE, gen |-> 0, stage |-> "none", reconcile |-> FALSE,
                epoch |-> 0, seq |-> 0, disk |-> NoCursor,
                hydrated |-> FALSE, view |-> {}, leaf |-> 0, earlier |-> 0, skipped |-> {},
                buffer |-> <<>>, overflowed |-> FALSE,
                timer |-> FALSE, pending |-> FALSE, resyncGen |-> 0,
                listed |-> 0, online |-> FALSE,
                gapNotice |-> FALSE, gapped |-> FALSE, base |-> 0, out |-> <<>>]
    /\ drops = 0 /\ retries = 0 /\ snapshots = 0

-----------------------------------------------------------------------------
(* The relay.                                                              *)

Frame(kind, epoch, seq, upto, id) ==
    [kind |-> kind, epoch |-> epoch, seq |-> seq, upto |-> upto, id |-> id]

\* newEpoch: a fresh epoch, numbered from zero again.
NewEpoch(registered) ==
    /\ Len(log) < MaxEpoch
    /\ log' = Append(log, <<>>)
    /\ relay' = [relay EXCEPT !.open = TRUE, !.registered = registered,
                              !.epoch = Len(log) + 1, !.seq = 0]

\* Faulty variants of SnapshotFrame: a number of its own for the snapshot, and a
\* branch captured before the events on hold are flushed.
SnapshotFrameNumbered(id) == Frame("snapshot", relay'.epoch, relay'.seq + 1, produced', id)
SnapshotFrameBeforeFlush(id) ==
    Frame("snapshot", relay'.epoch, relay'.seq,
          IF relay'.seq = 0 THEN produced' ELSE produced' - 1, id)

\* sendSnapshot, with the state of the relay after this step.
SnapshotFrame(id) == Frame("snapshot", relay'.epoch, relay'.seq, produced', id)

\* resnapshot: an epoch of its own, and the relay takes itself for registered.
Resnapshot ==
    /\ NewEpoch(TRUE)
    /\ up' = Append(up, SnapshotFrame(0))

\* connect, and the socket opens: the registration carries a snapshot.
RelayConnect ==
    /\ ~relay.open
    /\ NewEpoch(FALSE)
    /\ up' = <<Frame("register", relay'.epoch, 0, produced, 0)>>
    /\ UNCHANGED <<produced, barred, hubVars, down, toHub, toPhone, phone, bounds>>

\* sendEvent: nothing is sent, and nothing kept, before desktop_registered.
Produce ==
    /\ produced < MaxItems
    /\ produced' = produced + 1
    /\ IF relay.registered
       THEN /\ relay' = [relay EXCEPT !.seq = @ + 1]
            /\ log' = [log EXCEPT ![relay.epoch] = Append(@, produced')]
            /\ up' = Append(up, Frame("event", relay.epoch, relay'.seq, produced', 0))
            /\ UNCHANGED barred
       ELSE /\ barred' = IF relay.open THEN barred \cup {produced'} ELSE barred
            /\ UNCHANGED <<relay, log, up>>
    /\ UNCHANGED <<hubVars, down, toHub, toPhone, phone, bounds>>

\* An event that cannot be serialised is only in the snapshot of a new epoch.
\* A streaming update that is too large starts one as well, even before the
\* registration is answered.
ProduceTooLarge ==
    /\ \/ relay.registered /\ produced < MaxItems /\ produced' = produced + 1
       \/ relay.open /\ UNCHANGED produced
    /\ Resnapshot
    /\ UNCHANGED <<barred, hubVars, down, toHub, toPhone, phone, bounds>>

\* A snapshot sent by itself: after a change of state, or while streaming.
RelaySnapshot ==
    /\ relay.registered
    /\ snapshots < MaxSnapshots /\ snapshots' = snapshots + 1
    /\ UNCHANGED relayVars
    /\ up' = Append(up, SnapshotFrame(0))
    /\ UNCHANGED <<hubVars, down, toHub, toPhone, phone, drops, retries>>

\* handleHubMessage.
RelayRegistered(m) ==
    /\ m.kind = "registered"
    /\ UNCHANGED <<produced, log, barred>>
    /\ IF m.epoch = relay.epoch
       THEN /\ relay' = [relay EXCEPT !.registered = TRUE, !.beating = TRUE]
            /\ up' = Append(up, SnapshotFrame(0))
       ELSE UNCHANGED <<relay, up>>

RelayAsked(m) ==
    /\ m.kind = "request"
    /\ UNCHANGED relayVars
    /\ up' = Append(up, IF relay.registered THEN SnapshotFrame(m.id)
                        ELSE Frame("unavailable", 0, 0, 0, m.id))

RelayResync(m) ==
    /\ m.kind = "resync"
    /\ UNCHANGED <<produced, barred>>
    /\ Resnapshot

RelayReceive ==
    /\ relay.open /\ down # <<>>
    /\ down' = Tail(down)
    /\ RelayRegistered(Head(down)) \/ RelayAsked(Head(down)) \/ RelayResync(Head(down))
    /\ UNCHANGED <<hubVars, toHub, toPhone, phone, bounds>>

-----------------------------------------------------------------------------
(* The hub.                                                                *)

\* What goes to the phone if it is connected, or has selected the source.
Connected(msg) == IF phone.conn THEN <<msg>> ELSE <<>>
Subscribed(msg) == IF selected THEN <<msg>> ELSE <<>>

\* notifySourcesChanged, broadcastSnapshotAnnounce, broadcastSourceEvent.
SourcesMsg(r) == [kind |-> "sources", epoch |-> r.epoch, online |-> r.connected]
AnnounceMsg(m) == [kind |-> "announce", epoch |-> m.epoch, seq |-> m.seq, upto |-> m.upto]
EventMsg(m) == [kind |-> "event", epoch |-> m.epoch, seq |-> m.seq]

\* The answers to hub_select_source and hub_sync; the latter carries a prefix
\* of the events it should, and says whether there are more.
SelectAnswer(gen, ok, r) ==
    [kind |-> "selected", gen |-> gen, ok |-> ok, epoch |-> r.epoch]

\* The prefix of the events that fits into one answer.
Page(events) ==
    {n \in events : Cardinality({m \in events : m <= n}) <= PageLimit}

SyncAnswer(q, r, upto) ==
    LET sync == Sync(r, q.epoch = r.epoch, q.seq)
    IN [kind |-> "synced", gen |-> q.gen, ok |-> TRUE, mode |-> sync.mode,
        epoch |-> r.epoch, seq |-> sync.baseSeq, upto |-> upto,
        events |-> Page(sync.events), continuous |-> sync.continuous,
        more |-> Page(sync.events) # sync.events]

\* The source is not selected or not online.
SyncRefusal(q) == [kind |-> "synced", gen |-> q.gen, ok |-> FALSE]

\* settleSnapshotRequest: the reply named id (0: no name) to the request in
\* flight.  A hub_sync then computes its answer again if the snapshot came,
\* and keeps the answer it had if not.
Settles(id) == asked # 0 /\ id \in {0, asked}

Resumed(q, ok) ==
    IF q.kind = "select" THEN SelectAnswer(q.gen, TRUE, rec')
    ELSE IF ok THEN SyncAnswer(q, rec', recUpto')
    ELSE q.answer

Answers(id, ok) ==
    IF Settles(id) THEN [i \in DOMAIN waiting |-> Resumed(waiting[i], ok)] ELSE <<>>

\* Faulty variant of Settle: those that joined the request are not answered for.
SettleKeepingWaiters(id) ==
    IF Settles(id) THEN asked' = 0 /\ UNCHANGED waiting ELSE UNCHANGED <<asked, waiting>>

Settle(id) ==
    IF Settles(id) THEN asked' = 0 /\ waiting' = <<>> ELSE UNCHANGED <<asked, waiting>>

\* desktop_register: its claim on the session is reconciled first (an await) ...
HubRegisterStart ==
    /\ up # <<>> /\ Head(up).kind = "register"
    /\ desk' = "registering"
    /\ registration' = Head(up)
    /\ up' = Tail(up)
    /\ UNCHANGED <<relayVars, rec, recUpto, selected, asked, waiting, down, toHub,
                   toPhone, phone, bounds>>

\* ... and then the source is registered, with the snapshot of the frame.
HubRegisterDone ==
    /\ desk = "registering"
    /\ desk' = "registered" /\ registration' = NoFrame
    /\ rec' = SetSnapshot(NewRecord(registration.epoch, TRUE), registration.epoch, 0)
    /\ recUpto' = registration.upto
    /\ down' = Append(down, Frame("registered", registration.epoch, 0, 0, 0))
    /\ toPhone' = toPhone \o Connected(SourcesMsg(rec'))
    /\ UNCHANGED <<relayVars, selected, asked, waiting, up, toHub, phone, bounds>>

\* Frames that arrive before the registration is complete are refused.
HubRefuse(m) ==
    /\ desk # "registered"
    /\ UNCHANGED <<rec, recUpto, asked, waiting, down, toPhone>>

HubSnapshot(m) ==
    /\ m.kind = "snapshot" /\ desk = "registered"
    /\ rec' = SetSnapshot(rec, m.epoch, m.seq)
    /\ recUpto' = m.upto
    /\ Settle(m.id)
    /\ toPhone' = toPhone \o Subscribed(AnnounceMsg(m)) \o Connected(SourcesMsg(rec'))
                          \o Answers(m.id, TRUE)
    /\ UNCHANGED down

HubUnavailable(m) ==
    /\ m.kind = "unavailable" /\ desk = "registered"
    /\ UNCHANGED <<rec, recUpto, down>>
    /\ Settle(m.id)
    /\ toPhone' = toPhone \o Answers(m.id, FALSE)

\* desktop_event: recorded and forwarded, or the relay must start an epoch.
HubEvent(m) ==
    /\ m.kind = "event" /\ desk = "registered"
    /\ IF Accepts(rec, m.epoch, m.seq)
       THEN /\ rec' = RecordDesktopEvent(rec, m.epoch, m.seq, 0)
            /\ toPhone' = toPhone \o Subscribed(EventMsg(m))
            /\ UNCHANGED down
       ELSE /\ down' = Append(down, Frame("resync", 0, 0, 0, 0))
            /\ UNCHANGED <<rec, toPhone>>
    /\ UNCHANGED <<recUpto, asked, waiting>>

HubReceive ==
    /\ up # <<>> /\ Head(up).kind # "register"
    /\ up' = Tail(up)
    /\ LET m == Head(up)
       IN HubRefuse(m) \/ HubSnapshot(m) \/ HubUnavailable(m) \/ HubEvent(m)
    /\ UNCHANGED <<relayVars, desk, registration, selected, toHub, phone, bounds>>

\* requestDesktopSnapshot: join the request in flight, or send one with an id
\* that no reply under way carries.
FreshId == CHOOSE id \in 1 .. (Len(up) + Len(down) + 1) :
               /\ \A i \in DOMAIN up : up[i].id # id
               /\ \A i \in DOMAIN down : down[i].id # id

Ask(q) ==
    /\ waiting' = Append(waiting, q)
    /\ IF asked # 0 THEN UNCHANGED <<asked, down>>
       ELSE /\ asked' = FreshId
            /\ down' = Append(down, Frame("request", 0, 0, 0, FreshId))
    /\ UNCHANGED toPhone

\* The snapshot did not come within snapshotRequestTimeoutMs.
HubAskTimeout ==
    /\ asked # 0
    /\ retries < MaxRetries /\ retries' = retries + 1
    /\ UNCHANGED <<rec, recUpto>>
    /\ Settle(asked)
    /\ toPhone' = toPhone \o Answers(asked, FALSE)
    /\ UNCHANGED <<relayVars, desk, registration, selected, up, down, toHub, phone,
                   drops, snapshots>>

\* hub_select_source: a snapshot is asked for when the stored one does not
\* join the events, or when the source is streaming (which it may be).
HubSelect(q) ==
    /\ q.kind = "select"
    /\ IF ~rec.connected
       THEN toPhone' = Append(toPhone, SelectAnswer(q.gen, FALSE, rec))
                /\ UNCHANGED <<selected, asked, waiting, down>>
       ELSE /\ selected' = TRUE
            /\ \/ Ask(q)
               \/ /\ IsSnapshotContinuous(rec)
                  /\ toPhone' = Append(toPhone, SelectAnswer(q.gen, TRUE, rec))
                  /\ UNCHANGED <<asked, waiting, down>>

HubSync(q) ==
    LET answer == SyncAnswer(q, rec, recUpto)
    IN /\ q.kind = "sync"
       /\ IF ~(selected /\ rec.connected)
          THEN toPhone' = Append(toPhone, SyncRefusal(q))
                  /\ UNCHANGED <<asked, waiting, down>>
          ELSE IF answer.mode = "snapshot" /\ ~answer.continuous
          THEN Ask([kind |-> "sync", gen |-> q.gen, epoch |-> q.epoch, seq |-> q.seq,
                    answer |-> answer])
          ELSE toPhone' = Append(toPhone, answer) /\ UNCHANGED <<asked, waiting, down>>
       /\ UNCHANGED selected

HubRequest ==
    /\ toHub # <<>>
    /\ toHub' = Tail(toHub)
    /\ HubSelect(Head(toHub)) \/ HubSync(Head(toHub))
    /\ UNCHANGED <<relayVars, desk, registration, rec, recUpto, up, phone, bounds>>

\* The socket of the relay closes; the hub tells the phone if it was registered.
RelayClose ==
    /\ relay' = [relay EXCEPT !.open = FALSE, !.registered = FALSE, !.beating = FALSE]
    /\ up' = <<>> /\ down' = <<>>
    /\ desk' = "none" /\ registration' = NoFrame
    /\ IF desk = "registered"
       THEN /\ rec' = [rec EXCEPT !.connected = FALSE]
            /\ Settle(0)
            /\ toPhone' = toPhone \o Connected(SourcesMsg(rec')) \o Answers(0, FALSE)
       ELSE UNCHANGED <<rec, asked, waiting, toPhone>>
    /\ UNCHANGED <<produced, log, barred, recUpto, selected, toHub, phone, retries, snapshots>>

RelayDrop ==
    /\ relay.open
    /\ drops < MaxDrops /\ drops' = drops + 1
    /\ RelayClose

\* desktopSweeper: a relay that never was answered for its epoch sends no
\* heartbeat, and the hub terminates a socket that stays silent.
HubSweep ==
    /\ relay.open /\ ~relay.beating
    /\ up = <<>> /\ down = <<>>
    /\ desk = "registered"
    /\ UNCHANGED drops
    /\ RelayClose

-----------------------------------------------------------------------------
(* The phone.  Its handlers are functions from state to state; the frames  *)
(* a handler sends are collected in `out'.                                 *)

Active(p) == p.stage # "none"      \* _activeSyncGeneration != 0

\* A generation no request under way carries stands for ++_syncGeneration.
GensInUse ==
    {toHub[i].gen : i \in DOMAIN toHub} \cup {waiting[i].gen : i \in DOMAIN waiting}
        \cup {toPhone[i].gen : i \in {j \in DOMAIN toPhone :
                                         toPhone[j].kind \in {"selected", "synced"}}}
        \cup {phone.resyncGen}
FreshGen == CHOOSE g \in 1 .. (Cardinality(GensInUse) + 1) : g \notin GensInUse

\* _scheduleSourceResync.
Schedule(p) ==
    IF Active(p) \/ p.resyncGen # 0 THEN [p EXCEPT !.pending = TRUE]
    ELSE IF p.conn THEN [p EXCEPT !.timer = TRUE]
    ELSE p

\* What was put off during a synchronisation is scheduled when it ends.
ReleasePending(p) ==
    IF p.pending /\ ~Active(p) /\ p.resyncGen = 0
    THEN Schedule([p EXCEPT !.pending = FALSE]) ELSE p

\* A synchronisation or selection is over: _activeSyncGeneration = 0.
Idle(p) == [p EXCEPT !.stage = "none", !.gen = 0, !.reconcile = FALSE]

Request(kind, gen, epoch, seq) == [kind |-> kind, gen |-> gen, epoch |-> epoch, seq |-> seq]

\* _syncSelectedSource up to its request: the stored cursor is loaded and sent
\* only on top of a history that is complete up to it.
Syncing(p, forced, gen) ==
    LET q == [p EXCEPT !.stage = "sync", !.gen = gen]
    IN IF forced \/ ~p.hydrated \/ p.disk = NoCursor
       THEN [q EXCEPT !.out = Append(@, Request("sync", gen, 0, 0))]
       ELSE [q EXCEPT !.epoch = p.disk.epoch, !.seq = p.disk.seq,
                      !.out = Append(@, Request("sync", gen, p.disk.epoch, p.disk.seq))]

\* selectSource up to its request.
Selecting(p, gen) ==
    [p EXCEPT !.stage = "select", !.gen = gen, !.reconcile = TRUE, !.buffer = <<>>,
              !.out = Append(@, Request("select", gen, 0, 0))]

\* _saveHubCursor.
Saved(p) == [p EXCEPT !.disk = [epoch |-> p.epoch, seq |-> p.seq]]

\* _applySequencedEvent, once it is not buffered: an event that leaves numbers
\* out is adopted, with a notice, and a resynchronisation is scheduled.
Ingest(p, e) ==
    Saved([p EXCEPT !.epoch = e.epoch, !.seq = e.seq, !.view = @ \cup {log[e.epoch][e.seq]}])

\* Faulty variant of ApplyEvent: any later event is taken for the next.
ApplyLater(p, e) ==
    IF p.epoch # 0 /\ e.epoch # p.epoch THEN Schedule(p)
    ELSE IF e.seq <= p.seq THEN p
    ELSE Ingest(p, e)

ApplyEvent(p, e) ==
    IF p.epoch # 0 /\ e.epoch # p.epoch THEN Schedule(p)
    ELSE IF e.seq <= p.seq THEN p
    ELSE IF e.seq = p.seq + 1 THEN Ingest(p, e)
    ELSE Schedule([Ingest(p, e) EXCEPT !.gapNotice = TRUE, !.gapped = TRUE])

\* _bufferSourceEvent: the oldest give way.
Buffered(p, e) ==
    IF Len(p.buffer) < MaxBuffer THEN [p EXCEPT !.buffer = Append(@, e)]
    ELSE [p EXCEPT !.buffer = Append(Tail(@), e), !.overflowed = TRUE]

\* _drainBufferedEvents: the events are sorted by their numbers.
InOrder(events) ==
    LET places == DOMAIN events
        from   == CHOOSE f \in Bijection(places, places) :
                      \A i, j \in places : i < j => events[f[i]].seq <= events[f[j]].seq
    IN [i \in places |-> events[from[i]]]

Drain(p) ==
    LET q == FoldLeft(ApplyEvent, [p EXCEPT !.buffer = <<>>], InOrder(p.buffer))
    IN IF p.overflowed THEN Schedule([q EXCEPT !.overflowed = FALSE]) ELSE q

\* _resetConversation: the old history is void.
Reset(p) ==
    [p EXCEPT !.view = {}, !.hydrated = FALSE, !.gapNotice = FALSE, !.gapped = FALSE,
              !.earlier = 0, !.skipped = {}]

\* clipEntriesForMobile: of the snapshot's items the phone gets the last ones,
\* and the last summary among those omitted.
Omitted(upto) == IF upto > TailLimit THEN upto - TailLimit ELSE 0
Entries(upto) ==
    LET before == Summaries \cap 1 .. Omitted(upto)
    IN (Omitted(upto) + 1) .. upto \cup {s \in before : \A t \in before : t <= s}

\* Faulty variant of SameBranch, the test the code once had: the new leaf must be
\* on the list already.
SameBranchKnown(p, m) == p.reconcile /\ p.leaf # 0 /\ m.upto \in p.view

\* _applyHubSnapshot: an empty snapshot never replaces a conversation, and one
\* that has the old leaf among its entries only adds to it; any other begins the
\* list anew and says how much comes before it (hasMoreHistory).  A summary sent
\* along may be the old leaf: what is between it and the rest is `skipped'.
SameBranch(p, m) == p.reconcile /\ p.leaf # 0 /\ p.leaf \in Entries(m.upto)

\* Faulty variant of ApplySnapshot: the cursor's number is never taken back.
ApplySnapshotForward(p, m) ==
    IF m.upto = 0 /\ p.view # {} THEN Schedule(p)
    ELSE LET kept  == IF SameBranch(p, m) THEN p ELSE Reset(p)
             merge == kept.hydrated
         IN [kept EXCEPT !.view = @ \cup Entries(m.upto), !.hydrated = TRUE, !.gapped = FALSE,
                         !.base = m.epoch,
                         !.earlier = IF merge THEN @ ELSE Omitted(m.upto),
                         !.skipped = IF merge THEN @ \cup (p.leaf + 1) .. Omitted(m.upto) ELSE @,
                         !.leaf = IF m.upto = 0 THEN @ ELSE m.upto,
                         !.epoch = m.epoch, !.seq = IF @ >= m.seq THEN @ ELSE m.seq]

ApplySnapshot(p, m) ==
    IF m.upto = 0 /\ p.view # {} THEN Schedule(p)
    ELSE LET kept  == IF SameBranch(p, m) THEN p ELSE Reset(p)
             merge == kept.hydrated
         IN [kept EXCEPT !.view = @ \cup Entries(m.upto), !.hydrated = TRUE, !.gapped = FALSE,
                         !.base = m.epoch,
                         !.earlier = IF merge THEN @ ELSE Omitted(m.upto),
                         !.skipped = IF merge THEN @ \cup (p.leaf + 1) .. Omitted(m.upto) ELSE @,
                         !.leaf = IF m.upto = 0 THEN @ ELSE m.upto,
                         !.epoch = m.epoch, !.seq = m.seq]

\* _syncSelectedSource from its answer on: snapshot, then events, and the
\* notice of a gap is over once the hub says that nothing is missing.
Applied(p, m) ==
    LET based  == IF m.mode = "snapshot" THEN ApplySnapshot(p, m) ELSE p
        events == SetToSeq({[epoch |-> m.epoch, seq |-> n] : n \in m.events})
        caught == FoldLeft(ApplyEvent, based, InOrder(events))
    IN Saved([caught EXCEPT !.gapNotice = @ /\ ~m.continuous])

\* The synchronisation ends: what was buffered is applied, and what was put off
\* during it is scheduled.
Finished(p) ==
    ReleasePending([Drain(Idle(p))
                        EXCEPT !.resyncGen = IF @ = p.gen THEN 0 ELSE @])

OnSelected(p, m) ==
    IF ~(p.stage = "select" /\ m.gen = p.gen) THEN p
    ELSE IF ~m.ok THEN Idle(p)
    ELSE Syncing([p EXCEPT !.epoch = m.epoch], TRUE, p.gen)

OnSynced(p, m) ==
    IF ~(p.stage = "sync" /\ m.gen = p.gen)
    THEN IF m.gen = p.resyncGen THEN ReleasePending([p EXCEPT !.resyncGen = 0]) ELSE p
    ELSE IF ~m.ok THEN Finished([p EXCEPT !.pending = TRUE])
    ELSE IF m.more THEN Syncing(Applied(p, m), FALSE, p.gen)
    ELSE Finished(Applied(p, m))

OnEvent(p, m) ==
    LET e == [epoch |-> m.epoch, seq |-> m.seq]
    IN IF Active(p) THEN Buffered(p, e) ELSE ApplyEvent(p, e)

\* _onSourceSnapshotAnnounced.
OnAnnounce(p, m) ==
    IF p.epoch # 0 /\ m.epoch # p.epoch THEN Schedule(p)
    ELSE IF m.seq < p.seq THEN p
    ELSE IF m.seq > p.seq \/ m.upto \notin {0, p.leaf} THEN Schedule(p)
    ELSE p

\* Faulty variant of OnSources: another epoch is noted and nothing else.
OnSourcesNoting(p, m) ==
    LET seen == [p EXCEPT !.listed = m.epoch, !.online = m.online, !.epoch = m.epoch]
    IN IF ~p.online /\ m.online /\ m.epoch = p.listed
       THEN Syncing([seen EXCEPT !.reconcile = TRUE], TRUE, FreshGen)
       ELSE seen

\* handleSourcesChanged: another epoch voids the history; a source that is
\* back in its old epoch is synchronised again.
OnSources(p, m) ==
    LET seen == [p EXCEPT !.listed = m.epoch, !.online = m.online]
    IN IF p.listed # 0 /\ m.epoch # p.listed
       THEN Syncing([Reset(seen) EXCEPT !.leaf = 0, !.buffer = <<>>, !.reconcile = FALSE,
                                        !.epoch = m.epoch, !.seq = 0], TRUE, FreshGen)
       ELSE IF ~p.online /\ m.online
       THEN Syncing([seen EXCEPT !.epoch = m.epoch, !.reconcile = TRUE], TRUE, FreshGen)
       ELSE [seen EXCEPT !.epoch = m.epoch]

Become(p) ==
    /\ phone' = [p EXCEPT !.out = <<>>]
    /\ toHub' = toHub \o p.out

PhoneReceive ==
    /\ toPhone # <<>>
    /\ toPhone' = Tail(toPhone)
    /\ LET m == Head(toPhone)
       IN \/ m.kind = "event"    /\ Become(OnEvent(phone, m))
          \/ m.kind = "announce" /\ Become(OnAnnounce(phone, m))
          \/ m.kind = "sources"  /\ Become(OnSources(phone, m))
          \/ m.kind = "selected" /\ Become(OnSelected(phone, m))
          \/ m.kind = "synced"   /\ Become(OnSynced(phone, m))
    /\ UNCHANGED <<relayVars, hubVars, up, down, bounds>>

\* The resynchronisation timer fires.
PhoneTimer ==
    /\ phone.timer
    /\ LET p == [phone EXCEPT !.timer = FALSE]
       IN IF ~p.conn THEN Become(p)
          ELSE IF Active(p) THEN Become([p EXCEPT !.pending = TRUE])
          ELSE Become(Syncing([p EXCEPT !.resyncGen = FreshGen, !.reconcile = TRUE],
                              FALSE, FreshGen))
    /\ UNCHANGED <<relayVars, hubVars, up, down, toPhone, bounds>>

\* The phone connects, lists the sources and selects the one it had, which
\* must be listed as online.
PhoneConnect ==
    /\ ~phone.conn
    /\ rec # NoRecord /\ rec.connected
    /\ Become(Selecting([phone EXCEPT !.conn = TRUE, !.listed = rec.epoch, !.online = TRUE],
                        FreshGen))
    /\ UNCHANGED <<relayVars, hubVars, up, down, toPhone, bounds>>

\* The user selects the source again.
PhoneReselect ==
    /\ phone.conn
    /\ retries < MaxRetries /\ retries' = retries + 1
    /\ Become(Selecting(phone, FreshGen))
    /\ UNCHANGED <<relayVars, hubVars, up, down, toPhone, drops, snapshots>>

\* A request of the phone gets no answer in time: a selection is given up, a
\* synchronisation is scheduled again.
PhoneTimeout ==
    /\ Active(phone)
    /\ retries < MaxRetries /\ retries' = retries + 1
    /\ IF phone.stage = "select" THEN Become(Idle(phone))
       ELSE Become(Finished([phone EXCEPT !.pending = TRUE]))
    /\ UNCHANGED <<relayVars, hubVars, up, down, toPhone, drops, snapshots>>

\* The socket of the phone drops; what it has shown stays on the screen.
PhoneDrop ==
    /\ phone.conn
    /\ drops < MaxDrops /\ drops' = drops + 1
    /\ phone' = [Idle(phone) EXCEPT !.conn = FALSE, !.buffer = <<>>,
                              !.pending = @ /\ phone.resyncGen = 0, !.resyncGen = 0]
    /\ toHub' = <<>> /\ toPhone' = <<>>
    /\ selected' = FALSE /\ waiting' = <<>>
    /\ UNCHANGED <<relayVars, desk, registration, rec, recUpto, asked, up, down,
                   retries, snapshots>>

-----------------------------------------------------------------------------

RelayStep ==
    RelayConnect \/ Produce \/ ProduceTooLarge \/ RelaySnapshot \/ RelayReceive \/ RelayDrop

HubStep == HubRegisterStart \/ HubRegisterDone \/ HubReceive \/ HubAskTimeout \/ HubRequest \/ HubSweep

PhoneStep ==
    PhoneReceive \/ PhoneTimer \/ PhoneConnect \/ PhoneReselect \/ PhoneTimeout \/ PhoneDrop

Next == RelayStep \/ HubStep \/ PhoneStep

\* A frame under way arrives (or its socket drops), and is handled.
Delivered(channel) == channel # <<>> /\ channel' = Tail(channel)

\* Sockets deliver, handlers finish, timers fire and both ends reconnect.
Fairness ==
    /\ WF_up(Delivered(up)) /\ WF_down(Delivered(down))
    /\ WF_toHub(Delivered(toHub)) /\ WF_toPhone(Delivered(toPhone))
    /\ WF_vars(RelayConnect) /\ WF_vars(HubRegisterDone) /\ WF_vars(HubSweep)
    /\ WF_vars(PhoneTimer) /\ WF_vars(PhoneConnect)

Spec == Init /\ [][Next]_vars
FairSpec == Spec /\ Fairness

-----------------------------------------------------------------------------
(* Properties.                                                             *)

Cursors == [epoch : 0 .. MaxEpoch, seq : 0 .. MaxItems]

\* Every variable keeps its shape, the hub's record is one the registry could
\* hold, and at most one frame registers at a time (state of relay.ts,
\* server.ts and pi_session.dart).
TypeOK ==
    /\ produced \in 0 .. MaxItems
    /\ log \in Seq(Seq(1 .. MaxItems)) /\ Len(log) <= MaxEpoch
    /\ barred \subseteq 1 .. MaxItems
    /\ relay \in [open : BOOLEAN, registered : BOOLEAN, beating : BOOLEAN,
                  epoch : 0 .. Len(log), seq : 0 .. MaxItems]
    /\ desk \in {"none", "registering", "registered"}
    /\ (desk = "registering") <=> (registration # NoFrame)
    /\ rec = NoRecord \/ (IsRecord(rec) /\ Contiguous(rec))
    /\ recUpto \in 0 .. produced
    /\ selected \in BOOLEAN /\ asked \in Nat
    /\ waiting # <<>> => asked # 0
    /\ phone.stage \in {"none", "select", "sync"}
    /\ phone.view \subseteq 1 .. produced
    /\ phone.leaf \in 0 .. produced
    /\ phone.earlier \in 0 .. produced /\ phone.skipped \subseteq 1 .. produced
    /\ [epoch |-> phone.epoch, seq |-> phone.seq] \in Cursors
    /\ phone.disk \in Cursors
    /\ Len(phone.buffer) <= MaxBuffer
    /\ phone.out = <<>>

\* A relay never shows the hub a hole: the next event of the epoch the hub has
\* is always numbered one past its record, over snapshots asked for and
\* unasked, new epochs and reconnections; desktop_event may refuse an event
\* only for its epoch (relay.ts sendEvent, flush before every snapshot).
RelayInSequence ==
    \A i \in DOMAIN up :
        up[i].kind = "event" /\ desk = "registered" /\ up[i].epoch = rec.epoch
            /\ (\A j \in 1 .. (i - 1) : up[j].kind # "event")
        => up[i].seq = rec.lastSeq + 1

\* The phone's cursor never runs ahead of what the hub has recorded of that
\* epoch, in memory or on disk, so that the hub can tell what it lacks: every
\* cursor of the epoch of the last snapshot applied.
CursorBacked ==
    \A c \in {[epoch |-> phone.epoch, seq |-> phone.seq], phone.disk} :
        phone.hydrated /\ c.epoch = phone.base =>
            /\ c.seq <= Len(log[c.epoch])
            /\ c.epoch = rec.epoch => c.seq <= rec.lastSeq

\* The items a phone with a history should show: every one up to the last that
\* it has been told of, but for the earlier ones that it can load.
Told ==
    {phone.leaf} \cup
        {log[phone.epoch][i] : i \in 1 .. phone.seq}
Missing ==
    {i \in (phone.earlier + 1) .. produced : i \notin phone.view /\ \E last \in Told : i <= last}

\* The phone has a history, of the epoch its cursor is of.
Based == phone.hydrated /\ phone.epoch = phone.base

\* A phone with a history lacks nothing up to its cursor unless it has adopted
\* a gap: no order of snapshots, pages, buffered and live events, announcements
\* and reconnections leaves out an item in silence.  Excepted are items produced
\* while the registration is answered, which are in no event, and those between a
\* summary that was the old leaf and the entries it came along with.
NoUnnoticedHole ==
    Based /\ ~phone.gapped => Missing \subseteq barred \cup phone.skipped

\* Without the second exception: a list that holds the old leaf is taken to go on
\* from it (pi_session.dart:3313: "补齐式重同步要证明「新快照延续了本地旧 leaf」").
NoHoleAfterSummary ==
    Based /\ ~phone.gapped => Missing \subseteq barred

\* The notice of a gap is over only when the gap is filled (pi_session.dart:
\* "先把能看到的显示出来,再后台补齐" and "hub 明确告知已连续 → 补齐成功").
GapBackfilled ==
    Based /\ ~phone.gapNotice => Missing \subseteq barred \cup phone.skipped

\* Another epoch voids the history (source_cursor.dart: "epoch 变了,整段历史作废,
\* 必须重新同步"): the stored cursor is never of an epoch later than that of the
\* snapshot under it.
EpochVoidsHistory ==
    phone.hydrated => phone.disk.epoch = phone.base

\* The list is being built anew for another epoch (_syncSelectedSource without
\* reconcile, which its further pages inherit).
Rebuilding == phone.stage = "sync" /\ ~phone.reconcile

\* What the phone shows stays while the epoch does: a reconnection, a second
\* selection, a resynchronisation or an announcement never clears the list or
\* cuts it (pi_session.dart: selectSource and _applyHubSnapshot) -- unless so much
\* has come since the old leaf that it is not among the entries sent, and then all
\* up to it is there to be loaded.  A list that was opened empty has no leaf by
\* which to tell that it goes on, and while a list is rebuilt page by page a page
\* may come with an older snapshot.
ShownStaysShown ==
    [][phone.hydrated /\ phone.leaf # 0 /\ phone'.epoch = phone.epoch /\ ~Rebuilding
           => phone.view \subseteq phone'.view \/ phone.leaf <= phone'.earlier]_phone

\* Without that exception: no announcement cuts the history that was loaded
\* (pi_session.dart:3314-3315: the former test did on every announcement,
\* "每次 announce 都会误重建并裁掉已加载历史").
ShownStaysLoaded ==
    [][phone.hydrated /\ phone.leaf # 0 /\ phone'.epoch = phone.epoch /\ ~Rebuilding
           => phone.view \subseteq phone'.view]_phone

\* The phone is level with the hub, on top of a complete history.
Level ==
    /\ phone.hydrated
    /\ phone.epoch = relay.epoch /\ rec.epoch = relay.epoch
    /\ phone.seq = relay.seq /\ rec.lastSeq = relay.seq

\* When the disruptions end, a connected phone whose selection the hub has
\* comes level with the relay and stays so: no schedule of timers, pending
\* resynchronisations and registrations leaves it behind.  (Behaviours that use
\* up the bound on epochs are not judged.)
CatchesUp ==
    <>[](phone.conn /\ selected /\ Len(log) < MaxEpoch => Level)
=============================================================================
