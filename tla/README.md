# PiPilot: a verification development

PiPilot lets a phone follow and steer *pi* coding sessions that run on a
computer. This directory holds TLA+ models of the protocols in between, the TLC
configurations that check them, and TLAPS proofs about the ones whose arguments
carry over to every number of sources, phones, sessions and processes.
`PROJECT.json` lists the runs, the source lines behind every definition, the
mutations each property detects, the hazards and the findings.

1. The system · 2. What is modelled, and how · 3. What the runs show ·
4. What is proved · 5. Findings · 6. Left out · 7. Plan

## 1. The system

| Part | Source | State | Operations |
|---|---|---|---|
| Desktop relay | `extension/src/relay.ts` (in the TUI) | socket, registered flag, heartbeat, epoch, sequence number, questions asked | connect and register, send events, snapshots on demand and unasked, resynchronise with a new epoch, run remote commands, publish questions |
| Hub: registry | `bridge/src/source_registry.ts` | one record per source: epoch, last number, snapshot, replay ring, lease manager | register, connect/disconnect, snapshot, record an event, answer a synchronisation, remove |
| Hub: leases | `bridge/src/owner_lease.ts` | active lease, fence counter | acquire (may steal), renew, validate, release, expire |
| Hub: server | `bridge/src/server.ts` | phone and desktop sockets, selections, requests in flight, snapshot requests, command queues, questions | every `hub_*` and `desktop_*` message, forwarding, timers, sweepers |
| Hub: pool | `bridge/src/pi_pool.ts` | processes by source id, claims by session | open, evict, close, restart after a crash, rebind, claims of TUIs |
| Hub: notifications | `bridge/src/notification_*.ts` | append-only log, acknowledgements, subscribers | append, prune, compact, page, go live, acknowledge |
| Phone: session | `lib/state/pi_session.dart`, `source_cursor.dart` | connection generation, cursor, conversation, buffer of events, resynchronisation timer, lease, requests | connect, select, synchronise, apply or buffer events, resynchronise, send commands |
| Phone: notifications | `lib/state/notification_controller.dart`, `lib/core/notification_*.dart`, Android services | own cursor, deduplication | subscribe, acknowledge, show |
| Peer-to-peer transfer | `bridge/src/p2p_host.ts` (DataChannelSocket), `p2p_transfer_v2.ts`, `p2p_transport.ts`, `lib/core/p2p_transfer_v2.dart` | three send queues, credit, transfers retained per phone, transfers put together | send in frames, retain, acknowledge, ask again, abort, expire, reassemble, resume |
| Peer-to-peer signalling | `rendezvous/src/server.ts`, `bridge/src/p2p_host.ts` (P2pHost), `lib/core/p2p_*.dart` | room with host and guests, chains of signals, peers | register, join, offer, answer, trickle, leave, renew credentials, reconnect |

How they interact. A relay opens a socket to the hub and registers a *source*
with a snapshot. It then sends numbered events. An *epoch* names one event
stream; numbers start again in a new epoch. The hub keeps the newest events of a
source in a ring and forwards each one to every phone that has the source
selected. A phone names its cursor, epoch and number, and the hub answers with
the events after it (`replay`) or with a snapshot and the events after that,
in pages. If the snapshot is too old to be joined with the ring, the hub first
asks the relay for another one and answers when that arrives or a timer fires.
Sessions that no TUI has open are run by processes of the hub's pool, which are
sources too; the hub numbers their events itself. A table of *claims* says who
has which session open. Phones send commands under a *lease* with a fence; the
ones that change a session's structure wait in a queue per source. When the
agent asks its user something, the relay holds the tool call up and lets the
phones that watch the source answer. The hub turns the edges of each source's
activity into *notifications*, logs them, and serves each phone's subscription
from the log. Away from the local network the same frames go over a WebRTC
channel, which phone and hub set up through the rendezvous server.

What is hard here:

- every handler is single-threaded, but the ones that `await` (registration,
  synchronisation, closing a process, forwarding a command) let others run in
  the middle, and what they read before may be stale after;
- sockets drop at any moment and the frames under way are lost, while what the
  other side still has in its queue arrives late: a replaced socket is closed,
  not silenced;
- both ends time out requests whose answers may still come;
- rings, buffers and pools have limits and drop or evict at them;
- epochs, numbers and cursors live in three programs and on the phone's disk,
  and must agree after any of them has started afresh.

What makes each part correct: the **registry** never answers a synchronisation
with anything but what follows the cursor; the **lease** never validates after
it has ended; **synchronisation** never loses an item in silence, never takes
back what is shown, unless it can be loaded again, and catches up in the end; the **pool** never has two
processes on one session and does not kill work in progress; **command routing**
executes a command at most once, under the lease it was sent under; a
**question** is answered once; a **notification** is neither lost nor repeated,
through crashes; a **transfer** delivers each message whole and once.

## 2. What is modelled, and how

| Module | Part | Extends |
|---|---|---|
| `ReplayRing` | a source's record and the pure operations on it | |
| `SourceRegistry` | the registry as the hub's handlers drive it, desktop and headless sources, hub restarts | `ReplayRing` |
| `ReplayWindow` | abstract: what clients may rely on of the registry | |
| `OwnerLease` | lease manager, hub commands and timers on it | |
| `SourceSync` | relay, hub and phone composed over four FIFO channels | `ReplayRing` |
| `SessionClaims` | the pool, and TUIs that take sessions from it | |
| `Commands` | phones, the hub's queue and table of requests, a pi process or a relay | |
| `AskRelay` | relay, hub and phones around the agent's questions | |
| `NotificationStore` | the notification log: records, memory, pruning, compaction | |
| `Notifications` | detector, log, subscription and the phone's engine composed | `NotificationStore` |
| `Transfer` | the hub's channel to a phone, and the phone's assembler | |
| `Signalling` | rendezvous server, the hub as host, phones as guests | |
| `SourceRegistryProofs` (with the lemmas about `ReplayRing` and the proofs about the lease manager a record holds), `SourceSyncProofs`, `SessionClaimsProofs`, `CommandsProofs`, `AskRelayProofs`, `NotificationsProofs`, `TransferProofs`, `SignallingProofs` | theorems | the module of that name, the first also `OwnerLease` |
| `MC...` | instances for TLC | the module of that name |

**ReplayRing.** The record of `source_registry.ts` is a TLA+ record; `ring` is a
function from numbers to events (epoch and size), for the parallel arrays
`events`, `eventBytes` and the running byte count. `Trim` is written as what the
trimming loop computes: the longest tail within both limits, and the newest
event in any case. Epochs are numbers that have not been used before, for
UUIDs; 0 stands for `undefined`.

**SourceRegistry.** One action for each path by which the server reaches the
registry. A relay's frames may be of any epoch it has used since the hub started
(`usedEpochs`), since a frame of a replaced socket is not told apart from one of
the current socket. `issued` is history: the headless events numbered so far.

**OwnerLease.** One action per hub command, plus the socket close, the timer and
the removal of the source with its manager (`ForgetLease`). Every operation that the
code starts with `expire()` starts with `Live`. The clock is a number that may
move either way, as `Date.now()` may. `granted` holds every identity a phone may
still present, `ended` and `lastCommand` are history.

**SourceSync.** The conversation is a list of items; an event brings one, a
snapshot all so far, of which the hub sends the phone a tail that fits the connection
(`Entries`, with `TailLimit` items) and the last summary before it; `phone.earlier` is
what comes before the list and can be loaded. The relay's actions are `RelayConnect`, `Produce`,
`ProduceTooLarge` (an update over the limit starts a new epoch instead),
`RelaySnapshot` and `RelayReceive`. The hub reads the relay's socket
(`HubReceive`), the phone's (`HubRequest`), and has its timers; a registration
is two actions (`HubRegisterStart`, `HubRegisterDone`) since the handler awaits
the claim in between, and so is a synchronisation that waits for a snapshot.
The phone's `stage` says which of the awaits of `_selectSource` and
`_syncSelectedSource` it is at; `gen` is the generation that voids answers to
abandoned runs; `timer`, `pending` and `resyncGen` are the resynchronisation
scheduler. `view` is the set of items on the screen, `leaf` the last one by
which a snapshot is recognised as a continuation. Four variables are history:
`log` (which item each number carried), `phone.base` (the epoch of the snapshot
under the list), `phone.gapped` (a gap has been adopted and no snapshot has come
since), `phone.skipped` (items between a summary that was taken for the old leaf and
the tail, section 5). A fifth, `barred`, holds the items produced between a
registration and its answer, which are in no event: see section 6.

**SessionClaims.** `entries` is the pool with each process's state, `claims` the
table. A session id stands for its file; an entry is `<<session, n>>`, with
`n > 0` for the `#n` names that are made when the plain one is taken. `session`
is what the pool has booked (`spec.sessionId`), `file` what the process really
has open, `args` what a restart would open. Closing a process that runs is two
actions, the order to stop (`Close`, `OpenNew` with an eviction, `ClaimLater`)
and the exit (`Exit`), and a TUI's registration that has to wait is continued in
`Exit`. `conn` is the hub's `DesktopClient` per socket. `displaced` and `rushed`
are history that name two exceptions the code makes: a process whose rebind
found the session taken, and a TUI that was let in while the process in its way
was still there (`close` of an entry that is already closing returns at once).

**Commands.** `cmd` is the list of commands the hub let in, each with the socket,
lease fence and epoch it came with, and where it is: `queued`, `pending` (in the
table of requests, with a timer), `settled`. `RunHead` is the continuation of
the queue's head after its `await`, with the checks that are repeated there. The
source is one of two: a pi process, which starts every line it reads, or a relay,
which runs one command at a time and checks epoch and fence itself. `running` holds
what the source executes and has yet to answer, `after` what it answered on acceptance
and executes still (the kind `detached`: `compact` in a TUI, `navigate_tree` in a pi
process). `said` counts the answers a phone was sent; a phone may have an old socket beside its current
one, and the close of a replaced socket cleans up nothing.

**AskRelay.** A question is held by the relay (`relay.ask`, with the claim or the
answer timer), by the hub (`hub.ask`) and by the phones (`card`); frames between
them are under way in FIFO channels. The link of relay and hub is local, so what
the relay wrote to a former socket is read before what it writes to the next one,
while the *close* of the former may be seen later (`gone`). A selection is two
actions, since the hub may await a snapshot in between, and a phone's former
connection is counted as a watcher until the hub notices (`ghosts`).

**NotificationStore, Notifications.** `load()` applies one record after the other,
so the file is represented by the store it would load, and an append by the same
`Apply` as in memory. A write is reported as done, fails, or is on disk although
reported as failed; `compact` replaces the file; `HubRestart` loads it again. The
detector's actions follow the paths by which a source's streaming flag changes:
its events, registrations and snapshots, the loss of its link. A subscription
reads pages of events and skipped numbers while live events are buffered. The
phone keeps the longest prefix without a hole (`through`, `got`) and saves it as
its cursor. Expiry removes any prefix of the log, tied to `window`. That is the moment
the app was put away, and the phone sends the time since: the hub takes that from its
own clock when the request arrives (`Anchored`), so the window begins then or later,
whatever ended while the request was under way included.

**Transfer.** A message is control (a ping or pong), interactive, plain or a transfer
(BEGIN, pages, DONE), and there is a queue for each of the first two and one for the
rest. Only an interactive message goes out directly, when queues and pump rest
(`Idle`); control messages are always queued (`SendPriority`), and the pump takes them
first. `PumpTakes` and `PumpSends` move frames while credit lasts; `held` is the frame
that has been taken already, and `pumping` holds until the turn of the event loop in
which the pump finds nothing left (`PumpRests`).
Losing the channel empties every queue, but not what is retained or half put
together. The bucket a channel holds on to may be removed from the table
(`listed`) by the sweep. `Enforced` is what the loop of `enforceCaps` comes to: the
parts are in the order of their last activity, so the ones that stay are the longest
tail that fits. The part just touched always fits (`PageCount <= PageLimit`): the
encoder refuses a message over `V2_MAX_MESSAGE_BYTES`, half of what the assembler may
hold, so the loop's last exit, which drops that part too, is not reached.

**Signalling.** The server's `cleanup`, `onHello` and `onSignal` are operators of
their own; the host's handlers run in chains per guest, so that each await of
`onSignal` (set the description, create the answer) is an action (`runs`). A guest
is one connection of a phone with several attempts. The host's connection is made,
welcomed, announced (`hello`) and admitted (ok) in four actions, and may be lost
between any two: `silent` says that the server has given it up without a close the
host can see, what was under way being lost or not.

## 3. What the runs show

| Run | Expect | Properties |
|---|---|---|
| `registry` | pass | TypeOK, RingContiguous, ReplayExact, SnapshotExact, LocalNumbersFresh, ImplementsWindow |
| `lease` | pass | EndedStaysEnded, CommandsFenced |
| `sync` | pass | TypeOK, RelayInSequence, CursorBacked, NoUnnoticedHole, ShownStaysShown |
| `sync_fair` | pass | CatchesUp |
| `claims` | pass | TypeOK, PoolClaimsReal, ProcessesOwnSessions, PoolBounded |
| `commands` | pass | TypeOK, AnsweredOnce, OverlapOnlyOnceLetGo, QueueNeverStuck, FencesInOrder |
| `asks` | pass | TypeOK, AnswersCount, CardsFollow |
| `notifications` | pass | TypeOK, PersistedIsOnDisk, CursorClaimsNothingUnseen, ReadyIsComplete, OneNoticePerTask, CatchesUp |
| `transfer` | pass | TypeOK, DeliveredOnceAndWhole, OrderKept, NothingWaitsInVain |
| `signalling` | pass | TypeOK, CandidatesReachTheirPeer, PeersCleaned, HostReturns |
| `claims_read_back`, `notif_reset` | violation | section 5 |

Each property is stated in words above its definition. The ones that need more:

- *ImplementsWindow* is a refinement: with `Window`, the epoch and the two ends
  of what can be replayed, the registry implements `ReplayWindow`. It says what
  no invariant says: within an epoch the window never moves back, and jumps only
  by emptying itself.
- *NoUnnoticedHole* relates the list on the screen to the cursor and to what was
  sent: a phone with a history that has not adopted a gap lacks nothing up to
  its cursor. Not lacking are the items before the list, which it offers to load;
  excepted are `barred` and `phone.skipped` (sections 6 and 5).
- *ShownStaysShown* judges lists with a leaf (`leaf # 0`): a list that was
  opened empty has nothing by which a snapshot could be seen to continue it.
  When so much has come that the old leaf is not among the entries sent, the list
  begins anew with the tail; then everything up to the leaf can be loaded, and the
  property asks for that (without it: `ShownStaysLoaded`, section 5). It excepts a list that is being rebuilt for another epoch (`Rebuilding`): when the
  ring has overtaken the cursor before the second page and the snapshot asked for does
  not come in time, the hub answers with the older snapshot, and `_applyHubSnapshot`,
  which the further pages call without `reconcile` as well, drops what the first page
  had shown beyond it. The late snapshot mends that, and `gapNotice` tells the user. It
  takes five items, two epochs, an overrun ring and a time-out, more than `sync` has
  room for; with room for that and without the exception TLC finds it.
- *CatchesUp* judges behaviours that stop short of the bound on epochs, since at
  the bound the model's relay can no longer do what the real one would, and
  phones whose selection the hub has (see the hazards for the one it has not). A
  synchronisation takes several pages, the buffer overflows, gaps are adopted, and a
  registration that a newer epoch has left without an answer is ended by the sweep, all
  in behaviours that are judged.
- *OverlapOnlyOnceLetGo* is what the structure queue keeps: two structure commands
  are executed at once only when the first has been answered on acceptance and runs on,
  or the hub has given up on it (its timer, or the socket of its sender). That the
  queue goes on in these cases, and so does not do what it is for, is in section 5.
- *AnswersCount* and *CardsFollow* judge questions of the present epoch once nothing
  is under way between relay and hub. They except the phones that lost their
  connection with a card on the screen, and a phone that handed a question back
  while the next one was arriving (section 5).
- *CursorClaimsNothingUnseen* is the contract behind the acknowledgement: the hub
  may prune what is acknowledged, so a cursor that has passed an event its phone
  never had means a lost notification. Excepted (`hist.slipped`) are events that ended
  after the app was put away and that the hub passes over for the window, which it
  anchors too late by the request's time on the way (section 5).
- *NothingWaitsInVain* says that every half-assembled transfer has its end, an abort
  or a request on the way; the exception (`hist.shunned`) is in section 5.
- *OrderKept* is per class: a control message overtakes queued interactive ones, and
  these overtake the bulk.
- *HostReturns* is liveness: infinitely often the host's connection is the room's. The
  one exception is the code's: until ok no timer runs at the host, so a connection
  that goes in silence before that is waited on for ever.

**Bounds, and why they are enough.** `registry`: one desktop and one headless
source (sources share nothing but the table), a ring of two events or three
bytes with events of one and two bytes, four numbers: both limits bite first in
some state, every stream outgrows the ring by two, and three epochs over two
hubs give old frames, new ones and a restart. `lease`: two phones, since a steal
involves two; three fences per manager and four leases over two managers, so that
the second manager hands out fences of the first again. `sync`: ring two, page
one, buffer one, a tail of two and the first of four items a summary, so that the ring
wraps, a synchronisation takes several pages, the buffer overflows, the old leaf is
before the tail, and the summary is sent along; one drop of either socket at any point,
one second selection or request that times out, one unasked snapshot, three epochs. All
of that at once is out of reach, so a CONSTRAINT keeps to two shapes (`Shapes` in
`MCSourceSync`): one epoch, where items and faults are four together (four items and no
fault, three and any one, two and any two), or several epochs with lost sockets but no
time-outs and at most three items, where items, drops and epochs are four together.
`sync_fair` has three items, page, buffer and tail one, two drops and no time-outs (a
selection that times out is given up, see the hazards). Its CONSTRAINT (`Judged`)
keeps to three epochs, where epochs and items are four together, and leaves out the
fourth, of which `CatchesUp` says nothing: three items in one epoch are three pages, a
buffer that overflows and gaps; three epochs with one item have room for an epoch that
begins before the registration of the first is answered, for the sweep that ends its
socket, since no heartbeat starts, and for the registration after that. `claims`: two sessions, a pool of two, one
TUI with two sockets (it reconnects while its old socket is still open), one
restart before the pool gives up, one numbered entry, one switch inside a
process. Of these `Shapes` of `MCSessionClaims` keeps one socket with a process that
crashes and switches, or both sockets with processes that do one of the two. With one session fewer nothing can be switched, with the pool full both
collide with every newcomer. `commands`: two phones, one of which changes
sockets, two commands, a queue of one, two fences and two epochs: each pair of
command, steal, close, time-out and loss of the source meets in every order.
`asks`: two phones, two questions, one mishap (a socket of the relay or of a phone
that drops, a new epoch, another session); the constraint `Shapes` of
`MCAskRelay` has two questions with one phone connected at a time, or one question
with two phones, both in front and with at most four frames under way to the relay
and the phones once something has gone wrong. `notifications`: one
source, two tasks, a log that compacts at two events, pages and buffer of one, one
failed write, restart or lost connection; `MCNotificationsTwoFaults.cfg` checks
the same safety properties with two. `transfer`: three messages of any kind, two
pages each, credit one, a queue of five frames, room for two transfers at either
end, and two lost channels: a transfer may be resumed twice, evicted, and meet a
full queue. `signalling`: two guests, two attempts, two names for the host's
connections used anew, one lost connection at either end, and a CONSTRAINT
(`OneStays`) under which one of the two guests at most has gone. The
symmetries used (phones, sessions, sockets) are of safety runs only, and the
definitions name no member of those sets.

**Fairness.** `SourceSync` has weak fairness of delivery on each channel
(`Delivered`: what is at its front arrives and is handled, or its socket drops), of the
registration's continuation after its await (Node's and Dart's event loops run what is
ready), of the phone's timer and the sweeper (timers fire), and of reconnecting (both
the relay and the phone retry with back-off for ever). `Notifications` has it of
the hub's and the phone's reading what has arrived and of the phone's connecting,
`Signalling` of the server's and the host's reading, of the closes they see, of
the host's reconnection and of the timer that renews its credentials; that timer
is armed by ok, and only if the server hands out TURN credentials (`HasTurn`): a
connection lost in silence without it is never replaced (section 5). Nothing is assumed of the
user, of new items, of drops, time-outs or of a relay that produces snapshots
unasked. Deadlock is checked for `lease`; in the other models a bounded system
that has used up its bounds and is level has nothing to do, so it is not.

## 4. What is proved

| Theorem | For every | Run property |
|---|---|---|
| `SourceRegistryProofs` (leases): LeaseTypeCorrect, NewestInForce, EndedLeasesStayEnded, CommandsAreFenced | set of clients and of ttls, clock, bounds | EndedStaysEnded, CommandsFenced (LeaseTypeOK and ActiveIsNewest are proved only) |
| `SourceRegistryProofs`: RegistryTypeCorrect, RingsAreContiguous, ReplaysAreExact, SnapshotsAreExact, LocalNumbersAreFresh | set of sources and sizes, ring limits, bounds | TypeOK, RingContiguous, ReplayExact, SnapshotExact, LocalNumbersFresh |
| `SourceRegistryProofs`: RegistryImplementsWindow | the same | ImplementsWindow |
| `SourceSyncProofs`: HubSeesNoHole, SyncTypeCorrect, CursorsBacked, HolesNoticed, ShownStays | items, epochs, drops, time-outs, ring, page, buffer and tail limits, any items as summaries | RelayInSequence, TypeOK, CursorBacked, NoUnnoticedHole, ShownStaysShown |
| `SessionClaimsProofs`: ClaimsTypeCorrect, ClaimsReal, ProcessesClaimed, PoolStaysBounded | set of sessions, TUIs and sockets, pool limit, bounds | TypeOK, PoolClaimsReal, ProcessesOwnSessions, PoolBounded |
| `CommandsProofs`: CommandsTypeCorrect, EveryCommandAnsweredOnce, QueueGoesOn, StructureCommandsOverlapLate, CommandsStartInFenceOrder | set of phones, kind of source, depth of the queues, bounds | TypeOK, AnsweredOnce, QueueNeverStuck, OverlapOnlyOnceLetGo, FencesInOrder |
| `AskRelayProofs`: AskTypeCorrect, AnswerCountsOnce, CardsFollowQuestions | set of phones, number of questions and mishaps | TypeOK, AnswersCount, CardsFollow |
| `NotificationsProofs`: NotificationsTypeCorrect, NoTaskNoticedTwice, ReadyMeansComplete | set of sources, sizes of log, page and buffer, bounds, torn writes included | TypeOK, OneNoticePerTask, ReadyIsComplete |
| `NotificationsProofs`: PersistedStaysOnDisk, CursorNeverOverclaims | the same, without torn writes | PersistedIsOnDisk, CursorClaimsNothingUnseen |
| `TransferProofs`: TransferTypeCorrect, DeliveriesAreWhole, OrderIsKept, NoPartStranded | number of pages, messages and lost channels, limits of queue, credit, bucket and assembler | TypeOK, DeliveredOnceAndWhole, OrderKept, NothingWaitsInVain |
| `SignallingProofs`: SignallingTypeCorrect, CandidatesArrive, PeersGoWithGuests | set of guests and of names of connections, attempts, losses, with and without TURN | TypeOK, CandidatesReachTheirPeer, PeersCleaned |

The assumptions are the named ones of the modules: the two kinds of sources are
disjoint, a ring holds at least one event, no client is `Nobody` and no phone is
called `desktop` or `open`, names of connections are positive numbers, a transfer has
no more pages than the assembler may hold, bounds are natural numbers. Each bound stays a parameter, so the theorems hold for any.
PersistedStaysOnDisk and CursorNeverOverclaims have one hypothesis more
(`Harmless`): no write stops in the middle of a line. With one PersistedIsOnDisk is
false of the code too (section 5), and the second theorem's argument starts from it.

- *Leases* (`LeaseInv`). That an ended lease stays ended is not inductive: one
  has to know that ended and granted ids are among those minted, that the lease
  in force has not ended, and that it is the newest; for the fence order, that
  the last command's fence is at most the counter, and that while the counter has
  not moved its sender is the holder. Every operation either keeps, extends,
  drops or mints (`Kept`, `MintInv`); a step of the first three kinds cannot
  disturb the rest.
- *Registry* (`RegistryInv`). Types, contiguity, and that epochs in use and issued
  numbers are among those minted, with issued numbers of the current stream at
  most `lastSeq`. Its first part proves each ring operation once for a single
  record (what it preserves and where the window goes), and each action of the
  registry is one such operation on one record. Exactness of the answers follows
  from contiguity alone. The refinement maps each action to `Start`, `Record`,
  `Rebase`, `Forget` or a stutter.
- *Synchronisation* (`SeqInv`). RelayInSequence speaks of the frame at the front
  of the channel; that it stays true depends on all that is behind it. So events
  and snapshots are numbered along the whole channel, the relay's number is that
  of its end, the hub's record that of its front, and a registration that the hub
  has not finished, or not answered, has nothing numbered behind it, whichever
  sockets were replaced meanwhile. Three lemmas say what appending to such a
  channel, reading from it and emptying it leave; every action of relay and hub is
  one of these. The phone plays no part.
- *History* (`HistoryInv`, same module). What the phone lacks is a matter of which
  items the numbers stand for. So the invariant has the history in it: the events of
  an epoch carry consecutive items, and while the relay's socket is open the last is
  the last one produced (but for those barred); a snapshot of items up to `u` at
  number `n` is sound if `u` and the events after `n` join up (`Joined`). It says of
  everything that holds a number (frames under way, the registration that waits, the
  hub's record, the answers of requests that wait for a snapshot, the messages to the
  phone, its buffer, its cursor, the one in storage) that it is recorded and sound,
  and of the phone that what it holds (shown, offered to load, or hidden by a summary:
  `Held`) joins up with its cursor unless a gap was adopted. What a clipped snapshot
  adds to that is one lemma (`EntriesSent`).
  Two facts are about order: epochs told to the phone do not go back (`QueueOK`), and
  nothing it holds is of a later epoch than what is still to come (`Behind`); without
  them a late answer could put an old number under a new list. All of this speaks of
  one record of the history (`World`). A step of the relay or the hub makes it grow
  (`Grows`), under which every part is stable; the phone's handlers leave it alone, and
  each is one lemma. They apply pages and buffers by folds: the fold is unrolled along
  an explicit function (`FoldKeeps`), and the sort before it by the existence of a
  sorting bijection (`SortExists`), so no induction over an operator is needed.
- *What is shown* (`ShowInv`, same module). ShownStaysShown is about single steps, but
  what a step does to the list depends on the message it hears. Two could cut the list:
  a list of the sources with another epoch, and an answer with a snapshot that does not
  go on from the leaf. The first changes the phone's epoch as well, if the phone's epoch
  is never past the one it was last told of: so everything the phone remembers is of
  epochs it has been told of (`Within`), and so is, in front of it on the way, everything
  still to come (`Listing`). The second needs that the answer to the phone's present
  synchronisation has at least the items up to its leaf: then the leaf is among the
  entries sent, and the list stays, or among those omitted, and it can be loaded. The hub's snapshots only grow
  (`Rising`), and of the phone's generation at most one request or answer is under way
  (`Turn`): to the hub, waiting there, or to the phone, so none was made before the leaf
  was. A generation begins fresh (`FreshFree`) and its answer, once heard, was the last of
  it. `Wire` is all that as a statement about three channels and a phone; a message more,
  a request taken up, those that waited answered, a message heard are a lemma each.
  Preparing this proof showed that the property, as it stood, was too strong: see
  `Rebuilding` in section 3. TLC checked `ShowInv` on the run's instance first.
- *Claims* (`ClaimsInv`, `PoolInv`). The two properties about claims are inductive
  together with the types and the fact that no entry has a number still to be
  handed out. Every action is one of four changes, each a lemma: the sessions stay
  as they are, an entry is forgotten with its claim (`Forgetting`), a TUI is given
  a session (`Awarding`) or lets it go (`Releasing`), a claim is made for a new
  entry (`Admitting`) or follows a process (`Moving`). The bound on the pool rests
  on a second invariant: a registration waits only for an entry that is closing,
  only `Exit` takes such an entry away, and only `OpenNew` makes a live one.
- *Commands* (`IInv`). None of the five properties is inductive. The queue holds, in
  order of arrival, the structure commands after the one under way; what is on the
  wire, in the relay's chain or at work is no longer in the queue and bears the fence
  of its command; and the fence of the last start, those in the chain, those on the
  wire and the newest lease's never go down, in this order. The last part carries
  FencesInOrder over the new epochs with which the relay forgets the highest fence
  it has seen: by then what it was told of is in the chain, or outdated.
- *Questions* (`IInv` of `AskRelayProofs`). A question reaches the hub at most once,
  over the socket on which the relay waits. The hub reads sockets in their order,
  so while a question waits over the present socket, the hub's current one is that
  socket or one it has read to the end. A phone's answer therefore goes out over
  the socket the relay listens to, and is in its queue until the relay takes it, in
  the epoch the question was asked in.
  CardsFollow needs a second invariant about the frames under way. `LinkInv`: the
  question the relay waits for is with the hub, on its way there, or its end is on
  the way back, and a question the hub has that the relay does not wait for is about
  to be handed back, for which the numbers of the questions have to rise along all
  sockets. `ScreenInv`: the hub's question is on the screen of every phone that was
  told, or in a frame after which nothing takes it away, and any other that is shown,
  or will be, has its retraction behind it. TLC checked both on the run's instance.
- *Notifications* (`DiskInv`, `NoticeInv`, `WireInv`, `CursorInv`). The first says of
  whole stores, file and memory, that both are well formed and what memory holds the
  file holds too; each operation on the log is shown to keep this for every outcome of
  its write. The second adds to OneNoticePerTask what can still happen to a task: one
  that runs has had no notice, and one that has had it, or was aborted, has left the
  detector idle with no snapshot under way that calls it running.
  `WireInv` adds the types, the buffer of a subscription that is not ready (all numbers
  since the tip its pages run to, unless it has overflowed), and of a ready one that
  each number up to the tip is below the phone's prefix, kept beyond it, or told by a
  frame under way; the page, the drained buffer and the pushed frames each close their
  part of that range.
  `CursorInv` has two halves. `BookInv`: the file has nothing below the next number
  that memory lacks, a persisted event is under its own number or nowhere, so that
  from one step to the next nothing appears below the tip (`Ahead`) unless the
  numbers go back. `Claims`: the phone's cursor, its prefix and what it keeps beyond
  it are seen; a page starts where everything is seen or told by a frame in front of
  it, which the FIFO channel guarantees; what a page or the drained buffer passes over
  is gone, older than the window, stale or slipped; a request for the next page is met where
  the frames under way end; and events under way are those of the log. Seen stays
  seen (`SeenMore`), and the rest is one lemma per handler. TLC checked `CursorInv` on
  the run's instance before it was proved.
- *Signalling* (`SigInv`). The properties look at the host's peers; the invariant also
  at what is on the way to them. Signals of a guest, in its chain and in the host's
  socket, are in the order of their attempts and past all that was started and
  handled; a peer without a description is in the hands of the handler of its offer,
  which no candidate overtakes; and a guest of which the host has missed nothing has
  told it of the attempt its candidates belong to, or joined while the host was out
  of the room, and once gone has `peer_left` as its last word. That a connection is not
  announced twice needs `Greeting`: a welcome is the first frame. `SigInv` was also
  checked by TLC on the run's instance before it was proved.

- *Transfers* (`IInv` of `TransferProofs`). The properties are about the phone; what
  will reach it is spread over the channel, the frame in hand, three queues, its own
  requests and the bucket. `LineInv` is about any two frames of which one is ahead: it
  is older, or a part of the same message, or the other one's transfer is sent again;
  and nothing of a message follows its end. `EndInv`: what is begun on the way has its
  DONE behind. The hard part is sending again, which repeats frames the phone may have
  had. It is harmless since nothing of a message is under way while the phone asks for
  it, and it asks once (`AskInv`): a request is made on DONE, the last frame, or at the
  hello, before anything else of the channel has come (`GreetInv`). So of what was handed
  up nothing is left anywhere (`GoneInv`), and what comes is newer (`AgeInv`); the order
  and the single delivery follow from these, and NothingWaitsInVain is inductive with
  `EndInv` and `AskInv`. Answering a request, a new message, a frame that only moves, a
  frame read without and with a message handed up are a lemma each. TLC checked the
  invariant on the run's instance first.

Only model-checked: liveness (CatchesUp of `SourceSync` and of `Notifications`,
HostReturns), which the provers at hand cannot treat. Every invariant and every
action property of the passing runs, and the refinement, is a theorem.

## 5. Findings

Two are runs of their own:

1. **Reading the state back after a switch has no effect** (`claims_read_back`,
   `bridge/src/server.ts:1205`). The question has no id, and answers without the
   id of a pending request are not looked at: the claim stays on the former
   session until a phone asks for the state itself, and the session that is now
   open can be opened a second time.
2. **Notification numbers start again** (`notif_reset`,
   `bridge/src/notification_event_store.ts:500`). The last number is derived from
   the events in the log. When all have expired, a start compacts them away, and
   the next one begins at 1 in the same event epoch.

The following can be reproduced with a configuration kept here
(`tlc -config X.cfg M`); each ends with the violation of the property named.

| Configuration, module | Property | What the code does |
|---|---|---|
| `MCSourceSyncGap.cfg`, `MCSourceSync` | GapBackfilled | on a gap the phone adopts and saves the new number; the resynchronisation starts from it, the hub answers `continuous`, the notice goes, and the skipped item is never fetched (`pi_session.dart:4228`; `source_cursor.dart:17-18` says it is filled in) |
| `MCSourceSyncEpoch.cfg`, `MCSourceSync` | EpochVoidsHistory | a selection after a reconnection takes over the new epoch but keeps number and history; if the synchronisation times out, a buffered event of the new epoch is applied to the old history (`pi_session.dart:1529`; `source_cursor.dart:14` says the history is void) |
| `MCSourceSyncClip.cfg`, `MCSourceSync` | ShownStaysLoaded | the hub sends the phone the tail of a snapshot (`server.ts:2266-2280`); when more has come since the old leaf than fits, the leaf is not in it and the list is built anew (`pi_session.dart:3310-3349`): what was shown and loaded before the tail goes and has to be loaded again. `pi_session.dart:3314-3315` says the present test no longer cuts loaded history |
| `MCSourceSyncSummary.cfg`, `MCSourceSync` | NoHoleAfterSummary | the last compaction or branch summary before the tail is sent along (`server.ts:1544-1556`); if it was the old leaf, the snapshot counts as its continuation, the list is kept, so is the place from which earlier items are loaded (`pi_session.dart:3372-3377`), and everything between the summary and the tail is missing in silence. `pi_session.dart:3313` asks for proof that the snapshot continues the old leaf |
| `MCSessionClaimsAlone.cfg`, `MCSessionClaims` | TuiWritesAlone | `releaseExternal` asks whether the holder is outside the pool and not whether it is the caller, so one TUI releases another's claim (`pi_pool.ts:87`; `README.md:83`) |
| `MCCommandsOverlap.cfg`, `MCCommands` | StructureNeverOverlaps | a TUI answers `compact` when it accepts it (`remote_commands.ts:107-131`, `relay.ts:1312`), a pi process gets `navigate_tree` as a prompt (`hub_protocol.ts:107-117`), and the queue then sends the next structure command to a source that still executes the last; so it does when a phone's socket closes (`server.ts:3337`) or the timer fires. `command_queue.ts:3-9` says they never interleave |
| `MCNotificationsTransit.cfg`, `MCNotifications` | CursorClaimsOnlySeen | the phone sends how long the app has been away (`NotificationProtocolEngine.kt:240`), and the hub takes that from its clock at receipt (`notification_protocol.ts:396-398`): what ended in between, less than the request's time on the way after the app was put away, is passed over (`461-465`), and the cursor passes it. `notification_protocol.ts:457-459` says the window is for completions the user has seen in front |
| `MCTransferResume.cfg`, `MCTransfer` | ResumeFindsKept | the sweep deletes the bucket of a phone whose channel is up but idle for five minutes; the next large transfer is kept in a bucket nobody can find (`p2p_host.ts:735`; `p2p_host.ts:662` says resumption works) |

Visible in the models, and excepted by name in the properties:

- `SessionClaims`: a switch forwarded to a process does not ask the claims
  (`server.ts:1179`); a process that switched its session is restarted with its
  original command line (`pi_pool.ts:106`, `151`); `close` of an entry that is
  already closing returns at once (`pi_pool.ts:232`), so that a TUI may be let in
  before the process is gone; a claim leaks when a TUI's socket closes while it is
  being registered (`server.ts:2906`), is replaced, or its user opens two sessions
  in quick succession (`server.ts:2966`).
- `AskRelay`: when the relay's socket drops, a question that waits is released only
  by the relay's timer, though the hub has cleared it; a replaced relay socket
  leaves the question at the hub (`server.ts:3216`); over a new epoch the hub tells
  the phone `delivered` and the relay drops the answer (`relay.ts:1213`); a phone
  may be told so although the relay had just given up; a phone that was away keeps
  a card whose question is over until it turns to the front or hands it back;
  `declineAsk` clears whatever card is there when its reply comes, the next
  question's too (`pi_session.dart:5029`).
- `Notifications`: a snapshot that calls a task running between the two end events
  makes a second generation, and so a second notification (`server.ts:811`); a
  stop between the record of a finished generation and its event loses the event;
  `flushPending` is never called. A half-written line, which the model of the file
  knows (`torn`) and the runs leave out, swallows the record after it.
- `Transfer`: a request for pages that does not fit the queue is answered by
  nothing (`p2p_host.ts:344`); an evicted assembly asks for nothing although the
  comment at `p2p_transfer_v2.ts:485` says so.
- `Signalling`: `peer_left` bypasses the chain of signals, so an offer that waits in
  it makes a peer for a guest that has left (`p2p_host.ts:853`, `899`); a host that
  loses the server in the middle is never told; answers carry no attempt, so a late
  one reaches the next attempt of the phone; candidates after `peer_left` stay in
  `pendingCandidatesByPeer`; a connection that goes in silence before its ok, or
  without TURN at any time, is never replaced: there is no handshake timeout and no
  ping from the host (`p2p_host.ts:783-813`, `830-841`).

## 6. Left out

In `SourceSync`: coalescing, loading earlier items, the relay's own cutting of large
snapshots (`relay.ts:1560-1569`), the local cache and its rebase anchor,
the leaf moving back (tree navigation), more than one source or phone, removal of
the source, restarts of hub and app, and the limit of 50 page rounds; the budget of
bytes is a number of items (`TailLimit`); saves of the cursor take effect at once; requests that join a
snapshot request already in flight share its timer. Items produced between a
registration and its answer (`barred`) reach the phone only with the next full
snapshot; the properties except them and the hazard is listed.

In `SessionClaims`: who watches a session and what is pending (any process that
does not stream may be evicted or closed), which candidate is the oldest,
registrations without a session id, shutdown.

In `Commands`: reads and commands refused on arrival (they change nothing), the
operation registry behind `hub_op_status`, answers to the dialogs of extensions,
the close of a pool process, removal of the source, a hub restart.

In `AskRelay`: malformed answers, more than one source, removal of the source.

In `Notifications`: requests for input, changes of a source's epoch, receipts (only
recorded by the hub), changes of the subscribed sources, limits in bytes, failing
tombstones, `unsubscribe`, the refusal of a subscription while the hub is busy
(`server.ts:2043-2058`), several phones (each has a subscription of its own); a
failed compaction leaves everything as it was.

In `Transfer`: the direction from phone to hub, the former chunked format, messages
over the limit, checksums, the re-anchoring of credit when the buffer grows.

In `Signalling`: ICE and its servers, pairing keys, the URL policy, several rooms,
stopping the hub. The server's forwarding is one step with the guest's sending.

Not modelled for good: WebRTC, mDNS, TLS and the operating system's notification
services (external), reading and listing session files (no protocol state), the
user interface, configuration, the generated platform projects.

## 7. Plan

Done: the modules of section 2 and the proofs of section 4. Next, in this order:

1. `Notifications`: an abstract stream (events appended, a cursor that follows) with
   the refinement of both ends; `BookInv` and `Claims` are what it would rest on.
2. The arbitration between the Android watcher and the app; the operation registry
   of `Commands`; a second phone and a hub restart in `SourceSync`.
