------------------------------ MODULE Commands ------------------------------
(***************************************************************************)
(* A phone's command on its way to one source and back: the checks of the  *)
(* hub (bridge/src/server.ts), its queue of structure commands             *)
(* (command_queue.ts), the table of requests under way with their timers,  *)
(* and what the source does with them: a pi process, which starts every    *)
(* line it reads, or the relay in a TUI (extension/src/relay.ts), which    *)
(* runs one at a time and checks fence and epoch itself.                   *)
(*                                                                         *)
(* Reads need no lease and change nothing; they are left out, and so are   *)
(* the commands the hub refuses on arrival: it answers them there. A       *)
(* result on its way back is a command that still runs. Some structure     *)
(* commands (detached ones) are answered when the source accepts them and  *)
(* run on: compact in a TUI, navigate_tree in a pi process, which gets it  *)
(* as a prompt. Ids of requests are fresh, so the relay's tables of known  *)
(* requests never hit.                                                     *)
(***************************************************************************)
EXTENDS Integers, SequencesExt

CONSTANTS Clients,
          Roaming,     \* the phones whose sockets close or are replaced
          Nobody,      \* the client id of no client
          Kinds,       \* of the source: "headless", "desktop"
          MaxDepth,    \* MAX_COMMAND_QUEUE
          MaxCommands, MaxSockets, MaxFence, MaxEpochs  \* bounds

ASSUME CommandsAssumption ==
  /\ Nobody \notin Clients /\ Roaming \subseteq Clients
  /\ Kinds \subseteq {"headless", "desktop"}
  /\ {MaxDepth, MaxCommands, MaxFence} \subseteq Nat
  /\ {MaxSockets, MaxEpochs} \subseteq Nat \ {0}

VARIABLES
  kind,      \* of the source
  link,      \* the process runs, or the TUI's socket is open
  epoch,     \* the source's epoch as the hub knows it
  sock,      \* sockets of each phone: the current one, the replaced ones still open
  lease,     \* holder, fence (0: nobody's), fences handed out so far
  cmd,       \* the commands the hub let in, in order of arrival
  queue,     \* the source's queue of structure commands; the head may be under way
  wire,      \* frames from the hub to the source
  relay,     \* the relay in the TUI
  running,   \* commands the source executes and has yet to answer
  after,     \* commands it has answered and executes still
  last       \* history: the fence of the command started last

vars == <<kind, link, epoch, sock, lease,
          cmd, queue, wire, relay, running, after, last>>

Works == {"plain", "structure", "detached"}
Structure(i) == cmd[i].kind # "plain"
Desktop == kind = "desktop"
Pending == {i \in DOMAIN cmd : cmd[i].at = "pending"}
Fence == 0..MaxFence

TypeOK ==
  /\ kind \in Kinds /\ link \in BOOLEAN
  /\ epoch \in 0..MaxEpochs /\ last \in Fence
  /\ sock \in [Clients -> [now : 0..MaxSockets, old : SUBSET (1..MaxSockets), made : 0..MaxSockets]]
  /\ lease \in [client : Clients \cup {Nobody}, fence : Fence, made : Fence]
  /\ \A i \in DOMAIN cmd :
       cmd[i] \in [client : Clients, sock : 1..MaxSockets,
                   kind : Works, fence : Fence \ {0},
                   epoch : 0..MaxEpochs, at : {"queued", "pending", "settled"}, said : 0..2]
  /\ Len(cmd) <= MaxCommands /\ running \cup after \subseteq DOMAIN cmd
  /\ IsInjective(queue) /\ \A n \in DOMAIN queue : queue[n] \in DOMAIN cmd
  /\ \A n \in 2..Len(queue) : cmd[queue[n]].at = "queued"
  /\ Len(relay.chain) <= MaxDepth

Init ==
  /\ kind \in Kinds /\ link = TRUE /\ epoch = 1
  /\ sock = [c \in Clients |-> [now |-> 1, old |-> {}, made |-> 1]]
  /\ lease = [client |-> Nobody, fence |-> 0, made |-> 0]
  /\ cmd = <<>> /\ queue = <<>> /\ wire = <<>>
  /\ relay = [epoch |-> 1, owner |-> 0, highest |-> 0, chain |-> <<>>]
  /\ running = {} /\ after = {} /\ last = 0

---------------------------------------------------------------------------
(* The table of requests *)

\* A response reaches the phone only while its socket is the one in use.
Told(r) == IF sock[r.client].now = r.sock THEN r.said + 1 ELSE r.said

\* The request leaves the table: answered, or dropped without a word.
Answered(r) == [r EXCEPT !.at = "settled", !.said = Told(r)]
Dropped(r) == [r EXCEPT !.at = "settled"]

\* settle: the end of a request always lets the queue go on. Only the command at
\* its head is in the table.
Released(ids) == IF queue # <<>> /\ Head(queue) \in ids THEN Tail(queue) ELSE queue

Answer(ids) ==
  /\ cmd' = [i \in DOMAIN cmd |-> IF i \in ids THEN Answered(cmd[i]) ELSE cmd[i]]
  /\ queue' = Released(ids)

\* failPendingForSource that forgets to release the queue.
AnswerKeepsQueue(ids) ==
  /\ cmd' = [i \in DOMAIN cmd |-> IF i \in ids THEN Answered(cmd[i]) ELSE cmd[i]]
  /\ UNCHANGED queue

Frame(i, r) == [id |-> i, epoch |-> r.epoch, fence |-> r.fence]
Status(f) == [id |-> 0, epoch |-> 0, fence |-> f]

\* pushDesktopStatus: who drives, for the relay's own checks.
Push(f) == wire' = IF Desktop /\ link THEN Append(wire, Status(f)) ELSE wire

Valid(r) == lease.client = r.client /\ lease.fence = r.fence

---------------------------------------------------------------------------
(* Phones *)

\* A new socket takes the place of the old one, whose frames still count.
PhoneConnects(c) ==
  /\ c \in Roaming /\ sock[c].made < MaxSockets
  /\ sock' = [sock EXCEPT ![c] = [now |-> @.made + 1, made |-> @.made + 1,
                                  old |-> IF @.now = 0 THEN @.old ELSE @.old \cup {@.now}]]
  /\ UNCHANGED <<kind, link, epoch, lease, cmd, queue, wire, relay, running, after, last>>

\* The close of a replaced socket cleans up as if it were the current one.
ReplacedCleansUp(c) ==
  /\ \E n \in sock[c].old : sock' = [sock EXCEPT ![c].old = @ \ {n}]
  /\ cmd' = [i \in DOMAIN cmd |->
       IF i \in Pending /\ cmd[i].client = c THEN Dropped(cmd[i]) ELSE cmd[i]]
  /\ queue' = Released({i \in Pending : cmd[i].client = c})
  /\ UNCHANGED <<kind, link, epoch, lease, wire, relay, running, after, last>>

\* The close of a replaced socket cleans nothing up.
ReplacedCloses(c) ==
  /\ \E n \in sock[c].old : sock' = [sock EXCEPT ![c].old = @ \ {n}]
  /\ UNCHANGED <<kind, link, epoch, lease, cmd, queue, wire, relay, running, after, last>>

NoLease == [lease EXCEPT !.client = Nobody, !.fence = 0]

\* The phone's current socket closes: its lease ends, its requests are dropped.
CurrentCloses(c) ==
  LET mine == {i \in Pending : cmd[i].client = c} IN
  /\ c \in Roaming /\ sock[c].now # 0
  /\ sock' = [sock EXCEPT ![c].now = 0]
  /\ lease' = IF lease.client = c THEN NoLease ELSE lease
  /\ cmd' = [i \in DOMAIN cmd |-> IF i \in mine THEN Dropped(cmd[i]) ELSE cmd[i]]
  /\ queue' = Released(mine)
  /\ Push(lease'.fence)
  /\ UNCHANGED <<kind, link, epoch, relay, running, after, last>>

Sockets(c) == sock[c].old \cup ({sock[c].now} \ {0})

\* hub_acquire_owner: by default whoever asks gets the lease.
Acquire(c) ==
  /\ Sockets(c) # {} /\ lease.client # c /\ lease.made < MaxFence /\ (Desktop => link)
  /\ lease' = [client |-> c, fence |-> lease.made + 1, made |-> lease.made + 1]
  /\ Push(lease'.fence)
  /\ UNCHANGED <<kind, link, epoch, sock, cmd, queue, relay, running, after, last>>

\* hub_release_owner, or the lease's time is over.
LeaseEnds ==
  /\ lease.client # Nobody /\ lease' = NoLease
  /\ Push(0)
  /\ UNCHANGED <<kind, link, epoch, sock, cmd, queue, relay, running, after, last>>

\* A selection or a renewal tells the relay again who drives.
Tell ==
  /\ Desktop /\ link /\ wire = <<>> /\ relay.owner # lease.fence
  /\ Push(lease.fence)
  /\ UNCHANGED <<kind, link, epoch, sock, lease, cmd, queue, relay, running, after, last>>

---------------------------------------------------------------------------
(* Commands *)

\* dispatchSourceCommand: into the table and onto the wire, if there is one.
Sent(cs, i) == [cs EXCEPT ![i] = IF link THEN [@ EXCEPT !.at = "pending"] ELSE Answered(@)]
Wired(cs, i) == IF link THEN Append(wire, Frame(i, cs[i])) ELSE wire

\* handleSourceCommand: the source is described as it is now, epoch included;
\* structure commands wait for their turn.
Command(c, n, k) ==
  LET i == Len(cmd) + 1
      r == [client |-> c, sock |-> n, kind |-> k, fence |-> lease.fence,
            epoch |-> epoch, at |-> "queued", said |-> 0]
      cs == Append(cmd, r)
  IN /\ i <= MaxCommands /\ n \in Sockets(c) /\ link
     /\ lease.client = c
     /\ IF k # "plain" THEN /\ cmd' = cs /\ queue' = Append(queue, i)
                          /\ UNCHANGED wire
        ELSE cmd' = Sent(cs, i) /\ wire' = Wired(cs, i) /\ UNCHANGED queue
     /\ UNCHANGED <<kind, link, epoch, sock, lease, relay, running, after, last>>

HeadWaits == queue # <<>> /\ cmd[Head(queue)].at = "queued"

\* The queue's next command, with the check made on its arrival only.
RunHeadUnchecked(busy) ==
  LET i == Head(queue)
  IN /\ HeadWaits
     /\ IF ~link THEN Answer({i}) /\ UNCHANGED wire
        ELSE cmd' = Sent(cmd, i) /\ wire' = Wired(cmd, i) /\ UNCHANGED queue
     /\ UNCHANGED <<kind, link, epoch, sock, lease, relay, running, after, last>>

\* ... without waiting for the end of the command sent (a missing await).
RunHeadWithoutAwait(busy) ==
  LET i == Head(queue)
      refused == ~Valid(cmd[i]) \/ busy
  IN /\ HeadWaits
     /\ IF refused \/ ~link THEN Answer({i}) /\ UNCHANGED wire
        ELSE cmd' = Sent(cmd, i) /\ wire' = Wired(cmd, i) /\ queue' = Tail(queue)
     /\ UNCHANGED <<kind, link, epoch, sock, lease, relay, running, after, last>>

\* The queue's next command: the lease and whether a turn is running (busy; never
\* for navigate_tree, which ends the turn itself) are looked at again.
RunHead(busy) ==
  LET i == Head(queue)
      refused == ~Valid(cmd[i]) \/ busy
  IN /\ HeadWaits
     /\ IF refused \/ ~link THEN Answer({i}) /\ UNCHANGED wire
        ELSE cmd' = Sent(cmd, i) /\ wire' = Wired(cmd, i) /\ UNCHANGED queue
     /\ UNCHANGED <<kind, link, epoch, sock, lease, relay, running, after, last>>

\* The timer of a request under way.
Timeout(i) ==
  /\ i \in Pending
  /\ Answer({i})
  /\ UNCHANGED <<kind, link, epoch, sock, lease, wire, relay, running, after, last>>

---------------------------------------------------------------------------
(* The source *)

Start(i) == running' = running \cup {i} /\ last' = cmd[i].fence

\* pi executes the lines it reads, whatever else is running.
PiReads ==
  /\ ~Desktop /\ wire # <<>>
  /\ Start(Head(wire).id) /\ wire' = Tail(wire)
  /\ UNCHANGED <<kind, link, epoch, sock, lease, cmd, queue, relay, after>>

\* hasActiveOwner: once the hub has ended a lease its time may be over, which
\* the relay sees on its own clock.
HasActiveOwner(f, late) == relay.owner = f /\ ~(late /\ lease.fence # f)

\* controlGeneration moves on: what waits in the chain is of an earlier one.
Outdated(chain) == [n \in DOMAIN chain |-> [chain[n] EXCEPT !.current = FALSE]]

\* desktop_status: who drives has changed.
RelayHears ==
  LET f == Head(wire).fence IN
  /\ Desktop /\ wire # <<>> /\ Head(wire).id = 0 /\ wire' = Tail(wire)
  /\ relay' = [relay EXCEPT !.owner = f,
                            !.chain = IF f = relay.owner THEN @ ELSE Outdated(@),
                            !.highest = IF f > @ THEN f ELSE @]
  /\ UNCHANGED <<kind, link, epoch, sock, lease, cmd, queue, running, after, last>>

Queued(r) == [id |-> r.id, epoch |-> r.epoch, fence |-> r.fence, current |-> TRUE]

\* queueRemoteCommand that admits one more than the limit.
RelayQueuesOneMore(late) ==
  LET r == Head(wire)
      accepted == /\ Len(relay.chain) <= MaxDepth /\ r.epoch = relay.epoch
                  /\ r.fence >= relay.highest /\ HasActiveOwner(r.fence, late)
  IN /\ Desktop /\ wire # <<>> /\ r.id # 0 /\ wire' = Tail(wire)
     /\ IF accepted
        THEN /\ relay' = [relay EXCEPT !.highest = r.fence,
                                        !.chain = Append(@, Queued(r))]
             /\ UNCHANGED <<cmd, queue>>
        ELSE Answer({r.id} \cap Pending) /\ UNCHANGED relay
     /\ UNCHANGED <<kind, link, epoch, sock, lease, running, after, last>>

\* queueRemoteCommand.
RelayQueues(late) ==
  LET r == Head(wire)
      accepted == /\ Len(relay.chain) < MaxDepth /\ r.epoch = relay.epoch
                  /\ r.fence >= relay.highest /\ HasActiveOwner(r.fence, late)
  IN /\ Desktop /\ wire # <<>> /\ r.id # 0 /\ wire' = Tail(wire)
     /\ IF accepted
        THEN /\ relay' = [relay EXCEPT !.highest = r.fence,
                                        !.chain = Append(@, Queued(r))]
             /\ UNCHANGED <<cmd, queue>>
        ELSE Answer({r.id} \cap Pending) /\ UNCHANGED relay
     /\ UNCHANGED <<kind, link, epoch, sock, lease, running, after, last>>

\* The relay's answer, if the hub is there to hear it and still waits.
Result(i) == IF link THEN Answer({i} \cap Pending) ELSE UNCHANGED <<cmd, queue>>

\* The chain's next command: epoch, driver and fence are looked at again.
RelayRuns(late) ==
  LET r == Head(relay.chain)
      stale == \/ r.epoch # relay.epoch \/ ~r.current
               \/ ~HasActiveOwner(r.fence, late) \/ r.fence < relay.highest
  IN /\ relay.chain # <<>> /\ r.id \notin running
     /\ IF stale THEN /\ relay' = [relay EXCEPT !.chain = Tail(@)] /\ Result(r.id)
                      /\ UNCHANGED <<running, after, last>>
        ELSE Start(r.id) /\ UNCHANGED <<cmd, queue, relay>>
     /\ UNCHANGED <<kind, link, epoch, sock, lease, wire, after>>

\* The result of a command is sent: when it ends, or, of a detached one, when it is
\* accepted.
Finishes(i, runsOn) ==
  /\ i \in running /\ running' = running \ {i}
  /\ runsOn => cmd[i].kind = "detached"
  /\ after' = IF runsOn THEN after \cup {i} ELSE after
  /\ relay' = IF Desktop THEN [relay EXCEPT !.chain = Tail(@)] ELSE relay
  /\ Result(i)
  /\ UNCHANGED <<kind, link, epoch, sock, lease, wire, last>>

EndsLater(i) ==
  /\ i \in after /\ after' = after \ {i}
  /\ UNCHANGED <<kind, link, epoch, sock, lease, cmd, queue, wire, relay, running, last>>

\* The source goes, its requests are answered, and the queue is not released.
SourceGoesSilently ==
  /\ link /\ link' = FALSE /\ wire' = <<>>
  /\ AnswerKeepsQueue(Pending)
  /\ running' = IF Desktop THEN running ELSE {}
  /\ after' = IF Desktop THEN after ELSE {}
  /\ UNCHANGED <<kind, epoch, sock, lease, relay, last>>

\* The process exits, or the TUI's socket closes: the TUI goes on running.
SourceGoes ==
  /\ link /\ link' = FALSE /\ wire' = <<>>
  /\ Answer(Pending)
  /\ running' = IF Desktop THEN running ELSE {}
  /\ after' = IF Desktop THEN after ELSE {}
  /\ UNCHANGED <<kind, epoch, sock, lease, relay, last>>

NewEpoch(e) == [relay EXCEPT !.epoch = e, !.chain = Outdated(@), !.owner = 0, !.highest = 0]

\* The process is started again, or the relay connects: with a new epoch, and
\* until the next desktop_status without an owner.
SourceReturns ==
  /\ ~link /\ relay.epoch < MaxEpochs /\ link' = TRUE
  /\ relay' = NewEpoch(relay.epoch + 1) /\ epoch' = relay.epoch + 1
  /\ UNCHANGED <<kind, sock, lease, cmd, queue, wire, running, after, last>>

\* resnapshot: the relay takes a new epoch; the hub learns of it later.
RelayResnapshots ==
  /\ Desktop /\ link /\ relay.epoch < MaxEpochs
  /\ relay' = NewEpoch(relay.epoch + 1)
  /\ UNCHANGED <<kind, link, epoch, sock, lease, cmd, queue, wire, running, after, last>>

HubSeesEpoch ==
  /\ Desktop /\ link /\ epoch # relay.epoch /\ epoch' = relay.epoch
  /\ UNCHANGED <<kind, link, sock, lease, cmd, queue, wire, relay, running, after, last>>

---------------------------------------------------------------------------
Next ==
  \/ \E c \in Clients : PhoneConnects(c) \/ ReplacedCloses(c) \/ CurrentCloses(c) \/ Acquire(c)
  \/ \E c \in Clients : \E n \in Sockets(c), k \in Works : Command(c, n, k)
  \/ \E i \in DOMAIN cmd : Timeout(i) \/ EndsLater(i) \/ \E runsOn \in BOOLEAN : Finishes(i, runsOn)
  \/ LeaseEnds \/ Tell \/ \E busy \in BOOLEAN : RunHead(busy)
  \/ PiReads \/ RelayHears \/ \E late \in BOOLEAN : RelayQueues(late) \/ RelayRuns(late)
  \/ SourceGoes \/ SourceReturns \/ RelayResnapshots \/ HubSeesEpoch

Spec == Init /\ [][Next]_vars

---------------------------------------------------------------------------
(* Properties *)

\* A command is answered once, and not at all only if the phone's socket it came
\* over is out of use: by the result, the timer, a refusal, the end of the
\* source, the close of a socket, whichever comes first.
AnsweredOnce ==
  \A i \in DOMAIN cmd :
    /\ cmd[i].said <= 1 /\ (cmd[i].at # "settled" => cmd[i].said = 0)
    /\ cmd[i].at = "settled" /\ cmd[i].said = 0 => sock[cmd[i].client].now # cmd[i].sock

\* Two structure commands run in one session at once only if the earlier one has been
\* answered on acceptance, or the hub has given up on it (its timer, its phone's
\* socket, the link to the source).
OverlapOnlyOnceLetGo ==
  \A i, j \in running \cup after :
    i < j /\ Structure(i) /\ Structure(j) => i \in after \/ cmd[i].at # "pending"

\* What the source starts is never from before a lease whose command it has
\* already started: a driver who was displaced does nothing behind the back of
\* the new one, whatever waited in the queues meanwhile.
FencesInOrder == [][\A i \in running' \ running : cmd[i].fence >= last]_vars

\* The queue of a session never waits for something that is over: the command at
\* its head has yet to be picked up, or is in the table, with its timer running.
QueueNeverStuck == queue # <<>> => cmd[Head(queue)].at # "settled"

\* What command_queue.ts is for: structure commands never interleave in one process.
StructureNeverOverlaps ==
  \A i, j \in running \cup after : Structure(i) /\ Structure(j) => i = j

=============================================================================
