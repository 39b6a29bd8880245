--------------------------- MODULE CommandsProofs ---------------------------
(***************************************************************************)
(* Proofs about module Commands: every command is answered once, the queue *)
(* never stands still, structure commands overlap only after the earlier   *)
(* one was answered on acceptance or the hub has given up on it, and what  *)
(* the source starts is in the order of the leases, for any phones, limits *)
(* and either kind of source.                                              *)
(*                                                                         *)
(* The inductive invariant IInv says where each command may be.  The queue *)
(* holds, in order of arrival, the structure commands after the one under  *)
(* way (QueueInv); a command on the wire, in the relay's chain or at work  *)
(* is not in the queue (FlightInv); and the fence of the last start, those *)
(* in the chain, those on the wire and the newest lease's never go down,   *)
(* in this order (OrderInv), although the relay forgets the highest fence  *)
(* it has seen with every new epoch.                                       *)
(***************************************************************************)
EXTENDS Commands, SequenceTheorems, TLAPS

Cmds == [client : Clients, sock : 1..MaxSockets, kind : Works,
         fence : Fence \ {0}, epoch : 0..MaxEpochs,
         at : {"queued", "pending", "settled"}, said : 0..2]

Socks == [now : 0..MaxSockets, old : SUBSET (1..MaxSockets), made : 0..MaxSockets]
Leases == [client : Clients \cup {Nobody}, fence : Fence, made : Fence]
Frames == [id : Nat, epoch : Nat, fence : Fence]
Links == [id : Nat, epoch : Nat, fence : Fence, current : BOOLEAN]
Relays == [epoch : 0..MaxEpochs, owner : Fence, highest : Fence, chain : Seq(Links)]

Types ==
    /\ kind \in Kinds /\ link \in BOOLEAN
    /\ epoch \in 0..MaxEpochs /\ last \in Fence
    /\ sock \in [Clients -> Socks] /\ lease \in Leases
    /\ cmd \in Seq(Cmds) /\ Len(cmd) <= MaxCommands
    /\ queue \in Seq(Nat) /\ wire \in Seq(Frames)
    /\ relay \in Relays /\ Len(relay.chain) <= MaxDepth
    /\ running \subseteq DOMAIN cmd /\ after \subseteq DOMAIN cmd

\* A socket a command came over is one of those its phone has made.
SockInv ==
    /\ \A c \in Clients : sock[c].now <= sock[c].made /\ \A n \in sock[c].old : n <= sock[c].made
    /\ \A i \in DOMAIN cmd : cmd[i].sock <= sock[cmd[i].client].made

\* Who drives does it under the newest fence.
LeaseInv ==
    IF lease.client = Nobody THEN lease.fence = 0
    ELSE lease.fence = lease.made /\ lease.fence # 0

QueueInv ==
    /\ \A n \in DOMAIN queue : queue[n] \in DOMAIN cmd /\ cmd[queue[n]].kind # "plain"
    /\ \A m, n \in DOMAIN queue : m < n => queue[m] < queue[n]
    /\ queue # <<>> => cmd[Head(queue)].at # "settled"
    /\ \A i \in Pending : cmd[i].kind # "plain" => queue # <<>> /\ i = Head(queue)
    /\ \A i \in DOMAIN cmd :
           cmd[i].kind # "plain" /\ queue # <<>> /\ i > Head(queue) => cmd[i].at = "queued"

Flown(f) == f.id \in DOMAIN cmd /\ cmd[f.id].at # "queued" /\ f.fence = cmd[f.id].fence

FlightInv ==
    /\ \A n \in DOMAIN wire : wire[n].id # 0 => Flown(wire[n])
    /\ \A n \in DOMAIN relay.chain : Flown(relay.chain[n])
    /\ \A i \in running : cmd[i].at # "queued"
    /\ \A i \in after : cmd[i].at # "queued"
    /\ IF Desktop
       THEN \A i \in running : relay.chain # <<>> /\ i = Head(relay.chain).id
       ELSE relay.chain = <<>> /\ \A n \in DOMAIN wire : wire[n].id # 0

OrderInv ==
    /\ last <= lease.made
    /\ \A n \in DOMAIN wire :
           wire[n].id # 0 =>
               /\ last <= wire[n].fence /\ wire[n].fence <= lease.made
               /\ \A m \in 1..(n - 1) : wire[m].id # 0 => wire[m].fence <= wire[n].fence
               /\ \A m \in DOMAIN relay.chain : relay.chain[m].fence <= wire[n].fence
    /\ \A n \in DOMAIN relay.chain :
           /\ last <= relay.chain[n].fence /\ relay.chain[n].fence <= lease.made
           /\ \A m \in 1..(n - 1) : relay.chain[m].fence <= relay.chain[n].fence

IInv == Types /\ SockInv /\ LeaseInv /\ AnsweredOnce /\ QueueInv /\ FlightInv /\ OrderInv

-----------------------------------------------------------------------------
(* What happens to the table.                                              *)

\* The commands let in stay what they are, and none goes back to the queue.
Kept ==
    /\ DOMAIN cmd \subseteq DOMAIN cmd'
    /\ \A i \in DOMAIN cmd :
           /\ cmd'[i].client = cmd[i].client /\ cmd'[i].sock = cmd[i].sock
           /\ cmd'[i].kind = cmd[i].kind /\ cmd'[i].fence = cmd[i].fence
           /\ cmd[i].at # "queued" => cmd'[i].at # "queued"

\* Some requests end, in whatever way, and the queue is released.
Ends(ids) ==
    /\ cmd' \in Seq(Cmds) /\ Len(cmd') = Len(cmd) /\ Kept
    /\ \A i \in DOMAIN cmd : cmd'[i].at = IF i \in ids THEN "settled" ELSE cmd[i].at
    /\ queue' = Released(ids)

\* What may end: requests under way, and the head of the queue.
MayEnd(ids) == \A i \in ids : i \in Pending \/ (queue # <<>> /\ i = Head(queue))

LEMMA TableTyped ==
    ASSUME NEW s \in Seq(Cmds), NEW t, t \in [DOMAIN s -> Cmds]
    PROVE  t \in Seq(Cmds) /\ Len(t) = Len(s) /\ DOMAIN t = DOMAIN s
<1>1. Len(s) \in Nat /\ DOMAIN s = 1..Len(s)
  OBVIOUS
<1>2. t \in UNION {[1..n -> Cmds] : n \in Nat}
  BY <1>1
<1>3. t \in Seq(Cmds)
  BY <1>2, SeqDef
<1>4. Len(t) \in Nat /\ 1..Len(t) = 1..Len(s)
  BY <1>1, <1>3
<1> QED
  BY <1>1, <1>3, <1>4

LEMMA AnsweredTyped ==
    ASSUME NEW r \in Cmds, sock \in [Clients -> Socks], r.said <= 1
    PROVE  Answered(r) \in Cmds /\ Dropped(r) \in Cmds
<1>1. r.said \in 0..1
  BY DEF Cmds
<1>2. Told(r) \in 0..2
  BY <1>1 DEF Told
<1>3. "settled" \in {"queued", "pending", "settled"}
  OBVIOUS
<1> QED
  BY <1>2, <1>3 DEF Cmds, Answered, Dropped

LEMMA AnswerEnds ==
    ASSUME Types, AnsweredOnce, NEW ids, Answer(ids)
    PROVE  Ends(ids)
<1>1. \A i \in DOMAIN cmd : cmd[i] \in Cmds /\ cmd[i].said <= 1
  BY DEF Types, AnsweredOnce
<1>2. \A i \in DOMAIN cmd : cmd'[i] \in Cmds
  BY <1>1, AnsweredTyped DEF Answer, Types
<1>3. cmd' \in Seq(Cmds) /\ Len(cmd') = Len(cmd) /\ DOMAIN cmd' = DOMAIN cmd
  BY <1>2, TableTyped, cmd' \in [DOMAIN cmd -> Cmds] DEF Answer, Types
<1>4. Kept /\ \A i \in DOMAIN cmd : cmd'[i].at = IF i \in ids THEN "settled" ELSE cmd[i].at
  BY <1>1, <1>3 DEF Answer, Kept, Answered, Cmds
<1> QED
  BY <1>3, <1>4 DEF Ends, Answer

\* A command is answered at most once, and not only when its socket is out of use.
LEMMA AnswerOnce ==
    ASSUME Types, AnsweredOnce, NEW ids, MayEnd(ids), QueueInv, Answer(ids), UNCHANGED sock
    PROVE  AnsweredOnce'
<1>1. Ends(ids)
  BY AnswerEnds
<1>2. \A i \in DOMAIN cmd : cmd[i] \in Cmds /\ cmd'[i] \in Cmds
  BY <1>1 DEF Types, Ends
<1>3. \A i \in ids : i \in DOMAIN cmd => cmd[i].at # "settled"
  BY <1>2 DEF MayEnd, Pending, QueueInv
<1>4. DOMAIN cmd' = DOMAIN cmd
  BY <1>1 DEF Ends, Types
<1>5. ASSUME NEW i \in DOMAIN cmd
      PROVE  /\ cmd'[i].said <= 1 /\ (cmd'[i].at # "settled" => cmd'[i].said = 0)
             /\ cmd'[i].at = "settled" /\ cmd'[i].said = 0 => sock[cmd'[i].client].now # cmd'[i].sock
  <2>1. CASE i \in ids
    <3>1. cmd[i].said = 0 /\ cmd[i] \in Cmds
      BY <1>2, <1>3, <2>1 DEF AnsweredOnce
    <3>2. cmd'[i] = Answered(cmd[i])
      BY <2>1 DEF Answer
    <3> QED
      BY <3>1, <3>2 DEF Answered, Told, Cmds
  <2>2. CASE i \notin ids
    BY <2>2 DEF Answer, AnsweredOnce
  <2> QED
    BY <2>1, <2>2
<1> QED
  BY <1>4, <1>5 DEF AnsweredOnce

LEMMA EndsQueue ==
    ASSUME Types, QueueInv, NEW ids, MayEnd(ids), Ends(ids)
    PROVE  QueueInv' /\ queue' \in Seq(Nat)
<1>1. DOMAIN cmd' = DOMAIN cmd /\ queue \in Seq(Nat) /\ cmd \in Seq(Cmds)
  BY DEF Ends, Types
<1>2. CASE queue # <<>> /\ Head(queue) \in ids
  <2>1. queue' = Tail(queue) /\ queue' \in Seq(Nat) /\ Len(queue') = Len(queue) - 1
    BY <1>1, <1>2 DEF Ends, Released
  <2>2. \A n \in DOMAIN queue' : n + 1 \in DOMAIN queue /\ queue'[n] = queue[n + 1]
    BY <1>1, <1>2, <2>1
  <2>3. \A n \in DOMAIN queue' : queue'[n] \in DOMAIN cmd' /\ cmd'[queue'[n]].kind # "plain"
    BY <1>1, <2>2, SMTT(90) DEF QueueInv, Ends, Kept
  <2>4. \A m, n \in DOMAIN queue' : m < n => queue'[m] < queue'[n]
    BY <1>1, <2>1, <2>2 DEF QueueInv
  <2>5. 1 \in DOMAIN queue /\ queue[1] = Head(queue)
    BY <1>1, <1>2
  <2>6. ASSUME queue' # <<>>
        PROVE  /\ Head(queue') = queue[2] /\ 2 \in DOMAIN queue
               /\ queue[2] > queue[1] /\ queue[2] \in DOMAIN cmd /\ cmd[queue[2]].kind # "plain"
    <3>1. 1 \in DOMAIN queue' /\ Head(queue') = queue'[1]
      BY <2>1, <2>6
    <3>2. 2 \in DOMAIN queue /\ Head(queue') = queue[2]
      BY <2>2, <3>1
    <3> QED
      BY <1>1, <2>5, <3>2 DEF QueueInv
  <2>7. \A i \in DOMAIN cmd : i \in ids /\ cmd[i].kind # "plain" => i = Head(queue)
    BY <1>2 DEF MayEnd, QueueInv
  <2>8. queue' # <<>> => cmd'[Head(queue')].at # "settled"
    <3> SUFFICES ASSUME queue' # <<>> PROVE cmd'[Head(queue')].at # "settled"
      OBVIOUS
    <3>1. cmd[queue[2]].at = "queued"
      BY <2>5, <2>6, <1>2 DEF QueueInv
    <3>2. queue[2] \notin ids
      BY <1>1, <2>5, <2>6, <2>7
    <3> QED
      BY <3>1, <3>2, <2>6 DEF Ends
  <2>9. \A i \in Pending' : cmd'[i].kind # "plain" => FALSE
    BY <1>1, <1>2 DEF Pending, QueueInv, Ends, Kept
  <2>10. \A i \in DOMAIN cmd' : cmd'[i].kind # "plain" /\ queue' # <<>> /\ i > Head(queue') => cmd'[i].at = "queued"
    <3> SUFFICES ASSUME NEW i \in DOMAIN cmd, cmd'[i].kind # "plain", queue' # <<>>, i > Head(queue')
                 PROVE  cmd'[i].at = "queued"
      BY <1>1
    <3>1. cmd[i].kind # "plain"
      BY DEF Ends, Kept
    <3>2. i > queue[1] /\ i \in Nat /\ queue[1] \in Nat
      BY <1>1, <2>5, <2>6
    <3>3. cmd[i].at = "queued" /\ i \notin ids
      BY <3>1, <3>2, <2>5, <2>7, <1>2 DEF QueueInv
    <3> QED
      BY <3>3 DEF Ends
  <2> QED
    BY <2>1, <2>3, <2>4, <2>8, <2>9, <2>10 DEF QueueInv
<1>3. CASE ~(queue # <<>> /\ Head(queue) \in ids)
  <2>1. queue' = queue
    BY <1>3 DEF Ends, Released
  <2>2. \A i \in DOMAIN cmd : i \in ids => cmd[i].kind = "plain"
    BY <1>3 DEF MayEnd, QueueInv
  <2>3. queue # <<>> => Head(queue) \in DOMAIN cmd
    BY <1>1 DEF QueueInv
  <2>4. \A i \in DOMAIN cmd : cmd'[i].kind = cmd[i].kind
    BY DEF Ends, Kept
  <2>5. \A n \in DOMAIN queue' : queue'[n] \in DOMAIN cmd' /\ cmd'[queue'[n]].kind # "plain"
    BY <1>1, <2>1, <2>4 DEF QueueInv
  <2>6. queue' # <<>> => cmd'[Head(queue')].at # "settled"
    BY <1>3, <2>1, <2>3 DEF QueueInv, Ends
  <2>7. \A i \in Pending' : cmd'[i].kind # "plain" => queue' # <<>> /\ i = Head(queue')
    BY <1>1, <2>1, <2>2, <2>4 DEF QueueInv, Ends, Pending
  <2>8. \A i \in DOMAIN cmd' :
            cmd'[i].kind # "plain" /\ queue' # <<>> /\ i > Head(queue') => cmd'[i].at = "queued"
    BY <1>1, <2>1, <2>2, <2>4 DEF QueueInv, Ends
  <2>9. \A m, n \in DOMAIN queue' : m < n => queue'[m] < queue'[n]
    BY <2>1 DEF QueueInv
  <2> QED
    BY <1>1, <2>1, <2>5, <2>6, <2>7, <2>8, <2>9 DEF QueueInv
<1> QED
  BY <1>2, <1>3

-----------------------------------------------------------------------------
(* What is on its way.                                                     *)

LEMMA ChainNumbers ==
    ASSUME NEW r \in Relays
    PROVE  r.chain \in Seq(Links) /\ \A n \in DOMAIN r.chain : r.chain[n].fence \in Int
<1>1. r.chain \in Seq(Links)
  BY DEF Relays
<1>2. \A n \in DOMAIN r.chain : r.chain[n] \in Links
  BY <1>1
<1> QED
  BY <1>1, <1>2 DEF Links, Fence

LEMMA Numbers ==
    ASSUME Types
    PROVE  /\ last \in Int /\ lease.made \in Int
           /\ wire \in Seq(Frames) /\ relay.chain \in Seq(Links)
           /\ \A n \in DOMAIN wire : wire[n].fence \in Int
           /\ \A n \in DOMAIN relay.chain : relay.chain[n].fence \in Int
<1>1. \A n \in DOMAIN wire : wire[n] \in Frames
  BY DEF Types
<1>2. \A n \in DOMAIN wire : wire[n].fence \in Int
  BY <1>1 DEF Frames, Fence
<1>3. last \in Int /\ lease.made \in Int
  BY DEF Types, Leases, Fence
<1> QED
  BY <1>2, <1>3, ChainNumbers DEF Types

\* What is under way is so whatever happens to the table.
LEMMA FlightKept ==
    ASSUME Types, FlightInv, Kept, UNCHANGED <<kind, wire, relay, running, after>>
    PROVE  FlightInv'
<1>1. \A f : Flown(f) => f.id \in DOMAIN cmd' /\ cmd'[f.id].at # "queued" /\ f.fence = cmd'[f.id].fence
  BY DEF Flown, Kept
<1>2. /\ \A n \in DOMAIN wire' : wire'[n].id # 0 =>
             LET f == wire'[n] IN f.id \in DOMAIN cmd' /\ cmd'[f.id].at # "queued" /\ f.fence = cmd'[f.id].fence
      /\ \A n \in DOMAIN relay'.chain :
             LET f == relay'.chain[n] IN f.id \in DOMAIN cmd' /\ cmd'[f.id].at # "queued" /\ f.fence = cmd'[f.id].fence
  BY <1>1 DEF FlightInv
<1>3. \A i \in running' \cup after' : cmd'[i].at # "queued"
  BY DEF FlightInv, Kept, Types
<1>4. IF Desktop' THEN \A i \in running' : relay'.chain # <<>> /\ i = Head(relay'.chain).id
      ELSE relay'.chain = <<>> /\ \A n \in DOMAIN wire' : wire'[n].id # 0
  BY DEF FlightInv, Desktop
<1> QED
  BY <1>2, <1>3, <1>4 DEF FlightInv, Flown

LEMMA SocksKept ==
    ASSUME Types, SockInv, Kept, DOMAIN cmd' = DOMAIN cmd, UNCHANGED sock
    PROVE  SockInv'
BY DEF SockInv, Kept

LEMMA OrderKept ==
    ASSUME Types, OrderInv, UNCHANGED <<wire, last>>, lease'.made >= lease.made,
           lease' \in Leases,
           Len(relay'.chain) = Len(relay.chain),
           \A n \in DOMAIN relay.chain : relay'.chain[n].fence = relay.chain[n].fence,
           relay' \in Relays
    PROVE  OrderInv'
<1> DEFINE old == relay.chain
           new == relay'.chain
<1>1. /\ last \in Int /\ lease.made \in Int /\ lease'.made \in Int
      /\ wire \in Seq(Frames) /\ old \in Seq(Links) /\ new \in Seq(Links)
      /\ \A n \in DOMAIN wire : wire[n].fence \in Int
      /\ \A n \in DOMAIN old : old[n].fence \in Int
  BY Numbers, ChainNumbers DEF Leases, Fence
<1>2. DOMAIN old = DOMAIN new /\ \A n \in DOMAIN new : new[n].fence = old[n].fence
  BY <1>1
<1>3. \A n \in DOMAIN new : 1..(n - 1) \subseteq DOMAIN old
  BY <1>1, <1>2
<1>4. last' <= lease'.made
  BY <1>1 DEF OrderInv
<1>5. \A n \in DOMAIN wire : wire[n].id # 0 =>
               /\ last <= wire[n].fence /\ wire[n].fence <= lease'.made
               /\ \A m \in 1..(n - 1) : wire[m].id # 0 => wire[m].fence <= wire[n].fence
               /\ \A m \in DOMAIN new : new[m].fence <= wire[n].fence
  BY <1>1, <1>2 DEF OrderInv
<1>6. \A n \in DOMAIN new :
           /\ last <= new[n].fence /\ new[n].fence <= lease'.made
           /\ \A m \in 1..(n - 1) : new[m].fence <= new[n].fence
  BY <1>1, <1>2, <1>3 DEF OrderInv
<1> QED
  BY <1>4, <1>5, <1>6 DEF OrderInv

\* A frame goes onto the wire: a status, or a command of the lease that is on.
LEMMA Wiring ==
    ASSUME Types, FlightInv, OrderInv, Kept, NEW f \in Frames, wire' = Append(wire, f),
           UNCHANGED <<kind, relay, running, after, last>>,
           lease' \in Leases, lease'.made >= lease.made,
           IF f.id = 0 THEN Desktop
           ELSE f.fence = lease'.made /\ f.id \in DOMAIN cmd'
                /\ cmd'[f.id].at # "queued" /\ f.fence = cmd'[f.id].fence
    PROVE  wire' \in Seq(Frames) /\ FlightInv' /\ OrderInv'
<1>1. /\ last \in Int /\ lease.made \in Int /\ lease'.made \in Int /\ f.fence \in Int
      /\ wire \in Seq(Frames) /\ relay.chain \in Seq(Links)
      /\ \A n \in DOMAIN wire : wire[n].fence \in Int
      /\ \A n \in DOMAIN relay.chain : relay.chain[n].fence \in Int
  BY Numbers DEF Leases, Fence, Frames
<1>2. /\ wire' \in Seq(Frames) /\ Len(wire') = Len(wire) + 1
      /\ DOMAIN wire' = DOMAIN wire \cup {Len(wire) + 1}
      /\ \A n \in DOMAIN wire : wire'[n] = wire[n]
      /\ wire'[Len(wire) + 1] = f
  BY <1>1
<1>3. FlightInv'
  <2>1. \A n \in DOMAIN wire' : wire'[n].id # 0 => Flown(wire[n])' \/ n = Len(wire) + 1
    BY <1>2 DEF FlightInv, Flown, Kept
  <2>2. \A n \in DOMAIN wire' : wire'[n].id # 0 =>
            /\ wire'[n].id \in DOMAIN cmd' /\ cmd'[wire'[n].id].at # "queued"
            /\ wire'[n].fence = cmd'[wire'[n].id].fence
    BY <1>2, <2>1 DEF FlightInv, Flown, Kept
  <2>3. \A n \in DOMAIN relay.chain :
            LET r == relay.chain[n]
            IN  r.id \in DOMAIN cmd' /\ cmd'[r.id].at # "queued" /\ r.fence = cmd'[r.id].fence
    BY DEF FlightInv, Flown, Kept
  <2>4. \A i \in running \cup after : cmd'[i].at # "queued"
    BY DEF FlightInv, Kept, Types
  <2>5. Desktop' = Desktop
    BY DEF Desktop
  <2>6. ~Desktop => \A n \in DOMAIN wire' : wire'[n].id # 0
    BY <1>2 DEF FlightInv
  <2> QED
    BY <2>2, <2>3, <2>4, <2>5, <2>6 DEF FlightInv, Flown
<1>4. OrderInv'
  <2>1. last' <= lease'.made
    BY <1>1 DEF OrderInv
  <2>2. ASSUME NEW n \in DOMAIN wire', wire'[n].id # 0
        PROVE  /\ last <= wire'[n].fence /\ wire'[n].fence <= lease'.made
               /\ \A m \in 1..(n - 1) : wire'[m].id # 0 => wire'[m].fence <= wire'[n].fence
               /\ \A m \in DOMAIN relay.chain : relay.chain[m].fence <= wire'[n].fence
    <3>1. CASE n \in DOMAIN wire
      <4>1. 1..(n - 1) \subseteq DOMAIN wire
        BY <1>1, <3>1
      <4> QED
        BY <1>1, <1>2, <2>2, <3>1, <4>1 DEF OrderInv
    <3>2. CASE n = Len(wire) + 1
      <4>1. 1..(n - 1) = DOMAIN wire
        BY <1>1, <3>2
      <4>2. wire'[n].fence = lease'.made
        BY <1>2, <2>2, <3>2
      <4> QED
        BY <1>1, <1>2, <4>1, <4>2, SMTT(90) DEF OrderInv
    <3> QED
      BY <1>2, <3>1, <3>2
  <2>3. \A n \in DOMAIN relay.chain :
           /\ last <= relay.chain[n].fence /\ relay.chain[n].fence <= lease'.made
           /\ \A m \in 1..(n - 1) : relay.chain[m].fence <= relay.chain[n].fence
    BY <1>1 DEF OrderInv
  <2> QED
    BY <2>1, <2>2, <2>3 DEF OrderInv
<1> QED
  BY <1>2, <1>3, <1>4

\* Who drives is told, if there is a relay to tell it to.
LEMMA Pushing ==
    ASSUME Types, FlightInv, OrderInv, Kept, NEW f \in Fence, Push(f),
           UNCHANGED <<kind, relay, running, after, last>>,
           lease' \in Leases, lease'.made >= lease.made
    PROVE  wire' \in Seq(Frames) /\ FlightInv' /\ OrderInv'
<1>1. CASE Desktop /\ link
  <2>1. Status(f) \in Frames /\ Status(f).id = 0
    BY DEF Status, Frames
  <2> QED
    BY <1>1, <2>1, Wiring DEF Push
<1>2. CASE ~(Desktop /\ link)
  <2>1. UNCHANGED wire
    BY <1>2 DEF Push
  <2> QED
    BY <2>1, FlightKept, OrderKept DEF Types
<1> QED
  BY <1>1, <1>2

-----------------------------------------------------------------------------
(* Phones.                                                                 *)

LEMMA InitHolds == Init => IInv
<1> SUFFICES ASSUME Init PROVE IInv
  OBVIOUS
<1> USE CommandsAssumption DEF Init
<1>1. Len(<<>>) = 0 /\ DOMAIN <<>> = {} /\ 1 \in 0..MaxSockets /\ 1 \in 0..MaxEpochs /\ 0 \in Fence
  BY DEF Fence
<1>2. sock \in [Clients -> Socks] /\ lease \in Leases /\ relay \in Relays
  BY <1>1 DEF Socks, Leases, Relays
<1>3. Types
  BY <1>1, <1>2 DEF Types
<1>4. SockInv /\ LeaseInv /\ AnsweredOnce /\ QueueInv /\ FlightInv /\ OrderInv
  BY <1>1 DEF SockInv, LeaseInv, AnsweredOnce, QueueInv, Pending, FlightInv, OrderInv, Flown
<1> QED
  BY <1>3, <1>4 DEF IInv

LEMMA ClientsDiffer == \A c \in Clients : c # Nobody
BY CommandsAssumption

LEMMA NoLeaseTyped ==
    ASSUME lease \in Leases
    PROVE  /\ NoLease \in Leases /\ NoLease.made = lease.made
           /\ NoLease.client = Nobody /\ NoLease.fence = 0
<1>1. 0 \in Fence
  BY CommandsAssumption DEF Fence
<1> QED
  BY <1>1 DEF NoLease, Leases

\* Nothing happens to the table.
LEMMA SameTable ==
    ASSUME UNCHANGED cmd
    PROVE  Kept /\ DOMAIN cmd' = DOMAIN cmd
BY DEF Kept

LEMMA SameQueue ==
    ASSUME QueueInv, UNCHANGED <<cmd, queue>>
    PROVE  QueueInv'
BY DEF QueueInv, Pending

LEMMA PhoneConnectsKeeps ==
    ASSUME IInv, NEW c \in Clients, PhoneConnects(c)
    PROVE  IInv'
<1> DEFINE new == [now |-> sock[c].made + 1, made |-> sock[c].made + 1,
                   old |-> IF sock[c].now = 0 THEN sock[c].old ELSE sock[c].old \cup {sock[c].now}]
<1>1. /\ sock[c] \in Socks /\ sock[c].made < MaxSockets /\ MaxSockets \in Nat
      /\ sock[c].made \in Nat /\ sock[c].now \in Nat /\ sock[c].old \subseteq 1..MaxSockets
      /\ sock[c].now <= sock[c].made /\ \A n \in sock[c].old : n <= sock[c].made
  BY CommandsAssumption DEF PhoneConnects, IInv, Types, Socks, SockInv
<1>2. new \in Socks
  <2>1. sock[c].made + 1 \in 0..MaxSockets
    BY <1>1
  <2>2. new.old \in SUBSET (1..MaxSockets)
    BY <1>1
  <2> QED
    BY <2>1, <2>2 DEF Socks
<1>3. sock' = [sock EXCEPT ![c] = new] /\ sock' \in [Clients -> Socks]
  BY <1>2 DEF PhoneConnects, IInv, Types
<1>4. Types' /\ Kept /\ DOMAIN cmd' = DOMAIN cmd
  BY <1>3, SameTable DEF PhoneConnects, IInv, Types
<1>5. SockInv' /\ AnsweredOnce'
  <2>1. \A d \in Clients : sock'[d] = IF d = c THEN new ELSE sock[d]
    BY <1>3 DEF IInv, Types
  <2>2. \A i \in DOMAIN cmd : cmd[i].client \in Clients /\ cmd[i].sock \in Nat
    <3>1. \A i \in DOMAIN cmd : cmd[i] \in Cmds
      BY DEF IInv, Types
    <3> QED
      BY <3>1 DEF Cmds
  <2>3. \A n \in new.old : n <= new.made
    BY <1>1
  <2>4. SockInv'
    BY <1>1, <2>1, <2>2, <2>3 DEF SockInv, IInv, PhoneConnects
  <2>5. AnsweredOnce'
    BY <1>1, <2>1, <2>2 DEF SockInv, IInv, PhoneConnects, AnsweredOnce
  <2> QED
    BY <2>4, <2>5
<1>6. LeaseInv' /\ QueueInv' /\ FlightInv' /\ OrderInv'
  BY <1>4, SameQueue, FlightKept DEF PhoneConnects, IInv, LeaseInv, OrderInv
<1> QED
  BY <1>4, <1>5, <1>6 DEF IInv

LEMMA ReplacedClosesKeeps ==
    ASSUME IInv, NEW c \in Clients, ReplacedCloses(c)
    PROVE  IInv'
<1>1. PICK n \in sock[c].old : sock' = [sock EXCEPT ![c].old = @ \ {n}]
  BY DEF ReplacedCloses
<1>2. \A d \in Clients : sock[d] \in Socks
  BY DEF IInv, Types
<1>3. [sock[c] EXCEPT !.old = @ \ {n}] \in Socks
  BY <1>2 DEF Socks
<1>4. sock' \in [Clients -> Socks]
  BY <1>1, <1>3 DEF IInv, Types
<1>5. \A d \in Clients :
          /\ sock'[d].now = sock[d].now /\ sock'[d].made = sock[d].made
          /\ sock'[d].old \subseteq sock[d].old
  BY <1>1, <1>2 DEF IInv, Types, Socks
<1>6. Types' /\ Kept
  BY <1>4, SameTable DEF ReplacedCloses, IInv, Types
<1>7. \A i \in DOMAIN cmd : cmd[i].client \in Clients
  <2>1. \A i \in DOMAIN cmd : cmd[i] \in Cmds
    BY DEF IInv, Types
  <2> QED
    BY <2>1 DEF Cmds
<1>8. SockInv' /\ AnsweredOnce'
  BY <1>5, <1>7 DEF SockInv, AnsweredOnce, IInv, ReplacedCloses
<1>9. LeaseInv' /\ QueueInv' /\ FlightInv' /\ OrderInv'
  BY <1>6, SameQueue, FlightKept DEF ReplacedCloses, IInv, LeaseInv, OrderInv
<1> QED
  BY <1>6, <1>8, <1>9 DEF IInv

LEMMA CurrentClosesKeeps ==
    ASSUME IInv, NEW c \in Clients, CurrentCloses(c)
    PROVE  IInv'
<1> DEFINE mine == {i \in Pending : cmd[i].client = c}
<1>1. /\ sock' = [sock EXCEPT ![c].now = 0]
      /\ lease' = IF lease.client = c THEN NoLease ELSE lease
      /\ cmd' = [i \in DOMAIN cmd |-> IF i \in mine THEN Dropped(cmd[i]) ELSE cmd[i]]
      /\ queue' = Released(mine) /\ Push(lease'.fence)
      /\ UNCHANGED <<kind, link, epoch, relay, running, after, last>>
  BY DEF CurrentCloses
<1>2. Types /\ SockInv /\ LeaseInv /\ AnsweredOnce /\ QueueInv /\ FlightInv /\ OrderInv
  BY DEF IInv
<1>3. \A i \in DOMAIN cmd : cmd[i] \in Cmds /\ cmd[i].said <= 1
  BY <1>2 DEF Types, AnsweredOnce
<1>4. Ends(mine) /\ DOMAIN cmd' = DOMAIN cmd
  <2>1. \A i \in DOMAIN cmd : cmd'[i] \in Cmds
    BY <1>1, <1>2, <1>3, AnsweredTyped DEF Types
  <2>2. cmd' \in [DOMAIN cmd -> Cmds]
    BY <1>1, <2>1
  <2>3. cmd' \in Seq(Cmds) /\ Len(cmd') = Len(cmd) /\ DOMAIN cmd' = DOMAIN cmd
    BY <1>2, <2>2, TableTyped DEF Types
  <2>4. Kept /\ \A i \in DOMAIN cmd : cmd'[i].at = IF i \in mine THEN "settled" ELSE cmd[i].at
    BY <1>1, <1>3, <2>3 DEF Kept, Dropped, Cmds
  <2> QED
    BY <1>1, <2>3, <2>4 DEF Ends
<1>5. QueueInv' /\ queue' \in Seq(Nat)
  <2>1. \A i \in mine : i \in Pending
    OBVIOUS
  <2>2. MayEnd(mine)
    BY <2>1 DEF MayEnd
  <2> QED
    BY <1>2, <1>4, <2>2, EndsQueue
<1>6. lease' \in Leases /\ lease'.made = lease.made /\ LeaseInv'
  BY <1>1, <1>2, NoLeaseTyped DEF Types, LeaseInv
<1>7. lease'.fence \in Fence /\ lease'.made >= lease.made
  BY <1>2, <1>6 DEF Leases, Fence, Types
<1>8. wire' \in Seq(Frames) /\ FlightInv' /\ OrderInv'
  BY <1>1, <1>2, <1>4, <1>6, <1>7, Pushing DEF Ends
<1>9. sock' \in [Clients -> Socks]
  <2>1. sock[c] \in Socks /\ 0 \in 0..MaxSockets
    BY <1>2, CommandsAssumption DEF Types
  <2>2. [sock[c] EXCEPT !.now = 0] \in Socks
    BY <2>1 DEF Socks
  <2> QED
    BY <1>1, <1>2, <2>2 DEF Types
<1>10. \A d \in Clients :
          /\ sock'[d].now = (IF d = c THEN 0 ELSE sock[d].now)
          /\ sock'[d].made = sock[d].made /\ sock'[d].old = sock[d].old
          /\ sock[d].made \in Nat
  BY <1>1, <1>2 DEF Types, Socks
<1>11. \A i \in DOMAIN cmd :
          /\ cmd[i].client \in Clients /\ cmd[i].sock \in 1..MaxSockets
          /\ cmd'[i].client = cmd[i].client /\ cmd'[i].sock = cmd[i].sock
  BY <1>3, <1>4 DEF Cmds, Ends, Kept
<1>12. SockInv'
  BY <1>2, <1>4, <1>10, <1>11 DEF SockInv
<1>13. AnsweredOnce'
  <2> SUFFICES ASSUME NEW i \in DOMAIN cmd
               PROVE  /\ cmd'[i].said <= 1 /\ (cmd'[i].at # "settled" => cmd'[i].said = 0)
                      /\ cmd'[i].at = "settled" /\ cmd'[i].said = 0
                           => sock'[cmd'[i].client].now # cmd'[i].sock
    BY <1>4 DEF AnsweredOnce
  <2>1. CASE i \in mine
    <3>1. cmd'[i] = Dropped(cmd[i]) /\ cmd[i].said = 0 /\ cmd[i].client = c
      BY <1>1, <1>2, <2>1 DEF Pending, AnsweredOnce
    <3>2. cmd'[i].said = 0
      BY <1>3, <3>1 DEF Dropped, Cmds
    <3>3. sock'[cmd'[i].client].now # cmd'[i].sock
      BY <1>10, <1>11, <3>1
    <3> QED
      BY <3>2, <3>3
  <2>2. CASE i \notin mine
    <3>1. cmd'[i] = cmd[i]
      BY <1>1, <2>2
    <3> QED
      BY <1>2, <1>10, <1>11, <3>1 DEF AnsweredOnce
  <2> QED
    BY <2>1, <2>2
<1>14. Types'
  BY <1>1, <1>2, <1>4, <1>5, <1>6, <1>8, <1>9 DEF Types, Ends
<1> QED
  BY <1>5, <1>6, <1>8, <1>12, <1>13, <1>14 DEF IInv

LEMMA AcquireKeeps ==
    ASSUME IInv, NEW c \in Clients, Acquire(c)
    PROVE  IInv'
<1>1. /\ lease' = [client |-> c, fence |-> lease.made + 1, made |-> lease.made + 1]
      /\ lease.made < MaxFence /\ Push(lease'.fence)
      /\ UNCHANGED <<kind, link, epoch, sock, cmd, queue, relay, running, after, last>>
  BY DEF Acquire
<1>2. Types /\ SockInv /\ LeaseInv /\ AnsweredOnce /\ QueueInv /\ FlightInv /\ OrderInv
  BY DEF IInv
<1>3. lease.made \in Nat /\ lease.made + 1 \in Fence
  BY <1>1, <1>2, CommandsAssumption DEF Types, Leases, Fence
<1>4. lease' \in Leases /\ lease'.made >= lease.made /\ LeaseInv' /\ lease'.fence \in Fence
  BY <1>1, <1>3, ClientsDiffer DEF Leases, LeaseInv
<1>5. Kept /\ DOMAIN cmd' = DOMAIN cmd
  BY <1>1, SameTable
<1>6. wire' \in Seq(Frames) /\ FlightInv' /\ OrderInv'
  BY <1>1, <1>2, <1>4, <1>5, Pushing
<1>7. Types'
  BY <1>1, <1>2, <1>4, <1>6 DEF Types
<1>8. SockInv' /\ AnsweredOnce' /\ QueueInv'
  BY <1>1, <1>2, <1>5, SocksKept, SameQueue DEF AnsweredOnce
<1> QED
  BY <1>4, <1>6, <1>7, <1>8 DEF IInv

LEMMA LeaseEndsKeeps ==
    ASSUME IInv, LeaseEnds
    PROVE  IInv'
<1>1. /\ lease' = NoLease /\ Push(0)
      /\ UNCHANGED <<kind, link, epoch, sock, cmd, queue, relay, running, after, last>>
  BY DEF LeaseEnds
<1>2. Types /\ SockInv /\ LeaseInv /\ AnsweredOnce /\ QueueInv /\ FlightInv /\ OrderInv
  BY DEF IInv
<1>3. lease' \in Leases /\ lease'.made = lease.made /\ LeaseInv'
  BY <1>1, <1>2, NoLeaseTyped DEF Types, LeaseInv
<1>4. lease'.made >= lease.made /\ 0 \in Fence
  BY <1>2, <1>3, CommandsAssumption DEF Types, Leases, Fence
<1>5. Kept /\ DOMAIN cmd' = DOMAIN cmd
  BY <1>1, SameTable
<1>6. wire' \in Seq(Frames) /\ FlightInv' /\ OrderInv'
  BY <1>1, <1>2, <1>3, <1>4, <1>5, Pushing
<1>7. Types'
  BY <1>1, <1>2, <1>3, <1>6 DEF Types
<1>8. SockInv' /\ AnsweredOnce' /\ QueueInv'
  BY <1>1, <1>2, <1>5, SocksKept, SameQueue DEF AnsweredOnce
<1> QED
  BY <1>3, <1>6, <1>7, <1>8 DEF IInv

LEMMA TellKeeps ==
    ASSUME IInv, Tell
    PROVE  IInv'
<1>1. Push(lease.fence) /\ UNCHANGED <<kind, link, epoch, sock, lease, cmd, queue, relay, running, after, last>>
  BY DEF Tell
<1>2. Types /\ SockInv /\ LeaseInv /\ AnsweredOnce /\ QueueInv /\ FlightInv /\ OrderInv
  BY DEF IInv
<1>3. lease' \in Leases /\ lease'.made >= lease.made /\ lease.fence \in Fence
  BY <1>1, <1>2 DEF Types, Leases, Fence
<1>4. Kept /\ DOMAIN cmd' = DOMAIN cmd
  BY <1>1, SameTable
<1>5. wire' \in Seq(Frames) /\ FlightInv' /\ OrderInv'
  BY <1>1, <1>2, <1>3, <1>4, Pushing
<1>6. Types'
  BY <1>1, <1>2, <1>5 DEF Types
<1>7. SockInv' /\ AnsweredOnce' /\ QueueInv' /\ LeaseInv'
  BY <1>1, <1>2, <1>4, SocksKept, SameQueue DEF AnsweredOnce, LeaseInv
<1> QED
  BY <1>5, <1>6, <1>7 DEF IInv

-----------------------------------------------------------------------------
(* Commands.                                                               *)

\* A request that ends, and changes nothing else.
LEMMA AnswerKeeps ==
    ASSUME IInv, NEW ids, MayEnd(ids), Answer(ids),
           UNCHANGED <<kind, link, epoch, sock, lease, wire, relay, running, after, last>>
    PROVE  IInv'
<1>1. Types /\ SockInv /\ LeaseInv /\ AnsweredOnce /\ QueueInv /\ FlightInv /\ OrderInv
  BY DEF IInv
<1>2. Ends(ids) /\ Kept
  BY <1>1, AnswerEnds DEF Ends
<1>3. DOMAIN cmd' = DOMAIN cmd
  BY <1>1, <1>2 DEF Ends, Types
<1>4. AnsweredOnce' /\ QueueInv' /\ queue' \in Seq(Nat) /\ FlightInv' /\ SockInv'
  BY <1>1, <1>2, <1>3, AnswerOnce, EndsQueue, FlightKept, SocksKept
<1>5. LeaseInv' /\ OrderInv'
  BY <1>1 DEF LeaseInv, OrderInv
<1>6. Types'
  BY <1>1, <1>2, <1>3, <1>4 DEF Types, Ends
<1> QED
  BY <1>4, <1>5, <1>6 DEF IInv

LEMMA TimeoutKeeps ==
    ASSUME IInv, NEW i, Timeout(i)
    PROVE  IInv'
<1>1. MayEnd({i})
  BY DEF Timeout, MayEnd
<1> QED
  BY <1>1, AnswerKeeps DEF Timeout

LEMMA FrameTyped ==
    ASSUME NEW i \in Nat, NEW r \in Cmds
    PROVE  /\ Frame(i, r) \in Frames /\ Frame(i, r).id = i /\ Frame(i, r).fence = r.fence
BY DEF Frame, Frames, Cmds, Fence

LEMMA RunHeadKeeps ==
    ASSUME IInv, NEW busy, RunHead(busy)
    PROVE  IInv'
<1> DEFINE i == Head(queue)
<1>1. HeadWaits /\ UNCHANGED <<kind, link, epoch, sock, lease, relay, running, after, last>>
  BY DEF RunHead
<1>2. Types /\ SockInv /\ LeaseInv /\ AnsweredOnce /\ QueueInv /\ FlightInv /\ OrderInv
  BY DEF IInv
<1>3. queue # <<>> /\ i = queue[1] /\ 1 \in DOMAIN queue /\ i \in DOMAIN cmd /\ i \in Nat \ {0}
  BY <1>1, <1>2 DEF HeadWaits, Types, QueueInv
<1>4. CASE Answer({i}) /\ UNCHANGED wire
  <2>1. MayEnd({i})
    BY <1>3 DEF MayEnd
  <2> QED
    BY <1>1, <1>4, <2>1, AnswerKeeps
<1>5. CASE Valid(cmd[i]) /\ link /\ cmd' = Sent(cmd, i) /\ wire' = Wired(cmd, i) /\ UNCHANGED queue
  <2>1. cmd[i] \in Cmds /\ cmd[i].at = "queued" /\ cmd[i].kind # "plain"
    BY <1>1, <1>2, <1>3 DEF Types, HeadWaits, QueueInv
  <2>2. cmd' = [cmd EXCEPT ![i] = [@ EXCEPT !.at = "pending"]] /\ wire' = Append(wire, Frame(i, cmd[i]))
    BY <1>5 DEF Sent, Wired
  <2>3. [cmd[i] EXCEPT !.at = "pending"] \in Cmds
    BY <2>1 DEF Cmds
  <2>4. cmd' \in Seq(Cmds) /\ Len(cmd') = Len(cmd) /\ DOMAIN cmd' = DOMAIN cmd
    BY <1>2, <1>3, <2>2, <2>3 DEF Types
  <2>5. /\ \A j \in DOMAIN cmd : j # i => cmd'[j] = cmd[j]
        /\ cmd'[i] = [cmd[i] EXCEPT !.at = "pending"]
    BY <1>2, <1>3, <2>2 DEF Types
  <2>6. /\ cmd'[i].at = "pending" /\ cmd'[i].client = cmd[i].client /\ cmd'[i].sock = cmd[i].sock
        /\ cmd'[i].kind = cmd[i].kind /\ cmd'[i].fence = cmd[i].fence /\ cmd'[i].said = cmd[i].said
    BY <2>1, <2>5 DEF Cmds
  <2>7. Kept
    BY <2>4, <2>5, <2>6 DEF Kept
  <2>8. cmd[i].fence = lease.made
    BY <1>2, <1>5, <2>1, ClientsDiffer DEF Valid, LeaseInv, Cmds
  <2>9. wire' \in Seq(Frames) /\ FlightInv' /\ OrderInv'
    <3>1. /\ Frame(i, cmd[i]) \in Frames /\ Frame(i, cmd[i]).id = i /\ i # 0
          /\ Frame(i, cmd[i]).fence = lease'.made /\ cmd'[i].fence = lease'.made
      BY <1>1, <1>3, <2>1, <2>6, <2>8, FrameTyped
    <3>2. lease' \in Leases /\ lease'.made >= lease.made
      BY <1>1, <1>2 DEF Types, Leases, Fence
    <3> QED
      BY <1>1, <1>2, <1>3, <2>2, <2>4, <2>6, <2>7, <3>1, <3>2, Wiring
  <2>10. QueueInv'
    <3>1. UNCHANGED queue
      BY <1>5
    <3>2. \A j \in DOMAIN cmd : cmd'[j].kind = cmd[j].kind
      BY <2>5, <2>6
    <3>3. \A n \in DOMAIN queue : queue[n] \in DOMAIN cmd' /\ cmd'[queue[n]].kind # "plain"
      BY <1>2, <2>4, <3>2 DEF QueueInv
    <3>4. \A j \in Pending' : cmd'[j].kind # "plain" => queue # <<>> /\ j = Head(queue)
      BY <1>2, <1>3, <2>4, <2>5, <3>2 DEF QueueInv, Pending
    <3>5. \A j \in DOMAIN cmd' :
              cmd'[j].kind # "plain" /\ queue # <<>> /\ j > Head(queue) => cmd'[j].at = "queued"
      BY <1>2, <1>3, <2>4, <2>5, <3>2 DEF QueueInv
    <3> QED
      BY <1>2, <2>6, <3>1, <3>3, <3>4, <3>5 DEF QueueInv
  <2>11. SockInv' /\ AnsweredOnce'
    <3>1. SockInv'
      BY <1>1, <1>2, <2>4, <2>7, SocksKept
    <3>2. cmd'[i].said = 0
      BY <1>2, <1>3, <2>1, <2>6 DEF AnsweredOnce
    <3>3. AnsweredOnce'
      BY <1>1, <1>2, <2>4, <2>5, <2>6, <3>2, ZenonT(60) DEF AnsweredOnce
    <3> QED
      BY <3>1, <3>3
  <2>12. Types' /\ LeaseInv'
    BY <1>1, <1>2, <1>5, <2>4, <2>9 DEF Types, LeaseInv
  <2> QED
    BY <2>9, <2>10, <2>11, <2>12 DEF IInv
<1> QED
  BY <1>4, <1>5 DEF RunHead

LEMMA Appended ==
    ASSUME NEW S, NEW t \in Seq(S), NEW e \in S, NEW u, u = Append(t, e)
    PROVE  /\ u \in Seq(S) /\ Len(u) = Len(t) + 1 /\ u # <<>>
           /\ DOMAIN u = DOMAIN t \cup {Len(t) + 1}
           /\ Len(t) \in Nat /\ DOMAIN t = 1..Len(t) /\ Len(t) + 1 \notin DOMAIN t
           /\ \A j \in DOMAIN t : j \in Nat /\ j < Len(t) + 1
           /\ u[Len(t) + 1] = e /\ \A j \in DOMAIN t : u[j] = t[j]
OBVIOUS

LEMMA CommandKeeps ==
    ASSUME IInv, NEW c \in Clients, NEW n \in Sockets(c), NEW k \in Works,
           Command(c, n, k)
    PROVE  IInv'
<1> DEFINE i == Len(cmd) + 1
           r == [client |-> c, sock |-> n, kind |-> k, fence |-> lease.fence,
                 epoch |-> epoch, at |-> "queued", said |-> 0]
           sent == [r EXCEPT !.at = "pending"]
<1>1. /\ i <= MaxCommands /\ link /\ lease.client = c
      /\ UNCHANGED <<kind, link, epoch, sock, lease, relay, running, after, last>>
  BY DEF Command
<1>2. Types /\ SockInv /\ LeaseInv /\ AnsweredOnce /\ QueueInv /\ FlightInv /\ OrderInv
  BY DEF IInv
<1>3. n \in 1..MaxSockets /\ n <= sock[c].made
  <2>1. /\ sock[c].now \in 0..MaxSockets /\ sock[c].old \subseteq 1..MaxSockets
        /\ sock[c].now <= sock[c].made /\ \A m \in sock[c].old : m <= sock[c].made
    BY <1>2 DEF Types, Socks, SockInv
  <2>2. CASE n \in sock[c].old
    BY <2>1, <2>2
  <2>3. CASE n = sock[c].now /\ n # 0
    BY <2>1, <2>3
  <2> QED
    BY <2>2, <2>3 DEF Sockets
<1>4. lease.fence = lease.made /\ lease.fence \in Fence \ {0}
  BY <1>1, <1>2, ClientsDiffer DEF LeaseInv, Types, Leases
<1>5. r \in Cmds /\ sent \in Cmds
  <2>1. epoch \in 0..MaxEpochs /\ 0 \in 0..2
    BY <1>2 DEF Types
  <2>2. {"queued", "pending"} \subseteq {"queued", "pending", "settled"}
    OBVIOUS
  <2> QED
    BY <1>3, <1>4, <2>1, <2>2 DEF Cmds
<1>6. Append(cmd, r) \in Seq(Cmds) /\ Append(cmd, sent) \in Seq(Cmds)
  BY <1>2, <1>5 DEF Types
<1>7. ASSUME NEW q \in {r, sent}, cmd' = Append(cmd, q)
      PROVE  /\ cmd' \in Seq(Cmds) /\ Len(cmd') = i /\ DOMAIN cmd' = DOMAIN cmd \cup {i}
             /\ i \notin DOMAIN cmd /\ i \in Nat \ {0} /\ \A j \in DOMAIN cmd : j \in Nat /\ j < i
             /\ cmd'[i] = q /\ \A j \in DOMAIN cmd : cmd'[j] = cmd[j]
             /\ Kept /\ SockInv' /\ AnsweredOnce'
  <2>1. /\ cmd' \in Seq(Cmds) /\ Len(cmd') = i /\ DOMAIN cmd' = DOMAIN cmd \cup {i}
        /\ i \notin DOMAIN cmd /\ i \in Nat \ {0} /\ \A j \in DOMAIN cmd : j \in Nat /\ j < i
        /\ cmd'[i] = q /\ \A j \in DOMAIN cmd : cmd'[j] = cmd[j]
    BY <1>2, <1>5, <1>7, Appended, SMTT(30) DEF Types
  <2>2. Kept
    BY <2>1 DEF Kept
  <2>3. q.client = c /\ q.sock = n /\ q.said = 0 /\ q.at # "settled"
    OBVIOUS
  <2>4. SockInv'
    BY <1>1, <1>2, <1>3, <2>1, <2>3 DEF SockInv
  <2>5. AnsweredOnce'
    BY <1>1, <1>2, <2>1, <2>3 DEF AnsweredOnce
  <2> QED
    BY <2>1, <2>2, <2>4, <2>5
<1>8. CASE k # "plain" /\ cmd' = Append(cmd, r) /\ queue' = Append(queue, i) /\ UNCHANGED wire
  <2>1. /\ cmd' \in Seq(Cmds) /\ Len(cmd') = i /\ DOMAIN cmd' = DOMAIN cmd \cup {i}
        /\ i \notin DOMAIN cmd /\ i \in Nat \ {0} /\ \A j \in DOMAIN cmd : j \in Nat /\ j < i
        /\ cmd'[i] = r /\ \A j \in DOMAIN cmd : cmd'[j] = cmd[j]
        /\ Kept /\ SockInv' /\ AnsweredOnce'
    BY <1>7, <1>8
  <2>2. /\ queue' \in Seq(Nat) /\ DOMAIN queue' = DOMAIN queue \cup {Len(queue) + 1}
        /\ \A m \in DOMAIN queue : queue'[m] = queue[m]
        /\ queue'[Len(queue) + 1] = i /\ queue' # <<>> /\ Len(queue) \in Nat /\ DOMAIN queue = 1..Len(queue)
    <3>1. queue \in Seq(Nat) /\ i \in Nat /\ queue' = Append(queue, i)
      BY <1>2, <1>8, <2>1 DEF Types
    <3> HIDE DEF i
    <3> QED
      BY <3>1, Appended
  <2>3. r.kind # "plain" /\ r.at = "queued"
    BY <1>8
  <2>4. Head(queue') = IF queue = <<>> THEN i ELSE Head(queue)
    <3>1. Head(queue') = queue'[1] /\ queue \in Seq(Nat)
      BY <1>2, <2>2 DEF Types
    <3>2. CASE queue = <<>>
      <4>1. Len(queue) = 0
        BY <3>2
      <4> QED
        BY <2>2, <3>1, <3>2, <4>1
    <3>3. CASE queue # <<>>
      <4>1. 1 \in DOMAIN queue /\ queue[1] = Head(queue)
        BY <3>1, <3>3
      <4> QED
        BY <2>2, <3>1, <3>3, <4>1
    <3> QED
      BY <3>2, <3>3
  <2>5. queue # <<>> => Head(queue) \in DOMAIN cmd
    BY <1>2 DEF QueueInv, Types
  <2>6. \A m \in DOMAIN queue' : queue'[m] \in DOMAIN cmd' /\ cmd'[queue'[m]].kind # "plain"
    BY <1>2, <2>1, <2>2, <2>3 DEF QueueInv
  <2>7. \A l, m \in DOMAIN queue' : l < m => queue'[l] < queue'[m]
    BY <1>2, <2>1, <2>2 DEF QueueInv
  <2>8. cmd'[Head(queue')].at # "settled"
    BY <1>2, <2>1, <2>3, <2>4, <2>5 DEF QueueInv
  <2>9. \A j \in Pending' : cmd'[j].kind # "plain" => j = Head(queue')
    BY <1>2, <2>1, <2>3, <2>4, <2>5 DEF QueueInv, Pending
  <2>10. \A j \in DOMAIN cmd' :
             cmd'[j].kind # "plain" /\ j > Head(queue') => cmd'[j].at = "queued"
    BY <1>2, <2>1, <2>3, <2>4, <2>5 DEF QueueInv
  <2>11. QueueInv'
    BY <2>2, <2>6, <2>7, <2>8, <2>9, <2>10 DEF QueueInv
  <2>12. FlightInv' /\ LeaseInv' /\ OrderInv'
    BY <1>1, <1>2, <1>8, <2>1, FlightKept DEF LeaseInv, OrderInv
  <2>13. Types'
    BY <1>1, <1>2, <1>8, <2>1, <2>2 DEF Types
  <2> QED
    BY <2>1, <2>11, <2>12, <2>13 DEF IInv
<1>9. CASE k = "plain" /\ cmd' = Sent(Append(cmd, r), i) /\ wire' = Wired(Append(cmd, r), i)
           /\ UNCHANGED queue
  <2>1. Append(cmd, r)[i] = r /\ cmd' = Append(cmd, sent)
    <3>1. Append(cmd, r)[i] = r
      BY <1>2, <1>5 DEF Types
    <3>2. cmd' = [Append(cmd, r) EXCEPT ![i] = [@ EXCEPT !.at = "pending"]]
      BY <1>1, <1>9 DEF Sent
    <3>3. [Append(cmd, r) EXCEPT ![i] = sent] = Append(cmd, sent)
      <4>1. /\ Append(cmd, r) \in Seq(Cmds) /\ Append(cmd, sent) \in Seq(Cmds)
            /\ Len(Append(cmd, r)) = i /\ Len(Append(cmd, sent)) = i /\ i \in 1..i
        BY <1>2, <1>6 DEF Types
      <4>2. /\ [Append(cmd, r) EXCEPT ![i] = sent] \in Seq(Cmds)
            /\ Len([Append(cmd, r) EXCEPT ![i] = sent]) = i
            /\ \A j \in 1..i : [Append(cmd, r) EXCEPT ![i] = sent][j] =
                                   IF j = i THEN sent ELSE Append(cmd, r)[j]
        <5> DEFINE t == Append(cmd, r)
        <5>1. t \in Seq(Cmds) /\ Len(t) = i /\ i \in 1..Len(t) /\ sent \in Cmds
          BY <1>5, <4>1
        <5> HIDE DEF t, i, sent
        <5>2. /\ [t EXCEPT ![i] = sent] \in Seq(Cmds) /\ Len([t EXCEPT ![i] = sent]) = Len(t)
              /\ \A j \in 1..Len(t) : [t EXCEPT ![i] = sent][j] = IF j = i THEN sent ELSE t[j]
          BY <5>1, ExceptSeq
        <5> QED
          BY <5>1, <5>2 DEF t
      <4>3. \A j \in 1..i : [Append(cmd, r) EXCEPT ![i] = sent][j] = Append(cmd, sent)[j]
        BY <1>2, <4>2 DEF Types
      <4> QED
        BY <4>1, <4>2, <4>3, SeqEqual
    <3> QED
      BY <3>1, <3>2, <3>3
  <2>2. /\ cmd' \in Seq(Cmds) /\ Len(cmd') = i /\ DOMAIN cmd' = DOMAIN cmd \cup {i}
        /\ i \notin DOMAIN cmd /\ i \in Nat \ {0} /\ \A j \in DOMAIN cmd : j \in Nat /\ j < i
        /\ cmd'[i] = sent /\ \A j \in DOMAIN cmd : cmd'[j] = cmd[j]
        /\ Kept /\ SockInv' /\ AnsweredOnce'
    BY <1>7, <2>1
  <2>3. sent.kind = "plain" /\ sent.at # "queued" /\ sent.fence = lease.made
    BY <1>4, <1>9
  <2>4. QueueInv'
    <3>1. \A m \in DOMAIN queue : queue[m] \in DOMAIN cmd' /\ cmd'[queue[m]].kind # "plain"
      BY <1>2, <2>2 DEF QueueInv
    <3>2. queue # <<>> => cmd'[Head(queue)].at # "settled"
      <4>1. queue # <<>> => Head(queue) \in DOMAIN cmd
        BY <1>2 DEF QueueInv, Types
      <4> QED
        BY <1>2, <2>2, <4>1 DEF QueueInv
    <3>3. \A j \in Pending' : cmd'[j].kind # "plain" => queue # <<>> /\ j = Head(queue)
      BY <1>2, <2>2, <2>3 DEF QueueInv, Pending
    <3>4. \A j \in DOMAIN cmd' :
              cmd'[j].kind # "plain" /\ queue # <<>> /\ j > Head(queue) => cmd'[j].at = "queued"
      BY <1>2, <2>2, <2>3 DEF QueueInv
    <3> QED
      BY <1>2, <1>9, <3>1, <3>2, <3>3, <3>4 DEF QueueInv
  <2>5. wire' \in Seq(Frames) /\ FlightInv' /\ OrderInv'
    <3>1. wire' = Append(wire, Frame(i, r))
      BY <1>1, <1>9, <2>1 DEF Wired
    <3>2. /\ Frame(i, r) \in Frames /\ Frame(i, r).id = i /\ i # 0
          /\ Frame(i, r).fence = lease'.made /\ cmd'[i].fence = lease'.made /\ cmd'[i].at # "queued"
      BY <1>1, <1>4, <1>5, <2>2, <2>3, FrameTyped
    <3>3. lease' \in Leases /\ lease'.made >= lease.made
      BY <1>1, <1>2 DEF Types, Leases, Fence
    <3> QED
      BY <1>1, <1>2, <2>2, <3>1, <3>2, <3>3, Wiring
  <2>6. Types' /\ LeaseInv'
    BY <1>1, <1>2, <1>9, <2>2, <2>5 DEF Types, LeaseInv
  <2> QED
    BY <2>2, <2>4, <2>5, <2>6 DEF IInv
<1> QED
  BY <1>8, <1>9 DEF Command

-----------------------------------------------------------------------------
(* The source.                                                             *)

\* The frames that are left, and the links that are left, follow the ones before.
Left(d, e) ==
    /\ wire' \in Seq(Frames) /\ relay' \in Relays
    /\ \A n \in DOMAIN wire' : n + d \in DOMAIN wire /\ wire'[n] = wire[n + d]
    /\ \A n \in DOMAIN relay'.chain :
           /\ n + e \in DOMAIN relay.chain
           /\ relay'.chain[n].fence = relay.chain[n + e].fence
           /\ relay'.chain[n].id = relay.chain[n + e].id

LEMMA OrderLeft ==
    ASSUME Types, OrderInv, NEW d \in Nat, NEW e \in Nat, Left(d, e), UNCHANGED lease,
           last' \in Int, last' <= lease.made,
           \A n \in DOMAIN wire' : wire'[n].id # 0 => last' <= wire'[n].fence,
           \A n \in DOMAIN relay'.chain : last' <= relay'.chain[n].fence
    PROVE  OrderInv'
<1>1. wire \in Seq(Frames) /\ relay.chain \in Seq(Links) /\ relay'.chain \in Seq(Links)
  BY Numbers, ChainNumbers DEF Left
<1>2. ASSUME NEW n \in DOMAIN wire', wire'[n].id # 0
      PROVE  /\ wire'[n].fence <= lease.made
             /\ \A m \in 1..(n - 1) : wire'[m].id # 0 => wire'[m].fence <= wire'[n].fence
             /\ \A m \in DOMAIN relay'.chain : relay'.chain[m].fence <= wire'[n].fence
  <2>1. n + d \in DOMAIN wire /\ wire'[n] = wire[n + d] /\ n \in Nat
    BY <1>1 DEF Left
  <2>2. \A m \in 1..(n - 1) : m + d \in 1..(n + d - 1) /\ m \in DOMAIN wire' /\ wire'[m] = wire[m + d]
    BY <2>1 DEF Left
  <2>3. \A m \in 1..(n - 1) : wire'[m].id # 0 => wire'[m].fence <= wire'[n].fence
    <3>1. wire[n + d].id # 0 /\ n + d \in DOMAIN wire
      BY <1>2, <2>1
    <3>2. \A l \in 1..((n + d) - 1) : wire[l].id # 0 => wire[l].fence <= wire[n + d].fence
      BY <3>1 DEF OrderInv
    <3> QED
      BY <2>1, <2>2, <3>2
  <2> QED
    BY <1>2, <2>1, <2>3 DEF OrderInv, Left
<1>3. ASSUME NEW n \in DOMAIN relay'.chain
      PROVE  /\ relay'.chain[n].fence <= lease.made
             /\ \A m \in 1..(n - 1) : relay'.chain[m].fence <= relay'.chain[n].fence
  <2>1. /\ n + e \in DOMAIN relay.chain /\ relay'.chain[n].fence = relay.chain[n + e].fence
        /\ n \in Nat
    BY <1>1 DEF Left
  <2>2. \A m \in 1..(n - 1) : m + e \in 1..(n + e - 1) /\ m \in DOMAIN relay'.chain
    BY <1>1, <2>1, SMTT(30)
  <2>3. \A m \in 1..(n - 1) : relay'.chain[m].fence <= relay'.chain[n].fence
    BY <2>1, <2>2, SMTT(30) DEF OrderInv, Left
  <2> QED
    BY <2>1, <2>3 DEF OrderInv
<1> QED
  BY <1>2, <1>3 DEF OrderInv

LEMMA FlightLeft ==
    ASSUME Types, FlightInv, NEW d \in Nat, NEW e \in Nat, Left(d, e), Kept, UNCHANGED kind,
           \A i \in running' \cup after' : i \in DOMAIN cmd' /\ cmd'[i].at # "queued",
           Desktop => \A i \in running' : relay'.chain # <<>> /\ i = Head(relay'.chain).id
    PROVE  FlightInv'
<1>1. Desktop' = Desktop
  BY DEF Desktop
<1>2. \A n \in DOMAIN wire' : wire'[n].id # 0 =>
          /\ wire'[n].id \in DOMAIN cmd' /\ cmd'[wire'[n].id].at # "queued"
          /\ wire'[n].fence = cmd'[wire'[n].id].fence
  BY DEF FlightInv, Flown, Kept, Left
<1>3. \A n \in DOMAIN relay'.chain :
          LET r == relay'.chain[n]
          IN  r.id \in DOMAIN cmd' /\ cmd'[r.id].at # "queued" /\ r.fence = cmd'[r.id].fence
  BY DEF FlightInv, Flown, Kept, Left
<1>4. ~Desktop => \A n \in DOMAIN wire' : wire'[n].id # 0
  BY DEF FlightInv, Left
<1>5. ~Desktop => relay'.chain = <<>>
  <2>1. relay'.chain \in Seq(Links)
    BY ChainNumbers DEF Left
  <2>2. ASSUME ~Desktop PROVE DOMAIN relay'.chain = {}
    BY <2>2 DEF FlightInv, Left
  <2>3. ~Desktop => Len(relay'.chain) = 0
    <3> DEFINE new == relay'.chain
    <3>1. Len(new) \in Nat /\ DOMAIN new = 1..Len(new)
      BY <2>1
    <3>2. Len(new) # 0 => 1 \in DOMAIN new
      BY <3>1
    <3> QED
      BY <2>2, <3>2
  <2> QED
    BY <2>1, <2>3
<1> QED
  BY <1>1, <1>2, <1>3, <1>4, <1>5 DEF FlightInv, Flown

LEMMA TailLeft ==
    ASSUME NEW S, NEW s \in Seq(S), s # <<>>, NEW t, t = Tail(s)
    PROVE  /\ t \in Seq(S) /\ Len(t) = Len(s) - 1 /\ Head(s) = s[1] /\ 1 \in DOMAIN s
           /\ Head(s) \in S
           /\ \A n \in DOMAIN t : n + 1 \in DOMAIN s /\ t[n] = s[n + 1] /\ n \in Nat \ {0}
OBVIOUS

LEMMA OutdatedLinks ==
    ASSUME NEW s \in Seq(Links), NEW t, t = Outdated(s)
    PROVE  /\ t \in Seq(Links) /\ Len(t) = Len(s) /\ DOMAIN t = DOMAIN s
           /\ \A n \in DOMAIN s : t[n].id = s[n].id /\ t[n].fence = s[n].fence
<1>1. DOMAIN t = DOMAIN s /\ Len(s) \in Nat /\ DOMAIN s = 1..Len(s)
  BY DEF Outdated
<1>2. \A n \in DOMAIN s : s[n] \in Links /\ t[n] = [s[n] EXCEPT !.current = FALSE]
  BY DEF Outdated
<1>3. \A n \in DOMAIN s : t[n] \in Links /\ t[n].id = s[n].id /\ t[n].fence = s[n].fence
  BY <1>2 DEF Links
<1>4. t \in [DOMAIN s -> Links]
  BY <1>3 DEF Outdated
<1>5. t \in UNION {[1..n -> Links] : n \in Nat}
  BY <1>1, <1>4
<1>6. t \in Seq(Links)
  BY <1>5, SeqDef
<1>7. 1..Len(t) = 1..Len(s) /\ Len(t) \in Nat
  BY <1>1, <1>6
<1> QED
  BY <1>1, <1>3, <1>6, <1>7

LEMMA FlightTyped ==
    ASSUME Types
    PROVE  /\ wire \in Seq(Frames) /\ relay \in Relays /\ relay.chain \in Seq(Links)
           /\ relay.epoch \in 0..MaxEpochs /\ relay.owner \in Fence /\ relay.highest \in Fence
           /\ Len(relay.chain) <= MaxDepth /\ Len(relay.chain) \in Nat
BY DEF Types, Relays

\* The relay's links stay the same, but for being up to date; a command may end.
LEMMA SameLinks ==
    ASSUME IInv, Kept, relay' \in Relays,
           relay'.chain = relay.chain \/ relay'.chain = Outdated(relay.chain),
           UNCHANGED <<kind, lease, last, running, after>>,
           wire' = wire \/ wire' = <<>> \/ (wire # <<>> /\ wire' = Tail(wire))
    PROVE  /\ FlightInv' /\ OrderInv' /\ wire' \in Seq(Frames)
           /\ relay'.chain \in Seq(Links) /\ Len(relay'.chain) <= MaxDepth
<1>1. Types /\ FlightInv /\ OrderInv
  BY DEF IInv
<1>2. /\ relay'.chain \in Seq(Links) /\ Len(relay'.chain) = Len(relay.chain)
      /\ DOMAIN relay'.chain = DOMAIN relay.chain
      /\ \A n \in DOMAIN relay.chain :
            relay'.chain[n].id = relay.chain[n].id /\ relay'.chain[n].fence = relay.chain[n].fence
  BY <1>1, FlightTyped, OutdatedLinks
<1>3. PICK d \in Nat : Left(d, 0)
  <2>1. \A n \in DOMAIN relay'.chain :
             /\ n + 0 \in DOMAIN relay.chain
             /\ relay'.chain[n].fence = relay.chain[n + 0].fence
             /\ relay'.chain[n].id = relay.chain[n + 0].id
    BY <1>2
  <2>2. CASE wire' = wire
    <3>1. wire' \in Seq(Frames) /\ \A n \in DOMAIN wire' : n + 0 \in DOMAIN wire /\ wire'[n] = wire[n + 0]
      BY <1>1, <2>2, FlightTyped
    <3>2. Left(0, 0)
      BY <2>1, <3>1 DEF Left
    <3> QED
      BY <3>2
  <2>3. CASE wire' = <<>>
    <3>1. wire' \in Seq(Frames) /\ \A n \in DOMAIN wire' : n + 0 \in DOMAIN wire /\ wire'[n] = wire[n + 0]
      BY <2>3
    <3>2. Left(0, 0)
      BY <2>1, <3>1 DEF Left
    <3> QED
      BY <3>2
  <2>4. CASE wire # <<>> /\ wire' = Tail(wire)
    <3>1. wire' \in Seq(Frames) /\ \A n \in DOMAIN wire' : n + 1 \in DOMAIN wire /\ wire'[n] = wire[n + 1]
      BY <1>1, <2>4, FlightTyped, TailLeft
    <3>2. Left(1, 0)
      BY <2>1, <3>1 DEF Left
    <3> QED
      BY <3>2
  <2> QED
    BY <2>2, <2>3, <2>4
<1>4. FlightInv'
  <2>1. \A i \in running' \cup after' : i \in DOMAIN cmd' /\ cmd'[i].at # "queued"
    BY <1>1 DEF Kept, FlightInv, Types
  <2>2. relay.chain # <<>> => relay'.chain # <<>> /\ Head(relay'.chain).id = Head(relay.chain).id
    <3> SUFFICES ASSUME relay.chain # <<>>
                 PROVE  relay'.chain # <<>> /\ Head(relay'.chain).id = Head(relay.chain).id
      OBVIOUS
    <3>1. 1 \in DOMAIN relay.chain /\ Head(relay.chain) = relay.chain[1]
      BY <1>1, FlightTyped
    <3>2. relay'.chain # <<>> /\ Head(relay'.chain) = relay'.chain[1]
      BY <1>2, <3>1
    <3> QED
      BY <1>2, <3>1, <3>2
  <2>3. Desktop => \A i \in running' : relay'.chain # <<>> /\ i = Head(relay'.chain).id
    BY <1>1, <2>2 DEF FlightInv
  <2> QED
    BY <1>1, <1>3, <2>1, <2>3, FlightLeft
<1>5. OrderInv'
  <2>1. last' \in Int /\ last' <= lease.made
    BY <1>1, Numbers DEF OrderInv
  <2>2. \A n \in DOMAIN wire' : wire'[n].id # 0 => last' <= wire'[n].fence
    BY <1>1, <1>3 DEF OrderInv, Left
  <2>3. \A n \in DOMAIN relay'.chain : last' <= relay'.chain[n].fence
    BY <1>1, <1>2 DEF OrderInv
  <2> QED
    BY <1>1, <1>3, <2>1, <2>2, <2>3, OrderLeft
<1> QED
  BY <1>1, <1>2, <1>3, <1>4, <1>5, FlightTyped DEF Left

LEMMA PiReadsKeeps ==
    ASSUME IInv, PiReads
    PROVE  /\ IInv'
           /\ \A i \in running' \ running : cmd[i].fence >= last
<1> DEFINE f == Head(wire)
<1>1. /\ ~Desktop /\ wire # <<>> /\ wire' = Tail(wire)
      /\ running' = running \cup {f.id} /\ last' = cmd[f.id].fence
      /\ UNCHANGED <<kind, link, epoch, sock, lease, cmd, queue, relay, after>>
  BY DEF PiReads, Start
<1>2. Types /\ SockInv /\ LeaseInv /\ AnsweredOnce /\ QueueInv /\ FlightInv /\ OrderInv
  BY DEF IInv
<1>3. /\ wire' \in Seq(Frames) /\ f = wire[1] /\ 1 \in DOMAIN wire /\ f \in Frames
      /\ \A n \in DOMAIN wire' : n + 1 \in DOMAIN wire /\ wire'[n] = wire[n + 1] /\ n \in Nat \ {0}
  BY <1>1, <1>2, FlightTyped, TailLeft
<1>4. /\ f.id \in DOMAIN cmd /\ cmd[f.id].at # "queued" /\ cmd[f.id].fence = f.fence
      /\ f.id # 0 /\ f.fence \in Fence
      /\ last <= f.fence /\ f.fence <= lease.made /\ f.fence \in Int /\ last \in Int
  BY <1>1, <1>2, <1>3, Numbers DEF FlightInv, Flown, OrderInv, Frames
<1>5. Left(1, 0)
  <2>1. \A n \in DOMAIN relay.chain : n + 0 = n
    BY <1>2, FlightTyped
  <2> QED
    BY <1>1, <1>2, <1>3, <2>1, FlightTyped DEF Left
<1>6. Kept /\ DOMAIN cmd' = DOMAIN cmd
  BY <1>1, SameTable
<1>7. FlightInv'
  <2>1. \A i \in running' \cup after' : i \in DOMAIN cmd' /\ cmd'[i].at # "queued"
    BY <1>1, <1>2, <1>4 DEF FlightInv, Types
  <2> QED
    BY <1>1, <1>2, <1>5, <1>6, <2>1, FlightLeft
<1>8. OrderInv'
  <2>1. \A n \in DOMAIN wire' : wire'[n].id # 0 => last' <= wire'[n].fence
    <3> SUFFICES ASSUME NEW n \in DOMAIN wire', wire'[n].id # 0 PROVE last' <= wire'[n].fence
      OBVIOUS
    <3>1. 1 \in 1..((n + 1) - 1) /\ wire[n + 1].id # 0 /\ n + 1 \in DOMAIN wire
      BY <1>3
    <3> QED
      BY <1>1, <1>2, <1>3, <1>4, <3>1 DEF OrderInv
  <2>2. \A n \in DOMAIN relay'.chain : FALSE
    BY <1>1, <1>2 DEF FlightInv
  <2> QED
    BY <1>1, <1>2, <1>4, <1>5, <2>1, <2>2, OrderLeft
<1>9. Types'
  BY <1>1, <1>2, <1>3, <1>4 DEF Types
<1>10. SockInv' /\ LeaseInv' /\ AnsweredOnce' /\ QueueInv'
  BY <1>1, <1>2, <1>6, SocksKept, SameQueue DEF LeaseInv, AnsweredOnce
<1> QED
  BY <1>1, <1>4, <1>7, <1>8, <1>9, <1>10 DEF IInv

LEMMA RelayHearsKeeps ==
    ASSUME IInv, RelayHears
    PROVE  IInv'
<1> DEFINE f == Head(wire).fence
<1>1. /\ wire # <<>> /\ wire' = Tail(wire)
      /\ relay' = [relay EXCEPT !.owner = f,
                                !.chain = IF f = relay.owner THEN @ ELSE Outdated(@),
                                !.highest = IF f > @ THEN f ELSE @]
      /\ UNCHANGED <<kind, link, epoch, sock, lease, cmd, queue, running, after, last>>
  BY DEF RelayHears
<1>2. Types /\ SockInv /\ LeaseInv /\ AnsweredOnce /\ QueueInv /\ FlightInv /\ OrderInv
  BY DEF IInv
<1>3. f \in Fence
  <2>1. Head(wire) \in Frames
    BY <1>1, <1>2, FlightTyped, TailLeft
  <2> QED
    BY <2>1 DEF Frames
<1>4. relay'.chain = relay.chain \/ relay'.chain = Outdated(relay.chain)
  BY <1>1, <1>2 DEF Types, Relays
<1>5. relay' \in Relays
  <2>1. Outdated(relay.chain) \in Seq(Links)
    BY <1>2, FlightTyped, OutdatedLinks
  <2> QED
    BY <1>1, <1>2, <1>3, <2>1 DEF Types, Relays
<1>6. Kept /\ DOMAIN cmd' = DOMAIN cmd
  BY <1>1, SameTable
<1>7. FlightInv' /\ OrderInv' /\ wire' \in Seq(Frames) /\ Len(relay'.chain) <= MaxDepth
  BY <1>1, <1>4, <1>5, <1>6, SameLinks
<1>8. Types'
  BY <1>1, <1>2, <1>5, <1>7 DEF Types
<1>9. SockInv' /\ LeaseInv' /\ AnsweredOnce' /\ QueueInv'
  BY <1>1, <1>2, <1>6, SocksKept, SameQueue DEF LeaseInv, AnsweredOnce
<1> QED
  BY <1>7, <1>8, <1>9 DEF IInv

LEMMA NewEpochTyped ==
    ASSUME Types, relay.epoch < MaxEpochs
    PROVE  /\ NewEpoch(relay.epoch + 1) \in Relays
           /\ NewEpoch(relay.epoch + 1).chain = Outdated(relay.chain)
           /\ relay.epoch + 1 \in 0..MaxEpochs
<1>1. relay.epoch + 1 \in 0..MaxEpochs /\ 0 \in Fence
  BY FlightTyped, CommandsAssumption DEF Fence
<1>2. Outdated(relay.chain) \in Seq(Links)
  BY FlightTyped, OutdatedLinks
<1> QED
  BY <1>1, <1>2, FlightTyped DEF NewEpoch, Relays

LEMMA SourceReturnsKeeps ==
    ASSUME IInv, SourceReturns
    PROVE  IInv'
<1>1. /\ relay.epoch < MaxEpochs /\ link' = TRUE /\ relay' = NewEpoch(relay.epoch + 1)
      /\ epoch' = relay.epoch + 1
      /\ UNCHANGED <<kind, sock, lease, cmd, queue, wire, running, after, last>>
  BY DEF SourceReturns
<1>2. Types /\ SockInv /\ LeaseInv /\ AnsweredOnce /\ QueueInv /\ FlightInv /\ OrderInv
  BY DEF IInv
<1>3. relay' \in Relays /\ relay'.chain = Outdated(relay.chain) /\ epoch' \in 0..MaxEpochs
  BY <1>1, <1>2, NewEpochTyped
<1>4. Kept /\ DOMAIN cmd' = DOMAIN cmd
  BY <1>1, SameTable
<1>5. FlightInv' /\ OrderInv' /\ Len(relay'.chain) <= MaxDepth
  BY <1>1, <1>3, <1>4, SameLinks
<1>6. Types'
  BY <1>1, <1>2, <1>3, <1>5 DEF Types
<1>7. SockInv' /\ LeaseInv' /\ AnsweredOnce' /\ QueueInv'
  BY <1>1, <1>2, <1>4, SocksKept, SameQueue DEF LeaseInv, AnsweredOnce
<1> QED
  BY <1>5, <1>6, <1>7 DEF IInv

LEMMA RelayResnapshotsKeeps ==
    ASSUME IInv, RelayResnapshots
    PROVE  IInv'
<1>1. /\ relay.epoch < MaxEpochs /\ relay' = NewEpoch(relay.epoch + 1)
      /\ UNCHANGED <<kind, link, epoch, sock, lease, cmd, queue, wire, running, after, last>>
  BY DEF RelayResnapshots
<1>2. Types /\ SockInv /\ LeaseInv /\ AnsweredOnce /\ QueueInv /\ FlightInv /\ OrderInv
  BY DEF IInv
<1>3. relay' \in Relays /\ relay'.chain = Outdated(relay.chain)
  BY <1>1, <1>2, NewEpochTyped
<1>4. Kept /\ DOMAIN cmd' = DOMAIN cmd
  BY <1>1, SameTable
<1>5. FlightInv' /\ OrderInv' /\ Len(relay'.chain) <= MaxDepth
  BY <1>1, <1>3, <1>4, SameLinks
<1>6. Types'
  BY <1>1, <1>2, <1>3, <1>5 DEF Types
<1>7. SockInv' /\ LeaseInv' /\ AnsweredOnce' /\ QueueInv'
  BY <1>1, <1>2, <1>4, SocksKept, SameQueue DEF LeaseInv, AnsweredOnce
<1> QED
  BY <1>5, <1>6, <1>7 DEF IInv

LEMMA HubSeesEpochKeeps ==
    ASSUME IInv, HubSeesEpoch
    PROVE  IInv'
<1>1. epoch' = relay.epoch
      /\ UNCHANGED <<kind, link, sock, lease, cmd, queue, wire, relay, running, after, last>>
  BY DEF HubSeesEpoch
<1>2. Types /\ SockInv /\ LeaseInv /\ AnsweredOnce /\ QueueInv /\ FlightInv /\ OrderInv
  BY DEF IInv
<1>3. Types' /\ Kept /\ DOMAIN cmd' = DOMAIN cmd
  BY <1>1, <1>2, FlightTyped, SameTable DEF Types
<1>4. /\ SockInv' /\ LeaseInv' /\ AnsweredOnce' /\ QueueInv' /\ FlightInv' /\ OrderInv'
  BY <1>1, <1>2, <1>3, SocksKept, SameQueue, FlightKept DEF LeaseInv, AnsweredOnce, OrderInv
<1> QED
  BY <1>3, <1>4 DEF IInv

LEMMA SourceGoesKeeps ==
    ASSUME IInv, SourceGoes
    PROVE  IInv'
<1>1. /\ link' = FALSE /\ wire' = <<>> /\ Answer(Pending)
      /\ running' \subseteq running /\ after' \subseteq after
      /\ UNCHANGED <<kind, epoch, sock, lease, relay, last>>
  BY DEF SourceGoes
<1>2. Types /\ SockInv /\ LeaseInv /\ AnsweredOnce /\ QueueInv /\ FlightInv /\ OrderInv
  BY DEF IInv
<1>3. MayEnd(Pending)
  BY DEF MayEnd
<1>4. Ends(Pending) /\ Kept
  BY <1>1, <1>2, AnswerEnds DEF Ends
<1>5. DOMAIN cmd' = DOMAIN cmd /\ cmd' \in Seq(Cmds) /\ Len(cmd') = Len(cmd)
  BY <1>2, <1>4 DEF Ends, Types
<1>6. AnsweredOnce' /\ QueueInv' /\ queue' \in Seq(Nat) /\ SockInv'
  BY <1>1, <1>2, <1>3, <1>4, <1>5, AnswerOnce, EndsQueue, SocksKept
<1>7. Left(0, 0)
  <2>1. \A n \in DOMAIN relay.chain : n + 0 = n
    BY <1>2, FlightTyped
  <2>2. wire' \in Seq(Frames) /\ DOMAIN wire' = {}
    BY <1>1
  <2> QED
    BY <1>1, <1>2, <2>1, <2>2, FlightTyped DEF Left
<1>8. FlightInv'
  <2>1. \A i \in running' \cup after' : i \in DOMAIN cmd' /\ cmd'[i].at # "queued"
    BY <1>1, <1>2, <1>4, <1>5 DEF FlightInv, Types, Kept
  <2>2. Desktop => \A i \in running' : relay'.chain # <<>> /\ i = Head(relay'.chain).id
    BY <1>1, <1>2 DEF FlightInv
  <2> QED
    BY <1>1, <1>2, <1>4, <1>7, <2>1, <2>2, FlightLeft
<1>9. OrderInv'
  <2>1. last' \in Int /\ last' <= lease.made /\ DOMAIN wire' = {}
    BY <1>1, <1>2, Numbers DEF OrderInv
  <2>2. \A n \in DOMAIN relay'.chain : last' <= relay'.chain[n].fence
    BY <1>1, <1>2 DEF OrderInv
  <2> QED
    BY <1>1, <1>2, <1>7, <2>1, <2>2, OrderLeft
<1>10. Types' /\ LeaseInv'
  BY <1>1, <1>2, <1>5, <1>6, <1>7 DEF Types, LeaseInv, Left
<1> QED
  BY <1>6, <1>8, <1>9, <1>10 DEF IInv

\* The answers to a request under way, if it still is.
LEMMA AnswerPending ==
    ASSUME Types, SockInv, AnsweredOnce, QueueInv, UNCHANGED sock, NEW i,
           Answer({i} \cap Pending) \/ UNCHANGED <<cmd, queue>>
    PROVE  /\ Kept /\ DOMAIN cmd' = DOMAIN cmd /\ cmd' \in Seq(Cmds) /\ Len(cmd') = Len(cmd)
           /\ queue' \in Seq(Nat) /\ AnsweredOnce' /\ QueueInv' /\ SockInv'
<1>1. CASE Answer({i} \cap Pending)
  <2> DEFINE ids == {i} \cap Pending
  <2>1. \A j \in ids : j \in Pending
    OBVIOUS
  <2>2. MayEnd(ids)
    BY <2>1 DEF MayEnd
  <2>3. Ends(ids)
    BY <1>1, AnswerEnds
  <2>4. /\ Kept /\ DOMAIN cmd' = DOMAIN cmd /\ cmd' \in Seq(Cmds) /\ Len(cmd') = Len(cmd)
    BY <2>3 DEF Ends, Types
  <2> QED
    BY <1>1, <2>2, <2>3, <2>4, AnswerOnce, EndsQueue, SocksKept
<1>2. CASE UNCHANGED <<cmd, queue>>
  <2>1. Kept /\ DOMAIN cmd' = DOMAIN cmd /\ cmd' \in Seq(Cmds) /\ Len(cmd') = Len(cmd)
    BY <1>2, SameTable DEF Types
  <2> QED
    BY <1>2, <2>1, SameQueue, SocksKept DEF AnsweredOnce, Types
<1> QED
  BY <1>1, <1>2

\* The first link of the chain is done with.
LEMMA ChainMoves ==
    ASSUME IInv, Kept, relay.chain # <<>>, relay' = [relay EXCEPT !.chain = Tail(@)], running' = {},
           after' \subseteq running \cup after,
           UNCHANGED <<kind, wire, lease, last>>
    PROVE  /\ relay' \in Relays /\ Len(relay'.chain) <= MaxDepth
           /\ FlightInv' /\ OrderInv'
<1> DEFINE old == relay.chain
           new == relay'.chain
<1>1. Types /\ FlightInv /\ OrderInv
  BY DEF IInv
<1>2. new = Tail(old) /\ old \in Seq(Links)
  BY <1>1, FlightTyped DEF Relays
<1>3. /\ new \in Seq(Links) /\ Len(new) = Len(old) - 1
      /\ \A n \in DOMAIN new : n + 1 \in DOMAIN old /\ new[n] = old[n + 1] /\ n \in Nat \ {0}
  BY <1>2, TailLeft
<1>4. relay' \in Relays
  BY <1>1, <1>2, <1>3, FlightTyped DEF Relays
<1>5. Len(new) <= MaxDepth
  BY <1>1, <1>3, FlightTyped, CommandsAssumption
<1>6. Left(0, 1)
  <2>1. \A n \in DOMAIN wire : n + 0 = n
    BY <1>1, FlightTyped
  <2> QED
    BY <1>1, <1>3, <1>4, <2>1, FlightTyped DEF Left
<1>7. FlightInv'
  <2>1. \A i \in running' \cup after' : i \in DOMAIN cmd' /\ cmd'[i].at # "queued"
    BY <1>1 DEF FlightInv, Types, Kept
  <2> QED
    BY <1>1, <1>6, <2>1, FlightLeft
<1>8. OrderInv'
  <2>1. last' \in Int /\ last' <= lease.made
    BY <1>1, Numbers DEF OrderInv
  <2>2. \A n \in DOMAIN wire' : wire'[n].id # 0 => last' <= wire'[n].fence
    BY <1>1 DEF OrderInv
  <2>3. \A n \in DOMAIN new : last' <= new[n].fence
    BY <1>1, <1>3 DEF OrderInv
  <2> QED
    BY <1>1, <1>6, <2>1, <2>2, <2>3, OrderLeft
<1> QED
  BY <1>4, <1>5, <1>7, <1>8

LEMMA FinishesKeeps ==
    ASSUME IInv, NEW i, NEW runsOn, Finishes(i, runsOn)
    PROVE  IInv'
<1>1. /\ i \in running /\ running' = running \ {i} /\ Result(i)
      /\ after' \subseteq running \cup after
      /\ relay' = IF Desktop THEN [relay EXCEPT !.chain = Tail(@)] ELSE relay
      /\ UNCHANGED <<kind, link, epoch, sock, lease, wire, last>>
  BY DEF Finishes
<1>2. Types /\ SockInv /\ LeaseInv /\ AnsweredOnce /\ QueueInv /\ FlightInv /\ OrderInv
  BY DEF IInv
<1>3. /\ Kept /\ DOMAIN cmd' = DOMAIN cmd /\ cmd' \in Seq(Cmds) /\ Len(cmd') = Len(cmd)
      /\ queue' \in Seq(Nat) /\ AnsweredOnce' /\ QueueInv' /\ SockInv'
  BY <1>1, <1>2, AnswerPending DEF Result
<1>4. relay' \in Relays /\ Len(relay'.chain) <= MaxDepth /\ FlightInv' /\ OrderInv'
  <2>1. CASE Desktop
    <3>1. relay.chain # <<>> /\ running' = {}
      BY <1>1, <1>2, <2>1 DEF FlightInv
    <3> QED
      BY <1>1, <1>3, <2>1, <3>1, ChainMoves
  <2>2. CASE ~Desktop
    <3>1. UNCHANGED relay
      BY <1>1, <2>2
    <3>2. \A j \in running' \cup after' : j \in DOMAIN cmd' /\ cmd'[j].at # "queued"
      BY <1>1, <1>2, <1>3 DEF FlightInv, Types, Kept
    <3>3. Left(0, 0)
      <4>1. (\A n \in DOMAIN wire : n + 0 = n) /\ (\A n \in DOMAIN relay.chain : n + 0 = n)
        BY <1>2, FlightTyped
      <4> QED
        BY <1>1, <1>2, <3>1, <4>1, FlightTyped DEF Left
    <3>4. FlightInv'
      BY <1>1, <1>2, <1>3, <2>2, <3>2, <3>3, FlightLeft
    <3> QED
      BY <1>1, <1>2, <3>1, <3>4, FlightTyped DEF OrderInv
  <2> QED
    BY <2>1, <2>2
<1>5. Types' /\ LeaseInv'
  BY <1>1, <1>2, <1>3, <1>4 DEF Types, LeaseInv
<1> QED
  BY <1>3, <1>4, <1>5 DEF IInv

LEMMA EndsLaterKeeps ==
    ASSUME IInv, NEW i, EndsLater(i)
    PROVE  IInv'
<1>1. /\ after' \subseteq after
      /\ UNCHANGED <<kind, link, epoch, sock, lease, cmd, queue, wire, relay, running, last>>
  BY DEF EndsLater
<1>2. Types /\ SockInv /\ LeaseInv /\ AnsweredOnce /\ QueueInv /\ FlightInv /\ OrderInv
  BY DEF IInv
<1>3. Kept /\ DOMAIN cmd' = DOMAIN cmd
  BY <1>1, SameTable
<1>4. FlightInv' /\ OrderInv'
  BY <1>1, <1>2 DEF FlightInv, Flown, OrderInv, Desktop
<1>5. Types' /\ LeaseInv' /\ AnsweredOnce'
  BY <1>1, <1>2 DEF Types, LeaseInv, AnsweredOnce
<1>6. SockInv' /\ QueueInv'
  BY <1>1, <1>2, <1>3, SocksKept, SameQueue
<1> QED
  BY <1>4, <1>5, <1>6 DEF IInv

LEMMA RelayRunsKeeps ==
    ASSUME IInv, NEW late, RelayRuns(late)
    PROVE  /\ IInv'
           /\ \A i \in running' \ running : cmd[i].fence >= last
<1> DEFINE r == Head(relay.chain)
<1>1. /\ relay.chain # <<>> /\ r.id \notin running
      /\ UNCHANGED <<kind, link, epoch, sock, lease, wire, after>>
  BY DEF RelayRuns
<1>2. Types /\ SockInv /\ LeaseInv /\ AnsweredOnce /\ QueueInv /\ FlightInv /\ OrderInv
  BY DEF IInv
<1>3. Desktop /\ running = {}
  BY <1>1, <1>2 DEF FlightInv
<1>4. r = relay.chain[1] /\ 1 \in DOMAIN relay.chain /\ relay.chain \in Seq(Links)
  BY <1>1, <1>2, FlightTyped, TailLeft
<1>5. CASE /\ relay' = [relay EXCEPT !.chain = Tail(@)] /\ Result(r.id)
           /\ UNCHANGED <<running, after, last>>
  <2>1. /\ Kept /\ DOMAIN cmd' = DOMAIN cmd /\ cmd' \in Seq(Cmds) /\ Len(cmd') = Len(cmd)
        /\ queue' \in Seq(Nat) /\ AnsweredOnce' /\ QueueInv' /\ SockInv'
    BY <1>1, <1>2, <1>5, AnswerPending DEF Result
  <2>2. relay' \in Relays /\ Len(relay'.chain) <= MaxDepth /\ FlightInv' /\ OrderInv'
    BY <1>1, <1>3, <1>5, <2>1, ChainMoves
  <2>3. Types' /\ LeaseInv'
    BY <1>1, <1>2, <1>3, <1>5, <2>1, <2>2 DEF Types, LeaseInv
  <2> QED
    BY <1>5, <2>1, <2>2, <2>3 DEF IInv
<1>6. CASE Start(r.id) /\ UNCHANGED <<cmd, queue, relay>>
  <2>1. running' = {r.id} /\ last' = cmd[r.id].fence
    BY <1>3, <1>6 DEF Start
  <2>2. r.id \in DOMAIN cmd /\ cmd[r.id].at # "queued" /\ r.fence = cmd[r.id].fence
    BY <1>2, <1>4 DEF FlightInv, Flown
  <2>3. last <= r.fence /\ r.fence <= lease.made /\ r.fence \in Fence /\ r.fence \in Int /\ last \in Int
    <3>1. r \in Links
      BY <1>4
    <3> QED
      BY <1>2, <1>4, <3>1, Numbers DEF OrderInv, Links
  <2>4. Kept /\ DOMAIN cmd' = DOMAIN cmd
    BY <1>6, SameTable
  <2>5. Left(0, 0)
    <3>1. (\A n \in DOMAIN wire : n + 0 = n) /\ (\A n \in DOMAIN relay.chain : n + 0 = n)
      BY <1>2, FlightTyped
    <3> QED
      BY <1>1, <1>2, <1>6, <3>1, FlightTyped DEF Left
  <2>6. FlightInv'
    <3>1. \A i \in running' \cup after' : i \in DOMAIN cmd' /\ cmd'[i].at # "queued"
      BY <1>1, <1>2, <1>6, <2>1, <2>2 DEF FlightInv, Types
    <3>2. Desktop => \A i \in running' : relay'.chain # <<>> /\ i = Head(relay'.chain).id
      BY <1>1, <1>6, <2>1
    <3> QED
      BY <1>1, <1>2, <2>4, <2>5, <3>1, <3>2, FlightLeft
  <2>7. OrderInv'
    <3>1. \A n \in DOMAIN wire' : wire'[n].id # 0 => last' <= wire'[n].fence
      BY <1>1, <1>2, <1>4, <2>1, <2>2 DEF OrderInv
    <3>2. \A n \in DOMAIN relay'.chain : last' <= relay'.chain[n].fence
      <4> SUFFICES ASSUME NEW n \in DOMAIN relay.chain PROVE r.fence <= relay.chain[n].fence
        BY <1>6, <2>1, <2>2
      <4>1. CASE n = 1
        BY <1>4, <2>3, <4>1
      <4>2. CASE n # 1
        <5>1. 1 \in 1..(n - 1)
          BY <1>4, <4>2
        <5> QED
          BY <1>2, <1>4, <5>1 DEF OrderInv
      <4> QED
        BY <4>1, <4>2
    <3> QED
      BY <1>1, <1>2, <2>1, <2>2, <2>3, <2>5, <3>1, <3>2, OrderLeft
  <2>8. Types'
    BY <1>1, <1>2, <1>6, <2>1, <2>2, <2>3 DEF Types
  <2>9. SockInv' /\ LeaseInv' /\ AnsweredOnce' /\ QueueInv'
    BY <1>1, <1>2, <1>6, <2>4, SocksKept, SameQueue DEF LeaseInv, AnsweredOnce
  <2> QED
    BY <2>1, <2>2, <2>3, <2>6, <2>7, <2>8, <2>9 DEF IInv
<1> QED
  BY <1>5, <1>6 DEF RelayRuns

LEMMA RelayQueuesKeeps ==
    ASSUME IInv, NEW late, RelayQueues(late)
    PROVE  IInv'
<1> DEFINE f == Head(wire)
           old == relay.chain
           new == relay'.chain
<1>1. /\ Desktop /\ wire # <<>> /\ f.id # 0 /\ wire' = Tail(wire)
      /\ UNCHANGED <<kind, link, epoch, sock, lease, running, after, last>>
  BY DEF RelayQueues
<1>2. Types /\ SockInv /\ LeaseInv /\ AnsweredOnce /\ QueueInv /\ FlightInv /\ OrderInv
  BY DEF IInv
<1>3. CASE Answer({f.id} \cap Pending) /\ UNCHANGED relay
  <2>1. /\ Kept /\ DOMAIN cmd' = DOMAIN cmd /\ cmd' \in Seq(Cmds) /\ Len(cmd') = Len(cmd)
        /\ queue' \in Seq(Nat) /\ AnsweredOnce' /\ QueueInv' /\ SockInv'
    BY <1>1, <1>2, <1>3, AnswerPending
  <2>2. relay' \in Relays /\ relay'.chain = relay.chain
    BY <1>2, <1>3, FlightTyped
  <2>3. FlightInv' /\ OrderInv' /\ wire' \in Seq(Frames) /\ Len(relay'.chain) <= MaxDepth
    BY <1>1, <2>1, <2>2, SameLinks
  <2>4. Types' /\ LeaseInv'
    BY <1>1, <1>2, <2>1, <2>2, <2>3 DEF Types, LeaseInv
  <2> QED
    BY <2>1, <2>3, <2>4 DEF IInv
<1>4. CASE /\ Len(old) < MaxDepth
           /\ relay' = [relay EXCEPT !.highest = f.fence, !.chain = Append(@, Queued(f))]
           /\ UNCHANGED <<cmd, queue>>
  <2>1. /\ wire' \in Seq(Frames) /\ f = wire[1] /\ 1 \in DOMAIN wire /\ f \in Frames
        /\ \A n \in DOMAIN wire' : n + 1 \in DOMAIN wire /\ wire'[n] = wire[n + 1] /\ n \in Nat \ {0}
    BY <1>1, <1>2, FlightTyped, TailLeft
  <2>2. /\ f.id \in DOMAIN cmd /\ cmd[f.id].at # "queued" /\ cmd[f.id].fence = f.fence
        /\ f.fence \in Fence /\ f.fence \in Int /\ f.fence <= lease.made /\ last <= f.fence
        /\ \A m \in DOMAIN old : old[m].fence <= f.fence
    BY <1>1, <1>2, <2>1, Numbers DEF FlightInv, Flown, OrderInv, Frames
  <2>3. /\ Queued(f) \in Links /\ Queued(f).id = f.id /\ Queued(f).fence = f.fence
    BY <2>1 DEF Queued, Links, Frames
  <2>4. new = Append(old, Queued(f)) /\ old \in Seq(Links)
    BY <1>2, <1>4, FlightTyped DEF Relays
  <2>5. /\ new \in Seq(Links) /\ Len(new) = Len(old) + 1 /\ new # <<>>
        /\ DOMAIN new = DOMAIN old \cup {Len(old) + 1}
        /\ Len(old) \in Nat /\ DOMAIN old = 1..Len(old)
        /\ new[Len(old) + 1] = Queued(f) /\ \A j \in DOMAIN old : new[j] = old[j]
    BY <2>3, <2>4, Appended
  <2>6. relay' \in Relays /\ Len(new) <= MaxDepth
    <3>1. relay' \in Relays
      BY <1>2, <1>4, <2>2, <2>4, <2>5, FlightTyped DEF Relays
    <3> QED
      BY <1>4, <2>5, <3>1, CommandsAssumption
  <2>7. FlightInv'
    <3>1. \A n \in DOMAIN wire' : wire'[n].id # 0 =>
              /\ wire'[n].id \in DOMAIN cmd /\ cmd[wire'[n].id].at # "queued"
              /\ wire'[n].fence = cmd[wire'[n].id].fence
      BY <1>2, <2>1 DEF FlightInv, Flown
    <3>2. \A n \in DOMAIN new :
              new[n].id \in DOMAIN cmd /\ cmd[new[n].id].at # "queued" /\ new[n].fence = cmd[new[n].id].fence
      BY <1>2, <2>2, <2>3, <2>5 DEF FlightInv, Flown
    <3>3. old # <<>> => Head(new) = Head(old)
      <4> SUFFICES ASSUME old # <<>> PROVE Head(new) = Head(old)
        OBVIOUS
      <4>1. Head(old) = old[1] /\ 1 \in DOMAIN old
        BY <2>4
      <4>2. Head(new) = new[1]
        BY <2>5
      <4> QED
        BY <2>5, <4>1, <4>2
    <3>4. \A i \in running : new # <<>> /\ i = Head(new).id
      BY <1>1, <1>2, <2>5, <3>3 DEF FlightInv
    <3>5. Desktop'
      BY <1>1 DEF Desktop
    <3>6. \A i \in running \cup after : cmd[i].at # "queued"
      BY <1>2 DEF FlightInv
    <3> QED
      BY <1>1, <1>4, <3>1, <3>2, <3>4, <3>5, <3>6 DEF FlightInv, Flown
  <2>8. OrderInv'
    <3>1. ASSUME NEW n \in DOMAIN wire', wire'[n].id # 0
          PROVE  /\ last <= wire'[n].fence /\ wire'[n].fence <= lease.made
                 /\ \A m \in 1..(n - 1) : wire'[m].id # 0 => wire'[m].fence <= wire'[n].fence
                 /\ \A m \in DOMAIN new : new[m].fence <= wire'[n].fence
      <4>1. /\ n + 1 \in DOMAIN wire /\ wire'[n] = wire[n + 1] /\ wire[n + 1].id # 0
            /\ 1 \in 1..((n + 1) - 1)
        BY <2>1, <3>1
      <4>2. /\ last <= wire'[n].fence /\ wire'[n].fence <= lease.made
            /\ \A m \in 1..((n + 1) - 1) : wire[m].id # 0 => wire[m].fence <= wire'[n].fence
            /\ \A m \in DOMAIN old : old[m].fence <= wire'[n].fence
        BY <1>2, <4>1 DEF OrderInv
      <4>3. f.fence <= wire'[n].fence
        BY <1>1, <2>1, <4>1, <4>2
      <4>4. \A m \in 1..(n - 1) : m + 1 \in 1..((n + 1) - 1) /\ wire'[m] = wire[m + 1]
        BY <2>1
      <4>5. \A m \in 1..(n - 1) : wire'[m].id # 0 => wire'[m].fence <= wire'[n].fence
        BY <4>2, <4>4
      <4>6. \A m \in DOMAIN new : new[m].fence <= wire'[n].fence
        BY <2>3, <2>5, <4>2, <4>3
      <4> QED
        BY <4>2, <4>5, <4>6
    <3>2. ASSUME NEW n \in DOMAIN new
          PROVE  /\ last <= new[n].fence /\ new[n].fence <= lease.made
                 /\ \A m \in 1..(n - 1) : new[m].fence <= new[n].fence
      <4>1. CASE n \in DOMAIN old
        <5>1. 1..(n - 1) \subseteq DOMAIN old /\ new[n] = old[n]
          BY <2>5, <4>1
        <5> QED
          BY <1>2, <2>5, <4>1, <5>1 DEF OrderInv
      <4>2. CASE n = Len(old) + 1
        <5>1. 1..(n - 1) = DOMAIN old /\ new[n].fence = f.fence
          BY <2>3, <2>5, <4>2
        <5> QED
          BY <2>2, <2>5, <5>1
      <4> QED
        BY <2>5, <4>1, <4>2
    <3>3. last <= lease.made
      BY <1>2 DEF OrderInv
    <3> QED
      BY <1>1, <3>1, <3>2, <3>3 DEF OrderInv
  <2>9. Types'
    BY <1>1, <1>2, <1>4, <2>1, <2>6 DEF Types
  <2>10. SockInv' /\ LeaseInv' /\ AnsweredOnce' /\ QueueInv'
    BY <1>1, <1>2, <1>4, SameTable, SocksKept, SameQueue DEF LeaseInv, AnsweredOnce
  <2> QED
    BY <2>7, <2>8, <2>9, <2>10 DEF IInv
<1> QED
  BY <1>3, <1>4 DEF RelayQueues

-----------------------------------------------------------------------------
(* The results.                                                            *)

InOrder == \A i \in running' \ running : cmd[i].fence >= last

LEMMA StepKeeps ==
    ASSUME IInv, Next
    PROVE  IInv' /\ InOrder
<1>1. CASE \E c \in Clients : PhoneConnects(c) \/ ReplacedCloses(c) \/ CurrentCloses(c) \/ Acquire(c)
  <2>1. PICK c \in Clients : PhoneConnects(c) \/ ReplacedCloses(c) \/ CurrentCloses(c) \/ Acquire(c)
    BY <1>1
  <2>2. UNCHANGED running
    BY <2>1 DEF PhoneConnects, ReplacedCloses, CurrentCloses, Acquire
  <2> QED
    BY <2>1, <2>2, PhoneConnectsKeeps, ReplacedClosesKeeps, CurrentClosesKeeps, AcquireKeeps DEF InOrder
<1>2. CASE \E c \in Clients : \E n \in Sockets(c), k \in Works : Command(c, n, k)
  <2>1. PICK c \in Clients : \E n \in Sockets(c), k \in Works : Command(c, n, k)
    BY <1>2
  <2>2. PICK n \in Sockets(c), k \in Works : Command(c, n, k)
    BY <2>1
  <2>3. UNCHANGED running
    BY <2>2 DEF Command
  <2> QED
    BY <2>2, <2>3, CommandKeeps DEF InOrder
<1>3. CASE \E i \in DOMAIN cmd : Timeout(i) \/ EndsLater(i) \/ \E runsOn \in BOOLEAN : Finishes(i, runsOn)
  <2>1. PICK i \in DOMAIN cmd :
            Timeout(i) \/ EndsLater(i) \/ \E runsOn \in BOOLEAN : Finishes(i, runsOn)
    BY <1>3
  <2>2. running' \subseteq running
    BY <2>1 DEF Timeout, Finishes, EndsLater
  <2> QED
    BY <2>1, <2>2, TimeoutKeeps, EndsLaterKeeps, FinishesKeeps DEF InOrder
<1>4. CASE LeaseEnds \/ Tell \/ \E busy \in BOOLEAN : RunHead(busy)
  <2>1. UNCHANGED running
    BY <1>4 DEF LeaseEnds, Tell, RunHead
  <2> QED
    BY <1>4, <2>1, LeaseEndsKeeps, TellKeeps, RunHeadKeeps DEF InOrder
<1>5. CASE PiReads
  BY <1>5, PiReadsKeeps DEF InOrder
<1>6. CASE \E late \in BOOLEAN : RelayRuns(late)
  BY <1>6, RelayRunsKeeps DEF InOrder
<1>7. CASE RelayHears \/ \E late \in BOOLEAN : RelayQueues(late)
  <2>1. UNCHANGED running
    BY <1>7 DEF RelayHears, RelayQueues
  <2> QED
    BY <1>7, <2>1, RelayHearsKeeps, RelayQueuesKeeps DEF InOrder
<1>8. CASE SourceGoes \/ SourceReturns \/ RelayResnapshots \/ HubSeesEpoch
  <2>1. running' \subseteq running
    BY <1>8 DEF SourceGoes, SourceReturns, RelayResnapshots, HubSeesEpoch
  <2> QED
    BY <1>8, <2>1, SourceGoesKeeps, SourceReturnsKeeps, RelayResnapshotsKeeps, HubSeesEpochKeeps
       DEF InOrder
<1> QED
  BY <1>1, <1>2, <1>3, <1>4, <1>5, <1>6, <1>7, <1>8 DEF Next

LEMMA StutterKeeps ==
    ASSUME IInv, UNCHANGED vars
    PROVE  IInv'
<1>1. Types /\ SockInv /\ LeaseInv /\ AnsweredOnce /\ QueueInv /\ FlightInv /\ OrderInv
  BY DEF IInv
<1>2. Kept /\ DOMAIN cmd' = DOMAIN cmd
  BY SameTable DEF vars
<1>3. QueueInv' /\ FlightInv' /\ SockInv'
  BY <1>1, <1>2, SameQueue, FlightKept, SocksKept DEF vars
<1>4. Types' /\ LeaseInv' /\ AnsweredOnce' /\ OrderInv'
  BY <1>1 DEF vars, Types, LeaseInv, AnsweredOnce, OrderInv
<1> QED
  BY <1>3, <1>4 DEF IInv

\* The inductive invariant holds in every state: it says where each command is
\* between the phone, the hub's queue, the wire, the relay's chain and the source.
THEOREM CommandsInvariant == Spec => []IInv
<1>1. IInv /\ [Next]_vars => IInv'
  BY StepKeeps, StutterKeeps
<1> QED
  BY <1>1, InitHolds, PTL DEF Spec

\* The types are right in every state.
THEOREM CommandsTypeCorrect == Spec => []TypeOK
<1>1. IInv => TypeOK
  <2> SUFFICES ASSUME IInv PROVE TypeOK
    OBVIOUS
  <2>1. Types /\ QueueInv
    BY DEF IInv
  <2>2. \A i \in DOMAIN cmd : cmd[i] \in Cmds
    BY <2>1 DEF Types
  <2>3. IsInjective(queue) /\ \A n \in DOMAIN queue : queue[n] \in DOMAIN cmd
    <3>1. \A m, n \in DOMAIN queue : m \in Int /\ n \in Int /\ queue[m] \in Int /\ queue[n] \in Int
      BY <2>1 DEF Types
    <3>2. \A m, n \in DOMAIN queue : queue[m] = queue[n] => m = n
      BY <2>1, <3>1 DEF QueueInv
    <3> QED
      BY <2>1, <3>2 DEF IsInjective, QueueInv
  <2>4. \A n \in 2..Len(queue) : cmd[queue[n]].at = "queued"
    <3> SUFFICES ASSUME NEW n \in 2..Len(queue) PROVE cmd[queue[n]].at = "queued"
      OBVIOUS
    <3>1. /\ n \in DOMAIN queue /\ 1 \in DOMAIN queue /\ 1 < n /\ queue # <<>>
          /\ Head(queue) = queue[1] /\ queue[n] \in Nat /\ queue[1] \in Nat
      BY <2>1 DEF Types
    <3> QED
      BY <2>1, <3>1 DEF QueueInv
  <2> QED
    BY <2>1, <2>2, <2>3, <2>4 DEF Types, TypeOK, Cmds, Socks, Leases
<1> QED
  BY <1>1, CommandsInvariant, PTL

\* A command is answered once, and not at all only when the phone's socket is out
\* of use, whichever of its ends comes first.
THEOREM EveryCommandAnsweredOnce == Spec => []AnsweredOnce
<1>1. IInv => AnsweredOnce
  BY DEF IInv
<1> QED
  BY <1>1, CommandsInvariant, PTL

\* The queue of a session never waits for a command that is over.
THEOREM QueueGoesOn == Spec => []QueueNeverStuck
<1>1. IInv => QueueNeverStuck
  BY DEF IInv, QueueInv, QueueNeverStuck
<1> QED
  BY <1>1, CommandsInvariant, PTL

\* Two structure commands run at once only when the earlier one was answered on
\* acceptance, or the hub no longer waits for it: while it does, that one is the
\* head of the queue, and all the later ones are still in it.
THEOREM StructureCommandsOverlapLate == Spec => []OverlapOnlyOnceLetGo
<1>1. IInv => OverlapOnlyOnceLetGo
  <2> SUFFICES ASSUME IInv, NEW i \in running \cup after, NEW j \in running \cup after, i < j,
                      Structure(i), Structure(j), cmd[i].at = "pending"
               PROVE  FALSE
    BY DEF OverlapOnlyOnceLetGo
  <2>1. i \in DOMAIN cmd /\ j \in DOMAIN cmd /\ i \in Int /\ j \in Int
    BY DEF IInv, Types
  <2>2. queue # <<>> /\ i = Head(queue)
    BY <2>1 DEF IInv, QueueInv, Pending, Structure
  <2>3. cmd[j].at = "queued"
    BY <2>1, <2>2 DEF IInv, QueueInv, Structure
  <2> QED
    BY <2>3 DEF IInv, FlightInv
<1> QED
  BY <1>1, CommandsInvariant, PTL

\* What the source starts is never of an earlier lease than what it started
\* before: the chain, the wire and the lease have ever newer fences.
THEOREM CommandsStartInFenceOrder == Spec => FencesInOrder
<1>1. IInv /\ [Next]_vars => [InOrder]_vars
  BY StepKeeps
<1> QED
  BY <1>1, CommandsInvariant, PTL DEF Spec, FencesInOrder, InOrder

=============================================================================
