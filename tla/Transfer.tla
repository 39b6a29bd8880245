------------------------------ MODULE Transfer ------------------------------
(***************************************************************************)
(* Messages of the hub to a phone over a DataChannel (bridge/src:          *)
(* p2p_host.ts DataChannelSocket, p2p_transfer_v2.ts, p2p_transport.ts).   *)
(* A message too large for one frame is a transfer: BEGIN, its pages and   *)
(* DONE, kept by the sender until it is acknowledged, put together by the  *)
(* phone (lib/core/p2p_transfer_v2.dart mirrors the bridge's assembler).   *)
(* The channel is reliable and FIFO; when it closes, everything queued or  *)
(* under way is gone, but what was kept and what was received stays, and   *)
(* on the next channel the phone asks for the pages it misses.             *)
(*                                                                         *)
(* There are three queues: control before interactive before bulk. Pings   *)
(* and pongs are always queued (sendPriority), other small messages go out *)
(* at once when the pump is at rest (trySend).                             *)
(*                                                                         *)
(* Sizes are counted in frames and pages. Malformed frames do not happen   *)
(* between these two ends.                                                 *)
(***************************************************************************)
EXTENDS Integers, SequencesExt

CONSTANTS PageCount,    \* pages of a transfer
          BulkLimit,    \* P2P_BULK_QUEUE_MAX_BYTES, in frames
          Credit,       \* CreditController.target, in frames
          RetainLimit,  \* V2_RETENTION_MAX_BYTES, in transfers
          AssemblyLimit,\* V2_MAX_ASSEMBLIES
          PageLimit,    \* V2_ASSEMBLY_MAX_BYTES, in pages
          MaxMessages, MaxLosses  \* bounds

ASSUME TransferAssumption ==
  /\ PageCount \in Nat \ {0} /\ AssemblyLimit \in Nat \ {0}
  /\ {BulkLimit, Credit, RetainLimit, PageLimit, MaxMessages, MaxLosses} \subseteq Nat
  /\ PageCount <= PageLimit  \* V2_MAX_MESSAGE_BYTES is half of V2_ASSEMBLY_MAX_BYTES

VARIABLES
  open,      \* the channel is up and authenticated
  msgs,      \* kinds of the messages handed to trySend so far
  urgent,    \* the control queue and the interactive queue
  bulk,      \* bulk queue
  pumping,   \* the pump runs
  held,      \* the frame the pump has taken and may not send yet, or None
  wire,      \* frames under way to the phone
  back,      \* acknowledgements and requests under way to the hub
  retained,  \* transfers kept in the bucket the channel uses, oldest first
  listed,    \* that bucket is still the one ownerStores has for the phone
  parts,     \* transfers the phone puts together, least active first
  delivered, \* history: messages handed up at the phone, with the pages they had
  hist       \* history: channels lost; transfers sent again; those that were to be and
             \* did not fit; those dropped with an unlisted bucket

vars == <<open, msgs, urgent, bulk, pumping, held, wire, back, retained, listed, parts, delivered, hist>>

Pages == 1..PageCount
Urgents == {"control", "interactive"}
Kinds == Urgents \cup {"plain", "transfer"}
NoneQueued == [c \in Urgents |-> <<>>]
None == [t |-> "none", m |-> 0, p |-> 0]

F(t, m) == [t |-> t, m |-> m, p |-> 0]
Data(m, p) == [t |-> "data", m |-> m, p |-> p]
Ids(s) == {s[n].m : n \in DOMAIN s}
Without(s, m) == RemoveFirstMatch(s, LAMBDA a : a.m = m)
Total(s) == Cardinality(UNION {{a.m} \X a.got : a \in ToSet(s)})
TooMuch(s) == Len(s) > AssemblyLimit \/ Total(s) > PageLimit

TypeOK ==
  /\ {open, pumping, listed} \subseteq BOOLEAN
  /\ msgs \in BoundedSeq(Kinds, MaxMessages)
  /\ Len(bulk) <= BulkLimit
  /\ IsInjective(retained) /\ Len(retained) <= RetainLimit
  /\ \A n \in DOMAIN retained : msgs[retained[n]] = "transfer"
  /\ ~TooMuch(parts) /\ Cardinality(Ids(parts)) = Len(parts)
  /\ ~open => bulk = <<>> /\ urgent = NoneQueued /\ wire = <<>> /\ back = <<>> /\ held = None

Init ==
  /\ open = FALSE /\ msgs = <<>> /\ urgent = NoneQueued /\ bulk = <<>> /\ pumping = FALSE /\ held = None
  /\ wire = <<>> /\ back = <<>> /\ retained = <<>> /\ listed = FALSE /\ parts = <<>> /\ delivered = <<>>
  /\ hist = [losses |-> 0, resent |-> {}, shunned |-> {}, dropped |-> {}]

---------------------------------------------------------------------------
(* The hub sends *)

Frames(k, m) ==
  IF k = "transfer"
  THEN <<F("begin", m)>> \o [p \in Pages |-> Data(m, p)] \o <<F("done", m)>>
  ELSE <<F(k, m)>>

\* Only the frame the pump has in hand is looked at, not whether it runs.
NothingInHand == held = None

\* Nothing is queued and the pump is at rest.
Idle == ~pumping /\ urgent = NoneQueued /\ bulk = <<>>

\* An add that leaves the oldest to their expiry.
KeepAll(m) == Append(retained, m)

\* TransferRetainedStore.add: the oldest go when there are too many.
Keep(m) == LET r == Append(retained, m) IN
  SubSeq(r, IF Len(r) > RetainLimit THEN Len(r) - RetainLimit + 1 ELSE 1, Len(r))

\* A bulk queue that takes what fits, frame by frame.
AdmittedInPart(fs) == SubSeq(bulk \o fs, 1, Min({BulkLimit, Len(bulk) + Len(fs)}))

\* admitFrames: all of a message's frames are queued, or none.
Admitted(fs) == IF Len(bulk) + Len(fs) <= BulkLimit THEN bulk \o fs ELSE bulk

Queue(c, m) ==
  /\ urgent' = [urgent EXCEPT ![c] = Append(@, F(c, m))]
  /\ pumping' = TRUE /\ UNCHANGED wire

\* A control or interactive message through trySend: past the queues if they are idle.
SendUrgent(c) ==
  LET m == Len(msgs) + 1 IN
  /\ open /\ m <= MaxMessages /\ msgs' = Append(msgs, c)
  /\ IF Idle THEN wire' = Append(wire, F(c, m)) /\ UNCHANGED <<urgent, pumping>>
     ELSE Queue(c, m)
  /\ UNCHANGED <<open, bulk, held, back, retained, listed, parts, delivered, hist>>

\* A ping, a pong or a refusal through sendPriority: always queued.
SendPriority ==
  LET m == Len(msgs) + 1 IN
  /\ open /\ m <= MaxMessages /\ msgs' = Append(msgs, "control")
  /\ Queue("control", m)
  /\ UNCHANGED <<open, bulk, held, back, retained, listed, parts, delivered, hist>>

\* trySend of any other message; one that is refused is not kept either.
SendBulk(k) ==
  LET m == Len(msgs) + 1 IN
  /\ open /\ m <= MaxMessages /\ msgs' = Append(msgs, k)
  /\ bulk' = Admitted(Frames(k, m)) /\ pumping' = (pumping \/ bulk' # bulk)
  /\ retained' = IF k = "transfer" /\ bulk' # bulk THEN Keep(m) ELSE retained
  /\ UNCHANGED <<open, urgent, held, wire, back, listed, parts, delivered, hist>>

\* pumpSendQueue: the next frame; it goes out when few enough bytes are in the
\* channel's buffer, and cannot be put back meanwhile.
TakesFrom(c) == /\ held' = Head(urgent[c]) /\ urgent' = [urgent EXCEPT ![c] = Tail(@)]
                /\ UNCHANGED bulk

TakesBulk == held' = Head(bulk) /\ bulk' = Tail(bulk) /\ UNCHANGED urgent

PumpTakes ==
  /\ pumping /\ held = None
  /\ \/ urgent["control"] # <<>> /\ TakesFrom("control")
     \/ urgent["control"] = <<>> /\ urgent["interactive"] # <<>> /\ TakesFrom("interactive")
     \/ urgent = NoneQueued /\ bulk # <<>> /\ TakesBulk
  /\ UNCHANGED <<open, msgs, pumping, wire, back, retained, listed, parts, delivered, hist>>

\* It stops when nothing is queued; until then nothing passes the queues.
PumpRests ==
  /\ pumping /\ held = None /\ urgent = NoneQueued /\ bulk = <<>> /\ pumping' = FALSE
  /\ UNCHANGED <<open, msgs, urgent, bulk, held, wire, back, retained, listed, parts, delivered, hist>>

PumpSends ==
  /\ held # None /\ Len(wire) <= Credit
  /\ wire' = Append(wire, held) /\ held' = None
  /\ UNCHANGED <<open, msgs, urgent, bulk, pumping, back, retained, listed, parts, delivered, hist>>

\* resendFrames: BEGIN if the phone resumes, the missing pages, and always DONE.
Again(r) ==
  (IF r.resume THEN <<F("begin", r.m)>> ELSE <<>>)
    \o SetToSeq({Data(r.m, p) : p \in r.missing}) \o <<F("done", r.m)>>

\* onBinaryFrame without the ABORT for a transfer that is no longer kept.
HubReceivesQuietly ==
  LET r == Head(back) IN
  /\ back # <<>> /\ back' = Tail(back)
  /\ IF r.t = "ack" \/ ~Contains(retained, r.m)
     THEN retained' = RemoveFirst(retained, r.m) /\ UNCHANGED <<bulk, pumping, hist>>
     ELSE /\ bulk' = Admitted(Again(r)) /\ pumping' = (pumping \/ bulk' # bulk) /\ UNCHANGED retained
          /\ hist' = IF bulk' = bulk THEN [hist EXCEPT !.shunned = @ \cup {r.m}]
                     ELSE [hist EXCEPT !.resent = @ \cup {r.m}]
  /\ UNCHANGED <<open, msgs, urgent, held, wire, listed, parts, delivered>>

\* onBinaryFrame: an acknowledgement ends the keeping; what is asked for is sent
\* again if it is still kept and all of it fits, and an ABORT if it is not kept.
HubReceives ==
  LET r == Head(back) IN
  /\ back # <<>> /\ back' = Tail(back)
  /\ \/ /\ r.t = "ack" /\ retained' = RemoveFirst(retained, r.m)
        /\ UNCHANGED <<bulk, pumping, wire, hist>>
     \/ /\ r.t = "nack" /\ ~Contains(retained, r.m)
        /\ wire' = Append(wire, F("abort", r.m))
        /\ UNCHANGED <<bulk, pumping, retained, hist>>
     \/ /\ r.t = "nack" /\ Contains(retained, r.m)
        /\ bulk' = Admitted(Again(r)) /\ pumping' = (pumping \/ bulk' # bulk)
        /\ hist' = IF bulk' = bulk THEN [hist EXCEPT !.shunned = @ \cup {r.m}]
                   ELSE [hist EXCEPT !.resent = @ \cup {r.m}]
        /\ UNCHANGED <<wire, retained>>
  /\ UNCHANGED <<open, msgs, urgent, held, listed, parts, delivered>>

\* The time of a kept transfer is over.
RetainedExpires ==
  /\ \E n \in DOMAIN retained : retained' = RemoveAt(retained, n)
  /\ UNCHANGED <<open, msgs, urgent, bulk, pumping, held, wire, back, listed, parts, delivered, hist>>

---------------------------------------------------------------------------
(* The phone receives *)

Has(m) == m \in Ids(parts)
Part(m) == CHOOSE a \in ToSet(parts) : a.m = m
Missing(a) == Pages \ a.got
Nack(a, resume) == [t |-> "nack", m |-> a.m, missing |-> Missing(a), resume |-> resume]
Ack(m) == [t |-> "ack", m |-> m, missing |-> {}, resume |-> FALSE]

\* The part that was touched is the most active one now.
Touched(a) == Append(Without(parts, a.m), a)

\* enforceCaps: the least active go until the rest fits. The one just touched is the
\* last and never goes: a message is smaller than what the assembler may hold.
Enforced(s) ==
  LET fits == {k \in 0..Len(s) : ~TooMuch(SubSeq(s, k + 1, Len(s)))}
  IN SubSeq(s, Min(fits) + 1, Len(s))

\* applyHandshake that passes over the transfers without a page.
PhoneGreetedPartly ==
  /\ back' = back \o LET some == SelectSeq(parts, LAMBDA a : a.got # {})
                     IN [n \in DOMAIN some |-> Nack(some[n], TRUE)]
  /\ UNCHANGED <<parts, delivered>>

\* applyHandshake: ask for the missing pages of everything left over.
PhoneGreeted ==
  /\ back' = back \o [n \in DOMAIN parts |-> Nack(parts[n], TRUE)]
  /\ UNCHANGED <<parts, delivered>>

\* BEGIN: the pages that are there already stay.
PhoneBegins(f) ==
  /\ parts' = IF Has(f.m) THEN Touched(Part(f.m))
              ELSE Enforced(Append(parts, [m |-> f.m, got |-> {}]))
  /\ UNCHANGED <<back, delivered>>

\* DATA: a page of a transfer that is known, and not there yet.
PhoneStores(f) ==
  /\ parts' = IF Has(f.m) /\ f.p \in Missing(Part(f.m))
              THEN Enforced(Touched([Part(f.m) EXCEPT !.got = @ \cup {f.p}]))
              ELSE parts
  /\ UNCHANGED <<back, delivered>>

\* DONE that hands the message up and keeps the parts.
PhoneFinishesAndKeeps(f) ==
  IF ~Has(f.m) THEN UNCHANGED <<parts, back, delivered>>
  ELSE LET a == Part(f.m) IN
    IF Missing(a) # {}
    THEN /\ back' = Append(back, Nack(a, FALSE)) /\ parts' = Touched(a) /\ UNCHANGED delivered
    ELSE /\ back' = Append(back, Ack(f.m)) /\ UNCHANGED parts
         /\ delivered' = Append(delivered, [m |-> f.m, got |-> a.got])

\* DONE: ask for what is missing, or hand the message up and forget the parts.
PhoneFinishes(f) ==
  IF ~Has(f.m) THEN UNCHANGED <<parts, back, delivered>>
  ELSE LET a == Part(f.m) IN
    IF Missing(a) # {}
    THEN /\ back' = Append(back, Nack(a, FALSE)) /\ parts' = Touched(a) /\ UNCHANGED delivered
    ELSE /\ back' = Append(back, Ack(f.m)) /\ parts' = Without(parts, f.m)
         /\ delivered' = Append(delivered, [m |-> f.m, got |-> a.got])

\* ABORT: the hub cannot send it again.
PhoneAborts(f) == parts' = Without(parts, f.m) /\ UNCHANGED <<back, delivered>>

PhoneHandsUp(f) ==
  /\ delivered' = Append(delivered, [m |-> f.m, got |-> Pages])
  /\ UNCHANGED <<parts, back>>

PhoneReceives ==
  LET f == Head(wire) IN
  /\ wire # <<>> /\ wire' = Tail(wire)
  /\ \/ f.t = "hello" /\ PhoneGreeted
     \/ f.t = "begin" /\ PhoneBegins(f)
     \/ f.t = "data" /\ PhoneStores(f)
     \/ f.t = "done" /\ PhoneFinishes(f)
     \/ f.t = "abort" /\ PhoneAborts(f)
     \/ f.t \in Urgents \cup {"plain"} /\ PhoneHandsUp(f)
  /\ UNCHANGED <<open, msgs, urgent, bulk, pumping, held, retained, listed, hist>>

\* No frame of a transfer has come for so long that the phone gives up.
PartExpires ==
  /\ \E n \in DOMAIN parts : parts' = RemoveAt(parts, n)
  /\ UNCHANGED <<open, msgs, urgent, bulk, pumping, held, wire, back, retained, listed, delivered, hist>>

---------------------------------------------------------------------------
(* The channel *)

\* sweepOwnerStores: an empty bucket goes when it was not asked for in a while. It is
\* asked for at the authentication only, so a channel may still be using it.
BucketSwept ==
  /\ listed /\ retained = <<>> /\ listed' = FALSE
  /\ UNCHANGED <<open, msgs, urgent, bulk, pumping, held, wire, back, retained, parts, delivered, hist>>

\* A channel is authenticated with the listed bucket or a new one (ownerStore); the
\* hub's hello is the first frame on it.
Opens ==
  /\ ~open /\ open' = TRUE /\ wire' = <<F("hello", 0)>>
  /\ listed' = TRUE
  /\ retained' = IF listed THEN retained ELSE <<>>
  /\ hist' = [hist EXCEPT !.dropped = IF listed THEN @ ELSE @ \cup ToSet(retained)]
  /\ UNCHANGED <<msgs, urgent, bulk, pumping, held, back, parts, delivered>>

Closes ==
  /\ open /\ hist.losses < MaxLosses /\ open' = FALSE
  /\ hist' = [hist EXCEPT !.losses = @ + 1]
  /\ urgent' = NoneQueued /\ bulk' = <<>> /\ pumping' = FALSE /\ held' = None /\ wire' = <<>> /\ back' = <<>>
  /\ UNCHANGED <<msgs, retained, listed, parts, delivered>>

Next ==
  \/ (\E c \in Urgents : SendUrgent(c)) \/ SendPriority
  \/ SendBulk("plain") \/ SendBulk("transfer")
  \/ PumpTakes \/ PumpSends \/ PumpRests \/ HubReceives \/ RetainedExpires
  \/ PhoneReceives \/ PartExpires \/ BucketSwept \/ Opens \/ Closes

Spec == Init /\ [][Next]_vars

---------------------------------------------------------------------------
(* Properties *)

\* Whatever the channel loses and is asked for again, the phone hands up a message
\* once, and a transfer with all its pages.
DeliveredOnceAndWhole ==
  /\ \A i, j \in DOMAIN delivered : delivered[i].m = delivered[j].m => i = j
  /\ \A i \in DOMAIN delivered : delivered[i].got = Pages

\* The class of a message: the queue it goes through.
Class(m) == IF msgs[m] \in Urgents THEN msgs[m] ELSE "bulk"

\* Messages of one class are handed up in the order they were sent in, whether they
\* went past the queue or through it; a class may overtake another. The one exception
\* is a transfer that was sent again. The events of a session rely on it.
OrderKept ==
  \A i, j \in DOMAIN delivered :
    LET a == delivered[i].m  b == delivered[j].m IN
    i < j /\ a > b /\ Class(a) = Class(b) => b \in hist.resent

OnTheWay == ToSet(wire) \cup ToSet(bulk) \cup {held}

\* While a channel is up, what the phone has begun to put together is never left
\* to its timeout: the end of it, or word that there is none, is on the way, or
\* the phone's request. Except for a request whose answer did not fit the queue.
NothingWaitsInVain ==
  open /\ F("hello", 0) \notin ToSet(wire) =>
    \A m \in Ids(parts) \ hist.shunned :
      \/ F("done", m) \in OnTheWay \/ F("abort", m) \in OnTheWay
      \/ \E n \in DOMAIN back : back[n].t = "nack" /\ back[n].m = m

\* What a transfer was kept for happens: a phone that comes back with the same
\* clientId finds the transfers that were kept for it, and is not told that the hub
\* does not know them (p2p_host.ts:662 promises it).
ResumeFindsKept ==
  \A m \in hist.dropped : F("abort", m) \notin ToSet(wire)

=============================================================================
