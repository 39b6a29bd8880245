------------------------------ MODULE AskRelay ------------------------------
(***************************************************************************)
(* A question of the agent on its way to the phones and an answer on its   *)
(* way back. The relay (extension/src/relay.ts interceptAsk) holds up the  *)
(* tool call ask_user_question and sends the question to the hub; the hub  *)
(* (bridge/src/server.ts) shows it to every phone that has the source      *)
(* selected; a phone (lib/state/pi_session.dart) claims it, answers it or  *)
(* hands it back. The relay waits for as long as its timer lets it, and    *)
(* then leaves the question to the desktop.                                *)
(*                                                                         *)
(* One source, whose agent asks one question at a time. Frames carry the   *)
(* numbers of questions, epochs and sockets. Answers are well formed.      *)
(***************************************************************************)
EXTENDS Integers, FiniteSets, Sequences

CONSTANTS Phones,
          MaxAsks,     \* bound: questions
          MaxMishaps   \* bound: sockets that drop, sessions and epochs that end

ASSUME AskAssumption ==
  /\ Phones \cap Nat = {} /\ "desktop" \notin Phones /\ "open" \notin Phones
  /\ {MaxAsks, MaxMishaps} \subseteq Nat

VARIABLES
  relay,     \* socket (0: none), registered, epoch, watched, question, timer
  toHub,     \* socket -> frames to the hub
  toRelay,   \* frames to the relay, on its present socket
  hub,       \* current socket, the source's epoch, the question
  gone,      \* the relay's sockets whose close the hub has seen
  selected,  \* phones whose present connection has selected the source
  selecting, \* those of them whose selection waits for a snapshot
  ghosts,    \* phones with a former connection that the hub still counts
  phone,     \* phone -> connected, in front, question on its card
  up, down,  \* phone -> frames to and from the hub
  made,      \* sockets, epochs, questions and mishaps so far
  hist       \* history, for the properties only

relayVars == <<relay, toRelay>>
hubVars == <<hub, gone, selected, selecting, ghosts>>
phoneVars == <<phone, up>>
vars == <<relayVars, toHub, hubVars, phoneVars, down, made, hist>>

Sockets == 1..(MaxMishaps + 1)
NoAsk == [id |-> 0, epoch |-> 0, claimed |-> FALSE]

\* History: who settled each question, the phones told that their answer was
\* delivered, the epoch a question was asked in, the phones that have lost a
\* connection with a card on the screen, and those whose card went with the reply to
\* another.
HistoryInit == [settled |-> [i \in 1..MaxAsks |-> "open"], told |-> [i \in 1..MaxAsks |-> {}],
                asked |-> [i \in 1..MaxAsks |-> 0], away |-> {}, astray |-> {}]

Init ==
  /\ relay = [sock |-> 0, registered |-> FALSE, epoch |-> 0, watched |-> FALSE,
              ask |-> 0, timer |-> "none"]
  /\ toHub = [c \in Sockets |-> <<>>] /\ toRelay = <<>>
  /\ hub = [cur |-> 0, epoch |-> 0, ask |-> NoAsk]
  /\ gone = {} /\ selected = {} /\ selecting = {} /\ ghosts = {}
  /\ phone = [p \in Phones |-> [conn |-> FALSE, front |-> FALSE, card |-> 0]]
  /\ up = [p \in Phones |-> <<>>] /\ down = [p \in Phones |-> <<>>]
  /\ made = [socks |-> 0, epochs |-> 0, asks |-> 0, mishaps |-> 0]
  /\ hist = HistoryInit

---------------------------------------------------------------------------
(* The relay *)

SendHub(c, f) == toHub' = IF c = 0 THEN toHub ELSE [toHub EXCEPT ![c] = Append(@, f)]

Mishap == /\ made.mishaps < MaxMishaps
          /\ made' = [made EXCEPT !.mishaps = @ + 1]

\* connect and its "open": newEpoch, registered once the hub has said so. The
\* number of watchers, and a question that waits, stay as they were.
RelayConnects ==
  LET c == made.socks + 1
      e == made.epochs + 1
  IN /\ relay.sock = 0
     /\ relay' = [relay EXCEPT !.sock = c, !.registered = FALSE, !.epoch = e]
     /\ SendHub(c, [k |-> "register", epoch |-> e])
     /\ made' = [made EXCEPT !.socks = c, !.epochs = e]
     /\ UNCHANGED <<toRelay, hubVars, phoneVars, down, hist>>

\* resnapshot: a new epoch over the same socket.
RelayResnapshots ==
  LET e == made.epochs + 1
  IN /\ relay.sock # 0 /\ made.mishaps < MaxMishaps
     /\ relay' = [relay EXCEPT !.registered = TRUE, !.epoch = e]
     /\ SendHub(relay.sock, [k |-> "snapshot", epoch |-> e])
     /\ made' = [made EXCEPT !.epochs = e, !.mishaps = @ + 1]
     /\ UNCHANGED <<toRelay, hubVars, phoneVars, down, hist>>

\* interceptAsk, up to its await. Without a link, or with nobody watching, the
\* question is left to the desktop at once.
RelayAsks ==
  LET i == made.asks + 1
  IN /\ relay.ask = 0 /\ relay.sock # 0 /\ relay.registered /\ relay.watched
     /\ made.asks < MaxAsks /\ made' = [made EXCEPT !.asks = i]
     /\ relay' = [relay EXCEPT !.ask = i, !.timer = "claim"]
     /\ SendHub(relay.sock, [k |-> "ask", id |-> i, epoch |-> relay.epoch])
     /\ hist' = [hist EXCEPT !.asked[i] = relay.epoch]
     /\ UNCHANGED <<toRelay, hubVars, phoneVars, down>>

\* Faulty variant of Free: the timer goes on.
FreeStillTimed(r) == [r EXCEPT !.ask = 0]

Free(r) == [r EXCEPT !.ask = 0, !.timer = "none"]

Settled(h, who) == [h EXCEPT !.settled[relay.ask] = who]

\* settleAsk without an answer, and interceptAsk after its await: the desktop asks,
\* and the hub is told if it can be reached.
FallBack ==
  /\ relay' = Free(relay)
  /\ hist' = Settled(hist, "desktop")
  /\ SendHub(relay.sock, [k |-> "cancel", id |-> relay.ask])

\* The time to claim, or the time to answer, is over.
RelayGivesUp ==
  /\ relay.timer # "none"
  /\ FallBack
  /\ UNCHANGED <<toRelay, hubVars, phoneVars, down, made>>

\* The socket closes at the relay's end: a question that waits goes on waiting.
RelayDrops ==
  /\ relay.sock # 0 /\ Mishap
  /\ relay' = [relay EXCEPT !.sock = 0, !.registered = FALSE]
  /\ toRelay' = <<>>
  /\ UNCHANGED <<toHub, hubVars, phoneVars, down, hist>>

\* stopInternal, before the relay starts again on another session.
RelayStops ==
  /\ Mishap
  /\ relay' = [Free(relay) EXCEPT !.sock = 0, !.registered = FALSE, !.watched = FALSE]
  /\ toRelay' = <<>>
  /\ hist' = IF relay.ask = 0 THEN hist ELSE Settled(hist, "desktop")
  /\ UNCHANGED <<toHub, hubVars, phoneVars, down>>

\* handleHubMessage
RelayHears ==
  LET f == Head(toRelay)
      mine == relay.ask # 0 /\ f.id = relay.ask
  IN /\ toRelay # <<>> /\ toRelay' = Tail(toRelay)
     /\ \/ /\ f.k = "registered"
           /\ relay' = IF f.epoch = relay.epoch THEN [relay EXCEPT !.registered = TRUE] ELSE relay
           /\ UNCHANGED <<toHub, hist>>
        \/ /\ f.k = "status" /\ relay' = [relay EXCEPT !.watched = f.watched]
           /\ UNCHANGED <<toHub, hist>>
        \/ /\ f.k = "claimed"
           /\ relay' = IF mine THEN [relay EXCEPT !.timer = "answer"] ELSE relay
           /\ UNCHANGED <<toHub, hist>>
        \/ /\ f.k = "result" /\ mine /\ f.epoch = relay.epoch
           /\ relay' = Free(relay) /\ hist' = Settled(hist, f.from)
           /\ UNCHANGED toHub
        \/ f.k = "declined" /\ mine /\ FallBack
        \/ /\ f.k \in {"result", "declined"} /\ ~mine
           /\ UNCHANGED <<relay, toHub, hist>>
        \/ /\ f.k = "result" /\ mine /\ f.epoch # relay.epoch
           /\ UNCHANGED <<relay, toHub, hist>>
     /\ UNCHANGED <<hubVars, phoneVars, down, made>>

---------------------------------------------------------------------------
(* The hub *)

\* A frame to a socket the relay has left is lost.
Heard(c, frames) == IF c = relay.sock /\ c # 0 THEN frames ELSE <<>>

\* pushDesktopStatus, for the phones that have the source selected.
Status(watchers) == [k |-> "status", watched |-> watchers # {}]
Push(watchers) == toRelay' = toRelay \o Heard(hub.cur, <<Status(watchers)>>)

\* sendAskFrame, to the phones with the source selected, and a last frame to `p`.
Tell(frames, p, reply) ==
  down' = [q \in Phones |->
             down[q] \o (IF q \in selected' THEN frames ELSE <<>>) \o (IF q = p THEN reply ELSE <<>>)]
Nobody == "desktop"

\* retractAsk, of the hub's question if it has one; republishAsk.
Retraction == IF hub.ask = NoAsk THEN <<>> ELSE <<[k |-> "retracted", id |-> hub.ask.id]>>
Request(i) == IF i = 0 THEN <<>> ELSE <<[k |-> "request", id |-> i]>>

Registers(c, f) ==
  /\ hub' = [hub EXCEPT !.cur = c, !.epoch = f.epoch]
  /\ toRelay' = toRelay \o Heard(c, <<[k |-> "registered", epoch |-> f.epoch],
                                      Status(selected \cup ghosts)>>)
  /\ UNCHANGED down

Asks(c, f) ==
  IF f.epoch # hub.epoch \/ selected \cup ghosts = {}
  THEN /\ toRelay' = toRelay \o Heard(c, <<[k |-> "declined", id |-> f.id]>>)
       /\ UNCHANGED <<hub, down>>
  ELSE /\ hub' = [hub EXCEPT !.ask = [id |-> f.id, epoch |-> f.epoch, claimed |-> FALSE]]
       /\ Tell(Retraction \o Request(f.id), Nobody, <<>>)
       /\ UNCHANGED toRelay

Cancels(f) ==
  IF hub.ask.id # f.id THEN UNCHANGED <<hub, down>>
  ELSE hub' = [hub EXCEPT !.ask = NoAsk] /\ Tell(Retraction, Nobody, <<>>)

\* handleDesktopMessage. The link is local: what the relay sent over a former socket
\* is read first; its close may come late.
HubReads(c) ==
  LET f == Head(toHub[c])
  IN /\ toHub[c] # <<>> /\ toHub' = [toHub EXCEPT ![c] = Tail(@)]
     /\ \A d \in 1..(c - 1) : toHub[d] = <<>>
     /\ UNCHANGED <<selected, selecting, ghosts, gone>>
     /\ \/ f.k = "register" /\ Registers(c, f)
        \/ /\ f.k = "snapshot" /\ hub' = [hub EXCEPT !.epoch = f.epoch]
           /\ UNCHANGED <<toRelay, down>>
        \/ f.k = "ask" /\ Asks(c, f)
        \/ f.k = "cancel" /\ Cancels(f) /\ UNCHANGED toRelay
     /\ UNCHANGED <<relay, phoneVars, made, hist>>

\* The close of a socket that the relay has left: what is still under way on it is
\* lost. Only the current one takes the question with it.
HubSeesClose(c) ==
  /\ c <= made.socks /\ c # relay.sock /\ c \notin gone
  /\ gone' = gone \cup {c} /\ toHub' = [toHub EXCEPT ![c] = <<>>]
  /\ UNCHANGED <<selected, selecting, ghosts>>
  /\ IF hub.cur = c THEN hub' = [hub EXCEPT !.cur = 0, !.ask = NoAsk] /\ Tell(Retraction, Nobody, <<>>)
     ELSE UNCHANGED <<hub, down>>
  /\ UNCHANGED <<relayVars, phoneVars, made, hist>>

---------------------------------------------------------------------------
(* The hub, on a frame of a phone *)

\* hub_select_source, up to its await for a snapshot.
Selects(p) ==
  /\ IF hub.cur = 0 THEN UNCHANGED <<selected, selecting>>
     ELSE selected' = selected \cup {p} /\ selecting' = selecting \cup {p}
  /\ UNCHANGED <<hub, toRelay, down, hist>>

\* Faulty variant of Republished: the phone sees only what is asked from now on.
RepublishedNot == <<>>

\* republishAsk goes to every phone that has the source selected.
Republished == Request(hub.ask.id)

HubSelectDone(p) ==
  /\ p \in selecting /\ selecting' = selecting \ {p}
  /\ UNCHANGED <<hub, gone, selected, ghosts>>
  /\ Push(selected \cup ghosts)
  /\ Tell(Republished, Nobody, <<>>)
  /\ UNCHANGED <<relay, toHub, phoneVars, made, hist>>

Reply(f, ok) == <<[k |-> f.k, id |-> f.id, ok |-> ok]>>

Refuses(p, f) ==
  /\ down' = [down EXCEPT ![p] = @ \o Reply(f, FALSE)]
  /\ UNCHANGED <<hub, toRelay, hist>>

Claims(p, f) ==
  /\ hub' = [hub EXCEPT !.ask.claimed = TRUE]
  /\ toRelay' = IF hub.ask.claimed THEN toRelay
                ELSE toRelay \o Heard(hub.cur, <<[k |-> "claimed", id |-> f.id]>>)
  /\ down' = [down EXCEPT ![p] = @ \o Reply(f, TRUE)]
  /\ UNCHANGED hist

Declines(p, f, sent) ==
  /\ hub' = [hub EXCEPT !.ask = NoAsk]
  /\ toRelay' = toRelay \o Heard(hub.cur, <<[k |-> "declined", id |-> f.id]>>)
  /\ Tell(Retraction, p, Reply(f, sent))
  /\ UNCHANGED hist

Result(p, f) == [k |-> "result", id |-> f.id, epoch |-> hub.ask.epoch, from |-> p]

\* Faulty variant of Answers: the question stays open for others.
AnswersKeeping(p, f) ==
  /\ hub' = hub
  /\ toRelay' = toRelay \o Heard(hub.cur, <<Result(p, f)>>)
  /\ Tell(Retraction, p, Reply(f, TRUE))
  /\ hist' = [hist EXCEPT !.told[f.id] = @ \cup {p}]

Answers(p, f) ==
  /\ hub' = [hub EXCEPT !.ask = NoAsk]
  /\ toRelay' = toRelay \o Heard(hub.cur, <<Result(p, f)>>)
  /\ Tell(Retraction, p, Reply(f, TRUE))
  /\ hist' = [hist EXCEPT !.told[f.id] = @ \cup {p}]

\* sendObject: the hub's end of a socket the relay has left may be closing already.
Sendable == IF hub.cur = relay.sock THEN {TRUE} ELSE BOOLEAN

\* handleAskFrame. No lease is asked for: the number of the question is enough.
HubHandles(p) ==
  LET f == Head(up[p])
      valid == p \in selected /\ hub.ask.id = f.id /\ hub.cur # 0
  IN /\ up[p] # <<>> /\ up' = [up EXCEPT ![p] = Tail(@)]
     /\ UNCHANGED <<gone, ghosts>>
     /\ \/ f.k = "select" /\ Selects(p)
        \/ /\ f.k # "select" /\ UNCHANGED <<selected, selecting>>
           /\ \/ ~valid /\ Refuses(p, f)
              \/ valid /\ f.k = "claim" /\ Claims(p, f)
              \/ valid /\ f.k = "decline" /\ \E sent \in Sendable : Declines(p, f, sent)
              \/ valid /\ f.k = "answer" /\ Answers(p, f)
              \/ valid /\ f.k = "answer" /\ FALSE \in Sendable /\ Refuses(p, f)
     /\ UNCHANGED <<relay, toHub, phone, made>>

\* The hub notices that a former connection of a phone is closed; the relay is not
\* told when the phone has connected again since.
GhostGoes(p) ==
  /\ p \in ghosts /\ ghosts' = ghosts \ {p}
  /\ UNCHANGED <<hub, gone, selected, selecting>>
  /\ IF phone[p].conn THEN UNCHANGED toRelay ELSE Push(selected \cup ghosts')
  /\ UNCHANGED <<relay, toHub, phoneVars, down, made, hist>>

---------------------------------------------------------------------------
(* A phone. Its user does one thing at a time: not before the reply (tool_card.dart *)
(* greys the card out); for the claims that turning to the app makes, a bound.     *)

Send(p, f) == up' = [up EXCEPT ![p] = Append(@, f)]
Frame(k, i) == [k |-> k, id |-> i]
Under(p) == {up[p][n] : n \in DOMAIN up[p]} \cup {down[p][n] : n \in DOMAIN down[p]}
Idle(p) == \A f \in Under(p) : f.k \notin {"select", "claim", "answer", "decline"}

PhoneConnects(p) ==
  /\ ~phone[p].conn /\ phone' = [phone EXCEPT ![p].conn = TRUE]
  /\ Send(p, Frame("select", 0))
  /\ UNCHANGED <<relayVars, toHub, hubVars, down, made, hist>>

\* The source was offline when the phone chose it; its return is announced.
PhoneReselects(p) ==
  /\ phone[p].conn /\ Idle(p) /\ p \notin selected /\ hub.cur # 0
  /\ Send(p, Frame("select", 0))
  /\ UNCHANGED <<relayVars, toHub, hubVars, phone, down, made, hist>>

\* The requests under way end without an answer, for which declineAsk clears the
\* card. The hub counts the connection until it notices.
PhoneDrops(p) ==
  LET waits == {f \in Under(p) : f.k = "decline"}
  IN /\ phone[p].conn /\ Mishap
     /\ phone' = [phone EXCEPT ![p].conn = FALSE, ![p].card = IF waits = {} THEN @ ELSE 0]
     /\ up' = [up EXCEPT ![p] = <<>>] /\ down' = [down EXCEPT ![p] = <<>>]
     /\ selected' = selected \ {p}
     /\ ghosts' = IF p \in selected THEN ghosts \cup {p} ELSE ghosts
     /\ hist' = IF phone'[p].card = 0 THEN hist ELSE [hist EXCEPT !.away = @ \cup {p}]
     /\ UNCHANGED <<relayVars, toHub, hub, gone, selecting>>

\* setForeground: the phone claims what it has on the screen.
PhoneTurns(p) ==
  /\ Idle(p)
  /\ phone' = [phone EXCEPT ![p].front = ~@]
  /\ IF phone'[p].front /\ phone[p].card # 0 /\ phone[p].conn
     THEN Send(p, Frame("claim", phone[p].card)) ELSE UNCHANGED up
  /\ UNCHANGED <<relayVars, toHub, hubVars, down, made, hist>>

\* respondAsk and declineAsk, up to their await; unconnected, the card goes when the
\* user hands the question back.
PhoneActs(p) ==
  /\ phone[p].front /\ phone[p].card # 0 /\ Idle(p)
  /\ \/ phone[p].conn /\ UNCHANGED phone
        /\ \E k \in {"answer", "decline"} : Send(p, Frame(k, phone[p].card))
     \/ ~phone[p].conn /\ UNCHANGED up /\ phone' = [phone EXCEPT ![p].card = 0]
  /\ UNCHANGED <<relayVars, toHub, hubVars, down, made, hist>>

Clears(p, f) ==
  CASE f.k = "retracted" -> f.id = phone[p].card
    [] f.k = "claim" -> f.id = phone[p].card /\ ~f.ok
    [] f.k = "answer" -> f.ok
    [] f.k = "decline" -> TRUE

\* _onAskRequest
PhoneShows(p, i) == [phone EXCEPT ![p].card = i]

PhoneHears(p) ==
  LET f == Head(down[p])
  IN /\ down[p] # <<>> /\ down' = [down EXCEPT ![p] = Tail(@)]
     /\ \/ /\ f.k = "request" /\ phone' = PhoneShows(p, f.id)
           /\ IF phone[p].front THEN Send(p, Frame("claim", f.id)) ELSE UNCHANGED up
        \/ /\ f.k # "request"
           /\ phone' = IF Clears(p, f) THEN [phone EXCEPT ![p].card = 0] ELSE phone
           /\ UNCHANGED up
     /\ hist' = IF f.k = "decline" /\ phone[p].card \notin {0, f.id}
                THEN [hist EXCEPT !.astray = @ \cup {p}] ELSE hist
     /\ UNCHANGED <<relayVars, toHub, hubVars, made>>

---------------------------------------------------------------------------

Next ==
  \/ RelayConnects \/ RelayResnapshots \/ RelayAsks \/ RelayGivesUp
  \/ RelayDrops \/ RelayStops \/ RelayHears
  \/ \E c \in Sockets : HubReads(c) \/ HubSeesClose(c)
  \/ \E p \in Phones :
       \/ HubSelectDone(p) \/ HubHandles(p) \/ GhostGoes(p)
       \/ PhoneConnects(p) \/ PhoneReselects(p) \/ PhoneDrops(p) \/ PhoneTurns(p)
       \/ PhoneActs(p) \/ PhoneHears(p)

Spec == Init /\ [][Next]_vars

---------------------------------------------------------------------------
(* Properties *)

TypeOK ==
  /\ relay.sock \in 0..made.socks /\ relay.epoch \in 0..made.epochs /\ relay.ask \in 0..made.asks
  /\ relay.timer = "none" <=> relay.ask = 0
  /\ relay.sock = 0 => ~relay.registered /\ toRelay = <<>>
  /\ hub.cur \in 0..made.socks /\ hub.cur \notin gone /\ hub.ask.id \in 0..made.asks
  /\ hub.cur = 0 => hub.ask = NoAsk
  /\ selected \subseteq {p \in Phones : phone[p].conn}
  /\ \A p \in Phones : /\ phone[p].card \in 0..made.asks
                       /\ ~phone[p].conn => up[p] = <<>> /\ down[p] = <<>>

\* Nothing is under way between the relay and the hub, and the relay's socket is the
\* hub's current one.
LinkQuiet == relay.sock # 0 /\ relay.sock = hub.cur /\ toHub[relay.sock] = <<>> /\ toRelay = <<>>

\* The question was asked in the present epoch, over the present socket therefore.
Here(i) == i # 0 /\ hist.asked[i] = relay.epoch

\* An answer counts once: of the phones that answer, one at most is told that its
\* answer was delivered, and the answer the agent goes on with is that phone's. The
\* agent is not left waiting for one that was delivered, over the same link and epoch.
AnswersCount ==
  \A i \in 1..MaxAsks :
    /\ Cardinality(hist.told[i]) <= 1
    /\ hist.settled[i] \notin {"open", "desktop"} => hist.told[i] = {hist.settled[i]}
    /\ hist.told[i] # {} /\ relay.ask = i => ~(Here(i) /\ LinkQuiet)

\* At rest, a phone shows the question the agent waits for, and no other: cards
\* follow questions over claims, answers of others, time-outs, replaced sockets of
\* the relay, new epochs and selections. A phone that was away with its card may
\* still have it, a question of another link or epoch may still be shown, and the
\* reply to a question that has been handed back takes away the card that is there.
CardsFollow ==
  \A p \in selected \ selecting :
    /\ LinkQuiet /\ up[p] = <<>> /\ down[p] = <<>>
    => /\ Here(relay.ask) /\ p \notin hist.astray => phone[p].card = relay.ask
       /\ Here(phone[p].card) /\ p \notin hist.away => relay.ask = phone[p].card
=============================================================================
