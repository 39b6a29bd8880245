----------------------------- MODULE Signalling -----------------------------
(***************************************************************************)
(* How a phone is put through to a hub: the rendezvous server              *)
(* (rendezvous/src/server.ts) with one room, the hub that registers as its *)
(* host and answers offers (bridge/src/p2p_host.ts P2pHost), and phones    *)
(* that join as guests (lib/core/p2p_signaling.dart, p2p_connector.dart).  *)
(*                                                                         *)
(* A guest is one signalling connection of a phone, with its own peerId.   *)
(* Over it the phone makes one attempt after another (direct, then relay): *)
(* an offer, then its candidates, here one for each offer. The frames      *)
(* between a guest and the host are passed on at once by the server and    *)
(* wait in the host's socket. ICE itself, its servers and the contents of  *)
(* descriptions are left out; a channel may open once the phone has the    *)
(* answer to its present offer. Stopping the hub is left out.              *)
(***************************************************************************)
EXTENDS Integers, SequencesExt

CONSTANTS Guests,     \* signalling connections of phones
          MaxOffers,  \* bound on the attempts of the phones over them
          Conns,      \* names for the host's connections to the server, used anew
          HasTurn,    \* the server hands out TURN credentials that run out
          MaxLosses   \* bound on the connections lost

ASSUME SignallingAssumption ==
  /\ Conns \subseteq Nat \ {0} /\ HasTurn \in BOOLEAN
  /\ {MaxOffers, MaxLosses} \subseteq Nat

VARIABLES
  up,      \* connections that are open at the server's end
  hello,   \* those of them whose hello the server has not read
  room,    \* the room's host: its connection, or 0
  guest,   \* guest -> "out", "in" the room, told to be "closing", "gone"
  ws,      \* the host's connection, or 0
  armed,   \* the host has the server's ok, and credentials to renew
  silent,  \* the host cannot know that the server has dropped its connection
  toHub,   \* frames on the way to the host
  offers,  \* guest -> its present attempt
  chain,   \* signalChains: guest -> signals that wait for their turn
  runs,    \* offers whose handler is at one of its awaits
  pc,      \* peers: guest -> its peer connection, or None
  pending, \* pendingCandidatesByPeer: guest -> attempts the candidates are of
  got,     \* guest -> attempt the phone has the answer of
  hist     \* history, for the properties only

hubVars == <<chain, runs, pc, pending>>
srvVars == <<up, hello, room>>
vars == <<srvVars, guest, ws, armed, silent, toHub, offers, hubVars, got, hist>>

None == [n |-> 0, remote |-> FALSE, open |-> FALSE, cands |-> {}]
Frame(k, g, n) == [k |-> k, from |-> g, n |-> n]

TypeOK ==
  /\ ws \in Conns \cup {0} /\ room \in up \cup {0} /\ hello \subseteq up \ {room}
  /\ {armed, silent} \subseteq BOOLEAN /\ (armed => ws # 0)
  /\ \A g \in Guests : /\ guest[g] = "in" => room # 0
                       /\ pc[g].n <= offers[g] /\ pending[g] \subseteq 1..offers[g]
                       /\ pc[g].open => pc[g].remote
  /\ ws = 0 => toHub = <<>>

Init ==
  /\ up = {} /\ hello = {} /\ room = 0 /\ guest = [g \in Guests |-> "out"]
  /\ ws = 0 /\ armed = FALSE /\ silent = FALSE /\ toHub = <<>>
  /\ offers = [g \in Guests |-> 0] /\ chain = [g \in Guests |-> <<>>] /\ runs = {}
  /\ pc = [g \in Guests |-> None] /\ pending = [g \in Guests |-> {}]
  /\ got = [g \in Guests |-> 0]
  /\ hist = [losses |-> 0, cut |-> {}, late |-> {}, ended |-> {}, handled |-> {}]

---------------------------------------------------------------------------
(* The rendezvous server *)

\* History: the guests that are or were there may not be heard of any more.
Cut(h) == [h EXCEPT !.cut = @ \cup {g \in Guests : guest[g] # "out"}]
Lost(h) == [h EXCEPT !.losses = @ + 1]

\* cleanup of a connection of the host that leaves the guests in the room.
CleanupOfHostOnly(n) ==
  /\ up' = up \ {n} /\ hello' = hello \ {n} /\ UNCHANGED guest
  /\ room' = IF room = n THEN 0 ELSE room

\* cleanup of a connection of the host: the guests are sent away with it.
Cleanup(n) ==
  /\ up' = up \ {n} /\ hello' = hello \ {n}
  /\ room' = IF room = n THEN 0 ELSE room
  /\ guest' = IF room = n THEN [g \in Guests |-> IF guest[g] = "in" THEN "closing" ELSE guest[g]]
              ELSE guest

\* send: what is written to a connection the host has left is lost.
Sent(f) == IF room # 0 /\ room = ws THEN Append(toHub, f) ELSE toHub

\* A hello that is refused, on a connection that is left open.
HelloRefusedQuietly(n) ==
  /\ hello' = hello \ {n} /\ UNCHANGED up
  /\ room' = IF room = 0 THEN n ELSE room
  /\ toHub' = IF n = ws /\ room = 0 THEN Append(toHub, Frame("ok", 0, 0)) ELSE toHub

\* onHello of a host: only if the room has none.
Hello(n) ==
  /\ hello' = hello \ {n}
  /\ IF room = 0
     THEN /\ room' = n /\ UNCHANGED up
          /\ toHub' = IF n = ws THEN Append(toHub, Frame("ok", 0, 0)) ELSE toHub
     ELSE up' = up \ {n} /\ UNCHANGED <<room, toHub>>

ServerReadsHello ==
  /\ \E n \in hello : Hello(n)
  /\ UNCHANGED <<guest, ws, armed, silent, offers, hubVars, got, hist>>

\* The close of a connection the host has left, or a ping that is not answered.
ServerSeesClose ==
  /\ \E n \in up \ {ws} : Cleanup(n) /\ hist' = IF n = room THEN Cut(hist) ELSE hist
  /\ UNCHANGED <<ws, armed, silent, toHub, offers, hubVars, got>>

\* The server gives up a connection the host has, at any time since it was made. The
\* host hears of it after what was under way, or never, what was under way lost or not.
ServerDrops ==
  /\ ws \in up /\ hist.losses < MaxLosses
  /\ Cleanup(ws)
  /\ \/ silent' = FALSE /\ UNCHANGED toHub
     \/ silent' = TRUE /\ toHub' \in {toHub, <<>>}
  /\ hist' = Lost(Cut(hist))
  /\ UNCHANGED <<ws, armed, offers, hubVars, got>>

GuestJoins(g) ==
  /\ guest[g] = "out" /\ room # 0 /\ guest' = [guest EXCEPT ![g] = "in"]
  /\ UNCHANGED <<srvVars, ws, armed, silent, toHub, offers, hubVars, got, hist>>

\* A guest that is told to leave can still be heard, by the next host too.
GuestOffers(g) ==
  /\ guest[g] \in {"in", "closing"} /\ FoldFunction(+, 0, offers) < MaxOffers
  /\ offers' = [offers EXCEPT ![g] = @ + 1]
  /\ toHub' = Sent(Frame("offer", g, offers[g] + 1))
  /\ UNCHANGED <<srvVars, guest, ws, armed, silent, hubVars, got, hist>>

GuestTrickles(g) ==
  /\ guest[g] \in {"in", "closing"} /\ offers[g] > 0
  /\ LET f == Frame("candidate", g, offers[g]) IN
     /\ f \notin ToSet(toHub) \cup ToSet(chain[g]) /\ <<g, offers[g]>> \notin hist.handled
     /\ toHub' = Sent(f)
  /\ UNCHANGED <<srvVars, guest, ws, armed, silent, offers, hubVars, got, hist>>

\* cleanup of a guest: the host is told of one that is in its room.
GuestLeaves(g) ==
  /\ guest[g] \in {"in", "closing"} /\ guest' = [guest EXCEPT ![g] = "gone"]
  /\ toHub' = IF guest[g] = "in" THEN Sent(Frame("peer_left", g, 0)) ELSE toHub
  /\ UNCHANGED <<srvVars, ws, armed, silent, offers, hubVars, got, hist>>

---------------------------------------------------------------------------
(* The host's connection *)

\* connect: the server's welcome is on its way. No timer of the host runs until ok.
HubConnects ==
  /\ ws = 0 /\ Conns \ up # {}
  /\ LET n == Min(Conns \ up) IN ws' = n /\ up' = up \cup {n}
  /\ toHub' = <<Frame("welcome", 0, 0)>>
  /\ UNCHANGED <<hello, room, guest, armed, silent, offers, hubVars, got, hist>>

\* The close event: reconnect is due. Established peers are left alone.
Closed == ws' = 0 /\ armed' = FALSE /\ silent' = FALSE /\ toHub' = <<>>

HubSeesClose ==
  /\ ws \notin up \cup {0} /\ ~silent /\ toHub = <<>> /\ Closed
  /\ UNCHANGED <<srvVars, guest, offers, hubVars, got, hist>>

HubLoses ==
  /\ ws # 0 /\ hist.losses < MaxLosses /\ Closed /\ hist' = Lost(Cut(hist))
  /\ UNCHANGED <<srvVars, guest, offers, hubVars, got>>

\* armCredentialRefresh: the connection is closed shortly before the credentials run out.
Refresh ==
  /\ armed /\ Closed /\ hist' = Cut(hist)
  /\ UNCHANGED <<srvVars, guest, offers, hubVars, got>>

---------------------------------------------------------------------------
(* The host's peers *)

\* close of the peer connection of a guest: it is forgotten with its candidates.
ClosePeer(g) == pc' = [pc EXCEPT ![g] = None] /\ pending' = [pending EXCEPT ![g] = {}]
Ended(h, g) == [h EXCEPT !.ended = @ \cup {<<g, pc[g].n>>}]

\* Faulty variant of PeerLeft: the peer is kept whatever its channel does.
PeerLeftKeeps(g) == pending' = [pending EXCEPT ![g] = {}] /\ UNCHANGED <<pc, hist>>

\* peer_left: the server tells nothing about an open channel. It does not wait for
\* the guest's signals: an offer that waits for its turn comes after it.
PeerLeft(g) ==
  /\ IF pc[g] # None /\ ~pc[g].open THEN ClosePeer(g)
     ELSE pending' = [pending EXCEPT ![g] = {}] /\ UNCHANGED pc
  /\ hist' = LET h == IF pc[g] # None /\ ~pc[g].open THEN Ended(hist, g) ELSE hist
             IN IF \E n \in DOMAIN chain[g] : chain[g][n].k = "offer"
                THEN [h EXCEPT !.late = @ \cup {g}] ELSE h

HubReceives ==
  LET f == Head(toHub) IN
  /\ toHub # <<>> /\ toHub' = Tail(toHub)
  /\ \/ /\ f.k = "welcome" /\ hello' = hello \cup ({ws} \cap up)
        /\ UNCHANGED <<armed, hubVars, hist>>
     \/ /\ f.k = "ok" /\ armed' = HasTurn
        /\ UNCHANGED <<hello, hubVars, hist>>
     \/ /\ f.k \in {"offer", "candidate"} /\ chain' = [chain EXCEPT ![f.from] = Append(@, f)]
        /\ UNCHANGED <<hello, armed, runs, pc, pending, hist>>
     \/ /\ f.k = "peer_left" /\ PeerLeft(f.from)
        /\ UNCHANGED <<hello, armed, chain, runs>>
  /\ UNCHANGED <<up, room, guest, ws, silent, offers, got>>

\* Faulty variant of ItsTurn: signals are handled as they come.
AnyTime(g) == TRUE

\* enqueueSignal: a signal waits for the one before it.
ItsTurn(g) == \A r \in runs : r.g # g

\* onSignal of an offer, up to its first await: the peer of an earlier one goes.
OfferStarts(g) ==
  /\ chain[g] # <<>> /\ ItsTurn(g) /\ Head(chain[g]).k = "offer"
  /\ chain' = [chain EXCEPT ![g] = Tail(@)]
  /\ LET n == Head(chain[g]).n IN
     /\ pc' = [pc EXCEPT ![g] = [None EXCEPT !.n = n]]
     /\ runs' = runs \cup {[g |-> g, n |-> n, at |-> "remote"]}
  /\ pending' = IF pc[g] # None THEN [pending EXCEPT ![g] = {}] ELSE pending
  /\ UNCHANGED <<srvVars, guest, ws, armed, silent, toHub, offers, got, hist>>

\* The remote description is set: the candidates that waited for it are added. A
\* peer that was closed meanwhile takes them with it, or fails before.
RemoteSet ==
  \E r \in runs :
    /\ r.at = "remote" /\ runs' = (runs \ {r}) \cup {[r EXCEPT !.at = "answer"]}
    /\ pending' = [pending EXCEPT ![r.g] = {}]
    /\ pc' = IF pc[r.g].n = r.n
             THEN [pc EXCEPT ![r.g].remote = TRUE, ![r.g].cands = @ \cup pending[r.g]] ELSE pc
    /\ UNCHANGED <<srvVars, guest, ws, armed, silent, toHub, offers, chain, got, hist>>

\* The answer goes out, to a guest that is in the room.
Answers ==
  \E r \in runs :
    /\ r.at = "answer" /\ pc[r.g].n = r.n /\ runs' = runs \ {r}
    /\ got' = IF ws # 0 /\ ws = room /\ guest[r.g] = "in" THEN [got EXCEPT ![r.g] = r.n] ELSE got
    /\ UNCHANGED <<srvVars, guest, ws, armed, silent, toHub, offers, chain, pc, pending, hist>>

\* One of the steps throws, as it does when the peer was closed: the peer is closed.
OfferFails ==
  \E r \in runs :
    /\ runs' = runs \ {r}
    /\ IF pc[r.g].n = r.n THEN ClosePeer(r.g) /\ hist' = Ended(hist, r.g)
       ELSE UNCHANGED <<pc, pending, hist>>
    /\ UNCHANGED <<srvVars, guest, ws, armed, silent, toHub, offers, chain, got>>

\* onSignal of a candidate: added to a peer that is ready, kept otherwise.
CandidateRuns(g) ==
  LET n == Head(chain[g]).n IN
  /\ chain[g] # <<>> /\ ItsTurn(g) /\ Head(chain[g]).k = "candidate"
  /\ chain' = [chain EXCEPT ![g] = Tail(@)]
  /\ IF pc[g].remote THEN pc' = [pc EXCEPT ![g].cands = @ \cup {n}] /\ UNCHANGED pending
     ELSE pending' = [pending EXCEPT ![g] = @ \cup {n}] /\ UNCHANGED pc
  /\ hist' = [hist EXCEPT !.handled = @ \cup {<<g, n>>}]
  /\ UNCHANGED <<srvVars, guest, ws, armed, silent, toHub, offers, runs, got>>

\* attachChannel
ChannelOpens(g) ==
  /\ pc[g].remote /\ ~pc[g].open /\ got[g] = pc[g].n /\ offers[g] = pc[g].n
  /\ pc' = [pc EXCEPT ![g].open = TRUE]
  /\ UNCHANGED <<srvVars, guest, ws, armed, silent, toHub, offers, chain, runs, pending, got, hist>>

\* The channel ends, or its authentication fails or is late.
ChannelCloses(g) ==
  /\ pc[g].open /\ ClosePeer(g) /\ hist' = Ended(hist, g)
  /\ UNCHANGED <<srvVars, guest, ws, armed, silent, toHub, offers, chain, runs, got>>

---------------------------------------------------------------------------

Next ==
  \/ ServerReadsHello \/ ServerSeesClose \/ ServerDrops
  \/ HubConnects \/ HubSeesClose \/ HubLoses \/ Refresh \/ HubReceives
  \/ RemoteSet \/ Answers \/ OfferFails
  \/ \E g \in Guests : \/ GuestJoins(g) \/ GuestOffers(g) \/ GuestTrickles(g) \/ GuestLeaves(g)
                       \/ OfferStarts(g) \/ CandidateRuns(g)
                       \/ ChannelOpens(g) \/ ChannelCloses(g)

Spec == Init /\ [][Next]_vars

\* The server's timer pings every connection, the host's timers reconnect and renew
\* the credentials, and frames on a connection that is up arrive.
FairSpec ==
  /\ Spec /\ WF_vars(ServerReadsHello) /\ WF_vars(ServerSeesClose) /\ WF_vars(HubReceives)
  /\ WF_vars(HubConnects) /\ WF_vars(HubSeesClose) /\ WF_vars(Refresh)

---------------------------------------------------------------------------
(* Properties *)

\* What was made of a guest's offer and candidates: a peer that is past setting its
\* description has the candidate of its offer once that was handled, and candidates
\* of other offers only if the peers of those had ended, or were lost on the way.
CandidatesReachTheirPeer ==
  \A g \in Guests : pc[g].remote =>
    /\ <<g, pc[g].n>> \in hist.handled => pc[g].n \in pc[g].cands
    /\ \A n \in pc[g].cands \ {pc[g].n} : <<g, n>> \in hist.ended \/ g \in hist.cut

\* A peer whose channel is not open goes with its guest: unless an offer still
\* waited for its turn when the host was told, or the host lost the server.
PeersCleaned ==
  \A g \in Guests :
    /\ pc[g] # None /\ ~pc[g].open /\ guest[g] = "gone"
    /\ Frame("peer_left", g, 0) \notin ToSet(toHub)
    => g \in hist.late \cup hist.cut

\* With TURN, whose credentials make it renew the connection, the host has the room
\* again however its connection breaks, but for one case: a connection that goes in
\* silence before its ok is waited on for ever, for want of any timer.
HostReturns == <>[](silent /\ ~armed) \/ []<>(ws # 0 /\ room = ws)

=============================================================================
