-------------------------- MODULE SignallingProofs --------------------------
(***************************************************************************)
(* Proofs about module Signalling, for any guests, attempts, connections   *)
(* and losses: its types, what becomes of a guest's candidates, and of the *)
(* peer of a guest that has left.                                          *)
(*                                                                         *)
(* CandidatesReachTheirPeer and PeersCleaned look at the host's peers; the *)
(* invariant SigInv also says what is on the way.  The signals of a guest  *)
(* that wait in its chain and in the host's socket are in the order of     *)
(* their attempts, past what the host has started and handled (OrderInv).  *)
(* A guest of which the host has missed nothing (it is not cut) either has *)
(* told it of the attempt its candidates belong to (Known), or joined when *)
(* the host was not in the room and is unknown to it until it is cut; and  *)
(* once it has gone, its last word is peer_left (Left).                    *)
(***************************************************************************)
EXTENDS Signalling, WellFoundedInduction, TLAPS

Signals(g) == [k : {"offer", "candidate"}, from : {g}, n : Nat]
Frames ==
    [k : {"welcome", "ok"}, from : {0}, n : {0}] \cup [k : {"offer", "candidate"}, from : Guests, n : Nat]
    \cup [k : {"peer_left"}, from : Guests, n : {0}]
Peers == [n : Nat, remote : BOOLEAN, open : BOOLEAN, cands : SUBSET Nat]
Runs == [g : Guests, n : Nat \ {0}, at : {"remote", "answer"}]
Histories == [losses : Nat, cut : SUBSET Guests, late : SUBSET Guests,
              ended : SUBSET (Guests \X Nat), handled : SUBSET (Guests \X Nat)]

Types ==
    /\ guest \in [Guests -> {"out", "in", "closing", "gone"}]
    /\ toHub \in Seq(Frames)
    /\ offers \in [Guests -> Nat]
    /\ DOMAIN chain = Guests /\ \A g \in Guests : chain[g] \in Seq(Signals(g))
    /\ runs \subseteq Runs
    /\ pc \in [Guests -> Peers]
    /\ pending \in [Guests -> SUBSET Nat]
    /\ got \in [Guests -> Nat]
    /\ hist \in Histories

\* The room and the host's connection to it.
RoomInv ==
    /\ ws \in Conns \cup {0} /\ room \in up \cup {0} /\ hello \subseteq up \ {room}
    /\ 0 \notin up
    /\ armed \in BOOLEAN /\ silent \in BOOLEAN /\ (armed => ws # 0)
    /\ ws = 0 => toHub = <<>>
    /\ \A g \in Guests : guest[g] = "in" => room # 0

\* The host's peer for a guest. One that has no description yet is in the hands of
\* the handler of its offer, which no candidate overtakes.
PeerInv(g) ==
    /\ pc[g].n = 0 => pc[g] = None
    /\ pc[g].n <= offers[g] /\ pending[g] \subseteq 1..offers[g]
    /\ pc[g].open => pc[g].remote
    /\ pc[g].remote => pending[g] = {}
    /\ pc[g] # None /\ ~pc[g].remote =>
           \E r \in runs : r.g = g /\ r.n = pc[g].n /\ r.at = "remote"
    /\ pc[g] # None /\ <<g, pc[g].n>> \in hist.handled =>
           pc[g].remote /\ pc[g].n \in pc[g].cands

IsSignal(f, g) == f.k \in {"offer", "candidate"} /\ f.from = g

\* Attempt m may come before signal f.
Before(m, f) == m <= f.n /\ (f.k = "offer" => m < f.n)

\* What waits is in order ...
OrderInv(g) ==
    /\ \A i, j \in 1..Len(chain[g]) : i < j => Before(chain[g][i].n, chain[g][j])
    /\ \A i, j \in 1..Len(toHub) :
           i < j /\ IsSignal(toHub[i], g) /\ IsSignal(toHub[j], g) => Before(toHub[i].n, toHub[j])
    /\ \A i \in 1..Len(chain[g]), j \in 1..Len(toHub) :
           IsSignal(toHub[j], g) => Before(chain[g][i].n, toHub[j])

\* ... and past what has been handled.
Ahead(f, g, o, p, h) ==
    /\ f.n \in 1..o[g] /\ Before(p[g].n, f)
    /\ \A m \in Nat : <<g, m>> \in h.handled => Before(m, f)
AheadInv(g) ==
    /\ \A i \in 1..Len(chain[g]) : Ahead(chain[g][i], g, offers, pc, hist)
    /\ \A j \in 1..Len(toHub) : IsSignal(toHub[j], g) => Ahead(toHub[j], g, offers, pc, hist)
    /\ \A m \in Nat : <<g, m>> \in hist.handled => m \in 1..offers[g]

\* The host is to hear of the offer, or has made a peer of it, which may have ended.
Known(n, g, c, t, p, h) ==
    \/ \E i \in 1..Len(c[g]) : c[g][i].k = "offer" /\ c[g][i].n = n
    \/ \E j \in 1..Len(t) : t[j].k = "offer" /\ t[j].from = g /\ t[j].n = n
    \/ p[g].n = n
    \/ <<g, n>> \in h.ended

\* No offer of the guest after a place in the host's socket.
NoOffers(g, i) == \A j \in (i + 1)..Len(toHub) : ~(toHub[j].k = "offer" /\ toHub[j].from = g)

Unheard(g) ==
    /\ \A j \in 1..Len(toHub) : ~IsSignal(toHub[j], g)
    /\ chain[g] = <<>> /\ pc[g] = None

Left(g) ==
    \/ \E i \in 1..Len(toHub) : toHub[i] = Frame("peer_left", g, 0) /\ NoOffers(g, i)
    \/ g \in hist.late
    \/ /\ NoOffers(g, 0)
       /\ \A i \in 1..Len(chain[g]) : chain[g][i].k # "offer"
       /\ pc[g] = None \/ pc[g].open

\* A guest of which the host has missed nothing.
GuestInv(g) ==
    /\ guest[g] # "closing"
    /\ guest[g] = "out" => offers[g] = 0
    /\ guest[g] = "in" /\ room # ws => Unheard(g)
    /\ guest[g] = "in" /\ room = ws /\ offers[g] > 0 => Known(offers[g], g, chain, toHub, pc, hist)
    /\ guest[g] = "gone" => Left(g)
    /\ \A i \in 1..Len(chain[g]) : Known(chain[g][i].n, g, chain, toHub, pc, hist)
    /\ \A j \in 1..Len(toHub) : IsSignal(toHub[j], g) => Known(toHub[j].n, g, chain, toHub, pc, hist)
    /\ \A n \in pending[g] : <<g, n>> \in hist.ended
    /\ \A n \in pc[g].cands : n # pc[g].n => <<g, n>> \in hist.ended

Part(g) == PeerInv(g) /\ OrderInv(g) /\ AheadInv(g) /\ (g \notin hist.cut => GuestInv(g))

SigInv == Types /\ RoomInv /\ \A g \in Guests : Part(g)

\* The server's welcome comes first: it has read no hello of that connection.
Greeting ==
    \A j \in 1..Len(toHub) : toHub[j].k = "welcome" => j = 1 /\ room # ws /\ ws \notin hello

-----------------------------------------------------------------------------
(* Sequences and numbers.                                                  *)

LEMMA Appended ==
    ASSUME NEW S, NEW s \in Seq(S), NEW f \in S
    PROVE  /\ Append(s, f) \in Seq(S) /\ Len(s) \in Nat /\ Len(Append(s, f)) = Len(s) + 1
           /\ Append(s, f)[Len(s) + 1] = f /\ Append(s, f) # s
           /\ \A i \in 1..Len(s) : Append(s, f)[i] = s[i]
OBVIOUS

LEMMA Tailed ==
    ASSUME NEW S, NEW s \in Seq(S), s # <<>>
    PROVE  /\ Tail(s) \in Seq(S) /\ Len(s) \in Nat /\ Len(s) >= 1 /\ Len(Tail(s)) = Len(s) - 1
           /\ Head(s) = s[1] /\ s[1] \in S
           /\ \A i \in 1..Len(Tail(s)) : i + 1 \in 1..Len(s) /\ Tail(s)[i] = s[i + 1]
OBVIOUS

\* A non-empty set of numbers has a least element.
LEMMA MinOfNaturals ==
    ASSUME NEW S, S \subseteq Nat, S # {}
    PROVE  Min(S) \in S
<1> DEFINE R == OpToRel(<, Nat)
<1>1. \E x \in S : \A y \in S : ~(<<y, x>> \in R)
  <2>1. IsWellFoundedOn(R, Nat)
    BY NatLessThanWellFounded
  <2> HIDE DEF R
  <2> QED
    BY <2>1, WFMin
<1>2. \A x, y \in Nat : y < x => <<y, x>> \in R
  BY DEF OpToRel
<1> HIDE DEF R
<1>3. PICK x \in S : \A y \in S : ~(<<y, x>> \in R)
  BY <1>1
<1>4. ASSUME NEW y \in S PROVE x <= y
  <2>1. x \in Nat /\ y \in Nat
    OBVIOUS
  <2>2. ~(y < x)
    BY <1>2, <1>3, <2>1
  <2> QED
    BY <2>1, <2>2
<1> QED
  BY <1>3, <1>4 DEF Min

-----------------------------------------------------------------------------
(* Steps that leave the host's part of a guest alone: one frame may be     *)
(* added to the host's socket, or all of them lost.                        *)

LEMMA SteadyPeer ==
    ASSUME NEW g \in Guests, Types, PeerInv(g), pc'[g] = pc[g], pending'[g] = pending[g],
           offers'[g] \in Nat, offers[g] <= offers'[g], \A r \in runs : r.g = g => r \in runs',
           \A m \in Nat : <<g, m>> \in hist'.handled => <<g, m>> \in hist.handled
    PROVE  PeerInv(g)'
<1>1. pc[g].n \in Nat /\ offers[g] \in Nat
  BY DEF Types, Peers
<1>2. pending'[g] \subseteq 1..offers'[g]
  BY <1>1 DEF PeerInv
<1> QED
  BY <1>1, <1>2 DEF PeerInv

LEMMA SteadyOrder ==
    ASSUME NEW g \in Guests, Types, OrderInv(g), AheadInv(g), pc'[g] = pc[g], chain'[g] = chain[g],
           offers'[g] \in Nat, offers[g] <= offers'[g],
           \A m \in Nat : <<g, m>> \in hist'.handled => <<g, m>> \in hist.handled,
           NEW f \in Frames,
           IsSignal(f, g) => f.n = offers'[g] /\ f.n >= 1 /\ (f.k = "offer" => f.n > offers[g]),
           PeerInv(g), toHub' \in {toHub, <<>>, Append(toHub, f)}
    PROVE  OrderInv(g)' /\ AheadInv(g)'
<1>1. /\ offers[g] \in Nat /\ pc[g].n \in Nat /\ chain[g] \in Seq(Signals(g)) /\ toHub \in Seq(Frames)
  BY DEF Types, Peers
<1>2. \A i \in 1..Len(chain[g]) : chain[g][i] \in Signals(g)
  BY <1>1
<1>3. \A i \in 1..Len(chain[g]) : chain[g][i].n \in 1..offers[g]
  BY DEF AheadInv, Ahead
<1>4. \A j \in 1..Len(toHub) : IsSignal(toHub[j], g) => toHub[j].n \in 1..offers[g]
  BY DEF AheadInv, Ahead
<1>5. \A i \in 1..Len(chain'[g]) : Ahead(chain[g][i], g, offers', pc', hist')
  <2> SUFFICES ASSUME NEW i \in 1..Len(chain[g]) PROVE Ahead(chain[g][i], g, offers', pc', hist')
    OBVIOUS
  <2>1. Ahead(chain[g][i], g, offers, pc, hist)
    BY DEF AheadInv
  <2> QED
    BY <1>1, <2>1, SMTT(90) DEF Ahead, Before
<1>6. \A m \in Nat : <<g, m>> \in hist'.handled => m \in 1..offers'[g]
  BY <1>1 DEF AheadInv
<1>7. \A j \in 1..Len(toHub) : IsSignal(toHub[j], g) => Ahead(toHub[j], g, offers', pc', hist')
  <2> SUFFICES ASSUME NEW j \in 1..Len(toHub), IsSignal(toHub[j], g) PROVE Ahead(toHub[j], g, offers', pc', hist')
    OBVIOUS
  <2>1. Ahead(toHub[j], g, offers, pc, hist)
    BY DEF AheadInv
  <2> QED
    BY <1>1, <2>1 DEF Ahead, Before
<1>8. IsSignal(f, g) => Ahead(f, g, offers', pc', hist')
  BY <1>1 DEF Ahead, Before, PeerInv, AheadInv
<1>9. IsSignal(f, g) => \A m \in 1..offers[g] : Before(m, f)
  BY <1>1 DEF Before
<1>10. CASE toHub' = toHub \/ toHub' = <<>>
  BY <1>5, <1>6, <1>7, <1>10, SMTT(30) DEF OrderInv, AheadInv
<1>11. CASE toHub' = Append(toHub, f)
  <2>1. /\ Len(toHub) \in Nat /\ Len(toHub') = Len(toHub) + 1 /\ toHub'[Len(toHub) + 1] = f
        /\ \A j \in 1..Len(toHub) : toHub'[j] = toHub[j]
    BY <1>1, <1>11, Appended
  <2>2. \A j \in 1..Len(toHub') : IsSignal(toHub'[j], g) => Ahead(toHub'[j], g, offers', pc', hist')
    BY <1>7, <1>8, <2>1
  <2>3. \A i, j \in 1..Len(toHub') :
            i < j /\ IsSignal(toHub'[i], g) /\ IsSignal(toHub'[j], g) => Before(toHub'[i].n, toHub'[j])
    <3> SUFFICES ASSUME NEW i \in 1..Len(toHub'), NEW j \in 1..Len(toHub'), i < j,
                        IsSignal(toHub'[i], g), IsSignal(toHub'[j], g)
                 PROVE  Before(toHub'[i].n, toHub'[j])
      OBVIOUS
    <3>1. i \in 1..Len(toHub) /\ toHub'[i] = toHub[i]
      BY <2>1
    <3>2. CASE j \in 1..Len(toHub)
      BY <2>1, <3>1, <3>2 DEF OrderInv
    <3>3. CASE j = Len(toHub) + 1
      BY <1>4, <1>9, <2>1, <3>1, <3>3
    <3> QED
      BY <2>1, <3>2, <3>3, SMTT(90)
  <2>4. \A i \in 1..Len(chain[g]), j \in 1..Len(toHub') :
            IsSignal(toHub'[j], g) => Before(chain[g][i].n, toHub'[j])
    <3> SUFFICES ASSUME NEW i \in 1..Len(chain[g]), NEW j \in 1..Len(toHub'), IsSignal(toHub'[j], g)
                 PROVE  Before(chain[g][i].n, toHub'[j])
      OBVIOUS
    <3>1. CASE j \in 1..Len(toHub)
      BY <2>1, <3>1 DEF OrderInv
    <3>2. CASE j = Len(toHub) + 1
      BY <1>3, <1>9, <2>1, <3>2
    <3> QED
      BY <2>1, <3>1, <3>2
  <2> QED
    BY <1>5, <1>6, <2>2, <2>3, <2>4 DEF OrderInv, AheadInv
<1> QED
  BY <1>10, <1>11

LEMMA SteadyGuest ==
    ASSUME NEW g \in Guests, Types, GuestInv(g), pc'[g] = pc[g], chain'[g] = chain[g],
           pending'[g] = pending[g], guest'[g] = guest[g],
           hist.ended \subseteq hist'.ended, hist.late \subseteq hist'.late,
           guest[g] = "in" => (room = ws <=> room' = ws'),
           NEW f \in Frames, toHub' \in {toHub, Append(toHub, f)},
           IsSignal(f, g) /\ toHub' # toHub =>
               /\ guest[g] = "in" /\ room = ws
               /\ f.k = "candidate" => f.n = offers[g] /\ offers[g] > 0,
           \/ offers'[g] = offers[g]
           \/ /\ guest[g] = "in"
              /\ room = ws => /\ toHub' = Append(toHub, f)
                              /\ f.k = "offer" /\ f.from = g /\ f.n = offers'[g]
    PROVE  GuestInv(g)'
<1>1. toHub \in Seq(Frames) /\ Len(toHub) \in Nat
  BY DEF Types
<1>3. /\ \A j \in 1..Len(toHub) : j \in 1..Len(toHub') /\ toHub'[j] = toHub[j]
      /\ toHub' # toHub => Len(toHub') = Len(toHub) + 1 /\ toHub'[Len(toHub) + 1] = f
  BY <1>1, Appended
<1>2. \A n : Known(n, g, chain, toHub, pc, hist) => Known(n, g, chain', toHub', pc', hist')
  BY <1>3 DEF Known
<1>4. toHub' # toHub /\ f.k = "offer" => Known(f.n, g, chain', toHub', pc', hist') \/ f.from # g
  <2>1. toHub' # toHub => Len(toHub) + 1 \in 1..Len(toHub')
    BY <1>1, <1>3
  <2> QED
    BY <1>3, <2>1 DEF Known
<1>5. guest'[g] = "in" /\ room' # ws' => Unheard(g)'
  <2> SUFFICES ASSUME guest[g] = "in", room # ws PROVE Unheard(g)'
    OBVIOUS
  <2>1. Unheard(g) /\ (toHub' # toHub => ~IsSignal(f, g))
    BY DEF GuestInv
  <2>2. \A j \in 1..Len(toHub') : ~IsSignal(toHub'[j], g)
    BY <1>1, <1>3, <2>1 DEF Unheard
  <2> QED
    BY <2>1, <2>2 DEF Unheard
<1>6. guest'[g] = "in" /\ room' = ws' /\ offers'[g] > 0
        => Known(offers'[g], g, chain', toHub', pc', hist')
  <2>1. CASE offers'[g] = offers[g]
    BY <1>2, <2>1 DEF GuestInv
  <2>2. CASE offers'[g] # offers[g] /\ room = ws
    <3>1. toHub' # toHub
      BY <1>1, <2>2, Appended
    <3> QED
      BY <1>4, <2>2, <3>1
  <2> QED
    BY <2>1, <2>2
<1>7. guest'[g] = "gone" => Left(g)'
  <2> SUFFICES ASSUME guest[g] = "gone" PROVE Left(g)'
    OBVIOUS
  <2>1. Left(g) /\ (toHub' # toHub => ~IsSignal(f, g))
    BY DEF GuestInv
  <2>2. \A i \in 0..Len(toHub) : NoOffers(g, i) =>
            \A j \in (i + 1)..Len(toHub') : ~(toHub'[j].k = "offer" /\ toHub'[j].from = g)
    <3> SUFFICES ASSUME NEW i \in 0..Len(toHub), NoOffers(g, i), NEW j \in (i + 1)..Len(toHub')
                 PROVE  ~(toHub'[j].k = "offer" /\ toHub'[j].from = g)
      OBVIOUS
    <3>1. CASE j \in 1..Len(toHub)
      BY <1>1, <1>3, <3>1 DEF NoOffers
    <3>2. CASE toHub' # toHub /\ j = Len(toHub) + 1
      BY <1>3, <2>1, <3>2 DEF IsSignal
    <3> QED
      BY <1>1, <1>3, <3>1, <3>2
  <2>3. CASE \E i \in 1..Len(toHub) : toHub[i] = Frame("peer_left", g, 0) /\ NoOffers(g, i)
    <3>1. PICK i \in 1..Len(toHub) : toHub[i] = Frame("peer_left", g, 0) /\ NoOffers(g, i)
      BY <2>3
    <3>2. i \in 1..Len(toHub') /\ toHub'[i] = Frame("peer_left", g, 0)
      BY <1>3, <3>1
    <3>3. i \in 0..Len(toHub)
      BY <1>1
    <3>4. NoOffers(g, i)'
      BY <2>2, <3>1, <3>3 DEF NoOffers
    <3> QED
      BY <3>2, <3>4 DEF Left
  <2>4. CASE /\ NoOffers(g, 0) /\ \A i \in 1..Len(chain[g]) : chain[g][i].k # "offer"
             /\ pc[g] = None \/ pc[g].open
    <3>1. NoOffers(g, 0)'
      BY <1>1, <2>2, <2>4 DEF NoOffers
    <3> QED
      BY <2>4, <3>1 DEF Left
  <2> QED
    BY <2>1, <2>3, <2>4 DEF Left
<1>8. \A i \in 1..Len(chain'[g]) : Known(chain'[g][i].n, g, chain', toHub', pc', hist')
  BY <1>2 DEF GuestInv
<1>9. \A j \in 1..Len(toHub') :
          IsSignal(toHub'[j], g) => Known(toHub'[j].n, g, chain', toHub', pc', hist')
  <2> SUFFICES ASSUME NEW j \in 1..Len(toHub'), IsSignal(toHub'[j], g)
               PROVE  Known(toHub'[j].n, g, chain', toHub', pc', hist')
    OBVIOUS
  <2>1. CASE j \in 1..Len(toHub)
    BY <1>2, <1>3, <2>1 DEF GuestInv
  <2>2. CASE toHub' # toHub /\ j = Len(toHub) + 1
    <3>1. toHub'[j] = f /\ IsSignal(f, g)
      BY <1>3, <2>2
    <3>2. CASE f.k = "offer"
      BY <1>4, <2>2, <3>1, <3>2 DEF IsSignal
    <3>3. CASE f.k = "candidate"
      BY <1>2, <2>2, <3>1, <3>3 DEF GuestInv
    <3> QED
      BY <3>1, <3>2, <3>3 DEF IsSignal
  <2> QED
    BY <1>1, <1>3, <2>1, <2>2
<1>10. /\ guest'[g] # "closing" /\ (guest'[g] = "out" => offers'[g] = 0)
       /\ \A n \in pending'[g] : <<g, n>> \in hist'.ended
       /\ \A n \in pc'[g].cands : n # pc'[g].n => <<g, n>> \in hist'.ended
  BY DEF GuestInv
<1> QED
  BY <1>5, <1>6, <1>7, <1>8, <1>9, <1>10 DEF GuestInv

\* A guest that has not joined has left no trace.
LEMMA OutsideGuest ==
    ASSUME NEW g \in Guests, Types, PeerInv(g), AheadInv(g), GuestInv(g), guest[g] = "out",
           guest'[g] = "out", pc'[g] = pc[g], chain'[g] = chain[g], pending'[g] = pending[g],
           offers'[g] = offers[g], toHub' = <<>>
    PROVE  GuestInv(g)'
<1>1. /\ offers[g] = 0 /\ chain[g] \in Seq(Signals(g)) /\ pc[g].n \in Nat
      /\ Len(chain[g]) \in Nat
  BY DEF Types, Peers, GuestInv
<1>2. \A i \in 1..Len(chain[g]) : FALSE
  BY <1>1 DEF AheadInv, Ahead
<1>3. pending[g] = {} /\ pc[g] = None
  BY <1>1 DEF PeerInv
<1>4. pc'[g].cands = {}
  BY <1>3 DEF None
<1>5. Len(toHub') = 0
  OBVIOUS
<1> QED
  BY <1>1, <1>2, <1>3, <1>4, <1>5 DEF GuestInv

-----------------------------------------------------------------------------
(* The room and the host's connection.                                     *)

LEMMA HistoryCut ==
    ASSUME Types
    PROVE  /\ Cut(hist) \in Histories /\ Lost(hist) \in Histories /\ Lost(Cut(hist)) \in Histories
           /\ \A h \in {Cut(hist), Lost(Cut(hist))} :
                  /\ h.ended = hist.ended /\ h.handled = hist.handled /\ h.late = hist.late
                  /\ h.cut = hist.cut \cup {g \in Guests : guest[g] # "out"}
<1>1. hist \in Histories
  BY DEF Types
<1> DEFINE C == hist.cut \cup {g \in Guests : guest[g] # "out"}
<1>2. C \in SUBSET Guests
  BY <1>1 DEF Histories
<1>3. Cut(hist) = [hist EXCEPT !.cut = C]
  BY DEF Cut
<1> HIDE DEF C
<1>4. /\ [hist EXCEPT !.cut = C] \in Histories
      /\ [hist EXCEPT !.cut = C].ended = hist.ended
      /\ [hist EXCEPT !.cut = C].handled = hist.handled
      /\ [hist EXCEPT !.cut = C].late = hist.late
      /\ [hist EXCEPT !.cut = C].cut = C
  BY <1>1, <1>2 DEF Histories
<1> DEFINE h == Cut(hist)
<1>5. /\ h \in Histories /\ h.ended = hist.ended /\ h.handled = hist.handled /\ h.late = hist.late
      /\ h.cut = C
  BY <1>3, <1>4
<1> HIDE DEF h
<1>6. /\ Lost(h) \in Histories /\ Lost(h).ended = hist.ended /\ Lost(h).handled = hist.handled
      /\ Lost(h).late = hist.late /\ Lost(h).cut = C
  BY <1>5 DEF Lost, Histories
<1>7. Lost(hist) \in Histories
  BY <1>1 DEF Lost, Histories
<1> QED
  BY <1>5, <1>6, <1>7 DEF h, C

LEMMA OkFrame ==
    \A k \in {"welcome", "ok"} : /\ Frame(k, 0, 0) \in Frames /\ Frame(k, 0, 0).k = k
                                /\ \A g : ~IsSignal(Frame(k, 0, 0), g)
BY DEF Frame, Frames, IsSignal

\* Each guest that the host goes on hearing of stays where it was.
LEMMA RoomChanges ==
    ASSUME SigInv, UNCHANGED <<offers, hubVars>>, NEW k \in {"welcome", "ok"},
           hist'.ended = hist.ended, hist'.handled = hist.handled, hist'.late = hist.late,
           toHub' \in {toHub, <<>>, Append(toHub, Frame(k, 0, 0))},
           hist.cut \subseteq hist'.cut,
           \A g \in Guests : g \notin hist'.cut =>
               /\ guest'[g] = guest[g]
               /\ guest[g] = "out" \/ toHub' \in {toHub, Append(toHub, Frame(k, 0, 0))}
               /\ guest[g] = "in" => (room = ws <=> room' = ws')
    PROVE  \A g \in Guests : Part(g)'
<1> DEFINE f == Frame(k, 0, 0)
<1>1. TAKE g \in Guests
<1>2. Types /\ PeerInv(g) /\ OrderInv(g) /\ AheadInv(g) /\ (g \notin hist.cut => GuestInv(g))
  BY DEF SigInv, Part
<1>3. /\ pc'[g] = pc[g] /\ chain'[g] = chain[g] /\ pending'[g] = pending[g] /\ offers'[g] = offers[g]
      /\ runs' = runs /\ offers[g] \in Nat
  BY <1>2 DEF hubVars, Types
<1>4. f \in Frames /\ ~IsSignal(f, g) /\ toHub' \in {toHub, <<>>, Append(toHub, f)}
  BY OkFrame
<1> HIDE DEF f
<1>5. PeerInv(g)'
  BY <1>2, <1>3, SteadyPeer
<1>6. OrderInv(g)' /\ AheadInv(g)'
  BY <1>2, <1>3, <1>4, SteadyOrder
<1>7. ASSUME g \notin hist'.cut PROVE GuestInv(g)'
  <2>1. guest'[g] = guest[g] /\ GuestInv(g)
    BY <1>2, <1>7
  <2>2. CASE toHub' \in {toHub, Append(toHub, f)}
    <3>1. guest[g] = "in" => (room = ws <=> room' = ws')
      BY <1>7
    <3> QED
      BY <1>2, <1>3, <1>4, <2>1, <2>2, <3>1, SteadyGuest
  <2>3. CASE guest[g] = "out" /\ toHub' = <<>>
    BY <1>2, <1>3, <2>1, <2>3, OutsideGuest
  <2> QED
    BY <1>4, <1>7, <2>2, <2>3 DEF f
<1> QED
  BY <1>5, <1>6, <1>7 DEF Part

LEMMA ReadsHelloKeeps ==
    ASSUME SigInv, ServerReadsHello
    PROVE  SigInv'
<1>1. /\ UNCHANGED <<guest, ws, armed, silent, offers, hubVars, got, hist>>
      /\ \E n \in hello : Hello(n)
  BY DEF ServerReadsHello
<1>2. PICK n \in hello : Hello(n)
  BY <1>1
<1>3. /\ hello' = hello \ {n}
      /\ \/ room = 0 /\ room' = n /\ up' = up
            /\ toHub' = IF n = ws THEN Append(toHub, Frame("ok", 0, 0)) ELSE toHub
         \/ up' = up \ {n} /\ room' = room /\ toHub' = toHub
  BY <1>2 DEF Hello
<1>4. Types /\ RoomInv /\ n \in up /\ n # room
  BY DEF SigInv, RoomInv
<1>5. n # 0
  BY <1>4 DEF RoomInv
<1>6. Types'
  <2>1. toHub \in Seq(Frames) /\ Frame("ok", 0, 0) \in Frames
    BY <1>4, OkFrame DEF Types
  <2>2. Append(toHub, Frame("ok", 0, 0)) \in Seq(Frames)
    BY ONLY <2>1, Appended
  <2>3. toHub' \in Seq(Frames)
    BY <1>3, <2>1, <2>2
  <2> QED
    BY <1>1, <1>4, <2>3 DEF Types, hubVars
<1>7. RoomInv'
  BY <1>1, <1>3, <1>4, <1>5 DEF RoomInv
<1>8. \A g \in Guests : Part(g)'
  BY <1>1, <1>3, <1>4, RoomChanges DEF RoomInv
<1> QED
  BY <1>6, <1>7, <1>8 DEF SigInv

\* A connection is given up; if it is the room's, all are cut.
LEMMA CleanupGives ==
    ASSUME SigInv, NEW n \in up, Cleanup(n)
    PROVE  /\ up' = up \ {n} /\ hello' = hello \ {n} /\ guest' \in [Guests -> {"out", "in", "closing", "gone"}]
           /\ room' \in (up \ {n}) \cup {0} /\ hello' \subseteq up' \ {room'}
           /\ \A g \in Guests : guest'[g] = "in" => room' # 0
           /\ n # room => room' = room /\ guest' = guest
           /\ \A g \in Guests : guest[g] = "out" => guest'[g] = "out"
<1>1. /\ guest \in [Guests -> {"out", "in", "closing", "gone"}] /\ hello \subseteq up \ {room}
      /\ room \in up \cup {0} /\ 0 \notin up /\ \A g \in Guests : guest[g] = "in" => room # 0
  BY DEF SigInv, Types, RoomInv
<1>2. /\ up' = up \ {n} /\ hello' = hello \ {n} /\ room' = (IF room = n THEN 0 ELSE room)
      /\ guest' = IF room = n
                  THEN [g \in Guests |-> IF guest[g] = "in" THEN "closing" ELSE guest[g]] ELSE guest
  BY DEF Cleanup
<1> QED
  BY <1>1, <1>2

LEMMA SeesServerCloseKeeps ==
    ASSUME SigInv, ServerSeesClose
    PROVE  SigInv'
<1>1. UNCHANGED <<ws, armed, silent, toHub, offers, hubVars, got>>
  BY DEF ServerSeesClose
<1>2. PICK n \in up \ {ws} : Cleanup(n) /\ hist' = IF n = room THEN Cut(hist) ELSE hist
  BY DEF ServerSeesClose
<1>3. Types /\ RoomInv /\ hist \in Histories
  BY DEF SigInv, Types
<1>4. /\ up' = up \ {n} /\ hello' = hello \ {n} /\ guest' \in [Guests -> {"out", "in", "closing", "gone"}]
      /\ room' \in (up \ {n}) \cup {0} /\ hello' \subseteq up' \ {room'}
      /\ \A g \in Guests : guest'[g] = "in" => room' # 0
      /\ n # room => room' = room /\ guest' = guest
      /\ \A g \in Guests : guest[g] = "out" => guest'[g] = "out"
  BY <1>2, CleanupGives
<1>5. /\ hist' \in Histories /\ hist'.ended = hist.ended /\ hist'.handled = hist.handled
      /\ hist'.late = hist.late /\ hist.cut \subseteq hist'.cut
      /\ n = room => \A g \in Guests : g \notin hist'.cut => guest[g] = "out"
  BY <1>2, <1>3, HistoryCut
<1>6. Types' /\ RoomInv'
  BY <1>1, <1>3, <1>4, <1>5 DEF Types, RoomInv, hubVars
<1>7. \A g \in Guests : g \notin hist'.cut =>
          guest'[g] = guest[g] /\ (guest[g] = "in" => (room = ws <=> room' = ws'))
  BY <1>1, <1>4, <1>5
<1>8. \A g \in Guests : Part(g)'
  BY <1>1, <1>5, <1>7, RoomChanges
<1> QED
  BY <1>6, <1>8 DEF SigInv

LEMMA DropsKeeps ==
    ASSUME SigInv, ServerDrops
    PROVE  SigInv'
<1>1. /\ UNCHANGED <<ws, armed, offers, hubVars, got>> /\ ws \in up /\ Cleanup(ws)
      /\ silent' \in BOOLEAN /\ toHub' \in {toHub, <<>>} /\ hist' = Lost(Cut(hist))
  BY DEF ServerDrops
<1>2. Types /\ RoomInv
  BY DEF SigInv
<1>3. /\ up' = up \ {ws} /\ guest' \in [Guests -> {"out", "in", "closing", "gone"}]
      /\ room' \in up' \cup {0} /\ hello' \subseteq up' \ {room'}
      /\ \A g \in Guests : guest'[g] = "in" => room' # 0
      /\ \A g \in Guests : guest[g] = "out" => guest'[g] = "out"
  BY <1>1, CleanupGives
<1>4. /\ hist' \in Histories /\ hist'.ended = hist.ended /\ hist'.handled = hist.handled
      /\ hist'.late = hist.late /\ hist.cut \subseteq hist'.cut
      /\ \A g \in Guests : g \notin hist'.cut => guest[g] = "out"
  BY <1>1, <1>2, HistoryCut
<1>5. Types' /\ RoomInv'
  <2>1. toHub \in Seq(Frames) /\ <<>> \in Seq(Frames)
    BY <1>2 DEF Types
  <2>2. toHub' \in Seq(Frames)
    BY <1>1, <2>1
  <2>3. Types'
    BY <1>1, <1>2, <1>3, <1>4, <2>2 DEF Types, hubVars
  <2>4. RoomInv'
    BY <1>1, <1>2, <1>3 DEF RoomInv
  <2> QED
    BY <2>3, <2>4
<1>6. \A g \in Guests : Part(g)'
  BY <1>1, <1>3, <1>4, RoomChanges
<1> QED
  BY <1>5, <1>6 DEF SigInv

LEMMA ConnectsKeeps ==
    ASSUME SigInv, HubConnects
    PROVE  SigInv'
<1>1. /\ ws = 0 /\ Conns \ up # {}
      /\ toHub' = <<Frame("welcome", 0, 0)>>
      /\ UNCHANGED <<hello, room, guest, armed, silent, offers, hubVars, got, hist>>
  BY DEF HubConnects
<1>2. PICK n \in Conns \ up : ws' = n /\ up' = up \cup {n}
  BY <1>1, MinOfNaturals, SignallingAssumption DEF HubConnects
<1>3. Types /\ RoomInv /\ n # 0 /\ toHub = <<>>
  BY <1>1, SignallingAssumption DEF SigInv, RoomInv
<1>4. Types' /\ RoomInv' /\ toHub' = Append(toHub, Frame("welcome", 0, 0))
  <2>1. Frame("welcome", 0, 0) \in Frames
    BY OkFrame
  <2>2. toHub' \in Seq(Frames) /\ toHub' = Append(toHub, Frame("welcome", 0, 0))
    BY <1>1, <1>3, <2>1
  <2>3. Types'
    BY <1>1, <1>3, <2>2 DEF Types, hubVars
  <2>4. RoomInv'
    BY <1>1, <1>2, <1>3 DEF RoomInv
  <2> QED
    BY <2>2, <2>3, <2>4
<1>5. \A g \in Guests : guest[g] = "in" => room # ws /\ room' # ws'
  BY <1>1, <1>2, <1>3 DEF RoomInv
<1>6. \A g \in Guests : Part(g)'
  BY <1>1, <1>4, <1>5, RoomChanges
<1> QED
  BY <1>4, <1>6 DEF SigInv

LEMMA ClosedKeeps ==
    ASSUME SigInv, HubSeesClose \/ HubLoses \/ Refresh
    PROVE  SigInv'
<1>1. /\ ws' = 0 /\ armed' = FALSE /\ silent' = FALSE /\ toHub' = <<>>
      /\ UNCHANGED <<srvVars, guest, offers, hubVars, got>>
      /\ \/ hist' = hist /\ toHub = <<>> /\ ws \notin up \cup {0}
         \/ hist' \in {Cut(hist), Lost(Cut(hist))}
  BY DEF HubSeesClose, HubLoses, Refresh, Closed
<1>2. Types /\ RoomInv /\ hist \in Histories
  BY DEF SigInv, Types
<1>3. /\ hist' \in Histories /\ hist'.ended = hist.ended /\ hist'.handled = hist.handled
      /\ hist'.late = hist.late /\ hist.cut \subseteq hist'.cut
  BY <1>1, <1>2, HistoryCut
<1>4. Types' /\ RoomInv'
  <2>1. toHub' \in Seq(Frames)
    BY <1>1
  <2>2. Types'
    BY <1>1, <1>2, <1>3, <2>1 DEF Types, hubVars
  <2>3. RoomInv'
    BY <1>1, <1>2 DEF RoomInv, srvVars
  <2> QED
    BY <2>2, <2>3
<1>5. ASSUME NEW g \in Guests, g \notin hist'.cut
      PROVE  /\ guest[g] = "out" \/ toHub' = toHub
             /\ guest[g] = "in" => (room = ws <=> room' = ws')
  <2>1. CASE hist' = hist /\ toHub = <<>> /\ ws \notin up \cup {0}
    BY <1>1, <1>2, <2>1 DEF srvVars, RoomInv
  <2>2. CASE hist' \in {Cut(hist), Lost(Cut(hist))}
    BY <1>2, <1>5, <2>2, HistoryCut
  <2> QED
    BY <1>1, <2>1, <2>2
<1>6. \A g \in Guests : Part(g)'
  BY <1>1, <1>3, <1>5, RoomChanges
<1> QED
  BY <1>4, <1>6 DEF SigInv

-----------------------------------------------------------------------------
(* The guests.                                                             *)

LEMMA SentOf ==
    ASSUME SigInv, NEW f \in Frames, toHub' = Sent(f)
    PROVE  /\ toHub' \in Seq(Frames) /\ toHub' \in {toHub, Append(toHub, f)}
           /\ room # ws => toHub' = toHub
           /\ room = ws => (ws = 0 /\ toHub' = toHub) \/ (ws # 0 /\ toHub' = Append(toHub, f))
<1>1. toHub \in Seq(Frames)
  BY DEF SigInv, Types
<1>2. Append(toHub, f) \in Seq(Frames)
  BY ONLY <1>1, f \in Frames, Appended
<1> QED
  BY <1>1, <1>2 DEF Sent

LEMMA JoinsKeeps ==
    ASSUME SigInv, NEW g \in Guests, GuestJoins(g)
    PROVE  SigInv'
<1>1. /\ guest[g] = "out" /\ room # 0 /\ guest' = [guest EXCEPT ![g] = "in"]
      /\ UNCHANGED <<srvVars, ws, armed, silent, toHub, offers, hubVars, got, hist>>
  BY DEF GuestJoins
<1>2. Types /\ RoomInv /\ toHub \in Seq(Frames)
  BY DEF SigInv, Types
<1>3. Types' /\ RoomInv'
  BY <1>1, <1>2 DEF Types, RoomInv, hubVars, srvVars
<1>4. ASSUME NEW h \in Guests PROVE Part(h)'
  <2>1. PeerInv(h) /\ OrderInv(h) /\ AheadInv(h) /\ (h \notin hist.cut => GuestInv(h))
    BY DEF SigInv, Part
  <2>2. PeerInv(h)' /\ OrderInv(h)' /\ AheadInv(h)'
    BY <1>1, <2>1 DEF PeerInv, OrderInv, AheadInv, hubVars
  <2>3. ASSUME h \notin hist.cut PROVE GuestInv(h)'
    <3>1. CASE h # g
      <4>1. guest'[h] = guest[h]
        BY <1>1, <3>1
      <4> QED
        BY <1>1, <2>1, <2>3, <4>1 DEF GuestInv, Unheard, Left, NoOffers, hubVars, srvVars
    <3>2. CASE h = g
      <4>1. /\ offers[g] = 0 /\ chain[g] \in Seq(Signals(g)) /\ pc[g].n \in Nat
        BY <1>1, <1>2, <2>1, <2>3, <3>2 DEF Types, Peers, GuestInv
      <4>2. \A j \in 1..Len(toHub) : ~IsSignal(toHub[j], g)
        BY <2>1, <3>2, <4>1 DEF AheadInv, Ahead
      <4>3. \A i \in 1..Len(chain[g]) : FALSE
        BY <2>1, <3>2, <4>1 DEF AheadInv, Ahead
      <4>4. chain[g] = <<>> /\ pc[g] = None
        BY <2>1, <3>2, <4>1, <4>3 DEF PeerInv
      <4>5. guest'[g] = "in" /\ Unheard(g)'
        BY <1>1, <1>2, <4>2, <4>4 DEF Unheard, hubVars, Types
      <4>6. UNCHANGED <<offers, chain, toHub, pc, pending, hist>>
        BY <1>1 DEF hubVars
      <4> QED
        BY <2>1, <2>3, <3>2, <4>1, <4>2, <4>3, <4>5, <4>6 DEF GuestInv
    <3> QED
      BY <3>1, <3>2
  <2> QED
    BY <1>1, <2>2, <2>3 DEF Part
<1> QED
  BY <1>3, <1>4 DEF SigInv

LEMMA OffersKeeps ==
    ASSUME SigInv, NEW g \in Guests, GuestOffers(g) \/ GuestTrickles(g)
    PROVE  SigInv'
<1>1. /\ guest[g] \in {"in", "closing"}
      /\ UNCHANGED <<srvVars, guest, ws, armed, silent, hubVars, got, hist>>
      /\ \/ /\ offers' = [offers EXCEPT ![g] = @ + 1] /\ toHub' = Sent(Frame("offer", g, offers[g] + 1))
         \/ /\ offers' = offers /\ offers[g] > 0 /\ toHub' = Sent(Frame("candidate", g, offers[g]))
  BY DEF GuestOffers, GuestTrickles
<1>2. PICK f : /\ f.from = g /\ f.n = offers'[g] /\ toHub' = Sent(f) /\ f \in Frames /\ f.n >= 1
               /\ \/ f.k = "offer" /\ offers'[g] = offers[g] + 1
                  \/ f.k = "candidate" /\ offers'[g] = offers[g]
  <2>1. offers[g] \in Nat /\ DOMAIN offers = Guests
    BY DEF SigInv, Types
  <2>2. CASE offers' = [offers EXCEPT ![g] = @ + 1] /\ toHub' = Sent(Frame("offer", g, offers[g] + 1))
    <3> DEFINE f == Frame("offer", g, offers[g] + 1)
    <3>1. f.from = g /\ f.n = offers[g] + 1 /\ f \in Frames /\ f.k = "offer" /\ offers'[g] = offers[g] + 1
      BY <2>1, <2>2 DEF Frame, Frames
    <3> QED
      BY <2>1, <2>2, <3>1
  <2>3. CASE offers' = offers /\ offers[g] > 0 /\ toHub' = Sent(Frame("candidate", g, offers[g]))
    <3> DEFINE f == Frame("candidate", g, offers[g])
    <3>1. f.from = g /\ f.n = offers[g] /\ f \in Frames /\ f.k = "candidate" /\ offers'[g] = offers[g]
      BY <2>1, <2>3 DEF Frame, Frames
    <3> QED
      BY <2>1, <2>3, <3>1
  <2> QED
    BY <1>1, <2>2, <2>3
<1>3. Types /\ RoomInv /\ offers[g] \in Nat
  BY DEF SigInv, Types
<1>4. /\ toHub' \in Seq(Frames) /\ toHub' \in {toHub, Append(toHub, f)}
      /\ room # ws => toHub' = toHub
      /\ room = ws => (ws = 0 /\ toHub' = toHub) \/ (ws # 0 /\ toHub' = Append(toHub, f))
  BY <1>2, SentOf
<1>5. offers' \in [Guests -> Nat] /\ \A h \in Guests : h # g => offers'[h] = offers[h]
  BY <1>1, <1>3 DEF Types
<1>6. Types'
  BY <1>1, <1>3, <1>4, <1>5 DEF Types, hubVars
<1>7. RoomInv'
  BY <1>1, <1>3, <1>4 DEF RoomInv, srvVars
<1>8. ASSUME NEW h \in Guests PROVE Part(h)'
  <2>1. PeerInv(h) /\ OrderInv(h) /\ AheadInv(h) /\ (h \notin hist.cut => GuestInv(h))
    BY DEF SigInv, Part
  <2>2. /\ pc'[h] = pc[h] /\ chain'[h] = chain[h] /\ pending'[h] = pending[h] /\ guest'[h] = guest[h]
        /\ runs' = runs /\ hist' = hist /\ room' = room /\ ws' = ws
    BY <1>1 DEF hubVars, srvVars
  <2>3. /\ offers[h] \in Nat /\ offers'[h] \in Nat /\ offers[h] <= offers'[h]
        /\ h # g => offers'[h] = offers[h] /\ ~IsSignal(f, h)
    BY <1>2, <1>3, <1>5 DEF IsSignal, Types
  <2>4. IsSignal(f, h) => f.n = offers'[h] /\ f.n >= 1 /\ (f.k = "offer" => f.n > offers[h])
    BY <1>2, <1>3, <2>3 DEF IsSignal
  <2>5. PeerInv(h)'
    BY <1>3, <2>1, <2>2, <2>3, SteadyPeer
  <2>6. OrderInv(h)' /\ AheadInv(h)'
    BY <1>2, <1>3, <1>4, <2>1, <2>2, <2>3, <2>4, SteadyOrder
  <2>7. ASSUME h \notin hist.cut PROVE GuestInv(h)'
    <3>1. GuestInv(h)
      BY <2>1, <2>7
    <3>2. h = g => guest[h] = "in" /\ room # 0
      BY <1>1, <1>3, <3>1 DEF GuestInv, RoomInv
    <3>3. IsSignal(f, h) /\ toHub' # toHub =>
              /\ guest[h] = "in" /\ room = ws
              /\ f.k = "candidate" => f.n = offers[h] /\ offers[h] > 0
      BY <1>2, <1>3, <1>4, <2>3, <3>2
    <3>4. \/ offers'[h] = offers[h]
          \/ /\ guest[h] = "in"
             /\ room = ws => /\ toHub' = Append(toHub, f)
                             /\ f.k = "offer" /\ f.from = h /\ f.n = offers'[h]
      BY <1>2, <1>3, <1>4, <2>3, <3>2
    <3> QED
      BY <1>2, <1>3, <1>4, <2>2, <3>1, <3>3, <3>4, SteadyGuest
  <2> QED
    BY <2>2, <2>5, <2>6, <2>7 DEF Part
<1> QED
  BY <1>6, <1>7, <1>8 DEF SigInv

LEMMA LeavesKeeps ==
    ASSUME SigInv, NEW g \in Guests, GuestLeaves(g)
    PROVE  SigInv'
<1> DEFINE f == Frame("peer_left", g, 0)
<1>1. /\ guest[g] \in {"in", "closing"} /\ guest' = [guest EXCEPT ![g] = "gone"]
      /\ toHub' = IF guest[g] = "in" THEN Sent(f) ELSE toHub
      /\ UNCHANGED <<srvVars, ws, armed, silent, offers, hubVars, got, hist>>
  BY DEF GuestLeaves
<1>2. Types /\ RoomInv /\ toHub \in Seq(Frames) /\ Len(toHub) \in Nat
  BY DEF SigInv, Types
<1>3. f \in Frames /\ \A h : ~IsSignal(f, h)
  BY DEF Frame, Frames, IsSignal
<1>4. /\ toHub' \in Seq(Frames) /\ toHub' \in {toHub, Append(toHub, f)}
      /\ ws = 0 => toHub' = <<>>
      /\ guest[g] = "in" => toHub' = Append(toHub, f) \/ (room # ws /\ toHub' = toHub)
  <2> HIDE DEF f
  <2> QED
    BY <1>1, <1>2, <1>3, SentOf DEF RoomInv
<1> HIDE DEF f
<1>5. Types' /\ RoomInv'
  BY <1>1, <1>2, <1>4 DEF Types, RoomInv, hubVars, srvVars
<1>6. ASSUME NEW h \in Guests PROVE Part(h)'
  <2>1. PeerInv(h) /\ OrderInv(h) /\ AheadInv(h) /\ (h \notin hist.cut => GuestInv(h))
    BY DEF SigInv, Part
  <2>2. /\ pc'[h] = pc[h] /\ chain'[h] = chain[h] /\ pending'[h] = pending[h] /\ offers'[h] = offers[h]
        /\ runs' = runs /\ hist' = hist /\ room' = room /\ ws' = ws /\ offers[h] \in Nat
        /\ h # g => guest'[h] = guest[h]
    BY <1>1, <1>2 DEF hubVars, srvVars, Types
  <2>3. PeerInv(h)' /\ OrderInv(h)' /\ AheadInv(h)'
    BY <1>2, <1>3, <1>4, <2>1, <2>2, SteadyPeer, SteadyOrder
  <2>4. ASSUME h \notin hist.cut, h # g PROVE GuestInv(h)'
    BY <1>2, <1>3, <1>4, <2>1, <2>2, <2>4, SteadyGuest
  <2>5. ASSUME g \notin hist.cut, h = g PROVE GuestInv(g)'
    <3>1. GuestInv(g) /\ guest[g] = "in" /\ guest'[g] = "gone"
      BY <1>1, <1>2, <2>1, <2>5 DEF GuestInv, Types
    <3>2. /\ \A j \in 1..Len(toHub) : j \in 1..Len(toHub') /\ toHub'[j] = toHub[j]
          /\ \A j \in 1..Len(toHub') : IsSignal(toHub'[j], g) => j \in 1..Len(toHub)
      BY <1>2, <1>3, <1>4, Appended
    <3>3. \A n : Known(n, g, chain, toHub, pc, hist) => Known(n, g, chain', toHub', pc', hist')
      BY <2>2, <2>5, <3>2 DEF Known
    <3>4. Left(g)'
      <4>1. CASE toHub' = Append(toHub, f)
        <5>1. Len(toHub') = Len(toHub) + 1 /\ toHub'[Len(toHub')] = f
          BY <1>2, <1>3, <4>1, Appended
        <5>2. Len(toHub') \in 1..Len(toHub') /\ \A j \in (Len(toHub') + 1)..Len(toHub') : FALSE
          BY <1>2, <5>1
        <5> QED
          BY <5>1, <5>2 DEF Left, NoOffers, f
      <4>2. CASE room # ws /\ toHub' = toHub
        <5>1. Unheard(g)
          BY <3>1, <4>2 DEF GuestInv
        <5> QED
          BY <2>2, <2>5, <4>2, <5>1 DEF Unheard, Left, NoOffers, IsSignal
      <4> QED
        BY <1>4, <3>1, <4>1, <4>2
    <3>5. /\ \A i \in 1..Len(chain'[g]) : Known(chain'[g][i].n, g, chain', toHub', pc', hist')
          /\ \A j \in 1..Len(toHub') :
                IsSignal(toHub'[j], g) => Known(toHub'[j].n, g, chain', toHub', pc', hist')
      BY <2>2, <2>5, <3>1, <3>2, <3>3 DEF GuestInv
    <3> QED
      BY <2>2, <2>5, <3>1, <3>4, <3>5 DEF GuestInv
  <2> QED
    BY <2>2, <2>3, <2>4, <2>5 DEF Part
<1> QED
  BY <1>5, <1>6 DEF SigInv

-----------------------------------------------------------------------------
(* What the host reads.                                                    *)

LEMMA ReadOrder ==
    ASSUME NEW g \in Guests, Types, OrderInv(g), AheadInv(g), toHub # <<>>, toHub' = Tail(toHub),
           offers' = offers, pc'[g] \in {pc[g], None}, hist'.handled = hist.handled,
           \/ chain'[g] = chain[g]
           \/ IsSignal(Head(toHub), g) /\ chain'[g] = Append(chain[g], Head(toHub))
    PROVE  OrderInv(g)' /\ AheadInv(g)'
<1>1. toHub \in Seq(Frames) /\ chain[g] \in Seq(Signals(g)) /\ pc[g].n \in Nat /\ offers[g] \in Nat
  BY DEF Types, Peers
<1>2. /\ Len(toHub) \in Nat /\ Len(toHub) >= 1 /\ Head(toHub) = toHub[1]
      /\ \A j \in 1..Len(toHub') : j + 1 \in 1..Len(toHub) /\ toHub'[j] = toHub[j + 1]
  BY <1>1, Tailed
<1>3. \A f : Ahead(f, g, offers, pc, hist) => Ahead(f, g, offers', pc', hist')
  BY <1>1 DEF Ahead, Before, None
<1>4. ASSUME IsSignal(Head(toHub), g) PROVE Head(toHub) \in Signals(g)
  BY <1>1, <1>2, <1>4 DEF Frames, Signals, IsSignal
<1>5. \/ chain'[g] = chain[g]
      \/ /\ IsSignal(toHub[1], g) /\ Len(chain'[g]) = Len(chain[g]) + 1
         /\ chain'[g][Len(chain[g]) + 1] = toHub[1] /\ Len(chain[g]) \in Nat
         /\ \A i \in 1..Len(chain[g]) : chain'[g][i] = chain[g][i]
  BY <1>1, <1>2, <1>4, Appended
<1>6. \A i \in 1..Len(chain'[g]) : Ahead(chain'[g][i], g, offers', pc', hist')
  <2>1. \A i \in 1..Len(chain[g]) : Ahead(chain[g][i], g, offers', pc', hist')
    BY <1>3 DEF AheadInv
  <2>2. IsSignal(toHub[1], g) => Ahead(toHub[1], g, offers', pc', hist')
    BY <1>2, <1>3 DEF AheadInv
  <2> QED
    BY <1>5, <2>1, <2>2
<1>7. \A j \in 1..Len(toHub') : IsSignal(toHub'[j], g) => Ahead(toHub'[j], g, offers', pc', hist')
  BY <1>2, <1>3 DEF AheadInv
<1>8. \A i, j \in 1..Len(chain'[g]) : i < j => Before(chain'[g][i].n, chain'[g][j])
  <2> SUFFICES ASSUME NEW i \in 1..Len(chain'[g]), NEW j \in 1..Len(chain'[g]), i < j
               PROVE  Before(chain'[g][i].n, chain'[g][j])
    OBVIOUS
  <2>1. CASE chain'[g] = chain[g]
    BY <2>1 DEF OrderInv
  <2>2. CASE chain'[g] # chain[g]
    <3>1. i \in 1..Len(chain[g]) /\ (j \in 1..Len(chain[g]) \/ j = Len(chain[g]) + 1)
      BY <1>5, <2>2
    <3>2. chain'[g][i] = chain[g][i]
      BY <1>5, <2>2, <3>1
    <3>3. CASE j \in 1..Len(chain[g])
      BY <1>5, <2>2, <3>1, <3>2, <3>3 DEF OrderInv
    <3>4. CASE j = Len(chain[g]) + 1
      BY <1>2, <1>5, <2>2, <3>1, <3>2, <3>4 DEF OrderInv
    <3> QED
      BY <3>1, <3>3, <3>4
  <2> QED
    BY <2>1, <2>2
<1>9. \A i, j \in 1..Len(toHub') :
          i < j /\ IsSignal(toHub'[i], g) /\ IsSignal(toHub'[j], g) => Before(toHub'[i].n, toHub'[j])
  BY <1>2 DEF OrderInv
<1>10. \A i \in 1..Len(chain'[g]), j \in 1..Len(toHub') :
           IsSignal(toHub'[j], g) => Before(chain'[g][i].n, toHub'[j])
  <2> SUFFICES ASSUME NEW i \in 1..Len(chain'[g]), NEW j \in 1..Len(toHub'), IsSignal(toHub'[j], g)
               PROVE  Before(chain'[g][i].n, toHub'[j])
    OBVIOUS
  <2>1. j + 1 \in 1..Len(toHub) /\ toHub'[j] = toHub[j + 1] /\ 1 < j + 1 /\ 1 \in 1..Len(toHub)
    BY <1>2
  <2>2. CASE i \in 1..Len(chain[g]) /\ chain'[g][i] = chain[g][i]
    BY <2>1, <2>2 DEF OrderInv
  <2>3. CASE chain'[g][i] = toHub[1] /\ IsSignal(toHub[1], g)
    BY <2>1, <2>3 DEF OrderInv
  <2>4. \/ i \in 1..Len(chain[g]) /\ chain'[g][i] = chain[g][i]
        \/ chain'[g][i] = toHub[1] /\ IsSignal(toHub[1], g)
    BY ONLY <1>5, i \in 1..Len(chain'[g])
  <2> QED
    BY <2>2, <2>3, <2>4
<1>11. \A m \in Nat : <<g, m>> \in hist'.handled => m \in 1..offers'[g]
  BY DEF AheadInv
<1> QED
  BY <1>6, <1>7, <1>8, <1>9, <1>10, <1>11 DEF OrderInv, AheadInv

\* A guest whose peer is not touched.
LEMMA ReadGuest ==
    ASSUME NEW g \in Guests, Types, GuestInv(g), toHub # <<>>, toHub' = Tail(toHub),
           UNCHANGED <<offers, guest, room, ws>>, pc'[g] = pc[g], pending'[g] = pending[g],
           hist.ended \subseteq hist'.ended, hist.late \subseteq hist'.late,
           Head(toHub) # Frame("peer_left", g, 0),
           IF IsSignal(Head(toHub), g) THEN chain'[g] = Append(chain[g], Head(toHub))
           ELSE chain'[g] = chain[g]
    PROVE  GuestInv(g)'
<1>1. toHub \in Seq(Frames) /\ chain[g] \in Seq(Signals(g)) /\ Len(chain[g]) \in Nat
  BY DEF Types
<1>2. /\ Len(toHub) \in Nat /\ Len(toHub) >= 1 /\ Head(toHub) = toHub[1]
      /\ Len(toHub') = Len(toHub) - 1
      /\ \A j \in 1..Len(toHub') : j + 1 \in 1..Len(toHub) /\ toHub'[j] = toHub[j + 1]
  BY <1>1, Tailed
<1>3. ASSUME IsSignal(Head(toHub), g) PROVE Head(toHub) \in Signals(g)
  BY <1>1, <1>2, <1>3 DEF Frames, Signals, IsSignal
<1>4. /\ IsSignal(toHub[1], g) =>
             /\ Len(chain'[g]) = Len(chain[g]) + 1 /\ chain'[g][Len(chain[g]) + 1] = toHub[1]
             /\ \A i \in 1..Len(chain[g]) : chain'[g][i] = chain[g][i]
      /\ ~IsSignal(toHub[1], g) => chain'[g] = chain[g]
  <2> SUFFICES ASSUME IsSignal(toHub[1], g)
               PROVE  /\ Len(chain'[g]) = Len(chain[g]) + 1
                      /\ chain'[g][Len(chain[g]) + 1] = toHub[1]
                      /\ \A i \in 1..Len(chain[g]) : chain'[g][i] = chain[g][i]
    BY <1>2
  <2>1. toHub[1] \in Signals(g) /\ chain'[g] = Append(chain[g], toHub[1])
    BY <1>2, <1>3
  <2>2. chain[g] \in Seq(Signals(g))
    BY <1>1
  <2> DEFINE c == Append(chain[g], toHub[1])
  <2>3. /\ Len(c) = Len(chain[g]) + 1 /\ c[Len(chain[g]) + 1] = toHub[1]
        /\ \A i \in 1..Len(chain[g]) : c[i] = chain[g][i]
    BY ONLY <2>1, <2>2, Appended
  <2> QED
    BY <2>1, <2>3
<1>5. \A i \in 1..Len(chain[g]) : i \in 1..Len(chain'[g]) /\ chain'[g][i] = chain[g][i]
  BY <1>1, <1>4
<1>6. \A j \in 1..Len(toHub) : j = 1 \/ (j - 1 \in 1..Len(toHub') /\ toHub'[j - 1] = toHub[j])
  BY <1>2
<1>7. ASSUME NEW n, Known(n, g, chain, toHub, pc, hist)
      PROVE  Known(n, g, chain', toHub', pc', hist')
  <2>1. CASE \E i \in 1..Len(chain[g]) : chain[g][i].k = "offer" /\ chain[g][i].n = n
    BY <1>5, <2>1 DEF Known
  <2>2. CASE \E j \in 1..Len(toHub) : toHub[j].k = "offer" /\ toHub[j].from = g /\ toHub[j].n = n
    <3>1. PICK j \in 1..Len(toHub) : toHub[j].k = "offer" /\ toHub[j].from = g /\ toHub[j].n = n
      BY <2>2
    <3>2. CASE j = 1
      <4>1. Len(chain[g]) + 1 \in 1..Len(chain'[g]) /\ chain'[g][Len(chain[g]) + 1] = toHub[1]
        BY <1>1, <1>4, <3>1, <3>2 DEF IsSignal
      <4> QED
        BY <3>1, <3>2, <4>1 DEF Known
    <3>3. CASE j # 1
      BY <1>6, <3>1, <3>3 DEF Known
    <3> QED
      BY <3>2, <3>3
  <2>3. CASE pc[g].n = n \/ <<g, n>> \in hist.ended
    BY <2>3 DEF Known
  <2> QED
    BY <1>7, <2>1, <2>2, <2>3 DEF Known
<1>8. guest'[g] = "in" /\ room' # ws' => Unheard(g)'
  <2> SUFFICES ASSUME guest[g] = "in", room # ws PROVE Unheard(g)'
    OBVIOUS
  <2>1. Unheard(g) /\ 1 \in 1..Len(toHub)
    BY <1>2 DEF GuestInv
  <2>2. chain'[g] = <<>> /\ pc'[g] = None
    BY <1>2, <1>4, <2>1 DEF Unheard
  <2>3. \A j \in 1..Len(toHub') : ~IsSignal(toHub'[j], g)
    BY <1>2, <2>1 DEF Unheard
  <2> QED
    BY <2>2, <2>3 DEF Unheard
<1>9. guest'[g] = "in" /\ room' = ws' /\ offers'[g] > 0
        => Known(offers'[g], g, chain', toHub', pc', hist')
  BY <1>7 DEF GuestInv
<1>10. guest'[g] = "gone" => Left(g)'
  <2> SUFFICES ASSUME guest[g] = "gone" PROVE Left(g)'
    OBVIOUS
  <2>1. Left(g)
    BY DEF GuestInv
  <2>2. CASE \E i \in 1..Len(toHub) : toHub[i] = Frame("peer_left", g, 0) /\ NoOffers(g, i)
    <3>1. PICK i \in 1..Len(toHub) : toHub[i] = Frame("peer_left", g, 0) /\ NoOffers(g, i)
      BY <2>2
    <3>2. i # 1 /\ i - 1 \in 1..Len(toHub') /\ toHub'[i - 1] = Frame("peer_left", g, 0)
      BY <1>2, <1>6, <3>1
    <3>3. \A j \in ((i - 1) + 1)..Len(toHub') : ~(toHub'[j].k = "offer" /\ toHub'[j].from = g)
      <4> SUFFICES ASSUME NEW j \in ((i - 1) + 1)..Len(toHub')
                   PROVE  ~(toHub'[j].k = "offer" /\ toHub'[j].from = g)
        OBVIOUS
      <4>1. j \in 1..Len(toHub') /\ j + 1 \in (i + 1)..Len(toHub)
        BY <1>2, <3>2
      <4> QED
        BY <1>2, <3>1, <4>1 DEF NoOffers
    <3> QED
      BY <3>2, <3>3 DEF Left, NoOffers
  <2>3. CASE /\ NoOffers(g, 0) /\ \A i \in 1..Len(chain[g]) : chain[g][i].k # "offer"
             /\ pc[g] = None \/ pc[g].open
    <3>1. \A j \in 1..Len(toHub) : ~(toHub[j].k = "offer" /\ toHub[j].from = g)
      BY <2>3 DEF NoOffers
    <3>2. \A j \in (0 + 1)..Len(toHub') : ~(toHub'[j].k = "offer" /\ toHub'[j].from = g)
      BY <1>2, <3>1
    <3>3. \A i \in 1..Len(chain'[g]) : chain'[g][i].k # "offer"
      <4>1. 1 \in 1..Len(toHub) /\ (IsSignal(toHub[1], g) => toHub[1].k # "offer")
        BY <1>2, <3>1 DEF IsSignal
      <4>2. \A i \in 1..Len(chain[g]) : chain'[g][i].k # "offer"
        BY <1>5, <2>3
      <4>3. \A i \in 1..Len(chain'[g]) :
                i \in 1..Len(chain[g]) \/ (IsSignal(toHub[1], g) /\ chain'[g][i] = toHub[1])
        BY <1>1, <1>4
      <4> QED
        BY <4>1, <4>2, <4>3
    <3> QED
      BY <2>3, <3>2, <3>3 DEF Left, NoOffers
  <2> QED
    BY <2>1, <2>2, <2>3 DEF Left
<1>11. \A i \in 1..Len(chain'[g]) : Known(chain'[g][i].n, g, chain', toHub', pc', hist')
  <2> SUFFICES ASSUME NEW i \in 1..Len(chain'[g])
               PROVE  Known(chain'[g][i].n, g, chain', toHub', pc', hist')
    OBVIOUS
  <2>1. CASE i \in 1..Len(chain[g])
    BY <1>5, <1>7, <2>1 DEF GuestInv
  <2>2. CASE IsSignal(toHub[1], g) /\ chain'[g][i] = toHub[1]
    <3>1. 1 \in 1..Len(toHub)
      BY <1>2
    <3> QED
      BY <1>7, <2>2, <3>1 DEF GuestInv
  <2> QED
    BY <1>1, <1>4, <2>1, <2>2
<1>12. \A j \in 1..Len(toHub') :
           IsSignal(toHub'[j], g) => Known(toHub'[j].n, g, chain', toHub', pc', hist')
  BY <1>2, <1>7 DEF GuestInv
<1> QED
  BY <1>8, <1>9, <1>10, <1>11, <1>12 DEF GuestInv

LEMMA EndedOf ==
    ASSUME Types, NEW g \in Guests
    PROVE  LET h == Ended(hist, g)
           IN /\ h \in Histories /\ h.cut = hist.cut /\ h.late = hist.late /\ h.handled = hist.handled
              /\ h.ended = hist.ended \cup {<<g, pc[g].n>>}
<1>1. hist \in Histories /\ pc[g].n \in Nat
  BY DEF Types, Peers
<1>2. hist.ended \cup {<<g, pc[g].n>>} \in SUBSET (Guests \X Nat)
  BY <1>1 DEF Histories
<1> DEFINE E == hist.ended \cup {<<g, pc[g].n>>}
<1>3. Ended(hist, g) = [hist EXCEPT !.ended = E]
  BY DEF Ended
<1> HIDE DEF E
<1>4. E \in SUBSET (Guests \X Nat)
  BY <1>2 DEF E
<1>5. /\ [hist EXCEPT !.ended = E] \in Histories /\ [hist EXCEPT !.ended = E].cut = hist.cut
      /\ [hist EXCEPT !.ended = E].late = hist.late /\ [hist EXCEPT !.ended = E].handled = hist.handled
      /\ [hist EXCEPT !.ended = E].ended = E
  BY <1>1, <1>4 DEF Histories
<1> QED
  BY <1>3, <1>5 DEF E

\* What peer_left does to the host's peers.
LEMMA PeerLeftDoes ==
    ASSUME Types, NEW g \in Guests, PeerLeft(g)
    PROVE  /\ hist' \in Histories /\ hist'.cut = hist.cut /\ hist'.handled = hist.handled
           /\ hist.ended \subseteq hist'.ended /\ hist.late \subseteq hist'.late
           /\ \A h \in Guests : h # g => pc'[h] = pc[h] /\ pending'[h] = pending[h]
           /\ pc' \in [Guests -> Peers] /\ pending' \in [Guests -> SUBSET Nat] /\ pending'[g] = {}
           /\ \/ pc'[g] = None /\ <<g, pc[g].n>> \in hist'.ended
              \/ pc'[g] = pc[g] /\ (pc[g] = None \/ pc[g].open)
           /\ g \notin hist'.late => \A i \in 1..Len(chain[g]) : chain[g][i].k # "offer"
<1> DEFINE closes == pc[g] # None /\ ~pc[g].open
<1> DEFINE h == IF closes THEN Ended(hist, g) ELSE hist
<1> DEFINE waits == \E n \in DOMAIN chain[g] : chain[g][n].k = "offer"
<1>1. /\ pc \in [Guests -> Peers] /\ pending \in [Guests -> SUBSET Nat] /\ hist \in Histories
      /\ chain[g] \in Seq(Signals(g))
  BY DEF Types
<1>2. hist' = IF waits THEN [h EXCEPT !.late = @ \cup {g}] ELSE h
  BY DEF PeerLeft
<1>3. /\ h \in Histories /\ h.cut = hist.cut /\ h.handled = hist.handled /\ h.late = hist.late
      /\ hist.ended \subseteq h.ended /\ (closes => <<g, pc[g].n>> \in h.ended)
  BY <1>1, EndedOf
<1> HIDE DEF h
<1>4. LET l == [h EXCEPT !.late = @ \cup {g}]
      IN /\ l \in Histories /\ l.cut = h.cut /\ l.handled = h.handled /\ l.ended = h.ended
         /\ l.late = h.late \cup {g}
  BY <1>3 DEF Histories
<1>5. /\ hist' \in Histories /\ hist'.cut = hist.cut /\ hist'.handled = hist.handled
      /\ hist.ended \subseteq hist'.ended /\ hist.late \subseteq hist'.late
      /\ (waits => g \in hist'.late) /\ (closes => <<g, pc[g].n>> \in hist'.ended)
  BY <1>2, <1>3, <1>4
<1>6. None \in Peers
  BY DEF None, Peers
<1>7. /\ \A k \in Guests : k # g => pc'[k] = pc[k] /\ pending'[k] = pending[k]
      /\ pc' \in [Guests -> Peers] /\ pending' \in [Guests -> SUBSET Nat] /\ pending'[g] = {}
      /\ closes => pc'[g] = None
      /\ ~closes => pc'[g] = pc[g]
  BY <1>1, <1>6 DEF PeerLeft, ClosePeer
<1>8. DOMAIN chain[g] = 1..Len(chain[g])
  BY <1>1
<1> QED
  BY <1>5, <1>7, <1>8

LEMMA ReadLeft ==
    ASSUME NEW g \in Guests, Types, PeerInv(g), GuestInv(g), toHub # <<>>, toHub' = Tail(toHub),
           Head(toHub) = Frame("peer_left", g, 0), PeerLeft(g),
           UNCHANGED <<offers, guest, room, ws, chain>>
    PROVE  GuestInv(g)'
<1>1. toHub \in Seq(Frames)
  BY DEF Types
<1>2. /\ Len(toHub) \in Nat /\ Len(toHub) >= 1 /\ Head(toHub) = toHub[1]
      /\ Len(toHub') = Len(toHub) - 1
      /\ \A j \in 1..Len(toHub') : j + 1 \in 1..Len(toHub) /\ toHub'[j] = toHub[j + 1]
  BY <1>1, Tailed
<1>3. /\ hist.ended \subseteq hist'.ended /\ hist.late \subseteq hist'.late /\ pending'[g] = {}
      /\ \/ pc'[g] = None /\ <<g, pc[g].n>> \in hist'.ended
         \/ pc'[g] = pc[g] /\ (pc[g] = None \/ pc[g].open)
      /\ g \notin hist'.late => \A i \in 1..Len(chain[g]) : chain[g][i].k # "offer"
  BY PeerLeftDoes
<1>4. toHub[1].k = "peer_left"
  BY <1>2 DEF Frame
<1>5. \A j \in 1..Len(toHub) : j = 1 \/ (j - 1 \in 1..Len(toHub') /\ toHub'[j - 1] = toHub[j])
  BY <1>2
<1>6. \A n : Known(n, g, chain, toHub, pc, hist) => Known(n, g, chain', toHub', pc', hist')
  <2> SUFFICES ASSUME NEW n, Known(n, g, chain, toHub, pc, hist)
               PROVE  Known(n, g, chain', toHub', pc', hist')
    OBVIOUS
  <2>1. CASE \E j \in 1..Len(toHub) : toHub[j].k = "offer" /\ toHub[j].from = g /\ toHub[j].n = n
    <3>1. PICK j \in 1..Len(toHub) : toHub[j].k = "offer" /\ toHub[j].from = g /\ toHub[j].n = n
      BY <2>1
    <3>2. j - 1 \in 1..Len(toHub') /\ toHub'[j - 1] = toHub[j]
      BY <1>4, <1>5, <3>1
    <3> QED
      BY <3>1, <3>2 DEF Known
  <2>2. CASE \E i \in 1..Len(chain[g]) : chain[g][i].k = "offer" /\ chain[g][i].n = n
    BY <2>2 DEF Known
  <2>3. CASE pc[g].n = n \/ <<g, n>> \in hist.ended
    BY <1>3, <2>3 DEF Known
  <2> QED
    BY <2>1, <2>2, <2>3 DEF Known
<1>7. guest'[g] = "in" /\ room' # ws' => Unheard(g)'
  BY <1>2, <1>3 DEF GuestInv, Unheard
<1>8. guest'[g] = "gone" => Left(g)'
  <2> SUFFICES ASSUME guest[g] = "gone", g \notin hist'.late PROVE Left(g)'
    BY DEF Left
  <2>1. /\ \A i \in 1..Len(chain[g]) : chain[g][i].k # "offer"
        /\ pc'[g] = None \/ pc'[g].open
        /\ g \notin hist.late /\ Left(g)
    BY <1>3 DEF GuestInv
  <2>2. CASE \E i \in 2..Len(toHub) : toHub[i] = Frame("peer_left", g, 0) /\ NoOffers(g, i)
    <3>1. PICK i \in 2..Len(toHub) : toHub[i] = Frame("peer_left", g, 0) /\ NoOffers(g, i)
      BY <2>2
    <3>2. i - 1 \in 1..Len(toHub') /\ toHub'[i - 1] = Frame("peer_left", g, 0)
      BY <1>2, <1>5, <3>1
    <3>3. \A j \in ((i - 1) + 1)..Len(toHub') : ~(toHub'[j].k = "offer" /\ toHub'[j].from = g)
      <4> SUFFICES ASSUME NEW j \in ((i - 1) + 1)..Len(toHub')
                   PROVE  ~(toHub'[j].k = "offer" /\ toHub'[j].from = g)
        OBVIOUS
      <4>1. j \in 1..Len(toHub') /\ j + 1 \in (i + 1)..Len(toHub)
        BY <1>2, <3>2
      <4> QED
        BY <1>2, <3>1, <4>1 DEF NoOffers
    <3> QED
      BY <3>2, <3>3 DEF Left, NoOffers
  <2>3. CASE NoOffers(g, 0) \/ NoOffers(g, 1)
    <3>1. \A j \in 2..Len(toHub) : ~(toHub[j].k = "offer" /\ toHub[j].from = g)
      BY <1>2, <2>3 DEF NoOffers
    <3>2. \A j \in (0 + 1)..Len(toHub') : ~(toHub'[j].k = "offer" /\ toHub'[j].from = g)
      BY <1>2, <3>1
    <3> QED
      BY <2>1, <3>2 DEF Left, NoOffers
  <2> QED
    BY <1>2, <2>1, <2>2, <2>3 DEF Left
<1>9. /\ \A i \in 1..Len(chain'[g]) : Known(chain'[g][i].n, g, chain', toHub', pc', hist')
      /\ \A j \in 1..Len(toHub') :
            IsSignal(toHub'[j], g) => Known(toHub'[j].n, g, chain', toHub', pc', hist')
      /\ guest'[g] = "in" /\ room' = ws' /\ offers'[g] > 0
            => Known(offers'[g], g, chain', toHub', pc', hist')
  BY <1>2, <1>6 DEF GuestInv
<1>10. \A n \in pc'[g].cands : n # pc'[g].n => <<g, n>> \in hist'.ended
  BY <1>3 DEF GuestInv, None
<1> QED
  BY <1>3, <1>7, <1>8, <1>9, <1>10 DEF GuestInv

LEMMA ReceivesKeeps ==
    ASSUME SigInv, Greeting, HubReceives
    PROVE  SigInv'
<1> DEFINE f == Head(toHub)
<1>1. /\ toHub # <<>> /\ toHub' = Tail(toHub) /\ UNCHANGED <<up, room, guest, ws, silent, offers, got, runs>>
      /\ hello' \in {hello, hello \cup ({ws} \cap up)} /\ (f.k # "welcome" => hello' = hello)
      /\ \/ f.k = "welcome" /\ UNCHANGED <<armed, chain, pc, pending, hist>>
         \/ f.k = "ok" /\ armed' = HasTurn /\ UNCHANGED <<chain, pc, pending, hist>>
         \/ /\ f.k \in {"offer", "candidate"} /\ chain' = [chain EXCEPT ![f.from] = Append(@, f)]
            /\ UNCHANGED <<armed, pc, pending, hist>>
         \/ f.k = "peer_left" /\ PeerLeft(f.from) /\ UNCHANGED <<armed, chain>>
  BY DEF HubReceives, hubVars
<1>2. Types /\ RoomInv /\ toHub \in Seq(Frames)
  BY DEF SigInv, Types
<1>3. f \in Frames /\ toHub' \in Seq(Frames)
  BY <1>1, <1>2, Tailed
<1>4. f.k \in {"offer", "candidate"} => f.from \in Guests /\ f \in Signals(f.from)
  BY <1>3 DEF Frames, Signals
<1>5. f.k = "peer_left" => f.from \in Guests /\ f = Frame("peer_left", f.from, 0)
  BY <1>3 DEF Frames, Frame
<1> HIDE DEF f
<1>6. /\ DOMAIN chain' = Guests
      /\ \A g \in Guests : IF IsSignal(f, g) THEN chain'[g] = Append(chain[g], f)
                           ELSE chain'[g] = chain[g]
      /\ \A g \in Guests : chain'[g] \in Seq(Signals(g))
  <2>1. DOMAIN chain = Guests /\ \A g \in Guests : chain[g] \in Seq(Signals(g))
    BY <1>2 DEF Types
  <2>2. CASE f.k \in {"offer", "candidate"} /\ chain' = [chain EXCEPT ![f.from] = Append(@, f)]
    <3>1. Append(chain[f.from], f) \in Seq(Signals(f.from))
      BY <1>4, <2>1, <2>2, Appended
    <3> QED
      BY <1>4, <2>1, <2>2, <3>1 DEF IsSignal
  <2>3. CASE f.k \notin {"offer", "candidate"} /\ chain' = chain
    BY <2>1, <2>3 DEF IsSignal
  <2> QED
    BY <1>1, <2>2, <2>3
<1>7. /\ hist' \in Histories /\ hist'.cut = hist.cut /\ hist'.handled = hist.handled
      /\ hist.ended \subseteq hist'.ended /\ hist.late \subseteq hist'.late
      /\ pc' \in [Guests -> Peers] /\ pending' \in [Guests -> SUBSET Nat]
  BY <1>1, <1>2, <1>5, PeerLeftDoes DEF Types
<1>8. Types'
  BY <1>1, <1>2, <1>3, <1>6, <1>7 DEF Types
<1>9. RoomInv'
  <2>1. f.k = "welcome" => room # ws
    BY <1>1, <1>2, Tailed DEF Greeting, f
  <2>2. armed' \in BOOLEAN /\ (armed' => ws' # 0)
    BY <1>1, <1>2, SignallingAssumption DEF RoomInv
  <2>3. ws' = 0 => toHub' = <<>>
    BY <1>1, <1>2 DEF RoomInv
  <2> QED
    BY <1>1, <1>2, <2>1, <2>2, <2>3 DEF RoomInv
<1>10. ASSUME NEW g \in Guests PROVE Part(g)'
  <2>1. PeerInv(g) /\ OrderInv(g) /\ AheadInv(g) /\ (g \notin hist.cut => GuestInv(g))
    BY DEF SigInv, Part
  <2>2. /\ runs' = runs /\ offers' = offers /\ guest' = guest /\ room' = room /\ ws' = ws
        /\ offers[g] \in Nat
    BY <1>1, <1>2 DEF Types
  <2>3. CASE f = Frame("peer_left", g, 0)
    <3>1. f.k = "peer_left" /\ f.from = g
      BY <2>3 DEF Frame
    <3>2. PeerLeft(g) /\ chain' = chain
      BY <1>1, <3>1
    <3>3. /\ pc'[g] \in {pc[g], None} /\ pending'[g] = {}
      BY <1>2, <3>2, PeerLeftDoes
    <3>4. PeerInv(g)'
      BY <1>7, <2>1, <2>2, <3>3 DEF PeerInv, None
    <3>5. OrderInv(g)' /\ AheadInv(g)'
      BY <1>1, <1>2, <1>7, <2>1, <2>2, <3>2, <3>3, ReadOrder
    <3>6. g \notin hist.cut => GuestInv(g)'
      BY <1>1, <1>2, <2>1, <2>2, <2>3, <3>2, ReadLeft DEF f
    <3> QED
      BY <1>7, <3>4, <3>5, <3>6 DEF Part
  <2>4. CASE f # Frame("peer_left", g, 0)
    <3>1. pc'[g] = pc[g] /\ pending'[g] = pending[g]
      <4>1. CASE f.k = "peer_left"
        BY <1>1, <1>2, <1>5, <2>4, <4>1, PeerLeftDoes, ZenonT(60)
      <4> QED
        BY <1>1, <4>1
    <3>2. PeerInv(g)'
      BY <1>2, <1>7, <2>1, <2>2, <3>1, SteadyPeer
    <3>3. OrderInv(g)' /\ AheadInv(g)'
      BY <1>1, <1>2, <1>6, <1>7, <2>1, <2>2, <3>1, ReadOrder DEF f
    <3>4. g \notin hist.cut => GuestInv(g)'
      BY <1>1, <1>2, <1>6, <1>7, <2>1, <2>2, <2>4, <3>1, ReadGuest DEF f
    <3> QED
      BY <1>7, <3>2, <3>3, <3>4 DEF Part
  <2> QED
    BY <2>3, <2>4
<1> QED
  BY <1>8, <1>9, <1>10 DEF SigInv

-----------------------------------------------------------------------------
(* What the host does with a guest's signals and its peer.                 *)

LEMMA Elsewhere ==
    ASSUME SigInv, NEW g \in Guests, pc'[g] = pc[g], chain'[g] = chain[g], pending'[g] = pending[g],
           UNCHANGED <<toHub, offers, guest, room, ws>>, \A r \in runs : r.g = g => r \in runs',
           \A m \in Nat : <<g, m>> \in hist'.handled => <<g, m>> \in hist.handled,
           hist.ended \subseteq hist'.ended, hist.late \subseteq hist'.late, hist'.cut = hist.cut
    PROVE  Part(g)'
<1> DEFINE f == Frame("ok", 0, 0)
<1>1. PeerInv(g) /\ OrderInv(g) /\ AheadInv(g) /\ (g \notin hist.cut => GuestInv(g)) /\ Types
  BY DEF SigInv, Part
<1>2. offers[g] \in Nat /\ offers'[g] = offers[g] /\ f \in Frames /\ ~IsSignal(f, g)
  BY <1>1, OkFrame DEF Types
<1> HIDE DEF f
<1>3. PeerInv(g)'
  BY <1>1, <1>2, SteadyPeer
<1>4. OrderInv(g)' /\ AheadInv(g)'
  BY <1>1, <1>2, SteadyOrder
<1>5. g \notin hist.cut => GuestInv(g)'
  BY <1>1, <1>2, SteadyGuest
<1> QED
  BY <1>3, <1>4, <1>5 DEF Part

\* The first signal of a chain is taken: the rest is in order, and past it.
LEMMA TakenOrder ==
    ASSUME NEW g \in Guests, Types, OrderInv(g), AheadInv(g), chain[g] # <<>>,
           chain'[g] = Tail(chain[g]), UNCHANGED <<toHub, offers>>,
           pc'[g].n = pc[g].n \/ (Head(chain[g]).k = "offer" /\ pc'[g].n = Head(chain[g]).n),
           \A m \in Nat : <<g, m>> \in hist'.handled =>
               <<g, m>> \in hist.handled \/ m = Head(chain[g]).n
    PROVE  OrderInv(g)' /\ AheadInv(g)'
<1>1. /\ chain[g] \in Seq(Signals(g)) /\ Len(chain[g]) \in Nat /\ Len(chain[g]) >= 1
      /\ Head(chain[g]) = chain[g][1]
      /\ \A i \in 1..Len(chain'[g]) : i + 1 \in 1..Len(chain[g]) /\ chain'[g][i] = chain[g][i + 1]
  BY Tailed DEF Types
<1>2. 1 \in 1..Len(chain[g]) /\ Ahead(chain[g][1], g, offers, pc, hist)
  BY <1>1 DEF AheadInv
<1>3. /\ \A i \in 2..Len(chain[g]) : Before(chain[g][1].n, chain[g][i])
      /\ \A j \in 1..Len(toHub) : IsSignal(toHub[j], g) => Before(chain[g][1].n, toHub[j])
  BY <1>1, <1>2 DEF OrderInv
<1>4. \A f : Ahead(f, g, offers, pc, hist) /\ Before(chain[g][1].n, f)
                => Ahead(f, g, offers', pc', hist')
  BY <1>1 DEF Ahead
<1>5. \A i \in 1..Len(chain'[g]) : Ahead(chain'[g][i], g, offers', pc', hist')
  <2> SUFFICES ASSUME NEW i \in 1..Len(chain'[g]) PROVE Ahead(chain'[g][i], g, offers', pc', hist')
    OBVIOUS
  <2>1. i + 1 \in 2..Len(chain[g]) /\ i + 1 \in 1..Len(chain[g]) /\ chain'[g][i] = chain[g][i + 1]
    BY <1>1
  <2> QED
    BY <1>3, <1>4, <2>1 DEF AheadInv
<1>6. \A j \in 1..Len(toHub') : IsSignal(toHub'[j], g) => Ahead(toHub'[j], g, offers', pc', hist')
  BY <1>3, <1>4 DEF AheadInv
<1>7. \A m \in Nat : <<g, m>> \in hist'.handled => m \in 1..offers'[g]
  BY <1>1, <1>2 DEF AheadInv, Ahead
<1>8. \A i, j \in 1..Len(chain'[g]) : i < j => Before(chain'[g][i].n, chain'[g][j])
  <2> SUFFICES ASSUME NEW i \in 1..Len(chain'[g]), NEW j \in 1..Len(chain'[g]), i < j
               PROVE  Before(chain'[g][i].n, chain'[g][j])
    OBVIOUS
  <2>1. /\ i + 1 \in 1..Len(chain[g]) /\ j + 1 \in 1..Len(chain[g]) /\ i + 1 < j + 1
        /\ chain'[g][i] = chain[g][i + 1] /\ chain'[g][j] = chain[g][j + 1]
    BY <1>1
  <2> QED
    BY <2>1 DEF OrderInv
<1>9. \A i \in 1..Len(chain'[g]), j \in 1..Len(toHub') :
          IsSignal(toHub'[j], g) => Before(chain'[g][i].n, toHub'[j])
  BY <1>1 DEF OrderInv
<1> QED
  BY <1>5, <1>6, <1>7, <1>8, <1>9 DEF OrderInv, AheadInv

LEMMA TakenTypes ==
    ASSUME Types, NEW g \in Guests, chain[g] # <<>>, chain' = [chain EXCEPT ![g] = Tail(@)]
    PROVE  /\ DOMAIN chain' = Guests /\ \A h \in Guests : chain'[h] \in Seq(Signals(h))
           /\ chain'[g] = Tail(chain[g]) /\ \A h \in Guests : h # g => chain'[h] = chain[h]
           /\ Head(chain[g]) \in Signals(g)
<1>1. DOMAIN chain = Guests /\ \A h \in Guests : chain[h] \in Seq(Signals(h))
  BY DEF Types
<1>2. Tail(chain[g]) \in Seq(Signals(g)) /\ Head(chain[g]) \in Signals(g)
  BY <1>1, Tailed
<1> QED
  BY <1>1, <1>2

LEMMA StartsKeeps ==
    ASSUME SigInv, NEW g \in Guests, OfferStarts(g)
    PROVE  SigInv'
<1> DEFINE n == Head(chain[g]).n
<1>1. /\ chain[g] # <<>> /\ ItsTurn(g) /\ Head(chain[g]).k = "offer"
      /\ chain' = [chain EXCEPT ![g] = Tail(@)]
      /\ pc' = [pc EXCEPT ![g] = [None EXCEPT !.n = n]]
      /\ runs' = runs \cup {[g |-> g, n |-> n, at |-> "remote"]}
      /\ pending' = IF pc[g] # None THEN [pending EXCEPT ![g] = {}] ELSE pending
      /\ UNCHANGED <<srvVars, guest, ws, armed, silent, toHub, offers, got, hist>>
  BY DEF OfferStarts
<1>2. Types /\ RoomInv /\ PeerInv(g) /\ OrderInv(g) /\ AheadInv(g) /\ (g \notin hist.cut => GuestInv(g))
  BY DEF SigInv, Part
<1>3. /\ chain[g] \in Seq(Signals(g)) /\ Len(chain[g]) \in Nat /\ Len(chain[g]) >= 1
      /\ Head(chain[g]) = chain[g][1] /\ Head(chain[g]) \in Signals(g) /\ chain'[g] = Tail(chain[g])
      /\ Len(chain'[g]) = Len(chain[g]) - 1
      /\ \A i \in 1..Len(chain'[g]) : i + 1 \in 1..Len(chain[g]) /\ chain'[g][i] = chain[g][i + 1]
  BY <1>1, <1>2, TakenTypes, Tailed DEF Types
<1>4. n \in Nat /\ n = chain[g][1].n /\ chain[g][1].k = "offer" /\ 1 \in 1..Len(chain[g])
  BY <1>1, <1>3 DEF Signals
<1> HIDE DEF n
<1>5. /\ pc[g].n \in Nat /\ offers[g] \in Nat /\ n \in 1..offers[g] /\ pc[g].n < n
      /\ <<g, n>> \notin hist.handled
  <2>1. Ahead(chain[g][1], g, offers, pc, hist)
    BY <1>2, <1>4 DEF AheadInv
  <2>2. pc[g].n \in Nat /\ offers[g] \in Nat
    BY <1>2 DEF Types, Peers
  <2> QED
    BY <1>4, <2>1, <2>2 DEF Ahead, Before
<1> DEFINE p == [None EXCEPT !.n = n]
<1>6. p \in Peers /\ p.n = n /\ p.remote = FALSE /\ p.open = FALSE /\ p.cands = {}
  BY <1>4 DEF None, Peers
<1> HIDE DEF p
<1>7. /\ pc'[g] = p
      /\ pc' \in [Guests -> Peers] /\ pending' \in [Guests -> SUBSET Nat]
      /\ pending'[g] \subseteq pending[g]
      /\ \A h \in Guests : h # g => pc'[h] = pc[h] /\ pending'[h] = pending[h] /\ chain'[h] = chain[h]
  <2>1. pc' = [pc EXCEPT ![g] = p]
    BY <1>1 DEF p
  <2> QED
    BY <1>1, <1>2, <1>6, <2>1, ZenonT(60) DEF Types
<1>8. Types' /\ RoomInv'
  <2>1. DOMAIN chain' = Guests /\ \A h \in Guests : chain'[h] \in Seq(Signals(h))
    BY <1>1, <1>2, TakenTypes
  <2>2. runs' \subseteq Runs
    BY <1>1, <1>2, <1>5 DEF Types, Runs
  <2> QED
    BY <1>1, <1>2, <1>7, <2>1, <2>2 DEF Types, RoomInv, srvVars
<1>9. \A h \in Guests : h # g => Part(h)'
  BY <1>1, <1>7, Elsewhere DEF srvVars
<1>10. PeerInv(g)'
  <2>1. [g |-> g, n |-> n, at |-> "remote"] \in runs'
    BY <1>1
  <2>2. pc'[g].n = n /\ pc'[g].remote = FALSE /\ pc'[g].open = FALSE /\ hist' = hist /\ offers' = offers
    BY <1>1, <1>6, <1>7
  <2> QED
    BY <1>2, <1>5, <1>7, <2>1, <2>2 DEF PeerInv
<1>11. OrderInv(g)' /\ AheadInv(g)'
  BY <1>1, <1>2, <1>3, <1>4, <1>6, <1>7, TakenOrder
<1>12. ASSUME g \notin hist.cut PROVE GuestInv(g)'
  <2>1. GuestInv(g)
    BY <1>2, <1>12
  <2>2. \A i \in 1..Len(chain[g]) : i = 1 \/ (i - 1 \in 1..Len(chain'[g]) /\ chain'[g][i - 1] = chain[g][i])
    BY <1>3
  <2>3. \A k \in Nat : k >= n /\ Known(k, g, chain, toHub, pc, hist)
                         => Known(k, g, chain', toHub', pc', hist')
    <3> SUFFICES ASSUME NEW k \in Nat, k >= n, Known(k, g, chain, toHub, pc, hist)
                 PROVE  Known(k, g, chain', toHub', pc', hist')
      OBVIOUS
    <3>1. CASE k = n
      BY <1>6, <1>7, <3>1 DEF Known
    <3>2. CASE k # n
      <4>1. pc[g].n # k /\ chain[g][1].n # k
        BY <1>4, <1>5, <3>2
      <4> QED
        BY <1>1, <2>2, <4>1 DEF Known
    <3> QED
      BY <3>1, <3>2
  <2>4. guest[g] # "in" \/ room = ws
    BY <1>1, <2>1 DEF GuestInv, Unheard
  <2>5. guest'[g] = "in" /\ room' = ws' /\ offers'[g] > 0
          => Known(offers'[g], g, chain', toHub', pc', hist')
    <3> SUFFICES ASSUME guest[g] = "in", room = ws
                 PROVE  Known(offers[g], g, chain', toHub', pc', hist')
      BY <1>1 DEF srvVars
    <3>1. offers[g] \in Nat /\ offers[g] >= n /\ offers[g] > 0
      BY <1>4, <1>5
    <3>2. Known(offers[g], g, chain, toHub, pc, hist)
      BY <2>1, <3>1 DEF GuestInv
    <3> QED
      BY <2>3, <3>1, <3>2
  <2>6. guest'[g] = "gone" => Left(g)'
    BY <1>1, <1>4, <2>1 DEF GuestInv, Left, NoOffers
  <2>7. \A i \in 1..Len(chain'[g]) : Known(chain'[g][i].n, g, chain', toHub', pc', hist')
    <3> SUFFICES ASSUME NEW i \in 1..Len(chain'[g])
                 PROVE  Known(chain'[g][i].n, g, chain', toHub', pc', hist')
      OBVIOUS
    <3>1. i + 1 \in 1..Len(chain[g]) /\ chain'[g][i] = chain[g][i + 1] /\ 1 < i + 1
      BY <1>3
    <3>2. chain[g][i + 1] \in Signals(g) /\ Before(n, chain[g][i + 1])
      BY <1>2, <1>3, <1>4, <3>1 DEF OrderInv
    <3>3. chain[g][i + 1].n \in Nat /\ chain[g][i + 1].n >= n
      BY <1>4, <3>2 DEF Signals, Before
    <3> QED
      BY <2>1, <2>3, <3>1, <3>3 DEF GuestInv
  <2>8. \A j \in 1..Len(toHub') :
            IsSignal(toHub'[j], g) => Known(toHub'[j].n, g, chain', toHub', pc', hist')
    <3> SUFFICES ASSUME NEW j \in 1..Len(toHub), IsSignal(toHub[j], g)
                 PROVE  Known(toHub[j].n, g, chain', toHub', pc', hist')
      BY <1>1
    <3>1. Before(n, toHub[j]) /\ toHub[j].n \in Nat
      BY <1>2, <1>4 DEF OrderInv, AheadInv, Ahead
    <3>2. toHub[j].n >= n
      BY <1>4, <3>1 DEF Before
    <3> QED
      BY <2>1, <2>3, <3>1, <3>2 DEF GuestInv
  <2>9. guest' = guest /\ room' = room /\ ws' = ws /\ hist' = hist /\ offers' = offers
    BY <1>1 DEF srvVars
  <2>10. /\ \A m \in pending'[g] : <<g, m>> \in hist'.ended
         /\ \A m \in pc'[g].cands : m # pc'[g].n => <<g, m>> \in hist'.ended
    BY <1>6, <1>7, <2>1, <2>9 DEF GuestInv
  <2>11. guest'[g] # "closing" /\ (guest'[g] = "out" => offers'[g] = 0)
         /\ (guest'[g] = "in" => room' = ws')
    BY <2>1, <2>4, <2>9 DEF GuestInv
  <2> QED
    BY <2>5, <2>6, <2>7, <2>8, <2>10, <2>11 DEF GuestInv
<1>13. Part(g)'
  BY <1>1, <1>10, <1>11, <1>12 DEF Part
<1> QED
  BY <1>8, <1>9, <1>13 DEF SigInv

\* The peer of a guest changes, in the same attempt or to none, with nothing taken
\* from the chains.
LEMMA PeerChanges ==
    ASSUME SigInv, NEW g \in Guests, UNCHANGED <<toHub, chain, offers, guest, room, ws>>,
           hist'.cut = hist.cut, hist'.late = hist.late, hist'.handled = hist.handled,
           hist.ended \subseteq hist'.ended, pc'[g] \in Peers, PeerInv(g)',
           pending'[g] \subseteq pending[g],
           \/ pc'[g] = None /\ <<g, pc[g].n>> \in hist'.ended
           \/ /\ pc'[g].n = pc[g].n /\ pc'[g].cands \subseteq pc[g].cands \cup pending[g]
              /\ pc[g].open => pc'[g].open
    PROVE  Part(g)'
<1>1. Types /\ PeerInv(g) /\ OrderInv(g) /\ AheadInv(g) /\ (g \notin hist.cut => GuestInv(g))
  BY DEF SigInv, Part
<1>2. pc[g].n \in Nat /\ offers[g] \in Nat /\ pc'[g].n \in Nat /\ pc'[g].n <= pc[g].n
  BY <1>1 DEF Types, Peers, None
<1>3. \A f : Ahead(f, g, offers, pc, hist) => Ahead(f, g, offers', pc', hist')
  <2> SUFFICES ASSUME NEW f, Ahead(f, g, offers, pc, hist) PROVE Ahead(f, g, offers', pc', hist')
    OBVIOUS
  <2>1. f.n \in 1..offers[g] /\ Before(pc[g].n, f)
    BY DEF Ahead
  <2>2. Before(pc'[g].n, f)
    BY <1>2, <2>1 DEF Before
  <2> QED
    BY <2>1, <2>2 DEF Ahead
<1>4. OrderInv(g)' /\ AheadInv(g)'
  BY <1>1, <1>3 DEF OrderInv, AheadInv
<1>5. ASSUME g \notin hist.cut PROVE GuestInv(g)'
  <2>1. GuestInv(g)
    BY <1>1, <1>5
  <2>2. \A n : Known(n, g, chain, toHub, pc, hist) => Known(n, g, chain', toHub', pc', hist')
    BY DEF Known
  <2>3. /\ \A i \in 1..Len(chain'[g]) : Known(chain'[g][i].n, g, chain', toHub', pc', hist')
        /\ \A j \in 1..Len(toHub') :
              IsSignal(toHub'[j], g) => Known(toHub'[j].n, g, chain', toHub', pc', hist')
        /\ guest'[g] = "in" /\ room' = ws' /\ offers'[g] > 0
              => Known(offers'[g], g, chain', toHub', pc', hist')
    BY <2>1, <2>2 DEF GuestInv
  <2>4. pc[g] = None => pc'[g] = None
    BY <1>2 DEF PeerInv, None
  <2>5. /\ guest'[g] = "in" /\ room' # ws' => Unheard(g)'
        /\ guest'[g] = "gone" => Left(g)'
    BY <2>1, <2>4 DEF GuestInv, Unheard, Left, NoOffers
  <2>6. \A n \in pc'[g].cands : n # pc'[g].n => <<g, n>> \in hist'.ended
    BY <2>1 DEF GuestInv, None
  <2>7. \A n \in pending'[g] : <<g, n>> \in hist'.ended
    BY <2>1 DEF GuestInv
  <2> QED
    BY <2>1, <2>3, <2>5, <2>6, <2>7 DEF GuestInv
<1> QED
  BY <1>4, <1>5 DEF Part

LEMMA RemoteSetKeeps ==
    ASSUME SigInv, RemoteSet
    PROVE  SigInv'
<1>1. PICK r \in runs :
        /\ r.at = "remote" /\ runs' = (runs \ {r}) \cup {[r EXCEPT !.at = "answer"]}
        /\ pending' = [pending EXCEPT ![r.g] = {}]
        /\ pc' = IF pc[r.g].n = r.n
                 THEN [pc EXCEPT ![r.g].remote = TRUE, ![r.g].cands = @ \cup pending[r.g]] ELSE pc
        /\ UNCHANGED <<srvVars, guest, ws, armed, silent, toHub, offers, chain, got, hist>>
  BY DEF RemoteSet
<1> DEFINE g == r.g
<1>2. Types /\ RoomInv /\ r \in Runs /\ g \in Guests /\ r.n \in Nat \ {0}
  BY DEF SigInv, Types, Runs
<1>3. PeerInv(g) /\ pc[g] \in Peers /\ pending[g] \in SUBSET Nat /\ hist \in Histories
  BY <1>2 DEF SigInv, Part, Types
<1> HIDE DEF g
<1>4. /\ pc' \in [Guests -> Peers] /\ pending' \in [Guests -> SUBSET Nat] /\ pending'[g] = {}
      /\ \A h \in Guests : h # g => pc'[h] = pc[h] /\ pending'[h] = pending[h]
      /\ pc[g].n # r.n => pc'[g] = pc[g]
      /\ pc[g].n = r.n => /\ pc'[g].n = r.n /\ pc'[g].remote = TRUE /\ pc'[g].open = pc[g].open
                          /\ pc'[g].cands = pc[g].cands \cup pending[g]
  <2>1. CASE pc[g].n # r.n
    BY <1>1, <1>2, <2>1 DEF Types, g
  <2>2. CASE pc[g].n = r.n
    <3> DEFINE p == [[pc[g] EXCEPT !.remote = TRUE] EXCEPT !.cands = pc[g].cands \cup pending[g]]
    <3>1. /\ p \in Peers /\ p.n = r.n /\ p.remote = TRUE /\ p.open = pc[g].open
          /\ p.cands = pc[g].cands \cup pending[g]
      BY <1>3, <2>2 DEF Peers
    <3>2. pc' = [pc EXCEPT ![g] = p]
      BY <1>1, <1>2, <2>2 DEF Types, g
    <3> HIDE DEF p
    <3> QED
      BY <1>1, <1>2, <2>2, <3>1, <3>2 DEF Types, g
  <2> QED
    BY <2>1, <2>2
<1>5. Types' /\ RoomInv'
  <2>1. [r EXCEPT !.at = "answer"] \in Runs
    BY <1>2 DEF Runs
  <2>2. runs' \subseteq Runs
    BY <1>1, <1>2, <2>1 DEF Types
  <2> QED
    BY <1>1, <1>2, <1>4, <2>2 DEF Types, RoomInv, srvVars
<1>6. ASSUME NEW h \in Guests, h # g PROVE Part(h)'
  <2>1. \A s \in runs : s.g = h => s \in runs'
    BY <1>1, <1>6 DEF g
  <2> QED
    BY <1>1, <1>4, <1>6, <2>1, Elsewhere DEF srvVars
<1>7. PeerInv(g)'
  <2>1. hist' = hist /\ offers' = offers /\ pc[g].n \in Nat
    BY <1>1, <1>3 DEF Peers
  <2>2. CASE pc[g].n = r.n
    <3>1. <<g, pc'[g].n>> \in hist'.handled => pc'[g].remote /\ pc'[g].n \in pc'[g].cands
      <4>1. pc[g] # None
        BY <1>2, <2>2 DEF None
      <4> QED
        BY <1>3, <1>4, <2>1, <2>2, <4>1 DEF PeerInv
    <3> QED
      BY <1>2, <1>3, <1>4, <2>1, <2>2, <3>1 DEF PeerInv
  <2>3. CASE pc[g].n # r.n
    <3>1. pc'[g] = pc[g]
      BY <1>4, <2>3
    <3>2. \A s \in runs : s.n = pc[g].n => s \in runs'
      BY <1>1, <2>3
    <3> QED
      BY <1>3, <1>4, <2>1, <3>1, <3>2 DEF PeerInv
  <2> QED
    BY <2>2, <2>3
<1>8. Part(g)'
  <2>1. /\ UNCHANGED <<toHub, chain, offers, guest, room, ws, hist>> /\ pc'[g] \in Peers
        /\ pending'[g] \subseteq pending[g] /\ g \in Guests
    BY <1>1, <1>2, <1>4 DEF srvVars, g
  <2>2. /\ pc'[g].n = pc[g].n /\ pc'[g].cands \subseteq pc[g].cands \cup pending[g]
        /\ pc[g].open => pc'[g].open
    BY <1>4
  <2> QED
    BY <1>7, <2>1, <2>2, PeerChanges
<1> QED
  BY <1>5, <1>6, <1>8 DEF SigInv

LEMMA AnswersKeeps ==
    ASSUME SigInv, Answers
    PROVE  SigInv'
<1>1. PICK r \in runs :
        /\ r.at = "answer" /\ pc[r.g].n = r.n /\ runs' = runs \ {r}
        /\ got' = IF ws # 0 /\ ws = room /\ guest[r.g] = "in" THEN [got EXCEPT ![r.g] = r.n] ELSE got
        /\ UNCHANGED <<srvVars, guest, ws, armed, silent, toHub, offers, chain, pc, pending, hist>>
  BY DEF Answers
<1>2. Types /\ RoomInv /\ r.n \in Nat
  BY DEF SigInv, Types, Runs
<1>3. Types' /\ RoomInv'
  <2>1. runs' \subseteq Runs /\ got' \in [Guests -> Nat]
    BY <1>1, <1>2 DEF Types
  <2> QED
    BY <1>1, <1>2, <2>1 DEF Types, RoomInv, srvVars
<1>4. ASSUME NEW g \in Guests PROVE Part(g)'
  <2>1. PeerInv(g) /\ OrderInv(g) /\ AheadInv(g) /\ (g \notin hist.cut => GuestInv(g))
    BY DEF SigInv, Part
  <2>2. PeerInv(g)'
    BY <1>1, <2>1 DEF PeerInv
  <2> QED
    BY <1>1, <2>1, <2>2
       DEF Part, OrderInv, AheadInv, GuestInv, Unheard, Left, NoOffers, srvVars
<1> QED
  BY <1>3, <1>4 DEF SigInv

LEMMA ClosesKeeps ==
    ASSUME SigInv, NEW g \in Guests, ClosePeer(g), hist' = Ended(hist, g), runs' \subseteq runs,
           \A r \in runs : r.g # g => r \in runs',
           UNCHANGED <<srvVars, guest, ws, armed, silent, toHub, offers, chain, got>>
    PROVE  SigInv'
<1>1. Types /\ RoomInv
  BY DEF SigInv
<1>2. /\ hist' \in Histories /\ hist'.cut = hist.cut /\ hist'.late = hist.late
      /\ hist'.handled = hist.handled /\ hist.ended \subseteq hist'.ended
      /\ <<g, pc[g].n>> \in hist'.ended
  BY <1>1, EndedOf
<1>3. None \in Peers
  BY DEF None, Peers
<1>4. /\ pc' \in [Guests -> Peers] /\ pending' \in [Guests -> SUBSET Nat]
      /\ pc'[g] = None /\ pending'[g] = {}
      /\ \A h \in Guests : h # g => pc'[h] = pc[h] /\ pending'[h] = pending[h]
  BY <1>1, <1>3 DEF Types, ClosePeer
<1>5. Types' /\ RoomInv'
  BY <1>1, <1>2, <1>4 DEF Types, RoomInv, srvVars
<1>6. \A h \in Guests : h # g => Part(h)'
  BY <1>2, <1>4, Elsewhere DEF srvVars
<1>7. PeerInv(g)'
  <2>1. offers'[g] \in Nat
    BY <1>5 DEF Types
  <2> QED
    BY <1>4, <2>1 DEF PeerInv, None
<1>8. Part(g)'
  BY <1>2, <1>3, <1>4, <1>7, PeerChanges DEF srvVars
<1> QED
  BY <1>5, <1>6, <1>8 DEF SigInv

LEMMA FailsKeeps ==
    ASSUME SigInv, OfferFails
    PROVE  SigInv'
<1>1. PICK r \in runs :
        /\ runs' = runs \ {r}
        /\ IF pc[r.g].n = r.n THEN ClosePeer(r.g) /\ hist' = Ended(hist, r.g)
           ELSE UNCHANGED <<pc, pending, hist>>
        /\ UNCHANGED <<srvVars, guest, ws, armed, silent, toHub, offers, chain, got>>
  BY DEF OfferFails
<1>2. Types /\ RoomInv /\ r.g \in Guests
  BY DEF SigInv, Types, Runs
<1>3. CASE pc[r.g].n = r.n
  BY <1>1, <1>2, <1>3, ClosesKeeps
<1>4. CASE pc[r.g].n # r.n
  <2>1. Types' /\ RoomInv'
    BY <1>1, <1>2, <1>4 DEF Types, RoomInv, srvVars
  <2>2. ASSUME NEW g \in Guests PROVE Part(g)'
    <3>1. PeerInv(g) /\ OrderInv(g) /\ AheadInv(g) /\ (g \notin hist.cut => GuestInv(g))
      BY DEF SigInv, Part
    <3>2. PeerInv(g)'
      BY <1>1, <1>4, <3>1 DEF PeerInv
    <3> QED
      BY <1>1, <1>4, <3>1, <3>2
         DEF Part, OrderInv, AheadInv, GuestInv, Unheard, Left, NoOffers, srvVars
  <2> QED
    BY <2>1, <2>2 DEF SigInv
<1> QED
  BY <1>3, <1>4

LEMMA ChannelKeeps ==
    ASSUME SigInv, NEW g \in Guests, ChannelOpens(g) \/ ChannelCloses(g)
    PROVE  SigInv'
<1>1. CASE ChannelCloses(g)
  BY <1>1, ClosesKeeps DEF ChannelCloses
<1>2. CASE ChannelOpens(g)
  <2>1. /\ pc[g].remote /\ pc' = [pc EXCEPT ![g].open = TRUE]
        /\ UNCHANGED <<srvVars, guest, ws, armed, silent, toHub, offers, chain, runs, pending, got, hist>>
    BY <1>2 DEF ChannelOpens
  <2>2. Types /\ RoomInv /\ pc[g] \in Peers /\ PeerInv(g)
    BY DEF SigInv, Types, Part
  <2> DEFINE p == [pc[g] EXCEPT !.open = TRUE]
  <2>3. /\ p \in Peers /\ p.open = TRUE /\ p.n = pc[g].n /\ p.remote = pc[g].remote
        /\ p.cands = pc[g].cands
    BY <2>2 DEF Peers
  <2>4. pc' = [pc EXCEPT ![g] = p]
    BY <2>1, <2>2 DEF Types
  <2> HIDE DEF p
  <2>5. /\ pc' \in [Guests -> Peers] /\ pc'[g] = p /\ \A h \in Guests : h # g => pc'[h] = pc[h]
    BY <2>2, <2>3, <2>4 DEF Types
  <2>6. Types' /\ RoomInv'
    BY <2>1, <2>2, <2>5 DEF Types, RoomInv, srvVars
  <2>7. \A h \in Guests : h # g => Part(h)'
    BY <2>1, <2>5, Elsewhere DEF srvVars
  <2>8. PeerInv(g)'
    <3>1. pc[g] # None
      BY <2>1 DEF None
    <3>2. p.n # 0
      BY <2>2, <2>3, <3>1 DEF PeerInv
    <3> QED
      BY <2>1, <2>2, <2>3, <2>5, <3>1, <3>2 DEF PeerInv
  <2>9. Part(g)'
    BY <2>1, <2>3, <2>5, <2>8, PeerChanges DEF srvVars
  <2> QED
    BY <2>6, <2>7, <2>9 DEF SigInv
<1> QED
  BY <1>1, <1>2

LEMMA CandidateKeeps ==
    ASSUME SigInv, NEW g \in Guests, CandidateRuns(g)
    PROVE  SigInv'
<1> DEFINE n == Head(chain[g]).n
<1>1. /\ chain[g] # <<>> /\ ItsTurn(g) /\ Head(chain[g]).k = "candidate"
      /\ chain' = [chain EXCEPT ![g] = Tail(@)]
      /\ IF pc[g].remote THEN pc' = [pc EXCEPT ![g].cands = @ \cup {n}] /\ UNCHANGED pending
         ELSE pending' = [pending EXCEPT ![g] = @ \cup {n}] /\ UNCHANGED pc
      /\ hist' = [hist EXCEPT !.handled = @ \cup {<<g, n>>}]
      /\ UNCHANGED <<srvVars, guest, ws, armed, silent, toHub, offers, runs, got>>
  BY DEF CandidateRuns
<1>2. /\ Types /\ RoomInv /\ PeerInv(g) /\ OrderInv(g) /\ AheadInv(g) /\ (g \notin hist.cut => GuestInv(g))
      /\ pc[g] \in Peers /\ pending[g] \in SUBSET Nat /\ hist \in Histories
  BY DEF SigInv, Part, Types
<1>3. /\ chain[g] \in Seq(Signals(g)) /\ Len(chain[g]) \in Nat /\ Len(chain[g]) >= 1
      /\ Head(chain[g]) = chain[g][1] /\ Head(chain[g]) \in Signals(g) /\ chain'[g] = Tail(chain[g])
      /\ Len(chain'[g]) = Len(chain[g]) - 1
      /\ \A i \in 1..Len(chain'[g]) : i + 1 \in 1..Len(chain[g]) /\ chain'[g][i] = chain[g][i + 1]
  BY <1>1, <1>2, TakenTypes, Tailed DEF Types
<1>4. n \in Nat /\ n = chain[g][1].n /\ chain[g][1].k = "candidate" /\ 1 \in 1..Len(chain[g])
  BY <1>1, <1>3 DEF Signals
<1> HIDE DEF n
<1>5. /\ pc[g].n \in Nat /\ offers[g] \in Nat /\ n \in 1..offers[g]
  <2>1. Ahead(chain[g][1], g, offers, pc, hist)
    BY <1>2, <1>4 DEF AheadInv
  <2>2. pc[g].n \in Nat /\ offers[g] \in Nat
    BY <1>2 DEF Types, Peers
  <2> QED
    BY <1>4, <2>1, <2>2 DEF Ahead
<1>6. /\ hist' \in Histories /\ hist'.cut = hist.cut /\ hist'.late = hist.late
      /\ hist'.ended = hist.ended /\ hist'.handled = hist.handled \cup {<<g, n>>}
  <2> DEFINE H == hist.handled \cup {<<g, n>>}
  <2>1. H \in SUBSET (Guests \X Nat) /\ hist' = [hist EXCEPT !.handled = H]
    BY <1>1, <1>2, <1>4 DEF Histories
  <2> HIDE DEF H
  <2>2. /\ hist' \in Histories /\ hist'.cut = hist.cut /\ hist'.late = hist.late
        /\ hist'.ended = hist.ended /\ hist'.handled = H
    BY <1>2, <2>1 DEF Histories
  <2> QED
    BY <2>2 DEF H
\* No handler of this guest is under way, so its peer has a description or is none.
<1>7. pc[g].remote \/ pc[g] = None
  BY <1>1, <1>2 DEF PeerInv, ItsTurn
<1>8. \/ /\ pc[g].remote /\ pending' = pending /\ pc'[g].n = pc[g].n /\ pc'[g].remote = TRUE
         /\ pc'[g].open = pc[g].open /\ pc'[g].cands = pc[g].cands \cup {n}
         /\ pc' \in [Guests -> Peers] /\ \A h \in Guests : h # g => pc'[h] = pc[h]
      \/ /\ pc[g] = None /\ pc' = pc /\ pending'[g] = pending[g] \cup {n}
         /\ pending' \in [Guests -> SUBSET Nat] /\ \A h \in Guests : h # g => pending'[h] = pending[h]
  <2>1. CASE pc[g].remote
    <3> DEFINE p == [pc[g] EXCEPT !.cands = pc[g].cands \cup {n}]
    <3>1. /\ p \in Peers /\ p.n = pc[g].n /\ p.remote = pc[g].remote /\ p.open = pc[g].open
          /\ p.cands = pc[g].cands \cup {n}
      BY <1>2, <1>4 DEF Peers
    <3>2. pc' = [pc EXCEPT ![g] = p]
      BY <1>1, <1>2, <2>1 DEF Types
    <3>3. pc[g].remote = TRUE
      BY <1>2, <2>1 DEF Peers
    <3> HIDE DEF p
    <3> QED
      BY <1>1, <1>2, <2>1, <3>1, <3>2, <3>3 DEF Types
  <2>2. CASE pc[g] = None
    <3>1. ~pc[g].remote
      BY <2>2 DEF None
    <3>2. pending' = [pending EXCEPT ![g] = @ \cup {n}] /\ pc' = pc
      BY <1>1, <3>1
    <3> QED
      BY <1>2, <1>4, <2>2, <3>2 DEF Types
  <2> QED
    BY <1>7, <2>1, <2>2
<1>9. Types' /\ RoomInv'
  <2>1. DOMAIN chain' = Guests /\ \A h \in Guests : chain'[h] \in Seq(Signals(h))
    BY <1>1, <1>2, TakenTypes
  <2>2. pc' \in [Guests -> Peers] /\ pending' \in [Guests -> SUBSET Nat]
    BY <1>2, <1>8 DEF Types
  <2> QED
    BY <1>1, <1>2, <1>6, <2>1, <2>2 DEF Types, RoomInv, srvVars
<1>10. ASSUME NEW h \in Guests, h # g PROVE Part(h)'
  <2>1. chain'[h] = chain[h]
    BY <1>1, <1>2, <1>10, TakenTypes
  <2>2. pc'[h] = pc[h] /\ pending'[h] = pending[h]
    BY <1>8, <1>10
  <2>3. \A m \in Nat : <<h, m>> \in hist'.handled => <<h, m>> \in hist.handled
    BY <1>6, <1>10
  <2> QED
    BY <1>1, <1>6, <2>1, <2>2, <2>3, Elsewhere DEF srvVars
<1>11. PeerInv(g)'
  <2>1. runs' = runs /\ offers' = offers
    BY <1>1
  <2>2. CASE pc[g].remote /\ pending' = pending
    <3>1. /\ pc'[g].n = pc[g].n /\ pc'[g].remote = TRUE
          /\ pc'[g].open = pc[g].open /\ pc'[g].cands = pc[g].cands \cup {n} /\ pc[g] # None
      BY <1>8, <2>2 DEF None
    <3>2. <<g, pc'[g].n>> \in hist'.handled => pc'[g].n \in pc'[g].cands
      BY <1>2, <1>6, <3>1 DEF PeerInv
    <3>3. pc'[g].n # 0
      BY <1>2, <3>1 DEF PeerInv
    <3> QED
      BY <1>2, <2>1, <2>2, <3>1, <3>2, <3>3 DEF PeerInv
  <2>3. CASE pc[g] = None /\ pc' = pc /\ pending'[g] = pending[g] \cup {n}
    BY <1>2, <1>5, <2>1, <2>3 DEF PeerInv, None
  <2> QED
    BY <1>8, <2>2, <2>3
<1>12. OrderInv(g)' /\ AheadInv(g)'
  <2>1. \A m \in Nat : <<g, m>> \in hist'.handled => <<g, m>> \in hist.handled \/ m = Head(chain[g]).n
    BY <1>3, <1>4, <1>6
  <2>2. pc'[g].n = pc[g].n
    BY <1>8
  <2> QED
    BY <1>1, <1>2, <1>3, <2>1, <2>2, TakenOrder
<1>13. ASSUME g \notin hist.cut PROVE GuestInv(g)'
  <2>1. GuestInv(g)
    BY <1>2, <1>13
  <2>2. \A i \in 1..Len(chain[g]) : i = 1 \/ (i - 1 \in 1..Len(chain'[g]) /\ chain'[g][i - 1] = chain[g][i])
    BY <1>3
  <2>3. pc'[g].n = pc[g].n
    BY <1>8
  <2>4. \A k : Known(k, g, chain, toHub, pc, hist) => Known(k, g, chain', toHub', pc', hist')
    BY <1>1, <1>4, <1>6, <2>2, <2>3 DEF Known
  <2>5. guest' = guest /\ room' = room /\ ws' = ws /\ offers' = offers /\ toHub' = toHub
    BY <1>1 DEF srvVars
  <2>6. guest'[g] = "in" => room' = ws'
    BY <1>1, <2>1, <2>5 DEF GuestInv, Unheard
  <2>7. guest'[g] = "gone" => Left(g)'
    <3>1. \A i \in 1..Len(chain'[g]) : i + 1 \in 1..Len(chain[g]) /\ chain'[g][i] = chain[g][i + 1]
      BY <1>3
    <3>2. pc[g] = None \/ pc[g].open => pc'[g] = None \/ pc'[g].open
      BY <1>8 DEF None
    <3> QED
      BY <1>6, <2>1, <2>5, <3>1, <3>2 DEF GuestInv, Left, NoOffers
  <2>8. /\ \A i \in 1..Len(chain'[g]) : Known(chain'[g][i].n, g, chain', toHub', pc', hist')
        /\ \A j \in 1..Len(toHub') :
              IsSignal(toHub'[j], g) => Known(toHub'[j].n, g, chain', toHub', pc', hist')
        /\ guest'[g] = "in" /\ room' = ws' /\ offers'[g] > 0
              => Known(offers'[g], g, chain', toHub', pc', hist')
    BY <1>3, <2>1, <2>4, <2>5 DEF GuestInv
  <2>9. n = pc[g].n \/ <<g, n>> \in hist.ended
    <3>1. Known(n, g, chain, toHub, pc, hist)
      BY <1>4, <2>1 DEF GuestInv
    <3>2. ~\E i \in 1..Len(chain[g]) : chain[g][i].k = "offer" /\ chain[g][i].n = n
      <4> SUFFICES ASSUME NEW i \in 1..Len(chain[g]), chain[g][i].k = "offer", chain[g][i].n = n
                   PROVE  FALSE
        OBVIOUS
      <4>1. 1 < i
        BY <1>4
      <4> QED
        BY <1>2, <1>4, <4>1 DEF OrderInv, Before
    <3>3. ~\E j \in 1..Len(toHub) : toHub[j].k = "offer" /\ toHub[j].from = g /\ toHub[j].n = n
      BY <1>2, <1>4 DEF OrderInv, Before, IsSignal
    <3> QED
      BY <3>1, <3>2, <3>3 DEF Known
  <2>10. /\ \A m \in pending'[g] : <<g, m>> \in hist'.ended
         /\ \A m \in pc'[g].cands : m # pc'[g].n => <<g, m>> \in hist'.ended
    <3>1. CASE pc[g].remote /\ pending' = pending /\ pc'[g].cands = pc[g].cands \cup {n}
      BY <1>6, <2>1, <2>3, <2>9, <3>1 DEF GuestInv
    <3>2. CASE pc[g] = None /\ pc' = pc /\ pending'[g] = pending[g] \cup {n}
      <4>1. <<g, n>> \in hist.ended
        BY <1>5, <2>9, <3>2 DEF None
      <4> QED
        BY <1>6, <2>1, <3>2, <4>1 DEF GuestInv
    <3> QED
      BY <1>8, <3>1, <3>2
  <2>11. guest'[g] # "closing" /\ (guest'[g] = "out" => offers'[g] = 0)
    BY <2>1, <2>5 DEF GuestInv
  <2> QED
    BY <2>6, <2>7, <2>8, <2>10, <2>11 DEF GuestInv
<1>14. Part(g)'
  BY <1>6, <1>11, <1>12, <1>13 DEF Part
<1> QED
  BY <1>9, <1>10, <1>14 DEF SigInv

-----------------------------------------------------------------------------
(* The theorems.                                                           *)

LEMMA Starts == Init => SigInv
<1> SUFFICES ASSUME Init PROVE SigInv
  OBVIOUS
<1>1. hist = [losses |-> 0, cut |-> {}, late |-> {}, ended |-> {}, handled |-> {}]
  BY DEF Init
<1>2. hist \in Histories /\ None \in Peers
  BY <1>1 DEF Histories, None, Peers
<1>3. Types
  BY <1>2 DEF Init, Types
<1>4. RoomInv
  BY DEF Init, RoomInv
<1>5. ASSUME NEW g \in Guests PROVE Part(g)
  <2>1. /\ chain[g] = <<>> /\ toHub = <<>> /\ pc[g] = None /\ pending[g] = {} /\ offers[g] = 0
        /\ guest[g] = "out" /\ hist.handled = {}
    BY <1>1 DEF Init
  <2>2. Len(chain[g]) = 0 /\ Len(toHub) = 0
    BY <2>1
  <2>3. pc[g].n = 0 /\ pc[g].remote = FALSE /\ pc[g].open = FALSE /\ pc[g].cands = {}
    BY <2>1 DEF None
  <2> QED
    BY <2>1, <2>2, <2>3 DEF Part, PeerInv, OrderInv, AheadInv, GuestInv
<1> QED
  BY <1>3, <1>4, <1>5 DEF SigInv

LEMMA StepKeeps ==
    ASSUME SigInv, Greeting, [Next]_vars
    PROVE  SigInv'
<1>1. CASE ServerReadsHello
  BY <1>1, ReadsHelloKeeps
<1>2. CASE ServerSeesClose
  BY <1>2, SeesServerCloseKeeps
<1>3. CASE ServerDrops
  BY <1>3, DropsKeeps
<1>4. CASE HubConnects
  BY <1>4, ConnectsKeeps
<1>5. CASE HubSeesClose \/ HubLoses \/ Refresh
  BY <1>5, ClosedKeeps
<1>6. CASE HubReceives
  BY <1>6, ReceivesKeeps
<1>7. CASE RemoteSet
  BY <1>7, RemoteSetKeeps
<1>8. CASE Answers
  BY <1>8, AnswersKeeps
<1>9. CASE OfferFails
  BY <1>9, FailsKeeps
<1>10. ASSUME NEW g \in Guests,
              \/ GuestJoins(g) \/ GuestOffers(g) \/ GuestTrickles(g) \/ GuestLeaves(g)
              \/ OfferStarts(g) \/ CandidateRuns(g) \/ ChannelOpens(g) \/ ChannelCloses(g)
       PROVE  SigInv'
  BY <1>10, JoinsKeeps, OffersKeeps, LeavesKeeps, StartsKeeps, CandidateKeeps, ChannelKeeps
<1>11. CASE UNCHANGED vars
  BY <1>11, SMTT(30) DEF vars, hubVars, srvVars, SigInv, Types, RoomInv, Part, PeerInv, OrderInv, AheadInv,
               GuestInv, Unheard, Left, NoOffers
<1> QED
  BY <1>1, <1>2, <1>3, <1>4, <1>5, <1>6, <1>7, <1>8, <1>9, <1>10, <1>11 DEF Next

\* What is added to the host's socket is no welcome, and what the server reads there it
\* reads of a connection whose welcome the host has read.
LEMMA GreetingStays ==
    ASSUME SigInv, Greeting, NEW f \in Frames, f.k # "welcome",
           toHub' \in {toHub, <<>>, Append(toHub, f)}, ws' = ws, hello' \subseteq hello,
           room' = ws => room = ws \/ ws \in hello \/ toHub' = <<>>
    PROVE  Greeting'
<1>1. toHub \in Seq(Frames)
  BY DEF SigInv, Types
<1>2. SUFFICES ASSUME NEW j \in 1..Len(toHub'), toHub'[j].k = "welcome"
               PROVE  j = 1 /\ room' # ws' /\ ws' \notin hello'
  BY DEF Greeting
<1>3. j \in 1..Len(toHub) /\ toHub'[j] = toHub[j] /\ toHub' # <<>>
  BY <1>1, <1>2, Appended
<1>4. j = 1 /\ room # ws /\ ws \notin hello
  BY <1>2, <1>3 DEF Greeting
<1> QED
  BY <1>3, <1>4

LEMMA GreetingKeeps ==
    ASSUME SigInv, Greeting, [Next]_vars
    PROVE  Greeting'
<1> DEFINE ok == Frame("ok", 0, 0)
<1>1. ok \in Frames /\ ok.k # "welcome"
  BY OkFrame
<1>2. Types /\ RoomInv /\ toHub \in Seq(Frames)
  BY DEF SigInv, Types
<1>3. CASE toHub' = <<>>
  BY <1>3 DEF Greeting
<1>4. CASE ServerReadsHello
  <2>1. PICK n \in hello : Hello(n)
    BY <1>4 DEF ServerReadsHello
  <2>2. /\ toHub' \in {toHub, Append(toHub, ok)} /\ hello' \subseteq hello
        /\ room' = room \/ room' = n
    BY <2>1 DEF Hello
  <2>3. ws' = ws
    BY <1>4 DEF ServerReadsHello
  <2> HIDE DEF ok
  <2> QED
    BY <1>1, <2>2, <2>3, GreetingStays
<1>5. CASE ServerSeesClose \/ ServerDrops
  <2>1. PICK n \in up : Cleanup(n)
    BY <1>5 DEF ServerSeesClose, ServerDrops
  <2>2. hello' \subseteq hello /\ (room' = room \/ room' = 0)
    BY <2>1 DEF Cleanup
  <2>3. ws' = ws /\ toHub' \in {toHub, <<>>}
    BY <1>5 DEF ServerSeesClose, ServerDrops
  <2>4. ws = 0 => toHub' = <<>>
    BY <1>2, <2>3 DEF RoomInv
  <2> HIDE DEF ok
  <2> QED
    BY <1>1, <2>2, <2>3, <2>4, GreetingStays
<1>6. CASE HubConnects
  <2>1. /\ ws' \in Conns \ up /\ UNCHANGED <<hello, room>> /\ toHub' = <<Frame("welcome", 0, 0)>>
    BY <1>6, MinOfNaturals, SignallingAssumption DEF HubConnects
  <2>2. room' # ws' /\ ws' \notin hello'
    BY <1>2, <2>1, SignallingAssumption DEF RoomInv
  <2>3. \A j \in 1..Len(toHub') : j = 1
    BY <2>1
  <2> QED
    BY <2>2, <2>3 DEF Greeting
<1>7. CASE HubReceives
  <2>1. toHub # <<>> /\ toHub' = Tail(toHub)
    BY <1>7 DEF HubReceives
  <2>2. \A j \in 1..Len(toHub') : j + 1 \in 1..Len(toHub) /\ toHub'[j] = toHub[j + 1] /\ j + 1 # 1
    BY <1>2, <2>1, Tailed
  <2>3. \A j \in 1..Len(toHub') : toHub'[j].k # "welcome"
    BY <2>2 DEF Greeting
  <2> QED
    BY <2>3 DEF Greeting
<1>8. CASE HubSeesClose \/ HubLoses \/ Refresh
  BY <1>3, <1>8 DEF HubSeesClose, HubLoses, Refresh, Closed
<1>9. ASSUME NEW g \in Guests, GuestOffers(g) \/ GuestTrickles(g) \/ GuestLeaves(g)
      PROVE  Greeting'
  <2>1. offers \in [Guests -> Nat]
    BY <1>2 DEF Types
  <2>2. \A k \in {"offer", "candidate"}, n \in Nat :
            Frame(k, g, n) \in Frames /\ Frame(k, g, n).k # "welcome"
    BY DEF Frame, Frames
  <2>3. Frame("peer_left", g, 0) \in Frames /\ Frame("peer_left", g, 0).k # "welcome"
    BY DEF Frame, Frames
  <2>4. PICK f \in Frames : f.k # "welcome" /\ toHub' \in {toHub, Append(toHub, f)}
    <3>1. CASE GuestOffers(g)
      <4>1. offers[g] + 1 \in Nat
        BY <2>1
      <4>2. toHub' = Sent(Frame("offer", g, offers[g] + 1))
        BY <3>1 DEF GuestOffers
      <4> QED
        BY <2>2, <4>1, <4>2 DEF Sent
    <3>2. CASE GuestTrickles(g)
      <4>1. offers[g] \in Nat /\ toHub' = Sent(Frame("candidate", g, offers[g]))
        BY <2>1, <3>2 DEF GuestTrickles
      <4> QED
        BY <2>2, <4>1 DEF Sent
    <3>3. CASE GuestLeaves(g)
      <4>1. toHub' \in {toHub, Sent(Frame("peer_left", g, 0))}
        BY <3>3 DEF GuestLeaves
      <4> QED
        BY <2>3, <4>1 DEF Sent
    <3> QED
      BY <1>9, <3>1, <3>2, <3>3
  <2>5. UNCHANGED <<ws, room, hello>>
    BY <1>9 DEF GuestOffers, GuestTrickles, GuestLeaves, srvVars
  <2> QED
    BY <2>4, <2>5, GreetingStays
<1>10. ASSUME NEW g \in Guests, \/ GuestJoins(g) \/ OfferStarts(g) \/ CandidateRuns(g)
                                \/ ChannelOpens(g) \/ ChannelCloses(g)
       PROVE  Greeting'
  <2>1. UNCHANGED <<ws, room, hello, toHub>>
    BY <1>10 DEF GuestJoins, OfferStarts, CandidateRuns, ChannelOpens, ChannelCloses, srvVars
  <2> HIDE DEF ok
  <2> QED
    BY <1>1, <2>1, GreetingStays
<1>11. CASE RemoteSet \/ Answers \/ OfferFails \/ UNCHANGED vars
  <2>1. UNCHANGED <<ws, room, hello, toHub>>
    BY <1>11 DEF RemoteSet, Answers, OfferFails, vars, srvVars
  <2> HIDE DEF ok
  <2> QED
    BY <1>1, <2>1, GreetingStays
<1> QED
  BY <1>4, <1>5, <1>6, <1>7, <1>8, <1>9, <1>10, <1>11 DEF Next

THEOREM SignallingInvariant == Spec => []SigInv
<1>1. Init => SigInv /\ Greeting
  BY Starts DEF Init, Greeting
<1>2. SigInv /\ Greeting /\ [Next]_vars => (SigInv /\ Greeting)'
  BY StepKeeps, GreetingKeeps
<1> QED
  BY <1>1, <1>2, PTL DEF Spec

\* The host's connection is one it opened and its peers belong to attempts the phones
\* made (p2p_host.ts, rendezvous/src/server.ts).
THEOREM SignallingTypeCorrect == Spec => []TypeOK
<1>1. SigInv => TypeOK
  BY DEF SigInv, RoomInv, Part, PeerInv, TypeOK
<1> QED
  BY <1>1, SignallingInvariant, PTL

\* A peer that is past setting its description has the candidate of its offer once that
\* was handled, and of candidates of other attempts only those whose peer had ended or
\* was lost on the way (p2p_host.ts onSignal, enqueueSignal, pendingCandidatesByPeer).
THEOREM CandidatesArrive == Spec => []CandidatesReachTheirPeer
<1>1. SigInv => CandidatesReachTheirPeer
  <2> SUFFICES ASSUME SigInv, NEW g \in Guests, pc[g].remote
               PROVE  /\ <<g, pc[g].n>> \in hist.handled => pc[g].n \in pc[g].cands
                      /\ \A n \in pc[g].cands \ {pc[g].n} : <<g, n>> \in hist.ended \/ g \in hist.cut
    BY DEF CandidatesReachTheirPeer
  <2>1. PeerInv(g) /\ (g \notin hist.cut => GuestInv(g)) /\ pc[g] # None
    BY DEF SigInv, Part, None
  <2> QED
    BY <2>1 DEF PeerInv, GuestInv
<1> QED
  BY <1>1, SignallingInvariant, PTL

\* A peer whose channel never opened goes with its guest, unless an offer was waiting in
\* the guest's chain when the host was told, or the host had lost the server
\* (p2p_host.ts onMessage peer_left).
THEOREM PeersGoWithGuests == Spec => []PeersCleaned
<1>1. SigInv => PeersCleaned
  <2> SUFFICES ASSUME SigInv, NEW g \in Guests, pc[g] # None, ~pc[g].open, guest[g] = "gone",
                      Frame("peer_left", g, 0) \notin ToSet(toHub), g \notin hist.cut
               PROVE  g \in hist.late
    BY DEF PeersCleaned
  <2>1. Left(g) /\ toHub \in Seq(Frames)
    BY DEF SigInv, Part, GuestInv, Types
  <2>2. \A i \in 1..Len(toHub) : toHub[i] # Frame("peer_left", g, 0)
    BY <2>1 DEF ToSet
  <2> QED
    BY <2>1, <2>2 DEF Left
<1> QED
  BY <1>1, SignallingInvariant, PTL

=============================================================================
