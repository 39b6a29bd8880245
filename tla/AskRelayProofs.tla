--------------------------- MODULE AskRelayProofs ---------------------------
(***************************************************************************)
(* An answer to a question of the agent counts once, however often the     *)
(* relay's socket is replaced while answers are under way.                 *)
(*                                                                         *)
(* AnswersCount does not say why it is preserved: it looks at a quiet link *)
(* only, and the answer that counts may be anywhere. IInv says where       *)
(* questions and answers can be. A question reaches the hub once           *)
(* (QuestionInv), over the socket on which the relay waits (WaitInv); the  *)
(* hub reads sockets in their order, so that while a question waits over   *)
(* the present socket the hub's current one is either that one or one      *)
(* whose frames it has all read (SocketInv). A phone's answer therefore    *)
(* goes out over the socket the relay listens to, and stays in its queue   *)
(* until the relay takes it (WaitInv), in the epoch it asked in.           *)
(*                                                                         *)
(* CardsFollow looks at a quiet link too, and at a phone that has read all *)
(* its frames. Behind it are the frames under way. LinkInv: the question   *)
(* the relay waits for is with the hub, or on its way there, or its end is *)
(* on its way back (ReachInv), and one the hub has and the relay does not  *)
(* wait for is about to be handed back (HubKnows). ScreenInv: the hub's    *)
(* question is on every screen, or in a frame to it after which nothing    *)
(* takes it away (ShowInv), and any other has its retraction behind it     *)
(* (GoneInv).                                                              *)
(***************************************************************************)
EXTENDS AskRelay, SequenceTheorems, FiniteSetTheorems, TLAPS

\* Frames that name questions up to number n.
HubFrames(n) ==
    [k : {"register", "snapshot"}, epoch : Nat]
    \cup [k : {"ask"}, id : 1..n, epoch : Nat] \cup [k : {"cancel"}, id : 0..n]
RelayFrames(n) ==
    [k : {"registered"}, epoch : Nat] \cup [k : {"status"}, watched : BOOLEAN]
    \cup [k : {"claimed", "declined"}, id : 0..n]
    \cup [k : {"result"}, id : 0..n, epoch : Nat, from : Phones]
UpFrames(n) == [k : {"select"}, id : {0}] \cup [k : {"claim", "answer", "decline"}, id : 1..n]
DownFrames(n) ==
    [k : {"request"}, id : 1..n] \cup [k : {"retracted"}, id : 0..n]
    \cup [k : {"claim", "answer", "decline"}, id : 0..n, ok : BOOLEAN]

Relays == [sock : 0..(MaxMishaps + 1), registered : BOOLEAN, epoch : Nat, watched : BOOLEAN,
           ask : 0..MaxAsks, timer : {"none", "claim", "answer"}]
Questions == [id : 0..MaxAsks, epoch : Nat, claimed : BOOLEAN]
Hubs == [cur : 0..(MaxMishaps + 1), epoch : Nat, ask : Questions]
Cards == [conn : BOOLEAN, front : BOOLEAN, card : 0..MaxAsks]
Histories == [settled : [1..MaxAsks -> Phones \cup {"desktop", "open"}],
              told : [1..MaxAsks -> SUBSET Phones], asked : [1..MaxAsks -> Nat],
              away : SUBSET Phones, astray : SUBSET Phones]

Types ==
    /\ made \in [socks : 0..(MaxMishaps + 1), epochs : Nat, asks : 0..MaxAsks, mishaps : 0..MaxMishaps]
    /\ relay \in Relays /\ hub \in Hubs /\ hist \in Histories
    /\ toHub \in [Sockets -> Seq(HubFrames(made.asks))]
    /\ toRelay \in Seq(RelayFrames(made.asks))
    /\ gone \subseteq Sockets
    /\ selected \subseteq Phones /\ selecting \subseteq Phones /\ ghosts \subseteq Phones
    /\ phone \in [Phones -> Cards]
    /\ up \in [Phones -> Seq(UpFrames(made.asks))]
    /\ down \in [Phones -> Seq(DownFrames(made.asks))]

\* What has been given out so far, and how the relay's own state hangs together.
RelayInv ==
    /\ relay.sock \in {0, made.socks} /\ relay.epoch <= made.epochs /\ relay.ask <= made.asks
    /\ made.socks <= made.mishaps + (IF relay.sock = 0 THEN 0 ELSE 1)
    /\ relay.timer = "none" <=> relay.ask = 0
    /\ relay.sock = 0 => ~relay.registered /\ toRelay = <<>>
    /\ \A i \in 1..MaxAsks : hist.asked[i] <= made.epochs

\* What the hub has read of each socket: nothing of one whose first frame is still the
\* registration, and the registration of the current one only.
SocketInv ==
    /\ hub.cur <= made.socks /\ hub.cur \notin gone /\ (hub.cur = 0 => hub.ask = NoAsk)
    /\ \A c \in gone : c <= made.socks /\ c # relay.sock /\ toHub[c] = <<>>
    /\ \A c \in Sockets : c > made.socks \/ c < hub.cur => toHub[c] = <<>>
    /\ \A c \in Sockets : \A n \in DOMAIN toHub[c] :
           toHub[c][n].k = "register" <=> c # hub.cur /\ n = 1
    /\ relay.sock # 0 /\ relay.sock # hub.cur => toHub[relay.sock] # <<>>

\* A question reaches the hub once, and no phone has answered it by then.
QuestionInv ==
    /\ hub.ask.id <= made.asks
    /\ hub.ask.id # 0 => hist.told[hub.ask.id] = {} /\ hub.ask.epoch = hist.asked[hub.ask.id]
    /\ \A i \in 1..MaxAsks : i > made.asks => hist.told[i] = {}
    /\ \A c \in Sockets : \A n \in DOMAIN toHub[c] :
           toHub[c][n].k = "ask" =>
               /\ hist.told[toHub[c][n].id] = {}
               /\ toHub[c][n].id # hub.ask.id
               /\ toHub[c][n].epoch = hist.asked[toHub[c][n].id]
               /\ \A d \in Sockets : \A m \in DOMAIN toHub[d] :
                      toHub[d][m].k = "ask" /\ toHub[d][m].id = toHub[c][n].id => c = d /\ m = n

\* One answer at most is delivered, and the relay goes on with no other.
AnswerInv ==
    /\ \A i \in 1..MaxAsks :
           /\ hist.told[i] = {} \/ \E p \in Phones : hist.told[i] = {p}
           /\ hist.settled[i] \notin {"open", "desktop"} => hist.told[i] = {hist.settled[i]}
    /\ \A n \in DOMAIN toRelay :
           toRelay[n].k = "result" =>
               /\ toRelay[n].id # 0 /\ hist.told[toRelay[n].id] = {toRelay[n].from}
               /\ toRelay[n].epoch = hist.asked[toRelay[n].id]

\* While the relay waits in the epoch it asked in, over the socket it has: the question
\* is in its socket, or with the hub on that socket, and an answer that was delivered
\* is on its way back.
Waits == relay.ask # 0 /\ relay.sock # 0 /\ hist.asked[relay.ask] = relay.epoch
WaitInv ==
    Waits =>
        /\ hub.ask.id = relay.ask => hub.cur = relay.sock
        /\ \A c \in Sockets : \A n \in DOMAIN toHub[c] :
               toHub[c][n].k = "ask" /\ toHub[c][n].id = relay.ask => c = relay.sock
        /\ hist.told[relay.ask] # {} =>
               \E n \in DOMAIN toRelay : toRelay[n].k = "result" /\ toRelay[n].id = relay.ask

PhoneInv ==
    /\ selected \subseteq {p \in Phones : phone[p].conn}
    /\ \A p \in Phones : /\ phone[p].card <= made.asks
                         /\ ~phone[p].conn => up[p] = <<>> /\ down[p] = <<>>

IInv == Types /\ RelayInv /\ SocketInv /\ QuestionInv /\ AnswerInv /\ WaitInv /\ PhoneInv

-----------------------------------------------------------------------------
(* Sequences and frames.                                                   *)

LEMMA Joined ==
    ASSUME NEW S, NEW s \in Seq(S), NEW u \in Seq(S)
    PROVE  /\ s \o u \in Seq(S)
           /\ \A n \in DOMAIN s : n \in DOMAIN (s \o u) /\ (s \o u)[n] = s[n]
           /\ \A n \in DOMAIN (s \o u) :
                  \/ n \in DOMAIN s /\ (s \o u)[n] = s[n]
                  \/ n - Len(s) \in DOMAIN u /\ (s \o u)[n] = u[n - Len(s)]
OBVIOUS

LEMMA Appended ==
    ASSUME NEW S, NEW s \in Seq(S), NEW e \in S
    PROVE  /\ Append(s, e) \in Seq(S) /\ Append(s, e) # <<>>
           /\ \A n \in DOMAIN s : n \in DOMAIN Append(s, e) /\ Append(s, e)[n] = s[n]
           /\ \A n \in DOMAIN Append(s, e) :
                 \/ n \in DOMAIN s /\ Append(s, e)[n] = s[n]
                 \/ n = Len(s) + 1 /\ Append(s, e)[n] = e
           /\ Len(s) + 1 \in DOMAIN Append(s, e) /\ Append(s, e)[Len(s) + 1] = e
           /\ Len(s) \in Nat /\ (Len(s) = 0 <=> s = <<>>) /\ DOMAIN s = 1..Len(s)
OBVIOUS

LEMMA TailLeft ==
    ASSUME NEW S, NEW s \in Seq(S), s # <<>>
    PROVE  /\ Tail(s) \in Seq(S) /\ Head(s) = s[1] /\ 1 \in DOMAIN s /\ s[1] \in S
           /\ \A n \in DOMAIN Tail(s) : /\ n \in Nat /\ n + 1 \in DOMAIN s /\ n + 1 # 1
                                       /\ Tail(s)[n] = s[n + 1]
           /\ \A n \in DOMAIN s : n = 1 \/ (n - 1 \in DOMAIN Tail(s) /\ Tail(s)[n - 1] = s[n])
OBVIOUS

LEMMA FramesGrow ==
    ASSUME NEW m \in Nat, NEW n \in Nat, m <= n
    PROVE  /\ HubFrames(m) \subseteq HubFrames(n) /\ RelayFrames(m) \subseteq RelayFrames(n)
           /\ UpFrames(m) \subseteq UpFrames(n) /\ DownFrames(m) \subseteq DownFrames(n)
<1>1. 1..m \subseteq 1..n /\ 0..m \subseteq 0..n
  OBVIOUS
<1>2. HubFrames(m) \subseteq HubFrames(n)
  BY <1>1 DEF HubFrames
<1>3. RelayFrames(m) \subseteq RelayFrames(n)
  BY <1>1 DEF RelayFrames
<1>4. UpFrames(m) \subseteq UpFrames(n) /\ DownFrames(m) \subseteq DownFrames(n)
  BY <1>1 DEF UpFrames, DownFrames
<1> QED
  BY <1>2, <1>3, <1>4

\* The fields the invariant looks at.
LEMMA Fields ==
    ASSUME Types
    PROVE  /\ made.socks \in Nat /\ made.epochs \in Nat /\ made.asks \in Nat /\ made.mishaps \in Nat
           /\ made.asks <= MaxAsks /\ made.mishaps <= MaxMishaps /\ made.socks <= MaxMishaps + 1
           /\ relay.sock \in Nat /\ relay.epoch \in Nat /\ relay.ask \in 0..MaxAsks
           /\ hub.cur \in Nat /\ hub.epoch \in Nat /\ hub.ask \in Questions
           /\ hub.ask.id \in 0..MaxAsks /\ hub.ask.epoch \in Nat
           /\ hist.told \in [1..MaxAsks -> SUBSET Phones]
           /\ hist.settled \in [1..MaxAsks -> Phones \cup {"desktop", "open"}]
           /\ hist.asked \in [1..MaxAsks -> Nat]
           /\ MaxAsks \in Nat /\ MaxMishaps \in Nat
BY AskAssumption DEF Types, Relays, Hubs, Histories, Questions

LEMMA HubFramesOf ==
    ASSUME NEW n \in Nat, NEW f \in HubFrames(n)
    PROVE  /\ f.k \in {"register", "snapshot", "ask", "cancel"}
           /\ f.k \in {"register", "snapshot", "ask"} => f.epoch \in Nat
           /\ f.k \in {"ask", "cancel"} => f.id \in 0..n
           /\ f.k = "ask" => f.id # 0
BY DEF HubFrames

LEMMA AsksNumbered ==
    ASSUME Types
    PROVE  \A c \in Sockets : \A n \in DOMAIN toHub[c] :
               /\ toHub[c][n] \in HubFrames(made.asks)
               /\ toHub[c][n].k = "ask" => toHub[c][n].id \in 1..made.asks
<1> SUFFICES ASSUME NEW c \in Sockets, NEW n \in DOMAIN toHub[c]
             PROVE  /\ toHub[c][n] \in HubFrames(made.asks)
                    /\ toHub[c][n].k = "ask" => toHub[c][n].id \in 1..made.asks
  OBVIOUS
<1>1. toHub[c] \in Seq(HubFrames(made.asks)) /\ made.asks \in Nat
  BY Fields DEF Types
<1>2. toHub[c][n] \in HubFrames(made.asks)
  BY <1>1
<1> QED
  BY <1>1, <1>2, HubFramesOf

-----------------------------------------------------------------------------
(* What only phones and connections do.                                    *)

\* Questions, answers and sockets are as they were.
Quiet ==
    /\ UNCHANGED <<relay, toRelay, toHub, hub, gone, made>>
    /\ hist'.told = hist.told /\ hist'.settled = hist.settled /\ hist'.asked = hist.asked

LEMMA QuietKeeps ==
    ASSUME IInv, Quiet
    PROVE  RelayInv' /\ SocketInv' /\ QuestionInv' /\ AnswerInv' /\ WaitInv'
<1>1. RelayInv /\ SocketInv /\ QuestionInv /\ AnswerInv /\ WaitInv
  BY DEF IInv
<1>2. RelayInv' /\ SocketInv'
  BY <1>1 DEF Quiet, RelayInv, SocketInv
<1>3. QuestionInv'
  BY <1>1 DEF Quiet, QuestionInv
<1>4. AnswerInv'
  BY <1>1 DEF Quiet, AnswerInv
<1>5. WaitInv'
  BY <1>1 DEF Quiet, WaitInv, Waits
<1> QED
  BY <1>2, <1>3, <1>4, <1>5

LEMMA Sending ==
    ASSUME Types, NEW p \in Phones, NEW f \in UpFrames(made.asks), Send(p, f)
    PROVE  /\ up' \in [Phones -> Seq(UpFrames(made.asks))]
           /\ \A q \in Phones : q # p => up'[q] = up[q]
<1>1. Append(up[p], f) \in Seq(UpFrames(made.asks))
  BY DEF Types
<1> QED
  BY <1>1 DEF Send, Types

LEMMA PhoneFields ==
    ASSUME Types, PhoneInv, NEW p \in Phones
    PROVE  /\ phone[p] \in Cards /\ phone[p].card \in 0..made.asks
           /\ Frame("select", 0) \in UpFrames(made.asks)
           /\ phone[p].card # 0 =>
                 \A k \in {"claim", "answer", "decline"} : Frame(k, phone[p].card) \in UpFrames(made.asks)
<1>1. phone[p] \in Cards /\ phone[p].card \in 0..made.asks /\ made.asks \in Nat
  BY Fields DEF Types, PhoneInv, Cards
<1> QED
  BY <1>1 DEF Frame, UpFrames

LEMMA PhoneConnectsKeeps ==
    ASSUME IInv, NEW p \in Phones, PhoneConnects(p)
    PROVE  IInv'
<1>1. Types /\ PhoneInv /\ Quiet /\ UNCHANGED <<selected, selecting, ghosts, down, hist>>
  BY DEF IInv, PhoneConnects, Quiet, relayVars, hubVars
<1>2. phone' = [phone EXCEPT ![p].conn = TRUE] /\ Send(p, Frame("select", 0)) /\ phone[p] \in Cards
  BY <1>1, PhoneFields DEF PhoneConnects
<1>3. up' \in [Phones -> Seq(UpFrames(made.asks))] /\ \A q \in Phones : q # p => up'[q] = up[q]
  BY <1>1, <1>2, PhoneFields, Sending
<1>4. /\ phone' \in [Phones -> Cards] /\ phone'[p].conn /\ phone'[p].card = phone[p].card
      /\ \A q \in Phones : q # p => phone'[q] = phone[q]
  BY <1>1, <1>2 DEF Types, Cards
<1>5. Types'
  BY <1>1, <1>3, <1>4 DEF Types, Quiet
<1>6. PhoneInv'
  BY <1>1, <1>3, <1>4 DEF PhoneInv, Quiet
<1> QED
  BY <1>5, <1>6, QuietKeeps, <1>1 DEF IInv

LEMMA PhoneReselectsKeeps ==
    ASSUME IInv, NEW p \in Phones, PhoneReselects(p)
    PROVE  IInv'
<1>1. Types /\ PhoneInv /\ Quiet /\ UNCHANGED <<selected, selecting, ghosts, phone, down, hist>>
  BY DEF IInv, PhoneReselects, Quiet, relayVars, hubVars
<1>2. phone[p].conn /\ Send(p, Frame("select", 0))
  BY DEF PhoneReselects
<1>3. up' \in [Phones -> Seq(UpFrames(made.asks))] /\ \A q \in Phones : q # p => up'[q] = up[q]
  BY <1>1, <1>2, PhoneFields, Sending
<1>4. Types'
  BY <1>1, <1>3 DEF Types, Quiet
<1>5. PhoneInv'
  BY <1>1, <1>2, <1>3 DEF PhoneInv, Quiet
<1> QED
  BY <1>4, <1>5, QuietKeeps, <1>1 DEF IInv

LEMMA PhoneTurnsKeeps ==
    ASSUME IInv, NEW p \in Phones, PhoneTurns(p)
    PROVE  IInv'
<1>1. Types /\ PhoneInv /\ Quiet /\ UNCHANGED <<selected, selecting, ghosts, down, hist>>
  BY DEF IInv, PhoneTurns, Quiet, relayVars, hubVars
<1>2. /\ phone' = [phone EXCEPT ![p].front = ~@] /\ phone[p] \in Cards
      /\ \/ phone[p].conn /\ phone[p].card # 0 /\ Send(p, Frame("claim", phone[p].card))
         \/ UNCHANGED up
  BY <1>1, PhoneFields DEF PhoneTurns
<1>3. /\ up' \in [Phones -> Seq(UpFrames(made.asks))] /\ \A q \in Phones : q # p => up'[q] = up[q]
      /\ ~phone[p].conn => up'[p] = up[p]
  BY <1>1, <1>2, PhoneFields, Sending DEF Types
<1>4. /\ phone' \in [Phones -> Cards] /\ phone'[p].conn = phone[p].conn /\ phone'[p].card = phone[p].card
      /\ \A q \in Phones : q # p => phone'[q] = phone[q]
  BY <1>1, <1>2 DEF Types, Cards
<1>5. Types'
  BY <1>1, <1>3, <1>4 DEF Types, Quiet
<1>6. PhoneInv'
  BY <1>1, <1>3, <1>4 DEF PhoneInv, Quiet
<1> QED
  BY <1>5, <1>6, QuietKeeps, <1>1 DEF IInv

LEMMA PhoneActsKeeps ==
    ASSUME IInv, NEW p \in Phones, PhoneActs(p)
    PROVE  IInv'
<1>1. Types /\ PhoneInv /\ Quiet /\ UNCHANGED <<selected, selecting, ghosts, down, hist>>
  BY DEF IInv, PhoneActs, Quiet, relayVars, hubVars
<1>2. CASE phone[p].conn /\ phone[p].card # 0 /\ UNCHANGED phone
           /\ \E k \in {"answer", "decline"} : Send(p, Frame(k, phone[p].card))
  <2>1. up' \in [Phones -> Seq(UpFrames(made.asks))] /\ \A q \in Phones : q # p => up'[q] = up[q]
    BY <1>1, <1>2, PhoneFields, Sending
  <2>2. Types'
    BY <1>1, <1>2, <2>1 DEF Types, Quiet
  <2>3. PhoneInv'
    BY <1>1, <1>2, <2>1 DEF PhoneInv, Quiet
  <2> QED
    BY <2>2, <2>3, QuietKeeps, <1>1 DEF IInv
<1>3. CASE ~phone[p].conn /\ UNCHANGED up /\ phone' = [phone EXCEPT ![p].card = 0]
  <2>1. 0 \in 0..MaxAsks /\ 0 <= made.asks
    BY <1>1, Fields
  <2>2. /\ phone' \in [Phones -> Cards] /\ phone'[p].conn = phone[p].conn /\ phone'[p].card = 0
        /\ \A q \in Phones : q # p => phone'[q] = phone[q]
    BY <1>1, <1>3, <2>1, PhoneFields DEF Types, Cards
  <2>3. Types'
    BY <1>1, <1>3, <2>2 DEF Types, Quiet
  <2>4. PhoneInv'
    BY <1>1, <1>3, <2>1, <2>2 DEF PhoneInv, Quiet
  <2> QED
    BY <2>3, <2>4, QuietKeeps, <1>1 DEF IInv
<1> QED
  BY <1>2, <1>3 DEF PhoneActs

LEMMA PhoneDropsKeeps ==
    ASSUME IInv, NEW p \in Phones, PhoneDrops(p)
    PROVE  IInv'
<1>1. /\ phone[p].conn /\ made' = [made EXCEPT !.mishaps = @ + 1] /\ made.mishaps < MaxMishaps
      /\ \E n \in {phone[p].card, 0} : phone' = [phone EXCEPT ![p].conn = FALSE, ![p].card = n]
      /\ up' = [up EXCEPT ![p] = <<>>] /\ down' = [down EXCEPT ![p] = <<>>]
      /\ selected' = selected \ {p} /\ ghosts' \subseteq ghosts \cup {p}
      /\ \E S \in SUBSET Phones : hist' = [hist EXCEPT !.away = S]
      /\ UNCHANGED <<relay, toRelay, toHub, hub, gone, selecting>>
  <2>1. hist.away \subseteq Phones /\ hist = [hist EXCEPT !.away = hist.away]
    BY DEF IInv, Types, Histories
  <2>2. \E S \in SUBSET Phones : hist' = [hist EXCEPT !.away = S]
    <3>1. hist' = hist \/ hist' = [hist EXCEPT !.away = hist.away \cup {p}]
      BY DEF PhoneDrops
    <3>2. hist.away \cup {p} \in SUBSET Phones
      BY <2>1
    <3> QED
      BY <2>1, <3>1, <3>2
  <2>3. \E n \in {phone[p].card, 0} : phone' = [phone EXCEPT ![p].conn = FALSE, ![p].card = n]
    BY DEF PhoneDrops
  <2> QED
    BY <2>2, <2>3 DEF PhoneDrops, Mishap, relayVars
<1>2. Types /\ RelayInv /\ SocketInv /\ QuestionInv /\ AnswerInv /\ WaitInv /\ PhoneInv
  BY DEF IInv
<1>3. /\ made.mishaps \in 0..MaxMishaps /\ made'.mishaps = made.mishaps + 1 /\ made'.mishaps \in 0..MaxMishaps
      /\ made'.socks = made.socks /\ made'.epochs = made.epochs /\ made'.asks = made.asks
      /\ made' \in [socks : 0..(MaxMishaps + 1), epochs : Nat, asks : 0..MaxAsks, mishaps : 0..MaxMishaps]
  <2>1. /\ made \in [socks : 0..(MaxMishaps + 1), epochs : Nat, asks : 0..MaxAsks, mishaps : 0..MaxMishaps]
        /\ made.mishaps \in 0..MaxMishaps /\ MaxMishaps \in Nat
    BY <1>2, AskAssumption DEF Types
  <2>2. made.mishaps + 1 \in 0..MaxMishaps
    BY <1>1, <2>1
  <2> QED
    BY <1>1, <2>1, <2>2
<1>4. /\ hist' \in Histories
      /\ hist'.told = hist.told /\ hist'.settled = hist.settled /\ hist'.asked = hist.asked
  BY <1>1, <1>2 DEF Types, Histories
<1>5. /\ phone' \in [Phones -> Cards] /\ phone'[p].card \in 0..made.asks
      /\ \A q \in Phones : q # p => phone'[q] = phone[q]
  <2>1. PICK n \in {phone[p].card, 0} : phone' = [phone EXCEPT ![p].conn = FALSE, ![p].card = n]
    BY <1>1
  <2>2. phone[p] \in Cards /\ n \in 0..made.asks /\ n \in 0..MaxAsks
    BY <1>2, Fields, PhoneFields
  <2> QED
    BY <1>2, <2>1, <2>2 DEF Types, Cards
<1>6. /\ up' \in [Phones -> Seq(UpFrames(made.asks))] /\ down' \in [Phones -> Seq(DownFrames(made.asks))]
      /\ up'[p] = <<>> /\ down'[p] = <<>>
      /\ \A q \in Phones : q # p => up'[q] = up[q] /\ down'[q] = down[q]
  <2>1. <<>> \in Seq(UpFrames(made.asks)) /\ <<>> \in Seq(DownFrames(made.asks))
    OBVIOUS
  <2> QED
    BY <1>1, <1>2, <2>1 DEF Types
<1>7. Types'
  BY <1>1, <1>2, <1>3, <1>4, <1>5, <1>6 DEF Types
<1>8. RelayInv'
  BY <1>1, <1>2, <1>3, <1>4, Fields, SMTT(30) DEF RelayInv
<1>9. SocketInv' /\ QuestionInv'
  <2>1. SocketInv'
    BY <1>1, <1>2, <1>3 DEF SocketInv
  <2> QED
    BY <1>1, <1>2, <1>3, <1>4, <2>1 DEF QuestionInv
<1>10. AnswerInv'
  BY <1>1, <1>2, <1>3, <1>4 DEF AnswerInv
<1>11. WaitInv'
  BY <1>1, <1>2, <1>3, <1>4 DEF WaitInv, Waits
<1>12. PhoneInv'
  BY <1>1, <1>2, <1>3, <1>5, <1>6 DEF PhoneInv
<1> QED
  BY <1>7, <1>8, <1>9, <1>10, <1>11, <1>12 DEF IInv

LEMMA PhoneHearsKeeps ==
    ASSUME IInv, NEW p \in Phones, PhoneHears(p)
    PROVE  IInv'
<1> DEFINE f == Head(down[p])
<1>1. /\ Types /\ PhoneInv /\ down[p] # <<>> /\ down' = [down EXCEPT ![p] = Tail(@)]
      /\ UNCHANGED <<relay, toRelay, toHub, hub, gone, made, selected, selecting, ghosts>>
  BY DEF IInv, PhoneHears, relayVars, hubVars
<1>2. down[p] \in Seq(DownFrames(made.asks)) /\ up[p] \in Seq(UpFrames(made.asks))
  BY <1>1 DEF Types
<1>3. f \in DownFrames(made.asks) /\ Tail(down[p]) \in Seq(DownFrames(made.asks))
  BY <1>1, <1>2, TailLeft
<1>4. made.asks \in Nat /\ made.asks <= MaxAsks /\ phone[p] \in Cards /\ phone[p].conn
  BY <1>1, Fields, PhoneFields DEF PhoneInv
<1>5. f.id \in 0..made.asks /\ f.id \in 0..MaxAsks
  <2>1. 1..made.asks \subseteq 0..made.asks /\ 0..made.asks \subseteq 0..MaxAsks
    BY <1>1, <1>4, Fields, SMTT(30)
  <2>2. f.id \in 0..made.asks
    BY <1>3, <2>1 DEF DownFrames
  <2> QED
    BY <2>1, <2>2
<1>6. PICK n \in {f.id, 0, phone[p].card} : phone' = [phone EXCEPT ![p].card = n]
  <2>1. phone = [phone EXCEPT ![p].card = phone[p].card]
    BY <1>1, <1>4 DEF Types, Cards
  <2> QED
    BY <2>1 DEF PhoneHears, PhoneShows
<1>7. /\ phone' \in [Phones -> Cards] /\ phone'[p].card \in 0..made.asks /\ phone'[p].conn
      /\ \A q \in Phones : q # p => phone'[q] = phone[q]
  <2>1. n \in 0..made.asks /\ n \in 0..MaxAsks
    <3>1. phone[p].card \in 0..made.asks /\ 0 \in 0..made.asks /\ MaxAsks \in Nat
      BY <1>1, <1>4, PhoneFields, Fields
    <3>2. n \in 0..made.asks
      BY <1>5, <1>6, <3>1
    <3> QED
      BY <3>1, <3>2, <1>4
  <2>2. [phone[p] EXCEPT !.card = n] \in Cards /\ [phone[p] EXCEPT !.card = n].card = n
        /\ [phone[p] EXCEPT !.card = n].conn = phone[p].conn
    BY <1>4, <2>1 DEF Cards
  <2>3. phone' = [phone EXCEPT ![p] = [phone[p] EXCEPT !.card = n]] /\ phone \in [Phones -> Cards]
    BY <1>1, <1>6 DEF Types
  <2> QED
    BY <1>4, <2>1, <2>2, <2>3
<1>8. down' \in [Phones -> Seq(DownFrames(made.asks))] /\ \A q \in Phones : q # p => down'[q] = down[q]
  BY <1>1, <1>3 DEF Types
<1>9. up' \in [Phones -> Seq(UpFrames(made.asks))] /\ \A q \in Phones : q # p => up'[q] = up[q]
  <2>1. CASE UNCHANGED up
    BY <1>1, <2>1 DEF Types
  <2>2. CASE f.k = "request" /\ Send(p, Frame("claim", f.id))
    <3>1. f.id \in 1..made.asks
      BY <1>3, <2>2 DEF DownFrames
    <3>2. Frame("claim", f.id) \in UpFrames(made.asks)
      BY <3>1 DEF Frame, UpFrames
    <3> QED
      BY <1>1, <2>2, <3>2, Sending
  <2> QED
    BY <2>1, <2>2 DEF PhoneHears
<1>10. /\ hist' \in Histories
       /\ hist'.told = hist.told /\ hist'.settled = hist.settled /\ hist'.asked = hist.asked
  BY <1>1 DEF PhoneHears, Types, Histories
<1>11. Quiet
  BY <1>1, <1>10 DEF Quiet
<1>12. Types'
  BY <1>1, <1>7, <1>8, <1>9, <1>10 DEF Types
<1>13. PhoneInv'
  <2>1. selected' \subseteq {q \in Phones : phone'[q].conn}
    BY <1>1, <1>7 DEF PhoneInv
  <2>2. ASSUME NEW q \in Phones
        PROVE  phone'[q].card <= made'.asks /\ (~phone'[q].conn => up'[q] = <<>> /\ down'[q] = <<>>)
    <3>1. CASE q = p
      BY <1>1, <1>4, <1>7, <3>1
    <3>2. CASE q # p
      BY <1>1, <1>7, <1>8, <1>9, <3>2 DEF PhoneInv
    <3> QED
      BY <3>1, <3>2
  <2> QED
    BY <2>1, <2>2 DEF PhoneInv
<1> QED
  BY <1>11, <1>12, <1>13, QuietKeeps DEF IInv

-----------------------------------------------------------------------------
(* What the hub tells.                                                     *)

\* More frames for the relay, none of them an answer, and none if it is not there.
MoreToRelay ==
    \E u \in Seq(RelayFrames(made.asks)) :
        /\ toRelay' = toRelay \o u /\ (relay.sock = 0 => u = <<>>)
        /\ \A n \in DOMAIN u : u[n].k # "result"

LEMMA NoMoreToRelay ==
    ASSUME Types, UNCHANGED toRelay
    PROVE  MoreToRelay
<1>1. <<>> \in Seq(RelayFrames(made.asks)) /\ toRelay \o <<>> = toRelay
  BY DEF Types
<1>2. \A n \in DOMAIN <<>> : <<>>[n].k # "result"
  OBVIOUS
<1> QED
  BY <1>1, <1>2 DEF MoreToRelay

LEMMA HeardMore ==
    ASSUME Types, NEW c, NEW u \in Seq(RelayFrames(made.asks)), toRelay' = toRelay \o Heard(c, u),
           \A n \in DOMAIN u : u[n].k # "result"
    PROVE  MoreToRelay
<1>1. <<>> \in Seq(RelayFrames(made.asks)) /\ DOMAIN <<>> = {}
  OBVIOUS
<1>2. Heard(c, u) = <<>> \/ (Heard(c, u) = u /\ relay.sock # 0)
  BY DEF Heard
<1> QED
  BY <1>1, <1>2 DEF MoreToRelay

LEMMA MoreKeeps ==
    ASSUME Types, RelayInv, MoreToRelay
    PROVE  /\ toRelay' \in Seq(RelayFrames(made.asks))
           /\ relay.sock = 0 => toRelay' = <<>>
           /\ \A n \in DOMAIN toRelay : n \in DOMAIN toRelay' /\ toRelay'[n] = toRelay[n]
           /\ \A n \in DOMAIN toRelay' :
                  toRelay'[n].k = "result" => n \in DOMAIN toRelay /\ toRelay'[n] = toRelay[n]
<1>1. PICK u \in Seq(RelayFrames(made.asks)) :
          /\ toRelay' = toRelay \o u /\ (relay.sock = 0 => u = <<>>)
          /\ \A n \in DOMAIN u : u[n].k # "result"
  BY DEF MoreToRelay
<1>2. toRelay \in Seq(RelayFrames(made.asks))
  BY DEF Types
<1>3. relay.sock = 0 => toRelay' = <<>>
  BY <1>1 DEF RelayInv
<1>4. /\ toRelay' \in Seq(RelayFrames(made.asks))
      /\ \A n \in DOMAIN toRelay : n \in DOMAIN toRelay' /\ toRelay'[n] = toRelay[n]
      /\ \A n \in DOMAIN toRelay' :
            \/ n \in DOMAIN toRelay /\ toRelay'[n] = toRelay[n]
            \/ n - Len(toRelay) \in DOMAIN u /\ toRelay'[n] = u[n - Len(toRelay)]
  <2>1. /\ toRelay \o u \in Seq(RelayFrames(made.asks))
        /\ \A n \in DOMAIN toRelay : n \in DOMAIN (toRelay \o u) /\ (toRelay \o u)[n] = toRelay[n]
        /\ \A n \in DOMAIN (toRelay \o u) :
              \/ n \in DOMAIN toRelay /\ (toRelay \o u)[n] = toRelay[n]
              \/ n - Len(toRelay) \in DOMAIN u /\ (toRelay \o u)[n] = u[n - Len(toRelay)]
    BY <1>2, Joined, Zenon
  <2> QED
    BY <1>1, <2>1, Zenon
<1> QED
  BY <1>1, <1>3, <1>4

\* The hub's question stays, or goes.
HubKeeps ==
    /\ hub'.cur = hub.cur
    /\ \/ hub'.ask = NoAsk
       \/ hub' = hub
       \/ hub.cur # 0 /\ hub'.ask.id = hub.ask.id /\ hub'.ask.epoch = hub.ask.epoch

\* Nothing else happens to questions and sockets.
LEMMA MoreIsQuiet ==
    ASSUME IInv, MoreToRelay, HubKeeps, UNCHANGED <<relay, toHub, gone, made>>,
           hist'.told = hist.told, hist'.settled = hist.settled, hist'.asked = hist.asked
    PROVE  RelayInv' /\ SocketInv' /\ QuestionInv' /\ AnswerInv' /\ WaitInv'
<1>1. Types /\ RelayInv /\ SocketInv /\ QuestionInv /\ AnswerInv /\ WaitInv
  BY DEF IInv
<1>2. /\ relay.sock = 0 => toRelay' = <<>>
      /\ \A n \in DOMAIN toRelay : n \in DOMAIN toRelay' /\ toRelay'[n] = toRelay[n]
      /\ \A n \in DOMAIN toRelay' :
            toRelay'[n].k = "result" => n \in DOMAIN toRelay /\ toRelay'[n] = toRelay[n]
  BY <1>1, MoreKeeps
<1>3. /\ hub'.ask.id \in {0, hub.ask.id}
      /\ hub'.ask.id # 0 => hub'.ask.id = hub.ask.id /\ hub'.ask.epoch = hub.ask.epoch
      /\ hub'.cur = 0 => hub'.ask = NoAsk
  BY <1>1 DEF HubKeeps, SocketInv, NoAsk
<1>4. \A c \in Sockets : \A n \in DOMAIN toHub[c] : toHub[c][n].k = "ask" => toHub[c][n].id # 0
  BY <1>1, AsksNumbered
<1>5. RelayInv' /\ SocketInv'
  BY <1>1, <1>2, <1>3 DEF RelayInv, SocketInv, HubKeeps
<1>6. QuestionInv'
  BY <1>1, <1>3, <1>4, <1>5, Fields, SMTT(90) DEF QuestionInv
<1>7. AnswerInv'
  BY <1>1, <1>2 DEF AnswerInv
<1>8. WaitInv'
  BY <1>1, <1>2, <1>3 DEF WaitInv, Waits, HubKeeps
<1> QED
  BY <1>5, <1>6, <1>7, <1>8

LEMMA Telling ==
    ASSUME Types, PhoneInv, NEW u \in Seq(DownFrames(made.asks)), NEW p,
           NEW v \in Seq(DownFrames(made.asks)),
           Tell(u, p, v), UNCHANGED <<selected, phone>>,
           p \in Phones /\ v # <<>> => phone[p].conn
    PROVE  /\ down' \in [Phones -> Seq(DownFrames(made.asks))]
           /\ \A q \in Phones : ~phone[q].conn => down'[q] = <<>>
<1>1. <<>> \in Seq(DownFrames(made.asks)) /\ <<>> \o <<>> = <<>>
  OBVIOUS
<1>2. ASSUME NEW q \in Phones
      PROVE  /\ down[q] \o (IF q \in selected THEN u ELSE <<>>) \o (IF q = p THEN v ELSE <<>>)
                    \in Seq(DownFrames(made.asks))
             /\ ~phone[q].conn => down[q] \o (IF q \in selected THEN u ELSE <<>>)
                                         \o (IF q = p THEN v ELSE <<>>) = <<>>
  <2>1. /\ down[q] \in Seq(DownFrames(made.asks))
        /\ (IF q \in selected THEN u ELSE <<>>) \in Seq(DownFrames(made.asks))
        /\ (IF q = p THEN v ELSE <<>>) \in Seq(DownFrames(made.asks))
    BY <1>1 DEF Types
  <2>2. ~phone[q].conn => /\ down[q] = <<>> /\ q \notin selected
                         /\ (IF q = p THEN v ELSE <<>>) = <<>>
    BY DEF PhoneInv
  <2> QED
    BY <1>1, <2>1, <2>2, ConcatProperties
<1> QED
  BY <1>2 DEF Tell

LEMMA Replying ==
    ASSUME Types, PhoneInv, NEW p \in Phones, phone[p].conn, UNCHANGED phone,
           NEW v \in Seq(DownFrames(made.asks)), down' = [down EXCEPT ![p] = @ \o v]
    PROVE  /\ down' \in [Phones -> Seq(DownFrames(made.asks))]
           /\ \A q \in Phones : ~phone[q].conn => down'[q] = <<>>
<1>1. down[p] \o v \in Seq(DownFrames(made.asks))
  BY Joined DEF Types
<1> QED
  BY <1>1 DEF Types, PhoneInv

LEMMA OneFrame ==
    ASSUME NEW S, NEW e \in S
    PROVE  <<e>> \in Seq(S) /\ <<e>>[1] = e /\ \A n \in DOMAIN <<e>> : n = 1
OBVIOUS

\* What the hub tells its phones about its question.
LEMMA HubsFrames ==
    ASSUME Types, QuestionInv
    PROVE  Retraction \in Seq(DownFrames(made.asks)) /\ Republished \in Seq(DownFrames(made.asks))
<1>1. hub.ask.id \in 0..made.asks
  BY Fields DEF QuestionInv
<1>2. [k |-> "retracted", id |-> hub.ask.id] \in DownFrames(made.asks)
  BY <1>1 DEF DownFrames
<1>3. hub.ask.id # 0 => [k |-> "request", id |-> hub.ask.id] \in DownFrames(made.asks)
  BY <1>1 DEF DownFrames
<1>4. <<>> \in Seq(DownFrames(made.asks))
  OBVIOUS
<1>5. Retraction \in Seq(DownFrames(made.asks))
  BY <1>2, <1>4, OneFrame DEF Retraction
<1>6. Republished \in Seq(DownFrames(made.asks))
  BY <1>3, <1>4, OneFrame DEF Republished, Request
<1> QED
  BY <1>5, <1>6

LEMMA HeardOne ==
    ASSUME Types, NEW c, NEW f \in RelayFrames(made.asks), f.k # "result",
           toRelay' = toRelay \o Heard(c, <<f>>)
    PROVE  MoreToRelay
BY OneFrame, HeardMore

LEMMA Pushing ==
    ASSUME Types, NEW watchers, Push(watchers)
    PROVE  MoreToRelay
<1>1. Status(watchers) \in RelayFrames(made.asks) /\ Status(watchers).k # "result"
  BY DEF Status, RelayFrames
<1> QED
  BY <1>1, HeardOne DEF Push

LEMMA GhostGoesKeeps ==
    ASSUME IInv, NEW p \in Phones, GhostGoes(p)
    PROVE  IInv'
<1>1. /\ Types /\ RelayInv /\ PhoneInv /\ ghosts' \subseteq ghosts
      /\ UNCHANGED <<relay, toHub, hub, gone, selected, selecting, phone, up, down, made, hist>>
  BY DEF IInv, GhostGoes, phoneVars
<1>2. MoreToRelay
  BY <1>1, Pushing, NoMoreToRelay DEF GhostGoes
<1>3. RelayInv' /\ SocketInv' /\ QuestionInv' /\ AnswerInv' /\ WaitInv'
  BY <1>1, <1>2, MoreIsQuiet DEF HubKeeps
<1>4. Types'
  BY <1>1, <1>2, MoreKeeps DEF Types
<1>5. PhoneInv'
  BY <1>1 DEF PhoneInv
<1> QED
  BY <1>3, <1>4, <1>5 DEF IInv

LEMMA HubSelectDoneKeeps ==
    ASSUME IInv, NEW p \in Phones, HubSelectDone(p)
    PROVE  IInv'
<1>1. /\ Types /\ RelayInv /\ QuestionInv /\ PhoneInv /\ selecting' \subseteq selecting
      /\ UNCHANGED <<relay, toHub, hub, gone, selected, ghosts, phone, up, made, hist>>
  BY DEF IInv, HubSelectDone, phoneVars
<1>2. MoreToRelay
  BY <1>1, Pushing DEF HubSelectDone
<1>3. RelayInv' /\ SocketInv' /\ QuestionInv' /\ AnswerInv' /\ WaitInv'
  BY <1>1, <1>2, MoreIsQuiet DEF HubKeeps
<1>4. /\ down' \in [Phones -> Seq(DownFrames(made.asks))]
      /\ \A q \in Phones : ~phone[q].conn => down'[q] = <<>>
  <2>1. <<>> \in Seq(DownFrames(made.asks)) /\ Republished \in Seq(DownFrames(made.asks))
    BY <1>1, HubsFrames
  <2>2. Tell(Republished, Nobody, <<>>)
    BY DEF HubSelectDone
  <2> QED
    BY <1>1, <2>1, <2>2, Telling
<1>5. Types'
  BY <1>1, <1>2, <1>4, MoreKeeps DEF Types
<1>6. PhoneInv'
  BY <1>1, <1>4 DEF PhoneInv
<1> QED
  BY <1>3, <1>5, <1>6 DEF IInv

\* The answer a phone gives to the hub's question. It is the first, and the relay, if
\* it still waits over this socket, has the answer in its queue.
LEMMA AnswersKeeps ==
    ASSUME IInv, NEW p \in Phones, NEW i \in 1..made.asks, hub.ask.id = i, hub.cur # 0,
           toRelay' = toRelay \o Heard(hub.cur,
                          <<[k |-> "result", id |-> i, epoch |-> hub.ask.epoch, from |-> p]>>),
           hub' = [hub EXCEPT !.ask = NoAsk],
           hist' = [hist EXCEPT !.told[i] = @ \cup {p}],
           UNCHANGED <<relay, toHub, gone, made>>
    PROVE  /\ RelayInv' /\ SocketInv' /\ QuestionInv' /\ AnswerInv' /\ WaitInv'
           /\ toRelay' \in Seq(RelayFrames(made.asks)) /\ hub' \in Hubs /\ hist' \in Histories
<1> DEFINE r == [k |-> "result", id |-> i, epoch |-> hub.ask.epoch, from |-> p]
<1> DEFINE u == Heard(hub.cur, <<r>>)
<1>1. Types /\ RelayInv /\ SocketInv /\ QuestionInv /\ AnswerInv /\ WaitInv
  BY DEF IInv
<1>2. made.asks \in Nat /\ made.asks <= MaxAsks /\ i \in 1..MaxAsks /\ i # 0 /\ hub.ask.epoch \in Nat
  BY <1>1, Fields
<1>3. hist.told[i] = {} /\ hub.ask.epoch = hist.asked[i]
  BY <1>1, <1>2 DEF QuestionInv
<1>4. /\ hist' \in Histories /\ hist'.asked = hist.asked /\ hist'.settled = hist.settled
      /\ hist'.told[i] = {p} /\ \A j \in 1..MaxAsks : j # i => hist'.told[j] = hist.told[j]
  <2>1. hist.told \in [1..MaxAsks -> SUBSET Phones] /\ hist \in Histories
    BY <1>1, Fields DEF Types
  <2>2. [hist.told EXCEPT ![i] = @ \cup {p}] \in [1..MaxAsks -> SUBSET Phones]
    BY <1>2, <2>1
  <2>3. hist' = [hist EXCEPT !.told = [hist.told EXCEPT ![i] = @ \cup {p}]]
    BY <2>1 DEF Histories
  <2> QED
    <3> DEFINE T == [hist.told EXCEPT ![i] = @ \cup {p}]
    <3>1. T[i] = {p} /\ \A j \in 1..MaxAsks : j # i => T[j] = hist.told[j]
      BY <1>2, <1>3, <2>1
    <3>2. T \in [1..MaxAsks -> SUBSET Phones] /\ hist' = [hist EXCEPT !.told = T]
      BY <2>2, <2>3
    <3> HIDE DEF T
    <3>3. hist' \in Histories /\ hist'.told = T /\ hist'.asked = hist.asked /\ hist'.settled = hist.settled
      BY <2>1, <3>2 DEF Histories
    <3> QED
      BY <3>1, <3>3
<1>5. /\ NoAsk \in Questions /\ hub' \in Hubs /\ hub'.ask = NoAsk /\ hub'.ask.id = 0
      /\ hub'.cur = hub.cur
  <2>1. 0 \in 0..MaxAsks /\ 0 \in Nat
    BY <1>1, Fields
  <2>2. NoAsk \in Questions /\ NoAsk.id = 0
    BY <2>1 DEF NoAsk, Questions
  <2> QED
    BY <1>1, <2>2 DEF Types, Hubs
<1>6. /\ toRelay' \in Seq(RelayFrames(made.asks))
      /\ relay.sock = 0 => toRelay' = <<>>
      /\ \A n \in DOMAIN toRelay : n \in DOMAIN toRelay' /\ toRelay'[n] = toRelay[n]
      /\ \A n \in DOMAIN toRelay' : (n \in DOMAIN toRelay /\ toRelay'[n] = toRelay[n]) \/ toRelay'[n] = r
      /\ hub.cur = relay.sock => \E n \in DOMAIN toRelay' : toRelay'[n] = r
  <2>1. r \in RelayFrames(made.asks)
    BY <1>2 DEF RelayFrames
  <2> HIDE DEF r
  <2>2. toRelay \in Seq(RelayFrames(made.asks)) /\ (relay.sock = 0 => toRelay = <<>>)
    BY <1>1 DEF Types, RelayInv
  <2>3. CASE hub.cur = relay.sock
    <3>1. toRelay' = Append(toRelay, r)
      BY <2>1, <2>2, <2>3 DEF Heard, r
    <3> DEFINE S == RelayFrames(made.asks)
    <3>2. r \in S /\ toRelay \in Seq(S)
      BY <2>1, <2>2
    <3>3. relay.sock # 0
      BY <1>1, <2>3
    <3> HIDE DEF S
    <3>4. /\ Append(toRelay, r) \in Seq(S)
          /\ \A n \in DOMAIN toRelay : n \in DOMAIN Append(toRelay, r) /\ Append(toRelay, r)[n] = toRelay[n]
          /\ \A n \in DOMAIN Append(toRelay, r) :
                \/ n \in DOMAIN toRelay /\ Append(toRelay, r)[n] = toRelay[n]
                \/ n = Len(toRelay) + 1 /\ Append(toRelay, r)[n] = r
          /\ Len(toRelay) + 1 \in DOMAIN Append(toRelay, r) /\ Append(toRelay, r)[Len(toRelay) + 1] = r
      BY <3>2, Appended, Zenon
    <3>5. /\ toRelay' \in Seq(S)
          /\ \A n \in DOMAIN toRelay : n \in DOMAIN toRelay' /\ toRelay'[n] = toRelay[n]
          /\ \A n \in DOMAIN toRelay' : (n \in DOMAIN toRelay /\ toRelay'[n] = toRelay[n]) \/ toRelay'[n] = r
          /\ \E n \in DOMAIN toRelay' : toRelay'[n] = r
      BY <3>1, <3>4, Zenon
    <3> QED
      BY <3>3, <3>5 DEF S
  <2>4. CASE hub.cur # relay.sock
    <3>1. toRelay' = toRelay
      BY <2>2, <2>4 DEF Heard
    <3> QED
      BY <2>2, <2>4, <3>1
  <2> QED
    BY <2>3, <2>4
<1>7. r.k = "result" /\ r.id = i /\ r.epoch = hub.ask.epoch /\ r.from = p
  OBVIOUS
<1> HIDE DEF r
<1>8. RelayInv'
  BY <1>1, <1>4, <1>6 DEF RelayInv
<1>9. SocketInv'
  BY <1>1, <1>5 DEF SocketInv
<1>10. \A c \in Sockets : \A n \in DOMAIN toHub[c] :
           toHub[c][n].k = "ask" => toHub[c][n].id \in 1..MaxAsks /\ toHub[c][n].id # 0
  <2>1. \A k \in 1..made.asks : k \in 1..MaxAsks /\ k # 0
    BY <1>1, <1>2, Fields, SMTT(30)
  <2> QED
    BY <1>1, <2>1, AsksNumbered
<1>11. QuestionInv'
  <2>1. hub'.ask.id <= made'.asks /\ hub'.ask.id = 0
    BY <1>1, <1>2, <1>5
  <2>2. \A j \in 1..MaxAsks : j > made'.asks => hist'.told[j] = {}
    BY <1>1, <1>2, <1>4 DEF QuestionInv
  <2>3. ASSUME NEW c \in Sockets, NEW n \in DOMAIN toHub'[c], toHub'[c][n].k = "ask"
        PROVE  /\ hist'.told[toHub'[c][n].id] = {}
               /\ toHub'[c][n].id # hub'.ask.id
               /\ toHub'[c][n].epoch = hist'.asked[toHub'[c][n].id]
               /\ \A d \in Sockets : \A m \in DOMAIN toHub'[d] :
                      toHub'[d][m].k = "ask" /\ toHub'[d][m].id = toHub'[c][n].id => c = d /\ m = n
    <3>1. toHub' = toHub /\ n \in DOMAIN toHub[c] /\ toHub[c][n].k = "ask"
      BY <2>3
    <3>2. /\ hist.told[toHub[c][n].id] = {} /\ toHub[c][n].id # i
          /\ toHub[c][n].epoch = hist.asked[toHub[c][n].id]
          /\ \A d \in Sockets : \A m \in DOMAIN toHub[d] :
                  toHub[d][m].k = "ask" /\ toHub[d][m].id = toHub[c][n].id => c = d /\ m = n
      BY <1>1, <3>1 DEF QuestionInv
    <3>3. toHub[c][n].id \in 1..MaxAsks /\ toHub[c][n].id # 0
      BY <1>10, <3>1
    <3>4. hist'.told[toHub[c][n].id] = {}
      BY <1>4, <3>2, <3>3
    <3> QED
      BY <1>4, <1>5, <3>1, <3>2, <3>3, <3>4
  <2> QED
    BY <2>1, <2>2, <2>3 DEF QuestionInv
<1>12. AnswerInv'
  <2>1. ASSUME NEW j \in 1..MaxAsks
        PROVE  /\ hist'.told[j] = {} \/ \E q \in Phones : hist'.told[j] = {q}
               /\ hist'.settled[j] \notin {"open", "desktop"} => hist'.told[j] = {hist'.settled[j]}
    BY <1>1, <1>2, <1>3, <1>4, <2>1, ZenonT(60) DEF AnswerInv
  <2>2. ASSUME NEW n \in DOMAIN toRelay', toRelay'[n].k = "result"
        PROVE  /\ toRelay'[n].id # 0 /\ hist'.told[toRelay'[n].id] = {toRelay'[n].from}
               /\ toRelay'[n].epoch = hist'.asked[toRelay'[n].id]
    <3>1. CASE toRelay'[n] = r
      BY <1>2, <1>3, <1>4, <1>7, <3>1
    <3>2. CASE n \in DOMAIN toRelay /\ toRelay'[n] = toRelay[n]
      <4>1. /\ toRelay[n].k = "result" /\ toRelay[n].id # 0
            /\ hist.told[toRelay[n].id] = {toRelay[n].from}
            /\ toRelay[n].epoch = hist.asked[toRelay[n].id]
        BY <1>1, <2>2, <3>2 DEF AnswerInv
      <4>2. toRelay[n].id \in 0..made.asks
        <5>1. toRelay[n] \in RelayFrames(made.asks)
          BY <1>1, <3>2 DEF Types
        <5> QED
          BY <4>1, <5>1 DEF RelayFrames
      <4>3. toRelay[n].id # i /\ toRelay[n].id \in 1..MaxAsks
        <5>1. toRelay[n].id # i
          BY <1>3, <4>1
        <5>2. made.asks \in Nat /\ MaxAsks \in Nat /\ made.asks <= MaxAsks
          BY <1>1, Fields
        <5> QED
          BY <4>1, <4>2, <5>1, <5>2
      <4> QED
        BY <1>4, <3>2, <4>1, <4>3
    <3> QED
      BY <1>6, <3>1, <3>2
  <2> QED
    BY <2>1, <2>2 DEF AnswerInv
<1>13. WaitInv'
  <2>1. SUFFICES ASSUME Waits'
                 PROVE  /\ \A c \in Sockets : \A n \in DOMAIN toHub'[c] :
                               toHub'[c][n].k = "ask" /\ toHub'[c][n].id = relay'.ask => c = relay'.sock
                        /\ hist'.told[relay'.ask] # {} =>
                               \E n \in DOMAIN toRelay' : toRelay'[n].k = "result" /\ toRelay'[n].id = relay'.ask
    BY <1>5 DEF WaitInv, Waits
  <2>2. Waits /\ relay.ask \in 1..MaxAsks
    BY <1>1, <1>4, <2>1, Fields DEF Waits
  <2>3. CASE relay.ask = i
    <3>1. hub.cur = relay.sock
      BY <1>1, <2>2, <2>3 DEF WaitInv
    <3> QED
      BY <1>1, <1>6, <1>7, <2>2, <2>3, <3>1, ZenonT(60) DEF WaitInv
  <2>4. CASE relay.ask # i
    BY <1>1, <1>4, <1>6, <2>2, <2>4, ZenonT(60) DEF WaitInv
  <2> QED
    BY <2>3, <2>4
<1> QED
  BY <1>4, <1>5, <1>6, <1>8, <1>9, <1>11, <1>12, <1>13

LEMMA HubHandlesKeeps ==
    ASSUME IInv, NEW p \in Phones, HubHandles(p)
    PROVE  IInv'
<1> DEFINE f == Head(up[p])
<1> DEFINE Seen == /\ RelayInv' /\ SocketInv' /\ QuestionInv' /\ AnswerInv' /\ WaitInv'
                   /\ toRelay' \in Seq(RelayFrames(made.asks)) /\ hub' \in Hubs /\ hist' \in Histories
<1> DEFINE Downs == /\ down' \in [Phones -> Seq(DownFrames(made.asks))]
                    /\ \A q \in Phones : ~phone[q].conn => down'[q] = <<>>
<1>1. /\ Types /\ RelayInv /\ SocketInv /\ QuestionInv /\ PhoneInv
      /\ up[p] # <<>> /\ up' = [up EXCEPT ![p] = Tail(@)]
      /\ UNCHANGED <<relay, toHub, gone, ghosts, phone, made>>
  BY DEF IInv, HubHandles
<1>2. /\ f \in UpFrames(made.asks) /\ Tail(up[p]) \in Seq(UpFrames(made.asks)) /\ phone[p].conn
      /\ made.asks \in Nat
  <2>1. up[p] \in Seq(UpFrames(made.asks))
    BY <1>1 DEF Types
  <2> QED
    <3>1. Tail(up[p]) \in Seq(UpFrames(made.asks)) /\ f = up[p][1] /\ up[p][1] \in UpFrames(made.asks)
      BY <1>1, <2>1, TailLeft, Zenon
    <3> QED
      BY <1>1, <3>1, Fields DEF PhoneInv
<1>3. f.k \in {"select", "claim", "answer", "decline"} /\ (f.k # "select" => f.id \in 1..made.asks)
  BY <1>2 DEF UpFrames
<1>4. /\ up' \in [Phones -> Seq(UpFrames(made.asks))]
      /\ \A q \in Phones : ~phone[q].conn => up'[q] = <<>>
  BY <1>1, <1>2 DEF Types, PhoneInv
<1>5. ASSUME f.k # "select", NEW b \in BOOLEAN
      PROVE  Reply(f, b) \in Seq(DownFrames(made.asks))
  <2>1. [k |-> f.k, id |-> f.id, ok |-> b] \in DownFrames(made.asks)
    BY <1>2, <1>3, <1>5 DEF DownFrames
  <2> QED
    BY <2>1, OneFrame DEF Reply
<1>6. /\ Retraction \in Seq(DownFrames(made.asks)) /\ <<>> \in Seq(DownFrames(made.asks))
      /\ NoAsk \in Questions /\ hub \in Hubs /\ hist \in Histories
  <2>1. NoAsk \in Questions
    BY <1>1, Fields DEF NoAsk, Questions
  <2> QED
    BY <1>1, <2>1, HubsFrames DEF Types
<1> HIDE DEF f
<1>7. ASSUME MoreToRelay, HubKeeps, hub' \in Hubs, UNCHANGED hist
      PROVE  Seen
  BY <1>1, <1>6, <1>7, MoreIsQuiet, MoreKeeps
<1>8. ASSUME Seen, Downs, selected' \subseteq selected \cup {p}, selecting' \subseteq selecting \cup {p}
      PROVE  IInv'
  <2>1. Types'
    BY <1>1, <1>4, <1>8 DEF Types
  <2>2. PhoneInv'
    BY <1>1, <1>2, <1>4, <1>8 DEF PhoneInv
  <2> QED
    BY <1>8, <2>1, <2>2 DEF IInv
<1>9. CASE Selects(p)
  <2>1. /\ UNCHANGED <<hub, toRelay, down, hist>> /\ selected' \subseteq selected \cup {p}
        /\ selecting' \subseteq selecting \cup {p}
    BY <1>9 DEF Selects
  <2>2. Downs
    BY <1>1, <2>1 DEF Types, PhoneInv
  <2> QED
    BY <1>1, <1>6, <1>7, <1>8, <2>1, <2>2, NoMoreToRelay DEF HubKeeps
<1>10. CASE f.k # "select" /\ UNCHANGED <<selected, selecting>> /\ Refuses(p, f)
  <2>1. Downs
    BY <1>1, <1>2, <1>5, <1>10, Replying DEF Refuses
  <2> QED
    BY <1>1, <1>6, <1>7, <1>8, <1>10, <2>1, NoMoreToRelay DEF HubKeeps, Refuses
<1>11. CASE f.k # "select" /\ UNCHANGED <<selected, selecting>> /\ hub.cur # 0 /\ Claims(p, f)
  <2>1. Downs
    BY <1>1, <1>2, <1>5, <1>11, Replying DEF Claims
  <2>2. hub' \in Hubs /\ HubKeeps
    BY <1>6, <1>11 DEF Claims, Hubs, Questions, HubKeeps
  <2>3. MoreToRelay
    <3>1. [k |-> "claimed", id |-> f.id] \in RelayFrames(made.asks)
      BY <1>2, <1>3, <1>11 DEF RelayFrames
    <3> QED
      BY <1>1, <1>11, <3>1, HeardOne, NoMoreToRelay DEF Claims
  <2> QED
    BY <1>7, <1>8, <1>11, <2>1, <2>2, <2>3 DEF Claims
<1>12. CASE /\ f.k # "select" /\ UNCHANGED <<selected, selecting>>
            /\ \E sent \in BOOLEAN : Declines(p, f, sent)
  <2>1. Downs
    BY <1>1, <1>2, <1>5, <1>6, <1>12, Telling DEF Declines
  <2>2. hub' \in Hubs /\ HubKeeps
    BY <1>6, <1>12 DEF Declines, Hubs, HubKeeps
  <2>3. MoreToRelay
    <3>1. [k |-> "declined", id |-> f.id] \in RelayFrames(made.asks)
      BY <1>2, <1>3, <1>12 DEF RelayFrames
    <3> QED
      BY <1>1, <1>12, <3>1, HeardOne DEF Declines
  <2> QED
    BY <1>7, <1>8, <1>12, <2>1, <2>2, <2>3 DEF Declines
<1>13. CASE /\ f.k # "select" /\ UNCHANGED <<selected, selecting>>
            /\ hub.ask.id = f.id /\ hub.cur # 0 /\ Answers(p, f)
  <2>1. Downs
    <3>1. Tell(Retraction, p, Reply(f, TRUE)) /\ Reply(f, TRUE) \in Seq(DownFrames(made.asks))
      BY <1>5, <1>13 DEF Answers
    <3> QED
      BY <1>1, <1>2, <1>6, <1>13, <3>1, Telling
  <2>2. Seen
    <3>1. f.id \in 1..made.asks
      BY <1>3, <1>13
    <3> QED
      BY <1>1, <1>13, <3>1, AnswersKeeps DEF Answers, Result
  <2> QED
    BY <1>8, <1>13, <2>1, <2>2
<1>14. f.k = "select" => Selects(p)
  BY DEF HubHandles, f
<1>15. f.k # "select" =>
          /\ UNCHANGED <<selected, selecting>>
          /\ \/ Refuses(p, f)
             \/ hub.cur # 0 /\ Claims(p, f)
             \/ \E sent \in BOOLEAN : Declines(p, f, sent)
             \/ hub.ask.id = f.id /\ hub.cur # 0 /\ Answers(p, f)
  BY DEF HubHandles, f, Sendable
<1> QED
  BY <1>9, <1>10, <1>11, <1>12, <1>13, <1>14, <1>15

LEMMA HubSeesCloseKeeps ==
    ASSUME IInv, NEW c \in Sockets, HubSeesClose(c)
    PROVE  IInv'
<1>1. Types /\ RelayInv /\ SocketInv /\ QuestionInv /\ AnswerInv /\ WaitInv /\ PhoneInv
  BY DEF IInv
<1>2. /\ c <= made.socks /\ c # relay.sock /\ c \in Nat /\ c # 0
      /\ gone' = gone \cup {c} /\ toHub' = [toHub EXCEPT ![c] = <<>>]
      /\ UNCHANGED <<relay, toRelay, selected, selecting, ghosts, phone, up, made, hist>>
  BY <1>1, AskAssumption DEF HubSeesClose, relayVars, phoneVars, Sockets
<1>3. /\ hub' \in Hubs /\ hub'.cur # c /\ hub'.cur \in {0, hub.cur}
      /\ hub'.cur = 0 => hub'.ask = NoAsk
      /\ hub'.ask.id = 0 \/ (hub' = hub /\ hub.cur # c)
      /\ hub'.cur = hub.cur \/ hub.cur = c
  <2>1. 0 \in 0..(MaxMishaps + 1) /\ 0 \in 0..MaxAsks /\ 0 \in Nat /\ hub \in Hubs
    BY <1>1, Fields DEF Types
  <2>2. NoAsk \in Questions /\ NoAsk.id = 0
    BY <2>1 DEF NoAsk, Questions
  <2>3. CASE hub.cur = c
    <3>1. hub' = [hub EXCEPT !.cur = 0, !.ask = NoAsk]
      BY <2>3 DEF HubSeesClose
    <3> QED
      BY <1>2, <2>1, <2>2, <2>3, <3>1 DEF Hubs
  <2>4. CASE hub.cur # c
    <3>1. hub' = hub
      BY <2>4 DEF HubSeesClose
    <3> QED
      BY <1>1, <2>1, <2>4, <3>1 DEF SocketInv
  <2> QED
    BY <2>3, <2>4
<1>4. /\ down' \in [Phones -> Seq(DownFrames(made.asks))]
      /\ \A q \in Phones : ~phone[q].conn => down'[q] = <<>>
  <2>1. CASE UNCHANGED down
    BY <1>1, <2>1 DEF Types, PhoneInv
  <2>2. CASE Tell(Retraction, Nobody, <<>>)
    <3>1. Retraction \in Seq(DownFrames(made.asks)) /\ <<>> \in Seq(DownFrames(made.asks))
      BY <1>1, HubsFrames
    <3> QED
      BY <1>1, <1>2, <2>2, <3>1, Telling
  <2> QED
    BY <2>1, <2>2 DEF HubSeesClose
<1>5. /\ toHub' \in [Sockets -> Seq(HubFrames(made.asks))]
      /\ toHub'[c] = <<>> /\ \A d \in Sockets : d # c => toHub'[d] = toHub[d]
  <2>1. <<>> \in Seq(HubFrames(made.asks))
    OBVIOUS
  <2> QED
    BY <1>1, <1>2, <2>1 DEF Types
<1>6. \A d \in Sockets : \A n \in DOMAIN toHub'[d] : d # c /\ n \in DOMAIN toHub[d] /\ toHub'[d] = toHub[d]
  <2>1. DOMAIN <<>> = {}
    OBVIOUS
  <2> QED
    BY <1>5, <2>1
<1>7. Types'
  BY <1>1, <1>2, <1>3, <1>4, <1>5 DEF Types
<1>8. RelayInv'
  BY <1>1, <1>2 DEF RelayInv
<1>9. SocketInv'
  <2>1. hub'.cur <= made'.socks /\ hub'.cur \notin gone' /\ (hub'.cur = 0 => hub'.ask = NoAsk)
    <3>1. 0 \notin gone /\ 0 <= made.socks
      BY <1>1, Fields DEF Types, Sockets
    <3> QED
      BY <1>1, <1>2, <1>3, <3>1 DEF SocketInv
  <2>2. \A d \in gone' : d <= made'.socks /\ d # relay'.sock /\ toHub'[d] = <<>>
    BY <1>1, <1>2, <1>5 DEF SocketInv, Types
  <2>3. \A d \in Sockets : d > made'.socks \/ d < hub'.cur => toHub'[d] = <<>>
    <3>1. \A d \in Sockets : ~(d < 0)
      BY DEF Sockets
    <3> QED
      BY <1>1, <1>2, <1>3, <1>5, <3>1 DEF SocketInv
  <2>4. ASSUME NEW d \in Sockets, NEW n \in DOMAIN toHub'[d]
        PROVE  toHub'[d][n].k = "register" <=> d # hub'.cur /\ n = 1
    <3>1. d # c /\ n \in DOMAIN toHub[d] /\ toHub'[d] = toHub[d]
      BY <1>6
    <3>2. d # 0 /\ (d # hub'.cur <=> d # hub.cur)
      BY <1>3, <3>1 DEF Sockets
    <3> QED
      BY <1>1, <3>1, <3>2 DEF SocketInv
  <2>5. relay'.sock # 0 /\ relay'.sock # hub'.cur => toHub'[relay'.sock] # <<>>
    <3>1. relay.sock # 0 => relay.sock \in Sockets
      BY <1>1, Fields DEF Sockets, RelayInv
    <3> QED
      BY <1>1, <1>2, <1>3, <1>5, <3>1 DEF SocketInv
  <2> QED
    BY <2>1, <2>2, <2>3, <2>4, <2>5 DEF SocketInv
<1>10. \A d \in Sockets : \A n \in DOMAIN toHub[d] : toHub[d][n].k = "ask" => toHub[d][n].id # 0
  <2>1. \A k \in 1..made.asks : k # 0
    OBVIOUS
  <2> QED
    BY <1>1, <2>1, AsksNumbered
<1>11. QuestionInv'
  <2>1. hub'.ask.id <= made'.asks
    BY <1>1, <1>2, <1>3, Fields DEF QuestionInv
  <2>2. hub'.ask.id # 0 => hist'.told[hub'.ask.id] = {} /\ hub'.ask.epoch = hist'.asked[hub'.ask.id]
    BY <1>1, <1>2, <1>3 DEF QuestionInv
  <2>3. \A j \in 1..MaxAsks : j > made'.asks => hist'.told[j] = {}
    BY <1>1, <1>2 DEF QuestionInv
  <2>4. ASSUME NEW d \in Sockets, NEW n \in DOMAIN toHub'[d], toHub'[d][n].k = "ask"
        PROVE  /\ hist'.told[toHub'[d][n].id] = {}
               /\ toHub'[d][n].id # hub'.ask.id
               /\ toHub'[d][n].epoch = hist'.asked[toHub'[d][n].id]
               /\ \A e \in Sockets : \A m \in DOMAIN toHub'[e] :
                      toHub'[e][m].k = "ask" /\ toHub'[e][m].id = toHub'[d][n].id => d = e /\ m = n
    <3>1. d # c /\ n \in DOMAIN toHub[d] /\ toHub'[d] = toHub[d]
      BY <1>6
    <3>2. toHub[d][n].id # 0
      BY <1>10, <2>4, <3>1
    <3> QED
      BY <1>1, <1>2, <1>3, <1>6, <2>4, <3>1, <3>2 DEF QuestionInv
  <2> QED
    BY <2>1, <2>2, <2>3, <2>4 DEF QuestionInv
<1>12. AnswerInv'
  BY <1>1, <1>2 DEF AnswerInv
<1>13. WaitInv'
  BY <1>1, <1>2, <1>3, <1>6 DEF WaitInv, Waits
<1>14. PhoneInv'
  BY <1>1, <1>2, <1>4 DEF PhoneInv
<1> QED
  BY <1>7, <1>8, <1>9, <1>11, <1>12, <1>13, <1>14 DEF IInv

\* What the hub has read is what the registration of its current socket brought.
LEMMA Reading ==
    ASSUME IInv, NEW c \in Sockets, toHub[c] # <<>>, toHub' = [toHub EXCEPT ![c] = Tail(@)],
           \A d \in 1..(c - 1) : toHub[d] = <<>>
    PROVE  /\ toHub' \in [Sockets -> Seq(HubFrames(made.asks))]
           /\ Head(toHub[c]) = toHub[c][1] /\ 1 \in DOMAIN toHub[c] /\ toHub[c][1] \in HubFrames(made.asks)
           /\ \A d \in Sockets : d # c => toHub'[d] = toHub[d]
           /\ \A n \in DOMAIN toHub'[c] : /\ n \in Nat /\ n + 1 \in DOMAIN toHub[c] /\ n + 1 # 1
                                          /\ toHub'[c][n] = toHub[c][n + 1]
           /\ c \in Nat /\ c # 0 /\ c \notin gone /\ c <= made.socks /\ hub.cur <= c
           /\ toHub[c][1].k # "register" <=> c = hub.cur
<1>1. Types /\ RelayInv /\ SocketInv
  BY DEF IInv
<1>2. toHub[c] \in Seq(HubFrames(made.asks)) /\ c \in Nat /\ c # 0
  BY <1>1, AskAssumption DEF Types, Sockets
<1>3. /\ Tail(toHub[c]) \in Seq(HubFrames(made.asks)) /\ Head(toHub[c]) = toHub[c][1]
      /\ 1 \in DOMAIN toHub[c] /\ toHub[c][1] \in HubFrames(made.asks)
      /\ \A n \in DOMAIN Tail(toHub[c]) : /\ n \in Nat /\ n + 1 \in DOMAIN toHub[c] /\ n + 1 # 1
                                           /\ Tail(toHub[c])[n] = toHub[c][n + 1]
  BY <1>2, TailLeft, Zenon
<1>4. /\ toHub' \in [Sockets -> Seq(HubFrames(made.asks))] /\ toHub'[c] = Tail(toHub[c])
      /\ \A d \in Sockets : d # c => toHub'[d] = toHub[d]
  BY <1>1, <1>3 DEF Types
<1>5. c \notin gone /\ c <= made.socks /\ hub.cur <= c
  BY <1>1, <1>2, Fields, SMTT(30) DEF SocketInv
<1>6. toHub[c][1].k # "register" <=> c = hub.cur
  BY <1>1, <1>3 DEF SocketInv
<1> QED
  BY <1>2, <1>3, <1>4, <1>5, <1>6

\* What becomes of the hub's question, and what the relay hears.
LEMMA ReadingDoes ==
    ASSUME IInv, NEW c \in Sockets, HubReads(c)
    PROVE  /\ made.asks \in Nat /\ hub.cur \in Nat /\ c \in 0..(MaxMishaps + 1)
           /\ toHub[c][1].k \in {"register", "snapshot", "ask"} => toHub[c][1].epoch \in Nat
           /\ toHub[c][1].k = "ask" => toHub[c][1].id \in 1..made.asks /\ toHub[c][1].id \in 0..MaxAsks
           /\ NoAsk \in Questions /\ NoAsk.id = 0 /\ hub \in Hubs
           /\ hub' \in Hubs /\ hub'.cur = c
           /\ \/ hub'.ask = hub.ask
              \/ hub'.ask = NoAsk
              \/ /\ toHub[c][1].k = "ask"
                 /\ hub'.ask.id = toHub[c][1].id /\ hub'.ask.epoch = toHub[c][1].epoch
           /\ MoreToRelay
<1> DEFINE f == toHub[c][1]
<1>1. Types /\ RelayInv /\ SocketInv /\ QuestionInv /\ AnswerInv /\ WaitInv /\ PhoneInv
  BY DEF IInv
<1>2. /\ toHub[c] # <<>> /\ toHub' = [toHub EXCEPT ![c] = Tail(@)]
      /\ \A d \in 1..(c - 1) : toHub[d] = <<>>
      /\ UNCHANGED <<selected, selecting, ghosts, gone, relay, phone, up, made, hist>>
  BY DEF HubReads, phoneVars
<1>3. /\ toHub' \in [Sockets -> Seq(HubFrames(made.asks))]
      /\ Head(toHub[c]) = f /\ 1 \in DOMAIN toHub[c] /\ f \in HubFrames(made.asks)
      /\ \A d \in Sockets : d # c => toHub'[d] = toHub[d]
      /\ \A n \in DOMAIN toHub'[c] : /\ n \in Nat /\ n + 1 \in DOMAIN toHub[c] /\ n + 1 # 1
                                     /\ toHub'[c][n] = toHub[c][n + 1]
      /\ c \in Nat /\ c # 0 /\ c \notin gone /\ c <= made.socks /\ hub.cur <= c
      /\ f.k # "register" <=> c = hub.cur
  BY <1>2, Reading
<1>4. \/ f.k = "register" /\ Registers(c, f)
      \/ /\ f.k = "snapshot" /\ hub' = [hub EXCEPT !.epoch = f.epoch]
         /\ UNCHANGED <<toRelay, down>>
      \/ f.k = "ask" /\ Asks(c, f)
      \/ f.k = "cancel" /\ Cancels(f) /\ UNCHANGED toRelay
  BY <1>3 DEF HubReads
<1>5. /\ made.asks \in Nat /\ hub.cur \in Nat /\ c \in 0..(MaxMishaps + 1)
      /\ f.k \in {"register", "snapshot", "ask"} => f.epoch \in Nat
      /\ f.k = "ask" => f.id \in 1..made.asks /\ f.id \in 0..MaxAsks
      /\ NoAsk \in Questions /\ NoAsk.id = 0 /\ hub \in Hubs
  <2>1. 0 \in 0..MaxAsks /\ 0 \in Nat /\ hub \in Hubs /\ MaxMishaps \in Nat /\ made.asks \in Nat
    BY <1>1, Fields DEF Types
  <2>2. NoAsk \in Questions /\ NoAsk.id = 0
    BY <2>1 DEF NoAsk, Questions
  <2>3. f.k \in {"register", "snapshot", "ask"} => f.epoch \in Nat
    BY <1>3, <2>1, HubFramesOf
  <2>4. f.k = "ask" => f.id \in 1..made.asks
    BY <1>1, <1>3, AsksNumbered
  <2>5. f.k = "ask" => f.id \in 0..MaxAsks
    <3>1. made.asks <= MaxAsks /\ MaxAsks \in Nat
      BY <1>1, Fields
    <3> QED
      BY <2>1, <2>4, <3>1
  <2>6. c \in 0..(MaxMishaps + 1) /\ hub.cur \in Nat
    BY <1>1, <2>1, Fields DEF Sockets
  <2> QED
    BY <2>1, <2>2, <2>3, <2>4, <2>5, <2>6
<1> HIDE DEF f
<1>6. /\ hub' \in Hubs /\ hub'.cur = c
      /\ \/ hub'.ask = hub.ask
         \/ hub'.ask = NoAsk
         \/ /\ f.k = "ask" /\ hub'.ask.id = f.id /\ hub'.ask.epoch = f.epoch
  <2>1. CASE f.k = "register" /\ hub' = [hub EXCEPT !.cur = c, !.epoch = f.epoch]
    BY <1>3, <1>5, <2>1 DEF Hubs
  <2>2. CASE f.k = "snapshot" /\ hub' = [hub EXCEPT !.epoch = f.epoch]
    BY <1>3, <1>5, <2>2 DEF Hubs
  <2>3. CASE f.k # "register" /\ hub' = hub
    BY <1>3, <1>5, <2>3
  <2>4. CASE f.k # "register" /\ hub' = [hub EXCEPT !.ask = NoAsk]
    BY <1>3, <1>5, <2>4 DEF Hubs
  <2>5. CASE f.k = "ask" /\ hub' = [hub EXCEPT !.ask = [id |-> f.id, epoch |-> f.epoch, claimed |-> FALSE]]
    <3> DEFINE q == [id |-> f.id, epoch |-> f.epoch, claimed |-> FALSE]
    <3>1. q \in Questions /\ q.id = f.id /\ q.epoch = f.epoch
      BY <1>5, <2>5 DEF Questions
    <3>2. hub' = [hub EXCEPT !.ask = q]
      BY <2>5
    <3> HIDE DEF q
    <3>3. hub' \in Hubs /\ hub'.ask = q /\ hub'.cur = hub.cur
      BY <1>5, <3>1, <3>2 DEF Hubs
    <3> QED
      BY <1>3, <2>5, <3>1, <3>3
  <2> QED
    BY <1>4, <2>1, <2>2, <2>3, <2>4, <2>5 DEF Registers, Asks, Cancels
<1>7. MoreToRelay
  <2>1. CASE f.k = "register" /\ Registers(c, f)
    <3> DEFINE u == <<[k |-> "registered", epoch |-> f.epoch], Status(selected \cup ghosts)>>
    <3>1. /\ [k |-> "registered", epoch |-> f.epoch] \in RelayFrames(made.asks)
          /\ Status(selected \cup ghosts) \in RelayFrames(made.asks)
          /\ Status(selected \cup ghosts).k = "status"
      BY <1>5, <2>1 DEF RelayFrames, Status
    <3>2. /\ u \in Seq(RelayFrames(made.asks)) /\ DOMAIN u = {1, 2}
          /\ u[1].k = "registered" /\ u[2].k = "status"
      BY <3>1
    <3>3. toRelay' = toRelay \o Heard(c, u)
      BY <2>1 DEF Registers
    <3> HIDE DEF u
    <3>4. \A n \in DOMAIN u : u[n].k # "result"
      BY <3>2
    <3> QED
      BY <1>1, <3>2, <3>3, <3>4, HeardMore
  <2>2. CASE f.k = "ask" /\ Asks(c, f)
    <3>1. [k |-> "declined", id |-> f.id] \in RelayFrames(made.asks)
      <4>1. f.id \in 0..made.asks
        BY <1>5, <2>2
      <4> QED
        BY <4>1 DEF RelayFrames
    <3> QED
      BY <1>1, <2>2, <3>1, HeardOne, NoMoreToRelay DEF Asks
  <2>3. CASE UNCHANGED toRelay
    BY <1>1, <2>3, NoMoreToRelay
  <2> QED
    BY <1>4, <2>1, <2>2, <2>3
<1> QED
  BY <1>5, <1>6, <1>7 DEF f

LEMMA HubReadsKeeps ==
    ASSUME IInv, NEW c \in Sockets, HubReads(c)
    PROVE  IInv'
<1> DEFINE f == toHub[c][1]
<1>1. Types /\ RelayInv /\ SocketInv /\ QuestionInv /\ AnswerInv /\ WaitInv /\ PhoneInv
  BY DEF IInv
<1>2. /\ toHub[c] # <<>> /\ toHub' = [toHub EXCEPT ![c] = Tail(@)]
      /\ \A d \in 1..(c - 1) : toHub[d] = <<>>
      /\ UNCHANGED <<selected, selecting, ghosts, gone, relay, phone, up, made, hist>>
  BY DEF HubReads, phoneVars
<1>3. /\ toHub' \in [Sockets -> Seq(HubFrames(made.asks))]
      /\ Head(toHub[c]) = f /\ 1 \in DOMAIN toHub[c] /\ f \in HubFrames(made.asks)
      /\ \A d \in Sockets : d # c => toHub'[d] = toHub[d]
      /\ \A n \in DOMAIN toHub'[c] : /\ n \in Nat /\ n + 1 \in DOMAIN toHub[c] /\ n + 1 # 1
                                     /\ toHub'[c][n] = toHub[c][n + 1]
      /\ c \in Nat /\ c # 0 /\ c \notin gone /\ c <= made.socks /\ hub.cur <= c
      /\ f.k # "register" <=> c = hub.cur
  BY <1>2, Reading
<1>4. \/ f.k = "register" /\ Registers(c, f)
      \/ /\ f.k = "snapshot" /\ hub' = [hub EXCEPT !.epoch = f.epoch]
         /\ UNCHANGED <<toRelay, down>>
      \/ f.k = "ask" /\ Asks(c, f)
      \/ f.k = "cancel" /\ Cancels(f) /\ UNCHANGED toRelay
  BY <1>3 DEF HubReads
<1>5. /\ made.asks \in Nat /\ hub.cur \in Nat /\ c \in 0..(MaxMishaps + 1)
      /\ f.k \in {"register", "snapshot", "ask"} => f.epoch \in Nat
      /\ f.k = "ask" => f.id \in 1..made.asks /\ f.id \in 0..MaxAsks
      /\ NoAsk \in Questions /\ NoAsk.id = 0 /\ hub \in Hubs
  BY ReadingDoes
<1> HIDE DEF f
<1>6. /\ hub' \in Hubs /\ hub'.cur = c
      /\ \/ hub'.ask = hub.ask
         \/ hub'.ask = NoAsk
         \/ /\ f.k = "ask" /\ hub'.ask.id = f.id /\ hub'.ask.epoch = f.epoch
  BY ReadingDoes DEF f
<1>7. MoreToRelay
  BY ReadingDoes
<1>8. /\ toRelay' \in Seq(RelayFrames(made.asks))
      /\ relay.sock = 0 => toRelay' = <<>>
      /\ \A n \in DOMAIN toRelay : n \in DOMAIN toRelay' /\ toRelay'[n] = toRelay[n]
      /\ \A n \in DOMAIN toRelay' :
             toRelay'[n].k = "result" => n \in DOMAIN toRelay /\ toRelay'[n] = toRelay[n]
  BY <1>1, <1>7, MoreKeeps
<1>9. /\ down' \in [Phones -> Seq(DownFrames(made.asks))]
      /\ \A q \in Phones : ~phone[q].conn => down'[q] = <<>>
  <2>1. CASE UNCHANGED down
    BY <1>1, <2>1 DEF Types, PhoneInv
  <2>2. <<>> \in Seq(DownFrames(made.asks)) /\ Retraction \in Seq(DownFrames(made.asks))
    BY <1>1, HubsFrames
  <2>3. CASE Tell(Retraction, Nobody, <<>>)
    BY <1>1, <1>2, <2>2, <2>3, Telling
  <2>4. CASE f.k = "ask" /\ Tell(Retraction \o Request(f.id), Nobody, <<>>)
    <3>1. [k |-> "request", id |-> f.id] \in DownFrames(made.asks)
      BY <1>5, <2>4 DEF DownFrames
    <3>2. Request(f.id) \in Seq(DownFrames(made.asks))
      BY <2>2, <3>1, OneFrame DEF Request
    <3>3. Retraction \o Request(f.id) \in Seq(DownFrames(made.asks))
      BY <2>2, <3>2, Joined
    <3> QED
      BY <1>1, <1>2, <2>2, <2>4, <3>3, Telling
  <2> QED
    BY <1>4, <2>1, <2>3, <2>4 DEF Registers, Asks, Cancels
<1>10. Types'
  BY <1>1, <1>2, <1>3, <1>6, <1>8, <1>9 DEF Types
<1>11. RelayInv'
  BY <1>1, <1>2, <1>8 DEF RelayInv
<1>12. relay.sock # 0 /\ relay.sock = hub.cur => c = hub.cur
  BY <1>1, <1>3, <1>5, Fields, SMTT(30) DEF RelayInv
<1>13. SocketInv'
  <2>1. hub'.cur <= made'.socks /\ hub'.cur \notin gone' /\ (hub'.cur = 0 => hub'.ask = NoAsk)
    BY <1>2, <1>3, <1>6
  <2>2. \A d \in gone' : d <= made'.socks /\ d # relay'.sock /\ toHub'[d] = <<>>
    BY <1>1, <1>2, <1>3 DEF SocketInv, Types
  <2>3. \A d \in Sockets : d > made'.socks \/ d < hub'.cur => toHub'[d] = <<>>
    <3>1. \A d \in Sockets : d < c => d \in 1..(c - 1)
      BY <1>3 DEF Sockets
    <3>2. \A d \in Sockets : d < c => d # c
      BY <1>3
    <3>3. c > made.socks => FALSE
      BY <1>1, <1>3, Fields
    <3> QED
      BY <1>1, <1>2, <1>3, <1>6, <3>1, <3>2, <3>3 DEF SocketInv
  <2>4. ASSUME NEW d \in Sockets, NEW n \in DOMAIN toHub'[d]
        PROVE  toHub'[d][n].k = "register" <=> d # hub'.cur /\ n = 1
    <3>1. CASE d = c
      BY <1>1, <1>3, <1>6, <3>1 DEF SocketInv
    <3>2. CASE d # c
      <4>1. toHub'[d] = toHub[d] /\ n \in DOMAIN toHub[d]
        BY <1>3, <3>2
      <4>2. d # hub.cur
        <5>1. SUFFICES ASSUME d = hub.cur PROVE FALSE
          OBVIOUS
        <5>2. d \in 1..(c - 1)
          BY <1>3, <1>5, <3>2, <5>1 DEF Sockets
        <5>3. toHub[d] = <<>> /\ DOMAIN <<>> = {}
          BY <1>2, <5>2
        <5> QED
          BY <4>1, <5>3
      <4> QED
        BY <1>1, <1>6, <3>2, <4>1, <4>2 DEF SocketInv
    <3> QED
      BY <3>1, <3>2
  <2>5. relay'.sock # 0 /\ relay'.sock # hub'.cur => toHub'[relay'.sock] # <<>>
    <3>1. relay.sock # 0 => relay.sock \in Sockets
      BY <1>1, Fields DEF Sockets, RelayInv
    <3> QED
      BY <1>1, <1>2, <1>3, <1>6, <1>12, <3>1 DEF SocketInv
  <2> QED
    BY <2>1, <2>2, <2>3, <2>4, <2>5 DEF SocketInv
<1>14. \A d \in Sockets : \A n \in DOMAIN toHub'[d] :
           \E m \in DOMAIN toHub[d] : /\ toHub'[d][n] = toHub[d][m] /\ ~(d = c /\ m = 1)
                                     /\ m = (IF d = c THEN n + 1 ELSE n) /\ n \in Nat
  <2> SUFFICES ASSUME NEW d \in Sockets, NEW n \in DOMAIN toHub'[d]
               PROVE  \E m \in DOMAIN toHub[d] :
                         /\ toHub'[d][n] = toHub[d][m] /\ ~(d = c /\ m = 1)
                         /\ m = (IF d = c THEN n + 1 ELSE n) /\ n \in Nat
    OBVIOUS
  <2>1. toHub'[d] \in Seq(HubFrames(made.asks))
    BY <1>3
  <2>2. n \in Nat
    BY <2>1
  <2> QED
    BY <1>3, <2>2
<1>15. f.k = "ask" => /\ hist.told[f.id] = {} /\ f.epoch = hist.asked[f.id] /\ f.id # hub.ask.id
                     /\ \A d \in Sockets : \A m \in DOMAIN toHub[d] :
                           toHub[d][m].k = "ask" /\ toHub[d][m].id = f.id => d = c /\ m = 1
  BY <1>1, <1>3 DEF QuestionInv, f
<1>16. QuestionInv'
  <2>1. hub'.ask.id <= made'.asks
    BY <1>1, <1>2, <1>5, <1>6, Fields DEF QuestionInv
  <2>2. hub'.ask.id # 0 => hist'.told[hub'.ask.id] = {} /\ hub'.ask.epoch = hist'.asked[hub'.ask.id]
    BY <1>1, <1>2, <1>5, <1>6, <1>15 DEF QuestionInv
  <2>3. \A j \in 1..MaxAsks : j > made'.asks => hist'.told[j] = {}
    BY <1>1, <1>2 DEF QuestionInv
  <2>4. ASSUME NEW d \in Sockets, NEW n \in DOMAIN toHub'[d], toHub'[d][n].k = "ask"
        PROVE  /\ hist'.told[toHub'[d][n].id] = {}
               /\ toHub'[d][n].id # hub'.ask.id
               /\ toHub'[d][n].epoch = hist'.asked[toHub'[d][n].id]
               /\ \A e \in Sockets : \A m \in DOMAIN toHub'[e] :
                      toHub'[e][m].k = "ask" /\ toHub'[e][m].id = toHub'[d][n].id => d = e /\ m = n
    <3>1. PICK m \in DOMAIN toHub[d] : /\ toHub'[d][n] = toHub[d][m] /\ ~(d = c /\ m = 1)
                                      /\ m = (IF d = c THEN n + 1 ELSE n) /\ n \in Nat
      BY <1>14
    <3>2. toHub[d][m].k = "ask"
      BY <2>4, <3>1
    <3>3. /\ hist.told[toHub[d][m].id] = {} /\ toHub[d][m].epoch = hist.asked[toHub[d][m].id]
          /\ toHub[d][m].id # hub.ask.id
          /\ \A e \in Sockets : \A l \in DOMAIN toHub[e] :
                 toHub[e][l].k = "ask" /\ toHub[e][l].id = toHub[d][m].id => d = e /\ m = l
      BY <1>1, <3>2, SMTT(30) DEF QuestionInv
    <3>4. toHub[d][m].id # 0
      <4>1. toHub[d][m].id \in 1..made.asks
        BY <1>1, <3>2, AsksNumbered
      <4> QED
        BY <4>1
    <3>5. toHub[d][m].id # hub'.ask.id
      <4>1. f.k = "ask" => toHub[d][m].id # f.id
        BY <1>15, <3>1, <3>2
      <4> QED
        BY <1>5, <1>6, <3>3, <3>4, <4>1
    <3>6. ASSUME NEW e \in Sockets, NEW l \in DOMAIN toHub'[e], toHub'[e][l].k = "ask",
                 toHub'[e][l].id = toHub'[d][n].id
          PROVE  d = e /\ l = n
      <4>1. PICK j \in DOMAIN toHub[e] : /\ toHub'[e][l] = toHub[e][j] /\ ~(e = c /\ j = 1)
                                        /\ j = (IF e = c THEN l + 1 ELSE l) /\ l \in Nat
        BY <1>14
      <4>2. d = e /\ m = j
        BY <3>1, <3>3, <3>6, <4>1
      <4> QED
        BY <3>1, <4>1, <4>2
    <3> QED
      BY <1>2, <3>1, <3>3, <3>5, <3>6
  <2> QED
    BY <2>1, <2>2, <2>3, <2>4 DEF QuestionInv
<1>17. AnswerInv'
  BY <1>1, <1>2, <1>8 DEF AnswerInv
<1>18. WaitInv'
  <2>1. SUFFICES ASSUME Waits
                 PROVE  /\ hub'.ask.id = relay.ask => c = relay.sock
                        /\ \A d \in Sockets : \A n \in DOMAIN toHub'[d] :
                              toHub'[d][n].k = "ask" /\ toHub'[d][n].id = relay.ask => d = relay.sock
                        /\ hist.told[relay.ask] # {} =>
                              \E n \in DOMAIN toRelay' : toRelay'[n].k = "result" /\ toRelay'[n].id = relay.ask
    BY <1>2, <1>6 DEF WaitInv, Waits
  <2>2. ASSUME hub'.ask.id = relay.ask PROVE c = relay.sock
    <3>1. CASE hub'.ask = hub.ask
      BY <1>1, <1>12, <2>1, <2>2, <3>1 DEF WaitInv, Waits
    <3>2. CASE hub'.ask = NoAsk
      BY <1>5, <2>1, <2>2, <3>2 DEF Waits
    <3>3. CASE f.k = "ask" /\ hub'.ask.id = f.id
      BY <1>1, <1>3, <2>1, <2>2, <3>3 DEF WaitInv, f
    <3> QED
      BY <1>6, <3>1, <3>2, <3>3
  <2>3. ASSUME NEW d \in Sockets, NEW n \in DOMAIN toHub'[d], toHub'[d][n].k = "ask",
               toHub'[d][n].id = relay.ask
        PROVE  d = relay.sock
    <3>1. PICK m \in DOMAIN toHub[d] : toHub'[d][n] = toHub[d][m]
      BY <1>14
    <3> QED
      BY <1>1, <2>1, <2>3, <3>1 DEF WaitInv
  <2>4. hist.told[relay.ask] # {} =>
            \E n \in DOMAIN toRelay' : toRelay'[n].k = "result" /\ toRelay'[n].id = relay.ask
    BY <1>1, <1>8, <2>1 DEF WaitInv
  <2> QED
    BY <2>2, <2>3, <2>4
<1>19. PhoneInv'
  BY <1>1, <1>2, <1>9 DEF PhoneInv
<1> QED
  BY <1>10, <1>11, <1>13, <1>16, <1>17, <1>18, <1>19 DEF IInv

-----------------------------------------------------------------------------
(* What the relay does.                                                    *)

\* A frame of the relay, other than a question, joins the others on its socket.
LEMMA RelaySends ==
    ASSUME IInv, NEW f \in HubFrames(made.asks), f.k \in {"snapshot", "cancel"},
           SendHub(relay.sock, f)
    PROVE  /\ toHub' \in [Sockets -> Seq(HubFrames(made.asks))]
           /\ \A d \in Sockets : d # relay.sock => toHub'[d] = toHub[d]
           /\ relay.sock # 0 => toHub'[relay.sock] # <<>>
           /\ \A d \in Sockets : \A n \in DOMAIN toHub[d] : n \in DOMAIN toHub'[d] /\ toHub'[d][n] = toHub[d][n]
           /\ \A d \in Sockets : \A n \in DOMAIN toHub'[d] :
                  \/ n \in DOMAIN toHub[d] /\ toHub'[d][n] = toHub[d][n]
                  \/ d = relay.sock /\ n = Len(toHub[d]) + 1 /\ toHub'[d][n] = f
<1>1. Types /\ RelayInv
  BY DEF IInv
<1>2. CASE relay.sock = 0
  <2>1. toHub' = toHub /\ \A d \in Sockets : d # relay.sock
    BY <1>2 DEF SendHub, Sockets
  <2> QED
    BY <1>1, <1>2, <2>1 DEF Types
<1>3. CASE relay.sock # 0
  <2> DEFINE t == Append(toHub[relay.sock], f)
  <2>1. relay.sock \in Sockets /\ toHub[relay.sock] \in Seq(HubFrames(made.asks))
    BY <1>1, <1>3, Fields, SMTT(90) DEF Types, Sockets, RelayInv
  <2>2. /\ t \in Seq(HubFrames(made.asks)) /\ t # <<>>
        /\ \A n \in DOMAIN toHub[relay.sock] : n \in DOMAIN t /\ t[n] = toHub[relay.sock][n]
        /\ \A n \in DOMAIN t :
              \/ n \in DOMAIN toHub[relay.sock] /\ t[n] = toHub[relay.sock][n]
              \/ n = Len(toHub[relay.sock]) + 1 /\ t[n] = f
    BY <2>1, Appended, SMT
  <2>3. toHub' = [toHub EXCEPT ![relay.sock] = t]
    BY <1>3 DEF SendHub
  <2> HIDE DEF t
  <2>4. /\ toHub'[relay.sock] = t /\ \A d \in Sockets : d # relay.sock => toHub'[d] = toHub[d]
        /\ toHub' \in [Sockets -> Seq(HubFrames(made.asks))]
    BY <1>1, <2>1, <2>2, <2>3 DEF Types
  <2> QED
    BY <2>2, <2>4
<1> QED
  BY <1>2, <1>3

\* It leaves sockets and questions in order, whatever the relay's other fields become.
LEMMA RelaySendsQuietly ==
    ASSUME IInv, NEW f \in HubFrames(made.asks), f.k \in {"snapshot", "cancel"},
           SendHub(relay.sock, f), relay'.sock = relay.sock,
           UNCHANGED <<hub, gone>>, made'.socks = made.socks, made'.asks = made.asks,
           hist'.told = hist.told, hist'.asked = hist.asked
    PROVE  SocketInv' /\ QuestionInv'
<1>1. Types /\ RelayInv /\ SocketInv /\ QuestionInv
  BY DEF IInv
<1>2. /\ \A d \in Sockets : d # relay.sock => toHub'[d] = toHub[d]
      /\ relay.sock # 0 => toHub'[relay.sock] # <<>>
      /\ \A d \in Sockets : \A n \in DOMAIN toHub[d] : n \in DOMAIN toHub'[d] /\ toHub'[d][n] = toHub[d][n]
      /\ \A d \in Sockets : \A n \in DOMAIN toHub'[d] :
             \/ n \in DOMAIN toHub[d] /\ toHub'[d][n] = toHub[d][n]
             \/ d = relay.sock /\ n = Len(toHub[d]) + 1 /\ toHub'[d][n] = f
  BY RelaySends
<1>3. f.k # "register" /\ f.k # "ask"
  OBVIOUS
<1>4. \A d \in Sockets : d # 0 /\ Len(toHub[d]) \in Nat /\ (Len(toHub[d]) = 0 => toHub[d] = <<>>)
  BY <1>1 DEF Types, Sockets
<1>5. SocketInv'
  <2>1. hub'.cur <= made'.socks /\ hub'.cur \notin gone' /\ (hub'.cur = 0 => hub'.ask = NoAsk)
    BY <1>1 DEF SocketInv
  <2>2. \A d \in gone' : d <= made'.socks /\ d # relay'.sock /\ toHub'[d] = <<>>
    BY <1>1, <1>2 DEF SocketInv, Types
  <2>3. \A d \in Sockets : d > made'.socks \/ d < hub'.cur => toHub'[d] = <<>>
    <3>1. \A d \in Sockets : d > made.socks \/ d < hub.cur => d # relay.sock
      BY <1>1, <1>4, Fields, SMTT(90) DEF RelayInv, SocketInv, Sockets
    <3> QED
      BY <1>1, <1>2, <3>1 DEF SocketInv
  <2>4. ASSUME NEW d \in Sockets, NEW n \in DOMAIN toHub'[d]
        PROVE  toHub'[d][n].k = "register" <=> d # hub'.cur /\ n = 1
    <3>1. CASE n \in DOMAIN toHub[d] /\ toHub'[d][n] = toHub[d][n]
      BY <1>1, <3>1 DEF SocketInv
    <3>2. CASE d = relay.sock /\ n = Len(toHub[d]) + 1 /\ toHub'[d][n] = f
      <4>1. d # hub.cur => toHub[d] # <<>>
        BY <1>1, <1>4, <3>2 DEF SocketInv
      <4>2. d # hub.cur => n # 1
        BY <1>4, <3>2, <4>1
      <4> QED
        BY <1>3, <3>2, <4>2
    <3> QED
      BY <1>2, <3>1, <3>2
  <2>5. relay'.sock # 0 /\ relay'.sock # hub'.cur => toHub'[relay'.sock] # <<>>
    BY <1>2
  <2> QED
    BY <2>1, <2>2, <2>3, <2>4, <2>5 DEF SocketInv
<1>6. \A d \in Sockets : \A n \in DOMAIN toHub'[d] :
          toHub'[d][n].k = "ask" => n \in DOMAIN toHub[d] /\ toHub'[d][n] = toHub[d][n]
  BY <1>2, <1>3
<1>7. QuestionInv'
  <2>1. /\ hub'.ask.id <= made'.asks
        /\ hub'.ask.id # 0 => hist'.told[hub'.ask.id] = {} /\ hub'.ask.epoch = hist'.asked[hub'.ask.id]
        /\ \A j \in 1..MaxAsks : j > made'.asks => hist'.told[j] = {}
    BY <1>1 DEF QuestionInv
  <2>2. ASSUME NEW d \in Sockets, NEW n \in DOMAIN toHub'[d], toHub'[d][n].k = "ask"
        PROVE  /\ hist'.told[toHub'[d][n].id] = {}
               /\ toHub'[d][n].id # hub'.ask.id
               /\ toHub'[d][n].epoch = hist'.asked[toHub'[d][n].id]
               /\ \A e \in Sockets : \A m \in DOMAIN toHub'[e] :
                      toHub'[e][m].k = "ask" /\ toHub'[e][m].id = toHub'[d][n].id => d = e /\ m = n
    <3>1. n \in DOMAIN toHub[d] /\ toHub'[d][n] = toHub[d][n] /\ toHub[d][n].k = "ask"
      BY <1>6, <2>2
    <3> QED
      BY <1>1, <1>6, <3>1 DEF QuestionInv
  <2> QED
    BY <2>1, <2>2 DEF QuestionInv
<1> QED
  BY <1>5, <1>7

LEMMA Settling ==
    ASSUME Types, relay.ask # 0, NEW who \in Phones \cup {"desktop"}, hist' = Settled(hist, who)
    PROVE  /\ hist' \in Histories /\ hist'.told = hist.told /\ hist'.asked = hist.asked
           /\ hist'.settled[relay.ask] = who
           /\ \A i \in 1..MaxAsks : i # relay.ask => hist'.settled[i] = hist.settled[i]
<1> DEFINE T == [hist.settled EXCEPT ![relay.ask] = who]
<1>1. relay.ask \in 1..MaxAsks /\ hist \in Histories
      /\ hist.settled \in [1..MaxAsks -> Phones \cup {"desktop", "open"}]
  <2>1. hist \in Histories /\ hist.settled \in [1..MaxAsks -> Phones \cup {"desktop", "open"}]
    BY Fields DEF Types
  <2>2. relay.ask \in 1..MaxAsks
    BY Fields
  <2> QED
    BY <2>1, <2>2
<1>2. T \in [1..MaxAsks -> Phones \cup {"desktop", "open"}] /\ T[relay.ask] = who
      /\ \A i \in 1..MaxAsks : i # relay.ask => T[i] = hist.settled[i]
  BY <1>1
<1>3. hist' = [hist EXCEPT !.settled = T]
  BY DEF Settled
<1> HIDE DEF T
<1>4. hist' \in Histories /\ hist'.settled = T /\ hist'.told = hist.told /\ hist'.asked = hist.asked
  BY <1>1, <1>2, <1>3 DEF Histories
<1> QED
  BY <1>2, <1>4

LEMMA Freed ==
    ASSUME Types
    PROVE  /\ Free(relay) \in Relays /\ Free(relay).ask = 0 /\ Free(relay).timer = "none"
           /\ Free(relay).sock = relay.sock /\ Free(relay).epoch = relay.epoch
           /\ Free(relay).registered = relay.registered /\ Free(relay).watched = relay.watched
<1>1. relay \in Relays /\ 0 \in 0..MaxAsks
  BY Fields DEF Types
<1> QED
  BY <1>1 DEF Free, Relays

\* The relay stops waiting; its frames from the hub are as before or one fewer.
LEMMA FreedKeeps ==
    ASSUME IInv, relay.ask # 0, relay' = Free(relay),
           NEW who \in Phones \cup {"desktop"}, hist' = Settled(hist, who),
           who \in Phones => hist.told[relay.ask] = {who},
           UNCHANGED <<hub, gone, selected, selecting, ghosts, phone, up, down, made>>,
           UNCHANGED toHub \/ SendHub(relay.sock, [k |-> "cancel", id |-> relay.ask]),
           toRelay' = toRelay \/ (toRelay # <<>> /\ toRelay' = Tail(toRelay))
    PROVE  IInv'
<1>1. Types /\ RelayInv /\ SocketInv /\ QuestionInv /\ AnswerInv /\ WaitInv /\ PhoneInv
  BY DEF IInv
<1>2. /\ hist' \in Histories /\ hist'.told = hist.told /\ hist'.asked = hist.asked
      /\ hist'.settled[relay.ask] = who
      /\ \A i \in 1..MaxAsks : i # relay.ask => hist'.settled[i] = hist.settled[i]
  BY <1>1, Settling
<1>3. /\ relay' \in Relays /\ relay'.ask = 0 /\ relay'.timer = "none" /\ relay'.sock = relay.sock
      /\ relay'.epoch = relay.epoch /\ relay'.registered = relay.registered
  BY <1>1, Freed
<1>4. /\ toRelay' \in Seq(RelayFrames(made.asks))
      /\ toRelay = <<>> => toRelay' = <<>>
      /\ \A n \in DOMAIN toRelay' : \E m \in DOMAIN toRelay : toRelay'[n] = toRelay[m]
  <2>1. toRelay \in Seq(RelayFrames(made.asks))
    BY <1>1 DEF Types
  <2>2. CASE toRelay' = toRelay
    BY <2>1, <2>2
  <2>3. CASE toRelay # <<>> /\ toRelay' = Tail(toRelay)
    <3> DEFINE S == RelayFrames(made.asks)
    <3>1. toRelay \in Seq(S)
      BY <2>1
    <3> HIDE DEF S
    <3>2. /\ Tail(toRelay) \in Seq(S)
          /\ \A n \in DOMAIN Tail(toRelay) : /\ n + 1 \in DOMAIN toRelay
                                             /\ Tail(toRelay)[n] = toRelay[n + 1]
      BY <2>3, <3>1, TailLeft, Zenon
    <3>3. \A n \in DOMAIN toRelay' : \E m \in DOMAIN toRelay : toRelay'[n] = toRelay[m]
      BY <2>3, <3>2, Zenon
    <3> QED
      BY <2>3, <3>2, <3>3 DEF S
  <2> QED
    BY <2>2, <2>3
<1>5. toHub' \in [Sockets -> Seq(HubFrames(made.asks))] /\ SocketInv' /\ QuestionInv'
  <2>1. CASE UNCHANGED toHub
    <3>1. SocketInv'
      BY <1>1, <1>3, <2>1 DEF SocketInv
    <3>2. QuestionInv'
      BY <1>1, <1>2, <2>1 DEF QuestionInv
    <3> QED
      BY <1>1, <2>1, <3>1, <3>2 DEF Types
  <2>2. CASE SendHub(relay.sock, [k |-> "cancel", id |-> relay.ask])
    <3>1. relay.ask \in 0..made.asks
      BY <1>1, Fields DEF RelayInv
    <3>2. [k |-> "cancel", id |-> relay.ask] \in HubFrames(made.asks)
      BY <3>1 DEF HubFrames
    <3> QED
      BY <1>2, <1>3, <2>2, <3>2, RelaySends, RelaySendsQuietly
  <2> QED
    BY <2>1, <2>2
<1>6. Types'
  BY <1>1, <1>2, <1>3, <1>4, <1>5 DEF Types
<1>7. RelayInv'
  BY <1>1, <1>2, <1>3, <1>4, Fields DEF RelayInv
<1>8. AnswerInv'
  <2>1. ASSUME NEW i \in 1..MaxAsks
        PROVE  /\ hist'.told[i] = {} \/ \E p \in Phones : hist'.told[i] = {p}
               /\ hist'.settled[i] \notin {"open", "desktop"} => hist'.told[i] = {hist'.settled[i]}
    BY <1>1, <1>2 DEF AnswerInv
  <2>2. ASSUME NEW n \in DOMAIN toRelay', toRelay'[n].k = "result"
        PROVE  /\ toRelay'[n].id # 0 /\ hist'.told[toRelay'[n].id] = {toRelay'[n].from}
               /\ toRelay'[n].epoch = hist'.asked[toRelay'[n].id]
    BY <1>1, <1>2, <1>4, <2>2, ZenonT(60) DEF AnswerInv
  <2> QED
    BY <2>1, <2>2 DEF AnswerInv
<1>9. WaitInv'
  BY <1>3 DEF WaitInv, Waits
<1>10. PhoneInv'
  BY <1>1 DEF PhoneInv
<1> QED
  BY <1>5, <1>6, <1>7, <1>8, <1>9, <1>10 DEF IInv

LEMMA RelayGivesUpKeeps ==
    ASSUME IInv, RelayGivesUp
    PROVE  IInv'
<1>1. relay.ask # 0
  BY DEF IInv, RelayInv, RelayGivesUp
<1>2. /\ relay' = Free(relay) /\ hist' = Settled(hist, "desktop")
      /\ SendHub(relay.sock, [k |-> "cancel", id |-> relay.ask])
      /\ UNCHANGED <<toRelay, hub, gone, selected, selecting, ghosts, phone, up, down, made>>
  BY DEF RelayGivesUp, FallBack, hubVars, phoneVars
<1>3. "desktop" \in Phones \cup {"desktop"} /\ "desktop" \notin Phones
  BY AskAssumption
<1> QED
  BY <1>1, <1>2, <1>3, FreedKeeps

\* A step that only changes what the relay thinks of its link and of its question's
\* timer, on a frame of the hub that is no answer to the question it waits for.
LEMMA HearsLittle ==
    ASSUME IInv, toRelay # <<>>, toRelay' = Tail(toRelay), relay' \in Relays,
           relay'.sock = relay.sock, relay'.epoch = relay.epoch, relay'.ask = relay.ask,
           relay'.timer = "none" <=> relay.ask = 0,
           toRelay[1].k = "result" /\ toRelay[1].id = relay.ask => toRelay[1].epoch # relay.epoch,
           UNCHANGED <<hub, gone, selected, selecting, ghosts, phone, up, down, made, toHub, hist>>
    PROVE  IInv'
<1>1. Types /\ RelayInv /\ SocketInv /\ QuestionInv /\ AnswerInv /\ WaitInv /\ PhoneInv
  BY DEF IInv
<1>2. /\ toRelay' \in Seq(RelayFrames(made.asks)) /\ relay.sock # 0
      /\ \A n \in DOMAIN toRelay' : n + 1 \in DOMAIN toRelay /\ toRelay'[n] = toRelay[n + 1]
      /\ \A n \in DOMAIN toRelay : n = 1 \/ (n - 1 \in DOMAIN toRelay' /\ toRelay'[n - 1] = toRelay[n])
  <2> DEFINE S == RelayFrames(made.asks)
  <2>1. toRelay \in Seq(S) /\ relay.sock # 0
    BY <1>1 DEF Types, RelayInv
  <2> HIDE DEF S
  <2>2. /\ Tail(toRelay) \in Seq(S)
        /\ \A n \in DOMAIN Tail(toRelay) : /\ n + 1 \in DOMAIN toRelay
                                           /\ Tail(toRelay)[n] = toRelay[n + 1]
        /\ \A n \in DOMAIN toRelay :
              n = 1 \/ (n - 1 \in DOMAIN Tail(toRelay) /\ Tail(toRelay)[n - 1] = toRelay[n])
    BY <2>1, TailLeft, Zenon
  <2> QED
    BY <2>1, <2>2, Zenon DEF S
<1>3. Types'
  BY <1>1, <1>2 DEF Types
<1>4. RelayInv'
  BY <1>1, <1>2 DEF RelayInv
<1>5. SocketInv'
  BY <1>1 DEF SocketInv
<1>6. QuestionInv'
  BY <1>1 DEF QuestionInv
<1>7. AnswerInv'
  <2>1. ASSUME NEW n \in DOMAIN toRelay', toRelay'[n].k = "result"
        PROVE  /\ toRelay'[n].id # 0 /\ hist'.told[toRelay'[n].id] = {toRelay'[n].from}
               /\ toRelay'[n].epoch = hist'.asked[toRelay'[n].id]
    BY <1>1, <1>2, <2>1, ZenonT(60) DEF AnswerInv
  <2> QED
    BY <1>1, <2>1 DEF AnswerInv
<1>8. WaitInv'
  <2>1. SUFFICES ASSUME Waits, hist.told[relay.ask] # {}
                 PROVE  \E n \in DOMAIN toRelay' : toRelay'[n].k = "result" /\ toRelay'[n].id = relay.ask
    BY <1>1 DEF WaitInv, Waits
  <2>2. PICK n \in DOMAIN toRelay : toRelay[n].k = "result" /\ toRelay[n].id = relay.ask
    BY <1>1, <2>1 DEF WaitInv
  <2>3. toRelay[n].epoch = relay.epoch
    BY <1>1, <2>1, <2>2 DEF AnswerInv, Waits
  <2>4. n # 1
    BY <2>2, <2>3
  <2> QED
    BY <1>2, <2>2, <2>4
<1>9. PhoneInv'
  BY <1>1 DEF PhoneInv
<1> QED
  BY <1>3, <1>4, <1>5, <1>6, <1>7, <1>8, <1>9 DEF IInv

LEMMA RelayHearsKeeps ==
    ASSUME IInv, RelayHears
    PROVE  IInv'
<1> DEFINE f == toRelay[1]
<1> DEFINE mine == relay.ask # 0 /\ f.id = relay.ask
<1>1. /\ Types /\ RelayInv /\ AnswerInv /\ toRelay # <<>> /\ toRelay' = Tail(toRelay)
      /\ UNCHANGED <<hub, gone, selected, selecting, ghosts, phone, up, down, made>>
  BY DEF IInv, RelayHears, hubVars, phoneVars
<1>2. Head(toRelay) = f /\ f \in RelayFrames(made.asks) /\ 1 \in DOMAIN toRelay
  <2>1. toRelay \in Seq(RelayFrames(made.asks))
    BY <1>1 DEF Types
  <2> QED
    BY <1>1, <2>1, TailLeft
<1>3. /\ f.k = "status" => f.watched \in BOOLEAN
      /\ f.k = "result" => f.from \in Phones
  BY <1>2 DEF RelayFrames
<1>4. f.k = "result" => f.id # 0 /\ hist.told[f.id] = {f.from}
  BY <1>1, <1>2 DEF AnswerInv
<1>5. relay \in Relays /\ (relay.timer = "none" <=> relay.ask = 0)
  BY <1>1 DEF Types, RelayInv
<1>6. /\ [relay EXCEPT !.registered = TRUE] \in Relays
      /\ f.k = "status" => [relay EXCEPT !.watched = f.watched] \in Relays
      /\ [relay EXCEPT !.timer = "answer"] \in Relays
  BY <1>3, <1>5 DEF Relays
<1>7. \/ /\ f.k = "registered"
         /\ relay' = IF f.epoch = relay.epoch THEN [relay EXCEPT !.registered = TRUE] ELSE relay
         /\ UNCHANGED <<toHub, hist>>
      \/ /\ f.k = "status" /\ relay' = [relay EXCEPT !.watched = f.watched]
         /\ UNCHANGED <<toHub, hist>>
      \/ /\ f.k = "claimed"
         /\ relay' = IF mine THEN [relay EXCEPT !.timer = "answer"] ELSE relay
         /\ UNCHANGED <<toHub, hist>>
      \/ /\ f.k = "result" /\ mine /\ f.epoch = relay.epoch
         /\ relay' = Free(relay) /\ hist' = Settled(hist, f.from)
         /\ UNCHANGED toHub
      \/ mine /\ FallBack
      \/ /\ f.k \in {"result", "declined"} /\ ~mine
         /\ UNCHANGED <<relay, toHub, hist>>
      \/ /\ f.k = "result" /\ f.epoch # relay.epoch
         /\ UNCHANGED <<relay, toHub, hist>>
  BY <1>2 DEF RelayHears
<1> HIDE DEF f
<1>8. CASE /\ f.k = "registered" /\ UNCHANGED <<toHub, hist>>
           /\ relay' = IF f.epoch = relay.epoch THEN [relay EXCEPT !.registered = TRUE] ELSE relay
  <2>1. /\ relay' \in Relays /\ relay'.sock = relay.sock /\ relay'.epoch = relay.epoch
        /\ relay'.ask = relay.ask /\ relay'.timer = relay.timer
    BY <1>5, <1>6, <1>8 DEF Relays
  <2> QED
    BY <1>1, <1>5, <1>8, <2>1, HearsLittle DEF f
<1>9. CASE /\ f.k = "status" /\ relay' = [relay EXCEPT !.watched = f.watched] /\ UNCHANGED <<toHub, hist>>
  <2>1. /\ relay' \in Relays /\ relay'.sock = relay.sock /\ relay'.epoch = relay.epoch
        /\ relay'.ask = relay.ask /\ relay'.timer = relay.timer
    BY <1>5, <1>6, <1>9 DEF Relays
  <2> QED
    BY <1>1, <1>5, <1>9, <2>1, HearsLittle DEF f
<1>10. CASE /\ f.k = "claimed" /\ UNCHANGED <<toHub, hist>>
            /\ relay' = IF mine THEN [relay EXCEPT !.timer = "answer"] ELSE relay
  <2>1. /\ relay' \in Relays /\ relay'.sock = relay.sock /\ relay'.epoch = relay.epoch
        /\ relay'.ask = relay.ask /\ (relay'.timer = "none" <=> relay.ask = 0)
    BY <1>5, <1>6, <1>10 DEF Relays
  <2> QED
    BY <1>1, <1>10, <2>1, HearsLittle DEF f
<1>11. CASE /\ f.k = "result" /\ mine /\ f.epoch = relay.epoch
            /\ relay' = Free(relay) /\ hist' = Settled(hist, f.from) /\ UNCHANGED toHub
  <2>1. f.from \in Phones \cup {"desktop"} /\ relay.ask # 0 /\ hist.told[relay.ask] = {f.from}
    BY <1>3, <1>4, <1>11
  <2> QED
    BY <1>1, <1>11, <2>1, FreedKeeps
<1>12. CASE mine /\ FallBack
  <2>1. "desktop" \in Phones \cup {"desktop"} /\ "desktop" \notin Phones /\ relay.ask # 0
    BY <1>12, AskAssumption
  <2> QED
    BY <1>1, <1>12, <2>1, FreedKeeps DEF FallBack
<1>13. CASE f.k \in {"result", "declined"} /\ ~mine /\ UNCHANGED <<relay, toHub, hist>>
  <2>1. f.k = "result" => f.id # relay.ask
    BY <1>4, <1>13
  <2> QED
    BY <1>1, <1>5, <1>13, <2>1, HearsLittle DEF f
<1>14. CASE f.k = "result" /\ f.epoch # relay.epoch /\ UNCHANGED <<relay, toHub, hist>>
  BY <1>1, <1>5, <1>14, HearsLittle DEF f
<1> QED
  BY <1>7, <1>8, <1>9, <1>10, <1>11, <1>12, <1>13, <1>14

LEMMA Mishaps ==
    ASSUME Types, made.mishaps < MaxMishaps, NEW e \in Nat,
           made' = [made EXCEPT !.epochs = e, !.mishaps = @ + 1]
    PROVE  /\ made' \in [socks : 0..(MaxMishaps + 1), epochs : Nat, asks : 0..MaxAsks, mishaps : 0..MaxMishaps]
           /\ made'.socks = made.socks /\ made'.epochs = e /\ made'.asks = made.asks
           /\ made'.mishaps = made.mishaps + 1
<1>1. /\ made \in [socks : 0..(MaxMishaps + 1), epochs : Nat, asks : 0..MaxAsks, mishaps : 0..MaxMishaps]
      /\ made.mishaps \in 0..MaxMishaps /\ MaxMishaps \in Nat
  BY AskAssumption DEF Types
<1>2. made.mishaps + 1 \in 0..MaxMishaps
  BY <1>1
<1> QED
  BY <1>1, <1>2

\* The relay leaves its socket.
LEMMA LeavesKeeps ==
    ASSUME IInv, Mishap, relay' \in Relays, relay'.sock = 0, ~relay'.registered,
           relay'.epoch = relay.epoch, relay'.ask \in {0, relay.ask},
           relay'.timer = "none" <=> relay'.ask = 0, toRelay' = <<>>,
           hist' = hist \/ (relay.ask # 0 /\ hist' = Settled(hist, "desktop")),
           UNCHANGED <<toHub, hub, gone, selected, selecting, ghosts, phone, up, down>>
    PROVE  IInv'
<1>1. Types /\ RelayInv /\ SocketInv /\ QuestionInv /\ AnswerInv /\ WaitInv /\ PhoneInv
  BY DEF IInv
<1>2. /\ made' \in [socks : 0..(MaxMishaps + 1), epochs : Nat, asks : 0..MaxAsks, mishaps : 0..MaxMishaps]
      /\ made'.socks = made.socks /\ made'.epochs = made.epochs /\ made'.asks = made.asks
      /\ made'.mishaps = made.mishaps + 1
  <2>1. made.epochs \in Nat /\ made' = [made EXCEPT !.epochs = made.epochs, !.mishaps = @ + 1]
    BY <1>1 DEF Mishap, Types
  <2> QED
    BY <1>1, <2>1, Mishaps DEF Mishap
<1>3. /\ hist' \in Histories /\ hist'.told = hist.told /\ hist'.asked = hist.asked
      /\ \A i \in 1..MaxAsks : hist'.settled[i] \in {hist.settled[i], "desktop"}
  <2>1. CASE hist' = hist
    BY <1>1, <2>1 DEF Types
  <2>2. CASE relay.ask # 0 /\ hist' = Settled(hist, "desktop")
    BY <1>1, <2>2, Settling
  <2> QED
    BY <2>1, <2>2
<1>4. <<>> \in Seq(RelayFrames(made.asks)) /\ DOMAIN <<>> = {}
  OBVIOUS
<1>5. Types'
  BY <1>1, <1>2, <1>3, <1>4 DEF Types
<1>6. RelayInv'
  <2>1. /\ made.asks \in Nat /\ made.socks \in Nat /\ made.mishaps \in Nat /\ made.epochs \in Nat
        /\ relay.sock \in Nat /\ relay.ask \in Nat
    BY <1>1, Fields
  <2>2. made'.socks <= made'.mishaps
    BY <1>1, <1>2, <2>1 DEF RelayInv
  <2>3. relay'.ask <= made'.asks
    BY <1>1, <1>2, <2>1 DEF RelayInv
  <2>4. relay'.epoch <= made'.epochs /\ \A i \in 1..MaxAsks : hist'.asked[i] <= made'.epochs
    BY <1>1, <1>2, <1>3 DEF RelayInv
  <2>5. made'.socks <= made'.mishaps + 0
    BY <1>2, <2>1, <2>2
  <2> QED
    BY <2>3, <2>4, <2>5 DEF RelayInv
<1>7. SocketInv'
  <2>1. \A c \in gone : c # 0
    BY <1>1 DEF Types, Sockets
  <2> QED
    BY <1>1, <1>2, <2>1 DEF SocketInv
<1>8. QuestionInv'
  BY <1>1, <1>2, <1>3 DEF QuestionInv
<1>9. AnswerInv'
  BY <1>1, <1>3, <1>4 DEF AnswerInv
<1>10. WaitInv'
  BY DEF WaitInv, Waits
<1>11. PhoneInv'
  BY <1>1, <1>2 DEF PhoneInv
<1> QED
  BY <1>5, <1>6, <1>7, <1>8, <1>9, <1>10, <1>11 DEF IInv

LEMMA RelayDropsKeeps ==
    ASSUME IInv, RelayDrops
    PROVE  IInv'
<1>1. relay \in Relays /\ 0 \in 0..(MaxMishaps + 1) /\ (relay.timer = "none" <=> relay.ask = 0)
  BY AskAssumption DEF IInv, Types, RelayInv
<1>2. relay' = [relay EXCEPT !.sock = 0, !.registered = FALSE]
  BY DEF RelayDrops
<1>3. /\ relay' \in Relays /\ relay'.sock = 0 /\ ~relay'.registered /\ relay'.epoch = relay.epoch
      /\ relay'.ask = relay.ask /\ relay'.timer = relay.timer
  BY <1>1, <1>2 DEF Relays
<1> QED
  BY <1>1, <1>3, LeavesKeeps DEF RelayDrops, hubVars, phoneVars

LEMMA RelayStopsKeeps ==
    ASSUME IInv, RelayStops
    PROVE  IInv'
<1>1. Types /\ 0 \in 0..(MaxMishaps + 1)
  BY AskAssumption DEF IInv
<1>2. relay' = [Free(relay) EXCEPT !.sock = 0, !.registered = FALSE, !.watched = FALSE]
  BY DEF RelayStops
<1>3. /\ relay' \in Relays /\ relay'.sock = 0 /\ ~relay'.registered /\ relay'.epoch = relay.epoch
      /\ relay'.ask = 0 /\ relay'.timer = "none"
  <2> DEFINE r == Free(relay)
  <2>1. r \in Relays /\ r.ask = 0 /\ r.timer = "none" /\ r.epoch = relay.epoch
    BY <1>1, Freed
  <2>2. relay' = [r EXCEPT !.sock = 0, !.registered = FALSE, !.watched = FALSE]
    BY <1>2
  <2> HIDE DEF r
  <2> QED
    BY <1>1, <2>1, <2>2 DEF Relays
<1> QED
  BY <1>3, LeavesKeeps DEF RelayStops, hubVars, phoneVars

\* A new epoch: nothing is waited for in it.
LEMMA RelayResnapshotsKeeps ==
    ASSUME IInv, RelayResnapshots
    PROVE  IInv'
<1> DEFINE e == made.epochs + 1
<1> DEFINE f == [k |-> "snapshot", epoch |-> e]
<1>1. Types /\ RelayInv /\ SocketInv /\ QuestionInv /\ AnswerInv /\ WaitInv /\ PhoneInv
  BY DEF IInv
<1>2. /\ relay.sock # 0 /\ made.mishaps < MaxMishaps
      /\ relay' = [relay EXCEPT !.registered = TRUE, !.epoch = e] /\ SendHub(relay.sock, f)
      /\ made' = [made EXCEPT !.epochs = e, !.mishaps = @ + 1]
      /\ UNCHANGED <<toRelay, hub, gone, selected, selecting, ghosts, phone, up, down, hist>>
  BY DEF RelayResnapshots, hubVars, phoneVars
<1>3. e \in Nat /\ made.epochs \in Nat /\ e > made.epochs
  BY <1>1, Fields, SMTT(30)
<1>4. f \in HubFrames(made.asks) /\ f.k = "snapshot"
  BY <1>3 DEF HubFrames
<1> HIDE DEF e, f
<1>5. /\ made' \in [socks : 0..(MaxMishaps + 1), epochs : Nat, asks : 0..MaxAsks, mishaps : 0..MaxMishaps]
      /\ made'.socks = made.socks /\ made'.epochs = e /\ made'.asks = made.asks
      /\ made'.mishaps = made.mishaps + 1
  BY <1>1, <1>2, <1>3, Mishaps
<1>6. /\ relay' \in Relays /\ relay'.sock = relay.sock /\ relay'.epoch = e
      /\ relay'.ask = relay.ask /\ relay'.timer = relay.timer
  BY <1>1, <1>2, <1>3 DEF Types, Relays
<1>7. toHub' \in [Sockets -> Seq(HubFrames(made.asks))] /\ SocketInv' /\ QuestionInv'
  BY <1>2, <1>4, <1>5, <1>6, RelaySends, RelaySendsQuietly
<1>8. Types'
  BY <1>1, <1>2, <1>5, <1>6, <1>7 DEF Types
<1>9. RelayInv'
  <2>1. made.asks \in Nat /\ made.socks \in Nat /\ made.mishaps \in Nat /\ hist.asked \in [1..MaxAsks -> Nat]
    BY <1>1, Fields
  <2>2. made'.socks <= made'.mishaps + 1
    BY <1>1, <1>2, <1>5, <2>1 DEF RelayInv
  <2>3. \A i \in 1..MaxAsks : hist'.asked[i] <= made'.epochs
    <3> SUFFICES ASSUME NEW i \in 1..MaxAsks PROVE hist.asked[i] <= e
      BY <1>2, <1>5
    <3>1. hist.asked[i] \in Nat /\ hist.asked[i] <= made.epochs
      BY <1>1, <2>1 DEF RelayInv
    <3> QED
      BY <1>3, <3>1
  <2> QED
    BY <1>1, <1>2, <1>3, <1>5, <1>6, <2>2, <2>3 DEF RelayInv
<1>10. AnswerInv'
  BY <1>1, <1>2 DEF AnswerInv
<1>11. WaitInv'
  <2>1. relay.ask # 0 => hist.asked[relay.ask] # e
    BY <1>1, <1>3, Fields, SMTT(30) DEF RelayInv
  <2> QED
    BY <1>2, <1>6, <2>1 DEF WaitInv, Waits
<1>12. PhoneInv'
  BY <1>1, <1>2, <1>5 DEF PhoneInv
<1> QED
  BY <1>7, <1>8, <1>9, <1>10, <1>11, <1>12 DEF IInv

\* A new socket, of which the hub knows nothing, and a new epoch.
LEMMA RelayConnectsKeeps ==
    ASSUME IInv, RelayConnects
    PROVE  IInv'
<1> DEFINE e == made.epochs + 1
<1> DEFINE c == made.socks + 1
<1> DEFINE f == [k |-> "register", epoch |-> e]
<1>1. Types /\ RelayInv /\ SocketInv /\ QuestionInv /\ AnswerInv /\ WaitInv /\ PhoneInv
  BY DEF IInv
<1>2. /\ relay.sock = 0 /\ relay' = [relay EXCEPT !.sock = c, !.registered = FALSE, !.epoch = e]
      /\ SendHub(c, f) /\ made' = [made EXCEPT !.socks = c, !.epochs = e]
      /\ UNCHANGED <<toRelay, hub, gone, selected, selecting, ghosts, phone, up, down, hist>>
  BY DEF RelayConnects, hubVars, phoneVars
<1>3. /\ e \in Nat /\ made.epochs \in Nat /\ e > made.epochs /\ c > made.socks /\ c # 0 /\ made.socks \in Nat
      /\ c \in Sockets /\ c \in 0..(MaxMishaps + 1) /\ c <= made.mishaps + 1
  <2>1. /\ made.epochs \in Nat /\ made.socks \in Nat /\ made.mishaps \in Nat /\ MaxMishaps \in Nat
        /\ made.mishaps <= MaxMishaps
    BY <1>1, Fields
  <2>2. made.socks <= made.mishaps
    BY <1>1, <1>2, <2>1 DEF RelayInv
  <2> QED
    BY <2>1, <2>2 DEF Sockets
<1>4. f \in HubFrames(made.asks) /\ f.k = "register"
  BY <1>3 DEF HubFrames
<1>5. toHub[c] = <<>> /\ c # hub.cur /\ c \notin gone
  BY <1>1, <1>3, Fields, SMTT(90) DEF SocketInv
<1> HIDE DEF e, c, f
<1>6. /\ toHub' \in [Sockets -> Seq(HubFrames(made.asks))] /\ toHub'[c] = <<f>>
      /\ \A d \in Sockets : d # c => toHub'[d] = toHub[d]
  <2>1. Append(toHub[c], f) = <<f>>
    BY <1>5
  <2>2. toHub' = [toHub EXCEPT ![c] = <<f>>]
    BY <1>2, <1>3, <2>1 DEF SendHub
  <2>3. <<f>> \in Seq(HubFrames(made.asks))
    BY <1>4
  <2> QED
    BY <1>1, <1>3, <2>2, <2>3 DEF Types
<1>7. \A d \in Sockets : \A n \in DOMAIN toHub'[d] :
         IF d = c THEN n = 1 /\ toHub'[d][n] = f
         ELSE n \in DOMAIN toHub[d] /\ toHub'[d] = toHub[d]
  <2>1. <<f>>[1] = f /\ \A n \in DOMAIN <<f>> : n = 1
    OBVIOUS
  <2> QED
    BY <1>6, <2>1
<1>8. /\ made' \in [socks : 0..(MaxMishaps + 1), epochs : Nat, asks : 0..MaxAsks, mishaps : 0..MaxMishaps]
      /\ made'.socks = c /\ made'.epochs = e /\ made'.asks = made.asks /\ made'.mishaps = made.mishaps
  BY <1>1, <1>2, <1>3 DEF Types
<1>9. /\ relay' \in Relays /\ relay'.sock = c /\ relay'.epoch = e
      /\ relay'.ask = relay.ask /\ relay'.timer = relay.timer
  BY <1>1, <1>2, <1>3 DEF Types, Relays
<1>10. Types'
  BY <1>1, <1>2, <1>6, <1>8, <1>9 DEF Types
<1>11. RelayInv'
  <2>1. hist.asked \in [1..MaxAsks -> Nat]
    BY <1>1, Fields
  <2>2. \A i \in 1..MaxAsks : hist'.asked[i] <= made'.epochs
    <3> SUFFICES ASSUME NEW i \in 1..MaxAsks PROVE hist.asked[i] <= e
      BY <1>2, <1>8
    <3>1. hist.asked[i] \in Nat /\ hist.asked[i] <= made.epochs
      BY <1>1, <2>1 DEF RelayInv
    <3> QED
      BY <1>3, <3>1
  <2> QED
    BY <1>1, <1>2, <1>3, <1>8, <1>9, <2>2 DEF RelayInv
<1>12. SocketInv'
  <2>1. hub'.cur <= made'.socks /\ hub'.cur \notin gone' /\ (hub'.cur = 0 => hub'.ask = NoAsk)
    BY <1>1, <1>2, <1>3, <1>8, Fields, SMTT(30) DEF SocketInv
  <2>2. \A d \in gone' : d <= made'.socks /\ d # relay'.sock /\ toHub'[d] = <<>>
    <3>1. \A d \in gone : d \in Nat /\ d \in Sockets
      BY <1>1, AskAssumption DEF Types, Sockets
    <3> QED
      BY <1>1, <1>2, <1>3, <1>5, <1>6, <1>8, <1>9, <3>1 DEF SocketInv
  <2>3. \A d \in Sockets : d > made'.socks \/ d < hub'.cur => toHub'[d] = <<>>
    <3>1. \A d \in Sockets : d > c \/ d < hub.cur => d # c /\ (d > made.socks \/ d < hub.cur)
      BY <1>1, <1>3, Fields, SMTT(90) DEF SocketInv, Sockets
    <3> QED
      BY <1>1, <1>2, <1>6, <1>8, <3>1 DEF SocketInv
  <2>4. ASSUME NEW d \in Sockets, NEW n \in DOMAIN toHub'[d]
        PROVE  toHub'[d][n].k = "register" <=> d # hub'.cur /\ n = 1
    <3>1. CASE d = c
      BY <1>2, <1>4, <1>5, <1>7, <3>1
    <3>2. CASE d # c
      BY <1>1, <1>2, <1>7, <3>2 DEF SocketInv
    <3> QED
      BY <3>1, <3>2
  <2>5. toHub'[relay'.sock] # <<>>
    <3>1. <<f>> # <<>>
      OBVIOUS
    <3> QED
      BY <1>6, <1>9, <3>1
  <2> QED
    BY <2>1, <2>2, <2>3, <2>4, <2>5 DEF SocketInv
<1>13. QuestionInv'
  <2>1. /\ hub'.ask.id <= made'.asks
        /\ hub'.ask.id # 0 => hist'.told[hub'.ask.id] = {} /\ hub'.ask.epoch = hist'.asked[hub'.ask.id]
        /\ \A j \in 1..MaxAsks : j > made'.asks => hist'.told[j] = {}
    BY <1>1, <1>2, <1>8 DEF QuestionInv
  <2>2. \A d \in Sockets : \A n \in DOMAIN toHub'[d] :
            toHub'[d][n].k = "ask" => n \in DOMAIN toHub[d] /\ toHub'[d] = toHub[d]
    BY <1>4, <1>7
  <2>3. ASSUME NEW d \in Sockets, NEW n \in DOMAIN toHub'[d], toHub'[d][n].k = "ask"
        PROVE  /\ hist'.told[toHub'[d][n].id] = {}
               /\ toHub'[d][n].id # hub'.ask.id
               /\ toHub'[d][n].epoch = hist'.asked[toHub'[d][n].id]
               /\ \A b \in Sockets : \A m \in DOMAIN toHub'[b] :
                      toHub'[b][m].k = "ask" /\ toHub'[b][m].id = toHub'[d][n].id => d = b /\ m = n
    <3>1. n \in DOMAIN toHub[d] /\ toHub'[d] = toHub[d]
      BY <2>2, <2>3
    <3> QED
      BY <1>1, <1>2, <2>2, <2>3, <3>1 DEF QuestionInv
  <2> QED
    BY <2>1, <2>3 DEF QuestionInv
<1>14. AnswerInv'
  BY <1>1, <1>2 DEF AnswerInv
<1>15. WaitInv'
  <2>1. relay.ask # 0 => hist.asked[relay.ask] # e
    BY <1>1, <1>3, Fields, SMTT(90) DEF RelayInv
  <2> QED
    BY <1>2, <1>9, <2>1 DEF WaitInv, Waits
<1>16. PhoneInv'
  BY <1>1, <1>2, <1>8 DEF PhoneInv
<1> QED
  BY <1>10, <1>11, <1>12, <1>13, <1>14, <1>15, <1>16 DEF IInv

\* A question is new: the hub has not heard of it and nobody has answered it.
LEMMA RelayAsksKeeps ==
    ASSUME IInv, RelayAsks
    PROVE  IInv'
<1> DEFINE i == made.asks + 1
<1> DEFINE f == [k |-> "ask", id |-> i, epoch |-> relay.epoch]
<1> DEFINE c == relay.sock
<1>1. Types /\ RelayInv /\ SocketInv /\ QuestionInv /\ AnswerInv /\ WaitInv /\ PhoneInv
  BY DEF IInv
<1>2. /\ relay.ask = 0 /\ c # 0 /\ made.asks < MaxAsks /\ made' = [made EXCEPT !.asks = i]
      /\ relay' = [relay EXCEPT !.ask = i, !.timer = "claim"] /\ SendHub(c, f)
      /\ hist' = [hist EXCEPT !.asked[i] = relay.epoch]
      /\ UNCHANGED <<toRelay, hub, gone, selected, selecting, ghosts, phone, up, down>>
  BY DEF RelayAsks, hubVars, phoneVars
<1>3. /\ i \in Nat /\ made.asks \in Nat /\ i > made.asks /\ i # 0 /\ i \in 1..i /\ i \in 1..MaxAsks /\ i \in 0..MaxAsks
      /\ made.asks <= i /\ relay.epoch \in Nat
  BY <1>1, <1>2, Fields, SMTT(30)
<1>4. f \in HubFrames(i) /\ f.k = "ask" /\ f.id = i /\ f.epoch = relay.epoch
  BY <1>3 DEF HubFrames
<1>5. c \in Sockets /\ c = made.socks
  BY <1>1, <1>2, Fields DEF RelayInv, Sockets
<1>6. /\ HubFrames(made.asks) \subseteq HubFrames(i) /\ RelayFrames(made.asks) \subseteq RelayFrames(i)
      /\ UpFrames(made.asks) \subseteq UpFrames(i) /\ DownFrames(made.asks) \subseteq DownFrames(i)
  BY <1>3, FramesGrow
<1> HIDE DEF i, f, c
<1>7. /\ made' \in [socks : 0..(MaxMishaps + 1), epochs : Nat, asks : 0..MaxAsks, mishaps : 0..MaxMishaps]
      /\ made'.socks = made.socks /\ made'.epochs = made.epochs /\ made'.asks = i
      /\ made'.mishaps = made.mishaps
  BY <1>1, <1>2, <1>3 DEF Types
<1>8. /\ relay' \in Relays /\ relay'.sock = relay.sock /\ relay'.epoch = relay.epoch
      /\ relay'.ask = i /\ relay'.timer = "claim" /\ relay'.registered = relay.registered
  BY <1>1, <1>2, <1>3 DEF Types, Relays
<1>9. /\ hist' \in Histories /\ hist'.told = hist.told /\ hist'.settled = hist.settled
      /\ hist'.asked[i] = relay.epoch /\ \A j \in 1..MaxAsks : j # i => hist'.asked[j] = hist.asked[j]
  <2> DEFINE T == [hist.asked EXCEPT ![i] = relay.epoch]
  <2>1. hist \in Histories /\ hist.asked \in [1..MaxAsks -> Nat]
    BY <1>1, Fields DEF Types
  <2>2. T \in [1..MaxAsks -> Nat] /\ T[i] = relay.epoch /\ \A j \in 1..MaxAsks : j # i => T[j] = hist.asked[j]
    BY <1>3, <2>1
  <2>3. hist' = [hist EXCEPT !.asked = T]
    BY <1>2
  <2> HIDE DEF T
  <2>4. hist' \in Histories /\ hist'.asked = T /\ hist'.told = hist.told /\ hist'.settled = hist.settled
    BY <2>1, <2>2, <2>3 DEF Histories
  <2> QED
    BY <2>2, <2>4
<1>10. /\ \A d \in Sockets : toHub[d] \in Seq(HubFrames(i))
       /\ toRelay \in Seq(RelayFrames(i)) /\ up \in [Phones -> Seq(UpFrames(i))]
       /\ down \in [Phones -> Seq(DownFrames(i))]
  <2>1. \A d \in Sockets : toHub[d] \in Seq(HubFrames(i))
    BY <1>1, <1>6, SeqMonotonic DEF Types
  <2>2. toRelay \in Seq(RelayFrames(i))
    BY <1>1, <1>6, SeqMonotonic DEF Types
  <2>3. \A p \in Phones : up[p] \in Seq(UpFrames(i)) /\ down[p] \in Seq(DownFrames(i))
    BY <1>1, <1>6, SeqMonotonic DEF Types
  <2> QED
    BY <1>1, <2>1, <2>2, <2>3 DEF Types
<1>11. /\ toHub' \in [Sockets -> Seq(HubFrames(i))] /\ toHub'[c] # <<>>
       /\ \A d \in Sockets : d # c => toHub'[d] = toHub[d]
       /\ \A d \in Sockets : \A n \in DOMAIN toHub'[d] :
             \/ n \in DOMAIN toHub[d] /\ toHub'[d][n] = toHub[d][n]
             \/ d = c /\ n = Len(toHub[c]) + 1 /\ toHub'[d][n] = f
  <2> DEFINE s == toHub[c]
  <2> DEFINE t == Append(s, f)
  <2> DEFINE S == HubFrames(i)
  <2>1. s \in Seq(S) /\ f \in S
    BY <1>4, <1>5, <1>10
  <2>2. toHub' = [toHub EXCEPT ![c] = t]
    BY <1>2 DEF SendHub
  <2> HIDE DEF S
  <2>3. /\ t \in Seq(S) /\ t # <<>>
        /\ \A n \in DOMAIN t : \/ n \in DOMAIN s /\ t[n] = s[n]
                               \/ n = Len(s) + 1 /\ t[n] = f
    BY <2>1, Appended, SMT
  <2> HIDE DEF t
  <2>4. toHub'[c] = t /\ \A d \in Sockets : d # c => toHub'[d] = toHub[d]
    BY <1>1, <1>5, <2>2 DEF Types
  <2>5. toHub' \in [Sockets -> Seq(S)]
    <3>1. \A d \in Sockets : toHub'[d] \in Seq(S)
      BY <1>10, <2>3, <2>4 DEF S
    <3>2. DOMAIN toHub' = Sockets /\ toHub' = [d \in Sockets |-> toHub'[d]]
      BY <1>1, <2>2 DEF Types
    <3> QED
      BY <3>1, <3>2
  <2> QED
    BY <2>3, <2>4, <2>5 DEF S
<1>12. Types'
  BY <1>1, <1>2, <1>7, <1>8, <1>9, <1>10, <1>11 DEF Types
<1>13. RelayInv'
  <2>1. \A j \in 1..MaxAsks : hist'.asked[j] <= made'.epochs
    BY <1>1, <1>7, <1>9 DEF RelayInv
  <2>2. made'.socks <= made'.mishaps + (IF relay'.sock = 0 THEN 0 ELSE 1)
    BY <1>1, <1>7, <1>8 DEF RelayInv
  <2> QED
    BY <1>1, <1>2, <1>3, <1>7, <1>8, <2>1, <2>2 DEF RelayInv, c
<1>14. Len(toHub[c]) \in Nat /\ (Len(toHub[c]) = 0 => toHub[c] = <<>>)
  BY <1>5, <1>10
<1>15. SocketInv'
  <2>1. hub'.cur <= made'.socks /\ hub'.cur \notin gone' /\ (hub'.cur = 0 => hub'.ask = NoAsk)
    BY <1>1, <1>2, <1>7 DEF SocketInv
  <2>2. \A d \in gone' : d <= made'.socks /\ d # relay'.sock /\ toHub'[d] = <<>>
    BY <1>1, <1>2, <1>7, <1>8, <1>11 DEF SocketInv, Types, c
  <2>3. \A d \in Sockets : d > made'.socks \/ d < hub'.cur => toHub'[d] = <<>>
    <3>1. \A d \in Sockets : d > made.socks \/ d < hub.cur => d # c
      BY <1>1, <1>5, Fields DEF SocketInv, Sockets
    <3> QED
      BY <1>1, <1>2, <1>7, <1>11, <3>1 DEF SocketInv
  <2>4. ASSUME NEW d \in Sockets, NEW n \in DOMAIN toHub'[d]
        PROVE  toHub'[d][n].k = "register" <=> d # hub'.cur /\ n = 1
    <3>1. CASE n \in DOMAIN toHub[d] /\ toHub'[d][n] = toHub[d][n]
      BY <1>1, <1>2, <3>1 DEF SocketInv
    <3>2. CASE d = c /\ n = Len(toHub[c]) + 1 /\ toHub'[d][n] = f
      <4>1. c # hub.cur => toHub[c] # <<>>
        BY <1>1, <1>2 DEF SocketInv, c
      <4>2. c # hub.cur => n # 1
        BY <1>14, <3>2, <4>1
      <4> QED
        BY <1>2, <1>4, <3>2, <4>2
    <3> QED
      BY <1>11, <3>1, <3>2
  <2>5. toHub'[relay'.sock] # <<>>
    BY <1>8, <1>11 DEF c
  <2> QED
    BY <2>1, <2>2, <2>3, <2>4, <2>5 DEF SocketInv
<1>16. hub.ask.id \in Nat /\ hub.ask.id # i /\ hist.told[i] = {}
  BY <1>1, <1>3, Fields DEF QuestionInv
<1>17. \A d \in Sockets : \A n \in DOMAIN toHub[d] :
           toHub[d][n].k = "ask" => toHub[d][n].id \in 1..MaxAsks /\ toHub[d][n].id # i
  <2>1. \A j \in 1..made.asks : j \in 1..MaxAsks /\ j # i
    BY <1>2, <1>3, AskAssumption
  <2> QED
    BY <1>1, <2>1, AsksNumbered
<1>18. \A d \in Sockets : \A n \in DOMAIN toHub'[d] :
           \/ n \in DOMAIN toHub[d] /\ toHub'[d][n] = toHub[d][n]
           \/ d = c /\ n = Len(toHub[c]) + 1 /\ toHub'[d][n].id = i /\ toHub'[d][n].epoch = relay.epoch
  BY <1>4, <1>11
<1>19. QuestionInv'
  <2>1. hub'.ask.id <= made'.asks
    BY <1>1, <1>2, <1>3, <1>7, <1>16 DEF QuestionInv
  <2>2. hub'.ask.id # 0 => hist'.told[hub'.ask.id] = {} /\ hub'.ask.epoch = hist'.asked[hub'.ask.id]
    <3>1. hub.ask.id \in 0..MaxAsks /\ MaxAsks \in Nat
      BY <1>1, Fields
    <3>2. hub.ask.id # 0 => hub.ask.id \in 1..MaxAsks
      BY <3>1
    <3> QED
      BY <1>1, <1>2, <1>9, <1>16, <3>2 DEF QuestionInv
  <2>3. \A j \in 1..MaxAsks : j > made'.asks => hist'.told[j] = {}
    BY <1>1, <1>3, <1>7, <1>9 DEF QuestionInv
  <2>4. ASSUME NEW d \in Sockets, NEW n \in DOMAIN toHub'[d], toHub'[d][n].k = "ask"
        PROVE  /\ hist'.told[toHub'[d][n].id] = {}
               /\ toHub'[d][n].id # hub'.ask.id
               /\ toHub'[d][n].epoch = hist'.asked[toHub'[d][n].id]
               /\ \A b \in Sockets : \A m \in DOMAIN toHub'[b] :
                      toHub'[b][m].k = "ask" /\ toHub'[b][m].id = toHub'[d][n].id => d = b /\ m = n
    <3>1. CASE n \in DOMAIN toHub[d] /\ toHub'[d][n] = toHub[d][n]
      <4>1. /\ toHub[d][n].k = "ask" /\ toHub[d][n].id \in 1..MaxAsks /\ toHub[d][n].id # i
            /\ hist.told[toHub[d][n].id] = {} /\ toHub[d][n].id # hub.ask.id
            /\ toHub[d][n].epoch = hist.asked[toHub[d][n].id]
            /\ \A b \in Sockets : \A m \in DOMAIN toHub[b] :
                   toHub[b][m].k = "ask" /\ toHub[b][m].id = toHub[d][n].id => d = b /\ m = n
        BY <1>1, <1>17, <2>4, <3>1 DEF QuestionInv
      <4> QED
        BY <1>2, <1>9, <1>18, <3>1, <4>1
    <3>2. CASE d = c /\ n = Len(toHub[c]) + 1 /\ toHub'[d][n].id = i /\ toHub'[d][n].epoch = relay.epoch
      <4>1. ASSUME NEW b \in Sockets, NEW m \in DOMAIN toHub'[b], toHub'[b][m].k = "ask", toHub'[b][m].id = i
            PROVE  d = b /\ m = n
        BY <1>17, <1>18, <3>2, <4>1
      <4> QED
        BY <1>2, <1>9, <1>16, <3>2, <4>1
    <3> QED
      BY <1>18, <3>1, <3>2
  <2> QED
    BY <2>1, <2>2, <2>3, <2>4 DEF QuestionInv
<1>20. AnswerInv'
  <2>1. ASSUME NEW n \in DOMAIN toRelay', toRelay'[n].k = "result"
        PROVE  /\ toRelay'[n].id # 0 /\ hist'.told[toRelay'[n].id] = {toRelay'[n].from}
               /\ toRelay'[n].epoch = hist'.asked[toRelay'[n].id]
    <3>1. /\ toRelay' = toRelay /\ toRelay[n].id # 0 /\ hist.told[toRelay[n].id] = {toRelay[n].from}
          /\ toRelay[n].epoch = hist.asked[toRelay[n].id]
      BY <1>1, <1>2, <2>1 DEF AnswerInv
    <3>2. toRelay[n].id \in 0..made.asks
      <4>1. toRelay[n] \in RelayFrames(made.asks)
        BY <1>1, <2>1, <3>1 DEF Types
      <4> QED
        BY <2>1, <3>1, <4>1 DEF RelayFrames
    <3>3. toRelay[n].id \in 1..MaxAsks /\ toRelay[n].id # i
      BY <1>2, <1>3, <3>1, <3>2, AskAssumption
    <3> QED
      BY <1>9, <3>1, <3>3
  <2>2. ASSUME NEW j \in 1..MaxAsks
        PROVE  /\ hist'.told[j] = {} \/ \E p \in Phones : hist'.told[j] = {p}
               /\ hist'.settled[j] \notin {"open", "desktop"} => hist'.told[j] = {hist'.settled[j]}
    BY <1>1, <1>9 DEF AnswerInv
  <2> QED
    BY <2>1, <2>2 DEF AnswerInv
<1>21. WaitInv'
  <2>1. hub'.ask.id # relay'.ask /\ hist'.told[relay'.ask] = {}
    BY <1>2, <1>8, <1>9, <1>16
  <2>2. \A d \in Sockets : \A n \in DOMAIN toHub'[d] :
           toHub'[d][n].k = "ask" /\ toHub'[d][n].id = relay'.ask => d = relay'.sock
    BY <1>8, <1>17, <1>18 DEF c
  <2> QED
    BY <2>1, <2>2 DEF WaitInv
<1>22. PhoneInv'
  <2>1. \A p \in Phones : phone[p].card <= i
    <3> SUFFICES ASSUME NEW p \in Phones PROVE phone[p].card <= i
      OBVIOUS
    <3>1. phone[p].card \in 0..made.asks
      BY <1>1, PhoneFields
    <3> QED
      BY <1>3, <3>1
  <2> QED
    BY <1>1, <1>2, <1>7, <2>1 DEF PhoneInv
<1> QED
  BY <1>12, <1>13, <1>15, <1>19, <1>20, <1>21, <1>22 DEF IInv

-----------------------------------------------------------------------------
(* The invariant.                                                          *)

LEMMA InitHolds ==
    ASSUME Init
    PROVE  IInv
<1>1. /\ 0 \in 0..MaxAsks /\ 0 \in 0..MaxMishaps /\ 0 \in 0..(MaxMishaps + 1)
      /\ MaxAsks \in Nat /\ MaxMishaps \in Nat
  BY AskAssumption
<1>2. /\ <<>> \in Seq(HubFrames(0)) /\ <<>> \in Seq(RelayFrames(0)) /\ <<>> \in Seq(UpFrames(0))
      /\ <<>> \in Seq(DownFrames(0)) /\ DOMAIN <<>> = {}
  OBVIOUS
<1>3. made = [socks |-> 0, epochs |-> 0, asks |-> 0, mishaps |-> 0]
  BY DEF Init
<1>4. /\ relay \in Relays /\ relay.sock = 0 /\ relay.epoch = 0 /\ relay.ask = 0
      /\ relay.timer = "none" /\ ~relay.registered
  BY <1>1 DEF Init, Relays
<1>5. hub \in Hubs /\ hub.cur = 0 /\ hub.ask = NoAsk /\ hub.ask.id = 0
  BY <1>1 DEF Init, Hubs, NoAsk, Questions
<1>6. /\ hist \in Histories /\ \A i \in 1..MaxAsks : /\ hist.told[i] = {} /\ hist.asked[i] = 0
                                                     /\ hist.settled[i] = "open"
  BY DEF Init, HistoryInit, Histories
<1>7. Types
  BY <1>1, <1>2, <1>3, <1>4, <1>5, <1>6 DEF Init, Types, Cards
<1>8. RelayInv
  BY <1>3, <1>4, <1>6 DEF Init, RelayInv
<1>9. \A c \in Sockets : toHub[c] = <<>>
  BY DEF Init
<1>10. SocketInv
  BY <1>2, <1>3, <1>4, <1>5, <1>9 DEF Init, SocketInv, Sockets
<1>11. QuestionInv
  BY <1>2, <1>3, <1>5, <1>6, <1>9 DEF QuestionInv
<1>12. AnswerInv
  BY <1>2, <1>6 DEF Init, AnswerInv
<1>13. WaitInv
  BY <1>4 DEF WaitInv, Waits
<1>14. PhoneInv
  BY <1>3 DEF Init, PhoneInv
<1> QED
  BY <1>7, <1>8, <1>10, <1>11, <1>12, <1>13, <1>14 DEF IInv

LEMMA StutterKeeps ==
    ASSUME IInv, UNCHANGED vars
    PROVE  IInv'
<1>1. UNCHANGED <<relay, toRelay, toHub, hub, gone, selected, selecting, ghosts, phone, up, down, made, hist>>
  BY DEF vars, relayVars, hubVars, phoneVars
<1>2. Quiet
  BY <1>1 DEF Quiet
<1>3. Types' /\ PhoneInv'
  BY <1>1 DEF IInv, Types, PhoneInv
<1> QED
  BY <1>2, <1>3, QuietKeeps DEF IInv

LEMMA StepKeeps ==
    ASSUME IInv, [Next]_vars
    PROVE  IInv'
<1>1. CASE RelayConnects \/ RelayResnapshots \/ RelayAsks \/ RelayGivesUp
           \/ RelayDrops \/ RelayStops \/ RelayHears
  BY <1>1, RelayConnectsKeeps, RelayResnapshotsKeeps, RelayAsksKeeps, RelayGivesUpKeeps,
     RelayDropsKeeps, RelayStopsKeeps, RelayHearsKeeps
<1>2. ASSUME NEW c \in Sockets, HubReads(c) \/ HubSeesClose(c)
      PROVE  IInv'
  BY <1>2, HubReadsKeeps, HubSeesCloseKeeps
<1>3. ASSUME NEW p \in Phones, \/ HubSelectDone(p) \/ HubHandles(p) \/ GhostGoes(p)
                               \/ PhoneConnects(p) \/ PhoneReselects(p) \/ PhoneDrops(p)
                               \/ PhoneTurns(p) \/ PhoneActs(p) \/ PhoneHears(p)
      PROVE  IInv'
  BY <1>3, HubSelectDoneKeeps, HubHandlesKeeps, GhostGoesKeeps, PhoneConnectsKeeps,
     PhoneReselectsKeeps, PhoneDropsKeeps, PhoneTurnsKeeps, PhoneActsKeeps, PhoneHearsKeeps
<1>4. CASE UNCHANGED vars
  BY <1>4, StutterKeeps
<1> QED
  BY <1>1, <1>2, <1>3, <1>4 DEF Next

\* In every reachable state, what is written above of questions, sockets and answers.
THEOREM AskInvariant == Spec => []IInv
<1>1. Init => IInv
  BY InitHolds
<1>2. IInv /\ [Next]_vars => IInv'
  BY StepKeeps
<1> QED
  BY <1>1, <1>2, PTL DEF Spec

\* The state of relay, hub and phones hangs together: TypeOK.
THEOREM AskTypeCorrect == Spec => []TypeOK
<1>1. IInv => TypeOK
  <2> SUFFICES ASSUME IInv PROVE TypeOK
    OBVIOUS
  <2>1. Types /\ RelayInv /\ SocketInv /\ QuestionInv /\ PhoneInv
    BY DEF IInv
  <2>2. relay.sock \in 0..made.socks /\ relay.epoch \in 0..made.epochs /\ relay.ask \in 0..made.asks
    BY <2>1, Fields DEF RelayInv
  <2>3. hub.cur \in 0..made.socks /\ hub.ask.id \in 0..made.asks
    BY <2>1, Fields DEF SocketInv, QuestionInv
  <2>4. \A p \in Phones : phone[p].card \in 0..made.asks
    BY <2>1, PhoneFields
  <2> QED
    BY <2>1, <2>2, <2>3, <2>4 DEF TypeOK, RelayInv, SocketInv, PhoneInv
<1> QED
  BY <1>1, AskInvariant, PTL

\* An answer counts once: one phone at most is told that its answer was delivered, the
\* agent goes on with that answer and no other, and it is not left waiting for one that
\* was delivered over the link it still has.
THEOREM AnswerCountsOnce == Spec => []AnswersCount
<1>1. IInv => AnswersCount
  <2> SUFFICES ASSUME IInv, NEW i \in 1..MaxAsks
               PROVE  /\ Cardinality(hist.told[i]) <= 1
                      /\ hist.settled[i] \notin {"open", "desktop"} => hist.told[i] = {hist.settled[i]}
                      /\ hist.told[i] # {} /\ relay.ask = i => ~(Here(i) /\ LinkQuiet)
    BY DEF AnswersCount
  <2>1. AnswerInv /\ WaitInv
    BY DEF IInv
  <2>2. Cardinality(hist.told[i]) <= 1
    <3>1. hist.told[i] = {} \/ \E p \in Phones : hist.told[i] = {p}
      BY <2>1 DEF AnswerInv
    <3>2. Cardinality(hist.told[i]) \in {0, 1}
      BY <3>1, FS_EmptySet, FS_Singleton
    <3> QED
      BY <3>2
  <2>3. hist.settled[i] \notin {"open", "desktop"} => hist.told[i] = {hist.settled[i]}
    BY <2>1 DEF AnswerInv
  <2>4. hist.told[i] # {} /\ relay.ask = i => ~(Here(i) /\ LinkQuiet)
    <3> SUFFICES ASSUME hist.told[i] # {}, relay.ask = i, Here(i), LinkQuiet
                 PROVE  FALSE
      OBVIOUS
    <3>1. Waits /\ toRelay = <<>> /\ DOMAIN <<>> = {}
      BY DEF Waits, Here, LinkQuiet
    <3> QED
      BY <2>1, <3>1 DEF WaitInv
  <2> QED
    BY <2>2, <2>3, <2>4
<1> QED
  BY <1>1, AskInvariant, PTL

-----------------------------------------------------------------------------
(* Cards follow questions: the frames to the hub and to the relay.          *)

\* Questions are asked in their order, each after the one before it was settled, and
\* handed back after they were settled: the hub hears of them in that order.
Before(c, n, d, m) == c < d \/ (c = d /\ n < m)
OrderInv ==
    /\ relay.ask \in {0, made.asks}
    /\ \A c \in Sockets : \A n \in DOMAIN toHub[c] :
           /\ toHub[c][n].k = "cancel" => toHub[c][n].id # 0 /\ toHub[c][n].id # relay.ask
           /\ toHub[c][n].k = "ask" => hub.ask.id < toHub[c][n].id
    /\ \A c, d \in Sockets : \A n \in DOMAIN toHub[c] : \A m \in DOMAIN toHub[d] :
           toHub[c][n].k = "ask" /\ toHub[d][m].k = "ask" /\ Before(c, n, d, m) =>
               toHub[c][n].id < toHub[d][m].id

\* The question the relay waits for is on its way to the hub, or with the hub, or its
\* end is on its way to the relay.
ReachInv ==
    Waits => \/ hub.ask.id = relay.ask
             \/ \E n \in DOMAIN toHub[relay.sock] :
                   toHub[relay.sock][n].k = "ask" /\ toHub[relay.sock][n].id = relay.ask
             \/ \E n \in DOMAIN toRelay :
                   toRelay[n].k \in {"declined", "result"} /\ toRelay[n].id = relay.ask

\* A question of the present epoch that the hub has, or will read, is the one the relay
\* waits for, or the hub will read that it is not.
CancelAfter(n, i) ==
    \E m \in DOMAIN toHub[relay.sock] :
        n < m /\ toHub[relay.sock][m].k = "cancel" /\ toHub[relay.sock][m].id = i
HubKnows ==
    relay.sock # 0 /\ hub.ask.id # 0 /\ hist.asked[hub.ask.id] = relay.epoch =>
        hub.cur = relay.sock /\ (relay.ask = hub.ask.id \/ CancelAfter(0, hub.ask.id))
HubWillKnow ==
    relay.sock # 0 =>
        \A c \in Sockets : \A n \in DOMAIN toHub[c] :
            toHub[c][n].k = "ask" /\ hist.asked[toHub[c][n].id] = relay.epoch =>
                c = relay.sock /\ (relay.ask = toHub[c][n].id \/ CancelAfter(n, toHub[c][n].id))

LinkInv == OrderInv /\ ReachInv /\ HubKnows /\ HubWillKnow

-----------------------------------------------------------------------------

\* The relay's part and what is under way to the hub stay, and the hub's question.
LinkStays ==
    /\ UNCHANGED toHub /\ hist'.asked = hist.asked /\ made'.asks = made.asks
    /\ relay'.sock = relay.sock /\ relay'.epoch = relay.epoch /\ relay'.ask = relay.ask

LEMMA StaysKeeps ==
    ASSUME LinkInv, LinkStays, hub'.cur = hub.cur, hub'.ask.id = hub.ask.id,
           \A n \in DOMAIN toRelay : n \in DOMAIN toRelay' /\ toRelay'[n] = toRelay[n]
    PROVE  LinkInv'
<1>1. OrderInv'
  BY DEF LinkInv, LinkStays, OrderInv
<1>2. ReachInv'
  BY DEF LinkInv, LinkStays, ReachInv, Waits
<1>3. HubKnows'
  BY DEF LinkInv, LinkStays, HubKnows, CancelAfter
<1>4. HubWillKnow'
  BY DEF LinkInv, LinkStays, HubWillKnow, CancelAfter
<1> QED
  BY <1>1, <1>2, <1>3, <1>4 DEF LinkInv

\* A phone settles the hub's question.
LEMMA SettlesKeeps ==
    ASSUME IInv, LinkInv, LinkStays, hub'.cur = hub.cur, hub'.ask = NoAsk,
           NEW r \in RelayFrames(made.asks), r.k \in {"declined", "result"}, r.id = hub.ask.id,
           toRelay' = toRelay \o Heard(hub.cur, <<r>>)
    PROVE  LinkInv'
<1>1. Types /\ WaitInv /\ hub'.ask.id = 0
  BY DEF IInv, NoAsk
<1>2. hub.ask.id \in Nat
  BY <1>1, Fields
<1>3. \A c \in Sockets : \A n \in DOMAIN toHub[c] :
          toHub[c][n].k = "ask" => toHub[c][n].id \in Nat /\ 0 < toHub[c][n].id
  <2>1. \A c \in Sockets : \A n \in DOMAIN toHub[c] : toHub[c][n].k = "ask" => toHub[c][n].id \in 1..made.asks
    BY <1>1, AsksNumbered
  <2> QED
    BY <2>1
<1>4. OrderInv'
  BY <1>1, <1>3 DEF LinkInv, LinkStays, OrderInv
<1>5. HubKnows'
  BY <1>1 DEF HubKnows
<1>6. HubWillKnow'
  BY DEF LinkInv, LinkStays, HubWillKnow, CancelAfter
<1>7. Heard(hub.cur, <<r>>) \in Seq(RelayFrames(made.asks))
  <2>1. <<r>> \in Seq(RelayFrames(made.asks)) /\ <<>> \in Seq(RelayFrames(made.asks))
    OBVIOUS
  <2> QED
    BY <2>1 DEF Heard
<1>8. toRelay \in Seq(RelayFrames(made.asks))
  BY <1>1 DEF Types
<1>9. \A n \in DOMAIN toRelay : n \in DOMAIN toRelay' /\ toRelay'[n] = toRelay[n]
  <2>1. \A n \in DOMAIN toRelay : /\ n \in DOMAIN (toRelay \o Heard(hub.cur, <<r>>))
                                  /\ (toRelay \o Heard(hub.cur, <<r>>))[n] = toRelay[n]
    BY <1>7, <1>8, Joined, Zenon
  <2> QED
    BY <2>1
<1>10. ReachInv'
  <2>1. SUFFICES ASSUME Waits PROVE ReachInv'
    BY DEF ReachInv, Waits, LinkStays
  <2>2. CASE hub.ask.id = relay.ask
    <3>1. hub.cur = relay.sock /\ relay.sock # 0
      BY <1>1, <2>1, <2>2 DEF WaitInv, Waits
    <3>2. toRelay' = toRelay \o <<r>>
      BY <3>1 DEF Heard
    <3>3. Len(toRelay) + 1 \in DOMAIN toRelay' /\ toRelay'[Len(toRelay) + 1] = r
      BY <1>8, <3>2
    <3> QED
      BY <2>2, <3>3 DEF ReachInv, LinkStays
  <2>3. CASE \E n \in DOMAIN toHub[relay.sock] :
                toHub[relay.sock][n].k = "ask" /\ toHub[relay.sock][n].id = relay.ask
    BY <2>3 DEF ReachInv, LinkStays
  <2>4. CASE \E n \in DOMAIN toRelay :
                toRelay[n].k \in {"declined", "result"} /\ toRelay[n].id = relay.ask
    BY <1>9, <2>4 DEF ReachInv, LinkStays
  <2> QED
    BY <2>1, <2>2, <2>3, <2>4 DEF LinkInv, ReachInv
<1> QED
  BY <1>4, <1>5, <1>6, <1>10 DEF LinkInv

\* The hub sees the close of a socket that the relay has left.
LEMMA CloseKeepsLink ==
    ASSUME IInv, LinkInv, NEW c \in Sockets, HubSeesClose(c)
    PROVE  LinkInv'
<1>1. Types /\ SocketInv /\ WaitInv
  BY DEF IInv
<1>2. /\ c # relay.sock /\ toHub' = [toHub EXCEPT ![c] = <<>>]
      /\ UNCHANGED <<relay, toRelay, made, hist>>
  BY DEF HubSeesClose, relayVars
<1>3. hub'.ask.id = 0 \/ (hub' = hub /\ hub.cur # c)
  <2>1. hub.cur = c => hub' = [hub EXCEPT !.cur = 0, !.ask = NoAsk]
    BY DEF HubSeesClose
  <2>2. hub.cur # c => hub' = hub
    BY DEF HubSeesClose
  <2>3. hub \in Hubs /\ NoAsk.id = 0
    BY <1>1 DEF Types, NoAsk
  <2> QED
    BY <2>1, <2>2, <2>3 DEF Hubs
<1>4. /\ \A d \in Sockets : \A n \in DOMAIN toHub'[d] : d # c /\ n \in DOMAIN toHub[d] /\ toHub'[d] = toHub[d]
      /\ relay.sock \in Sockets => toHub'[relay.sock] = toHub[relay.sock]
  BY <1>1, <1>2 DEF Types
<1>5. \A d \in Sockets : \A n \in DOMAIN toHub[d] :
          toHub[d][n].k = "ask" => toHub[d][n].id \in Nat /\ 0 < toHub[d][n].id
  BY <1>1, AsksNumbered, Fields
<1>6. relay.sock # 0 => relay.sock \in Sockets
  BY <1>1, Fields, SMTT(30) DEF Sockets, Types, Relays
<1>7. OrderInv'
  BY <1>2, <1>3, <1>4, <1>5 DEF LinkInv, OrderInv
<1>8. ReachInv'
  <2>1. SUFFICES ASSUME Waits PROVE ReachInv'
    BY <1>2 DEF ReachInv, Waits
  <2>2. hub.ask.id = relay.ask => hub' = hub
    BY <1>1, <1>2, <1>3, <2>1 DEF WaitInv, Waits, HubSeesClose
  <2>3. toHub'[relay.sock] = toHub[relay.sock]
    BY <1>4, <1>6, <2>1 DEF Waits
  <2> QED
    BY <1>2, <2>1, <2>2, <2>3 DEF ReachInv, LinkInv
<1>9. HubKnows'
  BY <1>2, <1>3, <1>4, <1>6 DEF LinkInv, HubKnows, CancelAfter
<1>10. HubWillKnow'
  BY <1>2, <1>4, <1>6 DEF LinkInv, HubWillKnow, CancelAfter
<1> QED
  BY <1>7, <1>8, <1>9, <1>10 DEF LinkInv

\* The hub reads a frame of the relay.
LEMMA ReadsKeepLink ==
    ASSUME IInv, LinkInv, NEW c \in Sockets, HubReads(c)
    PROVE  LinkInv'
<1> DEFINE f == toHub[c][1]
<1> DEFINE Later(n, i) == \E m \in DOMAIN toHub'[relay.sock] :
                             n < m /\ toHub'[relay.sock][m].k = "cancel" /\ toHub'[relay.sock][m].id = i
<1> DEFINE Was(d, n) == IF d = c THEN n + 1 ELSE n
<1>1. Types /\ RelayInv /\ SocketInv /\ QuestionInv /\ WaitInv /\ OrderInv /\ ReachInv /\ HubKnows /\ HubWillKnow
  BY DEF IInv, LinkInv
<1>2. /\ toHub[c] # <<>> /\ toHub' = [toHub EXCEPT ![c] = Tail(@)]
      /\ \A d \in 1..(c - 1) : toHub[d] = <<>>
      /\ UNCHANGED <<relay, made, hist>>
  BY DEF HubReads
<1>3. /\ Head(toHub[c]) = f /\ 1 \in DOMAIN toHub[c]
      /\ \A d \in Sockets : d # c => toHub'[d] = toHub[d]
      /\ \A n \in DOMAIN toHub'[c] : n \in Nat /\ n + 1 \in DOMAIN toHub[c] /\ toHub'[c][n] = toHub[c][n + 1]
      /\ c \in Nat /\ c # 0 /\ c <= made.socks /\ hub.cur <= c
      /\ f.k # "register" <=> c = hub.cur
      /\ toHub' \in [Sockets -> Seq(HubFrames(made.asks))]
  BY <1>2, Reading
<1>4. \A n \in DOMAIN toHub[c] : n = 1 \/ (n - 1 \in DOMAIN toHub'[c] /\ toHub'[c][n - 1] = toHub[c][n])
  <2>1. toHub[c] \in Seq(HubFrames(made.asks)) /\ toHub'[c] = Tail(toHub[c])
    BY <1>1, <1>2 DEF Types
  <2> QED
    <3>1. \A n \in DOMAIN toHub[c] :
              n = 1 \/ (n - 1 \in DOMAIN Tail(toHub[c]) /\ Tail(toHub[c])[n - 1] = toHub[c][n])
      BY <1>2, <2>1, TailLeft, Zenon
    <3> QED
      BY <2>1, <3>1, Zenon
<1>5. /\ \/ f.k = "register" /\ Registers(c, f)
         \/ f.k = "snapshot" /\ hub' = [hub EXCEPT !.epoch = f.epoch]
         \/ f.k = "ask" /\ Asks(c, f)
         \/ f.k = "cancel" /\ Cancels(f)
  BY <1>3 DEF HubReads
<1>6. /\ made.asks \in Nat /\ hub.cur \in Nat /\ hub \in Hubs
      /\ f.k = "ask" => f.id \in 1..made.asks
      /\ hub'.cur = c /\ NoAsk.id = 0 /\ MoreToRelay
      /\ \/ hub'.ask = hub.ask
         \/ hub'.ask = NoAsk
         \/ f.k = "ask" /\ hub'.ask.id = f.id
  BY ReadingDoes
<1>7. \A d \in Sockets : \A n \in DOMAIN toHub'[d] :
          Was(d, n) \in DOMAIN toHub[d] /\ toHub'[d][n] = toHub[d][Was(d, n)] /\ n \in Nat /\ d \in Nat
  <2> SUFFICES ASSUME NEW d \in Sockets, NEW n \in DOMAIN toHub'[d]
               PROVE  Was(d, n) \in DOMAIN toHub[d] /\ toHub'[d][n] = toHub[d][Was(d, n)] /\ n \in Nat /\ d \in Nat
    OBVIOUS
  <2>1. n \in Nat /\ d \in Nat
    BY <1>3 DEF Sockets
  <2> QED
    BY <1>3, <2>1
<1>8. /\ \A n \in DOMAIN toRelay : n \in DOMAIN toRelay' /\ toRelay'[n] = toRelay[n]
  BY <1>1, <1>6, MoreKeeps
<1>9. \A d \in Sockets : \A n \in DOMAIN toHub[d] :
          toHub[d][n].k = "ask" => toHub[d][n].id \in 1..made.asks
  BY <1>1, AsksNumbered
<1>10. hub.ask.id \in Nat /\ relay.sock \in Nat /\ relay.ask \in Nat /\ made.socks \in Nat /\ relay.epoch \in Nat
  BY <1>1, Fields
<1>11. relay.sock # 0 => relay.sock \in Sockets /\ relay.sock = made.socks
  BY <1>1, <1>10, Fields DEF Sockets, RelayInv
\* A question that is taken follows the one before it, and no other follows it.
<1>12. f.k = "cancel" => f.id # 0 /\ f.id # relay.ask
  BY <1>1, <1>3 DEF OrderInv
<1>13. f.k = "ask" => hub.ask.id < f.id
  BY <1>1, <1>3 DEF OrderInv
<1>14. f.k = "cancel" /\ f.id = hub.ask.id => hub'.ask.id = 0
  BY <1>5, <1>6 DEF Cancels, Hubs
<1>15. f.k = "cancel" /\ f.id # hub.ask.id => hub'.ask.id = hub.ask.id
  BY <1>5, <1>6 DEF Cancels, Hubs
<1>16. f.k \in {"register", "snapshot"} => hub'.ask.id = hub.ask.id
  BY <1>5, <1>6 DEF Registers, Hubs
<1>17. f.k = "ask" => \/ hub'.ask.id = f.id
                      \/ /\ hub'.ask.id = hub.ask.id
                         /\ toRelay' = toRelay \o Heard(c, <<[k |-> "declined", id |-> f.id]>>)
  <2>1. CASE f.epoch # hub.epoch \/ selected \cup ghosts = {}
    BY <1>5, <2>1 DEF Asks
  <2>2. CASE ~(f.epoch # hub.epoch \/ selected \cup ghosts = {})
    <3> DEFINE q == [id |-> f.id, epoch |-> f.epoch, claimed |-> FALSE]
    <3>1. f.k = "ask" => hub' = [hub EXCEPT !.ask = q]
      BY <1>5, <2>2 DEF Asks
    <3>2. q.id = f.id
      OBVIOUS
    <3> HIDE DEF q
    <3> QED
      BY <1>6, <3>1, <3>2 DEF Hubs
  <2> QED
    BY <2>1, <2>2
<1> HIDE DEF f
<1>18. f.k = "register" \/ f.k = "snapshot" \/ f.k = "ask" \/ f.k = "cancel"
  BY <1>5
<1>19. OrderInv'
  <2>1. relay'.ask \in {0, made'.asks}
    BY <1>1, <1>2 DEF OrderInv
  <2>2. ASSUME NEW d \in Sockets, NEW n \in DOMAIN toHub'[d]
        PROVE  /\ toHub'[d][n].k = "cancel" => toHub'[d][n].id # 0 /\ toHub'[d][n].id # relay'.ask
               /\ toHub'[d][n].k = "ask" => hub'.ask.id < toHub'[d][n].id
    <3> DEFINE w == Was(d, n)
    <3>1. w \in DOMAIN toHub[d] /\ toHub'[d][n] = toHub[d][w] /\ n \in Nat /\ d \in Nat
      BY <1>7
    <3>2. toHub[d][w].k = "cancel" => toHub[d][w].id # 0 /\ toHub[d][w].id # relay.ask
      BY <1>1, <3>1 DEF OrderInv
    <3>3. toHub[d][w].k = "ask" => hub.ask.id < toHub[d][w].id /\ toHub[d][w].id \in 1..made.asks
      BY <1>1, <1>9, <3>1 DEF OrderInv
    <3>4. toHub[d][w].k = "ask" /\ f.k = "ask" => f.id < toHub[d][w].id
      <4>1. SUFFICES ASSUME toHub[d][w].k = "ask", f.k = "ask" PROVE f.id < toHub[d][w].id
        OBVIOUS
      <4>2. d = c => w > 1
        <5>1. n >= 1
          <6>1. toHub'[d] \in Seq(HubFrames(made.asks))
            BY <1>3
          <6> QED
            BY <6>1
        <5> QED
          BY <3>1, <5>1
      <4>3. ~(d < c)
        <5>1. c = hub.cur
          BY <1>3, <4>1
        <5>2. d < c => toHub[d] = <<>> /\ DOMAIN <<>> = {}
          BY <1>1, <5>1 DEF SocketInv
        <5> QED
          BY <3>1, <5>2
      <4>4. Before(c, 1, d, w)
        BY <1>3, <3>1, <4>2, <4>3 DEF Before
      <4> QED
        BY <1>1, <1>3, <3>1, <4>1, <4>4 DEF OrderInv, f
    <3> HIDE DEF w
    <3>5. toHub[d][w].k = "ask" => hub'.ask.id < toHub[d][w].id
      BY <1>6, <3>3, <3>4
    <3> QED
      BY <1>2, <3>1, <3>2, <3>5
  <2>3. ASSUME NEW b \in Sockets, NEW d \in Sockets, NEW n \in DOMAIN toHub'[b], NEW m \in DOMAIN toHub'[d],
               toHub'[b][n].k = "ask", toHub'[d][m].k = "ask", Before(b, n, d, m)
        PROVE  toHub'[b][n].id < toHub'[d][m].id
    <3>1. /\ Was(b, n) \in DOMAIN toHub[b] /\ toHub'[b][n] = toHub[b][Was(b, n)] /\ n \in Nat
          /\ Was(d, m) \in DOMAIN toHub[d] /\ toHub'[d][m] = toHub[d][Was(d, m)] /\ m \in Nat
      BY <1>7
    <3>2. Before(b, Was(b, n), d, Was(d, m))
      BY <2>3, <3>1 DEF Before
    <3> HIDE DEF Was
    <3> QED
      BY <1>1, <2>3, <3>1, <3>2 DEF OrderInv
  <2> QED
    BY <2>1, <2>2, <2>3 DEF OrderInv
<1>20. ReachInv'
  <2>1. SUFFICES ASSUME Waits PROVE ReachInv'
    BY <1>2 DEF ReachInv, Waits
  <2>2. relay.ask # 0 /\ relay.ask = made.asks /\ relay.sock \in Sockets
    BY <1>1, <1>11, <2>1 DEF OrderInv, Waits
  <2>3. CASE hub.ask.id = relay.ask
    <3>1. ~(f.k = "ask")
      BY <1>6, <1>13, <2>2, <2>3
    <3>2. hub'.ask.id = hub.ask.id
      BY <1>12, <1>15, <1>16, <1>18, <2>3, <3>1
    <3> QED
      BY <1>2, <2>3, <3>2 DEF ReachInv
  <2>4. CASE \E n \in DOMAIN toHub[relay.sock] :
                toHub[relay.sock][n].k = "ask" /\ toHub[relay.sock][n].id = relay.ask
    <3>1. PICK n \in DOMAIN toHub[relay.sock] :
              toHub[relay.sock][n].k = "ask" /\ toHub[relay.sock][n].id = relay.ask
      BY <2>4
    <3>2. CASE relay.sock # c
      BY <1>2, <1>3, <2>2, <3>1, <3>2 DEF ReachInv
    <3>3. CASE relay.sock = c /\ n # 1
      <4>1. n - 1 \in DOMAIN toHub'[c] /\ toHub'[c][n - 1] = toHub[c][n]
        BY <1>4, <3>1, <3>3
      <4> QED
        BY <1>2, <3>1, <3>3, <4>1 DEF ReachInv
    <3>4. CASE relay.sock = c /\ n = 1
      <4>1. f.k = "ask" /\ f.id = relay.ask
        BY <3>1, <3>4 DEF f
      <4>2. CASE hub'.ask.id = f.id
        BY <1>2, <4>1, <4>2 DEF ReachInv
      <4>3. CASE toRelay' = toRelay \o Heard(c, <<[k |-> "declined", id |-> f.id]>>)
        <5> DEFINE r == [k |-> "declined", id |-> f.id]
        <5>1. r.k = "declined" /\ r.id = relay.ask
          BY <4>1
        <5> HIDE DEF r
        <5>2. toRelay' = toRelay \o <<r>>
          BY <1>3, <3>4, <4>3 DEF Heard, r
        <5>3. toRelay \in Seq(RelayFrames(made.asks))
          BY <1>1 DEF Types
        <5>4. Len(toRelay) + 1 \in DOMAIN toRelay' /\ toRelay'[Len(toRelay) + 1] = r
          BY <5>2, <5>3
        <5> QED
          BY <1>2, <5>1, <5>4 DEF ReachInv
      <4> QED
        BY <1>17, <4>1, <4>2, <4>3
    <3> QED
      BY <3>2, <3>3, <3>4
  <2>5. CASE \E n \in DOMAIN toRelay :
                toRelay[n].k \in {"declined", "result"} /\ toRelay[n].id = relay.ask
    BY <1>2, <1>8, <2>5 DEF ReachInv
  <2> QED
    BY <1>1, <2>1, <2>3, <2>4, <2>5 DEF ReachInv
\* A cancellation that is read was of no question that is still there.
<1>21. ASSUME NEW n \in Nat, NEW i, CancelAfter(n + 1, i), relay.sock = c
       PROVE  Later(n, i)
  <2>1. PICK m \in DOMAIN toHub[c] : n + 1 < m /\ toHub[c][m].k = "cancel" /\ toHub[c][m].id = i
    BY <1>21 DEF CancelAfter
  <2>2. m \in Nat
    BY <1>1, <2>1 DEF Types
  <2>3. m # 1 /\ n < m - 1
    BY <2>1, <2>2
  <2>4. m - 1 \in DOMAIN toHub'[c] /\ toHub'[c][m - 1] = toHub[c][m]
    BY <1>4, <2>1, <2>3
  <2> QED
    BY <1>2, <1>21, <2>1, <2>3, <2>4 DEF CancelAfter
<1>22. HubKnows'
  <2> DEFINE j == hub'.ask.id
  <2>1. SUFFICES ASSUME relay.sock # 0, j # 0, hist.asked[j] = relay.epoch
                 PROVE  c = relay.sock /\ (relay.ask = j \/ Later(0, j))
    BY <1>2, <1>6 DEF HubKnows, CancelAfter
  <2>2. CASE j = hub.ask.id
    <3>1. hub.cur = relay.sock /\ (relay.ask = j \/ CancelAfter(0, j))
      BY <1>1, <2>1, <2>2 DEF HubKnows
    <3>2. c = relay.sock
      BY <1>3, <1>10, <1>11, <2>1, <3>1
    <3>3. ASSUME CancelAfter(0, j) PROVE CancelAfter(1, j)
      <4>1. PICK m \in DOMAIN toHub[c] : 0 < m /\ toHub[c][m].k = "cancel" /\ toHub[c][m].id = j
        BY <3>2, <3>3 DEF CancelAfter
      <4>2. m # 1
        BY <1>14, <2>1, <2>2, <4>1 DEF f
      <4>3. m \in Nat
        BY <1>1, <4>1 DEF Types
      <4> QED
        BY <3>2, <4>1, <4>2, <4>3 DEF CancelAfter
    <3>4. CancelAfter(0, j) => Later(0, j)
      <4>1. 0 \in Nat /\ 0 + 1 = 1
        OBVIOUS
      <4> QED
        BY <1>21, <3>2, <3>3, <4>1
    <3> QED
      BY <3>1, <3>2, <3>4
  <2>3. CASE f.k = "ask" /\ j = f.id
    <3>1. c = relay.sock /\ (relay.ask = j \/ CancelAfter(1, j))
      BY <1>1, <1>3, <2>1, <2>3 DEF HubWillKnow, f
    <3>2. CancelAfter(1, j) => Later(0, j)
      <4>1. 0 \in Nat /\ 0 + 1 = 1
        OBVIOUS
      <4> QED
        BY <1>21, <3>1, <4>1
    <3> QED
      BY <3>1, <3>2
  <2> QED
    BY <1>6, <2>1, <2>2, <2>3
<1>23. HubWillKnow'
  <2>0. relay' = relay /\ hist' = hist
    BY <1>2
  <2>1. SUFFICES ASSUME relay.sock # 0, NEW d \in Sockets, NEW n \in DOMAIN toHub'[d],
                        toHub'[d][n].k = "ask", hist.asked[toHub'[d][n].id] = relay.epoch
                 PROVE  d = relay.sock /\ (relay.ask = toHub'[d][n].id \/ Later(n, toHub'[d][n].id))
    BY <2>0, SMTT(30) DEF HubWillKnow, CancelAfter
  <2> DEFINE w == Was(d, n)
  <2> DEFINE i == toHub[d][w].id
  <2>2. w \in DOMAIN toHub[d] /\ toHub'[d][n] = toHub[d][w] /\ n \in Nat
    BY <1>7
  <2>3. d = relay.sock /\ (relay.ask = i \/ CancelAfter(w, i))
    BY <1>1, <2>1, <2>2 DEF HubWillKnow
  <2>4. CASE d = c
    <3>1. w = n + 1
      BY <2>4
    <3> HIDE DEF i, w
    <3>2. CancelAfter(w, i) => Later(n, i)
      BY <1>21, <2>2, <2>3, <2>4, <3>1
    <3> QED
      BY <2>2, <2>3, <3>2 DEF i
  <2>5. CASE d # c
    <3>1. w = n /\ toHub'[relay.sock] = toHub[relay.sock]
      BY <1>3, <2>3, <2>5
    <3> HIDE DEF i, w
    <3>2. CancelAfter(w, i) => Later(n, i)
      BY <1>2, <3>1 DEF CancelAfter
    <3> QED
      BY <2>2, <2>3, <3>2 DEF i
  <2> QED
    BY <2>4, <2>5
<1> QED
  BY <1>19, <1>20, <1>22, <1>23 DEF LinkInv

\* One frame more on a socket, after what was there.
Grown(c, f) ==
    /\ \A d \in Sockets : \A n \in DOMAIN toHub[d] : n \in DOMAIN toHub'[d] /\ toHub'[d][n] = toHub[d][n]
    /\ \A d \in Sockets : \A n \in DOMAIN toHub'[d] :
           \/ n \in DOMAIN toHub[d] /\ toHub'[d][n] = toHub[d][n]
           \/ d = c /\ n = Len(toHub[c]) + 1 /\ toHub'[d][n] = f
    /\ Len(toHub[c]) + 1 \in DOMAIN toHub'[c] /\ toHub'[c][Len(toHub[c]) + 1] = f

LEMMA SendingGrows ==
    ASSUME Types, NEW c \in Sockets, NEW f, SendHub(c, f)
    PROVE  Grown(c, f)
<1> DEFINE S == HubFrames(made.asks) \cup {f}
<1> DEFINE s == toHub[c]
<1>1. s \in Seq(HubFrames(made.asks)) /\ c # 0 /\ toHub \in [Sockets -> Seq(HubFrames(made.asks))]
  <2>1. c \in Nat /\ c # 0
    BY DEF Sockets
  <2> QED
    BY <2>1 DEF Types
<1>2. s \in Seq(S) /\ f \in S
  BY <1>1, SeqMonotonic, Zenon
<1>3. toHub' = [toHub EXCEPT ![c] = Append(s, f)]
  BY <1>1 DEF SendHub
<1>4. toHub'[c] = Append(s, f) /\ \A d \in Sockets : d # c => toHub'[d] = toHub[d]
  BY <1>1, <1>3
<1> HIDE DEF S, s
<1>5. /\ \A n \in DOMAIN s : n \in DOMAIN Append(s, f) /\ Append(s, f)[n] = s[n]
      /\ \A n \in DOMAIN Append(s, f) :
            \/ n \in DOMAIN s /\ Append(s, f)[n] = s[n]
            \/ n = Len(s) + 1 /\ Append(s, f)[n] = f
      /\ Len(s) + 1 \in DOMAIN Append(s, f) /\ Append(s, f)[Len(s) + 1] = f
  BY <1>2, Appended, Zenon
<1> DEFINE t == Append(s, f)
<1>6. toHub'[c] = t /\ toHub[c] = s
  BY <1>4 DEF s
<1>7. /\ \A n \in DOMAIN s : n \in DOMAIN t /\ t[n] = s[n]
      /\ \A n \in DOMAIN t : (n \in DOMAIN s /\ t[n] = s[n]) \/ (n = Len(s) + 1 /\ t[n] = f)
      /\ Len(s) + 1 \in DOMAIN t /\ t[Len(s) + 1] = f
  BY <1>5
<1> HIDE DEF t
<1> QED
  BY <1>4, <1>6, <1>7 DEF Grown

\* Frames other than questions leave the order as it is.
LEMMA GrownInOrder ==
    ASSUME Types, OrderInv, NEW c, NEW f, Grown(c, f), f.k # "ask",
           f.k = "cancel" => f.id # 0 /\ f.id # relay'.ask,
           relay'.ask \in {0, relay.ask}, made'.asks = made.asks, hub'.ask.id = hub.ask.id
    PROVE  OrderInv'
<1>1. \A d \in Sockets : \A n \in DOMAIN toHub'[d] :
          \/ n \in DOMAIN toHub[d] /\ toHub'[d][n] = toHub[d][n]
          \/ toHub'[d][n] = f
  BY DEF Grown
<1>2. \A d \in Sockets : \A n \in DOMAIN toHub'[d] :
          toHub'[d][n].k = "ask" => n \in DOMAIN toHub[d] /\ toHub'[d][n] = toHub[d][n]
  BY <1>1
<1>3. relay'.ask \in {0, made'.asks}
  BY DEF OrderInv
<1>4. ASSUME NEW d \in Sockets, NEW n \in DOMAIN toHub'[d]
      PROVE  /\ toHub'[d][n].k = "cancel" => toHub'[d][n].id # 0 /\ toHub'[d][n].id # relay'.ask
             /\ toHub'[d][n].k = "ask" => hub'.ask.id < toHub'[d][n].id
  <2>1. CASE toHub'[d][n] = f
    BY <2>1
  <2>2. CASE n \in DOMAIN toHub[d] /\ toHub'[d][n] = toHub[d][n]
    BY <2>2 DEF OrderInv
  <2> QED
    BY <1>1, <2>1, <2>2
<1>5. ASSUME NEW b \in Sockets, NEW d \in Sockets, NEW n \in DOMAIN toHub'[b], NEW m \in DOMAIN toHub'[d],
             toHub'[b][n].k = "ask", toHub'[d][m].k = "ask", Before(b, n, d, m)
      PROVE  toHub'[b][n].id < toHub'[d][m].id
  <2>1. n \in DOMAIN toHub[b] /\ toHub'[b][n] = toHub[b][n] /\ m \in DOMAIN toHub[d] /\ toHub'[d][m] = toHub[d][m]
    BY <1>2, <1>5
  <2> QED
    BY <1>5, <2>1 DEF OrderInv
<1> QED
  BY <1>3, <1>4, <1>5 DEF OrderInv

\* A cancellation that is under way stays so.
LEMMA GrownCancels ==
    ASSUME Types, RelayInv, NEW c, NEW f, Grown(c, f), relay.sock # 0
    PROVE  /\ relay.sock \in Sockets
           /\ \A n, i : CancelAfter(n, i) =>
                 \E m \in DOMAIN toHub'[relay.sock] :
                     n < m /\ toHub'[relay.sock][m].k = "cancel" /\ toHub'[relay.sock][m].id = i
<1>1. relay.sock \in Sockets
  BY Fields, SMTT(30) DEF Sockets, Types, Relays
<1> QED
  BY <1>1 DEF Grown, CancelAfter

\* The relay stops waiting. It tells the hub, unless the hub knows.
LEMMA FreedKeepsLink ==
    ASSUME IInv, LinkInv, relay.ask # 0, relay' = Free(relay), UNCHANGED <<hub, made>>,
           hist'.asked = hist.asked,
           \/ UNCHANGED toHub /\ hist.told[relay.ask] # {}
           \/ SendHub(relay.sock, [k |-> "cancel", id |-> relay.ask])
    PROVE  LinkInv'
<1> DEFINE f == [k |-> "cancel", id |-> relay.ask]
<1>1. Types /\ RelayInv /\ SocketInv /\ QuestionInv /\ OrderInv /\ HubKnows /\ HubWillKnow
  BY DEF IInv, LinkInv
<1>2. relay'.ask = 0 /\ relay'.sock = relay.sock /\ relay'.epoch = relay.epoch
  BY <1>1, Freed
<1>3. ReachInv'
  BY <1>2 DEF ReachInv, Waits
<1>4. CASE UNCHANGED toHub /\ hist.told[relay.ask] # {}
  <2>1. OrderInv'
    BY <1>1, <1>2, <1>4 DEF OrderInv
  <2>2. hub.ask.id # 0 => hub.ask.id # relay.ask
    BY <1>1, <1>4 DEF QuestionInv
  <2>3. HubKnows'
    BY <1>1, <1>2, <1>4, <2>2 DEF HubKnows, CancelAfter
  <2>4. \A c \in Sockets : \A n \in DOMAIN toHub[c] : toHub[c][n].k = "ask" => toHub[c][n].id # relay.ask
    BY <1>1, <1>4 DEF QuestionInv
  <2>5. HubWillKnow'
    BY <1>1, <1>2, <1>4, <2>4 DEF HubWillKnow, CancelAfter
  <2> QED
    BY <1>3, <2>1, <2>3, <2>5 DEF LinkInv
<1>5. CASE relay.sock = 0 /\ UNCHANGED toHub
  <2>1. OrderInv'
    BY <1>1, <1>2, <1>5 DEF OrderInv
  <2>2. HubKnows' /\ HubWillKnow'
    BY <1>2, <1>5 DEF HubKnows, HubWillKnow
  <2> QED
    BY <1>3, <2>1, <2>2 DEF LinkInv
<1>6. CASE relay.sock # 0 /\ SendHub(relay.sock, f)
  <2>1. relay.sock \in Sockets
    BY <1>1, <1>6, Fields, SMTT(30) DEF Sockets, Types, Relays
  <2>2. Grown(relay.sock, f)
    BY <1>1, <1>6, <2>1, SendingGrows
  <2>3. f.k = "cancel" /\ f.id = relay.ask
    OBVIOUS
  <2> HIDE DEF f
  <2>4. OrderInv'
    BY <1>1, <1>2, <2>2, <2>3, GrownInOrder
  <2> DEFINE Later(n, i) == \E m \in DOMAIN toHub'[relay.sock] :
                              n < m /\ toHub'[relay.sock][m].k = "cancel" /\ toHub'[relay.sock][m].id = i
  <2>5. \A n, i : CancelAfter(n, i) => Later(n, i)
    BY <1>1, <1>6, <2>2, GrownCancels
  <2>6. toHub[relay.sock] \in Seq(HubFrames(made.asks))
    BY <1>1, <2>1 DEF Types
  <2>7. \A n \in DOMAIN toHub[relay.sock] \cup {0} : Later(n, relay.ask)
    <3> DEFINE l == Len(toHub[relay.sock]) + 1
    <3>1. \A n \in DOMAIN toHub[relay.sock] \cup {0} : n < l
      BY <2>6
    <3>2. l \in DOMAIN toHub'[relay.sock] /\ toHub'[relay.sock][l] = f
      BY <2>2 DEF Grown
    <3> HIDE DEF l
    <3> QED
      BY <2>3, <3>1, <3>2
  <2> HIDE DEF Later
  <2>8. HubKnows'
    <3>1. SUFFICES ASSUME hub.ask.id # 0, hist.asked[hub.ask.id] = relay.epoch
                   PROVE  hub.cur = relay.sock /\ Later(0, hub.ask.id)
      BY <1>2 DEF HubKnows, CancelAfter, Later
    <3> QED
      BY <1>1, <1>6, <2>5, <2>7, <3>1 DEF HubKnows
  <2>9. HubWillKnow'
    <3>1. SUFFICES ASSUME NEW d \in Sockets, NEW n \in DOMAIN toHub'[d], toHub'[d][n].k = "ask",
                          hist.asked[toHub'[d][n].id] = relay.epoch
                   PROVE  d = relay.sock /\ Later(n, toHub'[d][n].id)
      BY <1>2 DEF HubWillKnow, CancelAfter, Later
    <3>2. n \in DOMAIN toHub[d] /\ toHub'[d][n] = toHub[d][n]
      BY <2>2, <2>3, <3>1 DEF Grown
    <3>3. d = relay.sock /\ (relay.ask = toHub[d][n].id \/ CancelAfter(n, toHub[d][n].id))
      BY <1>1, <1>6, <3>1, <3>2 DEF HubWillKnow
    <3> QED
      BY <2>5, <2>7, <3>2, <3>3
  <2> QED
    BY <1>3, <2>4, <2>8, <2>9 DEF LinkInv
<1>7. relay.sock = 0 /\ SendHub(relay.sock, f) => UNCHANGED toHub
  BY DEF SendHub
<1> QED
  BY <1>4, <1>5, <1>6, <1>7

\* The relay takes a frame that leaves it waiting.
LEMMA HearsLittleKeepsLink ==
    ASSUME IInv, LinkInv, LinkStays, UNCHANGED hub, toRelay # <<>>, toRelay' = Tail(toRelay),
           Waits /\ toRelay[1].k \in {"declined", "result"} => toRelay[1].id # relay.ask
    PROVE  LinkInv'
<1>1. Types /\ OrderInv /\ ReachInv /\ HubKnows /\ HubWillKnow
  BY DEF IInv, LinkInv
<1>2. OrderInv'
  BY <1>1 DEF LinkStays, OrderInv
<1>3. HubKnows' /\ HubWillKnow'
  BY <1>1 DEF LinkStays, HubKnows, HubWillKnow, CancelAfter
<1>4. ReachInv'
  <2>1. SUFFICES ASSUME Waits PROVE ReachInv'
    BY DEF ReachInv, Waits, LinkStays
  <2>2. \A n \in DOMAIN toRelay : n = 1 \/ (n - 1 \in DOMAIN toRelay' /\ toRelay'[n - 1] = toRelay[n])
    <3>1. toRelay \in Seq(RelayFrames(made.asks))
      BY <1>1 DEF Types
    <3>2. \A n \in DOMAIN toRelay :
              n = 1 \/ (n - 1 \in DOMAIN Tail(toRelay) /\ Tail(toRelay)[n - 1] = toRelay[n])
      BY <3>1, TailLeft, Zenon
    <3> QED
      BY <3>2, Zenon
  <2>3. CASE \E n \in DOMAIN toRelay :
                toRelay[n].k \in {"declined", "result"} /\ toRelay[n].id = relay.ask
    <3>1. PICK n \in DOMAIN toRelay : toRelay[n].k \in {"declined", "result"} /\ toRelay[n].id = relay.ask
      BY <2>3
    <3>2. n - 1 \in DOMAIN toRelay' /\ toRelay'[n - 1] = toRelay[n]
      BY <2>1, <2>2, <3>1
    <3> QED
      BY <3>1, <3>2 DEF ReachInv, LinkStays
  <2>4. CASE hub.ask.id = relay.ask \/ \E n \in DOMAIN toHub[relay.sock] :
                toHub[relay.sock][n].k = "ask" /\ toHub[relay.sock][n].id = relay.ask
    BY <2>4 DEF ReachInv, LinkStays
  <2> QED
    BY <1>1, <2>1, <2>3, <2>4 DEF ReachInv
<1> QED
  BY <1>2, <1>3, <1>4 DEF LinkInv

LEMMA GivesUpKeepsLink ==
    ASSUME IInv, LinkInv, RelayGivesUp
    PROVE  LinkInv'
<1>1. Types /\ relay.ask # 0
  BY DEF IInv, RelayInv, RelayGivesUp
<1>2. /\ relay' = Free(relay) /\ hist' = Settled(hist, "desktop") /\ UNCHANGED <<hub, made>>
      /\ SendHub(relay.sock, [k |-> "cancel", id |-> relay.ask])
  BY DEF RelayGivesUp, FallBack, hubVars
<1>3. hist'.asked = hist.asked
  BY <1>1, <1>2, Settling
<1> QED
  BY <1>1, <1>2, <1>3, FreedKeepsLink

LEMMA HearsKeepsLink ==
    ASSUME IInv, LinkInv, RelayHears
    PROVE  LinkInv'
<1> DEFINE f == toRelay[1]
<1> DEFINE mine == relay.ask # 0 /\ f.id = relay.ask
<1>1. /\ Types /\ RelayInv /\ AnswerInv /\ toRelay # <<>> /\ toRelay' = Tail(toRelay)
      /\ UNCHANGED <<hub, made>>
  BY DEF IInv, RelayHears, hubVars
<1>2. Head(toRelay) = f /\ 1 \in DOMAIN toRelay /\ f \in RelayFrames(made.asks)
  <2>1. toRelay \in Seq(RelayFrames(made.asks))
    BY <1>1 DEF Types
  <2> QED
    BY <1>1, <2>1, TailLeft
<1>3. f.k = "result" => f.id # 0 /\ hist.told[f.id] = {f.from} /\ f.epoch = hist.asked[f.id]
  BY <1>1, <1>2 DEF AnswerInv
<1>4. f.k = "result" => f.from \in Phones
  BY <1>2 DEF RelayFrames
<1>5. relay \in Relays
  BY <1>1 DEF Types
<1>6. \/ /\ f.k = "registered"
         /\ relay' = IF f.epoch = relay.epoch THEN [relay EXCEPT !.registered = TRUE] ELSE relay
         /\ UNCHANGED <<toHub, hist>>
      \/ /\ f.k = "status" /\ relay' = [relay EXCEPT !.watched = f.watched]
         /\ UNCHANGED <<toHub, hist>>
      \/ /\ f.k = "claimed"
         /\ relay' = IF mine THEN [relay EXCEPT !.timer = "answer"] ELSE relay
         /\ UNCHANGED <<toHub, hist>>
      \/ /\ f.k = "result" /\ mine /\ f.epoch = relay.epoch
         /\ relay' = Free(relay) /\ hist' = Settled(hist, f.from)
         /\ UNCHANGED toHub
      \/ f.k = "declined" /\ mine /\ FallBack
      \/ /\ f.k \in {"result", "declined"} /\ ~mine
         /\ UNCHANGED <<relay, toHub, hist>>
      \/ /\ f.k = "result" /\ mine /\ f.epoch # relay.epoch
         /\ UNCHANGED <<relay, toHub, hist>>
  BY <1>2 DEF RelayHears
<1> HIDE DEF f
<1>7. CASE f.k = "result" /\ mine /\ relay' = Free(relay) /\ hist' = Settled(hist, f.from) /\ UNCHANGED toHub
  <2>1. relay.ask # 0 /\ hist.told[relay.ask] # {} /\ f.from \in Phones \cup {"desktop"}
    BY <1>3, <1>4, <1>7
  <2>2. hist'.asked = hist.asked
    BY <1>1, <1>7, <2>1, Settling
  <2> QED
    BY <1>1, <1>7, <2>1, <2>2, FreedKeepsLink
<1>8. CASE mine /\ FallBack
  <2>1. /\ relay.ask # 0 /\ relay' = Free(relay) /\ hist' = Settled(hist, "desktop")
        /\ SendHub(relay.sock, [k |-> "cancel", id |-> relay.ask])
    BY <1>8 DEF FallBack
  <2>2. hist'.asked = hist.asked
    BY <1>1, <2>1, Settling
  <2> QED
    BY <1>1, <2>1, <2>2, FreedKeepsLink
<1>9. CASE /\ relay'.sock = relay.sock /\ relay'.epoch = relay.epoch /\ relay'.ask = relay.ask
           /\ UNCHANGED <<toHub, hist>>
           /\ \/ f.k \notin {"declined", "result"} \/ ~mine
              \/ f.k = "result" /\ f.epoch # relay.epoch
  <2>1. LinkStays
    BY <1>1, <1>9 DEF LinkStays
  <2>2. Waits /\ f.k \in {"declined", "result"} => f.id # relay.ask
    BY <1>3, <1>9 DEF Waits
  <2> QED
    BY <1>1, <2>1, <2>2, HearsLittleKeepsLink DEF f
<1>10. \/ relay' = relay
       \/ relay' = [relay EXCEPT !.registered = TRUE]
       \/ relay' = [relay EXCEPT !.watched = f.watched]
       \/ relay' = [relay EXCEPT !.timer = "answer"]
       => relay'.sock = relay.sock /\ relay'.epoch = relay.epoch /\ relay'.ask = relay.ask
  BY <1>5 DEF Relays
<1> HIDE DEF mine
<1> QED
  BY <1>6, <1>7, <1>8, <1>9, <1>10

\* The relay leaves its socket.
LEMMA LeavesKeepsLink ==
    ASSUME IInv, LinkInv, relay'.sock = 0, relay'.ask \in {0, relay.ask},
           UNCHANGED <<toHub, hub>>, made'.asks = made.asks
    PROVE  LinkInv'
<1>1. OrderInv'
  BY DEF LinkInv, OrderInv
<1>2. ReachInv' /\ HubKnows' /\ HubWillKnow'
  BY DEF ReachInv, Waits, HubKnows, HubWillKnow
<1> QED
  BY <1>1, <1>2 DEF LinkInv

LEMMA DropsKeepsLink ==
    ASSUME IInv, LinkInv, RelayDrops \/ RelayStops
    PROVE  LinkInv'
<1>1. Types /\ 0 \in 0..(MaxMishaps + 1)
  BY AskAssumption DEF IInv
<1>2. made'.asks = made.asks /\ UNCHANGED <<toHub, hub>>
  BY <1>1 DEF RelayDrops, RelayStops, Mishap, hubVars, Types
<1>3. relay'.sock = 0 /\ relay'.ask \in {0, relay.ask}
  <2>1. CASE relay' = [relay EXCEPT !.sock = 0, !.registered = FALSE]
    BY <1>1, <2>1 DEF Types, Relays
  <2>2. CASE relay' = [Free(relay) EXCEPT !.sock = 0, !.registered = FALSE, !.watched = FALSE]
    <3> DEFINE r == Free(relay)
    <3>1. r \in Relays /\ r.ask = 0
      BY <1>1, Freed
    <3>2. relay' = [r EXCEPT !.sock = 0, !.registered = FALSE, !.watched = FALSE]
      BY <2>2
    <3> HIDE DEF r
    <3> QED
      BY <3>1, <3>2 DEF Relays
  <2> QED
    BY <2>1, <2>2 DEF RelayDrops, RelayStops
<1> QED
  BY <1>2, <1>3, LeavesKeepsLink

\* A new epoch: no question was asked in it.
LEMMA NewEpochKeepsLink ==
    ASSUME IInv, LinkInv, NEW c \in Sockets, NEW f, SendHub(c, f), f.k \in {"register", "snapshot"},
           relay'.ask = relay.ask, relay'.epoch = made.epochs + 1, UNCHANGED hub,
           made'.asks = made.asks, hist'.asked = hist.asked
    PROVE  LinkInv'
<1>1. Types /\ RelayInv /\ OrderInv /\ QuestionInv
  BY DEF IInv, LinkInv
<1>2. OrderInv'
  BY <1>1, SendingGrows, GrownInOrder
<1>3. \A i \in 1..MaxAsks : hist.asked[i] # relay'.epoch
  <2> SUFFICES ASSUME NEW i \in 1..MaxAsks PROVE hist.asked[i] # made.epochs + 1
    OBVIOUS
  <2>1. hist.asked[i] \in Nat /\ made.epochs \in Nat /\ hist.asked[i] <= made.epochs
    BY <1>1, Fields DEF RelayInv
  <2> QED
    BY <2>1
<1>4. relay.ask \in 0..MaxAsks /\ hub.ask.id \in 0..MaxAsks
  BY <1>1, Fields
<1>5. ReachInv'
  BY <1>3, <1>4 DEF ReachInv, Waits
<1>6. HubKnows'
  BY <1>3, <1>4 DEF HubKnows
<1>7. HubWillKnow'
  <2> SUFFICES ASSUME NEW d \in Sockets, NEW n \in DOMAIN toHub'[d], toHub'[d][n].k = "ask"
               PROVE  hist.asked[toHub'[d][n].id] # relay'.epoch
    BY DEF HubWillKnow
  <2>1. n \in DOMAIN toHub[d] /\ toHub'[d][n] = toHub[d][n]
    BY <1>1, SendingGrows DEF Grown
  <2>2. toHub[d][n].id \in 1..made.asks
    BY <1>1, <2>1, AsksNumbered
  <2>3. toHub[d][n].id \in 1..MaxAsks
    BY <1>1, <2>2, Fields, SMTT(30)
  <2> QED
    BY <1>3, <2>1, <2>3
<1> QED
  BY <1>2, <1>5, <1>6, <1>7 DEF LinkInv

LEMMA ResnapshotsKeepsLink ==
    ASSUME IInv, LinkInv, RelayResnapshots
    PROVE  LinkInv'
<1> DEFINE e == made.epochs + 1
<1> DEFINE f == [k |-> "snapshot", epoch |-> e]
<1>1. Types /\ relay.sock # 0
  BY DEF IInv, RelayResnapshots
<1>2. relay.sock \in Sockets
  BY <1>1, Fields, SMTT(30) DEF Sockets, Types, Relays
<1>3. /\ relay' = [relay EXCEPT !.registered = TRUE, !.epoch = e] /\ SendHub(relay.sock, f)
      /\ made' = [made EXCEPT !.epochs = e, !.mishaps = @ + 1] /\ UNCHANGED <<hub, hist>>
  BY DEF RelayResnapshots, hubVars
<1>4. f.k = "snapshot"
  OBVIOUS
<1> HIDE DEF f
<1>5. relay'.ask = relay.ask /\ relay'.epoch = made.epochs + 1 /\ made'.asks = made.asks
  BY <1>1, <1>3 DEF Types, Relays
<1> QED
  BY <1>2, <1>3, <1>4, <1>5, NewEpochKeepsLink

LEMMA ConnectsKeepsLink ==
    ASSUME IInv, LinkInv, RelayConnects
    PROVE  LinkInv'
<1> DEFINE e == made.epochs + 1
<1> DEFINE c == made.socks + 1
<1> DEFINE f == [k |-> "register", epoch |-> e]
<1>1. Types /\ RelayInv /\ relay.sock = 0
  BY DEF IInv, RelayConnects
<1>2. c \in Sockets
  <2>1. /\ made.socks \in Nat /\ made.mishaps \in Nat /\ MaxMishaps \in Nat
        /\ made.mishaps <= MaxMishaps
    BY <1>1, Fields
  <2>2. made.socks <= made.mishaps
    BY <1>1, <2>1 DEF RelayInv
  <2> QED
    BY <2>1, <2>2 DEF Sockets
<1>3. /\ relay' = [relay EXCEPT !.sock = c, !.registered = FALSE, !.epoch = e]
      /\ SendHub(c, f) /\ made' = [made EXCEPT !.socks = c, !.epochs = e] /\ UNCHANGED <<hub, hist>>
  BY DEF RelayConnects, hubVars
<1>4. f.k = "register"
  OBVIOUS
<1> HIDE DEF f, c
<1>5. relay'.ask = relay.ask /\ relay'.epoch = made.epochs + 1 /\ made'.asks = made.asks
  BY <1>1, <1>3 DEF Types, Relays
<1> QED
  BY <1>2, <1>3, <1>4, <1>5, NewEpochKeepsLink

\* A question goes out behind everything else on the last socket.
LEMMA AsksKeepsLink ==
    ASSUME IInv, LinkInv, RelayAsks
    PROVE  LinkInv'
<1> DEFINE i == made.asks + 1
<1> DEFINE f == [k |-> "ask", id |-> i, epoch |-> relay.epoch]
<1> DEFINE c == relay.sock
<1>1. /\ Types /\ RelayInv /\ SocketInv /\ QuestionInv
      /\ OrderInv /\ ReachInv /\ HubKnows /\ HubWillKnow
  BY DEF IInv, LinkInv
<1>2. /\ relay.ask = 0 /\ c # 0 /\ made.asks < MaxAsks /\ made' = [made EXCEPT !.asks = i]
      /\ relay' = [relay EXCEPT !.ask = i, !.timer = "claim"] /\ SendHub(c, f)
      /\ hist' = [hist EXCEPT !.asked[i] = relay.epoch] /\ UNCHANGED <<toRelay, hub>>
  BY DEF RelayAsks, hubVars
<1>3. c \in Sockets /\ c = made.socks /\ made.socks \in Nat
  BY <1>1, <1>2, Fields DEF RelayInv, Sockets
<1>4. Grown(c, f)
  BY <1>1, <1>2, <1>3, SendingGrows
<1>5. f.k = "ask" /\ f.id = i
  OBVIOUS
<1>6. made.asks \in Nat /\ MaxAsks \in Nat /\ hub.ask.id \in 0..made.asks /\ i \in 1..MaxAsks /\ i = made.asks + 1
  BY <1>1, <1>2, Fields, SMTT(30) DEF QuestionInv
<1> HIDE DEF f, c, i
<1>7. /\ relay'.ask = i /\ relay'.sock = relay.sock /\ relay'.epoch = relay.epoch /\ made'.asks = i
      /\ hist'.asked[i] = relay.epoch /\ \A j \in 1..MaxAsks : j # i => hist'.asked[j] = hist.asked[j]
  BY <1>1, <1>2, <1>6, Fields DEF Types, Relays, Histories
<1>8. /\ \A d \in Sockets : \A n \in DOMAIN toHub[d] : n \in DOMAIN toHub'[d] /\ toHub'[d][n] = toHub[d][n]
      /\ \A d \in Sockets : \A n \in DOMAIN toHub'[d] :
             \/ n \in DOMAIN toHub[d] /\ toHub'[d][n] = toHub[d][n]
             \/ d = c /\ n = Len(toHub[c]) + 1 /\ toHub'[d][n] = f
      /\ Len(toHub[c]) + 1 \in DOMAIN toHub'[c] /\ toHub'[c][Len(toHub[c]) + 1] = f
  BY <1>4 DEF Grown
<1>9. \A d \in Sockets : \A n \in DOMAIN toHub[d] :
          /\ toHub[d][n].k = "ask" => toHub[d][n].id \in 1..made.asks
          /\ toHub[d][n].k = "cancel" => toHub[d][n].id \in 0..made.asks
  <2> SUFFICES ASSUME NEW d \in Sockets, NEW n \in DOMAIN toHub[d]
               PROVE  /\ toHub[d][n].k = "ask" => toHub[d][n].id \in 1..made.asks
                      /\ toHub[d][n].k = "cancel" => toHub[d][n].id \in 0..made.asks
    OBVIOUS
  <2>1. toHub[d][n] \in HubFrames(made.asks) /\ (toHub[d][n].k = "ask" => toHub[d][n].id \in 1..made.asks)
    BY <1>1, AsksNumbered
  <2> QED
    BY <1>6, <2>1, HubFramesOf
<1>10. Len(toHub[c]) \in Nat /\ \A n \in DOMAIN toHub[c] : n \in Nat /\ n < Len(toHub[c]) + 1
  BY <1>1, <1>3 DEF Types
<1>11. \A d \in Sockets : c < d => DOMAIN toHub[d] = {}
  <2> SUFFICES ASSUME NEW d \in Sockets, c < d PROVE DOMAIN toHub[d] = {}
    OBVIOUS
  <2>1. d > made.socks
    BY <1>3 DEF Sockets
  <2>2. toHub[d] = <<>>
    BY <1>1, <2>1 DEF SocketInv
  <2> QED
    BY <2>2
<1>12. OrderInv'
  <2>1. relay'.ask \in {0, made'.asks}
    BY <1>7
  <2>2. ASSUME NEW d \in Sockets, NEW n \in DOMAIN toHub'[d]
        PROVE  /\ toHub'[d][n].k = "cancel" => toHub'[d][n].id # 0 /\ toHub'[d][n].id # relay'.ask
               /\ toHub'[d][n].k = "ask" => hub'.ask.id < toHub'[d][n].id
    <3>1. CASE toHub'[d][n] = f
      BY <1>2, <1>5, <1>6, <3>1
    <3>2. CASE n \in DOMAIN toHub[d] /\ toHub'[d][n] = toHub[d][n]
      <4>1. toHub[d][n].k = "cancel" => toHub[d][n].id # i
        BY <1>6, <1>9, <3>2
      <4> QED
        BY <1>1, <1>2, <1>7, <3>2, <4>1 DEF OrderInv
    <3> QED
      BY <1>8, <3>1, <3>2
  <2>3. ASSUME NEW b \in Sockets, NEW d \in Sockets, NEW n \in DOMAIN toHub'[b], NEW m \in DOMAIN toHub'[d],
               toHub'[b][n].k = "ask", toHub'[d][m].k = "ask", Before(b, n, d, m)
        PROVE  toHub'[b][n].id < toHub'[d][m].id
    <3>1. CASE n \in DOMAIN toHub[b] /\ toHub'[b][n] = toHub[b][n] /\ m \in DOMAIN toHub[d] /\ toHub'[d][m] = toHub[d][m]
      BY <1>1, <2>3, <3>1 DEF OrderInv
    <3>2. CASE n \in DOMAIN toHub[b] /\ toHub'[b][n] = toHub[b][n] /\ toHub'[d][m] = f
      <4>1. toHub[b][n].id \in 1..made.asks
        BY <1>9, <2>3, <3>2
      <4> QED
        BY <1>5, <1>6, <3>2, <4>1
    <3>3. CASE b = c /\ n = Len(toHub[c]) + 1
      <4>1. CASE m \in DOMAIN toHub[d]
        <5>1. c < d \/ (d = c /\ Len(toHub[c]) + 1 < m)
          BY <2>3, <3>3 DEF Before
        <5>2. ~(c < d)
          BY <1>11, <4>1
        <5>3. d = c => m < Len(toHub[c]) + 1 /\ m \in Nat
          BY <1>10, <4>1
        <5> QED
          BY <1>10, <5>1, <5>2, <5>3
      <4>2. CASE d = c /\ m = Len(toHub[c]) + 1
        BY <1>3, <1>10, <2>3, <3>3, <4>2 DEF Before
      <4> QED
        BY <1>8, <4>1, <4>2
    <3> QED
      BY <1>8, <3>1, <3>2, <3>3
  <2> QED
    BY <2>1, <2>2, <2>3 DEF OrderInv
<1>13. ReachInv'
  BY <1>5, <1>7, <1>8 DEF ReachInv, c
<1> DEFINE Later(n, j) == \E m \in DOMAIN toHub'[relay.sock] :
                            n < m /\ toHub'[relay.sock][m].k = "cancel" /\ toHub'[relay.sock][m].id = j
<1>14. \A n, j : CancelAfter(n, j) => Later(n, j)
  BY <1>1, <1>2, <1>4, GrownCancels DEF c
<1> HIDE DEF Later
<1>15. HubKnows'
  <2>1. SUFFICES ASSUME hub.ask.id # 0, hist'.asked[hub.ask.id] = relay.epoch
                 PROVE  hub.cur = relay.sock /\ Later(0, hub.ask.id)
    BY <1>2, <1>7 DEF HubKnows, CancelAfter, Later
  <2>2. hub.ask.id \in 1..MaxAsks /\ hub.ask.id # i
    BY <1>6, <2>1
  <2> QED
    BY <1>1, <1>2, <1>7, <1>14, <2>1, <2>2 DEF HubKnows, c
<1>16. HubWillKnow'
  <2>1. SUFFICES ASSUME NEW d \in Sockets, NEW n \in DOMAIN toHub'[d], toHub'[d][n].k = "ask",
                        hist'.asked[toHub'[d][n].id] = relay.epoch
                 PROVE  d = relay.sock /\ (i = toHub'[d][n].id \/ Later(n, toHub'[d][n].id))
    BY <1>7 DEF HubWillKnow, CancelAfter, Later
  <2>2. CASE d = c /\ toHub'[d][n] = f
    BY <1>5, <2>2 DEF c
  <2>3. CASE n \in DOMAIN toHub[d] /\ toHub'[d][n] = toHub[d][n]
    <3>1. toHub[d][n].id \in 1..made.asks
      BY <1>9, <2>1, <2>3
    <3>2. toHub[d][n].id \in 1..MaxAsks /\ toHub[d][n].id # i /\ toHub[d][n].id # relay.ask
      BY <1>2, <1>6, <3>1
    <3>3. hist.asked[toHub[d][n].id] = relay.epoch
      BY <1>7, <2>1, <2>3, <3>2
    <3>4. d = relay.sock /\ CancelAfter(n, toHub[d][n].id)
      BY <1>1, <1>2, <2>1, <2>3, <3>2, <3>3 DEF HubWillKnow, c
    <3> QED
      BY <1>14, <2>3, <3>4
  <2> QED
    BY <1>8, <2>2, <2>3
<1> QED
  BY <1>12, <1>13, <1>15, <1>16 DEF LinkInv

\* What the hub does with a frame of a phone.
LEMMA HandlesKeepsLink ==
    ASSUME IInv, LinkInv, NEW p \in Phones, HubHandles(p)
    PROVE  LinkInv'
<1> DEFINE f == Head(up[p])
<1>1. Types /\ RelayInv /\ SocketInv /\ QuestionInv /\ up[p] # <<>> /\ UNCHANGED <<relay, toHub, made>>
  BY DEF IInv, HubHandles
<1>2. f \in UpFrames(made.asks)
  <2>1. up[p] \in Seq(UpFrames(made.asks))
    BY <1>1 DEF Types
  <2> QED
    BY <1>1, <2>1, TailLeft
<1>3. f.k \in {"select", "claim", "answer", "decline"} /\ (f.k # "select" => f.id \in 1..made.asks)
  BY <1>2 DEF UpFrames
<1>4. made.asks \in Nat /\ hub \in Hubs /\ hub.ask.epoch \in Nat /\ NoAsk.id = 0
  BY <1>1, Fields DEF Types, NoAsk
<1>5. \/ f.k = "select" /\ Selects(p)
      \/ /\ f.k # "select"
         /\ \/ Refuses(p, f)
            \/ Claims(p, f)
            \/ hub.ask.id = f.id /\ \E sent \in BOOLEAN : Declines(p, f, sent)
            \/ hub.ask.id = f.id /\ Answers(p, f)
  BY DEF HubHandles, f, Sendable
<1> HIDE DEF f
<1>6. ASSUME hub'.cur = hub.cur, hub'.ask.id = hub.ask.id, hist'.asked = hist.asked, MoreToRelay
      PROVE  LinkInv'
  <2>1. \A n \in DOMAIN toRelay : n \in DOMAIN toRelay' /\ toRelay'[n] = toRelay[n]
    BY <1>1, <1>6, MoreKeeps
  <2> QED
    BY <1>1, <1>6, <2>1, StaysKeeps DEF LinkStays
<1>7. CASE Selects(p) \/ Refuses(p, f)
  <2>1. UNCHANGED <<hub, toRelay, hist>>
    BY <1>7 DEF Selects, Refuses
  <2> QED
    BY <1>1, <1>6, <2>1, NoMoreToRelay
<1>8. CASE f.k # "select" /\ Claims(p, f)
  <2>1. hub'.cur = hub.cur /\ hub'.ask.id = hub.ask.id /\ UNCHANGED hist
    BY <1>4, <1>8 DEF Claims, Hubs, Questions
  <2>2. MoreToRelay
    <3>1. f.id \in 0..made.asks
      BY <1>3, <1>4, <1>8
    <3>2. [k |-> "claimed", id |-> f.id] \in RelayFrames(made.asks)
      BY <3>1 DEF RelayFrames
    <3> QED
      BY <1>1, <1>8, <3>2, HeardOne, NoMoreToRelay DEF Claims
  <2> QED
    BY <1>6, <2>1, <2>2
<1>9. CASE f.k # "select" /\ hub.ask.id = f.id /\ \E sent \in BOOLEAN : Declines(p, f, sent)
  <2> DEFINE r == [k |-> "declined", id |-> f.id]
  <2>1. hub' = [hub EXCEPT !.ask = NoAsk] /\ toRelay' = toRelay \o Heard(hub.cur, <<r>>) /\ UNCHANGED hist
    BY <1>9 DEF Declines
  <2>2. r \in RelayFrames(made.asks) /\ r.k \in {"declined", "result"} /\ r.id = hub.ask.id
    <3>1. f.id \in 0..made.asks
      BY <1>3, <1>4, <1>9
    <3> QED
      BY <1>9, <3>1 DEF RelayFrames
  <2>3. hub'.cur = hub.cur /\ hub'.ask = NoAsk
    BY <1>4, <2>1 DEF Hubs
  <2> HIDE DEF r
  <2>4. LinkStays
    BY <1>1, <2>1 DEF LinkStays
  <2> QED
    BY <2>1, <2>2, <2>3, <2>4, SettlesKeeps
<1>10. CASE f.k # "select" /\ hub.ask.id = f.id /\ Answers(p, f)
  <2> DEFINE r == [k |-> "result", id |-> f.id, epoch |-> hub.ask.epoch, from |-> p]
  <2>1. /\ hub' = [hub EXCEPT !.ask = NoAsk] /\ toRelay' = toRelay \o Heard(hub.cur, <<r>>)
        /\ hist' = [hist EXCEPT !.told[f.id] = @ \cup {p}]
    BY <1>10 DEF Answers, Result
  <2>2. r \in RelayFrames(made.asks) /\ r.k \in {"declined", "result"} /\ r.id = hub.ask.id
    <3>1. f.id \in 0..made.asks
      BY <1>3, <1>4, <1>10
    <3> QED
      BY <1>4, <1>10, <3>1 DEF RelayFrames
  <2>3. hub'.cur = hub.cur /\ hub'.ask = NoAsk
    BY <1>4, <2>1 DEF Hubs
  <2> HIDE DEF r
  <2>4. LinkStays
    BY <1>1, <2>1 DEF LinkStays, Types, Histories
  <2> QED
    BY <2>1, <2>2, <2>3, <2>4, SettlesKeeps
<1> QED
  BY <1>5, <1>7, <1>8, <1>9, <1>10

LEMMA StepKeepsLink ==
    ASSUME IInv, LinkInv, Next
    PROVE  LinkInv'
<1>1. Types
  BY DEF IInv
<1>2. CASE RelayConnects \/ RelayResnapshots \/ RelayAsks \/ RelayGivesUp \/ RelayDrops \/ RelayStops \/ RelayHears
  BY <1>2, ConnectsKeepsLink, ResnapshotsKeepsLink, AsksKeepsLink, GivesUpKeepsLink, DropsKeepsLink, HearsKeepsLink
<1>3. ASSUME NEW c \in Sockets, HubReads(c) \/ HubSeesClose(c)
      PROVE  LinkInv'
  BY <1>3, ReadsKeepLink, CloseKeepsLink
<1>4. ASSUME NEW p \in Phones, HubSelectDone(p) \/ GhostGoes(p)
      PROVE  LinkInv'
  <2>1. MoreToRelay /\ UNCHANGED <<relay, toHub, hub, made, hist>>
    <3>1. CASE HubSelectDone(p)
      BY <1>1, <3>1, Pushing DEF HubSelectDone
    <3>2. CASE GhostGoes(p)
      BY <1>1, <3>2, Pushing, NoMoreToRelay DEF GhostGoes
    <3> QED
      BY <1>4, <3>1, <3>2
  <2>2. \A n \in DOMAIN toRelay : n \in DOMAIN toRelay' /\ toRelay'[n] = toRelay[n]
    BY <1>1, <2>1, MoreKeeps DEF IInv
  <2> QED
    BY <2>1, <2>2, StaysKeeps DEF LinkStays
<1>5. ASSUME NEW p \in Phones,
             \/ PhoneConnects(p) \/ PhoneReselects(p) \/ PhoneDrops(p) \/ PhoneTurns(p)
             \/ PhoneActs(p) \/ PhoneHears(p)
      PROVE  LinkInv'
  <2>1. hist'.asked = hist.asked
    BY <1>1, <1>5 DEF PhoneConnects, PhoneReselects, PhoneDrops, PhoneTurns, PhoneActs, PhoneHears, Types, Histories
  <2>2. UNCHANGED <<relay, toRelay, toHub, hub>> /\ made'.asks = made.asks
    BY <1>1, <1>5 DEF PhoneConnects, PhoneReselects, PhoneDrops, PhoneTurns, PhoneActs, PhoneHears,
                      relayVars, hubVars, Mishap, Types
  <2> QED
    BY <2>1, <2>2, StaysKeeps DEF LinkStays
<1>6. ASSUME NEW p \in Phones, HubHandles(p)
      PROVE  LinkInv'
  BY <1>6, HandlesKeepsLink
<1> QED
  BY <1>2, <1>3, <1>4, <1>5, <1>6 DEF Next

-----------------------------------------------------------------------------
(* The frames to the phones.                                               *)

\* A card that is shown, or will be when the n-th frame to the phone is read.
Shown(p, n, i) ==
    IF n = 0 THEN phone[p].card = i ELSE down[p][n].k = "request" /\ down[p][n].id = i

\* A frame that leaves the card of question i on the screen, or that the history records.
Spares(f, i) ==
    /\ f.k = "request" => f.id = i
    /\ f.k \in {"retracted", "decline"} => f.id # i
    /\ f.k = "claim" => f.id # i \/ f.ok
    /\ f.k = "answer" => ~f.ok

\* The hub's question is shown, or will be, by those who have been told, and stays.
ShowInv ==
    \A p \in selected \ selecting :
        hub.ask.id # 0 /\ p \notin hist.astray =>
            \E n \in DOMAIN down[p] \cup {0} :
                /\ Shown(p, n, hub.ask.id)
                /\ \A m \in DOMAIN down[p] : n < m => Spares(down[p][m], hub.ask.id)

\* No other question is, unless its retraction is under way.
GoneInv ==
    \A p \in Phones \ hist.away : \A n \in DOMAIN down[p] \cup {0} : \A i \in 1..MaxAsks :
        Shown(p, n, i) =>
            /\ p \in selected
            /\ \/ hub.ask.id = i
               \/ \E m \in DOMAIN down[p] : n < m /\ down[p][m].k = "retracted" /\ down[p][m].id = i

ScreenInv == ShowInv /\ GoneInv

-----------------------------------------------------------------------------

LEMMA JoinedAt ==
    ASSUME NEW S, NEW s \in Seq(S), NEW u \in Seq(S)
    PROVE  /\ \A n \in DOMAIN s : n \in DOMAIN (s \o u) /\ (s \o u)[n] = s[n]
           /\ \A k \in DOMAIN u : Len(s) + k \in DOMAIN (s \o u) /\ (s \o u)[Len(s) + k] = u[k]
           /\ \A n \in DOMAIN (s \o u) :
                 n \in DOMAIN s \/ \E k \in DOMAIN u : n = Len(s) + k
           /\ Len(s) \in Nat /\ DOMAIN s = 1..Len(s) /\ \A k \in DOMAIN u : k \in Nat /\ k > 0
<1>1. \A n \in DOMAIN (s \o u) : n \in DOMAIN s \/ n - Len(s) \in DOMAIN u
  BY Joined, Zenon
<1>2. \A n \in DOMAIN (s \o u) : n \in Nat
  <2>1. s \o u \in Seq(S)
    OBVIOUS
  <2> QED
    BY <2>1
<1>3. \A n \in DOMAIN (s \o u) : n = Len(s) + (n - Len(s))
  BY <1>2
<1> QED
  BY <1>1, <1>3

\* Phones are sent more frames, on which the card of the hub's question stays or comes,
\* and every other goes.
LEMMA ScreensGrow ==
    ASSUME Types, ScreenInv, NEW u \in [Phones -> Seq(DownFrames(made.asks))],
           \A q \in Phones : down'[q] = down[q] \o u[q],
           \A q \in Phones : phone'[q].card = phone[q].card,
           hist'.away = hist.away, hist'.astray = hist.astray, selected \subseteq selected', selected' \subseteq Phones,
           \A q \in selected' \ selecting' :
               hub'.ask.id # 0 =>
                   \/ /\ hub'.ask.id = hub.ask.id /\ q \in selected \ selecting
                      /\ \A m \in DOMAIN u[q] : Spares(u[q][m], hub.ask.id)
                   \/ \E n \in DOMAIN u[q] :
                         /\ u[q][n].k = "request" /\ u[q][n].id = hub'.ask.id
                         /\ \A m \in DOMAIN u[q] : n < m => Spares(u[q][m], hub'.ask.id),
           \A q \in Phones : \A n \in DOMAIN u[q] :
               u[q][n].k = "request" => q \in selected' /\ u[q][n].id = hub'.ask.id,
           \A q \in selected :
               hub.ask.id # 0 /\ hub'.ask.id # hub.ask.id =>
                   \E n \in DOMAIN u[q] : u[q][n].k = "retracted" /\ u[q][n].id = hub.ask.id
    PROVE  ScreenInv'
<1> DEFINE i == hub'.ask.id
<1>1. ASSUME NEW q \in Phones
      PROVE  /\ \A n \in DOMAIN down[q] : n \in DOMAIN down'[q] /\ down'[q][n] = down[q][n]
             /\ \A k \in DOMAIN u[q] : /\ Len(down[q]) + k \in DOMAIN down'[q]
                                       /\ down'[q][Len(down[q]) + k] = u[q][k]
             /\ \A n \in DOMAIN down'[q] :
                   n \in DOMAIN down[q] \/ \E k \in DOMAIN u[q] : n = Len(down[q]) + k
             /\ Len(down[q]) \in Nat /\ DOMAIN down[q] = 1..Len(down[q])
             /\ \A k \in DOMAIN u[q] : k \in Nat /\ k > 0
  <2> DEFINE s == down[q]
  <2> DEFINE v == u[q]
  <2>1. s \in Seq(DownFrames(made.asks)) /\ v \in Seq(DownFrames(made.asks)) /\ down'[q] = s \o v
    BY DEF Types
  <2> HIDE DEF s, v
  <2>2. /\ \A n \in DOMAIN s : n \in DOMAIN (s \o v) /\ (s \o v)[n] = s[n]
        /\ \A k \in DOMAIN v : Len(s) + k \in DOMAIN (s \o v) /\ (s \o v)[Len(s) + k] = v[k]
        /\ \A n \in DOMAIN (s \o v) : n \in DOMAIN s \/ \E k \in DOMAIN v : n = Len(s) + k
        /\ Len(s) \in Nat /\ DOMAIN s = 1..Len(s) /\ \A k \in DOMAIN v : k \in Nat /\ k > 0
    BY <2>1, JoinedAt, Zenon
  <2>3. /\ \A n \in DOMAIN s : n \in DOMAIN down'[q] /\ down'[q][n] = s[n]
        /\ \A k \in DOMAIN v : Len(s) + k \in DOMAIN down'[q] /\ down'[q][Len(s) + k] = v[k]
        /\ \A n \in DOMAIN down'[q] : n \in DOMAIN s \/ \E k \in DOMAIN v : n = Len(s) + k
    BY <2>1, <2>2, Zenon
  <2> QED
    BY <2>2, <2>3 DEF s, v
<1>2. ASSUME NEW q \in Phones, NEW n \in DOMAIN down[q] \cup {0}, NEW j
      PROVE  (IF n = 0 THEN phone'[q].card = j ELSE down'[q][n].k = "request" /\ down'[q][n].id = j)
             <=> Shown(q, n, j)
  BY <1>1 DEF Shown
<1>3. ASSUME NEW q \in selected' \ selecting', i # 0, q \notin hist.astray
      PROVE  \E n \in DOMAIN down'[q] \cup {0} :
                /\ IF n = 0 THEN phone'[q].card = i ELSE down'[q][n].k = "request" /\ down'[q][n].id = i
                /\ \A m \in DOMAIN down'[q] : n < m => Spares(down'[q][m], i)
  <2>1. q \in Phones
    BY <1>3
  <2>2. CASE /\ i = hub.ask.id /\ q \in selected \ selecting
             /\ \A m \in DOMAIN u[q] : Spares(u[q][m], i)
    <3>1. PICK n \in DOMAIN down[q] \cup {0} :
              /\ Shown(q, n, i) /\ \A m \in DOMAIN down[q] : n < m => Spares(down[q][m], i)
      BY <1>3, <2>2 DEF ScreenInv, ShowInv
    <3>2. \A m \in DOMAIN down'[q] : n < m => Spares(down'[q][m], i)
      <4> SUFFICES ASSUME NEW m \in DOMAIN down'[q], n < m PROVE Spares(down'[q][m], i)
        OBVIOUS
      <4>1. CASE m \in DOMAIN down[q]
        BY <1>1, <2>1, <3>1, <4>1
      <4>2. ASSUME NEW k \in DOMAIN u[q], m = Len(down[q]) + k PROVE Spares(down'[q][m], i)
        BY <1>1, <2>1, <2>2, <4>2
      <4> QED
        BY <1>1, <2>1, <4>1, <4>2
    <3>3. n \in DOMAIN down'[q] \cup {0}
      BY <1>1, <2>1
    <3>4. IF n = 0 THEN phone'[q].card = i ELSE down'[q][n].k = "request" /\ down'[q][n].id = i
      <4>1. CASE n = 0
        BY <2>1, <3>1, <4>1 DEF Shown
      <4>2. CASE n # 0
        BY <1>1, <2>1, <3>1, <4>2 DEF Shown
      <4> QED
        BY <4>1, <4>2
    <3> QED
      BY <3>2, <3>3, <3>4
  <2>3. ASSUME NEW k \in DOMAIN u[q], u[q][k].k = "request", u[q][k].id = i,
               \A m \in DOMAIN u[q] : k < m => Spares(u[q][m], i)
        PROVE  \E n \in DOMAIN down'[q] \cup {0} :
                  /\ IF n = 0 THEN phone'[q].card = i ELSE down'[q][n].k = "request" /\ down'[q][n].id = i
                  /\ \A m \in DOMAIN down'[q] : n < m => Spares(down'[q][m], i)
    <3> DEFINE n == Len(down[q]) + k
    <3>1. n \in DOMAIN down'[q] /\ n # 0 /\ down'[q][n] = u[q][k] /\ n \in Nat
      BY <1>1, <2>1
    <3>2. ASSUME NEW m \in DOMAIN down'[q], n < m PROVE Spares(down'[q][m], i)
      <4>1. m \notin DOMAIN down[q]
        BY <1>1, <2>1, <3>2
      <4>2. PICK l \in DOMAIN u[q] : m = Len(down[q]) + l
        BY <1>1, <2>1, <4>1
      <4>3. k < l /\ down'[q][m] = u[q][l]
        BY <1>1, <2>1, <3>2, <4>2
      <4> QED
        BY <2>3, <4>3
    <3> HIDE DEF n
    <3> QED
      BY <2>3, <3>1, <3>2
  <2> QED
    BY <1>3, <2>2, <2>3
<1>4. ShowInv'
  BY <1>3 DEF ShowInv, Shown
<1>5. ASSUME NEW q \in Phones \ hist.away, NEW n \in DOMAIN down'[q] \cup {0}, NEW j \in 1..MaxAsks,
             IF n = 0 THEN phone'[q].card = j ELSE down'[q][n].k = "request" /\ down'[q][n].id = j
      PROVE  /\ q \in selected'
             /\ \/ i = j
                \/ \E m \in DOMAIN down'[q] : n < m /\ down'[q][m].k = "retracted" /\ down'[q][m].id = j
  <2>1. CASE n \in DOMAIN down[q] \cup {0}
    <3>1. Shown(q, n, j)
      BY <1>2, <1>5, <2>1
    <3>2. /\ q \in selected
          /\ \/ hub.ask.id = j
             \/ \E m \in DOMAIN down[q] : n < m /\ down[q][m].k = "retracted" /\ down[q][m].id = j
      BY <1>5, <2>1, <3>1 DEF ScreenInv, GoneInv
    <3>3. CASE hub.ask.id = j /\ i # j
      <4>1. j # 0
        OBVIOUS
      <4>2. PICK k \in DOMAIN u[q] : u[q][k].k = "retracted" /\ u[q][k].id = j
        BY <3>2, <3>3, <4>1
      <4>3. Len(down[q]) + k \in DOMAIN down'[q] /\ down'[q][Len(down[q]) + k] = u[q][k] /\ n < Len(down[q]) + k
        BY <1>1, <2>1
      <4> QED
        BY <3>2, <4>2, <4>3
    <3>4. CASE \E m \in DOMAIN down[q] : n < m /\ down[q][m].k = "retracted" /\ down[q][m].id = j
      BY <1>1, <3>2, <3>4
    <3> QED
      BY <3>2, <3>3, <3>4
  <2>2. CASE n \notin DOMAIN down[q] \cup {0}
    <3>1. PICK k \in DOMAIN u[q] : n = Len(down[q]) + k
      BY <1>1, <2>2
    <3>2. down'[q][n] = u[q][k]
      BY <1>1, <3>1
    <3> QED
      BY <1>5, <2>2, <3>2
  <2> QED
    BY <2>1, <2>2
<1>6. GoneInv'
  <2>1. \A q \in Phones \ hist'.away : \A n \in DOMAIN down'[q] \cup {0} : \A j \in 1..MaxAsks :
            (IF n = 0 THEN phone'[q].card = j ELSE down'[q][n].k = "request" /\ down'[q][n].id = j) =>
                /\ q \in selected'
                /\ \/ i = j
                   \/ \E m \in DOMAIN down'[q] : n < m /\ down'[q][m].k = "retracted" /\ down'[q][m].id = j
    BY <1>5
  <2> QED
    BY <2>1 DEF GoneInv, Shown
<1> QED
  BY <1>4, <1>6 DEF ScreenInv

\* No phone is told anything, and those who have selected the source are as before, but
\* for some that are told later.
LEMMA ScreensStay ==
    ASSUME Types, ScreenInv, UNCHANGED down, \A q \in Phones : phone'[q].card = phone[q].card,
           hub'.ask.id = hub.ask.id, hist'.away = hist.away, hist'.astray = hist.astray,
           selected \subseteq selected', selected' \ selecting' \subseteq selected \ selecting
    PROVE  ScreenInv'
<1>1. ShowInv'
  BY DEF ScreenInv, ShowInv, Shown, Types
<1>2. GoneInv'
  BY DEF ScreenInv, GoneInv, Shown
<1> QED
  BY <1>1, <1>2 DEF ScreenInv

\* What Tell adds to each phone's frames.
Added(u, v, p, w) ==
    \A q \in Phones :
        /\ u[q] = (IF q \in selected' THEN v ELSE <<>>) \o (IF q = p THEN w ELSE <<>>)
        /\ down'[q] = down[q] \o u[q]

LEMMA Told ==
    ASSUME Types, NEW v \in Seq(DownFrames(made.asks)), NEW p, NEW w \in Seq(DownFrames(made.asks)),
           Tell(v, p, w)
    PROVE  \E u \in [Phones -> Seq(DownFrames(made.asks))] : Added(u, v, p, w)
<1> DEFINE S == DownFrames(made.asks)
<1> DEFINE u == [q \in Phones |-> (IF q \in selected' THEN v ELSE <<>>) \o (IF q = p THEN w ELSE <<>>)]
<1>1. down \in [Phones -> Seq(S)] /\ v \in Seq(S) /\ w \in Seq(S)
  BY DEF Types
<1> HIDE DEF S
<1>2. <<>> \in Seq(S)
  OBVIOUS
<1>3. ASSUME NEW q \in Phones
      PROVE  /\ u[q] \in Seq(S)
             /\ u[q] = (IF q \in selected' THEN v ELSE <<>>) \o (IF q = p THEN w ELSE <<>>)
             /\ down'[q] = down[q] \o u[q]
  <2> DEFINE a == IF q \in selected' THEN v ELSE <<>>
  <2> DEFINE b == IF q = p THEN w ELSE <<>>
  <2> DEFINE s == down[q]
  <2>1. a \in Seq(S) /\ b \in Seq(S) /\ s \in Seq(S)
    BY <1>1, <1>2
  <2>2. u[q] = a \o b
    OBVIOUS
  <2>3. down'[q] = (s \o a) \o b
    BY DEF Tell
  <2> HIDE DEF a, b, s, u
  <2>4. a \o b \in Seq(S)
    BY <2>1
  <2>5. (s \o a) \o b = s \o (a \o b)
    BY <2>1, SMTT(30)
  <2>6. u[q] \in Seq(S) /\ down'[q] = s \o u[q]
    BY <2>2, <2>3, <2>4, <2>5
  <2> QED
    BY <2>2, <2>6 DEF a, b, s
<1>4. u \in [Phones -> Seq(S)]
  BY <1>3
<1> HIDE DEF u
<1>5. Added(u, v, p, w)
  BY <1>3 DEF Added
<1> QED
  BY <1>4, <1>5 DEF S

\* The hub has no question any more, and says so.
LEMMA RetractingKeeps ==
    ASSUME IInv, ScreenInv, hub'.ask.id = 0, UNCHANGED <<phone, selected>>,
           hist'.away = hist.away, hist'.astray = hist.astray,
           NEW p, NEW w \in Seq(DownFrames(made.asks)), \A n \in DOMAIN w : w[n].k # "request",
           Tell(Retraction, p, w)
    PROVE  ScreenInv'
<1> DEFINE S == DownFrames(made.asks)
<1>1. Types /\ QuestionInv /\ selected \subseteq Phones
  BY DEF IInv, Types
<1>2. Retraction \in Seq(S) /\ <<>> \in Seq(S)
  BY <1>1, HubsFrames
<1>3. PICK u \in [Phones -> Seq(S)] : Added(u, Retraction, p, w)
  BY <1>1, <1>2, Told
<1>4. \A n \in DOMAIN Retraction : Retraction[n].k = "retracted"
  BY DEF Retraction
<1>5. hub.ask.id # 0 => Retraction = <<[k |-> "retracted", id |-> hub.ask.id]>>
  BY DEF Retraction, NoAsk
<1>6. ASSUME NEW q \in Phones
      PROVE  /\ \A n \in DOMAIN u[q] : u[q][n].k # "request"
             /\ q \in selected /\ hub.ask.id # 0 =>
                   \E n \in DOMAIN u[q] : u[q][n].k = "retracted" /\ u[q][n].id = hub.ask.id
  <2> DEFINE a == IF q \in selected' THEN Retraction ELSE <<>>
  <2> DEFINE b == IF q = p THEN w ELSE <<>>
  <2>1. a \in Seq(S) /\ b \in Seq(S) /\ u[q] = a \o b
    BY <1>2, <1>3 DEF Added
  <2>2. (\A n \in DOMAIN a : a[n].k # "request") /\ (\A n \in DOMAIN b : b[n].k # "request")
    BY <1>4
  <2>3. q \in selected /\ hub.ask.id # 0 => /\ 1 \in DOMAIN a /\ a[1].k = "retracted"
                                            /\ a[1].id = hub.ask.id
    BY <1>5
  <2> HIDE DEF a, b, S
  <2>4. /\ \A n \in DOMAIN a : n \in DOMAIN (a \o b) /\ (a \o b)[n] = a[n]
        /\ \A n \in DOMAIN (a \o b) :
              \/ n \in DOMAIN a /\ (a \o b)[n] = a[n]
              \/ n - Len(a) \in DOMAIN b /\ (a \o b)[n] = b[n - Len(a)]
    BY <2>1, Joined, Zenon
  <2>5. \A n \in DOMAIN (a \o b) : (a \o b)[n].k # "request"
    BY <2>2, <2>4
  <2> QED
    BY <2>1, <2>3, <2>4, <2>5
<1> QED
  BY <1>1, <1>3, <1>6, ScreensGrow DEF Added

LEMMA CloseKeepsScreens ==
    ASSUME IInv, ScreenInv, NEW c \in Sockets, HubSeesClose(c)
    PROVE  ScreenInv'
<1>1. Types /\ hub \in Hubs /\ NoAsk.id = 0
  BY DEF IInv, Types, NoAsk
<1>2. UNCHANGED <<selected, selecting, phone, hist>>
  BY DEF HubSeesClose, phoneVars
<1>3. CASE hub' = [hub EXCEPT !.cur = 0, !.ask = NoAsk] /\ Tell(Retraction, Nobody, <<>>)
  <2>1. hub'.ask.id = 0
    BY <1>1, <1>3 DEF Hubs
  <2>2. <<>> \in Seq(DownFrames(made.asks)) /\ \A n \in DOMAIN <<>> : <<>>[n].k # "request"
    OBVIOUS
  <2> QED
    BY <1>2, <1>3, <2>1, <2>2, RetractingKeeps
<1>4. CASE UNCHANGED <<hub, down>>
  BY <1>1, <1>2, <1>4, ScreensStay
<1> QED
  BY <1>3, <1>4 DEF HubSeesClose

\* The hub's question goes to everybody; one of them has not been told before.
LEMMA SelectDoneKeepsScreens ==
    ASSUME IInv, ScreenInv, NEW p \in Phones, HubSelectDone(p)
    PROVE  ScreenInv'
<1> DEFINE v == Republished
<1> DEFINE S == DownFrames(made.asks)
<1>1. /\ Types /\ QuestionInv /\ UNCHANGED <<hub, phone, hist, selected>> /\ selected \subseteq Phones
      /\ Tell(v, Nobody, <<>>)
  BY DEF IInv, HubSelectDone, phoneVars, Types
<1>2. v \in Seq(S) /\ <<>> \in Seq(S) /\ <<>> \o <<>> = <<>>
  BY <1>1, HubsFrames
<1>3. PICK u \in [Phones -> Seq(S)] : Added(u, v, Nobody, <<>>)
  BY <1>1, <1>2, Told
<1>4. \A q \in Phones : u[q] = IF q \in selected THEN v ELSE <<>>
  <2>1. v \o <<>> = v
    BY <1>2
  <2> HIDE DEF v
  <2> QED
    BY <1>1, <1>2, <1>3, <2>1 DEF Added
<1>5. /\ hub.ask.id = 0 => v = <<>>
      /\ hub.ask.id # 0 => v = <<[k |-> "request", id |-> hub.ask.id]>>
  BY DEF Republished, Request
<1>6. /\ \A n \in DOMAIN v : n = 1 /\ v[n].k = "request" /\ v[n].id = hub.ask.id
      /\ hub.ask.id # 0 => 1 \in DOMAIN v
  BY <1>5
<1> HIDE DEF v
<1>7. ASSUME NEW q \in Phones, NEW n \in DOMAIN u[q]
      PROVE  q \in selected /\ n = 1 /\ u[q][n].k = "request" /\ u[q][n].id = hub.ask.id
  <2>1. DOMAIN <<>> = {}
    OBVIOUS
  <2> QED
    BY <1>4, <1>6, <1>7, <2>1
<1>8. \A q \in selected : hub.ask.id # 0 =>
          \E n \in DOMAIN u[q] : /\ u[q][n].k = "request" /\ u[q][n].id = hub.ask.id
                                 /\ \A m \in DOMAIN u[q] : n < m => Spares(u[q][m], hub.ask.id)
  <2>1. \A m : m = 1 => ~(1 < m)
    OBVIOUS
  <2> QED
    BY <1>1, <1>4, <1>6, <1>7, <2>1
<1> HIDE DEF S
<1> QED
  <2>1. \A q \in selected' \ selecting' : hub'.ask.id # 0 =>
            \E n \in DOMAIN u[q] : /\ u[q][n].k = "request" /\ u[q][n].id = hub'.ask.id
                                   /\ \A m \in DOMAIN u[q] : n < m => Spares(u[q][m], hub'.ask.id)
    BY <1>1, <1>8
  <2>2. \A q \in Phones : \A n \in DOMAIN u[q] :
            u[q][n].k = "request" => q \in selected' /\ u[q][n].id = hub'.ask.id
    BY <1>1, <1>7
  <2>3. /\ u \in [Phones -> Seq(DownFrames(made.asks))] /\ \A q \in Phones : down'[q] = down[q] \o u[q]
        /\ \A q \in Phones : phone'[q].card = phone[q].card
        /\ hist'.away = hist.away /\ hist'.astray = hist.astray
        /\ selected \subseteq selected' /\ selected' \subseteq Phones /\ hub'.ask.id = hub.ask.id
    BY <1>1, <1>3 DEF S, Added
  <2> QED
    BY <1>1, <2>1, <2>2, <2>3, ScreensGrow

\* The hub reads a frame of the relay.
LEMMA ReadsKeepScreens ==
    ASSUME IInv, ScreenInv, NEW c \in Sockets, HubReads(c)
    PROVE  ScreenInv'
<1> DEFINE f == toHub[c][1]
<1>1. Types /\ QuestionInv /\ hub \in Hubs /\ NoAsk.id = 0 /\ selected \subseteq Phones
  BY DEF IInv, Types, NoAsk
<1>2. /\ toHub[c] # <<>> /\ toHub' = [toHub EXCEPT ![c] = Tail(@)]
      /\ \A d \in 1..(c - 1) : toHub[d] = <<>>
      /\ UNCHANGED <<selected, selecting, phone, hist>>
  BY DEF HubReads, phoneVars
<1>3. Head(toHub[c]) = f /\ 1 \in DOMAIN toHub[c]
  BY <1>2, Reading
<1>4. \/ f.k = "register" /\ Registers(c, f)
      \/ f.k = "snapshot" /\ hub' = [hub EXCEPT !.epoch = f.epoch] /\ UNCHANGED down
      \/ f.k = "ask" /\ Asks(c, f)
      \/ f.k = "cancel" /\ Cancels(f)
  BY <1>3 DEF HubReads
<1>5. f.k = "ask" => f.id \in 1..made.asks /\ f.id # hub.ask.id
  BY <1>1, <1>3, AsksNumbered DEF QuestionInv
<1> HIDE DEF f
<1>6. CASE hub'.ask.id = hub.ask.id /\ UNCHANGED down
  BY <1>1, <1>2, <1>6, ScreensStay
<1>7. CASE hub' = [hub EXCEPT !.ask = NoAsk] /\ Tell(Retraction, Nobody, <<>>)
  <2>1. hub'.ask.id = 0
    BY <1>1, <1>7 DEF Hubs
  <2>2. <<>> \in Seq(DownFrames(made.asks)) /\ \A n \in DOMAIN <<>> : <<>>[n].k # "request"
    OBVIOUS
  <2> QED
    BY <1>2, <1>7, <2>1, <2>2, RetractingKeeps
<1>8. CASE /\ f.k = "ask" /\ Tell(Retraction \o Request(f.id), Nobody, <<>>)
           /\ hub' = [hub EXCEPT !.ask = [id |-> f.id, epoch |-> f.epoch, claimed |-> FALSE]]
  <2> DEFINE S == DownFrames(made.asks)
  <2> DEFINE a == Retraction
  <2> DEFINE b == Request(f.id)
  <2> DEFINE v == a \o b
  <2> DEFINE g == [k |-> "request", id |-> f.id]
  <2>1. hub'.ask.id = f.id
    <3> DEFINE r == [id |-> f.id, epoch |-> f.epoch, claimed |-> FALSE]
    <3>1. hub' = [hub EXCEPT !.ask = r] /\ r.id = f.id
      BY <1>8
    <3> HIDE DEF r
    <3> QED
      BY <1>1, <3>1 DEF Hubs
  <2>2. f.id \in 1..made.asks /\ f.id # hub.ask.id /\ f.id # 0
    BY <1>5, <1>8
  <2>3. g \in S /\ b = <<g>> /\ g.k = "request" /\ g.id = f.id
    BY <2>2 DEF DownFrames, Request
  <2>4. a \in Seq(S) /\ <<>> \in Seq(S)
    BY <1>1, HubsFrames
  <2>5. \A n \in DOMAIN a : a[n].k = "retracted"
    BY DEF Retraction
  <2>6. hub.ask.id # 0 => 1 \in DOMAIN a /\ a[1].k = "retracted" /\ a[1].id = hub.ask.id
    BY DEF Retraction, NoAsk
  <2> HIDE DEF g, a, S
  <2>7. b \in Seq(S) /\ Len(b) = 1 /\ b[1] = g
    BY <2>3
  <2> HIDE DEF b
  <2>8. v \in Seq(S) /\ Len(v) = Len(a) + 1 /\ v[Len(a) + 1] = g /\ Len(a) \in Nat
        /\ DOMAIN v = 1..(Len(a) + 1) /\ DOMAIN a = 1..Len(a) /\ \A n \in DOMAIN a : v[n] = a[n]
    <3>1. /\ v \in Seq(S) /\ Len(v) = Len(a) + 1 /\ Len(a) \in Nat /\ DOMAIN a = 1..Len(a)
          /\ DOMAIN v = 1..Len(v)
      BY <2>4, <2>7, ConcatProperties
    <3>2. /\ \A n \in DOMAIN a : (a \o b)[n] = a[n]
          /\ \A k \in DOMAIN b : (a \o b)[Len(a) + k] = b[k]
      BY <2>4, <2>7, JoinedAt
    <3>3. 1 \in DOMAIN b
      BY <2>7
    <3> QED
      BY <2>7, <3>1, <3>2, <3>3
  <2> HIDE DEF v
  <2>9. PICK u \in [Phones -> Seq(S)] : Added(u, v, Nobody, <<>>)
    <3>1. Tell(v, Nobody, <<>>)
      BY <1>8 DEF v, a, b
    <3> QED
      BY <1>1, <2>4, <2>8, <3>1, Told DEF S
  <2>10. \A q \in Phones : u[q] = IF q \in selected THEN v ELSE <<>>
    <3>1. v \o <<>> = v /\ <<>> \o <<>> = <<>>
      BY <2>8
    <3> QED
      BY <1>2, <2>9, <3>1 DEF Added
  <2>11. ASSUME NEW q \in Phones, NEW n \in DOMAIN u[q], u[q][n].k = "request"
         PROVE  q \in selected' /\ u[q][n].id = hub'.ask.id
    <3>1. DOMAIN <<>> = {}
      OBVIOUS
    <3>2. q \in selected /\ n \in DOMAIN v /\ v[n].k = "request"
      BY <2>10, <2>11, <3>1
    <3>3. n = Len(a) + 1
      BY <2>5, <2>8, <3>2
    <3> QED
      BY <1>2, <2>1, <2>3, <2>8, <2>10, <3>2, <3>3
  <2>12. \A q \in selected' \ selecting' :
             \E n \in DOMAIN u[q] : /\ u[q][n].k = "request" /\ u[q][n].id = hub'.ask.id
                                    /\ \A m \in DOMAIN u[q] : n < m => Spares(u[q][m], hub'.ask.id)
    <3> SUFFICES ASSUME NEW q \in selected
                 PROVE  \E n \in DOMAIN u[q] :
                           /\ u[q][n].k = "request" /\ u[q][n].id = hub'.ask.id
                           /\ \A m \in DOMAIN u[q] : n < m => Spares(u[q][m], hub'.ask.id)
      BY <1>2
    <3>1. u[q] = v
      BY <1>1, <2>10
    <3>2. Len(a) + 1 \in DOMAIN v /\ \A m \in DOMAIN v : ~(Len(a) + 1 < m)
      BY <2>8
    <3> QED
      BY <2>1, <2>3, <2>8, <3>1, <3>2
  <2>13. \A q \in selected : hub.ask.id # 0 =>
             \E n \in DOMAIN u[q] : u[q][n].k = "retracted" /\ u[q][n].id = hub.ask.id
    <3> SUFFICES ASSUME NEW q \in selected, hub.ask.id # 0
                 PROVE  \E n \in DOMAIN u[q] : u[q][n].k = "retracted" /\ u[q][n].id = hub.ask.id
      OBVIOUS
    <3>1. u[q] = v
      BY <1>1, <2>10
    <3>2. 1 \in DOMAIN v /\ v[1] = a[1]
      BY <2>6, <2>8
    <3> QED
      BY <2>6, <3>1, <3>2
  <2> QED
    BY <1>1, <1>2, <2>9, <2>11, <2>12, <2>13, ScreensGrow DEF S, Added
<1>9. Registers(c, f) => hub'.ask.id = hub.ask.id /\ UNCHANGED down
  BY <1>1 DEF Registers, Hubs
<1>10. Asks(c, f) => \/ UNCHANGED <<hub, down>>
                     \/ /\ Tell(Retraction \o Request(f.id), Nobody, <<>>)
                        /\ hub' = [hub EXCEPT !.ask = [id |-> f.id, epoch |-> f.epoch, claimed |-> FALSE]]
  BY DEF Asks
<1>11. Cancels(f) => \/ UNCHANGED <<hub, down>>
                     \/ hub' = [hub EXCEPT !.ask = NoAsk] /\ Tell(Retraction, Nobody, <<>>)
  BY DEF Cancels
<1>12. hub' = [hub EXCEPT !.epoch = f.epoch] => hub'.ask.id = hub.ask.id
  BY <1>1 DEF Hubs
<1> QED
  BY <1>4, <1>6, <1>7, <1>8, <1>9, <1>10, <1>11, <1>12

\* A reply to a request that changes nothing for the others.
LEMMA ReplyKeeps ==
    ASSUME Types, ScreenInv, NEW p \in Phones, NEW g \in DownFrames(made.asks), g.k # "request",
           down' = [down EXCEPT ![p] = @ \o <<g>>],
           p \in selected /\ hub.ask.id # 0 => Spares(g, hub.ask.id),
           hub'.ask.id = hub.ask.id, UNCHANGED <<phone, selected, selecting>>,
           hist'.away = hist.away, hist'.astray = hist.astray
    PROVE  ScreenInv'
<1> DEFINE S == DownFrames(made.asks)
<1> DEFINE u == [q \in Phones |-> IF q = p THEN <<g>> ELSE <<>>]
<1>1. <<g>> \in Seq(S) /\ <<>> \in Seq(S) /\ down \in [Phones -> Seq(S)] /\ selected \subseteq Phones
  BY DEF Types
<1>2. u \in [Phones -> Seq(S)]
  BY <1>1
<1>3. \A q \in Phones : down'[q] = down[q] \o u[q]
  <2> SUFFICES ASSUME NEW q \in Phones PROVE down'[q] = down[q] \o u[q]
    OBVIOUS
  <2>1. down[q] \in Seq(S) /\ down[q] \o <<>> = down[q]
    BY <1>1
  <2> QED
    BY <1>1, <2>1
<1>4. ASSUME NEW q \in Phones, NEW n \in DOMAIN u[q]
      PROVE  q = p /\ u[q][n] = g
  <2>1. DOMAIN <<>> = {}
    OBVIOUS
  <2> QED
    BY <1>4, <2>1
<1> HIDE DEF u
<1>5. \A q \in selected' \ selecting' : hub'.ask.id # 0 =>
          /\ hub'.ask.id = hub.ask.id /\ q \in selected \ selecting
          /\ \A m \in DOMAIN u[q] : Spares(u[q][m], hub.ask.id)
  BY <1>1, <1>4
<1>6. \A q \in Phones : \A n \in DOMAIN u[q] : u[q][n].k # "request"
  BY <1>4
<1> QED
  BY <1>1, <1>2, <1>3, <1>5, <1>6, ScreensGrow, ZenonT(60)

LEMMA HandlesKeepsScreens ==
    ASSUME IInv, ScreenInv, NEW p \in Phones, HubHandles(p)
    PROVE  ScreenInv'
<1> DEFINE f == Head(up[p])
<1> DEFINE valid == p \in selected /\ hub.ask.id = f.id /\ hub.cur # 0
<1>1. Types /\ SocketInv /\ QuestionInv /\ up[p] # <<>> /\ UNCHANGED phone
  BY DEF IInv, HubHandles
<1>2. f \in UpFrames(made.asks)
  <2>1. up[p] \in Seq(UpFrames(made.asks))
    BY <1>1 DEF Types
  <2> QED
    BY <1>1, <2>1, TailLeft
<1>3. f.k \in {"select", "claim", "answer", "decline"} /\ (f.k # "select" => f.id \in 1..made.asks)
  BY <1>2 DEF UpFrames
<1>4. hub \in Hubs /\ NoAsk.id = 0 /\ hist \in Histories /\ made.asks \in Nat
  BY <1>1, Fields DEF Types, NoAsk
<1>5. hub.cur = 0 => hub.ask.id = 0
  BY <1>1, <1>4 DEF SocketInv
<1>6. \/ f.k = "select" /\ Selects(p)
      \/ /\ f.k # "select" /\ UNCHANGED <<selected, selecting>>
         /\ \/ ~valid /\ Refuses(p, f)
            \/ valid /\ f.k = "claim" /\ Claims(p, f)
            \/ \E sent \in BOOLEAN : Declines(p, f, sent)
            \/ Answers(p, f)
            \/ f.k = "answer" /\ Refuses(p, f)
  BY DEF HubHandles, f, valid, Sendable
<1> HIDE DEF f
<1>7. ASSUME f.k # "select", NEW b \in BOOLEAN
      PROVE  /\ [k |-> f.k, id |-> f.id, ok |-> b] \in DownFrames(made.asks)
             /\ [k |-> f.k, id |-> f.id, ok |-> b].k # "request"
  BY <1>3, <1>4, <1>7 DEF DownFrames
<1>8. CASE Selects(p)
  <2>1. UNCHANGED <<hub, down, hist>>
    BY <1>8 DEF Selects
  <2>2. selected \subseteq selected' /\ selected' \ selecting' \subseteq selected \ selecting
    BY <1>8 DEF Selects
  <2> QED
    BY <1>1, <2>1, <2>2, ScreensStay
<1>9. CASE f.k # "select" /\ UNCHANGED <<selected, selecting>> /\ Refuses(p, f) /\ (~valid \/ f.k = "answer")
  <2> DEFINE g == [k |-> f.k, id |-> f.id, ok |-> FALSE]
  <2>1. g \in DownFrames(made.asks) /\ g.k # "request"
    BY <1>7, <1>9
  <2>2. p \in selected /\ hub.ask.id # 0 => Spares(g, hub.ask.id)
    <3>1. SUFFICES ASSUME p \in selected, hub.ask.id # 0 PROVE Spares(g, hub.ask.id)
      OBVIOUS
    <3>2. f.k # "answer" => f.id # hub.ask.id
      BY <1>5, <1>9, <3>1
    <3>3. f.k \in {"claim", "answer", "decline"}
      BY <1>3, <1>9
    <3> HIDE DEF valid
    <3> QED
      BY <3>2, <3>3 DEF Spares
  <2>3. down' = [down EXCEPT ![p] = @ \o <<g>>] /\ UNCHANGED <<hub, hist>>
    BY <1>9 DEF Refuses, Reply
  <2> HIDE DEF g
  <2> QED
    BY <1>1, <1>9, <2>1, <2>2, <2>3, ReplyKeeps
<1>10. CASE f.k = "claim" /\ UNCHANGED <<selected, selecting>> /\ Claims(p, f)
  <2> DEFINE g == [k |-> f.k, id |-> f.id, ok |-> TRUE]
  <2>1. g \in DownFrames(made.asks) /\ g.k # "request"
    BY <1>7, <1>10
  <2>2. Spares(g, hub.ask.id)
    BY <1>10 DEF Spares
  <2>3. down' = [down EXCEPT ![p] = @ \o <<g>>] /\ hub' = [hub EXCEPT !.ask.claimed = TRUE] /\ UNCHANGED hist
    BY <1>10 DEF Claims, Reply
  <2>4. hub'.ask.id = hub.ask.id
    BY <1>4, <2>3 DEF Hubs, Questions
  <2> HIDE DEF g
  <2> QED
    BY <1>1, <1>10, <2>1, <2>2, <2>3, <2>4, ReplyKeeps
<1>11. ASSUME f.k # "select", UNCHANGED <<selected, selecting>>, NEW b \in BOOLEAN, hub' = [hub EXCEPT !.ask = NoAsk],
              Tell(Retraction, p, Reply(f, b)), hist'.away = hist.away, hist'.astray = hist.astray
       PROVE  ScreenInv'
  <2>1. hub'.ask.id = 0
    BY <1>4, <1>11 DEF Hubs
  <2> DEFINE g == [k |-> f.k, id |-> f.id, ok |-> b]
  <2>2. g \in DownFrames(made.asks) /\ g.k # "request"
    BY <1>7, <1>11
  <2>3. Reply(f, b) = <<g>>
    BY DEF Reply
  <2> HIDE DEF g
  <2>4. Reply(f, b) \in Seq(DownFrames(made.asks)) /\ \A n \in DOMAIN Reply(f, b) : Reply(f, b)[n].k # "request"
    BY <2>2, <2>3
  <2> QED
    BY <1>1, <1>11, <2>1, <2>4, RetractingKeeps
<1>12. CASE f.k # "select" /\ UNCHANGED <<selected, selecting>> /\ \E sent \in BOOLEAN : Declines(p, f, sent)
  BY <1>11, <1>12 DEF Declines
<1>13. CASE f.k # "select" /\ UNCHANGED <<selected, selecting>> /\ Answers(p, f)
  <2>1. hist'.away = hist.away /\ hist'.astray = hist.astray
    BY <1>4, <1>13 DEF Answers, Histories
  <2>2. hub' = [hub EXCEPT !.ask = NoAsk] /\ Tell(Retraction, p, Reply(f, TRUE)) /\ TRUE \in BOOLEAN
    BY <1>13 DEF Answers
  <2> QED
    BY <1>11, <1>13, <2>1, <2>2
<1> HIDE DEF valid
<1> QED
  BY <1>6, <1>8, <1>9, <1>10, <1>12, <1>13

\* A phone that loses its connection with a card is away.
LEMMA PhoneDropsKeepsScreens ==
    ASSUME IInv, ScreenInv, NEW p \in Phones, PhoneDrops(p)
    PROVE  ScreenInv'
<1>1. /\ Types /\ UNCHANGED <<hub, selecting>> /\ selected' = selected \ {p}
      /\ down' = [down EXCEPT ![p] = <<>>]
  BY DEF IInv, PhoneDrops
<1>2. hist'.astray = hist.astray /\ hist.away \subseteq hist'.away /\ (phone'[p].card # 0 => p \in hist'.away)
  <2>1. hist \in Histories
    BY <1>1 DEF Types
  <2>2. hist' = IF phone'[p].card = 0 THEN hist ELSE [hist EXCEPT !.away = @ \cup {p}]
    BY DEF PhoneDrops
  <2> QED
    BY <2>1, <2>2 DEF Histories
<1>3. \A q \in Phones : q # p => phone'[q] = phone[q] /\ down'[q] = down[q]
  BY <1>1 DEF PhoneDrops, Types
<1>4. down'[p] = <<>>
  BY <1>1 DEF Types
<1>5. ShowInv'
  <2> SUFFICES ASSUME NEW q \in selected \ selecting, q # p, hub.ask.id # 0, q \notin hist.astray
               PROVE  \E n \in DOMAIN down'[q] \cup {0} :
                         /\ Shown(q, n, hub.ask.id)'
                         /\ \A m \in DOMAIN down'[q] : n < m => Spares(down'[q][m], hub.ask.id)
    BY <1>1, <1>2 DEF ShowInv, Shown
  <2>1. q \in Phones
    BY <1>1 DEF Types
  <2>2. phone'[q] = phone[q] /\ down'[q] = down[q]
    BY <1>3, <2>1
  <2> QED
    BY <1>1, <2>2 DEF ScreenInv, ShowInv, Shown
<1>6. GoneInv'
  <2> SUFFICES ASSUME NEW q \in Phones \ hist'.away, NEW n \in DOMAIN down'[q] \cup {0}, NEW j \in 1..MaxAsks,
                      Shown(q, n, j)'
               PROVE  /\ q \in selected'
                      /\ \/ hub.ask.id = j
                         \/ \E m \in DOMAIN down'[q] :
                               n < m /\ down'[q][m].k = "retracted" /\ down'[q][m].id = j
    BY <1>1 DEF GoneInv
  <2>1. CASE q = p
    <3>1. n = 0 /\ phone'[p].card = 0
      BY <1>2, <1>4, <2>1
    <3> QED
      BY <2>1, <3>1 DEF Shown
  <2>2. CASE q # p
    <3>1. phone'[q] = phone[q] /\ down'[q] = down[q]
      BY <1>3, <2>2
    <3>2. Shown(q, n, j)
      BY <3>1 DEF Shown
    <3> QED
      BY <1>1, <1>2, <2>2, <3>1, <3>2 DEF ScreenInv, GoneInv
  <2> QED
    BY <2>1, <2>2
<1> QED
  BY <1>5, <1>6 DEF ScreenInv

\* A phone that is not connected clears its card.
LEMMA PhoneActsKeepsScreens ==
    ASSUME IInv, ScreenInv, NEW p \in Phones, PhoneActs(p)
    PROVE  ScreenInv'
<1>1. Types /\ PhoneInv /\ UNCHANGED <<hub, selected, selecting, down, hist>>
  BY DEF IInv, PhoneActs, hubVars
<1>2. CASE UNCHANGED phone
  BY <1>1, <1>2, ScreensStay
<1>3. CASE ~phone[p].conn /\ phone' = [phone EXCEPT ![p].card = 0]
  <2>1. p \notin selected /\ selected \subseteq Phones
    BY <1>1, <1>3 DEF PhoneInv
  <2>2. phone'[p].card = 0 /\ \A q \in Phones : q # p => phone'[q] = phone[q]
    BY <1>1, <1>3 DEF Types, Cards
  <2>3. \A q \in selected : phone'[q] = phone[q]
    BY <2>1, <2>2
  <2>4. ShowInv'
    BY <1>1, <2>3 DEF ScreenInv, ShowInv, Shown
  <2>5. GoneInv'
    <3> SUFFICES ASSUME NEW q \in Phones \ hist.away, NEW n \in DOMAIN down[q] \cup {0}, NEW j \in 1..MaxAsks,
                        Shown(q, n, j)'
                 PROVE  /\ q \in selected
                        /\ \/ hub.ask.id = j
                           \/ \E m \in DOMAIN down[q] :
                                 n < m /\ down[q][m].k = "retracted" /\ down[q][m].id = j
      BY <1>1 DEF GoneInv
    <3>1. Shown(q, n, j)
      BY <1>1, <2>2 DEF Shown
    <3> QED
      BY <3>1 DEF ScreenInv, GoneInv
  <2> QED
    BY <2>4, <2>5 DEF ScreenInv
<1> QED
  BY <1>2, <1>3 DEF PhoneActs

\* What the frame read does to the card.
LEMMA CardAfter ==
    ASSUME Types, NEW p \in Phones, PhoneHears(p)
    PROVE  /\ down[p][1].k = "request" => phone'[p].card = down[p][1].id
           /\ down[p][1].k # "request" => phone'[p].card \in {0, phone[p].card}
           /\ down[p][1].k = "retracted" /\ down[p][1].id = phone[p].card => phone'[p].card = 0
           /\ phone[p].card # 0 /\ p \notin hist'.astray /\ Spares(down[p][1], phone[p].card) =>
                 phone'[p].card = phone[p].card
<1> DEFINE f == down[p][1]
<1> DEFINE i == phone[p].card
<1>1. down[p] \in Seq(DownFrames(made.asks)) /\ down[p] # <<>>
  BY DEF Types, PhoneHears
<1>2. Head(down[p]) = f /\ f \in DownFrames(made.asks)
  BY <1>1, TailLeft
<1>3. phone \in [Phones -> Cards] /\ hist \in Histories
  BY DEF Types
<1>4. \/ f.k = "request" /\ phone' = [phone EXCEPT ![p].card = f.id]
      \/ f.k # "request" /\ phone' = IF Clears(p, f) THEN [phone EXCEPT ![p].card = 0] ELSE phone
  BY <1>2 DEF PhoneHears, PhoneShows
<1>5. f.k = "decline" /\ i \notin {0, f.id} => p \in hist'.astray
  BY <1>2, <1>3 DEF PhoneHears, Histories
<1>6. f.k \in {"request", "retracted", "claim", "answer", "decline"}
  BY <1>2 DEF DownFrames
<1> HIDE DEF f
<1>7. CASE f.k = "request"
  <2>1. phone'[p].card = f.id
    BY <1>3, <1>4, <1>7 DEF Cards
  <2> QED
    BY <1>7, <2>1 DEF Spares, f
<1>8. CASE f.k # "request"
  <2>1. phone'[p].card = IF Clears(p, f) THEN 0 ELSE i
    BY <1>3, <1>4, <1>8 DEF Cards
  <2>2. CASE f.k = "retracted"
    <3>1. Clears(p, f) <=> f.id = i
      BY <2>2 DEF Clears
    <3> QED
      BY <2>1, <2>2, <3>1 DEF Spares, f
  <2>3. CASE f.k = "claim"
    <3>1. Clears(p, f) <=> f.id = i /\ ~f.ok
      BY <2>3 DEF Clears
    <3> QED
      BY <2>1, <2>3, <3>1 DEF Spares, f
  <2>4. CASE f.k = "answer"
    <3>1. Clears(p, f) <=> f.ok
      BY <2>4 DEF Clears
    <3> QED
      BY <2>1, <2>4, <3>1 DEF Spares, f
  <2>5. CASE f.k = "decline"
    <3>1. Clears(p, f)
      BY <2>5 DEF Clears
    <3> QED
      BY <1>5, <2>1, <2>5, <3>1 DEF Spares, f
  <2> QED
    BY <1>6, <1>8, <2>2, <2>3, <2>4, <2>5
<1> QED
  BY <1>7, <1>8

\* A phone reads the next frame of the hub.
LEMMA PhoneHearsKeepsScreens ==
    ASSUME IInv, ScreenInv, NEW p \in Phones, PhoneHears(p)
    PROVE  ScreenInv'
<1> DEFINE s == down[p]
<1> DEFINE t == Tail(s)
<1> DEFINE i == hub.ask.id
<1>1. Types /\ UNCHANGED <<hub, selected, selecting>> /\ down' = [down EXCEPT ![p] = t]
  BY DEF IInv, PhoneHears, hubVars
<1>2. s \in Seq(DownFrames(made.asks)) /\ s # <<>>
  BY <1>1 DEF Types, PhoneHears
<1>3. /\ 1 \in DOMAIN s
      /\ \A n \in DOMAIN t : n \in Nat /\ n + 1 \in DOMAIN s /\ n + 1 # 1 /\ t[n] = s[n + 1]
      /\ \A n \in DOMAIN s : n = 1 \/ (n - 1 \in DOMAIN t /\ t[n - 1] = s[n])
  BY <1>2, TailLeft
<1>4. \A n \in DOMAIN s : n \in Nat /\ n > 0
  BY <1>2
<1>5. hist.astray \subseteq hist'.astray /\ hist'.away = hist.away
  BY <1>1 DEF PhoneHears, Types, Histories
<1>6. \A q \in Phones : q # p => phone'[q] = phone[q] /\ down'[q] = down[q]
  BY <1>1 DEF PhoneHears, PhoneShows, Types
<1>7. down'[p] = t
  BY <1>1 DEF Types
<1>8. /\ s[1].k = "request" => phone'[p].card = s[1].id
      /\ s[1].k # "request" => phone'[p].card \in {0, phone[p].card}
      /\ s[1].k = "retracted" /\ s[1].id = phone[p].card => phone'[p].card = 0
      /\ phone[p].card # 0 /\ p \notin hist'.astray /\ Spares(s[1], phone[p].card) =>
            phone'[p].card = phone[p].card
  BY <1>1, CardAfter
<1> HIDE DEF t
<1>9. ASSUME p \in selected \ selecting, i # 0, p \notin hist'.astray
      PROVE  \E n \in DOMAIN t \cup {0} :
                /\ IF n = 0 THEN phone'[p].card = i ELSE t[n].k = "request" /\ t[n].id = i
                /\ \A m \in DOMAIN t : n < m => Spares(t[m], i)
  <2>1. PICK n \in DOMAIN s \cup {0} : Shown(p, n, i) /\ \A m \in DOMAIN s : n < m => Spares(s[m], i)
    BY <1>5, <1>9 DEF ScreenInv, ShowInv
  <2>2. CASE n \in {0, 1}
    <3>1. phone'[p].card = i
      <4>1. CASE n = 0
        BY <1>3, <1>8, <1>9, <2>1, <4>1 DEF Shown
      <4>2. CASE n = 1
        BY <1>8, <2>1, <4>2 DEF Shown
      <4> QED
        BY <2>2, <4>1, <4>2
    <3>2. \A m \in DOMAIN t : Spares(t[m], i)
      <4> SUFFICES ASSUME NEW m \in DOMAIN t PROVE Spares(t[m], i)
        OBVIOUS
      <4>1. m + 1 \in DOMAIN s /\ n < m + 1 /\ t[m] = s[m + 1]
        BY <1>3, <1>4, <2>2
      <4> QED
        BY <2>1, <4>1
    <3> QED
      BY <3>1, <3>2
  <2>3. CASE n \notin {0, 1}
    <3>1. n - 1 \in DOMAIN t /\ n - 1 # 0 /\ t[n - 1] = s[n] /\ n \in Nat
      BY <1>3, <1>4, <2>3
    <3>2. t[n - 1].k = "request" /\ t[n - 1].id = i
      BY <2>1, <2>3, <3>1 DEF Shown
    <3>3. \A m \in DOMAIN t : n - 1 < m => Spares(t[m], i)
      <4> SUFFICES ASSUME NEW m \in DOMAIN t, n - 1 < m PROVE Spares(t[m], i)
        OBVIOUS
      <4>1. m + 1 \in DOMAIN s /\ n < m + 1 /\ t[m] = s[m + 1]
        BY <1>3, <3>1
      <4> QED
        BY <2>1, <4>1
    <3> QED
      BY <3>1, <3>2, <3>3
  <2> QED
    BY <2>2, <2>3
<1>10. ShowInv'
  <2> SUFFICES ASSUME NEW q \in selected \ selecting, i # 0, q \notin hist'.astray
               PROVE  \E n \in DOMAIN down'[q] \cup {0} :
                         /\ IF n = 0 THEN phone'[q].card = i
                            ELSE down'[q][n].k = "request" /\ down'[q][n].id = i
                         /\ \A m \in DOMAIN down'[q] : n < m => Spares(down'[q][m], i)
    BY <1>1 DEF ShowInv, Shown
  <2>1. CASE q = p
    BY <1>7, <1>9, <2>1
  <2>2. CASE q # p
    <3>1. phone'[q] = phone[q] /\ down'[q] = down[q]
      BY <1>1, <1>6, <2>2 DEF Types
    <3> QED
      BY <1>5, <3>1 DEF ScreenInv, ShowInv, Shown
  <2> QED
    BY <2>1, <2>2
<1>11. ASSUME p \notin hist.away, NEW n \in DOMAIN t \cup {0}, NEW j \in 1..MaxAsks,
              IF n = 0 THEN phone'[p].card = j ELSE t[n].k = "request" /\ t[n].id = j
       PROVE  /\ p \in selected
              /\ i = j \/ \E m \in DOMAIN t : n < m /\ t[m].k = "retracted" /\ t[m].id = j
  <2>1. ASSUME NEW l \in DOMAIN s \cup {0}, Shown(p, l, j), l = n + 1 \/ (l = 0 /\ n = 0),
               l = 0 => s[1].k # "retracted" \/ s[1].id # j
        PROVE  /\ p \in selected
               /\ i = j \/ \E m \in DOMAIN t : n < m /\ t[m].k = "retracted" /\ t[m].id = j
    <3>1. /\ p \in selected
          /\ i = j \/ \E m \in DOMAIN s : l < m /\ s[m].k = "retracted" /\ s[m].id = j
      BY <1>11, <2>1 DEF ScreenInv, GoneInv
    <3>2. ASSUME NEW m \in DOMAIN s, l < m, s[m].k = "retracted", s[m].id = j
          PROVE  \E k \in DOMAIN t : n < k /\ t[k].k = "retracted" /\ t[k].id = j
      <4>1. n \in Nat
        BY <1>3
      <4>2. m # 1
        BY <1>3, <1>4, <2>1, <3>2, <4>1
      <4>3. m - 1 \in DOMAIN t /\ t[m - 1] = s[m] /\ n < m - 1
        BY <1>3, <1>4, <2>1, <3>2, <4>1, <4>2
      <4> QED
        BY <3>2, <4>3
    <3> QED
      BY <3>1, <3>2
  <2>2. CASE n # 0
    <3>1. n + 1 \in DOMAIN s /\ t[n] = s[n + 1] /\ n + 1 # 0
      BY <1>3, <1>4, <2>2
    <3>2. Shown(p, n + 1, j)
      BY <1>11, <2>2, <3>1 DEF Shown
    <3> QED
      BY <2>1, <3>1, <3>2
  <2>3. CASE n = 0 /\ s[1].k = "request"
    <3>1. Shown(p, 1, j)
      BY <1>8, <1>11, <2>3 DEF Shown
    <3> QED
      BY <1>3, <2>1, <2>3, <3>1
  <2>4. CASE n = 0 /\ s[1].k # "request"
    <3>1. phone[p].card = j /\ (s[1].k = "retracted" => s[1].id # j)
      BY <1>8, <1>11, <2>4
    <3>2. Shown(p, 0, j)
      BY <3>1 DEF Shown
    <3> QED
      BY <2>1, <2>4, <3>1, <3>2
  <2> QED
    BY <2>2, <2>3, <2>4
<1>12. GoneInv'
  <2> SUFFICES ASSUME NEW q \in Phones \ hist.away, NEW n \in DOMAIN down'[q] \cup {0}, NEW j \in 1..MaxAsks,
                      IF n = 0 THEN phone'[q].card = j ELSE down'[q][n].k = "request" /\ down'[q][n].id = j
               PROVE  /\ q \in selected
                      /\ \/ i = j
                         \/ \E m \in DOMAIN down'[q] :
                               n < m /\ down'[q][m].k = "retracted" /\ down'[q][m].id = j
    BY <1>1, <1>5 DEF GoneInv, Shown
  <2>1. CASE q = p
    BY <1>7, <1>11, <2>1
  <2>2. CASE q # p
    <3>1. phone'[q] = phone[q] /\ down'[q] = down[q]
      BY <1>6, <2>2
    <3>2. Shown(q, n, j)
      BY <3>1 DEF Shown
    <3> QED
      BY <3>1, <3>2 DEF ScreenInv, GoneInv
  <2> QED
    BY <2>1, <2>2
<1> QED
  BY <1>10, <1>12 DEF ScreenInv

\* Nothing of what the phones have or are sent changes in the steps of the relay, nor
\* when a phone connects, selects or turns.
LEMMA ScreensUntouched ==
    ASSUME IInv, ScreenInv, UNCHANGED <<down, selected, selecting>>,
           hub'.ask.id = hub.ask.id, hist'.away = hist.away, hist'.astray = hist.astray,
           \A q \in Phones : phone'[q].card = phone[q].card
    PROVE  ScreenInv'
BY ScreensStay DEF IInv

LEMMA StepKeepsScreens ==
    ASSUME IInv, ScreenInv, Next
    PROVE  ScreenInv'
<1>1. Types /\ hist \in Histories /\ phone \in [Phones -> Cards]
  BY DEF IInv, Types
<1>3. \A x : Settled(hist, x).away = hist.away /\ Settled(hist, x).astray = hist.astray
  BY <1>1 DEF Histories, Settled
<1>4. CASE RelayConnects \/ RelayResnapshots \/ RelayAsks \/ RelayGivesUp \/ RelayDrops \/ RelayStops \/ RelayHears
  <2>1. UNCHANGED <<down, selected, selecting, hub, phone>>
    BY <1>4 DEF RelayConnects, RelayResnapshots, RelayAsks, RelayGivesUp, RelayDrops, RelayStops, RelayHears,
                hubVars, phoneVars
  <2>2. \/ hist' = hist
        \/ hist' = [hist EXCEPT !.asked[made.asks + 1] = relay.epoch]
        \/ \E x : hist' = Settled(hist, x)
    BY <1>4 DEF RelayConnects, RelayResnapshots, RelayAsks, RelayGivesUp, RelayDrops, RelayStops, RelayHears, FallBack
  <2>3. hist'.away = hist.away /\ hist'.astray = hist.astray
    BY <1>1, <1>3, <2>2 DEF Histories
  <2> QED
    BY <2>1, <2>3, ScreensUntouched
<1>5. ASSUME NEW c \in Sockets, HubReads(c) \/ HubSeesClose(c)
      PROVE  ScreenInv'
  BY <1>5, ReadsKeepScreens, CloseKeepsScreens
<1>6. ASSUME NEW p \in Phones, GhostGoes(p) \/ PhoneConnects(p) \/ PhoneReselects(p) \/ PhoneTurns(p)
      PROVE  ScreenInv'
  <2>1. UNCHANGED <<down, selected, selecting, hub, hist>>
    BY <1>6 DEF GhostGoes, PhoneConnects, PhoneReselects, PhoneTurns, hubVars
  <2>2. \A q \in Phones : phone'[q].card = phone[q].card
    BY <1>1, <1>6 DEF GhostGoes, PhoneConnects, PhoneReselects, PhoneTurns, phoneVars, Cards
  <2> QED
    BY <2>1, <2>2, ScreensUntouched
<1>7. ASSUME NEW p \in Phones,
             HubSelectDone(p) \/ HubHandles(p) \/ PhoneDrops(p) \/ PhoneActs(p) \/ PhoneHears(p)
      PROVE  ScreenInv'
  BY <1>7, SelectDoneKeepsScreens, HandlesKeepsScreens, PhoneDropsKeepsScreens, PhoneActsKeepsScreens,
     PhoneHearsKeepsScreens
<1> QED
  BY <1>4, <1>5, <1>6, <1>7 DEF Next

LEMMA FollowInit == Init => LinkInv /\ ScreenInv
<1> SUFFICES ASSUME Init PROVE LinkInv /\ ScreenInv
  OBVIOUS
<1>1. DOMAIN <<>> = {}
  OBVIOUS
<1>2. /\ relay.sock = 0 /\ relay.ask = 0 /\ hub.ask.id = 0 /\ made.asks = 0 /\ selected = {}
      /\ \A c \in Sockets : toHub[c] = <<>>
      /\ \A p \in Phones : phone[p].card = 0 /\ down[p] = <<>>
  BY DEF Init, NoAsk
<1>3. LinkInv
  BY <1>1, <1>2 DEF LinkInv, OrderInv, ReachInv, HubKnows, HubWillKnow, Waits
<1>4. ShowInv
  BY <1>2 DEF ShowInv
<1>5. GoneInv
  <2> SUFFICES ASSUME NEW p \in Phones, NEW n \in DOMAIN down[p] \cup {0}, NEW i \in 1..MaxAsks, Shown(p, n, i)
               PROVE  FALSE
    BY DEF GoneInv
  <2>1. n = 0 /\ phone[p].card = 0
    BY <1>1, <1>2
  <2> QED
    BY <2>1 DEF Shown
<1> QED
  BY <1>3, <1>4, <1>5 DEF ScreenInv

LEMMA FollowStutters ==
    ASSUME LinkInv, ScreenInv, UNCHANGED vars
    PROVE  LinkInv' /\ ScreenInv'
<1>1. UNCHANGED <<relay, toRelay, toHub, hub, selected, selecting, phone, down, made, hist>>
  BY DEF vars, relayVars, hubVars, phoneVars
<1>2. LinkInv'
  BY <1>1, StaysKeeps DEF LinkStays
<1>3. ScreenInv'
  BY <1>1 DEF ScreenInv, ShowInv, GoneInv, Shown
<1> QED
  BY <1>2, <1>3

\* In every reachable state, what is written above of the frames under way: no question
\* is lost between the relay, the hub and a phone's screen, and none stays behind.
THEOREM FollowInvariant == Spec => [](LinkInv /\ ScreenInv)
<1>1. Init => LinkInv /\ ScreenInv
  BY FollowInit
<1>2. IInv /\ LinkInv /\ ScreenInv /\ [Next]_vars => LinkInv' /\ ScreenInv'
  BY StepKeepsLink, StepKeepsScreens, FollowStutters
<1> QED
  BY <1>1, <1>2, AskInvariant, PTL DEF Spec

\* At rest, a phone shows the question the agent waits for, and no other, unless it was
\* away with its card or the reply to another question took the card.
THEOREM CardsFollowQuestions == Spec => []CardsFollow
<1>1. IInv /\ LinkInv /\ ScreenInv => CardsFollow
  <2> SUFFICES ASSUME IInv, LinkInv, ScreenInv, NEW p \in selected \ selecting,
                      LinkQuiet, up[p] = <<>>, down[p] = <<>>
               PROVE  /\ Here(relay.ask) /\ p \notin hist.astray => phone[p].card = relay.ask
                      /\ Here(phone[p].card) /\ p \notin hist.away => relay.ask = phone[p].card
    BY DEF CardsFollow
  <2>1. DOMAIN <<>> = {} /\ Types
    BY DEF IInv
  <2>2. p \in Phones /\ phone[p].card \in 0..MaxAsks
    BY <2>1 DEF Types, Cards
  <2>3. ASSUME Here(relay.ask), p \notin hist.astray
        PROVE  phone[p].card = relay.ask
    <3>1. Waits
      BY <2>3 DEF Waits, Here, LinkQuiet
    <3>2. hub.ask.id = relay.ask /\ hub.ask.id # 0
      BY <2>1, <2>3, <3>1 DEF LinkInv, ReachInv, LinkQuiet, Here
    <3>3. PICK n \in DOMAIN down[p] \cup {0} : Shown(p, n, hub.ask.id)
      BY <2>3, <3>2 DEF ScreenInv, ShowInv
    <3> QED
      BY <2>1, <3>2, <3>3 DEF Shown
  <2>4. ASSUME Here(phone[p].card), p \notin hist.away
        PROVE  relay.ask = phone[p].card
    <3>1. phone[p].card \in 1..MaxAsks /\ Shown(p, 0, phone[p].card)
      BY <2>2, <2>4 DEF Here, Shown
    <3>2. hub.ask.id = phone[p].card
      BY <2>1, <2>2, <2>4, <3>1 DEF ScreenInv, GoneInv
    <3>3. relay.ask = hub.ask.id \/ CancelAfter(0, hub.ask.id)
      BY <2>4, <3>2 DEF LinkInv, HubKnows, Here, LinkQuiet
    <3> QED
      BY <2>1, <3>2, <3>3 DEF CancelAfter, LinkQuiet
  <2> QED
    BY <2>3, <2>4
<1> QED
  BY <1>1, AskInvariant, FollowInvariant, PTL

=============================================================================
