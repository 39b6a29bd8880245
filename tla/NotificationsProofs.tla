------------------------- MODULE NotificationsProofs -------------------------
(***************************************************************************)
(* What the hub of notifications and a phone owe the user, for any number  *)
(* of sources, tasks and events and any sizes of pages, buffer and log.    *)
(*                                                                         *)
(* DiskInv: what memory holds the file holds too. It needs that no write   *)
(* leaves half a line behind (Harmless), which the module's Outcomes allow *)
(* and its runs leave out. NoticeInv: a task that runs has had no notice,  *)
(* and one that has had it, or was aborted, has left the detector idle,    *)
(* with no snapshot under way that calls it running. WireInv: the types,   *)
(* and that a phone served by a ready subscription has every number or a   *)
(* frame under way tells it, unless it is about to start again. CursorInv: *)
(* the log goes back on nothing it has said unless its numbers go back     *)
(* (BookInv), and whatever may become the cursor, in the phone, in frames  *)
(* or in requests, claims only what the user has had or what comes in      *)
(* before it (Claims).                                                     *)
(***************************************************************************)
EXTENDS Notifications, WellFoundedInduction, FiniteSetTheorems, SequenceTheorems, TLAPS

\* What load and the appends make of a store.
IsStore(st) ==
    /\ st = [events |-> st.events, gens |-> st.gens, ack |-> st.ack, tombs |-> st.tombs,
             last |-> st.last, torn |-> st.torn]
    /\ st.last \in Nat
    /\ st.events = [n \in DOMAIN st.events |-> st.events[n]]
    /\ DOMAIN st.events \subseteq 1..st.last

\* A file that is whole, and a store that holds nothing else than the file says.
Agree(f, st) ==
    /\ IsStore(f) /\ IsStore(st) /\ f.torn = FALSE /\ st.torn = FALSE
    /\ \A n \in DOMAIN st.events : n \in DOMAIN f.events /\ f.events[n] = st.events[n]

-----------------------------------------------------------------------------
(* The store.                                                              *)

LEMMA WithoutOf ==
    ASSUME NEW f, NEW K
    PROVE  /\ DOMAIN Without(f, K) = DOMAIN f \ K
           /\ Without(f, K) = [x \in DOMAIN Without(f, K) |-> Without(f, K)[x]]
           /\ \A x \in DOMAIN f \ K : Without(f, K)[x] = f[x]
BY DEF Without

\* A bounded set of numbers has a greatest element.
LEMMA HighestOf ==
    ASSUME NEW S, S \subseteq Nat, NEW b \in Nat, \A n \in S : n <= b
    PROVE  Highest(S) \in S \cup {0} /\ \A m \in S : m <= Highest(S)
<1> DEFINE U == {k \in Nat : \A m \in S : m <= k}
<1> DEFINE R == OpToRel(<, Nat)
<1>1. \E x \in U : \A y \in U : ~(<<y, x>> \in R)
  <2>1. IsWellFoundedOn(R, Nat)
    BY NatLessThanWellFounded
  <2>2. U \subseteq Nat /\ U # {}
    OBVIOUS
  <2> HIDE DEF R, U
  <2> QED
    BY <2>1, <2>2, WFMin
<1>2. \A x, y \in Nat : y < x => <<y, x>> \in R
  BY DEF OpToRel
<1> HIDE DEF R
<1>3. PICK k \in U : \A y \in U : ~(<<y, k>> \in R)
  BY <1>1
<1>4. k \in Nat /\ \A m \in S : m <= k
  OBVIOUS
<1>5. k \in S \cup {0}
  <2>1. SUFFICES ASSUME k # 0, k \notin S PROVE FALSE
    OBVIOUS
  <2>2. k - 1 \in Nat /\ k - 1 < k
    BY <1>4, <2>1
  <2>3. \A m \in S : m <= k - 1
    BY <1>4, <2>1
  <2>4. <<k - 1, k>> \in R
    BY <1>2, <1>4, <2>2
  <2> QED
    BY <1>3, <2>2, <2>3, <2>4
<1>6. \E n \in S \cup {0} : \A m \in S : m <= n
  BY <1>4, <1>5
<1> QED
  BY <1>6 DEF Highest

LEMMA EventApplied ==
    ASSUME NEW st, IsStore(st), NEW n \in Nat \ {0}, NEW e
    PROVE  LET new == Apply(st, EventRecord(n, e))
           IN  /\ IsStore(new) /\ new.torn = st.torn
               /\ DOMAIN new.events = DOMAIN st.events \cup {n} /\ new.events[n] = e
               /\ \A m \in DOMAIN st.events : m # n => new.events[m] = st.events[m]
               /\ new.last = Bigger(st.last, n) /\ new.gens = st.gens
               /\ new.ack = st.ack /\ new.tombs = st.tombs
<1> DEFINE new == Apply(st, EventRecord(n, e))
<1>1. new = [st EXCEPT !.events = Put(st.events, n, e), !.last = Bigger(st.last, n)]
  BY DEF Apply, EventRecord, IsStore
<1> HIDE DEF new
<1>2. Bigger(st.last, n) \in Nat /\ Bigger(st.last, n) >= st.last /\ Bigger(st.last, n) >= n
  BY DEF Bigger, IsStore
<1>3. /\ new.events = Put(st.events, n, e) /\ new.last = Bigger(st.last, n) /\ new.torn = st.torn
      /\ new.gens = st.gens /\ new.ack = st.ack /\ new.tombs = st.tombs
      /\ new = [events |-> new.events, gens |-> new.gens, ack |-> new.ack, tombs |-> new.tombs,
                last |-> new.last, torn |-> new.torn]
  BY <1>1 DEF IsStore
<1> DEFINE ev == Put(st.events, n, e)
<1>4. /\ DOMAIN ev = DOMAIN st.events \cup {n} /\ ev = [m \in DOMAIN ev |-> ev[m]]
      /\ ev[n] = e /\ \A m \in DOMAIN st.events : m # n => ev[m] = st.events[m]
  BY DEF Put
<1> HIDE DEF ev
<1>5. DOMAIN new.events \subseteq 1..new.last
  BY <1>2, <1>3, <1>4 DEF IsStore, ev
<1>6. IsStore(new)
  BY <1>2, <1>3, <1>4, <1>5 DEF IsStore, ev
<1> QED
  BY <1>3, <1>4, <1>6 DEF new, ev

LEMMA GenerationApplied ==
    ASSUME NEW st, IsStore(st), NEW g, NEW s, NEW state
    PROVE  LET new == Apply(st, GenRecord(g, s, state))
           IN  /\ IsStore(new) /\ new.torn = st.torn /\ new.events = st.events
               /\ DOMAIN new.gens = DOMAIN st.gens \cup {g}
               /\ new.ack = st.ack /\ new.tombs = st.tombs /\ new.last = st.last
<1> DEFINE new == Apply(st, GenRecord(g, s, state))
<1> DEFINE gens == Put(st.gens, g, [source |-> s, state |-> state])
<1>1. new = [st EXCEPT !.gens = gens]
  BY DEF Apply, GenRecord
<1>3. DOMAIN gens = DOMAIN st.gens \cup {g}
  BY DEF Put
<1> HIDE DEF gens
<1>2. /\ new.events = st.events /\ new.last = st.last /\ new.torn = st.torn
      /\ new.gens = gens /\ new.ack = st.ack /\ new.tombs = st.tombs
      /\ new = [events |-> new.events, gens |-> new.gens, ack |-> new.ack, tombs |-> new.tombs,
                last |-> new.last, torn |-> new.torn]
  BY <1>1 DEF IsStore
<1> QED
  BY <1>2, <1>3 DEF IsStore

LEMMA AckApplied ==
    ASSUME NEW st, IsStore(st), NEW n
    PROVE  LET new == Apply(st, AckRecord(n))
           IN  /\ IsStore(new) /\ new.torn = st.torn /\ new.events = st.events
               /\ new.ack = Bigger(st.ack, n)
               /\ new.gens = st.gens /\ new.tombs = st.tombs /\ new.last = st.last
<1> DEFINE new == Apply(st, AckRecord(n))
<1> DEFINE ack == Bigger(st.ack, n)
<1>1. new = [st EXCEPT !.ack = ack]
  BY DEF Apply, AckRecord
<1> HIDE DEF ack
<1>2. /\ new.events = st.events /\ new.last = st.last /\ new.torn = st.torn
      /\ new.ack = ack /\ new.gens = st.gens /\ new.tombs = st.tombs
      /\ new = [events |-> new.events, gens |-> new.gens, ack |-> new.ack, tombs |-> new.tombs,
                last |-> new.last, torn |-> new.torn]
  BY <1>1 DEF IsStore
<1> QED
  BY <1>2 DEF IsStore, ack

\* Compaction drops events and tombstones and forgets, in the file, how far the numbers
\* had got.
LEMMA CompactedOf ==
    ASSUME NEW st, IsStore(st)
    PROVE  LET m == Compact(st).mem
               f == Compact(st).file
           IN  /\ IsStore(m) /\ m.torn = st.torn /\ m.last = st.last
               /\ m.gens = st.gens /\ m.ack = st.ack /\ m.tombs = 0
               /\ DOMAIN m.events \subseteq DOMAIN st.events
               /\ \A n \in DOMAIN m.events : m.events[n] = st.events[n]
               /\ IsStore(f) /\ f.events = m.events /\ f.torn = st.torn
               /\ f.gens = st.gens /\ f.ack = st.ack /\ f.tombs = 0
<1> DEFINE K == DOMAIN st.events \ Kept(st)
<1> DEFINE E == Without(st.events, K)
<1> DEFINE m == [st EXCEPT !.events = E, !.tombs = 0]
<1> DEFINE f == [m EXCEPT !.last = Highest(DOMAIN m.events)]
<1>1. Compact(st).mem = m /\ Compact(st).file = f
  BY DEF Compact
<1>2. /\ m.events = E /\ m.last = st.last /\ m.torn = st.torn
      /\ m.gens = st.gens /\ m.ack = st.ack /\ m.tombs = 0
      /\ m = [events |-> m.events, gens |-> m.gens, ack |-> m.ack, tombs |-> m.tombs,
              last |-> m.last, torn |-> m.torn]
  <2>1. m = [st EXCEPT !.events = E, !.tombs = 0]
    OBVIOUS
  <2> HIDE DEF E, m
  <2> QED
    BY <2>1 DEF IsStore
<1>0. /\ DOMAIN E \subseteq DOMAIN st.events /\ E = [n \in DOMAIN E |-> E[n]]
      /\ \A n \in DOMAIN E : E[n] = st.events[n]
  <2>1. DOMAIN E = DOMAIN st.events \ K /\ E = [n \in DOMAIN E |-> E[n]]
    BY WithoutOf, ZenonT(60)
  <2>2. \A n \in DOMAIN st.events \ K : E[n] = st.events[n]
    BY DEF Without
  <2> HIDE DEF E, K
  <2> QED
    BY <2>1, <2>2
<1>3. IsStore(m)
  <2> HIDE DEF E, m
  <2> QED
    BY <1>0, <1>2 DEF IsStore
<1> HIDE DEF m
<1>4. /\ f.events = m.events /\ f.last = Highest(DOMAIN m.events) /\ f.torn = m.torn
      /\ f.gens = m.gens /\ f.ack = m.ack /\ f.tombs = m.tombs
      /\ f = [events |-> f.events, gens |-> f.gens, ack |-> f.ack, tombs |-> f.tombs,
              last |-> f.last, torn |-> f.torn]
  BY <1>2
<1>5. f.last \in Nat /\ DOMAIN f.events \subseteq 1..f.last
  <2>1. DOMAIN m.events \subseteq Nat /\ m.last \in Nat /\ \A n \in DOMAIN m.events : n <= m.last /\ n >= 1
    BY <1>3 DEF IsStore
  <2>2. /\ Highest(DOMAIN m.events) \in DOMAIN m.events \cup {0}
        /\ \A n \in DOMAIN m.events : n <= Highest(DOMAIN m.events)
    BY <2>1, HighestOf
  <2> QED
    BY <1>4, <2>1, <2>2
<1>6. IsStore(f)
  BY <1>3, <1>4, <1>5 DEF IsStore
<1> HIDE DEF f, E
<1> QED
  BY <1>0, <1>1, <1>2, <1>3, <1>4, <1>6

LEMMA Compacted ==
    ASSUME NEW st, IsStore(st), st.torn = FALSE
    PROVE  Agree(Compact(st).file, Compact(st).mem)
<1>1. /\ IsStore(Compact(st).mem) /\ IsStore(Compact(st).file)
      /\ Compact(st).mem.torn = FALSE /\ Compact(st).file.torn = FALSE
      /\ Compact(st).file.events = Compact(st).mem.events
  BY CompactedOf
<1> QED
  BY <1>1 DEF Agree

LEMMA MaybeCompacted ==
    ASSUME NEW f, NEW st, Agree(f, st)
    PROVE  Agree(MaybeCompact(f, st).file, MaybeCompact(f, st).mem)
<1>1. Agree(Compact(st).file, Compact(st).mem)
  BY Compacted DEF Agree
<1> QED
  BY <1>1 DEF MaybeCompact

LEMMA Written ==
    ASSUME NEW f, IsStore(f), f.torn = FALSE, NEW r, NEW o \in {"ok", "failed", "unsynced"}
    PROVE  Write(f, r, o) = f \/ Write(f, r, o) = Apply(f, r)
BY DEF Write

\* A record of a generation or of an acknowledgement leaves the events alone, whether it
\* reaches the file or not.
LEMMA OtherRecordAgrees ==
    ASSUME NEW f, NEW st, Agree(f, st), NEW g, NEW s, NEW state, NEW n,
           NEW o \in {"ok", "failed", "unsynced"}
    PROVE  /\ Agree(Write(f, GenRecord(g, s, state), o), Apply(st, GenRecord(g, s, state)))
           /\ Agree(Write(f, AckRecord(n), o), st)
<1>1. IsStore(f) /\ IsStore(st) /\ f.torn = FALSE
  BY DEF Agree
<1>2. Agree(Write(f, GenRecord(g, s, state), o), Apply(st, GenRecord(g, s, state)))
  <2> DEFINE r == GenRecord(g, s, state)
  <2>1. IsStore(Apply(f, r)) /\ Apply(f, r).torn = FALSE /\ Apply(f, r).events = f.events
    BY <1>1, GenerationApplied
  <2>3. IsStore(Apply(st, r)) /\ Apply(st, r).torn = st.torn /\ Apply(st, r).events = st.events
    BY <1>1, GenerationApplied
  <2> HIDE DEF r
  <2>2. Write(f, r, o) = f \/ Write(f, r, o) = Apply(f, r)
    BY <1>1, Written
  <2> QED
    BY <2>1, <2>2, <2>3 DEF Agree, r
<1>3. Agree(Write(f, AckRecord(n), o), st)
  <2> DEFINE r == AckRecord(n)
  <2>1. IsStore(Apply(f, r)) /\ Apply(f, r).torn = FALSE /\ Apply(f, r).events = f.events
    BY <1>1, AckApplied
  <2> HIDE DEF r
  <2>2. Write(f, r, o) = f \/ Write(f, r, o) = Apply(f, r)
    BY <1>1, Written
  <2> QED
    BY <2>1, <2>2 DEF Agree, r
<1> QED
  BY <1>2, <1>3

LEMMA EventAgrees ==
    ASSUME NEW f, NEW st, Agree(f, st), NEW e
    PROVE  /\ Agree(AddEvent(f, st, NextSequence(st), e).file, AddEvent(f, st, NextSequence(st), e).mem)
           /\ \A o \in {"failed", "unsynced"} : Agree(Write(f, EventRecord(NextSequence(st), e), o), st)
<1> DEFINE n == NextSequence(st)
<1> DEFINE new == Apply(f, EventRecord(n, e))
<1>1. n \in Nat \ {0} /\ n \notin DOMAIN st.events
  BY DEF NextSequence, Agree, IsStore
<1> HIDE DEF n
<1>2. /\ IsStore(new) /\ new.torn = FALSE
      /\ DOMAIN new.events = DOMAIN f.events \cup {n} /\ new.events[n] = e
      /\ \A m \in DOMAIN f.events : m # n => new.events[m] = f.events[m]
  BY <1>1, EventApplied DEF Agree
<1>3. Agree(new, Apply(st, EventRecord(n, e)))
  <2> DEFINE old == Apply(st, EventRecord(n, e))
  <2>1. /\ IsStore(old) /\ old.torn = FALSE
        /\ DOMAIN old.events = DOMAIN st.events \cup {n} /\ old.events[n] = e
        /\ \A m \in DOMAIN st.events : m # n => old.events[m] = st.events[m]
    BY <1>1, EventApplied DEF Agree
  <2> HIDE DEF new, old
  <2> QED
    <3>1. IsStore(new) /\ IsStore(old) /\ new.torn = FALSE /\ old.torn = FALSE
      BY <1>2, <2>1
    <3>2. \A m \in DOMAIN old.events : m \in DOMAIN new.events /\ new.events[m] = old.events[m]
      BY <1>2, <2>1 DEF Agree
    <3>3. Agree(new, old)
      BY <3>1, <3>2 DEF Agree
    <3> QED
      BY <3>3 DEF old
<1>4. Agree(new, st)
  <2> HIDE DEF new
  <2> QED
    BY <1>1, <1>2 DEF Agree
<1>5. Write(f, EventRecord(n, e), "ok") = new
  BY DEF Write, Agree
<1>6. Agree(AddEvent(f, st, n, e).file, AddEvent(f, st, n, e).mem)
  BY <1>3, <1>5, MaybeCompacted DEF AddEvent
<1>7. ASSUME NEW o \in {"failed", "unsynced"} PROVE Agree(Write(f, EventRecord(n, e), o), st)
  BY <1>4, Written DEF Agree
<1> QED
  BY <1>6, <1>7 DEF n

LEMMA BuriedOf ==
    ASSUME NEW st, IsStore(st), NEW K
    PROVE  LET m == Bury(st, K)
           IN  /\ IsStore(m) /\ m.torn = st.torn /\ m.last = st.last
               /\ m.gens = st.gens /\ m.ack = st.ack /\ m.tombs = st.tombs + Cardinality(K)
               /\ DOMAIN m.events = DOMAIN st.events \ K
               /\ \A n \in DOMAIN m.events : m.events[n] = st.events[n]
<1> DEFINE m == Bury(st, K)
<1> DEFINE E == Without(st.events, K)
<1> DEFINE t == st.tombs + Cardinality(K)
<1>1. m = [st EXCEPT !.events = E, !.tombs = t]
  BY DEF IsStore, Bury
<1>2. DOMAIN E = DOMAIN st.events \ K /\ E = [n \in DOMAIN E |-> E[n]]
  BY WithoutOf
<1>5. \A n \in DOMAIN st.events \ K : E[n] = st.events[n]
  BY DEF Without
<1> HIDE DEF m, E, t
<1>3. /\ m.events = E /\ m.last = st.last /\ m.torn = st.torn
      /\ m.gens = st.gens /\ m.ack = st.ack /\ m.tombs = t
      /\ m = [events |-> m.events, gens |-> m.gens, ack |-> m.ack, tombs |-> m.tombs,
              last |-> m.last, torn |-> m.torn]
  BY <1>1 DEF IsStore
<1>4. IsStore(m)
  BY <1>2, <1>3 DEF IsStore
<1> QED
  BY <1>2, <1>3, <1>4, <1>5 DEF m, t

LEMMA Buried ==
    ASSUME NEW st, IsStore(st), st.torn = FALSE, NEW K
    PROVE  Agree(Bury(st, K), Bury(st, K))
<1>1. IsStore(Bury(st, K)) /\ Bury(st, K).torn = FALSE
  BY BuriedOf
<1> QED
  BY <1>1 DEF Agree

LEMMA Loaded ==
    ASSUME NEW f, IsStore(f), f.torn = FALSE, NEW aged
    PROVE  Agree(Load(f, aged).file, Load(f, aged).mem)
<1> DEFINE old == {n \in DOMAIN f.events : f.events[n].id <= aged}
<1>1. [f EXCEPT !.torn = FALSE] = f
  BY DEF IsStore
<1>2. Load(f, aged) = IF old = {} THEN [file |-> f, mem |-> f]
                      ELSE MaybeCompact(Bury(f, old \ {}), Bury(f, old))
  <2> DEFINE mm == [f EXCEPT !.torn = FALSE]
  <2> DEFINE gone == {n \in DOMAIN mm.events : mm.events[n].id <= aged}
  <2> DEFINE lost == IF f.torn /\ gone # {} THEN {Lowest(gone)} ELSE {}
  <2>1. lost = {}
    <3> HIDE DEF gone
    <3> QED
      OBVIOUS
  <2>2. Load(f, aged) = IF gone = {} THEN [file |-> f, mem |-> mm]
                        ELSE MaybeCompact(Bury(mm, gone \ lost), Bury(mm, gone))
    BY DEF Load
  <2>3. mm = f /\ gone = old
    BY <1>1
  <2> HIDE DEF mm, gone, lost, old
  <2> QED
    BY <2>1, <2>2, <2>3
<1>3. old \ {} = old
  OBVIOUS
<1>4. Agree(Bury(f, old), Bury(f, old)) /\ Agree(f, f)
  BY Buried DEF Agree
<1> HIDE DEF old
<1> QED
  BY <1>2, <1>3, <1>4, MaybeCompacted

-----------------------------------------------------------------------------
(* What is in memory is on the disk.                                       *)

DiskInv == Agree(file, mem)

Harmless == "torn" \notin Outcomes

LEMMA OutcomeOf ==
    ASSUME Harmless, NEW o \in Outcomes
    PROVE  o \in {"ok", "failed", "unsynced"}
BY NotificationsAssumption DEF Harmless

LEMMA BeginTaskOnDisk ==
    ASSUME Harmless, DiskInv, NEW s \in Sources, NEW o \in Outcomes, BeginTask(s, o)
    PROVE  DiskInv'
<1> DEFINE g == count.gens + 1
<1>1. CASE det[s].active # 0
  BY <1>1 DEF BeginTask, DiskInv
<1>2. CASE det[s].active = 0
  <2>1. /\ file' = Write(file, GenRecord(g, s, "in_flight"), o)
        /\ mem' = Apply(mem, GenRecord(g, s, "in_flight"))
    BY <1>2 DEF BeginTask
  <2>2. Agree(Write(file, GenRecord(g, s, "in_flight"), o), Apply(mem, GenRecord(g, s, "in_flight")))
    BY OutcomeOf, OtherRecordAgrees DEF DiskInv
  <2> QED
    BY <2>1, <2>2 DEF DiskInv
<1> QED
  BY <1>1, <1>2

LEMMA CompleteTaskOnDisk ==
    ASSUME Harmless, DiskInv, NEW s \in Sources, NEW og \in Outcomes, NEW oe \in Outcomes,
           CompleteTask(s, og, oe)
    PROVE  DiskInv'
<1> DEFINE g == det[s].active
<1> DEFINE e == [id |-> count.events + 1, gen |-> g, source |-> s]
<1> DEFINE gfile == Write(file, GenRecord(g, s, "completed"), og)
<1> DEFINE gmem == Apply(mem, GenRecord(g, s, "completed"))
<1>1. Agree(gfile, gmem)
  BY OutcomeOf, OtherRecordAgrees DEF DiskInv
<1>2. NextSequence(gmem) = NextSequence(mem)
  BY DEF NextSequence, Apply, GenRecord, DiskInv, Agree, IsStore
<1>3. IF oe = "ok"
      THEN /\ file' = AddEvent(gfile, gmem, NextSequence(mem), e).file
           /\ mem' = AddEvent(gfile, gmem, NextSequence(mem), e).mem
      ELSE file' = Write(gfile, EventRecord(NextSequence(mem), e), oe) /\ mem' = gmem
  BY DEF CompleteTask
<1> HIDE DEF e, gfile, gmem
<1>4. CASE oe = "ok"
  BY <1>1, <1>2, <1>3, <1>4, EventAgrees DEF DiskInv
<1>5. CASE oe # "ok"
  <2>1. oe \in {"failed", "unsynced"}
    BY <1>5, OutcomeOf
  <2> QED
    BY <1>1, <1>2, <1>3, <1>5, <2>1, EventAgrees DEF DiskInv
<1> QED
  BY <1>4, <1>5

LEMMA AbortTaskOnDisk ==
    ASSUME Harmless, DiskInv, NEW s \in Sources, NEW o \in Outcomes, AbortTask(s, o)
    PROVE  DiskInv'
<1> DEFINE g == det[s].active
<1>1. Agree(Write(file, GenRecord(g, s, "cancelled"), o), Apply(mem, GenRecord(g, s, "cancelled")))
  BY OutcomeOf, OtherRecordAgrees DEF DiskInv
<1>2. /\ file' = IF g = 0 THEN file ELSE Write(file, GenRecord(g, s, "cancelled"), o)
      /\ mem' = IF g = 0 THEN mem ELSE Apply(mem, GenRecord(g, s, "cancelled"))
  BY DEF AbortTask
<1> QED
  BY <1>1, <1>2 DEF DiskInv

LEMMA AckOnDisk ==
    ASSUME Harmless, DiskInv, HubAck
    PROVE  DiskInv'
<1> DEFINE n == Head(up).through
<1>1. CASE file' = file /\ mem' = mem
  BY <1>1 DEF DiskInv
<1>2. ASSUME NEW o \in Outcomes, file' = Write(file, AckRecord(n), o),
             mem' = IF o = "ok" THEN [mem EXCEPT !.ack = n] ELSE mem
      PROVE  DiskInv'
  <2> HIDE DEF n
  <2>1. Agree(Write(file, AckRecord(n), o), mem)
    BY OutcomeOf, OtherRecordAgrees DEF DiskInv
  <2>2. CASE o = "ok"
    <3> DEFINE new == [mem EXCEPT !.ack = n]
    <3>1. /\ new.events = mem.events /\ new.last = mem.last /\ new.torn = mem.torn
          /\ new = [events |-> new.events, gens |-> new.gens, ack |-> new.ack, tombs |-> new.tombs,
                    last |-> new.last, torn |-> new.torn]
      BY DEF DiskInv, Agree, IsStore
    <3> HIDE DEF new
    <3>2. IsStore(new)
      BY <3>1 DEF DiskInv, Agree, IsStore
    <3>3. Agree(Write(file, AckRecord(n), o), new)
      BY <2>1, <3>1, <3>2 DEF Agree
    <3> QED
      BY <1>2, <2>2, <3>3 DEF DiskInv, new
  <2>3. CASE o # "ok"
    BY <1>2, <2>1, <2>3 DEF DiskInv
  <2> QED
    BY <2>2, <2>3
<1> QED
  BY <1>1, <1>2 DEF HubAck

LEMMA BootOnDisk ==
    ASSUME NEW f, IsStore(f), f.torn = FALSE, NEW aged, Boot(f, aged)
    PROVE  DiskInv'
<1>1. file' = Load(f, aged).file /\ mem' = Load(f, aged).mem
  BY DEF Boot
<1>2. Agree(Load(f, aged).file, Load(f, aged).mem)
  BY Loaded
<1> QED
  BY <1>1, <1>2 DEF DiskInv

LEMMA StartsOnDisk ==
    Init => DiskInv
<1> SUFFICES ASSUME Init PROVE DiskInv
  OBVIOUS
<1>1. DOMAIN EmptyStore.events = {}
  BY DEF EmptyStore
<1>2. IsStore(EmptyStore) /\ EmptyStore.torn = FALSE
  BY DEF EmptyStore, IsStore
<1> QED
  BY <1>1, <1>2 DEF Init, DiskInv, Agree

LEMMA StepsStayOnDisk ==
    ASSUME Harmless, DiskInv, [Next]_vars
    PROVE  DiskInv'
<1>1. ASSUME file' = file, mem' = mem PROVE DiskInv'
  BY <1>1 DEF DiskInv
<1>2. ASSUME NEW s \in Sources, AgentStart(s) PROVE DiskInv'
  BY <1>1, <1>2, BeginTaskOnDisk DEF AgentStart, Untouched
<1>3. ASSUME NEW s \in Sources, EdgeDown(s) PROVE DiskInv'
  BY <1>1, <1>3, CompleteTaskOnDisk DEF EdgeDown, Untouched
<1>4. ASSUME NEW s \in Sources, AgentEnd(s) PROVE DiskInv'
  BY <1>3, <1>4 DEF AgentEnd
<1>5. ASSUME NEW s \in Sources, AgentSettled(s) PROVE DiskInv'
  BY <1>3, <1>5 DEF AgentSettled
<1>6. ASSUME NEW s \in Sources, AgentAborted(s) PROVE DiskInv'
  BY <1>1, <1>6, AbortTaskOnDisk DEF AgentAborted, Untouched
<1>7. ASSUME NEW s \in Sources, NEW b, Adopt(s, b) PROVE DiskInv'
  BY <1>1, <1>7, BeginTaskOnDisk DEF Adopt, Untouched
<1>8. ASSUME NEW s \in Sources, DesktopSnapshot(s) PROVE DiskInv'
  BY <1>7, <1>8 DEF DesktopSnapshot
<1>9. ASSUME NEW s \in Sources, RegisterStart(s) PROVE DiskInv'
  BY <1>1, <1>9 DEF RegisterStart
<1>10. ASSUME NEW s \in Sources, RegisterDone(s) PROVE DiskInv'
  BY <1>7, <1>10 DEF RegisterDone
<1>11. ASSUME NEW s \in Sources, DesktopClosed(s) PROVE DiskInv'
  BY <1>1, <1>11 DEF DesktopClosed
<1>12. ASSUME NEW s \in Sources, HubStopsInBetween(s) PROVE DiskInv'
  <2> DEFINE f == Write(file, GenRecord(det[s].active, s, "completed"), "ok")
  <2>1. Boot(f, hist.aged)
    BY <1>12 DEF HubStopsInBetween
  <2>2. Agree(f, Apply(mem, GenRecord(det[s].active, s, "completed")))
    BY OtherRecordAgrees DEF DiskInv
  <2> HIDE DEF f
  <2> QED
    BY <2>1, <2>2, BootOnDisk DEF Agree
<1>13. ASSUME HubRestart PROVE DiskInv'
  <2>1. PICK aged : Boot(file, aged)
    BY <1>13 DEF HubRestart
  <2> QED
    BY <2>1, BootOnDisk DEF DiskInv, Agree
<1>14. CASE HubAck
  BY <1>14, AckOnDisk
<1>15. CASE HubSubscribe
  BY <1>1, <1>15 DEF HubSubscribe
<1>16. CASE HubNextPage
  BY <1>1, <1>16 DEF HubNextPage
<1>17. CASE PhoneConnect \/ Drop \/ Glance
  BY <1>1, <1>17 DEF PhoneConnect, Drop, Glance
<1>18. CASE PhoneEvents \/ PhoneReady \/ PhoneRestarts
  BY <1>1, <1>18 DEF PhoneEvents, PhoneReady, PhoneRestarts
<1>19. CASE UNCHANGED vars
  BY <1>1, <1>19 DEF vars
<1> QED
  BY <1>2, <1>4, <1>5, <1>6, <1>8, <1>9, <1>10, <1>11, <1>12, <1>13, <1>14, <1>15, <1>16, <1>17,
     <1>18, <1>19 DEF Next

\* The disk and the memory hold the same: what the hub takes for persisted, it would
\* find again at any moment at which it might stop. The hypothesis leaves out a write
\* that stops in the middle of a line; the README says what happens after one.
THEOREM PersistedStaysOnDisk ==
    ASSUME Harmless
    PROVE  Spec => []PersistedIsOnDisk
<1>1. Init => DiskInv
  BY StartsOnDisk
<1>2. DiskInv /\ [Next]_vars => DiskInv'
  BY StepsStayOnDisk
<1>3. DiskInv => PersistedIsOnDisk
  BY DEF DiskInv, Agree, PersistedIsOnDisk
<1> QED
  BY <1>1, <1>2, <1>3, PTL DEF Spec

-----------------------------------------------------------------------------
(* One notice per task.                                                    *)

DetShape(d) ==
    /\ DOMAIN d = Sources
    /\ \A s \in Sources : /\ d[s] = [streaming |-> d[s].streaming, active |-> d[s].active,
                                     latest |-> d[s].latest]
                          /\ d[s].streaming \in BOOLEAN

DeskShape(k) ==
    k \in [Sources -> [phase : {"idle", "running", "ended"}, task : Nat,
                       link : {"off", "asked_idle", "asked_busy", "on"}, notices : Nat,
                       aborted : BOOLEAN, doubt : BOOLEAN]]

\* What the hub has heard of the end of one task, and what it may still hear.
Noticed(k, d) ==
    ~k.doubt =>
        /\ k.phase = "running" => k.notices = 0 /\ ~k.aborted
        /\ k.phase = "ended" =>
              /\ k.notices <= (IF k.aborted THEN 0 ELSE 1)
              /\ k.aborted \/ k.notices = 1 => ~d.streaming /\ k.link # "asked_busy"
        /\ k.phase = "idle" => k.notices <= (IF k.aborted THEN 0 ELSE 1)

NoticeInv ==
    /\ DetShape(det) /\ DeskShape(desk)
    /\ \A s \in Sources : Noticed(desk[s], det[s])

\* One source's flag changes.
Turns(s, b) ==
    /\ DetShape(det') /\ det'[s].streaming = b
    /\ \A t \in Sources : t # s => det'[t] = det[t]

LEMMA RecordTurns ==
    ASSUME DetShape(det), NEW s \in Sources, NEW b \in BOOLEAN, NEW g, NEW n,
           det' = [det EXCEPT ![s] = [streaming |-> b, active |-> g, latest |-> n]]
    PROVE  Turns(s, b)
<1> DEFINE r == [streaming |-> b, active |-> g, latest |-> n]
<1>1. r.streaming = b /\ r = [streaming |-> r.streaming, active |-> r.active, latest |-> r.latest]
  OBVIOUS
<1> HIDE DEF r
<1>2. DOMAIN det' = Sources /\ det'[s] = r /\ \A t \in Sources : t # s => det'[t] = det[t]
  BY DEF DetShape, r
<1> QED
  BY <1>1, <1>2 DEF Turns, DetShape

LEMMA FlagSet ==
    ASSUME NEW r, r = [streaming |-> r.streaming, active |-> r.active, latest |-> r.latest], NEW b
    PROVE  [r EXCEPT !.streaming = b] = [streaming |-> b, active |-> r.active, latest |-> r.latest]
OBVIOUS

LEMMA QuitTurns ==
    ASSUME DetShape(det), NEW s \in Sources,
           det' = [det EXCEPT ![s].streaming = FALSE, ![s].active = 0]
    PROVE  Turns(s, FALSE) /\ det'[s].active = 0 /\ det'[s].latest = det[s].latest
<1> DEFINE mid == [det EXCEPT ![s].streaming = FALSE]
<1>1. mid[s] = [det[s] EXCEPT !.streaming = FALSE] /\ DOMAIN mid = Sources
  BY DEF DetShape
<1>2. mid[s] = [streaming |-> FALSE, active |-> det[s].active, latest |-> det[s].latest]
  <2>1. det[s] = [streaming |-> det[s].streaming, active |-> det[s].active, latest |-> det[s].latest]
    BY DEF DetShape
  <2>2. [det[s] EXCEPT !.streaming = FALSE]
          = [streaming |-> FALSE, active |-> det[s].active, latest |-> det[s].latest]
    BY <2>1, FlagSet, Zenon
  <2> QED
    BY <1>1, <2>2
<1>3. det' = [mid EXCEPT ![s].active = 0]
  BY DEF DetShape
<1>4. \A t \in Sources : t # s => mid[t] = det[t]
  BY DEF DetShape
<1> HIDE DEF mid
<1>5. det'[s] = [mid[s] EXCEPT !.active = 0] /\ DOMAIN det' = Sources
  BY <1>1, <1>3
<1>6. det'[s] = [streaming |-> FALSE, active |-> 0, latest |-> det[s].latest]
  BY <1>2, <1>5
<1>7. \A t \in Sources : t # s => det'[t] = det[t]
  BY <1>1, <1>3, <1>4
<1>8. Turns(s, FALSE)
  BY <1>5, <1>6, <1>7, ZenonT(60) DEF Turns, DetShape
<1>9. det'[s].active = 0 /\ det'[s].latest = det[s].latest
  <2> DEFINE r == [streaming |-> FALSE, active |-> 0, latest |-> det[s].latest]
  <2>1. r.active = 0 /\ r.latest = det[s].latest
    OBVIOUS
  <2>2. det'[s] = r
    BY <1>6
  <2> HIDE DEF r
  <2> QED
    BY <2>1, <2>2
<1> QED
  BY <1>8, <1>9

LEMMA FlagTurns ==
    ASSUME DetShape(det), NEW s \in Sources, NEW b \in BOOLEAN,
           det' = [det EXCEPT ![s].streaming = b]
    PROVE  Turns(s, b) /\ det'[s].active = det[s].active /\ det'[s].latest = det[s].latest
<1>1. det'[s] = [det[s] EXCEPT !.streaming = b] /\ DOMAIN det' = Sources
  BY DEF DetShape
<1>2. det'[s] = [streaming |-> b, active |-> det[s].active, latest |-> det[s].latest]
  <2>1. det[s] = [streaming |-> det[s].streaming, active |-> det[s].active, latest |-> det[s].latest]
    BY DEF DetShape
  <2>2. [det[s] EXCEPT !.streaming = b]
          = [streaming |-> b, active |-> det[s].active, latest |-> det[s].latest]
    BY <2>1, FlagSet, Zenon
  <2> QED
    BY <1>1, <2>2
<1>3. \A t \in Sources : t # s => det'[t] = det[t]
  BY DEF DetShape
<1>4. Turns(s, b)
  BY <1>1, <1>2, <1>3 DEF Turns, DetShape
<1> QED
  BY <1>2, <1>4

LEMMA TaskTurns ==
    ASSUME DetShape(det), NEW s \in Sources
    PROVE  /\ \A o : BeginTask(s, o) => Turns(s, TRUE)
           /\ \A o : AbortTask(s, o) => Turns(s, FALSE)
           /\ \A og, oe : CompleteTask(s, og, oe) => Turns(s, FALSE)
<1>1. ASSUME NEW o, BeginTask(s, o) PROVE Turns(s, TRUE)
  <2>1. CASE det[s].active # 0
    BY <1>1, <2>1, FlagTurns DEF BeginTask
  <2>2. CASE det[s].active = 0
    BY <1>1, <2>2, RecordTurns DEF BeginTask
  <2> QED
    BY <2>1, <2>2
<1>2. ASSUME NEW o, AbortTask(s, o) PROVE Turns(s, FALSE)
  <2>1. det' = [det EXCEPT ![s].streaming = FALSE, ![s].active = 0]
    BY <1>2 DEF AbortTask
  <2> QED
    BY <2>1, QuitTurns
<1>3. ASSUME NEW og, NEW oe, CompleteTask(s, og, oe) PROVE Turns(s, FALSE)
  <2>1. det' = [det EXCEPT ![s].streaming = FALSE, ![s].active = 0]
    BY <1>3 DEF CompleteTask
  <2> QED
    BY <2>1, QuitTurns
<1> QED
  BY <1>1, <1>2, <1>3

LEMMA EdgeTurns ==
    ASSUME DetShape(det), NEW s \in Sources, EdgeDown(s)
    PROVE  IF Heard(s) THEN Turns(s, FALSE) ELSE det' = det
BY TaskTurns DEF EdgeDown, Untouched

\* A step that changes one source's record, and its flag at most.
LEMMA OneSource ==
    ASSUME NoticeInv, NEW s \in Sources, NEW k,
           k \in [phase : {"idle", "running", "ended"}, task : Nat,
                  link : {"off", "asked_idle", "asked_busy", "on"}, notices : Nat,
                  aborted : BOOLEAN, doubt : BOOLEAN],
           desk' = [desk EXCEPT ![s] = k],
           det' = det \/ Turns(s, TRUE) \/ Turns(s, FALSE),
           Noticed(k, det'[s])
    PROVE  NoticeInv'
<1>1. DeskShape(desk') /\ desk'[s] = k /\ \A t \in Sources : t # s => desk'[t] = desk[t]
  BY DEF NoticeInv, DeskShape
<1>2. DetShape(det') /\ \A t \in Sources : t # s => det'[t] = det[t]
  BY DEF NoticeInv, Turns
<1>3. \A t \in Sources : Noticed(desk'[t], det'[t])
  BY <1>1, <1>2 DEF NoticeInv
<1> QED
  BY <1>1, <1>2, <1>3 DEF NoticeInv

LEMMA BootNotices ==
    ASSUME NoticeInv, NEW f, NEW aged, Boot(f, aged)
    PROVE  DetShape(det') /\ \A s \in Sources : det'[s].streaming = FALSE
<1>1. det' = Restored(Load(f, aged).mem)
  BY DEF Boot
<1> QED
  BY <1>1 DEF Restored, DetShape

LEMMA NoticesStart ==
    Init => NoticeInv
<1> SUFFICES ASSUME Init PROVE NoticeInv
  OBVIOUS
<1>1. DetShape(det)
  BY DEF Init, DetShape, DetInit
<1>2. DeskShape(desk)
  BY DEF Init, DeskShape
<1>3. \A s \in Sources : Noticed(desk[s], det[s])
  BY DEF Init, Noticed
<1> QED
  BY <1>1, <1>2, <1>3 DEF NoticeInv

LEMMA NoticesKept ==
    ASSUME NoticeInv, [Next]_vars
    PROVE  NoticeInv'
<1> DEFINE D == [phase : {"idle", "running", "ended"}, task : Nat,
                 link : {"off", "asked_idle", "asked_busy", "on"}, notices : Nat,
                 aborted : BOOLEAN, doubt : BOOLEAN]
<1>a. DetShape(det) /\ \A s \in Sources : desk[s] \in D /\ Noticed(desk[s], det[s])
  BY DEF NoticeInv, DeskShape
<1> HIDE DEF D
<1>b. ASSUME NEW k \in D
      PROVE  /\ k = [phase |-> k.phase, task |-> k.task, link |-> k.link, notices |-> k.notices,
                     aborted |-> k.aborted, doubt |-> k.doubt]
             /\ k.task \in Nat /\ k.notices \in Nat /\ k.aborted \in BOOLEAN /\ k.doubt \in BOOLEAN
             /\ k.link \in {"off", "asked_idle", "asked_busy", "on"}
             /\ k.phase \in {"idle", "running", "ended"}
  BY DEF D
<1>c. ASSUME NEW s \in Sources, NEW k \in D, desk' = [desk EXCEPT ![s] = k],
             det' = det \/ Turns(s, TRUE) \/ Turns(s, FALSE), Noticed(k, det'[s])
      PROVE  NoticeInv'
  BY <1>c, OneSource DEF D
<1>1. ASSUME desk' = desk, det' = det PROVE NoticeInv'
  BY <1>1 DEF NoticeInv
<1>2. ASSUME NEW s \in Sources, AgentStart(s) PROVE NoticeInv'
  <2> DEFINE k == [desk[s] EXCEPT !.phase = "running", !.task = @ + 1, !.notices = 0,
                                  !.aborted = FALSE, !.doubt = FALSE]
  <2>1. desk' = [desk EXCEPT ![s] = k]
    BY <1>2 DEF AgentStart
  <2>2. det' = det \/ Turns(s, TRUE)
    BY <1>2, <1>a, TaskTurns DEF AgentStart, Untouched
  <2>3. k \in D
    <3> DEFINE n == desk[s].task + 1
    <3>1. n \in Nat
      BY <1>a, <1>b
    <3> HIDE DEF n
    <3>2. [desk[s] EXCEPT !.phase = "running", !.task = n, !.notices = 0, !.aborted = FALSE,
                          !.doubt = FALSE] \in D
      BY <1>a, <3>1 DEF D
    <3> QED
      BY <3>2 DEF n
  <2>4. k.phase = "running" /\ k.notices = 0 /\ k.aborted = FALSE
    BY <1>a, <1>b
  <2> HIDE DEF k
  <2>5. Noticed(k, det'[s])
    BY <2>4 DEF Noticed
  <2> QED
    BY <2>1, <2>2, <2>3, <2>5, <1>c
<1>3. ASSUME NEW s \in Sources, NEW phase \in {"ended", "idle"}, Ending(s, phase), EdgeDown(s),
             phase = "ended" => desk[s].phase = "running",
             phase = "idle" => desk[s].phase = "ended"
      PROVE  NoticeInv'
  <2> DEFINE n == IF Heard(s) THEN desk[s].notices + 1 ELSE desk[s].notices
  <2> DEFINE k == [desk[s] EXCEPT !.phase = phase, !.notices = n]
  <2>1. desk' = [desk EXCEPT ![s] = k]
    <3>1. desk' = [desk EXCEPT ![s].phase = phase, ![s].notices = IF Heard(s) THEN @ + 1 ELSE @]
      BY <1>3 DEF Ending
    <3> QED
      BY <3>1, <1>a
  <2>2. IF Heard(s) THEN Turns(s, FALSE) ELSE det' = det
    BY <1>3, <1>a, EdgeTurns
  <2>n. n \in Nat
    BY <1>a, <1>b
  <2> HIDE DEF n
  <2>3. k \in D
    BY <1>a, <2>n, <1>3 DEF D
  <2>4. /\ k.phase = phase /\ k.aborted = desk[s].aborted /\ k.doubt = desk[s].doubt
        /\ k.link = desk[s].link /\ k.notices = n
    BY <1>a, <1>b
  <2>5. /\ desk[s].notices \in Nat /\ desk[s].doubt \in BOOLEAN /\ desk[s].aborted \in BOOLEAN
        /\ Noticed(desk[s], det[s])
    BY <1>a, <1>b
  <2> HIDE DEF k
  <2>6. ASSUME Heard(s) PROVE Noticed(k, det'[s])
    <3>1. det'[s].streaming = FALSE /\ desk[s].link = "on" /\ det[s].streaming
      BY <2>2, <2>6 DEF Turns, Heard
    <3>2. n = desk[s].notices + 1
      BY <2>6 DEF n
    <3>3. ~desk[s].doubt => desk[s].notices = 0 /\ ~desk[s].aborted
      BY <1>3, <2>5, <3>1 DEF Noticed
    <3> QED
      BY <1>3, <2>4, <3>1, <3>2, <3>3 DEF Noticed
  <2>7. ASSUME ~Heard(s) PROVE Noticed(k, det'[s])
    <3>1. n = desk[s].notices /\ det' = det
      BY <2>2, <2>7 DEF n
    <3> QED
      BY <1>3, <2>4, <2>5, <3>1 DEF Noticed
  <2> QED
    BY <2>1, <2>2, <2>3, <2>6, <2>7, <1>c
<1>4. ASSUME NEW s \in Sources, AgentAborted(s) PROVE NoticeInv'
  <2> DEFINE b == desk[s].doubt \/ desk[s].link # "on"
  <2> DEFINE k == [desk[s] EXCEPT !.phase = "ended", !.aborted = TRUE, !.doubt = b]
  <2>1. desk' = [desk EXCEPT ![s] = k] /\ desk[s].phase = "running"
    BY <1>4 DEF AgentAborted
  <2>2. IF Heard(s) THEN Turns(s, FALSE) ELSE det' = det
    BY <1>4, <1>a, TaskTurns DEF AgentAborted, Untouched
  <2>3. b \in BOOLEAN /\ (~b => desk[s].link = "on" /\ ~desk[s].doubt)
    BY <1>a, <1>b
  <2> HIDE DEF b
  <2>5. k \in D
    BY <1>a, <2>3 DEF D
  <2>4. /\ k.phase = "ended" /\ k.notices = desk[s].notices /\ k.aborted = TRUE /\ k.doubt = b
        /\ k.link = desk[s].link
    BY <1>a, <1>b
  <2> HIDE DEF k
  <2>6. ~b => desk[s].notices = 0 /\ ~det'[s].streaming
    BY <1>a, <2>1, <2>2, <2>3 DEF Noticed, Heard, Turns
  <2>7. Noticed(k, det'[s])
    BY <2>3, <2>4, <2>6 DEF Noticed
  <2> QED
    BY <2>1, <2>2, <2>5, <2>7, <1>c
<1>5. ASSUME NEW s \in Sources, DesktopSnapshot(s) PROVE NoticeInv'
  <2> DEFINE b == Doubt(s, TRUE)
  <2> DEFINE k == [desk[s] EXCEPT !.doubt = b]
  <2>1. desk' = [desk EXCEPT ![s] = k] /\ desk[s].phase # "idle"
    <3>1. desk' = [desk EXCEPT ![s].doubt = b]
      BY <1>5 DEF DesktopSnapshot
    <3> QED
      BY <1>5, <1>a, <3>1 DEF DesktopSnapshot
  <2>2. Turns(s, TRUE)
    BY <1>5, <1>a, TaskTurns DEF DesktopSnapshot, Adopt
  <2>3. b \in BOOLEAN /\ (~b => desk[s].phase # "ended" /\ ~desk[s].doubt)
    BY <1>a, <1>b DEF Doubt
  <2> HIDE DEF b
  <2>4. k = [phase |-> desk[s].phase, task |-> desk[s].task, link |-> desk[s].link,
             notices |-> desk[s].notices, aborted |-> desk[s].aborted, doubt |-> b]
    BY <1>a, <1>b
  <2> HIDE DEF k
  <2>5. k \in D
    BY <1>a, <1>b, <2>3, <2>4 DEF D
  <2>6. Noticed(k, det'[s])
    BY <1>a, <1>b, <2>1, <2>3, <2>4 DEF Noticed
  <2> QED
    BY <2>1, <2>2, <2>5, <2>6, <1>c
<1>6. ASSUME NEW s \in Sources, RegisterStart(s) PROVE NoticeInv'
  <2>1. PICK busy \in Busy(s) :
          desk' = [desk EXCEPT ![s].link = IF busy THEN "asked_busy" ELSE "asked_idle",
                               ![s].doubt = Doubt(s, busy)]
    BY <1>6 DEF RegisterStart
  <2> DEFINE b == Doubt(s, busy)
  <2> DEFINE l == IF busy THEN "asked_busy" ELSE "asked_idle"
  <2> DEFINE k == [desk[s] EXCEPT !.link = l, !.doubt = b]
  <2>2. desk' = [desk EXCEPT ![s] = k] /\ det' = det
    BY <1>6, <1>a, <2>1 DEF RegisterStart
  <2>3. b \in BOOLEAN /\ (~b => ~desk[s].doubt /\ (desk[s].phase = "ended" => ~busy))
    BY <1>a, <1>b DEF Doubt, Busy
  <2>4. l \in {"off", "asked_idle", "asked_busy", "on"} /\ (~busy => l # "asked_busy")
    OBVIOUS
  <2> HIDE DEF b, l
  <2>6. k \in D
    BY <1>a, <2>3, <2>4 DEF D
  <2>5. /\ k.phase = desk[s].phase /\ k.link = l /\ k.notices = desk[s].notices
        /\ k.aborted = desk[s].aborted /\ k.doubt = b
    BY <1>a, <1>b
  <2> HIDE DEF k
  <2>7. Noticed(k, det'[s])
    BY <1>a, <1>b, <2>2, <2>3, <2>4, <2>5 DEF Noticed
  <2> QED
    BY <2>2, <2>6, <2>7, <1>c
<1>7. ASSUME NEW s \in Sources, RegisterDone(s) PROVE NoticeInv'
  <2> DEFINE k == [desk[s] EXCEPT !.link = "on"]
  <2>1. desk' = [desk EXCEPT ![s] = k]
    <3>1. desk' = [desk EXCEPT ![s].link = "on"]
      BY <1>7 DEF RegisterDone
    <3> QED
      BY <1>a, <3>1
  <2>2. IF desk[s].link = "asked_busy" THEN Turns(s, TRUE) ELSE det' = det
    BY <1>7, <1>a, TaskTurns DEF RegisterDone, Adopt, Untouched
  <2>3. k = [phase |-> desk[s].phase, task |-> desk[s].task, link |-> "on",
             notices |-> desk[s].notices, aborted |-> desk[s].aborted, doubt |-> desk[s].doubt]
    BY <1>a, <1>b
  <2> HIDE DEF k
  <2>4. k \in D
    BY <1>a, <1>b, <2>3 DEF D
  <2>5. Noticed(k, det'[s])
    BY <1>a, <1>b, <2>2, <2>3 DEF Noticed
  <2> QED
    BY <2>1, <2>2, <2>4, <2>5, <1>c
<1>8. ASSUME NEW s \in Sources, DesktopClosed(s) PROVE NoticeInv'
  <2> DEFINE k == [desk[s] EXCEPT !.link = "off"]
  <2>1. desk' = [desk EXCEPT ![s] = k]
    <3>1. desk' = [desk EXCEPT ![s].link = "off"]
      BY <1>8 DEF DesktopClosed
    <3> QED
      BY <1>a, <3>1
  <2>2. Turns(s, FALSE)
    BY <1>8, <1>a, FlagTurns DEF DesktopClosed
  <2>3. k = [phase |-> desk[s].phase, task |-> desk[s].task, link |-> "off",
             notices |-> desk[s].notices, aborted |-> desk[s].aborted, doubt |-> desk[s].doubt]
    BY <1>a, <1>b
  <2> HIDE DEF k
  <2>4. k \in D
    BY <1>a, <1>b, <2>3 DEF D
  <2>5. ~det'[s].streaming
    BY <2>2 DEF Turns
  <2>6. Noticed(k, det'[s])
    BY <1>a, <1>b, <2>3, <2>5 DEF Noticed
  <2> QED
    BY <2>1, <2>2, <2>4, <2>6, <1>c
<1>9. \A s \in Sources :
         /\ Unlinked[s] = [phase |-> desk[s].phase, task |-> desk[s].task, link |-> "off",
                           notices |-> desk[s].notices, aborted |-> desk[s].aborted,
                           doubt |-> desk[s].doubt]
         /\ Unlinked[s] \in D
  <2> SUFFICES ASSUME NEW s \in Sources
               PROVE  /\ Unlinked[s] = [phase |-> desk[s].phase, task |-> desk[s].task, link |-> "off",
                                        notices |-> desk[s].notices, aborted |-> desk[s].aborted,
                                        doubt |-> desk[s].doubt]
                      /\ Unlinked[s] \in D
    OBVIOUS
  <2>1. Unlinked[s] = [desk[s] EXCEPT !.link = "off"]
    BY DEF Unlinked
  <2>2. Unlinked[s] = [phase |-> desk[s].phase, task |-> desk[s].task, link |-> "off",
                       notices |-> desk[s].notices, aborted |-> desk[s].aborted,
                       doubt |-> desk[s].doubt]
    BY <1>a, <1>b, <2>1
  <2> QED
    BY <1>a, <1>b, <2>2 DEF D
<1>d. ASSUME NEW s \in Sources, NEW d, d.streaming = FALSE PROVE Noticed(Unlinked[s], d)
  <2> DEFINE r == Unlinked[s]
  <2>0. r = [phase |-> desk[s].phase, task |-> desk[s].task, link |-> "off",
             notices |-> desk[s].notices, aborted |-> desk[s].aborted, doubt |-> desk[s].doubt]
    BY <1>9
  <2> HIDE DEF r
  <2>1. /\ r.phase = desk[s].phase /\ r.link = "off" /\ r.notices = desk[s].notices
        /\ r.aborted = desk[s].aborted /\ r.doubt = desk[s].doubt
    BY <2>0
  <2>2. Noticed(desk[s], det[s])
    BY <1>a
  <2>3. Noticed(r, d)
    BY <1>d, <2>1, <2>2 DEF Noticed
  <2> QED
    BY <2>3 DEF r
<1>10. ASSUME HubRestart PROVE NoticeInv'
  <2>1. desk' = Unlinked
    BY <1>10 DEF HubRestart
  <2>2. DetShape(det') /\ \A s \in Sources : det'[s].streaming = FALSE
    BY <1>10, BootNotices DEF HubRestart
  <2>3. DeskShape(desk')
    BY <1>9, <2>1 DEF DeskShape, D, Unlinked
  <2>4. ASSUME NEW s \in Sources PROVE Noticed(desk'[s], det'[s])
    BY <1>d, <2>1, <2>2
  <2> QED
    BY <2>2, <2>3, <2>4 DEF NoticeInv
<1>11. ASSUME NEW s \in Sources, HubStopsInBetween(s) PROVE NoticeInv'
  <2> DEFINE k == [Unlinked[s] EXCEPT !.phase = "ended"]
  <2>1. desk' = [Unlinked EXCEPT ![s].phase = "ended"] /\ desk[s].phase = "running"
    BY <1>11 DEF HubStopsInBetween
  <2>2. DetShape(det') /\ \A t \in Sources : det'[t].streaming = FALSE
    BY <1>11, BootNotices DEF HubStopsInBetween
  <2>3. k = [phase |-> "ended", task |-> desk[s].task, link |-> "off",
             notices |-> desk[s].notices, aborted |-> desk[s].aborted, doubt |-> desk[s].doubt]
    <3> DEFINE r == Unlinked[s]
    <3>1. r = [phase |-> desk[s].phase, task |-> desk[s].task, link |-> "off",
               notices |-> desk[s].notices, aborted |-> desk[s].aborted,
               doubt |-> desk[s].doubt]
      BY <1>9
    <3> HIDE DEF r
    <3> QED
      BY <3>1 DEF r
  <2>4. desk' = [t \in Sources |-> IF t = s THEN k ELSE Unlinked[t]]
    BY <2>1 DEF Unlinked
  <2> HIDE DEF k
  <2>5. k \in D
    BY <1>a, <1>b, <2>3 DEF D
  <2>6. DeskShape(desk')
    BY <1>9, <2>4, <2>5 DEF DeskShape, D
  <2>7. ASSUME NEW t \in Sources, t # s PROVE Noticed(desk'[t], det'[t])
    BY <1>d, <2>2, <2>4, <2>7
  <2>8. Noticed(k, det'[s])
    BY <1>a, <1>b, <2>1, <2>2, <2>3 DEF Noticed
  <2> QED
    BY <2>2, <2>4, <2>6, <2>7, <2>8 DEF NoticeInv
<1>12. ASSUME NEW s \in Sources, AgentEnd(s) PROVE NoticeInv'
  BY <1>3, <1>12 DEF AgentEnd
<1>13. ASSUME NEW s \in Sources, AgentSettled(s) PROVE NoticeInv'
  BY <1>3, <1>13 DEF AgentSettled
<1>14. CASE HubSubscribe \/ HubNextPage \/ HubAck
  BY <1>1, <1>14 DEF HubSubscribe, HubNextPage, HubAck
<1>15. CASE PhoneConnect \/ Drop \/ Glance
  BY <1>1, <1>15 DEF PhoneConnect, Drop, Glance
<1>16. CASE PhoneEvents \/ PhoneReady \/ PhoneRestarts
  BY <1>1, <1>16 DEF PhoneEvents, PhoneReady, PhoneRestarts
<1>17. CASE UNCHANGED vars
  BY <1>1, <1>17 DEF vars
<1> QED
  BY <1>2, <1>4, <1>5, <1>6, <1>7, <1>8, <1>10, <1>11, <1>12, <1>13, <1>14, <1>15, <1>16, <1>17
     DEF Next

\* A task that ends is heard of once, and one that was interrupted not at all, however
\* pi's two end events, the hub's starts and the desktop's registrations interleave.
THEOREM NoTaskNoticedTwice ==
    Spec => []OneNoticePerTask
<1>1. Init => NoticeInv
  BY NoticesStart
<1>2. NoticeInv /\ [Next]_vars => NoticeInv'
  BY NoticesKept
<1>3. NoticeInv => OneNoticePerTask
  <2> SUFFICES ASSUME NoticeInv, NEW s \in Sources, ~desk[s].doubt
               PROVE  desk[s].notices <= (IF desk[s].aborted THEN 0 ELSE 1)
    BY DEF OneNoticePerTask
  <2>1. Noticed(desk[s], det[s]) /\ desk[s].phase \in {"idle", "running", "ended"}
    BY DEF NoticeInv, DeskShape
  <2> QED
    BY <2>1 DEF Noticed
<1> QED
  BY <1>1, <1>2, <1>3, PTL DEF Spec

-----------------------------------------------------------------------------
(* The log by its types, through any write, torn ones included.            *)

Counts == [gens : Nat, events : Nat, mishaps : Nat]

Entry(c) == [id : 1..c.events, gen : 0..c.gens, source : Sources]

\* A store with entries that have been made, of generations that have been given out.
StoreOK(st, c) ==
    /\ IsStore(st) /\ st.torn \in BOOLEAN
    /\ \A n \in DOMAIN st.events : st.events[n] \in Entry(c)
    /\ DOMAIN st.gens \subseteq 1..c.gens
    /\ st.ack \in Nat /\ st.tombs \in Nat

LEMMA StoreGrows ==
    ASSUME NEW c \in Counts, NEW d \in Counts, c.events <= d.events, c.gens <= d.gens,
           NEW st, StoreOK(st, c)
    PROVE  StoreOK(st, d)
<1>1. /\ c.events \in Nat /\ d.events \in Nat /\ c.gens \in Nat /\ d.gens \in Nat
  BY DEF Counts
<1>2. 1..c.events \subseteq 1..d.events /\ 0..c.gens \subseteq 0..d.gens /\ 1..c.gens \subseteq 1..d.gens
  BY <1>1
<1>3. Entry(c) \subseteq Entry(d)
  BY <1>2 DEF Entry
<1> QED
  BY <1>2, <1>3 DEF StoreOK

LEMMA EventFits ==
    ASSUME NEW c, NEW st, StoreOK(st, c), NEW n \in Nat \ {0}, NEW e \in Entry(c)
    PROVE  /\ StoreOK(Apply(st, EventRecord(n, e)), c)
           /\ Apply(st, EventRecord(n, e)).last = Bigger(st.last, n)
           /\ Apply(st, EventRecord(n, e)).gens = st.gens
<1> DEFINE new == Apply(st, EventRecord(n, e))
<1>1. IsStore(st)
  BY DEF StoreOK
<1>2. /\ IsStore(new) /\ new.torn = st.torn
      /\ DOMAIN new.events = DOMAIN st.events \cup {n} /\ new.events[n] = e
      /\ \A m \in DOMAIN st.events : m # n => new.events[m] = st.events[m]
      /\ new.last = Bigger(st.last, n) /\ new.gens = st.gens
      /\ new.ack = st.ack /\ new.tombs = st.tombs
  BY <1>1, EventApplied
<1> HIDE DEF new
<1>3. \A m \in DOMAIN new.events : new.events[m] \in Entry(c)
  BY <1>2 DEF StoreOK
<1>4. StoreOK(new, c)
  BY <1>2, <1>3 DEF StoreOK
<1> QED
  BY <1>2, <1>4 DEF new

LEMMA GenerationFits ==
    ASSUME NEW c, NEW st, StoreOK(st, c), NEW g \in 1..c.gens, NEW s, NEW state
    PROVE  /\ StoreOK(Apply(st, GenRecord(g, s, state)), c)
           /\ Apply(st, GenRecord(g, s, state)).last = st.last
           /\ DOMAIN Apply(st, GenRecord(g, s, state)).gens = DOMAIN st.gens \cup {g}
           /\ Apply(st, GenRecord(g, s, state)).events = st.events
<1> DEFINE new == Apply(st, GenRecord(g, s, state))
<1>1. IsStore(st)
  BY DEF StoreOK
<1>2. /\ IsStore(new) /\ new.torn = st.torn /\ new.events = st.events
      /\ DOMAIN new.gens = DOMAIN st.gens \cup {g}
      /\ new.ack = st.ack /\ new.tombs = st.tombs /\ new.last = st.last
  BY <1>1, GenerationApplied
<1> HIDE DEF new
<1>3. DOMAIN new.gens \subseteq 1..c.gens
  BY <1>2 DEF StoreOK
<1>4. StoreOK(new, c)
  BY <1>2, <1>3 DEF StoreOK
<1> QED
  BY <1>2, <1>4 DEF new

LEMMA AckFits ==
    ASSUME NEW c, NEW st, StoreOK(st, c), NEW n \in Nat
    PROVE  StoreOK(Apply(st, AckRecord(n)), c)
<1> DEFINE new == Apply(st, AckRecord(n))
<1>1. IsStore(st)
  BY DEF StoreOK
<1>2. /\ IsStore(new) /\ new.torn = st.torn /\ new.events = st.events
      /\ new.ack = Bigger(st.ack, n)
      /\ new.gens = st.gens /\ new.tombs = st.tombs /\ new.last = st.last
  BY <1>1, AckApplied
<1> HIDE DEF new
<1>3. new.ack \in Nat
  BY <1>2 DEF StoreOK, Bigger
<1>4. StoreOK(new, c)
  BY <1>2, <1>3 DEF StoreOK
<1> QED
  BY <1>4 DEF new

LEMMA CompactFits ==
    ASSUME NEW c, NEW f, NEW st, StoreOK(f, c), StoreOK(st, c)
    PROVE  LET done == MaybeCompact(f, st)
           IN  /\ StoreOK(done.file, c) /\ StoreOK(done.mem, c)
               /\ done.mem.last = st.last /\ done.mem.gens = st.gens
               /\ DOMAIN done.mem.events \subseteq DOMAIN st.events
               /\ \A n \in DOMAIN done.mem.events : done.mem.events[n] = st.events[n]
<1> DEFINE m == Compact(st).mem
<1> DEFINE cf == Compact(st).file
<1>1. IsStore(st)
  BY DEF StoreOK
<1>2. /\ IsStore(m) /\ m.torn = st.torn /\ m.last = st.last
      /\ m.gens = st.gens /\ m.ack = st.ack /\ m.tombs = 0
      /\ DOMAIN m.events \subseteq DOMAIN st.events
      /\ \A n \in DOMAIN m.events : m.events[n] = st.events[n]
      /\ IsStore(cf) /\ cf.events = m.events /\ cf.torn = st.torn
      /\ cf.gens = st.gens /\ cf.ack = st.ack /\ cf.tombs = 0
  BY <1>1, CompactedOf
<1> HIDE DEF m, cf
<1>3. StoreOK(m, c)
  BY <1>2 DEF StoreOK
<1>4. StoreOK(cf, c)
  BY <1>2 DEF StoreOK
<1>5. MaybeCompact(f, st) = Compact(st) \/ MaybeCompact(f, st) = [file |-> f, mem |-> st]
  BY DEF MaybeCompact
<1>6. CASE MaybeCompact(f, st) = Compact(st)
  BY <1>2, <1>3, <1>4, <1>6 DEF m, cf
<1>7. CASE MaybeCompact(f, st) = [file |-> f, mem |-> st]
  BY <1>7
<1> QED
  BY <1>5, <1>6, <1>7

LEMMA TornSet ==
    ASSUME NEW c, NEW st, StoreOK(st, c), NEW b \in BOOLEAN
    PROVE  LET new == [st EXCEPT !.torn = b]
           IN  /\ StoreOK(new, c) /\ new.events = st.events /\ new.last = st.last
               /\ new.gens = st.gens /\ new.torn = b
<1> DEFINE new == [st EXCEPT !.torn = b]
<1>1. /\ new.events = st.events /\ new.last = st.last /\ new.torn = b
      /\ new.gens = st.gens /\ new.ack = st.ack /\ new.tombs = st.tombs
      /\ new = [events |-> new.events, gens |-> new.gens, ack |-> new.ack, tombs |-> new.tombs,
                last |-> new.last, torn |-> new.torn]
  BY DEF StoreOK, IsStore
<1> HIDE DEF new
<1>2. StoreOK(new, c)
  BY <1>1 DEF StoreOK, IsStore
<1> QED
  BY <1>1, <1>2 DEF new

LEMMA WriteFits ==
    ASSUME NEW c, NEW f, NEW r, StoreOK(f, c), StoreOK(Apply(f, r), c), NEW o \in Outcomes
    PROVE  StoreOK(Write(f, r, o), c)
<1>1. StoreOK([f EXCEPT !.torn = TRUE], c) /\ StoreOK([f EXCEPT !.torn = FALSE], c)
  BY TornSet
<1>2. \/ Write(f, r, o) = f
      \/ Write(f, r, o) = [f EXCEPT !.torn = TRUE]
      \/ Write(f, r, o) = [f EXCEPT !.torn = FALSE]
      \/ Write(f, r, o) = Apply(f, r)
  BY DEF Write
<1> QED
  BY <1>1, <1>2

LEMMA BuryFits ==
    ASSUME NEW c, NEW st, StoreOK(st, c), NEW K, K \subseteq DOMAIN st.events
    PROVE  StoreOK(Bury(st, K), c)
<1> DEFINE m == Bury(st, K)
<1>1. IsStore(st) /\ IsFiniteSet(DOMAIN st.events)
  <2>1. DOMAIN st.events \subseteq 1..st.last /\ st.last \in Nat
    BY DEF StoreOK, IsStore
  <2>2. IsFiniteSet(1..st.last)
    BY <2>1, FS_Interval
  <2> QED
    BY <2>1, <2>2, FS_Subset DEF StoreOK
<1>2. Cardinality(K) \in Nat
  BY <1>1, FS_Subset, FS_CardinalityType
<1>3. /\ IsStore(m) /\ m.torn = st.torn /\ m.last = st.last
      /\ m.gens = st.gens /\ m.ack = st.ack /\ m.tombs = st.tombs + Cardinality(K)
      /\ DOMAIN m.events = DOMAIN st.events \ K
      /\ \A n \in DOMAIN m.events : m.events[n] = st.events[n]
  BY <1>1, BuriedOf
<1> HIDE DEF m
<1>4. m.tombs \in Nat
  BY <1>2, <1>3 DEF StoreOK
<1>5. StoreOK(m, c)
  BY <1>3, <1>4 DEF StoreOK
<1> QED
  BY <1>5 DEF m

LEMMA LoadFits ==
    ASSUME NEW c, NEW f, StoreOK(f, c), NEW aged
    PROVE  StoreOK(Load(f, aged).file, c) /\ StoreOK(Load(f, aged).mem, c)
<1> DEFINE mm == [f EXCEPT !.torn = FALSE]
<1> DEFINE gone == {n \in DOMAIN mm.events : mm.events[n].id <= aged}
<1> DEFINE lost == IF f.torn /\ gone # {} THEN {Lowest(gone)} ELSE {}
<1>1. mm.events = f.events /\ StoreOK(mm, c)
  BY TornSet
<1>2. Load(f, aged) = IF gone = {} THEN [file |-> f, mem |-> mm]
                      ELSE MaybeCompact(Bury(mm, gone \ lost), Bury(mm, gone))
  BY DEF Load
<1>3. gone \subseteq DOMAIN mm.events
  OBVIOUS
<1> HIDE DEF mm, gone, lost
<1>5. StoreOK(Bury(mm, gone), c)
  BY <1>1, <1>3, BuryFits
<1>6. StoreOK(Bury(mm, gone \ lost), c)
  <2>1. gone \ lost \subseteq DOMAIN mm.events
    BY <1>3
  <2> QED
    BY <1>1, <2>1, BuryFits
<1>7. CASE gone = {}
  BY <1>1, <1>2, <1>7
<1>8. CASE gone # {}
  BY <1>2, <1>5, <1>6, <1>8, CompactFits, ZenonT(60)
<1> QED
  BY <1>7, <1>8

\* The generation a source starts with again is one of the log's.
LEMMA RestoredOf ==
    ASSUME NEW c \in Counts, NEW st, StoreOK(st, c), NEW s \in Sources
    PROVE  /\ Restored(st)[s].active \in DOMAIN st.gens \cup {0}
           /\ Restored(st)[s].latest \in 0..c.gens
<1> DEFINE S == InFlight(st, s)
<1>1. S \subseteq DOMAIN st.gens /\ DOMAIN st.gens \subseteq 1..c.gens /\ c.gens \in Nat
  BY DEF InFlight, StoreOK, Counts
<1> HIDE DEF S
<1>2. S \subseteq Nat /\ \A n \in S : n <= c.gens
  BY <1>1
<1>3. Highest(S) \in S \cup {0}
  BY <1>1, <1>2, HighestOf
<1>4. Restored(st)[s] = [streaming |-> FALSE, active |-> Highest(S), latest |-> Highest(S)]
  BY DEF Restored, S
<1> QED
  BY <1>1, <1>3, <1>4

\* What the detector holds is in the log.
DetOK(d, m, c) ==
    \A s \in Sources : d[s].active \in DOMAIN m.gens \cup {0} /\ d[s].latest \in 0..c.gens

\* A source that streams has a generation.
Engaged(d) == \A s \in Sources : d[s].streaming => d[s].active # 0

LogOK ==
    /\ count \in Counts /\ StoreOK(file, count) /\ StoreOK(mem, count)
    /\ DetOK(det, mem, count) /\ Engaged(det)

\* Nothing of the log changes that the channels depend on.
LogSteps == LogOK' /\ mem'.last = mem.last

LEMMA FaultedOf ==
    ASSUME NEW c \in Counts, NEW o
    PROVE  /\ Faulted(c, o) \in Counts
           /\ Faulted(c, o).gens = c.gens /\ Faulted(c, o).events = c.events
<1> DEFINE n == c.mishaps + 1
<1>1. n \in Nat
  BY DEF Counts
<1>2. Faulted(c, o) = IF o = "ok" THEN c ELSE [c EXCEPT !.mishaps = n]
  BY DEF Faulted
<1> HIDE DEF n
<1>3. [c EXCEPT !.mishaps = n] \in Counts
  BY <1>1 DEF Counts
<1>4. [c EXCEPT !.mishaps = n].gens = c.gens /\ [c EXCEPT !.mishaps = n].events = c.events
  BY DEF Counts
<1> QED
  BY <1>2, <1>3, <1>4

LEMMA BeginTaskFits ==
    ASSUME LogOK, DetShape(det), NEW s \in Sources, NEW o \in Outcomes, BeginTask(s, o)
    PROVE  LogSteps
<1> DEFINE g == count.gens + 1
<1>1. CASE det[s].active # 0
  <2>1. det' = [det EXCEPT ![s].streaming = TRUE] /\ UNCHANGED <<file, mem, count>>
    BY <1>1 DEF BeginTask
  <2>2. Turns(s, TRUE) /\ det'[s].active = det[s].active /\ det'[s].latest = det[s].latest
    BY <2>1, FlagTurns
  <2>3. DetOK(det', mem, count)
    BY <2>2 DEF LogOK, DetOK, Turns
  <2>4. Engaged(det')
    BY <1>1, <2>2 DEF LogOK, Engaged, Turns
  <2> QED
    BY <2>1, <2>3, <2>4 DEF LogSteps, LogOK
<1>2. CASE det[s].active = 0
  <2> DEFINE c == [count EXCEPT !.gens = g]
  <2>1. /\ det' = [det EXCEPT ![s] = [streaming |-> TRUE, active |-> g, latest |-> g]]
        /\ file' = Write(file, GenRecord(g, s, "in_flight"), o)
        /\ mem' = Apply(mem, GenRecord(g, s, "in_flight"))
        /\ count' = Faulted(c, o)
    BY <1>2 DEF BeginTask
  <2>2. c \in Counts /\ c.gens = g /\ c.events = count.events /\ count.gens \in Nat /\ g \in Nat
    <3>1. count.gens \in Nat /\ g \in Nat /\ count.events \in Nat /\ count \in Counts
      BY DEF LogOK, Counts
    <3> HIDE DEF g
    <3> QED
      BY <3>1 DEF Counts
  <2>3. g = count.gens + 1 /\ g > count.gens /\ g \in 1..g
    BY <2>2
  <2> HIDE DEF c, g
  <2>4. count' \in Counts /\ count'.gens = g /\ count'.events = count.events
    BY <2>1, <2>2, FaultedOf
  <2>5. StoreOK(file, count') /\ StoreOK(mem, count')
    <3>1. count \in Counts /\ count.events \in Nat /\ count.events <= count'.events /\ count.gens <= count'.gens
      BY <2>2, <2>3, <2>4 DEF LogOK, Counts
    <3> QED
      BY <2>4, <3>1, StoreGrows DEF LogOK
  <2>6. g \in 1..count'.gens
    BY <2>3, <2>4
  <2>7. /\ StoreOK(mem', count') /\ mem'.last = mem.last
        /\ DOMAIN mem'.gens = DOMAIN mem.gens \cup {g}
    BY <2>1, <2>5, <2>6, GenerationFits
  <2>8. StoreOK(file', count')
    <3>1. StoreOK(Apply(file, GenRecord(g, s, "in_flight")), count')
      BY <2>5, <2>6, GenerationFits
    <3> QED
      BY <2>1, <2>5, <3>1, WriteFits
  <2>9. DetOK(det', mem', count')
    <3> SUFFICES ASSUME NEW t \in Sources
                 PROVE  det'[t].active \in DOMAIN mem'.gens \cup {0} /\ det'[t].latest \in 0..count'.gens
      BY DEF DetOK
    <3>1. det[t].active \in DOMAIN mem.gens \cup {0} /\ det[t].latest \in 0..count.gens
      BY DEF LogOK, DetOK
    <3>2. CASE t = s
      <4>1. det'[t] = [streaming |-> TRUE, active |-> g, latest |-> g]
        BY <2>1, <3>2 DEF DetShape
      <4> QED
        BY <4>1, <2>2, <2>4, <2>7
    <3>3. CASE t # s
      <4>1. det'[t] = det[t]
        BY <2>1, <3>3 DEF DetShape
      <4> QED
        BY <4>1, <3>1, <2>2, <2>3, <2>4, <2>7
    <3> QED
      BY <3>2, <3>3
  <2>10. Engaged(det')
    <3>1. det'[s] = [streaming |-> TRUE, active |-> g, latest |-> g] /\ g # 0
      BY <2>1, <2>2, <2>3 DEF DetShape
    <3>2. \A t \in Sources : t # s => det'[t] = det[t]
      BY <2>1 DEF DetShape
    <3> QED
      BY <3>1, <3>2 DEF LogOK, Engaged
  <2> QED
    BY <2>4, <2>7, <2>8, <2>9, <2>10 DEF LogSteps, LogOK
<1> QED
  BY <1>1, <1>2

LEMMA AbortTaskFits ==
    ASSUME LogOK, DetShape(det), NEW s \in Sources, NEW o \in Outcomes, AbortTask(s, o)
    PROVE  LogSteps
<1> DEFINE g == det[s].active
<1> DEFINE r == GenRecord(g, s, "cancelled")
<1>1. /\ det' = [det EXCEPT ![s].streaming = FALSE, ![s].active = 0]
      /\ file' = (IF g = 0 THEN file ELSE Write(file, r, o))
      /\ mem' = (IF g = 0 THEN mem ELSE Apply(mem, r))
      /\ count' = Faulted(count, o)
  BY DEF AbortTask
<1>2. Turns(s, FALSE) /\ det'[s].active = 0 /\ det'[s].latest = det[s].latest
  BY <1>1, QuitTurns
<1>3. count' \in Counts /\ count'.gens = count.gens /\ count'.events = count.events
  BY <1>1, FaultedOf DEF LogOK
<1>4. StoreOK(file, count') /\ StoreOK(mem, count')
  <2>1. count \in Counts /\ count.events <= count'.events /\ count.gens <= count'.gens
    BY <1>3 DEF LogOK, Counts
  <2> QED
    BY <1>3, <2>1, StoreGrows DEF LogOK
<1>5. /\ StoreOK(mem', count') /\ StoreOK(file', count') /\ mem'.last = mem.last
      /\ DOMAIN mem.gens \subseteq DOMAIN mem'.gens
  <2>1. CASE g = 0
    BY <1>1, <1>4, <2>1
  <2>2. CASE g # 0
    <3>1. g \in DOMAIN mem.gens /\ DOMAIN mem.gens \subseteq 1..count'.gens
      BY <2>2, <1>3 DEF LogOK, DetOK, StoreOK
    <3> HIDE DEF g
    <3>2. StoreOK(Apply(file, r), count')
      BY <1>4, <3>1, GenerationFits
    <3>3. /\ StoreOK(Apply(mem, r), count') /\ Apply(mem, r).last = mem.last
          /\ DOMAIN Apply(mem, r).gens = DOMAIN mem.gens \cup {g}
      BY <1>4, <3>1, GenerationFits
    <3> HIDE DEF r
    <3>4. StoreOK(Write(file, r, o), count')
      BY <1>4, <3>2, WriteFits
    <3> QED
      BY <1>1, <2>2, <3>3, <3>4
  <2> QED
    BY <2>1, <2>2
<1>6. DetOK(det', mem', count')
  BY <1>2, <1>3, <1>5 DEF LogOK, DetOK, Turns
<1>7. Engaged(det')
  BY <1>2 DEF LogOK, Engaged, Turns
<1> QED
  BY <1>3, <1>5, <1>6, <1>7 DEF LogSteps, LogOK

LEMMA CompleteTaskFits ==
    ASSUME LogOK, DetShape(det), NEW s \in Sources, NEW og \in Outcomes, NEW oe \in Outcomes,
           CompleteTask(s, og, oe), det[s].active # 0
    PROVE  LogOK' /\ mem'.last = IF oe = "ok" THEN mem.last + 1 ELSE mem.last
<1> DEFINE g == det[s].active
<1> DEFINE e == [id |-> count.events + 1, gen |-> g, source |-> s]
<1> DEFINE n == NextSequence(mem)
<1> DEFINE r == GenRecord(g, s, "completed")
<1> DEFINE gfile == Write(file, r, og)
<1> DEFINE gmem == Apply(mem, r)
<1> DEFINE c == [count EXCEPT !.events = count.events + 1]
<1>1. /\ det' = [det EXCEPT ![s].streaming = FALSE, ![s].active = 0]
      /\ count' = Faulted(Faulted(c, og), oe)
      /\ IF oe = "ok"
         THEN file' = AddEvent(gfile, gmem, n, e).file /\ mem' = AddEvent(gfile, gmem, n, e).mem
         ELSE file' = Write(gfile, EventRecord(n, e), oe) /\ mem' = gmem
  BY DEF CompleteTask
<1>2. Turns(s, FALSE) /\ det'[s].active = 0 /\ det'[s].latest = det[s].latest
  BY <1>1, QuitTurns
<1>3. count \in Counts /\ count.gens \in Nat /\ count.events \in Nat
  BY DEF LogOK, Counts
<1>4. c \in Counts /\ c.gens = count.gens /\ c.events = count.events + 1
  BY <1>3 DEF Counts
<1>5. count' \in Counts /\ count'.gens = count.gens /\ count'.events = count.events + 1
  <2> HIDE DEF c
  <2>1. /\ Faulted(c, og) \in Counts
        /\ Faulted(c, og).gens = c.gens /\ Faulted(c, og).events = c.events
    BY <1>4, FaultedOf
  <2> DEFINE d == Faulted(c, og)
  <2> HIDE DEF d
  <2>2. /\ Faulted(d, oe) \in Counts
        /\ Faulted(d, oe).gens = d.gens /\ Faulted(d, oe).events = d.events
    BY <2>1, FaultedOf DEF d
  <2> QED
    BY <1>1, <1>4, <2>1, <2>2 DEF d
<1>6. StoreOK(file, count') /\ StoreOK(mem, count')
  <2>1. count.events <= count'.events /\ count.gens <= count'.gens
    BY <1>3, <1>5
  <2> QED
    BY <1>3, <1>5, <2>1, StoreGrows DEF LogOK
<1>7. g \in 1..count'.gens /\ n \in Nat \ {0} /\ n = mem.last + 1 /\ mem.last \in Nat
  <2>1. g \in DOMAIN mem.gens /\ DOMAIN mem.gens \subseteq 1..count'.gens
    BY <1>5 DEF LogOK, DetOK, StoreOK
  <2>2. mem.last \in Nat
    BY DEF LogOK, StoreOK, IsStore
  <2> QED
    BY <2>1, <2>2 DEF NextSequence
<1>8. e \in Entry(count')
  <2>1. count.events + 1 \in 1..count'.events /\ g \in 0..count'.gens
    BY <1>3, <1>5, <1>7
  <2> QED
    BY <2>1 DEF Entry
<1> HIDE DEF g, e, n, c
<1>9. StoreOK(gmem, count') /\ gmem.last = mem.last /\ DOMAIN gmem.gens = DOMAIN mem.gens \cup {g}
  BY <1>6, <1>7, GenerationFits
<1>10. StoreOK(gfile, count')
  <2>1. StoreOK(Apply(file, r), count')
    BY <1>6, <1>7, GenerationFits
  <2> HIDE DEF r
  <2> QED
    BY <1>6, <2>1, WriteFits
<1> HIDE DEF gfile, gmem, r
<1> DEFINE er == EventRecord(n, e)
<1>11. StoreOK(Apply(gfile, er), count')
  BY <1>7, <1>8, <1>10, EventFits
<1>12. /\ StoreOK(Apply(gmem, er), count') /\ Apply(gmem, er).last = Bigger(gmem.last, n)
       /\ Apply(gmem, er).gens = gmem.gens
  BY <1>7, <1>8, <1>9, EventFits
<1>13. "ok" \in Outcomes
  BY NotificationsAssumption
<1>14. StoreOK(Write(gfile, er, "ok"), count') /\ StoreOK(Write(gfile, er, oe), count')
  <2> HIDE DEF er
  <2> QED
    BY <1>10, <1>11, <1>13, WriteFits
<1>15. /\ StoreOK(file', count') /\ StoreOK(mem', count')
       /\ mem'.last = IF oe = "ok" THEN mem.last + 1 ELSE mem.last
       /\ DOMAIN mem.gens \subseteq DOMAIN mem'.gens
  <2>1. CASE oe = "ok"
    <3> DEFINE f == Write(gfile, er, "ok")
    <3> DEFINE m == Apply(gmem, er)
    <3>1. AddEvent(gfile, gmem, n, e) = MaybeCompact(f, m)
      BY DEF AddEvent
    <3>2. StoreOK(f, count') /\ StoreOK(m, count')
      BY <1>12, <1>14
    <3> HIDE DEF f, m
    <3>3. /\ StoreOK(MaybeCompact(f, m).file, count') /\ StoreOK(MaybeCompact(f, m).mem, count')
          /\ MaybeCompact(f, m).mem.last = m.last /\ MaybeCompact(f, m).mem.gens = m.gens
      BY <3>2, CompactFits
    <3>4. m.last = mem.last + 1
      BY <1>7, <1>9, <1>12 DEF m, Bigger
    <3>5. m.gens = gmem.gens
      BY <1>12 DEF m
    <3> QED
      BY <1>1, <1>9, <2>1, <3>1, <3>3, <3>4, <3>5
  <2>2. CASE oe # "ok"
    BY <1>1, <1>9, <1>14, <2>2
  <2> QED
    BY <2>1, <2>2
<1>16. DetOK(det', mem', count')
  BY <1>2, <1>5, <1>15 DEF LogOK, DetOK, Turns
<1>17. Engaged(det')
  BY <1>2 DEF LogOK, Engaged, Turns
<1> QED
  BY <1>5, <1>15, <1>16, <1>17 DEF LogOK

LEMMA AckTaken ==
    ASSUME LogOK, HubAck, up # <<>> /\ Head(up).k = "ack" => Head(up).through \in Nat
    PROVE  LogSteps
<1> DEFINE n == Head(up).through
<1>1. CASE UNCHANGED <<file, mem, count>>
  BY <1>1 DEF HubAck, LogSteps, LogOK
<1>2. ASSUME NEW o \in Outcomes, count' = Faulted(count, o), file' = Write(file, AckRecord(n), o),
             mem' = IF o = "ok" THEN [mem EXCEPT !.ack = n] ELSE mem
      PROVE  LogSteps
  <2>1. n \in Nat /\ det' = det
    BY DEF HubAck
  <2> HIDE DEF n
  <2>2. count' \in Counts /\ count'.gens = count.gens /\ count'.events = count.events
    BY <1>2, FaultedOf DEF LogOK
  <2>3. StoreOK(file, count') /\ StoreOK(mem, count')
    <3>1. count \in Counts /\ count.events <= count'.events /\ count.gens <= count'.gens
      BY <2>2 DEF LogOK, Counts
    <3> QED
      BY <2>2, <3>1, StoreGrows DEF LogOK
  <2>4. StoreOK(file', count')
    <3>1. StoreOK(Apply(file, AckRecord(n)), count')
      BY <2>1, <2>3, AckFits
    <3> QED
      BY <1>2, <2>3, <3>1, WriteFits
  <2> DEFINE new == [mem EXCEPT !.ack = n]
  <2>5. /\ new.events = mem.events /\ new.last = mem.last /\ new.torn = mem.torn
        /\ new.gens = mem.gens /\ new.ack = n /\ new.tombs = mem.tombs
        /\ new = [events |-> new.events, gens |-> new.gens, ack |-> new.ack, tombs |-> new.tombs,
                  last |-> new.last, torn |-> new.torn]
    BY <2>3 DEF StoreOK, IsStore
  <2> HIDE DEF new
  <2>6. StoreOK(new, count')
    BY <2>1, <2>3, <2>5 DEF StoreOK, IsStore
  <2>7. mem' = new \/ mem' = mem
    BY <1>2 DEF new
  <2>8. StoreOK(mem', count') /\ mem'.last = mem.last /\ mem'.gens = mem.gens
    BY <2>3, <2>5, <2>6, <2>7
  <2>9. DetOK(det', mem', count') /\ Engaged(det')
    BY <2>1, <2>2, <2>8 DEF LogOK, DetOK
  <2> QED
    BY <2>2, <2>4, <2>8, <2>9 DEF LogSteps, LogOK
<1> QED
  BY <1>1, <1>2 DEF HubAck

LEMMA BootFits ==
    ASSUME NEW c \in Counts, NEW f, StoreOK(f, c), NEW aged, Boot(f, aged), count' = c
    PROVE  LogOK'
<1>1. StoreOK(file', c) /\ StoreOK(mem', c) /\ det' = Restored(mem')
  BY LoadFits DEF Boot
<1>2. ASSUME NEW s \in Sources
      PROVE  /\ det'[s].active \in DOMAIN mem'.gens \cup {0} /\ det'[s].latest \in 0..c.gens
             /\ det'[s].streaming = FALSE
  <2>1. Restored(mem')[s].active \in DOMAIN mem'.gens \cup {0} /\ Restored(mem')[s].latest \in 0..c.gens
    BY <1>1, RestoredOf
  <2>2. Restored(mem')[s].streaming = FALSE
    BY DEF Restored
  <2> QED
    BY <1>1, <2>1, <2>2
<1>3. DetOK(det', mem', c)
  BY <1>2 DEF DetOK
<1>4. Engaged(det')
  BY <1>2 DEF Engaged
<1> QED
  BY <1>1, <1>3, <1>4 DEF LogOK

-----------------------------------------------------------------------------
(* What travels between the hub and the phone.                             *)

Notice == [id : Nat, gen : Nat, source : Sources]
Batches == UNION {[S -> Notice] : S \in SUBSET Nat}

Frames ==
    [k : {"events"}, from : Nat \cup {-1}, hasMore : BOOLEAN, events : Batches, skipped : SUBSET Nat]
      \cup [k : {"ready", "resync"}] \cup [k : {"expired"}, oldest : Nat]

Asks ==
    [k : {"subscribe"}, cursor : Nat \cup {-1}, window : Nat]
      \cup [k : {"next_page"}] \cup [k : {"ack"}, through : Nat]

Phones ==
    [cursor : Nat \cup {-1}, through : Nat, got : SUBSET Nat, shown : SUBSET Nat, window : Nat]

Subs ==
    [delivered : Nat, tip : Nat, buffer : Batches, overflowed : BOOLEAN, ready : BOOLEAN, window : Nat]

\* The numbers a frame tells the phone about one by one, and all it tells it about.
Numbers(f) == IF f.k = "events" THEN DOMAIN f.events \cup f.skipped ELSE {}
Tells(f, n) == f.k = "events" /\ (n <= f.from \/ n \in Numbers(f))

\* A subscription knows how the stream stood when it began; until it is ready, its
\* buffer has every number since, or it has overflowed.
SubOK(sb, last) ==
    \/ sb = NoSub
    \/ /\ sb \in Subs /\ sb.tip <= last
       /\ DOMAIN sb.buffer \subseteq (sb.tip + 1)..last
       /\ Cardinality(DOMAIN sb.buffer) <= BufferLimit
       /\ ~sb.ready /\ ~sb.overflowed => (sb.tip + 1)..last \subseteq DOMAIN sb.buffer
       /\ sb.ready => ~sb.overflowed /\ sb.delivered >= last /\ DOMAIN sb.buffer = {}

\* The phone has a number, or a frame under way tells it.
Reaches(n, d, p) == n <= p.through \/ n \in p.got \/ \E f \in ToSet(d) : Tells(f, n)

\* The phone has asked to start again, or is about to.
Renews(u, d) == (\E a \in ToSet(u) : a.k = "subscribe") \/ (\E f \in ToSet(d) : f.k = "expired")

Told(last, sb, cn, u, d, p) ==
    cn /\ sb # NoSub /\ sb.ready /\ ~Renews(u, d) => \A n \in 1..last : Reaches(n, d, p)

PhoneOK(last, cn, p) ==
    /\ p \in Phones /\ p.through + 1 \notin p.got /\ \A n \in p.got : n > p.through
    /\ cn => \A n \in p.got : n <= last

DownOK(last, d) == d \in Seq(Frames) /\ \A f \in ToSet(d) : \A n \in Numbers(f) : n <= last

ChannelsOK(last, sb, cn, u, d, p) ==
    /\ SubOK(sb, last) /\ PhoneOK(last, cn, p)
    /\ u \in Seq(Asks) /\ DownOK(last, d)
    /\ cn \in BOOLEAN /\ (~cn => u = <<>> /\ d = <<>>)
    /\ Told(last, sb, cn, u, d, p)

LEMMA LowestOf ==
    ASSUME NEW S, S \subseteq Nat, S # {}
    PROVE  Lowest(S) \in S /\ \A m \in S : Lowest(S) <= m
<1> DEFINE R == OpToRel(<, Nat)
<1>1. \E x \in S : \A y \in S : ~(<<y, x>> \in R)
  <2>1. IsWellFoundedOn(R, Nat)
    BY NatLessThanWellFounded
  <2> HIDE DEF R
  <2> QED
    BY <2>1, WFMin
<1>2. \A x, y \in Nat : y < x => <<y, x>> \in R
  BY DEF OpToRel
<1> HIDE DEF R
<1>3. PICK k \in S : \A y \in S : ~(<<y, k>> \in R)
  BY <1>1
<1>4. \A y \in S : k <= y
  <2> SUFFICES ASSUME NEW y \in S PROVE k <= y
    OBVIOUS
  <2>1. k \in Nat /\ y \in Nat /\ (y < k => <<y, k>> \in R)
    BY <1>2
  <2>2. ~(<<y, k>> \in R)
    BY <1>3
  <2> QED
    BY <2>1, <2>2
<1> QED
  BY <1>4 DEF Lowest

\* The end of an unbroken run exists, because there is a last number.
LEMMA ContiguousOf ==
    ASSUME NEW n \in Nat, NEW S, S \subseteq Nat, NEW b \in Nat, \A x \in S : x <= b
    PROVE  LET m == Contiguous(n, S)
           IN  m \in Nat /\ m >= n /\ m \in {n} \cup S /\ (n + 1)..m \subseteq S /\ m + 1 \notin S
<1> DEFINE U == {k \in Nat : k >= n /\ k + 1 \notin S}
<1>1. U \subseteq Nat /\ U # {}
  <2> DEFINE t == IF b > n THEN b ELSE n
  <2>1. t \in Nat /\ t >= n /\ t >= b
    OBVIOUS
  <2>2. t + 1 \notin S
    BY <2>1
  <2> HIDE DEF t
  <2> QED
    BY <2>1, <2>2
<1> DEFINE m == Lowest(U)
<1>2. m \in U /\ \A k \in U : m <= k
  <2> HIDE DEF U
  <2> QED
    BY <1>1, LowestOf
<1> HIDE DEF m
<1>3. m \in Nat /\ m >= n /\ m + 1 \notin S
  BY <1>2
<1>4. ASSUME NEW x \in (n + 1)..m PROVE x \in S
  <2>1. x - 1 \in Nat /\ x - 1 >= n /\ x - 1 < m /\ x = (x - 1) + 1
    BY <1>3
  <2>2. x - 1 \notin U
    BY <1>2, <2>1
  <2> QED
    BY <2>1, <2>2
<1>5. m \in {n} \cup S
  <2>1. CASE m = n
    BY <2>1
  <2>2. CASE m # n
    BY <1>3, <1>4, <2>2
  <2> QED
    BY <2>1, <2>2
<1>6. \E x \in {n} \cup S : x >= n /\ (n + 1)..x \subseteq S /\ x + 1 \notin S
  BY <1>3, <1>4, <1>5
<1> QED
  BY <1>6 DEF Contiguous

LEMMA AppendedSet ==
    ASSUME NEW S, NEW d \in Seq(S), NEW x \in S
    PROVE  Append(d, x) \in Seq(S) /\ ToSet(Append(d, x)) = ToSet(d) \cup {x}
<1> DEFINE q == Append(d, x)
<1>1. q \in Seq(S) /\ Len(q) = Len(d) + 1 /\ q[Len(d) + 1] = x /\ \A i \in 1..Len(d) : q[i] = d[i]
  BY AppendProperties
<1> HIDE DEF q
<1>2. DOMAIN q = 1..Len(q) /\ DOMAIN d = 1..Len(d) /\ Len(d) \in Nat
  BY <1>1, LenProperties
<1> QED
  BY <1>1, <1>2 DEF ToSet, q

LEMMA TakenSet ==
    ASSUME NEW S, NEW d \in Seq(S), d # <<>>
    PROVE  Tail(d) \in Seq(S) /\ Head(d) \in S /\ ToSet(d) = {Head(d)} \cup ToSet(Tail(d))
<1> DEFINE q == Tail(d)
<1>1. /\ q \in Seq(S) /\ Head(d) \in S /\ Len(q) = Len(d) - 1 /\ \A i \in 1..Len(q) : q[i] = d[i + 1]
  BY HeadTailProperties
<1>3. Head(d) = d[1]
  OBVIOUS
<1> HIDE DEF q
<1>2. DOMAIN q = 1..Len(q) /\ DOMAIN d = 1..Len(d) /\ Len(d) \in Nat \ {0}
  BY <1>1, LenProperties, EmptySeq
<1>4. ToSet(d) \subseteq {Head(d)} \cup ToSet(q)
  <2> SUFFICES ASSUME NEW i \in 1..Len(d) PROVE d[i] = Head(d) \/ \E j \in 1..Len(q) : d[i] = q[j]
    BY <1>2 DEF ToSet
  <2>1. i # 1 => i - 1 \in 1..Len(q) /\ q[i - 1] = d[i]
    BY <1>1, <1>2
  <2> QED
    BY <1>3, <2>1
<1>5. {Head(d)} \cup ToSet(q) \subseteq ToSet(d)
  BY <1>1, <1>2, <1>3, SMTT(90) DEF ToSet
<1> QED
  BY <1>1, <1>4, <1>5 DEF q

LEMMA JoinedSet ==
    ASSUME NEW S, NEW d \in Seq(S), NEW e \in Seq(S)
    PROVE  d \o e \in Seq(S) /\ ToSet(d \o e) = ToSet(d) \cup ToSet(e)
<1> DEFINE q == d \o e
<1>1. /\ q \in Seq(S) /\ Len(q) = Len(d) + Len(e)
      /\ \A i \in 1..Len(d) + Len(e) : q[i] = IF i <= Len(d) THEN d[i] ELSE e[i - Len(d)]
  BY ConcatProperties
<1> HIDE DEF q
<1>2. /\ DOMAIN q = 1..Len(q) /\ DOMAIN d = 1..Len(d) /\ DOMAIN e = 1..Len(e)
      /\ Len(d) \in Nat /\ Len(e) \in Nat
  BY <1>1, LenProperties
<1>3. ToSet(q) \subseteq ToSet(d) \cup ToSet(e)
  <2> SUFFICES ASSUME NEW i \in 1..Len(q)
               PROVE  (\E j \in 1..Len(d) : q[i] = d[j]) \/ \E j \in 1..Len(e) : q[i] = e[j]
    BY <1>2 DEF ToSet
  <2>1. CASE i <= Len(d)
    BY <1>1, <1>2, <2>1
  <2>2. CASE ~(i <= Len(d))
    <3>1. i - Len(d) \in 1..Len(e) /\ q[i] = e[i - Len(d)]
      BY <1>1, <1>2, <2>2
    <3> QED
      BY <3>1
  <2> QED
    BY <2>1, <2>2
<1>4. ToSet(d) \subseteq ToSet(q)
  BY <1>1, <1>2 DEF ToSet
<1>5. ToSet(e) \subseteq ToSet(q)
  <2> SUFFICES ASSUME NEW j \in 1..Len(e) PROVE \E i \in 1..Len(q) : q[i] = e[j]
    BY <1>2 DEF ToSet
  <2>1. Len(d) + j \in 1..Len(q) /\ q[Len(d) + j] = e[j]
    BY <1>1, <1>2, SMTT(90)
  <2> QED
    BY <2>1
<1> QED
  BY <1>1, <1>3, <1>4, <1>5 DEF q

LEMMA PairSet ==
    ASSUME NEW S, NEW x \in S, NEW y \in S
    PROVE  <<x, y>> \in Seq(S) /\ ToSet(<<x, y>>) = {x, y}
BY DEF ToSet

LEMMA TripleSet ==
    ASSUME NEW S, NEW x \in S, NEW y \in S, NEW z \in S
    PROVE  <<x, y, z>> \in Seq(S) /\ ToSet(<<x, y, z>>) = {x, y, z}
BY DEF ToSet

\* A page ends where it began, or somewhere up to the tip.
LEMMA PageEndOf ==
    ASSUME NEW st \in Subs
    PROVE  /\ PageEnd(st) \in Nat /\ PageEnd(st) >= st.delivered
           /\ PageEnd(st) > st.delivered => PageEnd(st) <= st.tip
<1> DEFINE F == {n \in (st.delivered + 1)..st.tip :
                   Cardinality({m \in (st.delivered + 1)..n : ~Passed(st, m)}) = PageLimit}
<1>1. st.delivered \in Nat /\ st.tip \in Nat
  BY DEF Subs
<1>2. PageEnd(st) = IF F # {} THEN Lowest(F) ELSE Bigger(st.delivered, st.tip)
  BY DEF PageEnd, Lowest
<1>3. F \subseteq (st.delivered + 1)..st.tip
  OBVIOUS
<1> HIDE DEF F
<1>4. CASE F # {}
  <2>1. F \subseteq Nat
    BY <1>1, <1>3
  <2>2. Lowest(F) \in F
    BY <1>4, <2>1, LowestOf
  <2>3. PageEnd(st) = Lowest(F) /\ Lowest(F) \in (st.delivered + 1)..st.tip
    BY <1>2, <1>3, <1>4, <2>2
  <2> QED
    BY <1>1, <2>3
<1>5. CASE F = {}
  BY <1>1, <1>2, <1>5 DEF Bigger
<1> QED
  BY <1>4, <1>5

LEMMA EventsFrame ==
    ASSUME NEW a \in Nat \cup {-1}, NEW b \in BOOLEAN, NEW e \in Batches, NEW g \in SUBSET Nat
    PROVE  [k |-> "events", from |-> a, hasMore |-> b, skipped |-> g, events |-> e] \in Frames
BY DEF Frames

\* A page tells every number up to its end, and none beyond the tip.
LEMMA PageOf ==
    ASSUME StoreOK(mem, count), count \in Counts, NEW st \in Subs
    PROVE  LET page == Page(st)
           IN  /\ page \in Frames /\ page.k = "events" /\ page.from = st.delivered
               /\ page.hasMore = (PageEnd(st) < st.tip)
               /\ Numbers(page) = (st.delivered + 1)..PageEnd(st)
<1> DEFINE W == (st.delivered + 1)..PageEnd(st)
<1> DEFINE G == {n \in W : Passed(st, n)}
<1> DEFINE ev == [n \in W \ G |-> mem.events[n]]
<1> DEFINE more == PageEnd(st) < st.tip
<1>1. Page(st) = [k |-> "events", from |-> st.delivered, hasMore |-> more, skipped |-> G, events |-> ev]
  BY DEF Page
<1>2. st.delivered \in Nat /\ st.tip \in Nat /\ PageEnd(st) \in Nat
  BY PageEndOf DEF Subs
<1>3. W \subseteq Nat /\ G \subseteq W /\ more \in BOOLEAN
  BY <1>2
<1>4. ASSUME NEW n \in W \ G PROVE mem.events[n] \in Notice
  <2>1. n \in DOMAIN mem.events
    BY DEF Passed
  <2>2. mem.events[n] \in Entry(count) /\ count.events \in Nat /\ count.gens \in Nat
    BY <2>1 DEF StoreOK, Counts
  <2>3. Entry(count) \subseteq Notice
    BY <2>2 DEF Entry, Notice
  <2> QED
    BY <2>2, <2>3
<1>5. ev \in [W \ G -> Notice] /\ DOMAIN ev = W \ G
  BY <1>4
<1>6. ev \in Batches
  <2> HIDE DEF ev, W, G
  <2> QED
    BY <1>3, <1>5 DEF Batches
<1> DEFINE page == Page(st)
<1> HIDE DEF W, G, ev, more
<1>7. /\ page.k = "events" /\ page.from = st.delivered /\ page.hasMore = more
      /\ page.skipped = G /\ page.events = ev
  BY <1>1
<1>9. page \in Frames
  <2>1. st.delivered \in Nat \cup {-1} /\ G \in SUBSET Nat /\ more \in BOOLEAN
    BY <1>2, <1>3
  <2> QED
    BY <1>1, <1>6, <2>1, EventsFrame
<1>8. Numbers(page) = W
  BY <1>3, <1>5, <1>7 DEF Numbers
<1> QED
  BY <1>7, <1>8, <1>9 DEF W, more

LEMMA DrainedOf ==
    ASSUME NEW st \in Subs
    PROVE  /\ Drained(st) \in Frames /\ Drained(st).k = "events" /\ Drained(st).hasMore = FALSE
           /\ Numbers(Drained(st)) = {n \in DOMAIN st.buffer : n > st.delivered}
           /\ DOMAIN Drained(st).events \cup Drained(st).skipped
                = {n \in DOMAIN st.buffer : n > st.delivered}
<1> DEFINE fresh == {n \in DOMAIN st.buffer : n > st.delivered}
<1> DEFINE stale == {n \in fresh : Stale(det, st.buffer[n])}
<1> DEFINE ev == [n \in fresh \ stale |-> st.buffer[n]]
<1> DEFINE live == Drained(st)
<1>1. live = [k |-> "events", from |-> -1, hasMore |-> FALSE, events |-> ev, skipped |-> stale]
  BY DEF Drained, LiveFrame
<1>2. PICK S \in SUBSET Nat : st.buffer \in [S -> Notice]
  BY DEF Subs, Batches
<1>3. fresh \subseteq Nat /\ stale \subseteq fresh
  BY <1>2
<1>4. ev \in [fresh \ stale -> Notice] /\ DOMAIN ev = fresh \ stale
  BY <1>2
<1>5. ev \in Batches
  <2> HIDE DEF ev, fresh, stale
  <2> QED
    BY <1>3, <1>4 DEF Batches
<1> HIDE DEF fresh, stale, ev, live
<1>6. /\ live.k = "events" /\ live.from = -1 /\ live.hasMore = FALSE
      /\ live.skipped = stale /\ live.events = ev /\ live \in Frames
  BY <1>1, <1>3, <1>5 DEF Frames
<1>7. DOMAIN live.events \cup live.skipped = fresh
  BY <1>3, <1>4, <1>6
<1> QED
  BY <1>6, <1>7 DEF live, fresh, Numbers

\* What a page does to a subscription and to the frames under way. A subscription that
\* is ready afterwards has told every number: those up to its start, those of its last
\* page, and those of the buffer, which begins where the pages end.
LEMMA ServePageOf ==
    ASSUME LogOK, NEW st \in Subs, SubOK(st, mem.last), DownOK(mem.last, down), ServePage(st)
    PROVE  /\ sub' \in Subs /\ SubOK(sub', mem.last) /\ DownOK(mem.last, down')
           /\ ToSet(down) \subseteq ToSet(down')
           /\ \A f \in ToSet(down') : f.k = "expired" => f \in ToSet(down)
           /\ sub'.ready => \A n \in 1..mem.last : \E f \in ToSet(down') : Tells(f, n)
<1> DEFINE L == mem.last
<1>1. L \in Nat /\ StoreOK(mem, count) /\ count \in Counts
  BY DEF LogOK, StoreOK, IsStore
<1>2. down \in Seq(Frames) /\ \A f \in ToSet(down) : \A n \in Numbers(f) : n <= L
  BY DEF DownOK
<1>s. st # NoSub
  <2>1. st.delivered # -1
    BY DEF Subs
  <2> QED
    BY <2>1 DEF NoSub
<1>3. /\ st.tip <= L /\ DOMAIN st.buffer \subseteq (st.tip + 1)..L
      /\ ~st.ready /\ ~st.overflowed => (st.tip + 1)..L \subseteq DOMAIN st.buffer
      /\ st.ready => ~st.overflowed /\ st.delivered >= L /\ DOMAIN st.buffer = {}
      /\ Cardinality(DOMAIN st.buffer) <= BufferLimit
      /\ st.delivered \in Nat /\ st.tip \in Nat /\ st.ready \in BOOLEAN /\ st.overflowed \in BOOLEAN
  BY <1>s DEF SubOK, Subs
<1> HIDE DEF L
<1>4. CASE st.overflowed
  <2> DEFINE r == [k |-> "resync"]
  <2>1. sub' = st /\ down' = Append(down, r)
    BY <1>4 DEF ServePage
  <2>2. r \in Frames /\ r.k = "resync" /\ Numbers(r) = {}
    BY DEF Frames, Numbers
  <2> HIDE DEF r
  <2>3. down' \in Seq(Frames) /\ ToSet(down') = ToSet(down) \cup {r}
    BY <1>2, <2>1, <2>2, AppendedSet
  <2> QED
    BY <1>2, <1>3, <1>4, <2>1, <2>2, <2>3 DEF DownOK, L
<1>5. CASE ~st.overflowed
  <2> DEFINE page  == Page(st)
  <2> DEFINE paged == [st EXCEPT !.delivered = PageEnd(st)]
  <2> DEFINE live  == Drained(paged)
  <2> DEFINE seqs  == DOMAIN live.events \cup live.skipped
  <2>1. /\ PageEnd(st) \in Nat /\ PageEnd(st) >= st.delivered
        /\ PageEnd(st) > st.delivered => PageEnd(st) <= st.tip
    BY PageEndOf
  <2>2. /\ page \in Frames /\ page.k = "events" /\ page.from = st.delivered
        /\ page.hasMore = (PageEnd(st) < st.tip)
        /\ Numbers(page) = (st.delivered + 1)..PageEnd(st)
    BY <1>1, PageOf
  <2>3. /\ paged \in Subs /\ paged.delivered = PageEnd(st) /\ paged.buffer = st.buffer
        /\ paged.tip = st.tip /\ paged.ready = st.ready /\ paged.overflowed = st.overflowed
    BY <2>1 DEF Subs
  <2>4. IF page.hasMore
        THEN sub' = paged /\ down' = Append(down, page)
        ELSE /\ sub' = [paged EXCEPT !.buffer = NoEvents, !.ready = TRUE,
                                     !.delivered = Bigger(@, Highest(seqs))]
             /\ down' = down \o (IF seqs = {} THEN <<page, Ready>> ELSE <<page, live, Ready>>)
    BY <1>5 DEF ServePage
  <2> HIDE DEF page, paged
  <2>5. /\ live \in Frames /\ live.k = "events"
        /\ Numbers(live) = seqs /\ seqs = {n \in DOMAIN st.buffer : n > PageEnd(st)}
    BY <2>3, DrainedOf
  <2> HIDE DEF live, seqs
  <2>6. Ready \in Frames /\ Numbers(Ready) = {} /\ Ready.k = "ready"
    BY DEF Frames, Ready, Numbers
  <2>7. \A n \in Numbers(page) : n <= L
    BY <1>1, <1>3, <2>1, <2>2
  <2>8. CASE page.hasMore
    <3>1. sub' = paged /\ down' \in Seq(Frames) /\ ToSet(down') = ToSet(down) \cup {page}
      <4>1. sub' = paged /\ down' = Append(down, page)
        BY <2>4, <2>8
      <4>2. Append(down, page) \in Seq(Frames) /\ ToSet(Append(down, page)) = ToSet(down) \cup {page}
        BY <1>2, <2>2, AppendedSet
      <4> QED
        BY <4>1, <4>2
    <3>2. ~st.ready
      BY <1>1, <1>3, <2>1, <2>2, <2>8
    <3>3. SubOK(paged, L)
      BY <1>3, <2>3, <3>2 DEF SubOK
    <3> QED
      BY <1>2, <2>2, <2>3, <2>7, <3>1, <3>2, <3>3 DEF DownOK, L
  <2>9. CASE ~page.hasMore
    <3>1. /\ seqs \subseteq Nat /\ \A n \in seqs : n <= L
      BY <1>1, <1>3, <2>5
    <3> DEFINE top == Bigger(paged.delivered, Highest(seqs))
    <3>2. Highest(seqs) \in seqs \cup {0} /\ \A n \in seqs : n <= Highest(seqs)
      BY <1>1, <3>1, HighestOf
    <3>3. PageEnd(st) >= st.tip
      <4>1. ~(PageEnd(st) < st.tip)
        BY <2>2, <2>9, Zenon
      <4> QED
        BY <1>3, <2>1, <4>1
    <3>4. ASSUME NEW n \in 1..L, n > PageEnd(st) PROVE n \in seqs
      <4>1. n \in Nat /\ n > st.delivered /\ n \in (st.tip + 1)..L
        BY <1>1, <1>3, <2>1, <3>3, <3>4
      <4>2. ~st.ready
        BY <1>1, <1>3, <4>1
      <4> QED
        BY <1>3, <1>5, <2>5, <3>4, <4>1, <4>2
    <3>5. top \in Nat /\ top >= L
      <4>1. Highest(seqs) \in Nat /\ PageEnd(st) \in Nat /\ paged.delivered = PageEnd(st)
        <5>1. PageEnd(st) \in Nat /\ paged.delivered = PageEnd(st)
          BY <2>1, <2>3
        <5>2. Highest(seqs) \in Nat
          <6>1. Highest(seqs) \in seqs \cup {0} /\ seqs \subseteq Nat
            BY <3>1, <3>2
          <6>2. 0 \in Nat
            OBVIOUS
          <6> QED
            BY <6>1, <6>2, Zenon
        <5> QED
          BY <5>1, <5>2
      <4>2. top \in Nat /\ top >= PageEnd(st) /\ top >= Highest(seqs)
        BY <4>1 DEF Bigger
      <4>3. CASE L <= PageEnd(st)
        BY <1>1, <4>1, <4>2, <4>3
      <4>4. CASE L > PageEnd(st)
        <5>1. L \in seqs
          BY <1>1, <3>4, <4>1, <4>4
        <5> QED
          BY <1>1, <3>2, <4>1, <4>2, <5>1
      <4> QED
        BY <1>1, <4>1, <4>3, <4>4
    <3>6. sub' = [paged EXCEPT !.buffer = NoEvents, !.ready = TRUE, !.delivered = top]
      BY <2>4, <2>9 DEF Subs
    <3> HIDE DEF top
    <3>7. NoEvents \in Batches /\ DOMAIN NoEvents = {}
      <4>1. NoEvents \in [{} -> Notice] /\ {} \in SUBSET Nat
        BY DEF NoEvents
      <4> QED
        BY <4>1 DEF Batches
    <3>8. /\ sub' \in Subs /\ sub'.buffer = NoEvents /\ sub'.ready = TRUE /\ sub'.delivered = top
          /\ sub'.tip = st.tip /\ sub'.overflowed = st.overflowed
      BY <2>3, <3>5, <3>6, <3>7 DEF Subs
    <3>9. SubOK(sub', L)
      <4>1. Cardinality(DOMAIN sub'.buffer) <= BufferLimit
        BY <3>7, <3>8, FS_EmptySet, NotificationsAssumption
      <4>2. DOMAIN sub'.buffer = {}
        BY <3>7, <3>8
      <4> QED
        BY <1>3, <1>5, <3>5, <3>8, <4>1, <4>2 DEF SubOK
    <3>10. /\ down' \in Seq(Frames) /\ ToSet(down) \subseteq ToSet(down')
           /\ page \in ToSet(down') /\ (seqs # {} => live \in ToSet(down'))
           /\ ToSet(down') \subseteq ToSet(down) \cup {page, live, Ready}
      <4>1. CASE seqs = {}
        <5> DEFINE e == <<page, Ready>>
        <5>1. e \in Seq(Frames) /\ ToSet(e) = {page, Ready}
          BY <2>2, <2>6, PairSet
        <5>2. down' = down \o e
          BY <2>4, <2>9, <4>1
        <5> HIDE DEF e
        <5>3. down \o e \in Seq(Frames) /\ ToSet(down \o e) = ToSet(down) \cup ToSet(e)
          BY <1>2, <5>1, JoinedSet
        <5> QED
          BY <4>1, <5>1, <5>2, <5>3
      <4>2. CASE seqs # {}
        <5> DEFINE e == <<page, live, Ready>>
        <5>0. page \in Frames /\ live \in Frames /\ Ready \in Frames
          BY <2>2, <2>5, <2>6
        <5>1. e \in Seq(Frames) /\ ToSet(e) = {page, live, Ready}
          BY <5>0, TripleSet
        <5>2. down' = down \o e
          BY <2>4, <2>9, <4>2
        <5> HIDE DEF e
        <5>3. down \o e \in Seq(Frames) /\ ToSet(down \o e) = ToSet(down) \cup ToSet(e)
          BY <1>2, <5>1, JoinedSet
        <5> QED
          BY <5>1, <5>2, <5>3
      <4> QED
        BY <4>1, <4>2
    <3>11. ASSUME NEW n \in 1..L PROVE \E f \in ToSet(down') : Tells(f, n)
      <4>1. CASE n <= PageEnd(st)
        <5>1. n <= page.from \/ n \in Numbers(page)
          BY <1>3, <2>1, <2>2, <4>1
        <5> QED
          BY <2>2, <3>10, <5>1 DEF Tells
      <4>2. CASE n > PageEnd(st)
        <5>1. n \in seqs /\ n \in Numbers(live)
          BY <2>5, <3>4, <4>2
        <5> QED
          BY <2>5, <3>10, <5>1 DEF Tells
      <4> QED
        BY <1>1, <2>1, <4>1, <4>2
    <3>12. DownOK(L, down')
      BY <1>2, <2>5, <2>6, <2>7, <3>1, <3>10 DEF DownOK
    <3>13. \A f \in ToSet(down') : f.k = "expired" => f \in ToSet(down)
      BY <2>2, <2>5, <2>6, <3>10
    <3> QED
      BY <3>8, <3>9, <3>10, <3>11, <3>12, <3>13 DEF L
  <2> QED
    BY <2>8, <2>9
<1> QED
  BY <1>3, <1>4, <1>5

ChannelInv == ChannelsOK(mem.last, sub, conn, up, down, phone)

LEMMA ChannelsSame ==
    ASSUME ChannelInv, mem'.last = mem.last, UNCHANGED <<sub, conn, up, down, phone>>
    PROVE  ChannelInv'
BY DEF ChannelInv

LEMMA AckTakenOff ==
    ASSUME ChannelInv, HubAck, mem'.last = mem.last
    PROVE  ChannelInv'
<1>1. /\ up # <<>> /\ Head(up).k = "ack" /\ up' = Tail(up)
      /\ UNCHANGED <<sub, conn, down, phone>>
  BY DEF HubAck
<1>2. up \in Seq(Asks)
  BY DEF ChannelInv, ChannelsOK
<1>3. up' \in Seq(Asks) /\ ToSet(up) = {Head(up)} \cup ToSet(up')
  BY <1>1, <1>2, TakenSet
<1>4. Renews(up', down) <=> Renews(up, down)
  BY <1>1, <1>3 DEF Renews
<1>5. conn = TRUE
  BY <1>1 DEF ChannelInv, ChannelsOK
<1>6. ChannelsOK(mem.last, sub, conn, up', down, phone)
  BY <1>3, <1>4, <1>5 DEF ChannelInv, ChannelsOK, Told
<1> QED
  BY <1>1, <1>6 DEF ChannelInv

LEMMA ReachesMore ==
    ASSUME NEW d, NEW e, ToSet(d) \subseteq ToSet(e), NEW p, NEW n, Reaches(n, d, p)
    PROVE  Reaches(n, e, p)
BY DEF Reaches

LEMMA DownGrows ==
    ASSUME NEW l \in Nat, NEW m \in Nat, l <= m, NEW d, DownOK(l, d)
    PROVE  DownOK(m, d)
<1>1. d \in Seq(Frames) /\ ToSet(d) \subseteq Frames
  <2>1. d \in Seq(Frames)
    BY DEF DownOK
  <2>2. DOMAIN d = 1..Len(d) /\ \A i \in 1..Len(d) : d[i] \in Frames
    BY <2>1, LenProperties, ElementOfSeq
  <2> QED
    BY <2>1, <2>2 DEF ToSet
<1>2. ASSUME NEW f \in ToSet(d), NEW n \in Numbers(f) PROVE n <= m
  <2>1. n <= l
    BY <1>2 DEF DownOK
  <2>2. f \in Frames
    BY <1>1, <1>2
  <2>3. n \in Nat
    <3>1. f.k = "events" /\ n \in DOMAIN f.events \cup f.skipped
      BY <1>2 DEF Numbers
    <3>2. f \in [k : {"events"}, from : Nat \cup {-1}, hasMore : BOOLEAN, events : Batches,
                 skipped : SUBSET Nat]
      BY <2>2, <3>1 DEF Frames
    <3>3. f.events \in Batches /\ f.skipped \subseteq Nat
      BY <3>2
    <3>4. DOMAIN f.events \subseteq Nat
      BY <3>3 DEF Batches
    <3> QED
      BY <3>1, <3>3, <3>4
  <2> QED
    BY <2>1, <2>3
<1> QED
  BY <1>1, <1>2 DEF DownOK

LEMMA PhoneGrows ==
    ASSUME NEW l \in Nat, NEW m \in Nat, l <= m, NEW cn, NEW p, PhoneOK(l, cn, p)
    PROVE  PhoneOK(m, cn, p)
<1>1. ASSUME cn, NEW n \in p.got PROVE n <= m
  <2>1. n <= l /\ n \in Nat
    BY <1>1 DEF PhoneOK, Phones
  <2> QED
    BY <2>1
<1> QED
  BY <1>1 DEF PhoneOK

\* The event of a number just given out: sent, buffered, or found no room.
LEMMA Pushed ==
    ASSUME ChannelInv, mem.last \in Nat, mem'.last = mem.last + 1,
           NEW e \in Notice, Push(mem.last + 1, e), UNCHANGED <<conn, up, phone>>
    PROVE  ChannelInv'
<1> DEFINE L == mem.last
<1> DEFINE n == L + 1
<1>1. L \in Nat /\ n \in Nat /\ L <= n /\ n > L /\ mem'.last = n
  OBVIOUS
<1>2. /\ SubOK(sub, L) /\ PhoneOK(L, conn, phone)
      /\ up \in Seq(Asks) /\ DownOK(L, down)
      /\ conn \in BOOLEAN /\ (~conn => up = <<>> /\ down = <<>>)
      /\ Told(L, sub, conn, up, down, phone)
  BY DEF ChannelInv, ChannelsOK
<1>p. /\ (sub = NoSub => UNCHANGED <<sub, down>>)
      /\ (sub # NoSub /\ sub.ready => PushLive(n, e))
      /\ (sub # NoSub /\ ~sub.ready =>
            /\ sub' = IF Room THEN Buffered(n, e) ELSE [sub EXCEPT !.overflowed = TRUE]
            /\ UNCHANGED down)
  BY DEF Push
<1> HIDE DEF n, L
<1>3. PhoneOK(n, conn, phone) /\ DownOK(n, down)
  BY <1>1, <1>2, PhoneGrows, DownGrows
<1>4. CASE sub = NoSub
  <2>1. sub' = NoSub /\ down' = down
    BY <1>4, <1>p
  <2>2. ChannelsOK(n, sub', conn, up, down', phone)
    BY <1>2, <1>3, <2>1 DEF ChannelsOK, SubOK, Told
  <2> QED
    BY <1>1, <2>2 DEF ChannelInv
<1>5. CASE sub # NoSub /\ sub.ready
  <2> DEFINE f == LiveFrame([x \in {n} |-> e], {})
  <2>1. /\ sub' = [sub EXCEPT !.delivered = Bigger(@, n)]
        /\ down' = IF conn THEN Append(down, f) ELSE down
    BY <1>5, <1>p DEF PushLive
  <2>2. /\ sub \in Subs /\ sub.tip <= L /\ DOMAIN sub.buffer = {} /\ ~sub.overflowed
        /\ sub.delivered \in Nat /\ sub.tip \in Nat
        /\ Cardinality(DOMAIN sub.buffer) <= BufferLimit
    BY <1>2, <1>5 DEF SubOK, Subs
  <2>3. Bigger(sub.delivered, n) \in Nat /\ Bigger(sub.delivered, n) >= n
    BY <1>1, <2>2 DEF Bigger
  <2>4. /\ sub' \in Subs /\ sub'.delivered = Bigger(sub.delivered, n) /\ sub'.tip = sub.tip
        /\ sub'.buffer = sub.buffer /\ sub'.overflowed = sub.overflowed /\ sub'.ready = sub.ready
    BY <2>1, <2>2, <2>3 DEF Subs
  <2>5. SubOK(sub', n)
    BY <1>1, <1>5, <2>2, <2>3, <2>4 DEF SubOK
  <2>6. f \in Frames /\ f.k = "events" /\ Numbers(f) = {n}
    <3> DEFINE ev == [x \in {n} |-> e]
    <3>1. ev \in [{n} -> Notice] /\ {n} \in SUBSET Nat /\ DOMAIN ev = {n}
      BY <1>1
    <3>2. ev \in Batches
      BY <3>1 DEF Batches
    <3> HIDE DEF ev
    <3>3. f = [k |-> "events", from |-> -1, hasMore |-> FALSE, skipped |-> {}, events |-> ev]
      BY DEF LiveFrame, ev
    <3>4. f \in Frames
      <4>1. -1 \in Nat \cup {-1} /\ FALSE \in BOOLEAN /\ {} \in SUBSET Nat
        OBVIOUS
      <4> QED
        BY <3>2, <3>3, <4>1, EventsFrame
    <3>5. f.k = "events" /\ f.events = ev /\ f.skipped = {}
      BY <3>3
    <3> QED
      BY <3>1, <3>4, <3>5 DEF Numbers
  <2> HIDE DEF f
  <2>7. CASE ~conn
    <3>1. down' = down
      BY <2>1, <2>7
    <3>2. ChannelsOK(n, sub', conn, up, down', phone)
      BY <1>2, <1>3, <2>5, <2>7, <3>1 DEF ChannelsOK, Told
    <3> QED
      BY <1>1, <3>2 DEF ChannelInv
  <2>8. CASE conn
    <3>0. down \in Seq(Frames)
      BY <1>2 DEF DownOK
    <3>1. down' \in Seq(Frames) /\ ToSet(down') = ToSet(down) \cup {f}
      BY <2>1, <2>6, <2>8, <3>0, AppendedSet
    <3>2. DownOK(n, down')
      BY <1>1, <1>3, <2>6, <3>1 DEF DownOK
    <3>3. Told(n, sub', conn, up, down', phone)
      <4> SUFFICES ASSUME ~Renews(up, down'), NEW m \in 1..n PROVE Reaches(m, down', phone)
        BY DEF Told
      <4>1. ~Renews(up, down)
        BY <3>1 DEF Renews
      <4>2. CASE m = n
        BY <2>6, <3>1, <4>2 DEF Reaches, Tells
      <4>3. CASE m # n
        <5>1. m \in 1..L
          BY <1>1, <4>3 DEF n
        <5>2. Reaches(m, down, phone)
          BY <1>2, <1>5, <2>8, <4>1, <5>1 DEF Told
        <5> QED
          BY <3>1, <5>2, ReachesMore
      <4> QED
        BY <4>2, <4>3
    <3>4. ChannelsOK(n, sub', conn, up, down', phone)
      BY <1>2, <1>3, <2>5, <2>8, <3>2, <3>3 DEF ChannelsOK
    <3> QED
      BY <1>1, <3>4 DEF ChannelInv
  <2> QED
    BY <2>7, <2>8
<1>6. CASE sub # NoSub /\ ~sub.ready
  <2>1. /\ sub' = IF Room THEN [sub EXCEPT !.buffer = Put(sub.buffer, n, e)]
                          ELSE [sub EXCEPT !.overflowed = TRUE]
        /\ down' = down
    BY <1>6, <1>p DEF Buffered
  <2>2. /\ sub \in Subs /\ sub.tip <= L /\ DOMAIN sub.buffer \subseteq (sub.tip + 1)..L
        /\ sub.delivered \in Nat /\ sub.tip \in Nat /\ sub.buffer \in Batches
        /\ Cardinality(DOMAIN sub.buffer) <= BufferLimit
        /\ ~sub.overflowed => (sub.tip + 1)..L \subseteq DOMAIN sub.buffer
        /\ sub.overflowed \in BOOLEAN
    BY <1>2, <1>6 DEF SubOK, Subs
  <2>3. SubOK(sub', n) /\ ~sub'.ready
    <3>1. CASE Room
      <4> DEFINE b == Put(sub.buffer, n, e)
      <4> DEFINE D == DOMAIN sub.buffer
      <4>1. b \in Batches /\ DOMAIN b = D \cup {n}
        <5>1. PICK S \in SUBSET Nat : sub.buffer \in [S -> Notice]
          BY <2>2 DEF Batches
        <5>2. b \in [S \cup {n} -> Notice] /\ S \cup {n} \in SUBSET Nat
          BY <1>1, <5>1 DEF Put
        <5> QED
          BY <5>1, <5>2 DEF Batches
      <4> HIDE DEF b
      <4>2. Cardinality(D \cup {n}) <= BufferLimit
        <5>1. IsFiniteSet((sub.tip + 1)..L)
          BY <1>1, <2>2, FS_Interval
        <5>2. IsFiniteSet(D) /\ n \notin D
          BY <1>1, <2>2, <5>1, FS_Subset
        <5>3. Cardinality(D \cup {n}) = Cardinality(D) + 1 /\ Cardinality(D) \in Nat
          BY <5>2, FS_AddElement, FS_CardinalityType
        <5>4. Cardinality(D) < BufferLimit /\ BufferLimit \in Nat
          BY <3>1, NotificationsAssumption DEF Room
        <5> QED
          BY <5>3, <5>4
      <4>3. /\ sub' \in Subs /\ sub'.buffer = b /\ sub'.tip = sub.tip /\ sub'.ready = sub.ready
            /\ sub'.overflowed = sub.overflowed
        BY <2>1, <2>2, <3>1, <4>1 DEF Subs, b
      <4>4. D \cup {n} \subseteq (sub.tip + 1)..n
        BY <1>1, <2>2
      <4>5. ~sub.overflowed => (sub.tip + 1)..n \subseteq D \cup {n}
        <5> SUFFICES ASSUME ~sub.overflowed, NEW m \in (sub.tip + 1)..n, m # n PROVE m \in D
          OBVIOUS
        <5>1. m \in (sub.tip + 1)..L
          BY <1>1, <2>2 DEF n
        <5> QED
          BY <2>2, <5>1
      <4> HIDE DEF D
      <4> QED
        BY <1>1, <1>6, <2>2, <4>1, <4>2, <4>3, <4>4, <4>5 DEF SubOK
    <3>2. CASE ~Room
      <4>1. /\ sub' \in Subs /\ sub'.buffer = sub.buffer /\ sub'.tip = sub.tip
            /\ sub'.ready = sub.ready /\ sub'.overflowed = TRUE
        BY <2>1, <2>2, <3>2 DEF Subs
      <4>2. DOMAIN sub.buffer \subseteq (sub.tip + 1)..n /\ sub.tip <= n
        BY <1>1, <2>2
      <4> QED
        BY <1>6, <2>2, <4>1, <4>2 DEF SubOK
    <3> QED
      BY <3>1, <3>2
  <2>4. ChannelsOK(n, sub', conn, up, down', phone)
    BY <1>2, <1>3, <2>1, <2>3 DEF ChannelsOK, Told
  <2> QED
    BY <1>1, <2>4 DEF ChannelInv
<1> QED
  BY <1>4, <1>5, <1>6

LEMMA OldestOf ==
    ASSUME NEW st, IsStore(st)
    PROVE  OldestAvailable(st) \in Nat
<1> DEFINE D == DOMAIN st.events
<1>1. D \subseteq 1..st.last /\ st.last \in Nat
  BY DEF IsStore
<1> HIDE DEF D
<1>2. CASE D = {}
  BY <1>1, <1>2 DEF OldestAvailable, D
<1>3. CASE D # {}
  <2>1. Lowest(D) \in D
    <3>1. D \subseteq Nat
      BY <1>1
    <3> QED
      BY <1>3, <3>1, LowestOf
  <2> QED
    BY <1>1, <1>3, <2>1 DEF OldestAvailable, D
<1> QED
  BY <1>2, <1>3

LEMMA SubscribedOf ==
    ASSUME LogOK, ChannelInv, HubSubscribe
    PROVE  ChannelInv'
<1> DEFINE msg == Head(up)
<1> DEFINE oldest == OldestAvailable(mem)
<1> DEFINE start == IF msg.cursor = -1 THEN Bigger(0, oldest - 1) ELSE msg.cursor
<1> DEFINE S(w) == [delivered |-> start, tip |-> mem.last, buffer |-> NoEvents, overflowed |-> FALSE,
                    ready |-> FALSE, window |-> w]
<1> DEFINE old == [k |-> "expired", oldest |-> oldest]
<1>1. /\ up # <<>> /\ msg.k = "subscribe" /\ up' = Tail(up)
      /\ \/ down' = Append(down, old) /\ sub' = sub
         \/ \E w \in Anchored(msg.window) : ServePage(S(w))
      /\ UNCHANGED <<mem, conn, phone>>
  BY DEF HubSubscribe
<1>2. /\ SubOK(sub, mem.last) /\ PhoneOK(mem.last, conn, phone)
      /\ up \in Seq(Asks) /\ DownOK(mem.last, down) /\ down \in Seq(Frames)
      /\ conn \in BOOLEAN /\ (~conn => up = <<>> /\ down = <<>>)
  BY DEF ChannelInv, ChannelsOK, DownOK
<1>3. up' \in Seq(Asks) /\ msg \in Asks /\ conn = TRUE
  BY <1>1, <1>2, TakenSet
<1>4. msg.cursor \in Nat \cup {-1} /\ msg.window \in Nat
  <2>1. msg \in [k : {"subscribe"}, cursor : Nat \cup {-1}, window : Nat]
    BY <1>1, <1>3 DEF Asks
  <2> QED
    BY <2>1
<1>5. oldest \in Nat /\ mem.last \in Nat
  BY OldestOf DEF LogOK, StoreOK, IsStore
<1> HIDE DEF msg, oldest
<1>6. start \in Nat
  BY <1>4, <1>5 DEF Bigger
<1> HIDE DEF start
<1>7. CASE down' = Append(down, old) /\ sub' = sub
  <2>1. old \in Frames /\ old.k = "expired" /\ Numbers(old) = {}
    BY <1>5 DEF Frames, Numbers
  <2> HIDE DEF old
  <2>2. down' \in Seq(Frames) /\ ToSet(down') = ToSet(down) \cup {old}
    BY <1>2, <1>7, <2>1, AppendedSet
  <2>3. DownOK(mem.last, down')
    BY <1>2, <2>1, <2>2 DEF DownOK
  <2>4. Renews(up', down')
    BY <2>1, <2>2 DEF Renews
  <2>5. ChannelsOK(mem.last, sub', conn, up', down', phone)
    BY <1>2, <1>3, <1>7, <2>3, <2>4 DEF ChannelsOK, Told
  <2> QED
    BY <1>1, <2>5 DEF ChannelInv
<1>8. CASE \E w \in Anchored(msg.window) : ServePage(S(w))
  <2>0. PICK w \in Anchored(msg.window) : ServePage(S(w))
    BY <1>8
  <2> DEFINE st == S(w)
  <2>w. w \in Nat
    BY <1>4, <2>0 DEF Anchored
  <2>1. NoEvents \in Batches /\ DOMAIN NoEvents = {}
    <3>1. NoEvents \in [{} -> Notice] /\ {} \in SUBSET Nat
      BY DEF NoEvents
    <3> QED
      BY <3>1 DEF Batches
  <2>2. /\ st \in Subs /\ st.tip = mem.last /\ st.buffer = NoEvents
        /\ st.ready = FALSE
    BY <1>5, <1>6, <2>1, <2>w DEF Subs
  <2>s. ServePage(st)
    BY <2>0
  <2> HIDE DEF st
  <2>3. SubOK(st, mem.last)
    <3>1. Cardinality(DOMAIN st.buffer) <= BufferLimit
      BY <2>1, <2>2, FS_EmptySet, NotificationsAssumption
    <3>2. DOMAIN st.buffer = {} /\ (st.tip + 1)..mem.last = {}
      BY <1>5, <2>1, <2>2
    <3> QED
      BY <1>5, <2>2, <3>1, <3>2 DEF SubOK
  <2>4. /\ SubOK(sub', mem.last) /\ DownOK(mem.last, down')
        /\ sub'.ready => \A n \in 1..mem.last : \E f \in ToSet(down') : Tells(f, n)
    BY <1>2, <2>s, <2>2, <2>3, ServePageOf
  <2>5. ChannelsOK(mem.last, sub', conn, up', down', phone)
    BY <1>2, <1>3, <2>4 DEF ChannelsOK, Told, Reaches
  <2> QED
    BY <1>1, <2>5 DEF ChannelInv
<1> QED
  BY <1>1, <1>7, <1>8

LEMMA NextPageOf ==
    ASSUME LogOK, ChannelInv, HubNextPage
    PROVE  ChannelInv'
<1>1. /\ up # <<>> /\ Head(up).k = "next_page" /\ up' = Tail(up)
      /\ UNCHANGED <<mem, conn, phone>>
      /\ (sub = NoSub => UNCHANGED <<sub, down>>) /\ (sub # NoSub => ServePage(sub))
  BY DEF HubNextPage
<1>2. /\ SubOK(sub, mem.last) /\ PhoneOK(mem.last, conn, phone)
      /\ up \in Seq(Asks) /\ DownOK(mem.last, down)
      /\ conn \in BOOLEAN /\ (~conn => up = <<>> /\ down = <<>>)
      /\ Told(mem.last, sub, conn, up, down, phone)
  BY DEF ChannelInv, ChannelsOK
<1>3. up' \in Seq(Asks) /\ ToSet(up) = {Head(up)} \cup ToSet(up') /\ conn = TRUE
  BY <1>1, <1>2, TakenSet
<1>4. CASE sub = NoSub
  <2>1. sub' = NoSub /\ down' = down
    BY <1>1, <1>4
  <2>2. ChannelsOK(mem.last, sub', conn, up', down', phone)
    BY <1>2, <1>3, <1>4, <2>1 DEF ChannelsOK, Told
  <2> QED
    BY <1>1, <2>2 DEF ChannelInv
<1>5. CASE sub # NoSub
  <2>1. sub \in Subs /\ ServePage(sub)
    BY <1>1, <1>2, <1>5 DEF SubOK
  <2>2. /\ SubOK(sub', mem.last) /\ DownOK(mem.last, down')
        /\ sub'.ready => \A n \in 1..mem.last : \E f \in ToSet(down') : Tells(f, n)
    BY <1>2, <2>1, ServePageOf
  <2>3. ChannelsOK(mem.last, sub', conn, up', down', phone)
    BY <1>2, <1>3, <2>2 DEF ChannelsOK, Told, Reaches
  <2> QED
    BY <1>1, <2>3 DEF ChannelInv
<1> QED
  BY <1>4, <1>5

LEMMA BootEmpties ==
    ASSUME ChannelInv, NEW f, NEW aged, Boot(f, aged), phone' = phone, mem'.last \in Nat
    PROVE  ChannelInv'
<1>1. sub' = NoSub /\ conn' = FALSE /\ up' = <<>> /\ down' = <<>>
  BY DEF Boot
<1>2. PhoneOK(mem'.last, FALSE, phone)
  BY DEF ChannelInv, ChannelsOK, PhoneOK
<1>3. <<>> \in Seq(Frames) /\ <<>> \in Seq(Asks) /\ ToSet(<<>>) = {}
  BY DEF ToSet
<1>4. DownOK(mem'.last, <<>>)
  BY <1>3 DEF DownOK
<1>5. ChannelsOK(mem'.last, NoSub, FALSE, <<>>, <<>>, phone)
  BY <1>2, <1>3, <1>4 DEF ChannelsOK, SubOK, Told
<1> QED
  BY <1>1, <1>5 DEF ChannelInv

LEMMA DropEmpties ==
    ASSUME ChannelInv, Drop
    PROVE  ChannelInv'
<1>1. conn' = FALSE /\ up' = <<>> /\ down' = <<>> /\ UNCHANGED <<mem, sub, phone>>
  BY DEF Drop
<1>2. PhoneOK(mem.last, FALSE, phone) /\ SubOK(sub, mem.last)
  BY DEF ChannelInv, ChannelsOK, PhoneOK
<1>3. <<>> \in Seq(Frames) /\ <<>> \in Seq(Asks) /\ ToSet(<<>>) = {}
  BY DEF ToSet
<1>4. DownOK(mem.last, <<>>)
  BY <1>3 DEF DownOK
<1>5. ChannelsOK(mem.last, sub, FALSE, <<>>, <<>>, phone)
  BY <1>2, <1>3, <1>4 DEF ChannelsOK, Told
<1> QED
  BY <1>1, <1>5 DEF ChannelInv

\* A subscription asks from the cursor on, with an empty prefix.
LEMMA SubscribeOf ==
    ASSUME NEW cursor \in Nat \cup {-1}, phone \in Phones, up \in Seq(Asks), Subscribe(cursor),
           NEW last, NEW cn
    PROVE  /\ up' \in Seq(Asks) /\ (\E a \in ToSet(up') : a.k = "subscribe")
           /\ PhoneOK(last, cn, phone')
<1> DEFINE a == [k |-> "subscribe", cursor |-> cursor, window |-> phone.window]
<1> DEFINE t == IF cursor = -1 THEN 0 ELSE cursor
<1>1. up' = Append(up, a) /\ phone' = [phone EXCEPT !.cursor = cursor, !.got = {}, !.through = t]
  BY DEF Subscribe
<1>2. a \in Asks /\ a.k = "subscribe"
  BY DEF Asks, Phones
<1>3. t \in Nat
  OBVIOUS
<1> HIDE DEF a, t
<1>4. up' \in Seq(Asks) /\ ToSet(up') = ToSet(up) \cup {a}
  BY <1>1, <1>2, AppendedSet
<1>5. phone' \in Phones /\ phone'.got = {}
  BY <1>1, <1>3 DEF Phones
<1> QED
  BY <1>2, <1>4, <1>5 DEF PhoneOK

LEMMA ConnectedOf ==
    ASSUME ChannelInv, PhoneConnect
    PROVE  ChannelInv'
<1>1. conn' = TRUE /\ Subscribe(phone.cursor) /\ UNCHANGED <<mem, sub, down>>
  BY DEF PhoneConnect
<1>2. /\ SubOK(sub, mem.last) /\ PhoneOK(mem.last, conn, phone)
      /\ up \in Seq(Asks) /\ DownOK(mem.last, down)
  BY DEF ChannelInv, ChannelsOK
<1>3. phone \in Phones /\ phone.cursor \in Nat \cup {-1}
  BY <1>2 DEF PhoneOK, Phones
<1>4. /\ up' \in Seq(Asks) /\ (\E a \in ToSet(up') : a.k = "subscribe")
      /\ PhoneOK(mem.last, TRUE, phone')
  BY <1>1, <1>2, <1>3, SubscribeOf
<1>5. Renews(up', down)
  BY <1>4 DEF Renews
<1>6. ChannelsOK(mem.last, sub, TRUE, up', down, phone')
  BY <1>2, <1>4, <1>5 DEF ChannelsOK, Told
<1> QED
  BY <1>1, <1>6 DEF ChannelInv

LEMMA RestartedOf ==
    ASSUME ChannelInv, PhoneRestarts
    PROVE  ChannelInv'
<1> DEFINE f == Head(down)
<1> DEFINE from == IF f.k = "expired" THEN Bigger(0, f.oldest - 1) ELSE phone.cursor
<1>1. /\ down # <<>> /\ f.k \in {"expired", "resync"} /\ down' = Tail(down)
      /\ Subscribe(from) /\ UNCHANGED <<mem, sub, conn>>
  BY DEF PhoneRestarts
<1>2. /\ SubOK(sub, mem.last) /\ PhoneOK(mem.last, conn, phone)
      /\ up \in Seq(Asks) /\ DownOK(mem.last, down) /\ down \in Seq(Frames)
      /\ conn \in BOOLEAN /\ (~conn => up = <<>> /\ down = <<>>)
  BY DEF ChannelInv, ChannelsOK, DownOK
<1>3. down' \in Seq(Frames) /\ f \in Frames /\ ToSet(down) = {f} \cup ToSet(down')
  BY <1>1, <1>2, TakenSet
<1>4. phone \in Phones /\ phone.cursor \in Nat \cup {-1} /\ conn = TRUE
  BY <1>1, <1>2 DEF PhoneOK, Phones
<1> HIDE DEF f
<1>5. from \in Nat \cup {-1}
  <2>1. CASE f.k = "expired"
    <3>1. f \in [k : {"expired"}, oldest : Nat]
      BY <1>3, <2>1 DEF Frames
    <3>2. f.oldest \in Nat
      BY <3>1
    <3> QED
      BY <2>1, <3>2 DEF Bigger
  <2>2. CASE f.k # "expired"
    BY <1>4, <2>2
  <2> QED
    BY <2>1, <2>2
<1> HIDE DEF from
<1>6. /\ up' \in Seq(Asks) /\ (\E a \in ToSet(up') : a.k = "subscribe")
      /\ PhoneOK(mem.last, conn, phone')
  BY <1>1, <1>2, <1>4, <1>5, SubscribeOf
<1>7. Renews(up', down')
  BY <1>6 DEF Renews
<1>8. DownOK(mem.last, down')
  BY <1>2, <1>3 DEF DownOK
<1>9. ChannelsOK(mem.last, sub, conn, up', down', phone')
  BY <1>2, <1>4, <1>6, <1>7, <1>8 DEF ChannelsOK, Told
<1> QED
  BY <1>1, <1>9 DEF ChannelInv

LEMMA GlanceOf ==
    ASSUME ChannelInv, Glance, count.events \in Nat
    PROVE  ChannelInv'
<1>1. /\ ~conn /\ phone' = [phone EXCEPT !.window = count.events]
      /\ UNCHANGED <<mem, sub, conn, up, down>>
  BY DEF Glance
<1>2. PhoneOK(mem.last, conn, phone)
  BY DEF ChannelInv, ChannelsOK
<1>3. /\ phone' \in Phones /\ phone'.got = phone.got /\ phone'.through = phone.through
  BY <1>1, <1>2 DEF PhoneOK, Phones
<1>4. PhoneOK(mem.last, conn, phone')
  BY <1>1, <1>2, <1>3 DEF PhoneOK
<1>5. ChannelsOK(mem.last, sub, conn, up, down, phone')
  BY <1>1, <1>4 DEF ChannelInv, ChannelsOK, Told
<1> QED
  BY <1>1, <1>5 DEF ChannelInv

LEMMA SavedOf ==
    ASSUME NEW p \in Phones
    PROVE  /\ Saved(p) \in Phones /\ Saved(p).through = p.through /\ Saved(p).got = p.got
           /\ Saved(p).cursor = Bigger(p.cursor, p.through)
           /\ Saved(p).shown = p.shown /\ Saved(p).window = p.window
<1> DEFINE c == Bigger(p.cursor, p.through)
<1>1. c \in Nat \cup {-1}
  BY DEF Bigger, Phones
<1>2. Saved(p) = [p EXCEPT !.cursor = c]
  BY DEF Saved
<1> HIDE DEF c
<1> QED
  BY <1>1, <1>2 DEF Phones, c

LEMMA ReadyOf ==
    ASSUME ChannelInv, PhoneReady
    PROVE  ChannelInv'
<1> DEFINE a == [k |-> "ack", through |-> phone.through]
<1>1. /\ down # <<>> /\ Head(down).k = "ready" /\ down' = Tail(down) /\ UNCHANGED <<mem, sub, conn>>
      /\ \/ UNCHANGED <<phone, up>>
         \/ phone' = Saved(phone) /\ up' = Append(up, a)
  BY DEF PhoneReady
<1>2. /\ SubOK(sub, mem.last) /\ PhoneOK(mem.last, conn, phone)
      /\ up \in Seq(Asks) /\ DownOK(mem.last, down) /\ down \in Seq(Frames)
      /\ conn \in BOOLEAN /\ (~conn => up = <<>> /\ down = <<>>)
      /\ Told(mem.last, sub, conn, up, down, phone)
  BY DEF ChannelInv, ChannelsOK, DownOK
<1>3. down' \in Seq(Frames) /\ ToSet(down) = {Head(down)} \cup ToSet(down') /\ conn = TRUE
  BY <1>1, <1>2, TakenSet
<1>4. phone \in Phones
  BY <1>2 DEF PhoneOK
<1>5. a \in Asks /\ a.k = "ack"
  BY <1>4 DEF Asks, Phones
<1> HIDE DEF a
<1>6. /\ phone' \in Phones /\ phone'.got = phone.got /\ phone'.through = phone.through
  BY <1>1, <1>4, SavedOf
<1>7. PhoneOK(mem.last, conn, phone')
  BY <1>2, <1>6 DEF PhoneOK
<1>8. up' \in Seq(Asks) /\ (ToSet(up') = ToSet(up) \/ ToSet(up') = ToSet(up) \cup {a})
  <2>1. Append(up, a) \in Seq(Asks) /\ ToSet(Append(up, a)) = ToSet(up) \cup {a}
    BY <1>2, <1>5, AppendedSet
  <2> QED
    BY <1>1, <1>2, <2>1
<1>9. DownOK(mem.last, down')
  BY <1>2, <1>3 DEF DownOK
<1>10. Told(mem.last, sub, conn, up', down', phone')
  <2> SUFFICES ASSUME sub # NoSub, sub.ready, ~Renews(up', down'), NEW n \in 1..mem.last
               PROVE  Reaches(n, down', phone')
    BY DEF Told
  <2>1. ~Renews(up, down)
    BY <1>1, <1>3, <1>5, <1>8 DEF Renews
  <2>2. Reaches(n, down, phone)
    BY <1>2, <1>3, <2>1 DEF Told
  <2> QED
    BY <1>1, <1>3, <1>6, <2>2 DEF Reaches, Tells
<1>11. ChannelsOK(mem.last, sub, conn, up', down', phone')
  BY <1>2, <1>3, <1>7, <1>8, <1>9, <1>10 DEF ChannelsOK
<1> QED
  BY <1>1, <1>11 DEF ChannelInv

\* The phone takes a frame of events: its prefix grows over all that the frame tells.
LEMMA EventsOf ==
    ASSUME ChannelInv, mem.last \in Nat, PhoneEvents
    PROVE  ChannelInv'
<1> DEFINE f    == Head(down)
<1> DEFINE base == Bigger(phone.through, f.from)
<1> DEFINE S    == {x \in phone.got \cup DOMAIN f.events \cup f.skipped : x > base}
<1> DEFINE m    == Contiguous(base, S)
<1> DEFINE G    == {x \in S : x > m}
<1> DEFINE ids  == {f.events[n].id : n \in DOMAIN f.events}
<1> DEFINE next == [phone EXCEPT !.through = m, !.got = G, !.shown = @ \cup ids]
<1> DEFINE ask  == IF f.hasMore THEN [k |-> "next_page"] ELSE [k |-> "ack", through |-> next.through]
<1>1. /\ down # <<>> /\ f.k = "events" /\ down' = Tail(down) /\ UNCHANGED <<mem, sub, conn>>
      /\ \/ phone' = next /\ up' = up
         \/ (phone' = next \/ phone' = Saved(next)) /\ up' = Append(up, ask)
  BY DEF PhoneEvents, Reach
<1>2. /\ SubOK(sub, mem.last) /\ PhoneOK(mem.last, conn, phone)
      /\ up \in Seq(Asks) /\ DownOK(mem.last, down) /\ down \in Seq(Frames)
      /\ conn \in BOOLEAN /\ (~conn => up = <<>> /\ down = <<>>)
      /\ Told(mem.last, sub, conn, up, down, phone)
  BY DEF ChannelInv, ChannelsOK, DownOK
<1>3. down' \in Seq(Frames) /\ f \in Frames /\ ToSet(down) = {f} \cup ToSet(down') /\ conn = TRUE
  BY <1>1, <1>2, TakenSet
<1>4. /\ phone \in Phones /\ phone.through \in Nat /\ phone.got \subseteq Nat
      /\ \A n \in phone.got : n <= mem.last
  BY <1>2, <1>3 DEF PhoneOK, Phones
<1>5. /\ f.from \in Nat \cup {-1} /\ f.hasMore \in BOOLEAN /\ f.skipped \subseteq Nat /\ f.events \in Batches
  <2>1. f \in [k : {"events"}, from : Nat \cup {-1}, hasMore : BOOLEAN, events : Batches,
               skipped : SUBSET Nat]
    BY <1>1, <1>3 DEF Frames
  <2> QED
    BY <2>1
<1>6. PICK D \in SUBSET Nat : f.events \in [D -> Notice]
  BY <1>5 DEF Batches
<1>7. ids \subseteq Nat /\ DOMAIN f.events = D
  BY <1>6 DEF Notice
<1>8. \A n \in DOMAIN f.events \cup f.skipped : n <= mem.last
  <2>1. f \in ToSet(down) /\ Numbers(f) = DOMAIN f.events \cup f.skipped
    BY <1>1, <1>3 DEF Numbers
  <2> QED
    BY <1>2, <2>1 DEF DownOK
<1>9. base \in Nat /\ base >= phone.through /\ base >= f.from
  BY <1>4, <1>5 DEF Bigger
<1> HIDE DEF f, base
<1>10. S \subseteq Nat /\ \A x \in S : x <= mem.last
  BY <1>4, <1>5, <1>6, <1>7, <1>8
<1>s. \A x \in phone.got \cup DOMAIN f.events \cup f.skipped : x > base => x \in S
  OBVIOUS
<1> HIDE DEF S
<1>11. m \in Nat /\ m >= base /\ (base + 1)..m \subseteq S /\ m + 1 \notin S
  BY <1>9, <1>10, ContiguousOf
<1> HIDE DEF m
<1>12. G \subseteq Nat /\ G \subseteq S /\ (\A x \in G : x > m) /\ m + 1 \notin G
  BY <1>10, <1>11
<1>g. \A x \in S : x > m => x \in G
  OBVIOUS
<1> HIDE DEF G, ids
<1>13. next \in Phones /\ next.through = m /\ next.got = G
  BY <1>4, <1>7, <1>11, <1>12 DEF Phones
<1> HIDE DEF next
<1>14. phone' \in Phones /\ phone'.through = m /\ phone'.got = G
  BY <1>1, <1>13, SavedOf
<1>15. PhoneOK(mem.last, conn, phone')
  BY <1>10, <1>12, <1>14 DEF PhoneOK
<1>16. ask \in Asks /\ ask.k # "subscribe"
  BY <1>11, <1>13 DEF Asks
<1> HIDE DEF ask
<1>17. up' \in Seq(Asks) /\ (ToSet(up') = ToSet(up) \/ ToSet(up') = ToSet(up) \cup {ask})
  <2>1. Append(up, ask) \in Seq(Asks) /\ ToSet(Append(up, ask)) = ToSet(up) \cup {ask}
    BY <1>2, <1>16, AppendedSet
  <2> QED
    BY <1>1, <1>2, <2>1
<1>18. DownOK(mem.last, down')
  BY <1>2, <1>3 DEF DownOK
<1>19. ASSUME NEW n \in Nat, n <= base \/ n \in phone.got \cup DOMAIN f.events \cup f.skipped
       PROVE  n <= phone'.through \/ n \in phone'.got
  <2>1. CASE n <= base
    BY <1>9, <1>11, <1>14, <2>1
  <2>2. CASE ~(n <= base)
    <3>1. n > base
      BY <1>9, <2>2
    <3>2. n \in S
      BY <1>19, <1>s, <2>2, <3>1
    <3>3. n <= m \/ n > m
      BY <1>11
    <3> QED
      BY <1>14, <1>g, <3>2, <3>3
  <2> QED
    BY <2>1, <2>2
<1>20. Told(mem.last, sub, conn, up', down', phone')
  <2> SUFFICES ASSUME sub # NoSub, sub.ready, ~Renews(up', down'), NEW n \in 1..mem.last
               PROVE  Reaches(n, down', phone')
    BY DEF Told
  <2>1. ~Renews(up, down)
    BY <1>1, <1>3, <1>16, <1>17 DEF Renews, f
  <2>2. Reaches(n, down, phone)
    BY <1>2, <1>3, <2>1 DEF Told
  <2>3. CASE \E e \in ToSet(down') : Tells(e, n)
    BY <2>3 DEF Reaches
  <2>4. CASE n <= phone.through \/ n \in phone.got \/ Tells(f, n)
    <3>1. n \in Nat
      OBVIOUS
    <3>2. n <= base \/ n \in phone.got \cup DOMAIN f.events \cup f.skipped
      BY <1>4, <1>5, <1>9, <2>4, <3>1 DEF Tells, Numbers
    <3> QED
      BY <1>19, <3>1, <3>2 DEF Reaches
  <2> QED
    BY <1>3, <2>2, <2>3, <2>4 DEF Reaches
<1>21. ChannelsOK(mem.last, sub, conn, up', down', phone')
  BY <1>2, <1>3, <1>15, <1>17, <1>18, <1>20 DEF ChannelsOK
<1> QED
  BY <1>1, <1>21 DEF ChannelInv

\* The log, the channels and the notices together.
WireInv == NoticeInv /\ LogOK /\ ChannelInv

LEMMA WireStarts ==
    Init => WireInv
<1> SUFFICES ASSUME Init PROVE WireInv
  OBVIOUS
<1>1. count = [gens |-> 0, events |-> 0, mishaps |-> 0] /\ file = EmptyStore /\ mem = EmptyStore
  BY DEF Init
<1>2. count \in Counts
  BY <1>1 DEF Counts
<1>3. StoreOK(EmptyStore, count)
  BY DEF StoreOK, IsStore, EmptyStore
<1>4. DetOK(det, mem, count) /\ Engaged(det)
  BY <1>1 DEF Init, DetInit, DetOK, Engaged
<1>5. LogOK
  BY <1>1, <1>2, <1>3, <1>4 DEF LogOK
<1>6. mem.last = 0
  BY <1>1 DEF EmptyStore
<1>7. /\ sub = NoSub /\ conn = FALSE /\ up = <<>> /\ down = <<>>
      /\ phone = [cursor |-> -1, through |-> 0, got |-> {}, shown |-> {}, window |-> 0]
  BY DEF Init
<1>8. phone \in Phones /\ phone.got = {}
  BY <1>7 DEF Phones
<1>9. <<>> \in Seq(Frames) /\ <<>> \in Seq(Asks) /\ ToSet(<<>>) = {}
  BY DEF ToSet
<1>10. DownOK(0, <<>>) /\ PhoneOK(0, FALSE, phone)
  BY <1>8, <1>9 DEF DownOK, PhoneOK
<1>11. ChannelsOK(0, NoSub, FALSE, <<>>, <<>>, phone)
  BY <1>9, <1>10 DEF ChannelsOK, SubOK, Told
<1> QED
  BY <1>5, <1>6, <1>7, <1>11, NoticesStart DEF WireInv, ChannelInv

\* The end of a task that the hub hears of.
LEMMA EdgeOnWire ==
    ASSUME WireInv, NEW s \in Sources, EdgeDown(s), UNCHANGED <<conn, up, phone>>
    PROVE  LogOK' /\ ChannelInv'
<1>0. LogOK /\ ChannelInv /\ DetShape(det)
  BY DEF WireInv, NoticeInv
<1>1. CASE ~Heard(s)
  <2>1. UNCHANGED <<file, mem, det, count, sub, down>>
    BY <1>1 DEF EdgeDown, Untouched
  <2> QED
    BY <1>0, <2>1, ChannelsSame DEF LogOK
<1>2. CASE Heard(s)
  <2>1. PICK og \in Outcomes, oe \in Outcomes : CompleteTask(s, og, oe)
    BY <1>2 DEF EdgeDown
  <2>2. det[s].active # 0
    BY <1>0, <1>2 DEF Heard, LogOK, Engaged
  <2>3. LogOK' /\ mem'.last = IF oe = "ok" THEN mem.last + 1 ELSE mem.last
    BY <1>0, <2>1, <2>2, CompleteTaskFits
  <2>4. CASE oe = "ok"
    <3> DEFINE e == [id |-> count.events + 1, gen |-> det[s].active, source |-> s]
    <3>1. Push(mem.last + 1, e)
      BY <2>1, <2>4 DEF CompleteTask, NextSequence
    <3>2. e \in Notice
      <4>1. count.events + 1 \in Nat
        BY <1>0 DEF LogOK, Counts
      <4>2. det[s].active \in Nat
        BY <1>0 DEF LogOK, DetOK, StoreOK, Counts
      <4> QED
        BY <4>1, <4>2 DEF Notice
    <3> HIDE DEF e
    <3>3. mem.last \in Nat
      BY <1>0 DEF LogOK, StoreOK, IsStore
    <3>4. mem'.last = mem.last + 1
      BY <2>3, <2>4
    <3> QED
      BY <1>0, <2>3, <3>1, <3>2, <3>3, <3>4, Pushed
  <2>5. CASE oe # "ok"
    <3>1. UNCHANGED <<sub, down>> /\ mem'.last = mem.last
      BY <2>1, <2>3, <2>5 DEF CompleteTask
    <3> QED
      BY <1>0, <2>3, <3>1, ChannelsSame
  <2> QED
    BY <2>4, <2>5
<1> QED
  BY <1>1, <1>2

LEMMA WireKept ==
    ASSUME WireInv, [Next]_vars
    PROVE  WireInv'
<1>0. LogOK /\ ChannelInv /\ DetShape(det) /\ NoticeInv /\ mem.last \in Nat
  BY DEF WireInv, NoticeInv, LogOK, StoreOK, IsStore
<1>n. NoticeInv'
  BY <1>0, NoticesKept
<1>a. ASSUME LogSteps, UNCHANGED <<sub, conn, up, down, phone>> PROVE LogOK' /\ ChannelInv'
  BY <1>0, <1>a, ChannelsSame DEF LogSteps
<1>b. ASSUME UNCHANGED <<file, mem, det, count>> PROVE LogSteps
  BY <1>0, <1>b DEF LogSteps, LogOK
<1>1. ASSUME NEW s \in Sources, AgentStart(s) PROVE LogOK' /\ ChannelInv'
  <2>1. LogSteps
    BY <1>0, <1>1, <1>b, BeginTaskFits DEF AgentStart, Untouched
  <2> QED
    BY <1>1, <1>a, <2>1 DEF AgentStart
<1>2. ASSUME NEW s \in Sources, AgentEnd(s) PROVE LogOK' /\ ChannelInv'
  BY <1>2, EdgeOnWire DEF AgentEnd
<1>3. ASSUME NEW s \in Sources, AgentSettled(s) PROVE LogOK' /\ ChannelInv'
  BY <1>3, EdgeOnWire DEF AgentSettled
<1>4. ASSUME NEW s \in Sources, AgentAborted(s) PROVE LogOK' /\ ChannelInv'
  <2>1. LogSteps
    BY <1>0, <1>4, <1>b, AbortTaskFits DEF AgentAborted, Untouched
  <2> QED
    BY <1>4, <1>a, <2>1 DEF AgentAborted
<1>5. ASSUME NEW s \in Sources, DesktopSnapshot(s) PROVE LogOK' /\ ChannelInv'
  <2>1. LogSteps
    BY <1>0, <1>5, BeginTaskFits DEF DesktopSnapshot, Adopt
  <2> QED
    BY <1>5, <1>a, <2>1 DEF DesktopSnapshot
<1>6. ASSUME NEW s \in Sources, RegisterStart(s) PROVE LogOK' /\ ChannelInv'
  BY <1>6, <1>a, <1>b DEF RegisterStart
<1>7. ASSUME NEW s \in Sources, RegisterDone(s) PROVE LogOK' /\ ChannelInv'
  <2>1. LogSteps
    BY <1>0, <1>7, <1>b, BeginTaskFits DEF RegisterDone, Adopt, Untouched
  <2> QED
    BY <1>7, <1>a, <2>1 DEF RegisterDone
<1>8. ASSUME NEW s \in Sources, DesktopClosed(s) PROVE LogOK' /\ ChannelInv'
  <2> DEFINE n == count.mishaps + 1
  <2>1. /\ det' = [det EXCEPT ![s].streaming = FALSE] /\ count' = [count EXCEPT !.mishaps = n]
        /\ UNCHANGED <<file, mem, sub, conn, up, down, phone>>
    BY <1>8 DEF DesktopClosed
  <2>2. count' \in Counts /\ count'.gens = count.gens /\ count'.events = count.events
    <3>1. n \in Nat /\ count \in Counts
      BY <1>0 DEF LogOK, Counts
    <3> HIDE DEF n
    <3> QED
      BY <2>1, <3>1 DEF Counts
  <2>3. Turns(s, FALSE) /\ det'[s].active = det[s].active /\ det'[s].latest = det[s].latest
    BY <1>0, <2>1, FlagTurns
  <2>4. DetOK(det', mem', count')
    BY <1>0, <2>1, <2>2, <2>3 DEF LogOK, DetOK, Turns
  <2>5. Engaged(det')
    BY <1>0, <2>3 DEF LogOK, Engaged, Turns
  <2>6. StoreOK(file', count') /\ StoreOK(mem', count')
    <3>1. count \in Counts /\ count.events <= count'.events /\ count.gens <= count'.gens
      BY <1>0, <2>2 DEF LogOK, Counts
    <3>2. StoreOK(file, count') /\ StoreOK(mem, count')
      BY <1>0, <2>2, <3>1, StoreGrows DEF LogOK
    <3> QED
      BY <2>1, <3>2
  <2>7. LogSteps
    BY <2>1, <2>2, <2>4, <2>5, <2>6 DEF LogSteps, LogOK
  <2> QED
    BY <1>a, <2>1, <2>7
<1>c. ASSUME NEW f, NEW aged, Boot(f, aged), StoreOK(f, count), phone' = phone,
             count' = [count EXCEPT !.mishaps = count.mishaps + 1]
      PROVE  LogOK' /\ ChannelInv'
  <2> DEFINE n == count.mishaps + 1
  <2>1. count' \in Counts /\ count'.gens = count.gens /\ count'.events = count.events
    <3>1. n \in Nat /\ count \in Counts
      BY <1>0 DEF LogOK, Counts
    <3>2. count' = [count EXCEPT !.mishaps = n]
      BY <1>c
    <3> HIDE DEF n
    <3> QED
      BY <3>1, <3>2 DEF Counts
  <2>2. StoreOK(f, count')
    <3>1. count \in Counts /\ count.events <= count'.events /\ count.gens <= count'.gens
      BY <1>0, <2>1 DEF LogOK, Counts
    <3> QED
      BY <1>c, <2>1, <3>1, StoreGrows
  <2>3. LogOK'
    BY <1>c, <2>1, <2>2, BootFits
  <2>4. mem'.last \in Nat
    BY <2>3 DEF LogOK, StoreOK, IsStore
  <2> QED
    BY <1>0, <1>c, <2>3, <2>4, BootEmpties
<1>9. ASSUME HubRestart PROVE LogOK' /\ ChannelInv'
  <2>1. /\ count' = [count EXCEPT !.mishaps = count.mishaps + 1] /\ phone' = phone
        /\ \E aged \in hist.aged..count.events : Boot(file, aged)
    BY <1>9 DEF HubRestart
  <2>2. StoreOK(file, count)
    BY <1>0 DEF LogOK
  <2> QED
    BY <1>c, <2>1, <2>2
<1>10. ASSUME NEW s \in Sources, HubStopsInBetween(s) PROVE LogOK' /\ ChannelInv'
  <2> DEFINE g == det[s].active
  <2> DEFINE f == Write(file, GenRecord(g, s, "completed"), "ok")
  <2>1. /\ count' = [count EXCEPT !.mishaps = count.mishaps + 1] /\ phone' = phone
        /\ Boot(f, hist.aged) /\ g # 0
    BY <1>10 DEF HubStopsInBetween
  <2>2. g \in 1..count.gens /\ "ok" \in Outcomes
    BY <1>0, <2>1, NotificationsAssumption DEF LogOK, DetOK, StoreOK
  <2> HIDE DEF g
  <2>3. StoreOK(Apply(file, GenRecord(g, s, "completed")), count) /\ StoreOK(file, count)
    BY <1>0, <2>2, GenerationFits DEF LogOK
  <2>4. StoreOK(f, count)
    BY <2>2, <2>3, WriteFits
  <2> HIDE DEF f
  <2> QED
    BY <1>c, <2>1, <2>4
<1>11. ASSUME HubSubscribe PROVE LogOK' /\ ChannelInv'
  <2>1. UNCHANGED <<file, mem, det, count>>
    BY <1>11 DEF HubSubscribe
  <2> QED
    BY <1>0, <1>11, <1>b, <2>1, SubscribedOf DEF LogSteps
<1>12. ASSUME HubNextPage PROVE LogOK' /\ ChannelInv'
  <2>1. UNCHANGED <<file, mem, det, count>>
    BY <1>12 DEF HubNextPage
  <2> QED
    BY <1>0, <1>12, <1>b, <2>1, NextPageOf DEF LogSteps
<1>13. ASSUME HubAck PROVE LogOK' /\ ChannelInv'
  <2>1. up # <<>> /\ Head(up).k = "ack" => Head(up).through \in Nat
    <3> SUFFICES ASSUME up # <<>>, Head(up).k = "ack" PROVE Head(up).through \in Nat
      OBVIOUS
    <3>1. up \in Seq(Asks)
      BY <1>0 DEF ChannelInv, ChannelsOK
    <3>2. Head(up) \in Asks
      BY <3>1, TakenSet
    <3>3. Head(up) \in [k : {"ack"}, through : Nat]
      BY <3>2 DEF Asks
    <3> QED
      BY <3>3
  <2>2. LogSteps
    BY <1>0, <1>13, <2>1, AckTaken
  <2> QED
    BY <1>0, <1>13, <2>2, AckTakenOff DEF LogSteps
<1>14. ASSUME PhoneConnect \/ Drop \/ Glance PROVE LogOK' /\ ChannelInv'
  <2>1. CASE PhoneConnect
    <3>1. UNCHANGED <<file, mem, det, count>>
      BY <2>1 DEF PhoneConnect
    <3> QED
      BY <1>0, <1>b, <2>1, <3>1, ConnectedOf DEF LogSteps
  <2>2. CASE Drop
    <3> DEFINE n == count.mishaps + 1
    <3>1. UNCHANGED <<file, mem, det>> /\ count' = [count EXCEPT !.mishaps = n]
      BY <2>2 DEF Drop
    <3>2. count' \in Counts /\ count'.gens = count.gens /\ count'.events = count.events
      <4>1. n \in Nat /\ count \in Counts
        BY <1>0 DEF LogOK, Counts
      <4> HIDE DEF n
      <4> QED
        BY <3>1, <4>1 DEF Counts
    <3>3. StoreOK(file, count') /\ StoreOK(mem, count')
      <4>1. count \in Counts /\ count.events <= count'.events /\ count.gens <= count'.gens
        BY <1>0, <3>2 DEF LogOK, Counts
      <4> QED
        BY <1>0, <3>2, <4>1, StoreGrows DEF LogOK
    <3>4. DetOK(det', mem', count')
      BY <1>0, <3>1, <3>2 DEF LogOK, DetOK
    <3>5. LogOK'
      BY <1>0, <3>1, <3>2, <3>3, <3>4 DEF LogOK
    <3> QED
      BY <1>0, <2>2, <3>5, DropEmpties
  <2>3. CASE Glance
    <3>1. UNCHANGED <<file, mem, det, count>> /\ count.events \in Nat
      BY <1>0, <2>3 DEF Glance, LogOK, Counts
    <3> QED
      BY <1>0, <1>b, <2>3, <3>1, GlanceOf DEF LogSteps
  <2> QED
    BY <1>14, <2>1, <2>2, <2>3
<1>15. ASSUME PhoneEvents \/ PhoneReady \/ PhoneRestarts PROVE LogOK' /\ ChannelInv'
  <2>1. UNCHANGED <<file, mem, det, count>>
    BY <1>15 DEF PhoneEvents, PhoneReady, PhoneRestarts
  <2> QED
    BY <1>0, <1>15, <1>b, <2>1, EventsOf, ReadyOf, RestartedOf DEF LogSteps
<1>16. ASSUME UNCHANGED vars PROVE LogOK' /\ ChannelInv'
  BY <1>16, <1>a, <1>b DEF vars
<1>17. LogOK' /\ ChannelInv'
  BY <1>1, <1>2, <1>3, <1>4, <1>5, <1>6, <1>7, <1>8, <1>9, <1>10, <1>11, <1>12, <1>13, <1>14,
     <1>15, <1>16 DEF Next
<1> QED
  BY <1>n, <1>17 DEF WireInv

\* Every value keeps its type: the store's numbers and events, the detector's
\* generations, the subscription and its buffer, and the phone's cursor and prefix,
\* through writes that fail, torn ones included, and starts on what they leave.
THEOREM NotificationsTypeCorrect ==
    Spec => []TypeOK
<1>1. WireInv => TypeOK
  <2> SUFFICES ASSUME WireInv PROVE TypeOK
    OBVIOUS
  <2>1. mem.last \in Nat /\ mem.ack \in Nat /\ mem.tombs \in Nat /\ DOMAIN mem.events \subseteq 1..mem.last
    BY DEF WireInv, LogOK, StoreOK, IsStore
  <2>2. \A n \in DOMAIN mem.events : mem.events[n].source \in Sources
    BY DEF WireInv, LogOK, StoreOK, Entry
  <2>3. ASSUME NEW s \in Sources
        PROVE  /\ det[s].streaming \in BOOLEAN
               /\ det[s].active \in DOMAIN mem.gens \cup {0}
               /\ det[s].latest \in 0..count.gens
               /\ desk[s].phase \in {"idle", "running", "ended"}
               /\ desk[s].link \in {"off", "asked_idle", "asked_busy", "on"}
    <3>1. det[s].streaming \in BOOLEAN
      BY DEF WireInv, NoticeInv, DetShape
    <3>2. det[s].active \in DOMAIN mem.gens \cup {0} /\ det[s].latest \in 0..count.gens
      BY DEF WireInv, LogOK, DetOK
    <3>3. /\ desk[s].phase \in {"idle", "running", "ended"}
          /\ desk[s].link \in {"off", "asked_idle", "asked_busy", "on"}
      BY DEF WireInv, NoticeInv, DeskShape
    <3> QED
      BY <3>1, <3>2, <3>3
  <2>4. sub = NoSub \/ (sub.delivered \in Nat /\ Cardinality(DOMAIN sub.buffer) <= BufferLimit)
    BY DEF WireInv, ChannelInv, ChannelsOK, SubOK, Subs
  <2>5. phone.cursor \in Nat \cup {-1} /\ phone.through \in Nat
    BY DEF WireInv, ChannelInv, ChannelsOK, PhoneOK, Phones
  <2>6. conn \in BOOLEAN /\ (~conn => up = <<>> /\ down = <<>>)
    BY DEF WireInv, ChannelInv, ChannelsOK
  <2> QED
    BY <2>1, <2>2, <2>3, <2>4, <2>5, <2>6 DEF TypeOK
<1> QED
  BY <1>1, WireStarts, WireKept, PTL DEF Spec

\* A subscription that is ready loses nothing: when the frames under way have come in,
\* the phone has every number up to the tip, for any sizes of the pages and of the
\* buffer and however the end of the pages and new events interleave.
THEOREM ReadyMeansComplete ==
    Spec => []ReadyIsComplete
<1>1. WireInv => ReadyIsComplete
  <2> SUFFICES ASSUME WireInv, conn, sub # NoSub, sub.ready, up = <<>>, down = <<>>
               PROVE  phone.got = {} /\ phone.through >= mem.last
    BY DEF ReadyIsComplete
  <2>1. ToSet(up) = {} /\ ToSet(down) = {}
    BY DEF ToSet
  <2>2. /\ mem.last \in Nat /\ PhoneOK(mem.last, conn, phone)
        /\ Told(mem.last, sub, conn, up, down, phone)
    BY DEF WireInv, LogOK, StoreOK, IsStore, ChannelInv, ChannelsOK
  <2>3. /\ phone.through \in Nat /\ phone.got \subseteq Nat /\ phone.through + 1 \notin phone.got
        /\ \A n \in phone.got : n > phone.through /\ n <= mem.last
    BY <2>2 DEF PhoneOK, Phones
  <2>4. \A n \in 1..mem.last : n <= phone.through \/ n \in phone.got
    BY <2>1, <2>2 DEF Told, Renews, Reaches
  <2>5. phone.through >= mem.last
    <3>1. SUFFICES ASSUME ~(phone.through >= mem.last) PROVE FALSE
      OBVIOUS
    <3>2. phone.through + 1 \in 1..mem.last /\ ~(phone.through + 1 <= phone.through)
      BY <2>2, <2>3, <3>1
    <3> QED
      BY <2>3, <2>4, <3>2
  <2> QED
    BY <2>2, <2>3, <2>5
<1> QED
  BY <1>1, WireStarts, WireKept, PTL DEF Spec

-----------------------------------------------------------------------------
(* What the log promises a cursor.                                         *)

\* The file has nothing that is missing in memory, but under numbers still to come: what
\* a write that was reported as failed has left there.
Whole(f, m) == \A n \in DOMAIN f.events : n <= m.last => n \in DOMAIN m.events

\* A persisted event is under its own number, if anywhere.
Numbered(f, h) ==
    \A n \in DOMAIN f.events :
        f.events[n].id \in DOMAIN h.persisted => h.persisted[f.events[n].id] = n

HistShape(h) ==
    /\ h = [persisted |-> h.persisted, stale |-> h.stale, slipped |-> h.slipped,
            aged |-> h.aged, regressed |-> h.regressed]
    /\ h.regressed \in BOOLEAN

HistGrows == hist.stale \subseteq hist'.stale /\ hist.slipped \subseteq hist'.slipped

\* The file, the memory and the history of what has been persisted.
BookInv ==
    /\ DiskInv /\ Whole(file, mem) /\ Numbered(file, hist) /\ HistShape(hist)
    /\ DOMAIN hist.persisted \subseteq 1..count.events

\* The numbers have not gone back, and up to where they were nothing is new.
Ahead(m, m2) ==
    /\ m.last <= m2.last
    /\ \A n \in DOMAIN m2.events : n <= m.last => n \in DOMAIN m.events /\ m2.events[n] = m.events[n]

\* A step that leaves the events alone.
Quiet ==
    /\ file'.events = file.events /\ mem'.events = mem.events /\ mem'.last = mem.last
    /\ hist'.persisted = hist.persisted /\ hist'.regressed = hist.regressed
    /\ count'.events = count.events

BookStep == BookInv' /\ (hist'.regressed \/ (~hist.regressed /\ Ahead(mem, mem')))

LEMMA QuietBook ==
    ASSUME BookInv, DiskInv', HistShape(hist'), Quiet
    PROVE  BookStep
<1>0. mem.last \in Nat
  BY DEF BookInv, DiskInv, Agree, IsStore
<1>1. Whole(file', mem') /\ Numbered(file', hist') /\ Ahead(mem, mem')
  BY <1>0 DEF BookInv, Quiet, Whole, Numbered, Ahead
<1>2. DOMAIN hist'.persisted \subseteq 1..count'.events
  BY DEF BookInv, Quiet
<1> QED
  BY <1>1, <1>2 DEF BookInv, BookStep, Quiet, HistShape

LEMMA OtherRecordWritten ==
    ASSUME NEW f, IsStore(f), f.torn = FALSE, NEW r, Apply(f, r).events = f.events,
           NEW o \in {"ok", "failed", "unsynced"}
    PROVE  Write(f, r, o).events = f.events
<1>1. Write(f, r, o) = f \/ Write(f, r, o) = Apply(f, r)
  BY Written
<1> QED
  BY <1>1

LEMMA BeginTaskQuiet ==
    ASSUME Harmless, DiskInv, LogOK, NEW s \in Sources, NEW o \in Outcomes, BeginTask(s, o), hist' = hist
    PROVE  Quiet
<1> DEFINE g == count.gens + 1
<1> DEFINE r == GenRecord(g, s, "in_flight")
<1>1. CASE det[s].active # 0
  BY <1>1 DEF BeginTask, Quiet
<1>2. CASE det[s].active = 0
  <2> DEFINE c == [count EXCEPT !.gens = g]
  <2>1. file' = Write(file, r, o) /\ mem' = Apply(mem, r) /\ count' = Faulted(c, o)
    BY <1>2 DEF BeginTask
  <2>2. IsStore(file) /\ IsStore(mem) /\ file.torn = FALSE
    BY DEF DiskInv, Agree
  <2>3. Write(file, r, o).events = file.events
    <3>1. o \in {"ok", "failed", "unsynced"}
      BY OutcomeOf
    <3>2. Apply(file, r).events = file.events
      BY <2>2, GenerationApplied
    <3> HIDE DEF r
    <3> QED
      BY <2>2, <3>1, <3>2, OtherRecordWritten
  <2>4. Apply(mem, r).events = mem.events /\ Apply(mem, r).last = mem.last
    BY <2>2, GenerationApplied
  <2>5. count'.events = count.events
    <3>1. c \in Counts /\ c.events = count.events
      <4>1. g \in Nat /\ count \in Counts
        BY DEF LogOK, Counts
      <4> HIDE DEF g
      <4> QED
        BY <4>1 DEF Counts
    <3> HIDE DEF c
    <3> QED
      BY <2>1, <3>1, FaultedOf
  <2> HIDE DEF r
  <2> QED
    BY <2>1, <2>3, <2>4, <2>5 DEF Quiet
<1> QED
  BY <1>1, <1>2

LEMMA AbortTaskQuiet ==
    ASSUME Harmless, DiskInv, LogOK, NEW s \in Sources, NEW o \in Outcomes, AbortTask(s, o), hist' = hist
    PROVE  Quiet
<1> DEFINE g == det[s].active
<1> DEFINE r == GenRecord(g, s, "cancelled")
<1>1. /\ file' = (IF g = 0 THEN file ELSE Write(file, r, o))
      /\ mem' = (IF g = 0 THEN mem ELSE Apply(mem, r))
      /\ count' = Faulted(count, o)
  BY DEF AbortTask
<1>2. IsStore(file) /\ IsStore(mem) /\ file.torn = FALSE
  BY DEF DiskInv, Agree
<1>3. Write(file, r, o).events = file.events
  <2>1. o \in {"ok", "failed", "unsynced"}
    BY OutcomeOf
  <2>2. Apply(file, r).events = file.events
    BY <1>2, GenerationApplied
  <2> HIDE DEF r
  <2> QED
    BY <1>2, <2>1, <2>2, OtherRecordWritten
<1>4. Apply(mem, r).events = mem.events /\ Apply(mem, r).last = mem.last
  BY <1>2, GenerationApplied
<1>5. count'.events = count.events
  BY <1>1, FaultedOf DEF LogOK
<1> HIDE DEF r, g
<1> QED
  BY <1>1, <1>3, <1>4, <1>5 DEF Quiet

LEMMA AckQuiet ==
    ASSUME Harmless, DiskInv, LogOK, HubAck
    PROVE  Quiet
<1> DEFINE n == Head(up).through
<1>0. hist' = hist
  BY DEF HubAck
<1>1. CASE UNCHANGED <<file, mem, count>>
  BY <1>0, <1>1 DEF Quiet
<1>2. ASSUME NEW o \in Outcomes, count' = Faulted(count, o), file' = Write(file, AckRecord(n), o),
             mem' = IF o = "ok" THEN [mem EXCEPT !.ack = n] ELSE mem
      PROVE  Quiet
  <2> HIDE DEF n
  <2>1. IsStore(file) /\ IsStore(mem) /\ file.torn = FALSE
    BY DEF DiskInv, Agree
  <2>2. file'.events = file.events
    <3> DEFINE r == AckRecord(n)
    <3>1. o \in {"ok", "failed", "unsynced"}
      BY OutcomeOf
    <3>2. Apply(file, r).events = file.events
      BY <2>1, AckApplied
    <3>3. file' = Write(file, r, o)
      BY <1>2
    <3> HIDE DEF r
    <3> QED
      BY <2>1, <3>1, <3>2, <3>3, OtherRecordWritten
  <2>3. [mem EXCEPT !.ack = n].events = mem.events /\ [mem EXCEPT !.ack = n].last = mem.last
    BY <2>1 DEF IsStore
  <2>4. mem'.events = mem.events /\ mem'.last = mem.last
    BY <1>2, <2>3
  <2>5. count'.events = count.events
    BY <1>2, FaultedOf DEF LogOK
  <2> QED
    BY <1>0, <2>2, <2>4, <2>5 DEF Quiet
<1> QED
  BY <1>1, <1>2 DEF HubAck

\* Compaction may take events from both, and then has the same in both.
LEMMA CompactedBoth ==
    ASSUME NEW f, NEW st, IsStore(st)
    PROVE  LET done == MaybeCompact(f, st)
           IN  /\ done.mem.last = st.last /\ DOMAIN done.mem.events \subseteq DOMAIN st.events
               /\ \A n \in DOMAIN done.mem.events : done.mem.events[n] = st.events[n]
               /\ \/ done.file.events = done.mem.events
                  \/ done.file = f /\ done.mem = st
<1> DEFINE m == Compact(st).mem
<1> DEFINE cf == Compact(st).file
<1>1. /\ m.last = st.last /\ DOMAIN m.events \subseteq DOMAIN st.events
      /\ \A n \in DOMAIN m.events : m.events[n] = st.events[n]
      /\ cf.events = m.events
  BY CompactedOf
<1>2. MaybeCompact(f, st) = Compact(st) \/ MaybeCompact(f, st) = [file |-> f, mem |-> st]
  BY DEF MaybeCompact
<1>3. CASE MaybeCompact(f, st) = Compact(st)
  <2> HIDE DEF m, cf
  <2> QED
    BY <1>1, <1>3 DEF m, cf
<1>4. CASE MaybeCompact(f, st) = [file |-> f, mem |-> st]
  BY <1>4
<1> QED
  BY <1>2, <1>3, <1>4

\* A start finds in the file what it keeps in memory.
LEMMA LoadedOf ==
    ASSUME NEW f, IsStore(f), f.torn = FALSE, NEW aged
    PROVE  LET l == Load(f, aged)
           IN  /\ l.file.events = l.mem.events /\ DOMAIN l.mem.events \subseteq DOMAIN f.events
               /\ \A n \in DOMAIN l.mem.events : l.mem.events[n] = f.events[n]
<1> DEFINE old == {n \in DOMAIN f.events : f.events[n].id <= aged}
<1>1. [f EXCEPT !.torn = FALSE] = f
  BY DEF IsStore
<1>2. Load(f, aged) = IF old = {} THEN [file |-> f, mem |-> f]
                      ELSE MaybeCompact(Bury(f, old), Bury(f, old))
  <2> DEFINE mm == [f EXCEPT !.torn = FALSE]
  <2> DEFINE gone == {n \in DOMAIN mm.events : mm.events[n].id <= aged}
  <2> DEFINE lost == IF f.torn /\ gone # {} THEN {Lowest(gone)} ELSE {}
  <2>1. lost = {}
    <3> HIDE DEF gone
    <3> QED
      OBVIOUS
  <2>2. Load(f, aged) = IF gone = {} THEN [file |-> f, mem |-> mm]
                        ELSE MaybeCompact(Bury(mm, gone \ lost), Bury(mm, gone))
    BY DEF Load
  <2>3. mm = f /\ gone = old
    BY <1>1
  <2>4. old \ {} = old
    OBVIOUS
  <2> HIDE DEF mm, gone, lost, old
  <2> QED
    BY <2>1, <2>2, <2>3, <2>4
<1> HIDE DEF old
<1>3. CASE old = {}
  BY <1>2, <1>3
<1>4. CASE old # {}
  <2> DEFINE b == Bury(f, old)
  <2>1. /\ IsStore(b) /\ DOMAIN b.events = DOMAIN f.events \ old
        /\ \A n \in DOMAIN b.events : b.events[n] = f.events[n]
    BY BuriedOf
  <2>2. Load(f, aged) = MaybeCompact(b, b)
    BY <1>2, <1>4
  <2> HIDE DEF b
  <2> DEFINE done == MaybeCompact(b, b)
  <2>3. /\ DOMAIN done.mem.events \subseteq DOMAIN b.events
        /\ \A n \in DOMAIN done.mem.events : done.mem.events[n] = b.events[n]
        /\ done.file.events = done.mem.events
    BY <2>1, CompactedBoth
  <2> HIDE DEF done
  <2> QED
    BY <2>1, <2>2, <2>3 DEF done
<1> QED
  BY <1>3, <1>4

\* The end of a task: the event gets the next number, under which there is nothing yet.
LEMMA CompleteTaskBook ==
    ASSUME Harmless, BookInv, DiskInv', LogOK, NEW s \in Sources, NEW og \in Outcomes, NEW oe \in Outcomes,
           CompleteTask(s, og, oe), HistShape(hist')
    PROVE  /\ BookStep
           /\ oe = "ok" /\ mem.last + 1 \in DOMAIN mem'.events
                => mem'.events[mem.last + 1] = [id |-> count.events + 1, gen |-> det[s].active, source |-> s]
<1> DEFINE g == det[s].active
<1> DEFINE r == GenRecord(g, s, "completed")
<1> DEFINE e == [id |-> count.events + 1, gen |-> g, source |-> s]
<1> DEFINE gfile == Write(file, r, og)
<1> DEFINE gmem == Apply(mem, r)
<1> DEFINE n == mem.last + 1
<1>1. IsStore(file) /\ IsStore(mem) /\ file.torn = FALSE /\ count \in Counts
  BY DEF BookInv, DiskInv, Agree, LogOK
<1>2. og \in {"ok", "failed", "unsynced"} /\ oe \in {"ok", "failed", "unsynced"}
  BY OutcomeOf
<1>3. IsStore(gmem) /\ gmem.events = mem.events /\ gmem.last = mem.last
  BY <1>1, GenerationApplied
<1>4. IsStore(gfile) /\ gfile.torn = FALSE /\ gfile.events = file.events
  <2>1. IsStore(Apply(file, r)) /\ Apply(file, r).torn = FALSE /\ Apply(file, r).events = file.events
    BY <1>1, GenerationApplied
  <2> HIDE DEF r
  <2>2. Write(file, r, og) = file \/ Write(file, r, og) = Apply(file, r)
    BY <1>1, <1>2, Written
  <2> QED
    BY <1>1, <2>1, <2>2
<1>5. count' = Faulted(Faulted([count EXCEPT !.events = count.events + 1], og), oe)
  BY DEF CompleteTask
<1>6. count'.events = count.events + 1
  <2> DEFINE k == count.events + 1
  <2> DEFINE c == [count EXCEPT !.events = k]
  <2>1. k \in Nat
    BY <1>1 DEF Counts
  <2>2. c \in Counts /\ c.events = k
    <3> HIDE DEF k
    <3> QED
      BY <1>1, <2>1 DEF Counts
  <2> HIDE DEF c
  <2>3. Faulted(c, og) \in Counts /\ Faulted(c, og).events = k
    BY <2>2, FaultedOf
  <2>4. Faulted(Faulted(c, og), oe).events = k
    BY <2>3, FaultedOf
  <2> QED
    BY <1>5, <2>4 DEF c
<1>7. IF oe = "ok"
      THEN /\ file' = AddEvent(gfile, gmem, n, e).file /\ mem' = AddEvent(gfile, gmem, n, e).mem
           /\ hist' = [hist EXCEPT !.persisted = Put(@, count.events + 1, n)]
      ELSE file' = Write(gfile, EventRecord(n, e), oe) /\ mem' = gmem /\ hist' = hist
  BY DEF CompleteTask, NextSequence
<1>8. n \in Nat \ {0} /\ mem.last \in Nat /\ count.events \in Nat /\ e.id = count.events + 1
  BY <1>1 DEF IsStore, Counts
<1>9. \A m \in DOMAIN file.events : file.events[m].id <= count.events /\ m \in Nat
  <2>1. \A m \in DOMAIN file.events : file.events[m] \in Entry(count)
    BY DEF LogOK, StoreOK
  <2>2. DOMAIN file.events \subseteq Nat
    BY <1>1 DEF IsStore
  <2> QED
    BY <1>8, <2>1, <2>2 DEF Entry
<1> HIDE DEF e, r, gfile, gmem, n
<1> DEFINE efile == Apply(gfile, EventRecord(n, e))
<1>10. /\ DOMAIN efile.events = DOMAIN file.events \cup {n} /\ efile.events[n] = e
       /\ \A m \in DOMAIN file.events : m # n => efile.events[m] = file.events[m]
  <2>1. IsStore(gfile) /\ n \in Nat \ {0}
    BY <1>4, <1>8
  <2>2. /\ DOMAIN efile.events = DOMAIN gfile.events \cup {n} /\ efile.events[n] = e
        /\ \A m \in DOMAIN gfile.events : m # n => efile.events[m] = gfile.events[m]
    BY ONLY <2>1, EventApplied
  <2> QED
    BY <1>4, <2>2
<1>w. Write(gfile, EventRecord(n, e), oe) = gfile \/ Write(gfile, EventRecord(n, e), oe) = efile
  <2> DEFINE er == EventRecord(n, e)
  <2> HIDE DEF er
  <2> QED
    BY <1>2, <1>4, Written
<1> HIDE DEF efile
<1>11. CASE oe # "ok"
  <2>1. /\ file' = gfile \/ file' = efile
        /\ mem' = gmem /\ hist' = hist
    BY <1>7, <1>11, <1>w
  <2>2. \A m \in DOMAIN file'.events :
          \/ m \in DOMAIN file.events /\ file'.events[m] = file.events[m]
          \/ m = n /\ file'.events[m] = e
    BY <1>4, <1>10, <2>1
  <2>3. Whole(file', mem')
    <3> SUFFICES ASSUME NEW m \in DOMAIN file'.events, m <= mem'.last PROVE m \in DOMAIN mem'.events
      BY DEF Whole
    <3>1. m # n
      BY <1>3, <1>8, <2>1 DEF n
    <3> QED
      BY <1>3, <2>1, <2>2, <3>1 DEF Whole, BookInv
  <2>4. Numbered(file', hist')
    <3> SUFFICES ASSUME NEW m \in DOMAIN file'.events, file'.events[m].id \in DOMAIN hist.persisted
                 PROVE  hist.persisted[file'.events[m].id] = m
      BY <2>1 DEF Numbered
    <3>1. file'.events[m] # e
      BY <1>8 DEF BookInv
    <3> QED
      BY <2>2, <3>1 DEF Numbered, BookInv
  <2>5. Ahead(mem, mem')
    BY <1>3, <1>8, <2>1 DEF Ahead
  <2>6. DOMAIN hist'.persisted \subseteq 1..count'.events
    BY <1>6, <1>8, <2>1 DEF BookInv
  <2> QED
    BY <1>11, <2>1, <2>3, <2>4, <2>5, <2>6 DEF BookStep, BookInv, HistShape
<1>12. CASE oe = "ok"
  <2> DEFINE st == Apply(gmem, EventRecord(n, e))
  <2>1. /\ IsStore(st) /\ DOMAIN st.events = DOMAIN mem.events \cup {n} /\ st.events[n] = e
        /\ \A m \in DOMAIN mem.events : m # n => st.events[m] = mem.events[m]
        /\ st.last = Bigger(mem.last, n)
    <3>1. IsStore(gmem) /\ n \in Nat \ {0}
      BY <1>3, <1>8
    <3>2. /\ IsStore(st) /\ DOMAIN st.events = DOMAIN gmem.events \cup {n} /\ st.events[n] = e
          /\ \A m \in DOMAIN gmem.events : m # n => st.events[m] = gmem.events[m]
          /\ st.last = Bigger(gmem.last, n)
      BY ONLY <3>1, EventApplied
    <3> QED
      BY <1>3, <3>2
  <2>2. st.last = n
    BY <1>8, <2>1 DEF Bigger, n
  <2>3. AddEvent(gfile, gmem, n, e) = MaybeCompact(efile, st)
    BY <1>4 DEF AddEvent, Write, efile
  <2> HIDE DEF st
  <2> DEFINE done == MaybeCompact(efile, st)
  <2>4. /\ done.mem.last = st.last /\ DOMAIN done.mem.events \subseteq DOMAIN st.events
        /\ \A m \in DOMAIN done.mem.events : done.mem.events[m] = st.events[m]
        /\ \/ done.file.events = done.mem.events
           \/ done.file = efile /\ done.mem = st
    BY <2>1, CompactedBoth
  <2>5. file' = done.file /\ mem' = done.mem
    BY <1>7, <1>12, <2>3
  <2> HIDE DEF done
  <2>6. mem'.last = n /\ \A m \in DOMAIN mem'.events : m # n => m \in DOMAIN mem.events /\ mem'.events[m] = mem.events[m]
    BY <2>1, <2>2, <2>4, <2>5
  <2>7. \A m \in DOMAIN file'.events :
          \/ m \in DOMAIN file.events /\ file'.events[m] = file.events[m] /\ m # n
          \/ m = n /\ file'.events[m] = e
    <3> SUFFICES ASSUME NEW m \in DOMAIN file'.events
                 PROVE  \/ m \in DOMAIN file.events /\ file'.events[m] = file.events[m] /\ m # n
                        \/ m = n /\ file'.events[m] = e
      OBVIOUS
    <3>1. CASE done.file = efile
      BY <1>10, <2>5, <3>1
    <3>2. CASE done.file.events = done.mem.events
      <4>1. m \in DOMAIN st.events /\ file'.events[m] = st.events[m]
        BY <2>4, <2>5, <3>2
      <4>2. \A k \in DOMAIN mem.events : k \in DOMAIN file.events /\ file.events[k] = mem.events[k]
        BY DEF BookInv, DiskInv, Agree
      <4> QED
        BY <2>1, <4>1, <4>2
    <3> QED
      BY <2>4, <3>1, <3>2
  <2>8. Whole(file', mem')
    <3>1. CASE done.file.events = done.mem.events
      BY <2>5, <3>1 DEF Whole
    <3>2. CASE done.file = efile /\ done.mem = st
      <4> SUFFICES ASSUME NEW m \in DOMAIN file'.events, m <= mem'.last PROVE m \in DOMAIN mem'.events
        BY DEF Whole
      <4>1. DOMAIN mem'.events = DOMAIN mem.events \cup {n}
        BY <2>1, <2>5, <3>2
      <4>2. CASE m # n
        <5>1. m \in DOMAIN file.events
          BY <2>7, <4>2
        <5>2. m <= mem.last
          BY <1>8, <1>9, <2>6, <4>2, <5>1 DEF n
        <5> QED
          BY <4>1, <5>1, <5>2 DEF Whole, BookInv
      <4> QED
        BY <4>1, <4>2
    <3> QED
      BY <2>4, <3>1, <3>2
  <2>9. hist'.persisted = Put(hist.persisted, count.events + 1, n) /\ hist'.regressed = hist.regressed
    <3> DEFINE P == Put(hist.persisted, count.events + 1, n)
    <3>1. hist' = [hist EXCEPT !.persisted = P]
      BY <1>7, <1>12
    <3> HIDE DEF P
    <3> QED
      BY <3>1 DEF BookInv, HistShape, P
  <2>10. /\ DOMAIN hist'.persisted = DOMAIN hist.persisted \cup {count.events + 1}
         /\ hist'.persisted[count.events + 1] = n
         /\ \A i \in DOMAIN hist.persisted : i # count.events + 1 => hist'.persisted[i] = hist.persisted[i]
    <3> DEFINE i == count.events + 1
    <3> DEFINE P == Put(hist.persisted, i, n)
    <3>1. DOMAIN P = DOMAIN hist.persisted \cup {i} /\ P[i] = n /\ \A x \in DOMAIN hist.persisted : x # i => P[x] = hist.persisted[x]
      <4> DEFINE p == hist.persisted
      <4> HIDE DEF i, p
      <4>1. /\ DOMAIN Put(p, i, n) = DOMAIN p \cup {i} /\ Put(p, i, n)[i] = n
            /\ \A x \in DOMAIN p : x # i => Put(p, i, n)[x] = p[x]
        BY DEF Put
      <4> QED
        BY <4>1 DEF p
    <3>2. hist'.persisted = P
      BY <2>9
    <3> HIDE DEF P
    <3> QED
      BY <3>1, <3>2
  <2>11. Numbered(file', hist')
    <3> SUFFICES ASSUME NEW m \in DOMAIN file'.events, file'.events[m].id \in DOMAIN hist'.persisted
                 PROVE  hist'.persisted[file'.events[m].id] = m
      BY DEF Numbered
    <3>1. CASE m = n
      BY <1>8, <2>7, <2>10, <3>1
    <3>2. CASE m # n
      <4>1. m \in DOMAIN file.events /\ file'.events[m] = file.events[m]
        BY <2>7, <3>2
      <4>2. file.events[m].id # count.events + 1
        <5>1. file.events[m].id \in Nat
          <6>1. file.events[m] \in Entry(count)
            BY <4>1 DEF LogOK, StoreOK
          <6> QED
            BY <1>8, <6>1 DEF Entry
        <5> QED
          BY <1>8, <1>9, <4>1, <5>1
      <4> QED
        BY <2>10, <4>1, <4>2 DEF Numbered, BookInv
    <3> QED
      BY <3>1, <3>2
  <2>12. Ahead(mem, mem')
    BY <1>8, <2>6 DEF Ahead, n
  <2>13. DOMAIN hist'.persisted \subseteq 1..count'.events
    BY <1>6, <1>8, <2>10 DEF BookInv
  <2>14. BookStep
    BY <2>8, <2>9, <2>11, <2>12, <2>13 DEF BookStep, BookInv, HistShape
  <2>15. n \in DOMAIN mem'.events => mem'.events[n] = e
    BY <2>1, <2>4, <2>5
  <2> QED
    BY <2>14, <2>15 DEF n, e
<1> QED
  BY <1>11, <1>12

\* A start keeps only what the file has, and of that what the memory had.
LEMMA BootBook ==
    ASSUME BookInv, DiskInv', NEW f, IsStore(f), f.torn = FALSE, f.events = file.events,
           NEW aged, Boot(f, aged), count'.events = count.events
    PROVE  BookStep /\ HistShape(hist')
<1> DEFINE l == Load(f, aged)
<1>1. /\ l.file.events = l.mem.events /\ DOMAIN l.mem.events \subseteq DOMAIN f.events
      /\ \A n \in DOMAIN l.mem.events : l.mem.events[n] = f.events[n]
  BY LoadedOf
<1>2. file' = l.file /\ mem' = l.mem /\ hist' = [hist EXCEPT !.aged = aged, !.regressed = @ \/ l.mem.last < mem.last]
  BY DEF Boot
<1> HIDE DEF l
<1> DEFINE back == hist.regressed \/ l.mem.last < mem.last
<1>3. back \in BOOLEAN /\ hist' = [hist EXCEPT !.aged = aged, !.regressed = back]
  BY <1>2 DEF BookInv, HistShape
<1> HIDE DEF back
<1>4. hist'.persisted = hist.persisted /\ hist'.regressed = back /\ HistShape(hist')
  BY <1>3 DEF BookInv, HistShape
<1>5. Whole(file', mem') /\ Numbered(file', hist')
  BY <1>1, <1>2, <1>4 DEF Whole, Numbered, BookInv
<1>6. ASSUME ~back PROVE ~hist.regressed /\ Ahead(mem, mem')
  <2>1. ~hist.regressed /\ ~(l.mem.last < mem.last)
    BY <1>6 DEF back
  <2>2. mem.last \in Nat /\ mem'.last \in Nat
    BY DEF BookInv, DiskInv, Agree, IsStore
  <2>3. mem.last <= mem'.last
    BY <1>2, <2>1, <2>2
  <2>4. ASSUME NEW n \in DOMAIN mem'.events, n <= mem.last
        PROVE  n \in DOMAIN mem.events /\ mem'.events[n] = mem.events[n]
    BY <1>1, <1>2, <2>4 DEF BookInv, Whole, DiskInv, Agree
  <2> QED
    BY <2>1, <2>3, <2>4 DEF Ahead
<1>7. BookInv'
  BY <1>4, <1>5 DEF BookInv
<1>8. hist'.regressed \/ (~hist.regressed /\ Ahead(mem, mem'))
  BY <1>4, <1>6
<1> QED
  BY <1>4, <1>7, <1>8 DEF BookStep

\* A page is history only by the events it passes over.
LEMMA PageBook ==
    ASSUME BookInv, DiskInv', NEW st, ServePage(st), UNCHANGED <<file, mem, count>>
    PROVE  BookStep /\ HistGrows
<1>1. hist' = hist \/ \E x, y : hist' = [hist EXCEPT !.stale = hist.stale \cup x, !.slipped = hist.slipped \cup y]
  <2>1. CASE st.overflowed
    BY <2>1 DEF ServePage
  <2>2. CASE ~st.overflowed
    <3> DEFINE page == Page(st)
    <3> DEFINE live == Drained([st EXCEPT !.delivered = PageEnd(st)])
    <3> DEFINE x == PassedStale(page.skipped) \cup (IF page.hasMore THEN {} ELSE PassedStale(live.skipped))
    <3> DEFINE y == Slipped(st, page.skipped)
    <3>1. hist' = [hist EXCEPT !.stale = hist.stale \cup x, !.slipped = hist.slipped \cup y]
      <4>1. hist' = [hist EXCEPT !.stale = @ \cup PassedStale(page.skipped)
                                   \cup (IF page.hasMore THEN {} ELSE PassedStale(live.skipped)),
                                 !.slipped = @ \cup Slipped(st, page.skipped)]
        BY <2>2 DEF ServePage
      <4> HIDE DEF page, live
      <4> QED
        BY <4>1
    <3> HIDE DEF x, y
    <3> QED
      BY <3>1
  <2> QED
    BY <2>1, <2>2
<1>2. HistShape(hist') /\ hist'.persisted = hist.persisted /\ hist'.regressed = hist.regressed
      /\ HistGrows
  <2>1. CASE hist' = hist
    BY <2>1 DEF BookInv, HistGrows
  <2>2. ASSUME NEW x, NEW y,
               hist' = [hist EXCEPT !.stale = hist.stale \cup x, !.slipped = hist.slipped \cup y]
        PROVE  HistShape(hist') /\ hist'.persisted = hist.persisted /\ hist'.regressed = hist.regressed
               /\ HistGrows
    BY <2>2 DEF BookInv, HistShape, HistGrows
  <2> QED
    BY <1>1, <2>1, <2>2
<1>3. Quiet
  BY <1>2 DEF Quiet
<1> QED
  BY <1>2, <1>3, QuietBook

LEMMA EdgeBook ==
    ASSUME Harmless, BookInv, DiskInv', LogOK, NEW s \in Sources, EdgeDown(s)
    PROVE  BookStep /\ HistGrows
<1>1. CASE ~Heard(s)
  <2>1. UNCHANGED <<file, mem, count, hist>>
    BY <1>1 DEF EdgeDown, Untouched
  <2>2. Quiet /\ HistShape(hist')
    BY <2>1 DEF Quiet, BookInv
  <2> QED
    BY <2>1, <2>2, QuietBook DEF HistGrows
<1>2. CASE Heard(s)
  <2>1. PICK og \in Outcomes, oe \in Outcomes : CompleteTask(s, og, oe)
    BY <1>2 DEF EdgeDown
  <2>2. HistShape(hist') /\ HistGrows
    <3>1. hist' = hist \/ \E p : hist' = [hist EXCEPT !.persisted = p]
      BY <2>1 DEF CompleteTask
    <3>2. ASSUME NEW p, hist' = [hist EXCEPT !.persisted = p]
          PROVE  HistShape(hist') /\ HistGrows
      BY <3>2 DEF BookInv, HistShape, HistGrows
    <3> QED
      BY <3>1, <3>2 DEF BookInv, HistGrows
  <2> QED
    BY <2>1, <2>2, CompleteTaskBook
<1> QED
  BY <1>1, <1>2

\* No step makes the log go back on what it has said, unless its numbers go back.
LEMMA BookKept ==
    ASSUME Harmless, BookInv, WireInv, [Next]_vars
    PROVE  BookStep /\ HistGrows
<1>0. DiskInv /\ DiskInv' /\ LogOK /\ HistShape(hist)
  BY StepsStayOnDisk DEF BookInv, WireInv
<1>a. ASSUME Quiet, hist' = hist PROVE BookStep /\ HistGrows
  BY <1>0, <1>a, QuietBook DEF HistGrows
<1>b. ASSUME UNCHANGED <<file, mem, count, hist>> PROVE BookStep /\ HistGrows
  BY <1>a, <1>b DEF Quiet
<1>1. ASSUME NEW s \in Sources, AgentStart(s) PROVE BookStep /\ HistGrows
  BY <1>0, <1>1, <1>a, <1>b, BeginTaskQuiet DEF AgentStart, Untouched
<1>2. ASSUME NEW s \in Sources, AgentEnd(s) PROVE BookStep /\ HistGrows
  BY <1>0, <1>2, EdgeBook DEF AgentEnd
<1>3. ASSUME NEW s \in Sources, AgentSettled(s) PROVE BookStep /\ HistGrows
  BY <1>0, <1>3, EdgeBook DEF AgentSettled
<1>4. ASSUME NEW s \in Sources, AgentAborted(s) PROVE BookStep /\ HistGrows
  BY <1>0, <1>4, <1>a, <1>b, AbortTaskQuiet DEF AgentAborted, Untouched
<1>5. ASSUME NEW s \in Sources, DesktopSnapshot(s) PROVE BookStep /\ HistGrows
  BY <1>0, <1>5, <1>a, BeginTaskQuiet DEF DesktopSnapshot, Adopt
<1>6. ASSUME NEW s \in Sources, RegisterStart(s) PROVE BookStep /\ HistGrows
  BY <1>6, <1>b DEF RegisterStart
<1>7. ASSUME NEW s \in Sources, RegisterDone(s) PROVE BookStep /\ HistGrows
  BY <1>0, <1>7, <1>a, <1>b, BeginTaskQuiet DEF RegisterDone, Adopt, Untouched
<1>c. ASSUME UNCHANGED <<file, mem, hist>>, count' = [count EXCEPT !.mishaps = count.mishaps + 1]
      PROVE  BookStep /\ HistGrows
  <2>1. count'.events = count.events
    BY <1>0, <1>c DEF LogOK, Counts
  <2> QED
    BY <1>a, <1>c, <2>1 DEF Quiet
<1>8. ASSUME NEW s \in Sources, DesktopClosed(s) PROVE BookStep /\ HistGrows
  BY <1>8, <1>c DEF DesktopClosed
<1>d. ASSUME NEW f, NEW aged, Boot(f, aged), IsStore(f), f.torn = FALSE, f.events = file.events,
             count' = [count EXCEPT !.mishaps = count.mishaps + 1]
      PROVE  BookStep /\ HistGrows
  <2>1. count'.events = count.events
    BY <1>0, <1>d DEF LogOK, Counts
  <2>2. HistGrows
    <3> DEFINE back == hist.regressed \/ Load(f, aged).mem.last < mem.last
    <3>1. hist' = [hist EXCEPT !.aged = aged, !.regressed = back]
      BY <1>d DEF Boot
    <3> HIDE DEF back
    <3> QED
      BY <1>0, <3>1 DEF HistShape, HistGrows
  <2> QED
    BY <1>0, <1>d, <2>1, <2>2, BootBook
<1>e. IsStore(file) /\ file.torn = FALSE
  BY <1>0 DEF DiskInv, Agree
<1>9. ASSUME HubRestart PROVE BookStep /\ HistGrows
  BY <1>9, <1>d, <1>e DEF HubRestart
<1>10. ASSUME NEW s \in Sources, HubStopsInBetween(s) PROVE BookStep /\ HistGrows
  <2> DEFINE r == GenRecord(det[s].active, s, "completed")
  <2> DEFINE f == Write(file, r, "ok")
  <2>1. Boot(f, hist.aged) /\ count' = [count EXCEPT !.mishaps = count.mishaps + 1]
    BY <1>10 DEF HubStopsInBetween
  <2>2. IsStore(Apply(file, r)) /\ Apply(file, r).torn = FALSE /\ Apply(file, r).events = file.events
    BY <1>e, GenerationApplied
  <2> HIDE DEF r
  <2>3. f = Apply(file, r)
    BY <1>e DEF Write
  <2> HIDE DEF f
  <2> QED
    BY <1>d, <2>1, <2>2, <2>3
<1>11. ASSUME HubSubscribe PROVE BookStep /\ HistGrows
  <2>1. UNCHANGED <<file, mem, count>> /\ (hist' = hist \/ \E st : ServePage(st))
    BY <1>11 DEF HubSubscribe
  <2> QED
    BY <1>0, <1>b, <2>1, PageBook
<1>12. ASSUME HubNextPage PROVE BookStep /\ HistGrows
  <2>1. UNCHANGED <<file, mem, count>> /\ (hist' = hist \/ ServePage(sub))
    BY <1>12 DEF HubNextPage
  <2> QED
    BY <1>0, <1>b, <2>1, PageBook
<1>13. ASSUME HubAck PROVE BookStep /\ HistGrows
  BY <1>0, <1>13, <1>a, AckQuiet DEF HubAck
<1>14. ASSUME PhoneConnect \/ Glance PROVE BookStep /\ HistGrows
  BY <1>14, <1>b DEF PhoneConnect, Glance
<1>15. ASSUME Drop PROVE BookStep /\ HistGrows
  BY <1>15, <1>c DEF Drop
<1>16. ASSUME PhoneEvents \/ PhoneReady \/ PhoneRestarts PROVE BookStep /\ HistGrows
  BY <1>16, <1>b DEF PhoneEvents, PhoneReady, PhoneRestarts
<1>17. ASSUME UNCHANGED vars PROVE BookStep /\ HistGrows
  BY <1>17, <1>b DEF vars
<1> QED
  BY <1>1, <1>2, <1>3, <1>4, <1>5, <1>6, <1>7, <1>8, <1>9, <1>10, <1>11, <1>12, <1>13, <1>14,
     <1>15, <1>16, <1>17 DEF Next

-----------------------------------------------------------------------------
(* What a cursor claims.                                                   *)

\* The user has had the event, or needs it no more.
Had(id, p, h) == id \in p.shown \/ id <= p.window \/ id \in h.stale \cup h.slipped

\* The log has nothing under a number, or the user has had what is there.
Seen(n, m, p, h) == n \in DOMAIN m.events => Had(m.events[n].id, p, h)

SeenTo(c, m, p, h) == c <= m.last /\ \A n \in 1..c : Seen(n, m, p, h)

\* One of the frames before the i-th tells the number.
Carried(n, d, i) == \E j \in 1..(i - 1) : n \in Numbers(d[j])

\* All up to a number is seen, or will be when the frames before the i-th have come in.
DueTo(c, i, m, d, p, h) == c <= m.last /\ \A n \in 1..c : Seen(n, m, p, h) \/ Carried(n, d, i)

\* The events under way are those of the log, as far as it still has them.
Copies(b, m) == \A n \in DOMAIN b : n \in DOMAIN m.events => m.events[n] = b[n]

FrameFair(f, i, m, d, p, h) ==
    /\ f.k = "events" => /\ Copies(f.events, m) /\ DueTo(f.from, i, m, d, p, h)
                         /\ \A n \in f.skipped : Seen(n, m, p, h)
    /\ f.k = "expired" => SeenTo(f.oldest - 1, m, p, h)

FramesFair(m, d, p, h) == \A i \in 1..Len(d) : FrameFair(d[i], i, m, d, p, h)

AsksFair(m, u, p, h) ==
    \A a \in ToSet(u) : a.k = "subscribe" => SeenTo(a.cursor, m, p, h)

SubFair(m, sb) == sb # NoSub => Copies(sb.buffer, m)

\* The phone has asked for the next page, or is about to.
Asking(u, d) == (\E a \in ToSet(u) : a.k = "next_page") \/ (\E f \in ToSet(d) : f.k = "events" /\ f.hasMore)

\* The next page goes on where the frames under way end.
Paced(m, sb, u, d, p, h) ==
    Asking(u, d) => sb # NoSub /\ DueTo(sb.delivered, Len(d) + 1, m, d, p, h)

PhoneFair(m, p, h) ==
    /\ SeenTo(p.cursor, m, p, h) /\ SeenTo(p.through, m, p, h)
    /\ \A n \in p.got : n <= m.last /\ Seen(n, m, p, h)

CursorOK(m, sb, u, d, p, h) ==
    /\ PhoneFair(m, p, h) /\ FramesFair(m, d, p, h) /\ AsksFair(m, u, p, h)
    /\ SubFair(m, sb) /\ Paced(m, sb, u, d, p, h)

\* What makes claims stay true: the log goes on, and the user has had more.
More(m, p, h, m2, p2, h2) ==
    /\ Ahead(m, m2) /\ m.last \in Nat /\ m2.last \in Nat
    /\ \A n \in DOMAIN m.events : m.events[n].id \in Nat
    /\ p.window \in Nat /\ p2.window \in Nat /\ p.window <= p2.window
    /\ p.shown \subseteq p2.shown /\ h.stale \subseteq h2.stale /\ h.slipped \subseteq h2.slipped

LEMMA SeenMore ==
    ASSUME NEW m, NEW p, NEW h, NEW m2, NEW p2, NEW h2, More(m, p, h, m2, p2, h2),
           NEW n, n <= m.last, Seen(n, m, p, h)
    PROVE  Seen(n, m2, p2, h2)
<1> SUFFICES ASSUME n \in DOMAIN m2.events PROVE Had(m2.events[n].id, p2, h2)
  BY DEF Seen
<1> DEFINE id == m.events[n].id
<1>1. n \in DOMAIN m.events /\ m2.events[n].id = id
  BY DEF More, Ahead
<1>2. Had(id, p, h) /\ id \in Nat
  BY <1>1 DEF Seen, More
<1> HIDE DEF id
<1>3. Had(id, p2, h2)
  BY <1>2 DEF Had, More
<1> QED
  BY <1>1, <1>3

LEMMA SeenToMore ==
    ASSUME NEW m, NEW p, NEW h, NEW m2, NEW p2, NEW h2, More(m, p, h, m2, p2, h2),
           NEW c \in Nat \cup {-1}, SeenTo(c, m, p, h)
    PROVE  SeenTo(c, m2, p2, h2)
<1>1. c <= m.last /\ m.last \in Nat /\ m2.last \in Nat /\ m.last <= m2.last
  BY DEF SeenTo, More, Ahead
<1>2. ASSUME NEW n \in 1..c PROVE Seen(n, m2, p2, h2)
  <2>1. n <= m.last
    BY <1>1
  <2>2. Seen(n, m, p, h)
    BY DEF SeenTo
  <2> QED
    BY <2>1, <2>2, SeenMore
<1> QED
  BY <1>1, <1>2 DEF SeenTo

LEMMA DueToMore ==
    ASSUME NEW m, NEW p, NEW h, NEW m2, NEW p2, NEW h2, More(m, p, h, m2, p2, h2),
           NEW d, NEW i, NEW q, NEW k,
           \A n \in Nat : Carried(n, d, i) => Carried(n, q, k) \/ Seen(n, m2, p2, h2),
           NEW c \in Nat \cup {-1}, DueTo(c, i, m, d, p, h)
    PROVE  DueTo(c, k, m2, q, p2, h2)
<1>1. c <= m.last /\ m.last \in Nat /\ m2.last \in Nat /\ m.last <= m2.last
  BY DEF DueTo, More, Ahead
<1>2. ASSUME NEW n \in 1..c PROVE Seen(n, m2, p2, h2) \/ Carried(n, q, k)
  <2>1. n <= m.last /\ n \in Nat
    BY <1>1
  <2>2. Seen(n, m, p, h) \/ Carried(n, d, i)
    BY DEF DueTo
  <2>3. CASE Seen(n, m, p, h)
    BY <2>1, <2>3, SeenMore
  <2>4. CASE Carried(n, d, i)
    BY <2>1, <2>4
  <2> QED
    BY <2>2, <2>3, <2>4
<1> QED
  BY <1>1, <1>2 DEF DueTo

LEMMA CopiesMore ==
    ASSUME NEW m, NEW m2, Ahead(m, m2), NEW b, \A n \in DOMAIN b : n <= m.last, Copies(b, m)
    PROVE  Copies(b, m2)
BY DEF Ahead, Copies

LEMMA FrameMore ==
    ASSUME NEW m, NEW p, NEW h, NEW m2, NEW p2, NEW h2, More(m, p, h, m2, p2, h2),
           NEW d, NEW i, NEW q, NEW k,
           \A n \in Nat : Carried(n, d, i) => Carried(n, q, k) \/ Seen(n, m2, p2, h2),
           NEW f \in Frames, \A n \in Numbers(f) : n <= m.last, FrameFair(f, i, m, d, p, h)
    PROVE  FrameFair(f, k, m2, q, p2, h2)
<1>1. CASE f.k = "events"
  <2>1. f \in [k : {"events"}, from : Nat \cup {-1}, hasMore : BOOLEAN, events : Batches, skipped : SUBSET Nat]
    BY <1>1 DEF Frames
  <2>2. f.from \in Nat \cup {-1} /\ Numbers(f) = DOMAIN f.events \cup f.skipped
    BY <1>1, <2>1 DEF Numbers
  <2>3. Copies(f.events, m) /\ DueTo(f.from, i, m, d, p, h) /\ \A n \in f.skipped : Seen(n, m, p, h)
    BY <1>1 DEF FrameFair
  <2>4. Copies(f.events, m2)
    <3>1. \A n \in DOMAIN f.events : n <= m.last
      BY <2>2
    <3> QED
      BY <2>3, <3>1, CopiesMore DEF More
  <2>5. DueTo(f.from, k, m2, q, p2, h2)
    BY <2>2, <2>3, DueToMore
  <2>6. ASSUME NEW n \in f.skipped PROVE Seen(n, m2, p2, h2)
    BY <2>2, <2>3, <2>6, SeenMore
  <2> QED
    BY <1>1, <2>4, <2>5, <2>6 DEF FrameFair
<1>2. CASE f.k = "expired"
  <2>1. f \in [k : {"expired"}, oldest : Nat]
    BY <1>2 DEF Frames
  <2>2. f.oldest - 1 \in Nat \cup {-1}
    BY <2>1
  <2>3. SeenTo(f.oldest - 1, m2, p2, h2)
    BY <1>2, <2>2, SeenToMore DEF FrameFair
  <2> QED
    BY <1>2, <2>3 DEF FrameFair
<1>3. CASE f.k # "events" /\ f.k # "expired"
  BY <1>3 DEF FrameFair
<1> QED
  BY <1>1, <1>2, <1>3

Extends(d, q) == Len(d) <= Len(q) /\ \A i \in 1..Len(d) : q[i] = d[i]

LEMMA CarriedExtends ==
    ASSUME NEW d \in Seq(Frames), NEW q, Extends(d, q), NEW i \in 1..(Len(d) + 1), NEW n, Carried(n, d, i)
    PROVE  Carried(n, q, i)
<1>1. Len(d) \in Nat
  BY LenProperties
<1>2. \A j \in 1..(i - 1) : q[j] = d[j]
  <2> SUFFICES ASSUME NEW j \in 1..(i - 1) PROVE q[j] = d[j]
    OBVIOUS
  <2>1. j \in 1..Len(d)
    BY <1>1
  <2> QED
    BY <2>1 DEF Extends
<1> QED
  BY <1>2 DEF Carried

LEMMA DownFrames ==
    ASSUME NEW l, NEW d, DownOK(l, d)
    PROVE  /\ d \in Seq(Frames) /\ Len(d) \in Nat
           /\ \A i \in 1..Len(d) : d[i] \in Frames /\ d[i] \in ToSet(d) /\ \A n \in Numbers(d[i]) : n <= l
<1>1. d \in Seq(Frames)
  BY DEF DownOK
<1>2. DOMAIN d = 1..Len(d) /\ Len(d) \in Nat /\ \A i \in 1..Len(d) : d[i] \in Frames
  BY <1>1, LenProperties, ElementOfSeq
<1>3. \A i \in 1..Len(d) : d[i] \in ToSet(d)
  BY <1>2 DEF ToSet
<1> QED
  BY <1>1, <1>2, <1>3 DEF DownOK

\* The frames that were there keep what they say when others are put behind them.
LEMMA FramesExtend ==
    ASSUME NEW m, NEW p, NEW h, NEW m2, NEW p2, NEW h2, More(m, p, h, m2, p2, h2),
           NEW d, DownOK(m.last, d), FramesFair(m, d, p, h), NEW q, Extends(d, q),
           NEW i \in 1..Len(d)
    PROVE  FrameFair(q[i], i, m2, q, p2, h2)
<1>1. /\ d \in Seq(Frames) /\ Len(d) \in Nat
      /\ d[i] \in Frames /\ \A n \in Numbers(d[i]) : n <= m.last
  BY DownFrames
<1>2. \A n \in Nat : Carried(n, d, i) => Carried(n, q, i) \/ Seen(n, m2, p2, h2)
  <2>1. i \in 1..(Len(d) + 1)
    BY <1>1
  <2> QED
    BY <1>1, <2>1, CarriedExtends
<1>3. FrameFair(d[i], i, m, d, p, h)
  BY DEF FramesFair
<1>4. FrameFair(d[i], i, m2, q, p2, h2)
  BY <1>1, <1>2, <1>3, FrameMore
<1>5. q[i] = d[i]
  BY DEF Extends
<1> QED
  BY <1>4, <1>5

LEMMA DueExtends ==
    ASSUME NEW m, NEW p, NEW h, NEW m2, NEW p2, NEW h2, More(m, p, h, m2, p2, h2),
           NEW d \in Seq(Frames), NEW q, Extends(d, q), NEW i \in 1..(Len(d) + 1), NEW k \in Int, i <= k,
           NEW c \in Nat \cup {-1}, DueTo(c, i, m, d, p, h)
    PROVE  DueTo(c, k, m2, q, p2, h2)
<1>1. ASSUME NEW n, Carried(n, d, i) PROVE Carried(n, q, k)
  <2>1. Carried(n, q, i)
    BY <1>1, CarriedExtends
  <2>2. i \in Nat
    BY LenProperties
  <2>3. 1..(i - 1) \subseteq 1..(k - 1)
    BY <2>2
  <2> QED
    BY <2>1, <2>3 DEF Carried
<1> QED
  BY <1>1, DueToMore

\* A frame comes in: what it told is seen, and the others move up.
LEMMA CarriedTaken ==
    ASSUME NEW d \in Seq(Frames), d # <<>>, NEW i \in 1..(Len(d) + 1), NEW n, Carried(n, d, i),
           n \notin Numbers(Head(d))
    PROVE  Carried(n, Tail(d), i - 1)
<1> DEFINE q == Tail(d)
<1>1. Len(q) = Len(d) - 1 /\ \A j \in 1..Len(q) : q[j] = d[j + 1]
  BY HeadTailProperties
<1>2. Head(d) = d[1] /\ Len(d) \in Nat
  BY LenProperties
<1> HIDE DEF q
<1>3. PICK j \in 1..(i - 1) : n \in Numbers(d[j])
  BY DEF Carried
<1>4. j # 1
  BY <1>2, <1>3
<1>5. j - 1 \in 1..((i - 1) - 1) /\ j - 1 \in 1..Len(q) /\ (j - 1) + 1 = j
  BY <1>1, <1>2, <1>4
<1>6. q[j - 1] = d[j]
  BY <1>1, <1>5
<1>7. Carried(n, q, i - 1)
  BY <1>3, <1>5, <1>6 DEF Carried
<1> QED
  BY <1>7 DEF q

LEMMA FramesTaken ==
    ASSUME NEW m, NEW p, NEW h, NEW m2, NEW p2, NEW h2, More(m, p, h, m2, p2, h2),
           NEW d, DownOK(m.last, d), FramesFair(m, d, p, h), d # <<>>,
           \A n \in Numbers(Head(d)) : Seen(n, m2, p2, h2)
    PROVE  /\ FramesFair(m2, Tail(d), p2, h2)
           /\ \A c \in Nat \cup {-1} : DueTo(c, Len(d) + 1, m, d, p, h)
                 => DueTo(c, Len(Tail(d)) + 1, m2, Tail(d), p2, h2)
<1> DEFINE q == Tail(d)
<1>1. d \in Seq(Frames) /\ Len(d) \in Nat
  BY DownFrames
<1>2. Len(q) = Len(d) - 1 /\ \A j \in 1..Len(q) : q[j] = d[j + 1]
  BY <1>1, HeadTailProperties
<1>3. ASSUME NEW i \in 1..(Len(d) + 1), NEW n \in Nat, Carried(n, d, i)
      PROVE  Carried(n, q, i - 1) \/ Seen(n, m2, p2, h2)
  BY <1>1, <1>3, CarriedTaken
<1> HIDE DEF q
<1>4. ASSUME NEW j \in 1..Len(q) PROVE FrameFair(q[j], j, m2, q, p2, h2)
  <2> DEFINE i == j + 1
  <2>1. i \in 1..Len(d) /\ i \in 1..(Len(d) + 1) /\ i - 1 = j
    BY <1>1, <1>2
  <2>2. q[j] = d[i]
    BY <1>2
  <2> HIDE DEF i
  <2>3. d[i] \in Frames /\ \A n \in Numbers(d[i]) : n <= m.last
    BY <2>1, DownFrames
  <2>4. FrameFair(d[i], i, m, d, p, h)
    BY <2>1 DEF FramesFair
  <2>5. \A n \in Nat : Carried(n, d, i) => Carried(n, q, j) \/ Seen(n, m2, p2, h2)
    BY <1>3, <2>1
  <2>6. FrameFair(d[i], j, m2, q, p2, h2)
    BY <2>3, <2>4, <2>5, FrameMore
  <2> QED
    BY <2>2, <2>6
<1>5. ASSUME NEW c \in Nat \cup {-1}, DueTo(c, Len(d) + 1, m, d, p, h)
      PROVE  DueTo(c, Len(q) + 1, m2, q, p2, h2)
  <2>1. Len(d) + 1 \in 1..(Len(d) + 1) /\ (Len(d) + 1) - 1 = Len(q) + 1
    BY <1>1, <1>2
  <2>2. \A n \in Nat : Carried(n, d, Len(d) + 1) => Carried(n, q, Len(q) + 1) \/ Seen(n, m2, p2, h2)
    BY <1>3, <2>1
  <2> QED
    BY <1>5, <2>2, DueToMore
<1>6. FramesFair(m2, q, p2, h2)
  BY <1>4 DEF FramesFair
<1> QED
  BY <1>5, <1>6 DEF q

LEMMA AsksMore ==
    ASSUME NEW m, NEW p, NEW h, NEW m2, NEW p2, NEW h2, More(m, p, h, m2, p2, h2),
           NEW u \in Seq(Asks), AsksFair(m, u, p, h)
    PROVE  AsksFair(m2, u, p2, h2)
<1> SUFFICES ASSUME NEW a \in ToSet(u), a.k = "subscribe"
             PROVE  SeenTo(a.cursor, m2, p2, h2)
  BY DEF AsksFair
<1>1. a \in Asks
  <2>1. DOMAIN u = 1..Len(u) /\ \A i \in 1..Len(u) : u[i] \in Asks
    BY LenProperties, ElementOfSeq
  <2> QED
    BY <2>1 DEF ToSet
<1>2. a \in [k : {"subscribe"}, cursor : Nat \cup {-1}, window : Nat]
  BY <1>1 DEF Asks
<1>3. a.cursor \in Nat \cup {-1}
  BY <1>2
<1>4. SeenTo(a.cursor, m, p, h)
  BY DEF AsksFair
<1> QED
  BY <1>3, <1>4, SeenToMore

LEMMA PhoneMore ==
    ASSUME NEW m, NEW p, NEW h, NEW m2, NEW p2, NEW h2, More(m, p, h, m2, p2, h2),
           p \in Phones, PhoneFair(m, p, h),
           p2.cursor = p.cursor, p2.through = p.through, p2.got = p.got
    PROVE  PhoneFair(m2, p2, h2)
<1>1. p.cursor \in Nat \cup {-1} /\ p.through \in Nat \cup {-1} /\ p.got \subseteq Nat
  BY DEF Phones
<1>2. SeenTo(p.cursor, m2, p2, h2)
  BY <1>1, SeenToMore DEF PhoneFair
<1>3. SeenTo(p.through, m2, p2, h2)
  BY <1>1, SeenToMore DEF PhoneFair
<1>4. ASSUME NEW n \in p.got PROVE n <= m2.last /\ Seen(n, m2, p2, h2)
  <2>1. n <= m.last /\ Seen(n, m, p, h) /\ n \in Nat
    BY <1>1 DEF PhoneFair
  <2>2. Seen(n, m2, p2, h2)
    BY <2>1, SeenMore
  <2> QED
    BY <2>1, <2>2 DEF More, Ahead
<1> QED
  BY <1>2, <1>3, <1>4 DEF PhoneFair

LEMMA SubMore ==
    ASSUME NEW m, NEW p, NEW h, NEW m2, NEW p2, NEW h2, More(m, p, h, m2, p2, h2),
           NEW sb, SubOK(sb, m.last), SubFair(m, sb)
    PROVE  SubFair(m2, sb)
<1> SUFFICES ASSUME sb # NoSub PROVE Copies(sb.buffer, m2)
  BY DEF SubFair
<1>1. sb \in Subs /\ DOMAIN sb.buffer \subseteq (sb.tip + 1)..m.last
  BY DEF SubOK
<1>2. sb.tip \in Nat /\ m.last \in Nat
  BY <1>1 DEF Subs, More
<1>3. \A n \in DOMAIN sb.buffer : n <= m.last
  BY <1>1, <1>2
<1> QED
  BY <1>3, CopiesMore DEF SubFair, More

LEMMA CursorSame ==
    ASSUME NEW m, NEW p, NEW h, NEW m2, NEW p2, NEW h2, More(m, p, h, m2, p2, h2),
           NEW sb, NEW cn, NEW u, NEW d, ChannelsOK(m.last, sb, cn, u, d, p), CursorOK(m, sb, u, d, p, h),
           p2.cursor = p.cursor, p2.through = p.through, p2.got = p.got
    PROVE  CursorOK(m2, sb, u, d, p2, h2)
<1>1. /\ SubOK(sb, m.last) /\ p \in Phones /\ u \in Seq(Asks) /\ DownOK(m.last, d)
  BY DEF ChannelsOK, PhoneOK
<1>2. /\ PhoneFair(m, p, h) /\ FramesFair(m, d, p, h) /\ AsksFair(m, u, p, h)
      /\ SubFair(m, sb) /\ Paced(m, sb, u, d, p, h)
  BY DEF CursorOK
<1>3. PhoneFair(m2, p2, h2)
  BY <1>1, <1>2, PhoneMore
<1>4. d \in Seq(Frames) /\ Len(d) \in Nat /\ Extends(d, d)
  BY <1>1, DownFrames DEF Extends
<1>5. FramesFair(m2, d, p2, h2)
  BY <1>1, <1>2, <1>4, FramesExtend DEF FramesFair
<1>6. AsksFair(m2, u, p2, h2)
  BY <1>1, <1>2, AsksMore
<1>7. SubFair(m2, sb)
  BY <1>1, <1>2, SubMore
<1>8. ASSUME Asking(u, d) PROVE sb # NoSub /\ DueTo(sb.delivered, Len(d) + 1, m2, d, p2, h2)
  <2>1. sb # NoSub /\ DueTo(sb.delivered, Len(d) + 1, m, d, p, h)
    BY <1>2, <1>8 DEF Paced
  <2>2. sb.delivered \in Nat \cup {-1}
    BY <1>1, <2>1 DEF SubOK, Subs
  <2>3. Len(d) + 1 \in 1..(Len(d) + 1) /\ Len(d) + 1 \in Int /\ Len(d) + 1 <= Len(d) + 1
    BY <1>4
  <2> QED
    BY <1>4, <2>1, <2>2, <2>3, DueExtends
<1> QED
  BY <1>3, <1>5, <1>6, <1>7, <1>8 DEF CursorOK, Paced

Going == More(mem, phone, hist, mem', phone', hist')
Claims == CursorOK(mem, sub, up, down, phone, hist)

LEMMA AskAppended ==
    ASSUME NEW m, NEW p, NEW h, NEW u \in Seq(Asks), NEW a \in Asks, AsksFair(m, u, p, h),
           a.k = "subscribe" => SeenTo(a.cursor, m, p, h)
    PROVE  AsksFair(m, Append(u, a), p, h)
<1>1. ToSet(Append(u, a)) = ToSet(u) \cup {a}
  BY AppendedSet
<1> QED
  BY <1>1 DEF AsksFair

\* The phone has taken the first frame.
LEMMA FrameTaken ==
    ASSUME Going, ChannelInv, Claims, down # <<>>, down' = Tail(down), UNCHANGED sub,
           \A n \in Numbers(Head(down)) : Seen(n, mem', phone', hist'),
           PhoneFair(mem', phone', hist'), AsksFair(mem', up', phone', hist'),
           Asking(up', down') => Asking(up, down)
    PROVE  Claims'
<1> DEFINE m2 == mem'
<1> DEFINE p2 == phone'
<1> DEFINE h2 == hist'
<1> DEFINE q == Tail(down)
<1>1. /\ SubOK(sub, mem.last) /\ DownOK(mem.last, down)
  BY DEF ChannelInv, ChannelsOK
<1>2. /\ FramesFair(mem, down, phone, hist) /\ SubFair(mem, sub) /\ Paced(mem, sub, up, down, phone, hist)
  BY DEF Claims, CursorOK
<1>3. More(mem, phone, hist, m2, p2, h2)
  BY DEF Going
<1> HIDE DEF m2, p2, h2
<1>4. \A n \in Numbers(Head(down)) : Seen(n, m2, p2, h2)
  BY DEF m2, p2, h2
<1>5. /\ FramesFair(m2, q, p2, h2)
      /\ \A c \in Nat \cup {-1} : DueTo(c, Len(down) + 1, mem, down, phone, hist)
             => DueTo(c, Len(q) + 1, m2, q, p2, h2)
  BY <1>1, <1>2, <1>3, <1>4, FramesTaken
<1>6. SubFair(m2, sub)
  BY <1>1, <1>2, <1>3, SubMore
<1>7. Paced(m2, sub, up', q, p2, h2)
  <2> SUFFICES ASSUME Asking(up', q) PROVE sub # NoSub /\ DueTo(sub.delivered, Len(q) + 1, m2, q, p2, h2)
    BY DEF Paced
  <2>1. Asking(up, down)
    OBVIOUS
  <2>2. sub # NoSub /\ DueTo(sub.delivered, Len(down) + 1, mem, down, phone, hist)
    BY <1>2, <2>1 DEF Paced
  <2>3. sub.delivered \in Nat \cup {-1}
    BY <1>1, <2>2 DEF SubOK, Subs
  <2> QED
    BY <1>5, <2>2, <2>3
<1>8. PhoneFair(m2, p2, h2) /\ AsksFair(m2, up', p2, h2)
  BY DEF m2, p2, h2
<1>9. CursorOK(m2, sub, up', q, p2, h2)
  BY <1>5, <1>6, <1>7, <1>8 DEF CursorOK
<1> QED
  BY <1>9 DEF Claims, m2, p2, h2

LEMMA ReadyClaims ==
    ASSUME Going, ChannelInv, Claims, PhoneReady
    PROVE  Claims'
<1> DEFINE m2 == mem'
<1> DEFINE p2 == phone'
<1> DEFINE h2 == hist'
<1> DEFINE a == [k |-> "ack", through |-> phone.through]
<1>1. /\ down # <<>> /\ Head(down).k = "ready" /\ down' = Tail(down) /\ UNCHANGED <<mem, sub, conn, hist>>
      /\ \/ UNCHANGED <<phone, up>>
         \/ phone' = Saved(phone) /\ up' = Append(up, a)
  BY DEF PhoneReady
<1>2. phone \in Phones /\ up \in Seq(Asks) /\ down \in Seq(Frames)
  BY DEF ChannelInv, ChannelsOK, PhoneOK, DownOK
<1>3. PhoneFair(mem, phone, hist) /\ AsksFair(mem, up, phone, hist)
  BY DEF Claims, CursorOK
<1>4. More(mem, phone, hist, m2, p2, h2)
  BY DEF Going
<1>5. a \in Asks /\ a.k = "ack"
  BY <1>2 DEF Asks, Phones
<1>6. /\ Numbers(Head(down)) = {} /\ ToSet(down) = {Head(down)} \cup ToSet(down')
  BY <1>1, <1>2, TakenSet DEF Numbers
<1> HIDE DEF m2, p2, h2, a
<1>7. AsksFair(m2, up, p2, h2)
  BY <1>2, <1>3, <1>4, AsksMore
<1>8. AsksFair(m2, Append(up, a), p2, h2)
  BY <1>2, <1>5, <1>7, AskAppended
<1>9. AsksFair(m2, up', p2, h2)
  BY <1>1, <1>7, <1>8
<1>10. phone.cursor \in Nat \cup {-1} /\ phone.through \in Nat \cup {-1} /\ phone.got \subseteq Nat
  BY <1>2 DEF Phones
<1>11. /\ SeenTo(phone.cursor, m2, p2, h2) /\ SeenTo(phone.through, m2, p2, h2)
  <2>1. SeenTo(phone.cursor, m2, p2, h2)
    BY <1>3, <1>4, <1>10, SeenToMore DEF PhoneFair
  <2>2. SeenTo(phone.through, m2, p2, h2)
    BY <1>3, <1>4, <1>10, SeenToMore DEF PhoneFair
  <2> QED
    BY <2>1, <2>2
<1>12. \A n \in phone.got : n <= m2.last /\ Seen(n, m2, p2, h2)
  <2> SUFFICES ASSUME NEW n \in phone.got PROVE n <= m2.last /\ Seen(n, m2, p2, h2)
    OBVIOUS
  <2>1. n <= mem.last /\ Seen(n, mem, phone, hist)
    BY <1>3 DEF PhoneFair
  <2>2. Seen(n, m2, p2, h2)
    BY <1>4, <2>1, SeenMore
  <2>3. m2 = mem
    BY <1>1 DEF m2
  <2> QED
    BY <2>1, <2>2, <2>3
<1>13. p2.through = phone.through /\ p2.got = phone.got /\ (p2.cursor = phone.cursor \/ p2.cursor = phone.through)
  BY <1>1, <1>2, SavedOf DEF p2, Bigger
<1>14. PhoneFair(m2, p2, h2)
  BY <1>11, <1>12, <1>13 DEF PhoneFair
<1>15. ToSet(up') = ToSet(up) \/ ToSet(up') = ToSet(up) \cup {a}
  <2>1. ToSet(Append(up, a)) = ToSet(up) \cup {a}
    BY <1>2, <1>5, AppendedSet
  <2> QED
    BY <1>1, <2>1
<1>16. Asking(up', down') => Asking(up, down)
  BY <1>5, <1>6, <1>15 DEF Asking
<1> QED
  BY <1>1, <1>6, <1>9, <1>14, <1>16, FrameTaken DEF m2, p2, h2

\* A subscription starts from a number that the phone may start from.
LEMMA SubscribeClaims ==
    ASSUME NEW m, NEW h, NEW m2, NEW h2, NEW c \in Nat \cup {-1}, Subscribe(c),
           phone \in Phones, up \in Seq(Asks), More(m, phone, h, m2, phone', h2),
           AsksFair(m, up, phone, h), SeenTo(c, m2, phone', h2)
    PROVE  /\ AsksFair(m2, up', phone', h2) /\ PhoneFair(m2, phone', h2)
           /\ ToSet(up') = ToSet(up) \cup {[k |-> "subscribe", cursor |-> c, window |-> phone.window]}
<1> DEFINE p2 == phone'
<1> DEFINE a == [k |-> "subscribe", cursor |-> c, window |-> phone.window]
<1> DEFINE t == IF c = -1 THEN 0 ELSE c
<1>1. up' = Append(up, a) /\ p2 = [phone EXCEPT !.cursor = c, !.got = {}, !.through = t]
  BY DEF Subscribe
<1>2. a \in Asks /\ a.window = phone.window /\ a.cursor = c /\ phone.window \in Nat
  BY DEF Asks, Phones
<1>3. t \in Nat
  OBVIOUS
<1>4. m2.last \in Nat
  BY DEF More
<1>t. t = 0 \/ t = c
  OBVIOUS
<1> HIDE DEF t, a
<1>5. p2.cursor = c /\ p2.got = {} /\ p2.through = t /\ p2.window = phone.window
  BY <1>1 DEF Phones
<1> HIDE DEF p2
<1>6. SeenTo(c, m2, p2, h2) /\ More(m, phone, h, m2, p2, h2)
  BY DEF p2
<1>7. SeenTo(t, m2, p2, h2)
  <2>1. CASE t = 0
    BY <1>4, <2>1 DEF SeenTo
  <2>2. CASE t = c
    BY <1>6, <2>2
  <2> QED
    BY <1>t, <2>1, <2>2
<1>8. PhoneFair(m2, p2, h2)
  BY <1>5, <1>6, <1>7 DEF PhoneFair
<1>9. AsksFair(m2, up, p2, h2)
  BY <1>6, AsksMore
<1>10. AsksFair(m2, Append(up, a), p2, h2)
  <2>1. SeenTo(a.cursor, m2, p2, h2)
    BY <1>2, <1>6
  <2> QED
    BY <1>2, <1>9, <2>1, AskAppended
<1>11. ToSet(up') = ToSet(up) \cup {a}
  BY <1>1, <1>2, AppendedSet
<1> QED
  BY <1>1, <1>8, <1>10, <1>11 DEF p2, a

LEMMA RestartClaims ==
    ASSUME Going, ChannelInv, Claims, PhoneRestarts
    PROVE  Claims'
<1> DEFINE f == Head(down)
<1> DEFINE from == IF f.k = "expired" THEN Bigger(0, f.oldest - 1) ELSE phone.cursor
<1>1. /\ down # <<>> /\ f.k \in {"expired", "resync"} /\ down' = Tail(down)
      /\ Subscribe(from) /\ UNCHANGED <<mem, sub, conn, hist>>
  BY DEF PhoneRestarts
<1>2. phone \in Phones /\ up \in Seq(Asks) /\ down \in Seq(Frames) /\ mem.last \in Nat
  BY DEF ChannelInv, ChannelsOK, PhoneOK, DownOK, Going, More
<1>3. /\ PhoneFair(mem, phone, hist) /\ AsksFair(mem, up, phone, hist) /\ FramesFair(mem, down, phone, hist)
  BY DEF Claims, CursorOK
<1>4. f \in Frames /\ ToSet(down) = {f} \cup ToSet(down')
  BY <1>1, <1>2, TakenSet
<1>5. f = down[1] /\ 1 \in 1..Len(down)
  BY <1>1, <1>2, EmptySeq, LenProperties
<1>6. FrameFair(f, 1, mem, down, phone, hist)
  BY <1>3, <1>5 DEF FramesFair
<1> HIDE DEF f
<1>7. from \in Nat \cup {-1} /\ SeenTo(from, mem, phone, hist)
  <2>1. CASE f.k = "expired"
    <3>1. f \in [k : {"expired"}, oldest : Nat]
      BY <1>4, <2>1 DEF Frames
    <3>2. f.oldest \in Nat
      BY <3>1
    <3>3. SeenTo(f.oldest - 1, mem, phone, hist)
      BY <1>6, <2>1 DEF FrameFair
    <3>4. SeenTo(0, mem, phone, hist)
      BY <1>2 DEF SeenTo
    <3> QED
      BY <2>1, <3>2, <3>3, <3>4 DEF Bigger
  <2>2. CASE f.k # "expired"
    BY <1>2, <1>3, <2>2 DEF Phones, PhoneFair
  <2> QED
    BY <2>1, <2>2
<1> HIDE DEF from
<1>8. Numbers(Head(down)) = {}
  BY <1>1 DEF Numbers, f
<1>9. SeenTo(from, mem', phone', hist')
  BY <1>7, SeenToMore DEF Going
<1> DEFINE a == [k |-> "subscribe", cursor |-> from, window |-> phone.window]
<1>10. a.k = "subscribe"
  OBVIOUS
<1> HIDE DEF a
<1>11. /\ AsksFair(mem', up', phone', hist') /\ PhoneFair(mem', phone', hist') /\ ToSet(up') = ToSet(up) \cup {a}
  BY <1>1, <1>2, <1>3, <1>7, <1>9, SubscribeClaims DEF Going, a
<1>12. Asking(up', down') => Asking(up, down)
  BY <1>4, <1>10, <1>11 DEF Asking
<1> QED
  BY <1>1, <1>8, <1>11, <1>12, FrameTaken

LEMMA ConnectClaims ==
    ASSUME Going, ChannelInv, Claims, PhoneConnect
    PROVE  Claims'
<1>1. ~conn /\ Subscribe(phone.cursor) /\ UNCHANGED <<mem, sub, down, hist>>
  BY DEF PhoneConnect
<1>2. phone \in Phones /\ up = <<>> /\ up \in Seq(Asks) /\ down = <<>> /\ phone.cursor \in Nat \cup {-1}
      /\ SubOK(sub, mem.last)
  BY <1>1 DEF ChannelInv, ChannelsOK, PhoneOK, Phones
<1>3. PhoneFair(mem, phone, hist) /\ AsksFair(mem, up, phone, hist) /\ SubFair(mem, sub)
  BY DEF Claims, CursorOK
<1>4. SeenTo(phone.cursor, mem', phone', hist')
  BY <1>2, <1>3, SeenToMore DEF Going, PhoneFair
<1> DEFINE a == [k |-> "subscribe", cursor |-> phone.cursor, window |-> phone.window]
<1>5. a.k = "subscribe"
  OBVIOUS
<1> HIDE DEF a
<1>6. /\ AsksFair(mem', up', phone', hist') /\ PhoneFair(mem', phone', hist') /\ ToSet(up') = ToSet(up) \cup {a}
  BY <1>1, <1>2, <1>3, <1>4, SubscribeClaims DEF Going, a
<1>7. ToSet(up') = {a} /\ ToSet(down') = {} /\ Len(down') = 0
  BY <1>1, <1>2, <1>6 DEF ToSet
<1>8. ~Asking(up', down')
  BY <1>5, <1>7 DEF Asking
<1>9. SubFair(mem', sub')
  BY <1>1, <1>2, <1>3, SubMore DEF Going
<1>10. FramesFair(mem', down', phone', hist')
  BY <1>7 DEF FramesFair
<1> QED
  BY <1>6, <1>8, <1>9, <1>10 DEF Claims, CursorOK, Paced

\* The channels are empty, and the phone is as it was.
LEMMA EmptyClaims ==
    ASSUME Going, ChannelInv, Claims, up' = <<>>, down' = <<>>, phone' = phone, sub' = sub \/ sub' = NoSub
    PROVE  Claims'
<1>1. phone \in Phones /\ SubOK(sub, mem.last)
  BY DEF ChannelInv, ChannelsOK, PhoneOK
<1>2. PhoneFair(mem, phone, hist) /\ SubFair(mem, sub)
  BY DEF Claims, CursorOK
<1>3. PhoneFair(mem', phone', hist')
  BY <1>1, <1>2, PhoneMore DEF Going
<1>4. SubFair(mem', sub)
  BY <1>1, <1>2, SubMore DEF Going
<1>5. SubFair(mem', sub')
  BY <1>4 DEF SubFair
<1>6. ToSet(up') = {} /\ ToSet(down') = {} /\ Len(down') = 0
  BY DEF ToSet
<1>7. ~Asking(up', down') /\ FramesFair(mem', down', phone', hist') /\ AsksFair(mem', up', phone', hist')
  BY <1>6 DEF Asking, FramesFair, AsksFair
<1> QED
  BY <1>3, <1>5, <1>7 DEF Claims, CursorOK, Paced

\* The phone takes a frame of events: all that its prefix now covers was claimed before,
\* or is told by the frame, or was due before it.
LEMMA EventsClaims ==
    ASSUME Going, ChannelInv, Claims, PhoneEvents
    PROVE  Claims'
<1> DEFINE f    == Head(down)
<1> DEFINE base == Bigger(phone.through, f.from)
<1> DEFINE S    == {x \in phone.got \cup DOMAIN f.events \cup f.skipped : x > base}
<1> DEFINE t    == Contiguous(base, S)
<1> DEFINE G    == {x \in S : x > t}
<1> DEFINE ids  == {f.events[n].id : n \in DOMAIN f.events}
<1> DEFINE next == [phone EXCEPT !.through = t, !.got = G, !.shown = @ \cup ids]
<1> DEFINE page == [k |-> "next_page"]
<1> DEFINE ack  == [k |-> "ack", through |-> next.through]
<1>1. /\ down # <<>> /\ f.k = "events" /\ down' = Tail(down) /\ UNCHANGED <<mem, sub, conn, hist>>
      /\ \/ f.hasMore /\ phone' = next /\ up' = Append(up, page)
         \/ phone' = next /\ up' = up
         \/ phone' = Saved(next) /\ up' = Append(up, ack)
  BY DEF PhoneEvents, Reach
<1>2. /\ SubOK(sub, mem.last) /\ PhoneOK(mem.last, conn, phone)
      /\ up \in Seq(Asks) /\ DownOK(mem.last, down) /\ down \in Seq(Frames)
      /\ mem.last \in Nat /\ mem'.last \in Nat
  BY DEF ChannelInv, ChannelsOK, DownOK, Going, More
<1>3. down' \in Seq(Frames) /\ f \in Frames /\ ToSet(down) = {f} \cup ToSet(down')
  BY <1>1, <1>2, TakenSet
<1>4. /\ phone \in Phones /\ phone.through \in Nat /\ phone.got \subseteq Nat
      /\ phone.cursor \in Nat \cup {-1}
  BY <1>2 DEF PhoneOK, Phones
<1>5. /\ f.from \in Nat \cup {-1} /\ f.hasMore \in BOOLEAN /\ f.skipped \subseteq Nat /\ f.events \in Batches
  <2>1. f \in [k : {"events"}, from : Nat \cup {-1}, hasMore : BOOLEAN, events : Batches,
               skipped : SUBSET Nat]
    BY <1>1, <1>3 DEF Frames
  <2> QED
    BY <2>1
<1>6. PICK D \in SUBSET Nat : f.events \in [D -> Notice]
  BY <1>5 DEF Batches
<1>7. ids \subseteq Nat /\ DOMAIN f.events = D
  BY <1>6 DEF Notice
<1>8. /\ PhoneFair(mem, phone, hist) /\ AsksFair(mem, up, phone, hist) /\ FramesFair(mem, down, phone, hist)
  BY DEF Claims, CursorOK
<1>n. Numbers(f) = DOMAIN f.events \cup f.skipped
  BY <1>1 DEF Numbers
<1>9. \A n \in DOMAIN f.events \cup f.skipped : n <= mem.last
  <2>1. f \in ToSet(down)
    BY <1>3
  <2> QED
    BY <1>2, <1>n, <2>1 DEF DownOK
<1>10. FrameFair(f, 1, mem, down, phone, hist)
  <2>1. f = down[1] /\ 1 \in 1..Len(down)
    BY <1>1, <1>2, EmptySeq, LenProperties
  <2> QED
    BY <1>8, <2>1 DEF FramesFair
<1> HIDE DEF f
<1>11. /\ Copies(f.events, mem) /\ SeenTo(f.from, mem, phone, hist)
       /\ \A n \in f.skipped : Seen(n, mem, phone, hist)
  <2>1. DueTo(f.from, 1, mem, down, phone, hist)
    BY <1>1, <1>10 DEF FrameFair
  <2>2. \A n : ~Carried(n, down, 1)
    BY DEF Carried
  <2>3. SeenTo(f.from, mem, phone, hist)
    BY <2>1, <2>2 DEF SeenTo, DueTo
  <2> QED
    BY <1>1, <1>10, <2>3 DEF FrameFair
<1>12. base \in Nat /\ base >= phone.through /\ base >= f.from /\ (base = phone.through \/ base = f.from)
  BY <1>4, <1>5 DEF Bigger
<1> HIDE DEF base
<1>13. S \subseteq Nat /\ (\A x \in S : x <= mem.last) /\ S \subseteq phone.got \cup DOMAIN f.events \cup f.skipped
  <2>1. \A x \in phone.got : x <= mem.last
    BY <1>8 DEF PhoneFair
  <2> QED
    BY <1>4, <1>5, <1>6, <1>7, <1>9, <2>1
<1> HIDE DEF S
<1>14. t \in Nat /\ t >= base /\ t \in {base} \cup S /\ (base + 1)..t \subseteq S
  BY <1>2, <1>12, <1>13, ContiguousOf
<1> HIDE DEF t
<1>15. G \subseteq Nat /\ G \subseteq S
  BY <1>13
<1> HIDE DEF G, ids
<1>16. /\ next \in Phones /\ next.through = t /\ next.got = G /\ next.cursor = phone.cursor
       /\ next.shown = phone.shown \cup ids /\ next.window = phone.window
  BY <1>4, <1>7, <1>14, <1>15 DEF Phones
<1> HIDE DEF next
<1>17. /\ phone'.through = t /\ phone'.got = G /\ phone'.shown = phone.shown \cup ids
       /\ phone'.cursor = phone.cursor \/ phone'.cursor = t
  <2>1. /\ Saved(next).through = t /\ Saved(next).got = G /\ Saved(next).shown = phone.shown \cup ids
        /\ Saved(next).cursor = Bigger(phone.cursor, t)
    BY <1>16, SavedOf
  <2>2. Bigger(phone.cursor, t) = phone.cursor \/ Bigger(phone.cursor, t) = t
    BY DEF Bigger
  <2> QED
    BY <1>1, <1>16, <2>1, <2>2
<1> DEFINE p2 == phone'
<1> DEFINE m2 == mem'
<1> DEFINE h2 == hist'
<1>18. More(mem, phone, hist, m2, p2, h2) /\ m2 = mem
  BY <1>1 DEF Going
<1>19. ASSUME NEW n \in DOMAIN f.events PROVE Seen(n, m2, p2, h2)
  <2>1. f.events[n].id \in phone'.shown
    BY <1>17, <1>19 DEF ids
  <2>2. n \in DOMAIN mem.events => mem.events[n] = f.events[n]
    BY <1>11, <1>19 DEF Copies
  <2>3. mem' = mem
    BY <1>1
  <2> QED
    BY <2>1, <2>2, <2>3 DEF Seen, Had
<1> HIDE DEF p2, m2, h2
<1>20. ASSUME NEW n \in phone.got \cup DOMAIN f.events \cup f.skipped PROVE n <= mem.last /\ Seen(n, m2, p2, h2)
  <2>1. CASE n \in DOMAIN f.events
    BY <1>9, <1>19, <2>1
  <2>2. CASE n \in f.skipped
    BY <1>9, <1>11, <1>18, <2>2, SeenMore
  <2>3. CASE n \in phone.got
    <3>1. n <= mem.last /\ Seen(n, mem, phone, hist)
      BY <1>8, <2>3 DEF PhoneFair
    <3> QED
      BY <1>18, <3>1, SeenMore
  <2> QED
    BY <1>20, <2>1, <2>2, <2>3
<1>21. SeenTo(base, m2, p2, h2)
  <2>1. SeenTo(phone.through, mem, phone, hist)
    BY <1>8 DEF PhoneFair
  <2>2. SeenTo(base, mem, phone, hist)
    BY <1>11, <1>12, <2>1
  <2> QED
    BY <1>12, <1>18, <2>2, SeenToMore
<1>22. SeenTo(t, m2, p2, h2)
  <2>1. t <= m2.last
    <3>1. base <= m2.last
      BY <1>21 DEF SeenTo
    <3> QED
      BY <1>13, <1>14, <1>18, <3>1
  <2>2. ASSUME NEW n \in 1..t PROVE Seen(n, m2, p2, h2)
    <3>1. CASE n <= base
      <4>1. n \in 1..base
        BY <1>12, <3>1
      <4> QED
        BY <1>21, <4>1 DEF SeenTo
    <3>2. CASE n > base
      <4>1. n \in (base + 1)..t
        BY <1>12, <1>14, <3>2
      <4>2. n \in phone.got \cup DOMAIN f.events \cup f.skipped
        BY <1>13, <1>14, <4>1
      <4> QED
        BY <1>20, <4>2
    <3> QED
      BY <1>12, <3>1, <3>2
  <2> QED
    BY <2>1, <2>2 DEF SeenTo
<1>23. SeenTo(phone.cursor, m2, p2, h2)
  BY <1>4, <1>8, <1>18, SeenToMore DEF PhoneFair
<1>24. PhoneFair(m2, p2, h2)
  <2>1. p2.through = t /\ p2.got = G /\ (p2.cursor = phone.cursor \/ p2.cursor = t)
    BY <1>17 DEF p2
  <2>2. \A n \in G : n <= m2.last /\ Seen(n, m2, p2, h2)
    BY <1>13, <1>15, <1>18, <1>20
  <2> QED
    BY <1>22, <1>23, <2>1, <2>2 DEF PhoneFair
<1>25. page \in Asks /\ page.k = "next_page" /\ ack \in Asks /\ ack.k = "ack"
  <2>1. next.through \in Nat
    BY <1>14, <1>16
  <2> QED
    BY <2>1 DEF Asks
<1> HIDE DEF page, ack
<1>26. AsksFair(m2, up, p2, h2)
  BY <1>2, <1>8, <1>18, AsksMore
<1>27. AsksFair(m2, Append(up, page), p2, h2)
  BY <1>2, <1>25, <1>26, AskAppended
<1>28. AsksFair(m2, Append(up, ack), p2, h2)
  BY <1>2, <1>25, <1>26, AskAppended
<1>29. AsksFair(m2, up', p2, h2)
  BY <1>1, <1>26, <1>27, <1>28
<1>30. ToSet(Append(up, page)) = ToSet(up) \cup {page}
  BY <1>2, <1>25, AppendedSet
<1>31. ToSet(Append(up, ack)) = ToSet(up) \cup {ack}
  BY <1>2, <1>25, AppendedSet
<1>32. Asking(up', down') => Asking(up, down)
  <2> SUFFICES ASSUME Asking(up', down') PROVE Asking(up, down)
    OBVIOUS
  <2>1. CASE f.hasMore
    BY <1>1, <1>3, <2>1 DEF Asking
  <2>2. CASE \E e \in ToSet(down') : e.k = "events" /\ e.hasMore
    BY <1>3, <2>2 DEF Asking
  <2>3. CASE ~f.hasMore /\ \E a \in ToSet(up') : a.k = "next_page"
    <3>1. ToSet(up') = ToSet(up) \/ ToSet(up') = ToSet(up) \cup {ack}
      BY <1>1, <1>31, <2>3
    <3> QED
      BY <1>25, <2>3, <3>1 DEF Asking
  <2> QED
    BY <2>1, <2>2, <2>3 DEF Asking
<1>33. \A n \in Numbers(Head(down)) : Seen(n, mem', phone', hist')
  BY <1>n, <1>20 DEF f, m2, p2, h2
<1> QED
  BY <1>1, <1>24, <1>29, <1>32, <1>33, FrameTaken DEF m2, p2, h2

LEMMA NotNoSub ==
    ASSUME NEW sb \in Subs
    PROVE  sb # NoSub
<1>1. sb.delivered # -1
  BY DEF Subs
<1> QED
  BY <1>1 DEF NoSub

LEMMA MoreSame ==
    ASSUME NEW m, NEW p, NEW h, NEW p2, NEW h2, More(m, p, h, m, p2, h2)
    PROVE  More(m, p2, h2, m, p2, h2)
BY DEF More, Ahead

\* A frame is put behind the others.
LEMMA FrameAppended ==
    ASSUME NEW m, NEW p, NEW h, More(m, p, h, m, p, h),
           NEW d, DownOK(m.last, d), FramesFair(m, d, p, h),
           NEW f \in Frames, \A n \in Numbers(f) : n <= m.last, FrameFair(f, Len(d) + 1, m, d, p, h)
    PROVE  LET q == Append(d, f)
           IN  /\ DownOK(m.last, q) /\ FramesFair(m, q, p, h) /\ Extends(d, q) /\ Len(q) = Len(d) + 1
               /\ \A c \in Nat, e \in Nat :
                    DueTo(c, Len(d) + 1, m, d, p, h) /\ (c + 1)..e \subseteq Numbers(f) /\ e <= m.last
                      => DueTo(e, Len(q) + 1, m, q, p, h)
<1> DEFINE q == Append(d, f)
<1>1. d \in Seq(Frames) /\ Len(d) \in Nat
  BY DownFrames
<1>2. /\ q \in Seq(Frames) /\ Len(q) = Len(d) + 1 /\ q[Len(d) + 1] = f /\ \A i \in 1..Len(d) : q[i] = d[i]
  BY <1>1, AppendProperties
<1>3. ToSet(q) = ToSet(d) \cup {f}
  BY <1>1, AppendedSet
<1> HIDE DEF q
<1>4. Extends(d, q)
  BY <1>1, <1>2 DEF Extends
<1>5. DownOK(m.last, q)
  BY <1>2, <1>3 DEF DownOK
<1>6. FrameFair(f, Len(d) + 1, m, q, p, h)
  <2> DEFINE i == Len(d) + 1
  <2>1. i \in 1..(Len(d) + 1)
    BY <1>1
  <2>2. \A n \in Nat : Carried(n, d, i) => Carried(n, q, i) \/ Seen(n, m, p, h)
    BY <1>1, <1>4, <2>1, CarriedExtends
  <2> QED
    BY <2>2, FrameMore
<1>7. FramesFair(m, q, p, h)
  <2> SUFFICES ASSUME NEW i \in 1..Len(q) PROVE FrameFair(q[i], i, m, q, p, h)
    BY DEF FramesFair
  <2>1. CASE i = Len(d) + 1
    BY <1>2, <1>6, <2>1
  <2>2. CASE i # Len(d) + 1
    <3>1. i \in 1..Len(d)
      BY <1>1, <1>2, <2>2
    <3> QED
      BY <1>4, <3>1, FramesExtend
  <2> QED
    BY <2>1, <2>2
<1>8. ASSUME NEW c \in Nat, NEW e \in Nat, DueTo(c, Len(d) + 1, m, d, p, h),
             (c + 1)..e \subseteq Numbers(f), e <= m.last
      PROVE  DueTo(e, Len(q) + 1, m, q, p, h)
  <2>1. DueTo(c, Len(q) + 1, m, q, p, h)
    <3>1. Len(d) + 1 \in 1..(Len(d) + 1) /\ Len(q) + 1 \in Int /\ Len(d) + 1 <= Len(q) + 1
      BY <1>1, <1>2
    <3>2. c \in Nat \cup {-1}
      OBVIOUS
    <3> QED
      BY <1>1, <1>4, <1>8, <3>1, <3>2, DueExtends
  <2>2. ASSUME NEW n \in 1..e PROVE Seen(n, m, p, h) \/ Carried(n, q, Len(q) + 1)
    <3>1. CASE n <= c
      <4>1. n \in 1..c
        BY <3>1
      <4> QED
        BY <2>1, <4>1 DEF DueTo
    <3>2. CASE n > c
      <4>1. n \in Numbers(f)
        BY <1>8, <3>2
      <4>2. Len(d) + 1 \in 1..((Len(q) + 1) - 1)
        BY <1>1, <1>2
      <4> QED
        BY <1>2, <4>1, <4>2 DEF Carried
    <3> QED
      BY <3>1, <3>2
  <2> QED
    BY <1>8, <2>2 DEF DueTo
<1> QED
  BY <1>2, <1>4, <1>5, <1>7, <1>8 DEF q

\* What a page passes over: gone, seen in the app, stale by the hub's word, or slipped.
LEMMA PageTells ==
    ASSUME NEW st \in Subs, NEW h, PassedStale(Page(st).skipped) \subseteq h.stale,
           Slipped(st, Page(st).skipped) \subseteq h.slipped, phone.window \in Nat,
           \A n \in DOMAIN mem.events : mem.events[n].id \in Nat
    PROVE  /\ Copies(Page(st).events, mem)
           /\ \A n \in Page(st).skipped : Seen(n, mem, phone, h)
<1> DEFINE W == (st.delivered + 1)..PageEnd(st)
<1> DEFINE G == {n \in W : Passed(st, n)}
<1> DEFINE page == Page(st)
<1>1. page.events = [n \in W \ G |-> mem.events[n]] /\ page.skipped = G
  BY DEF Page
<1>2. Copies(page.events, mem)
  <2> HIDE DEF W, G, page
  <2> QED
    BY <1>1 DEF Copies
<1>3. ASSUME NEW n \in G PROVE Seen(n, mem, phone, h)
  <2> SUFFICES ASSUME n \in DOMAIN mem.events PROVE Had(mem.events[n].id, phone, h)
    BY DEF Seen
  <2>1. Stale(det, mem.events[n]) \/ mem.events[n].id <= st.window
    BY DEF Passed
  <2>2. CASE Stale(det, mem.events[n])
    <3>1. mem.events[n].id \in PassedStale(G)
      BY <2>2 DEF PassedStale
    <3> QED
      BY <1>1, <3>1 DEF Had
  <2>3. CASE mem.events[n].id <= st.window
    <3> DEFINE id == mem.events[n].id
    <3>1. CASE id <= phone.window
      BY <3>1 DEF Had
    <3>2. CASE phone.window < id
      <4>1. id \in Slipped(st, G)
        BY <2>3, <3>2 DEF Slipped
      <4> QED
        BY <1>1, <4>1 DEF Had
    <3> QED
      BY <3>1, <3>2
  <2> QED
    BY <2>1, <2>2, <2>3
<1> HIDE DEF W, G
<1> QED
  BY <1>1, <1>2, <1>3

LEMMA DrainedTells ==
    ASSUME NEW st, NEW h, PassedStale(Drained(st).skipped) \subseteq h.stale, Copies(st.buffer, mem)
    PROVE  /\ Copies(Drained(st).events, mem)
           /\ \A n \in Drained(st).skipped : Seen(n, mem, phone, h)
<1> DEFINE fresh == {n \in DOMAIN st.buffer : n > st.delivered}
<1> DEFINE stale == {n \in fresh : Stale(det, st.buffer[n])}
<1> DEFINE live == Drained(st)
<1>1. live.events = [n \in fresh \ stale |-> st.buffer[n]] /\ live.skipped = stale
  BY DEF Drained, LiveFrame
<1>2. Copies(live.events, mem)
  <2> HIDE DEF live
  <2> QED
    BY <1>1 DEF Copies
<1>3. ASSUME NEW n \in stale PROVE Seen(n, mem, phone, h)
  <2> SUFFICES ASSUME n \in DOMAIN mem.events PROVE Had(mem.events[n].id, phone, h)
    BY DEF Seen
  <2>1. mem.events[n] = st.buffer[n]
    BY DEF Copies
  <2>2. mem.events[n].id \in PassedStale(stale)
    BY <2>1 DEF PassedStale
  <2> QED
    BY <1>1, <2>2 DEF Had
<1> HIDE DEF fresh, stale
<1> QED
  BY <1>1, <1>2, <1>3

LEMMA PairAppended ==
    ASSUME NEW S, NEW d \in Seq(S), NEW x \in S, NEW y \in S
    PROVE  d \o <<x, y>> = Append(Append(d, x), y)
OBVIOUS

LEMMA TripleAppended ==
    ASSUME NEW S, NEW d \in Seq(S), NEW x \in S, NEW y \in S, NEW z \in S
    PROVE  d \o <<x, y, z>> = Append(Append(Append(d, x), y), z)
OBVIOUS

\* What a page leaves to claim: a frame for every number up to where it ends, or a
\* reason for each that it passes over.
LEMMA ServeClaims ==
    ASSUME Going, LogOK, HistShape(hist), mem' = mem, phone' = phone,
           NEW st \in Subs, SubOK(st, mem.last), DownOK(mem.last, down), ServePage(st),
           FramesFair(mem, down, phone, hist), Copies(st.buffer, mem),
           DueTo(st.delivered, Len(down) + 1, mem, down, phone, hist)
    PROVE  /\ FramesFair(mem, down', phone, hist') /\ sub' # NoSub /\ SubFair(mem, sub')
           /\ DueTo(sub'.delivered, Len(down') + 1, mem, down', phone, hist')
<1> DEFINE L == mem.last
<1> DEFINE h == hist'
<1>1. L \in Nat /\ StoreOK(mem, count) /\ count \in Counts
  BY DEF LogOK, StoreOK, IsStore
<1>2. More(mem, phone, hist, mem, phone, h)
  BY DEF Going
<1>3. More(mem, phone, h, mem, phone, h)
  BY <1>2, MoreSame
<1>4. phone.window \in Nat /\ \A n \in DOMAIN mem.events : mem.events[n].id \in Nat
  BY <1>2 DEF More
<1>5. down \in Seq(Frames) /\ Len(down) \in Nat /\ Extends(down, down)
  BY DownFrames DEF Extends
<1>6. /\ st.tip <= L /\ DOMAIN st.buffer \subseteq (st.tip + 1)..L
      /\ ~st.ready /\ ~st.overflowed => (st.tip + 1)..L \subseteq DOMAIN st.buffer
      /\ st.ready => ~st.overflowed /\ st.delivered >= L /\ DOMAIN st.buffer = {}
      /\ st.delivered \in Nat /\ st.tip \in Nat /\ st.ready \in BOOLEAN /\ st.overflowed \in BOOLEAN
      /\ st.window \in Nat /\ st.delivered <= L
  BY NotNoSub DEF SubOK, Subs, DueTo
<1>h. /\ ~st.overflowed => /\ PassedStale(Page(st).skipped) \subseteq hist'.stale
                           /\ Slipped(st, Page(st).skipped) \subseteq hist'.slipped
      /\ ~st.overflowed /\ ~Page(st).hasMore
           => PassedStale(Drained([st EXCEPT !.delivered = PageEnd(st)]).skipped) \subseteq hist'.stale
  <2> SUFFICES ASSUME ~st.overflowed
               PROVE  /\ PassedStale(Page(st).skipped) \subseteq hist'.stale
                      /\ Slipped(st, Page(st).skipped) \subseteq hist'.slipped
                      /\ ~Page(st).hasMore
                           => PassedStale(Drained([st EXCEPT !.delivered = PageEnd(st)]).skipped) \subseteq hist'.stale
    OBVIOUS
  <2> DEFINE a == PassedStale(Page(st).skipped)
  <2> DEFINE b == PassedStale(Drained([st EXCEPT !.delivered = PageEnd(st)]).skipped)
  <2> DEFINE x == hist.stale \cup a \cup (IF Page(st).hasMore THEN {} ELSE b)
  <2> DEFINE c == Slipped(st, Page(st).skipped)
  <2> DEFINE y == hist.slipped \cup c
  <2>1. hist' = [hist EXCEPT !.stale = x, !.slipped = y]
    BY DEF ServePage
  <2> HIDE DEF a, b, c
  <2>2. a \subseteq x /\ c \subseteq y /\ (~Page(st).hasMore => b \subseteq x)
    OBVIOUS
  <2> HIDE DEF x, y
  <2>3. hist'.stale = x /\ hist'.slipped = y
    BY <2>1 DEF HistShape
  <2> QED
    BY <2>2, <2>3 DEF a, b, c
<1> HIDE DEF h
<1>7. FramesFair(mem, down, phone, h)
  BY <1>2, <1>5, FramesExtend DEF FramesFair
<1>8. DueTo(st.delivered, Len(down) + 1, mem, down, phone, h)
  <2>1. Len(down) + 1 \in 1..(Len(down) + 1) /\ Len(down) + 1 \in Int /\ Len(down) + 1 <= Len(down) + 1
    BY <1>5
  <2>2. st.delivered \in Nat \cup {-1}
    BY <1>6
  <2> QED
    BY <1>2, <1>5, <2>1, <2>2, DueExtends
<1>9. CASE st.overflowed
  <2> DEFINE r == [k |-> "resync"]
  <2>1. sub' = st /\ down' = Append(down, r)
    BY <1>9 DEF ServePage
  <2>2. r \in Frames /\ r.k = "resync" /\ Numbers(r) = {}
    BY DEF Frames, Numbers
  <2> HIDE DEF r
  <2>3. FrameFair(r, Len(down) + 1, mem, down, phone, h)
    BY <2>2 DEF FrameFair
  <2> DEFINE q == Append(down, r)
  <2>4. /\ FramesFair(mem, q, phone, h)
        /\ \A c \in Nat, e \in Nat :
             DueTo(c, Len(down) + 1, mem, down, phone, h) /\ (c + 1)..e \subseteq Numbers(r) /\ e <= mem.last
               => DueTo(e, Len(q) + 1, mem, q, phone, h)
    BY <1>3, <1>7, <2>2, <2>3, FrameAppended
  <2> HIDE DEF q
  <2>5. DueTo(st.delivered, Len(q) + 1, mem, q, phone, h)
    <3>1. (st.delivered + 1)..st.delivered = {}
      BY <1>6
    <3> QED
      BY <1>6, <1>8, <2>4, <3>1
  <2>6. SubFair(mem, st)
    BY DEF SubFair
  <2> QED
    BY <2>1, <2>4, <2>5, <2>6, NotNoSub DEF q, h
<1>10. CASE ~st.overflowed
  <2> DEFINE page  == Page(st)
  <2> DEFINE paged == [st EXCEPT !.delivered = PageEnd(st)]
  <2> DEFINE live  == Drained(paged)
  <2> DEFINE seqs  == DOMAIN live.events \cup live.skipped
  <2> DEFINE E == PageEnd(st)
  <2>1. /\ E \in Nat /\ E >= st.delivered /\ (E > st.delivered => E <= st.tip)
    BY PageEndOf
  <2>2. /\ page \in Frames /\ page.k = "events" /\ page.from = st.delivered
        /\ page.hasMore = (E < st.tip) /\ Numbers(page) = (st.delivered + 1)..E
    BY <1>1, PageOf
  <2>3. /\ paged \in Subs /\ paged.delivered = E /\ paged.buffer = st.buffer
        /\ paged.tip = st.tip /\ paged.ready = st.ready /\ paged.overflowed = st.overflowed
    BY <2>1 DEF Subs
  <2>4. IF page.hasMore
        THEN sub' = paged /\ down' = Append(down, page)
        ELSE /\ sub' = [paged EXCEPT !.buffer = NoEvents, !.ready = TRUE,
                                     !.delivered = Bigger(@, Highest(seqs))]
             /\ down' = down \o (IF seqs = {} THEN <<page, Ready>> ELSE <<page, live, Ready>>)
    BY <1>10 DEF ServePage
  <2>5. /\ PassedStale(page.skipped) \subseteq h.stale /\ Slipped(st, page.skipped) \subseteq h.slipped
        /\ ~page.hasMore => PassedStale(live.skipped) \subseteq h.stale
    BY <1>10, <1>h DEF h
  <2>6. Copies(page.events, mem) /\ \A n \in page.skipped : Seen(n, mem, phone, h)
    BY <1>4, <2>5, PageTells
  <2>7. ~page.hasMore => Copies(live.events, mem) /\ \A n \in live.skipped : Seen(n, mem, phone, h)
    BY <2>3, <2>5, DrainedTells
  <2> HIDE DEF page, paged, E
  <2>8. /\ live \in Frames /\ live.k = "events" /\ live.from = -1
        /\ Numbers(live) = seqs /\ seqs = {n \in DOMAIN st.buffer : n > E}
    <3>1. live.from = -1
      BY DEF Drained, LiveFrame
    <3> QED
      BY <2>3, <3>1, DrainedOf
  <2> HIDE DEF live, seqs
  <2>9. Ready \in Frames /\ Numbers(Ready) = {} /\ Ready.k = "ready"
    BY DEF Frames, Ready, Numbers
  <2>10. E <= L /\ \A n \in Numbers(page) : n <= L
    BY <1>1, <1>6, <2>1, <2>2
  <2>11. FrameFair(page, Len(down) + 1, mem, down, phone, h)
    BY <1>8, <2>2, <2>6 DEF FrameFair
  <2> DEFINE d1 == Append(down, page)
  <2>12. /\ DownOK(L, d1) /\ FramesFair(mem, d1, phone, h) /\ Len(d1) = Len(down) + 1
         /\ \A c \in Nat, e \in Nat :
             DueTo(c, Len(down) + 1, mem, down, phone, h) /\ (c + 1)..e \subseteq Numbers(page) /\ e <= L
               => DueTo(e, Len(d1) + 1, mem, d1, phone, h)
    <3>1. page \in Frames /\ (\A n \in Numbers(page) : n <= mem.last) /\ DownOK(mem.last, down)
      BY <2>2, <2>10
    <3> QED
      BY ONLY <1>3, <1>7, <2>11, <3>1, FrameAppended
  <2> HIDE DEF d1
  <2>13. DueTo(E, Len(d1) + 1, mem, d1, phone, h)
    BY <1>6, <1>8, <2>1, <2>2, <2>10, <2>12
  <2>14. CASE page.hasMore
    <3>1. sub' = paged /\ down' = d1
      BY <2>4, <2>14 DEF d1
    <3>2. SubFair(mem, paged)
      BY <2>3 DEF SubFair
    <3> QED
      BY <2>3, <2>12, <2>13, <3>1, <3>2, NotNoSub DEF h
  <2>15. CASE ~page.hasMore
    <3> DEFINE top == Bigger(paged.delivered, Highest(seqs))
    <3>1. seqs \subseteq Nat /\ (\A n \in seqs : n <= L) /\ d1 \in Seq(Frames) /\ Len(d1) \in Nat
      BY <1>1, <1>6, <2>8, <2>12, DownFrames
    <3>2. Highest(seqs) \in seqs \cup {0} /\ \A n \in seqs : n <= Highest(seqs)
      BY <1>1, <3>1, HighestOf
    <3>3. E >= st.tip
      <4>1. ~(E < st.tip)
        BY <2>2, <2>15, Zenon
      <4> QED
        BY <1>6, <2>1, <4>1
    <3>4. Highest(seqs) \in Nat
      <4>1. Highest(seqs) \in seqs \cup {0} /\ seqs \subseteq Nat
        BY <3>1, <3>2
      <4>2. 0 \in Nat
        OBVIOUS
      <4> QED
        BY <4>1, <4>2, Zenon
    <3>5. top \in Nat /\ top >= E /\ (top = E \/ (top = Highest(seqs) /\ top > E))
      BY <2>1, <2>3, <3>4 DEF Bigger
    <3>6. top <= L /\ (E + 1)..top \subseteq seqs
      <4>1. CASE top = E
        BY <2>1, <2>10, <4>1
      <4>2. CASE top = Highest(seqs) /\ top > E
        <5>1. top \in seqs
          BY <2>1, <3>2, <4>2
        <5>2. top <= L
          BY <3>1, <5>1
        <5>3. ~st.ready
          BY <2>8, <5>1, <1>6
        <5>4. (E + 1)..top \subseteq (st.tip + 1)..L
          BY <1>1, <1>6, <2>1, <3>3, <3>5, <5>2
        <5>5. \A n \in (E + 1)..top : n \in DOMAIN st.buffer /\ n > E
          BY <1>6, <1>10, <2>1, <5>3, <5>4
        <5> QED
          BY <2>8, <5>2, <5>5
      <4> QED
        BY <3>5, <4>1, <4>2
    <3>7. sub' = [paged EXCEPT !.buffer = NoEvents, !.ready = TRUE, !.delivered = top]
      BY <2>4, <2>15 DEF Subs
    <3> HIDE DEF top
    <3>8. NoEvents \in Batches /\ DOMAIN NoEvents = {}
      <4>1. NoEvents \in [{} -> Notice] /\ {} \in SUBSET Nat
        BY DEF NoEvents
      <4> QED
        BY <4>1 DEF Batches
    <3>9. /\ sub' \in Subs /\ sub'.buffer = NoEvents /\ sub'.delivered = top
      BY <2>3, <3>5, <3>7, <3>8 DEF Subs
    <3>10. sub' # NoSub /\ SubFair(mem, sub')
      BY <3>8, <3>9, NotNoSub DEF SubFair, Copies
    <3> DEFINE d2 == IF seqs = {} THEN d1 ELSE Append(d1, live)
    <3>11. DownOK(L, d2) /\ FramesFair(mem, d2, phone, h) /\ DueTo(top, Len(d2) + 1, mem, d2, phone, h)
      <4>1. CASE seqs = {}
        <5>1. top = E
          BY <2>1, <3>5, <3>6, <4>1
        <5> QED
          BY <2>12, <2>13, <4>1, <5>1
      <4>2. CASE seqs # {}
        <5> DEFINE q == Append(d1, live)
        <5>1. FrameFair(live, Len(d1) + 1, mem, d1, phone, h)
          <6>1. DueTo(-1, Len(d1) + 1, mem, d1, phone, h)
            BY <1>1 DEF DueTo
          <6> QED
            BY <2>7, <2>8, <2>15, <6>1 DEF FrameFair
        <5>2. /\ DownOK(L, q) /\ FramesFair(mem, q, phone, h)
              /\ \A c \in Nat, e \in Nat :
                   DueTo(c, Len(d1) + 1, mem, d1, phone, h) /\ (c + 1)..e \subseteq Numbers(live) /\ e <= L
                     => DueTo(e, Len(q) + 1, mem, q, phone, h)
          BY <1>3, <2>8, <2>12, <3>1, <5>1, FrameAppended
        <5>3. d2 = q
          BY <4>2
        <5> HIDE DEF q, d2
        <5>4. DueTo(top, Len(q) + 1, mem, q, phone, h)
          BY <2>1, <2>8, <2>13, <3>5, <3>6, <5>2
        <5> QED
          BY <5>2, <5>3, <5>4
      <4> QED
        BY <4>1, <4>2
    <3>12. down' = Append(d2, Ready)
      <4>1. CASE seqs = {}
        <5>1. down' = down \o <<page, Ready>>
          BY <2>4, <2>15, <4>1
        <5>2. d2 = Append(down, page)
          BY <4>1 DEF d1
        <5> HIDE DEF d2
        <5> QED
          BY <1>5, <2>2, <2>9, <5>1, <5>2, PairAppended
      <4>2. CASE seqs # {}
        <5>1. down' = down \o <<page, live, Ready>>
          BY <2>4, <2>15, <4>2
        <5>2. d2 = Append(Append(down, page), live)
          BY <4>2 DEF d1
        <5> HIDE DEF d2
        <5> QED
          BY <1>5, <2>2, <2>8, <2>9, <5>1, <5>2, TripleAppended
      <4> QED
        BY <4>1, <4>2
    <3> HIDE DEF d2
    <3>13. FrameFair(Ready, Len(d2) + 1, mem, d2, phone, h)
      BY <2>9 DEF FrameFair
    <3> DEFINE d3 == Append(d2, Ready)
    <3>14. /\ FramesFair(mem, d3, phone, h)
           /\ \A c \in Nat, e \in Nat :
                DueTo(c, Len(d2) + 1, mem, d2, phone, h) /\ (c + 1)..e \subseteq Numbers(Ready) /\ e <= L
                  => DueTo(e, Len(d3) + 1, mem, d3, phone, h)
      BY <1>3, <2>9, <3>11, <3>13, FrameAppended
    <3> HIDE DEF d3
    <3>15. DueTo(top, Len(d3) + 1, mem, d3, phone, h)
      <4>1. (top + 1)..top = {}
        BY <3>5
      <4> QED
        BY <3>5, <3>6, <3>11, <3>14, <4>1
    <3> QED
      BY <3>9, <3>10, <3>12, <3>14, <3>15 DEF d3, h
  <2> QED
    BY <2>14, <2>15
<1> QED
  BY <1>6, <1>9, <1>10

\* Below the oldest number that the log offers there is nothing.
LEMMA OldestFirst ==
    ASSUME NEW st, IsStore(st)
    PROVE  /\ OldestAvailable(st) \in Nat /\ OldestAvailable(st) <= st.last
           /\ \A n \in DOMAIN st.events : OldestAvailable(st) <= n
<1> DEFINE D == DOMAIN st.events
<1>1. D \subseteq 1..st.last /\ st.last \in Nat
  BY DEF IsStore
<1> HIDE DEF D
<1>2. CASE D = {}
  BY <1>1, <1>2 DEF OldestAvailable, D
<1>3. CASE D # {}
  <2>1. Lowest(D) \in D /\ \A n \in D : Lowest(D) <= n
    <3>1. D \subseteq Nat
      BY <1>1
    <3> QED
      BY <1>3, <3>1, LowestOf
  <2>2. OldestAvailable(st) = Lowest(D)
    BY <1>3 DEF OldestAvailable, D
  <2> DEFINE x == Lowest(D)
  <2> HIDE DEF x
  <2>a. x \in D
    BY <2>1 DEF x
  <2>b. x \in Nat /\ x <= st.last
    BY <1>1, <2>a
  <2>3. Lowest(D) \in Nat /\ Lowest(D) <= st.last
    BY <2>b DEF x
  <2> QED
    BY <2>1, <2>2, <2>3 DEF D
<1> QED
  BY <1>2, <1>3

\* The hub has taken the first request, and the channel down is in order.
LEMMA AskTaken ==
    ASSUME Going, ChannelInv, Claims, up # <<>>, up' = Tail(up), UNCHANGED <<mem, phone>>,
           FramesFair(mem, down', phone, hist'), SubFair(mem, sub'),
           Asking(up', down') => sub' # NoSub /\ DueTo(sub'.delivered, Len(down') + 1, mem, down', phone, hist')
    PROVE  Claims'
<1>1. phone \in Phones /\ up \in Seq(Asks)
  BY DEF ChannelInv, ChannelsOK, PhoneOK
<1>2. PhoneFair(mem, phone, hist) /\ AsksFair(mem, up, phone, hist)
  BY DEF Claims, CursorOK
<1>3. More(mem, phone, hist, mem, phone, hist')
  BY DEF Going
<1>4. PhoneFair(mem, phone, hist')
  BY <1>1, <1>2, <1>3, PhoneMore
<1>5. AsksFair(mem, up, phone, hist')
  BY <1>1, <1>2, <1>3, AsksMore
<1>6. ToSet(up) = {Head(up)} \cup ToSet(up')
  BY <1>1, TakenSet
<1>7. AsksFair(mem, up', phone, hist')
  BY <1>5, <1>6 DEF AsksFair
<1>8. Paced(mem, sub', up', down', phone, hist')
  BY DEF Paced
<1>9. CursorOK(mem, sub', up', down', phone, hist')
  BY <1>4, <1>7, <1>8 DEF CursorOK
<1> QED
  BY <1>9 DEF Claims

LEMMA NextPageClaims ==
    ASSUME Going, LogOK, HistShape(hist), ChannelInv, Claims, HubNextPage
    PROVE  Claims'
<1>1. /\ up # <<>> /\ Head(up).k = "next_page" /\ up' = Tail(up)
      /\ UNCHANGED <<mem, conn, phone>> /\ (sub # NoSub => ServePage(sub))
  BY DEF HubNextPage
<1>2. SubOK(sub, mem.last) /\ up \in Seq(Asks) /\ DownOK(mem.last, down)
  BY DEF ChannelInv, ChannelsOK
<1>3. FramesFair(mem, down, phone, hist) /\ SubFair(mem, sub) /\ Paced(mem, sub, up, down, phone, hist)
  BY DEF Claims, CursorOK
<1>4. Asking(up, down)
  <2>1. Head(up) \in ToSet(up)
    BY <1>1, <1>2, TakenSet
  <2> QED
    BY <1>1, <2>1 DEF Asking
<1>5. sub # NoSub /\ DueTo(sub.delivered, Len(down) + 1, mem, down, phone, hist)
  BY <1>3, <1>4 DEF Paced
<1>6. sub \in Subs /\ Copies(sub.buffer, mem) /\ ServePage(sub)
  BY <1>1, <1>2, <1>3, <1>5 DEF SubOK, SubFair
<1>7. /\ FramesFair(mem, down', phone, hist') /\ sub' # NoSub /\ SubFair(mem, sub')
      /\ DueTo(sub'.delivered, Len(down') + 1, mem, down', phone, hist')
  BY <1>1, <1>2, <1>3, <1>5, <1>6, ServeClaims
<1> QED
  BY <1>1, <1>7, AskTaken

LEMMA SubscribedClaims ==
    ASSUME Going, LogOK, HistShape(hist), ChannelInv, Claims, HubSubscribe
    PROVE  Claims'
<1> DEFINE msg == Head(up)
<1> DEFINE oldest == OldestAvailable(mem)
<1> DEFINE start == IF msg.cursor = -1 THEN Bigger(0, oldest - 1) ELSE msg.cursor
<1> DEFINE S(w) == [delivered |-> start, tip |-> mem.last, buffer |-> NoEvents, overflowed |-> FALSE,
                    ready |-> FALSE, window |-> w]
<1> DEFINE old == [k |-> "expired", oldest |-> oldest]
<1>1. /\ up # <<>> /\ msg.k = "subscribe" /\ up' = Tail(up)
      /\ \/ down' = Append(down, old) /\ sub' = sub /\ hist' = hist
         \/ \E w \in Anchored(msg.window) : ServePage(S(w))
      /\ UNCHANGED <<mem, conn, phone>>
  BY DEF HubSubscribe
<1>2. SubOK(sub, mem.last) /\ up \in Seq(Asks) /\ DownOK(mem.last, down) /\ down \in Seq(Frames)
  BY DEF ChannelInv, ChannelsOK, DownOK
<1>3. /\ FramesFair(mem, down, phone, hist) /\ SubFair(mem, sub) /\ AsksFair(mem, up, phone, hist)
      /\ Paced(mem, sub, up, down, phone, hist)
  BY DEF Claims, CursorOK
<1>4. msg \in Asks /\ msg \in ToSet(up) /\ ToSet(up) = {msg} \cup ToSet(up')
  BY <1>1, <1>2, TakenSet
<1>5. msg.cursor \in Nat \cup {-1} /\ msg.window \in Nat
  <2>1. msg \in [k : {"subscribe"}, cursor : Nat \cup {-1}, window : Nat]
    BY <1>1, <1>4 DEF Asks
  <2> QED
    BY <2>1
<1>6. SeenTo(msg.cursor, mem, phone, hist)
  BY <1>1, <1>3, <1>4 DEF AsksFair
<1>7. IsStore(mem) /\ mem.last \in Nat
  BY DEF LogOK, StoreOK, IsStore
<1>8. oldest \in Nat /\ oldest <= mem.last /\ \A n \in DOMAIN mem.events : oldest <= n
  BY <1>7, OldestFirst
<1> HIDE DEF msg, oldest
<1>9. SeenTo(oldest - 1, mem, phone, hist) /\ SeenTo(0, mem, phone, hist)
  <2>1. \A n \in 1..(oldest - 1) : n \notin DOMAIN mem.events
    BY <1>8
  <2> QED
    BY <1>7, <1>8, <2>1 DEF SeenTo, Seen
<1>10. start \in Nat /\ SeenTo(start, mem, phone, hist)
  BY <1>5, <1>6, <1>8, <1>9 DEF Bigger
<1> HIDE DEF start
<1>11. CASE down' = Append(down, old) /\ sub' = sub /\ hist' = hist
  <2>1. old \in Frames /\ old.k = "expired" /\ Numbers(old) = {} /\ old.oldest = oldest
    BY <1>8 DEF Frames, Numbers
  <2> HIDE DEF old
  <2>2. FrameFair(old, Len(down) + 1, mem, down, phone, hist)
    BY <1>9, <2>1 DEF FrameFair
  <2> DEFINE q == Append(down, old)
  <2>3. More(mem, phone, hist, mem, phone, hist)
    BY <1>1, <1>11 DEF Going
  <2>4. \A n \in Numbers(old) : n <= mem.last
    BY <2>1
  <2>5. /\ FramesFair(mem, q, phone, hist)
        /\ \A c \in Nat, e \in Nat :
             DueTo(c, Len(down) + 1, mem, down, phone, hist) /\ (c + 1)..e \subseteq Numbers(old) /\ e <= mem.last
               => DueTo(e, Len(q) + 1, mem, q, phone, hist)
    BY ONLY <1>2, <1>3, <2>1, <2>2, <2>3, <2>4, FrameAppended
  <2>6. ToSet(q) = ToSet(down) \cup {old}
    BY <1>2, <2>1, AppendedSet
  <2> HIDE DEF q
  <2>7. down' = q
    BY <1>11 DEF q
  <2>8. ASSUME Asking(up', q) PROVE sub # NoSub /\ DueTo(sub.delivered, Len(q) + 1, mem, q, phone, hist)
    <3>1. Asking(up, down)
      BY <1>4, <2>1, <2>6, <2>8 DEF Asking
    <3>2. sub # NoSub /\ DueTo(sub.delivered, Len(down) + 1, mem, down, phone, hist)
      BY <1>3, <3>1 DEF Paced
    <3>3. sub.delivered \in Nat /\ sub.delivered <= mem.last
      BY <1>2, <3>2 DEF SubOK, Subs, DueTo
    <3>4. (sub.delivered + 1)..sub.delivered = {}
      BY <3>3
    <3> QED
      BY <2>5, <3>2, <3>3, <3>4
  <2> QED
    BY <1>1, <1>3, <1>11, <2>5, <2>7, <2>8, AskTaken
<1>12. CASE \E w \in Anchored(msg.window) : ServePage(S(w))
  <2>0. PICK w \in Anchored(msg.window) : ServePage(S(w))
    BY <1>12
  <2> DEFINE st == S(w)
  <2>w. w \in Nat
    BY <1>5, <2>0 DEF Anchored
  <2>1. NoEvents \in Batches /\ DOMAIN NoEvents = {}
    <3>1. NoEvents \in [{} -> Notice] /\ {} \in SUBSET Nat
      BY DEF NoEvents
    <3> QED
      BY <3>1 DEF Batches
  <2>2. /\ st \in Subs /\ st.tip = mem.last /\ st.buffer = NoEvents /\ st.delivered = start
        /\ st.ready = FALSE
    BY <1>7, <1>10, <2>1, <2>w DEF Subs
  <2>s. ServePage(st)
    BY <2>0
  <2> HIDE DEF st
  <2>3. SubOK(st, mem.last)
    <3>1. Cardinality(DOMAIN st.buffer) <= BufferLimit
      BY <2>1, <2>2, FS_EmptySet, NotificationsAssumption
    <3>2. DOMAIN st.buffer = {} /\ (st.tip + 1)..mem.last = {}
      BY <1>7, <2>1, <2>2
    <3> QED
      BY <1>7, <2>2, <3>1, <3>2 DEF SubOK
  <2>4. Copies(st.buffer, mem)
    BY <2>1, <2>2 DEF Copies
  <2>5. DueTo(st.delivered, Len(down) + 1, mem, down, phone, hist)
    BY <1>10, <2>2 DEF DueTo, SeenTo
  <2>6. /\ FramesFair(mem, down', phone, hist') /\ sub' # NoSub /\ SubFair(mem, sub')
        /\ DueTo(sub'.delivered, Len(down') + 1, mem, down', phone, hist')
    BY <1>1, <1>2, <1>3, <2>s, <2>2, <2>3, <2>4, <2>5, ServeClaims
  <2> QED
    BY <1>1, <2>6, AskTaken DEF msg
<1> QED
  BY <1>1, <1>11, <1>12

LEMMA AckClaims ==
    ASSUME Going, ChannelInv, Claims, HubAck
    PROVE  Claims'
<1>1. up # <<>> /\ up' = Tail(up) /\ UNCHANGED <<sub, conn, down, phone, hist>>
  BY DEF HubAck
<1>2. up \in Seq(Asks)
  BY DEF ChannelInv, ChannelsOK
<1>3. ToSet(up') \subseteq ToSet(up)
  BY <1>1, <1>2, TakenSet
<1>4. CursorOK(mem', sub, up, down, phone', hist')
  BY <1>1, CursorSame DEF Going, ChannelInv, Claims
<1>5. Asking(up', down) => Asking(up, down)
  BY <1>3 DEF Asking
<1>6. CursorOK(mem', sub, up', down, phone', hist')
  BY <1>3, <1>4, <1>5 DEF CursorOK, Paced, AsksFair
<1> QED
  BY <1>1, <1>6 DEF Claims

LEMMA LiveFrameOf ==
    ASSUME NEW n \in Nat, NEW e \in Notice
    PROVE  LET f == LiveFrame([x \in {n} |-> e], {})
           IN  /\ f \in Frames /\ f.k = "events" /\ f.hasMore = FALSE /\ f.from = -1
               /\ f.skipped = {} /\ f.events = [x \in {n} |-> e] /\ Numbers(f) = {n}
<1> DEFINE ev == [x \in {n} |-> e]
<1> DEFINE f == LiveFrame(ev, {})
<1>1. ev \in [{n} -> Notice] /\ {n} \in SUBSET Nat /\ DOMAIN ev = {n}
  OBVIOUS
<1>2. ev \in Batches
  BY <1>1 DEF Batches
<1> HIDE DEF ev
<1>3. f = [k |-> "events", from |-> -1, hasMore |-> FALSE, skipped |-> {}, events |-> ev]
  BY DEF LiveFrame
<1>4. f \in Frames
  <2>1. -1 \in Nat \cup {-1} /\ FALSE \in BOOLEAN /\ {} \in SUBSET Nat
    OBVIOUS
  <2> QED
    BY <1>2, <1>3, <2>1, EventsFrame
<1>5. f.k = "events" /\ f.hasMore = FALSE /\ f.from = -1 /\ f.skipped = {} /\ f.events = ev
  BY <1>3
<1>6. Numbers(f) = {n}
  BY <1>1, <1>5 DEF Numbers
<1> HIDE DEF f
<1> QED
  BY <1>4, <1>5, <1>6 DEF f, ev

\* A new event: the log has it under the number with which it is sent or buffered.
LEMMA PushClaims ==
    ASSUME Going, ChannelInv, Claims, LogOK', mem.last \in Nat, mem'.last = mem.last + 1,
           NEW e \in Notice, Push(mem.last + 1, e), UNCHANGED <<conn, up, phone>>,
           mem.last + 1 \in DOMAIN mem'.events => mem'.events[mem.last + 1] = e
    PROVE  Claims'
<1> DEFINE L == mem.last
<1> DEFINE n == L + 1
<1> DEFINE m2 == mem'
<1> DEFINE h2 == hist'
<1>1. L \in Nat /\ n \in Nat /\ L <= n /\ m2.last = n /\ (n \in DOMAIN m2.events => m2.events[n] = e)
  OBVIOUS
<1>2. /\ ChannelsOK(mem.last, sub, conn, up, down, phone) /\ SubOK(sub, L) /\ phone \in Phones
      /\ up \in Seq(Asks) /\ DownOK(L, down) /\ (~conn => up = <<>> /\ down = <<>>)
  BY DEF ChannelInv, ChannelsOK, PhoneOK
<1>p. /\ (sub = NoSub => UNCHANGED <<sub, down>>)
      /\ (sub # NoSub /\ sub.ready => PushLive(n, e))
      /\ (sub # NoSub /\ ~sub.ready =>
            /\ sub' = IF Room THEN Buffered(n, e) ELSE [sub EXCEPT !.overflowed = TRUE]
            /\ UNCHANGED down)
  BY DEF Push
<1>3. CursorOK(m2, sub, up, down, phone, h2)
  BY <1>2, CursorSame DEF Going, Claims
<1>4. More(m2, phone, h2, m2, phone, h2)
  <2>1. \A x \in DOMAIN m2.events : m2.events[x].id \in Nat
    <3> SUFFICES ASSUME NEW x \in DOMAIN m2.events PROVE m2.events[x].id \in Nat
      OBVIOUS
    <3>1. m2.events[x] \in Entry(count')
      BY DEF LogOK, StoreOK
    <3> QED
      BY <3>1 DEF Entry
  <2>2. phone.window \in Nat
    BY <1>2 DEF Phones
  <2> QED
    BY <1>1, <2>1, <2>2 DEF More, Ahead
<1>g. Claims' <=> CursorOK(m2, sub', up, down', phone, h2)
  BY DEF Claims
<1> HIDE DEF L, n, m2, h2
<1>5. /\ PhoneFair(m2, phone, h2) /\ FramesFair(m2, down, phone, h2) /\ AsksFair(m2, up, phone, h2)
      /\ SubFair(m2, sub) /\ Paced(m2, sub, up, down, phone, h2)
  BY <1>3 DEF CursorOK
<1>6. CASE sub = NoSub
  <2>1. sub' = sub /\ down' = down
    BY <1>6, <1>p
  <2> QED
    BY <1>3, <1>g, <2>1
<1>7. CASE sub # NoSub /\ sub.ready
  <2> DEFINE f == LiveFrame([x \in {n} |-> e], {})
  <2> DEFINE q == Append(down, f)
  <2>1. /\ sub' = [sub EXCEPT !.delivered = Bigger(@, n)]
        /\ down' = IF conn THEN q ELSE down
    BY <1>7, <1>p DEF PushLive
  <2>2. /\ f \in Frames /\ f.k = "events" /\ f.hasMore = FALSE /\ f.from = -1
        /\ f.skipped = {} /\ f.events = [x \in {n} |-> e] /\ Numbers(f) = {n}
    BY <1>1, LiveFrameOf
  <2> HIDE DEF f
  <2>3. /\ sub \in Subs /\ sub.delivered \in Nat /\ sub.delivered >= L
    BY <1>2, <1>7 DEF SubOK, Subs
  <2>4. Bigger(sub.delivered, n) \in Nat
    BY <1>1, <2>3 DEF Bigger
  <2>5. /\ sub' \in Subs /\ sub'.delivered = Bigger(sub.delivered, n)
        /\ sub'.buffer = sub.buffer
    BY <2>1, <2>3, <2>4 DEF Subs
  <2>6. SubFair(m2, sub') /\ sub' # NoSub
    BY <1>5, <1>7, <2>5, NotNoSub DEF SubFair
  <2>7. CASE ~conn
    <3>1. up = <<>> /\ down' = <<>> /\ down' = down
      BY <1>2, <2>1, <2>7
    <3>2. ToSet(up) = {} /\ ToSet(down') = {}
      BY <3>1 DEF ToSet
    <3>3. Paced(m2, sub', up, down', phone, h2)
      BY <3>2 DEF Paced, Asking
    <3> QED
      BY <1>5, <1>g, <2>6, <3>1, <3>3 DEF CursorOK
  <2>8. CASE conn
    <3>1. DownOK(m2.last, down) /\ down \in Seq(Frames)
      BY <1>1, <1>2, DownGrows DEF DownOK
    <3>2. Copies(f.events, m2)
      BY <1>1, <2>2 DEF Copies
    <3>3. DueTo(-1, Len(down) + 1, m2, down, phone, h2)
      BY <1>1 DEF DueTo
    <3>4. FrameFair(f, Len(down) + 1, m2, down, phone, h2)
      BY <2>2, <3>2, <3>3 DEF FrameFair
    <3>5. \A x \in Numbers(f) : x <= m2.last
      BY <1>1, <2>2
    <3>6. /\ FramesFair(m2, q, phone, h2)
          /\ \A c \in Nat, x \in Nat :
               DueTo(c, Len(down) + 1, m2, down, phone, h2) /\ (c + 1)..x \subseteq Numbers(f) /\ x <= m2.last
                 => DueTo(x, Len(q) + 1, m2, q, phone, h2)
      BY ONLY <1>4, <1>5, <2>2, <3>1, <3>4, <3>5, FrameAppended
    <3>7. ToSet(q) = ToSet(down) \cup {f}
      BY <2>2, <3>1, AppendedSet
    <3> HIDE DEF q
    <3>8. ASSUME Asking(up, q) PROVE DueTo(sub'.delivered, Len(q) + 1, m2, q, phone, h2)
      <4>1. Asking(up, down)
        BY <2>2, <3>7, <3>8 DEF Asking
      <4>2. DueTo(sub.delivered, Len(down) + 1, m2, down, phone, h2)
        BY <1>5, <4>1 DEF Paced
      <4>3. sub.delivered <= n
        BY <1>1, <4>2 DEF DueTo
      <4>4. sub'.delivered = n
        BY <1>1, <2>3, <2>5, <4>3 DEF Bigger
      <4>5. (sub.delivered + 1)..n \subseteq {n}
        BY <1>1, <2>3 DEF n
      <4>6. n <= m2.last
        BY <1>1
      <4> QED
        BY <1>1, <2>2, <2>3, <3>6, <4>2, <4>4, <4>5, <4>6
    <3>9. down' = q
      BY <2>1, <2>8
    <3>10. Paced(m2, sub', up, q, phone, h2)
      BY <2>6, <3>8 DEF Paced
    <3> QED
      BY <1>5, <1>g, <2>6, <3>6, <3>9, <3>10 DEF CursorOK
  <2> QED
    BY <2>7, <2>8
<1>8. CASE sub # NoSub /\ ~sub.ready
  <2>1. /\ sub' = IF Room THEN [sub EXCEPT !.buffer = Put(sub.buffer, n, e)]
                          ELSE [sub EXCEPT !.overflowed = TRUE]
        /\ down' = down
    BY <1>8, <1>p DEF Buffered
  <2>2. sub \in Subs /\ sub.buffer \in Batches /\ Copies(sub.buffer, m2)
    BY <1>2, <1>5, <1>8 DEF SubOK, Subs, SubFair
  <2> DEFINE b == Put(sub.buffer, n, e)
  <2>3. b \in Batches /\ Copies(b, m2)
    <3>1. PICK S \in SUBSET Nat : sub.buffer \in [S -> Notice]
      BY <2>2 DEF Batches
    <3>2. b \in [S \cup {n} -> Notice] /\ S \cup {n} \in SUBSET Nat
      BY <1>1, <3>1 DEF Put
    <3>3. DOMAIN b = DOMAIN sub.buffer \cup {n}
      BY DEF Put
    <3>4. \A x \in DOMAIN b : b[x] = IF x = n THEN e ELSE sub.buffer[x]
      BY DEF Put
    <3> HIDE DEF b
    <3>5. b \in Batches
      BY <3>2 DEF Batches
    <3>6. Copies(b, m2)
      <4> SUFFICES ASSUME NEW x \in DOMAIN b, x \in DOMAIN m2.events PROVE m2.events[x] = b[x]
        BY DEF Copies
      <4>1. CASE x = n
        BY <1>1, <3>4, <4>1
      <4>2. CASE x # n
        <5>1. x \in DOMAIN sub.buffer /\ b[x] = sub.buffer[x]
          BY <3>3, <3>4, <4>2
        <5> QED
          BY <2>2, <5>1 DEF Copies
      <4> QED
        BY <4>1, <4>2
    <3> QED
      BY <3>5, <3>6
  <2> HIDE DEF b
  <2>4. /\ sub' \in Subs /\ sub'.delivered = sub.delivered
        /\ sub'.buffer = b \/ sub'.buffer = sub.buffer
    <3>1. CASE Room
      <4>1. sub' = [sub EXCEPT !.buffer = b]
        BY <2>1, <3>1 DEF b
      <4> QED
        BY <2>2, <2>3, <4>1 DEF Subs
    <3>2. CASE ~Room
      <4>1. sub' = [sub EXCEPT !.overflowed = TRUE]
        BY <2>1, <3>2
      <4> QED
        BY <2>2, <4>1 DEF Subs
    <3> QED
      BY <3>1, <3>2
  <2>5. SubFair(m2, sub') /\ sub' # NoSub
    BY <2>2, <2>3, <2>4, NotNoSub DEF SubFair
  <2>6. Paced(m2, sub', up, down', phone, h2)
    BY <1>5, <2>1, <2>4, <2>5 DEF Paced
  <2> QED
    BY <1>5, <1>g, <2>1, <2>5, <2>6 DEF CursorOK
<1> QED
  BY <1>6, <1>7, <1>8

\* What the log says, what is under way, and, unless the numbers have gone back, what the
\* cursor and all that may become one claim.
CursorInv == BookInv /\ WireInv /\ (~hist.regressed => Claims)

LEMMA CursorStarts ==
    Init => CursorInv
<1> SUFFICES ASSUME Init PROVE CursorInv
  OBVIOUS
<1>1. /\ file = EmptyStore /\ mem = EmptyStore /\ hist = HistoryInit
      /\ sub = NoSub /\ up = <<>> /\ down = <<>>
      /\ phone = [cursor |-> -1, through |-> 0, got |-> {}, shown |-> {}, window |-> 0]
  BY DEF Init
<1>2. DiskInv
  BY <1>1 DEF DiskInv, Agree, IsStore, EmptyStore
<1>3. mem.last = 0 /\ DOMAIN mem.events = {} /\ DOMAIN file.events = {} /\ DOMAIN hist.persisted = {}
  BY <1>1 DEF EmptyStore, HistoryInit
<1>4. HistShape(hist)
  BY <1>1 DEF HistShape, HistoryInit
<1>5. BookInv
  BY <1>2, <1>3, <1>4 DEF BookInv, Whole, Numbered
<1>6. SeenTo(-1, mem, phone, hist) /\ SeenTo(0, mem, phone, hist)
  BY <1>3 DEF SeenTo
<1>7. PhoneFair(mem, phone, hist)
  BY <1>1, <1>6 DEF PhoneFair
<1>8. ToSet(up) = {} /\ ToSet(down) = {} /\ Len(down) = 0
  BY <1>1 DEF ToSet
<1>9. /\ FramesFair(mem, down, phone, hist) /\ AsksFair(mem, up, phone, hist) /\ SubFair(mem, sub)
      /\ ~Asking(up, down)
  BY <1>1, <1>8 DEF FramesFair, AsksFair, SubFair, Asking
<1>10. Claims
  BY <1>7, <1>9 DEF Claims, CursorOK, Paced
<1> QED
  BY <1>5, <1>10, WireStarts DEF CursorInv

\* The user loses nothing that was shown, and looks at the app no earlier than before.
LEMMA UserKeeps ==
    ASSUME WireInv, [Next]_vars
    PROVE  phone.window <= phone'.window /\ phone.shown \subseteq phone'.shown
<1>1. phone \in Phones /\ phone.window \in Nat
  BY DEF WireInv, ChannelInv, ChannelsOK, PhoneOK, Phones
<1>2. CASE phone' = phone
  BY <1>1, <1>2
<1>3. CASE Glance
  <2>1. phone.window < count.events /\ phone' = [phone EXCEPT !.window = count.events]
    BY <1>3 DEF Glance
  <2>2. count.events \in Nat
    BY DEF WireInv, LogOK, Counts
  <2>3. phone'.window = count.events /\ phone'.shown = phone.shown
    BY <1>1, <2>1 DEF Phones
  <2> QED
    BY <1>1, <2>1, <2>2, <2>3
<1>4. ASSUME NEW c, Subscribe(c) PROVE phone'.window = phone.window /\ phone'.shown = phone.shown
  <2> DEFINE t == IF c = -1 THEN 0 ELSE c
  <2>1. phone' = [phone EXCEPT !.cursor = c, !.got = {}, !.through = t]
    BY <1>4 DEF Subscribe
  <2> HIDE DEF t
  <2> QED
    BY <1>1, <2>1 DEF Phones
<1>5. CASE PhoneConnect \/ PhoneRestarts
  BY <1>1, <1>4, <1>5 DEF PhoneConnect, PhoneRestarts
<1>6. ASSUME NEW p, p = [cursor |-> p.cursor, through |-> p.through, got |-> p.got, shown |-> p.shown,
                         window |-> p.window]
      PROVE  Saved(p).window = p.window /\ Saved(p).shown = p.shown
  <2> DEFINE c == Bigger(p.cursor, p.through)
  <2>1. Saved(p) = [p EXCEPT !.cursor = c]
    BY DEF Saved
  <2> HIDE DEF c
  <2> QED
    BY <1>6, <2>1
<1>7. CASE PhoneReady
  <2>1. phone' = phone \/ phone' = Saved(phone)
    BY <1>7 DEF PhoneReady
  <2>2. phone = [cursor |-> phone.cursor, through |-> phone.through, got |-> phone.got,
                 shown |-> phone.shown, window |-> phone.window]
    BY <1>1 DEF Phones
  <2> QED
    BY <1>1, <1>6, <2>1, <2>2
<1>8. CASE PhoneEvents
  <2> DEFINE f == Head(down)
  <2> DEFINE base == Bigger(phone.through, f.from)
  <2> DEFINE reach == Reach(base, {x \in phone.got \cup DOMAIN f.events \cup f.skipped : x > base})
  <2> DEFINE ids == {f.events[n].id : n \in DOMAIN f.events}
  <2> DEFINE s == phone.shown \cup ids
  <2> DEFINE t == reach.through
  <2> DEFINE g == reach.got
  <2> DEFINE next == [phone EXCEPT !.through = t, !.got = g, !.shown = s]
  <2>1. phone' = next \/ phone' = Saved(next)
    BY <1>8 DEF PhoneEvents
  <2>2. phone.shown \subseteq s
    OBVIOUS
  <2> HIDE DEF s, t, g
  <2> DEFINE c0 == phone.cursor
  <2> DEFINE t0 == phone.through
  <2> DEFINE g0 == phone.got
  <2> DEFINE s0 == phone.shown
  <2> DEFINE w0 == phone.window
  <2>a. phone = [cursor |-> c0, through |-> t0, got |-> g0, shown |-> s0, window |-> w0]
    BY <1>1 DEF Phones
  <2>c. w0 = phone.window
    OBVIOUS
  <2> HIDE DEF c0, t0, g0, s0, w0
  <2>d. phone \in [cursor : {c0}, through : {t0}, got : {g0}, shown : {s0}, window : {w0}]
    BY <2>a
  <2>b. next \in [cursor : {c0}, through : {t}, got : {g}, shown : {s}, window : {w0}]
    BY <2>d
  <2>3. /\ next = [cursor |-> next.cursor, through |-> next.through, got |-> next.got,
                   shown |-> next.shown, window |-> next.window]
        /\ next.window = phone.window /\ next.shown = s
    <3> HIDE DEF next
    <3> QED
      BY <2>b, <2>c
  <2> HIDE DEF next
  <2> QED
    BY <1>1, <1>6, <2>1, <2>2, <2>3
<1> QED
  BY <1>2, <1>3, <1>5, <1>7, <1>8
  DEF Next, vars, AgentStart, AgentEnd, AgentAborted, AgentSettled, DesktopSnapshot, RegisterStart,
      RegisterDone, DesktopClosed, HubStopsInBetween, HubRestart, HubSubscribe, HubNextPage, HubAck, Drop

\* The end of a task that the hub hears of.
LEMMA EdgeClaims ==
    ASSUME Harmless, Going, BookInv, WireInv, DiskInv', WireInv', Claims,
           NEW s \in Sources, EdgeDown(s), UNCHANGED <<conn, up, phone>>
    PROVE  Claims'
<1>0. /\ LogOK /\ ChannelInv /\ DetShape(det) /\ mem.last \in Nat /\ LogOK'
      /\ ChannelsOK(mem.last, sub, conn, up, down, phone)
  BY DEF WireInv, NoticeInv, LogOK, StoreOK, IsStore, ChannelInv
<1>a. ASSUME UNCHANGED <<sub, down>> PROVE Claims'
  BY <1>0, <1>a, CursorSame DEF Going, Claims
<1>1. CASE ~Heard(s)
  BY <1>1, <1>a DEF EdgeDown
<1>2. CASE Heard(s)
  <2>1. PICK og \in Outcomes, oe \in Outcomes : CompleteTask(s, og, oe)
    BY <1>2 DEF EdgeDown
  <2>2. det[s].active # 0
    BY <1>0, <1>2 DEF Heard, LogOK, Engaged
  <2>3. mem'.last = IF oe = "ok" THEN mem.last + 1 ELSE mem.last
    BY <1>0, <2>1, <2>2, CompleteTaskFits
  <2>4. CASE oe = "ok"
    <3> DEFINE e == [id |-> count.events + 1, gen |-> det[s].active, source |-> s]
    <3>1. Push(mem.last + 1, e)
      BY <2>1, <2>4 DEF CompleteTask, NextSequence
    <3>2. e \in Notice
      <4>1. count.events + 1 \in Nat
        BY <1>0 DEF LogOK, Counts
      <4>2. det[s].active \in Nat
        BY <1>0 DEF LogOK, DetOK, StoreOK, Counts
      <4> QED
        BY <4>1, <4>2 DEF Notice
    <3>3. HistShape(hist')
      <4>1. \E p : hist' = [hist EXCEPT !.persisted = p]
        BY <2>1, <2>4 DEF CompleteTask
      <4>2. ASSUME NEW p, hist' = [hist EXCEPT !.persisted = p] PROVE HistShape(hist')
        BY <4>2 DEF BookInv, HistShape
      <4> QED
        BY <4>1, <4>2
    <3>4. mem.last + 1 \in DOMAIN mem'.events => mem'.events[mem.last + 1] = e
      BY <1>0, <2>1, <2>4, <3>3, CompleteTaskBook
    <3> HIDE DEF e
    <3>5. mem'.last = mem.last + 1
      BY <2>3, <2>4
    <3> QED
      BY <1>0, <3>1, <3>2, <3>4, <3>5, PushClaims
  <2>5. CASE oe # "ok"
    BY <1>a, <2>1, <2>5 DEF CompleteTask
  <2> QED
    BY <2>4, <2>5
<1> QED
  BY <1>1, <1>2

LEMMA ClaimsKept ==
    ASSUME Harmless, Going, BookInv, WireInv, DiskInv', WireInv', Claims, [Next]_vars
    PROVE  Claims'
<1>0. /\ LogOK /\ ChannelInv /\ HistShape(hist)
      /\ ChannelsOK(mem.last, sub, conn, up, down, phone)
  BY DEF WireInv, ChannelInv, BookInv
<1>a. ASSUME UNCHANGED <<sub, up, down, phone>> PROVE Claims'
  BY <1>0, <1>a, CursorSame DEF Going, Claims
<1>1. ASSUME NEW s \in Sources, AgentStart(s) \/ AgentAborted(s) \/ DesktopSnapshot(s) \/ RegisterStart(s)
                                  \/ RegisterDone(s) \/ DesktopClosed(s)
      PROVE  Claims'
  BY <1>1, <1>a DEF AgentStart, AgentAborted, DesktopSnapshot, RegisterStart, RegisterDone, DesktopClosed
<1>2. ASSUME NEW s \in Sources, AgentEnd(s) \/ AgentSettled(s) PROVE Claims'
  <2>1. EdgeDown(s) /\ UNCHANGED <<conn, up, phone>>
    BY <1>2 DEF AgentEnd, AgentSettled
  <2> QED
    BY <2>1, EdgeClaims
<1>3. ASSUME HubRestart \/ (\E s \in Sources : HubStopsInBetween(s)) PROVE Claims'
  <2>1. sub' = NoSub /\ up' = <<>> /\ down' = <<>> /\ phone' = phone
    BY <1>3 DEF HubRestart, HubStopsInBetween, Boot
  <2> QED
    BY <1>0, <2>1, EmptyClaims
<1>4. ASSUME Drop PROVE Claims'
  <2>1. sub' = sub /\ up' = <<>> /\ down' = <<>> /\ phone' = phone
    BY <1>4 DEF Drop
  <2> QED
    BY <1>0, <2>1, EmptyClaims
<1>5. ASSUME Glance PROVE Claims'
  <2>1. UNCHANGED <<sub, up, down>> /\ phone' = [phone EXCEPT !.window = count.events]
    BY <1>5 DEF Glance
  <2>2. phone'.cursor = phone.cursor /\ phone'.through = phone.through /\ phone'.got = phone.got
    BY <1>0, <2>1 DEF ChannelsOK, PhoneOK, Phones
  <2>3. CursorOK(mem', sub, up, down, phone', hist')
    BY <1>0, <2>2, CursorSame DEF Going, Claims
  <2> QED
    BY <2>1, <2>3 DEF Claims
<1>6. ASSUME HubSubscribe \/ HubNextPage \/ HubAck PROVE Claims'
  BY <1>0, <1>6, SubscribedClaims, NextPageClaims, AckClaims
<1>7. ASSUME PhoneConnect \/ PhoneEvents \/ PhoneReady \/ PhoneRestarts PROVE Claims'
  BY <1>0, <1>7, ConnectClaims, EventsClaims, ReadyClaims, RestartClaims
<1>8. ASSUME UNCHANGED vars PROVE Claims'
  BY <1>8, <1>a DEF vars
<1> QED
  BY <1>1, <1>2, <1>3, <1>4, <1>5, <1>6, <1>7, <1>8 DEF Next

LEMMA CursorKept ==
    ASSUME Harmless, CursorInv, [Next]_vars
    PROVE  CursorInv'
<1>1. BookInv /\ WireInv /\ (~hist.regressed => Claims)
  BY DEF CursorInv
<1>2. BookStep /\ HistGrows /\ WireInv'
  BY <1>1, BookKept, WireKept
<1>3. BookInv' /\ DiskInv'
  BY <1>2 DEF BookStep, BookInv
<1>4. ASSUME ~hist'.regressed PROVE Claims'
  <2>1. ~hist.regressed /\ Ahead(mem, mem')
    BY <1>2, <1>4 DEF BookStep
  <2>2. phone.window <= phone'.window /\ phone.shown \subseteq phone'.shown
    BY <1>1, UserKeeps
  <2>3. phone.window \in Nat /\ phone'.window \in Nat /\ mem.last \in Nat /\ mem'.last \in Nat
    BY <1>1, <1>2 DEF WireInv, ChannelInv, ChannelsOK, PhoneOK, Phones, LogOK, StoreOK, IsStore
  <2>4. ASSUME NEW n \in DOMAIN mem.events PROVE mem.events[n].id \in Nat
    <3>1. mem.events[n] \in Entry(count)
      BY <1>1 DEF WireInv, LogOK, StoreOK
    <3> QED
      BY <3>1 DEF Entry
  <2>5. Going
    BY <1>2, <2>1, <2>2, <2>3, <2>4 DEF Going, More, HistGrows
  <2> QED
    BY <1>1, <1>2, <1>3, <2>1, <2>5, ClaimsKept
<1> QED
  BY <1>2, <1>3, <1>4 DEF CursorInv

\* A cursor the phone has saved claims no event that the user has not had, but for those
\* lost to the re-anchoring of the background window, as long as no write leaves a torn
\* record: for any sizes of the pages and the buffer, any writes that
\* fail, any stops of the hub and losses of the socket, and any order of pages, pushed
\* events and requests.
THEOREM CursorNeverOverclaims ==
    ASSUME Harmless
    PROVE  Spec => []CursorClaimsNothingUnseen
<1>1. CursorInv => CursorClaimsNothingUnseen
  <2> SUFFICES ASSUME CursorInv, ~hist.regressed, NEW id \in DOMAIN hist.persisted,
                      hist.persisted[id] <= phone.cursor,
                      NEW n \in DOMAIN mem.events, mem.events[n].id = id
               PROVE  id \in phone.shown \/ id <= phone.window \/ id \in hist.stale \cup hist.slipped
    BY DEF CursorClaimsNothingUnseen
  <2>1. DiskInv /\ Numbered(file, hist) /\ SeenTo(phone.cursor, mem, phone, hist)
    BY DEF CursorInv, BookInv, Claims, CursorOK, PhoneFair
  <2>2. n \in DOMAIN file.events /\ file.events[n] = mem.events[n]
    BY <2>1 DEF DiskInv, Agree
  <2>3. hist.persisted[id] = n
    BY <2>1, <2>2 DEF Numbered
  <2>4. n \in 1..mem.last
    BY <2>1 DEF DiskInv, Agree, IsStore
  <2>5. n \in 1..phone.cursor
    <3>1. phone.cursor \in Nat \cup {-1}
      BY DEF CursorInv, WireInv, ChannelInv, ChannelsOK, PhoneOK, Phones
    <3> QED
      BY <2>3, <2>4, <3>1
  <2>6. Had(mem.events[n].id, phone, hist)
    BY <2>1, <2>5 DEF SeenTo, Seen
  <2> QED
    BY <2>6 DEF Had
<1> QED
  BY <1>1, CursorStarts, CursorKept, PTL DEF Spec

=============================================================================
