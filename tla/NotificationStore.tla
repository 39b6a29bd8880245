-------------------------- MODULE NotificationStore --------------------------
(***************************************************************************)
(* The hub's notification log (bridge/src/notification_event_store.ts): an *)
(* append-only file of records, and the memory that is rebuilt from it.    *)
(* Only operators: Notifications drives them.                              *)
(*                                                                         *)
(* load() applies one record after the other, so what a file says after an *)
(* append is what it said before with one more record applied: the file is *)
(* represented by the store it would load. `torn` says that it ends in half *)
(* a line without a newline, which a write that fails in the middle leaves. *)
(* An event is [id, gen, source]; its number in the stream is the key under *)
(* which the store keeps it.                                               *)
(***************************************************************************)
EXTENDS Integers, Sequences, FiniteSets, SequencesExt

CONSTANT MaxEvents   \* maxEvents: compaction keeps that many events

ASSUME MaxEventsAssumption == MaxEvents \in Nat \ {0}

EventRecord(seq, e) == [k |-> "event", seq |-> seq, e |-> e]
GenRecord(g, s, st) == [k |-> "generation", g |-> g, source |-> s, state |-> st]
AckRecord(n)        == [k |-> "ack", through |-> n]

EmptyStore == [events |-> [n \in {} |-> 0], gens |-> [g \in {} |-> 0],
               ack |-> 0, tombs |-> 0, last |-> 0, torn |-> FALSE]

Bigger(a, b) == IF a > b THEN a ELSE b
Put(f, k, v) == [x \in DOMAIN f \cup {k} |-> IF x = k THEN v ELSE f[x]]
Without(f, K) == [k \in DOMAIN f \ K |-> f[k]]

\* Faulty variant of Apply: a number already taken is not taken again.
ApplyFirst(st, r) ==
  CASE r.k = "event" -> [st EXCEPT !.events = @ @@ (r.seq :> r.e), !.last = Bigger(@, r.seq)]
    [] r.k = "ack" -> [st EXCEPT !.ack = Bigger(@, r.through)]
    [] r.k = "generation" -> [st EXCEPT !.gens = Put(@, r.g, [source |-> r.source, state |-> r.state])]

\* applyRecord. Both the file and the memory change this way.
Apply(st, r) ==
  CASE r.k = "event" -> [st EXCEPT !.events = Put(@, r.seq, r.e), !.last = Bigger(@, r.seq)]
    [] r.k = "ack" -> [st EXCEPT !.ack = Bigger(@, r.through)]
    [] r.k = "generation" -> [st EXCEPT !.gens = Put(@, r.g, [source |-> r.source, state |-> r.state])]

\* Tombstones for a set of numbers.
Bury(st, seqs) == [st EXCEPT !.events = Without(@, seqs), !.tombs = @ + Cardinality(seqs)]

\* appendSync on the file: "ok" (written and synced), "failed" (nothing written),
\* "unsynced" (written, but reported as failed), "torn" (half written). The record
\* after half a line ends up on that line, and neither of the two can be read.
Write(file, r, outcome) ==
  CASE outcome = "failed" -> file
    [] outcome = "torn" -> [file EXCEPT !.torn = TRUE]
    [] outcome \in {"ok", "unsynced"} /\ file.torn -> [file EXCEPT !.torn = FALSE]
    [] OTHER -> Apply(file, r)

\* compact: the file is replaced by one with the newest events, the generations
\* and the acknowledgement. Nothing in it says how far the numbers had got.
Kept(st) == {n \in DOMAIN st.events : Cardinality({m \in DOMAIN st.events : m > n}) < MaxEvents}

Highest(S) == CHOOSE n \in S \cup {0} : \A m \in S : m <= n
Lowest(S) == CHOOSE n \in S : \A m \in S : n <= m

Compact(st) ==
  LET mem == [st EXCEPT !.events = Without(@, DOMAIN @ \ Kept(st)), !.tombs = 0]
  IN [mem |-> mem, file |-> [mem EXCEPT !.last = Highest(DOMAIN mem.events)]]

\* maybeCompact, without the limit on the file's bytes.
NeedsCompact(st) ==
  LET n == Cardinality(DOMAIN st.events)
  IN n >= MaxEvents \/ (st.tombs > 0 /\ 10 * st.tombs >= 3 * (n + st.tombs))

MaybeCompact(file, st) ==
  IF NeedsCompact(st) THEN Compact(st) ELSE [file |-> file, mem |-> st]

\* appendEvent that succeeds.
AddEvent(file, st, seq, e) ==
  MaybeCompact(Write(file, EventRecord(seq, e), "ok"), Apply(st, EventRecord(seq, e)))

InFlight(st, s) == {g \in DOMAIN st.gens : st.gens[g] = [source |-> s, state |-> "in_flight"]}

\* load: replay, then prune what has expired: here the events up to id `aged`. The
\* first tombstone after half a line is lost with it.
Load(file, aged) ==
  LET mem == [file EXCEPT !.torn = FALSE]
      old == {n \in DOMAIN mem.events : mem.events[n].id <= aged}
      lost == IF file.torn /\ old # {} THEN {Lowest(old)} ELSE {}
  IN IF old = {} THEN [file |-> file, mem |-> mem]
     ELSE MaybeCompact(Bury(mem, old \ lost), Bury(mem, old))

NextSequence(st) == st.last + 1

OldestAvailable(st) ==
  IF DOMAIN st.events = {} THEN st.last
  ELSE Lowest(DOMAIN st.events)
==============================================================================
