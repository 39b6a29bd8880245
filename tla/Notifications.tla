---------------------------- MODULE Notifications ----------------------------
(***************************************************************************)
(* Notifications from the end of a task to the phone: the detector that    *)
(* turns the edges of a source's streaming flag into events, the log that  *)
(* keeps them (NotificationStore), the hub's one subscription per phone,   *)
(* and the phone's protocol engine with its saved cursor. The hub may stop *)
(* between any two writes to the disk, and any write may fail.             *)
(*                                                                         *)
(* Ids of tasks, generations and events are given out in increasing order, *)
(* and stand for the times of starts and ends where the code compares      *)
(* those. One phone, whose channels to and from the hub are FIFO and are   *)
(* lost with the socket.                                                   *)
(***************************************************************************)
EXTENDS NotificationStore

CONSTANTS Sources,       \* desktop sources
          Outcomes,      \* what a write to the log may do, see Write
          PageLimit,     \* pageLimit of the phone's subscription
          BufferLimit,   \* MAX_LIVE_BUFFER
          MaxTasks,      \* tasks per source
          MaxMishaps     \* writes that fail, stops of the hub, sockets that close

ASSUME NotificationsAssumption ==
  /\ "ok" \in Outcomes /\ Outcomes \subseteq {"ok", "failed", "unsynced", "torn"}
  /\ PageLimit \in Nat \ {0} /\ BufferLimit \in Nat
  /\ MaxTasks \in Nat /\ MaxMishaps \in Nat

VARIABLES
  file,     \* the file, by what it would load
  mem,      \* the store in memory
  det,      \* detector and streaming flags, per source
  sub,      \* the phone's subscription, or NoSub
  desk,     \* the sources: what really runs, and the link to the hub
  conn,     \* the phone's socket is open
  up, down, \* frames under way from and to the phone
  phone,    \* the phone's engine and its saved cursor
  count,    \* generations and events made, mishaps so far
  hist      \* history: see HistoryInit

vars == <<file, mem, det, sub, desk, conn, up, down, phone, count, hist>>

NoSub == [delivered |-> -1]
NoEvents == [n \in {} |-> 0]

---------------------------------------------------------------------------
(* The detector *)

DetInit == [s \in Sources |-> [streaming |-> FALSE, active |-> 0, latest |-> 0]]

\* restoreGenerations: the newest generation in flight of each source.
Restored(st) ==
  [s \in Sources |->
     LET g == Highest(InFlight(st, s))
     IN [streaming |-> FALSE, active |-> g, latest |-> g]]

\* isStaleCompletion: a task of the same source has started since.
Stale(d, e) == d[e.source].latest > e.gen

\* A write may fail, as long as the bound on faults allows it.
Outcome(o) == o \in Outcomes /\ (o # "ok" => count.mishaps < MaxMishaps)
Faulted(c, o) == IF o = "ok" THEN c ELSE [c EXCEPT !.mishaps = @ + 1]

\* onTaskStart, adoptStreamingSource: a source with a generation keeps it. The
\* generation is in force even if its record could not be written.
BeginTask(s, o) ==
  LET g == count.gens + 1
  IN IF det[s].active # 0
     THEN /\ o = "ok"
          /\ det' = [det EXCEPT ![s].streaming = TRUE]
          /\ UNCHANGED <<file, mem, count>>
     ELSE /\ det' = [det EXCEPT ![s] = [streaming |-> TRUE, active |-> g, latest |-> g]]
          /\ file' = Write(file, GenRecord(g, s, "in_flight"), o)
          /\ mem' = Apply(mem, GenRecord(g, s, "in_flight"))
          /\ count' = Faulted([count EXCEPT !.gens = g], o)

\* A frame has its events by their numbers. One of live events does not say where it
\* starts.
LiveFrame(events, skipped) ==
  [k |-> "events", from |-> -1, hasMore |-> FALSE, events |-> events, skipped |-> skipped]

\* pushLive to a subscription that is ready.
PushLive(seq, e) ==
  /\ sub' = [sub EXCEPT !.delivered = Bigger(@, seq)]
  /\ down' = IF conn THEN Append(down, LiveFrame([n \in {seq} |-> e], {})) ELSE down

Buffered(seq, e) == [sub EXCEPT !.buffer = Put(@, seq, e)]
Room == Cardinality(DOMAIN sub.buffer) < BufferLimit

\* Faulty variant of Push: the limit is checked one event too late.
PushOneTooMany(seq, e) ==
  CASE sub = NoSub -> UNCHANGED <<sub, down>>
    [] sub # NoSub /\ sub.ready -> PushLive(seq, e)
    [] OTHER ->
         /\ sub' = IF Room \/ Cardinality(DOMAIN sub.buffer) = BufferLimit
                   THEN Buffered(seq, e) ELSE [sub EXCEPT !.overflowed = TRUE]
         /\ UNCHANGED down

\* Faulty variant of Push: an event that finds the buffer full is dropped.
PushSilently(seq, e) ==
  CASE sub = NoSub -> UNCHANGED <<sub, down>>
    [] sub # NoSub /\ sub.ready -> PushLive(seq, e)
    [] OTHER ->
         /\ sub' = IF Room THEN Buffered(seq, e) ELSE sub
         /\ UNCHANGED down

\* onEvent: a ready subscription is sent the event, another one buffers it.
Push(seq, e) ==
  CASE sub = NoSub -> UNCHANGED <<sub, down>>
    [] sub # NoSub /\ sub.ready -> PushLive(seq, e)
    [] OTHER ->
         /\ sub' = IF Room THEN Buffered(seq, e) ELSE [sub EXCEPT !.overflowed = TRUE]
         /\ UNCHANGED down

\* onTaskEnd and publishNotificationEvent: the generation is completed, then the
\* event is appended; only an event that is on the disk is sent.
CompleteTask(s, og, oe) ==
  LET g    == det[s].active
      e    == [id |-> count.events + 1, gen |-> g, source |-> s]
      seq  == NextSequence(mem)
      gfile == Write(file, GenRecord(g, s, "completed"), og)
      gmem == Apply(mem, GenRecord(g, s, "completed"))
      done == AddEvent(gfile, gmem, seq, e)
  IN /\ det' = [det EXCEPT ![s].streaming = FALSE, ![s].active = 0]
     /\ count' = Faulted(Faulted([count EXCEPT !.events = e.id], og), oe)
     /\ IF oe = "ok"
        THEN /\ file' = done.file /\ mem' = done.mem
             /\ hist' = [hist EXCEPT !.persisted = Put(@, e.id, seq)]
             /\ Push(seq, e)
        ELSE /\ file' = Write(gfile, EventRecord(seq, e), oe)
             /\ mem' = gmem
             /\ UNCHANGED <<sub, down, hist>>

\* onTaskAborted: the generation is cancelled, no event.
AbortTask(s, o) ==
  LET g == det[s].active
  IN /\ det' = [det EXCEPT ![s].streaming = FALSE, ![s].active = 0]
     /\ file' = IF g = 0 THEN file ELSE Write(file, GenRecord(g, s, "cancelled"), o)
     /\ mem' = IF g = 0 THEN mem ELSE Apply(mem, GenRecord(g, s, "cancelled"))
     /\ count' = Faulted(count, o)

---------------------------------------------------------------------------
(* The sources. An edge reaches the hub only over a link that is on: frames *)
(* between the registration's snapshot and its answer are in no event.      *)

Untouched == <<file, mem, det, count>>

\* noteStreamingFromEvent, agent_start.
AgentStart(s) ==
  /\ desk[s].phase = "idle" /\ desk[s].task < MaxTasks
  /\ desk' = [desk EXCEPT ![s] = [desk[s] EXCEPT !.phase = "running", !.task = @ + 1, !.notices = 0,
                                                !.aborted = FALSE, !.doubt = FALSE]]
  /\ IF desk[s].link = "on" /\ ~det[s].streaming
     THEN \E o \in Outcomes : Outcome(o) /\ BeginTask(s, o)
     ELSE UNCHANGED Untouched
  /\ UNCHANGED <<sub, conn, up, down, phone, hist>>

\* Faulty variant of Heard: every end event counts, whatever the flag says.
HeardAnyEnd(s) == desk[s].link = "on"

\* noteStreamingFromEvent, agent_end of a turn that has run to its end, and
\* agent_settled: both end what the hub thinks is running.
Heard(s) == desk[s].link = "on" /\ det[s].streaming

EdgeDown(s) ==
  IF Heard(s)
  THEN \E og, oe \in Outcomes :
         /\ Outcome(og) /\ Outcome(oe)
         /\ og = "ok" \/ oe = "ok" \/ count.mishaps + 1 < MaxMishaps
         /\ CompleteTask(s, og, oe)
  ELSE UNCHANGED <<Untouched, hist, sub, down>>

Ending(s, phase) ==
  desk' = [desk EXCEPT ![s].phase = phase, ![s].notices = IF Heard(s) THEN @ + 1 ELSE @]

AgentEnd(s) ==
  /\ desk[s].phase = "running"
  /\ Ending(s, "ended") /\ EdgeDown(s)
  /\ UNCHANGED <<conn, up, phone>>

AgentSettled(s) ==
  /\ desk[s].phase = "ended"
  /\ Ending(s, "idle") /\ EdgeDown(s)
  /\ UNCHANGED <<conn, up, phone>>

AgentAborted(s) ==
  /\ desk[s].phase = "running"
  /\ desk' = [desk EXCEPT ![s] = [desk[s] EXCEPT !.phase = "ended", !.aborted = TRUE,
                                                 !.doubt = @ \/ desk[s].link # "on"]]
  /\ IF Heard(s)
     THEN \E o \in Outcomes : Outcome(o) /\ AbortTask(s, o)
     ELSE UNCHANGED Untouched
  /\ UNCHANGED <<sub, conn, up, down, phone, hist>>

\* A desktop_snapshot, or the snapshot of a registration, of a source at work.
Adopt(s, working) ==
  IF working THEN \E o \in Outcomes : Outcome(o) /\ BeginTask(s, o)
             ELSE UNCHANGED Untouched

\* isStreaming of a snapshot is pi's own word: between agent_end and agent_settled
\* it may still be at work, compacting for instance.
Busy(s) == CASE desk[s].phase = "running" -> {TRUE}
             [] desk[s].phase = "idle" -> {FALSE}
             [] OTHER -> BOOLEAN

Doubt(s, busy) == desk[s].doubt \/ (busy /\ desk[s].phase = "ended")

DesktopSnapshot(s) ==
  /\ desk[s].link = "on" /\ desk[s].phase # "idle" /\ ~det[s].streaming
  /\ Adopt(s, TRUE)
  /\ desk' = [desk EXCEPT ![s].doubt = Doubt(s, TRUE)]
  /\ UNCHANGED <<sub, conn, up, down, phone, hist>>

\* The relay sends its snapshot; the hub registers it after an await.
RegisterStart(s) ==
  /\ desk[s].link = "off"
  /\ \E busy \in Busy(s) :
       desk' = [desk EXCEPT ![s].link = IF busy THEN "asked_busy" ELSE "asked_idle",
                            ![s].doubt = Doubt(s, busy)]
  /\ UNCHANGED <<file, mem, det, sub, conn, up, down, phone, count, hist>>

RegisterDone(s) ==
  /\ desk[s].link \in {"asked_idle", "asked_busy"}
  /\ desk' = [desk EXCEPT ![s].link = "on"]
  /\ Adopt(s, desk[s].link = "asked_busy")
  /\ UNCHANGED <<sub, conn, up, down, phone, hist>>

DesktopClosed(s) ==
  /\ desk[s].link # "off" /\ count.mishaps < MaxMishaps
  /\ desk' = [desk EXCEPT ![s].link = "off"]
  /\ det' = [det EXCEPT ![s].streaming = FALSE]
  /\ count' = [count EXCEPT !.mishaps = @ + 1]
  /\ UNCHANGED <<file, mem, sub, conn, up, down, phone, hist>>

---------------------------------------------------------------------------
(* The hub stops and starts again on the log it finds; `aged` is the newest *)
(* event that has expired by then.                                          *)

Boot(found, aged) ==
  LET loaded == Load(found, aged)
  IN /\ file' = loaded.file /\ mem' = loaded.mem
     /\ det' = Restored(loaded.mem)
     /\ sub' = NoSub /\ conn' = FALSE /\ up' = <<>> /\ down' = <<>>
     /\ hist' = [hist EXCEPT !.aged = aged,
                             !.regressed = @ \/ loaded.mem.last < mem.last]

Unlinked == [s \in Sources |-> [desk[s] EXCEPT !.link = "off"]]

HubRestart ==
  /\ count.mishaps < MaxMishaps
  /\ count' = [count EXCEPT !.mishaps = @ + 1]
  /\ desk' = Unlinked
  /\ \E aged \in hist.aged..count.events : Boot(file, aged)
  /\ UNCHANGED phone

\* The hub stops between completing a generation and appending its event.
HubStopsInBetween(s) ==
  /\ count.mishaps < MaxMishaps
  /\ desk[s].phase = "running" /\ desk[s].link = "on"
  /\ det[s].streaming /\ det[s].active # 0
  /\ count' = [count EXCEPT !.mishaps = @ + 1]
  /\ desk' = [Unlinked EXCEPT ![s].phase = "ended"]
  /\ Boot(Write(file, GenRecord(det[s].active, s, "completed"), "ok"), hist.aged)
  /\ UNCHANGED phone

---------------------------------------------------------------------------
(* The hub's side of the protocol *)

\* nextPage: walks from what has been delivered towards the fixed tip; numbers
\* that are gone, stale or from before the subscription's window are skipped.
Passed(st, n) ==
  \/ n \notin DOMAIN mem.events
  \/ Stale(det, mem.events[n])
  \/ mem.events[n].id <= st.window

PageEnd(st) ==
  LET full == {n \in (st.delivered + 1)..st.tip :
                 Cardinality({m \in (st.delivered + 1)..n : ~Passed(st, m)}) = PageLimit}
  IN CASE full # {} -> CHOOSE n \in full : \A m \in full : n <= m
       [] OTHER -> Bigger(st.delivered, st.tip)

\* Faulty variant of Page: what was skipped is not reported.
PageWithHoles(st) ==
  [k |-> "events", from |-> st.delivered, hasMore |-> PageEnd(st) < st.tip, skipped |-> {},
   events |-> [n \in {m \in (st.delivered + 1)..PageEnd(st) : ~Passed(st, m)} |-> mem.events[n]]]

Page(st) ==
  LET walked == (st.delivered + 1)..PageEnd(st)
      gone   == {n \in walked : Passed(st, n)}
  IN [k |-> "events", from |-> st.delivered, hasMore |-> PageEnd(st) < st.tip,
      skipped |-> gone, events |-> [n \in walked \ gone |-> mem.events[n]]]

\* drainLiveBuffer, after the last page.
Drained(st) ==
  LET fresh == {n \in DOMAIN st.buffer : n > st.delivered}
      stale == {n \in fresh : Stale(det, st.buffer[n])}
  IN LiveFrame([n \in fresh \ stale |-> st.buffer[n]], stale)

PassedStale(seqs) ==
  {mem.events[n].id : n \in {m \in seqs \cap DOMAIN mem.events : Stale(det, mem.events[m])}}

\* ... for the window alone, although they ended after the moment the phone meant.
Slipped(st, seqs) ==
  {mem.events[n].id : n \in {m \in seqs \cap DOMAIN mem.events :
     phone.window < mem.events[m].id /\ mem.events[m].id <= st.window}}

\* markReady: its conditions hold after the last page.
Ready == [k |-> "ready"]

\* The answer to a subscription or to a request for the next page: a page, and
\* after the last one the live buffer and "ready".
ServePage(st) ==
  IF st.overflowed
  THEN sub' = st /\ down' = Append(down, [k |-> "resync"]) /\ UNCHANGED hist
  ELSE LET page  == Page(st)
           paged == [st EXCEPT !.delivered = PageEnd(st)]
           live  == Drained(paged)
           seqs  == DOMAIN live.events \cup live.skipped
           all   == [paged EXCEPT !.buffer = NoEvents, !.ready = TRUE,
                                  !.delivered = Bigger(@, Highest(seqs))]
       IN /\ hist' = [hist EXCEPT !.stale = @ \cup PassedStale(page.skipped)
                                    \cup (IF page.hasMore THEN {} ELSE PassedStale(live.skipped)),
                                  !.slipped = @ \cup Slipped(st, page.skipped)]
          /\ IF page.hasMore
             THEN sub' = paged /\ down' = Append(down, page)
             ELSE /\ sub' = all
                  /\ down' = down \o (IF seqs = {} THEN <<page, Ready>> ELSE <<page, live, Ready>>)

\* completionNotBefore: the hub's clock at receipt, less the time that had passed in
\* the background when the phone sent. What the request took on its way is counted
\* as time before, so the window begins at the moment the phone means or later.
Anchored(window) == window..count.events

\* subscribe: a cursor before the oldest event that is kept has to start again.
HubSubscribe ==
  LET msg    == Head(up)
      oldest == OldestAvailable(mem)
  IN /\ up # <<>> /\ msg.k = "subscribe" /\ up' = Tail(up)
     /\ IF msg.cursor # -1 /\ mem.last > 0 /\ msg.cursor + 1 < oldest
        THEN down' = Append(down, [k |-> "expired", oldest |-> oldest]) /\ UNCHANGED <<sub, hist>>
        ELSE \E w \in Anchored(msg.window) :
               ServePage([delivered |-> IF msg.cursor = -1 THEN Bigger(0, oldest - 1) ELSE msg.cursor,
                          tip |-> mem.last, buffer |-> NoEvents, overflowed |-> FALSE,
                          ready |-> FALSE, window |-> w])
     /\ UNCHANGED <<file, mem, det, desk, conn, phone, count>>

HubNextPage ==
  /\ up # <<>> /\ Head(up).k = "next_page" /\ up' = Tail(up)
  /\ IF sub = NoSub THEN UNCHANGED <<sub, down, hist>> ELSE ServePage(sub)
  /\ UNCHANGED <<file, mem, det, desk, conn, phone, count>>

\* ack and recordAck: never back, never beyond the tip, and only if written.
HubAck ==
  /\ up # <<>> /\ Head(up).k = "ack" /\ up' = Tail(up)
  /\ IF Head(up).through > mem.last \/ Head(up).through <= mem.ack
     THEN UNCHANGED <<file, mem, count>>
     ELSE \E o \in Outcomes :
            /\ Outcome(o) /\ count' = Faulted(count, o)
            /\ file' = Write(file, AckRecord(Head(up).through), o)
            /\ mem' = IF o = "ok" THEN [mem EXCEPT !.ack = Head(up).through] ELSE mem
  /\ UNCHANGED <<det, sub, desk, conn, down, phone, hist>>

---------------------------------------------------------------------------
(* The phone *)

\* Faulty variant of Contiguous: the cursor is the newest number seen.
NewestSeen(n, got) == CHOOSE m \in {n} \cup got : m >= n /\ \A x \in got : m >= x

\* ContiguousPrefix.drain: the end of what follows `n` without a gap.
Contiguous(n, got) ==
  CHOOSE m \in {n} \cup got : /\ m >= n
                              /\ (n + 1)..m \subseteq got
                              /\ m + 1 \notin got

Reach(n, got) == LET m == Contiguous(n, got) IN [through |-> m, got |-> {x \in got : x > m}]

\* subscribeNotifications: from the saved cursor, with how long the app has been in
\* the background; `window` stands for the moment that began.
Subscribe(cursor) ==
  /\ up' = Append(up, [k |-> "subscribe", cursor |-> cursor, window |-> phone.window])
  /\ phone' = [phone EXCEPT !.cursor = cursor, !.got = {},
                            !.through = IF cursor = -1 THEN 0 ELSE cursor]

PhoneConnect ==
  /\ ~conn /\ conn' = TRUE
  /\ Subscribe(phone.cursor)
  /\ UNCHANGED <<file, mem, det, sub, desk, down, count, hist>>

\* The socket goes, or the app is killed: the frames under way are lost, the
\* cursor is not, and neither is the hub's subscription.
Drop ==
  /\ conn /\ count.mishaps < MaxMishaps
  /\ conn' = FALSE /\ up' = <<>> /\ down' = <<>>
  /\ count' = [count EXCEPT !.mishaps = @ + 1]
  /\ UNCHANGED <<file, mem, det, sub, desk, phone, hist>>

\* The user has the app in front, sees every task that has ended by now, and puts it
\* away; the next subscriptions say how long ago that was.
Glance ==
  /\ ~conn /\ phone.window < count.events
  /\ phone' = [phone EXCEPT !.window = count.events]
  /\ UNCHANGED <<file, mem, det, sub, desk, conn, up, down, count, hist>>

\* ackCursor: saves the end of the prefix and acknowledges it.
Saved(p) == [p EXCEPT !.cursor = Bigger(@, p.through)]

PhoneEvents ==
  LET f     == Head(down)
      base  == Bigger(phone.through, f.from)
      reach == Reach(base, {x \in phone.got \cup DOMAIN f.events \cup f.skipped : x > base})
      next  == [phone EXCEPT !.through = reach.through, !.got = reach.got,
                             !.shown = @ \cup {f.events[n].id : n \in DOMAIN f.events}]
  IN /\ down # <<>> /\ f.k = "events" /\ down' = Tail(down)
     /\ IF f.hasMore
        THEN phone' = next /\ up' = Append(up, [k |-> "next_page"])
        ELSE IF next.through <= 0 THEN phone' = next /\ UNCHANGED up
        ELSE phone' = Saved(next) /\ up' = Append(up, [k |-> "ack", through |-> next.through])
     /\ UNCHANGED <<file, mem, det, sub, desk, conn, count, hist>>

PhoneReady ==
  /\ down # <<>> /\ Head(down).k = "ready" /\ down' = Tail(down)
  /\ IF phone.through <= 0 THEN UNCHANGED <<phone, up>>
     ELSE phone' = Saved(phone) /\ up' = Append(up, [k |-> "ack", through |-> phone.through])
  /\ UNCHANGED <<file, mem, det, sub, desk, conn, count, hist>>

\* cursor_expired moves the cursor to the oldest event, wherever it was.
PhoneRestarts ==
  /\ down # <<>> /\ Head(down).k \in {"expired", "resync"} /\ down' = Tail(down)
  /\ Subscribe(IF Head(down).k = "expired" THEN Bigger(0, Head(down).oldest - 1) ELSE phone.cursor)
  /\ UNCHANGED <<file, mem, det, sub, desk, conn, count, hist>>

---------------------------------------------------------------------------

\* History. persisted: the number of every event claimed to be on the disk, by id;
\* stale: those the hub passed over for a newer task; slipped: those it passed over
\* although they ended after the moment the phone's window begins; aged: the newest event that
\* had expired at the last start; regressed: a start has fallen behind the number
\* the hub had reached before. In desk: notices, the ends of this task the hub
\* has heard; aborted: it was interrupted; doubt: a snapshot called it running after
\* its end, or its interruption was in no event.
HistoryInit == [persisted |-> [i \in {} |-> 0], stale |-> {}, slipped |-> {}, aged |-> 0, regressed |-> FALSE]

Init ==
  /\ file = EmptyStore /\ mem = EmptyStore
  /\ det = DetInit /\ sub = NoSub
  /\ desk = [s \in Sources |-> [phase |-> "idle", task |-> 0, link |-> "off", notices |-> 0,
                            aborted |-> FALSE, doubt |-> FALSE]]
  /\ conn = FALSE /\ up = <<>> /\ down = <<>>
  /\ phone = [cursor |-> -1, through |-> 0, got |-> {}, shown |-> {}, window |-> 0]
  /\ count = [gens |-> 0, events |-> 0, mishaps |-> 0]
  /\ hist = HistoryInit

Hub == HubSubscribe \/ HubNextPage \/ HubAck
Phone == PhoneEvents \/ PhoneReady \/ PhoneRestarts

Next ==
  \/ \E s \in Sources :
       \/ AgentStart(s) \/ AgentEnd(s) \/ AgentAborted(s) \/ AgentSettled(s)
       \/ DesktopSnapshot(s) \/ RegisterStart(s) \/ RegisterDone(s) \/ DesktopClosed(s)
       \/ HubStopsInBetween(s)
  \/ HubRestart
  \/ HubSubscribe \/ HubNextPage \/ HubAck
  \/ PhoneConnect \/ Drop \/ Glance
  \/ PhoneEvents \/ PhoneReady \/ PhoneRestarts

Spec == Init /\ [][Next]_vars

\* Node and the phone handle what has arrived, and the phone reconnects for ever.
FairSpec == Spec /\ WF_vars(Hub) /\ WF_vars(Phone) /\ WF_vars(PhoneConnect)

---------------------------------------------------------------------------
(* Properties *)

TypeOK ==
  /\ mem.last \in Nat /\ mem.ack \in Nat /\ mem.tombs \in Nat
  /\ DOMAIN mem.events \subseteq 1..mem.last
  /\ \A n \in DOMAIN mem.events : mem.events[n].source \in Sources
  /\ \A s \in Sources : /\ det[s].streaming \in BOOLEAN
                        /\ det[s].active \in DOMAIN mem.gens \cup {0}
                        /\ det[s].latest \in 0..count.gens
                        /\ desk[s].phase \in {"idle", "running", "ended"}
                        /\ desk[s].link \in {"off", "asked_idle", "asked_busy", "on"}
  /\ sub = NoSub \/ (sub.delivered \in Nat /\ Cardinality(DOMAIN sub.buffer) <= BufferLimit)
  /\ phone.cursor \in Nat \cup {-1} /\ phone.through \in Nat
  /\ conn \in BOOLEAN /\ (~conn => up = <<>> /\ down = <<>>)

\* What the hub holds for persisted, it finds again: the events in memory are
\* those a start would read from the file, through failed writes, records written
\* but not synced, pruning and compaction (notification_event_store.ts).
PersistedIsOnDisk ==
  LET found == file.events
  IN \A n \in DOMAIN mem.events : n \in DOMAIN found /\ found[n] = mem.events[n]

\* A number is given out once, however often the hub starts
\* (notification_event_store.test.ts: "sequence never regresses across restarts").
SequenceNeverRegresses == ~hist.regressed

\* A saved cursor claims nothing the user has not had: an event at or below it was
\* delivered, or was seen in the app, or had left the log, or was passed over for
\* a newer task of its source. Pages, the live buffer, the pushed frames and the
\* phone's prefix only work together if this holds. Excepted are the events lost to
\* the re-anchoring of the window: see CursorClaimsOnlySeen.
CursorClaimsNothingUnseen ==
  ~hist.regressed =>
    \A id \in DOMAIN hist.persisted :
      hist.persisted[id] <= phone.cursor =>
        \/ id \in phone.shown \/ id <= phone.window \/ id \in hist.stale \cup hist.slipped
        \/ ~\E n \in DOMAIN mem.events : mem.events[n].id = id

\* The same without the exception: "beforeBackgroundWindow" is for completions the
\* user has seen in front (notification_protocol.ts:457-459). It also takes those that
\* ended just after the app was put away, which nobody has seen.
CursorClaimsOnlySeen ==
  ~hist.regressed =>
    \A id \in DOMAIN hist.persisted :
      hist.persisted[id] <= phone.cursor =>
        \/ id \in phone.shown \/ id <= phone.window \/ id \in hist.stale
        \/ ~\E n \in DOMAIN mem.events : mem.events[n].id = id

\* A subscription that is ready is complete: once the frames under way have
\* arrived, the phone has no hole and has reached the tip. The switch from pages
\* to live pushing loses nothing (drainLiveBuffer, markReady).
ReadyIsComplete ==
  (/\ conn /\ sub # NoSub /\ sub.ready /\ up = <<>> /\ down = <<>> /\ ~hist.regressed)
    => phone.got = {} /\ phone.through >= mem.last

\* One task, one notification, and none for a task that was interrupted, through
\* both of pi's end events, reconnections and restarts. Excepted are tasks that a
\* snapshot called running after their end, and interruptions the hub never heard.
OneNoticePerTask ==
  \A s \in Sources :
    desk[s].doubt \/ desk[s].notices <= (IF desk[s].aborted THEN 0 ELSE 1)

\* Liveness: the phone catches up with the hub's stream and stays so, unless the
\* numbers have been reset under it.
CatchesUp == <>[](hist.regressed \/ phone.cursor >= mem.last \/ mem.last = 0)

==============================================================================
