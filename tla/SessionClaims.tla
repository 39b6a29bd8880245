--------------------------- MODULE SessionClaims ---------------------------
(***************************************************************************)
(* Who may have a session file open: the processes of the hub's pool       *)
(* (bridge/src/pi_pool.ts) and the TUIs of the desktop, whose registration *)
(* makes a process of the pool give way (reconcileDesktopClaim and the     *)
(* desktop socket in bridge/src/server.ts).  The table of claims is what   *)
(* keeps two pi processes from writing one file.                           *)
(*                                                                         *)
(* An entry of the pool is named after the session it was opened for, with *)
(* a number when that name is taken: <<session, 0>>, <<session, 1>>, ...   *)
(* Only an entry without a number is a source the phones can talk to.      *)
(* `session' is the session the pool thinks the process has open, `file'   *)
(* the one it does, `args' the one on its command line; `unread' says that *)
(* the hub has asked the process for its state after a command.            *)
(*                                                                         *)
(* Left out: who watches a session and which requests are pending (any     *)
(* process that is not streaming may be evicted or closed for idleness),   *)
(* which candidate is the oldest, registrations that carry no session id,  *)
(* and the shutdown of the hub.                                            *)
(***************************************************************************)
EXTENDS Integers, FiniteSets, Functions

CONSTANTS
    Sessions,
    Desktops,      \* source ids of TUIs
    Connections,   \* desktop sockets the hub ever accepts
    Nobody,
    MaxLive,       \* processes that may be open (maxLiveSessions)
    MaxCrashes,    \* restarts before the pool gives up (5 in the code)
    MaxSuffix,     \* bound: numbered entries ever made
    MaxSwitches    \* bound: sessions switched inside a process

PoolIds == Sessions \X Nat

ASSUME ClaimsAssumption ==
    /\ Nobody \notin Desktops /\ Nobody \notin PoolIds /\ Nobody \notin Connections
    /\ \A d \in Desktops : d \notin PoolIds
    /\ MaxLive \in Nat \ {0}
    /\ {MaxCrashes, MaxSuffix, MaxSwitches} \subseteq Nat

VARIABLES
    entries,     \* [entries of the pool -> process]
    claims,      \* [Sessions -> holder, or Nobody]
    suffixes,    \* sourceIdSeq
    conn,        \* [Connections -> the hub's DesktopClient]
    bySource,    \* [Desktops -> current connection, or Nobody]
    waiting,     \* [closing entry -> the handoff that waits for its exit]
    switches,    \* how much of the bound is used
    displaced,   \* history: entries whose last rebind found the session taken
    rushed       \* history: a TUI was let in while an entry still had its session

pool == <<entries, suffixes, displaced>>
desktop == <<conn, bySource>>
vars == <<pool, desktop, claims, waiting, switches, rushed>>

Processes == [session : Sessions, args : Sessions, file : Sessions, crashes : Nat,
              alive : BOOLEAN, closing : BOOLEAN, streaming : BOOLEAN, online : BOOLEAN,
              unread : BOOLEAN]

\* A DesktopClient before its registration, and while that is being reconciled.
NewConn(state) == [state |-> state, desk |-> Nobody, session |-> Nobody]

Init ==
    /\ entries = [e \in {} |-> 0]
    /\ claims = [s \in Sessions |-> Nobody]
    /\ suffixes = 0
    /\ conn = [c \in Connections |-> NewConn("new")]
    /\ bySource = [d \in Desktops |-> Nobody]
    /\ waiting = [e \in {} |-> 0]
    /\ switches = 0
    /\ displaced = {}
    /\ rushed = FALSE

-----------------------------------------------------------------------------
(* The pool.                                                               *)

With(f, x, y) == [z \in DOMAIN f \cup {x} |-> IF z = x THEN y ELSE f[z]]
Without(f, x) == [z \in DOMAIN f \ {x} |-> f[z]]

\* Faulty variant of Live: a process that crashed is not counted.
LiveRunning == {e \in DOMAIN entries : ~entries[e].closing /\ entries[e].alive}

\* liveCount: a closing entry does not count.
Live == {e \in DOMAIN entries : ~entries[e].closing}

\* evictionCandidates, whoever watches them.
Candidates == {e \in DOMAIN entries : ~entries[e].closing /\ ~entries[e].streaming}

\* claims.delete(session), if e has the claim.
Unclaim(cl, s, e) == IF cl[s] = e THEN [cl EXCEPT ![s] = Nobody] ELSE cl

\* Faulty variant of Freed: the claim goes when the process is told to stop.
FreedEarly(e) == Unclaim(claims, entries[e].session, e)

\* close, as far as it comes without waiting: a process that runs must exit
\* first and keeps its claim; one that does not is forgotten.
Freed(e) ==
    IF entries[e].alive THEN claims ELSE Unclaim(claims, entries[e].session, e)

Stopped(e) ==
    IF entries[e].alive THEN [entries EXCEPT ![e].closing = TRUE] ELSE Without(entries, e)

Spawned(s, id) ==
    [session |-> s, args |-> s, file |-> s, crashes |-> 0, alive |-> TRUE,
     closing |-> FALSE, streaming |-> FALSE, online |-> id[2] = 0, unread |-> FALSE]

\* open, when nobody has the session: one candidate gives way if the pool is full.
OpenNew(s) ==
    /\ claims[s] = Nobody
    /\ LET id == IF <<s, 0>> \notin DOMAIN entries THEN <<s, 0>> ELSE <<s, suffixes + 1>>
       IN /\ id[2] <= MaxSuffix
          /\ suffixes' = IF id[2] = 0 THEN suffixes ELSE id[2]
          /\ \/ /\ Cardinality(Live) < MaxLive
                /\ entries' = With(entries, id, Spawned(s, id))
                /\ claims' = [claims EXCEPT ![s] = id]
                /\ UNCHANGED displaced
             \/ /\ Cardinality(Live) >= MaxLive
                /\ \E e \in Candidates :
                       /\ entries' = With(Stopped(e), id, Spawned(s, id))
                       /\ claims' = [Freed(e) EXCEPT ![s] = id]
                       /\ displaced' = IF entries[e].alive THEN displaced ELSE displaced \ {e}
    /\ UNCHANGED <<desktop, waiting, switches, rushed>>

\* The idle sweeper, and hub_close_session for a source the phones can see.
Close(e) ==
    /\ e \in Candidates
    /\ entries' = Stopped(e)
    /\ claims' = Freed(e)
    /\ displaced' = IF entries[e].alive THEN displaced ELSE displaced \ {e}
    /\ UNCHANGED <<suffixes, desktop, waiting, switches, rushed>>

\* A process that was not told to stop exits: it is started again later, or
\* given up and forgotten.
Crash(e) ==
    /\ entries[e].alive /\ ~entries[e].closing
    /\ IF entries[e].crashes >= MaxCrashes
       THEN /\ entries' = Without(entries, e)
            /\ claims' = Unclaim(claims, entries[e].session, e)
            /\ displaced' = displaced \ {e}
       ELSE /\ entries' = [entries EXCEPT ![e].alive = FALSE, ![e].streaming = FALSE, ![e].unread = FALSE,
                                          ![e].online = FALSE, ![e].crashes = @ + 1]
            /\ UNCHANGED <<claims, displaced>>
    /\ UNCHANGED <<suffixes, desktop, waiting, switches, rushed>>

\* The restart timer, or open of a session whose process is down: the command
\* line is the one the entry was made with.
Restart(e) ==
    /\ ~entries[e].alive /\ ~entries[e].closing
    /\ entries' = [entries EXCEPT ![e].alive = TRUE, ![e].file = entries[e].args,
                                  ![e].online = e[2] = 0]
    /\ UNCHANGED <<claims, suffixes, displaced, desktop, waiting, switches, rushed>>

\* agent_start and agent_end.
Stream(e) ==
    /\ entries[e].alive /\ ~entries[e].closing
    /\ entries' = [entries EXCEPT ![e].streaming = ~@]
    /\ UNCHANGED <<claims, suffixes, displaced, desktop, waiting, switches, rushed>>

\* switch_session, fork or new_session: pi opens another file, and the claims
\* are not asked.  The hub reads the state back at once.
Switch(e) ==
    /\ entries[e].alive /\ entries[e].online /\ ~entries[e].streaming
    /\ switches < MaxSwitches /\ switches' = switches + 1
    /\ \E s \in Sessions \ {entries[e].file} :
           entries' = [entries EXCEPT ![e].file = s, ![e].unread = TRUE]
    /\ UNCHANGED <<claims, suffixes, displaced, desktop, waiting, rushed>>

\* The answer to that: the question had no id, so it is no answer to a pending
\* request and only forwarded as an event.
ReadBack(e) ==
    /\ entries[e].alive /\ entries[e].unread
    /\ entries' = [entries EXCEPT ![e].unread = FALSE]
    /\ UNCHANGED <<claims, suffixes, displaced, desktop, waiting, switches, rushed>>

\* Faulty variant of Rebound: the claim on the former session stays.
ReboundKeeping(e) ==
    LET s == entries[e].file
    IN IF claims[s] \in {Nobody, e} THEN [claims EXCEPT ![s] = e] ELSE claims

\* rebind: the claim follows the process, unless the session is taken.
Rebound(e) ==
    LET cl == Unclaim(claims, entries[e].session, e)
        s  == entries[e].file
    IN IF cl[s] \in {Nobody, e} THEN [cl EXCEPT ![s] = e] ELSE cl

\* The answer to a phone's get_state names the session the process has open.
GetState(e) ==
    /\ entries[e].alive /\ entries[e].online
    /\ IF entries[e].file = entries[e].session
       THEN /\ entries' = [entries EXCEPT ![e].crashes = 0]
            /\ UNCHANGED <<claims, displaced>>
       ELSE LET moves == Rebound(e)[entries[e].file] = e
            IN /\ claims' = Rebound(e)
               /\ entries' = [entries EXCEPT ![e].crashes = 0,
                                  ![e].session = IF moves THEN entries[e].file ELSE @]
               /\ displaced' = IF moves THEN displaced \ {e} ELSE displaced \cup {e}
    /\ UNCHANGED <<suffixes, desktop, waiting, switches, rushed>>

-----------------------------------------------------------------------------
(* The desktop.                                                            *)

\* releaseExternal asks only whether the holder is in the pool.
ReleaseExternal(cl, s) ==
    IF cl[s] \notin DOMAIN entries THEN [cl EXCEPT ![s] = Nobody] ELSE cl

Rivals(s) == {e \in DOMAIN entries : entries[e].session = s}

\* reconcileDesktopClaim from claims cl on, where it does not wait: no process
\* has the session, or the one that has it is closing already (close returns
\* at once), or is not running.
ClaimNow(d, s, cl) ==
    /\ \/ Rivals(s) = {} /\ UNCHANGED <<entries, displaced>>
       \/ \E e \in Rivals(s) :
              /\ entries[e].closing
              /\ entries' = [entries EXCEPT ![e].online = FALSE]
              /\ UNCHANGED displaced
       \/ \E e \in Rivals(s) :
              /\ ~entries[e].closing /\ ~entries[e].alive
              /\ entries' = Without(entries, e)
              /\ displaced' = displaced \ {e}
    /\ claims' = [cl EXCEPT ![s] = d]
    /\ rushed' = (rushed \/ \E e \in DOMAIN entries' : entries'[e].session = s)
    /\ UNCHANGED <<suffixes, waiting, switches>>

\* Where it waits: the process of the pool is cut off and told to stop.
ClaimLater(c, d, s, cl) ==
    /\ \E e \in Rivals(s) :
           /\ ~entries[e].closing /\ entries[e].alive
           /\ entries' = [entries EXCEPT ![e].closing = TRUE, ![e].online = FALSE]
           /\ waiting' = With(waiting, e, [conn |-> c, desk |-> d, session |-> s])
    /\ claims' = cl
    /\ UNCHANGED <<suffixes, displaced, switches, rushed>>

\* The rest of desktop_register: the source is published, if the socket is open.
Publish(c, d, s) ==
    /\ conn' = [conn EXCEPT ![c] = [state |-> "registered", desk |-> d, session |-> s]]
    /\ bySource' = [bySource EXCEPT ![d] = c]

Register(c, d, s) ==
    /\ conn[c].state = "new"
    /\ \/ ClaimNow(d, s, claims) /\ Publish(c, d, s)
       \/ /\ ClaimLater(c, d, s, claims)
          /\ conn' = [conn EXCEPT ![c] = NewConn("registering")]
          /\ UNCHANGED bySource

\* desktop_snapshot, after the user has opened another session in the TUI: its
\* claim is moved, and nobody waits for the outcome.
SnapshotMoved(c, s) ==
    /\ conn[c].state = "registered" /\ conn[c].session # s
    /\ conn' = [conn EXCEPT ![c].session = s]
    /\ UNCHANGED bySource
    /\ LET cl == ReleaseExternal(claims, conn[c].session)
       IN ClaimNow(conn[c].desk, s, cl) \/ ClaimLater(c, conn[c].desk, s, cl)

\* The socket of the TUI closes.
Hangup(c) ==
    /\ conn[c].state \in {"registering", "registered"}
    /\ conn' = [conn EXCEPT ![c] = NewConn("gone")]
    /\ IF conn[c].state = "registered" /\ bySource[conn[c].desk] = c
       THEN /\ bySource' = [bySource EXCEPT ![conn[c].desk] = Nobody]
            /\ claims' = ReleaseExternal(claims, conn[c].session)
       ELSE UNCHANGED <<bySource, claims>>
    /\ UNCHANGED <<pool, waiting, switches, rushed>>

\* Faulty variant of Released: the handoff is not taken off the books.
ReleasedNot(e) == waiting

Released(e) == Without(waiting, e)

\* A process that was told to stop exits.  It is forgotten, and the handoff
\* that waited for it goes on: the TUI has the claim, wherever it is by now.
Exit(e) ==
    /\ entries[e].closing
    /\ entries' = Without(entries, e)
    /\ displaced' = displaced \ {e}
    /\ waiting' = Released(e)
    /\ LET cl == Unclaim(claims, entries[e].session, e)
       IN IF e \in DOMAIN waiting
          THEN LET w == waiting[e]
               IN /\ claims' = [cl EXCEPT ![w.session] = w.desk]
                  /\ rushed' = (rushed \/ \E f \in DOMAIN entries' :
                                              entries'[f].session = w.session)
                  /\ IF conn[w.conn].state = "registering"
                     THEN Publish(w.conn, w.desk, w.session) ELSE UNCHANGED desktop
          ELSE claims' = cl /\ UNCHANGED <<rushed, desktop>>
    /\ UNCHANGED <<suffixes, switches>>

PoolStep(e) ==
    \/ Close(e) \/ Crash(e) \/ Restart(e) \/ Stream(e)
    \/ Switch(e) \/ ReadBack(e) \/ GetState(e) \/ Exit(e)

DesktopStep(c) ==
    \/ \E d \in Desktops, s \in Sessions : Register(c, d, s)
    \/ \E s \in Sessions : SnapshotMoved(c, s)
    \/ Hangup(c)

Next ==
    \/ \E s \in Sessions : OpenNew(s)
    \/ \E e \in DOMAIN entries : PoolStep(e)
    \/ \E c \in Connections : DesktopStep(c)

Spec == Init /\ [][Next]_vars

-----------------------------------------------------------------------------
(* Properties.                                                             *)

\* Every table keeps its shape, and whoever waits waits for a closing process
\* (PoolEntry, DesktopClient, reconcileDesktopClaim).
TypeOK ==
    /\ DOMAIN entries \subseteq PoolIds
    /\ entries \in [DOMAIN entries -> Processes]
    /\ claims \in [Sessions -> PoolIds \cup Desktops \cup {Nobody}]
    /\ suffixes \in Nat /\ switches \in Nat
    /\ conn \in [Connections -> [state : {"new", "registering", "registered", "gone"},
                                 desk : Desktops \cup {Nobody},
                                 session : Sessions \cup {Nobody}]]
    /\ \A c \in Connections :
           conn[c].state = "registered" => conn[c].desk \in Desktops /\ conn[c].session \in Sessions
    /\ bySource \in [Desktops -> Connections \cup {Nobody}]
    /\ DOMAIN waiting \subseteq {e \in DOMAIN entries : entries[e].closing}
    /\ waiting \in [DOMAIN waiting ->
                        [conn : Connections, desk : Desktops, session : Sessions]]
    /\ displaced \subseteq DOMAIN entries
    /\ rushed \in BOOLEAN

\* A claim held by the pool is held by an entry that exists and has that very
\* session, through evictions, crashes, switched sessions and handoffs: no
\* session is refused for good as "already open elsewhere" in the name of a
\* process that is gone or has moved on (open, forget, rebind, claimExternal).
PoolClaimsReal ==
    \A s \in Sessions :
        claims[s] \in PoolIds =>
            /\ claims[s] \in DOMAIN entries
            /\ entries[claims[s]].session = s

\* Every process of the pool, dying ones included, holds the claim on its
\* session, as long as no TUI was let in before the process in its way was
\* gone, and apart from processes that switched to a session that was taken.
\* So two entries never have one session: a claim is released only when the
\* process is dead (close: "do not release the claim before it really is").
ProcessesOwnSessions ==
    ~rushed => \A e \in DOMAIN entries \ displaced : claims[entries[e].session] = e

\* The pool never has more processes than it may, however opens, crashes,
\* restarts and evictions follow each other (open: evict, then count again).
PoolBounded == Cardinality({e \in DOMAIN entries : ~entries[e].closing}) <= MaxLive

\* When the process has answered the question the hub asks after a switch, the
\* pool knows the session it has open now, or has found it taken (server.ts:
\* "read the state back at once, so that the get_state branch of onLine binds
\* the claim anew").
ReadBackRebinds ==
    [][\A e \in DOMAIN entries \cap DOMAIN entries' :
           /\ entries[e].unread /\ ~entries'[e].unread /\ entries'[e].alive
           => entries'[e].session = entries'[e].file \/ e \in displaced']_vars

\* A session a TUI has open and has registered is in no running process of the
\* pool that is not on its way out (server.ts: "two pi processes must never
\* have the same session file open").
TuiWritesAlone ==
    \A d \in Desktops : \A e \in DOMAIN entries :
        bySource[d] # Nobody /\ entries[e].alive /\ ~entries[e].closing
            => entries[e].file # conn[bySource[d]].session
=============================================================================
