------------------------ MODULE SessionClaimsProofs ------------------------
(***************************************************************************)
(* Proofs about module SessionClaims: the table of claims and the table of *)
(* processes agree, for any sessions, TUIs, connections and limits.        *)
(*                                                                         *)
(* The two properties about claims are inductive together (ClaimsInv),     *)
(* given the types and that no entry has a number that is still to be      *)
(* handed out.  Each step is one of four changes: the sessions stay as     *)
(* they are, an entry is forgotten, a TUI is given a session, or a claim   *)
(* follows a process.  The bound on the pool rests on PoolInv instead:     *)
(* only Exit takes a closing entry away, only OpenNew makes a live one.    *)
(***************************************************************************)
EXTENDS SessionClaims, FiniteSetTheorems, TLAPS

Holders == PoolIds \cup Desktops \cup {Nobody}

Real(ents, cl) ==
    \A s \in Sessions :
        cl[s] \in PoolIds => cl[s] \in DOMAIN ents /\ ents[cl[s]].session = s

Own(ents, cl, disp) ==
    \A e \in DOMAIN ents \ disp : cl[ents[e].session] = e

Clients == [state : {"new", "registering", "registered", "gone"},
            desk : Desktops \cup {Nobody}, session : Sessions \cup {Nobody}]

\* The part of the type invariant that the two properties rest on.
Shape ==
    /\ DOMAIN entries \subseteq PoolIds
    /\ entries \in [DOMAIN entries -> Processes]
    /\ claims \in [Sessions -> Holders]
    /\ suffixes \in Nat
    /\ \A e \in DOMAIN entries : e[2] <= suffixes
    /\ conn \in [Connections -> Clients]
    /\ \A c \in Connections :
           conn[c].state = "registered" => conn[c].desk \in Desktops /\ conn[c].session \in Sessions
    /\ \A e \in DOMAIN waiting : waiting[e].desk \in Desktops /\ waiting[e].session \in Sessions

ClaimsInv ==
    /\ Shape
    /\ Real(entries, claims)
    /\ ~rushed => Own(entries, claims, displaced)

-----------------------------------------------------------------------------
(* The four changes.                                                       *)

\* Both properties depend only on which session each entry has.
LEMMA SessionsUnchanged ==
    ASSUME NEW ents, NEW new, NEW cl, NEW disp,
           DOMAIN new = DOMAIN ents,
           \A e \in DOMAIN ents : new[e].session = ents[e].session
    PROVE  /\ Real(ents, cl) => Real(new, cl)
           /\ Own(ents, cl, disp) => Own(new, cl, disp)
BY DEF Real, Own

\* Forgetting an entry, with the claim it has on its session (forget).
LEMMA Forgetting ==
    ASSUME NEW ents, NEW cl \in [Sessions -> Holders], NEW disp, NEW e \in DOMAIN ents,
           DOMAIN ents \subseteq PoolIds, ents[e].session \in Sessions,
           Real(ents, cl)
    PROVE  /\ Unclaim(cl, ents[e].session, e) \in [Sessions -> Holders]
           /\ Real(Without(ents, e), Unclaim(cl, ents[e].session, e))
           /\ Own(ents, cl, disp)
                  => Own(Without(ents, e), Unclaim(cl, ents[e].session, e), disp \ {e})
<1> DEFINE new == Without(ents, e)
           un == Unclaim(cl, ents[e].session, e)
<1>1. un \in [Sessions -> Holders]
  BY DEF Unclaim, Holders
<1>2. DOMAIN new = DOMAIN ents \ {e} /\ \A f \in DOMAIN new : new[f] = ents[f]
  BY DEF Without
<1>3. \A s \in Sessions : un[s] = cl[s] \/ (s = ents[e].session /\ cl[s] = e /\ un[s] = Nobody)
  BY DEF Unclaim
<1>4. \A s \in Sessions : un[s] \in PoolIds => un[s] = cl[s]
  BY <1>3, ClaimsAssumption
<1>5. un[ents[e].session] # e
  <2>1. e # Nobody
    BY ClaimsAssumption
  <2>2. un[ents[e].session] = IF cl[ents[e].session] = e THEN Nobody ELSE cl[ents[e].session]
    BY DEF Unclaim
  <2> QED BY <2>1, <2>2
<1>6. ASSUME NEW s \in Sessions, un[s] \in PoolIds
      PROVE  un[s] \in DOMAIN new /\ new[un[s]].session = s
  <2>1. un[s] = cl[s] /\ cl[s] \in DOMAIN ents /\ ents[cl[s]].session = s
    BY <1>6, <1>4 DEF Real
  <2>2. un[s] # e
    BY <2>1, <1>5
  <2> QED BY <2>1, <2>2, <1>2
<1>7. ASSUME Own(ents, cl, disp), NEW f \in DOMAIN new \ (disp \ {e})
      PROVE  un[new[f].session] = f
  <2>1. f # e /\ f \in DOMAIN ents \ disp /\ new[f] = ents[f]
    BY <1>7, <1>2
  <2>2. cl[ents[f].session] = f
    BY <2>1, <1>7 DEF Own
  <2> QED BY <2>1, <2>2 DEF Unclaim
<1> QED BY <1>1, <1>6, <1>7 DEF Real, Own

\* Giving a session to a TUI (claimExternal): only an entry that has the
\* session loses by it.
LEMMA Awarding ==
    ASSUME NEW ents, NEW cl \in [Sessions -> Holders], NEW disp,
           NEW d \in Desktops, NEW s \in Sessions,
           \A t \in Sessions \ {s} : cl[t] \in PoolIds => cl[t] \in DOMAIN ents /\ ents[cl[t]].session = t
    PROVE  /\ [cl EXCEPT ![s] = d] \in [Sessions -> Holders]
           /\ Real(ents, [cl EXCEPT ![s] = d])
           /\ Own(ents, cl, disp) /\ (\A e \in DOMAIN ents : ents[e].session \in Sessions \ {s})
                  => Own(ents, [cl EXCEPT ![s] = d], disp)
<1> DEFINE new == [cl EXCEPT ![s] = d]
<1>1. new \in [Sessions -> Holders]
  BY DEF Holders
<1>2. new[s] = d /\ d \notin PoolIds /\ \A t \in Sessions \ {s} : new[t] = cl[t]
  BY ClaimsAssumption
<1> HIDE DEF new
<1>3. Real(ents, new)
  BY <1>2 DEF Real
<1>4. ASSUME Own(ents, cl, disp), \A e \in DOMAIN ents : ents[e].session \in Sessions \ {s}
      PROVE  Own(ents, new, disp)
  BY <1>4, <1>2 DEF Own
<1> QED BY <1>1, <1>3, <1>4 DEF new

\* Letting a claim of a TUI go (releaseExternal) takes none from an entry.
LEMMA Releasing ==
    ASSUME NEW s \in Sessions, claims \in [Sessions -> Holders], Nobody \notin PoolIds
    PROVE  /\ ReleaseExternal(claims, s) \in [Sessions -> Holders]
           /\ Real(entries, claims) => Real(entries, ReleaseExternal(claims, s))
           /\ Own(entries, claims, displaced) => Own(entries, ReleaseExternal(claims, s), displaced)
<1> DEFINE new == ReleaseExternal(claims, s)
<1>1. new \in [Sessions -> Holders]
  BY DEF ReleaseExternal, Holders
<1>2. \A t \in Sessions : new[t] = claims[t] \/ (new[t] = Nobody /\ claims[t] \notin DOMAIN entries)
  BY DEF ReleaseExternal
<1>3. ASSUME NEW t, claims[t] \in DOMAIN entries PROVE new[t] = claims[t]
  BY <1>3 DEF ReleaseExternal
<1> HIDE DEF new
<1>4. Real(entries, claims) => Real(entries, new)
  BY <1>2 DEF Real
<1>5. Own(entries, claims, displaced) => Own(entries, new, displaced)
  BY <1>3 DEF Own
<1> QED BY <1>1, <1>4, <1>5 DEF new

\* A new entry, with the claim on a session that nobody has.
LEMMA Admitting ==
    ASSUME NEW ents, NEW cl \in [Sessions -> Holders], NEW disp,
           NEW s \in Sessions, NEW id \in PoolIds, NEW p,
           cl[s] = Nobody, p.session = s, id \notin DOMAIN ents, Nobody \notin PoolIds,
           DOMAIN ents \subseteq PoolIds
    PROVE  /\ [cl EXCEPT ![s] = id] \in [Sessions -> Holders]
           /\ Real(ents, cl) => Real(With(ents, id, p), [cl EXCEPT ![s] = id])
           /\ Own(ents, cl, disp) => Own(With(ents, id, p), [cl EXCEPT ![s] = id], disp)
<1> DEFINE new == [cl EXCEPT ![s] = id]
           all == With(ents, id, p)
<1>1. new \in [Sessions -> Holders]
  BY DEF Holders
<1>2. new[s] = id /\ \A t \in Sessions \ {s} : new[t] = cl[t]
  OBVIOUS
<1>3. /\ DOMAIN all = DOMAIN ents \cup {id} /\ all[id] = p
      /\ \A e \in DOMAIN ents : all[e] = ents[e]
  BY DEF With
<1>4. \A t : t # s => new[t] = cl[t]
  OBVIOUS
<1> HIDE DEF new, all
<1>5. ASSUME Real(ents, cl), NEW t \in Sessions, new[t] \in PoolIds
      PROVE  new[t] \in DOMAIN all /\ all[new[t]].session = t
  <2>1. CASE t = s
    BY <2>1, <1>2, <1>3
  <2>2. CASE t # s
    BY <2>2, <1>2, <1>3, <1>5 DEF Real
  <2> QED BY <2>1, <2>2
<1>6. ASSUME Own(ents, cl, disp), NEW e \in DOMAIN all \ disp
      PROVE  new[all[e].session] = e
  <2>1. CASE e = id
    BY <2>1, <1>2, <1>3
  <2>2. CASE e # id
    <3>1. e \in DOMAIN ents \ disp /\ all[e] = ents[e] /\ cl[ents[e].session] = e /\ e # Nobody
      BY <2>2, <1>3, <1>6 DEF Own
    <3>2. ents[e].session # s
      BY <3>1
    <3> QED BY <3>1, <3>2, <1>4
  <2> QED BY <2>1, <2>2
<1> QED BY <1>1, <1>5, <1>6 DEF Real, Own, new, all

\* A claim that follows its process to the session it has open now (rebind).
LEMMA Moving ==
    ASSUME NEW e \in DOMAIN entries, Shape, Real(entries, claims),
           NEW new, DOMAIN new = DOMAIN entries,
           \A f \in DOMAIN entries \ {e} : new[f].session = entries[f].session,
           NEW moves \in BOOLEAN, moves <=> Rebound(e)[entries[e].file] = e,
           entries[e].file # entries[e].session,
           new[e].session = IF moves THEN entries[e].file ELSE entries[e].session
    PROVE  /\ Rebound(e) \in [Sessions -> Holders]
           /\ Real(new, Rebound(e))
           /\ Own(entries, claims, displaced)
                  => Own(new, Rebound(e), IF moves THEN displaced \ {e} ELSE displaced \cup {e})
<1> DEFINE s == entries[e].session
           t == entries[e].file
           un == Unclaim(claims, s, e)
           re == Rebound(e)
<1>1. s \in Sessions /\ t \in Sessions /\ s # t /\ e \in PoolIds /\ e # Nobody
  BY ClaimsAssumption DEF Shape, Processes
<1>2. claims \in [Sessions -> Holders] /\ e \in Holders /\ Nobody \in Holders /\ Nobody \notin PoolIds
  BY <1>1, ClaimsAssumption DEF Shape, Holders
<1>3. un \in [Sessions -> Holders] /\ un[s] # e /\ un[s] \in {claims[s], Nobody}
      /\ \A r \in Sessions \ {s} : un[r] = claims[r]
  BY <1>1, <1>2 DEF Unclaim
<1>4. re = IF un[t] \in {Nobody, e} THEN [un EXCEPT ![t] = e] ELSE un
  BY DEF Rebound
<1>5. re \in [Sessions -> Holders]
  BY <1>1, <1>2, <1>3, <1>4
<1>6. re[s] = un[s] /\ (\A r \in Sessions \ {t} : re[r] = un[r]) /\ re[t] \in {un[t], e}
  BY <1>1, <1>3, <1>4
<1>7. moves => re[t] = e /\ claims[t] \in {Nobody, e}
  BY <1>1, <1>3, <1>4
<1>8. ~moves => re[t] = claims[t] /\ claims[t] # e
  BY <1>1, <1>3, <1>4, <1>6
<1> HIDE DEF s, t, un, re
<1>9. ASSUME NEW r \in Sessions, re[r] \in PoolIds
      PROVE  re[r] \in DOMAIN new /\ new[re[r]].session = r
  <2>1. CASE re[r] = e
    <3>1. r # s
      BY <2>1, <1>3, <1>6
    <3>2. CASE r = t
      BY <2>1, <3>2, <1>8, <1>7 DEF t
    <3>3. CASE r # t
      <4>1. claims[r] = e
        BY <2>1, <3>1, <3>3, <1>3, <1>6
      <4> QED BY <4>1, <3>1, <1>1 DEF Real, s
    <3> QED BY <3>2, <3>3
  <2>2. CASE re[r] # e
    <3>1. re[r] = claims[r]
      BY <2>2, <1>2, <1>3, <1>6, <1>9
    <3> QED BY <3>1, <2>2, <1>9 DEF Real
  <2> QED BY <2>1, <2>2
<1>10. ASSUME Own(entries, claims, displaced),
              NEW f \in DOMAIN new \ (IF moves THEN displaced \ {e} ELSE displaced \cup {e})
       PROVE  re[new[f].session] = f
  <2>1. CASE f = e
    BY <2>1, <1>10, <1>7 DEF t
  <2>2. CASE f # e
    <3>1. f \in DOMAIN entries \ displaced /\ new[f].session = entries[f].session
      BY <2>2, <1>10
    <3>2. claims[entries[f].session] = f /\ entries[f].session \in Sessions /\ f # Nobody
      BY <3>1, <1>2, <1>10 DEF Own, Shape, Processes
    <3>3. un[entries[f].session] = f
      BY <3>2, <2>2 DEF un, Unclaim
    <3>4. moves => entries[f].session # t
      BY <3>2, <2>2, <1>7
    <3> QED BY <3>1, <3>2, <3>3, <3>4, <1>3, <1>6, <1>8, <1>1
  <2> QED BY <2>1, <2>2
<1> QED BY <1>5, <1>9, <1>10 DEF Real, Own, re

-----------------------------------------------------------------------------
(* Init, and one lemma for each action.                                    *)

LEMMA InitClaimsInv == Init => ClaimsInv
<1> SUFFICES ASSUME Init PROVE ClaimsInv
  OBVIOUS
<1>1. DOMAIN entries = {} /\ DOMAIN waiting = {} /\ suffixes = 0
  BY DEF Init
<1>2. \A s \in Sessions : claims[s] = Nobody
  BY DEF Init
<1>3. Shape
  BY <1>1, ClaimsAssumption DEF Init, Shape, Holders, NewConn, Clients
<1> QED BY <1>1, <1>2, <1>3, ClaimsAssumption DEF ClaimsInv, Real, Own

\* What close does before the process exits: told to stop, or forgotten.
LEMMA Stopping ==
    ASSUME ClaimsInv, NEW e \in DOMAIN entries, NEW disp,
           disp = IF entries[e].alive THEN displaced ELSE displaced \ {e}
    PROVE  /\ DOMAIN Stopped(e) \subseteq DOMAIN entries
           /\ Stopped(e) \in [DOMAIN Stopped(e) -> Processes]
           /\ Freed(e) \in [Sessions -> Holders]
           /\ \A s \in Sessions : claims[s] = Nobody => Freed(e)[s] = Nobody
           /\ Real(Stopped(e), Freed(e))
           /\ ~rushed => Own(Stopped(e), Freed(e), disp)
<1> USE DEF ClaimsInv, Shape
<1>1. entries[e] \in Processes /\ entries[e].session \in Sessions
  BY DEF Processes
<1>2. CASE entries[e].alive
  <2>1. Stopped(e) = [entries EXCEPT ![e].closing = TRUE] /\ Freed(e) = claims /\ disp = displaced
    BY <1>2 DEF Stopped, Freed
  <2>2. [entries[e] EXCEPT !.closing = TRUE] \in Processes
    BY <1>1 DEF Processes
  <2>3. [entries[e] EXCEPT !.closing = TRUE].session = entries[e].session
    BY <1>1 DEF Processes
  <2>4. DOMAIN Stopped(e) = DOMAIN entries /\ Stopped(e) \in [DOMAIN entries -> Processes]
    BY <2>1, <2>2
  <2>5. \A f \in DOMAIN entries : Stopped(e)[f].session = entries[f].session
    BY <2>1, <2>3
  <2>6. /\ Real(entries, claims) => Real(Stopped(e), claims)
        /\ Own(entries, claims, displaced) => Own(Stopped(e), claims, displaced)
    BY <2>4, <2>5, SessionsUnchanged
  <2> QED BY <2>1, <2>4, <2>6
<1>3. CASE ~entries[e].alive
  <2>1. /\ Stopped(e) = Without(entries, e) /\ disp = displaced \ {e}
        /\ Freed(e) = Unclaim(claims, entries[e].session, e)
    BY <1>3 DEF Stopped, Freed
  <2>2. /\ Freed(e) \in [Sessions -> Holders]
        /\ Real(Stopped(e), Freed(e))
        /\ Own(entries, claims, displaced) => Own(Stopped(e), Freed(e), disp)
    <3>1. claims \in [Sessions -> Holders] /\ DOMAIN entries \subseteq PoolIds /\ Real(entries, claims)
      OBVIOUS
    <3> HIDE DEF ClaimsInv, Shape
    <3>2. /\ Unclaim(claims, entries[e].session, e) \in [Sessions -> Holders]
          /\ Real(Without(entries, e), Unclaim(claims, entries[e].session, e))
          /\ Own(entries, claims, displaced)
                 => Own(Without(entries, e), Unclaim(claims, entries[e].session, e), displaced \ {e})
      BY <1>1, <3>1, Forgetting
    <3> QED BY <2>1, <3>2
  <2>3. DOMAIN Stopped(e) \subseteq DOMAIN entries /\ Stopped(e) \in [DOMAIN Stopped(e) -> Processes]
    <3>1. Stopped(e) = [f \in DOMAIN entries \ {e} |-> entries[f]]
      BY <2>1 DEF Without
    <3>2. \A f \in DOMAIN entries : entries[f] \in Processes
      OBVIOUS
    <3> QED BY <3>1, <3>2
  <2>4. \A s \in Sessions : claims[s] = Nobody => Freed(e)[s] = Nobody
    BY <2>1 DEF Unclaim
  <2> QED BY <2>2, <2>3, <2>4
<1> QED BY <1>2, <1>3

LEMMA OpenNewClaimsInv == ASSUME ClaimsInv, NEW s \in Sessions, OpenNew(s) PROVE ClaimsInv'
<1> DEFINE id == IF <<s, 0>> \notin DOMAIN entries THEN <<s, 0>> ELSE <<s, suffixes + 1>>
<1>1. /\ claims[s] = Nobody /\ suffixes' = IF id[2] = 0 THEN suffixes ELSE id[2]
      /\ UNCHANGED <<desktop, waiting, rushed>>
  BY DEF OpenNew
<1>2. /\ id \in PoolIds /\ id \notin DOMAIN entries /\ suffixes' \in Nat
      /\ id[2] <= suffixes' /\ suffixes <= suffixes'
  BY <1>1 DEF ClaimsInv, Shape, PoolIds
<1>3. Spawned(s, id) \in Processes /\ Spawned(s, id).session = s
  BY DEF Spawned, Processes
<1> DEFINE Room(ents, cl, disp) ==
               /\ DOMAIN ents \subseteq DOMAIN entries /\ ents \in [DOMAIN ents -> Processes]
               /\ cl \in [Sessions -> Holders] /\ cl[s] = Nobody /\ Real(ents, cl)
               /\ ~rushed => Own(ents, cl, disp)
               /\ entries' = With(ents, id, Spawned(s, id))
               /\ claims' = [cl EXCEPT ![s] = id] /\ displaced' = disp
<1>4. \E ents, cl, disp : Room(ents, cl, disp)
  <2>1. CASE /\ entries' = With(entries, id, Spawned(s, id))
             /\ claims' = [claims EXCEPT ![s] = id]
             /\ UNCHANGED displaced
    <3>1. Room(entries, claims, displaced)
      BY <2>1, <1>1 DEF ClaimsInv, Shape
    <3> QED BY <3>1
  <2>2. ASSUME NEW e \in Candidates,
               entries' = With(Stopped(e), id, Spawned(s, id)),
               claims' = [Freed(e) EXCEPT ![s] = id],
               displaced' = IF entries[e].alive THEN displaced ELSE displaced \ {e}
        PROVE  Room(Stopped(e), Freed(e), displaced')
    <3>1. e \in DOMAIN entries
      BY DEF Candidates
    <3> QED BY <2>2, <3>1, <1>1, Stopping
  <2> QED BY <2>1, <2>2 DEF OpenNew
<1>5. PICK ents, cl, disp : Room(ents, cl, disp)
  BY <1>4
<1> HIDE DEF id
<1>6. Nobody \notin PoolIds /\ id \notin DOMAIN ents /\ DOMAIN ents \subseteq PoolIds
  BY <1>2, <1>5, ClaimsAssumption DEF ClaimsInv, Shape
<1>7. /\ claims' \in [Sessions -> Holders]
      /\ Real(entries', claims')
      /\ ~rushed => Own(entries', claims', displaced')
  BY <1>2, <1>3, <1>5, <1>6, Admitting
<1>8. DOMAIN entries' = DOMAIN ents \cup {id} /\ entries' \in [DOMAIN entries' -> Processes]
  <2>1. entries' = [f \in DOMAIN ents \cup {id} |-> IF f = id THEN Spawned(s, id) ELSE ents[f]]
    BY <1>5 DEF With
  <2>2. \A f \in DOMAIN ents : ents[f] \in Processes
    BY <1>5
  <2> QED BY <1>3, <2>1, <2>2
<1>9. \A e \in DOMAIN entries' : e \in PoolIds /\ e[2] <= suffixes'
  <2> SUFFICES ASSUME NEW e \in DOMAIN entries' PROVE e \in PoolIds /\ e[2] <= suffixes'
    OBVIOUS
  <2>1. CASE e = id
    BY <2>1, <1>2
  <2>2. CASE e # id
    BY <2>2, <1>2, <1>5, <1>8 DEF ClaimsInv, Shape, PoolIds
  <2> QED BY <2>1, <2>2
<1>10. Shape'
  BY <1>1, <1>2, <1>7, <1>8, <1>9 DEF ClaimsInv, Shape, desktop, Holders
<1> QED BY <1>1, <1>7, <1>10 DEF ClaimsInv, Real, Own

LEMMA CloseClaimsInv == ASSUME ClaimsInv, NEW e \in DOMAIN entries, Close(e) PROVE ClaimsInv'
<1>1. /\ DOMAIN entries' \subseteq DOMAIN entries /\ entries' \in [DOMAIN entries' -> Processes]
      /\ claims' \in [Sessions -> Holders] /\ Real(entries', claims')
      /\ ~rushed => Own(entries', claims', displaced')
  BY Stopping DEF Close
<1>2. UNCHANGED <<suffixes, desktop, waiting, rushed>>
  BY DEF Close
<1>3. Shape'
  BY <1>1, <1>2 DEF ClaimsInv, Shape, desktop, Holders
<1> QED BY <1>1, <1>2, <1>3 DEF ClaimsInv, Real, Own

\* An entry is replaced by one that has the same session.
LEMMA Editing ==
    ASSUME ClaimsInv, NEW e \in DOMAIN entries, NEW r \in Processes,
           r.session = entries[e].session, NEW new, new = [entries EXCEPT ![e] = r]
    PROVE  /\ DOMAIN new = DOMAIN entries /\ new \in [DOMAIN new -> Processes]
           /\ Real(new, claims)
           /\ Own(entries, claims, displaced) => Own(new, claims, displaced)
<1>1. entries \in [DOMAIN entries -> Processes] /\ Real(entries, claims)
  BY DEF ClaimsInv, Shape
<1>2. /\ DOMAIN new = DOMAIN entries /\ new \in [DOMAIN new -> Processes]
      /\ \A f \in DOMAIN entries : new[f].session = entries[f].session
  BY <1>1
<1>3. /\ Real(entries, claims) => Real(new, claims)
      /\ Own(entries, claims, displaced) => Own(new, claims, displaced)
  BY <1>2, SessionsUnchanged
<1> QED BY <1>1, <1>2, <1>3

\* A step that changes nothing else but the restart count and the like.
LEMMA EditingInv ==
    ASSUME ClaimsInv, NEW e \in DOMAIN entries, NEW r \in Processes,
           r.session = entries[e].session, entries' = [entries EXCEPT ![e] = r],
           UNCHANGED <<claims, suffixes, displaced, desktop, waiting, rushed>>
    PROVE  ClaimsInv'
<1>1. /\ DOMAIN entries' = DOMAIN entries /\ entries' \in [DOMAIN entries' -> Processes]
      /\ Real(entries', claims)
      /\ Own(entries, claims, displaced) => Own(entries', claims, displaced)
  BY Editing
<1>2. Shape'
  BY <1>1 DEF ClaimsInv, Shape, desktop, Holders
<1> QED BY <1>1, <1>2 DEF ClaimsInv, Real, Own

LEMMA CrashClaimsInv == ASSUME ClaimsInv, NEW e \in DOMAIN entries, Crash(e) PROVE ClaimsInv'
<1>1. entries[e] \in Processes /\ entries[e].session \in Sessions /\ entries[e].crashes \in Nat
  BY DEF ClaimsInv, Shape, Processes
<1>2. UNCHANGED <<suffixes, desktop, waiting, rushed>>
  BY DEF Crash
<1>3. CASE entries[e].crashes >= MaxCrashes
  <2>1. /\ entries' = Without(entries, e) /\ displaced' = displaced \ {e}
        /\ claims' = Unclaim(claims, entries[e].session, e)
    BY <1>3 DEF Crash
  <2>2. claims \in [Sessions -> Holders] /\ DOMAIN entries \subseteq PoolIds /\ Real(entries, claims)
    BY DEF ClaimsInv, Shape
  <2>3. /\ Unclaim(claims, entries[e].session, e) \in [Sessions -> Holders]
        /\ Real(Without(entries, e), Unclaim(claims, entries[e].session, e))
        /\ Own(entries, claims, displaced)
               => Own(Without(entries, e), Unclaim(claims, entries[e].session, e), displaced \ {e})
    BY <1>1, <2>2, Forgetting
  <2>4. entries' = [f \in DOMAIN entries \ {e} |-> entries[f]]
    BY <2>1 DEF Without
  <2>5. Shape'
    BY <1>2, <2>1, <2>3, <2>4 DEF ClaimsInv, Shape, desktop, Holders
  <2> QED BY <1>2, <2>1, <2>3, <2>5 DEF ClaimsInv, Real, Own
<1>4. CASE ~(entries[e].crashes >= MaxCrashes)
  <2> DEFINE n == entries[e].crashes + 1
             r == [entries[e] EXCEPT !.alive = FALSE, !.streaming = FALSE, !.unread = FALSE,
                                     !.online = FALSE, !.crashes = n]
  <2>1. UNCHANGED <<claims, displaced>> /\ entries' = [entries EXCEPT ![e] = r]
    BY <1>4 DEF Crash
  <2>2. n \in Nat
    BY <1>1
  <2> HIDE DEF n
  <2>3. r \in Processes /\ r.session = entries[e].session
    BY <1>1, <2>2 DEF Processes
  <2> HIDE DEF r
  <2> QED BY <1>2, <2>1, <2>2, <2>3, EditingInv
<1> QED BY <1>3, <1>4

LEMMA RestartClaimsInv == ASSUME ClaimsInv, NEW e \in DOMAIN entries, Restart(e) PROVE ClaimsInv'
<1> DEFINE r == [entries[e] EXCEPT !.alive = TRUE, !.file = entries[e].args, !.online = e[2] = 0]
<1>1. entries[e] \in Processes
  BY DEF ClaimsInv, Shape
<1>2. entries' = [entries EXCEPT ![e] = r] /\ UNCHANGED <<claims, suffixes, displaced, desktop, waiting, rushed>>
  BY DEF Restart
<1>3. r \in Processes
  BY <1>1 DEF Processes
<1>4. r.session = entries[e].session
  BY <1>1 DEF Processes
<1> HIDE DEF r
<1> QED BY <1>2, <1>3, <1>4, EditingInv

LEMMA StreamClaimsInv == ASSUME ClaimsInv, NEW e \in DOMAIN entries, Stream(e) PROVE ClaimsInv'
<1> DEFINE r == [entries[e] EXCEPT !.streaming = ~@]
<1>1. entries[e] \in Processes
  BY DEF ClaimsInv, Shape
<1>2. entries' = [entries EXCEPT ![e] = r] /\ UNCHANGED <<claims, suffixes, displaced, desktop, waiting, rushed>>
  BY DEF Stream
<1>3. r \in Processes
  BY <1>1 DEF Processes
<1>4. r.session = entries[e].session
  BY <1>1 DEF Processes
<1> HIDE DEF r
<1> QED BY <1>2, <1>3, <1>4, EditingInv

LEMMA SwitchClaimsInv == ASSUME ClaimsInv, NEW e \in DOMAIN entries, Switch(e) PROVE ClaimsInv'
<1>1. entries[e] \in Processes
  BY DEF ClaimsInv, Shape
<1>2. PICK s \in Sessions : entries' = [entries EXCEPT ![e].file = s, ![e].unread = TRUE]
  BY DEF Switch
<1> DEFINE r == [entries[e] EXCEPT !.file = s, !.unread = TRUE]
<1>3. entries' = [entries EXCEPT ![e] = r] /\ UNCHANGED <<claims, suffixes, displaced, desktop, waiting, rushed>>
  BY <1>2 DEF Switch
<1>4. r \in Processes
  BY <1>1 DEF Processes
<1>5. r.session = entries[e].session
  BY <1>1 DEF Processes
<1> HIDE DEF r
<1> QED BY <1>3, <1>4, <1>5, EditingInv

LEMMA ReadBackClaimsInv == ASSUME ClaimsInv, NEW e \in DOMAIN entries, ReadBack(e) PROVE ClaimsInv'
<1> DEFINE r == [entries[e] EXCEPT !.unread = FALSE]
<1>1. entries[e] \in Processes
  BY DEF ClaimsInv, Shape
<1>2. entries' = [entries EXCEPT ![e] = r] /\ UNCHANGED <<claims, suffixes, displaced, desktop, waiting, rushed>>
  BY DEF ReadBack
<1>3. r \in Processes
  BY <1>1 DEF Processes
<1>4. r.session = entries[e].session
  BY <1>1 DEF Processes
<1> HIDE DEF r
<1> QED BY <1>2, <1>3, <1>4, EditingInv

LEMMA GetStateClaimsInv == ASSUME ClaimsInv, NEW e \in DOMAIN entries, GetState(e) PROVE ClaimsInv'
<1>1. entries[e] \in Processes
  BY DEF ClaimsInv, Shape
<1>2. UNCHANGED <<suffixes, desktop, waiting, rushed>>
  BY DEF GetState
<1>3. CASE entries[e].file = entries[e].session
  <2> DEFINE r == [entries[e] EXCEPT !.crashes = 0]
  <2>1. entries' = [entries EXCEPT ![e] = r] /\ UNCHANGED <<claims, displaced>>
    BY <1>3 DEF GetState
  <2>2. r \in Processes /\ r.session = entries[e].session
    BY <1>1 DEF Processes
  <2> HIDE DEF r
  <2> QED BY <1>2, <2>1, <2>2, EditingInv
<1>4. CASE entries[e].file # entries[e].session
  <2> DEFINE moves == Rebound(e)[entries[e].file] = e
             s == IF moves THEN entries[e].file ELSE entries[e].session
             r == [entries[e] EXCEPT !.crashes = 0, !.session = s]
  <2>1. /\ claims' = Rebound(e)
        /\ entries' = [entries EXCEPT ![e] = r]
        /\ displaced' = IF moves THEN displaced \ {e} ELSE displaced \cup {e}
    BY <1>4 DEF GetState
  <2>2. s \in Sessions
    BY <1>1 DEF Processes
  <2>3. s = IF moves THEN entries[e].file ELSE entries[e].session
    OBVIOUS
  <2> HIDE DEF s
  <2>4. r \in Processes /\ r.session = s
    BY <1>1, <2>2 DEF Processes
  <2> HIDE DEF r
  <2>5. /\ DOMAIN entries' = DOMAIN entries /\ entries' \in [DOMAIN entries' -> Processes]
        /\ entries'[e].session = s
        /\ \A f \in DOMAIN entries \ {e} : entries'[f].session = entries[f].session
    BY <2>1, <2>4 DEF ClaimsInv, Shape
  <2>6. Shape /\ Real(entries, claims) /\ moves \in BOOLEAN
    BY DEF ClaimsInv
  <2>7. /\ Rebound(e) \in [Sessions -> Holders]
        /\ Real(entries', Rebound(e))
        /\ Own(entries, claims, displaced)
               => Own(entries', Rebound(e), IF moves THEN displaced \ {e} ELSE displaced \cup {e})
    BY <1>4, <2>3, <2>5, <2>6, Moving
  <2> HIDE DEF moves
  <2>8. Shape'
    BY <1>2, <2>1, <2>5, <2>7 DEF ClaimsInv, Shape, desktop, Holders
  <2> QED BY <1>2, <2>1, <2>7, <2>8 DEF ClaimsInv, Real, Own
<1> QED BY <1>3, <1>4

\* A TUI is given a session at once: either no entry has the session any
\* more, or the TUI was let in too early and that is on the books.
LEMMA ClaimingNow ==
    ASSUME ClaimsInv, NEW d \in Desktops, NEW s \in Sessions,
           NEW cl \in [Sessions -> Holders], Real(entries, cl),
           ~rushed => Own(entries, cl, displaced),
           ClaimNow(d, s, cl)
    PROVE  /\ DOMAIN entries' \subseteq DOMAIN entries
           /\ entries' \in [DOMAIN entries' -> Processes]
           /\ claims' \in [Sessions -> Holders]
           /\ Real(entries', claims')
           /\ ~rushed' => Own(entries', claims', displaced')
           /\ UNCHANGED <<suffixes, waiting>>
<1>1. /\ entries \in [DOMAIN entries -> Processes]
      /\ \A e \in DOMAIN entries : entries[e].session \in Sessions
  BY DEF ClaimsInv, Shape, Processes
<1>2. claims' = [cl EXCEPT ![s] = d] /\ UNCHANGED <<suffixes, waiting>>
  BY DEF ClaimNow
<1>3. ~rushed' => ~rushed /\ ~ \E e \in DOMAIN entries' : entries'[e].session = s
  BY DEF ClaimNow
<1>4. /\ DOMAIN entries' \subseteq DOMAIN entries
      /\ entries' \in [DOMAIN entries' -> Processes]
      /\ \A e \in DOMAIN entries' : entries'[e].session = entries[e].session
      /\ \A e \in DOMAIN entries \ DOMAIN entries' : entries[e].session = s
      /\ \A e \in DOMAIN entries' \ displaced' : e \notin displaced
  <2>1. CASE UNCHANGED <<entries, displaced>>
    BY <2>1, <1>1
  <2>2. ASSUME NEW e \in Rivals(s), entries' = [entries EXCEPT ![e].online = FALSE], UNCHANGED displaced
        PROVE  <1>4
    <3> DEFINE r == [entries[e] EXCEPT !.online = FALSE]
    <3>1. e \in DOMAIN entries /\ entries[e] \in Processes
      BY <1>1 DEF Rivals
    <3>2. r \in Processes /\ r.session = entries[e].session
      BY <3>1 DEF Processes
    <3>3. entries' = [entries EXCEPT ![e] = r]
      BY <2>2
    <3> HIDE DEF r
    <3> QED BY <1>1, <2>2, <3>1, <3>2, <3>3
  <2>3. ASSUME NEW e \in Rivals(s), entries' = Without(entries, e), displaced' = displaced \ {e}
        PROVE  <1>4
    BY <1>1, <2>3 DEF Rivals, Without
  <2> QED BY <2>1, <2>2, <2>3 DEF ClaimNow
<1>5. \A t \in Sessions \ {s} :
          cl[t] \in PoolIds => cl[t] \in DOMAIN entries' /\ entries'[cl[t]].session = t
  BY <1>4 DEF Real
<1>6. Own(entries, cl, displaced) => Own(entries', cl, displaced')
  BY <1>4 DEF Own
<1>7. /\ claims' \in [Sessions -> Holders] /\ Real(entries', claims')
      /\ Own(entries', cl, displaced') /\ (\A e \in DOMAIN entries' : entries'[e].session \in Sessions \ {s})
             => Own(entries', claims', displaced')
  BY <1>2, <1>5, Awarding
<1>8. ~rushed' => \A e \in DOMAIN entries' : entries'[e].session \in Sessions \ {s}
  BY <1>1, <1>3, <1>4
<1> QED BY <1>2, <1>3, <1>4, <1>6, <1>7, <1>8

\* A TUI has to wait: nothing moves but the process that is told to stop.
LEMMA ClaimingLater ==
    ASSUME ClaimsInv, NEW c, NEW d \in Desktops, NEW s \in Sessions,
           NEW cl \in [Sessions -> Holders], Real(entries, cl),
           ~rushed => Own(entries, cl, displaced),
           ClaimLater(c, d, s, cl)
    PROVE  /\ DOMAIN entries' = DOMAIN entries
           /\ entries' \in [DOMAIN entries' -> Processes]
           /\ claims' = cl
           /\ Real(entries', cl)
           /\ ~rushed => Own(entries', cl, displaced)
           /\ UNCHANGED <<suffixes, displaced, rushed>>
           /\ \A e \in DOMAIN waiting' : waiting'[e].desk \in Desktops /\ waiting'[e].session \in Sessions
<1>1. PICK e \in Rivals(s) :
          /\ entries' = [entries EXCEPT ![e].closing = TRUE, ![e].online = FALSE]
          /\ waiting' = With(waiting, e, [conn |-> c, desk |-> d, session |-> s])
  BY DEF ClaimLater
<1>2. claims' = cl /\ UNCHANGED <<suffixes, displaced, rushed>>
  BY DEF ClaimLater
<1> DEFINE r == [entries[e] EXCEPT !.closing = TRUE, !.online = FALSE]
<1>3. e \in DOMAIN entries /\ entries[e] \in Processes /\ entries' = [entries EXCEPT ![e] = r]
  BY <1>1 DEF ClaimsInv, Shape, Rivals
<1>4. r \in Processes /\ r.session = entries[e].session
  BY <1>3 DEF Processes
<1> HIDE DEF r
<1>5. /\ DOMAIN entries' = DOMAIN entries /\ entries' \in [DOMAIN entries' -> Processes]
      /\ \A f \in DOMAIN entries : entries'[f].session = entries[f].session
  BY <1>3, <1>4 DEF ClaimsInv, Shape
<1>6. /\ Real(entries, cl) => Real(entries', cl)
      /\ Own(entries, cl, displaced) => Own(entries', cl, displaced)
  BY <1>5, SessionsUnchanged
<1>7. ASSUME NEW f \in DOMAIN waiting'
      PROVE  waiting'[f].desk \in Desktops /\ waiting'[f].session \in Sessions
  <2>1. CASE f = e
    BY <1>1, <2>1 DEF With
  <2>2. CASE f # e
    <3>1. f \in DOMAIN waiting /\ waiting'[f] = waiting[f]
      BY <1>1, <2>2 DEF With
    <3> QED BY <3>1 DEF ClaimsInv, Shape
  <2> QED BY <2>1, <2>2
<1> QED BY <1>2, <1>5, <1>6, <1>7

LEMMA RegisterClaimsInv ==
    ASSUME ClaimsInv, NEW c \in Connections, NEW d \in Desktops, NEW s \in Sessions, Register(c, d, s)
    PROVE  ClaimsInv'
<1>1. claims \in [Sessions -> Holders] /\ Real(entries, claims)
      /\ (~rushed => Own(entries, claims, displaced))
  BY DEF ClaimsInv, Shape
<1>2. CASE ClaimNow(d, s, claims) /\ Publish(c, d, s)
  <2>1. /\ DOMAIN entries' \subseteq DOMAIN entries
        /\ entries' \in [DOMAIN entries' -> Processes]
        /\ claims' \in [Sessions -> Holders]
        /\ Real(entries', claims')
        /\ ~rushed' => Own(entries', claims', displaced')
        /\ UNCHANGED <<suffixes, waiting>>
    BY <1>1, <1>2, ClaimingNow
  <2>2. ASSUME NEW k \in Connections, conn'[k].state = "registered"
        PROVE  conn'[k].desk \in Desktops /\ conn'[k].session \in Sessions
    <3>1. conn' = [conn EXCEPT ![c] = [state |-> "registered", desk |-> d, session |-> s]]
      BY <1>2 DEF Publish
    <3>2. CASE k = c
      BY <3>1, <3>2 DEF ClaimsInv, Shape
    <3>3. CASE k # c
      BY <3>1, <3>3, <2>2 DEF ClaimsInv, Shape
    <3> QED BY <3>2, <3>3
  <2>3. conn' \in [Connections -> Clients]
    BY <1>2 DEF Publish, ClaimsInv, Shape, Clients
  <2>4. Shape'
    BY <2>1, <2>2, <2>3 DEF ClaimsInv, Shape, Holders
  <2> QED BY <2>1, <2>4 DEF ClaimsInv, Real, Own
<1>3. CASE /\ ClaimLater(c, d, s, claims)
           /\ conn' = [conn EXCEPT ![c] = NewConn("registering")]
           /\ UNCHANGED bySource
  <2>1. /\ DOMAIN entries' = DOMAIN entries
        /\ entries' \in [DOMAIN entries' -> Processes]
        /\ claims' = claims
        /\ Real(entries', claims)
        /\ ~rushed => Own(entries', claims, displaced)
        /\ UNCHANGED <<suffixes, displaced, rushed>>
        /\ \A e \in DOMAIN waiting' : waiting'[e].desk \in Desktops /\ waiting'[e].session \in Sessions
    BY <1>1, <1>3, ClaimingLater
  <2>2. ASSUME NEW k \in Connections, conn'[k].state = "registered"
        PROVE  conn'[k].desk \in Desktops /\ conn'[k].session \in Sessions
    <3>1. conn'[k] = conn[k] \/ conn'[k] = NewConn("registering")
      BY <1>3
    <3>2. NewConn("registering").state # "registered"
      BY DEF NewConn
    <3> QED BY <3>1, <3>2, <2>2 DEF ClaimsInv, Shape
  <2>3. conn' \in [Connections -> Clients]
    BY <1>3 DEF NewConn, ClaimsInv, Shape, Clients
  <2>4. Shape'
    BY <2>1, <2>2, <2>3 DEF ClaimsInv, Shape, Holders
  <2> QED BY <2>1, <2>4 DEF ClaimsInv, Real, Own
<1> QED BY <1>2, <1>3 DEF Register

LEMMA SnapshotMovedClaimsInv ==
    ASSUME ClaimsInv, NEW c \in Connections, NEW s \in Sessions, SnapshotMoved(c, s)
    PROVE  ClaimsInv'
<1> DEFINE d == conn[c].desk
           old == conn[c].session
           cl == ReleaseExternal(claims, old)
<1>1. d \in Desktops /\ old \in Sessions
  BY DEF SnapshotMoved, ClaimsInv, Shape
<1>2. claims \in [Sessions -> Holders] /\ Nobody \notin PoolIds
  BY ClaimsAssumption DEF ClaimsInv, Shape
<1>3. /\ cl \in [Sessions -> Holders]
      /\ Real(entries, claims) => Real(entries, cl)
      /\ Own(entries, claims, displaced) => Own(entries, cl, displaced)
  BY <1>1, <1>2, Releasing
<1>4. Real(entries, cl) /\ (~rushed => Own(entries, cl, displaced))
  BY <1>3 DEF ClaimsInv
<1>5. conn' = [conn EXCEPT ![c].session = s] /\ (ClaimNow(d, s, cl) \/ ClaimLater(c, d, s, cl))
  BY DEF SnapshotMoved
<1>6. conn' \in [Connections -> Clients]
      /\ \A k \in Connections :
             conn'[k].state = "registered" => conn'[k].desk \in Desktops /\ conn'[k].session \in Sessions
  <2>1. conn[c] \in Clients /\ conn[c].state = "registered"
    BY DEF ClaimsInv, Shape, SnapshotMoved
  <2> DEFINE r == [conn[c] EXCEPT !.session = s]
  <2>2. r \in Clients /\ r.desk = d /\ r.session = s
    BY <2>1 DEF Clients
  <2>3. conn' = [conn EXCEPT ![c] = r]
    BY <1>5
  <2> HIDE DEF r, d
  <2> QED BY <1>1, <2>2, <2>3 DEF ClaimsInv, Shape
<1> HIDE DEF d, cl, old
<1>7. CASE ClaimNow(d, s, cl)
  <2>1. /\ DOMAIN entries' \subseteq DOMAIN entries
        /\ entries' \in [DOMAIN entries' -> Processes]
        /\ claims' \in [Sessions -> Holders]
        /\ Real(entries', claims')
        /\ ~rushed' => Own(entries', claims', displaced')
        /\ UNCHANGED <<suffixes, waiting>>
    BY <1>1, <1>3, <1>4, <1>7, ClaimingNow
  <2>2. Shape'
    BY <2>1, <1>6 DEF ClaimsInv, Shape, Holders
  <2> QED BY <2>1, <2>2 DEF ClaimsInv, Real, Own
<1>8. CASE ClaimLater(c, d, s, cl)
  <2>1. /\ DOMAIN entries' = DOMAIN entries
        /\ entries' \in [DOMAIN entries' -> Processes]
        /\ claims' = cl
        /\ Real(entries', cl)
        /\ ~rushed => Own(entries', cl, displaced)
        /\ UNCHANGED <<suffixes, displaced, rushed>>
        /\ \A e \in DOMAIN waiting' : waiting'[e].desk \in Desktops /\ waiting'[e].session \in Sessions
    BY <1>1, <1>3, <1>4, <1>8, ClaimingLater
  <2>2. Shape'
    BY <2>1, <1>3, <1>6 DEF ClaimsInv, Shape, Holders
  <2> QED BY <2>1, <2>2 DEF ClaimsInv, Real, Own
<1> QED BY <1>5, <1>7, <1>8

LEMMA HangupClaimsInv == ASSUME ClaimsInv, NEW c \in Connections, Hangup(c) PROVE ClaimsInv'
<1>1. UNCHANGED <<entries, suffixes, displaced, waiting, rushed>>
      /\ conn' = [conn EXCEPT ![c] = NewConn("gone")]
  BY DEF Hangup, pool
<1>2. claims' = claims \/ \E s \in Sessions : claims' = ReleaseExternal(claims, s)
  BY DEF Hangup, ClaimsInv, Shape
<1>3. claims \in [Sessions -> Holders] /\ Nobody \notin PoolIds
  BY ClaimsAssumption DEF ClaimsInv, Shape
<1>4. /\ claims' \in [Sessions -> Holders]
      /\ Real(entries, claims) => Real(entries, claims')
      /\ Own(entries, claims, displaced) => Own(entries, claims', displaced)
  <2>1. CASE claims' = claims
    BY <2>1, <1>3
  <2>2. ASSUME NEW s \in Sessions, claims' = ReleaseExternal(claims, s) PROVE <1>4
    BY <2>2, <1>3, Releasing
  <2> QED BY <1>2, <2>1, <2>2
<1>5. conn' \in [Connections -> Clients]
      /\ \A k \in Connections :
             conn'[k].state = "registered" => conn'[k].desk \in Desktops /\ conn'[k].session \in Sessions
  <2>1. NewConn("gone") \in Clients /\ NewConn("gone").state = "gone"
    BY DEF NewConn, Clients
  <2> QED BY <1>1, <2>1 DEF ClaimsInv, Shape
<1>6. Shape'
  BY <1>1, <1>4, <1>5 DEF ClaimsInv, Shape, Holders
<1> QED BY <1>1, <1>4, <1>6 DEF ClaimsInv, Real, Own

LEMMA ExitClaimsInv == ASSUME ClaimsInv, NEW e \in DOMAIN entries, Exit(e) PROVE ClaimsInv'
<1> DEFINE un == Unclaim(claims, entries[e].session, e)
<1>1. /\ entries' = Without(entries, e) /\ displaced' = displaced \ {e}
      /\ waiting' = Without(waiting, e) /\ UNCHANGED suffixes
  BY DEF Exit, Released
<1>2. claims \in [Sessions -> Holders] /\ DOMAIN entries \subseteq PoolIds /\ Real(entries, claims)
      /\ entries[e].session \in Sessions
  BY DEF ClaimsInv, Shape, Processes
<1>3. /\ un \in [Sessions -> Holders]
      /\ Real(entries', un)
      /\ Own(entries, claims, displaced) => Own(entries', un, displaced')
  BY <1>1, <1>2, Forgetting
<1>4. DOMAIN entries' \subseteq DOMAIN entries /\ entries' \in [DOMAIN entries' -> Processes]
      /\ \A f \in DOMAIN entries' : entries'[f].session \in Sessions
  BY <1>1 DEF Without, ClaimsInv, Shape, Processes
<1>5. \A f \in DOMAIN waiting' : waiting'[f].desk \in Desktops /\ waiting'[f].session \in Sessions
  BY <1>1 DEF Without, ClaimsInv, Shape
<1>6. CASE e \in DOMAIN waiting
  <2> DEFINE w == waiting[e]
  <2>1. w.desk \in Desktops /\ w.session \in Sessions
    BY <1>6 DEF ClaimsInv, Shape
  <2>2. claims' = [un EXCEPT ![w.session] = w.desk]
    BY <1>6 DEF Exit
  <2>3. ~rushed' => ~rushed /\ ~ \E f \in DOMAIN entries' : entries'[f].session = w.session
    BY <1>6 DEF Exit
  <2>4. conn' = conn \/ conn' = [conn EXCEPT ![w.conn] = [state |-> "registered", desk |-> w.desk, session |-> w.session]]
    BY <1>6 DEF Exit, Publish, desktop
  <2> HIDE DEF w, un
  <2>5. conn' \in [Connections -> Clients]
    BY <2>1, <2>4 DEF ClaimsInv, Shape, Clients
  <2>6. ASSUME NEW k \in Connections, conn'[k].state = "registered"
        PROVE  conn'[k].desk \in Desktops /\ conn'[k].session \in Sessions
    <3>1. CASE conn'[k] = conn[k]
      BY <3>1, <2>6 DEF ClaimsInv, Shape
    <3>2. CASE conn'[k] # conn[k]
      <4>1. conn'[k] = [state |-> "registered", desk |-> w.desk, session |-> w.session]
        BY <3>2, <2>4 DEF ClaimsInv, Shape
      <4> QED BY <4>1, <2>1
    <3> QED BY <3>1, <3>2
  <2>7. /\ claims' \in [Sessions -> Holders] /\ Real(entries', claims')
        /\ Own(entries', un, displaced') /\ (\A f \in DOMAIN entries' : entries'[f].session \in Sessions \ {w.session})
               => Own(entries', claims', displaced')
    <3>1. \A t \in Sessions \ {w.session} :
              un[t] \in PoolIds => un[t] \in DOMAIN entries' /\ entries'[un[t]].session = t
      BY <1>3 DEF Real
    <3> DEFINE d == w.desk
               s == w.session
    <3>2. un \in [Sessions -> Holders] /\ d \in Desktops /\ s \in Sessions
      BY <1>3, <2>1
    <3> HIDE DEF d, s
    <3>3. /\ [un EXCEPT ![s] = d] \in [Sessions -> Holders]
          /\ Real(entries', [un EXCEPT ![s] = d])
          /\ Own(entries', un, displaced') /\ (\A f \in DOMAIN entries' : entries'[f].session \in Sessions \ {s})
                 => Own(entries', [un EXCEPT ![s] = d], displaced')
      BY <3>1, <3>2, Awarding DEF s
    <3> QED BY <2>2, <3>3 DEF d, s
  <2>8. Shape'
    BY <1>1, <1>4, <1>5, <2>5, <2>6, <2>7 DEF ClaimsInv, Shape, Holders
  <2>9. ~rushed' => Own(entries', claims', displaced')
    BY <1>3, <1>4, <2>3, <2>7 DEF ClaimsInv
  <2> QED BY <2>7, <2>8, <2>9 DEF ClaimsInv, Real, Own
<1>7. CASE e \notin DOMAIN waiting
  <2>1. claims' = un /\ UNCHANGED <<rushed, conn>>
    BY <1>7 DEF Exit, desktop
  <2>2. Shape'
    BY <1>1, <1>3, <1>4, <1>5, <2>1 DEF ClaimsInv, Shape, Holders
  <2> QED BY <1>3, <2>1, <2>2 DEF ClaimsInv, Real, Own
<1> QED BY <1>6, <1>7

-----------------------------------------------------------------------------
(* The theorems.                                                           *)

\* The two properties and the shape they rest on are kept by every operation
\* of the pool and of the desktop sockets (pi_pool.ts, server.ts).
THEOREM ClaimsInvariant == Spec => []ClaimsInv
<1>1. ClaimsInv /\ [Next]_vars => ClaimsInv'
  <2> SUFFICES ASSUME ClaimsInv, [Next]_vars PROVE ClaimsInv'
    OBVIOUS
  <2>1. ASSUME NEW s \in Sessions, OpenNew(s) PROVE ClaimsInv'
    BY <2>1, OpenNewClaimsInv
  <2>2. ASSUME NEW e \in DOMAIN entries, PoolStep(e) PROVE ClaimsInv'
    BY <2>2, CloseClaimsInv, CrashClaimsInv, RestartClaimsInv, StreamClaimsInv,
       SwitchClaimsInv, ReadBackClaimsInv, GetStateClaimsInv, ExitClaimsInv DEF PoolStep
  <2>3. ASSUME NEW c \in Connections, DesktopStep(c) PROVE ClaimsInv'
    BY <2>3, RegisterClaimsInv, SnapshotMovedClaimsInv, HangupClaimsInv DEF DesktopStep
  <2>4. CASE UNCHANGED vars
    BY <2>4 DEF vars, pool, desktop, ClaimsInv, Shape, Real, Own, Holders
  <2> QED BY <2>1, <2>2, <2>3, <2>4 DEF Next
<1> QED BY <1>1, InitClaimsInv, PTL DEF Spec

\* No claim of the pool outlives the entry that has it or stays behind on a
\* session the entry has left, for any number of sessions, TUIs, sockets and
\* processes (forget, rebind, claimExternal, releaseExternal).
THEOREM ClaimsReal == Spec => []PoolClaimsReal
<1>1. ClaimsInv => PoolClaimsReal
  BY DEF ClaimsInv, Real, PoolClaimsReal
<1> QED BY <1>1, ClaimsInvariant, PTL

\* Every process of the pool, a dying one too, has the claim on its session as
\* long as no TUI was let in over a process that was still there (open, close,
\* reconcileDesktopClaim).
THEOREM ProcessesClaimed == Spec => []ProcessesOwnSessions
<1>1. ClaimsInv => ProcessesOwnSessions
  BY DEF ClaimsInv, Own, ProcessesOwnSessions
<1> QED BY <1>1, ClaimsInvariant, PTL

-----------------------------------------------------------------------------
(* Who waits, and how many run.  Only Exit takes a closing entry away, and  *)
(* only OpenNew makes a live one.                                          *)

LiveOf(ents) == {e \in DOMAIN ents : ~ents[e].closing}

KeepsClosing(ents) ==
    \A e \in DOMAIN entries : entries[e].closing => e \in DOMAIN ents /\ ents[e].closing

Handoffs == [conn : Connections, desk : Desktops, session : Sessions]

\* The rest of the type invariant, and the bound on the pool.
PoolInv ==
    /\ switches \in Nat /\ rushed \in BOOLEAN
    /\ bySource \in [Desktops -> Connections \cup {Nobody}]
    /\ \A e \in DOMAIN waiting : e \in DOMAIN entries /\ entries[e].closing
    /\ waiting \in [DOMAIN waiting -> Handoffs]
    /\ displaced \subseteq DOMAIN entries
    /\ IsFiniteSet(DOMAIN entries)
    /\ Cardinality(LiveOf(entries)) <= MaxLive

\* What an operation on the one entry e does to the entries, their claims aside.
Retires(ents, disp) ==
    /\ DOMAIN ents \subseteq DOMAIN entries
    /\ KeepsClosing(ents)
    /\ LiveOf(ents) \subseteq LiveOf(entries)
    /\ disp \subseteq DOMAIN ents

LEMMA FewerLive ==
    ASSUME PoolInv, NEW ents, DOMAIN ents \subseteq DOMAIN entries,
           LiveOf(ents) \subseteq LiveOf(entries)
    PROVE  /\ IsFiniteSet(DOMAIN ents) /\ IsFiniteSet(LiveOf(ents))
           /\ Cardinality(LiveOf(ents)) \in Nat /\ Cardinality(LiveOf(entries)) \in Nat
           /\ Cardinality(LiveOf(ents)) <= Cardinality(LiveOf(entries))
<1>1. IsFiniteSet(DOMAIN ents) /\ IsFiniteSet(LiveOf(entries))
  <2>1. LiveOf(entries) \subseteq DOMAIN entries
    BY DEF LiveOf
  <2> QED BY <2>1, FS_Subset DEF PoolInv
<1>2. /\ IsFiniteSet(LiveOf(ents)) /\ Cardinality(LiveOf(ents)) <= Cardinality(LiveOf(entries))
  BY <1>1, FS_Subset
<1> QED BY <1>1, <1>2, FS_CardinalityType

\* An entry is rewritten and, if it was told to stop, stays so.
LEMMA Rewriting ==
    ASSUME ClaimsInv, PoolInv, NEW e \in DOMAIN entries, NEW r,
           entries[e].closing => r.closing,
           NEW ents, ents = [entries EXCEPT ![e] = r], r.closing \in BOOLEAN
    PROVE  DOMAIN ents = DOMAIN entries /\ Retires(ents, displaced)
<1>1. DOMAIN ents = DOMAIN entries /\ ents[e] = r /\ \A f \in DOMAIN entries \ {e} : ents[f] = entries[f]
  BY DEF ClaimsInv, Shape
<1> QED BY <1>1 DEF Retires, KeepsClosing, LiveOf, PoolInv

\* An entry that nobody waits for is forgotten.
LEMMA Dropping ==
    ASSUME PoolInv, NEW e \in DOMAIN entries, ~entries[e].closing
    PROVE  Retires(Without(entries, e), displaced \ {e})
BY DEF Without, Retires, KeepsClosing, LiveOf, PoolInv

\* What close does, in both cases.
LEMMA StoppingRetires ==
    ASSUME ClaimsInv, PoolInv, NEW e \in Candidates
    PROVE  /\ e \in DOMAIN entries /\ e \notin LiveOf(Stopped(e)) /\ e \in LiveOf(entries)
           /\ Retires(Stopped(e), IF entries[e].alive THEN displaced ELSE displaced \ {e})
<1>1. e \in DOMAIN entries /\ ~entries[e].closing /\ entries[e] \in Processes
  BY DEF Candidates, ClaimsInv, Shape
<1>2. CASE entries[e].alive
  <2> DEFINE r == [entries[e] EXCEPT !.closing = TRUE]
  <2>1. r.closing = TRUE /\ Stopped(e) = [entries EXCEPT ![e] = r]
    BY <1>1, <1>2 DEF Stopped, Processes
  <2>2. Stopped(e)[e] = r
    BY <1>1, <2>1 DEF ClaimsInv, Shape
  <2> HIDE DEF r
  <2>3. Retires(Stopped(e), displaced)
    BY <1>1, <2>1, Rewriting
  <2> QED BY <1>1, <1>2, <2>1, <2>2, <2>3 DEF LiveOf
<1>3. CASE ~entries[e].alive
  <2>1. Stopped(e) = Without(entries, e) /\ e \notin DOMAIN Without(entries, e)
    BY <1>3 DEF Stopped, Without
  <2> QED BY <1>1, <1>3, <2>1, Dropping DEF LiveOf
<1> QED BY <1>2, <1>3

\* A step that retires entries and lets nobody wait keeps the invariant.
LEMMA RetiringInv ==
    ASSUME PoolInv, Retires(entries', displaced'), waiting' = waiting,
           switches' \in Nat, rushed' \in BOOLEAN,
           bySource' \in [Desktops -> Connections \cup {Nobody}]
    PROVE  PoolInv'
<1>1. /\ IsFiniteSet(DOMAIN entries') /\ Cardinality(LiveOf(entries')) \in Nat
      /\ Cardinality(LiveOf(entries)) \in Nat
      /\ Cardinality(LiveOf(entries')) <= Cardinality(LiveOf(entries))
  BY FewerLive DEF Retires
<1>2. Cardinality(LiveOf(entries')) <= MaxLive
  BY <1>1, ClaimsAssumption DEF PoolInv
<1>3. \A e \in DOMAIN waiting : e \in DOMAIN entries' /\ entries'[e].closing
  BY DEF PoolInv, Retires, KeepsClosing
<1> QED BY <1>1, <1>2, <1>3 DEF PoolInv, Retires, LiveOf


-----------------------------------------------------------------------------
(* One lemma for each action, or for those that do the same.               *)

LEMMA InitPoolInv == Init => PoolInv
<1> SUFFICES ASSUME Init PROVE PoolInv
  OBVIOUS
<1>1. DOMAIN entries = {} /\ DOMAIN waiting = {} /\ LiveOf(entries) = {}
  BY DEF Init, LiveOf
<1>2. IsFiniteSet(DOMAIN entries) /\ Cardinality(LiveOf(entries)) <= MaxLive
  BY <1>1, FS_EmptySet, ClaimsAssumption
<1>3. waiting \in [DOMAIN waiting -> Handoffs]
  BY <1>1 DEF Init
<1> QED BY <1>1, <1>2, <1>3 DEF Init, PoolInv

\* open: with room there is one more live process, without it another for one.
LEMMA OpenNewPoolInv ==
    ASSUME ClaimsInv, PoolInv, NEW s \in Sessions, OpenNew(s) PROVE PoolInv'
<1> DEFINE id == IF <<s, 0>> \notin DOMAIN entries THEN <<s, 0>> ELSE <<s, suffixes + 1>>
           p == Spawned(s, id)
<1>1. id \notin DOMAIN entries /\ UNCHANGED <<desktop, waiting, switches, rushed>>
  BY DEF OpenNew, ClaimsInv, Shape, PoolIds
<1>2. ~p.closing
  BY DEF Spawned
<1>3. Live = LiveOf(entries)
  BY DEF Live, LiveOf
<1> DEFINE Room(ents, disp) ==
               /\ Retires(ents, disp)
               /\ Cardinality(LiveOf(ents)) < MaxLive
               /\ entries' = With(ents, id, p) /\ displaced' = disp
<1>4. \E ents, disp : Room(ents, disp)
  <2>1. CASE /\ Cardinality(Live) < MaxLive
             /\ entries' = With(entries, id, p)
             /\ UNCHANGED displaced
    <3>1. Retires(entries, displaced)
      BY DEF Retires, KeepsClosing, PoolInv
    <3> QED BY <2>1, <3>1, <1>3
  <2>2. ASSUME NEW e \in Candidates,
               entries' = With(Stopped(e), id, p),
               displaced' = IF entries[e].alive THEN displaced ELSE displaced \ {e}
        PROVE  Room(Stopped(e), displaced')
    <3>1. /\ e \in LiveOf(entries) /\ e \notin LiveOf(Stopped(e))
          /\ Retires(Stopped(e), displaced')
      BY <2>2, StoppingRetires
    <3>2. LiveOf(Stopped(e)) \subseteq LiveOf(entries) \ {e} /\ DOMAIN Stopped(e) \subseteq DOMAIN entries
      BY <3>1 DEF Retires
    <3>3. IsFiniteSet(LiveOf(entries)) /\ Cardinality(LiveOf(entries)) \in Nat
      BY FewerLive
    <3>4. /\ IsFiniteSet(LiveOf(entries) \ {e})
          /\ Cardinality(LiveOf(entries) \ {e}) = Cardinality(LiveOf(entries)) - 1
      BY <3>1, <3>3, FS_RemoveElement
    <3>5. /\ IsFiniteSet(LiveOf(Stopped(e)))
          /\ Cardinality(LiveOf(Stopped(e))) <= Cardinality(LiveOf(entries) \ {e})
      BY <3>2, <3>4, FS_Subset
    <3>6. Cardinality(LiveOf(Stopped(e))) \in Nat
      BY <3>5, FS_CardinalityType
    <3>7. Cardinality(LiveOf(Stopped(e))) < MaxLive
      BY <3>3, <3>4, <3>5, <3>6, ClaimsAssumption DEF PoolInv
    <3> QED BY <2>2, <3>1, <3>7
  <2> QED BY <2>1, <2>2 DEF OpenNew
<1>5. PICK ents, disp : Room(ents, disp)
  BY <1>4
<1> HIDE DEF id, p
<1>6. /\ DOMAIN entries' = DOMAIN ents \cup {id} /\ entries'[id] = p
      /\ \A e \in DOMAIN ents : e # id /\ entries'[e] = ents[e]
  BY <1>1, <1>5 DEF With, Retires
<1>7. LiveOf(entries') = LiveOf(ents) \cup {id} /\ id \notin LiveOf(ents)
  BY <1>1, <1>2, <1>5, <1>6 DEF LiveOf, Retires
<1>8. IsFiniteSet(DOMAIN ents) /\ IsFiniteSet(LiveOf(ents)) /\ Cardinality(LiveOf(ents)) \in Nat
  BY <1>5, FewerLive DEF Retires
<1>9. IsFiniteSet(DOMAIN entries')
  BY <1>6, <1>8, FS_AddElement
<1>10. Cardinality(LiveOf(entries')) <= MaxLive
  <2>1. Cardinality(LiveOf(entries')) = Cardinality(LiveOf(ents)) + 1
    BY <1>7, <1>8, FS_AddElement
  <2> QED BY <2>1, <1>5, <1>8, ClaimsAssumption
<1>11. \A e \in DOMAIN waiting : e \in DOMAIN entries' /\ entries'[e].closing
  BY <1>5, <1>6 DEF PoolInv, Retires, KeepsClosing
<1>12. displaced' \subseteq DOMAIN entries'
  BY <1>5, <1>6 DEF Retires
<1> QED BY <1>1, <1>9, <1>10, <1>11, <1>12 DEF PoolInv, LiveOf, desktop

LEMMA ClosePoolInv ==
    ASSUME ClaimsInv, PoolInv, NEW e \in DOMAIN entries, Close(e) PROVE PoolInv'
<1>1. Retires(entries', displaced') /\ UNCHANGED <<desktop, waiting, switches, rushed>>
  BY StoppingRetires DEF Close
<1> QED BY <1>1, RetiringInv DEF desktop, PoolInv

\* A step that rewrites one entry and nothing that PoolInv is about.
LEMMA RewritingInv ==
    ASSUME ClaimsInv, PoolInv, NEW e \in DOMAIN entries, NEW r,
           r.closing = entries[e].closing, entries' = [entries EXCEPT ![e] = r],
           displaced' \subseteq displaced \cup {e},
           UNCHANGED <<waiting, rushed, bySource>>, switches' \in Nat
    PROVE  PoolInv'
<1>1. r.closing \in BOOLEAN
  BY DEF ClaimsInv, Shape, Processes
<1>2. DOMAIN entries' = DOMAIN entries /\ Retires(entries', displaced)
  BY <1>1, Rewriting
<1>3. Retires(entries', displaced')
  BY <1>2 DEF Retires, PoolInv
<1> QED BY <1>3, RetiringInv DEF PoolInv

LEMMA CrashPoolInv ==
    ASSUME ClaimsInv, PoolInv, NEW e \in DOMAIN entries, Crash(e) PROVE PoolInv'
<1>1. ~entries[e].closing /\ UNCHANGED <<desktop, waiting, switches, rushed>>
      /\ entries[e] \in Processes
  BY DEF Crash, ClaimsInv, Shape
<1>2. CASE entries' = Without(entries, e) /\ displaced' = displaced \ {e}
  BY <1>1, <1>2, Dropping, RetiringInv DEF PoolInv, desktop
<1>3. CASE ~(entries[e].crashes >= MaxCrashes)
  <2> DEFINE r == [entries[e] EXCEPT !.alive = FALSE, !.streaming = FALSE, !.unread = FALSE,
                                     !.online = FALSE, !.crashes = entries[e].crashes + 1]
  <2>1. entries' = [entries EXCEPT ![e] = r] /\ displaced' = displaced
    BY <1>3 DEF Crash
  <2>2. r.closing = entries[e].closing
    BY <1>1 DEF Processes
  <2> HIDE DEF r
  <2> QED BY <1>1, <2>1, <2>2, RewritingInv DEF PoolInv, desktop
<1> QED BY <1>2, <1>3 DEF Crash

LEMMA RestartPoolInv ==
    ASSUME ClaimsInv, PoolInv, NEW e \in DOMAIN entries, Restart(e) PROVE PoolInv'
<1> DEFINE r == [entries[e] EXCEPT !.alive = TRUE, !.file = entries[e].args, !.online = e[2] = 0]
<1>1. entries' = [entries EXCEPT ![e] = r]
      /\ UNCHANGED <<waiting, rushed, bySource, switches, displaced>>
  BY DEF Restart, desktop
<1>2. r.closing = entries[e].closing
  BY DEF ClaimsInv, Shape, Processes
<1> HIDE DEF r
<1> QED BY <1>1, <1>2, RewritingInv DEF PoolInv

LEMMA StreamPoolInv ==
    ASSUME ClaimsInv, PoolInv, NEW e \in DOMAIN entries, Stream(e) PROVE PoolInv'
<1> DEFINE r == [entries[e] EXCEPT !.streaming = ~@]
<1>1. entries' = [entries EXCEPT ![e] = r]
      /\ UNCHANGED <<waiting, rushed, bySource, switches, displaced>>
  BY DEF Stream, desktop
<1>2. r.closing = entries[e].closing
  BY DEF ClaimsInv, Shape, Processes
<1> HIDE DEF r
<1> QED BY <1>1, <1>2, RewritingInv DEF PoolInv

LEMMA SwitchPoolInv ==
    ASSUME ClaimsInv, PoolInv, NEW e \in DOMAIN entries, Switch(e) PROVE PoolInv'
<1>1. PICK s \in Sessions : entries' = [entries EXCEPT ![e].file = s, ![e].unread = TRUE]
  BY DEF Switch
<1> DEFINE r == [entries[e] EXCEPT !.file = s, !.unread = TRUE]
<1>2. entries' = [entries EXCEPT ![e] = r] /\ UNCHANGED <<waiting, rushed, bySource, displaced>>
  BY <1>1 DEF Switch, desktop
<1>3. switches' \in Nat
  BY DEF Switch, PoolInv
<1>4. r.closing = entries[e].closing
  BY DEF ClaimsInv, Shape, Processes
<1> HIDE DEF r
<1> QED BY <1>2, <1>3, <1>4, RewritingInv

LEMMA ReadBackPoolInv ==
    ASSUME ClaimsInv, PoolInv, NEW e \in DOMAIN entries, ReadBack(e) PROVE PoolInv'
<1> DEFINE r == [entries[e] EXCEPT !.unread = FALSE]
<1>1. entries' = [entries EXCEPT ![e] = r]
      /\ UNCHANGED <<waiting, rushed, bySource, switches, displaced>>
  BY DEF ReadBack, desktop
<1>2. r.closing = entries[e].closing
  BY DEF ClaimsInv, Shape, Processes
<1> HIDE DEF r
<1> QED BY <1>1, <1>2, RewritingInv DEF PoolInv

LEMMA GetStatePoolInv ==
    ASSUME ClaimsInv, PoolInv, NEW e \in DOMAIN entries, GetState(e) PROVE PoolInv'
<1> DEFINE r(s) == [entries[e] EXCEPT !.crashes = 0, !.session = s]
           q == [entries[e] EXCEPT !.crashes = 0]
<1>1. UNCHANGED <<waiting, rushed, bySource, switches>> /\ displaced' \subseteq displaced \cup {e}
  BY DEF GetState, desktop
<1>2. \E p : entries' = [entries EXCEPT ![e] = p] /\ p.closing = entries[e].closing
  <2>1. CASE entries' = [entries EXCEPT ![e] = q]
    <3>1. q.closing = entries[e].closing
      BY DEF ClaimsInv, Shape, Processes
    <3> QED BY <2>1, <3>1
  <2>2. ASSUME NEW s, entries' = [entries EXCEPT ![e] = r(s)] PROVE <1>2
    <3>1. r(s).closing = entries[e].closing
      BY DEF ClaimsInv, Shape, Processes
    <3> QED BY <2>2, <3>1
  <2>3. \/ entries' = [entries EXCEPT ![e] = q]
        \/ \E s : entries' = [entries EXCEPT ![e] = r(s)]
    BY DEF GetState
  <2> QED BY <2>1, <2>2, <2>3
<1> HIDE DEF r, q
<1> QED BY <1>1, <1>2, RewritingInv DEF PoolInv

\* A TUI is let in at once: nobody waits, and one entry may go.
LEMMA ClaimNowPoolInv ==
    ASSUME ClaimsInv, PoolInv, NEW d, NEW s, NEW cl, ClaimNow(d, s, cl),
           bySource' \in [Desktops -> Connections \cup {Nobody}]
    PROVE  PoolInv'
<1>1. waiting' = waiting /\ switches' = switches /\ rushed' \in BOOLEAN
  BY DEF ClaimNow, PoolInv
<1>2. Retires(entries', displaced')
  <2>1. CASE UNCHANGED <<entries, displaced>>
    BY <2>1 DEF Retires, KeepsClosing, PoolInv
  <2>2. ASSUME NEW e \in Rivals(s), entries[e].closing,
               entries' = [entries EXCEPT ![e].online = FALSE], UNCHANGED displaced
        PROVE  <1>2
    <3> DEFINE r == [entries[e] EXCEPT !.online = FALSE]
    <3>1. e \in DOMAIN entries /\ r.closing = entries[e].closing /\ r.closing \in BOOLEAN
      BY DEF Rivals, ClaimsInv, Shape, Processes
    <3>2. entries' = [entries EXCEPT ![e] = r]
      BY <2>2
    <3> HIDE DEF r
    <3> QED BY <2>2, <3>1, <3>2, Rewriting
  <2>3. ASSUME NEW e \in Rivals(s), ~entries[e].closing,
               entries' = Without(entries, e), displaced' = displaced \ {e}
        PROVE  <1>2
    BY <2>3, Dropping DEF Rivals
  <2> QED BY <2>1, <2>2, <2>3 DEF ClaimNow
<1> QED BY <1>1, <1>2, RetiringInv DEF PoolInv

\* A TUI has to wait, for an entry that is told to stop.
LEMMA ClaimLaterPoolInv ==
    ASSUME ClaimsInv, PoolInv, NEW c \in Connections, NEW d \in Desktops, NEW s \in Sessions,
           NEW cl, ClaimLater(c, d, s, cl), bySource' = bySource
    PROVE  PoolInv'
<1>1. PICK e \in Rivals(s) :
          /\ entries' = [entries EXCEPT ![e].closing = TRUE, ![e].online = FALSE]
          /\ waiting' = With(waiting, e, [conn |-> c, desk |-> d, session |-> s])
  BY DEF ClaimLater
<1> DEFINE r == [entries[e] EXCEPT !.closing = TRUE, !.online = FALSE]
<1>2. e \in DOMAIN entries /\ r.closing /\ r.closing \in BOOLEAN /\ entries' = [entries EXCEPT ![e] = r]
  BY <1>1 DEF Rivals, ClaimsInv, Shape, Processes
<1> HIDE DEF r
<1>3. UNCHANGED <<switches, rushed, displaced>>
  BY DEF ClaimLater
<1>4. DOMAIN entries' = DOMAIN entries /\ Retires(entries', displaced)
  BY <1>2, Rewriting
<1>5. entries'[e].closing
  BY <1>2 DEF ClaimsInv, Shape
<1>6. /\ IsFiniteSet(DOMAIN entries') /\ Cardinality(LiveOf(entries')) \in Nat
      /\ Cardinality(LiveOf(entries)) \in Nat
      /\ Cardinality(LiveOf(entries')) <= Cardinality(LiveOf(entries))
  BY <1>4, FewerLive DEF Retires
<1>7. Cardinality(LiveOf(entries')) <= MaxLive
  BY <1>6, ClaimsAssumption DEF PoolInv
<1>8. \A f \in DOMAIN waiting' : f \in DOMAIN entries' /\ entries'[f].closing
  BY <1>1, <1>2, <1>4, <1>5 DEF PoolInv, Retires, KeepsClosing, With
<1>9. waiting' \in [DOMAIN waiting' -> Handoffs]
  BY <1>1 DEF PoolInv, With, Handoffs
<1> QED BY <1>3, <1>4, <1>6, <1>7, <1>8, <1>9 DEF PoolInv, Retires, LiveOf

LEMMA DesktopPoolInv ==
    ASSUME ClaimsInv, PoolInv, NEW c \in Connections, DesktopStep(c) PROVE PoolInv'
<1>1. ASSUME NEW d \in Desktops, NEW s \in Sessions, Register(c, d, s) PROVE PoolInv'
  <2>1. CASE ClaimNow(d, s, claims) /\ Publish(c, d, s)
    BY <2>1, ClaimNowPoolInv DEF Publish, PoolInv
  <2>2. CASE ClaimLater(c, d, s, claims) /\ UNCHANGED bySource
    BY <2>2, ClaimLaterPoolInv
  <2> QED BY <1>1, <2>1, <2>2 DEF Register
<1>2. ASSUME NEW s \in Sessions, SnapshotMoved(c, s) PROVE PoolInv'
  <2> DEFINE cl == ReleaseExternal(claims, conn[c].session)
  <2>1. conn[c].desk \in Desktops /\ bySource' = bySource
    BY <1>2 DEF SnapshotMoved, ClaimsInv, Shape
  <2>2. CASE ClaimNow(conn[c].desk, s, cl)
    BY <2>1, <2>2, ClaimNowPoolInv DEF PoolInv
  <2>3. CASE ClaimLater(c, conn[c].desk, s, cl)
    BY <2>1, <2>3, ClaimLaterPoolInv
  <2> QED BY <1>2, <2>2, <2>3 DEF SnapshotMoved
<1>3. CASE Hangup(c)
  <2>1. /\ UNCHANGED <<entries, displaced, waiting, switches, rushed>>
        /\ bySource' \in [Desktops -> Connections \cup {Nobody}]
    BY <1>3 DEF Hangup, pool, PoolInv
  <2> QED BY <2>1 DEF PoolInv, LiveOf
<1> QED BY <1>1, <1>2, <1>3 DEF DesktopStep

\* The process is gone, and so is the handoff that waited for it.
LEMMA ExitPoolInv ==
    ASSUME ClaimsInv, PoolInv, NEW e \in DOMAIN entries, Exit(e) PROVE PoolInv'
<1>1. /\ entries' = Without(entries, e) /\ displaced' = displaced \ {e}
      /\ waiting' = Without(waiting, e) /\ UNCHANGED switches
  BY DEF Exit, Released
<1>2. /\ DOMAIN entries' = DOMAIN entries \ {e}
      /\ \A f \in DOMAIN entries' : entries'[f] = entries[f]
  BY <1>1 DEF Without
<1>3. LiveOf(entries') \subseteq LiveOf(entries) /\ DOMAIN entries' \subseteq DOMAIN entries
  BY <1>2 DEF LiveOf
<1>4. /\ IsFiniteSet(DOMAIN entries') /\ Cardinality(LiveOf(entries')) <= MaxLive
  BY <1>3, FewerLive, ClaimsAssumption DEF PoolInv
<1>5. /\ \A f \in DOMAIN waiting' : f \in DOMAIN entries' /\ entries'[f].closing
      /\ waiting' \in [DOMAIN waiting' -> Handoffs]
  BY <1>1, <1>2 DEF Without, PoolInv
<1>6. rushed' \in BOOLEAN /\ bySource' \in [Desktops -> Connections \cup {Nobody}]
  <2>1. CASE e \in DOMAIN waiting
    <3>1. waiting[e] \in Handoffs
      BY <2>1 DEF PoolInv
    <3> QED BY <2>1, <3>1 DEF Exit, Publish, desktop, PoolInv, Handoffs
  <2>2. CASE e \notin DOMAIN waiting
    BY <2>2 DEF Exit, desktop, PoolInv
  <2> QED BY <2>1, <2>2
<1> QED BY <1>1, <1>2, <1>4, <1>5, <1>6 DEF PoolInv, LiveOf

\* Handoffs wait for closing processes only, and the pool stays within its limit.
THEOREM PoolInvariant == Spec => []PoolInv
<1>1. ClaimsInv /\ PoolInv /\ [Next]_vars => PoolInv'
  <2> SUFFICES ASSUME ClaimsInv, PoolInv, [Next]_vars PROVE PoolInv'
    OBVIOUS
  <2>1. ASSUME NEW s \in Sessions, OpenNew(s) PROVE PoolInv'
    BY <2>1, OpenNewPoolInv
  <2>2. ASSUME NEW e \in DOMAIN entries, PoolStep(e) PROVE PoolInv'
    BY <2>2, ClosePoolInv, CrashPoolInv, RestartPoolInv, StreamPoolInv,
       SwitchPoolInv, ReadBackPoolInv, GetStatePoolInv, ExitPoolInv DEF PoolStep
  <2>3. ASSUME NEW c \in Connections, DesktopStep(c) PROVE PoolInv'
    BY <2>3, DesktopPoolInv
  <2>4. CASE UNCHANGED vars
    BY <2>4 DEF vars, pool, desktop, PoolInv, LiveOf
  <2> QED BY <2>1, <2>2, <2>3, <2>4 DEF Next
<1> QED BY <1>1, InitPoolInv, ClaimsInvariant, PTL DEF Spec

\* Every table keeps its shape, for any sessions, TUIs, sockets and limits: who
\* waits for a process waits for one that is on its way out (reconcileDesktopClaim).
THEOREM ClaimsTypeCorrect == Spec => []TypeOK
<1>1. ClaimsInv /\ PoolInv => TypeOK
  BY DEF ClaimsInv, Shape, PoolInv, TypeOK, Holders, Clients, Handoffs
<1> QED BY <1>1, ClaimsInvariant, PoolInvariant, PTL

\* The pool never has more live processes than it may, for any limit and any
\* order of opens, evictions, crashes, restarts and handoffs (pi_pool.ts open).
THEOREM PoolStaysBounded == Spec => []PoolBounded
<1>1. PoolInv => PoolBounded
  BY DEF PoolInv, LiveOf, PoolBounded
<1> QED BY <1>1, PoolInvariant, PTL
=============================================================================
