---------------------------- MODULE ReplayWindow ----------------------------
(***************************************************************************)
(* What the hub promises about the events it can replay, without rings,    *)
(* sizes or snapshots.  A present source has an epoch and a window         *)
(* [low, high]: a client that has applied event `seq' of that epoch, with  *)
(* low <= seq <= high, can be brought to `high' from the hub's memory.     *)
(* Within an epoch the window only moves forward.                          *)
(***************************************************************************)
EXTENDS Integers

CONSTANT Sources

VARIABLE window    \* [present sources -> [epoch, low, high]]

Windows == {w \in [epoch : Nat \ {0}, low : Nat, high : Nat] : w.low <= w.high}

Init == window = [s \in {} |-> [epoch |-> 1, low |-> 0, high |-> 0]]

Put(s, w) ==
    window' = [x \in DOMAIN window \cup {s} |-> IF x = s THEN w ELSE window[x]]

\* The source appears, or starts another event stream: nothing to replay yet,
\* or (a process just started) only the stream's first event.
Start(s) ==
    /\ s \in DOMAIN window'
    /\ Put(s, window'[s])
    /\ window'[s] \in Windows
    /\ window'[s].high \in {window'[s].low, 1}
    /\ s \in DOMAIN window => window'[s].epoch # window[s].epoch

\* One more event, and the newest one is never forgotten.
Record(s) ==
    /\ s \in DOMAIN window
    /\ \E low \in window[s].low .. window[s].high :
           Put(s, [epoch |-> window[s].epoch, low |-> low, high |-> window[s].high + 1])

\* A snapshot replaces a prefix of the window, or all of it and more.
Rebase(s) ==
    /\ s \in DOMAIN window
    /\ s \in DOMAIN window'
    /\ Put(s, window'[s])
    /\ window'[s] \in Windows
    /\ window'[s].epoch = window[s].epoch
    /\ window'[s].low >= window[s].low
    /\ window'[s].high >= window[s].high
    /\ window'[s].high > window[s].high => window'[s].low = window'[s].high

\* Sources are pruned one by one, or all at once when the hub restarts.
Forget ==
    \E gone \in SUBSET DOMAIN window :
        window' = [x \in DOMAIN window \ gone |-> window[x]]

Next == Forget \/ \E s \in Sources : Start(s) \/ Record(s) \/ Rebase(s)

Spec == Init /\ [][Next]_window
=============================================================================
