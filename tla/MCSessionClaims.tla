-------------------------- MODULE MCSessionClaims --------------------------
(* Two sessions over which processes and TUIs can collide, switch and move;  *)
(* the bounds are in the cfg files.                                          *)
EXTENDS SessionClaims, TLC
CONSTANTS a, b, tui1, tui2, c1, c2
MCSessions == {a, b}
OneDesktop == {tui1}
TwoDesktops == {tui1, tui2}
OneSession == {a}
TwoConnections == {c1, c2}
Symmetric == Permutations(MCSessions) \cup Permutations(TwoConnections)
\* Two shapes: two connections and processes that crash or switch; and one
\* connection and processes that do both.
OneConnection == Cardinality({c \in Connections : conn[c].state # "new"}) <= 1
Shapes == OneConnection \/ \A e \in DOMAIN entries : switches + entries[e].crashes <= 1
=============================================================================
