-------------------------- MODULE MCSourceRegistry --------------------------
(* One desktop and one headless source; a ring of two events or three bytes, *)
(* with events of one and two bytes, so that either limit may bite first and *)
(* every event stream outgrows the ring.                                     *)
EXTENDS SourceRegistry
CONSTANTS tui, pool
MCDesktopSources == {tui}
MCHeadlessSources == {pool}
MCEventSizes == {1, 2}
=============================================================================
