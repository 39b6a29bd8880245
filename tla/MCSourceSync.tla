---------------------------- MODULE MCSourceSync ----------------------------
(* One relay, one hub and one phone.  The bounds are in the cfg files; those *)
(* of MCSourceSync.cfg are cut to two shapes of behaviour, since everything   *)
(* at once is out of reach: many items in one epoch with disturbances (a      *)
(* socket that drops, a time-out or second selection, a snapshot unasked),    *)
(* where items and disturbances are four together, and fewer items in         *)
(* several epochs.                                                            *)
EXTENDS SourceSync

OneStream ==
  Len(log) <= 1 /\ produced + drops + retries + snapshots <= 4

ManyStreams ==
  /\ produced < MaxItems /\ retries = 0 /\ snapshots = 0
  /\ produced + drops + Len(log) <= 4

Shapes == OneStream \/ ManyStreams

\* The states that CatchesUp judges, few epochs or few items at a time; a
\* behaviour that leaves them for good is not judged.
Judged ==
  /\ Len(log) < MaxEpoch
  /\ Len(log) + produced <= 4
=============================================================================
