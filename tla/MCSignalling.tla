---------------------------- MODULE MCSignalling ----------------------------
\* Signalling with the constants of the configuration MCSignalling.cfg.
EXTENDS Signalling, FiniteSets

\* One guest stays: what two do is seen before the second is gone.
OneStays == Cardinality({g \in Guests : guest[g] = "gone"}) <= 1
=============================================================================
