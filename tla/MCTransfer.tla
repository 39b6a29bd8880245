----------------------------- MODULE MCTransfer -----------------------------
\* Transfer with the constants of the configuration MCTransfer.cfg.
EXTENDS Transfer
=============================================================================
