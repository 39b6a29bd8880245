----------------------------- MODULE MCCommands -----------------------------
\* Commands with the constants of the configurations MCCommands*.cfg.
EXTENDS Commands
=============================================================================
