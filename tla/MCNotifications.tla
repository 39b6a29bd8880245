--------------------------- MODULE MCNotifications ---------------------------
(* One source is enough: sources only share the numbers of the log. The bounds *)
(* are in the cfg files.                                                       *)
EXTENDS Notifications
==============================================================================
