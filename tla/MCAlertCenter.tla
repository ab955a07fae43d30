--------------------------- MODULE MCAlertCenter ---------------------------
(* Two alarms, two threads, a history ring of one entry.                     *)
EXTENDS AlertCenter
=============================================================================
