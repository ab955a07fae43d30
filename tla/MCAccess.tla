----------------------------- MODULE MCAccess -----------------------------
(* Small instance of Access: the three seeded accounts and one newcomer.   *)
EXTENDS Access
=============================================================================
