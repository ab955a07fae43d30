----------------------------- MODULE MCOtaAgent -----------------------------
(* Two threads that start and stop the agent, a transport that posts frames. *)
EXTENDS OtaAgent
=============================================================================
