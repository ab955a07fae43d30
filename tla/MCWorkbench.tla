---------------------------- MODULE MCWorkbench ----------------------------
(* The instance of Workbench that TLC checks. *)
EXTENDS Workbench

MCWriters  == {"modbus", "opcua"}
MCSignals  == {"supply", "rate"}
MCBackends == {"mqtt", "tcp"}
=============================================================================
