-------------------------- MODULE MCModbusPollLoop --------------------------
(* A register that feeds a pass rate and one that feeds an equipment line,   *)
(* and a queue that the two samples of one walk fill more than once.         *)
EXTENDS ModbusPollLoop

MCRegisterMap == <<"rate", "line">>
=============================================================================
