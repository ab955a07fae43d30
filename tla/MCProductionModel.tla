------------------------- MODULE MCProductionModel -------------------------
(* One line, one checkpoint, a work unit of one operation.                   *)
EXTENDS ProductionModel

MCLines == <<"line">>
MCCheckpoints == <<"check">>
MCDemoStatus == [l \in {"line"} |-> "Online"]
MCDemoRate == [c \in {"check"} |-> "passing"]
=============================================================================
