----------------------------- MODULE OneUpdate -----------------------------
(***************************************************************************)
(* What a firmware update promises whoever watches it: it starts once, its *)
(* acknowledged bytes only ever grow, it ends exactly once, and it ends    *)
(* well only with the whole image transferred or with nothing to transfer. *)
(***************************************************************************)
EXTENDS Naturals

VARIABLES phase,   \* "idle", "active", "done" or "failed"
          acked,   \* bytes acknowledged
          size     \* bytes of the image

updateVars == <<phase, acked, size>>

Ended == phase \in {"done", "failed"}

Init ==
  /\ phase = "idle"
  /\ acked = 0
  /\ size \in Nat

Begin ==
  /\ phase = "idle"
  /\ phase' \in {"active", "failed"}
  /\ UNCHANGED <<acked, size>>

Advance ==
  /\ phase = "active"
  /\ acked' \in acked .. size
  /\ UNCHANGED <<phase, size>>

End ==
  /\ phase = "active"
  /\ phase' \in {"done", "failed"}
  /\ phase' = "done" => acked \in {0, size}
  /\ UNCHANGED <<acked, size>>

Next == Begin \/ Advance \/ End

Spec == Init /\ [][Next]_updateVars /\ WF_updateVars(End)
=============================================================================
