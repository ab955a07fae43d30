---------------------------- MODULE MCOtaUpdate ----------------------------
(* One update of an image of three chunks, the last of which has to be        *)
(* padded to a whole flash word, or of an empty image.                        *)
EXTENDS OtaUpdate
=============================================================================
