---------------------------- MODULE MCFlashWrite ----------------------------
(* Model-checking instance of FlashWrite: halfwords are erased or not.      *)
EXTENDS FlashWrite

MCValues == {"erased", "used"}
=============================================================================
