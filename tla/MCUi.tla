-------------------------------- MODULE MCUi --------------------------------
(* Model-checking instance of Ui: a long press takes three ticks, a second  *)
(* none, and timeouts two seconds at most.                                  *)
EXTENDS Ui, TLC

MCValid == {1}
MCSeconds == 0 :> 1 @@ 1 :> 0 @@ 2 :> 1
=============================================================================
