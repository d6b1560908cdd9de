---------------------------- MODULE MCLaserLink -----------------------------
(* Model-checking instance of LaserLink.                                   *)
EXTENDS LaserLink
=============================================================================
