------------------------------ MODULE MCBrLink ------------------------------
(* The instances TLC checks of BrLink. *)
EXTENDS BrLink, TLC
=============================================================================
