----------------------------- MODULE MCCommand -----------------------------
(* The instance TLC checks of Command: two fields of two values. *)
EXTENDS Command, TLC

CONSTANTS panid, key

TwoFields == {panid, key}
TwoValues == {0, 1}
=============================================================================
