----------------------------- MODULE MCFrameTcp -----------------------------
(* The instance TLC checks of FrameTcp. *)
EXTENDS FrameTcp, TLC

TwoTasks == {"rx", "detector"}
=============================================================================
