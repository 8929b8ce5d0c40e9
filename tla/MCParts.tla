------------------------------ MODULE MCParts ------------------------------
(***************************************************************************)
(* Four small components that share nothing, side by side: which one moves *)
(* is chosen at the start, and the others stay as they are initially.      *)
(***************************************************************************)
EXTENDS FrameStream, Boot, Keepalive, ChangeDetector, TLC

CONSTANTS role, dataset

VARIABLE part

\* A device that is off, so that only the part that was chosen moves.
NoBoot ==
  /\ at = "dead" /\ step = 1 /\ held = {} /\ undo = <<>>
  /\ lan = FALSE /\ running = {} /\ boots = 0

PartsInit ==
  /\ part \in {"stream", "boot", "keepalive", "detector"}
  /\ StreamInit /\ PollInit /\ Init
  /\ part # "stream" => end = "br"
  /\ part # "keepalive" => tickIn = 0 /\ watchIn = 0
  /\ IF part = "boot" THEN BootInit ELSE NoBoot

PartsNext ==
  /\ UNCHANGED part
  /\ \/ part = "stream" /\ UNCHANGED <<bootVars, pollVars, vars>> /\ StreamNext
     \/ part = "boot" /\ UNCHANGED <<streamVars, pollVars, vars>> /\ BootNext
     \/ part = "keepalive" /\ UNCHANGED <<streamVars, bootVars, vars>> /\ PollNext
     \/ part = "detector" /\ UNCHANGED <<streamVars, bootVars, pollVars>> /\ Next

PartsSpec ==
  PartsInit /\ [][PartsNext]_<<part, streamVars, bootVars, pollVars, vars>> /\ BootFairness /\ Fairness

TwoAspects == {role, dataset}
TwoValues == {0, 1}
ThreePayloads == {<<>>, <<9, 0>>, <<0, 9, 0>>}
=============================================================================
