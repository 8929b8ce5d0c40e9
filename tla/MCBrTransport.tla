--------------------------- MODULE MCBrTransport ---------------------------
(* Model values and bounds for the runs of BrTransport. *)
EXTENDS BrTransport, TLC

CONSTANTS a, b, c

TwoCalls == {a, b}
ThreeCalls == {a, b, c}
OneIpCall == {a}
NoIpCall == {}
=============================================================================
