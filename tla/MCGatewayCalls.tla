--------------------------- MODULE MCGatewayCalls ---------------------------
(* GatewayCalls on small instances. *)
EXTENDS GatewayCalls, TLC

\* Requests are interchangeable in the safety properties.
CallSymmetry == Permutations(Calls)
=============================================================================
