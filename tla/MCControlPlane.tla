--------------------------- MODULE MCControlPlane ---------------------------
(* ControlPlane on small instances. *)
EXTENDS ControlPlane

\* One agent in one session, and in two.
OneClient  == {[agent |-> "a", session |-> "s1"]}
TwoSessions == OneClient \cup {[agent |-> "a", session |-> "s2"]}
=============================================================================
