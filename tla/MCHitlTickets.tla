--------------------------- MODULE MCHitlTickets ---------------------------
(* HitlTickets on small instances. *)
EXTENDS HitlTickets
=============================================================================
