---------------------------- MODULE MCAuditStore ----------------------------
(* AuditStore on small instances. *)
EXTENDS AuditStore

\* Numbers that JSONB gives back as they were written.
SurvivingNumbers == {n \in Numbers : Jsonb(n) = n}

\* Two of them are enough to tell an edited row from the row as written.
StableTwo == {n \in SurvivingNumbers : n.size = "small"}
=============================================================================
