------------------------------ MODULE AuditLog ------------------------------
(***************************************************************************)
(* What the audit store promises its callers: a table to which rows are    *)
(* only ever added, each in one step, after every row that is there, and   *)
(* linked to the hash of the row it follows.  Everything the store does to *)
(* keep that promise (the transaction, the advisory lock, the sequence)    *)
(* is in AuditStore, which implements this specification.                  *)
(***************************************************************************)
EXTENDS HashChain

CONSTANTS
  Bodies,  \* contents an entry may have
  MaxId    \* bound: last value of the id sequence

VARIABLES
  table    \* the committed rows: id -> row

Init == table = [i \in {} |-> GENESIS_HASH]

AppendEntry ==
  \E id \in 1..MaxId, body \in Bodies :
     /\ \A i \in DOMAIN table : i < id
     /\ table' = AddRow(table, id, NewRow(LastHash(table, DOMAIN table), body))

Spec == Init /\ [][AppendEntry]_table
=============================================================================
