----------------------------- MODULE HashChain -----------------------------
(***************************************************************************)
(* The pure part of the audit log: audit/chain.py, together with the row   *)
(* order the CLI reads it in (cli/_audit_query.py) and the conversion a    *)
(* row undergoes when Postgres stores it (audit/models.py).                *)
(*                                                                         *)
(* A table is a function from row ids to rows.  A row keeps the content    *)
(* of the entry in one field, body, next to the two hash columns; the id   *)
(* is the argument of the function, which is how the code treats it: it    *)
(* orders the rows and is never hashed.                                    *)
(***************************************************************************)
EXTENDS Naturals, FiniteSets

(***************************************************************************)
(* A body is reduced to one JSON number among the call's arguments, which  *)
(* is all the storage conversion can alter.  A huge float is one that      *)
(* Python prints with an exponent (1e16 and above).                        *)
(***************************************************************************)
Numbers == [kind : {"int", "float"}, size : {"small", "huge"}]

(***************************************************************************)
(* What a JSONB column gives back for a number written to it.  Postgres    *)
(* keeps a numeric: 1e+16 is stored as 10000000000000000, which the CLI's  *)
(* json.loads reads as an int.  Every other number prints as it was.       *)
(***************************************************************************)
Jsonb(n) ==
  IF n.kind = "float" /\ n.size = "huge" THEN [n EXCEPT !.kind = "int"] ELSE n

GENESIS_HASH == <<>>

\* A mutant of hashable_payload: the content is left out of the hash.
hashable_payload_no_body(entry) == [prev_hash |-> entry.prev_hash]

hashable_payload(entry) == [body |-> entry.body, prev_hash |-> entry.prev_hash]

(***************************************************************************)
(* SHA-256 is taken to be free of collisions: a hash is the pair of things *)
(* it was computed from.                                                   *)
(***************************************************************************)
compute_entry_hash(prev_hash, entry) == <<prev_hash, hashable_payload(entry)>>

(***************************************************************************)
(* Rows in the order of ORDER BY id.                                       *)
(***************************************************************************)
Before(table, i) == {j \in DOMAIN table : j < i}

IsLast(ids, m) == m \in ids /\ \A j \in ids : j <= m

\* this_hash of the last of a set of rows, GENESIS_HASH when there is none:
\* `scalar(... order_by(id.desc()).limit(1)) or GENESIS_HASH`, and expected_prev.
LastHash(table, ids) ==
  IF ids = {} THEN GENESIS_HASH ELSE table[CHOOSE m \in ids : IsLast(ids, m)].this_hash

(***************************************************************************)
(* The row write_entry builds: hashed as the caller gave it, stored as     *)
(* JSONB; and the table with one more row.                                 *)
(***************************************************************************)
NewRow(prev_hash, body) ==
  [body |-> Jsonb(body), prev_hash |-> prev_hash,
   this_hash |-> compute_entry_hash(prev_hash, [body |-> body, prev_hash |-> prev_hash])]

AddRow(table, id, row) ==
  [i \in DOMAIN table \cup {id} |-> IF i = id THEN row ELSE table[i]]

(***************************************************************************)
(* verify_chain.  The loop stops at the first row that does not fit, so    *)
(* its result is the least of the rows at which the check fails; rows      *)
(* before it all matched, which makes expected_prev the stored this_hash   *)
(* of the row before.                                                      *)
(***************************************************************************)
\* A mutant of Mismatch: the content is rehashed but the link is not compared.
Mismatch_content_only(table, i) ==
  compute_entry_hash(table[i].prev_hash, table[i]) # table[i].this_hash

Mismatch(table, i) ==
  LET expected_prev == LastHash(table, Before(table, i)) IN
  \/ table[i].prev_hash # expected_prev
  \/ compute_entry_hash(expected_prev, table[i]) # table[i].this_hash

Mismatches(table) == {i \in DOMAIN table : Mismatch(table, i)}

verify_chain(table) ==
  LET bad   == Mismatches(table)
      first == CHOOSE i \in bad : \A j \in bad : i <= j
  IN  IF bad = {}
      THEN [valid |-> TRUE,  checked |-> Cardinality(DOMAIN table), first_mismatch_id |-> 0]
      ELSE [valid |-> FALSE, checked |-> Cardinality(Before(table, first)),
            first_mismatch_id |-> first]
=============================================================================
