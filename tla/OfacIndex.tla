----------------------------- MODULE OfacIndex -----------------------------
(***************************************************************************)
(* The OFAC sanctions MCP server (mcp-servers/ofac-sanctions): the index it *)
(* builds from the two published lists when it starts, and its three       *)
(* look-ups.  It keeps no other state, so each look-up is an operator of   *)
(* the index; module Investigation has the calls.                          *)
(*                                                                         *)
(* A list is a record of rows: sdn, of [ent, name, type, columns], and     *)
(* alt, of [ent, name, columns].  The index is its dictionary of entries,  *)
(* each with its place in the dictionary, which is the order of the        *)
(* numbers behind a shared name.  How alike two names are is rapidfuzz's   *)
(* to say: a table of scores.  Names that score alike come in any order.   *)
(***************************************************************************)
EXTENDS Naturals, Sequences, FiniteSets, FiniteSetsExt

CONSTANTS
  score,            \* score[query][name]: fuzz.WRatio after default_process
  match_threshold,
  LIMIT             \* names that check_alias looks at

NULL_SENTINEL == "-0-"
VALID_ENTITY_TYPES == {"individual", "entity", "vessel", "aircraft"}

\* A blank or "-0-" type means a business.
sdn_type(row) == IF row.type \in {"", NULL_SENTINEL} THEN "entity" ELSE row.type

-----------------------------------------------------------------------------
(* loader.py *)

\* A number has the place of its first row, and what its last row says.
parse_sdn_csv(rows) ==
  LET full   == {i \in DOMAIN rows : rows[i].columns >= 12}
      own(e) == {i \in full : rows[i].ent = e}
  IN  [e \in {rows[i].ent : i \in full} |-> [row |-> rows[Max(own(e))], place |-> Min(own(e))]]

\* The aliases of a number, blank ones and short rows left out.
parse_alt_csv(rows, e) ==
  {rows[i].name : i \in {j \in DOMAIN rows : /\ rows[j].columns >= 5 /\ rows[j].ent = e
                                            /\ rows[j].name # ""}}

build_index(list) ==
  LET sdn == parse_sdn_csv(list.sdn)
  IN  [e \in DOMAIN sdn |->
         [name |-> sdn[e].row.name, type |-> sdn_type(sdn[e].row), place |-> sdn[e].place,
          aliases |-> parse_alt_csv(list.alt, e)]]

\* The first of some numbers.
first(index, S) == CHOOSE e \in S : \A f \in S : index[e].place <= index[f].place

\* A mutant of names_by_type: the types are not told apart.
names_by_type_any(index, type) ==
  [n \in {index[e].name : e \in DOMAIN index} |-> {e \in DOMAIN index : index[e].name = n}]

\* A mutant of names_by_type: a name keeps the last of its numbers only.
names_by_type_overwritten(index, type) ==
  LET own == {e \in DOMAIN index : index[e].type = type}
  IN  [n \in {index[e].name : e \in own} |->
         {e \in own : index[e].name = n /\ \A f \in own :
                         index[f].name = n => index[f].place <= index[e].place}]

\* The numbers behind each name: of the primary names of one type, and of every
\* primary name and alias.
names_by_type(index, type) ==
  LET own == {e \in DOMAIN index : index[e].type = type}
  IN  [n \in {index[e].name : e \in own} |-> {e \in own : index[e].name = n}]

names(entry) == {entry.name} \cup entry.aliases

\* A mutant of all_names: an entry takes a name over from the one before it.
all_names_overwritten(index) ==
  [n \in UNION {names(index[e]) : e \in DOMAIN index} |->
     LET own == {e \in DOMAIN index : n \in names(index[e])}
     IN  {CHOOSE e \in own : \A f \in own : index[f].place <= index[e].place}]

all_names(index) ==
  [n \in UNION {names(index[e]) : e \in DOMAIN index} |->
     {e \in DOMAIN index : n \in names(index[e])}]

to_match(name, e, query) ==
  [name |-> name, ent |-> e, score |-> score[query][name],
   is_match |-> score[query][name] >= match_threshold]

\* The answers process.extract may give: the k names that score highest.
extract(query, choices, k) ==
  {K \in kSubset(Min({k, Cardinality(choices)}), choices) :
     \A n \in K, o \in choices \ K : score[query][n] >= score[query][o]}

\* One match, of the first number behind the name; none if there are no names.
best_match(index, behind, query) ==
  {{to_match(n, first(index, behind[n]), query) : n \in K} : K \in extract(query, DOMAIN behind, 1)}

\* Every number behind each of the names.
top_matches(behind, query) ==
  {UNION {{to_match(n, e, query) : e \in behind[n]} : n \in K} :
     K \in extract(query, DOMAIN behind, LIMIT)}

-----------------------------------------------------------------------------
(* server.py: the answers each tool may give; a ValueError is one that is not ok. *)

check_entity(index, query, type) ==
  IF type \notin VALID_ENTITY_TYPES THEN {[ok |-> FALSE, matches |-> {}]}
  ELSE {[ok |-> TRUE, matches |-> M] : M \in best_match(index, names_by_type(index, type), query)}

check_alias(index, query) ==
  {[ok |-> TRUE, matches |-> M] : M \in top_matches(all_names(index), query)}

\* Of the record itself only whether there is one matters.
get_entity_detail(index, e) == {[ok |-> e \in DOMAIN index, matches |-> {}]}
=============================================================================
