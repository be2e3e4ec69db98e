-------------------------- MODULE MCInvestigation --------------------------
(* Investigation on a small instance: one investigation, and two clients of another agent. *)
EXTENDS Investigation

Sdn(e, n, t) == [ent |-> e, name |-> n, type |-> t, columns |-> 12]
Alt(e, n)    == [ent |-> e, name |-> n, columns |-> 5]
Blank        == [ent |-> "", name |-> "", type |-> "", columns |-> 1]

\* On the first list two businesses have the name of the account's holder, "acme", and so has an
\* individual; "acmo" is an alias of two entries.  On the second list the holder is an alias only,
\* of an entry that comes twice, and the list ends with a short line.
MCLists == {
  [sdn |-> <<Sdn(1, "acme", "-0-"), Sdn(2, "acme", "individual"), Sdn(3, "zulu", "vessel"),
             Sdn(4, "acme", "")>>,
   alt |-> <<Alt(1, "acmo"), Alt(3, "acmo"), Alt(9, "acme")>>],
  [sdn |-> <<Sdn(3, "zulu", ""), Sdn(4, "yard", "individual"), Sdn(3, "xray", ""), Blank>>,
   alt |-> <<Alt(3, "acme"), Alt(4, "")>>] }

\* How alike a query is to each name.
MCScore == [acme |-> [acme |-> 100, acmo |-> 75, zulu |-> 20, yard |-> 30, xray |-> 20],
            acmo |-> [acme |-> 75, acmo |-> 100, zulu |-> 20, yard |-> 20, xray |-> 20]]

MCAgentOf == [f |-> "x", g |-> "x"]

\* One client checks, the other looks, at the same time.
MCWants == [f |-> {Request("check_alias", "acmo", None)},
            g |-> {Request("query_transactions", None, None)}]
=============================================================================
