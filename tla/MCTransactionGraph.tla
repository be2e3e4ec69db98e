------------------------ MODULE MCTransactionGraph ------------------------
(* TransactionGraph over all subsets of a few transactions. *)
EXTENDS TransactionGraph

CONSTANT MaxRows  \* bound: rows of a source

Row(n, f, t, p, r, ts) ==
  [n |-> n, from |-> f, to |-> t, paid |-> p, received |-> r, timestamp |-> ts,
   is_laundering |-> n \in {3, 7}]

\* A path a - b - c - d with edges in both directions, a shortcut between its ends, a transfer
\* of an account to itself, two equal transactions; amounts around the threshold (3) and the
\* minimum (2), paid and received apart; the first and the last tick of a day.
Pool == {Row(1, "a", "b", 2, 1, 1), Row(2, "a", "b", 1, 2, 3), Row(3, "c", "b", 2, 2, 4),
         Row(4, "c", "b", 2, 2, 4), Row(5, "d", "c", 1, 1, 2), Row(6, "c", "d", 3, 2, 5),
         Row(7, "d", "a", 1, 1, 0), Row(8, "b", "b", 1, 3, 5)}

\* Two of them, without a common account, are laundering, and a pattern if both are there.
MCSources == {[rows |-> S, patterns |-> {{t \in S : t.is_laundering}}] :
                S \in {R \in SUBSET Pool : R # {} /\ Cardinality(R) <= MaxRows}}
=============================================================================
