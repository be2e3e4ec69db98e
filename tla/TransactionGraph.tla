-------------------------- MODULE TransactionGraph --------------------------
(***************************************************************************)
(* The transaction-graph MCP server (mcp-servers/transaction-graph): six   *)
(* tools over the files that the job of AmlSample has written, and one     *)
(* table it writes, lost at every restart.  A tool is a step: the files    *)
(* the queries of one tool read do not change while the server is up, and  *)
(* the only write is a single statement under write_lock.  So calls do not *)
(* affect one another, and it is enough to follow one caller.              *)
(*                                                                         *)
(* Amounts are natural numbers, timestamps count ticks, DAY to a day.      *)
(* What a tool merely copies (currencies, names of banks and entities, the *)
(* rationale, recorded_at) is left out, and so is the order of the rows.   *)
(***************************************************************************)
EXTENDS AmlSample

CONSTANTS
  Ids,                       \* account ids that callers name or rows mention
  Days,                      \* days of the calendar, 0..n
  Amounts,                   \* values of min_amount that callers pass
  Marked,                    \* ids that callers mark
  Strings,                   \* dispositions that callers pass
  small_deposit_threshold, min_structuring_deposits, max_hops,
  DAY,                       \* ticks of a day
  MaxArg                     \* bound: hops, max_edges and window_days that callers pass

VALID_DISPOSITIONS == {"cleared", "escalate", "monitor"}

Rows == UNION {s.rows : s \in Sources}

ASSUME GraphAssumption ==
  /\ AccountsCsv \subseteq Ids /\ Marked \subseteq Ids
  /\ DAY \in Nat \ {0} /\ max_hops \in Nat \ {0} /\ MaxArg \in Nat
  /\ small_deposit_threshold \in Nat /\ min_structuring_deposits \in Nat
  /\ Amounts \subseteq Nat /\ Days \subseteq Nat
  /\ IsFiniteSet(Ids) /\ IsFiniteSet(Days) /\ \A s \in Sources : IsFiniteSet(s.rows)
  /\ \A t \in Rows : /\ {t.from, t.to} \subseteq Ids
                     /\ {t.paid, t.received} \subseteq Nat
                     /\ t.timestamp \in Nat /\ t.timestamp \div DAY \in Days

VARIABLES
  investigated,  \* the table: id -> disposition, None where there is no row
  reply          \* the answer on its way to the caller, with the tool and its arguments

vars == <<sampleVars, up, investigated, reply>>

None == "none"
NoReply == [tool |-> "none"]

-----------------------------------------------------------------------------
(* The queries. *)

Touching(a) == {t \in transactions : a \in {t.from, t.to}}

paid(t)     == t.paid
received(t) == t.received

\* Both dates included.
query_transactions(a, from_date, to_date) ==
  {t \in Touching(a) : t.timestamp >= from_date * DAY /\ t.timestamp < (to_date + 1) * DAY}

\* min and max, both NULL where there is no row.
Extremes(S) == IF S = {} THEN {} ELSE {Min(S), Max(S)}

\* A mutant of get_account: the receiver is always taken for the counterparty.
get_account_receivers(a) ==
  [total_transactions |-> Cardinality(Touching(a)),
   total_sent         |-> MapThenSumSet(paid, {t \in Touching(a) : t.from = a}),
   total_received     |-> MapThenSumSet(received, {t \in Touching(a) : t.to = a}),
   counterparties     |-> Cardinality({t.to : t \in Touching(a)}),
   activity           |-> Extremes({t.timestamp : t \in Touching(a)})]

\* A transfer from the account to itself makes the account its own counterparty.
get_account(a) ==
  [total_transactions |-> Cardinality(Touching(a)),
   total_sent         |-> MapThenSumSet(paid, {t \in Touching(a) : t.from = a}),
   total_received     |-> MapThenSumSet(received, {t \in Touching(a) : t.to = a}),
   counterparties     |-> Cardinality({IF t.from = a THEN t.to ELSE t.from : t \in Touching(a)}),
   activity           |-> Extremes({t.timestamp : t \in Touching(a)})]

\* max(1, min(hops, max_hops)).
clamp(hops) == Max({1, Min({hops, max_hops})})

Qualifies(t, min_amount) == Max({t.paid, t.received}) >= min_amount

\* The grouped query of one hop: where each qualifying row that touches the
\* frontier leads, and what it adds to that group's sum.
Beyond(t, frontier) == IF t.from \in frontier THEN t.to ELSE t.from

Link(n, hop, frontier, min_amount) ==
  LET group == {t \in transactions : /\ {t.from, t.to} \cap frontier # {}
                                     /\ Qualifies(t, min_amount)
                                     /\ Beyond(t, frontier) = n}
      moved(t) == IF t.from \in frontier THEN t.paid ELSE t.received
  IN  [account |-> n, hop |-> hop,
       total |-> MapThenSumSet(moved, group), count |-> Cardinality(group)]

\* A mutant of Round: only the frontier counts as visited.
Round_revisits(s, hop, min_amount) ==
  LET reached == {Beyond(t, s.frontier) : t \in {r \in transactions :
                    /\ {r.from, r.to} \cap s.frontier # {}
                    /\ Qualifies(r, min_amount)}}
      fresh   == reached \ s.frontier
  IN  [visited |-> s.visited \cup fresh, frontier |-> fresh,
       found |-> s.found \cup {Link(n, hop, s.frontier, min_amount) : n \in fresh}]

\* One round of the loop.
Round(s, hop, min_amount) ==
  LET reached == {Beyond(t, s.frontier) : t \in {r \in transactions :
                    /\ {r.from, r.to} \cap s.frontier # {}
                    /\ Qualifies(r, min_amount)}}
      fresh   == reached \ s.visited
  IN  [visited |-> s.visited \cup fresh, frontier |-> fresh,
       found |-> s.found \cup {Link(n, hop, s.frontier, min_amount) : n \in fresh}]

\* An empty frontier breaks out of the loop.
neighbors(a, hops, min_amount) ==
  LET walk[hop \in 0 .. clamp(hops)] ==
        IF hop = 0 THEN [visited |-> {a}, frontier |-> {a}, found |-> {}]
        ELSE IF walk[hop - 1].frontier = {} THEN walk[hop - 1]
        ELSE Round(walk[hop - 1], hop, min_amount)
  IN  walk[clamp(hops)].found

\* Edges between the given accounts, summed for each direction of each pair.
Edges(S) ==
  LET inside == {t \in transactions : {t.from, t.to} \subseteq S}
      of(e)  == {t \in inside : <<t.from, t.to>> = e}
  IN  {[from |-> e[1], to |-> e[2], count |-> Cardinality(of(e)),
        total |-> MapThenSumSet(paid, of(e))] : e \in {<<t.from, t.to>> : t \in inside}}

\* A mutant of Largest: ordered by the largest single transaction, not by the sum.
Largest_single(E, k) ==
  LET largest(e) == Max({t.paid : t \in {u \in transactions : u.from = e.from /\ u.to = e.to}})
  IN  {K \in kSubset(Min({k, Cardinality(E)}), E) :
         \A e \in K, f \in E \ K : largest(e) >= largest(f)}

\* The results of ORDER BY total DESC LIMIT k: ties fall either way.
Largest(E, k) ==
  {K \in kSubset(Min({k, Cardinality(E)}), E) : \A e \in K, f \in E \ K : e.total >= f.total}

\* A mutant of subgraph: LIMIT max_edges.
subgraph_exact_limit(S, max_edges) ==
  {[edges |-> K, truncated |-> Cardinality(K) > max_edges] : K \in Largest(Edges(S), max_edges)}

\* One edge more than asked for is fetched, to see whether any is cut.
subgraph(S, max_edges) ==
  UNION {{[edges |-> K, truncated |-> Cardinality(fetched) > max_edges] :
            K \in Largest(fetched, max_edges)} : fetched \in Largest(Edges(S), max_edges + 1)}

Deposits(a) == {t \in transactions : t.to = a}

\* A mutant of SmallDeposits: the window is closed at its start.
SmallDeposits_inclusive(a, window_days) ==
  LET max_ts == Max({t.timestamp : t \in Deposits(a)})
  IN  {t \in Deposits(a) : /\ t.received < small_deposit_threshold
                           /\ t.timestamp + window_days * DAY >= max_ts}

\* Deposits under the threshold in the days that end with the latest deposit of any size.
SmallDeposits(a, window_days) ==
  LET max_ts == Max({t.timestamp : t \in Deposits(a)})
  IN  {t \in Deposits(a) : /\ t.received < small_deposit_threshold
                           /\ t.timestamp + window_days * DAY > max_ts
                           /\ t.timestamp <= max_ts}

structuring_check(a, window_days) ==
  IF Deposits(a) = {} THEN [deposit_count |-> 0, total_deposits |-> 0, flagged |-> FALSE]
  ELSE LET small == SmallDeposits(a, window_days)
           total == MapThenSumSet(received, small)
       IN  [deposit_count |-> Cardinality(small), total_deposits |-> total,
            flagged |-> /\ Cardinality(small) >= min_structuring_deposits
                        /\ total >= small_deposit_threshold]

-----------------------------------------------------------------------------
(* The server. *)

Init ==
  /\ SampleInit
  /\ investigated = [a \in Ids |-> None]
  /\ reply = NoReply

Idle == up /\ reply = NoReply

\* build_store: views over the two directories, which have to be there, and an empty table.
Start ==
  /\ ~ up /\ job.pc \in {"idle", "raised"} /\ present = {"transactions", "accounts"}
  /\ up' = TRUE
  /\ UNCHANGED <<sampleVars, investigated, reply>>

Answer(r) == Idle /\ reply' = r /\ UNCHANGED <<sampleVars, up, investigated>>

QueryTransactions(a, d, e) ==
  Answer([tool |-> "query_transactions", account |-> a, from |-> d, to |-> e,
          rows |-> query_transactions(a, d, e)])

\* An id the accounts table lacks is refused with a ValueError.
GetAccount(a) ==
  Answer(IF a \in accounts
         THEN [tool |-> "get_account", account |-> a, record |-> get_account(a)]
         ELSE [tool |-> "error", account |-> a])

Neighbors(a, hops, min_amount) ==
  Answer([tool |-> "neighbors", account |-> a, hops |-> hops, min_amount |-> min_amount,
          links |-> neighbors(a, hops, min_amount)])

\* No query is made for an empty list.
Subgraph(S, max_edges) ==
  /\ Idle
  /\ \E g \in IF S = {} THEN {[edges |-> {}, truncated |-> FALSE]} ELSE subgraph(S, max_edges) :
       Answer([tool |-> "subgraph", nodes |-> S, max_edges |-> max_edges, graph |-> g])

StructuringCheck(a, window_days) ==
  Answer([tool |-> "structuring_check", account |-> a, window |-> window_days,
          signal |-> structuring_check(a, window_days)])

\* An upsert under write_lock.
mark_investigated(a, disposition) ==
  /\ investigated' = [investigated EXCEPT ![a] = disposition]
  /\ reply' = [tool |-> "mark_investigated", account |-> a, disposition |-> disposition]

\* A mutant of MarkInvestigated: the disposition is not checked.
MarkInvestigated_unchecked(a, disposition) ==
  Idle /\ mark_investigated(a, disposition) /\ UNCHANGED <<sampleVars, up>>

\* A disposition that is not one of the three is refused with a ValueError.
MarkInvestigated(a, disposition) ==
  /\ Idle
  /\ UNCHANGED <<sampleVars, up>>
  /\ IF disposition \in VALID_DISPOSITIONS
     THEN mark_investigated(a, disposition)
     ELSE reply' = [tool |-> "error", account |-> a] /\ UNCHANGED investigated

\* The caller reads the answer.
Return == reply # NoReply /\ reply' = NoReply /\ UNCHANGED <<sampleVars, up, investigated>>

\* The table is in memory.
Stop ==
  /\ up /\ up' = FALSE
  /\ investigated' = [a \in Ids |-> None]
  /\ reply' = NoReply
  /\ UNCHANGED sampleVars

Next ==
  \/ \E a \in Ids :
       \/ \E d, e \in Days : QueryTransactions(a, d, e)
       \/ GetAccount(a)
       \/ \E h \in 0 .. MaxArg, m \in Amounts : Neighbors(a, h, m)
       \/ \E w \in 0 .. MaxArg : StructuringCheck(a, w)
  \/ \E S \in SUBSET Ids, k \in 0 .. MaxArg : Subgraph(S, k)
  \/ \E a \in Marked, s \in Strings : MarkInvestigated(a, s)
  \/ Return
  \/ Start \/ Stop
  \/ JobStep /\ UNCHANGED <<investigated, reply>>

Spec == Init /\ [][Next]_vars

-----------------------------------------------------------------------------
(* Properties. *)

\* Every row of investigated holds one of the three dispositions that server.py accepts.
\* (Checked with StoreIsSound.)
TypeOK ==
  /\ job.pc \in {"idle", "raised", "write_transactions", "write_accounts"}
  /\ transactions \subseteq raw.rows /\ accounts \subseteq AccountsCsv
  /\ present \subseteq {"transactions", "accounts"} /\ crashes \in 0 .. MaxCrashes
  /\ investigated \in [Ids -> VALID_DISPOSITIONS \cup {None}]
  /\ reply.tool \in {"none", "error", "query_transactions", "get_account", "neighbors",
                     "subgraph", "structuring_check", "mark_investigated"}

\* What the job promises of its sample, however often it is run and wherever it is stopped: it
\* loses no laundering transaction ("guarantees pattern connectivity by construction") and
\* fails only where nothing is left to write.  So whatever draws the server's two directories
\* stem from, an alert can be investigated: the account it starts from has the transaction and,
\* if the raw list has it at all, an account record for get_account, and so has the other end.
StoreIsSound ==
  /\ TypeOK
  /\ job.pc = "raised" => Laundering(raw.rows) = {}
  /\ "transactions" \in present => Laundering(raw.rows) \subseteq transactions
  /\ up => \A a \in pick_seed_alert(transactions) : \A t \in Laundering(Touching(a)) :
              {t.from, t.to} \cap AccountsCsv \subseteq accounts

\* Ids joined by a qualifying transaction, in either direction.
Adjacent(a, b, min_amount) ==
  \E t \in transactions : {t.from, t.to} = {a, b} /\ Qualifies(t, min_amount)

\* Some walk of n qualifying transactions leads from a to b.
Walk(a, b, n, min_amount) ==
  \E p \in [0 .. n -> Ids] : /\ p[0] = a /\ p[n] = b
                             /\ \A i \in 1 .. n : Adjacent(p[i - 1], p[i], min_amount)

\* neighbors lists each account within the clamped number of hops once, and no other, each at
\* "the fewest number of edges from the origin account" (graph_models.AccountLink): the
\* grouped query, which names only one end of a row, and the visited set lose nobody.
HopIsDistance ==
  reply.tool = "neighbors" =>
    LET reach == Max({1, Min({reply.hops, max_hops})})
        near  == {b \in Ids \ {reply.account} :
                    \E n \in 1 .. reach : Walk(reply.account, b, n, reply.min_amount)}
    IN  /\ {l.account : l \in reply.links} = near
        /\ Cardinality(reply.links) = Cardinality(near)
        /\ \A l \in reply.links : \A n \in 1 .. l.hop :
             Walk(reply.account, l.account, n, reply.min_amount) <=> n = l.hop

\* The transactions that a link or an edge stands for.
counted(e) == e.count

\* The tools agree about one account: its statistics, its transactions asked for day by day
\* (no row falls between two days or is in both), and its direct neighbours with no minimum,
\* whose counts add up to the transactions that are not transfers to itself (get_account
\* counts the account itself as a counterparty for those).
ToolsAgree ==
  reply.tool = "get_account" =>
    LET a        == reply.account
        on(d)    == query_transactions(a, d, d)
        size(d)  == Cardinality(on(d))
        links    == neighbors(a, 1, 0)
        own      == {t \in UNION {on(d) : d \in Days} : t.from = t.to}
    IN  /\ MapThenSumSet(size, Days) = reply.record.total_transactions
        /\ MapThenSumSet(counted, links) + Cardinality(own) = reply.record.total_transactions
        /\ reply.record.counterparties = Cardinality(links) + (IF own = {} THEN 0 ELSE 1)

\* subgraph says truncated exactly when an edge between the given accounts is missing from its
\* answer.  An edge has the sum of the amounts sent from its one end to its other, and never is
\* one cut that has a larger amount than one kept ("highest-amount edges kept", server.py).  An
\* answer that is not truncated accounts for every transaction between the accounts.
TruncationIsTold ==
  reply.tool = "subgraph" =>
    LET kept     == reply.graph.edges
        inside   == {t \in transactions : {t.from, t.to} \subseteq reply.nodes}
        shown(t) == \E e \in kept : e.from = t.from /\ e.to = t.to
        amount(a, b) == MapThenSumSet(paid, {u \in inside : u.from = a /\ u.to = b})
    IN  /\ reply.graph.truncated <=> \E t \in inside : ~shown(t)
        /\ Cardinality(kept) <= reply.max_edges
        /\ \A e \in kept : e.total = amount(e.from, e.to)
        /\ \A e \in kept, t \in inside : ~shown(t) => e.total >= amount(t.from, t.to)
        /\ ~reply.graph.truncated => MapThenSumSet(counted, kept) = Cardinality(inside)

\* A flag of structuring_check always has a witness: enough deposits, each under the threshold
\* and together not under it, no two of them window_days or more apart.  A wider window never
\* takes a flag back.
FlagIsWitnessed ==
  reply.tool = "structuring_check" /\ reply.signal.flagged =>
    /\ \E S \in SUBSET {t \in transactions : t.to = reply.account} :
         /\ Cardinality(S) >= min_structuring_deposits
         /\ \A t \in S : t.received < small_deposit_threshold
         /\ MapThenSumSet(received, S) >= small_deposit_threshold
         /\ \A t, u \in S : t.timestamp < u.timestamp + reply.window * DAY
    /\ \A w \in reply.window .. MaxArg : structuring_check(reply.account, w).flagged
=============================================================================
