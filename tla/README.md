# Interpose in TLA+

Interpose is a gateway between AI agents and MCP tool servers. Every `tools/call` is put to a
policy engine, recorded in a hash-chained audit log, held for a human reviewer where a policy
says so, and only then forwarded. A control plane of small agents watches the decisions.

This directory holds TLA+ models of that code, TLC configurations that check them on small
instances, and TLAPS proofs of every safety property for instances of any size. `PROJECT.json` maps
every definition to the lines it models, and lists runs, mutants, findings, hazards and theorems.

    tlc -config MCAuditStore.cfg MCAuditStore      # one run
    tlapm AuditStoreProofs.tla                     # the proofs about one module; likewise the other
                                                   # modules named *Proofs

## 1. The system

| Component | State | Operations |
|---|---|---|
| Audit log (`audit/`) | table `audit_entries`: rows chained by SHA-256; id sequence; one advisory lock | `write_entry`, `verify_chain` |
| HITL tickets (`session/hitl.py`) | Redis: a hash per ticket with a TTL, the set of pending ids | `create_ticket`, `wait_for_decision`, `list_pending`, `decide_ticket` |
| Gateway (`gateway/app.py`) | one coroutine per request | `proxy_mcp`, `_handle_tool_call`, `_handle_hold`, `_forward_and_record`, `_publish_decision_event` |
| Request-side policy engine (`policies/`) | the pack; `RateLimiter._windows` | `compile`, `evaluate`, `check_and_increment` |
| Response-side policies (`policies/redaction.py`, `evaluate_response`) | none | redact, tag, alert |
| AML pack (`policies/packs/aml.py` and its YAML) | none of its own; reads the audit log, sets a flag per session in Redis | sanctions rule, review gate for writes, structuring alert, redaction, tags |
| Control plane (`control_plane/`) | in-memory queue; the run of one event; session risk in Redis; tables of snapshots, flags, incidents | `publish`, `run_forever`, agents A0 to A4 |
| CLI (`cli/`) | none | `review list/approve/deny`, `verify-audit` |
| MCP servers (`mcp-servers/`) | a transaction graph and a table of dispositions; an OFAC index | look-ups, `neighbors`, `subgraph`, `structuring_check`, `mark_investigated`; fuzzy name search |
| AML investigator (`agents/`) | the state of one investigation | five nodes, each a client of the gateway |
| Subsampling job (`analytics/subsample_aml.py`) | two directories of Parquet files, which the transaction-graph server reads | draw, check, write, write |
| Telemetry jobs, metrics, tracing | none that a decision reads | batch jobs, counters |

How they interact: the agent's request enters the **gateway**, which calls the **policy engine**
in-process, writes an opening row (`INTENT`, `DENIED` or `HELD`) to the **audit log**, for a hold
puts a **ticket** in Redis and polls it while **reviewers'** CLI processes read and write the same
keys, forwards an allowed call to the **upstream server**, writes a closing row linked by
`parent_id`, and answers. After an opening row it puts an event on the **control plane**'s queue;
the background task there queries the audit log the gateway goes on writing to. The
**investigator** is such an agent: it calls the **OFAC** and **transaction-graph** servers through
the gateway, one call after the other, and the **AML pack** decides by what the audit log says of its
earlier calls.

What is hard in this code, and therefore what the properties are about (`hazards` in
`PROJECT.json` has each one with its line):

* several writers extend one chain, and what they read must still be true when they commit;
* reviewers, the poll, the deadline and Redis's expiry race over one ticket, in unlocked
  read-then-write round trips;
* the gateway may stop, or a store fail, between any two awaits, and a failed write may have
  taken effect;
* a request times out and is carried out by the upstream server afterwards;
* the control plane's queries are about an earlier moment than the one they run at, and
  several queries that belong together run at different moments;
* an agent's calls are judged by what the log says of its other calls, some of them in flight;
  its own timeout is far shorter than a reviewer's; and an answer that fails on the way back leaves a
  call that took place;
* a batch job may be stopped between two writes that belong together;
* rate-limit windows, z-scores, day boundaries and result limits have edges that tests seldom sit
  on, and the walk over the transaction graph is put together from grouped SQL queries.

## 2. Modules

| Module | Models | Lines up with the code as |
|---|---|---|
| `HashChain` | `audit/chain.py`, the row order, JSONB storage | operators with the functions' names |
| `AuditLog` | *abstract*: a table that is only appended to, each row linked to the one before | |
| `AuditStore` | `AuditStore.write_entry` | one action per `await`; variables are the table, the sequence, the lock, and each writer's locals |
| `AuditStoreProofs` | theorems about `AuditStore` | |
| `HitlTickets` | `session/hitl.py` and the reviewers' CLI | one action per Redis round trip |
| `GovernedCalls` | *abstract*: a call is decided once, and carried out only if allowed and at most once | |
| `GatewayCalls` | `gateway/app.py`; composes `HitlTickets` (`H == INSTANCE`) | one action per stretch between awaits; `call[c]` is the coroutine, `up[c]` the wire and the server |
| `PolicyEngine` | `policies/policyset.py`, `schema.py`, `redaction.py`, the demo pack's scan, the fail-closed wrappers | `Evaluate` is one step: no shared state is used after its only awaits; `Respond` is the answer's way through `_forward_buffered` |
| `ControlPlane` | `control_plane/` with agents A0 to A4 | one action per query, write or model call of the one background task |
| `AmlSample` | `analytics/subsample_aml.py`, the investigator's `seed.py` | one action per write; operators with the functions' names |
| `TransactionGraph` | `mcp-servers/transaction-graph`, over the files of `AmlSample`, which it extends | an operator per query, with the function's name, and an action per tool |
| `OfacIndex` | `mcp-servers/ofac-sanctions` | operators with the functions' names |
| `Investigation` | the AML pack, `agents/aml-investigator` and both servers as its upstream; extends `OfacIndex` | `call[c]` is the gateway's coroutine in the steps of `GatewayCalls` that another actor can tell apart; `inv[r]` the investigation, one action per call, answer and model call |
| `HitlProofs`, `GatewayProofs`, `PolicyProofs`, `ControlProofs`, `GraphProofs`, `InvestigationProofs` | theorems about `HitlTickets`, `GatewayCalls`, `PolicyEngine`, `ControlPlane`, `TransactionGraph` with `AmlSample`, and `Investigation` with `OfacIndex` | |
| `SumProofs` | lemmas about least elements and finite sums, for `GraphProofs` and `InvestigationProofs` | |
| `MC*` | the instances TLC checks | |

`GatewayCalls` treats the audit log as `AuditLog` does, a sequence that is appended to, which is
what `AuditStore` is proved to implement; and takes the policy engine's verdict as an arbitrary
choice, since `PolicyEngine` shows which verdict it is. `ControlPlane` has the rows and events the
gateway produces as its environment; `RowShapes` and `OpeningsArePublished` of `GatewayCalls` justify
the guards of `WriteClosing` and `Publish` there. `Investigation` takes the gateway's calls as
`GatewayCalls` has them, without tickets, announcements and crashes of the gateway, and gives the
verdict that the pack's rules give.

Abstractions, beyond names and payloads:

* SHA-256 is free of collisions: a hash is the pair it was computed from.
* An audit row's content is one JSON number, because numbers are all that JSONB storage alters.
* Postgres is READ COMMITTED, gives out ids that are never taken back, and ties the advisory lock
  to the transaction. Redis executes a command, or a `MULTI`, atomically.
* Time is coarse. In `HitlTickets` a waiter polls at least once per unit (it polls every 0.25 s);
  in `ControlPlane` the unit is five minutes and a row is announced in the unit it is written in.
* In `ControlPlane` language-model text is left out; the time the model takes is the gap between
  the step that decides and the step that stores.
* Z-scores are compared with their thresholds as integers, squared and multiplied out, and risk
  scores are whole hundredths; over the counts the runs reach, Python's floats decide alike.
* In `ControlPlane` a row's timestamp is that of its commit; `write_entry` takes it a little earlier,
  before it waits for the lock.
* In `TransactionGraph` amounts are natural numbers and the order of result rows is left out. The
  job of `AmlSample` is run while the server is down: DuckDB's views read the files at each query, so
  a job beside a running server could change them between two queries of one tool.
* In `PolicyEngine` a compiled policy set is a set of positions in the pack, and `Precedes` the order that
  the stable sort puts them in. An answer is a set of leaves, each with what a pattern would find in it.
* In `OfacIndex` the score of two names is a table; names that score alike come in any order. The index is
  its dictionary of entries; the order of the numbers behind a name, of which `best_match` takes the first,
  is that of their places in it. A match that an alias listed twice gives twice is one.
* In `Investigation` all calls are about one account, whose holder is one name. What becomes of a call
  whose client has timed out is the MCP library's affair; the run is over then (`lost`).

Every definition named `X_something` with a comment "A mutant of X" is a plausible mistake in the
code of `X`. Nothing uses it; it exists so that a property can be shown to notice it.

## 3. Runs

| Run | Instance | What it shows |
|---|---|---|
| `audit_store` | 3 writers, ids to 3, 2 contents; 28 012 states | the log always verifies; nobody's `prev_hash` goes stale; returned entries are there; any edit, re-hashed edit or removal before the end is reported at the right row (`TamperingIsReported`); `AuditStore` implements `AuditLog`; nobody waits for the lock for ever |
| `audit_jsonb` (violation) | 1 writer, all numbers | a float of 1e16 in the arguments makes an untouched row look tampered with |
| `hitl` | 1 ticket, 2 reviewers, timeout 2, grace 1, clock to 4; 152 239 states | the decision acted on is by the reviewer it names; pending tickets are listed, whatever clean-up does; a timeout means no decision was written more than a poll before the deadline, and late decisions are unread (`GraceIsEnough`); nothing is reopened; every wait ends |
| `hitl_denied` (violation) | 1 ticket, 2 reviewers | a denial the CLI has confirmed is overwritten and the call forwarded |
| `gateway` | 2 calls, 1 reviewer, clock to 1; 980 581 states up to symmetry | row shapes, recorded answers and announcements, under crashes and failing stores |
| `gateway_race` | 1 call, 2 reviewers, clock to 2; 82 549 states | forwarded only under INTENT or an approval; the reviewer in the log made that decision; the refinement of `GovernedCalls`; every request is answered |
| `policy_engine` | all packs of up to 2 of 14 policies in every order, and two overlapping rate limits; 2 subjects, 2 tools, 5 calls, clock to 3; the first call's answer one of 4; 110 986 states up to symmetry | the strictest policy that applies decides; a burst stays below twice the limit; rate denials are earned; no answer reaches the agent unredacted, untagged or after a policy that failed |
| `control_plane` | 1 agent in 2 sessions, 3 rows in one unit of time, 2 failures; 430 287 states | routing; bursts become incidents, once and for a reason; risk scores lie between what the log showed and shows; every event is dealt with although runs fail |
| `control_anomaly` | 1 session, 4 rows, clock to 1; 3.3 million states | a high-severity flag becomes a high-severity incident whichever rule promotes it; risk scores again, with rows that leave the window of the call rate |
| `control_history` (violation) | 1 session, 4 rows | one earlier call is enough for a high-severity rate spike |
| `transaction_graph` | every sample of 3 accounts of every set of up to 5 of 8 transactions between 4 accounts, 1 job stopped; all arguments to 3, 2 hops; 597 261 states | no sample loses a laundering transaction, and whatever draws the two directories stem from, an alert's account can be looked up; the walk finds the accounts in reach, each once and at its distance; the tools agree about an account, day by day; `truncated` is told exactly and the edges with the largest sums are kept; a structuring flag has a witness and survives a wider window |
| `investigation` | 1 investigation, 2 clients of another agent, 2 lists, 1 fault; 562 574 states | no screened tool before an answered sanctions check of the same agent; no disposition without an approval; no structuring signal told that is not recorded; the run's own account of itself agrees with log and servers; `check_entity` gives the best match of the type and tells whenever the name asked for is on the list, `check_alias` lists every entry behind the names it gives; the run ends |

### Why the bounds are enough

* *Audit:* the chain is local (a row and the one before it), so three rows have a first, a middle
  and a last; three writers have one inside and two waiting, which is what starvation needs. The
  proofs remove the bounds for safety.
* *Tickets:* a ticket's life is creation, deadline (+2), expiry (+3) and one unit beyond, hence a
  clock to 4. An overwriting race needs two reviewers; a third adds no new order of two round
  trips on one hash. Tickets share only the pending set, which is changed
  one id at a time; two at once are in `gateway`.
* *Gateway:* requests share the log, the event queue, the clock and the process that may stop; two
  are enough for each of them to see another's step. Reviewers' races are in `gateway_race`, and
  so is the refinement, which those races put most at risk; it is proved for any number of calls.
* *Policies:* `evaluate` decides by the first check that fires and each check asks whether some
  policy exists, so what pairs show holds for more; the rate limits meet a window boundary
  (window 2, clock 0 to 3) with the most calls a stretch can hold (1 + 2 for limit 2). No policy
  names a subject, so the subjects are a symmetry set.
* *Control plane:* three denials are the threshold, over two sessions of one agent to tell the
  session's counts from the agent's; a fourth row gives the spike over a history. Two failures or
  restarts are placed at any steps. Time is left to `control_anomaly`: the fifteen minutes of the
  denial rules are longer than any run, so only the call rate and the spike can tell times apart.
* *Transaction graph:* four accounts have a shortest path longer than the two hops of the limit,
  and a shortcut; the eight transactions hold two that are equal, a transfer of an account to
  itself, amounts on either side of each threshold and both ends of a day. Two laundering transactions
  without a common account leave room in the sample, fill it or exceed it; one stopped job is enough
  for directories of two draws.
* *Answers:* `evaluate_response` keeps nothing from one call to the next, so only the first call's
  answer is looked at; pairs of policies have two redactions, two functions, or one of each.
* *Investigations:* the sanctions rule needs a check and a screened call of one agent in flight
  together, hence the two other clients; the investigation itself makes its calls one by one. One
  fault (a refusal, a write or Redis failing, a restart) is placed at any step; both timeouts are
  free. The lists have two entries with the same name and type and one with that name and another type,
  an alias with two entries, a number that comes twice, an alias of nobody and a short line.

### Fairness

* `AuditStore`: strong fairness of getting the lock, because Postgres queues its waiters; weak
  fairness of a writer that holds it, which nothing blocks.
* `HitlTickets`, `GatewayCalls`: the clock advances, and asyncio runs a coroutine that can run.
  `ForwardError` is among the fair steps because httpx has a timeout. Nothing is assumed of
  reviewers or of the upstream server.
* `ControlPlane`: the background task takes its next step. Failures and restarts are not fair.
* `Investigation`: the gateway's and the investigator's coroutines of the investigation run; a hold
  and a forwarded call have deadlines, which are among the gateway's steps. Nothing is assumed of
  other clients, reviewers, servers or the language model (whose client gives up).

Type invariants that have no entry of their own are a conjunct of another: of `RowShapes` (and with it
the tickets'), `RoutingInvariant`, `BurstBound`, `StoreIsSound` and `DispositionIsApproved`.

## 4. Where the code and its documentation part ways

Checked by a violation run:

1. `audit_jsonb`: `write_entry` hashes a value before Postgres normalises it; a float of 1e16 or
   more comes back as an int, so `verify-audit` reports "content was modified after writing" of a
   row nobody touched.
2. `hitl_denied`: `decide_ticket` reads and writes in two round trips without `WATCH`. Two reviewers
   who both read PENDING both write; the first may have been told that the call "will never be
   forwarded", and it is. (For the same reason its docstring's "doesn't overwrite the record of who
   actually decided it first" does not hold of concurrent decisions.)
3. `control_history`: `prior_window_call_counts` always has eleven entries, so the guard that skips
   the z-score on a short history never applies.

Met while modelling, and written into the properties the way the code has it:

* `OpeningsArePublished` excepts requests that end in an internal error: when `create_ticket` raises,
  the HELD row is in the log and no event is published for it.
* `GraceIsEnough`: a decision after the ticket's expiry makes a hash without a TTL. The CLI
  also confirms approvals in the grace period, of calls that were already refused as timed out.
* `AnswerIsRecorded` says of a COMPLETED row only that the call had been sent: on the streamed path
  (`ForwardStreamed`) it is written when the headers are in, with any status code.
* `StrictestWins`: a `cost_cap` is not looked at when an allowlist or a review gate has decided.
* `IncidentIsGrounded`: denials are counted from 15 minutes before the event with no upper end.
* `DenialBurstIsEscalated` is about announced denials: a reviewer's denial is a row that is counted
  but not announced, so a burst it completes is not escalated until the next event.
* `ScreeningPrecedesGraph` asks for an answer to a sanctions check, not for a good one: a
  `check_entity` that ends with `isError`, or with a JSON-RPC error of the server, is COMPLETED all the
  same and satisfies `aml-sanctions-required`, whose docstring has "some sanctions check happened first".
* `ResponseIsGoverned` is about results: a JSON-RPC error of the server is passed on unredacted, and
  numbers and the keys of objects are not redacted anywhere. The injection scan is given
  `structuredContent` only, although its comment says "the response's raw text content".
* `ScreeningIsFaithful`: of several entries with one name and type, `check_entity` gives the first only
  (`best_match`, `names[matched_name][0]`, loader.py:157), although the comment on `names_by_type`, which
  nothing else reads, says of such entries that "returning all of them beats silently dropping one"
  (loader.py:101-102). So a hit says that the name is on the list, not whose entry it is; the
  investigation then looks up the record of that one entry. Only `check_alias` returns all of them.
* `ReportIsHonest` is one-sided: a write that the investigation reports as failed may have been carried
  out, when the gateway stopped waiting or could not write the closing row.
* `GiveUp`: the investigator's HTTP client has httpx's default timeout of seconds, while
  `aml-write-hitl-gate` holds a write for up to an hour; `state.py` expects that the call "simply takes
  longer to return". The gateway goes on with the call, and a later approval still carries it out.
* `StoreIsSound` excepts data without a laundering transaction: the job then divides by the number of
  sampled transactions, which may be none.

## 5. Proofs

A theorem holds for every value of the constants that its module's assumption allows: any number of
writers, tickets, reviewers, requests, rows, clients, runs and failures, and any length of time. The
bounds that the guards name (`MaxTime`, `MaxRows`, `MaxFaults` and so on) are constants as well, so they
restrict TLC only. Each module has one inductive invariant `Inv`, three facts about it (`Init => Inv`,
`Inv /\ [Next]_vars => Inv'`, one lemma per action, and what follows from `Inv`), and the theorems. TLC
has checked every `Inv` on the module's instance as well.

### Audit log (`AuditStoreProofs`)

`StoreAssumption`: contents are JSON numbers, `NoWriter` is no writer, the sequence's end is a natural
number.

| Theorem | States |
|---|---|
| `TypeCorrect` | `Spec => []TypeOK` |
| `HeadStaysFresh` | `Spec => []HeadIsFresh` |
| `AckedEntriesAreDurable` | `Spec => []AckedIsDurable` |
| `ChainIntact` | `StableBodies` implies `Spec => []HonestLogVerifies` |
| `StoreImplementsLog` | `Spec => ImplementsAuditLog` |
| `TamperingShows` | `StableBodies` implies `Spec => []TamperingIsReported` |

`Inv == TypeOK /\ LockInv /\ SequenceInv /\ LastInv /\ HeadInv /\ AckedIsDurable`. `HeadInv`,
`HeadIsFresh` without the types, is not inductive alone: that a writer's `prev` survives another writer's commit needs `LockInv`
(only one is inside, and it is the one with the lock), and that its id comes after every row needs
`SequenceInv` (ids in the table have been drawn, and an uncommitted row has the latest). `LastInv`
gives `LastHash` its `CHOOSE`: initial parts of the table have a last row. `ChainIntact` then takes
one more induction over steps: a commit adds a row that fits the head (`CommitKeepsChain`, from the
freshness of the head) and leaves the head of every initial part alone (`LastHashKept`).
`StableBodies` is what `audit_jsonb` shows to be necessary. The refinement follows from the same
facts: `CommitRow` is `AppendEntry`, and every other step leaves the table alone.

`TamperingShows` needs `ChainInv` besides: the hashes of the log are distinct and none is the genesis
hash, and every row but the last has a next one. Then a row that is changed no longer has its own hash;
one that is changed and re-hashed no longer has the hash its successor refers to; and one that is removed
leaves its successor referring to a hash that is not the one before it.

### Tickets (`HitlProofs`)

`HitlAssumption`: the markers `NoReviewer` and `NoTicket` are none of the others; timeout and grace period
are at least one unit. `policies/schema.py` asks for `timeout_seconds` above 0, and the grace period is 300
seconds. `GraceIsEnough` needs a timeout above 0: with a timeout of 0 and a grace of one unit the hash may
expire before the waiter's first poll, and a reviewer who read `PENDING` before that then makes it anew,
without a TTL, under a waiter that still reads it.

| Theorem | States |
|---|---|
| `TypeCorrect` | `Spec => []TypeOK` |
| `OutcomesAreAttributed` | `Spec => []OutcomeIsAttributed` |
| `OpenTicketsAreListed` | `Spec => []PendingIsListed` |
| `GraceSuffices` | `Spec => []GraceIsEnough` |
| `NeverReopened` | `Spec => NoReopening` |

`KnownInv` (what is anywhere was created), `ReviewerInv` (a ticket that a reviewer's process is about to
drop from the pending set is not open any more, although it read it some round trips ago), `DecisionInv`
(a hash holds a decision exactly if one was written) and, for each ticket, `WaiterInv`: the waiter has
polled within the last unit and not after the deadline but once, so the hash has not expired under it.

### Gateway (`GatewayProofs`)

`GatewayAssumption` is `HitlAssumption` for the requests as tickets.

| Theorem | States |
|---|---|
| `RowsHaveTheirShape` | `Spec => []RowShapes` |
| `OnlyAuthorisedForwards` | `Spec => []ForwardedIsAuthorised` |
| `AnswersAreRecorded` | `Spec => []AnswerIsRecorded` |
| `ReviewsAreAttributed` | `Spec => []ReviewIsAttributed` |
| `OpeningsAreAnnounced` | `Spec => []OpeningsArePublished` |
| `GatewayGoverns` | `Spec => ImplementsGovernedCalls` |

None of the properties is inductive, because they speak of rows and of the wire and not of where a
coroutine is. `StageInv` says which rows, events and requests a coroutine at each `await` has left behind;
`RefusalInv` that a call refused in the log is allowed nowhere; `TicketInv` what the ticket queue has to
bring. A step of one call keeps the others' part (`CallFrame` and the lemmas on appended rows), since
nobody writes rows in another's name. For the refinement each action is shown to be the abstract call's
decision, its execution, or a stutter.

### Policies (`PolicyProofs`)

`PackAssumption`: the packs are ones that load (`load_policy_pack`: limits and windows above 0, no name
twice). `ReplyAssumption`: answers have the form described in the module.

| Theorem | States |
|---|---|
| `StrictestAlwaysWins` | `Spec => []StrictestWins` |
| `BurstsAreBounded` | `Spec => []BurstBound` |
| `DenialsAreEarned` | `Spec => []RateDenialIsEarned` |
| `ResponsesAreGoverned` | `Spec => []ResponseIsGoverned` |

`Inv == TypeOK /\ CacheInv /\ RateInv /\ LastInv /\ StrictestWins /\ RateDenialIsEarned /\
ResponseIsGoverned`, and `RateInv` is `KeyInv` of each policy and subject. The bound on bursts is not
inductive. `WindowInv` is what it needs: the call that opened the window was let through, the window's count
is the number of calls let through since (or the limit, when more came), and no stretch that reaches from
before the window to its opening, and is no longer than a window, holds as many as the limit. A call in the
window adds to what `WindowInv` counts (`InWindow`); one over the limit adds nothing to the calls let through
(`OverLimit`); and one that comes after the window's end opens another (`OpenWindow`), where the old window's
calls take the place of "the stretch before". `Within`, the number of calls in a stretch, splits where two
stretches meet (`WithinSplit`), which gives fewer than the limit before the opening and at most the limit
after it. Denials are earned because a window over its limit holds the limit of calls let through.

`RateLoop` stops at the first limit that is exceeded, so a policy's window is counted up or left alone
depending on the policies before it; `KeyEvaluated` shows that either keeps `KeyInv`. `Decision` says which
check of `evaluate` fires first, and `StrictestStep` that the verdict is then the strictest demand. On the
response side the redactions of several policies come one after the other: `Redacted` gives what is left.

### Control plane (`ControlProofs`)

| Theorem | States |
|---|---|
| `RoutingHolds` | `Spec => []RoutingInvariant` |
| `DenialBurstsAreEscalated` | `Spec => []DenialBurstIsEscalated` |
| `HighFlagsAreEscalated` | `Spec => []HighFlagIsEscalated` |
| `IncidentsAreGrounded` | `Spec => []IncidentIsGrounded` |
| `RiskScoresAreSound` | `Spec => []RiskIsSound` |

An event is in one place, and its `fate` says where (`LogInv`, `QueueInv`, `RunInv`); hence it runs once and
has at most one incident. `RunInv` also says what brought the run to the agent it is at. Counts that are
read from a log which grows meanwhile lie between those of the log up to the event's row and those of the
log now (`Between`): sets of rows only grow, cardinalities with them, and the score is monotone in its three
counts (`ScoreMono`). The same lemmas give that the denials A4 counts are no fewer than those before the
event.

### Sampled data and the graph's tools (`GraphProofs`, `SumProofs`)

`SampleAssumption` and `GraphAssumption`: patterns are of laundering transactions; a source has finitely many
rows, between finitely many accounts on finitely many days, with amounts and times that are natural numbers;
a day has a length and at least one hop is allowed.

| Theorem | States |
|---|---|
| `StoreStaysSound` | `Spec => []StoreIsSound` |
| `HopsAreDistances` | `Spec => []HopIsDistance` |
| `ToolsAlwaysAgree` | `Spec => []ToolsAgree` |
| `TruncationIsAlwaysTold` | `Spec => []TruncationIsTold` |
| `FlagsAreWitnessed` | `Spec => []FlagIsWitnessed` |

Each directory is good in itself, whichever draw it stems
from: the transactions hold every laundering one, the accounts every end of one that `accounts.csv` has
(`SampleInv`). That is why two directories of different draws are good together, and why it does not
matter where the job is stopped.

The other theorems are about answers. `AnswerInv` says that an answer on its way is right, and it stays so
because the rows do not change while the server is up (`WalkKept`, `CheckKept`, `TouchingKept`). What is left
is that each tool computes it:

* *neighbors*: the walk is a recursion over rounds. `After` is its value in closed form: after `h` rounds,
  `Upto(a, h, m)` is visited, `At(a, h, m)`, the accounts at distance `h`, is the frontier, and a link was
  found for every account at a distance from 1 to `h`. `AfterStep` shows that one round leads from one to the
  next; the case to look at is a row with both ends in the frontier, of which the query names only one, but
  then both have been visited (`AtStep`).
* *subgraph*: the edges kept are the largest, so an edge that is missing has a total no larger than one that
  is there (`SubgraphFacts`), and a total is the sum over the transactions from the one account to the other
  (`EdgeAmount`). The counts of all edges add up to the
  transactions (`EdgesCount`).
* *get_account*, *query_transactions*, *neighbors* together: the days cut time without gap or overlap (`DayOf`),
  so the days' counts add up to the account's transactions (`SumOfDays`); likewise the neighbours' counts, but
  for the transfers of an account to itself (`DirectNeighbors`).
* *structuring_check*: the deposits within the window are the witness; a wider window holds them all, and a sum
  of more amounts is no smaller (`WiderWindow`).

The prover has no induction over data, so a recursion is dealt with by its solutions: a formula that satisfies
the recursion is its value, because two solutions could not differ at a least place (`WalkUnique`,
`SumUnique`; the least place exists because `<` on the natural numbers is well-founded, `Least`). For sums
over sets the solutions are cardinalities: of the members of some classes (`SumOfClasses`), or of a set with
as many elements for each summand as it says (`TotalIsSum`).

### Investigations (`InvestigationProofs`)

`InvestigationAssumption`: investigations are no other clients, and a write that another client asks for
has one of the three dispositions (the server refuses any other). `ScoreAssumption`, for the last theorem:
lists are sequences, scores are numbers, and a name on a list scores at least the threshold when it is asked
for itself. rapidfuzz's `WRatio` says 100 of two equal names with a letter or a digit in them (and 0 of two
that have none); the threshold is 70 unless it is configured otherwise, and has to be at most 100.

| Theorem | States |
|---|---|
| `ScreeningComesFirst` | `Spec => []ScreeningPrecedesGraph` |
| `WritesAreApproved` | `Spec => []DispositionIsApproved` |
| `AlertsAreRecorded` | `Spec => []AlertIsRecorded` |
| `ReportsAreHonest` | `Spec => []ReportIsHonest` |
| `ScreeningsAreFaithful` | `Spec => []ScreeningIsFaithful` |

The rules of the pack look at the log when a call arrives; the properties are about what the servers did
later. `LogInv` ties the two: a COMPLETED row of a check stands for an answer in `served`, which is why a
check that is still on its way does not count. `RequestInv` and `AnswerInv` say of each call what has been
asked of it before it was forwarded and what its answer stands for, `MayBeOnWire` what every request in a
server's hands has behind it, `RunInv` that a run makes one call after the other, with the write last, and
`WriteInv` that a write is never both denied and with the server. `Fits` needs the most care: a run's
assessment must still be the one that the write was asked with when the server carries it out, after
time-outs and restarts, and it is because a run that has asked for its write does not think again
(`Keeps`). What the histories say only grows (`Grows`), so all but the acting client's part of `Inv` is kept
by lemmas of its own (`OthersStay`).

Looking for this invariant showed that `ReportIsHonest` had to ask who made the write: another client may
send the run's agent id, and its write, carried out, is not the run's.

`ScreeningsAreFaithful` has an invariant of its own, `ScreenInv`: the index is one of a published list, and
every look-up on its way is for a name whose scores are known. The rest is about the look-ups. An index has
finitely many names (`NamesAreFinite`), so whatever `extract` leaves out there is a name among those it
returns that scores at least as high (`BestAreFound`), and a single one that it returns is as good as any
(`OneIsBest`). Hence `check_entity` gives an entry of the type with the best name, the first of those that
share it (`FirstIsFirst`, `BestMatch`), which is a match if the name asked for is there; and a match of
`check_entity` leaves `check_alias` with one that is at least as good (`AliasMatches`), although it looks at
a few names only. The theorem does not say that `check_entity` names every such entry: it does not (section 4).

### What is only model-checked

* Liveness (`WriteEntryReturns`, `WaitEnds`, `EveryCallEnds`, `EventsAreHandled`, `InvestigationEnds`):
  fairness and `ENABLED` are out of the prover's reach.

Every invariant and action property of the passing runs, and both refinements, are theorems. The
violation runs are counterexamples and need no proof.

## 6. Not modelled

* The **telemetry jobs** (`generate_synthetic_telemetry`, `load_synthetic_telemetry`,
  `aggregate_telemetry` and their tables) make up figures for dashboards; each replaces a table as a
  whole within one transaction, and nothing in the system reads them.
* **Metrics**, **tracing** and **configuration** are read by no decision.
* Which characters a redaction pattern or an injection phrase matches, and rapidfuzz's scores: string
  functions whose outcome the models take as given.
* The TTL of a session's `force_hitl` flag (24 hours, longer than any run), negative values of `max_edges`
  and `window_days`, and half-written files inside one of the job's directories: a directory whose write was
  stopped counts as absent.
* The MCP handshake (`initialize`), the long-lived GET stream, header handling, message syntax, prompts
  and wording.
* The demo command of the CLI, which starts the other programs.

## 7. State of the work

The modules and the proofs of their safety properties are done. Liveness stays with TLC. When the code
changes, `map` in `PROJECT.json` tells which definitions to look at; the lemma about an action fails first.
