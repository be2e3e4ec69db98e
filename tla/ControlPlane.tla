---------------------------- MODULE ControlPlane ----------------------------
(***************************************************************************)
(* The control plane (control_plane/): the event bus, the one background   *)
(* task that consumes it (runner.py), and the graph of agents each event   *)
(* runs through (graph.py, agents/).  The gateway goes on writing audit    *)
(* rows meanwhile, which the agents' queries see.                          *)
(*                                                                         *)
(*   supervisor   Take             HOLD, PASS -> A1, DENY -> A4            *)
(*   A1  policy_evaluator   ReadCalls .. WriteSnapshot   -> A2, A3 or end  *)
(*   A2  anomaly_detector   Detect, PersistFlag          -> A4 or end      *)
(*   A3  evidence_composer  Compose                      -> end            *)
(*   A4  incident_escalator Escalate, PersistIncident    -> end            *)
(*                                                                         *)
(* The unit of time is five minutes, and what happens within a unit        *)
(* happens in a burst: within one minute, in the order of the rows.  The   *)
(* calls to the language model change nothing but wording: they are the    *)
(* gap between Detect and PersistFlag, and Escalate and PersistIncident.   *)
(* Postgres and Redis are external and may fail at any step.               *)
(***************************************************************************)
EXTENDS Integers, Sequences, FiniteSets, FiniteSetsExt

CONSTANTS
  Clients,   \* an agent in one of its MCP sessions: [agent, session]
  MaxRows,   \* bound: audit rows written
  MaxTime,   \* bound: the clock stops here
  MaxFailures  \* bound: events whose run fails or is cut off

ASSUME ControlPlaneAssumption == MaxRows \in Nat /\ MaxTime \in Nat /\ MaxFailures \in Nat

VARIABLES
  now,
  audit,        \* the audit log: rows in the order of their ids
  unpublished,  \* rows whose handler has yet to publish its event
  queue,        \* EventBus._queue
  run,          \* the background task: the event it is at, and the graph's state
  risk,         \* interpose:session:{session_id}.risk_score, in hundredths; -1: none
  snapshots,    \* risk_score_snapshots
  flags,        \* anomaly_flags
  incidents,    \* incidents, in the order of their insertion
  packets,      \* history: rows a HITLPacket has been composed for
  fate          \* history: what has become of the event of each row

vars == <<now, audit, unpublished, queue, run, risk, snapshots, flags, incidents, packets, fate>>

gatewayVars == <<now, audit, unpublished>>
stores      == <<risk, snapshots, flags, incidents, packets>>

Sessions == {c.session : c \in Clients}
Rows     == DOMAIN audit

MINUTE  == 1    \* a minute back is this unit's burst
BUCKET  == 1    \* five minutes
BUCKETS == 12
QUARTER == 3    \* fifteen minutes

RISK_THRESHOLD                           == 50
HIGH_RISK_THRESHOLD                      == 80
ZSCORE_FLAG_THRESHOLD                    == 3
ZSCORE_HIGH_SEVERITY_THRESHOLD           == 5
MIN_WINDOWS_FOR_ZSCORE                   == 3
REPEATED_DENIALS_THRESHOLD               == 3
REPEATED_DENIALS_HIGH_SEVERITY_THRESHOLD == 5

NoAnomaly == [anomaly_type |-> "none", severity |-> "none"]

\* InterposeState of one run; score -1: not enriched.
Idle == [pc |-> "idle", row |-> 0, seen |-> 0, calls |-> 0, held |-> 0, score |-> -1,
         anomaly |-> NoAnomaly, rule |-> "none"]

Init ==
  /\ now = 0
  /\ audit = <<>> /\ unpublished = {} /\ queue = <<>>
  /\ run = Idle
  /\ risk = [s \in Sessions |-> -1]
  /\ snapshots = {} /\ flags = {} /\ incidents = <<>> /\ packets = {}
  /\ fate = [i \in 1..MaxRows |-> "none"]

-----------------------------------------------------------------------------
(***************************************************************************)
(* The gateway, as far as the control plane sees it.                       *)
(***************************************************************************)

Row(c, status, parent) == [client |-> c, status |-> status, at |-> now, parent |-> parent]

\* A call is decided: its DENIED, HELD or INTENT row is committed.
WriteOpening(c, status) ==
  /\ Len(audit) < MaxRows
  /\ audit' = Append(audit, Row(c, status, 0))
  /\ unpublished' = unpublished \cup {Len(audit) + 1}
  /\ UNCHANGED <<now, queue, run, stores, fate>>

\* _publish_decision_event and EventBus.publish.  The event's timestamp is taken
\* here; rows written up to now, and no others, are older than it.
Publish(i) ==
  /\ i \in unpublished
  /\ unpublished' = unpublished \ {i}
  /\ queue' = Append(queue, [row |-> i, seen |-> Len(audit)])
  /\ fate' = [fate EXCEPT ![i] = "queued"]
  /\ UNCHANGED <<now, audit, run, stores>>

\* The row that closes a call is not announced: COMPLETED (or UPSTREAM_ERROR,
\* which no agent tells from it), or DENIED after a hold.
WriteClosing(i, status) ==
  /\ Len(audit) < MaxRows
  /\ i \in Rows \ unpublished
  /\ \/ status = "COMPLETED" /\ audit[i].status \in {"INTENT", "HELD"}
     \/ status = "DENIED"    /\ audit[i].status = "HELD"
  /\ \A j \in Rows : audit[j].parent # i
  /\ audit' = Append(audit, Row(audit[i].client, status, i))
  /\ UNCHANGED <<now, unpublished, queue, run, stores, fate>>

\* A row is published in the unit in which it is written.
Tick ==
  /\ now < MaxTime
  /\ unpublished = {}
  /\ now' = now + 1
  /\ UNCHANGED <<audit, unpublished, queue, run, stores, fate>>

MayFail == Cardinality({i \in 1..MaxRows : fate[i] \in {"failed", "lost"}}) < MaxFailures

\* The process stops and is started again: what was in memory is gone.
Restart ==
  /\ MayFail
  /\ run.pc # "idle" \/ queue # <<>> \/ unpublished # {}
  /\ unpublished' = {} /\ queue' = <<>> /\ run' = Idle
  /\ fate' = [i \in 1..MaxRows |-> IF fate[i] \in {"queued", "running"} THEN "lost" ELSE fate[i]]
  /\ UNCHANGED <<now, audit, stores>>

-----------------------------------------------------------------------------
(***************************************************************************)
(* Queries and scores                                                      *)
(***************************************************************************)

\* The event's timestamp is that of its row; a row is in the window of w units
\* before it, or later.
Since(i, w) == {j \in Rows : audit[j].at > audit[i].at - w}

InSession(i) == {j \in Rows : audit[j].client.session = audit[i].client.session}
OfAgent(i)   == {j \in Rows : audit[j].client.agent = audit[i].client.agent}
With(status) == {j \in Rows : audit[j].status = status}

\* A mutant of denial_count: the window of calls_per_minute is applied to it too.
denial_count_windowed(i) == Cardinality(InSession(i) \cap With("DENIED") \cap Since(i, MINUTE))

\* A mutant of denial_count: counted per agent, not per session.
denial_count_agent(i) == Cardinality(OfAgent(i) \cap With("DENIED"))

calls_per_minute(i)  == Cardinality(InSession(i) \cap Since(i, MINUTE))
hitl_ticket_count(i) == Cardinality(InSession(i) \cap With("HELD"))
denial_count(i)      == Cardinality(InSession(i) \cap With("DENIED"))

AtMost(n, bound) == IF n < bound THEN n ELSE bound

compute_session_risk_score(calls, denials, held) ==
  AtMost(5 * calls + 30 * AtMost(denials, 3) + 20 * AtMost(held, 3), 100)

\* A mutant of denials_last_15_min: every row counts, not only denials.
denials_last_15_min_any(i) == Cardinality(OfAgent(i) \cap Since(i, QUARTER))

\* A mutant of denials_last_15_min: counted per session, not per agent.
denials_last_15_min_session(i) == Cardinality(InSession(i) \cap With("DENIED") \cap Since(i, QUARTER))

\* Both agents count from 15 minutes before the event to the time of the query.
denials_last_15_min(i) == Cardinality(OfAgent(i) \cap With("DENIED") \cap Since(i, QUARTER))

\* The b-th five-minute window before the event, of rows older than the event.
bucket_count(i, seen, b) ==
  Cardinality({j \in OfAgent(i) \cap (1..seen) :
                 /\ audit[j].at >  audit[i].at - BUCKET * (b + 1)
                 /\ audit[j].at <= audit[i].at - BUCKET * b})

(***************************************************************************)
(* compute_rate_zscore against a threshold t, without division: with n     *)
(* prior windows that sum to S and whose squares sum to Q, |z| > t is      *)
(* (n-1)(n c - S)^2 > t^2 n (n Q - S^2).  A history that does not vary has *)
(* no z-score.  The history always has BUCKETS - 1 windows, empty or not,  *)
(* so MIN_WINDOWS_FOR_ZSCORE never turns it away.                          *)
(***************************************************************************)
Prior == 1..(BUCKETS - 1)
SumOver(f(_)) == MapThenSumSet(f, Prior)

zscore(i, seen) ==
  LET n == Cardinality(Prior)
      s == SumOver(LAMBDA b : bucket_count(i, seen, b))
      q == SumOver(LAMBDA b : bucket_count(i, seen, b) * bucket_count(i, seen, b))
      d == n * bucket_count(i, seen, 0) - s
  IN [exists |-> n >= MIN_WINDOWS_FOR_ZSCORE /\ n * q # s * s,
      square |-> (n - 1) * d * d,          \* z^2 is square / unit
      unit   |-> n * (n * q - s * s)]

detect_anomaly(i, seen) ==
  LET z       == zscore(i, seen)
      denials == denials_last_15_min(i)
  IN IF z.exists /\ z.square > ZSCORE_FLAG_THRESHOLD * ZSCORE_FLAG_THRESHOLD * z.unit
     THEN [anomaly_type |-> "rate_spike",
           severity |-> IF z.square >= ZSCORE_HIGH_SEVERITY_THRESHOLD
                                         * ZSCORE_HIGH_SEVERITY_THRESHOLD * z.unit
                        THEN "high" ELSE "med"]
     ELSE IF denials >= REPEATED_DENIALS_THRESHOLD
     THEN [anomaly_type |-> "repeated_denials",
           severity |-> IF denials >= REPEATED_DENIALS_HIGH_SEVERITY_THRESHOLD
                        THEN "high" ELSE "med"]
     ELSE NoAnomaly

\* The third rule is out of reach: no HOLD comes to A4 (see RoutingInvariant).
should_promote(r) ==
  IF denials_last_15_min(r.row) >= REPEATED_DENIALS_THRESHOLD THEN "repeated_denials"
  ELSE IF r.anomaly.severity = "high" THEN "high_severity_anomaly"
  ELSE IF audit[r.row].status = "HELD" /\ r.score > HIGH_RISK_THRESHOLD
  THEN "high_risk_pending_hitl"
  ELSE "none"

\* A mutant of compute_incident_severity: the rule alone decides.
compute_incident_severity_by_rule(r) ==
  IF r.rule \in {"high_severity_anomaly", "high_risk_pending_hitl"} THEN "high" ELSE "med"

compute_incident_severity(r) ==
  IF \/ r.rule \in {"high_severity_anomaly", "high_risk_pending_hitl"}
     \/ r.anomaly.severity = "high"
  THEN "high" ELSE "med"

-----------------------------------------------------------------------------
(***************************************************************************)
(* The background task: run_forever and the graph                          *)
(***************************************************************************)

GoTo(pc)  == run' = [run EXCEPT !.pc = pc]
End(what) == run' = Idle /\ fate' = [fate EXCEPT ![run.row] = what]

\* A mutant of route_after_supervisor: a HOLD goes straight to A3.
route_after_supervisor_hold(i) ==
  IF audit[i].status = "DENIED" THEN "a4" ELSE IF audit[i].status = "HELD" THEN "a3" ELSE "calls"

route_after_supervisor(i) == IF audit[i].status = "DENIED" THEN "a4" ELSE "calls"

\* A mutant of Take: the event is read but not removed.
Take_peeks ==
  /\ run.pc = "idle"
  /\ queue # <<>>
  /\ LET e == Head(queue) IN
     /\ run' = [Idle EXCEPT !.pc = route_after_supervisor(e.row), !.row = e.row, !.seen = e.seen]
     /\ fate' = [fate EXCEPT ![e.row] = "running"]
  /\ UNCHANGED <<gatewayVars, queue, stores>>

\* Queue.get, and graph.ainvoke up to the first agent.
Take ==
  /\ run.pc = "idle"
  /\ queue # <<>>
  /\ LET e == Head(queue) IN
     /\ run' = [Idle EXCEPT !.pc = route_after_supervisor(e.row), !.row = e.row, !.seen = e.seen]
     /\ fate' = [fate EXCEPT ![e.row] = "running"]
  /\ queue' = Tail(queue)
  /\ UNCHANGED <<gatewayVars, stores>>

\* A1.  Each query is a statement of its own and sees what is committed by then.
ReadCalls ==
  /\ run.pc = "calls"
  /\ run' = [run EXCEPT !.pc = "held", !.calls = calls_per_minute(run.row)]
  /\ UNCHANGED <<gatewayVars, queue, stores, fate>>

ReadHeld ==
  /\ run.pc = "held"
  /\ run' = [run EXCEPT !.pc = "denied", !.held = hitl_ticket_count(run.row)]
  /\ UNCHANGED <<gatewayVars, queue, stores, fate>>

ReadDenied ==
  /\ run.pc = "denied"
  /\ run' = [run EXCEPT !.pc = "risk",
               !.score = compute_session_risk_score(run.calls, denial_count(run.row), run.held)]
  /\ UNCHANGED <<gatewayVars, queue, stores, fate>>

WriteRisk ==
  /\ run.pc = "risk"
  /\ risk' = [risk EXCEPT ![audit[run.row].client.session] = run.score]
  /\ GoTo("snapshot")
  /\ UNCHANGED <<gatewayVars, queue, snapshots, flags, incidents, packets, fate>>

AddSnapshot == snapshots' = snapshots \cup {[row |-> run.row, score |-> run.score]}

route_after_policy_evaluator ==
  IF audit[run.row].status = "HELD" THEN "a3"
  ELSE IF run.score > RISK_THRESHOLD THEN "a2" ELSE "end"

WriteSnapshot ==
  /\ run.pc = "snapshot"
  /\ AddSnapshot
  /\ IF route_after_policy_evaluator = "end" THEN End("handled")
     ELSE GoTo(route_after_policy_evaluator) /\ UNCHANGED fate
  /\ UNCHANGED <<gatewayVars, queue, risk, flags, incidents, packets>>

\* A2.  The windows before the event are closed, so their queries are one step.
Detect ==
  /\ run.pc = "a2"
  /\ LET a == detect_anomaly(run.row, run.seen) IN
     IF a = NoAnomaly THEN End("handled")
     ELSE run' = [run EXCEPT !.pc = "flag", !.anomaly = a] /\ UNCHANGED fate
  /\ UNCHANGED <<gatewayVars, queue, stores>>

AddFlag == flags' = flags \cup {[row |-> run.row, seen |-> run.seen, anomaly |-> run.anomaly]}

PersistFlag ==
  /\ run.pc = "flag"
  /\ AddFlag
  /\ IF run.anomaly.severity = "high" THEN GoTo("a4") /\ UNCHANGED fate ELSE End("handled")
  /\ UNCHANGED <<gatewayVars, queue, risk, snapshots, incidents, packets>>

\* A3.  The packet is returned to the graph and goes no further.
Compose ==
  /\ run.pc = "a3"
  /\ packets' = packets \cup {run.row}
  /\ End("handled")
  /\ UNCHANGED <<gatewayVars, queue, risk, snapshots, flags, incidents>>

\* A4
Escalate ==
  /\ run.pc = "a4"
  /\ LET rule == should_promote(run) IN
     IF rule = "none" THEN End("handled")
     ELSE run' = [run EXCEPT !.pc = "incident", !.rule = rule] /\ UNCHANGED fate
  /\ UNCHANGED <<gatewayVars, queue, stores>>

AddIncident ==
  incidents' = Append(incidents, [row |-> run.row, rule |-> run.rule,
                                  severity |-> compute_incident_severity(run)])

PersistIncident ==
  /\ run.pc = "incident"
  /\ AddIncident
  /\ End("handled")
  /\ UNCHANGED <<gatewayVars, queue, risk, snapshots, flags, packets>>

(***************************************************************************)
(* An exception anywhere in the graph is logged and the next event taken.  *)
(* A statement whose reply was lost may have been carried out.             *)
(***************************************************************************)
PerhapsStored ==
  \/ UNCHANGED stores
  \/ run.pc = "risk" /\ risk' = [risk EXCEPT ![audit[run.row].client.session] = run.score]
                     /\ UNCHANGED <<snapshots, flags, incidents, packets>>
  \/ run.pc = "snapshot" /\ AddSnapshot /\ UNCHANGED <<risk, flags, incidents, packets>>
  \/ run.pc = "flag"     /\ AddFlag     /\ UNCHANGED <<risk, snapshots, incidents, packets>>
  \/ run.pc = "incident" /\ AddIncident /\ UNCHANGED <<risk, snapshots, flags, packets>>

\* A mutant of Fail: the event is put back for another try.
Fail_retries ==
  /\ MayFail
  /\ run.pc # "idle"
  /\ PerhapsStored
  /\ queue' = Append(queue, [row |-> run.row, seen |-> run.seen])
  /\ End("queued")
  /\ UNCHANGED gatewayVars

\* A mutant of Fail: the exception ends the task.
Fail_ends_task ==
  /\ MayFail
  /\ run.pc # "idle"
  /\ PerhapsStored
  /\ GoTo("dead")
  /\ fate' = [fate EXCEPT ![run.row] = "failed"]
  /\ UNCHANGED <<gatewayVars, queue>>

Fail ==
  /\ MayFail
  /\ run.pc # "idle"
  /\ PerhapsStored
  /\ End("failed")
  /\ UNCHANGED <<gatewayVars, queue>>

Step ==
  \/ Take \/ ReadCalls \/ ReadHeld \/ ReadDenied \/ WriteRisk \/ WriteSnapshot
  \/ Detect \/ PersistFlag \/ Compose \/ Escalate \/ PersistIncident

\* The bounds are reached and every event has been dealt with.
Finished ==
  /\ Len(audit) = MaxRows /\ now = MaxTime
  /\ unpublished = {} /\ queue = <<>> /\ run.pc = "idle"
  /\ UNCHANGED vars

Next ==
  \/ \E c \in Clients, status \in {"INTENT", "HELD", "DENIED"} : WriteOpening(c, status)
  \/ \E i \in Rows : Publish(i) \/ (\E status \in {"COMPLETED", "DENIED"} : WriteClosing(i, status))
  \/ Tick \/ Restart
  \/ Step \/ Fail
  \/ Finished

Spec == Init /\ [][Next]_vars

\* The event loop runs the background task whenever it can run.
FairSpec == Spec /\ WF_vars(Step)

-----------------------------------------------------------------------------
(***************************************************************************)
(* Properties                                                              *)
(***************************************************************************)

Severities   == {"low", "med", "high"}
IsClosing(i) == audit[i].parent # 0

AuditRow == [client : Clients, at : 0..MaxTime, parent : 0..MaxRows,
             status : {"INTENT", "HELD", "DENIED", "COMPLETED"}]
Event    == [row : Nat, seen : Nat]
Anomaly  == [anomaly_type : {"none", "rate_spike", "repeated_denials"},
             severity : {"none"} \cup Severities]
RunState == [pc : {"idle", "calls", "held", "denied", "risk", "snapshot", "a2", "flag", "a3",
                   "a4", "incident"},
             row : Nat, seen : Nat, calls : Nat, held : Nat, score : -1..100, anomaly : Anomaly,
             rule : {"none", "repeated_denials", "high_severity_anomaly", "high_risk_pending_hitl"}]
Incident == [row : Nat, severity : Severities,
             rule : {"repeated_denials", "high_severity_anomaly", "high_risk_pending_hitl"}]

\* Every variable keeps its type; the queue holds events of rows that are there,
\* none of which closes a call.
TypeOK ==
  /\ now \in 0..MaxTime
  /\ audit \in Seq(AuditRow)
  /\ unpublished \subseteq Rows
  /\ queue \in Seq(Event)
  /\ \A k \in DOMAIN queue : queue[k].row \in Rows /\ ~ IsClosing(queue[k].row)
  /\ run \in RunState /\ run.row \in 0..Len(audit)
  /\ risk \in [Sessions -> -1..100]
  /\ snapshots \subseteq [row : Rows, score : 0..100]
  /\ flags \subseteq [row : Rows, seen : Nat, anomaly : Anomaly]
  /\ \A f \in flags : f.anomaly.severity \in Severities
  /\ incidents \in Seq(Incident)
  /\ packets \subseteq Rows
  /\ fate \in [1..MaxRows -> {"none", "queued", "running", "handled", "failed", "lost"}]

\* Every variable keeps its type, and A3 is reached only by a held call that A1 has
\* enriched, and with no anomaly (its docstring: "routing invariant violated"
\* otherwise); A4 only by a denied call or by a passed one with a high-severity
\* anomaly, so that should_promote's rule on pending holds is indeed out of reach.
RoutingInvariant ==
  /\ TypeOK
  /\ run.pc = "a3" => audit[run.row].status = "HELD" /\ run.score >= 0 /\ run.anomaly = NoAnomaly
  /\ run.pc \in {"a4", "incident"} =>
       \/ audit[run.row].status = "DENIED" /\ run.score = -1
       \/ audit[run.row].status = "INTENT" /\ run.anomaly.severity = "high"

IncidentsOf(i) == {k \in DOMAIN incidents : incidents[k].row = i}

\* Denials of i's agent that were in the log when i was written, up to 15 minutes old.
DenialsBefore(i) == OfAgent(i) \cap With("DENIED") \cap Since(i, QUARTER) \cap (1..i)

\* A denied call that is its agent's third within 15 minutes, over whatever sessions,
\* is made an incident unless its run failed or was cut off.
DenialBurstIsEscalated ==
  \A i \in Rows :
    /\ fate[i] = "handled" /\ audit[i].status = "DENIED"
    /\ Cardinality(DenialsBefore(i)) >= REPEATED_DENIALS_THRESHOLD
    => IncidentsOf(i) # {}

\* A flag of high severity becomes an incident of high severity, whichever rule
\* promoted it.
HighFlagIsEscalated ==
  \A f \in flags : f.anomaly.severity = "high" /\ fate[f.row] = "handled" =>
    \E k \in IncidentsOf(f.row) : incidents[k].severity = "high"

\* No incident without grounds: three denials of the agent since 15 minutes before
\* the event, or a high-severity flag of this event in the table.  And no event gives
\* rise to two incidents, whatever fails.
IncidentIsGrounded ==
  /\ \A k \in DOMAIN incidents :
       LET n == incidents[k] IN
       IF n.rule = "repeated_denials"
       THEN Cardinality(OfAgent(n.row) \cap With("DENIED") \cap Since(n.row, QUARTER)) >= 3
       ELSE \E f \in flags : f.row = n.row /\ f.anomaly.severity = "high"
  /\ \A i \in Rows : Cardinality(IncidentsOf(i)) <= 1

\* The risk of a session as the first m rows show it, for the event of row i.
RiskIn(i, m) ==
  compute_session_risk_score(
    Cardinality(InSession(i) \cap Since(i, MINUTE) \cap (1..m)),
    Cardinality(InSession(i) \cap With("DENIED") \cap (1..m)),
    Cardinality(InSession(i) \cap With("HELD") \cap (1..m)))

\* Although its counts are read at different times, a recorded risk score lies
\* between what the log showed when the call was decided and what it shows now.
RiskIsSound ==
  \A s \in snapshots : RiskIn(s.row, s.row) <= s.score /\ s.score <= RiskIn(s.row, Len(audit))

\* Again and again no event is left waiting or half done: since a fate never goes back,
\* every published event is dealt with, failed runs notwithstanding, unless the process
\* is stopped first.
EventsAreHandled ==
  []<>(\A i \in 1..MaxRows : fate[i] \notin {"queued", "running"})

(***************************************************************************)
(* What a comment says, which the code does not keep.                      *)
(***************************************************************************)

\* "With fewer than 3 prior windows of history, a z-score isn't statistically
\* meaningful, so this strategy is simply skipped ... until an agent has enough
\* history" (anomaly_detector.py).
ThinHistoryIsSkipped ==
  \A f \in flags : f.anomaly.anomaly_type = "rate_spike" =>
    Cardinality({b \in Prior : bucket_count(f.row, f.seen, b) > 0}) >= MIN_WINDOWS_FOR_ZSCORE
=============================================================================
