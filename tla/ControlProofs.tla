---------------------------- MODULE ControlProofs ----------------------------
(***************************************************************************)
(* Theorems about ControlPlane, for any clients, any number of audit rows  *)
(* and any length of time: whatever the gateway writes while an event runs *)
(* through the graph of agents, and whatever fails, the incidents and the  *)
(* risk scores that are stored are those the audit log calls for.          *)
(***************************************************************************)
EXTENDS ControlPlane, FiniteSetTheorems, SequenceTheorems, TLAPS

(***************************************************************************)
(* The inductive invariant.  An event is in one place: with the handler    *)
(* that is to publish it, in the queue, in the background task, or dealt   *)
(* with; its fate says which.  So it runs once, and what it has stored can *)
(* be read off where it is.                                                *)
(***************************************************************************)

\* Rows that open a call, and the fates of those that have not been published.
LogInv ==
  /\ Len(audit) <= MaxRows
  /\ \A i \in Rows : audit[i].parent = 0 => audit[i].status # "COMPLETED"
  /\ \A i \in unpublished : audit[i].parent = 0 /\ fate[i] = "none"
  /\ \A i \in 1..MaxRows : i \notin Rows => fate[i] = "none"

\* No event is in the queue twice.
QueueInv ==
  /\ \A k \in DOMAIN queue : fate[queue[k].row] = "queued"
  /\ \A k, m \in DOMAIN queue : queue[k].row = queue[m].row => k = m

Flagged(i) == \E f \in flags : f.row = i /\ f.anomaly.severity = "high"

\* The event that runs, and what brought it to the agent it is at.
RunInv ==
  /\ run.pc # "idle" => /\ run.row \in Rows /\ fate[run.row] = "running"
                        /\ audit[run.row].status # "COMPLETED" /\ IncidentsOf(run.row) = {}
  /\ \A i \in 1..MaxRows : fate[i] = "running" => run.pc # "idle" /\ run.row = i
  /\ run.pc \in {"calls", "held", "denied", "risk", "snapshot", "a2", "a3"} =>
       audit[run.row].status # "DENIED" /\ run.anomaly = NoAnomaly
  /\ run.pc \in {"calls", "held", "denied", "risk", "snapshot", "a2", "a3", "flag"} =>
       ~ Flagged(run.row)
  /\ run.pc \in {"risk", "snapshot", "a3"} => run.score >= 0
  /\ run.pc = "a3" => audit[run.row].status = "HELD"
  /\ run.pc \in {"a2", "flag"} => audit[run.row].status = "INTENT"
  /\ run.pc = "flag" => run.anomaly.severity # "none"
  /\ run.pc \in {"a4", "incident"} =>
       \/ audit[run.row].status = "DENIED" /\ run.score = -1 /\ run.anomaly = NoAnomaly
                                           /\ ~ Flagged(run.row)
       \/ audit[run.row].status = "INTENT" /\ run.anomaly.severity = "high" /\ Flagged(run.row)
  /\ run.pc = "incident" =>
       \/ run.rule = "repeated_denials" /\ denials_last_15_min(run.row) >= REPEATED_DENIALS_THRESHOLD
       \/ run.rule = "high_severity_anomaly" /\ run.anomaly.severity = "high"

\* A high-severity flag: its event has run, and is an incident unless the run failed.
FlagInv ==
  \A f \in flags : f.anomaly.severity = "high" =>
    /\ fate[f.row] \notin {"none", "queued"}
    /\ fate[f.row] = "handled" => \E k \in IncidentsOf(f.row) : incidents[k].severity = "high"

Grounded(n) ==
  IF n.rule = "repeated_denials"
  THEN denials_last_15_min(n.row) >= REPEATED_DENIALS_THRESHOLD
  ELSE Flagged(n.row)

\* An incident belongs to an event that has been dealt with, has its grounds, and is alone.
IncidentInv ==
  /\ \A k \in DOMAIN incidents :
       /\ incidents[k].row \in Rows /\ fate[incidents[k].row] \notin {"none", "queued", "running"}
       /\ Grounded(incidents[k])
  /\ \A k, m \in DOMAIN incidents : incidents[k].row = incidents[m].row => k = m

\* A number of rows in S, read from the log while the event of row i runs.
Between(n, S, i) == Cardinality(S \cap (1..i)) <= n /\ n <= Cardinality(S)

RecentCalls(i) == InSession(i) \cap Since(i, MINUTE)
DeniedCalls(i) == InSession(i) \cap With("DENIED")
HeldCalls(i)   == InSession(i) \cap With("HELD")
Denials(i)     == OfAgent(i) \cap With("DENIED") \cap Since(i, QUARTER)

\* The counts that A1 has read so far, and the score it makes of them.
RiskInv ==
  /\ run.pc \in {"held", "denied"} => Between(run.calls, RecentCalls(run.row), run.row)
  /\ run.pc = "denied" => Between(run.held, HeldCalls(run.row), run.row)
  /\ run.pc \in {"risk", "snapshot"} =>
       RiskIn(run.row, run.row) <= run.score /\ run.score <= RiskIn(run.row, Len(audit))
  /\ RiskIsSound

\* The inductive invariant.
Inv ==
  /\ TypeOK /\ LogInv /\ QueueInv /\ RunInv /\ FlagInv /\ IncidentInv
  /\ DenialBurstIsEscalated /\ RiskInv

-----------------------------------------------------------------------------
(***************************************************************************)
(* Counting rows of a log that grows.                                      *)
(***************************************************************************)

\* A set of rows, and what there is of it up to some row, has a count.
LEMMA CountMono ==
  ASSUME NEW T, IsFiniteSet(T), NEW S \in SUBSET T
  PROVE  /\ IsFiniteSet(S) /\ Cardinality(S) \in Nat /\ Cardinality(T) \in Nat
         /\ Cardinality(S) <= Cardinality(T)
  BY FS_Subset, FS_CardinalityType

LEMMA RowsFinite ==
  ASSUME audit \in Seq(AuditRow)
  PROVE  /\ Len(audit) \in Nat /\ Rows = 1..Len(audit) /\ IsFiniteSet(Rows)
         /\ \A i : /\ RecentCalls(i) \in SUBSET Rows /\ DeniedCalls(i) \in SUBSET Rows
                   /\ HeldCalls(i) \in SUBSET Rows /\ Denials(i) \in SUBSET Rows
<1>1. Len(audit) \in Nat /\ Rows = 1..Len(audit)
  BY DEF Rows
<1>2. IsFiniteSet(Rows)
  BY <1>1, FS_Interval
<1> QED
  BY <1>1, <1>2 DEF RecentCalls, DeniedCalls, HeldCalls, Denials, InSession, OfAgent

\* A score is a percentage, and that of larger counts is no smaller.
LEMMA ScoreType ==
  ASSUME NEW c \in Nat, NEW d \in Nat, NEW h \in Nat
  PROVE  compute_session_risk_score(c, d, h) \in 0..100
  BY DEF compute_session_risk_score, AtMost

LEMMA ScoreMono ==
  ASSUME NEW c \in Nat, NEW d \in Nat, NEW h \in Nat,
         NEW c2 \in Nat, NEW d2 \in Nat, NEW h2 \in Nat, c <= c2, d <= d2, h <= h2
  PROVE  compute_session_risk_score(c, d, h) <= compute_session_risk_score(c2, d2, h2)
  BY DEF compute_session_risk_score, AtMost

\* A row that is written changes no row and no query about the past.
LEMMA LogGrows ==
  ASSUME TypeOK, NEW row \in AuditRow, audit' = Append(audit, row)
  PROVE  /\ audit' \in Seq(AuditRow) /\ Len(audit') = Len(audit) + 1
         /\ Rows' = Rows \cup {Len(audit) + 1} /\ Len(audit) + 1 \in Nat \ Rows
         /\ audit'[Len(audit) + 1] = row
         /\ \A i \in Rows : audit'[i] = audit[i]
<1>1. audit \in Seq(AuditRow)
  BY DEF TypeOK
<1>2. /\ audit' \in Seq(AuditRow) /\ Len(audit') = Len(audit) + 1
      /\ \A i \in 1..Len(audit) : audit'[i] = audit[i]
      /\ audit'[Len(audit) + 1] = row
  BY <1>1, AppendProperties
<1>3. Len(audit) \in Nat /\ Rows = 1..Len(audit) /\ Rows' = 1..Len(audit')
  BY <1>1, <1>2 DEF Rows
<1> QED
  BY <1>2, <1>3

LEMMA SetsGrow ==
  ASSUME TypeOK, NEW row \in AuditRow, audit' = Append(audit, row), NEW i \in Rows
  PROVE  /\ RecentCalls(i) = RecentCalls(i)' \cap Rows /\ DeniedCalls(i) = DeniedCalls(i)' \cap Rows
         /\ HeldCalls(i) = HeldCalls(i)' \cap Rows /\ Denials(i) = Denials(i)' \cap Rows
<1>1. /\ Rows' = Rows \cup {Len(audit) + 1} /\ Len(audit) + 1 \notin Rows
      /\ \A j \in Rows : audit'[j] = audit[j]
  BY LogGrows
<1>2. /\ InSession(i) = InSession(i)' \cap Rows /\ OfAgent(i) = OfAgent(i)' \cap Rows
      /\ \A s : With(s) = With(s)' \cap Rows /\ \A w : Since(i, w) = Since(i, w)' \cap Rows
  BY <1>1 DEF InSession, OfAgent, With, Since
<1> QED
  BY <1>2 DEF RecentCalls, DeniedCalls, HeldCalls, Denials

\* So counts that go back to the row i stay, and counts of all rows grow.
LEMMA CountsGrow ==
  ASSUME TypeOK, NEW row \in AuditRow, audit' = Append(audit, row), NEW i \in Rows
  PROVE  /\ denials_last_15_min(i) \in Nat /\ denials_last_15_min(i)' \in Nat
         /\ denials_last_15_min(i) <= denials_last_15_min(i)'
         /\ DenialsBefore(i)' = DenialsBefore(i)
         /\ \A n \in Nat : Between(n, RecentCalls(i), i) => Between(n, RecentCalls(i), i)'
         /\ \A n \in Nat : Between(n, HeldCalls(i), i) => Between(n, HeldCalls(i), i)'
         /\ RiskIn(i, i)' = RiskIn(i, i)
         /\ RiskIn(i, Len(audit)) \in Nat /\ RiskIn(i, Len(audit))' \in Nat
         /\ RiskIn(i, Len(audit)) <= RiskIn(i, Len(audit))'
<1>1. audit \in Seq(AuditRow) /\ audit' \in Seq(AuditRow) /\ Rows \subseteq Rows'
  BY LogGrows DEF TypeOK
<1>2. Rows = 1..Len(audit) /\ Rows' = 1..Len(audit)' /\ IsFiniteSet(Rows')
  <2>1. Len(audit) \in Nat /\ Len(audit') \in Nat /\ Rows = 1..Len(audit) /\ Rows' = 1..Len(audit')
    BY <1>1 DEF Rows
  <2> QED
    BY <2>1, FS_Interval
<1>3. 1..i \subseteq Rows
  BY <1>1, <1>2, RowsFinite
<1>4. /\ RecentCalls(i)' \in SUBSET Rows' /\ DeniedCalls(i)' \in SUBSET Rows'
      /\ HeldCalls(i)' \in SUBSET Rows' /\ Denials(i)' \in SUBSET Rows'
  BY DEF RecentCalls, DeniedCalls, HeldCalls, Denials, InSession, OfAgent
<1>5. /\ RecentCalls(i) = RecentCalls(i)' \cap Rows /\ DeniedCalls(i) = DeniedCalls(i)' \cap Rows
      /\ HeldCalls(i) = HeldCalls(i)' \cap Rows /\ Denials(i) = Denials(i)' \cap Rows
  BY SetsGrow
<1>6. /\ RecentCalls(i)' \cap (1..i) = RecentCalls(i) \cap (1..i)
      /\ DeniedCalls(i)' \cap (1..i) = DeniedCalls(i) \cap (1..i)
      /\ HeldCalls(i)' \cap (1..i) = HeldCalls(i) \cap (1..i)
      /\ Denials(i)' \cap (1..i) = Denials(i) \cap (1..i)
  BY <1>3, <1>5
<1>7. ASSUME NEW T \in SUBSET Rows' 
      PROVE  /\ IsFiniteSet(T) /\ Cardinality(T \cap Rows) \in Nat /\ Cardinality(T) \in Nat
             /\ Cardinality(T \cap Rows) <= Cardinality(T)
  BY <1>2, CountMono, T \cap Rows \in SUBSET T
<1>8. /\ Cardinality(RecentCalls(i)) \in Nat /\ Cardinality(RecentCalls(i)') \in Nat
      /\ Cardinality(RecentCalls(i)) <= Cardinality(RecentCalls(i)')
      /\ Cardinality(DeniedCalls(i)) \in Nat /\ Cardinality(DeniedCalls(i)') \in Nat
      /\ Cardinality(DeniedCalls(i)) <= Cardinality(DeniedCalls(i)')
      /\ Cardinality(HeldCalls(i)) \in Nat /\ Cardinality(HeldCalls(i)') \in Nat
      /\ Cardinality(HeldCalls(i)) <= Cardinality(HeldCalls(i)')
      /\ Cardinality(Denials(i)) \in Nat /\ Cardinality(Denials(i)') \in Nat
      /\ Cardinality(Denials(i)) <= Cardinality(Denials(i)')
  BY <1>4, <1>5, <1>7
<1>9. /\ denials_last_15_min(i) = Cardinality(Denials(i))
      /\ denials_last_15_min(i)' = Cardinality(Denials(i)')
      /\ DenialsBefore(i)' = DenialsBefore(i)
  BY <1>6 DEF denials_last_15_min, Denials, DenialsBefore
<1>10. ASSUME NEW n \in Nat
       PROVE  /\ Between(n, RecentCalls(i), i) => Between(n, RecentCalls(i), i)'
              /\ Between(n, HeldCalls(i), i) => Between(n, HeldCalls(i), i)'
  <2>1. /\ Cardinality(RecentCalls(i)' \cap (1..i)) = Cardinality(RecentCalls(i) \cap (1..i))
        /\ Cardinality(HeldCalls(i)' \cap (1..i)) = Cardinality(HeldCalls(i) \cap (1..i))
    BY <1>6, Zenon
  <2> QED
    BY <1>8, <2>1 DEF Between
<1>11. RiskIn(i, i)' = RiskIn(i, i)
  BY <1>6 DEF RiskIn, RecentCalls, DeniedCalls, HeldCalls
<1>12. /\ RecentCalls(i) \cap (1..Len(audit)) = RecentCalls(i)
       /\ DeniedCalls(i) \cap (1..Len(audit)) = DeniedCalls(i)
       /\ HeldCalls(i) \cap (1..Len(audit)) = HeldCalls(i)
       /\ RecentCalls(i)' \cap (1..Len(audit)') = RecentCalls(i)'
       /\ DeniedCalls(i)' \cap (1..Len(audit)') = DeniedCalls(i)'
       /\ HeldCalls(i)' \cap (1..Len(audit)') = HeldCalls(i)'
  BY <1>2, <1>4, <1>5
<1>13. /\ RiskIn(i, Len(audit)) = compute_session_risk_score(
            Cardinality(RecentCalls(i)), Cardinality(DeniedCalls(i)), Cardinality(HeldCalls(i)))
       /\ RiskIn(i, Len(audit))' = compute_session_risk_score(
            Cardinality(RecentCalls(i)'), Cardinality(DeniedCalls(i)'), Cardinality(HeldCalls(i)'))
  BY <1>12 DEF RiskIn, RecentCalls, DeniedCalls, HeldCalls
<1>14. /\ RiskIn(i, Len(audit)) \in 0..100
       /\ RiskIn(i, Len(audit)) <= RiskIn(i, Len(audit))'
  <2>1. compute_session_risk_score(Cardinality(RecentCalls(i)), Cardinality(DeniedCalls(i)),
                                   Cardinality(HeldCalls(i))) \in 0..100
    BY <1>8, ScoreType
  <2>2. compute_session_risk_score(Cardinality(RecentCalls(i)), Cardinality(DeniedCalls(i)),
                                      Cardinality(HeldCalls(i)))
            <= compute_session_risk_score(Cardinality(RecentCalls(i)'), Cardinality(DeniedCalls(i)'),
                                         Cardinality(HeldCalls(i)'))
    BY <1>8, ScoreMono
  <2> QED
    BY <1>13, <2>1, <2>2
<1>15. RiskIn(i, Len(audit))' \in 0..100
  <2>1. compute_session_risk_score(Cardinality(RecentCalls(i)'), Cardinality(DeniedCalls(i)'),
                                   Cardinality(HeldCalls(i)')) \in 0..100
    BY <1>8, ScoreType
  <2> QED
    BY <1>13, <2>1
<1>16. /\ denials_last_15_min(i) \in Nat /\ denials_last_15_min(i)' \in Nat
       /\ denials_last_15_min(i) <= denials_last_15_min(i)'
  BY <1>8, <1>9
<1>17. RiskIn(i, Len(audit)) \in Nat /\ RiskIn(i, Len(audit))' \in Nat
  <2>1. \A x \in 0..100 : x \in Nat
    OBVIOUS
  <2> QED
    BY <1>14, <1>15, <2>1, Zenon
<1> QED
  BY <1>9, <1>10, <1>11, <1>14, <1>16, <1>17

\* The queries of a log that stays as it is.
LEMMA LogStays ==
  ASSUME audit' = audit
  PROVE  /\ Rows' = Rows
         /\ \A i : denials_last_15_min(i)' = denials_last_15_min(i) /\ DenialsBefore(i)' = DenialsBefore(i)
         /\ \A i : RecentCalls(i)' = RecentCalls(i) /\ HeldCalls(i)' = HeldCalls(i)
         /\ \A i, m : RiskIn(i, m)' = RiskIn(i, m)
<1>1. /\ Rows' = Rows
      /\ \A i : InSession(i)' = InSession(i) /\ OfAgent(i)' = OfAgent(i)
      /\ \A i, w : Since(i, w)' = Since(i, w)
      /\ \A s : With(s)' = With(s)
  BY DEF Rows, InSession, OfAgent, Since, With
<1> QED
  BY <1>1 DEF denials_last_15_min, DenialsBefore, RecentCalls, HeldCalls, RiskIn

\* What a run keeps.
LEMMA RunFields ==
  ASSUME TypeOK
  PROVE  /\ run \in RunState /\ run.row \in Nat /\ run.seen \in Nat /\ run.calls \in Nat
         /\ run.held \in Nat /\ run.score \in Int /\ run.score \in -1..100 /\ run.anomaly \in Anomaly
<1>1. run \in RunState
  BY DEF TypeOK
<1>2. \A x \in -1..100 : x \in Int
  OBVIOUS
<1> QED
  BY <1>1, <1>2 DEF RunState

LEMMA StoresStay ==
  ASSUME UNCHANGED <<flags, incidents>>
  PROVE  \A i : IncidentsOf(i)' = IncidentsOf(i) /\ (Flagged(i)' <=> Flagged(i))
  BY DEF IncidentsOf, Flagged

\* Every row that is mentioned anywhere is one of the log.
LEMMA Places ==
  ASSUME Inv
  PROVE  /\ Len(audit) \in Nat /\ Rows = 1..Len(audit) /\ Rows \subseteq 1..MaxRows
         /\ \A k \in DOMAIN queue : queue[k].row \in 1..MaxRows
         /\ \A f \in flags : f.row \in 1..MaxRows
         /\ \A k \in DOMAIN incidents : incidents[k].row \in 1..MaxRows
         /\ \A s \in snapshots : s.row \in Rows /\ s.score \in Int
         /\ run.pc # "idle" => run.row \in 1..MaxRows
<1>1. TypeOK /\ audit \in Seq(AuditRow) /\ Len(audit) <= MaxRows
  BY DEF Inv, TypeOK, LogInv
<1>2. Len(audit) \in Nat /\ Rows = 1..Len(audit)
  BY <1>1, RowsFinite
<1>3. Rows \subseteq 1..MaxRows
  BY <1>1, <1>2, ControlPlaneAssumption
<1>4. \A k \in DOMAIN queue : queue[k].row \in 1..MaxRows
  BY <1>1, <1>3 DEF TypeOK
<1>5. \A f \in flags : f.row \in 1..MaxRows
  <2>1. flags \subseteq [row : Rows, seen : Nat, anomaly : Anomaly]
    BY <1>1 DEF TypeOK
  <2> QED
    BY <1>3, <2>1
<1>6. \A k \in DOMAIN incidents : incidents[k].row \in 1..MaxRows
  BY <1>3 DEF Inv, IncidentInv
<1>7. ASSUME NEW s \in snapshots PROVE s.row \in Rows /\ s.score \in Int
  <2>1. s \in [row : Rows, score : 0..100]
    BY <1>1 DEF TypeOK
  <2>2. s.row \in Rows /\ s.score \in 0..100
    BY <2>1
  <2> QED
    BY <2>2
<1>8. run.pc # "idle" => run.row \in 1..MaxRows
  BY <1>3 DEF Inv, RunInv
<1> QED
  BY <1>2, <1>3, <1>4, <1>5, <1>6, <1>7, <1>8

-----------------------------------------------------------------------------
(***************************************************************************)
(* The gateway's steps, the clock and a restart.                           *)
(***************************************************************************)

LEMMA InitInv == Init => Inv
<1> SUFFICES ASSUME Init PROVE Inv
  OBVIOUS
<1>1. /\ audit = <<>> /\ Len(audit) = 0 /\ Rows = {} /\ audit \in Seq(AuditRow)
      /\ queue = <<>> /\ DOMAIN queue = {} /\ queue \in Seq(Event)
      /\ incidents = <<>> /\ DOMAIN incidents = {} /\ incidents \in Seq(Incident)
      /\ unpublished = {} /\ snapshots = {} /\ flags = {} /\ packets = {} /\ now = 0
  BY DEF Init, Rows
<1>2. run = Idle /\ run.pc = "idle" /\ run.row = 0 /\ run \in RunState
  BY DEF Init, Idle, RunState, NoAnomaly, Anomaly
<1>3. \A i \in 1..MaxRows : fate[i] = "none"
  BY DEF Init
<1>4. TypeOK
  BY <1>1, <1>2, ControlPlaneAssumption DEF Init, TypeOK
<1>5. LogInv /\ QueueInv
  BY <1>1, <1>3, ControlPlaneAssumption DEF LogInv, QueueInv
<1>6. RunInv
  BY <1>2, <1>3 DEF RunInv
<1>7. FlagInv /\ IncidentInv /\ DenialBurstIsEscalated
  BY <1>1 DEF FlagInv, IncidentInv, DenialBurstIsEscalated
<1>8. RiskInv
  BY <1>1, <1>2 DEF RiskInv, RiskIsSound
<1> QED
  BY <1>4, <1>5, <1>6, <1>7, <1>8 DEF Inv

\* A row is written, and may have to be published.
LEMMA LogStep ==
  ASSUME Inv, NEW row \in AuditRow, audit' = Append(audit, row), Len(audit) < MaxRows,
         row.parent = 0 => row.status # "COMPLETED",
         \/ unpublished' = unpublished
         \/ unpublished' = unpublished \cup {Len(audit) + 1} /\ row.parent = 0,
         UNCHANGED <<now, queue, run, stores, fate>>
  PROVE  Inv'
<1>0. UNCHANGED <<now, queue, run, risk, snapshots, flags, incidents, packets, fate>>
  BY DEF stores
<1>1. PICK n : n = Len(audit) + 1
  OBVIOUS
<1>2. /\ audit' \in Seq(AuditRow) /\ Len(audit') = n /\ Len(audit) \in Nat
      /\ Rows' = Rows \cup {n} /\ n \in Nat \ Rows /\ Rows = 1..Len(audit) /\ n <= MaxRows
      /\ audit'[n] = row /\ \A i \in Rows : audit'[i] = audit[i]
  <2>1. TypeOK /\ audit \in Seq(AuditRow)
    BY DEF Inv, TypeOK
  <2> QED
    BY <1>1, <2>1, LogGrows, RowsFinite, ControlPlaneAssumption
<1>3. \A i \in Rows : /\ denials_last_15_min(i) \in Nat /\ denials_last_15_min(i)' \in Nat
                      /\ denials_last_15_min(i) <= denials_last_15_min(i)'
                      /\ DenialsBefore(i)' = DenialsBefore(i)
  BY CountsGrow DEF Inv
<1>4. TypeOK'
  <2>1. TypeOK
    BY DEF Inv
  <2>2. /\ unpublished' \subseteq Rows' /\ packets' \subseteq Rows' /\ run'.row \in 0..Len(audit')
        /\ \A k \in DOMAIN queue' : queue'[k].row \in Rows' /\ audit'[queue'[k].row].parent = 0
    BY <1>0, <1>1, <1>2, <2>1 DEF TypeOK, IsClosing
  <2>3. /\ snapshots' \subseteq [row : Rows', score : 0..100]
        /\ flags' \subseteq [row : Rows', seen : Nat, anomaly : Anomaly]
    BY <1>0, <1>2, <2>1, ZenonT(60) DEF TypeOK
  <2> QED
    BY <1>0, <1>2, <2>1, <2>2, <2>3 DEF TypeOK, IsClosing
<1>5. fate[n] = "none"
  BY <1>2 DEF Inv, LogInv
<1>6. LogInv'
  BY <1>0, <1>1, <1>2, <1>5 DEF Inv, TypeOK, LogInv
<1>7. QueueInv' /\ FlagInv'
  BY <1>0, StoresStay DEF Inv, QueueInv, FlagInv
<1>8. RunInv'
  <2>1. run.pc # "idle" => run.row \in Rows /\ audit'[run.row] = audit[run.row]
    BY <1>2 DEF Inv, RunInv
  <2>2. denials_last_15_min(run.row) >= REPEATED_DENIALS_THRESHOLD /\ run.pc # "idle"
          => (denials_last_15_min(run.row) >= REPEATED_DENIALS_THRESHOLD)'
    BY <1>0, <1>3, <2>1 DEF REPEATED_DENIALS_THRESHOLD
  <2> QED
    BY <1>0, <1>2, <2>1, <2>2, StoresStay DEF Inv, RunInv
<1>9. IncidentInv'
  <2>1. ASSUME NEW k \in DOMAIN incidents PROVE Grounded(incidents[k])'
    BY <1>0, <1>3, StoresStay DEF Inv, IncidentInv, Grounded, REPEATED_DENIALS_THRESHOLD
  <2> QED
    BY <1>0, <1>2, <2>1 DEF Inv, IncidentInv
<1>10. DenialBurstIsEscalated'
  BY <1>0, <1>2, <1>3, <1>5, StoresStay DEF Inv, DenialBurstIsEscalated
<1>11. RiskInv'
  <2>1. ASSUME NEW i \in Rows, NEW s \in Int,
               RiskIn(i, i) <= s, s <= RiskIn(i, Len(audit))
        PROVE  RiskIn(i, i)' <= s /\ s <= RiskIn(i, Len(audit))'
    BY <2>1, CountsGrow DEF Inv
  <2>2. RiskIsSound'
    BY <1>0, <2>1, Places DEF Inv, RiskInv, RiskIsSound
  <2>3. run.pc # "idle" => run.row \in Rows
    BY DEF Inv, RunInv
  <2>4. run.calls \in Nat /\ run.held \in Nat /\ run.score \in Int
    BY RunFields DEF Inv
  <2>5. run.pc \in {"held", "denied"} => Between(run.calls, RecentCalls(run.row), run.row)'
    BY <1>0, <2>3, <2>4, CountsGrow DEF Inv, RiskInv
  <2>6. run.pc = "denied" => Between(run.held, HeldCalls(run.row), run.row)'
    BY <1>0, <2>3, <2>4, CountsGrow DEF Inv, RiskInv
  <2>7. run.pc \in {"risk", "snapshot"} =>
          (RiskIn(run.row, run.row) <= run.score /\ run.score <= RiskIn(run.row, Len(audit)))'
    BY <1>0, <2>1, <2>3, <2>4 DEF Inv, RiskInv
  <2> QED
    BY <1>0, <2>2, <2>5, <2>6, <2>7 DEF RiskInv
<1> QED
  BY <1>4, <1>6, <1>7, <1>8, <1>9, <1>10, <1>11 DEF Inv

LEMMA WriteOpeningInv ==
  ASSUME Inv, NEW c \in Clients, NEW status \in {"INTENT", "HELD", "DENIED"}, WriteOpening(c, status)
  PROVE  Inv'
<1>1. /\ Row(c, status, 0) \in AuditRow /\ Row(c, status, 0).parent = 0
      /\ Row(c, status, 0).status # "COMPLETED"
  BY ControlPlaneAssumption DEF Inv, TypeOK, Row, AuditRow
<1> QED
  BY <1>1, LogStep DEF WriteOpening

LEMMA WriteClosingInv ==
  ASSUME Inv, NEW i \in Rows, NEW status \in {"COMPLETED", "DENIED"}, WriteClosing(i, status)
  PROVE  Inv'
<1>1. i \in 1..MaxRows /\ audit[i] \in AuditRow /\ now \in 0..MaxTime
  BY RowsFinite, ControlPlaneAssumption DEF Inv, TypeOK, LogInv
<1>2. /\ Row(audit[i].client, status, i) \in AuditRow
      /\ Row(audit[i].client, status, i).parent # 0
  BY <1>1 DEF Row, AuditRow
<1> QED
  BY <1>2, LogStep DEF WriteClosing

\* An event joins the queue, which it was not in.
LEMMA PublishInv ==
  ASSUME Inv, NEW i \in Rows, Publish(i)
  PROVE  Inv'
<1>0. UNCHANGED <<now, audit, run, risk, snapshots, flags, incidents, packets>>
  BY DEF Publish, stores
<1>1. i \in 1..MaxRows /\ fate[i] = "none" /\ audit[i].parent = 0 /\ i \in Nat /\ Len(audit) \in Nat
  BY RowsFinite, ControlPlaneAssumption DEF Inv, TypeOK, LogInv, Publish
<1>2. /\ fate' \in [1..MaxRows -> {"none", "queued", "running", "handled", "failed", "lost"}]
      /\ fate'[i] = "queued" /\ \A j \in (1..MaxRows) \ {i} : fate'[j] = fate[j]
  BY <1>1 DEF Publish, Inv, TypeOK
<1>3. PICK e \in Event : e = [row |-> i, seen |-> Len(audit)] /\ e.row = i
  <2>1. [row |-> i, seen |-> Len(audit)] \in Event
    BY <1>1 DEF Event
  <2> QED
    BY <2>1
<1>4. /\ queue' \in Seq(Event) /\ DOMAIN queue' = DOMAIN queue \cup {Len(queue) + 1}
      /\ Len(queue) + 1 \notin DOMAIN queue
      /\ queue'[Len(queue) + 1] = e /\ \A k \in DOMAIN queue : queue'[k] = queue[k]
  <2>1. queue \in Seq(Event) /\ queue' = Append(queue, e)
    BY <1>3 DEF Publish, Inv, TypeOK
  <2> QED
    BY <2>1, AppendProperties
<1>5. \A k \in DOMAIN queue : queue[k].row \in (1..MaxRows) \ {i}
  BY <1>1, Places DEF Inv, QueueInv
<1>6. TypeOK'
  <2>1. TypeOK /\ unpublished' \subseteq Rows'
    BY <1>0 DEF Inv, TypeOK, Publish, Rows
  <2> QED
    BY <1>0, <1>1, <1>2, <1>3, <1>4, <2>1, LogStays, SMTT(60) DEF TypeOK, IsClosing
<1>7. LogInv'
  BY <1>0, <1>1, <1>2, LogStays, RowsFinite DEF Inv, TypeOK, LogInv, Publish
<1>8. QueueInv'
  BY <1>2, <1>3, <1>4, <1>5 DEF Inv, QueueInv
<1>9. RunInv'
  <2>1. run.pc # "idle" => run.row # i /\ run.row \in 1..MaxRows
    BY <1>1, Places DEF Inv, RunInv
  <2> QED
    BY <1>0, <1>1, <1>2, <2>1, LogStays, StoresStay DEF Inv, RunInv
<1>10. FlagInv'
  BY <1>0, <1>1, <1>2, Places, StoresStay DEF Inv, FlagInv
<1>11. IncidentInv'
  BY <1>0, <1>1, <1>2, Places, LogStays, StoresStay DEF Inv, IncidentInv, Grounded
<1>12. DenialBurstIsEscalated'
  BY <1>0, <1>2, Places, LogStays, StoresStay DEF Inv, DenialBurstIsEscalated
<1>13. RiskInv'
  BY <1>0, LogStays DEF Inv, RiskInv, RiskIsSound, Between
<1> QED
  BY <1>6, <1>7, <1>8, <1>9, <1>10, <1>11, <1>12, <1>13 DEF Inv

\* A step in which only the clock moves, or nothing.
LEMMA ClockInv ==
  ASSUME Inv, now' \in 0..MaxTime,
         UNCHANGED <<audit, unpublished, queue, run, stores, fate>>
  PROVE  Inv'
<1>0. UNCHANGED <<audit, unpublished, queue, run, risk, snapshots, flags, incidents, packets, fate>>
  BY DEF stores
<1>1. TypeOK'
  <2>1. TypeOK
    BY DEF Inv
  <2> QED
    BY <1>0, <2>1, LogStays DEF TypeOK, IsClosing
<1>2. LogInv' /\ QueueInv' /\ FlagInv'
  BY <1>0, LogStays, StoresStay DEF Inv, LogInv, QueueInv, FlagInv
<1>3. RunInv'
  BY <1>0, LogStays, StoresStay DEF Inv, RunInv
<1>4. IncidentInv' /\ DenialBurstIsEscalated'
  BY <1>0, LogStays, StoresStay DEF Inv, IncidentInv, Grounded, DenialBurstIsEscalated
<1>5. RiskInv'
  BY <1>0, LogStays DEF Inv, RiskInv, RiskIsSound, Between
<1> QED
  BY <1>1, <1>2, <1>3, <1>4, <1>5 DEF Inv

\* What was in memory is gone, and with it the duty to deal with it.
LEMMA RestartInv ==
  ASSUME Inv, Restart
  PROVE  Inv'
<1>0. /\ UNCHANGED <<now, audit, risk, snapshots, flags, incidents, packets>>
      /\ unpublished' = {} /\ queue' = <<>> /\ run' = Idle
  BY DEF Restart, stores
<1>1. /\ run' \in RunState /\ run'.pc = "idle" /\ run'.row = 0
      /\ queue' \in Seq(Event) /\ DOMAIN queue' = {}
  BY <1>0 DEF Idle, RunState, NoAnomaly, Anomaly
<1>2. /\ fate' \in [1..MaxRows -> {"none", "queued", "running", "handled", "failed", "lost"}]
      /\ \A i \in 1..MaxRows : /\ fate'[i] # "running"
                               /\ fate[i] \notin {"queued", "running"} => fate'[i] = fate[i]
                               /\ fate[i] \in {"queued", "running"} => fate'[i] = "lost"
  <2>1. fate \in [1..MaxRows -> {"none", "queued", "running", "handled", "failed", "lost"}]
    BY DEF Inv, TypeOK
  <2> QED
    BY <2>1 DEF Restart
<1>3. TypeOK'
  <2>1. TypeOK
    BY DEF Inv
  <2> QED
    BY <1>0, <1>1, <1>2, <2>1, Places, LogStays DEF TypeOK
<1>4. LogInv' /\ QueueInv'
  BY <1>0, <1>1, <1>2, LogStays DEF Inv, LogInv, QueueInv
<1>5. RunInv'
  BY <1>1, <1>2 DEF RunInv
<1>6. FlagInv'
  BY <1>0, <1>2, Places, StoresStay DEF Inv, FlagInv
<1>7. IncidentInv'
  BY <1>0, <1>2, Places, LogStays, StoresStay DEF Inv, IncidentInv, Grounded
<1>8. DenialBurstIsEscalated'
  BY <1>0, <1>2, Places, LogStays, StoresStay DEF Inv, DenialBurstIsEscalated
<1>9. RiskInv'
  BY <1>0, <1>1, LogStays DEF Inv, RiskInv, RiskIsSound
<1> QED
  BY <1>3, <1>4, <1>5, <1>6, <1>7, <1>8, <1>9 DEF Inv

-----------------------------------------------------------------------------
(***************************************************************************)
(* The background task.                                                    *)
(***************************************************************************)

LEMMA TakeInv ==
  ASSUME Inv, Take
  PROVE  Inv'
<1>0. UNCHANGED <<now, audit, unpublished, risk, snapshots, flags, incidents, packets>>
  BY DEF Take, stores, gatewayVars
<1>1. PICK e \in Event : /\ e = queue[1] /\ 1 \in DOMAIN queue /\ run.pc = "idle"
                         /\ run' = [Idle EXCEPT !.pc = route_after_supervisor(e.row), !.row = e.row, !.seen = e.seen]
                         /\ fate' = [fate EXCEPT ![e.row] = "running"]
                         /\ queue' = Tail(queue)
  <2>1. queue \in Seq(Event) /\ queue # <<>>
    BY DEF Inv, TypeOK, Take
  <2>2. Head(queue) \in Event /\ Head(queue) = queue[1] /\ 1 \in DOMAIN queue
    BY <2>1
  <2> QED
    BY <2>2 DEF Take
<1>2. /\ e.row \in Rows /\ audit[e.row].parent = 0 /\ audit[e.row].status # "COMPLETED"
      /\ fate[e.row] = "queued" /\ e.row \in 1..MaxRows /\ e.row \in Nat /\ e.seen \in Nat
  BY <1>1, Places DEF Inv, TypeOK, IsClosing, LogInv, QueueInv, Event
<1>3. /\ queue' \in Seq(Event) /\ \A k \in DOMAIN queue' : k + 1 \in DOMAIN queue /\ queue'[k] = queue[k + 1]
      /\ \A k \in DOMAIN queue' : k \in Nat \ {0}
  <2>1. queue \in Seq(Event) /\ queue # <<>>
    BY DEF Inv, TypeOK, Take
  <2> QED
    BY <1>1, <2>1, HeadTailProperties
<1>4. /\ fate' \in [1..MaxRows -> {"none", "queued", "running", "handled", "failed", "lost"}]
      /\ fate'[e.row] = "running" /\ \A j \in (1..MaxRows) \ {e.row} : fate'[j] = fate[j]
  <2>1. fate \in [1..MaxRows -> {"none", "queued", "running", "handled", "failed", "lost"}]
    BY DEF Inv, TypeOK
  <2> QED
    BY <1>1, <1>2, <2>1
<1>5. /\ run' \in RunState /\ run'.row = e.row /\ run'.score = -1 /\ run'.anomaly = NoAnomaly
      /\ run'.pc = IF audit[e.row].status = "DENIED" THEN "a4" ELSE "calls"
  <2>1. route_after_supervisor(e.row) = IF audit[e.row].status = "DENIED" THEN "a4" ELSE "calls"
    BY DEF route_after_supervisor
  <2>2. run' = [pc |-> route_after_supervisor(e.row), row |-> e.row, seen |-> e.seen, calls |-> 0,
                held |-> 0, score |-> -1, anomaly |-> NoAnomaly, rule |-> "none"]
    BY <1>1 DEF Idle
  <2>3. NoAnomaly \in Anomaly
    BY DEF NoAnomaly, Anomaly
  <2> QED
    BY <1>2, <2>1, <2>2, <2>3 DEF RunState
<1>6. \A k \in DOMAIN queue' : queue'[k].row \in 1..MaxRows /\ queue'[k].row # e.row
  BY <1>1, <1>3, Places DEF Inv, QueueInv
<1>7. TypeOK'
  <2>1. TypeOK
    BY DEF Inv
  <2>2. run'.row \in 0..Len(audit)
    BY <1>2, <1>5, Places
  <2> QED
    BY <1>0, <1>3, <1>4, <1>5, <2>1, <2>2, LogStays DEF TypeOK, IsClosing
<1>8. LogInv'
  BY <1>0, <1>2, <1>4, Places, LogStays DEF Inv, TypeOK, LogInv
<1>9. QueueInv'
  BY <1>3, <1>4, <1>6 DEF Inv, QueueInv
<1>10. IncidentsOf(e.row) = {} /\ ~ Flagged(e.row)
  BY <1>2 DEF Inv, IncidentInv, FlagInv, IncidentsOf, Flagged
<1>11. RunInv'
  <2>1. \A i \in 1..MaxRows : fate'[i] = "running" => i = e.row
    BY <1>1, <1>4 DEF Inv, RunInv
  <2> QED
    BY <1>0, <1>2, <1>4, <1>5, <1>10, <2>1, LogStays, StoresStay DEF RunInv
<1>12. FlagInv'
  BY <1>0, <1>2, <1>4, Places, StoresStay DEF Inv, FlagInv
<1>13. IncidentInv'
  BY <1>0, <1>2, <1>4, Places, LogStays, StoresStay DEF Inv, IncidentInv, Grounded
<1>14. DenialBurstIsEscalated'
  BY <1>0, <1>4, Places, LogStays, StoresStay DEF Inv, DenialBurstIsEscalated
<1>15. RiskInv'
  BY <1>0, <1>5, LogStays DEF Inv, RiskInv, RiskIsSound
<1> QED
  BY <1>7, <1>8, <1>9, <1>11, <1>12, <1>13, <1>14, <1>15 DEF Inv

\* The task goes from one step of an agent to the next.
LEMMA GoesOn ==
  ASSUME Inv, UNCHANGED <<gatewayVars, queue, flags, incidents, packets, fate>>,
         run.pc # "idle", run' \in RunState, run'.row = run.row,
         risk' \in [Sessions -> -1..100], snapshots' \subseteq [row : Rows, score : 0..100],
         RunInv', RiskInv'
  PROVE  Inv'
<1>0. UNCHANGED <<now, audit, unpublished, queue, flags, incidents, packets, fate>>
  BY DEF gatewayVars
<1>1. TypeOK'
  <2>1. TypeOK
    BY DEF Inv
  <2> QED
    BY <1>0, <2>1, LogStays DEF TypeOK, IsClosing
<1>2. LogInv' /\ QueueInv' /\ FlagInv'
  BY <1>0, LogStays, StoresStay DEF Inv, LogInv, QueueInv, FlagInv
<1>3. IncidentInv' /\ DenialBurstIsEscalated'
  BY <1>0, LogStays, StoresStay DEF Inv, IncidentInv, Grounded, DenialBurstIsEscalated
<1> QED
  BY <1>1, <1>2, <1>3 DEF Inv

\* A run that ends, whatever it has stored.
LEMMA Ends ==
  ASSUME Inv, run.pc # "idle", UNCHANGED <<gatewayVars, queue>>,
         NEW what \in {"handled", "failed"}, End(what)
  PROVE  /\ UNCHANGED <<now, audit, unpublished, queue>>
         /\ run' \in RunState /\ run'.pc = "idle" /\ run'.row = 0
         /\ fate' \in [1..MaxRows -> {"none", "queued", "running", "handled", "failed", "lost"}]
         /\ fate'[run.row] = what /\ \A j \in (1..MaxRows) \ {run.row} : fate'[j] = fate[j]
         /\ run.row \in Rows /\ run.row \in 1..MaxRows /\ fate[run.row] = "running"
         /\ LogInv' /\ QueueInv' /\ RunInv'
<1>0. UNCHANGED <<now, audit, unpublished, queue>>
  BY DEF gatewayVars
<1>1. run' \in RunState /\ run'.pc = "idle" /\ run'.row = 0
  <2>1. run' = Idle
    BY DEF End
  <2> QED
    BY <2>1 DEF Idle, RunState, NoAnomaly, Anomaly
<1>2. run.row \in Rows /\ run.row \in 1..MaxRows /\ fate[run.row] = "running"
  BY Places DEF Inv, RunInv
<1>3. /\ fate' \in [1..MaxRows -> {"none", "queued", "running", "handled", "failed", "lost"}]
      /\ fate'[run.row] = what /\ \A j \in (1..MaxRows) \ {run.row} : fate'[j] = fate[j]
  <2>1. fate \in [1..MaxRows -> {"none", "queued", "running", "handled", "failed", "lost"}]
    BY DEF Inv, TypeOK
  <2> QED
    BY <1>2, <2>1 DEF End
<1>4. LogInv'
  BY <1>0, <1>2, <1>3, Places, LogStays DEF Inv, TypeOK, LogInv
<1>5. QueueInv'
  BY <1>0, <1>2, <1>3, Places DEF Inv, QueueInv
<1>6. RunInv'
  BY <1>1, <1>3 DEF Inv, RunInv
<1> QED
  BY <1>0, <1>1, <1>2, <1>3, <1>4, <1>5, <1>6

\* It ends with no flag and no incident of this step's.
LEMMA EndsQuietly ==
  ASSUME Inv, run.pc # "idle", UNCHANGED <<gatewayVars, queue, flags, incidents>>,
         NEW what \in {"handled", "failed"}, End(what),
         risk' \in [Sessions -> -1..100], packets' \subseteq Rows,
         snapshots' \subseteq [row : Rows, score : 0..100], RiskIsSound',
         what = "handled" =>
           /\ ~ Flagged(run.row)
           /\ audit[run.row].status = "DENIED" => ~ (Cardinality(DenialsBefore(run.row)) >= REPEATED_DENIALS_THRESHOLD)
  PROVE  Inv'
<1>0. /\ UNCHANGED <<now, audit, unpublished, queue, flags, incidents>>
      /\ run' \in RunState /\ run'.pc = "idle" /\ run'.row = 0
      /\ fate' \in [1..MaxRows -> {"none", "queued", "running", "handled", "failed", "lost"}]
      /\ fate'[run.row] = what /\ \A j \in (1..MaxRows) \ {run.row} : fate'[j] = fate[j]
      /\ run.row \in Rows /\ run.row \in 1..MaxRows /\ fate[run.row] = "running"
      /\ LogInv' /\ QueueInv' /\ RunInv'
  BY Ends
<1>1. TypeOK'
  <2>1. TypeOK
    BY DEF Inv
  <2> QED
    BY <1>0, <2>1, Places, LogStays DEF TypeOK, IsClosing
<1>2. FlagInv'
  BY <1>0, Places, StoresStay DEF Inv, FlagInv, Flagged
<1>3. IncidentInv'
  BY <1>0, Places, LogStays, StoresStay DEF Inv, IncidentInv, Grounded
<1>4. DenialBurstIsEscalated'
  BY <1>0, Places, LogStays, StoresStay DEF Inv, DenialBurstIsEscalated
<1>5. RiskInv'
  BY <1>0 DEF RiskInv
<1> QED
  BY <1>0, <1>1, <1>2, <1>3, <1>4, <1>5 DEF Inv

\* The flag that PersistFlag adds.
LEMMA FlagAdded ==
  ASSUME Inv, run.pc = "flag", AddFlag
  PROVE  /\ flags' \subseteq [row : Rows, seen : Nat, anomaly : Anomaly]
         /\ \A f \in flags' : f.anomaly.severity \in Severities
         /\ flags \subseteq flags'
         /\ \A i : Flagged(i)' <=> Flagged(i) \/ (i = run.row /\ run.anomaly.severity = "high")
<1> DEFINE g == [row |-> run.row, seen |-> run.seen, anomaly |-> run.anomaly]
<1>1. run.row \in Rows /\ run.seen \in Nat /\ run.anomaly \in Anomaly /\ run.anomaly.severity \in Severities
  <2>1. run.anomaly \in Anomaly /\ run.seen \in Nat
    BY RunFields DEF Inv
  <2>2. run.row \in Rows /\ run.anomaly.severity # "none"
    BY DEF Inv, RunInv
  <2> QED
    BY <2>1, <2>2 DEF Anomaly
<1>2. g.row = run.row /\ g.anomaly = run.anomaly /\ flags' = flags \cup {g}
  BY DEF AddFlag
<1>3. g \in [row : Rows, seen : Nat, anomaly : Anomaly]
  BY <1>1
<1> HIDE DEF g
<1>4. flags \subseteq [row : Rows, seen : Nat, anomaly : Anomaly] /\ \A f \in flags : f.anomaly.severity \in Severities
  BY DEF Inv, TypeOK
<1>5. \A i : Flagged(i)' <=> Flagged(i) \/ (i = run.row /\ run.anomaly.severity = "high")
  BY <1>2 DEF Flagged
<1> QED
  BY <1>1, <1>2, <1>3, <1>4, <1>5

\* It ends at the flag.
LEMMA EndsAtFlag ==
  ASSUME Inv, run.pc = "flag", UNCHANGED <<gatewayVars, queue, risk, snapshots, incidents, packets>>,
         AddFlag, NEW what \in {"handled", "failed"}, End(what),
         what = "handled" => run.anomaly.severity # "high"
  PROVE  Inv'
<1>0. /\ UNCHANGED <<now, audit, unpublished, queue>>
      /\ run' \in RunState /\ run'.pc = "idle" /\ run'.row = 0
      /\ fate' \in [1..MaxRows -> {"none", "queued", "running", "handled", "failed", "lost"}]
      /\ fate'[run.row] = what /\ \A j \in (1..MaxRows) \ {run.row} : fate'[j] = fate[j]
      /\ run.row \in Rows /\ run.row \in 1..MaxRows /\ fate[run.row] = "running"
      /\ LogInv' /\ QueueInv' /\ RunInv'
  BY Ends
<1>1. /\ audit[run.row].status = "INTENT" /\ ~ Flagged(run.row)
      /\ \A i : IncidentsOf(i)' = IncidentsOf(i)
  BY DEF Inv, RunInv, IncidentsOf
<1>2. TypeOK'
  <2>1. TypeOK
    BY DEF Inv
  <2> QED
    BY <1>0, <2>1, FlagAdded, Places, LogStays DEF TypeOK, IsClosing
<1>3. FlagInv'
  <2>1. ASSUME NEW f \in flags', f.anomaly.severity = "high", f.row # run.row
        PROVE  f \in flags /\ fate'[f.row] = fate[f.row]
    BY <1>0, <2>1, Places DEF AddFlag
  <2>2. ASSUME NEW f \in flags', f.anomaly.severity = "high", f.row = run.row
        PROVE  fate'[f.row] = "failed"
    BY <1>0, <1>1, <2>2, FlagAdded DEF Flagged
  <2> QED
    BY <1>1, <2>1, <2>2 DEF Inv, FlagInv
<1>4. IncidentInv'
  BY <1>0, FlagAdded, Places, LogStays DEF Inv, IncidentInv, Grounded
<1>5. DenialBurstIsEscalated'
  BY <1>0, <1>1, Places, LogStays DEF Inv, DenialBurstIsEscalated
<1>6. RiskInv'
  BY <1>0, LogStays DEF Inv, RiskInv, RiskIsSound
<1> QED
  BY <1>0, <1>2, <1>3, <1>4, <1>5, <1>6 DEF Inv

\* It ends with the incident: the event has its grounds, and had none before.
LEMMA EndsAtIncident ==
  ASSUME Inv, run.pc = "incident", UNCHANGED <<gatewayVars, queue, risk, snapshots, flags, packets>>,
         AddIncident, NEW what \in {"handled", "failed"}, End(what)
  PROVE  Inv'
<1>0. /\ UNCHANGED <<now, audit, unpublished, queue, risk, snapshots, flags, packets>>
      /\ run' \in RunState /\ run'.pc = "idle" /\ run'.row = 0
      /\ fate' \in [1..MaxRows -> {"none", "queued", "running", "handled", "failed", "lost"}]
      /\ fate'[run.row] = what /\ \A j \in (1..MaxRows) \ {run.row} : fate'[j] = fate[j]
      /\ run.row \in Rows /\ run.row \in 1..MaxRows /\ fate[run.row] = "running"
      /\ LogInv' /\ QueueInv' /\ RunInv'
  BY Ends
<1>1. /\ run.rule \in {"repeated_denials", "high_severity_anomaly"}
      /\ run.rule = "repeated_denials" => denials_last_15_min(run.row) >= REPEATED_DENIALS_THRESHOLD
      /\ run.rule = "high_severity_anomaly" => Flagged(run.row)
      /\ Flagged(run.row) => run.anomaly.severity = "high"
      /\ IncidentsOf(run.row) = {}
  BY DEF Inv, RunInv, NoAnomaly
<1>2. PICK n \in Incident : /\ n = [row |-> run.row, rule |-> run.rule,
                                    severity |-> compute_incident_severity(run)]
                            /\ n.row = run.row /\ n.rule = run.rule
                            /\ run.anomaly.severity = "high" => n.severity = "high"
  <2>1. /\ compute_incident_severity(run) \in Severities
        /\ run.anomaly.severity = "high" => compute_incident_severity(run) = "high"
    BY DEF compute_incident_severity, Severities
  <2>2. [row |-> run.row, rule |-> run.rule, severity |-> compute_incident_severity(run)] \in Incident
    BY <1>0, <1>1, <2>1 DEF Incident
  <2> QED
    BY <2>1, <2>2
<1>3. /\ incidents' \in Seq(Incident) /\ DOMAIN incidents' = DOMAIN incidents \cup {Len(incidents) + 1}
      /\ incidents'[Len(incidents) + 1] = n /\ \A k \in DOMAIN incidents : incidents'[k] = incidents[k]
      /\ Len(incidents) + 1 \notin DOMAIN incidents
  <2>1. incidents \in Seq(Incident) /\ incidents' = Append(incidents, n)
    BY <1>2 DEF Inv, TypeOK, AddIncident
  <2> QED
    BY <2>1, AppendProperties
<1>4. /\ \A i : i # run.row => IncidentsOf(i)' = IncidentsOf(i)
      /\ \A i : i = run.row => IncidentsOf(i)' = {Len(incidents) + 1}
  BY <1>1, <1>2, <1>3 DEF IncidentsOf
<1>5. \A i : Flagged(i)' <=> Flagged(i)
  BY <1>0 DEF Flagged
<1>6. TypeOK'
  <2>1. TypeOK
    BY DEF Inv
  <2>2. run'.row \in 0..Len(audit')
    BY <1>0, Places
  <2> QED
    BY <1>0, <1>3, <2>1, <2>2, LogStays, ZenonT(60) DEF TypeOK, IsClosing
<1>7. FlagInv'
  BY <1>0, <1>1, <1>2, <1>3, <1>4, Places DEF Inv, FlagInv, Flagged, IncidentsOf
<1>8. IncidentInv'
  <2>1. Grounded(n)'
    BY <1>1, <1>2, <1>5, <1>0, LogStays DEF Grounded
  <2>2. ASSUME NEW k \in DOMAIN incidents
        PROVE  incidents'[k] = incidents[k] /\ Grounded(incidents[k]) /\ incidents[k].row # run.row
    BY <1>1, <1>3 DEF Inv, IncidentInv, IncidentsOf
  <2>3. ASSUME NEW m, Grounded(m) PROVE Grounded(m)'
    BY <1>0, <1>5, <2>3, LogStays DEF Grounded
  <2>4. ASSUME NEW k \in DOMAIN incidents'
        PROVE  /\ incidents'[k].row \in Rows' /\ fate'[incidents'[k].row] \notin {"none", "queued", "running"}
               /\ Grounded(incidents[k])'
    <3>1. CASE k \in DOMAIN incidents
      BY <1>0, <2>2, <2>3, <3>1, Places, LogStays DEF Inv, IncidentInv, Grounded
    <3>2. CASE k = Len(incidents) + 1
      BY <1>0, <1>2, <1>3, <2>1, <3>2, LogStays DEF Grounded
    <3> QED
      BY <1>3, <3>1, <3>2
  <2> QED
    BY <1>2, <1>3, <2>2, <2>4 DEF Inv, IncidentInv
<1>9. DenialBurstIsEscalated'
  <2>1. \A i : i = run.row => IncidentsOf(i)' # {}
    BY <1>4
  <2> QED
    BY <1>0, <1>4, <2>1, Places, LogStays DEF Inv, DenialBurstIsEscalated
<1>10. RiskInv'
  BY <1>0, LogStays DEF Inv, RiskInv, RiskIsSound
<1> QED
  BY <1>0, <1>6, <1>7, <1>8, <1>9, <1>10 DEF Inv

-----------------------------------------------------------------------------
(***************************************************************************)
(* A1: the counts and the score.                                           *)
(***************************************************************************)

\* A count that is read now is at least the count as of the row, and at most the count now.
LEMMA CountNow ==
  ASSUME Inv, NEW i \in Rows, NEW S \in SUBSET Rows
  PROVE  /\ Between(Cardinality(S), S, i) /\ Cardinality(S) \in Nat /\ Cardinality(S \cap (1..i)) \in Nat
         /\ S \cap (1..Len(audit)) = S
<1>1. IsFiniteSet(Rows) /\ Rows = 1..Len(audit)
  BY RowsFinite DEF Inv, TypeOK
<1>2. IsFiniteSet(S) /\ Cardinality(S) \in Nat
  BY <1>1, CountMono
<1>3. S \cap (1..i) \in SUBSET S
  OBVIOUS
<1>4. Cardinality(S \cap (1..i)) \in Nat /\ Cardinality(S \cap (1..i)) <= Cardinality(S)
  BY <1>2, <1>3, CountMono
<1>5. S \cap (1..Len(audit)) = S
  BY <1>1
<1> QED
  BY <1>2, <1>4, <1>5 DEF Between

LEMMA ReadCallsInv ==
  ASSUME Inv, ReadCalls
  PROVE  Inv'
<1>0. UNCHANGED <<audit, flags, incidents, fate, snapshots, risk, gatewayVars, queue, packets>>
  BY DEF ReadCalls, gatewayVars, stores
<1>1. /\ run.row \in Rows /\ RecentCalls(run.row) \in SUBSET Rows
      /\ calls_per_minute(run.row) = Cardinality(RecentCalls(run.row))
  BY RowsFinite DEF Inv, TypeOK, RunInv, ReadCalls, calls_per_minute, RecentCalls
<1>2. Between(calls_per_minute(run.row), RecentCalls(run.row), run.row) /\ calls_per_minute(run.row) \in Nat
  BY <1>1, CountNow
<1>3. /\ run' \in RunState /\ run'.row = run.row /\ run'.pc = "held" /\ run'.anomaly = run.anomaly
      /\ run'.calls = calls_per_minute(run.row)
  BY <1>2, RunFields DEF Inv, ReadCalls, RunState
<1>4. RunInv'
  BY <1>0, <1>3, LogStays, StoresStay DEF Inv, RunInv, ReadCalls
<1>5. RiskInv'
  BY <1>0, <1>2, <1>3, LogStays DEF Inv, RiskInv, RiskIsSound, Between
<1> QED
  BY <1>0, <1>3, <1>4, <1>5, GoesOn DEF Inv, TypeOK, ReadCalls

LEMMA ReadHeldInv ==
  ASSUME Inv, ReadHeld
  PROVE  Inv'
<1>0. UNCHANGED <<audit, flags, incidents, fate, snapshots, risk, gatewayVars, queue, packets>>
  BY DEF ReadHeld, gatewayVars, stores
<1>1. /\ run.row \in Rows /\ HeldCalls(run.row) \in SUBSET Rows
      /\ hitl_ticket_count(run.row) = Cardinality(HeldCalls(run.row))
  BY RowsFinite DEF Inv, TypeOK, RunInv, ReadHeld, hitl_ticket_count, HeldCalls
<1>2. Between(hitl_ticket_count(run.row), HeldCalls(run.row), run.row) /\ hitl_ticket_count(run.row) \in Nat
  BY <1>1, CountNow
<1>3. /\ run' \in RunState /\ run'.row = run.row /\ run'.pc = "denied" /\ run'.anomaly = run.anomaly
      /\ run'.held = hitl_ticket_count(run.row) /\ run'.calls = run.calls
  BY <1>2, RunFields DEF Inv, ReadHeld, RunState
<1>4. RunInv'
  BY <1>0, <1>3, LogStays, StoresStay DEF Inv, RunInv, ReadHeld
<1>5. RiskInv'
  BY <1>0, <1>2, <1>3, LogStays DEF Inv, RiskInv, RiskIsSound, Between, ReadHeld
<1> QED
  BY <1>0, <1>3, <1>4, <1>5, GoesOn DEF Inv, TypeOK, ReadHeld

LEMMA ReadDeniedInv ==
  ASSUME Inv, ReadDenied
  PROVE  Inv'
<1>0. UNCHANGED <<audit, flags, incidents, fate, snapshots, risk, gatewayVars, queue, packets>>
  BY DEF ReadDenied, gatewayVars, stores
<1> DEFINE i == run.row
           x == compute_session_risk_score(run.calls, denial_count(i), run.held)
<1>1. /\ i \in Rows /\ DeniedCalls(i) \in SUBSET Rows /\ RecentCalls(i) \in SUBSET Rows
      /\ HeldCalls(i) \in SUBSET Rows /\ denial_count(i) = Cardinality(DeniedCalls(i))
  BY RowsFinite DEF Inv, TypeOK, RunInv, ReadDenied, denial_count, DeniedCalls
<1>2. /\ Between(denial_count(i), DeniedCalls(i), i) /\ denial_count(i) \in Nat
      /\ Between(run.calls, RecentCalls(i), i) /\ Between(run.held, HeldCalls(i), i)
  BY <1>1, CountNow DEF Inv, RiskInv, ReadDenied
<1>3. run.calls \in Nat /\ run.held \in Nat
  BY RunFields DEF Inv
<1>4. x \in 0..100
  BY <1>2, <1>3, ScoreType
<1>5. /\ Cardinality(RecentCalls(i)) \in Nat /\ Cardinality(RecentCalls(i) \cap (1..i)) \in Nat
      /\ Cardinality(DeniedCalls(i)) \in Nat /\ Cardinality(DeniedCalls(i) \cap (1..i)) \in Nat
      /\ Cardinality(HeldCalls(i)) \in Nat /\ Cardinality(HeldCalls(i) \cap (1..i)) \in Nat
  BY <1>1, CountNow
<1>6. RiskIn(i, i) <= x
  <2>1. compute_session_risk_score(Cardinality(RecentCalls(i) \cap (1..i)),
          Cardinality(DeniedCalls(i) \cap (1..i)), Cardinality(HeldCalls(i) \cap (1..i))) <= x
    BY <1>2, <1>3, <1>5, ScoreMono DEF Between
  <2> QED
    BY <2>1 DEF RiskIn, RecentCalls, DeniedCalls, HeldCalls
<1>7. x <= RiskIn(i, Len(audit))
  <2>1. x <= compute_session_risk_score(Cardinality(RecentCalls(i)), Cardinality(DeniedCalls(i)),
                                       Cardinality(HeldCalls(i)))
    BY <1>2, <1>3, <1>5, ScoreMono DEF Between
  <2>2. /\ RecentCalls(i) \cap (1..Len(audit)) = RecentCalls(i)
        /\ DeniedCalls(i) \cap (1..Len(audit)) = DeniedCalls(i)
        /\ HeldCalls(i) \cap (1..Len(audit)) = HeldCalls(i)
    BY <1>1, CountNow
  <2>3. RiskIn(i, Len(audit)) = compute_session_risk_score(Cardinality(RecentCalls(i)),
                                  Cardinality(DeniedCalls(i)), Cardinality(HeldCalls(i)))
    BY <2>2, Zenon DEF RiskIn, RecentCalls, DeniedCalls, HeldCalls
  <2> QED
    BY <2>1, <2>3
<1>8. /\ run' \in RunState /\ run'.row = run.row /\ run'.pc = "risk" /\ run'.anomaly = run.anomaly
      /\ run'.score = x /\ x >= 0
  <2>1. run' = [run EXCEPT !.pc = "risk", !.score = x]
    BY DEF ReadDenied
  <2>2. \A y \in 0..100 : y \in -1..100 /\ y >= 0
    OBVIOUS
  <2>3. run \in RunState
    BY RunFields DEF Inv
  <2> HIDE DEF x
  <2>4. x \in -1..100 /\ x >= 0
    BY <1>4, <2>2
  <2> QED
    BY <2>1, <2>3, <2>4 DEF RunState
<1> HIDE DEF x
<1>9. RunInv'
  BY <1>0, <1>8, LogStays, StoresStay DEF Inv, RunInv, ReadDenied
<1>10. RiskInv'
  BY <1>0, <1>6, <1>7, <1>8, LogStays DEF Inv, RiskInv, RiskIsSound
<1> QED
  BY <1>0, <1>8, <1>9, <1>10, GoesOn DEF Inv, TypeOK, ReadDenied

LEMMA WriteRiskInv ==
  ASSUME Inv, WriteRisk
  PROVE  Inv'
<1>0. UNCHANGED <<audit, flags, incidents, fate, snapshots, gatewayVars, queue, packets>>
  BY DEF WriteRisk, gatewayVars
<1>1. /\ run' \in RunState /\ run'.row = run.row /\ run'.pc = "snapshot" /\ run'.anomaly = run.anomaly
      /\ run'.score = run.score
  BY RunFields DEF Inv, WriteRisk, GoTo, RunState
<1>2. risk' \in [Sessions -> -1..100]
  <2>1. run.score \in -1..100 /\ risk \in [Sessions -> -1..100]
    BY RunFields DEF Inv, TypeOK
  <2> QED
    BY <2>1 DEF WriteRisk
<1>3. RunInv'
  BY <1>0, <1>1, LogStays, StoresStay DEF Inv, RunInv, WriteRisk
<1>4. RiskInv'
  BY <1>0, <1>1, LogStays DEF Inv, RiskInv, RiskIsSound, WriteRisk
<1> QED
  BY <1>0, <1>1, <1>2, <1>3, <1>4, GoesOn DEF Inv, TypeOK, WriteRisk

\* The score that is stored is the one that was computed.
LEMMA SnapshotAdded ==
  ASSUME Inv, run.pc = "snapshot", AddSnapshot, audit' = audit
  PROVE  snapshots' \subseteq [row : Rows, score : 0..100] /\ RiskIsSound'
<1> DEFINE s == [row |-> run.row, score |-> run.score]
<1>1. run.row \in Rows /\ run.score \in 0..100
  <2>1. run.score \in Int /\ run.score \in -1..100
    BY RunFields DEF Inv
  <2> QED
    BY <2>1 DEF Inv, RunInv
<1>2. s \in [row : Rows, score : 0..100] /\ s.row = run.row /\ s.score = run.score /\ snapshots' = snapshots \cup {s}
  BY <1>1 DEF AddSnapshot
<1> HIDE DEF s
<1>3. snapshots \subseteq [row : Rows, score : 0..100]
  BY DEF Inv, TypeOK
<1>4. RiskIsSound'
  BY <1>2, LogStays DEF Inv, RiskInv, RiskIsSound
<1> QED
  BY <1>2, <1>3, <1>4

LEMMA WriteSnapshotInv ==
  ASSUME Inv, WriteSnapshot
  PROVE  Inv'
<1>0. UNCHANGED <<audit, flags, incidents, risk, gatewayVars, queue, packets>> /\ run.pc = "snapshot" /\ AddSnapshot
  BY DEF WriteSnapshot, gatewayVars
<1>1. snapshots' \subseteq [row : Rows, score : 0..100] /\ RiskIsSound'
  BY <1>0, SnapshotAdded
<1>2. audit[run.row].status # "DENIED" /\ ~ Flagged(run.row) /\ run.row \in Rows
  BY <1>0 DEF Inv, RunInv
<1>3. risk \in [Sessions -> -1..100] /\ packets \subseteq Rows
  BY DEF Inv, TypeOK
<1>4. CASE End("handled")
  BY <1>0, <1>1, <1>2, <1>3, <1>4, EndsQuietly
<1>5. CASE /\ GoTo(route_after_policy_evaluator) /\ UNCHANGED fate
           /\ route_after_policy_evaluator # "end"
  <2>0. audit[run.row].status \in {"INTENT", "HELD"}
    <3>1. audit[run.row] \in AuditRow
      BY <1>2 DEF Inv, TypeOK, Rows
    <3> QED
      BY <1>0, <1>2, <3>1 DEF Inv, RunInv, AuditRow
  <2>1. /\ run' \in RunState /\ run'.row = run.row /\ run'.anomaly = run.anomaly
        /\ run'.score = run.score
        /\ \/ run'.pc = "a3" /\ audit[run.row].status = "HELD"
           \/ run'.pc = "a2" /\ audit[run.row].status = "INTENT"
    BY <1>5, <2>0, RunFields DEF Inv, GoTo, RunState, route_after_policy_evaluator
  <2>2. RunInv'
    BY <1>0, <1>5, <2>1, LogStays, StoresStay DEF Inv, RunInv
  <2>3. RiskInv'
    BY <1>1, <2>1 DEF RiskInv
  <2> QED
    BY <1>0, <1>1, <1>3, <1>5, <2>1, <2>2, <2>3, GoesOn
<1> QED
  BY <1>4, <1>5 DEF WriteSnapshot

-----------------------------------------------------------------------------
(***************************************************************************)
(* A2, A3 and A4.                                                          *)
(***************************************************************************)

LEMMA DetectInv ==
  ASSUME Inv, Detect
  PROVE  Inv'
<1>0. UNCHANGED <<audit, flags, incidents, snapshots, risk, gatewayVars, queue, packets>> /\ run.pc = "a2"
  BY DEF Detect, gatewayVars, stores
<1>1. /\ risk' \in [Sessions -> -1..100] /\ packets' \subseteq Rows
      /\ snapshots' \subseteq [row : Rows, score : 0..100] /\ RiskIsSound'
  BY <1>0, LogStays DEF Inv, TypeOK, RiskInv, RiskIsSound
<1>2. audit[run.row].status = "INTENT" /\ ~ Flagged(run.row)
  BY <1>0 DEF Inv, RunInv
<1> DEFINE a == detect_anomaly(run.row, run.seen)
<1>3. a \in Anomaly /\ (a # NoAnomaly => a.severity # "none")
  BY DEF detect_anomaly, Anomaly, NoAnomaly, Severities
<1>4. CASE End("handled")
  BY <1>0, <1>1, <1>2, <1>4, EndsQuietly
<1>5. CASE a # NoAnomaly /\ run' = [run EXCEPT !.pc = "flag", !.anomaly = a] /\ UNCHANGED fate
  <2> HIDE DEF a
  <2>1. /\ run' \in RunState /\ run'.row = run.row /\ run'.pc = "flag" /\ run'.anomaly = a
    BY <1>3, <1>5, RunFields DEF Inv, RunState
  <2>2. RunInv'
    BY <1>0, <1>2, <1>3, <1>5, <2>1, LogStays, StoresStay DEF Inv, RunInv
  <2>3. RiskInv'
    BY <1>1, <2>1 DEF RiskInv
  <2> QED
    BY <1>0, <1>1, <1>5, <2>1, <2>2, <2>3, GoesOn
<1> QED
  BY <1>4, <1>5 DEF Detect

\* A high-severity flag is in the table before A4 sees its event.
LEMMA PersistFlagInv ==
  ASSUME Inv, PersistFlag
  PROVE  Inv'
<1>0. /\ UNCHANGED <<now, audit, unpublished, queue, risk, snapshots, incidents, packets>>
      /\ UNCHANGED gatewayVars /\ run.pc = "flag" /\ AddFlag
  BY DEF PersistFlag, gatewayVars
<1>1. CASE run.anomaly.severity # "high"
  BY <1>0, <1>1, EndsAtFlag DEF PersistFlag
<1>2. CASE run.anomaly.severity = "high"
  <2>1. /\ run' = [run EXCEPT !.pc = "a4"] /\ fate' = fate
        /\ run' \in RunState /\ run'.row = run.row /\ run'.pc = "a4" /\ run'.anomaly = run.anomaly
    BY <1>2, RunFields DEF Inv, PersistFlag, GoTo, RunState
  <2>2. /\ run.row \in Rows /\ run.row \in 1..MaxRows /\ audit[run.row].status = "INTENT"
        /\ fate[run.row] = "running"
    BY <1>0, Places DEF Inv, RunInv
  <2>3. /\ flags' \subseteq [row : Rows, seen : Nat, anomaly : Anomaly]
        /\ \A f \in flags' : f.anomaly.severity \in Severities
        /\ \A i : Flagged(i)' <=> Flagged(i) \/ i = run.row
        /\ \A i : IncidentsOf(i)' = IncidentsOf(i)
    BY <1>0, <1>2, FlagAdded DEF IncidentsOf
  <2>4. TypeOK'
    <3>1. TypeOK
      BY DEF Inv
    <3> QED
      BY <1>0, <2>1, <2>3, <3>1, LogStays DEF TypeOK, IsClosing
  <2>5. LogInv' /\ QueueInv'
    BY <1>0, <2>1, LogStays DEF Inv, LogInv, QueueInv
  <2>6. RunInv'
    BY <1>0, <1>2, <2>1, <2>2, <2>3, LogStays DEF Inv, RunInv
  <2>7. FlagInv'
    <3>1. \A f \in flags' : f \in flags \/ f.row = run.row
      BY <1>0 DEF AddFlag
    <3> QED
      BY <1>0, <2>1, <2>2, <2>3, <3>1 DEF Inv, FlagInv
  <2>8. IncidentInv'
    BY <1>0, <2>1, <2>3, LogStays DEF Inv, IncidentInv, Grounded
  <2>9. DenialBurstIsEscalated'
    BY <1>0, <2>1, <2>3, LogStays DEF Inv, DenialBurstIsEscalated
  <2>10. RiskInv'
    BY <1>0, <2>1, LogStays DEF Inv, RiskInv, RiskIsSound
  <2> QED
    BY <2>4, <2>5, <2>6, <2>7, <2>8, <2>9, <2>10 DEF Inv
<1> QED
  BY <1>1, <1>2

LEMMA ComposeInv ==
  ASSUME Inv, Compose
  PROVE  Inv'
<1>0. /\ UNCHANGED <<audit, flags, incidents, snapshots, risk, gatewayVars, queue>>
      /\ run.pc = "a3" /\ End("handled")
  BY DEF Compose, gatewayVars
<1>1. run.row \in Rows /\ audit[run.row].status = "HELD" /\ ~ Flagged(run.row)
  BY <1>0 DEF Inv, RunInv
<1>2. /\ risk' \in [Sessions -> -1..100] /\ packets' \subseteq Rows
      /\ snapshots' \subseteq [row : Rows, score : 0..100] /\ RiskIsSound'
  BY <1>0, <1>1, LogStays DEF Inv, TypeOK, RiskInv, RiskIsSound, Compose
<1> QED
  BY <1>0, <1>1, <1>2, EndsQuietly

\* A4 lets go of an event only without three denials and without a flag.
LEMMA EscalateInv ==
  ASSUME Inv, Escalate
  PROVE  Inv'
<1>0. UNCHANGED <<audit, flags, incidents, snapshots, risk, gatewayVars, queue, packets>> /\ run.pc = "a4"
  BY DEF Escalate, gatewayVars, stores
<1>1. /\ risk' \in [Sessions -> -1..100] /\ packets' \subseteq Rows
      /\ snapshots' \subseteq [row : Rows, score : 0..100] /\ RiskIsSound'
  BY <1>0, LogStays DEF Inv, TypeOK, RiskInv, RiskIsSound
<1>2. /\ run.row \in Rows /\ audit[run.row].status \in {"DENIED", "INTENT"}
      /\ Flagged(run.row) => run.anomaly.severity = "high"
  BY <1>0 DEF Inv, RunInv
<1>3. /\ should_promote(run) = "none" =>
           ~ (denials_last_15_min(run.row) >= REPEATED_DENIALS_THRESHOLD) /\ ~ Flagged(run.row)
      /\ should_promote(run) # "none" =>
           \/ should_promote(run) = "repeated_denials"
                /\ denials_last_15_min(run.row) >= REPEATED_DENIALS_THRESHOLD
           \/ should_promote(run) = "high_severity_anomaly" /\ run.anomaly.severity = "high"
  BY <1>2 DEF should_promote
<1>4. CASE should_promote(run) = "none"
  <2>1. /\ Denials(run.row) \in SUBSET Rows /\ DenialsBefore(run.row) = Denials(run.row) \cap (1..run.row)
        /\ denials_last_15_min(run.row) = Cardinality(Denials(run.row))
    BY RowsFinite DEF Inv, TypeOK, DenialsBefore, denials_last_15_min, Denials
  <2>2. /\ Cardinality(DenialsBefore(run.row)) <= denials_last_15_min(run.row)
        /\ Cardinality(DenialsBefore(run.row)) \in Nat /\ denials_last_15_min(run.row) \in Nat
    BY <1>2, <2>1, CountNow DEF Between
  <2>3. ~ (Cardinality(DenialsBefore(run.row)) >= REPEATED_DENIALS_THRESHOLD)
    BY <1>3, <1>4, <2>2 DEF REPEATED_DENIALS_THRESHOLD
  <2>4. End("handled") /\ ~ Flagged(run.row)
    BY <1>3, <1>4 DEF Escalate
  <2> QED
    BY <1>0, <1>1, <2>3, <2>4, EndsQuietly
<1>5. CASE should_promote(run) # "none"
  <2>1. PICK rule \in {"repeated_denials", "high_severity_anomaly"} :
          /\ run' = [run EXCEPT !.pc = "incident", !.rule = rule] /\ UNCHANGED fate
          /\ \/ rule = "repeated_denials" /\ denials_last_15_min(run.row) >= REPEATED_DENIALS_THRESHOLD
             \/ rule = "high_severity_anomaly" /\ run.anomaly.severity = "high"
    BY <1>3, <1>5 DEF Escalate
  <2>2. /\ run' \in RunState /\ run'.row = run.row /\ run'.pc = "incident" /\ run'.rule = rule
        /\ run'.anomaly = run.anomaly /\ run'.score = run.score
    BY <2>1, RunFields DEF Inv, RunState
  <2>3. RunInv'
    BY <1>0, <2>1, <2>2, LogStays, StoresStay DEF Inv, RunInv
  <2>4. RiskInv'
    BY <1>1, <2>2 DEF RiskInv
  <2> QED
    BY <1>0, <1>1, <2>1, <2>2, <2>3, <2>4, GoesOn
<1> QED
  BY <1>4, <1>5

LEMMA PersistIncidentInv ==
  ASSUME Inv, PersistIncident
  PROVE  Inv'
  BY EndsAtIncident DEF PersistIncident

\* A run that fails: its statement may have been carried out or not.
LEMMA FailInv ==
  ASSUME Inv, Fail
  PROVE  Inv'
<1>0. UNCHANGED <<audit, gatewayVars, queue>> /\ run.pc # "idle" /\ PerhapsStored /\ End("failed")
  BY DEF Fail, gatewayVars
<1>1. /\ risk \in [Sessions -> -1..100] /\ packets \subseteq Rows
      /\ snapshots \subseteq [row : Rows, score : 0..100]
      /\ snapshots' = snapshots => RiskIsSound'
  BY <1>0, LogStays DEF Inv, TypeOK, RiskInv, RiskIsSound
<1>2. CASE UNCHANGED stores
  BY <1>0, <1>1, <1>2, EndsQuietly DEF stores
<1>3. CASE /\ run.pc = "risk" /\ risk' = [risk EXCEPT ![audit[run.row].client.session] = run.score]
           /\ UNCHANGED <<snapshots, flags, incidents, packets>>
  <2>1. run.score \in -1..100
    BY RunFields DEF Inv
  <2>2. risk' \in [Sessions -> -1..100]
    BY <1>1, <1>3, <2>1
  <2> QED
    BY <1>0, <1>1, <1>3, <2>2, EndsQuietly
<1>4. CASE run.pc = "snapshot" /\ AddSnapshot /\ UNCHANGED <<risk, flags, incidents, packets>>
  <2>1. snapshots' \subseteq [row : Rows, score : 0..100] /\ RiskIsSound'
    BY <1>0, <1>4, SnapshotAdded
  <2> QED
    BY <1>0, <1>1, <1>4, <2>1, EndsQuietly
<1>5. CASE run.pc = "flag" /\ AddFlag /\ UNCHANGED <<risk, snapshots, incidents, packets>>
  BY <1>0, <1>5, EndsAtFlag
<1>6. CASE run.pc = "incident" /\ AddIncident /\ UNCHANGED <<risk, snapshots, flags, packets>>
  BY <1>0, <1>6, EndsAtIncident
<1> QED
  BY <1>0, <1>2, <1>3, <1>4, <1>5, <1>6 DEF PerhapsStored

-----------------------------------------------------------------------------
(***************************************************************************)
(* The invariant holds, and what it says.                                  *)
(***************************************************************************)

LEMMA NextInv ==
  ASSUME Inv, [Next]_vars
  PROVE  Inv'
<1>1. ASSUME NEW c \in Clients, NEW status \in {"INTENT", "HELD", "DENIED"}, WriteOpening(c, status)
      PROVE  Inv'
  BY <1>1, WriteOpeningInv
<1>2. ASSUME NEW i \in Rows, Publish(i)
      PROVE  Inv'
  BY <1>2, PublishInv
<1>3. ASSUME NEW i \in Rows, NEW status \in {"COMPLETED", "DENIED"}, WriteClosing(i, status)
      PROVE  Inv'
  BY <1>3, WriteClosingInv
<1>4. CASE Tick
  <2>1. now' \in 0..MaxTime
    BY <1>4, ControlPlaneAssumption DEF Tick, Inv, TypeOK
  <2> QED
    BY <1>4, <2>1, ClockInv DEF Tick
<1>5. CASE Restart
  BY <1>5, RestartInv
<1>6. CASE Step
  BY <1>6, TakeInv, ReadCallsInv, ReadHeldInv, ReadDeniedInv, WriteRiskInv, WriteSnapshotInv,
     DetectInv, PersistFlagInv, ComposeInv, EscalateInv, PersistIncidentInv DEF Step
<1>7. CASE Fail
  BY <1>7, FailInv
<1>8. CASE UNCHANGED vars
  <2>1. now \in 0..MaxTime
    BY DEF Inv, TypeOK
  <2> QED
    BY <1>8, <2>1, ClockInv DEF vars, stores
<1>9. CASE Finished
  BY <1>8, <1>9 DEF Finished
<1> QED
  BY <1>1, <1>2, <1>3, <1>4, <1>5, <1>6, <1>7, <1>8, <1>9 DEF Next

LEMMA InvHolds == Spec => []Inv
<1>1. Init => Inv
  BY InitInv
<1>2. Inv /\ [Next]_vars => Inv'
  BY NextInv
<1> QED
  BY <1>1, <1>2, PTL DEF Spec

\* Whatever the gateway writes meanwhile and whatever fails, the state stays well
\* formed, A3 sees only held calls that A1 has enriched, and A4 only denied calls and
\* passed ones with a high-severity anomaly (RoutingInvariant; graph.py).
THEOREM RoutingHolds == Spec => []RoutingInvariant
<1>1. Inv => RoutingInvariant
  BY DEF Inv, RunInv, RoutingInvariant
<1> QED
  BY <1>1, InvHolds, PTL

\* An agent's third denial within 15 minutes is made an incident, unless its run
\* fails or is cut off, although A4 counts the denials in a log that has grown since
\* (DenialBurstIsEscalated; agents/incident_escalator.py).
THEOREM DenialBurstsAreEscalated == Spec => []DenialBurstIsEscalated
<1>1. Inv => DenialBurstIsEscalated
  BY DEF Inv
<1> QED
  BY <1>1, InvHolds, PTL

\* A flag of high severity whose run has been handled is an incident of high severity
\* (HighFlagIsEscalated; agents/anomaly_detector.py, agents/incident_escalator.py).
THEOREM HighFlagsAreEscalated == Spec => []HighFlagIsEscalated
<1>1. Inv => HighFlagIsEscalated
  BY DEF Inv, FlagInv, HighFlagIsEscalated
<1> QED
  BY <1>1, InvHolds, PTL

\* Every incident has its grounds in the log or in the flags, and no event has two,
\* although the insert may be carried out and its reply lost (IncidentIsGrounded).
THEOREM IncidentsAreGrounded == Spec => []IncidentIsGrounded
<1>1. Inv => IncidentIsGrounded
  <2> SUFFICES ASSUME Inv PROVE IncidentIsGrounded
    OBVIOUS
  <2>1. ASSUME NEW k \in DOMAIN incidents
        PROVE  IF incidents[k].rule = "repeated_denials"
               THEN Cardinality(OfAgent(incidents[k].row) \cap With("DENIED")
                                  \cap Since(incidents[k].row, QUARTER)) >= 3
               ELSE \E f \in flags : f.row = incidents[k].row /\ f.anomaly.severity = "high"
    BY DEF Inv, IncidentInv, Grounded, Flagged, denials_last_15_min, REPEATED_DENIALS_THRESHOLD
  <2>2. ASSUME NEW i \in Rows
        PROVE  Cardinality(IncidentsOf(i)) <= 1
    <3>1. CASE IncidentsOf(i) = {}
      BY <3>1, FS_EmptySet
    <3>2. CASE IncidentsOf(i) # {}
      <4>1. PICK k : IncidentsOf(i) = {k}
        BY <3>2 DEF Inv, IncidentInv, IncidentsOf
      <4>2. Cardinality({k}) = 1
        BY FS_Singleton
      <4> QED
        BY <4>1, <4>2
    <3> QED
      BY <3>1, <3>2
  <2> QED
    BY <2>1, <2>2 DEF IncidentIsGrounded
<1> QED
  BY <1>1, InvHolds, PTL

\* A recorded risk score lies between what the log showed when the call was decided
\* and what it shows now, although its three counts are read at different times
\* (RiskIsSound; agents/policy_evaluator.py).
THEOREM RiskScoresAreSound == Spec => []RiskIsSound
<1>1. Inv => RiskIsSound
  BY DEF Inv, RiskInv
<1> QED
  BY <1>1, InvHolds, PTL
=============================================================================
