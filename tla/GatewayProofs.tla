---------------------------- MODULE GatewayProofs ----------------------------
(***************************************************************************)
(* Theorems about GatewayCalls, for any number of requests and reviewers   *)
(* and any length of time: the audit log and the wire agree however        *)
(* requests, reviewers, the upstream server, failures and crashes          *)
(* interleave, and the gateway implements GovernedCalls.                   *)
(***************************************************************************)
EXTENDS GatewayCalls, SequenceTheorems, TLAPS

(***************************************************************************)
(* The inductive invariant.  A request is alone with its rows: no other    *)
(* writes rows in its name, so what it has done so far can be read off     *)
(* where it is.                                                            *)
(***************************************************************************)

\* What the ticket queue must bring: a decision that Redis holds or a waiter has seen was
\* written by the reviewer it names, and what is undecided names nobody.
Attributed(t, s) ==
  IF s.status \in H!Decisions
  THEN \E d \in written : d.ticket = t /\ d.by = s.by /\ d.status = s.status
  ELSE s.by = NoReviewer

TicketInv ==
  /\ \A t \in Calls : Attributed(t, redis[t]) /\ Attributed(t, wait[t].seen)
  /\ \A r \in Reviewers : rev[r].pc \in {"hset", "srem"} =>
       rev[r].ticket \in Calls /\ rev[r].status \in H!Decisions

Opened(c)   == Rows(c) = {call[c].opening} /\ audit[call[c].opening] = OpeningRow(c)
Approved(c) == call[c].verdict = "HOLD" /\ wait[c].seen.status = "APPROVED"

\* The rows, the request on the wire and the event of a call that is under way.
StageInv(c) ==
  LET pc == call[c].pc IN
  /\ pc \in {"idle", "open"} => Rows(c) = {} /\ call[c].opening = 0
  /\ pc \in {"idle", "open", "opened", "ticketed", "waiting"} => up[c] = "none"
  /\ pc \in {"opened", "ticketed", "waiting", "forward", "close"} => Opened(c)
  /\ pc \in {"opened", "ticketed"} => call[c].opening \notin Published
  /\ pc \in {"waiting", "forward", "close"} => call[c].opening \in Published
  /\ pc \in {"ticketed", "waiting"} => call[c].verdict = "HOLD"
  /\ pc = "forward" => up[c] # "none" /\ (call[c].verdict = "PASS" \/ Approved(c))
  /\ pc = "close" =>
       IF call[c].closing = "DENIED"
       THEN up[c] = "none" /\ call[c].verdict = "HOLD" /\ wait[c].seen.status # "APPROVED"
       ELSE up[c] # "none" /\ (call[c].verdict = "PASS" \/ Approved(c))
  /\ pc # "done" => call[c].resp = "none"

\* One call's part of RowShapes.
RowShape(c) ==
  /\ \A i, j \in Rows(c) : IsOpening(i) /\ IsOpening(j) => i = j
  /\ \A i \in Rows(c) : ~ IsOpening(i) =>
       /\ audit[i].parent \in Rows(c) /\ audit[i].parent < i
       /\ audit[audit[i].parent].status \in
            IF audit[i].status = "DENIED" THEN {"HELD"} ELSE {"HELD", "INTENT"}
       /\ \A j \in Rows(c) : ~ IsOpening(j) => i = j

\* A call that is refused in the log is not allowed anywhere.
RefusalInv(c) == Has(c, "DENIED") => up[c] = "none" /\ ~ Has(c, "INTENT")

\* One call's part of AnswerIsRecorded, ForwardedIsAuthorised and OpeningsArePublished.
AnswerInv(c) ==
  /\ call[c].resp = "result" => Has(c, "COMPLETED")
  /\ call[c].resp = "error"  => Has(c, "UPSTREAM_ERROR")
  /\ call[c].resp = "denied" => Has(c, "DENIED")
  /\ Has(c, "COMPLETED") \/ Has(c, "UPSTREAM_ERROR") => up[c] # "none"

ForwardInv(c) ==
  up[c] # "none" =>
    \/ Has(c, "INTENT")
    \/ Has(c, "HELD") /\ \E d \in written : d.ticket = c /\ d.status = "APPROVED"

EventInv(c) ==
  /\ call[c].opening # 0 => call[c].opening \in Rows(c) /\ IsOpening(call[c].opening)
  /\ At(c, "done") /\ call[c].opening # 0 /\ call[c].resp \notin {"lost", "500"}
       => call[c].opening \in Published

CallInv(c) == StageInv(c) /\ RowShape(c) /\ RefusalInv(c) /\ AnswerInv(c) /\ ForwardInv(c) /\ EventInv(c)

\* Events refer to rows that opened a call, no two to the same.
EventsInv ==
  /\ \A k \in DOMAIN events : events[k] \in DOMAIN audit /\ IsOpening(events[k])
  /\ \A k, m \in DOMAIN events : events[k] = events[m] => k = m

\* The inductive invariant.
Inv ==
  /\ TypeOK /\ TicketInv /\ ReviewIsAttributed /\ EventsInv
  /\ \A c \in Calls : CallInv(c)

-----------------------------------------------------------------------------
(***************************************************************************)
(* Lemmas about the log, the events and a call that a step does not touch. *)
(***************************************************************************)

\* A row that is written in the name of c leaves every other row, and every other
\* call's rows, as they are.
LEMMA AppendRow ==
  ASSUME TypeOK, NEW c \in Calls, NEW row \in AuditRow, row.call = c, audit' = Append(audit, row)
  PROVE  /\ audit' \in Seq(AuditRow)
         /\ Len(audit) + 1 \in Nat \ DOMAIN audit /\ \A i \in DOMAIN audit : i < Len(audit) + 1
         /\ DOMAIN audit' = DOMAIN audit \cup {Len(audit) + 1}
         /\ audit'[Len(audit) + 1] = row
         /\ \A i \in DOMAIN audit : audit'[i] = audit[i]
         /\ Rows(c)' = Rows(c) \cup {Len(audit) + 1}
         /\ \A d \in Calls \ {c} : Rows(d)' = Rows(d)
<1>1. audit \in Seq(AuditRow)
  BY DEF TypeOK
<1>2. /\ audit' \in Seq(AuditRow)
      /\ Len(audit) \in Nat /\ DOMAIN audit = 1..Len(audit) /\ DOMAIN audit' = 1..Len(audit) + 1
      /\ audit'[Len(audit) + 1] = row
      /\ \A i \in DOMAIN audit : audit'[i] = audit[i]
  BY <1>1, AppendProperties
<1>3. /\ DOMAIN audit' = DOMAIN audit \cup {Len(audit) + 1} /\ Len(audit) + 1 \in Nat \ DOMAIN audit
      /\ \A i \in DOMAIN audit : i < Len(audit) + 1
  BY <1>2
<1>4. Rows(c)' = Rows(c) \cup {Len(audit) + 1}
  BY <1>2, <1>3 DEF Rows
<1>5. \A d \in Calls \ {c} : Rows(d)' = Rows(d)
  BY <1>2, <1>3 DEF Rows
<1> QED
  BY <1>2, <1>3, <1>4, <1>5

\* An event that is published is added to those that were.
LEMMA AppendEvent ==
  ASSUME events \in Seq(Nat), NEW e \in Nat, events' = Append(events, e)
  PROVE  /\ events' \in Seq(Nat)
         /\ Len(events) + 1 \in Nat \ DOMAIN events
         /\ DOMAIN events' = DOMAIN events \cup {Len(events) + 1}
         /\ events'[Len(events) + 1] = e
         /\ \A k \in DOMAIN events : events'[k] = events[k]
         /\ Published' = Published \cup {e}
<1>1. /\ events' \in Seq(Nat)
      /\ Len(events) \in Nat /\ DOMAIN events = 1..Len(events) /\ DOMAIN events' = 1..Len(events) + 1
      /\ events'[Len(events) + 1] = e
      /\ \A k \in DOMAIN events : events'[k] = events[k]
  BY AppendProperties
<1>2. DOMAIN events' = DOMAIN events \cup {Len(events) + 1} /\ Len(events) + 1 \in Nat \ DOMAIN events
  BY <1>1
<1>3. Published' = Published \cup {e}
  BY <1>1, <1>2 DEF Published
<1> QED
  BY <1>1, <1>2, <1>3

\* What is attributed stays so: decisions are only ever added.
LEMMA AttributedStays ==
  ASSUME NEW t, NEW s, Attributed(t, s), written \subseteq written'
  PROVE  IF s.status \in H!Decisions
         THEN \E d \in written' : d.ticket = t /\ d.by = s.by /\ d.status = s.status
         ELSE s.by = NoReviewer
  BY DEF Attributed

\* A call whose own state, rows, request and event a step leaves alone keeps its invariant.
LEMMA CallFrame ==
  ASSUME NEW c \in Calls, CallInv(c), call'[c] = call[c], up'[c] = up[c],
         wait'[c].seen = wait[c].seen, written \subseteq written',
         Rows(c)' = Rows(c), \A i \in Rows(c) : audit'[i] = audit[i],
         Published \subseteq Published',
         call[c].opening \in Published' => call[c].opening \in Published
  PROVE  CallInv(c)'
<1>1. \A i \in Rows(c) : IsOpening(i)' <=> IsOpening(i)
  BY DEF IsOpening
<1>2. \A s : Has(c, s)' <=> Has(c, s)
  BY DEF Has
<1>3. OpeningRow(c)' = OpeningRow(c)
  BY DEF OpeningRow
<1>4. StageInv(c)'
  BY <1>3 DEF CallInv, StageInv, Opened, Approved
<1>5. RowShape(c)'
  BY <1>1 DEF CallInv, RowShape
<1>6. RefusalInv(c)' /\ AnswerInv(c)' /\ ForwardInv(c)'
  BY <1>2 DEF CallInv, RefusalInv, AnswerInv, ForwardInv
<1>7. EventInv(c)'
  BY <1>1 DEF CallInv, EventInv, At
<1> QED
  BY <1>4, <1>5, <1>6, <1>7 DEF CallInv

-----------------------------------------------------------------------------
(***************************************************************************)
(* The ticket queue under the gateway.                                     *)
(***************************************************************************)
HInv == H!TypeOK /\ TicketInv

\* A step of a waiter that takes nothing new from Redis, and writes an open ticket or nothing.
LEMMA WaiterStep ==
  ASSUME HInv, UNCHANGED <<now, rev, written, told>>,
         wait' \in [Calls -> H!WaiterState], \A t \in Calls : wait'[t].seen = wait[t].seen,
         redis' \in [Calls -> H!Hash], pending' \subseteq Calls,
         \A t \in Calls : \/ redis'[t] = redis[t]
                          \/ redis'[t].status = "PENDING" /\ redis'[t].by = NoReviewer
  PROVE  HInv'
<1>1. H!TypeOK'
  BY DEF HInv, H!TypeOK
<1>2. ASSUME NEW t \in Calls PROVE Attributed(t, redis[t])' /\ Attributed(t, wait[t].seen)'
  BY DEF HInv, TicketInv, Attributed, H!Decisions
<1>3. TicketInv'
  BY <1>2 DEF HInv, TicketInv
<1> QED
  BY <1>1, <1>3 DEF HInv

\* The fields of a waiter other than what it has seen.
LEMMA WaiterFields ==
  ASSUME NEW w \in H!WaiterState, NEW p \in {"created", "poll", "returned", "gone"},
         NEW deadline \in Nat, NEW at \in 0..MaxTime
  PROVE  /\ [w EXCEPT !.pc = p] \in H!WaiterState /\ [w EXCEPT !.pc = p].seen = w.seen
         /\ [w EXCEPT !.pc = p, !.at = at] \in H!WaiterState
         /\ [w EXCEPT !.pc = p, !.at = at].seen = w.seen
         /\ [w EXCEPT !.pc = p, !.deadline = deadline] \in H!WaiterState
         /\ [w EXCEPT !.pc = p, !.deadline = deadline].seen = w.seen
  BY DEF H!WaiterState

\* The ticket that create_ticket stores.
LEMMA TicketStored ==
  ASSUME HInv, NEW c \in Calls, H!PutTicket(c)
  PROVE  /\ redis' \in [Calls -> H!Hash] /\ pending' \subseteq Calls
         /\ \A t \in Calls : \/ redis'[t] = redis[t]
                             \/ redis'[t].status = "PENDING" /\ redis'[t].by = NoReviewer
<1>1. now + TIMEOUT + GRACE \in Nat
  BY GatewayAssumption DEF HInv, H!TypeOK
<1>2. [status |-> "PENDING", by |-> NoReviewer, expires |-> now + TIMEOUT + GRACE] \in H!Hash
  BY <1>1 DEF H!Hash, H!Statuses
<1> QED
  BY <1>2 DEF H!PutTicket, HInv, H!TypeOK

\* Every step of the gateway's waiters but PollRead leaves what they have seen alone.
LEMMA WaitersInv ==
  ASSUME HInv, NEW c \in Calls,
         \/ H!create_ticket(c)
         \/ H!PutTicket(c) /\ wait' = [wait EXCEPT ![c].pc = "gone"] /\ UNCHANGED <<now, rev, written, told>>
         \/ H!StartWait(c) \/ H!PollCheck(c) \/ H!WaiterGone(c)
  PROVE  HInv' /\ written' = written /\ now' = now /\ \A t \in Calls : wait'[t].seen = wait[t].seen
<1> USE GatewayAssumption
<1>0. /\ wait \in [Calls -> H!WaiterState] /\ now \in 0..MaxTime /\ now + TIMEOUT \in Nat
      /\ redis \in [Calls -> H!Hash] /\ pending \subseteq Calls
  BY DEF HInv, H!TypeOK
<1>1. CASE H!create_ticket(c)
  <2>1. /\ wait' = [wait EXCEPT ![c] = [wait[c] EXCEPT !.pc = "created", !.at = now]]
        /\ H!PutTicket(c) /\ UNCHANGED <<now, rev, written, told>>
    BY <1>0, <1>1 DEF H!create_ticket, H!WaiterState
  <2>2. /\ [wait[c] EXCEPT !.pc = "created", !.at = now] \in H!WaiterState
        /\ [wait[c] EXCEPT !.pc = "created", !.at = now].seen = wait[c].seen
    BY <1>0, WaiterFields
  <2>3. wait' \in [Calls -> H!WaiterState] /\ \A t \in Calls : wait'[t].seen = wait[t].seen
    BY <1>0, <2>1, <2>2
  <2> QED
    BY <2>1, <2>3, TicketStored, WaiterStep
<1>2. CASE /\ H!PutTicket(c) /\ wait' = [wait EXCEPT ![c].pc = "gone"]
           /\ UNCHANGED <<now, rev, written, told>>
  <2>1. wait' \in [Calls -> H!WaiterState] /\ \A t \in Calls : wait'[t].seen = wait[t].seen
    BY <1>0, <1>2, WaiterFields, ZenonT(60)
  <2> QED
    BY <1>2, <2>1, TicketStored, WaiterStep
<1>3. CASE H!StartWait(c)
  <2>1. /\ wait' = [wait EXCEPT ![c] = [wait[c] EXCEPT !.pc = "poll", !.deadline = now + TIMEOUT]]
        /\ UNCHANGED <<now, redis, pending, rev, written, told>>
    BY <1>0, <1>3 DEF H!StartWait, H!WaiterState
  <2>2. /\ [wait[c] EXCEPT !.pc = "poll", !.deadline = now + TIMEOUT] \in H!WaiterState
        /\ [wait[c] EXCEPT !.pc = "poll", !.deadline = now + TIMEOUT].seen = wait[c].seen
    BY <1>0, WaiterFields
  <2>3. wait' \in [Calls -> H!WaiterState] /\ \A t \in Calls : wait'[t].seen = wait[t].seen
    BY <1>0, <2>1, <2>2
  <2> QED
    BY <1>0, <2>1, <2>3, WaiterStep
<1>4. CASE H!PollCheck(c) \/ H!WaiterGone(c)
  <2>1. PICK p \in {"returned", "poll", "gone"} : wait' = [wait EXCEPT ![c].pc = p]
    BY <1>4 DEF H!PollCheck, H!WaiterGone
  <2>2. wait' \in [Calls -> H!WaiterState] /\ \A t \in Calls : wait'[t].seen = wait[t].seen
    BY <1>0, <2>1, WaiterFields, ZenonT(60)
  <2>3. UNCHANGED <<now, redis, pending, rev, written, told>>
    BY <1>4 DEF H!PollCheck, H!WaiterGone
  <2> QED
    BY <1>0, <2>2, <2>3, WaiterStep
<1> QED
  BY <1>1, <1>2, <1>3, <1>4

\* What PollRead sees is what Redis holds, or nothing.
LEMMA PollReadInv ==
  ASSUME HInv, NEW c \in Calls, H!PollRead(c)
  PROVE  HInv' /\ written' = written /\ \A t \in Calls \ {c} : wait'[t].seen = wait[t].seen
<1>0. wait \in [Calls -> H!WaiterState] /\ redis \in [Calls -> H!Hash] /\ now \in 0..MaxTime
  BY DEF HInv, H!TypeOK
<1>1. H!Seen(c) \in [status : H!Statuses, by : Reviewers \cup {NoReviewer}]
  BY <1>0 DEF H!Seen, H!StatusOf, H!Hash, H!Statuses
<1>2. Attributed(c, H!Seen(c))
  <2>1. CASE H!Live(c)
    BY <2>1 DEF HInv, TicketInv, Attributed, H!Seen, H!StatusOf
  <2>2. CASE ~ H!Live(c)
    BY <2>2 DEF Attributed, H!Seen, H!StatusOf, H!Decisions
  <2> QED
    BY <2>1, <2>2
<1>3. [wait[c] EXCEPT !.pc = "check", !.at = now, !.seen = H!Seen(c)] \in H!WaiterState
  BY <1>0, <1>1 DEF H!WaiterState
<1>4. /\ wait' = [wait EXCEPT ![c] = [wait[c] EXCEPT !.pc = "check", !.at = now, !.seen = H!Seen(c)]]
      /\ UNCHANGED <<now, redis, pending, rev, written, told>>
  BY <1>0 DEF H!PollRead, H!WaiterState
<1>5. wait'[c].seen = H!Seen(c) /\ \A t \in Calls \ {c} : wait'[t] = wait[t]
  BY <1>0, <1>4 DEF H!WaiterState
<1>6. H!TypeOK'
  BY <1>0, <1>3, <1>4 DEF HInv, H!TypeOK
<1>7. ASSUME NEW t \in Calls PROVE Attributed(t, redis[t])' /\ Attributed(t, wait[t].seen)'
  BY <1>2, <1>4, <1>5 DEF HInv, TicketInv, Attributed
<1>8. TicketInv'
  BY <1>4, <1>7 DEF HInv, TicketInv
<1> QED
  BY <1>4, <1>5, <1>6, <1>8 DEF HInv

\* A reviewer's decision is attributed from the moment it is in Redis.
LEMMA DecideWriteInv ==
  ASSUME HInv, NEW r \in Reviewers, H!DecideWrite(r)
  PROVE  HInv' /\ written \subseteq written' /\ wait' = wait
<1> DEFINE u == rev[r].ticket
           h == [status |-> rev[r].status, by |-> r,
                 expires |-> IF H!Live(u) THEN redis[u].expires ELSE H!NEVER]
           d == [ticket |-> u, by |-> r, status |-> rev[r].status, at |-> now]
<1>0. /\ u \in Calls /\ rev[r].status \in H!Decisions
      /\ redis \in [Calls -> H!Hash] /\ rev \in [Reviewers -> H!ReviewerState] /\ now \in 0..MaxTime
  BY DEF HInv, TicketInv, H!TypeOK, H!DecideWrite
<1>1. d \in H!Decision /\ h \in H!Hash /\ [rev[r] EXCEPT !.pc = "srem"] \in H!ReviewerState
  BY <1>0, GatewayAssumption DEF H!Decision, H!Hash, H!Statuses, H!NEVER, H!ReviewerState
<1>2. /\ redis' = [redis EXCEPT ![u] = h]
      /\ written' = written \cup {d}
      /\ rev' = [rev EXCEPT ![r] = [rev[r] EXCEPT !.pc = "srem"]]
      /\ UNCHANGED <<now, pending, wait, told>>
  BY <1>0 DEF H!DecideWrite
<1>3. H!TypeOK'
  BY <1>0, <1>1, <1>2 DEF HInv, H!TypeOK
<1>4. d \in written' /\ d.ticket = u /\ d.by = r /\ d.status = rev[r].status
  BY <1>2
<1>5. /\ redis'[u].by = r /\ redis'[u].status = rev[r].status
      /\ \A t \in Calls \ {u} : redis'[t] = redis[t]
  BY <1>0, <1>2
<1>6. \A q \in Reviewers : rev'[q].pc \in {"hset", "srem"} =>
        rev'[q].ticket \in Calls /\ rev'[q].status \in H!Decisions
  BY <1>0, <1>2 DEF HInv, TicketInv, H!ReviewerState
<1> HIDE DEF d, h, u
<1>7. ASSUME NEW t \in Calls PROVE Attributed(t, wait[t].seen)'
  BY <1>2 DEF HInv, TicketInv, Attributed
<1>8. ASSUME NEW t \in Calls PROVE Attributed(t, redis[t])'
  <2>1. CASE t = u
    BY <1>0, <1>4, <1>5, <2>1 DEF Attributed
  <2>2. CASE t # u
    BY <1>2, <1>5, <2>2 DEF HInv, TicketInv, Attributed
  <2> QED
    BY <2>1, <2>2
<1> QED
  BY <1>2, <1>3, <1>6, <1>7, <1>8 DEF HInv, TicketInv

\* Nothing else that a reviewer or the clock does touches a ticket or a waiter.
LEMMA OthersInv ==
  ASSUME HInv,
         \/ \E r \in Reviewers : \/ \E c \in Calls, s \in H!Decisions : H!DecideRead(r, c, s)
                                 \/ H!DecideSrem(r) \/ H!ReviewerGone(r)
         \/ H!Tick
         \/ UNCHANGED hitlVars
  PROVE  HInv' /\ written' = written /\ wait' = wait
<1> USE GatewayAssumption
<1>0. UNCHANGED <<redis, wait, written>>
  BY DEF H!DecideRead, H!DecideSrem, H!ReviewerGone, H!Tick, hitlVars
<1>1. (\A t \in Calls : Attributed(t, redis[t]) /\ Attributed(t, wait[t].seen))'
  BY <1>0 DEF HInv, TicketInv, Attributed
<1>2. ASSUME NEW r \in Reviewers, NEW c \in Calls, NEW s \in H!Decisions, H!DecideRead(r, c, s)
      PROVE  HInv'
  <2>1. [pc |-> "hset", ticket |-> c, status |-> s, todo |-> {}] \in H!ReviewerState
    BY DEF H!ReviewerState
  <2> QED
    BY <1>1, <1>2, <2>1 DEF H!DecideRead, HInv, H!TypeOK, TicketInv
<1>3. ASSUME NEW r \in Reviewers, H!DecideSrem(r) PROVE HInv'
  <2>1. H!Idle \in H!ReviewerState /\ H!Idle.pc = "idle"
    BY DEF H!ReviewerState, H!Idle
  <2>2. [ticket |-> rev[r].ticket, by |-> r, status |-> rev[r].status]
          \in [ticket : Calls, by : Reviewers, status : H!Decisions]
    BY <1>3 DEF H!DecideSrem, HInv, TicketInv
  <2> QED
    BY <1>1, <1>3, <2>1, <2>2 DEF H!DecideSrem, HInv, H!TypeOK, TicketInv
<1>4. ASSUME NEW r \in Reviewers, H!ReviewerGone(r) PROVE HInv'
  <2>1. H!Idle \in H!ReviewerState /\ H!Idle.pc = "idle"
    BY DEF H!ReviewerState, H!Idle
  <2> QED
    BY <1>1, <1>4, <2>1 DEF H!ReviewerGone, HInv, H!TypeOK, TicketInv
<1>5. CASE H!Tick
  BY <1>1, <1>5 DEF H!Tick, HInv, H!TypeOK, TicketInv
<1>6. CASE UNCHANGED hitlVars
  BY <1>1, <1>6 DEF hitlVars, HInv, H!TypeOK, TicketInv
<1> QED
  BY <1>0, <1>2, <1>3, <1>4, <1>5, <1>6

-----------------------------------------------------------------------------
(***************************************************************************)
(* A step of one call: it is enough to look at that call.                  *)
(***************************************************************************)

\* The calls that do not move.
LEMMA OthersKeep ==
  ASSUME Inv, NEW c \in Calls, written \subseteq written',
         \A d \in Calls \ {c} : /\ call'[d] = call[d] /\ up'[d] = up[d]
                                /\ wait'[d].seen = wait[d].seen /\ Rows(d)' = Rows(d),
         \A i \in DOMAIN audit : audit'[i] = audit[i],
         Published \subseteq Published', Published' \subseteq Published \cup Rows(c)
  PROVE  \A d \in Calls \ {c} : CallInv(d)'
<1> SUFFICES ASSUME NEW d \in Calls \ {c} PROVE CallInv(d)'
  OBVIOUS
<1>1. CallInv(d) /\ EventInv(d)
  BY DEF Inv, CallInv
<1>2. call[d].opening \in Rows(c) => call[d].opening \notin Rows(d)
  BY DEF Rows
<1>3. 0 \notin Rows(c)
  BY DEF Inv, TypeOK, Rows
<1>4. call[d].opening \in Published' => call[d].opening \in Published
  BY <1>1, <1>2, <1>3 DEF EventInv
<1>5. \A i \in Rows(d) : audit'[i] = audit[i]
  BY DEF Rows
<1> QED
  BY <1>1, <1>4, <1>5, CallFrame

\* The log and its rows, where no row is written.
LEMMA LogStays ==
  ASSUME audit' = audit
  PROVE  /\ \A c \in Calls : Rows(c)' = Rows(c)
         /\ \A c \in Calls : \A s : Has(c, s)' <=> Has(c, s)
         /\ \A i : IsOpening(i)' <=> IsOpening(i)
         /\ \A c \in Calls : RowShape(c) => RowShape(c)'
<1>1. /\ \A c \in Calls : Rows(c)' = Rows(c)
      /\ \A i : IsOpening(i)' <=> IsOpening(i)
  BY DEF Rows, IsOpening
<1>2. \A c \in Calls : \A s : Has(c, s)' <=> Has(c, s)
  BY <1>1 DEF Has
<1>3. \A c \in Calls : RowShape(c) => RowShape(c)'
  BY <1>1 DEF RowShape
<1> QED
  BY <1>1, <1>2, <1>3

\* A call that moves without a row, an event or a request.
LEMMA CallMoves ==
  ASSUME NEW c \in Calls, CallInv(c), UNCHANGED <<audit, events>>, written' = written,
         call'[c].opening = call[c].opening,
         call'[c].resp \in {"none", "ungoverned", "500", "lost", call[c].resp},
         up[c] # "none" <=> up'[c] # "none",
         call'[c].pc = "done" => \/ call'[c].resp \in {"500", "lost"} \/ call[c].opening = 0
                                 \/ call'[c] = call[c],
         StageInv(c)'
  PROVE  CallInv(c)'
<1>1. Published' = Published
  BY DEF Published
<1>2. RowShape(c)' /\ RefusalInv(c)' /\ ForwardInv(c)'
  BY LogStays DEF CallInv, RefusalInv, ForwardInv
<1>3. AnswerInv(c)'
  BY LogStays DEF CallInv, AnswerInv
<1>4. EventInv(c)'
  BY <1>1, LogStays DEF CallInv, EventInv, At
<1> QED
  BY <1>2, <1>3, <1>4 DEF CallInv

\* A step that leaves the log and the events alone.
LEMMA QuietStep ==
  ASSUME Inv, NEW c \in Calls, HInv', written' = written, UNCHANGED <<audit, events>>,
         call' \in [Calls -> CallState], up' \in [Calls -> {"none", "sent", "executed", "refused"}],
         \A d \in Calls \ {c} : /\ call'[d] = call[d] /\ up'[d] = up[d]
                                /\ wait'[d].seen = wait[d].seen,
         CallInv(c)'
  PROVE  Inv'
<1>1. Published' = Published
  BY DEF Published
<1>2. \A d \in Calls \ {c} : CallInv(d)'
  BY <1>1, LogStays, OthersKeep
<1>3. TypeOK' /\ TicketInv'
  BY <1>1 DEF Inv, TypeOK, HInv
<1>4. ReviewIsAttributed'
  BY DEF Inv, ReviewIsAttributed
<1>5. EventsInv'
  BY LogStays DEF Inv, EventsInv
<1> QED
  BY <1>2, <1>3, <1>4, <1>5 DEF Inv

\* A step that announces the row with which the call was opened.
LEMMA EventStep ==
  ASSUME Inv, NEW c \in Calls, HInv', written' = written, audit' = audit,
         call[c].pc \in {"opened", "ticketed"}, events' = Append(events, call[c].opening),
         call' \in [Calls -> CallState], up' \in [Calls -> {"none", "sent", "executed", "refused"}],
         \A d \in Calls \ {c} : /\ call'[d] = call[d] /\ up'[d] = up[d]
                                /\ wait'[d].seen = wait[d].seen,
         CallInv(c)'
  PROVE  Inv'
<1> DEFINE e == call[c].opening
<1>0. e \in Rows(c) /\ e \notin Published /\ audit[e] = OpeningRow(c)
  BY DEF Inv, CallInv, StageInv, Opened
<1>1. e \in DOMAIN audit /\ e \in Nat /\ IsOpening(e)
  BY <1>0 DEF Rows, Inv, TypeOK, IsOpening, OpeningRow, OpeningStatus, Openings, CallState, Verdicts
<1> HIDE DEF e
<1>2. /\ events' \in Seq(Nat) /\ Published' = Published \cup {e}
      /\ DOMAIN events' = DOMAIN events \cup {Len(events) + 1} /\ events'[Len(events) + 1] = e
      /\ \A k \in DOMAIN events : events'[k] = events[k]
  BY <1>1, AppendEvent DEF Inv, TypeOK, e
<1>3. \A d \in Calls \ {c} : CallInv(d)'
  BY <1>0, <1>2, LogStays, OthersKeep
<1>4. TypeOK' /\ TicketInv'
  BY <1>1, <1>2 DEF Inv, TypeOK, HInv
<1>5. ReviewIsAttributed'
  BY DEF Inv, ReviewIsAttributed
<1>6. \A k \in DOMAIN events : events[k] # e
  BY <1>0 DEF Published
<1>7. EventsInv'
  BY <1>1, <1>2, <1>6, LogStays DEF Inv, EventsInv
<1> QED
  BY <1>3, <1>4, <1>5, <1>7 DEF Inv

\* A step that writes a row in the name of the call.
LEMMA RowStep ==
  ASSUME Inv, NEW c \in Calls, UNCHANGED <<events, up, hitlVars>>,
         NEW row \in AuditRow, row.call = c, audit' = Append(audit, row),
         row.by # NoReviewer =>
           \E d \in written :
             /\ d.ticket = c /\ d.by = row.by
             /\ d.status = IF row.status = "DENIED" THEN "DENIED" ELSE "APPROVED",
         call' \in [Calls -> CallState], \A d \in Calls \ {c} : call'[d] = call[d],
         CallInv(c)'
  PROVE  Inv'
<1>0. HInv' /\ written' = written /\ wait' = wait
  BY OthersInv DEF Inv, TypeOK, HInv
<1>1. /\ audit' \in Seq(AuditRow)
      /\ DOMAIN audit' = DOMAIN audit \cup {Len(audit) + 1}
      /\ audit'[Len(audit) + 1] = row
      /\ \A i \in DOMAIN audit : audit'[i] = audit[i]
      /\ \A d \in Calls \ {c} : Rows(d)' = Rows(d)
  BY AppendRow DEF Inv
<1>2. Published' = Published
  BY DEF Published
<1>3. \A d \in Calls \ {c} : CallInv(d)'
  BY <1>0, <1>1, <1>2, OthersKeep
<1>4. TypeOK' /\ TicketInv'
  BY <1>0, <1>1, <1>2 DEF Inv, TypeOK, HInv
<1>5. ReviewIsAttributed'
  BY <1>0, <1>1 DEF Inv, ReviewIsAttributed
<1>6. EventsInv'
  BY <1>1 DEF Inv, EventsInv, IsOpening
<1> QED
  BY <1>3, <1>4, <1>5, <1>6 DEF Inv

-----------------------------------------------------------------------------
(***************************************************************************)
(* The steps of a call, one lemma for each action or kind of action.       *)
(***************************************************************************)

LEMMA InitInv == Init => Inv
<1> SUFFICES ASSUME Init PROVE Inv
  OBVIOUS
<1> USE DEF Init
<1>1. /\ audit = <<>> /\ DOMAIN audit = {} /\ audit \in Seq(AuditRow)
      /\ events = <<>> /\ DOMAIN events = {} /\ events \in Seq(Nat)
  OBVIOUS
<1>2. Published = {} /\ \A c \in Calls : Rows(c) = {}
  BY <1>1 DEF Published, Rows
<1>3. \A c \in Calls : \A s : ~ Has(c, s)
  BY <1>2 DEF Has
<1>4. /\ call \in [Calls -> CallState] /\ up \in [Calls -> {"none", "sent", "executed", "refused"}]
      /\ \A c \in Calls : /\ call[c].pc = "idle" /\ call[c].opening = 0
                          /\ call[c].resp = "none" /\ up[c] = "none"
  BY DEF CallState, Verdicts
<1>5. H!TypeOK
  <2>1. H!Absent \in H!Hash /\ H!Idle \in H!ReviewerState
    BY DEF H!Absent, H!Idle, H!Hash, H!ReviewerState, H!Statuses
  <2>2. [pc |-> "none", deadline |-> 0, at |-> 0, seen |-> H!Unseen] \in H!WaiterState
    BY GatewayAssumption DEF H!WaiterState, H!Unseen, H!Statuses
  <2> QED
    BY <2>1, <2>2, GatewayAssumption DEF H!Init, H!TypeOK
<1>6. TicketInv
  BY DEF TicketInv, Attributed, H!Init, H!Absent, H!Idle, H!Unseen, H!Decisions
<1>7. TypeOK /\ ReviewIsAttributed /\ EventsInv
  BY <1>1, <1>2, <1>4, <1>5 DEF TypeOK, ReviewIsAttributed, EventsInv
<1>8. \A c \in Calls : StageInv(c) /\ RowShape(c)
  BY <1>2, <1>4 DEF StageInv, RowShape
<1>9. \A c \in Calls : RefusalInv(c) /\ AnswerInv(c) /\ ForwardInv(c) /\ EventInv(c)
  BY <1>3, <1>4 DEF RefusalInv, AnswerInv, ForwardInv, EventInv, At
<1> HIDE DEF Init
<1> QED
  BY <1>6, <1>7, <1>8, <1>9 DEF Inv, CallInv

\* What the call that moves starts from.
LEMMA Before ==
  ASSUME Inv, NEW c \in Calls
  PROVE  /\ call \in [Calls -> CallState] /\ up \in [Calls -> {"none", "sent", "executed", "refused"}]
         /\ CallInv(c) /\ StageInv(c) /\ HInv
  BY DEF Inv, TypeOK, CallInv, HInv

\* A coroutine that ends without a row of its own: an ungoverned message, a store that fails.
LEMMA EndsInv ==
  ASSUME Inv, NEW c \in Calls, NEW resp \in {"ungoverned", "500"}, Finish(c, resp),
         resp = "ungoverned" => At(c, "idle"),
         HInv', written' = written, UNCHANGED <<audit, events, up>>,
         \A d \in Calls : wait'[d].seen = wait[d].seen
  PROVE  Inv'
<1> DEFINE v == [call[c] EXCEPT !.pc = "done", !.resp = resp]
<1>1. /\ v \in CallState /\ v.pc = "done" /\ v.resp = resp /\ v.opening = call[c].opening
      /\ v.verdict = call[c].verdict
  BY Before DEF CallState
<1>2. call' = [call EXCEPT ![c] = v]
  BY Before DEF Finish
<1> HIDE DEF v
<1>3. call' \in [Calls -> CallState] /\ call'[c] = v /\ \A d \in Calls \ {c} : call'[d] = call[d]
  BY <1>1, <1>2, Before
<1>4. StageInv(c)'
  BY <1>1, <1>3 DEF StageInv
<1>5. resp = "ungoverned" => call[c].opening = 0
  BY Before DEF StageInv, At
<1>6. CallInv(c)'
  BY <1>1, <1>3, <1>4, <1>5, Before, CallMoves
<1> QED
  BY <1>3, <1>6, Before, QuietStep

LEMMA NotAToolCallInv ==
  ASSUME Inv, NEW c \in Calls, NotAToolCall(c)
  PROVE  Inv'
<1>1. HInv' /\ written' = written /\ wait' = wait
  BY Before, OthersInv DEF NotAToolCall
<1> QED
  BY <1>1, EndsInv DEF NotAToolCall

LEMMA EvaluateInv ==
  ASSUME Inv, NEW c \in Calls, Evaluate(c)
  PROVE  Inv'
<1>1. PICK x \in Verdicts : call' = [call EXCEPT ![c].pc = "open", ![c].verdict = x]
  BY DEF Evaluate
<1> DEFINE v == [call[c] EXCEPT !.pc = "open", !.verdict = x]
<1>2. /\ v \in CallState /\ v.pc = "open" /\ v.resp = call[c].resp /\ v.opening = call[c].opening
      /\ call' = [call EXCEPT ![c] = v]
  BY <1>1, Before DEF CallState
<1> HIDE DEF v
<1>3. call' \in [Calls -> CallState] /\ call'[c] = v /\ \A d \in Calls \ {c} : call'[d] = call[d]
  BY <1>2, Before
<1>4. UNCHANGED <<audit, events, up>> /\ HInv' /\ written' = written /\ wait' = wait
  BY Before, OthersInv DEF Evaluate
<1>5. StageInv(c)'
  BY <1>2, <1>3, <1>4, Before, LogStays DEF Evaluate, At, StageInv
<1>6. CallInv(c)'
  BY <1>2, <1>3, <1>4, <1>5, Before, CallMoves
<1> QED
  BY <1>3, <1>4, <1>6, Before, QuietStep

LEMMA TicketFailsInv ==
  ASSUME Inv, NEW c \in Calls, TicketFails(c)
  PROVE  Inv'
<1>1. HInv' /\ written' = written /\ \A d \in Calls : wait'[d].seen = wait[d].seen
  BY Before, OthersInv, WaitersInv DEF TicketFails
<1> QED
  BY <1>1, EndsInv DEF TicketFails

LEMMA PollFailsInv ==
  ASSUME Inv, NEW c \in Calls, PollFails(c)
  PROVE  Inv'
<1>1. HInv' /\ written' = written /\ \A d \in Calls : wait'[d].seen = wait[d].seen
  BY Before, WaitersInv DEF PollFails
<1> QED
  BY <1>1, EndsInv DEF PollFails

LEMMA OpenTicketInv ==
  ASSUME Inv, NEW c \in Calls, OpenTicket(c)
  PROVE  Inv'
<1> DEFINE v == [call[c] EXCEPT !.pc = "ticketed"]
<1>1. /\ v \in CallState /\ v.pc = "ticketed" /\ v.resp = call[c].resp
      /\ v.opening = call[c].opening /\ v.verdict = call[c].verdict
      /\ call' = [call EXCEPT ![c] = v]
  BY Before DEF CallState, OpenTicket
<1> HIDE DEF v
<1>2. call' \in [Calls -> CallState] /\ call'[c] = v /\ \A d \in Calls \ {c} : call'[d] = call[d]
  BY <1>1, Before
<1>3. HInv' /\ written' = written /\ \A d \in Calls : wait'[d].seen = wait[d].seen
  BY Before, WaitersInv DEF OpenTicket
<1>4. UNCHANGED <<audit, events, up>> /\ Published' = Published
  BY DEF OpenTicket, Published
<1>5. OpeningRow(c)' = OpeningRow(c)
  BY <1>1, <1>2 DEF OpeningRow
<1>6. StageInv(c)'
  BY <1>1, <1>2, <1>3, <1>4, <1>5, Before, LogStays DEF OpenTicket, At, StageInv, Opened
<1>7. CallInv(c)'
  BY <1>1, <1>2, <1>3, <1>4, <1>6, Before, CallMoves
<1> QED
  BY <1>2, <1>3, <1>4, <1>7, Before, QuietStep

\* _forward, _forward_buffered and their failure: the answer is in, or given up.
LEMMA ForwardInvariant ==
  ASSUME Inv, NEW c \in Calls, ForwardStreamed(c) \/ ForwardBuffered(c) \/ ForwardError(c)
  PROVE  Inv'
<1>1. PICK s \in {"COMPLETED", "UPSTREAM_ERROR"} :
        call' = [call EXCEPT ![c].pc = "close", ![c].closing = s]
  BY DEF ForwardStreamed, ForwardBuffered, ForwardError
<1>2. At(c, "forward") /\ UNCHANGED <<audit, events, up, hitlVars>>
  BY DEF ForwardStreamed, ForwardBuffered, ForwardError
<1> DEFINE v == [call[c] EXCEPT !.pc = "close", !.closing = s]
<1>3. /\ v \in CallState /\ v.pc = "close" /\ v.resp = call[c].resp /\ v.closing = s
      /\ v.opening = call[c].opening /\ v.verdict = call[c].verdict
      /\ call' = [call EXCEPT ![c] = v]
  BY <1>1, Before DEF CallState
<1> HIDE DEF v
<1>4. call' \in [Calls -> CallState] /\ call'[c] = v /\ \A d \in Calls \ {c} : call'[d] = call[d]
  BY <1>3, Before
<1>5. HInv' /\ written' = written /\ wait' = wait /\ Published' = Published
  BY <1>2, Before, OthersInv DEF Published
<1>6. OpeningRow(c)' = OpeningRow(c)
  BY <1>3, <1>4 DEF OpeningRow
<1>7. StageInv(c)'
  BY <1>2, <1>3, <1>4, <1>5, <1>6, Before, LogStays DEF At, StageInv, Opened, Approved
<1>8. CallInv(c)'
  BY <1>2, <1>3, <1>4, <1>5, <1>7, Before, CallMoves
<1> QED
  BY <1>2, <1>4, <1>5, <1>8, Before, QuietStep

\* The upstream server acts only on a request that it has.
LEMMA UpstreamInv ==
  ASSUME Inv, NEW c \in Calls, UpstreamExecutes(c) \/ UpstreamRefuses(c)
  PROVE  Inv'
<1>1. /\ up[c] = "sent" /\ UNCHANGED <<call, audit, events, hitlVars>>
      /\ up' = [up EXCEPT ![c] = "executed"] \/ up' = [up EXCEPT ![c] = "refused"]
  BY DEF UpstreamExecutes, UpstreamRefuses
<1>2. /\ up' \in [Calls -> {"none", "sent", "executed", "refused"}] /\ up'[c] # "none"
      /\ \A d \in Calls \ {c} : up'[d] = up[d]
  BY <1>1, Before
<1>3. HInv' /\ written' = written /\ wait' = wait /\ Published' = Published
  BY <1>1, Before, OthersInv DEF Published
<1>4. OpeningRow(c)' = OpeningRow(c)
  BY <1>1 DEF OpeningRow
<1>5. StageInv(c)'
  BY <1>1, <1>2, <1>3, <1>4, Before, LogStays DEF StageInv, Opened, Approved
<1>6. CallInv(c)'
  BY <1>1, <1>2, <1>3, <1>5, Before, CallMoves
<1> QED
  BY <1>1, <1>2, <1>3, <1>6, Before, QuietStep

\* What a waiter reads says nothing about its call before the wait is over.
LEMMA PollReadKeeps ==
  ASSUME Inv, NEW c \in Calls, PollRead(c)
  PROVE  Inv'
<1>1. HInv' /\ written' = written /\ \A d \in Calls \ {c} : wait'[d].seen = wait[d].seen
  BY Before, PollReadInv DEF PollRead
<1>2. UNCHANGED <<call, audit, events, up>> /\ Published' = Published /\ OpeningRow(c)' = OpeningRow(c)
  BY DEF PollRead, gatewayVars, Published, OpeningRow
<1>3. StageInv(c)'
  BY <1>2, Before, LogStays DEF PollRead, At, StageInv, Opened
<1>4. CallInv(c)'
  BY <1>1, <1>2, <1>3, Before, CallMoves DEF StageInv
<1> QED
  BY <1>1, <1>2, <1>4, Before, QuietStep

\* A call that has been opened, and no more, has its opening row and no other.
LEMMA OneRow ==
  ASSUME Inv, NEW c \in Calls, Opened(c)
  PROVE  /\ call[c].opening \in DOMAIN audit /\ call[c].opening \in Nat \ {0}
         /\ audit[call[c].opening].call = c /\ IsOpening(call[c].opening)
         /\ audit[call[c].opening].status = OpeningStatus[call[c].verdict]
         /\ \A s : Has(c, s) <=> s = OpeningStatus[call[c].verdict]
<1>1. call[c].verdict \in Verdicts
  BY Before DEF CallState
<1>2. audit[call[c].opening] = OpeningRow(c) /\ Rows(c) = {call[c].opening}
  BY DEF Opened
<1>3. call[c].opening \in DOMAIN audit /\ DOMAIN audit \subseteq Nat \ {0}
  BY <1>2 DEF Rows, Inv, TypeOK
<1> QED
  BY <1>1, <1>2, <1>3 DEF OpeningRow, IsOpening, Has, Verdicts, OpeningStatus, Openings

\* A call that is sent upstream from here on.
LEMMA Sent ==
  ASSUME Inv, NEW c \in Calls, Opened(c), audit' = audit, written' = written,
         wait'[c].seen = wait[c].seen, Published \subseteq Published',
         call' = [call EXCEPT ![c].pc = "forward"], up' = [up EXCEPT ![c] = "sent"],
         call[c].opening \in Published', call[c].resp = "none",
         call[c].verdict = "PASS" \/ Approved(c)
  PROVE  /\ call' \in [Calls -> CallState] /\ up' \in [Calls -> {"none", "sent", "executed", "refused"}]
         /\ \A d \in Calls \ {c} : call'[d] = call[d] /\ up'[d] = up[d]
         /\ CallInv(c)'
<1> DEFINE v == [call[c] EXCEPT !.pc = "forward"]
<1>1. /\ v \in CallState /\ v.pc = "forward" /\ v.resp = call[c].resp
      /\ v.opening = call[c].opening /\ v.verdict = call[c].verdict
      /\ call' = [call EXCEPT ![c] = v]
  BY Before DEF CallState
<1> HIDE DEF v
<1>2. call' \in [Calls -> CallState] /\ call'[c] = v /\ \A d \in Calls \ {c} : call'[d] = call[d]
  BY <1>1, Before
<1>3. /\ up' \in [Calls -> {"none", "sent", "executed", "refused"}] /\ up'[c] = "sent"
      /\ \A d \in Calls \ {c} : up'[d] = up[d]
  BY Before
<1>4. OpeningRow(c)' = OpeningRow(c)
  BY <1>1, <1>2 DEF OpeningRow
<1>5. StageInv(c)'
  BY <1>1, <1>2, <1>3, <1>4, LogStays DEF StageInv, Opened, Approved
<1>6. RowShape(c)'
  BY Before, LogStays DEF CallInv
<1>7. RefusalInv(c)' /\ AnswerInv(c)'
  BY <1>1, <1>2, <1>3, OneRow, LogStays DEF RefusalInv, AnswerInv, OpeningStatus, Approved
<1>8. ForwardInv(c)'
  <2>1. CASE call[c].verdict = "PASS"
    BY <2>1, OneRow, LogStays DEF ForwardInv, OpeningStatus
  <2>2. CASE Approved(c)
    <3>1. \E d \in written : d.ticket = c /\ d.status = "APPROVED"
      BY <2>2 DEF Inv, TicketInv, Attributed, Approved, H!Decisions
    <3>2. Has(c, "HELD")'
      BY <2>2, OneRow, LogStays DEF OpeningStatus, Approved
    <3> QED
      BY <3>1, <3>2 DEF ForwardInv
  <2> QED
    BY <2>1, <2>2
<1>9. EventInv(c)'
  BY <1>1, <1>2, OneRow, LogStays DEF EventInv, At, Rows
<1> QED
  BY <1>2, <1>3, <1>5, <1>6, <1>7, <1>8, <1>9 DEF CallInv

\* _handle_hold after the wait: only an approval sends the request.
LEMMA PollInv ==
  ASSUME Inv, NEW c \in Calls, Poll(c)
  PROVE  Inv'
<1>1. HInv' /\ written' = written /\ \A d \in Calls : wait'[d].seen = wait[d].seen
  BY Before, WaitersInv DEF Poll
<1>2. UNCHANGED <<audit, events>> /\ Published' = Published /\ At(c, "waiting")
  BY DEF Poll, Published
<1>3. /\ Opened(c) /\ call[c].opening \in Published /\ call[c].verdict = "HOLD"
      /\ call[c].resp = "none" /\ up[c] = "none"
  BY <1>2, Before DEF StageInv, At
<1>4. CASE UNCHANGED <<call, up>>
  <2>1. StageInv(c)'
    BY <1>1, <1>2, <1>4, Before, LogStays DEF StageInv, Opened, OpeningRow, Approved
  <2>2. CallInv(c)'
    BY <1>1, <1>2, <1>4, <2>1, Before, CallMoves DEF StageInv
  <2> QED
    BY <1>1, <1>2, <1>4, <2>2, Before, QuietStep
<1>5. CASE Resolve(c) /\ wait[c].seen.status = "APPROVED"
  <2>1. call' = [call EXCEPT ![c].pc = "forward"] /\ up' = [up EXCEPT ![c] = "sent"]
    BY <1>5 DEF Resolve
  <2> QED
    BY <1>1, <1>2, <1>3, <1>5, <2>1, Sent, QuietStep DEF Approved
<1>6. CASE Resolve(c) /\ wait[c].seen.status # "APPROVED"
  <2> DEFINE v == [call[c] EXCEPT !.pc = "close", !.closing = "DENIED"]
  <2>0. call' = [call EXCEPT ![c].pc = "close", ![c].closing = "DENIED"] /\ up' = up
    BY <1>6 DEF Resolve
  <2>1. /\ v \in CallState /\ v.pc = "close" /\ v.resp = call[c].resp /\ v.closing = "DENIED"
        /\ v.opening = call[c].opening /\ v.verdict = call[c].verdict
        /\ call' = [call EXCEPT ![c] = v] /\ up' = up
    BY <2>0, Before DEF CallState
  <2> HIDE DEF v
  <2>2. call' \in [Calls -> CallState] /\ call'[c] = v /\ \A d \in Calls \ {c} : call'[d] = call[d]
    BY <2>1, Before
  <2>3. StageInv(c)'
    BY <1>1, <1>2, <1>3, <1>6, <2>1, <2>2, LogStays DEF StageInv, Opened, OpeningRow
  <2>4. CallInv(c)'
    BY <1>1, <1>2, <2>1, <2>2, <2>3, Before, CallMoves
  <2> QED
    BY <1>1, <1>2, <2>1, <2>2, <2>4, Before, QuietStep
<1> QED
  BY <1>4, <1>5, <1>6 DEF Poll

LEMMA IntendInv ==
  ASSUME Inv, NEW c \in Calls, Intend(c)
  PROVE  Inv'
<1>1. HInv' /\ written' = written /\ wait' = wait /\ audit' = audit
  BY Before, OthersInv DEF Intend
<1>2. Opened(c) /\ call[c].resp = "none" /\ call[c].pc = "opened" /\ call[c].verdict = "PASS"
  BY Before DEF StageInv, At, Intend
<1>3. Published' = Published \cup {call[c].opening}
  BY <1>2, OneRow, AppendEvent DEF Intend, Inv, TypeOK
<1>4. /\ call' \in [Calls -> CallState] /\ up' \in [Calls -> {"none", "sent", "executed", "refused"}]
      /\ \A d \in Calls \ {c} : call'[d] = call[d] /\ up'[d] = up[d]
      /\ CallInv(c)'
  BY <1>1, <1>2, <1>3, Sent DEF Intend
<1> QED
  BY <1>1, <1>2, <1>4, EventStep DEF Intend

\* The call is refused or held, and said to be.
LEMMA AnnounceInv ==
  ASSUME Inv, NEW c \in Calls, Deny(c) \/ AwaitDecision(c)
  PROVE  Inv'
<1>1. HInv' /\ written' = written /\ \A d \in Calls : wait'[d].seen = wait[d].seen
  BY Before, OthersInv, WaitersInv DEF Deny, AwaitDecision
<1>2. /\ events' = Append(events, call[c].opening) /\ UNCHANGED <<audit, up>>
      /\ call[c].pc \in {"opened", "ticketed"}
  BY DEF Deny, AwaitDecision, At
<1>3. Opened(c) /\ call[c].resp = "none" /\ up[c] = "none"
  BY <1>2, Before DEF StageInv
<1>4. Published' = Published \cup {call[c].opening}
  BY <1>2, <1>3, OneRow, AppendEvent DEF Inv, TypeOK
<1>5. PICK v \in CallState : /\ call' = [call EXCEPT ![c] = v]
                             /\ v.opening = call[c].opening /\ v.verdict = call[c].verdict
                             /\ \/ v.pc = "waiting" /\ v.resp = "none" /\ v.verdict = "HOLD"
                                \/ v.pc = "done" /\ v.resp = "denied" /\ v.verdict = "DENY"
  <2>1. CASE Deny(c)
    <3>1. [call[c] EXCEPT !.pc = "done", !.resp = "denied"] \in CallState
      BY Before DEF CallState
    <3> QED
      BY <2>1, <3>1, Before DEF Deny, Finish, CallState
  <2>2. CASE AwaitDecision(c)
    <3>1. [call[c] EXCEPT !.pc = "waiting"] \in CallState /\ call[c].verdict = "HOLD"
      BY <2>2, Before DEF CallState, AwaitDecision, StageInv, At
    <3> QED
      BY <1>3, <2>2, <3>1, Before DEF AwaitDecision, CallState
  <2> QED
    BY <2>1, <2>2
<1>6. call' \in [Calls -> CallState] /\ call'[c] = v /\ \A d \in Calls \ {c} : call'[d] = call[d]
  BY <1>5, Before
<1>7. StageInv(c)'
  BY <1>1, <1>2, <1>3, <1>4, <1>5, <1>6, LogStays DEF StageInv, Opened, OpeningRow
<1>8. RowShape(c)' /\ RefusalInv(c)' /\ ForwardInv(c)'
  BY <1>1, <1>2, Before, LogStays DEF CallInv, RefusalInv, ForwardInv
<1>9. AnswerInv(c)'
  BY <1>2, <1>3, <1>5, <1>6, Before, OneRow, LogStays DEF CallInv, AnswerInv, OpeningStatus
<1>10. EventInv(c)'
  BY <1>2, <1>3, <1>4, <1>5, <1>6, OneRow, LogStays DEF EventInv, Rows
<1>11. CallInv(c)'
  BY <1>7, <1>8, <1>9, <1>10 DEF CallInv
<1> QED
  BY <1>1, <1>2, <1>6, <1>11, Before, EventStep

\* The row that opens a call, whether or not write_entry raises after it.
LEMMA OpeningRowInv ==
  ASSUME Inv, NEW c \in Calls, At(c, "open"), audit' = Append(audit, OpeningRow(c)),
         UNCHANGED <<events, up, hitlVars>>,
         NEW v \in CallState, call' = [call EXCEPT ![c] = v], v.verdict = call[c].verdict,
         \/ v.pc = "opened" /\ v.opening = Len(audit) + 1 /\ v.resp = "none"
         \/ v.pc = "done" /\ v.opening = 0 /\ v.resp = "500"
  PROVE  Inv'
<1> DEFINE row == OpeningRow(c)
<1>0. PICK n \in Nat : n = Len(audit) + 1
  BY DEF Inv, TypeOK
<1>1. /\ row \in AuditRow /\ row.call = c /\ row.parent = 0 /\ row.by = NoReviewer
      /\ row.status \in Openings
  BY Before DEF OpeningRow, AuditRow, OpeningStatus, Openings, CallState, Verdicts
<1>2. /\ n \in Nat /\ n \notin DOMAIN audit /\ audit'[n] = row /\ n \in DOMAIN audit'
      /\ Rows(c)' = Rows(c) \cup {n}
  BY <1>0, <1>1, AppendRow DEF Inv
<1>3. call' \in [Calls -> CallState] /\ call'[c] = v /\ \A d \in Calls \ {c} : call'[d] = call[d]
  BY Before
<1>4. OpeningRow(c)' = row
  BY <1>3 DEF OpeningRow
<1> HIDE DEF row
<1>5. /\ Rows(c) = {} /\ call[c].opening = 0 /\ up[c] = "none" /\ up' = up
      /\ n \notin Published /\ Published' = Published
  BY <1>2, Before DEF StageInv, At, Inv, TypeOK, Published
<1>6. Rows(c)' = {n} /\ IsOpening(n)' /\ \A s : Has(c, s)' <=> s = row.status
  BY <1>1, <1>2, <1>5 DEF IsOpening, Has, Openings
<1>7. StageInv(c)'
  BY <1>0, <1>2, <1>3, <1>4, <1>5, <1>6 DEF StageInv, Opened
<1>8. RowShape(c)'
  BY <1>6 DEF RowShape
<1>9. RefusalInv(c)' /\ ForwardInv(c)'
  BY <1>5, <1>6 DEF RefusalInv, ForwardInv
<1>10. AnswerInv(c)'
  BY <1>1, <1>3, <1>6 DEF AnswerInv, Openings
<1>11. EventInv(c)'
  BY <1>0, <1>3, <1>6 DEF EventInv, At
<1>12. CallInv(c)'
  BY <1>7, <1>8, <1>9, <1>10, <1>11 DEF CallInv
<1> QED
  BY <1>1, <1>3, <1>12, RowStep DEF row

\* The row that closes a call, whether or not write_entry raises after it.
LEMMA ClosingRowInv ==
  ASSUME Inv, NEW c \in Calls, At(c, "close"), audit' = Append(audit, ClosingRow(c)),
         UNCHANGED <<events, up, hitlVars>>,
         NEW resp \in {"500", Answer[call[c].closing]}, Finish(c, resp)
  PROVE  Inv'
<1> DEFINE row == ClosingRow(c)
           v == [call[c] EXCEPT !.pc = "done", !.resp = resp]
<1>0. call[c] \in CallState /\ wait[c].seen.by \in Reviewers \cup {NoReviewer}
  BY Before DEF HInv, H!TypeOK, H!WaiterState
<1>a. PICK n \in Nat : n = Len(audit) + 1
  BY DEF Inv, TypeOK
<1>b. PICK o \in Nat : o = call[c].opening
  BY <1>0 DEF CallState
<1>1. /\ row \in AuditRow /\ row.call = c /\ row.parent = o /\ row.by = Reviewer(c)
      /\ row.status = call[c].closing /\ call[c].closing \in {"COMPLETED", "UPSTREAM_ERROR", "DENIED"}
  BY <1>0, <1>b DEF ClosingRow, AuditRow, Openings, CallState, Reviewer
<1>2. resp \in {"500", "result", "error", "denied"}
  BY <1>1 DEF Answer
<1>3. /\ v \in CallState /\ v.pc = "done" /\ v.resp = resp /\ v.opening = o
      /\ v.verdict = call[c].verdict /\ call' = [call EXCEPT ![c] = v]
  BY <1>0, <1>2, <1>b, Before DEF CallState, Finish
<1> HIDE DEF v
<1>4. call' \in [Calls -> CallState] /\ call'[c] = v /\ \A d \in Calls \ {c} : call'[d] = call[d]
  BY <1>3, Before
<1>5. /\ Rows(c) = {o} /\ Opened(c) /\ o \in Published /\ call[c].verdict \in Verdicts
      /\ IF call[c].closing = "DENIED"
         THEN up[c] = "none" /\ call[c].verdict = "HOLD" /\ wait[c].seen.status # "APPROVED"
         ELSE up[c] # "none" /\ (call[c].verdict = "PASS" \/ Approved(c))
  BY <1>0, <1>b, Before DEF StageInv, At, Opened, CallState
<1>6. /\ o \in DOMAIN audit /\ o \in Nat \ {0} /\ IsOpening(o)
      /\ audit[o].status = OpeningStatus[call[c].verdict]
      /\ \A s : Has(c, s) <=> s = OpeningStatus[call[c].verdict]
  BY <1>5, <1>b, OneRow
<1>7. /\ n \in Nat /\ o < n /\ n # o /\ audit'[n] = row /\ audit'[o] = audit[o]
      /\ Rows(c)' = Rows(c) \cup {n}
  BY <1>1, <1>6, <1>a, AppendRow DEF Inv
<1> HIDE DEF row
<1>8. /\ Rows(c)' = {o, n} /\ IsOpening(o)' /\ ~ IsOpening(n)'
      /\ \A s : Has(c, s)' <=> s \in {OpeningStatus[call[c].verdict], call[c].closing}
  <2>1. Rows(c)' = {o, n}
    BY <1>5, <1>7
  <2>2. IsOpening(o)' /\ ~ IsOpening(n)'
    BY <1>1, <1>6, <1>7 DEF IsOpening
  <2>3. audit'[o].status = OpeningStatus[call[c].verdict] /\ audit'[n].status = call[c].closing
    BY <1>1, <1>6, <1>7
  <2>4. \A s : Has(c, s)' <=> s \in {OpeningStatus[call[c].verdict], call[c].closing}
    BY <2>1, <2>3 DEF Has
  <2> QED
    BY <2>1, <2>2, <2>4
<1>9. StageInv(c)'
  BY <1>3, <1>4 DEF StageInv
<1>10. RowShape(c)'
  <2>1. audit'[n].parent = o /\ audit'[n].status = call[c].closing
    BY <1>1, <1>7
  <2>2. audit'[o].status \in IF call[c].closing = "DENIED" THEN {"HELD"} ELSE {"HELD", "INTENT"}
    BY <1>5, <1>6, <1>7 DEF OpeningStatus, Approved
  <2> QED
    BY <1>7, <1>8, <2>1, <2>2 DEF RowShape
<1>11. RefusalInv(c)'
  BY <1>1, <1>5, <1>8 DEF RefusalInv, OpeningStatus, Approved
<1>12. AnswerInv(c)'
  BY <1>1, <1>3, <1>4, <1>5, <1>8 DEF AnswerInv, Answer, OpeningStatus, Verdicts
<1>13. ForwardInv(c)'
  <2>1. written' = written
    BY DEF hitlVars
  <2> QED
    BY <1>6, <1>8, <2>1, Before DEF ForwardInv, CallInv
<1>14. EventInv(c)'
  BY <1>3, <1>4, <1>5, <1>8 DEF EventInv, Published
<1>15. row.by # NoReviewer =>
         \E d \in written :
           /\ d.ticket = c /\ d.by = row.by
           /\ d.status = IF row.status = "DENIED" THEN "DENIED" ELSE "APPROVED"
  BY <1>1, <1>5 DEF Reviewer, Inv, TicketInv, Attributed, Approved, H!Decisions
<1>16. CallInv(c)'
  BY <1>9, <1>10, <1>11, <1>12, <1>13, <1>14 DEF CallInv
<1> QED
  BY <1>1, <1>4, <1>15, <1>16, RowStep DEF row

LEMMA WriteOpeningInv ==
  ASSUME Inv, NEW c \in Calls, WriteOpening(c)
  PROVE  Inv'
<1> DEFINE v == [call[c] EXCEPT !.pc = "opened", !.opening = Len(audit) + 1]
<1>0. Len(audit) + 1 \in Nat
  BY DEF Inv, TypeOK
<1>1. v \in CallState /\ call' = [call EXCEPT ![c] = v]
  BY <1>0, Before DEF CallState, WriteOpening
<1>2. v.pc = "opened" /\ v.opening = Len(audit) + 1 /\ v.verdict = call[c].verdict /\ v.resp = "none"
  BY Before DEF CallState, WriteOpening, StageInv, At
<1> HIDE DEF v
<1> QED
  BY <1>1, <1>2, OpeningRowInv DEF WriteOpening

LEMMA WriteFailsInv ==
  ASSUME Inv, NEW c \in Calls, WriteFails(c)
  PROVE  Inv'
<1>0. Finish(c, "500") /\ UNCHANGED <<events, up, hitlVars>>
  BY DEF WriteFails
<1>1. CASE audit' = audit
  <2>1. HInv' /\ written' = written /\ wait' = wait
    BY <1>0, Before, OthersInv
  <2> QED
    BY <1>0, <1>1, <2>1, EndsInv
<1>2. CASE At(c, "open") /\ audit' = Append(audit, OpeningRow(c))
  <2> DEFINE v == [call[c] EXCEPT !.pc = "done", !.resp = "500"]
  <2>1. v \in CallState /\ call' = [call EXCEPT ![c] = v]
    BY <1>0, Before DEF CallState, Finish
  <2>2. v.pc = "done" /\ v.opening = 0 /\ v.verdict = call[c].verdict /\ v.resp = "500"
    BY <1>2, Before DEF CallState, StageInv, At
  <2> HIDE DEF v
  <2> QED
    BY <1>0, <1>2, <2>1, <2>2, OpeningRowInv
<1>3. CASE At(c, "close") /\ audit' = Append(audit, ClosingRow(c))
  BY <1>0, <1>3, ClosingRowInv
<1> QED
  BY <1>1, <1>2, <1>3 DEF WriteFails

LEMMA WriteClosingInv ==
  ASSUME Inv, NEW c \in Calls, WriteClosing(c)
  PROVE  Inv'
  BY ClosingRowInv DEF WriteClosing

\* Every coroutine that is under way ends; rows, requests and tickets stay.
LEMMA CrashInv ==
  ASSUME Inv, Crash
  PROVE  Inv'
<1>1. UNCHANGED <<now, redis, pending, rev, written, told, audit, events, up>>
  BY DEF Crash
<1>2. Published' = Published
  BY <1>1 DEF Published
<1>3. /\ call' \in [Calls -> CallState]
      /\ \A c \in Calls :
           \/ call'[c] = call[c]
           \/ /\ call'[c].pc = "done" /\ call'[c].resp = "lost"
              /\ call'[c].opening = call[c].opening
  BY ZenonT(60) DEF Inv, TypeOK, Crash, CallState
<1>4. wait' \in [Calls -> H!WaiterState] /\ \A c \in Calls : wait'[c].seen = wait[c].seen
  BY ZenonT(60) DEF Inv, TypeOK, H!TypeOK, H!WaiterState, Crash
<1>5. HInv'
  BY <1>1, <1>4, WaiterStep DEF Inv, TypeOK, H!TypeOK, HInv
<1>6. ASSUME NEW c \in Calls PROVE CallInv(c)'
  <2>1. CASE call'[c] = call[c]
    BY <1>1, <1>2, <1>4, <2>1, CallFrame, LogStays DEF Inv
  <2>2. CASE call'[c].pc = "done" /\ call'[c].resp = "lost" /\ call'[c].opening = call[c].opening
    <3>1. StageInv(c)'
      BY <2>2 DEF StageInv
    <3> QED
      BY <1>1, <2>2, <3>1, CallMoves DEF Inv
  <2> QED
    BY <1>3, <2>1, <2>2
<1>7. TypeOK' /\ TicketInv' /\ ReviewIsAttributed'
  BY <1>1, <1>2, <1>3, <1>5 DEF Inv, TypeOK, HInv, ReviewIsAttributed
<1>8. EventsInv'
  BY <1>1, LogStays DEF Inv, EventsInv
<1> QED
  BY <1>6, <1>7, <1>8 DEF Inv

\* What no request does: reviewers, the clock, and steps that change nothing.
LEMMA AroundInv ==
  ASSUME Inv, UNCHANGED gatewayVars,
         (\E r \in Reviewers : Decides(r)) \/ H!Tick \/ UNCHANGED hitlVars
  PROVE  Inv'
<1>1. HInv' /\ written \subseteq written' /\ wait' = wait
  <2>1. HInv
    BY DEF Inv, TypeOK, HInv
  <2>2. CASE \E r \in Reviewers : H!DecideWrite(r)
    BY <2>1, <2>2, DecideWriteInv
  <2>3. CASE ~ \E r \in Reviewers : H!DecideWrite(r)
    BY <2>1, <2>3, OthersInv DEF Decides
  <2> QED
    BY <2>2, <2>3
<1>2. UNCHANGED <<call, audit, events, up>> /\ Published' = Published
  BY DEF gatewayVars, Published
<1>3. \A c \in Calls : CallInv(c)'
  BY <1>1, <1>2, CallFrame, LogStays DEF Inv
<1>4. TypeOK' /\ TicketInv'
  BY <1>1, <1>2 DEF Inv, TypeOK, HInv
<1>5. ReviewIsAttributed'
  BY <1>1, <1>2 DEF Inv, ReviewIsAttributed
<1>6. EventsInv'
  BY <1>2, LogStays DEF Inv, EventsInv
<1> QED
  BY <1>3, <1>4, <1>5, <1>6 DEF Inv

LEMMA NextInv ==
  ASSUME Inv, [Next]_vars
  PROVE  Inv'
<1>1. ASSUME NEW c \in Calls, CallStep(c) PROVE Inv'
  BY <1>1, NotAToolCallInv, EvaluateInv, WriteOpeningInv, WriteFailsInv, AnnounceInv, IntendInv,
     OpenTicketInv, TicketFailsInv, PollReadKeeps, PollInv, PollFailsInv, UpstreamInv,
     ForwardInvariant, WriteClosingInv DEF CallStep
<1>2. CASE Crash
  BY <1>2, CrashInv
<1>3. CASE (\E r \in Reviewers : Decides(r)) /\ UNCHANGED gatewayVars
  BY <1>3, AroundInv
<1>4. CASE ClockTick
  BY <1>4, AroundInv DEF ClockTick
<1>5. CASE UNCHANGED vars
  BY <1>5, AroundInv DEF vars, gatewayVars, hitlVars
<1> QED
  BY <1>1, <1>2, <1>3, <1>4, <1>5 DEF Next, Finished

LEMMA InvHolds == Spec => []Inv
  BY InitInv, NextInv, PTL DEF Spec

-----------------------------------------------------------------------------
(***************************************************************************)
(* The properties.                                                         *)
(***************************************************************************)

\* Every variable keeps its type, and the rows of a call in the audit log have one of the
\* shapes that app.py's docstring lists: one opening row, and at most one closing row that
\* is linked to it, whichever write fails and wherever the process stops.
THEOREM RowsHaveTheirShape == Spec => []RowShapes
<1>1. Inv => RowShapes
  BY DEF Inv, CallInv, RowShape, RowShapes
<1> QED
  BY <1>1, InvHolds, PTL

\* A request reaches the upstream server only after its INTENT row, or after its HELD row
\* and a reviewer's approval (_handle_tool_call, _handle_hold).
THEOREM OnlyAuthorisedForwards == Spec => []ForwardedIsAuthorised
<1>1. Inv => ForwardedIsAuthorised
  BY DEF Inv, CallInv, ForwardInv, ForwardedIsAuthorised
<1> QED
  BY <1>1, InvHolds, PTL

\* What the agent is answered is in the audit log before the answer leaves
\* (_forward_and_record, _deny_response).
THEOREM AnswersAreRecorded == Spec => []AnswerIsRecorded
<1>1. Inv => AnswerIsRecorded
  BY DEF Inv, CallInv, AnswerInv, AnswerIsRecorded
<1> QED
  BY <1>1, InvHolds, PTL

\* The reviewer whom a closing row names decided that call in that way, however reviewers
\* overwrite each other's decisions (decide_ticket, _handle_hold).
THEOREM ReviewsAreAttributed == Spec => []ReviewIsAttributed
<1>1. Inv => ReviewIsAttributed
  BY DEF Inv
<1> QED
  BY <1>1, InvHolds, PTL

\* Exactly the rows that open a call are announced to the control plane, each at most once,
\* and none is left out for a call that was answered (_publish_decision_event).
THEOREM OpeningsAreAnnounced == Spec => []OpeningsArePublished
<1>1. Inv => OpeningsArePublished
  BY DEF Inv, CallInv, EventInv, EventsInv, OpeningsArePublished
<1> QED
  BY <1>1, InvHolds, PTL

-----------------------------------------------------------------------------
(***************************************************************************)
(* GatewayCalls implements GovernedCalls.                                  *)
(***************************************************************************)
Verdict == [c \in Calls |-> VerdictOf(c)]
Effect  == [c \in Calls |-> up[c] = "executed"]

\* A step in which one call is decided, is carried out, or neither.
LEMMA PromisedStep ==
  ASSUME NEW c \in Calls,
         \A d \in Calls \ {c} : VerdictOf(d)' = VerdictOf(d) /\ (up'[d] = "executed" <=> up[d] = "executed"),
         \/ VerdictOf(c)' = VerdictOf(c) /\ (up'[c] = "executed" <=> up[c] = "executed")
         \/ /\ VerdictOf(c) = "undecided" /\ VerdictOf(c)' \in {"allowed", "refused"}
            /\ up'[c] = "executed" <=> up[c] = "executed"
         \/ /\ VerdictOf(c) = "allowed" /\ VerdictOf(c)' = "allowed"
            /\ up[c] # "executed" /\ up'[c] = "executed"
  PROVE  [Promise!Next]_<<Verdict, Effect>>
<1>1. CASE VerdictOf(c)' = VerdictOf(c) /\ (up'[c] = "executed" <=> up[c] = "executed")
  <2>1. \A d \in Calls : VerdictOf(d)' = VerdictOf(d) /\ (up'[d] = "executed" <=> up[d] = "executed")
    BY <1>1
  <2>2. Verdict' = Verdict /\ Effect' = Effect
    BY <2>1, Zenon DEF Verdict, Effect
  <2> QED
    BY <2>2
<1>2. CASE /\ VerdictOf(c) = "undecided" /\ VerdictOf(c)' \in {"allowed", "refused"}
           /\ up'[c] = "executed" <=> up[c] = "executed"
  <2>1. Verdict' = [Verdict EXCEPT ![c] = VerdictOf(c)'] /\ Effect' = Effect
    BY <1>2 DEF Verdict, Effect
  <2>2. Promise!Decide(c, VerdictOf(c)')
    BY <1>2, <2>1 DEF Promise!Decide, Verdict, Effect
  <2> QED
    BY <1>2, <2>2 DEF Promise!Next
<1>3. CASE /\ VerdictOf(c) = "allowed" /\ VerdictOf(c)' = "allowed"
           /\ up[c] # "executed" /\ up'[c] = "executed"
  <2>1. Verdict' = Verdict /\ Effect' = [Effect EXCEPT ![c] = TRUE]
    BY <1>3 DEF Verdict, Effect
  <2>2. Promise!Execute(c)
    BY <1>3, <2>1 DEF Promise!Execute, Verdict, Effect
  <2> QED
    BY <2>2 DEF Promise!Next
<1> QED
  BY <1>1, <1>2, <1>3

\* Where neither the log nor the wire changes, no call is decided or carried out.
LEMMA PromiseStays ==
  ASSUME UNCHANGED <<audit, up>>
  PROVE  [Promise!Next]_<<Verdict, Effect>>
<1>1. \A d \in Calls : VerdictOf(d)' = VerdictOf(d) /\ up'[d] = up[d]
  BY LogStays DEF VerdictOf
<1>2. Verdict' = Verdict /\ Effect' = Effect
  BY <1>1, Zenon DEF Verdict, Effect
<1> QED
  BY <1>2

\* The request of an allowed call goes out, or of a held one that was approved.
LEMMA SentPromise ==
  ASSUME Inv, NEW c \in Calls, Opened(c), audit' = audit, up' = [up EXCEPT ![c] = "sent"],
         up[c] = "none", call[c].verdict = "PASS" \/ Approved(c)
  PROVE  [Promise!Next]_<<Verdict, Effect>>
<1>1. up'[c] = "sent" /\ \A d \in Calls \ {c} : up'[d] = up[d]
  BY Before
<1>2. \A d \in Calls \ {c} : VerdictOf(d)' = VerdictOf(d)
  BY <1>1, LogStays DEF VerdictOf
<1>3. ~ Has(c, "DENIED") /\ VerdictOf(c)' = "allowed" /\ VerdictOf(c) \in {"allowed", "undecided"}
  BY <1>1, OneRow, LogStays DEF VerdictOf, OpeningStatus, Approved
<1> QED
  BY <1>1, <1>2, <1>3, PromisedStep

\* A row decides the call whose row it is, or leaves what was decided.
LEMMA RowPromise ==
  ASSUME Inv, NEW c \in Calls, up' = up, NEW row \in AuditRow, row.call = c,
         audit' = Append(audit, row),
         \/ Rows(c) = {} /\ up[c] = "none"
         \/ row.status = "DENIED" /\ up[c] = "none" /\ ~ Has(c, "DENIED") /\ ~ Has(c, "INTENT")
         \/ row.status \in {"COMPLETED", "UPSTREAM_ERROR"}
  PROVE  [Promise!Next]_<<Verdict, Effect>>
<1>0. PICK n \in Nat : n = Len(audit) + 1
  BY DEF Inv, TypeOK
<1>1. /\ Rows(c)' = Rows(c) \cup {n} /\ audit'[n] = row /\ \A i \in Rows(c) : audit'[i] = audit[i]
      /\ \A d \in Calls \ {c} : Rows(d)' = Rows(d) /\ \A i \in Rows(d) : audit'[i] = audit[i]
  BY <1>0, AppendRow DEF Inv, Rows
<1>2. ASSUME NEW d \in Calls \ {c}, NEW s PROVE Has(d, s)' <=> Has(d, s)
  BY <1>1 DEF Has
<1>3. \A s : Has(c, s)' <=> Has(c, s) \/ s = row.status
  BY <1>1 DEF Has
<1>4. \A d \in Calls \ {c} : VerdictOf(d)' = VerdictOf(d)
  BY <1>2 DEF VerdictOf
<1>5. Rows(c) = {} => \A s : ~ Has(c, s)
  BY DEF Has
<1>6. VerdictOf(c)' = VerdictOf(c) \/ (VerdictOf(c) = "undecided" /\ VerdictOf(c)' \in {"allowed", "refused"})
  BY <1>3, <1>5 DEF VerdictOf
<1> QED
  BY <1>4, <1>6, PromisedStep

\* The rows that the gateway writes are such rows.
LEMMA WritePromise ==
  ASSUME Inv, NEW c \in Calls, WriteOpening(c) \/ WriteFails(c) \/ WriteClosing(c)
  PROVE  [Promise!Next]_<<Verdict, Effect>>
<1>0. up' = up
  BY DEF WriteOpening, WriteFails, WriteClosing
<1>1. CASE audit' = audit
  BY <1>0, <1>1, PromiseStays
<1>2. CASE At(c, "open") /\ audit' = Append(audit, OpeningRow(c))
  <2>1. OpeningRow(c) \in AuditRow /\ OpeningRow(c).call = c
    BY Before DEF OpeningRow, AuditRow, OpeningStatus, Openings, CallState, Verdicts
  <2>2. Rows(c) = {} /\ up[c] = "none"
    BY <1>2, Before DEF At, StageInv
  <2> QED
    BY <1>0, <1>2, <2>1, <2>2, RowPromise
<1>3. CASE At(c, "close") /\ audit' = Append(audit, ClosingRow(c))
  <2>1. call[c] \in CallState /\ wait[c].seen.by \in Reviewers \cup {NoReviewer}
    BY Before DEF HInv, H!TypeOK, H!WaiterState
  <2>2. ClosingRow(c) \in AuditRow /\ ClosingRow(c).call = c /\ ClosingRow(c).status = call[c].closing
    BY <2>1 DEF ClosingRow, AuditRow, Openings, CallState, Reviewer
  <2>3. Opened(c) /\ (call[c].closing = "DENIED" => up[c] = "none" /\ call[c].verdict = "HOLD")
    BY <1>3, Before DEF At, StageInv
  <2>4. call[c].closing = "DENIED" => ~ Has(c, "DENIED") /\ ~ Has(c, "INTENT")
    BY <2>3, OneRow DEF OpeningStatus
  <2>5. call[c].closing \in {"COMPLETED", "UPSTREAM_ERROR", "DENIED"}
    BY <2>1 DEF CallState
  <2> QED
    BY <1>0, <1>3, <2>2, <2>3, <2>4, <2>5, RowPromise
<1> QED
  BY <1>1, <1>2, <1>3 DEF WriteOpening, WriteFails, WriteClosing

LEMMA UpstreamPromise ==
  ASSUME Inv, NEW c \in Calls, UpstreamExecutes(c) \/ UpstreamRefuses(c)
  PROVE  [Promise!Next]_<<Verdict, Effect>>
<1>1. /\ up[c] = "sent" /\ audit' = audit
      /\ up' = [up EXCEPT ![c] = "executed"] \/ up' = [up EXCEPT ![c] = "refused"]
  BY DEF UpstreamExecutes, UpstreamRefuses
<1>2. up'[c] \in {"executed", "refused"} /\ \A d \in Calls \ {c} : up'[d] = up[d]
  BY <1>1, Before
<1>3. \A d \in Calls \ {c} : VerdictOf(d)' = VerdictOf(d)
  BY <1>1, <1>2, LogStays DEF VerdictOf
<1>4. ~ Has(c, "DENIED")
  BY <1>1, Before DEF CallInv, RefusalInv
<1>5. VerdictOf(c) = "allowed" /\ VerdictOf(c)' = "allowed"
  BY <1>1, <1>2, <1>4, LogStays DEF VerdictOf
<1> QED
  BY <1>1, <1>2, <1>3, <1>5, PromisedStep

LEMMA NextPromise ==
  ASSUME Inv, [Next]_vars
  PROVE  [Promise!Next]_<<Verdict, Effect>>
<1>1. ASSUME NEW c \in Calls, Intend(c) PROVE [Promise!Next]_<<Verdict, Effect>>
  <2>1. Opened(c) /\ up[c] = "none"
    BY <1>1, Before DEF StageInv, At, Intend
  <2> QED
    BY <1>1, <2>1, SentPromise DEF Intend
<1>2. ASSUME NEW c \in Calls, Poll(c) PROVE [Promise!Next]_<<Verdict, Effect>>
  <2>1. Opened(c) /\ up[c] = "none" /\ call[c].verdict = "HOLD" /\ audit' = audit
    BY <1>2, Before DEF StageInv, At, Poll
  <2>2. CASE up' = up
    BY <2>1, <2>2, PromiseStays
  <2>3. CASE up' # up
    BY <1>2, <2>1, <2>3, SentPromise DEF Poll, Resolve, Approved
  <2> QED
    BY <2>2, <2>3
<1>3. ASSUME NEW c \in Calls, CallStep(c) PROVE [Promise!Next]_<<Verdict, Effect>>
  <2>1. CASE WriteOpening(c) \/ WriteFails(c) \/ WriteClosing(c) \/ Intend(c) \/ Poll(c)
             \/ UpstreamExecutes(c) \/ UpstreamRefuses(c)
    BY <1>1, <1>2, <2>1, WritePromise, UpstreamPromise
  <2>2. CASE ~ (WriteOpening(c) \/ WriteFails(c) \/ WriteClosing(c) \/ Intend(c) \/ Poll(c)
                \/ UpstreamExecutes(c) \/ UpstreamRefuses(c))
    <3>1. UNCHANGED <<audit, up>>
      BY <1>3, <2>2 DEF CallStep, NotAToolCall, Evaluate, Deny, OpenTicket, TicketFails,
         AwaitDecision, PollRead, PollFails, ForwardStreamed, ForwardBuffered, ForwardError, gatewayVars
    <3> QED
      BY <3>1, PromiseStays
  <2> QED
    BY <2>1, <2>2
<1>4. CASE ~ \E c \in Calls : CallStep(c)
  <2>1. UNCHANGED <<audit, up>>
    BY <1>4 DEF Next, Crash, ClockTick, Finished, gatewayVars, vars
  <2> QED
    BY <2>1, PromiseStays
<1> QED
  BY <1>3, <1>4

\* The gateway implements GovernedCalls: each call is allowed or refused at most once and
\* never both, and the upstream server acts only on an allowed call and only once, however
\* the requests, the reviewers, the upstream server and the gateway's failures interleave.
THEOREM GatewayGoverns == Spec => ImplementsGovernedCalls
<1>1. Init => Promise!Init
  <2> SUFFICES ASSUME Init PROVE Promise!Init
    OBVIOUS
  <2>0. audit = <<>> /\ DOMAIN audit = {} /\ up = [c \in Calls |-> "none"]
    BY DEF Init
  <2>1. \A c \in Calls : up[c] = "none" /\ Rows(c) = {}
    BY <2>0 DEF Rows
  <2>2. \A c \in Calls : VerdictOf(c) = "undecided" /\ ~ (up[c] = "executed")
    BY <2>1 DEF VerdictOf, Has
  <2> QED
    BY <2>2 DEF Promise!Init
<1>2. Inv /\ [Next]_vars => [Promise!Next]_<<Verdict, Effect>>
  BY NextPromise
<1> QED
  BY <1>1, <1>2, InvHolds, PTL DEF Spec, ImplementsGovernedCalls, Promise!Spec, Verdict, Effect
=============================================================================
