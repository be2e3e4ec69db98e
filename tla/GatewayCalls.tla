---------------------------- MODULE GatewayCalls ----------------------------
(***************************************************************************)
(* The gateway's handling of requests (gateway/app.py), composed with the  *)
(* HITL ticket queue (module HitlTickets).  Every request is a coroutine   *)
(* of its own; a step runs from one await to the next, and between two     *)
(* steps any other request, any reviewer and the clock may move.           *)
(*                                                                         *)
(*   NotAToolCall      proxy_mcp: malformed, unknown server, not a tools/call *)
(*   Evaluate          _handle_tool_call up to the policy's decision       *)
(*   WriteOpening      the DENIED, HELD or INTENT row is committed         *)
(*   Deny, Intend      publish the event; answer, or hand over to upstream *)
(*   OpenTicket, AwaitDecision, PollRead, Poll      _handle_hold           *)
(*   ForwardStreamed, ForwardBuffered, ForwardError, WriteClosing          *)
(*                     _forward_and_record                                 *)
(*                                                                         *)
(* The audit store appends a row in one step, which is what AuditStore is  *)
(* shown to implement; a failed write may or may not have left the row.    *)
(* The upstream server is external: it carries a request out, or answers   *)
(* that it did not, whenever it likes, even after the gateway gave up.     *)
(* A call's ticket has the call's name.                                    *)
(***************************************************************************)
EXTENDS Naturals, Sequences

CONSTANTS
  Calls,       \* requests, and the tickets they may come to hold
  Reviewers, NoReviewer, NoTicket, TIMEOUT, GRACE, MaxTime   \* see HitlTickets

ASSUME GatewayAssumption ==
  /\ NoReviewer \notin Reviewers /\ NoTicket \notin Calls
  /\ TIMEOUT \in Nat \ {0} /\ GRACE \in Nat \ {0} /\ MaxTime \in Nat

VARIABLES
  now, redis, pending, wait, rev, written, told,   \* see HitlTickets
  call,    \* the coroutine of each request
  audit,   \* the audit log: a sequence of rows, the id of a row its index
  events,  \* ids of the rows a DecisionEvent has been published for, in order
  up       \* what the upstream server has done about each call

H == INSTANCE HitlTickets WITH Tickets <- Calls

hitlVars    == <<now, redis, pending, wait, rev, written, told>>
gatewayVars == <<call, audit, events, up>>
vars        == <<now, redis, pending, wait, rev, written, told, call, audit, events, up>>

Verdicts == {"PASS", "DENY", "HOLD"}
OpeningStatus == [PASS |-> "INTENT", DENY |-> "DENIED", HOLD |-> "HELD"]
Answer == [COMPLETED |-> "result", UPSTREAM_ERROR |-> "error", DENIED |-> "denied"]

Init ==
  /\ H!Init
  /\ call = [c \in Calls |-> [pc |-> "idle", verdict |-> "PASS",
                              opening |-> 0, closing |-> "DENIED", resp |-> "none"]]
  /\ audit = <<>>
  /\ events = <<>>
  /\ up = [c \in Calls |-> "none"]

At(c, label) == call[c].pc = label

Finish(c, resp) == call' = [call EXCEPT ![c].pc = "done", ![c].resp = resp]

\* The reviewer's decision that goes into the row that closes a held call.
Reviewer(c) == IF call[c].verdict = "HOLD" THEN wait[c].seen.by ELSE NoReviewer

OpeningRow(c) ==
  [call |-> c, status |-> OpeningStatus[call[c].verdict], parent |-> 0, by |-> NoReviewer]

\* A mutant of ClosingRow: the row is not linked to the one that opened the call.
ClosingRow_unlinked(c) ==
  [call |-> c, status |-> call[c].closing, parent |-> 0, by |-> Reviewer(c)]

ClosingRow(c) ==
  [call |-> c, status |-> call[c].closing, parent |-> call[c].opening, by |-> Reviewer(c)]

-----------------------------------------------------------------------------
(***************************************************************************)
(* proxy_mcp and _handle_tool_call                                         *)
(***************************************************************************)

\* 400, 404, or passed on without policy or audit: any other MCP message.
NotAToolCall(c) ==
  /\ At(c, "idle")
  /\ Finish(c, "ungoverned")
  /\ UNCHANGED <<audit, events, up, hitlVars>>

\* The decision is the policy engine's; its failure is a DENY (_evaluate_policy_set).
Evaluate(c) ==
  /\ At(c, "idle")
  /\ \E v \in Verdicts :
       /\ v = "HOLD" => now + TIMEOUT <= MaxTime   \* bound
       /\ call' = [call EXCEPT ![c].pc = "open", ![c].verdict = v]
  /\ UNCHANGED <<audit, events, up, hitlVars>>

WriteOpening(c) ==
  /\ At(c, "open")
  /\ audit' = Append(audit, OpeningRow(c))
  /\ call' = [call EXCEPT ![c].pc = "opened", ![c].opening = Len(audit) + 1]
  /\ UNCHANGED <<events, up, hitlVars>>

\* write_entry raises: HTTP 500.  The row may be there all the same.
WriteFails(c) ==
  /\ \/ At(c, "open")  /\ audit' \in {audit, Append(audit, OpeningRow(c))}
     \/ At(c, "close") /\ audit' \in {audit, Append(audit, ClosingRow(c))}
  /\ Finish(c, "500")
  /\ UNCHANGED <<events, up, hitlVars>>

\* A mutant of Deny: the return is missing and the call goes on like a PASS.
Deny_no_return(c) ==
  /\ At(c, "opened") /\ call[c].verdict = "DENY"
  /\ events' = Append(events, call[c].opening)
  /\ up' = [up EXCEPT ![c] = "sent"]
  /\ call' = [call EXCEPT ![c].pc = "forward"]
  /\ UNCHANGED <<audit, hitlVars>>

Deny(c) ==
  /\ At(c, "opened") /\ call[c].verdict = "DENY"
  /\ events' = Append(events, call[c].opening)
  /\ Finish(c, "denied")
  /\ UNCHANGED <<audit, up, hitlVars>>

\* A mutant of Intend: the request goes out before its INTENT row is written.
Intend_early(c) ==
  /\ At(c, "open") /\ call[c].verdict = "PASS"
  /\ events' = Append(events, call[c].opening)
  /\ up' = [up EXCEPT ![c] = "sent"]
  /\ call' = [call EXCEPT ![c].pc = "forward"]
  /\ UNCHANGED <<audit, hitlVars>>

\* From here on the request may be with the upstream server.
Intend(c) ==
  /\ At(c, "opened") /\ call[c].verdict = "PASS"
  /\ events' = Append(events, call[c].opening)
  /\ up' = [up EXCEPT ![c] = "sent"]
  /\ call' = [call EXCEPT ![c].pc = "forward"]
  /\ UNCHANGED <<audit, hitlVars>>

-----------------------------------------------------------------------------
(***************************************************************************)
(* _handle_hold                                                            *)
(***************************************************************************)

OpenTicket(c) ==
  /\ At(c, "opened") /\ call[c].verdict = "HOLD"
  /\ H!create_ticket(c)
  /\ call' = [call EXCEPT ![c].pc = "ticketed"]
  /\ UNCHANGED <<audit, events, up>>

\* create_ticket raises, with or without the ticket in Redis: HTTP 500.
TicketFails(c) ==
  /\ At(c, "opened") /\ call[c].verdict = "HOLD"
  /\ \/ UNCHANGED hitlVars
     \/ /\ H!PutTicket(c)
        /\ wait' = [wait EXCEPT ![c].pc = "gone"]
        /\ UNCHANGED <<now, rev, written, told>>
  /\ Finish(c, "500")
  /\ UNCHANGED <<audit, events, up>>

\* A mutant of AwaitDecision: the hold is not announced.
AwaitDecision_silent(c) ==
  /\ At(c, "ticketed")
  /\ H!StartWait(c)
  /\ call' = [call EXCEPT ![c].pc = "waiting"]
  /\ UNCHANGED <<audit, events, up>>

AwaitDecision(c) ==
  /\ At(c, "ticketed")
  /\ H!StartWait(c)
  /\ events' = Append(events, call[c].opening)
  /\ call' = [call EXCEPT ![c].pc = "waiting"]
  /\ UNCHANGED <<audit, up>>

PollRead(c) ==
  /\ At(c, "waiting")
  /\ H!PollRead(c)
  /\ UNCHANGED gatewayVars

\* A mutant of Resolve: a timeout is taken for consent.
Resolve_timeout_approves(c) ==
  IF wait[c].seen.status = "DENIED"
  THEN /\ call' = [call EXCEPT ![c].pc = "close", ![c].closing = "DENIED"]
       /\ UNCHANGED up
  ELSE /\ call' = [call EXCEPT ![c].pc = "forward"]
       /\ up' = [up EXCEPT ![c] = "sent"]

\* The wait is over: DENIED row on a timeout and on a denial, forward on approval.
Resolve(c) ==
  IF wait[c].seen.status = "APPROVED"
  THEN /\ call' = [call EXCEPT ![c].pc = "forward"]
       /\ up' = [up EXCEPT ![c] = "sent"]
  ELSE /\ call' = [call EXCEPT ![c].pc = "close", ![c].closing = "DENIED"]
       /\ UNCHANGED up

Poll(c) ==
  /\ At(c, "waiting")
  /\ H!PollCheck(c)
  /\ IF wait'[c].pc = "returned" THEN Resolve(c) ELSE UNCHANGED <<call, up>>
  /\ UNCHANGED <<audit, events>>

\* Redis fails under wait_for_decision: HTTP 500.
PollFails(c) ==
  /\ At(c, "waiting")
  /\ H!WaiterGone(c)
  /\ Finish(c, "500")
  /\ UNCHANGED <<audit, events, up>>

-----------------------------------------------------------------------------
(***************************************************************************)
(* _forward_and_record, and the upstream server                            *)
(***************************************************************************)

UpstreamExecutes(c) ==
  /\ up[c] = "sent"
  /\ up' = [up EXCEPT ![c] = "executed"]
  /\ UNCHANGED <<call, audit, events, hitlVars>>

\* An HTTP or tool-level error answer: the call was not carried out.
UpstreamRefuses(c) ==
  /\ up[c] = "sent"
  /\ up' = [up EXCEPT ![c] = "refused"]
  /\ UNCHANGED <<call, audit, events, hitlVars>>

\* _forward: the headers of the answer are in, whatever its status code.  The body
\* is streamed to the agent later; the server may still be at work on it.
ForwardStreamed(c) ==
  /\ At(c, "forward")
  /\ call' = [call EXCEPT ![c].pc = "close", ![c].closing = "COMPLETED"]
  /\ UNCHANGED <<audit, events, up, hitlVars>>

\* _forward_buffered: the whole answer is in; it becomes an error when one of the
\* response-side policies fails.
ForwardBuffered(c) ==
  /\ At(c, "forward")
  /\ up[c] \in {"executed", "refused"}
  /\ \E s \in {"COMPLETED", "UPSTREAM_ERROR"} :
       call' = [call EXCEPT ![c].pc = "close", ![c].closing = s]
  /\ UNCHANGED <<audit, events, up, hitlVars>>

\* httpx.HTTPError: unreachable, or timed out with the request still on its way.
ForwardError(c) ==
  /\ At(c, "forward")
  /\ call' = [call EXCEPT ![c].pc = "close", ![c].closing = "UPSTREAM_ERROR"]
  /\ UNCHANGED <<audit, events, up, hitlVars>>

\* A mutant of WriteClosing: the agent is answered before the row is written.
WriteClosing_after_answer(c) ==
  /\ At(c, "close")
  /\ Finish(c, Answer[call[c].closing])
  /\ UNCHANGED <<audit, events, up, hitlVars>>

\* A mutant of WriteClosing: the closing row is announced as well.
WriteClosing_published(c) ==
  /\ At(c, "close")
  /\ audit' = Append(audit, ClosingRow(c))
  /\ events' = Append(events, Len(audit) + 1)
  /\ Finish(c, Answer[call[c].closing])
  /\ UNCHANGED <<up, hitlVars>>

WriteClosing(c) ==
  /\ At(c, "close")
  /\ audit' = Append(audit, ClosingRow(c))
  /\ Finish(c, Answer[call[c].closing])
  /\ UNCHANGED <<events, up, hitlVars>>

\* The process stops: every coroutine ends where it is, tickets stay in Redis.
Active(c) == call[c].pc \notin {"idle", "done"}

Crash ==
  /\ \E c \in Calls : Active(c)
  /\ call' = [c \in Calls |-> IF Active(c) THEN [call[c] EXCEPT !.pc = "done", !.resp = "lost"]
                              ELSE call[c]]
  /\ wait' = [c \in Calls |-> IF H!Waiting(c) THEN [wait[c] EXCEPT !.pc = "gone"] ELSE wait[c]]
  /\ UNCHANGED <<now, redis, pending, rev, written, told, audit, events, up>>

-----------------------------------------------------------------------------
\* list_pending is left to HitlTickets: the gateway never reads the pending set.
Decides(r) ==
  \/ \E c \in Calls, s \in H!Decisions : H!DecideRead(r, c, s)
  \/ H!DecideWrite(r)
  \/ H!DecideSrem(r)
  \/ H!ReviewerGone(r)

CallStep(c) ==
  \/ NotAToolCall(c) \/ Evaluate(c) \/ WriteOpening(c) \/ WriteFails(c)
  \/ Deny(c) \/ Intend(c)
  \/ OpenTicket(c) \/ TicketFails(c) \/ AwaitDecision(c)
  \/ PollRead(c) \/ Poll(c) \/ PollFails(c)
  \/ UpstreamExecutes(c) \/ UpstreamRefuses(c)
  \/ ForwardStreamed(c) \/ ForwardBuffered(c) \/ ForwardError(c) \/ WriteClosing(c)

\* The clock.  The bound leaves room for the wait of every call about to be held.
ClockTick ==
  /\ H!Tick
  /\ \A c \in Calls : call[c].verdict = "HOLD" /\ call[c].pc \in {"open", "opened"}
                       => now + 1 + TIMEOUT <= MaxTime
  /\ UNCHANGED gatewayVars

\* Every request has been answered.
Finished == (\A c \in Calls : At(c, "done")) /\ UNCHANGED vars

Next ==
  \/ \E c \in Calls : CallStep(c)
  \/ Crash
  \/ (\E r \in Reviewers : Decides(r)) /\ UNCHANGED gatewayVars
  \/ ClockTick
  \/ Finished

Spec == Init /\ [][Next]_vars

(***************************************************************************)
(* The event loop runs what can run, the databases answer or fail, the     *)
(* clock goes on, and httpx times out: ForwardError needs no answer.       *)
(* Nothing is assumed of reviewers or of the upstream server.              *)
(***************************************************************************)
Fairness ==
  /\ WF_vars(ClockTick)
  /\ \A c \in Calls :
       WF_vars(WriteOpening(c) \/ Deny(c) \/ Intend(c) \/ OpenTicket(c) \/ AwaitDecision(c)
               \/ PollRead(c) \/ Poll(c) \/ ForwardError(c)
               \/ WriteClosing(c))

FairSpec == Spec /\ Fairness

-----------------------------------------------------------------------------
(***************************************************************************)
(* Properties                                                              *)
(***************************************************************************)

Rows(c)      == {i \in DOMAIN audit : audit[i].call = c}
Has(c, s)    == \E i \in Rows(c) : audit[i].status = s
Openings     == {"INTENT", "DENIED", "HELD"}
IsOpening(i) == audit[i].parent = 0 /\ audit[i].status \in Openings
Published    == {events[k] : k \in DOMAIN events}

CallState ==
  [pc : {"idle", "open", "opened", "ticketed", "waiting", "forward", "close", "done"},
   verdict : Verdicts, opening : Nat,
   closing : {"COMPLETED", "UPSTREAM_ERROR", "DENIED"},
   resp : {"none", "ungoverned", "500", "lost", "result", "error", "denied"}]

AuditRow ==
  [call : Calls, status : Openings \cup {"COMPLETED", "UPSTREAM_ERROR"},
   parent : Nat, by : Reviewers \cup {NoReviewer}]

\* Every variable keeps its type; only rows of the log are announced as events.
TypeOK ==
  /\ H!TypeOK
  /\ call \in [Calls -> CallState]
  /\ audit \in Seq(AuditRow)
  /\ events \in Seq(Nat) /\ Published \subseteq DOMAIN audit
  /\ up \in [Calls -> {"none", "sent", "executed", "refused"}]

\* The request of a call reaches the upstream server only under a row that was in
\* the log before it, INTENT, or HELD with an approval by a reviewer.
ForwardedIsAuthorised ==
  \A c \in Calls : up[c] # "none" =>
    \/ Has(c, "INTENT")
    \/ Has(c, "HELD") /\ \E d \in written : d.ticket = c /\ d.status = "APPROVED"

\* Every variable keeps its type, and the rows of one call are in one of the shapes
\* app.py's docstring lists, or a beginning of one: one row that opens the call and at
\* most one that closes it, linked to it by parent_id; a closed INTENT is never DENIED.
RowShapes ==
  TypeOK /\ \A c \in Calls :
    /\ \A i, j \in Rows(c) : IsOpening(i) /\ IsOpening(j) => i = j
    /\ \A i \in Rows(c) : ~ IsOpening(i) =>
         /\ audit[i].parent \in Rows(c) /\ audit[i].parent < i
         /\ audit[audit[i].parent].status \in
              IF audit[i].status = "DENIED" THEN {"HELD"} ELSE {"HELD", "INTENT"}
         /\ \A j \in Rows(c) : ~ IsOpening(j) => i = j

\* What the agent is told is in the log by then: a result has its COMPLETED row, an
\* error its UPSTREAM_ERROR row, a refusal its DENIED row; and neither of the first
\* two is written for a call that never left the gateway.
AnswerIsRecorded ==
  \A c \in Calls :
    /\ call[c].resp = "result" => Has(c, "COMPLETED")
    /\ call[c].resp = "error"  => Has(c, "UPSTREAM_ERROR")
    /\ call[c].resp = "denied" => Has(c, "DENIED")
    /\ Has(c, "COMPLETED") \/ Has(c, "UPSTREAM_ERROR") => up[c] # "none"

\* The reviewer named in the row that closes a held call decided it that way.
ReviewIsAttributed ==
  \A i \in DOMAIN audit : audit[i].by # NoReviewer =>
    \E d \in written :
      /\ d.ticket = audit[i].call /\ d.by = audit[i].by
      /\ d.status = IF audit[i].status = "DENIED" THEN "DENIED" ELSE "APPROVED"

\* _publish_decision_event, "once per decision-defining audit write (DENIED, HELD, or
\* INTENT)": an event refers to a row in the log that opened a call, no row is announced
\* twice, and none goes unannounced whose request was answered by anything but an
\* internal error.  (With create_ticket failing, a HELD row does.)
OpeningsArePublished ==
  /\ \A k \in DOMAIN events : events[k] \in DOMAIN audit /\ IsOpening(events[k])
  /\ \A k, m \in DOMAIN events : events[k] = events[m] => k = m
  /\ \A c \in Calls : At(c, "done") /\ call[c].opening # 0 /\ call[c].resp \notin {"lost", "500"}
                       => call[c].opening \in Published

\* Every request is answered, or the process that had it is gone, although neither
\* reviewers nor the upstream server need ever do anything.
EveryCallEnds == \A c \in Calls : ~ At(c, "idle") ~> At(c, "done")

\* The gateway keeps the promise of GovernedCalls: read off the log and the wire.
VerdictOf(c) ==
  IF Has(c, "DENIED") THEN "refused"
  ELSE IF Has(c, "INTENT") \/ up[c] # "none" THEN "allowed" ELSE "undecided"

Promise == INSTANCE GovernedCalls
             WITH verdict <- [c \in Calls |-> VerdictOf(c)],
                  effect  <- [c \in Calls |-> up[c] = "executed"]
ImplementsGovernedCalls == Promise!Spec
=============================================================================
