--------------------------- MODULE Investigation ---------------------------
(***************************************************************************)
(* Investigations under the AML policy pack: the investigator agent        *)
(* (agents/aml-investigator) and other agents call the OFAC server (module *)
(* OfacIndex) and the transaction-graph server through the gateway, which  *)
(* applies the pack's rules (policies/packs/aml.py and its YAML files) to  *)
(* requests and to answers.                                                *)
(*                                                                         *)
(* A call is the protocol of GatewayCalls in the steps another actor can   *)
(* tell apart, with every answer buffered, because the pack redacts every  *)
(* tool: Send, Open, Review..., Execute, Respond, Close.  An investigation *)
(* is a sequence of calls, one at a time; an id it needs no more than once *)
(* names both the client and the tool.  The accounts of all calls are one  *)
(* account, and the structuring signal of its transactions does not        *)
(* change.  Rows of the audit log are kept by agent: no rule of the pack   *)
(* compares the rows of two agents.                                        *)
(***************************************************************************)
EXTENDS OfacIndex

CONSTANTS
  Runs,       \* investigations; a run is also the agent id that it sends
  Others,     \* other clients, each of which makes one call
  AgentOf,    \* the agent ids those send
  Wants,      \* the requests each of them may make
  Lists,      \* lists that OFAC may publish
  entity_name,\* the holder of the account
  MaxFaults   \* bound: failing stores, refusals, restarts

Clients == Runs \cup Others
agent_id(c) == IF c \in Runs THEN c ELSE AgentOf[c]
Agents  == {agent_id(c) : c \in Clients}

OFAC_TOOLS == {"check_entity", "check_alias", "get_entity_detail"}
SANCTIONS_CHECK_TOOLS == {"check_entity", "check_alias"}

\* applies_to of aml-sanctions-required and of aml-write-hitl-gate.
ScreenedTools == {"query_transactions", "neighbors", "subgraph", "structuring_check",
                  "mark_investigated"}
GatedTools == {"mark_investigated"}

TOOLS == OFAC_TOOLS \cup ScreenedTools \cup {"get_account"}

DISPOSITION_BY_RISK == [high |-> "escalate", medium |-> "monitor", low |-> "cleared"]
Dispositions == {DISPOSITION_BY_RISK[r] : r \in DOMAIN DISPOSITION_BY_RISK}

\* A request: its tool, and what of its arguments matters.
Request(tool, arg, type) == [tool |-> tool, arg |-> arg, type |-> type]

\* The graph server refuses any other disposition (TransactionGraph): no call here has one.
ASSUME InvestigationAssumption ==
  /\ Runs \cap Others = {} /\ MaxFaults \in Nat /\ LIMIT \in Nat \ {0}
  /\ DOMAIN AgentOf = Others /\ DOMAIN Wants = Others
  /\ \A c \in Others : \A req \in Wants[c] :
       /\ req = Request(req.tool, req.arg, req.type) /\ req.tool \in TOOLS
       /\ req.tool \in GatedTools => req.arg \in Dispositions

\* Lists are sequences of rows, and there is a score for every name on them.  A name that a
\* list has is alike to itself (WRatio says 100 of any name with a letter or a digit in it).
ASSUME ScoreAssumption ==
  /\ \A l \in Lists : \A rows \in {l.sdn, l.alt} :
       Len(rows) \in Nat /\ DOMAIN rows = 1 .. Len(rows)
  /\ entity_name \in DOMAIN score /\ match_threshold \in Nat
  /\ \A c \in Others : \A req \in Wants[c] :
       req.tool \in SANCTIONS_CHECK_TOOLS => req.arg \in DOMAIN score
  /\ \A query \in DOMAIN score : \A l \in Lists : \A n \in DOMAIN all_names(build_index(l)) :
       score[query][n] \in Nat /\ (n = query => score[query][n] >= match_threshold)

VARIABLES
  index,        \* the OFAC server's index
  structuring,  \* whether structuring_check flags the account
  investigated, \* the graph server's table: the account's disposition
  audit,        \* the rows of each agent, in order
  force_hitl,   \* clients whose session has the Redis flag
  wire,         \* requests on their way to, or in the hands of, a server
  call,         \* the gateway's coroutine for each client's current call
  inv,          \* the state of each investigation
  served,       \* history: what the servers did for each agent, in order
  approved,     \* history: clients whose held call a reviewer approved
  faults        \* faults that may still happen

vars == <<index, structuring, investigated, audit, force_hitl, wire, call, inv, served,
          approved, faults>>
servers == <<index, structuring, investigated>>
history == <<served, approved>>

None == "none"
NoBody == [kind |-> "none", matches |-> {}, flagged |-> FALSE]
Body(kind) == [NoBody EXCEPT !.kind = kind]

Init ==
  /\ index \in {build_index(l) : l \in Lists}
  /\ structuring \in BOOLEAN
  /\ investigated = None
  /\ audit = [a \in Agents |-> <<>>]
  /\ force_hitl = {}
  /\ wire = {}
  /\ call = [c \in Clients |-> [pc |-> "idle", req |-> Request(None, None, None),
                                status |-> None, body |-> NoBody, alert |-> FALSE]]
  /\ inv = [r \in Runs |-> [pc |-> "get_account", hit |-> {}, flagged |-> FALSE, risk |-> None,
                            by |-> None, wrote |-> None, log |-> <<>>]]
  /\ served = [a \in Agents |-> <<>>]
  /\ approved = {}
  /\ faults = MaxFaults

Fault == faults > 0 /\ faults' = faults - 1

-----------------------------------------------------------------------------
(***************************************************************************)
(* The pack's request side                                                 *)
(***************************************************************************)

\* A mutant of aml_sanctions_required: any row of a check will do.
aml_sanctions_required_any_status(a) ==
  ~ \E i \in DOMAIN audit[a] : audit[a][i].tool \in SANCTIONS_CHECK_TOOLS

\* Whether the rule refuses: the agent has no COMPLETED check.
aml_sanctions_required(a) ==
  ~ \E i \in DOMAIN audit[a] : /\ audit[a][i].tool \in SANCTIONS_CHECK_TOOLS
                               /\ audit[a][i].status = "COMPLETED"

\* A mutant of Verdict: a write is held only after a structuring alert.
Verdict_gate_on_alert(c, tool) ==
  IF tool \in ScreenedTools /\ aml_sanctions_required(agent_id(c)) THEN "DENIED"
  ELSE IF tool \in GatedTools /\ c \in force_hitl THEN "HELD" ELSE "INTENT"

\* The row that the decision opens the call with.
Verdict(c, tool) ==
  IF tool \in ScreenedTools /\ aml_sanctions_required(agent_id(c)) THEN "DENIED"
  ELSE IF tool \in GatedTools THEN "HELD" ELSE "INTENT"

-----------------------------------------------------------------------------
(***************************************************************************)
(* The gateway                                                             *)
(***************************************************************************)

Row(c, status) ==
  [by |-> c, tool |-> call[c].req.tool, status |-> status, alert |-> call[c].alert]
AddRow(c, status) == [audit EXCEPT ![agent_id(c)] = Append(@, Row(c, status))]

\* A request arrives and is decided on.  The rate limit on check_entity, and a rule
\* that fails, refuse what the rules alone would not.
Send(c, req) ==
  /\ call[c].pc = "idle"
  /\ \E v \in {Verdict(c, req.tool), "DENIED"} :
       /\ IF v = Verdict(c, req.tool) THEN UNCHANGED faults ELSE Fault
       /\ call' = [call EXCEPT ![c] = [pc |-> "open", req |-> req, status |-> v,
                                       body |-> NoBody, alert |-> FALSE]]
  /\ UNCHANGED <<servers, audit, force_hitl, wire, inv, history>>

\* The opening row is in the log: the call is refused, held or forwarded.
Open(c) ==
  /\ call[c].pc = "open"
  /\ audit' = AddRow(c, call[c].status)
  /\ \/ /\ call[c].status = "DENIED"
        /\ call' = [call EXCEPT ![c].pc = "answered", ![c].body = Body("rpc_error")]
        /\ UNCHANGED wire
     \/ /\ call[c].status = "HELD"
        /\ call' = [call EXCEPT ![c].pc = "held"]
        /\ UNCHANGED wire
     \/ /\ call[c].status = "INTENT"
        /\ call' = [call EXCEPT ![c].pc = "sent"]
        /\ wire' = wire \cup {[client |-> c, req |-> call[c].req]}
  /\ UNCHANGED <<servers, force_hitl, inv, history, faults>>

\* write_entry fails, with or without the row: HTTP 500.
WriteFails(c) ==
  /\ call[c].pc \in {"open", "close"}
  /\ Fault
  /\ audit' \in {audit, AddRow(c, call[c].status)}
  /\ call' = [call EXCEPT ![c].pc = "answered", ![c].body = Body("lost")]
  /\ UNCHANGED <<servers, force_hitl, wire, inv, history>>

ReviewerApproves(c) ==
  /\ call[c].pc = "held"
  /\ approved' = approved \cup {c}
  /\ call' = [call EXCEPT ![c].pc = "sent"]
  /\ wire' = wire \cup {[client |-> c, req |-> call[c].req]}
  /\ UNCHANGED <<servers, audit, force_hitl, inv, served, faults>>

\* A mutant of HoldEnds: the wait has no deadline.
HoldEnds_never(c) == call[c].pc = "held" /\ UNCHANGED vars

\* A reviewer denies the call, or nobody decides in time.
HoldEnds(c) ==
  /\ call[c].pc = "held"
  /\ call' = [call EXCEPT ![c].pc = "close", ![c].status = "DENIED", ![c].body = Body("rpc_error")]
  /\ UNCHANGED <<servers, audit, force_hitl, wire, inv, history, faults>>

\* httpx gives up; the request may be carried out all the same.
UpstreamTimesOut(c) ==
  /\ call[c].pc = "sent"
  /\ call' = [call EXCEPT ![c].pc = "close", ![c].status = "UPSTREAM_ERROR",
                          ![c].body = Body("rpc_error")]
  /\ UNCHANGED <<servers, audit, force_hitl, wire, inv, history, faults>>

Alerted(c) == call[c].req.tool = "structuring_check" /\ call[c].body.flagged

\* A mutant of Respond: a failing alert is passed over.
Respond_swallows(c) ==
  /\ call[c].pc = "returned"
  /\ \/ /\ call' = [call EXCEPT ![c].pc = "close", ![c].status = "COMPLETED", ![c].alert = Alerted(c)]
        /\ force_hitl' = IF Alerted(c) THEN force_hitl \cup {c} ELSE force_hitl
        /\ UNCHANGED faults
     \/ /\ Alerted(c) /\ Fault
        /\ call' = [call EXCEPT ![c].pc = "close", ![c].status = "COMPLETED"]
        /\ UNCHANGED force_hitl
  /\ UNCHANGED <<servers, audit, wire, inv, history>>

\* The whole answer is in: redaction, then aml_structuring_alert, which looks at the
\* structured content of a result and sets the session's flag.  If Redis fails the
\* answer is replaced by an error, and the flag may have been set.
Respond(c) ==
  /\ call[c].pc = "returned"
  /\ \/ /\ call' = [call EXCEPT ![c].pc = "close", ![c].status = "COMPLETED", ![c].alert = Alerted(c)]
        /\ force_hitl' = IF Alerted(c) THEN force_hitl \cup {c} ELSE force_hitl
        /\ UNCHANGED faults
     \/ /\ Alerted(c) /\ Fault
        /\ call' = [call EXCEPT ![c].pc = "close", ![c].status = "UPSTREAM_ERROR",
                                ![c].body = Body("rpc_error")]
        /\ force_hitl' \in {force_hitl, force_hitl \cup {c}}
  /\ UNCHANGED <<servers, audit, wire, inv, history>>

\* The closing row is in the log, and then the client has its answer.
Close(c) ==
  /\ call[c].pc = "close"
  /\ audit' = AddRow(c, call[c].status)
  /\ call' = [call EXCEPT ![c].pc = "answered"]
  /\ UNCHANGED <<servers, force_hitl, wire, inv, history, faults>>

-----------------------------------------------------------------------------
(***************************************************************************)
(* The servers                                                             *)
(***************************************************************************)

\* What the OFAC server may answer.
Screening(req) ==
  CASE req.tool = "check_entity" -> check_entity(index, req.arg, req.type)
    [] req.tool = "check_alias"  -> check_alias(index, req.arg)
    [] OTHER                     -> get_entity_detail(index, req.arg)

\* A tool that raises is answered with a result that says isError.
Results(req) ==
  IF req.tool \in OFAC_TOOLS
  THEN {IF s.ok THEN [Body("ok") EXCEPT !.matches = s.matches] ELSE Body("tool_error") :
          s \in Screening(req)}
  ELSE {[Body("ok") EXCEPT !.flagged = (req.tool = "structuring_check" /\ structuring)]}

\* The server is done with m.  The gateway may have stopped waiting, and the client
\* may be at another call by then.
Answered(m, body) ==
  /\ wire' = wire \ {m}
  /\ served' = [served EXCEPT ![agent_id(m.client)] =
                  Append(@, [by |-> m.client, req |-> m.req, kind |-> body.kind])]
  /\ call' = IF call[m.client].pc = "sent" /\ call[m.client].req = m.req
             THEN [call EXCEPT ![m.client].pc = "returned", ![m.client].body = body]
             ELSE call

Execute(m) ==
  /\ \E body \in Results(m.req) : Answered(m, body)
  /\ investigated' = IF m.req.tool = "mark_investigated" THEN m.req.arg ELSE investigated
  /\ UNCHANGED <<index, structuring, audit, force_hitl, inv, approved, faults>>

\* A JSON-RPC error, of a session that the server has forgotten for instance.
Refuse(m) ==
  /\ Fault
  /\ Answered(m, Body("rpc_error"))
  /\ UNCHANGED <<servers, audit, force_hitl, inv, approved>>

\* The table is empty again; the list is fetched anew.
GraphRestart ==
  /\ Fault
  /\ investigated' = None
  /\ UNCHANGED <<index, structuring, audit, force_hitl, wire, call, inv, history>>

OfacRestart ==
  /\ Fault
  /\ index' \in {build_index(l) : l \in Lists}
  /\ UNCHANGED <<structuring, investigated, audit, force_hitl, wire, call, inv, history>>

-----------------------------------------------------------------------------
(***************************************************************************)
(* The investigator                                                        *)
(***************************************************************************)

\* The calls of the discovery and enrichment nodes, each with the one that follows.
Following == [get_account |-> "check_entity", check_entity |-> "query_transactions",
              query_transactions |-> "neighbors", neighbors |-> "subgraph",
              subgraph |-> "structuring_check", structuring_check |-> "assessment",
              get_entity_detail |-> "assessment", mark_investigated |-> "report"]

IsHit(hit) == \E m \in hit : m.is_match

NextCall(i) ==
  IF i.pc = "structuring_check" /\ IsHit(i.hit) THEN "get_entity_detail" ELSE Following[i.pc]

InvestigatorRequest(i) ==
  CASE i.pc = "check_entity"      -> Request(i.pc, entity_name, "entity")
    [] i.pc = "get_entity_detail" -> Request(i.pc, (CHOOSE m \in i.hit : TRUE).ent, None)
    [] i.pc = "mark_investigated" -> Request(i.pc, DISPOSITION_BY_RISK[i.risk], None)
    [] OTHER                      -> Request(i.pc, None, None)

CallTool(r) ==
  /\ inv[r].pc \in DOMAIN Following
  /\ Send(r, InvestigatorRequest(inv[r]))

\* InvestigationClient._call returns, and the node goes on with what it got.
Found(r, body) ==
  LET i == inv[r]
  IN  [i EXCEPT !.pc = NextCall([i EXCEPT !.hit = IF i.pc = "check_entity" THEN body.matches ELSE @]),
                !.hit = IF i.pc = "check_entity" THEN body.matches ELSE @,
                !.flagged = @ \/ body.flagged,
                !.wrote = IF i.pc = "mark_investigated" THEN "result" ELSE @,
                !.log = Append(@, [tool |-> i.pc, ok |-> TRUE])]

\* ToolCallError: the write is noted as failed, any other call ends the run.
Failed(r) ==
  LET i == inv[r]
  IN  [i EXCEPT !.pc = IF i.pc = "mark_investigated" THEN "report" ELSE "failed",
                !.wrote = IF i.pc = "mark_investigated" THEN "error" ELSE @,
                !.log = Append(@, [tool |-> i.pc, ok |-> FALSE])]

\* A mutant of Returned: only isError is an error (the bug of Day 13 that _call tells of).
Returned_policy_errors_pass(r) ==
  CASE call[r].body.kind = "lost" -> {Failed(r), [inv[r] EXCEPT !.pc = "lost"]}
    [] call[r].body.kind = "tool_error" -> {Failed(r)}
    [] OTHER -> {Found(r, call[r].body)}

\* An HTTP error is what the MCP library makes of it: an McpError, or another exception,
\* which is no ToolCallError and leaves no record.
Returned(r) ==
  CASE call[r].body.kind = "ok"   -> {Found(r, call[r].body)}
    [] call[r].body.kind = "lost" -> {Failed(r), [inv[r] EXCEPT !.pc = "lost"]}
    [] OTHER                      -> {Failed(r)}

Receive(r) ==
  /\ call[r].pc = "answered" /\ inv[r].pc \in DOMAIN Following
  /\ \E i \in Returned(r) : inv' = [inv EXCEPT ![r] = i]
  /\ call' = [call EXCEPT ![r].pc = "idle"]
  /\ UNCHANGED <<servers, audit, force_hitl, wire, history, faults>>

\* The client's own timeout is over before the answer is there: again no ToolCallError.
\* The gateway goes on with the call.
GiveUp(r) ==
  /\ call[r].pc \notin {"idle", "answered"} /\ inv[r].pc \in DOMAIN Following
  /\ inv' = [inv EXCEPT ![r].pc = "lost"]
  /\ UNCHANGED <<servers, audit, force_hitl, wire, call, history, faults>>

\* _fallback_assessment.
fallback_risk(i) == IF IsHit(i.hit) THEN "high" ELSE IF i.flagged THEN "medium" ELSE "low"

\* The language model says what it likes; when it fails the rules decide.
Assess(r) ==
  /\ inv[r].pc = "assessment"
  /\ \/ \E risk \in DOMAIN DISPOSITION_BY_RISK :
          inv' = [inv EXCEPT ![r].risk = risk, ![r].by = "model", ![r].pc = "mark_investigated"]
     \/ inv' = [inv EXCEPT ![r].risk = fallback_risk(inv[r]), ![r].by = "rules",
                           ![r].pc = "mark_investigated"]
  /\ UNCHANGED <<servers, audit, force_hitl, wire, call, history, faults>>

Report(r) ==
  /\ inv[r].pc = "report"
  /\ inv' = [inv EXCEPT ![r].pc = "done"]
  /\ UNCHANGED <<servers, audit, force_hitl, wire, call, history, faults>>

-----------------------------------------------------------------------------
GatewayStep(c) == Open(c) \/ HoldEnds(c) \/ UpstreamTimesOut(c) \/ Respond(c) \/ Close(c)
InvestigatorStep(r) == CallTool(r) \/ Receive(r) \/ Assess(r) \/ Report(r)

Ended(r) == inv[r].pc \in {"done", "failed", "lost"}

Finished ==
  /\ \A r \in Runs : Ended(r) /\ call[r].pc \in {"idle", "answered"}
  /\ \A c \in Others : call[c].pc = "answered"
  /\ UNCHANGED vars

Next ==
  \/ \E c \in Clients : GatewayStep(c) \/ WriteFails(c) \/ ReviewerApproves(c)
  \/ \E m \in wire : Execute(m) \/ Refuse(m)
  \/ GraphRestart \/ OfacRestart
  \/ \E r \in Runs : InvestigatorStep(r) \/ GiveUp(r)
  \/ \E c \in Others : \E req \in Wants[c] : Send(c, req)
  \/ Finished

Spec == Init /\ [][Next]_vars

(***************************************************************************)
(* The coroutines of an investigation, the gateway's and its own, run; the *)
(* wait for a reviewer and the wait for a server have deadlines, so        *)
(* nothing is asked of reviewers, of servers or of other clients.          *)
(***************************************************************************)
FairSpec ==
  /\ Spec
  /\ \A r \in Runs : WF_vars(GatewayStep(r)) /\ WF_vars(InvestigatorStep(r))

-----------------------------------------------------------------------------
(***************************************************************************)
(* Properties                                                              *)
(***************************************************************************)

Rows(c, tool) == {i \in DOMAIN audit[agent_id(c)] :
                    audit[agent_id(c)][i].by = c /\ audit[agent_id(c)][i].tool = tool}
HasRow(c, tool, status) == \E i \in Rows(c, tool) : audit[agent_id(c)][i].status = status

\* Every variable keeps its type (checked with DispositionIsApproved).
TypeOK ==
  /\ structuring \in BOOLEAN
  /\ investigated \in Dispositions \cup {None}
  /\ force_hitl \subseteq Clients /\ approved \subseteq Clients /\ faults \in 0 .. MaxFaults
  /\ \A m \in wire : m.client \in Clients
  /\ \A c \in Clients : call[c].pc \in {"idle", "open", "held", "sent", "returned", "close",
                                         "answered"}
  /\ \A r \in Runs : inv[r].pc \in DOMAIN Following \cup
                       {"assessment", "report", "done", "failed", "lost"}

\* aml-sanctions-required, told by what the two servers did: the graph server carries a
\* screened tool out for an agent only if the OFAC server had by then answered a check of
\* the same agent.  Checks that are refused, still on their way, or of another agent do not
\* count, whatever is in flight.  (That the answer was no error is not required; see README.)
ScreeningPrecedesGraph ==
  \A a \in Agents : \A i \in DOMAIN served[a] :
    served[a][i].req.tool \in ScreenedTools =>
      \E j \in 1 .. i - 1 : served[a][j].req.tool \in SANCTIONS_CHECK_TOOLS

\* aml-write-hitl-gate: a disposition is written only for a call that was held and that a
\* reviewer approved, and by an investigation only as its assessment had it; without the
\* language model, "cleared" only of an account neither list nor structuring spoke against.
\* The types hold as well.
DispositionIsApproved ==
  /\ TypeOK
  /\ \A a \in Agents : \A i \in DOMAIN served[a] :
       LET s == served[a][i]
       IN  s.req.tool = "mark_investigated" =>
             /\ s.by \in approved /\ HasRow(s.by, "mark_investigated", "HELD")
             /\ s.by \in Runs =>
                  /\ s.req.arg = DISPOSITION_BY_RISK[inv[s.by].risk]
                  /\ inv[s.by].by = "rules" /\ s.req.arg = "cleared" =>
                       ~ structuring /\ ~ IsHit(inv[s.by].hit)

\* aml-structuring-alert: who has been told of a structuring signal has the flag on its
\* session and a COMPLETED row with the incident's tags; a failing alert withholds the answer.
AlertIsRecorded ==
  \A c \in Clients :
    (call[c].pc = "answered" /\ Alerted(c)) \/ (c \in Runs /\ inv[c].flagged) =>
      /\ c \in force_hitl
      /\ \E i \in Rows(c, "structuring_check") :
           audit[agent_id(c)][i].status = "COMPLETED" /\ audit[agent_id(c)][i].alert

\* What an investigation tells of itself agrees with the log and the servers: every call it
\* counts as made has its COMPLETED row, a disposition it reports as recorded was carried out,
\* and one that the log says was DENIED was not and never will be.  (A write it reports as
\* failed may have been carried out when the answer, not the request, was lost.)
ReportIsHonest ==
  \A r \in Runs :
    LET wrote == \E i \in DOMAIN served[r] : /\ served[r][i].req.tool = "mark_investigated"
                                             /\ served[r][i].by = r /\ served[r][i].kind = "ok"
    IN  /\ \A k \in DOMAIN inv[r].log :
             inv[r].log[k].ok => HasRow(r, inv[r].log[k].tool, "COMPLETED")
        /\ inv[r].wrote = "result" => wrote
        /\ HasRow(r, "mark_investigated", "DENIED") =>
             ~ wrote /\ \A m \in wire : m.client # r \/ m.req.tool # "mark_investigated"

\* What the look-ups that are about to be answered say of the list.  check_entity finds nothing
\* only if the list has nobody of the type, and otherwise "the single best match" (server.py): an
\* entry of the type, under its own name, and no name of the type scores higher.  Of several
\* entries with that name and type it gives the one that comes first, and no other, although
\* names_by_type keeps all of them ("beats silently dropping one", loader.py): that somebody of
\* the name and type asked for is on the list is told (IsHit), but not who else.  check_alias
\* does list every entry that shares a name it gives, and is "explicitly broader" (server.py):
\* it has a match whenever check_entity has one.
ScreeningIsFaithful ==
  \A m \in wire : m.req.tool \in SANCTIONS_CHECK_TOOLS =>
    \A s \in Screening(m.req) : s.ok =>
      LET query   == m.req.arg
          of_type == {e \in DOMAIN index : index[e].type = m.req.type}
      IN  /\ m.req.tool = "check_entity" =>
               /\ s.matches = {} <=> of_type = {}
               /\ \A x \in s.matches :
                    /\ x.ent \in of_type /\ x.name = index[x.ent].name
                    /\ \A e \in of_type :
                         /\ score[query][x.name] >= score[query][index[e].name]
                         /\ index[e].name = x.name => index[x.ent].place <= index[e].place
               /\ (\E e \in of_type : index[e].name = query) => IsHit(s.matches)
               /\ IsHit(s.matches) => \A b \in check_alias(index, query) : IsHit(b.matches)
          /\ m.req.tool = "check_alias" =>
               \A x \in s.matches :
                 /\ x.ent \in DOMAIN index /\ x.name \in names(index[x.ent])
                 /\ \A e \in DOMAIN index : x.name \in names(index[e]) =>
                      \E y \in s.matches : y.ent = e /\ y.name = x.name

\* Every investigation comes to an end, whatever reviewers, servers and the language model do.
InvestigationEnds == \A r \in Runs : <>Ended(r)
=============================================================================
