------------------------- MODULE InvestigationProofs -------------------------
(***************************************************************************)
(* Theorems about Investigation, for any number of investigations and of   *)
(* other clients, any lists and any number of faults: what the AML pack's  *)
(* rules are to guarantee, in terms of what the servers did, holds however *)
(* calls of one agent overlap, time out, fail or are refused; and the OFAC *)
(* server's look-ups give the best names of its list.                      *)
(***************************************************************************)
EXTENDS Investigation, SumProofs, SequenceTheorems, TLAPS

(***************************************************************************)
(* What the histories say of a client or an agent.  They only grow.        *)
(***************************************************************************)

\* The OFAC server has answered a check of agent a.
Checked(a) == \E j \in DOMAIN served[a] : served[a][j].req.tool \in SANCTIONS_CHECK_TOOLS

\* A server is done with a call of client c, and did what it was asked.
Served(c, tool) == \E j \in DOMAIN served[agent_id(c)] :
                     served[agent_id(c)][j].by = c /\ served[agent_id(c)][j].req.tool = tool
Done(c, tool)   == \E j \in DOMAIN served[agent_id(c)] :
                     /\ served[agent_id(c)][j].by = c /\ served[agent_id(c)][j].req.tool = tool
                     /\ served[agent_id(c)][j].kind = "ok"

\* A call of c is with a server, or may still come to it.
OnWire(c, tool) == \E m \in wire : m.client = c /\ m.req.tool = tool

\* The log has the incident's row.
AlertRow(c) == \E i \in Rows(c, "structuring_check") :
                 audit[agent_id(c)][i].status = "COMPLETED" /\ audit[agent_id(c)][i].alert

(***************************************************************************)
(* The inductive invariant                                                 *)
(***************************************************************************)

Mark == "mark_investigated"

\* Values made by EXCEPT and Append stay records with these fields, and sequences.
IsCall(k) == DOMAIN k = {"pc", "req", "status", "body", "alert"}
IsInv(i)  == DOMAIN i = {"pc", "hit", "flagged", "risk", "by", "wrote", "log"}
IsSeq(s)  == s \in Seq({s[j] : j \in DOMAIN s})

ShapeInv ==
  /\ TypeOK
  /\ call = [c \in Clients |-> call[c]] /\ \A c \in Clients : IsCall(call[c])
  /\ inv = [r \in Runs |-> inv[r]]      /\ \A r \in Runs : IsInv(inv[r]) /\ IsSeq(inv[r].log)
  /\ audit = [a \in Agents |-> audit[a]] /\ served = [a \in Agents |-> served[a]]
  /\ \A a \in Agents : IsSeq(audit[a]) /\ IsSeq(served[a])

\* A disposition that run r may write: its assessment's, and without the language model
\* "cleared" only of an account that nothing speaks against.
Fits(r, arg) ==
  /\ arg = DISPOSITION_BY_RISK[inv[r].risk]
  /\ inv[r].by = "rules" /\ arg = "cleared" => ~ structuring /\ ~ IsHit(inv[r].hit)

\* A write that client c may ask for.
MayWrite(c, arg) == arg \in Dispositions /\ (c \in Runs => Fits(c, arg))

\* Before a call is forwarded: what the rules have asked of it.
RequestInv(c) ==
  LET k == call[c] IN
  /\ k.req.tool = Mark => MayWrite(c, k.req.arg)
  /\ k.pc = "open" => /\ k.status \in {"INTENT", "HELD", "DENIED"}
                      /\ k.status = "INTENT" => k.req.tool # Mark
                      /\ k.status # "DENIED" /\ k.req.tool \in ScreenedTools => Checked(agent_id(c))
  /\ k.pc = "held" => /\ HasRow(c, k.req.tool, "HELD") /\ k.status = "HELD"
                      /\ k.req.tool \in ScreenedTools => Checked(agent_id(c))
  /\ k.pc \in {"open", "held", "sent"} => k.body = NoBody

\* After it is answered: what the answer stands for, and what is in the log of it.
AnswerInv(c) ==
  LET k == call[c] IN
  /\ k.body.flagged \in BOOLEAN
  /\ k.body.kind = "ok" => /\ Done(c, k.req.tool)
                           /\ k.req.tool = "structuring_check" => k.body.flagged = structuring
  /\ k.body.flagged => k.req.tool = "structuring_check" /\ k.body.kind = "ok"
  /\ /\ k.pc = "returned" \/ (k.pc = "close" /\ k.status = "COMPLETED")
     /\ k.req.tool \in SANCTIONS_CHECK_TOOLS
     => Checked(agent_id(c))
  /\ k.pc = "close" => /\ k.body.kind = "ok" => k.status = "COMPLETED"
                       /\ k.body.flagged => k.alert /\ c \in force_hitl
  /\ k.pc = "answered" => /\ k.body.kind = "ok" => HasRow(c, k.req.tool, "COMPLETED")
                          /\ k.body.flagged => c \in force_hitl /\ AlertRow(c)

\* What is with a server may be there.
MayBeOnWire(m) ==
  /\ m = [client |-> m.client, req |-> m.req] /\ m.client \in Clients
  /\ m.req.tool \in ScreenedTools => Checked(agent_id(m.client))
  /\ m.req.tool = Mark => /\ m.client \in approved /\ HasRow(m.client, Mark, "HELD")
                          /\ MayWrite(m.client, m.req.arg)

\* And what they did was allowed.
ServedInv ==
  /\ ScreeningPrecedesGraph
  /\ \A a \in Agents : \A i \in DOMAIN served[a] :
       LET c == served[a][i].by IN
       /\ c \in Clients /\ agent_id(c) = a
       /\ served[a][i].req.tool = Mark =>
            c \in approved /\ HasRow(c, Mark, "HELD") /\ MayWrite(c, served[a][i].req.arg)

\* A row that satisfies aml-sanctions-required stands for an answer.
LogInv == \A a \in Agents : ~ aml_sanctions_required(a) => Checked(a)

\* A run makes its calls one by one, and the write last.
RunInv(r) ==
  LET i == inv[r]
      k == call[r]
  IN
  /\ i.pc \in DOMAIN Following /\ k.pc # "idle" => k.req.tool = i.pc
  /\ i.pc \notin DOMAIN Following \cup {"lost"} => k.pc = "idle"
  /\ k.req.tool = Mark => i.pc \in {Mark, "report", "done", "lost"}
  /\ i.pc = Mark /\ k.pc = "idle" => k.req.tool # Mark
  /\ i.flagged \in BOOLEAN
  /\ i.pc \in {"assessment", "get_entity_detail", Mark} => i.flagged = structuring
  /\ i.pc = Mark => /\ i.risk \in DOMAIN DISPOSITION_BY_RISK
                    /\ i.by = "rules" => i.risk = fallback_risk(i)
  /\ i.flagged => structuring /\ r \in force_hitl /\ AlertRow(r)
  /\ \A n \in DOMAIN i.log : i.log[n].ok => HasRow(r, i.log[n].tool, "COMPLETED")
  /\ i.wrote = "result" => Done(r, Mark)

\* What has come of the write of run r: none is ever both denied and with the server.
WriteInv(r) ==
  LET k == call[r] IN
  /\ OnWire(r, Mark) \/ Served(r, Mark) =>
       /\ k.req.tool = Mark /\ k.pc \notin {"open", "held"}
       /\ k.pc \in {"sent", "returned", "close"} => k.status # "DENIED"
       /\ ~ HasRow(r, Mark, "DENIED")
  /\ HasRow(r, Mark, "DENIED") => k.req.tool = Mark /\ k.pc \notin {"open", "held"}

\* The inductive invariant.
Inv ==
  /\ ShapeInv
  /\ \A c \in Clients : RequestInv(c) /\ AnswerInv(c)
  /\ (\A m \in wire : MayBeOnWire(m)) /\ ServedInv /\ LogInv
  /\ \A r \in Runs : RunInv(r) /\ WriteInv(r)

-----------------------------------------------------------------------------
(***************************************************************************)
(* Sequences, records and the constants' values                            *)
(***************************************************************************)

LEMMA Appended ==
  ASSUME NEW s, IsSeq(s), NEW x
  PROVE  /\ Len(s) \in Nat /\ DOMAIN s = 1..Len(s)
         /\ IsSeq(Append(s, x))
         /\ DOMAIN Append(s, x) = 1..(Len(s) + 1)
         /\ Append(s, x)[Len(s) + 1] = x
         /\ \A j \in DOMAIN s : Append(s, x)[j] = s[j]
<1> DEFINE T == {s[j] : j \in DOMAIN s} \cup {x}
<1>1. s \in Seq(T) /\ x \in T
  BY DEF IsSeq
<1> HIDE DEF T
<1>2. /\ Append(s, x) \in Seq(T) /\ Len(Append(s, x)) = Len(s) + 1
      /\ \A j \in 1..Len(s) : Append(s, x)[j] = s[j]
      /\ Append(s, x)[Len(s) + 1] = x
  BY <1>1, AppendProperties
<1>3. Len(s) \in Nat /\ DOMAIN s = 1..Len(s) /\ DOMAIN Append(s, x) = 1..(Len(s) + 1)
  BY <1>1, <1>2
<1>4. IsSeq(Append(s, x))
  <2> DEFINE t == Append(s, x)
             R == {t[j] : j \in DOMAIN t}
  <2>1. t \in Seq(T)
    BY <1>2
  <2> HIDE DEF t
  <2>2. Len(t) \in Nat /\ DOMAIN t = 1..Len(t) /\ t = [j \in 1..Len(t) |-> t[j]]
    BY <2>1
  <2>3. t \in [1..Len(t) -> R]
    BY <2>2
  <2>4. t \in Seq(R)
    BY <2>2, <2>3
  <2> QED
    BY <2>4 DEF IsSeq, t
<1> QED
  BY <1>2, <1>3, <1>4

LEMMA EmptyIsSeq == IsSeq(<<>>)
  BY DEF IsSeq

\* The parts of a body, and of the results that the servers answer with.
LEMMA BodyParts ==
  /\ NoBody.kind = "none" /\ NoBody.flagged = FALSE
  /\ \A kind : /\ Body(kind).kind = kind /\ Body(kind).flagged = FALSE
               /\ DOMAIN Body(kind) = {"kind", "matches", "flagged"}
<1>1. /\ NoBody.kind = "none" /\ NoBody.flagged = FALSE
      /\ DOMAIN NoBody = {"kind", "matches", "flagged"}
  BY DEF NoBody
<1> QED
  BY <1>1 DEF Body

LEMMA ResultParts ==
  ASSUME NEW req, NEW body \in Results(req)
  PROVE  /\ body.kind \in {"ok", "tool_error"}
         /\ body.flagged = (req.tool = "structuring_check" /\ structuring)
         /\ req.tool = "structuring_check" => body.kind = "ok"
<1>1. CASE req.tool \in OFAC_TOOLS
  <2>1. req.tool # "structuring_check"
    BY <1>1 DEF OFAC_TOOLS
  <2>2. PICK s : body = IF s.ok THEN [Body("ok") EXCEPT !.matches = s.matches]
                                ELSE Body("tool_error")
    BY <1>1 DEF Results
  <2> QED
    BY <2>1, <2>2, BodyParts
<1>2. CASE req.tool \notin OFAC_TOOLS
  <2>1. body = [Body("ok") EXCEPT !.flagged = (req.tool = "structuring_check" /\ structuring)]
    BY <1>2 DEF Results
  <2> QED
    BY <2>1, BodyParts
<1> QED
  BY <1>1, <1>2

\* The agents are those of the clients, and a run is its own.
LEMMA AgentIds ==
  /\ \A c \in Clients : agent_id(c) \in Agents
  /\ \A r \in Runs : r \in Clients /\ agent_id(r) = r
  BY DEF Agents, agent_id, Clients

\* The nodes of an investigation, and the tools of its calls.
LEMMA Nodes ==
  /\ DOMAIN Following = {"get_account", "check_entity", "query_transactions", "neighbors",
                         "subgraph", "structuring_check", "get_entity_detail", Mark}
  /\ Following["get_account"] = "check_entity" /\ Following["check_entity"] = "query_transactions"
  /\ Following["query_transactions"] = "neighbors" /\ Following["neighbors"] = "subgraph"
  /\ Following["subgraph"] = "structuring_check" /\ Following["structuring_check"] = "assessment"
  /\ Following["get_entity_detail"] = "assessment" /\ Following[Mark] = "report"
  BY DEF Following, Mark

LEMMA Risks ==
  /\ DOMAIN DISPOSITION_BY_RISK = {"high", "medium", "low"}
  /\ \A x \in DOMAIN DISPOSITION_BY_RISK : /\ DISPOSITION_BY_RISK[x] \in Dispositions
                                           /\ DISPOSITION_BY_RISK[x] = "cleared" <=> x = "low"
  BY DEF DISPOSITION_BY_RISK, Dispositions

-----------------------------------------------------------------------------
(***************************************************************************)
(* How the histories grow                                                  *)
(***************************************************************************)

\* What a row of client c adds to what the log says, and that it leaves the rest.
LEMMA RowAdded ==
  ASSUME ShapeInv, NEW c \in Clients, NEW status, audit' = AddRow(c, status)
  PROVE  /\ audit' = [a \in Agents |-> audit'[a]] /\ \A a \in Agents : IsSeq(audit'[a])
         /\ \A d \in Clients : \A tool, st :
              HasRow(d, tool, st)' <=> \/ HasRow(d, tool, st)
                                       \/ d = c /\ tool = call[c].req.tool /\ st = status
         /\ \A d \in Clients :
              AlertRow(d)' <=> \/ AlertRow(d)
                               \/ d = c /\ call[c].req.tool = "structuring_check"
                                        /\ status = "COMPLETED" /\ call[c].alert
         /\ \A a \in Agents :
              aml_sanctions_required(a)' <=>
                /\ aml_sanctions_required(a)
                /\ ~ (a = agent_id(c) /\ call[c].req.tool \in SANCTIONS_CHECK_TOOLS
                                      /\ status = "COMPLETED")
<1> DEFINE b == agent_id(c)
           n == Len(audit[b]) + 1
           row == Row(c, status)
<1>1. /\ b \in Agents /\ audit = [a \in Agents |-> audit[a]]
      /\ \A a \in Agents : IsSeq(audit[a])
  BY AgentIds DEF ShapeInv
<1>2. audit' = [a \in Agents |-> IF a = b THEN Append(audit[b], row) ELSE audit[a]]
  BY <1>1 DEF AddRow
<1>3. /\ row.by = c /\ row.tool = call[c].req.tool /\ row.status = status
      /\ row.alert = call[c].alert
  BY DEF Row
<1> HIDE DEF row
<1>4. /\ n \in Nat /\ DOMAIN audit[b] = 1..(n - 1) /\ DOMAIN audit'[b] = 1..n
      /\ IsSeq(audit'[b]) /\ audit'[b][n] = row
      /\ \A j \in DOMAIN audit[b] : audit'[b][j] = audit[b][j]
  BY <1>1, <1>2, Appended
<1>5. \A a \in Agents : a # b => audit'[a] = audit[a]
  BY <1>2
<1>6. DOMAIN audit'[b] = DOMAIN audit[b] \cup {n} /\ n \notin DOMAIN audit[b]
  BY <1>4
<1> HIDE DEF b, n
<1>7. audit' = [a \in Agents |-> audit'[a]] /\ \A a \in Agents : IsSeq(audit'[a])
  BY <1>1, <1>2, <1>4, <1>5
<1>8. \A d \in Clients : \A tool, st :
        HasRow(d, tool, st)' <=> \/ HasRow(d, tool, st)
                                 \/ d = c /\ tool = call[c].req.tool /\ st = status
  <2> SUFFICES ASSUME NEW d \in Clients, NEW tool, NEW st
               PROVE  HasRow(d, tool, st)' <=> \/ HasRow(d, tool, st)
                                               \/ d = c /\ tool = call[c].req.tool /\ st = status
    OBVIOUS
  <2>1. agent_id(d) \in Agents /\ (d = c => agent_id(d) = b)
    BY AgentIds DEF b
  <2>2. CASE agent_id(d) = b
    BY <1>3, <1>4, <1>6, <2>1, <2>2 DEF HasRow, Rows
  <2>3. CASE agent_id(d) # b
    BY <1>5, <2>1, <2>3 DEF HasRow, Rows
  <2> QED
    BY <2>2, <2>3
<1>9. \A d \in Clients :
        AlertRow(d)' <=> \/ AlertRow(d)
                         \/ d = c /\ call[c].req.tool = "structuring_check"
                                  /\ status = "COMPLETED" /\ call[c].alert
  <2> SUFFICES ASSUME NEW d \in Clients
               PROVE  AlertRow(d)' <=> \/ AlertRow(d)
                                       \/ d = c /\ call[c].req.tool = "structuring_check"
                                                /\ status = "COMPLETED" /\ call[c].alert
    OBVIOUS
  <2>1. agent_id(d) \in Agents /\ (d = c => agent_id(d) = b)
    BY AgentIds DEF b
  <2>2. CASE agent_id(d) = b
    BY <1>3, <1>4, <1>6, <2>1, <2>2 DEF AlertRow, Rows
  <2>3. CASE agent_id(d) # b
    BY <1>5, <2>1, <2>3 DEF AlertRow, Rows
  <2> QED
    BY <2>2, <2>3
<1>10. \A a \in Agents :
         aml_sanctions_required(a)' <=>
           /\ aml_sanctions_required(a)
           /\ ~ (a = agent_id(c) /\ call[c].req.tool \in SANCTIONS_CHECK_TOOLS
                                 /\ status = "COMPLETED")
  <2> SUFFICES ASSUME NEW a \in Agents
               PROVE  aml_sanctions_required(a)' <=>
                        /\ aml_sanctions_required(a)
                        /\ ~ (a = b /\ call[c].req.tool \in SANCTIONS_CHECK_TOOLS
                                    /\ status = "COMPLETED")
    BY DEF b
  <2>1. CASE a = b
    BY <1>3, <1>4, <1>6, <2>1 DEF aml_sanctions_required
  <2>2. CASE a # b
    BY <1>5, <2>2 DEF aml_sanctions_required
  <2> QED
    BY <2>1, <2>2
<1> QED
  BY <1>7, <1>8, <1>9, <1>10

LEMMA OwnRow ==
  ASSUME ShapeInv, NEW c \in Clients, NEW status, audit' = AddRow(c, status)
  PROVE  \A tool, st : HasRow(c, tool, st)' <=> \/ HasRow(c, tool, st)
                                                \/ tool = call[c].req.tool /\ st = status
  BY RowAdded, ZenonT(60)

\* The log is as it was.
LEMMA NoRowAdded ==
  ASSUME audit' = audit
  PROVE  /\ \A d \in Clients : \A tool, st : HasRow(d, tool, st)' <=> HasRow(d, tool, st)
         /\ \A d \in Clients : AlertRow(d)' <=> AlertRow(d)
         /\ \A a \in Agents : aml_sanctions_required(a)' <=> aml_sanctions_required(a)
  BY DEF HasRow, AlertRow, Rows, aml_sanctions_required

\* What a server that is done with m adds to its history.
LEMMA ServedAdded ==
  ASSUME ShapeInv, NEW m, m.client \in Clients, NEW kind,
         served' = [served EXCEPT ![agent_id(m.client)] =
                      Append(@, [by |-> m.client, req |-> m.req, kind |-> kind])]
  PROVE  /\ served' = [a \in Agents |-> served'[a]] /\ \A a \in Agents : IsSeq(served'[a])
         /\ \A a \in Agents :
              Checked(a)' <=> \/ Checked(a)
                              \/ a = agent_id(m.client) /\ m.req.tool \in SANCTIONS_CHECK_TOOLS
         /\ \A d \in Clients : \A tool :
              /\ Served(d, tool)' <=> Served(d, tool) \/ (d = m.client /\ tool = m.req.tool)
              /\ Done(d, tool)' <=> \/ Done(d, tool)
                                    \/ d = m.client /\ tool = m.req.tool /\ kind = "ok"
         /\ \A a \in Agents : \A i \in DOMAIN served'[a] :
              \/ i \in DOMAIN served[a] /\ served'[a][i] = served[a][i]
              \/ /\ a = agent_id(m.client) /\ DOMAIN served[a] = 1..(i - 1)
                 /\ served'[a][i].by = m.client /\ served'[a][i].req = m.req
         /\ \A a \in Agents : \A i \in DOMAIN served[a] :
              i \in DOMAIN served'[a] /\ served'[a][i] = served[a][i]
<1> DEFINE b == agent_id(m.client)
           n == Len(served[b]) + 1
           s == [by |-> m.client, req |-> m.req, kind |-> kind]
<1>1. /\ b \in Agents /\ served = [a \in Agents |-> served[a]]
      /\ \A a \in Agents : IsSeq(served[a])
  BY AgentIds DEF ShapeInv
<1>2. served' = [a \in Agents |-> IF a = b THEN Append(served[b], s) ELSE served[a]]
  BY <1>1
<1>3. s.by = m.client /\ s.req = m.req /\ s.kind = kind
  OBVIOUS
<1> HIDE DEF s
<1>4. /\ n \in Nat /\ DOMAIN served[b] = 1..(n - 1) /\ DOMAIN served'[b] = 1..n
      /\ IsSeq(served'[b]) /\ served'[b][n] = s
      /\ \A j \in DOMAIN served[b] : served'[b][j] = served[b][j]
  BY <1>1, <1>2, Appended
<1>5. \A a \in Agents : a # b => served'[a] = served[a]
  BY <1>2
<1>6. DOMAIN served'[b] = DOMAIN served[b] \cup {n} /\ n \notin DOMAIN served[b]
  BY <1>4
<1> HIDE DEF b, n
<1>7. served' = [a \in Agents |-> served'[a]] /\ \A a \in Agents : IsSeq(served'[a])
  BY <1>1, <1>2, <1>4, <1>5
<1>8. \A a \in Agents :
        Checked(a)' <=> \/ Checked(a)
                        \/ a = agent_id(m.client) /\ m.req.tool \in SANCTIONS_CHECK_TOOLS
  <2> SUFFICES ASSUME NEW a \in Agents
               PROVE  Checked(a)' <=> Checked(a) \/ (a = b /\ m.req.tool \in SANCTIONS_CHECK_TOOLS)
    BY DEF b
  <2>1. CASE a = b
    BY <1>3, <1>4, <1>6, <2>1 DEF Checked
  <2>2. CASE a # b
    BY <1>5, <2>2 DEF Checked
  <2> QED
    BY <2>1, <2>2
<1>9. ASSUME NEW d \in Clients, NEW tool
      PROVE  /\ Served(d, tool)' <=> Served(d, tool) \/ (d = m.client /\ tool = m.req.tool)
             /\ Done(d, tool)' <=> \/ Done(d, tool)
                                   \/ d = m.client /\ tool = m.req.tool /\ kind = "ok"
  <2>1. agent_id(d) \in Agents /\ (d = m.client => agent_id(d) = b)
    BY AgentIds DEF b
  <2>2. CASE agent_id(d) = b
    BY <1>3, <1>4, <1>6, <2>1, <2>2 DEF Served, Done
  <2>3. CASE agent_id(d) # b
    BY <1>5, <2>1, <2>3 DEF Served, Done
  <2> QED
    BY <2>2, <2>3
<1>10. ASSUME NEW a \in Agents, NEW i \in DOMAIN served'[a]
       PROVE  \/ i \in DOMAIN served[a] /\ served'[a][i] = served[a][i]
              \/ /\ a = b /\ DOMAIN served[a] = 1..(i - 1)
                 /\ served'[a][i].by = m.client /\ served'[a][i].req = m.req
  <2>1. CASE a = b
    BY <1>3, <1>4, <1>6, <1>10, <2>1
  <2>2. CASE a # b
    BY <1>5, <1>10, <2>2
  <2> QED
    BY <2>1, <2>2
<1>11. \A a \in Agents : \A i \in DOMAIN served[a] :
         i \in DOMAIN served'[a] /\ served'[a][i] = served[a][i]
  BY <1>4, <1>5, <1>6
<1> QED
  BY <1>7, <1>8, <1>9, <1>10, <1>11 DEF b

\* No server has answered anything.
LEMMA NoneServed ==
  ASSUME served' = served
  PROVE  /\ \A a \in Agents : Checked(a)' <=> Checked(a)
         /\ \A d \in Clients : \A tool :
              /\ Served(d, tool)' <=> Served(d, tool)
              /\ Done(d, tool)' <=> Done(d, tool)
  BY DEF Checked, Served, Done

-----------------------------------------------------------------------------
(***************************************************************************)
(* What other clients' steps leave as it was                               *)
(***************************************************************************)

\* What the invariant says of the past stays true, and the account is the same.
Grows ==
  /\ structuring' = structuring /\ force_hitl \subseteq force_hitl' /\ approved \subseteq approved'
  /\ \A a \in Agents : Checked(a) => Checked(a)'
  /\ \A d \in Clients : \A tool, st : HasRow(d, tool, st) => HasRow(d, tool, st)'
  /\ \A d \in Clients : AlertRow(d) => AlertRow(d)'
  /\ \A d \in Clients : \A tool : Done(d, tool) => Done(d, tool)'

\* A run that has asked for its write does not think again.
Keeps ==
  \A r \in Runs : call[r].req.tool = Mark =>
    inv'[r].risk = inv[r].risk /\ inv'[r].by = inv[r].by /\ inv'[r].hit = inv[r].hit

LEMMA WriteStays ==
  ASSUME Grows, Keeps, NEW c \in Clients, NEW arg, MayWrite(c, arg),
         c \in Runs => call[c].req.tool = Mark
  PROVE  MayWrite(c, arg)'
  BY DEF Grows, Keeps, MayWrite, Fits

\* A client's own call.
LEMMA CallStays ==
  ASSUME Grows, Keeps, NEW c \in Clients, RequestInv(c), AnswerInv(c), call'[c] = call[c]
  PROVE  RequestInv(c)' /\ AnswerInv(c)'
<1>1. call[c].req.tool = Mark => MayWrite(c, call[c].req.arg)'
  BY WriteStays DEF RequestInv
<1>2. agent_id(c) \in Agents
  BY AgentIds
<1>3. RequestInv(c)'
  BY <1>1, <1>2 DEF RequestInv, Grows
<1>4. AnswerInv(c)'
  BY <1>2 DEF AnswerInv, Grows
<1> QED
  BY <1>3, <1>4

\* A request at a server.
LEMMA WireStays ==
  ASSUME Inv, Grows, Keeps, NEW m \in wire
  PROVE  MayBeOnWire(m)'
<1>1. MayBeOnWire(m) /\ m.client \in Clients /\ agent_id(m.client) \in Agents
  BY AgentIds DEF Inv, MayBeOnWire
<1>2. ASSUME m.client \in Runs, m.req.tool = Mark PROVE call[m.client].req.tool = Mark
  BY <1>2 DEF Inv, WriteInv, OnWire
<1>3. m.req.tool = Mark => MayWrite(m.client, m.req.arg)'
  <2> DEFINE c == m.client
             arg == m.req.arg
  <2>1. m.req.tool = Mark => MayWrite(c, arg)
    BY <1>1 DEF MayBeOnWire
  <2> HIDE DEF c, arg
  <2>2. m.req.tool = Mark => MayWrite(c, arg)'
    BY <1>1, <1>2, <2>1, WriteStays DEF c
  <2> QED
    BY <2>2 DEF c, arg
<1> QED
  BY <1>1, <1>3 DEF MayBeOnWire, Grows

\* What was done for a run is of its own.
LEMMA WriteWasAsked ==
  ASSUME Inv, NEW a \in Agents, NEW i \in DOMAIN served[a], served[a][i].req.tool = Mark,
         served[a][i].by \in Runs
  PROVE  call[served[a][i].by].req.tool = Mark
<1>1. agent_id(served[a][i].by) = a
  BY DEF Inv, ServedInv
<1>2. Served(served[a][i].by, Mark)
  BY <1>1 DEF Served
<1> QED
  BY <1>2 DEF Inv, WriteInv

LEMMA ServedStays ==
  ASSUME Inv, Grows, Keeps, served' = served
  PROVE  ServedInv'
<1>1. ScreeningPrecedesGraph'
  BY DEF Inv, ServedInv, ScreeningPrecedesGraph
<1>2. ASSUME NEW a \in Agents, NEW i \in DOMAIN served[a], NEW c, NEW arg,
             c = served[a][i].by, arg = served[a][i].req.arg
      PROVE  /\ c \in Clients /\ agent_id(c) = a
             /\ served[a][i].req.tool = Mark =>
                  c \in approved' /\ HasRow(c, Mark, "HELD")' /\ MayWrite(c, arg)'
  <2>1. /\ c \in Clients /\ agent_id(c) = a
        /\ served[a][i].req.tool = Mark =>
             c \in approved /\ HasRow(c, Mark, "HELD") /\ MayWrite(c, arg)
    BY <1>2 DEF Inv, ServedInv
  <2>2. served[a][i].req.tool = Mark /\ c \in Runs => call[c].req.tool = Mark
    BY <1>2, WriteWasAsked
  <2>3. served[a][i].req.tool = Mark => MayWrite(c, arg)'
    BY <2>1, <2>2, WriteStays
  <2> QED
    BY <2>1, <2>3 DEF Grows
<1> QED
  BY <1>1, <1>2 DEF ServedInv

\* A run of which neither the state, nor the request, nor whether a call is out changes.
LEMMA RunStays ==
  ASSUME Inv, Grows, NEW r \in Runs, inv'[r] = inv[r], call'[r].req = call[r].req,
         call'[r].pc = "idle" <=> call[r].pc = "idle"
  PROVE  RunInv(r)'
<1>1. RunInv(r) /\ r \in Clients
  BY AgentIds DEF Inv
<1> QED
  BY <1>1 DEF RunInv, Grows, fallback_risk

\* All but client c is as it was.
LEMMA OthersStay ==
  ASSUME Inv, Grows, Keeps, NEW c \in Clients, served' = served,
         \A d \in Clients \ {c} : /\ call'[d] = call[d]
                                  /\ HasRow(d, Mark, "DENIED")' => HasRow(d, Mark, "DENIED")
                                  /\ OnWire(d, Mark)' => OnWire(d, Mark),
         \A r \in Runs \ {c} : inv'[r] = inv[r]
  PROVE  /\ \A d \in Clients \ {c} : RequestInv(d)' /\ AnswerInv(d)'
         /\ \A m \in wire : MayBeOnWire(m)'
         /\ ServedInv'
         /\ \A r \in Runs \ {c} : RunInv(r)' /\ WriteInv(r)'
<1>1. \A d \in Clients \ {c} : RequestInv(d)' /\ AnswerInv(d)'
  BY CallStays DEF Inv
<1>2. (\A m \in wire : MayBeOnWire(m)') /\ ServedInv'
  BY WireStays, ServedStays
<1>3. ASSUME NEW r \in Runs \ {c} PROVE RunInv(r)' /\ WriteInv(r)'
  <2>1. RunInv(r)'
    BY <1>3, AgentIds, RunStays
  <2>2. Served(r, Mark)' <=> Served(r, Mark)
    BY AgentIds, NoneServed
  <2>3. WriteInv(r)'
    BY <1>3, <2>2, AgentIds DEF Inv, WriteInv
  <2> QED
    BY <2>1, <2>3
<1> QED
  BY <1>1, <1>2, <1>3

-----------------------------------------------------------------------------
(***************************************************************************)
(* The gateway's steps                                                     *)
(***************************************************************************)

\* The call of c has other contents, that of no other client has.
Becomes(c, p, s, b, al) ==
  /\ call' = [d \in Clients |-> call'[d]] /\ \A d \in Clients \ {c} : call'[d] = call[d]
  /\ IsCall(call'[c]) /\ call'[c].pc = p /\ call'[c].req = call[c].req /\ call'[c].status = s
  /\ call'[c].body = b /\ call'[c].alert = al

LEMMA Fields ==
  ASSUME ShapeInv, NEW c \in Clients, NEW p, NEW s, NEW b, NEW al
  PROVE  /\ call' = [call EXCEPT ![c].pc = p] =>
              Becomes(c, p, call[c].status, call[c].body, call[c].alert)
         /\ call' = [call EXCEPT ![c].pc = p, ![c].body = b] =>
              Becomes(c, p, call[c].status, b, call[c].alert)
         /\ call' = [call EXCEPT ![c].pc = p, ![c].status = s, ![c].body = b] =>
              Becomes(c, p, s, b, call[c].alert)
         /\ call' = [call EXCEPT ![c].pc = p, ![c].status = s, ![c].alert = al] =>
              Becomes(c, p, s, call[c].body, al)
<1>1. IsCall(call[c]) /\ call = [d \in Clients |-> call[d]]
  BY DEF ShapeInv
<1>2. ASSUME call' = [call EXCEPT ![c].pc = p]
      PROVE  Becomes(c, p, call[c].status, call[c].body, call[c].alert)
  BY <1>1, <1>2 DEF IsCall, Becomes
<1>3. ASSUME call' = [call EXCEPT ![c].pc = p, ![c].body = b]
      PROVE  Becomes(c, p, call[c].status, b, call[c].alert)
  BY <1>1, <1>3 DEF IsCall, Becomes
<1>4. ASSUME call' = [call EXCEPT ![c].pc = p, ![c].status = s, ![c].body = b]
      PROVE  Becomes(c, p, s, b, call[c].alert)
  BY <1>1, <1>4 DEF IsCall, Becomes
<1>5. ASSUME call' = [call EXCEPT ![c].pc = p, ![c].status = s, ![c].alert = al]
      PROVE  Becomes(c, p, s, call[c].body, al)
  BY <1>1, <1>5 DEF IsCall, Becomes
<1> QED
  BY <1>2, <1>3, <1>4, <1>5

\* What a step of the gateway with the call of c may do.
GatewayMove(c, p, s, b, al) ==
  /\ Becomes(c, p, s, b, al) /\ call[c].pc # "idle" /\ p \in {"held", "sent", "close", "answered"}
  /\ UNCHANGED <<servers, inv, served>>
  /\ force_hitl' \in {force_hitl, force_hitl \cup {c}}
  /\ approved' \in {approved, approved \cup {c}}
  /\ faults' = faults \/ Fault
  /\ audit' = audit \/ \E st : audit' = AddRow(c, st)
  /\ wire' \in {wire, wire \cup {[client |-> c, req |-> call[c].req]}}

\* It is left to look at what the step is about.
LEMMA GatewayMoves ==
  ASSUME Inv, NEW c \in Clients, NEW p, NEW s, NEW b, NEW al, GatewayMove(c, p, s, b, al)
  PROVE  /\ Grows /\ Keeps
         /\ /\ RequestInv(c)' /\ AnswerInv(c)' /\ (c \in Runs => WriteInv(c)') /\ LogInv'
            /\ \A m : m = [client |-> c, req |-> call[c].req] /\ m \in wire' => MayBeOnWire(m)'
            => Inv'
<1> USE DEF GatewayMove
<1>1. ShapeInv /\ TypeOK
  BY DEF Inv, ShapeInv
<1>2. /\ call' = [d \in Clients |-> call'[d]] /\ \A d \in Clients \ {c} : call'[d] = call[d]
      /\ IsCall(call'[c]) /\ call'[c].pc = p /\ call'[c].req = call[c].req
  BY <1>1 DEF ShapeInv, Becomes
<1>3. /\ audit' = [a \in Agents |-> audit'[a]] /\ \A a \in Agents : IsSeq(audit'[a])
      /\ \A d \in Clients : \A tool, st : HasRow(d, tool, st) => HasRow(d, tool, st)'
      /\ \A d \in Clients \ {c} : HasRow(d, Mark, "DENIED")' => HasRow(d, Mark, "DENIED")
      /\ \A d \in Clients : AlertRow(d) => AlertRow(d)'
  <2>1. CASE audit' = audit
    BY <1>1, <2>1, NoRowAdded DEF ShapeInv
  <2>2. ASSUME NEW st, audit' = AddRow(c, st)
        PROVE  <1>3!:
    BY <1>1, <2>2, RowAdded
  <2> QED
    BY <2>1, <2>2
<1>4. /\ \A a \in Agents : Checked(a) => Checked(a)'
      /\ \A d \in Clients : \A tool : Done(d, tool) => Done(d, tool)'
  BY NoneServed
<1>5. Grows
  BY <1>3, <1>4 DEF Grows, servers
<1>6. Keeps
  BY DEF Keeps
<1>7. TypeOK'
  <2>1. faults' \in 0..MaxFaults
    BY <1>1, InvestigationAssumption DEF TypeOK, Fault
  <2>2. \A m \in wire' : m.client \in Clients
    BY <1>1 DEF TypeOK
  <2> QED
    BY <1>1, <1>2, <2>1, <2>2 DEF TypeOK, servers
<1>8. ShapeInv'
  BY <1>1, <1>2, <1>3, <1>7 DEF ShapeInv
<1>9. \A d \in Clients \ {c} : OnWire(d, Mark)' => OnWire(d, Mark)
  BY DEF OnWire
<1>10. /\ \A d \in Clients \ {c} : RequestInv(d)' /\ AnswerInv(d)'
       /\ \A m \in wire : MayBeOnWire(m)'
       /\ ServedInv'
       /\ \A r \in Runs \ {c} : RunInv(r)' /\ WriteInv(r)'
  BY <1>2, <1>3, <1>5, <1>6, <1>9, OthersStay
<1>11. c \in Runs => RunInv(c)'
  BY <1>2, <1>5, RunStays
<1>12. ASSUME RequestInv(c)', AnswerInv(c)', c \in Runs => WriteInv(c)', LogInv',
              \A m : m = [client |-> c, req |-> call[c].req] /\ m \in wire' => MayBeOnWire(m)'
       PROVE  Inv'
  <2>1. \A m \in wire' : MayBeOnWire(m)'
    BY <1>10, <1>12
  <2>2. \A d \in Clients : RequestInv(d)' /\ AnswerInv(d)'
    BY <1>10, <1>12
  <2>3. \A r \in Runs : RunInv(r)' /\ WriteInv(r)'
    BY <1>10, <1>11, <1>12
  <2> QED
    BY <1>8, <1>10, <1>12, <2>1, <2>2, <2>3 DEF Inv
<1> QED
  BY <1>5, <1>6, <1>12

\* The log says of an agent that it has been checked only if it has.
LEMMA LogStays ==
  ASSUME Inv, NEW c \in Clients, Grows,
         \/ audit' = audit
         \/ \E st : /\ audit' = AddRow(c, st)
                    /\ st = "COMPLETED" /\ call[c].req.tool \in SANCTIONS_CHECK_TOOLS =>
                         Checked(agent_id(c))
  PROVE  LogInv'
<1>1. ShapeInv /\ LogInv
  BY DEF Inv
<1>2. CASE audit' = audit
  BY <1>1, <1>2, NoRowAdded DEF LogInv, Grows
<1>3. ASSUME NEW st, audit' = AddRow(c, st),
             st = "COMPLETED" /\ call[c].req.tool \in SANCTIONS_CHECK_TOOLS => Checked(agent_id(c))
      PROVE  LogInv'
  BY <1>1, <1>3, RowAdded DEF LogInv, Grows
<1> QED
  BY <1>2, <1>3


\* What the invariant says of one client, and what no step of the gateway changes of it.
LEMMA Own ==
  ASSUME Inv, NEW c \in Clients
  PROVE  /\ ShapeInv /\ TypeOK /\ agent_id(c) \in Agents /\ RequestInv(c) /\ AnswerInv(c)
         /\ c \in Runs => RunInv(c) /\ WriteInv(c)
  BY AgentIds DEF Inv, ShapeInv

LEMMA RequestStays ==
  ASSUME Inv, NEW c \in Clients, Grows, Keeps, call'[c].req = call[c].req
  PROVE  call'[c].req.tool = Mark => MayWrite(c, call[c].req.arg)'
  BY Own, WriteStays DEF RequestInv

\* The wire and the servers are as they were, and the row of the call, if one is written,
\* is not that of a refusal.
LEMMA WriteUndenied ==
  ASSUME Inv, NEW r \in Runs, wire' = wire, served' = served, call'[r].req = call[r].req,
         call[r].pc \notin {"open", "held"}, call'[r].pc \notin {"open", "held"},
         call'[r].pc \in {"sent", "returned", "close"} => call'[r].status # "DENIED",
         HasRow(r, Mark, "DENIED")' <=> HasRow(r, Mark, "DENIED")
  PROVE  WriteInv(r)'
<1>1. r \in Clients /\ WriteInv(r)
  BY AgentIds DEF Inv
<1>2. (OnWire(r, Mark)' <=> OnWire(r, Mark)) /\ (Served(r, Mark)' <=> Served(r, Mark))
  BY <1>1, NoneServed DEF OnWire
<1> QED
  BY <1>1, <1>2 DEF WriteInv

\* An error tells nothing.
LEMMA ErrorStays ==
  ASSUME NEW c \in Clients, NEW kind, kind # "ok", call'[c].body = Body(kind),
         call'[c].pc = "close" => call'[c].status # "COMPLETED", call'[c].pc # "returned"
  PROVE  AnswerInv(c)'
<1>1. call'[c].body.kind # "ok" /\ call'[c].body.flagged = FALSE
  BY BodyParts
<1> QED
  BY <1>1 DEF AnswerInv

LEMMA OpenKeepsInv ==
  ASSUME Inv, NEW c \in Clients, Open(c)
  PROVE  Inv'
<1> DEFINE k == call[c]
<1>1. /\ ShapeInv /\ TypeOK /\ agent_id(c) \in Agents /\ RequestInv(c) /\ AnswerInv(c)
      /\ c \in Runs => RunInv(c) /\ WriteInv(c)
  BY Own
<1>2. k.pc = "open" /\ audit' = AddRow(c, k.status) /\ k.status \in {"INTENT", "HELD", "DENIED"}
  BY <1>1 DEF Open, RequestInv
<1>3. \A tool, st : HasRow(c, tool, st)' <=> \/ HasRow(c, tool, st)
                                             \/ tool = k.req.tool /\ st = k.status
  BY <1>1, <1>2, OwnRow
<1>4. UNCHANGED <<servers, inv, served, force_hitl, approved, faults>>
  BY DEF Open, history
<1>5. CASE k.status = "DENIED"
  <2>1. call' = [call EXCEPT ![c].pc = "answered", ![c].body = Body("rpc_error")] /\ wire' = wire
    BY <1>2, <1>5 DEF Open
  <2>2. Becomes(c, "answered", "DENIED", Body("rpc_error"), k.alert)
    BY <1>1, <1>5, <2>1, Fields
  <2>3. GatewayMove(c, "answered", "DENIED", Body("rpc_error"), k.alert)
    BY <1>2, <1>4, <2>1, <2>2 DEF GatewayMove
  <2>4. Grows /\ Keeps
    BY <2>3, GatewayMoves
  <2>5. RequestInv(c)'
    BY <2>2, <2>4, RequestStays DEF Becomes, RequestInv
  <2>6. AnswerInv(c)'
    BY <2>2, ErrorStays DEF Becomes
  <2>7. c \in Runs => WriteInv(c)'
    <3> SUFFICES ASSUME c \in Runs PROVE WriteInv(c)'
      OBVIOUS
    <3>1. (OnWire(c, Mark)' <=> OnWire(c, Mark)) /\ (Served(c, Mark)' <=> Served(c, Mark))
      BY <1>4, <2>1, NoneServed DEF OnWire
    <3> QED
      BY <1>1, <1>2, <1>3, <2>2, <3>1 DEF WriteInv, Becomes
  <2>8. LogInv'
    BY <1>2, <1>5, <2>4, LogStays
  <2>9. \A m : m = [client |-> c, req |-> call[c].req] /\ m \in wire' => MayBeOnWire(m)'
    BY <2>1, <2>4, WireStays
  <2> QED
    BY <2>3, <2>5, <2>6, <2>7, <2>8, <2>9, GatewayMoves
<1>6. CASE k.status = "HELD"
  <2>1. call' = [call EXCEPT ![c].pc = "held"] /\ wire' = wire
    BY <1>2, <1>6 DEF Open
  <2>2. Becomes(c, "held", "HELD", k.body, k.alert)
    BY <1>1, <1>6, <2>1, Fields
  <2>3. GatewayMove(c, "held", "HELD", k.body, k.alert)
    BY <1>2, <1>4, <2>1, <2>2 DEF GatewayMove
  <2>4. Grows /\ Keeps
    BY <2>3, GatewayMoves
  <2>5. k.body = NoBody /\ (k.req.tool \in ScreenedTools => Checked(agent_id(c))')
    BY <1>1, <1>2, <1>6, <2>4 DEF RequestInv, Grows
  <2>6. RequestInv(c)'
    BY <1>3, <1>6, <2>2, <2>4, <2>5, RequestStays DEF Becomes, RequestInv
  <2>7. AnswerInv(c)'
    BY <2>2, <2>5, BodyParts DEF Becomes, AnswerInv
  <2>8. c \in Runs => WriteInv(c)'
    <3> SUFFICES ASSUME c \in Runs PROVE WriteInv(c)'
      OBVIOUS
    <3>1. (OnWire(c, Mark)' <=> OnWire(c, Mark)) /\ (Served(c, Mark)' <=> Served(c, Mark))
      BY <1>4, <2>1, NoneServed DEF OnWire
    <3> QED
      BY <1>1, <1>2, <1>3, <1>6, <2>2, <3>1 DEF WriteInv, Becomes
  <2>9. LogInv'
    BY <1>2, <1>6, <2>4, LogStays
  <2>10. \A m : m = [client |-> c, req |-> call[c].req] /\ m \in wire' => MayBeOnWire(m)'
    BY <2>1, <2>4, WireStays
  <2> QED
    BY <2>3, <2>6, <2>7, <2>8, <2>9, <2>10, GatewayMoves
<1>7. CASE k.status = "INTENT"
  <2>1. /\ call' = [call EXCEPT ![c].pc = "sent"]
        /\ wire' = wire \cup {[client |-> c, req |-> k.req]}
    BY <1>2, <1>7 DEF Open
  <2>2. Becomes(c, "sent", "INTENT", k.body, k.alert)
    BY <1>1, <1>7, <2>1, Fields
  <2>3. GatewayMove(c, "sent", "INTENT", k.body, k.alert)
    BY <1>2, <1>4, <2>1, <2>2 DEF GatewayMove
  <2>4. Grows /\ Keeps
    BY <2>3, GatewayMoves
  <2>5. /\ k.body = NoBody /\ k.req.tool # Mark
        /\ k.req.tool \in ScreenedTools => Checked(agent_id(c))'
    BY <1>1, <1>2, <1>7, <2>4 DEF RequestInv, Grows
  <2>6. RequestInv(c)'
    BY <2>2, <2>4, <2>5, RequestStays DEF Becomes, RequestInv
  <2>7. AnswerInv(c)'
    BY <2>2, <2>5, BodyParts DEF Becomes, AnswerInv
  <2>8. c \in Runs => WriteInv(c)'
    <3> SUFFICES ASSUME c \in Runs PROVE WriteInv(c)'
      OBVIOUS
    <3>1. (OnWire(c, Mark)' => OnWire(c, Mark)) /\ (Served(c, Mark)' <=> Served(c, Mark))
      BY <1>4, <2>1, <2>5, NoneServed DEF OnWire
    <3> QED
      BY <1>1, <1>2, <1>3, <1>7, <2>2, <3>1 DEF WriteInv, Becomes
  <2>9. LogInv'
    BY <1>2, <1>7, <2>4, LogStays
  <2>10. \A m : m = [client |-> c, req |-> call[c].req] /\ m \in wire' => MayBeOnWire(m)'
    BY <2>5 DEF MayBeOnWire
  <2> QED
    BY <2>3, <2>6, <2>7, <2>8, <2>9, <2>10, GatewayMoves
<1> QED
  BY <1>2, <1>5, <1>6, <1>7

\* write_entry fails: the client has no answer, and the log may have the row.
LEMMA WriteFailsKeepsInv ==
  ASSUME Inv, NEW c \in Clients, WriteFails(c)
  PROVE  Inv'
<1> DEFINE k == call[c]
<1>1. /\ ShapeInv /\ TypeOK /\ agent_id(c) \in Agents /\ RequestInv(c) /\ AnswerInv(c)
      /\ c \in Runs => RunInv(c) /\ WriteInv(c)
  BY Own
<1>2. /\ k.pc \in {"open", "close"} /\ Fault
      /\ audit' \in {audit, AddRow(c, k.status)}
      /\ call' = [call EXCEPT ![c].pc = "answered", ![c].body = Body("lost")]
      /\ UNCHANGED <<servers, force_hitl, wire, inv, served, approved>>
  BY DEF WriteFails, history
<1>3. Becomes(c, "answered", k.status, Body("lost"), k.alert)
  BY <1>1, <1>2, Fields
<1>4. GatewayMove(c, "answered", k.status, Body("lost"), k.alert)
  BY <1>2, <1>3 DEF GatewayMove
<1>5. Grows /\ Keeps
  BY <1>4, GatewayMoves
<1>6. RequestInv(c)'
  BY <1>3, <1>5, RequestStays DEF Becomes, RequestInv
<1>7. AnswerInv(c)'
  BY <1>3, ErrorStays DEF Becomes
<1>8. c \in Runs => WriteInv(c)'
  <2> SUFFICES ASSUME c \in Runs PROVE WriteInv(c)'
    OBVIOUS
  <2>1. (OnWire(c, Mark)' <=> OnWire(c, Mark)) /\ (Served(c, Mark)' <=> Served(c, Mark))
    BY <1>2, NoneServed DEF OnWire
  <2>2. HasRow(c, Mark, "DENIED")' => \/ HasRow(c, Mark, "DENIED")
                                      \/ k.req.tool = Mark /\ k.status = "DENIED"
    BY <1>1, <1>2, OwnRow, NoRowAdded
  <2> QED
    BY <1>1, <1>2, <1>3, <2>1, <2>2 DEF WriteInv, Becomes
<1>9. LogInv'
  <2>1. k.status = "COMPLETED" /\ k.req.tool \in SANCTIONS_CHECK_TOOLS => Checked(agent_id(c))
    BY <1>1, <1>2 DEF AnswerInv, RequestInv
  <2> QED
    BY <1>2, <1>5, <2>1, LogStays
<1>10. \A m : m = [client |-> c, req |-> call[c].req] /\ m \in wire' => MayBeOnWire(m)'
  BY <1>2, <1>5, WireStays
<1> QED
  BY <1>4, <1>6, <1>7, <1>8, <1>9, <1>10, GatewayMoves

\* A held call goes to the server: it has its HELD row, and now an approval.
LEMMA ReviewerApprovesKeepsInv ==
  ASSUME Inv, NEW c \in Clients, ReviewerApproves(c)
  PROVE  Inv'
<1> DEFINE k == call[c]
<1>1. /\ ShapeInv /\ TypeOK /\ agent_id(c) \in Agents /\ RequestInv(c) /\ AnswerInv(c)
      /\ c \in Runs => RunInv(c) /\ WriteInv(c)
  BY Own
<1>2. /\ k.pc = "held" /\ call' = [call EXCEPT ![c].pc = "sent"]
      /\ approved' = approved \cup {c} /\ wire' = wire \cup {[client |-> c, req |-> k.req]}
      /\ UNCHANGED <<servers, audit, force_hitl, inv, served, faults>>
  BY DEF ReviewerApproves
<1>3. k.body = NoBody /\ k.status = "HELD" /\ HasRow(c, k.req.tool, "HELD")
  BY <1>1, <1>2 DEF RequestInv
<1>4. Becomes(c, "sent", "HELD", k.body, k.alert)
  BY <1>1, <1>2, <1>3, Fields
<1>5. GatewayMove(c, "sent", "HELD", k.body, k.alert)
  BY <1>2, <1>4 DEF GatewayMove
<1>6. Grows /\ Keeps
  BY <1>5, GatewayMoves
<1>7. RequestInv(c)'
  BY <1>3, <1>4, <1>6, RequestStays DEF Becomes, RequestInv
<1>8. AnswerInv(c)'
  BY <1>3, <1>4, BodyParts DEF Becomes, AnswerInv
<1>9. c \in Runs => WriteInv(c)'
  <2> SUFFICES ASSUME c \in Runs PROVE WriteInv(c)'
    OBVIOUS
  <2>1. /\ OnWire(c, Mark)' => OnWire(c, Mark) \/ k.req.tool = Mark
        /\ Served(c, Mark)' <=> Served(c, Mark)
        /\ HasRow(c, Mark, "DENIED")' <=> HasRow(c, Mark, "DENIED")
    BY <1>2, NoneServed, NoRowAdded DEF OnWire
  <2> QED
    BY <1>1, <1>2, <1>4, <2>1 DEF WriteInv, Becomes
<1>10. LogInv'
  BY <1>2, <1>6, LogStays
<1>11. \A m : m = [client |-> c, req |-> call[c].req] /\ m \in wire' => MayBeOnWire(m)'
  <2> SUFFICES ASSUME NEW m, m = [client |-> c, req |-> k.req] PROVE MayBeOnWire(m)'
    OBVIOUS
  <2>1. m.client = c /\ m.req = k.req /\ m = [client |-> m.client, req |-> m.req]
    OBVIOUS
  <2>2. k.req.tool \in ScreenedTools => Checked(agent_id(c))'
    BY <1>1, <1>2, <1>6 DEF RequestInv, Grows
  <2>3. HasRow(c, k.req.tool, "HELD")'
    BY <1>2, <1>3 DEF HasRow, Rows
  <2>4. m.req.tool = Mark => MayWrite(c, m.req.arg)'
    BY <1>1, <1>6, <2>1, WriteStays DEF RequestInv
  <2> QED
    BY <1>2, <2>1, <2>2, <2>3, <2>4 DEF MayBeOnWire
<1> QED
  BY <1>5, <1>7, <1>8, <1>9, <1>10, <1>11, GatewayMoves

\* The call is over without an answer of a server.
LEMMA HoldEndsKeepsInv ==
  ASSUME Inv, NEW c \in Clients, HoldEnds(c) \/ UpstreamTimesOut(c)
  PROVE  Inv'
<1> DEFINE k == call[c]
<1>1. /\ ShapeInv /\ TypeOK /\ agent_id(c) \in Agents /\ RequestInv(c) /\ AnswerInv(c)
      /\ c \in Runs => RunInv(c) /\ WriteInv(c)
  BY Own
<1>2. PICK s : /\ \/ k.pc = "held" /\ s = "DENIED"
                  \/ k.pc = "sent" /\ s = "UPSTREAM_ERROR"
               /\ call' = [call EXCEPT ![c].pc = "close", ![c].status = s,
                                       ![c].body = Body("rpc_error")]
  BY DEF HoldEnds, UpstreamTimesOut
<1>3. UNCHANGED <<servers, audit, force_hitl, wire, inv, served, approved, faults>>
  BY DEF HoldEnds, UpstreamTimesOut, history
<1>4. Becomes(c, "close", s, Body("rpc_error"), k.alert)
  BY <1>1, <1>2, Fields
<1>5. GatewayMove(c, "close", s, Body("rpc_error"), k.alert)
  BY <1>2, <1>3, <1>4 DEF GatewayMove
<1>6. Grows /\ Keeps
  BY <1>5, GatewayMoves
<1>7. RequestInv(c)'
  BY <1>4, <1>6, RequestStays DEF Becomes, RequestInv
<1>8. AnswerInv(c)'
  BY <1>2, <1>4, ErrorStays DEF Becomes
<1>9. c \in Runs => WriteInv(c)'
  <2> SUFFICES ASSUME c \in Runs PROVE WriteInv(c)'
    OBVIOUS
  <2>1. /\ OnWire(c, Mark)' <=> OnWire(c, Mark)
        /\ Served(c, Mark)' <=> Served(c, Mark)
        /\ HasRow(c, Mark, "DENIED")' <=> HasRow(c, Mark, "DENIED")
    BY <1>3, NoneServed, NoRowAdded DEF OnWire
  <2> QED
    BY <1>1, <1>2, <1>4, <2>1 DEF WriteInv, Becomes
<1>10. LogInv'
  BY <1>3, <1>6, LogStays
<1>11. \A m : m = [client |-> c, req |-> call[c].req] /\ m \in wire' => MayBeOnWire(m)'
  BY <1>3, <1>6, WireStays
<1> QED
  BY <1>5, <1>7, <1>8, <1>9, <1>10, <1>11, GatewayMoves

\* The response side's policies have the answer: it goes on as it is, or an error does.
LEMMA RespondKeepsInv ==
  ASSUME Inv, NEW c \in Clients, Respond(c)
  PROVE  Inv'
<1> DEFINE k == call[c]
<1>1. /\ ShapeInv /\ TypeOK /\ agent_id(c) \in Agents /\ RequestInv(c) /\ AnswerInv(c)
      /\ c \in Runs => RunInv(c) /\ WriteInv(c)
  BY Own
<1>2. /\ k.pc = "returned" /\ (faults' = faults \/ Fault)
      /\ force_hitl' \in {force_hitl, force_hitl \cup {c}}
      /\ UNCHANGED <<servers, audit, wire, inv, served, approved>>
  BY DEF Respond, history
<1>3. ASSUME NEW s, NEW b, NEW al, Becomes(c, "close", s, b, al), s # "DENIED",
             Grows /\ Keeps => AnswerInv(c)'
      PROVE  Inv'
  <2>1. GatewayMove(c, "close", s, b, al)
    BY <1>2, <1>3 DEF GatewayMove
  <2>2. Grows /\ Keeps
    BY <2>1, GatewayMoves
  <2>3. RequestInv(c)'
    BY <1>3, <2>2, RequestStays DEF Becomes, RequestInv
  <2>4. c \in Runs => WriteInv(c)'
    BY <1>2, <1>3, NoRowAdded, WriteUndenied DEF Becomes
  <2>5. LogInv'
    BY <1>2, <2>2, LogStays
  <2>6. \A m : m = [client |-> c, req |-> call[c].req] /\ m \in wire' => MayBeOnWire(m)'
    BY <1>2, <2>2, WireStays
  <2> QED
    BY <1>3, <2>1, <2>2, <2>3, <2>4, <2>5, <2>6, GatewayMoves
<1>4. CASE /\ call' = [call EXCEPT ![c].pc = "close", ![c].status = "COMPLETED",
                                   ![c].alert = Alerted(c)]
           /\ force_hitl' = IF Alerted(c) THEN force_hitl \cup {c} ELSE force_hitl
  <2>1. Becomes(c, "close", "COMPLETED", k.body, Alerted(c))
    BY <1>1, <1>4, Fields
  <2>2. ASSUME Grows PROVE AnswerInv(c)'
    <3>1. k.body.flagged => Alerted(c) /\ c \in force_hitl'
      BY <1>1, <1>4 DEF AnswerInv, Alerted
    <3>2. k.body.kind = "ok" => Done(c, k.req.tool)'
      BY <1>1, <2>1, <2>2 DEF AnswerInv, Grows, Becomes
    <3>3. k.req.tool \in SANCTIONS_CHECK_TOOLS => Checked(agent_id(c))'
      BY <1>1, <1>2, <2>2 DEF AnswerInv, Grows
    <3>4. structuring' = structuring
      BY <2>2 DEF Grows
    <3> QED
      BY <1>1, <2>1, <3>1, <3>2, <3>3, <3>4 DEF AnswerInv, Becomes
  <2> QED
    BY <1>3, <2>1, <2>2
<1>5. CASE call' = [call EXCEPT ![c].pc = "close", ![c].status = "UPSTREAM_ERROR",
                                ![c].body = Body("rpc_error")]
  <2>1. Becomes(c, "close", "UPSTREAM_ERROR", Body("rpc_error"), k.alert)
    BY <1>1, <1>5, Fields
  <2>2. AnswerInv(c)'
    BY <2>1, ErrorStays DEF Becomes
  <2> QED
    BY <1>3, <2>1, <2>2
<1> QED
  BY <1>4, <1>5 DEF Respond

\* The closing row is in the log: what is answered is recorded.
LEMMA CloseKeepsInv ==
  ASSUME Inv, NEW c \in Clients, Close(c)
  PROVE  Inv'
<1> DEFINE k == call[c]
<1>1. /\ ShapeInv /\ TypeOK /\ agent_id(c) \in Agents /\ RequestInv(c) /\ AnswerInv(c)
      /\ c \in Runs => RunInv(c) /\ WriteInv(c)
  BY Own
<1>2. /\ k.pc = "close" /\ audit' = AddRow(c, k.status)
      /\ call' = [call EXCEPT ![c].pc = "answered"]
      /\ UNCHANGED <<servers, force_hitl, wire, inv, served, approved, faults>>
  BY DEF Close, history
<1>0. \A tool, st : HasRow(c, tool, st)' <=> \/ HasRow(c, tool, st)
                                             \/ tool = k.req.tool /\ st = k.status
  BY <1>1, <1>2, OwnRow
<1>3. Becomes(c, "answered", k.status, k.body, k.alert)
  BY <1>1, <1>2, Fields
<1>4. GatewayMove(c, "answered", k.status, k.body, k.alert)
  BY <1>2, <1>3 DEF GatewayMove
<1>5. Grows /\ Keeps
  BY <1>4, GatewayMoves
<1>6. RequestInv(c)'
  BY <1>3, <1>5, RequestStays DEF Becomes, RequestInv
<1>7. AnswerInv(c)'
  <2>1. k.body.kind = "ok" => k.status = "COMPLETED" /\ Done(c, k.req.tool)'
    BY <1>1, <1>2, <1>5 DEF AnswerInv, Grows
  <2>2. k.body.kind = "ok" => HasRow(c, k.req.tool, "COMPLETED")'
    BY <1>0, <1>3, <2>1 DEF Becomes
  <2>3. k.body.flagged => c \in force_hitl' /\ AlertRow(c)'
    BY <1>1, <1>2, <2>1, RowAdded DEF AnswerInv
  <2>4. structuring' = structuring
    BY <1>5 DEF Grows
  <2> QED
    BY <1>1, <1>3, <2>1, <2>2, <2>3, <2>4 DEF AnswerInv, Becomes
<1>8. c \in Runs => WriteInv(c)'
  <2> SUFFICES ASSUME c \in Runs PROVE WriteInv(c)'
    OBVIOUS
  <2>1. /\ OnWire(c, Mark)' <=> OnWire(c, Mark)
        /\ Served(c, Mark)' <=> Served(c, Mark)
    BY <1>2, NoneServed DEF OnWire
  <2> QED
    BY <1>0, <1>1, <1>2, <1>3, <2>1 DEF WriteInv, Becomes
<1>9. LogInv'
  <2>1. k.status = "COMPLETED" /\ k.req.tool \in SANCTIONS_CHECK_TOOLS => Checked(agent_id(c))
    BY <1>1, <1>2 DEF AnswerInv
  <2> QED
    BY <1>2, <1>5, <2>1, LogStays
<1>10. \A m : m = [client |-> c, req |-> call[c].req] /\ m \in wire' => MayBeOnWire(m)'
  BY <1>2, <1>5, WireStays
<1> QED
  BY <1>4, <1>6, <1>7, <1>8, <1>9, <1>10, GatewayMoves

-----------------------------------------------------------------------------
(***************************************************************************)
(* The servers' steps                                                      *)
(***************************************************************************)

\* What an answer to m must be like.
AnswerFits(m, body) ==
  /\ body.kind \in {"ok", "tool_error", "rpc_error"} /\ body.flagged \in BOOLEAN
  /\ body.flagged => m.req.tool = "structuring_check" /\ body.kind = "ok"
  /\ body.kind = "ok" /\ m.req.tool = "structuring_check" => body.flagged = structuring

\* A server is done with m: the gateway has the answer, or has stopped waiting for it.
LEMMA AnsweredKeepsInv ==
  ASSUME Inv, NEW m \in wire, NEW body, AnswerFits(m, body), Answered(m, body),
         UNCHANGED <<structuring, audit, force_hitl, inv, approved>>,
         investigated' \in Dispositions \cup {None}, faults' = faults \/ Fault
  PROVE  Inv'
<1> DEFINE c == m.client
<1>1. /\ c \in Clients /\ m = [client |-> c, req |-> m.req] /\ MayBeOnWire(m)
      /\ \A d \in Clients : agent_id(d) \in Agents
  BY AgentIds DEF Inv, MayBeOnWire
<1>2. /\ ShapeInv /\ TypeOK
  BY DEF Inv, ShapeInv
<1>3. /\ wire' = wire \ {m}
      /\ served' = [served EXCEPT ![agent_id(m.client)] =
                      Append(@, [by |-> m.client, req |-> m.req, kind |-> body.kind])]
  BY DEF Answered
<1>4. /\ served' = [a \in Agents |-> served'[a]] /\ \A a \in Agents : IsSeq(served'[a])
      /\ \A a \in Agents :
           Checked(a)' <=> Checked(a) \/ (a = agent_id(c) /\ m.req.tool \in SANCTIONS_CHECK_TOOLS)
      /\ \A d \in Clients : \A tool :
           /\ Served(d, tool)' <=> Served(d, tool) \/ (d = c /\ tool = m.req.tool)
           /\ Done(d, tool)' <=> Done(d, tool) \/ (d = c /\ tool = m.req.tool /\ body.kind = "ok")
  BY <1>1, <1>2, <1>3, ServedAdded, ZenonT(60)
<1>5. \A a \in Agents : \A i \in DOMAIN served'[a] :
        \/ i \in DOMAIN served[a] /\ served'[a][i] = served[a][i]
        \/ /\ a = agent_id(c) /\ DOMAIN served[a] = 1..(i - 1)
           /\ served'[a][i].by = c /\ served'[a][i].req = m.req
  BY <1>1, <1>2, <1>3, ServedAdded
<1> HIDE DEF c
<1>6. /\ \A d \in Clients : \A tool, st : HasRow(d, tool, st)' <=> HasRow(d, tool, st)
      /\ \A d \in Clients : AlertRow(d)' <=> AlertRow(d)
      /\ \A a \in Agents : aml_sanctions_required(a)' <=> aml_sanctions_required(a)
  BY NoRowAdded
<1>7. Grows
  BY <1>4, <1>6 DEF Grows
<1>8. Keeps
  BY DEF Keeps
<1>9. /\ call' = [d \in Clients |-> call'[d]] /\ \A d \in Clients \ {c} : call'[d] = call[d]
      /\ \/ call'[c] = call[c]
         \/ /\ call[c].pc = "sent" /\ call[c].req = m.req
            /\ Becomes(c, "returned", call[c].status, body, call[c].alert)
  <2>1. CASE call[c].pc = "sent" /\ call[c].req = m.req
    <3>1. call' = [call EXCEPT ![c].pc = "returned", ![c].body = body]
      BY <2>1 DEF Answered, c
    <3>2. Becomes(c, "returned", call[c].status, body, call[c].alert)
      BY <1>1, <1>2, <3>1, Fields
    <3> QED
      BY <2>1, <3>2 DEF Becomes
  <2>2. CASE ~ (call[c].pc = "sent" /\ call[c].req = m.req)
    <3>1. call' = call
      BY <2>2 DEF Answered, c
    <3> QED
      BY <1>2, <3>1 DEF ShapeInv
  <2> QED
    BY <2>1, <2>2
<1>10. ShapeInv'
  <2>1. \A d \in Clients : /\ IsCall(call'[d])
                           /\ call'[d].pc \in {"idle", "open", "held", "sent", "returned",
                                               "close", "answered"}
    BY <1>2, <1>9 DEF ShapeInv, Becomes, TypeOK
  <2>2. faults' \in 0..MaxFaults
    BY <1>2, InvestigationAssumption DEF TypeOK, Fault
  <2>3. TypeOK'
    BY <1>2, <1>3, <2>1, <2>2 DEF TypeOK
  <2> QED
    BY <1>2, <1>4, <1>9, <2>1, <2>3 DEF ShapeInv
<1>11. ASSUME NEW d \in Clients PROVE RequestInv(d)' /\ AnswerInv(d)'
  <2>1. CASE call'[d] = call[d]
    BY <1>7, <1>8, <2>1, CallStays DEF Inv
  <2>2. CASE /\ d = c /\ call[c].pc = "sent" /\ call[c].req = m.req
             /\ Becomes(c, "returned", call[c].status, body, call[c].alert)
    <3>1. RequestInv(d)'
      BY <1>7, <1>8, <2>2, RequestStays DEF Becomes, RequestInv
    <3>2. AnswerInv(d)'
      BY <1>1, <1>4, <2>2 DEF Becomes, AnswerInv, AnswerFits
    <3> QED
      BY <3>1, <3>2
  <2> QED
    BY <1>9, <2>1, <2>2
<1>12. \A x \in wire' : MayBeOnWire(x)'
  BY <1>3, <1>7, <1>8, WireStays
<1>13. LogInv'
  BY <1>4, <1>6 DEF Inv, LogInv
<1>14. ASSUME NEW r \in Runs PROVE RunInv(r)' /\ WriteInv(r)'
  <2>1. r \in Clients
    BY AgentIds
  <2>2. /\ call'[r].req = call[r].req /\ call'[r].status = call[r].status
        /\ call'[r].pc = call[r].pc \/ (call[r].pc = "sent" /\ call'[r].pc = "returned")
    BY <1>9, <2>1 DEF Becomes
  <2>3. RunInv(r)'
    BY <1>7, <2>2, RunStays
  <2>4. OnWire(r, Mark)' \/ Served(r, Mark)' => OnWire(r, Mark) \/ Served(r, Mark)
    BY <1>3, <1>4, <2>1 DEF OnWire, c
  <2>5. WriteInv(r)'
    BY <1>6, <2>1, <2>2, <2>4 DEF Inv, WriteInv
  <2> QED
    BY <2>3, <2>5
<1>15. ServedInv'
  <2>1. ScreeningPrecedesGraph'
    <3> SUFFICES ASSUME NEW a \in Agents, NEW i \in DOMAIN served'[a],
                        served'[a][i].req.tool \in ScreenedTools
                 PROVE  \E j \in 1 .. i - 1 : served'[a][j].req.tool \in SANCTIONS_CHECK_TOOLS
      BY DEF ScreeningPrecedesGraph
    <3>1. \A j \in DOMAIN served[a] : served'[a][j] = served[a][j]
      BY <1>1, <1>2, <1>3, ServedAdded DEF c
    <3>2. IsSeq(served[a]) /\ Len(served[a]) \in Nat /\ DOMAIN served[a] = 1..Len(served[a])
      BY <1>2, Appended DEF ShapeInv
    <3>3. CASE i \in DOMAIN served[a]
      <4>1. \E j \in 1 .. i - 1 : served[a][j].req.tool \in SANCTIONS_CHECK_TOOLS
        BY <3>1, <3>3 DEF Inv, ServedInv, ScreeningPrecedesGraph
      <4> QED
        BY <3>1, <3>2, <3>3, <4>1
    <3>4. CASE a = agent_id(c) /\ DOMAIN served[a] = 1..(i - 1) /\ served'[a][i].req = m.req
      <4>1. Checked(a)
        BY <1>1, <3>4 DEF MayBeOnWire, c
      <4> QED
        BY <3>1, <3>4, <4>1 DEF Checked
    <3> QED
      BY <1>5, <3>3, <3>4
  <2>2. ASSUME NEW a \in Agents, NEW i \in DOMAIN served'[a], NEW d, NEW arg,
               d = served'[a][i].by, arg = served'[a][i].req.arg
        PROVE  /\ d \in Clients /\ agent_id(d) = a
               /\ served'[a][i].req.tool = Mark =>
                    d \in approved' /\ HasRow(d, Mark, "HELD")' /\ MayWrite(d, arg)'
    <3>1. CASE i \in DOMAIN served[a] /\ served'[a][i] = served[a][i]
      <4>1. /\ d \in Clients /\ agent_id(d) = a
            /\ served[a][i].req.tool = Mark =>
                 d \in approved /\ HasRow(d, Mark, "HELD") /\ MayWrite(d, arg)
        BY <2>2, <3>1 DEF Inv, ServedInv
      <4>2. served[a][i].req.tool = Mark /\ d \in Runs => call[d].req.tool = Mark
        BY <2>2, <3>1, WriteWasAsked
      <4>3. served[a][i].req.tool = Mark => MayWrite(d, arg)'
        BY <1>7, <1>8, <4>1, <4>2, WriteStays
      <4> QED
        BY <1>7, <3>1, <4>1, <4>3 DEF Grows
    <3>2. CASE a = agent_id(c) /\ served'[a][i].by = c /\ served'[a][i].req = m.req
      <4>1. MayBeOnWire(m)'
        BY <1>7, <1>8, WireStays
      <4> QED
        BY <1>1, <2>2, <3>2, <4>1 DEF MayBeOnWire, c
    <3> QED
      BY <1>5, <3>1, <3>2
  <2> QED
    BY <2>1, <2>2 DEF ServedInv
<1> QED
  BY <1>10, <1>11, <1>12, <1>13, <1>14, <1>15 DEF Inv

LEMMA ExecuteKeepsInv ==
  ASSUME Inv, NEW m \in wire, Execute(m)
  PROVE  Inv'
<1>1. PICK body \in Results(m.req) : Answered(m, body)
  BY DEF Execute
<1>2. AnswerFits(m, body)
  <2>1. structuring \in BOOLEAN
    BY DEF Inv, ShapeInv, TypeOK
  <2> QED
    BY <2>1, ResultParts DEF AnswerFits
<1>3. investigated' \in Dispositions \cup {None}
  <2>1. m.req.tool = Mark => m.req.arg \in Dispositions
    BY DEF Inv, MayBeOnWire, MayWrite
  <2>2. investigated \in Dispositions \cup {None}
    BY DEF Inv, ShapeInv, TypeOK
  <2> QED
    BY <2>1, <2>2 DEF Execute, Mark
<1> QED
  BY <1>1, <1>2, <1>3, AnsweredKeepsInv DEF Execute

LEMMA RefuseKeepsInv ==
  ASSUME Inv, NEW m \in wire, Refuse(m)
  PROVE  Inv'
<1>1. /\ Answered(m, Body("rpc_error")) /\ Fault
      /\ UNCHANGED <<structuring, audit, force_hitl, inv, approved, investigated>>
  BY DEF Refuse, servers
<1>2. Body("rpc_error").kind = "rpc_error" /\ Body("rpc_error").flagged = FALSE
  BY BodyParts
<1>3. AnswerFits(m, Body("rpc_error"))
  BY <1>2 DEF AnswerFits
<1>4. investigated' \in Dispositions \cup {None}
  BY <1>1 DEF Inv, ShapeInv, TypeOK
<1> QED
  BY <1>1, <1>3, <1>4, AnsweredKeepsInv

\* A server restarts, or nothing happens.
LEMMA RestartKeepsInv ==
  ASSUME Inv, UNCHANGED <<structuring, audit, force_hitl, wire, call, inv, served, approved>>,
         investigated' \in {investigated, None}, faults' = faults \/ Fault
  PROVE  Inv'
<1>1. Grows /\ Keeps
  BY NoRowAdded, NoneServed DEF Grows, Keeps
<1>2. ShapeInv'
  <2>1. faults' \in 0..MaxFaults
    BY InvestigationAssumption DEF Inv, ShapeInv, TypeOK, Fault
  <2>2. TypeOK'
    BY <2>1 DEF Inv, ShapeInv, TypeOK
  <2> QED
    BY <2>2 DEF Inv, ShapeInv
<1>3. \A c \in Clients : RequestInv(c)' /\ AnswerInv(c)'
  BY <1>1, CallStays DEF Inv
<1>4. (\A m \in wire' : MayBeOnWire(m)') /\ ServedInv'
  BY <1>1, WireStays, ServedStays
<1>5. LogInv'
  BY NoRowAdded, NoneServed DEF Inv, LogInv
<1>6. ASSUME NEW r \in Runs PROVE RunInv(r)' /\ WriteInv(r)'
  <2>1. RunInv(r)'
    BY <1>1, RunStays
  <2>2. /\ OnWire(r, Mark)' <=> OnWire(r, Mark)
        /\ Served(r, Mark)' <=> Served(r, Mark)
        /\ HasRow(r, Mark, "DENIED")' <=> HasRow(r, Mark, "DENIED")
    BY AgentIds, NoneServed, NoRowAdded DEF OnWire
  <2>3. WriteInv(r)'
    BY <2>2 DEF Inv, WriteInv
  <2> QED
    BY <2>1, <2>3
<1> QED
  BY <1>2, <1>3, <1>4, <1>5, <1>6 DEF Inv

-----------------------------------------------------------------------------
(***************************************************************************)
(* The clients' steps                                                      *)
(***************************************************************************)

\* A request is decided on: what is not refused has the check it needs, and no second
\* write of a run is asked for.
LEMMA SendKeepsInv ==
  ASSUME Inv, NEW c \in Clients, NEW req, Send(c, req), req.tool = Mark => MayWrite(c, req.arg),
         c \in Runs => inv[c].pc \in DOMAIN Following /\ req.tool = inv[c].pc
  PROVE  Inv'
<1>1. /\ ShapeInv /\ TypeOK /\ agent_id(c) \in Agents /\ RequestInv(c) /\ AnswerInv(c)
      /\ c \in Runs => RunInv(c) /\ WriteInv(c)
  BY Own
<1>2. PICK v \in {Verdict(c, req.tool), "DENIED"} :
        /\ IF v = Verdict(c, req.tool) THEN UNCHANGED faults ELSE Fault
        /\ call' = [call EXCEPT ![c] = [pc |-> "open", req |-> req, status |-> v,
                                        body |-> NoBody, alert |-> FALSE]]
  BY DEF Send
<1>3. /\ call[c].pc = "idle"
      /\ UNCHANGED <<structuring, investigated, audit, force_hitl, wire, inv, served, approved>>
  BY DEF Send, servers, history
<1>4. /\ v \in {"INTENT", "HELD", "DENIED"} /\ (v = "INTENT" => req.tool # Mark)
      /\ v # "DENIED" /\ req.tool \in ScreenedTools => Checked(agent_id(c))
  BY <1>1 DEF Verdict, GatedTools, Mark, Inv, LogInv
<1>5. /\ call' = [d \in Clients |-> call'[d]] /\ \A d \in Clients \ {c} : call'[d] = call[d]
      /\ IsCall(call'[c]) /\ call'[c].pc = "open" /\ call'[c].req = req /\ call'[c].status = v
      /\ call'[c].body = NoBody
  BY <1>1, <1>2 DEF ShapeInv, IsCall
<1>6. Grows /\ Keeps
  BY <1>3, NoRowAdded, NoneServed DEF Grows, Keeps
<1>7. ShapeInv'
  <2>1. faults' \in 0..MaxFaults
    BY <1>1, <1>2, InvestigationAssumption DEF TypeOK, Fault
  <2>2. TypeOK'
    BY <1>1, <1>3, <1>5, <2>1 DEF TypeOK
  <2> QED
    BY <1>1, <1>3, <1>5, <2>2 DEF ShapeInv
<1>8. /\ \A d \in Clients \ {c} : RequestInv(d)' /\ AnswerInv(d)'
      /\ \A m \in wire : MayBeOnWire(m)'
      /\ ServedInv'
      /\ \A r \in Runs \ {c} : RunInv(r)' /\ WriteInv(r)'
  <2>1. \A d \in Clients : /\ HasRow(d, Mark, "DENIED")' => HasRow(d, Mark, "DENIED")
                           /\ OnWire(d, Mark)' => OnWire(d, Mark)
    BY <1>3, NoRowAdded DEF OnWire
  <2> QED
    BY <1>3, <1>5, <1>6, <2>1, OthersStay
<1>9. RequestInv(c)'
  <2>1. req.tool = Mark => MayWrite(c, call[c].req.arg)'
    BY <1>3, <1>5 DEF MayWrite, Fits
  <2>2. v # "DENIED" /\ req.tool \in ScreenedTools => Checked(agent_id(c))'
    BY <1>1, <1>4, <1>6 DEF Grows
  <2> QED
    BY <1>4, <1>5, <2>1, <2>2 DEF RequestInv
<1>10. AnswerInv(c)'
  BY <1>5, BodyParts DEF AnswerInv
<1>11. c \in Runs => RunInv(c)' /\ WriteInv(c)'
  <2> SUFFICES ASSUME c \in Runs PROVE RunInv(c)' /\ WriteInv(c)'
    OBVIOUS
  <2>1. call[c].req.tool # Mark
    BY <1>1, <1>3, Nodes DEF RunInv, Mark
  <2>2. WriteInv(c)'
    <3>1. /\ OnWire(c, Mark)' <=> OnWire(c, Mark)
          /\ Served(c, Mark)' <=> Served(c, Mark)
          /\ HasRow(c, Mark, "DENIED")' <=> HasRow(c, Mark, "DENIED")
      BY <1>3, NoneServed, NoRowAdded DEF OnWire
    <3> QED
      BY <1>1, <2>1, <3>1 DEF WriteInv
  <2>3. RunInv(c)'
    <3>1. /\ AlertRow(c) => AlertRow(c)'
          /\ Done(c, Mark) => Done(c, Mark)'
          /\ \A tool : HasRow(c, tool, "COMPLETED") => HasRow(c, tool, "COMPLETED")'
      BY <1>6 DEF Grows
    <3> QED
      BY <1>1, <1>3, <1>5, <3>1 DEF RunInv, fallback_risk
  <2> QED
    BY <2>2, <2>3
<1>12. LogInv'
  BY <1>3, NoRowAdded, NoneServed DEF Inv, LogInv
<1> QED
  <2>1. \A d \in Clients : RequestInv(d)' /\ AnswerInv(d)'
    BY <1>8, <1>9, <1>10
  <2>2. \A r \in Runs : RunInv(r)' /\ WriteInv(r)'
    BY <1>8, <1>11
  <2> QED
    BY <1>3, <1>7, <1>8, <1>12, <2>1, <2>2 DEF Inv

LEMMA CallToolKeepsInv ==
  ASSUME Inv, NEW r \in Runs, CallTool(r)
  PROVE  Inv'
<1> DEFINE i == inv[r]
           req == InvestigatorRequest(i)
<1>1. r \in Clients /\ RunInv(r)
  BY AgentIds DEF Inv
<1>2. i.pc \in DOMAIN Following /\ Send(r, req)
  BY DEF CallTool
<1>3. req.tool = i.pc /\ (i.pc = Mark => req.arg = DISPOSITION_BY_RISK[i.risk])
  BY DEF InvestigatorRequest, Request, Mark
<1> HIDE DEF req
<1>4. req.tool = Mark => MayWrite(r, req.arg)
  <2> SUFFICES ASSUME i.pc = Mark PROVE MayWrite(r, req.arg)
    BY <1>3
  <2>1. /\ i.risk \in DOMAIN DISPOSITION_BY_RISK /\ i.flagged = structuring
        /\ i.by = "rules" => i.risk = fallback_risk(i)
    BY <1>1 DEF RunInv, Mark
  <2>2. req.arg \in Dispositions /\ (req.arg = "cleared" => i.risk = "low")
    BY <1>3, <2>1, Risks
  <2>3. i.by = "rules" /\ i.risk = "low" => ~ structuring /\ ~ IsHit(i.hit)
    BY <2>1 DEF fallback_risk
  <2> QED
    BY <1>3, <2>2, <2>3 DEF MayWrite, Fits
<1> QED
  BY <1>1, <1>2, <1>3, <1>4, SendKeepsInv

\* A run goes on: it is left to look at the run itself.
LEMMA RunMoves ==
  ASSUME Inv, NEW r \in Runs, NEW i, inv' = [inv EXCEPT ![r] = i], IsInv(i), IsSeq(i.log),
         i.pc \in DOMAIN Following \cup {"assessment", "report", "done", "failed", "lost"},
         UNCHANGED <<structuring, investigated, audit, force_hitl, wire, served, approved, faults>>,
         \/ call' = call
         \/ call[r].pc = "answered" /\ call' = [call EXCEPT ![r].pc = "idle"]
  PROVE  /\ inv'[r] = i /\ Grows
         /\ Keeps /\ RunInv(r)' => Inv'
<1>1. /\ ShapeInv /\ TypeOK /\ r \in Clients /\ RequestInv(r) /\ AnswerInv(r) /\ WriteInv(r)
  BY AgentIds, Own
<1>2. /\ inv'[r] = i /\ inv' = [q \in Runs |-> inv'[q]] /\ \A q \in Runs \ {r} : inv'[q] = inv[q]
  BY <1>1 DEF ShapeInv
<1>3. /\ call' = [d \in Clients |-> call'[d]] /\ \A d \in Clients \ {r} : call'[d] = call[d]
      /\ IsCall(call'[r]) /\ call'[r].req = call[r].req /\ call'[r].body = call[r].body
      /\ call'[r] = call[r] \/ call'[r].pc = "idle"
  <2>1. CASE call' = call
    BY <1>1, <2>1 DEF ShapeInv
  <2>2. CASE call' = [call EXCEPT ![r].pc = "idle"]
    BY <1>1, <2>2, Fields DEF Becomes
  <2> QED
    BY <2>1, <2>2
<1>4. Grows
  BY NoRowAdded, NoneServed DEF Grows
<1>5. ASSUME Keeps, RunInv(r)' PROVE Inv'
  <2>1. ShapeInv'
    <3>1. TypeOK'
      BY <1>1, <1>2, <1>3 DEF TypeOK
    <3> QED
      BY <1>1, <1>2, <1>3, <3>1 DEF ShapeInv
  <2>2. /\ \A d \in Clients \ {r} : RequestInv(d)' /\ AnswerInv(d)'
        /\ \A m \in wire : MayBeOnWire(m)'
        /\ ServedInv'
        /\ \A q \in Runs \ {r} : RunInv(q)' /\ WriteInv(q)'
    <3>1. \A d \in Clients : /\ HasRow(d, Mark, "DENIED")' => HasRow(d, Mark, "DENIED")
                             /\ OnWire(d, Mark)' => OnWire(d, Mark)
      BY NoRowAdded DEF OnWire
    <3> QED
      BY <1>1, <1>2, <1>3, <1>4, <1>5, <3>1, OthersStay
  <2>3. RequestInv(r)' /\ AnswerInv(r)'
    <3>1. CASE call'[r] = call[r]
      BY <1>1, <1>4, <1>5, <3>1, CallStays
    <3>2. CASE call'[r].pc = "idle"
      <4>1. RequestInv(r)'
        BY <1>1, <1>3, <1>4, <1>5, <3>2, RequestStays DEF RequestInv
      <4>2. call[r].body.kind = "ok" => Done(r, call[r].req.tool)'
        BY <1>1, <1>3, <1>4 DEF AnswerInv, Grows
      <4>3. AnswerInv(r)'
        BY <1>1, <1>3, <3>2, <4>2 DEF AnswerInv
      <4> QED
        BY <4>1, <4>3
    <3> QED
      BY <1>3, <3>1, <3>2
  <2>4. WriteInv(r)'
    <3>1. /\ OnWire(r, Mark)' <=> OnWire(r, Mark)
          /\ Served(r, Mark)' <=> Served(r, Mark)
          /\ HasRow(r, Mark, "DENIED")' <=> HasRow(r, Mark, "DENIED")
      BY <1>1, NoneServed, NoRowAdded DEF OnWire
    <3> QED
      BY <1>1, <1>3, <3>1 DEF WriteInv
  <2>5. LogInv'
    BY NoRowAdded, NoneServed DEF Inv, LogInv
  <2>6. \A d \in Clients : RequestInv(d)' /\ AnswerInv(d)'
    BY <2>2, <2>3
  <2>7. \A q \in Runs : RunInv(q)' /\ WriteInv(q)'
    BY <1>5, <2>2, <2>4
  <2> QED
    BY <2>1, <2>2, <2>5, <2>6, <2>7 DEF Inv
<1> QED
  BY <1>2, <1>4, <1>5

\* What a run makes of an answer.
LEMMA FoundParts ==
  ASSUME NEW r \in Runs, IsInv(inv[r]), IsSeq(inv[r].log), inv[r].pc \in DOMAIN Following,
         NEW body
  PROVE  LET i == inv[r]
             f == Found(r, body)
         IN
         /\ IsInv(f) /\ IsSeq(f.log)
         /\ f.pc \in (DOMAIN Following \ {Mark}) \cup {"assessment", "report"}
         /\ f.pc = "get_entity_detail" => i.pc = "structuring_check"
         /\ f.pc = "assessment" => i.pc \in {"structuring_check", "get_entity_detail"}
         /\ f.pc = "report" <=> i.pc = Mark
         /\ i.pc # "check_entity" => f.hit = i.hit
         /\ f.flagged = (i.flagged \/ body.flagged) /\ f.risk = i.risk /\ f.by = i.by
         /\ f.wrote = IF i.pc = Mark THEN "result" ELSE i.wrote
         /\ \A n \in DOMAIN f.log : \/ n \in DOMAIN i.log /\ f.log[n] = i.log[n]
                                    \/ f.log[n] = [tool |-> i.pc, ok |-> TRUE]
<1> DEFINE i == inv[r]
           f == Found(r, body)
           j == [i EXCEPT !.hit = IF i.pc = "check_entity" THEN body.matches ELSE @]
<1>1. j.pc = i.pc
  BY DEF IsInv
<1>2. /\ IsInv(f) /\ f.pc = NextCall(j)
      /\ f.hit = (IF i.pc = "check_entity" THEN body.matches ELSE i.hit)
      /\ f.flagged = (i.flagged \/ body.flagged) /\ f.risk = i.risk /\ f.by = i.by
      /\ f.wrote = (IF i.pc = Mark THEN "result" ELSE i.wrote)
      /\ f.log = Append(i.log, [tool |-> i.pc, ok |-> TRUE])
  BY DEF IsInv, Found, Mark
<1>3. /\ NextCall(j) \in (DOMAIN Following \ {Mark}) \cup {"assessment", "report"}
      /\ NextCall(j) = "get_entity_detail" => i.pc = "structuring_check"
      /\ NextCall(j) = "assessment" => i.pc \in {"structuring_check", "get_entity_detail"}
      /\ NextCall(j) = "report" <=> i.pc = Mark
  <2> HIDE DEF j
  <2> QED
    BY <1>1, Nodes DEF NextCall, Mark
<1> HIDE DEF f
<1>4. /\ IsSeq(f.log)
      /\ \A n \in DOMAIN f.log : \/ n \in DOMAIN i.log /\ f.log[n] = i.log[n]
                                 \/ f.log[n] = [tool |-> i.pc, ok |-> TRUE]
  BY <1>2, Appended
<1> QED
  BY <1>2, <1>3, <1>4 DEF f

LEMMA FailedParts ==
  ASSUME NEW r \in Runs, IsInv(inv[r]), IsSeq(inv[r].log)
  PROVE  LET i == inv[r]
             f == Failed(r)
         IN
         /\ IsInv(f) /\ IsSeq(f.log) /\ f.pc = IF i.pc = Mark THEN "report" ELSE "failed"
         /\ f.hit = i.hit /\ f.flagged = i.flagged /\ f.risk = i.risk /\ f.by = i.by
         /\ f.wrote = "result" => i.wrote = "result"
         /\ \A n \in DOMAIN f.log : \/ n \in DOMAIN i.log /\ f.log[n] = i.log[n]
                                    \/ f.log[n] = [tool |-> i.pc, ok |-> FALSE]
<1> DEFINE i == inv[r]
           f == Failed(r)
<1>1. /\ IsInv(f) /\ f.pc = (IF i.pc = Mark THEN "report" ELSE "failed")
      /\ f.hit = i.hit /\ f.flagged = i.flagged /\ f.risk = i.risk /\ f.by = i.by
      /\ f.wrote = (IF i.pc = Mark THEN "error" ELSE i.wrote)
      /\ f.log = Append(i.log, [tool |-> i.pc, ok |-> FALSE])
  BY DEF IsInv, Failed, Mark
<1> HIDE DEF f
<1>2. /\ IsSeq(f.log)
      /\ \A n \in DOMAIN f.log : \/ n \in DOMAIN i.log /\ f.log[n] = i.log[n]
                                 \/ f.log[n] = [tool |-> i.pc, ok |-> FALSE]
  BY <1>1, Appended
<1> QED
  BY <1>1, <1>2 DEF f

\* The run has the answer of its call, which is to the request it made.
LEMMA ReceiveKeepsInv ==
  ASSUME Inv, NEW r \in Runs, Receive(r)
  PROVE  Inv'
<1> DEFINE i == inv[r]
           k == call[r]
<1>1. /\ r \in Clients /\ ShapeInv /\ AnswerInv(r) /\ RunInv(r) /\ IsInv(i) /\ IsSeq(i.log)
  BY AgentIds, Own DEF ShapeInv
<1>2. /\ k.pc = "answered" /\ i.pc \in DOMAIN Following
      /\ call' = [call EXCEPT ![r].pc = "idle"]
      /\ UNCHANGED <<structuring, investigated, audit, force_hitl, wire, served, approved, faults>>
  BY DEF Receive, servers, history
<1>3. k.req.tool = i.pc /\ call'[r].req = k.req /\ call'[r].pc = "idle"
  BY <1>1, <1>2, Fields, ZenonT(60) DEF RunInv, Becomes
<1>4. ASSUME NEW j, inv' = [inv EXCEPT ![r] = j], IsInv(j), IsSeq(j.log),
             j.pc \in DOMAIN Following \cup {"assessment", "report", "done", "failed", "lost"},
             i.pc = Mark => /\ j.pc \in {"report", "lost"} /\ j.risk = i.risk /\ j.by = i.by
                            /\ j.hit = i.hit,
             j.pc # Mark, j.flagged \in BOOLEAN,
             j.pc \in {"assessment", "get_entity_detail"} => j.flagged = structuring,
             j.flagged => structuring /\ r \in force_hitl /\ AlertRow(r),
             \A n \in DOMAIN j.log : j.log[n].ok => HasRow(r, j.log[n].tool, "COMPLETED"),
             j.wrote = "result" => Done(r, Mark)
      PROVE  Inv'
  <2>1. inv'[r] = j /\ Grows /\ (Keeps /\ RunInv(r)' => Inv')
    BY <1>2, <1>4, RunMoves
  <2>2. Keeps
    <3>1. \A q \in Runs \ {r} : inv'[q] = inv[q]
      BY <1>1, <1>4 DEF ShapeInv
    <3> QED
      BY <1>3, <1>4, <2>1, <3>1 DEF Keeps
  <2>3. RunInv(r)'
    <3>1. j.flagged => structuring' /\ r \in force_hitl' /\ AlertRow(r)'
      BY <1>1, <1>4, <2>1 DEF Grows
    <3>2. \A n \in DOMAIN j.log : j.log[n].ok => HasRow(r, j.log[n].tool, "COMPLETED")'
      <4> SUFFICES ASSUME NEW n \in DOMAIN j.log, j.log[n].ok
                   PROVE  HasRow(r, j.log[n].tool, "COMPLETED")'
        OBVIOUS
      <4>1. HasRow(r, j.log[n].tool, "COMPLETED")
        BY <1>4
      <4> QED
        BY <1>1, <2>1, <4>1 DEF Grows
    <3>3. j.wrote = "result" => Done(r, Mark)'
      BY <1>1, <1>4, <2>1 DEF Grows
    <3>4. structuring' = structuring
      BY <1>2
    <3> QED
      BY <1>3, <1>4, <2>1, <3>1, <3>2, <3>3, <3>4 DEF RunInv, Mark
  <2> QED
    BY <2>1, <2>2, <2>3
<1>5. /\ i.flagged \in BOOLEAN /\ (i.flagged => structuring /\ r \in force_hitl /\ AlertRow(r))
      /\ \A n \in DOMAIN i.log : i.log[n].ok => HasRow(r, i.log[n].tool, "COMPLETED")
      /\ i.wrote = "result" => Done(r, Mark)
  BY <1>1 DEF RunInv
<1>6. CASE k.body.kind = "ok" /\ inv' = [inv EXCEPT ![r] = Found(r, k.body)]
  <2> DEFINE f == Found(r, k.body)
  <2>1. /\ IsInv(f) /\ IsSeq(f.log)
        /\ f.pc \in (DOMAIN Following \ {Mark}) \cup {"assessment", "report"}
        /\ f.pc = "get_entity_detail" => i.pc = "structuring_check"
        /\ f.pc = "assessment" => i.pc \in {"structuring_check", "get_entity_detail"}
        /\ f.pc = "report" <=> i.pc = Mark
        /\ i.pc # "check_entity" => f.hit = i.hit
        /\ f.flagged = (i.flagged \/ k.body.flagged) /\ f.risk = i.risk /\ f.by = i.by
        /\ f.wrote = IF i.pc = Mark THEN "result" ELSE i.wrote
        /\ \A n \in DOMAIN f.log : \/ n \in DOMAIN i.log /\ f.log[n] = i.log[n]
                                   \/ f.log[n] = [tool |-> i.pc, ok |-> TRUE]
    BY <1>1, <1>2, FoundParts
  <2> HIDE DEF f
  <2>2. /\ Done(r, i.pc) /\ HasRow(r, i.pc, "COMPLETED") /\ k.body.flagged \in BOOLEAN
        /\ k.body.flagged => i.pc = "structuring_check" /\ r \in force_hitl /\ AlertRow(r)
        /\ i.pc = "structuring_check" => k.body.flagged = structuring
    BY <1>1, <1>2, <1>3, <1>6 DEF AnswerInv
  <2>3. f.flagged \in BOOLEAN /\ (f.flagged => structuring /\ r \in force_hitl /\ AlertRow(r))
    BY <1>5, <2>1, <2>2
  <2>4. f.pc \in {"assessment", "get_entity_detail"} => f.flagged = structuring
    <3>1. structuring \in BOOLEAN
      BY <1>1 DEF ShapeInv, TypeOK
    <3>2. i.pc = "get_entity_detail" => i.flagged = structuring
      BY <1>1 DEF RunInv
    <3> QED
      BY <1>5, <2>1, <2>2, <3>1, <3>2
  <2>5. \A n \in DOMAIN f.log : f.log[n].ok => HasRow(r, f.log[n].tool, "COMPLETED")
    BY <1>5, <2>1, <2>2
  <2>6. f.wrote = "result" => Done(r, Mark)
    BY <1>5, <2>1, <2>2
  <2>7. i.pc = Mark => f.pc = "report" /\ f.hit = i.hit
    BY <2>1 DEF Mark
  <2>8. f.pc # Mark
    BY <2>1 DEF Mark
  <2>9. inv' = [inv EXCEPT ![r] = f]
    BY <1>6 DEF f
  <2> QED
    BY <1>4, <2>1, <2>3, <2>4, <2>5, <2>6, <2>7, <2>8, <2>9
<1>7. CASE inv' = [inv EXCEPT ![r] = Failed(r)]
  <2> DEFINE f == Failed(r)
  <2>1. /\ IsInv(f) /\ IsSeq(f.log) /\ f.pc = IF i.pc = Mark THEN "report" ELSE "failed"
        /\ f.hit = i.hit /\ f.flagged = i.flagged /\ f.risk = i.risk /\ f.by = i.by
        /\ f.wrote = "result" => i.wrote = "result"
        /\ \A n \in DOMAIN f.log : \/ n \in DOMAIN i.log /\ f.log[n] = i.log[n]
                                   \/ f.log[n] = [tool |-> i.pc, ok |-> FALSE]
    BY <1>1, FailedParts
  <2> HIDE DEF f
  <2>2. \A n \in DOMAIN f.log : f.log[n].ok => HasRow(r, f.log[n].tool, "COMPLETED")
    BY <1>5, <2>1
  <2>3. f.pc \in {"report", "failed"} /\ f.pc # Mark /\ (i.pc = Mark => f.pc = "report")
    BY <2>1 DEF Mark
  <2>4. inv' = [inv EXCEPT ![r] = f]
    BY <1>7 DEF f
  <2> QED
    BY <1>4, <1>5, <2>1, <2>2, <2>3, <2>4
<1>8. CASE inv' = [inv EXCEPT ![r] = [i EXCEPT !.pc = "lost"]]
  <2> DEFINE f == [i EXCEPT !.pc = "lost"]
  <2>1. /\ IsInv(f) /\ f.pc = "lost" /\ f.hit = i.hit /\ f.flagged = i.flagged /\ f.risk = i.risk
        /\ f.by = i.by /\ f.wrote = i.wrote /\ f.log = i.log
    BY <1>1 DEF IsInv
  <2>2. inv' = [inv EXCEPT ![r] = f]
    BY <1>8
  <2> HIDE DEF f
  <2>3. f.pc # Mark
    BY <2>1 DEF Mark
  <2> QED
    BY <1>1, <1>4, <1>5, <2>1, <2>2, <2>3
<1> QED
  BY <1>6, <1>7, <1>8 DEF Receive, Returned

\* The run does not wait for its answer: it ends, and its call goes on.
LEMMA GiveUpKeepsInv ==
  ASSUME Inv, NEW r \in Runs, GiveUp(r)
  PROVE  Inv'
<1> DEFINE i == inv[r]
           f == [i EXCEPT !.pc = "lost"]
<1>1. /\ r \in Clients /\ ShapeInv /\ RunInv(r) /\ IsInv(i) /\ IsSeq(i.log)
  BY AgentIds, Own DEF ShapeInv
<1>2. /\ inv' = [inv EXCEPT ![r] = f]
      /\ UNCHANGED <<structuring, investigated, audit, force_hitl, wire, call, served, approved,
                     faults>>
  BY DEF GiveUp, servers, history
<1>3. /\ IsInv(f) /\ f.pc = "lost" /\ f.hit = i.hit /\ f.flagged = i.flagged /\ f.risk = i.risk
      /\ f.by = i.by /\ f.wrote = i.wrote /\ f.log = i.log
  BY <1>1 DEF IsInv
<1> HIDE DEF f
<1>4. inv'[r] = f /\ Grows /\ (Keeps /\ RunInv(r)' => Inv')
  BY <1>1, <1>2, <1>3, RunMoves
<1>5. Keeps
  BY <1>1, <1>2, <1>3, <1>4 DEF Keeps, ShapeInv
<1>6. RunInv(r)'
  BY <1>1, <1>2, <1>3, <1>4, Nodes DEF RunInv, Mark, Grows
<1> QED
  BY <1>4, <1>5, <1>6

\* The assessment comes before the write is asked for.
LEMMA AssessKeepsInv ==
  ASSUME Inv, NEW r \in Runs, Assess(r)
  PROVE  Inv'
<1> DEFINE i == inv[r]
<1>1. /\ r \in Clients /\ ShapeInv /\ RunInv(r) /\ IsInv(i) /\ IsSeq(i.log)
  BY AgentIds, Own DEF ShapeInv
<1>2. /\ i.pc = "assessment"
      /\ UNCHANGED <<structuring, investigated, audit, force_hitl, wire, call, served, approved,
                     faults>>
  BY DEF Assess, servers, history
<1>3. PICK risk \in DOMAIN DISPOSITION_BY_RISK, by \in {"model", "rules"} :
        /\ by = "rules" => risk = fallback_risk(i)
        /\ inv' = [inv EXCEPT ![r].risk = risk, ![r].by = by, ![r].pc = "mark_investigated"]
  <2>1. fallback_risk(i) \in DOMAIN DISPOSITION_BY_RISK
    BY Risks DEF fallback_risk
  <2> QED
    BY <2>1 DEF Assess
<1> DEFINE f == [i EXCEPT !.risk = risk, !.by = by, !.pc = "mark_investigated"]
<1>4. /\ IsInv(f) /\ f.pc = Mark /\ f.hit = i.hit /\ f.flagged = i.flagged /\ f.risk = risk
      /\ f.by = by /\ f.wrote = i.wrote /\ f.log = i.log
  BY <1>1 DEF IsInv, Mark
<1>5. inv' = [inv EXCEPT ![r] = f]
  BY <1>1, <1>3 DEF ShapeInv
<1> HIDE DEF f
<1>6. call[r].pc = "idle" /\ call[r].req.tool # Mark
  BY <1>1, <1>2, Nodes DEF RunInv, Mark
<1>7. inv'[r] = f /\ Grows /\ (Keeps /\ RunInv(r)' => Inv')
  BY <1>1, <1>2, <1>4, <1>5, Nodes, RunMoves DEF Mark
<1>8. Keeps
  BY <1>1, <1>5, <1>6, <1>7 DEF Keeps, ShapeInv
<1>9. RunInv(r)'
  <2>1. fallback_risk(inv[r])' = fallback_risk(i)
    BY <1>4, <1>7 DEF fallback_risk
  <2>2. /\ structuring' = structuring /\ i.flagged = structuring
        /\ i.flagged => r \in force_hitl' /\ AlertRow(r)'
        /\ i.wrote = "result" => Done(r, Mark)'
    BY <1>1, <1>2, <1>7 DEF RunInv, Grows
  <2>3. \A n \in DOMAIN i.log : i.log[n].ok => HasRow(r, i.log[n].tool, "COMPLETED")'
    <3> DEFINE log == i.log
    <3>1. \A n \in DOMAIN log : log[n].ok => HasRow(r, log[n].tool, "COMPLETED")
      BY <1>1 DEF RunInv
    <3> QED
      BY <1>1, <1>4, <1>7, <3>1 DEF Grows
  <2> QED
    BY <1>1, <1>2, <1>3, <1>4, <1>6, <1>7, <2>1, <2>2, <2>3 DEF RunInv, Mark
<1> QED
  BY <1>7, <1>8, <1>9

LEMMA ReportKeepsInv ==
  ASSUME Inv, NEW r \in Runs, Report(r)
  PROVE  Inv'
<1> DEFINE i == inv[r]
           f == [i EXCEPT !.pc = "done"]
<1>1. /\ r \in Clients /\ ShapeInv /\ RunInv(r) /\ IsInv(i) /\ IsSeq(i.log)
  BY AgentIds, Own DEF ShapeInv
<1>2. /\ i.pc = "report" /\ inv' = [inv EXCEPT ![r] = f]
      /\ UNCHANGED <<structuring, investigated, audit, force_hitl, wire, call, served, approved,
                     faults>>
  BY DEF Report, servers, history
<1>3. /\ IsInv(f) /\ f.pc = "done" /\ f.hit = i.hit /\ f.flagged = i.flagged /\ f.risk = i.risk
      /\ f.by = i.by /\ f.wrote = i.wrote /\ f.log = i.log
  BY <1>1 DEF IsInv
<1> HIDE DEF f
<1>4. inv'[r] = f /\ Grows /\ (Keeps /\ RunInv(r)' => Inv')
  BY <1>1, <1>2, <1>3, RunMoves
<1>5. Keeps
  BY <1>1, <1>2, <1>3, <1>4 DEF Keeps, ShapeInv
<1>6. RunInv(r)'
  BY <1>1, <1>2, <1>3, <1>4, Nodes DEF RunInv, Mark, Grows
<1> QED
  BY <1>4, <1>5, <1>6

-----------------------------------------------------------------------------
(***************************************************************************)
(* The theorems                                                            *)
(***************************************************************************)

LEMMA InitInv == Init => Inv
<1> SUFFICES ASSUME Init PROVE Inv
  OBVIOUS
<1> USE DEF Init
<1>1. /\ \A c \in Clients : /\ call[c].pc = "idle" /\ call[c].req.tool = "none"
                            /\ call[c].body = NoBody /\ IsCall(call[c])
      /\ call = [c \in Clients |-> call[c]]
  BY DEF Request, None, IsCall
<1>2. /\ \A r \in Runs : /\ inv[r].pc = "get_account" /\ inv[r].flagged = FALSE
                         /\ inv[r].wrote = "none" /\ inv[r].log = <<>> /\ IsInv(inv[r])
      /\ inv = [r \in Runs |-> inv[r]]
  BY DEF None, IsInv
<1>3. /\ \A a \in Agents : audit[a] = <<>> /\ served[a] = <<>>
      /\ audit = [a \in Agents |-> audit[a]] /\ served = [a \in Agents |-> served[a]]
  OBVIOUS
<1>4. ShapeInv
  <2>1. TypeOK
    BY <1>1, <1>2, Nodes, InvestigationAssumption DEF TypeOK
  <2> QED
    BY <1>1, <1>2, <1>3, <2>1, EmptyIsSeq DEF ShapeInv
<1>5. \A c \in Clients : \A tool, st : ~ HasRow(c, tool, st) /\ ~ Served(c, tool)
  BY <1>3, AgentIds DEF HasRow, Rows, Served
<1>6. \A c \in Clients : RequestInv(c) /\ AnswerInv(c)
  BY <1>1, BodyParts DEF RequestInv, AnswerInv, Mark
<1>7. (\A m \in wire : MayBeOnWire(m)) /\ ServedInv
  BY <1>3 DEF ServedInv, ScreeningPrecedesGraph
<1>8. LogInv
  BY <1>3 DEF LogInv, aml_sanctions_required
<1>9. ASSUME NEW r \in Runs PROVE RunInv(r) /\ WriteInv(r)
  <2>1. r \in Clients
    BY AgentIds
  <2>2. RunInv(r)
    <3>1. DOMAIN inv[r].log = {}
      BY <1>2
    <3> QED
      BY <1>1, <1>2, <2>1, <3>1, Nodes DEF RunInv, Mark
  <2>3. WriteInv(r)
    BY <1>5, <2>1 DEF WriteInv, OnWire
  <2> QED
    BY <2>2, <2>3
<1> QED
  BY <1>4, <1>6, <1>7, <1>8, <1>9 DEF Inv

LEMMA NextInv == Inv /\ [Next]_vars => Inv'
<1> SUFFICES ASSUME Inv, [Next]_vars PROVE Inv'
  OBVIOUS
<1>1. ASSUME NEW c \in Clients, GatewayStep(c) \/ WriteFails(c) \/ ReviewerApproves(c)
      PROVE  Inv'
  BY <1>1, OpenKeepsInv, HoldEndsKeepsInv, RespondKeepsInv, CloseKeepsInv, WriteFailsKeepsInv,
     ReviewerApprovesKeepsInv DEF GatewayStep
<1>2. ASSUME NEW m \in wire, Execute(m) \/ Refuse(m) PROVE Inv'
  BY <1>2, ExecuteKeepsInv, RefuseKeepsInv
<1>3. CASE GraphRestart
  BY <1>3, RestartKeepsInv DEF GraphRestart, history
<1>4. CASE OfacRestart
  BY <1>4, RestartKeepsInv DEF OfacRestart, history
<1>5. ASSUME NEW r \in Runs, InvestigatorStep(r) \/ GiveUp(r) PROVE Inv'
  BY <1>5, CallToolKeepsInv, ReceiveKeepsInv, AssessKeepsInv, ReportKeepsInv, GiveUpKeepsInv
     DEF InvestigatorStep
<1>6. ASSUME NEW c \in Others, NEW req \in Wants[c], Send(c, req) PROVE Inv'
  <2>1. c \in Clients /\ c \notin Runs
    BY InvestigationAssumption DEF Clients
  <2>2. req.tool = Mark => MayWrite(c, req.arg)
    BY <2>1, InvestigationAssumption DEF MayWrite, GatedTools, Mark
  <2> QED
    BY <1>6, <2>1, <2>2, SendKeepsInv
<1>7. CASE Finished \/ UNCHANGED vars
  BY <1>7, RestartKeepsInv DEF Finished, vars
<1> QED
  BY <1>1, <1>2, <1>3, <1>4, <1>5, <1>6, <1>7 DEF Next

LEMMA AlwaysInv == Spec => []Inv
  BY InitInv, NextInv, PTL DEF Spec

\* aml-sanctions-required does what it is for, however the calls of an agent overlap: its
\* look at the log, taken before the call is forwarded, is never out of date when the graph
\* server carries the call out.
THEOREM ScreeningComesFirst == Spec => []ScreeningPrecedesGraph
<1>1. Inv => ScreeningPrecedesGraph
  BY DEF Inv, ServedInv
<1> QED
  BY <1>1, AlwaysInv, PTL

\* aml-write-hitl-gate does what it is for: no disposition is written that was not held and
\* approved, whatever times out or is sent twice, nor other than as it was assessed.
THEOREM WritesAreApproved == Spec => []DispositionIsApproved
<1>1. Inv => DispositionIsApproved
  BY DEF Inv, ShapeInv, ServedInv, DispositionIsApproved, MayWrite, Fits, Mark
<1> QED
  BY <1>1, AlwaysInv, PTL

\* aml-structuring-alert does what it is for: nobody has the signal whose session is not
\* flagged and whose incident is not in the log.
THEOREM AlertsAreRecorded == Spec => []AlertIsRecorded
<1>1. Inv => AlertIsRecorded
  BY DEF Inv, AnswerInv, RunInv, AlertIsRecorded, Alerted, AlertRow
<1> QED
  BY <1>1, AlwaysInv, PTL

\* An investigation's report agrees with the log and the servers, for any number of
\* investigations and of other clients of the same agent.
THEOREM ReportsAreHonest == Spec => []ReportIsHonest
<1>1. Inv => ReportIsHonest
  <2> SUFFICES ASSUME Inv, NEW r \in Runs
               PROVE  /\ \A n \in DOMAIN inv[r].log :
                           inv[r].log[n].ok => HasRow(r, inv[r].log[n].tool, "COMPLETED")
                      /\ inv[r].wrote = "result" => Done(r, Mark)
                      /\ HasRow(r, Mark, "DENIED") => ~ Served(r, Mark) /\ ~ OnWire(r, Mark)
    BY AgentIds DEF ReportIsHonest, Done, Served, OnWire, Mark
  <2> QED
    BY DEF Inv, RunInv, WriteInv
<1> QED
  BY <1>1, AlwaysInv, PTL

-----------------------------------------------------------------------------
(***************************************************************************)
(* The OFAC server's look-ups                                              *)
(***************************************************************************)

\* An index that the server may have, of any list: what the look-ups need of it.
IndexOK(x) ==
  /\ IsFiniteSet(DOMAIN all_names(x))
  /\ \A e \in DOMAIN x : x[e].place \in Nat
  /\ \A query \in DOMAIN score : \A n \in DOMAIN all_names(x) :
       score[query][n] \in Nat /\ (n = query => score[query][n] >= match_threshold)

\* A number's place is its first row.
LEMMA PlaceIsRow ==
  ASSUME NEW rows, DOMAIN rows \subseteq Nat, NEW e \in DOMAIN parse_sdn_csv(rows)
  PROVE  parse_sdn_csv(rows)[e].place \in Nat
<1> DEFINE full == {i \in DOMAIN rows : rows[i].columns >= 12}
           own  == {i \in full : rows[i].ent = e}
<1>1. own # {} /\ own \subseteq Nat
  BY DEF parse_sdn_csv
<1>2. parse_sdn_csv(rows)[e].place = Min(own)
  BY DEF parse_sdn_csv
<1> HIDE DEF own
<1>3. PICK i \in own : \A j \in own : i <= j
  BY <1>1, Least
<1>4. Min(own) \in own
  BY <1>3 DEF Min
<1> QED
  BY <1>1, <1>2, <1>4

\* A list has finitely many names.
LEMMA NamesAreFinite ==
  ASSUME NEW l \in Lists
  PROVE  IsFiniteSet(DOMAIN all_names(build_index(l)))
<1> DEFINE x    == build_index(l)
           full == {i \in DOMAIN l.sdn : l.sdn[i].columns >= 12}
           S    == {names(x[e]) : e \in DOMAIN x}
<1>1. /\ Len(l.sdn) \in Nat /\ DOMAIN l.sdn = 1 .. Len(l.sdn)
      /\ Len(l.alt) \in Nat /\ DOMAIN l.alt = 1 .. Len(l.alt)
  BY ScoreAssumption
<1>2. IsFiniteSet(DOMAIN l.sdn) /\ IsFiniteSet(DOMAIN l.alt)
  <2>1. \A n \in Nat : IsFiniteSet(1 .. n)
    BY FS_Interval
  <2> QED
    BY <1>1, <2>1
<1>3. IsFiniteSet(full)
  BY <1>2, FS_Subset
<1>4. DOMAIN x = {l.sdn[i].ent : i \in full}
  BY DEF build_index, parse_sdn_csv
<1>5. IsFiniteSet(DOMAIN x)
  <2> DEFINE g == [i \in full |-> l.sdn[i].ent]
  <2>1. g \in Surjection(full, DOMAIN x)
    <3> HIDE DEF full, x
    <3> QED
      BY <1>4 DEF Surjection
  <2> QED
    BY <1>3, <2>1, FS_Surjection
<1>6. ASSUME NEW e \in DOMAIN x PROVE IsFiniteSet(names(x[e]))
  <2> DEFINE own == {j \in DOMAIN l.alt : /\ l.alt[j].columns >= 5 /\ l.alt[j].ent = e
                                          /\ l.alt[j].name # ""}
             A   == {l.alt[j].name : j \in own}
             g   == [j \in own |-> l.alt[j].name]
  <2>1. x[e].aliases = A
    BY <1>6 DEF build_index, parse_alt_csv
  <2>2. IsFiniteSet(own)
    BY <1>2, FS_Subset
  <2>3. g \in Surjection(own, A)
    <3> HIDE DEF own
    <3> QED
      BY DEF Surjection
  <2> HIDE DEF A, x, own, g
  <2>4. IsFiniteSet(A)
    BY <2>2, <2>3, FS_Surjection
  <2>5. IsFiniteSet({x[e].name})
    BY FS_Singleton
  <2> QED
    BY <2>1, <2>4, <2>5, FS_Union DEF names
<1>7. IsFiniteSet(S)
  <2> DEFINE g == [e \in DOMAIN x |-> names(x[e])]
  <2>1. g \in Surjection(DOMAIN x, S)
    <3> HIDE DEF x
    <3> QED
      BY DEF Surjection
  <2> QED
    BY <1>5, <2>1, FS_Surjection
<1>8. \A T \in S : IsFiniteSet(T)
  BY <1>6
<1>9. IsFiniteSet(UNION S)
  <2> HIDE DEF S
  <2> QED
    BY <1>7, <1>8, FS_UNION
<1>10. DOMAIN all_names(x) = UNION S
  BY DEF all_names
<1> QED
  BY <1>9, <1>10

LEMMA IndexIsOK ==
  ASSUME NEW x \in {build_index(l) : l \in Lists}
  PROVE  IndexOK(x)
<1>1. PICK l \in Lists : x = build_index(l)
  OBVIOUS
<1>2. IsFiniteSet(DOMAIN all_names(x))
  BY <1>1, NamesAreFinite
<1>3. ASSUME NEW e \in DOMAIN x PROVE x[e].place \in Nat
  <2> DEFINE sdn == parse_sdn_csv(l.sdn)
  <2>1. DOMAIN l.sdn \subseteq Nat
    BY ScoreAssumption
  <2>2. e \in DOMAIN sdn /\ x[e].place = sdn[e].place
    BY <1>1, <1>3 DEF build_index
  <2> QED
    BY <2>1, <2>2, PlaceIsRow
<1> QED
  BY <1>1, <1>2, <1>3, ScoreAssumption DEF IndexOK

\* What process.extract leaves out is no better than what it finds.
LEMMA BestAreFound ==
  ASSUME NEW query, NEW C, IsFiniteSet(C), NEW k \in Nat \ {0},
         \A n \in C : score[query][n] \in Nat, NEW K \in extract(query, C, k)
  PROVE  K \subseteq C /\ \A o \in C : \E n \in K : score[query][n] >= score[query][o]
<1>1. /\ K \subseteq C /\ Cardinality(K) = Min({k, Cardinality(C)})
      /\ \A n \in K, o \in C \ K : score[query][n] >= score[query][o]
  BY DEF extract, kSubset
<1>2. ASSUME C # {} PROVE K # {}
  <2>1. Cardinality(C) \in Nat /\ Cardinality(C) # 0
    BY <1>2, FS_CardinalityType, FS_EmptySet
  <2>2. PICK i \in {k, Cardinality(C)} : \A j \in {k, Cardinality(C)} : i <= j
    BY <2>1
  <2>3. Min({k, Cardinality(C)}) \in {k, Cardinality(C)}
    BY <2>2 DEF Min
  <2> QED
    BY <1>1, <2>1, <2>3, FS_EmptySet
<1>3. ASSUME NEW o \in C PROVE \E n \in K : score[query][n] >= score[query][o]
  <2>1. PICK n \in K : TRUE
    BY <1>2
  <2>2. CASE o \in K
    BY <2>2
  <2>3. CASE o \notin K
    BY <1>1, <2>1, <2>3
  <2> QED
    BY <2>2, <2>3
<1> QED
  BY <1>1, <1>3

\* The one name that is asked for is as good as any.
LEMMA OneIsBest ==
  ASSUME NEW query, NEW C, IsFiniteSet(C), \A n \in C : score[query][n] \in Nat,
         NEW K \in extract(query, C, 1), NEW n \in K, NEW o \in C
  PROVE  score[query][n] >= score[query][o]
<1>1. /\ K \subseteq C /\ Cardinality(K) = Min({1, Cardinality(C)})
      /\ \A a \in K, b \in C \ K : score[query][a] >= score[query][b]
  BY DEF extract, kSubset
<1>2. IsFiniteSet(K) /\ Cardinality(K) \in Nat /\ Cardinality(C) \in Nat
  BY <1>1, FS_Subset, FS_CardinalityType
<1>3. Cardinality(K) <= 1
  <2>1. PICK i \in {1, Cardinality(C)} : \A j \in {1, Cardinality(C)} : i <= j
    BY <1>2
  <2>2. \A j \in {1, Cardinality(C)} : Min({1, Cardinality(C)}) <= j
    BY <2>1 DEF Min
  <2> QED
    BY <1>1, <2>2
<1>4. CASE o \in K \ {n}
  <2>1. /\ IsFiniteSet(K \ {n}) /\ Cardinality(K \ {n}) = Cardinality(K) - 1
    BY <1>2, FS_RemoveElement
  <2>2. Cardinality(K \ {n}) \in Nat
    BY <2>1, FS_CardinalityType
  <2>3. Cardinality(K \ {n}) = 0
    BY <1>2, <1>3, <2>1, <2>2
  <2>4. K \ {n} = {}
    BY <2>1, <2>3, FS_EmptySet
  <2> QED
    BY <1>4, <2>4
<1>5. CASE o = n
  BY <1>5
<1>6. CASE o \notin K
  BY <1>1, <1>6
<1> QED
  BY <1>4, <1>5, <1>6

\* What first chooses.
LEMMA FirstIsFirst ==
  ASSUME NEW x, NEW B, B # {}, \A e \in B : x[e].place \in Nat
  PROVE  first(x, B) \in B /\ \A e \in B : x[first(x, B)].place <= x[e].place
<1> DEFINE P == {x[e].place : e \in B}
<1>1. PICK p \in P : \A q \in P : p <= q
  <2>1. P # {} /\ P \subseteq Nat
    OBVIOUS
  <2> HIDE DEF P
  <2> QED
    BY <2>1, Least
<1>2. \E e \in B : \A f \in B : x[e].place <= x[f].place
  BY <1>1
<1> QED
  BY <1>2 DEF first

\* The entries of a type.
OfType(x, type) == {e \in DOMAIN x : x[e].type = type}

\* The best match of a type: there is one unless nobody has the type; it is the first entry of
\* the type with a name that no other of the type betters.
LEMMA BestMatch ==
  ASSUME NEW x, IndexOK(x), NEW query \in DOMAIN score, NEW type,
         NEW M \in best_match(x, names_by_type(x, type), query)
  PROVE  /\ M = {} <=> OfType(x, type) = {}
         /\ \A m \in M : m.is_match <=> score[query][m.name] >= match_threshold
         /\ \A m \in M :
              /\ m.ent \in OfType(x, type) /\ m.name = x[m.ent].name
              /\ \A e \in OfType(x, type) :
                   /\ score[query][m.name] >= score[query][x[e].name]
                   /\ x[e].name = m.name => x[m.ent].place <= x[e].place
<1> DEFINE behind == names_by_type(x, type)
           C == DOMAIN behind
<1>1. PICK K \in extract(query, C, 1) : M = {to_match(n, first(x, behind[n]), query) : n \in K}
  BY DEF best_match
<1>2. /\ C = {x[e].name : e \in OfType(x, type)}
      /\ \A n \in C : behind[n] = {e \in OfType(x, type) : x[e].name = n}
  BY DEF names_by_type, OfType
<1>3. OfType(x, type) \subseteq DOMAIN x /\ \A e \in DOMAIN x : x[e].name \in DOMAIN all_names(x)
  BY DEF all_names, names, OfType
<1>4. C \subseteq DOMAIN all_names(x)
  BY <1>2, <1>3
<1>5. IsFiniteSet(C) /\ \A n \in C : score[query][n] \in Nat
  BY <1>4, FS_Subset DEF IndexOK
<1> HIDE DEF C, behind
<1>6. K \subseteq C /\ \A o \in C : \E n \in K : score[query][n] >= score[query][o]
  BY <1>1, <1>5, BestAreFound
<1>7. M = {} <=> OfType(x, type) = {}
  <2>1. M = {} <=> K = {}
    BY <1>1, Zenon
  <2>2. K = {} <=> C = {}
    BY <1>6
  <2>3. C = {} <=> OfType(x, type) = {}
    <3>1. C = {x[e].name : e \in OfType(x, type)}
      BY <1>2
    <3> QED
      BY <3>1, Zenon
  <2> QED
    BY <2>1, <2>2, <2>3
<1>8. ASSUME NEW m \in M
      PROVE  /\ m.ent \in OfType(x, type) /\ m.name = x[m.ent].name
             /\ \A e \in OfType(x, type) :
                  /\ score[query][m.name] >= score[query][x[e].name]
                  /\ x[e].name = m.name => x[m.ent].place <= x[e].place
  <2>1. PICK n \in K : m = to_match(n, first(x, behind[n]), query)
    BY <1>1
  <2>2. m.name = n /\ m.ent = first(x, behind[n])
    BY <2>1 DEF to_match
  <2>3. n \in C /\ behind[n] # {} /\ \A e \in behind[n] : x[e].place \in Nat
    BY <1>2, <1>3, <1>6 DEF IndexOK
  <2>4. m.ent \in behind[n] /\ \A e \in behind[n] : x[m.ent].place <= x[e].place
    BY <2>2, <2>3, FirstIsFirst
  <2>5. \A o \in C : score[query][n] >= score[query][o]
    BY <1>1, <1>5, OneIsBest
  <2>6. m.ent \in OfType(x, type) /\ m.name = x[m.ent].name
    BY <1>2, <2>2, <2>3, <2>4
  <2>7. ASSUME NEW e \in OfType(x, type)
        PROVE  /\ score[query][m.name] >= score[query][x[e].name]
               /\ x[e].name = m.name => x[m.ent].place <= x[e].place
    <3>1. x[e].name \in C /\ (x[e].name = n => e \in behind[n])
      BY <1>2, <2>3
    <3> QED
      BY <2>2, <2>4, <2>5, <3>1
  <2> QED
    BY <2>6, <2>7, Zenon
<1>9. ASSUME NEW m \in M PROVE m.is_match <=> score[query][m.name] >= match_threshold
  <2>1. PICK n \in K : m = to_match(n, first(x, behind[n]), query)
    BY <1>1
  <2>2. m.name = n /\ (m.is_match <=> score[query][n] >= match_threshold)
    BY <2>1 DEF to_match
  <2> QED
    BY <2>2
<1> QED
  BY <1>7, <1>8, <1>9

\* The matches of check_alias: every entry behind each of the names, and no name is better
\* than all of them.
LEMMA AliasMatches ==
  ASSUME NEW x, IndexOK(x), NEW query \in DOMAIN score,
         NEW M \in top_matches(all_names(x), query)
  PROVE  /\ \A m \in M : /\ m.ent \in DOMAIN x /\ m.name \in names(x[m.ent])
                         /\ m.is_match <=> score[query][m.name] >= match_threshold
         /\ \A m \in M : \A e \in DOMAIN x :
              m.name \in names(x[e]) => \E y \in M : y.ent = e /\ y.name = m.name
         /\ \A o \in DOMAIN all_names(x) :
              \E m \in M : score[query][m.name] >= score[query][o]
<1> DEFINE C == DOMAIN all_names(x)
           behind(n) == {e \in DOMAIN x : n \in names(x[e])}
<1>1. PICK K \in extract(query, C, LIMIT) :
        M = UNION {{to_match(n, e, query) : e \in all_names(x)[n]} : n \in K}
  BY DEF top_matches
<1>2. C = UNION {names(x[e]) : e \in DOMAIN x} /\ \A n \in C : all_names(x)[n] = behind(n)
  BY DEF all_names
<1>3. LIMIT \in Nat \ {0} /\ IsFiniteSet(C) /\ \A n \in C : score[query][n] \in Nat
  BY InvestigationAssumption DEF IndexOK
<1> HIDE DEF C
<1>4. K \subseteq C /\ \A o \in C : \E n \in K : score[query][n] >= score[query][o]
  BY <1>1, <1>3, BestAreFound
<1>5. \A m : m \in M <=> \E n \in K : \E e \in behind(n) : m = to_match(n, e, query)
  BY <1>1, <1>2, <1>4
<1> HIDE DEF behind
<1>6. \A n, e : /\ to_match(n, e, query).name = n /\ to_match(n, e, query).ent = e
                /\ to_match(n, e, query).is_match <=> score[query][n] >= match_threshold
  BY DEF to_match
<1>7. ASSUME NEW m \in M
      PROVE  /\ m.ent \in DOMAIN x /\ m.name \in names(x[m.ent])
             /\ m.is_match <=> score[query][m.name] >= match_threshold
             /\ \A e \in DOMAIN x :
                  m.name \in names(x[e]) => \E y \in M : y.ent = e /\ y.name = m.name
  <2>1. PICK n \in K : \E e \in behind(n) : m = to_match(n, e, query)
    BY <1>5
  <2>2. PICK e \in behind(n) : m = to_match(n, e, query)
    BY <2>1
  <2>3. \A d \in behind(n) : to_match(n, d, query) \in M
    BY <1>5
  <2> QED
    BY <1>6, <2>2, <2>3 DEF behind
<1>8. ASSUME NEW o \in C PROVE \E m \in M : score[query][m.name] >= score[query][o]
  <2>1. PICK n \in K : score[query][n] >= score[query][o]
    BY <1>4
  <2>2. PICK e \in DOMAIN x : n \in names(x[e])
    BY <1>2, <1>4
  <2>3. to_match(n, e, query) \in M
    BY <1>5, <2>2 DEF behind
  <2> QED
    BY <1>6, <2>1, <2>3
<1> QED
  BY <1>7, <1>8 DEF C

-----------------------------------------------------------------------------
(***************************************************************************)
(* The look-ups that reach the server                                      *)
(***************************************************************************)

\* A look-up is for a name that the scores are known of.
Scored(req) == req.tool \in SANCTIONS_CHECK_TOOLS => req.arg \in DOMAIN score

\* The index is one of a list, and every look-up, sent or not, is Scored.
ScreenInv ==
  /\ index \in {build_index(l) : l \in Lists}
  /\ \A c \in Clients : Scored(call[c].req)
  /\ \A m \in wire : Scored(m.req)

LEMMA EntityIsScreened ==
  ASSUME NEW x, IndexOK(x), NEW query \in DOMAIN score, NEW type,
         NEW s \in check_entity(x, query, type), s.ok
  PROVE  /\ s.matches = {} <=> OfType(x, type) = {}
         /\ \A m \in s.matches :
              /\ m.ent \in OfType(x, type) /\ m.name = x[m.ent].name
              /\ \A e \in OfType(x, type) :
                   /\ score[query][m.name] >= score[query][x[e].name]
                   /\ x[e].name = m.name => x[m.ent].place <= x[e].place
         /\ (\E e \in OfType(x, type) : x[e].name = query) => IsHit(s.matches)
         /\ IsHit(s.matches) => \A b \in check_alias(x, query) : IsHit(b.matches)
<1>1. PICK M \in best_match(x, names_by_type(x, type), query) : s.matches = M
  BY DEF check_entity
<1>2. /\ M = {} <=> OfType(x, type) = {}
      /\ \A m \in M : m.is_match <=> score[query][m.name] >= match_threshold
      /\ \A m \in M :
           /\ m.ent \in OfType(x, type) /\ m.name = x[m.ent].name
           /\ \A e \in OfType(x, type) :
                /\ score[query][m.name] >= score[query][x[e].name]
                /\ x[e].name = m.name => x[m.ent].place <= x[e].place
  BY BestMatch
<1>3. \A e \in DOMAIN x : names(x[e]) \subseteq DOMAIN all_names(x)
  BY DEF all_names
<1>4. /\ OfType(x, type) \subseteq DOMAIN x
      /\ \A e \in DOMAIN x : x[e].name \in DOMAIN all_names(x)
  BY <1>3 DEF names, OfType
<1>5. /\ match_threshold \in Nat
      /\ \A n \in DOMAIN all_names(x) :
           score[query][n] \in Nat /\ (n = query => score[query][n] >= match_threshold)
  BY ScoreAssumption DEF IndexOK
<1>6. ASSUME NEW e \in OfType(x, type), x[e].name = query PROVE IsHit(M)
  <2>1. PICK m \in M : TRUE
    BY <1>2
  <2>2. score[query][m.name] >= score[query][query]
    BY <1>2, <1>6
  <2>3. m.name \in DOMAIN all_names(x) /\ query \in DOMAIN all_names(x)
    BY <1>2, <1>4, <1>6
  <2>4. score[query][m.name] >= match_threshold
    BY <1>5, <2>2, <2>3
  <2> QED
    BY <1>2, <2>4 DEF IsHit
<1>7. ASSUME IsHit(M), NEW b \in check_alias(x, query) PROVE IsHit(b.matches)
  <2>1. PICK A \in top_matches(all_names(x), query) : b.matches = A
    BY <1>7 DEF check_alias
  <2>2. /\ \A m \in A : /\ m.ent \in DOMAIN x /\ m.name \in names(x[m.ent])
                        /\ m.is_match <=> score[query][m.name] >= match_threshold
        /\ \A o \in DOMAIN all_names(x) :
             \E m \in A : score[query][m.name] >= score[query][o]
    BY AliasMatches
  <2>3. PICK m \in M : m.is_match
    BY <1>7 DEF IsHit
  <2>4. m.name \in DOMAIN all_names(x) /\ score[query][m.name] >= match_threshold
    BY <1>2, <1>4, <2>3
  <2>5. PICK a \in A : score[query][a.name] >= score[query][m.name]
    BY <2>2, <2>4
  <2>6. a.name \in DOMAIN all_names(x)
    BY <1>3, <2>2
  <2>7. score[query][a.name] >= match_threshold
    BY <1>5, <2>4, <2>5, <2>6
  <2> QED
    BY <2>1, <2>2, <2>7 DEF IsHit
<1> QED
  BY <1>1, <1>2, <1>6, <1>7

LEMMA ScreenInvSuffices == ScreenInv => ScreeningIsFaithful
<1> SUFFICES ASSUME ScreenInv, NEW m \in wire, m.req.tool \in SANCTIONS_CHECK_TOOLS,
                    NEW s \in Screening(m.req), s.ok
             PROVE  /\ m.req.tool = "check_entity" =>
                         /\ s.matches = {} <=> OfType(index, m.req.type) = {}
                         /\ \A x \in s.matches :
                              /\ x.ent \in OfType(index, m.req.type)
                              /\ x.name = index[x.ent].name
                              /\ \A e \in OfType(index, m.req.type) :
                                   /\ score[m.req.arg][x.name] >= score[m.req.arg][index[e].name]
                                   /\ index[e].name = x.name =>
                                        index[x.ent].place <= index[e].place
                         /\ (\E e \in OfType(index, m.req.type) : index[e].name = m.req.arg)
                            => IsHit(s.matches)
                         /\ IsHit(s.matches) =>
                              \A b \in check_alias(index, m.req.arg) : IsHit(b.matches)
                    /\ m.req.tool = "check_alias" =>
                         \A x \in s.matches :
                           /\ x.ent \in DOMAIN index /\ x.name \in names(index[x.ent])
                           /\ \A e \in DOMAIN index :
                                x.name \in names(index[e]) =>
                                  \E y \in s.matches : y.ent = e /\ y.name = x.name
  BY DEF ScreeningIsFaithful, OfType
<1>1. IndexOK(index) /\ m.req.arg \in DOMAIN score
  BY IndexIsOK DEF ScreenInv, Scored
<1>2. CASE m.req.tool = "check_entity"
  <2>1. s \in check_entity(index, m.req.arg, m.req.type)
    BY <1>2 DEF Screening
  <2> QED
    BY <1>1, <1>2, <2>1, EntityIsScreened
<1>3. CASE m.req.tool = "check_alias"
  <2>1. PICK M \in top_matches(all_names(index), m.req.arg) : s.matches = M
    BY <1>3 DEF Screening, check_alias
  <2> QED
    BY <1>1, <1>3, <2>1, AliasMatches
<1> QED
  BY <1>2, <1>3 DEF SANCTIONS_CHECK_TOOLS

\* A step that forwards at most the call of a client, and sends none or one that is Scored.
LEMMA ScreenStays ==
  ASSUME ScreenInv, index' \in {index} \cup {build_index(l) : l \in Lists},
         \A c \in Clients : call'[c].req = call[c].req \/ Scored(call'[c].req),
         \A m \in wire' : m \in wire \/ \E c \in Clients : m.req = call[c].req
  PROVE  ScreenInv'
  BY DEF ScreenInv, Scored

LEMMA GatewayScreens ==
  ASSUME Inv, ScreenInv, NEW c \in Clients,
         GatewayStep(c) \/ WriteFails(c) \/ ReviewerApproves(c)
  PROVE  ScreenInv'
<1>1. ShapeInv
  BY DEF Inv
<1>2. /\ call = [d \in Clients |-> call[d]] /\ IsCall(call[c])
  BY <1>1 DEF ShapeInv
<1>3. \A d \in Clients : call'[d].req = call[d].req
  BY <1>2 DEF IsCall, GatewayStep, Open, HoldEnds, UpstreamTimesOut, Respond, Close, WriteFails,
             ReviewerApproves
<1>4. /\ index' = index
      /\ wire' \in {wire, wire \cup {[client |-> c, req |-> call[c].req]}}
  BY DEF GatewayStep, Open, HoldEnds, UpstreamTimesOut, Respond, Close, WriteFails,
         ReviewerApproves, servers
<1>5. \A m \in wire' : m \in wire \/ \E d \in Clients : m.req = call[d].req
  BY <1>4
<1> QED
  BY <1>3, <1>4, <1>5, ScreenStays

LEMMA SendScreens ==
  ASSUME Inv, ScreenInv, NEW c \in Clients, NEW req, Scored(req), Send(c, req)
  PROVE  ScreenInv'
<1>1. call = [d \in Clients |-> call[d]]
  BY DEF Inv, ShapeInv
<1>2. PICK v : call' = [call EXCEPT ![c] = [pc |-> "open", req |-> req, status |-> v,
                                            body |-> NoBody, alert |-> FALSE]]
  BY DEF Send
<1>3. \A d \in Clients : call'[d].req = call[d].req \/ Scored(call'[d].req)
  BY <1>1, <1>2
<1> QED
  BY <1>3, ScreenStays DEF Send, servers

LEMMA NextScreens == Inv /\ ScreenInv /\ [Next]_vars => ScreenInv'
<1> SUFFICES ASSUME Inv, ScreenInv, [Next]_vars PROVE ScreenInv'
  OBVIOUS
<1>0. call = [d \in Clients |-> call[d]] /\ \A d \in Clients : IsCall(call[d])
  BY DEF Inv, ShapeInv
<1>1. ASSUME NEW c \in Clients, GatewayStep(c) \/ WriteFails(c) \/ ReviewerApproves(c)
      PROVE  ScreenInv'
  BY <1>1, GatewayScreens
<1>2. ASSUME NEW m \in wire, Execute(m) \/ Refuse(m) PROVE ScreenInv'
  <2>1. m.client \in Clients
    BY DEF Inv, ShapeInv, TypeOK
  <2>2. index' = index /\ wire' = wire \ {m}
    BY <1>2 DEF Execute, Refuse, Answered, servers
  <2>3. \E body : call' = IF call[m.client].pc = "sent" /\ call[m.client].req = m.req
                          THEN [call EXCEPT ![m.client].pc = "returned", ![m.client].body = body]
                          ELSE call
    BY <1>2 DEF Execute, Refuse, Answered
  <2>4. \A c \in Clients : call'[c].req = call[c].req
    BY <1>0, <2>1, <2>3 DEF IsCall
  <2> QED
    BY <2>2, <2>4, ScreenStays
<1>3. CASE GraphRestart \/ OfacRestart
  BY <1>3, ScreenStays DEF GraphRestart, OfacRestart
<1>4. ASSUME NEW r \in Runs, InvestigatorStep(r) \/ GiveUp(r) PROVE ScreenInv'
  <2>1. r \in Clients
    BY AgentIds
  <2>2. CASE CallTool(r)
    <3> DEFINE req == InvestigatorRequest(inv[r])
    <3>1. req.tool = inv[r].pc /\ (inv[r].pc = "check_entity" => req.arg = entity_name)
      BY DEF InvestigatorRequest, Request
    <3>2. inv[r].pc # "check_alias"
      BY <2>2 DEF CallTool, Following
    <3>3. Scored(req)
      BY <3>1, <3>2, ScoreAssumption DEF Scored, SANCTIONS_CHECK_TOOLS
    <3> QED
      BY <2>1, <2>2, <3>3, SendScreens DEF CallTool
  <2>3. CASE Receive(r)
    <3>1. \A c \in Clients : call'[c].req = call[c].req
      BY <1>0, <2>1, <2>3 DEF Receive, IsCall
    <3> QED
      BY <2>3, <3>1, ScreenStays DEF Receive, servers
  <2>4. CASE Assess(r) \/ Report(r) \/ GiveUp(r)
    BY <2>4, ScreenStays DEF Assess, Report, GiveUp, servers
  <2> QED
    BY <1>4, <2>2, <2>3, <2>4 DEF InvestigatorStep
<1>5. ASSUME NEW c \in Others, NEW req \in Wants[c], Send(c, req) PROVE ScreenInv'
  <2>1. c \in Clients /\ Scored(req)
    BY ScoreAssumption DEF Clients, Scored
  <2> QED
    BY <1>5, <2>1, SendScreens
<1>6. CASE Finished \/ UNCHANGED vars
  BY <1>6, ScreenStays DEF Finished, vars
<1> QED
  BY <1>1, <1>2, <1>3, <1>4, <1>5, <1>6 DEF Next

\* On any list and with any scores: check_entity gives the first of the entries of the type with
\* the best name, nothing if nobody has the type, and a match if somebody of that type has the
\* name asked for; check_alias then has a match too, and lists every entry behind each name it
\* gives (ScreeningIsFaithful).
THEOREM ScreeningsAreFaithful == Spec => []ScreeningIsFaithful
<1>1. Init => ScreenInv
  BY DEF Init, ScreenInv, Scored, Request, SANCTIONS_CHECK_TOOLS, None
<1> QED
  BY <1>1, NextScreens, AlwaysInv, ScreenInvSuffices, PTL DEF Spec
=============================================================================
