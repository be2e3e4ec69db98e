---------------------------- MODULE PolicyEngine ----------------------------
(***************************************************************************)
(* The policy engine (policies/policyset.py, with the schema of            *)
(* policies/schema.py) and the gateway's fail-closed wrappers around it:   *)
(* _evaluate_policy_set for a request, _forward_buffered for its answer.   *)
(* One server; several tools, and subjects (agents) that call them.  The   *)
(* pack is fixed when the gateway starts, so it makes no difference when a *)
(* PolicySet is compiled into the cache: here, all of them at the start.   *)
(*                                                                         *)
(* evaluate awaits only inside custom policies, after the rate limiter has *)
(* been updated, and uses no shared state afterwards: one step.            *)
(* evaluate_response keeps no state at all.                                *)
(***************************************************************************)
EXTENDS Naturals, Sequences, FiniteSets, FiniteSetsExt, SequencesExt

CONSTANTS
  Subjects,   \* agent ids
  Tools,      \* tools of the server "s"
  Packs,      \* packs that may be loaded: sequences of policies, names distinct
  Replies,    \* what the upstream server may answer
  MaxTime,    \* bound: the clock stops here
  MaxCalls,   \* bound: calls evaluated
  MaxReplies  \* bound: the first calls, whose answers are looked at

(***************************************************************************)
(* A policy: its name, where it applies, its effect, and what the effect   *)
(* needs.  A custom policy's function (fn) passes, denies or raises; one   *)
(* that is not registered (known) always raises.  tags is audit.tag.       *)
(*                                                                         *)
(* An answer: a result, a JSON-RPC error, or something that does not       *)
(* parse.  A result is a set of leaves: where each is, whether it is a     *)
(* string value (or else a number, a Boolean, the key of an object), and   *)
(* what can be found in it.                                                *)
(***************************************************************************)
EFFECT_ORDER == <<"tag_only", "allowlist", "denylist", "rate_limit", "custom", "hitl_gate",
                  "cost_cap", "pii_redaction">>

\* What validation accepts.
IsPolicy(p) ==
  /\ p.effect \in ToSet(EFFECT_ORDER)
  /\ p.effect = "rate_limit" => p.limit \in Nat \ {0} /\ p.window \in Nat \ {0}
  /\ p.effect = "custom" => p.stage \in {"request", "response"}

\* A pack that loads: the names are distinct and every policy is valid.
load_policy_pack(pk) ==
  /\ \A i, j \in DOMAIN pk : pk[i].name = pk[j].name => i = j
  /\ \A i \in DOMAIN pk : IsPolicy(pk[i])

ASSUME PackAssumption ==
  /\ MaxTime \in Nat /\ MaxCalls \in Nat /\ MaxReplies \in Nat
  /\ \A pk \in Packs : load_policy_pack(pk)

\* The answers, as described above.
ASSUME ReplyAssumption ==
  \A r \in Replies :
    /\ r = [kind |-> r.kind, leaves |-> r.leaves] /\ r.kind \in {"result", "rpc_error", "garbled"}
    /\ \A l \in r.leaves : /\ l = [place |-> l.place, text |-> l.text, has |-> l.has]
                            /\ l.text \in BOOLEAN

VARIABLES
  pack,      \* the loaded pack
  cache,     \* PolicyEngine._cache: the compiled PolicySet of each tool
  now,       \* the limiter's clock
  windows,   \* RateLimiter._windows: <<policy, subject>> -> count and start; count 0: no entry
  admitted,  \* history: the times of the calls each limiter key let through
  last,      \* the latest decision, and what it was about
  resp,      \* what became of the answer to that call
  calls      \* calls evaluated so far

vars == <<pack, cache, now, windows, admitted, last, resp, calls>>

Keys(pk)  == {pk[i].name : i \in {j \in DOMAIN pk : pk[j].effect = "rate_limit"}} \X Subjects

\* Custom policies whose function is called with the request.
Registered(pk) == {pk[i].name : i \in {j \in DOMAIN pk :
                    pk[j].effect = "custom" /\ pk[j].stage = "request" /\ pk[j].known}}

matches(p, tool) == p.server \in {"*", "s"} /\ ("*" \in p.tools \/ tool \in p.tools)

\* A compiled PolicySet is kept as the applicable policies' positions in the pack; it is
\* ordered by Precedes.
compile(pk, tool) == {i \in DOMAIN pk : matches(pk[i], tool)}

\* The stable sort of compile: grouped by effect, in pack order within a group.
Precedes(i, j) ==
  LET rank(k) == CHOOSE n \in DOMAIN EFFECT_ORDER : EFFECT_ORDER[n] = pack[k].effect
  IN  rank(i) < rank(j) \/ (rank(i) = rank(j) /\ i < j)

HasEffect(ps, e) == \E i \in ps : pack[i].effect = e

\* An allowlist of the server "*" does not turn default-deny on for "s".
server_has_allowlist(pk) ==
  \E i \in DOMAIN pk : pk[i].effect = "allowlist" /\ pk[i].server = "s"

-----------------------------------------------------------------------------
(***************************************************************************)
(* RateLimiter                                                             *)
(***************************************************************************)

\* A mutant of check_and_increment: every call starts the window anew.
check_and_increment_sliding(w, p) ==
  IF w.count = 0 \/ now - w.start >= p.window
  THEN [count |-> 1, start |-> now]
  ELSE [count |-> w.count + 1, start |-> now]

\* A mutant of check_and_increment: the call that opens a window is not counted.
check_and_increment_uncounted(w, p) ==
  IF w.count = 0 \/ now - w.start >= p.window
  THEN [count |-> 0, start |-> now]
  ELSE [w EXCEPT !.count = @ + 1]

\* A mutant of check_and_increment: the end of the window is kept as its start.
check_and_increment_end(w, p) ==
  IF w.count = 0 \/ now >= w.start
  THEN [count |-> 1, start |-> now + p.window]
  ELSE [w EXCEPT !.count = @ + 1]

\* The window after one more call, which is let through if count <= limit.
check_and_increment(w, p) ==
  IF w.count = 0 \/ now - w.start >= p.window
  THEN [count |-> 1, start |-> now]
  ELSE [w EXCEPT !.count = @ + 1]

\* The rate-limit loop for one call: it stops at the first policy over its limit,
\* having counted the call against every policy up to and including that one.
RateLoop(ps, subject) ==
  LET limits  == {i \in ps : pack[i].effect = "rate_limit"}
      after   == [i \in limits |->
                    check_and_increment(windows[<<pack[i].name, subject>>], pack[i])]
      over    == {i \in limits : after[i].count > pack[i].limit}
      counted == {i \in limits : \A j \in over : ~ Precedes(j, i)}
      hit(k)  == {i \in counted : <<pack[i].name, subject>> = k}
  IN [denied_by |-> {pack[i].name : i \in counted \cap over},
      windows   |-> [k \in Keys(pack) |-> IF hit(k) = {} THEN windows[k]
                                          ELSE after[CHOOSE i \in hit(k) : TRUE]],
      admitted  |-> [k \in Keys(pack) |->
                       IF hit(k) \subseteq over THEN admitted[k] ELSE Append(admitted[k], now)]]

-----------------------------------------------------------------------------
(***************************************************************************)
(* PolicySet.evaluate: a list of checks, of which the first that fires     *)
(* decides.  custom maps each custom policy to what its function does.     *)
(* An exception anywhere is a DENY of the gateway.                         *)
(***************************************************************************)
Verdict(outcome, reason) == [outcome |-> outcome, reason |-> reason]
Raised == Verdict("DENY", "policy_engine_error")

CustomResult(p, custom) == IF p.known THEN custom[p.name] ELSE "raise"

\* The loop over the request-side custom policies, which ends at the first that
\* does not pass.
CustomCheck(ps, custom) ==
  LET objects == {i \in ps : /\ pack[i].effect = "custom" /\ pack[i].stage = "request"
                             /\ CustomResult(pack[i], custom) # "pass"}
      first   == CHOOSE i \in objects : \A j \in objects : ~ Precedes(j, i)
  IN [fires |-> objects # {},
      gives |-> IF objects # {} /\ CustomResult(pack[first], custom) = "deny"
                THEN Verdict("DENY", "custom") ELSE Raised]

\* A mutant of Checks: the review gate is looked at before the custom policies.
Checks_hold_first(ps, default_deny, over_limit, custom) ==
  <<[fires |-> HasEffect(ps, "allowlist"), gives |-> Verdict("PASS", "allowlisted")],
    [fires |-> default_deny,               gives |-> Verdict("DENY", "not_on_allowlist")],
    [fires |-> HasEffect(ps, "denylist"),  gives |-> Verdict("DENY", "denylisted")],
    [fires |-> over_limit,                 gives |-> Verdict("DENY", "rate_limit_exceeded")],
    [fires |-> HasEffect(ps, "hitl_gate"), gives |-> Verdict("HOLD", "hitl_required")],
    CustomCheck(ps, custom),
    [fires |-> HasEffect(ps, "cost_cap"),  gives |-> Raised],
    [fires |-> TRUE,                       gives |-> Verdict("PASS", "none")]>>

Checks(ps, default_deny, over_limit, custom) ==
  <<[fires |-> HasEffect(ps, "allowlist"), gives |-> Verdict("PASS", "allowlisted")],
    [fires |-> default_deny,               gives |-> Verdict("DENY", "not_on_allowlist")],
    [fires |-> HasEffect(ps, "denylist"),  gives |-> Verdict("DENY", "denylisted")],
    [fires |-> over_limit,                 gives |-> Verdict("DENY", "rate_limit_exceeded")],
    CustomCheck(ps, custom),
    [fires |-> HasEffect(ps, "hitl_gate"), gives |-> Verdict("HOLD", "hitl_required")],
    [fires |-> HasEffect(ps, "cost_cap"),  gives |-> Raised],
    [fires |-> TRUE,                       gives |-> Verdict("PASS", "none")]>>

\* The position of the rate limits in the list: a decision before it leaves the
\* limiter alone.
RATE_CHECK == 4

NoResponse == [status |-> "none", sent |-> {}, body |-> {}, tags |-> {}, redis_up |-> TRUE]

\* The position of the check that decides.
FirstToFire(checks) == Min({i \in DOMAIN checks : checks[i].fires})

Evaluate(subject, tool) ==
  /\ calls < MaxCalls
  /\ \E custom \in [Registered(pack) -> {"pass", "deny", "raise"}] :
       LET ps      == cache[tool]
           rate    == RateLoop(ps, subject)
           checks  == Checks(ps, server_has_allowlist(pack), rate.denied_by # {}, custom)
           decides == FirstToFire(checks)
       IN /\ windows'  = IF decides < RATE_CHECK THEN windows  ELSE rate.windows
          /\ admitted' = IF decides < RATE_CHECK THEN admitted ELSE rate.admitted
          /\ last' = [tool |-> tool, subject |-> subject, at |-> now, custom |-> custom,
                      verdict |-> checks[decides].gives,
                      limiter |-> IF decides < RATE_CHECK THEN {} ELSE rate.denied_by]
  /\ calls' = calls + 1
  /\ resp' = NoResponse
  /\ UNCHANGED <<pack, cache, now>>

-----------------------------------------------------------------------------
(***************************************************************************)
(* The response side                                                       *)
(***************************************************************************)

PII_PATTERNS == {"ssn", "credit_card", "bank_account"}

\* A name that is no pattern is skipped.
redact_text(has, names) == has \ (names \cap PII_PATTERNS)

\* Every string leaf, wherever it is; numbers and the keys of objects stay.
redact_json_value(leaves, names) ==
  {IF l.text THEN [l EXCEPT !.has = redact_text(@, names)] ELSE l : l \in leaves}

static_tags(ps) == UNION {pack[i].tags : i \in ps}

IsResponseCustom(p) == p.effect = "custom" /\ p.stage = "response"

\* A mutant of has_response_side_policies: only redaction needs the whole answer.
has_response_side_policies_pii(ps) == HasEffect(ps, "pii_redaction")

has_response_side_policies(ps) ==
  HasEffect(ps, "pii_redaction") \/ \E i \in ps : IsResponseCustom(pack[i])

\* The tags of the two registered functions, which look at structuredContent as it came.
response_policy(fn, leaves) ==
  LET structured == {l \in leaves : l.place = "structuredContent"}
  IN  CASE fn = "hello_echo_prompt_injection_scan" ->
             {"prompt-injection-detected" : l \in {k \in structured : k.text /\ "injection" \in k.has}}
        [] fn = "aml_structuring_alert" ->
             {"incident:structuring" : l \in {k \in structured : "flagged" \in k.has}}

\* The second of them also sets a flag in Redis when it finds something.
ResponseRaises(p, leaves, redis_up) ==
  \/ ~ p.known
  \/ p.fn = "aml_structuring_alert" /\ response_policy(p.fn, leaves) # {} /\ ~ redis_up

\* A mutant of evaluate_response: the last redaction policy's patterns are the only ones.
evaluate_response_last_patterns(ps, leaves, redis_up) ==
  LET redacting == {i \in ps : pack[i].effect = "pii_redaction"}
      customs   == {pack[i] : i \in {j \in ps : IsResponseCustom(pack[j])}}
  IN [raises  |-> \E p \in customs : ResponseRaises(p, leaves, redis_up),
      payload |-> IF redacting = {} THEN leaves
                  ELSE redact_json_value(leaves, pack[Max(redacting)].patterns),
      tags    |-> UNION {response_policy(p.fn, leaves) : p \in {q \in customs : q.known}}]

\* Redaction by every pattern of every policy, then the functions.
evaluate_response(ps, leaves, redis_up) ==
  LET names   == UNION {pack[i].patterns : i \in {j \in ps : pack[j].effect = "pii_redaction"}}
      customs == {pack[i] : i \in {j \in ps : IsResponseCustom(pack[j])}}
  IN [raises  |-> \E p \in customs : ResponseRaises(p, leaves, redis_up),
      payload |-> redact_json_value(leaves, names),
      tags    |-> UNION {response_policy(p.fn, leaves) : p \in {q \in customs : q.known}}]

\* The answer, the status of the row that closes the call, and its tags.
Completed(body, tags) == [status |-> "COMPLETED", body |-> {body}, tags |-> tags]
ResponsePolicyError(tags) == [status |-> "UPSTREAM_ERROR", body |-> {}, tags |-> tags]

\* A mutant of Governed: an answer that cannot be governed is passed on.
Governed_fails_open(ps, reply, redis_up) ==
  LET result == evaluate_response(ps, reply.leaves, redis_up)
  IN  IF reply.kind = "result" /\ ~ result.raises
      THEN Completed([reply EXCEPT !.leaves = result.payload], static_tags(ps) \cup result.tags)
      ELSE Completed(reply, static_tags(ps))

\* _forward_buffered: only a result is looked into; what does not parse, like a policy
\* that raises, replaces the answer by an error.
Governed(ps, reply, redis_up) ==
  LET result == evaluate_response(ps, reply.leaves, redis_up)
  IN  CASE reply.kind = "garbled"   -> ResponsePolicyError(static_tags(ps))
        [] reply.kind = "rpc_error" -> Completed(reply, static_tags(ps))
        [] OTHER -> IF result.raises THEN ResponsePolicyError(static_tags(ps))
                    ELSE Completed([reply EXCEPT !.leaves = result.payload],
                                   static_tags(ps) \cup result.tags)

\* The answer to a call that was let through, at once or by a reviewer.  Without a
\* response-side policy it is streamed as it comes.
Respond ==
  /\ calls \in 1..MaxReplies /\ resp = NoResponse
  /\ last.verdict.outcome \in {"PASS", "HOLD"}
  /\ \E reply \in Replies, redis_up \in BOOLEAN :
       LET ps  == cache[last.tool]
           out == IF has_response_side_policies(ps) THEN Governed(ps, reply, redis_up)
                  ELSE Completed(reply, static_tags(ps))
       IN  resp' = [status |-> out.status, sent |-> {reply}, body |-> out.body, tags |-> out.tags,
                    redis_up |-> redis_up]
  /\ UNCHANGED <<pack, cache, now, windows, admitted, last, calls>>

-----------------------------------------------------------------------------
Tick == now < MaxTime /\ now' = now + 1 /\ UNCHANGED <<pack, cache, windows, admitted, last, resp, calls>>

NoDecision == [tool |-> "none", subject |-> "none", at |-> 0, custom |-> <<>>,
               verdict |-> Verdict("none", "none"), limiter |-> {}]

Init ==
  /\ pack \in Packs
  /\ cache = [t \in Tools |-> compile(pack, t)]
  /\ now = 0
  /\ windows = [k \in Keys(pack) |-> [count |-> 0, start |-> 0]]
  /\ admitted = [k \in Keys(pack) |-> <<>>]
  /\ last = NoDecision
  /\ resp = NoResponse
  /\ calls = 0

\* The bounds are reached.
Exhausted == calls = MaxCalls /\ now = MaxTime /\ UNCHANGED vars

Next == (\E s \in Subjects, t \in Tools : Evaluate(s, t)) \/ Respond \/ Tick \/ Exhausted

Spec == Init /\ [][Next]_vars

-----------------------------------------------------------------------------
(***************************************************************************)
(* Properties                                                              *)
(***************************************************************************)

Outcomes == {"PASS", "DENY", "HOLD"}
Policies == {pack[i] : i \in DOMAIN pack}
Applicable == {p \in Policies : matches(p, last.tool)}

\* Every variable keeps its type; a window starts at a time that has come.  (Checked
\* with BurstBound.)
TypeOK ==
  /\ pack \in Packs /\ now \in 0..MaxTime /\ calls \in 0..MaxCalls
  /\ windows \in [Keys(pack) -> [count : 0..calls, start : 0..now]]
  /\ DOMAIN admitted = Keys(pack) /\ \A k \in Keys(pack) : ToSet(admitted[k]) \subseteq 0..now
  /\ last = NoDecision \/ last.verdict.outcome \in Outcomes
  /\ resp.status \in {"none", "COMPLETED", "UPSTREAM_ERROR"}

\* What one policy alone asks for.
Asks(p) ==
  CASE p.effect = "denylist"  -> "DENY"
    [] p.effect = "hitl_gate" -> "HOLD"
    [] p.effect = "custom" /\ p.stage = "request" ->
         IF CustomResult(p, last.custom) = "pass" THEN "PASS" ELSE "DENY"
    [] p.effect = "rate_limit" -> IF p.name \in last.limiter THEN "DENY" ELSE "PASS"
    [] OTHER -> "PASS"

\* Whatever the order of the pack: an allowlisted call passes; on a server with an
\* allowlist nothing else does; otherwise the strictest demand among the policies
\* decides, and a policy that fails demands DENY.  A cost_cap, which evaluate cannot
\* enforce yet, refuses what would otherwise have passed, and nothing else: a call
\* that an allowlist or a review gate has decided never comes to it.
StrictestWins ==
  last # NoDecision =>
    LET asked  == {Asks(p) : p \in Applicable}
        capped == \E p \in Applicable : p.effect = "cost_cap"
    IN last.verdict.outcome =
      IF \E p \in Applicable : p.effect = "allowlist" THEN "PASS"
      ELSE IF \E p \in Policies : p.effect = "allowlist" /\ p.server = "s" THEN "DENY"
      ELSE IF "DENY" \in asked THEN "DENY"
      ELSE IF "HOLD" \in asked THEN "HOLD"
      ELSE IF capped THEN "DENY" ELSE "PASS"

Passed(k, from, to) == Cardinality({i \in DOMAIN admitted[k] : admitted[k][i] \in from..to})

\* A window opens with a call that is let through, so any stretch of time as long as
\* the window holds fewer than twice the limit, wherever it begins: one that reaches
\* into a second window has missed the call that opened the first.  The types, of the
\* windows above all, hold as well.
BurstBound ==
  /\ TypeOK
  /\ \A p \in Policies, s \in Subjects, t \in 0..MaxTime :
       p.effect = "rate_limit" => Passed(<<p.name, s>>, t, t + p.window - 1) < 2 * p.limit

\* A call is turned away by a rate limit only if the same subject used the limit up
\* within the last window: nobody pays for another subject's calls, and calls that
\* were turned away do not prolong the wait.
RateDenialIsEarned ==
  \A p \in Policies : p.name \in last.limiter =>
    LET from == IF last.at + 1 > p.window THEN last.at + 1 - p.window ELSE 0
    IN  Passed(<<p.name, last.subject>>, from, last.at) >= p.limit

\* No answer to a governed call reaches the agent ungoverned, whichever of the applicable
\* policies there are and in whatever order: in a result that is passed on, no string holds
\* what any of them redacts and nothing else is missing, whatever a response-side function
\* finds in the answer as it came is tagged, and the row bears every policy's own tags.
\* When one of the functions cannot be run, or the answer cannot be read, the agent gets
\* none of it.
ResponseIsGoverned ==
  resp # NoResponse =>
    LET reply   == CHOOSE r \in resp.sent : TRUE
        redacts == {p \in Applicable : p.effect = "pii_redaction"}
        secret  == PII_PATTERNS \cap UNION {p.patterns : p \in redacts}
        customs == {p \in Applicable : p.effect = "custom" /\ p.stage = "response"}
        governs == customs # {} \/ redacts # {}
        broken  == \E p \in customs :
                     \/ ~ p.known
                     \/ /\ p.fn = "aml_structuring_alert" /\ ~ resp.redis_up
                        /\ \E l \in reply.leaves : l.place = "structuredContent" /\ "flagged" \in l.has
    IN  /\ UNION {p.tags : p \in Applicable} \subseteq resp.tags
        /\ resp.body = {} <=> governs /\ (reply.kind = "garbled" \/ (reply.kind = "result" /\ broken))
        /\ resp.body = {} <=> resp.status = "UPSTREAM_ERROR"
        /\ \A b \in resp.body : b.kind = "result" =>
             /\ \A l \in b.leaves : l.text => l.has \cap secret = {}
             /\ \A l \in reply.leaves : \E k \in b.leaves :
                  /\ k.place = l.place /\ k.text = l.text
                  /\ k.has \subseteq l.has /\ l.has \ k.has \subseteq secret
             /\ \A p \in customs : response_policy(p.fn, reply.leaves) \subseteq resp.tags
=============================================================================
