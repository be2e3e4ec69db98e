--------------------------- MODULE MCPolicyEngine ---------------------------
(* PolicyEngine on small instances. *)
EXTENDS PolicyEngine

Policy(name, effect, server, tools) ==
  [name |-> name, effect |-> effect, server |-> server, tools |-> tools,
   stage |-> "request", fn |-> "f", known |-> TRUE, limit |-> 1, window |-> 2, patterns |-> {},
   tags |-> {name}]
Scan  == "hello_echo_prompt_injection_scan"
Alert == "aml_structuring_alert"

\* One policy of every effect for the tool "a", with the variants that matter:
\* an allowlist for the server and for every server, a custom policy that is not
\* registered, the two functions of the response stage and one more that is not registered,
\* two redactions, one of them with a name that is no pattern, and one policy for both tools.
Sample == {
  Policy("allow", "allowlist", "s", {"a"}),
  Policy("allowall", "allowlist", "*", {"a"}),
  Policy("deny", "denylist", "s", {"a"}),
  Policy("rate", "rate_limit", "*", {"*"}),
  Policy("custom", "custom", "s", {"a"}),
  [Policy("typo", "custom", "s", {"a"}) EXCEPT !.known = FALSE],
  [Policy("scan", "custom", "*", {"*"}) EXCEPT !.stage = "response", !.fn = Scan],
  [Policy("alert", "custom", "s", {"a"}) EXCEPT !.stage = "response", !.fn = Alert],
  [Policy("late", "custom", "s", {"a"}) EXCEPT !.stage = "response", !.known = FALSE],
  [Policy("pii", "pii_redaction", "*", {"*"}) EXCEPT !.patterns = {"ssn", "iban"}],
  [Policy("cards", "pii_redaction", "s", {"a"}) EXCEPT !.patterns = {"credit_card"}],
  Policy("gate", "hitl_gate", "s", {"*"}),
  Policy("cap", "cost_cap", "s", {"a"}),
  Policy("tag", "tag_only", "*", {"*"}) }

\* Every pack of up to n of them, in every order.
PacksUpTo(n) == {pk \in UNION {[1..k -> Sample] : k \in 0..n} :
                   \A i, j \in DOMAIN pk : i # j => pk[i] # pk[j]}

\* Two rate limits over the same tool, one of which also covers the other tool.
RatePacks == {
  <<[Policy("r1", "rate_limit", "s", {"a"}) EXCEPT !.limit = 1],
    [Policy("r2", "rate_limit", "s", {"*"}) EXCEPT !.limit = 2]>> }

\* Pairs, together with the overlapping rate limits.
PairPacks == PacksUpTo(2) \cup RatePacks

Leaf(place, text, has) == [place |-> place, text |-> text, has |-> has]
Reply(kind, leaves)    == [kind |-> kind, leaves |-> leaves]

\* Results with secrets in a string, in a number and next to what the functions look for,
\* in either part of the result; an error and an unreadable answer that hold a secret too.
MCReplies == {
  Reply("result", {Leaf("content", TRUE, {"ssn", "credit_card", "injection"}),
                   Leaf("structuredContent", FALSE, {"credit_card", "flagged"})}),
  Reply("result", {Leaf("structuredContent", TRUE, {"ssn", "injection", "iban"})}),
  Reply("rpc_error", {Leaf("content", TRUE, {"ssn"})}),
  Reply("garbled", {Leaf("content", TRUE, {"ssn", "injection"})}) }

BothTools == {"a", "b"}

\* No policy names a subject.
SubjectSymmetry == Permutations(Subjects)
=============================================================================
