--------------------------- MODULE GovernedCalls ---------------------------
(***************************************************************************)
(* What the gateway promises about tool calls: a call is allowed or        *)
(* refused at most once and never both, and the upstream server acts on a  *)
(* call only when it has been allowed, at most once.  A call may also stay *)
(* undecided for ever (the gateway stopped, or a store it needs failed).   *)
(* GatewayCalls implements this specification.                             *)
(***************************************************************************)
CONSTANTS
  Calls     \* the tools/call requests

VARIABLES
  verdict,  \* "undecided", "allowed" or "refused", for each call
  effect    \* whether the upstream server has carried the call out

Init ==
  /\ verdict = [c \in Calls |-> "undecided"]
  /\ effect = [c \in Calls |-> FALSE]

Decide(c, v) ==
  /\ verdict[c] = "undecided"
  /\ verdict' = [verdict EXCEPT ![c] = v]
  /\ UNCHANGED effect

Execute(c) ==
  /\ verdict[c] = "allowed"
  /\ ~ effect[c]
  /\ effect' = [effect EXCEPT ![c] = TRUE]
  /\ UNCHANGED verdict

Next == \E c \in Calls : (\E v \in {"allowed", "refused"} : Decide(c, v)) \/ Execute(c)

Spec == Init /\ [][Next]_<<verdict, effect>>
=============================================================================
