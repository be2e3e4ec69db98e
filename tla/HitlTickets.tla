---------------------------- MODULE HitlTickets ----------------------------
(***************************************************************************)
(* The HITL ticket queue (session/hitl.py) between the gateway, which      *)
(* creates a ticket and polls it, and the reviewers' CLI (cli/main.py),    *)
(* which lists tickets and decides them.  They share two Redis keys: the   *)
(* ticket's hash, which expires, and the set of pending ids.  Each Redis   *)
(* round trip is a step of its own; the pipeline of create_ticket is one   *)
(* MULTI/EXEC and therefore one step.                                      *)
(*                                                                         *)
(* Time advances in coarse units, of which TIMEOUT is the policy's         *)
(* timeout_seconds and GRACE is TICKET_TTL_GRACE_SECONDS.  The gateway     *)
(* polls every 0.25 s, so a waiter reads its ticket at least once in every *)
(* unit; that is the guard of Tick, and the one timing assumption made.    *)
(***************************************************************************)
EXTENDS Naturals

CONSTANTS
  Tickets,     \* ids create_ticket may draw (uuid4: each is drawn once)
  Reviewers,   \* processes of the reviewers' CLI
  NoReviewer,  \* an undecided ticket's decided_by
  NoTicket,    \* a reviewer who is working on no ticket
  TIMEOUT, GRACE,
  MaxTime      \* bound: the clock stops here

ASSUME HitlAssumption ==
  /\ NoReviewer \notin Reviewers
  /\ NoTicket \notin Tickets
  /\ TIMEOUT \in Nat \ {0} /\ GRACE \in Nat \ {0} /\ MaxTime \in Nat

VARIABLES
  now,      \* the clock
  redis,    \* the ticket hashes
  pending,  \* interpose:hitl:pending
  wait,     \* the gateway's waiter for each ticket
  rev,      \* each reviewer's CLI process
  written,  \* history: the decisions hset has put in a hash, and when
  told      \* history: the decisions the CLI has reported as made

vars == <<now, redis, pending, wait, rev, written, told>>

Decisions == {"APPROVED", "DENIED"}
NEVER     == MaxTime + GRACE + 1   \* expiry time of a key without a TTL

Absent == [status |-> "ABSENT", by |-> NoReviewer, expires |-> 0]
Idle   == [pc |-> "idle", ticket |-> NoTicket, status |-> "PENDING", todo |-> {}]

\* A key past its TTL is gone for every command.
Live(t)     == redis[t].status # "ABSENT" /\ now < redis[t].expires
StatusOf(t) == IF Live(t) THEN redis[t].status ELSE "ABSENT"
Seen(t)     == [status |-> StatusOf(t), by |-> IF Live(t) THEN redis[t].by ELSE NoReviewer]

Unseen == [status |-> "ABSENT", by |-> NoReviewer]

Init ==
  /\ now = 0
  /\ redis = [t \in Tickets |-> Absent]
  /\ pending = {}
  /\ wait = [t \in Tickets |-> [pc |-> "none", deadline |-> 0, at |-> 0, seen |-> Unseen]]
  /\ rev = [r \in Reviewers |-> Idle]
  /\ written = {}
  /\ told = {}

-----------------------------------------------------------------------------
(***************************************************************************)
(* The gateway: create_ticket and wait_for_decision.                       *)
(***************************************************************************)

\* A mutant of PutTicket: the TTL is the timeout alone.
PutTicket_no_grace(t) ==
  /\ now + TIMEOUT <= MaxTime
  /\ redis' = [redis EXCEPT ![t] =
                 [status |-> "PENDING", by |-> NoReviewer, expires |-> now + TIMEOUT]]
  /\ pending' = pending \cup {t}

\* The MULTI/EXEC of create_ticket: hset, expire, sadd.
PutTicket(t) ==
  /\ now + TIMEOUT <= MaxTime
  /\ redis' = [redis EXCEPT ![t] =
                 [status |-> "PENDING", by |-> NoReviewer, expires |-> now + TIMEOUT + GRACE]]
  /\ pending' = pending \cup {t}

\* A mutant of create_ticket: the pipeline is sent again when its reply is late.
create_ticket_retried(t) ==
  /\ wait[t].pc \in {"none", "created"}
  /\ PutTicket(t)
  /\ wait' = [wait EXCEPT ![t].pc = "created", ![t].at = now]
  /\ UNCHANGED <<now, rev, written, told>>

create_ticket(t) ==
  /\ wait[t].pc = "none"
  /\ PutTicket(t)
  /\ wait' = [wait EXCEPT ![t].pc = "created", ![t].at = now]
  /\ UNCHANGED <<now, rev, written, told>>

\* wait_for_decision is entered: the deadline is set.
StartWait(t) ==
  /\ wait[t].pc = "created"
  /\ wait' = [wait EXCEPT ![t].pc = "poll", ![t].deadline = now + TIMEOUT]
  /\ UNCHANGED <<now, redis, pending, rev, written, told>>

\* get_ticket: the hash as Redis has it, which is used only when the reply is in.
PollRead(t) ==
  /\ wait[t].pc = "poll"
  /\ wait' = [wait EXCEPT ![t].pc = "check", ![t].at = now, ![t].seen = Seen(t)]
  /\ UNCHANGED <<now, redis, pending, rev, written, told>>

\* A mutant of PollCheck: only a decision ends the wait.
PollCheck_until_decided(t) ==
  /\ wait[t].pc = "check"
  /\ wait' = [wait EXCEPT ![t].pc =
                IF wait[t].seen.status \in Decisions THEN "returned" ELSE "poll"]
  /\ UNCHANGED <<now, redis, pending, rev, written, told>>

\* The rest of the loop's body: return the ticket, or sleep and poll again.
PollCheck(t) ==
  /\ wait[t].pc = "check"
  /\ wait' = [wait EXCEPT ![t].pc =
                IF wait[t].seen.status # "PENDING" \/ now >= wait[t].deadline
                THEN "returned" ELSE "poll"]
  /\ UNCHANGED <<now, redis, pending, rev, written, told>>

\* The gateway process stops, or Redis fails under it: the ticket stays behind.
WaiterGone(t) ==
  /\ wait[t].pc \in {"created", "poll", "check"}
  /\ wait' = [wait EXCEPT ![t].pc = "gone"]
  /\ UNCHANGED <<now, redis, pending, rev, written, told>>

-----------------------------------------------------------------------------
(***************************************************************************)
(* A reviewer: decide_ticket and list_pending.                             *)
(***************************************************************************)

\* A mutant of DecideRead: the id leaves the pending set before the decision is written.
DecideRead_srem_first(r, t, s) ==
  /\ rev[r].pc = "idle"
  /\ StatusOf(t) = "PENDING"
  /\ rev' = [rev EXCEPT ![r] = [pc |-> "hset", ticket |-> t, status |-> s, todo |-> {}]]
  /\ pending' = pending \ {t}
  /\ UNCHANGED <<now, redis, wait, written, told>>

\* A mutant of DecideRead: the status read is not replaced by the decision.
DecideRead_keeps_status(r, t, s) ==
  /\ rev[r].pc = "idle"
  /\ StatusOf(t) = "PENDING"
  /\ rev' = [rev EXCEPT ![r] = [pc |-> "hset", ticket |-> t, status |-> StatusOf(t), todo |-> {}]]
  /\ UNCHANGED <<now, redis, pending, wait, written, told>>

\* hgetall.  With no such ticket, or one already decided, decide_ticket returns
\* and nothing changes.
DecideRead(r, t, s) ==
  /\ rev[r].pc = "idle"
  /\ StatusOf(t) = "PENDING"
  /\ rev' = [rev EXCEPT ![r] = [pc |-> "hset", ticket |-> t, status |-> s, todo |-> {}]]
  /\ UNCHANGED <<now, redis, pending, wait, written, told>>

\* A mutant of DecideWrite: decided_by is kept if the hash has one already.
DecideWrite_keeps_by(r) ==
  LET t == rev[r].ticket IN
  /\ rev[r].pc = "hset"
  /\ redis' = [redis EXCEPT ![t] =
                 [status  |-> rev[r].status,
                  by      |-> IF redis[t].by = NoReviewer THEN r ELSE redis[t].by,
                  expires |-> IF Live(t) THEN redis[t].expires ELSE NEVER]]
  /\ written' = written \cup {[ticket |-> t, by |-> r, status |-> rev[r].status, at |-> now]}
  /\ rev' = [rev EXCEPT ![r].pc = "srem"]
  /\ UNCHANGED <<now, pending, wait, told>>

\* hset with the whole mapping.  On a key that has expired it makes a new one,
\* and that one has no TTL.
DecideWrite(r) ==
  LET t == rev[r].ticket IN
  /\ rev[r].pc = "hset"
  /\ redis' = [redis EXCEPT ![t] =
                 [status  |-> rev[r].status,
                  by      |-> r,
                  expires |-> IF Live(t) THEN redis[t].expires ELSE NEVER]]
  /\ written' = written \cup {[ticket |-> t, by |-> r, status |-> rev[r].status, at |-> now]}
  /\ rev' = [rev EXCEPT ![r].pc = "srem"]
  /\ UNCHANGED <<now, pending, wait, told>>

\* srem; decide_ticket returns (ticket, True) and the CLI says so.
DecideSrem(r) ==
  /\ rev[r].pc = "srem"
  /\ pending' = pending \ {rev[r].ticket}
  /\ told' = told \cup {[ticket |-> rev[r].ticket, by |-> r, status |-> rev[r].status]}
  /\ rev' = [rev EXCEPT ![r] = Idle]
  /\ UNCHANGED <<now, redis, wait, written>>

\* smembers
ListStart(r) ==
  /\ rev[r].pc = "idle"
  /\ pending # {}
  /\ rev' = [rev EXCEPT ![r] = [Idle EXCEPT !.pc = "list", !.todo = pending]]
  /\ UNCHANGED <<now, redis, pending, wait, written, told>>

\* hgetall of one listed id; one whose hash is gone is to be dropped.
ListCheck(r, t) ==
  /\ rev[r].pc = "list"
  /\ t \in rev[r].todo
  /\ LET rest == rev[r].todo \ {t} IN
     rev' = [rev EXCEPT ![r] =
               IF ~ Live(t)      THEN [pc |-> "drop", ticket |-> t, status |-> "PENDING", todo |-> rest]
               ELSE IF rest = {} THEN Idle
               ELSE [Idle EXCEPT !.pc = "list", !.todo = rest]]
  /\ UNCHANGED <<now, redis, pending, wait, written, told>>

\* srem of the stale id
ListDrop(r) ==
  /\ rev[r].pc = "drop"
  /\ pending' = pending \ {rev[r].ticket}
  /\ rev' = [rev EXCEPT ![r] = IF rev[r].todo = {} THEN Idle
                               ELSE [Idle EXCEPT !.pc = "list", !.todo = rev[r].todo]]
  /\ UNCHANGED <<now, redis, wait, written, told>>

\* The CLI process ends anywhere between two round trips.
ReviewerGone(r) ==
  /\ rev[r].pc # "idle"
  /\ rev' = [rev EXCEPT ![r] = Idle]
  /\ UNCHANGED <<now, redis, pending, wait, written, told>>

-----------------------------------------------------------------------------
Waiting(t) == wait[t].pc \in {"created", "poll", "check"}

Tick ==
  /\ now < MaxTime
  /\ \A t \in Tickets : Waiting(t) => wait[t].pc # "created" /\ wait[t].at = now
  /\ now' = now + 1
  /\ UNCHANGED <<redis, pending, wait, rev, written, told>>

\* The clock is at its bound and every waiter has come to an end.
Stopped ==
  /\ now = MaxTime
  /\ \A t \in Tickets : ~ Waiting(t)
  /\ UNCHANGED vars

GatewayStep(t)  == create_ticket(t) \/ StartWait(t) \/ PollRead(t) \/ PollCheck(t) \/ WaiterGone(t)
ReviewerStep(r) ==
  \/ \E t \in Tickets, s \in Decisions : DecideRead(r, t, s)
  \/ DecideWrite(r) \/ DecideSrem(r)
  \/ ListStart(r) \/ (\E t \in Tickets : ListCheck(r, t)) \/ ListDrop(r)
  \/ ReviewerGone(r)

Next ==
  \/ \E t \in Tickets : GatewayStep(t)
  \/ \E r \in Reviewers : ReviewerStep(r)
  \/ Tick
  \/ Stopped

Spec == Init /\ [][Next]_vars

\* The clock goes on, and the event loop runs a waiter that can run.  Reviewers
\* owe nothing.
Fairness ==
  /\ WF_vars(Tick)
  /\ \A t \in Tickets : WF_vars(StartWait(t)) /\ WF_vars(PollRead(t)) /\ WF_vars(PollCheck(t))

FairSpec == Spec /\ Fairness

-----------------------------------------------------------------------------
(***************************************************************************)
(* Properties                                                              *)
(***************************************************************************)

Outcome(t) == wait[t].seen   \* what wait_for_decision returns, once it has

Statuses      == {"ABSENT", "PENDING"} \cup Decisions
Hash          == [status : Statuses, by : Reviewers \cup {NoReviewer}, expires : Nat]
WaiterState   == [pc : {"none", "created", "poll", "check", "returned", "gone"},
                  deadline : Nat, at : 0..MaxTime,
                  seen : [status : Statuses, by : Reviewers \cup {NoReviewer}]]
ReviewerState == [pc : {"idle", "hset", "srem", "list", "drop"},
                  ticket : Tickets \cup {NoTicket},
                  status : {"PENDING"} \cup Decisions,
                  todo : SUBSET Tickets]
Decision      == [ticket : Tickets, by : Reviewers, status : Decisions, at : 0..MaxTime]

\* Every variable keeps its type: in particular only the two decisions are ever
\* written to a hash by a reviewer or reported by the CLI.
TypeOK ==
  /\ now \in 0..MaxTime
  /\ redis \in [Tickets -> Hash]
  /\ pending \subseteq Tickets
  /\ wait \in [Tickets -> WaiterState]
  /\ rev \in [Reviewers -> ReviewerState]
  /\ written \subseteq Decision
  /\ told \subseteq [ticket : Tickets, by : Reviewers, status : Decisions]

\* The decision the gateway acts on, and writes to the audit log with the
\* reviewer's name, is one that this reviewer made on this ticket, even when
\* reviewers overwrite each other.
OutcomeIsAttributed ==
  \A t \in Tickets : Outcome(t).status \in Decisions =>
    \E d \in written : d.ticket = t /\ d.by = Outcome(t).by /\ d.status = Outcome(t).status

\* A ticket that can still be decided is in the set `review list` reads: neither
\* the creation, nor the clean-up of stale ids, nor a decision cut short loses it.
PendingIsListed == \A t \in Tickets : StatusOf(t) = "PENDING" => t \in pending

\* The grace period is enough.  The gateway reports a timeout only after the deadline,
\* and only if no decision was written more than one poll before it: a ticket decided at
\* the buzzer is still readable.  A decision that comes after the ticket expired makes its
\* hash anew, without the TTL that hitl.py's docstring gives every ticket; but it is a
\* decided ticket, and one that no waiter will read.
GraceIsEnough ==
  /\ \A t \in Tickets : wait[t].pc = "returned" /\ Outcome(t).status \notin Decisions =>
       /\ now >= wait[t].deadline
       /\ Outcome(t).status = "PENDING"
       /\ \A d \in written : d.ticket = t => d.at + 1 >= wait[t].deadline
  /\ \A t \in Tickets : redis[t].expires = NEVER =>
       redis[t].status \in Decisions /\ wait[t].pc \notin {"created", "poll"}

\* A ticket that was decided, or is gone, is never PENDING again, whatever a
\* reviewer read before.
NoReopening ==
  [][\A t \in Tickets : wait[t].pc # "none" /\ StatusOf(t) # "PENDING"
                          => StatusOf(t)' # "PENDING"]_vars

\* Every held request is answered: the wait ends with or without a decision.
WaitEnds == \A t \in Tickets : Waiting(t) ~> ~ Waiting(t)

(***************************************************************************)
(* What a help text says, which the code does not keep.                    *)
(***************************************************************************)

\* `review deny`: "it will never be forwarded" (once the CLI has said so).
DeniedIsNeverForwarded ==
  \A d \in told : d.status = "DENIED" =>
    ~ (wait[d.ticket].pc = "returned" /\ Outcome(d.ticket).status = "APPROVED")
=============================================================================
