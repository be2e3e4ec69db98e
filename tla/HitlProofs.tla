----------------------------- MODULE HitlProofs -----------------------------
(***************************************************************************)
(* Theorems about HitlTickets, for any number of tickets and reviewers,    *)
(* any timeout, any grace period and any length of time.                   *)
(***************************************************************************)
EXTENDS HitlTickets, TLAPS

Created(t) == wait[t].pc # "none"

(***************************************************************************)
(* The inductive invariant, in four parts.                                 *)
(***************************************************************************)

\* Only created tickets are anywhere: in Redis, in the pending set, in the hands
\* of a reviewer, or decided.
KnownInv ==
  /\ \A t \in Tickets : Created(t) <=> redis[t].status # "ABSENT"
  /\ \A t \in pending : Created(t)
  /\ \A r \in Reviewers : \A t \in rev[r].todo : Created(t)
  /\ \A d \in written : Created(d.ticket)

\* What a reviewer's process knows between two round trips.  A ticket it is about to
\* drop from the pending set is not open, and will not be again.
ReviewerInv ==
  \A r \in Reviewers : rev[r].pc \in {"hset", "srem", "drop"} =>
    /\ rev[r].ticket \in Tickets /\ Created(rev[r].ticket)
    /\ rev[r].pc \in {"hset", "srem"} => rev[r].status \in Decisions
    /\ rev[r].pc \in {"srem", "drop"} => StatusOf(rev[r].ticket) # "PENDING"

\* A hash holds a decision exactly if one was written, and it is one of those.
DecisionInv ==
  /\ \A t \in Tickets : redis[t].status \in Decisions =>
       \E d \in written : d.ticket = t /\ d.by = redis[t].by /\ d.status = redis[t].status
  /\ \A d \in written : redis[d.ticket].status \in Decisions

\* The clock and one waiter.  It has read its ticket within the last unit, and not
\* after the deadline but for the last time; so the hash outlives the wait.
WaiterInv(t) ==
  LET w == wait[t] IN
  /\ w.pc = "created" => /\ w.at = now /\ now + TIMEOUT <= MaxTime
                         /\ redis[t].expires = now + TIMEOUT + GRACE
  /\ w.pc \in {"poll", "check"} =>
       /\ w.at <= now /\ now <= w.at + 1
       /\ w.deadline <= MaxTime
       /\ now < w.deadline + GRACE => redis[t].expires = w.deadline + GRACE
  /\ w.pc = "poll"  => w.at < w.deadline
  /\ w.pc = "check" => /\ w.at <= w.deadline
                       /\ w.seen.status # "ABSENT"
                       /\ w.seen.status = "PENDING" =>
                            \A d \in written : d.ticket = t => w.at <= d.at
  /\ redis[t].expires = NEVER => redis[t].status \in Decisions

\* The inductive invariant.
Inv ==
  /\ TypeOK /\ KnownInv /\ ReviewerInv /\ DecisionInv
  /\ \A t \in Tickets : WaiterInv(t)
  /\ OutcomeIsAttributed /\ PendingIsListed /\ GraceIsEnough

-----------------------------------------------------------------------------
\* No ticket, no waiter, no reviewer at work.
LEMMA InitInv == Init => Inv
<1> SUFFICES ASSUME Init PROVE Inv
  OBVIOUS
<1> USE HitlAssumption DEF Init, Absent, Idle, Unseen
<1>1. TypeOK
  BY DEF TypeOK, Hash, WaiterState, ReviewerState, Statuses
<1>2. KnownInv /\ ReviewerInv /\ DecisionInv
  BY DEF KnownInv, ReviewerInv, DecisionInv, Created, Decisions
<1>3. \A t \in Tickets : WaiterInv(t)
  <2>1. NEVER # 0
    BY DEF NEVER
  <2> QED
    BY <2>1 DEF WaiterInv
<1>4. OutcomeIsAttributed /\ PendingIsListed /\ GraceIsEnough
  BY DEF OutcomeIsAttributed, PendingIsListed, GraceIsEnough, Outcome, StatusOf, Live, Decisions,
         NEVER
<1> QED
  BY <1>1, <1>2, <1>3, <1>4 DEF Inv

\* What a step of a reviewer that only reads, or only takes an id off the list, leaves alone.
LEMMA ReviewerFrame ==
  ASSUME UNCHANGED <<now, redis, wait, written>>, DecisionInv, \A t \in Tickets : WaiterInv(t),
         OutcomeIsAttributed, GraceIsEnough
  PROVE  DecisionInv' /\ (\A t \in Tickets : WaiterInv(t))' /\ OutcomeIsAttributed' /\ GraceIsEnough'
<1>1. DecisionInv' /\ (\A t \in Tickets : WaiterInv(t))'
  BY DEF DecisionInv, WaiterInv
<1>2. OutcomeIsAttributed' /\ GraceIsEnough'
  BY DEF OutcomeIsAttributed, GraceIsEnough, Outcome
<1> QED
  BY <1>1, <1>2

\* The MULTI/EXEC of create_ticket puts an open ticket with its TTL where there was none.
LEMMA CreateTicketInv ==
  ASSUME Inv, NEW u \in Tickets, create_ticket(u)
  PROVE  Inv'
<1> USE HitlAssumption DEF create_ticket, PutTicket
<1>0. /\ TypeOK /\ KnownInv /\ ReviewerInv /\ DecisionInv
      /\ \A t \in Tickets : WaiterInv(t)
      /\ OutcomeIsAttributed /\ PendingIsListed /\ GraceIsEnough
  BY DEF Inv
<1>1. TypeOK'
  <2>1. [status |-> "PENDING", by |-> NoReviewer, expires |-> now + TIMEOUT + GRACE] \in Hash
    BY <1>0 DEF TypeOK, Hash, Statuses
  <2>2. [wait[u] EXCEPT !.pc = "created", !.at = now] \in WaiterState
    BY <1>0 DEF TypeOK, WaiterState
  <2>3. wait' = [wait EXCEPT ![u] = [wait[u] EXCEPT !.pc = "created", !.at = now]]
    BY <1>0 DEF TypeOK, WaiterState
  <2> QED
    BY <1>0, <2>1, <2>2, <2>3 DEF TypeOK
<1>2. KnownInv'
  BY <1>0 DEF KnownInv, Created, TypeOK, ReviewerState, Decision
<1>3. ReviewerInv'
  BY <1>0 DEF ReviewerInv, Created, TypeOK, StatusOf, Live
<1>4. DecisionInv'
  BY <1>0 DEF DecisionInv, KnownInv, Created, Decisions
<1>5. (\A t \in Tickets : WaiterInv(t))'
  BY <1>0 DEF WaiterInv, TypeOK, NEVER
<1>6. OutcomeIsAttributed'
  <2>1. written' = written /\ \A t \in Tickets : wait'[t].seen = wait[t].seen
    BY <1>0 DEF TypeOK, WaiterState
  <2> HIDE DEF create_ticket, PutTicket
  <2> QED
    BY <1>0, <2>1 DEF OutcomeIsAttributed, Outcome
<1>7. PendingIsListed'
  BY <1>0 DEF PendingIsListed, StatusOf, Live
<1>8. GraceIsEnough'
  BY <1>0 DEF GraceIsEnough, Outcome, TypeOK, NEVER
<1> QED
  BY <1>1, <1>2, <1>3, <1>4, <1>5, <1>6, <1>7, <1>8 DEF Inv

\* The deadline is set while the clock stands.
LEMMA StartWaitInv ==
  ASSUME Inv, NEW u \in Tickets, StartWait(u)
  PROVE  Inv'
<1> USE HitlAssumption DEF StartWait
<1>0. /\ TypeOK /\ KnownInv /\ ReviewerInv /\ DecisionInv
      /\ \A t \in Tickets : WaiterInv(t)
      /\ OutcomeIsAttributed /\ PendingIsListed /\ GraceIsEnough
  BY DEF Inv
<1>1. TypeOK'
  <2>1. [wait[u] EXCEPT !.pc = "poll", !.deadline = now + TIMEOUT] \in WaiterState
    <3>1. wait[u] \in WaiterState /\ now + TIMEOUT \in Nat
      BY <1>0 DEF TypeOK
    <3> QED
      BY <3>1 DEF WaiterState
  <2>2. wait' = [wait EXCEPT ![u] = [wait[u] EXCEPT !.pc = "poll", !.deadline = now + TIMEOUT]]
    BY <1>0 DEF TypeOK, WaiterState
  <2> QED
    BY <1>0, <2>1, <2>2 DEF TypeOK
<1>2. KnownInv'
  BY <1>0 DEF KnownInv, Created, TypeOK, ReviewerState, Decision
<1>3. ReviewerInv'
  BY <1>0 DEF ReviewerInv, Created, TypeOK, StatusOf, Live
<1>4. DecisionInv'
  BY <1>0 DEF DecisionInv
<1>5. (\A t \in Tickets : WaiterInv(t))'
  BY <1>0 DEF WaiterInv, TypeOK
<1>6. OutcomeIsAttributed'
  BY <1>0 DEF OutcomeIsAttributed, Outcome, TypeOK
<1>7. PendingIsListed'
  BY <1>0 DEF PendingIsListed, StatusOf, Live
<1>8. GraceIsEnough'
  BY <1>0 DEF GraceIsEnough, Outcome, TypeOK
<1> QED
  BY <1>1, <1>2, <1>3, <1>4, <1>5, <1>6, <1>7, <1>8 DEF Inv

\* A waiter that polls before its ticket expires sees what the hash holds.
LEMMA PollReadInv ==
  ASSUME Inv, NEW u \in Tickets, PollRead(u)
  PROVE  Inv'
<1> USE HitlAssumption DEF PollRead
<1>0. /\ TypeOK /\ KnownInv /\ ReviewerInv /\ DecisionInv
      /\ \A t \in Tickets : WaiterInv(t)
      /\ OutcomeIsAttributed /\ PendingIsListed /\ GraceIsEnough
  BY DEF Inv
<1>9. /\ Live(u) /\ Seen(u) = [status |-> redis[u].status, by |-> redis[u].by]
      /\ Seen(u) \in [status : Statuses, by : Reviewers \cup {NoReviewer}]
  BY <1>0 DEF TypeOK, WaiterState, WaiterInv, KnownInv, Created, Seen, StatusOf, Live
<1>1. TypeOK'
  <2>1. [wait[u] EXCEPT !.pc = "check", !.at = now, !.seen = Seen(u)] \in WaiterState
    BY <1>0, <1>9, ZenonT(60) DEF TypeOK, WaiterState
  <2>2. wait' = [wait EXCEPT ![u] = [wait[u] EXCEPT !.pc = "check", !.at = now, !.seen = Seen(u)]]
    BY <1>0 DEF TypeOK, WaiterState
  <2> QED
    BY <1>0, <2>1, <2>2 DEF TypeOK
<1>2. KnownInv'
  BY <1>0 DEF KnownInv, Created, TypeOK, ReviewerState, Decision
<1>3. ReviewerInv'
  BY <1>0 DEF ReviewerInv, Created, TypeOK, StatusOf, Live
<1>4. DecisionInv'
  BY <1>0 DEF DecisionInv
<1>5. (\A t \in Tickets : WaiterInv(t))'
  BY <1>0, <1>9 DEF WaiterInv, TypeOK, WaiterState, Decisions, DecisionInv, KnownInv, Created
<1>6. OutcomeIsAttributed'
  BY <1>0, <1>9 DEF OutcomeIsAttributed, Outcome, TypeOK, WaiterState, DecisionInv
<1>7. PendingIsListed'
  BY <1>0 DEF PendingIsListed, StatusOf, Live
<1>8. GraceIsEnough'
  BY <1>0 DEF GraceIsEnough, Outcome, TypeOK
<1> QED
  BY <1>1, <1>2, <1>3, <1>4, <1>5, <1>6, <1>7, <1>8 DEF Inv

\* A waiter that goes on has not reached its deadline; one that stops has seen enough.
LEMMA PollCheckInv ==
  ASSUME Inv, NEW u \in Tickets, PollCheck(u)
  PROVE  Inv'
<1> USE HitlAssumption DEF PollCheck
<1>0. /\ TypeOK /\ KnownInv /\ ReviewerInv /\ DecisionInv
      /\ \A t \in Tickets : WaiterInv(t)
      /\ OutcomeIsAttributed /\ PendingIsListed /\ GraceIsEnough
  BY DEF Inv
<1>1. TypeOK'
  <2>1. ASSUME NEW p \in {"returned", "poll"} PROVE [wait[u] EXCEPT !.pc = p] \in WaiterState
    BY <1>0 DEF TypeOK, WaiterState
  <2> QED
    BY <1>0, <2>1 DEF TypeOK
<1>2. KnownInv'
  BY <1>0 DEF KnownInv, Created
<1>3. ReviewerInv'
  BY <1>0 DEF ReviewerInv, Created, StatusOf, Live
<1>4. DecisionInv'
  BY <1>0 DEF DecisionInv
<1>5. (\A t \in Tickets : WaiterInv(t))'
  BY <1>0 DEF WaiterInv, TypeOK, WaiterState
<1>6. OutcomeIsAttributed'
  BY <1>0 DEF OutcomeIsAttributed, Outcome
<1>7. PendingIsListed'
  BY <1>0 DEF PendingIsListed, StatusOf, Live
<1>8. GraceIsEnough'
  <2>1. now \in Nat /\ \A t \in Tickets : wait[t].deadline \in Nat /\ redis[t].expires \in Nat
                      /\ wait[t].at \in Nat
    BY <1>0 DEF TypeOK, WaiterState, Hash
  <2>2. \A e \in written : e.at \in Nat
    BY <1>0 DEF TypeOK, Decision
  <2>3. /\ \A t \in Tickets : wait'[t].seen = wait[t].seen /\ wait'[t].deadline = wait[t].deadline
        /\ \A t \in Tickets \ {u} : wait'[t] = wait[t]
        /\ wait'[u].pc = IF wait[u].seen.status # "PENDING" \/ now >= wait[u].deadline
                         THEN "returned" ELSE "poll"
        /\ UNCHANGED <<now, redis, written>>
    BY <1>0 DEF TypeOK, WaiterState
  <2>4. /\ wait[u].seen.status \in {"PENDING"} \cup Decisions
        /\ wait[u].at <= wait[u].deadline /\ now <= wait[u].at + 1
        /\ now < wait[u].deadline + GRACE => redis[u].expires = wait[u].deadline + GRACE
        /\ wait[u].deadline <= MaxTime
        /\ wait[u].seen.status = "PENDING" => \A e \in written : e.ticket = u => wait[u].at <= e.at
    BY <1>0 DEF WaiterInv, TypeOK, WaiterState, Statuses
  <2> HIDE DEF PollCheck
  <2>5. ASSUME wait'[u].pc = "returned", wait[u].seen.status \notin Decisions
        PROVE  /\ now >= wait[u].deadline /\ wait[u].seen.status = "PENDING"
               /\ \A e \in written : e.ticket = u => e.at + 1 >= wait[u].deadline
    BY <2>1, <2>2, <2>3, <2>4, <2>5
  <2>6. ASSUME wait'[u].pc = "poll" PROVE redis[u].expires # NEVER
    BY <2>1, <2>3, <2>4, <2>6 DEF NEVER
  <2> QED
    BY <1>0, <2>3, <2>4, <2>5, <2>6 DEF GraceIsEnough, Outcome
<1> QED
  BY <1>1, <1>2, <1>3, <1>4, <1>5, <1>6, <1>7, <1>8 DEF Inv

\* A waiter that is gone owes nothing.
LEMMA WaiterGoneInv ==
  ASSUME Inv, NEW u \in Tickets, WaiterGone(u)
  PROVE  Inv'
<1> USE HitlAssumption DEF WaiterGone
<1>0. /\ TypeOK /\ KnownInv /\ ReviewerInv /\ DecisionInv
      /\ \A t \in Tickets : WaiterInv(t)
      /\ OutcomeIsAttributed /\ PendingIsListed /\ GraceIsEnough
  BY DEF Inv
<1>1. TypeOK'
  BY <1>0 DEF TypeOK, WaiterState
<1>2. KnownInv'
  BY <1>0 DEF KnownInv, Created
<1>3. ReviewerInv'
  BY <1>0 DEF ReviewerInv, Created, StatusOf, Live
<1>4. DecisionInv'
  BY <1>0 DEF DecisionInv
<1>5. (\A t \in Tickets : WaiterInv(t))'
  BY <1>0 DEF WaiterInv
<1>6. OutcomeIsAttributed'
  BY <1>0 DEF OutcomeIsAttributed, Outcome
<1>7. PendingIsListed'
  BY <1>0 DEF PendingIsListed, StatusOf, Live
<1>8. GraceIsEnough'
  BY <1>0 DEF GraceIsEnough, Outcome
<1> QED
  BY <1>1, <1>2, <1>3, <1>4, <1>5, <1>6, <1>7, <1>8 DEF Inv

\* A reviewer's read changes no shared state.
LEMMA DecideReadInv ==
  ASSUME Inv, NEW r \in Reviewers, NEW u \in Tickets, NEW s \in Decisions, DecideRead(r, u, s)
  PROVE  Inv'
<1> USE HitlAssumption DEF DecideRead
<1>0. /\ TypeOK /\ KnownInv /\ ReviewerInv /\ DecisionInv
      /\ \A t \in Tickets : WaiterInv(t)
      /\ OutcomeIsAttributed /\ PendingIsListed /\ GraceIsEnough
  BY DEF Inv
<1>4. DecisionInv' /\ (\A t \in Tickets : WaiterInv(t))' /\ OutcomeIsAttributed' /\ GraceIsEnough'
  BY <1>0, ReviewerFrame
<1>1. TypeOK'
  BY <1>0 DEF TypeOK, ReviewerState
<1>2. KnownInv'
  BY <1>0 DEF KnownInv, Created
<1>3. ReviewerInv'
  BY <1>0 DEF ReviewerInv, Created, StatusOf, Live, KnownInv
<1>7. PendingIsListed'
  BY <1>0 DEF PendingIsListed, StatusOf, Live
<1> QED
  BY <1>1, <1>2, <1>3, <1>4, <1>7 DEF Inv

\* hset decides the ticket for good, whether its hash was still there or not.
LEMMA DecideWriteInv ==
  ASSUME Inv, NEW r \in Reviewers, DecideWrite(r)
  PROVE  Inv'
<1> USE HitlAssumption DEF DecideWrite
<1>0. /\ TypeOK /\ KnownInv /\ ReviewerInv /\ DecisionInv
      /\ \A t \in Tickets : WaiterInv(t)
      /\ OutcomeIsAttributed /\ PendingIsListed /\ GraceIsEnough
  BY DEF Inv
<1> DEFINE u == rev[r].ticket
           d == [ticket |-> u, by |-> r, status |-> rev[r].status, at |-> now]
<1>9. u \in Tickets /\ Created(u) /\ rev[r].status \in Decisions
  BY <1>0 DEF ReviewerInv
<1>10. /\ redis'[u].status = rev[r].status /\ redis'[u].by = r
       /\ redis'[u].expires = IF Live(u) THEN redis[u].expires ELSE NEVER
       /\ \A t \in Tickets \ {u} : redis'[t] = redis[t]
       /\ written' = written \cup {d}
       /\ UNCHANGED <<now, wait, pending>>
  BY <1>0, <1>9 DEF TypeOK, Hash
<1>1. TypeOK'
  <2>1. d \in Decision
    BY <1>0, <1>9 DEF TypeOK, Decision
  <2>2. [status |-> rev[r].status, by |-> r, expires |-> IF Live(u) THEN redis[u].expires ELSE NEVER]
          \in Hash
    BY <1>0, <1>9 DEF TypeOK, Hash, Statuses, NEVER
  <2>3. [rev[r] EXCEPT !.pc = "srem"] \in ReviewerState
    BY <1>0 DEF TypeOK, ReviewerState
  <2> QED
    BY <1>0, <1>9, <1>10, <2>1, <2>2, <2>3 DEF TypeOK
<1>2. KnownInv'
  BY <1>0, <1>9 DEF KnownInv, Created, Decisions
<1>3. ReviewerInv'
  BY <1>0 DEF ReviewerInv, Created, TypeOK, StatusOf, Live, Decisions
<1>4. DecisionInv'
  <2>1. d \in written' /\ d.ticket = u /\ d.by = r /\ d.status = rev[r].status
    BY <1>10
  <2> HIDE DEF DecideWrite, d, u
  <2>2. ASSUME NEW t \in Tickets, redis'[t].status \in Decisions
        PROVE  \E e \in written' : e.ticket = t /\ e.by = redis'[t].by /\ e.status = redis'[t].status
    <3>1. CASE t = u
      BY <1>10, <2>1, <3>1
    <3>2. CASE t # u
      BY <1>0, <1>10, <2>2, <3>2 DEF DecisionInv
    <3> QED
      BY <3>1, <3>2
  <2>3. ASSUME NEW e \in written' PROVE redis'[e.ticket].status \in Decisions
    BY <1>0, <1>9, <1>10, <2>1 DEF DecisionInv, TypeOK, Decision
  <2> QED
    BY <2>2, <2>3 DEF DecisionInv
<1>5. (\A t \in Tickets : WaiterInv(t))'
  <2> HIDE DEF DecideWrite, u
  <2> SUFFICES ASSUME NEW t \in Tickets PROVE WaiterInv(t)'
    OBVIOUS
  <2>1. now \in Nat /\ wait[t].deadline \in Nat /\ wait[t].at \in Nat /\ redis[t].expires \in Nat
    BY <1>0 DEF TypeOK, WaiterState, Hash
  <2>2. d.at = now
    OBVIOUS
  <2> HIDE DEF d
  <2>3. CASE t = u
    <3>1. redis[t].status # "ABSENT"
      BY <1>0, <1>9, <2>3 DEF KnownInv
    <3>2. redis'[t].status \in Decisions
      BY <1>9, <1>10, <2>3
    <3>3. wait[t].pc = "created" => redis'[t].expires = redis[t].expires
      BY <1>0, <1>10, <2>1, <2>3, <3>1 DEF WaiterInv, Live
    <3>4. wait[t].pc \in {"poll", "check"} /\ now < wait[t].deadline + GRACE
            => redis'[t].expires = redis[t].expires
      BY <1>0, <1>10, <2>1, <2>3, <3>1 DEF WaiterInv, Live
    <3> QED
      BY <1>0, <1>10, <2>1, <2>2, <3>2, <3>3, <3>4 DEF WaiterInv
  <2>4. CASE t # u
    BY <1>0, <1>10, <2>1, <2>2, <2>4 DEF WaiterInv
  <2> QED
    BY <2>3, <2>4
<1>6. OutcomeIsAttributed'
  BY <1>0, <1>10 DEF OutcomeIsAttributed, Outcome
<1>7. PendingIsListed'
  BY <1>0, <1>9, <1>10 DEF PendingIsListed, StatusOf, Live, Decisions
<1>8. GraceIsEnough'
  <2>1. now \in Nat /\ \A t \in Tickets : wait[t].deadline \in Nat /\ redis[t].expires \in Nat
    BY <1>0 DEF TypeOK, WaiterState, Hash
  <2>2. d.at = now /\ d.ticket = u
    OBVIOUS
  <2> HIDE DEF DecideWrite, u, d
  <2>3. ASSUME NEW t \in Tickets, wait[t].pc = "returned", wait[t].seen.status \notin Decisions,
               NEW e \in written', e.ticket = t
        PROVE  e.at + 1 >= wait[t].deadline
    BY <1>0, <1>10, <2>1, <2>2, <2>3 DEF GraceIsEnough, Outcome
  <2>4. ASSUME NEW t \in Tickets, redis'[t].expires = NEVER
        PROVE  redis'[t].status \in Decisions /\ wait[t].pc \notin {"created", "poll"}
    <3>1. CASE t # u
      BY <1>0, <1>10, <2>4, <3>1 DEF GraceIsEnough
    <3>2. CASE t = u /\ Live(u)
      BY <1>0, <1>9, <1>10, <2>4, <3>2 DEF GraceIsEnough
    <3>3. CASE t = u /\ ~ Live(u)
      <4>1. redis[u].status # "ABSENT" /\ redis[u].expires <= now
        BY <1>0, <1>9, <2>1, <3>3 DEF KnownInv, Live
      <4>2. wait[u].pc \notin {"created", "poll"}
        BY <1>0, <1>9, <2>1, <4>1 DEF WaiterInv, TypeOK, WaiterState
      <4> QED
        BY <1>9, <1>10, <3>3, <4>2
    <3> QED
      BY <3>1, <3>2, <3>3
  <2> QED
    BY <1>0, <1>10, <2>3, <2>4 DEF GraceIsEnough, Outcome
<1> QED
  BY <1>1, <1>2, <1>3, <1>4, <1>5, <1>6, <1>7, <1>8 DEF Inv

\* srem takes a decided ticket off the list.
LEMMA DecideSremInv ==
  ASSUME Inv, NEW r \in Reviewers, DecideSrem(r)
  PROVE  Inv'
<1> USE HitlAssumption DEF DecideSrem
<1>0. /\ TypeOK /\ KnownInv /\ ReviewerInv /\ DecisionInv
      /\ \A t \in Tickets : WaiterInv(t)
      /\ OutcomeIsAttributed /\ PendingIsListed /\ GraceIsEnough
  BY DEF Inv
<1>4. DecisionInv' /\ (\A t \in Tickets : WaiterInv(t))' /\ OutcomeIsAttributed' /\ GraceIsEnough'
  BY <1>0, ReviewerFrame
<1>1. TypeOK'
  BY <1>0 DEF TypeOK, Idle, ReviewerInv, ReviewerState
<1>2. KnownInv'
  BY <1>0 DEF KnownInv, Created, Idle
<1>3. ReviewerInv'
  BY <1>0 DEF ReviewerInv, Created, Idle, StatusOf, Live
<1>7. PendingIsListed'
  BY <1>0 DEF PendingIsListed, ReviewerInv, StatusOf, Live
<1> QED
  BY <1>1, <1>2, <1>3, <1>4, <1>7 DEF Inv

\* Reading the pending set changes no shared state.
LEMMA ListStartInv ==
  ASSUME Inv, NEW r \in Reviewers, ListStart(r)
  PROVE  Inv'
<1> USE HitlAssumption DEF ListStart
<1>0. /\ TypeOK /\ KnownInv /\ ReviewerInv /\ DecisionInv
      /\ \A t \in Tickets : WaiterInv(t)
      /\ OutcomeIsAttributed /\ PendingIsListed /\ GraceIsEnough
  BY DEF Inv
<1>4. DecisionInv' /\ (\A t \in Tickets : WaiterInv(t))' /\ OutcomeIsAttributed' /\ GraceIsEnough'
  BY <1>0, ReviewerFrame
<1>1. TypeOK'
  <2>1. [Idle EXCEPT !.pc = "list", !.todo = pending] \in ReviewerState
    BY <1>0 DEF TypeOK, ReviewerState, Idle
  <2> QED
    BY <1>0, <2>1 DEF TypeOK
<1>2. KnownInv'
  BY <1>0 DEF KnownInv, Created
<1>3. ReviewerInv'
  BY <1>0 DEF ReviewerInv, Created, StatusOf, Live
<1>7. PendingIsListed'
  BY <1>0 DEF PendingIsListed, StatusOf, Live
<1> QED
  BY <1>1, <1>2, <1>3, <1>4, <1>7 DEF Inv

\* A listed ticket that is not there was created, so it has expired for good.
LEMMA ListCheckInv ==
  ASSUME Inv, NEW r \in Reviewers, NEW u \in Tickets, ListCheck(r, u)
  PROVE  Inv'
<1> USE HitlAssumption DEF ListCheck
<1>0. /\ TypeOK /\ KnownInv /\ ReviewerInv /\ DecisionInv
      /\ \A t \in Tickets : WaiterInv(t)
      /\ OutcomeIsAttributed /\ PendingIsListed /\ GraceIsEnough
  BY DEF Inv
<1>4. DecisionInv' /\ (\A t \in Tickets : WaiterInv(t))' /\ OutcomeIsAttributed' /\ GraceIsEnough'
  BY <1>0, ReviewerFrame
<1>1. TypeOK'
  BY <1>0 DEF TypeOK, ReviewerState, Idle
<1>2. KnownInv'
  BY <1>0 DEF KnownInv, Created, Idle
<1>3. ReviewerInv'
  BY <1>0 DEF ReviewerInv, Created, Idle, StatusOf, Live, KnownInv
<1>7. PendingIsListed'
  BY <1>0 DEF PendingIsListed, StatusOf, Live
<1> QED
  BY <1>1, <1>2, <1>3, <1>4, <1>7 DEF Inv

\* srem takes an expired ticket off the list.
LEMMA ListDropInv ==
  ASSUME Inv, NEW r \in Reviewers, ListDrop(r)
  PROVE  Inv'
<1> USE HitlAssumption DEF ListDrop
<1>0. /\ TypeOK /\ KnownInv /\ ReviewerInv /\ DecisionInv
      /\ \A t \in Tickets : WaiterInv(t)
      /\ OutcomeIsAttributed /\ PendingIsListed /\ GraceIsEnough
  BY DEF Inv
<1>4. DecisionInv' /\ (\A t \in Tickets : WaiterInv(t))' /\ OutcomeIsAttributed' /\ GraceIsEnough'
  BY <1>0, ReviewerFrame
<1>1. TypeOK'
  BY <1>0 DEF TypeOK, ReviewerState, Idle
<1>2. KnownInv'
  BY <1>0 DEF KnownInv, Created, Idle
<1>3. ReviewerInv'
  BY <1>0 DEF ReviewerInv, Created, Idle, StatusOf, Live
<1>7. PendingIsListed'
  BY <1>0 DEF PendingIsListed, ReviewerInv, StatusOf, Live
<1> QED
  BY <1>1, <1>2, <1>3, <1>4, <1>7 DEF Inv

\* A reviewer that is gone owes nothing.
LEMMA ReviewerGoneInv ==
  ASSUME Inv, NEW r \in Reviewers, ReviewerGone(r)
  PROVE  Inv'
<1> USE HitlAssumption DEF ReviewerGone
<1>0. /\ TypeOK /\ KnownInv /\ ReviewerInv /\ DecisionInv
      /\ \A t \in Tickets : WaiterInv(t)
      /\ OutcomeIsAttributed /\ PendingIsListed /\ GraceIsEnough
  BY DEF Inv
<1>4. DecisionInv' /\ (\A t \in Tickets : WaiterInv(t))' /\ OutcomeIsAttributed' /\ GraceIsEnough'
  BY <1>0, ReviewerFrame
<1>1. TypeOK'
  BY <1>0 DEF TypeOK, ReviewerState, Idle
<1>2. KnownInv'
  BY <1>0 DEF KnownInv, Created, Idle
<1>3. ReviewerInv'
  BY <1>0 DEF ReviewerInv, Created, Idle, StatusOf, Live
<1>7. PendingIsListed'
  BY <1>0 DEF PendingIsListed, StatusOf, Live
<1> QED
  BY <1>1, <1>2, <1>3, <1>4, <1>7 DEF Inv

\* The clock moves only when every waiter has read its ticket in this unit.
LEMMA TickInv ==
  ASSUME Inv, Tick
  PROVE  Inv'
<1> USE HitlAssumption DEF Tick, Waiting
<1>0. /\ TypeOK /\ KnownInv /\ ReviewerInv /\ DecisionInv
      /\ \A t \in Tickets : WaiterInv(t)
      /\ OutcomeIsAttributed /\ PendingIsListed /\ GraceIsEnough
  BY DEF Inv
<1>1. TypeOK'
  BY <1>0 DEF TypeOK
<1>2. KnownInv'
  BY <1>0 DEF KnownInv, Created
<1>3. ReviewerInv'
  BY <1>0 DEF ReviewerInv, Created, TypeOK, Hash, StatusOf, Live
<1>4. DecisionInv'
  BY <1>0 DEF DecisionInv
<1>5. (\A t \in Tickets : WaiterInv(t))'
  BY <1>0 DEF WaiterInv, TypeOK, WaiterState
<1>6. OutcomeIsAttributed'
  BY <1>0 DEF OutcomeIsAttributed, Outcome
<1>7. PendingIsListed'
  BY <1>0 DEF PendingIsListed, StatusOf, Live, TypeOK, Hash
<1>8. GraceIsEnough'
  BY <1>0 DEF GraceIsEnough, Outcome, TypeOK, WaiterState
<1> QED
  BY <1>1, <1>2, <1>3, <1>4, <1>5, <1>6, <1>7, <1>8 DEF Inv

\* Every step of the gateway, of a reviewer and of the clock keeps the invariant.
LEMMA NextInv == Inv /\ [Next]_vars => Inv'
<1> SUFFICES ASSUME Inv, [Next]_vars PROVE Inv'
  OBVIOUS
<1>1. ASSUME NEW u \in Tickets, GatewayStep(u) PROVE Inv'
  BY <1>1, CreateTicketInv, StartWaitInv, PollReadInv, PollCheckInv, WaiterGoneInv DEF GatewayStep
<1>2. ASSUME NEW r \in Reviewers, ReviewerStep(r) PROVE Inv'
  BY <1>2, DecideReadInv, DecideWriteInv, DecideSremInv, ListStartInv, ListCheckInv, ListDropInv,
     ReviewerGoneInv DEF ReviewerStep
<1>3. CASE UNCHANGED vars
  <2>1. UNCHANGED <<now, redis, pending, wait, rev, written, told>>
    BY <1>3 DEF vars
  <2>2. TypeOK' /\ KnownInv' /\ ReviewerInv' /\ DecisionInv'
    BY <2>1 DEF Inv, TypeOK, KnownInv, ReviewerInv, DecisionInv, Created, StatusOf, Live
  <2>3. (\A t \in Tickets : WaiterInv(t))'
    BY <2>1 DEF Inv, WaiterInv
  <2>4. OutcomeIsAttributed' /\ PendingIsListed' /\ GraceIsEnough'
    BY <2>1 DEF Inv, OutcomeIsAttributed, PendingIsListed, GraceIsEnough, Outcome, StatusOf, Live
  <2> QED
    BY <2>2, <2>3, <2>4 DEF Inv
<1> QED
  BY <1>1, <1>2, <1>3, TickInv DEF Next, Stopped

\* The inductive invariant holds throughout.
LEMMA InvHolds == Spec => []Inv
  BY InitInv, NextInv, PTL DEF Spec

-----------------------------------------------------------------------------
(***************************************************************************)
(* The theorems.                                                           *)
(***************************************************************************)

\* Type correctness of the ticket queue, its waiters and its reviewers.
THEOREM TypeCorrect == Spec => []TypeOK
<1>1. Inv => TypeOK
  BY DEF Inv
<1> QED
  BY <1>1, InvHolds, PTL

\* Whatever wait_for_decision returns as decided, the reviewer it names wrote.
THEOREM OutcomesAreAttributed == Spec => []OutcomeIsAttributed
<1>1. Inv => OutcomeIsAttributed
  BY DEF Inv
<1> QED
  BY <1>1, InvHolds, PTL

\* No interleaving of creations, clean-ups and decisions hides an open ticket from
\* `review list`.
THEOREM OpenTicketsAreListed == Spec => []PendingIsListed
<1>1. Inv => PendingIsListed
  BY DEF Inv
<1> QED
  BY <1>1, InvHolds, PTL

\* However short the grace period, as long as there is one: a timeout is reported only
\* after the deadline and with no earlier decision overlooked.
THEOREM GraceSuffices == Spec => []GraceIsEnough
<1>1. Inv => GraceIsEnough
  BY DEF Inv
<1> QED
  BY <1>1, InvHolds, PTL

\* No step makes a decided or expired ticket PENDING again: reviewers only write
\* decisions, and create_ticket does not reuse an id.
THEOREM NeverReopened == Spec => NoReopening
<1>1. Inv /\ [Next]_vars => [\A t \in Tickets : Created(t) /\ StatusOf(t) # "PENDING"
                                                  => StatusOf(t)' # "PENDING"]_vars
  <2> SUFFICES ASSUME Inv, Next, NEW t \in Tickets, Created(t), StatusOf(t) # "PENDING"
               PROVE  StatusOf(t)' # "PENDING"
    BY DEF vars
  <2> USE HitlAssumption
  <2>0. TypeOK /\ ReviewerInv
    BY DEF Inv
  <2>1. ASSUME NEW u \in Tickets, create_ticket(u) PROVE StatusOf(t)' # "PENDING"
    BY <2>0, <2>1 DEF create_ticket, PutTicket, StatusOf, Live, Created
  <2>2. ASSUME NEW r \in Reviewers, DecideWrite(r) PROVE StatusOf(t)' # "PENDING"
    <3>1. rev[r].ticket \in Tickets /\ rev[r].status \in Decisions
      BY <2>0, <2>2 DEF ReviewerInv, DecideWrite
    <3> QED
      BY <2>0, <2>2, <3>1 DEF DecideWrite, StatusOf, Live, Decisions, TypeOK, Hash
  <2>3. CASE UNCHANGED redis /\ now <= now' /\ now' \in Nat
    BY <2>0, <2>3 DEF StatusOf, Live, TypeOK, Hash
  <2>4. \/ \E u \in Tickets : create_ticket(u)
        \/ \E r \in Reviewers : DecideWrite(r)
        \/ UNCHANGED redis /\ now <= now' /\ now' \in Nat
    <3>1. now \in Nat
      BY <2>0 DEF TypeOK
    <3>2. ASSUME NEW u \in Tickets, GatewayStep(u)
          PROVE  create_ticket(u) \/ (UNCHANGED redis /\ now' = now)
      BY <3>2 DEF GatewayStep, StartWait, PollRead, PollCheck, WaiterGone
    <3>3. ASSUME NEW r \in Reviewers, ReviewerStep(r)
          PROVE  DecideWrite(r) \/ (UNCHANGED redis /\ now' = now)
      BY <3>3 DEF ReviewerStep, DecideRead, DecideSrem, ListStart, ListCheck, ListDrop, ReviewerGone
    <3>4. Tick \/ Stopped => UNCHANGED redis /\ now <= now' /\ now' \in Nat
      BY <3>1 DEF Tick, Stopped, vars
    <3> QED
      BY <3>1, <3>2, <3>3, <3>4 DEF Next
  <2> QED
    BY <2>1, <2>2, <2>3, <2>4
<1> QED
  BY <1>1, InvHolds, PTL DEF Spec, NoReopening, Created
=============================================================================
