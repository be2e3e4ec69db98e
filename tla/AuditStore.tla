----------------------------- MODULE AuditStore -----------------------------
(***************************************************************************)
(* AuditStore.write_entry (audit/store.py): concurrent writers append rows *)
(* to the hash chain.  Each writer is a request handler of some gateway    *)
(* process with a database transaction of its own; each await in           *)
(* write_entry is a step of its own, between which any other writer runs.  *)
(*                                                                         *)
(*   Prepare            the fields, hashed later, are fixed  (store.py 65)  *)
(*   AcquireChainLock   pg_advisory_xact_lock                (store.py 91)  *)
(*   ReadHead           the latest committed this_hash       (store.py 93)  *)
(*   Insert             hash, INSERT, flush: id from the sequence      (99)  *)
(*   Commit             leaving `session.begin()`                     (106)  *)
(*   Rollback           an exception, or the process or its connection      *)
(*                      gone, before COMMIT took effect                    *)
(*   CommitUnacked      COMMIT took effect, the reply was lost: the caller  *)
(*                      sees an exception for a row that is in the table   *)
(*                                                                         *)
(* Postgres is external: READ COMMITTED (each statement sees what is       *)
(* committed when it starts), a sequence that never takes a value back,    *)
(* and an advisory lock that goes with the transaction.                    *)
(***************************************************************************)
EXTENDS HashChain

CONSTANTS
  Writers,   \* concurrent callers of write_entry
  Bodies,    \* contents an entry may have
  NoWriter,  \* nobody holds the lock
  MaxId      \* bound: last value of the id sequence

ASSUME StoreAssumption ==
  /\ Bodies \subseteq Numbers
  /\ NoWriter \notin Writers
  /\ MaxId \in Nat

VARIABLES
  table,     \* committed rows of audit_entries: id -> row
  seq,       \* last value the id sequence gave out
  lock,      \* holder of the chain's advisory lock
  pc,        \* where each writer is in write_entry
  body,      \* each writer's entry content
  prev,      \* the prev_hash each writer has read
  flushed,   \* the id of each writer's uncommitted row
  acked      \* ids write_entry has returned to its callers, with the content

vars == <<table, seq, lock, pc, body, prev, flushed, acked>>

\* Contents that come back from the database as they were written.
StableBodies == \A b \in Bodies : Jsonb(b) = b

InTransaction == {"lock", "read", "insert", "commit"}

\* Writers whose transaction holds the advisory lock.
Inside(w) == pc[w] \in {"read", "insert", "commit"}

Init ==
  /\ table = [i \in {} |-> GENESIS_HASH]
  /\ seq = 0
  /\ lock = NoWriter
  /\ pc = [w \in Writers |-> "idle"]
  /\ body \in [Writers -> Bodies]
  /\ prev = [w \in Writers |-> GENESIS_HASH]
  /\ flushed = [w \in Writers |-> 0]
  /\ acked = {}

Prepare(w) ==
  /\ pc[w] = "idle"
  /\ seq < MaxId
  /\ \E b \in Bodies : body' = [body EXCEPT ![w] = b]
  /\ pc' = [pc EXCEPT ![w] = "lock"]
  /\ UNCHANGED <<table, seq, lock, prev, flushed, acked>>

\* A mutant of AcquireChainLock: the writers are not serialised.
AcquireChainLock_unlocked(w) ==
  /\ pc[w] = "lock"
  /\ lock' = w
  /\ pc' = [pc EXCEPT ![w] = "read"]
  /\ UNCHANGED <<table, seq, body, prev, flushed, acked>>

AcquireChainLock(w) ==
  /\ pc[w] = "lock"
  /\ lock = NoWriter
  /\ lock' = w
  /\ pc' = [pc EXCEPT ![w] = "read"]
  /\ UNCHANGED <<table, seq, body, prev, flushed, acked>>

ReadHead(w) ==
  /\ pc[w] = "read"
  /\ prev' = [prev EXCEPT ![w] = LastHash(table, DOMAIN table)]
  /\ pc' = [pc EXCEPT ![w] = "insert"]
  /\ UNCHANGED <<table, seq, lock, body, flushed, acked>>

\* A mutant of Insert: without the flush the row has no id yet.
Insert_no_flush(w) ==
  /\ pc[w] = "insert"
  /\ pc' = [pc EXCEPT ![w] = "commit"]
  /\ UNCHANGED <<table, seq, lock, body, prev, flushed, acked>>

Insert(w) ==
  /\ pc[w] = "insert"
  /\ seq < MaxId
  /\ seq' = seq + 1
  /\ flushed' = [flushed EXCEPT ![w] = seq + 1]
  /\ pc' = [pc EXCEPT ![w] = "commit"]
  /\ UNCHANGED <<table, lock, body, prev, acked>>

\* The end of w's transaction: it returns to its caller without the lock.
EndTransaction(w) ==
  /\ pc' = [pc EXCEPT ![w] = "idle"]
  /\ lock' = IF lock = w THEN NoWriter ELSE lock
  /\ prev' = [prev EXCEPT ![w] = GENESIS_HASH]
  /\ flushed' = [flushed EXCEPT ![w] = 0]
  /\ UNCHANGED <<seq, body>>

CommitRow(w) ==
  /\ pc[w] = "commit"
  /\ table' = AddRow(table, flushed[w], NewRow(prev[w], body[w]))
  /\ EndTransaction(w)

\* A mutant of Commit: the entry is returned before its transaction commits.
Commit_too_early(w) ==
  /\ pc[w] = "commit"
  /\ acked' = acked \cup {[id |-> flushed[w], body |-> body[w]]}
  /\ EndTransaction(w)
  /\ UNCHANGED table

Commit(w) ==
  /\ CommitRow(w)
  /\ acked' = acked \cup {[id |-> flushed[w], body |-> body[w]]}

CommitUnacked(w) == CommitRow(w) /\ UNCHANGED acked

\* A mutant of Rollback: a lock of the session's, not of the transaction's.
Rollback_keeps_lock(w) ==
  /\ pc[w] \in InTransaction
  /\ pc' = [pc EXCEPT ![w] = "idle"]
  /\ prev' = [prev EXCEPT ![w] = GENESIS_HASH]
  /\ flushed' = [flushed EXCEPT ![w] = 0]
  /\ UNCHANGED <<seq, body, lock, table, acked>>

Rollback(w) ==
  /\ pc[w] \in InTransaction
  /\ EndTransaction(w)
  /\ UNCHANGED <<table, acked>>

\* The bound is reached and nobody is writing.
Exhausted ==
  /\ seq = MaxId
  /\ \A w \in Writers : pc[w] = "idle"
  /\ UNCHANGED vars

Next ==
  \/ \E w \in Writers :
       \/ Prepare(w)
       \/ AcquireChainLock(w)
       \/ ReadHead(w)
       \/ Insert(w)
       \/ Commit(w)
       \/ CommitUnacked(w)
       \/ Rollback(w)
  \/ Exhausted

Spec == Init /\ [][Next]_vars

(***************************************************************************)
(* Postgres queues the waiters of a lock, so a writer that waits while the *)
(* lock is free again and again gets it (strong fairness); a writer that   *)
(* holds it is never blocked.  Past the bound the sequence fails, which is *)
(* a Rollback.  Nothing forces a call to be made.                          *)
(***************************************************************************)
Fairness ==
  \A w \in Writers :
    /\ SF_vars(AcquireChainLock(w))
    /\ WF_vars(ReadHead(w))
    /\ WF_vars(Insert(w))
    /\ WF_vars(Commit(w))
    /\ WF_vars(Rollback(w) /\ pc[w] = "insert" /\ seq = MaxId)

FairSpec == Spec /\ Fairness

-----------------------------------------------------------------------------
(***************************************************************************)
(* Properties                                                              *)
(***************************************************************************)

\* Every variable keeps its type; ids come from the sequence's range.  (Checked with
\* HeadIsFresh.)
TypeOK ==
  /\ DOMAIN table \subseteq 1..MaxId
  /\ \A i \in DOMAIN table : table[i].body \in Numbers
  /\ seq \in 0..MaxId
  /\ lock \in Writers \cup {NoWriter}
  /\ pc \in [Writers -> {"idle"} \cup InTransaction]
  /\ body \in [Writers -> Bodies]
  /\ flushed \in [Writers -> 0..MaxId]
  /\ DOMAIN prev = Writers
  /\ acked \subseteq [id : 1..MaxId, body : Bodies]

\* However writers interleave, fail or lose the reply to their commit, the log
\* they leave behind passes verify_chain (store.py: two writers building on the
\* same prev_hash would corrupt the chain).
HonestLogVerifies == Mismatches(table) = {}

\* What a writer has read and been given is still the end of the chain.
FreshHead(w) ==
  /\ pc[w] \in {"insert", "commit"} => prev[w] = LastHash(table, DOMAIN table)
  /\ pc[w] = "commit" => \A i \in DOMAIN table : i < flushed[w]

\* Nobody's prev_hash goes stale: from the moment a writer has read the head of
\* the chain to its commit, that is the head, and its id comes after every row.
\* The types hold as well.
HeadIsFresh == TypeOK /\ \A w \in Writers : FreshHead(w)

\* An entry write_entry has returned is in the table under the id it returned,
\* with the content it was given.
AckedIsDurable ==
  \A a \in acked : a.id \in DOMAIN table /\ table[a.id].body = Jsonb(a.body)

\* Tampering is reported where it was done.  A row whose content is altered after it was
\* written is the row verify_chain names; if its this_hash is recomputed to match, the row
\* after it is named; and so is the row after one that was removed from before the end.
TamperingIsReported ==
  \A i \in DOMAIN table :
    LET edited(b)   == [table EXCEPT ![i].body = b]
        rehashed(b) == [edited(b) EXCEPT ![i].this_hash =
                          compute_entry_hash(table[i].prev_hash, edited(b)[i])]
        rest        == [j \in DOMAIN table \ {i} |-> table[j]]
        NamesNext(log) == /\ ~ verify_chain(log).valid
                          /\ Before(table, verify_chain(log).first_mismatch_id)
                               = Before(table, i) \cup {i}
    IN /\ \A b \in Bodies \ {table[i].body} : verify_chain(edited(b)).first_mismatch_id = i
       /\ ~ IsLast(DOMAIN table, i) =>
            /\ \A b \in Bodies \ {table[i].body} : NamesNext(rehashed(b))
            /\ NamesNext(rest)

\* A started write_entry comes to an end: the lock is never left with a writer
\* that is gone, and waiting for it does not last forever.
WriteEntryReturns == \A w \in Writers : pc[w] = "lock" ~> pc[w] = "idle"

\* Every step of every writer is a step of the promised log: one linked row is
\* added at the end, or nothing happens.
Log == INSTANCE AuditLog
ImplementsAuditLog == Log!Spec
=============================================================================
