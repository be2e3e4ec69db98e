-------------------------- MODULE AuditStoreProofs --------------------------
(***************************************************************************)
(* Theorems about AuditStore, for any set of writers, any contents and any *)
(* number of rows.                                                         *)
(***************************************************************************)
EXTENDS AuditStore, TLAPS

(***************************************************************************)
(* The inductive invariant.  The lock is what makes HeadInv inductive:     *)
(* a writer that has read the head is inside, nobody else is, and nobody   *)
(* outside can change the table or draw an id.                             *)
(***************************************************************************)

\* The lock is held by the writer that is inside, and by nobody else.
LockInv == \A w \in Writers : Inside(w) <=> lock = w

\* Ids in the table have been drawn; the one of an uncommitted row is the latest.
SequenceInv ==
  /\ \A i \in DOMAIN table : i <= seq
  /\ \A w \in Writers : pc[w] = "commit" => flushed[w] = seq /\ seq # 0

\* Every non-empty initial part of the table has a last row, so that LastHash
\* is the hash of a row.
LastInv ==
  /\ DOMAIN table # {} => \E m \in DOMAIN table : IsLast(DOMAIN table, m)
  /\ \A i \in DOMAIN table :
       Before(table, i) # {} => \E m \in Before(table, i) : IsLast(Before(table, i), m)

\* The part of HeadIsFresh that is about the chain.
HeadInv == \A w \in Writers : FreshHead(w)

\* The inductive invariant.
Inv == TypeOK /\ LockInv /\ SequenceInv /\ LastInv /\ HeadInv /\ AckedIsDurable

-----------------------------------------------------------------------------
\* The head of a table is the hash of one of its rows, or GENESIS_HASH.
LEMMA LastHashIs ==
  ASSUME NEW t, NEW ids, NEW m \in ids, ids \subseteq Nat, IsLast(ids, m)
  PROVE  LastHash(t, ids) = t[m].this_hash
<1>1. \A k \in ids : IsLast(ids, k) => k = m
  BY DEF IsLast
<1>2. (CHOOSE k \in ids : IsLast(ids, k)) = m
  BY <1>1
<1> QED
  BY <1>2 DEF LastHash

\* Appending a row leaves the head of every initial part of the table alone.
LEMMA LastHashKept ==
  ASSUME NEW t, NEW id \in Nat, NEW row, NEW ids,
         ids \subseteq DOMAIN t, DOMAIN t \subseteq Nat, id \notin DOMAIN t,
         ids # {} => \E m \in ids : IsLast(ids, m)
  PROVE  LastHash(AddRow(t, id, row), ids) = LastHash(t, ids)
<1>1. CASE ids = {}
  BY <1>1 DEF LastHash
<1>2. CASE ids # {}
  <2>1. PICK m \in ids : IsLast(ids, m)
    BY <1>2
  <2>2. AddRow(t, id, row)[m] = t[m]
    BY <2>1 DEF AddRow
  <2> QED
    BY <2>1, <2>2, LastHashIs
<1> QED
  BY <1>1, <1>2

\* The same for the whole table, by the name HeadInv uses.
LEMMA NewHead ==
  ASSUME NEW t, NEW id \in Nat, NEW row, DOMAIN t \subseteq Nat, \A i \in DOMAIN t : i < id
  PROVE  /\ DOMAIN AddRow(t, id, row) = DOMAIN t \cup {id}
         /\ AddRow(t, id, row)[id] = row
         /\ \A i \in DOMAIN t : AddRow(t, id, row)[i] = t[i]
         /\ id \notin DOMAIN t
         /\ IsLast(DOMAIN AddRow(t, id, row), id)
         /\ Before(AddRow(t, id, row), id) = DOMAIN t
         /\ \A i \in DOMAIN t : Before(AddRow(t, id, row), i) = Before(t, i)
  BY DEF AddRow, IsLast, Before

-----------------------------------------------------------------------------
\* The empty table, the free lock and the idle writers satisfy the invariant.
LEMMA InitInv == Init => Inv
<1> SUFFICES ASSUME Init PROVE Inv
  OBVIOUS
<1> USE StoreAssumption DEF Init
<1>1. TypeOK
  BY DEF TypeOK, InTransaction
<1>2. LockInv /\ SequenceInv /\ LastInv /\ HeadInv /\ AckedIsDurable
  BY DEF LockInv, SequenceInv, LastInv, HeadInv, FreshHead, AckedIsDurable, Inside
<1> QED
  BY <1>1, <1>2 DEF Inv

\* A step that ends a transaction without touching the table keeps the invariant.
LEMMA RollbackInv ==
  ASSUME Inv, NEW w \in Writers, Rollback(w)
  PROVE  Inv'
<1> USE StoreAssumption DEF Inv, Rollback, EndTransaction
<1>1. TypeOK'
  BY DEF TypeOK, InTransaction
<1>2. LockInv'
  BY DEF LockInv, Inside, TypeOK, InTransaction
<1>3. SequenceInv' /\ LastInv'
  BY DEF SequenceInv, LastInv, TypeOK, IsLast, Before
<1>4. HeadInv' /\ AckedIsDurable'
  BY DEF HeadInv, FreshHead, AckedIsDurable, TypeOK
<1> QED
  BY <1>1, <1>2, <1>3, <1>4

\* The writer that commits is inside, and so nobody else is.
LEMMA CommitRowInv ==
  ASSUME Inv, NEW w \in Writers, CommitRow(w)
  PROVE  /\ flushed[w] \in 1..MaxId /\ \A i \in DOMAIN table : i < flushed[w]
         /\ LockInv' /\ SequenceInv' /\ LastInv' /\ HeadInv'
<1> USE StoreAssumption DEF CommitRow, EndTransaction
<1> DEFINE id  == flushed[w]
           row == NewRow(prev[w], body[w])
<1>0. TypeOK /\ LockInv /\ SequenceInv /\ LastInv /\ HeadInv /\ pc[w] = "commit"
  BY DEF Inv
<1>1. /\ id \in 1..MaxId /\ id = seq
      /\ \A i \in DOMAIN table : i < id
      /\ DOMAIN table \subseteq Nat
  BY <1>0 DEF TypeOK, SequenceInv, HeadInv, FreshHead
<1>2. /\ table' = AddRow(table, id, row)
      /\ DOMAIN table' = DOMAIN table \cup {id}
      /\ IsLast(DOMAIN table', id)
      /\ Before(table', id) = DOMAIN table
      /\ \A i \in DOMAIN table : Before(table', i) = Before(table, i)
  <2>1. table' = AddRow(table, id, row)
    OBVIOUS
  <2> HIDE DEF id, row
  <2> QED
    BY ONLY <2>1, <1>1, NewHead
<1>3. \A v \in Writers \ {w} : ~ Inside(v) /\ pc'[v] = pc[v]
  BY <1>0 DEF LockInv, TypeOK, Inside
<1>4. LockInv'
  BY <1>0, <1>3 DEF LockInv, Inside, TypeOK
<1>5. SequenceInv'
  BY <1>0, <1>1, <1>2, <1>3 DEF SequenceInv, TypeOK, Inside
<1>6. LastInv'
  BY <1>0, <1>1, <1>2 DEF LastInv
<1>7. HeadInv'
  BY <1>0, <1>3 DEF HeadInv, FreshHead, TypeOK, Inside
<1> QED
  BY <1>1, <1>4, <1>5, <1>6, <1>7

\* Every step of every writer keeps the invariant; one step of the proof per action.
LEMMA NextInv == Inv /\ [Next]_vars => Inv'
<1> SUFFICES ASSUME Inv, [Next]_vars PROVE Inv'
  OBVIOUS
<1> USE StoreAssumption
<1>0. TypeOK /\ LockInv /\ SequenceInv /\ LastInv /\ HeadInv /\ AckedIsDurable
  BY DEF Inv
<1>1. ASSUME NEW w \in Writers, Prepare(w) PROVE Inv'
  <2> USE <1>0, <1>1 DEF Prepare
  <2>1. TypeOK'
    BY DEF TypeOK, InTransaction
  <2>2. LockInv' /\ SequenceInv' /\ LastInv'
    BY DEF LockInv, SequenceInv, LastInv, Inside, TypeOK, IsLast, Before
  <2>3. HeadInv' /\ AckedIsDurable'
    BY DEF HeadInv, FreshHead, AckedIsDurable, TypeOK
  <2> QED
    BY <2>1, <2>2, <2>3 DEF Inv
<1>2. ASSUME NEW w \in Writers, AcquireChainLock(w) PROVE Inv'
  <2> USE <1>0, <1>2 DEF AcquireChainLock
  <2>1. TypeOK'
    BY DEF TypeOK, InTransaction
  <2>2. LockInv'
    BY DEF LockInv, Inside, TypeOK
  <2>3. SequenceInv' /\ LastInv'
    BY DEF SequenceInv, LastInv, TypeOK, IsLast, Before
  <2>4. HeadInv' /\ AckedIsDurable'
    BY DEF HeadInv, FreshHead, AckedIsDurable, TypeOK
  <2> QED
    BY <2>1, <2>2, <2>3, <2>4 DEF Inv
<1>3. ASSUME NEW w \in Writers, ReadHead(w) PROVE Inv'
  <2> USE <1>0, <1>3 DEF ReadHead
  <2>1. TypeOK'
    BY DEF TypeOK, InTransaction
  <2>2. LockInv'
    BY DEF LockInv, Inside, TypeOK
  <2>3. SequenceInv' /\ LastInv'
    BY DEF SequenceInv, LastInv, TypeOK, IsLast, Before
  <2>4. HeadInv' /\ AckedIsDurable'
    BY DEF HeadInv, FreshHead, AckedIsDurable, TypeOK
  <2> QED
    BY <2>1, <2>2, <2>3, <2>4 DEF Inv
<1>4. ASSUME NEW w \in Writers, Insert(w) PROVE Inv'
  <2> USE <1>0, <1>4 DEF Insert
  <2>1. TypeOK'
    BY DEF TypeOK, InTransaction
  <2>2. LockInv'
    BY DEF LockInv, Inside, TypeOK
  <2>3. \A v \in Writers \ {w} : pc[v] # "commit"
    BY DEF LockInv, Inside
  <2>4. SequenceInv' /\ LastInv'
    BY <2>3 DEF SequenceInv, LastInv, TypeOK, IsLast, Before
  <2>5. HeadInv'
    BY <2>3 DEF HeadInv, FreshHead, SequenceInv, TypeOK
  <2>6. AckedIsDurable'
    BY DEF AckedIsDurable
  <2> QED
    BY <2>1, <2>2, <2>4, <2>5, <2>6 DEF Inv
<1>5. ASSUME NEW w \in Writers, CommitRow(w),
             acked' \in {acked, acked \cup {[id |-> flushed[w], body |-> body[w]]}}
      PROVE  Inv'
  <2>1. /\ flushed[w] \in 1..MaxId /\ (\A i \in DOMAIN table : i < flushed[w])
        /\ LockInv' /\ SequenceInv' /\ LastInv' /\ HeadInv'
    BY <1>5, CommitRowInv
  <2>2. /\ table' = AddRow(table, flushed[w], NewRow(prev[w], body[w]))
        /\ DOMAIN table' = DOMAIN table \cup {flushed[w]}
        /\ table'[flushed[w]] = NewRow(prev[w], body[w])
        /\ \A i \in DOMAIN table : table'[i] = table[i]
    BY <1>5, <2>1 DEF CommitRow, AddRow
  <2>3. body[w] \in Bodies /\ Jsonb(body[w]) \in Numbers
    BY <1>0 DEF TypeOK, Jsonb, Numbers
  <2>4. NewRow(prev[w], body[w]).body = Jsonb(body[w])
    BY DEF NewRow
  <2>5. TypeOK'
    <3>1. DOMAIN table' \subseteq 1..MaxId /\ \A i \in DOMAIN table' : table'[i].body \in Numbers
      BY <1>0, <2>1, <2>2, <2>3, <2>4 DEF TypeOK
    <3>2. acked' \subseteq [id : 1..MaxId, body : Bodies]
      BY <1>0, <1>5, <2>1, <2>3 DEF TypeOK
    <3> QED
      BY <1>0, <1>5, <3>1, <3>2 DEF TypeOK, CommitRow, EndTransaction, InTransaction
  <2>6. AckedIsDurable'
    <3> SUFFICES ASSUME NEW a \in acked'
                 PROVE  a.id \in DOMAIN table' /\ table'[a.id].body = Jsonb(a.body)
      BY DEF AckedIsDurable
    <3>1. CASE a \in acked
      BY <1>0, <2>2, <3>1 DEF AckedIsDurable
    <3>2. CASE a = [id |-> flushed[w], body |-> body[w]]
      BY <2>2, <2>4, <3>2
    <3> QED
      BY <1>5, <3>1, <3>2
  <2> QED
    BY <2>1, <2>5, <2>6 DEF Inv
<1>6. ASSUME NEW w \in Writers, Commit(w) \/ CommitUnacked(w) PROVE Inv'
  BY <1>5, <1>6 DEF Commit, CommitUnacked
<1>7. ASSUME NEW w \in Writers, Rollback(w) PROVE Inv'
  BY <1>7, RollbackInv
<1>8. CASE UNCHANGED vars
  BY <1>0, <1>8 DEF vars, Inv, TypeOK, LockInv, SequenceInv, LastInv, HeadInv, FreshHead,
                   AckedIsDurable, Inside, IsLast, Before
<1> QED
  BY <1>1, <1>2, <1>3, <1>4, <1>6, <1>7, <1>8 DEF Next, Exhausted

\* The inductive invariant holds throughout every behaviour of write_entry.
LEMMA InvHolds == Spec => []Inv
<1>1. Init => Inv
  BY InitInv
<1>2. Inv /\ [Next]_vars => Inv'
  BY NextInv
<1> QED
  BY <1>1, <1>2, PTL DEF Spec

-----------------------------------------------------------------------------
(***************************************************************************)
(* The theorems.                                                           *)
(***************************************************************************)

\* Type correctness of write_entry's state.
THEOREM TypeCorrect == Spec => []TypeOK
<1>1. Inv => TypeOK
  BY DEF Inv
<1> QED
  BY <1>1, InvHolds, PTL

\* The advisory lock does its work: between the read of the latest hash and the
\* commit no other writer moves the head of the chain.
THEOREM HeadStaysFresh == Spec => []HeadIsFresh
<1>1. Inv => HeadIsFresh
  BY DEF Inv, HeadInv, HeadIsFresh
<1> QED
  BY <1>1, InvHolds, PTL

\* An entry that write_entry returned is never lost.
THEOREM AckedEntriesAreDurable == Spec => []AckedIsDurable
<1>1. Inv => AckedIsDurable
  BY DEF Inv
<1> QED
  BY <1>1, InvHolds, PTL

\* A committed row keeps the chain intact when its content survives storage.
LEMMA CommitKeepsChain ==
  ASSUME StableBodies, Inv, HonestLogVerifies, NEW w \in Writers, CommitRow(w)
  PROVE  HonestLogVerifies'
<1> DEFINE id  == flushed[w]
           row == NewRow(prev[w], body[w])
<1>1. /\ id \in Nat /\ (\A i \in DOMAIN table : i < id) /\ DOMAIN table \subseteq Nat
      /\ prev[w] = LastHash(table, DOMAIN table)
      /\ Jsonb(body[w]) = body[w]
      /\ LastInv
  BY CommitRowInv, StoreAssumption
     DEF Inv, TypeOK, HeadInv, FreshHead, CommitRow, StableBodies
<1>2. table' = AddRow(table, id, row)
  BY DEF CommitRow
<1>3. /\ row.prev_hash = prev[w]
      /\ row.this_hash = compute_entry_hash(prev[w], row)
  BY <1>1 DEF NewRow, compute_entry_hash, hashable_payload
<1> HIDE DEF id, row
<1>4. /\ DOMAIN table' = DOMAIN table \cup {id}
      /\ table'[id] = row
      /\ \A i \in DOMAIN table : table'[i] = table[i]
      /\ id \notin DOMAIN table
      /\ Before(table', id) = DOMAIN table
      /\ \A i \in DOMAIN table : Before(table', i) = Before(table, i)
  <2>1. id \in Nat /\ DOMAIN table \subseteq Nat /\ \A i \in DOMAIN table : i < id
    BY <1>1
  <2> DEFINE t == AddRow(table, id, row)
  <2>2. /\ DOMAIN t = DOMAIN table \cup {id}
        /\ t[id] = row
        /\ \A i \in DOMAIN table : t[i] = table[i]
        /\ id \notin DOMAIN table
        /\ Before(t, id) = DOMAIN table
        /\ \A i \in DOMAIN table : Before(t, i) = Before(table, i)
    BY <2>1 DEF AddRow, Before
  <2> QED
    BY <1>2, <2>2
<1>5. LastHash(table', DOMAIN table) = LastHash(table, DOMAIN table)
  <2>1. DOMAIN table # {} => \E m \in DOMAIN table : IsLast(DOMAIN table, m)
    BY <1>1 DEF LastInv
  <2> QED
    BY ONLY <2>1, <1>1, <1>2, <1>4, LastHashKept
<1>6. ASSUME NEW i \in DOMAIN table
      PROVE  LastHash(table', Before(table, i)) = LastHash(table, Before(table, i))
  <2>1. /\ Before(table, i) \subseteq DOMAIN table
        /\ Before(table, i) # {} => \E m \in Before(table, i) : IsLast(Before(table, i), m)
    BY <1>1 DEF LastInv, Before
  <2> QED
    BY ONLY <2>1, <1>1, <1>2, <1>4, LastHashKept
<1>7. ~ Mismatch(table', id)
  BY <1>1, <1>3, <1>4, <1>5 DEF Mismatch
<1>8. ASSUME NEW i \in DOMAIN table PROVE ~ Mismatch(table', i)
  <2>1. ~ Mismatch(table, i)
    BY DEF HonestLogVerifies, Mismatches
  <2> QED
    BY <2>1, <1>4, <1>6 DEF Mismatch
<1> QED
  BY <1>4, <1>7, <1>8 DEF HonestLogVerifies, Mismatches

\* However many writers race, fail or lose their reply, verify_chain accepts the
\* log, provided that every content comes back from the database as it was.
THEOREM ChainIntact == ASSUME StableBodies PROVE Spec => []HonestLogVerifies
<1>1. Init => HonestLogVerifies
  BY DEF Init, HonestLogVerifies, Mismatches
<1>2. Inv /\ HonestLogVerifies /\ [Next]_vars => HonestLogVerifies'
  <2> SUFFICES ASSUME Inv, HonestLogVerifies, [Next]_vars PROVE HonestLogVerifies'
    OBVIOUS
  <2>1. ASSUME NEW w \in Writers, CommitRow(w) PROVE HonestLogVerifies'
    BY <2>1, StableBodies, CommitKeepsChain
  <2>2. CASE table' = table
    BY <2>2 DEF HonestLogVerifies, Mismatches, Mismatch
  <2>3. table' = table \/ \E w \in Writers : CommitRow(w)
    BY DEF Next, vars, Prepare, AcquireChainLock, ReadHead, Insert, Commit, CommitUnacked,
           Rollback, Exhausted
  <2> QED
    BY <2>1, <2>2, <2>3
<1> QED
  BY <1>1, <1>2, InvHolds, PTL DEF Spec

-----------------------------------------------------------------------------
\* The head of the chain means the same in the abstract log.
LEMMA SameHead == ASSUME NEW t, NEW ids PROVE Log!LastHash(t, ids) = LastHash(t, ids)
  BY DEF Log!LastHash, LastHash, Log!IsLast, IsLast, Log!GENESIS_HASH, GENESIS_HASH

\* AuditStore implements AuditLog: seen from outside, write_entry either adds one
\* linked row after all the others in one step, or does nothing.
THEOREM StoreImplementsLog == Spec => ImplementsAuditLog
<1>1. Init => Log!Init
  BY DEF Init, Log!Init, Log!GENESIS_HASH, GENESIS_HASH
<1>2. Inv /\ [Next]_vars => [Log!AppendEntry]_table
  <2> SUFFICES ASSUME Inv, [Next]_vars PROVE table' = table \/ Log!AppendEntry
    OBVIOUS
  <2>1. ASSUME NEW w \in Writers, CommitRow(w) PROVE Log!AppendEntry
    <3>1. /\ flushed[w] \in 1..MaxId
          /\ \A i \in DOMAIN table : i < flushed[w]
          /\ body[w] \in Bodies
          /\ prev[w] = LastHash(table, DOMAIN table)
      BY <2>1, CommitRowInv DEF Inv, TypeOK, HeadInv, FreshHead, CommitRow
    <3>2. Log!NewRow(prev[w], body[w]) = NewRow(prev[w], body[w])
      BY DEF Log!NewRow, NewRow, Log!compute_entry_hash, compute_entry_hash,
             Log!hashable_payload, hashable_payload, Log!Jsonb, Jsonb
    <3>3. table' = Log!AddRow(table, flushed[w],
                              Log!NewRow(Log!LastHash(table, DOMAIN table), body[w]))
      BY <2>1, <3>1, <3>2, SameHead DEF CommitRow, AddRow, Log!AddRow
    <3> QED
      BY <3>1, <3>3 DEF Log!AppendEntry
  <2>2. table' = table \/ \E w \in Writers : CommitRow(w)
    BY DEF Next, vars, Prepare, AcquireChainLock, ReadHead, Insert, Commit, CommitUnacked,
           Rollback, Exhausted
  <2> QED
    BY <2>1, <2>2
<1> QED
  BY <1>1, <1>2, InvHolds, PTL DEF Spec, ImplementsAuditLog, Log!Spec

-----------------------------------------------------------------------------
(***************************************************************************)
(* Tampering.  Beyond HonestLogVerifies this needs the rows' shape, that a *)
(* row has a next one unless it is the last, and that no two rows have the *)
(* same hash: the hash of a row says which row comes before it, and so on  *)
(* down to GENESIS_HASH, which is the hash of none.                        *)
(***************************************************************************)

ChainInv ==
  /\ HonestLogVerifies
  /\ \A i \in DOMAIN table :
       table[i] = [body |-> table[i].body, prev_hash |-> table[i].prev_hash,
                   this_hash |-> table[i].this_hash]
  /\ \A i \in DOMAIN table :
       IsLast(DOMAIN table, i) \/ \E k \in DOMAIN table : Before(table, k) = Before(table, i) \cup {i}
  /\ \A i \in DOMAIN table : table[i].this_hash # GENESIS_HASH
  /\ \A i, j \in DOMAIN table : table[i].this_hash = table[j].this_hash => i = j

\* What the chain says of a row: its hash and its link.
LEMMA RowIsLinked ==
  ASSUME HonestLogVerifies, NEW i \in DOMAIN table
  PROVE  /\ table[i].prev_hash = LastHash(table, Before(table, i))
         /\ table[i].this_hash = <<LastHash(table, Before(table, i)),
                                   [body |-> table[i].body, prev_hash |-> table[i].prev_hash]>>
<1>1. ~ Mismatch(table, i)
  BY DEF HonestLogVerifies, Mismatches
<1> QED
  BY <1>1 DEF Mismatch, compute_entry_hash, hashable_payload

\* A committed row has a hash that no row before it has.
LEMMA CommitKeepsDistinct ==
  ASSUME StableBodies, Inv, ChainInv, NEW w \in Writers, CommitRow(w)
  PROVE  ChainInv'
<1> DEFINE id  == flushed[w]
           row == NewRow(prev[w], body[w])
<1>1. /\ id \in Nat /\ (\A i \in DOMAIN table : i < id) /\ DOMAIN table \subseteq Nat
      /\ prev[w] = LastHash(table, DOMAIN table)
      /\ LastInv
  BY CommitRowInv, StoreAssumption DEF Inv, TypeOK, HeadInv, FreshHead, CommitRow
<1>2. table' = AddRow(table, id, row)
  BY DEF CommitRow
<1>3. /\ row = [body |-> row.body, prev_hash |-> row.prev_hash, this_hash |-> row.this_hash]
      /\ row.this_hash = <<prev[w], [body |-> body[w], prev_hash |-> prev[w]]>>
  BY DEF NewRow, compute_entry_hash, hashable_payload
<1>4. row.this_hash # GENESIS_HASH
  BY <1>3 DEF GENESIS_HASH
<1> HIDE DEF id, row
<1>5. /\ DOMAIN table' = DOMAIN table \cup {id}
      /\ table'[id] = row
      /\ \A i \in DOMAIN table : table'[i] = table[i]
      /\ id \notin DOMAIN table
      /\ Before(table', id) = DOMAIN table
      /\ \A i \in DOMAIN table : Before(table', i) = Before(table, i)
      /\ IsLast(DOMAIN table', id)
  <2> DEFINE t == AddRow(table, id, row)
  <2>1. /\ DOMAIN t = DOMAIN table \cup {id}
        /\ t[id] = row
        /\ \A i \in DOMAIN table : t[i] = table[i]
        /\ id \notin DOMAIN table
        /\ IsLast(DOMAIN t, id)
        /\ Before(t, id) = DOMAIN table
        /\ \A i \in DOMAIN table : Before(t, i) = Before(table, i)
    BY <1>1 DEF AddRow, Before, IsLast
  <2> QED
    BY <1>2, <2>1
<1>6. HonestLogVerifies'
  BY CommitKeepsChain DEF ChainInv
<1>7. ASSUME NEW i \in DOMAIN table'
      PROVE  IsLast(DOMAIN table', i)
               \/ \E k \in DOMAIN table' : Before(table', k) = Before(table', i) \cup {i}
  <2>1. CASE i \in DOMAIN table /\ IsLast(DOMAIN table, i)
    <3>1. DOMAIN table = Before(table, i) \cup {i}
      BY <1>1, <2>1 DEF IsLast, Before
    <3> QED
      BY <1>5, <2>1, <3>1
  <2>2. CASE i \in DOMAIN table /\ ~ IsLast(DOMAIN table, i)
    BY <1>5, <2>2 DEF ChainInv
  <2> QED
    BY <1>5, <2>1, <2>2
<1>8. ASSUME NEW j \in DOMAIN table
      PROVE  table[j].this_hash # row.this_hash
  <2> SUFFICES ASSUME table[j].this_hash = row.this_hash PROVE FALSE
    OBVIOUS
  <2>1. LastHash(table, Before(table, j)) = LastHash(table, DOMAIN table)
    <3>1. table[j].this_hash = <<LastHash(table, Before(table, j)),
                                 [body |-> table[j].body, prev_hash |-> table[j].prev_hash]>>
      BY RowIsLinked DEF ChainInv
    <3> QED
      BY <1>1, <1>3, <3>1
  <2>2. PICK m \in DOMAIN table : IsLast(DOMAIN table, m)
    BY <1>1 DEF LastInv
  <2>3. LastHash(table, DOMAIN table) = table[m].this_hash
    BY <1>1, <2>2, LastHashIs
  <2>4. CASE Before(table, j) = {}
    BY <2>1, <2>3, <2>4 DEF ChainInv, LastHash
  <2>5. CASE Before(table, j) # {}
    <3>1. PICK p \in Before(table, j) : IsLast(Before(table, j), p)
      BY <1>1, <2>5 DEF LastInv
    <3>2. Before(table, j) \subseteq Nat /\ p \in DOMAIN table /\ p < j /\ j <= m
      BY <1>1, <2>2, <3>1 DEF Before, IsLast
    <3>3. LastHash(table, Before(table, j)) = table[p].this_hash
      BY <3>1, <3>2, LastHashIs
    <3>4. p = m
      BY <2>1, <2>3, <3>2, <3>3 DEF ChainInv
    <3> QED
      BY <1>1, <3>2, <3>4
  <2> QED
    BY <2>4, <2>5
<1>9. \A i \in DOMAIN table' :
        /\ table'[i] = [body |-> table'[i].body, prev_hash |-> table'[i].prev_hash,
                        this_hash |-> table'[i].this_hash]
        /\ table'[i].this_hash # GENESIS_HASH
  BY <1>3, <1>4, <1>5 DEF ChainInv
<1>10. \A i, j \in DOMAIN table' : table'[i].this_hash = table'[j].this_hash => i = j
  BY <1>5, <1>8 DEF ChainInv
<1>11. GENESIS_HASH' = GENESIS_HASH
  BY DEF GENESIS_HASH
<1> QED
  BY <1>6, <1>7, <1>9, <1>10, <1>11 DEF ChainInv

\* verify_chain names the first row that does not fit.
LEMMA FirstMismatch ==
  ASSUME NEW t, NEW k \in DOMAIN t, DOMAIN t \subseteq Nat, Mismatch(t, k),
         \A j \in DOMAIN t : j < k => ~ Mismatch(t, j)
  PROVE  ~ verify_chain(t).valid /\ verify_chain(t).first_mismatch_id = k
<1> DEFINE bad == Mismatches(t)
<1>1. k \in bad /\ bad \subseteq Nat /\ \A j \in bad : k <= j
  BY DEF Mismatches
<1>2. (CHOOSE i \in bad : \A j \in bad : i <= j) = k
  <2> HIDE DEF bad
  <2>1. \A i \in bad : (\A j \in bad : i <= j) => i = k
    BY <1>1
  <2> QED
    BY <1>1, <2>1
<1> QED
  BY <1>1, <1>2 DEF verify_chain

\* A log that is the table as far as row i has the table's links as far as there.
LEMMA SameSoFar ==
  ASSUME Inv, HonestLogVerifies, NEW i \in DOMAIN table, NEW t,
         DOMAIN t \subseteq DOMAIN table,
         \A j \in Before(table, i) : j \in DOMAIN t /\ t[j] = table[j]
  PROVE  /\ DOMAIN t \subseteq Nat /\ Before(t, i) = Before(table, i)
         /\ LastHash(t, Before(table, i)) = LastHash(table, Before(table, i))
         /\ \A j \in DOMAIN t : j < i => ~ Mismatch(t, j)
<1>1. DOMAIN table \subseteq Nat /\ DOMAIN t \subseteq Nat /\ LastInv
  BY DEF Inv, TypeOK
<1>2. ASSUME NEW j \in DOMAIN table, j <= i
      PROVE  /\ Before(t, j) = Before(table, j)
             /\ LastHash(t, Before(table, j)) = LastHash(table, Before(table, j))
  <2>1. /\ Before(t, j) = Before(table, j) /\ Before(table, j) \subseteq Nat
        /\ \A m \in Before(table, j) : t[m] = table[m]
    BY <1>1, <1>2 DEF Before
  <2>2. CASE Before(table, j) = {}
    BY <2>1, <2>2 DEF LastHash
  <2>3. CASE Before(table, j) # {}
    <3>1. PICK m \in Before(table, j) : IsLast(Before(table, j), m)
      BY <1>1, <2>3 DEF LastInv
    <3> QED
      BY <2>1, <3>1, LastHashIs
  <2> QED
    BY <2>1, <2>2, <2>3
<1>3. ASSUME NEW j \in DOMAIN t, j < i PROVE ~ Mismatch(t, j)
  <2>1. j \in DOMAIN table /\ t[j] = table[j] /\ j <= i
    BY <1>1, <1>3 DEF Before
  <2>2. ~ Mismatch(table, j)
    BY <2>1 DEF HonestLogVerifies, Mismatches
  <2> QED
    BY <1>2, <2>1, <2>2 DEF Mismatch
<1> QED
  BY <1>1, <1>2, <1>3

\* An altered content: the row's own hash gives it away.
LEMMA EditIsNamed ==
  ASSUME Inv, ChainInv, NEW i \in DOMAIN table, NEW b, b # table[i].body
  PROVE  verify_chain([table EXCEPT ![i].body = b]).first_mismatch_id = i
<1> DEFINE t == [table EXCEPT ![i].body = b]
<1>1. DOMAIN t = DOMAIN table /\ \A j \in DOMAIN table : j # i => t[j] = table[j]
  OBVIOUS
<1>2. t[i].body = b /\ t[i].prev_hash = table[i].prev_hash /\ t[i].this_hash = table[i].this_hash
  <2>1. t[i] = [table[i] EXCEPT !.body = b]
    OBVIOUS
  <2>2. table[i] = [body |-> table[i].body, prev_hash |-> table[i].prev_hash,
                    this_hash |-> table[i].this_hash]
    BY DEF ChainInv
  <2> HIDE DEF t
  <2> QED
    BY <2>1, <2>2
<1> HIDE DEF t
<1>3. /\ DOMAIN t \subseteq Nat /\ Before(t, i) = Before(table, i)
      /\ LastHash(t, Before(table, i)) = LastHash(table, Before(table, i))
      /\ \A j \in DOMAIN t : j < i => ~ Mismatch(t, j)
  <2>1. \A j \in Before(table, i) : j \in DOMAIN t /\ t[j] = table[j]
    BY <1>1 DEF Before, Inv, TypeOK
  <2> QED
    BY <1>1, <2>1, SameSoFar DEF ChainInv
<1>4. Mismatch(t, i)
  <2>1. table[i].this_hash = <<LastHash(table, Before(table, i)),
                               [body |-> table[i].body, prev_hash |-> table[i].prev_hash]>>
    BY RowIsLinked DEF ChainInv
  <2>2. [body |-> b, prev_hash |-> table[i].prev_hash]
          # [body |-> table[i].body, prev_hash |-> table[i].prev_hash]
    OBVIOUS
  <2> QED
    BY <1>2, <1>3, <2>1, <2>2 DEF Mismatch, compute_entry_hash, hashable_payload
<1>5. verify_chain(t).first_mismatch_id = i
  BY <1>1, <1>3, <1>4, FirstMismatch
<1> QED
  BY <1>5 DEF t

\* The next row's link gives away a row that was rehashed.
LEMMA RehashIsNamed ==
  ASSUME Inv, ChainInv, NEW i \in DOMAIN table, NEW b, b # table[i].body,
         NEW k \in DOMAIN table, Before(table, k) = Before(table, i) \cup {i},
         NEW t, DOMAIN t = DOMAIN table, \A j \in DOMAIN table : j # i => t[j] = table[j],
         t[i].body = b, t[i].prev_hash = table[i].prev_hash,
         t[i].this_hash = <<table[i].prev_hash, [body |-> b, prev_hash |-> table[i].prev_hash]>>
  PROVE  ~ verify_chain(t).valid /\ verify_chain(t).first_mismatch_id = k
<1>1. DOMAIN table \subseteq Nat /\ i < k /\ \A j \in DOMAIN table : j < k => j < i \/ j = i
  BY DEF Inv, TypeOK, Before
<1>2. /\ DOMAIN t \subseteq Nat /\ Before(t, i) = Before(table, i)
      /\ LastHash(t, Before(table, i)) = LastHash(table, Before(table, i))
      /\ \A j \in DOMAIN t : j < i => ~ Mismatch(t, j)
  <2>1. \A j \in Before(table, i) : j \in DOMAIN t /\ t[j] = table[j]
    BY <1>1 DEF Before
  <2> QED
    BY <2>1, SameSoFar DEF ChainInv
<1>3. /\ table[i].prev_hash = LastHash(table, Before(table, i))
      /\ table[i].this_hash = <<LastHash(table, Before(table, i)),
                                [body |-> table[i].body, prev_hash |-> table[i].prev_hash]>>
      /\ table[k].prev_hash = LastHash(table, Before(table, k))
  BY RowIsLinked DEF ChainInv
<1>4. ~ Mismatch(t, i)
  BY <1>2, <1>3 DEF Mismatch, compute_entry_hash, hashable_payload
<1>5. Before(t, k) = Before(table, k) /\ IsLast(Before(table, k), i) /\ Before(table, k) \subseteq Nat
  BY <1>1 DEF Before, IsLast
<1>6. LastHash(t, Before(t, k)) = t[i].this_hash /\ LastHash(table, Before(table, k)) = table[i].this_hash
  BY <1>5, LastHashIs, ZenonT(60)
<1>7. t[i].this_hash # table[i].this_hash
  <2>1. [body |-> b, prev_hash |-> table[i].prev_hash]
          # [body |-> table[i].body, prev_hash |-> table[i].prev_hash]
    OBVIOUS
  <2> QED
    BY <1>3, <2>1
<1>8. Mismatch(t, k)
  BY <1>1, <1>3, <1>6, <1>7 DEF Mismatch
<1>9. \A j \in DOMAIN t : j < k => ~ Mismatch(t, j)
  BY <1>1, <1>2, <1>4
<1> QED
  BY <1>2, <1>8, <1>9, FirstMismatch

\* So it does a row that was removed.
LEMMA RemovalIsNamed ==
  ASSUME Inv, ChainInv, NEW i \in DOMAIN table,
         NEW k \in DOMAIN table, Before(table, k) = Before(table, i) \cup {i},
         NEW t, DOMAIN t = DOMAIN table \ {i}, \A j \in DOMAIN t : t[j] = table[j]
  PROVE  ~ verify_chain(t).valid /\ verify_chain(t).first_mismatch_id = k
<1>1. DOMAIN table \subseteq Nat /\ i < k /\ \A j \in DOMAIN table : j < k => j < i \/ j = i
  BY DEF Inv, TypeOK, Before
<1>2. /\ DOMAIN t \subseteq Nat /\ Before(t, i) = Before(table, i)
      /\ LastHash(t, Before(table, i)) = LastHash(table, Before(table, i))
      /\ \A j \in DOMAIN t : j < i => ~ Mismatch(t, j)
  <2>1. \A j \in Before(table, i) : j \in DOMAIN t /\ t[j] = table[j]
    BY <1>1 DEF Before
  <2> QED
    BY <2>1, SameSoFar DEF ChainInv
<1>3. /\ table[k].prev_hash = table[i].this_hash /\ k \in DOMAIN t
      /\ Before(t, k) = Before(table, i)
  <2>1. IsLast(Before(table, k), i) /\ Before(table, k) \subseteq Nat
    BY <1>1 DEF Before, IsLast
  <2>2. LastHash(table, Before(table, k)) = table[i].this_hash
    BY <2>1, LastHashIs
  <2>3. table[k].prev_hash = LastHash(table, Before(table, k))
    BY RowIsLinked DEF ChainInv
  <2> QED
    BY <1>1, <2>2, <2>3 DEF Before
<1>4. LastHash(table, Before(table, i)) # table[i].this_hash
  <2>1. CASE Before(table, i) = {}
    BY <2>1 DEF LastHash, ChainInv
  <2>2. CASE Before(table, i) # {}
    <3>1. PICK p \in Before(table, i) : IsLast(Before(table, i), p)
      BY <2>2 DEF Inv, LastInv
    <3>2. p \in DOMAIN table /\ p # i /\ Before(table, i) \subseteq Nat
      BY <1>1 DEF Before
    <3>3. LastHash(table, Before(table, i)) = table[p].this_hash
      BY <3>1, <3>2, LastHashIs
    <3> QED
      BY <3>2, <3>3 DEF ChainInv
  <2> QED
    BY <2>1, <2>2
<1>5. Mismatch(t, k)
  BY <1>2, <1>3, <1>4 DEF Mismatch
<1>6. \A j \in DOMAIN t : j < k => ~ Mismatch(t, j)
  BY <1>1, <1>2
<1> QED
  BY <1>2, <1>3, <1>5, <1>6, FirstMismatch

LEMMA ChainTells ==
  ASSUME Inv, ChainInv
  PROVE  TamperingIsReported
<1> SUFFICES ASSUME NEW i \in DOMAIN table
             PROVE  TamperingIsReported!(i)
  BY DEF TamperingIsReported
<1> DEFINE edited(b)   == [table EXCEPT ![i].body = b]
           rehashed(b) == [edited(b) EXCEPT ![i].this_hash =
                             compute_entry_hash(table[i].prev_hash, edited(b)[i])]
           rest        == [j \in DOMAIN table \ {i} |-> table[j]]
           Named(log)  == /\ ~ verify_chain(log).valid
                          /\ Before(table, verify_chain(log).first_mismatch_id)
                               = Before(table, i) \cup {i}
<1>1. \A b \in Bodies \ {table[i].body} : verify_chain(edited(b)).first_mismatch_id = i
  BY EditIsNamed
<1>2. ASSUME ~ IsLast(DOMAIN table, i)
      PROVE  /\ \A b \in Bodies \ {table[i].body} : Named(rehashed(b))
             /\ Named(rest)
  <2>1. PICK k \in DOMAIN table : Before(table, k) = Before(table, i) \cup {i}
    BY <1>2 DEF ChainInv
  <2>2. ASSUME NEW b \in Bodies \ {table[i].body} PROVE Named(rehashed(b))
    <3> DEFINE t == rehashed(b)
               h == compute_entry_hash(table[i].prev_hash, edited(b)[i])
    <3>1. table[i] = [body |-> table[i].body, prev_hash |-> table[i].prev_hash,
                      this_hash |-> table[i].this_hash]
      BY DEF ChainInv
    <3>2. edited(b)[i] = [body |-> b, prev_hash |-> table[i].prev_hash,
                          this_hash |-> table[i].this_hash]
      BY <3>1
    <3>3. h = <<table[i].prev_hash, [body |-> b, prev_hash |-> table[i].prev_hash]>>
      BY <3>2 DEF compute_entry_hash, hashable_payload
    <3>4. t[i] = [edited(b)[i] EXCEPT !.this_hash = h]
      OBVIOUS
    <3>5. DOMAIN t = DOMAIN table /\ \A j \in DOMAIN table : j # i => t[j] = table[j]
      OBVIOUS
    <3>6. t[i].body = b /\ t[i].prev_hash = table[i].prev_hash /\ t[i].this_hash = h
      <4> HIDE DEF t, h
      <4> QED
        BY <3>2, <3>4
    <3>7. ~ verify_chain(t).valid /\ verify_chain(t).first_mismatch_id = k
      <4> HIDE DEF t, h
      <4> QED
        BY <2>1, <3>3, <3>5, <3>6, RehashIsNamed
    <3> QED
      BY <2>1, <3>7
  <2>3. Named(rest)
    <3>1. DOMAIN rest = DOMAIN table \ {i} /\ \A j \in DOMAIN rest : rest[j] = table[j]
      OBVIOUS
    <3>2. ~ verify_chain(rest).valid /\ verify_chain(rest).first_mismatch_id = k
      <4> HIDE DEF rest
      <4> QED
        BY <2>1, <3>1, RemovalIsNamed
    <3> QED
      BY <2>1, <3>2
  <2> QED
    BY <2>2, <2>3
<1> QED
  BY <1>1, <1>2

\* Whatever has been written, and however writers raced and failed meanwhile, a row that
\* is altered is the row verify_chain names, and a row that is rehashed or removed makes it
\* name the next one (audit/chain.py), provided that contents survive storage.
THEOREM TamperingShows == ASSUME StableBodies PROVE Spec => []TamperingIsReported
<1>1. Init => ChainInv
  BY DEF Init, ChainInv, HonestLogVerifies, Mismatches
<1>2. Inv /\ ChainInv /\ [Next]_vars => ChainInv'
  <2> SUFFICES ASSUME Inv, ChainInv, [Next]_vars PROVE ChainInv'
    OBVIOUS
  <2>1. ASSUME NEW w \in Writers, CommitRow(w) PROVE ChainInv'
    BY <2>1, StableBodies, CommitKeepsDistinct
  <2>2. CASE table' = table
    BY <2>2 DEF ChainInv, HonestLogVerifies, Mismatches, Mismatch, Before
  <2>3. table' = table \/ \E w \in Writers : CommitRow(w)
    BY DEF Next, vars, Prepare, AcquireChainLock, ReadHead, Insert, Commit, CommitUnacked,
           Rollback, Exhausted
  <2> QED
    BY <2>1, <2>2, <2>3
<1>3. Inv /\ ChainInv => TamperingIsReported
  BY ChainTells
<1> QED
  BY <1>1, <1>2, <1>3, InvHolds, PTL DEF Spec
=============================================================================
