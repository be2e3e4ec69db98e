---------------------------- MODULE GraphProofs ----------------------------
(***************************************************************************)
(* Theorems about TransactionGraph and the job of AmlSample, for any raw   *)
(* data, any number of accounts to draw and any number of stopped runs:    *)
(* what the server has to read is good enough to investigate every alert,  *)
(* and what its tools answer from it is right: the distances of neighbors, *)
(* the agreement of three tools about an account, the truncation mark of   *)
(* subgraph and the flag of structuring_check.                             *)
(***************************************************************************)
EXTENDS TransactionGraph, SumProofs, TLAPS

(***************************************************************************)
(* The inductive invariant.  Each of the two directories is good in itself *)
(* whichever draw it stems from, which is what makes two directories of    *)
(* different draws good together.                                          *)
(***************************************************************************)

Writing == job.pc \in {"write_transactions", "write_accounts"}

\* A draw keeps every account of a laundering transaction, and so does what it wrote.
SampleInv ==
  /\ raw \in Sources /\ job = [pc |-> job.pc, sample |-> job.sample]
  /\ Writing => must_include(raw.rows) \subseteq job.sample
  /\ job.pc = "raised" => Laundering(raw.rows) = {}
  /\ "transactions" \in present => Laundering(raw.rows) \subseteq transactions
  /\ "accounts" \in present => must_include(raw.rows) \cap AccountsCsv \subseteq accounts

\* The server is up only with both directories there, and the job is not run meanwhile.
ServerInv == up => present = {"transactions", "accounts"} /\ ~ Writing

\* The inductive invariant.
Inv == TypeOK /\ SampleInv /\ ServerInv

-----------------------------------------------------------------------------
\* Every sample that may be drawn has both ends of every laundering transaction.
LEMMA SampleHasMust ==
  ASSUME NEW rows, NEW S \in select_sample_accounts(rows)
  PROVE  must_include(rows) \subseteq S
  BY DEF select_sample_accounts

\* So the rows that a sample keeps include those, and no check of main fails for them.
LEMMA FilterKeepsLaundering ==
  ASSUME NEW rows, NEW S, must_include(rows) \subseteq S
  PROVE  /\ Laundering(rows) \subseteq filter_transactions_to_sample(rows, S)
         /\ Laundering(filter_transactions_to_sample(rows, S)) = Laundering(rows)
         /\ filter_transactions_to_sample(rows, S) \subseteq rows
<1>1. \A t \in Laundering(rows) : t.from \in S /\ t.to \in S
  BY DEF must_include, Ends
<1> QED
  BY <1>1 DEF Laundering, filter_transactions_to_sample

\* The job fails only where the data holds nothing to investigate.
LEMMA RaisesOnlyInVain ==
  ASSUME raw \in Sources, NEW S \in select_sample_accounts(raw.rows), MainRaises(S)
  PROVE  Laundering(raw.rows) = {}
<1>1. must_include(raw.rows) \subseteq S
  BY SampleHasMust
<1>2. /\ Laundering(raw.rows) \subseteq filter_transactions_to_sample(raw.rows, S)
      /\ Laundering(filter_transactions_to_sample(raw.rows, S)) = Laundering(raw.rows)
  BY <1>1, FilterKeepsLaundering
<1>3. verify_pattern_connectivity(S, raw.patterns) = {}
  <2> SUFFICES ASSUME NEW P \in raw.patterns PROVE Ends(P) \subseteq S
    BY DEF verify_pattern_connectivity
  <2>1. P \subseteq Laundering(raw.rows)
    BY SampleAssumption DEF Laundering
  <2> QED
    BY <1>1, <2>1 DEF must_include, Ends
<1> QED
  BY <1>2, <1>3 DEF MainRaises

-----------------------------------------------------------------------------
LEMMA InitInv == Init => Inv
  BY SampleAssumption
     DEF Init, SampleInit, Inv, TypeOK, SampleInv, ServerInv, Writing, NoReply

LEMMA DrawSampleInv ==
  ASSUME Inv, DrawSample, UNCHANGED <<investigated, reply>>
  PROVE  Inv'
<1> USE DEF Inv
<1>1. PICK S \in select_sample_accounts(raw.rows) :
        job' = IF MainRaises(S) THEN [pc |-> "raised", sample |-> {}]
               ELSE [pc |-> "write_transactions", sample |-> S]
  BY DEF DrawSample
<1>2. must_include(raw.rows) \subseteq S
  BY SampleHasMust
<1>3. MainRaises(S) => Laundering(raw.rows) = {}
  BY RaisesOnlyInVain DEF SampleInv
<1>4. UNCHANGED <<raw, present, transactions, accounts, crashes, up, investigated, reply>> /\ ~ up
  BY DEF DrawSample, files
<1>5. TypeOK'
  BY <1>1, <1>4 DEF TypeOK
<1>6. SampleInv' /\ ServerInv'
  BY <1>1, <1>2, <1>3, <1>4 DEF SampleInv, ServerInv, Writing
<1> QED
  BY <1>5, <1>6

LEMMA WriteTransactionsInv ==
  ASSUME Inv, WriteTransactions, UNCHANGED <<investigated, reply>>
  PROVE  Inv'
<1> USE DEF Inv
<1>0. UNCHANGED <<raw, accounts, crashes, up, investigated, reply>> /\ ~ up
  BY DEF WriteTransactions, ServerInv, Writing
<1>1. must_include(raw.rows) \subseteq job.sample
  BY DEF WriteTransactions, SampleInv, Writing
<1>2. /\ transactions' = filter_transactions_to_sample(raw.rows, job.sample)
      /\ Laundering(raw.rows) \subseteq transactions' /\ transactions' \subseteq raw.rows
  BY <1>1, FilterKeepsLaundering DEF WriteTransactions
<1>3. job' = [pc |-> "write_accounts", sample |-> job.sample]
  BY DEF WriteTransactions, SampleInv
<1>4. TypeOK'
  BY <1>0, <1>2, <1>3 DEF TypeOK, WriteTransactions
<1>5. SampleInv' /\ ServerInv'
  BY <1>0, <1>1, <1>2, <1>3 DEF SampleInv, ServerInv, Writing, WriteTransactions
<1> QED
  BY <1>4, <1>5

LEMMA WriteAccountsInv ==
  ASSUME Inv, WriteAccounts, UNCHANGED <<investigated, reply>>
  PROVE  Inv'
<1> USE DEF Inv
<1>0. UNCHANGED <<raw, transactions, crashes, up, investigated, reply>> /\ ~ up
  BY DEF WriteAccounts, ServerInv, Writing
<1>1. must_include(raw.rows) \cap AccountsCsv \subseteq accounts' /\ accounts' \subseteq AccountsCsv
  BY DEF WriteAccounts, SampleInv, Writing
<1>2. TypeOK'
  BY <1>0, <1>1 DEF TypeOK, WriteAccounts
<1>3. SampleInv' /\ ServerInv'
  BY <1>0, <1>1 DEF SampleInv, ServerInv, Writing, WriteAccounts
<1> QED
  BY <1>2, <1>3

\* A run that is stopped leaves a directory as it was, or none.
LEMMA StopJobInv ==
  ASSUME Inv, StopJob, UNCHANGED <<investigated, reply>>
  PROVE  Inv'
<1> USE DEF Inv
<1>0. UNCHANGED <<raw, up, investigated, reply>> /\ ~ up /\ job' = [pc |-> "idle", sample |-> {}]
  BY DEF StopJob, ServerInv, Writing
<1>1. crashes' \in 0 .. MaxCrashes
  BY SampleAssumption DEF StopJob, TypeOK
<1>2. \/ UNCHANGED <<present, transactions, accounts>>
      \/ present' = present \ {"transactions"} /\ transactions' = {} /\ accounts' = accounts
      \/ present' = present \ {"accounts"} /\ accounts' = {} /\ transactions' = transactions
  BY DEF StopJob, files
<1>3. TypeOK'
  BY <1>0, <1>1, <1>2 DEF TypeOK
<1>4. SampleInv' /\ ServerInv'
  BY <1>0, <1>2 DEF SampleInv, ServerInv, Writing
<1> QED
  BY <1>3, <1>4

\* A step of the server's, which leaves the files alone.
LEMMA ServerStepInv ==
  ASSUME Inv, UNCHANGED sampleVars,
         up' => up \/ (present = {"transactions", "accounts"} /\ ~ Writing),
         investigated' \in [Ids -> VALID_DISPOSITIONS \cup {None}],
         reply'.tool \in {"none", "error", "query_transactions", "get_account", "neighbors",
                          "subgraph", "structuring_check", "mark_investigated"}
  PROVE  Inv'
<1> USE DEF Inv, sampleVars, files
<1>1. TypeOK'
  BY DEF TypeOK
<1>2. SampleInv' /\ ServerInv'
  BY DEF SampleInv, ServerInv, Writing
<1> QED
  BY <1>1, <1>2

LEMMA AnswerStepInv ==
  ASSUME Inv, NEW r, Answer(r),
         r.tool \in {"error", "query_transactions", "get_account", "neighbors", "subgraph",
                     "structuring_check"}
  PROVE  Inv'
  BY ServerStepInv DEF Answer, Inv, TypeOK

LEMMA NextInv ==
  ASSUME Inv, [Next]_vars
  PROVE  Inv'
<1>0. investigated \in [Ids -> VALID_DISPOSITIONS \cup {None}]
  BY DEF Inv, TypeOK
<1>1. ASSUME NEW a \in Ids, NEW d \in Days, NEW e \in Days, QueryTransactions(a, d, e)
      PROVE  Inv'
  BY <1>1, AnswerStepInv DEF QueryTransactions
<1>2. ASSUME NEW a \in Ids, GetAccount(a)
      PROVE  Inv'
  BY <1>2, AnswerStepInv DEF GetAccount
<1>3. ASSUME NEW a \in Ids, NEW h \in 0 .. MaxArg, NEW m \in Amounts, Neighbors(a, h, m)
      PROVE  Inv'
  BY <1>3, AnswerStepInv DEF Neighbors
<1>4. ASSUME NEW a \in Ids, NEW w \in 0 .. MaxArg, StructuringCheck(a, w)
      PROVE  Inv'
  BY <1>4, AnswerStepInv DEF StructuringCheck
<1>5. ASSUME NEW S \in SUBSET Ids, NEW k \in 0 .. MaxArg, Subgraph(S, k)
      PROVE  Inv'
  BY <1>5, AnswerStepInv DEF Subgraph
<1>6. ASSUME NEW a \in Marked, NEW s \in Strings, MarkInvestigated(a, s)
      PROVE  Inv'
  <2>1. investigated' \in [Ids -> VALID_DISPOSITIONS \cup {None}]
    BY <1>0, <1>6 DEF MarkInvestigated, mark_investigated
  <2>2. reply'.tool \in {"error", "mark_investigated"} /\ UNCHANGED <<sampleVars, up>>
    BY <1>6 DEF MarkInvestigated, mark_investigated
  <2> QED
    BY <2>1, <2>2, ServerStepInv
<1>7. CASE Return
  BY <1>0, <1>7, ServerStepInv DEF Return, NoReply
<1>8. CASE Start
  BY <1>0, <1>8, ServerStepInv DEF Start, Writing, Inv, TypeOK
<1>9. CASE Stop
  BY <1>9, ServerStepInv DEF Stop, NoReply
<1>10. CASE JobStep /\ UNCHANGED <<investigated, reply>>
  BY <1>10, DrawSampleInv, WriteTransactionsInv, WriteAccountsInv, StopJobInv DEF JobStep
<1>11. CASE UNCHANGED vars
  BY <1>0, <1>11, ServerStepInv DEF vars, Inv, TypeOK
<1> QED
  BY <1>1, <1>2, <1>3, <1>4, <1>5, <1>6, <1>7, <1>8, <1>9, <1>10, <1>11 DEF Next

LEMMA InvHolds == Spec => []Inv
<1>1. Init => Inv
  BY InitInv
<1>2. Inv /\ [Next]_vars => Inv'
  BY NextInv
<1> QED
  BY <1>1, <1>2, PTL DEF Spec

-----------------------------------------------------------------------------
\* However often the job of subsample_aml.py is run and wherever it is stopped, the
\* transaction-graph server, once it is up, has every laundering transaction and the account
\* records of both its ends, even where its two directories stem from different draws
\* (StoreIsSound).
THEOREM StoreStaysSound == Spec => []StoreIsSound
<1>1. Inv => StoreIsSound
  <2> SUFFICES ASSUME Inv PROVE StoreIsSound
    OBVIOUS
  <2>1. ASSUME up, NEW a, NEW t \in Laundering(Touching(a))
        PROVE  {t.from, t.to} \cap AccountsCsv \subseteq accounts
    <3>1. t \in Laundering(raw.rows)
      BY DEF Inv, TypeOK, Laundering, Touching
    <3>2. {t.from, t.to} \subseteq must_include(raw.rows)
      BY <3>1 DEF must_include, Ends
    <3> QED
      BY <2>1, <3>2 DEF Inv, SampleInv, ServerInv
  <2> QED
    BY <2>1 DEF StoreIsSound, Inv, SampleInv
<1> QED
  BY <1>1, InvHolds, PTL

-----------------------------------------------------------------------------
(***************************************************************************)
(* The tools' answers.  The rows that a query reads:                       *)
(***************************************************************************)

RowsOK ==
  /\ IsFiniteSet(transactions)
  /\ \A t \in transactions : /\ t.from \in Ids /\ t.to \in Ids
                             /\ t.paid \in Nat /\ t.received \in Nat
                             /\ t.timestamp \in Nat /\ t.timestamp \div DAY \in Days

LEMMA InvRows == Inv => RowsOK
<1> SUFFICES ASSUME Inv PROVE RowsOK
  OBVIOUS
<1>1. transactions \subseteq raw.rows /\ raw \in Sources
  BY DEF Inv, TypeOK, SampleInv
<1>2. IsFiniteSet(transactions)
  BY <1>1, GraphAssumption, FS_Subset
<1>3. transactions \subseteq Rows
  BY <1>1 DEF Rows
<1> QED
  BY <1>2, <1>3, GraphAssumption DEF RowsOK

-----------------------------------------------------------------------------
(***************************************************************************)
(* structuring_check                                                       *)
(***************************************************************************)

LEMMA SumReceived ==
  ASSUME NEW S, IsFiniteSet(S), NEW f, \A t \in S : f[t] = t.received /\ t.received \in Nat
  PROVE  MapThenSumSet(received, S) = Total(f, S)
<1> DEFINE h == [s \in SUBSET S |-> Total(f, s)]
<1>1. IsSum(f, S, h) /\ h[S] = Total(f, S)
  BY TotalIsSum
<1> HIDE DEF h
<1>2. \A s \in SUBSET S : s # {} => received(Chosen(s)) = f[Chosen(s)]
  BY DEF Chosen, received
<1>3. h = [s \in SUBSET S |-> IF s = {} THEN 0 ELSE received(Chosen(s)) + h[s \ {Chosen(s)}]]
  BY <1>1, <1>2 DEF IsSum
<1>4. ASSUME NEW g,
             g = [s \in SUBSET S |-> IF s = {} THEN 0 ELSE received(Chosen(s)) + g[s \ {Chosen(s)}]]
      PROVE  g[S] = Total(f, S)
  <2>1. IsSum(f, S, g)
    BY <1>2, <1>4 DEF IsSum
  <2> QED
    BY <1>1, <2>1, SumUnique
<1> QED
  BY <1>3, <1>4 DEF MapThenSumSet, MapThenFoldSet, Chosen

\* The latest of some deposits.
LEMMA LatestDeposit ==
  ASSUME RowsOK, NEW a, Deposits(a) # {}
  PROVE  LET T == {t.timestamp : t \in Deposits(a)}
         IN  Max(T) \in T /\ Max(T) \in Nat /\ \A t \in Deposits(a) : t.timestamp <= Max(T)
<1> DEFINE D == Deposits(a)
           T == {t.timestamp : t \in D}
<1>1. IsFiniteSet(D) /\ \A t \in D : t.timestamp \in Nat
  BY FS_Subset DEF RowsOK, Deposits
<1>2. T \subseteq Nat /\ T # {}
  BY <1>1
<1>3. IsFiniteSet(T)
  <2> DEFINE g == [t \in D |-> t.timestamp]
  <2>1. g \in Surjection(D, T)
    BY DEF Surjection
  <2> QED
    BY <1>1, <2>1, FS_Surjection
<1>4. \E n \in T : \A m \in T : n >= m
  BY <1>2, <1>3, Greatest
<1>5. Max(T) \in T /\ \A m \in T : Max(T) >= m
  BY <1>4 DEF Max
<1> QED
  BY <1>1, <1>2, <1>5

LEMMA TimesMono ==
  ASSUME NEW v \in Nat, NEW w \in Nat, v <= w, NEW d \in Nat
  PROVE  v * d \in Nat /\ w * d \in Nat /\ v * d <= w * d
<1>1. w - v \in Nat /\ (w - v) * d \in Nat /\ v * d \in Nat /\ w * d \in Nat
  OBVIOUS
<1>2. w * d = v * d + (w - v) * d
  OBVIOUS
<1> QED
  BY <1>1, <1>2

\* What counts as small deposits, with the arithmetic done.
LEMMA SmallFacts ==
  ASSUME RowsOK, NEW a, Deposits(a) # {}, NEW w \in Nat
  PROVE  /\ SmallDeposits(a, w) \subseteq Deposits(a) /\ IsFiniteSet(SmallDeposits(a, w))
         /\ Cardinality(SmallDeposits(a, w)) \in Nat
         /\ \A t \in SmallDeposits(a, w) :
              t.received \in Nat /\ t.received < small_deposit_threshold
         /\ \A t, u \in SmallDeposits(a, w) : t.timestamp < u.timestamp + w * DAY
<1> DEFINE S == SmallDeposits(a, w)
           m == Max({t.timestamp : t \in Deposits(a)})
<1>1. m \in Nat /\ \A t \in Deposits(a) : t.timestamp <= m /\ t.timestamp \in Nat
  BY LatestDeposit DEF RowsOK, Deposits
<1>2. w * DAY \in Nat
  BY GraphAssumption
<1>3. \A t \in S : /\ t \in Deposits(a) /\ t.received < small_deposit_threshold
                   /\ t.timestamp + w * DAY > m
  BY DEF SmallDeposits
<1>4. IsFiniteSet(Deposits(a))
  BY FS_Subset DEF RowsOK, Deposits
<1>5. S \subseteq Deposits(a)
  BY <1>3
<1>6. IsFiniteSet(S) /\ Cardinality(S) \in Nat
  BY <1>4, <1>5, FS_Subset, FS_CardinalityType
<1>7. \A t \in S : t.received \in Nat
  BY <1>5 DEF RowsOK, Deposits
<1> HIDE DEF S, m
<1> DEFINE e == w * DAY
<1>8. \A t, u \in S : t.timestamp < u.timestamp + e
  <2>1. e \in Nat /\ \A t \in S : t.timestamp + e > m
    BY <1>2, <1>3
  <2> HIDE DEF e
  <2> QED
    BY <1>1, <1>5, <2>1
<1> QED
  BY <1>3, <1>5, <1>6, <1>7, <1>8 DEF S

LEMMA WiderWindow ==
  ASSUME RowsOK, NEW a, NEW v \in Nat, NEW w \in Nat, v <= w, structuring_check(a, v).flagged
  PROVE  structuring_check(a, w).flagged
<1>1. Deposits(a) # {}
  BY DEF structuring_check
<1> DEFINE S == SmallDeposits(a, v)
           T == SmallDeposits(a, w)
           m == Max({t.timestamp : t \in Deposits(a)})
<1>2. S \subseteq T
  <2>1. \A t \in Deposits(a) : t.timestamp \in Nat
    BY DEF RowsOK, Deposits
  <2>2. m \in Nat
    BY <1>1, LatestDeposit
  <2> DEFINE d == v * DAY
             e == w * DAY
  <2>3. d \in Nat /\ e \in Nat /\ d <= e
    BY GraphAssumption, TimesMono
  <2> HIDE DEF m, d, e
  <2>4. \A t \in Deposits(a) : t.timestamp + d > m => t.timestamp + e > m
    BY <2>1, <2>2, <2>3
  <2> QED
    BY <2>4 DEF SmallDeposits, m, d, e
<1>3. IsFiniteSet(T) /\ IsFiniteSet(S) /\ Cardinality(S) <= Cardinality(T)
  BY <1>1, <1>2, SmallFacts, FS_Subset
<1> DEFINE f == [t \in T |-> t.received]
<1>4. \A t \in T : f[t] = t.received /\ t.received \in Nat
  BY <1>1, SmallFacts
<1>5. MapThenSumSet(received, T) = Total(f, T) /\ MapThenSumSet(received, S) = Total(f, S)
  <2>1. \A t \in S : f[t] = t.received /\ t.received \in Nat
    BY <1>2, <1>4
  <2> HIDE DEF f, S, T
  <2> QED
    BY <1>3, <1>4, <2>1, SumReceived
<1>6. Total(f, S) <= Total(f, T) /\ Total(f, S) \in Nat /\ Total(f, T) \in Nat
  <2>1. \A t \in T : f[t] \in Nat
    BY <1>4
  <2> HIDE DEF f, S, T
  <2> QED
    BY <1>2, <1>3, <2>1, TotalMono, UnitsFinite
<1>7. Cardinality(S) \in Nat /\ Cardinality(T) \in Nat
  BY <1>1, SmallFacts
<1> HIDE DEF S, T, f
<1>8. /\ Cardinality(S) >= min_structuring_deposits
      /\ MapThenSumSet(received, S) >= small_deposit_threshold
  BY <1>1 DEF structuring_check, S
<1>9. /\ Cardinality(T) >= min_structuring_deposits
      /\ MapThenSumSet(received, T) >= small_deposit_threshold
  BY <1>3, <1>5, <1>6, <1>7, <1>8, GraphAssumption
<1> QED
  BY <1>1, <1>9 DEF structuring_check, T

\* Whatever structuring_check flags has its witness, now and for every wider window.
LEMMA FlagHasWitness ==
  ASSUME RowsOK, NEW a, NEW w \in 0 .. MaxArg, structuring_check(a, w).flagged
  PROVE  /\ \E S \in SUBSET {t \in transactions : t.to = a} :
              /\ Cardinality(S) >= min_structuring_deposits
              /\ \A t \in S : t.received < small_deposit_threshold
              /\ MapThenSumSet(received, S) >= small_deposit_threshold
              /\ \A t, u \in S : t.timestamp < u.timestamp + w * DAY
         /\ \A v \in w .. MaxArg : structuring_check(a, v).flagged
<1>1. Deposits(a) # {}
  BY DEF structuring_check
<1>2. w \in Nat
  OBVIOUS
<1> DEFINE S == SmallDeposits(a, w)
<1>3. /\ Cardinality(S) >= min_structuring_deposits
      /\ MapThenSumSet(received, S) >= small_deposit_threshold
  BY <1>1 DEF structuring_check
<1>4. /\ S \subseteq Deposits(a) /\ \A t \in S : t.received < small_deposit_threshold
      /\ \A t, u \in S : t.timestamp < u.timestamp + w * DAY
  BY <1>1, <1>2, SmallFacts
<1>5. S \in SUBSET {t \in transactions : t.to = a}
  BY <1>4 DEF Deposits
<1>6. \A v \in w .. MaxArg : structuring_check(a, v).flagged
  <2>1. \A v \in w .. MaxArg : v \in Nat /\ w <= v
    BY <1>2, GraphAssumption
  <2> QED
    BY <1>2, <2>1, WiderWindow
<1> HIDE DEF S
<1> QED
  BY <1>3, <1>4, <1>5, <1>6

-----------------------------------------------------------------------------
(***************************************************************************)
(* subgraph                                                                *)
(***************************************************************************)

LEMMA SumPaid ==
  ASSUME NEW S, IsFiniteSet(S), NEW f, \A t \in S : f[t] = t.paid /\ t.paid \in Nat
  PROVE  MapThenSumSet(paid, S) = Total(f, S)
<1> DEFINE h == [s \in SUBSET S |-> Total(f, s)]
<1>1. IsSum(f, S, h) /\ h[S] = Total(f, S)
  BY TotalIsSum
<1> HIDE DEF h
<1>2. \A s \in SUBSET S : s # {} => paid(Chosen(s)) = f[Chosen(s)]
  BY DEF Chosen, paid
<1>3. h = [s \in SUBSET S |-> IF s = {} THEN 0 ELSE paid(Chosen(s)) + h[s \ {Chosen(s)}]]
  BY <1>1, <1>2 DEF IsSum
<1>4. ASSUME NEW g,
             g = [s \in SUBSET S |-> IF s = {} THEN 0 ELSE paid(Chosen(s)) + g[s \ {Chosen(s)}]]
      PROVE  g[S] = Total(f, S)
  <2>1. IsSum(f, S, g)
    BY <1>2, <1>4 DEF IsSum
  <2> QED
    BY <1>1, <2>1, SumUnique
<1> QED
  BY <1>3, <1>4 DEF MapThenSumSet, MapThenFoldSet, Chosen

\* Where every transaction of T belongs to one member of L, and each of them has its
\* transactions counted, the counts add up to the transactions.
LEMMA SumCounted ==
  ASSUME NEW T, IsFiniteSet(T), NEW L, IsFiniteSet(L), NEW class, \A t \in T : class[t] \in L,
         \A l \in L : l.count = Cardinality({t \in T : class[t] = l})
  PROVE  MapThenSumSet(counted, L) = Cardinality(T)
<1> DEFINE f == [l \in L |-> Cardinality({t \in T : class[t] = l})]
           h == Sizes(T, class, L)
<1>1. IsSum(f, L, h)
  <2>1. \A l \in L : f[l] = Cardinality({t \in T : class[t] = l})
    OBVIOUS
  <2> HIDE DEF f
  <2> QED
    BY <2>1, SumOfClasses
<1>2. h[L] = Cardinality(T)
  <2>1. {t \in T : class[t] \in L} = T
    OBVIOUS
  <2> QED
    BY <2>1 DEF Sizes
<1>3. \A s \in SUBSET L : s # {} => counted(Chosen(s)) = f[Chosen(s)]
  BY DEF Chosen, counted
<1> HIDE DEF f, h
<1>4. h = [s \in SUBSET L |-> IF s = {} THEN 0 ELSE counted(Chosen(s)) + h[s \ {Chosen(s)}]]
  BY <1>1, <1>3 DEF IsSum
<1>5. ASSUME NEW g,
             g = [s \in SUBSET L |-> IF s = {} THEN 0 ELSE counted(Chosen(s)) + g[s \ {Chosen(s)}]]
      PROVE  g[L] = Cardinality(T)
  <2>1. IsSum(f, L, g)
    BY <1>3, <1>5 DEF IsSum
  <2> QED
    BY <1>1, <1>2, <2>1, SumUnique
<1> QED
  BY <1>4, <1>5 DEF MapThenSumSet, MapThenFoldSet, Chosen

-----------------------------------------------------------------------------
\* The transactions between the accounts of S, and the edge that each belongs to.
Inside(S)  == {t \in transactions : {t.from, t.to} \subseteq S}
Same(S, t) == {u \in Inside(S) : <<u.from, u.to>> = <<t.from, t.to>>}
EdgeOf(S, t) == [from |-> t.from, to |-> t.to, count |-> Cardinality(Same(S, t)),
                 total |-> MapThenSumSet(paid, Same(S, t))]

LEMMA EdgesAre ==
  ASSUME NEW S
  PROVE  Edges(S) = {EdgeOf(S, t) : t \in Inside(S)}
<1> DEFINE of(e)   == {t \in Inside(S) : <<t.from, t.to>> = e}
           edge(e) == [from |-> e[1], to |-> e[2], count |-> Cardinality(of(e)),
                       total |-> MapThenSumSet(paid, of(e))]
<1>1. Edges(S) = {edge(e) : e \in {<<t.from, t.to>> : t \in Inside(S)}}
  BY DEF Edges, Inside
<1>2. \A t \in Inside(S) : edge(<<t.from, t.to>>) = EdgeOf(S, t)
  BY DEF EdgeOf, Same
<1> HIDE DEF edge
<1> QED
  BY <1>1, <1>2

LEMMA EdgeFacts ==
  ASSUME RowsOK, NEW S
  PROVE  /\ IsFiniteSet(Inside(S)) /\ IsFiniteSet(Edges(S)) /\ Cardinality(Edges(S)) \in Nat
         /\ \A t \in Inside(S) : /\ EdgeOf(S, t) \in Edges(S)
                                 /\ EdgeOf(S, t).from = t.from /\ EdgeOf(S, t).to = t.to
                                 /\ EdgeOf(S, t).total \in Nat
         /\ \A e \in Edges(S) : e.total \in Nat /\ \E t \in Inside(S) : e = EdgeOf(S, t)
         /\ \A e \in Edges(S), t \in Inside(S) :
              e.from = t.from /\ e.to = t.to => e = EdgeOf(S, t)
<1>1. IsFiniteSet(Inside(S)) /\ \A t \in Inside(S) : t.paid \in Nat
  BY FS_Subset DEF RowsOK, Inside
<1>2. IsFiniteSet(Edges(S)) /\ Cardinality(Edges(S)) \in Nat
  <2> DEFINE g == [t \in Inside(S) |-> EdgeOf(S, t)]
  <2>1. g \in Surjection(Inside(S), Edges(S))
    BY EdgesAre DEF Surjection
  <2> QED
    BY <1>1, <2>1, FS_Surjection, FS_CardinalityType
<1>3. ASSUME NEW t \in Inside(S)
      PROVE  EdgeOf(S, t).total \in Nat
  <2> DEFINE U == Same(S, t)
             f == [u \in U |-> u.paid]
  <2>1. IsFiniteSet(U) /\ \A u \in U : f[u] = u.paid /\ u.paid \in Nat
    BY <1>1, FS_Subset DEF Same
  <2>2. EdgeOf(S, t).total = MapThenSumSet(paid, U)
    BY DEF EdgeOf
  <2> HIDE DEF U, f
  <2>3. MapThenSumSet(paid, U) = Total(f, U)
    BY <2>1, SumPaid
  <2>4. Total(f, U) \in Nat
    BY <2>1, UnitsFinite
  <2> QED
    BY <2>1, <2>2, <2>3, <2>4
<1>4. \A t \in Inside(S) : EdgeOf(S, t).from = t.from /\ EdgeOf(S, t).to = t.to
  BY DEF EdgeOf
<1>5. \A e \in Edges(S) : e.total \in Nat /\ \E t \in Inside(S) : e = EdgeOf(S, t)
  BY <1>3, EdgesAre
<1>6. ASSUME NEW t \in Inside(S), NEW u \in Inside(S), u.from = t.from, u.to = t.to
      PROVE  EdgeOf(S, u) = EdgeOf(S, t)
  <2>1. Same(S, u) = Same(S, t)
    BY <1>6 DEF Same
  <2> QED
    BY <1>6, <2>1 DEF EdgeOf
<1>7. \A e \in Edges(S), t \in Inside(S) : e.from = t.from /\ e.to = t.to => e = EdgeOf(S, t)
  BY <1>4, <1>5, <1>6
<1> QED
  BY <1>1, <1>2, <1>3, <1>4, <1>5, <1>7, EdgesAre

\* What goes from one account of S to another, and that it is the amount of its edge.
Amount(S, a, b) == MapThenSumSet(paid, {u \in Inside(S) : u.from = a /\ u.to = b})

LEMMA EdgeAmount ==
  ASSUME NEW S, NEW t \in Inside(S)
  PROVE  EdgeOf(S, t).total = Amount(S, t.from, t.to)
<1>1. Same(S, t) = {u \in Inside(S) : u.from = t.from /\ u.to = t.to}
  BY DEF Same
<1> QED
  BY <1>1 DEF EdgeOf, Amount

LEMMA MinOfTwo ==
  ASSUME NEW m \in Nat, NEW n \in Nat
  PROVE  Min({m, n}) = IF m <= n THEN m ELSE n
<1>1. \E x \in {m, n} : \A y \in {m, n} : x <= y
  OBVIOUS
<1> QED
  BY <1>1 DEF Min

LEMMA LargestFacts ==
  ASSUME NEW E, IsFiniteSet(E), NEW k \in Nat, NEW K \in Largest(E, k)
  PROVE  /\ K \in SUBSET E /\ IsFiniteSet(K) /\ Cardinality(E) \in Nat
         /\ Cardinality(K) = IF k <= Cardinality(E) THEN k ELSE Cardinality(E)
         /\ \A e \in K, f \in E \ K : e.total >= f.total
<1>1. Cardinality(E) \in Nat
  BY FS_CardinalityType
<1>2. K \in SUBSET E /\ Cardinality(K) = Min({k, Cardinality(E)})
  BY DEF Largest, kSubset
<1> QED
  BY <1>1, <1>2, MinOfTwo, FS_Subset DEF Largest

\* The counts of all edges add up to the transactions between the accounts.
LEMMA EdgesCount ==
  ASSUME RowsOK, NEW S
  PROVE  MapThenSumSet(counted, Edges(S)) = Cardinality(Inside(S))
<1> DEFINE T     == Inside(S)
           class == [t \in T |-> EdgeOf(S, t)]
<1>1. IsFiniteSet(T) /\ IsFiniteSet(Edges(S)) /\ \A t \in T : class[t] \in Edges(S)
  BY EdgeFacts
<1>2. ASSUME NEW l \in Edges(S)
      PROVE  l.count = Cardinality({t \in T : class[t] = l})
  <2>1. PICK u \in T : l = EdgeOf(S, u)
    BY EdgeFacts
  <2>2. l.from = u.from /\ l.to = u.to /\ l.count = Cardinality(Same(S, u))
    BY <2>1 DEF EdgeOf
  <2>3. \A t \in T : EdgeOf(S, t) = l <=> t.from = u.from /\ t.to = u.to
    <3>1. \A t \in T : EdgeOf(S, t).from = t.from /\ EdgeOf(S, t).to = t.to
      BY EdgeFacts
    <3>2. \A t \in T : l.from = t.from /\ l.to = t.to => l = EdgeOf(S, t)
      BY EdgeFacts
    <3> QED
      BY <2>2, <3>1, <3>2
  <2>4. {t \in T : class[t] = l} = Same(S, u)
    BY <2>3 DEF Same
  <2> QED
    BY <2>2, <2>4
<1> HIDE DEF class, T
<1>3. MapThenSumSet(counted, Edges(S)) = Cardinality(T)
  BY <1>1, <1>2, SumCounted
<1> QED
  BY <1>3 DEF T

\* What subgraph keeps, and when it says that it has cut something.
LEMMA SubgraphFacts ==
  ASSUME RowsOK, NEW S, NEW k \in Nat, NEW g \in subgraph(S, k)
  PROVE  /\ g.edges \subseteq Edges(S) /\ Cardinality(g.edges) <= k
         /\ g.truncated <=> g.edges # Edges(S)
         /\ \A e \in g.edges, f \in Edges(S) \ g.edges : e.total >= f.total
<1> DEFINE E == Edges(S)
<1>0. PICK F \in Largest(E, k + 1) :
        \E K \in Largest(F, k) : g = [edges |-> K, truncated |-> Cardinality(F) > k]
  BY DEF subgraph
<1>1. PICK K \in Largest(F, k) : g = [edges |-> K, truncated |-> Cardinality(F) > k]
  BY <1>0
<1>2. IsFiniteSet(E) /\ \A e \in E : e.total \in Nat
  BY EdgeFacts
<1> HIDE DEF E
<1>3. /\ F \in SUBSET E /\ IsFiniteSet(F) /\ Cardinality(E) \in Nat
      /\ Cardinality(F) = IF k + 1 <= Cardinality(E) THEN k + 1 ELSE Cardinality(E)
      /\ \A e \in F, f \in E \ F : e.total >= f.total
  <2>1. k + 1 \in Nat
    OBVIOUS
  <2> QED
    BY <1>0, <1>2, <2>1, LargestFacts
<1>4. /\ K \in SUBSET F /\ Cardinality(F) \in Nat
      /\ Cardinality(K) = IF k <= Cardinality(F) THEN k ELSE Cardinality(F)
      /\ \A e \in K, f \in F \ K : e.total >= f.total
  BY <1>1, <1>3, LargestFacts
<1>5. g.edges = K /\ (g.truncated <=> Cardinality(F) > k)
  BY <1>1
<1>6. Cardinality(K) <= k
  BY <1>3, <1>4
<1>7. Cardinality(F) > k <=> K # E
  <2>1. CASE Cardinality(F) > k
    <3>1. Cardinality(K) # Cardinality(E)
      BY <1>3, <1>4, <2>1
    <3> QED
      BY <2>1, <3>1
  <2>2. CASE ~ Cardinality(F) > k
    <3>1. Cardinality(F) = Cardinality(E) /\ Cardinality(K) = Cardinality(E)
      BY <1>3, <1>4, <2>2
    <3>2. K \in SUBSET E
      BY <1>3, <1>4
    <3>3. K = E
      BY <1>2, <3>1, <3>2, FS_Subset
    <3> QED
      BY <2>2, <3>3
  <2> QED
    BY <2>1, <2>2
<1>8. \A e \in K, f \in E \ K : e.total >= f.total
  BY <1>3, <1>4
<1> QED
  BY <1>3, <1>4, <1>5, <1>6, <1>7, <1>8 DEF E

\* What the answer g of the tool says about the transactions inside S.
Tells(S, k, g) ==
  LET shown(t) == \E e \in g.edges : e.from = t.from /\ e.to = t.to
  IN  /\ g.truncated <=> \E t \in Inside(S) : ~shown(t)
      /\ Cardinality(g.edges) <= k
      /\ \A e \in g.edges : e.total = Amount(S, e.from, e.to)
      /\ \A e \in g.edges, t \in Inside(S) : ~shown(t) => e.total >= Amount(S, t.from, t.to)
      /\ ~g.truncated => MapThenSumSet(counted, g.edges) = Cardinality(Inside(S))

\* The answer of the tool, for the empty list too.
LEMMA SubgraphTells ==
  ASSUME RowsOK, NEW S, NEW k \in Nat, NEW g,
         g \in IF S = {} THEN {[edges |-> {}, truncated |-> FALSE]} ELSE subgraph(S, k)
  PROVE  Tells(S, k, g)
<1> DEFINE E == Edges(S)
           K == g.edges
           shown(t) == \E e \in K : e.from = t.from /\ e.to = t.to
<1>1. /\ K \subseteq E /\ Cardinality(K) <= k
      /\ g.truncated <=> K # E
      /\ \A e \in K, f \in E \ K : e.total >= f.total
  <2>1. CASE S = {}
    <3>1. g = [edges |-> {}, truncated |-> FALSE]
      BY <2>1
    <3>2. Inside(S) = {}
      BY <2>1 DEF Inside
    <3>3. E = {}
      BY <3>2, EdgesAre
    <3>4. Cardinality({}) <= k
      BY FS_EmptySet
    <3> HIDE DEF E
    <3> QED
      BY <3>1, <3>3, <3>4
  <2>2. CASE S # {}
    <3>1. g \in subgraph(S, k)
      BY <2>2
    <3> QED
      BY <3>1, SubgraphFacts
  <2> QED
    BY <2>1, <2>2
<1>2. /\ \A t \in Inside(S) : /\ EdgeOf(S, t) \in E /\ EdgeOf(S, t).from = t.from
                              /\ EdgeOf(S, t).to = t.to
      /\ \A e \in E : e.total \in Nat /\ \E t \in Inside(S) : e = EdgeOf(S, t)
      /\ \A e \in E, t \in Inside(S) : e.from = t.from /\ e.to = t.to => e = EdgeOf(S, t)
  BY EdgeFacts
<1> HIDE DEF E, K
<1>3. \A t \in Inside(S) : shown(t) <=> EdgeOf(S, t) \in K
  BY <1>1, <1>2
<1> HIDE DEF shown
<1>4. g.truncated <=> \E t \in Inside(S) : ~shown(t)
  <2>1. CASE K = E
    BY <1>1, <1>2, <1>3, <2>1
  <2>2. CASE K # E
    <3>1. PICK e \in E : e \notin K
      BY <1>1, <2>2
    <3>2. PICK t \in Inside(S) : e = EdgeOf(S, t)
      BY <1>2
    <3> QED
      BY <1>1, <1>3, <2>2, <3>1, <3>2
  <2> QED
    BY <2>1, <2>2
<1>5. ASSUME NEW e \in K, NEW t \in Inside(S), ~shown(t)
      PROVE  e.total >= Amount(S, t.from, t.to)
  <2>1. EdgeOf(S, t) \in E \ K
    BY <1>2, <1>3, <1>5
  <2>2. e.total >= EdgeOf(S, t).total
    BY <1>1, <2>1
  <2> QED
    BY <2>2, EdgeAmount
<1>6. ASSUME NEW e \in K PROVE e.total = Amount(S, e.from, e.to)
  <2>1. PICK t \in Inside(S) : e = EdgeOf(S, t)
    BY <1>1, <1>2
  <2>2. e.from = t.from /\ e.to = t.to
    BY <1>2, <2>1
  <2> QED
    BY <2>1, <2>2, EdgeAmount
<1>7. ~g.truncated => MapThenSumSet(counted, K) = Cardinality(Inside(S))
  <2>1. MapThenSumSet(counted, E) = Cardinality(Inside(S))
    BY EdgesCount DEF E
  <2> QED
    BY <1>1, <2>1
<1> QED
  BY <1>1, <1>4, <1>5, <1>6, <1>7 DEF shown, K, Tells

-----------------------------------------------------------------------------
(***************************************************************************)
(* neighbors                                                               *)
(***************************************************************************)

LEMMA WalkZero ==
  ASSUME NEW a \in Ids, NEW b, NEW m
  PROVE  Walk(a, b, 0, m) <=> b = a
<1>1. ASSUME Walk(a, b, 0, m) PROVE b = a
  BY <1>1 DEF Walk
<1>2. Walk(a, a, 0, m)
  <2> DEFINE p == [i \in 0 .. 0 |-> a]
  <2>1. p \in [0 .. 0 -> Ids] /\ p[0] = a /\ \A i \in 1 .. 0 : Adjacent(p[i - 1], p[i], m)
    OBVIOUS
  <2> QED
    BY <2>1 DEF Walk
<1> QED
  BY <1>1, <1>2

LEMMA WalkStep ==
  ASSUME NEW a \in Ids, NEW b \in Ids, NEW n \in Nat, NEW m
  PROVE  Walk(a, b, n + 1, m) <=> \E c \in Ids : Walk(a, c, n, m) /\ Adjacent(c, b, m)
<1>1. ASSUME Walk(a, b, n + 1, m)
      PROVE  \E c \in Ids : Walk(a, c, n, m) /\ Adjacent(c, b, m)
  <2>1. PICK p \in [0 .. n + 1 -> Ids] :
          /\ p[0] = a /\ p[n + 1] = b
          /\ \A i \in 1 .. n + 1 : Adjacent(p[i - 1], p[i], m)
    BY <1>1 DEF Walk
  <2> DEFINE q == [i \in 0 .. n |-> p[i]]
  <2>2. q \in [0 .. n -> Ids] /\ q[0] = a /\ q[n] = p[n] /\ p[n] \in Ids
    BY <2>1
  <2>3. ASSUME NEW i \in 1 .. n PROVE Adjacent(q[i - 1], q[i], m)
    <3>1. i \in 1 .. n + 1 /\ q[i - 1] = p[i - 1] /\ q[i] = p[i]
      OBVIOUS
    <3> QED
      BY <2>1, <3>1
  <2>4. Adjacent(p[n], b, m)
    <3>1. n + 1 \in 1 .. n + 1 /\ (n + 1) - 1 = n
      OBVIOUS
    <3> QED
      BY <2>1, <3>1
  <2> HIDE DEF q
  <2>5. Walk(a, p[n], n, m)
    BY <2>2, <2>3 DEF Walk
  <2> QED
    BY <2>2, <2>4, <2>5
<1>2. ASSUME NEW c \in Ids, Walk(a, c, n, m), Adjacent(c, b, m)
      PROVE  Walk(a, b, n + 1, m)
  <2>1. PICK q \in [0 .. n -> Ids] :
          /\ q[0] = a /\ q[n] = c
          /\ \A i \in 1 .. n : Adjacent(q[i - 1], q[i], m)
    BY <1>2 DEF Walk
  <2> DEFINE p == [i \in 0 .. n + 1 |-> IF i <= n THEN q[i] ELSE b]
  <2>2. p \in [0 .. n + 1 -> Ids] /\ p[0] = a /\ p[n + 1] = b
    BY <2>1
  <2>3. ASSUME NEW i \in 1 .. n + 1 PROVE Adjacent(p[i - 1], p[i], m)
    <3>1. CASE i = n + 1
      <4>1. p[i - 1] = c /\ p[i] = b
        BY <2>1, <3>1
      <4> QED
        BY <1>2, <4>1
    <3>2. CASE i \in 1 .. n
      <4>1. p[i - 1] = q[i - 1] /\ p[i] = q[i]
        BY <2>1, <3>2
      <4> QED
        BY <2>1, <3>2, <4>1
    <3> QED
      BY <3>1, <3>2
  <2> HIDE DEF p
  <2> QED
    BY <2>2, <2>3 DEF Walk
<1> QED
  BY <1>1, <1>2

-----------------------------------------------------------------------------
\* The accounts at distance d from a, and those no farther than d.
At(a, d, m)   == {b \in Ids : Walk(a, b, d, m) /\ \A n \in 0 .. d - 1 : ~ Walk(a, b, n, m)}
Upto(a, d, m) == {b \in Ids : \E n \in 0 .. d : Walk(a, b, n, m)}

\* Where the qualifying transactions that touch F lead.
Reached(F, m) ==
  {Beyond(t, F) : t \in {r \in transactions : {r.from, r.to} \cap F # {} /\ Qualifies(r, m)}}

LEMMA UptoStep ==
  ASSUME NEW a \in Ids, NEW d \in Nat, NEW m
  PROVE  /\ At(a, 0, m) = {a} /\ Upto(a, 0, m) = {a}
         /\ Upto(a, d + 1, m) = Upto(a, d, m) \cup At(a, d + 1, m)
         /\ At(a, d, m) \subseteq Upto(a, d, m)
         /\ At(a, d + 1, m) \cap Upto(a, d, m) = {}
<1>1. At(a, 0, m) = {a} /\ Upto(a, 0, m) = {a}
  <2>1. \A b : Walk(a, b, 0, m) <=> b = a
    BY WalkZero
  <2> QED
    BY <2>1 DEF At, Upto
<1>2. Upto(a, d + 1, m) = Upto(a, d, m) \cup At(a, d + 1, m)
  <2>1. \A n : n \in 0 .. d + 1 <=> n \in 0 .. d \/ n = d + 1
    OBVIOUS
  <2>2. (d + 1) - 1 = d
    OBVIOUS
  <2> QED
    BY <2>1, <2>2 DEF At, Upto
<1>3. At(a, d, m) \subseteq Upto(a, d, m)
  BY DEF At, Upto
<1>4. At(a, d + 1, m) \cap Upto(a, d, m) = {}
  BY DEF At, Upto
<1> QED
  BY <1>1, <1>2, <1>3, <1>4

\* The accounts at distance d + 1 are the new ones that the frontier leads to.  A row with
\* both ends in the frontier names only one of them, but then both have been visited.
LEMMA AtStep ==
  ASSUME RowsOK, NEW a \in Ids, NEW d \in Nat, NEW m
  PROVE  At(a, d + 1, m) = Reached(At(a, d, m), m) \ Upto(a, d, m)
<1> DEFINE F == At(a, d, m)
           V == Upto(a, d, m)
<1>1. ASSUME NEW b \in At(a, d + 1, m)
      PROVE  b \in Reached(F, m) \ V
  <2>1. b \in Ids /\ Walk(a, b, d + 1, m) /\ b \notin V
    BY UptoStep DEF At
  <2>2. PICK c \in Ids : Walk(a, c, d, m) /\ Adjacent(c, b, m)
    BY <2>1, WalkStep
  <2>3. c \in F
    <3> SUFFICES ASSUME NEW n \in 0 .. d - 1, Walk(a, c, n, m) PROVE FALSE
      BY <2>2 DEF At
    <3>1. n \in Nat /\ n + 1 \in 0 .. d
      OBVIOUS
    <3>2. Walk(a, b, n + 1, m)
      BY <2>1, <2>2, <3>1, WalkStep
    <3> QED
      BY <2>1, <3>1, <3>2 DEF Upto
  <2>4. F \subseteq V
    BY UptoStep
  <2>5. PICK t \in transactions : {t.from, t.to} = {c, b} /\ Qualifies(t, m)
    BY <2>2 DEF Adjacent
  <2> HIDE DEF F, V
  <2>6. (t.from = c /\ t.to = b) \/ (t.from = b /\ t.to = c)
    BY <2>5
  <2>7. Beyond(t, F) = b /\ {t.from, t.to} \cap F # {}
    BY <2>1, <2>3, <2>4, <2>6 DEF Beyond
  <2> QED
    BY <2>1, <2>5, <2>7 DEF Reached
<1>2. ASSUME NEW b \in Reached(F, m), b \notin V
      PROVE  b \in At(a, d + 1, m)
  <2>1. PICK t \in transactions : {t.from, t.to} \cap F # {} /\ Qualifies(t, m) /\ b = Beyond(t, F)
    BY DEF Reached
  <2>2. t.from \in Ids /\ t.to \in Ids
    BY DEF RowsOK
  <2>3. PICK c \in F : {t.from, t.to} = {c, b} /\ b \in Ids
    <3> HIDE DEF F
    <3> QED
      BY <2>1, <2>2 DEF Beyond
  <2>4. c \in Ids /\ Walk(a, c, d, m)
    BY <2>3 DEF At
  <2>5. Adjacent(c, b, m)
    BY <2>1, <2>3 DEF Adjacent
  <2>6. Walk(a, b, d + 1, m)
    BY <2>3, <2>4, <2>5, WalkStep
  <2>7. \A n \in 0 .. d : ~ Walk(a, b, n, m)
    BY <1>2, <2>3 DEF Upto
  <2>8. (d + 1) - 1 = d
    OBVIOUS
  <2> QED
    BY <2>3, <2>6, <2>7, <2>8 DEF At
<1> QED
  BY <1>1, <1>2

-----------------------------------------------------------------------------
\* What the loop has after h rounds.
Ring(a, d, m)  == {Link(b, d, At(a, d - 1, m), m) : b \in At(a, d, m)}
Found(a, h, m) == UNION {Ring(a, d, m) : d \in 1 .. h}
After(a, h, m) == [visited |-> Upto(a, h, m), frontier |-> At(a, h, m), found |-> Found(a, h, m)]

LEMMA AfterStep ==
  ASSUME RowsOK, NEW a \in Ids, NEW h \in Nat, NEW m
  PROVE  /\ After(a, 0, m) = [visited |-> {a}, frontier |-> {a}, found |-> {}]
         /\ After(a, h + 1, m) = IF After(a, h, m).frontier = {} THEN After(a, h, m)
                                 ELSE Round(After(a, h, m), h + 1, m)
<1>1. After(a, 0, m) = [visited |-> {a}, frontier |-> {a}, found |-> {}]
  <2>1. Found(a, 0, m) = {}
    BY DEF Found
  <2> QED
    BY <2>1, UptoStep DEF After
<1> DEFINE F == At(a, h, m)
           V == Upto(a, h, m)
           fresh == Reached(F, m) \ V
<1>2. At(a, h + 1, m) = fresh /\ Upto(a, h + 1, m) = V \cup fresh
  BY AtStep, UptoStep
<1>3. Ring(a, h + 1, m) = {Link(b, h + 1, F, m) : b \in fresh}
  <2>1. (h + 1) - 1 = h
    OBVIOUS
  <2> QED
    BY <1>2, <2>1 DEF Ring
<1>4. Found(a, h + 1, m) = Found(a, h, m) \cup Ring(a, h + 1, m)
  <2>1. \A d : d \in 1 .. h + 1 <=> d \in 1 .. h \/ d = h + 1
    OBVIOUS
  <2> QED
    BY <2>1 DEF Found
<1>5. CASE F = {}
  <2>1. fresh = {}
    BY <1>5 DEF Reached
  <2>2. After(a, h + 1, m) = After(a, h, m)
    BY <1>2, <1>3, <1>4, <1>5, <2>1 DEF After
  <2> QED
    BY <1>1, <1>5, <2>2 DEF After
<1>6. CASE F # {}
  <2> DEFINE s == After(a, h, m)
  <2>1. s.visited = V /\ s.frontier = F /\ s.found = Found(a, h, m)
    BY DEF After
  <2>2. Round(s, h + 1, m) = [visited |-> s.visited \cup (Reached(s.frontier, m) \ s.visited),
                              frontier |-> Reached(s.frontier, m) \ s.visited,
                              found |-> s.found \cup {Link(n, h + 1, s.frontier, m) :
                                                        n \in Reached(s.frontier, m) \ s.visited}]
    BY DEF Round, Reached
  <2> HIDE DEF s
  <2>3. Round(s, h + 1, m) = After(a, h + 1, m)
    BY <1>2, <1>3, <1>4, <2>1, <2>2 DEF After
  <2> QED
    BY <1>1, <1>6, <2>1, <2>3 DEF s
<1> QED
  BY <1>5, <1>6

LEMMA ClampFacts ==
  ASSUME NEW h \in Nat
  PROVE  clamp(h) \in Nat /\ clamp(h) >= 1 /\ clamp(1) = 1
<1>1. max_hops \in Nat /\ max_hops >= 1
  BY GraphAssumption
<1>2. \A k \in Nat : Max({1, k}) = IF k <= 1 THEN 1 ELSE k
  <2> SUFFICES ASSUME NEW k \in Nat PROVE Max({1, k}) = IF k <= 1 THEN 1 ELSE k
    OBVIOUS
  <2>1. \E x \in {1, k} : \A y \in {1, k} : x >= y
    OBVIOUS
  <2> QED
    BY <2>1 DEF Max
<1>3. Min({h, max_hops}) \in Nat /\ Min({1, max_hops}) = 1
  BY <1>1, MinOfTwo
<1> QED
  BY <1>2, <1>3 DEF clamp

\* A recursion over the rounds has one solution.
LEMMA WalkUnique ==
  ASSUME RowsOK, NEW a \in Ids, NEW K \in Nat, NEW m, NEW g,
         g = [hop \in 0 .. K |->
                IF hop = 0 THEN [visited |-> {a}, frontier |-> {a}, found |-> {}]
                ELSE IF g[hop - 1].frontier = {} THEN g[hop - 1]
                ELSE Round(g[hop - 1], hop, m)]
  PROVE  g[K] = After(a, K, m)
<1>1. /\ g[0] = [visited |-> {a}, frontier |-> {a}, found |-> {}]
      /\ \A hop \in 0 .. K : hop # 0 =>
           g[hop] = IF g[hop - 1].frontier = {} THEN g[hop - 1] ELSE Round(g[hop - 1], hop, m)
  <2>1. 0 \in 0 .. K
    OBVIOUS
  <2> QED
    BY <2>1
<1> DEFINE T == {h \in 0 .. K : g[h] # After(a, h, m)}
<1>2. T = {}
  <2> SUFFICES ASSUME T # {} PROVE FALSE
    OBVIOUS
  <2>1. PICK h \in T : \A k \in T : h <= k
    <3>1. T \subseteq Nat
      OBVIOUS
    <3> HIDE DEF T
    <3> QED
      BY <3>1, Least
  <2>2. h # 0
    BY <1>1, AfterStep
  <2> DEFINE j == h - 1
  <2>3. h \in 0 .. K /\ j \in Nat /\ j \in 0 .. K /\ h = j + 1 /\ j < h
    BY <2>1, <2>2
  <2>4. g[j] = After(a, j, m)
    <3>1. j \notin T
      <4> HIDE DEF T, j
      <4> QED
        BY <2>1, <2>3
    <3> HIDE DEF j
    <3> QED
      BY <2>3, <3>1
  <2>5. After(a, j + 1, m) = IF After(a, j, m).frontier = {} THEN After(a, j, m)
                             ELSE Round(After(a, j, m), j + 1, m)
    BY <2>3, AfterStep
  <2>6. g[h] = IF g[j].frontier = {} THEN g[j] ELSE Round(g[j], h, m)
    BY <1>1, <2>2, <2>3
  <2>7. g[h] = After(a, h, m)
    <3> HIDE DEF j
    <3> QED
      BY <2>3, <2>4, <2>5, <2>6
  <2> QED
    BY <2>1, <2>7
<1>3. K \in 0 .. K
  OBVIOUS
<1> QED
  BY <1>2, <1>3

LEMMA NeighborsAre ==
  ASSUME RowsOK, NEW a \in Ids, NEW hops \in Nat, NEW m
  PROVE  neighbors(a, hops, m) = Found(a, clamp(hops), m)
<1> DEFINE K == clamp(hops)
           W == [h \in 0 .. K |-> After(a, h, m)]
<1>1. K \in Nat
  BY ClampFacts
<1> HIDE DEF K
<1>2. W = [hop \in 0 .. K |->
             IF hop = 0 THEN [visited |-> {a}, frontier |-> {a}, found |-> {}]
             ELSE IF W[hop - 1].frontier = {} THEN W[hop - 1]
             ELSE Round(W[hop - 1], hop, m)]
  <2> SUFFICES ASSUME NEW hop \in 0 .. K
               PROVE  W[hop] = IF hop = 0 THEN [visited |-> {a}, frontier |-> {a}, found |-> {}]
                               ELSE IF W[hop - 1].frontier = {} THEN W[hop - 1]
                               ELSE Round(W[hop - 1], hop, m)
    <3>1. W = [hop \in 0 .. K |-> W[hop]]
      OBVIOUS
    <3> HIDE DEF W
    <3> QED
      BY <3>1
  <2>1. CASE hop = 0
    BY <2>1, AfterStep
  <2>2. CASE hop # 0
    <3> DEFINE j == hop - 1
    <3>1. j \in Nat /\ j \in 0 .. K /\ hop = j + 1
      BY <1>1, <2>2
    <3>2. After(a, j + 1, m) = IF After(a, j, m).frontier = {} THEN After(a, j, m)
                               ELSE Round(After(a, j, m), j + 1, m)
      BY <3>1, AfterStep
    <3>3. W[j] = After(a, j, m) /\ W[hop] = After(a, j + 1, m)
      BY <3>1
    <3> HIDE DEF W
    <3>4. W[hop] = IF W[j].frontier = {} THEN W[j] ELSE Round(W[j], hop, m)
      BY <3>1, <3>2, <3>3
    <3> QED
      BY <2>2, <3>4
  <2> QED
    BY <2>1, <2>2
<1> HIDE DEF W
<1>3. ASSUME NEW g,
             g = [hop \in 0 .. K |->
                    IF hop = 0 THEN [visited |-> {a}, frontier |-> {a}, found |-> {}]
                    ELSE IF g[hop - 1].frontier = {} THEN g[hop - 1]
                    ELSE Round(g[hop - 1], hop, m)]
      PROVE  g[K].found = Found(a, K, m)
  <2>1. g[K] = After(a, K, m)
    BY <1>1, <1>3, WalkUnique
  <2> QED
    BY <2>1 DEF After
<1> QED
  BY <1>2, <1>3 DEF neighbors, K

-----------------------------------------------------------------------------
\* An account has one distance.
LEMMA AtOnce ==
  ASSUME NEW a, NEW m, NEW c \in Nat, NEW d \in Nat, NEW b \in At(a, c, m), b \in At(a, d, m)
  PROVE  c = d
<1>1. Walk(a, b, c, m) /\ \A n \in 0 .. c - 1 : ~ Walk(a, b, n, m)
  BY DEF At
<1>2. Walk(a, b, d, m) /\ \A n \in 0 .. d - 1 : ~ Walk(a, b, n, m)
  BY DEF At
<1> QED
  BY <1>1, <1>2

\* An account that can be reached at all has a distance.
LEMMA AtSome ==
  ASSUME NEW a \in Ids, NEW b \in Ids, b # a, NEW m, NEW n \in Nat, Walk(a, b, n, m)
  PROVE  \E d \in 1 .. n : b \in At(a, d, m)
<1> DEFINE T == {k \in Nat : Walk(a, b, k, m)}
<1>1. PICK d \in T : \A k \in T : d <= k
  BY Least
<1>2. d \in Nat /\ d <= n /\ Walk(a, b, d, m) /\ d # 0
  BY <1>1, WalkZero
<1>3. \A k \in 0 .. d - 1 : ~ Walk(a, b, k, m)
  BY <1>1, <1>2
<1>4. d \in 1 .. n
  BY <1>2
<1> QED
  BY <1>2, <1>3, <1>4 DEF At

\* What is found: one link for each account at a distance from 1 to K.
LEMMA FoundFacts ==
  ASSUME NEW a \in Ids, NEW K \in Nat, NEW m
  PROVE  /\ \A l \in Found(a, K, m) :
              /\ l.hop \in 1 .. K /\ l.account \in At(a, l.hop, m)
              /\ l = Link(l.account, l.hop, At(a, l.hop - 1, m), m)
         /\ \A d \in 1 .. K : \A b \in At(a, d, m) :
              /\ Link(b, d, At(a, d - 1, m), m) \in Found(a, K, m)
              /\ Link(b, d, At(a, d - 1, m), m).account = b
<1>1. \A b, d, F : Link(b, d, F, m).account = b /\ Link(b, d, F, m).hop = d
  BY DEF Link
<1>2. ASSUME NEW l \in Found(a, K, m)
      PROVE  /\ l.hop \in 1 .. K /\ l.account \in At(a, l.hop, m)
             /\ l = Link(l.account, l.hop, At(a, l.hop - 1, m), m)
  <2>1. PICK d \in 1 .. K : l \in Ring(a, d, m)
    BY DEF Found
  <2>2. PICK b \in At(a, d, m) : l = Link(b, d, At(a, d - 1, m), m)
    BY <2>1 DEF Ring
  <2>3. l.account = b /\ l.hop = d
    BY <1>1, <2>2
  <2> QED
    BY <2>2, <2>3
<1>3. \A d \in 1 .. K : \A b \in At(a, d, m) : Link(b, d, At(a, d - 1, m), m) \in Found(a, K, m)
  BY DEF Found, Ring
<1> QED
  BY <1>1, <1>2, <1>3

\* Links and the accounts they lead to, one for one.
LEMMA LinksAreAccounts ==
  ASSUME NEW a \in Ids, NEW K \in Nat, NEW m
  PROVE  LET near == {b \in Ids \ {a} : \E n \in 1 .. K : Walk(a, b, n, m)}
         IN  /\ {l.account : l \in Found(a, K, m)} = near
             /\ IsFiniteSet(Found(a, K, m))
             /\ Cardinality(Found(a, K, m)) = Cardinality(near)
<1> DEFINE near  == {b \in Ids \ {a} : \E n \in 1 .. K : Walk(a, b, n, m)}
           links == Found(a, K, m)
           g     == [l \in links |-> l.account]
<1>1. ASSUME NEW l \in links
      PROVE  l.account \in near
  <2>1. l.hop \in 1 .. K /\ l.account \in At(a, l.hop, m)
    BY FoundFacts
  <2>2. l.account \in Ids /\ Walk(a, l.account, l.hop, m) /\ ~ Walk(a, l.account, 0, m)
    BY <2>1 DEF At
  <2>3. l.account # a
    BY <2>2, WalkZero
  <2> QED
    BY <2>1, <2>2, <2>3
<1>2. ASSUME NEW b \in near
      PROVE  \E l \in links : l.account = b
  <2>1. PICK n \in 1 .. K : Walk(a, b, n, m)
    OBVIOUS
  <2>2. PICK d \in 1 .. n : b \in At(a, d, m)
    <3>1. n \in Nat /\ b \in Ids /\ b # a
      OBVIOUS
    <3> QED
      BY <2>1, <3>1, AtSome
  <2>3. d \in 1 .. K
    OBVIOUS
  <2> QED
    BY <2>2, <2>3, FoundFacts
<1>3. ASSUME NEW l \in links, NEW k \in links, l.account = k.account
      PROVE  l = k
  <2>1. /\ l.hop \in Nat /\ l.account \in At(a, l.hop, m)
        /\ l = Link(l.account, l.hop, At(a, l.hop - 1, m), m)
    BY FoundFacts
  <2>2. /\ k.hop \in Nat /\ k.account \in At(a, k.hop, m)
        /\ k = Link(k.account, k.hop, At(a, k.hop - 1, m), m)
    BY FoundFacts
  <2>3. l.hop = k.hop
    BY <1>3, <2>1, <2>2, AtOnce
  <2> QED
    BY <1>3, <2>1, <2>2, <2>3
<1> HIDE DEF links, near
<1>4. g \in Injection(links, near) /\ g \in Surjection(links, near)
  BY <1>1, <1>2, <1>3 DEF Injection, Surjection, IsInjective
<1>5. IsFiniteSet(near)
  BY GraphAssumption, FS_Subset DEF near
<1>6. IsFiniteSet(links) /\ Cardinality(links) = Cardinality(near)
  BY <1>4, <1>5, FS_Injection
<1>7. {l.account : l \in links} = near
  BY <1>1, <1>2
<1> QED
  BY <1>6, <1>7 DEF links, near

\* The answer of the tool.
LEMMA NeighborsTell ==
  ASSUME RowsOK, NEW a \in Ids, NEW hops \in Nat, NEW m
  PROVE  LET links == neighbors(a, hops, m)
             near  == {b \in Ids \ {a} : \E n \in 1 .. clamp(hops) : Walk(a, b, n, m)}
         IN  /\ {l.account : l \in links} = near
             /\ Cardinality(links) = Cardinality(near)
             /\ \A l \in links : \A n \in 1 .. l.hop : Walk(a, l.account, n, m) <=> n = l.hop
<1> DEFINE K == clamp(hops)
           near == {b \in Ids \ {a} : \E n \in 1 .. K : Walk(a, b, n, m)}
<1>1. K \in Nat
  BY ClampFacts
<1>2. neighbors(a, hops, m) = Found(a, K, m)
  BY NeighborsAre
<1>3. {l.account : l \in Found(a, K, m)} = near /\ Cardinality(Found(a, K, m)) = Cardinality(near)
  BY <1>1, LinksAreAccounts, Zenon
<1>4. ASSUME NEW l \in Found(a, K, m), NEW n \in 1 .. l.hop
      PROVE  Walk(a, l.account, n, m) <=> n = l.hop
  <2>1. l.hop \in 1 .. K /\ l.account \in At(a, l.hop, m)
    BY <1>1, FoundFacts
  <2>2. Walk(a, l.account, l.hop, m) /\ \A k \in 0 .. l.hop - 1 : ~ Walk(a, l.account, k, m)
    BY <2>1 DEF At
  <2>3. l.hop \in Nat /\ n \in Nat
    BY <1>1, <2>1
  <2> QED
    BY <2>2, <2>3
<1> HIDE DEF near, K
<1> QED
  BY <1>2, <1>3, <1>4 DEF near, K

-----------------------------------------------------------------------------
(***************************************************************************)
(* get_account, and the other tools about the same account                 *)
(***************************************************************************)

\* The days cut time without gap or overlap.
LEMMA DayOf ==
  ASSUME NEW ts \in Nat, NEW d \in Nat
  PROVE  ts >= d * DAY /\ ts < (d + 1) * DAY <=> ts \div DAY = d
<1> DEFINE q == ts \div DAY
           r == ts % DAY
<1>1. DAY \in Nat /\ DAY > 0
  BY GraphAssumption
<1>2. q \in Nat /\ r \in Nat /\ r < DAY /\ ts = q * DAY + r
  BY <1>1
<1> HIDE DEF q, r
<1>3. (d + 1) * DAY = d * DAY + DAY /\ (q + 1) * DAY = q * DAY + DAY
  BY <1>1, <1>2
<1>4. d * DAY \in Nat /\ q * DAY \in Nat
  BY <1>1, <1>2
<1>5. CASE q < d
  <2>1. (q + 1) * DAY <= d * DAY
    BY <1>1, <1>2, <1>5, TimesMono
  <2> QED
    BY <1>1, <1>2, <1>3, <1>4, <1>5, <2>1 DEF q
<1>6. CASE d < q
  <2>1. (d + 1) * DAY <= q * DAY
    BY <1>1, <1>2, <1>6, TimesMono
  <2> QED
    BY <1>1, <1>2, <1>3, <1>4, <1>6, <2>1 DEF q
<1>7. CASE d = q
  BY <1>1, <1>2, <1>3, <1>4, <1>7 DEF q
<1> QED
  BY <1>2, <1>5, <1>6, <1>7

\* One day's transactions.
OnDay(a, d) == query_transactions(a, d, d)

LEMMA OnDayFacts ==
  ASSUME RowsOK, NEW a
  PROVE  /\ \A d \in Days : OnDay(a, d) = {t \in Touching(a) : t.timestamp \div DAY = d}
         /\ UNION {OnDay(a, d) : d \in Days} = Touching(a)
         /\ \A t \in Touching(a) : t.timestamp \div DAY \in Days
<1>1. \A t \in Touching(a) : t.timestamp \in Nat /\ t.timestamp \div DAY \in Days
  BY DEF RowsOK, Touching
<1>2. ASSUME NEW d \in Days
      PROVE  OnDay(a, d) = {t \in Touching(a) : t.timestamp \div DAY = d}
  <2>1. d \in Nat
    BY GraphAssumption
  <2>2. \A t \in Touching(a) :
          t.timestamp >= d * DAY /\ t.timestamp < (d + 1) * DAY <=> t.timestamp \div DAY = d
    BY <1>1, <2>1, DayOf
  <2> QED
    BY <2>2 DEF OnDay, query_transactions
<1>3. UNION {OnDay(a, d) : d \in Days} = Touching(a)
  BY <1>1, <1>2
<1> QED
  BY <1>1, <1>2, <1>3

\* Asked for day by day, every transaction comes once.
LEMMA SumOfDays ==
  ASSUME RowsOK, NEW a
  PROVE  LET size(d) == Cardinality(query_transactions(a, d, d))
         IN  MapThenSumSet(size, Days) = Cardinality(Touching(a))
<1> DEFINE T       == Touching(a)
           class   == [t \in T |-> t.timestamp \div DAY]
           size(d) == Cardinality(query_transactions(a, d, d))
           f       == [d \in Days |-> size(d)]
           h       == Sizes(T, class, Days)
<1>1. IsFiniteSet(T) /\ IsFiniteSet(Days)
  BY GraphAssumption, FS_Subset DEF RowsOK, Touching
<1>2. \A t \in T : class[t] = t.timestamp \div DAY /\ class[t] \in Days
  BY OnDayFacts
<1>3. ASSUME NEW d \in Days
      PROVE  f[d] = Cardinality({t \in T : class[t] = d})
  <2>1. OnDay(a, d) = {t \in T : class[t] = d}
    BY <1>2, OnDayFacts
  <2> QED
    BY <2>1 DEF OnDay
<1>4. \A s \in SUBSET Days : s # {} => size(Chosen(s)) = f[Chosen(s)]
  BY DEF Chosen
<1> HIDE DEF f, class, T
<1>5. IsSum(f, Days, h)
  BY <1>1, <1>3, SumOfClasses
<1>6. h[Days] = Cardinality(T)
  <2>1. {t \in T : class[t] \in Days} = T
    BY <1>2
  <2> QED
    BY <2>1 DEF Sizes
<1> HIDE DEF h, size
<1>7. h = [s \in SUBSET Days |-> IF s = {} THEN 0 ELSE size(Chosen(s)) + h[s \ {Chosen(s)}]]
  BY <1>4, <1>5 DEF IsSum
<1>8. ASSUME NEW g,
             g = [s \in SUBSET Days |-> IF s = {} THEN 0 ELSE size(Chosen(s)) + g[s \ {Chosen(s)}]]
      PROVE  g[Days] = Cardinality(T)
  <2>1. IsSum(f, Days, g)
    BY <1>4, <1>8 DEF IsSum
  <2> QED
    BY <1>1, <1>5, <1>6, <2>1, SumUnique
<1>9. MapThenSumSet(size, Days) = Cardinality(T)
  BY <1>7, <1>8 DEF MapThenSumSet, MapThenFoldSet, Chosen
<1> QED
  BY <1>9 DEF T, size

LEMMA AnyQualifies ==
  ASSUME RowsOK, NEW t \in transactions
  PROVE  Qualifies(t, 0)
<1>1. t.paid \in Nat /\ t.received \in Nat
  BY DEF RowsOK
<1>2. \E x \in {t.paid, t.received} : \A y \in {t.paid, t.received} : x >= y
  BY <1>1
<1>3. Max({t.paid, t.received}) \in {t.paid, t.received}
  BY <1>2 DEF Max
<1> QED
  BY <1>1, <1>3 DEF Qualifies

\* The direct neighbours, with no minimum.
LEMMA DirectNeighbors ==
  ASSUME RowsOK, NEW a \in Ids
  PROVE  LET links == neighbors(a, 1, 0)
             own   == {t \in Touching(a) : t.from = t.to}
         IN  /\ MapThenSumSet(counted, links) + Cardinality(own) = Cardinality(Touching(a))
             /\ get_account(a).counterparties = Cardinality(links) + (IF own = {} THEN 0 ELSE 1)
<1> DEFINE links == neighbors(a, 1, 0)
           own   == {t \in Touching(a) : t.from = t.to}
           T     == Touching(a) \ own
           N     == At(a, 1, 0)
           to(t) == Beyond(t, {a})
           link(b) == Link(b, 1, {a}, 0)
           C     == {to(t) : t \in Touching(a)}
<1>1. links = Found(a, 1, 0)
  BY NeighborsAre, ClampFacts
<1>2. At(a, 0, 0) = {a} /\ Upto(a, 0, 0) = {a}
  BY UptoStep
<1>3. N = Reached({a}, 0) \ {a}
  <2>1. \A d \in Nat : At(a, d + 1, 0) = Reached(At(a, d, 0), 0) \ Upto(a, d, 0)
    BY AtStep
  <2>2. At(a, 0 + 1, 0) = Reached(At(a, 0, 0), 0) \ Upto(a, 0, 0)
    BY <2>1
  <2>3. 0 + 1 = 1
    OBVIOUS
  <2> QED
    BY <1>2, <2>2, <2>3
<1>4. /\ \A l \in links : l.account \in N /\ l = link(l.account)
      /\ \A b \in N : link(b) \in links /\ link(b).account = b
  <2>1. 1 \in Nat /\ 1 - 1 = 0 /\ 1 .. 1 = {1}
    OBVIOUS
  <2>2. \A l \in links : /\ l.hop \in 1 .. 1 /\ l.account \in At(a, l.hop, 0)
                         /\ l = Link(l.account, l.hop, At(a, l.hop - 1, 0), 0)
    BY <1>1, <2>1, FoundFacts
  <2>3. \A d \in 1 .. 1 : \A b \in At(a, d, 0) : /\ Link(b, d, At(a, d - 1, 0), 0) \in links
                                                 /\ Link(b, d, At(a, d - 1, 0), 0).account = b
    BY <1>1, <2>1, FoundFacts
  <2>4. \A b \in At(a, 1, 0) : /\ Link(b, 1, At(a, 1 - 1, 0), 0) \in links
                               /\ Link(b, 1, At(a, 1 - 1, 0), 0).account = b
    BY <2>1, <2>3
  <2>5. \A l \in links : l.account \in At(a, 1, 0) /\ l = Link(l.account, 1, At(a, 1 - 1, 0), 0)
    <3>1. \A l \in links : l.hop = 1
      BY <2>2
    <3> HIDE DEF links
    <3> QED
      BY <2>2, <3>1
  <2>6. At(a, 1 - 1, 0) = {a}
    BY <1>2, <2>1
  <2> HIDE DEF links
  <2> QED
    BY <2>4, <2>5, <2>6
<1>5. C = Reached({a}, 0)
  <2>1. Touching(a) = {r \in transactions : {r.from, r.to} \cap {a} # {} /\ Qualifies(r, 0)}
    BY AnyQualifies DEF Touching
  <2> QED
    BY <2>1 DEF Reached
<1>6. IsFiniteSet(Touching(a)) /\ IsFiniteSet(own) /\ IsFiniteSet(T)
  <2>1. IsFiniteSet(Touching(a))
    BY FS_Subset DEF RowsOK, Touching
  <2> QED
    BY <2>1, FS_Subset
<1>7. IsFiniteSet(links) /\ Cardinality(links) = Cardinality(N) /\ IsFiniteSet(N)
  <2> DEFINE near == {b \in Ids \ {a} : \E n \in 1 .. 1 : Walk(a, b, n, 0)}
  <2>1. /\ {l.account : l \in Found(a, 1, 0)} = near
        /\ IsFiniteSet(Found(a, 1, 0)) /\ Cardinality(Found(a, 1, 0)) = Cardinality(near)
    BY LinksAreAccounts
  <2>2. {l.account : l \in links} = N
    <3> HIDE DEF links, link, N
    <3> QED
      BY <1>4
  <2>3. IsFiniteSet(N)
    BY GraphAssumption, FS_Subset DEF At
  <2> HIDE DEF near, links, N
  <2> QED
    BY <1>1, <2>1, <2>2, <2>3
<1>8. MapThenSumSet(counted, links) = Cardinality(T)
  <2> DEFINE class == [t \in T |-> link(to(t))]
  <2>1. \A t \in T : to(t) \in N
    <3>1. \A t \in T : to(t) \in C /\ to(t) # a
      BY DEF Beyond, Touching
    <3> HIDE DEF C, T, N, to
    <3> QED
      BY <1>3, <1>5, <3>1
  <2>2. \A t \in T : class[t] \in links
    <3> HIDE DEF links, link, N, to, T
    <3> QED
      BY <1>4, <2>1
  <2>3. ASSUME NEW l \in links
        PROVE  l.count = Cardinality({t \in T : class[t] = l})
    <3> DEFINE n == l.account
    <3>1. n \in N /\ l = link(n) /\ n # a
      BY <1>3, <1>4
    <3> DEFINE group == {t \in transactions : /\ {t.from, t.to} \cap {a} # {}
                                              /\ Qualifies(t, 0) /\ to(t) = n}
    <3>2. l.count = Cardinality(group)
      <4>1. link(n).count = Cardinality(group)
        BY DEF Link
      <4> HIDE DEF link, group, n
      <4> QED
        BY <3>1, <4>1
    <3>3. group = {t \in T : to(t) = n}
      BY <3>1, AnyQualifies DEF Touching, Beyond
    <3>4. \A t \in T : class[t] = l <=> to(t) = n
      <4>1. \A b, c : link(b) = link(c) => b = c
        BY DEF Link
      <4> HIDE DEF link, n, to, T
      <4> QED
        BY <3>1, <4>1
    <3>5. group = {t \in T : class[t] = l}
      <4> HIDE DEF class, n, to, T, group
      <4> QED
        BY <3>3, <3>4
    <3> QED
      BY <3>2, <3>5
  <2>4. \A l \in links : l.count = Cardinality({t \in T : class[t] = l})
    BY <2>3
  <2>5. IsFiniteSet(T) /\ IsFiniteSet(links)
    BY <1>6, <1>7
  <2> HIDE DEF class, T, links, own, N, C
  <2> QED
    BY <2>2, <2>4, <2>5, SumCounted
<1>9. Cardinality(T) + Cardinality(own) = Cardinality(Touching(a))
  <2>1. Cardinality(Touching(a) \cap own) = Cardinality(own)
    <3>1. Touching(a) \cap own = own
      OBVIOUS
    <3> QED
      BY <3>1
  <2>2. Cardinality(T) = Cardinality(Touching(a)) - Cardinality(Touching(a) \cap own)
    BY <1>6, FS_Difference
  <2>3. Cardinality(own) \in Nat /\ Cardinality(Touching(a)) \in Nat
    BY <1>6, FS_CardinalityType
  <2> DEFINE x == Cardinality(T)
             y == Cardinality(own)
             z == Cardinality(Touching(a))
  <2>4. x = z - y /\ y \in Nat /\ z \in Nat
    BY <2>1, <2>2, <2>3
  <2> HIDE DEF x, y, z
  <2>5. x + y = z
    BY <2>4
  <2> QED
    BY <2>5 DEF x, y, z
<1>10. Cardinality(C) = Cardinality(links) + (IF own = {} THEN 0 ELSE 1)
  <2>1. a \in C <=> own # {}
    BY DEF Touching, Beyond
  <2>2. N = C \ {a}
    BY <1>3, <1>5
  <2>3. CASE own = {}
    <3>1. N = C
      BY <2>1, <2>2, <2>3
    <3>2. Cardinality(links) \in Nat
      BY <1>7, FS_CardinalityType
    <3> HIDE DEF N, C, links, own
    <3> QED
      BY <1>7, <2>3, <3>1, <3>2
  <2>4. CASE own # {}
    <3>1. C = N \cup {a} /\ a \notin N
      BY <2>1, <2>2, <2>4
    <3> HIDE DEF N, C, links, own
    <3>2. Cardinality(C) = Cardinality(N) + 1
      BY <1>7, <3>1, FS_AddElement
    <3> QED
      BY <1>7, <2>4, <3>2
  <2> QED
    BY <2>3, <2>4
<1>11. get_account(a).counterparties = Cardinality(C)
  <2>1. C = {IF t.from = a THEN t.to ELSE t.from : t \in Touching(a)}
    BY DEF Beyond
  <2> HIDE DEF C
  <2> QED
    BY <2>1 DEF get_account
<1> HIDE DEF links, own, T, C
<1>12. /\ MapThenSumSet(counted, links) + Cardinality(own) = Cardinality(Touching(a))
       /\ get_account(a).counterparties = Cardinality(links) + (IF own = {} THEN 0 ELSE 1)
  BY <1>8, <1>9, <1>10, <1>11
<1> QED
  BY <1>12 DEF links, own

-----------------------------------------------------------------------------
(***************************************************************************)
(* Every answer on its way is right, as long as it is on its way: the rows *)
(* do not change before the caller has read it.                            *)
(***************************************************************************)

\* What get_account says that the other tools say too.
RecordInv ==
  reply.tool = "get_account" =>
    /\ reply.account \in Ids
    /\ reply.record.total_transactions = Cardinality(Touching(reply.account))
    /\ reply.record.counterparties =
         Cardinality({IF t.from = reply.account THEN t.to ELSE t.from :
                        t \in Touching(reply.account)})

AnswerInv ==
  /\ reply # NoReply => up
  /\ RecordInv /\ HopIsDistance /\ TruncationIsTold /\ FlagIsWitnessed

LEMMA RecordsAgree == Inv /\ RecordInv => ToolsAgree
<1> SUFFICES ASSUME Inv, RecordInv, reply.tool = "get_account" PROVE ToolsAgree
  BY DEF ToolsAgree
<1> DEFINE a     == reply.account
           links == neighbors(a, 1, 0)
           own   == {t \in Touching(a) : t.from = t.to}
           size(d) == Cardinality(query_transactions(a, d, d))
<1>1. RowsOK
  BY InvRows
<1>2. /\ a \in Ids /\ reply.record.total_transactions = Cardinality(Touching(a))
      /\ reply.record.counterparties = get_account(a).counterparties
  BY DEF RecordInv, get_account
<1>3. UNION {query_transactions(a, d, d) : d \in Days} = Touching(a)
  BY <1>1, OnDayFacts DEF OnDay
<1>4. MapThenSumSet(size, Days) = Cardinality(Touching(a))
  BY <1>1, SumOfDays
<1>5. /\ MapThenSumSet(counted, links) + Cardinality(own) = Cardinality(Touching(a))
      /\ get_account(a).counterparties = Cardinality(links) + (IF own = {} THEN 0 ELSE 1)
  BY <1>1, <1>2, DirectNeighbors
<1> QED
  BY <1>2, <1>3, <1>4, <1>5 DEF ToolsAgree

-----------------------------------------------------------------------------
\* What the properties speak of depends on the rows alone.
LEMMA WalkKept ==
  ASSUME UNCHANGED transactions
  PROVE  \A a, b, n, m : Walk(a, b, n, m)' <=> Walk(a, b, n, m)
<1>1. \A a, b, m : Adjacent(a, b, m)' <=> Adjacent(a, b, m)
  BY DEF Adjacent, Qualifies
<1> QED
  BY <1>1 DEF Walk

LEMMA CheckKept ==
  ASSUME UNCHANGED transactions
  PROVE  \A a, w : structuring_check(a, w)' = structuring_check(a, w)
<1>1. \A a : Deposits(a)' = Deposits(a)
  BY DEF Deposits
<1>2. \A a, w : SmallDeposits(a, w)' = SmallDeposits(a, w)
  BY <1>1 DEF SmallDeposits
<1> QED
  BY <1>1, <1>2 DEF structuring_check

LEMMA TouchingKept ==
  ASSUME UNCHANGED transactions
  PROVE  \A a : Touching(a)' = Touching(a)
  BY DEF Touching

LEMMA AnswersKept ==
  ASSUME UNCHANGED <<transactions, reply>>, RecordInv, HopIsDistance, TruncationIsTold,
         FlagIsWitnessed
  PROVE  RecordInv' /\ HopIsDistance' /\ TruncationIsTold' /\ FlagIsWitnessed'
<1>1. RecordInv'
  BY TouchingKept DEF RecordInv
<1>2. HopIsDistance'
  <2> SUFFICES ASSUME reply.tool = "neighbors" PROVE HopIsDistance'
    BY DEF HopIsDistance
  <2> DEFINE a     == reply.account
             m     == reply.min_amount
             reach == Max({1, Min({reply.hops, max_hops})})
             near  == {b \in Ids \ {a} : \E n \in 1 .. reach : Walk(a, b, n, m)}
             far   == {b \in Ids \ {a} : \E n \in 1 .. reach : Walk(a, b, n, m)'}
  <2>1. far = near
    BY WalkKept
  <2>2. /\ {l.account : l \in reply.links} = near /\ Cardinality(reply.links) = Cardinality(near)
        /\ \A l \in reply.links : \A n \in 1 .. l.hop : Walk(a, l.account, n, m) <=> n = l.hop
    BY DEF HopIsDistance
  <2>3. \A l \in reply.links : \A n \in 1 .. l.hop : Walk(a, l.account, n, m)' <=> n = l.hop
    BY <2>2, WalkKept
  <2> HIDE DEF near
  <2>4. {l.account : l \in reply.links} = far /\ Cardinality(reply.links) = Cardinality(far)
    BY <2>1, <2>2
  <2> QED
    BY <2>3, <2>4 DEF HopIsDistance
<1>3. TruncationIsTold'
  BY DEF TruncationIsTold
<1>4. FlagIsWitnessed'
  BY CheckKept DEF FlagIsWitnessed
<1> QED
  BY <1>1, <1>2, <1>3, <1>4

-----------------------------------------------------------------------------
\* An answer that no property is about.
LEMMA OtherAnswer ==
  ASSUME reply'.tool \notin {"get_account", "neighbors", "subgraph", "structuring_check"}
  PROVE  RecordInv' /\ HopIsDistance' /\ TruncationIsTold' /\ FlagIsWitnessed'
  BY DEF RecordInv, HopIsDistance, TruncationIsTold, FlagIsWitnessed

LEMMA NeighborsAnswer ==
  ASSUME Inv, NEW a \in Ids, NEW h \in 0 .. MaxArg, NEW m \in Amounts, Neighbors(a, h, m)
  PROVE  AnswerInv'
<1>1. /\ UNCHANGED transactions /\ up' = TRUE
      /\ reply' = [tool |-> "neighbors", account |-> a, hops |-> h, min_amount |-> m,
                   links |-> neighbors(a, h, m)]
  BY DEF Neighbors, Answer, Idle, sampleVars, files, Inv, TypeOK
<1>2. RowsOK /\ h \in Nat
  BY InvRows
<1> DEFINE reach == clamp(h)
           links == neighbors(a, h, m)
           near  == {b \in Ids \ {a} : \E n \in 1 .. reach : Walk(a, b, n, m)}
           far   == {b \in Ids \ {a} : \E n \in 1 .. reach : Walk(a, b, n, m)'}
<1>3. /\ {l.account : l \in links} = near /\ Cardinality(links) = Cardinality(near)
      /\ \A l \in links : \A n \in 1 .. l.hop : Walk(a, l.account, n, m) <=> n = l.hop
  BY <1>2, NeighborsTell, Zenon
<1>4. far = near
  BY <1>1, WalkKept
<1> HIDE DEF links
<1>5. \A l \in links : \A n \in 1 .. l.hop : Walk(a, l.account, n, m)' <=> n = l.hop
  BY <1>1, <1>3, WalkKept
<1>6. {l.account : l \in links} = far /\ Cardinality(links) = Cardinality(far)
  <2> HIDE DEF near, far
  <2> QED
    BY <1>3, <1>4
<1>7. reply'.tool = "neighbors" /\ reply'.account = a /\ reply'.hops = h /\ reply'.min_amount = m
      /\ reply'.links = links
  BY <1>1 DEF links
<1>8. HopIsDistance'
  BY <1>5, <1>6, <1>7 DEF HopIsDistance, clamp
<1>9. RecordInv' /\ TruncationIsTold' /\ FlagIsWitnessed'
  BY <1>7 DEF RecordInv, TruncationIsTold, FlagIsWitnessed
<1> QED
  BY <1>1, <1>8, <1>9 DEF AnswerInv

LEMMA GetAccountAnswer ==
  ASSUME Inv, NEW a \in Ids, GetAccount(a)
  PROVE  AnswerInv'
<1>1. UNCHANGED transactions /\ up' = TRUE
  BY DEF GetAccount, Answer, Idle, sampleVars, files, Inv, TypeOK
<1>2. CASE a \in accounts
  <2>1. reply' = [tool |-> "get_account", account |-> a, record |-> get_account(a)]
    BY <1>2 DEF GetAccount, Answer
  <2>2. /\ reply'.tool = "get_account" /\ reply'.account = a
        /\ reply'.record.total_transactions = Cardinality(Touching(a))
        /\ reply'.record.counterparties =
             Cardinality({IF t.from = a THEN t.to ELSE t.from : t \in Touching(a)})
    BY <2>1 DEF get_account
  <2>3. RecordInv'
    BY <1>1, <2>2, TouchingKept DEF RecordInv
  <2>4. HopIsDistance' /\ TruncationIsTold' /\ FlagIsWitnessed'
    BY <2>2 DEF HopIsDistance, TruncationIsTold, FlagIsWitnessed
  <2> QED
    BY <1>1, <2>3, <2>4 DEF AnswerInv
<1>3. CASE a \notin accounts
  <2>1. reply'.tool = "error"
    BY <1>3 DEF GetAccount, Answer
  <2> QED
    BY <1>1, <2>1, OtherAnswer DEF AnswerInv
<1> QED
  BY <1>2, <1>3

LEMMA SubgraphAnswer ==
  ASSUME Inv, NEW S \in SUBSET Ids, NEW k \in 0 .. MaxArg, Subgraph(S, k)
  PROVE  AnswerInv'
<1>1. PICK g \in IF S = {} THEN {[edges |-> {}, truncated |-> FALSE]} ELSE subgraph(S, k) :
        Answer([tool |-> "subgraph", nodes |-> S, max_edges |-> k, graph |-> g])
  BY DEF Subgraph
<1>2. /\ UNCHANGED transactions /\ up' = TRUE
      /\ reply' = [tool |-> "subgraph", nodes |-> S, max_edges |-> k, graph |-> g]
  BY <1>1 DEF Answer, Idle, sampleVars, files, Inv, TypeOK
<1>3. RowsOK /\ k \in Nat
  BY InvRows
<1> DEFINE shown(t) == \E e \in g.edges : e.from = t.from /\ e.to = t.to
           inside == {t \in transactions : {t.from, t.to} \subseteq S}
           amount(a, b) == MapThenSumSet(paid, {u \in inside : u.from = a /\ u.to = b})
<1>4. /\ g.truncated <=> \E t \in inside : ~shown(t)
      /\ Cardinality(g.edges) <= k
      /\ \A e \in g.edges : e.total = amount(e.from, e.to)
      /\ \A e \in g.edges, t \in inside : ~shown(t) => e.total >= amount(t.from, t.to)
      /\ ~g.truncated => MapThenSumSet(counted, g.edges) = Cardinality(inside)
  <2>1. Tells(S, k, g)
    BY <1>1, <1>3, SubgraphTells, Zenon
  <2> QED
    BY <2>1 DEF Tells, Amount, Inside
<1>5. reply'.tool = "subgraph" /\ reply'.nodes = S /\ reply'.max_edges = k /\ reply'.graph = g
  BY <1>2
<1>6. TruncationIsTold'
  BY <1>2, <1>4, <1>5 DEF TruncationIsTold
<1>7. RecordInv' /\ HopIsDistance' /\ FlagIsWitnessed'
  BY <1>5 DEF RecordInv, HopIsDistance, FlagIsWitnessed
<1> QED
  BY <1>2, <1>6, <1>7 DEF AnswerInv

LEMMA StructuringAnswer ==
  ASSUME Inv, NEW a \in Ids, NEW w \in 0 .. MaxArg, StructuringCheck(a, w)
  PROVE  AnswerInv'
<1>1. /\ UNCHANGED transactions /\ up' = TRUE
      /\ reply' = [tool |-> "structuring_check", account |-> a, window |-> w,
                   signal |-> structuring_check(a, w)]
  BY DEF StructuringCheck, Answer, Idle, sampleVars, files, Inv, TypeOK
<1>2. RowsOK
  BY InvRows
<1>3. /\ reply'.tool = "structuring_check" /\ reply'.account = a /\ reply'.window = w
      /\ reply'.signal = structuring_check(a, w)
  BY <1>1
<1>4. FlagIsWitnessed'
  <2> SUFFICES ASSUME structuring_check(a, w).flagged PROVE FlagIsWitnessed'
    BY <1>3 DEF FlagIsWitnessed
  <2>1. /\ \E S \in SUBSET {t \in transactions : t.to = a} :
             /\ Cardinality(S) >= min_structuring_deposits
             /\ \A t \in S : t.received < small_deposit_threshold
             /\ MapThenSumSet(received, S) >= small_deposit_threshold
             /\ \A t, u \in S : t.timestamp < u.timestamp + w * DAY
        /\ \A v \in w .. MaxArg : structuring_check(a, v).flagged
    BY <1>2, FlagHasWitness
  <2>2. \A v \in w .. MaxArg : structuring_check(a, v)'.flagged
    BY <1>1, <2>1, CheckKept
  <2> QED
    BY <1>1, <1>3, <2>1, <2>2 DEF FlagIsWitnessed
<1>5. RecordInv' /\ HopIsDistance' /\ TruncationIsTold'
  BY <1>3 DEF RecordInv, HopIsDistance, TruncationIsTold
<1> QED
  BY <1>1, <1>4, <1>5 DEF AnswerInv

\* The job runs only while the server is down, and then no answer is on its way.
LEMMA JobAnswer ==
  ASSUME Inv, AnswerInv, JobStep, UNCHANGED <<investigated, reply>>
  PROVE  AnswerInv'
<1>1. ~ up /\ up' = up
  BY DEF JobStep, DrawSample, WriteTransactions, WriteAccounts, StopJob, Inv, ServerInv, Writing
<1>2. reply = NoReply
  BY <1>1 DEF AnswerInv
<1>3. reply' = NoReply /\ reply'.tool = "none"
  BY <1>2 DEF NoReply
<1> QED
  BY <1>3, OtherAnswer DEF AnswerInv

LEMMA NextAnswer ==
  ASSUME Inv, AnswerInv, [Next]_vars
  PROVE  AnswerInv'
<1>1. ASSUME NEW a \in Ids, NEW d \in Days, NEW e \in Days, QueryTransactions(a, d, e)
      PROVE  AnswerInv'
  <2>1. reply'.tool = "query_transactions" /\ up' = up /\ up
    BY <1>1 DEF QueryTransactions, Answer, Idle
  <2> QED
    BY <2>1, OtherAnswer DEF AnswerInv
<1>2. ASSUME NEW a \in Ids, GetAccount(a)
      PROVE  AnswerInv'
  BY <1>2, GetAccountAnswer
<1>3. ASSUME NEW a \in Ids, NEW h \in 0 .. MaxArg, NEW m \in Amounts, Neighbors(a, h, m)
      PROVE  AnswerInv'
  BY <1>3, NeighborsAnswer
<1>4. ASSUME NEW a \in Ids, NEW w \in 0 .. MaxArg, StructuringCheck(a, w)
      PROVE  AnswerInv'
  BY <1>4, StructuringAnswer
<1>5. ASSUME NEW S \in SUBSET Ids, NEW k \in 0 .. MaxArg, Subgraph(S, k)
      PROVE  AnswerInv'
  BY <1>5, SubgraphAnswer
<1>6. ASSUME NEW a \in Marked, NEW s \in Strings, MarkInvestigated(a, s)
      PROVE  AnswerInv'
  <2>1. reply'.tool \in {"error", "mark_investigated"} /\ up' = up /\ up
    BY <1>6 DEF MarkInvestigated, mark_investigated, Idle
  <2> QED
    BY <2>1, OtherAnswer DEF AnswerInv
<1>7. CASE Return \/ Stop
  <2>1. reply' = NoReply /\ reply'.tool = "none"
    BY <1>7 DEF Return, Stop, NoReply
  <2> QED
    BY <2>1, OtherAnswer DEF AnswerInv
<1>8. CASE Start
  <2>1. reply' = NoReply /\ reply'.tool = "none"
    BY <1>8 DEF Start, NoReply, AnswerInv
  <2> QED
    BY <2>1, OtherAnswer DEF AnswerInv
<1>9. CASE JobStep /\ UNCHANGED <<investigated, reply>>
  BY <1>9, JobAnswer
<1>10. CASE UNCHANGED vars
  <2>1. UNCHANGED <<transactions, reply, up>>
    BY <1>10 DEF vars, sampleVars, files
  <2> QED
    BY <2>1, AnswersKept DEF AnswerInv
<1> QED
  BY <1>1, <1>2, <1>3, <1>4, <1>5, <1>6, <1>7, <1>8, <1>9, <1>10 DEF Next

LEMMA AnswersHold == Spec => []AnswerInv
<1>1. Init => AnswerInv
  BY DEF Init, NoReply, AnswerInv, RecordInv, HopIsDistance, TruncationIsTold, FlagIsWitnessed
<1>2. Inv /\ AnswerInv /\ [Next]_vars => AnswerInv'
  BY NextAnswer
<1> QED
  BY <1>1, <1>2, InvHolds, PTL DEF Spec

-----------------------------------------------------------------------------
\* The neighbors tool lists exactly the accounts within the clamped number of hops, once each
\* and at their distance, in any graph (HopIsDistance).
THEOREM HopsAreDistances == Spec => []HopIsDistance
<1>1. AnswerInv => HopIsDistance
  BY DEF AnswerInv
<1> QED
  BY <1>1, AnswersHold, PTL

\* get_account, query_transactions asked day by day and neighbors at one hop agree about any
\* account (ToolsAgree).
THEOREM ToolsAlwaysAgree == Spec => []ToolsAgree
<1>1. Inv /\ AnswerInv => ToolsAgree
  BY RecordsAgree DEF AnswerInv
<1> QED
  BY <1>1, InvHolds, AnswersHold, PTL

\* The subgraph tool says that its answer is truncated exactly when it is, gives each edge the
\* sum of its transactions, and cuts no edge with a larger sum than one it keeps
\* (TruncationIsTold).
THEOREM TruncationIsAlwaysTold == Spec => []TruncationIsTold
<1>1. AnswerInv => TruncationIsTold
  BY DEF AnswerInv
<1> QED
  BY <1>1, AnswersHold, PTL

\* A structuring flag has its witness and survives a wider window, whatever the deposits
\* (FlagIsWitnessed).
THEOREM FlagsAreWitnessed == Spec => []FlagIsWitnessed
<1>1. AnswerInv => FlagIsWitnessed
  BY DEF AnswerInv
<1> QED
  BY <1>1, AnswersHold, PTL
=============================================================================
