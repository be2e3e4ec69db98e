------------------------------ MODULE AmlSample ------------------------------
(***************************************************************************)
(* The job that cuts the raw AML data down to a sample of its accounts     *)
(* (analytics/subsample_aml.py) and writes the two directories that the    *)
(* transaction-graph server reads.  The job may be run again, with another *)
(* draw, and may be stopped between or during its two writes; nothing ties *)
(* the two directories together.  It is run while the server is down.      *)
(*                                                                         *)
(* A row has its two accounts and is_laundering; Spark, the files' formats *)
(* and the report of the job's figures are left out.                       *)
(***************************************************************************)
EXTENDS Naturals, FiniteSets, FiniteSetsExt

CONSTANTS
  Sources,          \* raw data there may be: rows, and laundering patterns (sets of rows)
  AccountsCsv,      \* accounts that the raw list of accounts has
  TARGET_ACCOUNTS,
  MaxCrashes        \* bound: runs of the job that are stopped

VARIABLES
  raw,           \* the raw data
  job,           \* the job: where it is, and the sample it has drawn
  present,       \* the directories that exist
  transactions,  \* the rows of the one
  accounts,      \* the accounts of the other
  crashes,       \* runs that were stopped
  up             \* whether the server runs

files      == <<present, transactions, accounts>>
sampleVars == <<raw, job, files, crashes>>

Ends(rows) == UNION {{t.from, t.to} : t \in rows}

ASSUME SampleAssumption ==
  /\ TARGET_ACCOUNTS \in Nat /\ MaxCrashes \in Nat
  /\ \A s \in Sources : \A P \in s.patterns : P \subseteq {t \in s.rows : t.is_laundering}

Laundering(rows) == {t \in rows : t.is_laundering}

\* A mutant of must_include: only the senders.
must_include_senders(rows) == {t.from : t \in Laundering(rows)}

must_include(rows) == Ends(Laundering(rows))

\* The samples there may be: every account of a laundering transaction, and a draw of others
\* as long as there is room.
select_sample_accounts(rows) ==
  LET must == must_include(rows)
      pool == Ends(rows) \ must
      room == TARGET_ACCOUNTS - Cardinality(must)
  IN  IF Cardinality(must) >= TARGET_ACCOUNTS THEN {must}
      ELSE {must \cup D : D \in kSubset(Min({room, Cardinality(pool)}), pool)}

\* Both ends are in the sample.
filter_transactions_to_sample(rows, S) == {t \in rows : t.from \in S /\ t.to \in S}

\* The patterns that the sample breaks.
verify_pattern_connectivity(S, patterns) == {P \in patterns : ~ Ends(P) \subseteq S}

\* The two checks of main, and the ratio of the figures, which fails where there are no rows.
MainRaises(S) ==
  LET filtered == filter_transactions_to_sample(raw.rows, S)
  IN  \/ filtered = {}
      \/ Cardinality(Laundering(filtered)) # Cardinality(Laundering(raw.rows))
      \/ verify_pattern_connectivity(S, raw.patterns) # {}

SampleInit ==
  /\ raw \in Sources
  /\ job = [pc |-> "idle", sample |-> {}]
  /\ present = {} /\ transactions = {} /\ accounts = {}
  /\ crashes = 0
  /\ up = FALSE

DrawSample ==
  /\ ~ up /\ job.pc \in {"idle", "raised"}
  /\ \E S \in select_sample_accounts(raw.rows) :
       job' = IF MainRaises(S) THEN [pc |-> "raised", sample |-> {}]
              ELSE [pc |-> "write_transactions", sample |-> S]
  /\ UNCHANGED <<raw, files, crashes, up>>

WriteTransactions ==
  /\ job.pc = "write_transactions"
  /\ transactions' = filter_transactions_to_sample(raw.rows, job.sample)
  /\ present' = present \cup {"transactions"}
  /\ job' = [job EXCEPT !.pc = "write_accounts"]
  /\ UNCHANGED <<raw, accounts, crashes, up>>

WriteAccounts ==
  /\ job.pc = "write_accounts"
  /\ accounts' = AccountsCsv \cap job.sample
  /\ present' = present \cup {"accounts"}
  /\ job' = [pc |-> "idle", sample |-> {}]
  /\ UNCHANGED <<raw, transactions, crashes, up>>

\* The job is stopped before a write, or during it: overwriting begins with a deletion.
StopJob ==
  /\ job.pc \in {"write_transactions", "write_accounts"} /\ crashes < MaxCrashes
  /\ crashes' = crashes + 1
  /\ job' = [pc |-> "idle", sample |-> {}]
  /\ \/ UNCHANGED files
     \/ /\ job.pc = "write_transactions"
        /\ present' = present \ {"transactions"} /\ transactions' = {} /\ UNCHANGED accounts
     \/ /\ job.pc = "write_accounts"
        /\ present' = present \ {"accounts"} /\ accounts' = {} /\ UNCHANGED transactions
  /\ UNCHANGED <<raw, up>>

JobStep == DrawSample \/ WriteTransactions \/ WriteAccounts \/ StopJob

\* aml_investigator's seed.py: the accounts an alert may start from.
pick_seed_alert(rows) == {t.from : t \in Laundering(rows)}
==============================================================================
