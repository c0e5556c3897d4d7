---------------------------- MODULE FundedSender ----------------------------
(***************************************************************************)
(* send_plan behind the funding check of `send` (cli.rs): before every     *)
(* session the balance of the source wallet is held against what the       *)
(* batches cost that the ledger does not have as confirmed.  The operator  *)
(* reads the figures and confirms in between, while the cluster goes on.   *)
(***************************************************************************)
EXTENDS SendPlan, FiniteSetsExt

CONSTANTS
  Fee,                  \* of a signature, charged for a failed transaction too
  RentPerAta,           \* rent_per_ata_lamports
  AtaCreations,         \* ata_creations of every batch
  MinFunds, MaxFunds    \* what the source wallet may hold at first

ASSUME FundsAssumption ==
  /\ {Fee, RentPerAta, MinFunds, MaxFunds} \subseteq Nat
  /\ AtaCreations \in [Batches -> 0 .. BatchSize]

VARIABLES
  funds,    \* what the source wallet held at first
  funded,   \* the check has passed and send_plan has not started yet
  missed    \* history: the failed transactions its balance did not show

fundingVars == <<funds, funded, missed>>
fundedVars == <<vars, fundingVars>>

\* The deposits are made by the batch that creates the accounts.
Cost(batch) == Fee + RentPerAta * AtaCreations[batch]

Charge(s) == IF Failed(s) THEN Fee ELSE Cost(BatchOf(s))

\* What the transactions in these states have cost.
SpentBy(states) == MapThenSumSet(Charge, {s \in Signatures : tx[s] \in states})

Spent == SpentBy({"processed_ok", "processed_err", "ok", "err"})

\* getBalance, at the commitment `confirmed`.
Balance == funds - SpentBy({"ok", "err"})

\* A wrong check, which asks for the whole plan again.
required_pending_sol_lamports_All == MapThenSumSet(Cost, Batches)

\* A wrong check, without the deposits.
required_pending_sol_lamports_NotRent ==
  Fee * Cardinality({b \in Batches : ~is_confirmed(ledger, b)})

required_pending_sol_lamports ==
  MapThenSumSet(Cost, {b \in Batches : ~is_confirmed(ledger, b)})

\* check_source_sol_funding finds enough; otherwise the process ends there.
CheckFunding ==
  /\ pc = "idle"
  /\ ~funded
  /\ Readable
  /\ Balance >= required_pending_sol_lamports
  /\ funded' = TRUE
  /\ missed' = {s \in Signatures : tx[s] = "processed_err"}
  /\ UNCHANGED <<vars, funds>>

\* The phrase is not confirmed, or the process is killed at the prompt.
Abandon ==
  /\ funded
  /\ funded' = FALSE
  /\ UNCHANGED <<vars, funds, missed>>

StartFunded ==
  /\ funded
  /\ Start \/ StartUnreadable
  /\ funded' = FALSE
  /\ UNCHANGED <<funds, missed>>

FundedInit ==
  /\ Init
  /\ funds \in MinFunds .. MaxFunds
  /\ funded = FALSE
  /\ missed = {}

FundedNext ==
  \/ CheckFunding \/ Abandon \/ StartFunded
  \/ (SessionStep \/ Crash \/ ClusterStep) /\ UNCHANGED fundingVars

FundedSpec == FundedInit /\ [][FundedNext]_fundedVars /\ SessionFairness

\* The operator checks, confirms and starts until the run is complete.
FundedResumingSpec ==
  /\ FundedSpec /\ ClusterFairness
  /\ WF_fundedVars(CheckFunding) /\ SF_fundedVars(StartFunded)

-----------------------------------------------------------------------------

\* The check is enough: however the transactions of earlier sessions land
\* while the operator reads, confirms and sends, and whatever the failed ones
\* cost, the run spends no more than the wallet held, but for the fees of
\* failures that the balance did not show yet.
CheckIsEnough == Spent =< funds + Fee * Cardinality(missed)

-----------------------------------------------------------------------------
(***************************************************************************)
(* Why it is so: the inductive invariant of FundedSenderProofs.  A session *)
(* that may still send has enough left for every batch that has not        *)
(* succeeded.  One that met a failed transaction sends nothing any more,   *)
(* and neither does anybody between two sessions: there must be enough for *)
(* what is on its way.                                                     *)
(***************************************************************************)

BatchesWith(states) ==
  {b \in Batches : \E s \in Signatures : BatchOf(s) = b /\ tx[s] \in states}

\* The batches that may still be charged without another sendTransaction, and
\* those that never will be again.
OnTheirWay == BatchesWith({"pending"})
Succeeded  == BatchesWith({"processed_ok", "ok"})

\* The session, or the next one, ends before it sends anything.
Stopping ==
  \/ pc \in {"failed", "recipients_failed"}
  \/ \E s \in Signatures : in_flight_signature(ledger, BatchOf(s)) = s /\ Failed(s)

Budget == funds + Fee * Cardinality(missed)

BudgetInv ==
  /\ Spent + MapThenSumSet(Cost, OnTheirWay) =< Budget
  /\ (funded \/ pc # "idle") /\ ~Stopping =>
       Spent + MapThenSumSet(Cost, Batches \ Succeeded) =< Budget

FundingTypeOK ==
  /\ funds \in Nat
  /\ funded \in BOOLEAN
  /\ missed \subseteq Signatures
  /\ funded => pc = "idle"

\* What the whole plan costs, and its dearest batch.
Estimate == MapThenSumSet(Cost, Batches)
Dearest  == Max({Cost(b) : b \in Batches})

\* The check comes before send_plan would record what an interrupted session
\* left behind (execution.rs:416), and asks for a batch that landed once more:
\* a wallet that held the estimate and no more may be refused for good.  One
\* that can pay the dearest batch twice never is: its run is resumed to its
\* end, whatever answers were lost, if no transaction fails.
FundedRunCompletes == funds >= Estimate + Dearest ~> outcome = "ok"
=============================================================================
