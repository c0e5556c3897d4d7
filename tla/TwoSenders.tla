----------------------------- MODULE TwoSenders -----------------------------
(***************************************************************************)
(* Two processes that send the same run: `send --resume runs/<run-id>`     *)
(* from two terminals, or the second one while the first is believed dead. *)
(* Nothing locks the run directory.  They share ledger.jsonl and the       *)
(* cluster, and each has the variables of its own session; both read the   *)
(* ledger once, when they start, and what one of them appends may come to  *)
(* lie between two writes of the other.                                    *)
(***************************************************************************)
EXTENDS Ledger

CONSTANTS Window, Faults, MaxAttempts, RebroadcastEvery

VARIABLES
  ledger, recipientLog, tail, tx, blockhash,
  pcA, currentA, progressA, signatureA, attemptA, recipientA, outcomeA, writingA,
  pcB, currentB, progressB, signatureB, attemptB, recipientB, outcomeB, writingB

varsA == <<pcA, currentA, progressA, signatureA, attemptA, recipientA, outcomeA, writingA>>
varsB == <<pcB, currentB, progressB, signatureB, attemptB, recipientB, outcomeB, writingB>>
vars == <<ledger, recipientLog, tail, tx, blockhash, varsA, varsB>>

\* SharedRun, with what is proved of it.
A == INSTANCE SendPlanProofs WITH
  pc <- pcA, current <- currentA, progress <- progressA,
  signature <- signatureA, attempt <- attemptA, recipient <- recipientA,
  outcome <- outcomeA, writing <- writingA

B == INSTANCE SendPlanProofs WITH
  pc <- pcB, current <- currentB, progress <- progressB,
  signature <- signatureB, attempt <- attemptB, recipient <- recipientB,
  outcome <- outcomeB, writing <- writingB

ASSUME TwoSendersAssumption == A!ChainAssumption /\ A!PollAssumption

Init == A!SharedInit /\ B!SharedInit

StepA == A!Session /\ UNCHANGED varsB
StepB == B!Session /\ UNCHANGED varsA
ClusterStep == A!ClusterStep /\ UNCHANGED <<writingA, varsB>>

Next == StepA \/ StepB \/ ClusterStep

Spec == Init /\ [][Next]_vars

-----------------------------------------------------------------------------

\* Each process is a session of a SharedRun, in which the other one and the
\* cluster do what others do: it writes an entry piece by piece, also inside
\* an entry of the other one, and what it writes is so, however old what it has
\* read of the ledger is (append_ledger_entry, execution.rs:391, called for one
\* signature or one batch by two processes).
ImplementsShared == A!SharedSpec /\ B!SharedSpec
=============================================================================
