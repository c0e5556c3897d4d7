---------------------------- MODULE Transactions ----------------------------
(***************************************************************************)
(* The names the sending side of the runner uses: the batches of a         *)
(* distribution plan, the recipients of a batch, and transaction           *)
(* signatures.                                                             *)
(*                                                                         *)
(* Ed25519 signing is deterministic, so the signature of a batch           *)
(* transaction is a function of the batch (its instructions and its payer) *)
(* and of the blockhash it was signed with.  A signature is therefore the  *)
(* pair of the two: signing the same batch over the same blockhash again   *)
(* yields the same signature, and over another blockhash another one.      *)
(***************************************************************************)
EXTENDS Naturals

CONSTANTS
  NumBatches,    \* batches in plan.json
  BatchSize,     \* recipients in each batch
  MaxBlockhash   \* BOUND: how many times the latest blockhash may change

\* create_distribution_plan refuses a plan without recipients, and a batch
\* is opened for a recipient, so neither number is zero.
ASSUME PlanAssumption ==
  /\ NumBatches \in Nat \ {0}
  /\ BatchSize \in Nat \ {0}
  /\ MaxBlockhash \in Nat

Batches     == 1 .. NumBatches
Recipients  == 1 .. BatchSize
Blockhashes == 0 .. MaxBlockhash

Signatures == Batches \X Blockhashes

SignBatch(batch, recentBlockhash) == <<batch, recentBlockhash>>
BatchOf(signature)     == signature[1]
BlockhashOf(signature) == signature[2]

\* Option::None where a signature is expected: no batch has index 0.
NoSignature == <<0, 0>>

=============================================================================
