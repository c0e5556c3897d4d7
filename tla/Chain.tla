------------------------------- MODULE Chain --------------------------------
(***************************************************************************)
(* The Solana cluster and the RPC node in front of it, as far as           *)
(* execution.rs and rpc.rs use them: sendTransaction, getSignatureStatuses *)
(* and getLatestBlockhash.  It is external code: nothing here is in the    *)
(* repository, and what the client may see is as weak as its code allows   *)
(* for (every error path of send_plan is one of the answers below).        *)
(***************************************************************************)
EXTENDS Transactions

CONSTANTS
  Window,   \* for how many blockhashes a signed transaction stays valid
  Faults    \* what may go wrong, a subset of AllFaults

VARIABLES
  tx,         \* the fate of every signature
  blockhash   \* the newest blockhash

chainVars == <<tx, blockhash>>

(***************************************************************************)
(* crash     the runner is killed between two steps, or in an append       *)
(* torn      an append reaches the file in part only                       *)
(* rpc       a read request ends in an error                               *)
(* reject    sendTransaction ends in an error and nothing was accepted     *)
(* lost      sendTransaction ends in an error but it was accepted          *)
(* mismatch  sendTransaction answers with another signature                *)
(* drop      an accepted transaction disappears before it is processed     *)
(* txerr     a transaction is processed with an error                      *)
(* fork      the block of a transaction that is only processed is dropped  *)
(***************************************************************************)
AllFaults == {"crash", "torn", "rpc", "reject", "lost", "mismatch", "drop",
              "txerr", "fork"}

ASSUME ChainAssumption ==
  /\ Window \in Nat \ {0}
  /\ Faults \subseteq AllFaults

(***************************************************************************)
(* unseen: no node holds it.  pending: in the queue of a leader.           *)
(* processed_*: in a block of the node's current fork.  ok, err: in a      *)
(* confirmed block, with its final result.                                 *)
(***************************************************************************)
TxStates == {"unseen", "pending", "processed_ok", "processed_err", "ok", "err"}

\* A transaction that was executed and whose transfers did not happen.
Failed(signature) == tx[signature] \in {"processed_err", "err"}

ChainTypeOK ==
  /\ tx \in [Signatures -> TxStates]
  /\ blockhash \in Blockhashes

ChainInit ==
  /\ tx = [s \in Signatures |-> "unseen"]
  /\ blockhash = 0

Valid(signature) == blockhash < BlockhashOf(signature) + Window

-----------------------------------------------------------------------------
(* What the cluster does by itself.                                        *)

SetTx(signature, from, to) ==
  /\ tx[signature] = from
  /\ tx' = [tx EXCEPT ![signature] = to]
  /\ UNCHANGED blockhash

NewBlockhash ==
  /\ blockhash < MaxBlockhash
  /\ blockhash' = blockhash + 1
  /\ UNCHANGED tx

Process(s) ==
  /\ Valid(s)
  /\ \/ SetTx(s, "pending", "processed_ok")
     \/ "txerr" \in Faults /\ SetTx(s, "pending", "processed_err")

Confirm(s) ==
  \/ SetTx(s, "processed_ok", "ok")
  \/ SetTx(s, "processed_err", "err")

Drop(s) == "drop" \in Faults /\ SetTx(s, "pending", "unseen")

Rollback(s) ==
  /\ "fork" \in Faults
  /\ \/ SetTx(s, "processed_ok", "pending")
     \/ SetTx(s, "processed_err", "pending")

ChainNext ==
  \/ NewBlockhash
  \/ \E s \in Signatures : Process(s) \/ Confirm(s) \/ Drop(s) \/ Rollback(s)

-----------------------------------------------------------------------------
(* What the three requests may do and answer.                              *)

\* sendTransaction reached a node that holds the transaction from now on.
\* A copy of one the cluster already has changes nothing.
Accept(signature) ==
  IF tx[signature] = "unseen" /\ Valid(signature)
    THEN tx' = [tx EXCEPT ![signature] = "pending"]
    ELSE UNCHANGED tx

\* The node refuses it: by a fault, because preflight sees that the
\* blockhash is too old, or because the signature was executed before.
Rejects(signature) ==
  \/ "reject" \in Faults
  \/ ~Valid(signature)
  \/ tx[signature] \in TxStates \ {"unseen", "pending"}

\* getLatestBlockhash, from a node that may lag behind the cluster.
RecentBlockhashes == {h \in Blockhashes : h =< blockhash /\ blockhash < h + Window}

Levels == {"processed", "confirmed", "finalized", "null"}
Statuses == [err : BOOLEAN, level : Levels]

NotFound == [err |-> FALSE, level |-> "not_found"]

\* getSignatureStatuses, without a commitment: null from a node that has not
\* seen the transaction (yet), or its result with the level the node has
\* reached.  "null" is the confirmationStatus of old nodes, which gave a
\* status for rooted transactions only.
StatusAnswers(signature) ==
  {NotFound} \cup
  {status \in Statuses :
     /\ tx[signature] \notin {"unseen", "pending"}
     /\ status.err <=> Failed(signature)
     /\ status.level = "processed" \/ tx[signature] \in {"ok", "err"}}

=============================================================================
