------------------------------ MODULE SendPlan ------------------------------
(***************************************************************************)
(* send_plan of execution.rs: one session that sends the batches of a plan *)
(* against the run's ledger.jsonl and the cluster, is killed or gives up   *)
(* at any point, and is started again (`send --resume`).                   *)
(*                                                                         *)
(* A step is one request to the RPC node or one append to the ledger, with *)
(* the code between it and the next one.  The variables of a session are   *)
(* lost when it ends; the ledger and the cluster stay.                     *)
(*                                                                         *)
(* A definition whose name ends in _Not... or _But... is a wrong version   *)
(* of the one below it: a slip the properties must tell from the code.     *)
(***************************************************************************)
EXTENDS LedgerStore, Chain, FiniteSets

CONSTANTS
  MaxAttempts,      \* CONFIRMATION_MAX_ATTEMPTS
  RebroadcastEvery  \* CONFIRMATION_REBROADCAST_EVERY_ATTEMPTS

ASSUME PollAssumption ==
  /\ MaxAttempts \in Nat \ {0}
  /\ RebroadcastEvery \in Nat \ {0}

VARIABLES
  pc,            \* where the session is
  current,       \* the batch of the loop of send_plan
  progress,      \* the session's LedgerProgress, read once at its start
  signature,     \* the signature of the batch at hand
  attempt,       \* the loop variable of wait_for_confirmation
  recipient,     \* the loop variable of append_recipient_*_entries
  outcome        \* how the last session ended

sessionVars == <<pc, current, progress, signature, attempt, recipient, outcome>>
vars == <<fileVars, sessionVars, chainVars>>

PCs == {"idle", "batch", "prepare", "send", "mismatch", "submit", "poll",
        "rebroadcast", "confirmed", "recipients_confirmed", "failed",
        "recipients_failed"}

Outcomes == {"none", "running", "ok", "failed", "pending", "mismatch",
             "timeout", "rpc", "unreadable", "stopped"}

TypeOK ==
  /\ ChainTypeOK
  /\ FileTypeOK
  /\ pc \in PCs
  /\ current \in 0 .. NumBatches + 1
  /\ progress \in LedgerProgress
  /\ signature \in OptSignature
  /\ attempt \in 0 .. MaxAttempts
  /\ recipient \in 0 .. BatchSize
  /\ outcome \in Outcomes

SessionInit ==
  /\ pc = "idle"
  /\ current = 0
  /\ progress = EmptyProgress
  /\ signature = NoSignature
  /\ attempt = 0
  /\ recipient = 0
  /\ outcome = "none"

Init == ChainInit /\ FileInit /\ SessionInit

-----------------------------------------------------------------------------

\* send_plan returns (or its process dies).
End(result) ==
  /\ pc' = "idle"
  /\ current' = 0
  /\ progress' = EmptyProgress
  /\ signature' = NoSignature
  /\ attempt' = 0
  /\ recipient' = 0
  /\ outcome' = result

\* append_ledger_entry(entry)?, after which the session goes on as next says.
\* In a torn append the runner dies, or a write fails and `?` returns.
AppendThen(entry, next) ==
  /\ \/ AppendEntry(entry) /\ next
     \/ "torn" \in Faults /\ TornEntry(entry) /\ End("stopped")
  /\ UNCHANGED chainVars

GoTo(label) == pc' = label

-----------------------------------------------------------------------------
(* The loop of send_plan.                                                  *)

Start ==
  /\ pc = "idle"
  /\ Readable
  /\ pc' = "batch"
  /\ current' = 1
  /\ progress' = ledger
  /\ outcome' = "running"
  /\ UNCHANGED <<signature, attempt, recipient, fileVars, chainVars>>

StartUnreadable ==
  /\ pc = "idle"
  /\ ~Readable
  /\ outcome' = "unreadable"
  /\ UNCHANGED <<pc, current, progress, signature, attempt, recipient,
                 fileVars, chainVars>>

Finish ==
  /\ pc = "batch"
  /\ current > NumBatches
  /\ End("ok")
  /\ UNCHANGED <<fileVars, chainVars>>

SkipConfirmed ==
  /\ pc = "batch"
  /\ current =< NumBatches
  /\ is_confirmed(progress, current)
  /\ current' = current + 1
  /\ UNCHANGED <<pc, progress, signature, attempt, recipient, outcome,
                 fileVars, chainVars>>

TerminalSuccess_ButProcessed(status) ==
  /\ ~status.err
  /\ status.level \in {"processed", "confirmed", "finalized", "null"}

\* signature_status_is_terminal_success
TerminalSuccess(status) ==
  /\ ~status.err
  /\ status.level \in {"confirmed", "finalized", "null"}

\* A status of any level with an error is a verdict too.
Verdict(status) == status.err \/ TerminalSuccess(status)

Settle_NotFailing(status) ==
  /\ pc' = "confirmed"
  /\ UNCHANGED <<current, progress, recipient, outcome>>

\* What follows a status that settles the signature.
Settle(status) ==
  /\ pc' = IF status.err THEN "failed" ELSE "confirmed"
  /\ UNCHANGED <<current, progress, recipient, outcome>>

RpcError == "rpc" \in Faults /\ End("rpc")

Unsettled_ButGoOn ==
  /\ current' = current + 1
  /\ UNCHANGED <<pc, progress, signature, attempt, recipient, outcome>>

\* No status, or one that may still change: do not send, do not go on.
Unsettled == End("pending")

\* The reconciliation of a batch that a former session left in flight.
Reconcile ==
  /\ pc = "batch"
  /\ current =< NumBatches
  /\ ~is_confirmed(progress, current)
  /\ in_flight_signature(progress, current) # NoSignature
  /\ \/ \E status \in StatusAnswers(in_flight_signature(progress, current)) :
          IF Verdict(status)
            THEN /\ Settle(status)
                 /\ signature' = in_flight_signature(progress, current)
                 /\ UNCHANGED attempt
            ELSE Unsettled
     \/ RpcError
  /\ UNCHANGED <<fileVars, chainVars>>

\* get_latest_blockhash and build_signed_batch_transaction.
Sign ==
  /\ pc = "batch"
  /\ current =< NumBatches
  /\ ~is_confirmed(progress, current)
  /\ in_flight_signature(progress, current) = NoSignature
  /\ \/ /\ \E recent_blockhash \in RecentBlockhashes :
             signature' = SignBatch(current, recent_blockhash)
        /\ GoTo("prepare")
        /\ UNCHANGED <<current, progress, attempt, recipient, outcome>>
     \/ RpcError
  /\ UNCHANGED <<fileVars, chainVars>>

Prepare_NotWritten ==
  /\ pc = "prepare"
  /\ GoTo("send")
  /\ progress' = record_batch_prepared(progress, current, signature)
  /\ UNCHANGED <<current, signature, attempt, recipient, outcome, fileVars, chainVars>>

\* From here on a definition in the past tense is what a session does after
\* an append.
Prepared ==
  /\ GoTo("send")
  /\ progress' = record_batch_prepared(progress, current, signature)
  /\ UNCHANGED <<current, signature, attempt, recipient, outcome>>

Prepare ==
  /\ pc = "prepare"
  /\ AppendThen(BatchEntry("BatchPrepared", signature), Prepared)

\* The answers of sendTransaction other than an error.
SendAnswers(same, different) ==
  \/ Accept(signature) /\ GoTo(same)
  \/ "mismatch" \in Faults /\ Accept(signature) /\ GoTo(different)
  \/ "mismatch" \in Faults /\ UNCHANGED tx /\ GoTo(different)

SendError ==
  \/ "lost" \in Faults /\ Accept(signature)
  \/ Rejects(signature) /\ UNCHANGED tx

Send ==
  /\ pc = "send"
  /\ \/ /\ SendAnswers("submit", "mismatch")
        /\ UNCHANGED <<current, progress, signature, attempt, recipient, outcome>>
     \/ SendError /\ End("rpc")
  /\ UNCHANGED <<blockhash, fileVars>>

Mismatch_ButFailed ==
  /\ pc = "mismatch"
  /\ AppendThen(BatchEntry("BatchFailed", signature), End("mismatch"))

Mismatch ==
  /\ pc = "mismatch"
  /\ AppendThen(BatchEntry("BatchSignatureMismatch", signature), End("mismatch"))

Submitted ==
  /\ GoTo("poll")
  /\ attempt' = 1
  /\ progress' = record_batch_submitted(progress, current, signature)
  /\ UNCHANGED <<current, signature, recipient, outcome>>

Submit ==
  /\ pc = "submit"
  /\ AppendThen(BatchEntry("BatchSubmitted", signature), Submitted)

-----------------------------------------------------------------------------
(* wait_for_confirmation.                                                  *)

RebroadcastDue == attempt % RebroadcastEvery = 0 /\ attempt < MaxAttempts

NextAttempt_ButOneMore ==
  IF attempt =< MaxAttempts
    THEN /\ GoTo("poll")
         /\ attempt' = attempt + 1
         /\ UNCHANGED <<current, progress, signature, recipient, outcome>>
    ELSE End("timeout")

NextAttempt_ButForever ==
  /\ GoTo("poll")
  /\ attempt' = (attempt % MaxAttempts) + 1
  /\ UNCHANGED <<current, progress, signature, recipient, outcome>>

\* The end of a round: the next attempt, or the timeout after the last.
NextAttempt ==
  IF attempt < MaxAttempts
    THEN /\ GoTo("poll")
         /\ attempt' = attempt + 1
         /\ UNCHANGED <<current, progress, signature, recipient, outcome>>
    ELSE End("timeout")

Poll ==
  /\ pc = "poll"
  /\ \/ \E status \in StatusAnswers(signature) :
          IF Verdict(status)
            THEN Settle(status) /\ attempt' = 0 /\ UNCHANGED signature
            ELSE IF RebroadcastDue
              THEN /\ GoTo("rebroadcast")
                   /\ UNCHANGED <<current, progress, signature, attempt,
                                  recipient, outcome>>
              ELSE NextAttempt
     \/ RpcError
  /\ UNCHANGED <<fileVars, chainVars>>

\* rebroadcast_transaction: an error is ignored, another signature is not,
\* and no entry is written for it here.
Rebroadcast ==
  /\ pc = "rebroadcast"
  /\ \/ (Accept(signature) \/ SendError) /\ NextAttempt
     \/ "mismatch" \in Faults /\ (Accept(signature) \/ UNCHANGED tx)
        /\ End("mismatch")
  /\ UNCHANGED <<blockhash, fileVars>>

-----------------------------------------------------------------------------
(* append_batch_confirmed_entries and append_batch_failure_entries.        *)

MoreRecipients_ButOneLess == recipient + 1 < BatchSize

MoreRecipients == recipient < BatchSize

\* The batch's own entry; those of its recipients are next.
LoggedBatch(label) ==
  /\ GoTo(label)
  /\ recipient' = 1
  /\ UNCHANGED <<current, progress, signature, attempt, outcome>>

LogConfirmed ==
  /\ pc = "confirmed"
  /\ AppendThen(BatchEntry("BatchConfirmed", signature), LoggedBatch("recipients_confirmed"))

NextRecipient ==
  /\ recipient' = recipient + 1
  /\ UNCHANGED <<pc, current, progress, signature, attempt, outcome>>

LoggedRecipientConfirmed ==
  IF MoreRecipients
    THEN NextRecipient
    ELSE /\ GoTo("batch")
         /\ current' = current + 1
         /\ progress' = record_batch_confirmed(progress, current, signature)
         /\ signature' = NoSignature
         /\ recipient' = 0
         /\ UNCHANGED <<attempt, outcome>>

LogRecipientConfirmed ==
  /\ pc = "recipients_confirmed"
  /\ AppendThen(RecipientEntry("RecipientConfirmed", signature, recipient),
                LoggedRecipientConfirmed)

LogFailed ==
  /\ pc = "failed"
  /\ AppendThen(BatchEntry("BatchFailed", signature), LoggedBatch("recipients_failed"))

LoggedRecipientFailed == IF MoreRecipients THEN NextRecipient ELSE End("failed")

LogRecipientFailed ==
  /\ pc = "recipients_failed"
  /\ AppendThen(RecipientEntry("RecipientFailed", signature, recipient),
                LoggedRecipientFailed)

\* The process is killed, or an append fails before it wrote anything.
Crash ==
  /\ "crash" \in Faults
  /\ pc # "idle"
  /\ End("stopped")
  /\ UNCHANGED <<fileVars, chainVars>>

-----------------------------------------------------------------------------

SessionStep ==
  \/ Finish \/ SkipConfirmed \/ Reconcile \/ Sign
  \/ Prepare \/ Send \/ Mismatch \/ Submit
  \/ Poll \/ Rebroadcast
  \/ LogConfirmed \/ LogRecipientConfirmed
  \/ LogFailed \/ LogRecipientFailed

ClusterStep == ChainNext /\ UNCHANGED <<fileVars, sessionVars>>

Next == Start \/ StartUnreadable \/ SessionStep \/ Crash \/ ClusterStep

\* Every request ends (the HTTP client has timeouts) and so does every
\* append: a session that runs makes its next step.
SessionFairness == WF_vars(SessionStep)

Spec == Init /\ [][Next]_vars /\ SessionFairness

-----------------------------------------------------------------------------
(* Safety.                                                                 *)

\* The transfers of a batch happen at most once: of the transactions that
\* were ever signed for it, over all sessions, at most one succeeds.
NoDoublePay ==
  \A s, t \in Signatures :
    BatchOf(s) = BatchOf(t) /\ tx[s] = "ok" /\ tx[t] = "ok" => s = t

\* The ledger is ahead of the cluster: a transaction that the cluster has
\* heard of is the one a resumed session finds in flight, unless it failed.
WriteAhead ==
  \A s \in Signatures :
    tx[s] # "unseen" => \/ in_flight_signature(ledger, BatchOf(s)) = s
                       \/ Failed(s)

\* BatchConfirmed is never written for transfers that did not happen, or
\* that are not confirmed yet.
ConfirmedIsPaid ==
  \A b \in Batches :
    is_confirmed(ledger, b) => /\ BatchOf(ledger[b].confirmed) = b
                               /\ tx[ledger[b].confirmed] = "ok"

\* No transaction of a batch reaches the cluster before the ledger has every
\* batch in front of it as confirmed.
InOrder ==
  \A s \in Signatures, b \in Batches :
    tx[s] # "unseen" /\ b < BatchOf(s) => is_confirmed(ledger, b)

\* send_plan returns Ok only if every batch was paid.
OkMeansPaid ==
  outcome = "ok" =>
    \A b \in Batches : \E s \in Signatures : BatchOf(s) = b /\ tx[s] = "ok"

\* An audit of the recipient entries finds only what happened: confirmed to
\* a recipient means paid, failed means that this transaction did not pay.
RecipientLogTrue ==
  \A e \in recipientLog :
    IF e.event = "RecipientConfirmed" THEN tx[e.signature] = "ok"
                                      ELSE Failed(e.signature)

\* A run that ended well has a RecipientConfirmed entry for everybody.
OkMeansLogged ==
  outcome = "ok" =>
    \A b \in Batches, r \in Recipients :
      \E e \in recipientLog : /\ e.event = "RecipientConfirmed"
                             /\ e.batch = b
                             /\ e.recipient = r

\* The ledger can be read, so the run can be resumed.
LedgerReadable == Readable

\* What a step does to the ledger: a confirmed batch is never touched again,
\* and a signature in flight is given up only for one that failed.
LedgerKeepsStep ==
  \A b \in Batches :
    /\ is_confirmed(ledger, b) => ledger'[b] = ledger[b]
    /\ in_flight_signature(ledger, b) \notin
         {NoSignature, in_flight_signature(ledger', b)}
         => Failed(in_flight_signature(ledger, b))

LedgerKeeps == [][LedgerKeepsStep]_vars

-----------------------------------------------------------------------------
(***************************************************************************)
(* Why it is so: the inductive invariant of SendPlanProofs.  The ledger    *)
(* never loses sight of a transaction that may still succeed, and what the *)
(* session holds in memory is what the ledger says.                        *)
(***************************************************************************)

\* Where the session works on `signature`, and the ledger has it in flight.
AtSignature == {"send", "mismatch", "submit", "poll", "rebroadcast",
                "confirmed", "recipients_confirmed", "failed"}

\* The session's variables fit the place where it is.
SessionInv ==
  /\ pc # "idle" => current # 0
  /\ pc \notin {"idle", "batch"} => current \in Batches /\ signature \in Signatures
  /\ pc \in {"recipients_confirmed", "recipients_failed"} => recipient \in Recipients

\* The session's own LedgerProgress is what a reader of the file would get,
\* but for the verdict on the batch it is about to leave.
ProgressInv ==
  pc # "idle" =>
    \A b \in Batches :
      \/ progress[b] = ledger[b]
      \/ b = current /\ pc = "recipients_failed"
      \/ /\ b = current /\ pc = "recipients_confirmed"
         /\ ledger[b] = [progress[b] EXCEPT !.confirmed = signature]

\* The loop has passed confirmed batches only.
LoopInv ==
  /\ pc \notin {"idle", "batch"} => BatchOf(signature) = current
  /\ pc # "idle" => \A b \in Batches : b < current => is_confirmed(ledger, b)
  /\ pc \notin {"idle", "batch"} =>
       (is_confirmed(ledger, current) <=> pc = "recipients_confirmed")

SignatureInv ==
  /\ pc \in AtSignature => in_flight_signature(ledger, current) = signature
  /\ pc = "prepare" => in_flight_signature(ledger, current) = NoSignature
  /\ pc \in {"confirmed", "recipients_confirmed"} => tx[signature] = "ok"
  /\ pc \in {"failed", "recipients_failed"} => Failed(signature)

\* A batch is in flight under its own signature, and behind confirmed ones.
LedgerInv ==
  \A b \in Batches :
    /\ ledger[b].submitted_signature \in {NoSignature, ledger[b].expected_signature}
    /\ in_flight_signature(ledger, b) # NoSignature =>
         /\ BatchOf(in_flight_signature(ledger, b)) = b
         /\ \A c \in Batches : c < b => is_confirmed(ledger, c)
    /\ is_confirmed(ledger, b) => ledger[b].confirmed = in_flight_signature(ledger, b)

RunInv == ProgressInv /\ LoopInv /\ SignatureInv
StoreInv == LedgerInv /\ WriteAhead /\ ConfirmedIsPaid /\ InOrder

Inv == TypeOK /\ SessionInv /\ RunInv /\ StoreInv

-----------------------------------------------------------------------------
(* The promise to the operator.                                            *)

\* The transactions that paid a batch, and the batches the ledger has.
PaidBy(b) == {s \in Signatures : BatchOf(s) = b /\ tx[s] = "ok"}
Paid      == [b \in Batches |-> Cardinality(PaidBy(b))]
Recorded  == {b \in Batches : is_confirmed(ledger, b)}

Distribution == INSTANCE Distribution WITH paid <- Paid, recorded <- Recorded

\* send_plan, its ledger and the cluster implement Distribution.
ImplementsDistribution == Distribution!Spec

-----------------------------------------------------------------------------
(* Liveness.                                                               *)

\* Whatever the node answers, a session ends: polling is bounded and a
\* rebroadcast does not start it over.
SessionsEnd == pc # "idle" ~> pc = "idle"

\* The operator resumes until the run is complete.  A healthy cluster
\* processes and confirms what it accepted.  A node that is asked about a
\* processed transaction, or for a blockhash, again and again, does not lag
\* or fail every time.
OperatorFairness == WF_vars(Start)
ClusterFairness ==
  /\ SF_vars(Reconcile /\ signature' # NoSignature)
  /\ SF_vars(Sign /\ signature' # NoSignature)
  /\ \A s \in Signatures :
       /\ WF_vars(Process(s) /\ UNCHANGED <<fileVars, sessionVars>>)
       /\ WF_vars(Confirm(s) /\ UNCHANGED <<fileVars, sessionVars>>)

ResumingSpec == Spec /\ OperatorFairness /\ ClusterFairness

\* Resuming again and again completes the distribution.
EventuallyComplete == <>(outcome = "ok")

=============================================================================
