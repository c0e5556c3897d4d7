--------------------------- MODULE SendPlanProofs ---------------------------
(***************************************************************************)
(* Proofs about SendPlan, for every plan, every number of blockhashes and  *)
(* of polling attempts, and every set of faults (the fork fault excluded   *)
(* where a theorem says so); and about SharedRun, a session of it among    *)
(* any number of other processes.                                          *)
(***************************************************************************)
EXTENDS SharedRun, FiniteSetTheorems, TLAPS

USE PlanAssumption, ChainAssumption, PollAssumption
DEF Unsettled, MoreRecipients, Prepared, Submitted, LoggedBatch, NextRecipient,
    LoggedRecipientConfirmed, LoggedRecipientFailed

-----------------------------------------------------------------------------
(* Types.                                                                  *)

LEMMA SignatureParts ==
  /\ NoSignature \notin Signatures
  /\ NoSignature \in OptSignature
  /\ \A s \in Signatures : BatchOf(s) \in Batches /\ BlockhashOf(s) \in Blockhashes
  /\ \A b \in Batches, h \in Blockhashes :
       SignBatch(b, h) \in Signatures /\ BatchOf(SignBatch(b, h)) = b
BY DEF NoSignature, Signatures, OptSignature, BatchOf, BlockhashOf, SignBatch,
       Batches, Blockhashes

\* Every entry has one of the events that apply knows.
LEMMA ApplyType ==
  ASSUME NEW p \in LedgerProgress, NEW e \in LedgerEntry
  PROVE  apply(p, e) \in LedgerProgress
<1> USE SignatureParts DEF LedgerProgress, BatchProgress, OptSignature
<1>1. e.batch \in Batches /\ e.signature \in Signatures
  BY DEF LedgerEntry, BatchLedgerEntry, RecipientLedgerEntry
<1>2. CASE e.event \in {"BatchPrepared", "BatchSignatureMismatch"}
  BY <1>1, <1>2, ZenonT(60) DEF apply, record_batch_prepared
<1>3. CASE e.event = "BatchSubmitted"
  BY <1>1, <1>3, ZenonT(60) DEF apply, record_batch_submitted
<1>4. CASE e.event = "BatchConfirmed"
  BY <1>1, <1>4, ZenonT(60) DEF apply, record_batch_confirmed
<1>5. CASE e.event = "BatchFailed"
  BY <1>1, <1>5, ZenonT(60) DEF apply, record_batch_failed
<1>6. CASE e.event \in RecipientEvents
  BY <1>6 DEF apply, RecipientEvents
<1> QED
  BY <1>2, <1>3, <1>4, <1>5, <1>6
  DEF LedgerEntry, BatchLedgerEntry, RecipientLedgerEntry, BatchEvents

\* The entries a session appends are entries.
LEMMA EntryType ==
  ASSUME NEW s \in Signatures
  PROVE  /\ \A event \in BatchEvents : BatchEntry(event, s) \in LedgerEntry
         /\ \A event \in RecipientEvents, r \in Recipients :
              RecipientEntry(event, s, r) \in LedgerEntry
BY SignatureParts
DEF LedgerEntry, BatchLedgerEntry, RecipientLedgerEntry, BatchEntry, RecipientEntry

\* An append, whole or torn, keeps the file's type.
LEMMA FileType ==
  ASSUME FileTypeOK, NEW e \in LedgerEntry, AppendEntry(e) \/ TornEntry(e)
  PROVE  FileTypeOK'
<1>1. apply(ledger, e) \in LedgerProgress
  BY ApplyType DEF FileTypeOK
<1>2. e.event \in RecipientEvents => e \in RecipientLedgerEntry
  BY DEF LedgerEntry, BatchLedgerEntry, RecipientEvents, BatchEvents
<1>3. Written(e) => ledger' \in LedgerProgress /\ recipientLog' \subseteq RecipientLedgerEntry
  BY <1>1, <1>2 DEF Written, FileTypeOK
<1> QED
  BY <1>3 DEF AppendEntry, TornEntry, FileTypeOK, Tails


\* The session's part of TypeOK.
SessionTypeOK ==
  /\ pc \in PCs
  /\ current \in 0 .. NumBatches + 1
  /\ progress \in LedgerProgress
  /\ signature \in OptSignature
  /\ attempt \in 0 .. MaxAttempts
  /\ recipient \in 0 .. BatchSize
  /\ outcome \in Outcomes

LEMMA TypeParts == TypeOK <=> ChainTypeOK /\ FileTypeOK /\ SessionTypeOK
BY DEF TypeOK, SessionTypeOK

LEMMA EmptyType == EmptyProgress \in LedgerProgress
BY SignatureParts DEF EmptyProgress, LedgerProgress, BatchProgress

\* However a session ends, its variables are those of no session.
LEMMA EndType ==
  ASSUME NEW result \in Outcomes, End(result)
  PROVE  SessionTypeOK' /\ SessionInv'
BY EmptyType, SignatureParts
DEF End, SessionTypeOK, SessionInv, PCs, Batches, Recipients

\* The cluster's own steps, and a sendTransaction, keep the chain's type.
LEMMA ChainType ==
  ASSUME ChainTypeOK
  PROVE  /\ ChainNext => ChainTypeOK'
         /\ \A s \in Signatures : Accept(s) /\ UNCHANGED blockhash => ChainTypeOK'
<1> USE DEF ChainTypeOK, TxStates
<1>1. ASSUME NewBlockhash PROVE ChainTypeOK'
  BY <1>1 DEF NewBlockhash, Blockhashes
<1>2. ASSUME NEW s \in Signatures, NEW from, NEW to \in TxStates, SetTx(s, from, to)
      PROVE  ChainTypeOK'
  BY <1>2 DEF SetTx
<1>3. ASSUME NEW s \in Signatures, Process(s) \/ Confirm(s) \/ Drop(s) \/ Rollback(s)
      PROVE  ChainTypeOK'
  BY <1>2, <1>3 DEF Process, Confirm, Drop, Rollback
<1>4. ASSUME NEW s \in Signatures, Accept(s), UNCHANGED blockhash PROVE ChainTypeOK'
  BY <1>4 DEF Accept
<1> QED
  BY <1>1, <1>3, <1>4 DEF ChainNext

\* An append that the session survives or not, next apart.
LEMMA AppendType ==
  ASSUME TypeOK, NEW e \in LedgerEntry, AppendEntry(e) \/ TornEntry(e),
         UNCHANGED chainVars
  PROVE  ChainTypeOK' /\ FileTypeOK'
BY TypeParts, FileType DEF chainVars, ChainTypeOK

LEMMA RecordType ==
  ASSUME NEW p \in LedgerProgress, NEW b \in Batches, NEW s \in Signatures
  PROVE  /\ record_batch_prepared(p, b, s) \in LedgerProgress
         /\ record_batch_submitted(p, b, s) \in LedgerProgress
         /\ record_batch_confirmed(p, b, s) \in LedgerProgress
         /\ in_flight_signature(p, b) \in OptSignature
BY DEF record_batch_prepared, record_batch_submitted, record_batch_confirmed,
       in_flight_signature, LedgerProgress, BatchProgress, OptSignature

\* SessionInv makes TypeOK inductive: what is appended is an entry.
LEMMA TypeStep == TypeOK /\ SessionInv /\ [Next]_vars => TypeOK' /\ SessionInv'
<1> SUFFICES ASSUME TypeOK, SessionInv, [Next]_vars
             PROVE  TypeOK' /\ SessionInv'
  OBVIOUS
<1>a. SessionTypeOK /\ ChainTypeOK /\ FileTypeOK
  BY TypeParts
<1>b. SUFFICES SessionTypeOK' /\ SessionInv' /\ ChainTypeOK' /\ FileTypeOK'
  BY TypeParts, PTL
<1>c. UNCHANGED fileVars => FileTypeOK'
  BY <1>a DEF fileVars, FileTypeOK
<1>d. UNCHANGED chainVars => ChainTypeOK'
  BY <1>a DEF chainVars, ChainTypeOK
<1>e. \A result \in Outcomes : End(result) => SessionTypeOK' /\ SessionInv'
  BY EndType
<1>f. pc \notin {"idle", "batch"} => signature \in Signatures /\ current \in Batches
  BY DEF SessionInv
<1>g. /\ UNCHANGED sessionVars => SessionTypeOK' /\ SessionInv'
      /\ \A to \in PCs : GoTo(to) => pc' \in PCs
  BY <1>a DEF sessionVars, SessionTypeOK, SessionInv, GoTo
<1>1. CASE Start
  BY <1>1, <1>a, <1>c, <1>d DEF Start, SessionTypeOK, SessionInv, PCs, Outcomes,
       FileTypeOK, Batches
<1>2. CASE StartUnreadable
  BY <1>2, <1>a, <1>c, <1>d DEF StartUnreadable, SessionTypeOK, SessionInv, Outcomes
<1>3. CASE Finish
  BY <1>3, <1>c, <1>d, <1>e DEF Finish, Outcomes
<1>4. CASE SkipConfirmed
  BY <1>4, <1>a, <1>c, <1>d DEF SkipConfirmed, SessionTypeOK, SessionInv, Batches
<1>5. CASE Reconcile
  <2>1. current \in Batches
    BY <1>5, <1>a DEF Reconcile, SessionInv, SessionTypeOK, Batches
  <2>2. in_flight_signature(progress, current) \in OptSignature
    BY <2>1, <1>a, RecordType DEF SessionTypeOK, in_flight_signature, LedgerProgress, BatchProgress
  <2>3. CASE End("rpc") \/ End("pending")
    BY <1>5, <2>3, <1>c, <1>d, <1>e DEF Reconcile, Outcomes
  <2>4. CASE ~(End("rpc") \/ End("pending"))
    <3>1. /\ pc' \in {"failed", "confirmed"}
          /\ UNCHANGED <<current, progress, attempt, recipient, outcome>>
          /\ signature' = in_flight_signature(progress, current)
      BY <1>5, <2>4 DEF Reconcile, RpcError, Settle
    <3>2. signature' \in Signatures
      BY <1>5, <2>2, <3>1 DEF Reconcile, OptSignature
    <3>3. FileTypeOK' /\ ChainTypeOK'
      BY <1>5, <1>c, <1>d DEF Reconcile
    <3>4. SessionTypeOK'
      BY <3>1, <3>2, <1>a DEF SessionTypeOK, PCs, OptSignature
    <3>5. SessionInv'
      BY <2>1, <3>1, <3>2, SignatureParts DEF SessionInv, Batches
    <3> QED
      BY <3>3, <3>4, <3>5
  <2> QED
    BY <2>3, <2>4
<1>6. CASE Sign
  <2>1. current \in Batches
    BY <1>6, <1>a DEF Sign, SessionInv, SessionTypeOK, Batches
  <2>2. RecentBlockhashes \subseteq Blockhashes
    BY DEF RecentBlockhashes
  <2>3. CASE End("rpc")
    BY <1>6, <2>3, <1>c, <1>d, <1>e DEF Sign, Outcomes
  <2>4. CASE ~End("rpc")
    BY <1>6, <2>1, <2>2, <2>4, <1>a, <1>c, <1>d, SignatureParts
    DEF Sign, RpcError, SessionTypeOK, SessionInv, GoTo, PCs, OptSignature
  <2> QED
    BY <2>3, <2>4
<1>7. CASE Prepare
  <2>1. BatchEntry("BatchPrepared", signature) \in LedgerEntry
    BY <1>7, <1>f, EntryType DEF Prepare, BatchEvents
  <2>2. ChainTypeOK' /\ FileTypeOK'
    BY <1>7, <2>1, AppendType DEF Prepare, AppendThen
  <2>3. SessionTypeOK' /\ SessionInv'
    BY <1>7, <1>a, <1>e, <1>f, RecordType
    DEF Prepare, AppendThen, Outcomes, SessionTypeOK, SessionInv, GoTo, PCs
  <2> QED
    BY <2>2, <2>3
<1>8. CASE Send
  <2>1. ChainTypeOK'
    BY <1>8, <1>a, <1>f, ChainType DEF Send, SendAnswers, SendError, ChainTypeOK
  <2>2. SessionTypeOK' /\ SessionInv'
    BY <1>8, <1>a, <1>e, <1>f
    DEF Send, SendAnswers, Outcomes, SessionTypeOK, SessionInv, GoTo, PCs
  <2> QED
    BY <1>8, <2>1, <2>2, <1>c DEF Send
<1>9. CASE Mismatch
  <2>1. BatchEntry("BatchSignatureMismatch", signature) \in LedgerEntry
    BY <1>9, <1>f, EntryType DEF Mismatch, BatchEvents
  <2> QED
    BY <1>9, <2>1, <1>e, AppendType DEF Mismatch, AppendThen, Outcomes
<1>10. CASE Submit
  <2>1. BatchEntry("BatchSubmitted", signature) \in LedgerEntry
    BY <1>10, <1>f, EntryType DEF Submit, BatchEvents
  <2>2. ChainTypeOK' /\ FileTypeOK'
    BY <1>10, <2>1, AppendType DEF Submit, AppendThen
  <2>3. SessionTypeOK' /\ SessionInv'
    BY <1>10, <1>a, <1>e, <1>f, RecordType
    DEF Submit, AppendThen, Outcomes, SessionTypeOK, SessionInv, GoTo, PCs
  <2> QED
    BY <2>2, <2>3
<1>h. pc \notin {"idle", "batch"} /\ NextAttempt => SessionTypeOK' /\ SessionInv'
  BY <1>a, <1>e, <1>f DEF NextAttempt, Outcomes, SessionTypeOK, SessionInv, GoTo, PCs
<1>11. CASE Poll
  <2>1. CASE NextAttempt \/ End("rpc")
    BY <1>11, <2>1, <1>c, <1>d, <1>e, <1>h DEF Poll, Outcomes
  <2>2. CASE ~(NextAttempt \/ End("rpc"))
    BY <1>11, <2>2, <1>a, <1>c, <1>d, <1>f
    DEF Poll, RpcError, Settle, SessionTypeOK, SessionInv, GoTo, PCs
  <2> QED
    BY <2>1, <2>2
<1>12. CASE Rebroadcast
  <2>1. ChainTypeOK'
    BY <1>12, <1>a, <1>f, ChainType DEF Rebroadcast, SendError, ChainTypeOK
  <2>2. SessionTypeOK' /\ SessionInv'
    BY <1>12, <1>e, <1>h DEF Rebroadcast, Outcomes
  <2> QED
    BY <1>12, <2>1, <2>2, <1>c DEF Rebroadcast
<1>13. CASE LogConfirmed
  <2>1. BatchEntry("BatchConfirmed", signature) \in LedgerEntry
    BY <1>13, <1>f, EntryType DEF LogConfirmed, BatchEvents
  <2>2. ChainTypeOK' /\ FileTypeOK'
    BY <1>13, <2>1, AppendType DEF LogConfirmed, AppendThen
  <2>3. SessionTypeOK' /\ SessionInv'
    BY <1>13, <1>a, <1>e, <1>f
    DEF LogConfirmed, AppendThen, Outcomes, SessionTypeOK, SessionInv, GoTo, PCs,
        Recipients
  <2> QED
    BY <2>2, <2>3
<1>14. CASE LogRecipientConfirmed
  <2>1. RecipientEntry("RecipientConfirmed", signature, recipient) \in LedgerEntry
    BY <1>14, <1>f, EntryType DEF LogRecipientConfirmed, RecipientEvents, SessionInv
  <2>2. ChainTypeOK' /\ FileTypeOK'
    BY <1>14, <2>1, AppendType DEF LogRecipientConfirmed, AppendThen
  <2>3. SessionTypeOK' /\ SessionInv'
    <3>1. CASE End("stopped")
      BY <3>1, <1>e DEF Outcomes
    <3>2. CASE ~End("stopped") /\ recipient < BatchSize
      BY <1>14, <3>2, <1>a, <1>f
      DEF LogRecipientConfirmed, AppendThen, SessionTypeOK, SessionInv, Recipients
    <3>3. CASE ~End("stopped") /\ ~(recipient < BatchSize)
      <4>1. current + 1 \in 0 .. NumBatches + 1 /\ current + 1 # 0
        BY <1>14, <1>f DEF LogRecipientConfirmed, Batches
      <4>2. record_batch_confirmed(progress, current, signature) \in LedgerProgress
        BY <1>14, <1>a, <1>f, RecordType DEF LogRecipientConfirmed, SessionTypeOK
      <4> QED
        BY <1>14, <3>3, <4>1, <4>2, <1>a, SignatureParts
        DEF LogRecipientConfirmed, AppendThen, SessionTypeOK, SessionInv, GoTo, PCs
    <3> QED
      BY <3>1, <3>2, <3>3
  <2> QED
    BY <2>2, <2>3
<1>15. CASE LogFailed
  <2>1. BatchEntry("BatchFailed", signature) \in LedgerEntry
    BY <1>15, <1>f, EntryType DEF LogFailed, BatchEvents
  <2>2. ChainTypeOK' /\ FileTypeOK'
    BY <1>15, <2>1, AppendType DEF LogFailed, AppendThen
  <2>3. SessionTypeOK' /\ SessionInv'
    BY <1>15, <1>a, <1>e, <1>f
    DEF LogFailed, AppendThen, Outcomes, SessionTypeOK, SessionInv, GoTo, PCs,
        Recipients
  <2> QED
    BY <2>2, <2>3
<1>16. CASE LogRecipientFailed
  <2>1. RecipientEntry("RecipientFailed", signature, recipient) \in LedgerEntry
    BY <1>16, <1>f, EntryType DEF LogRecipientFailed, RecipientEvents, SessionInv
  <2>2. ChainTypeOK' /\ FileTypeOK'
    BY <1>16, <2>1, AppendType DEF LogRecipientFailed, AppendThen
  <2>3. SessionTypeOK' /\ SessionInv'
    BY <1>16, <1>a, <1>e, <1>f
    DEF LogRecipientFailed, AppendThen, Outcomes, SessionTypeOK, SessionInv,
        GoTo, PCs, Recipients
  <2> QED
    BY <2>2, <2>3
<1>17. CASE Crash
  BY <1>17, <1>c, <1>d, <1>e DEF Crash, Outcomes
<1>18. CASE ClusterStep
  BY <1>18, <1>a, <1>c, <1>g, ChainType DEF ClusterStep, sessionVars
<1>19. CASE UNCHANGED vars
  BY <1>19, <1>c, <1>d, <1>g DEF vars
<1> QED
  BY <1>1, <1>2, <1>3, <1>4, <1>5, <1>6, <1>7, <1>8, <1>9, <1>10, <1>11, <1>12,
     <1>13, <1>14, <1>15, <1>16, <1>17, <1>18, <1>19 DEF Next, SessionStep

LEMMA TypeInit == Init => TypeOK /\ SessionInv
BY EmptyType, SignatureParts
DEF Init, ChainInit, FileInit, SessionInit, TypeOK, ChainTypeOK, FileTypeOK,
    SessionInv, Blockhashes, TxStates, Tails, PCs, Outcomes

\* Every session's variables, the ledger and the cluster keep their types,
\* and a session works on a signature of its current batch.
THEOREM TypeCorrect == Spec => [](TypeOK /\ SessionInv)
BY TypeInit, TypeStep, PTL DEF Spec

-----------------------------------------------------------------------------
(***************************************************************************)
(* Safety.  RunInv speaks of the running session, StoreInv of the ledger   *)
(* and the cluster alone: the end of a session settles the first, and an   *)
(* append disturbs the second for its own batch only.                      *)
(***************************************************************************)

\* What an entry says of its batch, and that it says nothing of another one.
EntryEffect(p, s, event) ==
  LET old == p[BatchOf(s)]
  IN CASE event \in {"BatchPrepared", "BatchSignatureMismatch"} ->
            [old EXCEPT !.expected_signature = s]
       [] event = "BatchSubmitted" ->
            [old EXCEPT !.expected_signature = s, !.submitted_signature = s]
       [] event = "BatchConfirmed" -> [old EXCEPT !.confirmed = s]
       [] event = "BatchFailed" ->
            [old EXCEPT !.failed_signature = s,
                        !.expected_signature = NoSignature,
                        !.submitted_signature = NoSignature]

LEMMA ApplyEffect ==
  ASSUME NEW p \in LedgerProgress, NEW s \in Signatures, NEW event \in BatchEvents
  PROVE  /\ apply(p, BatchEntry(event, s))[BatchOf(s)] = EntryEffect(p, s, event)
         /\ \A c \in Batches :
              c # BatchOf(s) => apply(p, BatchEntry(event, s))[c] = p[c]
<1> DEFINE b == BatchOf(s)
           e == BatchEntry(event, s)
<1>0. b \in Batches /\ e.event = event /\ e.batch = b /\ e.signature = s
  BY SignatureParts DEF BatchEntry
<1> HIDE DEF b, e
<1>1. CASE event \in {"BatchPrepared", "BatchSignatureMismatch"}
  <2>1. apply(p, e) = record_batch_prepared(p, b, s)
    BY <1>0, <1>1 DEF apply, RecipientEvents
  <2>2. /\ record_batch_prepared(p, b, s)[b] = EntryEffect(p, s, event)
        /\ \A c \in Batches : c # b => record_batch_prepared(p, b, s)[c] = p[c]
    BY <1>0, <1>1 DEF record_batch_prepared, EntryEffect, LedgerProgress, b
  <2> QED
    BY <2>1, <2>2 DEF b, e
<1>2. CASE event = "BatchSubmitted"
  <2>1. apply(p, e) = record_batch_submitted(p, b, s)
    BY <1>0, <1>2 DEF apply, RecipientEvents
  <2>2. /\ record_batch_submitted(p, b, s)[b] = EntryEffect(p, s, event)
        /\ \A c \in Batches : c # b => record_batch_submitted(p, b, s)[c] = p[c]
    BY <1>0, <1>2 DEF record_batch_submitted, EntryEffect, LedgerProgress, b
  <2> QED
    BY <2>1, <2>2 DEF b, e
<1>3. CASE event = "BatchConfirmed"
  <2>1. apply(p, e) = record_batch_confirmed(p, b, s)
    BY <1>0, <1>3 DEF apply, RecipientEvents
  <2>2. /\ record_batch_confirmed(p, b, s)[b] = EntryEffect(p, s, event)
        /\ \A c \in Batches : c # b => record_batch_confirmed(p, b, s)[c] = p[c]
    BY <1>0, <1>3 DEF record_batch_confirmed, EntryEffect, LedgerProgress, b
  <2> QED
    BY <2>1, <2>2 DEF b, e
<1>4. CASE event = "BatchFailed"
  <2>1. apply(p, e) = record_batch_failed(p, b, s)
    BY <1>0, <1>4 DEF apply, RecipientEvents
  <2>2. /\ record_batch_failed(p, b, s)[b] = EntryEffect(p, s, event)
        /\ \A c \in Batches : c # b => record_batch_failed(p, b, s)[c] = p[c]
    BY <1>0, <1>4 DEF record_batch_failed, EntryEffect, LedgerProgress, b
  <2> QED
    BY <2>1, <2>2 DEF b, e
<1> QED
  BY <1>1, <1>2, <1>3, <1>4 DEF BatchEvents

\* What a session concludes from a status is so.
LEMMA StatusTruth ==
  ASSUME ChainTypeOK, NEW s \in Signatures, NEW status \in StatusAnswers(s)
  PROVE  /\ status.err => Failed(s)
         /\ TerminalSuccess(status) => tx[s] = "ok"
<1>1. CASE status = NotFound
  BY <1>1 DEF NotFound, TerminalSuccess
<1>2. CASE status # NotFound
  BY <1>2 DEF StatusAnswers, TerminalSuccess, Failed, ChainTypeOK, TxStates
<1> QED
  BY <1>1, <1>2

\* Without forks a result is final, and only a request makes the cluster
\* aware of a transaction.
TxKeeps(s) == /\ tx[s] = "ok" => tx'[s] = "ok"
              /\ Failed(s) => Failed(s)'

LEMMA ClusterKeeps ==
  ASSUME ChainTypeOK, "fork" \notin Faults, ChainNext, NEW s \in Signatures
  PROVE  TxKeeps(s) /\ (tx[s] = "unseen" => tx'[s] = "unseen")
BY DEF ChainTypeOK, ChainNext, NewBlockhash, Process, Confirm, Drop, Rollback,
       SetTx, TxKeeps, Failed

LEMMA AcceptKeeps ==
  ASSUME ChainTypeOK, NEW t \in Signatures, Accept(t) \/ UNCHANGED tx,
         NEW s \in Signatures
  PROVE  TxKeeps(s) /\ (tx[s] = "unseen" => tx'[s] = "unseen" \/ s = t)
BY DEF ChainTypeOK, Accept, TxKeeps, Failed

LEMMA EndRun == ASSUME NEW result, End(result) PROVE RunInv'
BY DEF End, RunInv, ProgressInv, LoopInv, SignatureInv, AtSignature

\* A step of the cluster, or a request, that leaves the ledger alone.
LEMMA StoreKeeps ==
  ASSUME TypeOK, StoreInv, UNCHANGED ledger,
         \A s \in Signatures :
           /\ TxKeeps(s)
           /\ tx[s] = "unseen" => \/ tx'[s] = "unseen"
                                  \/ in_flight_signature(ledger, BatchOf(s)) = s
  PROVE  StoreInv'
<1> USE DEF StoreInv, TxKeeps, is_confirmed, in_flight_signature
<1>1. LedgerInv'
  BY DEF LedgerInv
<1>2. WriteAhead'
  BY DEF WriteAhead
<1>3. ConfirmedIsPaid'
  <2> SUFFICES ASSUME NEW b \in Batches, is_confirmed(ledger, b)
               PROVE  BatchOf(ledger[b].confirmed) = b /\ tx'[ledger[b].confirmed] = "ok"
    BY DEF ConfirmedIsPaid
  <2>1. ledger[b].confirmed \in Signatures
    BY DEF TypeOK, FileTypeOK, LedgerProgress, BatchProgress, OptSignature
  <2> QED
    BY <2>1 DEF ConfirmedIsPaid
<1>4. InOrder'
  <2> SUFFICES ASSUME NEW s \in Signatures, NEW b \in Batches,
                      tx'[s] # "unseen", b < BatchOf(s)
               PROVE  is_confirmed(ledger, b)
    BY DEF InOrder
  <2>1. CASE tx[s] # "unseen"
    BY <2>1 DEF InOrder
  <2>2. CASE tx[s] = "unseen"
    BY <2>2, SignatureParts DEF LedgerInv
  <2> QED
    BY <2>1, <2>2
<1> QED
  BY <1>1, <1>2, <1>3, <1>4

\* An append that changes what the ledger says of one batch, whose
\* predecessors are confirmed.
LEMMA StoreChanges ==
  ASSUME TypeOK, FileTypeOK', StoreInv, UNCHANGED tx, NEW b \in Batches,
         \A c \in Batches : c # b => ledger'[c] = ledger[c],
         \A c \in Batches : c < b => is_confirmed(ledger, c),
         is_confirmed(ledger, b) => is_confirmed(ledger', b),
         ledger'[b].submitted_signature \in {NoSignature, ledger'[b].expected_signature},
         in_flight_signature(ledger', b) # NoSignature =>
           BatchOf(in_flight_signature(ledger', b)) = b,
         is_confirmed(ledger', b) =>
           /\ ledger'[b].confirmed = in_flight_signature(ledger', b)
           /\ tx[ledger'[b].confirmed] = "ok",
         \A s \in Signatures :
           BatchOf(s) = b /\ tx[s] # "unseen" =>
             in_flight_signature(ledger', b) = s \/ Failed(s)
  PROVE  StoreInv'
<1>1. \A c \in Batches : is_confirmed(ledger, c) => is_confirmed(ledger', c)
  BY DEF is_confirmed
<1>2. LedgerInv'
  <2> SUFFICES ASSUME NEW c \in Batches
      PROVE /\ ledger'[c].submitted_signature \in {NoSignature, ledger'[c].expected_signature}
            /\ in_flight_signature(ledger', c) # NoSignature =>
                 /\ BatchOf(in_flight_signature(ledger', c)) = c
                 /\ \A d \in Batches : d < c => is_confirmed(ledger', d)
            /\ is_confirmed(ledger', c) =>
                 ledger'[c].confirmed = in_flight_signature(ledger', c)
    BY DEF LedgerInv
  <2>1. CASE c = b
    BY <2>1, <1>1
  <2>2. CASE c # b
    BY <2>2, <1>1 DEF StoreInv, LedgerInv, in_flight_signature, is_confirmed
  <2> QED
    BY <2>1, <2>2
<1>3. WriteAhead'
  <2> SUFFICES ASSUME NEW s \in Signatures, tx[s] # "unseen"
               PROVE  in_flight_signature(ledger', BatchOf(s)) = s \/ Failed(s)
    BY DEF WriteAhead, Failed
  <2>1. CASE BatchOf(s) = b
    BY <2>1
  <2>2. CASE BatchOf(s) # b
    BY <2>2, SignatureParts DEF StoreInv, WriteAhead, in_flight_signature
  <2> QED
    BY <2>1, <2>2
<1>4. ConfirmedIsPaid'
  <2> SUFFICES ASSUME NEW c \in Batches, is_confirmed(ledger', c)
               PROVE  BatchOf(ledger'[c].confirmed) = c /\ tx[ledger'[c].confirmed] = "ok"
    BY DEF ConfirmedIsPaid
  <2>1. CASE c = b
    BY <2>1 DEF is_confirmed
  <2>2. CASE c # b
    BY <2>2 DEF StoreInv, ConfirmedIsPaid, is_confirmed
  <2> QED
    BY <2>1, <2>2
<1>5. InOrder'
  BY <1>1 DEF StoreInv, InOrder
<1> QED
  BY <1>2, <1>3, <1>4, <1>5 DEF StoreInv

\* The four entries that say something of a batch, where they are appended.
LEMMA LogKeepsStore ==
  ASSUME Inv, FileTypeOK', UNCHANGED tx, NEW event \in BatchEvents,
         ledger' = apply(ledger, BatchEntry(event, signature)),
         \/ pc = "prepare" /\ event = "BatchPrepared"
         \/ pc = "mismatch" /\ event = "BatchSignatureMismatch"
         \/ pc = "submit" /\ event = "BatchSubmitted"
         \/ pc = "confirmed" /\ event = "BatchConfirmed"
         \/ pc = "failed" /\ event = "BatchFailed"
  PROVE  /\ StoreInv'
         /\ \A c \in Batches : c # current => ledger'[c] = ledger[c]
         /\ ledger'[current] = EntryEffect(ledger, signature, event)
<1> DEFINE old == ledger[current]
           new == ledger'[current]
<1>1. /\ current \in Batches /\ signature \in Signatures /\ BatchOf(signature) = current
      /\ ledger \in LedgerProgress /\ signature # NoSignature
      /\ TypeOK /\ StoreInv
      /\ \A c \in Batches : c < current => is_confirmed(ledger, c)
  BY SignatureParts DEF Inv, SessionInv, RunInv, LoopInv, TypeOK, FileTypeOK
<1>2. /\ old.submitted_signature \in {NoSignature, old.expected_signature}
      /\ old \in BatchProgress
      /\ \A s \in Signatures :
           BatchOf(s) = current /\ tx[s] # "unseen" =>
             in_flight_signature(ledger, current) = s \/ Failed(s)
  BY <1>1 DEF StoreInv, LedgerInv, LedgerProgress, WriteAhead
<1>3. old.confirmed = NoSignature
  BY DEF Inv, RunInv, LoopInv, is_confirmed
<1>4. /\ new = EntryEffect(ledger, signature, event)
      /\ \A c \in Batches : c # current => ledger'[c] = ledger[c]
  BY <1>1, ApplyEffect
<1>5. CASE pc = "prepare" /\ event = "BatchPrepared"
  <2>1. in_flight_signature(ledger, current) = NoSignature
    BY <1>5 DEF Inv, RunInv, SignatureInv
  <2>2. old.submitted_signature = NoSignature
    BY <2>1 DEF in_flight_signature
  <2>3. /\ new.submitted_signature = NoSignature /\ new.expected_signature = signature
        /\ new.confirmed = NoSignature
    BY <1>1, <1>2, <1>3, <1>4, <1>5, <2>2 DEF BatchProgress, EntryEffect
  <2>4. in_flight_signature(ledger', current) = signature /\ ~is_confirmed(ledger', current)
    BY <2>3 DEF in_flight_signature, is_confirmed
  <2> QED
    BY <1>1, <1>2, <1>3, <1>4, <2>1, <2>3, <2>4, StoreChanges, SignatureParts
    DEF is_confirmed
<1>6. CASE pc # "prepare"
  <2>1. in_flight_signature(ledger, current) = signature
    BY <1>6 DEF Inv, RunInv, SignatureInv, AtSignature
  <2>2. old.expected_signature = signature
    BY <1>1, <1>2, <2>1 DEF in_flight_signature
  <2>3. CASE event \in {"BatchSignatureMismatch", "BatchSubmitted"}
    <3>1. /\ new.submitted_signature \in {NoSignature, signature}
          /\ new.expected_signature = signature /\ new.confirmed = NoSignature
      BY <1>1, <1>2, <1>3, <1>4, <2>2, <2>3 DEF BatchProgress, EntryEffect
    <3>2. in_flight_signature(ledger', current) = signature /\ ~is_confirmed(ledger', current)
      BY <3>1 DEF in_flight_signature, is_confirmed
    <3> QED
      BY <1>1, <1>2, <1>3, <1>4, <2>1, <3>1, <3>2, StoreChanges DEF is_confirmed
  <2>4. CASE event = "BatchConfirmed"
    <3>1. /\ new.submitted_signature \in {NoSignature, signature}
          /\ new.expected_signature = signature /\ new.confirmed = signature
      BY <1>1, <1>2, <1>4, <2>2, <2>4 DEF BatchProgress, EntryEffect
    <3>2. in_flight_signature(ledger', current) = signature /\ is_confirmed(ledger', current)
      BY <1>1, <3>1 DEF in_flight_signature, is_confirmed
    <3>3. tx[signature] = "ok"
      BY <2>4 DEF Inv, RunInv, SignatureInv
    <3> QED
      BY <1>1, <1>2, <1>4, <2>1, <3>1, <3>2, <3>3, StoreChanges
  <2>5. CASE event = "BatchFailed"
    <3>1. /\ new.submitted_signature = NoSignature
          /\ new.expected_signature = NoSignature /\ new.confirmed = NoSignature
      BY <1>1, <1>2, <1>3, <1>4, <2>5 DEF BatchProgress, EntryEffect
    <3>2. in_flight_signature(ledger', current) = NoSignature /\ ~is_confirmed(ledger', current)
      BY <3>1 DEF in_flight_signature, is_confirmed
    <3>3. Failed(signature)
      BY <2>5 DEF Inv, RunInv, SignatureInv
    <3> QED
      BY <1>1, <1>2, <1>3, <1>4, <2>1, <3>1, <3>2, <3>3, StoreChanges DEF is_confirmed
  <2> QED
    BY <1>6, <2>3, <2>4, <2>5
<1> QED
  BY <1>4, <1>5, <1>6

LEMMA RecipientKeepsLedger ==
  ASSUME NEW event \in RecipientEvents, NEW s, NEW r,
         Written(RecipientEntry(event, s, r))
  PROVE  ledger' = ledger
<1>1. RecipientEntry(event, s, r).event = event
  BY DEF RecipientEntry
<1> QED
  BY <1>1 DEF Written, apply, RecipientEvents

\* An append keeps StoreInv whether the session survives it or not, and says
\* what it made of the ledger if it does.
LEMMA BatchAppend ==
  ASSUME Inv, TypeOK', UNCHANGED chainVars, NEW event \in BatchEvents,
         AppendEntry(BatchEntry(event, signature)) \/ TornEntry(BatchEntry(event, signature)),
         \/ pc = "prepare" /\ event = "BatchPrepared"
         \/ pc = "mismatch" /\ event = "BatchSignatureMismatch"
         \/ pc = "submit" /\ event = "BatchSubmitted"
         \/ pc = "confirmed" /\ event = "BatchConfirmed"
         \/ pc = "failed" /\ event = "BatchFailed"
  PROVE  /\ StoreInv'
         /\ AppendEntry(BatchEntry(event, signature)) =>
              /\ \A c \in Batches : c # current => ledger'[c] = ledger[c]
              /\ ledger'[current] = EntryEffect(ledger, signature, event)
<1>1. UNCHANGED tx /\ FileTypeOK'
  BY DEF chainVars, TypeOK
<1>2. CASE ledger' = apply(ledger, BatchEntry(event, signature))
  BY <1>1, <1>2, LogKeepsStore
<1>3. CASE UNCHANGED ledger /\ TornEntry(BatchEntry(event, signature))
           /\ ledger' # apply(ledger, BatchEntry(event, signature))
  BY <1>1, <1>3, StoreKeeps DEF Inv, TxKeeps, Failed, AppendEntry, Written
<1> QED
  BY <1>1, <1>2, <1>3 DEF AppendEntry, TornEntry, Written

\* A sendTransaction sends what the ledger has in flight.
LEMMA RequestKeepsStore ==
  ASSUME Inv, pc \in {"send", "rebroadcast"}, UNCHANGED ledger,
         Accept(signature) \/ UNCHANGED tx
  PROVE  StoreInv'
<1>1. /\ TypeOK /\ StoreInv /\ ChainTypeOK /\ signature \in Signatures
      /\ BatchOf(signature) = current
      /\ in_flight_signature(ledger, current) = signature
  BY DEF Inv, TypeOK, SessionInv, RunInv, LoopInv, SignatureInv, AtSignature
<1>2. ASSUME NEW s \in Signatures
      PROVE  /\ TxKeeps(s)
             /\ tx[s] = "unseen" => tx'[s] = "unseen" \/ in_flight_signature(ledger, BatchOf(s)) = s
  BY <1>1, AcceptKeeps
<1> QED
  BY <1>1, <1>2, StoreKeeps

\* The step of the invariant, apart from its types.
LEMMA InvStep ==
  ASSUME "fork" \notin Faults, Inv, TypeOK', SessionInv', [Next]_vars
  PROVE  RunInv' /\ StoreInv'
<1>a. /\ TypeOK /\ SessionInv /\ RunInv /\ StoreInv
      /\ ChainTypeOK /\ ledger \in LedgerProgress /\ progress \in LedgerProgress
  BY DEF Inv, TypeOK, FileTypeOK
<1>b. UNCHANGED <<ledger, tx>> => StoreInv'
  BY <1>a, StoreKeeps DEF TxKeeps, Failed
<1>c. \A result : End(result) => RunInv'
  BY EndRun
<1>d. UNCHANGED fileVars => UNCHANGED ledger
  BY DEF fileVars
<1>e. UNCHANGED chainVars => UNCHANGED tx
  BY DEF chainVars
<1>f. pc \notin {"idle", "batch"} =>
        /\ signature \in Signatures /\ current \in Batches
        /\ BatchOf(signature) = current /\ signature # NoSignature
  BY <1>a, SignatureParts DEF SessionInv, RunInv, LoopInv
<1>1. CASE Start
  <2>1. RunInv'
    BY <1>1 DEF Start, RunInv, ProgressInv, LoopInv, SignatureInv, AtSignature,
         fileVars, Batches
  <2> QED
    BY <1>1, <2>1, <1>b, <1>d, <1>e DEF Start
<1>2. CASE StartUnreadable
  <2>1. RunInv'
    BY <1>2 DEF StartUnreadable, RunInv, ProgressInv, LoopInv, SignatureInv, AtSignature
  <2> QED
    BY <1>2, <2>1, <1>b, <1>d, <1>e DEF StartUnreadable
<1>3. CASE Finish
  BY <1>3, <1>b, <1>c, <1>d, <1>e DEF Finish
<1>4. CASE SkipConfirmed
  <2>1. progress[current] = ledger[current] /\ current \in Batches
    BY <1>4, <1>a DEF SkipConfirmed, RunInv, ProgressInv, SessionInv, TypeOK, Batches
  <2>2. is_confirmed(ledger, current)
    BY <1>4, <2>1 DEF SkipConfirmed, is_confirmed
  <2>3. LoopInv'
    BY <1>4, <1>a, <1>d, <2>1, <2>2 DEF SkipConfirmed, RunInv, LoopInv, Batches, is_confirmed
  <2>4. ProgressInv' /\ SignatureInv'
    BY <1>4, <1>a, <1>d DEF SkipConfirmed, RunInv, ProgressInv, SignatureInv, AtSignature
  <2> QED
    BY <1>4, <2>3, <2>4, <1>b, <1>d, <1>e DEF SkipConfirmed, RunInv
<1>5. CASE Reconcile
  <2> DEFINE found == in_flight_signature(progress, current)
  <2>1. progress[current] = ledger[current] /\ current \in Batches
    BY <1>5, <1>a DEF Reconcile, RunInv, ProgressInv, SessionInv, TypeOK, Batches
  <2>2. found = in_flight_signature(ledger, current) /\ ~is_confirmed(ledger, current)
    BY <1>5, <2>1 DEF Reconcile, in_flight_signature, is_confirmed
  <2>3. found \in Signatures /\ BatchOf(found) = current
    <3>1. found \in OptSignature /\ found # NoSignature
      BY <1>5, <1>a, <2>1 DEF Reconcile, in_flight_signature, LedgerProgress, BatchProgress
    <3> QED
      BY <3>1, <2>1, <2>2, <1>a DEF OptSignature, StoreInv, LedgerInv
  <2> HIDE DEF found
  <2>4. CASE End("rpc") \/ End("pending")
    BY <1>5, <2>4, <1>b, <1>c, <1>d, <1>e DEF Reconcile
  <2>5. CASE ~(End("rpc") \/ End("pending"))
    <3>1. PICK status \in StatusAnswers(found) : Verdict(status) /\ Settle(status) /\ signature' = found
      BY <1>5, <2>5 DEF Reconcile, RpcError, found
    <3>2. /\ status.err => Failed(found)
          /\ ~status.err => tx[found] = "ok"
      BY <3>1, <1>a, <2>3, StatusTruth DEF Verdict
    <3>3. UNCHANGED <<current, progress, ledger, tx>> /\ pc = "batch"
      BY <1>5, <3>1, <1>d, <1>e DEF Reconcile, Settle
    <3>4. LoopInv' /\ ProgressInv'
      BY <3>1, <3>3, <2>2, <2>3, <1>a DEF RunInv, LoopInv, ProgressInv, is_confirmed, Settle
    <3>5. SignatureInv'
      BY <3>1, <3>2, <3>3, <2>2 DEF SignatureInv, AtSignature, Settle, Failed
    <3> QED
      BY <3>3, <3>4, <3>5, <1>b DEF RunInv
  <2> QED
    BY <2>4, <2>5
<1>6. CASE Sign
  <2>1. progress[current] = ledger[current] /\ current \in Batches
    BY <1>6, <1>a DEF Sign, RunInv, ProgressInv, SessionInv, TypeOK, Batches
  <2>2. in_flight_signature(ledger, current) = NoSignature /\ ~is_confirmed(ledger, current)
    BY <1>6, <2>1 DEF Sign, in_flight_signature, is_confirmed
  <2>3. CASE End("rpc")
    BY <1>6, <2>3, <1>b, <1>c, <1>d, <1>e DEF Sign
  <2>4. CASE ~End("rpc")
    <3>1. /\ pc = "batch" /\ pc' = "prepare" /\ UNCHANGED <<current, progress, ledger, tx>>
          /\ \E h \in Blockhashes : signature' = SignBatch(current, h)
      BY <1>6, <2>4, <1>d, <1>e DEF Sign, RpcError, GoTo, RecentBlockhashes
    <3>2. LoopInv' /\ ProgressInv'
      BY <3>1, <2>1, <2>2, <1>a, SignatureParts DEF RunInv, LoopInv, ProgressInv, is_confirmed
    <3>3. SignatureInv'
      BY <3>1, <2>2 DEF SignatureInv, AtSignature
    <3> QED
      BY <3>1, <3>2, <3>3, <1>b DEF RunInv
  <2> QED
    BY <2>3, <2>4
<1>7. CASE Prepare
  <2>1. UNCHANGED chainVars /\ pc = "prepare" /\ "BatchPrepared" \in BatchEvents
    BY <1>7 DEF Prepare, AppendThen, BatchEvents
  <2>2. StoreInv'
    BY <1>7, <2>1, BatchAppend DEF Prepare, AppendThen
  <2>3. CASE End("stopped")
    BY <2>2, <2>3, <1>c
  <2>4. CASE ~End("stopped")
    <3>1. /\ AppendEntry(BatchEntry("BatchPrepared", signature))
          /\ pc' = "send" /\ UNCHANGED <<current, signature>>
          /\ progress' = record_batch_prepared(progress, current, signature)
      BY <1>7, <2>4 DEF Prepare, AppendThen, GoTo
    <3>2. /\ \A c \in Batches : c # current => ledger'[c] = ledger[c]
          /\ ledger'[current] = [ledger[current] EXCEPT !.expected_signature = signature]
      BY <2>1, <3>1, <1>f, BatchAppend DEF EntryEffect
    <3>3. \A c \in Batches : progress'[c] = ledger'[c]
      BY <2>1, <3>1, <3>2, <1>a, <1>f
      DEF RunInv, ProgressInv, record_batch_prepared, LedgerProgress
    <3>4. /\ ledger[current].confirmed = NoSignature
          /\ in_flight_signature(ledger, current) = NoSignature
          /\ ledger[current] \in BatchProgress
      BY <2>1, <1>a, <1>f DEF RunInv, LoopInv, SignatureInv, is_confirmed, LedgerProgress
    <3>5. in_flight_signature(ledger', current) = signature /\ ~is_confirmed(ledger', current)
      BY <3>2, <3>4, <1>f DEF in_flight_signature, is_confirmed, BatchProgress
    <3>6. LoopInv'
      BY <2>1, <3>1, <3>2, <3>5, <1>a, <1>f DEF RunInv, LoopInv, is_confirmed, Batches
    <3> QED
      BY <2>2, <3>1, <3>3, <3>5, <3>6 DEF RunInv, ProgressInv, SignatureInv, AtSignature
  <2> QED
    BY <2>3, <2>4
<1>8. CASE Send
  <2>1. pc = "send" /\ UNCHANGED ledger /\ (Accept(signature) \/ UNCHANGED tx)
    BY <1>8, <1>d DEF Send, SendAnswers, SendError
  <2>2. StoreInv'
    BY <2>1, RequestKeepsStore
  <2>3. CASE End("rpc")
    BY <2>2, <2>3, <1>c
  <2>4. CASE ~End("rpc")
    <3>1. pc' \in {"submit", "mismatch"} /\ UNCHANGED <<current, progress, signature>>
      BY <1>8, <2>4 DEF Send, SendAnswers, GoTo
    <3>2. LoopInv' /\ ProgressInv'
      BY <2>1, <3>1, <1>a DEF RunInv, ProgressInv, LoopInv, is_confirmed
    <3>3. SignatureInv'
      BY <2>1, <3>1, <1>a DEF RunInv, SignatureInv, AtSignature, in_flight_signature
    <3> QED
      BY <2>2, <3>2, <3>3 DEF RunInv
  <2> QED
    BY <2>3, <2>4
<1>9. CASE Mismatch
  <2>1. UNCHANGED chainVars /\ pc = "mismatch" /\ "BatchSignatureMismatch" \in BatchEvents
    BY <1>9 DEF Mismatch, AppendThen, BatchEvents
  <2>2. StoreInv'
    BY <1>9, <2>1, BatchAppend DEF Mismatch, AppendThen
  <2> QED
    BY <1>9, <2>2, <1>c DEF Mismatch, AppendThen
<1>10. CASE Submit
  <2>1. UNCHANGED chainVars /\ pc = "submit" /\ "BatchSubmitted" \in BatchEvents
    BY <1>10 DEF Submit, AppendThen, BatchEvents
  <2>2. StoreInv'
    BY <1>10, <2>1, BatchAppend DEF Submit, AppendThen
  <2>3. CASE End("stopped")
    BY <2>2, <2>3, <1>c
  <2>4. CASE ~End("stopped")
    <3>1. /\ AppendEntry(BatchEntry("BatchSubmitted", signature))
          /\ pc' = "poll" /\ UNCHANGED <<current, signature>>
          /\ progress' = record_batch_submitted(progress, current, signature)
      BY <1>10, <2>4 DEF Submit, AppendThen, GoTo
    <3>2. /\ \A c \in Batches : c # current => ledger'[c] = ledger[c]
          /\ ledger'[current] = [ledger[current] EXCEPT !.expected_signature = signature,
                                                       !.submitted_signature = signature]
      BY <2>1, <3>1, <1>f, BatchAppend DEF EntryEffect
    <3>3. \A c \in Batches : progress'[c] = ledger'[c]
      BY <2>1, <3>1, <3>2, <1>a, <1>f
      DEF RunInv, ProgressInv, record_batch_submitted, LedgerProgress
    <3>4. ledger[current].confirmed = NoSignature /\ ledger[current] \in BatchProgress
      BY <2>1, <1>a, <1>f DEF RunInv, LoopInv, is_confirmed, LedgerProgress
    <3>5. in_flight_signature(ledger', current) = signature /\ ~is_confirmed(ledger', current)
      BY <3>2, <3>4, <1>f DEF in_flight_signature, is_confirmed, BatchProgress
    <3>6. LoopInv'
      BY <2>1, <3>1, <3>2, <3>5, <1>a, <1>f DEF RunInv, LoopInv, is_confirmed, Batches
    <3> QED
      BY <2>2, <3>1, <3>3, <3>5, <3>6 DEF RunInv, ProgressInv, SignatureInv, AtSignature
  <2> QED
    BY <2>3, <2>4
<1>g. pc \in {"poll", "rebroadcast"} /\ NextAttempt /\ UNCHANGED ledger => RunInv'
  BY <1>a, <1>c DEF NextAttempt, GoTo, RunInv, ProgressInv, LoopInv, SignatureInv,
     AtSignature, is_confirmed
<1>11. CASE Poll
  <2>1. UNCHANGED <<ledger, tx>> /\ pc = "poll"
    BY <1>11, <1>d, <1>e DEF Poll
  <2>2. CASE NextAttempt \/ End("rpc")
    BY <2>1, <2>2, <1>b, <1>c, <1>g
  <2>3. CASE /\ pc' = "rebroadcast"
             /\ UNCHANGED <<current, progress, signature>>
    BY <2>1, <2>3, <1>a, <1>b
    DEF RunInv, ProgressInv, LoopInv, SignatureInv, AtSignature, is_confirmed
  <2>4. ASSUME NEW status \in StatusAnswers(signature), Verdict(status),
               Settle(status), UNCHANGED signature
        PROVE  RunInv' /\ StoreInv'
    <3>1. /\ status.err => Failed(signature)
          /\ ~status.err => tx[signature] = "ok"
      BY <2>1, <2>4, <1>a, <1>f, StatusTruth DEF Verdict
    <3>2. LoopInv' /\ ProgressInv'
      BY <2>1, <2>4, <1>a DEF RunInv, LoopInv, ProgressInv, is_confirmed, Settle
    <3>3. SignatureInv'
      BY <2>1, <2>4, <3>1, <1>a DEF RunInv, SignatureInv, AtSignature, Settle, Failed
    <3> QED
      BY <2>1, <3>2, <3>3, <1>b DEF RunInv
  <2> QED
    BY <1>11, <2>2, <2>3, <2>4 DEF Poll, RpcError, GoTo
<1>12. CASE Rebroadcast
  <2>1. pc = "rebroadcast" /\ UNCHANGED ledger /\ (Accept(signature) \/ UNCHANGED tx)
    BY <1>12, <1>d DEF Rebroadcast, SendError
  <2>2. StoreInv'
    BY <2>1, RequestKeepsStore
  <2>3. NextAttempt \/ End("mismatch")
    BY <1>12 DEF Rebroadcast
  <2> QED
    BY <2>1, <2>2, <2>3, <1>c, <1>g
<1>13. CASE LogConfirmed
  <2>1. UNCHANGED chainVars /\ pc = "confirmed" /\ "BatchConfirmed" \in BatchEvents
    BY <1>13 DEF LogConfirmed, AppendThen, BatchEvents
  <2>2. StoreInv'
    BY <1>13, <2>1, BatchAppend DEF LogConfirmed, AppendThen
  <2>3. CASE End("stopped")
    BY <2>2, <2>3, <1>c
  <2>4. CASE ~End("stopped")
    <3>1. /\ AppendEntry(BatchEntry("BatchConfirmed", signature))
          /\ pc' = "recipients_confirmed" /\ UNCHANGED <<current, progress, signature>>
      BY <1>13, <2>4 DEF LogConfirmed, AppendThen, GoTo
    <3>2. /\ \A c \in Batches : c # current => ledger'[c] = ledger[c]
          /\ ledger'[current] = [ledger[current] EXCEPT !.confirmed = signature]
      BY <2>1, <3>1, <1>f, BatchAppend DEF EntryEffect
    <3>3. ProgressInv'
      BY <2>1, <3>1, <3>2, <1>a, <1>f DEF RunInv, ProgressInv
    <3>4. LoopInv'
      BY <2>1, <3>1, <3>2, <1>a, <1>f DEF RunInv, LoopInv, is_confirmed, Batches
    <3>5. in_flight_signature(ledger', current) = signature
      <4>1. in_flight_signature(ledger, current) = signature /\ ledger[current] \in BatchProgress
        BY <2>1, <1>a, <1>f DEF RunInv, SignatureInv, AtSignature, LedgerProgress
      <4> QED
        BY <3>2, <4>1 DEF in_flight_signature, BatchProgress
    <3>6. SignatureInv'
      BY <2>1, <3>1, <3>5, <1>a, <1>e DEF RunInv, SignatureInv, AtSignature
    <3> QED
      BY <2>2, <3>3, <3>4, <3>6 DEF RunInv
  <2> QED
    BY <2>3, <2>4
<1>14. CASE LogRecipientConfirmed
  <2>1. /\ pc = "recipients_confirmed" /\ UNCHANGED <<ledger, tx>>
    BY <1>14, <1>e, RecipientKeepsLedger
    DEF LogRecipientConfirmed, AppendThen, AppendEntry, TornEntry, RecipientEvents
  <2>2. StoreInv'
    BY <2>1, <1>b
  <2>3. CASE End("stopped")
    BY <2>2, <2>3, <1>c
  <2>4. CASE ~End("stopped") /\ recipient < BatchSize
    <3>1. UNCHANGED <<pc, current, progress, signature>>
      BY <1>14, <2>4 DEF LogRecipientConfirmed, AppendThen
    <3>2. LoopInv' /\ ProgressInv'
      BY <2>1, <3>1, <1>a DEF RunInv, ProgressInv, LoopInv, is_confirmed
    <3>3. SignatureInv'
      BY <2>1, <3>1, <1>a DEF RunInv, SignatureInv, AtSignature, in_flight_signature, Failed
    <3> QED
      BY <2>2, <3>2, <3>3 DEF RunInv
  <2>5. CASE ~End("stopped") /\ ~(recipient < BatchSize)
    <3>1. /\ pc' = "batch" /\ current' = current + 1
          /\ progress' = record_batch_confirmed(progress, current, signature)
      BY <1>14, <2>5 DEF LogRecipientConfirmed, AppendThen, GoTo
    <3>2. /\ \A c \in Batches : c # current => progress[c] = ledger[c]
          /\ \/ progress[current] = ledger[current]
             \/ ledger[current] = [progress[current] EXCEPT !.confirmed = signature]
      BY <2>1, <1>a, <1>f DEF RunInv, ProgressInv
    <3>3. ledger[current].confirmed = signature
      <4>1. in_flight_signature(ledger, current) = signature
        BY <2>1, <1>a DEF RunInv, SignatureInv, AtSignature
      <4>2. is_confirmed(ledger, current)
        BY <2>1, <1>a, <1>f DEF RunInv, LoopInv
      <4> QED
        BY <2>1, <4>1, <4>2, <1>a, <1>f DEF StoreInv, LedgerInv
    <3>4. [progress[current] EXCEPT !.confirmed = signature] = ledger[current]
      BY <2>1, <3>2, <3>3, <1>a, <1>f DEF LedgerProgress, BatchProgress
    <3>5. ProgressInv'
      BY <2>1, <3>1, <3>2, <3>4, <1>a, <1>f
      DEF ProgressInv, record_batch_confirmed, LedgerProgress
    <3>6. LoopInv' /\ SignatureInv'
      BY <2>1, <3>1, <3>3, <1>a, <1>f
      DEF RunInv, LoopInv, SignatureInv, AtSignature, is_confirmed, Batches
    <3> QED
      BY <2>2, <3>5, <3>6 DEF RunInv
  <2> QED
    BY <2>3, <2>4, <2>5
<1>15. CASE LogFailed
  <2>1. UNCHANGED chainVars /\ pc = "failed" /\ "BatchFailed" \in BatchEvents
    BY <1>15 DEF LogFailed, AppendThen, BatchEvents
  <2>2. StoreInv'
    BY <1>15, <2>1, BatchAppend DEF LogFailed, AppendThen
  <2>3. CASE End("stopped")
    BY <2>2, <2>3, <1>c
  <2>4. CASE ~End("stopped")
    <3>1. /\ AppendEntry(BatchEntry("BatchFailed", signature))
          /\ pc' = "recipients_failed" /\ UNCHANGED <<current, progress, signature>>
      BY <1>15, <2>4 DEF LogFailed, AppendThen, GoTo
    <3>2. /\ \A c \in Batches : c # current => ledger'[c] = ledger[c]
          /\ ledger'[current] = EntryEffect(ledger, signature, "BatchFailed")
      BY <2>1, <3>1, BatchAppend
    <3>3. ProgressInv'
      BY <2>1, <3>1, <3>2, <1>a, <1>f DEF RunInv, ProgressInv
    <3>4. ledger'[current].confirmed = NoSignature
      <4>1. ledger[current].confirmed = NoSignature /\ ledger[current] \in BatchProgress
        BY <2>1, <1>a, <1>f DEF RunInv, LoopInv, is_confirmed, LedgerProgress
      <4> QED
        BY <2>1, <3>2, <4>1, <1>f DEF EntryEffect, BatchProgress
    <3>5. LoopInv'
      BY <2>1, <3>1, <3>2, <3>4, <1>a, <1>f DEF RunInv, LoopInv, is_confirmed, Batches
    <3>6. SignatureInv'
      BY <2>1, <3>1, <1>a, <1>e DEF RunInv, SignatureInv, AtSignature, Failed
    <3> QED
      BY <2>2, <3>3, <3>5, <3>6 DEF RunInv
  <2> QED
    BY <2>3, <2>4
<1>16. CASE LogRecipientFailed
  <2>1. /\ pc = "recipients_failed" /\ UNCHANGED <<ledger, tx>>
    BY <1>16, <1>e, RecipientKeepsLedger
    DEF LogRecipientFailed, AppendThen, AppendEntry, TornEntry, RecipientEvents
  <2>2. StoreInv'
    BY <2>1, <1>b
  <2>3. CASE End("stopped") \/ End("failed")
    BY <2>2, <2>3, <1>c
  <2>4. CASE ~(End("stopped") \/ End("failed"))
    <3>1. UNCHANGED <<pc, current, progress, signature>>
      BY <1>16, <2>4 DEF LogRecipientFailed, AppendThen
    <3>2. LoopInv' /\ ProgressInv'
      BY <2>1, <3>1, <1>a DEF RunInv, ProgressInv, LoopInv, is_confirmed
    <3>3. SignatureInv'
      BY <2>1, <3>1, <1>a DEF RunInv, SignatureInv, AtSignature, in_flight_signature, Failed
    <3> QED
      BY <2>2, <3>2, <3>3 DEF RunInv
  <2> QED
    BY <2>3, <2>4
<1>17. CASE Crash
  BY <1>17, <1>b, <1>c, <1>d, <1>e DEF Crash
<1>18. CASE ClusterStep
  <2>1. UNCHANGED <<ledger, pc, current, progress, signature>>
    BY <1>18 DEF ClusterStep, fileVars, sessionVars
  <2>2. ASSUME NEW s \in Signatures
        PROVE  TxKeeps(s) /\ (tx[s] = "unseen" => tx'[s] = "unseen")
    BY <1>18, <1>a, ClusterKeeps DEF ClusterStep
  <2>3. StoreInv'
    BY <2>1, <2>2, <1>a, StoreKeeps
  <2>4. LoopInv' /\ ProgressInv'
    BY <2>1, <1>a DEF RunInv, ProgressInv, LoopInv, is_confirmed
  <2>5. SignatureInv'
    BY <2>1, <2>2, <1>a, <1>f
    DEF RunInv, SignatureInv, AtSignature, in_flight_signature, TxKeeps
  <2> QED
    BY <2>3, <2>4, <2>5 DEF RunInv
<1>19. CASE UNCHANGED vars
  <2>1. UNCHANGED <<ledger, tx, pc, current, progress, signature>>
    BY <1>19 DEF vars, fileVars, sessionVars, chainVars
  <2>2. RunInv'
    BY <2>1, <1>a
    DEF RunInv, ProgressInv, LoopInv, SignatureInv, AtSignature, in_flight_signature,
        is_confirmed, Failed
  <2> QED
    BY <2>1, <2>2, <1>b
<1> QED
  BY <1>1, <1>2, <1>3, <1>4, <1>5, <1>6, <1>7, <1>8, <1>9, <1>10, <1>11, <1>12,
     <1>13, <1>14, <1>15, <1>16, <1>17, <1>18, <1>19 DEF Next, SessionStep

LEMMA InvInit == Init => Inv
<1> SUFFICES ASSUME Init PROVE Inv
  OBVIOUS
<1>1. TypeOK /\ SessionInv
  BY TypeInit
<1>2. RunInv
  BY DEF Init, SessionInit, RunInv, ProgressInv, LoopInv, SignatureInv, AtSignature
<1>3. \A b \in Batches : /\ ~is_confirmed(ledger, b)
                        /\ in_flight_signature(ledger, b) = NoSignature
                        /\ ledger[b].submitted_signature = NoSignature
  BY DEF Init, FileInit, EmptyProgress, is_confirmed, in_flight_signature
<1>4. \A s \in Signatures : tx[s] = "unseen"
  BY DEF Init, ChainInit
<1>5. StoreInv
  BY <1>3, <1>4 DEF StoreInv, LedgerInv, WriteAhead, ConfirmedIsPaid, InOrder
<1> QED
  BY <1>1, <1>2, <1>5 DEF Inv

\* Every reachable state of send_plan, its ledger and a cluster without forks
\* satisfies the inductive invariant.
THEOREM Invariance == ASSUME "fork" \notin Faults PROVE Spec => []Inv
<1>1. Inv /\ [Next]_vars => Inv'
  <2> SUFFICES ASSUME Inv, [Next]_vars PROVE Inv'
    OBVIOUS
  <2>1. TypeOK' /\ SessionInv'
    BY TypeStep DEF Inv
  <2>2. RunInv' /\ StoreInv'
    BY <2>1, InvStep
  <2> QED
    BY <2>1, <2>2 DEF Inv
<1> QED
  BY <1>1, InvInit, PTL DEF Spec

LEMMA InvNoDoublePay == Inv => NoDoublePay
BY DEF Inv, StoreInv, WriteAhead, NoDoublePay, Failed

\* Of the transactions that all sessions ever signed for a batch, at most
\* one succeeds: crashes, torn appends, lost answers and retries after a
\* failure never pay a recipient twice.
THEOREM PaysAtMostOnce == ASSUME "fork" \notin Faults PROVE Spec => []NoDoublePay
BY Invariance, InvNoDoublePay, PTL

\* The cluster never holds a live transaction that the ledger does not name.
THEOREM LedgerIsAhead == ASSUME "fork" \notin Faults PROVE Spec => []WriteAhead
<1>1. Inv => WriteAhead
  BY DEF Inv, StoreInv
<1> QED
  BY <1>1, Invariance, PTL

\* A batch the ledger has as confirmed was paid.
THEOREM ConfirmedWasPaid == ASSUME "fork" \notin Faults PROVE Spec => []ConfirmedIsPaid
<1>1. Inv => ConfirmedIsPaid
  BY DEF Inv, StoreInv
<1> QED
  BY <1>1, Invariance, PTL

\* The batches reach the cluster in the order of the plan.
THEOREM SendsInOrder == ASSUME "fork" \notin Faults PROVE Spec => []InOrder
<1>1. Inv => InOrder
  BY DEF Inv, StoreInv
<1> QED
  BY <1>1, Invariance, PTL

-----------------------------------------------------------------------------
(* What a step does to the ledger.                                         *)

\* The five places that append an entry about a batch.
Logs(event) ==
  /\ event \in BatchEvents
  /\ ledger' = apply(ledger, BatchEntry(event, signature))
  /\ UNCHANGED tx
  /\ \/ pc = "prepare" /\ event = "BatchPrepared"
     \/ pc = "mismatch" /\ event = "BatchSignatureMismatch"
     \/ pc = "submit" /\ event = "BatchSubmitted"
     \/ pc = "confirmed" /\ event = "BatchConfirmed"
     \/ pc = "failed" /\ event = "BatchFailed"

LEMMA LedgerStep ==
  ASSUME [Next]_vars
  PROVE  UNCHANGED ledger \/ \E event \in BatchEvents : Logs(event)
<1>1. CASE Prepare
  BY <1>1 DEF Prepare, AppendThen, AppendEntry, TornEntry, Written, Logs, BatchEvents, chainVars
<1>2. CASE Mismatch
  BY <1>2 DEF Mismatch, AppendThen, AppendEntry, TornEntry, Written, Logs, BatchEvents, chainVars
<1>3. CASE Submit
  BY <1>3 DEF Submit, AppendThen, AppendEntry, TornEntry, Written, Logs, BatchEvents, chainVars
<1>4. CASE LogConfirmed
  BY <1>4 DEF LogConfirmed, AppendThen, AppendEntry, TornEntry, Written, Logs, BatchEvents, chainVars
<1>5. CASE LogFailed
  BY <1>5 DEF LogFailed, AppendThen, AppendEntry, TornEntry, Written, Logs, BatchEvents, chainVars
<1>6. CASE LogRecipientConfirmed \/ LogRecipientFailed
  BY <1>6, RecipientKeepsLedger
  DEF LogRecipientConfirmed, LogRecipientFailed, AppendThen, AppendEntry, TornEntry, RecipientEvents
<1>7. CASE Start \/ StartUnreadable \/ Finish \/ SkipConfirmed \/ Reconcile \/ Sign
  BY <1>7 DEF Start, StartUnreadable, Finish, SkipConfirmed, Reconcile, Sign, fileVars
<1>8. CASE Send \/ Poll \/ Rebroadcast \/ Crash \/ ClusterStep \/ UNCHANGED vars
  BY <1>8 DEF Send, Poll, Rebroadcast, Crash, ClusterStep, vars, fileVars
<1> QED
  BY <1>1, <1>2, <1>3, <1>4, <1>5, <1>6, <1>7, <1>8 DEF Next, SessionStep

LEMMA KeepsStep ==
  ASSUME Inv, TypeOK', [Next]_vars
  PROVE  LedgerKeepsStep
<1>1. CASE UNCHANGED ledger
  BY <1>1 DEF LedgerKeepsStep
<1>2. ASSUME NEW event \in BatchEvents, Logs(event)
      PROVE  LedgerKeepsStep
  <2>1. /\ \A c \in Batches : c # current => ledger'[c] = ledger[c]
        /\ ledger'[current] = EntryEffect(ledger, signature, event)
    BY <1>2, LogKeepsStore DEF Logs, TypeOK
  <2>2. /\ current \in Batches /\ ~is_confirmed(ledger, current)
        /\ BatchOf(signature) = current
        /\ ledger[current] \in BatchProgress
        /\ pc # "prepare" => in_flight_signature(ledger, current) = signature
        /\ pc = "prepare" => in_flight_signature(ledger, current) = NoSignature
        /\ pc = "failed" => Failed(signature)
    BY <1>2 DEF Logs, Inv, TypeOK, FileTypeOK, LedgerProgress, SessionInv, RunInv,
       LoopInv, SignatureInv, AtSignature
  <2>3. SUFFICES in_flight_signature(ledger, current) \notin
                   {NoSignature, in_flight_signature(ledger', current)}
                   => Failed(in_flight_signature(ledger, current))
    BY <2>1, <2>2 DEF LedgerKeepsStep, in_flight_signature
  <2>4. CASE pc \in {"prepare", "failed"}
    BY <2>2, <2>4
  <2>5. CASE pc \in {"mismatch", "submit", "confirmed"}
    <3>1. event \in {"BatchSignatureMismatch", "BatchSubmitted", "BatchConfirmed"}
      BY <1>2, <2>5 DEF Logs
    <3>2. ledger[current].submitted_signature \in {NoSignature, ledger[current].expected_signature}
      BY <2>2 DEF Inv, StoreInv, LedgerInv
    <3>3. in_flight_signature(ledger', current) = signature
      BY <2>1, <2>2, <2>5, <3>1, <3>2 DEF EntryEffect, in_flight_signature, BatchProgress
    <3> QED
      BY <2>2, <2>5, <3>3
  <2> QED
    BY <1>2, <2>4, <2>5 DEF Logs
<1> QED
  BY <1>1, <1>2, LedgerStep

\* A confirmed batch is final in the ledger, and a signature in flight is
\* only given up for a transaction that failed.
THEOREM LedgerIsKept == ASSUME "fork" \notin Faults PROVE Spec => LedgerKeeps
<1>1. Inv /\ Inv' /\ [Next]_vars => [LedgerKeepsStep]_vars
  BY KeepsStep DEF Inv
<1> QED
  BY <1>1, Invariance, PTL DEF Spec, LedgerKeeps

-----------------------------------------------------------------------------
(* A session that ends well.                                               *)

OkInv == outcome = "ok" => \A b \in Batches : is_confirmed(ledger, b)

\* Only the end of the loop makes a session end well.
LEMMA OkOnlyByFinish == ASSUME [Next]_vars, outcome' = "ok" PROVE outcome = "ok" \/ Finish
<1> USE DEF End, AppendThen, NextAttempt, Settle, RpcError
<1>1. CASE Start \/ StartUnreadable \/ SkipConfirmed \/ Reconcile \/ Sign
  BY <1>1 DEF Start, StartUnreadable, SkipConfirmed, Reconcile, Sign
<1>2. CASE Prepare \/ Mismatch \/ Submit
  BY <1>2 DEF Prepare, Mismatch, Submit
<1>3. CASE Send \/ Poll \/ Rebroadcast
  BY <1>3 DEF Send, Poll, Rebroadcast
<1>4. CASE LogConfirmed \/ LogRecipientConfirmed \/ LogFailed \/ LogRecipientFailed
  BY <1>4 DEF LogConfirmed, LogRecipientConfirmed, LogFailed, LogRecipientFailed
<1>5. CASE Crash \/ ClusterStep \/ UNCHANGED vars
  BY <1>5 DEF Crash, ClusterStep, vars, sessionVars
<1> QED
  BY <1>1, <1>2, <1>3, <1>4, <1>5 DEF Next, SessionStep

LEMMA OkStep == ASSUME Inv, TypeOK', OkInv, [Next]_vars PROVE OkInv'
<1>1. \A b \in Batches : is_confirmed(ledger, b) => is_confirmed(ledger', b)
  BY KeepsStep DEF LedgerKeepsStep, is_confirmed
<1>2. Finish => \A b \in Batches : is_confirmed(ledger, b)
  BY DEF Finish, Inv, RunInv, LoopInv, TypeOK, Batches
<1> QED
  BY <1>1, <1>2, OkOnlyByFinish DEF OkInv

\* send_plan returns Ok only when every batch of the plan was paid.
THEOREM OkWasPaid == ASSUME "fork" \notin Faults PROVE Spec => []OkMeansPaid
<1>1. Init => OkInv
  BY DEF Init, SessionInit, OkInv
<1>2. Inv /\ Inv' /\ OkInv /\ [Next]_vars => OkInv'
  BY OkStep DEF Inv
<1>3. Inv /\ OkInv => OkMeansPaid
  <2> SUFFICES ASSUME Inv, OkInv, outcome = "ok", NEW b \in Batches
               PROVE  \E s \in Signatures : BatchOf(s) = b /\ tx[s] = "ok"
    BY DEF OkMeansPaid
  <2>1. ledger[b].confirmed \in OptSignature /\ ledger[b].confirmed # NoSignature
    BY DEF OkInv, is_confirmed, Inv, TypeOK, FileTypeOK, LedgerProgress, BatchProgress
  <2>2. BatchOf(ledger[b].confirmed) = b /\ tx[ledger[b].confirmed] = "ok"
    BY <2>1 DEF Inv, StoreInv, ConfirmedIsPaid, is_confirmed
  <2> QED
    BY <2>1, <2>2 DEF OptSignature
<1> QED
  BY <1>1, <1>2, <1>3, Invariance, PTL DEF Spec

-----------------------------------------------------------------------------
(* The entries about the recipients.                                       *)

\* An append about a batch leaves the recipients' entries alone, whether it is
\* whole or torn.
LEMMA BatchEntryKeepsLog ==
  ASSUME NEW event \in BatchEvents, NEW next,
         AppendThen(BatchEntry(event, signature), next)
  PROVE  UNCHANGED <<recipientLog, tx>>
<1>1. BatchEntry(event, signature).event \notin RecipientEvents
  BY DEF BatchEntry, BatchEvents, RecipientEvents
<1> QED
  BY <1>1 DEF AppendThen, AppendEntry, TornEntry, Written, chainVars

\* An append about a recipient adds its entry, or nothing.
LEMMA RecipientEntryAdds ==
  ASSUME NEW event \in RecipientEvents, NEW next,
         AppendThen(RecipientEntry(event, signature, recipient), next)
  PROVE  /\ UNCHANGED tx
         /\ recipientLog' \subseteq
              recipientLog \cup {RecipientEntry(event, signature, recipient)}
BY DEF AppendThen, AppendEntry, TornEntry, Written, chainVars

\* A result that an entry rests on is final, so the entries stay true.
LEMMA LogStays ==
  ASSUME RecipientLogTrue, FileTypeOK, UNCHANGED recipientLog,
         \A s \in Signatures : TxKeeps(s)
  PROVE  RecipientLogTrue'
<1>1. \A e \in recipientLog : e.signature \in Signatures
  BY DEF FileTypeOK, RecipientLedgerEntry
<1> QED
  BY <1>1 DEF RecipientLogTrue, TxKeeps

LEMMA LogStep ==
  ASSUME "fork" \notin Faults, Inv, RecipientLogTrue, [Next]_vars
  PROVE  RecipientLogTrue'
<1>1. ChainTypeOK /\ FileTypeOK
  BY DEF Inv, TypeOK
<1>2. CASE UNCHANGED <<recipientLog, tx>>
  BY <1>1, <1>2, LogStays DEF TxKeeps, Failed
<1>3. CASE Prepare \/ Mismatch \/ Submit \/ LogConfirmed \/ LogFailed
  <2>1. UNCHANGED <<recipientLog, tx>>
    BY <1>3, BatchEntryKeepsLog
      DEF Prepare, Mismatch, Submit, LogConfirmed, LogFailed, BatchEvents
  <2> QED
    BY <1>2, <2>1
<1>4. CASE LogRecipientConfirmed
  <2>1. /\ UNCHANGED tx /\ tx[signature] = "ok"
        /\ recipientLog' \subseteq recipientLog \cup
             {RecipientEntry("RecipientConfirmed", signature, recipient)}
    BY <1>4, RecipientEntryAdds
      DEF LogRecipientConfirmed, RecipientEvents, Inv, RunInv, SignatureInv
  <2> QED
    BY <2>1 DEF RecipientLogTrue, RecipientEntry, Failed
<1>5. CASE LogRecipientFailed
  <2>1. /\ UNCHANGED tx /\ Failed(signature)
        /\ recipientLog' \subseteq recipientLog \cup
             {RecipientEntry("RecipientFailed", signature, recipient)}
    BY <1>5, RecipientEntryAdds
      DEF LogRecipientFailed, RecipientEvents, Inv, RunInv, SignatureInv
  <2> QED
    BY <2>1 DEF RecipientLogTrue, RecipientEntry, Failed
<1>6. CASE Send \/ Rebroadcast
  <2>1. signature \in Signatures
    BY <1>6 DEF Send, Rebroadcast, Inv, RunInv, SessionInv
  <2>2. UNCHANGED recipientLog /\ (Accept(signature) \/ UNCHANGED tx)
    BY <1>6 DEF Send, Rebroadcast, SendAnswers, SendError, fileVars
  <2> QED
    BY <1>1, <2>1, <2>2, AcceptKeeps, LogStays
<1>7. CASE ClusterStep
  BY <1>1, <1>7, ClusterKeeps, LogStays DEF ClusterStep, fileVars
<1>8. CASE Start \/ StartUnreadable \/ Finish \/ SkipConfirmed \/ Reconcile \/ Sign
  BY <1>2, <1>8 DEF Start, StartUnreadable, Finish, SkipConfirmed, Reconcile, Sign,
                    fileVars, chainVars
<1>9. CASE Poll \/ Crash \/ UNCHANGED vars
  BY <1>2, <1>9 DEF Poll, Crash, vars, fileVars, chainVars
<1> QED
  BY <1>3, <1>4, <1>5, <1>6, <1>7, <1>8, <1>9 DEF Next, SessionStep

\* An audit of the ledger finds only what happened: a recipient that
\* append_batch_confirmed_entries (execution.rs:333) records as confirmed was
\* paid, and one that is recorded as failed was not paid by that transaction,
\* now and in every later session.
THEOREM RecipientsAreRecordedTruly ==
  ASSUME "fork" \notin Faults PROVE Spec => []RecipientLogTrue
<1>1. Init => RecipientLogTrue
  BY DEF Init, FileInit, RecipientLogTrue
<1>2. Inv /\ RecipientLogTrue /\ [Next]_vars => RecipientLogTrue'
  BY LogStep
<1> QED
  BY <1>1, <1>2, Invariance, PTL DEF Spec

\* Where no append is torn and nobody kills the session, a confirmed batch has
\* the entries of all its recipients, but for those that are being written.
Logged(b, r) == \E e \in recipientLog :
  e.event = "RecipientConfirmed" /\ e.batch = b /\ e.recipient = r

LoggedInv ==
  \A b \in Batches, r \in Recipients :
    is_confirmed(ledger, b) =>
      \/ Logged(b, r)
      \/ b = current /\ pc = "recipients_confirmed" /\ recipient <= r

\* The entries stay, and only LogConfirmed confirms a batch.
LEMMA LogGrows ==
  ASSUME [Next]_vars
  PROVE  recipientLog \subseteq recipientLog'
<1>1. CASE Prepare \/ Mismatch \/ Submit \/ LogConfirmed \/ LogFailed
  BY <1>1, BatchEntryKeepsLog
    DEF Prepare, Mismatch, Submit, LogConfirmed, LogFailed, BatchEvents
<1>2. CASE LogRecipientConfirmed \/ LogRecipientFailed
  BY <1>2 DEF LogRecipientConfirmed, LogRecipientFailed, AppendThen, AppendEntry,
              TornEntry, Written
<1>3. CASE Start \/ StartUnreadable \/ Finish \/ SkipConfirmed \/ Reconcile \/ Sign
  BY <1>3 DEF Start, StartUnreadable, Finish, SkipConfirmed, Reconcile, Sign, fileVars
<1>4. CASE Send \/ Poll \/ Rebroadcast \/ Crash \/ ClusterStep \/ UNCHANGED vars
  BY <1>4 DEF Send, Poll, Rebroadcast, Crash, ClusterStep, vars, fileVars
<1> QED
  BY <1>1, <1>2, <1>3, <1>4 DEF Next, SessionStep

LEMMA ConfirmedByLog ==
  ASSUME Inv, TypeOK', [Next]_vars, NEW b \in Batches,
         is_confirmed(ledger', b), ~is_confirmed(ledger, b)
  PROVE  b = current /\ pc = "confirmed"
<1>1. PICK event \in BatchEvents : Logs(event)
  BY LedgerStep
<1>2. /\ \A c \in Batches : c # current => ledger'[c] = ledger[c]
      /\ ledger'[current] = EntryEffect(ledger, signature, event)
  BY <1>1, LogKeepsStore DEF Logs, TypeOK
<1>3. b = current
  BY <1>2 DEF is_confirmed
<1>4. BatchOf(signature) = current /\ ledger[current] \in BatchProgress
  BY <1>1, <1>3 DEF Logs, Inv, RunInv, LoopInv, TypeOK, FileTypeOK, LedgerProgress
<1>5. event # "BatchConfirmed" => EntryEffect(ledger, signature, event).confirmed = ledger[b].confirmed
  BY <1>3, <1>4 DEF EntryEffect, BatchProgress, BatchEvents
<1> QED
  BY <1>1, <1>2, <1>3, <1>5 DEF Logs, is_confirmed

\* Without a kill the entries about the recipients are written to the last.
LEMMA RecipientsGoOn ==
  ASSUME "crash" \notin Faults, pc = "recipients_confirmed", [Next]_vars
  PROVE  UNCHANGED <<pc, current, recipient>> \/ LogRecipientConfirmed
BY DEF Next, SessionStep, Start, StartUnreadable, Finish, SkipConfirmed, Reconcile,
       Sign, Prepare, Send, Mismatch, Submit, Poll, Rebroadcast, LogConfirmed,
       LogFailed, LogRecipientFailed, Crash, ClusterStep, vars, sessionVars

LEMMA ConfirmedGoesOn ==
  ASSUME "torn" \notin Faults, "crash" \notin Faults, pc = "confirmed", [Next]_vars
  PROVE  \/ UNCHANGED ledger
         \/ pc' = "recipients_confirmed" /\ recipient' = 1 /\ UNCHANGED current
BY DEF Next, SessionStep, Start, StartUnreadable, Finish, SkipConfirmed, Reconcile,
       Sign, Prepare, Send, Mismatch, Submit, Poll, Rebroadcast, LogConfirmed, AppendThen,
       LogFailed, LogRecipientConfirmed, LogRecipientFailed, Crash, ClusterStep, vars,
       fileVars, GoTo

LEMMA LoggedStep ==
  ASSUME "torn" \notin Faults, "crash" \notin Faults, Inv, TypeOK', LoggedInv, [Next]_vars
  PROVE  LoggedInv'
<1> SUFFICES ASSUME NEW b \in Batches, NEW r \in Recipients, is_confirmed(ledger', b)
             PROVE  \/ Logged(b, r)'
                    \/ b = current' /\ pc' = "recipients_confirmed" /\ recipient' <= r
  BY DEF LoggedInv
<1>1. CASE ~is_confirmed(ledger, b)
  <2>1. b = current /\ pc = "confirmed" /\ ledger' # ledger
    BY <1>1, ConfirmedByLog
  <2> QED
    BY <2>1, ConfirmedGoesOn DEF Recipients
<1>2. CASE Logged(b, r)
  BY <1>2, LogGrows DEF Logged
<1>3. CASE b = current /\ pc = "recipients_confirmed" /\ recipient <= r
  <2>1. CASE UNCHANGED <<pc, current, recipient>>
    BY <1>3, <2>1
  <2>2. CASE LogRecipientConfirmed
    <3> DEFINE e == RecipientEntry("RecipientConfirmed", signature, recipient)
    <3>1. e.event = "RecipientConfirmed" /\ e.recipient = recipient /\ e.batch = b
      BY <1>3 DEF RecipientEntry, Inv, RunInv, LoopInv
    <3>2. e \in recipientLog'
      BY <2>2, <3>1 DEF LogRecipientConfirmed, AppendThen, AppendEntry, Written, RecipientEvents
    <3>3. CASE r = recipient
      BY <3>1, <3>2, <3>3 DEF Logged
    <3>4. CASE recipient < r
      <4>1. recipient \in 0 .. BatchSize /\ r \in 1 .. BatchSize /\ BatchSize \in Nat
        BY DEF Inv, TypeOK, Recipients
      <4>2. recipient < BatchSize
        BY <3>4, <4>1
      <4>3. recipient' = recipient + 1 /\ UNCHANGED <<pc, current>>
        BY <2>2, <4>2 DEF LogRecipientConfirmed, AppendThen
      <4> QED
        BY <1>3, <3>4, <4>1, <4>3
    <3> QED
      BY <1>3, <3>3, <3>4 DEF Inv, TypeOK, Recipients
  <2> QED
    BY <1>3, <2>1, <2>2, RecipientsGoOn
<1> QED
  BY <1>1, <1>2, <1>3 DEF LoggedInv

\* No session runs after one that ended well, until the next is started.
OkIdle == outcome = "ok" => pc = "idle"

LEMMA OkIdleStep == ASSUME OkIdle, TypeOK, [Next]_vars PROVE OkIdle'
<1>1. CASE Finish
  BY <1>1 DEF Finish, End, OkIdle
<1>2. CASE ~Finish /\ outcome' = "ok"
  <2>1. outcome = "ok" /\ pc = "idle"
    BY <1>2, OkOnlyByFinish DEF OkIdle
  <2>2. CASE Start \/ StartUnreadable
    BY <1>2, <2>2 DEF Start, StartUnreadable
  <2>3. CASE ClusterStep \/ UNCHANGED vars
    BY <2>1, <2>3 DEF ClusterStep, vars, sessionVars, OkIdle
  <2> QED
    BY <2>1, <2>2, <2>3
    DEF Next, SessionStep, Finish, SkipConfirmed, Reconcile, Sign, Prepare, Send, Mismatch,
        Submit, Poll, Rebroadcast, LogConfirmed, LogFailed, LogRecipientConfirmed,
        LogRecipientFailed, Crash
<1> QED
  BY <1>1, <1>2 DEF OkIdle

\* When send_plan returns Ok, and no session was killed or lost a part of an
\* entry on the way there, append_batch_confirmed_entries (execution.rs:333)
\* has written an entry for every recipient of the plan, in this session or in
\* a former one.
THEOREM OkWasLogged ==
  ASSUME Faults \cap {"crash", "torn", "fork"} = {}
  PROVE  Spec => []OkMeansLogged
<1> DEFINE I == OkInv /\ LoggedInv /\ OkIdle
<1>0. "fork" \notin Faults /\ "torn" \notin Faults /\ "crash" \notin Faults
  OBVIOUS
<1>1. Init => I
  <2>1. Init => \A b \in Batches : ~is_confirmed(ledger, b)
    BY DEF Init, FileInit, EmptyProgress, is_confirmed
  <2> QED
    BY <2>1 DEF Init, SessionInit, OkInv, LoggedInv, OkIdle
<1>2. Inv /\ Inv' /\ I /\ [Next]_vars => I'
  <2> SUFFICES ASSUME Inv, Inv', I, [Next]_vars PROVE I'
    OBVIOUS
  <2>1. OkInv'
    BY OkStep DEF Inv
  <2>2. LoggedInv'
    BY <1>0, LoggedStep DEF Inv
  <2>3. OkIdle'
    BY OkIdleStep DEF Inv
  <2> QED
    BY <2>1, <2>2, <2>3
<1>3. I => OkMeansLogged
  BY DEF OkInv, LoggedInv, OkIdle, OkMeansLogged, Logged
<1> QED
  BY <1>0, <1>1, <1>2, <1>3, Invariance, PTL DEF Spec

-----------------------------------------------------------------------------
(* send_plan implements Distribution.                                      *)

\* Under Inv a batch was paid by the signature the ledger has, or not at all.
PaidOnce(b) ==
  /\ Paid[b] \in {0, 1}
  /\ Paid[b] = 1 <=> \E s \in Signatures : BatchOf(s) = b /\ tx[s] = "ok"

LEMMA PaidCount == NoDoublePay => \A b \in Batches : PaidOnce(b)
<1> SUFFICES ASSUME NoDoublePay, NEW b \in Batches PROVE PaidOnce(b)
  OBVIOUS
<1> USE DEF PaidOnce
<1>1. Paid[b] = Cardinality(PaidBy(b))
  BY DEF Paid
<1>2. CASE PaidBy(b) = {}
  <2>1. Cardinality(PaidBy(b)) = 0
    BY <1>2, FS_EmptySet
  <2> QED
    BY <1>1, <1>2, <2>1 DEF PaidBy
<1>3. CASE PaidBy(b) # {}
  <2>1. PICK s \in Signatures : BatchOf(s) = b /\ tx[s] = "ok"
    BY <1>3 DEF PaidBy
  <2>2. PaidBy(b) = {s}
    BY <2>1 DEF PaidBy, NoDoublePay
  <2>3. Cardinality(PaidBy(b)) = 1
    BY <2>2, FS_Singleton
  <2> QED
    BY <1>1, <2>1, <2>3
<1> QED
  BY <1>2, <1>3

AllPaidOnce == \A b \in Batches : PaidOnce(b)

LEMMA PaidCountNext == NoDoublePay => AllPaidOnce
  BY PaidCount DEF AllPaidOnce

\* A step of the cluster pays one batch, or none.
LEMMA PaidStep ==
  ASSUME Inv, NoDoublePay, NoDoublePay', UNCHANGED ledger,
         NEW t \in Signatures,
         \A s \in Signatures : s # t => (tx'[s] = "ok" <=> tx[s] = "ok"),
         tx[t] \notin {"unseen", "ok"}, ~Failed(t), tx'[t] = "ok"
  PROVE  Distribution!Pay(BatchOf(t))
<1> DEFINE b == BatchOf(t)
<1>1. b \in Batches
  BY SignatureParts
<1>2. in_flight_signature(ledger, b) = t
  BY DEF Inv, StoreInv, WriteAhead
<1>3. Paid[b] = 0
  <2>1. ~\E s \in Signatures : BatchOf(s) = b /\ tx[s] = "ok"
    BY <1>2 DEF Inv, StoreInv, WriteAhead, Failed
  <2> QED
    BY <1>1, <2>1, PaidCount DEF PaidOnce
<1>4. Paid' = [Paid EXCEPT ![b] = 1]
  <2>1. Paid'[b] = 1
    <3>1. AllPaidOnce'
      BY PaidCountNext, PTL
    <3> QED
      BY <1>1, <3>1 DEF AllPaidOnce, PaidOnce
  <2>2. \A c \in Batches : c # b => PaidBy(c)' = PaidBy(c)
    BY DEF PaidBy
  <2>3. \A c \in Batches : c # b => Paid'[c] = Paid[c]
    BY <2>2 DEF Paid
  <2> QED
    BY <2>1, <2>3 DEF Paid
<1>5. 1 .. (b - 1) \subseteq Recorded
  BY <1>1 DEF Inv, StoreInv, InOrder, Recorded, Batches
<1>6. Recorded' = Recorded
  BY DEF Recorded, is_confirmed
<1> QED
  BY <1>3, <1>4, <1>5, <1>6 DEF Distribution!Pay

\* The cluster's steps, one by one.
LEMMA ClusterRefines ==
  ASSUME "fork" \notin Faults, Inv, NoDoublePay, NoDoublePay', UNCHANGED ledger, ChainNext
  PROVE  [Distribution!Next]_<<Paid, Recorded>>
<1>1. CASE \A s \in Signatures : tx'[s] = "ok" <=> tx[s] = "ok"
  <2>1. \A b \in Batches : PaidBy(b)' = PaidBy(b)
    BY <1>1 DEF PaidBy
  <2>2. UNCHANGED <<Paid, Recorded>>
    BY <2>1 DEF Paid, Recorded, is_confirmed
  <2> QED
    BY <2>2
<1>2. ASSUME NEW t \in Signatures, tx[t] = "processed_ok",
             tx' = [tx EXCEPT ![t] = "ok"]
      PROVE  Distribution!Next
  <2>1. tx \in [Signatures -> TxStates]
    BY DEF Inv, TypeOK, ChainTypeOK
  <2>2. Distribution!Pay(BatchOf(t))
    BY <1>2, <2>1, PaidStep DEF Failed
  <2> QED
    BY <2>2, SignatureParts DEF Distribution!Next, Distribution!Batches, Batches
<1>3. \/ \A s \in Signatures : tx'[s] = "ok" <=> tx[s] = "ok"
      \/ \E t \in Signatures : tx[t] = "processed_ok" /\ tx' = [tx EXCEPT ![t] = "ok"]
  BY DEF ChainNext, NewBlockhash, Process, Confirm, Drop, Rollback, SetTx,
     Inv, TypeOK, ChainTypeOK
<1> QED
  BY <1>1, <1>2, <1>3

\* A BatchConfirmed entry records a batch that was paid; the other entries,
\* and the requests, change neither count.
LEMMA SessionRefines ==
  ASSUME Inv, NoDoublePay, TypeOK',
         \A s \in Signatures : tx'[s] = "ok" <=> tx[s] = "ok",
         UNCHANGED ledger \/ \E event \in BatchEvents : Logs(event)
  PROVE  [Distribution!Next]_<<Paid, Recorded>>
<1>1. UNCHANGED Paid
  <2>1. \A b \in Batches : PaidBy(b)' = PaidBy(b)
    BY DEF PaidBy
  <2> QED
    BY <2>1 DEF Paid
<1>2. CASE UNCHANGED ledger
  BY <1>1, <1>2 DEF Recorded, is_confirmed
<1>3. ASSUME NEW event \in BatchEvents, Logs(event)
      PROVE  [Distribution!Next]_<<Paid, Recorded>>
  <2>1. /\ \A c \in Batches : c # current => ledger'[c] = ledger[c]
        /\ ledger'[current] = EntryEffect(ledger, signature, event)
    BY <1>3, LogKeepsStore DEF Logs, TypeOK
  <2>2. /\ current \in Batches /\ signature \in Signatures /\ BatchOf(signature) = current
        /\ ledger[current] \in BatchProgress
        /\ pc = "confirmed" => tx[signature] = "ok"
    BY <1>3 DEF Logs, Inv, TypeOK, FileTypeOK, LedgerProgress, SessionInv, RunInv,
       LoopInv, SignatureInv
  <2>3. CASE event = "BatchConfirmed"
    <3>1. is_confirmed(ledger', current)
      BY <2>1, <2>2, <2>3, SignatureParts DEF EntryEffect, is_confirmed, BatchProgress
    <3>2. Recorded' = Recorded \cup {current}
      BY <2>1, <2>2, <3>1 DEF Recorded, is_confirmed
    <3>3. Paid[current] = 1
      BY <1>3, <2>2, <2>3, PaidCount DEF PaidOnce, Logs
    <3>4. Distribution!Record(current)
      BY <1>1, <3>2, <3>3 DEF Distribution!Record
    <3> QED
      BY <2>2, <3>4 DEF Distribution!Next, Distribution!Batches, Batches
  <2>4. CASE event # "BatchConfirmed"
    <3>1. ledger'[current].confirmed = ledger[current].confirmed
      BY <2>1, <2>2, <2>4 DEF EntryEffect, BatchProgress, BatchEvents
    <3>2. Recorded' = Recorded
      BY <2>1, <3>1 DEF Recorded, is_confirmed
    <3> QED
      BY <1>1, <3>2
  <2> QED
    BY <2>3, <2>4
<1> QED
  BY <1>2, <1>3

\* A step of the session or of the environment leaves every result as it is,
\* or is a step of the cluster that leaves the ledger as it is.
LEMMA WhoPays ==
  ASSUME Inv, [Next]_vars
  PROVE  \/ \A s \in Signatures : tx'[s] = "ok" <=> tx[s] = "ok"
         \/ ChainNext /\ UNCHANGED ledger
<1>0. \A s \in Signatures : Accept(s) =>
         \A r \in Signatures : tx'[r] = "ok" <=> tx[r] = "ok"
  BY DEF Accept, Inv, TypeOK, ChainTypeOK
<1>1. CASE Start \/ StartUnreadable \/ Finish \/ SkipConfirmed \/ Reconcile \/ Sign \/ Poll
  BY <1>1 DEF Start, StartUnreadable, Finish, SkipConfirmed, Reconcile, Sign, Poll, chainVars
<1>2. CASE \/ Prepare \/ Mismatch \/ Submit \/ LogConfirmed \/ LogRecipientConfirmed
           \/ LogFailed \/ LogRecipientFailed
  BY <1>2 DEF Prepare, Mismatch, Submit, LogConfirmed, LogRecipientConfirmed,
     LogFailed, LogRecipientFailed, AppendThen, chainVars
<1>3. CASE Send \/ Rebroadcast
  <2>1. signature \in Signatures
    BY <1>3 DEF Send, Rebroadcast, Inv, SessionInv
  <2>2. Accept(signature) \/ UNCHANGED tx
    BY <1>3 DEF Send, Rebroadcast, SendAnswers, SendError
  <2> QED
    BY <2>1, <2>2, <1>0
<1>4. CASE Crash \/ ClusterStep \/ UNCHANGED vars
  BY <1>4 DEF Crash, ClusterStep, vars, chainVars, fileVars
<1> QED
  BY <1>1, <1>2, <1>3, <1>4 DEF Next, SessionStep

\* send_plan with its ledger, on a cluster without forks, pays the batches in
\* their order, each at most once, and each only after the ledger recorded
\* the ones before it.
THEOREM Refinement ==
  ASSUME "fork" \notin Faults PROVE Spec => ImplementsDistribution
<1>1. Init => Distribution!Init
  <2> SUFFICES ASSUME Init PROVE Distribution!Init
    OBVIOUS
  <2>1. \A b \in Batches : PaidBy(b) = {}
    BY DEF Init, ChainInit, PaidBy
  <2>2. \A b \in Batches : Cardinality(PaidBy(b)) = 0
    BY <2>1, FS_EmptySet
  <2>3. Recorded = {}
    BY DEF Init, FileInit, EmptyProgress, Recorded, is_confirmed
  <2> QED
    BY <2>2, <2>3 DEF Distribution!Init, Paid, Distribution!Batches, Batches
<1>2. Inv /\ Inv' /\ NoDoublePay /\ NoDoublePay' /\ [Next]_vars
        => [Distribution!Next]_<<Paid, Recorded>>
  <2> SUFFICES ASSUME Inv, Inv', NoDoublePay, NoDoublePay', [Next]_vars
               PROVE  [Distribution!Next]_<<Paid, Recorded>>
    OBVIOUS
  <2>1. TypeOK'
    BY DEF Inv
  <2> QED
    BY <2>1, WhoPays, LedgerStep, ClusterRefines, SessionRefines
<1> QED
  BY <1>1, <1>2, Invariance, PaysAtMostOnce, PTL
  DEF Spec, ImplementsDistribution, Distribution!Spec

-----------------------------------------------------------------------------
(***************************************************************************)
(* SharedRun: what any number of processes on one run may rely on.  Most   *)
(* of Inv is lost here: what a session has read of the ledger may be old,  *)
(* a batch may be in flight more than once and out of order, and the file  *)
(* may not be readable any more.  What is left is that nobody says what is *)
(* not so.                                                                 *)
(***************************************************************************)

\* What a LedgerProgress says is so, whoever wrote it and however old it is.
TrueOf(p, b) ==
  /\ p[b].expected_signature # NoSignature => BatchOf(p[b].expected_signature) = b
  /\ p[b].submitted_signature # NoSignature => BatchOf(p[b].submitted_signature) = b
  /\ is_confirmed(p, b) => BatchOf(p[b].confirmed) = b /\ tx[p[b].confirmed] = "ok"

TrueProgress(p) == \A b \in Batches : TrueOf(p, b)

PaidBatch(b) == \E s \in Signatures : BatchOf(s) = b /\ tx[s] = "ok"

\* What the session knows of the signature it works on, and of its loop.
KnowsVerdict ==
  /\ pc \notin {"idle", "batch"} => BatchOf(signature) = current
  /\ pc \in {"confirmed", "recipients_confirmed"} => tx[signature] = "ok"
  /\ pc \in {"failed", "recipients_failed"} => Failed(signature)

PassedPaid == pc # "idle" => \A b \in Batches : b < current => PaidBatch(b)

SharedFile == TrueProgress(ledger) /\ RecipientLogTrue
SharedSession == TrueProgress(progress) /\ KnowsVerdict /\ PassedPaid /\ OkMeansPaid

\* While the session is in an append the file ends with it, or is spoiled.
WritingInv ==
  /\ writing \in Writings
  /\ writing # "none" => pc \notin {"idle", "batch"}
  /\ writing = "entry" => tail \in {"half", "corrupt"}
  /\ writing = "line" => tail \in {"open", "corrupt"}

SharedInv == TypeOK /\ SessionInv /\ SharedFile /\ SharedSession

-----------------------------------------------------------------------------
(* What is so stays so.                                                    *)

LEMMA TrueStays ==
  ASSUME NEW p \in LedgerProgress, TrueProgress(p), \A s \in Signatures : TxKeeps(s)
  PROVE  \A b \in Batches :
           /\ p[b].expected_signature # NoSignature => BatchOf(p[b].expected_signature) = b
           /\ p[b].submitted_signature # NoSignature => BatchOf(p[b].submitted_signature) = b
           /\ is_confirmed(p, b) => BatchOf(p[b].confirmed) = b /\ tx'[p[b].confirmed] = "ok"
<1> SUFFICES ASSUME NEW b \in Batches, is_confirmed(p, b) PROVE tx'[p[b].confirmed] = "ok"
  BY DEF TrueProgress, TrueOf
<1>1. p[b].confirmed \in Signatures
  BY DEF is_confirmed, LedgerProgress, BatchProgress, OptSignature
<1> QED
  BY <1>1 DEF TrueProgress, TrueOf, TxKeeps

\* The cluster and the requests of others leave what was known as it was.
LEMMA SharedStays ==
  ASSUME SharedInv, UNCHANGED <<ledger, recipientLog, sessionVars>>,
         \A s \in Signatures : TxKeeps(s)
  PROVE  SharedFile' /\ SharedSession'
<1>1. ledger \in LedgerProgress /\ progress \in LedgerProgress
  BY DEF SharedInv, TypeOK, FileTypeOK
<1>2. TrueProgress(ledger)' /\ TrueProgress(progress)'
  BY <1>1, TrueStays DEF SharedInv, SharedFile, SharedSession, sessionVars, TrueProgress, TrueOf
<1>3. RecipientLogTrue'
  BY LogStays DEF SharedInv, SharedFile, TypeOK
<1>4. \A b \in Batches : PaidBatch(b) => PaidBatch(b)'
  BY DEF PaidBatch, TxKeeps
<1>5. KnowsVerdict'
  BY DEF KnowsVerdict, SharedInv, SharedSession, SessionInv, sessionVars, TxKeeps
<1>6. PassedPaid' /\ OkMeansPaid'
  BY <1>4 DEF PassedPaid, OkMeansPaid, PaidBatch, SharedInv, SharedSession, sessionVars
<1> QED
  BY <1>2, <1>3, <1>5, <1>6 DEF SharedFile, SharedSession

\* A true entry about a batch keeps a progress true.
LEMMA TrueApply ==
  ASSUME NEW p \in LedgerProgress, TrueProgress(p), NEW s \in Signatures,
         NEW event \in BatchEvents, event = "BatchConfirmed" => tx[s] = "ok"
  PROVE  TrueProgress(apply(p, BatchEntry(event, s)))
<1> DEFINE q == apply(p, BatchEntry(event, s))
<1>1. q[BatchOf(s)] = EntryEffect(p, s, event)
  BY ApplyEffect
<1>2. \A c \in Batches : c # BatchOf(s) => q[c] = p[c]
  BY ApplyEffect
<1>3. p[BatchOf(s)] \in BatchProgress /\ BatchOf(s) \in Batches
  BY SignatureParts DEF LedgerProgress
<1> HIDE DEF q
<1>4. TrueOf(q, BatchOf(s))
  <2>1. TrueOf(p, BatchOf(s))
    BY <1>3 DEF TrueProgress
  <2>2. CASE event \in {"BatchPrepared", "BatchSignatureMismatch"}
    BY <1>1, <1>3, <2>1, <2>2 DEF EntryEffect, TrueOf, BatchProgress, is_confirmed
  <2>3. CASE event = "BatchSubmitted"
    BY <1>1, <1>3, <2>1, <2>3 DEF EntryEffect, TrueOf, BatchProgress, is_confirmed
  <2>4. CASE event = "BatchConfirmed"
    BY <1>1, <1>3, <2>1, <2>4 DEF EntryEffect, TrueOf, BatchProgress, is_confirmed
  <2>5. CASE event = "BatchFailed"
    BY <1>1, <1>3, <2>1, <2>5 DEF EntryEffect, TrueOf, BatchProgress, is_confirmed
  <2> QED
    BY <2>2, <2>3, <2>4, <2>5 DEF BatchEvents
<1>5. \A c \in Batches : c # BatchOf(s) => TrueOf(q, c)
  BY <1>2 DEF TrueProgress, TrueOf, is_confirmed
<1> QED
  BY <1>4, <1>5 DEF TrueProgress, q

-----------------------------------------------------------------------------
(* The file: any true entry, of this session or of another.                *)

LEMMA BatchEntryIsTrue ==
  ASSUME TypeOK, SharedFile, UNCHANGED tx, NEW s \in Signatures, NEW event \in BatchEvents,
         event = "BatchConfirmed" => tx[s] = "ok", Written(BatchEntry(event, s))
  PROVE  SharedFile'
<1>1. ledger \in LedgerProgress /\ TrueProgress(ledger)
  BY DEF TypeOK, FileTypeOK, SharedFile
<1>2. UNCHANGED recipientLog /\ ledger' = apply(ledger, BatchEntry(event, s))
  BY DEF Written, BatchEntry, RecipientEvents, BatchEvents
<1>3. TrueProgress(apply(ledger, BatchEntry(event, s)))
  BY <1>1, TrueApply
<1>4. TrueProgress(ledger)'
  BY <1>2, <1>3 DEF TrueProgress, TrueOf, is_confirmed
<1>5. RecipientLogTrue'
  BY <1>2 DEF SharedFile, RecipientLogTrue, Failed
<1> QED
  BY <1>4, <1>5 DEF SharedFile

LEMMA RecipientEntryIsTrue ==
  ASSUME TypeOK, SharedFile, UNCHANGED tx, NEW entry \in RecipientLedgerEntry,
         entry.event = "RecipientConfirmed" => tx[entry.signature] = "ok",
         entry.event = "RecipientFailed" => Failed(entry.signature), Written(entry)
  PROVE  SharedFile'
<1>1. entry.event \in RecipientEvents
  BY DEF RecipientLedgerEntry
<1>2. apply(ledger, entry) = ledger
  BY <1>1 DEF apply, RecipientEvents
<1>3. ledger' = ledger /\ recipientLog' = recipientLog \cup {entry}
  BY <1>1, <1>2 DEF Written
<1>4. TrueProgress(ledger)'
  BY <1>3 DEF SharedFile, TrueProgress, TrueOf, is_confirmed
<1>5. RecipientLogTrue'
  BY <1>1, <1>3 DEF SharedFile, RecipientLogTrue, Failed, RecipientEvents
<1> QED
  BY <1>4, <1>5 DEF SharedFile

\* Every true entry is one of the two.
LEMMA TruthfulEntry ==
  ASSUME TypeOK, SharedFile, UNCHANGED tx, NEW entry \in LedgerEntry, Truthful(entry),
         Written(entry)
  PROVE  SharedFile'
<1>1. CASE entry \in BatchLedgerEntry
  <2>1. /\ entry.event \in BatchEvents /\ entry.signature \in Signatures
        /\ entry = BatchEntry(entry.event, entry.signature)
    BY <1>1 DEF BatchLedgerEntry, BatchEntry, Truthful
  <2>2. entry.event = "BatchConfirmed" => tx[entry.signature] = "ok"
    BY DEF Truthful
  <2> QED
    BY <2>1, <2>2, BatchEntryIsTrue
<1>2. CASE entry \in RecipientLedgerEntry
  BY <1>2, RecipientEntryIsTrue DEF Truthful
<1> QED
  BY <1>1, <1>2 DEF LedgerEntry

\* A write of whatever process: the beginning of an entry, its end, or its
\* newline.
TruthfulWrite ==
  /\ \/ BeginEntry
     \/ \E entry \in LedgerEntry : Truthful(entry) /\ EndEntry(entry)
     \/ EndLine
  /\ UNCHANGED chainVars

LEMMA WriteType ==
  ASSUME TypeOK, TruthfulWrite
  PROVE  ChainTypeOK' /\ FileTypeOK'
<1>1. ChainTypeOK'
  BY DEF TruthfulWrite, chainVars, TypeOK, ChainTypeOK
<1>2. tail' \in Tails
  BY DEF TruthfulWrite, BeginEntry, EndLine, EndEntry, fileVars, TypeOK, FileTypeOK, Tails
<1>3. CASE UNCHANGED <<ledger, recipientLog>>
  BY <1>1, <1>2, <1>3 DEF TypeOK, FileTypeOK
<1>4. CASE \E entry \in LedgerEntry : Written(entry)
  <2>1. PICK entry \in LedgerEntry : Written(entry)
    BY <1>4
  <2>2. apply(ledger, entry) \in LedgerProgress
    BY ApplyType DEF TypeOK, FileTypeOK
  <2>3. entry.event \in RecipientEvents => entry \in RecipientLedgerEntry
    BY DEF LedgerEntry, BatchLedgerEntry, RecipientEvents, BatchEvents
  <2>4. ledger' \in LedgerProgress /\ recipientLog' \subseteq RecipientLedgerEntry
    BY <2>1, <2>2, <2>3 DEF Written, TypeOK, FileTypeOK
  <2> QED
    BY <1>1, <1>2, <2>4 DEF FileTypeOK
<1> QED
  BY <1>3, <1>4 DEF TruthfulWrite, BeginEntry, EndEntry, EndLine, fileVars

LEMMA SameTx == UNCHANGED tx => \A s \in Signatures : TxKeeps(s)
BY DEF TxKeeps, Failed

LEMMA FileStays ==
  ASSUME TypeOK, SharedFile, UNCHANGED <<ledger, recipientLog>>,
         \A s \in Signatures : TxKeeps(s)
  PROVE  SharedFile'
<1>1. TrueProgress(ledger)'
  BY TrueStays DEF SharedFile, TypeOK, FileTypeOK, TrueProgress, TrueOf
<1> QED
  BY <1>1, LogStays DEF SharedFile, TypeOK

\* Whoever writes, what the file says is so.
LEMMA WriteIsTrue ==
  ASSUME TypeOK, SharedFile, TruthfulWrite
  PROVE  SharedFile' /\ UNCHANGED tx
<1>1. UNCHANGED tx
  BY DEF TruthfulWrite, chainVars
<1>2. CASE UNCHANGED <<ledger, recipientLog>>
  BY <1>1, <1>2, SameTx, FileStays
<1>3. CASE \E entry \in LedgerEntry : Truthful(entry) /\ Written(entry)
  BY <1>1, <1>3, TruthfulEntry
<1> QED
  BY <1>1, <1>2, <1>3 DEF TruthfulWrite, BeginEntry, EndLine, EndEntry, fileVars

-----------------------------------------------------------------------------
(* The session.                                                            *)

LEMMA EndIsTrue ==
  ASSUME NEW result, End(result), result # "ok"
  PROVE  SharedSession'
BY DEF End, SharedSession, TrueProgress, TrueOf, EmptyProgress, is_confirmed,
       KnowsVerdict, PassedPaid, OkMeansPaid

\* A step that keeps what the session has read, and its batch.
LEMMA SameProgress ==
  ASSUME SharedInv, UNCHANGED <<progress, current, outcome>>, pc # "idle", KnowsVerdict',
         \A s \in Signatures : TxKeeps(s)
  PROVE  SharedSession'
<1>1. TrueProgress(progress)'
  BY TrueStays DEF SharedInv, SharedSession, TypeOK, TrueProgress, TrueOf
<1>2. \A b \in Batches : PaidBatch(b) => PaidBatch(b)'
  BY DEF PaidBatch, TxKeeps
<1>3. PassedPaid' /\ OkMeansPaid'
  BY <1>2 DEF SharedInv, SharedSession, PassedPaid, PaidBatch, OkMeansPaid
<1> QED
  BY <1>1, <1>3 DEF SharedSession

LEMMA SettleIsTrue ==
  ASSUME SharedInv, pc # "idle", NEW s \in Signatures, BatchOf(s) = current,
         NEW status \in StatusAnswers(s), Verdict(status), Settle(status),
         signature' = s, UNCHANGED tx
  PROVE  SharedSession'
<1>1. (status.err => Failed(s)) /\ (TerminalSuccess(status) => tx[s] = "ok")
  BY StatusTruth DEF SharedInv, TypeOK
<1>2. KnowsVerdict'
  BY <1>1 DEF Settle, KnowsVerdict, Verdict, Failed
<1> QED
  BY <1>2, SameProgress, SameTx DEF Settle

\* The session records what it did in its own LedgerProgress.
LEMMA NotedProgress ==
  ASSUME SharedInv, UNCHANGED <<tx, current, outcome>>, pc # "idle", KnowsVerdict',
         NEW s \in Signatures, NEW event \in BatchEvents \ {"BatchConfirmed"},
         progress' = apply(progress, BatchEntry(event, s))
  PROVE  SharedSession'
<1>1. TrueProgress(apply(progress, BatchEntry(event, s)))
  BY TrueApply DEF SharedInv, SharedSession, TypeOK
<1>2. TrueProgress(progress)'
  BY <1>1 DEF TrueProgress, TrueOf, is_confirmed
<1>3. PassedPaid' /\ OkMeansPaid'
  BY DEF SharedInv, SharedSession, PassedPaid, PaidBatch, OkMeansPaid
<1> QED
  BY <1>2, <1>3 DEF SharedSession

LEMMA WorkingSignature ==
  ASSUME SharedInv, pc \notin {"idle", "batch"}
  PROVE  /\ signature \in Signatures /\ current \in Batches /\ BatchOf(signature) = current
         /\ pc \in {"confirmed", "recipients_confirmed"} => tx[signature] = "ok"
         /\ pc \in {"failed", "recipients_failed"} => Failed(signature)
BY DEF SharedInv, SharedSession, SessionInv, KnowsVerdict

\* sendTransaction is asked for the signature the session works on.
LEMMA RequestIsTrue ==
  ASSUME SharedInv, Send \/ Rebroadcast
  PROVE  SharedFile' /\ SharedSession'
<1>1. pc \in {"send", "rebroadcast"} /\ pc # "idle" /\ pc \notin {"idle", "batch"}
  BY DEF Send, Rebroadcast
<1>2. signature \in Signatures /\ BatchOf(signature) = current
  BY <1>1, WorkingSignature
<1>3. Accept(signature) \/ UNCHANGED tx
  BY DEF Send, SendAnswers, SendError, Rebroadcast
<1>4. \A s \in Signatures : TxKeeps(s)
  BY <1>2, <1>3, AcceptKeeps DEF SharedInv, TypeOK
<1>5. UNCHANGED <<ledger, recipientLog>>
  BY DEF Send, Rebroadcast, fileVars
<1>6. \/ /\ UNCHANGED <<progress, current, outcome, signature>>
         /\ pc' \in {"submit", "mismatch", "poll"}
      \/ \E result \in {"rpc", "timeout", "mismatch"} : End(result)
  BY DEF Send, SendAnswers, GoTo, Rebroadcast, NextAttempt
<1>7. SharedSession'
  <2>1. CASE \E result \in {"rpc", "timeout", "mismatch"} : End(result)
    BY <2>1, EndIsTrue
  <2>2. CASE /\ UNCHANGED <<progress, current, outcome, signature>>
             /\ pc' \in {"submit", "mismatch", "poll"}
    <3>1. KnowsVerdict'
      BY <1>2, <2>2 DEF KnowsVerdict
    <3> QED
      BY <1>1, <1>4, <2>2, <3>1, SameProgress
  <2> QED
    BY <1>6, <2>1, <2>2
<1> QED
  BY <1>4, <1>5, <1>7, FileStays DEF SharedInv

\* The steps that read only: the loop, and the statuses.
LEMMA ReadIsTrue ==
  ASSUME SharedInv, SkipConfirmed \/ Reconcile \/ Sign \/ Poll \/ Finish
  PROVE  SharedFile' /\ SharedSession'
<1>1. UNCHANGED tx /\ UNCHANGED <<ledger, recipientLog>> /\ pc # "idle"
  BY DEF SkipConfirmed, Reconcile, Sign, Poll, Finish, fileVars, chainVars
<1>2. SharedFile'
  BY <1>1, SameTx, FileStays DEF SharedInv
<1> SUFFICES SharedSession'
  BY <1>2
<1>3. CASE Finish
  <2>1. \A b \in Batches : PaidBatch(b)
    BY <1>1, <1>3, PlanAssumption DEF Finish, SharedInv, SharedSession, PassedPaid, TypeOK, Batches
  <2> QED
    BY <1>3, <2>1 DEF Finish, End, SharedSession, TrueProgress, TrueOf, EmptyProgress,
       is_confirmed, KnowsVerdict, PassedPaid, OkMeansPaid, PaidBatch, chainVars
<1>4. CASE SkipConfirmed
  <2>1. current \in Batches
    BY <1>4 DEF SkipConfirmed, SharedInv, SessionInv, TypeOK, Batches
  <2>2. PaidBatch(current)
    BY <1>4, <2>1 DEF SkipConfirmed, SharedInv, SharedSession, TrueProgress, TrueOf,
       PaidBatch, TypeOK, LedgerProgress, BatchProgress, OptSignature, is_confirmed
  <2>3. \A b \in Batches : b < current' => PaidBatch(b)
    BY <1>4, <2>1, <2>2 DEF SkipConfirmed, SharedInv, SharedSession, PassedPaid, Batches
  <2>4. PassedPaid' /\ OkMeansPaid'
    BY <1>1, <1>4, <2>3 DEF SkipConfirmed, PassedPaid, PaidBatch, OkMeansPaid, SharedInv,
       SharedSession
  <2>5. TrueProgress(progress)' /\ KnowsVerdict'
    BY <1>1, <1>4 DEF SkipConfirmed, SharedInv, SharedSession, TrueProgress, TrueOf,
       is_confirmed, KnowsVerdict
  <2> QED
    BY <2>4, <2>5 DEF SharedSession
<1>5. CASE Sign
  <2>1. CASE RpcError
    BY <2>1, EndIsTrue DEF RpcError
  <2>2. CASE ~RpcError
    <3>1. current \in Batches
      BY <1>5 DEF Sign, SharedInv, SessionInv, TypeOK, Batches
    <3>2. PICK h \in RecentBlockhashes : signature' = SignBatch(current, h)
      BY <1>5, <2>2 DEF Sign
    <3>3. BatchOf(signature') = current
      BY <3>1, <3>2, SignatureParts DEF RecentBlockhashes
    <3>4. UNCHANGED <<progress, current, outcome>> /\ pc' = "prepare"
      BY <1>5, <2>2 DEF Sign, GoTo
    <3>5. KnowsVerdict'
      BY <3>3, <3>4 DEF KnowsVerdict
    <3> QED
      BY <1>1, <3>4, <3>5, SameTx, SameProgress
  <2> QED
    BY <2>1, <2>2
<1>6. CASE Reconcile
  <2> DEFINE s == in_flight_signature(progress, current)
  <2>1. current \in Batches
    BY <1>6 DEF Reconcile, SharedInv, SessionInv, TypeOK, Batches
  <2>2. s \in Signatures /\ BatchOf(s) = current
    BY <1>6, <2>1 DEF Reconcile, in_flight_signature, SharedInv, SharedSession, TrueProgress,
       TrueOf, TypeOK, LedgerProgress, BatchProgress, OptSignature
  <2>3. \/ \E result \in {"rpc", "pending"} : End(result)
        \/ \E status \in StatusAnswers(s) : Verdict(status) /\ Settle(status) /\ signature' = s
    BY <1>6 DEF Reconcile, RpcError, Unsettled
  <2> HIDE DEF s
  <2> QED
    BY <1>1, <2>2, <2>3, EndIsTrue, SettleIsTrue
<1>7. CASE Poll
  <2>1. signature \in Signatures /\ BatchOf(signature) = current
    BY <1>7, WorkingSignature DEF Poll
  <2>2. \/ \E result \in {"rpc", "timeout"} : End(result)
        \/ \E status \in StatusAnswers(signature) :
             Verdict(status) /\ Settle(status) /\ signature' = signature
        \/ UNCHANGED <<progress, current, outcome, signature>> /\ pc' \in {"poll", "rebroadcast"}
    BY <1>7 DEF Poll, RpcError, NextAttempt, GoTo
  <2>3. CASE UNCHANGED <<progress, current, outcome, signature>> /\ pc' \in {"poll", "rebroadcast"}
    <3>1. KnowsVerdict'
      BY <2>1, <2>3 DEF KnowsVerdict
    <3> QED
      BY <1>1, <2>3, <3>1, SameTx, SameProgress
  <2> QED
    BY <1>1, <2>1, <2>2, <2>3, EndIsTrue, SettleIsTrue
<1> QED
  BY <1>3, <1>4, <1>5, <1>6, <1>7

\* What the methods of a session record is what a reader of the entry would.
LEMMA RecordsAsRead ==
  ASSUME NEW p, NEW s
  PROVE  /\ apply(p, BatchEntry("BatchPrepared", s)) = record_batch_prepared(p, BatchOf(s), s)
         /\ apply(p, BatchEntry("BatchSubmitted", s)) = record_batch_submitted(p, BatchOf(s), s)
         /\ apply(p, BatchEntry("BatchConfirmed", s)) = record_batch_confirmed(p, BatchOf(s), s)
<1>1. ASSUME NEW e, e.batch = BatchOf(s), e.signature = s
      PROVE  /\ e.event = "BatchPrepared" => apply(p, e) = record_batch_prepared(p, BatchOf(s), s)
             /\ e.event = "BatchSubmitted" => apply(p, e) = record_batch_submitted(p, BatchOf(s), s)
             /\ e.event = "BatchConfirmed" => apply(p, e) = record_batch_confirmed(p, BatchOf(s), s)
  BY <1>1 DEF apply, RecipientEvents
<1>2. \A event : /\ BatchEntry(event, s).event = event
                 /\ BatchEntry(event, s).batch = BatchOf(s)
                 /\ BatchEntry(event, s).signature = s
  BY DEF BatchEntry
<1> QED
  BY <1>1, <1>2

\* What follows the append of each place.
Continues ==
  \/ pc = "prepare" /\ Prepared
  \/ pc = "mismatch" /\ End("mismatch")
  \/ pc = "submit" /\ Submitted
  \/ pc = "confirmed" /\ LoggedBatch("recipients_confirmed")
  \/ pc = "failed" /\ LoggedBatch("recipients_failed")
  \/ pc = "recipients_confirmed" /\ LoggedRecipientConfirmed
  \/ pc = "recipients_failed" /\ LoggedRecipientFailed

\* The three writes of an append of the session.
Begins == writing = "none" /\ writing' = "entry" /\ BeginEntry /\ UNCHANGED sessionVars
Ends ==
  /\ writing = "entry" /\ writing' = "line"
  /\ \E entry \in LedgerEntry : Truthful(entry) /\ EndEntry(entry)
  /\ UNCHANGED sessionVars
Breaks == writing = "line" /\ writing' = "none" /\ EndLine /\ Continues

\* What the session appends, it knows: however old its progress is.
LEMMA AppendIsHonest ==
  ASSUME SharedInv, SharedAppend
  PROVE  /\ pc \notin {"idle", "batch"}
         /\ Begins \/ Ends \/ Breaks
         /\ TruthfulWrite
<1>1. pc \notin {"idle", "batch"}
  BY DEF SharedAppend
<1>2. /\ signature \in Signatures
      /\ pc \in {"confirmed", "recipients_confirmed"} => tx[signature] = "ok"
      /\ pc \in {"failed", "recipients_failed"} => Failed(signature)
      /\ pc \in {"recipients_confirmed", "recipients_failed"} => recipient \in Recipients
  BY <1>1, WorkingSignature DEF SharedInv, SessionInv
<1> DEFINE True(entry) == entry \in LedgerEntry /\ Truthful(entry)
<1>3. ASSUME NEW event \in BatchEvents,
             event = "BatchConfirmed" => tx[signature] = "ok",
             event = "BatchFailed" => Failed(signature)
      PROVE  True(BatchEntry(event, signature))
  <2>1. BatchEntry(event, signature) \in LedgerEntry
    BY <1>2, EntryType
  <2>2. Truthful(BatchEntry(event, signature))
    BY <1>3 DEF Truthful, BatchEntry, BatchEvents
  <2> QED
    BY <2>1, <2>2
<1>4. ASSUME NEW event \in RecipientEvents, recipient \in Recipients,
             event = "RecipientConfirmed" => tx[signature] = "ok",
             event = "RecipientFailed" => Failed(signature)
      PROVE  True(RecipientEntry(event, signature, recipient))
  <2>1. RecipientEntry(event, signature, recipient) \in LedgerEntry
    BY <1>2, <1>4, EntryType
  <2>2. Truthful(RecipientEntry(event, signature, recipient))
    BY <1>4 DEF Truthful, RecipientEntry, RecipientEvents
  <2> QED
    BY <2>1, <2>2
<1> HIDE DEF True
<1>5. /\ True(BatchEntry("BatchPrepared", signature))
      /\ True(BatchEntry("BatchSignatureMismatch", signature))
      /\ True(BatchEntry("BatchSubmitted", signature))
      /\ pc = "confirmed" => True(BatchEntry("BatchConfirmed", signature))
      /\ pc = "failed" => True(BatchEntry("BatchFailed", signature))
      /\ pc = "recipients_confirmed" =>
           True(RecipientEntry("RecipientConfirmed", signature, recipient))
      /\ pc = "recipients_failed" =>
           True(RecipientEntry("RecipientFailed", signature, recipient))
  BY <1>2, <1>3, <1>4 DEF BatchEvents, RecipientEvents
<1>6. ASSUME NEW entry, True(entry), NEW next, Appending(entry, next), next => Continues
      PROVE  (Begins \/ Ends \/ Breaks) /\ TruthfulWrite
  <2>1. entry \in LedgerEntry /\ Truthful(entry)
    BY <1>6 DEF True
  <2> QED
    BY <1>6, <2>1 DEF Appending, Begins, Ends, Breaks, TruthfulWrite
<1>7. CASE pc = "prepare"
  BY <1>5, <1>6, <1>7 DEF SharedAppend, Continues
<1>8. CASE pc = "mismatch"
  BY <1>5, <1>6, <1>8 DEF SharedAppend, Continues
<1>9. CASE pc = "submit"
  BY <1>5, <1>6, <1>9 DEF SharedAppend, Continues
<1>10. CASE pc = "confirmed"
  BY <1>5, <1>6, <1>10 DEF SharedAppend, Continues
<1>11. CASE pc = "failed"
  BY <1>5, <1>6, <1>11 DEF SharedAppend, Continues
<1>12. CASE pc = "recipients_confirmed"
  BY <1>5, <1>6, <1>12 DEF SharedAppend, Continues
<1>13. CASE pc = "recipients_failed"
  BY <1>5, <1>6, <1>13 DEF SharedAppend, Continues
<1> QED
  BY <1>1, <1>7, <1>8, <1>9, <1>10, <1>11, <1>12, <1>13 DEF SharedAppend

LEMMA ContinuesType ==
  ASSUME TypeOK, SessionInv, Continues
  PROVE  SessionTypeOK' /\ SessionInv'
<1>1. SessionTypeOK /\ signature \in Signatures /\ current \in Batches
  BY TypeParts DEF Continues, SessionInv
<1>2. \A result \in Outcomes : End(result) => SessionTypeOK' /\ SessionInv'
  BY EndType
<1>3. CASE pc = "prepare" /\ Prepared
  BY <1>1, <1>3, RecordType DEF SessionTypeOK, SessionInv, GoTo, PCs
<1>4. CASE pc = "submit" /\ Submitted
  BY <1>1, <1>4, RecordType DEF SessionTypeOK, SessionInv, GoTo, PCs
<1>5. CASE pc = "mismatch" /\ End("mismatch")
  BY <1>2, <1>5 DEF Outcomes
<1>6. CASE \/ pc = "confirmed" /\ LoggedBatch("recipients_confirmed")
           \/ pc = "failed" /\ LoggedBatch("recipients_failed")
  BY <1>1, <1>6 DEF SessionTypeOK, SessionInv, GoTo, PCs, Recipients
<1>7. CASE pc = "recipients_confirmed" /\ LoggedRecipientConfirmed
  <2>1. CASE recipient < BatchSize
    BY <1>1, <1>7, <2>1 DEF SessionTypeOK, SessionInv, Recipients
  <2>2. CASE ~(recipient < BatchSize)
    <3>1. current + 1 \in 0 .. NumBatches + 1 /\ current + 1 # 0
      BY <1>1 DEF Batches
    <3>2. record_batch_confirmed(progress, current, signature) \in LedgerProgress
      BY <1>1, RecordType DEF SessionTypeOK
    <3> QED
      BY <1>1, <1>7, <2>2, <3>1, <3>2, SignatureParts
      DEF SessionTypeOK, SessionInv, GoTo, PCs
  <2> QED
    BY <2>1, <2>2
<1>8. CASE pc = "recipients_failed" /\ LoggedRecipientFailed
  BY <1>1, <1>2, <1>8 DEF Outcomes, SessionTypeOK, SessionInv, PCs, Recipients
<1> QED
  BY <1>3, <1>4, <1>5, <1>6, <1>7, <1>8 DEF Continues

LEMMA ContinuesIsTrue ==
  ASSUME SharedInv, Continues, UNCHANGED tx
  PROVE  SharedSession'
<1>2. pc # "idle" /\ pc \notin {"idle", "batch"}
  BY DEF Continues
<1>3. /\ signature \in Signatures /\ current \in Batches /\ BatchOf(signature) = current
      /\ pc \in {"confirmed", "recipients_confirmed"} => tx[signature] = "ok"
      /\ pc \in {"failed", "recipients_failed"} => Failed(signature)
  BY <1>2, WorkingSignature
<1> DEFINE Ended == \E result \in {"mismatch", "failed"} : End(result)
           Noted(event) == /\ progress' = apply(progress, BatchEntry(event, signature))
                           /\ pc' \in {"send", "poll"}
                           /\ UNCHANGED <<current, signature, outcome>>
           Kept == /\ UNCHANGED <<current, progress, signature, outcome>>
                   /\ \/ pc' = pc
                      \/ pc = "confirmed" /\ pc' = "recipients_confirmed"
                      \/ pc = "failed" /\ pc' = "recipients_failed"
           Left == /\ pc = "recipients_confirmed" /\ pc' = "batch"
                   /\ current' = current + 1 /\ UNCHANGED outcome
                   /\ progress' = record_batch_confirmed(progress, current, signature)
<1>4. Ended => SharedSession'
  BY EndIsTrue
<1>5. ASSUME NEW event \in {"BatchPrepared", "BatchSubmitted"}, Noted(event)
      PROVE  SharedSession'
  <2>1. KnowsVerdict'
    BY <1>3, <1>5 DEF KnowsVerdict
  <2>2. event \in BatchEvents \ {"BatchConfirmed"}
    BY DEF BatchEvents
  <2> QED
    BY <1>2, <1>3, <1>5, <2>1, <2>2, NotedProgress
<1>6. CASE Kept
  <2>1. KnowsVerdict'
    BY <1>3, <1>6 DEF KnowsVerdict, Failed
  <2> QED
    BY <1>2, <1>6, <2>1, SameTx, SameProgress
<1>7. CASE Left
  <2>1. tx[signature] = "ok" /\ PaidBatch(current)
    BY <1>3, <1>7 DEF PaidBatch
  <2>2. progress' = apply(progress, BatchEntry("BatchConfirmed", signature))
    BY <1>3, <1>7, RecordsAsRead
  <2>3. TrueProgress(apply(progress, BatchEntry("BatchConfirmed", signature)))
    BY <1>3, <2>1, TrueApply DEF SharedInv, SharedSession, TypeOK, BatchEvents
  <2>4. TrueProgress(progress)'
    BY <2>2, <2>3 DEF TrueProgress, TrueOf, is_confirmed
  <2>5. \A b \in Batches : b < current' => PaidBatch(b)
    BY <1>2, <1>3, <1>7, <2>1 DEF SharedInv, SharedSession, PassedPaid, Batches
  <2>6. PassedPaid' /\ OkMeansPaid' /\ KnowsVerdict'
    BY <1>7, <2>5 DEF PassedPaid, PaidBatch, OkMeansPaid, KnowsVerdict, SharedInv,
       SharedSession
  <2> QED
    BY <2>4, <2>6 DEF SharedSession
<1>8. Ended \/ Noted("BatchPrepared") \/ Noted("BatchSubmitted") \/ Kept \/ Left
  BY <1>3, RecordsAsRead DEF Continues, GoTo
<1> HIDE DEF Ended, Kept, Left, Noted
<1> QED
  BY <1>4, <1>5, <1>6, <1>7, <1>8

\* What the session has in memory is as true after a write of anybody.
LEMMA SessionStays ==
  ASSUME SharedInv, UNCHANGED <<sessionVars, tx>>
  PROVE  SharedSession'
BY DEF sessionVars, SharedInv, SharedSession, TrueProgress, TrueOf, is_confirmed, PassedPaid,
       PaidBatch, KnowsVerdict, Failed, OkMeansPaid

LEMMA AppendIsTrue ==
  ASSUME SharedInv, SharedAppend
  PROVE  SharedFile' /\ SharedSession'
<1>1. (Begins \/ Ends \/ Breaks) /\ TruthfulWrite
  BY AppendIsHonest
<1>2. SharedFile' /\ UNCHANGED tx
  BY <1>1, WriteIsTrue DEF SharedInv
<1>3. CASE Begins \/ Ends
  BY <1>2, <1>3, SessionStays DEF Begins, Ends
<1>4. CASE Breaks
  BY <1>2, <1>4, ContinuesIsTrue DEF Breaks
<1> QED
  BY <1>1, <1>2, <1>3, <1>4

-----------------------------------------------------------------------------
(* The theorems.                                                           *)

\* To the others a session is one of them: it leaves alone what they share,
\* writes a piece of a true entry that it has begun itself, or sends a
\* transaction of the plan.
LEMMA SessionIsOther ==
  ASSUME SharedInv, Session
  PROVE  \/ (UNCHANGED <<fileVars, chainVars>> \/ OtherSends) /\ writing' = "none"
         \/ TruthfulWrite /\ (Begins \/ Ends \/ Breaks)
<1>1. CASE SharedAppend
  BY <1>1, AppendIsHonest
<1>2. CASE Dies
  BY <1>2 DEF Dies
<1>3. CASE /\ SharedRequest
           /\ \/ Start \/ StartUnreadable \/ Finish \/ SkipConfirmed \/ Reconcile \/ Sign
              \/ Poll
  BY <1>3 DEF SharedRequest, Start, StartUnreadable, Finish, SkipConfirmed, Reconcile, Sign, Poll
<1>4. CASE SharedRequest /\ (Send \/ Rebroadcast)
  <2>1. signature \in Signatures
    BY <1>4, WorkingSignature DEF Send, Rebroadcast
  <2>2. UNCHANGED <<blockhash, fileVars>> /\ (Accept(signature) \/ UNCHANGED tx)
    BY <1>4 DEF Send, Rebroadcast, SendAnswers, SendError
  <2> QED
    BY <1>4, <2>1, <2>2 DEF OtherSends, chainVars, SharedRequest
<1> QED
  BY <1>1, <1>2, <1>3, <1>4 DEF Session, SharedRequest

LEMMA OthersWriteTruth == OtherWrites => TruthfulWrite
BY DEF OtherWrites, TruthfulWrite

LEMMA SharedTypeStep ==
  ASSUME SharedInv, [SharedNext]_sharedVars
  PROVE  TypeOK' /\ SessionInv'
<1>1. TypeOK /\ SessionInv
  BY DEF SharedInv
<1>2. CASE SharedRequest
  BY <1>1, <1>2, TypeStep DEF SharedRequest, Next, SessionStep
<1>3. CASE Dies
  <2>1. SessionTypeOK' /\ SessionInv'
    BY <1>3, EndType DEF Dies, Outcomes
  <2>2. ChainTypeOK' /\ FileTypeOK'
    BY <1>1, <1>3 DEF Dies, fileVars, chainVars, TypeOK, ChainTypeOK, FileTypeOK
  <2> QED
    BY <2>1, <2>2 DEF TypeOK, SessionTypeOK
<1>4. CASE SharedAppend
  <2>1. ChainTypeOK' /\ FileTypeOK'
    BY <1>1, <1>4, AppendIsHonest, WriteType
  <2>2. Continues \/ UNCHANGED sessionVars
    BY <1>4, AppendIsHonest DEF Begins, Ends, Breaks
  <2>3. SessionTypeOK' /\ SessionInv'
    BY <1>1, <2>2, ContinuesType DEF sessionVars, TypeOK, SessionTypeOK, SessionInv
  <2> QED
    BY <2>1, <2>3 DEF TypeOK, SessionTypeOK
<1>5. CASE OtherWrites /\ UNCHANGED sessionVars
  <2>1. ChainTypeOK' /\ FileTypeOK'
    BY <1>1, <1>5, OthersWriteTruth, WriteType
  <2> QED
    BY <1>1, <1>5, <2>1 DEF TypeOK, SessionInv, sessionVars
<1>6. CASE OtherSends /\ UNCHANGED sessionVars
  <2>1. ChainTypeOK' /\ FileTypeOK'
    BY <1>1, <1>6, ChainType DEF OtherSends, TypeOK, FileTypeOK, fileVars
  <2> QED
    BY <1>1, <1>6, <2>1 DEF TypeOK, SessionInv, sessionVars
<1>7. CASE ClusterStep \/ UNCHANGED sharedVars
  BY <1>1, <1>7, TypeStep DEF Next, sharedVars
<1> QED
  BY <1>2, <1>3, <1>4, <1>5, <1>6, <1>7 DEF SharedNext, Session, Others

LEMMA TrueEmpty == TrueProgress(EmptyProgress)
BY DEF TrueProgress, TrueOf, EmptyProgress, is_confirmed

LEMMA SharedStart == SharedInit => SharedInv /\ WritingInv
<1> SUFFICES ASSUME SharedInit PROVE SharedInv /\ WritingInv
  OBVIOUS
<1>1. TypeOK /\ SessionInv
  BY TypeInit DEF SharedInit
<1>2. SharedFile
  BY TrueEmpty DEF SharedInit, Init, FileInit, SharedFile, RecipientLogTrue
<1>3. SharedSession
  BY TrueEmpty DEF SharedInit, Init, SessionInit, SharedSession, KnowsVerdict, PassedPaid,
     OkMeansPaid
<1>4. WritingInv
  BY DEF SharedInit, WritingInv, Writings
<1> QED
  BY <1>1, <1>2, <1>3, <1>4 DEF SharedInv

LEMMA SharedStep ==
  ASSUME "fork" \notin Faults, SharedInv, [SharedNext]_sharedVars
  PROVE  SharedInv'
<1>1. TypeOK' /\ SessionInv'
  BY SharedTypeStep
<1> SUFFICES SharedFile' /\ SharedSession'
  BY <1>1 DEF SharedInv
<1>2. CASE Start
  <2>1. UNCHANGED <<ledger, recipientLog, tx>> /\ progress' = ledger
    BY <1>2 DEF Start, fileVars, chainVars
  <2>2. SharedFile'
    BY <2>1, SameTx, FileStays DEF SharedInv
  <2>3. TrueProgress(progress)'
    BY <2>1 DEF SharedInv, SharedFile, TrueProgress, TrueOf, is_confirmed
  <2>4. PassedPaid' /\ KnowsVerdict' /\ OkMeansPaid'
    BY <1>2, PlanAssumption DEF Start, PassedPaid, KnowsVerdict, OkMeansPaid, Batches
  <2> QED
    BY <2>2, <2>3, <2>4 DEF SharedSession
<1>3. CASE StartUnreadable
  <2>1. /\ UNCHANGED <<ledger, recipientLog, tx, progress, current, pc, signature>>
        /\ outcome' = "unreadable"
    BY <1>3 DEF StartUnreadable, fileVars, chainVars
  <2>2. SharedFile'
    BY <2>1, SameTx, FileStays DEF SharedInv
  <2> QED
    BY <2>1, <2>2 DEF SharedInv, SharedSession, TrueProgress, TrueOf, is_confirmed,
       PassedPaid, PaidBatch, KnowsVerdict, Failed, OkMeansPaid
<1>4. CASE \/ SkipConfirmed \/ Reconcile \/ Sign \/ Poll \/ Finish
           \/ Send \/ Rebroadcast
  BY <1>4, ReadIsTrue, RequestIsTrue
<1>5. CASE SharedAppend
  BY <1>5, AppendIsTrue
<1>6. CASE Dies
  <2>1. UNCHANGED <<ledger, recipientLog, tx>> /\ End("stopped")
    BY <1>6 DEF Dies, fileVars, chainVars
  <2> QED
    BY <2>1, EndIsTrue, SameTx, FileStays DEF SharedInv
<1>7. CASE ClusterStep
  BY <1>7, ClusterKeeps, SharedStays DEF ClusterStep, fileVars, SharedInv, TypeOK
<1>8. CASE OtherWrites /\ UNCHANGED sessionVars
  BY <1>8, OthersWriteTruth, WriteIsTrue, SessionStays DEF SharedInv
<1>9. CASE OtherSends /\ UNCHANGED sessionVars
  BY <1>9, AcceptKeeps, SharedStays DEF OtherSends, fileVars, SharedInv, TypeOK
<1>10. CASE UNCHANGED sharedVars
  <2>1. UNCHANGED <<ledger, recipientLog, sessionVars, tx>>
    BY <1>10 DEF sharedVars, vars, fileVars, chainVars
  <2> QED
    BY <2>1, SameTx, SharedStays
<1> QED
  BY <1>2, <1>3, <1>4, <1>5, <1>6, <1>7, <1>8, <1>9, <1>10
  DEF SharedNext, Session, SharedRequest, Others

\* Nobody else ends what this session has begun.
LEMMA WritingStep ==
  ASSUME SharedInv, WritingInv, [SharedNext]_sharedVars
  PROVE  WritingInv'
<1>1. CASE SharedAppend
  <2>1. (Begins \/ Ends \/ Breaks) /\ pc \notin {"idle", "batch"}
    BY <1>1, AppendIsHonest
  <2> QED
    BY <2>1 DEF Begins, Ends, Breaks, BeginEntry, EndEntry, EndLine, WritingInv, Writings,
       sessionVars, fileVars
<1>2. CASE Dies
  BY <1>2 DEF Dies, WritingInv, Writings
<1>3. CASE SharedRequest
  BY <1>3 DEF SharedRequest, WritingInv, Writings
<1>4. CASE ClusterStep /\ UNCHANGED writing
  BY <1>4 DEF ClusterStep, WritingInv, fileVars, sessionVars
<1>5. CASE OtherWrites /\ UNCHANGED <<sessionVars, writing>>
  <2>1. PICK entry : \/ BeginEntry
                     \/ ~Mine /\ EndEntry(entry)
                     \/ ~Mine /\ EndLine
    BY <1>5 DEF OtherWrites
  <2> QED
    BY <1>5, <2>1 DEF BeginEntry, EndEntry, EndLine, Mine, WritingInv, Writings, sessionVars,
       fileVars
<1>6. CASE OtherSends /\ UNCHANGED <<sessionVars, writing>>
  BY <1>6 DEF OtherSends, WritingInv, fileVars, sessionVars
<1>7. CASE UNCHANGED sharedVars
  BY <1>7 DEF sharedVars, vars, fileVars, sessionVars, WritingInv
<1> QED
  BY <1>1, <1>2, <1>3, <1>4, <1>5, <1>6, <1>7 DEF SharedNext, Session, Others

THEOREM SharedInvariance ==
  ASSUME "fork" \notin Faults PROVE SharedSpec => [](SharedInv /\ WritingInv)
<1>1. SharedInv /\ WritingInv /\ [SharedNext]_sharedVars => SharedInv' /\ WritingInv'
  BY SharedStep, WritingStep
<1> QED
  BY <1>1, SharedStart, PTL DEF SharedSpec

LEMMA SharedInvIsTrue == SharedInv => OkMeansPaid /\ RecipientLogTrue /\ ConfirmedIsPaid
BY DEF SharedInv, SharedSession, SharedFile, TrueProgress, TrueOf, ConfirmedIsPaid

\* However many processes send a run, what `send` reports as sent was paid
\* (Ok of send_plan, execution.rs:233), each of them from what it read itself.
THEOREM SharedOkWasPaid ==
  ASSUME "fork" \notin Faults PROVE SharedSpec => []OkMeansPaid
BY SharedInvIsTrue, SharedInvariance, PTL

\* However many processes write the ledger, in whatever order their writes
\* fall, every entry that is in it is true (append_recipient_confirmed_entries,
\* execution.rs:327), and so is every BatchConfirmed that a reader would skip
\* the batch for.
THEOREM SharedLogIsTrue ==
  ASSUME "fork" \notin Faults PROVE SharedSpec => [](RecipientLogTrue /\ ConfirmedIsPaid)
BY SharedInvIsTrue, SharedInvariance, PTL

\* A session among others writes only what is so, however old its progress
\* is, and nothing that would make a spoiled ledger readable again
\* (append_ledger_entry, execution.rs:391).
THEOREM SessionsAreHonest ==
  ASSUME "fork" \notin Faults PROVE SharedSpec => SessionIsHonest
<1> DEFINE Honest ==
      /\ \/ UNCHANGED <<ledger, recipientLog>>
         \/ \E entry \in LedgerEntry : Truthful(entry) /\ Written(entry)
      /\ tail = "corrupt" => tail' = "corrupt"
<1>1. SharedInv /\ [SharedNext]_sharedVars => [Session => Honest]_sharedVars
  <2> SUFFICES ASSUME SharedInv, Session PROVE Honest
    OBVIOUS
  <2>1. UNCHANGED fileVars \/ TruthfulWrite
    BY SessionIsOther DEF OtherSends
  <2>2. CASE UNCHANGED fileVars
    BY <2>2 DEF fileVars
  <2>3. CASE TruthfulWrite
    BY <2>3 DEF TruthfulWrite, BeginEntry, EndEntry, EndLine, fileVars
  <2> QED
    BY <2>1, <2>2, <2>3
<1> QED
  BY <1>1, SharedInvariance, PTL DEF SharedSpec, SessionIsHonest
=============================================================================
