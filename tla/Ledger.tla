------------------------------- MODULE Ledger -------------------------------
(***************************************************************************)
(* LedgerProgress: what a run's ledger.jsonl says of every batch, as the   *)
(* fold of its entries in the order of the file.  The operators are the    *)
(* record_* methods; progress is a function from batches to BatchProgress. *)
(***************************************************************************)
EXTENDS Transactions

OptSignature == Signatures \cup {NoSignature}

BatchProgress ==
  [expected_signature  : OptSignature,
   submitted_signature : OptSignature,
   failed_signature    : OptSignature,
   confirmed           : OptSignature]

LedgerProgress == [Batches -> BatchProgress]

EmptyProgress ==
  [b \in Batches |-> [expected_signature  |-> NoSignature,
                      submitted_signature |-> NoSignature,
                      failed_signature    |-> NoSignature,
                      confirmed           |-> NoSignature]]

record_batch_prepared(progress, batch, signature) ==
  [progress EXCEPT ![batch].expected_signature = signature]

record_batch_submitted(progress, batch, signature) ==
  [progress EXCEPT ![batch] = [@ EXCEPT !.expected_signature = signature,
                                        !.submitted_signature = signature]]

record_batch_confirmed(progress, batch, signature) ==
  [progress EXCEPT ![batch].confirmed = signature]

record_batch_failed(progress, batch, signature) ==
  [progress EXCEPT ![batch] = [@ EXCEPT !.failed_signature = signature,
                                        !.expected_signature = NoSignature,
                                        !.submitted_signature = NoSignature]]

(***************************************************************************)
(* The entries of the file.  Counts, slots, error texts and amounts decide *)
(* nothing when the file is read again and are left out.                   *)
(***************************************************************************)
RecipientEvents == {"RecipientConfirmed", "RecipientFailed"}
BatchEvents == {"BatchPrepared", "BatchSubmitted", "BatchConfirmed",
                "BatchFailed", "BatchSignatureMismatch"}

BatchLedgerEntry ==
  [event : BatchEvents, batch : Batches, signature : Signatures]

RecipientLedgerEntry ==
  [event : RecipientEvents, batch : Batches, signature : Signatures,
   recipient : Recipients]

LedgerEntry == BatchLedgerEntry \cup RecipientLedgerEntry

BatchEntry(event, signature) ==
  [event |-> event, batch |-> BatchOf(signature), signature |-> signature]

RecipientEntry(event, signature, recipient) ==
  [event |-> event, batch |-> BatchOf(signature), signature |-> signature,
   recipient |-> recipient]

apply(progress, entry) ==
  CASE entry.event = "BatchPrepared" ->
         record_batch_prepared(progress, entry.batch, entry.signature)
    [] entry.event = "BatchSubmitted" ->
         record_batch_submitted(progress, entry.batch, entry.signature)
    [] entry.event = "BatchConfirmed" ->
         record_batch_confirmed(progress, entry.batch, entry.signature)
    [] entry.event = "BatchFailed" ->
         record_batch_failed(progress, entry.batch, entry.signature)
    [] entry.event = "BatchSignatureMismatch" ->
         record_batch_prepared(progress, entry.batch, entry.signature)
    [] entry.event \in RecipientEvents -> progress

is_confirmed(progress, batch) == progress[batch].confirmed # NoSignature

\* A wrong in_flight_signature: it looks at submitted transactions only.
in_flight_signature_ButSubmitted(progress, batch) ==
  progress[batch].submitted_signature

in_flight_signature(progress, batch) ==
  IF progress[batch].submitted_signature # NoSignature
    THEN progress[batch].submitted_signature
    ELSE progress[batch].expected_signature

=============================================================================
