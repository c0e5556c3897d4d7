------------------------------- MODULE Packing -------------------------------
(***************************************************************************)
(* pack_recipients of planning.rs: the recipients of a plan, in their      *)
(* order, packed into legacy transactions.  A recipient is what its size   *)
(* depends on: whether its associated token account has to be created.  A  *)
(* batch is the set of the indexes in it: the loop appends increasing      *)
(* indexes, so their order in the Vec is the order of the numbers.         *)
(* One step is one round of the loop over the recipients.                  *)
(***************************************************************************)
EXTENDS Naturals, FiniteSets, Sequences

CONSTANTS
  NumRecipients,   \* recipients of the plan
  Limits           \* what the limits of a transaction may be

(***************************************************************************)
(* size, locks, instructions: LEGACY_TRANSACTION_SIZE_LIMIT,               *)
(* ACCOUNT_LOCK_LIMIT and EXECUTED_INSTRUCTION_LIMIT.  The program has one *)
(* value of each; smaller ones fill batches with few recipients.           *)
(***************************************************************************)
ASSUME PackingAssumption ==
  /\ NumRecipients \in Nat \ {0}
  /\ Limits \subseteq [size : Nat, locks : Nat, instructions : Nat]

VARIABLES
  limits,       \* of a transaction
  recipients,   \* create_recipient_ata of every recipient
  index,        \* the loop variable
  current,      \* the indexes of the batch that is being filled
  batches,      \* the batches so far
  result        \* "packing", "ok", or "does_not_fit"

vars == <<limits, recipients, index, current, batches, result>>

Indexes == 1 .. NumRecipients

-----------------------------------------------------------------------------
(* estimate_legacy_transaction                                             *)

\* Bytes of a compact-u16 length below 2^14.
short_vec_size(value) == IF value >= 128 THEN 2 ELSE 1

compiled_instruction_size(accounts, data) ==
  1 + short_vec_size(accounts) + accounts + short_vec_size(data) + data

\* A create has 6 accounts and 1 byte of data, a TransferChecked 4 and 10.
CreateSize   == compiled_instruction_size(6, 1)
TransferSize == compiled_instruction_size(4, 10)

\* The recipients of a batch that need a create instruction.
ata_creations(batch) == Cardinality({i \in batch : recipients[i]})

\* A wrong account_locks, without the two programs of a create.
account_locks_NotPrograms(transfers, creations) == 4 + transfers + creations

\* Source wallet and account, mint and token program; an account for each
\* recipient; its wallet, if that is to be created, and then the associated
\* token program and the system program once.
account_locks(transfers, creations) ==
  4 + transfers + creations + (IF creations > 0 THEN 2 ELSE 0)

\* One signature, the message header, the accounts, the blockhash, and the
\* instructions.
serialized_size(transfers, creations) ==
  LET accounts == account_locks(transfers, creations)
  IN  short_vec_size(1) + 64 + 3
      + short_vec_size(accounts) + 32 * accounts + 32
      + short_vec_size(transfers + creations)
      + creations * CreateSize + transfers * TransferSize

\* A create executes four instructions.
executed_instructions(transfers, creations) == transfers + 4 * creations

WithinLimits(transfers, creations) ==
  /\ serialized_size(transfers, creations) =< limits.size
  /\ account_locks(transfers, creations) =< limits.locks
  /\ executed_instructions(transfers, creations) =< limits.instructions

within_limits(batch) == WithinLimits(Cardinality(batch), ata_creations(batch))

-----------------------------------------------------------------------------
(* pack_recipients                                                         *)

\* create_distribution_plan refuses a plan without recipients.
Init ==
  /\ limits \in Limits
  /\ recipients \in [Indexes -> BOOLEAN]
  /\ index = 1
  /\ current = {}
  /\ batches = <<>>
  /\ result = "packing"

Candidate == current \cup {index}

\* Wrong versions: the limits are looked at before the recipient is added,
\* or as if every recipient needed an account.
CandidateFits_ButCurrent == current = {} \/ within_limits(current)
CandidateFits_ButAllCreate == WithinLimits(Cardinality(Candidate), Cardinality(Candidate))

CandidateFits == within_limits(Candidate)

\* The recipient goes into the batch that is being filled.
Fits ==
  /\ result = "packing"
  /\ index \in Indexes
  /\ CandidateFits
  /\ current' = Candidate
  /\ index' = index + 1
  /\ UNCHANGED <<limits, recipients, batches, result>>

\* The batch that the recipient opens.
Opened == {index}

\* The recipient fits a transaction of its own.
Alone(i) == within_limits({i})

\* The batch is full and the recipient opens the next one.
Opens ==
  /\ result = "packing"
  /\ index \in Indexes
  /\ ~CandidateFits
  /\ current # {}
  /\ Alone(index)
  /\ batches' = Append(batches, current)
  /\ current' = Opened
  /\ index' = index + 1
  /\ UNCHANGED <<limits, recipients, result>>

\* A wrong DoesNotFit, which gives up when the batch is full.
DoesNotFit_ButFull ==
  /\ result = "packing"
  /\ index \in Indexes
  /\ ~CandidateFits
  /\ result' = "does_not_fit"
  /\ UNCHANGED <<limits, recipients, index, current, batches>>

\* RecipientDoesNotFit.
DoesNotFit ==
  /\ result = "packing"
  /\ index \in Indexes
  /\ ~CandidateFits
  /\ ~(current # {} /\ Alone(index))
  /\ result' = "does_not_fit"
  /\ UNCHANGED <<limits, recipients, index, current, batches>>

\* A wrong LastBatch, which forgets what is left.
LastBatch_Forgotten == batches

\* What is left becomes the last batch.
LastBatch == IF current = {} THEN batches ELSE Append(batches, current)

Finish ==
  /\ result = "packing"
  /\ index \notin Indexes
  /\ batches' = LastBatch
  /\ current' = {}
  /\ result' = "ok"
  /\ UNCHANGED <<limits, recipients, index>>

Next == Fits \/ Opens \/ DoesNotFit \/ Finish

-----------------------------------------------------------------------------

TypeOK ==
  /\ limits \in Limits
  /\ recipients \in [Indexes -> BOOLEAN]
  /\ index \in 1 .. NumRecipients + 1
  /\ current \subseteq Indexes
  /\ batches \in Seq(SUBSET Indexes)
  /\ result \in {"packing", "ok", "does_not_fit"}

\* The recipients that have been dealt with.
Packed == 1 .. (index - 1)

\* Every recipient that the loop has passed is in exactly one batch, and the
\* batches are in the order of the recipients: nobody is left out or paid
\* twice by one plan.
EveryoneOnce ==
  /\ current \cup UNION {batches[k] : k \in DOMAIN batches} = Packed
  /\ \A k \in DOMAIN batches : \A i \in batches[k] :
       /\ \A j \in current : i < j
       /\ \A l \in DOMAIN batches : k < l => \A j \in batches[l] : i < j
  /\ result = "ok" => current = {} /\ Packed = Indexes

\* Every batch can be sent as a legacy transaction, and none is empty.
BatchesFit ==
  /\ \A k \in DOMAIN batches : batches[k] # {} /\ within_limits(batches[k])
  /\ current # {} => within_limits(current)

\* A plan is refused only for a recipient that fits no transaction at all.
RefusedIsTooLarge ==
  result = "does_not_fit" =>
    \A batch \in SUBSET Indexes : index \in batch => ~within_limits(batch)

(***************************************************************************)
(* The reference: any other packing of the recipients in their order, as   *)
(* its cuts.  Its k-th batch holds the recipients after cut k - 1, up to   *)
(* cut k.                                                                  *)
(***************************************************************************)
IsPacking(cuts, m) ==
  /\ cuts[0] = 0
  /\ \A k \in 1 .. m :
       /\ cuts[k - 1] =< cuts[k]
       /\ within_limits(cuts[k - 1] + 1 .. cuts[k])

Packings(m) == {cuts \in [0 .. m -> 0 .. NumRecipients] : IsPacking(cuts, m)}

\* No packing of the recipients in their order has fewer batches.
Fewest ==
  result = "ok" =>
    \A m \in 0 .. Len(batches) - 1 : \A cuts \in Packings(m) :
      cuts[m] < NumRecipients

Spec == Init /\ [][Next]_vars /\ WF_vars(Next)

=============================================================================
