-------------------------- MODULE BatchTransaction --------------------------
(***************************************************************************)
(* The transaction that simulation.rs builds from a packed batch, for the  *)
(* simulation and for the send: its instructions, the accounts the Solana  *)
(* SDK compiles them to, and the limits they are held against again.  An   *)
(* account is named by its role.                                           *)
(***************************************************************************)
EXTENDS Packing, FiniteSetsExt

SourceWallet == <<"source_wallet">>
SourceAta    == <<"source_ata">>
Mint         == <<"distribution_token">>
TokenProgram == <<"token_program">>
AtaProgram   == <<"associated_token_program">>
SystemProgram == <<"system_program">>
Wallet(i)    == <<"wallet", i>>
Ata(i)       == <<"recipient_ata", i>>

\* create_associated_token_account_idempotent_instruction
CreateAta(i) ==
  [program  |-> AtaProgram,
   accounts |-> {SourceWallet, Ata(i), Wallet(i), Mint, SystemProgram, TokenProgram},
   data     |-> 1]

\* TransferChecked
Transfer(i) ==
  [program  |-> TokenProgram,
   accounts |-> {SourceAta, Mint, Ata(i), SourceWallet},
   data     |-> 10]

\* build_batch_instructions
Instructions(batch) ==
  {Transfer(i) : i \in batch} \cup {CreateAta(i) : i \in {j \in batch : recipients[j]}}

-----------------------------------------------------------------------------
(* transaction_metrics of the compiled transaction.                        *)

\* The payer, and what the instructions name.
account_keys(batch) ==
  {SourceWallet} \cup
  UNION {{instruction.program} \cup instruction.accounts : instruction \in Instructions(batch)}

built_size(batch) ==
  LET keys == Cardinality(account_keys(batch))
      bytes(instruction) ==
        compiled_instruction_size(Cardinality(instruction.accounts), instruction.data)
  IN  short_vec_size(1) + 64 + 3
      + short_vec_size(keys) + 32 * keys + 32
      + short_vec_size(Cardinality(Instructions(batch)))
      + MapThenSumSet(bytes, Instructions(batch))

\* The executed instructions are taken from the plan.
BuiltWithinLimits(batch) ==
  /\ built_size(batch) =< limits.size
  /\ Cardinality(account_keys(batch)) =< limits.locks
  /\ executed_instructions(Cardinality(batch), ata_creations(batch)) =< limits.instructions

-----------------------------------------------------------------------------

\* The estimate a batch was packed by is the size of its transaction, so that
\* a plan is not refused by the build of one of its transactions when the
\* batches before it have been sent already.
EstimateIsExact ==
  \A batch \in {batches[k] : k \in DOMAIN batches} :
    /\ built_size(batch) = serialized_size(Cardinality(batch), ata_creations(batch))
    /\ Cardinality(account_keys(batch))
         = account_locks(Cardinality(batch), ata_creations(batch))

=============================================================================
