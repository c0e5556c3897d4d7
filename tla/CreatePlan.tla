----------------------------- MODULE CreatePlan -----------------------------
(***************************************************************************)
(* prepare_run of cli.rs from the configuration to the simulated plan, but *)
(* for the discovery, of which only the report is kept: load_runtime,      *)
(* create_distribution_plan around pack_recipients (Packing),              *)
(* write_plan_artifacts and simulate_plan.  A failed step ends the process *)
(* with an error.  Not modelled: DuplicateRecipient, as the wallets of a   *)
(* report are the keys of a map.                                           *)
(***************************************************************************)
EXTENDS BatchTransaction, Startup, TokenAccounts, PlanJson

CONSTANTS
  Files,            \* what config.toml may hold
  Envs,             \* what the environment may hold
  Decimals,         \* decimals of the distribution token
  Balances,         \* what the node says the source account holds
  Rents,            \* lamports for the rent of a token account
  AccountsLimit     \* RPC_GET_MULTIPLE_ACCOUNTS_LIMIT

ASSUME CreatePlanAssumption ==
  /\ \A file \in Files :
       file.total_amount_ui \in Seq(Nat) /\ file.solscan_enabled \in BOOLEAN
  /\ \A env \in Envs : env.rpc_url \in Words /\ env.api_key \in Words
  /\ Decimals \subseteq Nat
  /\ Balances \subseteq Seq(Nat)
  /\ Rents \subseteq Nat
  /\ AccountsLimit \in Nat \ {0}

VARIABLES
  phase,      \* the next step of prepare_run
  outcome,    \* "None", or what ended the process; "prepared" is no error
  config,     \* ValidatedConfig, once there is one
  runtime,    \* what the environment gave
  decimals,   \* of the distribution token, in the report
  total,      \* total_amount_raw
  balance,    \* source_balance_raw
  asked,      \* recipients whose accounts have been asked for
  answers,    \* the accounts the node has answered
  exists,     \* the recipients whose account exists, of those asked for
  rent,       \* rent_per_ata_lamports
  simulated,  \* batches that have been simulated
  failed      \* one of them failed

packVars == <<limits, recipients, index, current, batches, result>>
readVars == <<config, runtime, decimals, total, balance, asked, answers,
              exists, rent>>
simVars  == <<simulated, failed>>
planVars == <<packVars, readVars, simVars, phase, outcome>>

PlanInit ==
  /\ limits \in Limits
  /\ recipients = [i \in Indexes |-> FALSE]
  /\ index = 1 /\ current = {} /\ batches = <<>> /\ result = "packing"
  /\ phase = "load" /\ outcome = "None"
  /\ config = {} /\ runtime = {}
  /\ decimals = 0 /\ total = 0 /\ balance = 0 /\ rent = 0
  /\ asked = 0 /\ answers = <<>> /\ exists = {}
  /\ simulated = 0 /\ failed = FALSE

At(p) == phase = p /\ outcome = "None"

EndWith(error) ==
  /\ outcome' = error
  /\ UNCHANGED <<packVars, readVars, simVars, phase>>

-----------------------------------------------------------------------------

\* load_runtime
Load ==
  /\ At("load")
  /\ \E file \in Files, env \in Envs :
       \/ /\ ~validate(file) /\ EndWith("ConfigError")
       \/ /\ validate(file) /\ ~HasEnv(Validated(file), env) /\ EndWith("MissingEnv")
       \/ /\ validate(file) /\ HasEnv(Validated(file), env)
          /\ config' = {Validated(file)}
          /\ runtime' = {Runtime(Validated(file), env)}
          /\ phase' = "discover"
          /\ UNCHANGED <<packVars, simVars, outcome, decimals, total, balance, asked,
                         answers, exists, rent>>

Config == CHOOSE c \in config : TRUE

\* The report of the discovery: the decimals of the token and the recipients,
\* of which there are none, or up to max_recipients.
Discover ==
  /\ At("discover")
  /\ \/ EndWith("NoRecipients")
     \/ /\ NumRecipients =< Config.max_recipients
        /\ decimals' \in Decimals
        /\ phase' = "amount"
        /\ UNCHANGED <<packVars, simVars, outcome, config, runtime, total, balance,
                       asked, answers, exists, rent>>

\* A wrong share, rounded up.
amount_per_recipient_raw_Up == (total + NumRecipients - 1) \div NumRecipients

amount_per_recipient_raw == total \div NumRecipients
remainder_raw            == total % NumRecipients

ConvertAmount ==
  /\ At("amount")
  /\ LET converted == ui_amount_to_raw(Config.total_amount_ui, decimals)
     IN  \/ converted.error # "None" /\ EndWith(converted.error)
         \/ /\ converted.error = "None" /\ converted.raw < NumRecipients
            /\ EndWith("AmountTooSmallForRecipientCount")
         \/ /\ converted.error = "None" /\ converted.raw >= NumRecipients
            /\ total' = converted.raw
            /\ phase' = "source"
            /\ UNCHANGED <<packVars, simVars, outcome, config, runtime, decimals, balance,
                           asked, answers, exists, rent>>

\* What getAccountInfo may say of the source account.
SourceAnswers ==
  LET expected == {TokenAccount(SourceWallet, amount, decimals) : amount \in Balances}
  IN  {{}} \cup {{account} : account \in expected \cup UNION {Spoiled(a) : a \in expected}}

ReadSource ==
  /\ At("source")
  /\ \E found \in SourceAnswers :
       \/ ~(\A account \in found : Readable(account)) /\ EndWith("Rpc")
       \/ found = {} /\ EndWith("MissingTokenAccount")
       \/ /\ \A account \in found : Readable(account)
          /\ ~parse_optional_token_account(found, SourceWallet, decimals)
          /\ EndWith("InvalidTokenAccount")
       \/ /\ \A account \in found : Readable(account)
          /\ parse_optional_token_account(found, SourceWallet, decimals)
          /\ \E account \in found :
               LET raw == Number(account.amount) IN
               \/ raw < total /\ EndWith("InsufficientSourceBalance")
               \/ /\ raw >= total
                  /\ balance' = raw
                  /\ phase' = "accounts"
                  /\ UNCHANGED <<packVars, simVars, outcome, config, runtime, decimals,
                                 total, asked, answers, exists, rent>>

-----------------------------------------------------------------------------
(* get_multiple_accounts                                                   *)

\* The recipients of the next request.
Chunk == asked + 1 .. Min({asked + AccountsLimit, NumRecipients})

\* A right answer, of the accounts that exist, in the order of the request.
Answer(there) ==
  [j \in 1 .. Cardinality(Chunk) |->
     LET i == asked + j
     IN  IF i \in there THEN {TokenAccount(Wallet(i), <<0>>, decimals)} ELSE {}]

\* The source account is spoiled in every way there is, a recipient's in two.
Others(account) ==
  {[account EXCEPT !.owner = SourceWallet], [account EXCEPT !.absent = {"amount"}]}

\* What a node may answer: that; one account of another kind; or an answer
\* that lacks an entry, or has one too many.
Answered(there) ==
  LET right == Answer(there) IN
  {right}
  \cup (UNION {{[right EXCEPT ![j] = {other}] : other \in UNION {Others(a) : a \in right[j]}} :
                 j \in DOMAIN right})
  \cup {SubSeq(right, 1, j - 1) \o SubSeq(right, j + 1, Len(right)) : j \in DOMAIN right}
  \cup {SubSeq(right, 1, j) \o <<{}>> \o SubSeq(right, j + 1, Len(right)) : j \in DOMAIN right}

\* A wrong check, which takes a longer answer.
RightLength_AtLeast(answer) == Len(answer) >= Cardinality(Chunk)

RightLength(answer) == Len(answer) = Cardinality(Chunk)

ReadChunk ==
  /\ At("accounts")
  /\ asked < NumRecipients
  /\ \E there \in SUBSET Chunk : \E answer \in Answered(there) :
       \/ ~RightLength(answer) /\ EndWith("InvalidResponseLength")
       \/ /\ RightLength(answer)
          /\ ~(\A j \in DOMAIN answer : \A account \in answer[j] : Readable(account))
          /\ EndWith("Rpc")
       \/ /\ RightLength(answer)
          /\ \A j \in DOMAIN answer : \A account \in answer[j] : Readable(account)
          /\ asked' = asked + Cardinality(Chunk)
          /\ answers' = answers \o answer
          /\ exists' = exists \cup there
          /\ UNCHANGED <<packVars, simVars, phase, outcome, config, runtime, decimals,
                         total, balance, rent>>

\* plan_recipient of all: the accounts are the recipients' by their position.
PlanRecipients ==
  /\ At("accounts")
  /\ asked = NumRecipients
  /\ IF \E i \in Indexes : ~parse_optional_token_account(answers[i], Wallet(i), decimals)
       THEN EndWith("InvalidTokenAccount")
       ELSE /\ recipients' = [i \in Indexes |-> answers[i] = {}]
            /\ phase' = "pack"
            /\ UNCHANGED <<simVars, outcome, limits, index, current, batches, result,
                           readVars>>

-----------------------------------------------------------------------------

Pack ==
  /\ At("pack")
  /\ Next
  /\ phase' = IF result' = "ok" THEN "rent" ELSE "pack"
  /\ outcome' = IF result' = "does_not_fit" THEN "RecipientDoesNotFit" ELSE "None"
  /\ UNCHANGED <<readVars, simVars>>

ReadRent ==
  /\ At("rent")
  /\ rent' \in Rents
  /\ phase' = "write"
  /\ UNCHANGED <<packVars, simVars, outcome, config, runtime, decimals, total, balance,
                 asked, answers, exists>>

\* saturating_mul
saturating(n) == Min({n, MaxRaw})

ata_creations_of(list) == Cardinality({i \in DOMAIN list : list[i].create_recipient_ata})

PlannedRecipient(i) ==
  [wallet               |-> Wallet(i),
   recipient_ata        |-> Ata(i),
   amount_raw           |-> amount_per_recipient_raw,
   amount_ui            |-> format_raw_amount(amount_per_recipient_raw, decimals),
   create_recipient_ata |-> recipients[i],
   best_rank            |-> i,
   holdings             |-> <<[target_token_address |-> Mint, token_account |-> Ata(i),
                               raw_amount |-> <<1>>, decimals |-> decimals, rank |-> i]>>]

\* A skipped candidate of each reason, the first of an owner nobody knows.
Skipped ==
  [reason \in SkipReasons |->
     [target_token_address |-> Mint, token_account |-> Ata(reason),
      owner_wallet |-> IF reason = 1 THEN {} ELSE {Wallet(reason)},
      rank |-> reason, reason |-> reason]]

\* build_batch
PlannedBatch(k) ==
  LET nth(j) == CHOOSE i \in batches[k] : Cardinality({l \in batches[k] : l =< i}) = j
      members == [j \in 1 .. Cardinality(batches[k]) |->
                    [recipient_index |-> nth(j), wallet |-> Wallet(nth(j)),
                     recipient_ata |-> Ata(nth(j)),
                     create_recipient_ata |-> recipients[nth(j)]]]
  IN  [index           |-> k,
       recipient_count |-> Len(members),
       ata_creations   |-> ata_creations_of(members),
       metrics         |-> <<serialized_size(Len(members), ata_creations_of(members)),
                             account_locks(Len(members), ata_creations_of(members)),
                             Len(members) + ata_creations_of(members),
                             executed_instructions(Len(members), ata_creations_of(members))>>,
       recipients      |-> members]

Plan ==
  LET planned == [i \in Indexes |-> PlannedRecipient(i)]
      ui(raw) == format_raw_amount(raw, decimals)
  IN  [cluster_name               |-> Config.cluster_name,
       source_wallet              |-> SourceWallet,
       source_ata                 |-> SourceAta,
       source_balance_raw         |-> balance,
       source_balance_ui          |-> ui(balance),
       distribution_token_address |-> Mint,
       distribution_token_program |-> TokenProgram,
       distribution_decimals      |-> decimals,
       total_amount_raw           |-> total,
       total_amount_ui            |-> ui(total),
       amount_per_recipient_raw   |-> amount_per_recipient_raw,
       amount_per_recipient_ui    |-> ui(amount_per_recipient_raw),
       remainder_raw              |-> remainder_raw,
       remainder_ui               |-> ui(remainder_raw),
       recipients                 |-> planned,
       skipped                    |-> Skipped,
       batches                    |-> [k \in DOMAIN batches |-> PlannedBatch(k)],
       rent_per_ata_lamports      |-> rent,
       estimated_ata_rent_lamports      |-> saturating(rent * ata_creations_of(planned)),
       estimated_signature_fee_lamports |-> saturating(5000 * Len(batches))]

\* write_plan_artifacts; the files themselves are in RunFiles.
WriteArtifacts ==
  /\ At("write")
  /\ \/ EndWith("Io")
     \/ phase' = "blockhash" /\ UNCHANGED <<packVars, readVars, simVars, outcome>>

-----------------------------------------------------------------------------
(* simulate_plan and what prepare_run_for_send makes of it                 *)

ReadBlockhash ==
  /\ At("blockhash")
  /\ phase' = "simulate"
  /\ UNCHANGED <<packVars, readVars, simVars, outcome>>

SimulateBatch ==
  /\ At("simulate")
  /\ simulated < Len(batches)
  /\ IF ~BuiltWithinLimits(batches[simulated + 1])
       THEN EndWith("TransactionLimitExceeded")
       ELSE /\ simulated' = simulated + 1
            /\ failed' \in {failed, TRUE}
            /\ UNCHANGED <<packVars, readVars, phase, outcome>>

\* simulation.json is written whatever is in it; then the failures count.
WriteSimulation ==
  /\ At("simulate")
  /\ simulated = Len(batches)
  /\ \/ EndWith("Io")
     \/ failed /\ EndWith("SimulationFailed")
     \/ ~failed /\ EndWith("prepared")

\* A request of any step fails for good.
RequestFails ==
  /\ \E p \in {"discover", "source", "accounts", "rent", "blockhash", "simulate"} : At(p)
  /\ phase = "accounts" => asked < NumRecipients
  /\ phase = "simulate" => simulated < Len(batches)
  /\ EndWith("Rpc")

PlanNext ==
  \/ Load \/ Discover \/ ConvertAmount \/ ReadSource \/ ReadChunk \/ PlanRecipients
  \/ Pack \/ ReadRent \/ WriteArtifacts \/ ReadBlockhash \/ SimulateBatch
  \/ WriteSimulation \/ RequestFails

-----------------------------------------------------------------------------

(***************************************************************************)
(* Every amount fits a u64, and what has been asked has been answered.     *)
(***************************************************************************)
PlanTypeOK ==
  /\ phase \in {"load", "discover", "amount", "source", "accounts", "pack", "rent",
                "write", "blockhash", "simulate"}
  /\ Cardinality(config) = Cardinality(runtime) /\ Cardinality(config) =< 1
  /\ decimals \in Decimals \cup {0}
  /\ total \in 0 .. MaxRaw /\ balance \in 0 .. MaxRaw
  /\ asked = Len(answers) /\ asked =< NumRecipients /\ exists \subseteq 1 .. asked
  /\ rent \in Rents \cup {0}
  /\ simulated \in 0 .. Len(batches) /\ failed \in BOOLEAN

Distinct(list) == \A i, j \in DOMAIN list : list[i] = list[j] => i = j

\* What is wrong with an amount that was accepted, once the decimals are
\* known: its last digit is lost, or it is no u64 in raw units.
WrongFor(text, d) ==
  LET behind == Len(Fractional(text))
  IN  IF behind > d THEN "TooManyFractionalDigits"
      ELSE IF Number(Whole(text) \o Fractional(text)) * PowerOfTen(d - behind) > MaxRaw
        THEN "AmountExceedsSplTokenLimit"
      ELSE "None"

\* What load_runtime lets through means one thing to all that use it later.
\* No mint is scanned twice, and the client that reads the holders has a key.
\* The amount can be read, and is more than zero: after the scan
\* (planning.rs:51) it is refused only for the decimals, which come from the
\* chain and which load_runtime does not have, if they do not hold its
\* fraction (planning.rs:633) or make it more than a u64 (planning.rs:648),
\* and for these it is always refused.
UsableStart ==
  \A c \in config, r \in runtime :
    /\ Distinct(c.target_token_addresses) /\ Distinct(c.manual_exclude_wallets)
    /\ \A d \in Decimals :
         LET converted == ui_amount_to_raw(c.total_amount_ui, d)
         IN  /\ converted.error = WrongFor(c.total_amount_ui, d)
             /\ converted.error = "None" => converted.raw > 0
    /\ c.solscan.enabled <=> HolderClient(r) = "solscan"
    /\ "" \notin {r.rpc_url} \cup r.solscan_api_key

\* The raw amount is the amount of the configuration, to the last digit, and
\* every amount that is written for the reader reads back as what it is.
ConversionIsExact ==
  total > 0 =>
    LET text == Config.total_amount_ui IN
    /\ total * PowerOfTen(Len(Fractional(text)))
         = Number(Whole(text) \o Fractional(text)) * PowerOfTen(decimals)
    /\ \A raw \in {total, balance, amount_per_recipient_raw, remainder_raw} :
         ui_amount_to_raw(format_raw_amount(raw, decimals), decimals) = Raw(raw)

\* The transfers of all batches and the remainder are the total, to the unit,
\* and the source has it.
PaysTheTotal ==
  result = "ok" =>
    LET transfers(k) == Cardinality(batches[k])
        paid == amount_per_recipient_raw * MapThenSumSet(transfers, DOMAIN batches)
    IN  /\ paid > 0
        /\ paid + remainder_raw = total
        /\ remainder_raw < NumRecipients
        /\ total =< balance

\* The plan creates the account of exactly the recipients who have none,
\* over all the chunks they were asked for in: a recipient who is taken for
\* another one would lose its transfer, or fail its whole batch.
CreatesWhatIsMissing ==
  phase \in {"pack", "rent", "write", "blockhash", "simulate"} =>
    \A i \in Indexes : recipients[i] <=> i \notin exists

\* What a later process reads from plan.json is the plan that was simulated.
PlanReadsBack ==
  phase = "blockhash" =>
    LET json == from_plan(Plan, Config)
    IN  Parses(json) /\ into_plan(json) = Plan

Configs == {Validated(file) : file \in {f \in Files : validate(f)}}

\* All of a configuration but the names of the environment variables.
Settings(c) == [c EXCEPT !.rpc_url_env = "", !.solscan.api_key_env = ""]

\* A cached run is taken up exactly under the settings it was planned with.
SnapshotDecides ==
  phase = "discover" =>
    \A other \in Configs :
      validate_matches(PlanConfigJson(Config), other) <=> Settings(other) = Settings(Config)

\* Both halves of plan.json, the settings and the plan, are what they were.
PlanJsonIsTrue == PlanReadsBack /\ SnapshotDecides

PlanSpec == PlanInit /\ [][PlanNext]_planVars
=============================================================================
