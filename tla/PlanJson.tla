------------------------------ MODULE PlanJson ------------------------------
(***************************************************************************)
(* plan.json: a DistributionPlan and the configuration it was made under,  *)
(* as they are written (from_plan), read again (into_plan), and held       *)
(* against the configuration of a later process (validate_matches).  Keys  *)
(* become texts and reasons become names on the way out, and are parsed on *)
(* the way in; numbers and flags are copied field by field.                *)
(***************************************************************************)
EXTENDS Naturals, Sequences, FiniteSets

\* Pubkey::to_string, and parse_plan_pubkey of such a text.
to_string(key) == [base58 |-> key]
parse_plan_pubkey(text) == text.base58

\* A list of any kind, converted one by one.
Each(Convert(_), list) == [i \in DOMAIN list |-> Convert(list[i])]

-----------------------------------------------------------------------------
(* SkipReason: the variants by their number, and their derived Debug names *)

DebugNames ==
  <<"MissingTokenAccount", "MalformedTokenAccount", "ZeroBalance", "TokenMintMismatch",
    "UnsupportedTokenProgram", "ExecutableTokenAccount", "SourceWallet", "ManualExclude",
    "OffCurveOwner", "ExecutableOwner", "ProgramOwnedOwner", "ExistingDistributionHolder",
    "ExistingDistributionAccount", "RecipientLimit">>

SkipReasons == DOMAIN DebugNames

\* A wrong table, with the arm of one of the two distribution reasons copied.
parse_skip_reason_ArmCopied ==
  [MissingTokenAccount |-> 1, MalformedTokenAccount |-> 2, ZeroBalance |-> 3,
   TokenMintMismatch |-> 4, UnsupportedTokenProgram |-> 5, ExecutableTokenAccount |-> 6,
   SourceWallet |-> 7, ManualExclude |-> 8, OffCurveOwner |-> 9, ExecutableOwner |-> 10,
   ProgramOwnedOwner |-> 11, ExistingDistributionHolder |-> 12,
   ExistingDistributionAccount |-> 12, RecipientLimit |-> 14]

\* The table of parse_skip_reason; another name is InvalidPlanSkipReason.
parse_skip_reason ==
  [MissingTokenAccount |-> 1, MalformedTokenAccount |-> 2, ZeroBalance |-> 3,
   TokenMintMismatch |-> 4, UnsupportedTokenProgram |-> 5, ExecutableTokenAccount |-> 6,
   SourceWallet |-> 7, ManualExclude |-> 8, OffCurveOwner |-> 9, ExecutableOwner |-> 10,
   ProgramOwnedOwner |-> 11, ExistingDistributionHolder |-> 12,
   ExistingDistributionAccount |-> 13, RecipientLimit |-> 14]

-----------------------------------------------------------------------------
(* Out: the From implementations                                           *)

HoldingJson(h) ==
  [h EXCEPT !.target_token_address = to_string(@), !.token_account = to_string(@)]

RecipientJson(r) ==
  [r EXCEPT !.wallet = to_string(@), !.recipient_ata = to_string(@), !.holdings = Each(HoldingJson, @)]

\* An owner is {} when it is not known.
SkippedJson(s) ==
  [s EXCEPT !.target_token_address = to_string(@), !.token_account = to_string(@),
            !.owner_wallet = {to_string(key) : key \in @}, !.reason = DebugNames[@]]

BatchRecipientJson(r) == [r EXCEPT !.wallet = to_string(@), !.recipient_ata = to_string(@)]
BatchJson(b) == [b EXCEPT !.recipients = Each(BatchRecipientJson, @)]

\* What the summary counts is for the reader: into_plan does not look at it.
skipped_counts_by_reason(plan) ==
  [name \in {DebugNames[s.reason] : s \in {plan.skipped[i] : i \in DOMAIN plan.skipped}} |->
     Cardinality({i \in DOMAIN plan.skipped : DebugNames[plan.skipped[i].reason] = name})]

PlanSummaryJson(plan) ==
  [plan EXCEPT !.source_wallet = to_string(@), !.source_ata = to_string(@),
               !.distribution_token_address = to_string(@),
               !.distribution_token_program = to_string(@),
               !.recipients = Len(@), !.skipped = skipped_counts_by_reason(plan),
               !.batches = Len(@)]

\* The environment variables' names are not among what is compared.
PlanConfigJson(config) ==
  [cluster_name               |-> config.cluster_name,
   distribution_token_address |-> to_string(config.distribution_token_address),
   total_amount_ui            |-> config.total_amount_ui,
   target_token_addresses     |-> Each(to_string, config.target_token_addresses),
   max_recipients             |-> config.max_recipients,
   manual_exclude_wallets     |-> Each(to_string, config.manual_exclude_wallets),
   solscan_enabled            |-> config.solscan.enabled,
   holder_fetch_limit         |-> config.solscan.holder_fetch_limit]

from_plan(plan, config) ==
  [config     |-> PlanConfigJson(config),
   summary    |-> PlanSummaryJson(plan),
   recipients |-> Each(RecipientJson, plan.recipients),
   skipped    |-> Each(SkippedJson, plan.skipped),
   batches    |-> Each(BatchJson, plan.batches)]

-----------------------------------------------------------------------------
(* In                                                                      *)

into_target_holding(h) ==
  [h EXCEPT !.target_token_address = parse_plan_pubkey(@), !.token_account = parse_plan_pubkey(@)]

into_planned_recipient(r) ==
  [r EXCEPT !.wallet = parse_plan_pubkey(@), !.recipient_ata = parse_plan_pubkey(@),
            !.holdings = Each(into_target_holding, @)]

into_skipped_candidate(s) ==
  [s EXCEPT !.target_token_address = parse_plan_pubkey(@), !.token_account = parse_plan_pubkey(@),
            !.owner_wallet = {parse_plan_pubkey(text) : text \in @},
            !.reason = parse_skip_reason[@]]

into_planned_batch(b) ==
  [b EXCEPT !.recipients =
     Each(LAMBDA r : [r EXCEPT !.wallet = parse_plan_pubkey(@),
                               !.recipient_ata = parse_plan_pubkey(@)], @)]

\* A name that is not in the table makes the whole plan unreadable.
Parses(json) ==
  \A i \in DOMAIN json.skipped : json.skipped[i].reason \in DOMAIN parse_skip_reason

into_plan(json) ==
  [json.summary EXCEPT !.source_wallet = parse_plan_pubkey(@), !.source_ata = parse_plan_pubkey(@),
                       !.distribution_token_address = parse_plan_pubkey(@),
                       !.distribution_token_program = parse_plan_pubkey(@),
                       !.recipients = Each(into_planned_recipient, json.recipients),
                       !.skipped = Each(into_skipped_candidate, json.skipped),
                       !.batches = Each(into_planned_batch, json.batches)]

-----------------------------------------------------------------------------

\* A wrong comparison, which leaves the limit of the holder lists out.
validate_matches_ButLimit(cached, config) ==
  LET current == PlanConfigJson(config)
  IN  \A field \in DOMAIN current \ {"holder_fetch_limit"} : cached[field] = current[field]

\* Field by field; a list is compared in its order.
validate_matches(cached, config) ==
  LET current == PlanConfigJson(config)
  IN  \A field \in DOMAIN current : cached[field] = current[field]
=============================================================================
