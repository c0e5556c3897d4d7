--------------------------- MODULE HolderDiscovery ---------------------------
(***************************************************************************)
(* discover_holders_with_provider as a whole: the distribution mint is     *)
(* looked at, its token accounts are loaded, the target mints are looked   *)
(* at, the list of each is read request by request (HolderPages), and only *)
(* then are the lists scanned (Discovery).  The cluster moves on meanwhile.*)
(***************************************************************************)
EXTENDS Discovery

CONSTANTS
  TargetTokens,      \* target_token_addresses, in their order
  Acquirers,         \* BOUND: the wallets that may get a distribution account meanwhile
  Accounts,          \* what the wallets may have of the distribution token at first
  PageSize, LargestAccounts, MaxHolders, MaxChanges,
  SolscanClient, HttpRpcClient, RetryAfters

ASSUME HolderDiscoveryAssumption ==
  /\ TargetTokens \in Seq(Tokens) \ {<<>>} /\ Tokens = {TargetTokens[i] : i \in DOMAIN TargetTokens}
  /\ Acquirers \subseteq Wallets
  /\ Accounts \subseteq [Wallets -> {"none", "empty", "funded"}]

VARIABLES
  phase,         \* "mint", "preload", "targets", "fetch", "verify" or "scan"
  accounts,      \* of the cluster: the distribution token account of a wallet
  preloaded,     \* ghost: what accounts was when it was loaded
  lengths,       \* of lengths: how many entries each of them has
  ranking, original, changes, page, holders, reading,
  client, attempt, retry_delay, slept, asked

P == INSTANCE HolderPages WITH holder_fetch_limit <- FetchLimit

ASSUME ListsAssumption == P!HolderPagesAssumption

listVars == <<ranking, original, changes, page, holders, reading,
              client, attempt, retry_delay, slept, asked>>
vars == <<scanVars, phase, accounts, preloaded, lengths, listVars>>

-----------------------------------------------------------------------------
(* Mints                                                                   *)

MintAccounts ==
  [exists : BOOLEAN, executable : BOOLEAN, program : {"token", "token-2022", "other"},
   parsed : {"mint", "account", "none"}]

MintProgramPolicy == [Token2022Only     |-> {"token-2022"},
                      LegacyOrToken2022 |-> {"token", "token-2022"}]

\* What is wrong with a configured mint, in the order validate_mint looks.
validate_mint(account, policy) ==
  IF ~account.exists                                       THEN "MissingTokenAccount"
  ELSE IF account.executable                               THEN "TokenAccountIsExecutable"
  ELSE IF account.program \notin MintProgramPolicy[policy] THEN "UnsupportedTokenProgram"
  ELSE IF account.parsed # "mint"                          THEN "TokenAccountIsNotMint"
  ELSE "None"

-----------------------------------------------------------------------------

NoHoldings == [w \in Wallets |-> {}]

Init ==
  /\ max_recipients \in MaxRecipients
  /\ phase = "mint"
  /\ accounts \in Accounts /\ preloaded = accounts
  /\ lengths = <<>>
  /\ lists = [t \in Tokens |-> <<>>] /\ facts = NoHoldings
  /\ index = 0 /\ holdings = NoHoldings /\ skipped = {} /\ result = "scanning"
  /\ ranking = <<>> /\ original = <<>> /\ changes = 0
  /\ page = 1 /\ holders = <<>> /\ reading = "done"
  /\ client \in {SolscanClient, HttpRpcClient} /\ attempt = 1 /\ retry_delay = client.initial_delay
  /\ slept = 0 /\ asked = 0

Give_up == result' = "error" /\ UNCHANGED <<given, index, holdings, skipped>>

\* validate_token_2022_mint of the distribution token.
ValidateDistribution ==
  /\ phase = "mint" /\ result = "scanning"
  /\ \E account \in MintAccounts :
       IF validate_mint(account, "Token2022Only") = "None"
         THEN phase' = "preload" /\ UNCHANGED scanVars
         ELSE Give_up /\ UNCHANGED phase
  /\ UNCHANGED <<accounts, preloaded, lengths, listVars>>

\* A wrong load, which leaves out the accounts without a balance.
ExistingReasons_OnlyHolders(w) ==
  IF accounts[w] = "funded"
    THEN {"ExistingDistributionHolder", "ExistingDistributionAccount"} ELSE {}

\* The reasons that load_existing_distribution_accounts has against a wallet:
\* the owner of any account is among the owners, and maybe among the holders.
\* An account is one that the code does not pass over in silence: of this mint
\* and its program, and parsed (discovery.rs:526-540).
ExistingReasons(w) ==
     (IF accounts[w] = "funded" THEN {"ExistingDistributionHolder"} ELSE {})
  \cup (IF accounts[w] # "none" THEN {"ExistingDistributionAccount"} ELSE {})

Preload ==
  /\ phase = "preload" /\ result = "scanning"
  /\ phase' = "targets"
  /\ facts' = [w \in Wallets |-> ExistingReasons(w)]
  /\ preloaded' = accounts
  /\ UNCHANGED <<max_recipients, lists, index, holdings, skipped, result,
                 accounts, lengths, listVars>>

\* get_token_holders of the next target token, from whatever list it has now.
StartNextList == \E list \in P!Lists : P!StartReading(client, list)

\* validate_target_mint of every target token, up to the first that fails.
ValidateTargets ==
  /\ phase = "targets" /\ result = "scanning"
  /\ \/ /\ phase' = "fetch" /\ StartNextList
        /\ UNCHANGED scanVars
     \/ /\ \E account \in MintAccounts : validate_mint(account, "LegacyOrToken2022") # "None"
        /\ Give_up
        /\ UNCHANGED <<phase, listVars>>
  /\ UNCHANGED <<accounts, preloaded, lengths>>

ReadList ==
  /\ phase = "fetch" /\ P!ReadStep
  /\ UNCHANGED <<scanVars, phase, accounts, preloaded, lengths>>

\* A list is read, and the next token's is asked for, if there is one.
NextList ==
  /\ phase = "fetch" /\ reading = "done"
  /\ lengths' = Append(lengths, Len(holders))
  /\ IF Len(lengths') < Len(TargetTokens)
       THEN StartNextList /\ UNCHANGED phase
       ELSE phase' = "verify" /\ P!StartReading(HttpRpcClient, <<>>)
  /\ UNCHANGED <<scanVars, accounts, preloaded>>

\* The first list that cannot be read ends the discovery.
ListFails ==
  /\ phase = "fetch" /\ reading = "error" /\ result = "scanning"
  /\ Give_up
  /\ UNCHANGED <<phase, accounts, preloaded, lengths, listVars>>

\* All lists are read.  Who owns an entry, and what else there is against a
\* wallet, is asked while they are scanned, and does not depend on the order:
\* it is chosen here.  An entry that slipped onto the list twice is asked twice.
BeginScan ==
  /\ phase = "verify"
  /\ phase' = "scan"
  /\ \E read \in [1 .. Len(lengths) -> UNION {[1 .. n -> Entries] : n \in 0 .. FetchLimit}] :
       /\ \A i \in DOMAIN read : Len(read[i]) = lengths[i]
       /\ lists' = [t \in Tokens |-> read[CHOOSE i \in DOMAIN read : TargetTokens[i] = t]]
  /\ \E other \in WalletFacts : facts' = [w \in Wallets |-> facts[w] \cup other[w]]
  /\ UNCHANGED <<max_recipients, index, holdings, skipped, result,
                 accounts, preloaded, lengths, listVars>>

ScanStep ==
  /\ phase = "scan" /\ Scan
  /\ UNCHANGED <<phase, accounts, preloaded, lengths, listVars>>

Step ==
  \/ ValidateDistribution \/ Preload \/ ValidateTargets \/ ReadList
  \/ NextList \/ ListFails \/ BeginScan \/ ScanStep

\* The provider's list changes.
ListChanges ==
  /\ phase = "fetch" /\ P!Change
  /\ UNCHANGED <<scanVars, phase, accounts, preloaded, lengths>>

\* A wallet gets an account of the distribution token, at any time.
Acquire ==
  /\ \E w \in Acquirers : accounts[w] = "none" /\ accounts' = [accounts EXCEPT ![w] = "empty"]
  /\ UNCHANGED <<scanVars, phase, preloaded, lengths, listVars>>

Next == Step \/ ListChanges \/ Acquire

Spec == Init /\ [][Next]_vars

-----------------------------------------------------------------------------
(* Properties                                                              *)

TypeOK ==
  /\ P!PageTypeOK
  /\ max_recipients \in MaxRecipients
  /\ phase \in {"mint", "preload", "targets", "fetch", "verify", "scan"}
  /\ accounts \in [Wallets -> {"none", "empty", "funded"}]
  /\ preloaded \in [Wallets -> {"none", "empty", "funded"}]
  /\ Len(lengths) <= Len(TargetTokens)
  /\ \A t \in Tokens : Len(lists[t]) <= FetchLimit
  /\ index \in 0 .. FetchLimit
  /\ result \in {"scanning", "ranking", "report", "error"}

\* The properties of a request, and of the reading of a list; see there.
RetriesAreBounded  == P!RetriesAreBounded
StillListIsRead    == P!StillListIsRead
EveryPageBringsOne == P!EveryPageBringsOne
EachChangeCostsOne == P!EachChangeCostsOne

\* The distribution token's accounts are loaded before the lists are read,
\* minutes earlier when they are long.  What a report misses for that is
\* bounded: every recipient with an account by then has got it after the
\* loading (discovery.rs:51).
NoKnownHolder ==
  result = "report" =>
    \A w \in Found : preloaded[w] = "none"
=============================================================================
