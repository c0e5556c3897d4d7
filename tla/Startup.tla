------------------------------- MODULE Startup -------------------------------
(***************************************************************************)
(* What a process starts from: config.toml (config.rs), the environment    *)
(* (env.rs), the key of the source wallet (source_wallet.rs), and the      *)
(* RuntimeConfig that is made of them (runtime.rs).  A failed check ends   *)
(* the process before anything else is done.                               *)
(***************************************************************************)
EXTENDS Amounts

CONSTANTS
  Keys,          \* public keys
  NoKey,         \* what a text with no public key in it parses to
  Cluster,       \* "mainnet-beta"
  OtherCluster

ASSUME StartupAssumption == NoKey \notin Keys

\* A word of the configuration or the environment: what is left of it when it
\* is trimmed, and whether that took anything away.  EmptyWord is all blanks.
EmptyWord == [word |-> "", padded |-> TRUE]
Words     == [word : STRING \ {""}, padded : BOOLEAN] \cup {EmptyWord}

\* An address: the key it parses to, trimmed or not; and no address at all.
Addresses == [key : Keys \cup {NoKey}, padded : BOOLEAN]

require_nonempty(word) == word # EmptyWord
parse_address(address) == address.key # NoKey

Unique(addresses) ==
  \A i, j \in DOMAIN addresses : i # j => addresses[i].key # addresses[j].key

parse_unique_addresses(addresses) ==
  /\ \A i \in DOMAIN addresses : parse_address(addresses[i])
  /\ Unique(addresses)

\* ConfigFile::validate; a file that is missing, or is no TOML of this shape,
\* fails before.
validate(file) ==
  /\ file.cluster_name = Cluster
  /\ require_nonempty(file.rpc_url_env)
  /\ parse_address(file.token_address)
  /\ trim(file.total_amount_ui) # <<>> /\ validate_amount(trim(file.total_amount_ui))
  /\ file.max_recipients > 0
  /\ file.target_token_addresses # <<>>
  /\ parse_unique_addresses(file.target_token_addresses)
  /\ parse_unique_addresses(file.manual_exclude_wallets)
  /\ require_nonempty(file.api_key_env)
  /\ file.holder_fetch_limit > 0

KeysOf(addresses) == [i \in DOMAIN addresses |-> addresses[i].key]

\* The ValidatedConfig of a file that was accepted.
Validated(file) ==
  [cluster_name               |-> Cluster,
   rpc_url_env                |-> file.rpc_url_env.word,
   distribution_token_address |-> file.token_address.key,
   total_amount_ui            |-> trim(file.total_amount_ui),
   target_token_addresses     |-> KeysOf(file.target_token_addresses),
   max_recipients             |-> file.max_recipients,
   manual_exclude_wallets     |-> KeysOf(file.manual_exclude_wallets),
   solscan                    |-> [enabled            |-> file.solscan_enabled,
                                   api_key_env        |-> file.api_key_env.word,
                                   holder_fetch_limit |-> file.holder_fetch_limit]]

-----------------------------------------------------------------------------

\* EnvReader::get drops blanks, and what is only blanks is not set.
IsSet(word) == word # EmptyWord

\* Key material of the environment: unset, of a key, or malformed.
KeyTexts == {"unset", "key", "invalid", "wrong_length"}

\* SourceWallet::from_env: exactly one of the two, and a key in it.
from_env(env) ==
  \/ env.base58 = "key" /\ env.base64 = "unset"
  \/ env.base58 = "unset" /\ env.base64 = "key"

\* from_validated_config_and_env; the variables are those that are named in
\* the configuration.
HasEnv(config, env) ==
  /\ from_env(env)
  /\ IsSet(env.rpc_url)
  /\ config.solscan.enabled => IsSet(env.api_key)

\* What of the environment a run goes on with.
Runtime(config, env) ==
  [rpc_url         |-> env.rpc_url.word,
   solscan_api_key |-> IF config.solscan.enabled THEN {env.api_key.word} ELSE {}]

\* The client that prepare_run asks for holders: the key decides.
HolderClient(runtime) == IF runtime.solscan_api_key # {} THEN "solscan" ELSE "rpc"
=============================================================================
