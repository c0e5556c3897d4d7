---------------------------- MODULE TokenAccounts ----------------------------
(***************************************************************************)
(* What the RPC node says of an account, as rpc.rs reads it, and the token *)
(* account that planning.rs takes it for.  An account is a record; a field *)
(* that is absent or has no value of its type is in the set "absent".  An  *)
(* optional account is a set: {} when there is none at the address.        *)
(***************************************************************************)
EXTENDS Amounts

TokenProgramKey == "token_program"
MintKey         == "distribution_token"

\* The token account an owner has, as it should be.
TokenAccount(owner, amount, decimals) ==
  [owner_program |-> TokenProgramKey, executable |-> FALSE, type |-> "account",
   mint |-> MintKey, owner |-> owner, amount |-> amount, decimals |-> decimals,
   absent |-> {}]

\* What one may find instead: every field that is looked at, and is another.
Spoiled(account) ==
  {[account EXCEPT !.owner_program = "system_program"],
   [account EXCEPT !.executable = TRUE],
   [account EXCEPT !.mint = "another_token"],
   [account EXCEPT !.owner = <<"another_wallet">>],
   [account EXCEPT !.decimals = @ + 1],
   [account EXCEPT !.amount = <<>>]}
  \cup {[account EXCEPT !.type = type] : type \in {"raw", "mint", "other"}}
  \cup {[account EXCEPT !.absent = {field}] : field \in {"owner_program", "info", "amount"}}

\* The fields without which an answer is an error, by the type of the account.
Required(account) ==
  {"owner_program"} \cup
  CASE account.type = "raw"     -> {}
    [] account.type = "mint"    -> {"info", "decimals", "supply"}
    [] account.type = "account" -> {"info", "mint", "owner", "amount", "decimals"}
    [] OTHER                    -> {"info"}

\* RpcAccount::try_from and ParsedAccount::try_from
Readable(account) == account.absent \cap Required(account) = {}

\* No account, or the one that is expected; any other ends the planning.
parse_optional_token_account(found, owner, decimals) ==
  \A account \in found :
    /\ ~account.executable
    /\ account.owner_program = TokenProgramKey
    /\ account.type = "account"
    /\ account.mint = MintKey
    /\ account.owner = owner
    /\ account.decimals = decimals
    /\ parse_u64_token_amount(account.amount).error = "None"
=============================================================================
