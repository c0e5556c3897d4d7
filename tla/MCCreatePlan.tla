---------------------------- MODULE MCCreatePlan ----------------------------
(* An instance of CreatePlan for TLC.                                      *)
EXTENDS CreatePlan

\* Limits of which the size, the instructions and the locks fill a batch with
\* two to six recipients; the last are too few to create an account.
MCLimits ==
  {[size |-> 600, locks |-> 64, instructions |-> 64],
   [size |-> 1232, locks |-> 64, instructions |-> 14],
   [size |-> 1232, locks |-> 6, instructions |-> 64]}

Plain(word)  == [word |-> word, padded |-> FALSE]
Padded(word) == [word |-> word, padded |-> TRUE]
Address(key) == [key |-> key, padded |-> FALSE]
PaddedAddress(key) == [key |-> key, padded |-> TRUE]

File ==
  [cluster_name           |-> Cluster,
   rpc_url_env            |-> Plain("a"),
   token_address          |-> Address("k1"),
   total_amount_ui        |-> <<1, Dot, 5>>,
   max_recipients         |-> NumRecipients,
   target_token_addresses |-> <<Address("k2"), PaddedAddress("k3")>>,
   manual_exclude_wallets |-> <<>>,
   solscan_enabled        |-> TRUE,
   api_key_env            |-> Plain("b"),
   holder_fetch_limit     |-> 1]

\* Texts of one to four characters, of which a few are amounts.
Texts ==
  {<<>>, <<Blank>>, <<0>>, <<Dot>>, <<0, Dot, 0>>, <<Dot, 5>>, <<5, Dot>>, <<1, Dot, Dot, 5>>,
   <<Blank, 0, 2, 0>>, <<1, Blank, 5>>, <<1, Letter>>, <<2, Dot, 5, 0>>}

\* The file, with one of its fields another.
MCFiles ==
  {File, [File EXCEPT !.cluster_name = OtherCluster], [File EXCEPT !.token_address.key = NoKey],
   [File EXCEPT !.max_recipients = 0], [File EXCEPT !.holder_fetch_limit = 0],
   [File EXCEPT !.holder_fetch_limit = 2], [File EXCEPT !.solscan_enabled = FALSE],
   [File EXCEPT !.rpc_url_env = EmptyWord], [File EXCEPT !.rpc_url_env = Padded("b")],
   [File EXCEPT !.api_key_env = EmptyWord]}
  \cup {[File EXCEPT !.total_amount_ui = text] : text \in Texts}
  \cup {[File EXCEPT !.target_token_addresses = list] :
          list \in {<<>>, <<Address("k3"), Address("k2")>>, <<Address("k2"), PaddedAddress("k2")>>,
                    <<Address(NoKey)>>}}
  \cup {[File EXCEPT !.manual_exclude_wallets = list] :
          list \in {<<PaddedAddress("k2")>>, <<Address("k2"), PaddedAddress("k2")>>}}

Env == [base58 |-> "key", base64 |-> "unset", rpc_url |-> Plain("a"), api_key |-> Plain("b")]

MCEnvs ==
  {Env, [Env EXCEPT !.rpc_url = EmptyWord], [Env EXCEPT !.api_key = EmptyWord],
   [Env EXCEPT !.api_key = Padded("b")]}
  \cup {[Env EXCEPT !.base58 = text] : text \in KeyTexts}
  \cup {[Env EXCEPT !.base58 = "unset", !.base64 = text] : text \in KeyTexts}
  \cup {[Env EXCEPT !.base64 = "key"]}

\* 20 is all of a total of 2.0 with one decimal; 999 is more than MaxRaw.
MCBalances == {<<2, 0>>, <<2, 5, 0>>, <<9, 9, 9>>}
=============================================================================
