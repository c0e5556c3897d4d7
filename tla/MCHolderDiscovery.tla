-------------------------- MODULE MCHolderDiscovery --------------------------
(* Instances of HolderDiscovery for TLC.                                    *)
EXTENDS HolderDiscovery, TLC

\* Two mints of different decimals.  Raw amounts order the holdings otherwise
\* than balances do, a sum carries into a new place, and a zero leads.
MCTargetTokens == <<"t1", "t2">>
MCTokens == {"t1", "t2"}
MCDecimals == "t1" :> 0 @@ "t2" :> 1
MCBalance == "t1" :> <<<<9>>, <<2>>, <<0, 1>>>> @@ "t2" :> <<<<9, 5>>, <<1, 5>>, <<5>>>>

\* The second wallet may be excluded by hand.
MCWalletFacts == {[w \in 1 .. 3 |-> IF w \in manual THEN {"ManualExclude"} ELSE {}] : manual \in {{}, {2}}}

\* Nobody has an account, or the first wallet an empty one and the second a balance.
MCAccounts == {[w \in 1 .. 3 |-> "none"], <<"empty", "funded", "none">>}

MCSolscan == [attempts |-> 4, initial_delay |-> 1, max_delay |-> 10]
MCRpc     == [attempts |-> 6, initial_delay |-> 1, max_delay |-> 15]
=============================================================================
