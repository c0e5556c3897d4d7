------------------------------ MODULE Discovery ------------------------------
(***************************************************************************)
(* discover_holders_with_provider of discovery.rs: the ranked holder lists *)
(* of the target tokens are read rank by rank across the tokens, every     *)
(* candidate is verified and either merged into the recipient of its       *)
(* wallet or skipped with a reason, the scan stops early once there are    *)
(* recipients enough, and what was found is ranked and cut to the limit.   *)
(* One step is one rank, one error of a read, or the ranking.  What the    *)
(* cluster would answer about an entry of a list is part of the entry.     *)
(***************************************************************************)
EXTENDS DecimalStrings

CONSTANTS
  NumWallets,       \* owner wallets, numbered in the order of their addresses
  Tokens,           \* target_token_addresses
  FetchLimit,       \* holder_fetch_limit, and BOUND: no list is longer, the RPC's neither
  MaxRecipients,    \* the values of max_recipients
  Balance,          \* Balance[t][r]: the digits of the raw amount at rank r of t
  Decimals,         \* Decimals[t]: of the mint t
  WalletFacts,      \* what may hold of the wallets: for each, exclusion reasons
  EntryReasons      \* the reasons for which an entry has no verified owner

Wallets == 1 .. NumWallets
Ranks   == 1 .. FetchLimit

\* The reasons of exclusion_reason, in the order it asks for them.
ExclusionOrder ==
  <<"SourceWallet", "ManualExclude", "OffCurveOwner", "ExecutableOwner",
    "ProgramOwnedOwner", "ExistingDistributionHolder",
    "ExistingDistributionAccount">>

ASSUME DiscoveryAssumption ==
  /\ NumWallets \in Nat \ {0} /\ FetchLimit \in Nat /\ MaxRecipients \subseteq Nat \ {0}
  /\ IsFiniteSet(Tokens)
  /\ Balance \in [Tokens -> [Ranks -> Seq(Digits)]]
  /\ Decimals \in [Tokens -> Nat]
  /\ WalletFacts \subseteq [Wallets -> SUBSET {ExclusionOrder[i] : i \in DOMAIN ExclusionOrder}]
  /\ EntryReasons \subseteq {"ZeroBalance", "MissingTokenAccount", "MalformedTokenAccount",
       "ExecutableTokenAccount", "UnsupportedTokenProgram", "TokenMintMismatch"}

VARIABLES
  max_recipients, \* of the configuration
  lists,          \* holder_lists: per token, each entry's owner, or why it has none
  facts,          \* of each wallet: the reasons exclusion_reason would find
  index,          \* the ranks that have been read
  holdings,       \* recipients: the holdings merged for each wallet
  skipped,        \* the skipped candidates, with their reason
  result          \* "scanning", "ranking", "report" or "error"

given    == <<max_recipients, lists, facts>>
scanVars == <<given, index, holdings, skipped, result>>

-----------------------------------------------------------------------------
(* Verifying and excluding a candidate                                     *)

\* An entry of a holder list, by what verify_candidate_token_account finds.
NoOwner == 0
Entries == [owner : Wallets, reason : {"None"}] \cup [owner : {NoOwner}, reason : EntryReasons]

\* The candidates of a rank: the tokens whose list is long enough.
CandidatesAt(rank) == {[token |-> t, rank |-> rank] : t \in {u \in Tokens : Len(lists[u]) >= rank}}

Owner(c)    == lists[c.token][c.rank].owner
Verified(c) == Owner(c) # NoOwner

\* The first reason that applies to a wallet, "None" if none does.
exclusion_reason(w) ==
  IF facts[w] = {} THEN "None"
  ELSE ExclusionOrder[Min({i \in DOMAIN ExclusionOrder : ExclusionOrder[i] \in facts[w]})]

\* Why a candidate is skipped when its rank is read.
skip_reason(c) == IF Verified(c) THEN exclusion_reason(Owner(c)) ELSE lists[c.token][c.rank].reason

Skip(c, reason) == [candidate |-> c, reason |-> reason]

\* The wallets that have become recipients.
Found == {w \in Wallets : holdings[w] # {}}

-----------------------------------------------------------------------------
(* compare_recipient_order                                                 *)

best_rank(w) == Min({h.rank : h \in holdings[w]})

\* The most decimals among the holdings that are compared.
scale(v, w) == Max({Decimals[h.token] : h \in holdings[v] \cup holdings[w]})

scaled_amount(h, decimals) ==
  scale_raw_amount_string(Balance[h.token][h.rank], decimals - Decimals[h.token])

\* What a recipient holds of all tokens, in the holdings merged so far.
aggregate_scaled_amount(w, decimals) ==
  FoldSet(LAMBDA h, total : add_decimal_strings(total, scaled_amount(h, decimals)), <<0>>, holdings[w])

\* compare_aggregate_balances_desc: v holds more than w.
HoldsMore(v, w) ==
  decimal_less(aggregate_scaled_amount(w, scale(v, w)), aggregate_scaled_amount(v, scale(v, w)))

\* A wrong order, which has the ranks the other way round.
compare_recipient_order_WorstFirst(v, w) ==
  \/ best_rank(w) < best_rank(v)
  \/ best_rank(w) = best_rank(v) /\ HoldsMore(v, w)

\* Whether v is ranked before w.
compare_recipient_order(v, w) ==
  \/ best_rank(v) < best_rank(w)
  \/ /\ best_rank(v) = best_rank(w)
     /\ \/ HoldsMore(v, w)
        \/ ~HoldsMore(w, v) /\ v < w

\* The recipients of the report: the first max_recipients of the ranking.
Ahead(w) == {v \in Found : compare_recipient_order(v, w)}
Recipients == {w \in Found : Cardinality(Ahead(w)) < max_recipients}

-----------------------------------------------------------------------------

max_rank == Max({Len(lists[t]) : t \in Tokens} \cup {0})

\* A wrong stop, which counts the candidates that were excluded too.
StopsEarly_CountsSkips(found, skips) == Cardinality(found) + Cardinality(skips) >= max_recipients

\* The scan ends after a rank that brought recipients enough.
StopsEarly(found, skips) == Cardinality(found) >= max_recipients

\* The loop body: every candidate of the next rank is skipped or merged.
ReadRank ==
  /\ result = "scanning" /\ index < max_rank
  /\ LET candidates == CandidatesAt(index + 1)
         kept       == {c \in candidates : skip_reason(c) = "None"}
         merged     == [w \in Wallets |-> holdings[w] \cup {c \in kept : Owner(c) = w}]
         found      == {w \in Wallets : merged[w] # {}}
         skips      == skipped \cup {Skip(c, skip_reason(c)) : c \in candidates \ kept}
     IN  /\ holdings' = merged
         /\ skipped' = skips
         /\ index' = index + 1
         /\ result' = IF StopsEarly(found, skips) \/ index + 1 = max_rank
                        THEN "ranking" ELSE "scanning"
  /\ UNCHANGED given

\* Every list is empty: there is no rank to read.
NoRanks ==
  /\ result = "scanning" /\ max_rank = 0
  /\ result' = "ranking"
  /\ UNCHANGED <<given, index, holdings, skipped>>

\* A read of the cluster or of the provider fails: `?` gives up the whole discovery.
ReadFails ==
  /\ result = "scanning"
  /\ result' = "error"
  /\ UNCHANGED <<given, index, holdings, skipped>>

\* A wrong cut, which forgets the candidates of those beyond the limit.
Rank_Forgets ==
  /\ result = "ranking"
  /\ holdings' = [w \in Wallets |-> IF w \in Recipients THEN holdings[w] ELSE {}]
  /\ result' = "report"
  /\ UNCHANGED <<given, index, skipped>>

\* sort_by, and split_off at the limit: the rest are skipped as RecipientLimit.
Rank ==
  /\ result = "ranking"
  /\ holdings' = [w \in Wallets |-> IF w \in Recipients THEN holdings[w] ELSE {}]
  /\ skipped' = skipped \cup {Skip(c, "RecipientLimit") :
                                c \in UNION {holdings[w] : w \in Found \ Recipients}}
  /\ result' = "report"
  /\ UNCHANGED <<given, index>>

Scan == ReadRank \/ NoRanks \/ ReadFails \/ Rank

-----------------------------------------------------------------------------
(* Properties                                                              *)

\* The candidates that have been read.
Read == UNION {CandidatesAt(r) : r \in 1 .. index}

\* Every candidate that was read is exactly once in the report, as a holding
\* of its owner or as skipped with one reason, and nothing else is: the loop
\* over the ranks of discover_holders_with_provider (discovery.rs:94), and the
\* cut at max_recipients behind it, which must hand every holding of a wallet
\* beyond the limit over to the skipped ones.
EveryCandidateAccounted ==
  LET owned   == {p \in Read \X Wallets : p[1] \in holdings[p[2]]}
      held    == UNION {holdings[w] : w \in Wallets}
      entries == {s.candidate : s \in skipped}
  IN  /\ held \cup entries = Read
      /\ held \cap entries = {}
      /\ Cardinality(entries) = Cardinality(skipped)
      /\ \A p \in owned : Owner(p[1]) = p[2]

\* The wallets that some list names, at any rank, and no reason excludes, with
\* the best rank they have on any list.
Eligible == {w \in Wallets : facts[w] = {} /\ \E t \in Tokens, r \in Ranks :
                                r <= Len(lists[t]) /\ lists[t][r].owner = w}
BestOfAll(w) == Min({r \in Ranks : \E t \in Tokens : r <= Len(lists[t]) /\ lists[t][r].owner = w})

\* Stopping early misses nobody better: all that are taken are eligible, and
\* no eligible wallet that was left out has a better rank, on any list and as
\* far down as the lists go, than one that was taken (discovery.rs:150, where
\* the scan stops, and compare_recipient_order).
BestAreTaken ==
  result = "report" =>
    /\ Found \subseteq Eligible
    /\ \A w \in Found, v \in Eligible \ Found : BestOfAll(w) <= BestOfAll(v)

\* Nor does it stop too early: the report has as many recipients as the limit
\* and the lists in full allow (discovery.rs:150).
LimitIsUsed ==
  result = "report" => Cardinality(Found) = Min({max_recipients, Cardinality(Eligible)})

\* What a wallet holds on the lists as far as they were read, in the smallest unit.
Widest == Max({Decimals[t] : t \in Tokens})
BalanceRead(w) ==
  MapThenSumSet(LAMBDA c : Number(Balance[c.token][c.rank]) * PowerOfTen(Widest - Decimals[c.token]),
    {c \in Read : Owner(c) = w})

\* The comparison works on strings of digits, at a scale that is another one
\* for every two recipients, and the scan stops after any rank, in the middle
\* of a wallet's holdings.  It is the order by what was read of the wallets,
\* "then aggregate normalized target-token balance as a tie-breaker", all the
\* same: every holding counts once, also those of the rank at which the scan
\* stopped, and it is a strict order whatever decimals, leading zeros and
\* carries there are, so that sort_by, which may panic on anything else, and
\* the cut at the limit follow the balances (compare_aggregate_balances_desc,
\* discovery.rs:227).
TiesByBalance ==
  result = "ranking" =>
    \A v, w \in Found :
      v # w /\ best_rank(v) = best_rank(w) =>
        (compare_recipient_order(v, w) <=>
           \/ BalanceRead(v) > BalanceRead(w)
           \/ BalanceRead(v) = BalanceRead(w) /\ v < w)
=============================================================================
