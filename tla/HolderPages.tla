----------------------------- MODULE HolderPages -----------------------------
(***************************************************************************)
(* get_token_holders: how a target token's ranked holder list is read.     *)
(* Solscan gives it in pages, read one request after the other while the   *)
(* list moves on; the RPC node gives its largest accounts in one answer,   *)
(* whatever limit is asked for.  An account of the list is a number, in    *)
(* the order of first appearance: who owns it does not matter here.        *)
(***************************************************************************)
EXTENDS Requests, FiniteSets, Sequences, FiniteSetsExt, SequencesExt

CONSTANTS
  PageSize,          \* SOLSCAN_PAGE_SIZE
  holder_fetch_limit, \* of the configuration, when Solscan is enabled
  LargestAccounts,   \* how many accounts getTokenLargestAccounts answers with
  MaxHolders,        \* BOUND: the length of a list at the provider
  MaxChanges         \* BOUND: how often a list changes while it is read

\* What a module that uses this one assumes of them.
HolderPagesAssumption ==
  /\ RequestsAssumption
  /\ PageSize \in Nat \ {0} /\ holder_fetch_limit \in Nat \ {0}
  /\ LargestAccounts \in Nat /\ MaxHolders \in Nat /\ MaxChanges \in Nat

VARIABLES
  ranking,    \* the provider's list, which is not ours: accounts by balance
  original,   \* what it was when the first request went out
  changes,    \* how often it has changed since
  page,       \* the page that is asked for, or was last
  holders,    \* the accounts that have been collected
  reading     \* "request", "done" or "error"

pageVars == <<ranking, original, changes, page, holders, reading>>

FromSolscan == client = SolscanClient

\* A read of a list begins: the first request is sent.
StartReading(c, list) ==
  /\ StartRequest(c)
  /\ ranking' = list /\ original' = list /\ changes' = 0
  /\ page' = 1 /\ holders' = <<>> /\ reading' = "request"

-----------------------------------------------------------------------------
(* The provider                                                            *)

Lists == {[i \in 1 .. n |-> i] : n \in 0 .. MaxHolders}
Fresh == Max(ToSet(ranking) \cup ToSet(original) \cup ToSet(holders) \cup {0}) + 1

\* A transfer moves an account in the ranking, into it or out of it.
Change ==
  /\ reading = "request" /\ changes < MaxChanges
  /\ \/ \E i \in DOMAIN ranking : ranking' = RemoveAt(ranking, i)
     \/ \E i \in 1 .. Len(ranking) + 1 :
          Len(ranking) < MaxHolders /\ ranking' = InsertAt(ranking, i, Fresh)
     \/ \E i, j \in DOMAIN ranking :
          i # j /\ ranking' = InsertAt(RemoveAt(ranking, i), j, ranking[i])
  /\ changes' = changes + 1
  /\ UNCHANGED <<original, page, holders, reading, requestVars>>

\* What a page of the list holds, when the request for it is answered.
Items == SubSeq(ranking, (page - 1) * PageSize + 1, min(page * PageSize, Len(ranking)))

-----------------------------------------------------------------------------
(* The client                                                              *)

\* A wrong end, which takes a missing total for zero.
should_stop_pagination_NoTotal(item_count, collected_count, total) ==
  item_count = 0 \/ collected_count >= (IF total = {} THEN 0 ELSE Max(total))

\* A wrong end, which waits for the total alone.
should_stop_pagination_AtTotal(item_count, collected_count, total) ==
  \E n \in total : collected_count >= n

\* total is {} when the answer has none, and {n} otherwise.
should_stop_pagination(item_count, collected_count, total) ==
  item_count = 0 \/ \E n \in total : collected_count >= n

\* A wrong retry, which asks for the next page instead of the same one.
RetryPage_Next(retry_after) ==
  /\ reading = "request"
  /\ Retry(retry_after)
  /\ page' = page + 1
  /\ UNCHANGED <<ranking, original, changes, holders, reading>>

RetryPage(retry_after) ==
  /\ reading = "request"
  /\ Retry(retry_after)
  /\ UNCHANGED pageVars

\* A request for good, or the conversion of one of its items, fails: the
\* read gives up with what it has collected.
RequestFails ==
  /\ reading = "request"
  /\ \E failure \in Failures \cup {"InvalidItem"} : reading' = "error"
  /\ UNCHANGED <<ranking, original, changes, page, holders, requestVars>>

\* A page of Solscan is read; another one is asked for until the limit is
\* reached or should_stop_pagination says so.
ReadPage(total) ==
  /\ reading = "request" /\ FromSolscan
  /\ LET collected == SubSeq(holders \o Items, 1, min(Len(holders \o Items), holder_fetch_limit))
         ends      == \/ Len(collected) >= holder_fetch_limit
                      \/ should_stop_pagination(Len(Items), Len(collected), total)
     IN  /\ holders' = collected
         /\ IF ends THEN reading' = "done" /\ UNCHANGED <<page, requestVars>>
                    ELSE reading' = "request" /\ page' = page + 1 /\ StartRequest(client)
  /\ UNCHANGED <<ranking, original, changes>>

\* The RPC node answers getTokenLargestAccounts; the limit is not looked at.
ReadLargest ==
  /\ reading = "request" /\ ~FromSolscan
  /\ holders' = SubSeq(ranking, 1, min(Len(ranking), LargestAccounts))
  /\ reading' = "done"
  /\ UNCHANGED <<ranking, original, changes, page, requestVars>>

ReadStep ==
  \/ \E retry_after \in RetryAfters : RetryPage(retry_after)
  \/ RequestFails
  \/ \E total \in {{}, {Len(ranking)}} : ReadPage(total)
  \/ ReadLargest

-----------------------------------------------------------------------------
(* Properties                                                              *)

PageTypeOK ==
  /\ RequestTypeOK
  /\ ranking \in Seq(Nat) /\ original \in Seq(Nat) /\ changes \in 0 .. MaxChanges
  /\ page \in Nat \ {0} /\ holders \in Seq(Nat)
  /\ reading \in {"request", "done", "error"}

\* How many accounts the provider of this list is asked for.
Wanted == IF FromSolscan THEN holder_fetch_limit ELSE LargestAccounts

\* A list that does not change is read up to the limit, each account once and
\* in its order, with and without a total in the answers and whatever was
\* retried on the way (get_token_holders, solscan.rs:66).
StillListIsRead ==
  reading = "done" /\ changes = 0 => holders = SubSeq(ranking, 1, min(Len(ranking), Wanted))

\* The pages come to an end although nothing else bounds them: each one that
\* another follows brought an account, so that a list is asked for at most
\* once more than the limit has accounts, whether the answers have a total,
\* which is the length of the list by then, or leave it out, and however the
\* list shrinks under the reader.
EveryPageBringsOne ==
  /\ page <= Len(holders) + 1
  /\ FromSolscan => Len(holders) <= holder_fetch_limit

\* Accounts that were wanted from the first request to the last.
Wanted0(list) == ToSet(SubSeq(list, 1, min(Len(list), Wanted)))
Steady == Wanted0(original) \cap Wanted0(ranking)

\* The pages are asked for by number while the list moves on, so an account
\* may slip over a page boundary: each change makes the read miss at most one
\* of those that were there all the time, and collect at most one twice.
EachChangeCostsOne ==
  reading = "done" =>
    /\ Cardinality(Steady \ ToSet(holders)) <= changes
    /\ Len(holders) - Cardinality(ToSet(holders)) <= changes
=============================================================================
