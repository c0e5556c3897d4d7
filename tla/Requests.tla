------------------------------ MODULE Requests ------------------------------
(***************************************************************************)
(* One request of the blocking clients: request of HttpRpcClient (rpc.rs)  *)
(* and request_token_holders_page of SolscanClient (solscan.rs) are the    *)
(* same loop over attempts with other limits.  An answer is retried, after *)
(* a sleep, only for status 429 and 5xx; everything else ends the request. *)
(* What the answer carries is left to the modules that use the request.    *)
(***************************************************************************)
EXTENDS Naturals

\* A client's limits: its attempts, and the first and longest sleep, in seconds.
Clients == [attempts : Nat \ {0}, initial_delay : Nat \ {0}, max_delay : Nat \ {0}]

CONSTANTS
  SolscanClient,   \* SOLSCAN_MAX_ATTEMPTS, ..._INITIAL_RETRY_DELAY, ..._MAX_RETRY_DELAY
  HttpRpcClient,   \* RPC_MAX_ATTEMPTS, RPC_INITIAL_RETRY_DELAY, RPC_MAX_RETRY_DELAY
  RetryAfters      \* the values of a Retry-After header; 0 when there is none

\* What a module that uses this one assumes of them.
RequestsAssumption ==
  /\ SolscanClient \in Clients /\ SolscanClient.initial_delay <= SolscanClient.max_delay
  /\ HttpRpcClient \in Clients /\ HttpRpcClient.initial_delay <= HttpRpcClient.max_delay
  /\ RetryAfters \subseteq Nat

VARIABLES
  client,        \* the client of the request
  attempt,       \* the attempt that is out
  retry_delay,   \* what the next sleep takes when the server does not say
  slept,         \* how long the request has slept so far
  asked          \* what the last answer asked for; 0 at first, and for nothing

requestVars == <<client, attempt, retry_delay, slept, asked>>

min(m, n) == IF m <= n THEN m ELSE n

\* A request goes out.
StartRequest(c) ==
  /\ client' = c
  /\ attempt' = 1
  /\ retry_delay' = c.initial_delay
  /\ slept' = 0
  /\ asked' = 0

\* A wrong test, which lets the last attempt be followed by another.
MayRetry_AtLast == attempt <= client.attempts

MayRetry == attempt < client.attempts

\* parse_retry_after drops a zero, so that the client's own delay is taken.
Delay(retry_after) ==
  min(IF retry_after = 0 THEN retry_delay ELSE retry_after, client.max_delay)

\* A retryable status before the last attempt: sleep, double the delay, repeat.
Retry(retry_after) ==
  /\ MayRetry
  /\ slept' = slept + Delay(retry_after)
  /\ retry_delay' = min(retry_delay * 2, client.max_delay)
  /\ attempt' = attempt + 1
  /\ asked' = retry_after
  /\ UNCHANGED client

\* Why a request fails: a retryable status only when no attempt is left.
Failures ==
  {"Transport", "HttpStatus", "Decode", "Remote", "MissingData"}
    \cup (IF MayRetry THEN {} ELSE {"RetryableStatus"})

-----------------------------------------------------------------------------
(* Properties                                                              *)

RequestTypeOK ==
  /\ client \in {SolscanClient, HttpRpcClient}
  /\ attempt \in Nat \ {0} /\ retry_delay \in Nat \ {0} /\ slept \in Nat
  /\ asked \in RetryAfters \cup {0}

\* The loop over the attempts returns from its body: the unreachable! behind
\* it (solscan.rs:156, rpc.rs:146) is one, and no request is repeated more
\* often, or sleeps longer in all, than its limits allow, whatever the server
\* asks for in Retry-After.  A client that is told to slow down does so: each
\* new attempt comes after a sleep of a second or more, also when the server
\* asks for none, and a server that says for how long is not asked again
\* before that time, or the longest sleep of the client, has passed.
RetriesAreBounded ==
  /\ attempt <= client.attempts
  /\ attempt - 1 <= slept /\ slept <= (attempt - 1) * client.max_delay
  /\ attempt > 1 => slept >= min(asked, client.max_delay)
=============================================================================
