# Verification of airdrop

TLA+ models of the airdrop runner, the TLC configurations that check them, and TLAPS
proofs of what matters most.  The runner reads the holders of some target tokens, plans
transfers of a distribution token to them, packs the transfers into transactions and
sends those one after the other, over as many sessions as it takes.  Money moves, and
nothing that has moved can be called back: the project is about a run that is killed, loses
answers, times out and is resumed, and still pays everybody once.

Parse with `tlasany M.tla`, check with `tlc -config X.cfg M.tla`, prove with `tlapm M.tla`.
`PROJECT.json` lists the runs, the wrong version of the code that each property is known
to find, the source lines behind every definition, and the hazards.

## 1. The system

| Part | State | Operations | Talks to |
|---|---|---|---|
| Batch sender, `execution.rs` | the session's `LedgerProgress`, the batch, the polling attempt: lost when the process ends | `send_plan`, `wait_for_confirmation`, `rebroadcast_transaction`, `append_*`, `check_source_sol_funding` | the ledger (append, read once), the RPC node |
| Run ledger, `execution.rs`, `planning.rs` | `runs/<id>/ledger.jsonl`: it stays | `LedgerProgress::read`, `apply`, `record_batch_*`, `append_ledger_entry` | its only writer is the sender |
| Cluster and RPC node (external) | transactions and their fate, blockhashes, accounts | `sendTransaction`, `getSignatureStatuses`, `getLatestBlockhash`, reads | answers the sender, planning, the simulation and discovery |
| RPC client, `rpc.rs` | the attempt and the delay of one request | `request` with retries, chunked `getMultipleAccounts`, `getTokenLargestAccounts` | the node |
| Packing, `planning.rs` | none beyond its loop | `pack_recipients`, `estimate_legacy_transaction` | its batches are what the sender sends |
| Transaction building, `simulation.rs` | none | `build_batch_instructions`, `build_signed_batch_transaction`, `simulate_plan` | called for every batch |
| Plans and artifacts, `planning.rs` | the files of a run directory | `create_distribution_plan`, `write_plan_artifacts`, `read_plan_artifacts` | written once by `run` or `send`, read by later sessions |
| Command line, `cli.rs` | the choice of a run, its configuration, the operator's answers | `run`, `send`, `send --resume` | drives all the others |
| Discovery, `discovery.rs` | recipients and skipped candidates of one scan | `discover_holders_with_provider` | a holder provider and the node; its report is what the plan is made of |
| Solscan client, `solscan.rs` | the page, what was read, the retries of a request | `get_token_holders` | a holder provider of discovery |
| Configuration, environment, runtime, source wallet | none that changes | `ConfigFile::validate`, `from_validated_config_and_env` | everything gets its parameters there |
| Entry points, `main.rs`, `lib.rs` | none | | the command line |

What is hard here, and what makes each part correct:

* **Sender and ledger.** A crash between any two appends, or inside one; an answer that is
  lost after the node has accepted; a timeout while the transaction is on its way; a
  resume that meets all of that.  Correct means: no batch is paid twice, the ledger is
  never behind the cluster, what it records is true, batches go out in order, and a session ends.
* **Several processes on one run.** Nothing locks the directory, and an entry is written in
  pieces, so that two live processes may write inside each other's lines.  Every entry that can
  be read must still be true, whoever wrote it and however old what it had read was, and an entry
  that was spoiled must not be missed in silence.
* **Funding.** Balance and ledger are read, then a human reads and types, while
  transactions of an earlier session land.  The check must cover the rest of the run, and
  must not stand in the way of a run that can be finished.
* **Packing.** Three limits at once, for a mix of recipients; one byte too many is refused
  after other batches are paid.  Correct means: everyone once, everything fits, and the
  estimate is the truth.
* **Making a plan.** Amounts pass from a text to digits, to a 64-bit integer, to equal shares
  and back to a text; accounts are read in chunks that must line up with the recipients; what was
  read may be wrong in any field.  A plan pays its total and is read back as it was.
* **Files of a run.** Five files, one after the other, and a process that may end in any of
  them.  A run that is offered is whole, and a run of which something was sent can be resumed.
* **Runs.** Dry runs, half-written runs, runs sent in part and edits of the configuration
  share one directory.  A fresh plan must be fresh, and what is sent must be what was agreed.
* **Discovery.** Lists are read in pages while they change, requests are repeated, an early
  stop over several ranked lists comes with exclusions, ties and a cut.  Nobody better may be missed,
  nobody known to have the token taken, and nobody may vanish from the report.

The list of hazards, each at its line, is `hazards` in `PROJECT.json`.

## 2. Modules

| Module | Models | Built on |
|---|---|---|
| `Transactions` | batches, recipients, signatures | |
| `Chain` | the cluster and the RPC node, external | `Transactions` |
| `Ledger` | entries, `LedgerProgress`, `apply` | `Transactions` |
| `LedgerStore` | the ledger file as the sum of its entries, and whether it can be read | `Ledger` |
| `LedgerFile` | the same file as written piece by piece and read line by line | implements `LedgerStore` |
| `SharedFile` | the text of the ledger while several processes write to it | implements the writes of `LedgerStore` |
| `RunFiles` | all files of a run directory, over many sessions | `LedgerFile` |
| `RunDirectory` | a run directory with one process at a time, or several that send it | `RunFiles`, `SharedFile` |
| `Distribution` | the abstract promise: in order, at most once, recorded when paid | |
| `SendPlan` | `send_plan` over many sessions | `LedgerStore` + `Chain`, implements `Distribution` |
| `SharedRun` | one session among any number of others, known by their promises only, with an append in three writes | `SendPlan` |
| `TwoSenders` | two sessions on one run, in full, whose writes take turns | two instances of `SharedRun` (with its proofs, which TwoSendersProofs cites), which it implements |
| `FundedSender` | `SendPlan` behind the funding check | `SendPlan` |
| `PowerCut` | `SendPlan` on a disk that lags behind its file | `SendPlan` |
| `DecimalStrings`, `Amounts` | the arithmetic on strings of digits; amounts between text and `u64` | |
| `Startup` | configuration, environment and key | `Amounts` |
| `TokenAccounts` | accounts, as the node says and as the program takes them | `Amounts` |
| `PlanJson` | `plan.json`, out and in, and against a later configuration | |
| `Packing` | `pack_recipients` and the estimate | |
| `BatchTransaction` | the built transaction of a batch | `Packing` |
| `CreatePlan` | `prepare_run` from the configuration to the simulated plan | `Startup`, `TokenAccounts`, `PlanJson`, `BatchTransaction` |
| `Runs` | the command line over many invocations | the sender as `SendPlan` abstracts it |
| `Requests` | one HTTP request with its retries | |
| `HolderPages` | how one holder list is read | `Requests` |
| `Discovery` | the scan, ranking and cut | `DecimalStrings` |
| `HolderDiscovery` | discovery from the mints to the report | `Discovery`, an instance of `HolderPages` |
| `SendPlanProofs`, `TwoSendersProofs`, `FundedSenderProofs` | proofs about `SendPlan` and `SharedRun`, `TwoSenders`, `FundedSender` | their modules and TLAPS |
| `CreatePlanProofs` | proofs about `Packing` and `CreatePlan` | `CreatePlan`, `DataProofs` |
| `RunFilesProofs`, `RunsProofs` | proofs about `RunFiles` with `LedgerFile`, `RunDirectory` with `SharedFile`, and `Runs` | their modules and TLAPS |
| `HolderDiscoveryProofs` | proofs about requests, lists and scan | `HolderDiscovery`, `DataProofs` |
| `DataProofs` | induction, folds, sums, strings of digits, orders | `DecimalStrings` and the library's theorems |

`MC*` modules hold the values of constants that a `.cfg` cannot write down.  A definition
whose name has an ending like `_But...`, `_Not...` or `_All` after the name of the code is a
wrong version of the definition near it: a slip in the code that a property must find.

### How they follow the code

**SendPlan.** A step is one RPC request or one append, with the code up to the next.
`Start` reads the ledger (execution.rs:71), `StartUnreadable` is `LedgerProgress::read`
failing; `SkipConfirmed` and `Reconcile` are the head of the loop (execution.rs:73-140),
`Sign`, `Prepare`, `Send`, `Mismatch`, `Submit` its middle, in the order of the code:
`BatchPrepared` is written before `sendTransaction` is called.  `Poll` and `Rebroadcast` are
`wait_for_confirmation` with its attempt counter; `LogConfirmed`, `LogRecipientConfirmed`,
`LogFailed` and `LogRecipientFailed` the appends after a verdict, one step per entry.
`Crash` ends the session anywhere; every append may also be torn.  `progress` is the
session's copy, `ledger` the file: they may differ, and where they may is part of the
invariant.  A signature is the pair of batch and blockhash, because signing is
deterministic.

**Chain** is external and as weak as the client's error paths require.  `Faults` names what
may go wrong: `crash torn rpc reject lost mismatch drop txerr fork`.  Answers lag behind
the cluster and `confirmationStatus` may be null.

**LedgerFile** has pieces for lines: `serde_json::to_writer` writes to an unbuffered file
and the newline is a write of its own (execution.rs:391-398).  `Read` is
`LedgerProgress::read`, blank lines and errors included.  **RunFiles** puts that file among
the others of its directory: `CreateFile`, `WriteFile` and `CutFile` are `write_text`
(create, which truncates, then write), in the order of `write_plan_artifacts` and
`write_simulation_artifact`; `Resume` and `SendCached` are the two ways a later session
gets at them, with what `cached_run_artifacts_exist` asks.

**Writes of several processes.** A single process is the only one to look at its file, and an append is one step of
`SendPlan`, whole or torn.  Others see its writes, and write between them: `LedgerStore` has
an append as an opening, the rest of the entry and a newline (`BeginEntry`, `EndEntry`,
`EndLine`), each of which O_APPEND puts at the end of the file, wherever that is by then.
Two entries that are under way at the same time spoil a line, and from then on nobody can read the
file.  **SharedFile** is the text behind that: the pieces with their writers, and the line
reader over them.  An entry is written in more than two pieces (one for every token of the JSON), but
where it is cut makes no difference to a strict reader, with one exception: an opening that is a single brace
may fall into a string of another entry and be read as part of it.  `SharedFile` takes such a line
for spoiled.  **RunDirectory** has `RunFiles` until a process has started to send with an empty ledger, and then
`SharedFile` for it and others that do the same; nothing but the ledger is written from there on.

**SharedRun** is a session among others, whose appends are three steps each (`Appending`); what
it does after an append is shared with `SendPlan` (`Prepared`, `Submitted`, `LoggedBatch` and so on).
Of the others it is known that every entry they write is true, that they send transactions of
the plan, and that they finish only entries and lines of their own: where they fall in the file is
free.  The property `SessionIsHonest` says that this session keeps to the same, and no more: it
may spoil a line of theirs as they may spoil its own, but what of it can be read is true, and no
write of it makes a spoiled file readable again.  So the assumption on the
others is one that each of them fulfils, and their number does not matter.  **TwoSenders** has two sessions in full
over one ledger and one cluster, and each is shown to be a `SharedRun`.

**FundedSender** adds a price to every transaction: `CheckFunding` is
`check_source_sol_funding` (cli.rs:99) and happens some time before `StartFunded`.
**PowerCut** adds the copy of the ledger on the disk, to which the operating system writes when it likes.

**CreatePlan** has one action per step of `prepare_run`: the configuration and environment
are any of a set of records, and a failed check is a named error that ends the process;
`ConvertAmount` does the amounts digit by digit, with the width of `u64` as `MaxRaw`; the accounts of
recipients are asked for in chunks, and an answer may have a wrong length; then the rounds
of `Packing`, the artifacts with `PlanJson`, and one simulated batch per step.

**Packing** has one action per branch of the loop: `Fits`, `Opens`, `DoesNotFit`, and `Finish`
after it.  Sizes are the program's own constants.  A batch is a set of indexes, since the
loop adds increasing ones.  `limits` never changes: the program has one value of each limit,
and others stand for longer plans.  **BatchTransaction** builds the
instructions and counts the account keys as a set, as message compilation does.

**Runs** has an action for every prompt, file and phase of `cli.rs`; `Stop` is any other
answer, an error or a kill.  A run directory keeps which files exist and what was sent;
sending is what `SendPlan` has been shown to do: one batch in flight, written first.

**Requests** is the loop that `rpc.rs` and `solscan.rs` share, with the limits of either:
which answers are retried, the doubled delay, `Retry-After` and its cap.  **HolderPages** reads
one list with it, page after page, while accounts enter, leave and move on the list.
**HolderDiscovery** puts it in its place: distribution mint, existing accounts, target mints,
lists, scan, while wallets get accounts of the token.  **Discovery**, the scan, reads one rank per step, across the
tokens.  An entry of a list carries what its verification would find; a wallet carries the
reasons `exclusion_reason` would find and the first one in the code's order counts.
Balances are strings of digits, scaled and added as the code does.  The order of recipients
is a relation, so the report is the set of those with fewer than `max_recipients` ahead of them.

## 3. Runs

| Run | Instance | Shows |
|---|---|---|
| `send_plan` | 2 batches, 3 blockhashes valid for one each, 3 attempts, all faults but `fork`, behind the funding check with funds 4 to 5 | nothing is paid twice or out of order, the ledger is ahead and true and keeps what it has, the wallet covers what is spent, `Distribution` is implemented |
| `resume` | 3 batches of 2, lost answers and failing reads, funds 7 to 12, weak and strong fairness | sessions end; resuming completes a run whose wallet can pay the dearest batch twice; then everyone has an entry |
| `two_senders` | 1 batch, 2 blockhashes, 2 attempts, failures; writes that interleave, and processes that die in them | each process is a session of `SharedRun`, whatever its view of the ledger; that what either writes is true and what it reports as sent was paid is then `SharedLogIsTrue` and `SharedOkWasPaid` |
| `ledger_file` | one directory, any sessions, ledgers up to 4 pieces; or two writers at once, up to 5 writes of any entries | the ledger implements `LedgerStore`, a read without error is complete; what is offered is whole; an entry has a plan; of several writers the lines are what `LedgerStore` says of the writes, and a reader who gets through has every entry of both |
| `packing` | 7 recipients, all choices of creates in chunks of 4, three limits, `u64` of 255; a file, an environment and answers that are wrong in one field | the plan pays its total and creates what is missing; everyone once, fits, fewest, refused only if too large, estimate exact; `plan.json` reads back |
| `runs` | 2 run directories, 2 wallets, 2 identities, 2 sets of options | an offered run is unsent and whole; what is sent was agreed |
| `discovery` | 3 wallets, 2 tokens; lists up to 4 accounts, pages of 2, limit 3, one change, 4 and 6 attempts; then every pair of lists up to 3 entries | requests and pages end, a still list is read exactly, a change costs one account; nobody known is taken, nobody lost, the stop misses nobody better, ties go by balance |
| `send_rejected` | a node that refuses | **violated**, see below |
| `forked_error` | failures and dropped forks | **violated**, see below |
| `torn_ledger` | a torn append | **violated**, see below |
| `cached_run` | two runs of the same identity | **violated**, see below |
| `power_cut` | one batch, a lost answer | **violated**, see below |

**Bounds, and why they are enough.** Two batches are needed for order and for a session that
skips one; what happens to a third is what happens to the second (`resume` has three).  Three blockhashes let a batch be
signed, fail, be signed again and fail again.  A window of one makes the
oldest expire at every change.  Three attempts with a rebroadcast at the second reach the
three cases of the counter: no rebroadcast, one, and the last attempt.  Two entries and a
torn one per line are all that lines can hold before they are corrupt; five writes are a whole
append and one under way, or two that are mixed, with the end of their line and the next beginning.  In `two_senders` a process dies only inside an append (`torn`): between two
appends its death leaves what a session that ends with an error leaves.  Two attempts with a rebroadcast at the first
are the last attempt and one before it.  A price of 1 with a
rent of 2 for the first batch makes a plan of 4: a wallet of 4 holds just that, one of 5 a failed fee more.
Seven recipients in chunks of four have a full and a partial answer; with the
three limits they make plans of up to four batches, filled by size, by instructions or by locks, and recipients that
fit none.  255 stands for the largest `u64`: amounts below, at and above it occur.  One wrong
field at a time reaches every check, since a check looks at one or two of them in a fixed order.  Two runs and two
configurations are what every comparison in `cli.rs` takes.  Three wallets with a limit of
two or three are the smallest cut and no cut, and a rank of two tokens can bring two recipients at once.  Pages of two of a limit of
three end within a page; one change is enough to shift every later page.
`MaxBlockhash`, `MaxPieces`, `MaxWrites`, `MaxRuns`, `MaxHolders` and `MaxChanges` are bounds of the models and not of the program,
and `FetchLimit`, which is the program's limit of a list, bounds the lists of the RPC node too, which the program takes as they come:
in the instance both are three.

**Deadlock** is checked where the system should go on.  `packing`, `ledger_file` and
`discovery` end (a plan is simulated, the file is full, a report is made); in `send_plan` and
`resume` a wallet that the check refuses stops for good.

**Fairness.** `SessionFairness` says that a running session takes its next step: requests end
because the HTTP client has timeouts (rpc.rs:61-71), and appends end.  It says nothing of
cluster or operator, and the safety properties do not use it.  `ResumingSpec` and
`FundedResumingSpec` add an operator who checks, confirms and starts again, a cluster that processes and confirms what it has
accepted, and a node that does not lag behind or fail forever when it is asked again and again (strong fairness, since each
session asks anew).  Starting is strongly fair too, since the operator may give up at the
prompt, and does not do so every time.  With a node that may refuse (`reject`), or drop, that is not enough: this is `send_rejected`.

### What disagrees with the documents

* `send_rejected`: a transaction that was prepared and refused counts as in flight for
  ever; every resume ends in `PendingBatchNotConfirmed`, even when its blockhash is long
  dead.  The specification says the runner must be resumable.
* `forked_error`: an error at `processed` is taken for final.  If that fork is dropped, the first
  transaction may still succeed after a second one was signed.  The specification has `confirmed` for all
  reads.  The theorems of section 4 exclude this fault by name.
* `torn_ledger`: an append that is cut short makes the ledger unreadable for all later sessions.
* `cached_run`: `send` offers an old dry run after a newer run has paid the same wallets,
  and its recipients are not checked against current holders again.
* `power_cut`: the entry of a prepared batch is written and not synced; after a power cut it
  may be missing while the transaction is with the cluster.  The specification calls it durable.

Seen while modelling, without a run of its own:

* Two live processes that send one run write inside each other's lines (`SharedFile`, `BeginEntry` in
  `LedgerStore`); nobody dies, and every later session finds the ledger unreadable.
* The ledger is read once, when a session starts (execution.rs:71); one that has read it before another
  session records a batch as confirmed sends that batch in a transaction of its own afterwards.  The specification
  says never to resend to a confirmed recipient (docs/airdrop-cli-spec.md:281); `SharedRun` and `TwoSenders` let it
  happen as the code does, and what is proved of them holds all the same.
* A crash between `BatchConfirmed` and the last `RecipientConfirmed` leaves recipients
  without an entry for good, since a resume skips the confirmed batch (so `OkMeansLogged` is
  checked, and proved, without crashes).
* An accepted amount may still end a run after its scan, when the decimals of the token are known: with more
  digits behind the dot than they hold (`TooManyFractionalDigits`), or more raw units than a u64
  has (`AmountExceedsSplTokenLimit`).  `UsableStart` says that nothing else is wrong with its text, and that these two are
  never missed.  A total below the number of recipients, or above the balance of the
  source, is found after the scan as well; both are only known then.
* A batch that landed but is not recorded is asked for again by the funding check, which comes
  before the reconciliation (cli.rs:99, 135): a wallet that held just the estimate may be
  refused by every resume.  `FundedRunCompletes` states what is left of the promise.
* A scan that stops early breaks ties by the part of the balance it has read
  (discovery.rs:150); `TiesByBalance` is about that part.

## 4. Proofs

Every invariant and every action or refinement property that a passing run checks is also a
theorem; the two liveness properties are not.  The theorems are for every value of the
constants, from the named assumptions on them.  These say no more than what the code or its
types give:

* `PlanAssumption`, `ChainAssumption`, `PollAssumption`, `PackingAssumption`, `FileAssumption`, `DirectoryAssumption`,
  `RunsAssumption`, `AmountsAssumption`: sizes, limits, widths and bounds are naturals, positive where the
  code has a positive constant or refuses zero;
* `CreatePlanAssumption`: the configurations, environments and answers are records of the fields
  the code reads; `StartupAssumption`: no text of a key is the value that stands for no key;
* `FundsAssumption`: prices are naturals, and a batch creates at most one account for each of its
  recipients, as the packing counts them;
* `DiscoveryAssumption`, `HolderDiscoveryAssumption`, `ListsAssumption`: balances are strings of
  digits, there is a target token (`validate` refuses none), delays start within their limits;
* `TwoSendersAssumption`: those of `SendPlan`, which both instances share.

**DataProofs** has what the others need of data.  The library's induction theorems take an
operator and cannot be used, so a property to be proved by induction is given as the set of the
values that have it (`InductionOnNat`, `InductionOnSubsets`, `InductionOnSeq`, from
`WFMin`), and a fold by its recursive equation, which `FoldExists` shows to have a solution.
Sums over sets follow (`SumAdd`, `SumUnion`, `SumSubset`, `SumOfSizes`), and the strings of
digits: at any length `decimal_less`, `add_decimal_strings` and `scale_raw_amount_string` are
the order, the sum and the product by a power of ten of the numbers the strings stand for
(`DecimalLess`, `AddDecimals`, `NumberScaled`).  The prover knows nothing of `^`, so powers of ten are
a function of their own, `PowerOfTen`.

**SendPlanProofs.** `TypeCorrect` needs no more than types and what fits the program counter
(`SessionInv`).  The safety theorems are for all faults but `fork`.  None of the properties is inductive: that
nobody is paid twice depends on what the ledger says of a transaction still pending, and that
on what the session remembers.  `Inv` is the strengthening:

* `ProgressInv`: the session's copy is the file, but for the entry it is about to write;
* `LoopInv`: the loop has passed confirmed batches only;
* `SignatureInv`: where the session works on a signature, the ledger has it in flight, and
  where it logs a verdict, the cluster has that verdict;
* `LedgerInv`, `WriteAhead`, `ConfirmedIsPaid`, `InOrder`: a transaction the cluster has
  heard of is in flight in the ledger under its own batch, behind confirmed ones, or failed.

`NoDoublePay` follows at once: a second success would have to be the same signature in flight.
`Invariance` is the induction, by the kind of step: cluster, request, append, end.  From `Inv` come
`PaysAtMostOnce`, `LedgerIsAhead`, `ConfirmedWasPaid`, `SendsInOrder`, `OkWasPaid`, the
action property `LedgerIsKept`, and `Refinement`: each step of `SendPlan` is a `Pay`, a `Record` or
a stutter of `Distribution`.  `RecipientsAreRecordedTruly` adds the recipient entries, each
of which is of a signature with that verdict; `OkWasLogged`, for runs without crashes and torn appends, that the
entries of a confirmed batch are there but for those the session is about to write.

Its second part is about `SharedRun`.  With other processes on the run `Inv` is lost: the session's copy is old,
a batch may be in flight twice and out of order.  `SharedInv` keeps what needs none of
it: every signature that a `LedgerProgress` has, of the file or in memory and of any age, is of its own
batch, and a confirmed one was paid (`TrueProgress`), because what is so stays so when no fork is dropped; the verdict a session
is about to write is true (`KnowsVerdict`); the batches it has passed are paid
(`PassedPaid`).  `WritingInv` says that a session is inside an append only where the code makes one, and
`TruthfulWrite` that the entry it finishes there is true: what it knew when the append began
is still so, whatever was written in between.  `SharedOkWasPaid` and `SharedLogIsTrue` follow, and `SessionsAreHonest`: the session
writes only what the others are assumed to write.  None of this says that the file stays readable: it does not.

**TwoSendersProofs.** `TwoAreShared`: each of two full sessions is a session of `SharedRun`.
The argument is circular only in appearance.  A step of one is a step of "others" to the other one
because `SharedInv` held of it before the step (`SessionIsOther`), and keeps `SharedInv` of
both; so the conjunction of the two is inductive.  That a process finishes only lines of its own needs
`Apart`: the end of the file is never both an entry that one of them has begun and one of the other (`NotMine`).  The lemmas are those of SendPlanProofs, cited through
the instances.  `BothAreTrue` is what the two sessions gain by it.

**FundedSenderProofs.** `FundedIsSendPlan` brings all of the above to the sender behind its check.
`FundsSuffice` needs `BudgetInv`: a session that may still send has enough left for every batch that has
not succeeded; one that met a failure ends before it sends again, and needs enough only for
what is on its way.  The fees of failures that the balance did not show when it was
read (`missed`) are the only shortfall.  The check implies the invariant because what
the ledger does not have as confirmed covers what the cluster may still charge (`RequiredCovers`).

**CreatePlanProofs.** For `Packing`: the limits are monotone (`LimitsMonotone`), so a part of a batch that fits
fits.  `EveryoneIsPackedOnce` and `EveryBatchFits` are inductions over the loop.
`PackingIsShortest` is "greedy stays ahead": no packing with as many batches as are closed
gets past the first recipient of the open one.  `RefusalIsJustified`: the recipient the loop gives up
at does not fit alone, hence not with others.  For the plan around it:

* `PlansArePacked` carries those four over: the steps around the packing leave its variables alone
  or reset them to an initial state;
* `MissingAreCreated` is from `AnswersInv`: after any number of chunks the answers are
  as many as were asked for, in the order of the recipients;
* `EstimatesAreExact` compares two sums over a batch, of what is estimated and of what is built, and
  `NoPlanIsTooLarge` concludes that no packed plan fails its simulation at a limit;
* `TheTotalIsPaid` counts the transfers of all batches, one for each recipient
  (`SumOfSizes` over disjoint batches), from `AmountInv`: what is converted is kept, and nobody gets
  a share of nothing;
* `AmountsAreExact`: the loop over the digits gives the number of the text or an error before `MaxRaw` is passed,
  and what `format_raw_amount` writes, padded and with its zeros trimmed, is read as the number it was
  (`DigitsOf`, `TrimEnd`, `PaddedDigits`, `ShownReadsBack`);
* `AcceptedStartIsUsable` has the amount from `RefusedForTheDecimals`: the conversion of an accepted text fails exactly if
  `WrongFor`, which does not look at the conversion, says so of its number and the decimals;
* `AcceptedStartIsUsable` and `PlanJsonsAreTrue` are from `StartInv` and `ConfigInv`:
  a process works with what `validate` made of one file and the runtime of one environment.

**RunsProofs.** `OfferedIsUnsent` rests on what a directory tells of itself (an empty ledger
means nothing in flight or paid, a simulation means a whole plan), `SentIsAgreed` on what
each place of the process implies about its source.

**RunFilesProofs.** `DirInv`: while the files are written, those before the next one are whole and
nothing is sent (`WrittenInOrder`), a simulation is behind whole tables (`SimulationIsLast`), and a
session that may send, like a ledger with an entry, has a plan that parses (`PlanStays`).  `TakenUpRunsAreWhole` follows.
`ReadersMissNothing` and `LinesAreAStore` are about the ledger as lines: the reader is a run over the
pieces, so that one more piece is one more step of it, and `FileInv` says at once what it has read
of a file it gets through and that a bad last line is an error.  Each append is then an append of
`LedgerStore`, torn or not, or a stutter.
`SharedReadersMissNothing` and `SharedLinesAreAStore` are the same for any number of writers.  `TextInv` gives
each writer's place: as long as there is no error, the reader has every entry, at most one writer is
in an append, and the last line is as far as that one is; so a write behind anybody else's is an error at once.
What was proved of `RunFiles` holds of `RunDirectory` too (`DirectoryIsRun`).

**HolderDiscoveryProofs.** `RetriesBounded`: the time slept lies between
what was asked for and the product of attempts and longest delay (`RequestInv`).  `PagesEnd` and
`StillListsAreRead` are from `ListInv`: what was read of an unchanged list is its prefix as
long as the pages so far, so that the next page continues it.  `ChangesCostOne` is from `MoveInv`, which counts
at every page boundary who has slipped before it unread and who behind it again: a change moves
one account and shifts the others by one place, so that at most one crosses each way.

`KnownHoldersAreExcluded` is from `FactsInv`: what was loaded of a wallet stays among the reasons against it.
`EveryCandidateIsAccounted` is from `AccountInv`: each candidate read is in the holdings
of its owner, or skipped once, never both, for lists that hold an account twice as well.
`TheBestAreTaken` is from `MergeInv`: before the cut a wallet with nothing against it holds all
that was read of it, and who is ahead of one recipient is ahead of all with a worse rank
(`AheadByRank`), so that the cut takes nobody before somebody better; beyond the rank at which the scan
stopped nobody can have a better one.  `TiesAreByBalance` turns the comparison of strings, at a
scale of its own for every pair, into that of the sums; hence the order is strict and total, so
that exactly n of the recipients (or all) have fewer than n ahead of them, and `TheLimitIsUsed`
follows with `LimitInv` (the scan ends only with enough recipients or at the last rank).

**Only model-checked** is liveness, `SessionsEnd` and `FundedRunCompletes`: fairness and `ENABLED`
are outside the prover's reach.  The five runs that end in a violation have no theorem, of course.

## 5. Not modelled

The entry points (`main.rs`, `lib.rs`: no state, no decision).  The syntax of HTTP, JSON-RPC,
JSON, CSV and TOML: a parse is one outcome of its reader.  The layout and wording of tables, reports and prompts.  The
bytes of keys and addresses, and the cryptography: a key is one of a few outcomes, a signature is injective.
Slots and block heights, which decide nothing.  `DuplicateRecipient` of `create_distribution_plan`:
the wallets of a report are the keys of a map, so that no report reaches it.  What a
simulation computes: it is an outcome per batch.

What the models assume of others, without a check: the node confirms what it answers without a level, and a
balance it reads is the newest.  A wallet's holdings elsewhere are loaded and judged in one step, so that
`KnownHoldersAreExcluded` does not measure how old they are when the recipients are paid; accounts passed over in silence
(discovery.rs:526-540) are none that the lists of the model hold; reports are sets, in which a skip
recorded twice is one.

## 6. Plan

Modelled first because most depends on it: sender, ledger, cluster.  Then packing, funding,
runs, discovery; then what feeds them and what they leave behind: configuration, plan creation, the
files of a run, requests and pages, power cuts, several processes.  All of that is done, and the
safety properties are proved.  What is left, in this order:

1. Several senders over dropped forks: what of `SharedInv` survives.
2. `FundedSender` with more than one process.
