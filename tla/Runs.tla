-------------------------------- MODULE Runs --------------------------------
(***************************************************************************)
(* The command line over many invocations (cli.rs): `run`, `send` and      *)
(* `send --resume` make, find and send the run directories under runs/.    *)
(* One process works at a time; it may die between any two steps.  The     *)
(* sender is what SendPlan implements: one batch in flight, written to the *)
(* ledger first and never paid twice; a batch is one recipient here.       *)
(***************************************************************************)
EXTENDS Naturals, Sequences

CONSTANTS
  Wallets,      \* holders of the target tokens
  Identities,   \* cluster, source wallet and distribution token
  Options,      \* the rest of the configuration
  MaxRuns       \* bound: run directories

ASSUME RunsAssumption == MaxRuns \in Nat

VARIABLES
  config,     \* config.toml, which the operator edits
  loaded,     \* the configuration this process has loaded
  runs,       \* the run directories, the oldest first
  pc,         \* where this process is
  command,    \* what it was started for: "run" or "send"
  run,        \* the directory it works on
  source,     \* where its plan comes from
  simulated   \* whether it has simulated that plan with success

vars == <<config, loaded, runs, pc, command, run, source, simulated>>

session == <<loaded, pc, command, run, source, simulated>>

Config == [identity : Identities, options : Options]

PCs == {"idle", "offered", "override", "discover", "plan", "ledger",
        "simulate", "fund", "confirm", "send"}

(***************************************************************************)
(* A run directory: what was planned under which configuration, which of   *)
(* its files are there, and what the cluster has of it.                    *)
(***************************************************************************)
RunDir ==
  [recipients : SUBSET Wallets,
   config     : Config,
   plan       : {"none", "torn", "whole"},
   ledger     : {"none", "empty", "entries"},
   simulation : BOOLEAN,
   in_flight  : SUBSET Wallets,
   paid       : SUBSET Wallets]

Init ==
  /\ config \in Config
  /\ loaded = config
  /\ runs = <<>>
  /\ pc = "idle"
  /\ command = "run"
  /\ run = 0
  /\ source = "none"
  /\ simulated = FALSE

-----------------------------------------------------------------------------
(* Which plan.                                                             *)

Begin(what) ==
  /\ pc = "idle"
  /\ loaded' = config
  /\ command' = what
  /\ simulated' = FALSE
  /\ UNCHANGED <<config, runs>>

\* `airdrop run`
Run == Begin("run") /\ pc' = "discover" /\ run' = 0 /\ source' = "scan"

\* A wrong cached_run_artifacts_exist, without the look into the ledger.
cached_run_artifacts_exist_NotEmpty(r) ==
  runs[r].plan # "none" /\ runs[r].simulation /\ runs[r].ledger # "none"

cached_run_artifacts_exist(r) ==
  /\ runs[r].plan # "none"
  /\ runs[r].simulation
  /\ runs[r].ledger = "empty"

cached_runs == {r \in DOMAIN runs : cached_run_artifacts_exist(r)}

\* `airdrop send` finds a cached run: the newest is offered.
SendCached ==
  /\ Begin("send")
  /\ pc' = "offered"
  /\ source' = "cached"
  /\ \E r \in cached_runs : run' = r /\ \A s \in cached_runs : s =< r

\* `airdrop send` finds none.
SendFresh ==
  /\ Begin("send")
  /\ cached_runs = {}
  /\ pc' = "discover" /\ run' = 0 /\ source' = "scan"

\* A wrong CanLoad, which does not compare the plan with the configuration.
CanLoad_NotCompared(r, cfg) == runs[r].plan = "whole"

\* read_plan_artifacts and the checks of prepare_resume.
CanLoad(r, cfg) ==
  /\ runs[r].plan = "whole"
  /\ runs[r].config.identity = cfg.identity

\* `airdrop send --resume`: no simulation, whatever the directory holds.
Resume ==
  /\ Begin("send")
  /\ \E r \in DOMAIN runs : CanLoad(r, config) /\ run' = r
  /\ pc' = "fund"
  /\ source' = "resume"

\* The answer Y; validate_cached_plan_config compares the whole of the
\* configuration, and a difference asks for OVERRIDE.
UseCached ==
  /\ pc = "offered"
  /\ CanLoad(run, loaded)
  /\ pc' = IF runs[run].config = loaded THEN "simulate" ELSE "override"
  /\ UNCHANGED <<config, loaded, runs, command, run, source, simulated>>

Override ==
  /\ pc = "override"
  /\ pc' = "simulate"
  /\ source' = "override"
  /\ UNCHANGED <<config, loaded, runs, command, run, simulated>>

\* The answer N.
FullScan ==
  /\ pc = "offered"
  /\ pc' = "discover" /\ run' = 0 /\ source' = "scan"
  /\ UNCHANGED <<config, loaded, runs, command, simulated>>

-----------------------------------------------------------------------------
(* Discovery, planning and simulation.                                     *)

\* Whom the runs have paid: they hold the distribution token since.
Holders(identity) ==
  UNION {runs[r].paid : r \in {s \in DOMAIN runs : runs[s].config.identity = identity}}

NewRun == Len(runs) + 1

\* Discovery excludes the holders of the distribution token; the plan needs a
\* recipient, and gets a directory.
Discover ==
  /\ pc = "discover"
  /\ Len(runs) < MaxRuns
  /\ \E chosen \in SUBSET (Wallets \ Holders(loaded.identity)) \ {{}} :
       runs' = Append(runs, [recipients |-> chosen, config |-> loaded, plan |-> "none",
                             ledger |-> "none", simulation |-> FALSE,
                             in_flight |-> {}, paid |-> {}])
  /\ run' = NewRun
  /\ pc' = "plan"
  /\ UNCHANGED <<config, loaded, command, source, simulated>>

WritePlan ==
  /\ pc = "plan"
  /\ runs' = [runs EXCEPT ![run].plan = "whole"]
  /\ pc' = "ledger"
  /\ UNCHANGED <<config, loaded, command, run, source, simulated>>

\* The process dies inside the write of plan.json.
TearPlan ==
  /\ pc = "plan"
  /\ runs' = [runs EXCEPT ![run].plan = "torn"]
  /\ pc' = "idle"
  /\ UNCHANGED <<config, loaded, command, run, source, simulated>>

WriteLedger ==
  /\ pc = "ledger"
  /\ runs' = [runs EXCEPT ![run].ledger = "empty"]
  /\ pc' = "simulate"
  /\ UNCHANGED <<config, loaded, command, run, source, simulated>>

\* Every batch simulates.  A dry run ends here.
Simulate ==
  /\ pc = "simulate"
  /\ runs' = [runs EXCEPT ![run].simulation = TRUE]
  /\ simulated' = TRUE
  /\ pc' = IF command = "run" THEN "idle" ELSE "fund"
  /\ UNCHANGED <<config, loaded, command, run, source>>

\* simulation.json is written before its failures are looked at.
SimulationFails ==
  /\ pc = "simulate"
  /\ runs' = [runs EXCEPT ![run].simulation = TRUE]
  /\ pc' = "idle"
  /\ UNCHANGED <<config, loaded, command, run, source, simulated>>

-----------------------------------------------------------------------------
(* Sending.                                                                *)

\* The balance covers the pending batches.
Funded ==
  /\ pc = "fund"
  /\ pc' = "confirm"
  /\ UNCHANGED <<config, loaded, runs, command, run, source, simulated>>

\* The operator types the confirmation phrase.
Confirm ==
  /\ pc = "confirm"
  /\ pc' = "send"
  /\ UNCHANGED <<config, loaded, runs, command, run, source, simulated>>

Prepared(w) == [runs EXCEPT ![run].in_flight = {w}, ![run].ledger = "entries"]

\* The next batch is written to the ledger and sent.
SendBatch ==
  /\ pc = "send"
  /\ runs[run].in_flight = {}
  /\ \E w \in runs[run].recipients \ runs[run].paid : runs' = Prepared(w)
  /\ UNCHANGED <<config, session>>

Finish ==
  /\ pc = "send"
  /\ runs[run].recipients = runs[run].paid
  /\ pc' = "idle"
  /\ UNCHANGED <<config, loaded, runs, command, run, source, simulated>>

\* A transaction in flight lands, while its sender waits for it or later.
Land(r) ==
  /\ runs[r].in_flight # {}
  /\ runs' = [runs EXCEPT ![r].paid = @ \cup runs[r].in_flight, ![r].in_flight = {}]
  /\ UNCHANGED <<config, session>>

\* Another answer at a prompt, an error, or the end of the process.
Stop ==
  /\ pc # "idle"
  /\ pc' = "idle"
  /\ UNCHANGED <<config, loaded, runs, command, run, source, simulated>>

EditConfig == config' \in Config /\ UNCHANGED <<runs, session>>

Process ==
  \/ Run \/ SendCached \/ SendFresh \/ Resume
  \/ UseCached \/ Override \/ FullScan
  \/ Discover \/ WritePlan \/ TearPlan \/ WriteLedger
  \/ Simulate \/ SimulationFails
  \/ Funded \/ Confirm \/ SendBatch \/ Finish \/ Stop

Next == Process \/ EditConfig \/ \E r \in DOMAIN runs : Land(r)

Spec == Init /\ [][Next]_vars

-----------------------------------------------------------------------------

TypeOK ==
  /\ config \in Config
  /\ loaded \in Config
  /\ runs \in Seq(RunDir)
  /\ pc \in PCs
  /\ command \in {"run", "send"}
  /\ run \in 0 .. Len(runs)
  /\ pc \notin {"idle", "discover"} => run # 0
  /\ source \in {"none", "scan", "cached", "override", "resume"}
  /\ simulated \in BOOLEAN

\* A run that is offered as cached, or that was taken for it and is not being
\* sent yet, is one of which nothing was ever sent, by whatever sessions there
\* were, and its plan is whole.
CacheIsUnsent ==
  pc \in {"offered", "override"} =>
    /\ runs[run].in_flight = {} /\ runs[run].paid = {}
    /\ runs[run].plan = "whole"

\* What a process sends is what its operator has agreed to: a plan for the
\* cluster, the wallet and the token of the configuration it has loaded; if it
\* was not asked to resume, one that it has simulated, and if it was not told
\* to override either, one that was made under that very configuration.
SendsWhatWasAgreed ==
  pc = "send" =>
    /\ command = "send"
    /\ runs[run].config.identity = loaded.identity
    /\ source # "resume" => simulated
    /\ source \in {"scan", "cached"} => runs[run].config = loaded

\* A cached run that is about to be sent has no recipient that already holds
\* the distribution token from another run: those are always excluded.
CachedExcludesHolders ==
  pc = "confirm" /\ source = "cached" =>
    runs[run].recipients \cap Holders(loaded.identity) = {}

=============================================================================
