----------------------------- MODULE RunsProofs ------------------------------
(***************************************************************************)
(* Proofs about Runs: for every set of wallets and configurations, and any *)
(* number of runs, a cached run that is offered is one nothing was sent    *)
(* of, and a process sends what was agreed.                                *)
(***************************************************************************)
EXTENDS Runs, TLAPS

USE RunsAssumption

-----------------------------------------------------------------------------
(* The inductive invariant.                                                *)

\* What a directory shows tells what became of its run: nothing was sent of a
\* run without ledger entries, and one that was simulated has its plan and its
\* ledger.
DirsTell ==
  \A r \in DOMAIN runs :
    /\ runs[r].ledger # "entries" => runs[r].in_flight = {} /\ runs[r].paid = {}
    /\ runs[r].simulation => runs[r].plan = "whole" /\ runs[r].ledger # "none"

\* Where the process is, tells what its run has.
PlaceTells ==
  /\ pc \in {"plan", "ledger"} => runs[run].ledger = "none" /\ ~runs[run].simulation
  /\ pc = "ledger" => runs[run].plan = "whole"
  /\ pc = "simulate" => runs[run].plan = "whole" /\ runs[run].ledger # "none"
  /\ pc \in {"offered", "override"} => cached_run_artifacts_exist(run)

\* Where its plan comes from, tells what it is made of.
SourceTells ==
  /\ pc \in {"offered", "override", "fund", "confirm", "send"} => command = "send"
  /\ pc \in {"discover", "plan", "ledger"} => source = "scan"
  /\ pc \in {"offered", "override"} => source = "cached"
  /\ pc = "simulate" => source \in {"scan", "cached", "override"}
  /\ pc = "override" => runs[run].config.identity = loaded.identity
  /\ pc \in {"plan", "ledger"} => runs[run].config = loaded
  /\ pc \in {"simulate", "fund", "confirm", "send"} =>
       /\ runs[run].config.identity = loaded.identity
       /\ source \in {"scan", "cached"} => runs[run].config = loaded
  /\ pc \in {"fund", "confirm", "send"} => source = "resume" \/ simulated

Inv == TypeOK /\ DirsTell /\ PlaceTells /\ SourceTells

-----------------------------------------------------------------------------

LEMMA InitInv == Init => Inv
<1> SUFFICES ASSUME Init PROVE Inv
  OBVIOUS
<1>1. TypeOK
  <2>1. runs = <<>> /\ run = 0 /\ Len(<<>>) = 0
    BY DEF Init
  <2>2. runs \in Seq(RunDir) /\ run \in 0 .. Len(runs)
    BY <2>1
  <2> QED
    BY <2>2 DEF Init, TypeOK, PCs
<1> QED
  BY <1>1 DEF Init, Inv, DirsTell, PlaceTells, SourceTells

-----------------------------------------------------------------------------
(* What the steps write into a directory.                                  *)

LEMMA DirUpdates ==
  ASSUME NEW d \in RunDir
  PROVE  /\ \A value \in {"torn", "whole"} : [d EXCEPT !.plan = value] \in RunDir
         /\ [d EXCEPT !.ledger = "empty"] \in RunDir
         /\ [d EXCEPT !.simulation = TRUE] \in RunDir
         /\ \A w \in Wallets :
              [d EXCEPT !.in_flight = {w}, !.ledger = "entries"] \in RunDir
         /\ [d EXCEPT !.paid = d.paid \cup d.in_flight, !.in_flight = {}] \in RunDir
BY DEF RunDir

LEMMA RunsUpdate ==
  ASSUME NEW r \in DOMAIN runs, runs \in Seq(RunDir), NEW d \in RunDir,
         runs' = [runs EXCEPT ![r] = d]
  PROVE  runs' \in Seq(RunDir) /\ Len(runs') = Len(runs)
OBVIOUS

\* A step that writes into the directory of the process.
LEMMA TypeStep == ASSUME Inv, [Next]_vars PROVE TypeOK'
<1> USE DEF TypeOK, Inv
<1>1. CASE Run \/ SendFresh \/ SendCached \/ Resume
  <2>1. runs' = runs /\ run' \in 0 .. Len(runs)
    BY <1>1 DEF Run, SendFresh, SendCached, Resume, Begin, cached_runs
  <2>2. config' \in Config /\ loaded' \in Config /\ simulated' \in BOOLEAN
    BY <1>1 DEF Run, SendFresh, SendCached, Resume, Begin
  <2>3. /\ pc' \in PCs
        /\ pc' \notin {"idle", "discover"} => run' # 0
    BY <1>1 DEF Run, SendFresh, SendCached, Resume, Begin, cached_runs, PCs
  <2>4. /\ command' \in {"run", "send"}
        /\ source' \in {"none", "scan", "cached", "override", "resume"}
    BY <1>1 DEF Run, SendFresh, SendCached, Resume, Begin
  <2> QED
    BY <2>1, <2>2, <2>3, <2>4
<1>2. CASE UseCached \/ Override \/ FullScan
  BY <1>2 DEF UseCached, Override, FullScan, PCs
<1>3. CASE Discover
  <2>1. PICK chosen \in SUBSET (Wallets \ Holders(loaded.identity)) \ {{}} :
          runs' = Append(runs, [recipients |-> chosen, config |-> loaded, plan |-> "none",
                                ledger |-> "none", simulation |-> FALSE,
                                in_flight |-> {}, paid |-> {}])
    BY <1>3 DEF Discover
  <2>2. runs' \in Seq(RunDir) /\ Len(runs') = Len(runs) + 1
    BY <2>1 DEF RunDir
  <2> QED
    BY <1>3, <2>2 DEF Discover, NewRun, PCs
<1>4. pc \notin {"idle", "discover"} => run \in DOMAIN runs /\ runs[run] \in RunDir
  OBVIOUS
<1>5. CASE WritePlan \/ TearPlan \/ WriteLedger \/ Simulate \/ SimulationFails
  <2>1. \E d \in RunDir : runs' = [runs EXCEPT ![run] = d]
    BY <1>4, <1>5, DirUpdates
      DEF WritePlan, TearPlan, WriteLedger, Simulate, SimulationFails
  <2>2. pc \in {"plan", "ledger", "simulate"}
    BY <1>5 DEF WritePlan, TearPlan, WriteLedger, Simulate, SimulationFails
  <2>3. runs' \in Seq(RunDir) /\ Len(runs') = Len(runs)
    BY <1>4, <2>1, <2>2, RunsUpdate
  <2>4. config' \in Config /\ loaded' \in Config /\ simulated' \in BOOLEAN
    BY <1>5 DEF WritePlan, TearPlan, WriteLedger, Simulate, SimulationFails
  <2>5. pc' \in PCs /\ run' = run /\ run # 0 /\ command' = command /\ source' = source
    BY <1>5 DEF WritePlan, TearPlan, WriteLedger, Simulate, SimulationFails, PCs
  <2> QED
    BY <2>3, <2>4, <2>5
<1>6. CASE Funded \/ Confirm \/ Finish \/ Stop
  BY <1>6 DEF Funded, Confirm, Finish, Stop, PCs
<1>7. CASE SendBatch
  <2>1. PICK w \in runs[run].recipients : runs' = Prepared(w)
    BY <1>7 DEF SendBatch
  <2>2. run \in DOMAIN runs /\ runs[run] \in RunDir /\ w \in Wallets
    BY <1>4, <1>7, <2>1 DEF SendBatch, RunDir
  <2>3. \E d \in RunDir : runs' = [runs EXCEPT ![run] = d]
    BY <2>1, <2>2, DirUpdates DEF Prepared
  <2>4. runs' \in Seq(RunDir) /\ Len(runs') = Len(runs)
    BY <2>2, <2>3, RunsUpdate
  <2> QED
    BY <1>7, <2>4 DEF SendBatch, session
<1>8. ASSUME NEW r \in DOMAIN runs, Land(r) PROVE TypeOK'
  <2>1. runs[r] \in RunDir
    OBVIOUS
  <2>2. \E d \in RunDir : runs' = [runs EXCEPT ![r] = d]
    BY <1>8, <2>1, DirUpdates DEF Land
  <2>3. runs' \in Seq(RunDir) /\ Len(runs') = Len(runs)
    BY <2>2, RunsUpdate
  <2> QED
    BY <1>8, <2>3 DEF Land, session
<1>9. CASE EditConfig \/ UNCHANGED vars
  BY <1>9 DEF EditConfig, session, vars
<1> QED
  BY <1>1, <1>2, <1>3, <1>5, <1>6, <1>7, <1>8, <1>9 DEF Next, Process

-----------------------------------------------------------------------------
(* The steps that leave the directories alone, and those that do not.      *)

LEMMA ChoiceStep ==
  ASSUME Inv, Run \/ SendCached \/ SendFresh \/ Resume \/ UseCached \/ Override \/ FullScan
                \/ Funded \/ Confirm \/ Finish \/ Stop \/ EditConfig \/ UNCHANGED vars
  PROVE  DirsTell' /\ PlaceTells' /\ SourceTells'
<1> USE DEF Inv
<1>1. runs' = runs
  BY DEF Run, SendCached, SendFresh, Resume, Begin, UseCached, Override, FullScan,
         Funded, Confirm, Finish, Stop, EditConfig, vars
<1>2. DirsTell'
  BY <1>1 DEF DirsTell
<1>3. PlaceTells'
  <2>1. CASE Run \/ SendFresh \/ Resume \/ FullScan
    BY <2>1 DEF Run, SendFresh, Resume, FullScan, Begin, PlaceTells
  <2>2. CASE SendCached
    BY <1>1, <2>2 DEF SendCached, cached_runs, cached_run_artifacts_exist, PlaceTells
  <2>3. CASE UseCached \/ Override
    <3>1. /\ runs[run].plan # "none" /\ runs[run].simulation /\ runs[run].ledger = "empty"
          /\ runs[run].plan = "whole"
      <4>1. run \in DOMAIN runs /\ cached_run_artifacts_exist(run)
        BY <2>3 DEF UseCached, Override, PlaceTells, TypeOK
      <4> QED
        BY <4>1 DEF cached_run_artifacts_exist, DirsTell
    <3>2. run' = run /\ pc' \in {"simulate", "override"}
      BY <2>3 DEF UseCached, Override
    <3> QED
      BY <1>1, <3>1, <3>2 DEF cached_run_artifacts_exist, PlaceTells
  <2>4. CASE Funded \/ Confirm \/ Finish \/ Stop
    BY <2>4 DEF Funded, Confirm, Finish, Stop, PlaceTells
  <2>5. CASE EditConfig \/ UNCHANGED vars
    BY <1>1, <2>5 DEF EditConfig, session, vars, PlaceTells, cached_run_artifacts_exist
  <2> QED
    BY <2>1, <2>2, <2>3, <2>4, <2>5
<1>4. SourceTells'
  <2>1. CASE Run \/ SendFresh \/ SendCached
    BY <2>1 DEF Run, SendFresh, SendCached, Begin, SourceTells
  <2>2. CASE Resume
    BY <1>1, <2>2 DEF Resume, Begin, CanLoad, SourceTells
  <2>3. CASE UseCached
    BY <1>1, <2>3 DEF UseCached, CanLoad, SourceTells
  <2>4. CASE Override
    BY <1>1, <2>4 DEF Override, SourceTells
  <2>5. CASE FullScan \/ Stop \/ Finish
    BY <2>5 DEF FullScan, Stop, Finish, SourceTells
  <2>6. CASE Funded \/ Confirm
    BY <1>1, <2>6 DEF Funded, Confirm, SourceTells
  <2>7. CASE EditConfig \/ UNCHANGED vars
    BY <1>1, <2>7 DEF EditConfig, session, vars, SourceTells
  <2> QED
    BY <2>1, <2>2, <2>3, <2>4, <2>5, <2>6, <2>7
<1> QED
  BY <1>2, <1>3, <1>4

LEMMA DiscoverStep ==
  ASSUME Inv, Discover PROVE DirsTell' /\ PlaceTells' /\ SourceTells'
<1> USE DEF Inv, TypeOK
<1> DEFINE new(chosen) ==
      [recipients |-> chosen, config |-> loaded, plan |-> "none", ledger |-> "none",
       simulation |-> FALSE, in_flight |-> {}, paid |-> {}]
<1>1. PICK chosen \in SUBSET Wallets : runs' = Append(runs, new(chosen))
  BY DEF Discover
<1>2. /\ DOMAIN runs' = DOMAIN runs \cup {run'}
      /\ run' \notin DOMAIN runs
      /\ \A r \in DOMAIN runs : runs'[r] = runs[r]
      /\ runs'[run'] = new(chosen)
  BY <1>1 DEF Discover, NewRun
<1>3. DirsTell'
  BY <1>2 DEF DirsTell
<1>4. PlaceTells' /\ SourceTells'
  BY <1>2 DEF Discover, PlaceTells, SourceTells
<1> QED
  BY <1>3, <1>4

LEMMA WriteStep ==
  ASSUME Inv, WritePlan \/ TearPlan \/ WriteLedger \/ Simulate \/ SimulationFails
  PROVE  DirsTell' /\ PlaceTells' /\ SourceTells'
<1> USE DEF Inv
<1>1. run \in DOMAIN runs /\ runs[run] \in RunDir
  BY DEF TypeOK, WritePlan, TearPlan, WriteLedger, Simulate, SimulationFails
<1>2. DOMAIN runs' = DOMAIN runs /\ \A r \in DOMAIN runs : r # run => runs'[r] = runs[r]
  BY <1>1 DEF TypeOK, WritePlan, TearPlan, WriteLedger, Simulate, SimulationFails
<1>3. /\ runs'[run].config = runs[run].config
      /\ runs'[run].in_flight = runs[run].in_flight
      /\ runs'[run].paid = runs[run].paid
  BY <1>1 DEF TypeOK, WritePlan, TearPlan, WriteLedger, Simulate, SimulationFails, RunDir
<1>4. DirsTell'
  <2>1. CASE WritePlan \/ TearPlan \/ WriteLedger
    <3>1. runs[run].ledger = "none" /\ ~runs[run].simulation
      BY <2>1 DEF WritePlan, TearPlan, WriteLedger, PlaceTells
    <3>2. /\ runs'[run].simulation = runs[run].simulation
          /\ runs'[run].ledger \in {"none", "empty"}
      BY <1>1, <2>1, <3>1 DEF TypeOK, WritePlan, TearPlan, WriteLedger, RunDir
    <3> QED
      BY <1>1, <1>2, <1>3, <3>1, <3>2 DEF DirsTell
  <2>2. CASE Simulate \/ SimulationFails
    <3>1. /\ runs'[run].plan = runs[run].plan
          /\ runs'[run].ledger = runs[run].ledger
      BY <1>1, <2>2 DEF TypeOK, Simulate, SimulationFails, RunDir
    <3>2. runs[run].plan = "whole" /\ runs[run].ledger # "none"
      BY <2>2 DEF Simulate, SimulationFails, PlaceTells
    <3> QED
      BY <1>1, <1>2, <1>3, <3>1, <3>2 DEF DirsTell
  <2> QED
    BY <2>1, <2>2
<1>5. PlaceTells'
  <2>1. CASE WritePlan
    BY <1>1, <2>1 DEF TypeOK, RunDir, WritePlan, PlaceTells
  <2>2. CASE WriteLedger
    BY <1>1, <2>2 DEF TypeOK, RunDir, WriteLedger, PlaceTells
  <2>3. CASE TearPlan \/ Simulate \/ SimulationFails
    BY <2>3 DEF TearPlan, Simulate, SimulationFails, PlaceTells
  <2> QED
    BY <2>1, <2>2, <2>3
<1>6. SourceTells'
  <2>1. run' = run /\ loaded' = loaded /\ command' = command /\ source' = source
    BY DEF WritePlan, TearPlan, WriteLedger, Simulate, SimulationFails
  <2>2. CASE WritePlan \/ WriteLedger
    BY <1>3, <2>1, <2>2 DEF WritePlan, WriteLedger, SourceTells
  <2>3. CASE TearPlan \/ SimulationFails
    BY <2>3 DEF TearPlan, SimulationFails, SourceTells
  <2>4. CASE Simulate
    BY <1>3, <2>1, <2>4 DEF Simulate, SourceTells, TypeOK
  <2> QED
    BY <2>2, <2>3, <2>4
<1> QED
  BY <1>4, <1>5, <1>6

LEMMA SendStep ==
  ASSUME Inv, SendBatch \/ \E r \in DOMAIN runs : Land(r)
  PROVE  DirsTell' /\ PlaceTells' /\ SourceTells'
<1> USE DEF Inv
<1>1. CASE SendBatch
  <2>1. run \in DOMAIN runs /\ runs[run] \in RunDir
    BY <1>1 DEF TypeOK, SendBatch
  <2>2. /\ DOMAIN runs' = DOMAIN runs
        /\ \A r \in DOMAIN runs : r # run => runs'[r] = runs[r]
        /\ runs'[run].ledger = "entries"
        /\ runs'[run].config = runs[run].config
        /\ runs'[run].plan = runs[run].plan
        /\ runs'[run].simulation = runs[run].simulation
    BY <1>1, <2>1, ZenonT(60) DEF TypeOK, SendBatch, Prepared, RunDir
  <2>3. UNCHANGED session /\ pc = "send"
    BY <1>1 DEF SendBatch
  <2>4. DirsTell'
    BY <2>1, <2>2 DEF DirsTell
  <2>5. PlaceTells'
    BY <2>3 DEF session, PlaceTells
  <2>6. SourceTells'
    BY <2>2, <2>3 DEF session, SourceTells
  <2> QED
    BY <2>4, <2>5, <2>6
<1>2. ASSUME NEW r \in DOMAIN runs, Land(r)
      PROVE  DirsTell' /\ PlaceTells' /\ SourceTells'
  <2>1. runs[r] \in RunDir
    BY DEF TypeOK
  <2>2. /\ DOMAIN runs' = DOMAIN runs
        /\ \A s \in DOMAIN runs : s # r => runs'[s] = runs[s]
        /\ runs'[r].ledger = runs[r].ledger
        /\ runs'[r].config = runs[r].config
        /\ runs'[r].plan = runs[r].plan
        /\ runs'[r].simulation = runs[r].simulation
    BY <1>2, <2>1 DEF TypeOK, Land, RunDir
  <2>3. UNCHANGED session /\ runs[r].ledger = "entries"
    BY <1>2 DEF Land, DirsTell
  <2>4. \A s \in DOMAIN runs :
          /\ runs'[s].ledger = runs[s].ledger /\ runs'[s].config = runs[s].config
          /\ runs'[s].plan = runs[s].plan /\ runs'[s].simulation = runs[s].simulation
    BY <2>2
  <2>5. DirsTell'
    BY <2>2, <2>3 DEF DirsTell
  <2>6. pc \notin {"idle", "discover"} => run \in DOMAIN runs
    BY DEF TypeOK
  <2>7. PlaceTells'
    BY <2>3, <2>4, <2>6 DEF session, PlaceTells, cached_run_artifacts_exist
  <2>8. SourceTells'
    BY <2>3, <2>4, <2>6 DEF session, SourceTells
  <2> QED
    BY <2>5, <2>7, <2>8
<1> QED
  BY <1>1, <1>2

LEMMA InvStep == Inv /\ [Next]_vars => Inv'
<1> SUFFICES ASSUME Inv, [Next]_vars PROVE Inv'
  OBVIOUS
<1>1. TypeOK'
  BY TypeStep
<1>2. DirsTell' /\ PlaceTells' /\ SourceTells'
  BY ChoiceStep, DiscoverStep, WriteStep, SendStep DEF Next, Process
<1> QED
  BY <1>1, <1>2 DEF Inv

-----------------------------------------------------------------------------

LEMMA Invariance == Spec => []Inv
<1> QED
  BY InitInv, InvStep, PTL DEF Spec

\* The variables keep their types, and a process past discovery has a run.
THEOREM TypeCorrect == Spec => []TypeOK
<1>1. Inv => TypeOK
  BY DEF Inv
<1> QED
  BY <1>1, Invariance, PTL

\* Nothing was ever sent of a run that `send` offers as cached.
THEOREM OfferedIsUnsent == Spec => []CacheIsUnsent
<1>1. Inv => CacheIsUnsent
  BY DEF Inv, TypeOK, DirsTell, PlaceTells, CacheIsUnsent, cached_run_artifacts_exist
<1> QED
  BY <1>1, Invariance, PTL

\* What a process sends was made for its configuration, or agreed to.
THEOREM SentIsAgreed == Spec => []SendsWhatWasAgreed
<1>1. Inv => SendsWhatWasAgreed
  BY DEF Inv, SourceTells, SendsWhatWasAgreed
<1> QED
  BY <1>1, Invariance, PTL

=============================================================================
