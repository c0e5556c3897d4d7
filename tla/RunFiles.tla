------------------------------ MODULE RunFiles ------------------------------
(***************************************************************************)
(* The files of one run directory, over the sessions that work on it: the  *)
(* session that plans writes them one after the other, a session that      *)
(* resumes, or sends a cached run, reads them and goes on.  A session ends *)
(* anywhere, by an error or with its process; what it was writing then is  *)
(* cut.  The lines of ledger.jsonl are those of LedgerFile.                *)
(***************************************************************************)
EXTENDS LedgerFile

VARIABLES
  disk,      \* of every other file: how much of it there is
  has_ledger, \* whether ledger.jsonl is there
  next,      \* the artifact this session writes next
  session    \* what it does: "writing", "ready", "sending" or "none"

dirVars == <<disk, has_ledger, next, session>>
runVars == <<file, dirVars>>

\* write_plan_artifacts, in its order, and write_simulation_artifact.
Artifacts == <<"plan.json", "recipients.csv", "skipped.csv", "ledger.jsonl", "simulation.json">>
LedgerArtifact == 4
Simulation     == 5

Texts == {Artifacts[i] : i \in DOMAIN Artifacts \ {LedgerArtifact}}

\* A text that was created, in part, all but its last newline, or all of it.
Contents == {"absent", "empty", "part", "body", "whole"}

\* JSON parses without the newline behind it.
JsonReadable(name) == disk[name] \in {"body", "whole"}

RunInit ==
  /\ Init
  /\ disk = [name \in Texts |-> "absent"] /\ has_ledger = FALSE
  /\ next = 1 /\ session = "writing"

-----------------------------------------------------------------------------
(* write_text: create, which truncates, and write_all.                     *)

Writing == session = "writing" /\ next # LedgerArtifact

\* File::create, whatever there was; a session writes each file once.
CreateFile ==
  /\ Writing /\ disk[Artifacts[next]] # "empty"
  /\ disk' = [disk EXCEPT ![Artifacts[next]] = "empty"]
  /\ UNCHANGED <<file, has_ledger, next, session>>

\* A file is done: after the simulation the session may send.
WriteFile ==
  /\ Writing /\ disk[Artifacts[next]] = "empty"
  /\ disk' = [disk EXCEPT ![Artifacts[next]] = "whole"]
  /\ IF next = Simulation THEN session' = "ready" /\ UNCHANGED next
                          ELSE next' = next + 1 /\ UNCHANGED session
  /\ UNCHANGED <<file, has_ledger>>

\* A wrong end of a write, whose error is dropped.
CutFile_GoesOn ==
  /\ Writing /\ disk[Artifacts[next]] = "empty"
  /\ \E content \in {"part", "body"} : disk' = [disk EXCEPT ![Artifacts[next]] = content]
  /\ IF next = Simulation THEN session' = "ready" /\ UNCHANGED next
                          ELSE next' = next + 1 /\ UNCHANGED session
  /\ UNCHANGED <<file, has_ledger>>

\* write_all fails, or the process dies in it: some of the text is there.
CutFile ==
  /\ Writing /\ disk[Artifacts[next]] = "empty"
  /\ \E content \in {"part", "body"} : disk' = [disk EXCEPT ![Artifacts[next]] = content]
  /\ session' = "none"
  /\ UNCHANGED <<file, has_ledger, next>>

\* write_text of an empty ledger.
CreateLedger ==
  /\ session = "writing" /\ next = LedgerArtifact
  /\ has_ledger' = TRUE
  /\ next' = Simulation
  /\ UNCHANGED <<file, disk, session>>

-----------------------------------------------------------------------------
(* Sessions                                                                *)

\* An error, a failed simulation, an operator who says no, or a crash.
EndSession ==
  /\ session # "none"
  /\ session' = "none"
  /\ UNCHANGED <<file, disk, has_ledger, next>>

\* LedgerProgress::read at the start of send_plan, also for a missing file.
StartSending ==
  /\ session = "ready" /\ ~Read.error
  /\ session' = "sending"
  /\ UNCHANGED <<file, disk, has_ledger, next>>

\* A wrong resume, which refreshes the artifacts on its way.
Resume_Refreshes ==
  /\ session = "none" /\ JsonReadable("plan.json")
  /\ session' = "writing" /\ next' = 1
  /\ UNCHANGED <<file, disk, has_ledger>>

\* send --resume: read_plan_artifacts, no simulation.
Resume ==
  /\ session = "none" /\ JsonReadable("plan.json")
  /\ session' = "ready"
  /\ UNCHANGED <<file, disk, has_ledger, next>>

\* What `send` asks of a directory before it offers it: three files, and a
\* ledger with nothing in it but white space.
cached_run_artifacts_exist ==
  /\ disk["plan.json"] # "absent" /\ disk["simulation.json"] # "absent"
  /\ has_ledger
  /\ \A i \in DOMAIN file : file[i] = Newline

\* send with the cached run: the plan is read and simulated again.
SendCached ==
  /\ session = "none" /\ cached_run_artifacts_exist /\ JsonReadable("plan.json")
  /\ session' = "writing" /\ next' = Simulation
  /\ UNCHANGED <<file, disk, has_ledger>>

\* append_ledger_entry; open_ledger creates a file that is missing.  Sending
\* ends with an append that was cut.
AppendLedger ==
  /\ session = "sending"
  /\ Next
  /\ has_ledger' = TRUE
  /\ session' = IF file'[Len(file')] = Newline THEN session ELSE "none"
  /\ UNCHANGED <<disk, next>>

RunNext ==
  \/ CreateFile \/ WriteFile \/ CutFile \/ CreateLedger
  \/ EndSession \/ StartSending \/ Resume \/ SendCached \/ AppendLedger

RunSpec == RunInit /\ [][RunNext]_runVars

-----------------------------------------------------------------------------
(* Properties                                                              *)

RunTypeOK ==
  /\ disk \in [Texts -> Contents] /\ has_ledger \in BOOLEAN
  /\ next \in DOMAIN Artifacts /\ session \in {"writing", "ready", "sending", "none"}

\* cached_run_artifacts_exist (cli.rs:350) looks whether files are there, not
\* whether they are whole, and plan.json is there before it has a byte.  All
\* the same a run that is offered has its plan and both tables in full, since
\* simulation.json is the last of the files and no error of a write is passed
\* over (write_plan_artifacts, planning.rs:212).
OfferedIsWhole ==
  cached_run_artifacts_exist =>
    \A name \in Texts \ {"simulation.json"} : disk[name] = "whole"

\* A directory whose ledger says that something was sent can be resumed: its
\* plan.json parses, at every moment, also while a later session is at work
\* and wherever one was cut off.  Nothing that is written after the plan, and
\* no second session, opens it for writing again.
NoEntryWithoutPlan == file # <<>> => JsonReadable("plan.json")

\* A later session can take up what an earlier one left: a run that it offers
\* to send (cli.rs:350) and a run that it is asked to resume (cli.rs:258).
TakenUpIsWhole == OfferedIsWhole /\ NoEntryWithoutPlan
=============================================================================
