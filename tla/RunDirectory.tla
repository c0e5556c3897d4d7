---------------------------- MODULE RunDirectory ----------------------------
(***************************************************************************)
(* One run directory, with one process at a time (RunFiles) until several  *)
(* have started to send its plan and have read the empty ledger: nothing   *)
(* locks the directory.  From there on its ledger.jsonl is that of         *)
(* SharedFile, and nobody writes another file.                             *)
(***************************************************************************)
EXTENDS RunFiles

CONSTANTS
  Writers,     \* the processes that send together
  MaxWrites    \* BOUND: the length of their ledger

ASSUME DirectoryAssumption == MaxWrites \in Nat

VARIABLES
  text,        \* the ledger of the processes that send together
  writing      \* how far each of them is in its append

directoryVars == <<runVars, text, writing>>

Shared == INSTANCE SharedFile WITH file <- text

DirectoryInit == RunInit /\ Shared!Init

OneProcess == text = <<>> /\ RunNext /\ UNCHANGED <<text, writing>>

SeveralProcesses ==
  /\ session = "sending" /\ file = <<>>
  /\ \A name \in Texts : disk[name] = "whole"
  /\ Shared!Next
  /\ UNCHANGED runVars

DirectoryNext == OneProcess \/ SeveralProcesses

DirectorySpec == DirectoryInit /\ [][DirectoryNext]_directoryVars

-----------------------------------------------------------------------------
(* What SharedFile states of its file, of a run directory.                 *)

\* No entry that append_ledger_entry (execution.rs:391) reported as written is
\* missed in silence: a reader who gets through the file has those of all
\* processes, in their order, however their writes fell.
NothingIsLost == Shared!NothingIsLost

\* To processes that see each other's writes the lines are what LedgerStore
\* says: entries that are under way at once spoil the file for good, with
\* nobody dying, and one that is under way alone does for the moment
\* (append_ledger_entry, execution.rs:391; LedgerProgress::read, :453).
ImplementsWrites == Shared!ImplementsWrites
=============================================================================
