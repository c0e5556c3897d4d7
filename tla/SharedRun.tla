----------------------------- MODULE SharedRun -----------------------------
(***************************************************************************)
(* One session of send_plan among any number of others on the same run, in *)
(* other processes: nothing locks the run directory.  An append is no      *)
(* longer one step: the writes of append_ledger_entry take turns with      *)
(* those of the others, and a line that two processes write is lost to     *)
(* every reader.  Of the others no more is known than what their writes    *)
(* and requests are: the entries are so, the transactions are the plan's.  *)
(* TwoSenders has two sessions in full.                                    *)
(***************************************************************************)
EXTENDS SendPlan

VARIABLE writing   \* how far the session is in its append

sharedVars == <<vars, writing>>

\* entry: it has begun one.  line: its newline is missing.
Writings == {"none", "entry", "line"}

SharedInit == Init /\ writing = "none"

\* The end of the file is this session's own, and nobody else's.
Mine == \/ writing = "entry" /\ tail = "half"
        \/ writing = "line" /\ tail = "open"

-----------------------------------------------------------------------------

\* append_ledger_entry(entry)?, write by write, and what follows.  Whether
\* others have written in between the session does not learn.
Appending(entry, next) ==
  /\ \/ /\ writing = "none" /\ writing' = "entry"
        /\ BeginEntry
        /\ UNCHANGED sessionVars
     \/ /\ writing = "entry" /\ writing' = "line"
        /\ EndEntry(entry)
        /\ UNCHANGED sessionVars
     \/ /\ writing = "line" /\ writing' = "none"
        /\ EndLine
        /\ next
  /\ UNCHANGED chainVars

\* Every append of send_plan.
SharedAppend ==
  \/ pc = "prepare"   /\ Appending(BatchEntry("BatchPrepared", signature), Prepared)
  \/ pc = "mismatch"  /\ Appending(BatchEntry("BatchSignatureMismatch", signature), End("mismatch"))
  \/ pc = "submit"    /\ Appending(BatchEntry("BatchSubmitted", signature), Submitted)
  \/ pc = "confirmed" /\ Appending(BatchEntry("BatchConfirmed", signature),
                                   LoggedBatch("recipients_confirmed"))
  \/ pc = "failed"    /\ Appending(BatchEntry("BatchFailed", signature),
                                   LoggedBatch("recipients_failed"))
  \/ pc = "recipients_confirmed" /\ Appending(RecipientEntry("RecipientConfirmed", signature, recipient),
                                              LoggedRecipientConfirmed)
  \/ pc = "recipients_failed" /\ Appending(RecipientEntry("RecipientFailed", signature, recipient),
                                           LoggedRecipientFailed)

\* The process is killed, or a write fails: between two appends, or in one.
Dies ==
  /\ IF writing = "none" THEN "crash" \in Faults ELSE "torn" \in Faults
  /\ pc # "idle"
  /\ End("stopped")
  /\ writing' = "none"
  /\ UNCHANGED <<fileVars, chainVars>>

\* All that is not an append is as in SendPlan.
SharedRequest ==
  /\ writing = "none"
  /\ \/ Start \/ StartUnreadable \/ Finish \/ SkipConfirmed \/ Reconcile \/ Sign
     \/ Send \/ Poll \/ Rebroadcast
  /\ UNCHANGED writing

Session == SharedAppend \/ Dies \/ SharedRequest

-----------------------------------------------------------------------------

\* An entry about its own batch, whose verdict the cluster has given.
Truthful(entry) ==
  /\ entry.batch = BatchOf(entry.signature)
  /\ entry.event \in {"BatchConfirmed", "RecipientConfirmed"} => tx[entry.signature] = "ok"
  /\ entry.event \in {"BatchFailed", "RecipientFailed"} => Failed(entry.signature)

\* The rest of an entry, or a newline, follows what another process began,
\* and not what this session began, unless the line is spoiled already.
OtherWrites ==
  /\ \/ BeginEntry
     \/ ~Mine /\ \E entry \in LedgerEntry : Truthful(entry) /\ EndEntry(entry)
     \/ ~Mine /\ EndLine
  /\ UNCHANGED chainVars

OtherSends == (\E s \in Signatures : Accept(s)) /\ UNCHANGED <<blockhash, fileVars>>

Others == (OtherWrites \/ OtherSends) /\ UNCHANGED <<sessionVars, writing>>

SharedNext == Session \/ (ClusterStep /\ UNCHANGED writing) \/ Others

SharedSpec == SharedInit /\ [][SharedNext]_sharedVars

-----------------------------------------------------------------------------

\* What a session writes, between the writes of any others and however old
\* what it has read of the ledger is by then (append_ledger_entry,
\* execution.rs:391): it may spoil a line of theirs, and the file with it, but
\* whatever entry of its own comes to be in the file is so, and a file that
\* was spoiled stays so: no write makes readable again what lacks an entry.
SessionIsHonest ==
  [][Session =>
       /\ \/ UNCHANGED <<ledger, recipientLog>>
          \/ \E entry \in LedgerEntry : Truthful(entry) /\ Written(entry)
       /\ tail = "corrupt" => tail' = "corrupt"]_sharedVars
=============================================================================
