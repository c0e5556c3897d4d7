---------------------------- MODULE LedgerStore -----------------------------
(***************************************************************************)
(* ledger.jsonl as its writer and its readers see it: the sum of its       *)
(* complete entries, and whether a reader can still get at it.             *)
(* append_ledger_entry writes the entry, then a newline; a newline is      *)
(* written after an entry and none before it, so an entry appended to a    *)
(* file that misses its last newline shares a line with the entry before.  *)
(* LedgerFile has the lines themselves.                                    *)
(***************************************************************************)
EXTENDS Ledger

VARIABLES
  ledger,        \* what the complete entries amount to
  recipientLog,  \* the RecipientConfirmed and RecipientFailed entries
  tail           \* whether the file can be read, and appended to

fileVars == <<ledger, recipientLog, tail>>

\* clean: ends with a newline.  half: its last line is the beginning of one
\* entry, which is being written.  open: its last entry is complete, its
\* newline is missing.  corrupt: a line holds half an entry, or two entries,
\* and LedgerProgress::read ends in SendError::Ledger from now on.
Tails == {"clean", "half", "open", "corrupt"}

FileTypeOK ==
  /\ ledger \in LedgerProgress
  /\ recipientLog \subseteq RecipientLedgerEntry
  /\ tail \in Tails

\* write_plan_artifacts leaves an empty ledger.jsonl.
FileInit ==
  /\ ledger = EmptyProgress
  /\ recipientLog = {}
  /\ tail = "clean"

Written(entry) ==
  /\ ledger' = apply(ledger, entry)
  /\ recipientLog' = IF entry.event \in RecipientEvents
                       THEN recipientLog \cup {entry} ELSE recipientLog

AppendEntry(entry) ==
  /\ Written(entry)
  /\ tail' = IF tail = "clean" THEN "clean" ELSE "corrupt"

\* An append that ends between two of its writes: in the entry, or before
\* the newline.
TornEntry(entry) ==
  \/ /\ UNCHANGED <<ledger, recipientLog>>
     /\ tail' = "corrupt"
  \/ /\ Written(entry)
     /\ tail' = IF tail = "clean" THEN "open" ELSE "corrupt"

\* LedgerProgress::read succeeds, with `ledger` as its result.
Readable == tail \in {"clean", "open"}

(***************************************************************************)
(* With one process an append is over, or cut, before anybody looks at the *)
(* file: one step.  Several processes see the writes of each other, and    *)
(* write between them: what opens an entry, the rest of it, the newline.   *)
(* O_APPEND puts each write at the end, wherever that is by then, so that  *)
(* two entries that are under way at the same time spoil a line.           *)
(***************************************************************************)
BeginEntry ==
  /\ tail' = IF tail = "clean" THEN "half" ELSE "corrupt"
  /\ UNCHANGED <<ledger, recipientLog>>

\* Behind a spoiled line an entry may be in one piece again, or not.
EndEntry(entry) ==
  \/ /\ Written(entry)
     /\ tail' = IF tail = "half" THEN "open" ELSE "corrupt"
  \/ tail = "corrupt" /\ UNCHANGED fileVars

EndLine ==
  /\ tail' = IF tail = "open" THEN "clean" ELSE tail
  /\ UNCHANGED <<ledger, recipientLog>>

\* Any sequence of such writes.
WriteNext == BeginEntry \/ EndLine \/ \E entry \in LedgerEntry : EndEntry(entry)
WriteSpec == FileInit /\ [][WriteNext]_fileVars

\* Any sequence of whole and torn appends.
FileNext == \E entry \in LedgerEntry : AppendEntry(entry) \/ TornEntry(entry)
FileSpec == FileInit /\ [][FileNext]_fileVars

=============================================================================
