----------------------------- MODULE LedgerFile -----------------------------
(***************************************************************************)
(* The text of ledger.jsonl, as the pieces append_ledger_entry writes, and *)
(* LedgerProgress::read over its lines.  serde_json::to_writer writes to   *)
(* the unbuffered File in small pieces and the newline is a write of its   *)
(* own, so the file may end in any of them.                                *)
(***************************************************************************)
EXTENDS Ledger, SequencesExt

CONSTANT MaxPieces   \* BOUND: the length of the file

ASSUME FileAssumption == MaxPieces \in Nat

VARIABLE file        \* a sequence of pieces

\* A complete JSON object, a beginning of one, or a newline.
Json(entry) == [kind |-> "json", entry |-> entry]
Part    == [kind |-> "part"]
Newline == [kind |-> "newline"]

Init == file = <<>>

\* A wrong AppendEntry, with the newline in front.
AppendEntry_ButNewlineFirst(entry) == file' = file \o <<Newline, Json(entry)>>

AppendEntry(entry) == file' = file \o <<Json(entry), Newline>>
CutInEntry         == file' = Append(file, Part)
CutBeforeNewline(entry) == file' = Append(file, Json(entry))

Next ==
  /\ Len(file) + 2 =< MaxPieces
  /\ \/ \E entry \in LedgerEntry : AppendEntry(entry) \/ CutBeforeNewline(entry)
     \/ CutInEntry

-----------------------------------------------------------------------------
(***************************************************************************)
(* LedgerProgress::read.  `line` is the line that is being read: blank     *)
(* lines are skipped, a line with one object is applied, and serde_json    *)
(* refuses half an object and characters after the first one.  The last    *)
(* line may lack its newline.                                              *)
(***************************************************************************)
ReadInit == [progress |-> EmptyProgress, line |-> "blank", error |-> FALSE]

\* A wrong ReadPiece, which passes over what it cannot parse.
ReadPiece_NotStrict(state, piece) ==
  CASE piece.kind = "newline" -> [state EXCEPT !.line = "blank"]
    [] piece.kind = "json" /\ state.line = "blank" ->
         [state EXCEPT !.line = "object", !.progress = apply(@, piece.entry)]
    [] OTHER -> [state EXCEPT !.line = "bad"]

ReadPiece(state, piece) ==
  CASE piece.kind = "newline" -> [state EXCEPT !.line = "blank"]
    [] piece.kind = "json" /\ state.line = "blank" ->
         [state EXCEPT !.line = "object", !.progress = apply(@, piece.entry)]
    [] OTHER -> [state EXCEPT !.line = "bad", !.error = TRUE]

Read == FoldLeft(ReadPiece, ReadInit, file)

-----------------------------------------------------------------------------

Entries == {file[i].entry : i \in {j \in DOMAIN file : file[j].kind = "json"}}

\* Every complete entry of the file, in order.
Sum == FoldLeft(LAMBDA progress, piece :
                  IF piece.kind = "json" THEN apply(progress, piece.entry) ELSE progress,
                EmptyProgress, file)

Store == INSTANCE LedgerStore WITH
  ledger <- Sum,
  recipientLog <- {e \in Entries : e.event \in RecipientEvents},
  tail <- CASE Read.error -> "corrupt"
            [] ~Read.error /\ Read.line = "object" -> "open"
            [] OTHER -> "clean"

\* The lines of the file behave as LedgerStore says: a torn append makes the
\* file unreadable at once, or as soon as another entry follows it.
ImplementsStore == Store!FileSpec

\* A reader that gets through the file has applied every complete entry in
\* the order of the appends.
ReadIsComplete == ~Read.error => Read.progress = Sum

=============================================================================
