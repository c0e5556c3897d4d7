----------------------------- MODULE SharedFile -----------------------------
(***************************************************************************)
(* The text of ledger.jsonl when several processes append to it at the     *)
(* same time: each append is an opening, the rest of the entry and a       *)
(* newline, each a write of its own at the end of the file (open_ledger    *)
(* opens it with O_APPEND), and nothing keeps the writes of one process    *)
(* together.  Every other cut of an entry makes the same lines, but for    *)
(* one: if the opening is a single brace and falls inside a string of      *)
(* another entry, that entry reads, with the brace in its text, until the  *)
(* rest arrives.  Here such a line is refused like all that are mixed.     *)
(***************************************************************************)
EXTENDS Ledger, Sequences

CONSTANTS
  Writers,     \* processes that write
  MaxWrites    \* BOUND: the length of the file

VARIABLES
  file,        \* a sequence of writes
  writing      \* how far each process is in its append

fileVars == <<file, writing>>

Opening(w)     == [kind |-> "opening", writer |-> w]
Rest(w, entry) == [kind |-> "rest", writer |-> w, entry |-> entry]
Newline        == [kind |-> "newline"]

Init == file = <<>> /\ writing = [w \in Writers |-> "none"]

Write(w, piece, from, to) ==
  /\ Len(file) < MaxWrites
  /\ writing[w] = from
  /\ writing' = [writing EXCEPT ![w] = to]
  /\ file' = Append(file, piece)

\* A wrong OpenEntry, on a file that is not opened for appending.
OpenEntry_Truncates(w) ==
  /\ writing[w] = "none"
  /\ writing' = [writing EXCEPT ![w] = "entry"]
  /\ file' = <<Opening(w)>>

OpenEntry(w)         == Write(w, Opening(w), "none", "entry")
FinishEntry(w, entry) == Write(w, Rest(w, entry), "entry", "line")
FinishLine(w)        == Write(w, Newline, "line", "none")

\* A process dies in its append, and another one takes its place.
Die(w) ==
  /\ writing[w] # "none"
  /\ writing' = [writing EXCEPT ![w] = "none"]
  /\ UNCHANGED file

Next ==
  \E w \in Writers :
    \/ OpenEntry(w) \/ FinishLine(w) \/ Die(w)
    \/ \E entry \in LedgerEntry : FinishEntry(w, entry)

SharedFileSpec == Init /\ [][Next]_fileVars

-----------------------------------------------------------------------------
(***************************************************************************)
(* LedgerProgress::read: `line` is what it has of the line at hand, and    *)
(* whose it is.  It stops at the first line that is no entry; what the     *)
(* lines behind that one say is read on here for the eye of an auditor.    *)
(***************************************************************************)
ReadInit == [progress |-> EmptyProgress, log |-> {}, line |-> <<"blank">>, error |-> FALSE]

Applied(state, entry) ==
  [state EXCEPT !.progress = apply(@, entry),
                !.log = IF entry.event \in RecipientEvents THEN @ \cup {entry} ELSE @,
                !.line = <<"object">>]

\* A wrong ReadPiece, which passes over lines that do not parse.
ReadPiece_NotStrict(state, piece) ==
  CASE piece.kind = "opening" /\ state.line = <<"blank">> ->
         [state EXCEPT !.line = <<"half", piece.writer>>]
    [] piece.kind = "rest" /\ state.line = <<"half", piece.writer>> -> Applied(state, piece.entry)
    [] piece.kind = "newline" -> [state EXCEPT !.line = <<"blank">>]
    [] OTHER -> [state EXCEPT !.line = <<"mixed">>]

ReadPiece(state, piece) ==
  CASE piece.kind = "opening" /\ state.line = <<"blank">> ->
         [state EXCEPT !.line = <<"half", piece.writer>>]
    [] piece.kind = "rest" /\ state.line = <<"half", piece.writer>> -> Applied(state, piece.entry)
    [] piece.kind = "newline" /\ state.line \in {<<"blank">>, <<"object">>} ->
         [state EXCEPT !.line = <<"blank">>]
    [] piece.kind = "newline" /\ state.line \notin {<<"blank">>, <<"object">>} ->
         [state EXCEPT !.line = <<"blank">>, !.error = TRUE]
    [] OTHER -> [state EXCEPT !.line = <<"mixed">>, !.error = TRUE]

\* What a reader has after the first n writes.
ReadOf[n \in 0 .. Len(file)] ==
  IF n = 0 THEN ReadInit ELSE ReadPiece(ReadOf[n - 1], file[n])

Read == ReadOf[Len(file)]

\* The last line counts, with its newline or without.
Reads == ~Read.error /\ Read.line[1] # "half"

-----------------------------------------------------------------------------

Store == INSTANCE LedgerStore WITH
  ledger <- Read.progress,
  recipientLog <- Read.log,
  tail <- CASE Read.error -> "corrupt"
            [] ~Read.error /\ Read.line[1] = "half" -> "half"
            [] ~Read.error /\ Read.line[1] = "object" -> "open"
            [] OTHER -> "clean"

\* To processes that see each other's writes the lines are what LedgerStore
\* says: two entries that are under way at once (append_ledger_entry,
\* execution.rs:391) leave a file that nobody can read again, and an entry
\* that is under way alone one that cannot be read for the moment.
ImplementsWrites == Store!WriteSpec

\* What the entries amount to whose last piece was written, mixed or not.
Everything ==
  LET upTo[n \in 0 .. Len(file)] ==
        IF n = 0 THEN EmptyProgress
        ELSE IF file[n].kind = "rest" THEN apply(upTo[n - 1], file[n].entry)
        ELSE upTo[n - 1]
  IN  upTo[Len(file)]

\* No entry that append_ledger_entry reported as written is missed in silence:
\* a reader who gets through the file has all of them, of all processes and
\* in their order, however their writes fell (LedgerProgress::read,
\* execution.rs:453).  If one was spoiled by another there is an error.
NothingIsLost == Reads => Read.progress = Everything
=============================================================================
