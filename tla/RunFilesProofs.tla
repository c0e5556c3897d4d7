--------------------------- MODULE RunFilesProofs ---------------------------
(***************************************************************************)
(* Proofs about RunFiles and RunDirectory: whatever the number of batches  *)
(* and recipients, of sessions and of processes at once, and where each of *)
(* them ended, a run directory that is offered is whole, one with a ledger *)
(* entry has its plan, and the lines of ledger.jsonl are the ledger the    *)
(* senders' modules work on.                                               *)
(***************************************************************************)
EXTENDS RunDirectory, DataProofs

-----------------------------------------------------------------------------
(* The inductive invariant.                                                *)

Tables == {"plan.json", "recipients.csv", "skipped.csv"}

\* While the files are written in their order, all before the next are whole,
\* and nothing was sent.
WrittenInOrder ==
  session = "writing" /\ next # Simulation =>
    /\ file = <<>>
    /\ \A i \in 1 .. 3 : i < next => disk[Artifacts[i]] = "whole"

\* simulation.json exists only behind whole tables.
SimulationIsLast ==
  /\ next = Simulation => \A name \in Tables : disk[name] = "whole"
  /\ next # Simulation => disk["simulation.json"] = "absent"

\* A session that may send, and a ledger with entries, have a plan to read.
PlanStays ==
  session \in {"ready", "sending"} \/ file # <<>> => JsonReadable("plan.json")

DirInv == RunTypeOK /\ WrittenInOrder /\ SimulationIsLast /\ PlanStays

-----------------------------------------------------------------------------

\* The names of the artifacts, by their numbers.
LEMMA Names ==
  /\ DOMAIN Artifacts = 1 .. 5 /\ Simulation = 5 /\ LedgerArtifact = 4
  /\ Artifacts[1] = "plan.json" /\ Artifacts[2] = "recipients.csv"
  /\ Artifacts[3] = "skipped.csv" /\ Artifacts[5] = "simulation.json"
  /\ Texts = {"plan.json", "recipients.csv", "skipped.csv", "simulation.json"}
<1>1. /\ DOMAIN Artifacts = 1 .. 5 /\ Simulation = 5 /\ LedgerArtifact = 4
      /\ Artifacts[1] = "plan.json" /\ Artifacts[2] = "recipients.csv"
      /\ Artifacts[3] = "skipped.csv" /\ Artifacts[5] = "simulation.json"
  BY DEF Artifacts, Simulation, LedgerArtifact
<1>2. DOMAIN Artifacts \ {LedgerArtifact} = {1, 2, 3, 5}
  BY <1>1
<1> QED
  BY <1>1, <1>2 DEF Texts

LEMMA DirInit == RunInit => DirInv
<1> SUFFICES ASSUME RunInit PROVE DirInv
  OBVIOUS
<1>1. RunTypeOK
  <2>1. disk \in [Texts -> Contents]
    BY DEF RunInit, Contents
  <2>2. next \in DOMAIN Artifacts /\ session = "writing"
    BY Names DEF RunInit
  <2>3. has_ledger \in BOOLEAN
    BY DEF RunInit
  <2> QED
    BY <2>1, <2>2, <2>3 DEF RunTypeOK
<1>2. WrittenInOrder /\ SimulationIsLast /\ PlanStays
  BY Names DEF RunInit, Init, WrittenInOrder, SimulationIsLast, PlanStays
<1> QED
  BY <1>1, <1>2 DEF DirInv

\* A step that writes the next file: only that file changes.
LEMMA FileStep ==
  ASSUME DirInv, CreateFile \/ WriteFile \/ CutFile
  PROVE  DirInv'
<1> USE DEF DirInv
<1> DEFINE name == Artifacts[next]
<1>1. /\ session = "writing" /\ next \in {1, 2, 3, 5} /\ file' = file
      /\ name \in Texts
  BY Names DEF CreateFile, WriteFile, CutFile, Writing, RunTypeOK
<1>2. PICK content \in Contents \ {"absent"} : disk' = [disk EXCEPT ![name] = content]
  BY DEF CreateFile, WriteFile, CutFile, Contents
<1>3. CASE next = 5
  <2>1. name = "simulation.json" /\ next' = next
    BY <1>3, Names DEF CreateFile, WriteFile, CutFile
  <2>2. session' \in {"writing", "ready", "none"}
    BY <1>1 DEF CreateFile, WriteFile, CutFile
  <2>3. \A t \in Tables : disk[t] = "whole" /\ disk'[t] = "whole"
    BY <1>2, <1>3, <2>1, Names DEF SimulationIsLast, RunTypeOK, Tables
  <2>4. RunTypeOK'
    BY <1>1, <1>2, <1>3, <2>1, <2>2, Names
      DEF RunTypeOK, CreateFile, WriteFile, CutFile
  <2>5. WrittenInOrder' /\ SimulationIsLast'
    BY <1>3, <2>1, <2>3, Names DEF WrittenInOrder, SimulationIsLast
  <2>6. PlanStays'
    BY <2>3 DEF PlanStays, JsonReadable, Tables
  <2> QED
    BY <2>4, <2>5, <2>6
<1>4. CASE next # 5
  <2>1. file = <<>> /\ \A i \in 1 .. 3 : i < next => disk[Artifacts[i]] = "whole"
    BY <1>1, <1>4, Names DEF WrittenInOrder
  <2>2. /\ name \in Tables /\ disk["simulation.json"] = "absent"
        /\ disk'["simulation.json"] = "absent"
    BY <1>1, <1>2, <1>4, Names DEF SimulationIsLast, RunTypeOK, Tables
  <2>3. RunTypeOK'
    BY <1>1, <1>2, <1>4, Names DEF RunTypeOK, CreateFile, WriteFile, CutFile
  <2>4. CASE CreateFile \/ CutFile
    <3>1. next' = next /\ session' \in {"writing", "none"}
      BY <1>1, <2>4 DEF CreateFile, CutFile
    <3>2. \A i \in 1 .. 3 : i < next => disk'[Artifacts[i]] = "whole"
      BY <1>1, <1>2, <1>4, <2>1, Names DEF RunTypeOK
    <3> QED
      BY <1>1, <1>4, <2>1, <2>2, <2>3, <3>1, <3>2, Names
        DEF WrittenInOrder, SimulationIsLast, PlanStays
  <2>5. CASE WriteFile
    <3>1. next' = next + 1 /\ session' = "writing" /\ disk'[name] = "whole" /\ next' # 5
      BY <1>1, <1>4, <2>5, Names DEF WriteFile, RunTypeOK
    <3>2. \A i \in 1 .. 3 : i < next' => disk'[Artifacts[i]] = "whole"
      BY <1>1, <1>2, <1>4, <2>1, <3>1, Names DEF RunTypeOK
    <3> QED
      BY <1>1, <2>1, <2>2, <2>3, <3>1, <3>2, Names
        DEF WrittenInOrder, SimulationIsLast, PlanStays
  <2> QED
    BY <2>4, <2>5
<1> QED
  BY <1>3, <1>4

LEMMA DirStep == ASSUME DirInv, [RunNext]_runVars PROVE DirInv'
<1> USE DEF DirInv
<1>1. CASE CreateFile \/ WriteFile \/ CutFile
  BY <1>1, FileStep
<1>2. CASE CreateLedger
  <2>1. /\ next = 4 /\ next' = 5 /\ session = "writing" /\ session' = "writing"
        /\ disk' = disk /\ file' = file /\ has_ledger' = TRUE
    BY <1>2, Names DEF CreateLedger
  <2>2. file = <<>> /\ \A t \in Tables : disk[t] = "whole"
    BY <2>1, Names DEF WrittenInOrder, Tables
  <2> QED
    BY <2>1, <2>2, Names
      DEF RunTypeOK, WrittenInOrder, SimulationIsLast, PlanStays
<1>3. CASE EndSession \/ StartSending \/ Resume
  <2>1. UNCHANGED <<file, disk, has_ledger, next>> /\ session' \in {"none", "sending", "ready"}
    BY <1>3 DEF EndSession, StartSending, Resume
  <2>2. session' \in {"sending", "ready"} => JsonReadable("plan.json")
    BY <1>3 DEF EndSession, StartSending, Resume, PlanStays
  <2> QED
    BY <2>1, <2>2
      DEF RunTypeOK, WrittenInOrder, SimulationIsLast, PlanStays, JsonReadable
<1>4. CASE SendCached
  <2>1. /\ UNCHANGED <<file, disk, has_ledger>> /\ session' = "writing" /\ next' = 5
        /\ disk["simulation.json"] # "absent"
    BY <1>4, Names DEF SendCached, cached_run_artifacts_exist
  <2> QED
    BY <2>1, Names DEF RunTypeOK, WrittenInOrder, SimulationIsLast, PlanStays, JsonReadable
<1>5. CASE AppendLedger
  <2>1. /\ UNCHANGED <<disk, next>> /\ session = "sending" /\ has_ledger' = TRUE
        /\ session' \in {"sending", "none"}
    BY <1>5 DEF AppendLedger
  <2> QED
    BY <2>1 DEF RunTypeOK, WrittenInOrder, SimulationIsLast, PlanStays, JsonReadable
<1>6. CASE UNCHANGED runVars
  BY <1>6 DEF runVars, dirVars, RunTypeOK, WrittenInOrder, SimulationIsLast,
              PlanStays, JsonReadable
<1> QED
  BY <1>1, <1>2, <1>3, <1>4, <1>5, <1>6 DEF RunNext

\* Files, sessions and their order keep the inductive invariant: of every run
\* directory, whatever sessions (cli.rs:88) worked on it and wherever they
\* ended.
THEOREM DirInvariance == RunSpec => []DirInv
<1>1. RunInit => DirInv
  BY DirInit
<1>2. DirInv /\ [RunNext]_runVars => DirInv'
  BY DirStep
<1> QED
  BY <1>1, <1>2, PTL DEF RunSpec

\* A run that `send` offers as cached has its plan and both tables in full,
\* although cached_run_artifacts_exist (cli.rs:350) looks at no contents.
LEMMA OfferedRunsAreWhole == RunSpec => []OfferedIsWhole
<1>1. DirInv => OfferedIsWhole
  BY Names DEF DirInv, SimulationIsLast, OfferedIsWhole, cached_run_artifacts_exist, Tables
<1> QED
  BY <1>1, DirInvariance, PTL

\* A ledger with an entry lies beside a plan.json that parses, at any moment:
\* a run that sent something can be read by read_plan_artifacts for its resume
\* (planning.rs:242).
LEMMA SentRunsHaveTheirPlan == RunSpec => []NoEntryWithoutPlan
<1>1. DirInv => NoEntryWithoutPlan
  BY DEF DirInv, PlanStays, NoEntryWithoutPlan
<1> QED
  BY <1>1, DirInvariance, PTL

\* What a session takes up, offered or resumed, has its plan, whatever earlier
\* sessions did and wherever one was cut off (write_plan_artifacts,
\* planning.rs:212).
THEOREM TakenUpRunsAreWhole == RunSpec => []TakenUpIsWhole
<1>1. OfferedIsWhole /\ NoEntryWithoutPlan => TakenUpIsWhole
  BY DEF TakenUpIsWhole
<1> QED
  BY <1>1, OfferedRunsAreWhole, SentRunsHaveTheirPlan, PTL

-----------------------------------------------------------------------------
(***************************************************************************)
(* ledger.jsonl and its reader.  Read and Sum are folds of the file; what  *)
(* an append does to each is one more step of its fold.                    *)
(***************************************************************************)

Pieces == {Json(entry) : entry \in LedgerEntry} \cup {Part, Newline}

ReadStates ==
  [progress : LedgerProgress, line : {"blank", "object", "bad"}, error : BOOLEAN]

SumPiece(progress, piece) ==
  IF piece.kind = "json" THEN apply(progress, piece.entry) ELSE progress

ReadOf(f) == FoldLeft(ReadPiece, ReadInit, f)
SumOfPieces(f) == FoldLeft(SumPiece, EmptyProgress, f)

\* An entry, and a progress, keep their types.
LEMMA EntryParts ==
  \A e \in LedgerEntry :
    /\ e.batch \in Batches /\ e.signature \in OptSignature
    /\ e.event \in BatchEvents \cup RecipientEvents
    /\ e.event \in RecipientEvents => e \in RecipientLedgerEntry
BY DEF LedgerEntry, BatchLedgerEntry, RecipientLedgerEntry, OptSignature,
       BatchEvents, RecipientEvents

LEMMA EmptyType == EmptyProgress \in LedgerProgress
BY DEF EmptyProgress, LedgerProgress, BatchProgress, OptSignature

LEMMA AppliedType ==
  ASSUME NEW p \in LedgerProgress, NEW e \in LedgerEntry
  PROVE  apply(p, e) \in LedgerProgress
<1> USE EntryParts DEF LedgerProgress, BatchProgress
<1>0. NoSignature \in OptSignature
  BY DEF OptSignature
<1>2. CASE e.event \in {"BatchPrepared", "BatchSignatureMismatch"}
  BY <1>2 DEF apply, record_batch_prepared
<1>3. CASE e.event = "BatchSubmitted"
  BY <1>3 DEF apply, record_batch_submitted
<1>4. CASE e.event = "BatchConfirmed"
  BY <1>4 DEF apply, record_batch_confirmed
<1>5. CASE e.event = "BatchFailed"
  BY <1>0, <1>5 DEF apply, record_batch_failed
<1>6. CASE e.event \in RecipientEvents
  BY <1>6 DEF apply, RecipientEvents
<1> QED
  BY <1>2, <1>3, <1>4, <1>5, <1>6 DEF BatchEvents

LEMMA PieceKinds ==
  /\ \A p \in Pieces :
       \/ \E e \in LedgerEntry : p = Json(e)
       \/ p = Part \/ p = Newline
  /\ \A e \in LedgerEntry : Json(e).kind = "json" /\ Json(e).entry = e /\ Json(e) \in Pieces
  /\ Part.kind = "part" /\ Newline.kind = "newline"
  /\ Part \in Pieces /\ Newline \in Pieces
BY DEF Pieces, Json, Part, Newline

LEMMA ReadPieceType ==
  ASSUME NEW state \in ReadStates, NEW p \in Pieces
  PROVE  ReadPiece(state, p) \in ReadStates
<1>1. CASE p = Newline \/ p = Part
  BY <1>1, PieceKinds DEF ReadPiece, ReadStates
<1>2. ASSUME NEW e \in LedgerEntry, p = Json(e) PROVE ReadPiece(state, p) \in ReadStates
  <2>1. p.kind = "json" /\ p.entry = e
    BY <1>2, PieceKinds
  <2>2. apply(state.progress, e) \in LedgerProgress
    BY AppliedType DEF ReadStates
  <2> QED
    BY <2>1, <2>2 DEF ReadPiece, ReadStates
<1> QED
  BY <1>1, <1>2, PieceKinds

LEMMA SumPieceType ==
  ASSUME NEW progress \in LedgerProgress, NEW p \in Pieces
  PROVE  SumPiece(progress, p) \in LedgerProgress
BY PieceKinds, AppliedType DEF SumPiece

LEMMA ReadInitType == ReadInit \in ReadStates
BY EmptyType DEF ReadInit, ReadStates

\* A fold of a sequence passes through one value for each of its prefixes.
ReadRun(r, f) ==
  /\ r[0] = ReadInit
  /\ \A k \in 0 .. Len(f) - 1 : r[k + 1] = ReadPiece(r[k], f[k + 1])

LEMMA ReadRunExists ==
  ASSUME NEW f \in Seq(Pieces)
  PROVE  \E r : ReadRun(r, f) /\ ReadOf(f) = r[Len(f)]
<1> DEFINE n == Len(f)
           Folds(g) ==
             g = [s \in SUBSET (1 .. n) |->
                    IF s = {} THEN ReadInit
                    ELSE ReadPiece(g[s \ {Max(s)}], f[Max(s)])]
           step == [x \in ReadStates \X (1 .. n) |-> ReadPiece(x[1], f[x[2]])]
<1>0. n \in Nat /\ DOMAIN f = 1 .. n /\ \A i \in 1 .. n : f[i] \in Pieces
  OBVIOUS
<1>1. step \in [ReadStates \X (1 .. n) -> ReadStates]
  <2>1. \A x \in ReadStates \X (1 .. n) : ReadPiece(x[1], f[x[2]]) \in ReadStates
    BY <1>0, ReadPieceType
  <2> QED
    BY <2>1
<1>2. \E g \in [SUBSET (1 .. n) -> ReadStates] : IsFold(g, step, ReadInit, n)
  <2> HIDE DEF step, n
  <2> QED
    BY <1>0, <1>1, ReadInitType, FoldLeftExists
<1>3. \E g : Folds(g)
  <2>1. PICK g \in [SUBSET (1 .. n) -> ReadStates] : IsFold(g, step, ReadInit, n)
    BY <1>2
  <2>2. \A s \in SUBSET (1 .. n) :
          g[s] = IF s = {} THEN ReadInit ELSE ReadPiece(g[s \ {Max(s)}], f[Max(s)])
    <3> SUFFICES ASSUME NEW s \in SUBSET (1 .. n)
                 PROVE  g[s] = IF s = {} THEN ReadInit
                               ELSE ReadPiece(g[s \ {Max(s)}], f[Max(s)])
      OBVIOUS
    <3>1. g[s] = IF s = {} THEN ReadInit ELSE step[<<g[s \ {Max(s)}], Max(s)>>]
      BY <2>1 DEF IsFold
    <3>2. CASE s # {}
      <4>1. Max(s) \in 1 .. n
        BY <1>0, <3>2, MaxIn
      <4>2. s \ {Max(s)} \in SUBSET (1 .. n)
        OBVIOUS
      <4>3. g[s \ {Max(s)}] \in ReadStates
        BY <4>2
      <4> QED
        BY <3>1, <3>2, <4>1, <4>3
    <3> QED
      BY <3>1, <3>2
  <2>3. g = [s \in SUBSET (1 .. n) |-> g[s]]
    OBVIOUS
  <2> HIDE DEF n
  <2>4. Folds(g)
    BY <2>2, <2>3
  <2> QED
    BY <2>4
<1> DEFINE G == CHOOSE g : Folds(g)
           r == [k \in 0 .. n |-> G[1 .. k]]
<1>4. Folds(G)
  <2> HIDE DEF Folds
  <2> QED
    BY <1>3
<1>5. ReadOf(f) = G[1 .. n]
  BY <1>0 DEF ReadOf, FoldLeft, MapThenFoldSet
<1>6. \A s \in SUBSET (1 .. n) :
        G[s] = IF s = {} THEN ReadInit ELSE ReadPiece(G[s \ {Max(s)}], f[Max(s)])
  <2> HIDE DEF G
  <2> QED
    BY <1>4
<1>7. r[0] = ReadInit
  <2>1. 1 .. 0 = {} /\ 0 \in 0 .. n
    BY <1>0
  <2>2. {} \in SUBSET (1 .. n)
    OBVIOUS
  <2> HIDE DEF G, n
  <2>3. r[0] = G[{}]
    BY <2>1
  <2> QED
    BY <1>6, <2>2, <2>3
<1>8. ASSUME NEW k \in 0 .. n - 1 PROVE r[k + 1] = ReadPiece(r[k], f[k + 1])
  <2>1. Max(1 .. k + 1) = k + 1 /\ k + 1 \in Nat
    BY <1>0, MaxIn
  <2>2. (1 .. k + 1) \ {k + 1} = 1 .. k
    BY <1>0
  <2>3. 1 .. k + 1 \in SUBSET (1 .. n) /\ 1 .. k + 1 # {}
    <3>1. 1 \in 1 .. k + 1 /\ \A i \in 1 .. k + 1 : i \in 1 .. n
      BY <1>0, <2>1
    <3> QED
      BY <3>1
  <2> HIDE DEF G
  <2>4. G[1 .. k + 1] = ReadPiece(G[1 .. k], f[k + 1])
    BY <1>6, <2>1, <2>2, <2>3
  <2>5. k \in 0 .. n /\ k + 1 \in 0 .. n
    BY <1>0
  <2> QED
    BY <2>4, <2>5
<1>9. r[n] = G[1 .. n]
  <2> HIDE DEF G
  <2> QED
    BY <1>0
<1> HIDE DEF G, r
<1> QED
  BY <1>5, <1>7, <1>8, <1>9 DEF ReadRun

SumRun(r, f) ==
  /\ r[0] = EmptyProgress
  /\ \A k \in 0 .. Len(f) - 1 : r[k + 1] = SumPiece(r[k], f[k + 1])

LEMMA SumRunExists ==
  ASSUME NEW f \in Seq(Pieces)
  PROVE  \E r : SumRun(r, f) /\ SumOfPieces(f) = r[Len(f)]
<1> DEFINE n == Len(f)
           Folds(g) ==
             g = [s \in SUBSET (1 .. n) |->
                    IF s = {} THEN EmptyProgress
                    ELSE SumPiece(g[s \ {Max(s)}], f[Max(s)])]
           step == [x \in LedgerProgress \X (1 .. n) |-> SumPiece(x[1], f[x[2]])]
<1>0. n \in Nat /\ DOMAIN f = 1 .. n /\ \A i \in 1 .. n : f[i] \in Pieces
  OBVIOUS
<1>1. step \in [LedgerProgress \X (1 .. n) -> LedgerProgress]
  <2>1. \A x \in LedgerProgress \X (1 .. n) : SumPiece(x[1], f[x[2]]) \in LedgerProgress
    BY <1>0, SumPieceType
  <2> QED
    BY <2>1
<1>2. \E g \in [SUBSET (1 .. n) -> LedgerProgress] : IsFold(g, step, EmptyProgress, n)
  <2> HIDE DEF step, n
  <2> QED
    BY <1>0, <1>1, EmptyType, FoldLeftExists
<1>3. \E g : Folds(g)
  <2>1. PICK g \in [SUBSET (1 .. n) -> LedgerProgress] : IsFold(g, step, EmptyProgress, n)
    BY <1>2
  <2>2. \A s \in SUBSET (1 .. n) :
          g[s] = IF s = {} THEN EmptyProgress ELSE SumPiece(g[s \ {Max(s)}], f[Max(s)])
    <3> SUFFICES ASSUME NEW s \in SUBSET (1 .. n)
                 PROVE  g[s] = IF s = {} THEN EmptyProgress
                               ELSE SumPiece(g[s \ {Max(s)}], f[Max(s)])
      OBVIOUS
    <3>1. g[s] = IF s = {} THEN EmptyProgress ELSE step[<<g[s \ {Max(s)}], Max(s)>>]
      BY <2>1 DEF IsFold
    <3>2. CASE s # {}
      <4>1. Max(s) \in 1 .. n
        BY <1>0, <3>2, MaxIn
      <4>2. s \ {Max(s)} \in SUBSET (1 .. n)
        OBVIOUS
      <4>3. g[s \ {Max(s)}] \in LedgerProgress
        BY <4>2
      <4> QED
        BY <3>1, <3>2, <4>1, <4>3
    <3> QED
      BY <3>1, <3>2
  <2>3. g = [s \in SUBSET (1 .. n) |-> g[s]]
    OBVIOUS
  <2> HIDE DEF n
  <2>4. Folds(g)
    BY <2>2, <2>3
  <2> QED
    BY <2>4
<1> DEFINE G == CHOOSE g : Folds(g)
           r == [k \in 0 .. n |-> G[1 .. k]]
<1>4. Folds(G)
  <2> HIDE DEF Folds
  <2> QED
    BY <1>3
<1>5. SumOfPieces(f) = G[1 .. n]
  BY <1>0 DEF SumOfPieces, FoldLeft, MapThenFoldSet
<1>6. \A s \in SUBSET (1 .. n) :
        G[s] = IF s = {} THEN EmptyProgress ELSE SumPiece(G[s \ {Max(s)}], f[Max(s)])
  <2> HIDE DEF G
  <2> QED
    BY <1>4
<1>7. r[0] = EmptyProgress
  <2>1. 1 .. 0 = {} /\ 0 \in 0 .. n
    BY <1>0
  <2>2. {} \in SUBSET (1 .. n)
    OBVIOUS
  <2> HIDE DEF G, n
  <2>3. r[0] = G[{}]
    BY <2>1
  <2> QED
    BY <1>6, <2>2, <2>3
<1>8. ASSUME NEW k \in 0 .. n - 1 PROVE r[k + 1] = SumPiece(r[k], f[k + 1])
  <2>1. Max(1 .. k + 1) = k + 1 /\ k + 1 \in Nat
    BY <1>0, MaxIn
  <2>2. (1 .. k + 1) \ {k + 1} = 1 .. k
    BY <1>0
  <2>3. 1 .. k + 1 \in SUBSET (1 .. n) /\ 1 .. k + 1 # {}
    <3>1. 1 \in 1 .. k + 1 /\ \A i \in 1 .. k + 1 : i \in 1 .. n
      BY <1>0, <2>1
    <3> QED
      BY <3>1
  <2> HIDE DEF G
  <2>4. G[1 .. k + 1] = SumPiece(G[1 .. k], f[k + 1])
    BY <1>6, <2>1, <2>2, <2>3
  <2>5. k \in 0 .. n /\ k + 1 \in 0 .. n
    BY <1>0
  <2> QED
    BY <2>4, <2>5
<1>9. r[n] = G[1 .. n]
  <2> HIDE DEF G
  <2> QED
    BY <1>0
<1> HIDE DEF G, r
<1> QED
  BY <1>5, <1>7, <1>8, <1>9 DEF SumRun

LEMMA ReadAppend ==
  ASSUME NEW f \in Seq(Pieces), NEW p \in Pieces
  PROVE  ReadOf(Append(f, p)) = ReadPiece(ReadOf(f), p) /\ ReadOf(f) \in ReadStates
<1> DEFINE n == Len(f)
           h == Append(f, p)
<1>1. PICK r : ReadRun(r, f) /\ ReadOf(f) = r[n]
  BY ReadRunExists
<1>2. /\ h \in Seq(Pieces) /\ Len(h) = n + 1 /\ h[n + 1] = p /\ n \in Nat
      /\ \A i \in 1 .. n : h[i] = f[i] /\ f[i] \in Pieces
  OBVIOUS
<1>3. PICK q : ReadRun(q, h) /\ ReadOf(h) = q[n + 1]
  BY <1>2, ReadRunExists
<1> DEFINE T == {k \in Nat : k <= n => q[k] = r[k] /\ r[k] \in ReadStates}
<1> HIDE DEF h, n
<1>4. 0 \in T
  BY <1>1, <1>2, <1>3, ReadInitType DEF ReadRun
<1>5. ASSUME NEW k \in Nat, k \in T PROVE k + 1 \in T
  <2> SUFFICES ASSUME k + 1 <= n PROVE q[k + 1] = r[k + 1] /\ r[k + 1] \in ReadStates
    OBVIOUS
  <2>1. k \in 0 .. n - 1 /\ k \in 0 .. (n + 1) - 1 /\ k + 1 \in 1 .. n
    BY <1>2
  <2>2. q[k] = r[k] /\ r[k] \in ReadStates /\ h[k + 1] = f[k + 1] /\ f[k + 1] \in Pieces
    BY <1>2, <1>5, <2>1
  <2>3. r[k + 1] = ReadPiece(r[k], f[k + 1])
    BY <1>1, <2>1 DEF ReadRun, n
  <2>4. q[k + 1] = ReadPiece(q[k], h[k + 1])
    BY <1>2, <1>3, <2>1 DEF ReadRun
  <2> QED
    BY <2>2, <2>3, <2>4, ReadPieceType
<1>6. n \in T
  <2> HIDE DEF T
  <2>1. Nat \subseteq T
    BY <1>4, <1>5, InductionOnNat
  <2> QED
    BY <1>2, <2>1
<1>7. q[n] = r[n] /\ r[n] \in ReadStates
  BY <1>2, <1>6
<1>8. q[n + 1] = ReadPiece(q[n], h[n + 1])
  BY <1>2, <1>3 DEF ReadRun
<1> QED
  BY <1>1, <1>2, <1>3, <1>7, <1>8 DEF h

LEMMA SumAppend ==
  ASSUME NEW f \in Seq(Pieces), NEW p \in Pieces
  PROVE  SumOfPieces(Append(f, p)) = SumPiece(SumOfPieces(f), p) /\ SumOfPieces(f) \in LedgerProgress
<1> DEFINE n == Len(f)
           h == Append(f, p)
<1>1. PICK r : SumRun(r, f) /\ SumOfPieces(f) = r[n]
  BY SumRunExists
<1>2. /\ h \in Seq(Pieces) /\ Len(h) = n + 1 /\ h[n + 1] = p /\ n \in Nat
      /\ \A i \in 1 .. n : h[i] = f[i] /\ f[i] \in Pieces
  OBVIOUS
<1>3. PICK q : SumRun(q, h) /\ SumOfPieces(h) = q[n + 1]
  BY <1>2, SumRunExists
<1> DEFINE T == {k \in Nat : k <= n => q[k] = r[k] /\ r[k] \in LedgerProgress}
<1> HIDE DEF h, n
<1>4. 0 \in T
  BY <1>1, <1>2, <1>3, EmptyType DEF SumRun
<1>5. ASSUME NEW k \in Nat, k \in T PROVE k + 1 \in T
  <2> SUFFICES ASSUME k + 1 <= n PROVE q[k + 1] = r[k + 1] /\ r[k + 1] \in LedgerProgress
    OBVIOUS
  <2>1. k \in 0 .. n - 1 /\ k \in 0 .. (n + 1) - 1 /\ k + 1 \in 1 .. n
    BY <1>2
  <2>2. q[k] = r[k] /\ r[k] \in LedgerProgress /\ h[k + 1] = f[k + 1] /\ f[k + 1] \in Pieces
    BY <1>2, <1>5, <2>1
  <2>3. r[k + 1] = SumPiece(r[k], f[k + 1])
    BY <1>1, <2>1 DEF SumRun, n
  <2>4. q[k + 1] = SumPiece(q[k], h[k + 1])
    BY <1>2, <1>3, <2>1 DEF SumRun
  <2> QED
    BY <2>2, <2>3, <2>4, SumPieceType
<1>6. n \in T
  <2> HIDE DEF T
  <2>1. Nat \subseteq T
    BY <1>4, <1>5, InductionOnNat
  <2> QED
    BY <1>2, <2>1
<1>7. q[n] = r[n] /\ r[n] \in LedgerProgress
  BY <1>2, <1>6
<1>8. q[n + 1] = SumPiece(q[n], h[n + 1])
  BY <1>2, <1>3 DEF SumRun
<1> QED
  BY <1>1, <1>2, <1>3, <1>7, <1>8 DEF h

-----------------------------------------------------------------------------
(* The file through every append.                                          *)

\* What the reader says of a file it gets through, and of one it does not.
FileInv ==
  /\ file \in Seq(Pieces)
  /\ Read.line = "bad" => Read.error
  /\ ReadIsComplete

LEMMA Folds ==
  /\ Read = ReadOf(file) /\ Sum = SumOfPieces(file)
  /\ Read' = ReadOf(file') /\ Sum' = SumOfPieces(file')
<1>1. Read = ReadOf(file) /\ Read' = ReadOf(file')
  BY DEF Read, ReadOf
<1>2. Sum = SumOfPieces(file) /\ Sum' = SumOfPieces(file')
  BY DEF Sum, SumOfPieces, FoldLeft, MapThenFoldSet, SumPiece
<1> QED
  BY <1>1, <1>2

\* What Entries is, of any file.
EntriesOf(f) == {f[i].entry : i \in {j \in DOMAIN f : f[j].kind = "json"}}

LEMMA EntriesAppend ==
  ASSUME NEW f \in Seq(Pieces)
  PROVE  /\ \A e \in LedgerEntry : EntriesOf(Append(f, Json(e))) = EntriesOf(f) \cup {e}
         /\ EntriesOf(Append(f, Newline)) = EntriesOf(f)
         /\ EntriesOf(Append(f, Part)) = EntriesOf(f)
<1>1. ASSUME NEW p \in Pieces
      PROVE  EntriesOf(Append(f, p)) =
               EntriesOf(f) \cup (IF p.kind = "json" THEN {p.entry} ELSE {})
  <2> DEFINE h == Append(f, p)
             n == Len(f)
  <2>1. /\ n \in Nat /\ DOMAIN f = 1 .. n /\ DOMAIN h = 1 .. n + 1 /\ h[n + 1] = p
        /\ \A i \in 1 .. n : h[i] = f[i]
    OBVIOUS
  <2> HIDE DEF h, n
  <2>2. 1 .. n + 1 = (1 .. n) \cup {n + 1} /\ n + 1 \notin 1 .. n
    BY <2>1
  <2>3. EntriesOf(h) = EntriesOf(f) \cup (IF p.kind = "json" THEN {p.entry} ELSE {})
    BY <2>1, <2>2 DEF EntriesOf
  <2> QED
    BY <2>3 DEF h
<1> QED
  BY <1>1, PieceKinds

\* The two pieces of an append, one after the other, to the reader.
LEMMA Appended ==
  ASSUME NEW f \in Seq(Pieces), NEW e \in LedgerEntry
  PROVE  LET whole == f \o <<Json(e), Newline>>
             cut   == Append(f, Json(e))
             bad   == Append(f, Part)
         IN  /\ whole \in Seq(Pieces) /\ cut \in Seq(Pieces) /\ bad \in Seq(Pieces)
             /\ SumOfPieces(whole) = apply(SumOfPieces(f), e)
             /\ SumOfPieces(cut) = apply(SumOfPieces(f), e)
             /\ SumOfPieces(bad) = SumOfPieces(f)
             /\ ReadOf(bad).error /\ ReadOf(bad).line = "bad"
             /\ ReadOf(f).error => ReadOf(cut).error /\ ReadOf(whole).error
             /\ ReadOf(f).line # "blank" => ReadOf(cut).error /\ ReadOf(whole).error
             /\ ReadOf(f).line = "blank" /\ ~ReadOf(f).error =>
                  /\ ReadOf(cut) = [progress |-> apply(ReadOf(f).progress, e),
                                    line |-> "object", error |-> FALSE]
                  /\ ReadOf(whole) = [progress |-> apply(ReadOf(f).progress, e),
                                      line |-> "blank", error |-> FALSE]
             /\ ReadOf(cut).line # "blank"
             /\ ReadOf(whole).line = "blank"
             /\ EntriesOf(whole) = EntriesOf(f) \cup {e}
             /\ EntriesOf(cut) = EntriesOf(f) \cup {e}
             /\ EntriesOf(bad) = EntriesOf(f)
<1> DEFINE whole == f \o <<Json(e), Newline>>
           cut   == Append(f, Json(e))
           bad   == Append(f, Part)
<1>1. /\ Json(e) \in Pieces /\ Newline \in Pieces /\ Part \in Pieces
      /\ Json(e).kind = "json" /\ Json(e).entry = e
      /\ Newline.kind = "newline" /\ Part.kind = "part"
  BY PieceKinds
<1>2. cut \in Seq(Pieces) /\ bad \in Seq(Pieces) /\ whole = Append(cut, Newline)
  BY <1>1
<1>3. whole \in Seq(Pieces)
  BY <1>1, <1>2
<1>4. /\ SumOfPieces(cut) = apply(SumOfPieces(f), e)
      /\ SumOfPieces(bad) = SumOfPieces(f)
      /\ SumOfPieces(whole) = SumOfPieces(cut)
  BY <1>1, <1>2, SumAppend DEF SumPiece
<1>5. /\ ReadOf(cut) = ReadPiece(ReadOf(f), Json(e))
      /\ ReadOf(bad) = ReadPiece(ReadOf(f), Part)
      /\ ReadOf(whole) = ReadPiece(ReadOf(cut), Newline)
      /\ ReadOf(f) \in ReadStates /\ ReadOf(cut) \in ReadStates
  BY <1>1, <1>2, ReadAppend
<1>6. /\ EntriesOf(cut) = EntriesOf(f) \cup {e} /\ EntriesOf(bad) = EntriesOf(f)
      /\ EntriesOf(whole) = EntriesOf(cut)
  BY <1>2, EntriesAppend
<1> HIDE DEF whole, cut, bad
<1>7. ReadOf(bad).error /\ ReadOf(bad).line = "bad"
  BY <1>1, <1>5 DEF ReadPiece, ReadStates
<1>8. CASE ReadOf(f).line = "blank"
  <2>1. ReadOf(cut) = [ReadOf(f) EXCEPT !.line = "object", !.progress = apply(@, e)]
    BY <1>1, <1>5, <1>8 DEF ReadPiece
  <2>2. /\ ReadOf(cut).line = "object" /\ ReadOf(cut).error = ReadOf(f).error
        /\ ReadOf(cut).progress = apply(ReadOf(f).progress, e)
    BY <1>5, <2>1 DEF ReadStates
  <2>3. ReadOf(cut) = [progress |-> apply(ReadOf(f).progress, e),
                       line |-> "object", error |-> ReadOf(f).error]
    BY <1>5, <2>2 DEF ReadStates
  <2>4. ReadOf(whole) = [ReadOf(cut) EXCEPT !.line = "blank"]
    BY <1>1, <1>5 DEF ReadPiece
  <2>5. ReadOf(whole) = [progress |-> apply(ReadOf(f).progress, e),
                         line |-> "blank", error |-> ReadOf(f).error]
    BY <2>3, <2>4
  <2>6. ~ReadOf(f).error => ReadOf(f).error = FALSE
    BY <1>5 DEF ReadStates
  <2>7. ~ReadOf(f).error =>
          /\ ReadOf(cut) = [progress |-> apply(ReadOf(f).progress, e),
                            line |-> "object", error |-> FALSE]
          /\ ReadOf(whole) = [progress |-> apply(ReadOf(f).progress, e),
                              line |-> "blank", error |-> FALSE]
    BY ONLY <2>3, <2>5, <2>6
  <2>8. /\ ReadOf(cut).line # "blank" /\ ReadOf(whole).line = "blank"
        /\ ReadOf(f).error => ReadOf(cut).error /\ ReadOf(whole).error
    BY <2>3, <2>5
  <2> QED
    BY <1>2, <1>3, <1>4, <1>6, <1>7, <1>8, <2>7, <2>8 DEF whole, cut, bad
<1>9. CASE ReadOf(f).line # "blank"
  <2>1. ReadOf(cut) = [ReadOf(f) EXCEPT !.line = "bad", !.error = TRUE]
    BY <1>1, <1>5, <1>9 DEF ReadPiece
  <2>2. ReadOf(cut).line = "bad" /\ ReadOf(cut).error
    BY <1>5, <2>1 DEF ReadStates
  <2>3. ReadOf(whole) = [ReadOf(cut) EXCEPT !.line = "blank"]
    BY <1>1, <1>5 DEF ReadPiece
  <2>4. ReadOf(whole).line = "blank" /\ ReadOf(whole).error
    BY <1>5, <2>2, <2>3 DEF ReadStates
  <2> QED
    BY <1>2, <1>3, <1>4, <1>6, <1>7, <1>9, <2>2, <2>4 DEF whole, cut, bad
<1> QED
  BY <1>8, <1>9

LEMMA SomeEntry == LedgerEntry # {}
<1>1. [event |-> "BatchFailed", batch |-> 1, signature |-> <<1, 0>>] \in BatchLedgerEntry
  BY PlanAssumption DEF BatchLedgerEntry, BatchEvents, Batches, Signatures, Blockhashes
<1> QED
  BY <1>1 DEF LedgerEntry

\* LedgerStore has the entries of Ledger.
LEMMA StoreNames ==
  /\ Store!LedgerEntry = LedgerEntry /\ Store!RecipientEvents = RecipientEvents
  /\ Store!EmptyProgress = EmptyProgress
  /\ \A p, e : Store!apply(p, e) = apply(p, e)
<1>1. Store!RecipientEvents = RecipientEvents /\ Store!NoSignature = NoSignature
  BY DEF Store!RecipientEvents, RecipientEvents, Store!NoSignature, NoSignature
<1>2. Store!LedgerEntry = LedgerEntry
  BY <1>1 DEF Store!LedgerEntry, LedgerEntry, Store!BatchLedgerEntry, BatchLedgerEntry,
     Store!RecipientLedgerEntry, RecipientLedgerEntry, Store!BatchEvents, BatchEvents,
     Store!Batches, Batches, Store!Signatures, Signatures, Store!Blockhashes, Blockhashes,
     Store!Recipients, Recipients
<1>3. Store!EmptyProgress = EmptyProgress
  BY <1>1 DEF Store!EmptyProgress, EmptyProgress, Store!Batches, Batches
<1>4. ASSUME NEW p, NEW e PROVE Store!apply(p, e) = apply(p, e)
  BY <1>1 DEF Store!apply, apply, Store!record_batch_prepared, record_batch_prepared,
     Store!record_batch_submitted, record_batch_submitted, Store!record_batch_confirmed,
     record_batch_confirmed, Store!record_batch_failed, record_batch_failed
<1> QED
  BY <1>1, <1>2, <1>3, <1>4

\* An append, whole or cut, is one of LedgerStore's, and the reader goes on
\* as FileInv says.
LEMMA AppendIsStored ==
  ASSUME FileInv, Next
  PROVE  FileInv' /\ Store!FileNext
<1> DEFINE log  == {e \in Entries : e.event \in RecipientEvents}
           tail == CASE Read.error -> "corrupt"
                     [] ~Read.error /\ Read.line = "object" -> "open"
                     [] OTHER -> "clean"
<1>1. file \in Seq(Pieces) /\ Entries = EntriesOf(file) /\ Entries' = EntriesOf(file')
  BY DEF FileInv, Entries, EntriesOf
<1>2. Read \in ReadStates
  BY <1>1, PieceKinds, ReadAppend, Folds
<1>3. tail \in {"clean", "open", "corrupt"}
  OBVIOUS
<1>4. /\ tail = "corrupt" <=> Read.error
      /\ tail = "clean" <=> ~Read.error /\ Read.line = "blank"
      /\ tail = "open" <=> ~Read.error /\ Read.line = "object"
  BY <1>2 DEF FileInv, ReadStates
<1>5. ASSUME NEW e \in LedgerEntry, AppendEntry(e) PROVE FileInv' /\ Store!FileNext
  <2>1. file' = file \o <<Json(e), Newline>>
    BY <1>5 DEF AppendEntry
  <2>2. /\ file' \in Seq(Pieces) /\ Sum' = apply(Sum, e) /\ Entries' = Entries \cup {e}
        /\ Read'.line = "blank"
        /\ tail # "clean" => Read'.error
        /\ tail = "clean" => /\ Read'.progress = apply(Read.progress, e)
                             /\ ~Read'.error
    <3>1. /\ file' \in Seq(Pieces) /\ SumOfPieces(file') = apply(SumOfPieces(file), e)
          /\ EntriesOf(file') = EntriesOf(file) \cup {e}
          /\ ReadOf(file).error \/ ReadOf(file).line # "blank" => ReadOf(file').error
          /\ ReadOf(file).line = "blank" /\ ~ReadOf(file).error =>
               ReadOf(file') = [progress |-> apply(ReadOf(file).progress, e),
                                line |-> "blank", error |-> FALSE]
          /\ ReadOf(file').line = "blank"
      BY <1>1, <2>1, Appended
    <3>2. tail = "clean" <=> Read.line = "blank" /\ ~Read.error
      BY <1>4
    <3> HIDE DEF tail
    <3> QED
      BY ONLY <1>1, <3>1, <3>2, Folds
  <2>3. FileInv'
    BY <1>4, <2>2 DEF FileInv, ReadIsComplete
  <2>4. log' = IF e.event \in RecipientEvents THEN log \cup {e} ELSE log
    BY <2>2
  <2>5. tail' = IF tail = "clean" THEN "clean" ELSE "corrupt"
    BY <2>2
  <2>6. Store!AppendEntry(e)
    BY <2>2, <2>4, <2>5, StoreNames DEF Store!AppendEntry, Store!Written
  <2> QED
    BY <2>3, <2>6, StoreNames DEF Store!FileNext
<1>6. ASSUME NEW e \in LedgerEntry, CutBeforeNewline(e) PROVE FileInv' /\ Store!FileNext
  <2>1. file' = Append(file, Json(e))
    BY <1>6 DEF CutBeforeNewline
  <2>2. /\ file' \in Seq(Pieces) /\ Sum' = apply(Sum, e) /\ Entries' = Entries \cup {e}
        /\ tail # "clean" => Read'.error
        /\ tail = "clean" => /\ Read'.progress = apply(Read.progress, e)
                             /\ Read'.line = "object" /\ ~Read'.error
    <3>1. /\ file' \in Seq(Pieces) /\ SumOfPieces(file') = apply(SumOfPieces(file), e)
          /\ EntriesOf(file') = EntriesOf(file) \cup {e}
          /\ ReadOf(file).error \/ ReadOf(file).line # "blank" => ReadOf(file').error
          /\ ReadOf(file).line = "blank" /\ ~ReadOf(file).error =>
               ReadOf(file') = [progress |-> apply(ReadOf(file).progress, e),
                                line |-> "object", error |-> FALSE]
      BY <1>1, <2>1, Appended
    <3>2. tail = "clean" <=> Read.line = "blank" /\ ~Read.error
      BY <1>4
    <3> HIDE DEF tail
    <3> QED
      BY ONLY <1>1, <3>1, <3>2, Folds
  <2>3. FileInv'
    BY <1>4, <2>2 DEF FileInv, ReadIsComplete
  <2>4. log' = IF e.event \in RecipientEvents THEN log \cup {e} ELSE log
    BY <2>2
  <2>5. tail' = IF tail = "clean" THEN "open" ELSE "corrupt"
    BY <2>2
  <2>6. Store!TornEntry(e)
    BY <2>2, <2>4, <2>5, StoreNames DEF Store!TornEntry, Store!Written
  <2> QED
    BY <2>3, <2>6, StoreNames DEF Store!FileNext
<1>7. ASSUME CutInEntry PROVE FileInv' /\ Store!FileNext
  <2>1. file' = Append(file, Part)
    BY <1>7 DEF CutInEntry
  <2>2. PICK e \in LedgerEntry : TRUE
    BY SomeEntry
  <2>3. /\ file' \in Seq(Pieces) /\ Sum' = Sum /\ Entries' = Entries /\ Read'.error
    BY <1>1, <2>1, <2>2, Appended, Folds
  <2>4. FileInv'
    BY <2>3 DEF FileInv, ReadIsComplete
  <2>5. log' = log /\ tail' = "corrupt"
    BY <2>3
  <2>6. Store!TornEntry(e)
    BY <2>3, <2>5, StoreNames DEF Store!TornEntry
  <2> QED
    BY <2>4, <2>6, StoreNames DEF Store!FileNext
<1> QED
  BY <1>5, <1>6, <1>7 DEF Next

\* Every other step of a session leaves the ledger alone.
LEMMA OnlyAppendsAreSeen ==
  ASSUME [RunNext]_runVars
  PROVE  Next \/ file' = file
BY DEF RunNext, CreateFile, WriteFile, CutFile, CreateLedger, EndSession, StartSending,
       Resume, SendCached, AppendLedger, runVars

LEMMA LedgerStep ==
  ASSUME FileInv, [RunNext]_runVars
  PROVE  FileInv' /\ [Store!FileNext]_(Store!fileVars)
<1>1. CASE Next
  BY <1>1, AppendIsStored
<1>2. CASE file' = file
  <2>1. Read' = Read /\ Sum' = Sum /\ Entries' = Entries
    BY <1>2, Folds DEF Entries
  <2> QED
    BY <1>2, <2>1 DEF FileInv, ReadIsComplete, Store!fileVars
<1> QED
  BY <1>1, <1>2, OnlyAppendsAreSeen

LEMMA LedgerStart == RunInit => FileInv /\ Store!FileInit
<1> SUFFICES ASSUME RunInit PROVE FileInv /\ Store!FileInit
  OBVIOUS
<1>1. file = <<>> /\ file \in Seq(Pieces) /\ Len(file) = 0
  BY DEF RunInit, Init
<1>2. Read = ReadInit
  BY <1>1, ReadRunExists, Folds DEF ReadRun
<1>3. Sum = EmptyProgress
  BY <1>1, SumRunExists, Folds DEF SumRun
<1>4. Entries = {}
  BY <1>1 DEF Entries
<1> QED
  BY <1>1, <1>2, <1>3, <1>4, StoreNames DEF FileInv, ReadIsComplete, ReadInit, Store!FileInit

\* Whatever entries were appended, in whatever sessions, and wherever an
\* append was cut: a reader that gets through ledger.jsonl has applied every
\* complete entry, in order (LedgerProgress::read).
THEOREM ReadersMissNothing == RunSpec => []ReadIsComplete
<1>1. RunInit => FileInv
  BY LedgerStart
<1>2. FileInv /\ [RunNext]_runVars => FileInv'
  BY LedgerStep
<1>3. FileInv => ReadIsComplete
  BY DEF FileInv
<1> QED
  BY <1>1, <1>2, <1>3, PTL DEF RunSpec

\* The lines of the file implement LedgerStore, the ledger that the sessions
\* of SendPlan, Runs and TwoSenders work on.
THEOREM LinesAreAStore == RunSpec => ImplementsStore
<1>1. RunInit => FileInv /\ Store!FileInit
  BY LedgerStart
<1>2. FileInv /\ [RunNext]_runVars => FileInv' /\ [Store!FileNext]_(Store!fileVars)
  BY LedgerStep
<1> QED
  BY <1>1, <1>2, PTL DEF RunSpec, ImplementsStore, Store!FileSpec

-----------------------------------------------------------------------------
(***************************************************************************)
(* ledger.jsonl under several processes.  What a reader has after n writes *)
(* is a recursive function of n.                                           *)
(***************************************************************************)

IsReading(g, step, init, f) ==
  g = [n \in 0 .. Len(f) |-> IF n = 0 THEN init ELSE step[g[n - 1]][f[n]]]

LEMMA ReadingExists ==
  ASSUME NEW S, NEW P, NEW step \in [S -> [P -> S]], NEW init \in S, NEW f \in Seq(P)
  PROVE  \E g \in [0 .. Len(f) -> S] : IsReading(g, step, init, f)
<1> DEFINE n == Len(f)
           at == [x \in S \X (1 .. n) |-> step[x[1]][f[x[2]]]]
<1>1. n \in Nat /\ \A i \in 1 .. n : f[i] \in P
  OBVIOUS
<1> HIDE DEF n
<1>2. at \in [S \X (1 .. n) -> S]
  <2>1. \A x \in S \X (1 .. n) : step[x[1]] \in [P -> S] /\ f[x[2]] \in P
    BY <1>1
  <2> QED
    BY <2>1
<1> USE DEF n
<1>3. PICK g \in [0 .. n -> S] : IsRun(g, at, init, n)
  <2> HIDE DEF at, n
  <2> QED
    BY <1>1, <1>2, RunExists
<1>4. \A i \in 0 .. n : g[i] = IF i = 0 THEN init ELSE step[g[i - 1]][f[i]]
  <2> TAKE i \in 0 .. n
  <2>1. g[i] = IF i = 0 THEN init ELSE at[<<g[i - 1], i>>]
    BY <1>3 DEF IsRun
  <2>2. ASSUME i # 0 PROVE i \in 1 .. n /\ g[i - 1] \in S
    <3> HIDE DEF at, n
    <3>1. i \in 1 .. n /\ i - 1 \in 0 .. n
      BY <1>1, <2>2
    <3> QED
      BY <3>1
  <2>3. ASSUME i # 0 PROVE at[<<g[i - 1], i>>] = step[g[i - 1]][f[i]]
    <3> DEFINE x == <<g[i - 1], i>>
    <3>1. x \in S \X (1 .. n) /\ x[1] = g[i - 1] /\ x[2] = i
      BY <2>2, <2>3
    <3> HIDE DEF x
    <3>2. at[x] = step[x[1]][f[x[2]]]
      BY <3>1
    <3> QED
      BY <3>1, <3>2 DEF x
  <2> QED
    BY <2>1, <2>3
<1>5. g = [i \in 0 .. n |-> IF i = 0 THEN init ELSE step[g[i - 1]][f[i]]]
  BY <1>4
<1> QED
  BY <1>5 DEF IsReading

LEMMA ReadingAppends ==
  \A S, P, step, init, f, p, g, h :
    /\ step \in [S -> [P -> S]] /\ init \in S /\ f \in Seq(P) /\ p \in P
    /\ IsReading(g, step, init, f) /\ IsReading(h, step, init, Append(f, p))
    => g[Len(f)] \in S /\ h[Len(f) + 1] = step[g[Len(f)]][p]
<1> TAKE S, P, step, init, f, p, g, h
<1> HAVE /\ step \in [S -> [P -> S]] /\ init \in S /\ f \in Seq(P) /\ p \in P
         /\ IsReading(g, step, init, f) /\ IsReading(h, step, init, Append(f, p))
<1> DEFINE n == Len(f)
           T == {k \in Nat : k <= n => h[k] = g[k] /\ g[k] \in S}
           longer == Append(f, p)
<1>1. /\ n \in Nat /\ Len(longer) = n + 1 /\ longer[n + 1] = p
      /\ \A i \in 1 .. n : longer[i] = f[i] /\ f[i] \in P
  OBVIOUS
<1>2. \A k \in 0 .. n : g[k] = IF k = 0 THEN init ELSE step[g[k - 1]][f[k]]
  BY DEF IsReading
<1>3. \A k \in 0 .. n + 1 : h[k] = IF k = 0 THEN init ELSE step[h[k - 1]][longer[k]]
  BY <1>1 DEF IsReading
<1> HIDE DEF n, longer
<1>4. 0 \in T
  <2>1. 0 \in 0 .. n /\ 0 \in 0 .. n + 1
    BY <1>1
  <2>2. g[0] = init /\ h[0] = init
    BY <1>2, <1>3, <2>1
  <2> QED
    BY <2>2
<1>5. ASSUME NEW k \in Nat, k \in T PROVE k + 1 \in T
  <2> SUFFICES ASSUME k + 1 <= n PROVE h[k + 1] = g[k + 1] /\ g[k + 1] \in S
    OBVIOUS
  <2>1. h[k] = g[k] /\ g[k] \in S /\ longer[k + 1] = f[k + 1] /\ f[k + 1] \in P
    BY <1>1, <1>5
  <2>2. g[k + 1] = step[g[k]][f[k + 1]] /\ h[k + 1] = step[h[k]][longer[k + 1]]
    BY <1>1, <1>2, <1>3
  <2>3. step[g[k]] \in [P -> S]
    BY <2>1
  <2>4. step[g[k]][f[k + 1]] \in S
    BY <2>1, <2>3
  <2> QED
    BY <2>1, <2>2, <2>4
<1>6. n \in T
  <2> HIDE DEF T
  <2> QED
    BY <1>1, <1>4, <1>5, InductionOnNat
<1>7. h[n] = g[n] /\ g[n] \in S
  BY <1>1, <1>6
<1>8. h[n + 1] = step[h[n]][longer[n + 1]]
  BY <1>1, <1>3
<1> QED
  BY <1>1, <1>7, <1>8 DEF n

-----------------------------------------------------------------------------
(* The writes, one by one, to the reader.                                  *)

Writes ==
       {Shared!Opening(w) : w \in Writers} \cup {Shared!Newline}
  \cup {Shared!Rest(w, e) : w \in Writers, e \in LedgerEntry}

Lines == {<<"blank">>, <<"object">>, <<"mixed">>} \cup {<<"half", w>> : w \in Writers}

TextStates ==
  [progress : LedgerProgress, log : SUBSET LedgerEntry, line : Lines, error : BOOLEAN]

\* SharedFile has the entries of Ledger, and so has its LedgerStore.
LEMMA SharedNames ==
  /\ Shared!LedgerEntry = LedgerEntry /\ Shared!RecipientEvents = RecipientEvents
  /\ Shared!EmptyProgress = EmptyProgress
  /\ \A p, e : Shared!apply(p, e) = apply(p, e)
<1>1. Shared!RecipientEvents = RecipientEvents /\ Shared!NoSignature = NoSignature
  BY DEF Shared!RecipientEvents, RecipientEvents, Shared!NoSignature, NoSignature
<1>2. Shared!LedgerEntry = LedgerEntry
  BY <1>1 DEF Shared!LedgerEntry, LedgerEntry, Shared!BatchLedgerEntry, BatchLedgerEntry,
     Shared!RecipientLedgerEntry, RecipientLedgerEntry, Shared!BatchEvents, BatchEvents,
     Shared!Batches, Batches, Shared!Signatures, Signatures, Shared!Blockhashes, Blockhashes,
     Shared!Recipients, Recipients
<1>3. Shared!EmptyProgress = EmptyProgress
  BY <1>1 DEF Shared!EmptyProgress, EmptyProgress, Shared!Batches, Batches
<1>4. ASSUME NEW p, NEW e PROVE Shared!apply(p, e) = apply(p, e)
  BY <1>1 DEF Shared!apply, apply, Shared!record_batch_prepared, record_batch_prepared,
     Shared!record_batch_submitted, record_batch_submitted, Shared!record_batch_confirmed,
     record_batch_confirmed, Shared!record_batch_failed, record_batch_failed
<1> QED
  BY <1>1, <1>2, <1>3, <1>4

LEMMA SharedStoreNames ==
  /\ Shared!Store!LedgerEntry = LedgerEntry /\ Shared!Store!RecipientEvents = RecipientEvents
  /\ Shared!Store!EmptyProgress = EmptyProgress
  /\ \A p, e : Shared!Store!apply(p, e) = apply(p, e)
<1>1. Shared!Store!RecipientEvents = RecipientEvents /\ Shared!Store!NoSignature = NoSignature
  BY DEF Shared!Store!RecipientEvents, RecipientEvents, Shared!Store!NoSignature, NoSignature
<1>2. Shared!Store!LedgerEntry = LedgerEntry
  BY <1>1 DEF Shared!Store!LedgerEntry, LedgerEntry, Shared!Store!BatchLedgerEntry,
     BatchLedgerEntry, Shared!Store!RecipientLedgerEntry, RecipientLedgerEntry,
     Shared!Store!BatchEvents, BatchEvents, Shared!Store!Batches, Batches,
     Shared!Store!Signatures, Signatures, Shared!Store!Blockhashes, Blockhashes,
     Shared!Store!Recipients, Recipients
<1>3. Shared!Store!EmptyProgress = EmptyProgress
  BY <1>1 DEF Shared!Store!EmptyProgress, EmptyProgress, Shared!Store!Batches, Batches
<1>4. ASSUME NEW p, NEW e PROVE Shared!Store!apply(p, e) = apply(p, e)
  BY <1>1 DEF Shared!Store!apply, apply, Shared!Store!record_batch_prepared,
     record_batch_prepared, Shared!Store!record_batch_submitted, record_batch_submitted,
     Shared!Store!record_batch_confirmed, record_batch_confirmed,
     Shared!Store!record_batch_failed, record_batch_failed
<1> QED
  BY <1>1, <1>2, <1>3, <1>4

LEMMA LinesDiffer ==
  /\ <<"blank">> # <<"object">> /\ <<"blank">> # <<"mixed">> /\ <<"object">> # <<"mixed">>
  /\ \A w : <<"half", w>> \notin {<<"blank">>, <<"object">>, <<"mixed">>}
  /\ \A v, w : <<"half", v>> = <<"half", w>> => v = w
  /\ \A line \in Lines :
       line[1] = "half" <=> line \notin {<<"blank">>, <<"object">>, <<"mixed">>}
  /\ \A line \in Lines : line[1] = "object" <=> line = <<"object">>
  /\ {<<"blank">>, <<"object">>, <<"mixed">>} \subseteq Lines
  /\ \A w \in Writers : <<"half", w>> \in Lines
BY DEF Lines

LEMMA WriteKinds ==
  /\ \A w : Shared!Opening(w).kind = "opening" /\ Shared!Opening(w).writer = w
  /\ \A w, e : /\ Shared!Rest(w, e).kind = "rest" /\ Shared!Rest(w, e).writer = w
               /\ Shared!Rest(w, e).entry = e
  /\ Shared!Newline.kind = "newline"
  /\ \A w \in Writers : Shared!Opening(w) \in Writes
  /\ \A w \in Writers, e \in LedgerEntry : Shared!Rest(w, e) \in Writes
  /\ Shared!Newline \in Writes
  /\ \A p \in Writes :
       \/ \E w \in Writers : p = Shared!Opening(w)
       \/ \E w \in Writers, e \in LedgerEntry : p = Shared!Rest(w, e)
       \/ p = Shared!Newline
<1>1. /\ \A w : Shared!Opening(w).kind = "opening" /\ Shared!Opening(w).writer = w
      /\ \A w, e : /\ Shared!Rest(w, e).kind = "rest" /\ Shared!Rest(w, e).writer = w
                   /\ Shared!Rest(w, e).entry = e
      /\ Shared!Newline.kind = "newline"
  BY DEF Shared!Opening, Shared!Rest, Shared!Newline
<1>2. /\ \A w \in Writers : Shared!Opening(w) \in Writes
      /\ \A w \in Writers, e \in LedgerEntry : Shared!Rest(w, e) \in Writes
      /\ Shared!Newline \in Writes
      /\ \A p \in Writes :
           \/ \E w \in Writers : p = Shared!Opening(w)
           \/ \E w \in Writers, e \in LedgerEntry : p = Shared!Rest(w, e)
           \/ p = Shared!Newline
  BY DEF Writes
<1> QED
  BY <1>1, <1>2

\* What a write does to the reader.
LEMMA ReadOpening ==
  ASSUME NEW state \in TextStates, NEW w \in Writers
  PROVE  LET next_state == Shared!ReadPiece(state, Shared!Opening(w))
         IN  /\ next_state \in TextStates
             /\ next_state.progress = state.progress /\ next_state.log = state.log
             /\ IF state.line = <<"blank">>
                  THEN next_state.line = <<"half", w>> /\ next_state.error = state.error
                  ELSE next_state.line = <<"mixed">> /\ next_state.error
<1>1. Shared!ReadPiece(state, Shared!Opening(w)) =
        IF state.line = <<"blank">> THEN [state EXCEPT !.line = <<"half", w>>]
        ELSE [state EXCEPT !.line = <<"mixed">>, !.error = TRUE]
  BY WriteKinds DEF Shared!ReadPiece
<1> QED
  BY <1>1, LinesDiffer DEF TextStates

\* The rest of an entry, when t is read behind s.
RestRead(s, w, e, t) ==
  /\ t \in TextStates
  /\ IF s.line = <<"half", w>>
       THEN /\ t.progress = apply(s.progress, e)
            /\ t.log = IF e.event \in RecipientEvents THEN s.log \cup {e} ELSE s.log
            /\ t.line = <<"object">> /\ t.error = s.error
       ELSE /\ t.progress = s.progress /\ t.log = s.log
            /\ t.line = <<"mixed">> /\ t.error

LEMMA ReadRest ==
  ASSUME NEW state \in TextStates, NEW w \in Writers, NEW e \in LedgerEntry
  PROVE  RestRead(state, w, e, Shared!ReadPiece(state, Shared!Rest(w, e)))
<1> DEFINE log == IF e.event \in RecipientEvents THEN state.log \cup {e} ELSE state.log
<1>1. Shared!ReadPiece(state, Shared!Rest(w, e)) =
        IF state.line = <<"half", w>>
          THEN [state EXCEPT !.progress = apply(state.progress, e), !.log = log,
                             !.line = <<"object">>]
          ELSE [state EXCEPT !.line = <<"mixed">>, !.error = TRUE]
  <2>1. CASE state.line = <<"half", w>>
    <3>1. Shared!ReadPiece(state, Shared!Rest(w, e)) = Shared!Applied(state, e)
      BY <2>1, WriteKinds DEF Shared!ReadPiece
    <3> QED
      BY <2>1, <3>1, SharedNames DEF Shared!Applied
  <2>2. CASE state.line # <<"half", w>>
    BY <2>2, WriteKinds DEF Shared!ReadPiece
  <2> QED
    BY <2>1, <2>2
<1>2. apply(state.progress, e) \in LedgerProgress
  BY AppliedType DEF TextStates
<1>3. log \in SUBSET LedgerEntry
  BY DEF TextStates
<1> HIDE DEF log
<1>4. CASE state.line = <<"half", w>>
  <2> DEFINE next_state == [state EXCEPT !.progress = apply(state.progress, e), !.log = log,
                                         !.line = <<"object">>]
  <2>1. /\ next_state \in TextStates
        /\ next_state.progress = apply(state.progress, e) /\ next_state.log = log
        /\ next_state.line = <<"object">> /\ next_state.error = state.error
    BY <1>2, <1>3, LinesDiffer DEF TextStates
  <2> HIDE DEF next_state
  <2>2. Shared!ReadPiece(state, Shared!Rest(w, e)) = next_state
    BY <1>1, <1>4 DEF next_state
  <2> QED
    BY <1>4, <2>1, <2>2 DEF log, RestRead
<1>5. CASE state.line # <<"half", w>>
  BY <1>1, <1>5, LinesDiffer DEF TextStates, RestRead
<1> QED
  BY <1>4, <1>5

LEMMA ReadNewline ==
  ASSUME NEW state \in TextStates
  PROVE  LET next_state == Shared!ReadPiece(state, Shared!Newline)
         IN  /\ next_state \in TextStates
             /\ next_state.progress = state.progress /\ next_state.log = state.log
             /\ next_state.line = <<"blank">>
             /\ state.error => next_state.error
             /\ state.line \in {<<"blank">>, <<"object">>} => next_state.error = state.error
             /\ state.line \notin {<<"blank">>, <<"object">>} => next_state.error
<1>1. Shared!ReadPiece(state, Shared!Newline) =
        IF state.line \in {<<"blank">>, <<"object">>} THEN [state EXCEPT !.line = <<"blank">>]
        ELSE [state EXCEPT !.line = <<"blank">>, !.error = TRUE]
  <2>1. Shared!Newline.kind = "newline"
    BY WriteKinds
  <2>2. CASE state.line \in {<<"blank">>, <<"object">>}
    BY <2>1, <2>2 DEF Shared!ReadPiece
  <2>3. CASE state.line \notin {<<"blank">>, <<"object">>}
    BY <2>1, <2>3 DEF Shared!ReadPiece
  <2> QED
    BY <2>2, <2>3
<1> QED
  BY <1>1, LinesDiffer DEF TextStates

LEMMA ReadWriteType ==
  ASSUME NEW state \in TextStates, NEW p \in Writes
  PROVE  Shared!ReadPiece(state, p) \in TextStates
<1>1. ASSUME NEW w \in Writers, p = Shared!Opening(w) PROVE Shared!ReadPiece(state, p) \in TextStates
  BY <1>1, ReadOpening
<1>2. ASSUME NEW w \in Writers, NEW e \in LedgerEntry, p = Shared!Rest(w, e)
      PROVE  Shared!ReadPiece(state, p) \in TextStates
  BY <1>2, ReadRest DEF RestRead
<1>3. CASE p = Shared!Newline
  BY <1>3, ReadNewline
<1> QED
  BY <1>1, <1>2, <1>3, WriteKinds

\* Shared!Read and Shared!Everything, of any text.
TextOf(f) ==
  LET r[n \in 0 .. Len(f)] ==
        IF n = 0 THEN Shared!ReadInit ELSE Shared!ReadPiece(r[n - 1], f[n])
  IN  r[Len(f)]

SumWrite(sum, piece) == IF piece.kind = "rest" THEN Shared!apply(sum, piece.entry) ELSE sum

SumOfText(f) ==
  LET upTo[n \in 0 .. Len(f)] ==
        IF n = 0 THEN Shared!EmptyProgress ELSE SumWrite(upTo[n - 1], f[n])
  IN  upTo[Len(f)]

LEMMA TextNames ==
  /\ Shared!Read = TextOf(text) /\ Shared!Everything = SumOfText(text)
  /\ (Shared!Read)' = TextOf(text') /\ (Shared!Everything)' = SumOfText(text')
<1>1. Shared!Read = TextOf(text)
  BY DEF Shared!Read, Shared!ReadOf, TextOf
<1>2. (Shared!Read)' = TextOf(text')
  BY DEF Shared!Read, Shared!ReadOf, TextOf
<1>3. Shared!Everything = SumOfText(text)
  BY DEF Shared!Everything, SumOfText, SumWrite
<1>4. (Shared!Everything)' = SumOfText(text')
  BY DEF Shared!Everything, SumOfText, SumWrite
<1> QED
  BY <1>1, <1>2, <1>3, <1>4

TextStep == [x \in TextStates |-> [q \in Writes |-> Shared!ReadPiece(x, q)]]

LEMMA TextInit == Shared!ReadInit \in TextStates
BY SharedNames, EmptyType, LinesDiffer DEF Shared!ReadInit, TextStates

LEMMA TextStepType == TextStep \in [TextStates -> [Writes -> TextStates]]
<1>1. \A x \in TextStates, q \in Writes : Shared!ReadPiece(x, q) \in TextStates
  BY ReadWriteType
<1> QED
  BY <1>1 DEF TextStep

LEMMA TextIsReading ==
  ASSUME NEW f \in Seq(Writes)
  PROVE  \E r : IsReading(r, TextStep, Shared!ReadInit, f) /\ TextOf(f) = r[Len(f)]
<1> DEFINE n == Len(f)
           Eq(r) == r = [i \in 0 .. n |->
                           IF i = 0 THEN Shared!ReadInit ELSE Shared!ReadPiece(r[i - 1], f[i])]
<1>1. n \in Nat /\ \A i \in 1 .. n : f[i] \in Writes
  OBVIOUS
<1>2. \E r : Eq(r)
  <2>1. PICK r \in [0 .. n -> TextStates] : IsReading(r, TextStep, Shared!ReadInit, f)
    BY ReadingExists, TextStepType, TextInit
  <2>2. \A i \in 0 .. n : r[i] = IF i = 0 THEN Shared!ReadInit ELSE TextStep[r[i - 1]][f[i]]
    BY <2>1 DEF IsReading
  <2>3. \A i \in 0 .. n :
          r[i] = IF i = 0 THEN Shared!ReadInit ELSE Shared!ReadPiece(r[i - 1], f[i])
    <3> HIDE DEF n
    <3> TAKE i \in 0 .. n
    <3>1. CASE i = 0
      BY <2>2, <3>1
    <3>2. CASE i # 0
      <4>1. i - 1 \in 0 .. n /\ i \in 1 .. n
        BY <1>1, <3>2
      <4>2. r[i - 1] \in TextStates /\ f[i] \in Writes
        BY <1>1, <2>1, <4>1
      <4> QED
        BY <2>2, <3>2, <4>2 DEF TextStep
    <3> QED
      BY <3>1, <3>2
  <2>4. r = [i \in 0 .. n |-> r[i]]
    BY <2>1
  <2> QED
    BY <2>3, <2>4
<1> DEFINE R == CHOOSE r : Eq(r)
<1>3. Eq(R)
  <2> HIDE DEF Eq
  <2> QED
    BY <1>2
<1>4. TextOf(f) = R[n]
  BY DEF TextOf
<1> HIDE DEF R
<1>5. \A i \in 0 .. n :
        R[i] = IF i = 0 THEN Shared!ReadInit ELSE Shared!ReadPiece(R[i - 1], f[i])
  BY <1>3
<1> DEFINE T == {k \in Nat : k <= n => R[k] \in TextStates}
<1>6. Nat \subseteq T
  <2> HIDE DEF n
  <2>1. 0 \in T
    <3>1. 0 \in 0 .. n
      BY <1>1
    <3>2. R[0] = Shared!ReadInit
      BY <1>5, <3>1
    <3> QED
      BY <3>2, TextInit
  <2>2. ASSUME NEW k \in Nat, k \in T PROVE k + 1 \in T
    <3> SUFFICES ASSUME k + 1 <= n PROVE R[k + 1] \in TextStates
      OBVIOUS
    <3>1. R[k] \in TextStates /\ f[k + 1] \in Writes
      BY <1>1, <2>2
    <3>2. R[k + 1] = Shared!ReadPiece(R[k], f[k + 1])
      BY <1>1, <1>5
    <3> QED
      BY <3>1, <3>2, ReadWriteType
  <2> HIDE DEF T
  <2> QED
    BY <2>1, <2>2, InductionOnNat
<1>7. \A i \in 0 .. n :
        R[i] = IF i = 0 THEN Shared!ReadInit ELSE TextStep[R[i - 1]][f[i]]
  <2> HIDE DEF n
  <2> TAKE i \in 0 .. n
  <2>1. CASE i = 0
    BY <1>5, <2>1
  <2>2. CASE i # 0
    <3>1. i - 1 \in Nat /\ i - 1 <= n /\ i \in 1 .. n
      BY <1>1, <2>2
    <3>2. R[i - 1] \in TextStates /\ f[i] \in Writes
      BY <1>1, <1>6, <3>1
    <3> QED
      BY <1>5, <2>2, <3>2 DEF TextStep
  <2> QED
    BY <2>1, <2>2
<1>8. R = [i \in 0 .. n |-> R[i]]
  BY <1>3
<1>9. IsReading(R, TextStep, Shared!ReadInit, f)
  BY <1>7, <1>8 DEF IsReading
<1> QED
  BY <1>4, <1>9

LEMMA TextAppends ==
  ASSUME NEW f \in Seq(Writes), NEW p \in Writes
  PROVE  TextOf(Append(f, p)) = Shared!ReadPiece(TextOf(f), p) /\ TextOf(f) \in TextStates
<1>1. PICK g : IsReading(g, TextStep, Shared!ReadInit, f) /\ TextOf(f) = g[Len(f)]
  BY TextIsReading
<1>2. Append(f, p) \in Seq(Writes) /\ Len(Append(f, p)) = Len(f) + 1
  OBVIOUS
<1>3. PICK h : /\ IsReading(h, TextStep, Shared!ReadInit, Append(f, p))
               /\ TextOf(Append(f, p)) = h[Len(f) + 1]
  BY <1>2, TextIsReading
<1>4. IsReading(g, TextStep, Shared!ReadInit, f)
  BY <1>1
<1>5. IsReading(h, TextStep, Shared!ReadInit, Append(f, p))
  BY <1>3
<1>6. g[Len(f)] \in TextStates /\ h[Len(f) + 1] = TextStep[g[Len(f)]][p]
  BY <1>4, <1>5, TextStepType, TextInit, ReadingAppends
<1> QED
  BY <1>1, <1>3, <1>6 DEF TextStep

\* The same of the entries alone.
SumStep == [x \in LedgerProgress |-> [q \in Writes |-> SumWrite(x, q)]]

LEMMA SumInit == Shared!EmptyProgress \in LedgerProgress
BY SharedNames, EmptyType

LEMMA SumWriteType ==
  ASSUME NEW sum \in LedgerProgress, NEW piece \in Writes
  PROVE  SumWrite(sum, piece) \in LedgerProgress
<1>1. ASSUME piece.kind = "rest" PROVE piece.entry \in LedgerEntry
  BY <1>1, WriteKinds
<1>2. CASE piece.kind = "rest"
  <2>1. apply(sum, piece.entry) \in LedgerProgress
    BY <1>1, <1>2, AppliedType
  <2> QED
    BY <1>2, <2>1, SharedNames DEF SumWrite
<1>3. CASE piece.kind # "rest"
  BY <1>3 DEF SumWrite
<1> QED
  BY <1>2, <1>3

LEMMA SumStepType == SumStep \in [LedgerProgress -> [Writes -> LedgerProgress]]
<1>1. \A x \in LedgerProgress, q \in Writes : SumWrite(x, q) \in LedgerProgress
  BY SumWriteType
<1> QED
  BY <1>1 DEF SumStep

LEMMA SumIsReading ==
  ASSUME NEW f \in Seq(Writes)
  PROVE  \E r : IsReading(r, SumStep, Shared!EmptyProgress, f) /\ SumOfText(f) = r[Len(f)]
<1> DEFINE n == Len(f)
           Eq(r) == r = [i \in 0 .. n |->
                           IF i = 0 THEN Shared!EmptyProgress ELSE SumWrite(r[i - 1], f[i])]
<1>1. n \in Nat /\ \A i \in 1 .. n : f[i] \in Writes
  OBVIOUS
<1>2. \E r : Eq(r)
  <2>1. PICK r \in [0 .. n -> LedgerProgress] : IsReading(r, SumStep, Shared!EmptyProgress, f)
    BY ReadingExists, SumStepType, SumInit
  <2>2. \A i \in 0 .. n : r[i] = IF i = 0 THEN Shared!EmptyProgress ELSE SumStep[r[i - 1]][f[i]]
    BY <2>1 DEF IsReading
  <2>3. \A i \in 0 .. n :
          r[i] = IF i = 0 THEN Shared!EmptyProgress ELSE SumWrite(r[i - 1], f[i])
    <3> HIDE DEF n
    <3> TAKE i \in 0 .. n
    <3>1. CASE i = 0
      BY <2>2, <3>1
    <3>2. CASE i # 0
      <4>1. i - 1 \in 0 .. n /\ i \in 1 .. n
        BY <1>1, <3>2
      <4>2. r[i - 1] \in LedgerProgress /\ f[i] \in Writes
        BY <1>1, <2>1, <4>1
      <4> QED
        BY <2>2, <3>2, <4>2 DEF SumStep
    <3> QED
      BY <3>1, <3>2
  <2>4. r = [i \in 0 .. n |-> r[i]]
    BY <2>1
  <2> QED
    BY <2>3, <2>4
<1> DEFINE R == CHOOSE r : Eq(r)
<1>3. Eq(R)
  <2> HIDE DEF Eq
  <2> QED
    BY <1>2
<1>4. SumOfText(f) = R[n]
  BY DEF SumOfText
<1> HIDE DEF R
<1>5. \A i \in 0 .. n :
        R[i] = IF i = 0 THEN Shared!EmptyProgress ELSE SumWrite(R[i - 1], f[i])
  BY <1>3
<1> DEFINE T == {k \in Nat : k <= n => R[k] \in LedgerProgress}
<1>6. Nat \subseteq T
  <2> HIDE DEF n
  <2>1. 0 \in T
    <3>1. 0 \in 0 .. n
      BY <1>1
    <3>2. R[0] = Shared!EmptyProgress
      BY <1>5, <3>1
    <3> QED
      BY <3>2, SumInit
  <2>2. ASSUME NEW k \in Nat, k \in T PROVE k + 1 \in T
    <3> SUFFICES ASSUME k + 1 <= n PROVE R[k + 1] \in LedgerProgress
      OBVIOUS
    <3>1. R[k] \in LedgerProgress /\ f[k + 1] \in Writes
      BY <1>1, <2>2
    <3>2. R[k + 1] = SumWrite(R[k], f[k + 1])
      BY <1>1, <1>5
    <3> QED
      BY <3>1, <3>2, SumWriteType
  <2> HIDE DEF T
  <2> QED
    BY <2>1, <2>2, InductionOnNat
<1>7. \A i \in 0 .. n :
        R[i] = IF i = 0 THEN Shared!EmptyProgress ELSE SumStep[R[i - 1]][f[i]]
  <2> HIDE DEF n
  <2> TAKE i \in 0 .. n
  <2>1. CASE i = 0
    BY <1>5, <2>1
  <2>2. CASE i # 0
    <3>1. i - 1 \in Nat /\ i - 1 <= n /\ i \in 1 .. n
      BY <1>1, <2>2
    <3>2. R[i - 1] \in LedgerProgress /\ f[i] \in Writes
      BY <1>1, <1>6, <3>1
    <3> QED
      BY <1>5, <2>2, <3>2 DEF SumStep
  <2> QED
    BY <2>1, <2>2
<1>8. R = [i \in 0 .. n |-> R[i]]
  BY <1>3
<1>9. IsReading(R, SumStep, Shared!EmptyProgress, f)
  BY <1>7, <1>8 DEF IsReading
<1> QED
  BY <1>4, <1>9

LEMMA SumAppends ==
  ASSUME NEW f \in Seq(Writes), NEW p \in Writes
  PROVE  SumOfText(Append(f, p)) = SumWrite(SumOfText(f), p) /\ SumOfText(f) \in LedgerProgress
<1>1. PICK g : IsReading(g, SumStep, Shared!EmptyProgress, f) /\ SumOfText(f) = g[Len(f)]
  BY SumIsReading
<1>2. Append(f, p) \in Seq(Writes) /\ Len(Append(f, p)) = Len(f) + 1
  OBVIOUS
<1>3. PICK h : /\ IsReading(h, SumStep, Shared!EmptyProgress, Append(f, p))
               /\ SumOfText(Append(f, p)) = h[Len(f) + 1]
  BY <1>2, SumIsReading
<1>4. IsReading(g, SumStep, Shared!EmptyProgress, f)
  BY <1>1
<1>5. IsReading(h, SumStep, Shared!EmptyProgress, Append(f, p))
  BY <1>3
<1>6. g[Len(f)] \in LedgerProgress /\ h[Len(f) + 1] = SumStep[g[Len(f)]][p]
  BY <1>4, <1>5, SumStepType, SumInit, ReadingAppends
<1> QED
  BY <1>1, <1>3, <1>6 DEF SumStep

-----------------------------------------------------------------------------
(***************************************************************************)
(* Where each writer is in the last line.  A reader who has found no error *)
(* has every entry; one writer at most is in an append then, and the line  *)
(* is as far as it is.                                                     *)
(***************************************************************************)

Places == {"none", "entry", "line"}

TextInv ==
  /\ text \in Seq(Writes) /\ writing \in [Writers -> Places]
  /\ Shared!Read \in TextStates
  /\ Shared!Read.line = <<"mixed">> => Shared!Read.error
  /\ ~Shared!Read.error =>
       /\ Shared!Read.progress = Shared!Everything
       /\ \A w \in Writers :
            /\ writing[w] = "entry" => Shared!Read.line = <<"half", w>>
            /\ writing[w] = "line" => Shared!Read.line = <<"object">>
       /\ \A v, w \in Writers : writing[v] # "none" /\ writing[w] # "none" => v = w

\* The tail that LedgerStore has for what was read.
TailOf(state) ==
  CASE state.error -> "corrupt"
    [] ~state.error /\ state.line[1] = "half" -> "half"
    [] ~state.error /\ state.line[1] = "object" -> "open"
    [] OTHER -> "clean"

LEMMA TailIs ==
  ASSUME NEW state \in TextStates, state.line = <<"mixed">> => state.error
  PROVE  /\ state.error => TailOf(state) = "corrupt"
         /\ ~state.error =>
              /\ state.line = <<"blank">> => TailOf(state) = "clean"
              /\ state.line = <<"object">> => TailOf(state) = "open"
              /\ state.line # <<"blank">> => TailOf(state) # "clean"
              /\ \A w : state.line = <<"half", w>> => TailOf(state) = "half"
<1>1. state.line \in Lines /\ state.error \in BOOLEAN
  BY DEF TextStates
<1>2. <<"blank">>[1] = "blank" /\ <<"object">>[1] = "object" /\ \A w : <<"half", w>>[1] = "half"
  OBVIOUS
<1>3. \/ state.line = <<"blank">> \/ state.line = <<"object">> \/ state.line = <<"mixed">>
      \/ \E w \in Writers : state.line = <<"half", w>>
  BY <1>1 DEF Lines
<1> QED
  BY <1>1, <1>2, <1>3, LinesDiffer DEF TailOf

\* A write of LedgerStore, of what was read before and after it.
WriteStep(s, t) ==
  \/ /\ TailOf(t) = IF TailOf(s) = "clean" THEN "half" ELSE "corrupt"
     /\ t.progress = s.progress /\ t.log = s.log
  \/ /\ TailOf(t) = IF TailOf(s) = "open" THEN "clean" ELSE TailOf(s)
     /\ t.progress = s.progress /\ t.log = s.log
  \/ \E e \in LedgerEntry :
       \/ /\ t.progress = apply(s.progress, e)
          /\ t.log = IF e.event \in RecipientEvents THEN s.log \cup {e} ELSE s.log
          /\ TailOf(t) = IF TailOf(s) = "half" THEN "open" ELSE "corrupt"
       \/ /\ TailOf(s) = "corrupt" /\ TailOf(t) = "corrupt"
          /\ t.progress = s.progress /\ t.log = s.log

LEMMA WriteStepIsStored ==
  WriteStep(Shared!Read, (Shared!Read)') => Shared!Store!WriteNext
BY SharedStoreNames DEF WriteStep, TailOf, Shared!Store!WriteNext, Shared!Store!BeginEntry,
   Shared!Store!EndLine, Shared!Store!EndEntry, Shared!Store!Written, Shared!Store!fileVars

LEMMA WriteIsRead ==
  ASSUME TextInv, NEW p \in Writes, text' = Append(text, p)
  PROVE  /\ text' \in Seq(Writes)
         /\ (Shared!Read)' = Shared!ReadPiece(Shared!Read, p)
         /\ (Shared!Everything)' = SumWrite(Shared!Everything, p)
<1>1. text \in Seq(Writes)
  BY DEF TextInv
<1>2. TextOf(Append(text, p)) = Shared!ReadPiece(TextOf(text), p)
  BY <1>1, TextAppends
<1>3. SumOfText(Append(text, p)) = SumWrite(SumOfText(text), p)
  BY <1>1, SumAppends
<1>4. text' \in Seq(Writes)
  BY <1>1
<1> QED
  BY <1>2, <1>3, <1>4, TextNames

LEMMA OpenStep ==
  ASSUME TextInv, NEW w \in Writers, Shared!OpenEntry(w)
  PROVE  TextInv' /\ WriteStep(Shared!Read, (Shared!Read)')
<1> DEFINE s == Shared!Read
           p == Shared!Opening(w)
<1>1. /\ writing[w] = "none" /\ writing' = [writing EXCEPT ![w] = "entry"]
      /\ text' = Append(text, p)
  BY DEF Shared!OpenEntry, Shared!Write
<1>2. /\ p \in Writes /\ p.kind = "opening"
      /\ text' \in Seq(Writes) /\ s' = Shared!ReadPiece(s, p) /\ Shared!Everything' = Shared!Everything
  <2>1. p \in Writes /\ p.kind = "opening"
    BY WriteKinds
  <2> HIDE DEF p
  <2> QED
    BY <1>1, <2>1, WriteIsRead DEF SumWrite
<1>3. /\ s \in TextStates /\ s' \in TextStates
      /\ s'.progress = s.progress /\ s'.log = s.log
      /\ IF s.line = <<"blank">> THEN s'.line = <<"half", w>> /\ s'.error = s.error
                                 ELSE s'.line = <<"mixed">> /\ s'.error
  BY <1>2, ReadOpening DEF TextInv
<1> HIDE DEF s, p
<1>4. writing' \in [Writers -> Places]
  BY <1>1 DEF TextInv, Places
<1>5. s.line = <<"mixed">> => s.error
  BY DEF TextInv, s
<1>6. ASSUME s.line = <<"blank">>, ~s.error
      PROVE  TextInv' /\ WriteStep(s, s')
  <2>1. /\ s.progress = Shared!Everything
        /\ \A v \in Writers : writing[v] = "none"
    BY <1>6, LinesDiffer DEF TextInv, Places, s
  <2>2. \A v \in Writers : writing'[v] = IF v = w THEN "entry" ELSE "none"
    BY <1>1, <2>1 DEF TextInv
  <2>3. TextInv'
    BY <1>2, <1>3, <1>4, <1>6, <2>1, <2>2, LinesDiffer DEF TextInv, s
  <2>4. TailOf(s) = "clean" /\ TailOf(s') = "half"
    BY <1>3, <1>5, <1>6, TailIs, LinesDiffer
  <2> QED
    BY <1>3, <2>3, <2>4 DEF WriteStep
<1>7. ASSUME s.error \/ s.line # <<"blank">> PROVE TextInv' /\ WriteStep(s, s')
  <2>1. s'.error
    BY <1>3, <1>7
  <2>2. TextInv'
    BY <1>2, <1>3, <1>4, <2>1 DEF TextInv, s
  <2>3. TailOf(s) # "clean" /\ TailOf(s') = "corrupt"
    BY <1>3, <1>5, <1>7, <2>1, TailIs
  <2> QED
    BY <1>3, <2>2, <2>3 DEF WriteStep
<1> QED
  BY <1>6, <1>7 DEF s

LEMMA RestStep ==
  ASSUME TextInv, NEW w \in Writers, NEW e \in LedgerEntry, Shared!FinishEntry(w, e)
  PROVE  TextInv' /\ WriteStep(Shared!Read, (Shared!Read)')
<1> DEFINE s == Shared!Read
           p == Shared!Rest(w, e)
           log == IF e.event \in RecipientEvents THEN s.log \cup {e} ELSE s.log
<1>1. /\ writing[w] = "entry" /\ writing' = [writing EXCEPT ![w] = "line"]
      /\ text' = Append(text, p)
  BY DEF Shared!FinishEntry, Shared!Write
<1>2. /\ p \in Writes /\ text' \in Seq(Writes) /\ s' = Shared!ReadPiece(s, p)
      /\ Shared!Everything' = apply(Shared!Everything, e)
  <2>1. p \in Writes /\ p.kind = "rest" /\ p.entry = e
    BY WriteKinds
  <2> HIDE DEF p
  <2> QED
    BY <1>1, <2>1, WriteIsRead, SharedNames DEF SumWrite
<1>3. /\ s \in TextStates /\ s' \in TextStates
      /\ IF s.line = <<"half", w>>
           THEN /\ s'.progress = apply(s.progress, e) /\ s'.log = log
                /\ s'.line = <<"object">> /\ s'.error = s.error
           ELSE /\ s'.progress = s.progress /\ s'.log = s.log
                /\ s'.line = <<"mixed">> /\ s'.error
  <2>1. s \in TextStates /\ s' = Shared!ReadPiece(s, Shared!Rest(w, e))
    BY <1>2 DEF TextInv
  <2> HIDE DEF s, p
  <2>2. RestRead(s, w, e, s')
    BY <2>1, ReadRest
  <2> QED
    BY <2>1, <2>2 DEF RestRead
<1> HIDE DEF p
<1>4. writing' \in [Writers -> Places]
  BY <1>1 DEF TextInv, Places
<1>5. s.line = <<"mixed">> => s.error
  BY DEF TextInv
<1>6. ASSUME ~s.error PROVE TextInv' /\ WriteStep(s, s')
  <2>1. /\ s.line = <<"half", w>> /\ s.progress = Shared!Everything
        /\ \A v \in Writers : v # w => writing[v] = "none"
    BY <1>1, <1>6 DEF TextInv
  <2> HIDE DEF s, log
  <2>2. \A v \in Writers : writing'[v] = IF v = w THEN "line" ELSE "none"
    BY <1>1, <2>1 DEF TextInv
  <2>3. TextInv'
    BY <1>2, <1>3, <1>4, <1>6, <2>1, <2>2, LinesDiffer DEF TextInv, s
  <2>4. TailOf(s) = "half" /\ TailOf(s') = "open"
    BY <1>3, <1>5, <1>6, <2>1, TailIs, LinesDiffer
  <2> QED
    BY <1>3, <2>1, <2>3, <2>4 DEF WriteStep, log
<1>7. ASSUME s.error PROVE TextInv' /\ WriteStep(s, s')
  <2> HIDE DEF s, log
  <2>1. s'.error
    BY <1>3, <1>7
  <2>2. TextInv'
    BY <1>2, <1>3, <1>4, <2>1 DEF TextInv, s
  <2>3. TailOf(s) = "corrupt" /\ TailOf(s') = "corrupt"
    BY <1>3, <1>5, <1>7, <2>1, TailIs
  <2>4. CASE s.line = <<"half", w>>
    BY <1>3, <2>2, <2>3, <2>4 DEF WriteStep, log
  <2>5. CASE s.line # <<"half", w>>
    BY <1>3, <2>2, <2>3, <2>5 DEF WriteStep
  <2> QED
    BY <2>4, <2>5
<1> QED
  BY <1>6, <1>7

LEMMA NewlineStep ==
  ASSUME TextInv, NEW w \in Writers, Shared!FinishLine(w)
  PROVE  TextInv' /\ WriteStep(Shared!Read, (Shared!Read)')
<1> DEFINE s == Shared!Read
           p == Shared!Newline
<1>1. /\ writing[w] = "line" /\ writing' = [writing EXCEPT ![w] = "none"]
      /\ text' = Append(text, p)
  BY DEF Shared!FinishLine, Shared!Write
<1>2. /\ p \in Writes /\ text' \in Seq(Writes) /\ s' = Shared!ReadPiece(s, p)
      /\ Shared!Everything' = Shared!Everything
  <2>1. p \in Writes /\ p.kind = "newline"
    BY WriteKinds
  <2> HIDE DEF p
  <2> QED
    BY <1>1, <2>1, WriteIsRead DEF SumWrite
<1>3. /\ s \in TextStates /\ s' \in TextStates
      /\ s'.progress = s.progress /\ s'.log = s.log /\ s'.line = <<"blank">>
      /\ s.error => s'.error
      /\ s.line = <<"object">> => s'.error = s.error
  BY <1>2, ReadNewline DEF TextInv
<1> HIDE DEF p
<1>4. writing' \in [Writers -> Places]
  BY <1>1 DEF TextInv, Places
<1>5. s.line = <<"mixed">> => s.error
  BY DEF TextInv
<1>6. ASSUME ~s.error PROVE TextInv' /\ WriteStep(s, s')
  <2>1. /\ s.line = <<"object">> /\ s.progress = Shared!Everything
        /\ \A v \in Writers : v # w => writing[v] = "none"
    BY <1>1, <1>6 DEF TextInv
  <2> HIDE DEF s
  <2>2. \A v \in Writers : writing'[v] = "none"
    BY <1>1, <2>1 DEF TextInv
  <2>3. TextInv'
    BY <1>2, <1>3, <1>4, <1>6, <2>1, <2>2, LinesDiffer DEF TextInv, s
  <2>4. TailOf(s) = "open" /\ TailOf(s') = "clean"
    BY <1>3, <1>5, <1>6, <2>1, TailIs, LinesDiffer
  <2> QED
    BY <1>3, <2>3, <2>4 DEF WriteStep
<1>7. ASSUME s.error PROVE TextInv' /\ WriteStep(s, s')
  <2> HIDE DEF s
  <2>1. TextInv'
    BY <1>2, <1>3, <1>4, <1>7, LinesDiffer DEF TextInv, s
  <2>2. TailOf(s) = "corrupt" /\ TailOf(s') = "corrupt"
    BY <1>3, <1>5, <1>7, TailIs, LinesDiffer
  <2> QED
    BY <1>3, <2>1, <2>2 DEF WriteStep
<1> QED
  BY <1>6, <1>7

LEMMA DeathStep ==
  ASSUME TextInv, NEW w \in Writers, Shared!Die(w)
  PROVE  TextInv' /\ UNCHANGED text
<1>1. text' = text /\ writing' = [writing EXCEPT ![w] = "none"]
  BY DEF Shared!Die
<1>2. /\ writing' \in [Writers -> Places]
      /\ \A v \in Writers : writing'[v] = writing[v] \/ writing'[v] = "none"
  BY <1>1 DEF TextInv, Places
<1>3. (Shared!Read)' = Shared!Read /\ (Shared!Everything)' = Shared!Everything
  BY <1>1, TextNames
<1> QED
  BY <1>1, <1>2, <1>3 DEF TextInv

LEMMA WritesAreStored ==
  ASSUME TextInv, Shared!Next
  PROVE  TextInv' /\ [Shared!Store!WriteNext]_(Shared!Store!fileVars)
<1>1. ASSUME NEW w \in Writers, Shared!OpenEntry(w)
      PROVE  TextInv' /\ Shared!Store!WriteNext
  BY <1>1, OpenStep, WriteStepIsStored
<1>2. ASSUME NEW w \in Writers, NEW e \in LedgerEntry, Shared!FinishEntry(w, e)
      PROVE  TextInv' /\ Shared!Store!WriteNext
  BY <1>2, RestStep, WriteStepIsStored
<1>3. ASSUME NEW w \in Writers, Shared!FinishLine(w)
      PROVE  TextInv' /\ Shared!Store!WriteNext
  BY <1>3, NewlineStep, WriteStepIsStored
<1>4. ASSUME NEW w \in Writers, Shared!Die(w)
      PROVE  TextInv' /\ UNCHANGED Shared!Store!fileVars
  <2>1. TextInv' /\ text' = text
    BY <1>4, DeathStep
  <2>2. (Shared!Read)' = Shared!Read
    BY <2>1, TextNames
  <2> QED
    BY <2>1, <2>2 DEF Shared!Store!fileVars
<1> QED
  BY <1>1, <1>2, <1>3, <1>4, SharedNames DEF Shared!Next

LEMMA TextStart == Shared!Init => TextInv /\ Shared!Store!FileInit
<1> SUFFICES ASSUME Shared!Init PROVE TextInv /\ Shared!Store!FileInit
  OBVIOUS
<1>1. text = <<>> /\ text \in Seq(Writes) /\ \A w \in Writers : writing[w] = "none"
  BY DEF Shared!Init
<1>2. writing \in [Writers -> Places]
  BY DEF Shared!Init, Places
<1>3. Shared!Read = Shared!ReadInit
  <2>1. PICK r : IsReading(r, TextStep, Shared!ReadInit, text) /\ TextOf(text) = r[Len(text)]
    BY <1>1, TextIsReading
  <2>2. r[0] = Shared!ReadInit /\ Len(text) = 0
    BY <1>1, <2>1 DEF IsReading
  <2> QED
    BY <2>1, <2>2, TextNames
<1>4. Shared!Everything = EmptyProgress
  <2>1. PICK r : IsReading(r, SumStep, Shared!EmptyProgress, text) /\ SumOfText(text) = r[Len(text)]
    BY <1>1, SumIsReading
  <2>2. r[0] = Shared!EmptyProgress /\ Len(text) = 0
    BY <1>1, <2>1 DEF IsReading
  <2> QED
    BY <2>1, <2>2, TextNames, SharedNames
<1>5. /\ Shared!ReadInit.progress = EmptyProgress /\ Shared!ReadInit.log = {}
      /\ Shared!ReadInit.line = <<"blank">> /\ Shared!ReadInit.error = FALSE
  BY SharedNames DEF Shared!ReadInit
<1>6. TextInv
  BY <1>1, <1>2, <1>3, <1>4, <1>5, TextInit, LinesDiffer DEF TextInv
<1>7. TailOf(Shared!Read) = "clean"
  BY <1>3, <1>5, <1>6, TailIs, LinesDiffer DEF TextInv
<1> QED
  BY <1>3, <1>5, <1>6, <1>7, SharedStoreNames DEF Shared!Store!FileInit, TailOf

LEMMA DirectoryStep ==
  ASSUME TextInv, [DirectoryNext]_directoryVars
  PROVE  TextInv' /\ [Shared!Store!WriteNext]_(Shared!Store!fileVars)
<1>1. Shared!Next \/ UNCHANGED <<text, writing>>
  BY DEF DirectoryNext, OneProcess, SeveralProcesses, directoryVars
<1>2. CASE UNCHANGED <<text, writing>>
  <2>1. (Shared!Read)' = Shared!Read /\ (Shared!Everything)' = Shared!Everything
    BY <1>2, TextNames
  <2> QED
    BY <1>2, <2>1 DEF TextInv, Shared!Store!fileVars
<1> QED
  BY <1>1, <1>2, WritesAreStored

\* However many processes write one ledger, wherever their writes fall between
\* each other and whoever dies: a reader that gets through it has the entries
\* of all of them, in their order (append_ledger_entry, execution.rs:391;
\* LedgerProgress::read, :453).
THEOREM SharedReadersMissNothing == DirectorySpec => []NothingIsLost
<1>1. DirectoryInit => TextInv
  BY TextStart DEF DirectoryInit
<1>2. TextInv /\ [DirectoryNext]_directoryVars => TextInv'
  BY DirectoryStep
<1>3. TextInv => NothingIsLost
  BY DEF TextInv, NothingIsLost, Shared!NothingIsLost, Shared!Reads
<1> QED
  BY <1>1, <1>2, <1>3, PTL DEF DirectorySpec

\* And the lines are LedgerStore's: what SharedRun and TwoSenders take for the
\* effect of a write, with entries mixed and files spoiled, is what the text
\* makes of it.
THEOREM SharedLinesAreAStore == DirectorySpec => ImplementsWrites
<1>1. DirectoryInit => TextInv /\ Shared!Store!FileInit
  BY TextStart DEF DirectoryInit
<1>2. TextInv /\ [DirectoryNext]_directoryVars
        => TextInv' /\ [Shared!Store!WriteNext]_(Shared!Store!fileVars)
  BY DirectoryStep
<1> QED
  BY <1>1, <1>2, PTL
     DEF DirectorySpec, ImplementsWrites, Shared!ImplementsWrites, Shared!Store!WriteSpec

\* What is proved of a directory under one process at a time is so of one
\* under several.
LEMMA DirectoryIsRun == DirectorySpec => RunSpec
<1>1. DirectoryInit => RunInit
  BY DEF DirectoryInit
<1>2. [DirectoryNext]_directoryVars => [RunNext]_runVars
  BY DEF DirectoryNext, OneProcess, SeveralProcesses, directoryVars
<1> QED
  BY <1>1, <1>2, PTL DEF DirectorySpec, RunSpec
=============================================================================
