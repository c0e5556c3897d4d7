------------------------- MODULE FundedSenderProofs -------------------------
(***************************************************************************)
(* Proofs about FundedSender, for every plan, every price of its batches   *)
(* and all funds: the check in front of a session is enough.               *)
(***************************************************************************)
EXTENDS FundedSender, SendPlanProofs, DataProofs

USE PlanAssumption, ChainAssumption, PollAssumption, FundsAssumption

-----------------------------------------------------------------------------
(* Every step of a checked session is one of send_plan.                    *)

LEMMA StepOfSendPlan == ASSUME [FundedNext]_fundedVars PROVE [Next]_vars
BY DEF FundedNext, fundedVars, CheckFunding, Abandon, StartFunded, Next

\* The check in front of the sessions takes nothing away from what SendPlan
\* promises: the theorems about Spec are theorems about FundedSpec.
THEOREM FundedIsSendPlan == FundedSpec => Spec
BY StepOfSendPlan, PTL DEF FundedSpec, FundedInit, Spec

-----------------------------------------------------------------------------
(***************************************************************************)
(* The sums, as functions of the fate t of the transactions.               *)
(***************************************************************************)

Fates == [Signatures -> TxStates]

Charged == {"processed_ok", "processed_err", "ok", "err"}

WithFate(t, states) == {s \in Signatures : t[s] \in states}
BatchesIn(t, states) ==
  {b \in Batches : \E s \in Signatures : BatchOf(s) = b /\ t[s] \in states}

CostOf == [b \in Batches |-> Cost(b)]
ChargeIn(t) ==
  [s \in Signatures |-> IF t[s] \in {"processed_err", "err"} THEN Fee ELSE Cost(BatchOf(s))]

SpentIn(t, states) == SumOf(ChargeIn(t), WithFate(t, states))
WaitingIn(t) == SumOf(CostOf, BatchesIn(t, {"pending"}))
OpenIn(t)    == SumOf(CostOf, Batches \ BatchesIn(t, {"processed_ok", "ok"}))

LEMMA Costs ==
  /\ \A b \in Batches : CostOf[b] = Cost(b) /\ Cost(b) \in Nat /\ Fee <= Cost(b)
  /\ \A t : \A s \in Signatures : ChargeIn(t)[s] \in Nat
<1>1. ASSUME NEW b \in Batches PROVE Cost(b) \in Nat /\ Fee <= Cost(b)
  <2>1. Fee \in Nat /\ RentPerAta \in Nat /\ AtaCreations[b] \in Nat
    OBVIOUS
  <2>2. RentPerAta * AtaCreations[b] \in Nat
    BY <2>1
  <2> QED
    BY <2>1, <2>2 DEF Cost
<1> QED
  BY <1>1, SignatureParts DEF CostOf, ChargeIn

LEMMA FiniteParts ==
  /\ \A S \in SUBSET Batches : IsFiniteSet(S)
  /\ \A S \in SUBSET Signatures : IsFiniteSet(S)
<1>1. IsFiniteSet(Batches) /\ IsFiniteSet(Blockhashes)
  BY FS_Interval DEF Batches, Blockhashes
<1>2. IsFiniteSet(Signatures)
  BY <1>1, FS_Product DEF Signatures
<1> QED
  BY <1>1, <1>2, FS_Subset

\* The folds of the model are these sums.
LEMMA CostSum ==
  ASSUME NEW S \in SUBSET Batches PROVE MapThenSumSet(Cost, S) = SumOf(CostOf, S)
<1> DEFINE C(g) == g = [s \in SUBSET S |->
                          IF s = {} THEN 0 ELSE Cost(First(s)) + g[s \ {First(s)}]]
<1>1. MapThenSumSet(Cost, S) = (CHOOSE g : C(g))[S]
  BY DEF MapThenSumSet, MapThenFoldSet, First
<1>2. \A g : C(g) <=> IsSum(g, CostOf, S)
  <2>1. \A s \in SUBSET S : s # {} => CostOf[First(s)] = Cost(First(s))
    BY FirstIn DEF CostOf
  <2> QED
    BY <2>1 DEF IsSum
<1> HIDE DEF C
<1>3. IsFiniteSet(S)
  BY FiniteParts
<1>4. C(CHOOSE g : C(g))
  BY <1>2, <1>3, FoldExists
<1> QED
  BY <1>1, <1>2, <1>3, <1>4, SumIsFold

LEMMA SpentSum == \A states : SpentBy(states) = SpentIn(tx, states)
<1> SUFFICES ASSUME NEW states PROVE SpentBy(states) = SpentIn(tx, states)
  OBVIOUS
<1> DEFINE S == {s \in Signatures : tx[s] \in states}
           C(g) == g = [s \in SUBSET S |->
                          IF s = {} THEN 0 ELSE Charge(First(s)) + g[s \ {First(s)}]]
<1>1. SpentBy(states) = (CHOOSE g : C(g))[S]
  BY DEF SpentBy, MapThenSumSet, MapThenFoldSet, First
<1>2. \A g : C(g) <=> IsSum(g, ChargeIn(tx), S)
  <2>1. \A s \in SUBSET S : s # {} => ChargeIn(tx)[First(s)] = Charge(First(s))
    BY FirstIn DEF ChargeIn, Charge, Failed
  <2> QED
    BY <2>1 DEF IsSum
<1>3. S = WithFate(tx, states) /\ IsFiniteSet(S)
  BY FiniteParts DEF WithFate
<1> HIDE DEF C, S
<1>4. C(CHOOSE g : C(g))
  BY <1>2, <1>3, FoldExists
<1> QED
  BY <1>1, <1>2, <1>3, <1>4, SumIsFold DEF SpentIn

PaysWaiting == SpentIn(tx, Charged) + WaitingIn(tx) =< Budget
PaysOpen    == SpentIn(tx, Charged) + OpenIn(tx) =< Budget
MaySend     == (funded \/ pc # "idle") /\ ~Stopping

LEMMA BudgetParts == BudgetInv <=> PaysWaiting /\ (MaySend => PaysOpen)
<1>1. /\ OnTheirWay = BatchesIn(tx, {"pending"}) /\ OnTheirWay \in SUBSET Batches
      /\ Succeeded = BatchesIn(tx, {"processed_ok", "ok"})
      /\ Batches \ Succeeded \in SUBSET Batches
  BY DEF OnTheirWay, Succeeded, BatchesWith, BatchesIn
<1>2. Spent = SpentIn(tx, Charged)
  BY SpentSum DEF Spent, Charged
<1> QED
  BY <1>1, <1>2, CostSum DEF BudgetInv, PaysWaiting, PaysOpen, MaySend, WaitingIn, OpenIn

LEMMA SumsAreNat ==
  \A t : /\ \A states : SpentIn(t, states) \in Nat
         /\ WaitingIn(t) \in Nat /\ OpenIn(t) \in Nat
<1> SUFFICES ASSUME NEW t, NEW states
             PROVE  SpentIn(t, states) \in Nat /\ WaitingIn(t) \in Nat /\ OpenIn(t) \in Nat
  OBVIOUS
<1>1. SpentIn(t, states) \in Nat
  <2>1. IsFiniteSet(WithFate(t, states)) /\ \A s \in WithFate(t, states) : ChargeIn(t)[s] \in Nat
    BY FiniteParts, Costs DEF WithFate
  <2> QED
    BY <2>1, SumType DEF SpentIn
<1>2. \A S \in SUBSET Batches : SumOf(CostOf, S) \in Nat
  BY FiniteParts, Costs, SumType
<1> QED
  BY <1>1, <1>2 DEF WaitingIn, OpenIn, BatchesIn
-----------------------------------------------------------------------------
(* What the sums lose and gain when one transaction moves on.              *)

ChargeOfOne(t, s) == IF t[s] \in Charged THEN ChargeIn(t)[s] ELSE 0

LEMMA SpentMoves ==
  ASSUME NEW t \in Fates, NEW u \in Fates, NEW s \in Signatures,
         \A r \in Signatures \ {s} : u[r] = t[r]
  PROVE  SpentIn(u, Charged) + ChargeOfOne(t, s) = SpentIn(t, Charged) + ChargeOfOne(u, s)
<1> DEFINE AllBut(v) == WithFate(v, Charged) \ {s}
           Rest(v) == SumOf(ChargeIn(v), AllBut(v))
<1>1. ASSUME NEW v \in Fates
      PROVE  SpentIn(v, Charged) = ChargeOfOne(v, s) + Rest(v) /\ Rest(v) \in Nat
  <2>1. /\ IsFiniteSet(WithFate(v, Charged)) /\ IsFiniteSet(AllBut(v))
        /\ \A r \in WithFate(v, Charged) : ChargeIn(v)[r] \in Nat
    BY FiniteParts, Costs DEF WithFate
  <2>2. Rest(v) \in Nat
    BY <2>1, SumType
  <2>3. CASE v[s] \in Charged
    <3>1. s \in WithFate(v, Charged)
      BY <2>3 DEF WithFate
    <3> QED
      BY <2>1, <2>2, <2>3, <3>1, SumRemove DEF SpentIn, ChargeOfOne
  <2>4. CASE v[s] \notin Charged
    <3>1. AllBut(v) = WithFate(v, Charged)
      BY <2>4 DEF WithFate
    <3>2. SpentIn(v, Charged) = Rest(v) /\ ChargeOfOne(v, s) = 0
      BY <2>4, <3>1 DEF SpentIn, ChargeOfOne
    <3> QED
      BY <2>2, <3>2
  <2> QED
    BY <2>2, <2>3, <2>4
<1>2. AllBut(u) = AllBut(t)
  BY DEF WithFate
<1>3. Rest(u) = Rest(t)
  <2>1. IsFiniteSet(AllBut(t))
    BY FiniteParts DEF WithFate
  <2>2. \A r \in AllBut(t) : ChargeIn(t)[r] \in Nat /\ ChargeIn(t)[r] = ChargeIn(u)[r]
    BY Costs DEF WithFate, ChargeIn
  <2>3. SumOf(ChargeIn(t), AllBut(t)) = SumOf(ChargeIn(u), AllBut(t))
    BY <2>1, <2>2, SumSame
  <2> QED
    BY <1>2, <2>3
<1>4. ChargeOfOne(t, s) \in Nat /\ ChargeOfOne(u, s) \in Nat
  BY Costs DEF ChargeOfOne
<1> HIDE DEF Rest
<1> QED
  BY <1>1, <1>3, <1>4

\* At most one transaction of a batch has succeeded or may still do so.
OneLive(t) ==
  \A r, s \in Signatures :
    /\ BatchOf(r) = BatchOf(s)
    /\ t[r] \in {"pending", "processed_ok", "ok"}
    /\ t[s] \in {"pending", "processed_ok", "ok"}
    => r = s

LEMMA LiveIsInFlight == (StoreInv => OneLive(tx)) /\ (StoreInv' => OneLive(tx'))
BY DEF StoreInv, WriteAhead, OneLive, Failed

LEMMA WaitingIsOpen == ASSUME NEW t, OneLive(t) PROVE WaitingIn(t) <= OpenIn(t)
<1>1. BatchesIn(t, {"pending"}) \in SUBSET (Batches \ BatchesIn(t, {"processed_ok", "ok"}))
  BY DEF BatchesIn, OneLive
<1>2. /\ IsFiniteSet(Batches \ BatchesIn(t, {"processed_ok", "ok"}))
      /\ \A b \in Batches \ BatchesIn(t, {"processed_ok", "ok"}) : CostOf[b] \in Nat
  BY FiniteParts, Costs
<1> QED
  BY <1>1, <1>2, SumSubset DEF WaitingIn, OpenIn

LEMMA WaitingMoves ==
  ASSUME NEW t \in Fates, OneLive(t), NEW s \in Signatures, t[s] = "pending",
         NEW u, u[s] # "pending", \A r \in Signatures \ {s} : u[r] = t[r]
  PROVE  WaitingIn(t) = Cost(BatchOf(s)) + WaitingIn(u)
<1> DEFINE P(v) == BatchesIn(v, {"pending"})
<1>1. BatchOf(s) \in P(t) /\ P(u) = P(t) \ {BatchOf(s)}
  <2>1. BatchOf(s) \in P(t)
    BY SignatureParts DEF BatchesIn
  <2>2. \A r \in Signatures : u[r] = "pending" <=> t[r] = "pending" /\ r # s
    OBVIOUS
  <2>3. \A r \in Signatures : t[r] = "pending" /\ BatchOf(r) = BatchOf(s) => r = s
    BY DEF OneLive
  <2> QED
    BY <2>1, <2>2, <2>3 DEF BatchesIn
<1>2. IsFiniteSet(P(t)) /\ \A b \in P(t) : CostOf[b] \in Nat /\ CostOf[b] = Cost(b)
  BY FiniteParts, Costs DEF BatchesIn
<1>3. SumOf(CostOf, P(t)) = CostOf[BatchOf(s)] + SumOf(CostOf, P(t) \ {BatchOf(s)})
  <2> HIDE DEF P
  <2> QED
    BY <1>1, <1>2, SumRemove
<1> QED
  BY <1>1, <1>2, <1>3 DEF WaitingIn

LEMMA OpenMoves ==
  ASSUME NEW t \in Fates, OneLive(t), NEW s \in Signatures, t[s] = "pending",
         NEW u, u = [t EXCEPT ![s] = "processed_ok"]
  PROVE  OpenIn(t) = Cost(BatchOf(s)) + OpenIn(u)
<1> DEFINE P(v) == Batches \ BatchesIn(v, {"processed_ok", "ok"})
<1>1. BatchOf(s) \in P(t) /\ P(u) = P(t) \ {BatchOf(s)}
  <2>1. BatchOf(s) \in P(t)
    BY SignatureParts DEF BatchesIn, OneLive
  <2>2. \A r \in Signatures :
          u[r] \in {"processed_ok", "ok"} <=> t[r] \in {"processed_ok", "ok"} \/ r = s
    BY DEF Fates
  <2> QED
    BY <2>1, <2>2 DEF BatchesIn
<1>2. IsFiniteSet(P(t)) /\ \A b \in P(t) : CostOf[b] \in Nat /\ CostOf[b] = Cost(b)
  BY FiniteParts, Costs DEF BatchesIn
<1>3. SumOf(CostOf, P(t)) = CostOf[BatchOf(s)] + SumOf(CostOf, P(t) \ {BatchOf(s)})
  <2> HIDE DEF P
  <2> QED
    BY <1>1, <1>2, SumRemove
<1> QED
  BY <1>1, <1>2, <1>3 DEF OpenIn

LEMMA OpenStays ==
  ASSUME NEW t, NEW u,
         \A s \in Signatures :
           u[s] \in {"processed_ok", "ok"} <=> t[s] \in {"processed_ok", "ok"}
  PROVE  OpenIn(u) = OpenIn(t)
<1>1. BatchesIn(u, {"processed_ok", "ok"}) = BatchesIn(t, {"processed_ok", "ok"})
  BY DEF BatchesIn
<1> QED
  BY <1>1 DEF OpenIn

LEMMA WaitingStays ==
  ASSUME NEW t, NEW u, \A s \in Signatures : u[s] = "pending" <=> t[s] = "pending"
  PROVE  WaitingIn(u) = WaitingIn(t)
<1>1. BatchesIn(u, {"pending"}) = BatchesIn(t, {"pending"})
  BY DEF BatchesIn
<1> QED
  BY <1>1 DEF WaitingIn

-----------------------------------------------------------------------------
(* The steps.                                                              *)

FundedInv == Inv /\ FundingTypeOK /\ BudgetInv

LEMMA SessionRuns == SessionStep \/ Crash => pc # "idle"
BY DEF SessionStep, Crash, Finish, SkipConfirmed, Reconcile, Sign, Prepare,
       Send, Mismatch, Submit, Poll, Rebroadcast, LogConfirmed,
       LogRecipientConfirmed, LogFailed, LogRecipientFailed

LEMMA FundingTypeStep ==
  ASSUME FundingTypeOK, [FundedNext]_fundedVars PROVE FundingTypeOK'
<1>1. CASE CheckFunding \/ Abandon \/ StartFunded
  BY <1>1 DEF CheckFunding, Abandon, StartFunded, FundingTypeOK, vars, sessionVars
<1>2. CASE (SessionStep \/ Crash) /\ UNCHANGED fundingVars
  BY <1>2, SessionRuns DEF FundingTypeOK, fundingVars
<1>3. CASE (ClusterStep /\ UNCHANGED fundingVars) \/ UNCHANGED fundedVars
  BY <1>3
  DEF FundingTypeOK, fundedVars, fundingVars, vars, sessionVars, ClusterStep
<1> QED
  BY <1>1, <1>2, <1>3 DEF FundedNext

LEMMA BudgetType == FundingTypeOK => Budget \in Nat
<1> SUFFICES ASSUME FundingTypeOK PROVE Budget \in Nat
  OBVIOUS
<1>1. Cardinality(missed) \in Nat /\ Fee \in Nat /\ funds \in Nat
  BY FiniteParts, FS_CardinalityType DEF FundingTypeOK
<1>2. Fee * Cardinality(missed) \in Nat
  BY <1>1
<1> QED
  BY <1>1, <1>2 DEF Budget

LEMMA BudgetPartsNext == BudgetInv' <=> PaysWaiting' /\ (MaySend' => PaysOpen')
BY BudgetParts, PTL

\* A step that moves no transaction and does not make a session fit to send.
LEMMA QuietStep ==
  ASSUME BudgetInv, UNCHANGED <<tx, funds, missed>>, MaySend' => MaySend
  PROVE  BudgetInv'
<1>1. Budget' = Budget /\ tx' = tx
  BY DEF Budget
<1>2. (PaysWaiting => PaysWaiting') /\ (PaysOpen => PaysOpen')
  BY <1>1 DEF PaysWaiting, PaysOpen
<1> QED
  BY <1>2, BudgetParts, BudgetPartsNext

LEMMA SessionSends ==
  ASSUME SessionStep \/ Crash
  PROVE  \/ UNCHANGED tx
         \/ pc \in {"send", "rebroadcast"} /\ Accept(signature) /\ UNCHANGED ledger
BY DEF SessionStep, Crash, Finish, SkipConfirmed, Reconcile, Sign, Prepare, Send,
       SendAnswers, SendError, Mismatch, Submit, Poll, Rebroadcast, LogConfirmed,
       LogRecipientConfirmed, LogFailed, LogRecipientFailed, AppendThen,
       chainVars, fileVars

\* A session that met a failed transaction remains so until it ends.
LEMMA StoppingStays ==
  ASSUME Inv, TypeOK', SessionStep, UNCHANGED tx, Stopping, pc' # "idle"
  PROVE  Stopping'
<1>1. CASE pc = "failed"
  <2>1. LogFailed
    BY <1>1 DEF SessionStep, Finish, SkipConfirmed, Reconcile, Sign, Prepare, Send,
       Mismatch, Submit, Poll, Rebroadcast, LogConfirmed, LogRecipientConfirmed,
       LogRecipientFailed
  <2> QED
    BY <2>1 DEF LogFailed, LoggedBatch, AppendThen, GoTo, End, Stopping
<1>2. CASE pc = "recipients_failed"
  <2>1. LogRecipientFailed
    BY <1>2 DEF SessionStep, Finish, SkipConfirmed, Reconcile, Sign, Prepare, Send,
       Mismatch, Submit, Poll, Rebroadcast, LogConfirmed, LogRecipientConfirmed,
       LogFailed
  <2> QED
    BY <1>2, <2>1 DEF LogRecipientFailed, LoggedRecipientFailed, NextRecipient, AppendThen,
       End, Stopping
<1>3. CASE pc \notin {"failed", "recipients_failed"}
  <2>1. PICK s \in Signatures : in_flight_signature(ledger, BatchOf(s)) = s /\ Failed(s)
    BY <1>3 DEF Stopping
  <2>2. SUFFICES in_flight_signature(ledger', BatchOf(s)) = s
    BY <2>1 DEF Stopping, Failed
  <2>3. CASE UNCHANGED ledger
    BY <2>1, <2>3
  <2>4. ASSUME NEW event \in BatchEvents, Logs(event)
        PROVE  in_flight_signature(ledger', BatchOf(s)) = s
    <3>1. /\ \A c \in Batches : c # current => ledger'[c] = ledger[c]
          /\ ledger'[current] = EntryEffect(ledger, signature, event)
      BY <2>4, LogKeepsStore DEF Logs, TypeOK
    <3>2. /\ current \in Batches /\ BatchOf(signature) = current
          /\ BatchOf(s) \in Batches /\ s # NoSignature
          /\ ledger[current] \in BatchProgress
          /\ pc # "prepare" => in_flight_signature(ledger, current) = signature
          /\ pc = "prepare" => in_flight_signature(ledger, current) = NoSignature
          /\ pc = "confirmed" => tx[signature] = "ok"
      BY <2>4, SignatureParts
      DEF Logs, Inv, TypeOK, FileTypeOK, LedgerProgress, SessionInv, RunInv,
         LoopInv, SignatureInv, AtSignature
    <3>3. CASE BatchOf(s) # current
      BY <2>1, <3>1, <3>2, <3>3 DEF in_flight_signature
    <3>4. CASE BatchOf(s) = current
      <4>1. pc \in {"mismatch", "submit"}
        BY <1>3, <2>1, <2>4, <3>2, <3>4 DEF Logs, Failed
      <4>2. event \in {"BatchSignatureMismatch", "BatchSubmitted"} /\ s = signature
        BY <2>1, <2>4, <3>2, <3>4, <4>1 DEF Logs
      <4>3. ledger[current].submitted_signature \in {NoSignature, ledger[current].expected_signature}
        BY <3>2 DEF Inv, StoreInv, LedgerInv
      <4>4. in_flight_signature(ledger', current) = signature
        BY <3>1, <3>2, <4>1, <4>2, <4>3 DEF EntryEffect, in_flight_signature, BatchProgress
      <4> QED
        BY <3>4, <4>2, <4>4
    <3> QED
      BY <3>3, <3>4
  <2> QED
    BY <2>3, <2>4, LedgerStep DEF Next
<1> QED
  BY <1>1, <1>2, <1>3

\* A sendTransaction that reaches the cluster first.
LEMMA AcceptStep ==
  ASSUME Inv, StoreInv', TypeOK', FundingTypeOK, BudgetInv, UNCHANGED fundingVars,
         pc \in {"send", "rebroadcast"}, Accept(signature), tx' # tx
  PROVE  BudgetInv'
<1>1. /\ signature \in Signatures /\ current \in Batches
      /\ BatchOf(signature) = current
      /\ in_flight_signature(ledger, current) = signature
      /\ ~is_confirmed(ledger, current)
      /\ tx \in Fates /\ tx' \in Fates
      /\ StoreInv
  BY DEF Inv, TypeOK, ChainTypeOK, SessionInv, RunInv, LoopInv, SignatureInv,
     AtSignature, Fates
<1>2. tx[signature] = "unseen" /\ tx' = [tx EXCEPT ![signature] = "pending"]
  BY DEF Accept
<1>3. ~Stopping
  <2> SUFFICES ASSUME NEW s \in Signatures, in_flight_signature(ledger, BatchOf(s)) = s,
                      Failed(s)
               PROVE  FALSE
    BY DEF Stopping
  <2>1. BatchOf(s) \in Batches /\ s # NoSignature
    BY SignatureParts
  <2>2. ~is_confirmed(ledger, BatchOf(s))
    BY <1>1, <2>1 DEF StoreInv, LedgerInv, ConfirmedIsPaid, Failed
  <2>3. \A c \in Batches : c < BatchOf(s) => is_confirmed(ledger, c)
    BY <1>1, <2>1 DEF StoreInv, LedgerInv
  <2>4. \A c \in Batches : c < current => is_confirmed(ledger, c)
    BY DEF Inv, RunInv, LoopInv
  <2>5. BatchOf(s) = current
    BY <1>1, <2>1, <2>2, <2>3, <2>4 DEF Batches
  <2> QED
    BY <1>1, <1>2, <2>5 DEF Failed
<1>4. PaysOpen
  BY <1>3, BudgetParts DEF MaySend
<1>5. SpentIn(tx', Charged) = SpentIn(tx, Charged)
  <2>1. tx'[signature] = "pending"
    BY <1>1, <1>2 DEF Fates
  <2>2. ChargeOfOne(tx, signature) = 0 /\ ChargeOfOne(tx', signature) = 0
    BY <1>2, <2>1 DEF ChargeOfOne, Charged
  <2>3. \A r \in Signatures \ {signature} : tx'[r] = tx[r]
    BY <1>1, <1>2 DEF Fates
  <2>4. SpentIn(tx', Charged) + 0 = SpentIn(tx, Charged) + 0
    BY <1>1, <2>2, <2>3, SpentMoves
  <2> QED
    BY <2>4, SumsAreNat
<1>6. OpenIn(tx') = OpenIn(tx)
  BY <1>1, <1>2, OpenStays DEF Fates
<1>7. WaitingIn(tx') <= OpenIn(tx')
  BY WaitingIsOpen, LiveIsInFlight
<1>8. Budget' = Budget /\ Budget \in Nat
  BY BudgetType DEF Budget, fundingVars
<1> QED
  BY <1>4, <1>5, <1>6, <1>7, <1>8, BudgetPartsNext, SumsAreNat DEF PaysOpen, PaysWaiting

\* A transaction is executed.
LEMMA ProcessStep ==
  ASSUME Inv, TypeOK', FundingTypeOK, BudgetInv, UNCHANGED <<fundingVars, fileVars, pc>>,
         NEW s \in Signatures, NEW to \in {"processed_ok", "processed_err"},
         SetTx(s, "pending", to)
  PROVE  BudgetInv'
<1> DEFINE b == BatchOf(s)
<1>1. /\ tx \in Fates /\ tx' \in Fates /\ OneLive(tx) /\ b \in Batches
      /\ tx[s] = "pending" /\ tx' = [tx EXCEPT ![s] = to] /\ tx'[s] = to
      /\ \A r \in Signatures \ {s} : tx'[r] = tx[r]
  BY LiveIsInFlight, SignatureParts DEF Inv, TypeOK, ChainTypeOK, Fates, SetTx
<1>2. Budget' = Budget /\ Budget \in Nat /\ funded' = funded
  BY BudgetType DEF Budget, fundingVars
<1>3. WaitingIn(tx) = Cost(b) + WaitingIn(tx')
  <2>1. tx'[s] # "pending" /\ tx[s] = "pending"
    BY <1>1
  <2>2. tx \in Fates /\ tx' \in Fates /\ OneLive(tx) /\ \A r \in Signatures \ {s} : tx'[r] = tx[r]
    BY <1>1
  <2> HIDE DEF b
  <2>3. WaitingIn(tx) = Cost(BatchOf(s)) + WaitingIn(tx')
    BY <2>1, <2>2, WaitingMoves
  <2> QED
    BY <2>3 DEF b
<1>4. SpentIn(tx', Charged) = SpentIn(tx, Charged) + (IF to = "processed_ok" THEN Cost(b) ELSE Fee)
  <2>1. /\ ChargeOfOne(tx, s) = 0
        /\ ChargeOfOne(tx', s) = IF to = "processed_ok" THEN Cost(b) ELSE Fee
    BY <1>1 DEF ChargeOfOne, Charged, ChargeIn
  <2>2. SpentIn(tx', Charged) + ChargeOfOne(tx, s) = SpentIn(tx, Charged) + ChargeOfOne(tx', s)
    BY <1>1, SpentMoves
  <2>3. SpentIn(tx', Charged) \in Nat
    BY SumsAreNat
  <2> QED
    BY <2>1, <2>2, <2>3
<1>5. Cost(b) \in Nat /\ Fee \in Nat /\ Fee <= Cost(b)
  BY <1>1, Costs
<1>6. /\ SpentIn(tx, Charged) \in Nat /\ SpentIn(tx', Charged) \in Nat
      /\ WaitingIn(tx) \in Nat /\ WaitingIn(tx') \in Nat
      /\ OpenIn(tx) \in Nat /\ OpenIn(tx') \in Nat
  BY SumsAreNat
<1> HIDE DEF b
<1>7. PaysWaiting'
  <2>1. PaysWaiting
    BY BudgetParts
  <2> QED
    BY <2>1, <1>2, <1>3, <1>4, <1>5, <1>6 DEF PaysWaiting
<1>8. MaySend' => PaysOpen'
  <2>1. CASE to = "processed_ok"
    <3>1. OpenIn(tx) = Cost(b) + OpenIn(tx')
      <4>1. tx \in Fates /\ OneLive(tx) /\ tx[s] = "pending" /\ tx' = [tx EXCEPT ![s] = "processed_ok"]
        BY <1>1, <2>1
      <4>2. OpenIn(tx) = Cost(BatchOf(s)) + OpenIn(tx')
        BY <4>1, OpenMoves
      <4> QED
        BY <4>2 DEF b
    <3>2. MaySend' => MaySend
      <4>1. UNCHANGED <<pc, ledger>>
        BY DEF fileVars
      <4>2. \A r \in Signatures : Failed(r) => Failed(r)'
        BY <1>1 DEF Failed
      <4> QED
        BY <1>2, <4>1, <4>2 DEF MaySend, Stopping
    <3>3. MaySend' => PaysOpen
      BY <3>2, BudgetParts
    <3> QED
      BY <2>1, <3>1, <3>3, <1>2, <1>4, <1>5, <1>6 DEF PaysOpen
  <2>2. CASE to = "processed_err"
    <3>1. in_flight_signature(ledger, BatchOf(s)) = s
      BY <1>1 DEF Inv, StoreInv, WriteAhead, Failed
    <3>2. Failed(s)' /\ ledger' = ledger
      BY <1>1, <2>2 DEF Failed, fileVars
    <3>3. Stopping'
      BY <3>1, <3>2 DEF Stopping
    <3> QED
      BY <3>3 DEF MaySend
  <2> QED
    BY <2>1, <2>2
<1> QED
  BY <1>7, <1>8, BudgetPartsNext

\* A result is confirmed, or a transaction is lost.
LEMMA SettleStep ==
  ASSUME Inv, TypeOK', FundingTypeOK, BudgetInv, UNCHANGED <<fundingVars, fileVars, pc>>,
         NEW s \in Signatures, Confirm(s) \/ Drop(s)
  PROVE  BudgetInv'
<1>1. /\ tx \in Fates /\ tx' \in Fates /\ OneLive(tx) /\ BatchOf(s) \in Batches
      /\ \A r \in Signatures \ {s} : tx'[r] = tx[r]
      /\ \/ tx[s] = "processed_ok" /\ tx'[s] = "ok"
         \/ tx[s] = "processed_err" /\ tx'[s] = "err"
         \/ tx[s] = "pending" /\ tx' = [tx EXCEPT ![s] = "unseen"] /\ tx'[s] = "unseen"
  BY LiveIsInFlight, SignatureParts
  DEF Inv, TypeOK, ChainTypeOK, Fates, SetTx, Confirm, Drop
<1>2. Budget' = Budget /\ Budget \in Nat /\ funded' = funded
  BY BudgetType DEF Budget, fundingVars
<1>3. SpentIn(tx', Charged) = SpentIn(tx, Charged)
  <2>1. ChargeOfOne(tx, s) = ChargeOfOne(tx', s) /\ ChargeOfOne(tx, s) \in Nat
    BY <1>1, Costs DEF ChargeOfOne, Charged, ChargeIn
  <2>2. SpentIn(tx', Charged) + ChargeOfOne(tx, s) = SpentIn(tx, Charged) + ChargeOfOne(tx', s)
    BY <1>1, SpentMoves
  <2>3. SpentIn(tx', Charged) \in Nat /\ SpentIn(tx, Charged) \in Nat
    BY SumsAreNat
  <2> QED
    BY <2>1, <2>2, <2>3
<1>4. WaitingIn(tx') <= WaitingIn(tx)
  <2>1. CASE tx[s] = "pending"
    <3>1. WaitingIn(tx) = Cost(BatchOf(s)) + WaitingIn(tx')
      BY <1>1, <2>1, WaitingMoves
    <3> QED
      BY <3>1, <1>1, Costs, SumsAreNat
  <2>2. CASE tx[s] # "pending"
    <3>1. WaitingIn(tx') = WaitingIn(tx)
      BY <1>1, <2>2, WaitingStays
    <3>2. WaitingIn(tx) \in Nat
      BY SumsAreNat
    <3> QED
      BY <3>1, <3>2
  <2> QED
    BY <2>1, <2>2
<1>5. OpenIn(tx') = OpenIn(tx)
  BY <1>1, OpenStays
<1>6. /\ SpentIn(tx, Charged) \in Nat
      /\ WaitingIn(tx) \in Nat /\ WaitingIn(tx') \in Nat
  BY SumsAreNat
<1>7. PaysWaiting'
  <2>1. PaysWaiting
    BY BudgetParts
  <2> QED
    BY <2>1, <1>2, <1>3, <1>4, <1>6 DEF PaysWaiting
<1>8. MaySend' => MaySend
  <2>1. UNCHANGED <<pc, ledger>>
    BY DEF fileVars
  <2>2. \A r \in Signatures : Failed(r) => Failed(r)'
    BY <1>1 DEF Failed
  <2> QED
    BY <1>2, <2>1, <2>2 DEF MaySend, Stopping
<1>9. PaysOpen => PaysOpen'
  BY <1>2, <1>3, <1>5 DEF PaysOpen
<1> QED
  BY <1>7, <1>8, <1>9, BudgetParts, BudgetPartsNext

LEMMA ClusterBudget ==
  ASSUME "fork" \notin Faults, Inv, TypeOK', FundingTypeOK, BudgetInv,
         ClusterStep, UNCHANGED fundingVars
  PROVE  BudgetInv'
<1>1. UNCHANGED <<fundingVars, fileVars, pc>>
  BY DEF ClusterStep, sessionVars
<1>2. CASE NewBlockhash
  <2>1. UNCHANGED <<tx, funds, missed, funded, pc, ledger>>
    BY <1>1, <1>2 DEF NewBlockhash, fundingVars, fileVars
  <2>2. MaySend' => MaySend
    BY <2>1 DEF MaySend, Stopping, Failed
  <2> QED
    BY <2>1, <2>2, QuietStep
<1>3. ASSUME NEW s \in Signatures, Process(s) \/ Confirm(s) \/ Drop(s) PROVE BudgetInv'
  BY <1>1, <1>3, ProcessStep, SettleStep DEF Process
<1> QED
  BY <1>2, <1>3 DEF ClusterStep, ChainNext, Rollback

\* What the check asks for covers what is being confirmed and what is open.
LEMMA RequiredCovers ==
  ASSUME Inv
  PROVE  SpentIn(tx, {"processed_ok"}) + OpenIn(tx) <= required_pending_sol_lamports
<1> DEFINE S == WithFate(tx, {"processed_ok"})
           B == BatchesIn(tx, {"processed_ok"})
           O == Batches \ BatchesIn(tx, {"processed_ok", "ok"})
           U == {b \in Batches : ~is_confirmed(ledger, b)}
           batch == [s \in Signatures |-> BatchOf(s)]
<1>1. SpentIn(tx, {"processed_ok"}) = SumOf(CostOf, B)
  <2>1. IsFiniteSet(S) /\ {batch[s] : s \in S} = B
    BY FiniteParts, SignatureParts DEF WithFate, BatchesIn
  <2>2. \A s \in S : /\ CostOf[batch[s]] \in Nat
                     /\ ChargeIn(tx)[s] = CostOf[batch[s]]
    BY Costs, SignatureParts DEF WithFate, ChargeIn
  <2>3. \A r, s \in S : batch[r] = batch[s] => r = s
    BY LiveIsInFlight DEF Inv, OneLive, WithFate
  <2>4. SumOf(CostOf, {batch[s] : s \in S}) = SumOf([s \in S |-> CostOf[batch[s]]], S)
    <3> HIDE DEF S, batch
    <3> QED
      BY <2>1, <2>2, <2>3, SumImage
  <2>5. SumOf([s \in S |-> CostOf[batch[s]]], S) = SumOf(ChargeIn(tx), S)
    <3> HIDE DEF S, batch
    <3>1. \A s \in S : /\ [r \in S |-> CostOf[batch[r]]][s] \in Nat
                       /\ [r \in S |-> CostOf[batch[r]]][s] = ChargeIn(tx)[s]
      BY <2>2
    <3> QED
      BY <2>1, <3>1, SumSame
  <2> QED
    BY <2>1, <2>4, <2>5 DEF SpentIn
<1>2. B \cup O \in SUBSET U /\ B \cap O = {}
  <2>1. ASSUME NEW b \in B PROVE ~is_confirmed(ledger, b) /\ b \notin O
    <3>1. PICK s \in Signatures : BatchOf(s) = b /\ tx[s] = "processed_ok"
      BY <2>1 DEF BatchesIn
    <3>2. b \in Batches /\ in_flight_signature(ledger, b) = s
      BY <3>1, SignatureParts DEF Inv, StoreInv, WriteAhead, Failed
    <3> QED
      BY <3>1, <3>2 DEF Inv, StoreInv, LedgerInv, ConfirmedIsPaid, BatchesIn
  <2>2. ASSUME NEW b \in O PROVE ~is_confirmed(ledger, b)
    <3> SUFFICES ASSUME is_confirmed(ledger, b) PROVE FALSE
      OBVIOUS
    <3>1. ledger[b].confirmed \in Signatures
      BY <2>2 DEF Inv, TypeOK, FileTypeOK, LedgerProgress, BatchProgress, OptSignature,
         is_confirmed
    <3> QED
      BY <2>2, <3>1 DEF Inv, StoreInv, ConfirmedIsPaid, BatchesIn
  <2> QED
    BY <2>1, <2>2 DEF BatchesIn
<1>3. /\ IsFiniteSet(B) /\ IsFiniteSet(O) /\ IsFiniteSet(U)
      /\ \A b \in U : CostOf[b] \in Nat
      /\ required_pending_sol_lamports = SumOf(CostOf, U)
  <2>1. B \in SUBSET Batches /\ O \in SUBSET Batches /\ U \in SUBSET Batches
    BY DEF BatchesIn
  <2>2. required_pending_sol_lamports = SumOf(CostOf, U)
    BY <2>1, CostSum DEF required_pending_sol_lamports
  <2> QED
    BY <2>1, <2>2, FiniteParts, Costs
<1>4. OpenIn(tx) = SumOf(CostOf, O)
  BY DEF OpenIn
<1> HIDE DEF B, O, U
<1>5. SumOf(CostOf, B \cup O) = SumOf(CostOf, B) + SumOf(CostOf, O)
  BY <1>2, <1>3, SumUnion
<1>6. SumOf(CostOf, B \cup O) <= SumOf(CostOf, U)
  BY <1>2, <1>3, SumSubset
<1> QED
  BY <1>1, <1>3, <1>4, <1>5, <1>6

\* The balance shows what is confirmed; what it does not show yet is covered
\* by what the check asks for, but for the fees of the failed ones.
LEMMA CheckStep == ASSUME Inv, FundingTypeOK, CheckFunding PROVE BudgetInv'
<1> DEFINE S1 == WithFate(tx, {"ok", "err"})
           S2 == WithFate(tx, {"processed_ok"})
           S3 == WithFate(tx, {"processed_err"})
           C == ChargeIn(tx)
<1>1. /\ IsFiniteSet(S1) /\ IsFiniteSet(S2) /\ IsFiniteSet(S3)
      /\ S1 \cap S2 = {} /\ (S1 \cup S2) \cap S3 = {}
      /\ WithFate(tx, Charged) = (S1 \cup S2) \cup S3
      /\ \A s \in (S1 \cup S2) \cup S3 : C[s] \in Nat
      /\ \A s \in S3 : C[s] = Fee
  BY FiniteParts, Costs DEF WithFate, Charged, ChargeIn
<1>2. /\ tx' = tx /\ funds' = funds /\ missed' = S3
      /\ funds - SpentBy({"ok", "err"}) >= required_pending_sol_lamports
  BY DEF CheckFunding, Balance, vars, chainVars, WithFate
<1> HIDE DEF S1, S2, S3, C
<1>3. IsFiniteSet(S1 \cup S2)
  BY <1>1, FS_Union
<1>4. SumOf(C, (S1 \cup S2) \cup S3) = SumOf(C, S1 \cup S2) + SumOf(C, S3)
  BY <1>1, <1>3, SumUnion
<1>5. SumOf(C, S1 \cup S2) = SumOf(C, S1) + SumOf(C, S2)
  BY <1>1, SumUnion
<1>6. SumOf(C, S3) = Fee * Cardinality(S3)
  BY <1>1, SumConstant
<1>7. /\ SpentIn(tx, Charged) = SpentIn(tx, {"ok", "err"}) + SpentIn(tx, {"processed_ok"})
                                 + Fee * Cardinality(S3)
  BY <1>1, <1>4, <1>5, <1>6 DEF SpentIn, S1, S2, C
<1>8. SpentBy({"ok", "err"}) = SpentIn(tx, {"ok", "err"})
  BY SpentSum
<1>9. /\ SpentIn(tx, {"ok", "err"}) \in Nat /\ SpentIn(tx, {"processed_ok"}) \in Nat
      /\ OpenIn(tx) \in Nat /\ WaitingIn(tx) \in Nat
      /\ Fee * Cardinality(S3) \in Nat /\ funds \in Nat
      /\ required_pending_sol_lamports \in Nat
  <2>1. Cardinality(S3) \in Nat /\ Fee \in Nat
    BY <1>1, FS_CardinalityType
  <2>2. {b \in Batches : ~is_confirmed(ledger, b)} \in SUBSET Batches
    OBVIOUS
  <2>3. required_pending_sol_lamports \in Nat
    BY <2>2, CostSum, FiniteParts, Costs, SumType DEF required_pending_sol_lamports
  <2> QED
    BY <2>1, <2>3, SumsAreNat DEF FundingTypeOK
<1>a. Budget' = funds + Fee * Cardinality(S3)
  BY <1>2 DEF Budget
<1>b. SpentIn(tx, Charged) + OpenIn(tx) <= Budget'
  BY <1>2, <1>7, <1>8, <1>9, <1>a, RequiredCovers
<1>c. WaitingIn(tx) <= OpenIn(tx)
  BY WaitingIsOpen, LiveIsInFlight DEF Inv
<1>d. SpentIn(tx, Charged) + WaitingIn(tx) <= Budget'
  BY <1>7, <1>9, <1>a, <1>b, <1>c
<1> QED
  BY <1>2, <1>b, <1>d, BudgetPartsNext DEF PaysWaiting, PaysOpen

LEMMA SessionBudget ==
  ASSUME "fork" \notin Faults, Inv, Inv', FundingTypeOK, BudgetInv,
         SessionStep \/ Crash, UNCHANGED fundingVars
  PROVE  BudgetInv'
<1>1. pc # "idle" /\ ~funded /\ ~funded'
  BY SessionRuns DEF FundingTypeOK, fundingVars
<1>2. CASE UNCHANGED tx
  <2>1. MaySend' => MaySend
    <3> SUFFICES ASSUME pc' # "idle", ~Stopping' PROVE ~Stopping
      BY <1>1 DEF MaySend
    <3>1. SessionStep
      BY DEF Crash, End
    <3> QED
      BY <1>2, <3>1, StoppingStays DEF Inv
  <2> QED
    BY <1>2, <2>1, QuietStep DEF fundingVars
<1>3. CASE tx' # tx
  BY <1>3, SessionSends, AcceptStep DEF Inv
<1> QED
  BY <1>2, <1>3

LEMMA BudgetStep ==
  ASSUME "fork" \notin Faults, Inv, Inv', FundingTypeOK, BudgetInv, [FundedNext]_fundedVars
  PROVE  BudgetInv'
<1>1. CASE CheckFunding
  BY <1>1, CheckStep
<1>2. CASE Abandon
  <2>1. UNCHANGED <<tx, funds, missed>> /\ ~MaySend'
    BY <1>2 DEF Abandon, vars, chainVars, sessionVars, MaySend, FundingTypeOK
  <2> QED
    BY <2>1, QuietStep
<1>3. CASE StartFunded
  <2>1. UNCHANGED <<tx, ledger, funds, missed>> /\ funded
    BY <1>3 DEF StartFunded, Start, StartUnreadable, chainVars, fileVars
  <2>2. Stopping => Stopping'
    <3>1. pc = "idle"
      BY <1>3 DEF StartFunded, Start, StartUnreadable
    <3> QED
      BY <2>1, <3>1 DEF Stopping, Failed
  <2> QED
    BY <2>1, <2>2, QuietStep DEF MaySend
<1>4. CASE (SessionStep \/ Crash) /\ UNCHANGED fundingVars
  BY <1>4, SessionBudget
<1>5. CASE ClusterStep /\ UNCHANGED fundingVars
  BY <1>5, ClusterBudget DEF Inv
<1>6. CASE UNCHANGED fundedVars
  <2>1. UNCHANGED <<tx, ledger, pc, funds, missed, funded>>
    BY <1>6 DEF fundedVars, vars, fundingVars, fileVars, chainVars, sessionVars
  <2> QED
    BY <2>1, QuietStep DEF MaySend, Stopping, Failed
<1> QED
  BY <1>1, <1>2, <1>3, <1>4, <1>5, <1>6 DEF FundedNext

-----------------------------------------------------------------------------
(* What follows.                                                           *)

LEMMA InvIsKept ==
  ASSUME "fork" \notin Faults, Inv, [Next]_vars PROVE Inv'
<1>1. TypeOK' /\ SessionInv'
  BY TypeStep DEF Inv
<1>2. RunInv' /\ StoreInv'
  BY <1>1, InvStep
<1> QED
  BY <1>1, <1>2 DEF Inv

LEMMA FundedInvInit == FundedInit => FundedInv
<1> SUFFICES ASSUME FundedInit PROVE FundedInv
  OBVIOUS
<1>1. Inv
  BY InvInit DEF FundedInit
<1>2. FundingTypeOK
  <2>1. MinFunds \in Nat /\ MaxFunds \in Nat
    OBVIOUS
  <2>2. funds \in Nat
    BY <2>1 DEF FundedInit
  <2> QED
    BY <2>2 DEF FundedInit, FundingTypeOK
<1>3. BudgetInv
  <2>1. \A s \in Signatures : tx[s] = "unseen"
    BY DEF FundedInit, Init, ChainInit
  <2>2. WithFate(tx, Charged) = {} /\ BatchesIn(tx, {"pending"}) = {}
    BY <2>1 DEF WithFate, BatchesIn, Charged
  <2>3. SpentIn(tx, Charged) = 0 /\ WaitingIn(tx) = 0
    BY <2>2, SumEmpty DEF SpentIn, WaitingIn
  <2>4. ~MaySend
    BY DEF FundedInit, Init, SessionInit, MaySend
  <2> QED
    BY <1>2, <2>3, <2>4, BudgetType, BudgetParts DEF PaysWaiting
<1> QED
  BY <1>1, <1>2, <1>3 DEF FundedInv

\* The check in front of every session is enough: over all sessions, and
\* however their transactions land while the operator reads, confirms and
\* sends, a run spends no more than the wallet held at first, but for the fees
\* of the failures that the balance did not show (check_source_sol_funding and
\* send_command, cli.rs).
THEOREM FundsSuffice == ASSUME "fork" \notin Faults PROVE FundedSpec => []CheckIsEnough
<1>1. FundedInv /\ [FundedNext]_fundedVars => FundedInv'
  BY StepOfSendPlan, InvIsKept, FundingTypeStep, BudgetStep DEF FundedInv
<1>2. FundedInv => CheckIsEnough
  <2> SUFFICES ASSUME FundedInv PROVE CheckIsEnough
    OBVIOUS
  <2>1. PaysWaiting /\ Budget \in Nat
    BY BudgetParts, BudgetType DEF FundedInv
  <2>2. Spent = SpentIn(tx, Charged)
    BY SpentSum DEF Spent, Charged
  <2>3. SpentIn(tx, Charged) \in Nat /\ WaitingIn(tx) \in Nat
    BY SumsAreNat
  <2>4. Spent <= Budget
    BY <2>1, <2>2, <2>3 DEF PaysWaiting
  <2> QED
    BY <2>4 DEF CheckIsEnough, Budget
<1> QED
  BY <1>1, <1>2, FundedInvInit, PTL DEF FundedSpec
=============================================================================
