-------------------------- MODULE TwoSendersProofs --------------------------
(***************************************************************************)
(* Proofs about TwoSenders, for every plan, every number of blockhashes    *)
(* and of polling attempts, and all faults but fork: two processes that    *)
(* send one run are two sessions of SharedRun.                             *)
(***************************************************************************)
EXTENDS TwoSenders, TLAPS

\* What both instances assume.
LEMMA Assumed ==
  /\ NumBatches \in Nat \ {0} /\ BatchSize \in Nat \ {0} /\ MaxBlockhash \in Nat
  /\ Window \in Nat \ {0} /\ Faults \subseteq A!AllFaults /\ Faults \subseteq B!AllFaults
  /\ MaxAttempts \in Nat \ {0} /\ RebroadcastEvery \in Nat \ {0}
BY PlanAssumption, TwoSendersAssumption
   DEF PlanAssumption, TwoSendersAssumption, A!ChainAssumption, A!PollAssumption, A!AllFaults, B!AllFaults

\* What others may do, and what is true, is the same for both.
LEMMA SameOthers ==
  /\ A!TruthfulWrite <=> B!TruthfulWrite
  /\ A!BeginEntry <=> B!BeginEntry
  /\ A!EndLine <=> B!EndLine
  /\ A!OtherSends <=> B!OtherSends
  /\ A!ChainNext <=> B!ChainNext
<1>1. A!BeginEntry <=> B!BeginEntry
  BY DEF A!BeginEntry, B!BeginEntry
<1>2. A!EndLine <=> B!EndLine
  BY DEF A!EndLine, B!EndLine
<1>3. A!LedgerEntry = B!LedgerEntry
  BY DEF A!LedgerEntry, A!BatchLedgerEntry, A!RecipientLedgerEntry, A!BatchEvents,
     A!RecipientEvents, A!Batches, A!Signatures, A!Recipients, A!Blockhashes,
     B!LedgerEntry, B!BatchLedgerEntry, B!RecipientLedgerEntry, B!BatchEvents,
     B!RecipientEvents, B!Batches, B!Signatures, B!Recipients, B!Blockhashes
<1>4. \A entry : A!Truthful(entry) <=> B!Truthful(entry)
  BY DEF A!Truthful, A!BatchOf, A!Failed, B!Truthful, B!BatchOf, B!Failed
<1>5. \A entry : A!EndEntry(entry) <=> B!EndEntry(entry)
  BY DEF A!EndEntry, A!Written, A!apply, A!record_batch_prepared, A!record_batch_submitted,
     A!record_batch_confirmed, A!record_batch_failed, A!RecipientEvents, A!NoSignature, A!fileVars,
     B!EndEntry, B!Written, B!apply, B!record_batch_prepared, B!record_batch_submitted,
     B!record_batch_confirmed, B!record_batch_failed, B!RecipientEvents, B!NoSignature, B!fileVars
<1>6. A!TruthfulWrite <=> B!TruthfulWrite
  BY <1>1, <1>2, <1>3, <1>4, <1>5 DEF A!TruthfulWrite, B!TruthfulWrite, A!chainVars, B!chainVars
<1>7. A!OtherSends <=> B!OtherSends
  BY DEF A!OtherSends, A!Accept, A!Valid, A!BlockhashOf, A!Signatures, A!Batches, A!Blockhashes,
     A!fileVars, B!OtherSends, B!Accept, B!Valid, B!BlockhashOf, B!Signatures, B!Batches,
     B!Blockhashes, B!fileVars
<1>8. A!ChainNext <=> B!ChainNext
  BY DEF A!ChainNext, A!NewBlockhash, A!Process, A!Confirm, A!Drop, A!Rollback, A!SetTx,
     A!Valid, A!BlockhashOf, A!Signatures, A!Batches, A!Blockhashes,
     B!ChainNext, B!NewBlockhash, B!Process, B!Confirm, B!Drop, B!Rollback, B!SetTx,
     B!Valid, B!BlockhashOf, B!Signatures, B!Batches, B!Blockhashes
<1> QED
  BY <1>1, <1>2, <1>6, <1>7, <1>8

LEMMA Starts == Init => A!SharedInit /\ B!SharedInit
BY DEF Init

\* Once both are in an append the file is spoiled.
Apart == writingA # "none" /\ writingB # "none" => tail = "corrupt"

BothInv ==
  /\ A!SharedInv /\ A!WritingInv
  /\ B!SharedInv /\ B!WritingInv
  /\ Apart

\* So that what one of them ends the other has not begun.
LEMMA NotMine ==
  /\ Apart /\ writingA # "none" => ~B!Mine
  /\ Apart /\ writingB # "none" => ~A!Mine
BY DEF Apart, A!Mine, B!Mine

\* A step of one session is a step of another process to the other one.
LEMMA StepOfA ==
  ASSUME "fork" \notin Faults, BothInv, StepA
  PROVE  A!SharedNext /\ [B!SharedNext]_(B!sharedVars) /\ Apart'
<1>1. A!SharedNext
  BY DEF StepA, A!SharedNext
<1>2. UNCHANGED <<B!sessionVars, writingB>>
  BY DEF StepA, varsB, B!sessionVars
<1>3. CASE (UNCHANGED <<A!fileVars, A!chainVars>> \/ A!OtherSends) /\ writingA' = "none"
  <2>1. Apart'
    BY <1>3 DEF Apart
  <2>2. CASE A!OtherSends
    BY <1>1, <1>2, <2>1, <2>2, SameOthers DEF B!SharedNext, B!Others
  <2>3. CASE UNCHANGED <<A!fileVars, A!chainVars>>
    BY <1>1, <1>2, <2>1, <2>3
    DEF A!fileVars, A!chainVars, B!sharedVars, B!vars, B!fileVars, B!chainVars
  <2> QED
    BY <1>3, <2>2, <2>3
<1>4. CASE A!TruthfulWrite /\ A!Begins
  <2>1. B!Others
    BY <1>2, <1>4, SameOthers DEF A!Begins, A!TruthfulWrite, B!Others, B!OtherWrites,
       A!chainVars, B!chainVars
  <2>2. Apart'
    BY <1>2, <1>4 DEF A!Begins, A!BeginEntry, BothInv, B!WritingInv, B!Writings, Apart
  <2> QED
    BY <1>1, <2>1, <2>2 DEF B!SharedNext
<1>5. CASE A!TruthfulWrite /\ (A!Ends \/ A!Breaks)
  <2>1. writingA # "none" /\ ~B!Mine
    BY <1>5, NotMine DEF A!Ends, A!Breaks, BothInv
  <2>2. B!OtherWrites
    BY <1>5, <2>1, SameOthers DEF B!TruthfulWrite, B!OtherWrites
  <2>3. tail = "corrupt" => tail' = "corrupt"
    BY <1>5 DEF A!Ends, A!Breaks, A!EndEntry, A!EndLine, A!fileVars
  <2>4. Apart'
    BY <1>2, <2>1, <2>3 DEF Apart, BothInv
  <2> QED
    BY <1>1, <1>2, <2>2, <2>4 DEF B!SharedNext, B!Others
<1> QED
  BY <1>3, <1>4, <1>5, A!SessionIsOther, Assumed DEF StepA, BothInv

LEMMA StepOfB ==
  ASSUME "fork" \notin Faults, BothInv, StepB
  PROVE  B!SharedNext /\ [A!SharedNext]_(A!sharedVars) /\ Apart'
<1>1. B!SharedNext
  BY DEF StepB, B!SharedNext
<1>2. UNCHANGED <<A!sessionVars, writingA>>
  BY DEF StepB, varsA, A!sessionVars
<1>3. CASE (UNCHANGED <<B!fileVars, B!chainVars>> \/ B!OtherSends) /\ writingB' = "none"
  <2>1. Apart'
    BY <1>3 DEF Apart
  <2>2. CASE B!OtherSends
    BY <1>1, <1>2, <2>1, <2>2, SameOthers DEF A!SharedNext, A!Others
  <2>3. CASE UNCHANGED <<B!fileVars, B!chainVars>>
    BY <1>1, <1>2, <2>1, <2>3
    DEF B!fileVars, B!chainVars, A!sharedVars, A!vars, A!fileVars, A!chainVars
  <2> QED
    BY <1>3, <2>2, <2>3
<1>4. CASE B!TruthfulWrite /\ B!Begins
  <2>1. A!Others
    BY <1>2, <1>4, SameOthers DEF B!Begins, B!TruthfulWrite, A!Others, A!OtherWrites,
       B!chainVars, A!chainVars
  <2>2. Apart'
    BY <1>2, <1>4 DEF B!Begins, B!BeginEntry, BothInv, A!WritingInv, A!Writings, Apart
  <2> QED
    BY <1>1, <2>1, <2>2 DEF A!SharedNext
<1>5. CASE B!TruthfulWrite /\ (B!Ends \/ B!Breaks)
  <2>1. writingB # "none" /\ ~A!Mine
    BY <1>5, NotMine DEF B!Ends, B!Breaks, BothInv
  <2>2. A!OtherWrites
    BY <1>5, <2>1, SameOthers DEF A!TruthfulWrite, A!OtherWrites
  <2>3. tail = "corrupt" => tail' = "corrupt"
    BY <1>5 DEF B!Ends, B!Breaks, B!EndEntry, B!EndLine, B!fileVars
  <2>4. Apart'
    BY <1>2, <2>1, <2>3 DEF Apart, BothInv
  <2> QED
    BY <1>1, <1>2, <2>2, <2>4 DEF A!SharedNext, A!Others
<1> QED
  BY <1>3, <1>4, <1>5, B!SessionIsOther, Assumed DEF StepB, BothInv

LEMMA StepOfBoth ==
  ASSUME "fork" \notin Faults, BothInv, [Next]_vars
  PROVE  [A!SharedNext]_(A!sharedVars) /\ [B!SharedNext]_(B!sharedVars) /\ Apart'
<1>1. CASE StepA
  BY <1>1, StepOfA
<1>2. CASE StepB
  BY <1>2, StepOfB
<1>3. CASE ClusterStep
  <2>1. A!SharedNext
    BY <1>3 DEF ClusterStep, A!SharedNext
  <2>2. B!ChainNext /\ UNCHANGED <<B!fileVars, B!sessionVars, writingA, writingB>>
    BY <1>3, SameOthers DEF ClusterStep, A!ClusterStep, A!fileVars, varsB, B!fileVars, B!sessionVars
  <2>3. Apart'
    BY <2>2 DEF Apart, BothInv, B!fileVars
  <2> QED
    BY <2>1, <2>2, <2>3 DEF B!SharedNext, B!ClusterStep
<1>4. CASE UNCHANGED vars
  BY <1>4 DEF vars, varsA, varsB, BothInv, Apart,
     A!sharedVars, A!vars, A!fileVars, A!chainVars, A!sessionVars,
     B!sharedVars, B!vars, B!fileVars, B!chainVars, B!sessionVars
<1> QED
  BY <1>1, <1>2, <1>3, <1>4 DEF Next

LEMMA BothInit == Init => BothInv
BY Starts, Assumed, A!SharedStart, B!SharedStart DEF BothInv, Apart, A!SharedInit

LEMMA BothStep == ASSUME "fork" \notin Faults, BothInv, [Next]_vars PROVE BothInv'
<1>1. A!SharedInv' /\ A!WritingInv'
  BY StepOfBoth, Assumed, A!SharedStep, A!WritingStep DEF BothInv
<1>2. B!SharedInv' /\ B!WritingInv'
  BY StepOfBoth, Assumed, B!SharedStep, B!WritingStep DEF BothInv
<1> QED
  BY <1>1, <1>2, StepOfBoth DEF BothInv

\* Two processes that send one run, in full and in any order, are each a
\* session of SharedRun (send_plan, execution.rs:64, from two terminals): the
\* other one does what SharedRun expects of others, because it in turn may
\* expect that of this one.
THEOREM TwoAreShared == ASSUME "fork" \notin Faults PROVE Spec => ImplementsShared
<1>1. BothInv /\ [Next]_vars => BothInv'
  BY BothStep
<1>2. BothInv /\ [Next]_vars => [A!SharedNext]_(A!sharedVars) /\ [B!SharedNext]_(B!sharedVars)
  BY StepOfBoth
<1> QED
  BY <1>1, <1>2, Starts, BothInit, PTL DEF Spec, ImplementsShared, A!SharedSpec, B!SharedSpec

\* So that neither reports as sent what was not paid, and no entry of either
\* is untrue.
THEOREM BothAreTrue ==
  ASSUME "fork" \notin Faults
  PROVE  Spec => [](/\ A!OkMeansPaid /\ A!RecipientLogTrue /\ A!ConfirmedIsPaid
                    /\ B!OkMeansPaid /\ B!RecipientLogTrue /\ B!ConfirmedIsPaid)
<1>1. BothInv /\ [Next]_vars => BothInv'
  BY BothStep
<1>2. BothInv => /\ A!OkMeansPaid /\ A!RecipientLogTrue /\ A!ConfirmedIsPaid
                 /\ B!OkMeansPaid /\ B!RecipientLogTrue /\ B!ConfirmedIsPaid
  BY Assumed, A!SharedInvIsTrue, B!SharedInvIsTrue DEF BothInv
<1> QED
  BY <1>1, <1>2, BothInit, PTL DEF Spec
=============================================================================
