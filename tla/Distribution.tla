---------------------------- MODULE Distribution ----------------------------
(***************************************************************************)
(* What send_plan and the cluster together promise, whatever goes wrong:   *)
(* the batches of the plan are paid in their order, each at most once, and *)
(* a batch is paid only when the ledger already says that the batches      *)
(* before it were.                                                         *)
(***************************************************************************)
EXTENDS Naturals

CONSTANT NumBatches

VARIABLES
  paid,      \* how often the transfers of a batch have happened for good
  recorded   \* the batches the ledger has as confirmed

Batches == 1 .. NumBatches

Init ==
  /\ paid = [b \in Batches |-> 0]
  /\ recorded = {}

Pay(b) ==
  /\ paid[b] = 0
  /\ 1 .. (b - 1) \subseteq recorded
  /\ paid' = [paid EXCEPT ![b] = 1]
  /\ UNCHANGED recorded

Record(b) ==
  /\ paid[b] = 1
  /\ recorded' = recorded \cup {b}
  /\ UNCHANGED paid

Next == \E b \in Batches : Pay(b) \/ Record(b)

Spec == Init /\ [][Next]_<<paid, recorded>>

=============================================================================
