--------------------------- MODULE MCFundedSender ---------------------------
(* Instances of FundedSender for TLC: the first batch creates accounts.    *)
EXTENDS FundedSender

MCAtaCreations == [b \in Batches |-> IF b = 1 THEN BatchSize ELSE 0]
=============================================================================
