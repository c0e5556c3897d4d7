---------------------------- MODULE MCTwoSenders ----------------------------
(* Instances of TwoSenders for TLC.                                        *)
EXTENDS TwoSenders
=============================================================================
