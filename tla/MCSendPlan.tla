----------------------------- MODULE MCSendPlan -----------------------------
(***************************************************************************)
(* Instances of SendPlan for TLC: the configurations give every constant   *)
(* its value.                                                              *)
(***************************************************************************)
EXTENDS SendPlan
=============================================================================
