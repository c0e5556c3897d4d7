----------------------------- MODULE MCRunFiles ------------------------------
(* Instances of RunDirectory for TLC.                                       *)
EXTENDS RunDirectory
=============================================================================
