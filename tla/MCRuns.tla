------------------------------- MODULE MCRuns -------------------------------
(* Instances of Runs for TLC.  Wallets, identities and options are          *)
(* interchangeable.                                                        *)
EXTENDS Runs, TLC

Symmetry == Permutations(Wallets) \cup Permutations(Identities) \cup Permutations(Options)
=============================================================================
