---------------------------- MODULE MCWithdrawal ----------------------------
(***************************************************************************)
(* Instances of Withdrawal for TLC.                                        *)
(***************************************************************************)
EXTENDS Withdrawal, TLC

Symmetry == Permutations(Users)

=============================================================================
