-------------------------- MODULE MCMobileSession --------------------------
(***************************************************************************)
(* Instances of MobileSession for TLC.                                     *)
(***************************************************************************)
EXTENDS MobileSession, TLC

CONSTANTS l1, l2, u1, u2

\* Two accounts on one device.
TwoAccounts == (l1 :> u1) @@ (l2 :> u2)

=============================================================================
