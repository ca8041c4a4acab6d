--------------------------- MODULE MCLocalPhotos ---------------------------
(***************************************************************************)
(* Instances of LocalPhotos for TLC.  A liveness property is checked beside*)
(* the invariants, so no constant set is declared symmetric.               *)
(***************************************************************************)
EXTENDS LocalPhotos, TLC

=============================================================================
