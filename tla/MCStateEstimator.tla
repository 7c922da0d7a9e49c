--------------------------- MODULE MCStateEstimator ---------------------------
(***************************************************************************)
(* Instances of StateEstimator for TLC.                                    *)
(***************************************************************************)
EXTENDS StateEstimator

=============================================================================
