--------------------------- MODULE MCMotorController ---------------------------
(***************************************************************************)
(* Instances of MotorController for TLC.                                   *)
(***************************************************************************)
EXTENDS MotorController, TLC

\* Speeds other than zero are interchangeable.
CommandSymmetry == Permutations(Commands \ {Stop})

=============================================================================
