------------------------- MODULE MCSimpleActionClient --------------------------
(***************************************************************************)
(* Instances of SimpleActionClient for TLC.                                *)
(***************************************************************************)
EXTENDS SimpleActionClient

=============================================================================
