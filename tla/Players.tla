------------------------------- MODULE Players ------------------------------
(***************************************************************************)
(* The players of the models that are about players.                       *)
(***************************************************************************)
EXTENDS Base

CONSTANT Player
=============================================================================
