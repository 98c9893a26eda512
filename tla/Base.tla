-------------------------------- MODULE Base --------------------------------
(***************************************************************************)
(* What several models have in common: nullptr.                            *)
(***************************************************************************)
CONSTANT None       \* nullptr
=============================================================================
