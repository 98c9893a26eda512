----------------------------- MODULE MCAccounts -----------------------------
(***************************************************************************)
(* The accounts, checked in one run: its states are those of the parts,    *)
(* side by side.  The connections are interchangeable, and so are the      *)
(* players: no definition puts either in an order, so the symmetry is      *)
(* sound.                                                                  *)
(***************************************************************************)
EXTENDS Accounts

Symmetry == Permutations(Protocol) \cup Permutations(Player)
=============================================================================
