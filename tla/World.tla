------------------------------- MODULE World --------------------------------
(***************************************************************************)
(* What the dispatcher's thread does to the world: the walk of a creature, *)
(* monsters, a spawn, decaying items and open containers, each a           *)
(* specification of its own, and what is promised of several of them.      *)
(***************************************************************************)
EXTENDS CreatureWalk, Monsters, Spawns, Decay, OpenContainers

\* Every reference counter counts the references there are, those of creatures,
\* of the monsters of a spawn and of items: nothing that is in use is deleted and
\* nothing that is not is kept.
ReferencesExact == CreatureRefsExact /\ SpawnRefsExact /\ ItemRefsExact

\* MonstersAreAwake and EmptyPlacesAreChecked: what was put to sleep, a monster or
\* the check of a spawn, is woken when there is something to do for it.
NobodyIsForgotten == MonstersAreAwake /\ EmptyPlacesAreChecked
=============================================================================
