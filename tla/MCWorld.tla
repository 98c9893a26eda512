------------------------------ MODULE MCWorld ------------------------------
(***************************************************************************)
(* Parts of the game that run on the dispatcher's thread and share no      *)
(* state in these models, checked in one run: the walk of a creature, how  *)
(* monsters wake and die, a spawn, decaying items, items that move, and    *)
(* the containers players have open.                                       *)
(* A behaviour is one of one part, as its first state says, while the      *)
(* others stand still: the states of the run are those of the parts, side  *)
(* by side.                                                                *)
(***************************************************************************)
EXTENDS World, Items

VARIABLE part

\* A torch that may be put out and lit again, and a ring that is worn or not.
MCDecayTime == "lit" :> 2 @@ "out" :> 0 @@ "burnt" :> 1 @@ "ring" :> 0 @@ "worn" :> 2
MCDecayTo == "lit" :> "burnt" @@ "out" :> Never @@ "burnt" :> Nothing @@ "ring" :> Never @@ "worn" :> Nothing
MCBecomes == "lit" :> {"out", "burnt"} @@ "out" :> {"lit"} @@ "burnt" :> {} @@ "ring" :> {"worn"} @@ "worn" :> {"ring"}

partsVars == <<part, allVars, monstersVars, spawnsVars, decayVars, itemsVars, openVars>>

WorldInit ==
    /\ part \in {"walk", "monsters", "spawns", "decay", "items", "open"}
    /\ WalkInit /\ MonstersInit /\ SpawnsInit /\ DecayInit /\ ItemsInit /\ OpenInit
    /\ part # "open" => spotOf \in [Player -> {1}] /\ parent \in [Bag -> {1}]

WalkStep ==
    /\ part = "walk" /\ WalkNext
    /\ UNCHANGED <<part, monstersVars, spawnsVars, decayVars, itemsVars, openVars>>
MonstersStep ==
    /\ part = "monsters" /\ MonstersNext
    /\ UNCHANGED <<part, allVars, spawnsVars, decayVars, itemsVars, openVars>>
SpawnsStep ==
    /\ part = "spawns" /\ SpawnsNext
    /\ UNCHANGED <<part, allVars, monstersVars, decayVars, itemsVars, openVars>>
DecayStep ==
    /\ part = "decay" /\ DecayNext
    /\ UNCHANGED <<part, allVars, monstersVars, spawnsVars, itemsVars, openVars>>
ItemsStep ==
    /\ part = "items" /\ ItemsNext
    /\ UNCHANGED <<part, allVars, monstersVars, spawnsVars, decayVars, openVars>>
OpenStep ==
    /\ part = "open" /\ OpenNext
    /\ UNCHANGED <<part, allVars, monstersVars, spawnsVars, decayVars, itemsVars>>

WorldNext ==
    WalkStep \/ MonstersStep \/ SpawnsStep \/ DecayStep \/ ItemsStep \/ OpenStep

WorldSpec == WorldInit /\ [][WorldNext]_partsVars

-----------------------------------------------------------------------------
(* The properties that take long, looked at where they can fail.           *)

\* WeightsExact: the weights a container and a player have cached are those of
\* what is in them.
CachedWeightsExact == part = "items" => WeightsExact

\* MovesConserve: moving items about neither makes nor destroys any.
ItemsConserved == [][part = "items" => MoveConserves]_partsVars
=============================================================================
