----------------------------- MODULE MCDealings -----------------------------
(***************************************************************************)
(* Trades, parties and live casts, the dealings players have with each     *)
(* other, checked in one run.  In these models they share no state: a      *)
(* behaviour is one of one of the three, as its first state says, and the  *)
(* states of the run are those of the three, side by side.  The players    *)
(* are interchangeable and stand for the clients of the casts; so are the  *)
(* two stacks, which stand for the parties and the names of characters.    *)
(***************************************************************************)
EXTENDS Trade, Party, Casting

VARIABLE part

dealingsVars == <<part, vars, partyVars, c>>

DealingsInit == part \in {"trade", "party", "casting"} /\ Init /\ PartyInit /\ CastingInit

TradeStep == part = "trade" /\ Next /\ UNCHANGED <<part, partyVars, c>>
PartyStep == part = "party" /\ PartyNext /\ UNCHANGED <<part, vars, c>>
CastingStep == part = "casting" /\ CastingNext /\ UNCHANGED <<part, vars, partyVars>>

DealingsSpec == DealingsInit /\ [][TradeStep \/ PartyStep \/ CastingStep]_dealingsVars

-----------------------------------------------------------------------------
Symmetry == Permutations(Player) \cup Permutations(Stack)
=============================================================================
