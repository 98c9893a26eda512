------------------------------ MODULE Accounts ------------------------------
(***************************************************************************)
(* Players, their clients and what of theirs is kept: the sessions of      *)
(* the connections for one character, the offers and accounts of the     *)
(* market, the saving of players and houses, what clients show of the map, *)
(* houses with their lists and beds, and the channels players listen to.   *)
(* They share no state in these models: a behaviour is one of one of them, *)
(* as its first state says.                                                *)
(***************************************************************************)
EXTENDS GameSession, Market, Storage, ClientView, Houses, Chat

VARIABLE part

accountsVars == <<part, g, marketVars, storageVars, viewVars, housesVars, chatVars>>

AccountsInit ==
    /\ part \in {"session", "market", "storage", "view", "houses", "chat"}
    /\ SessionInit /\ MarketInit /\ StorageInit /\ ViewInit /\ HousesInit /\ ChatInit

SessionStep ==
    part = "session" /\ SessionNext
    /\ UNCHANGED <<part, marketVars, storageVars, viewVars, housesVars, chatVars>>
MarketStep ==
    part = "market" /\ MarketNext
    /\ UNCHANGED <<part, g, storageVars, viewVars, housesVars, chatVars>>
StorageStep ==
    part = "storage" /\ StorageNext
    /\ UNCHANGED <<part, g, marketVars, viewVars, housesVars, chatVars>>
ViewStep ==
    part = "view" /\ ViewNext
    /\ UNCHANGED <<part, g, marketVars, storageVars, housesVars, chatVars>>
HousesStep ==
    part = "houses" /\ HousesNext
    /\ UNCHANGED <<part, g, marketVars, storageVars, viewVars, chatVars>>
ChatStep ==
    part = "chat" /\ ChatNext
    /\ UNCHANGED <<part, g, marketVars, storageVars, viewVars, housesVars>>

AccountsSpec ==
    AccountsInit
    /\ [][SessionStep \/ MarketStep \/ StorageStep \/ ViewStep \/ HousesStep \/ ChatStep]_accountsVars

-----------------------------------------------------------------------------
\* NothingFromNothing: the market neither makes nor loses gold and goods.
MarketConserves == [][part = "market" => NothingIsMade]_accountsVars

\* PictureExact: the clients show the tiles as they are.
PicturesAreExact == part = "view" => PictureExact
=============================================================================
