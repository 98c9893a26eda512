------------------------------- MODULE Market -------------------------------
(***************************************************************************)
(* The market (src/src/iomarket.cpp and the handlers of src/src/game.cpp   *)
(* that call it): offers to buy or to sell one kind of item, kept in a     *)
(* table of the database, paid from bank accounts and delivered to         *)
(* inboxes.                                                                *)
(*                                                                         *)
(* A player who is in the world has his account in memory and writes it to *)
(* the database when he leaves; an account that nobody has loaded is       *)
(* changed in the database.  The offers that have run out are looked up by *)
(* the thread of the database and settled later by the dispatcher, while   *)
(* players go on accepting and cancelling them.  Statements of the         *)
(* database succeed.                                                       *)
(***************************************************************************)
EXTENDS Base, Integers, SequencesExt

CONSTANTS
    Trader,
    OfferId,        \* the ids the table gives out, in order: 1 .. n
    Price,
    Amount,         \* the amounts players ask for
    Gold, Goods,    \* what every trader owns at first
    FeeShare, MinFee, MaxFee,   \* the fee is a share of the price within two limits
    MaxOffersOfPlayer,          \* MAX_MARKET_OFFERS_AT_A_TIME_PER_PLAYER
    MaxChecks,      \* bound: the checks for offers that have run out
    MaxLogins       \* bound: the logins in all

ASSUME MarketAssumption ==
    /\ IsFiniteSet(Trader) /\ OfferId = 1 .. Cardinality(OfferId)
    /\ Price \cup Amount \subseteq Nat \ {0}
    /\ {Gold, Goods, MinFee, MaxFee, MaxOffersOfPlayer, MaxChecks, MaxLogins} \subseteq Nat
    /\ FeeShare \in Nat \ {0}
    /\ None \notin Trader \cup OfferId \cup [gold : Nat, goods : Nat]

VARIABLES
    row,        \* the accounts in the database
    loaded,     \* the accounts in memory: of those who are in the world
    inMarket,   \* Player::inMarket
    offers,     \* the table market_offers
    nextId,     \* its next id
    selects,    \* queries for expired offers that wait for the database thread
    results,    \* their results that wait for the dispatcher
    budget,     \* bound: checks and logins so far
    fees        \* history: the fees paid

marketVars == <<row, loaded, inMarket, offers, nextId, selects, results, budget, fees>>

Account == [gold : Nat, goods : Nat]
Offer == [id : OfferId, owner : Trader, type : {"buy", "sell"}, amount : Nat, price : Price, old : BOOLEAN]

MarketTypeOK ==
    /\ row \in [Trader -> Account] /\ loaded \in [Trader -> Account \cup {None}]
    /\ inMarket \subseteq {p \in Trader : loaded[p] # None}
    /\ offers \subseteq Offer /\ nextId \in Nat
    /\ selects \in 0 .. MaxChecks /\ results \in Seq(SUBSET Offer)
    /\ budget \in [checks : 0 .. MaxChecks, logins : 0 .. MaxLogins] /\ fees \in Nat

MarketInit ==
    /\ row = [p \in Trader |-> [gold |-> Gold, goods |-> Goods]]
    /\ loaded = [p \in Trader |-> None]
    /\ inMarket = {} /\ offers = {} /\ nextId = 1
    /\ selects = 0 /\ results = <<>>
    /\ budget = [checks |-> 0, logins |-> 0] /\ fees = 0

-----------------------------------------------------------------------------
(* Accounts, in memory and in the database.                                *)

Accounts == [row |-> row, loaded |-> loaded]
AccountOf(a, p) == IF a.loaded[p] # None THEN a.loaded[p] ELSE a.row[p]

\* getPlayerByGUID, and increaseBankBalance or loadPlayerById and savePlayer
\* for a player who is not in the world.
Credit(a, p, gold, goods) ==
    IF a.loaded[p] # None
    THEN [a EXCEPT !.loaded[p] = [gold |-> @.gold + gold, goods |-> @.goods + goods]]
    ELSE [a EXCEPT !.row[p] = [gold |-> @.gold + gold, goods |-> @.goods + goods]]

SetAccounts(a) == row' = a.row /\ loaded' = a.loaded

Clamp(n, low, high) == IF n < low THEN low ELSE IF n > high THEN high ELSE n
Fee(price, amount) == Clamp((price * amount) \div FeeShare, MinFee, MaxFee)

\* What is tied up in an offer.
GoldIn(o) == IF o.type = "buy" THEN o.price * o.amount ELSE 0
GoodsIn(o) == IF o.type = "sell" THEN o.amount ELSE 0

-----------------------------------------------------------------------------
(* The handlers of the game.                                               *)

\* The market opens for a player at a depot: sendMarketEnter.
EnterMarket(p) ==
    /\ loaded[p] # None
    /\ inMarket' = inMarket \cup {p}
    /\ UNCHANGED <<row, loaded, offers, nextId, selects, results, budget, fees>>

\* playerLeaveMarket, and every step the player takes
LeaveMarket(p) ==
    /\ inMarket' = inMarket \ {p}
    /\ UNCHANGED <<row, loaded, offers, nextId, selects, results, budget, fees>>

\* playerCreateMarketOffer
PlayerCreateMarketOffer(p, type, amount, price) ==
    LET fee == Fee(price, amount)
        gold == fee + IF type = "buy" THEN price * amount ELSE 0
        goods == IF type = "sell" THEN amount ELSE 0
    IN /\ p \in inMarket /\ nextId \in OfferId
       /\ MaxOffersOfPlayer # 0 => Cardinality({o \in offers : o.owner = p}) < MaxOffersOfPlayer
       /\ gold <= loaded[p].gold
       /\ goods <= loaded[p].goods
       /\ SetAccounts(Credit(Accounts, p, -gold, -goods))
       /\ offers' = offers \cup {[id |-> nextId, owner |-> p, type |-> type,
                                  amount |-> amount, price |-> price, old |-> FALSE]}
       /\ nextId' = nextId + 1
       /\ fees' = fees + fee
       /\ UNCHANGED <<inMarket, selects, results, budget>>

\* playerCancelMarketOffer
PlayerCancelMarketOffer(p, o) ==
    /\ p \in inMarket /\ o.owner = p
    /\ SetAccounts(Credit(Accounts, p, GoldIn(o), GoodsIn(o)))
    /\ offers' = offers \ {o}
    /\ UNCHANGED <<inMarket, nextId, selects, results, budget, fees>>

\* deleteOffer or acceptOffer
Reduce(o, amount) ==
    offers' = (offers \ {o}) \cup
        IF o.amount = amount THEN {} ELSE {[o EXCEPT !.amount = @ - amount]}

\* The account of the one who accepts an offer to sell, and the seller's.
SettleAccept(p, o, amount) ==
    Credit(Credit(Accounts, p, -(o.price * amount), amount), o.owner, o.price * amount, 0)

\* playerAcceptMarketOffer, an offer to sell
AcceptSellOffer(p, o, amount) ==
    /\ p \in inMarket /\ o.type = "sell" /\ amount <= o.amount
    /\ o.price * amount <= loaded[p].gold
    /\ SetAccounts(SettleAccept(p, o, amount))
    /\ Reduce(o, amount)
    /\ UNCHANGED <<inMarket, nextId, selects, results, budget, fees>>

\* playerAcceptMarketOffer, an offer to buy: the price was paid beforehand.
AcceptBuyOffer(p, o, amount) ==
    /\ p \in inMarket /\ o.type = "buy" /\ amount <= o.amount
    /\ amount <= loaded[p].goods
    /\ SetAccounts(Credit(Credit(Accounts, p, o.price * amount, -amount), o.owner, 0, amount))
    /\ Reduce(o, amount)
    /\ UNCHANGED <<inMarket, nextId, selects, results, budget, fees>>

-----------------------------------------------------------------------------
(* Offers that have run out.                                               *)

\* Time passes.
RunOut(o) ==
    /\ ~o.old
    /\ offers' = (offers \ {o}) \cup {[o EXCEPT !.old = TRUE]}
    /\ UNCHANGED <<row, loaded, inMarket, nextId, selects, results, budget, fees>>

\* checkExpiredOffers, at the start and every few minutes
CheckExpiredOffers ==
    /\ budget.checks < MaxChecks
    /\ budget' = [budget EXCEPT !.checks = @ + 1]
    /\ selects' = selects + 1
    /\ UNCHANGED <<row, loaded, inMarket, offers, nextId, results, fees>>

\* The thread of the database runs the query and hands its result over.
RunSelect ==
    /\ selects > 0
    /\ selects' = selects - 1
    /\ results' = Append(results, {o \in offers : o.old})
    /\ UNCHANGED <<row, loaded, inMarket, offers, nextId, budget, fees>>

\* Faulty: nobody looks whether the offer is still there.
StillThere_Unchecked(found) == found
\* moveOfferToHistory: the offers of a result that are still in the table.
StillThere(found) == {o \in found : \E t \in offers : t.id = o.id}

\* processExpiredOffers
ProcessExpiredOffers ==
    /\ results # <<>>
    /\ LET settled == StillThere(Head(results))
       IN /\ SetAccounts(FoldSet(LAMBDA o, a : Credit(a, o.owner, GoldIn(o), GoodsIn(o)), Accounts, settled))
          /\ offers' = {t \in offers : \A o \in settled : t.id # o.id}
    /\ results' = Tail(results)
    /\ UNCHANGED <<inMarket, nextId, selects, budget, fees>>

-----------------------------------------------------------------------------
TraderLogsIn(p) ==
    /\ loaded[p] = None /\ budget.logins < MaxLogins
    /\ budget' = [budget EXCEPT !.logins = @ + 1]
    /\ loaded' = [loaded EXCEPT ![p] = row[p]]
    /\ UNCHANGED <<row, inMarket, offers, nextId, selects, results, fees>>

\* Player::onRemoveCreature saves the player.
TraderLogsOut(p) ==
    /\ loaded[p] # None
    /\ row' = [row EXCEPT ![p] = loaded[p]]
    /\ loaded' = [loaded EXCEPT ![p] = None]
    /\ inMarket' = inMarket \ {p}
    /\ UNCHANGED <<offers, nextId, selects, results, budget, fees>>

MarketNext ==
    \/ \E p \in Trader :
        \/ EnterMarket(p)
        \/ LeaveMarket(p)
        \/ \E type \in {"buy", "sell"}, n \in Amount, price \in Price :
               PlayerCreateMarketOffer(p, type, n, price)
        \/ \E o \in offers :
            \/ PlayerCancelMarketOffer(p, o)
            \/ \E n \in Amount : AcceptSellOffer(p, o, n) \/ AcceptBuyOffer(p, o, n)
        \/ TraderLogsIn(p)
        \/ TraderLogsOut(p)
    \/ \E o \in offers : RunOut(o)
    \/ CheckExpiredOffers
    \/ RunSelect
    \/ ProcessExpiredOffers

MarketSpec == MarketInit /\ [][MarketNext]_marketVars

-----------------------------------------------------------------------------
TotalGold == SumFunction([p \in Trader |-> AccountOf(Accounts, p).gold])
             + SumFunction([o \in offers |-> GoldIn(o)])
TotalGoods == SumFunction([p \in Trader |-> AccountOf(Accounts, p).goods])
              + SumFunction([o \in offers |-> GoodsIn(o)])

\* The result that comes next tells of an offer that was accepted in part since.
Outdated ==
    /\ results # <<>>
    /\ \E o \in Head(results), t \in offers : t.id = o.id /\ t.amount # o.amount

\* Nothing is made or lost by trading: whatever the order in which an offer is
\* accepted, cancelled and found to have run out, it is settled once, and gold
\* and goods are moved and never made, but for the fee.  The exception is an
\* offer that is accepted in part between the query and the settlement: the
\* owner gets what it held when the query ran.
NothingIsMade ==
    \/ Outdated /\ results' = Tail(results)
    \/ TotalGold' + fees' = TotalGold + fees /\ TotalGoods' = TotalGoods
NothingFromNothing == [][NothingIsMade]_marketVars

\* Nobody spends what he does not have, and an offer in the table offers
\* something and is one of a kind.
NoDebts ==
    /\ \A p \in Trader : AccountOf(Accounts, p).gold >= 0 /\ AccountOf(Accounts, p).goods >= 0
    /\ \A o \in offers : o.amount > 0 /\ \A t \in offers : t.id = o.id => t = o
=============================================================================
