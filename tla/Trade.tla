------------------------------- MODULE Trade -------------------------------
(***************************************************************************)
(* Two players trade: each offers gold and positions of its inventory, and *)
(* when both have accepted the server exchanges the offers.  The handlers  *)
(* run on the world thread, but for the cancelling of a trade, which the   *)
(* thread that updates the player's map may process (PROCESS_INPLACE and,  *)
(* with the start of a flight, PROCESS_THREADSAFE), while another thread   *)
(* does the same for the partner on another map.                           *)
(*                                                                         *)
(* An item takes one position; stacks, bags and items of which a player    *)
(* may have only one are left out.                                         *)
(***************************************************************************)
EXTENDS Integers, FiniteSets

CONSTANTS
    Players,
    Items,
    None,           \* no player, no item, no position
    Maps,
    Positions,      \* the positions of the largest inventory
    Capacity,       \* how many of them each player has
    Traded,         \* TRADE_SLOT_TRADED_COUNT
    MAX_MONEY_AMOUNT,
    Bindable,       \* the items that may become soulbound
    MayEarn         \* players may win and spend gold outside of the trade

ASSUME TradeAssumption ==
    /\ None \notin Players \cup Items \cup Int
    /\ Positions \subseteq Nat /\ IsFiniteSet(Positions)
    /\ Capacity \in [Players -> Nat]
    /\ Traded \in Nat /\ MAX_MONEY_AMOUNT \in Nat
    /\ Bindable \subseteq Items
    /\ MayEarn \in BOOLEAN

Room(p) == {s \in Positions : s <= Capacity[p]}
TradedSlots == 1..Traded
TradeSlots == 1..(Traded + 1)   \* the last one is shown and not exchanged

VARIABLES
    phase,          \* "world", or "maps" while the maps are updated
    online,         \* the players in the world
    place,          \* the map each player is on
    pTrader, acceptTrade, tradeGold, tradeItems,
    inventory, money, soulbound,
    cancelling,     \* where in TradeCancel a map thread is, for each player
    crashed         \* a thread has followed a pTrader that was NULL

tradeVars == <<pTrader, acceptTrade, tradeGold, tradeItems>>
goods == <<inventory, money, soulbound>>
whereVars == <<phase, online, place>>
mapVars == <<cancelling, crashed>>
vars == <<whereVars, tradeVars, goods, mapVars>>

NoItems == [i \in TradeSlots |-> None]

Init ==
    /\ phase = "world"
    /\ online = Players
    /\ place \in [Players -> Maps]
    /\ pTrader = [p \in Players |-> None]
    /\ acceptTrade = [p \in Players |-> FALSE]
    /\ tradeGold = [p \in Players |-> 0]
    /\ tradeItems = [p \in Players |-> NoItems]
    /\ inventory = [p \in Players |-> [s \in Positions |-> None]]
    /\ money = [p \in Players |-> 0]
    /\ soulbound = {}
    /\ cancelling = [p \in Players |-> "no"]
    /\ crashed = FALSE

Running == phase = "world" /\ ~crashed
Trading(p) == Running /\ pTrader[p] # None

-----------------------------------------------------------------------------
(* The beginning of a trade and the offers.                                *)

\* Why a trade may be refused otherwise (death, distance, faction, ...)
\* depends on neither the trade nor the goods.
MayTrade(p, q) == p # q /\ pTrader[p] = None /\ pTrader[q] = None

InitiateTrade(p, q) ==
    /\ Running /\ {p, q} \subseteq online
    /\ MayTrade(p, q)
    /\ pTrader' = [pTrader EXCEPT ![p] = q, ![q] = p]
    /\ UNCHANGED <<whereVars, acceptTrade, tradeGold, tradeItems, goods, mapVars>>

\* ClearTrade of the players ps
ClearTrade(ps) ==
    /\ acceptTrade' = [p \in Players |-> p \notin ps /\ acceptTrade[p]]
    /\ tradeGold' = [p \in Players |-> IF p \in ps THEN 0 ELSE tradeGold[p]]
    /\ tradeItems' = [p \in Players |-> IF p \in ps THEN NoItems ELSE tradeItems[p]]

BeginTrade(p) ==
    /\ Trading(p)
    /\ ClearTrade({p, pTrader[p]})
    /\ UNCHANGED <<whereVars, pTrader, goods, mapVars>>

SendUpdateTradeMutant(p) ==
    acceptTrade' = [acceptTrade EXCEPT ![p] = FALSE]

\* SendUpdateTrade of the session of p: nobody has accepted any more.
SendUpdateTrade(p) ==
    acceptTrade' = [acceptTrade EXCEPT ![p] = FALSE, ![pTrader[p]] = FALSE]

OfferChanges(p) ==
    /\ SendUpdateTrade(pTrader[p])
    /\ UNCHANGED <<whereVars, pTrader, goods, mapVars>>

\* Any amount: it is compared with the money when the trade is accepted.
SetTradeGold(p, gold) ==
    /\ Trading(p)
    /\ tradeGold' = [tradeGold EXCEPT ![p] = gold]
    /\ UNCHANGED tradeItems
    /\ OfferChanges(p)

CanBeTraded(item) == item \notin soulbound
OfferedMutant(p, s) == \E i \in TradeSlots \ {1} : tradeItems[p][i] = s
Offered(p, s) == \E i \in TradeSlots : tradeItems[p][i] = s

SetTradeItem(p, i, s) ==
    /\ Trading(p)
    /\ inventory[p][s] # None
    /\ i \in TradedSlots => CanBeTraded(inventory[p][s])
    /\ ~Offered(p, s)
    /\ tradeItems' = [tradeItems EXCEPT ![p][i] = s]
    /\ UNCHANGED tradeGold
    /\ OfferChanges(p)

ClearTradeItem(p, i) ==
    /\ Trading(p)
    /\ tradeItems' = [tradeItems EXCEPT ![p][i] = None]
    /\ UNCHANGED tradeGold
    /\ OfferChanges(p)

-----------------------------------------------------------------------------
(* The acceptance and the exchange.                                        *)

EnoughGold(p) == tradeGold[p] <= money[p]

\* What p gives in each traded slot, and its inventory without that.
Given(p) == [i \in TradedSlots |->
    IF tradeItems[p][i] = None THEN None ELSE inventory[p][tradeItems[p][i]]]
Remaining(p) == [s \in Positions |->
    IF \E i \in TradedSlots : tradeItems[p][i] = s THEN None ELSE inventory[p][s]]

\* An item offered in a traded slot is gone, or bound since it was offered.
BadOffer(p) == \E i \in TradedSlots :
    /\ tradeItems[p][i] # None
    /\ \/ Given(p)[i] = None
       \/ ~CanBeTraded(Given(p)[i])

\* HandleAcceptTradeOpcode up to where it sets acceptTrade.  With a bad offer
\* it returns without a change.
NotEnoughGold(p, q) ==
    /\ Trading(p)
    /\ \/ q = p
       \/ q = pTrader[p] /\ EnoughGold(p)
    /\ ~EnoughGold(q)
    /\ acceptTrade' = [acceptTrade EXCEPT ![q] = FALSE]
    /\ UNCHANGED <<whereVars, pTrader, tradeGold, tradeItems, goods, mapVars>>

Acceptable(p) ==
    /\ Trading(p)
    /\ EnoughGold(p) /\ EnoughGold(pTrader[p])
    /\ ~BadOffer(p) /\ ~BadOffer(pTrader[p])

\* CanStoreItems of q for what p gives: the positions of the items with the
\* 'in-trade' flag count as free.
CanStoreItems(q, p) ==
    Cardinality({i \in TradedSlots : Given(p)[i] # None})
        <= Cardinality({s \in Room(q) : Remaining(q)[s] = None})
CanCompleteMutant(p, q) == CanStoreItems(q, p)
CanComplete(p, q) == CanStoreItems(q, p) /\ CanStoreItems(p, q)

\* The partner has not accepted, or the items do not fit.
Accept(p) ==
    /\ Acceptable(p)
    /\ acceptTrade[pTrader[p]] => ~CanComplete(p, pTrader[p])
    /\ acceptTrade' = [acceptTrade EXCEPT ![p] = TRUE]
    /\ UNCHANGED <<whereVars, pTrader, tradeGold, tradeItems, goods, mapVars>>

HasRoom(p, inv, item) == item # None => \E s \in Room(p) : inv[s] = None

\* An item that does not fit is lost.
Store(p, inv, item) ==
    IF item = None \/ ~HasRoom(p, inv, item) THEN inv
    ELSE LET s == CHOOSE s \in Room(p) :
                     /\ inv[s] = None
                     /\ \A t \in Room(p) : inv[t] = None => s <= t
         IN  [inv EXCEPT ![s] = item]

\* moveItems: the inventories <<mine, his>> after the first i slots.
MoveItems(p, q) ==
    LET moved[i \in 0..Traded] ==
          IF i = 0 THEN <<Remaining(p), Remaining(q)>>
          ELSE LET mine == moved[i - 1][1]  his == moved[i - 1][2]
                   my == Given(p)[i]        hs == Given(q)[i]
               IN  IF HasRoom(q, his, my) /\ HasRoom(p, mine, hs)
                   THEN <<Store(p, mine, hs), Store(q, his, my)>>
                   ELSE <<Store(p, mine, my), Store(q, his, hs)>>
    IN  moved[Traded]

\* ModifyMoney(-d) and ModifyMoney(d)
LessMoney(m, d) == IF m > d THEN m - d ELSE 0
MoreMoneyMutant(m, d) == m + d
MoreMoney(m, d) == IF m < MAX_MONEY_AMOUNT - d THEN m + d ELSE MAX_MONEY_AMOUNT

Exchange(p) ==
    LET q == pTrader[p] IN
    /\ Acceptable(p)
    /\ acceptTrade[q] /\ CanComplete(p, q)
    /\ inventory' = [inventory EXCEPT ![p] = MoveItems(p, q)[1], ![q] = MoveItems(p, q)[2]]
    /\ money' = [money EXCEPT ![p] = MoreMoney(LessMoney(money[p], tradeGold[p]), tradeGold[q]),
                              ![q] = MoreMoney(LessMoney(money[q], tradeGold[q]), tradeGold[p])]
    /\ ClearTrade({p, q})
    /\ pTrader' = [pTrader EXCEPT ![p] = None, ![q] = None]
    /\ UNCHANGED <<whereVars, soulbound, mapVars>>

UnacceptTrade(p) ==
    /\ Trading(p)
    /\ acceptTrade' = [acceptTrade EXCEPT ![p] = FALSE]
    /\ UNCHANGED <<whereVars, pTrader, tradeGold, tradeItems, goods, mapVars>>

-----------------------------------------------------------------------------
(* The end of a trade.                                                     *)

CancelledMutant(p) ==
    IF pTrader[p] = None THEN UNCHANGED tradeVars
    ELSE /\ ClearTrade({p, pTrader[p]})
         /\ pTrader' = [pTrader EXCEPT ![p] = None]

\* TradeCancel on the world thread, where nothing comes between its steps.
Cancelled(p) ==
    IF pTrader[p] = None THEN UNCHANGED tradeVars
    ELSE /\ ClearTrade({p, pTrader[p]})
         /\ pTrader' = [pTrader EXCEPT ![p] = None, ![pTrader[p]] = None]

CancelTrade(p) ==
    /\ Trading(p)
    /\ Cancelled(p)
    /\ UNCHANGED <<whereVars, goods, mapVars>>

\* CleanupsBeforeDelete and the deletion of the player, which may log in again.
Logout(p) ==
    /\ Running /\ p \in online
    /\ Cancelled(p)
    /\ online' = online \ {p}
    /\ UNCHANGED <<phase, place, goods, mapVars>>

Login(p, m) ==
    /\ Running /\ p \notin online
    /\ online' = online \cup {p}
    /\ place' = [place EXCEPT ![p] = m]
    /\ UNCHANGED <<phase, tradeVars, goods, mapVars>>

\* A trade goes on when a player leaves for another map.
Teleport(p, m) ==
    /\ Running /\ p \in online
    /\ place' = [place EXCEPT ![p] = m]
    /\ UNCHANGED <<phase, online, tradeVars, goods, mapVars>>

\* MapManager::Update: the maps are updated between two barriers.  Nothing is
\* cancelled where nobody trades.
UpdateMaps ==
    /\ Running /\ \E p \in Players : pTrader[p] # None
    /\ phase' = "maps"
    /\ UNCHANGED <<online, place, tradeVars, goods, mapVars>>

MapsUpdated ==
    /\ phase = "maps" /\ ~crashed
    /\ \A p \in Players : cancelling[p] = "no"
    /\ phase' = "world"
    /\ UNCHANGED <<online, place, tradeVars, goods, mapVars>>

\* One thread updates a map, one session after the other.
MapBusy(m) == \E p \in online : place[p] = m /\ cancelling[p] # "no"

\* TradeCancel on a map's thread: if (pTrader) ...
CheckTrader(p) ==
    /\ phase = "maps" /\ ~crashed /\ p \in online
    /\ ~MapBusy(place[p])
    /\ pTrader[p] # None
    /\ cancelling' = [cancelling EXCEPT ![p] = "checked"]
    /\ UNCHANGED <<whereVars, tradeVars, goods, crashed>>

\* ClearTrade of both
ClearBoth(p) ==
    /\ ~crashed /\ cancelling[p] = "checked" /\ pTrader[p] # None
    /\ ClearTrade({p, pTrader[p]})
    /\ cancelling' = [cancelling EXCEPT ![p] = "cleared"]
    /\ UNCHANGED <<whereVars, pTrader, goods, crashed>>

\* pTrader->pTrader = NULL; pTrader = NULL
Unlink(p) ==
    /\ ~crashed /\ cancelling[p] = "cleared" /\ pTrader[p] # None
    /\ pTrader' = [pTrader EXCEPT ![p] = None, ![pTrader[p]] = None]
    /\ cancelling' = [cancelling EXCEPT ![p] = "no"]
    /\ UNCHANGED <<whereVars, acceptTrade, tradeGold, tradeItems, goods, crashed>>

\* The partner's thread has come first.
FollowNull(p) ==
    /\ ~crashed /\ cancelling[p] # "no" /\ pTrader[p] = None
    /\ crashed' = TRUE
    /\ UNCHANGED <<whereVars, tradeVars, goods, cancelling>>

-----------------------------------------------------------------------------
(* What else happens to the goods, on the world thread.                    *)

SwapItem(p, s, t) ==
    /\ Running /\ p \in online /\ {s, t} \subseteq Room(p)
    /\ inventory' = [inventory EXCEPT ![p][s] = inventory[p][t], ![p][t] = inventory[p][s]]
    /\ UNCHANGED <<whereVars, tradeVars, money, soulbound, mapVars>>

\* An item is found, bought or received, or is sold, mailed or destroyed.
ItemComes(p, s, item) ==
    /\ Running /\ p \in online /\ s \in Room(p) /\ inventory[p][s] = None
    /\ \A q \in Players, t \in Positions : inventory[q][t] # item
    /\ inventory' = [inventory EXCEPT ![p][s] = item]
    /\ UNCHANGED <<whereVars, tradeVars, money, soulbound, mapVars>>

ItemGoes(p, s) ==
    /\ Running /\ p \in online /\ inventory[p][s] # None
    /\ inventory' = [inventory EXCEPT ![p][s] = None]
    /\ soulbound' = soulbound \ {inventory[p][s]}
    /\ UNCHANGED <<whereVars, tradeVars, money, mapVars>>

BindItem(p, s) ==
    /\ Running /\ p \in online /\ inventory[p][s] \in Bindable \ soulbound
    /\ soulbound' = soulbound \cup {inventory[p][s]}
    /\ UNCHANGED <<whereVars, tradeVars, inventory, money, mapVars>>

ModifyMoney(p, m) ==
    /\ MayEarn /\ Running /\ p \in online
    /\ money' = [money EXCEPT ![p] = m]
    /\ UNCHANGED <<whereVars, tradeVars, inventory, soulbound, mapVars>>

-----------------------------------------------------------------------------

\* Bound: the amounts of gold that are offered.
Gold == 0..MAX_MONEY_AMOUNT

Next ==
    \/ UpdateMaps \/ MapsUpdated
    \/ \E p \in Players :
          \/ BeginTrade(p) \/ Accept(p) \/ Exchange(p) \/ UnacceptTrade(p)
          \/ CancelTrade(p) \/ Logout(p)
          \/ CheckTrader(p) \/ ClearBoth(p) \/ Unlink(p) \/ FollowNull(p)
          \/ \E q \in Players : InitiateTrade(p, q) \/ NotEnoughGold(p, q)
          \/ \E gold \in Gold : SetTradeGold(p, gold)
          \/ \E m \in 0..MAX_MONEY_AMOUNT : ModifyMoney(p, m)
          \/ \E m \in Maps : Login(p, m) \/ Teleport(p, m)
          \/ \E i \in TradeSlots : ClearTradeItem(p, i)
          \/ \E s \in Positions :
                \/ ItemGoes(p, s) \/ BindItem(p, s)
                \/ \E i \in TradeSlots : SetTradeItem(p, i, s)
                \/ \E t \in Positions : SwapItem(p, s, t)
                \/ \E item \in Items : ItemComes(p, s, item)

Spec == Init /\ [][Next]_vars

-----------------------------------------------------------------------------
(* Properties.                                                             *)

\* The types of the variables.
TypeOK ==
    /\ phase \in {"world", "maps"}
    /\ online \subseteq Players
    /\ place \in [Players -> Maps]
    /\ pTrader \in [Players -> Players \cup {None}]
    /\ acceptTrade \in [Players -> BOOLEAN]
    /\ tradeGold \in [Players -> Gold]
    /\ tradeItems \in [Players -> [TradeSlots -> Positions \cup {None}]]
    /\ inventory \in [Players -> [Positions -> Items \cup {None}]]
    /\ money \in [Players -> 0..MAX_MONEY_AMOUNT]
    /\ soulbound \subseteq Items
    /\ cancelling \in [Players -> {"no", "checked", "cleared"}]
    /\ crashed \in BOOLEAN

\* Two players trade with each other or not at all, and a player that trades
\* is in the world: no pTrader is left to a player that has gone or trades
\* with a third one, whichever thread cancels (HandleInitiateTradeOpcode,
\* TradeCancel, CleanupsBeforeDelete).
PartnersAgree == \A p, q \in Players :
    pTrader[p] = q => p # q /\ pTrader[q] = p /\ {p, q} \subseteq online

\* What p sets and, under the positions it offers, what its partner is shown.
Terms(p) == <<tradeGold[p], tradeItems[p]>>
Shown(p) == [i \in TradeSlots |->
    IF tradeItems[p][i] = None THEN None ELSE inventory[p][tradeItems[p][i]]]

\* p moves an item in its inventory, or gets or loses one outside of the trade.
MovesItems(p) == \E s \in Positions :
    \/ ItemGoes(p, s)
    \/ \E t \in Positions : SwapItem(p, s, t)
    \/ \E item \in Items : ItemComes(p, s, item)

OfferStands(p) == UNCHANGED Terms(p) /\ (UNCHANGED Shown(p) \/ MovesItems(p))

AcceptanceStands == \A p \in Players :
    acceptTrade[p] /\ acceptTrade'[p] =>
        /\ UNCHANGED pTrader[p] /\ OfferStands(p)
        /\ \A q \in Players : pTrader[p] = q => OfferStands(q)

\* While an acceptance stands, the partner, the gold, the positions and the items
\* at the positions offered by either stay as they are, whatever the handlers of
\* the trade, a third player or a map's thread do.  One case is left, which a
\* comment in HandleAcceptTradeOpcode knows of: the items are offered by position,
\* so their owner may put another item at an offered position, and no acceptance
\* is reset (SendUpdateTrade, ClearTrade, TradeCancel, HandleAcceptTradeOpcode).
AcceptanceIsOfTheOffers == [][AcceptanceStands]_vars

\* Whatever is offered, swapped, exchanged or cancelled, an item is in one
\* position of one player (HandleSetTradeItemOpcode, moveItems).
NoItemTwice == \A p, q \in Players : \A s, t \in Positions :
    inventory[p][s] = inventory[q][t] /\ inventory[p][s] # None => p = q /\ s = t

\* A thread follows a pTrader that another thread has reset only if the two
\* players are on different maps: on one map their cancelling is in turn
\* (Player::TradeCancel, Map::Update).
OnlyMapsApartCollide == crashed =>
    \E p, q \in Players : cancelling[p] # "no" /\ place[p] # place[q]

\* Two threads that cancel or two slots that hold the same do no harm but the
\* known one (the two above).
TradeIsSound == NoItemTwice /\ OnlyMapsApartCollide

Held(inv) == {inv[s] : s \in Positions} \ {None}
Gives(p) == {Given(p)[i] : i \in TradedSlots} \ {None}
Capped(m) == IF m > MAX_MONEY_AMOUNT THEN MAX_MONEY_AMOUNT ELSE m

Exchanged(p, q) ==
    /\ Held(inventory'[p]) = (Held(inventory[p]) \ Gives(p)) \cup Gives(q)
    /\ money'[p] = Capped(money[p] - tradeGold[p] + tradeGold[q])
    /\ pTrader'[p] = None

\* When a player accepts, either no goods change hands or all do that are offered:
\* each player gives just what lies at the positions it offers at that moment and
\* gets just what its partner gives, but for the gold above the limit
\* (HandleAcceptTradeOpcode).
ExchangeIsWhole == [][\A p \in Players : (Accept(p) \/ Exchange(p)) =>
    \/ UNCHANGED goods
    \/ Exchanged(p, pTrader[p]) /\ Exchanged(pTrader[p], p)]_vars

=============================================================================
