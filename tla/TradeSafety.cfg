\* Two players on two maps, one item that may be bound and one that may not,
\* an inventory of one position and one of two,
\* two traded slots and one that is only shown.
CONSTANTS
    p1 = p1
    p2 = p2
    Players = {p1, p2}
    Items = {sword, shield}
    None = None
    Maps = {m1, m2}
    Positions = {1, 2}
    Capacity <- Sizes
    Traded = 2
    MAX_MONEY_AMOUNT = 1
    Bindable = {sword}
    MayEarn = TRUE
SPECIFICATION Spec
SYMMETRY Symmetry
INVARIANTS
    TypeOK
    PartnersAgree
    TradeIsSound
PROPERTIES
    ExchangeIsWhole
    AcceptanceIsOfTheOffers
\* A thread that follows a NULL pointer ends the process.
CHECK_DEADLOCK FALSE
