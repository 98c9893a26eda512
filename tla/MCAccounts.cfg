SPECIFICATION AccountsSpec
CONSTANTS
    None = None
    \* GameSession
    Protocol = {p, q, r}
    \* Market
    Trader = {a, b}
    OfferId = {1, 2}
    Price = {1}
    Amount = {1, 2}
    Gold = 2
    Goods = 2
    FeeShare = 2
    MinFee = 1
    MaxFee = 2
    MaxOffersOfPlayer = 2
    MaxChecks = 2
    MaxLogins = 2
    \* Storage
    Player = {a, b}
    Parts = 2
    Tries = 2
    MaxVersion = 1
    MaxLosses = 1
    MaxErrors = 1
    \* ClientView
    TilePos = {1, 2}
    EdgePos = {2}
    Watcher = {plain, seer}
    AccessWatcher = {seer}
    Walker = {u, v}
    Ghost = {u}
    GroundItem = {grass}
    TopItem = {blood}
    DownItem = {fire, energy}
    Splash = {blood}
    Field = {fire, energy}
    MaxShown = 3
    \* Houses
    House = {home, other}
    OpenHouse = {home}
    \* Chat
    Address = {address}
    GuildId = {guild, rankless}
    RanklessGuild = {rankless}
    PrivateId = {channel}
    MaxWindows = 1
SYMMETRY Symmetry
INVARIANTS
    RefsExact
    OneInWorld
    ClientsAreServed
    SavesAreWhole
    PicturesAreExact
    HousesAgree
    ChannelsAgree
PROPERTIES
    MarketConserves
CHECK_DEADLOCK FALSE
