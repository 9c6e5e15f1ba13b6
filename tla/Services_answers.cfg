SPECIFICATION MCSpec
CONSTANTS
    None = None
    NoPrice = NoPrice
    Missing = Missing
    k1 = k1
    k2 = k2
    g1 = g1
    g2 = g2
    r1 = r1
    r2 = r2
    Certs = {g1, g2}
    Unsupported = {g2}
    Names = {t1, t2}
    Instances = {i1}
    Lookups = {q1, q2}
    CacheTtl = 1
    LastMinute = 2
    Printings = {r1, r2}
    TcgPrices <- TcgPrices2
    Shelves <- Shelves3
    Daily = Daily
    OnDemand = {o1}
    RefreshHours = 2
    StaleHours = 3
    LastHour = 7
    MaxMissed = 2
    Cards = {1, 2, 3}
    Texts = {"pika", "name:pika"}
    Typed = {"pika"}
    ApiFinds <- ApiFinds2
    NamesWith <- NamesWith2
    Limits = {1, 2, 3}
    MaxPageSize = 2
    CacheDays = 2
    Walkers = {q1, q2}
    LastDay = 3
    Shop = Shop
    PageLimit = 2
    Conns = {1, 2, 3}
    Workspaces = {w1, w2}
    Merchants = {m1, m2}
    Tokens = {t1, t2}
    Requests = {q1, q2}
    OrderLists <- SomeOrders
    Catalogs <- SomeCatalogs
SYMMETRY Symmetry
INVARIANTS
    AnswersFresh
    VerdictRecorded
    PricesRenewed
    HistoryBehindPrice
    SearchComplete
    ActiveUsable
    CancelledConnectsNothing
    ReadBack
CHECK_DEADLOCK FALSE
