SPECIFICATION FairSpec
CONSTANTS
    None = None
    s1 = s1
    s2 = s2
    l1 = l1
    l2 = l2
    l3 = l3
    k1 = k1
    k2 = k2
    Runs = {r1, r2}
    Scheduler = r1
    Admins = {a1}
    Sales = {s1, s2}
    Lines = {l1, l2}
    Skus = {k1}
    Printings = {p1}
    SaleOf <- OneSkuSaleOf
    SkuOf <- OneSkuSkuOf
    Ops = {"create", "delete"}
    Pulls = FALSE
    MappingAlone = TRUE
    MaxRequests = 3
    MaxStops = 1
INVARIANTS
    NoLineChargedTwice
    QuietLedgerExact
PROPERTIES
    EventuallyRecorded
