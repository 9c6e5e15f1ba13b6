SPECIFICATION Spec
CONSTANTS
    None = None
    s1 = s1
    s2 = s2
    l1 = l1
    l2 = l2
    l3 = l3
    k1 = k1
    k2 = k2
    Runs = {r1, r2}
    Scheduler = r1
    Admins = {a1, a2}
    Sales = {s1, s2}
    Lines = {l1, l2, l3}
    Skus = {k1}
    Printings = {p1, p2}
    SaleOf <- ThreeLineSaleOf
    SkuOf <- ThreeLineSkuOf
    Ops = {"create", "update", "delete"}
    Pulls = TRUE
    MappingAlone = FALSE
    MaxRequests = 3
    MaxStops = 1
SYMMETRY RunSymmetry
CONSTRAINT Within
INVARIANTS
    LinesPostedOnce
    NoSaleMissed
PROPERTIES
    ImplementsSalePosting
    ResolvedLinesFrozen
