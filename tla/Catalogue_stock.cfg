SPECIFICATION MCSpec
CONSTANTS
    None = None
    Gone = Gone
    Absent = Absent
    p1 = p1
    n1 = n1
    n2 = n2
    g1 = g1
    Items = {i1, i2, i3}
    Printings = {p1}
    Conditions = {n1, n2}
    Certs = {g1}
    Costs = {1}
    Clients = {c1, c2}
    Requests = {q1, q2}
    MaxQuantity = 2
    MaxTime = 4
    Jobs = {j1}
    Exports = {e1}
    Files <- Files2
    Filters <- Filters2
    ProgressEvery = 2
    Sets = {"s1", "s2"}
    SetOf <- SetOf2
    Ids = {1, 2, 3}
    Ranks = {1, 2}
    PageSize = 1
    Milli = 2
    LastTime = 3
    Nothing = Nothing
    Unsent = Unsent
    all = all
    raw = raw
    StockRows = {1, 2, 3}
    Views = {all, raw}
    Listing <- Listing2
    PerPage = 2
    Fetches = {c1, c2}
    Bulks = {q1, q2}
    Discs = {c1, c2}
    Answers = {"accept_pos", "investigate"}
    Posts = {q1, q2}
SYMMETRY Symmetry
INVARIANTS
    ImportExact
    ExportComplete
    PagesComplete
    ListFaithful
    BannerTrue
PROPERTIES
    NoLostEdit
CHECK_DEADLOCK FALSE
