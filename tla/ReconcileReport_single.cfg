SPECIFICATION Spec
CONSTANTS
    None = None
    k1 = k1
    k2 = k2
    p1 = p1
    p2 = p2
    Runs = {r1}
    Scheduler = r1
    Users = {u1}
    Skus = {k1, k2}
    Printings = {p1, p2}
    PrintingOf <- OwnPrintings
    Quantities <- NegativeToOne
    Resolutions = {"accept_pos"}
    Pulls = TRUE
    Pushes = FALSE
    MaxStarts = 0
    MaxFailures = 0
    MaxStops = 1
    MaxChanges = 1
    MaxSwitches = 0
SYMMETRY SkusAlike
CHECK_DEADLOCK FALSE
INVARIANTS
    ReportCoversMismatches
    NoDoubleCount
    CompletedCountsExact
