SPECIFICATION FairSpec
CONSTANTS
    None = None
    k1 = k1
    k2 = k2
    p1 = p1
    p2 = p2
    Runs = {r1, r2}
    Scheduler = r1
    Users = {}
    Skus = {k1}
    Printings = {p1}
    PrintingOf <- OneSku
    Quantities <- ZeroToOne
    Resolutions = {"accept_pos"}
    Pulls = TRUE
    Pushes = TRUE
    MaxStarts = 2
    MaxFailures = 2
    MaxStops = 1
    MaxChanges = 0
    MaxSwitches = 2
CHECK_DEADLOCK FALSE
INVARIANTS
    QuietReportSettled
PROPERTIES
    ReportSettles
