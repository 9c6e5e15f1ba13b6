SPECIFICATION MCSpec
CONSTANTS
    None = None
    c1 = c1
    c2 = c2
    b1 = b1
    x1 = x1
    x2 = x2
    x3 = x3
    p1 = p1
    Flags = {f1, f2}
    Members = {u1, u2}
    Requests = {q1, q2}
    MaxBulk = 2
    Certs = {c1}
    Reporters = {v1, v2}
    Instances = {"i1"}
    CertOf <- CertOf1
    Purchases = {x1, x2, x3}
    Buyers = {b1}
    BuyerOf <- BuyerOf3
    Printings = {p1}
    QuantityOf <- QuantityOf3
    Configs <- Configs2
    Grace = 1
    Bits = 5
    MaxTime = 3
SYMMETRY Symmetry
INVARIANTS
    TriageRecorded
    DisputesGrounded
    OneOpenFlag
    VelocityExact
    FlagsAnnounced
    FlagsJustified
PROPERTIES
    RejectionStands
CHECK_DEADLOCK FALSE
