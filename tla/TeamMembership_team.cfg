SPECIFICATION Spec
CONSTANTS
    None = None
    Users = {u1, u2, u3}
    Founder = u1
    Invites = {i1, i2}
    Requests = {q1, q2}
SYMMETRY Symmetry
INVARIANTS
    OwnerRemainsUnlessRaced
    InviteGrantsOnce
CONSTRAINT UpToARace
