SPECIFICATION Spec
CONSTANTS
    None = None
    Passwords = {w1, w2}
    Tokens = {t1, t2, t3}
    Resets = {z1}
    Requests = {q1, q2}
SYMMETRY Symmetry
INVARIANTS
    OneStandingPerSession
    ReuseEndsSession
    SessionsAreCurrent
