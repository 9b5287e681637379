SPECIFICATION Spec
CONSTANTS
    Users = {u1, u2}
    Tokens = {t1, t2, t3, t4}
    Calls = {c1, c2, c3}
CHECK_DEADLOCK FALSE
SYMMETRY MCSymmetry
INVARIANTS TypeOK OneLivePerChain
PROPERTIES RevocationIsTotal KeepsSessions
