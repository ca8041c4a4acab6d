\* A logout and a refresh of the same session.
SPECIFICATION Spec
CONSTANTS
    Users = {u1}
    Families = {f1}
    Tokens = {t1, t2, t3}
    Requests = {r1, r2}
    u1 = u1
    u2 = u2
    f1 = f1
    f2 = f2
    t1 = t1
    t2 = t2
    t3 = t3
    t4 = t4
    None = None
SYMMETRY Symmetry
CHECK_DEADLOCK FALSE
INVARIANTS LogoutClosesFamily
