SPECIFICATION Spec
CONSTANTS
    u1 = u1
    u2 = u2
    f1 = f1
    f2 = f2
    t1 = t1
    t2 = t2
    t3 = t3
    t4 = t4
    Users = {u1}
    Families = {f1, f2}
    Tokens = {t1, t2, t3}
    Requests = {r1, r2, r3}
    None = None
CONSTRAINTS NewIdsInOrder SecondExpires
SYMMETRY RequestSymmetry
CHECK_DEADLOCK FALSE
INVARIANTS OneUsableRow NoOrphanSession ClosedUnlessOvertaken SessionsNeverDeadlock IInv
PROPERTIES DeadFamilyStaysDead ImplementsLifecycle
