\* Two accounts, a nickname that is saved.
SPECIFICATION Spec
CONSTANTS
    l1 = l1
    l2 = l2
    u1 = u1
    u2 = u2
    Logins = {l1, l2}
    UserOf <- TwoAccounts
    MaxGen = 2
    Pages = {"rename"}
    StoreFails = FALSE
    None = None
INVARIANTS Coherent
PROPERTIES NoTokenReturns LogoutIsTold
