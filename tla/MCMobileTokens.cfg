\* One session of three tokens; the secure store and the network fail.
SPECIFICATION FairSpec
CONSTANTS
    l1 = l1
    l2 = l2
    u1 = u1
    u2 = u2
    Logins = {l1}
    UserOf <- TwoAccounts
    MaxGen = 3
    Pages = {"delete"}
    StoreFails = TRUE
    None = None
INVARIANTS NoFalseReuse
PROPERTIES ServerIsLifecycle NothingHangs
