\* An Apple user who withdraws and comes back, two requests at a time.
SPECIFICATION FairSpec
CONSTANTS
    u1 = u1
    u2 = u2
    k1 = k1
    k2 = k2
    Users = {u1, u2}
    Identities = {a, k}
    Apple = {a}
    Grants = {k1, k2}
    Requests = {r1, r2}
    None = None
CONSTRAINTS NewIdsInOrder KakaoAlone OneNotice
INVARIANTS RowsAgree RaceIsAbsorbed UnlinkedBeforeDeleted AnswerIsTrue ConsentRevokedIsApplied
PROPERTIES WithdrawalSucceeds
