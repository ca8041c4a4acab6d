\* Two requests at a time.
SPECIFICATION Spec
CONSTANTS
    u1 = u1
    u2 = u2
    r1 = r1
    r2 = r2
    p1 = p1
    p2 = p2
    p3 = p3
    v1 = v1
    v2 = v2
    Users = {u1, u2}
    Records = {r1, r2}
    Photos = {p1, p2, p3}
    Visits = {v1, v2}
    Contents = {2, 3, 4}
    LastDay = 2
    Requests = {q1, q2}
    MaxPhotos = 1
    MaxTotal = 2
    MaxRows = 2
    None = None
    KtoItems <- TheItems
    Images <- TheImages
SYMMETRY Symmetry
CONSTRAINTS NewIdsInOrder Scenes
INVARIANTS RowsAgree QuotaOvershoot LocksAreSound StoredPlacesAreFound ListsAreTrue
PROPERTIES AnswersAreTrue
