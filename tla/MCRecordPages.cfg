\* Two photos, two saves, two changes of a record.
SPECIFICATION Spec
CONSTANTS
    p1 = p1
    p2 = p2
    r1 = r1
    r2 = r2
    None = None
    NoValue = None
    Records = {r1, r2}
    Photos = {p1, p2}
    Located = {p1, p2}
    TakenDate <- TheTakenDates
    Dates <- TheDates
    TypedDates <- TheTypedDates
    Notes = {"", "n"}
    Keywords <- TheKeywords
    AreaCodes = {"5", "38"}
    ServerConfigs <- TheServerConfigs
    MaxPhotos = 2
    MaxEdits = 2
    Distance <- TheDistances
    MaxRows = 50
    KtoItems <- TheItems
CONSTRAINTS InOrder Scenes
INVARIANTS RecordsAreSound CoordinatesAreTransient
PROPERTIES DraftIsKept
