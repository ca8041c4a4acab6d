\* A flush beside the save of a draft: the file of a saved record.
SPECIFICATION Spec
CONSTANTS
    Owners = {o1}
    Records = {r1}
    Slots = {s1}
    Tasks = {t1, t2}
    None = None
PROPERTIES DeletesOnlyUnreferenced
