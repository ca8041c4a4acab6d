\* Two accounts, a record of two photos, two calls at a time; liveness, so no symmetry.
SPECIFICATION FairSpec
CONSTANTS
    Owners = {o1, o2}
    Records = {r1}
    Slots = {s1, s2}
    Tasks = {t1, t2}
    None = None
INVARIANTS RecordPhotosExist NoFileForgotten IInv
PROPERTIES EventuallySwept
