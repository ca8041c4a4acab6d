\* Two tabs and two accounts, one new record of two photos.
SPECIFICATION Spec
CONSTANTS
    t1 = t1
    t2 = t2
    u1 = u1
    u2 = u2
    s1 = s1
    s2 = s2
    Tabs = {t1, t2}
    Users = {u1, u2}
    Sessions = {s1, s2}
    MaxGen = 3
    Records = {1}
    Files = 2
    MaxSaves = 2
    None = None
CONSTRAINTS NewIdsInOrder Scenes
SYMMETRY Symmetry
INVARIANTS TabsAgree NobodyForgotten ReuseIsARace PagesTellTheTruth
