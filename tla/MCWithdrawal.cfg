\* Two accounts that use the same device one after the other.
SPECIFICATION FairSpec
CONSTANTS
    Users = {u1, u2}
    None = None
INVARIANTS IInv
PROPERTIES OnlyDeletedCleared MarkerOutlivesRecords MarkedAreCleared
