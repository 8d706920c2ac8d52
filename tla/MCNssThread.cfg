SPECIFICATION FairSpec
CONSTANTS
    Families = {"passwd"}
    Enumerators = {}
    Writers = {w1, w2}
    Arrays <- TwoArrays
    Bare = Bare
    Modulus = 4
    MaxLen = 1
    MaxSessions = 2
    MaxKills = 1
    Absent = Absent
    Empty = Empty
    None = None
INVARIANT
    StalenessIsExplained
PROPERTY
    NssCallReturns
