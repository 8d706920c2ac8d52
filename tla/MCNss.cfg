SPECIFICATION Spec
CONSTANTS
    Families = {"group", "passwd"}
    Enumerators = {"passwd"}
    Writers = {w1}
    Arrays <- TwoArrays
    Bare = Bare
    Modulus = 4
    MaxLen = 1
    MaxSessions = 2
    MaxKills = 1
    Absent = Absent
    Empty = Empty
    None = None
INVARIANTS
    NssTypeOK
    StalenessIsExplained
    EnumerationStaysInList
