SPECIFICATION DBSpec
CONSTANTS
    Procs = {p1, p2}
    Files = {userdb}
    Docs = {d1, d2}
    Absent = Absent
    Empty = Empty
    None = None
INVARIANT
    LockedReadFindsStruct
