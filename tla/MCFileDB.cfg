SPECIFICATION FairDBSpec
CONSTANTS
    Procs = {p1, p2, p3}
    Files = {userdb}
    Docs = {d1}
    Absent = Absent
    Empty = Empty
    None = None
INVARIANTS
    DBTypeOK
    EmptyFileIsOwed
PROPERTIES
    FailedReadIsInUnlockedWindow
    WrittenIsFlushed
