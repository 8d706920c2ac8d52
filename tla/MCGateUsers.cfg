SPECIFICATION FairSpec
CONSTANTS
    Procs = {p1, p2}
    Ids <- OneId
    NoDomain = NoDomain
    Passwords = {pw1}
    UserRecs <- ThreeUsers
    Registered <- AnyUsers
    Methods <- RemoteThenLocal
    RemoteStatus = {"Unauthorized"}
    Kinds <- AllKinds
    Life = 1
    Modulus = 4
    MaxTime = 0
    MaxSessions = 2
    MaxKills = 1
    Absent = Absent
    Empty = Empty
    None = None
    Bare = Bare
INVARIANTS
    TypeOK
    UserKeysUnique
    BareIsTransient
    PushesCounted
PROPERTIES
    SessionEnds
    ImplementsRegistry
