SPECIFICATION Spec
CONSTANTS
    Procs = {p1, p2}
    Ids <- TwoIds
    NoDomain = NoDomain
    Passwords = {pw1, pw2}
    UserRecs <- OneUser
    Registered <- NoUsers
    Methods <- RemoteThenLocal
    RemoteStatus = {"Unauthorized"}
    Kinds <- CacheKinds
    Life = 1
    Modulus = 4
    MaxTime = 1
    MaxSessions = 3
    MaxKills = 0
    Absent = Absent
    Empty = Empty
    None = None
    Bare = Bare
INVARIANT
    RemoteRefusalIsReported
