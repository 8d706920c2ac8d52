SPECIFICATION Spec
CONSTANTS
    Half = 2
    Minute = 1
    MaxExpiration = 1
    Ids <- TwoIds
    NoDomain = NoDomain
    Logins <- OneLogin
    Passwords = {pw1, pw2}
    Methods <- LocalThenRemote
    Settings <- SomeSettings
    Fronts <- AllFronts
    MaxTime = 2
    MaxCalls = 4
    MaxVouched = 2
    None = None
SYMMETRY Symmetry
INVARIANTS
    LoginTypeOK
    GrantIsBacked
