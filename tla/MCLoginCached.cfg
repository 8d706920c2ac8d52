SPECIFICATION Spec
CONSTANTS
    Half = 2
    Minute = 1
    MaxExpiration = 1
    Ids <- TwoIds
    NoDomain = NoDomain
    Logins <- OneLogin
    Passwords = {pw1, pw2}
    Methods <- LocalThenRemote
    Settings <- SomeSettings
    Fronts = {"pam_root", "su"}
    MaxTime = 2
    MaxCalls = 4
    MaxVouched = 1
    None = None
INVARIANT
    AcceptedIsSuccess
