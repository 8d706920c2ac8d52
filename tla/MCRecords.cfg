SPECIFICATION Spec
CONSTANTS
    Logins <- ThreeLogins
    Uids <- ThreeUids
    Groups <- FourGroups
    UserDocs <- SomeUsers
    Bad = Bad
    Word = 2
    Length <- Lengths
    TextLength = 1
    MaxBuffer = 20
INVARIANTS
    RecordsTypeOK
    StoredAreSound
    ListingNeverThrows
    MembershipsKept
    ListingIsExact
    EntriesArePacked
PROPERTY
    UpdateIsUpsert
