CONSTANTS
    PageCount = 2
    Nostr = {"n"}
    Web = {"w"}
    DefaultLimit = 1
    OwnerActs <- SomeActs
    MutationCapacity = 2
    OperationCapacity = 2
    GrantCapacity = 3
    MaxPosts = 3
    MaxFaults = 1
SPECIFICATION Spec
INVARIANTS SpentIsCharged ChallengeOnce NothingStranded
PROPERTIES AllowanceKept
CHECK_DEADLOCK FALSE
