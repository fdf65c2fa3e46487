\* The clock ends after an answer has been asked for, cached and forgotten.
SPECIFICATION Spec
CONSTANTS
    alice = alice
    bob = bob
    Me = Me
    Authors = {alice, bob}
    Steady = {bob}
    AuthorLimit = 2
    RoomLimit = 3
    Window = 2
    HitTTL = 2
    MissTTL = 1
    RequestTimeout = 1
    PublishWait = 1
    MaxLate = 1
    MaxClock = 5
INVARIANTS
    AnswersAreRecent
    PublisherFollowsOwnCalls
    AnnouncedIsRecent
    OneAuthorCannotFillTheRoom
