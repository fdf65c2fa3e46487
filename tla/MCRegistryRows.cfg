\* Two keys, two names and two rooms, with overlapping handlers; one source,
\* whose issues the clock spreads over more than a window.
SPECIFICATION Spec
CONSTANTS
    Handlers = {h1, h2}
    Peers = {p1, p2}
    Usernames = {u1, u2}
    Rooms = {r1, r2}
    Sources = {s1}
    MaxActiveProfilesPerSource = 2
    MaxProfileSuccessesPerWindow = 2
    MaxActivePublicRooms = 1
    ProfileSuccessCooldown = 1
    ProfileSuccessWindow = 4
    MaxClock = 5
    None = None
SYMMETRY Interchangeable
INVARIANTS
    TypeOK
    OneNamePerKey
    RoomsBelongToProfiles
    RoomsWithinCap
    WritersAreFresh
    IssuesRespectCooldown
    IssuesWithinWindow
PROPERTIES
    CreatedIsTrue
    ImplementsService
