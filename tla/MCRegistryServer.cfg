\* Two handlers, keys and names, no rooms; a source may hold one profile at a time;
\* the clock runs past the lifetime of the challenges.
SPECIFICATION ServerSpec
CONSTANTS
    Handlers = {h1, h2}
    Peers = {p1, p2}
    Usernames = {u1, u2}
    Rooms = {}
    Sources = {s1}
    MaxActiveProfilesPerSource = 1
    MaxProfileSuccessesPerWindow = 2
    MaxActivePublicRooms = 1
    ProfileSuccessCooldown = 0
    ProfileSuccessWindow = 1
    MaxClock = 2
    None = None
    ChallengeTTL = 1
    MaxChallengesPerWindow = 1
    RateLimitWindow = 1
    MaxNonces = 3
SYMMETRY Interchangeable
INVARIANTS
    ProfilesWithinSourceCap
    EveryIssueSpentAChallenge
    ChallengesBounded
PROPERTIES
    ServedOncePerChallenge
