\* Either one public room, all queries and two commands under way, or two rooms
\* and one command.
SPECIFICATION HomeSpec
CONSTANTS
    me = me
    other = other
    u1 = u1
    u2 = u2
    first = first
    second = second
    q = q
    shouted = shouted
    wildcard = wildcard
    Peers = {me, other}
    Usernames = {u1, u2}
    Rooms = {first}
    MaxActivePublicRooms = 1
    Me = me
    PrivateRooms = {second}
    ByName <- MCByName
    NameOf <- MCNameOf
    Queries = {q, shouted, wildcard}
    Fold <- MCFold
    Matching <- MCMatching
    Like <- MCLike
    NoQuery = NoQuery
    NoRoom = NoRoom
    MaxCommands = 2
CONSTRAINT OverlapsOrLists
INVARIANTS
    HomeTypeOK
    OwnedRoomsAreRegistered
    SearchShowsMatches
PROPERTIES
    CursorStaysInList
