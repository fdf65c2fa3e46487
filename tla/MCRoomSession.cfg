\* Two rooms, one message of the user, one received; two commands at a time.
SPECIFICATION Spec
CONSTANTS
    pub = pub
    priv = priv
    mine = mine
    theirs = theirs
    NoJob = NoJob
    NoRoom = NoRoom
    Rooms = {pub, priv}
    PrivateRooms = {priv}
    Messages = {mine, theirs}
    Mine = {mine}
    Sent <- MCSent
    RoomOf <- MCRoomOf
    PublicLimit = 1
    PrivateLimit = 1
    QueueSize = 2
    MaxCommands = 2
INVARIANTS
    TypeOK
    MessagesBelongToRooms
    StorageIsBounded
PROPERTIES
    NewestSurvive
    LeftRoomsStayQuiet
    AcceptedIsStored
    OpenedRoomIsHeard
