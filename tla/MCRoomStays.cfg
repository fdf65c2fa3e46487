\* The same session; the room on the screen must not be deleted by errors.
SPECIFICATION Spec
CONSTANTS
    pub = pub
    priv = priv
    mine = mine
    theirs = theirs
    NoJob = NoJob
    NoRoom = NoRoom
    Rooms = {pub, priv}
    PrivateRooms = {priv}
    Messages = {mine, theirs}
    Mine = {mine}
    Sent <- MCSent
    RoomOf <- MCRoomOf
    PublicLimit = 1
    PrivateLimit = 1
    QueueSize = 2
    MaxCommands = 2
PROPERTIES
    OpenRoomStays
