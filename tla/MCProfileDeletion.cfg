\* Delete a profile while the registry cannot be reached.
SPECIFICATION LifecycleSpec
CONSTANTS
    Devices = {d1}
    Bootstraps = {b1}
    Peers = {p1, p2}
    Usernames = {u1}
    Rooms = {}
    MaxActivePublicRooms = 1
    MaxLate = 1
    None = None
PROPERTY DeletionFreesTheName
