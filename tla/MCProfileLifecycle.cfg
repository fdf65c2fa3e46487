\* Two devices that want one name; two bootstraps, on one device or on both.
SPECIFICATION LifecycleSpec
CONSTANTS
    Devices = {d1, d2}
    Bootstraps = {b1, b2}
    Peers = {p1, p2}
    Usernames = {u1}
    Rooms = {}
    MaxActivePublicRooms = 1
    MaxLate = 1
    None = None
SYMMETRY Interchangeable
INVARIANTS
    OrphansHadTrouble
PROPERTIES
    OlderKeysSurviveRejection
