--------------------------- MODULE MCRoomSession ----------------------------
EXTENDS RoomSession

CONSTANTS pub, priv, mine, theirs

\* The message received is for the public room and older than the user's own.
MCSent == [m \in {mine, theirs} |-> IF m = mine THEN 2 ELSE 1]
MCRoomOf == [m \in {theirs} |-> pub]
=============================================================================
