------------------------- MODULE RegistryRefinement -------------------------
(***************************************************************************)
(* The registry's tables and handlers implement NameService: a name is the *)
(* row of table profiles without its source, a room the row of table       *)
(* public_rooms without its user name, and only the commit of a            *)
(* transaction or of a single DELETE is a step of the service.             *)
(***************************************************************************)
EXTENDS Registry

namesHeld == {[username |-> p.username, peer |-> p.peer] : p \in profiles}
roomsOwned == {[room |-> q.room, peer |-> q.peer] : q \in publicRooms}

Service == INSTANCE NameService WITH names <- namesHeld, rooms <- roomsOwned

(* Whatever handlers overlap, fail or are cut off, the tables change as if *)
(* requests were served one at a time, each of them completely or not at   *)
(* all (registerProfile, releaseProfile, registerPublicRoom,               *)
(* handleReleasePublicRoom).                                               *)
ImplementsService == Service!Spec
=============================================================================
