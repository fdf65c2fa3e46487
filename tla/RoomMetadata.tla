---------------------------- MODULE RoomMetadata ----------------------------
(***************************************************************************)
(* The name and the description of one public room, on the device of its   *)
(* owner and on the devices of others: the tables rooms and                *)
(* public_room_index (src/capabilities/storage.sqlite), the announcements  *)
(* of the discovery service (src/capabilities/network.discovery) and the   *)
(* room names that chat messages carry (Room.Listen).                      *)
(*                                                                         *)
(* Names and descriptions are numbered by the edit that made them: 1 is    *)
(* what the room was created with, 0 is a placeholder ("Remote Room"; the  *)
(* description "External Room" or none).  Announcements are signed and     *)
(* checked with the registry, so only the owner's reach a table; they are  *)
(* lost, repeated and reordered.  The cooldown of UpdatePublicRoomMetadata *)
(* only forbids edits, and is left out.                                    *)
(***************************************************************************)
EXTENDS Naturals

CONSTANTS
    Devices,
    Owner,         \* the device that creates the room
    Talkers,       \* the devices whose users send chat messages
    MaxEdits,      \* bound of the model on edits, the creation included
    MaxDeletions,  \* bound of the model on local deletions of the room
    None           \* no row, no announcement

ASSUME OwnerIsADevice == Owner \in Devices /\ Talkers \subseteq Devices

VARIABLES
    rooms,      \* each device's row of table rooms, or None
    index,      \* each device's row of table public_room_index, or None
    unsaved,    \* rows the owner has committed to rooms, not yet to its index
    heard,      \* the announcement each device is applying, or None
    inbox,      \* announcements that have reached each device's subscription
    chat,       \* chat messages on their way: [from, name]
    edits,      \* edits made so far
    deletions   \* local deletions so far

tables == <<rooms, index>>
network == <<inbox, chat>>
vars == <<tables, unsaved, heard, network, edits, deletions>>

Row == [name: 0..MaxEdits, desc: 0..MaxEdits, version: 1..MaxEdits]

ASSUME BoundsAreNaturals == MaxEdits \in Nat \ {0} /\ MaxDeletions \in Nat
ASSUME NoneIsNoRow == None \notin Row

Viewers == Devices \ {Owner}

Init ==
    /\ rooms = [d \in Devices |-> None]
    /\ index = [d \in Devices |-> None]
    /\ unsaved = {}
    /\ heard = [d \in Devices |-> None]
    /\ inbox = [d \in Devices |-> {}]
    /\ chat = {}
    /\ edits = 0
    /\ deletions = 0
-----------------------------------------------------------------------------
(* Store.UpsertPublicRoomIndex                                             *)
UpsertedStrictly(row, new) ==   \* mutant: an equal version is not taken
    IF row = None \/ new.version > row.version THEN new ELSE row

UpsertedAlways(row, new) == new   \* mutant: without the comparison

Upserted(row, new) ==
    IF row = None \/ new.version >= row.version THEN new ELSE row

(* PublishRoomSync: the announcement reaches some of the other devices.    *)
Announce(a, reached) ==
    inbox' = [d \in Devices |-> IF d \in reached THEN inbox[d] \union {a} ELSE inbox[d]]

(* Store.CreateRoom: the transaction on rooms.  DeleteRoom has removed any *)
(* earlier row; the id is a hash of the name, so it is the same room.      *)
Create ==
    /\ rooms[Owner] = None
    /\ LET row == [name |-> 1, desc |-> 0, version |-> 1]
       IN  /\ rooms' = [rooms EXCEPT ![Owner] = row]
           /\ unsaved' = unsaved \union {row}
    /\ edits' = IF edits = 0 THEN 1 ELSE edits
    /\ UNCHANGED <<index, heard, network, deletions>>

(* Store.UpdatePublicRoomMetadata: the transaction on rooms.               *)
Edit ==
    /\ rooms[Owner] # None /\ edits < MaxEdits
    /\ edits' = edits + 1
    /\ LET row == [name |-> edits', desc |-> edits', version |-> rooms[Owner].version + 1]
       IN  /\ rooms' = [rooms EXCEPT ![Owner] = row]
           /\ unsaved' = unsaved \union {row}
    /\ UNCHANGED <<index, heard, network, deletions>>

(* Both then write the index, outside the transaction, and announce.       *)
SaveIndex(row, reached) ==
    /\ unsaved' = unsaved \ {row}
    /\ index' = [index EXCEPT ![Owner] = Upserted(@, row)]
    /\ Announce(row, reached)
    /\ UNCHANGED <<rooms, heard, chat, edits, deletions>>

(* publishKnownPublicRooms, every 45 seconds and on request.               *)
Publish(reached) ==
    /\ rooms[Owner] # None
    /\ Announce(rooms[Owner], reached)
    /\ UNCHANGED <<tables, unsaved, heard, chat, edits, deletions>>

(* OpenRoom and heartbeatMsg announce a Room without description and       *)
(* version, which PublishRoomSync makes version 1.  On other devices       *)
(* PublishRoomSync is refused by the registry.                             *)
Heartbeat(reached) ==
    /\ rooms[Owner] # None
    /\ Announce([name |-> rooms[Owner].name, desc |-> 0, version |-> 1], reached)
    /\ UNCHANGED <<tables, unsaved, heard, chat, edits, deletions>>
-----------------------------------------------------------------------------
(* Service.listen and EnsurePublicRoomExists: first the index ...          *)
Hear(d, a) ==
    /\ heard[d] = None /\ a \in inbox[d]
    /\ inbox' = [inbox EXCEPT ![d] = @ \ {a}]
    /\ index' = [index EXCEPT ![d] = Upserted(@, a)]
    /\ heard' = [heard EXCEPT ![d] = a]
    /\ UNCHANGED <<rooms, unsaved, chat, edits, deletions>>

(* ... then the row of rooms: placeholders are filled, the version follows.*)
FilledIfNewer(row, a) ==   \* mutant: placeholders wait for a newer version
    IF a.version > row.version
    THEN [name |-> IF row.name = 0 THEN a.name ELSE row.name,
          desc |-> IF row.desc = 0 THEN a.desc ELSE row.desc, version |-> a.version]
    ELSE row

Filled(row, a) ==
    [name |-> IF row.name = 0 THEN a.name ELSE row.name,
     desc |-> IF row.desc = 0 THEN a.desc ELSE row.desc,
     version |-> IF row.version <= a.version THEN a.version ELSE row.version]

ApplyToRoom(d) ==
    /\ heard[d] # None
    /\ rooms' = [rooms EXCEPT ![d] = IF @ = None THEN None ELSE Filled(@, heard[d])]
    /\ heard' = [heard EXCEPT ![d] = None]
    /\ UNCHANGED <<index, unsaved, network, edits, deletions>>

(* Store.JoinExternalRoom, from the search list (the name known there) or  *)
(* by id (a placeholder); a room that exists is only joined.               *)
Join(d) ==
    /\ rooms[d] = None
    /\ \E name \in {0} \union (IF index[d] = None THEN {} ELSE {index[d].name}):
           LET row == [name |-> name, desc |-> 0, version |-> 1]
           IN  /\ rooms' = [rooms EXCEPT ![d] = row]
               /\ index' = [index EXCEPT ![d] = Upserted(@, row)]
    /\ UNCHANGED <<unsaved, heard, network, edits, deletions>>

(* Store.DeleteRoom: the owner removes the room, or AppModel.Update drops  *)
(* the open room after an error.                                           *)
Delete(d) ==
    /\ rooms[d] # None /\ deletions < MaxDeletions
    /\ rooms' = [rooms EXCEPT ![d] = None]
    /\ index' = [index EXCEPT ![d] = None]
    /\ deletions' = deletions + 1
    /\ UNCHANGED <<unsaved, heard, network, edits>>
-----------------------------------------------------------------------------
(* sendMessage: a chat message carries the name its sender knows.          *)
Say(d) ==
    /\ d \in Talkers /\ rooms[d] # None /\ rooms[d].name # 0
    /\ chat' = chat \union {[from |-> d, name |-> rooms[d].name]}
    /\ UNCHANGED <<tables, unsaved, heard, inbox, edits, deletions>>

(* Room.Listen: UpdateRoomNameIfDefault                                    *)
HearName(d, m) ==
    /\ rooms[d] # None /\ m.from # d
    /\ rooms' = [rooms EXCEPT ![d].name = IF @ = 0 THEN m.name ELSE @]
    /\ index' = [index EXCEPT ![d] = IF @ = None THEN None ELSE [@ EXCEPT !.name = m.name]]
    /\ UNCHANGED <<unsaved, heard, network, edits, deletions>>

Forget(m) ==
    /\ chat' = chat \ {m}
    /\ UNCHANGED <<tables, unsaved, heard, inbox, edits, deletions>>

(* The program dies and is started again: Migrate runs                     *)
(* backfillPublicRoomIndex.                                                *)
UnfilledIndex(d) == index[d]   \* mutant: without the backfill

BackfilledIndex(d) ==
    IF rooms[d] = None THEN index[d]
    ELSE IF index[d] = None \/ index[d].version <= rooms[d].version THEN rooms[d]
    ELSE [rooms[d] EXCEPT !.version = index[d].version]

Restart(d) ==
    /\ index' = [index EXCEPT ![d] = BackfilledIndex(d)]
    /\ heard' = [heard EXCEPT ![d] = None]
    /\ inbox' = [inbox EXCEPT ![d] = {}]
    /\ unsaved' = IF d = Owner THEN {} ELSE unsaved
    /\ UNCHANGED <<rooms, chat, edits, deletions>>
-----------------------------------------------------------------------------
Next ==
    \/ Create \/ Edit
    \/ \E reached \in SUBSET Viewers:
           Publish(reached) \/ Heartbeat(reached) \/ \E row \in unsaved: SaveIndex(row, reached)
    \/ \E d \in Viewers: \E a \in inbox[d]: Hear(d, a)
    \/ \E m \in chat: Forget(m) \/ \E d \in Devices: HearName(d, m)
    \/ \E d \in Viewers: ApplyToRoom(d) \/ Join(d)
    \/ \E d \in Devices: Delete(d) \/ Say(d) \/ Restart(d)

HearCurrent(d) == Hear(d, rooms[Owner])

ReachIdle(d) == heard[d] = None /\ \E reached \in SUBSET Viewers: d \in reached /\ Publish(reached)

(* The publisher's ticker goes on for ever, so a device hears of the room  *)
(* over and over, also while its listener is idle, and its listener goes   *)
(* on: it does not die at the same step every time.                        *)
Fairness ==
    \A d \in Viewers: SF_vars(ReachIdle(d)) /\ SF_vars(HearCurrent(d)) /\ SF_vars(ApplyToRoom(d))

Spec == Init /\ [][Next]_vars /\ Fairness
-----------------------------------------------------------------------------
TypeOK ==
    /\ rooms \in [Devices -> Row \union {None}]
    /\ index \in [Devices -> Row \union {None}]
    /\ unsaved \subseteq Row
    /\ heard \in [Devices -> Row \union {None}]
    /\ inbox \in [Devices -> SUBSET Row]
    /\ chat \subseteq [from: Devices, name: 1..MaxEdits]
    /\ edits \in 0..MaxEdits
    /\ deletions \in 0..MaxDeletions

(* No edit is missing from the owner's index once the writers are done,    *)
(* crashes between transaction and upsert included (CreateRoom,            *)
(* UpdatePublicRoomMetadata, backfillPublicRoomIndex).                     *)
OwnerIndexFollows ==
    rooms[Owner] # None /\ unsaved = {} =>
        index[Owner] # None /\ index[Owner].version >= rooms[Owner].version

(* The version of an index row never falls while the row exists, whatever  *)
(* arrives late or twice and across restarts (UpsertPublicRoomIndex).      *)
VersionsNeverFall ==
    [][\A d \in Devices:
         index[d] # None /\ index'[d] # None => index'[d].version >= index[d].version]_vars

(* However a viewer's index went wrong, the announcements repair it again  *)
(* and again - unless the owner has deleted and made the room anew, with   *)
(* lower versions (listen, publishKnownPublicRooms).                       *)
Repaired(d) ==
    \/ rooms[Owner] = None
    \/ /\ index[d] # None
       /\ \/ index[d].version > rooms[Owner].version
          \/ index[d] = rooms[Owner]

MetadataIsRepaired == \A d \in Viewers: []<>Repaired(d)

(* A room joined by its id gets its name (EnsurePublicRoomExists): the     *)
(* placeholder does not stay while the owner announces the room.           *)
Stub(d) == rooms[d] # None /\ rooms[d].name = 0

StubsAreNamed == \A d \in Viewers: Stub(d) ~> ~Stub(d) \/ rooms[Owner] = None

(* "Old metadata must not overwrite newer metadata." (SECURITY_MODEL.md):  *)
(* an index row with the name and the version of an edit never gets the    *)
(* name of an earlier edit again, neither from the chat of a member who    *)
(* joined before (UpdateRoomNameIfDefault) nor from the backfill at a      *)
(* restart (backfillPublicRoomIndex).                                      *)
OldMetadataStaysOut ==
    [][\A d \in Devices:
         index[d] # None /\ index[d].name = index[d].version /\ index'[d] # None
             => index'[d].name = 0 \/ index'[d].name >= index[d].name]_vars
=============================================================================
