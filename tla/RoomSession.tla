---------------------------- MODULE RoomSession ----------------------------
(***************************************************************************)
(* One user's way through the rooms: AppModel and RoomModel of             *)
(* src/capabilities/presentation.tui, with the pubsub topics of            *)
(* network.p2p below them and the message store of module MessageStore.    *)
(* Bubbletea handles one message at a time, but every command runs in a    *)
(* goroutine of its own and reads the model (roomID, activeTopic) whenever *)
(* it gets there; its result comes back as a message later, in any order.  *)
(*                                                                         *)
(* Ticks, heartbeats, read marks and memberships change nothing modelled   *)
(* here, nor does Publish, whose network is not part of this module.       *)
(***************************************************************************)
EXTENDS MessageStore, Functions

CONSTANTS
    Mine,          \* messages the user writes
    RoomOf,        \* the room a received message is for
    NoRoom,
    MaxCommands    \* bound on openings, subscriptions and errors under way

ASSUME SessionAssumption ==
    /\ Mine \subseteq Messages
    /\ RoomOf \in [Messages \ Mine -> Rooms]
    /\ NoRoom \notin Rooms
    /\ MaxCommands \in Nat

VARIABLES
    view,     \* AppModel.currentView, "home" or "room"
    roomID,   \* RoomModel.roomID
    active,   \* the room of RoomModel.activeTopic
    topics,   \* topics the node has joined
    joining,  \* joined topics whose command has not set activeTopic yet
    creating, \* public rooms createRoom is registering
    opens,    \* OpenRoomMsg under way, per room
    subs,     \* subscribe commands that have not called JoinRoom yet
    errors,   \* ErrMsg under way
    sends     \* per message of the user: how far sendMessage has come

sessionVars == <<view, roomID, active, topics, joining, creating, opens, subs, errors, sends>>
vars == <<storeVars, sessionVars>>

Idle == [at |-> "unsent", room |-> NoRoom]

Init ==
    /\ StoreInit
    /\ view = "home" /\ roomID = NoRoom
    /\ active = NoRoom /\ topics = {} /\ joining = {} /\ creating = {}
    /\ opens = [r \in Rooms |-> 0] /\ subs = 0 /\ errors = 0
    /\ sends = [m \in Mine |-> Idle]

UnderWay == errors + subs + Cardinality(joining) + Cardinality(creating)
            + FoldFunctionOnSet(LAMBDA n, sum : n + sum, 0, opens, Rooms)

----------------------------------------------------------------------------
(* Home view.                                                              *)

\* joinRoomByID, a room found by search, or a private room created: the room is
\* in the table and an OpenRoomMsg under way.  The command was asked for in the
\* home view and runs whenever it does (the key of a private room takes long).
AddAndOpen(r) ==
    /\ UnderWay < MaxCommands
    /\ AddRoom(r)
    /\ opens' = [opens EXCEPT ![r] = @ + 1]
    /\ UNCHANGED <<view, roomID, active, topics, joining, creating, subs, errors, sends>>

\* createRoom of a public room: first the table, then the registry.
CreatePublic(r) ==
    /\ view = "home" /\ r \notin PrivateRooms
    /\ UnderWay < MaxCommands
    /\ AddRoom(r)
    /\ creating' = creating \cup {r}
    /\ UNCHANGED <<view, roomID, active, topics, joining, opens, subs, errors, sends>>

Registered(r) ==
    /\ r \in creating
    /\ creating' = creating \ {r}
    /\ opens' = [opens EXCEPT ![r] = @ + 1]
    /\ UNCHANGED <<storeVars, view, roomID, active, topics, joining, subs, errors, sends>>

\* The registry refuses or cannot be reached: the room goes, the error comes back.
NotRegistered(r) ==
    /\ r \in creating
    /\ creating' = creating \ {r}
    /\ DeleteRoom(r)
    /\ errors' = errors + 1
    /\ UNCHANGED <<queue, syncing, view, roomID, active, topics, joining, opens, subs, sends>>

Delete(r) ==
    /\ view = "home" /\ r \in rooms
    /\ DeleteRoom(r)
    /\ UNCHANGED <<queue, syncing, sessionVars>>

\* The command of enter answers with an OpenRoomMsg; until that is handled the
\* home view goes on taking keys.
PressEnter(r) ==
    /\ view = "home" /\ r \in rooms
    /\ UnderWay < MaxCommands
    /\ opens' = [opens EXCEPT ![r] = @ + 1]
    /\ UNCHANGED <<storeVars, view, roomID, active, topics, joining, creating, subs, errors, sends>>

----------------------------------------------------------------------------
(* Room view.                                                              *)

LeaveWithoutForgetting ==   \* mutant: activeTopic is not reset
    IF active = NoRoom THEN UNCHANGED <<active, topics, queue, syncing>>
    ELSE /\ topics' = topics \ {active}
         /\ UNCHANGED active
         /\ CancelJobs(active)

LeaveWithJobsAlive ==   \* mutant: r.cancel is not called
    IF active = NoRoom THEN UNCHANGED <<active, topics, queue, syncing>>
    ELSE /\ topics' = topics \ {active}
         /\ active' = NoRoom
         /\ UNCHANGED <<queue, syncing>>

Leave ==
    IF active = NoRoom THEN UNCHANGED <<active, topics, queue, syncing>>
    ELSE /\ topics' = topics \ {active}
         /\ active' = NoRoom
         /\ CancelJobs(active)

OpenRoom(r) ==
    /\ opens[r] > 0
    /\ opens' = [opens EXCEPT ![r] = @ - 1]
    /\ Leave
    /\ roomID' = r
    /\ view' = "room"
    /\ subs' = subs + 1
    /\ UNCHANGED <<rooms, rows, stranded, joining, creating, errors, sends>>

Esc ==
    /\ view = "room"
    /\ Leave
    /\ view' = "home"
    /\ UNCHANGED <<rooms, rows, stranded, roomID, joining, creating, opens, subs, errors, sends>>

\* JoinRoom fails for a topic the node has joined already; the command then
\* returns an ErrMsg.
JoinFailedQuietly ==   \* mutant: the error is swallowed
    UNCHANGED errors

JoinFailed == errors' = errors + 1

SubscribeToTopic ==
    /\ subs > 0
    /\ subs' = subs - 1
    /\ IF roomID \in topics
       THEN JoinFailed /\ UNCHANGED <<topics, joining>>
       ELSE /\ topics' = topics \cup {roomID}
            /\ joining' = joining \cup {roomID}
            /\ UNCHANGED errors
    /\ UNCHANGED <<storeVars, view, roomID, active, creating, opens, sends>>

\* JoinRoom may take long (it derives the key of a private room); whatever the
\* user has opened meanwhile, the topic becomes activeTopic and is listened to.
SetActiveTopic(r) ==
    /\ r \in joining
    /\ joining' = joining \ {r}
    /\ active' = r
    /\ UNCHANGED <<storeVars, view, roomID, topics, creating, opens, subs, errors, sends>>

\* Room.Listen of a topic with a listener: a message has passed the checks.
Receive(m) ==
    /\ RoomOf[m] \in topics \ joining
    /\ SyncMessage(m, RoomOf[m])
    /\ UNCHANGED sessionVars

\* Any error that arrives in the room view, from whatever command.
HandleError ==
    /\ errors > 0
    /\ errors' = errors - 1
    /\ IF view = "room" THEN view' = "home" /\ DeleteRoom(roomID)
       ELSE UNCHANGED <<view, rooms, rows, stranded>>
    /\ UNCHANGED <<queue, syncing, roomID, active, topics, joining, creating, opens, subs, sends>>

----------------------------------------------------------------------------
(* sendMessage.                                                            *)

Submit(m) ==
    /\ view = "room" /\ sends[m].at = "unsent"
    /\ sends' = [sends EXCEPT ![m].at = "insert"]
    /\ UNCHANGED <<storeVars, view, roomID, active, topics, joining, creating, opens, subs, errors>>

\* CreateMessage, its INSERT: into the room that is open by now.
CreateMessage(m) ==
    /\ sends[m].at = "insert"
    /\ IF roomID \in rooms
       THEN /\ rows' = Inserted(m, roomID)
            /\ sends' = [sends EXCEPT ![m] = [at |-> "enforce", room |-> roomID]]
            /\ UNCHANGED errors
       ELSE /\ sends' = [sends EXCEPT ![m].at = "done"]
            /\ errors' = errors + 1
            /\ UNCHANGED rows
    /\ UNCHANGED <<rooms, queue, syncing, stranded, view, roomID, active, topics, joining, creating, opens, subs>>

\* CreateMessage, its trim.
TrimAfterSend(m) ==
    /\ sends[m].at = "enforce"
    /\ sends' = [sends EXCEPT ![m].at = "done"]
    /\ IF sends[m].room \in rooms
       THEN EnforceRoomMessageLimit(sends[m].room) /\ UNCHANGED errors
       ELSE errors' = errors + 1 /\ UNCHANGED <<rows, stranded>>
    /\ UNCHANGED <<rooms, queue, syncing, view, roomID, active, topics, joining, creating, opens, subs>>

----------------------------------------------------------------------------
\* The program is started again, after an exit or a crash.
Sending == {m \in Mine : sends[m].at = "enforce"}

Restart ==
    /\ ReopenStore
    /\ stranded' = stranded \cup
           {row \in rows : row.id \in Sending \/ (syncing # NoJob /\ row.id = syncing.id)}
    /\ view' = "home" /\ roomID' = NoRoom
    /\ active' = NoRoom /\ topics' = {} /\ joining' = {} /\ creating' = {}
    /\ opens' = [r \in Rooms |-> 0] /\ subs' = 0 /\ errors' = 0
    /\ sends' = [m \in Mine |->
                    IF sends[m].at = "unsent" THEN sends[m] ELSE [sends[m] EXCEPT !.at = "done"]]
    /\ UNCHANGED <<rooms, rows>>

Queue == (SyncInsert \/ SyncEnforce) /\ UNCHANGED sessionVars

Prune(cutoff) == PruneOldMessages(cutoff) /\ UNCHANGED sessionVars

Next ==
    \/ \E r \in Rooms :
        \/ AddAndOpen(r) \/ CreatePublic(r) \/ Registered(r) \/ NotRegistered(r)
        \/ Delete(r) \/ PressEnter(r) \/ OpenRoom(r) \/ SetActiveTopic(r)
    \/ \E m \in Messages \ Mine : Receive(m)
    \/ \E m \in Mine : Submit(m) \/ CreateMessage(m) \/ TrimAfterSend(m)
    \/ \E m \in Messages : Prune(Sent[m])
    \/ Esc \/ SubscribeToTopic \/ HandleError
    \/ Queue
    \/ Restart

\* Goroutines are scheduled and bubbletea takes what they answer; the user, the
\* network, the clock of the pruning and restarts are owed nothing.
Fairness ==
    /\ WF_vars(Queue)
    /\ WF_vars(SubscribeToTopic)
    /\ \A r \in Rooms : WF_vars(SetActiveTopic(r))
    /\ WF_vars(HandleError)

Spec == Init /\ [][Next]_vars /\ Fairness

----------------------------------------------------------------------------
TypeOK ==
    /\ StoreTypeOK
    /\ view \in {"home", "room"} /\ roomID \in Rooms \cup {NoRoom}
    /\ active \in topics \cup {NoRoom} /\ joining \subseteq topics /\ topics \subseteq Rooms
    /\ creating \subseteq Rooms \ PrivateRooms
    /\ active \notin joining
    /\ opens \in [Rooms -> Nat] /\ subs \in Nat /\ errors \in Nat
    /\ sends \in [Mine -> [at : {"unsent", "insert", "enforce", "done"},
                           room : Rooms \cup {NoRoom}]]

\* A room never holds more than its limit, one row for each writer between its
\* INSERT and its trim, and the rows nobody came to trim because the room was
\* left or the program died in between (CreateMessage and processSyncQueue).
StorageIsBounded ==
    \A r \in Rooms :
        LET writers == {m \in Sending : sends[m].room = r} IN
        Cardinality(RowsOf(r) \ stranded) <=
            LimitOf(r) + Cardinality(writers)
            + IF syncing # NoJob /\ syncing.room = r THEN 1 ELSE 0

\* A room that has been left stays quiet: what others wrote enters the table only
\* while their room's topic is joined, though it may have waited in the queue
\* since before the user left, and whether or not the room has been deleted,
\* added and opened again meanwhile (LeaveRoom's cancel, SyncMessage's context,
\* processSyncQueue).
LeftRoomsStayQuiet ==
    [][\A m \in rows' \ rows : m.id \in Mine \/ m.room \in topics]_vars

\* What a listener has queued is in the table some day, if nobody leaves or
\* deletes the room before (SyncMessage, processSyncQueue).
Queued(m) ==
    \E i \in DOMAIN queue : queue[i].id = m /\ Writable(queue[i])

AcceptedIsStored ==
    \A m \in Messages \ Mine :
        Queued(m) ~> \/ \E row \in rows : row.id = m
                     \/ ~Queued(m) /\ RoomOf[m] \notin rooms \cap topics

\* Whoever opens a room hears it soon, or is sent home, or goes elsewhere: the
\* subscription of OpenRoom ends in an activeTopic or in an error that somebody
\* handles (subscribeToTopicCmd and the error case of AppModel.Update).
OpenedRoomIsHeard ==
    \A r \in Rooms :
        (view = "room" /\ roomID = r /\ subs > 0)
            ~> (active = r \/ view = "home" \/ roomID # r)

\* src/QA_MATRIX.md:69 "Message sends, room stays open", and :68 "Opens room and
\* stays there": the room the user is in is not taken away, unless it is
\* one whose own creation fails.  Errors of other commands do take it away
\* (AppModel.Update, case error).
OpenRoomStays ==
    [][view = "room" /\ roomID \in rooms \ creating => roomID \in rooms']_vars
============================================================================
