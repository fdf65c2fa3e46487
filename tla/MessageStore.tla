--------------------------- MODULE MessageStore ----------------------------
(***************************************************************************)
(* The message table of one device and the two ways into it: CreateMessage *)
(* for what the user writes, and the queue of SyncMessage, emptied by one  *)
(* goroutine, for what the listeners receive                               *)
(* (src/capabilities/storage.sqlite).  Both insert in one statement and    *)
(* trim the room to its newest messages in another.  Who calls them is     *)
(* module RoomSession.                                                     *)
(*                                                                         *)
(* A message is an identifier and, in Sent, the created_at it carries: the *)
(* author's clock for a message received, whatever the order of arrival.   *)
(***************************************************************************)
EXTENDS Naturals, FiniteSets, Sequences

CONSTANTS
    Rooms, PrivateRooms,
    Messages, Sent,
    PublicLimit, PrivateLimit,   \* maxStoredMessagesPerPublicRoom, ...PrivateRoom
    QueueSize,                   \* capacity of syncQueue
    NoJob

ASSUME StoreAssumption ==
    /\ PrivateRooms \subseteq Rooms
    /\ Sent \in [Messages -> Nat]
    /\ {PublicLimit, PrivateLimit, QueueSize} \subseteq Nat \ {0}

VARIABLES
    rooms,    \* table rooms
    rows,     \* table messages
    queue,    \* syncQueue
    syncing,  \* the job whose message is in the table and whose room is not trimmed yet
    stranded  \* rows that were never followed by a trim (seen by properties only)

storeVars == <<rooms, rows, queue, syncing, stranded>>

Row == [id : Messages, room : Rooms]

\* A job keeps the context of the subscription it came from: live until that
\* subscription is left.
Job == [id : Messages, room : Rooms, live : BOOLEAN]

ASSUME NoJobIsNone == NoJob \notin Job

StoreInit ==
    /\ rooms = {} /\ rows = {}
    /\ queue = <<>> /\ syncing = NoJob
    /\ stranded = {}

RowsOf(room) == {m \in rows : m.room = room}

LimitOf(room) == IF room \in PrivateRooms THEN PrivateLimit ELSE PublicLimit

\* What ORDER BY created_at DESC may put first: messages of one time come in
\* any order.
OldestOf(S, n) ==   \* mutant: ascending order
    {kept \in SUBSET S :
        /\ Cardinality(kept) = IF Cardinality(S) < n THEN Cardinality(S) ELSE n
        /\ \A k \in kept, d \in S \ kept : Sent[k.id] <= Sent[d.id]}

NewestOf(S, n) ==
    {kept \in SUBSET S :
        /\ Cardinality(kept) = IF Cardinality(S) < n THEN Cardinality(S) ELSE n
        /\ \A k \in kept, d \in S \ kept : Sent[k.id] >= Sent[d.id]}

\* INSERT ... ON CONFLICT DO NOTHING; a foreign key needs the room.
Inserted(id, room) ==
    IF \E m \in rows : m.id = id THEN rows
    ELSE rows \cup {[id |-> id, room |-> room]}

\* enforceRoomMessageLimit, for a room that is in the table.
EnforceOneMore(room) ==   \* mutant: OFFSET limit + 1
    \E kept \in NewestOf(RowsOf(room), LimitOf(room) + 1) :
        /\ rows' = (rows \ RowsOf(room)) \cup kept
        /\ stranded' = {m \in stranded : m.room # room}

EnforceRoomMessageLimit(room) ==
    \E kept \in NewestOf(RowsOf(room), LimitOf(room)) :
        /\ rows' = (rows \ RowsOf(room)) \cup kept
        /\ stranded' = {m \in stranded : m.room # room}

----------------------------------------------------------------------------
(* What the listeners and the goroutine of the queue do.                   *)

\* A full queue drops the message: that changes nothing here.
SyncMessage(id, room) ==
    /\ Len(queue) < QueueSize
    /\ queue' = Append(queue, [id |-> id, room |-> room, live |-> TRUE])
    /\ UNCHANGED <<rooms, rows, syncing, stranded>>

WritableWithoutRoom(job) == job.live   \* mutant: foreign keys are off

\* A cancelled context and a missing room both fail the statement; the
\* goroutine goes on with the next job.
Writable(job) == job.live /\ job.room \in rooms

QueueBehindFailure ==   \* mutant: return instead of continue
    queue

QueueAfterFailure == Tail(queue)

SyncInsert ==
    /\ syncing = NoJob /\ queue # <<>>
    /\ LET job == Head(queue) IN
       IF Writable(job)
       THEN /\ rows' = Inserted(job.id, job.room)
            /\ queue' = Tail(queue)
            /\ syncing' = job
       ELSE queue' = QueueAfterFailure /\ UNCHANGED <<rows, syncing>>
    /\ UNCHANGED <<rooms, stranded>>

SyncEnforce ==
    /\ syncing # NoJob
    /\ syncing' = NoJob
    /\ IF Writable(syncing) THEN EnforceRoomMessageLimit(syncing.room)
       ELSE /\ stranded' = stranded \cup {m \in rows : m.id = syncing.id}
            /\ UNCHANGED rows
    /\ UNCHANGED <<rooms, queue>>

\* The context of a subscription is cancelled: its jobs fail from now on.
CancelJobs(room) ==
    /\ queue' = [i \in DOMAIN queue |->
                    [queue[i] EXCEPT !.live = @ /\ queue[i].room # room]]
    /\ syncing' = IF syncing = NoJob THEN NoJob
                  ELSE [syncing EXCEPT !.live = @ /\ syncing.room # room]

----------------------------------------------------------------------------
(* What the user and the clock do.                                         *)

\* CreateRoom or JoinExternalRoom.
AddRoom(room) ==
    /\ room \notin rooms
    /\ rooms' = rooms \cup {room}
    /\ UNCHANGED <<rows, queue, syncing, stranded>>

DeleteRoom(room) ==
    /\ rooms' = rooms \ {room}
    /\ rows' = rows \ RowsOf(room)
    /\ stranded' = {m \in stranded : m.room # room}

\* Public messages older than the retention go; private ones are kept for ever.
PruneOldMessages(cutoff) ==
    LET old == {m \in rows : Sent[m.id] < cutoff /\ m.room \notin PrivateRooms} IN
    /\ old # {}
    /\ rows' = rows \ old
    /\ stranded' = stranded \ old
    /\ UNCHANGED <<rooms, queue, syncing>>

\* The queue is in memory.
ReopenStore == queue' = <<>> /\ syncing' = NoJob

----------------------------------------------------------------------------
StoreTypeOK ==
    /\ rooms \subseteq Rooms
    /\ rows \subseteq Row
    /\ queue \in Seq(Job) /\ Len(queue) <= QueueSize
    /\ syncing \in Job \cup {NoJob}
    /\ stranded \subseteq rows

\* A message in the table belongs to a room of the table, and is there once,
\* whichever of the two writers and the deletions of rooms come in between
\* (CreateMessage, processSyncQueue, DeleteRoom).  It does not say that a queued
\* message goes with its room: if the room is deleted without leaving its topic
\* (AppModel.Update, case error) and added again, the message is inserted then.
MessagesBelongToRooms ==
    /\ \A m \in rows : m.room \in rooms
    /\ \A m, n \in rows : m.id = n.id => m = n

\* While a room stays, what goes from its messages is older than all that is
\* left (enforceRoomMessageLimit and pruneOldMessages), whoever trims and
\* whatever was inserted in between.
NewestSurvive ==
    [][\A m \in rows \ rows' : m.room \in rooms' =>
            \A k \in rows \cap rows' : k.room = m.room => Sent[m.id] <= Sent[k.id]]_storeVars
============================================================================
