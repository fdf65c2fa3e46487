------------------------- MODULE RoomSessionProofs -------------------------
(***************************************************************************)
(* What the message store and the session keep, for every set of rooms and *)
(* messages, every clock of an author, every limit, queue size and number  *)
(* of commands under way.                                                  *)
(*                                                                         *)
(* MessagesBelongToRooms is inductive as it stands: rows come only from an *)
(* INSERT that has seen the room and the absence of the identifier, a room *)
(* goes only together with its rows, and everything else only takes rows   *)
(* away.  SessionInv adds what the types need, BoundInv what the bound on  *)
(* a room needs; each is inductive together with those before it.          *)
(***************************************************************************)
EXTENDS RoomSession, FiniteSetTheorems, TLAPS

\* Taking rows away while the rooms stay or grow disturbs nothing.
LEMMA FewerRows ==
    ASSUME MessagesBelongToRooms, rows' \subseteq rows, rooms \subseteq rooms'
    PROVE  MessagesBelongToRooms'
BY DEF MessagesBelongToRooms

\* An INSERT into a room of the table.
LEMMA OneMoreRow ==
    ASSUME MessagesBelongToRooms, NEW id, NEW room \in rooms,
           rows' = Inserted(id, room), rooms' = rooms
    PROVE  MessagesBelongToRooms'
<1>1. CASE \E m \in rows : m.id = id
  <2>1. rows' = rows
    BY <1>1 DEF Inserted
  <2> QED
    BY <2>1, FewerRows
<1>2. CASE ~ \E m \in rows : m.id = id
  <2> DEFINE new == [id |-> id, room |-> room]
  <2>1. rows' = rows \cup {new} /\ new.id = id /\ new.room = room
    BY <1>2 DEF Inserted
  <2>2. \A m \in rows' : m.room \in rooms'
    BY <2>1 DEF MessagesBelongToRooms
  <2>3. \A m, n \in rows' : m.id = n.id => m = n
    BY <1>2, <2>1 DEF MessagesBelongToRooms
  <2> QED
    BY <2>2, <2>3 DEF MessagesBelongToRooms
<1> QED
  BY <1>1, <1>2

\* The trim of a room keeps only rows that were there.
LEMMA TrimTakesAway ==
    ASSUME NEW room, EnforceRoomMessageLimit(room)
    PROVE  rows' \subseteq rows
BY DEF EnforceRoomMessageLimit, NewestOf, RowsOf

\* A room goes with its rows.
LEMMA DeletedWithRows ==
    ASSUME MessagesBelongToRooms, NEW room, DeleteRoom(room)
    PROVE  MessagesBelongToRooms'
BY DEF MessagesBelongToRooms, DeleteRoom, RowsOf

\* Every step keeps messages with their rooms.
LEMMA StepKeepsRooms ==
    ASSUME MessagesBelongToRooms, [Next]_vars
    PROVE  MessagesBelongToRooms'
<1>1. ASSUME NEW r \in Rooms, AddAndOpen(r) \/ CreatePublic(r)
      PROVE  MessagesBelongToRooms'
  <2>1. AddRoom(r)
    BY <1>1 DEF AddAndOpen, CreatePublic
  <2>2. rows' \subseteq rows /\ rooms \subseteq rooms'
    BY <2>1 DEF AddRoom
  <2> QED
    BY <2>2, FewerRows
<1>2. ASSUME NEW r \in Rooms, NotRegistered(r) \/ Delete(r)
      PROVE  MessagesBelongToRooms'
  BY <1>2, DeletedWithRows DEF NotRegistered, Delete
<1>3. ASSUME NEW r \in Rooms,
             Registered(r) \/ PressEnter(r) \/ OpenRoom(r) \/ SetActiveTopic(r)
      PROVE  MessagesBelongToRooms'
  <2>1. rows' \subseteq rows /\ rooms \subseteq rooms'
    BY <1>3 DEF Registered, PressEnter, OpenRoom, SetActiveTopic, storeVars
  <2> QED
    BY <2>1, FewerRows
<1>4. ASSUME NEW m \in Messages \ Mine, Receive(m)
      PROVE  MessagesBelongToRooms'
  <2>1. rows' \subseteq rows /\ rooms \subseteq rooms'
    BY <1>4 DEF Receive, SyncMessage
  <2> QED
    BY <2>1, FewerRows
<1>5. ASSUME NEW m \in Mine, Submit(m)
      PROVE  MessagesBelongToRooms'
  <2>1. rows' \subseteq rows /\ rooms \subseteq rooms'
    BY <1>5 DEF Submit, storeVars
  <2> QED
    BY <2>1, FewerRows
<1>6. ASSUME NEW m \in Mine, CreateMessage(m)
      PROVE  MessagesBelongToRooms'
  <2>1. CASE roomID \in rooms
    <3>1. rows' = Inserted(m, roomID) /\ rooms' = rooms
      BY <1>6, <2>1 DEF CreateMessage
    <3> QED
      BY <2>1, <3>1, OneMoreRow
  <2>2. CASE roomID \notin rooms
    <3>1. rows' \subseteq rows /\ rooms \subseteq rooms'
      BY <1>6, <2>2 DEF CreateMessage
    <3> QED
      BY <3>1, FewerRows
  <2> QED
    BY <2>1, <2>2
<1>7. ASSUME NEW m \in Mine, TrimAfterSend(m)
      PROVE  MessagesBelongToRooms'
  <2>1. rows' \subseteq rows /\ rooms \subseteq rooms'
    BY <1>7, TrimTakesAway DEF TrimAfterSend
  <2> QED
    BY <2>1, FewerRows
<1>8. ASSUME NEW m \in Messages, Prune(Sent[m])
      PROVE  MessagesBelongToRooms'
  <2>1. rows' \subseteq rows /\ rooms \subseteq rooms'
    BY <1>8 DEF Prune, PruneOldMessages
  <2> QED
    BY <2>1, FewerRows
<1>9. ASSUME Esc \/ SubscribeToTopic \/ Restart
      PROVE  MessagesBelongToRooms'
  <2>1. rows' \subseteq rows /\ rooms \subseteq rooms'
    BY <1>9 DEF Esc, SubscribeToTopic, Restart, storeVars
  <2> QED
    BY <2>1, FewerRows
<1>10. ASSUME HandleError
       PROVE  MessagesBelongToRooms'
  <2>1. CASE view = "room"
    BY <1>10, <2>1, DeletedWithRows DEF HandleError
  <2>2. CASE view # "room"
    <3>1. rows' \subseteq rows /\ rooms \subseteq rooms'
      BY <1>10, <2>2 DEF HandleError
    <3> QED
      BY <3>1, FewerRows
  <2> QED
    BY <2>1, <2>2
<1>11. ASSUME Queue
       PROVE  MessagesBelongToRooms'
  <2>1. ASSUME SyncInsert
        PROVE  MessagesBelongToRooms'
    <3>1. CASE Writable(Head(queue))
      <4>1. Head(queue).room \in rooms
        BY <3>1 DEF Writable
      <4>2. rows' = Inserted(Head(queue).id, Head(queue).room) /\ rooms' = rooms
        BY <2>1, <3>1 DEF SyncInsert
      <4> QED
        BY <4>1, <4>2, OneMoreRow
    <3>2. CASE ~Writable(Head(queue))
      <4>1. rows' \subseteq rows /\ rooms \subseteq rooms'
        BY <2>1, <3>2 DEF SyncInsert
      <4> QED
        BY <4>1, FewerRows
    <3> QED
      BY <3>1, <3>2
  <2>2. ASSUME SyncEnforce
        PROVE  MessagesBelongToRooms'
    <3>1. rows' \subseteq rows /\ rooms \subseteq rooms'
      BY <2>2, TrimTakesAway DEF SyncEnforce
    <3> QED
      BY <3>1, FewerRows
  <2> QED
    BY <1>11, <2>1, <2>2 DEF Queue
<1>12. CASE UNCHANGED vars
  BY <1>12 DEF vars, storeVars, MessagesBelongToRooms
<1> QED
  BY <1>1, <1>2, <1>3, <1>4, <1>5, <1>6, <1>7, <1>8, <1>9, <1>10, <1>11, <1>12
  DEF Next

\* A message of the table has its room in the table and is there once, whatever
\* the queue holds when rooms are left, deleted and joined again
\* (processSyncQueue, CreateMessage, DeleteRoom).
THEOREM MessagesStayWithRooms == Spec => []MessagesBelongToRooms
<1>1. Init => MessagesBelongToRooms
  BY DEF Init, StoreInit, MessagesBelongToRooms
<1>2. MessagesBelongToRooms /\ [Next]_vars => MessagesBelongToRooms'
  BY StepKeepsRooms
<1> QED
  BY <1>1, <1>2, PTL DEF Spec

-----------------------------------------------------------------------------
(* Types.  A subscription under way has a room to subscribe to: only       *)
(* opening a room starts one, and a restart ends them all.                 *)
SessionInv ==
    /\ TypeOK
    /\ view = "room" \/ subs > 0 => roomID \in Rooms

LEMMA TrimTypes ==
    ASSUME StoreTypeOK, NEW room, EnforceRoomMessageLimit(room)
    PROVE  rows' \subseteq Row /\ stranded' \subseteq rows'
  BY DEF StoreTypeOK, EnforceRoomMessageLimit, NewestOf, RowsOf

LEMMA DeleteTypes ==
    ASSUME StoreTypeOK, NEW room, DeleteRoom(room)
    PROVE  rooms' \subseteq Rooms /\ rows' \subseteq Row /\ stranded' \subseteq rows'
  BY DEF StoreTypeOK, DeleteRoom, RowsOf

LEMMA InsertTypes ==
    ASSUME StoreTypeOK, NEW id \in Messages, NEW room \in rooms, rows' = Inserted(id, room)
    PROVE  rows' \subseteq Row /\ rows \subseteq rows'
  BY DEF StoreTypeOK, Inserted, Row

\* Cancelling touches the contexts of the jobs and nothing else of them.
LEMMA CancelTypes ==
    ASSUME StoreTypeOK, NEW room, CancelJobs(room)
    PROVE  /\ queue' \in Seq(Job) /\ Len(queue') = Len(queue)
           /\ syncing' \in Job \cup {NoJob}
           /\ syncing # NoJob => /\ syncing' # NoJob
                                /\ syncing'.id = syncing.id /\ syncing'.room = syncing.room
<1>1. queue \in Seq(Job) /\ Len(queue) <= QueueSize /\ syncing \in Job \cup {NoJob}
  BY DEF StoreTypeOK
<1>2. ASSUME NEW job \in Job
      PROVE  [job EXCEPT !.live = @ /\ job.room # room] \in Job
  BY DEF Job
<1>3. queue' = [i \in DOMAIN queue |-> [queue[i] EXCEPT !.live = @ /\ queue[i].room # room]]
  BY DEF CancelJobs
<1>4. \A i \in DOMAIN queue : queue[i] \in Job
  BY <1>1
<1>5. queue' \in [DOMAIN queue -> Job]
  BY <1>2, <1>3, <1>4
<1>6. queue' \in Seq(Job) /\ Len(queue') = Len(queue)
  BY <1>1, <1>5
<1>7. syncing' = IF syncing = NoJob THEN NoJob
                 ELSE [syncing EXCEPT !.live = @ /\ syncing.room # room]
  BY DEF CancelJobs
<1>8. ASSUME NEW job \in Job
      PROVE  /\ [job EXCEPT !.live = @ /\ job.room # room].id = job.id
             /\ [job EXCEPT !.live = @ /\ job.room # room].room = job.room
  BY DEF Job
<1>9. QED
  BY <1>1, <1>2, <1>6, <1>7, <1>8, NoJobIsNone

\* Leaving a topic: its listener ends and its jobs are cancelled.
LEMMA LeaveTypes ==
    ASSUME TypeOK, Leave
    PROVE  /\ queue' \in Seq(Job) /\ Len(queue') <= QueueSize
           /\ syncing' \in Job \cup {NoJob}
           /\ active' = NoRoom /\ topics' \subseteq Rooms /\ joining \subseteq topics'
           /\ syncing # NoJob => /\ syncing' # NoJob
                                /\ syncing'.id = syncing.id /\ syncing'.room = syncing.room
<1>1. CASE active = NoRoom
  BY <1>1 DEF Leave, TypeOK, StoreTypeOK
<1>2. CASE active # NoRoom
  <2>1. CancelJobs(active) /\ active' = NoRoom /\ topics' = topics \ {active}
    BY <1>2 DEF Leave
  <2>2. QED
    BY <2>1, CancelTypes DEF TypeOK, StoreTypeOK
<1>3. QED
  BY <1>1, <1>2

\* One sendMessage goes on.
Sends == [Mine -> [at : {"unsent", "insert", "enforce", "done"}, room : Rooms \cup {NoRoom}]]

LEMMA SendGoesOn ==
    ASSUME TypeOK, NEW m \in Mine, NEW at \in {"insert", "enforce", "done"},
           sends' = [sends EXCEPT ![m].at = at]
    PROVE  /\ sends' \in Sends /\ sends'[m].at = at /\ sends'[m].room = sends[m].room
           /\ \A n \in Mine : n # m => sends'[n] = sends[n]
  BY DEF TypeOK, Sends

LEMMA NextKeepsTypes == SessionInv /\ [Next]_vars => SessionInv'
<1> SUFFICES ASSUME SessionInv, [Next]_vars PROVE SessionInv'
  OBVIOUS
<1> USE SessionAssumption DEF SessionInv
<1>1. ASSUME NEW r \in Rooms, AddAndOpen(r) \/ CreatePublic(r) PROVE SessionInv'
  BY <1>1 DEF AddAndOpen, CreatePublic, AddRoom, TypeOK, StoreTypeOK
<1>2. ASSUME NEW r \in Rooms, Registered(r) \/ PressEnter(r) \/ SetActiveTopic(r)
      PROVE  SessionInv'
  BY <1>2 DEF Registered, PressEnter, SetActiveTopic, storeVars, TypeOK, StoreTypeOK
<1>3. ASSUME NEW r \in Rooms, NotRegistered(r) \/ Delete(r) PROVE SessionInv'
  <2>1. rooms' \subseteq Rooms /\ rows' \subseteq Row /\ stranded' \subseteq rows'
    BY <1>3, DeleteTypes DEF NotRegistered, Delete, TypeOK
  <2>2. QED
    BY <1>3, <2>1 DEF NotRegistered, Delete, sessionVars, TypeOK, StoreTypeOK
<1>4. ASSUME NEW r \in Rooms, OpenRoom(r) PROVE SessionInv'
  BY <1>4, LeaveTypes DEF OpenRoom, TypeOK, StoreTypeOK
<1>5. ASSUME Esc PROVE SessionInv'
  BY <1>5, LeaveTypes DEF Esc, TypeOK, StoreTypeOK
<1>6. ASSUME SubscribeToTopic PROVE SessionInv'
  BY <1>6 DEF SubscribeToTopic, JoinFailed, storeVars, TypeOK, StoreTypeOK
<1>7. ASSUME NEW m \in Messages \ Mine, Receive(m) PROVE SessionInv'
  <2> DEFINE job == [id |-> m, room |-> RoomOf[m], live |-> TRUE]
  <2>1. job \in Job
    BY DEF Job
  <2>2. /\ queue' = Append(queue, job) /\ Len(queue) < QueueSize /\ queue \in Seq(Job)
        /\ QueueSize \in Nat
        /\ UNCHANGED <<rooms, rows, syncing, stranded>> /\ UNCHANGED sessionVars
    BY <1>7, StoreAssumption DEF Receive, SyncMessage, TypeOK, StoreTypeOK
  <2> HIDE DEF job
  <2>3. queue' \in Seq(Job) /\ Len(queue') <= QueueSize
    BY <2>1, <2>2
  <2>4. QED
    BY <2>2, <2>3 DEF sessionVars, TypeOK, StoreTypeOK
<1>8. ASSUME HandleError PROVE SessionInv'
  <2>1. CASE view = "room"
    <3>1. rooms' \subseteq Rooms /\ rows' \subseteq Row /\ stranded' \subseteq rows'
      BY <1>8, <2>1, DeleteTypes DEF HandleError, TypeOK
    <3>2. QED
      BY <1>8, <2>1, <3>1 DEF HandleError, TypeOK, StoreTypeOK
  <2>2. CASE view # "room"
    BY <1>8, <2>2 DEF HandleError, TypeOK, StoreTypeOK
  <2>3. QED
    BY <2>1, <2>2
<1>9. ASSUME NEW m \in Mine, Submit(m) PROVE SessionInv'
  <2>1. sends' \in Sends
    BY <1>9, SendGoesOn DEF Submit
  <2>2. QED
    BY <1>9, <2>1 DEF Submit, storeVars, TypeOK, StoreTypeOK, Sends
<1>10. ASSUME NEW m \in Mine, CreateMessage(m) PROVE SessionInv'
  <2>1. CASE roomID \in rooms
    <3>1. rows' \subseteq Row /\ rows \subseteq rows'
      BY <1>10, <2>1, InsertTypes DEF CreateMessage, TypeOK
    <3>2. /\ sends' = [sends EXCEPT ![m] = [at |-> "enforce", room |-> roomID]] /\ roomID \in Rooms
          /\ UNCHANGED <<errors, rooms, queue, syncing, stranded, view, roomID, active, topics,
                         joining, creating, opens, subs>>
      BY <1>10, <2>1 DEF CreateMessage, TypeOK, StoreTypeOK
    <3>3. sends' \in Sends
      BY <3>2 DEF TypeOK, Sends
    <3>4. QED
      BY <3>1, <3>2, <3>3 DEF TypeOK, StoreTypeOK, Sends
  <2>2. CASE roomID \notin rooms
    <3>1. sends' \in Sends
      BY <1>10, <2>2, SendGoesOn DEF CreateMessage
    <3>2. QED
      BY <1>10, <2>2, <3>1 DEF CreateMessage, TypeOK, StoreTypeOK, Sends
  <2>3. QED
    BY <2>1, <2>2
<1>11. ASSUME NEW m \in Mine, TrimAfterSend(m) PROVE SessionInv'
  <2>1. rows' \subseteq Row /\ stranded' \subseteq rows'
    BY <1>11, TrimTypes DEF TrimAfterSend, TypeOK, StoreTypeOK
  <2>2. sends' \in Sends
    BY <1>11, SendGoesOn DEF TrimAfterSend
  <2>3. QED
    BY <1>11, <2>1, <2>2 DEF TrimAfterSend, TypeOK, StoreTypeOK, Sends
<1>12. ASSUME NEW m \in Messages, Prune(Sent[m]) PROVE SessionInv'
  BY <1>12 DEF Prune, PruneOldMessages, sessionVars, TypeOK, StoreTypeOK
<1>13. ASSUME SyncInsert, UNCHANGED sessionVars PROVE SessionInv'
  <2>1. /\ queue \in Seq(Job) /\ queue # <<>> /\ Head(queue) \in Job
        /\ Tail(queue) \in Seq(Job) /\ Len(Tail(queue)) <= QueueSize
    BY <1>13, StoreAssumption DEF SyncInsert, TypeOK, StoreTypeOK
  <2>2. CASE Writable(Head(queue))
    <3>1. Head(queue).id \in Messages /\ Head(queue).room \in rooms
      BY <2>1, <2>2 DEF Writable, Job
    <3>2. rows' \subseteq Row /\ rows \subseteq rows'
      BY <1>13, <2>2, <3>1, InsertTypes DEF SyncInsert, TypeOK
    <3>3. QED
      BY <1>13, <2>1, <2>2, <3>2 DEF SyncInsert, sessionVars, TypeOK, StoreTypeOK
  <2>3. CASE ~Writable(Head(queue))
    BY <1>13, <2>1, <2>3 DEF SyncInsert, QueueAfterFailure, sessionVars, TypeOK, StoreTypeOK
  <2>4. QED
    BY <2>2, <2>3
<1>14. ASSUME SyncEnforce, UNCHANGED sessionVars PROVE SessionInv'
  <2>1. rows' \subseteq Row /\ stranded' \subseteq rows'
    BY <1>14, TrimTypes DEF SyncEnforce, TypeOK, StoreTypeOK
  <2>2. QED
    BY <1>14, <2>1 DEF SyncEnforce, sessionVars, TypeOK, StoreTypeOK
<1>15. ASSUME Restart PROVE SessionInv'
  <2>1. queue' \in Seq(Job) /\ Len(queue') <= QueueSize
    BY <1>15, StoreAssumption DEF Restart, ReopenStore
  <2>2. sends' \in Sends
    BY <1>15 DEF Restart, TypeOK, Sends
  <2>3. QED
    BY <1>15, <2>1, <2>2 DEF Restart, ReopenStore, TypeOK, StoreTypeOK, Sends
<1>16. CASE UNCHANGED vars
  BY <1>16 DEF vars, storeVars, sessionVars, TypeOK, StoreTypeOK
<1>17. QED
  BY <1>1, <1>2, <1>3, <1>4, <1>5, <1>6, <1>7, <1>8, <1>9, <1>10, <1>11, <1>12, <1>13, <1>14,
     <1>15, <1>16
  DEF Next, Queue

LEMMA SessionHolds == Spec => []SessionInv
<1>1. Init => SessionInv
  BY StoreAssumption, SessionAssumption DEF Init, StoreInit, Idle, SessionInv, TypeOK, StoreTypeOK
<1>2. QED
  BY <1>1, NextKeepsTypes, PTL DEF Spec

(* The session and the store keep their types, and the topics their order: *)
(* what is active is joined, what is being joined is not active yet,       *)
(* however commands, errors and restarts interleave (AppModel.Update,      *)
(* RoomModel.Update, JoinRoom, SyncMessage).                               *)
THEOREM TypeCorrect == Spec => []TypeOK
  BY SessionHolds, PTL DEF SessionInv

-----------------------------------------------------------------------------
\* A trim takes older messages than it leaves.
LEMMA TrimTakesOld ==
    ASSUME NEW room, EnforceRoomMessageLimit(room),
           NEW m \in rows \ rows', NEW k \in rows \cap rows', k.room = m.room
    PROVE  Sent[m.id] <= Sent[k.id]
<1>1. PICK kept \in NewestOf(RowsOf(room), LimitOf(room)) :
         rows' = (rows \ RowsOf(room)) \cup kept
  BY DEF EnforceRoomMessageLimit
<1>2. m \in RowsOf(room) \ kept
  BY <1>1
<1>3. k \in kept
  BY <1>1, <1>2 DEF RowsOf
<1>4. QED
  BY <1>2, <1>3 DEF NewestOf

LEMMA StepTakesOld ==
    ASSUME TypeOK, [Next]_vars, NEW m \in rows \ rows', m.room \in rooms',
           NEW k \in rows \cap rows', k.room = m.room
    PROVE  Sent[m.id] <= Sent[k.id]
<1>1. ASSUME rows \subseteq rows' PROVE FALSE
  BY <1>1
<1>2. ASSUME NEW room, DeleteRoom(room) PROVE FALSE
  BY <1>2 DEF DeleteRoom, RowsOf
<1>3. ASSUME NEW r \in Rooms,
             \/ AddAndOpen(r) \/ CreatePublic(r) \/ Registered(r) \/ NotRegistered(r)
             \/ Delete(r) \/ PressEnter(r) \/ OpenRoom(r) \/ SetActiveTopic(r)
      PROVE  FALSE
  BY <1>1, <1>2, <1>3 DEF AddAndOpen, CreatePublic, AddRoom, Registered, NotRegistered, Delete,
                          PressEnter, OpenRoom, SetActiveTopic, storeVars
<1>4. ASSUME NEW n \in Messages \ Mine, Receive(n) PROVE FALSE
  BY <1>1, <1>4 DEF Receive, SyncMessage
<1>5. ASSUME NEW n \in Mine, Submit(n) \/ CreateMessage(n) PROVE FALSE
  BY <1>1, <1>5 DEF Submit, CreateMessage, Inserted, storeVars
<1>6. ASSUME NEW n \in Mine, TrimAfterSend(n) PROVE Sent[m.id] <= Sent[k.id]
  BY <1>1, <1>6, TrimTakesOld DEF TrimAfterSend
<1>7. ASSUME NEW n \in Messages, Prune(Sent[n]) PROVE Sent[m.id] <= Sent[k.id]
  <2>1. Sent[m.id] < Sent[n] /\ m.room \notin PrivateRooms
    BY <1>7 DEF Prune, PruneOldMessages
  <2>2. ~(Sent[k.id] < Sent[n])
    BY <1>7, <2>1 DEF Prune, PruneOldMessages
  <2>3. Sent[m.id] \in Nat /\ Sent[k.id] \in Nat /\ Sent[n] \in Nat
    BY StoreAssumption DEF TypeOK, StoreTypeOK, Row
  <2>4. QED
    BY <2>1, <2>2, <2>3
<1>8. ASSUME Esc \/ SubscribeToTopic \/ Restart \/ UNCHANGED vars PROVE FALSE
  BY <1>1, <1>8 DEF Esc, SubscribeToTopic, Restart, vars, storeVars
<1>9. ASSUME HandleError PROVE FALSE
  BY <1>1, <1>2, <1>9 DEF HandleError
<1>10. ASSUME Queue PROVE Sent[m.id] <= Sent[k.id]
  BY <1>1, <1>10, TrimTakesOld DEF Queue, SyncInsert, SyncEnforce, Inserted
<1>11. QED
  BY <1>3, <1>4, <1>5, <1>6, <1>7, <1>8, <1>9, <1>10 DEF Next

(* While a room stays in the table, whatever is taken from its messages is *)
(* no newer than what is left, for any limits and clocks of the authors    *)
(* (enforceRoomMessageLimit, pruneOldMessages).                            *)
THEOREM OldestGoFirst == Spec => NewestSurvive
<1>1. TypeOK /\ [Next]_vars =>
         [\A m \in rows \ rows' : m.room \in rooms' =>
             \A k \in rows \cap rows' : k.room = m.room => Sent[m.id] <= Sent[k.id]]_storeVars
  BY StepTakesOld
<1>2. QED
  BY <1>1, TypeCorrect, PTL DEF Spec, NewestSurvive

-----------------------------------------------------------------------------
(* What keeps a left room quiet: a job alive in the queue is of a topic    *)
(* that is joined, since leaving cancels the jobs of the topic it leaves.  *)
JobsInv == \A i \in DOMAIN queue : queue[i].live => queue[i].room \in topics

\* Leaving cancels the jobs of the one topic it takes away.
LEMMA LeaveCancels ==
    ASSUME TypeOK, JobsInv, Leave
    PROVE  JobsInv'
<1>1. CASE active = NoRoom
  BY <1>1 DEF Leave, JobsInv
<1>2. CASE active # NoRoom
  <2>1. /\ topics' = topics \ {active}
        /\ queue' = [i \in DOMAIN queue |-> [queue[i] EXCEPT !.live = @ /\ queue[i].room # active]]
    BY <1>2 DEF Leave, CancelJobs
  <2>2. SUFFICES ASSUME NEW i \in DOMAIN queue', queue'[i].live
                 PROVE  queue'[i].room \in topics'
    BY DEF JobsInv
  <2>3. i \in DOMAIN queue /\ queue[i] \in Job
    BY <2>1 DEF TypeOK, StoreTypeOK
  <2>4. PICK job \in Job : job = queue[i]
    BY <2>3
  <2>5. queue'[i] = [job EXCEPT !.live = @ /\ job.room # active]
    BY <2>1, <2>3, <2>4
  <2>6. queue'[i].room = job.room /\ (queue'[i].live <=> job.live /\ job.room # active)
    BY <2>5 DEF Job
  <2>7. job.live /\ job.room # active /\ job.room \in topics
    BY <2>2, <2>3, <2>4, <2>6 DEF JobsInv
  <2>8. QED
    BY <2>1, <2>6, <2>7
<1>3. QED
  BY <1>1, <1>2

\* Jobs that stay where they are, and their topics with them.
LEMMA JobsStay ==
    ASSUME JobsInv, queue' = queue, topics \subseteq topics'
    PROVE  JobsInv'
  BY DEF JobsInv

\* The job of a message goes to the end of the queue.
LEMMA ReceivedJobIsLive ==
    ASSUME TypeOK, JobsInv, NEW m \in Messages \ Mine, Receive(m)
    PROVE  JobsInv'
<1>1. PICK job : /\ queue' = Append(queue, job) /\ topics' = topics
                 /\ job.room = RoomOf[m] /\ RoomOf[m] \in topics
  <2>1. PICK job : job = [id |-> m, room |-> RoomOf[m], live |-> TRUE]
    OBVIOUS
  <2>2. job.room = RoomOf[m]
    BY <2>1
  <2>3. QED
    BY <2>1, <2>2 DEF Receive, SyncMessage, sessionVars
<1>2. /\ DOMAIN queue = 1..Len(queue) /\ Len(queue) \in Nat /\ queue \in Seq(Job)
  BY DEF TypeOK, StoreTypeOK
<1>3. /\ DOMAIN queue' = 1..(Len(queue) + 1)
      /\ \A i \in DOMAIN queue : queue'[i] = queue[i]
      /\ queue'[Len(queue) + 1] = job
  BY <1>1, <1>2
<1>4. \A i \in DOMAIN queue' : i \in DOMAIN queue \/ i = Len(queue) + 1
  BY <1>2, <1>3
<1>5. QED
  BY <1>1, <1>3, <1>4 DEF JobsInv

\* The goroutine of the queue takes the first job.
LEMMA QueueKeepsJobs ==
    ASSUME TypeOK, JobsInv, Queue
    PROVE  JobsInv' /\ \A m \in rows' \ rows : m.room \in topics
<1>1. queue \in Seq(Job) /\ topics' = topics
  BY DEF TypeOK, StoreTypeOK, Queue, sessionVars
<1>2. CASE SyncInsert
  <2>1. queue # <<>> /\ queue' = Tail(queue)
    BY <1>2 DEF SyncInsert, QueueAfterFailure
  <2>2. \A i \in DOMAIN queue' : i + 1 \in DOMAIN queue /\ queue'[i] = queue[i + 1]
    BY <1>1, <2>1
  <2>3. JobsInv'
    BY <1>1, <2>2 DEF JobsInv
  <2>4. ASSUME NEW m \in rows' \ rows PROVE m.room \in topics
    <3>1. PICK job : job = Head(queue)
      OBVIOUS
    <3>2. Writable(job) /\ rows' = Inserted(job.id, job.room)
      BY <1>2, <2>4, <3>1 DEF SyncInsert
    <3>3. m = [id |-> job.id, room |-> job.room]
      BY <2>4, <3>2 DEF Inserted
    <3>4. m.room = job.room
      BY <3>3
    <3>5. 1 \in DOMAIN queue /\ job = queue[1]
      BY <1>1, <2>1, <3>1
    <3>6. QED
      BY <3>2, <3>4, <3>5 DEF Writable, JobsInv
  <2>5. QED
    BY <2>3, <2>4
<1>3. CASE SyncEnforce
  <2>1. queue' = queue /\ rows' \subseteq rows
    BY <1>3, TrimTakesAway DEF SyncEnforce
  <2>2. QED
    BY <1>1, <2>1, JobsStay
<1>4. QED
  BY <1>2, <1>3 DEF Queue

LEMMA StepKeepsJobs ==
    ASSUME SessionInv, JobsInv, [Next]_vars
    PROVE  /\ JobsInv'
           /\ \A m \in rows' \ rows : m.id \in Mine \/ m.room \in topics
<1>0. TypeOK
  BY DEF SessionInv
<1>1. CASE \E r \in Rooms : AddAndOpen(r) \/ CreatePublic(r) \/ Registered(r) \/ NotRegistered(r)
                            \/ Delete(r) \/ PressEnter(r) \/ SetActiveTopic(r)
  <2>1. queue' = queue /\ topics' = topics /\ rows' \subseteq rows
    BY <1>1 DEF AddAndOpen, CreatePublic, AddRoom, Registered, NotRegistered, Delete, DeleteRoom,
       PressEnter, SetActiveTopic, storeVars, sessionVars
  <2>2. QED
    BY <2>1, JobsStay
<1>2. CASE Esc \/ \E r \in Rooms : OpenRoom(r)
  <2>1. Leave /\ rows' = rows
    BY <1>2 DEF Esc, OpenRoom
  <2>2. QED
    BY <1>0, <2>1, LeaveCancels
<1>3. CASE \E m \in Messages \ Mine : Receive(m)
  <2>1. rows' = rows
    BY <1>3 DEF Receive, SyncMessage
  <2>2. QED
    BY <1>0, <1>3, <2>1, ReceivedJobIsLive
<1>4. ASSUME NEW m \in Mine, CreateMessage(m)
      PROVE  /\ JobsInv'
             /\ \A n \in rows' \ rows : n.id \in Mine
  <2>1. queue' = queue /\ topics' = topics
    BY <1>4 DEF CreateMessage
  <2>2. ASSUME NEW n \in rows' \ rows PROVE n.id \in Mine
    <3>1. n = [id |-> m, room |-> roomID]
      BY <1>4, <2>2 DEF CreateMessage, Inserted
    <3>2. QED
      BY <3>1
  <2>3. QED
    BY <2>1, <2>2, JobsStay
<1>5. CASE \/ \E m \in Mine : Submit(m) \/ TrimAfterSend(m)
           \/ \E m \in Messages : Prune(Sent[m])
           \/ SubscribeToTopic \/ HandleError \/ UNCHANGED vars
  <2>1. queue' = queue /\ topics \subseteq topics' /\ rows' \subseteq rows
    BY <1>5, TrimTakesAway DEF Submit, TrimAfterSend, Prune, PruneOldMessages, SubscribeToTopic,
       HandleError, DeleteRoom, vars, storeVars, sessionVars
  <2>2. QED
    BY <2>1, JobsStay
<1>6. CASE Restart
  BY <1>6 DEF Restart, ReopenStore, JobsInv
<1>7. QED
  BY <1>0, <1>1, <1>2, <1>3, <1>4, <1>5, <1>6, QueueKeepsJobs DEF Next

(* A room that has been left stays quiet: what others wrote enters the     *)
(* table only while the room's topic is joined, however long it waited in  *)
(* the queue and whatever became of the room meanwhile (LeaveRoom,         *)
(* SyncMessage, processSyncQueue).                                         *)
THEOREM LeftRoomsAreQuiet == Spec => LeftRoomsStayQuiet
<1>1. Init => JobsInv
  BY DEF Init, StoreInit, JobsInv
<1>2. SessionInv /\ JobsInv /\ [Next]_vars => JobsInv'
  BY StepKeepsJobs
<1>3. SessionInv /\ JobsInv /\ [Next]_vars =>
         [\A m \in rows' \ rows : m.id \in Mine \/ m.room \in topics]_vars
  BY StepKeepsJobs
<1>4. QED
  BY <1>1, <1>2, <1>3, SessionHolds, PTL DEF Spec, LeftRoomsStayQuiet
-----------------------------------------------------------------------------
(* The bound on a room.  The rows that somebody still has to trim after,   *)
(* or that nobody will, are set apart by their identifiers; the others are *)
(* within the limit all the time.  Counting what somebody has inserted by  *)
(* its identifier keeps this inductive when the row is already gone, or    *)
(* was there before.                                                       *)
Pending(r) ==
    {m \in Sending : sends[m].room = r}
        \cup {id \in Messages : syncing # NoJob /\ syncing.room = r /\ syncing.id = id}

Settled(r) == {m \in RowsOf(r) \ stranded : m.id \notin Pending(r)}

BoundInv ==
    /\ IsFiniteSet(rows) /\ IsFiniteSet(Sending)
    /\ \A r \in Rooms : Cardinality(Settled(r)) <= LimitOf(r)

LEMMA LimitIsNatural == \A r \in Rooms : LimitOf(r) \in Nat
  BY StoreAssumption DEF LimitOf

LEMMA BoundStays ==
    ASSUME BoundInv, IsFiniteSet(rows'), IsFiniteSet(Sending'),
           \A r \in Rooms : \/ Settled(r)' \subseteq Settled(r)
                            \/ Cardinality(Settled(r)') <= LimitOf(r)
    PROVE  BoundInv'
<1>1. ASSUME NEW r \in Rooms, Settled(r)' \subseteq Settled(r)
      PROVE  Cardinality(Settled(r)') <= LimitOf(r)
  <2>1. Settled(r) \subseteq rows /\ IsFiniteSet(rows) /\ Cardinality(Settled(r)) <= LimitOf(r)
    BY DEF BoundInv, Settled, RowsOf
  <2>2. IsFiniteSet(Settled(r))
    BY <2>1, FS_Subset
  <2>3. /\ Cardinality(Settled(r)') <= Cardinality(Settled(r))
        /\ Cardinality(Settled(r)) \in Nat /\ Cardinality(Settled(r)') \in Nat
    BY <1>1, <2>2, FS_Subset, FS_CardinalityType
  <2>4. QED
    BY <2>1, <2>3, LimitIsNatural
<1>2. QED
  BY <1>1 DEF BoundInv, LimitOf

\* No row comes without somebody who trims after it, and nobody gives up a row.
LEMMA SettledShrinks ==
    ASSUME BoundInv, IsFiniteSet(Sending'),
           \E x : rows' \subseteq rows \cup {x} /\ (x \in rows' \ rows => x.id \in Pending(x.room)'),
           stranded \cap rows' \subseteq stranded',
           \A r \in Rooms, m \in rows \cap rows' :
               m.room = r /\ m.id \in Pending(r) => m.id \in Pending(r)' \/ m \in stranded'
    PROVE  BoundInv'
<1>1. PICK x : rows' \subseteq rows \cup {x} /\ (x \in rows' \ rows => x.id \in Pending(x.room)')
  OBVIOUS
<1>2. IsFiniteSet(rows')
  <2>1. IsFiniteSet(rows \cup {x})
    BY FS_AddElement DEF BoundInv
  <2>2. QED
    BY <1>1, <2>1, FS_Subset
<1>3. ASSUME NEW r \in Rooms, NEW m \in Settled(r)' PROVE m \in Settled(r)
  <2>1. m \in rows' /\ m.room = r /\ m \notin stranded' /\ m.id \notin Pending(r)'
    BY <1>3 DEF Settled, RowsOf
  <2>2. m \in rows
    BY <1>1, <2>1
  <2>3. QED
    BY <2>1, <2>2 DEF Settled, RowsOf
<1>4. QED
  BY <1>2, <1>3, BoundStays

\* A trim brings its room within the limit and leaves the other rooms alone.
LEMMA TrimmedIsWithinLimit ==
    ASSUME TypeOK, BoundInv, NEW room \in Rooms, EnforceRoomMessageLimit(room),
           IsFiniteSet(Sending'), \A r \in Rooms : r # room => Pending(r) \subseteq Pending(r)'
    PROVE  BoundInv'
<1>1. PICK kept \in NewestOf(RowsOf(room), LimitOf(room)) :
         rows' = (rows \ RowsOf(room)) \cup kept
  BY DEF EnforceRoomMessageLimit
<1>2. stranded' = {m \in stranded : m.room # room}
  BY DEF EnforceRoomMessageLimit
<1>3. /\ kept \subseteq RowsOf(room) /\ RowsOf(room) \subseteq rows /\ IsFiniteSet(rows)
      /\ Cardinality(kept) = IF Cardinality(RowsOf(room)) < LimitOf(room)
                             THEN Cardinality(RowsOf(room)) ELSE LimitOf(room)
  BY DEF NewestOf, BoundInv, RowsOf
<1>4. IsFiniteSet(rows') /\ IsFiniteSet(kept) /\ IsFiniteSet(RowsOf(room))
  BY <1>1, <1>3, FS_Subset
<1>5. Cardinality(Settled(room)') <= LimitOf(room)
  <2>1. Settled(room)' \subseteq kept
    BY <1>1 DEF Settled, RowsOf
  <2>2. /\ Cardinality(Settled(room)') <= Cardinality(kept)
        /\ Cardinality(kept) \in Nat /\ Cardinality(Settled(room)') \in Nat
        /\ Cardinality(RowsOf(room)) \in Nat
    BY <1>4, <2>1, FS_Subset, FS_CardinalityType
  <2>3. QED
    BY <1>3, <2>2, LimitIsNatural
<1>6. ASSUME NEW r \in Rooms, r # room PROVE Settled(r)' \subseteq Settled(r)
  BY <1>1, <1>2, <1>3, <1>6 DEF Settled, RowsOf
<1>7. QED
  BY <1>4, <1>5, <1>6, BoundStays

\* Nobody gives up a row he has inserted.
LEMMA PendingStays ==
    ASSUME BoundInv,
           \A m \in Mine : sends'[m].at = "enforce" => sends[m].at = "enforce",
           \A m \in Mine : sends[m].at = "enforce" => sends'[m] = sends[m],
           syncing # NoJob => /\ syncing' # NoJob
                              /\ syncing'.id = syncing.id /\ syncing'.room = syncing.room
    PROVE  IsFiniteSet(Sending') /\ \A r \in Rooms : Pending(r) \subseteq Pending(r)'
<1>1. Sending' \subseteq Sending
  BY DEF Sending
<1>2. IsFiniteSet(Sending')
  BY <1>1, FS_Subset DEF BoundInv
<1>3. QED
  BY <1>2 DEF Pending, Sending

\* A step that inserts nothing and gives up nothing.
LEMMA NothingNewStaysBounded ==
    ASSUME BoundInv, rows' \subseteq rows, stranded \cap rows' \subseteq stranded',
           IsFiniteSet(Sending'), \A r \in Rooms : Pending(r) \subseteq Pending(r)'
    PROVE  BoundInv'
<1>1. \E x : rows' \subseteq rows \cup {x} /\ (x \in rows' \ rows => x.id \in Pending(x.room)')
  OBVIOUS
<1>2. QED
  BY <1>1, SettledShrinks

LEMMA QuietStaysBounded ==
    ASSUME BoundInv, rows' \subseteq rows, stranded \cap rows' \subseteq stranded',
           UNCHANGED <<sends, syncing>>
    PROVE  BoundInv'
<1>1. IsFiniteSet(Sending') /\ \A r \in Rooms : Pending(r) \subseteq Pending(r)'
  BY PendingStays
<1>2. QED
  BY <1>1, NothingNewStaysBounded

LEMMA DeleteLeavesNoStranded ==
    ASSUME NEW room, DeleteRoom(room)
    PROVE  rows' \subseteq rows /\ stranded \cap rows' \subseteq stranded'
  BY DEF DeleteRoom, RowsOf

LEMMA LeaveStaysBounded ==
    ASSUME TypeOK, BoundInv, Leave, UNCHANGED <<rows, stranded, sends>>
    PROVE  BoundInv'
<1>1. IsFiniteSet(Sending') /\ \A r \in Rooms : Pending(r) \subseteq Pending(r)'
  BY LeaveTypes, PendingStays
<1>2. QED
  BY <1>1, NothingNewStaysBounded

\* An INSERT: the row is new or was there, and its writer will trim after it.
LEMMA InsertStaysBounded ==
    ASSUME BoundInv, NEW id, NEW room \in Rooms, rows' = Inserted(id, room),
           UNCHANGED stranded, IsFiniteSet(Sending'), id \in Pending(room)',
           \A r \in Rooms : Pending(r) \subseteq Pending(r)'
    PROVE  BoundInv'
<1> DEFINE new == [id |-> id, room |-> room]
<1>1. new.id = id /\ new.room = room
  OBVIOUS
<1>2. rows' \subseteq rows \cup {new}
  BY DEF Inserted
<1> HIDE DEF new
<1>3. \E x : rows' \subseteq rows \cup {x} /\ (x \in rows' \ rows => x.id \in Pending(x.room)')
  BY <1>1, <1>2
<1>4. QED
  BY <1>3, SettledShrinks

LEMMA CreateStaysBounded ==
    ASSUME SessionInv, BoundInv, NEW m \in Mine, CreateMessage(m)
    PROVE  BoundInv'
<1>1. /\ TypeOK /\ m \in Messages /\ sends[m].at = "insert" /\ UNCHANGED <<syncing, stranded>>
  BY SessionAssumption DEF CreateMessage, SessionInv
<1>2. CASE roomID \in rooms
  <2>1. /\ rows' = Inserted(m, roomID) /\ roomID \in Rooms
        /\ sends' = [sends EXCEPT ![m] = [at |-> "enforce", room |-> roomID]]
    BY <1>1, <1>2 DEF CreateMessage, TypeOK, StoreTypeOK
  <2>2. /\ sends'[m].at = "enforce" /\ sends'[m].room = roomID
        /\ \A n \in Mine : n # m => sends'[n] = sends[n]
    BY <2>1 DEF TypeOK, SessionInv
  <2>3. Sending' = Sending \cup {m}
    BY <1>1, <2>2 DEF Sending
  <2>4. IsFiniteSet(Sending')
    BY <2>3, FS_AddElement DEF BoundInv
  <2>5. \A r \in Rooms : Pending(r) \subseteq Pending(r)'
    BY <1>1, <2>2 DEF Pending, Sending
  <2>6. PICK room \in Rooms : room = roomID
    BY <2>1
  <2>7. m \in Pending(room)'
    BY <2>2, <2>6 DEF Pending, Sending
  <2>8. QED
    BY <1>1, <2>1, <2>4, <2>5, <2>6, <2>7, InsertStaysBounded
<1>3. CASE roomID \notin rooms
  <2>1. sends' = [sends EXCEPT ![m].at = "done"] /\ UNCHANGED rows
    BY <1>3 DEF CreateMessage
  <2>2. IsFiniteSet(Sending') /\ \A r \in Rooms : Pending(r) \subseteq Pending(r)'
    BY <1>1, <2>1, SendGoesOn, PendingStays
  <2>3. QED
    BY <1>1, <2>1, <2>2, NothingNewStaysBounded
<1>4. QED
  BY <1>2, <1>3

LEMMA TrimStaysBounded ==
    ASSUME TypeOK, BoundInv, MessagesBelongToRooms, NEW m \in Mine, TrimAfterSend(m)
    PROVE  BoundInv'
<1> DEFINE room == sends[m].room
<1>1. /\ sends' = [sends EXCEPT ![m].at = "done"] /\ UNCHANGED <<rooms, syncing>>
      /\ rooms \subseteq Rooms
  BY DEF TrimAfterSend, TypeOK, StoreTypeOK
<1>2. sends'[m].at = "done" /\ \A n \in Mine : n # m => sends'[n] = sends[n]
  BY <1>1, SendGoesOn
<1>3. IsFiniteSet(Sending')
  <2>1. Sending' \subseteq Sending
    BY <1>2 DEF Sending
  <2>2. QED
    BY <2>1, FS_Subset DEF BoundInv
<1>4. \A r \in Rooms : r # room => Pending(r) \subseteq Pending(r)'
  BY <1>1, <1>2 DEF Pending, Sending
<1>5. CASE room \in rooms
  <2>1. EnforceRoomMessageLimit(room)
    BY <1>5 DEF TrimAfterSend
  <2>2. QED
    BY <1>1, <1>3, <1>4, <1>5, <2>1, TrimmedIsWithinLimit
<1>6. CASE room \notin rooms
  <2>1. UNCHANGED <<rows, stranded>>
    BY <1>6 DEF TrimAfterSend
  <2>2. \A n \in rows : n.room # room
    BY <1>6 DEF MessagesBelongToRooms
  <2>3. \A r \in Rooms : Settled(r)' \subseteq Settled(r)
    BY <1>4, <2>1, <2>2 DEF Settled, RowsOf
  <2>4. QED
    BY <1>3, <2>1, <2>3, BoundStays DEF BoundInv
<1>7. QED
  BY <1>5, <1>6

LEMMA SyncInsertStaysBounded ==
    ASSUME TypeOK, BoundInv, SyncInsert, UNCHANGED sends
    PROVE  BoundInv'
<1>1. syncing = NoJob /\ UNCHANGED stranded /\ queue # <<>> /\ queue \in Seq(Job)
  BY DEF SyncInsert, TypeOK, StoreTypeOK
<1>2. CASE Writable(Head(queue))
  <2>1. PICK job \in Job : job = Head(queue)
    BY <1>1
  <2>2. /\ rows' = Inserted(job.id, job.room) /\ syncing' = job
    BY <1>2, <2>1 DEF SyncInsert
  <2>3. syncing' # NoJob /\ job.id \in Messages /\ job.room \in Rooms
    BY <2>1, <2>2, NoJobIsNone DEF Job
  <2>4. IsFiniteSet(Sending') /\ \A r \in Rooms : Pending(r) \subseteq Pending(r)'
    BY <1>1, PendingStays
  <2>5. job.id \in Pending(job.room)'
    BY <2>2, <2>3 DEF Pending
  <2>6. QED
    BY <1>1, <2>2, <2>3, <2>4, <2>5, InsertStaysBounded
<1>3. CASE ~Writable(Head(queue))
  <2>1. UNCHANGED <<rows, syncing>>
    BY <1>3 DEF SyncInsert
  <2>2. QED
    BY <1>1, <2>1, QuietStaysBounded
<1>4. QED
  BY <1>2, <1>3

LEMMA SyncEnforceStaysBounded ==
    ASSUME TypeOK, BoundInv, SyncEnforce, UNCHANGED sends
    PROVE  BoundInv'
<1>1. syncing # NoJob /\ syncing \in Job /\ syncing.room \in Rooms /\ syncing' = NoJob
  BY DEF SyncEnforce, TypeOK, StoreTypeOK, Job
<1>2. IsFiniteSet(Sending')
  BY DEF BoundInv, Sending
<1>3. CASE Writable(syncing)
  <2>1. EnforceRoomMessageLimit(syncing.room)
    BY <1>3 DEF SyncEnforce
  <2>2. \A r \in Rooms : r # syncing.room => Pending(r) \subseteq Pending(r)'
    BY DEF Pending, Sending
  <2>3. QED
    BY <1>1, <1>2, <2>1, <2>2, TrimmedIsWithinLimit
<1>4. CASE ~Writable(syncing)
  <2>1. UNCHANGED rows /\ stranded' = stranded \cup {m \in rows : m.id = syncing.id}
    BY <1>4 DEF SyncEnforce
  <2>2. \A r \in Rooms : Settled(r)' \subseteq Settled(r)
    BY <2>1 DEF Settled, RowsOf, Pending, Sending
  <2>3. QED
    BY <1>2, <2>1, <2>2, BoundStays DEF BoundInv
<1>5. QED
  BY <1>3, <1>4

\* A restart strands the rows of all who were about to trim.
LEMMA RestartStaysBounded ==
    ASSUME TypeOK, BoundInv, Restart
    PROVE  BoundInv'
<1>1. /\ UNCHANGED rows
      /\ stranded' = stranded \cup
            {row \in rows : row.id \in Sending \/ (syncing # NoJob /\ row.id = syncing.id)}
  BY DEF Restart
<1>2. \A m \in Mine : sends'[m].at # "enforce"
  BY DEF Restart, TypeOK
<1>3. IsFiniteSet(Sending')
  <2>1. Sending' = {}
    BY <1>2 DEF Sending
  <2>2. QED
    BY <2>1, FS_EmptySet
<1>4. \A r \in Rooms : Settled(r)' \subseteq Settled(r)
  BY <1>1 DEF Settled, RowsOf, Pending
<1>5. QED
  BY <1>1, <1>3, <1>4, BoundStays DEF BoundInv

LEMMA NextKeepsBound == SessionInv /\ MessagesBelongToRooms /\ BoundInv /\ [Next]_vars => BoundInv'
<1> SUFFICES ASSUME SessionInv, MessagesBelongToRooms, BoundInv, [Next]_vars PROVE BoundInv'
  OBVIOUS
<1> USE DEF SessionInv
<1>1. ASSUME NEW r \in Rooms,
             AddAndOpen(r) \/ CreatePublic(r) \/ Registered(r) \/ PressEnter(r) \/ SetActiveTopic(r)
      PROVE  BoundInv'
  <2>1. UNCHANGED <<rows, stranded, sends, syncing>>
    BY <1>1
    DEF AddAndOpen, CreatePublic, Registered, PressEnter, SetActiveTopic, AddRoom, storeVars
  <2>2. QED
    BY <2>1, QuietStaysBounded
<1>2. ASSUME NEW r \in Rooms, NotRegistered(r) \/ Delete(r) PROVE BoundInv'
  <2>1. DeleteRoom(r) /\ UNCHANGED <<sends, syncing>>
    BY <1>2 DEF NotRegistered, Delete, sessionVars
  <2>2. QED
    BY <2>1, DeleteLeavesNoStranded, QuietStaysBounded
<1>3. ASSUME NEW r \in Rooms, OpenRoom(r) PROVE BoundInv'
  BY <1>3, LeaveStaysBounded DEF OpenRoom
<1>4. ASSUME Esc PROVE BoundInv'
  BY <1>4, LeaveStaysBounded DEF Esc
<1>5. ASSUME SubscribeToTopic PROVE BoundInv'
  <2>1. UNCHANGED <<rows, stranded, sends, syncing>>
    BY <1>5 DEF SubscribeToTopic, storeVars
  <2>2. QED
    BY <2>1, QuietStaysBounded
<1>6. ASSUME NEW m \in Messages \ Mine, Receive(m) PROVE BoundInv'
  <2>1. UNCHANGED <<rows, stranded, sends, syncing>>
    BY <1>6 DEF Receive, SyncMessage, sessionVars
  <2>2. QED
    BY <2>1, QuietStaysBounded
<1>7. ASSUME HandleError PROVE BoundInv'
  <2>1. UNCHANGED <<sends, syncing>> /\ (DeleteRoom(roomID) \/ UNCHANGED <<rows, stranded>>)
    BY <1>7 DEF HandleError
  <2>2. rows' \subseteq rows /\ stranded \cap rows' \subseteq stranded'
    BY <2>1, DeleteLeavesNoStranded
  <2>3. QED
    BY <2>1, <2>2, QuietStaysBounded
<1>8. ASSUME NEW m \in Mine, Submit(m) PROVE BoundInv'
  <2>1. /\ sends[m].at = "unsent" /\ sends' = [sends EXCEPT ![m].at = "insert"]
        /\ UNCHANGED <<rows, stranded, syncing>>
    BY <1>8 DEF Submit, storeVars
  <2>2. IsFiniteSet(Sending') /\ \A r \in Rooms : Pending(r) \subseteq Pending(r)'
    BY <2>1, SendGoesOn, PendingStays
  <2>3. QED
    BY <2>1, <2>2, NothingNewStaysBounded
<1>9. ASSUME NEW m \in Mine, CreateMessage(m) PROVE BoundInv'
  BY <1>9, CreateStaysBounded
<1>10. ASSUME NEW m \in Mine, TrimAfterSend(m) PROVE BoundInv'
  BY <1>10, TrimStaysBounded
<1>11. ASSUME NEW cutoff, Prune(cutoff) PROVE BoundInv'
  <2>1. /\ rows' \subseteq rows /\ stranded \cap rows' \subseteq stranded'
        /\ UNCHANGED <<sends, syncing>>
    BY <1>11 DEF Prune, PruneOldMessages, sessionVars
  <2>2. QED
    BY <2>1, QuietStaysBounded
<1>12. ASSUME Queue PROVE BoundInv'
  BY <1>12, SyncInsertStaysBounded, SyncEnforceStaysBounded DEF Queue, sessionVars
<1>13. ASSUME Restart PROVE BoundInv'
  BY <1>13, RestartStaysBounded
<1>14. CASE UNCHANGED vars
  BY <1>14, QuietStaysBounded DEF vars, storeVars, sessionVars
<1>15. QED
  BY <1>1, <1>2, <1>3, <1>4, <1>5, <1>6, <1>7, <1>8, <1>9, <1>10, <1>11, <1>12, <1>13, <1>14
  DEF Next

\* The rows that are neither settled nor stranded have a writer each, or are
\* the one of the queue.
LEMMA WritersCountTheRest ==
    ASSUME TypeOK, MessagesBelongToRooms, BoundInv, NEW r \in Rooms,
           NEW writers, writers = {m \in Sending : sends[m].room = r},
           NEW rest, rest = {m \in RowsOf(r) \ stranded : m.id \in Pending(r)}
    PROVE  /\ IsFiniteSet(writers) /\ IsFiniteSet(rest)
           /\ Cardinality(rest) <=
                 Cardinality(writers) + IF syncing # NoJob /\ syncing.room = r THEN 1 ELSE 0
<1> DEFINE byQueue == {id \in Messages : syncing # NoJob /\ syncing.room = r /\ syncing.id = id}
<1>1. Pending(r) = writers \cup byQueue
  BY DEF Pending
<1>2. IsFiniteSet(writers) /\ IsFiniteSet(rest)
  <2>1. writers \subseteq Sending /\ rest \subseteq rows
    BY DEF RowsOf
  <2>2. QED
    BY <2>1, FS_Subset DEF BoundInv
<1>3. /\ IsFiniteSet(Pending(r))
      /\ Cardinality(Pending(r)) <=
             Cardinality(writers) + IF syncing # NoJob /\ syncing.room = r THEN 1 ELSE 0
  <2>1. CASE syncing # NoJob /\ syncing.room = r
    <3>1. byQueue = {syncing.id}
      BY <2>1 DEF TypeOK, StoreTypeOK, Job
    <3>2. Pending(r) = writers \cup {syncing.id}
      BY <1>1, <3>1
    <3>3. /\ IsFiniteSet(writers \cup {syncing.id}) /\ Cardinality(writers) \in Nat
          /\ Cardinality(writers \cup {syncing.id}) =
                 IF syncing.id \in writers THEN Cardinality(writers) ELSE Cardinality(writers) + 1
      BY <1>2, FS_AddElement, FS_CardinalityType
    <3>4. Cardinality(writers \cup {syncing.id}) <= Cardinality(writers) + 1
      BY <3>3
    <3>5. QED
      BY <2>1, <3>2, <3>3, <3>4
  <2>2. CASE ~(syncing # NoJob /\ syncing.room = r)
    <3>1. Pending(r) = writers
      BY <1>1, <2>2
    <3>2. Cardinality(writers) \in Nat
      BY <1>2, FS_CardinalityType
    <3>3. QED
      BY <1>2, <2>2, <3>1, <3>2
  <2>3. QED
    BY <2>1, <2>2
<1>4. Cardinality(rest) <= Cardinality(Pending(r))
  <2> DEFINE idOf == [m \in rest |-> m.id]
  <2>1. idOf \in [rest -> Pending(r)]
    OBVIOUS
  <2>2. \A m, n \in rest : idOf[m] = idOf[n] => m = n
    BY DEF MessagesBelongToRooms, RowsOf
  <2>3. idOf \in Injection(rest, Pending(r))
    BY <2>1, <2>2 DEF Injection, IsInjective
  <2>4. QED
    BY <1>3, <2>3, FS_Injection
<1>5. Cardinality(rest) \in Nat /\ Cardinality(Pending(r)) \in Nat /\ Cardinality(writers) \in Nat
  BY <1>2, <1>3, FS_CardinalityType
<1>6. QED
  BY <1>2, <1>3, <1>4, <1>5

LEMMA BoundIsEnough == TypeOK /\ MessagesBelongToRooms /\ BoundInv => StorageIsBounded
<1> SUFFICES ASSUME TypeOK, MessagesBelongToRooms, BoundInv, NEW r \in Rooms,
                    NEW writers, writers = {m \in Sending : sends[m].room = r}
             PROVE  Cardinality(RowsOf(r) \ stranded) <=
                        LimitOf(r) + Cardinality(writers)
                        + IF syncing # NoJob /\ syncing.room = r THEN 1 ELSE 0
  BY DEF StorageIsBounded
<1> DEFINE rest == {m \in RowsOf(r) \ stranded : m.id \in Pending(r)}
           late == IF syncing # NoJob /\ syncing.room = r THEN 1 ELSE 0
<1>1. RowsOf(r) \ stranded = Settled(r) \cup rest
  BY DEF Settled
<1>2. IsFiniteSet(Settled(r)) /\ Cardinality(Settled(r)) <= LimitOf(r)
  <2>1. Settled(r) \subseteq rows
    BY DEF Settled, RowsOf
  <2>2. QED
    BY <2>1, FS_Subset DEF BoundInv
<1>3. /\ IsFiniteSet(writers) /\ IsFiniteSet(rest)
      /\ Cardinality(rest) <= Cardinality(writers) + late
  BY WritersCountTheRest
<1>4. Cardinality(Settled(r) \cup rest) =
          Cardinality(Settled(r)) + Cardinality(rest) - Cardinality(Settled(r) \cap rest)
  BY <1>2, <1>3, FS_Union
<1>5. IsFiniteSet(Settled(r) \cap rest)
  BY <1>2, FS_Subset
<1>6. /\ Cardinality(Settled(r)) \in Nat /\ Cardinality(rest) \in Nat
      /\ Cardinality(writers) \in Nat /\ Cardinality(Settled(r) \cap rest) \in Nat
      /\ LimitOf(r) \in Nat /\ late \in Nat
  BY <1>2, <1>3, <1>5, FS_CardinalityType, LimitIsNatural
<1>7. QED
  <2> HIDE DEF late, rest
  <2>1. Cardinality(Settled(r) \cup rest) <= LimitOf(r) + Cardinality(writers) + late
    BY <1>2, <1>3, <1>4, <1>6
  <2>2. QED
    BY <1>1, <2>1 DEF late

(* A room never holds more than its limit and one row for each writer      *)
(* between its INSERT and its trim, not counting rows whose trim was cut   *)
(* off, for any limits and any number of messages being sent               *)
(* (CreateMessage, processSyncQueue, enforceRoomMessageLimit).             *)
THEOREM RoomsStayBounded == Spec => []StorageIsBounded
<1>1. Init => BoundInv
  <2> SUFFICES ASSUME Init PROVE BoundInv
    OBVIOUS
  <2>1. rows = {} /\ \A r \in Rooms : Settled(r) = {}
    BY DEF Init, StoreInit, Settled, RowsOf
  <2>2. Sending = {}
    BY DEF Init, Idle, Sending
  <2>3. QED
    BY <2>1, <2>2, FS_EmptySet, LimitIsNatural DEF BoundInv
<1>2. QED
  BY <1>1, NextKeepsBound, BoundIsEnough, SessionHolds, MessagesStayWithRooms, PTL
  DEF Spec, SessionInv
=============================================================================
