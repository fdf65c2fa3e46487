--------------------------- MODULE RegistryProofs ---------------------------
(***************************************************************************)
(* What Registry and RegistryServer, which puts challenges in front of it, *)
(* guarantee for any number of handlers, keys, names, rooms and sources,   *)
(* and any limits: first the tables, then the server.                      *)
(***************************************************************************)
EXTENDS RegistryRefinement, RegistryServer, FiniteSetTheorems, SequenceTheorems,
        WellFoundedInduction, TLAPS

(* Adding an element adds at most one, and a subset is no larger.          *)
LEMMA AddOne ==
    ASSUME NEW S, NEW x, IsFiniteSet(S)
    PROVE  /\ IsFiniteSet(S \cup {x})
           /\ Cardinality(S) \in Nat
           /\ Cardinality(S \cup {x}) \in Nat
           /\ Cardinality(S \cup {x}) <= Cardinality(S) + 1
<1>1. Cardinality(S) \in Nat
  BY FS_CardinalityType
<1>2. IsFiniteSet(S \cup {x}) /\ Cardinality(S \cup {x}) \in Nat
  BY FS_AddElement, FS_CardinalityType
<1>3. CASE x \in S
  BY <1>1, <1>2, <1>3, FS_AddElement
<1>4. CASE x \notin S
  BY <1>1, <1>2, <1>4, FS_AddElement
<1>5. QED
  BY <1>1, <1>2, <1>3, <1>4

LEMMA FewerElements ==
    ASSUME NEW S, NEW T \in SUBSET S, IsFiniteSet(S)
    PROVE  /\ IsFiniteSet(T)
           /\ Cardinality(S) \in Nat
           /\ Cardinality(T) \in Nat
           /\ Cardinality(T) <= Cardinality(S)
  BY FS_Subset, FS_CardinalityType

(* Fields of a request, by its action.                                     *)
LEMMA RequestFields ==
    ASSUME NEW r \in Requests \cup {NoRequest}
    PROVE  /\ r.action = "register_profile" =>
                 r.peer \in Peers /\ r.username \in Usernames /\ r.source \in Sources
           /\ r.action = "register_public_room" =>
                 r.peer \in Peers /\ r.username \in Usernames /\ r.room \in Rooms
  BY NoneIsNoAction DEF Requests, Request, NoRequest

(* The record an idle handler carries is a task.                           *)
LEMMA IdleIsTask == \A reply \in Replies : Idle(reply) \in Task
  BY DEF Idle, Task, Stages

LEMMA OvertakeType ==
    ASSUME TypeOK, NEW h \in Handlers, NEW reply \in Replies
    PROVE  Overtake(h, reply) \in [Handlers -> Task]
  BY IdleIsTask DEF TypeOK, Overtake, Task, Stages

LEMMA AnswerType ==
    ASSUME TypeOK, NEW h \in Handlers, NEW reply \in Replies, Answer(h, reply)
    PROVE  task' \in [Handlers -> Task]
  BY IdleIsTask DEF TypeOK, Answer

LEMMA InitType == Init => TypeOK
  BY IdleIsTask DEF Init, TypeOK, Replies

LEMMA StepType == TypeOK /\ [Next]_vars => TypeOK'
<1> SUFFICES ASSUME TypeOK, [Next]_vars PROVE TypeOK'
  OBVIOUS
<1> USE DEF Replies
<1>1. ASSUME NEW h \in Handlers, RegisterProfileRead(h) PROVE TypeOK'
  <2>1. task' \in [Handlers -> Task]
    <3>1. CASE Answer(h, "created") BY <3>1, AnswerType
    <3>2. CASE Answer(h, "refused") BY <3>2, AnswerType
    <3>3. CASE task' = [task EXCEPT ![h].stage = "writing", ![h].issuedAt = now]
      BY <3>3 DEF TypeOK, Task, Stages
    <3>4. QED BY <1>1, <3>1, <3>2, <3>3 DEF RegisterProfileRead
  <2>2. QED BY <1>1, <2>1 DEF RegisterProfileRead, TypeOK, tables
<1>2. ASSUME NEW h \in Handlers, RegisterProfileCommit(h) PROVE TypeOK'
  <2>1. task[h].request \in Requests \cup {NoRequest} /\ task[h].issuedAt \in Nat
    BY DEF TypeOK, Task
  <2>2. RowOf(task[h].request) \in ProfileRow
    BY <1>2, <2>1, RequestFields DEF RegisterProfileCommit, Serving, RowOf, ProfileRow
  <2>3. issuanceEvents' \in SUBSET IssuanceRow
    BY <1>2, <2>1, RequestFields DEF RegisterProfileCommit, Serving, IssuanceRow, TypeOK
  <2>4. task' \in [Handlers -> Task]
    BY <1>2, OvertakeType DEF RegisterProfileCommit
  <2>5. QED BY <1>2, <2>2, <2>3, <2>4 DEF RegisterProfileCommit, TypeOK
<1>3. ASSUME NEW h \in Handlers, ReleaseProfile(h) PROVE TypeOK'
  <2>1. task' \in [Handlers -> Task]
    BY <1>3, OvertakeType, AnswerType DEF ReleaseProfile
  <2>2. QED BY <1>3, <2>1 DEF ReleaseProfile, TypeOK
<1>4. ASSUME NEW h \in Handlers, RegisterPublicRoomRead(h) PROVE TypeOK'
  <2>1. task' \in [Handlers -> Task]
    <3>1. CASE Answer(h, "created") BY <3>1, AnswerType
    <3>2. CASE Answer(h, "refused") BY <3>2, AnswerType
    <3>3. CASE task' = [task EXCEPT ![h].stage = "writing"]
      BY <3>3 DEF TypeOK, Task, Stages
    <3>4. QED BY <1>4, <3>1, <3>2, <3>3 DEF RegisterPublicRoomRead
  <2>2. QED BY <1>4, <2>1 DEF RegisterPublicRoomRead, TypeOK, tables
<1>5. ASSUME NEW h \in Handlers, RegisterPublicRoomCommit(h) PROVE TypeOK'
  <2>1. task[h].request \in Requests \cup {NoRequest}
    BY DEF TypeOK, Task
  <2>2. publicRooms' \in SUBSET RoomRow
    BY <1>5, <2>1, RequestFields DEF RegisterPublicRoomCommit, Serving, RoomRow, TypeOK
  <2>3. task' \in [Handlers -> Task]
    BY <1>5, OvertakeType DEF RegisterPublicRoomCommit
  <2>4. QED BY <1>5, <2>2, <2>3 DEF RegisterPublicRoomCommit, TypeOK
<1>6. ASSUME NEW h \in Handlers, ReleasePublicRoom(h) PROVE TypeOK'
  <2>1. task' \in [Handlers -> Task]
    BY <1>6, OvertakeType, AnswerType DEF ReleasePublicRoom
  <2>2. QED BY <1>6, <2>1 DEF ReleasePublicRoom, TypeOK
<1>7. ASSUME NEW h \in Handlers, Fail(h) PROVE TypeOK'
  BY <1>7, AnswerType DEF Fail, TypeOK, tables
<1>8. ASSUME NEW h \in Handlers, NEW r \in Requests, Accept(h, r) PROVE TypeOK'
  BY <1>8 DEF Accept, TypeOK, tables, Task, Stages
<1>9. CASE Restart
  BY <1>9, IdleIsTask DEF Restart, TypeOK, tables
<1>10. CASE Tick
  BY <1>10 DEF Tick, TypeOK, tables
<1>11. CASE UNCHANGED vars
  BY <1>11 DEF vars, TypeOK
<1>12. QED
  BY <1>1, <1>2, <1>3, <1>4, <1>5, <1>6, <1>7, <1>8, <1>9, <1>10, <1>11 DEF Next, Step

(* The tables and the handlers always have the shape the code declares.    *)
THEOREM TypeCorrect == Spec => []TypeOK
  BY InitType, StepType, PTL DEF Spec
-----------------------------------------------------------------------------
(* The inductive invariant: the tables are consistent, and every handler   *)
(* about to commit an insert has read the tables as they still are.        *)
TablesAreFinite ==
    IsFiniteSet(profiles) /\ IsFiniteSet(publicRooms) /\ IsFiniteSet(issuanceEvents)

ProfilesAreSound ==
    /\ OneNamePerKey
    /\ ProfilesWithinSourceCap

IssuesAreSound ==
    /\ IssuesRespectCooldown
    /\ IssuesWithinWindow

RoomsAreSound ==
    /\ RoomsBelongToProfiles
    /\ RoomsWithinCap

TablesAreSound ==
    TablesAreFinite /\ ProfilesAreSound /\ IssuesAreSound /\ RoomsAreSound

IInv == TypeOK /\ TablesAreSound /\ WritersAreFresh

LEMMA InitSound == Init => IInv
<1> SUFFICES ASSUME Init PROVE IInv
  OBVIOUS
<1>1. IsFiniteSet({}) /\ Cardinality({}) = 0
  BY FS_EmptySet
<1>2. TablesAreFinite
  BY <1>1 DEF Init, TablesAreFinite
<1>3. ProfilesAreSound
  <2>1. \A s : ActiveProfiles(s) = {}
    BY DEF Init, ActiveProfiles
  <2>2. QED
    BY <1>1, <2>1, LimitsAreNaturals
    DEF Init, ProfilesAreSound, OneNamePerKey, ProfilesWithinSourceCap
<1>4. IssuesAreSound
  BY DEF Init, IssuesAreSound, IssuesRespectCooldown, IssuesWithinWindow
<1>5. RoomsAreSound
  <2>1. \A k : RoomsOf(k) = {}
    BY DEF Init, RoomsOf
  <2>2. QED
    BY <1>1, <2>1, LimitsAreNaturals
    DEF Init, RoomsAreSound, RoomsBelongToProfiles, RoomsWithinCap
<1>6. WritersAreFresh
  BY DEF Init, WritersAreFresh, Serving, Idle
<1>7. QED
  BY <1>2, <1>3, <1>4, <1>5, <1>6, InitType DEF IInv, TablesAreSound

(* A step that leaves the tables alone keeps them sound.                   *)
LEMMA TablesUnchanged ==
    ASSUME TablesAreSound, UNCHANGED tables
    PROVE  TablesAreSound'
  BY DEF tables, TablesAreSound, TablesAreFinite, ProfilesAreSound, IssuesAreSound, RoomsAreSound,
         OneNamePerKey, ProfilesWithinSourceCap, ActiveProfiles,
         IssuesRespectCooldown, IssuesWithinWindow, RoomsBelongToProfiles, RoomsWithinCap, RoomsOf

(* A writer whose task and tables stay as they are remains fresh.          *)
LEMMA WriterUnchanged ==
    ASSUME WritersAreFresh, UNCHANGED tables,
           NEW g \in Handlers, task'[g] = task[g] \/ task'[g].stage # "writing"
    PROVE  /\ Serving(g, "writing", "register_profile")' => FreshProfileWriter(g)'
           /\ Serving(g, "writing", "register_public_room")' => MayOpenRoom(task[g].request)'
<1> USE DEF tables
<1>1. ASSUME Serving(g, "writing", "register_profile")'
      PROVE  FreshProfileWriter(g)'
  <2>1. task'[g] = task[g]
    BY <1>1 DEF Serving
  <2>2. FreshProfileWriter(g)
    BY <1>1, <2>1 DEF WritersAreFresh, Serving
  <2>3. QED
    BY <2>1, <2>2 DEF FreshProfileWriter, ActiveProfiles
<1>2. ASSUME Serving(g, "writing", "register_public_room")'
      PROVE  MayOpenRoom(task[g].request)'
  <2>1. task'[g] = task[g]
    BY <1>2 DEF Serving
  <2>2. MayOpenRoom(task[g].request)
    BY <1>2, <2>1 DEF WritersAreFresh, Serving
  <2>3. QED
    BY <2>1, <2>2 DEF MayOpenRoom, Holds, RoomTaken, RoomsOf
<1>3. QED
  BY <1>1, <1>2

LEMMA WritersUnchanged ==
    ASSUME WritersAreFresh, UNCHANGED tables,
           \A g \in Handlers : task'[g] = task[g] \/ task'[g].stage # "writing"
    PROVE  WritersAreFresh'
  BY WriterUnchanged DEF WritersAreFresh

(* After a commit that changed the tables no handler is "writing".         *)
LEMMA WritersOvertaken ==
    ASSUME NEW h \in Handlers, NEW reply, TypeOK, task' = Overtake(h, reply)
    PROVE  WritersAreFresh'
<1>1. \A g \in Handlers : task'[g].stage # "writing"
  BY DEF Overtake, Idle, TypeOK, Task
<1>2. QED
  BY <1>1 DEF WritersAreFresh, Serving

LEMMA AnswerKeepsWriters ==
    ASSUME NEW h \in Handlers, NEW reply, TypeOK, WritersAreFresh, UNCHANGED tables,
           Answer(h, reply)
    PROVE  WritersAreFresh'
<1>1. \A g \in Handlers : task'[g] = task[g] \/ task'[g].stage # "writing"
  BY DEF Answer, Idle, TypeOK
<1>2. QED
  BY <1>1, WritersUnchanged
-----------------------------------------------------------------------------
(* The commit of registerProfile.                                          *)
LEMMA ProfileCommitted ==
    ASSUME IInv, NEW h \in Handlers, RegisterProfileCommit(h)
    PROVE  TablesAreSound'
<1> DEFINE r == task[h].request
           at == task[h].issuedAt
           row == [username |-> r.username, peer |-> r.peer, source |-> r.source]
           event == [username |-> r.username, peer |-> r.peer, source |-> r.source, issuedAt |-> at]
<1>1. /\ r.peer \in Peers /\ r.username \in Usernames /\ r.source \in Sources
      /\ at \in Nat
  BY RequestFields DEF IInv, TypeOK, Task, RegisterProfileCommit, Serving
<1>2. FreshProfileWriter(h)
  BY DEF IInv, WritersAreFresh, RegisterProfileCommit
<1>3. /\ profiles' = profiles \cup {row}
      /\ issuanceEvents' = issuanceEvents \cup {event}
      /\ publicRooms' = publicRooms
  BY DEF RegisterProfileCommit, RowOf
<1> HIDE DEF row, event
<1>4. TablesAreFinite'
  BY <1>3, FS_AddElement DEF IInv, TablesAreSound, TablesAreFinite
<1>5. OneNamePerKey'
  BY <1>2, <1>3 DEF IInv, TablesAreSound, ProfilesAreSound, OneNamePerKey, FreshProfileWriter, row
<1>6. ProfilesWithinSourceCap'
  <2> SUFFICES ASSUME NEW s \in Sources
               PROVE  Cardinality(ActiveProfiles(s)') <= MaxActiveProfilesPerSource
    BY DEF ProfilesWithinSourceCap
  <2>1. IsFiniteSet(ActiveProfiles(s)) /\ Cardinality(ActiveProfiles(s)) \in Nat
    BY FS_Subset, FS_CardinalityType DEF IInv, TablesAreSound, TablesAreFinite, ActiveProfiles
  <2>2. Cardinality(ActiveProfiles(s)) <= MaxActiveProfilesPerSource
    BY DEF IInv, TablesAreSound, ProfilesAreSound, ProfilesWithinSourceCap
  <2>3. CASE s = r.source
    <3>1. ActiveProfiles(s)' = ActiveProfiles(s) \cup {row}
      BY <1>3, <2>3 DEF ActiveProfiles, row
    <3>2. Cardinality(ActiveProfiles(s)) < MaxActiveProfilesPerSource
      BY <1>2, <2>3 DEF FreshProfileWriter
    <3>3. Cardinality(ActiveProfiles(s) \cup {row}) <= Cardinality(ActiveProfiles(s)) + 1
          /\ Cardinality(ActiveProfiles(s) \cup {row}) \in Nat
      BY <2>1, AddOne
    <3>4. Cardinality(ActiveProfiles(s) \cup {row}) <= MaxActiveProfilesPerSource
      BY <2>1, <3>2, <3>3, LimitsAreNaturals
    <3>5. QED
      BY <3>1, <3>4
  <2>4. CASE s # r.source
    <3>1. ActiveProfiles(s)' = ActiveProfiles(s)
      BY <1>3, <2>4 DEF ActiveProfiles, row
    <3>2. QED
      BY <2>2, <3>1
  <2>5. QED
    BY <2>3, <2>4
<1>8. \A e \in issuanceEvents : e.source = r.source => e.issuedAt + ProfileSuccessCooldown < at
  BY <1>2 DEF FreshProfileWriter
<1>9. \A e \in issuanceEvents : e.issuedAt \in Nat
  BY DEF IInv, TypeOK, IssuanceRow
<1>10. event.issuedAt = at /\ event.source = r.source
  BY DEF event
<1>11. IssuesRespectCooldown'
  <2> SUFFICES ASSUME NEW e \in issuanceEvents', NEW f \in issuanceEvents',
                      e.source = f.source, e.issuedAt <= f.issuedAt, e # f
               PROVE  e.issuedAt + ProfileSuccessCooldown < f.issuedAt
    BY DEF IssuesRespectCooldown
  <2>1. CASE e \in issuanceEvents /\ f \in issuanceEvents
    BY <2>1 DEF IInv, TablesAreSound, IssuesAreSound, IssuesRespectCooldown
  <2>2. CASE e \in issuanceEvents /\ f = event
    BY <1>8, <1>10, <2>2
  <2>3. CASE e = event /\ f \in issuanceEvents
    BY <1>1, <1>8, <1>9, <1>10, <2>3, LimitsAreNaturals
  <2>4. QED
    BY <1>3, <2>1, <2>2, <2>3
<1>12. IssuesWithinWindow'
  <2> DEFINE Until(f, events) == {e \in events :
                 /\ e.source = f.source
                 /\ e.issuedAt <= f.issuedAt
                 /\ e.issuedAt + ProfileSuccessWindow >= f.issuedAt}
  <2> SUFFICES ASSUME NEW f \in issuanceEvents'
               PROVE  Cardinality(Until(f, issuanceEvents')) <= MaxProfileSuccessesPerWindow
    BY DEF IssuesWithinWindow
  <2>1. CASE f = event
    <3> DEFINE Before == {e \in issuanceEvents :
                 e.source = r.source /\ e.issuedAt + ProfileSuccessWindow >= at}
    <3>1. Until(f, issuanceEvents') \subseteq Before \cup {event}
      BY <1>3, <1>10, <2>1
    <3>2. IsFiniteSet(Before) /\ Cardinality(Before) \in Nat
      BY FS_Subset, FS_CardinalityType DEF IInv, TablesAreSound, TablesAreFinite
    <3>3. Cardinality(Before) < MaxProfileSuccessesPerWindow
      BY <1>2 DEF FreshProfileWriter
    <3> HIDE DEF Before, Until
    <3>4. /\ IsFiniteSet(Before \cup {event})
          /\ Cardinality(Before \cup {event}) \in Nat
          /\ Cardinality(Before \cup {event}) <= Cardinality(Before) + 1
      BY <3>2, AddOne
    <3>5. /\ Cardinality(Until(f, issuanceEvents')) <= Cardinality(Before \cup {event})
          /\ Cardinality(Until(f, issuanceEvents')) \in Nat
      BY <3>1, <3>4, FS_Subset, FS_CardinalityType
    <3>6. QED
      BY <3>2, <3>3, <3>4, <3>5, LimitsAreNaturals
  <2>2. CASE f \in issuanceEvents
    <3>1. event \notin Until(f, issuanceEvents')
      BY <1>1, <1>8, <1>9, <1>10, <2>2, LimitsAreNaturals
    <3>2. Until(f, issuanceEvents') = Until(f, issuanceEvents)
      BY <1>3, <3>1
    <3>3. QED
      BY <2>2, <3>2 DEF IInv, TablesAreSound, IssuesAreSound, IssuesWithinWindow
  <2>3. QED
    BY <1>3, <2>1, <2>2
<1>13. RoomsAreSound'
  BY <1>3 DEF IInv, TablesAreSound, RoomsAreSound, RoomsBelongToProfiles, RoomsWithinCap, RoomsOf
<1>14. QED
  BY <1>4, <1>5, <1>6, <1>11, <1>12, <1>13
  DEF TablesAreSound, ProfilesAreSound, IssuesAreSound

(* Deleting rooms keeps the remaining ones sound.                          *)
LEMMA FewerRooms ==
    ASSUME TypeOK, TablesAreSound, publicRooms' \in SUBSET publicRooms,
           UNCHANGED <<profiles, issuanceEvents>>
    PROVE  TablesAreSound'
<1>1. RoomsWithinCap'
  <2> SUFFICES ASSUME NEW k \in Peers
               PROVE  Cardinality(RoomsOf(k)') <= MaxActivePublicRooms
    BY DEF TablesAreSound, RoomsAreSound, RoomsWithinCap
  <2>1. RoomsOf(k)' \in SUBSET RoomsOf(k)
    BY DEF RoomsOf
  <2>2. IsFiniteSet(RoomsOf(k))
    BY FewerElements DEF RoomsOf, TablesAreSound, TablesAreFinite
  <2>3. /\ Cardinality(RoomsOf(k)') <= Cardinality(RoomsOf(k))
        /\ Cardinality(RoomsOf(k)') \in Nat /\ Cardinality(RoomsOf(k)) \in Nat
    BY <2>1, <2>2, FewerElements
  <2>4. Cardinality(RoomsOf(k)) <= MaxActivePublicRooms
    BY DEF TablesAreSound, RoomsAreSound, RoomsWithinCap
  <2>5. QED
    BY <2>3, <2>4, LimitsAreNaturals
<1>2. RoomsBelongToProfiles'
  BY DEF TablesAreSound, RoomsAreSound, RoomsBelongToProfiles
<1>3. TablesAreFinite'
  BY FewerElements DEF TablesAreSound, TablesAreFinite
<1>4. ProfilesAreSound'
  BY DEF TablesAreSound, ProfilesAreSound, OneNamePerKey, ProfilesWithinSourceCap,
         ActiveProfiles
<1>5. IssuesAreSound'
  BY DEF TablesAreSound, IssuesAreSound, IssuesRespectCooldown, IssuesWithinWindow
<1>6. QED
  BY <1>1, <1>2, <1>3, <1>4, <1>5 DEF TablesAreSound, RoomsAreSound

(* releaseProfile: the rooms of the key go with its profile.               *)
LEMMA ProfileReleased ==
    ASSUME IInv, NEW h \in Handlers, ReleaseProfile(h)
    PROVE  TablesAreSound'
<1> DEFINE r == task[h].request
<1>1. /\ publicRooms' = publicRooms \ RoomsOf(r.peer)
      /\ profiles' = profiles \ ReleasedRows(r)
      /\ issuanceEvents' = issuanceEvents
  BY DEF ReleaseProfile
<1> HIDE DEF r
<1> USE DEF IInv, TablesAreSound
<1>2. TablesAreFinite'
  BY <1>1, FewerElements DEF TablesAreFinite
<1>3. OneNamePerKey'
  BY <1>1 DEF ProfilesAreSound, OneNamePerKey
<1>4. ProfilesWithinSourceCap'
  <2> SUFFICES ASSUME NEW s \in Sources
               PROVE  Cardinality(ActiveProfiles(s)') <= MaxActiveProfilesPerSource
    BY DEF ProfilesWithinSourceCap
  <2>1. ActiveProfiles(s)' \in SUBSET ActiveProfiles(s)
    BY <1>1 DEF ActiveProfiles
  <2>2. IsFiniteSet(ActiveProfiles(s))
    BY FewerElements DEF ActiveProfiles, TablesAreFinite
  <2>3. /\ Cardinality(ActiveProfiles(s)') <= Cardinality(ActiveProfiles(s))
        /\ Cardinality(ActiveProfiles(s)') \in Nat /\ Cardinality(ActiveProfiles(s)) \in Nat
    BY <2>1, <2>2, FewerElements
  <2>4. Cardinality(ActiveProfiles(s)) <= MaxActiveProfilesPerSource
    BY DEF ProfilesAreSound, ProfilesWithinSourceCap
  <2>5. QED
    BY <2>3, <2>4, LimitsAreNaturals
<1>5. IssuesAreSound'
  BY <1>1 DEF IssuesAreSound, IssuesRespectCooldown, IssuesWithinWindow
<1>6. RoomsBelongToProfiles'
  <2> SUFFICES ASSUME NEW q \in publicRooms'
               PROVE  \E p \in profiles' : p.peer = q.peer /\ p.username = q.username
    BY DEF RoomsBelongToProfiles
  <2>1. q \in publicRooms /\ q.peer # r.peer
    BY <1>1 DEF RoomsOf
  <2>2. PICK p \in profiles : p.peer = q.peer /\ p.username = q.username
    BY <2>1 DEF RoomsAreSound, RoomsBelongToProfiles
  <2>3. p \in profiles'
    BY <1>1, <2>1, <2>2 DEF ReleasedRows
  <2>4. QED
    BY <2>2, <2>3
<1>7. RoomsWithinCap'
  <2> SUFFICES ASSUME NEW k \in Peers
               PROVE  Cardinality(RoomsOf(k)') <= MaxActivePublicRooms
    BY <1>1 DEF RoomsAreSound, RoomsWithinCap
  <2>1. RoomsOf(k)' \in SUBSET RoomsOf(k)
    BY <1>1 DEF RoomsOf
  <2>2. IsFiniteSet(RoomsOf(k))
    BY FewerElements DEF RoomsOf, TablesAreFinite
  <2>3. /\ Cardinality(RoomsOf(k)') <= Cardinality(RoomsOf(k))
        /\ Cardinality(RoomsOf(k)') \in Nat /\ Cardinality(RoomsOf(k)) \in Nat
    BY <2>1, <2>2, FewerElements
  <2>4. Cardinality(RoomsOf(k)) <= MaxActivePublicRooms
    BY DEF RoomsAreSound, RoomsWithinCap
  <2>5. QED
    BY <2>3, <2>4, LimitsAreNaturals
<1>8. QED
  BY <1>2, <1>3, <1>4, <1>5, <1>6, <1>7 DEF ProfilesAreSound, RoomsAreSound

(* The commit of registerPublicRoom.                                       *)
LEMMA RoomCommitted ==
    ASSUME IInv, NEW h \in Handlers, RegisterPublicRoomCommit(h)
    PROVE  TablesAreSound'
<1> DEFINE r == task[h].request
           row == [room |-> r.room, peer |-> r.peer, username |-> r.username]
<1>1. MayOpenRoom(r)
  BY DEF IInv, WritersAreFresh, RegisterPublicRoomCommit
<1>2. /\ publicRooms' = publicRooms \cup {row}
      /\ UNCHANGED <<profiles, issuanceEvents>>
  BY DEF RegisterPublicRoomCommit
<1>3. row.room = r.room /\ row.peer = r.peer /\ row.username = r.username
  OBVIOUS
<1> HIDE DEF row, r
<1> USE DEF IInv, TablesAreSound
<1>4. TablesAreFinite'
  BY <1>2, AddOne DEF TablesAreFinite
<1>5. ProfilesAreSound'
  BY <1>2 DEF ProfilesAreSound, OneNamePerKey, ProfilesWithinSourceCap, ActiveProfiles
<1>6. IssuesAreSound'
  BY <1>2 DEF IssuesAreSound, IssuesRespectCooldown, IssuesWithinWindow
<1>7. RoomsBelongToProfiles'
  <2> SUFFICES ASSUME NEW q \in publicRooms'
               PROVE  \E p \in profiles : p.peer = q.peer /\ p.username = q.username
    BY <1>2 DEF RoomsBelongToProfiles
  <2>1. CASE q \in publicRooms
    BY <2>1 DEF RoomsAreSound, RoomsBelongToProfiles
  <2>2. CASE q = row
    BY <1>1, <1>3, <2>2 DEF MayOpenRoom, Holds
  <2>3. QED
    BY <1>2, <2>1, <2>2
<1>8. \A p, q \in publicRooms' : p.room = q.room => p = q
  BY <1>1, <1>2, <1>3 DEF MayOpenRoom, RoomTaken, RoomsAreSound, RoomsWithinCap
<1>9. ASSUME NEW k \in Peers
      PROVE  Cardinality(RoomsOf(k)') <= MaxActivePublicRooms
  <2>1. IsFiniteSet(RoomsOf(k))
    BY FewerElements DEF RoomsOf, TablesAreFinite
  <2>2. CASE k = r.peer
    <3>1. RoomsOf(k)' = RoomsOf(k) \cup {row}
      BY <1>2, <1>3, <2>2 DEF RoomsOf
    <3>2. Cardinality(RoomsOf(k)) < MaxActivePublicRooms
      BY <1>1, <2>2 DEF MayOpenRoom
    <3>3. /\ Cardinality(RoomsOf(k) \cup {row}) <= Cardinality(RoomsOf(k)) + 1
          /\ Cardinality(RoomsOf(k) \cup {row}) \in Nat /\ Cardinality(RoomsOf(k)) \in Nat
      BY <2>1, AddOne
    <3>4. Cardinality(RoomsOf(k) \cup {row}) <= MaxActivePublicRooms
      BY <3>2, <3>3, LimitsAreNaturals
    <3>5. QED
      BY <3>1, <3>4
  <2>3. CASE k # r.peer
    <3>1. RoomsOf(k)' = RoomsOf(k)
      BY <1>2, <1>3, <2>3 DEF RoomsOf
    <3>2. QED
      BY <3>1 DEF RoomsAreSound, RoomsWithinCap
  <2>4. QED
    BY <2>2, <2>3
<1>10. RoomsWithinCap'
  BY <1>8, <1>9 DEF RoomsWithinCap
<1>11. QED
  BY <1>4, <1>5, <1>6, <1>7, <1>10 DEF RoomsAreSound
-----------------------------------------------------------------------------
(* Every step of every handler keeps the tables sound and the writers      *)
(* fresh.                                                                  *)
LEMMA StepSound ==
    ASSUME IInv, [Next]_vars
    PROVE  TablesAreSound' /\ WritersAreFresh'
<1> USE DEF IInv
<1>1. ASSUME NEW h \in Handlers, RegisterProfileRead(h)
      PROVE  TablesAreSound' /\ WritersAreFresh'
  <2>1. UNCHANGED tables
    BY <1>1 DEF RegisterProfileRead, tables
  <2>2. CASE \E reply : Answer(h, reply)
    BY <2>1, <2>2, TablesUnchanged, AnswerKeepsWriters
  <2>3. CASE /\ MayIssue(task[h].request)
             /\ task' = [task EXCEPT ![h].stage = "writing", ![h].issuedAt = now]
    <3> DEFINE r == task[h].request
    <3>1. /\ task'[h].request = r /\ task'[h].issuedAt = now
          /\ \A g \in Handlers : g # h => task'[g] = task[g]
      BY <2>3 DEF TypeOK, Task
    <3>2. FreshProfileWriter(h)'
      <4>1. \A p \in profiles : p.username # r.username /\ p.peer # r.peer
        BY <2>3 DEF MayIssue, Holds, NameTaken, KeyBound
      <4>2. Cardinality(ActiveProfiles(r.source)) < MaxActiveProfilesPerSource
        BY <2>3 DEF MayIssue, SourceMayIssue
      <4>3. \A e \in issuanceEvents :
               e.source = r.source => e.issuedAt + ProfileSuccessCooldown < now
        BY <2>3, LimitsAreNaturals
        DEF MayIssue, SourceMayIssue, RecentIssues, TypeOK, IssuanceRow
      <4>4. Cardinality({e \in issuanceEvents :
                           e.source = r.source /\ e.issuedAt + ProfileSuccessWindow >= now})
              < MaxProfileSuccessesPerWindow
        BY <2>3 DEF MayIssue, SourceMayIssue, RecentIssues
      <4>5. ActiveProfiles(r.source)' = ActiveProfiles(r.source)
        BY <2>1, <3>1 DEF ActiveProfiles, tables
      <4> HIDE DEF r
      <4>6. QED
        BY <2>1, <3>1, <4>1, <4>2, <4>3, <4>4, <4>5 DEF FreshProfileWriter, ActiveProfiles, tables
    <3>3. task'[h].request.action # "register_public_room"
      BY <1>1, <3>1 DEF RegisterProfileRead, Serving
    <3>4. \A g \in Handlers : g # h =>
             /\ Serving(g, "writing", "register_profile")' => FreshProfileWriter(g)'
             /\ Serving(g, "writing", "register_public_room")' => MayOpenRoom(task[g].request)'
      BY <2>1, <3>1, WriterUnchanged
    <3>5. WritersAreFresh'
      BY <3>2, <3>3, <3>4 DEF WritersAreFresh, Serving
    <3>6. QED
      BY <2>1, <3>5, TablesUnchanged
  <2>4. QED
    BY <1>1, <2>2, <2>3 DEF RegisterProfileRead
<1>2. ASSUME NEW h \in Handlers, RegisterProfileCommit(h)
      PROVE  TablesAreSound' /\ WritersAreFresh'
  BY <1>2, ProfileCommitted, WritersOvertaken DEF RegisterProfileCommit
<1>3. ASSUME NEW h \in Handlers, ReleaseProfile(h)
      PROVE  TablesAreSound' /\ WritersAreFresh'
  <2> DEFINE r == task[h].request
  <2>1. CASE \E reply : task' = Overtake(h, reply)
    BY <1>3, <2>1, ProfileReleased, WritersOvertaken
  <2>2. CASE ~Holds(r) /\ RoomsOf(r.peer) = {} /\ Answer(h, "not_found")
    <3>1. UNCHANGED tables
      BY <1>3, <2>2 DEF ReleaseProfile, ReleasedRows, Holds, tables
    <3>2. QED
      BY <2>2, <3>1, TablesUnchanged, AnswerKeepsWriters
  <2>3. QED
    BY <1>3, <2>1, <2>2 DEF ReleaseProfile
<1>4. ASSUME NEW h \in Handlers, RegisterPublicRoomRead(h)
      PROVE  TablesAreSound' /\ WritersAreFresh'
  <2>1. UNCHANGED tables
    BY <1>4 DEF RegisterPublicRoomRead, tables
  <2>2. CASE \E reply : Answer(h, reply)
    BY <2>1, <2>2, TablesUnchanged, AnswerKeepsWriters
  <2>3. CASE /\ MayOpenRoom(task[h].request)
             /\ task' = [task EXCEPT ![h].stage = "writing"]
    <3>1. /\ task'[h].request = task[h].request
          /\ \A g \in Handlers : g # h => task'[g] = task[g]
      BY <2>3 DEF TypeOK, Task
    <3>2. MayOpenRoom(task[h].request)'
      BY <2>1, <2>3, <3>1 DEF MayOpenRoom, Holds, RoomTaken, RoomsOf, tables
    <3>3. task'[h].request.action # "register_profile"
      BY <1>4, <3>1 DEF RegisterPublicRoomRead, Serving
    <3>4. \A g \in Handlers : g # h =>
             /\ Serving(g, "writing", "register_profile")' => FreshProfileWriter(g)'
             /\ Serving(g, "writing", "register_public_room")' => MayOpenRoom(task[g].request)'
      BY <2>1, <3>1, WriterUnchanged
    <3>5. WritersAreFresh'
      BY <3>2, <3>3, <3>4 DEF WritersAreFresh, Serving
    <3>6. QED
      BY <2>1, <3>5, TablesUnchanged
  <2>4. QED
    BY <1>4, <2>2, <2>3 DEF RegisterPublicRoomRead
<1>5. ASSUME NEW h \in Handlers, RegisterPublicRoomCommit(h)
      PROVE  TablesAreSound' /\ WritersAreFresh'
  BY <1>5, RoomCommitted, WritersOvertaken DEF RegisterPublicRoomCommit
<1>6. ASSUME NEW h \in Handlers, ReleasePublicRoom(h)
      PROVE  TablesAreSound' /\ WritersAreFresh'
  <2> DEFINE r == task[h].request
  <2>1. TablesAreSound'
    BY <1>6, FewerRooms DEF ReleasePublicRoom
  <2>2. CASE task' = Overtake(h, "released")
    BY <2>1, <2>2, WritersOvertaken
  <2>3. CASE ~OwnsRoom(r) /\ Answer(h, "not_found")
    <3>1. UNCHANGED tables
      BY <1>6, <2>3 DEF ReleasePublicRoom, OwnsRoom, tables
    <3>2. QED
      BY <2>1, <2>3, <3>1, AnswerKeepsWriters
  <2>4. QED
    BY <1>6, <2>2, <2>3 DEF ReleasePublicRoom
<1>7. ASSUME NEW h \in Handlers, Fail(h)
      PROVE  TablesAreSound' /\ WritersAreFresh'
  BY <1>7, TablesUnchanged, AnswerKeepsWriters DEF Fail
<1>8. ASSUME NEW h \in Handlers, NEW r \in Requests, Accept(h, r)
      PROVE  TablesAreSound' /\ WritersAreFresh'
  <2>1. \A g \in Handlers : task'[g] = task[g] \/ task'[g].stage # "writing"
    BY <1>8 DEF Accept, TypeOK
  <2>2. QED
    BY <1>8, <2>1, TablesUnchanged, WritersUnchanged DEF Accept
<1>9. CASE Restart
  <2>1. \A g \in Handlers : task'[g].stage # "writing"
    BY <1>9 DEF Restart, Idle
  <2>2. QED
    BY <1>9, <2>1, TablesUnchanged, WritersUnchanged DEF Restart
<1>10. CASE Tick
  BY <1>10, TablesUnchanged, WritersUnchanged DEF Tick
<1>11. CASE UNCHANGED vars
  BY <1>11, TablesUnchanged, WritersUnchanged DEF vars, tables
<1>12. QED
  BY <1>1, <1>2, <1>3, <1>4, <1>5, <1>6, <1>7, <1>8, <1>9, <1>10, <1>11 DEF Next, Step

LEMMA Soundness == Spec => []IInv
<1>1. IInv /\ [Next]_vars => IInv'
  BY StepType, StepSound DEF IInv
<1>2. QED
  BY InitSound, <1>1, PTL DEF Spec
-----------------------------------------------------------------------------
(* No two keys ever hold one name and no key holds two, for any number of  *)
(* overlapping registrations and releases (registerProfile).               *)
THEOREM NamesAreUnique == Spec => []OneNamePerKey
  BY Soundness, PTL DEF IInv, TablesAreSound, ProfilesAreSound

(* Room registration and profile release never leave a room behind whose   *)
(* profile is gone (registerPublicRoom, releaseProfile).                   *)
THEOREM NoRoomWithoutProfile == Spec => []RoomsBelongToProfiles
  BY Soundness, PTL DEF IInv, TablesAreSound, RoomsAreSound

(* One owner per room, and the cap on rooms per key, for every cap.        *)
THEOREM RoomCapHolds == Spec => []RoomsWithinCap
  BY Soundness, PTL DEF IInv, TablesAreSound, RoomsAreSound

(* The cap on active profiles per source, for every cap.                   *)
THEOREM SourceCapHolds == Spec => []ProfilesWithinSourceCap
  BY Soundness, PTL DEF IInv, TablesAreSound, ProfilesAreSound

(* The cooldown between two issues to one source, for every cooldown.      *)
THEOREM CooldownHolds == Spec => []IssuesRespectCooldown
  BY Soundness, PTL DEF IInv, TablesAreSound, IssuesAreSound

(* The limit of issues per window, for every window and limit.             *)
THEOREM WindowLimitHolds == Spec => []IssuesWithinWindow
  BY Soundness, PTL DEF IInv, TablesAreSound, IssuesAreSound

(* A name is only ever taken from its holder by a release its holder       *)
(* signed (releaseProfile).                                                *)
THEOREM NamesAreKept == Spec => OnlyHolderReleases
<1>1. ASSUME TypeOK, [Next]_vars, NEW p \in profiles, p \notin profiles'
      PROVE  \E h \in Handlers :
                /\ Serving(h, "verified", "release_profile")
                /\ task[h].request.peer = p.peer
                /\ task[h].request.username = p.username
  <2>1. PICK h \in Handlers : ReleaseProfile(h)
    BY <1>1 DEF Next, Step, RegisterProfileRead, RegisterProfileCommit, RegisterPublicRoomRead,
                RegisterPublicRoomCommit, ReleasePublicRoom, Fail, Accept, Restart, Tick,
                tables, vars
  <2>2. p \in ReleasedRows(task[h].request)
    BY <1>1, <2>1 DEF ReleaseProfile
  <2>3. QED
    BY <2>1, <2>2 DEF ReleaseProfile, ReleasedRows
<1>2. TypeOK /\ [Next]_vars =>
         [\A p \in profiles : p \notin profiles' =>
             \E h \in Handlers :
                 /\ Serving(h, "verified", "release_profile")
                 /\ task[h].request.peer = p.peer
                 /\ task[h].request.username = p.username]_vars
  BY <1>1
<1>3. QED
  BY <1>2, TypeCorrect, PTL DEF Spec, OnlyHolderReleases

(* A transaction that has decided to insert has read the tables as they    *)
(* still are, whatever has committed since: SQLite's isolation is enough   *)
(* for the two handlers, they need no lock of their own (registerProfile,  *)
(* registerPublicRoom).                                                    *)
THEOREM DecisionsStayRight == Spec => []WritersAreFresh
  BY Soundness, PTL DEF IInv

(* A handler that still serves a request has not answered yet.             *)
BusyHasNoReply == \A h \in Handlers : task[h].stage # "idle" => task[h].reply = "none"

\* What a step of one handler does to the others: at most it makes them stale.
LEMMA OthersKeepReply ==
    ASSUME TypeOK, NEW h \in Handlers, NEW g \in Handlers, g # h,
           \/ \E reply : task' = Overtake(h, reply)
           \/ \E reply : Answer(h, reply)
           \/ task' = [task EXCEPT ![h].stage = "writing"]
           \/ task' = [task EXCEPT ![h].stage = "writing", ![h].issuedAt = now]
    PROVE  /\ task'[g].reply = task[g].reply
           /\ task'[g].stage # "idle" => task[g].stage # "idle"
<1>1. CASE \E reply : task' = Overtake(h, reply)
  BY <1>1 DEF Overtake, TypeOK, Task
<1>2. CASE \E reply : Answer(h, reply)
  BY <1>2 DEF Answer, TypeOK, Task
<1>3. CASE task' = [task EXCEPT ![h].stage = "writing"]
  BY <1>3 DEF TypeOK, Task
<1>4. CASE task' = [task EXCEPT ![h].stage = "writing", ![h].issuedAt = now]
  BY <1>4 DEF TypeOK, Task
<1>5. QED
  BY <1>1, <1>2, <1>3, <1>4

\* The four ways a step of a handler changes what the handlers do.
LEMMA StepShape ==
    ASSUME NEW h \in Handlers, Step(h)
    PROVE  \/ \E reply : task' = Overtake(h, reply)
           \/ \E reply : Answer(h, reply)
           \/ task' = [task EXCEPT ![h].stage = "writing"]
           \/ task' = [task EXCEPT ![h].stage = "writing", ![h].issuedAt = now]
  BY DEF Step, RegisterProfileRead, RegisterProfileCommit, ReleaseProfile,
         RegisterPublicRoomRead, RegisterPublicRoomCommit, ReleasePublicRoom, Fail

LEMMA AnswersEndTheWork ==
    ASSUME TypeOK, NEW h \in Handlers, task[h].stage # "idle" => task[h].reply = "none",
           Step(h)
    PROVE  task'[h].stage # "idle" => task'[h].reply = "none"
<1>1. CASE \E reply : task' = Overtake(h, reply) \/ Answer(h, reply)
  BY <1>1 DEF Overtake, Answer, Idle, TypeOK, Task
<1>2. CASE \/ task' = [task EXCEPT ![h].stage = "writing"]
           \/ task' = [task EXCEPT ![h].stage = "writing", ![h].issuedAt = now]
  <2>1. task[h].stage # "idle"
    BY <1>2, NoneIsNoAction DEF Step, Serving, RegisterProfileRead, RegisterProfileCommit,
       ReleaseProfile, RegisterPublicRoomRead, RegisterPublicRoomCommit, ReleasePublicRoom, Fail
  <2>2. task'[h].reply = task[h].reply
    BY <1>2 DEF TypeOK, Task
  <2>3. QED
    BY <2>1, <2>2
<1>3. QED
  BY <1>1, <1>2, StepShape

LEMMA NoReplyYet == Spec => []BusyHasNoReply
<1>1. Init => BusyHasNoReply
  BY DEF Init, BusyHasNoReply, Idle
<1>2. TypeOK /\ BusyHasNoReply /\ [Next]_vars => BusyHasNoReply'
  <2> SUFFICES ASSUME TypeOK, BusyHasNoReply, [Next]_vars
               PROVE  BusyHasNoReply'
    OBVIOUS
  <2>1. ASSUME NEW h \in Handlers, Step(h)
        PROVE  BusyHasNoReply'
    BY <2>1, AnswersEndTheWork, StepShape, OthersKeepReply DEF BusyHasNoReply
  <2>2. ASSUME NEW h \in Handlers, NEW r \in Requests, Accept(h, r)
        PROVE  BusyHasNoReply'
    BY <2>2 DEF Accept, BusyHasNoReply, TypeOK
  <2>3. CASE Restart
    BY <2>3 DEF Restart, BusyHasNoReply, Idle
  <2>4. CASE Tick \/ UNCHANGED vars
    BY <2>4 DEF Tick, BusyHasNoReply, vars
  <2>5. QED
    BY <2>1, <2>2, <2>3, <2>4 DEF Next
<1>3. QED
  BY <1>1, <1>2, TypeCorrect, PTL DEF Spec

(* "created" is never answered for a name or a room that the key does not  *)
(* hold at that moment, in the fast path of a row that exists already and  *)
(* after the commit alike (registerProfile, registerPublicRoom).           *)
LEMMA CreatedAnswer ==
    ASSUME IInv, NEW h \in Handlers, Step(h), task[h].reply # "created",
           task'[h].reply = "created"
    PROVE  /\ \E p \in profiles' : /\ p.username = task[h].request.username
                                   /\ p.peer = task[h].request.peer
           /\ task[h].request.action = "register_public_room" =>
                 \E q \in publicRooms' : /\ q.room = task[h].request.room
                                        /\ q.peer = task[h].request.peer
<1> DEFINE r == task[h].request
<1>1. TypeOK
  BY DEF IInv
<1>2. \A reply : \/ task' = Overtake(h, reply)
                 \/ Answer(h, reply)
                 => reply = "created"
  BY <1>1 DEF Overtake, Answer, Idle, TypeOK, Task
<1>3. CASE RegisterProfileRead(h)
  <2>1. Answer(h, "created") /\ Holds(r)
    BY <1>1, <1>2, <1>3 DEF RegisterProfileRead, TypeOK, Task
  <2>2. QED
    BY <1>3, <2>1 DEF RegisterProfileRead, Serving, Holds, tables
<1>4. CASE RegisterProfileCommit(h)
  <2>1. RowOf(r) \in profiles' /\ r.action = "register_profile"
    BY <1>4 DEF RegisterProfileCommit, Serving
  <2>2. RowOf(r).username = r.username /\ RowOf(r).peer = r.peer
    BY DEF RowOf
  <2>3. QED
    BY <2>1, <2>2
<1>5. CASE ReleaseProfile(h)
  BY <1>2, <1>5 DEF ReleaseProfile
<1>6. CASE RegisterPublicRoomRead(h)
  <2>1. Answer(h, "created") /\ Holds(r) /\ OwnsRoom(r)
    BY <1>1, <1>2, <1>6 DEF RegisterPublicRoomRead, TypeOK, Task
  <2>2. QED
    BY <1>6, <2>1 DEF RegisterPublicRoomRead, OwnsRoom, Holds, tables
<1>7. CASE RegisterPublicRoomCommit(h)
  <2>1. Holds(r)
    BY <1>7 DEF IInv, WritersAreFresh, RegisterPublicRoomCommit, MayOpenRoom
  <2>2. PICK p \in profiles' : p.username = r.username /\ p.peer = r.peer
    BY <1>7, <2>1 DEF RegisterPublicRoomCommit, Holds
  <2> DEFINE row == [room |-> r.room, peer |-> r.peer, username |-> r.username]
  <2>3. row \in publicRooms'
    BY <1>7 DEF RegisterPublicRoomCommit
  <2>4. row.room = r.room /\ row.peer = r.peer
    OBVIOUS
  <2> HIDE DEF row
  <2>5. QED
    BY <2>2, <2>3, <2>4
<1>8. CASE ReleasePublicRoom(h) \/ Fail(h)
  BY <1>2, <1>8 DEF ReleasePublicRoom, Fail
<1>9. QED
  BY <1>3, <1>4, <1>5, <1>6, <1>7, <1>8 DEF Step

(* The answer "created" is always true when it is given, whatever releases *)
(* and other registrations overlap the request (registerProfile,           *)
(* registerPublicRoom).                                                    *)
THEOREM CreatedTellsTheTruth == Spec => CreatedIsTrue
<1>1. ASSUME IInv, BusyHasNoReply, [Next]_vars,
             NEW h \in Handlers, task[h].stage # "idle", task'[h].reply = "created"
      PROVE  /\ \E p \in profiles' : /\ p.username = task[h].request.username
                                     /\ p.peer = task[h].request.peer
             /\ task[h].request.action = "register_public_room" =>
                   \E q \in publicRooms' : /\ q.room = task[h].request.room
                                          /\ q.peer = task[h].request.peer
  <2>1. task[h].reply = "none"
    BY <1>1 DEF BusyHasNoReply
  <2>2. CASE Step(h)
    BY <1>1, <2>1, <2>2, CreatedAnswer
  <2>3. ASSUME NEW g \in Handlers, g # h, Step(g)
        PROVE  FALSE
    <3>1. TypeOK
      BY <1>1 DEF IInv
    <3>2. task'[h].reply = task[h].reply
      BY <1>1, <2>3, <3>1, StepShape, OthersKeepReply
    <3>3. QED
      BY <1>1, <2>1, <3>2
  <2>4. ASSUME NEW g \in Handlers, NEW r \in Requests, Accept(g, r)
        PROVE  FALSE
    BY <1>1, <2>1, <2>4 DEF Accept, IInv, TypeOK
  <2>5. CASE Restart
    BY <1>1, <2>5 DEF Restart, Idle
  <2>6. CASE Tick \/ UNCHANGED vars
    BY <1>1, <2>1, <2>6 DEF Tick, vars
  <2>7. QED
    BY <1>1, <2>2, <2>3, <2>4, <2>5, <2>6 DEF Next
<1>2. IInv /\ BusyHasNoReply /\ [Next]_vars =>
         [\A h \in Handlers :
             LET r == task[h].request IN
             task[h].stage # "idle" /\ task'[h].reply = "created" =>
                 /\ \E p \in profiles' : p.username = r.username /\ p.peer = r.peer
                 /\ r.action = "register_public_room" =>
                       \E q \in publicRooms' : q.room = r.room /\ q.peer = r.peer]_vars
  BY <1>1, Zenon
<1>3. QED
  BY <1>2, Soundness, NoReplyYet, PTL DEF Spec, CreatedIsTrue
-----------------------------------------------------------------------------
(* Refinement.  A release, of a name or of a room, removes from the mapped *)
(* tables what Withdraw and CloseRoom remove.                              *)
LEMMA ReleaseMaps ==
    ASSUME TypeOK, NEW h \in Handlers, ReleaseProfile(h)
    PROVE  Service!Withdraw(task[h].request.username, task[h].request.peer)
<1> DEFINE r == task[h].request
<1>1. /\ publicRooms' = publicRooms \ RoomsOf(r.peer)
      /\ profiles' = profiles \ ReleasedRows(r)
  BY DEF ReleaseProfile
<1> HIDE DEF r
<1>2. namesHeld' = namesHeld \ {[username |-> r.username, peer |-> r.peer]}
  <2>1. \A p \in profiles : p \in ReleasedRows(r) <=>
           [username |-> p.username, peer |-> p.peer] = [username |-> r.username, peer |-> r.peer]
    BY DEF ReleasedRows
  <2>2. QED
    BY <1>1, <2>1 DEF namesHeld
<1>3. roomsOwned' = {q \in roomsOwned : q.peer # r.peer}
  <2>1. \A q \in publicRooms : q \in RoomsOf(r.peer) <=> [room |-> q.room, peer |-> q.peer].peer = r.peer
    BY DEF RoomsOf
  <2>2. QED
    BY <1>1, <2>1 DEF roomsOwned
<1>4. QED
  BY <1>2, <1>3 DEF Service!Withdraw, r

LEMMA CloseMaps ==
    ASSUME TypeOK, NEW h \in Handlers, ReleasePublicRoom(h)
    PROVE  Service!CloseRoom(task[h].request.room, task[h].request.peer)
<1> DEFINE r == task[h].request
<1>1. /\ publicRooms' = {q \in publicRooms : ~(q.room = r.room /\ q.peer = r.peer)}
      /\ profiles' = profiles
  BY DEF ReleasePublicRoom
<1> HIDE DEF r
<1>2. roomsOwned' = roomsOwned \ {[room |-> r.room, peer |-> r.peer]}
  BY <1>1 DEF roomsOwned
<1>3. QED
  BY <1>1, <1>2 DEF Service!CloseRoom, namesHeld, r

(* The commits of the two registrations.                                   *)
LEMMA GrantMaps ==
    ASSUME IInv, NEW h \in Handlers, RegisterProfileCommit(h)
    PROVE  Service!Grant(task[h].request.username, task[h].request.peer)
<1> DEFINE r == task[h].request
           row == [username |-> r.username, peer |-> r.peer, source |-> r.source]
<1>1. \A p \in profiles : p.username # r.username /\ p.peer # r.peer
  BY DEF IInv, WritersAreFresh, RegisterProfileCommit, FreshProfileWriter
<1>2. profiles' = profiles \cup {row} /\ publicRooms' = publicRooms
  BY DEF RegisterProfileCommit, RowOf
<1>3. row.username = r.username /\ row.peer = r.peer
  OBVIOUS
<1> HIDE DEF row, r
<1>4. \A n \in namesHeld : n.username # r.username /\ n.peer # r.peer
  BY <1>1 DEF namesHeld
<1>5. namesHeld' = namesHeld \cup {[username |-> r.username, peer |-> r.peer]}
  BY <1>2, <1>3 DEF namesHeld
<1>6. roomsOwned' = roomsOwned
  BY <1>2 DEF roomsOwned
<1>7. QED
  BY <1>4, <1>5, <1>6 DEF Service!Grant, r

(* NameService has its own instance of Cardinality.                        *)
LEMMA SameCardinality ==
    ASSUME NEW S
    PROVE  Service!Cardinality(S) = Cardinality(S)
  BY DEF Service!Cardinality, Cardinality

LEMMA OpenMaps ==
    ASSUME IInv, NEW h \in Handlers, RegisterPublicRoomCommit(h)
    PROVE  Service!OpenRoom(task[h].request.room, task[h].request.peer)
<1> DEFINE r == task[h].request
           row == [room |-> r.room, peer |-> r.peer, username |-> r.username]
           Mine == {q \in roomsOwned : q.peer = r.peer}
           image == [q \in RoomsOf(r.peer) |-> [room |-> q.room, peer |-> q.peer]]
<1>1. MayOpenRoom(r)
  BY DEF IInv, WritersAreFresh, RegisterPublicRoomCommit
<1>2. publicRooms' = publicRooms \cup {row} /\ profiles' = profiles
  BY DEF RegisterPublicRoomCommit
<1>3. row.room = r.room /\ row.peer = r.peer
  OBVIOUS
<1> HIDE DEF row, r
<1>4. Service!HasName(r.peer)
  <2>1. PICK p \in profiles : p.username = r.username /\ p.peer = r.peer
    BY <1>1 DEF MayOpenRoom, Holds
  <2>2. [username |-> p.username, peer |-> p.peer] \in namesHeld
    BY DEF namesHeld
  <2>3. QED
    BY <2>1, <2>2 DEF Service!HasName
<1>5. \A q \in roomsOwned : q.room # r.room
  BY <1>1 DEF MayOpenRoom, RoomTaken, roomsOwned
<1>6. image \in Surjection(RoomsOf(r.peer), Mine)
  <2>1. \A q \in RoomsOf(r.peer) : image[q] \in Mine
    BY DEF RoomsOf, roomsOwned
  <2>2. \A m \in Mine : \E q \in RoomsOf(r.peer) : image[q] = m
    BY DEF RoomsOf, roomsOwned
  <2>3. QED
    BY <2>1, <2>2 DEF Surjection
<1>7. IsFiniteSet(RoomsOf(r.peer))
  BY FewerElements DEF RoomsOf, IInv, TablesAreSound, TablesAreFinite
<1> HIDE DEF Mine, image
<1>8. /\ Cardinality(Mine) <= Cardinality(RoomsOf(r.peer))
      /\ Cardinality(Mine) \in Nat /\ Cardinality(RoomsOf(r.peer)) \in Nat
  BY <1>6, <1>7, FS_Surjection, FS_CardinalityType
<1>9. Cardinality(Mine) < MaxActivePublicRooms
  BY <1>1, <1>8, LimitsAreNaturals DEF MayOpenRoom
<1>10. roomsOwned' = roomsOwned \cup {[room |-> r.room, peer |-> r.peer]}
  BY <1>2, <1>3 DEF roomsOwned
<1>11. namesHeld' = namesHeld
  BY <1>2 DEF namesHeld
<1>12. QED
  BY <1>4, <1>5, <1>9, <1>10, <1>11, SameCardinality DEF Service!OpenRoom, Mine, r

(* A step that leaves both tables alone is a stutter of the service.       *)
LEMMA OtherStepsStutter ==
    ASSUME profiles' = profiles, publicRooms' = publicRooms
    PROVE  UNCHANGED <<namesHeld, roomsOwned>>
  BY DEF namesHeld, roomsOwned

LEMMA StepMaps ==
    ASSUME IInv, [Next]_vars
    PROVE  [Service!Next]_<<namesHeld, roomsOwned>>
<1>1. ASSUME NEW h \in Handlers, RegisterProfileCommit(h)
      PROVE  Service!Next
  <2>1. task[h].request.username \in Usernames /\ task[h].request.peer \in Peers
    BY <1>1, RequestFields DEF IInv, TypeOK, Task, RegisterProfileCommit, Serving
  <2>2. QED
    BY <1>1, <2>1, GrantMaps DEF Service!Next
<1>2. ASSUME NEW h \in Handlers, ReleaseProfile(h)
      PROVE  Service!Next
  <2>1. task[h].request.username \in Usernames /\ task[h].request.peer \in Peers
    BY <1>2, NoneIsNoAction
    DEF IInv, TypeOK, Task, ReleaseProfile, Serving, Requests, Request, NoRequest
  <2>2. QED
    BY <1>2, <2>1, ReleaseMaps DEF Service!Next, IInv
<1>3. ASSUME NEW h \in Handlers, RegisterPublicRoomCommit(h)
      PROVE  Service!Next
  <2>1. task[h].request.room \in Rooms /\ task[h].request.peer \in Peers
    BY <1>3, RequestFields DEF IInv, TypeOK, Task, RegisterPublicRoomCommit, Serving
  <2>2. QED
    BY <1>3, <2>1, OpenMaps DEF Service!Next
<1>4. ASSUME NEW h \in Handlers, ReleasePublicRoom(h)
      PROVE  Service!Next
  <2>1. task[h].request.room \in Rooms /\ task[h].request.peer \in Peers
    BY <1>4, NoneIsNoAction
    DEF IInv, TypeOK, Task, ReleasePublicRoom, Serving, Requests, Request, NoRequest
  <2>2. QED
    BY <1>4, <2>1, CloseMaps DEF Service!Next, IInv
<1>5. ASSUME NEW h \in Handlers, RegisterProfileRead(h) \/ RegisterPublicRoomRead(h) \/ Fail(h)
      PROVE  UNCHANGED <<namesHeld, roomsOwned>>
  BY <1>5, OtherStepsStutter DEF RegisterProfileRead, RegisterPublicRoomRead, Fail, tables
<1>6. ASSUME NEW h \in Handlers, NEW r \in Requests, Accept(h, r)
      PROVE  UNCHANGED <<namesHeld, roomsOwned>>
  BY <1>6, OtherStepsStutter DEF Accept, tables
<1>7. CASE Restart \/ Tick \/ UNCHANGED vars
  BY <1>7, OtherStepsStutter DEF Restart, Tick, vars, tables
<1>8. QED
  BY <1>1, <1>2, <1>3, <1>4, <1>5, <1>6, <1>7 DEF Next, Step

(* Any number of overlapping handlers look like requests served one at a   *)
(* time: the tables implement NameService.                                 *)
THEOREM TablesImplementService == Spec => ImplementsService
<1>1. Init => Service!Init
  BY DEF Init, Service!Init, namesHeld, roomsOwned
<1>2. QED
  BY <1>1, StepMaps, Soundness, PTL DEF Spec, ImplementsService, Service!Spec

-----------------------------------------------------------------------------
(* The whole server.  Its steps on the tables are steps of Registry, so    *)
(* what is proved of the tables holds here too.  The rest follows one      *)
(* nonce: it is issued once, it waits in the map with what it was issued   *)
(* for, it is presented at most once, and each handler that serves a       *)
(* request has used up one of its own.                                     *)

Birth == [peer: Peers, action: Actions, at: Nat, lost: BOOLEAN]

\* Nonces presented that were issued to k for registering a profile.
Spent(k) == {n \in presented : born[n].peer = k /\ born[n].action = "register_profile"}

\* Profiles issued to k, and the handlers that may still issue one.
Issued(k) == {e \in issuanceEvents : e.peer = k}
Registering(k) ==
    {h \in Handlers : /\ task[h].stage # "idle"
                      /\ task[h].request.peer = k
                      /\ task[h].request.action = "register_profile"}

HistoryIsSound ==
    /\ born \in Seq(Birth)
    /\ presented \subseteq DOMAIN born

\* A challenge in the map has never been presented and is what it was issued as.
ChallengesAreSound ==
    \A c \in challenges :
        /\ c.nonce \in DOMAIN born
        /\ c.nonce \notin presented
        /\ born[c.nonce].peer = c.peer
        /\ born[c.nonce].action = c.action
        /\ c.expiry = born[c.nonce].at + ChallengeTTL
        /\ ~born[c.nonce].lost

\* One nonce of k is spent for each profile it got and each it may still get.
IssuesAreSpent ==
    \A k \in Peers :
        /\ IsFiniteSet(Registering(k))
        /\ IsFiniteSet(Spent(k))
        /\ Cardinality(Issued(k)) + Cardinality(Registering(k)) <= Cardinality(Spent(k))

ServerInv == IInv /\ HistoryIsSound /\ ChallengesAreSound /\ IssuesAreSpent
-----------------------------------------------------------------------------
(* The server and the tables: each step of the one is a step of the other  *)
(* or leaves it alone.                                                     *)
LEMMA ServerStepsAreSteps == [ServerNext]_serverVars => [Next]_vars
  BY DEF ServerNext, serverVars, AdmitChallenge, TurnAwayChallenge, IssueChallenge, RejectChallenge, Verify,
         ServerRestart, ServerStep, ServerTick, Next

(* The challenges in front of the tables restrict which requests reach     *)
(* them and change nothing else: whatever Registry promises, the server    *)
(* keeps (verifySignedRequest and the four handlers behind it).            *)
THEOREM ServerImplementsRegistry == ServerSpec => Spec
<1>1. ServerInit => Init
  BY DEF ServerInit
<1>2. QED
  BY <1>1, ServerStepsAreSteps, PTL DEF ServerSpec, Spec

(* So the cap on active profiles of one source holds for the whole server. *)
THEOREM ServerKeepsSourceCap == ServerSpec => []ProfilesWithinSourceCap
  BY ServerImplementsRegistry, SourceCapHolds, PTL
-----------------------------------------------------------------------------
\* Nothing is known of nobody: the empty sets of the initial state.
LEMMA ServerInitEstablishes == ServerInit => HistoryIsSound /\ ChallengesAreSound /\ IssuesAreSpent
<1> SUFFICES ASSUME ServerInit PROVE HistoryIsSound /\ ChallengesAreSound /\ IssuesAreSpent
  OBVIOUS
<1>1. HistoryIsSound /\ ChallengesAreSound
  BY DEF ServerInit, HistoryIsSound, ChallengesAreSound
<1>2. ASSUME NEW k \in Peers
      PROVE  Issued(k) = {} /\ Registering(k) = {} /\ Spent(k) = {}
  BY DEF ServerInit, Init, Idle, Issued, Registering, Spent
<1>3. QED
  BY <1>1, <1>2, FS_EmptySet DEF IssuesAreSpent

\* The finite sets of IssuesAreSpent have natural numbers for sizes.
LEMMA CountsAreNaturals ==
    ASSUME IInv, IssuesAreSpent, NEW k \in Peers
    PROVE  /\ IsFiniteSet(Issued(k)) /\ Cardinality(Issued(k)) \in Nat
           /\ IsFiniteSet(Registering(k)) /\ Cardinality(Registering(k)) \in Nat
           /\ IsFiniteSet(Spent(k)) /\ Cardinality(Spent(k)) \in Nat
<1>1. IsFiniteSet(issuanceEvents)
  BY DEF IInv, TablesAreSound, TablesAreFinite
<1>2. IsFiniteSet(Issued(k))
  BY <1>1, FS_Subset DEF Issued
<1>3. QED
  BY <1>2, FS_CardinalityType DEF IssuesAreSpent

\* Fewer registrations under way and no fewer nonces spent keep the balance.
LEMMA BalanceKept ==
    ASSUME IInv, IssuesAreSpent, NEW k \in Peers,
           Issued(k)' = Issued(k), Registering(k)' \subseteq Registering(k),
           IsFiniteSet(Spent(k)'), Spent(k) \subseteq Spent(k)'
    PROVE  /\ IsFiniteSet(Registering(k)')
           /\ Cardinality(Issued(k)') + Cardinality(Registering(k)') <= Cardinality(Spent(k)')
<1>1. /\ IsFiniteSet(Registering(k)') /\ Cardinality(Registering(k)') \in Nat
      /\ Cardinality(Registering(k)') <= Cardinality(Registering(k))
  BY CountsAreNaturals, FewerElements
<1>2. /\ Cardinality(Spent(k)') \in Nat
      /\ Cardinality(Spent(k)) <= Cardinality(Spent(k)')
  BY FewerElements
<1>3. Cardinality(Issued(k)) + Cardinality(Registering(k)) <= Cardinality(Spent(k))
  BY DEF IssuesAreSpent
<1>4. QED
  BY <1>1, <1>2, <1>3, CountsAreNaturals

\* A step of a handler takes up no request.
LEMMA NothingTakenUp ==
    ASSUME TypeOK, NEW h \in Handlers, Step(h), NEW g \in Handlers, task'[g].stage # "idle"
    PROVE  /\ task[g].stage # "idle"
           /\ task'[g].request = task[g].request
<1>1. CASE \E reply : task' = Overtake(h, reply)
  BY <1>1 DEF Overtake, Idle, TypeOK, Task
<1>2. CASE \E reply : Answer(h, reply)
  BY <1>2 DEF Answer, Idle, TypeOK, Task
<1>3. CASE \/ task' = [task EXCEPT ![h].stage = "writing"]
           \/ task' = [task EXCEPT ![h].stage = "writing", ![h].issuedAt = now]
  <2>1. task[h].stage # "idle"
    BY NoneIsNoAction DEF Step, Serving, RegisterProfileRead, RegisterProfileCommit,
       ReleaseProfile, RegisterPublicRoomRead, RegisterPublicRoomCommit, ReleasePublicRoom, Fail
  <2>2. QED
    BY <1>3, <2>1 DEF TypeOK, Task
<1>4. QED
  BY <1>1, <1>2, <1>3, StepShape
-----------------------------------------------------------------------------
\* A handler's step: only the commit issues, and its handler is then done.
LEMMA StepBalances ==
    ASSUME ServerInv, ServerStep
    PROVE  HistoryIsSound' /\ ChallengesAreSound' /\ IssuesAreSpent'
<1>1. PICK h \in Handlers : Step(h)
  BY DEF ServerStep
<1>2. UNCHANGED <<challenges, born, presented>>
  BY DEF ServerStep
<1>3. HistoryIsSound' /\ ChallengesAreSound'
  BY <1>2 DEF ServerInv, HistoryIsSound, ChallengesAreSound
<1>4. TypeOK
  BY DEF ServerInv, IInv
<1>5. ASSUME NEW k \in Peers
      PROVE  /\ IsFiniteSet(Registering(k)') /\ IsFiniteSet(Spent(k)')
             /\ Cardinality(Issued(k)') + Cardinality(Registering(k)') <= Cardinality(Spent(k)')
  <2>1. Spent(k)' = Spent(k)
    BY <1>2 DEF Spent
  <2>2. Registering(k)' \subseteq Registering(k)
    BY <1>1, <1>4, NothingTakenUp DEF Registering
  <2>3. IsFiniteSet(Spent(k)')
    BY <2>1, CountsAreNaturals DEF ServerInv
  <2>4. CASE Issued(k)' = Issued(k)
    BY <2>1, <2>2, <2>3, <2>4, BalanceKept DEF ServerInv
  <2>5. CASE Issued(k)' # Issued(k)
    <3>1. RegisterProfileCommit(h)
      BY <1>1, <2>5 DEF Step, RegisterProfileRead, ReleaseProfile, RegisterPublicRoomRead,
         RegisterPublicRoomCommit, ReleasePublicRoom, Fail, tables, Issued
    <3>2. PICK e : issuanceEvents' = issuanceEvents \cup {e} /\ e.peer = task[h].request.peer
      <4> DEFINE r == task[h].request
                 row == [username |-> r.username, peer |-> r.peer, source |-> r.source,
                         issuedAt |-> task[h].issuedAt]
      <4>1. issuanceEvents' = issuanceEvents \cup {row}
        BY <3>1 DEF RegisterProfileCommit
      <4>2. row.peer = r.peer
        OBVIOUS
      <4> HIDE DEF row
      <4>3. QED
        BY <4>1, <4>2
    <3>3. e.peer = k
      BY <2>5, <3>2 DEF Issued
    <3>4. Issued(k)' = Issued(k) \cup {e}
      BY <3>2, <3>3 DEF Issued
    <3>5. h \in Registering(k)
      BY <3>1, <3>2, <3>3 DEF RegisterProfileCommit, Serving, Registering
    <3>6. h \notin Registering(k)'
      BY <3>1, <1>4 DEF RegisterProfileCommit, Registering, Overtake, Idle
    <3>7. /\ IsFiniteSet(Registering(k) \ {h})
          /\ Cardinality(Registering(k) \ {h}) = Cardinality(Registering(k)) - 1
      BY <3>5, CountsAreNaturals, FS_RemoveElement DEF ServerInv
    <3>8. Registering(k)' \subseteq Registering(k) \ {h}
      BY <2>2, <3>6
    <3>9. /\ IsFiniteSet(Registering(k)') /\ Cardinality(Registering(k)') \in Nat
          /\ Cardinality(Registering(k)') <= Cardinality(Registering(k)) - 1
      BY <3>7, <3>8, FewerElements
    <3>10. /\ Cardinality(Issued(k)') \in Nat
           /\ Cardinality(Issued(k)') <= Cardinality(Issued(k)) + 1
      BY <3>4, CountsAreNaturals, AddOne DEF ServerInv
    <3>11. Cardinality(Issued(k)) + Cardinality(Registering(k)) <= Cardinality(Spent(k))
      BY DEF ServerInv, IssuesAreSpent
    <3>12. Cardinality(Issued(k)') + Cardinality(Registering(k)') <= Cardinality(Spent(k))
      BY <3>9, <3>10, <3>11, CountsAreNaturals DEF ServerInv
    <3>13. QED
      BY <2>1, <2>3, <3>9, <3>12
  <2>6. QED
    BY <2>4, <2>5
<1>6. QED
  BY <1>3, <1>5 DEF IssuesAreSpent

\* A request accepted has matched a challenge that nobody had presented before.
LEMMA MatchedChallenge ==
    ASSUME ServerInv, NEW nonce, NEW peer, NEW action, Matches(now, nonce, peer, action)
    PROVE  /\ nonce \in DOMAIN born /\ nonce \notin presented
           /\ born[nonce].peer = peer /\ born[nonce].action = action
           /\ now <= born[nonce].at + ChallengeTTL
           /\ ~born[nonce].lost
  BY DEF ServerInv, ChallengesAreSound, Matches, Unexpired

\* The request is presented: its nonce leaves the map, whatever comes of it.
LEMMA VerifyBalances ==
    ASSUME ServerInv, NEW h \in Handlers, NEW r \in Requests, NEW nonce \in DOMAIN born,
           NEW signed \in BOOLEAN, Verify(h, r, nonce, signed)
    PROVE  HistoryIsSound' /\ ChallengesAreSound' /\ IssuesAreSpent'
<1>1. /\ presented' = presented \cup {nonce} /\ born' = born
      /\ challenges' = {c \in Unexpired(now) : c.nonce # nonce}
      /\ issuanceEvents' = issuanceEvents
  BY DEF Verify, ConsumeChallenge, Accept, vars, tables
<1>2. HistoryIsSound' /\ ChallengesAreSound'
  BY <1>1 DEF ServerInv, HistoryIsSound, ChallengesAreSound, Unexpired
<1>3. TypeOK
  BY DEF ServerInv, IInv
<1>4. ASSUME NEW k \in Peers
      PROVE  /\ IsFiniteSet(Registering(k)') /\ IsFiniteSet(Spent(k)')
             /\ Cardinality(Issued(k)') + Cardinality(Registering(k)') <= Cardinality(Spent(k)')
  <2> DEFINE mine == born[nonce].peer = k /\ born[nonce].action = "register_profile"
  <2>1. Spent(k)' = IF mine THEN Spent(k) \cup {nonce} ELSE Spent(k)
    BY <1>1 DEF Spent
  <2>2. Issued(k)' = Issued(k)
    BY <1>1 DEF Issued
  <2> HIDE DEF mine
  <2>3. IsFiniteSet(Spent(k)') /\ Spent(k) \subseteq Spent(k)'
    BY <2>1, CountsAreNaturals, FS_AddElement DEF ServerInv
  <2>4. CASE Registering(k)' \subseteq Registering(k)
    BY <2>2, <2>3, <2>4, BalanceKept DEF ServerInv
  <2>5. CASE ~(Registering(k)' \subseteq Registering(k))
    <3>1. Accept(h, r) /\ Matches(now, nonce, r.peer, r.action)
      BY <2>5 DEF Verify, vars, Registering
    <3>2. \A g \in Handlers : g # h => task'[g] = task[g]
      BY <1>3, <3>1 DEF Accept, TypeOK
    <3>3. task'[h].request = r /\ task[h].stage = "idle"
      BY <1>3, <3>1 DEF Accept, TypeOK
    <3>4. r.peer = k /\ r.action = "register_profile"
      BY <2>5, <3>2, <3>3 DEF Registering
    <3>5. mine /\ nonce \notin Spent(k)
      BY <3>1, <3>4, MatchedChallenge DEF mine, Spent
    <3>6. Registering(k)' \subseteq Registering(k) \cup {h}
      BY <3>2 DEF Registering
    <3>7. /\ IsFiniteSet(Registering(k)') /\ Cardinality(Registering(k)') \in Nat
          /\ Cardinality(Registering(k)') <= Cardinality(Registering(k)) + 1
      <4>1. /\ IsFiniteSet(Registering(k) \cup {h})
            /\ Cardinality(Registering(k) \cup {h}) \in Nat
            /\ Cardinality(Registering(k) \cup {h}) <= Cardinality(Registering(k)) + 1
        BY CountsAreNaturals, AddOne DEF ServerInv
      <4>2. QED
        BY <3>6, <4>1, FewerElements, CountsAreNaturals DEF ServerInv
    <3>8. Cardinality(Spent(k)') = Cardinality(Spent(k)) + 1
      BY <2>1, <3>5, CountsAreNaturals, FS_AddElement DEF ServerInv
    <3>9. Cardinality(Issued(k)) + Cardinality(Registering(k)) <= Cardinality(Spent(k))
      BY DEF ServerInv, IssuesAreSpent
    <3>10. QED
      BY <2>2, <2>3, <3>7, <3>8, <3>9, CountsAreNaturals DEF ServerInv
  <2>6. QED
    BY <2>4, <2>5
<1>5. QED
  BY <1>2, <1>4 DEF IssuesAreSpent

\* Steps that neither present a nonce nor touch the tables and the handlers.
LEMMA HistoryKept ==
    ASSUME ServerInv, issuanceEvents' = issuanceEvents, presented' = presented,
           \A n \in DOMAIN born : born'[n].peer = born[n].peer /\ born'[n].action = born[n].action,
           \/ task' = task
           \/ \A h \in Handlers : task'[h].stage = "idle"
    PROVE  IssuesAreSpent'
<1>1. ASSUME NEW k \in Peers
      PROVE  /\ IsFiniteSet(Registering(k)') /\ IsFiniteSet(Spent(k)')
             /\ Cardinality(Issued(k)') + Cardinality(Registering(k)') <= Cardinality(Spent(k)')
  <2>1. Spent(k)' = Spent(k)
    BY DEF Spent, ServerInv, HistoryIsSound
  <2>2. Issued(k)' = Issued(k)
    BY DEF Issued
  <2>3. Registering(k)' \subseteq Registering(k)
    BY DEF Registering
  <2>4. QED
    BY <2>1, <2>2, <2>3, BalanceKept, CountsAreNaturals DEF ServerInv
<1>2. QED
  BY <1>1 DEF IssuesAreSpent

\* A new challenge gets a nonce nobody has seen.
LEMMA IssueBalances ==
    ASSUME ServerInv, NEW pass, NEW peer \in Peers, NEW action \in Actions,
           IssueChallenge(pass, peer, action)
    PROVE  HistoryIsSound' /\ ChallengesAreSound' /\ IssuesAreSpent'
<1> DEFINE birth == [peer |-> peer, action |-> action, at |-> now, lost |-> FALSE]
<1>1. born \in Seq(Birth) /\ birth \in Birth /\ now \in Nat
  BY DEF ServerInv, HistoryIsSound, Birth, IInv, TypeOK
<1>2. /\ born' = Append(born, birth) /\ presented' = presented
      /\ issuanceEvents' = issuanceEvents /\ task' = task
  BY DEF IssueChallenge, vars, tables
<1>3. /\ birth.peer = peer /\ birth.action = action /\ birth.at = now /\ ~birth.lost
  OBVIOUS
<1> HIDE DEF birth
<1>4. /\ born' \in Seq(Birth) /\ Len(born') = Len(born) + 1 /\ Len(born) \in Nat
      /\ DOMAIN born = 1..Len(born) /\ DOMAIN born' = 1..(Len(born) + 1)
      /\ \A n \in DOMAIN born : born'[n] = born[n]
      /\ born'[Len(born) + 1] = birth
  BY <1>1, <1>2, AppendProperties
<1>5. HistoryIsSound'
  BY <1>2, <1>4 DEF ServerInv, HistoryIsSound
<1>6. ChallengesAreSound'
  <2>1. SUFFICES ASSUME NEW c \in challenges'
                 PROVE  /\ c.nonce \in DOMAIN born' /\ c.nonce \notin presented
                        /\ born'[c.nonce].peer = c.peer /\ born'[c.nonce].action = c.action
                        /\ c.expiry = born'[c.nonce].at + ChallengeTTL
                        /\ ~born'[c.nonce].lost
    BY <1>2 DEF ChallengesAreSound
  <2>2. CASE c \in challenges
    BY <1>4, <2>2 DEF ServerInv, ChallengesAreSound
  <2>3. CASE c \notin challenges
    <3>1. c = [nonce |-> Len(born) + 1, peer |-> peer, action |-> action, pass |-> pass,
               expiry |-> now + ChallengeTTL]
      BY <2>3 DEF IssueChallenge, StoreChallenge, Unexpired
    <3>2. c.nonce = Len(born) + 1 /\ c.peer = peer /\ c.action = action
          /\ c.expiry = now + ChallengeTTL
      BY <3>1
    <3>3. Len(born) + 1 \notin presented
      BY <1>4 DEF ServerInv, HistoryIsSound
    <3>4. QED
      BY <1>3, <1>4, <3>2, <3>3
  <2>4. QED
    BY <2>2, <2>3
<1>7. IssuesAreSpent'
  BY <1>2, <1>4, HistoryKept
<1>8. QED
  BY <1>5, <1>6, <1>7

\* A restart forgets the map and marks every nonce as lost.
LEMMA RestartBalances ==
    ASSUME ServerInv, ServerRestart
    PROVE  HistoryIsSound' /\ ChallengesAreSound' /\ IssuesAreSpent'
<1>1. born \in Seq(Birth)
  BY DEF ServerInv, HistoryIsSound
<1>2. /\ born' = [n \in DOMAIN born |-> [born[n] EXCEPT !.lost = TRUE]]
      /\ presented' = presented /\ challenges' = {} /\ issuanceEvents' = issuanceEvents
      /\ task' = [h \in Handlers |-> Idle("none")]
  BY DEF ServerRestart, Restart, tables
<1>3. DOMAIN born = 1..Len(born) /\ Len(born) \in Nat /\ \A n \in DOMAIN born : born[n] \in Birth
  BY <1>1
<1>4. \A n \in DOMAIN born :
         /\ born'[n] \in Birth
         /\ born'[n].peer = born[n].peer /\ born'[n].action = born[n].action
  BY <1>2, <1>3 DEF Birth
<1>5. born' \in Seq(Birth) /\ DOMAIN born' = DOMAIN born
  BY <1>2, <1>3, <1>4, IsASeq
<1>6. HistoryIsSound' /\ ChallengesAreSound'
  BY <1>2, <1>5 DEF ServerInv, HistoryIsSound, ChallengesAreSound
<1>7. \A h \in Handlers : task'[h].stage = "idle"
  BY <1>2 DEF Idle
<1>8. QED
  BY <1>2, <1>4, <1>6, <1>7, HistoryKept

LEMMA ServerNextKeeps == ServerInv /\ [ServerNext]_serverVars => ServerInv'
<1> SUFFICES ASSUME ServerInv, [ServerNext]_serverVars PROVE ServerInv'
  OBVIOUS
<1>1. IInv'
  BY ServerStepsAreSteps, StepType, StepSound DEF ServerInv, IInv
<1>2. HistoryIsSound' /\ ChallengesAreSound' /\ IssuesAreSpent'
  <2>1. CASE \E pass \in admitted, k \in Peers, a \in Actions : IssueChallenge(pass, k, a)
    BY <2>1, IssueBalances
  <2>2. CASE \/ \E s \in Sources : AdmitChallenge(s) \/ TurnAwayChallenge(s)
             \/ \E pass \in admitted : RejectChallenge(pass)
             \/ ServerTick \/ UNCHANGED serverVars
    <3>1. UNCHANGED <<challenges, born, presented, issuanceEvents, task>>
      BY <2>2 DEF AdmitChallenge, RejectChallenge, TurnAwayChallenge, ServerTick, Tick, serverVars, vars, tables
    <3>2. HistoryIsSound' /\ ChallengesAreSound'
      BY <3>1 DEF ServerInv, HistoryIsSound, ChallengesAreSound
    <3>3. QED
      BY <3>1, <3>2, HistoryKept
  <2>3. CASE \E h \in Handlers, r \in Requests, n \in DOMAIN born, signed \in BOOLEAN :
                Verify(h, r, n, signed)
    BY <2>3, VerifyBalances
  <2>4. QED
    BY <2>1, <2>2, <2>3, RestartBalances, StepBalances DEF ServerNext
<1>3. QED
  BY <1>1, <1>2 DEF ServerInv

LEMMA ServerSoundness == ServerSpec => []ServerInv
<1>1. ServerInit => ServerInv
  BY ServerInitEstablishes, InitSound DEF ServerInit, ServerInv
<1>2. QED
  BY <1>1, ServerNextKeeps, PTL DEF ServerSpec
-----------------------------------------------------------------------------
(* No key is ever issued more profiles than it has spent challenges on     *)
(* registering one, with any number of requests in flight, repeated or     *)
(* lost in a restart (storeChallenge, consumeChallenge, registerProfile). *)
THEOREM IssuesCostChallenges == ServerSpec => []EveryIssueSpentAChallenge
<1>1. ServerInv => EveryIssueSpentAChallenge
  <2> SUFFICES ASSUME ServerInv, NEW k \in Peers
               PROVE  Cardinality(Issued(k)) <= Cardinality(Spent(k))
    BY DEF EveryIssueSpentAChallenge, Issued, Spent
  <2>1. Cardinality(Issued(k)) + Cardinality(Registering(k)) <= Cardinality(Spent(k))
    BY DEF ServerInv, IssuesAreSpent
  <2>2. QED
    BY <2>1, CountsAreNaturals DEF ServerInv
<1>2. QED
  BY <1>1, ServerSoundness, PTL

\* The only step that takes up a request is a Verify that matched its challenge.
LEMMA TakenUpByVerify ==
    ASSUME ServerInv, [ServerNext]_serverVars, NEW h \in Handlers,
           task[h].stage = "idle", task'[h].stage = "verified"
    PROVE  \E n \in presented' \ presented :
              /\ born[n].peer = task'[h].request.peer
              /\ born[n].action = task'[h].request.action
              /\ now <= born[n].at + ChallengeTTL
              /\ ~born[n].lost
<1>1. TypeOK
  BY DEF ServerInv, IInv
<1>2. CASE ServerStep
  BY <1>1, <1>2, NothingTakenUp DEF ServerStep
<1>3. CASE ServerRestart
  BY <1>3 DEF ServerRestart, Restart, Idle
<1>4. CASE \/ \E pass \in admitted, k \in Peers, a \in Actions : IssueChallenge(pass, k, a)
           \/ \E s \in Sources : AdmitChallenge(s) \/ TurnAwayChallenge(s)
           \/ \E pass \in admitted : RejectChallenge(pass)
           \/ ServerTick \/ UNCHANGED serverVars
  BY <1>4 DEF AdmitChallenge, IssueChallenge, RejectChallenge, TurnAwayChallenge, ServerTick, Tick, serverVars, vars
<1>5. ASSUME NEW g \in Handlers, NEW r \in Requests, NEW n \in DOMAIN born,
             NEW signed \in BOOLEAN, Verify(g, r, n, signed)
      PROVE  \E m \in presented' \ presented :
                /\ born[m].peer = task'[h].request.peer
                /\ born[m].action = task'[h].request.action
                /\ now <= born[m].at + ChallengeTTL
                /\ ~born[m].lost
  <2>1. Accept(g, r) /\ Matches(now, n, r.peer, r.action)
    BY <1>5 DEF Verify, vars
  <2>2. g = h /\ task'[h].request = r
    BY <1>1, <2>1 DEF Accept, TypeOK
  <2>3. n \in presented' \ presented
    BY <1>5, <2>1, MatchedChallenge DEF Verify
  <2>4. QED
    BY <2>1, <2>2, <2>3, MatchedChallenge
<1>6. QED
  BY <1>2, <1>3, <1>4, <1>5 DEF ServerNext

(* A request is served on the first presentation of its nonce, in time, by *)
(* the process that issued it and for the key and the action it was issued *)
(* for; nothing else is ever served (consumeChallenge,                     *)
(* verifySignedRequest).                                                   *)
THEOREM ChallengesServeOnce == ServerSpec => ServedOncePerChallenge
<1>1. ServerInv /\ [ServerNext]_serverVars =>
         [\A h \in Handlers :
             task[h].stage = "idle" /\ task'[h].stage = "verified" =>
                 \E n \in presented' \ presented :
                     /\ born[n].peer = task'[h].request.peer
                     /\ born[n].action = task'[h].request.action
                     /\ now <= born[n].at + ChallengeTTL
                     /\ ~born[n].lost]_serverVars
  BY TakenUpByVerify, Zenon
<1>2. QED
  BY <1>1, ServerSoundness, PTL DEF ServerSpec, ServedOncePerChallenge
-----------------------------------------------------------------------------
(* The bound on the challenges of one source.  The limiter grants passes,  *)
(* a pass waits with the call that reads its body and then stays with the  *)
(* challenge it has paid for.  A pass granted is one the limiter does not  *)
(* hold yet, and those of the last RateLimitWindow ticks it still holds,   *)
(* so no stretch of RateLimitWindow ticks has granted more passes than the *)
(* limit, wherever they are by now.  Stores prune first, so the challenges *)
(* of the map were stored within ChallengeTTL ticks of each other, and a   *)
(* challenge stored at most delay ticks after its pass was granted carries *)
(* a pass of a stretch of ChallengeTTL + delay ticks.                      *)
Pass == [source: Sources, attempt: [at: Nat, nth: Nat]]
Passes == admitted \cup {c.pass : c \in challenges}

Granted(s, t, u) == {p \in Passes : p.source = s /\ t <= p.attempt.at /\ p.attempt.at < u}

LimiterIsSound ==
    /\ attempts \in [Sources -> SUBSET [at: Nat, nth: Nat]]
    /\ \A s \in Sources :
          /\ IsFiniteSet(attempts[s])
          /\ \A e \in attempts[s] :
                /\ e.at <= now
                /\ e.nth < Cardinality({f \in attempts[s] : f.at = e.at})

PassesAreSound ==
    /\ IsFiniteSet(Passes)
    /\ Passes \subseteq Pass
    /\ \A p \in Passes :
          /\ p.attempt.at <= now
          /\ p.attempt.at + RateLimitWindow > now => p.attempt \in attempts[p.source]

MapIsSound ==
    /\ \A c \in challenges :
          /\ c.pass \notin admitted
          /\ c.expiry \in Nat
          /\ c.pass.attempt.at + ChallengeTTL <= c.expiry
          /\ c.expiry <= now + ChallengeTTL
    /\ \A c, d \in challenges : d.expiry <= c.expiry + ChallengeTTL
    /\ \A c, d \in challenges : c.pass = d.pass => c = d

WindowsAreLimited ==
    \A s \in Sources, t \in Nat :
        Cardinality(Granted(s, t, t + RateLimitWindow)) <= MaxChallengesPerWindow

BoundInv ==
    now \in Nat /\ LimiterIsSound /\ PassesAreSound /\ MapIsSound /\ WindowsAreLimited

\* A set of natural numbers has a least element.
LEMMA LeastNumber ==
    ASSUME NEW T \in SUBSET Nat, T # {}
    PROVE  \E x \in T : \A y \in T : x <= y
<1> DEFINE R == OpToRel(<, Nat)
<1>1. IsWellFoundedOn(R, Nat)
  BY NatLessThanWellFounded
<1>2. \A x, y \in Nat : <<y, x>> \in R <=> y < x
  BY DEF OpToRel
<1> HIDE DEF R
<1>3. PICK x \in T : \A y \in T : ~(<<y, x>> \in R)
  BY <1>1, WFMin
<1>4. ASSUME NEW y \in T PROVE x <= y
  <2>1. x \in Nat /\ y \in Nat /\ ~(y < x)
    BY <1>2, <1>3
  <2>2. QED
    BY <2>1
<1>5. QED
  BY <1>4

\* The stretches that the invariant counts.
LEMMA StretchIsFinite ==
    ASSUME BoundInv, NEW s \in Sources, NEW t, NEW u
    PROVE  IsFiniteSet(Granted(s, t, u)) /\ Cardinality(Granted(s, t, u)) \in Nat
<1>1. Granted(s, t, u) \subseteq Passes /\ IsFiniteSet(Passes)
  BY DEF Granted, BoundInv, PassesAreSound
<1>2. QED
  BY <1>1, FewerElements

\* The attempt the limiter lets through is one it does not know yet.
LEMMA AttemptIsNew ==
    ASSUME BoundInv, NEW s \in Sources
    PROVE  /\ Attempt(now, s) \in [at: Nat, nth: Nat]
           /\ Attempt(now, s).at = now
           /\ Attempt(now, s) \notin attempts[s]
           /\ Attempt(now, s).nth = Cardinality({e \in attempts[s] : e.at = now})
<1> DEFINE same == {e \in attempts[s] : e.at = now}
<1>1. IsFiniteSet(same) /\ Cardinality(same) \in Nat
  BY FewerElements DEF BoundInv, LimiterIsSound
<1>2. Attempt(now, s) = [at |-> now, nth |-> Cardinality(same)]
  BY DEF Attempt
<1>3. \A e \in same : e.nth < Cardinality(same)
  BY DEF BoundInv, LimiterIsSound
<1>4. same \subseteq attempts[s] /\ attempts[s] \subseteq [at: Nat, nth: Nat]
  BY DEF BoundInv, LimiterIsSound
<1>5. \A e \in attempts[s] : e.at = now => e \in same
  OBVIOUS
<1> HIDE DEF same
<1>6. Attempt(now, s) \in [at: Nat, nth: Nat] /\ Attempt(now, s).at = now
      /\ Attempt(now, s).nth = Cardinality(same)
  BY <1>1, <1>2 DEF BoundInv
<1>7. Attempt(now, s) \notin attempts[s]
  <2>1. SUFFICES ASSUME Attempt(now, s) \in attempts[s] PROVE FALSE
    OBVIOUS
  <2>2. Attempt(now, s).nth < Cardinality(same)
    BY <1>3, <1>5, <1>6, <2>1
  <2>3. QED
    BY <1>1, <1>6, <2>2
<1>8. QED
  BY <1>6, <1>7 DEF same
-----------------------------------------------------------------------------
\* The limiter after an attempt it lets through or turns away.
LEMMA LimiterSteps ==
    ASSUME BoundInv, NEW s \in Sources, Allow(now, s) \/ Throttle(now, s), now' = now
    PROVE  /\ LimiterIsSound'
           /\ \A r \in Sources : \A e \in attempts[r] :
                 e.at + RateLimitWindow > now => e \in attempts'[r]
           /\ Allow(now, s) => Attempt(now, s) \in attempts'[s]
<1> DEFINE recent == RecentAttempts(now, s)
           new == Attempt(now, s)
<1>1. now \in Nat /\ RateLimitWindow \in Nat \ {0} /\ attempts \in [Sources -> SUBSET [at: Nat, nth: Nat]]
  BY ChallengeLimitsAreNaturals DEF BoundInv, LimiterIsSound
<1>2. PICK extra \in SUBSET {new} : attempts' = [attempts EXCEPT ![s] = recent \cup extra]
  <2>1. CASE Allow(now, s)
    BY <2>1 DEF Allow
  <2>2. CASE Throttle(now, s)
    <3>1. attempts' = [attempts EXCEPT ![s] = recent \cup {}]
      BY <2>2 DEF Throttle
    <3>2. QED
      BY <3>1
  <2>3. QED
    BY <2>1, <2>2
<1>3. /\ recent \subseteq attempts[s] /\ IsFiniteSet(recent)
      /\ \A e \in attempts[s] : e.at + RateLimitWindow > now => e \in recent
  <2>1. recent \subseteq attempts[s] /\ \A e \in attempts[s] : e.at + RateLimitWindow > now => e \in recent
    BY DEF RecentAttempts
  <2>2. QED
    BY <2>1, FewerElements DEF BoundInv, LimiterIsSound
<1>4. \A e, f \in attempts[s] : e.at = f.at /\ e \in recent => f \in recent
  BY DEF RecentAttempts
<1> HIDE DEF recent
<1>5. /\ attempts'[s] = recent \cup extra
      /\ \A r \in Sources : r # s => attempts'[r] = attempts[r]
  BY <1>1, <1>2
<1>6. /\ new \in [at: Nat, nth: Nat] /\ new.at = now /\ new \notin attempts[s]
      /\ new.nth = Cardinality({e \in attempts[s] : e.at = now})
  BY AttemptIsNew
<1> HIDE DEF new
<1>7. IsFiniteSet(attempts'[s]) /\ attempts'[s] \in SUBSET [at: Nat, nth: Nat]
  <2>1. IsFiniteSet(recent \cup {new})
    BY <1>3, FS_AddElement
  <2>2. QED
    BY <1>1, <1>2, <1>3, <1>5, <1>6, <2>1, FS_Subset
<1>8. attempts' \in [Sources -> SUBSET [at: Nat, nth: Nat]]
  BY <1>1, <1>2, <1>5, <1>7
<1>9. ASSUME NEW e \in attempts'[s]
      PROVE  /\ e.at <= now
             /\ e.nth < Cardinality({f \in attempts'[s] : f.at = e.at})
  <2> DEFINE old == {f \in attempts[s] : f.at = e.at}
             same == {f \in attempts'[s] : f.at = e.at}
  <2>1. IsFiniteSet(old) /\ Cardinality(old) \in Nat
    BY FewerElements DEF BoundInv, LimiterIsSound
  <2>2. IsFiniteSet(same) /\ Cardinality(same) \in Nat
    BY <1>7, FewerElements
  <2>3. CASE e \in recent
    <3>1. old \subseteq same
      BY <1>3, <1>4, <1>5, <2>3
    <3>2. Cardinality(old) <= Cardinality(same)
      BY <2>2, <3>1, FewerElements
    <3>3. e.at <= now /\ e.nth < Cardinality(old) /\ e.nth \in Nat
      BY <1>1, <1>3, <2>3 DEF BoundInv, LimiterIsSound
    <3> HIDE DEF old, same
    <3>4. e.nth < Cardinality(same)
      BY <2>1, <2>2, <3>2, <3>3
    <3>5. QED
      BY <3>3, <3>4 DEF same
  <2>4. CASE e = new /\ e \in extra
    <3>1. old \subseteq recent
      BY <1>1, <1>3, <1>6, <2>4
    <3>2. same = old \cup {new} /\ new \notin old
      BY <1>3, <1>5, <1>6, <2>4, <3>1, <1>2
    <3>3. new.nth = Cardinality(old)
      BY <1>6, <2>4
    <3> HIDE DEF old, same
    <3>4. Cardinality(same) = Cardinality(old) + 1
      BY <2>1, <3>2, FS_AddElement
    <3>5. e.nth < Cardinality(same) /\ e.at <= now
      BY <1>1, <1>6, <2>1, <2>4, <3>3, <3>4
    <3>6. QED
      BY <3>5 DEF same
  <2>5. QED
    BY <1>2, <1>5, <2>3, <2>4
<1>10. LimiterIsSound'
  <2>1. ASSUME NEW r \in Sources
        PROVE  /\ IsFiniteSet(attempts'[r])
               /\ \A e \in attempts'[r] :
                     /\ e.at <= now
                     /\ e.nth < Cardinality({f \in attempts'[r] : f.at = e.at})
    <3>1. CASE r = s
      BY <1>7, <1>9, <3>1
    <3>2. CASE r # s
      BY <1>5, <3>2 DEF BoundInv, LimiterIsSound
    <3>3. QED
      BY <3>1, <3>2
  <2>2. QED
    BY <1>8, <2>1 DEF LimiterIsSound
<1>11. \A r \in Sources : \A e \in attempts[r] :
          e.at + RateLimitWindow > now => e \in attempts'[r]
  BY <1>3, <1>5
<1>12. Allow(now, s) => new \in attempts'[s]
  BY <1>1 DEF Allow, new
<1>13. QED
  BY <1>10, <1>11, <1>12 DEF new

\* Passes that are used or given up, while the limiter keeps what it may need.
LEMMA PassesShrink ==
    ASSUME BoundInv, Passes' \subseteq Passes, now' \in Nat, now <= now',
           \A s \in Sources : \A e \in attempts[s] :
               e.at + RateLimitWindow > now' => e \in attempts'[s]
    PROVE  PassesAreSound' /\ WindowsAreLimited'
<1>1. now \in Nat /\ RateLimitWindow \in Nat \ {0} /\ MaxChallengesPerWindow \in Nat
  BY ChallengeLimitsAreNaturals DEF BoundInv
<1>2. IsFiniteSet(Passes') /\ Passes' \subseteq Pass
  BY FS_Subset DEF BoundInv, PassesAreSound
<1>3. ASSUME NEW p \in Passes'
      PROVE  /\ p.attempt.at <= now'
             /\ p.attempt.at + RateLimitWindow > now' => p.attempt \in attempts'[p.source]
  <2>1. p \in Passes /\ p.source \in Sources /\ p.attempt.at \in Nat
    BY <1>2 DEF Pass
  <2>2. /\ p.attempt.at <= now
        /\ p.attempt.at + RateLimitWindow > now => p.attempt \in attempts[p.source]
    BY <2>1 DEF BoundInv, PassesAreSound
  <2>3. QED
    BY <1>1, <2>1, <2>2
<1>4. PassesAreSound'
  BY <1>2, <1>3 DEF PassesAreSound, Pass
<1>5. ASSUME NEW s \in Sources, NEW t \in Nat
      PROVE  Cardinality(Granted(s, t, t + RateLimitWindow)') <= MaxChallengesPerWindow
  <2>1. Granted(s, t, t + RateLimitWindow)' \subseteq Granted(s, t, t + RateLimitWindow)
    BY DEF Granted
  <2>2. /\ Cardinality(Granted(s, t, t + RateLimitWindow)') \in Nat
        /\ Cardinality(Granted(s, t, t + RateLimitWindow)')
              <= Cardinality(Granted(s, t, t + RateLimitWindow))
    BY <2>1, StretchIsFinite, FewerElements
  <2>3. Cardinality(Granted(s, t, t + RateLimitWindow)) <= MaxChallengesPerWindow
    BY DEF BoundInv, WindowsAreLimited
  <2>4. QED
    BY <1>1, <2>2, <2>3, StretchIsFinite
<1>6. QED
  BY <1>4, <1>5 DEF WindowsAreLimited

\* Challenges that leave the map and calls that end take their passes with them.
LEMMA MapShrinks ==
    ASSUME BoundInv, LimiterIsSound', challenges' \subseteq challenges,
           admitted' \subseteq admitted, now' \in Nat, now <= now',
           \A s \in Sources : \A e \in attempts[s] :
               e.at + RateLimitWindow > now' => e \in attempts'[s]
    PROVE  BoundInv'
<1>1. Passes' \subseteq Passes
  BY DEF Passes
<1>2. MapIsSound'
  BY ChallengeLimitsAreNaturals DEF BoundInv, MapIsSound
<1>3. QED
  BY <1>1, <1>2, PassesShrink DEF BoundInv

\* The limiter grants a pass.
LEMMA AdmitKeepsBound ==
    ASSUME BoundInv, NEW s \in Sources, AdmitChallenge(s)
    PROVE  BoundInv'
<1> DEFINE attempt == Attempt(now, s)
<1>1. /\ now \in Nat /\ RateLimitWindow \in Nat \ {0} /\ ChallengeTTL \in Nat
      /\ MaxChallengesPerWindow \in Nat /\ now' = now
  BY ChallengeLimitsAreNaturals DEF BoundInv, AdmitChallenge, vars
<1>2. Allow(now, s) /\ challenges' = challenges
  BY DEF AdmitChallenge
<1>3. PICK new : new = [source |-> s, attempt |-> attempt]
  OBVIOUS
<1>4. attempt \in [at: Nat, nth: Nat] /\ attempt.at = now /\ attempt \notin attempts[s]
  BY AttemptIsNew
<1>5. /\ LimiterIsSound' /\ attempt \in attempts'[s]
      /\ \A r \in Sources : \A e \in attempts[r] :
            e.at + RateLimitWindow > now => e \in attempts'[r]
  BY <1>1, <1>2, LimiterSteps
<1>6. admitted' = admitted \cup {new} /\ Passes' = Passes \cup {new}
  BY <1>2, <1>3 DEF AdmitChallenge, Passes
<1>7. new.source = s /\ new.attempt = attempt /\ new \in Pass
  BY <1>3, <1>4 DEF Pass
<1> HIDE DEF attempt
<1>8. new \notin Passes
  BY <1>1, <1>4, <1>7 DEF BoundInv, PassesAreSound
<1>9. PassesAreSound'
  <2>1. IsFiniteSet(Passes') /\ Passes' \subseteq Pass
    BY <1>6, <1>7, FS_AddElement DEF BoundInv, PassesAreSound
  <2>2. ASSUME NEW p \in Passes'
        PROVE  /\ p.attempt.at <= now
               /\ p.attempt.at + RateLimitWindow > now => p.attempt \in attempts'[p.source]
    <3>1. CASE p \in Passes
      <4>1. p.source \in Sources
        BY <2>1 DEF Pass
      <4>2. QED
        BY <1>5, <3>1, <4>1 DEF BoundInv, PassesAreSound
    <3>2. CASE p = new
      BY <1>1, <1>4, <1>5, <1>7, <3>2
    <3>3. QED
      BY <1>6, <3>1, <3>2
  <2>3. QED
    BY <1>1, <2>1, <2>2 DEF PassesAreSound, Pass
<1>10. MapIsSound'
  <2>1. \A c \in challenges : c.pass \in Passes
    BY DEF Passes
  <2>2. \A c \in challenges : c.pass \notin admitted'
    BY <1>6, <1>8, <2>1 DEF BoundInv, MapIsSound
  <2>3. QED
    BY <1>1, <1>2, <2>2 DEF BoundInv, MapIsSound
<1>11. WindowsAreLimited'
  <2>1. SUFFICES ASSUME NEW r \in Sources, NEW t \in Nat
                 PROVE  Cardinality(Granted(r, t, t + RateLimitWindow)') <= MaxChallengesPerWindow
    BY DEF WindowsAreLimited
  <2>2. PICK window : window = Granted(r, t, t + RateLimitWindow)
    OBVIOUS
  <2>3. IsFiniteSet(window) /\ Cardinality(window) \in Nat
        /\ Cardinality(window) <= MaxChallengesPerWindow
    BY <2>2, StretchIsFinite DEF BoundInv, WindowsAreLimited
  <2>4. PICK after : after = Granted(r, t, t + RateLimitWindow)'
    OBVIOUS
  <2>5. after \subseteq window \cup {new}
    BY <1>6, <2>2, <2>4 DEF Granted
  <2>6. CASE new \notin after
    <3>1. after \subseteq window
      BY <2>5, <2>6
    <3>2. Cardinality(after) \in Nat /\ Cardinality(after) <= Cardinality(window)
      BY <2>3, <3>1, FewerElements
    <3>3. QED
      BY <1>1, <2>3, <2>4, <3>2
  <2>7. CASE new \in after
    <3>1. r = s /\ t <= now /\ t + RateLimitWindow > now
      BY <1>1, <1>4, <1>7, <2>4, <2>7 DEF Granted
    <3>2. PICK recent : recent = RecentAttempts(now, s)
      OBVIOUS
    <3>3. IsFiniteSet(recent) /\ Cardinality(recent) \in Nat
          /\ Cardinality(recent) < MaxChallengesPerWindow
      <4>1. recent \subseteq attempts[s]
        BY <3>2 DEF RecentAttempts
      <4>2. QED
        BY <1>2, <3>2, <4>1, FewerElements DEF Allow, BoundInv, LimiterIsSound
    <3>4. ASSUME NEW p \in window
          PROVE  p \in Pass /\ p.source = s /\ p.attempt \in recent
      <4>1. p \in Passes /\ p.source = s /\ t <= p.attempt.at
        BY <2>2, <3>1 DEF Granted
      <4>2. p \in Pass /\ p.attempt.at \in Nat
        BY <4>1 DEF BoundInv, PassesAreSound, Pass
      <4>3. p.attempt.at + RateLimitWindow > now
        BY <1>1, <3>1, <4>1, <4>2
      <4>4. p.attempt \in attempts[s]
        BY <4>1, <4>3 DEF BoundInv, PassesAreSound
      <4>5. QED
        BY <3>2, <4>1, <4>2, <4>3, <4>4 DEF RecentAttempts
    <3>5. Cardinality(window) <= Cardinality(recent)
      <4>1. PICK f : f = [p \in window |-> p.attempt]
        OBVIOUS
      <4>2. f \in [window -> recent]
        BY <3>4, <4>1
      <4>3. \A p, q \in window : f[p] = f[q] => p = q
        BY <3>4, <4>1 DEF Pass
      <4>4. f \in Injection(window, recent)
        BY <4>2, <4>3 DEF Injection, IsInjective
      <4>5. QED
        BY <3>3, <4>4, FS_Injection
    <3>6. /\ IsFiniteSet(window \cup {new}) /\ Cardinality(window \cup {new}) \in Nat
          /\ Cardinality(window \cup {new}) <= Cardinality(window) + 1
      BY <2>3, AddOne
    <3>7. Cardinality(after) \in Nat /\ Cardinality(after) <= Cardinality(window \cup {new})
      BY <2>5, <3>6, FewerElements
    <3>8. QED
      BY <1>1, <2>3, <2>4, <3>3, <3>5, <3>6, <3>7
  <2>8. QED
    BY <2>6, <2>7
<1>12. QED
  BY <1>1, <1>5, <1>9, <1>10, <1>11 DEF BoundInv

\* A pass moves from its call to the challenge it pays for.
LEMMA StoreKeepsBound ==
    ASSUME BoundInv, NEW pass \in admitted, NEW peer, NEW action,
           IssueChallenge(pass, peer, action)
    PROVE  BoundInv'
<1>1. /\ now \in Nat /\ RateLimitWindow \in Nat \ {0} /\ ChallengeTTL \in Nat
      /\ now' = now /\ attempts' = attempts /\ admitted' = admitted \ {pass}
  BY ChallengeLimitsAreNaturals DEF BoundInv, IssueChallenge, vars
<1>2. PICK new : /\ challenges' = Unexpired(now) \cup {new}
                 /\ new.pass = pass /\ new.expiry = now + ChallengeTTL
  <2>1. PICK new : new = [nonce |-> Len(born) + 1, peer |-> peer, action |-> action,
                          pass |-> pass, expiry |-> now + ChallengeTTL]
    OBVIOUS
  <2>2. challenges' = Unexpired(now) \cup {new}
    BY <2>1 DEF IssueChallenge, StoreChallenge
  <2>3. new.pass = pass /\ new.expiry = now + ChallengeTTL
    BY <2>1
  <2>4. QED
    BY <2>2, <2>3
<1>3. Unexpired(now) \subseteq challenges /\ \A c \in Unexpired(now) : now <= c.expiry
  BY DEF Unexpired
<1>4. Passes' \subseteq Passes
  BY <1>1, <1>2, <1>3 DEF Passes
<1>5. PassesAreSound' /\ WindowsAreLimited'
  BY <1>1, <1>4, PassesShrink
<1>6. LimiterIsSound'
  BY <1>1 DEF BoundInv, LimiterIsSound
<1>7. pass.attempt.at \in Nat /\ pass.attempt.at <= now
  BY DEF BoundInv, PassesAreSound, Passes, Pass
<1>8. MapIsSound'
  <2>1. \A c \in challenges' :
           /\ c.pass \notin admitted'
           /\ c.expiry \in Nat
           /\ c.pass.attempt.at + ChallengeTTL <= c.expiry
           /\ c.expiry <= now + ChallengeTTL
    BY <1>1, <1>2, <1>3, <1>7 DEF BoundInv, MapIsSound
  <2>2. \A c \in challenges' : now <= c.expiry
    BY <1>1, <1>2, <1>3
  <2>3. \A c, d \in challenges' : d.expiry <= c.expiry + ChallengeTTL
    <3>1. ASSUME NEW c \in challenges', NEW d \in challenges'
          PROVE  d.expiry <= c.expiry + ChallengeTTL
      <4>1. now <= c.expiry /\ d.expiry <= now + ChallengeTTL /\ c.expiry \in Nat /\ d.expiry \in Nat
        BY <2>1, <2>2
      <4>2. QED
        BY <1>1, <4>1
    <3>2. QED
      BY <3>1
  <2>4. \A c \in Unexpired(now) : c.pass # pass
    BY <1>3 DEF BoundInv, MapIsSound
  <2>5. \A c, d \in challenges' : c.pass = d.pass => c = d
    BY <1>2, <1>3, <2>4 DEF BoundInv, MapIsSound
  <2>6. QED
    BY <1>1, <2>1, <2>3, <2>5 DEF MapIsSound
<1>9. QED
  BY <1>1, <1>5, <1>6, <1>8 DEF BoundInv
-----------------------------------------------------------------------------
LEMMA BoundInit == ServerInit => BoundInv
<1> SUFFICES ASSUME ServerInit PROVE BoundInv
  OBVIOUS
<1>1. now = 0 /\ challenges = {} /\ admitted = {} /\ attempts = [s \in Sources |-> {}]
  BY DEF ServerInit, Init
<1>2. Passes = {}
  BY <1>1 DEF Passes
<1>3. LimiterIsSound /\ PassesAreSound /\ MapIsSound
  BY <1>1, <1>2, FS_EmptySet DEF LimiterIsSound, PassesAreSound, MapIsSound
<1>4. \A s, t, u : Granted(s, t, u) = {}
  BY <1>2 DEF Granted
<1>5. WindowsAreLimited
  BY <1>4, FS_EmptySet, ChallengeLimitsAreNaturals DEF WindowsAreLimited
<1>6. QED
  BY <1>1, <1>3, <1>5 DEF BoundInv

LEMMA BoundKept == BoundInv /\ [ServerNext]_serverVars => BoundInv'
<1> SUFFICES ASSUME BoundInv, [ServerNext]_serverVars PROVE BoundInv'
  OBVIOUS
<1>1. CASE /\ attempts' = attempts /\ challenges' \subseteq challenges
           /\ admitted' \subseteq admitted
           /\ now' = now \/ now' = now + 1
  <2>1. now \in Nat /\ now' \in Nat /\ now <= now'
    BY <1>1 DEF BoundInv
  <2>2. LimiterIsSound'
    <3>1. \A s \in Sources : \A e \in attempts[s] : e.at \in Nat
      BY DEF BoundInv, LimiterIsSound
    <3>2. QED
      BY <1>1, <2>1, <3>1 DEF BoundInv, LimiterIsSound
  <2>3. QED
    BY <1>1, <2>1, <2>2, MapShrinks
<1>2. ASSUME NEW s \in Sources, TurnAwayChallenge(s)
      PROVE  BoundInv'
  <2>1. /\ Throttle(now, s) /\ now' = now /\ now \in Nat
        /\ challenges' = challenges /\ admitted' = admitted
    BY <1>2 DEF TurnAwayChallenge, vars, BoundInv
  <2>2. QED
    BY <2>1, LimiterSteps, MapShrinks
<1>3. ASSUME NEW pass \in admitted, RejectChallenge(pass)
      PROVE  BoundInv'
  BY <1>1, <1>3 DEF RejectChallenge, vars
<1>4. ASSUME NEW h \in Handlers, NEW r \in Requests, NEW n, NEW signed, Verify(h, r, n, signed)
      PROVE  BoundInv'
  <2>1. challenges' \subseteq challenges
    BY <1>4 DEF Verify, ConsumeChallenge, Unexpired
  <2>2. QED
    BY <1>1, <1>4, <2>1 DEF Verify, Accept, vars
<1>5. CASE ServerRestart
  <2>1. challenges' = {} /\ admitted' = {} /\ now' = now /\ attempts' = [s \in Sources |-> {}]
    BY <1>5 DEF ServerRestart, Restart
  <2>2. Passes' = {}
    BY <2>1 DEF Passes
  <2>3. LimiterIsSound' /\ PassesAreSound' /\ MapIsSound'
    BY <2>1, <2>2, FS_EmptySet DEF LimiterIsSound, PassesAreSound, MapIsSound
  <2>4. \A s, t, u : Granted(s, t, u)' = {}
    BY <2>2 DEF Granted
  <2>5. WindowsAreLimited'
    BY <2>4, FS_EmptySet, ChallengeLimitsAreNaturals DEF WindowsAreLimited
  <2>6. QED
    BY <2>1, <2>3, <2>5 DEF BoundInv
<1>6. CASE ServerStep \/ ServerTick \/ UNCHANGED serverVars
  <2>1. /\ attempts' = attempts /\ challenges' = challenges /\ admitted' = admitted
        /\ now' = now \/ now' = now + 1
    BY <1>6 DEF ServerStep, Step, RegisterProfileRead, RegisterProfileCommit, ReleaseProfile,
       RegisterPublicRoomRead, RegisterPublicRoomCommit, ReleasePublicRoom, Fail, ServerTick,
       Tick, serverVars, vars
  <2>2. QED
    BY <1>1, <2>1
<1>7. QED
  BY <1>2, <1>3, <1>4, <1>5, <1>6, AdmitKeepsBound, StoreKeepsBound DEF ServerNext

\* n windows in a row hold at most n times what one may hold.
LEMMA ManyWindows ==
    ASSUME BoundInv, NEW s \in Sources, NEW t \in Nat, NEW n \in Nat
    PROVE  Cardinality(Granted(s, t, t + n * RateLimitWindow)) <= n * MaxChallengesPerWindow
<1> DEFINE Part(k) == Granted(s, t, t + k * RateLimitWindow)
           Full(k) == Cardinality(Part(k)) <= k * MaxChallengesPerWindow
           Bad == {k \in Nat : ~Full(k)}
<1>1. RateLimitWindow \in Nat \ {0} /\ MaxChallengesPerWindow \in Nat
  BY ChallengeLimitsAreNaturals
<1>2. \A p \in Passes : p.attempt.at \in Nat
  BY DEF BoundInv, PassesAreSound, Pass
<1>3. Full(0)
  <2>1. Part(0) = {}
    BY <1>1, <1>2 DEF Granted
  <2>2. QED
    BY <1>1, <2>1, FS_EmptySet
<1>4. ASSUME NEW k \in Nat, Full(k)
      PROVE  Full(k + 1)
  <2> DEFINE u == t + k * RateLimitWindow
             last == Granted(s, u, u + RateLimitWindow)
  <2>1. /\ k * RateLimitWindow \in Nat /\ u \in Nat
        /\ t + (k + 1) * RateLimitWindow = u + RateLimitWindow
        /\ (k + 1) * MaxChallengesPerWindow = k * MaxChallengesPerWindow + MaxChallengesPerWindow
        /\ k * MaxChallengesPerWindow \in Nat
    BY <1>1
  <2>2. Part(k + 1) \subseteq Part(k) \cup last
    <3>1. Part(k + 1) = Granted(s, t, u + RateLimitWindow) /\ Part(k) = Granted(s, t, u)
      BY <2>1
    <3> HIDE DEF u, Part
    <3>2. ASSUME NEW c \in Granted(s, t, u + RateLimitWindow), c \notin Granted(s, t, u)
          PROVE  c \in Granted(s, u, u + RateLimitWindow)
      BY <1>1, <1>2, <2>1, <3>2 DEF Granted
    <3>3. QED
      BY <3>1, <3>2
  <2>3. Cardinality(last) <= MaxChallengesPerWindow
    BY <2>1 DEF BoundInv, WindowsAreLimited
  <2>4. /\ IsFiniteSet(Part(k)) /\ Cardinality(Part(k)) \in Nat
        /\ IsFiniteSet(last) /\ Cardinality(last) \in Nat
        /\ IsFiniteSet(Part(k + 1)) /\ Cardinality(Part(k + 1)) \in Nat
    BY StretchIsFinite
  <2>5. Cardinality(Part(k)) <= k * MaxChallengesPerWindow
    BY <1>4
  <2> HIDE DEF Part, last, u
  <2>6. /\ IsFiniteSet(Part(k) \cup last) /\ Cardinality(Part(k) \cup last) \in Nat
        /\ Cardinality(Part(k) \cup last) <= Cardinality(Part(k)) + Cardinality(last)
    <3>1. /\ IsFiniteSet(Part(k) \cup last)
          /\ Cardinality(Part(k) \cup last)
                = Cardinality(Part(k)) + Cardinality(last) - Cardinality(Part(k) \cap last)
      BY <2>4, FS_Union
    <3>2. Cardinality(Part(k) \cap last) \in Nat /\ Cardinality(Part(k) \cup last) \in Nat
      BY <2>4, <3>1, FS_Intersection, FS_CardinalityType
    <3>3. QED
      BY <2>4, <3>1, <3>2
  <2>7. Cardinality(Part(k + 1)) <= Cardinality(Part(k) \cup last)
    BY <2>2, <2>6, FewerElements
  <2>8. QED
    BY <1>1, <2>1, <2>3, <2>4, <2>5, <2>6, <2>7
<1>5. Bad = {}
  <2>1. SUFFICES ASSUME Bad # {} PROVE FALSE
    OBVIOUS
  <2>2. Bad \in SUBSET Nat
    OBVIOUS
  <2>3. PICK k \in Bad : \A j \in Bad : k <= j
    BY <2>1, <2>2, LeastNumber
  <2>4. k \in Nat /\ ~Full(k)
    BY <2>3
  <2> HIDE DEF Full
  <2>5. k # 0
    BY <1>3, <2>4
  <2>6. k - 1 \in Nat /\ ~(k <= k - 1) /\ (k - 1) + 1 = k
    BY <2>4, <2>5
  <2>7. Full(k - 1)
    BY <2>3, <2>6
  <2>8. Full((k - 1) + 1)
    BY <1>4, <2>6, <2>7
  <2>9. QED
    BY <2>4, <2>6, <2>8
<1>6. QED
  BY <1>5

LEMMA BoundHolds == BoundInv => ChallengesBounded
<1> SUFFICES ASSUME BoundInv, NEW s \in Sources, NEW delay \in 0..MaxClock
             PROVE  Cardinality({c \in challenges :
                                    /\ c.pass.source = s
                                    /\ c.expiry <= c.pass.attempt.at + delay + ChallengeTTL})
                       <= MaxChallengesPerWindow * (((ChallengeTTL + delay) \div RateLimitWindow) + 1)
  BY DEF ChallengesBounded
<1>1. /\ RateLimitWindow \in Nat \ {0} /\ MaxChallengesPerWindow \in Nat
      /\ ChallengeTTL \in Nat /\ delay \in Nat
  BY ChallengeLimitsAreNaturals
<1>2. PICK n \in Nat : /\ n = ((ChallengeTTL + delay) \div RateLimitWindow) + 1
                       /\ ChallengeTTL + delay < n * RateLimitWindow
  BY <1>1
<1>3. n * MaxChallengesPerWindow = MaxChallengesPerWindow * n /\ n * MaxChallengesPerWindow \in Nat
      /\ n * RateLimitWindow \in Nat
  BY <1>1, <1>2
<1>4. PICK mine : mine = {c \in challenges :
                             /\ c.pass.source = s
                             /\ c.expiry <= c.pass.attempt.at + delay + ChallengeTTL}
  OBVIOUS
<1>5. SUFFICES Cardinality(mine) <= MaxChallengesPerWindow * n
  BY <1>2, <1>4
<1>6. ASSUME NEW c \in mine
      PROVE  /\ c \in challenges /\ c.pass \in Passes /\ c.pass.source = s
             /\ c.pass.attempt.at \in Nat /\ c.expiry \in Nat
             /\ c.pass.attempt.at + ChallengeTTL <= c.expiry
             /\ c.expiry <= c.pass.attempt.at + delay + ChallengeTTL
  <2>1. c \in challenges /\ c.pass \in Passes /\ c.pass.source = s
    BY <1>4 DEF Passes
  <2>2. c.pass.attempt.at \in Nat
    BY <2>1 DEF BoundInv, PassesAreSound, Pass
  <2>3. QED
    BY <1>4, <2>1, <2>2 DEF BoundInv, MapIsSound
<1>7. CASE mine = {}
  BY <1>3, <1>7, FS_EmptySet
<1>8. CASE mine # {}
  <2>1. PICK times : times = {c.pass.attempt.at : c \in mine}
    OBVIOUS
  <2>2. times \in SUBSET Nat /\ times # {}
    BY <1>6, <1>8, <2>1
  <2>3. PICK t \in times : \A u \in times : t <= u
    BY <2>2, LeastNumber
  <2>4. PICK oldest \in mine : t = oldest.pass.attempt.at
    BY <2>1
  <2>5. t \in Nat
    BY <2>2
  <2>6. ASSUME NEW c \in mine
        PROVE  c.pass \in Granted(s, t, t + n * RateLimitWindow)
    <3>1. t <= c.pass.attempt.at
      BY <2>1, <2>3
    <3>2. c.expiry <= oldest.expiry + ChallengeTTL
      BY <1>6, <2>4 DEF BoundInv, MapIsSound
    <3>3. /\ c.pass.attempt.at \in Nat /\ c.expiry \in Nat /\ oldest.expiry \in Nat
          /\ c.pass.attempt.at + ChallengeTTL <= c.expiry
          /\ oldest.expiry <= t + delay + ChallengeTTL
      BY <1>6, <2>4
    <3>4. c.pass.attempt.at < t + n * RateLimitWindow
      BY <1>1, <1>2, <1>3, <2>5, <3>2, <3>3
    <3>5. QED
      BY <1>6, <3>1, <3>4 DEF Granted
  <2>7. PICK stretch : stretch = Granted(s, t, t + n * RateLimitWindow)
    OBVIOUS
  <2>8. Cardinality(mine) <= Cardinality(stretch) /\ Cardinality(mine) \in Nat
    <3>1. PICK f : f = [c \in mine |-> c.pass]
      OBVIOUS
    <3>2. f \in [mine -> stretch]
      BY <2>6, <2>7, <3>1
    <3>3. \A c, d \in mine : f[c] = f[d] => c = d
      BY <1>6, <3>1 DEF BoundInv, MapIsSound
    <3>4. f \in Injection(mine, stretch)
      BY <3>2, <3>3 DEF Injection, IsInjective
    <3>5. IsFiniteSet(stretch)
      BY <2>7, StretchIsFinite
    <3>6. IsFiniteSet(mine) /\ Cardinality(mine) <= Cardinality(stretch)
      BY <3>4, <3>5, FS_Injection
    <3>7. QED
      BY <3>6, FS_CardinalityType
  <2>9. Cardinality(stretch) <= n * MaxChallengesPerWindow /\ Cardinality(stretch) \in Nat
    BY <2>5, <2>7, ManyWindows, StretchIsFinite
  <2>10. QED
    BY <1>3, <2>8, <2>9
<1>9. QED
  BY <1>7, <1>8

(* What one source can make the server remember grows only with the time   *)
(* its bodies take: of the challenges stored at most delay ticks after     *)
(* they were let in, the map holds what the limiter grants in the windows  *)
(* that ChallengeTTL + delay ticks touch, for any limit, window, time to   *)
(* live and delay (limiter.allow, handleChallenge, storeChallenge,         *)
(* pruneExpiredChallengesLocked).                                          *)
THEOREM ChallengesStayBounded == ServerSpec => []ChallengesBounded
<1>1. ServerSpec => []BoundInv
  BY BoundInit, BoundKept, PTL DEF ServerSpec
<1>2. QED
  BY <1>1, BoundHolds, PTL
=============================================================================
