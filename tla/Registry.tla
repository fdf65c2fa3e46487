------------------------------ MODULE Registry ------------------------------
(***************************************************************************)
(* The database half of the registry server (src/cmd/registry/main.go):    *)
(* the tables profiles, public_rooms and profile_issuance_events and the   *)
(* four handlers that change them.  Handlers run concurrently, one         *)
(* goroutine per request; each opens a transaction, reads, decides, writes *)
(* and commits.  A request enters here when verifySignedRequest has        *)
(* returned nil (module Challenges says when that happens).                *)
(*                                                                         *)
(* Left out: the per-minute limiters (a request they refuse changes no     *)
(* table), the security counters (statistics nothing reads) and the        *)
(* read-only validate and search handlers.                                 *)
(***************************************************************************)
EXTENDS Naturals, FiniteSets

CONSTANTS
    Handlers,                      \* goroutines serving a request
    Peers,                         \* identity keys
    Usernames,
    Rooms,                         \* ids of public rooms
    Sources,                       \* client addresses, what clientKey returns
    MaxActiveProfilesPerSource,
    MaxProfileSuccessesPerWindow,
    MaxActivePublicRooms,
    ProfileSuccessCooldown,        \* in ticks of the clock
    ProfileSuccessWindow,
    MaxClock,                      \* bound of the model on the clock
    None                           \* no room, no username, no source

ASSUME LimitsAreNaturals ==
    /\ MaxActiveProfilesPerSource \in Nat
    /\ MaxProfileSuccessesPerWindow \in Nat
    /\ MaxActivePublicRooms \in Nat
    /\ ProfileSuccessCooldown \in Nat
    /\ ProfileSuccessWindow \in Nat

ASSUME NoneIsNoAction ==
    None \notin {"register_profile", "release_profile",
                 "register_public_room", "release_public_room"}

VARIABLES
    now,             \* the clock
    profiles,        \* rows of table profiles
    publicRooms,     \* rows of table public_rooms
    issuanceEvents,  \* rows of table profile_issuance_events
    task             \* what each handler is doing

tables == <<profiles, publicRooms, issuanceEvents>>
vars == <<now, profiles, publicRooms, issuanceEvents, task>>

ProfileRow == [username: Usernames, peer: Peers, source: Sources]
RoomRow == [room: Rooms, peer: Peers, username: Usernames]
IssuanceRow == [username: Usernames, peer: Peers, source: Sources, issuedAt: Nat]

(***************************************************************************)
(* The four signed requests, with the fields each of them carries.         *)
(***************************************************************************)
Request(actions, users, rooms, sources) ==
    [action: actions, peer: Peers, username: users, room: rooms, source: sources]

Requests ==
    Request({"register_profile"}, Usernames, {None}, Sources)
    \cup Request({"release_profile"}, Usernames, {None}, {None})
    \cup Request({"register_public_room"}, Usernames, Rooms, {None})
    \cup Request({"release_public_room"}, {None}, Rooms, {None})

NoRequest == [action |-> None, peer |-> None, username |-> None, room |-> None, source |-> None]

(***************************************************************************)
(* "verified": signed and matched with its challenge, transaction not open *)
(* "writing":  the transaction has done its reads and decided to insert    *)
(* "stale":    another transaction has changed the tables since            *)
(***************************************************************************)
Stages == {"idle", "verified", "writing", "stale"}
Replies == {"none", "created", "released", "refused", "not_found", "internal_error"}

Task == [stage: Stages, request: Requests \cup {NoRequest}, issuedAt: Nat, reply: Replies]

Idle(reply) == [stage |-> "idle", request |-> NoRequest, issuedAt |-> 0, reply |-> reply]

Serving(h, stage, action) ==
    /\ task[h].stage = stage
    /\ task[h].request.action = action

Answer(h, reply) == task' = [task EXCEPT ![h] = Idle(reply)]

(***************************************************************************)
(* What SQLite promises to two transactions that overlap: the one whose    *)
(* reads the other's commit has overtaken cannot commit (SQLITE_BUSY).     *)
(***************************************************************************)
OvertakeNobody(h, reply) == [task EXCEPT ![h] = Idle(reply)]   \* mutant: no isolation

Overtake(h, reply) ==
    [g \in Handlers |->
        IF g = h THEN Idle(reply)
        ELSE IF task[g].stage = "writing" THEN [task[g] EXCEPT !.stage = "stale"]
        ELSE task[g]]
-----------------------------------------------------------------------------
(* registerProfile: the reads of its transaction.                          *)

HoldsOrAnotherDoes(r) == \E p \in profiles : p.username = r.username   \* mutant

Holds(r) == \E p \in profiles : p.username = r.username /\ p.peer = r.peer

NameTaken(r) == \E p \in profiles : p.username = r.username /\ p.peer # r.peer
KeyBound(r) == \E p \in profiles : p.peer = r.peer /\ p.username # r.username

ActiveProfiles(source) == {p \in profiles : p.source = source}

RecentIssuesExclusive(source, span) ==   \* mutant: > for >=
    {e \in issuanceEvents : e.source = source /\ e.issuedAt + span > now}

RecentIssues(source, span) ==
    {e \in issuanceEvents : e.source = source /\ e.issuedAt + span >= now}

SourceMayIssueOneMore(source) ==   \* mutant: <= for <
    /\ Cardinality(ActiveProfiles(source)) <= MaxActiveProfilesPerSource
    /\ RecentIssues(source, ProfileSuccessCooldown) = {}
    /\ Cardinality(RecentIssues(source, ProfileSuccessWindow)) < MaxProfileSuccessesPerWindow

SourceMayIssue(source) ==
    /\ Cardinality(ActiveProfiles(source)) < MaxActiveProfilesPerSource
    /\ RecentIssues(source, ProfileSuccessCooldown) = {}
    /\ Cardinality(RecentIssues(source, ProfileSuccessWindow)) < MaxProfileSuccessesPerWindow

MayIssue(r) ==
    /\ ~Holds(r) /\ ~NameTaken(r) /\ ~KeyBound(r)
    /\ SourceMayIssue(r.source)

(* What the INSERT writes, and what the DELETE of releaseProfile removes.  *)

RowWithoutSource(r) == [username |-> r.username, peer |-> r.peer, source |-> None]   \* mutant

RowOf(r) == [username |-> r.username, peer |-> r.peer, source |-> r.source]

RowsOfName(r) == {p \in profiles : p.username = r.username}   \* mutant: no peer_id test

ReleasedRows(r) == {p \in profiles : p.username = r.username /\ p.peer = r.peer}

(* registerPublicRoom: the reads of its transaction.                       *)

RoomsOf(peer) == {q \in publicRooms : q.peer = peer}
OwnsRoom(r) == \E q \in publicRooms : q.room = r.room /\ q.peer = r.peer
RoomTaken(r) == \E q \in publicRooms : q.room = r.room

MayOpenRoomOneMore(r) ==   \* mutant: <= for <
    /\ Holds(r)
    /\ ~RoomTaken(r)
    /\ Cardinality(RoomsOf(r.peer)) <= MaxActivePublicRooms

MayOpenRoom(r) ==
    /\ Holds(r)
    /\ ~RoomTaken(r)
    /\ Cardinality(RoomsOf(r.peer)) < MaxActivePublicRooms
-----------------------------------------------------------------------------
Init ==
    /\ now = 0
    /\ profiles = {}
    /\ publicRooms = {}
    /\ issuanceEvents = {}
    /\ task = [h \in Handlers |-> Idle("none")]

(* A handler has parsed a request and verifySignedRequest accepted it.     *)
Accept(h, r) ==
    /\ task[h].stage = "idle"
    /\ task' = [task EXCEPT ![h] = [stage |-> "verified", request |-> r,
                                    issuedAt |-> 0, reply |-> "none"]]
    /\ UNCHANGED <<now, tables>>

(* registerProfile up to its first INSERT: a name this key already holds   *)
(* is confirmed, a refusal is answered, anything else goes on to write.    *)
RegisterProfileRead(h) ==
    LET r == task[h].request IN
    /\ Serving(h, "verified", "register_profile")
    /\ \/ /\ Holds(r)
          /\ Answer(h, "created")
       \/ /\ ~Holds(r) /\ ~MayIssue(r)
          /\ Answer(h, "refused")
       \/ /\ MayIssue(r)
          /\ task' = [task EXCEPT ![h].stage = "writing", ![h].issuedAt = now]
    /\ UNCHANGED <<now, tables>>

RegisterProfileCommit(h) ==
    LET r == task[h].request IN
    /\ Serving(h, "writing", "register_profile")
    /\ profiles' = profiles \cup {RowOf(r)}
    /\ issuanceEvents' = issuanceEvents \cup
           {[username |-> r.username, peer |-> r.peer, source |-> r.source,
             issuedAt |-> task[h].issuedAt]}
    /\ task' = Overtake(h, "created")
    /\ UNCHANGED <<now, publicRooms>>

(* releaseProfile: both DELETEs commit together, and they commit even when *)
(* the second one finds no row.                                            *)
ReleaseProfile(h) ==
    LET r == task[h].request IN
    /\ Serving(h, "verified", "release_profile")
    /\ publicRooms' = publicRooms \ RoomsOf(r.peer)
    /\ profiles' = profiles \ ReleasedRows(r)
    /\ \/ /\ Holds(r)
          /\ task' = Overtake(h, "released")
       \/ /\ ~Holds(r) /\ RoomsOf(r.peer) # {}
          /\ task' = Overtake(h, "not_found")
       \/ /\ ~Holds(r) /\ RoomsOf(r.peer) = {}
          /\ Answer(h, "not_found")
    /\ UNCHANGED <<now, issuanceEvents>>

(* registerPublicRoom up to its INSERT.                                    *)
RegisterPublicRoomRead(h) ==
    LET r == task[h].request IN
    /\ Serving(h, "verified", "register_public_room")
    /\ \/ /\ Holds(r) /\ OwnsRoom(r)
          /\ Answer(h, "created")
       \/ /\ ~(Holds(r) /\ OwnsRoom(r)) /\ ~MayOpenRoom(r)
          /\ Answer(h, "refused")
       \/ /\ MayOpenRoom(r)
          /\ task' = [task EXCEPT ![h].stage = "writing"]
    /\ UNCHANGED <<now, tables>>

RegisterPublicRoomCommit(h) ==
    LET r == task[h].request IN
    /\ Serving(h, "writing", "register_public_room")
    /\ publicRooms' = publicRooms \cup
           {[room |-> r.room, peer |-> r.peer, username |-> r.username]}
    /\ task' = Overtake(h, "created")
    /\ UNCHANGED <<now, profiles, issuanceEvents>>

(* handleReleasePublicRoom: one DELETE statement outside any transaction.  *)
ReleasePublicRoom(h) ==
    LET r == task[h].request IN
    /\ Serving(h, "verified", "release_public_room")
    /\ publicRooms' = {q \in publicRooms : ~(q.room = r.room /\ q.peer = r.peer)}
    /\ \/ /\ OwnsRoom(r)
          /\ task' = Overtake(h, "released")
       \/ /\ ~OwnsRoom(r)
          /\ Answer(h, "not_found")
    /\ UNCHANGED <<now, profiles, issuanceEvents>>

(* Any statement or the commit fails: the deferred Rollback undoes the     *)
(* transaction and the client reads internal_error.                        *)
Fail(h) ==
    /\ task[h].stage # "idle"
    /\ Answer(h, "internal_error")
    /\ UNCHANGED <<now, tables>>

(* The process dies and comes back: requests in flight are lost, initDB    *)
(* keeps the tables.                                                       *)
Restart ==
    /\ task' = [h \in Handlers |-> Idle("none")]
    /\ UNCHANGED <<now, tables>>

Tick ==
    /\ now < MaxClock
    /\ now' = now + 1
    /\ UNCHANGED <<tables, task>>

Step(h) ==
    \/ RegisterProfileRead(h)
    \/ RegisterProfileCommit(h)
    \/ ReleaseProfile(h)
    \/ RegisterPublicRoomRead(h)
    \/ RegisterPublicRoomCommit(h)
    \/ ReleasePublicRoom(h)
    \/ Fail(h)

Next ==
    \/ \E h \in Handlers : Step(h)
    \/ \E h \in Handlers, r \in Requests : Accept(h, r)
    \/ Restart
    \/ Tick

Spec == Init /\ [][Next]_vars
-----------------------------------------------------------------------------
(* Type invariant.                                                         *)
TypeOK ==
    /\ now \in Nat
    /\ profiles \in SUBSET ProfileRow
    /\ publicRooms \in SUBSET RoomRow
    /\ issuanceEvents \in SUBSET IssuanceRow
    /\ task \in [Handlers -> Task]

(* A name belongs to one key and a key holds one name, without the help of *)
(* the UNIQUE constraints of initDB: no registration ever dies on them,    *)
(* whatever registrations and releases overlap it (registerProfile).       *)
OneNamePerKey ==
    \A p, q \in profiles : (p.username = q.username \/ p.peer = q.peer) => p = q

(* A public room always belongs to a registered profile, whichever of room *)
(* registration and profile release commits first (registerPublicRoom,     *)
(* releaseProfile).                                                        *)
RoomsBelongToProfiles ==
    \A q \in publicRooms :
        \E p \in profiles : p.peer = q.peer /\ p.username = q.username

(* A room id has one owner and no key owns more rooms than the cap, also   *)
(* when several requests of one key overlap (registerPublicRoom).          *)
RoomsWithinCap ==
    /\ \A p, q \in publicRooms : p.room = q.room => p = q
    /\ \A k \in Peers : Cardinality(RoomsOf(k)) <= MaxActivePublicRooms

(* One source never has more active profiles than the cap.                 *)
ProfilesWithinSourceCap ==
    \A s \in Sources : Cardinality(ActiveProfiles(s)) <= MaxActiveProfilesPerSource

(* Two profiles issued to one source are more than the cooldown apart,     *)
(* also when the first was released in between (registerProfile).          *)
IssuesRespectCooldown ==
    \A e, f \in issuanceEvents :
        e.source = f.source /\ e.issuedAt <= f.issuedAt /\ e # f
            => e.issuedAt + ProfileSuccessCooldown < f.issuedAt

(* No window of ProfileSuccessWindow ticks holds more issues to one source *)
(* than the limit.                                                         *)
IssuesWithinWindow ==
    \A f \in issuanceEvents :
        Cardinality({e \in issuanceEvents :
                        /\ e.source = f.source
                        /\ e.issuedAt <= f.issuedAt
                        /\ e.issuedAt + ProfileSuccessWindow >= f.issuedAt})
            <= MaxProfileSuccessesPerWindow

(* A profile leaves the table only in a step that serves a release of that *)
(* very name signed by that very key: no registration, room operation,     *)
(* failure or restart ever takes a name from its holder.                   *)
OnlyHolderReleases ==
    [][\A p \in profiles : p \notin profiles' =>
          \E h \in Handlers :
              /\ Serving(h, "verified", "release_profile")
              /\ task[h].request.peer = p.peer
              /\ task[h].request.username = p.username]_vars

(* The answer "created" is true when it is given: the key holds the name,  *)
(* or owns the room under a profile of that name.                          *)
CreatedIsTrue ==
    [][\A h \in Handlers :
          LET r == task[h].request IN
          task[h].stage # "idle" /\ task'[h].reply = "created" =>
              /\ \E p \in profiles' : p.username = r.username /\ p.peer = r.peer
              /\ r.action = "register_public_room" =>
                    \E q \in publicRooms' : q.room = r.room /\ q.peer = r.peer]_vars
-----------------------------------------------------------------------------
(* Why the invariants above are preserved: as long as a transaction is     *)
(* still "writing" nothing it has read has changed, so its decision is     *)
(* still right at the moment it commits (registerProfile,                  *)
(* registerPublicRoom).  Time has no part in it: the clock may move on     *)
(* between the reads and the commit.                                       *)
FreshProfileWriter(h) ==
    LET r == task[h].request
        at == task[h].issuedAt
    IN  /\ \A p \in profiles : p.username # r.username /\ p.peer # r.peer
        /\ Cardinality(ActiveProfiles(r.source)) < MaxActiveProfilesPerSource
        /\ \A e \in issuanceEvents :
               e.source = r.source => e.issuedAt + ProfileSuccessCooldown < at
        /\ Cardinality({e \in issuanceEvents :
                           e.source = r.source /\ e.issuedAt + ProfileSuccessWindow >= at})
               < MaxProfileSuccessesPerWindow

WritersAreFresh ==
    \A h \in Handlers :
        /\ Serving(h, "writing", "register_profile") => FreshProfileWriter(h)
        /\ Serving(h, "writing", "register_public_room") => MayOpenRoom(task[h].request)
=============================================================================
