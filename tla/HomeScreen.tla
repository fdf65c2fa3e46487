----------------------------- MODULE HomeScreen -----------------------------
(***************************************************************************)
(* The home screen (HomeModel of                                           *)
(* presentation.tui.home.render.controller.cli.go), the two tables it      *)
(* edits (rooms with memberships, public_room_index) and its calls to the  *)
(* registry, which is module NameService.                                  *)
(*                                                                         *)
(* Bubbletea handles keys and messages one at a time; what Update returns  *)
(* are commands, goroutines that read the model when they get to it and    *)
(* whose messages come back in any order.  A panel (the dialogs, the room  *)
(* information, the question before a deletion) is not in the state: while *)
(* it is open keys go to it, but everything it does reads the list and the *)
(* cursor at the time of the key that ends it, so it is modelled as that   *)
(* key.  "busy" is left out as well: it blocks no key.                     *)
(*                                                                         *)
(* Left out: text being typed into the dialogs, focus, colours, the toast; *)
(* the twenty-row limit of a search; the limit of 100 private rooms, one   *)
(* more reason for createRoom to fail; the local policies (hidden, trusted, *)
(* muted, blocked), which only mark or leave out rows of a list; the       *)
(* syncing and resolving panels, whose messages nothing sends.             *)
(***************************************************************************)
EXTENDS NameService, Sequences

CONSTANTS
    Me,            \* this device's key; the other Peers stand for other devices
    PrivateRooms,
    ByName,        \* all rooms in the order of their names
    NameOf,        \* the registered name of each key; nobody deletes a profile here
    Queries,       \* what may be typed into the search field
    Fold,          \* a query in lower case
    Matching,      \* the rooms whose names contain a query, whatever the case
    Like,          \* the rooms whose names the registry finds LIKE a query
    NoQuery,       \* the empty search field
    NoRoom,
    MaxCommands    \* bound on commands and messages under way

AllRooms == Rooms \cup PrivateRooms

ASSUME HomeAssumption ==
    /\ Me \in Peers /\ NameOf \in [Peers -> Usernames]
    /\ Rooms \cap PrivateRooms = {} /\ NoRoom \notin AllRooms
    /\ NoQuery \notin Queries
    /\ Matching \in [Queries -> SUBSET AllRooms] /\ Like \in [Queries -> SUBSET AllRooms]
    /\ ByName \in Seq(AllRooms)
    /\ MaxCommands \in Nat /\ MaxActivePublicRooms \in Nat

VARIABLES
    open,       \* the room in the room view, NoRoom in the home view
    home,       \* the fields of HomeModel
    commands,   \* commands and messages under way
    releasing,  \* the call that Update itself waits for while it deletes a room
    creator,    \* rooms.creator_id: "nobody" (no row), "me", "other"
    member,     \* memberships.role: "none", "member", "owner"
    index,      \* public_room_index: rooms, and whether creator_id is this user
    excused     \* public rooms one of whose calls went wrong (history)

registry == <<names, rooms>>
tables == <<creator, member, index>>
vars == <<registry, open, home, commands, releasing, tables, excused>>

(* An entry of a list: the room and whether its CreatorID is this user.    *)
Item == [room: AllRooms, mine: BOOLEAN]

(* unsearched is history: no search has read the field since it was edited *)
(* last, or the last search failed.                                        *)
HomeFields == [mode: {"pinned", "search"}, query: Queries \cup {NoQuery}, unsearched: BOOLEAN,
               list: Seq(Item), discovered: SUBSET Item, cursor: Nat]

FreshHome == [mode |-> "pinned", query |-> NoQuery, unsearched |-> FALSE,
              list |-> <<>>, discovered |-> {}, cursor |-> 0]

Fetch == [op |-> "fetch"]
Failed == [op |-> "error"]
OpenRoomMsg(r) == [op |-> "open", room |-> r]
Creating(r, call) == [op |-> "create", room |-> r, call |-> call]
NotReleasing == [room |-> NoRoom, call |-> "none"]
RoomsIn(items) == {i.room : i \in items}

(* The rooms of the items, in the order of ByName.                         *)
Listed(items) ==
    LET shown == {n \in DOMAIN ByName : ByName[n] \in RoomsIn(items)}
        Place(p) == CHOOSE n \in shown : Cardinality({k \in shown : k < n}) = p - 1
    IN  [p \in 1..Cardinality(shown) |-> CHOOSE i \in items : i.room = ByName[Place(p)]]

Filter(items, query) ==
    IF query = NoQuery THEN {} ELSE {i \in items : i.room \in Matching[query]}

ClampNot(h) == h                                                  \* mutant
ClampBelow(h) == [h EXCEPT !.cursor = IF @ < Len(h.list) THEN @ ELSE Len(h.list) - 1]   \* mutant

Clamp(h) ==
    IF h.cursor < Len(h.list) THEN h
    ELSE [h EXCEPT !.cursor = IF h.list = <<>> THEN 0 ELSE Len(h.list) - 1]

UnderCursor == home.list[home.cursor + 1]
HasSelection == home.list # <<>> /\ home.cursor < Len(home.list)
BeyondRows == home.list # <<>> /\ home.cursor >= Len(home.list)

HomeInit ==
    /\ names = {[username |-> NameOf[k], peer |-> k] : k \in Peers}
    /\ rooms = {}
    /\ open = NoRoom
    /\ home = FreshHome /\ commands = {Fetch}
    /\ releasing = NotReleasing
    /\ creator = [r \in AllRooms |-> "nobody"]
    /\ member = [r \in AllRooms |-> "none"]
    /\ index = {}
    /\ excused = {}

(* Update is free to handle a key or a message.                            *)
Handling == releasing = NotReleasing
AtHome == open = NoRoom

Key(mode) == Handling /\ AtHome /\ home.mode = mode

Start(command) ==
    /\ Cardinality(commands) < MaxCommands
    /\ commands' = commands \cup {command}

Becomes(command, next) == commands' = (commands \ {command}) \cup {next}

Elsewhere == UNCHANGED <<open, releasing, registry, excused>>

-----------------------------------------------------------------------------
(* Store.                                                                  *)

(* The index takes the creator it was told of last.                        *)
Indexed(r, mine) ==
    {i \in index : i.room # r} \cup {[room |-> q, mine |-> mine] : q \in {r} \cap Rooms}

Remove(r) ==
    /\ creator' = [creator EXCEPT ![r] = "nobody"]
    /\ member' = [member EXCEPT ![r] = "none"]
    /\ index' = {i \in index : i.room # r}

CreateRoom(r) ==
    /\ creator' = [creator EXCEPT ![r] = "me"]
    /\ member' = [member EXCEPT ![r] = "owner"]
    /\ index' = Indexed(r, TRUE)

JoinedAs(r) == IF member[r] = "none" THEN "member" ELSE member[r]

(* A room that is known keeps its creator; one that is not is created by   *)
(* whom the caller says, which is this user if he says nothing.            *)
JoinExternalRoom(r, by) ==
    /\ member' = [member EXCEPT ![r] = JoinedAs(r)]
    /\ \/ /\ creator[r] = "nobody"
          /\ creator' = [creator EXCEPT ![r] = by]
          /\ index' = Indexed(r, by = "me")
       \/ /\ creator[r] # "nobody"
          /\ UNCHANGED <<creator, index>>

(* JoinRoom inserts a membership; without a row of the room the foreign key *)
(* refuses it, and nobody looks at the error.                              *)
JoinRoom(r) ==
    /\ member' = IF creator[r] = "nobody" THEN member ELSE [member EXCEPT ![r] = JoinedAs(r)]
    /\ UNCHANGED <<creator, index>>

ItemOf(r) == [room |-> r, mine |-> creator[r] = "me"]
ListRooms == {ItemOf(r) : r \in {q \in AllRooms : member[q] # "none"}}
SearchAllRooms == index
SearchPublicRooms == {[room |-> q.room, mine |-> q.peer = Me] : q \in rooms}
-----------------------------------------------------------------------------
(* Lists.                                                                  *)

(* The registry's answer is shown as it is: LIKE takes % and _ in a query  *)
(* for wildcards.  A search that the registry does not answer falls back   *)
(* to the table, filtered.                                                 *)
SearchAnswers(query) ==
    IF query = NoQuery THEN {{}}
    ELSE {{i \in SearchPublicRooms : i.room \in Like[query]}, Filter(SearchAllRooms, query)}

(* The command reads mode and query when it runs; the database may fail.   *)
FetchRooms ==
    /\ Fetch \in commands
    /\ \/ /\ home.mode = "pinned"
          /\ Becomes(Fetch, [op |-> "listed", items |-> ListRooms])
          /\ UNCHANGED home
       \/ /\ home.mode = "search"
          /\ \E items \in SearchAnswers(home.query) :
                Becomes(Fetch, [op |-> "found", query |-> home.query, items |-> items])
          /\ home' = [home EXCEPT !.unsearched = FALSE]
       \/ /\ home.mode = "pinned"
          /\ Becomes(Fetch, Failed)
          /\ UNCHANGED home
       \/ /\ home.mode = "search" /\ home.query # NoQuery
          /\ Becomes(Fetch, Failed)
          /\ home' = [home EXCEPT !.unsearched = TRUE]
    /\ UNCHANGED tables /\ Elsewhere

RoomsLoaded(c) ==
    /\ Handling /\ c.op = "listed"
    /\ commands' = commands \ {c}
    /\ home' = IF ~AtHome THEN home
               ELSE IF home.mode = "search"
               THEN Clamp([home EXCEPT !.discovered = c.items,
                                       !.list = Listed(Filter(c.items, home.query))])
               ELSE Clamp([home EXCEPT !.list = Listed(c.items)])
    /\ UNCHANGED tables /\ Elsewhere

StillAskedForAny(c) == AtHome /\ home.mode = "search"   \* mutant: query not compared

(* Compared as it was typed: the answer to a query whose case was changed  *)
(* meanwhile is dropped.                                                   *)
StillAskedFor(c) == AtHome /\ home.mode = "search" /\ home.query = c.query

SearchRoomsLoaded(c) ==
    /\ Handling /\ c.op = "found"
    /\ commands' = commands \ {c}
    /\ home' = IF StillAskedFor(c) THEN Clamp([home EXCEPT !.list = Listed(c.items)]) ELSE home
    /\ UNCHANGED tables /\ Elsewhere

(* Discovery has heard of a public room that the registry lists for some-  *)
(* body else: it goes into the index and, if the channel to the interface  *)
(* has space, to the screen.                                               *)
RoomDiscovered(r) ==
    LET seen == home.discovered \cup {[room |-> r, mine |-> FALSE]} IN
    /\ \E q \in rooms : q.room = r /\ q.peer # Me
    /\ index' = Indexed(r, FALSE)
    /\ \/ UNCHANGED home
       \/ /\ Handling /\ r \notin RoomsIn(home.discovered)
          /\ home' = IF home.mode = "search"
                     THEN [home EXCEPT !.discovered = seen,
                                       !.list = Listed(Filter(seen, home.query))]
                     ELSE [home EXCEPT !.discovered = seen]
    /\ UNCHANGED <<commands, creator, member>> /\ Elsewhere

Move ==
    /\ Key("pinned") \/ Key("search")
    /\ \/ home.cursor > 0 /\ home' = [home EXCEPT !.cursor = @ - 1]
       \/ home.cursor + 1 < Len(home.list) /\ home' = [home EXCEPT !.cursor = @ + 1]
    /\ UNCHANGED <<commands, tables>> /\ Elsewhere

PressS ==
    /\ Key("pinned")
    /\ home' = [home EXCEPT !.mode = "search"]
    /\ Start(Fetch)
    /\ UNCHANGED tables /\ Elsewhere

(* The field is edited and no search is started for it; one that has not   *)
(* read the field yet will still do.                                       *)
Edited(query) ==
    [home EXCEPT !.query = query,
                 !.unsearched = @ \/ (query # home.query /\ Fetch \notin commands)]

(* A key that changes nothing but the case of the query, or nothing, only  *)
(* brings the cursor back.                                                 *)
Type(query) ==
    /\ Key("search")
    /\ \/ /\ Fold[query] # Fold[home.query]
          /\ home' = [home EXCEPT !.query = query, !.cursor = 0]
          /\ Start(Fetch)
       \/ /\ Fold[query] = Fold[home.query]
          /\ home' = Clamp(Edited(query))
          /\ UNCHANGED commands
    /\ UNCHANGED tables /\ Elsewhere

(* ctrl+v: the text comes as a message, not a key, and nothing compares it *)
(* with what was there.                                                    *)
Paste(query) ==
    /\ Key("search")
    /\ home' = Edited(query)
    /\ UNCHANGED <<commands, tables>> /\ Elsewhere

EscSearch ==
    /\ Key("search")
    /\ home' = [home EXCEPT !.mode = "pinned", !.query = NoQuery]
    /\ Start(Fetch)
    /\ UNCHANGED tables /\ Elsewhere
-----------------------------------------------------------------------------
(* Opening and joining.                                                    *)

EnterPinned ==
    /\ Key("pinned") /\ home.list # <<>>
    /\ Start([op |-> "enter"])
    /\ UNCHANGED <<home, tables>> /\ Elsewhere

(* The command looks up m.rooms[m.index] when it joins the room and again, *)
(* after two statements of the database, when it opens it: by then it may  *)
(* be another room, or none (EnterPanics).  The reads for one message are  *)
(* one step.                                                               *)
EnterJoins(c) ==
    /\ c.op = "enter" /\ HasSelection
    /\ JoinRoom(UnderCursor.room)
    /\ Becomes(c, [op |-> "entered"])
    /\ UNCHANGED home /\ Elsewhere

EnterOpens(c) ==
    /\ c.op = "entered" /\ HasSelection
    /\ Becomes(c, OpenRoomMsg(UnderCursor.room))
    /\ UNCHANGED <<home, tables>> /\ Elsewhere

EnterSearch ==
    /\ Key("search")
    /\ \/ /\ HasSelection
          /\ JoinExternalRoom(UnderCursor.room, IF UnderCursor.mine THEN "me" ELSE "other")
          /\ Start(OpenRoomMsg(UnderCursor.room))
       \/ /\ ~HasSelection /\ home.query # NoQuery
          /\ Start([op |-> "byName", query |-> home.query])
          /\ UNCHANGED tables
    /\ UNCHANGED home /\ Elsewhere

(* Only a room of the index can have the exact name.                       *)
JoinRoomByName(c) ==
    /\ c.op = "byName"
    /\ \/ \E r \in RoomsIn(index) \cap Matching[c.query] :
             JoinRoom(r) /\ Becomes(c, OpenRoomMsg(r))
       \/ commands' = commands \ {c} /\ UNCHANGED tables
    /\ UNCHANGED home /\ Elsewhere

SubmitJoin(r) ==
    /\ Key("pinned")
    /\ Start([op |-> "join", room |-> r])
    /\ UNCHANGED <<home, tables>> /\ Elsewhere

JoinRoomByID(c) ==
    /\ c.op = "join"
    /\ JoinExternalRoom(c.room, "me")
    /\ Becomes(c, OpenRoomMsg(c.room))
    /\ UNCHANGED home /\ Elsewhere

-----------------------------------------------------------------------------
(* Creating: first the table, then the registry, which may refuse or stay  *)
(* silent; then the room goes again.                                       *)

SubmitCreate(r) ==
    /\ Key("pinned")
    /\ Start(Creating(r, "insert"))
    /\ UNCHANGED <<home, tables>> /\ Elsewhere

InsertRoom(c) ==
    /\ c.op = "create" /\ c.call = "insert"
    /\ \/ /\ creator[c.room] = "nobody"
          /\ CreateRoom(c.room)
          /\ Becomes(c, IF c.room \in Rooms THEN Creating(c.room, "sent") ELSE OpenRoomMsg(c.room))
       \/ /\ creator[c.room] # "nobody"
          /\ Becomes(c, Failed)
          /\ UNCHANGED tables
    /\ UNCHANGED home /\ Elsewhere

Registered(c) ==
    /\ c.op = "create" /\ c.call = "ok"
    /\ Becomes(c, OpenRoomMsg(c.room))
    /\ UNCHANGED <<home, tables>> /\ Elsewhere

NotRegisteredKept(c) ==   \* mutant: the room stays
    /\ c.op = "create" /\ c.call = "refused"
    /\ Becomes(c, Failed)
    /\ UNCHANGED <<home, tables>> /\ Elsewhere

NotRegistered(c) ==
    /\ c.op = "create" /\ c.call = "refused"
    /\ Remove(c.room)
    /\ Becomes(c, Failed)
    /\ UNCHANGED home /\ Elsewhere

(* Nothing comes back within requestTimeout, whether the request was lost  *)
(* or its answer: to the program this is a refusal.  A request that the    *)
(* registry serves later still is left out: the room is excused by then.   *)
RegistrationFails(c) ==
    /\ c.op = "create" /\ c.call \in {"sent", "ok", "refused"}
    /\ excused' = excused \cup {c.room}
    /\ Remove(c.room)
    /\ Becomes(c, Failed)
    /\ UNCHANGED <<open, home, releasing, registry>>
-----------------------------------------------------------------------------
(* Deleting: Update calls the registry and waits; nothing else is handled  *)
(* meanwhile.  Which room it is, and whether it is a public room of the    *)
(* user, is what the list said when it was loaded; whether the user owns   *)
(* it is what the table says now.                                          *)

ConfirmDelete ==
    LET r == UnderCursor.room
        refreshed == [home EXCEPT !.cursor = 0]
    IN
    /\ Key("pinned") /\ HasSelection
    /\ \/ /\ member[r] = "owner" /\ r \in Rooms /\ UnderCursor.mine
          /\ releasing' = [room |-> r, call |-> "sent"]
          /\ UNCHANGED <<home, commands, tables, excused>>
       \/ /\ member[r] = "owner" /\ ~(r \in Rooms /\ UnderCursor.mine)
          /\ Remove(r)
          /\ home' = refreshed /\ Start(Fetch)
          /\ excused' = excused \cup ({r} \cap Rooms)
          /\ UNCHANGED releasing
       \/ /\ member[r] # "owner"
          /\ member' = [member EXCEPT ![r] = "none"]
          /\ home' = refreshed /\ Start(Fetch)
          /\ UNCHANGED <<releasing, creator, index, excused>>
    /\ UNCHANGED <<open, registry>>

Deleted ==
    /\ releasing.call = "ok"
    /\ Remove(releasing.room)
    /\ home' = [home EXCEPT !.cursor = 0]
    /\ Start(Fetch)
    /\ releasing' = NotReleasing
    /\ UNCHANGED <<open, registry, excused>>

NotReleased ==
    /\ releasing.call = "not_found"
    /\ releasing' = NotReleasing
    /\ UNCHANGED <<open, home, commands, registry, tables, excused>>

ReleaseFails ==
    /\ releasing # NotReleasing
    /\ excused' = excused \cup {releasing.room}
    /\ releasing' = NotReleasing
    /\ UNCHANGED <<open, home, commands, registry, tables>>
-----------------------------------------------------------------------------
(* Registry.                                                               *)

Owned(r) == [room |-> r, peer |-> Me] \in rooms

(* What a request does when it is served.  A registration of a room that   *)
(* is the key's already is confirmed; any other may also be refused by a   *)
(* limiter.                                                                *)
ServeCreate(c) ==
    LET Reply(call) == Becomes(c, Creating(c.room, call)) IN
    /\ c.op = "create" /\ c.call = "sent"
    /\ \/ Owned(c.room) /\ Reply("ok") /\ UNCHANGED registry
       \/ OpenRoom(c.room, Me) /\ Reply("ok")
       \/ ~Owned(c.room) /\ Reply("refused") /\ UNCHANGED registry
    /\ UNCHANGED <<open, home, releasing, tables, excused>>

ServeDelete ==
    /\ releasing.call = "sent"
    /\ CloseRoom(releasing.room, Me)
    /\ releasing' = [releasing EXCEPT !.call = IF Owned(releasing.room) THEN "ok" ELSE "not_found"]
    /\ UNCHANGED <<open, home, commands, tables, excused>>

OthersUseRegistry ==
    /\ \E k \in Peers \ {Me}, r \in Rooms : OpenRoom(r, k) \/ CloseRoom(r, k)
    /\ rooms' # rooms
    /\ UNCHANGED <<open, home, commands, releasing, tables, excused>>
-----------------------------------------------------------------------------
(* AppModel.                                                               *)

HandleOpenRoom(c) ==
    /\ Handling /\ c.op = "open"
    /\ open' = c.room
    /\ commands' = commands \ {c}
    /\ UNCHANGED <<home, releasing, registry, tables, excused>>

EscRoom ==
    /\ Handling /\ ~AtHome
    /\ open' = NoRoom /\ Start(Fetch)
    /\ UNCHANGED <<home, releasing, registry, tables, excused>>

(* An error in the room view, of the room or of any command, deletes the   *)
(* open room.  In the home view AppModel drops it: HomeModel never learns  *)
(* of it and goes on being busy.                                           *)
HandleError ==
    /\ Handling
    /\ \/ /\ AtHome /\ Failed \in commands
          /\ commands' = commands \ {Failed}
          /\ UNCHANGED <<open, tables, excused>>
       \/ /\ ~AtHome
          /\ Remove(open)
          /\ open' = NoRoom
          /\ IF Failed \in commands THEN Becomes(Failed, Fetch) ELSE Start(Fetch)
          /\ excused' = excused \cup ({open} \cap Rooms)
    /\ UNCHANGED <<home, releasing, registry>>

(* The program ends (q, ctrl+c, a panic, a crash) and starts again.        *)
Unanswered == {c.room : c \in {d \in commands : d.op = "create" /\ d.call # "insert"}}
              \cup ({releasing.room} \ {NoRoom})

Restart ==
    /\ excused' = excused \cup Unanswered
    /\ open' = NoRoom /\ home' = FreshHome
    /\ commands' = {Fetch} /\ releasing' = NotReleasing
    /\ UNCHANGED <<registry, tables>>

(* An index out of range in a command ends the program.                    *)
EnterPanics ==
    /\ \E c \in commands : c.op \in {"enter", "entered"}
    /\ ~HasSelection
    /\ Restart
-----------------------------------------------------------------------------
Keys ==
    \/ Move \/ PressS \/ EscSearch \/ EnterPinned \/ EnterSearch
    \/ \E query \in Queries \cup {NoQuery} : Type(query)
    \/ \E query \in Queries : Paste(query)
    \/ \E r \in AllRooms : SubmitJoin(r) \/ SubmitCreate(r)
    \/ ConfirmDelete

Run(c) ==
    \/ RoomsLoaded(c) \/ SearchRoomsLoaded(c) \/ JoinRoomByName(c)
    \/ EnterJoins(c) \/ EnterOpens(c) \/ JoinRoomByID(c) \/ HandleOpenRoom(c)
    \/ InsertRoom(c) \/ ServeCreate(c) \/ Registered(c) \/ NotRegistered(c) \/ RegistrationFails(c)

HomeNext ==
    \/ Keys
    \/ FetchRooms \/ \E c \in commands : Run(c)
    \/ Deleted \/ NotReleased \/ ReleaseFails \/ ServeDelete
    \/ OthersUseRegistry
    \/ \E r \in Rooms : RoomDiscovered(r)
    \/ EscRoom \/ HandleError \/ EnterPanics \/ Restart

HomeSpec == HomeInit /\ [][HomeNext]_vars
-----------------------------------------------------------------------------
(* Type invariant.                                                         *)
HomeTypeOK ==
    /\ open \in AllRooms \cup {NoRoom}
    /\ home \in HomeFields
    /\ \A c \in commands :
          c.op \in {"fetch", "listed", "found", "enter", "entered", "byName", "join", "create",
                    "open", "error"}
    /\ releasing \in [room: AllRooms \cup {NoRoom}, call: {"none", "sent", "ok", "not_found"}]
    /\ creator \in [AllRooms -> {"nobody", "me", "other"}]
    /\ member \in [AllRooms -> {"none", "member", "owner"}]
    /\ index \subseteq Item
    /\ excused \subseteq Rooms

(* A public room this user owns in the table is registered for this user   *)
(* and the other way round, except between the two steps of createRoom or  *)
(* of a deletion of it and for rooms excused: those of which a call went   *)
(* unanswered, or which an error deleted in the room view.  No order of    *)
(* refusals, reloads, joins, repeated creations and deletions, other users *)
(* or restarts takes the two apart, so no slot of the three is lost        *)
(* (createRoom, confirmed deletion).                                       *)
UnderWay(r) ==
    \/ \E call \in {"sent", "refused"} : Creating(r, call) \in commands
    \/ releasing = [room |-> r, call |-> "ok"]

OwnedRoomsAreRegistered ==
    \A r \in Rooms : UnderWay(r) \/ r \in excused \/ (member[r] = "owner" <=> Owned(r))

(* In search mode, once no answer is outstanding, the list shows nothing   *)
(* but what a search for the field's content may find: a late answer to an *)
(* earlier query and the pinned list loaded late do not get onto the       *)
(* screen (FetchRooms, SearchRoomsLoadedMsg, RoomsLoadedMsg).  Not so      *)
(* after the field was pasted into or only its case changed, which starts  *)
(* no search, nor after a search failed, until the next search.            *)
Findable(query) == IF query = NoQuery THEN {} ELSE Like[query] \cup Matching[query]
Answered == \A c \in commands : c.op \notin {"fetch", "found"}

SearchShowsMatches ==
    AtHome /\ home.mode = "search" /\ Answered /\ ~home.unsearched
        => \A i \in DOMAIN home.list : home.list[i].room \in Findable(home.query)

(* A list that has rows keeps the cursor among them: no reload, deletion,  *)
(* query or change of mode takes it beyond the last row, only a room       *)
(* discovered during a search, which replaces the registry's answer by a   *)
(* shorter list.  An empty list has no row for the cursor: the command of  *)
(* enter, which indexes the list when it runs and not when the key is      *)
(* pressed, panics on one that was emptied meanwhile (EnterPanics).        *)
CursorStaysInList ==
    [][~BeyondRows /\ BeyondRows' => /\ home.mode = "search"
                                    /\ home'.discovered # home.discovered]_vars
=============================================================================
