--------------------------- MODULE HomeScreenProofs ---------------------------
(***************************************************************************)
(* What HomeScreen guarantees, for any rooms, users, queries and number of *)
(* commands under way.  Commands are kept in a set and finish in any       *)
(* order, so each layer of the invariant says what the commands under way  *)
(* have done so far:                                                       *)
(*   Typed       what a command carries;                                   *)
(*   SearchInv   when the list is not what was asked for, a command that   *)
(*               will bring it is under way;                               *)
(*   OwnedInv    how far table and registry are apart while a creation or  *)
(*               a deletion is between the two.                            *)
(***************************************************************************)
EXTENDS HomeScreen, FiniteSetTheorems, TLAPS

Ops == {"fetch", "listed", "found", "enter", "entered", "byName", "join", "create", "open", "error"}

\* An answer to a query has nothing but what a search for it may find.
Matches(items, query) == \A i \in items : i.room \in Findable(query)

CommandIsSound(c) ==
    /\ c.op \in Ops
    /\ c.op = "listed" => c.items \subseteq Item
    /\ c.op = "found" => /\ c.query \in Queries \cup {NoQuery}
                         /\ c.items \subseteq Item /\ Matches(c.items, c.query)
    /\ c.op = "byName" => c.query \in Queries
    /\ c.op \in {"join", "open"} => c.room \in AllRooms
    /\ c.op = "create" => /\ c.room \in AllRooms
                          /\ c.call \in {"insert", "sent", "ok", "refused"}
                          /\ c.call # "insert" => c.room \in Rooms
                          /\ c = Creating(c.room, c.call)

Typed ==
    /\ HomeTypeOK
    /\ rooms \subseteq [room: Rooms, peer: Peers]
    /\ \A c \in commands : CommandIsSound(c)
    /\ releasing # NotReleasing => releasing.room \in Rooms /\ releasing.call # "none"

\* Whoever owns a room made it here.
OwnersAreCreators == \A r \in AllRooms : member[r] = "owner" => creator[r] = "me"

ListMatches == \A i \in DOMAIN home.list : home.list[i].room \in Findable(home.query)

SearchInv ==
    AtHome /\ home.mode = "search" /\ ~home.unsearched =>
        \/ Fetch \in commands
        \/ \E c \in commands : c.op = "found" /\ c.query = home.query
        \/ ListMatches

Asked(r) == \E call \in {"sent", "refused"} : Creating(r, call) \in commands
Released(r) == releasing = [room |-> r, call |-> "ok"]

InStep(r) ==
    /\ Asked(r) => /\ member[r] = "owner" /\ ~Owned(r) /\ ~Released(r)
                   /\ ~(Creating(r, "sent") \in commands /\ Creating(r, "refused") \in commands)
    /\ Released(r) => member[r] = "owner" /\ ~Owned(r)
    /\ ~Asked(r) /\ ~Released(r) => (member[r] = "owner" <=> Owned(r))

OwnedInv == OwnersAreCreators /\ \A r \in Rooms \ excused : InStep(r)

-----------------------------------------------------------------------------
(* Lists.                                                                  *)

\* Members of a finite set of numbers can be numbered in their order.
LEMMA EveryPlaceIsTaken ==
    ASSUME NEW S \in SUBSET Nat, IsFiniteSet(S), NEW p \in 1..Cardinality(S)
    PROVE  \E n \in S : Cardinality({k \in S : k < n}) = p - 1
<1> DEFINE Below(n) == {k \in S : k < n}
           N == Cardinality(S)
           place == [n \in S |-> Cardinality(Below(n)) + 1]
<1>1. N \in Nat
  BY FS_CardinalityType
<1>2. ASSUME NEW n \in S
      PROVE  /\ IsFiniteSet(Below(n)) /\ Cardinality(Below(n)) \in Nat
             /\ Cardinality(Below(n) \cup {n}) = Cardinality(Below(n)) + 1
  <2>1. IsFiniteSet(Below(n))
    BY FS_Subset
  <2>2. n \notin Below(n)
    OBVIOUS
  <2> HIDE DEF Below
  <2>3. QED
    BY <2>1, <2>2, FS_CardinalityType, FS_AddElement
<1>3. ASSUME NEW n \in S, NEW T, IsFiniteSet(T), Below(n) \cup {n} \subseteq T
      PROVE  Cardinality(Below(n)) + 1 <= Cardinality(T)
  <2> HIDE DEF Below
  <2>1. Cardinality(Below(n) \cup {n}) <= Cardinality(T)
    BY <1>3, FS_Subset
  <2>2. QED
    BY <1>2, <2>1
<1>4. place \in [S -> 1..N]
  <2>1. ASSUME NEW n \in S PROVE Cardinality(Below(n)) + 1 \in 1..N
    <3>1. Below(n) \cup {n} \subseteq S
      OBVIOUS
    <3> HIDE DEF Below
    <3>2. Cardinality(Below(n)) + 1 <= N
      BY <1>3, <3>1
    <3>3. Cardinality(Below(n)) \in Nat
      BY <1>2
    <3> HIDE DEF N, place
    <3>4. QED
      BY <1>1, <3>2, <3>3
  <2> HIDE DEF Below, N
  <2>2. QED
    BY <2>1
<1>5. ASSUME NEW n \in S, NEW m \in S, n < m PROVE place[n] < place[m]
  <2>1. Below(n) \cup {n} \subseteq Below(m)
    <3>1. \A k \in S : k < n => k < m
      BY <1>5
    <3>2. QED
      BY <1>5, <3>1
  <2>2. place[n] = Cardinality(Below(n)) + 1 /\ place[m] = Cardinality(Below(m)) + 1
    OBVIOUS
  <2> HIDE DEF Below, place
  <2>3. Cardinality(Below(n)) + 1 <= Cardinality(Below(m))
    BY <1>2, <1>3, <2>1
  <2>4. Cardinality(Below(n)) \in Nat /\ Cardinality(Below(m)) \in Nat
    BY <1>2
  <2>5. QED
    BY <2>2, <2>3, <2>4
<1>6. place \in Injection(S, 1..N)
  <2>1. ASSUME NEW n \in S, NEW m \in S, place[n] = place[m] PROVE n = m
    <3>1. n \in Nat /\ m \in Nat /\ place[n] \in Int /\ place[m] \in Int
      BY <1>4
    <3> HIDE DEF place
    <3>2. QED
      BY <1>5, <2>1, <3>1
  <2> HIDE DEF place
  <2>2. QED
    BY <1>4, <2>1 DEF Injection, IsInjective
<1>7. IsFiniteSet(1..N) /\ Cardinality(1..N) = N
  BY <1>1, FS_Interval
<1>8. place \in Surjection(S, 1..N)
  <2> HIDE DEF place
  <2>1. QED
    BY <1>6, <1>7, FS_Injection
<1>9. PICK n \in S : place[n] = p
  <2> HIDE DEF place
  <2>1. QED
    BY <1>8 DEF Surjection
<1>10. Cardinality(Below(n)) + 1 = p
  BY <1>9
<1>11. Cardinality(Below(n)) = p - 1
  <2> HIDE DEF Below, place
  <2>1. Cardinality(Below(n)) \in Nat
    BY <1>2
  <2>2. p \in Nat
    BY <1>1
  <2>3. QED
    BY <1>10, <2>1, <2>2
<1>12. QED
  <2>1. Cardinality({k \in S : k < n}) = p - 1
    BY <1>11
  <2>2. QED
    BY <2>1, Zenon

\* A list has an entry for each room of the items, and nothing else.
LEMMA ListedItems ==
    ASSUME NEW items \in SUBSET Item
    PROVE  Listed(items) \in Seq(Item) /\ \A i \in DOMAIN Listed(items) : Listed(items)[i] \in items
<1> DEFINE shown == {n \in DOMAIN ByName : ByName[n] \in RoomsIn(items)}
           Place(p) == CHOOSE n \in shown : Cardinality({k \in shown : k < n}) = p - 1
           entry(p) == CHOOSE i \in items : i.room = ByName[Place(p)]
<1>1. Listed(items) = [p \in 1..Cardinality(shown) |-> entry(p)]
  BY DEF Listed
<1>2. shown \subseteq Nat /\ IsFiniteSet(shown)
  <2>1. DOMAIN ByName = 1..Len(ByName) /\ Len(ByName) \in Nat
    BY HomeAssumption
  <2>2. IsFiniteSet(1..Len(ByName))
    BY <2>1, FS_Interval
  <2>3. shown \subseteq 1..Len(ByName)
    BY <2>1
  <2> HIDE DEF shown
  <2>4. IsFiniteSet(shown)
    BY <2>2, <2>3, FS_Subset
  <2>5. QED
    BY <2>3, <2>4
<1>3. Cardinality(shown) \in Nat
  BY <1>2, FS_CardinalityType
<1>4. ASSUME NEW p \in 1..Cardinality(shown) PROVE entry(p) \in items
  <2>1. \E n \in shown : Cardinality({k \in shown : k < n}) = p - 1
    <3> HIDE DEF shown
    <3>1. QED
      BY <1>2, EveryPlaceIsTaken
  <2>2. Place(p) \in shown
    BY <2>1
  <2> HIDE DEF Place
  <2>3. \E i \in items : i.room = ByName[Place(p)]
    BY <2>2 DEF RoomsIn
  <2>4. QED
    BY <2>3
<1>5. QED
  <2> DEFINE list == [p \in 1..Cardinality(shown) |-> entry(p)]
  <2> HIDE DEF shown, entry
  <2>1. list \in Seq(Item) /\ \A i \in DOMAIN list : list[i] \in items
    BY <1>3, <1>4
  <2>2. QED
    BY <1>1, <2>1 DEF list

\* Clamp moves the cursor into the list and changes nothing else.
LEMMA Clamped ==
    ASSUME NEW h \in HomeFields
    PROVE  /\ Clamp(h) \in HomeFields
           /\ Clamp(h).list = <<>> \/ Clamp(h).cursor < Len(Clamp(h).list)
           /\ Clamp(h).mode = h.mode /\ Clamp(h).query = h.query
           /\ Clamp(h).unsearched = h.unsearched
           /\ Clamp(h).list = h.list /\ Clamp(h).discovered = h.discovered
<1>1. h.list \in Seq(Item) /\ h.cursor \in Nat /\ Len(h.list) \in Nat
  BY DEF HomeFields
<1>2. h.list # <<>> => Len(h.list) > 0
  BY <1>1
<1>3. QED
  BY <1>1, <1>2 DEF Clamp, HomeFields

-----------------------------------------------------------------------------
(* Types.                                                                  *)

LEMMA RoomsAreRooms == Rooms \subseteq AllRooms /\ NoRoom \notin AllRooms /\ Me \in Peers
  BY HomeAssumption DEF AllRooms

LEMMA CommandsAreSound ==
    /\ CommandIsSound(Fetch) /\ CommandIsSound(Failed) /\ CommandIsSound([op |-> "enter"])
    /\ CommandIsSound([op |-> "entered"])
    /\ \A r \in AllRooms : /\ CommandIsSound(OpenRoomMsg(r))
                           /\ CommandIsSound([op |-> "join", room |-> r])
                           /\ CommandIsSound(Creating(r, "insert"))
    /\ \A r \in Rooms, call \in {"sent", "ok", "refused"} : CommandIsSound(Creating(r, call))
    /\ \A query \in Queries : CommandIsSound([op |-> "byName", query |-> query])
  BY RoomsAreRooms DEF CommandIsSound, Ops, Fetch, Failed, OpenRoomMsg, Creating

\* One command at most is new.
LEMMA CommandsStaySound ==
    ASSUME Typed, NEW new, CommandIsSound(new), commands' \subseteq commands \cup {new}
    PROVE  \A c \in commands' : CommandIsSound(c)
  BY DEF Typed

\* Which rooms the tables, the lists and the registry speak of.
LEMMA ItemsAreItems ==
    ASSUME Typed
    PROVE  /\ ListRooms \subseteq Item /\ SearchAllRooms \subseteq Item
           /\ SearchPublicRooms \subseteq Item
           /\ \A items \in SUBSET Item, query \in Queries \cup {NoQuery} :
                 /\ Filter(items, query) \subseteq items
                 /\ Matches(Filter(items, query), query)
           /\ HasSelection => UnderCursor \in Item
<1>1. ListRooms \subseteq Item
  <2>1. ASSUME NEW r \in AllRooms PROVE ItemOf(r) \in Item
    <3>1. (creator[r] = "me") \in BOOLEAN
      OBVIOUS
    <3> QED
      BY <3>1, Zenon DEF ItemOf, Item
  <2> QED
    BY <2>1 DEF ListRooms
<1>2. SearchAllRooms \subseteq Item
  BY DEF Typed, HomeTypeOK, SearchAllRooms
<1>3. SearchPublicRooms \subseteq Item
  <2>1. ASSUME NEW q \in rooms PROVE [room |-> q.room, mine |-> q.peer = Me] \in Item
    <3>1. q.room \in AllRooms
      BY RoomsAreRooms DEF Typed
    <3>2. (q.peer = Me) \in BOOLEAN
      OBVIOUS
    <3> QED
      BY <3>1, <3>2, Zenon DEF Item
  <2> QED
    BY <2>1 DEF SearchPublicRooms
<1>4. ASSUME NEW items \in SUBSET Item, NEW query \in Queries \cup {NoQuery}
      PROVE  Filter(items, query) \subseteq items /\ Matches(Filter(items, query), query)
  <2>1. CASE query = NoQuery
    BY <2>1 DEF Filter, Matches
  <2>2. CASE query # NoQuery
    BY <2>2 DEF Filter, Matches, Findable
  <2> QED
    BY <2>1, <2>2
<1>5. ASSUME HasSelection PROVE UnderCursor \in Item
  <2>1. home.list \in Seq(Item) /\ home.cursor \in Nat /\ home.cursor < Len(home.list)
    BY <1>5 DEF HasSelection, Typed, HomeTypeOK, HomeFields
  <2> QED
    BY <2>1 DEF UnderCursor
<1> QED
  BY <1>1, <1>2, <1>3, <1>4, <1>5

\* What the store does to its tables keeps their types.
LEMMA TablesStayTyped ==
    ASSUME Typed, NEW r \in AllRooms, NEW by \in {"me", "other"},
           Remove(r) \/ CreateRoom(r) \/ JoinExternalRoom(r, by) \/ JoinRoom(r) \/ UNCHANGED tables
    PROVE  /\ creator' \in [AllRooms -> {"nobody", "me", "other"}]
           /\ member' \in [AllRooms -> {"none", "member", "owner"}]
           /\ index' \subseteq Item
<1>1. /\ creator \in [AllRooms -> {"nobody", "me", "other"}]
      /\ member \in [AllRooms -> {"none", "member", "owner"}] /\ index \subseteq Item
  BY DEF Typed, HomeTypeOK
<1>2. \A mine \in BOOLEAN : Indexed(r, mine) \subseteq Item
  BY <1>1, RoomsAreRooms DEF Indexed, Item
<1>3. JoinedAs(r) \in {"none", "member", "owner"}
  BY <1>1 DEF JoinedAs
<1>4. CASE Remove(r)
  BY <1>1, <1>4 DEF Remove
<1>5. CASE CreateRoom(r)
  BY <1>1, <1>2, <1>5 DEF CreateRoom
<1>6. CASE JoinExternalRoom(r, by)
  BY <1>1, <1>2, <1>3, <1>6 DEF JoinExternalRoom
<1>7. CASE JoinRoom(r)
  BY <1>1, <1>3, <1>7 DEF JoinRoom
<1> QED
  BY <1>1, <1>4, <1>5, <1>6, <1>7 DEF tables

\* The service knows public rooms and keys only.
LEMMA RegistryStaysTyped ==
    ASSUME Typed, NEW r \in Rooms, NEW k \in Peers, OpenRoom(r, k) \/ CloseRoom(r, k)
    PROVE  rooms' \subseteq [room: Rooms, peer: Peers]
  BY DEF Typed, OpenRoom, CloseRoom

Calls == [room: Rooms, call: {"sent", "ok", "not_found"}]

LEMMA TypedParts ==
    /\ Typed => /\ open \in AllRooms \cup {NoRoom} /\ home \in HomeFields
                /\ releasing \in Calls \cup {NotReleasing}
                /\ creator \in [AllRooms -> {"nobody", "me", "other"}]
                /\ member \in [AllRooms -> {"none", "member", "owner"}]
                /\ index \subseteq Item /\ excused \subseteq Rooms
                /\ rooms \subseteq [room: Rooms, peer: Peers]
                /\ \A c \in commands : CommandIsSound(c)
  BY DEF Typed, HomeTypeOK, Calls

LEMMA TypedAgain ==
    ASSUME open' \in AllRooms \cup {NoRoom}, home' \in HomeFields,
           releasing' \in Calls \cup {NotReleasing},
           creator' \in [AllRooms -> {"nobody", "me", "other"}],
           member' \in [AllRooms -> {"none", "member", "owner"}],
           index' \subseteq Item, excused' \subseteq Rooms,
           rooms' \subseteq [room: Rooms, peer: Peers],
           \A c \in commands' : CommandIsSound(c)
    PROVE  Typed'
<1>1. releasing' \in [room: AllRooms \cup {NoRoom}, call: {"none", "sent", "ok", "not_found"}]
  BY RoomsAreRooms DEF Calls, NotReleasing
<1>2. releasing' # NotReleasing => releasing'.room \in Rooms /\ releasing'.call # "none"
  BY DEF Calls
<1> QED
  BY <1>1, <1>2 DEF Typed, HomeTypeOK, CommandIsSound, Ops

LEMMA StartStaysSound ==
    ASSUME Typed, NEW command, CommandIsSound(command), Start(command)
    PROVE  \A c \in commands' : CommandIsSound(c)
  BY CommandsStaySound DEF Start

LEMMA BecomesStaysSound ==
    ASSUME Typed, NEW command, NEW next, CommandIsSound(next), Becomes(command, next)
    PROVE  \A c \in commands' : CommandIsSound(c)
  BY CommandsStaySound DEF Becomes

\* What a search answers is a list of what it may find.
LEMMA AnswersMatch ==
    ASSUME Typed, NEW query \in Queries \cup {NoQuery}, NEW items \in SearchAnswers(query)
    PROVE  items \subseteq Item /\ Matches(items, query)
<1>1. CASE query = NoQuery
  BY <1>1 DEF SearchAnswers, Matches
<1>2. CASE items = Filter(SearchAllRooms, query)
  <2>1. items \subseteq SearchAllRooms /\ Matches(items, query) /\ SearchAllRooms \subseteq Item
    BY <1>2, ItemsAreItems
  <2> QED
    BY <2>1
<1>3. CASE query # NoQuery /\ items = {i \in SearchPublicRooms : i.room \in Like[query]}
  <2>1. items \subseteq Item
    BY <1>3, ItemsAreItems
  <2>2. \A i \in items : i.room \in Like[query]
    BY <1>3
  <2> QED
    BY <1>3, <2>1, <2>2 DEF Matches, Findable
<1> QED
  BY <1>1, <1>2, <1>3 DEF SearchAnswers

LEMMA ListStepKeepsTypes ==
    ASSUME Typed,
           \/ FetchRooms \/ \E c \in commands : RoomsLoaded(c) \/ SearchRoomsLoaded(c)
           \/ \E r \in Rooms : RoomDiscovered(r)
    PROVE  Typed'
<1> USE TypedParts
<1>1. CASE FetchRooms
  <2>1. home.query \in Queries \cup {NoQuery}
    BY DEF HomeFields
  <2>2. \A b \in BOOLEAN : [home EXCEPT !.unsearched = b] \in HomeFields
    BY DEF HomeFields
  <2>3. home' \in HomeFields
    BY <1>1, <2>2 DEF FetchRooms
  <2>4. ASSUME Becomes(Fetch, [op |-> "listed", items |-> ListRooms])
        PROVE  \A c \in commands' : CommandIsSound(c)
    <3>1. CommandIsSound([op |-> "listed", items |-> ListRooms])
      BY ItemsAreItems DEF CommandIsSound, Ops
    <3> QED
      BY <2>4, <3>1, BecomesStaysSound
  <2>5. ASSUME NEW items \in SearchAnswers(home.query),
               Becomes(Fetch, [op |-> "found", query |-> home.query, items |-> items])
        PROVE  \A c \in commands' : CommandIsSound(c)
    <3>1. items \subseteq Item /\ Matches(items, home.query)
      BY <2>1, AnswersMatch
    <3>2. CommandIsSound([op |-> "found", query |-> home.query, items |-> items])
      BY <2>1, <3>1 DEF CommandIsSound, Ops
    <3> QED
      BY <2>5, <3>2, BecomesStaysSound
  <2>6. ASSUME Becomes(Fetch, Failed) PROVE \A c \in commands' : CommandIsSound(c)
    BY <2>6, CommandsAreSound, BecomesStaysSound
  <2>7. \A c \in commands' : CommandIsSound(c)
    BY <1>1, <2>4, <2>5, <2>6 DEF FetchRooms
  <2> QED
    BY <1>1, <2>3, <2>7, TypedAgain DEF FetchRooms, tables, Elsewhere, registry
<1>2. ASSUME NEW c \in commands, RoomsLoaded(c) PROVE Typed'
  <2>1. c.items \subseteq Item /\ home.query \in Queries \cup {NoQuery}
    BY <1>2 DEF RoomsLoaded, CommandIsSound, HomeFields
  <2>2. Filter(c.items, home.query) \subseteq Item
    BY <2>1, ItemsAreItems
  <2>3. Listed(c.items) \in Seq(Item) /\ Listed(Filter(c.items, home.query)) \in Seq(Item)
    BY <2>1, <2>2, ListedItems
  <2>4. /\ [home EXCEPT !.discovered = c.items, !.list = Listed(Filter(c.items, home.query))]
              \in HomeFields
        /\ [home EXCEPT !.list = Listed(c.items)] \in HomeFields
    BY <2>1, <2>3 DEF HomeFields
  <2>5. home' \in HomeFields
    BY <1>2, <2>4, Clamped DEF RoomsLoaded
  <2> QED
    BY <1>2, <2>5, TypedAgain DEF RoomsLoaded, tables, Elsewhere, registry
<1>3. ASSUME NEW c \in commands, SearchRoomsLoaded(c) PROVE Typed'
  <2>1. Listed(c.items) \in Seq(Item)
    BY <1>3, ListedItems DEF SearchRoomsLoaded, CommandIsSound
  <2>2. [home EXCEPT !.list = Listed(c.items)] \in HomeFields
    BY <2>1 DEF HomeFields
  <2>3. home' \in HomeFields
    BY <1>3, <2>2, Clamped DEF SearchRoomsLoaded
  <2> QED
    BY <1>3, <2>3, TypedAgain DEF SearchRoomsLoaded, tables, Elsewhere, registry
<1>4. ASSUME NEW r \in Rooms, RoomDiscovered(r) PROVE Typed'
  <2> DEFINE seen == home.discovered \cup {[room |-> r, mine |-> FALSE]}
  <2>0. [room |-> r, mine |-> FALSE] \in Item
    BY RoomsAreRooms DEF Item
  <2>1. seen \subseteq Item /\ home.query \in Queries \cup {NoQuery}
    BY <2>0 DEF HomeFields
  <2>2. index' \subseteq Item
    <3>2. index' = Indexed(r, FALSE)
      BY <1>4 DEF RoomDiscovered
    <3> QED
      BY <2>0, <3>2 DEF Indexed
  <2> HIDE DEF seen
  <2>3. Listed(Filter(seen, home.query)) \in Seq(Item)
    <3>1. Filter(seen, home.query) \subseteq Item
      BY <2>1, ItemsAreItems
    <3> QED
      BY <3>1, ListedItems
  <2>4. home' \in HomeFields
    <3>1. \/ UNCHANGED home
          \/ home' = [home EXCEPT !.discovered = seen,
                                  !.list = Listed(Filter(seen, home.query))]
          \/ home' = [home EXCEPT !.discovered = seen]
      BY <1>4 DEF RoomDiscovered, seen
    <3> QED
      BY <2>1, <2>3, <3>1 DEF HomeFields
  <2> QED
    BY <1>4, <2>2, <2>4, TypedAgain DEF RoomDiscovered, Elsewhere, registry
<1> QED
  BY <1>1, <1>2, <1>3, <1>4

\* The field as a key or the clipboard leaves it.
LEMMA EditedFields ==
    ASSUME home \in HomeFields, NEW query \in Queries \cup {NoQuery}
    PROVE  /\ Edited(query) \in HomeFields
           /\ Edited(query).query = query /\ Edited(query).list = home.list
           /\ Edited(query).mode = home.mode /\ Edited(query).cursor = home.cursor
           /\ ~Edited(query).unsearched =>
                 ~home.unsearched /\ (query = home.query \/ Fetch \in commands)
<1> DEFINE missed == query # home.query /\ Fetch \notin commands
           b == home.unsearched \/ missed
<1>1. b \in BOOLEAN
  OBVIOUS
<1>2. Edited(query) = [home EXCEPT !.query = query, !.unsearched = b]
  BY DEF Edited
<1>3. b \/ (~home.unsearched /\ (query = home.query \/ Fetch \in commands))
  OBVIOUS
<1> HIDE DEF b, missed
<1> QED
  BY <1>1, <1>2, <1>3 DEF HomeFields

LEMMA KeyKeepsTypes == ASSUME Typed, Keys PROVE Typed'
<1> USE TypedParts
<1> USE DEF tables, registry, Elsewhere
<1>1. home.cursor \in Nat /\ Len(home.list) \in Nat /\ home.query \in Queries \cup {NoQuery}
  BY DEF HomeFields
<1>2. CASE Move
  <2>1. home' \in HomeFields
    BY <1>1, <1>2 DEF Move, HomeFields
  <2> QED
    BY <1>2, <2>1, TypedAgain DEF Move
<1>3. CASE PressS
  <2>1. home' \in HomeFields /\ \A c \in commands' : CommandIsSound(c)
    BY <1>3, CommandsAreSound, StartStaysSound DEF PressS, HomeFields
  <2> QED
    BY <1>3, <2>1, TypedAgain DEF PressS
<1>4. ASSUME NEW query \in Queries \cup {NoQuery}, Type(query) PROVE Typed'
  <2>1. home' \in HomeFields
    <3>1. [home EXCEPT !.query = query, !.cursor = 0] \in HomeFields
      BY DEF HomeFields
    <3>2. Clamp(Edited(query)) \in HomeFields
      BY EditedFields, Clamped
    <3> QED
      BY <1>4, <3>1, <3>2 DEF Type
  <2>2. \A c \in commands' : CommandIsSound(c)
    BY <1>4, CommandsAreSound, StartStaysSound DEF Type
  <2> QED
    BY <1>4, <2>1, <2>2, TypedAgain DEF Type
<1>5. CASE EscSearch
  <2>1. home' \in HomeFields /\ \A c \in commands' : CommandIsSound(c)
    BY <1>5, CommandsAreSound, StartStaysSound DEF EscSearch, HomeFields
  <2> QED
    BY <1>5, <2>1, TypedAgain DEF EscSearch
<1>6. CASE EnterPinned
  <2>1. \A c \in commands' : CommandIsSound(c)
    BY <1>6, CommandsAreSound, StartStaysSound DEF EnterPinned
  <2> QED
    BY <1>6, <2>1, TypedAgain DEF EnterPinned
<1>7. CASE EnterSearch
  <2>1. CASE HasSelection
    <3>1. UnderCursor.room \in AllRooms
      BY <2>1, ItemsAreItems DEF Item
    <3>2. JoinExternalRoom(UnderCursor.room, IF UnderCursor.mine THEN "me" ELSE "other")
      BY <1>7, <2>1 DEF EnterSearch
    <3>3. /\ creator' \in [AllRooms -> {"nobody", "me", "other"}]
          /\ member' \in [AllRooms -> {"none", "member", "owner"}] /\ index' \subseteq Item
      BY <3>1, <3>2, TablesStayTyped
    <3>4. \A c \in commands' : CommandIsSound(c)
      BY <1>7, <2>1, <3>1, CommandsAreSound, StartStaysSound DEF EnterSearch
    <3> QED
      BY <1>7, <3>3, <3>4, TypedAgain DEF EnterSearch
  <2>2. CASE ~HasSelection
    <3>1. \A c \in commands' : CommandIsSound(c)
      BY <1>1, <1>7, <2>2, CommandsAreSound, StartStaysSound DEF EnterSearch
    <3> QED
      BY <1>7, <2>2, <3>1, TypedAgain DEF EnterSearch
  <2> QED
    BY <2>1, <2>2
<1>8. ASSUME NEW r \in AllRooms, SubmitJoin(r) \/ SubmitCreate(r) PROVE Typed'
  <2>1. \A c \in commands' : CommandIsSound(c)
    BY <1>8, CommandsAreSound, StartStaysSound DEF SubmitJoin, SubmitCreate
  <2> QED
    BY <1>8, <2>1, TypedAgain DEF SubmitJoin, SubmitCreate
<1>9. CASE ConfirmDelete
  <2> DEFINE r == UnderCursor.room
             refreshed == [home EXCEPT !.cursor = 0]
  <2>1. r \in AllRooms /\ refreshed \in HomeFields
    BY <1>9, ItemsAreItems DEF ConfirmDelete, Item, HomeFields
  <2> HIDE DEF r, refreshed
  <2>2. \/ /\ r \in Rooms /\ releasing' = [room |-> r, call |-> "sent"]
           /\ UNCHANGED <<home, commands, tables, excused>>
        \/ /\ Remove(r) /\ home' = refreshed /\ Start(Fetch)
           /\ excused' = excused \cup ({r} \cap Rooms) /\ UNCHANGED releasing
        \/ /\ member' = [member EXCEPT ![r] = "none"]
           /\ home' = refreshed /\ Start(Fetch)
           /\ UNCHANGED <<releasing, creator, index, excused>>
    BY <1>9 DEF ConfirmDelete, r, refreshed
  <2>3. UNCHANGED <<open, registry>>
    BY <1>9 DEF ConfirmDelete
  <2>4. home' \in HomeFields /\ \A c \in commands' : CommandIsSound(c)
    BY <2>1, <2>2, CommandsAreSound, StartStaysSound
  <2>5. /\ creator' \in [AllRooms -> {"nobody", "me", "other"}]
        /\ member' \in [AllRooms -> {"none", "member", "owner"}] /\ index' \subseteq Item
    BY <2>1, <2>2, TablesStayTyped
  <2>6. releasing' \in Calls \cup {NotReleasing} /\ excused' \subseteq Rooms
    BY <2>2 DEF Calls
  <2> QED
    BY <2>3, <2>4, <2>5, <2>6, TypedAgain
<1>10. ASSUME NEW query \in Queries, Paste(query) PROVE Typed'
  <2>1. home' \in HomeFields
    BY <1>10, EditedFields DEF Paste
  <2> QED
    BY <1>10, <2>1, TypedAgain DEF Paste
<1> QED
  BY <1>2, <1>3, <1>4, <1>5, <1>6, <1>7, <1>8, <1>9, <1>10 DEF Keys

LEMMA CommandKeepsTypes ==
    ASSUME Typed, NEW c \in commands,
           \/ EnterJoins(c) \/ EnterOpens(c) \/ JoinRoomByName(c) \/ JoinRoomByID(c) \/ HandleOpenRoom(c)
           \/ InsertRoom(c) \/ ServeCreate(c) \/ Registered(c) \/ NotRegistered(c)
           \/ RegistrationFails(c)
    PROVE  Typed'
<1> USE TypedParts
<1> USE DEF tables, registry, Elsewhere
<1>0. CommandIsSound(c)
  OBVIOUS
<1>1. ASSUME NEW r \in AllRooms, NEW by \in {"me", "other"},
             JoinRoom(r) \/ JoinExternalRoom(r, by), Becomes(c, OpenRoomMsg(r)),
             UNCHANGED home, Elsewhere
      PROVE  Typed'
  <2>1. \A d \in commands' : CommandIsSound(d)
    BY <1>1, CommandsAreSound, BecomesStaysSound
  <2>2. /\ creator' \in [AllRooms -> {"nobody", "me", "other"}]
        /\ member' \in [AllRooms -> {"none", "member", "owner"}] /\ index' \subseteq Item
    BY <1>1, TablesStayTyped
  <2> QED
    BY <1>1, <2>1, <2>2, TypedAgain
<1>2. CASE EnterJoins(c) \/ EnterOpens(c)
  <2>1. UnderCursor.room \in AllRooms
    BY <1>2, ItemsAreItems DEF EnterJoins, EnterOpens, Item
  <2>2. \A d \in commands' : CommandIsSound(d)
    BY <1>2, <2>1, CommandsAreSound, BecomesStaysSound DEF EnterJoins, EnterOpens
  <2>3. /\ creator' \in [AllRooms -> {"nobody", "me", "other"}]
        /\ member' \in [AllRooms -> {"none", "member", "owner"}] /\ index' \subseteq Item
    BY <1>2, <2>1, TablesStayTyped DEF EnterJoins, EnterOpens
  <2> QED
    BY <1>2, <2>2, <2>3, TypedAgain DEF EnterJoins, EnterOpens
<1>3. CASE JoinRoomByName(c)
  <2>1. CASE \E r \in RoomsIn(index) \cap Matching[c.query] : JoinRoom(r) /\ Becomes(c, OpenRoomMsg(r))
    <3>1. RoomsIn(index) \subseteq AllRooms
      BY DEF RoomsIn, Item
    <3> QED
      BY <1>1, <1>3, <2>1, <3>1 DEF JoinRoomByName
  <2>2. CASE commands' = commands \ {c} /\ UNCHANGED tables
    BY <1>3, <2>2, TypedAgain DEF JoinRoomByName
  <2> QED
    BY <1>3, <2>1, <2>2 DEF JoinRoomByName
<1>4. CASE JoinRoomByID(c)
  BY <1>0, <1>1, <1>4 DEF JoinRoomByID, CommandIsSound
<1>5. CASE HandleOpenRoom(c)
  BY <1>0, <1>5, TypedAgain DEF HandleOpenRoom, CommandIsSound
<1>6. CASE InsertRoom(c)
  <2>1. c.room \in AllRooms
    BY <1>0, <1>6 DEF InsertRoom, CommandIsSound
  <2>2. \A d \in commands' : CommandIsSound(d)
    BY <1>6, <2>1, CommandsAreSound, BecomesStaysSound DEF InsertRoom
  <2>3. /\ creator' \in [AllRooms -> {"nobody", "me", "other"}]
        /\ member' \in [AllRooms -> {"none", "member", "owner"}] /\ index' \subseteq Item
    BY <1>6, <2>1, TablesStayTyped DEF InsertRoom
  <2> QED
    BY <1>6, <2>2, <2>3, TypedAgain DEF InsertRoom
<1>7. CASE ServeCreate(c)
  <2>1. c.room \in Rooms
    BY <1>0, <1>7 DEF ServeCreate, CommandIsSound
  <2>2. \E call \in {"ok", "refused"} : Becomes(c, Creating(c.room, call))
    BY <1>7 DEF ServeCreate
  <2>3. \A d \in commands' : CommandIsSound(d)
    BY <2>1, <2>2, CommandsAreSound, BecomesStaysSound
  <2>4. rooms' \subseteq [room: Rooms, peer: Peers]
    BY <1>7, <2>1, RegistryStaysTyped, RoomsAreRooms DEF ServeCreate
  <2> QED
    BY <1>7, <2>3, <2>4, TypedAgain DEF ServeCreate
<1>8. CASE Registered(c)
  <2>1. \A d \in commands' : CommandIsSound(d)
    BY <1>0, <1>8, CommandsAreSound, BecomesStaysSound DEF Registered, CommandIsSound
  <2> QED
    BY <1>8, <2>1, TypedAgain DEF Registered
<1>9. CASE NotRegistered(c) \/ RegistrationFails(c)
  <2>1. c.room \in Rooms /\ c.room \in AllRooms /\ Remove(c.room)
    BY <1>0, <1>9, RoomsAreRooms DEF NotRegistered, RegistrationFails, CommandIsSound
  <2>2. \A d \in commands' : CommandIsSound(d)
    BY <1>9, CommandsAreSound, BecomesStaysSound DEF NotRegistered, RegistrationFails
  <2>3. /\ creator' \in [AllRooms -> {"nobody", "me", "other"}]
        /\ member' \in [AllRooms -> {"none", "member", "owner"}] /\ index' \subseteq Item
    BY <2>1, TablesStayTyped
  <2>4. excused' \subseteq Rooms
    BY <1>9, <2>1 DEF NotRegistered, RegistrationFails
  <2> QED
    BY <1>9, <2>2, <2>3, <2>4, TypedAgain DEF NotRegistered, RegistrationFails
<1> QED
  BY <1>2, <1>3, <1>4, <1>5, <1>6, <1>7, <1>8, <1>9

LEMMA OtherStepKeepsTypes ==
    ASSUME Typed,
           \/ Deleted \/ NotReleased \/ ReleaseFails \/ ServeDelete \/ OthersUseRegistry
           \/ EscRoom \/ HandleError \/ Restart \/ UNCHANGED vars
    PROVE  Typed'
<1> USE TypedParts
<1> USE DEF tables, registry
<1>0. /\ NotReleasing.call = "none"
      /\ releasing # NotReleasing => releasing \in Calls /\ releasing.room \in Rooms
  BY DEF NotReleasing, Calls
<1>1. CASE Deleted
  <2>1. releasing.room \in AllRooms
    BY <1>0, <1>1, RoomsAreRooms DEF Deleted
  <2>2. /\ creator' \in [AllRooms -> {"nobody", "me", "other"}]
        /\ member' \in [AllRooms -> {"none", "member", "owner"}] /\ index' \subseteq Item
    BY <1>1, <2>1, TablesStayTyped DEF Deleted
  <2>3. home' \in HomeFields /\ \A c \in commands' : CommandIsSound(c)
    BY <1>1, CommandsAreSound, StartStaysSound DEF Deleted, HomeFields
  <2> QED
    BY <1>1, <2>2, <2>3, TypedAgain DEF Deleted
<1>2. CASE NotReleased
  BY <1>2, TypedAgain DEF NotReleased
<1>3. CASE ReleaseFails
  BY <1>0, <1>3, TypedAgain DEF ReleaseFails
<1>4. CASE ServeDelete
  <2>1. releasing \in Calls /\ releasing.room \in Rooms
    BY <1>0, <1>4 DEF ServeDelete
  <2>2. releasing' \in Calls
    BY <1>4, <2>1 DEF ServeDelete, Calls
  <2>3. rooms' \subseteq [room: Rooms, peer: Peers]
    BY <1>4, <2>1, RoomsAreRooms, RegistryStaysTyped DEF ServeDelete
  <2> QED
    BY <1>4, <2>2, <2>3, TypedAgain DEF ServeDelete
<1>5. CASE OthersUseRegistry
  <2>1. rooms' \subseteq [room: Rooms, peer: Peers]
    BY <1>5, RegistryStaysTyped DEF OthersUseRegistry
  <2> QED
    BY <1>5, <2>1, TypedAgain DEF OthersUseRegistry
<1>6. CASE EscRoom
  <2>1. \A c \in commands' : CommandIsSound(c)
    BY <1>6, CommandsAreSound, StartStaysSound DEF EscRoom
  <2> QED
    BY <1>6, <2>1, TypedAgain DEF EscRoom
<1>7. CASE HandleError
  <2>1. CASE /\ commands' = commands \ {Failed}
             /\ UNCHANGED <<open, tables, excused>>
    BY <1>7, <2>1, TypedAgain DEF HandleError
  <2>2. CASE /\ ~AtHome
             /\ Remove(open)
             /\ open' = NoRoom
             /\ IF Failed \in commands THEN Becomes(Failed, Fetch) ELSE Start(Fetch)
             /\ excused' = excused \cup ({open} \cap Rooms)
    <3>1. open \in AllRooms
      BY <2>2 DEF AtHome
    <3>2. /\ creator' \in [AllRooms -> {"nobody", "me", "other"}]
          /\ member' \in [AllRooms -> {"none", "member", "owner"}] /\ index' \subseteq Item
      BY <2>2, <3>1, TablesStayTyped
    <3>3. \A c \in commands' : CommandIsSound(c)
      BY <2>2, CommandsAreSound, StartStaysSound, BecomesStaysSound
    <3> QED
      BY <1>7, <2>2, <3>2, <3>3, TypedAgain DEF HandleError
  <2> QED
    BY <1>7, <2>1, <2>2 DEF HandleError
<1>8. CASE Restart
  <2>1. FreshHome \in HomeFields
    BY DEF FreshHome, HomeFields
  <2>2. Unanswered \subseteq Rooms
    <3>1. ASSUME NEW d \in commands, d.op = "create", d.call # "insert" PROVE d.room \in Rooms
      BY <3>1 DEF CommandIsSound
    <3>2. {releasing.room} \ {NoRoom} \subseteq Rooms
      BY <1>0 DEF NotReleasing
    <3> QED
      BY <3>1, <3>2 DEF Unanswered
  <2>3. \A c \in commands' : CommandIsSound(c)
    BY <1>8, CommandsAreSound DEF Restart
  <2> QED
    BY <1>8, <2>1, <2>2, <2>3, TypedAgain DEF Restart
<1>9. CASE UNCHANGED vars
  BY <1>9, TypedAgain DEF vars
<1> QED
  BY <1>1, <1>2, <1>3, <1>4, <1>5, <1>6, <1>7, <1>8, <1>9

LEMMA NextKeepsTyped == ASSUME Typed, [HomeNext]_vars PROVE Typed'
  BY ListStepKeepsTypes, KeyKeepsTypes, CommandKeepsTypes, OtherStepKeepsTypes
  DEF HomeNext, Run, EnterPanics

LEMMA InitIsTyped == HomeInit => Typed
<1> SUFFICES ASSUME HomeInit PROVE Typed
  OBVIOUS
<1>1. FreshHome \in HomeFields
  BY DEF FreshHome, HomeFields
<1>2. releasing \in [room: AllRooms \cup {NoRoom}, call: {"none", "sent", "ok", "not_found"}]
  BY DEF HomeInit, NotReleasing
<1>3. \A c \in commands : CommandIsSound(c)
  BY CommandsAreSound DEF HomeInit
<1> QED
  BY <1>1, <1>2, <1>3 DEF Typed, HomeTypeOK, HomeInit, Fetch

LEMMA AlwaysTyped == HomeSpec => []Typed
<1>1. HomeInit => Typed
  BY InitIsTyped
<1>2. Typed /\ [HomeNext]_vars => Typed'
  BY NextKeepsTyped
<1> QED
  BY <1>1, <1>2, PTL DEF HomeSpec

\* The home screen's fields, its commands and its tables keep their types:
\* above all the cursor never goes below zero, where Go would panic.
THEOREM HomeTypesAreKept == HomeSpec => []HomeTypeOK
<1>1. Typed => HomeTypeOK
  BY DEF Typed
<1> QED
  BY <1>1, AlwaysTyped, PTL

-----------------------------------------------------------------------------
(* The cursor.                                                             *)

\* The ways in which a step leaves the cursor in the list it leaves.
LEMMA CursorKept ==
    ASSUME Typed, Typed', ~BeyondRows,
           \/ home' = home
           \/ home'.list = home.list /\ home'.cursor = 0
           \/ \E h \in HomeFields : home' = Clamp(h)
    PROVE  ~BeyondRows'
<1>1. /\ home.list \in Seq(Item) /\ Len(home.list) \in Nat
      /\ home.list # <<>> => 0 < Len(home.list)
  BY DEF Typed, HomeTypeOK, HomeFields
<1>2. CASE home' = home
  BY <1>2 DEF BeyondRows
<1>3. CASE home'.list = home.list /\ home'.cursor = 0
  <2>1. home'.list = home.list /\ home'.cursor = 0 /\ ~(home'.cursor >= Len(home'.list) /\ home'.list # <<>>)
    BY <1>1, <1>3
  <2> QED
    BY <2>1 DEF BeyondRows
<1>4. CASE \E h \in HomeFields : home' = Clamp(h)
  <2>1. PICK h \in HomeFields : home' = Clamp(h)
    BY <1>4
  <2>2. home'.list = <<>> \/ home'.cursor < Len(home'.list)
    BY <2>1, Clamped
  <2>3. home'.cursor \in Nat /\ Len(home'.list) \in Nat
    BY DEF Typed, HomeTypeOK, HomeFields
  <2> QED
    BY <2>2, <2>3 DEF BeyondRows
<1> QED
  BY <1>2, <1>3, <1>4

LEMMA StepKeepsCursor ==
    ASSUME Typed, [HomeNext]_vars, ~BeyondRows, BeyondRows'
    PROVE  home.mode = "search" /\ home'.discovered # home.discovered
<1> USE DEF Elsewhere
<1>0. Typed' /\ home \in HomeFields
  BY NextKeepsTyped, TypedParts
<1>1. home' # home /\ ~(home'.list = home.list /\ home'.cursor = 0)
      /\ ~\E h \in HomeFields : home' = Clamp(h)
  BY <1>0, CursorKept
<1>2. home.cursor \in Nat /\ home.list \in Seq(Item) /\ home.query \in Queries \cup {NoQuery}
      /\ Len(home.list) \in Nat
  BY <1>0 DEF HomeFields
<1>3. ASSUME NEW c \in commands, RoomsLoaded(c) PROVE FALSE
  <2>1. c.items \subseteq Item
    BY <1>3, TypedParts DEF RoomsLoaded, CommandIsSound
  <2>2. Filter(c.items, home.query) \subseteq Item
    BY <1>2, <2>1, ItemsAreItems
  <2>3. Listed(c.items) \in Seq(Item) /\ Listed(Filter(c.items, home.query)) \in Seq(Item)
    BY <2>1, <2>2, ListedItems
  <2>4. /\ [home EXCEPT !.discovered = c.items, !.list = Listed(Filter(c.items, home.query))]
              \in HomeFields
        /\ [home EXCEPT !.list = Listed(c.items)] \in HomeFields
    BY <1>0, <2>1, <2>3 DEF HomeFields
  <2> QED
    BY <1>1, <1>3, <2>4 DEF RoomsLoaded
<1>4. ASSUME NEW c \in commands, SearchRoomsLoaded(c) PROVE FALSE
  <2>1. Listed(c.items) \in Seq(Item)
    BY <1>4, ListedItems, TypedParts DEF SearchRoomsLoaded, CommandIsSound
  <2>2. [home EXCEPT !.list = Listed(c.items)] \in HomeFields
    BY <1>0, <2>1 DEF HomeFields
  <2> QED
    BY <1>1, <1>4, <2>2 DEF SearchRoomsLoaded
<1>5. ASSUME NEW r \in Rooms, RoomDiscovered(r)
      PROVE  home.mode = "search" /\ home'.discovered # home.discovered
  <2> DEFINE item == [room |-> r, mine |-> FALSE]
             seen == home.discovered \cup {item}
  <2>1. item \notin home.discovered
    BY <1>1, <1>5 DEF RoomDiscovered, RoomsIn
  <2>2. IF home.mode = "search"
        THEN home' = [home EXCEPT !.discovered = seen, !.list = Listed(Filter(seen, home.query))]
        ELSE home' = [home EXCEPT !.discovered = seen]
    BY <1>1, <1>5 DEF RoomDiscovered
  <2> HIDE DEF seen
  <2>3. home'.discovered = seen /\ seen # home.discovered
    BY <1>0, <2>1, <2>2 DEF seen, HomeFields
  <2>4. home.mode # "search" => home'.list = home.list /\ home'.cursor = home.cursor
    BY <1>0, <2>2 DEF HomeFields
  <2> QED
    BY <2>3, <2>4 DEF BeyondRows
<1>6. CASE Keys
  <2>1. CASE Move
    <3>1. \/ home' = [home EXCEPT !.cursor = @ - 1] /\ home.cursor > 0
          \/ home' = [home EXCEPT !.cursor = @ + 1] /\ home.cursor + 1 < Len(home.list)
      BY <2>1 DEF Move
    <3>2. home'.list = home.list /\ (home'.cursor < home.cursor \/ home'.cursor < Len(home.list))
      BY <1>0, <1>2, <3>1 DEF HomeFields
    <3>3. home'.cursor \in Nat
      BY <1>0, TypedParts DEF Typed, HomeTypeOK, HomeFields
    <3> QED
      BY <1>2, <3>2, <3>3 DEF BeyondRows
  <2>2. CASE PressS \/ EscSearch
    BY <1>0, <2>2 DEF PressS, EscSearch, BeyondRows, HomeFields
  <2>3. CASE EnterPinned \/ EnterSearch \/ \E r \in AllRooms : SubmitJoin(r) \/ SubmitCreate(r)
    BY <1>1, <2>3 DEF EnterPinned, EnterSearch, SubmitJoin, SubmitCreate
  <2>4. ASSUME NEW query \in Queries \cup {NoQuery}, Type(query) PROVE FALSE
    BY <1>0, <1>1, <2>4, EditedFields DEF Type, HomeFields
  <2>6. ASSUME NEW query \in Queries, Paste(query) PROVE FALSE
    <3>1. home'.list = home.list /\ home'.cursor = home.cursor
      BY <1>0, <2>6, EditedFields DEF Paste
    <3> QED
      BY <3>1 DEF BeyondRows
  <2>5. CASE ConfirmDelete
    BY <1>0, <1>1, <2>5 DEF ConfirmDelete, HomeFields
  <2> QED
    BY <1>6, <2>1, <2>2, <2>3, <2>4, <2>5, <2>6 DEF Keys
<1>11. ~FetchRooms
  <2>1. FetchRooms => home'.list = home.list /\ home'.cursor = home.cursor
    BY <1>0 DEF FetchRooms, HomeFields
  <2> QED
    BY <2>1 DEF BeyondRows
<1>7. \A c \in commands :
          /\ ~EnterJoins(c) /\ ~EnterOpens(c) /\ ~JoinRoomByName(c) /\ ~JoinRoomByID(c) /\ ~HandleOpenRoom(c)
          /\ ~InsertRoom(c) /\ ~ServeCreate(c) /\ ~Registered(c) /\ ~NotRegistered(c)
          /\ ~RegistrationFails(c)
  BY <1>1 DEF EnterJoins, EnterOpens, JoinRoomByName, JoinRoomByID, HandleOpenRoom, InsertRoom,
              ServeCreate, Registered, NotRegistered, RegistrationFails
<1>8. ~NotReleased /\ ~ReleaseFails /\ ~ServeDelete /\ ~OthersUseRegistry /\ ~EscRoom
      /\ ~HandleError /\ ~UNCHANGED vars
  BY <1>1 DEF NotReleased, ReleaseFails, ServeDelete, OthersUseRegistry, EscRoom, HandleError, vars
<1>9. ~Deleted
  BY <1>0, <1>1 DEF Deleted, HomeFields
<1>10. ~Restart
  <2>1. Restart => home'.list = <<>>
    BY DEF Restart, FreshHome
  <2> QED
    BY <2>1 DEF BeyondRows
<1> QED
  BY <1>3, <1>4, <1>5, <1>6, <1>7, <1>8, <1>9, <1>10, <1>11 DEF HomeNext, Run, EnterPanics

\* Only a room discovered during a search takes the cursor beyond the last row
\* of a list that has rows: no reload, deletion, query or change of mode does
\* (RoomsLoadedMsg, SearchRoomsLoadedMsg, the reset of the index in Update).
\* Of an empty list, which has no row to index, it says nothing.
THEOREM CursorIsSafe == HomeSpec => CursorStaysInList
<1>1. Typed /\ [HomeNext]_vars =>
         [~BeyondRows /\ BeyondRows' => /\ home.mode = "search"
                                       /\ home'.discovered # home.discovered]_vars
  BY StepKeepsCursor
<1> QED
  BY <1>1, AlwaysTyped, PTL DEF HomeSpec, CursorStaysInList

-----------------------------------------------------------------------------
(* The search.                                                             *)

\* Commands that have nothing to do with the list come and go.
LEMMA SearchUndisturbed ==
    ASSUME SearchInv, AtHome' => AtHome,
           home'.mode = home.mode, home'.query = home.query, home'.list = home.list,
           home.unsearched => home'.unsearched,
           \A d \in commands : d.op \in {"fetch", "found"} => d \in commands'
    PROVE  SearchInv'
<1> SUFFICES ASSUME AtHome', home'.mode = "search", ~home'.unsearched PROVE SearchInv'
  BY DEF SearchInv
<1>1. CASE Fetch \in commands
  BY <1>1 DEF SearchInv, Fetch
<1>2. CASE \E c \in commands : c.op = "found" /\ c.query = home.query
  BY <1>2 DEF SearchInv
<1>3. CASE ListMatches
  BY <1>3 DEF SearchInv, ListMatches
<1> QED
  BY <1>1, <1>2, <1>3 DEF SearchInv

\* What the list shows after it was set to matches of the query.
LEMMA SearchAnswered ==
    ASSUME NEW items \in SUBSET Item, Matches(items, home'.query), home'.list = Listed(items)
    PROVE  ListMatches'
<1>1. \A i \in DOMAIN home'.list : home'.list[i] \in items
  BY ListedItems
<1> QED
  BY <1>1 DEF ListMatches, Matches

LEMMA ListStepKeepsSearch ==
    ASSUME Typed, SearchInv,
           \/ FetchRooms \/ \E c \in commands : RoomsLoaded(c) \/ SearchRoomsLoaded(c)
           \/ \E r \in Rooms : RoomDiscovered(r)
    PROVE  SearchInv'
<1> USE DEF Elsewhere
<1>0. home \in HomeFields /\ home.query \in Queries \cup {NoQuery} /\ (AtHome' <=> AtHome)
  <2>1. open' = open
    BY DEF FetchRooms, RoomsLoaded, SearchRoomsLoaded, RoomDiscovered
  <2> QED
    BY <2>1, TypedParts DEF HomeFields, AtHome
<1>1. CASE FetchRooms
  <2>1. CASE home.mode = "pinned"
    BY <1>1, <2>1 DEF FetchRooms, SearchInv
  <2>2. CASE home.mode = "search"
    <3>1. CASE home'.unsearched
      BY <3>1 DEF SearchInv
    <3>2. CASE ~home'.unsearched
      <4>1. PICK items : /\ Becomes(Fetch, [op |-> "found", query |-> home.query, items |-> items])
                         /\ home' = [home EXCEPT !.unsearched = FALSE]
        BY <1>0, <1>1, <2>2, <3>2 DEF FetchRooms, HomeFields
      <4> DEFINE found == [op |-> "found", query |-> home.query, items |-> items]
      <4>2. found \in commands' /\ found.op = "found" /\ found.query = home.query
        BY <4>1 DEF Becomes
      <4>3. home'.query = home.query
        BY <1>0, <4>1 DEF HomeFields
      <4> HIDE DEF found
      <4> QED
        BY <4>2, <4>3 DEF SearchInv
    <3> QED
      BY <3>1, <3>2
  <2> QED
    BY <1>0, <1>1, <2>1, <2>2 DEF HomeFields
<1>2. ASSUME NEW c \in commands, RoomsLoaded(c) PROVE SearchInv'
  <2>1. c.items \subseteq Item
    BY <1>2, TypedParts DEF RoomsLoaded, CommandIsSound
  <2>2. /\ Filter(c.items, home.query) \subseteq Item
        /\ Matches(Filter(c.items, home.query), home.query)
    BY <1>0, <2>1, ItemsAreItems
  <2>3. Listed(c.items) \in Seq(Item) /\ Listed(Filter(c.items, home.query)) \in Seq(Item)
    BY <2>1, <2>2, ListedItems
  <2>4. CASE ~AtHome
    BY <1>0, <2>4 DEF SearchInv
  <2>5. CASE AtHome /\ home.mode = "search"
    <3> DEFINE h == [home EXCEPT !.discovered = c.items,
                                 !.list = Listed(Filter(c.items, home.query))]
    <3>1. h \in HomeFields /\ h.list = Listed(Filter(c.items, home.query)) /\ h.query = home.query
      BY <1>0, <2>1, <2>3 DEF HomeFields
    <3>2. home' = Clamp(h)
      BY <1>2, <2>5 DEF RoomsLoaded
    <3> HIDE DEF h
    <3>3. home'.list = Listed(Filter(c.items, home.query)) /\ home'.query = home.query
      BY <3>1, <3>2, Clamped
    <3> QED
      BY <2>2, <3>3, SearchAnswered DEF SearchInv
  <2>6. CASE AtHome /\ home.mode # "search"
    <3> DEFINE h == [home EXCEPT !.list = Listed(c.items)]
    <3>1. h \in HomeFields /\ h.mode = home.mode
      BY <1>0, <2>3 DEF HomeFields
    <3>2. home' = Clamp(h)
      BY <1>2, <2>6 DEF RoomsLoaded
    <3> HIDE DEF h
    <3>3. home'.mode # "search"
      BY <2>6, <3>1, <3>2, Clamped
    <3> QED
      BY <3>3 DEF SearchInv
  <2> QED
    BY <2>4, <2>5, <2>6
<1>3. ASSUME NEW c \in commands, SearchRoomsLoaded(c) PROVE SearchInv'
  <2>0. c.op = "found" /\ c.items \subseteq Item /\ Matches(c.items, c.query)
    BY <1>3, TypedParts DEF SearchRoomsLoaded, CommandIsSound
  <2>1. CASE StillAskedFor(c)
    <3> DEFINE h == [home EXCEPT !.list = Listed(c.items)]
    <3>1. h \in HomeFields /\ h.list = Listed(c.items) /\ h.query = c.query
      BY <1>0, <2>0, <2>1, ListedItems DEF HomeFields, StillAskedFor
    <3>2. home' = Clamp(h)
      BY <1>3, <2>1 DEF SearchRoomsLoaded
    <3> HIDE DEF h
    <3>3. home'.list = Listed(c.items) /\ home'.query = c.query
      BY <3>1, <3>2, Clamped
    <3> QED
      BY <2>0, <3>3, SearchAnswered DEF SearchInv
  <2>2. CASE ~StillAskedFor(c)
    <3> SUFFICES ASSUME AtHome, home.mode = "search", ~home.unsearched PROVE SearchInv'
      BY <1>0, <1>3, <2>2 DEF SearchRoomsLoaded, SearchInv
    <3>1. home.query # c.query /\ home' = home /\ commands' = commands \ {c}
      BY <1>3, <2>2 DEF StillAskedFor, SearchRoomsLoaded
    <3>2. CASE Fetch \in commands
      BY <2>0, <3>1, <3>2 DEF Fetch, SearchInv
    <3>3. CASE \E d \in commands : d.op = "found" /\ d.query = home.query
      BY <3>1, <3>3 DEF SearchInv
    <3>4. CASE ListMatches
      BY <3>1, <3>4 DEF SearchInv, ListMatches
    <3> QED
      BY <3>2, <3>3, <3>4 DEF SearchInv
  <2> QED
    BY <2>1, <2>2
<1>4. ASSUME NEW r \in Rooms, RoomDiscovered(r) PROVE SearchInv'
  <2> DEFINE seen == home.discovered \cup {[room |-> r, mine |-> FALSE]}
  <2>0. [room |-> r, mine |-> FALSE] \in Item
    BY RoomsAreRooms DEF Item
  <2>1. seen \subseteq Item
    BY <1>0, <2>0 DEF HomeFields
  <2>2. commands' = commands
    BY <1>4 DEF RoomDiscovered
  <2>3. \/ home' = home
        \/ IF home.mode = "search"
           THEN home' = [home EXCEPT !.discovered = seen,
                                     !.list = Listed(Filter(seen, home.query))]
           ELSE home' = [home EXCEPT !.discovered = seen]
    BY <1>4 DEF RoomDiscovered
  <2> HIDE DEF seen
  <2>4. CASE home' = home
    BY <1>0, <2>2, <2>4, SearchUndisturbed
  <2>5. CASE home.mode # "search"
    BY <1>0, <2>3, <2>5 DEF SearchInv, HomeFields
  <2>6. CASE home' # home /\ home.mode = "search"
    <3>1. home'.list = Listed(Filter(seen, home.query)) /\ home'.query = home.query
      BY <1>0, <2>3, <2>6 DEF HomeFields
    <3>2. Filter(seen, home.query) \subseteq Item /\ Matches(Filter(seen, home.query), home.query)
      BY <1>0, <2>1, ItemsAreItems
    <3> QED
      BY <3>1, <3>2, SearchAnswered DEF SearchInv
  <2> QED
    BY <2>4, <2>5, <2>6
<1> QED
  BY <1>1, <1>2, <1>3, <1>4

LEMMA StepKeepsSearch == ASSUME Typed, SearchInv, [HomeNext]_vars PROVE SearchInv'
<1> USE DEF Elsewhere
<1>0. home \in HomeFields
  BY TypedParts
<1>1. ASSUME Fetch \in commands' PROVE SearchInv'
  BY <1>1 DEF SearchInv
<1>2. ASSUME Start(Fetch) PROVE SearchInv'
  BY <1>1, <1>2 DEF Start
<1>3. ASSUME NEW command, Start(command) PROVE \A d \in commands : d \in commands'
  BY <1>3 DEF Start
<1>4. ASSUME NEW c, NEW next, c.op \notin {"fetch", "found"}, Becomes(c, next)
      PROVE  \A d \in commands : d.op \in {"fetch", "found"} => d \in commands'
  BY <1>4 DEF Becomes
<1>12. ASSUME NEW query \in Queries \cup {NoQuery}, UNCHANGED <<commands, open>>,
              home'.mode = Edited(query).mode, home'.query = Edited(query).query,
              home'.list = Edited(query).list, home'.unsearched = Edited(query).unsearched
       PROVE  SearchInv'
  <2>1. CASE home'.unsearched
    BY <2>1 DEF SearchInv
  <2>2. CASE ~home'.unsearched
    <3>1. ~home.unsearched /\ (query = home.query \/ Fetch \in commands)
      BY <1>0, <1>12, <2>2, EditedFields
    <3>2. CASE Fetch \in commands
      BY <1>1, <1>12, <3>2
    <3>3. CASE query = home.query
      <4>1. home'.mode = home.mode /\ home'.query = home.query /\ home'.list = home.list
        BY <1>0, <1>12, <3>3, EditedFields
      <4> QED
        BY <1>12, <3>1, <4>1, SearchUndisturbed DEF AtHome
    <3> QED
      BY <3>1, <3>2, <3>3
  <2> QED
    BY <2>1, <2>2
<1>5. CASE Keys
  <2>1. CASE Move
    BY <1>0, <2>1, SearchUndisturbed DEF Move, HomeFields, AtHome
  <2>2. CASE PressS \/ EscSearch
    BY <1>2, <2>2 DEF PressS, EscSearch
  <2>3. CASE EnterPinned \/ EnterSearch \/ \E r \in AllRooms : SubmitJoin(r) \/ SubmitCreate(r)
    BY <1>3, <2>3, SearchUndisturbed DEF EnterPinned, EnterSearch, SubmitJoin, SubmitCreate, AtHome
  <2>4. ASSUME NEW query \in Queries \cup {NoQuery}, Type(query) PROVE SearchInv'
    <3>1. CASE home' = Clamp(Edited(query)) /\ UNCHANGED commands
      <4> DEFINE h == Edited(query)
      <4>1. h \in HomeFields /\ h.query = query
        BY <1>0, EditedFields
      <4>2. /\ home'.mode = h.mode /\ home'.query = h.query
            /\ home'.list = h.list /\ home'.unsearched = h.unsearched
        BY <3>1, <4>1, Clamped
      <4> QED
        BY <1>12, <2>4, <3>1, <4>2 DEF Type
    <3>2. CASE Start(Fetch)
      BY <1>2, <3>2
    <3> QED
      BY <2>4, <3>1, <3>2 DEF Type
  <2>6. ASSUME NEW query \in Queries, Paste(query) PROVE SearchInv'
    BY <1>12, <2>6 DEF Paste
  <2>5. CASE ConfirmDelete
    <3>1. home'.mode = "pinned"
      BY <1>0, <2>5 DEF ConfirmDelete, Key, HomeFields
    <3> QED
      BY <3>1 DEF SearchInv
  <2> QED
    BY <1>5, <2>1, <2>2, <2>3, <2>4, <2>5, <2>6 DEF Keys
<1>6. ASSUME NEW c \in commands,
             \/ EnterJoins(c) \/ EnterOpens(c) \/ JoinRoomByName(c) \/ JoinRoomByID(c)
             \/ InsertRoom(c) \/ ServeCreate(c) \/ Registered(c) \/ NotRegistered(c)
             \/ RegistrationFails(c)
      PROVE  SearchInv'
  <2>1. c.op \notin {"fetch", "found"} /\ home' = home /\ open' = open
    BY <1>6 DEF EnterJoins, EnterOpens, JoinRoomByName, JoinRoomByID, InsertRoom, ServeCreate, Registered,
                NotRegistered, RegistrationFails
  <2>2. commands' = commands \ {c} \/ \E next : Becomes(c, next)
    BY <1>6 DEF EnterJoins, EnterOpens, JoinRoomByName, JoinRoomByID, InsertRoom, ServeCreate, Registered,
                NotRegistered, RegistrationFails
  <2>3. \A d \in commands : d.op \in {"fetch", "found"} => d \in commands'
    BY <1>4, <2>1, <2>2
  <2> QED
    BY <2>1, <2>3, SearchUndisturbed DEF AtHome
<1>7. ASSUME NEW c \in commands, HandleOpenRoom(c) PROVE SearchInv'
  <2>1. open' \in AllRooms
    BY <1>7, TypedParts DEF HandleOpenRoom, CommandIsSound
  <2> QED
    BY <2>1, RoomsAreRooms DEF SearchInv, AtHome
<1>8. CASE NotReleased \/ ReleaseFails \/ ServeDelete \/ OthersUseRegistry \/ UNCHANGED vars
  BY <1>8, SearchUndisturbed DEF NotReleased, ReleaseFails, ServeDelete, OthersUseRegistry, vars, AtHome
<1>9. CASE Deleted \/ EscRoom
  BY <1>2, <1>9 DEF Deleted, EscRoom
<1>10. CASE HandleError
  <2>1. CASE commands' = commands \ {Failed} /\ UNCHANGED open
    BY <1>10, <2>1, SearchUndisturbed DEF HandleError, Failed, AtHome
  <2>2. CASE IF Failed \in commands THEN Becomes(Failed, Fetch) ELSE Start(Fetch)
    BY <1>1, <1>2, <2>2 DEF Becomes
  <2> QED
    BY <1>10, <2>1, <2>2 DEF HandleError
<1>11. CASE Restart
  BY <1>1, <1>11 DEF Restart
<1> QED
  BY <1>5, <1>6, <1>7, <1>8, <1>9, <1>10, <1>11, ListStepKeepsSearch
  DEF HomeNext, Run, EnterPanics

\* In search mode, with no answer outstanding, the list shows nothing but what
\* a search for the field's content may find, in whatever order answers came
\* back (FetchRooms, SearchRoomsLoadedMsg, RoomsLoadedMsg, the discovered
\* rooms), unless the field was edited without a search or the search failed.
THEOREM SearchShowsItsQuery == HomeSpec => []SearchShowsMatches
<1>1. HomeInit => SearchInv
  BY DEF HomeInit, SearchInv
<1>2. Typed /\ SearchInv /\ [HomeNext]_vars => SearchInv'
  BY StepKeepsSearch
<1>3. SearchInv => SearchShowsMatches
  BY DEF SearchInv, SearchShowsMatches, Answered, ListMatches, Fetch
<1> QED
  BY <1>1, <1>2, <1>3, AlwaysTyped, PTL DEF HomeSpec

-----------------------------------------------------------------------------
(* Table and registry.                                                     *)

\* A command that neither asks the registry for the room nor was refused it.
Idle(c, r) == \A call \in {"sent", "refused"} : c # Creating(r, call)

CallsKept(r) ==
    \A call \in {"sent", "refused"} : Creating(r, call) \in commands' <=> Creating(r, call) \in commands

OwnershipKept(r) ==
    /\ member'[r] = "owner" <=> member[r] = "owner"
    /\ Owned(r)' <=> Owned(r)
    /\ Released(r)' <=> Released(r)

LEMMA IdleCommands ==
    ASSUME NEW c, NEW r, c.op # "create" \/ c.room # r \/ c.call \notin {"sent", "refused"}
    PROVE  Idle(c, r)
  BY DEF Idle, Creating

LEMMA CallsStay ==
    ASSUME NEW r, NEW c, NEW next, Idle(c, r), Idle(next, r),
           \/ Start(next) \/ Becomes(c, next) \/ commands' = commands \ {c} \/ UNCHANGED commands
    PROVE  CallsKept(r)
  BY DEF Idle, CallsKept, Start, Becomes

LEMMA InStepUndisturbed ==
    ASSUME NEW r, InStep(r), CallsKept(r), OwnershipKept(r)
    PROVE  InStep(r)'
<1>1. /\ Asked(r)' <=> Asked(r)
      /\ Creating(r, "sent") \in commands' <=> Creating(r, "sent") \in commands
      /\ Creating(r, "refused") \in commands' <=> Creating(r, "refused") \in commands
  BY DEF CallsKept, Asked
<1> QED
  BY <1>1 DEF InStep, OwnershipKept

\* What the store does to the ownership of one room and of the others.
LEMMA RemoveStep ==
    ASSUME Typed, OwnersAreCreators, NEW r \in AllRooms, Remove(r)
    PROVE  OwnersAreCreators' /\ member'[r] # "owner" /\ \A q \in AllRooms \ {r} : member'[q] = member[q]
<1>1. /\ creator \in [AllRooms -> {"nobody", "me", "other"}]
      /\ member \in [AllRooms -> {"none", "member", "owner"}]
  BY TypedParts
<1> QED
  BY <1>1 DEF Remove, OwnersAreCreators

LEMMA CreateStep ==
    ASSUME Typed, OwnersAreCreators, NEW r \in AllRooms, CreateRoom(r)
    PROVE  OwnersAreCreators' /\ member'[r] = "owner" /\ \A q \in AllRooms \ {r} : member'[q] = member[q]
<1>1. /\ creator \in [AllRooms -> {"nobody", "me", "other"}]
      /\ member \in [AllRooms -> {"none", "member", "owner"}]
  BY TypedParts
<1> QED
  BY <1>1 DEF CreateRoom, OwnersAreCreators

\* Joining makes nobody an owner and unmakes none.
JoinsAtMost ==
    \/ UNCHANGED tables
    \/ \E r \in AllRooms, by \in {"me", "other"} : JoinExternalRoom(r, by) \/ JoinRoom(r)

LEMMA JoinStep ==
    ASSUME Typed, OwnersAreCreators, JoinsAtMost
    PROVE  OwnersAreCreators' /\ \A q \in AllRooms : member'[q] = "owner" <=> member[q] = "owner"
<1>1. CASE UNCHANGED tables
  BY <1>1 DEF tables, OwnersAreCreators
<1>2. ASSUME NEW r \in AllRooms, NEW by \in {"me", "other"}, JoinExternalRoom(r, by) \/ JoinRoom(r)
      PROVE  OwnersAreCreators' /\ \A q \in AllRooms : member'[q] = "owner" <=> member[q] = "owner"
  <2>1. /\ creator \in [AllRooms -> {"nobody", "me", "other"}]
        /\ member \in [AllRooms -> {"none", "member", "owner"}]
    BY TypedParts
  <2>2. JoinedAs(r) = "owner" <=> member[r] = "owner"
    BY DEF JoinedAs
  <2>3. member' = member \/ member' = [member EXCEPT ![r] = JoinedAs(r)]
    BY <1>2 DEF JoinExternalRoom, JoinRoom
  <2>4. creator' = creator \/ (creator[r] = "nobody" /\ creator' = [creator EXCEPT ![r] = by])
    BY <1>2 DEF JoinExternalRoom, JoinRoom
  <2>5. \A q \in AllRooms : member'[q] = "owner" <=> member[q] = "owner"
    BY <2>1, <2>2, <2>3
  <2>6. \A q \in AllRooms : creator[q] = "me" => creator'[q] = "me"
    BY <2>1, <2>4
  <2> QED
    BY <2>5, <2>6 DEF OwnersAreCreators
<1> QED
  BY <1>1, <1>2 DEF JoinsAtMost

\* Steps that neither create nor delete and leave the registry alone.
LEMMA OwnedUndisturbed ==
    ASSUME Typed, OwnedInv, JoinsAtMost,
           UNCHANGED <<releasing, registry, excused>>, \A q \in Rooms : CallsKept(q)
    PROVE  OwnedInv'
<1>1. OwnersAreCreators' /\ \A q \in AllRooms : member'[q] = "owner" <=> member[q] = "owner"
  BY JoinStep DEF OwnedInv
<1>2. ASSUME NEW q \in Rooms \ excused' PROVE InStep(q)'
  <2>1. InStep(q)
    BY <1>2 DEF OwnedInv
  <2>2. OwnershipKept(q)
    BY <1>1, RoomsAreRooms DEF OwnershipKept, Owned, Released, registry
  <2> QED
    BY <2>1, <2>2, InStepUndisturbed
<1> QED
  BY <1>1, <1>2 DEF OwnedInv

LEMMA ListStepKeepsOwned ==
    ASSUME Typed, OwnedInv,
           \/ FetchRooms \/ \E c \in commands : RoomsLoaded(c) \/ SearchRoomsLoaded(c)
           \/ \E r \in Rooms : RoomDiscovered(r)
    PROVE  OwnedInv'
<1> USE DEF Elsewhere
<1>1. CASE FetchRooms
  <2>0. /\ Failed.op # "create" /\ [op |-> "listed", items |-> ListRooms].op # "create"
        /\ \A query, items : [op |-> "found", query |-> query, items |-> items].op # "create"
    BY DEF Failed
  <2>1. PICK next : Becomes(Fetch, next) /\ next.op # "create"
    <3>1. \/ Becomes(Fetch, Failed) \/ Becomes(Fetch, [op |-> "listed", items |-> ListRooms])
          \/ \E query, items : Becomes(Fetch, [op |-> "found", query |-> query, items |-> items])
      BY <1>1, Zenon DEF FetchRooms
    <3> QED
      BY <2>0, <3>1, Zenon
  <2>2. Fetch.op # "create"
    BY DEF Fetch
  <2>3. \A q \in Rooms : CallsKept(q)
    BY <2>1, <2>2, IdleCommands, CallsStay
  <2> QED
    BY <1>1, <2>3, OwnedUndisturbed DEF FetchRooms, JoinsAtMost
<1>2. ASSUME NEW c \in commands, RoomsLoaded(c) \/ SearchRoomsLoaded(c) PROVE OwnedInv'
  <2>1. c.op # "create" /\ commands' = commands \ {c}
    BY <1>2 DEF RoomsLoaded, SearchRoomsLoaded
  <2>2. \A q \in Rooms : CallsKept(q)
    BY <2>1, IdleCommands, CallsStay
  <2> QED
    BY <1>2, <2>2, OwnedUndisturbed DEF RoomsLoaded, SearchRoomsLoaded, JoinsAtMost
<1>3. ASSUME NEW r \in Rooms, RoomDiscovered(r) PROVE OwnedInv'
  <2>1. UNCHANGED <<commands, creator, member, releasing, registry, excused>>
    BY <1>3 DEF RoomDiscovered
  <2>2. OwnersAreCreators'
    BY <2>1 DEF OwnersAreCreators, OwnedInv
  <2>3. ASSUME NEW q \in Rooms \ excused' PROVE InStep(q)'
    BY <2>1 DEF OwnedInv, InStep, Asked, Released, Owned, registry
  <2> QED
    BY <2>2, <2>3 DEF OwnedInv
<1> QED
  BY <1>1, <1>2, <1>3

\* One room is deleted, and nothing happens to the others.
LEMMA DeletionKeepsOwned ==
    ASSUME Typed, OwnedInv, NEW r \in AllRooms, Remove(r),
           excused \subseteq excused',
           \A q \in Rooms \ {r} : CallsKept(q) /\ (Owned(q)' <=> Owned(q)) /\ (Released(q)' <=> Released(q)),
           r \in Rooms \ excused' => ~Owned(r)' /\ ~Asked(r)' /\ ~Released(r)'
    PROVE  OwnedInv'
<1>1. OwnersAreCreators' /\ member'[r] # "owner" /\ \A q \in AllRooms \ {r} : member'[q] = member[q]
  BY RemoveStep DEF OwnedInv
<1>2. ASSUME NEW q \in Rooms \ excused', q # r PROVE InStep(q)'
  <2>1. InStep(q) /\ CallsKept(q) /\ OwnershipKept(q)
    BY <1>1, <1>2, RoomsAreRooms DEF OwnedInv, OwnershipKept
  <2> QED
    BY <2>1, InStepUndisturbed
<1>3. ASSUME r \in Rooms \ excused' PROVE InStep(r)'
  BY <1>1, <1>3 DEF InStep
<1> QED
  BY <1>1, <1>2, <1>3 DEF OwnedInv

LEMMA KeyKeepsOwned == ASSUME Typed, OwnedInv, Keys PROVE OwnedInv'
<1> USE DEF Elsewhere
<1>0. ASSUME NEW command, command.op # "create" \/ command.call = "insert", Start(command)
      PROVE  \A q \in Rooms : CallsKept(q)
  BY <1>0, IdleCommands, CallsStay
<1>1. CASE Move
  BY <1>1, OwnedUndisturbed DEF Move, JoinsAtMost, CallsKept
<1>2. CASE PressS \/ EscSearch
  <2>1. \A q \in Rooms : CallsKept(q)
    BY <1>0, <1>2 DEF PressS, EscSearch, Fetch
  <2> QED
    BY <1>2, <2>1, OwnedUndisturbed DEF PressS, EscSearch, JoinsAtMost
<1>3. ASSUME NEW query \in Queries \cup {NoQuery}, Type(query) PROVE OwnedInv'
  <2>1. \A q \in Rooms : CallsKept(q)
    BY <1>0, <1>3 DEF Type, Fetch, CallsKept
  <2> QED
    BY <1>3, <2>1, OwnedUndisturbed DEF Type, JoinsAtMost
<1>4. CASE EnterPinned
  <2>1. \A q \in Rooms : CallsKept(q)
    BY <1>0, <1>4 DEF EnterPinned
  <2> QED
    BY <1>4, <2>1, OwnedUndisturbed DEF EnterPinned, JoinsAtMost
<1>5. CASE EnterSearch
  <2>1. \A q \in Rooms : CallsKept(q)
    BY <1>0, <1>5 DEF EnterSearch, OpenRoomMsg
  <2>2. JoinsAtMost
    BY <1>5, ItemsAreItems DEF EnterSearch, JoinsAtMost, Item
  <2> QED
    BY <1>5, <2>1, <2>2, OwnedUndisturbed DEF EnterSearch
<1>6. ASSUME NEW r \in AllRooms, SubmitJoin(r) \/ SubmitCreate(r) PROVE OwnedInv'
  <2>1. \A q \in Rooms : CallsKept(q)
    BY <1>0, <1>6 DEF SubmitJoin, SubmitCreate, Creating
  <2> QED
    BY <1>6, <2>1, OwnedUndisturbed DEF SubmitJoin, SubmitCreate, JoinsAtMost
<1>7. CASE ConfirmDelete
  <2> DEFINE r == UnderCursor.room
  <2>1. r \in AllRooms
    BY <1>7, ItemsAreItems DEF ConfirmDelete, Item
  <2> HIDE DEF r
  <2>2. /\ UNCHANGED registry
        /\ releasing = NotReleasing
        /\ \/ releasing' = [room |-> r, call |-> "sent"] /\ UNCHANGED <<commands, tables, excused>>
           \/ Remove(r) /\ Start(Fetch) /\ excused' = excused \cup ({r} \cap Rooms) /\ UNCHANGED releasing
           \/ /\ member[r] # "owner" /\ member' = [member EXCEPT ![r] = "none"] /\ Start(Fetch)
              /\ UNCHANGED <<releasing, creator, excused>>
    BY <1>7 DEF ConfirmDelete, Key, Handling, r
  <2>3. \A q \in Rooms : (Owned(q)' <=> Owned(q)) /\ (Released(q)' <=> Released(q))
    BY <2>2 DEF Owned, Released, registry, NotReleasing
  <2>4. \A q \in Rooms : CallsKept(q)
    BY <1>0, <2>2 DEF CallsKept, Fetch
  <2>5. CASE Remove(r) /\ excused' = excused \cup ({r} \cap Rooms)
    BY <2>1, <2>3, <2>4, <2>5, DeletionKeepsOwned
  <2>6. CASE /\ \A q \in AllRooms : member'[q] = "owner" <=> member[q] = "owner"
             /\ UNCHANGED <<creator, excused>>
    <3>1. OwnersAreCreators'
      BY <2>6 DEF OwnedInv, OwnersAreCreators
    <3>2. \A q \in Rooms \ excused' : InStep(q)'
      BY <2>3, <2>4, <2>6, InStepUndisturbed, RoomsAreRooms DEF OwnedInv, OwnershipKept
    <3> QED
      BY <3>1, <3>2 DEF OwnedInv
  <2>7. member \in [AllRooms -> {"none", "member", "owner"}]
    BY TypedParts
  <2>8. UNCHANGED tables => UNCHANGED <<creator, member>>
    BY DEF tables
  <2> QED
    BY <2>1, <2>2, <2>5, <2>6, <2>7, <2>8
<1>8. ASSUME NEW query \in Queries, Paste(query) PROVE OwnedInv'
  BY <1>8, OwnedUndisturbed DEF Paste, JoinsAtMost, CallsKept
<1> QED
  BY <1>1, <1>2, <1>3, <1>4, <1>5, <1>6, <1>7, <1>8 DEF Keys

\* The commands that open, join or end a room's creation.
LEMMA PlainCommandKeepsOwned ==
    ASSUME Typed, OwnedInv, NEW c \in commands,
           \/ EnterJoins(c) \/ EnterOpens(c) \/ JoinRoomByName(c) \/ JoinRoomByID(c) \/ HandleOpenRoom(c) \/ Registered(c)
    PROVE  OwnedInv'
<1> USE DEF Elsewhere
<1>0. CommandIsSound(c)
  BY TypedParts
<1>1. c.op # "create" \/ c.call \notin {"sent", "refused"}
  BY DEF EnterJoins, EnterOpens, JoinRoomByName, JoinRoomByID, HandleOpenRoom, Registered
<1>2. commands' = commands \ {c} \/ \E next : next.op # "create" /\ Becomes(c, next)
  BY DEF EnterJoins, EnterOpens, JoinRoomByName, JoinRoomByID, HandleOpenRoom, Registered, OpenRoomMsg
<1>3. ASSUME NEW q \in Rooms PROVE CallsKept(q)
  <2>1. Idle(c, q)
    BY <1>1, IdleCommands
  <2>2. CASE commands' = commands \ {c}
    BY <2>1, <2>2, CallsStay
  <2>3. CASE \E next : next.op # "create" /\ Becomes(c, next)
    BY <2>1, <2>3, IdleCommands, CallsStay
  <2> QED
    BY <1>2, <2>2, <2>3
<1>4. JoinsAtMost
  <2>1. CASE EnterJoins(c) \/ EnterOpens(c)
    BY <2>1, ItemsAreItems DEF EnterJoins, EnterOpens, Item, JoinsAtMost
  <2>2. CASE JoinRoomByName(c)
    <3>1. RoomsIn(index) \subseteq AllRooms
      BY TypedParts DEF RoomsIn, Item
    <3> QED
      BY <2>2, <3>1 DEF JoinRoomByName, JoinsAtMost
  <2>3. CASE JoinRoomByID(c)
    BY <1>0, <2>3 DEF JoinRoomByID, CommandIsSound, JoinsAtMost
  <2>4. CASE HandleOpenRoom(c) \/ Registered(c)
    BY <2>4 DEF HandleOpenRoom, Registered, JoinsAtMost
  <2> QED
    BY <2>1, <2>2, <2>3, <2>4
<1>5. UNCHANGED <<releasing, registry, excused>>
  BY DEF EnterJoins, EnterOpens, JoinRoomByName, JoinRoomByID, HandleOpenRoom, Registered
<1> QED
  BY <1>3, <1>4, <1>5, OwnedUndisturbed

\* The steps of a creation: into the table, to the registry, out again.
LEMMA CreationKeepsOwned ==
    ASSUME Typed, OwnedInv, NEW c \in commands,
           InsertRoom(c) \/ ServeCreate(c) \/ NotRegistered(c) \/ RegistrationFails(c)
    PROVE  OwnedInv'
<1> USE DEF Elsewhere
<1> DEFINE r == c.room
<1>0. /\ CommandIsSound(c) /\ c.op = "create" /\ r \in AllRooms /\ c = Creating(r, c.call)
      /\ c.call # "insert" => r \in Rooms
  <2>1. c.op = "create"
    BY DEF InsertRoom, ServeCreate, NotRegistered, RegistrationFails
  <2> QED
    BY <2>1, TypedParts DEF CommandIsSound
<1> HIDE DEF r
<1>1. ASSUME NEW q \in Rooms, q # r, NEW next, next.op # "create" \/ next.room = r, Becomes(c, next)
      PROVE  CallsKept(q)
  <2>1. Idle(c, q)
    BY <1>1, IdleCommands DEF r
  <2>2. Idle(next, q)
    BY <1>1, IdleCommands
  <2> QED
    BY <1>1, <2>1, <2>2, CallsStay
<1>2. CASE InsertRoom(c)
  <2>1. UNCHANGED <<releasing, registry, excused>> /\ c.call = "insert"
    BY <1>2 DEF InsertRoom
  <2>2. CASE creator[r] = "nobody"
    <3> DEFINE next == IF r \in Rooms THEN Creating(r, "sent") ELSE OpenRoomMsg(r)
    <3>1. CreateRoom(r) /\ Becomes(c, next)
      BY <1>2, <2>2 DEF InsertRoom, r
    <3>2. next.op # "create" \/ next.room = r
      BY DEF Creating, OpenRoomMsg
    <3>3. \A q \in Rooms : q # r => CallsKept(q)
      <4> HIDE DEF next
      <4> QED
        BY <1>1, <3>1, <3>2
    <3>4. OwnersAreCreators' /\ member'[r] = "owner" /\ \A q \in AllRooms \ {r} : member'[q] = member[q]
      BY <1>0, <3>1, CreateStep DEF OwnedInv
    <3>5. ASSUME NEW q \in Rooms \ excused', q # r PROVE InStep(q)'
      <4>1. InStep(q) /\ OwnershipKept(q)
        BY <2>1, <3>4, <3>5, RoomsAreRooms DEF OwnedInv, OwnershipKept, Owned, Released, registry
      <4> QED
        BY <3>3, <3>5, <4>1, InStepUndisturbed
    <3>6. ASSUME r \in Rooms \ excused' PROVE InStep(r)'
      <4>1. member[r] # "owner" /\ InStep(r)
        BY <1>0, <2>1, <2>2, <3>6 DEF OwnedInv, OwnersAreCreators
      <4>2. ~Owned(r) /\ ~Released(r) /\ ~Asked(r)
        BY <4>1 DEF InStep
      <4>3. ~Owned(r)' /\ ~Released(r)'
        BY <2>1, <4>2 DEF Owned, Released, registry
      <4>4. commands' = (commands \ {c}) \cup {Creating(r, "sent")}
        BY <3>1, <3>6 DEF Becomes
      <4>5. Creating(r, "refused") \notin commands'
        <5>1. Creating(r, "refused") # Creating(r, "sent")
          BY DEF Creating
        <5> QED
          BY <4>2, <4>4, <5>1 DEF Asked
      <4>6. Asked(r)'
        BY <4>4 DEF Asked
      <4> QED
        BY <3>4, <4>3, <4>5, <4>6 DEF InStep
    <3> QED
      BY <3>4, <3>5, <3>6 DEF OwnedInv
  <2>3. CASE creator[r] # "nobody"
    <3>1. Becomes(c, Failed) /\ UNCHANGED tables
      BY <1>2, <2>3 DEF InsertRoom, r
    <3>2. ASSUME NEW q \in Rooms PROVE CallsKept(q)
      <4>1. Idle(c, q) /\ Idle(Failed, q)
        BY <2>1, IdleCommands DEF Failed
      <4> QED
        BY <3>1, <4>1, CallsStay
    <3> QED
      BY <2>1, <3>1, <3>2, OwnedUndisturbed DEF JoinsAtMost
  <2> QED
    BY <2>2, <2>3
<1>3. CASE ServeCreate(c)
  <2>1. UNCHANGED <<releasing, tables, excused>> /\ c = Creating(r, "sent") /\ r \in Rooms
    BY <1>0, <1>3 DEF ServeCreate
  <2>2. OwnersAreCreators' /\ \A q \in AllRooms : member'[q] = member[q]
    BY <2>1 DEF tables, OwnedInv, OwnersAreCreators
  <2>3. PICK call \in {"ok", "refused"} : Becomes(c, Creating(r, call))
    BY <1>3 DEF ServeCreate, r
  <2>4. ASSUME NEW q \in Rooms \ excused', q # r PROVE InStep(q)'
    <3>1. Creating(r, call).room = r
      BY DEF Creating
    <3>2. CallsKept(q)
      BY <1>1, <2>3, <2>4, <3>1
    <3>3. Owned(q)' <=> Owned(q)
      BY <1>3, <2>4 DEF ServeCreate, OpenRoom, Owned, registry, r
    <3>4. InStep(q) /\ OwnershipKept(q)
      BY <2>1, <2>2, <2>4, <3>3, RoomsAreRooms DEF OwnedInv, OwnershipKept, Released
    <3> QED
      BY <3>2, <3>4, InStepUndisturbed
  <2>5. ASSUME r \in Rooms \ excused' PROVE InStep(r)'
    <3>1. InStep(r) /\ Asked(r)
      BY <2>1, <2>5 DEF OwnedInv, Asked
    <3>2. /\ member[r] = "owner" /\ ~Owned(r) /\ ~Released(r)
          /\ Creating(r, "sent") \in commands /\ Creating(r, "refused") \notin commands
      BY <2>1, <3>1 DEF InStep
    <3>3. member'[r] = "owner" /\ ~Released(r)'
      BY <1>0, <2>1, <2>2, <3>2 DEF Released
    <3>4. \/ OpenRoom(r, Me) /\ Becomes(c, Creating(r, "ok"))
          \/ Becomes(c, Creating(r, "refused")) /\ UNCHANGED registry
      BY <1>3, <3>2 DEF ServeCreate, r
    <3>5. /\ Creating(r, "ok") # Creating(r, "sent") /\ Creating(r, "ok") # Creating(r, "refused")
          /\ Creating(r, "sent") # Creating(r, "refused")
      BY DEF Creating
    <3>6. CASE OpenRoom(r, Me) /\ Becomes(c, Creating(r, "ok"))
      <4>1. Owned(r)'
        BY <3>6 DEF OpenRoom, Owned
      <4>2. ~Asked(r)'
        BY <2>1, <3>2, <3>5, <3>6 DEF Asked, Becomes
      <4> QED
        BY <3>3, <4>1, <4>2 DEF InStep
    <3>7. CASE Becomes(c, Creating(r, "refused")) /\ UNCHANGED registry
      <4>1. ~Owned(r)'
        BY <3>2, <3>7 DEF Owned, registry
      <4>2. Creating(r, "sent") \notin commands' /\ Asked(r)'
        BY <2>1, <3>5, <3>7 DEF Asked, Becomes
      <4> QED
        BY <3>3, <4>1, <4>2 DEF InStep
    <3> QED
      BY <3>4, <3>6, <3>7
  <2> QED
    BY <2>2, <2>4, <2>5 DEF OwnedInv
<1>4. CASE NotRegistered(c) \/ RegistrationFails(c)
  <2>1. /\ Remove(r) /\ Becomes(c, Failed) /\ UNCHANGED <<releasing, registry>> /\ excused \subseteq excused'
        /\ Failed.op # "create"
    BY <1>4 DEF NotRegistered, RegistrationFails, r, Failed
  <2>2. \A q \in Rooms \ {r} : CallsKept(q) /\ (Owned(q)' <=> Owned(q)) /\ (Released(q)' <=> Released(q))
    BY <1>1, <2>1 DEF Owned, Released, registry
  <2>3. ASSUME r \in Rooms \ excused' PROVE ~Owned(r)' /\ ~Asked(r)' /\ ~Released(r)'
    <3>1. c = Creating(r, "refused")
      BY <1>0, <1>4, <2>3 DEF NotRegistered, RegistrationFails, r
    <3>2. InStep(r) /\ Asked(r)
      BY <2>1, <2>3, <3>1 DEF OwnedInv, Asked
    <3>3. ~Owned(r) /\ ~Released(r) /\ Creating(r, "sent") \notin commands
      BY <3>1, <3>2 DEF InStep
    <3>4. Failed # Creating(r, "sent") /\ Failed # Creating(r, "refused")
      BY DEF Failed, Creating
    <3> QED
      BY <2>1, <3>1, <3>3, <3>4 DEF Owned, Released, Asked, registry, Becomes
  <2> QED
    BY <1>0, <2>1, <2>2, <2>3, DeletionKeepsOwned
<1> QED
  BY <1>2, <1>3, <1>4

\* The steps of a deletion: asked of the registry, done there, done here.
LEMMA DeletionStepKeepsOwned ==
    ASSUME Typed, OwnedInv, Deleted \/ NotReleased \/ ReleaseFails \/ ServeDelete
    PROVE  OwnedInv'
<1>r. PICK r : r = releasing.room
  OBVIOUS
<1>0. releasing \in Calls /\ r \in Rooms /\ NotReleasing.call = "none" /\ r \in AllRooms
  <2>1. releasing # NotReleasing
    BY DEF Deleted, NotReleased, ReleaseFails, ServeDelete, NotReleasing
  <2> QED
    BY <1>r, <2>1, TypedParts, RoomsAreRooms DEF Calls, NotReleasing
<1>1. \A q \in Rooms : q # r => ~Released(q)
  BY <1>r DEF Released
<1>2. \A q \in Rooms : releasing' = NotReleasing => ~Released(q)'
  BY DEF NotReleasing, Released
<1>3. CASE Deleted
  <2>1. /\ Remove(r) /\ Start(Fetch) /\ releasing' = NotReleasing /\ UNCHANGED <<registry, excused>>
        /\ releasing.call = "ok"
    BY <1>3, <1>r DEF Deleted
  <2>2. \A q \in Rooms : CallsKept(q)
    <3>1. ASSUME NEW q \in Rooms PROVE Idle(Fetch, q)
      BY IdleCommands DEF Fetch
    <3> QED
      BY <2>1, <3>1, CallsStay
  <2>3. \A q \in Rooms : Owned(q)' <=> Owned(q)
    BY <2>1 DEF Owned, registry
  <2>4. ASSUME r \in Rooms \ excused' PROVE ~Owned(r)' /\ ~Asked(r)' /\ ~Released(r)'
    <3>1. Released(r) /\ InStep(r)
      BY <1>0, <1>r, <2>1, <2>4 DEF Released, Calls, OwnedInv
    <3>2. ~Owned(r) /\ ~Asked(r)
      BY <3>1 DEF InStep
    <3> QED
      BY <1>0, <1>2, <2>1, <2>2, <2>3, <3>2 DEF CallsKept, Asked
  <2> QED
    BY <1>0, <1>1, <1>2, <2>1, <2>2, <2>3, <2>4, DeletionKeepsOwned
<1>4. CASE NotReleased
  <2>1. /\ UNCHANGED <<commands, registry, tables, excused>>
        /\ \A q \in Rooms : ~Released(q) /\ ~Released(q)'
    BY <1>2, <1>4 DEF NotReleased, Released
  <2>2. OwnersAreCreators'
    BY <2>1 DEF OwnedInv, OwnersAreCreators, tables
  <2>3. ASSUME NEW q \in Rooms \ excused' PROVE InStep(q)'
    BY <2>1, <2>3, InStepUndisturbed DEF OwnedInv, OwnershipKept, CallsKept, Owned, registry, tables
  <2> QED
    BY <2>2, <2>3 DEF OwnedInv
<1>5. CASE ReleaseFails
  <2>1. /\ UNCHANGED <<commands, registry, tables>> /\ excused' = excused \cup {r}
        /\ \A q \in Rooms \ {r} : ~Released(q) /\ ~Released(q)'
    BY <1>1, <1>2, <1>5, <1>r DEF ReleaseFails
  <2>2. OwnersAreCreators'
    BY <2>1 DEF OwnedInv, OwnersAreCreators, tables
  <2>3. ASSUME NEW q \in Rooms \ excused' PROVE InStep(q)'
    BY <2>1, <2>3, InStepUndisturbed DEF OwnedInv, OwnershipKept, CallsKept, Owned, registry, tables
  <2> QED
    BY <2>2, <2>3 DEF OwnedInv
<1>6. CASE ServeDelete
  <2>1. /\ UNCHANGED <<commands, tables, excused>> /\ releasing.call = "sent"
        /\ releasing' = [releasing EXCEPT !.call = IF Owned(r) THEN "ok" ELSE "not_found"]
        /\ rooms' = rooms \ {[room |-> r, peer |-> Me]}
    BY <1>6, <1>r DEF ServeDelete, CloseRoom
  <2>2. releasing'.room = r /\ (releasing'.call = "ok" <=> Owned(r)) /\ releasing' \in Calls
    BY <1>0, <1>r, <2>1 DEF Calls
  <2>3. \A q \in Rooms : ~Released(q)
    BY <2>1 DEF Released
  <2>4. /\ ~Owned(r)' /\ (Released(r)' <=> Owned(r))
        /\ \A q \in Rooms \ {r} : (Owned(q)' <=> Owned(q)) /\ ~Released(q)'
    BY <2>1, <2>2 DEF Owned, Released, Calls
  <2>5. OwnersAreCreators' /\ member' = member
    BY <2>1 DEF OwnedInv, OwnersAreCreators, tables
  <2>6. ASSUME NEW q \in Rooms \ excused', q # r PROVE InStep(q)'
    <3>1. InStep(q) /\ CallsKept(q) /\ OwnershipKept(q)
      BY <2>1, <2>3, <2>4, <2>5, <2>6 DEF OwnedInv, CallsKept, OwnershipKept
    <3> QED
      BY <3>1, InStepUndisturbed
  <2>7. ASSUME r \in Rooms \ excused' PROVE InStep(r)'
    <3>1. InStep(r) /\ ~Released(r)
      BY <2>1, <2>3, <2>7 DEF OwnedInv
    <3>2. /\ Asked(r)' <=> Asked(r)
          /\ Creating(r, "sent") \in commands' <=> Creating(r, "sent") \in commands
          /\ Creating(r, "refused") \in commands' <=> Creating(r, "refused") \in commands
      BY <2>1 DEF Asked
    <3> QED
      BY <2>4, <2>5, <3>1, <3>2 DEF InStep
  <2> QED
    BY <2>5, <2>6, <2>7 DEF OwnedInv
<1> QED
  BY <1>3, <1>4, <1>5, <1>6

LEMMA OtherStepKeepsOwned ==
    ASSUME Typed, OwnedInv,
           OthersUseRegistry \/ EscRoom \/ HandleError \/ Restart \/ UNCHANGED vars
    PROVE  OwnedInv'
<1>0. ASSUME NEW q \in Rooms PROVE Idle(Fetch, q) /\ Idle(Failed, q)
  BY IdleCommands DEF Fetch, Failed
<1>1. CASE OthersUseRegistry
  <2>1. UNCHANGED <<commands, releasing, tables, excused>> /\ \A q \in Rooms : Owned(q)' <=> Owned(q)
    BY <1>1 DEF OthersUseRegistry, OpenRoom, CloseRoom, Owned
  <2>2. OwnersAreCreators' /\ member' = member
    BY <2>1 DEF OwnedInv, OwnersAreCreators, tables
  <2>3. ASSUME NEW q \in Rooms \ excused' PROVE InStep(q)'
    BY <2>1, <2>2, <2>3, InStepUndisturbed DEF OwnedInv, OwnershipKept, CallsKept, Released
  <2> QED
    BY <2>2, <2>3 DEF OwnedInv
<1>2. CASE EscRoom
  BY <1>0, <1>2, CallsStay, OwnedUndisturbed DEF EscRoom, JoinsAtMost
<1>3. CASE HandleError
  <2>1. CASE commands' = commands \ {Failed} /\ UNCHANGED <<open, tables, excused>>
    <3>1. \A q \in Rooms : CallsKept(q)
      BY <1>0, <2>1, CallsStay
    <3> QED
      BY <1>3, <2>1, <3>1, OwnedUndisturbed DEF HandleError, JoinsAtMost
  <2>2. CASE /\ ~AtHome
             /\ Remove(open)
             /\ IF Failed \in commands THEN Becomes(Failed, Fetch) ELSE Start(Fetch)
             /\ excused' = excused \cup ({open} \cap Rooms)
    <3>1. open \in AllRooms
      BY <2>2, TypedParts DEF AtHome
    <3>2. \A q \in Rooms : CallsKept(q)
      BY <1>0, <2>2, CallsStay
    <3>3. \A q \in Rooms : (Owned(q)' <=> Owned(q)) /\ (Released(q)' <=> Released(q))
      BY <1>3 DEF HandleError, Owned, Released, registry
    <3> QED
      BY <2>2, <3>1, <3>2, <3>3, DeletionKeepsOwned
  <2> QED
    BY <1>3, <2>1, <2>2 DEF HandleError
<1>4. CASE Restart
  <2>1. OwnersAreCreators' /\ member' = member /\ registry' = registry
    BY <1>4 DEF Restart, OwnedInv, OwnersAreCreators, tables
  <2>2. ASSUME NEW q \in Rooms \ excused' PROVE InStep(q)'
    <3>1. q \notin excused /\ q \notin Unanswered
      BY <1>4, <2>2 DEF Restart
    <3>2. ASSUME NEW call \in {"sent", "refused"}, Creating(q, call) \in commands PROVE FALSE
      <4>1. /\ Creating(q, call).op = "create" /\ Creating(q, call).call # "insert"
            /\ Creating(q, call).room = q
        BY DEF Creating
      <4> QED
        BY <3>1, <3>2, <4>1 DEF Unanswered
    <3>3. ~Released(q)
      BY <3>1, RoomsAreRooms DEF Unanswered, Released
    <3>4. member[q] = "owner" <=> Owned(q)
      BY <3>1, <3>2, <3>3 DEF OwnedInv, InStep, Asked
    <3>5. ~Asked(q)' /\ ~Released(q)'
      BY <1>0, <1>4 DEF Restart, Asked, Idle, Released, NotReleasing
    <3> QED
      BY <2>1, <3>4, <3>5 DEF InStep, Owned, registry
  <2> QED
    BY <2>1, <2>2 DEF OwnedInv
<1>5. CASE UNCHANGED vars
  BY <1>5, OwnedUndisturbed DEF vars, JoinsAtMost, CallsKept
<1> QED
  BY <1>1, <1>2, <1>3, <1>4, <1>5

LEMMA StepKeepsOwned == ASSUME Typed, OwnedInv, [HomeNext]_vars PROVE OwnedInv'
  BY ListStepKeepsOwned, KeyKeepsOwned, PlainCommandKeepsOwned, CreationKeepsOwned,
     DeletionStepKeepsOwned, OtherStepKeepsOwned
  DEF HomeNext, Run, EnterPanics

LEMMA InitIsInStep == HomeInit => OwnedInv
<1> SUFFICES ASSUME HomeInit PROVE OwnedInv
  OBVIOUS
<1>1. OwnersAreCreators /\ \A r \in Rooms : member[r] # "owner"
  BY RoomsAreRooms DEF HomeInit, OwnersAreCreators
<1>2. \A r \in Rooms : ~Asked(r)
  BY DEF HomeInit, Asked, Creating, Fetch
<1>3. \A r \in Rooms : ~Released(r) /\ ~Owned(r)
  BY DEF HomeInit, Released, NotReleasing, Owned
<1> QED
  BY <1>1, <1>2, <1>3 DEF OwnedInv, InStep

\* A public room this user owns in the table is registered for this user and
\* the other way round, in whatever order creations, deletions, refusals,
\* joins, errors, restarts and other users come (createRoom, the confirmed
\* deletion); the exceptions are those of OwnedRoomsAreRegistered.
THEOREM OwnedAndRegistered == HomeSpec => []OwnedRoomsAreRegistered
<1>1. HomeInit => OwnedInv
  BY InitIsInStep
<1>2. Typed /\ OwnedInv /\ [HomeNext]_vars => OwnedInv'
  BY StepKeepsOwned
<1>3. OwnedInv => OwnedRoomsAreRegistered
  BY DEF OwnedInv, InStep, Asked, Released, OwnedRoomsAreRegistered, UnderWay
<1> QED
  BY <1>1, <1>2, <1>3, AlwaysTyped, PTL DEF HomeSpec

-----------------------------------------------------------------------------
(* The registry as the home screen knows it.                               *)

\* Whatever the home screen and the other users do, the names and rooms of
\* the registry change by steps of NameService only, the service that module
\* Registry implements: this user's requests are for this user's key, and a
\* screen, a table or a restart touches no row of the service
\* (RegisterPublicRoom, ReleasePublicRoom).
THEOREM HomeUsesService == HomeSpec => [][Next]_registry
<1>1. ASSUME Typed, [HomeNext]_vars, registry' # registry PROVE Next
  <2>1. \/ \E c \in commands : ServeCreate(c)
        \/ ServeDelete \/ OthersUseRegistry
    <3>1. \A c \in commands :
             /\ RoomsLoaded(c) \/ SearchRoomsLoaded(c) \/ EnterJoins(c) \/ EnterOpens(c) \/ JoinRoomByName(c)
                   \/ JoinRoomByID(c) \/ HandleOpenRoom(c) \/ InsertRoom(c) \/ Registered(c)
                   \/ NotRegistered(c) \/ RegistrationFails(c) => UNCHANGED registry
      BY DEF RoomsLoaded, SearchRoomsLoaded, EnterJoins, EnterOpens, JoinRoomByName, JoinRoomByID, HandleOpenRoom,
             InsertRoom, Registered, NotRegistered, RegistrationFails, Elsewhere
    <3>2. Keys => UNCHANGED registry
      BY DEF Keys, Move, PressS, EscSearch, EnterPinned, EnterSearch, Type, Paste, SubmitJoin,
             SubmitCreate, ConfirmDelete, Elsewhere
    <3>3. FetchRooms \/ Deleted \/ NotReleased \/ ReleaseFails \/ (\E r \in Rooms : RoomDiscovered(r))
             \/ EscRoom \/ HandleError \/ Restart \/ UNCHANGED vars => UNCHANGED registry
      BY DEF FetchRooms, Deleted, NotReleased, ReleaseFails, RoomDiscovered, EscRoom, HandleError,
             Restart, vars, Elsewhere
    <3> QED
      BY <1>1, <3>1, <3>2, <3>3 DEF HomeNext, Run, EnterPanics
  <2>2. ASSUME NEW c \in commands, ServeCreate(c) PROVE Next
    <3>1. c.room \in Rooms
      BY <1>1, <2>2, TypedParts DEF ServeCreate, CommandIsSound
    <3>2. OpenRoom(c.room, Me)
      BY <1>1, <2>2 DEF ServeCreate
    <3> QED
      BY <3>1, <3>2, RoomsAreRooms DEF Next
  <2>3. CASE ServeDelete
    <3>1. releasing.room \in Rooms
      BY <1>1, <2>3, TypedParts DEF ServeDelete, NotReleasing, Calls
    <3> QED
      BY <2>3, <3>1, RoomsAreRooms DEF ServeDelete, Next
  <2>4. CASE OthersUseRegistry
    BY <2>4 DEF OthersUseRegistry, Next
  <2> QED
    BY <2>1, <2>2, <2>3, <2>4
<1>2. Typed /\ [HomeNext]_vars => [Next]_registry
  BY <1>1
<1> QED
  BY <1>2, AlwaysTyped, PTL DEF HomeSpec

RoomsAreShared ==
    /\ IsFiniteSet(rooms)
    /\ \A p, q \in rooms : p.room = q.room => p = q
    /\ \A k \in Peers : Cardinality({q \in rooms : q.peer = k}) <= MaxActivePublicRooms

LEMMA ServiceKeepsRoomsShared ==
    ASSUME RoomsAreShared, [Next]_registry
    PROVE  RoomsAreShared'
<1>0. MaxActivePublicRooms \in Nat
  BY HomeAssumption
<1>1. ASSUME rooms' \subseteq rooms PROVE RoomsAreShared'
  <2>1. IsFiniteSet(rooms')
    BY <1>1, FS_Subset DEF RoomsAreShared
  <2>2. ASSUME NEW k \in Peers
        PROVE  Cardinality({q \in rooms' : q.peer = k}) <= MaxActivePublicRooms
    <3> DEFINE old == {q \in rooms : q.peer = k}
               new == {q \in rooms' : q.peer = k}
    <3>1. IsFiniteSet(old) /\ IsFiniteSet(new) /\ new \subseteq old
      BY <1>1, <2>1, FS_Subset DEF RoomsAreShared
    <3>2. Cardinality(old) <= MaxActivePublicRooms
      BY DEF RoomsAreShared
    <3> HIDE DEF old, new
    <3>3. Cardinality(new) <= Cardinality(old) /\ Cardinality(old) \in Nat /\ Cardinality(new) \in Nat
      BY <3>1, FS_Subset, FS_CardinalityType
    <3>4. Cardinality(new) <= MaxActivePublicRooms
      BY <1>0, <3>2, <3>3
    <3> QED
      BY <3>4 DEF new
  <2> QED
    BY <1>1, <2>1, <2>2 DEF RoomsAreShared
<1>2. ASSUME NEW r \in Rooms, NEW k \in Peers, OpenRoom(r, k) PROVE RoomsAreShared'
  <2> DEFINE row == [room |-> r, peer |-> k]
             held(p) == {q \in rooms : q.peer = p}
  <2>1. /\ rooms' = rooms \cup {row} /\ row \notin rooms /\ row.peer = k
        /\ Cardinality(held(k)) < MaxActivePublicRooms
    BY <1>2 DEF OpenRoom
  <2>2. IsFiniteSet(rooms') /\ \A p, q \in rooms' : p.room = q.room => p = q
    <3>1. IsFiniteSet(rooms')
      BY <2>1, FS_AddElement DEF RoomsAreShared
    <3>2. \A q \in rooms : q.room # row.room
      BY <1>2 DEF OpenRoom
    <3> HIDE DEF row
    <3> QED
      BY <2>1, <3>1, <3>2 DEF RoomsAreShared
  <2>3. ASSUME NEW p \in Peers
        PROVE  Cardinality({q \in rooms' : q.peer = p}) <= MaxActivePublicRooms
    <3>1. CASE p = k
      <4>1. {q \in rooms' : q.peer = p} = held(k) \cup {row} /\ row \notin held(k)
        BY <2>1, <3>1
      <4>2. IsFiniteSet(held(k))
        BY FS_Subset DEF RoomsAreShared
      <4> HIDE DEF held, row
      <4>3. Cardinality(held(k) \cup {row}) = Cardinality(held(k)) + 1 /\ Cardinality(held(k)) \in Nat
        BY <4>1, <4>2, FS_AddElement, FS_CardinalityType
      <4>4. Cardinality(held(k) \cup {row}) <= MaxActivePublicRooms
        BY <1>0, <2>1, <4>3
      <4> QED
        BY <4>1, <4>4
    <3>2. CASE p # k
      <4>1. {q \in rooms' : q.peer = p} = held(p)
        BY <2>1, <3>2
      <4>2. Cardinality(held(p)) <= MaxActivePublicRooms
        BY DEF RoomsAreShared
      <4> QED
        BY <4>1, <4>2
    <3> QED
      BY <3>1, <3>2
  <2> QED
    BY <2>2, <2>3 DEF RoomsAreShared
<1> QED
  BY <1>1, <1>2 DEF Next, Grant, Withdraw, CloseRoom, registry

\* The public rooms the device's own table says are the user's, but for those
\* OwnedRoomsAreRegistered excuses.
OwnPublicRooms == {r \in Rooms \ excused : ~UnderWay(r) /\ member[r] = "owner"}

\* A room has one owner at the registry, and the device shows its user as the
\* owner of no more public rooms than the registry allows him, although
\* createRoom inserts a room before the registry has seen it and nothing on
\* the device counts public rooms.
THEOREM OwnRoomsWithinCap ==
    HomeSpec => [](RoomsAreShared /\ Cardinality(OwnPublicRooms) <= MaxActivePublicRooms)
<1>0. MaxActivePublicRooms \in Nat
  BY HomeAssumption
<1>1. HomeInit => RoomsAreShared
  <2> SUFFICES ASSUME HomeInit PROVE RoomsAreShared
    OBVIOUS
  <2>1. rooms = {} /\ \A k \in Peers : {q \in rooms : q.peer = k} = {}
    BY DEF HomeInit
  <2> QED
    BY <1>0, <2>1, FS_EmptySet DEF RoomsAreShared
<1>2. RoomsAreShared /\ OwnedRoomsAreRegistered => Cardinality(OwnPublicRooms) <= MaxActivePublicRooms
  <2> SUFFICES ASSUME RoomsAreShared, OwnedRoomsAreRegistered
               PROVE  Cardinality(OwnPublicRooms) <= MaxActivePublicRooms
    OBVIOUS
  <2> DEFINE held == {q \in rooms : q.peer = Me}
             row == [r \in OwnPublicRooms |-> [room |-> r, peer |-> Me]]
  <2>1. row \in Injection(OwnPublicRooms, held)
    <3>1. \A r \in OwnPublicRooms : [room |-> r, peer |-> Me] \in held
      BY DEF OwnPublicRooms, OwnedRoomsAreRegistered, Owned
    <3>2. \A r, q \in OwnPublicRooms : row[r] = row[q] => r = q
      OBVIOUS
    <3> HIDE DEF held
    <3>3. row \in [OwnPublicRooms -> held]
      BY <3>1
    <3> HIDE DEF row
    <3> QED
      BY <3>2, <3>3 DEF Injection, IsInjective
  <2>2. IsFiniteSet(held) /\ Cardinality(held) <= MaxActivePublicRooms
    BY RoomsAreRooms, FS_Subset DEF RoomsAreShared
  <2> HIDE DEF held, row
  <2>3. /\ IsFiniteSet(OwnPublicRooms) /\ Cardinality(OwnPublicRooms) <= Cardinality(held)
    BY <2>1, <2>2, FS_Injection
  <2>4. Cardinality(held) \in Nat /\ Cardinality(OwnPublicRooms) \in Nat
    BY <2>2, <2>3, FS_CardinalityType
  <2> QED
    BY <1>0, <2>2, <2>3, <2>4
<1>3. RoomsAreShared /\ [Next]_registry => RoomsAreShared'
  BY ServiceKeepsRoomsShared
<1>4. HomeSpec => HomeInit
  BY DEF HomeSpec
<1> QED
  BY <1>1, <1>2, <1>3, <1>4, HomeUsesService, OwnedAndRegistered, PTL
=============================================================================
