---------------------------- MODULE MCHomeScreen ----------------------------
(* A small instance of HomeScreen for the model checker: a public and a     *)
(* private room, and the queries that the name of the public one answers.   *)
EXTENDS HomeScreen

CONSTANTS me, other, u1, u2, first, second,
          q, shouted,    \* a part of the public room's name, and the same in capitals
          wildcard       \* a query with a % or _, which the registry alone finds

MCNameOf == [k \in {me, other} |-> IF k = me THEN u1 ELSE u2]
MCByName == <<first, second>>
MCFold == [query \in Queries \cup {NoQuery} |-> IF query = shouted THEN q ELSE query]
MCMatching == [query \in Queries |-> IF query = wildcard THEN {} ELSE {first}]
MCLike == [query \in Queries |-> {first}]

(* A state with these rooms and queries and no more commands than most.    *)
Within(someRooms, someQueries, most) ==
    /\ \A r \in AllRooms \ someRooms : creator[r] = "nobody"
    /\ \A c \in commands : "room" \in DOMAIN c => c.room \in someRooms
    /\ RoomsIn(home.discovered) \cup RoomsIn({home.list[n] : n \in DOMAIN home.list}) \subseteq someRooms
    /\ home.query \in someQueries \cup {NoQuery}
    /\ Cardinality(commands) <= most

(* What the runs explore: commands that overlap around the public room,    *)
(* with all queries, and lists of two rooms, one command at a time.        *)
OverlapsOrLists ==
    \/ Within({first}, Queries, MaxCommands)
    \/ Within(AllRooms, {q}, 1)
=============================================================================
