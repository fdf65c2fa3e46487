---------------------------- MODULE NameService -----------------------------
(***************************************************************************)
(* What the registry promises: names and public rooms with one owner each, *)
(* given out and taken back one at a time.  Module Registry implements it  *)
(* (src/cmd/registry/main.go; see ImplementsService of module              *)
(* RegistryRefinement); module ProfileLifecycle relies on it.              *)
(***************************************************************************)
EXTENDS Naturals, FiniteSets

CONSTANTS Peers, Usernames, Rooms, MaxActivePublicRooms

VARIABLES
    names,   \* who holds which name
    rooms    \* who owns which public room

HasName(peer) == \E n \in names : n.peer = peer

Grant(username, peer) ==
    /\ \A n \in names : n.username # username /\ n.peer # peer
    /\ names' = names \cup {[username |-> username, peer |-> peer]}
    /\ UNCHANGED rooms

(* A release gives back the name if it is the key's own, and the rooms of  *)
(* the key in any case.                                                    *)
Withdraw(username, peer) ==
    /\ names' = names \ {[username |-> username, peer |-> peer]}
    /\ rooms' = {q \in rooms : q.peer # peer}

OpenRoom(room, peer) ==
    /\ HasName(peer)
    /\ \A q \in rooms : q.room # room
    /\ Cardinality({q \in rooms : q.peer = peer}) < MaxActivePublicRooms
    /\ rooms' = rooms \cup {[room |-> room, peer |-> peer]}
    /\ UNCHANGED names

CloseRoom(room, peer) ==
    /\ rooms' = rooms \ {[room |-> room, peer |-> peer]}
    /\ UNCHANGED names

Init == names = {} /\ rooms = {}

Next ==
    \E k \in Peers :
        \/ \E u \in Usernames : Grant(u, k) \/ Withdraw(u, k)
        \/ \E q \in Rooms : OpenRoom(q, k) \/ CloseRoom(q, k)

Spec == Init /\ [][Next]_<<names, rooms>>
=============================================================================
