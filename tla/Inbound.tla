------------------------------ MODULE Inbound -------------------------------
(***************************************************************************)
(* What decides whether a chat message is shown, an announcement believed  *)
(* and an own room announced: the burst limits of Room.Listen              *)
(* (network.p2p.pubsub.service.internal.go), the questions to the registry *)
(* and the cache of its answers (network.registry/registry.service.go),    *)
(* the publisher and the listener of network.discovery.                    *)
(*                                                                         *)
(* A fact is what a validation asks about: that a username is bound to the *)
(* key of an author, or that a room is registered for a key.  Facts change *)
(* while a question about them is under way, and the answer is cached when *)
(* it arrives, not when it was given.                                      *)
(*                                                                         *)
(* The checks that need no state come before or after these (size, key of  *)
(* a private room, sender, room, form of the username; timestamp): what    *)
(* they drop is no step, or was accepted here.  What an accepted message   *)
(* or announcement does to the tables is in MessageStore and RoomMetadata. *)
(***************************************************************************)
EXTENDS Integers, FiniteSets

CONSTANTS
    Authors,         \* devices of other users
    Me,
    AuthorLimit,     \* inboundMessageBurstLimit
    RoomLimit,       \* inboundRoomBurstLimit
    Window,          \* inboundMessageBurstWindow
    HitTTL,          \* publicRoomCacheTTL
    MissTTL,         \* publicRoomMissTTL
    RequestTimeout,  \* requestTimeout
    PublishWait,     \* the time-out of PublishRoomSync
    Steady,          \* bound of the model: authors whose names never change hands
    MaxLate,         \* bound on abandoned calls of a kind
    MaxClock         \* bound on the clock

ASSUME InboundAssumption ==
    /\ Me \notin Authors /\ Steady \subseteq Authors /\ IsFiniteSet(Authors)
    /\ {AuthorLimit, RoomLimit, Window, HitTTL, MissTTL, RequestTimeout, PublishWait, MaxLate,
        MaxClock} \subseteq Nat
    /\ AuthorLimit < RoomLimit /\ 0 < Window /\ 0 < MissTTL /\ MissTTL <= HitTTL

Name(author) == [kind |-> "name", of |-> author]
RoomOf(peer) == [kind |-> "room", of |-> peer]
Facts == {Name(a) : a \in Authors} \cup {RoomOf(p) : p \in Authors \cup {Me}}

(* The listener has a client, and so a cache, of its own; the others share *)
(* the program's.                                                          *)
Publishers == {"ticker", "broadcast"}
Ops == {"register", "release"}
Askers == {"listener", "discovery"} \cup Publishers

NoFact == [kind |-> "none", of |-> Me]
Idle == [fact |-> NoFact, since |-> 0, answer |-> "none"]
NoEntry == [allowed |-> FALSE, until |-> 0]
NoCall == [op |-> "none", since |-> 0, answer |-> "none"]
NoneLate == [op \in Ops |-> 0]
NotAllowed == [on |-> FALSE, since |-> 0]
Nothing == [fact |-> NoFact, result |-> "none"]

VARIABLES
    watched,     \* the facts that matter in this behaviour: the names, or one room
    now,
    held,        \* the facts the registry would confirm
    changed,     \* when a fact last became true or false (history)
    cache,       \* profileCache and publicRoomCache
    asking,      \* validations under way
    call,        \* RegisterPublicRoom or ReleasePublicRoom under way
    late,        \* those the program gave up on and the registry may still serve
    own,         \* which of them returned last; "open" while one is under way or
                 \* if it found something under way, "overtaken" if one was
                 \* still late when it began (history)
    granted,     \* publishers whose room was accepted, waiting for peers
    authorTimes, \* authorLimiter.entries
    roomTimes,   \* roomLimiter.entries of this room
    outcome      \* what the last step did with a message or a room

limits == <<authorTimes, roomTimes>>
world == <<watched, now, held, changed>>
calls == <<call, late, own>>
vars == <<world, cache, asking, calls, granted, limits, outcome>>

Init ==
    /\ watched \in {{Name(a) : a \in Authors}} \cup {{RoomOf(p)} : p \in Authors \cup {Me}}
    /\ now = 0
    /\ held = {Name(a) : a \in Steady} \cap watched
    /\ changed = [f \in watched |-> 0]
    /\ cache = [f \in watched |-> NoEntry]
    /\ asking = [a \in Askers |-> Idle]
    /\ call = NoCall /\ late = NoneLate /\ own = "open"
    /\ granted = [p \in Publishers |-> NotAllowed]
    /\ authorTimes = [a \in Authors |-> {}] /\ roomTimes = {}
    /\ outcome = Nothing
-----------------------------------------------------------------------------
(* Clock and registry.                                                     *)

WaitsForPeers(p) == FALSE                                 \* mutant: no time-out
MustPublish(p) == granted[p].on /\ now >= granted[p].since + PublishWait

(* Nothing waits for the registry longer than requestTimeout, nor for      *)
(* peers longer than PublishRoomSync does.                                 *)
Tick ==
    /\ now < MaxClock
    /\ \A a \in Askers : asking[a] # Idle => now < asking[a].since + RequestTimeout
    /\ call.op # "none" => now < call.since + RequestTimeout
    /\ \A p \in Publishers : ~MustPublish(p)
    /\ now' = now + 1
    /\ outcome' = Nothing
    /\ UNCHANGED <<watched, held, changed, cache, asking, calls, granted, limits>>

Turn(f) ==
    /\ held' = IF f \in held THEN held \ {f} ELSE held \cup {f}
    /\ changed' = [changed EXCEPT ![f] = now]

(* Other users register and release their names and rooms.                 *)
OthersUseRegistry(f) ==
    /\ f # RoomOf(Me) /\ f.of \notin Steady
    /\ Turn(f)
    /\ outcome' = Nothing
    /\ UNCHANGED <<watched, now, cache, asking, calls, granted, limits>>

Serve(a) ==
    /\ asking[a] # Idle /\ asking[a].answer = "open"
    /\ asking' = [asking EXCEPT ![a].answer = IF asking[a].fact \in held THEN "yes" ELSE "no"]
    /\ outcome' = Nothing
    /\ UNCHANGED <<world, cache, calls, granted, limits>>
-----------------------------------------------------------------------------
(* Client: the cache of answers.                                           *)

FreshForEver(entry) == entry # NoEntry                             \* mutant
Fresh(entry) == entry # NoEntry /\ now <= entry.until

Entry(allowed) == [allowed |-> allowed, until |-> now + IF allowed THEN HitTTL ELSE MissTTL]

Verdict(f, allowed) == [fact |-> f, result |-> IF allowed THEN "accepted" ELSE "refused"]

(* A publisher whose room is accepted goes on to wait for peers.           *)
Permit(a, allowed) ==
    granted' = IF a \in Publishers /\ allowed
               THEN [granted EXCEPT ![a] = [on |-> TRUE, since |-> now]] ELSE granted

(* ValidateProfile and ValidatePublicRoom.                                 *)
Validate(a, f) ==
    \/ /\ Fresh(cache[f])
       /\ outcome' = Verdict(f, cache[f].allowed)
       /\ Permit(a, cache[f].allowed)
       /\ UNCHANGED <<cache, asking>>
    \/ /\ ~Fresh(cache[f])
       /\ cache' = [cache EXCEPT ![f] = NoEntry]
       /\ asking' = [asking EXCEPT ![a] = [fact |-> f, since |-> now, answer |-> "open"]]
       /\ outcome' = Nothing
       /\ UNCHANGED granted

Answered(a) ==
    LET f == asking[a].fact
        allowed == asking[a].answer = "yes"
    IN
    /\ asking[a].answer \in {"yes", "no"}
    /\ cache' = [cache EXCEPT ![f] = Entry(allowed)]
    /\ asking' = [asking EXCEPT ![a] = Idle]
    /\ outcome' = Verdict(f, allowed)
    /\ Permit(a, allowed)
    /\ UNCHANGED <<world, calls, limits>>

(* An error is not cached; the message, announcement or room is dropped.   *)
NotAnswered(a) ==
    /\ asking[a] # Idle
    /\ asking' = [asking EXCEPT ![a] = Idle]
    /\ outcome' = [fact |-> asking[a].fact, result |-> "dropped"]
    /\ UNCHANGED <<world, cache, calls, granted, limits>>

(* The program registers and releases its own room, one call at a time.    *)
(* The step is the request after the challenge.                            *)
Call(op) ==
    /\ RoomOf(Me) \in watched /\ call = NoCall
    /\ late[op] < MaxLate   \* bound of the model: the call may have to be abandoned
    /\ call' = [op |-> op, since |-> now, answer |-> "open"]
    /\ own' = IF late = NoneLate THEN "open" ELSE "overtaken"
    /\ outcome' = Nothing
    /\ UNCHANGED <<world, cache, asking, late, granted, limits>>

(* What the registry does with a request: a room that is registered        *)
(* already is confirmed, one that is not cannot be released and may be     *)
(* refused.                                                                *)
Takes(op, answer) ==
    LET f == RoomOf(Me) IN
    \/ (op = "register") = (f \notin held) /\ answer = "done" /\ Turn(f)
    \/ op = "register" /\ f \in held /\ answer = "done" /\ UNCHANGED <<held, changed>>
    \/ f \notin held /\ answer = "refused" /\ UNCHANGED <<held, changed>>

ServeCall ==
    /\ call.answer = "open"
    /\ \E answer \in {"done", "refused"} :
          Takes(call.op, answer) /\ call' = [call EXCEPT !.answer = answer]
    /\ outcome' = Nothing
    /\ UNCHANGED <<watched, now, cache, asking, late, own, granted, limits>>

UnderWay == (\E a \in Askers : asking[a] # Idle) \/ (\E p \in Publishers : granted[p].on)

CallReturnsUncached ==   \* mutant: the release leaves the entry
    /\ call.answer = "done"
    /\ cache' = IF call.op = "register" THEN [cache EXCEPT ![RoomOf(Me)] = Entry(TRUE)] ELSE cache
    /\ own' = IF own = "open" /\ ~UnderWay THEN call.op ELSE own
    /\ call' = NoCall
    /\ outcome' = Nothing
    /\ UNCHANGED <<world, asking, late, granted, limits>>

CallReturns ==
    /\ call.answer = "done"
    /\ cache' = [cache EXCEPT ![RoomOf(Me)] = IF call.op = "register" THEN Entry(TRUE) ELSE NoEntry]
    /\ own' = IF own = "open" /\ ~UnderWay THEN call.op ELSE own
    /\ call' = NoCall
    /\ outcome' = Nothing
    /\ UNCHANGED <<world, asking, late, granted, limits>>

(* An error, of the answer or of the connection: a request without answer  *)
(* may still reach the registry.                                           *)
CallFails ==
    /\ call # NoCall
    /\ late' = IF call.answer = "open" THEN [late EXCEPT ![call.op] = @ + 1] ELSE late
    /\ call' = NoCall
    /\ outcome' = Nothing
    /\ UNCHANGED <<world, cache, asking, own, granted, limits>>

LateCall(op) ==
    /\ late[op] > 0
    /\ late' = [late EXCEPT ![op] = @ - 1]
    /\ \/ \E answer \in {"done", "refused"} : Takes(op, answer)
       \/ UNCHANGED <<held, changed>>   \* it is lost
    /\ outcome' = Nothing
    /\ UNCHANGED <<watched, now, cache, asking, call, own, granted, limits>>
-----------------------------------------------------------------------------
(* Burst limits.                                                           *)

(* The limiters remember times.  An author and a number tell the messages  *)
(* of one tick apart; what the code decides depends on the times alone.    *)
Recent(places) == {e \in places : e.at + Window > now}

RoomIsFull == Cardinality(Recent(roomTimes)) >= RoomLimit
AuthorIsFull(a) == Cardinality(Recent(authorTimes[a])) >= AuthorLimit

Place(a, places) ==
    [at |-> now, from |-> a, nth |-> Cardinality({e \in places : e.at = now})]

(* A message that the room's limit drops has used up a place of its author *)
(* all the same.                                                           *)
RoomFirst(a) ==   \* mutant: the two limits the other way round
    /\ roomTimes' = IF RoomIsFull THEN roomTimes
                    ELSE Recent(roomTimes) \cup {Place(a, roomTimes)}
    /\ authorTimes' = IF RoomIsFull \/ AuthorIsFull(a) THEN authorTimes
                      ELSE [authorTimes EXCEPT ![a] = Recent(@) \cup {Place(a, @)}]

TakePlaces(a) ==
    /\ authorTimes' = IF AuthorIsFull(a) THEN authorTimes
                      ELSE [authorTimes EXCEPT ![a] = Recent(@) \cup {Place(a, @)}]
    /\ roomTimes' = IF AuthorIsFull(a) \/ RoomIsFull THEN roomTimes
                    ELSE Recent(roomTimes) \cup {Place(a, authorTimes[a])}

(* Room.Listen takes one message at a time and waits for the registry.     *)
MessageArrives(a) ==
    /\ Name(a) \in watched /\ asking["listener"] = Idle
    /\ TakePlaces(a)
    /\ \/ /\ AuthorIsFull(a)
          /\ outcome' = [fact |-> Name(a), result |-> "author_full"]
          /\ UNCHANGED <<cache, asking, granted>>
       \/ /\ ~AuthorIsFull(a) /\ RoomIsFull
          /\ outcome' = [fact |-> Name(a), result |-> "room_full"]
          /\ UNCHANGED <<cache, asking, granted>>
       \/ /\ ~AuthorIsFull(a) /\ ~RoomIsFull
          /\ Validate("listener", Name(a))
    /\ UNCHANGED <<world, calls>>

(* The room is left and opened again: a new Listen with a new client.      *)
Resubscribe ==
    /\ \E a \in Authors : Name(a) \in watched
    /\ asking' = [asking EXCEPT !["listener"] = Idle]
    /\ cache' = [f \in watched |-> NoEntry]
    /\ authorTimes' = [a \in Authors |-> {}] /\ roomTimes' = {}
    /\ outcome' = Nothing
    /\ UNCHANGED <<world, calls, granted>>
-----------------------------------------------------------------------------
(* Discovery.                                                              *)

(* The listener skips what its own node publishes, not an announcement of  *)
(* its own room that another peer repeats.                                 *)
AnnouncementArrives(p) ==
    /\ RoomOf(p) \in watched /\ asking["discovery"] = Idle
    /\ Validate("discovery", RoomOf(p))
    /\ UNCHANGED <<world, calls, limits>>

(* PublishRoomSync asks, waits for peers and publishes without asking      *)
(* again; the ticker and a room that is created, opened or edited run it   *)
(* side by side.                                                           *)
Publish(p) ==
    /\ RoomOf(Me) \in watched /\ asking[p] = Idle /\ ~granted[p].on
    /\ Validate(p, RoomOf(Me))
    /\ UNCHANGED <<world, calls, limits>>

Publishes(p, result) ==
    /\ granted[p].on
    /\ granted' = [granted EXCEPT ![p] = NotAllowed]
    /\ outcome' = [fact |-> RoomOf(Me), result |-> result]
    /\ UNCHANGED <<world, cache, asking, calls, limits>>

Announce(p) == Publishes(p, "published")   \* a peer is there, or the time is over
GiveUp(p) == Publishes(p, "dropped")       \* the context is done, or Publish fails
-----------------------------------------------------------------------------
Next ==
    \/ Tick
    \/ \E f \in watched : OthersUseRegistry(f)
    \/ \E a \in Askers : Serve(a) \/ Answered(a) \/ NotAnswered(a)
    \/ \E op \in Ops : Call(op) \/ LateCall(op)
    \/ ServeCall \/ CallReturns \/ CallFails
    \/ \E a \in Authors : MessageArrives(a)
    \/ \E p \in Authors \cup {Me} : AnnouncementArrives(p)
    \/ Resubscribe
    \/ \E p \in Publishers : Publish(p) \/ Announce(p) \/ GiveUp(p)

Spec == Init /\ [][Next]_vars
-----------------------------------------------------------------------------
WithinLast(d, f) == changed[f] + d >= now

(* Nothing is accepted on the strength of an answer older than the cache   *)
(* keeps it: whoever is accepted was registered at some time of the last   *)
(* HitTTL and RequestTimeout, whoever is refused was not at some time of   *)
(* the last MissTTL and RequestTimeout, in whatever order questions,       *)
(* answers, releases and the program's own calls follow each other         *)
(* (cachedValidation, cachedProfileValidation, cacheValidation).           *)
AnswersAreRecent ==
    LET f == outcome.fact IN
    /\ outcome.result = "accepted" => f \in held \/ WithinLast(HitTTL + RequestTimeout, f)
    /\ outcome.result = "refused" => f \notin held \/ WithinLast(MissTTL + RequestTimeout, f)

(* When RegisterPublicRoom has returned, the room is not refused any more, *)
(* and when ReleasePublicRoom has returned, it is not accepted and not     *)
(* announced any more, for as long as the program makes no other call.     *)
(* This is all the code gives, and only if nothing was under way: an       *)
(* answer given before the call was served may be cached after it, a       *)
(* publisher that waits for peers does not ask again, and a call that was  *)
(* given up may be served after this one (PublishRoomSync, cacheValidation, *)
(* invalidateValidation).                                                  *)
PublisherFollowsOwnCalls ==
    /\ own = "register" => outcome.result # "refused"
    /\ own = "release" => outcome.result \notin {"accepted", "published"}

(* Whatever was under way, a room is not announced for long after it was   *)
(* released: a publisher follows an answer that was given, cached and      *)
(* waited upon, and each of the three has an end (PublishRoomSync).        *)
AnnouncedIsRecent ==
    outcome.result = "published" =>
        \/ RoomOf(Me) \in held
        \/ WithinLast(HitTTL + RequestTimeout + PublishWait, RoomOf(Me))

(* One author cannot use up the room's limit: when it drops a message, two *)
(* authors have written within the window, the dropped message not counted *)
(* (authorLimiter before roomLimiter in Listen).                           *)
Earlier(a) == Cardinality(Recent(authorTimes[a])) - IF outcome.fact = Name(a) THEN 1 ELSE 0

OneAuthorCannotFillTheRoom ==
    outcome.result = "room_full" => Cardinality({a \in Authors : Earlier(a) > 0}) >= 2
=============================================================================
