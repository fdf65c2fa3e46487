----------------------------- MODULE InboundProofs -----------------------------
(***************************************************************************)
(* What Inbound guarantees for any number of authors, any lives of the     *)
(* cache and any length of a request.  An answer is dated by three clocks: *)
(* when its fact last changed, when the question was asked, and when its   *)
(* cache entry expires.  The inductive invariant orders them: an answer    *)
(* that is wrong by now was overtaken by a change no earlier than the      *)
(* question, the question is no older than requestTimeout, and an entry    *)
(* lives no longer than its TTL.                                           *)
(***************************************************************************)
EXTENDS Inbound, FiniteSetTheorems, TLAPS

Questions == [fact: Facts \cup {NoFact}, since: Nat, answer: {"none", "open", "yes", "no"}]
Entries == [allowed: BOOLEAN, until: Nat]
Calls == [op: {"none", "register", "release"}, since: Nat,
          answer: {"none", "open", "done", "refused"}]

Permissions == [on: BOOLEAN, since: Nat]

TypeOK ==
    /\ watched \subseteq Facts
    /\ RoomOf(Me) \in watched => watched = {RoomOf(Me)}
    /\ now \in Nat
    /\ held \subseteq watched
    /\ changed \in [watched -> Nat]
    /\ cache \in [watched -> Entries]
    /\ asking \in [Askers -> Questions]
    /\ call \in Calls
    /\ late \in [Ops -> Nat]
    /\ own \in {"open", "overtaken"} \cup Ops
    /\ granted \in [Publishers -> Permissions]

\* A question is about a watched fact, a publisher's about its room, and no older than a request.
\* If its answer is wrong by now, the fact has changed since it was asked.
QuestionIsSound(a) ==
    asking[a] # Idle =>
        /\ asking[a].fact \in watched
        /\ a \in Publishers => asking[a].fact = RoomOf(Me)
        /\ asking[a].since <= now /\ now <= asking[a].since + RequestTimeout
        /\ asking[a].answer = "yes" =>
              asking[a].fact \in held \/ changed[asking[a].fact] >= asking[a].since
        /\ asking[a].answer = "no" =>
              asking[a].fact \notin held \/ changed[asking[a].fact] >= asking[a].since

\* An entry dies in time; if it is wrong by now, the fact changed late enough.
EntryIsSound(f) ==
    cache[f] # NoEntry =>
        /\ cache[f].allowed =>
              /\ cache[f].until <= now + HitTTL
              /\ f \in held \/ changed[f] + HitTTL + RequestTimeout >= cache[f].until
        /\ ~cache[f].allowed =>
              /\ cache[f].until <= now + MissTTL
              /\ f \notin held \/ changed[f] + MissTTL + RequestTimeout >= cache[f].until

\* A publisher waits no longer than it may, on an answer as old as an entry at most.
PermissionIsSound(p) ==
    granted[p].on =>
        /\ RoomOf(Me) \in watched
        /\ granted[p].since <= now /\ now <= granted[p].since + PublishWait
        /\ \/ RoomOf(Me) \in held
           \/ changed[RoomOf(Me)] + HitTTL + RequestTimeout >= granted[p].since

\* What the registry has done for the program's own call is still so, unless
\* an abandoned call was late when it began.
CallIsSound ==
    /\ call # NoCall \/ late # NoneLate => RoomOf(Me) \in watched
    /\ call # NoCall =>
          /\ call.op \in Ops
          /\ call.since <= now /\ now <= call.since + RequestTimeout
          /\ call.op = "register" /\ call.answer = "done" =>
                RoomOf(Me) \in held \/ changed[RoomOf(Me)] >= call.since
          /\ own = "overtaken" \/ (own = "open" /\ late = NoneLate)
          /\ own = "open" /\ call.answer = "done" => (call.op = "register" <=> RoomOf(Me) \in held)

\* After an own call that overlapped nothing, cache, questions and publishers agree with it.
OwnIsSound ==
    own \in Ops =>
        /\ RoomOf(Me) \in watched
        /\ call = NoCall /\ late = NoneLate
        /\ own = "register" <=> RoomOf(Me) \in held
        /\ cache[RoomOf(Me)] # NoEntry => (cache[RoomOf(Me)].allowed <=> own = "register")
        /\ \A a \in Askers :
              /\ asking[a].answer = "yes" => own = "register"
              /\ asking[a].answer = "no" => own = "release"
        /\ own = "release" => \A p \in Publishers : ~granted[p].on

QuestionsAreSound == \A a \in Askers : QuestionIsSound(a)
EntriesAreSound == \A f \in watched : EntryIsSound(f)
PermissionsAreSound == \A p \in Publishers : PermissionIsSound(p)

Base ==
    /\ TypeOK
    /\ QuestionsAreSound /\ EntriesAreSound /\ PermissionsAreSound
    /\ CallIsSound /\ OwnIsSound

IInv == Base /\ AnswersAreRecent /\ PublisherFollowsOwnCalls /\ AnnouncedIsRecent
-----------------------------------------------------------------------------
\* The lives of entries and requests are natural numbers, and a miss is cached for a while.
LEMMA Lives ==
    /\ HitTTL \in Nat /\ MissTTL \in Nat /\ RequestTimeout \in Nat
    /\ PublishWait \in Nat /\ 0 < MissTTL /\ Me \notin Authors
  BY InboundAssumption

\* Names, own rooms and the rooms of others are different facts.
LEMMA FactsDiffer ==
    /\ \A x : Name(x).kind = "name" /\ RoomOf(x).kind = "room" /\ RoomOf(x).of = x
    /\ \A f \in Facts : f # NoFact
  BY DEF Name, RoomOf, Facts, NoFact

\* A step that decides nothing has an outcome nobody objects to.
LEMMA NothingIsRight ==
    ASSUME Base', outcome'.result \notin {"accepted", "refused", "published"}
    PROVE  IInv'
  BY DEF IInv, AnswersAreRecent, PublisherFollowsOwnCalls, AnnouncedIsRecent

\* A validation that ends has published nothing.
LEMMA VerdictPublishesNothing ==
    ASSUME NEW f, NEW allowed, outcome' = Verdict(f, allowed) PROVE AnnouncedIsRecent'
  BY DEF Verdict, AnnouncedIsRecent

LEMMA NothingDecided == Nothing.result = "none"
  BY DEF Nothing

LEMMA InitEstablishes == Init => IInv
<1> SUFFICES ASSUME Init PROVE IInv
  OBVIOUS
<1>1. watched \subseteq Facts /\ (RoomOf(Me) \in watched => watched = {RoomOf(Me)})
  <2>1. CASE watched \in {{Name(a) : a \in Authors}}
    BY <2>1, FactsDiffer DEF Facts
  <2>2. CASE watched \in {{RoomOf(p)} : p \in Authors \cup {Me}}
    BY <2>2, FactsDiffer DEF Facts
  <2>3. QED
    BY <2>1, <2>2 DEF Init
<1>2. Idle \in Questions /\ NoEntry \in Entries /\ NoCall \in Calls
  BY DEF Idle, Questions, NoEntry, Entries, NoCall, Calls
<1>7. NotAllowed \in Permissions /\ ~NotAllowed.on /\ NoneLate \in [Ops -> Nat]
  BY DEF NotAllowed, Permissions, NoneLate
<1>3. TypeOK
  BY <1>1, <1>2, <1>7 DEF Init, TypeOK
<1>4. /\ QuestionsAreSound /\ EntriesAreSound /\ PermissionsAreSound
      /\ CallIsSound /\ OwnIsSound
  BY <1>7 DEF Init, QuestionsAreSound, QuestionIsSound, EntriesAreSound, EntryIsSound, CallIsSound,
         OwnIsSound, PermissionsAreSound, PermissionIsSound, Ops
<1>5. outcome = Nothing
  BY DEF Init
<1>6. QED
  BY <1>3, <1>4, <1>5, NothingDecided
  DEF Base, IInv, AnswersAreRecent, PublisherFollowsOwnCalls, AnnouncedIsRecent
-----------------------------------------------------------------------------
LEMMA TickKeeps == ASSUME IInv, Tick PROVE IInv'
<1>1. /\ now' = now + 1 /\ now \in Nat /\ outcome' = Nothing
      /\ UNCHANGED <<watched, held, changed, cache, asking, call, late, own, granted>>
  BY DEF Tick, calls, IInv, Base, TypeOK
<1>2. TypeOK'
  BY <1>1 DEF IInv, Base, TypeOK
<1>3. ASSUME NEW a \in Askers PROVE QuestionIsSound(a)'
  <2>1. asking[a] # Idle => now + 1 <= asking[a].since + RequestTimeout
    BY <1>1, Lives DEF Tick, IInv, Base, TypeOK, Questions
  <2>2. asking[a].since \in Nat
    BY DEF IInv, Base, TypeOK, Questions
  <2>3. QED
    BY <1>1, <2>1, <2>2 DEF IInv, Base, QuestionsAreSound, QuestionIsSound
<1>4. ASSUME NEW f \in watched PROVE EntryIsSound(f)'
  <2>1. cache[f].until \in Nat
    BY DEF IInv, Base, TypeOK, Entries
  <2>2. QED
    BY <1>1, <2>1, Lives DEF IInv, Base, EntriesAreSound, EntryIsSound
<1>7. ASSUME NEW p \in Publishers PROVE PermissionIsSound(p)'
  <2>1. granted[p].since \in Nat
    BY DEF IInv, Base, TypeOK, Permissions
  <2>2. granted[p].on => now + 1 <= granted[p].since + PublishWait
    BY <1>1, <2>1, Lives DEF Tick, MustPublish
  <2>3. QED
    BY <1>1, <2>1, <2>2, Lives DEF IInv, Base, PermissionsAreSound, PermissionIsSound
<1>8. CallIsSound' /\ OwnIsSound'
  <2>1. call.since \in Nat
    BY DEF IInv, Base, TypeOK, Calls
  <2>2. call # NoCall => call.op # "none"
    BY DEF IInv, Base, CallIsSound, Ops
  <2>3. call # NoCall => now + 1 <= call.since + RequestTimeout
    BY <1>1, <2>1, <2>2, Lives DEF Tick
  <2>4. QED
    BY <1>1, <2>1, <2>3 DEF IInv, Base, CallIsSound, OwnIsSound
<1>5. Base'
  BY <1>1, <1>2, <1>3, <1>4, <1>7, <1>8
  DEF IInv, Base, QuestionsAreSound, EntriesAreSound, PermissionsAreSound
<1>6. QED
  BY <1>1, <1>5, NothingIsRight, NothingDecided

\* A fact that changes now makes no question and no entry unsound.
LEMMA TurnKeepsDates ==
    ASSUME Base, NEW f \in watched, Turn(f),
           UNCHANGED <<watched, now, cache, asking, granted>>
    PROVE  /\ held' \subseteq watched /\ changed' \in [watched -> Nat]
           /\ QuestionsAreSound' /\ EntriesAreSound' /\ PermissionsAreSound'
           /\ \A g \in watched : g # f => (g \in held' <=> g \in held)
           /\ f \in held' <=> f \notin held
<1>1. /\ now \in Nat /\ changed \in [watched -> Nat] /\ held \subseteq watched
      /\ changed' = [changed EXCEPT ![f] = now]
      /\ held' = IF f \in held THEN held \ {f} ELSE held \cup {f}
  BY DEF Base, TypeOK, Turn
<1>2. changed' \in [watched -> Nat] /\ changed'[f] = now
  BY <1>1
<1>3. \A g \in watched : g # f => changed'[g] = changed[g] /\ (g \in held' <=> g \in held)
  BY <1>1
<1>4. ASSUME NEW a \in Askers PROVE QuestionIsSound(a)'
  <2>1. asking[a].since \in Nat
    BY DEF Base, TypeOK, Questions
  <2>2. CASE asking[a].fact = f
    BY <1>2, <2>1, <2>2 DEF Base, QuestionsAreSound, QuestionIsSound
  <2>3. CASE asking[a].fact # f
    BY <1>3, <2>3 DEF Base, QuestionsAreSound, QuestionIsSound
  <2>4. QED
    BY <2>2, <2>3
<1>5. ASSUME NEW g \in watched PROVE EntryIsSound(g)'
  <2>1. cache[g].until \in Nat
    BY DEF Base, TypeOK, Entries
  <2>2. CASE g = f
    BY <1>1, <1>2, <2>1, <2>2, Lives DEF Base, EntriesAreSound, EntryIsSound
  <2>3. CASE g # f
    BY <1>3, <2>3 DEF Base, EntriesAreSound, EntryIsSound
  <2>4. QED
    BY <2>2, <2>3
<1>6. ASSUME NEW p \in Publishers PROVE PermissionIsSound(p)'
  <2>1. granted[p].since \in Nat
    BY DEF Base, TypeOK, Permissions
  <2>2. CASE RoomOf(Me) = f
    BY <1>1, <1>2, <2>1, <2>2, Lives DEF Base, PermissionsAreSound, PermissionIsSound
  <2>3. CASE RoomOf(Me) # f
    BY <1>3, <2>3 DEF Base, PermissionsAreSound, PermissionIsSound
  <2>4. QED
    BY <2>2, <2>3
<1>7. held' \subseteq watched /\ (f \in held' <=> f \notin held)
  BY <1>1
<1>8. QED
  BY <1>2, <1>3, <1>4, <1>5, <1>6, <1>7
  DEF QuestionsAreSound, EntriesAreSound, PermissionsAreSound

LEMMA OthersKeep == ASSUME IInv, NEW f \in watched, OthersUseRegistry(f) PROVE IInv'
<1>1. /\ Turn(f) /\ f # RoomOf(Me) /\ outcome' = Nothing
      /\ UNCHANGED <<watched, now, cache, asking, call, late, own, granted>>
  BY DEF OthersUseRegistry, calls
<1>2. RoomOf(Me) \notin watched
  BY <1>1 DEF IInv, Base, TypeOK
<1>3. TypeOK' /\ QuestionsAreSound' /\ EntriesAreSound' /\ PermissionsAreSound'
  BY <1>1, TurnKeepsDates DEF IInv, Base, TypeOK
<1>4. CallIsSound' /\ OwnIsSound'
  BY <1>1, <1>2 DEF IInv, Base, CallIsSound, OwnIsSound
<1>5. QED
  BY <1>1, <1>3, <1>4, NothingIsRight, NothingDecided DEF Base

LEMMA ServeKeeps == ASSUME IInv, NEW a \in Askers, Serve(a) PROVE IInv'
<1> DEFINE said == IF asking[a].fact \in held THEN "yes" ELSE "no"
<1>1. /\ asking[a] # Idle /\ outcome' = Nothing
      /\ asking' = [asking EXCEPT ![a].answer = said]
      /\ UNCHANGED <<watched, now, held, changed, cache, call, late, own, granted>>
  BY DEF Serve, world, calls
<1>2. asking \in [Askers -> Questions]
  BY DEF IInv, Base, TypeOK
<1>3. said \in {"yes", "no"} /\ (said = "yes" <=> asking[a].fact \in held)
  OBVIOUS
<1> HIDE DEF said
<1>4. /\ asking' \in [Askers -> Questions]
      /\ asking'[a].fact = asking[a].fact /\ asking'[a].since = asking[a].since
      /\ asking'[a].answer = said
      /\ \A b \in Askers : b # a => asking'[b] = asking[b]
  BY <1>1, <1>2, <1>3 DEF Questions
<1>5. TypeOK'
  BY <1>1, <1>4 DEF IInv, Base, TypeOK
<1>6. QuestionsAreSound'
  BY <1>1, <1>3, <1>4 DEF IInv, Base, QuestionsAreSound, QuestionIsSound
<1>7. asking[a].fact \in watched
  BY <1>1 DEF IInv, Base, QuestionsAreSound, QuestionIsSound
<1>8. OwnIsSound'
  <2>1. own \in Ops => asking[a].fact = RoomOf(Me)
    BY <1>7 DEF IInv, Base, TypeOK, OwnIsSound
  <2>2. QED
    BY <1>1, <1>3, <1>4, <2>1 DEF IInv, Base, TypeOK, OwnIsSound, Ops
<1>9. Base'
  BY <1>1, <1>5, <1>6, <1>8 DEF IInv, Base, EntriesAreSound, EntryIsSound, CallIsSound,
     PermissionsAreSound, PermissionIsSound
<1>10. QED
  BY <1>1, <1>9, NothingIsRight, NothingDecided

\* A question that ends leaves the others as they were.
LEMMA AskerReleased ==
    ASSUME IInv, NEW a \in Askers, asking' = [asking EXCEPT ![a] = Idle],
           UNCHANGED <<watched, now, held, changed>>
    PROVE  /\ asking' \in [Askers -> Questions] /\ QuestionsAreSound'
           /\ \A b \in Askers : asking'[b].answer \in {asking[b].answer, "none"}
<1>1. asking \in [Askers -> Questions] /\ Idle \in Questions /\ Idle.answer = "none"
  BY DEF IInv, Base, TypeOK, Idle, Questions, NoFact
<1>2. asking'[a] = Idle /\ \A b \in Askers : b # a => asking'[b] = asking[b]
  BY <1>1
<1>3. QED
  BY <1>1, <1>2 DEF IInv, Base, QuestionsAreSound, QuestionIsSound

LEMMA NotAnsweredKeeps == ASSUME IInv, NEW a \in Askers, NotAnswered(a) PROVE IInv'
<1>1. /\ asking' = [asking EXCEPT ![a] = Idle] /\ outcome'.result = "dropped"
      /\ UNCHANGED <<watched, now, held, changed, cache, call, late, own, granted>>
  BY DEF NotAnswered, world, calls
<1>2. Base'
  BY <1>1, AskerReleased
  DEF IInv, Base, TypeOK, EntriesAreSound, EntryIsSound, PermissionsAreSound, PermissionIsSound,
      CallIsSound, OwnIsSound
<1>3. QED
  BY <1>1, <1>2, NothingIsRight

\* The entry for an answer that is right, or was overtaken after the question.
LEMMA NewEntry ==
    ASSUME Base, NEW f \in watched, NEW since \in Nat, NEW allowed \in BOOLEAN,
           now <= since + RequestTimeout,
           allowed => f \in held \/ changed[f] >= since,
           ~allowed => f \notin held \/ changed[f] >= since,
           cache' = [cache EXCEPT ![f] = Entry(allowed)],
           UNCHANGED <<watched, now, held, changed>>
    PROVE  /\ cache' \in [watched -> Entries] /\ EntriesAreSound'
           /\ cache'[f] # NoEntry /\ cache'[f].allowed = allowed
<1>1. now \in Nat /\ cache \in [watched -> Entries] /\ changed[f] \in Nat
  BY DEF Base, TypeOK
<1>2. Entry(allowed) \in Entries /\ Entry(allowed).allowed = allowed
  BY <1>1, Lives DEF Entry, Entries
<1>3. /\ allowed => Entry(allowed).until = now + HitTTL
      /\ ~allowed => Entry(allowed).until = now + MissTTL
  BY DEF Entry
<1>4. Entry(allowed) # NoEntry
  BY <1>1, <1>2, <1>3, Lives DEF NoEntry
<1>5. /\ cache' \in [watched -> Entries] /\ cache'[f] = Entry(allowed)
      /\ \A g \in watched : g # f => cache'[g] = cache[g]
  BY <1>1, <1>2
<1>6. EntryIsSound(f)'
  <2>1. CASE allowed
    <3>1. cache'[f].allowed /\ cache'[f].until = now + HitTTL
      BY <1>2, <1>3, <1>5, <2>1
    <3>2. f \in held \/ changed[f] + HitTTL + RequestTimeout >= now + HitTTL
      BY <1>1, <2>1, Lives
    <3>3. now + HitTTL <= now + HitTTL
      BY <1>1, Lives
    <3>4. QED
      BY <3>1, <3>2, <3>3 DEF EntryIsSound
  <2>2. CASE ~allowed
    BY <1>1, <1>2, <1>3, <1>5, <2>2, Lives DEF EntryIsSound
  <2>3. QED
    BY <2>1, <2>2
<1>7. EntriesAreSound'
  BY <1>5, <1>6 DEF Base, EntriesAreSound, EntryIsSound
<1>8. QED
  BY <1>2, <1>4, <1>5, <1>7

\* A publisher that is let through now has the age of the answer at most.
LEMMA PermissionGiven ==
    ASSUME Base, NEW a \in Askers, NEW f \in watched, NEW allowed \in BOOLEAN,
           Permit(a, allowed), a \in Publishers => f = RoomOf(Me),
           allowed => f \in held \/ changed[f] + HitTTL + RequestTimeout >= now,
           UNCHANGED <<watched, now, held, changed>>
    PROVE  /\ granted' \in [Publishers -> Permissions] /\ PermissionsAreSound'
           /\ ~allowed => granted' = granted
<1>1. now \in Nat /\ granted \in [Publishers -> Permissions]
  BY DEF Base, TypeOK
<1>2. ~allowed \/ a \notin Publishers => granted' = granted
  BY DEF Permit
<1>3. CASE granted' = granted
  BY <1>1, <1>3 DEF Base, PermissionsAreSound, PermissionIsSound
<1>4. CASE a \in Publishers /\ allowed
  <2> DEFINE new == [on |-> TRUE, since |-> now]
  <2>1. new \in Permissions /\ new.since = now
    BY <1>1 DEF Permissions
  <2>2. granted' = [granted EXCEPT ![a] = new]
    BY <1>4 DEF Permit
  <2> HIDE DEF new
  <2>3. /\ granted' \in [Publishers -> Permissions] /\ granted'[a] = new
        /\ \A p \in Publishers : p # a => granted'[p] = granted[p]
    BY <1>1, <1>4, <2>1, <2>2
  <2>4. PermissionIsSound(a)'
    <3>1. now <= now /\ now <= now + PublishWait
      BY <1>1, Lives
    <3>2. QED
      BY <1>4, <2>1, <2>3, <3>1 DEF PermissionIsSound
  <2>5. PermissionsAreSound'
    BY <2>3, <2>4 DEF Base, PermissionsAreSound, PermissionIsSound
  <2>6. QED
    BY <1>4, <2>3, <2>5
<1>5. QED
  BY <1>2, <1>3, <1>4

LEMMA AnsweredKeeps == ASSUME IInv, NEW a \in Askers, Answered(a) PROVE IInv'
<1> DEFINE f == asking[a].fact
           allowed == asking[a].answer = "yes"
<1>1. /\ asking[a].answer \in {"yes", "no"}
      /\ cache' = [cache EXCEPT ![f] = Entry(allowed)]
      /\ asking' = [asking EXCEPT ![a] = Idle]
      /\ outcome' = Verdict(f, allowed)
      /\ Permit(a, allowed)
      /\ UNCHANGED <<watched, now, held, changed, call, late, own>>
  BY DEF Answered, world, calls
<1>2. asking[a] # Idle
  BY <1>1 DEF Idle
<1>3. /\ f \in watched /\ asking[a].since \in Nat
      /\ now <= asking[a].since + RequestTimeout
      /\ a \in Publishers => f = RoomOf(Me)
      /\ allowed => f \in held \/ changed[f] >= asking[a].since
      /\ ~allowed => f \notin held \/ changed[f] >= asking[a].since
  BY <1>1, <1>2 DEF IInv, Base, TypeOK, Questions, QuestionsAreSound, QuestionIsSound
<1>4. /\ now \in Nat /\ changed[f] \in Nat
      /\ own \in Ops => f = RoomOf(Me) /\ (allowed <=> own = "register")
  BY <1>1, <1>3 DEF IInv, Base, TypeOK, OwnIsSound, Ops
<1>5. /\ outcome'.fact = f
      /\ outcome'.result = IF allowed THEN "accepted" ELSE "refused"
  BY <1>1 DEF Verdict
<1>6. allowed \in BOOLEAN
  OBVIOUS
<1> HIDE DEF f, allowed
<1>7. /\ cache' \in [watched -> Entries] /\ EntriesAreSound'
      /\ cache'[f] # NoEntry /\ cache'[f].allowed = allowed
  BY <1>1, <1>3, <1>6, NewEntry DEF IInv
<1>8. /\ asking' \in [Askers -> Questions] /\ QuestionsAreSound'
      /\ \A b \in Askers : asking'[b].answer \in {asking[b].answer, "none"}
  BY <1>1, AskerReleased
<1>14. /\ granted' \in [Publishers -> Permissions] /\ PermissionsAreSound'
       /\ ~allowed => granted' = granted
  <2>1. allowed => f \in held \/ changed[f] + HitTTL + RequestTimeout >= now
    BY <1>3, <1>4, Lives
  <2>2. QED
    BY <1>1, <1>3, <1>6, <2>1, PermissionGiven DEF IInv
<1>9. OwnIsSound'
  BY <1>1, <1>4, <1>7, <1>8, <1>14 DEF IInv, Base, OwnIsSound, Ops
<1>10. Base'
  BY <1>1, <1>7, <1>8, <1>9, <1>14 DEF IInv, Base, TypeOK, CallIsSound
<1>11. AnswersAreRecent'
  BY <1>1, <1>3, <1>4, <1>5, Lives DEF AnswersAreRecent, WithinLast
<1>12. PublisherFollowsOwnCalls'
  BY <1>1, <1>4, <1>5 DEF PublisherFollowsOwnCalls, Ops
<1>13. QED
  BY <1>1, <1>10, <1>11, <1>12, VerdictPublishesNothing DEF IInv
-----------------------------------------------------------------------------
LEMMA CallKeeps == ASSUME IInv, NEW op \in Ops, Call(op) PROVE IInv'
<1>1. /\ RoomOf(Me) \in watched /\ outcome' = Nothing
      /\ own' = IF late = NoneLate THEN "open" ELSE "overtaken"
      /\ call' = [op |-> op, since |-> now, answer |-> "open"]
      /\ UNCHANGED <<watched, now, held, changed, cache, asking, late, granted>>
  BY DEF Call, world
<1>2. call' \in Calls /\ call'.op = op /\ call'.since = now /\ call'.answer = "open"
  BY <1>1 DEF IInv, Base, TypeOK, Calls, Ops
<1>3. own' \in {"open", "overtaken"} /\ own' \notin Ops
  BY <1>1 DEF Ops
<1>4. CallIsSound' /\ OwnIsSound'
  <2>1. now \in Nat /\ now <= now + RequestTimeout
    BY Lives DEF IInv, Base, TypeOK
  <2>2. QED
    BY <1>1, <1>2, <1>3, <2>1 DEF CallIsSound, OwnIsSound
<1>5. Base'
  BY <1>1, <1>2, <1>3, <1>4 DEF IInv, Base, TypeOK, QuestionsAreSound, QuestionIsSound,
     EntriesAreSound, EntryIsSound, PermissionsAreSound, PermissionIsSound
<1>6. QED
  BY <1>1, <1>5, NothingIsRight, NothingDecided

\* What a served request does to the facts and to what is dated by them.
LEMMA TakesKeeps ==
    ASSUME Base, RoomOf(Me) \in watched, NEW op \in Ops, NEW answer, Takes(op, answer),
           UNCHANGED <<watched, now, cache, asking, granted>>
    PROVE  /\ held' \subseteq watched /\ changed' \in [watched -> Nat]
           /\ QuestionsAreSound' /\ EntriesAreSound' /\ PermissionsAreSound'
           /\ answer = "done" => (op = "register" <=> RoomOf(Me) \in held')
           /\ changed'[RoomOf(Me)] \in {changed[RoomOf(Me)], now}
           /\ changed'[RoomOf(Me)] = now \/ UNCHANGED held
<1> DEFINE f == RoomOf(Me)
<1>1. CASE Turn(f)
  <2>1. /\ held' \subseteq watched /\ changed' \in [watched -> Nat]
        /\ QuestionsAreSound' /\ EntriesAreSound' /\ PermissionsAreSound'
        /\ f \in held' <=> f \notin held
    BY <1>1, TurnKeepsDates
  <2>2. (op = "register" <=> f \in held') \/ UNCHANGED held \/ answer = "refused"
    BY <2>1 DEF Takes
  <2>3. ~UNCHANGED held
    BY <2>1
  <2>4. changed'[f] = now
    BY <1>1 DEF Turn, Base, TypeOK
  <2>5. QED
    BY <2>1, <2>2, <2>3, <2>4
<1>2. CASE UNCHANGED <<held, changed>>
  <2>1. ~Turn(f)
    BY <1>2 DEF Turn
  <2>2. answer = "done" => (op = "register" <=> f \in held')
    BY <1>2, <2>1 DEF Takes
  <2>3. QED
    BY <1>2, <2>2 DEF Base, TypeOK, QuestionsAreSound, QuestionIsSound, EntriesAreSound,
       EntryIsSound, PermissionsAreSound, PermissionIsSound
<1>3. QED
  BY <1>1, <1>2 DEF Takes

LEMMA ServeCallKeeps == ASSUME IInv, ServeCall PROVE IInv'
<1>1. /\ call.answer = "open" /\ outcome' = Nothing
      /\ UNCHANGED <<watched, now, cache, asking, late, own, granted>>
  BY DEF ServeCall
<1>2. /\ call # NoCall /\ RoomOf(Me) \in watched /\ call.op \in Ops /\ call \in Calls
      /\ own = "overtaken" \/ (own = "open" /\ late = NoneLate)
  BY <1>1 DEF NoCall, IInv, Base, TypeOK, CallIsSound
<1>3. PICK answer \in {"done", "refused"} :
         Takes(call.op, answer) /\ call' = [call EXCEPT !.answer = answer]
  BY DEF ServeCall
<1>4. /\ call' \in Calls /\ call'.op = call.op /\ call'.since = call.since
      /\ call'.answer = answer
  BY <1>2, <1>3 DEF Calls
<1>5. /\ held' \subseteq watched /\ changed' \in [watched -> Nat]
      /\ QuestionsAreSound' /\ EntriesAreSound' /\ PermissionsAreSound'
      /\ answer = "done" => (call.op = "register" <=> RoomOf(Me) \in held')
  BY <1>1, <1>2, <1>3, TakesKeeps DEF IInv
<1>6. CallIsSound'
  <2>1. call.since <= now /\ now <= call.since + RequestTimeout
    BY <1>2 DEF IInv, Base, CallIsSound
  <2>2. QED
    BY <1>1, <1>2, <1>4, <1>5, <2>1 DEF CallIsSound
<1>7. OwnIsSound'
  BY <1>1, <1>2 DEF OwnIsSound, Ops
<1>8. Base'
  BY <1>1, <1>4, <1>5, <1>6, <1>7 DEF IInv, Base, TypeOK
<1>9. QED
  BY <1>1, <1>8, NothingIsRight, NothingDecided

LEMMA LateCallKeeps == ASSUME IInv, NEW op \in Ops, LateCall(op) PROVE IInv'
<1>1. /\ late[op] > 0 /\ late' = [late EXCEPT ![op] = @ - 1] /\ outcome' = Nothing
      /\ UNCHANGED <<watched, now, cache, asking, call, own, granted>>
  BY DEF LateCall
<1>2. late \in [Ops -> Nat] /\ late # NoneLate
  BY <1>1 DEF IInv, Base, TypeOK, NoneLate
<1>3. late' \in [Ops -> Nat]
  BY <1>1, <1>2
<1>4. RoomOf(Me) \in watched /\ own \notin Ops /\ (call # NoCall => own = "overtaken")
  BY <1>2 DEF IInv, Base, CallIsSound, OwnIsSound
<1>5. /\ held' \subseteq watched /\ changed' \in [watched -> Nat]
      /\ QuestionsAreSound' /\ EntriesAreSound' /\ PermissionsAreSound'
      /\ changed'[RoomOf(Me)] = now \/ UNCHANGED held
      /\ changed'[RoomOf(Me)] \in {changed[RoomOf(Me)], now}
  <2>1. CASE UNCHANGED <<held, changed>>
    BY <1>1, <2>1 DEF IInv, Base, TypeOK, QuestionsAreSound, QuestionIsSound, EntriesAreSound,
       EntryIsSound, PermissionsAreSound, PermissionIsSound
  <2>2. CASE \E answer \in {"done", "refused"} : Takes(op, answer)
    BY <1>1, <1>4, <2>2, TakesKeeps DEF IInv
  <2>3. QED
    BY <2>1, <2>2 DEF LateCall
<1>6. CallIsSound' /\ OwnIsSound'
  <2>1. CASE call = NoCall
    BY <1>1, <1>4, <2>1 DEF CallIsSound, OwnIsSound
  <2>2. CASE call # NoCall
    <3>1. /\ own = "overtaken" /\ call.op \in Ops /\ call.since <= now
          /\ now <= call.since + RequestTimeout
          /\ call.op = "register" /\ call.answer = "done" =>
                RoomOf(Me) \in held \/ changed[RoomOf(Me)] >= call.since
      BY <1>4, <2>2 DEF IInv, Base, CallIsSound
    <3>2. QED
      BY <1>1, <1>4, <1>5, <3>1 DEF CallIsSound, OwnIsSound, Ops
  <2>3. QED
    BY <2>1, <2>2
<1>7. Base'
  BY <1>1, <1>3, <1>5, <1>6 DEF IInv, Base, TypeOK
<1>8. QED
  BY <1>1, <1>7, NothingIsRight, NothingDecided

LEMMA CallReturnsKeeps == ASSUME IInv, CallReturns PROVE IInv'
<1> DEFINE f == RoomOf(Me)
           entry == IF call.op = "register" THEN Entry(TRUE) ELSE NoEntry
<1>1. /\ call.answer = "done" /\ outcome' = Nothing /\ call' = NoCall
      /\ cache' = [cache EXCEPT ![f] = entry]
      /\ own' = IF own = "open" /\ ~UnderWay THEN call.op ELSE own
      /\ UNCHANGED <<watched, now, held, changed, asking, late, granted>>
  BY DEF CallReturns, world
<1>2. /\ call # NoCall /\ f \in watched /\ call.op \in Ops /\ call.since \in Nat
      /\ now <= call.since + RequestTimeout
      /\ call.op = "register" => f \in held \/ changed[f] >= call.since
      /\ own = "overtaken" \/ (own = "open" /\ late = NoneLate)
      /\ own = "open" => (call.op = "register" <=> f \in held)
  BY <1>1 DEF NoCall, IInv, Base, TypeOK, Calls, CallIsSound
<1>3. now \in Nat /\ cache \in [watched -> Entries] /\ NoEntry \in Entries
  BY DEF IInv, Base, TypeOK, NoEntry, Entries
<1>4. /\ cache' \in [watched -> Entries] /\ EntriesAreSound'
      /\ cache'[f] # NoEntry => cache'[f].allowed /\ call.op = "register"
  <2>1. CASE call.op = "register"
    <3>1. entry = Entry(TRUE)
      BY <2>1
    <3> HIDE DEF entry, f
    <3>2. QED
      BY <1>1, <1>2, <1>3, <2>1, <3>1, NewEntry DEF IInv
  <2>2. CASE call.op # "register"
    <3>1. entry = NoEntry
      BY <2>2
    <3> HIDE DEF entry, f
    <3>2. cache'[f] = NoEntry /\ \A g \in watched : g # f => cache'[g] = cache[g]
      BY <1>1, <1>2, <1>3, <3>1
    <3>3. EntriesAreSound'
      BY <1>1, <3>2 DEF IInv, Base, EntriesAreSound, EntryIsSound
    <3>4. QED
      BY <1>1, <1>3, <3>1, <3>2, <3>3
  <2>3. QED
    BY <2>1, <2>2
<1>5. OwnIsSound'
  <2>1. CASE own' \notin Ops
    BY <2>1 DEF OwnIsSound
  <2>2. CASE own' \in Ops
    <3>1. own = "open" /\ ~UnderWay /\ own' = call.op
      BY <1>1, <1>2, <2>2 DEF Ops
    <3>2. \A a \in Askers : asking[a].answer = "none"
      BY <3>1 DEF UnderWay, Idle
    <3>3. \A p \in Publishers : ~granted[p].on
      BY <3>1 DEF UnderWay
    <3>4. late = NoneLate /\ (call.op = "register" <=> f \in held)
      BY <1>2, <3>1
    <3>5. QED
      BY <1>1, <1>2, <1>4, <3>1, <3>2, <3>3, <3>4 DEF OwnIsSound, Ops
  <2>3. QED
    BY <2>1, <2>2
<1>6. QuestionsAreSound' /\ PermissionsAreSound' /\ CallIsSound' /\ call' \in Calls
  BY <1>1, <1>2 DEF IInv, Base, QuestionsAreSound, QuestionIsSound, PermissionsAreSound,
     PermissionIsSound, CallIsSound, NoCall, Calls
<1>7. own' \in {"open", "overtaken"} \cup Ops
  BY <1>1, <1>2
<1>8. Base'
  BY <1>1, <1>4, <1>5, <1>6, <1>7 DEF IInv, Base, TypeOK
<1>9. QED
  BY <1>1, <1>8, NothingIsRight, NothingDecided

LEMMA CallFailsKeeps == ASSUME IInv, CallFails PROVE IInv'
<1>1. /\ call' = NoCall /\ outcome' = Nothing /\ call # NoCall
      /\ late' = IF call.answer = "open" THEN [late EXCEPT ![call.op] = @ + 1] ELSE late
      /\ UNCHANGED <<watched, now, held, changed, cache, asking, own, granted>>
  BY DEF CallFails, world
<1>2. call' \in Calls
  BY <1>1 DEF NoCall, Calls
<1>3. call.op \in Ops /\ RoomOf(Me) \in watched /\ own \notin Ops
  BY <1>1 DEF IInv, Base, CallIsSound, Ops
<1>4. late' \in [Ops -> Nat]
  BY <1>1, <1>3 DEF IInv, Base, TypeOK
<1>5. CallIsSound' /\ OwnIsSound'
  BY <1>1, <1>3 DEF CallIsSound, OwnIsSound
<1>6. Base'
  BY <1>1, <1>2, <1>4, <1>5 DEF IInv, Base, TypeOK, QuestionsAreSound, QuestionIsSound,
     EntriesAreSound, EntryIsSound, PermissionsAreSound, PermissionIsSound
<1>7. QED
  BY <1>1, <1>6, NothingIsRight, NothingDecided
-----------------------------------------------------------------------------
\* A validation: answered from the cache, or asked.
LEMMA ValidateKeeps ==
    ASSUME IInv, NEW a \in Askers, NEW f \in watched, Validate(a, f), asking[a] = Idle,
           a \in Publishers => f = RoomOf(Me),
           UNCHANGED <<watched, now, held, changed, call, late, own>>
    PROVE  IInv'
<1>1. /\ now \in Nat /\ changed[f] \in Nat /\ cache[f].until \in Nat
      /\ cache \in [watched -> Entries] /\ f \in Facts
  BY DEF IInv, Base, TypeOK, Entries
<1>2. CASE /\ Fresh(cache[f])
           /\ outcome' = Verdict(f, cache[f].allowed)
           /\ Permit(a, cache[f].allowed)
           /\ UNCHANGED <<cache, asking>>
  <2>2. cache[f] # NoEntry /\ now <= cache[f].until
    BY <1>2 DEF Fresh
  <2>3. /\ outcome'.fact = f
        /\ outcome'.result = IF cache[f].allowed THEN "accepted" ELSE "refused"
    BY <1>2 DEF Verdict
  <2>4. /\ cache[f].allowed => f \in held \/ changed[f] + HitTTL + RequestTimeout >= cache[f].until
        /\ ~cache[f].allowed => f \notin held \/ changed[f] + MissTTL + RequestTimeout >= cache[f].until
    BY <2>2 DEF IInv, Base, EntriesAreSound, EntryIsSound
  <2>5. AnswersAreRecent'
    BY <1>1, <2>2, <2>3, <2>4, Lives DEF AnswersAreRecent, WithinLast
  <2>1. own \in Ops => f = RoomOf(Me) /\ (cache[f].allowed <=> own = "register")
    BY <2>2 DEF IInv, Base, TypeOK, OwnIsSound
  <2>6. PublisherFollowsOwnCalls'
    BY <1>2, <2>1, <2>3 DEF PublisherFollowsOwnCalls, Ops
  <2>7. /\ granted' \in [Publishers -> Permissions] /\ PermissionsAreSound'
        /\ ~cache[f].allowed => granted' = granted
    <3>1. cache[f].allowed \in BOOLEAN
      BY <1>1 DEF Entries
    <3>2. cache[f].allowed => f \in held \/ changed[f] + HitTTL + RequestTimeout >= now
      BY <1>1, <2>2, <2>4, Lives
    <3>3. QED
      BY <1>2, <3>1, <3>2, PermissionGiven DEF IInv
  <2>8. OwnIsSound'
    BY <1>2, <2>1, <2>7 DEF IInv, Base, OwnIsSound, Ops
  <2>9. Base'
    BY <1>2, <2>7, <2>8 DEF IInv, Base, TypeOK, QuestionsAreSound, QuestionIsSound,
       EntriesAreSound, EntryIsSound, CallIsSound
  <2>10. QED
    BY <1>2, <2>5, <2>6, <2>9, VerdictPublishesNothing DEF IInv
<1>3. CASE /\ cache' = [cache EXCEPT ![f] = NoEntry]
           /\ asking' = [asking EXCEPT ![a] = [fact |-> f, since |-> now, answer |-> "open"]]
           /\ outcome' = Nothing
           /\ UNCHANGED granted
  <2> DEFINE question == [fact |-> f, since |-> now, answer |-> "open"]
  <2>1. /\ question \in Questions
        /\ question.fact = f /\ question.since = now /\ question.answer = "open"
    BY <1>1 DEF Questions
  <2>2. asking' = [asking EXCEPT ![a] = question]
    BY <1>3
  <2> HIDE DEF question
  <2>3. /\ asking' \in [Askers -> Questions] /\ asking'[a] = question
        /\ \A b \in Askers : b # a => asking'[b] = asking[b]
    BY <2>1, <2>2 DEF IInv, Base, TypeOK
  <2>4. QuestionsAreSound'
    BY <1>1, <2>1, <2>3, Lives DEF IInv, Base, QuestionsAreSound, QuestionIsSound
  <2>5. /\ cache' \in [watched -> Entries] /\ cache'[f] = NoEntry
        /\ \A g \in watched : g # f => cache'[g] = cache[g]
    BY <1>1, <1>3 DEF NoEntry, Entries
  <2>6. EntriesAreSound'
    BY <2>5 DEF IInv, Base, EntriesAreSound, EntryIsSound
  <2>7. OwnIsSound'
    BY <1>3, <2>1, <2>3, <2>5 DEF IInv, Base, OwnIsSound, TypeOK
  <2>8. Base'
    BY <1>3, <2>3, <2>4, <2>5, <2>6, <2>7 DEF IInv, Base, TypeOK, CallIsSound,
       PermissionsAreSound, PermissionIsSound
  <2>9. QED
    BY <1>3, <2>8, NothingIsRight, NothingDecided
<1>4. QED
  BY <1>2, <1>3 DEF Validate

LEMMA MessageKeeps == ASSUME IInv, NEW a \in Authors, MessageArrives(a) PROVE IInv'
<1>1. /\ Name(a) \in watched /\ asking["listener"] = Idle
      /\ UNCHANGED <<watched, now, held, changed, call, late, own>>
  BY DEF MessageArrives, world, calls
<1>2. CASE Validate("listener", Name(a))
  BY <1>1, <1>2, ValidateKeeps DEF Askers, Publishers
<1>3. CASE outcome'.result \in {"author_full", "room_full"} /\ UNCHANGED <<cache, asking, granted>>
  <2>1. Base'
    BY <1>1, <1>3 DEF IInv, Base, TypeOK, QuestionsAreSound, QuestionIsSound, EntriesAreSound,
       EntryIsSound, PermissionsAreSound, PermissionIsSound, CallIsSound, OwnIsSound
  <2>2. QED
    BY <1>3, <2>1, NothingIsRight
<1>4. QED
  BY <1>2, <1>3 DEF MessageArrives

LEMMA ResubscribeKeeps == ASSUME IInv, Resubscribe PROVE IInv'
<1>1. /\ asking' = [asking EXCEPT !["listener"] = Idle]
      /\ cache' = [f \in watched |-> NoEntry] /\ outcome' = Nothing
      /\ UNCHANGED <<watched, now, held, changed, call, late, own, granted>>
  BY DEF Resubscribe, world, calls
<1>2. cache' \in [watched -> Entries] /\ EntriesAreSound'
  BY <1>1 DEF NoEntry, Entries, EntriesAreSound, EntryIsSound
<1>3. "listener" \in Askers
  BY DEF Askers
<1>4. OwnIsSound'
  BY <1>1, <1>3, AskerReleased DEF IInv, Base, OwnIsSound
<1>5. Base'
  BY <1>1, <1>2, <1>3, <1>4, AskerReleased DEF IInv, Base, TypeOK, CallIsSound,
     PermissionsAreSound, PermissionIsSound
<1>6. QED
  BY <1>1, <1>5, NothingIsRight, NothingDecided

LEMMA DiscoveryKeeps ==
    ASSUME IInv,
           \/ \E p \in Authors \cup {Me} : AnnouncementArrives(p)
           \/ \E p \in Publishers : Publish(p)
    PROVE  IInv'
<1>1. ASSUME NEW p \in Authors \cup {Me}, AnnouncementArrives(p) PROVE IInv'
  BY <1>1, ValidateKeeps DEF AnnouncementArrives, world, calls, Askers, Publishers
<1>2. ASSUME NEW p \in Publishers, Publish(p) PROVE IInv'
  BY <1>2, ValidateKeeps DEF Publish, world, calls, Askers
<1>3. QED
  BY <1>1, <1>2

\* The wait of a publisher ends, with an announcement or without.
LEMMA PublisherKeeps ==
    ASSUME IInv, NEW p \in Publishers, Announce(p) \/ GiveUp(p) PROVE IInv'
<1>1. /\ granted[p].on /\ granted' = [granted EXCEPT ![p] = NotAllowed]
      /\ outcome'.result \in {"published", "dropped"}
      /\ UNCHANGED <<watched, now, held, changed, cache, asking, call, late, own>>
  BY DEF Announce, GiveUp, Publishes, world, calls
<1>2. NotAllowed \in Permissions /\ ~NotAllowed.on
  BY DEF NotAllowed, Permissions
<1>3. /\ granted' \in [Publishers -> Permissions] /\ granted'[p] = NotAllowed
      /\ \A q \in Publishers : q # p => granted'[q] = granted[q]
  BY <1>1, <1>2 DEF IInv, Base, TypeOK
<1>4. Base'
  BY <1>1, <1>2, <1>3 DEF IInv, Base, TypeOK, QuestionsAreSound, QuestionIsSound, EntriesAreSound,
     EntryIsSound, PermissionsAreSound, PermissionIsSound, CallIsSound, OwnIsSound
<1>5. AnswersAreRecent'
  BY <1>1 DEF AnswersAreRecent
<1>6. own # "release"
  BY <1>1 DEF IInv, Base, OwnIsSound, Ops
<1>7. PublisherFollowsOwnCalls'
  BY <1>1, <1>6 DEF PublisherFollowsOwnCalls
<1>8. AnnouncedIsRecent'
  <2>1. /\ RoomOf(Me) \in watched /\ granted[p].since \in Nat
        /\ now <= granted[p].since + PublishWait
        /\ \/ RoomOf(Me) \in held
           \/ changed[RoomOf(Me)] + HitTTL + RequestTimeout >= granted[p].since
    BY <1>1 DEF IInv, Base, TypeOK, Permissions, PermissionsAreSound, PermissionIsSound
  <2>2. now \in Nat /\ changed[RoomOf(Me)] \in Nat
    BY <2>1 DEF IInv, Base, TypeOK
  <2>3. \/ RoomOf(Me) \in held
        \/ changed[RoomOf(Me)] + (HitTTL + RequestTimeout + PublishWait) >= now
    BY <2>1, <2>2, Lives
  <2>4. QED
    BY <1>1, <2>3 DEF AnnouncedIsRecent, WithinLast
<1>9. QED
  BY <1>4, <1>5, <1>7, <1>8 DEF IInv

LEMMA NextKeeps == IInv /\ [Next]_vars => IInv'
<1> SUFFICES ASSUME IInv, [Next]_vars PROVE IInv'
  OBVIOUS
<1>1. CASE UNCHANGED vars
  BY <1>1 DEF vars, world, calls, IInv, Base, TypeOK, QuestionsAreSound, QuestionIsSound,
              EntriesAreSound, EntryIsSound, PermissionsAreSound, PermissionIsSound, CallIsSound,
              OwnIsSound, AnswersAreRecent, WithinLast, PublisherFollowsOwnCalls, AnnouncedIsRecent
<1>2. QED
  BY <1>1, TickKeeps, OthersKeep, ServeKeeps, AnsweredKeeps, NotAnsweredKeeps, CallKeeps,
     LateCallKeeps, ServeCallKeeps, CallReturnsKeeps, CallFailsKeeps, MessageKeeps, DiscoveryKeeps,
     PublisherKeeps, ResubscribeKeeps
  DEF Next

LEMMA InvariantHolds == Spec => []IInv
  BY InitEstablishes, NextKeeps, PTL DEF Spec

(* No message, announcement or room is accepted or refused on an answer    *)
(* older than the cache and a request allow, for any TTLs and timeout and  *)
(* in whatever order answers, changes, own calls and leaves overlap        *)
(* (cachedValidation, cachedProfileValidation, cacheValidation).           *)
THEOREM AnswersStayRecent == Spec => []AnswersAreRecent
  BY InvariantHolds, PTL DEF IInv

(* After RegisterPublicRoom or ReleasePublicRoom has returned to a program *)
(* with no validation, publish or abandoned call under way, its publishers *)
(* neither decide nor announce against what the call has done, until the   *)
(* next call (cacheValidation, PublishRoomSync).                           *)
THEOREM PublisherAgreesWithCalls == Spec => []PublisherFollowsOwnCalls
  BY InvariantHolds, PTL DEF IInv

(* Whatever overlaps what, late calls included, an announcement goes out   *)
(* no later after the release of its room than an answer may be on its     *)
(* way, a hit may be cached and a publisher may wait, for any length of    *)
(* the three and any number of abandoned calls (PublishRoomSync).          *)
THEOREM AnnouncementsAreRecent == Spec => []AnnouncedIsRecent
  BY InvariantHolds, PTL DEF IInv
-----------------------------------------------------------------------------
(* The burst limits.  The limiter of an author forgets no message that the *)
(* limiter of the room still counts, so a room full of recent messages is  *)
(* full of messages of authors none of whom can have filled it alone.      *)
Places == [at: Nat, from: Authors, nth: Nat]

AuthorsAreLimited ==
    /\ authorTimes \in [Authors -> SUBSET Places]
    /\ \A a \in Authors :
          /\ IsFiniteSet(authorTimes[a])
          /\ Cardinality(Recent(authorTimes[a])) <= AuthorLimit
          /\ \A e \in authorTimes[a] :
                e.from = a /\ e.nth < Cardinality({f \in authorTimes[a] : f.at = e.at})

RoomIsOfAuthors ==
    /\ roomTimes \subseteq Places
    /\ \A e \in Recent(roomTimes) : e \in authorTimes[e.from]

LimitInv == now \in Nat /\ AuthorsAreLimited /\ RoomIsOfAuthors

LEMMA Limits ==
    /\ AuthorLimit \in Nat /\ RoomLimit \in Nat /\ Window \in Nat \ {0}
    /\ AuthorLimit < RoomLimit /\ IsFiniteSet(Authors)
  BY InboundAssumption

\* A part of a finite set is finite and no larger.
LEMMA FewerElements ==
    ASSUME NEW S, NEW T, IsFiniteSet(S), T \subseteq S
    PROVE  /\ IsFiniteSet(T) /\ Cardinality(T) \in Nat /\ Cardinality(S) \in Nat
           /\ Cardinality(T) <= Cardinality(S)
  BY FS_Subset, FS_CardinalityType

\* Two different elements make two.
LEMMA TwoElements ==
    ASSUME NEW S, IsFiniteSet(S), NEW x \in S, NEW y \in S, x # y
    PROVE  Cardinality(S) >= 2
<1>1. Cardinality(S) \in Nat /\ Cardinality(S) # 0
  BY FS_CardinalityType, FS_EmptySet
<1>2. Cardinality(S) # 1
  BY FS_Singleton
<1>3. QED
  BY <1>1, <1>2

\* What the limiter of an author remembers after it has let a message through.
LEMMA PlaceTaken ==
    ASSUME LimitInv, NEW a \in Authors, TakePlaces(a), ~AuthorIsFull(a), UNCHANGED now
    PROVE  /\ AuthorsAreLimited'
           /\ Place(a, authorTimes[a]) \in Places /\ Place(a, authorTimes[a]).from = a
           /\ Place(a, authorTimes[a]) \in authorTimes'[a]
           /\ \A b \in Authors : Recent(authorTimes[b]) \subseteq authorTimes'[b]
           /\ \A b \in Authors : b # a => authorTimes'[b] = authorTimes[b]
           /\ Cardinality(Recent(authorTimes[a])') = Cardinality(Recent(authorTimes[a])) + 1
<1> DEFINE mine == authorTimes[a]
           recent == Recent(mine)
           today == {e \in mine : e.at = now}
           new == Place(a, mine)
<1>1. /\ now \in Nat /\ authorTimes \in [Authors -> SUBSET Places] /\ mine \subseteq Places
      /\ IsFiniteSet(mine)
      /\ \A e \in mine : e.from = a /\ e.nth < Cardinality({f \in mine : f.at = e.at})
  BY DEF LimitInv, AuthorsAreLimited
<1>2. authorTimes' = [authorTimes EXCEPT ![a] = recent \cup {new}]
  BY DEF TakePlaces
<1>3. /\ authorTimes'[a] = recent \cup {new}
      /\ \A b \in Authors : b # a => authorTimes'[b] = authorTimes[b]
  BY <1>1, <1>2
<1>4. recent \subseteq mine /\ \A e \in recent : e.at + Window > now
  BY DEF Recent
<1>5. /\ IsFiniteSet(recent) /\ Cardinality(recent) \in Nat
      /\ IsFiniteSet(today) /\ Cardinality(today) \in Nat
  BY <1>1, <1>4, FewerElements
<1>6. new.at = now /\ new.from = a /\ new.nth = Cardinality(today) /\ new \in Places
  BY <1>1, <1>5 DEF Place, Places
<1>7. Cardinality(recent) < AuthorLimit
  BY <1>5, Limits DEF AuthorIsFull
<1>8. today \subseteq recent
  BY <1>1, Limits DEF Recent
<1>9. new \notin mine
  <2>1. SUFFICES ASSUME new \in mine PROVE FALSE
    OBVIOUS
  <2>2. new.nth < Cardinality({f \in mine : f.at = new.at})
    BY <1>1, <2>1
  <2>3. {f \in mine : f.at = new.at} = today
    BY <1>6
  <2> HIDE DEF new, today
  <2>4. QED
    BY <1>5, <1>6, <2>2, <2>3
<1> HIDE DEF new
<1>10. IsFiniteSet(recent \cup {new}) /\ Cardinality(recent \cup {new}) = Cardinality(recent) + 1
  BY <1>4, <1>5, <1>9, FS_AddElement
<1>11. ASSUME NEW e \in recent \cup {new}
       PROVE  e.from = a /\ e.nth < Cardinality({f \in recent \cup {new} : f.at = e.at})
  <2> DEFINE old == {f \in mine : f.at = e.at}
             same == {f \in recent \cup {new} : f.at = e.at}
  <2>1. IsFiniteSet(old) /\ Cardinality(old) \in Nat
    BY <1>1, FewerElements
  <2>2. IsFiniteSet(same) /\ Cardinality(same) \in Nat
    BY <1>10, FewerElements
  <2>3. CASE e \in recent
    <3>1. old \subseteq same
      BY <1>4, <2>3 DEF Recent
    <3>2. Cardinality(old) <= Cardinality(same)
      BY <2>2, <3>1, FewerElements
    <3>3. e.from = a /\ e.nth < Cardinality(old) /\ e.nth \in Nat
      BY <1>1, <1>4, <2>3 DEF Places
    <3> HIDE DEF old, same
    <3>4. e.nth < Cardinality(same)
      BY <2>1, <2>2, <3>2, <3>3
    <3>5. QED
      BY <3>3, <3>4 DEF same
  <2>4. CASE e = new
    <3>1. same = today \cup {new} /\ new \notin today
      BY <1>4, <1>6, <1>8, <1>9, <2>4
    <3> HIDE DEF today, same
    <3>2. Cardinality(same) = Cardinality(today) + 1
      BY <1>5, <3>1, FS_AddElement
    <3>3. e.nth < Cardinality(same)
      BY <1>5, <1>6, <2>4, <3>2
    <3>4. QED
      BY <1>6, <2>4, <3>3 DEF same
  <2>5. QED
    BY <2>3, <2>4
<1>12. Recent(authorTimes[a])' = recent \cup {new}
  BY <1>1, <1>3, <1>4, <1>6, Limits DEF Recent
<1>13. \A b \in Authors : Recent(authorTimes[b])' = IF b = a THEN recent \cup {new}
                                                   ELSE Recent(authorTimes[b])
  BY <1>3, <1>12 DEF Recent
<1>14. authorTimes' \in [Authors -> SUBSET Places]
  BY <1>1, <1>2, <1>4, <1>6
<1>15. AuthorsAreLimited'
  <2>1. ASSUME NEW b \in Authors
        PROVE  /\ IsFiniteSet(authorTimes'[b])
               /\ Cardinality(Recent(authorTimes[b])') <= AuthorLimit
               /\ \A e \in authorTimes'[b] :
                     e.from = b /\ e.nth < Cardinality({f \in authorTimes'[b] : f.at = e.at})
    <3>1. CASE b = a
      BY <1>3, <1>5, <1>7, <1>10, <1>11, <1>13, <3>1, Limits
    <3>2. CASE b # a
      BY <1>3, <1>13, <3>2 DEF LimitInv, AuthorsAreLimited
    <3>3. QED
      BY <3>1, <3>2
  <2>2. QED
    BY <1>14, <2>1 DEF AuthorsAreLimited
<1>16. QED
  BY <1>3, <1>4, <1>6, <1>10, <1>12, <1>15 DEF new, Recent

\* A clock that moves forward only forgets.
LEMMA LimitsStay ==
    ASSUME LimitInv, UNCHANGED limits, now' \in Nat, now <= now'
    PROVE  LimitInv'
<1>1. now \in Nat /\ authorTimes' = authorTimes /\ roomTimes' = roomTimes
  BY DEF LimitInv, limits
<1>2. RoomIsOfAuthors'
  <2>1. \A e \in roomTimes : e.at + Window > now' => e.at + Window > now
    BY <1>1, Limits DEF LimitInv, RoomIsOfAuthors, Places
  <2>2. QED
    BY <1>1, <2>1 DEF LimitInv, RoomIsOfAuthors, Recent
<1>3. ASSUME NEW a \in Authors
      PROVE  Cardinality(Recent(authorTimes[a])') <= AuthorLimit
  <2>1. \A e \in authorTimes[a] : e.at + Window > now' => e.at + Window > now
    BY <1>1, Limits DEF LimitInv, AuthorsAreLimited, Places
  <2>2. Recent(authorTimes[a])' \subseteq Recent(authorTimes[a])
    BY <1>1, <2>1 DEF Recent
  <2>3. IsFiniteSet(authorTimes[a]) /\ Recent(authorTimes[a]) \subseteq authorTimes[a]
    BY DEF LimitInv, AuthorsAreLimited, Recent
  <2>4. Cardinality(Recent(authorTimes[a])) <= AuthorLimit
    BY DEF LimitInv, AuthorsAreLimited
  <2> HIDE DEF Recent
  <2>5. IsFiniteSet(Recent(authorTimes[a]))
    BY <2>3, FewerElements
  <2>6. QED
    BY <2>2, <2>4, <2>5, FewerElements, Limits
<1>4. AuthorsAreLimited'
  BY <1>1, <1>3 DEF LimitInv, AuthorsAreLimited
<1>5. QED
  BY <1>2, <1>4 DEF LimitInv

LEMMA MessageIsCounted ==
    ASSUME LimitInv, NEW a \in Authors, MessageArrives(a)
    PROVE  LimitInv'
<1>1. TakePlaces(a) /\ now' = now /\ now \in Nat
  BY DEF MessageArrives, world, LimitInv
<1>2. CASE AuthorIsFull(a)
  <2>1. UNCHANGED limits
    BY <1>1, <1>2 DEF TakePlaces, limits
  <2>2. QED
    BY <1>1, <2>1, LimitsStay
<1>3. CASE ~AuthorIsFull(a)
  <2> DEFINE new == Place(a, authorTimes[a])
  <2>1. /\ AuthorsAreLimited'
        /\ new \in Places /\ new.from = a /\ new \in authorTimes'[a]
        /\ \A b \in Authors : Recent(authorTimes[b]) \subseteq authorTimes'[b]
    BY <1>1, <1>3, PlaceTaken
  <2>2. roomTimes' \subseteq roomTimes \cup {new}
    BY <1>1 DEF TakePlaces, Recent
  <2> HIDE DEF new
  <2>3. roomTimes' \subseteq Places
    BY <2>1, <2>2 DEF LimitInv, RoomIsOfAuthors
  <2>4. ASSUME NEW e \in Recent(roomTimes)' PROVE e \in authorTimes'[e.from]
    <3>1. CASE e = new
      BY <2>1, <3>1
    <3>2. CASE e # new
      <4>1. e \in Recent(roomTimes) /\ e \in roomTimes
        BY <1>1, <2>2, <3>2 DEF Recent
      <4>2. e.from \in Authors /\ e \in authorTimes[e.from] /\ e.at + Window > now
        BY <4>1 DEF LimitInv, RoomIsOfAuthors, Places, Recent
      <4>3. QED
        BY <2>1, <4>2 DEF Recent
    <3>3. QED
      BY <3>1, <3>2
  <2>5. QED
    BY <1>1, <2>1, <2>3, <2>4 DEF LimitInv, RoomIsOfAuthors
<1>4. QED
  BY <1>2, <1>3

LEMMA LimitsHold == Spec => []LimitInv
<1>1. Init => LimitInv
  <2> SUFFICES ASSUME Init PROVE LimitInv
    OBVIOUS
  <2>2. authorTimes = [a \in Authors |-> {}] /\ roomTimes = {} /\ now = 0
    BY DEF Init
  <2>3. Recent({}) = {} /\ Cardinality({}) = 0 /\ IsFiniteSet({})
    BY FS_EmptySet DEF Recent
  <2>4. QED
    BY <2>2, <2>3, Limits DEF LimitInv, AuthorsAreLimited, RoomIsOfAuthors
<1>2. LimitInv /\ [Next]_vars => LimitInv'
  <2> SUFFICES ASSUME LimitInv, [Next]_vars PROVE LimitInv'
    OBVIOUS
  <2>2. CASE Tick
    BY <2>2, LimitsStay DEF Tick, LimitInv
  <2>3. CASE Resubscribe
    <3>1. /\ authorTimes' = [a \in Authors |-> {}] /\ roomTimes' = {} /\ now' = now
      BY <2>3 DEF Resubscribe, world
    <3>2. Recent(roomTimes)' = {} /\ \A a \in Authors : Recent(authorTimes[a])' = {}
      BY <3>1 DEF Recent
    <3>3. Cardinality({}) = 0 /\ IsFiniteSet({})
      BY FS_EmptySet
    <3>4. AuthorsAreLimited'
      <4>1. \A a \in Authors : authorTimes'[a] = {}
        BY <3>1
      <4>2. authorTimes' \in [Authors -> SUBSET Places]
        BY <3>1
      <4>3. QED
        BY <3>2, <3>3, <4>1, <4>2, Limits DEF AuthorsAreLimited
    <3>5. RoomIsOfAuthors'
      BY <3>1, <3>2 DEF RoomIsOfAuthors
    <3>6. QED
      BY <3>1, <3>4, <3>5 DEF LimitInv
  <2>4. CASE \E a \in Authors : MessageArrives(a)
    BY <2>4, MessageIsCounted
  <2>5. CASE UNCHANGED <<now, limits>>
    BY <2>5, LimitsStay DEF LimitInv
  <2>6. QED
    BY <2>2, <2>3, <2>4, <2>5
    DEF Next, vars, world, OthersUseRegistry, Serve, Answered, NotAnswered, Call, ServeCall,
        CallReturns, CallFails, LateCall, AnnouncementArrives, Publish, Announce, GiveUp, Publishes
<1>3. QED
  BY <1>1, <1>2, PTL DEF Spec

\* A room that is full counts more messages of its last window than one author may have sent.
LEMMA FullRoomHasTwoAuthors ==
    ASSUME LimitInv, RoomIsFull, NEW b \in Authors
    PROVE  \E c \in Authors : c # b /\ Recent(authorTimes[c]) # {}
<1>1. SUFFICES ASSUME \A c \in Authors : c # b => Recent(authorTimes[c]) = {} PROVE FALSE
  OBVIOUS
<1>2. Recent(roomTimes) \subseteq Recent(authorTimes[b])
  <2>1. SUFFICES ASSUME NEW e \in Recent(roomTimes) PROVE e \in Recent(authorTimes[b])
    OBVIOUS
  <2>2. e.from \in Authors /\ e \in authorTimes[e.from] /\ e.at + Window > now
    BY DEF LimitInv, RoomIsOfAuthors, Places, Recent
  <2>3. e \in Recent(authorTimes[e.from])
    BY <2>2 DEF Recent
  <2>4. QED
    BY <1>1, <2>2, <2>3
<1>3. /\ IsFiniteSet(authorTimes[b]) /\ Recent(authorTimes[b]) \subseteq authorTimes[b]
      /\ Cardinality(Recent(authorTimes[b])) <= AuthorLimit
  BY DEF LimitInv, AuthorsAreLimited, Recent
<1>4. IsFiniteSet(Recent(authorTimes[b]))
  BY <1>3, FewerElements
<1>5. QED
  BY <1>2, <1>3, <1>4, FewerElements, Limits DEF RoomIsFull

LEMMA DroppedByRoom ==
    ASSUME LimitInv, NEW a \in Authors, MessageArrives(a), outcome'.result = "room_full"
    PROVE  OneAuthorCannotFillTheRoom'
<1> DEFINE earlier == {b \in Authors : Earlier(b)' > 0}
<1>1. TakePlaces(a) /\ now' = now /\ now \in Nat
  BY DEF MessageArrives, world, LimitInv
<1>2. ~AuthorIsFull(a) /\ RoomIsFull /\ outcome' = [fact |-> Name(a), result |-> "room_full"]
  BY DEF MessageArrives, Validate, Verdict, Nothing
<1>3. \A b \in Authors : Name(b) = Name(a) => b = a
  BY DEF Name
<1>4. ASSUME NEW b \in Authors PROVE Earlier(b)' = Cardinality(Recent(authorTimes[b]))
  <2>1. IsFiniteSet(authorTimes[b]) /\ Recent(authorTimes[b]) \subseteq authorTimes[b]
    BY DEF LimitInv, AuthorsAreLimited, Recent
  <2>2. Cardinality(Recent(authorTimes[b])) \in Nat
    BY <2>1, FewerElements
  <2>3. CASE b = a
    BY <1>1, <1>2, <2>2, <2>3, PlaceTaken DEF Earlier
  <2>4. CASE b # a
    <3>1. Recent(authorTimes[b])' = Recent(authorTimes[b])
      BY <1>1, <1>2, <2>4, PlaceTaken DEF Recent
    <3>2. outcome'.fact # Name(b)
      BY <1>2, <1>3, <2>4
    <3>3. QED
      BY <2>2, <3>1, <3>2 DEF Earlier
  <2>5. QED
    BY <2>3, <2>4
<1>5. ASSUME NEW b \in Authors, Recent(authorTimes[b]) # {} PROVE b \in earlier
  <2>1. IsFiniteSet(authorTimes[b]) /\ Recent(authorTimes[b]) \subseteq authorTimes[b]
    BY DEF LimitInv, AuthorsAreLimited, Recent
  <2>2. Cardinality(Recent(authorTimes[b])) \in Nat /\ Cardinality(Recent(authorTimes[b])) # 0
    BY <1>5, <2>1, FewerElements, FS_EmptySet
  <2>3. QED
    BY <1>4, <2>2
<1>6. PICK b \in Authors : Recent(authorTimes[b]) # {}
  BY <1>2, FullRoomHasTwoAuthors
<1>7. PICK c \in Authors : c # b /\ Recent(authorTimes[c]) # {}
  BY <1>2, FullRoomHasTwoAuthors
<1>8. b \in earlier /\ c \in earlier /\ IsFiniteSet(earlier)
  BY <1>5, <1>6, <1>7, Limits, FewerElements
<1>9. Cardinality(earlier) >= 2
  BY <1>7, <1>8, TwoElements
<1>10. QED
  BY <1>9 DEF OneAuthorCannotFillTheRoom

\* Only a message can be dropped by the room's limit.
LEMMA OnlyMessagesMeetLimits ==
    ASSUME Next, outcome'.result = "room_full"
    PROVE  \E a \in Authors : MessageArrives(a)
<1>1. Nothing.result = "none" /\ \A f, b : Verdict(f, b).result \in {"accepted", "refused"}
  BY DEF Nothing, Verdict
<1>2. ASSUME NEW a, NEW f, Validate(a, f) PROVE outcome'.result # "room_full"
  BY <1>1, <1>2 DEF Validate
<1>3. ASSUME NEW a \in Askers, Serve(a) \/ Answered(a) \/ NotAnswered(a)
      PROVE  outcome'.result # "room_full"
  BY <1>1, <1>3 DEF Serve, Answered, NotAnswered
<1>4. ASSUME Tick \/ ServeCall \/ CallReturns \/ CallFails \/ Resubscribe
      PROVE  outcome'.result # "room_full"
  BY <1>1, <1>4 DEF Tick, ServeCall, CallReturns, CallFails, Resubscribe
<1>5. ASSUME NEW f, OthersUseRegistry(f) PROVE outcome'.result # "room_full"
  BY <1>1, <1>5 DEF OthersUseRegistry
<1>6. ASSUME NEW op, Call(op) \/ LateCall(op) PROVE outcome'.result # "room_full"
  BY <1>1, <1>6 DEF Call, LateCall
<1>7. ASSUME NEW p, AnnouncementArrives(p) \/ Publish(p) PROVE outcome'.result # "room_full"
  BY <1>2, <1>7 DEF AnnouncementArrives, Publish
<1>8. ASSUME NEW p, Announce(p) \/ GiveUp(p) PROVE outcome'.result # "room_full"
  BY <1>8 DEF Announce, GiveUp, Publishes
<1>9. QED
  BY <1>3, <1>4, <1>5, <1>6, <1>7, <1>8 DEF Next

(* One author alone never uses up the room's limit, for any number of      *)
(* authors, any window and any limits of which the author's is the         *)
(* smaller: whenever the room's limit drops a message, two authors have    *)
(* messages in the window besides it (Room.Listen, allowWithLimit).        *)
THEOREM RoomIsFilledByTwo == Spec => []OneAuthorCannotFillTheRoom
<1>1. Init => OneAuthorCannotFillTheRoom
  BY DEF Init, Nothing, OneAuthorCannotFillTheRoom
<1>2. LimitInv /\ OneAuthorCannotFillTheRoom /\ [Next]_vars => OneAuthorCannotFillTheRoom'
  <2> SUFFICES ASSUME LimitInv, OneAuthorCannotFillTheRoom, [Next]_vars
                 PROVE  OneAuthorCannotFillTheRoom'
    OBVIOUS
  <2>2. CASE UNCHANGED vars
    BY <2>2 DEF OneAuthorCannotFillTheRoom, Earlier, Recent, vars, world, limits
  <2>3. CASE Next /\ outcome'.result = "room_full"
    BY <2>3, OnlyMessagesMeetLimits, DroppedByRoom
  <2>4. CASE outcome'.result # "room_full"
    BY <2>4 DEF OneAuthorCannotFillTheRoom
  <2>5. QED
    BY <2>2, <2>3, <2>4
<1>3. QED
  BY <1>1, <1>2, LimitsHold, PTL DEF Spec
=============================================================================
