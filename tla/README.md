# Verification of animasola

animasola is a terminal chat over Tor and libp2p: a TUI client with a SQLite
store, a gossip layer for rooms, and one HTTP server, the registry, that hands
out user names and public rooms. This directory holds TLA+ models of the parts
whose correctness depends on order, overlap and failure, the TLC configurations
that check them, and TLAPS proofs. Paths are relative to the repository (`src/`);
every definition's source lines are in `PROJECT.json`, under `map`.

## 1. The system

| Part | State | Operations | Talks to | Hard because | Correct if |
|---|---|---|---|---|---|
| **Registry server** `cmd/registry/main.go` | tables `profiles`, `profile_issuance_events`, `public_rooms` | register and release a profile or a public room; validate; search | HTTP clients, SQLite | HTTP handlers overlap; read-then-insert; two tables per operation; restarts | one key per name, rooms only with a profile, caps, cooldown and window hold |
| **Challenges** same file | map of challenges, limiter per address | issue, prune, consume | every signed request | repeated, late, mismatched requests; bodies without a deadline between limiter and map; restart forgets | a request is served at most once; challenges whose bodies come in time are bounded |
| **Profile lifecycle** TUI `root`, `profile`; `identity.keys`; `network.registry` | key file per profile, view, open profile | create, open, delete | registry over Tor | lost answers, late requests, two bootstraps at once, crash inside key creation | the only key of a registered name is not destroyed |
| **Tor runner** `network.tor` daemon run, TUI splash, `cmd/telemetry`, `cmd/bootstrap-node` | daemon, pipe, progress channel, wait group | start, forward lines, stop | each kind of program listens differently | unbuffered channel, goroutine, timeouts | nobody starts on an unfinished bootstrap; Stop returns |
| **Room metadata** store, `network.discovery`, `Room.Listen` | `rooms`, `public_room_index` | create, edit, announce, hear, join, backfill | announcements, heartbeats, chat messages | lost, repeated and late announcements; restart between commit and index | newer metadata is not overwritten; indexes converge |
| **Message store** store, `processSyncQueue` | `messages`, `syncQueue` | CreateMessage, SyncMessage, trim, prune, DeleteRoom | listeners, room screen | two writers, insert and trim are two statements, contexts of left rooms | messages belong to rooms, stay within limits, queued ones arrive |
| **Room session** TUI `app`, `room`, `home`; `JoinRoom`/`LeaveRoom` | view, `roomID`, `activeTopic`, joined topics | open, subscribe, send, leave, error | store, pubsub, registry | every command is a goroutine that reads the model late and answers in any order | the room on the screen is the room in use, and stays |
| **Home screen** TUI `home`, `app`; store | lists, cursor, mode, query, commands under way; `rooms`, `memberships`, `public_room_index` | search, join, create, open, delete, hear of rooms | store, registry, discovery | answers come late, for another mode or query; creation and deletion are a table and a registry each | owned public rooms and registrations stay together; a search shows what it may find |
| **Inbound checks** `Room.Listen`; **discovery** (belief, publishing); **registry client cache** | burst limiters; cached validations; validations and calls under way | accept, refuse or drop; register, release | pubsub, registry | answers in flight during a release, separate caches, two publishers that wait for peers, abandoned calls | nothing is accepted on an answer older than the cache keeps it, nor announced for long after; one author cannot fill a room |
| **Self-update** TUI `cli.updater`, `cli.uninstall`; `network.http`; `install.sh` | installed files, staging and backup directories, releases | query, download, verify, unpack, copy, rename; install; uninstall | GitHub, the disk | any step fails or is killed; leftovers; assets replaced meanwhile | an update never costs the user the program; what it installs was verified |
| Store migration | schema, archived database | migrate, reset, backfill | every start | repeated, interrupted starts | data survive |
| P2P host, onion transport, telemetry, Tor download, signatures, screens, tools | - | - | - | I/O and libraries | - |

How they interact: the TUI's root model starts a *profile lifecycle* bootstrap,
which registers with the *registry* and starts *Tor*; the splash screen waits
for Tor and then builds the host, discovery and the screens. The home screen
creates rooms (store, then registry) and opens them (*room session*), which
subscribes to a topic whose listener, after the *inbound checks*, fills the
*message store*. Discovery keeps *room metadata* in step between devices, and
asks the registry, through the client's *cache*, before it believes or publishes
an announcement. *Self-update* runs instead of the TUI.

## 2. Modules

| Module | Models | Notes |
|---|---|---|
| `Registry` | the tables and the four changing handlers | a handler reads and checks in one step and writes in another, as in a transaction; several overlap |
| `NameService` | abstract specification: names and rooms granted and withdrawn one at a time | |
| `RegistryRefinement` | `Registry` under the mapping tables -> names and rooms | `ImplementsService` |
| `RegistryProofs` | the theorems about `Registry` and the whole server | TLAPS |
| `Challenges`, `RegistryServer` | challenges and their limiter; composition with `Registry` | a call for a challenge is let in (`AdmitChallenge`) and stored (`IssueChallenge`) in two steps with its body between them; requests present any nonce, repeatedly, late, with a bad signature |
| `ProfileLifecycle` | devices against a registry (`EXTENDS NameService`) | uses the abstract service, which `Registry` implements |
| `ProfileLifecycleProofs` | the theorems about keys, open profiles and lost names; what it asks of `NameService` | TLAPS |
| `TorRunner` | daemon, goroutine, three kinds of client | the client is chosen in the initial state |
| `TorRunnerProofs` | the theorem about the start of the node | TLAPS |
| `RoomMetadata` | owner's and others' tables, the network | metadata is numbered by the edit that made it |
| `RoomMetadataProofs` | the theorems about versions and the owner's index | TLAPS |
| `MessageStore`, `RoomSession` | the message table with its two writers; the user's session on top of it | `RoomSession` extends `MessageStore` |
| `RoomSessionProofs` | the theorems about messages, rooms, their limits and rooms that were left | TLAPS |
| `HomeScreen` | the home screen with its tables (`EXTENDS NameService`) | composes the screen, the store's rooms and the registry; commands are records in a set, so their answers come in any order |
| `HomeScreenProofs` | the theorems about lists, cursor, searches and owned rooms | TLAPS |
| `Inbound` | limiters, validations and the caches in front of them, publishers that wait for peers, the user's own calls, a clock | facts (a name, a room) change hands while a question about them is under way; calls that were given up are served or lost (`LateCall`) |
| `InboundProofs` | the theorems about answers, the publisher and the burst limits | TLAPS |
| `SelfUpdate` | updater, installer, uninstall on one disk, maintainers | a directory says for each file which build it is of; files that are of none are `Damaged` |
| `SelfUpdateProofs` | the theorems about installations | TLAPS |
| `MC*` | constants and symmetry for TLC | one `.cfg` per run |

Operators marked *mutant* are faulty variants of the definition that follows
them. They are used by nobody: substituting one must make the property that
`PROJECT.json` pairs it with fail, which shows that the property looks at it.

Variables carry the names of the fields and tables they stand for (`profiles`,
`syncQueue` as `queue`, `activeTopic` as `active`, ...). Variables called
history or ghost in the comments are read by properties only.

## 3. Runs

| Run | Question | Result |
|---|---|---|
| `registry_rows` | two overlapping handlers, two keys, names, rooms, five ticks | tables consistent, answers true, cooldown and window hold, `NameService` implemented |
| `registry_server` | challenges before registrations, slow bodies, expiry, restarts, two handlers | every issue spent a challenge, a request is served once, the cap per source holds; of the challenges whose bodies came within any given delay the map holds no more than that delay allows |
| `profile_lifecycle` | two devices, one name, two bootstraps | a key that no directory holds any more had a call that did not succeed, or overlapping bootstraps; older keys outlive rejections |
| `profile_deletion` (violation) | the release fails during a deletion | the key is removed, the name stays taken |
| `tor_runner` | Tor stalls, dies, is killed; clients time out and stop | no start on an unfinished bootstrap; `Stop` returns except in the case described below; the pipe is drained |
| `room_metadata` | announcements lost, repeated, late; restarts | owner's index follows, versions never fall, repair again and again |
| `room_old_names` (violation) | a member chats, or restarts, after a rename | the old name comes back under the new version |
| `room_session` | two rooms, overlapping commands, both writers | messages stay with their rooms, within limits, newest kept; queued ones stored; rooms that were left stay quiet; an opened room is heard or given up |
| `room_stays` (violation) | an error arrives in another room's view | that room and its messages are deleted |
| `home_screen` | search, paste, join, create, delete with late, lost, failed and refused answers | owned public rooms and registrations stay together, a list that was searched for shows what the search may find, the cursor passes the last row in one way only |
| `inbound` | names and rooms change hands during validations | answers are recent, a release that overlapped nothing ends announcements at once, any other before long, one author cannot fill a room |
| `self_update` | three commands that fail or die at every step, a release built twice, altered bundles | what an update installs is of one verified build, a whole installation stays one, an update that is not killed ends with a program in its place |

### What the violations say

* **Deletion keeps the name.** `ProfileModel.Update` shadows `err`
  (`...profile.render.controller.cli.go:122-127`), so a failed release does not
  stop `RemoveAll`. `QA_MATRIX.md:52` promises that deletion frees the slot.
* **Old names come back.** `UpdateRoomNameIfDefault` has its condition on the
  update of `rooms` only; the index takes the name of any chat message, and a
  member's messages carry the name the room was joined under. Every `Migrate`
  does the same without a message: it copies names from `rooms` to the index
  without comparing versions. `SECURITY_MODEL.md:109` says old metadata must not
  overwrite newer. In the model the name also comes from heartbeats, which carry
  version 1, and from joining by identifier.
* **Errors delete rooms.** `AppModel.Update` takes any error that arrives in the
  room view for a failed subscription of the room on the screen and deletes that
  room (`...app.render.controller.cli.go:208`). The refusal of a room that
  `createRoom` was registering, or a second subscription after enter was handled
  twice, is enough. `QA_MATRIX.md:68-69` expects the room to stay open. The
  owner of a public room deleted this way also keeps its registration, which
  counts towards the cap of three.

### What the passing runs excuse

Some properties name a case in which they do not hold; each is something the
code does.

* `StopEnds`: `tor.Start` sends the `100% (done)` line and then `SUCCESS_100` on
  an unbuffered channel. `cmd/telemetry/main.go:79` stops receiving at the first;
  `Stop` waits for the goroutine that is sending the second and never returns.
  The TUI hangs in the same way when ctrl+c meets a line being sent.
* `OwnedRoomsAreRegistered` excuses rooms one of whose calls went unanswered. If
  the answer to a release is lost, the retry is told `not_found`, and the room
  can never be deleted on this device. It also excuses rooms deleted by an error
  in the room view (above) and those deleted through a stale list: right after a
  search is left, its rows are still listed; x and y on a row whose `CreatorID`
  is somebody else's deletes a room that the table says is the user's without
  releasing it (`...home.render.controller.cli.go:395`).
* `CursorStaysInList` excuses one step: a room discovered during a search replaces
  the registry's answer by a list of what discovery knows, and the cursor stays.
  The commands of enter then index beyond the last row and the program ends
  (`EnterPanics`). An empty list has no row for any cursor, and the same commands
  index it (`...home.render.controller.cli.go:617-625`): a reload that empties the
  list after enter was pressed ends the program too. They read `m.rooms[m.index]`
  when they run, once to join and again, after statements of the database, to open
  (`EnterJoins`, `EnterOpens`), so the room joined and the room opened may differ.
  The comment at the deletion, "Reset index to avoid out of bounds" (`:413`), holds
  of its cursor and not of the list.
* `SearchShowsMatches` excuses a list whose field no search has read since it was
  edited, and one whose last search failed (`unsearched`). A paste, which the default
  case of `Update` gives to the field (`...home.render.controller.cli.go:664`), starts
  no search, although `README.md:116` says that any word filters the list. Nor does a
  key that changes only the case of the query: as the wish for a new search is compared
  in lower case and answers with the field as it was typed, alt+u during a search drops
  its answer and asks for no other. What a search may find (`Findable`) is the
  registry's LIKE, which takes `%` and `_` for wildcards and whose answer is shown
  unfiltered, or the substring of the local fallback.
* `ChallengesBounded` states its bound for the challenges stored within a given
  delay after their calls were let in. The registry sets no deadline for bodies
  (`main.go:189-195`), asks its limiter before it reads one (`:286`, `:293`) and
  stores after (`:317`): over all delays the map has no bound.
* `LeftRoomsStayQuiet` speaks of rooms that were left. The handler of errors deletes
  the open room without leaving it (`...app.render.controller.cli.go:208-221`): its
  subscription lives on, and messages queued for it enter the table when a room of
  that identifier is added again.
* `StorageIsBounded` excuses rows whose trim was cut off; the next message of the
  room removes them. `AcceptedIsStored` speaks of messages that found a place in the
  queue; a full queue drops the others.
* `UpdateKeepsAProgram` counts a program in the backup directory while nothing is in
  place. `README.md:80` and `...cli.updater.go:19` call the swap atomic; it is two
  renames of directories (`:179`, `:182`), and after a kill between them nothing takes
  the backup back: the updater is part of what is gone. `UpdateEndsInPlace` says that an
  update that is not killed does not end there, unless the new directory could not be
  moved in and the old one not back (`RollbackFails`).
* `InstalledIsVerified` excuses files that an installer put there on the word of the
  bundle itself (`foreign`): `install.sh:145` verifies the bundle with the program in
  the bundle. One of the maintainers' compares the files with the signed manifest;
  another one need not, although `QA_MATRIX.md:24` says that a tampered bundle is
  rejected. What an altered program does once it is installed is not modelled. The
  property also excuses an installation without Tor: an installer killed before it has
  copied Tor leaves, in a directory of another name, what `isBundledInstall` takes for
  a single binary, and an update leaves its old libraries as they are.
* `PublisherFollowsOwnCalls` speaks of calls that overlapped nothing. A validation
  under way when the call returns caches its answer over the call's; a publisher
  whose room was accepted waits up to ten seconds for peers and announces without
  asking again (`network.discovery.service.go:158-173`); a call that was given up
  may be served after this one. `AnnouncedIsRecent` bounds what all of these do
  together: cache, question and wait.
* `OutputIsRead` speaks of programs that still listen; the TUI after its time-out
  does not, and nobody drains the pipe. The properties of the lifecycle excuse what
  a late release of the same name does.

Met while reading, and no run's subject: `AppModel.Update` takes ctrl+e for
the debug display before the room view can, so the metadata editor its footer
offers cannot be reached from the keyboard (the service behind it is what
`RoomMetadata` models); errors that reach the home view are dropped there, so
the home screen goes on showing that it is busy after a refusal. Leaving a
joined room keeps its row, so a public room of that name can never be created on
the device. `joinRoomByName` opens a room without a row, which the first error
deletes again. `RoomCreatedNeedsSyncMsg` and `RoomJoinNeedsSyncMsg` are never
sent. Known rooms are published under a limit of five seconds while publishing
waits ten for peers, so that without peers nothing is published
(`network.discovery.service.go:281`, `:158`).

### Bounds, and why they are enough

* `Registry`: two handlers, because the transaction rule speaks of pairs; two
  keys, names and rooms are the least that conflict in every way. One source and
  five ticks, one more than the window, let issues leave it and the cooldown
  end. The theorems remove these bounds. `MaxClock` stops the clock.
* `RegistryServer`: two handlers and two names bring a source to its cap of one
  with both under way; three nonces (`MaxNonces`) allow one to be spent, one pending
  and one lost in a restart, and are what a map that is not pruned would hold at once
  on a clock (`MaxClock`) one tick longer than the lifetime of a challenge. One
  challenge per tick lets calls of every tick wait together for their bodies.
* `ProfileLifecycle`: one name is what two devices can fight for; two bootstraps
  are what pressing enter twice starts; `MaxLate` = 1 request may arrive after
  its caller has given up. `Peers` has a key for each device.
* `TorRunner`: `ProgressLines` and `PipeSize` let the pipe fill before and after
  100%.
* `RoomMetadata`: one edit after the creation gives an older and a newer version,
  one deletion gives a room created again; one viewer suffices because devices
  interact only through the owner's announcements and chat messages (`MaxEdits`,
  `MaxDeletions`). A third version is out of reach of a run of a few minutes.
* `RoomSession`: two rooms, so one can be open while a command concerns the
  other; one private. Limits of one message and two messages overflow a room.
  A queue of two holds a job of a left subscription in front of a live one. Two
  commands under way (`MaxCommands`) are the least that overlap.
* `HomeScreen`: a constraint (`OverlapsOrLists`) keeps the run to two parts of one
  instance. Either one public room, which another user may take and release, with all
  queries and two commands under way (`MaxCommands`), the least whose answers change
  places, such as a pinned list behind a search, or a creation beside a reload. Or
  that room and a private one with one query and one command: the list of two rows
  shrinks to one and to none. One query finds the public room, one is the same in
  capitals, and one has a wildcard, so that the registry finds the room and the local
  search does not. The theorems have none of these bounds.
* `Inbound`: a burst of two messages per author and three per room, so that two
  authors fill the room and one cannot; five ticks (`MaxClock`) are enough to
  ask, cache an answer of two ticks, wait for peers and announce one tick too late.
  One call of each kind may be given up (`MaxLate`) and served later. The initial
  state chooses which facts matter, the authors' names or one room, because
  validations of different facts share nothing. `Steady` names one author whose
  name never changes hands.
* `SelfUpdate`: the current release and a next one that is built twice, so that
  assets of two builds can be mixed; a library that the last has not; three
  commands (`MaxCommands`), so that an update meets what two have left behind.
  As commands are bounded the behaviour ends, and deadlock is not checked.

### Fairness

* `TorRunner`: weak fairness for the goroutine, the clients' receives, the
  handling of interface messages, the kill that follows a cancelled context and
  the return of `Stop`. These are goroutines the Go scheduler runs. Tor's
  output, timeouts and the user have none.
* `RoomMetadata`: for each viewer, strong fairness of coming back to idle, of
  hearing the owner's current announcement, and of applying it. The owner
  repeats it every 45 seconds while it runs, so a viewer that is up again and
  again hears one; without this assumption gossip promises nothing.
* `RoomSession`: weak fairness of the queue's goroutine, of subscribe commands
  and of bubbletea's handling of their errors. The user, the network, pruning
  and restarts have none.
* The other modules, `HomeScreen`, `Inbound` and `SelfUpdate` among them, check
  safety only and assume no fairness.

### Modelling decisions

* *Transactions.* In `Registry` a transaction whose reads were overtaken by
  another commit cannot commit itself. This is what SQLite does in both journal
  modes or a superset of it; UNIQUE constraints are not relied on, so the model
  shows that the checks suffice. Time and addresses are small sets; limiters may
  refuse at any time where only their refusal matters.
* The registry compares times as RFC 3339 strings with fractions trimmed of
  zeros; the order of strings within one second is not modelled.
* *Late calls.* A client gives up after `requestTimeout`; the request stays on
  its way and may be served later.
* *Two bootstraps of one profile* can remove each other's keys. The properties of
  the lifecycle except these (`overlapped`), and the hazard is listed.
* *A torn key file*, left by a crash between creating and filling it, can be
  neither loaded nor replaced; the model has it and no property asks for recovery.
* *The bootstrap node* leaves with `log.Fatalf` on some errors without `Stop`:
  not modelled.
* *Room metadata.* Heartbeats announce the current name under version 1. A room
  deleted and created again starts at version 1, and viewers ignore it until its
  versions catch up; the repair property excuses that. The edit cooldown is left
  out: it only forbids edits. Joining and its index upsert are one step.
* *Room session.* A topic can be joined once at a time (libp2p pubsub's rule, an
  external definition). `subscribeToTopicCmd` reads `roomID` and joins in one
  step, and sets `activeTopic` in another. What a listener checks before it
  queues a message is not modelled: the message has passed. A full queue drops
  it. Leaving a room somebody else owns only removes a membership and is no
  action here.
* *Home screen.* What Update does itself, calls to the registry in a deletion
  included, keeps every other message waiting; what it returns is a command, which
  reads the model when it runs. Other users register and release the same room
  names. The local policies and the panels that nothing opens are left out. What a
  query means is three constants: `Fold`, its lower case, which decides whether a key
  asks for a new search (`:588-598`); `Matching`, the substring of the local search;
  `Like`, what the registry's LIKE finds. Answers are compared with the field as it
  was typed (`StillAskedFor`). A search whose database fails shows nothing new.
* *Inbound.* The listener of a room has a registry client of its own, hence a
  cache of its own; discovery, its publishers and the home screen share one. The
  answer to a question is fixed when the registry serves it and cached when it
  arrives. A question lasts at most `RequestTimeout`. The listener of announcements
  skips what its own node sends; an announcement of the user's own room that another
  peer repeats is validated like any other and shares the publishers' cache entry. A
  publisher is allowed, waits for peers up to `PublishWait`, and announces or gives up.
  A call of the user's begins, in the model, with its request after the challenge; one
  that fails without an answer may be served later or be lost.
* *Limiters.* `limiter.allow` and `allowWithLimit` keep a list of times. The
  models keep a set in which each attempt has its time and its number among those
  of that time (`Attempt`, `Place`): the order within one time makes no
  difference, the number of attempts does.
* *Self-update.* A file is of one build, torn, damaged or absent. An installer may
  unpack a bundle any file of which was altered; if the program is among these, what
  it says of the bundle is arbitrary. Any operation may fail, and `RemoveAll`, whose
  errors the code ignores, may leave any part.
  A signature can be made by the maintainers only. One command runs at a time:
  two updaters would share staging and backup, and the code does not prevent it.

## 4. Proofs

TLAPS checks every theorem below for all values of the constants that satisfy
the named assumptions, which TLC evaluates for the values of each run. Each
inductive invariant was checked with TLC on the component's run before it was
proved. Every invariant and action property of the passing runs is a theorem,
and so are three properties that no run repeats (`OnlyHolderReleases`,
`OpenProfileIsRegistered`, `TypeOK` of `RoomMetadata`);
what is left to TLC is liveness.

| Module | Theorem | Property |
|---|---|---|
| `RegistryProofs` | `TypeCorrect`, `NamesAreUnique`, `NoRoomWithoutProfile`, `RoomCapHolds`, `SourceCapHolds`, `CooldownHolds`, `WindowLimitHolds`, `DecisionsStayRight` | `TypeOK`, `OneNamePerKey`, `RoomsBelongToProfiles`, `RoomsWithinCap`, `ProfilesWithinSourceCap`, `IssuesRespectCooldown`, `IssuesWithinWindow`, `WritersAreFresh` |
| | `NamesAreKept`, `CreatedTellsTheTruth` | `OnlyHolderReleases`, `CreatedIsTrue` (of single steps) |
| | `TablesImplementService` | `ImplementsService`: `Registry` implements `NameService` |
| | `ServerImplementsRegistry`, `ServerKeepsSourceCap` | `ServerSpec => Spec`; `ProfilesWithinSourceCap` |
| | `IssuesCostChallenges`, `ChallengesServeOnce`, `ChallengesStayBounded` | `EveryIssueSpentAChallenge`, `ServedOncePerChallenge`, `ChallengesBounded` |
| `ProfileLifecycleProofs` | `OlderKeysStay`, `OpenProfilesAreRegistered`, `OrphansAreExplained` | `OlderKeysSurviveRejection`, `OpenProfileIsRegistered`, `OrphansHadTrouble` |
| | `LifecycleUsesService`, `ServiceIsExclusive`, `ProfilesAreExclusive` | `LifecycleSpec => Spec` of `NameService`; a name has one holder, a key one name, a room one owner (`Exclusive`), in both |
| `TorRunnerProofs` | `NodeStartsOnTor` | `RunningMeansBootstrapped` |
| `RoomMetadataProofs` | `TypeCorrect`, `OwnerIndexCatchesUp`, `VersionsOnlyGrow` | `TypeOK`, `OwnerIndexFollows`, `VersionsNeverFall` |
| `RoomSessionProofs` | `MessagesStayWithRooms`, `TypeCorrect`, `OldestGoFirst`, `LeftRoomsAreQuiet`, `RoomsStayBounded` | `MessagesBelongToRooms`, `TypeOK`, `NewestSurvive`, `LeftRoomsStayQuiet`, `StorageIsBounded` |
| `HomeScreenProofs` | `HomeTypesAreKept`, `SearchShowsItsQuery`, `OwnedAndRegistered` | `HomeTypeOK`, `SearchShowsMatches`, `OwnedRoomsAreRegistered` |
| | `CursorIsSafe` | `CursorStaysInList` (of single steps) |
| | `HomeUsesService`, `OwnRoomsWithinCap` | `HomeSpec => [][Next]_<<names, rooms>>` of `NameService`; the device shows its user as owner of no more public rooms than the registry allows |
| `InboundProofs` | `AnswersStayRecent`, `PublisherAgreesWithCalls`, `AnnouncementsAreRecent`, `RoomIsFilledByTwo` | `AnswersAreRecent`, `PublisherFollowsOwnCalls`, `AnnouncedIsRecent`, `OneAuthorCannotFillTheRoom` |
| `SelfUpdateProofs` | `InstallationsAreVerified`, `UpdatesKeepAProgram`, `UpdatesEndInPlace` | `InstalledIsVerified`, `UpdateKeepsAProgram`, `UpdateEndsInPlace` |

### The arguments

* **Registry.** The inductive invariant is `TypeOK`, the invariants of the
  tables, and `WritersAreFresh`: a handler between its reads and its writes still
  sees what it read (the name is free, the counts are below their limits, the
  profile exists). Without the last, a write step cannot be shown to keep any
  table invariant, since its checks lie in an earlier step; it is kept because
  every commit sends the handlers it overtakes to an error. Each table invariant
  then follows from the checks of the handler that writes.
* **Server.** Every step of `RegistryServer` is a step of `Registry` or leaves the
  tables alone, so the theorems about the tables carry over. The rest follows a
  nonce: it waits in the map with what it was issued for and was never presented
  (`ChallengesAreSound`), and for each key the profiles issued and the handlers that
  may still issue one are together no more than the nonces it has spent
  (`IssuesAreSpent`). The size of the map takes another invariant (`BoundInv`):
  every call let in carries the attempt that paid for it, no two waiting calls or
  stored challenges carry the same, and no interval of one window holds more such
  attempts of a source than the limiter allows. The challenges stored within a given
  delay were let in within lifetime and delay of the oldest's, and that interval is
  cut into windows from the oldest on. A set of natural numbers has a least element,
  so the induction over the number of windows is done by looking for a least
  counterexample.
* **Lifecycle.** Five layers, each inductive given those before it: types, and
  every request that somebody waits for is the one he sent (`Sound`); a bootstrap
  that saw no key sees no older one appear (`OldKeysInv`); a name that was
  answered stays with its key until a release of that key is asked for
  (`NamedInv`); while bootstraps of a device do not overlap, a key in memory is in
  its directory (`AloneInv`); a key stays on the device that made it, and a name
  without a key is put down to a call that did not succeed (`OrphanInv`). The
  last is proved step by step as "no key appears, none vanishes without
  trouble", with exceptions for the steps that make and remove keys.
* **Tor runner.** The word that starts the node passes through the pipe, the
  goroutine, the message of `listenForTor` and `Update`; the invariant says of
  each that it has the word only when Tor has printed its last bootstrap line.
* **Room metadata.** The owner's row is either still on its way to the index or
  covered by an index row at least as new. Versions follow from one lemma about
  the upsert: it keeps the newer of two rows.
* **Room session.** `MessagesBelongToRooms` is inductive by itself: a row comes
  only from an INSERT that sees its room (foreign keys are on) and no row of its
  identifier, and a room goes only with its rows. The bound on a room is not:
  the invariant (`BoundInv`) sets apart, by their identifiers, the rows somebody
  still has to trim after and says that the others are within the limit. Counting
  by identifier makes it stable when such a row is already gone or was there
  before; at the end the rows set apart are mapped to their writers one to one.
  Rooms that were left stay quiet because every job of the queue that may still be
  written is of a room whose topic is joined (`JobsInv`).
* **Home screen.** Three layers say what the commands under way have done so far,
  since they finish in any order. `Typed`: what each carries; an answer to a query
  holds nothing but what that query may find (`Matches`). `SearchInv`: in search
  mode, unless the field was edited without a search or the last one failed, the
  list shows such rooms, or a command that will bring them is under way, a reload,
  which reads the query when it runs, or the answer to the query that is in the
  field now; an answer that is thrown away was to another query. `OwnedInv`: a room
  between its INSERT and the registry's answer is owned here and not there, and is
  in no other creation or deletion; one whose release was confirmed is owned here
  for one step more; any other is owned in both places or in neither. It needs that
  an owner of a room also created it (`OwnersAreCreators`): only then does an INSERT
  that succeeds meet no owned room. The cursor follows from a lemma about `Clamp`
  (`Clamped`) for every step that does not hear of a room. Every row of a list is an
  item it was made from (`ListedItems`), because a finite set of numbers can be
  counted through in order (`EveryPlaceIsTaken`).
* **Who uses the service.** `Registry` implements `NameService`
  (`TablesImplementService`), and the lifecycle and the home screen change names and
  rooms by its steps only (`LifecycleUsesService`, `HomeUsesService`). `NameService`
  gives no name or room to two keys (`ServiceIsExclusive`), and so neither can any
  history of devices, whatever is lost or late (`ProfilesAreExclusive`). For the home
  screen the steps, not the whole specification, are shown: it starts with the
  profiles registered. With `OwnedAndRegistered` they bound the public rooms in the
  device's own table by the registry's cap, which nothing on the device checks
  (`OwnRoomsWithinCap`).
* **Inbound.** An answer is dated three times: when its fact last changed, when
  the question was asked, when its entry expires. The invariant orders them: an
  answer that is wrong by now was overtaken by a change no earlier than the
  question, a question is no older than `RequestTimeout`, an entry lives no longer
  than its TTL, and a publisher was allowed on an answer no older than that and waits
  no longer than `PublishWait` (`PermissionIsSound`). For the user's own calls,
  `CallIsSound` says that the registry still holds what it did for the call under way
  unless an earlier one was late when it began ("overtaken"), and `OwnIsSound` that
  after a call that overlapped nothing the cache, the questions and the publishers all
  agree with it. For the burst limits: an author's limiter forgets no message the
  room's limiter still counts, so a full room of one author would have filled the
  author's limit, which is smaller, before.
* **Self-update.** The rename that installs a directory checks nothing, so the
  invariant (`StagesOK`) says what staging and backup hold at each step of the
  running command: every file of the bundle has been copied when the renames
  begin, the target is empty and the backup of one build between them, the target
  is whole before the backup is removed, and a directory whose single binary is
  swapped has no Tor. What is in place is of one build of the maintainers or
  belongs to a program of somebody else (`TargetOK`), which is not this updater; only
  an installer changes that. That an update ends in its place
  follows from the same: the one step that ends it with nothing there is the failed
  taking back.

### What they assume

Limits, windows, sizes and lives are natural numbers, positive where the code's
constants are and a program of zero would make no sense (`RateLimitWindow`,
`QueueSize`, `PipeSize`, `MaxEdits`, `Window`, `MissTTL`, the limits of a room); an
author's burst limit is below the room's, as in `Room.Listen`. The other assumptions
say that marks are not values: `None` is no action, no row and no name, `NoJob` no
job, the contents of a key file that are not keys are not keys (`KindsDiffer`), torn
and damaged files no builds, no room and no query no room and no query
(`HomeAssumption`, which also says that public and private rooms differ, that the
order of names lists rooms, that a query finds rooms and that the cap on public
rooms is a number). The set of authors is finite; the other sets of keys, names,
rooms, messages and devices may be infinite.

### Only model-checked

* *Liveness*: `StopEnds`, `OutputIsRead`, `MetadataIsRepaired`, `StubsAreNamed`,
  `AcceptedIsStored`, `OpenedRoomIsHeard`. None of the provers handles fairness
  and ENABLED.
* *The properties of the violation runs*, which do not hold.
* The sum over a function in `RoomSession` (`UnderWay`) is a fold over a set; it
  only bounds the run, and no proof needs its value, which would take induction
  over data.

## 5. Plan

Done, in this order: registry with its abstract specification and proofs;
challenges; profile lifecycle; Tor runner; room metadata; message store and room
session; home screen; inbound checks with the client's cache; self-update with
proofs; proofs of the registry server, the lifecycle, the Tor runner, room
metadata, the room session, the inbound checks and the home screen; what the
lifecycle and the home screen ask of `NameService`; the admission of challenges,
the publishers that wait, the calls that are given up, the searches that fail or are
never made, and the bundles that judge themselves.

Left: the hazards without a property (a room created again under an old
version, a message stored in one room and published in another, the Tor runner
of the second of two bootstraps, the room that enter opens when the list changed
after the key), and discovery's answers to snapshot requests,
should anything but the attack lab ever send them.

## 6. Not modelled

* *Store migration and reset*: `Migrate` runs in one goroutine before the store
  is shared, as a sequence of SQL statements that repeat harmlessly; what matters
  to other parts, the backfill and the opening of the store, is in `RoomMetadata`
  and `ProfileLifecycle`. (An archive's name has a resolution of one second: a
  second reset within it would replace the first archive.)
* *Discovery's answers to snapshot requests* and their limits: only the attack
  lab sends such requests. Its status counters.
* *Local policies, read marks*: upserts of a single statement.
* *P2P host and bootstrap, onion transport, telemetry service, Tor download and
  configuration, signatures and room keys, the other screens and tools*: their
  behaviour is I/O, a library's, or a single function's, and nothing they keep is
  shared between steps that overlap.
* *Two Tor processes* after two bootstraps of one profile: `ProfileLifecycle`
  has the bootstraps, not their processes.
* *The headless client* drives the same services and does not compile at this
  commit; the attack lab and the simulation are test drivers.
