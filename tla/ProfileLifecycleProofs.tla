------------------------ MODULE ProfileLifecycleProofs ------------------------
(***************************************************************************)
(* What ProfileLifecycle guarantees for any number of devices, bootstraps, *)
(* names and keys.  The argument is built up in layers, each inductive     *)
(* given those before it:                                                  *)
(*   Sound       types, and that a request with a caller is the one this   *)
(*               caller waits for;                                         *)
(*   OldKeysInv  a bootstrap without a key sees no older key appear;       *)
(*   NamedInv    a registration that was answered keeps its name until a   *)
(*               release of its key is asked for;                          *)
(*   AloneInv    while bootstraps of a device do not overlap, a key in     *)
(*               memory is also in its directory;                          *)
(*   OrphanInv   where keys are, and which names have lost theirs.         *)
(***************************************************************************)
EXTENDS ProfileLifecycle, TLAPS

Contents == {"absent", "empty", "torn"} \cup Bootstraps \cup Peers
Armed == {"writing", "asking", "waiting", "rejected", "opening", "ready"}
Stages == {"none", "selected", "started", "checked", "failed"} \cup Armed
Boots == [stage: Stages, device: Devices \cup {None}, username: Usernames \cup {None},
          key: Peers \cup {None}, hadKey: BOOLEAN, known: SUBSET Peers]
Deletions == [stage: {"none", "asking", "waiting", "removing"},
              username: Usernames \cup {None}, key: Peers \cup {None}]
Profiles == [username: Usernames \cup {None}, key: Peers \cup {None}]
Requests == [kind: {"register", "release"}, username: Usernames, peer: Peers,
             from: Callers \cup {None}]

TypeOK ==
    /\ names \subseteq [username: Usernames, peer: Peers]
    /\ disk \in [Devices -> [Usernames -> Contents]]
    /\ view \in [Devices -> {"profile", "bootstrapping", "app"}]
    /\ open \in [Devices -> Profiles]
    /\ boot \in [Bootstraps -> Boots]
    /\ deletion \in [Devices -> Deletions]
    /\ wire \subseteq Requests
    /\ answer \in [Callers -> {"none", "ok", "error", "not_found"}]
    /\ generated \subseteq Peers

BootIsSound(b) ==
    /\ boot[b].stage = "none" => boot[b] = NoBoot
    /\ boot[b].stage # "none" => boot[b].device \in Devices /\ boot[b].username \in Usernames
    /\ boot[b].stage \in Armed => boot[b].key \in Peers

DeletionIsSound(d) ==
    /\ deletion[d].stage = "none" => deletion[d] = NoDeletion
    /\ deletion[d].stage # "none" =>
          deletion[d].username \in Usernames /\ deletion[d].key \in Peers

\* A request somebody waits for is the one he sent, and he has no answer yet.
RequestIsSound(q) ==
    /\ q.from \in Bootstraps =>
          /\ boot[q.from].stage = "waiting" /\ answer[q.from] = "none"
          /\ q.kind = "register" /\ q.username = boot[q.from].username /\ q.peer = boot[q.from].key
    /\ q.from \in Devices =>
          /\ deletion[q.from].stage = "waiting" /\ answer[q.from] = "none"
          /\ q.kind = "release" /\ q.username = deletion[q.from].username
          /\ q.peer = deletion[q.from].key

Sound ==
    /\ TypeOK
    /\ \A b \in Bootstraps : BootIsSound(b)
    /\ \A d \in Devices : DeletionIsSound(d)
    /\ \A q \in wire : RequestIsSound(q)
-----------------------------------------------------------------------------
LEMMA NoneHasNothing ==
    /\ NoBoot \in Boots /\ NoBoot.stage = "none" /\ NoBoot.device = None /\ NoBoot.key = None
    /\ NoDeletion \in Deletions /\ NoDeletion.stage = "none" /\ NoDeletion.key = None
    /\ NoProfile \in Profiles /\ NoProfile.key = None
  BY DEF NoBoot, Boots, Stages, NoDeletion, Deletions, NoProfile, Profiles

\* One bootstrap changes, the others do not.
LEMMA OneBoot ==
    ASSUME TypeOK, NEW b \in Bootstraps, NEW r \in Boots, boot' = [boot EXCEPT ![b] = r]
    PROVE  /\ boot' \in [Bootstraps -> Boots] /\ boot'[b] = r
           /\ \A c \in Bootstraps : c # b => boot'[c] = boot[c]
  BY DEF TypeOK

LEMMA Becomes ==
    ASSUME TypeOK, NEW b \in Bootstraps, NEW stage \in Stages, Become(b, stage)
    PROVE  /\ boot' \in [Bootstraps -> Boots]
           /\ boot'[b].stage = stage /\ boot'[b].device = boot[b].device
           /\ boot'[b].username = boot[b].username /\ boot'[b].key = boot[b].key
           /\ boot'[b].hadKey = boot[b].hadKey /\ boot'[b].known = boot[b].known
           /\ \A c \in Bootstraps : c # b => boot'[c] = boot[c]
  BY DEF TypeOK, Become, Boots

\* One directory changes.
LEMMA Replaced ==
    ASSUME Sound, NEW b \in Bootstraps, boot[b].stage # "none", NEW x \in Contents, Replace(b, x)
    PROVE  /\ disk' \in [Devices -> [Usernames -> Contents]]
           /\ disk'[boot[b].device][boot[b].username] = x
           /\ \A d \in Devices, u \in Usernames :
                 d # boot[b].device \/ u # boot[b].username => disk'[d][u] = disk[d][u]
  BY DEF Sound, TypeOK, BootIsSound, Replace

LEMMA Abandoned ==
    ASSUME TypeOK, NEW callers \in SUBSET Callers, Abandon(callers)
    PROVE  /\ wire' \subseteq Requests
           /\ answer' \in [Callers -> {"none", "ok", "error", "not_found"}]
           /\ \A c \in callers : answer'[c] = "none"
           /\ \A c \in Callers : c \notin callers => answer'[c] = answer[c]
           /\ \A q \in wire' :
                 \/ q \in wire /\ q.from \notin callers
                 \/ /\ q.from = None
                    /\ \E p \in wire : /\ p.from \in callers /\ p.kind = q.kind
                                       /\ p.username = q.username /\ p.peer = q.peer
<1> DEFINE others == {q \in wire : q.from \notin callers}
           late == {[q EXCEPT !.from = None] : q \in wire \ others}
<1>1. wire' \subseteq others \cup late
  BY DEF Abandon
<1>2. wire \subseteq Requests /\ answer \in [Callers -> {"none", "ok", "error", "not_found"}]
  BY DEF TypeOK
<1>3. ASSUME NEW q \in late
      PROVE  /\ q \in Requests /\ q.from = None
             /\ \E p \in wire : /\ p.from \in callers /\ p.kind = q.kind
                                /\ p.username = q.username /\ p.peer = q.peer
  <2>1. PICK p \in wire \ others : q = [p EXCEPT !.from = None]
    OBVIOUS
  <2>2. p \in Requests /\ p.from \in callers
    BY <1>2, <2>1
  <2>3. QED
    BY <2>1, <2>2 DEF Requests
<1>4. answer' = [c \in Callers |-> IF c \in callers THEN "none" ELSE answer[c]]
  BY DEF Abandon
<1> HIDE DEF late
<1>5. QED
  BY <1>1, <1>2, <1>3, <1>4

LEMMA Sent ==
    ASSUME TypeOK, NEW c \in Callers, NEW kind \in {"register", "release"},
           NEW u \in Usernames, NEW k \in Peers, Send(c, kind, u, k)
    PROVE  /\ wire' \subseteq Requests
           /\ answer' \in [Callers -> {"none", "ok", "error", "not_found"}]
           /\ answer'[c] = "none" /\ \A e \in Callers : e # c => answer'[e] = answer[e]
           /\ \A q \in wire' : \/ q \in wire
                               \/ q.kind = kind /\ q.username = u /\ q.peer = k /\ q.from = c
  BY DEF TypeOK, Send, Requests

\* A step of one bootstrap that sends and abandons nothing.
LEMMA QuietStep ==
    ASSUME Sound, NEW b \in Bootstraps,
           boot' \in [Bootstraps -> Boots], \A c \in Bootstraps : c # b => boot'[c] = boot[c],
           boot[b].stage # "waiting", BootIsSound(b)',
           disk' \in [Devices -> [Usernames -> Contents]],
           view' \in [Devices -> {"profile", "bootstrapping", "app"}],
           open' \in [Devices -> Profiles], generated' \subseteq Peers,
           UNCHANGED <<names, deletion, wire, answer>>
    PROVE  Sound'
<1>1. TypeOK'
  BY DEF Sound, TypeOK
<1>2. \A c \in Bootstraps : BootIsSound(c)'
  BY DEF Sound, BootIsSound
<1>3. \A q \in wire' : RequestIsSound(q)'
  BY DEF Sound, RequestIsSound
<1>4. QED
  BY <1>1, <1>2, <1>3 DEF Sound, DeletionIsSound

-----------------------------------------------------------------------------
LEMMA SelectIsSound ==
    ASSUME Sound, NEW b \in Bootstraps, NEW d \in Devices, NEW u \in Usernames,
           SelectProfile(b, d, u)
    PROVE  /\ Sound'
           /\ boot'[b].stage = "selected" /\ boot'[b].device = d /\ boot'[b].username = u
           /\ boot'[b].key = None
           /\ \A c \in Bootstraps : c # b => boot'[c] = boot[c]
<1> DEFINE r == [NoBoot EXCEPT !.stage = "selected", !.device = d, !.username = u]
<1>1. /\ r \in Boots /\ r.stage = "selected" /\ r.device = d /\ r.username = u
      /\ r.key = None
  BY NoneHasNothing DEF Boots, Stages
<1>2. boot' = [boot EXCEPT ![b] = r] /\ boot[b].stage = "none"
      /\ UNCHANGED <<names, disk, view, open, deletion, wire, answer, generated>>
  BY DEF SelectProfile
<1> HIDE DEF r
<1>3. boot' \in [Bootstraps -> Boots] /\ boot'[b] = r
      /\ \A c \in Bootstraps : c # b => boot'[c] = boot[c]
  BY <1>1, <1>2, OneBoot DEF Sound
<1>4. BootIsSound(b)'
  BY <1>1, <1>3 DEF BootIsSound, Armed
<1>5. Sound'
  BY <1>2, <1>3, <1>4, QuietStep DEF Sound, TypeOK
<1>6. QED
  BY <1>1, <1>3, <1>5

LEMMA StartIsSound ==
    ASSUME Sound, NEW b \in Bootstraps, StartBootstrap(b)
    PROVE  Sound'
<1>1. /\ boot[b].stage = "selected" /\ Become(b, "started")
      /\ view' = [view EXCEPT ![boot[b].device] = "bootstrapping"]
      /\ open' = [open EXCEPT ![boot[b].device] = NoProfile]
      /\ UNCHANGED <<names, disk, deletion, wire, answer, generated>>
  BY DEF StartBootstrap
<1>2. BootIsSound(b)'
  BY <1>1, Becomes DEF Sound, BootIsSound, Stages, Armed
<1>3. /\ view' \in [Devices -> {"profile", "bootstrapping", "app"}]
      /\ open' \in [Devices -> Profiles]
  BY <1>1, NoneHasNothing DEF Sound, TypeOK
<1>4. boot' \in [Bootstraps -> Boots] /\ \A c \in Bootstraps : c # b => boot'[c] = boot[c]
  <2>1. "started" \in Stages /\ TypeOK
    BY DEF Sound, Stages
  <2>2. QED
    BY <1>1, <2>1, Becomes
<1>5. generated' \subseteq Peers /\ disk' \in [Devices -> [Usernames -> Contents]]
  BY <1>1 DEF Sound, TypeOK
<1>6. QED
  BY <1>1, <1>2, <1>3, <1>4, <1>5, QuietStep

LEMMA CheckIsSound ==
    ASSUME Sound, NEW b \in Bootstraps, CheckKey(b)
    PROVE  /\ Sound'
           /\ boot'[b].stage = "checked" /\ boot'[b].known = generated
           /\ boot'[b].device = boot[b].device /\ boot'[b].username = boot[b].username
           /\ boot'[b].key = boot[b].key
           /\ boot'[b].hadKey = (Directory(b) \notin {"absent", "empty"})
           /\ \A c \in Bootstraps : c # b => boot'[c] = boot[c]
<1> DEFINE had == Directory(b) \notin {"absent", "empty"}
           r == [boot[b] EXCEPT !.stage = "checked", !.hadKey = had, !.known = generated]
<1>1. /\ boot[b].stage = "started" /\ boot' = [boot EXCEPT ![b] = r]
      /\ UNCHANGED <<names, disk, view, open, deletion, wire, answer, generated>>
  BY DEF CheckKey
<1>2. had \in BOOLEAN /\ boot[b] \in Boots /\ generated \subseteq Peers
  BY DEF Sound, TypeOK
<1> HIDE DEF had
<1>3. /\ r \in Boots /\ r.stage = "checked" /\ r.known = generated /\ r.hadKey = had
      /\ r.device = boot[b].device /\ r.username = boot[b].username /\ r.key = boot[b].key
  BY <1>2 DEF Boots, Stages
<1> HIDE DEF r
<1>4. boot' \in [Bootstraps -> Boots] /\ boot'[b] = r
      /\ \A c \in Bootstraps : c # b => boot'[c] = boot[c]
  BY <1>1, <1>3, OneBoot DEF Sound
<1>5. BootIsSound(b)'
  BY <1>1, <1>3, <1>4 DEF Sound, BootIsSound, Armed
<1>6. Sound'
  BY <1>1, <1>4, <1>5, QuietStep DEF Sound, TypeOK
<1>7. QED
  BY <1>3, <1>4, <1>6 DEF had

\* GetKey loads the key of the file, fails on a file without one, or starts a new file.
LEMMA GetKeyIsSound ==
    ASSUME Sound, NEW b \in Bootstraps, GetKey(b)
    PROVE  /\ Sound'
           /\ boot[b].stage = "checked"
           /\ boot'[b].device = boot[b].device /\ boot'[b].username = boot[b].username
           /\ boot'[b].hadKey = boot[b].hadKey /\ boot'[b].known = boot[b].known
           /\ \A c \in Bootstraps : c # b => boot'[c] = boot[c]
           /\ \/ /\ Directory(b) \in Peers /\ UNCHANGED <<disk, generated>>
                 /\ boot'[b].stage = "asking" /\ boot'[b].key = Directory(b)
              \/ /\ boot'[b].stage = "failed" /\ boot'[b].key = boot[b].key
                 /\ UNCHANGED <<disk, generated>>
              \/ /\ Directory(b) \in {"absent", "empty"} /\ Replace(b, b)
                 /\ boot'[b].stage = "writing" /\ boot'[b].key \in Peers \ generated
                 /\ generated' = generated \cup {boot'[b].key}
<1>1. boot[b].stage = "checked" /\ UNCHANGED <<names, view, open, deletion, wire, answer>>
  BY DEF GetKey
<1>2. boot \in [Bootstraps -> Boots] /\ generated \subseteq Peers
  BY DEF Sound, TypeOK
<1>3. CASE /\ Directory(b) \in Peers /\ UNCHANGED <<disk, generated>>
           /\ boot' = [boot EXCEPT ![b].stage = "asking", ![b].key = Directory(b)]
  <2>1. /\ boot' \in [Bootstraps -> Boots]
        /\ boot'[b].stage = "asking" /\ boot'[b].key = Directory(b)
        /\ boot'[b].device = boot[b].device /\ boot'[b].username = boot[b].username
        /\ boot'[b].hadKey = boot[b].hadKey /\ boot'[b].known = boot[b].known
        /\ \A c \in Bootstraps : c # b => boot'[c] = boot[c]
    BY <1>2, <1>3 DEF Boots, Stages, Armed
  <2>2. BootIsSound(b)'
    BY <1>1, <1>3, <2>1 DEF Sound, BootIsSound
  <2>3. QED
    BY <1>1, <1>3, <2>1, <2>2, QuietStep DEF Sound, TypeOK
<1>4. CASE Become(b, "failed") /\ UNCHANGED <<disk, generated>>
  <2>1. BootIsSound(b)'
    BY <1>1, <1>4, Becomes DEF Sound, BootIsSound, Stages, Armed
  <2>2. QED
    BY <1>1, <1>4, <2>1, Becomes, QuietStep DEF Sound, TypeOK, Stages
<1>5. CASE /\ Directory(b) \in {"absent", "empty"} /\ Replace(b, b)
           /\ \E k \in Peers \ generated :
                 /\ boot' = [boot EXCEPT ![b].stage = "writing", ![b].key = k]
                 /\ generated' = generated \cup {k}
  <2>1. PICK k \in Peers \ generated :
                 /\ boot' = [boot EXCEPT ![b].stage = "writing", ![b].key = k]
                 /\ generated' = generated \cup {k}
    BY <1>5
  <2>2. /\ boot' \in [Bootstraps -> Boots]
        /\ boot'[b].stage = "writing" /\ boot'[b].key = k
        /\ boot'[b].device = boot[b].device /\ boot'[b].username = boot[b].username
        /\ boot'[b].hadKey = boot[b].hadKey /\ boot'[b].known = boot[b].known
        /\ \A c \in Bootstraps : c # b => boot'[c] = boot[c]
    BY <1>2, <2>1 DEF Boots, Stages, Armed
  <2>3. BootIsSound(b)'
    BY <1>1, <2>2 DEF Sound, BootIsSound, Armed
  <2>4. disk' \in [Devices -> [Usernames -> Contents]]
    BY <1>1, <1>5, Replaced DEF Contents
  <2>5. Sound'
    BY <1>1, <1>2, <2>1, <2>2, <2>3, <2>4, QuietStep DEF Sound, TypeOK
  <2>6. QED
    BY <1>1, <1>5, <2>1, <2>2, <2>5
<1>6. QED
  BY <1>3, <1>4, <1>5 DEF GetKey

\* A step of a bootstrap to another stage that writes at most its own directory.
LEMMA StageIsSound ==
    ASSUME Sound, NEW b \in Bootstraps, NEW stage \in Stages \ {"none", "waiting"},
           Become(b, stage), boot[b].stage \notin {"none", "waiting"},
           stage \in Armed => boot[b].stage \in Armed,
           UNCHANGED disk \/ \E x \in Contents : Replace(b, x),
           UNCHANGED <<names, view, open, deletion, wire, answer, generated>>
    PROVE  Sound'
<1>1. BootIsSound(b)'
  BY Becomes DEF Sound, BootIsSound
<1>2. disk' \in [Devices -> [Usernames -> Contents]]
  BY Replaced DEF Sound, TypeOK
<1>3. QED
  BY <1>1, <1>2, Becomes, QuietStep DEF Sound, TypeOK

LEMMA WriteIsSound ==
    ASSUME Sound, NEW b \in Bootstraps, WriteKey(b)
    PROVE  Sound'
<1>1. boot[b].stage = "writing" /\ boot[b].key \in Contents
      /\ UNCHANGED <<names, view, open, deletion, wire, answer, generated>>
  BY DEF WriteKey, Sound, BootIsSound, Armed, Contents
<1>2. PICK stage \in {"asking", "failed"} :
         /\ Become(b, stage)
         /\ UNCHANGED disk \/ Replace(b, boot[b].key)
  BY DEF WriteKey
<1>3. QED
  BY <1>1, <1>2, StageIsSound DEF Stages, Armed

LEMMA CleanUpIsSound ==
    ASSUME Sound, NEW b \in Bootstraps, CleanUp(b)
    PROVE  Sound'
<1>1. "absent" \in Contents /\ "failed" \in Stages \ {"none", "waiting"} /\ "failed" \notin Armed
  BY DEF Contents, Stages, Armed
<1>2. QED
  BY <1>1, StageIsSound DEF CleanUp

LEMMA OpenIsSound ==
    ASSUME Sound, NEW b \in Bootstraps, OpenProfile(b)
    PROVE  Sound'
<1> DEFINE x == IF Directory(b) = "absent" THEN "empty" ELSE Directory(b)
<1>1. boot[b].stage = "opening" /\ Replace(b, x)
      /\ UNCHANGED <<names, view, open, deletion, wire, answer, generated>>
  BY DEF OpenProfile
<1>2. x \in Contents
  BY <1>1 DEF Sound, TypeOK, BootIsSound, Directory, Contents
<1>3. PICK stage \in {"ready", "failed"} : Become(b, stage)
  BY DEF OpenProfile
<1> HIDE DEF x
<1>4. QED
  BY <1>1, <1>2, <1>3, StageIsSound DEF Stages, Armed

LEMMA FinishIsSound ==
    ASSUME Sound, NEW b \in Bootstraps, FinishBootstrap(b)
    PROVE  /\ Sound'
           /\ boot'[b] = NoBoot /\ \A c \in Bootstraps : c # b => boot'[c] = boot[c]
<1>1. /\ boot[b].stage \in {"ready", "failed"} /\ boot' = [boot EXCEPT ![b] = NoBoot]
      /\ UNCHANGED <<names, disk, deletion, wire, answer, generated>>
  BY DEF FinishBootstrap
<1>2. boot' \in [Bootstraps -> Boots] /\ boot'[b] = NoBoot
      /\ \A c \in Bootstraps : c # b => boot'[c] = boot[c]
  BY <1>1, NoneHasNothing, OneBoot DEF Sound
<1>3. BootIsSound(b)'
  BY <1>2, NoneHasNothing DEF BootIsSound, Armed
<1>4. view' \in [Devices -> {"profile", "bootstrapping", "app"}]
  BY DEF FinishBootstrap, Sound, TypeOK
<1>5. open' \in [Devices -> Profiles]
  <2>1. [username |-> boot[b].username, key |-> boot[b].key] \in Profiles
    BY DEF Sound, TypeOK, Boots, Profiles
  <2>2. QED
    BY <2>1, NoneHasNothing DEF FinishBootstrap, Sound, TypeOK
<1>6. QED
  BY <1>1, <1>2, <1>3, <1>4, <1>5, QuietStep DEF Sound, TypeOK

LEMMA AskIsSound ==
    ASSUME Sound, NEW b \in Bootstraps, RequestRegistration(b)
    PROVE  Sound'
<1>1. /\ boot[b].stage = "asking" /\ Become(b, "waiting")
      /\ Send(b, "register", boot[b].username, boot[b].key)
      /\ UNCHANGED <<names, disk, view, open, deletion, generated>>
  BY DEF RequestRegistration
<1>2. b \in Callers /\ b \notin Devices
  BY KindsDiffer DEF Callers
<1>3. boot[b].username \in Usernames /\ boot[b].key \in Peers /\ TypeOK
  BY <1>1 DEF Sound, BootIsSound, Armed
<1>4. /\ boot' \in [Bootstraps -> Boots]
      /\ boot'[b].stage = "waiting" /\ boot'[b].device = boot[b].device
      /\ boot'[b].username = boot[b].username /\ boot'[b].key = boot[b].key
      /\ \A c \in Bootstraps : c # b => boot'[c] = boot[c]
  BY <1>1, <1>3, Becomes DEF Stages, Armed
<1>5. /\ wire' \subseteq Requests
      /\ answer' \in [Callers -> {"none", "ok", "error", "not_found"}]
      /\ answer'[b] = "none" /\ \A e \in Callers : e # b => answer'[e] = answer[e]
      /\ \A q \in wire' : \/ q \in wire
                          \/ /\ q.kind = "register" /\ q.username = boot[b].username
                             /\ q.peer = boot[b].key /\ q.from = b
  BY <1>1, <1>2, <1>3, Sent
<1>6. TypeOK'
  BY <1>1, <1>4, <1>5 DEF Sound, TypeOK
<1>7. \A c \in Bootstraps : BootIsSound(c)'
  BY <1>1, <1>4 DEF Sound, BootIsSound, Armed
<1>8. ASSUME NEW q \in wire' PROVE RequestIsSound(q)'
  <2>1. CASE q \in wire
    <3>1. q.from # b
      BY <1>1, <2>1 DEF Sound, RequestIsSound
    <3>2. QED
      BY <1>1, <1>4, <1>5, <2>1, <3>1 DEF Sound, RequestIsSound, Callers
  <2>2. CASE q \notin wire
    BY <1>2, <1>4, <1>5, <2>2 DEF RequestIsSound
  <2>3. QED
    BY <2>1, <2>2
<1>9. QED
  BY <1>1, <1>6, <1>7, <1>8 DEF Sound, DeletionIsSound

\* What stays in the wire when some callers wait no longer.
LEMMA RequestsStaySound ==
    ASSUME Sound, NEW callers \in SUBSET Callers, Abandon(callers),
           \A c \in Bootstraps : c \notin callers => boot'[c] = boot[c],
           \A d \in Devices : d \notin callers => deletion'[d] = deletion[d]
    PROVE  \A q \in wire' : RequestIsSound(q)'
<1>1. SUFFICES ASSUME NEW q \in wire' PROVE RequestIsSound(q)'
  OBVIOUS
<1>2. /\ \A c \in Callers : c \notin callers => answer'[c] = answer[c]
      /\ (q \in wire /\ q.from \notin callers) \/ q.from = None
  BY Abandoned DEF Sound
<1>3. CASE q.from = None
  BY <1>3, KindsDiffer DEF RequestIsSound
<1>4. CASE q \in wire /\ q.from \notin callers
  BY <1>2, <1>4 DEF Sound, RequestIsSound, Callers
<1>5. QED
  BY <1>2, <1>3, <1>4

LEMMA RegisteredIsSound ==
    ASSUME Sound, NEW b \in Bootstraps,
           \/ boot[b].stage = "waiting" /\ Become(b, "opening")
           \/ boot[b].stage \in {"asking", "waiting"} /\ Become(b, "rejected"),
           Abandon({b}), UNCHANGED <<names, disk, view, open, deletion, generated>>
    PROVE  Sound'
<1>1. {b} \in SUBSET Callers /\ TypeOK
  BY DEF Callers, Sound
<1>2. PICK stage \in {"opening", "rejected"} : Become(b, stage)
  OBVIOUS
<1>3. /\ boot' \in [Bootstraps -> Boots]
      /\ boot'[b].stage = stage /\ boot'[b].device = boot[b].device
      /\ boot'[b].username = boot[b].username /\ boot'[b].key = boot[b].key
      /\ \A c \in Bootstraps : c # b => boot'[c] = boot[c]
  BY <1>1, <1>2, Becomes DEF Stages, Armed
<1>4. \A q \in wire' : RequestIsSound(q)'
  BY <1>1, <1>3, RequestsStaySound
<1>5. TypeOK'
  BY <1>1, <1>3, Abandoned DEF TypeOK
<1>6. \A c \in Bootstraps : BootIsSound(c)'
  BY <1>3 DEF Sound, BootIsSound, Armed
<1>7. QED
  BY <1>4, <1>5, <1>6 DEF Sound, DeletionIsSound

LEMMA BeginIsSound ==
    ASSUME Sound, NEW d \in Devices, NEW u \in Usernames, BeginDeletion(d, u)
    PROVE  /\ Sound'
           /\ deletion'[d].stage = "asking" /\ deletion'[d].username = u
           /\ deletion'[d].key = disk[d][u]
           /\ \A e \in Devices : e # d => deletion'[e] = deletion[e]
<1> DEFINE r == [stage |-> "asking", username |-> u, key |-> disk[d][u]]
<1>1. /\ view[d] = "profile" /\ deletion[d].stage = "none" /\ disk[d][u] \in Peers
      /\ deletion' = [deletion EXCEPT ![d] = r]
      /\ UNCHANGED <<names, disk, view, open, boot, wire, answer, generated>>
  BY DEF BeginDeletion, Responsive
<1>2. r \in Deletions /\ r.stage = "asking" /\ r.username = u /\ r.key = disk[d][u]
  BY <1>1 DEF Deletions
<1> HIDE DEF r
<1>3. deletion' \in [Devices -> Deletions] /\ deletion'[d] = r
      /\ \A e \in Devices : e # d => deletion'[e] = deletion[e]
  BY <1>1, <1>2 DEF Sound, TypeOK
<1>4. TypeOK'
  BY <1>1, <1>3 DEF Sound, TypeOK
<1>5. \A e \in Devices : DeletionIsSound(e)'
  BY <1>1, <1>2, <1>3 DEF Sound, DeletionIsSound
<1>6. \A q \in wire' : RequestIsSound(q)'
  BY <1>1, <1>3 DEF Sound, RequestIsSound
<1>7. Sound'
  BY <1>1, <1>4, <1>5, <1>6 DEF Sound, BootIsSound
<1>8. QED
  BY <1>2, <1>3, <1>7

\* A deletion goes on.
LEMMA DeletionBecomes ==
    ASSUME TypeOK, NEW d \in Devices, NEW stage \in {"asking", "waiting", "removing"},
           deletion' = [deletion EXCEPT ![d].stage = stage]
    PROVE  /\ deletion' \in [Devices -> Deletions]
           /\ deletion'[d].stage = stage /\ deletion'[d].username = deletion[d].username
           /\ deletion'[d].key = deletion[d].key
           /\ \A e \in Devices : e # d => deletion'[e] = deletion[e]
  BY DEF TypeOK, Deletions

LEMMA ReleaseIsSound ==
    ASSUME Sound, NEW d \in Devices, RequestRelease(d)
    PROVE  Sound'
<1>1. /\ deletion[d].stage = "asking"
      /\ Send(d, "release", deletion[d].username, deletion[d].key)
      /\ deletion' = [deletion EXCEPT ![d].stage = "waiting"]
      /\ UNCHANGED <<names, disk, view, open, boot, generated>>
  BY DEF RequestRelease
<1>2. d \in Callers /\ d \notin Bootstraps
  BY KindsDiffer DEF Callers
<1>3. deletion[d].username \in Usernames /\ deletion[d].key \in Peers /\ TypeOK
  BY <1>1 DEF Sound, DeletionIsSound
<1>4. /\ deletion' \in [Devices -> Deletions]
      /\ deletion'[d].stage = "waiting" /\ deletion'[d].username = deletion[d].username
      /\ deletion'[d].key = deletion[d].key
      /\ \A e \in Devices : e # d => deletion'[e] = deletion[e]
  BY <1>1, <1>3, DeletionBecomes
<1>5. /\ wire' \subseteq Requests
      /\ answer' \in [Callers -> {"none", "ok", "error", "not_found"}]
      /\ answer'[d] = "none" /\ \A e \in Callers : e # d => answer'[e] = answer[e]
      /\ \A q \in wire' : \/ q \in wire
                          \/ /\ q.kind = "release" /\ q.username = deletion[d].username
                             /\ q.peer = deletion[d].key /\ q.from = d
  BY <1>1, <1>2, <1>3, Sent
<1>6. TypeOK'
  BY <1>1, <1>4, <1>5 DEF Sound, TypeOK
<1>7. \A e \in Devices : DeletionIsSound(e)'
  BY <1>1, <1>3, <1>4 DEF Sound, DeletionIsSound
<1>8. ASSUME NEW q \in wire' PROVE RequestIsSound(q)'
  <2>1. CASE q \in wire
    <3>1. q.from # d
      BY <1>1, <2>1 DEF Sound, RequestIsSound
    <3>2. QED
      BY <1>1, <1>4, <1>5, <2>1, <3>1 DEF Sound, RequestIsSound, Callers
  <2>2. CASE q \notin wire
    BY <1>2, <1>4, <1>5, <2>2 DEF RequestIsSound
  <2>3. QED
    BY <2>1, <2>2
<1>9. QED
  BY <1>1, <1>6, <1>7, <1>8 DEF Sound, BootIsSound

LEMMA ReleaseEndIsSound ==
    ASSUME Sound, NEW d \in Devices, ReleaseEnded(d)
    PROVE  Sound'
<1>1. /\ deletion[d].stage \in {"asking", "waiting"} /\ Abandon({d})
      /\ deletion' = [deletion EXCEPT ![d].stage = "removing"]
      /\ UNCHANGED <<names, disk, view, open, boot, generated>>
  BY DEF ReleaseEnded
<1>2. {d} \in SUBSET Callers /\ TypeOK
  BY DEF Callers, Sound
<1>3. /\ deletion' \in [Devices -> Deletions]
      /\ deletion'[d].stage = "removing" /\ deletion'[d].username = deletion[d].username
      /\ deletion'[d].key = deletion[d].key
      /\ \A e \in Devices : e # d => deletion'[e] = deletion[e]
  BY <1>1, <1>2, DeletionBecomes
<1>4. \A q \in wire' : RequestIsSound(q)'
  BY <1>1, <1>2, <1>3, RequestsStaySound
<1>5. TypeOK'
  BY <1>1, <1>2, <1>3, Abandoned DEF TypeOK
<1>6. \A e \in Devices : DeletionIsSound(e)'
  BY <1>1, <1>3 DEF Sound, DeletionIsSound
<1>7. QED
  BY <1>1, <1>4, <1>5, <1>6 DEF Sound, BootIsSound

LEMMA RemoveIsSound ==
    ASSUME Sound, NEW d \in Devices, RemoveProfile(d)
    PROVE  /\ Sound'
           /\ deletion'[d] = NoDeletion /\ \A e \in Devices : e # d => deletion'[e] = deletion[e]
           /\ disk'[d][deletion[d].username] = "absent"
           /\ \A e \in Devices, u \in Usernames :
                 e # d \/ u # deletion[d].username => disk'[e][u] = disk[e][u]
<1>1. /\ deletion[d].stage = "removing" /\ deletion[d].username \in Usernames
      /\ disk' = [disk EXCEPT ![d][deletion[d].username] = "absent"]
      /\ deletion' = [deletion EXCEPT ![d] = NoDeletion]
      /\ UNCHANGED <<names, view, open, boot, wire, answer, generated>>
  BY DEF RemoveProfile, Sound, DeletionIsSound
<1>2. deletion' \in [Devices -> Deletions] /\ deletion'[d] = NoDeletion
      /\ \A e \in Devices : e # d => deletion'[e] = deletion[e]
  BY <1>1, NoneHasNothing DEF Sound, TypeOK
<1>3. /\ disk' \in [Devices -> [Usernames -> Contents]]
      /\ disk'[d][deletion[d].username] = "absent"
      /\ \A e \in Devices, u \in Usernames :
            e # d \/ u # deletion[d].username => disk'[e][u] = disk[e][u]
  BY <1>1 DEF Sound, TypeOK, Contents
<1>4. TypeOK'
  BY <1>1, <1>2, <1>3 DEF Sound, TypeOK
<1>5. \A e \in Devices : DeletionIsSound(e)'
  BY <1>2, NoneHasNothing DEF Sound, DeletionIsSound
<1>6. \A q \in wire' : RequestIsSound(q)'
  BY <1>1, <1>2 DEF Sound, RequestIsSound
<1>7. QED
  BY <1>1, <1>2, <1>3, <1>4, <1>5, <1>6 DEF Sound, BootIsSound

LEMMA RestartIsSound ==
    ASSUME Sound, NEW d \in Devices, Restart(d)
    PROVE  /\ Sound'
           /\ \A b \in Bootstraps :
                 boot'[b] = IF boot[b].device = d THEN NoBoot ELSE boot[b]
           /\ deletion'[d] = NoDeletion /\ \A e \in Devices : e # d => deletion'[e] = deletion[e]
           /\ \A u \in Usernames :
                 disk'[d][u] = IF disk[d][u] \in Bootstraps THEN "torn" ELSE disk[d][u]
           /\ \A e \in Devices : e # d => disk'[e] = disk[e]
<1> DEFINE mine == {b \in Bootstraps : boot[b].device = d}
<1>1. /\ disk' = [disk EXCEPT ![d] =
                     [u \in Usernames |-> IF @[u] \in Bootstraps THEN "torn" ELSE @[u]]]
      /\ view' = [view EXCEPT ![d] = "profile"] /\ open' = [open EXCEPT ![d] = NoProfile]
      /\ boot' = [b \in Bootstraps |-> IF b \in mine THEN NoBoot ELSE boot[b]]
      /\ deletion' = [deletion EXCEPT ![d] = NoDeletion]
      /\ Abandon(mine \cup {d}) /\ UNCHANGED <<names, generated>>
  BY DEF Restart
<1>2. TypeOK /\ mine \cup {d} \in SUBSET Callers
  BY DEF Sound, Callers
<1>3. /\ \A b \in Bootstraps : boot'[b] = IF boot[b].device = d THEN NoBoot ELSE boot[b]
      /\ boot' \in [Bootstraps -> Boots]
  BY <1>1, <1>2, NoneHasNothing DEF TypeOK
<1>4. deletion' \in [Devices -> Deletions] /\ deletion'[d] = NoDeletion
      /\ \A e \in Devices : e # d => deletion'[e] = deletion[e]
  BY <1>1, <1>2, NoneHasNothing DEF TypeOK
<1>5. /\ \A u \in Usernames :
            disk'[d][u] = IF disk[d][u] \in Bootstraps THEN "torn" ELSE disk[d][u]
      /\ \A e \in Devices : e # d => disk'[e] = disk[e]
      /\ disk' \in [Devices -> [Usernames -> Contents]]
  BY <1>1, <1>2 DEF TypeOK, Contents
<1>6. /\ view' \in [Devices -> {"profile", "bootstrapping", "app"}]
      /\ open' \in [Devices -> Profiles]
  BY <1>1, <1>2, NoneHasNothing DEF TypeOK
<1>7. TypeOK'
  <2>1. wire' \subseteq Requests /\ answer' \in [Callers -> {"none", "ok", "error", "not_found"}]
    BY <1>1, <1>2, Abandoned
  <2>2. QED
    BY <1>1, <1>2, <1>3, <1>4, <1>5, <1>6, <2>1 DEF TypeOK
<1>8. \A q \in wire' : RequestIsSound(q)'
  <2>1. \A c \in Bootstraps : c \notin mine \cup {d} => boot'[c] = boot[c]
    BY <1>3
  <2>2. \A e \in Devices : e \notin mine \cup {d} => deletion'[e] = deletion[e]
    BY <1>4
  <2> HIDE DEF mine
  <2>3. QED
    BY <1>1, <1>2, <2>1, <2>2, RequestsStaySound
<1>9. \A b \in Bootstraps : BootIsSound(b)'
  BY <1>3, NoneHasNothing DEF Sound, BootIsSound, Armed
<1>10. \A e \in Devices : DeletionIsSound(e)'
  BY <1>4, NoneHasNothing DEF Sound, DeletionIsSound
<1>11. QED
  BY <1>3, <1>4, <1>5, <1>7, <1>8, <1>9, <1>10 DEF Sound

\* The registry serves a request: what it does to the names, and who is told.
LEMMA ServeIsSound ==
    ASSUME Sound, NEW q \in wire, Serve(q)
    PROVE  /\ Sound'
           /\ wire' = wire \ {q}
           /\ \A c \in Callers : c # q.from => answer'[c] = answer[c]
           /\ q.from \in Callers /\ answer'[q.from] = "ok" /\ q.kind = "register" =>
                 [username |-> q.username, peer |-> q.peer] \in names'
           /\ q.from \in Callers /\ answer'[q.from] \in {"ok", "not_found"} /\ q.kind = "release" =>
                 [username |-> q.username, peer |-> q.peer] \notin names'
           /\ \A n \in names' : n \in names \/ /\ q.kind = "register" /\ n.username = q.username
                                               /\ n.peer = q.peer
           /\ \A n \in names : n \in names' \/ (q.kind = "release" /\ n.peer = q.peer)
           /\ UNCHANGED <<disk, view, open, boot, deletion, generated, troubled, released,
                          overlapped>>
<1>1. /\ q \in Requests /\ TypeOK
      /\ UNCHANGED <<disk, view, open, boot, deletion, generated, troubled, released, overlapped>>
  BY DEF Serve, device, Sound, TypeOK
<1> DEFINE n == [username |-> q.username, peer |-> q.peer]
<1>2. n \in [username: Usernames, peer: Peers] /\ n.username = q.username /\ n.peer = q.peer
  BY <1>1 DEF Requests
<1> HIDE DEF n
<1>3. PICK what \in {"ok", "error", "not_found"} :
         /\ Reply(q, what)
         /\ \/ /\ q.kind = "register" /\ names' = names \cup {n} /\ what = "ok"
            \/ /\ q.kind = "register" /\ n \in names /\ names' = names /\ what = "ok"
            \/ /\ q.kind = "release" /\ names' = names \ {n}
            \/ /\ what = "error" /\ names' = names
  BY DEF Serve, ServeRegister, ServeRelease, Grant, Withdraw, n
<1>4. /\ wire' = wire \ {q}
      /\ answer' \in [Callers -> {"none", "ok", "error", "not_found"}]
      /\ \A c \in Callers : answer'[c] = IF c = q.from THEN what ELSE answer[c]
  BY <1>1, <1>3 DEF Reply, TypeOK
<1>5. names' \subseteq [username: Usernames, peer: Peers]
  BY <1>1, <1>2, <1>3 DEF TypeOK
<1>6. TypeOK'
  BY <1>1, <1>4, <1>5 DEF TypeOK
<1>7. ASSUME NEW p \in wire' PROVE RequestIsSound(p)'
  <2>1. p \in wire /\ p # q /\ p \in Requests
    BY <1>1, <1>4 DEF TypeOK
  <2>2. p.from \in Callers => p.from # q.from
    <3>1. ASSUME p.from \in Callers, p.from = q.from
          PROVE  p.kind = q.kind /\ p.username = q.username /\ p.peer = q.peer
      BY <2>1, <3>1 DEF Sound, RequestIsSound, Callers
    <3>2. QED
      BY <1>1, <2>1, <3>1 DEF Requests
  <2>3. QED
    BY <1>1, <1>4, <2>1, <2>2 DEF Sound, RequestIsSound, Callers
<1>8. Sound'
  BY <1>1, <1>6, <1>7 DEF Sound, BootIsSound, DeletionIsSound
<1>9. /\ \A m \in names' : m \in names \/ /\ q.kind = "register" /\ m.username = q.username
                                          /\ m.peer = q.peer
      /\ \A m \in names : m \in names' \/ (q.kind = "release" /\ m.peer = q.peer)
  <2>1. /\ \A m \in names' : m \in names \/ (q.kind = "register" /\ m = n)
        /\ \A m \in names : m \in names' \/ (q.kind = "release" /\ m = n)
    BY <1>3
  <2>2. QED
    BY <1>2, <2>1
<1>10. /\ q.from \in Callers /\ answer'[q.from] = "ok" /\ q.kind = "register" => n \in names'
       /\ q.from \in Callers /\ answer'[q.from] \in {"ok", "not_found"} /\ q.kind = "release" =>
             n \notin names'
  BY <1>3, <1>4
<1>11. QED
  BY <1>1, <1>4, <1>8, <1>9, <1>10 DEF n

LEMMA BootstrapIsSound ==
    ASSUME Sound, NEW b \in Bootstraps, BootstrapStep(b)
    PROVE  Sound'
<1>1. ASSUME Registered(b) \/ NotRegistered(b) PROVE Sound'
  BY <1>1, RegisteredIsSound DEF Registered, NotRegistered
<1>2. QED
  BY <1>1, StartIsSound, CheckIsSound, GetKeyIsSound, WriteIsSound, AskIsSound, CleanUpIsSound,
     OpenIsSound, FinishIsSound
  DEF BootstrapStep

LEMMA StutterIsSound == Sound /\ UNCHANGED vars => Sound'
  BY DEF vars, Sound, TypeOK, BootIsSound, DeletionIsSound, RequestIsSound

LEMMA AlwaysSound == LifecycleSpec => []Sound
<1>1. LifecycleInit => Sound
  BY NoneHasNothing
  DEF LifecycleInit, Init, Sound, TypeOK, BootIsSound, DeletionIsSound, Contents, Armed
<1>2. Sound /\ [LifecycleNext]_vars => Sound'
  BY BootstrapIsSound, SelectIsSound, BeginIsSound, ReleaseIsSound, ReleaseEndIsSound,
     RemoveIsSound, RestartIsSound, ServeIsSound, StutterIsSound
  DEF LifecycleNext, DeletionStep
<1>3. QED
  BY <1>1, <1>2, PTL DEF LifecycleSpec
-----------------------------------------------------------------------------
(* Keys older than a bootstrap.  One that found no key file when it looked *)
(* never sees an older key in its directory: a bootstrap that was writing  *)
(* by then had already lost its file, one that starts later has a new key. *)
Looked == {"checked"} \cup Armed

OldKeysAreElsewhere(b) ==
    boot[b].stage \in Looked =>
        /\ boot[b].known \subseteq generated
        /\ ~boot[b].hadKey => Directory(b) \notin boot[b].known
        /\ ~boot[b].hadKey =>
              \A c \in Bootstraps :
                  /\ boot[c].stage = "writing" /\ Directory(b) = c
                  /\ boot[c].device = boot[b].device /\ boot[c].username = boot[b].username
                  => boot[c].key \notin boot[b].known

OldKeysInv == \A b \in Bootstraps : OldKeysAreElsewhere(b)

\* Nothing of interest to b happens to its directory or to those who write.
LEMMA OldKeysStay ==
    ASSUME Sound, NEW b \in Bootstraps, OldKeysAreElsewhere(b), generated \subseteq generated',
           boot'[b].stage \in Looked =>
               /\ boot[b].stage \in Looked /\ boot'[b].device = boot[b].device
               /\ boot'[b].username = boot[b].username /\ boot'[b].known = boot[b].known
               /\ boot'[b].hadKey = boot[b].hadKey
               /\ disk'[boot[b].device][boot[b].username]
                     \in {Directory(b), "absent", "empty", "torn"},
           \A c \in Bootstraps : boot'[c].stage = "writing" =>
               /\ boot[c].stage = "writing" /\ boot'[c].key = boot[c].key
               /\ boot'[c].device = boot[c].device /\ boot'[c].username = boot[c].username
    PROVE  OldKeysAreElsewhere(b)'
<1>1. SUFFICES ASSUME boot'[b].stage \in Looked PROVE OldKeysAreElsewhere(b)'
  BY DEF OldKeysAreElsewhere
<1>2. Directory(b)' \in {Directory(b), "absent", "empty", "torn"}
  BY <1>1 DEF Directory
<1>3. boot[b].known \subseteq Peers
  BY DEF Sound, TypeOK, Boots
<1>4. \A c \in Bootstraps : c \notin {"absent", "empty", "torn"}
  BY KindsDiffer
<1>5. \A k \in Peers : k \notin {"absent", "empty", "torn"}
  BY KindsDiffer
<1>6. QED
  BY <1>1, <1>2, <1>3, <1>4, <1>5 DEF OldKeysAreElsewhere

LEMMA CheckKeepsOld ==
    ASSUME Sound, OldKeysInv, NEW b \in Bootstraps, CheckKey(b)
    PROVE  OldKeysInv'
<1>1. /\ boot'[b].stage = "checked" /\ boot'[b].known = generated
      /\ boot'[b].device = boot[b].device /\ boot'[b].username = boot[b].username
      /\ boot'[b].hadKey = (Directory(b) \notin {"absent", "empty"})
      /\ \A c \in Bootstraps : c # b => boot'[c] = boot[c]
      /\ UNCHANGED <<disk, generated>>
  BY CheckIsSound DEF CheckKey
<1>2. ASSUME NEW c \in Bootstraps, c # b PROVE OldKeysAreElsewhere(c)'
  <2>1. disk'[boot[c].device][boot[c].username] = Directory(c)
    BY <1>1 DEF Directory
  <2>2. QED
    BY <1>1, <1>2, <2>1, OldKeysStay DEF OldKeysInv
<1>3. OldKeysAreElsewhere(b)'
  <2>1. Directory(b)' = Directory(b)
    BY <1>1 DEF Directory
  <2>2. Directory(b) \in {"absent", "empty"} => Directory(b) \notin generated \cup Bootstraps
    BY KindsDiffer DEF Sound, TypeOK
  <2>3. QED
    BY <1>1, <2>1, <2>2 DEF OldKeysAreElsewhere
<1>4. QED
  BY <1>2, <1>3 DEF OldKeysInv

LEMMA GetKeyKeepsOld ==
    ASSUME Sound, OldKeysInv, NEW b \in Bootstraps, GetKey(b)
    PROVE  OldKeysInv'
<1>1. /\ boot[b].stage = "checked"
      /\ boot'[b].device = boot[b].device /\ boot'[b].username = boot[b].username
      /\ boot'[b].hadKey = boot[b].hadKey /\ boot'[b].known = boot[b].known
      /\ \A c \in Bootstraps : c # b => boot'[c] = boot[c]
  BY GetKeyIsSound
<1>2. CASE UNCHANGED <<disk, generated>> /\ boot'[b].stage \in {"asking", "failed"}
  <2>1. ASSUME NEW c \in Bootstraps PROVE OldKeysAreElsewhere(c)'
    <3>1. disk'[boot[c].device][boot[c].username] = Directory(c)
      BY <1>2 DEF Directory
    <3>2. QED
      BY <1>1, <1>2, <3>1, OldKeysStay DEF OldKeysInv, Looked
  <2>2. QED
    BY <2>1 DEF OldKeysInv
<1>3. CASE /\ Replace(b, b)
           /\ boot'[b].stage = "writing" /\ boot'[b].key \in Peers \ generated
           /\ generated' = generated \cup {boot'[b].key}
  <2>1. /\ disk'[boot[b].device][boot[b].username] = b
        /\ \A d \in Devices, u \in Usernames :
              d # boot[b].device \/ u # boot[b].username => disk'[d][u] = disk[d][u]
    BY <1>1, <1>3, Replaced DEF Contents
  <2>2. ASSUME NEW c \in Bootstraps, boot'[c].stage \in Looked PROVE OldKeysAreElsewhere(c)'
    <3>1. /\ boot[c].stage \in Looked /\ boot'[c].device = boot[c].device
          /\ boot'[c].username = boot[c].username /\ boot'[c].hadKey = boot[c].hadKey
          /\ boot'[c].known = boot[c].known
          /\ boot[c].device \in Devices /\ boot[c].username \in Usernames
      BY <1>1, <2>2 DEF Looked, Sound, BootIsSound, Armed
    <3>2. boot[c].known \subseteq generated /\ generated \subseteq Peers
      BY <3>1 DEF OldKeysInv, OldKeysAreElsewhere, Sound, TypeOK
    <3>3. CASE boot[c].device = boot[b].device /\ boot[c].username = boot[b].username
      <4>1. Directory(c)' = b
        BY <2>1, <3>1, <3>3 DEF Directory
      <4>2. b \notin Peers
        BY KindsDiffer
      <4>3. QED
        BY <1>3, <3>1, <3>2, <4>1, <4>2 DEF OldKeysAreElsewhere
    <3>4. CASE boot[c].device # boot[b].device \/ boot[c].username # boot[b].username
      <4>1. Directory(c)' = Directory(c)
        BY <2>1, <3>1, <3>4 DEF Directory
      <4>2. \A e \in Bootstraps : e # b => boot'[e] = boot[e]
        BY <1>1
      <4>3. QED
        BY <1>1, <1>3, <3>1, <3>2, <3>4, <4>1, <4>2 DEF OldKeysInv, OldKeysAreElsewhere
    <3>5. QED
      BY <3>3, <3>4
  <2>3. QED
    BY <2>2 DEF OldKeysInv, OldKeysAreElsewhere
<1>4. QED
  BY <1>2, <1>3, GetKeyIsSound

LEMMA WriteKeepsOld ==
    ASSUME Sound, OldKeysInv, NEW b \in Bootstraps, WriteKey(b)
    PROVE  OldKeysInv'
<1>1. boot[b].stage = "writing" /\ boot[b].key \in Peers /\ UNCHANGED generated
      /\ boot[b].device \in Devices /\ boot[b].username \in Usernames
  BY DEF WriteKey, Sound, BootIsSound, Armed
<1>2. PICK stage \in {"asking", "failed"} :
         /\ Become(b, stage)
         /\ UNCHANGED disk \/ (Directory(b) = b /\ Replace(b, boot[b].key))
  BY DEF WriteKey
<1>3. /\ boot'[b].stage = stage /\ boot'[b].device = boot[b].device
      /\ boot'[b].username = boot[b].username
      /\ boot'[b].hadKey = boot[b].hadKey /\ boot'[b].known = boot[b].known
      /\ \A c \in Bootstraps : c # b => boot'[c] = boot[c]
  BY <1>2, Becomes DEF Sound, Stages, Armed
<1>4. ASSUME NEW c \in Bootstraps, boot'[c].stage \in Looked PROVE OldKeysAreElsewhere(c)'
  <2>1. /\ boot[c].stage \in Looked /\ boot'[c].device = boot[c].device
        /\ boot'[c].username = boot[c].username /\ boot'[c].hadKey = boot[c].hadKey
        /\ boot'[c].known = boot[c].known
        /\ boot[c].device \in Devices /\ boot[c].username \in Usernames
    BY <1>1, <1>3, <1>4 DEF Looked, Sound, BootIsSound, Armed
  <2>2. CASE disk'[boot[c].device][boot[c].username] = Directory(c)
    <3>1. \A e \in Bootstraps : boot'[e].stage = "writing" => boot'[e] = boot[e]
      BY <1>2, <1>3
    <3>2. QED
      BY <1>1, <2>1, <2>2, <3>1, OldKeysStay DEF OldKeysInv
  <2>3. CASE /\ Directory(b) = b /\ Replace(b, boot[b].key)
             /\ boot[c].device = boot[b].device /\ boot[c].username = boot[b].username
    <3>1. Directory(c) = b
      BY <2>3 DEF Directory
    <3>2. Directory(c)' = boot[b].key
      BY <1>1, <2>1, <2>3, Replaced DEF Directory, Contents
    <3>3. boot[b].key \notin Bootstraps
      BY <1>1, KindsDiffer
    <3>4. QED
      BY <1>1, <2>1, <2>3, <3>1, <3>2, <3>3 DEF OldKeysInv, OldKeysAreElsewhere
  <2>4. CASE Replace(b, boot[b].key)
             /\ (boot[c].device # boot[b].device \/ boot[c].username # boot[b].username)
    <3>1. disk'[boot[c].device][boot[c].username] = disk[boot[c].device][boot[c].username]
      BY <1>1, <2>1, <2>4, Replaced DEF Contents
    <3>2. QED
      BY <2>2, <3>1 DEF Directory
  <2>5. CASE UNCHANGED disk
    BY <2>2, <2>5 DEF Directory
  <2>6. QED
    BY <1>2, <2>3, <2>4, <2>5
<1>5. QED
  BY <1>4 DEF OldKeysInv, OldKeysAreElsewhere

\* The stages of a bootstrap that has looked for its key go on in one direction.
LEMMA LaterStagesKeepOld ==
    ASSUME Sound, OldKeysInv, NEW b \in Bootstraps,
           NEW stage \in Stages \ {"writing", "checked"}, Become(b, stage),
           boot[b].stage \in Looked \/ stage \notin Looked, boot[b].stage # "none",
           generated' = generated,
           \/ UNCHANGED disk
           \/ Replace(b, "absent") \/ Replace(b, "empty") \/ Replace(b, Directory(b))
    PROVE  OldKeysInv'
<1>1. /\ boot'[b].stage = stage /\ boot'[b].device = boot[b].device
      /\ boot'[b].username = boot[b].username /\ boot'[b].key = boot[b].key
      /\ boot'[b].hadKey = boot[b].hadKey /\ boot'[b].known = boot[b].known
      /\ \A c \in Bootstraps : c # b => boot'[c] = boot[c]
  BY Becomes DEF Sound
<1>2. ASSUME NEW c \in Bootstraps PROVE OldKeysAreElsewhere(c)'
  <2>1. boot'[c].stage \in Looked =>
           disk'[boot[c].device][boot[c].username]
              \in {Directory(c), "absent", "empty", "torn"}
    <3>1. SUFFICES ASSUME boot'[c].stage \in Looked, ~UNCHANGED disk
                   PROVE  disk'[boot[c].device][boot[c].username]
                             \in {Directory(c), "absent", "empty", "torn"}
      BY DEF Directory
    <3>2. /\ boot[c].device \in Devices /\ boot[c].username \in Usernames
          /\ boot[b].device \in Devices /\ boot[b].username \in Usernames
      BY <1>1, <3>1 DEF Sound, BootIsSound, Looked, Armed
    <3>3. Directory(b) \in Contents
      BY <3>2 DEF Directory, Sound, TypeOK
    <3>4. PICK x \in {"absent", "empty", Directory(b)} : Replace(b, x)
      BY <3>1
    <3>5. x \in Contents
      BY <3>3 DEF Contents
    <3>6. /\ disk'[boot[b].device][boot[b].username] = x
          /\ \A d \in Devices, u \in Usernames :
                d # boot[b].device \/ u # boot[b].username => disk'[d][u] = disk[d][u]
      BY <3>4, <3>5, Replaced
    <3>7. QED
      BY <3>2, <3>4, <3>6 DEF Directory
  <2>2. QED
    BY <1>1, <2>1, OldKeysStay DEF OldKeysInv
<1>3. QED
  BY <1>2 DEF OldKeysInv

\* Steps that leave the bootstraps that have looked alone, or end them.
LEMMA OthersKeepOld ==
    ASSUME Sound, OldKeysInv, generated' = generated,
           \A b \in Bootstraps : boot'[b] = boot[b] \/ boot'[b].stage \notin Looked,
           \A d \in Devices, u \in Usernames :
               disk'[d][u] \in {disk[d][u], "absent", "empty", "torn"}
    PROVE  OldKeysInv'
<1>1. ASSUME NEW b \in Bootstraps PROVE OldKeysAreElsewhere(b)'
  <2>1. boot'[b].stage \in Looked =>
           /\ boot'[b] = boot[b]
           /\ boot[b].device \in Devices /\ boot[b].username \in Usernames
    BY DEF Sound, BootIsSound, Looked, Armed
  <2>2. \A c \in Bootstraps : boot'[c].stage = "writing" => boot'[c] = boot[c]
    BY DEF Looked, Armed
  <2>3. QED
    BY <2>1, <2>2, OldKeysStay DEF OldKeysInv, Directory
<1>2. QED
  BY <1>1 DEF OldKeysInv

LEMMA BootstrapKeepsOld ==
    ASSUME Sound, OldKeysInv, NEW b \in Bootstraps, BootstrapStep(b)
    PROVE  OldKeysInv'
<1>1. CASE \/ StartBootstrap(b) \/ RequestRegistration(b) \/ Registered(b) \/ NotRegistered(b)
           \/ CleanUp(b) \/ OpenProfile(b)
  <2>1. /\ \E stage \in {"started", "waiting", "opening", "rejected", "failed", "ready"} :
              /\ Become(b, stage)
              /\ boot[b].stage \in Looked \/ stage = "started"
        /\ boot[b].stage # "none" /\ generated' = generated
    BY <1>1
    DEF StartBootstrap, RequestRegistration, Registered, NotRegistered, CleanUp, OpenProfile,
        Looked, Armed
  <2>2. \/ UNCHANGED disk
        \/ Replace(b, "absent") \/ Replace(b, "empty") \/ Replace(b, Directory(b))
    BY <1>1
    DEF StartBootstrap, RequestRegistration, Registered, NotRegistered, CleanUp, OpenProfile
  <2>3. PICK stage \in {"started", "waiting", "opening", "rejected", "failed", "ready"} :
              /\ Become(b, stage)
              /\ boot[b].stage \in Looked \/ stage = "started"
    BY <2>1
  <2>4. /\ stage \in Stages \ {"writing", "checked"}
        /\ stage = "started" => stage \notin Looked
    BY DEF Stages, Looked, Armed
  <2>5. QED
    BY <2>1, <2>2, <2>3, <2>4, LaterStagesKeepOld
<1>2. CASE FinishBootstrap(b)
  <2>1. /\ boot'[b].stage = "none" /\ \A c \in Bootstraps : c # b => boot'[c] = boot[c]
        /\ UNCHANGED <<disk, generated>>
    BY <1>2, FinishIsSound, NoneHasNothing DEF FinishBootstrap
  <2>2. QED
    BY <2>1, OthersKeepOld DEF Looked, Armed
<1>3. QED
  BY <1>1, <1>2, CheckKeepsOld, GetKeyKeepsOld, WriteKeepsOld DEF BootstrapStep

LEMMA NextKeepsOld == Sound /\ OldKeysInv /\ [LifecycleNext]_vars => OldKeysInv'
<1> SUFFICES ASSUME Sound, OldKeysInv, [LifecycleNext]_vars PROVE OldKeysInv'
  OBVIOUS
<1>1. ASSUME NEW b \in Bootstraps, NEW d \in Devices, NEW u \in Usernames, SelectProfile(b, d, u)
      PROVE  OldKeysInv'
  <2>1. /\ boot'[b].stage = "selected" /\ \A c \in Bootstraps : c # b => boot'[c] = boot[c]
    BY <1>1, SelectIsSound
  <2>2. UNCHANGED <<disk, generated>>
    BY <1>1 DEF SelectProfile
  <2>3. QED
    BY <2>1, <2>2, OthersKeepOld DEF Looked, Armed
<1>2. ASSUME UNCHANGED <<boot, disk, generated>> PROVE OldKeysInv'
  BY <1>2, OthersKeepOld
<1>3. ASSUME NEW d \in Devices, RemoveProfile(d) PROVE OldKeysInv'
  <2>1. UNCHANGED <<boot, generated>>
    BY <1>3 DEF RemoveProfile
  <2>2. \A e \in Devices, u \in Usernames : disk'[e][u] \in {disk[e][u], "absent", "empty", "torn"}
    BY <1>3, RemoveIsSound
  <2>3. QED
    BY <2>1, <2>2, OthersKeepOld
<1>4. ASSUME NEW d \in Devices, Restart(d) PROVE OldKeysInv'
  <2>1. \A b \in Bootstraps : boot'[b] = boot[b] \/ boot'[b].stage \notin Looked
    BY <1>4, RestartIsSound, NoneHasNothing DEF Looked, Armed
  <2>2. \A e \in Devices, u \in Usernames : disk'[e][u] \in {disk[e][u], "absent", "empty", "torn"}
    BY <1>4, RestartIsSound
  <2>3. QED
    BY <1>4, <2>1, <2>2, OthersKeepOld DEF Restart
<1>5. ASSUME NEW d \in Devices, NEW u \in Usernames, BeginDeletion(d, u) PROVE OldKeysInv'
  BY <1>2, <1>5 DEF BeginDeletion
<1>6. ASSUME NEW d \in Devices, RequestRelease(d) \/ ReleaseEnded(d) PROVE OldKeysInv'
  BY <1>2, <1>6 DEF RequestRelease, ReleaseEnded
<1>7. ASSUME NEW q \in wire, Serve(q) PROVE OldKeysInv'
  BY <1>2, <1>7 DEF Serve, device
<1>8. ASSUME UNCHANGED vars PROVE OldKeysInv'
  BY <1>2, <1>8 DEF vars
<1>9. QED
  BY <1>1, <1>3, <1>4, <1>5, <1>6, <1>7, <1>8, BootstrapKeepsOld DEF LifecycleNext, DeletionStep

\* Only the error branch of its own bootstrap turns a rejection into a failure.
LEMMA OnlyCleanUpFails ==
    ASSUME Sound, LifecycleNext, NEW b \in Bootstraps,
           boot[b].stage = "rejected", boot'[b].stage = "failed"
    PROVE  CleanUp(b)
<1>1. ASSUME NEW c \in Bootstraps, NEW d \in Devices, NEW u \in Usernames, SelectProfile(c, d, u)
      PROVE  boot'[b] = boot[b]
  <2>1. boot[c].stage = "none"
    BY <1>1 DEF SelectProfile
  <2>2. QED
    BY <1>1, <2>1, SelectIsSound
<1>2. ASSUME NEW c \in Bootstraps, c # b, BootstrapStep(c) PROVE boot'[b] = boot[b]
  <2>1. ASSUME NEW r, boot' = [boot EXCEPT ![c] = r] PROVE boot'[b] = boot[b]
    BY <1>2, <2>1 DEF Sound, TypeOK
  <2>2. ASSUME NEW stage, Become(c, stage) PROVE boot'[b] = boot[b]
    BY <1>2, <2>2 DEF Sound, TypeOK, Become
  <2>3. QED
    BY <1>2, <2>2, CheckIsSound, GetKeyIsSound, FinishIsSound
    DEF BootstrapStep, StartBootstrap, WriteKey, RequestRegistration, Registered, NotRegistered,
        CleanUp, OpenProfile
<1>3. ASSUME BootstrapStep(b) PROVE CleanUp(b)
  BY <1>3
  DEF BootstrapStep, StartBootstrap, CheckKey, GetKey, WriteKey, RequestRegistration, Registered,
      NotRegistered, OpenProfile, FinishBootstrap
<1>4. ASSUME NEW d \in Devices, Restart(d) PROVE boot'[b] \in {NoBoot, boot[b]}
  BY <1>4, RestartIsSound
<1>5. ASSUME NEW d \in Devices, DeletionStep(d) PROVE boot' = boot
  BY <1>5 DEF DeletionStep, RequestRelease, ReleaseEnded, RemoveProfile
<1>6. ASSUME NEW d \in Devices, NEW u \in Usernames, BeginDeletion(d, u) PROVE boot' = boot
  BY <1>6 DEF BeginDeletion
<1>7. ASSUME NEW q \in wire, Serve(q) PROVE boot' = boot
  BY <1>7 DEF Serve, device
<1>8. boot'[b] # boot[b] /\ boot'[b] # NoBoot
  BY NoneHasNothing
<1>9. QED
  BY <1>1, <1>2, <1>3, <1>4, <1>5, <1>6, <1>7, <1>8 DEF LifecycleNext

(* A bootstrap that the registry rejects removes no key older than its own *)
(* look at the directory, for any number of devices and of bootstraps side *)
(* by side, whatever happens to the directory between the look and the     *)
(* error branch (bootstrapAppCmd, hadLocalKey).                            *)
THEOREM OlderKeysStay == LifecycleSpec => OlderKeysSurviveRejection
<1>1. LifecycleInit => OldKeysInv
  BY NoneHasNothing DEF LifecycleInit, OldKeysInv, OldKeysAreElsewhere, Looked, Armed
<1>2. LifecycleSpec => [](Sound /\ OldKeysInv)
  BY <1>1, NextKeepsOld, AlwaysSound, PTL DEF LifecycleSpec
<1>3. Sound /\ OldKeysInv /\ [LifecycleNext]_vars =>
         [\A b \in Bootstraps :
             boot[b].stage = "rejected" /\ boot'[b].stage = "failed" =>
                 Directory(b) \notin boot[b].known \/ UNCHANGED disk]_vars
  <2>1. SUFFICES ASSUME Sound, OldKeysInv, LifecycleNext, NEW b \in Bootstraps,
                        boot[b].stage = "rejected", boot'[b].stage = "failed"
                 PROVE  Directory(b) \notin boot[b].known \/ UNCHANGED disk
    OBVIOUS
  <2>2. CleanUp(b)
    BY <2>1, OnlyCleanUpFails
  <2>3. boot[b].hadKey => UNCHANGED disk
    BY <2>2 DEF CleanUp
  <2>4. ~boot[b].hadKey => Directory(b) \notin boot[b].known
    BY <2>1 DEF OldKeysInv, OldKeysAreElsewhere, Looked, Armed
  <2>5. QED
    BY <2>3, <2>4
<1>4. QED
  BY <1>2, <1>3, PTL DEF LifecycleSpec, OlderKeysSurviveRejection

-----------------------------------------------------------------------------
(* Names of open profiles.  A bootstrap that has been answered owns its    *)
(* name, and only a release of its very key can take it away again.        *)
Kept(u, k) == k \in released \/ [username |-> u, peer |-> k] \in names

Answered(b) ==
    boot[b].stage \in {"opening", "ready"} \/ (boot[b].stage = "waiting" /\ answer[b] = "ok")

NamedInv ==
    /\ \A q \in wire : q.kind = "release" => q.peer \in released
    /\ \A b \in Bootstraps : Answered(b) => Kept(boot[b].username, boot[b].key)
    /\ \A d \in Devices : view[d] = "app" => Kept(open[d].username, open[d].key)

\* Steps that neither answer a bootstrap nor open a profile.
LEMMA NamesStay ==
    ASSUME NamedInv, UNCHANGED names, released \subseteq released',
           \A q \in wire' : q.kind = "release" =>
               \/ q.peer \in released'
               \/ \E p \in wire : p.kind = q.kind /\ p.peer = q.peer,
           \A b \in Bootstraps : Answered(b)' =>
               /\ Answered(b)
               /\ boot'[b].username = boot[b].username /\ boot'[b].key = boot[b].key,
           \A d \in Devices : view'[d] = "app" => view[d] = "app" /\ open'[d] = open[d]
    PROVE  NamedInv'
  BY DEF NamedInv, Kept

\* Steps of one bootstrap that ask for and answer nothing.
LEMMA QuietNamesStay ==
    ASSUME Sound, NamedInv, NEW b \in Bootstraps,
           UNCHANGED <<names, released, wire, answer>>,
           \A c \in Bootstraps : c # b => boot'[c] = boot[c],
           Answered(b)' =>
               /\ Answered(b)
               /\ boot'[b].username = boot[b].username /\ boot'[b].key = boot[b].key,
           \A d \in Devices : view'[d] = "app" => view[d] = "app" /\ open'[d] = open[d]
    PROVE  NamedInv'
<1>1. \A c \in Bootstraps : Answered(c)' =>
         /\ Answered(c)
         /\ boot'[c].username = boot[c].username /\ boot'[c].key = boot[c].key
  BY DEF Answered
<1>2. QED
  BY <1>1, NamesStay

LEMMA BootstrapKeepsNames ==
    ASSUME Sound, NamedInv, NEW b \in Bootstraps, BootstrapStep(b)
    PROVE  NamedInv'
<1>1. TypeOK
  BY DEF Sound
<1>2. CASE StartBootstrap(b)
  <2>1. /\ Become(b, "started") /\ UNCHANGED <<names, released, wire, answer>>
        /\ \A d \in Devices : view'[d] = "app" => view[d] = "app" /\ open'[d] = open[d]
    BY <1>1, <1>2 DEF StartBootstrap, TypeOK
  <2>2. boot'[b].stage = "started" /\ \A c \in Bootstraps : c # b => boot'[c] = boot[c]
    BY <1>1, <2>1, Becomes DEF Stages
  <2>3. QED
    BY <2>1, <2>2, QuietNamesStay DEF Answered
<1>3. CASE CheckKey(b)
  <2>1. UNCHANGED <<names, released, wire, answer, view, open>>
    BY <1>3 DEF CheckKey
  <2>2. boot'[b].stage = "checked" /\ \A c \in Bootstraps : c # b => boot'[c] = boot[c]
    BY <1>3, CheckIsSound
  <2>3. QED
    BY <2>1, <2>2, QuietNamesStay DEF Answered
<1>4. CASE GetKey(b)
  <2>1. UNCHANGED <<names, released, wire, answer, view, open>>
    BY <1>4 DEF GetKey
  <2>2. /\ boot'[b].stage \in {"asking", "failed", "writing"}
        /\ \A c \in Bootstraps : c # b => boot'[c] = boot[c]
    BY <1>4, GetKeyIsSound
  <2>3. QED
    BY <2>1, <2>2, QuietNamesStay DEF Answered
<1>5. CASE WriteKey(b) \/ CleanUp(b) \/ OpenProfile(b)
  <2>1. /\ UNCHANGED <<names, released, wire, answer, view, open>>
        /\ \E stage \in {"asking", "failed", "ready"} :
              Become(b, stage) /\ (stage = "ready" => boot[b].stage = "opening")
    BY <1>5 DEF WriteKey, CleanUp, OpenProfile
  <2>2. PICK stage \in {"asking", "failed", "ready"} :
           Become(b, stage) /\ (stage = "ready" => boot[b].stage = "opening")
    BY <2>1
  <2>3. /\ boot'[b].stage = stage /\ boot'[b].username = boot[b].username
        /\ boot'[b].key = boot[b].key
        /\ \A c \in Bootstraps : c # b => boot'[c] = boot[c]
    BY <1>1, <2>2, Becomes DEF Stages, Armed
  <2>4. QED
    BY <2>1, <2>2, <2>3, QuietNamesStay DEF Answered
<1>6. CASE RequestRegistration(b)
  <2>1. /\ Become(b, "waiting") /\ Send(b, "register", boot[b].username, boot[b].key)
        /\ UNCHANGED <<names, released, view, open>> /\ boot[b].stage = "asking"
    BY <1>6 DEF RequestRegistration
  <2>2. /\ boot[b].username \in Usernames /\ boot[b].key \in Peers /\ b \in Callers
    BY <2>1 DEF Sound, BootIsSound, Armed, Callers
  <2>3. /\ answer'[b] = "none" /\ \A c \in Bootstraps : c # b => answer'[c] = answer[c]
        /\ \A q \in wire' : q \in wire \/ q.kind = "register"
    BY <1>1, <2>1, <2>2, Sent DEF Callers
  <2>4. boot'[b].stage = "waiting" /\ \A c \in Bootstraps : c # b => boot'[c] = boot[c]
    BY <1>1, <2>1, Becomes DEF Stages, Armed
  <2>5. QED
    BY <2>1, <2>3, <2>4, NamesStay DEF Answered
<1>7. CASE Registered(b) \/ NotRegistered(b)
  <2>1. /\ Abandon({b}) /\ {b} \in SUBSET Callers
        /\ UNCHANGED <<names, released, view, open>>
        /\ \E stage \in {"opening", "rejected"} :
              Become(b, stage) /\ (stage = "opening" => Answered(b))
    BY <1>7 DEF Registered, NotRegistered, Callers, Answered
  <2>2. PICK stage \in {"opening", "rejected"} :
           Become(b, stage) /\ (stage = "opening" => Answered(b))
    BY <2>1
  <2>3. /\ boot'[b].stage = stage /\ boot'[b].username = boot[b].username
        /\ boot'[b].key = boot[b].key
        /\ \A c \in Bootstraps : c # b => boot'[c] = boot[c]
    BY <1>1, <2>2, Becomes DEF Stages, Armed
  <2>4. /\ \A c \in Callers : c # b => answer'[c] = answer[c]
        /\ \A q \in wire' : q \in wire \/ \E p \in wire : p.kind = q.kind /\ p.peer = q.peer
    BY <1>1, <2>1, Abandoned
  <2>5. \A c \in Bootstraps : Answered(c)' =>
           /\ Answered(c)
           /\ boot'[c].username = boot[c].username /\ boot'[c].key = boot[c].key
    BY <2>2, <2>3, <2>4 DEF Answered, Callers
  <2>6. QED
    BY <2>1, <2>4, <2>5, NamesStay
<1>8. CASE FinishBootstrap(b)
  <2>1. /\ boot'[b] = NoBoot /\ \A c \in Bootstraps : c # b => boot'[c] = boot[c]
    BY <1>8, FinishIsSound
  <2>2. /\ UNCHANGED <<names, released, wire, answer>>
        /\ boot[b].stage \in {"ready", "failed"} /\ boot[b].device \in Devices
    BY <1>8 DEF FinishBootstrap, Sound, BootIsSound
  <2>3. \A c \in Bootstraps : Answered(c)' => Answered(c) /\ boot'[c] = boot[c]
    BY <2>1, <2>2, NoneHasNothing DEF Answered
  <2>4. ASSUME NEW d \in Devices, view'[d] = "app"
        PROVE  \/ view[d] = "app" /\ open'[d] = open[d]
               \/ /\ boot[b].stage = "ready"
                  /\ open'[d].username = boot[b].username /\ open'[d].key = boot[b].key
    BY <1>1, <1>8, <2>2, <2>4 DEF FinishBootstrap, TypeOK
  <2>5. ASSUME NEW d \in Devices, view'[d] = "app" PROVE Kept(open[d].username, open[d].key)'
    <3>1. CASE view[d] = "app" /\ open'[d] = open[d]
      BY <2>2, <3>1 DEF NamedInv, Kept
    <3>2. CASE /\ boot[b].stage = "ready"
               /\ open'[d].username = boot[b].username /\ open'[d].key = boot[b].key
      BY <2>2, <3>2 DEF NamedInv, Kept, Answered
    <3>3. QED
      BY <2>4, <2>5, <3>1, <3>2
  <2>6. QED
    BY <2>2, <2>3, <2>5 DEF NamedInv, Kept
<1>9. QED
  BY <1>2, <1>3, <1>4, <1>5, <1>6, <1>7, <1>8 DEF BootstrapStep

LEMMA ServeKeepsNames ==
    ASSUME Sound, NamedInv, NEW q \in wire, Serve(q)
    PROVE  NamedInv'
<1>1. /\ wire' = wire \ {q} /\ UNCHANGED <<view, open, boot, released>>
      /\ \A c \in Callers : c # q.from => answer'[c] = answer[c]
      /\ q.from \in Callers /\ answer'[q.from] = "ok" /\ q.kind = "register" =>
            [username |-> q.username, peer |-> q.peer] \in names'
      /\ \A n \in names : n \in names' \/ (q.kind = "release" /\ n.peer = q.peer)
  BY ServeIsSound
<1>2. \A u, k : Kept(u, k) => Kept(u, k)'
  <2>1. q.kind = "release" => q.peer \in released
    BY DEF NamedInv
  <2>2. ASSUME NEW u, NEW k, Kept(u, k) PROVE Kept(u, k)'
    <3> DEFINE n == [username |-> u, peer |-> k]
    <3>1. n.peer = k
      OBVIOUS
    <3> HIDE DEF n
    <3>2. k \in released \/ n \in names
      BY <2>2 DEF Kept, n
    <3>3. k \in released' \/ n \in names'
      BY <1>1, <2>1, <3>1, <3>2
    <3>4. QED
      BY <3>3 DEF Kept, n
  <2>3. QED
    BY <2>2
<1>3. ASSUME NEW b \in Bootstraps, Answered(b)' PROVE Kept(boot[b].username, boot[b].key)'
  <2>1. CASE Answered(b)
    BY <1>1, <1>2, <2>1 DEF NamedInv
  <2>2. CASE ~Answered(b)
    <3>1. b = q.from /\ answer'[b] = "ok" /\ b \in Callers
      BY <1>1, <1>3, <2>2 DEF Answered, Callers
    <3>2. q.kind = "register" /\ q.username = boot[b].username /\ q.peer = boot[b].key
      BY <3>1 DEF Sound, RequestIsSound
    <3>3. QED
      BY <1>1, <3>1, <3>2 DEF Kept
  <2>3. QED
    BY <2>1, <2>2
<1>4. QED
  BY <1>1, <1>2, <1>3 DEF NamedInv

LEMMA NextKeepsNames == Sound /\ NamedInv /\ [LifecycleNext]_vars => NamedInv'
<1> SUFFICES ASSUME Sound, NamedInv, [LifecycleNext]_vars PROVE NamedInv'
  OBVIOUS
<1>1. ASSUME NEW b \in Bootstraps, NEW d \in Devices, NEW u \in Usernames, SelectProfile(b, d, u)
      PROVE  NamedInv'
  <2>1. boot'[b].stage = "selected" /\ \A c \in Bootstraps : c # b => boot'[c] = boot[c]
    BY <1>1, SelectIsSound
  <2>2. UNCHANGED <<names, released, wire, answer, view, open>>
    BY <1>1 DEF SelectProfile
  <2>3. QED
    BY <2>1, <2>2, QuietNamesStay DEF Answered
<1>2. ASSUME UNCHANGED <<names, released, wire, answer, view, open, boot>> PROVE NamedInv'
  BY <1>2 DEF NamedInv, Answered, Kept
<1>3. ASSUME NEW d \in Devices, RequestRelease(d) PROVE NamedInv'
  <2>1. /\ Send(d, "release", deletion[d].username, deletion[d].key)
        /\ deletion[d].stage = "asking"
        /\ released' = released \cup {deletion[d].key} /\ UNCHANGED <<names, view, open, boot>>
    BY <1>3 DEF RequestRelease
  <2>2. /\ deletion[d].username \in Usernames /\ deletion[d].key \in Peers /\ TypeOK
        /\ d \in Callers /\ d \notin Bootstraps
    BY <2>1, KindsDiffer DEF Sound, DeletionIsSound, Callers
  <2>3. /\ \A b \in Bootstraps : answer'[b] = answer[b]
        /\ \A q \in wire' : q \in wire \/ q.peer = deletion[d].key
    BY <2>1, <2>2, Sent DEF Callers
  <2>4. QED
    BY <2>1, <2>3, NamesStay DEF Answered
<1>4. ASSUME NEW callers \in SUBSET Callers, Abandon(callers),
             UNCHANGED <<names, released>>,
             \A b \in Bootstraps : boot'[b] \in {NoBoot, boot[b]},
             \A d \in Devices : view'[d] = "app" => view[d] = "app" /\ open'[d] = open[d]
      PROVE  NamedInv'
  <2>1. /\ \A c \in Callers : answer'[c] = "none" \/ answer'[c] = answer[c]
        /\ \A q \in wire' : q \in wire \/ \E p \in wire : p.kind = q.kind /\ p.peer = q.peer
    BY <1>4, Abandoned DEF Sound
  <2>2. \A b \in Bootstraps : Answered(b)' => Answered(b) /\ boot'[b] = boot[b]
    BY <1>4, <2>1, NoneHasNothing DEF Answered, Callers
  <2>3. QED
    BY <1>4, <2>1, <2>2, NamesStay
<1>5. ASSUME NEW d \in Devices, ReleaseEnded(d) PROVE NamedInv'
  <2>1. /\ Abandon({d}) /\ {d} \in SUBSET Callers
        /\ UNCHANGED <<names, released, view, open, boot>>
    BY <1>5 DEF ReleaseEnded, Callers
  <2>2. QED
    BY <1>4, <2>1
<1>6. ASSUME NEW d \in Devices, Restart(d) PROVE NamedInv'
  <2> DEFINE callers == {b \in Bootstraps : boot[b].device = d} \cup {d}
  <2>1. /\ Abandon(callers) /\ callers \in SUBSET Callers /\ UNCHANGED <<names, released>>
    BY <1>6 DEF Restart, Callers
  <2>2. \A e \in Devices : view'[e] = "app" => view[e] = "app" /\ open'[e] = open[e]
    BY <1>6 DEF Restart, Sound, TypeOK
  <2>3. \A b \in Bootstraps : boot'[b] \in {NoBoot, boot[b]}
    BY <1>6, RestartIsSound
  <2> HIDE DEF callers
  <2>4. QED
    BY <1>4, <2>1, <2>2, <2>3
<1>7. ASSUME NEW d \in Devices, RemoveProfile(d) PROVE NamedInv'
  BY <1>2, <1>7 DEF RemoveProfile
<1>8. ASSUME NEW d \in Devices, NEW u \in Usernames, BeginDeletion(d, u) PROVE NamedInv'
  BY <1>2, <1>8 DEF BeginDeletion
<1>9. ASSUME UNCHANGED vars PROVE NamedInv'
  BY <1>2, <1>9 DEF vars
<1>10. QED
  BY <1>1, <1>3, <1>5, <1>6, <1>7, <1>8, <1>9, BootstrapKeepsNames, ServeKeepsNames
  DEF LifecycleNext, DeletionStep

(* While a profile is open its name is registered to its key, for any      *)
(* number of devices and bootstraps and whatever requests and answers are  *)
(* lost or late, unless a release of that key was asked for                *)
(* (bootstrapAppCmd, RegisterProfile, ReleaseProfile).                     *)
THEOREM OpenProfilesAreRegistered == LifecycleSpec => []OpenProfileIsRegistered
<1>1. LifecycleInit => NamedInv
  BY NoneHasNothing DEF LifecycleInit, NamedInv, Answered
<1>2. NamedInv => OpenProfileIsRegistered
  BY DEF NamedInv, Kept, OpenProfileIsRegistered
<1>3. QED
  BY <1>1, <1>2, NextKeepsNames, AlwaysSound, PTL DEF LifecycleSpec

-----------------------------------------------------------------------------
(* Names nobody can use.  As long as every device runs one bootstrap at a  *)
(* time, the key of a bootstrap is in its directory, a profile that is     *)
(* open has its key on disk, and no deletion meets a bootstrap.            *)
BootIsAlone(b) ==
    /\ boot[b].stage = "selected" => view[boot[b].device] = "profile"
    /\ boot[b].stage \notin {"none", "selected"} => view[boot[b].device] = "bootstrapping"
    /\ boot[b].stage \in {"selected", "started", "checked"} => boot[b].key = None
    /\ boot[b].stage = "writing" => Directory(b) = b
    /\ boot[b].stage \in Armed \ {"writing"} => Directory(b) = boot[b].key
    /\ boot[b].stage = "rejected" => boot[b].key \in troubled
    /\ boot[b].stage = "failed" =>
          boot[b].key = None \/ boot[b].key \in troubled \/ Directory(b) = boot[b].key

DeviceIsAlone(d) ==
    /\ view[d] = "app" => /\ open[d].username \in Usernames
                          /\ disk[d][open[d].username] = open[d].key
    /\ view[d] # "app" => open[d] = NoProfile
    /\ deletion[d].stage # "none" => /\ view[d] = "profile"
                                     /\ disk[d][deletion[d].username] = deletion[d].key

Apart ==
    \A b, c \in Bootstraps :
        b # c /\ boot[b].stage # "none" /\ boot[c].stage # "none" => boot[b].device # boot[c].device

Alone ==
    /\ Apart
    /\ \A b \in Bootstraps : BootIsAlone(b)
    /\ \A d \in Devices : DeviceIsAlone(d)

AloneInv == ~overlapped => Alone

\* A bootstrap goes on in its own directory while its device shows the splash screen.
LEMMA AloneGoesOn ==
    ASSUME Sound, Alone, NEW b \in Bootstraps, boot[b].stage \notin {"none", "selected"},
           \A c \in Bootstraps : c # b => boot'[c] = boot[c],
           boot'[b].device = boot[b].device, boot'[b].username = boot[b].username,
           boot'[b].stage # "none",
           \A d \in Devices, u \in Usernames :
               d # boot[b].device \/ u # boot[b].username => disk'[d][u] = disk[d][u],
           UNCHANGED <<view, open, deletion>>, troubled \subseteq troubled', BootIsAlone(b)'
    PROVE  Alone'
<1>1. Apart'
  BY DEF Alone, Apart
<1>2. ASSUME NEW c \in Bootstraps PROVE BootIsAlone(c)'
  <2>1. CASE c # b /\ boot[c].stage # "none"
    <3>1. boot[c].device # boot[b].device /\ boot'[c] = boot[c]
      BY <2>1 DEF Alone, Apart
    <3>2. boot[c].device \in Devices /\ boot[c].username \in Usernames
      BY <2>1 DEF Sound, BootIsSound
    <3>3. Directory(c)' = Directory(c)
      BY <3>1, <3>2 DEF Directory
    <3>4. QED
      BY <3>1, <3>3 DEF Alone, BootIsAlone
  <2>2. CASE c # b /\ boot[c].stage = "none"
    BY <2>2 DEF BootIsAlone, Armed
  <2>3. QED
    BY <2>1, <2>2
<1>3. ASSUME NEW d \in Devices PROVE DeviceIsAlone(d)'
  <2>1. CASE d = boot[b].device
    <3>1. view[d] = "bootstrapping"
      BY <2>1 DEF Alone, BootIsAlone
    <3>2. QED
      BY <3>1 DEF Alone, DeviceIsAlone
  <2>2. CASE d # boot[b].device
    BY <2>2 DEF Alone, DeviceIsAlone, Sound, DeletionIsSound
  <2>3. QED
    BY <2>1, <2>2
<1>4. QED
  BY <1>1, <1>2, <1>3 DEF Alone

LEMMA GetKeyAlone ==
    ASSUME Sound, Alone, NEW b \in Bootstraps, GetKey(b)
    PROVE  Alone'
<1>1. /\ boot[b].stage = "checked" /\ boot[b].key = None
      /\ UNCHANGED <<view, open, deletion, troubled>>
      /\ view[boot[b].device] = "bootstrapping"
  BY DEF GetKey, Alone, BootIsAlone
<1>2. /\ boot'[b].device = boot[b].device /\ boot'[b].username = boot[b].username
      /\ \A c \in Bootstraps : c # b => boot'[c] = boot[c]
  BY GetKeyIsSound
<1>3. CASE UNCHANGED disk /\ boot'[b].stage = "asking" /\ boot'[b].key = Directory(b)
  <2>1. Directory(b)' = Directory(b)
    BY <1>2, <1>3 DEF Directory
  <2>2. BootIsAlone(b)'
    BY <1>1, <1>2, <1>3, <2>1 DEF BootIsAlone, Armed
  <2>3. QED
    BY <1>1, <1>2, <1>3, <2>2, AloneGoesOn
<1>4. CASE UNCHANGED disk /\ boot'[b].stage = "failed" /\ boot'[b].key = boot[b].key
  <2>1. BootIsAlone(b)'
    BY <1>1, <1>2, <1>4 DEF BootIsAlone, Armed
  <2>2. QED
    BY <1>1, <1>2, <1>4, <2>1, AloneGoesOn
<1>5. CASE Replace(b, b) /\ boot'[b].stage = "writing"
  <2>1. /\ disk'[boot[b].device][boot[b].username] = b
        /\ \A d \in Devices, u \in Usernames :
              d # boot[b].device \/ u # boot[b].username => disk'[d][u] = disk[d][u]
    BY <1>1, <1>5, Replaced DEF Contents
  <2>2. BootIsAlone(b)'
    BY <1>1, <1>2, <1>5, <2>1 DEF BootIsAlone, Armed, Directory
  <2>3. QED
    BY <1>1, <1>2, <1>5, <2>1, <2>2, AloneGoesOn
<1>6. QED
  BY <1>3, <1>4, <1>5, GetKeyIsSound

LEMMA WriteAlone ==
    ASSUME Sound, Alone, NEW b \in Bootstraps, WriteKey(b)
    PROVE  Alone' /\ Directory(b) = b /\ Replace(b, boot[b].key) /\ Become(b, "asking")
<1>1. /\ boot[b].stage = "writing" /\ Directory(b) = b /\ boot[b].key \in Contents
      /\ UNCHANGED <<view, open, deletion, troubled>>
      /\ view[boot[b].device] = "bootstrapping"
  BY DEF WriteKey, Alone, BootIsAlone, Sound, BootIsSound, Armed, Contents
<1>2. Replace(b, boot[b].key) /\ Become(b, "asking")
  BY <1>1, KindsDiffer DEF WriteKey
<1>3. /\ disk'[boot[b].device][boot[b].username] = boot[b].key
      /\ \A d \in Devices, u \in Usernames :
            d # boot[b].device \/ u # boot[b].username => disk'[d][u] = disk[d][u]
  BY <1>1, <1>2, Replaced
<1>4. /\ boot'[b].stage = "asking" /\ boot'[b].device = boot[b].device
      /\ boot'[b].username = boot[b].username /\ boot'[b].key = boot[b].key
      /\ \A c \in Bootstraps : c # b => boot'[c] = boot[c]
  BY <1>2, Becomes DEF Sound, Stages, Armed
<1>5. BootIsAlone(b)'
  BY <1>1, <1>3, <1>4 DEF BootIsAlone, Armed, Directory
<1>6. QED
  BY <1>1, <1>2, <1>3, <1>4, <1>5, AloneGoesOn

\* Steps of a bootstrap that has its key and leaves its directory as it is.
LEMMA ArmedAlone ==
    ASSUME Sound, Alone, NEW b \in Bootstraps,
           boot[b].stage \in Armed \ {"writing"},
           NEW stage \in {"waiting", "opening", "rejected", "ready", "failed"}, Become(b, stage),
           stage = "rejected" => boot[b].key \in troubled',
           UNCHANGED <<disk, view, open, deletion>>, troubled \subseteq troubled'
    PROVE  Alone'
<1>1. /\ boot'[b].stage = stage /\ boot'[b].device = boot[b].device
      /\ boot'[b].username = boot[b].username /\ boot'[b].key = boot[b].key
      /\ \A c \in Bootstraps : c # b => boot'[c] = boot[c]
  BY Becomes DEF Sound, Stages, Armed
<1>2. /\ view[boot[b].device] = "bootstrapping" /\ Directory(b) = boot[b].key
      /\ boot[b].stage \notin {"none", "selected"}
  BY DEF Alone, BootIsAlone, Armed
<1>3. Directory(b)' = Directory(b)
  BY <1>1 DEF Directory
<1>4. BootIsAlone(b)'
  BY <1>1, <1>2, <1>3 DEF BootIsAlone, Armed
<1>5. QED
  BY <1>1, <1>2, <1>4, AloneGoesOn

LEMMA CleanUpAlone ==
    ASSUME Sound, Alone, NEW b \in Bootstraps, CleanUp(b)
    PROVE  Alone'
<1>1. /\ boot[b].stage = "rejected" /\ Become(b, "failed")
      /\ UNCHANGED <<view, open, deletion, troubled>>
      /\ boot[b].key \in troubled /\ view[boot[b].device] = "bootstrapping"
  BY DEF CleanUp, Alone, BootIsAlone
<1>2. /\ boot'[b].stage = "failed" /\ boot'[b].device = boot[b].device
      /\ boot'[b].username = boot[b].username /\ boot'[b].key = boot[b].key
      /\ \A c \in Bootstraps : c # b => boot'[c] = boot[c]
  BY <1>1, Becomes DEF Sound, Stages
<1>3. \A d \in Devices, u \in Usernames :
         d # boot[b].device \/ u # boot[b].username => disk'[d][u] = disk[d][u]
  <2>1. CASE UNCHANGED disk
    BY <2>1
  <2>2. CASE Replace(b, "absent")
    BY <1>1, <2>2, Replaced DEF Contents
  <2>3. QED
    BY <2>1, <2>2 DEF CleanUp
<1>4. BootIsAlone(b)'
  BY <1>1, <1>2 DEF BootIsAlone, Armed
<1>5. QED
  BY <1>1, <1>2, <1>3, <1>4, AloneGoesOn

LEMMA OpenAlone ==
    ASSUME Sound, Alone, NEW b \in Bootstraps, OpenProfile(b)
    PROVE  Alone' /\ UNCHANGED disk
<1>1. /\ boot[b].stage = "opening" /\ UNCHANGED <<view, open, deletion, troubled>>
      /\ Directory(b) = boot[b].key /\ boot[b].key \in Peers
      /\ boot[b].device \in Devices /\ boot[b].username \in Usernames
  BY DEF OpenProfile, Alone, BootIsAlone, Armed, Sound, BootIsSound
<1>2. Directory(b) # "absent"
  BY <1>1, KindsDiffer
<1>3. disk' = [disk EXCEPT ![boot[b].device][boot[b].username]
                              = disk[boot[b].device][boot[b].username]]
  BY <1>2 DEF OpenProfile, Replace, Directory
<1>4. UNCHANGED disk
  BY <1>1, <1>3 DEF Sound, TypeOK
<1>5. PICK stage \in {"ready", "failed"} : Become(b, stage)
  BY DEF OpenProfile
<1>6. QED
  BY <1>1, <1>4, <1>5, ArmedAlone DEF Armed

LEMMA FinishAlone ==
    ASSUME Sound, Alone, NEW b \in Bootstraps, FinishBootstrap(b)
    PROVE  /\ Alone'
           /\ open[boot[b].device] = NoProfile
           /\ boot[b].stage = "ready" =>
                 open'[boot[b].device] = [username |-> boot[b].username, key |-> boot[b].key]
           /\ \A d \in Devices : d # boot[b].device => open'[d] = open[d]
<1> DEFINE e == boot[b].device
<1>1. /\ boot[b].stage \in {"ready", "failed"} /\ e \in Devices /\ boot[b].username \in Usernames
      /\ view[e] = "bootstrapping"
      /\ UNCHANGED <<disk, deletion, troubled>>
  BY DEF FinishBootstrap, Alone, BootIsAlone, Sound, BootIsSound
<1>2. /\ boot'[b] = NoBoot /\ \A c \in Bootstraps : c # b => boot'[c] = boot[c]
  BY FinishIsSound
<1>3. /\ \A d \in Devices : d # e => view'[d] = view[d] /\ open'[d] = open[d]
      /\ \/ /\ boot[b].stage = "ready" /\ view'[e] = "app"
            /\ open'[e] = [username |-> boot[b].username, key |-> boot[b].key]
         \/ /\ boot[b].stage = "failed" /\ view'[e] = "profile" /\ open'[e] = NoProfile
  BY <1>1 DEF FinishBootstrap, Sound, TypeOK
<1>4. Apart'
  BY <1>2, NoneHasNothing DEF Alone, Apart
<1>5. ASSUME NEW c \in Bootstraps PROVE BootIsAlone(c)'
  <2>1. CASE c # b /\ boot[c].stage # "none"
    <3>1. boot[c].device # e /\ boot'[c] = boot[c] /\ boot[c].device \in Devices
      BY <1>1, <1>2, <2>1 DEF Alone, Apart, Sound, BootIsSound
    <3>2. Directory(c)' = Directory(c) /\ view'[boot[c].device] = view[boot[c].device]
      BY <1>1, <1>3, <3>1 DEF Directory
    <3>3. QED
      BY <1>1, <3>1, <3>2 DEF Alone, BootIsAlone
  <2>2. CASE c = b \/ boot[c].stage = "none"
    BY <1>2, <2>2, NoneHasNothing DEF BootIsAlone, Armed
  <2>3. QED
    BY <2>1, <2>2
<1>6. ASSUME NEW d \in Devices PROVE DeviceIsAlone(d)'
  <2>1. CASE d = e
    <3>1. deletion[d].stage = "none"
      BY <1>1, <2>1 DEF Alone, DeviceIsAlone
    <3>2. boot[b].stage = "ready" => disk[e][boot[b].username] = boot[b].key
      BY DEF Alone, BootIsAlone, Armed, Directory
    <3>3. QED
      BY <1>1, <1>3, <2>1, <3>1, <3>2 DEF DeviceIsAlone
  <2>2. CASE d # e
    BY <1>1, <1>3, <2>2 DEF Alone, DeviceIsAlone
  <2>3. QED
    BY <2>1, <2>2
<1>7. open[e] = NoProfile
  BY <1>1 DEF Alone, DeviceIsAlone
<1>8. QED
  BY <1>3, <1>4, <1>5, <1>6, <1>7 DEF Alone

LEMMA StartAlone ==
    ASSUME Sound, Alone, NEW b \in Bootstraps, StartBootstrap(b)
    PROVE  Alone' /\ UNCHANGED open
<1> DEFINE e == boot[b].device
<1>1. /\ boot[b].stage = "selected" /\ deletion[e].stage = "none" /\ Become(b, "started")
      /\ e \in Devices /\ view[e] = "profile" /\ boot[b].key = None
      /\ view' = [view EXCEPT ![e] = "bootstrapping"]
      /\ open' = [open EXCEPT ![e] = NoProfile]
      /\ UNCHANGED <<disk, deletion, troubled>>
  BY DEF StartBootstrap, Responsive, Alone, BootIsAlone, Sound, BootIsSound
<1>2. UNCHANGED open
  <2>1. open[e] = NoProfile
    BY <1>1 DEF Alone, DeviceIsAlone
  <2>2. QED
    BY <1>1, <2>1 DEF Sound, TypeOK
<1>3. view'[e] = "bootstrapping" /\ \A d \in Devices : d # e => view'[d] = view[d]
  BY <1>1 DEF Sound, TypeOK
<1>4. /\ boot'[b].stage = "started" /\ boot'[b].device = boot[b].device
      /\ boot'[b].username = boot[b].username /\ boot'[b].key = boot[b].key
      /\ \A c \in Bootstraps : c # b => boot'[c] = boot[c]
  BY <1>1, Becomes DEF Sound, Stages
<1>5. Apart'
  BY <1>1, <1>4 DEF Alone, Apart
<1>6. ASSUME NEW c \in Bootstraps PROVE BootIsAlone(c)'
  <2>1. CASE c = b
    BY <1>1, <1>3, <1>4, <2>1 DEF BootIsAlone, Armed
  <2>2. CASE c # b /\ boot[c].stage # "none"
    <3>1. boot[c].device # e /\ boot[c].device \in Devices
      BY <1>1, <2>2 DEF Alone, Apart, Sound, BootIsSound
    <3>2. Directory(c)' = Directory(c) /\ view'[boot[c].device] = view[boot[c].device]
      BY <1>1, <1>3, <1>4, <2>2, <3>1 DEF Directory
    <3>3. QED
      BY <1>1, <1>4, <2>2, <3>2 DEF Alone, BootIsAlone
  <2>3. CASE c # b /\ boot[c].stage = "none"
    BY <1>4, <2>3 DEF BootIsAlone, Armed
  <2>4. QED
    BY <2>1, <2>2, <2>3
<1>7. ASSUME NEW d \in Devices PROVE DeviceIsAlone(d)'
  BY <1>1, <1>2, <1>3 DEF Alone, DeviceIsAlone
<1>8. QED
  BY <1>2, <1>5, <1>6, <1>7 DEF Alone

LEMMA CheckAlone ==
    ASSUME Sound, Alone, NEW b \in Bootstraps, CheckKey(b)
    PROVE  Alone'
<1>1. /\ boot[b].stage = "started" /\ UNCHANGED <<disk, view, open, deletion, troubled>>
      /\ view[boot[b].device] = "bootstrapping" /\ boot[b].key = None
  BY DEF CheckKey, Alone, BootIsAlone
<1>2. /\ boot'[b].stage = "checked" /\ boot'[b].device = boot[b].device
      /\ boot'[b].username = boot[b].username /\ boot'[b].key = boot[b].key
      /\ \A c \in Bootstraps : c # b => boot'[c] = boot[c]
  BY CheckIsSound
<1>3. BootIsAlone(b)'
  BY <1>1, <1>2 DEF BootIsAlone, Armed
<1>4. QED
  BY <1>1, <1>2, <1>3, AloneGoesOn

LEMMA BootstrapAlone ==
    ASSUME Sound, Alone, NEW b \in Bootstraps, BootstrapStep(b)
    PROVE  Alone'
<1>1. ASSUME RequestRegistration(b) \/ Registered(b) \/ NotRegistered(b) PROVE Alone'
  <2>1. /\ boot[b].stage \in Armed \ {"writing"}
        /\ UNCHANGED <<disk, view, open, deletion>> /\ troubled \subseteq troubled'
    BY <1>1 DEF RequestRegistration, Registered, NotRegistered, Armed
  <2>2. PICK stage \in {"waiting", "opening", "rejected"} :
           Become(b, stage) /\ (stage = "rejected" => boot[b].key \in troubled')
    BY <1>1 DEF RequestRegistration, Registered, NotRegistered
  <2>3. QED
    BY <2>1, <2>2, ArmedAlone
<1>2. QED
  BY <1>1, StartAlone, CheckAlone, GetKeyAlone, WriteAlone, CleanUpAlone, OpenAlone, FinishAlone
  DEF BootstrapStep

LEMMA SelectAlone ==
    ASSUME Sound, Alone, NEW b \in Bootstraps, NEW d \in Devices, NEW u \in Usernames,
           SelectProfile(b, d, u), ~overlapped'
    PROVE  Alone'
<1>1. /\ view[d] = "profile" /\ \A c \in Bootstraps : boot[c].device # d
      /\ UNCHANGED <<disk, view, open, deletion, troubled>>
  BY DEF SelectProfile
<1>2. /\ boot'[b].stage = "selected" /\ boot'[b].device = d /\ boot'[b].username = u
      /\ boot'[b].key = None /\ \A c \in Bootstraps : c # b => boot'[c] = boot[c]
  BY SelectIsSound
<1>3. Apart'
  BY <1>1, <1>2 DEF Alone, Apart
<1>4. ASSUME NEW c \in Bootstraps PROVE BootIsAlone(c)'
  <2>1. CASE c = b
    BY <1>1, <1>2, <2>1 DEF BootIsAlone, Armed
  <2>2. CASE c # b
    <3>1. Directory(c)' = Directory(c)
      BY <1>1, <1>2, <2>2 DEF Directory
    <3>2. QED
      BY <1>1, <1>2, <2>2, <3>1 DEF Alone, BootIsAlone
  <2>3. QED
    BY <2>1, <2>2
<1>5. QED
  BY <1>1, <1>3, <1>4 DEF Alone, DeviceIsAlone

\* A deletion goes on while its device shows the profile screen.
LEMMA DeletionAlone ==
    ASSUME Sound, Alone, NEW d \in Devices,
           view[d] = "profile", UNCHANGED <<boot, view, open>>, troubled \subseteq troubled',
           \A e \in Devices : e # d => deletion'[e] = deletion[e],
           \A e \in Devices, u \in Usernames : e # d => disk'[e][u] = disk[e][u],
           deletion'[d].stage # "none" => disk'[d][deletion'[d].username] = deletion'[d].key
    PROVE  Alone'
<1>1. ASSUME NEW b \in Bootstraps PROVE BootIsAlone(b)'
  <2>1. CASE boot[b].stage \in {"none", "selected", "started", "checked"}
    BY <2>1 DEF Alone, BootIsAlone, Armed
  <2>2. CASE boot[b].stage \notin {"none", "selected", "started", "checked"}
    <3>1. /\ boot[b].device \in Devices /\ boot[b].username \in Usernames
          /\ boot[b].device # d
      BY <2>2 DEF Alone, BootIsAlone, Sound, BootIsSound
    <3>2. Directory(b)' = Directory(b)
      BY <3>1 DEF Directory
    <3>3. QED
      BY <2>2, <3>2 DEF Alone, BootIsAlone
  <2>3. QED
    BY <2>1, <2>2
<1>2. ASSUME NEW e \in Devices PROVE DeviceIsAlone(e)'
  <2>1. CASE e = d
    BY <2>1 DEF Alone, DeviceIsAlone
  <2>2. CASE e # d
    BY <2>2 DEF Alone, DeviceIsAlone, Sound, DeletionIsSound
  <2>3. QED
    BY <2>1, <2>2
<1>3. QED
  BY <1>1, <1>2 DEF Alone, Apart

LEMMA DeletionsAlone ==
    ASSUME Sound, Alone, NEW d \in Devices,
           DeletionStep(d) \/ \E u \in Usernames : BeginDeletion(d, u)
    PROVE  Alone'
<1>1. CASE \E u \in Usernames : BeginDeletion(d, u)
  <2>1. PICK u \in Usernames : BeginDeletion(d, u)
    BY <1>1
  <2>2. deletion'[d].username = u /\ deletion'[d].key = disk[d][u]
        /\ \A e \in Devices : e # d => deletion'[e] = deletion[e]
    BY <2>1, BeginIsSound
  <2>3. view[d] = "profile" /\ UNCHANGED <<boot, view, open, troubled, disk>>
    BY <2>1 DEF BeginDeletion
  <2>4. QED
    BY <2>2, <2>3, DeletionAlone
<1>2. CASE RequestRelease(d) \/ ReleaseEnded(d)
  <2>1. /\ deletion[d].stage # "none" /\ UNCHANGED <<boot, view, open, disk>>
        /\ troubled \subseteq troubled'
    BY <1>2 DEF RequestRelease, ReleaseEnded
  <2>2. PICK stage \in {"asking", "waiting", "removing"} :
           deletion' = [deletion EXCEPT ![d].stage = stage]
    BY <1>2 DEF RequestRelease, ReleaseEnded
  <2>3. /\ deletion'[d].username = deletion[d].username /\ deletion'[d].key = deletion[d].key
        /\ \A e \in Devices : e # d => deletion'[e] = deletion[e]
    BY <2>2, DeletionBecomes DEF Sound
  <2>4. view[d] = "profile" /\ disk[d][deletion[d].username] = deletion[d].key
    BY <2>1 DEF Alone, DeviceIsAlone
  <2>5. QED
    BY <2>1, <2>3, <2>4, DeletionAlone
<1>3. CASE RemoveProfile(d)
  <2>1. /\ view[d] = "profile" /\ UNCHANGED <<boot, view, open, troubled>>
    BY <1>3 DEF RemoveProfile, Alone, DeviceIsAlone
  <2>2. /\ deletion'[d].stage = "none" /\ \A e \in Devices : e # d => deletion'[e] = deletion[e]
        /\ \A e \in Devices, u \in Usernames : e # d => disk'[e][u] = disk[e][u]
    BY <1>3, RemoveIsSound, NoneHasNothing
  <2>3. QED
    BY <2>1, <2>2, DeletionAlone
<1>4. QED
  BY <1>1, <1>2, <1>3 DEF DeletionStep

LEMMA RestartAlone ==
    ASSUME Sound, Alone, NEW d \in Devices, Restart(d)
    PROVE  Alone'
<1>1. /\ \A b \in Bootstraps : boot'[b] = IF boot[b].device = d THEN NoBoot ELSE boot[b]
      /\ deletion'[d] = NoDeletion /\ \A e \in Devices : e # d => deletion'[e] = deletion[e]
      /\ \A e \in Devices : e # d => disk'[e] = disk[e]
  BY RestartIsSound
<1>2. /\ view'[d] = "profile" /\ open'[d] = NoProfile
      /\ \A e \in Devices : e # d => view'[e] = view[e] /\ open'[e] = open[e]
      /\ troubled \subseteq troubled'
  BY DEF Restart, Sound, TypeOK
<1>3. Apart'
  BY <1>1, NoneHasNothing DEF Alone, Apart
<1>4. ASSUME NEW b \in Bootstraps PROVE BootIsAlone(b)'
  <2>1. CASE boot'[b] = NoBoot
    BY <2>1, NoneHasNothing DEF BootIsAlone, Armed
  <2>2. CASE boot'[b] # NoBoot
    <3>1. /\ boot[b].device # d /\ boot'[b] = boot[b] /\ boot[b].device \in Devices
      BY <1>1, <2>2 DEF Sound, BootIsSound
    <3>2. Directory(b)' = Directory(b) /\ view'[boot[b].device] = view[boot[b].device]
      BY <1>1, <1>2, <3>1 DEF Directory
    <3>3. QED
      BY <1>2, <3>1, <3>2 DEF Alone, BootIsAlone
  <2>3. QED
    BY <2>1, <2>2
<1>5. ASSUME NEW e \in Devices PROVE DeviceIsAlone(e)'
  BY <1>1, <1>2, NoneHasNothing DEF Alone, DeviceIsAlone
<1>6. QED
  BY <1>3, <1>4, <1>5 DEF Alone

LEMMA NextAlone == Sound /\ AloneInv /\ [LifecycleNext]_vars => AloneInv'
<1> SUFFICES ASSUME Sound, AloneInv, [LifecycleNext]_vars, ~overlapped' PROVE Alone'
  BY DEF AloneInv
<1>1. ASSUME UNCHANGED <<overlapped, disk, view, open, boot, deletion, troubled>> PROVE Alone'
  BY <1>1 DEF AloneInv, Alone, Apart, BootIsAlone, DeviceIsAlone, Directory
<1>2. ASSUME NEW b \in Bootstraps, NEW d \in Devices, NEW u \in Usernames, SelectProfile(b, d, u)
      PROVE  Alone'
  <2>1. Alone
    BY <1>2 DEF AloneInv, SelectProfile
  <2>2. QED
    BY <1>2, <2>1, SelectAlone
<1>3. ASSUME NEW b \in Bootstraps, BootstrapStep(b) PROVE Alone'
  <2>1. UNCHANGED overlapped
    BY <1>3
    DEF BootstrapStep, StartBootstrap, CheckKey, GetKey, WriteKey, RequestRegistration,
        Registered, NotRegistered, CleanUp, OpenProfile, FinishBootstrap
  <2>2. QED
    BY <1>3, <2>1, BootstrapAlone DEF AloneInv
<1>4. ASSUME NEW d \in Devices, NEW u \in Usernames, BeginDeletion(d, u) PROVE Alone'
  <2>1. UNCHANGED overlapped
    BY <1>4 DEF BeginDeletion
  <2>2. QED
    BY <1>4, <2>1, DeletionsAlone DEF AloneInv
<1>5. ASSUME NEW d \in Devices, DeletionStep(d) PROVE Alone'
  <2>1. UNCHANGED overlapped
    BY <1>5 DEF DeletionStep, RequestRelease, ReleaseEnded, RemoveProfile
  <2>2. QED
    BY <1>5, <2>1, DeletionsAlone DEF AloneInv
<1>6. ASSUME NEW d \in Devices, Restart(d) PROVE Alone'
  BY <1>6, RestartAlone DEF AloneInv, Restart
<1>7. ASSUME NEW q \in wire, Serve(q) PROVE Alone'
  BY <1>1, <1>7 DEF Serve, device
<1>8. ASSUME UNCHANGED vars PROVE Alone'
  BY <1>1, <1>8 DEF vars
<1>9. QED
  BY <1>2, <1>3, <1>4, <1>5, <1>6, <1>7, <1>8 DEF LifecycleNext

LEMMA AlwaysAlone == LifecycleSpec => []AloneInv
<1>1. LifecycleInit => AloneInv
  BY NoneHasNothing
  DEF LifecycleInit, AloneInv, Alone, Apart, BootIsAlone, DeviceIsAlone, Armed
<1>2. QED
  BY <1>1, NextAlone, AlwaysSound, PTL DEF LifecycleSpec

-----------------------------------------------------------------------------
(* Where a key can be found: in the directory of its name on a device, or  *)
(* in the memory of that device.  A key never leaves the device that made  *)
(* it; a name without its key is put down to a call that did not succeed.  *)
Holds(d, u, k) ==
    \/ disk[d][u] = k
    \/ \E b \in Bootstraps : boot[b].device = d /\ boot[b].username = u /\ boot[b].key = k
    \/ deletion[d].username = u /\ deletion[d].key = k
    \/ open[d].username = u /\ open[d].key = k

KeysAreLocal ==
    \A d, e \in Devices, u \in Usernames, k \in Peers :
        Holds(d, u, k) => k \in generated /\ (Holds(e, u, k) => d = e)

\* A registration nobody waits for any more may still be served.
LateIsTrouble == \A q \in wire : q.kind = "register" /\ q.from = None => q.peer \in troubled

Deleted(d) ==
    \/ deletion[d].stage = "removing"
    \/ deletion[d].stage = "waiting" /\ answer[d] \in {"ok", "not_found"}

DeletedNamesAreGone ==
    \A d \in Devices : Deleted(d) =>
        \/ deletion[d].key \in troubled
        \/ \A n \in names : n.username = deletion[d].username => n.peer # deletion[d].key

NamesHaveKeys ==
    \A n \in names : n.peer \in troubled \/ \E d \in Devices : Holds(d, n.username, n.peer)

OrphanInv ==
    /\ KeysAreLocal
    /\ LateIsTrouble
    /\ ~overlapped => DeletedNamesAreGone /\ NamesHaveKeys

\* In one step: no key turns up where it was not, and none is lost without trouble.
NothingAppears ==
    \A d \in Devices, u \in Usernames, k \in Peers : Holds(d, u, k)' => Holds(d, u, k)

NothingVanishes ==
    \A d \in Devices, u \in Usernames, k \in Peers :
        Holds(d, u, k) => Holds(d, u, k)' \/ k \in troubled'

\* A step that moves no key.
LEMMA SamePlaces ==
    ASSUME UNCHANGED <<disk, open>>,
           \A b \in Bootstraps : /\ boot'[b].device = boot[b].device
                                 /\ boot'[b].username = boot[b].username
                                 /\ boot'[b].key = boot[b].key,
           \A d \in Devices : /\ deletion'[d].username = deletion[d].username
                              /\ deletion'[d].key = deletion[d].key
    PROVE  NothingAppears /\ NothingVanishes
  BY DEF Holds, NothingAppears, NothingVanishes

\* One bootstrap changes, and what it holds afterwards was on its device before.
LEMMA BootPlaces ==
    ASSUME Sound, NEW b \in Bootstraps, \A c \in Bootstraps : c # b => boot'[c] = boot[c],
           \A d \in Devices, u \in Usernames : disk'[d][u] \in Peers => Holds(d, u, disk'[d][u]),
           boot'[b].key \in Peers =>
               Holds(boot'[b].device, boot'[b].username, boot'[b].key),
           \A d \in Devices : \/ open'[d] = open[d] \/ open'[d].key = None
                              \/ Holds(d, open'[d].username, open'[d].key),
           UNCHANGED deletion
    PROVE  NothingAppears
<1>1. None \notin Peers
  BY KindsDiffer
<1>2. SUFFICES ASSUME NEW d \in Devices, NEW u \in Usernames, NEW k \in Peers, Holds(d, u, k)'
               PROVE  Holds(d, u, k)
  BY DEF NothingAppears
<1>3. CASE disk'[d][u] = k
  BY <1>2, <1>3
<1>4. ASSUME NEW c \in Bootstraps,
             boot'[c].device = d /\ boot'[c].username = u /\ boot'[c].key = k
      PROVE  Holds(d, u, k)
  <2>1. CASE c = b
    BY <1>4, <2>1
  <2>2. CASE c # b
    BY <1>4, <2>2 DEF Holds
  <2>3. QED
    BY <2>1, <2>2
<1>5. CASE open'[d].username = u /\ open'[d].key = k
  <2>1. CASE open'[d] = open[d]
    BY <1>5, <2>1 DEF Holds
  <2>2. CASE Holds(d, open'[d].username, open'[d].key)
    BY <1>5, <2>2
  <2>3. QED
    BY <1>1, <1>5, <2>1, <2>2
<1>6. CASE deletion'[d].username = u /\ deletion'[d].key = k
  BY <1>6 DEF Holds
<1>7. QED
  BY <1>2, <1>3, <1>4, <1>5, <1>6 DEF Holds

LEMMA SelectPlaces ==
    ASSUME Sound, NEW b \in Bootstraps, NEW d \in Devices, NEW u \in Usernames,
           SelectProfile(b, d, u)
    PROVE  NothingAppears /\ NothingVanishes
<1>1. /\ boot'[b].key = None /\ \A c \in Bootstraps : c # b => boot'[c] = boot[c]
  BY SelectIsSound
<1>2. /\ boot[b].stage = "none" /\ UNCHANGED <<disk, open, deletion>>
  BY DEF SelectProfile
<1>3. boot[b].key = None /\ None \notin Peers
  BY <1>2, NoneHasNothing, KindsDiffer DEF Sound, BootIsSound
<1>4. QED
  BY <1>1, <1>2, <1>3 DEF Holds, NothingAppears, NothingVanishes

\* Starting a bootstrap closes the profile that was open, if one was.
LEMMA StartPlaces ==
    ASSUME Sound, NEW b \in Bootstraps, StartBootstrap(b)
    PROVE  NothingAppears /\ (Alone => NothingVanishes)
<1>1. boot[b].stage = "selected" /\ Become(b, "started") /\ UNCHANGED <<disk, deletion>>
      /\ open' = [open EXCEPT ![boot[b].device] = NoProfile]
  BY DEF StartBootstrap
<1>2. /\ boot'[b].device = boot[b].device /\ boot'[b].username = boot[b].username
      /\ boot'[b].key = boot[b].key /\ \A c \in Bootstraps : c # b => boot'[c] = boot[c]
  BY <1>1, Becomes DEF Sound, Stages
<1>3. \A d \in Devices : open'[d] = open[d] \/ open'[d].key = None
  BY <1>1, NoneHasNothing DEF Sound, TypeOK
<1>4. NothingAppears
  BY <1>1, <1>2, <1>3, BootPlaces DEF Holds
<1>5. Alone => NothingVanishes
  BY <1>1, <1>2, StartAlone, SamePlaces
<1>6. QED
  BY <1>4, <1>5

LEMMA CheckPlaces ==
    ASSUME Sound, NEW b \in Bootstraps, CheckKey(b)
    PROVE  NothingAppears /\ NothingVanishes
<1>1. UNCHANGED <<disk, open, deletion>>
  BY DEF CheckKey
<1>2. QED
  BY <1>1, CheckIsSound, SamePlaces

LEMMA StagePlaces ==
    ASSUME Sound, NEW b \in Bootstraps, NEW stage \in Stages, Become(b, stage),
           UNCHANGED <<disk, open, deletion>>
    PROVE  NothingAppears /\ NothingVanishes
  BY Becomes, SamePlaces DEF Sound

\* A bootstrap that replaces what no key is, or its own key.
LEMMA ReplacePlaces ==
    ASSUME Sound, NEW b \in Bootstraps, NEW stage \in Stages, Become(b, stage),
           boot[b].stage # "none", NEW x \in Contents, Replace(b, x),
           x \in Peers => x = boot[b].key,
           UNCHANGED <<open, deletion>>
    PROVE  /\ NothingAppears
           /\ Directory(b) \notin Peers \/ Directory(b) = boot[b].key => NothingVanishes
<1>1. /\ boot'[b].device = boot[b].device /\ boot'[b].username = boot[b].username
      /\ boot'[b].key = boot[b].key /\ \A c \in Bootstraps : c # b => boot'[c] = boot[c]
  BY Becomes DEF Sound
<1>2. /\ disk'[boot[b].device][boot[b].username] = x
      /\ \A d \in Devices, u \in Usernames :
            d # boot[b].device \/ u # boot[b].username => disk'[d][u] = disk[d][u]
  BY Replaced
<1>3. ASSUME NEW d \in Devices, NEW u \in Usernames, disk'[d][u] \in Peers
      PROVE  Holds(d, u, disk'[d][u])
  <2>1. CASE d = boot[b].device /\ u = boot[b].username
    BY <1>2, <1>3, <2>1 DEF Holds
  <2>2. CASE d # boot[b].device \/ u # boot[b].username
    BY <1>2, <2>2 DEF Holds
  <2>3. QED
    BY <2>1, <2>2
<1>4. NothingAppears
  <2>1. Holds(boot'[b].device, boot'[b].username, boot'[b].key)
    BY <1>1 DEF Holds
  <2>2. QED
    BY <1>1, <1>3, <2>1, BootPlaces
<1>5. ASSUME Directory(b) \notin Peers \/ Directory(b) = boot[b].key,
             NEW d \in Devices, NEW u \in Usernames, NEW k \in Peers, Holds(d, u, k)
      PROVE  Holds(d, u, k)'
  <2>1. CASE disk[d][u] = k
    <3>1. CASE d = boot[b].device /\ u = boot[b].username
      <4>1. boot'[b].device = d /\ boot'[b].username = u /\ boot'[b].key = k
        BY <1>1, <1>5, <2>1, <3>1 DEF Directory
      <4>2. QED
        BY <4>1 DEF Holds
    <3>2. CASE d # boot[b].device \/ u # boot[b].username
      BY <1>2, <2>1, <3>2 DEF Holds
    <3>3. QED
      BY <3>1, <3>2
  <2>2. CASE disk[d][u] # k
    BY <1>1, <1>5, <2>2 DEF Holds
  <2>3. QED
    BY <2>1, <2>2
<1>6. QED
  BY <1>4, <1>5 DEF NothingVanishes

\* A key file whose writer finds it gone or replaced is not written.
LEMMA WritePlaces ==
    ASSUME Sound, NEW b \in Bootstraps, WriteKey(b)
    PROVE  NothingAppears /\ NothingVanishes
<1>1. boot[b].stage = "writing" /\ boot[b].key \in Contents /\ UNCHANGED <<open, deletion>>
  BY DEF WriteKey, Sound, BootIsSound, Armed, Contents
<1>2. "asking" \in Stages /\ "failed" \in Stages
  BY DEF Stages, Armed
<1>3. CASE Directory(b) = b /\ Replace(b, boot[b].key) /\ Become(b, "asking")
  <2>1. Directory(b) \notin Peers
    BY <1>3, KindsDiffer
  <2>2. QED
    BY <1>1, <1>2, <1>3, <2>1, ReplacePlaces
<1>4. CASE UNCHANGED disk /\ (Become(b, "asking") \/ Become(b, "failed"))
  BY <1>1, <1>2, <1>4, StagePlaces
<1>5. QED
  BY <1>3, <1>4 DEF WriteKey

LEMMA CleanUpPlaces ==
    ASSUME Sound, NEW b \in Bootstraps, CleanUp(b)
    PROVE  NothingAppears /\ (Alone => NothingVanishes)
<1>1. /\ boot[b].stage = "rejected" /\ Become(b, "failed") /\ UNCHANGED <<open, deletion>>
      /\ UNCHANGED disk \/ Replace(b, "absent")
  BY DEF CleanUp
<1>2. "failed" \in Stages /\ "absent" \in Contents /\ "absent" \notin Peers
  BY KindsDiffer DEF Stages, Contents
<1>3. Alone => Directory(b) = boot[b].key
  BY <1>1 DEF Alone, BootIsAlone, Armed
<1>4. CASE UNCHANGED disk
  BY <1>1, <1>2, <1>4, StagePlaces
<1>5. CASE Replace(b, "absent")
  BY <1>1, <1>2, <1>3, <1>5, ReplacePlaces
<1>6. QED
  BY <1>1, <1>4, <1>5

LEMMA OpenPlaces ==
    ASSUME Sound, NEW b \in Bootstraps, OpenProfile(b)
    PROVE  NothingAppears /\ NothingVanishes
<1>1. /\ boot[b].stage = "opening" /\ UNCHANGED <<open, deletion>>
      /\ Replace(b, IF Directory(b) = "absent" THEN "empty" ELSE Directory(b))
  BY DEF OpenProfile
<1>2. PICK stage \in {"ready", "failed"} : Become(b, stage)
  BY DEF OpenProfile
<1>3. stage \in Stages
  BY DEF Stages, Armed
<1>4. CASE Directory(b) = "absent"
  <2>1. /\ Replace(b, "empty") /\ "empty" \in Contents /\ "empty" \notin Peers
        /\ Directory(b) \notin Peers
    BY <1>1, <1>4, KindsDiffer DEF Contents
  <2>2. QED
    BY <1>1, <1>2, <1>3, <2>1, ReplacePlaces
<1>5. CASE Directory(b) # "absent"
  <2>1. UNCHANGED disk
    BY <1>1, <1>5 DEF Replace, Directory, Sound, TypeOK, BootIsSound
  <2>2. QED
    BY <1>1, <1>2, <1>3, <2>1, StagePlaces
<1>6. QED
  BY <1>4, <1>5

\* The key goes from the bootstrap to the open profile.
LEMMA FinishPlaces ==
    ASSUME Sound, NEW b \in Bootstraps, FinishBootstrap(b)
    PROVE  NothingAppears /\ (Alone => NothingVanishes)
<1> DEFINE e == boot[b].device
<1>1. /\ boot[b].stage \in {"ready", "failed"} /\ e \in Devices
      /\ UNCHANGED <<disk, deletion, troubled>>
  BY DEF FinishBootstrap, Sound, BootIsSound
<1>2. /\ boot'[b] = NoBoot /\ \A c \in Bootstraps : c # b => boot'[c] = boot[c]
  BY FinishIsSound
<1>3. /\ \A d \in Devices : d # e => open'[d] = open[d]
      /\ \/ open'[e].username = boot[b].username /\ open'[e].key = boot[b].key
         \/ boot[b].stage = "failed" /\ open'[e].key = None
  BY <1>1, NoneHasNothing DEF FinishBootstrap, Sound, TypeOK
<1>4. boot'[b].key \notin Peers
  BY <1>2, NoneHasNothing, KindsDiffer
<1>5. \A d \in Devices : \/ open'[d] = open[d] \/ open'[d].key = None
                         \/ Holds(d, open'[d].username, open'[d].key)
  BY <1>1, <1>3 DEF Holds
<1>6. NothingAppears
  BY <1>1, <1>2, <1>4, <1>5, BootPlaces DEF Holds
<1>7. ASSUME Alone, NEW d \in Devices, NEW u \in Usernames, NEW k \in Peers, Holds(d, u, k)
      PROVE  Holds(d, u, k)' \/ k \in troubled'
  <2>1. None \notin Peers /\ open[e].key = None
    BY <1>1, <1>7, KindsDiffer, NoneHasNothing DEF Alone, BootIsAlone, DeviceIsAlone
  <2>2. CASE disk[d][u] = k \/ (deletion[d].username = u /\ deletion[d].key = k)
    BY <1>1, <2>2 DEF Holds
  <2>3. CASE open[d].username = u /\ open[d].key = k
    BY <1>3, <2>1, <2>3 DEF Holds
  <2>4. ASSUME NEW c \in Bootstraps,
               boot[c].device = d /\ boot[c].username = u /\ boot[c].key = k
        PROVE  Holds(d, u, k)' \/ k \in troubled'
    <3>1. CASE c # b
      BY <1>2, <2>4, <3>1 DEF Holds
    <3>2. CASE c = b /\ boot[b].stage = "failed"
      <4>1. k \in troubled \/ Directory(b) = k
        BY <1>7, <2>1, <2>4, <3>2 DEF Alone, BootIsAlone
      <4>2. QED
        BY <1>1, <2>4, <3>2, <4>1 DEF Directory, Holds
    <3>3. CASE c = b /\ boot[b].stage = "ready"
      BY <1>3, <2>4, <3>3 DEF Holds
    <3>4. QED
      BY <1>1, <3>1, <3>2, <3>3
  <2>5. QED
    BY <1>7, <2>2, <2>3, <2>4 DEF Holds
<1>8. QED
  BY <1>6, <1>7 DEF NothingVanishes

\* The one step that makes a key takes one that was nowhere.
LEMMA GetKeyPlaces ==
    ASSUME Sound, KeysAreLocal, NEW b \in Bootstraps, GetKey(b)
    PROVE  KeysAreLocal' /\ (Alone => NothingVanishes)
<1>1. boot[b].stage = "checked" /\ UNCHANGED <<open, deletion>> /\ boot[b].device \in Devices
  BY DEF GetKey, Sound, BootIsSound
<1>2. /\ boot'[b].device = boot[b].device /\ boot'[b].username = boot[b].username
      /\ \A c \in Bootstraps : c # b => boot'[c] = boot[c]
  BY GetKeyIsSound
<1>3. None \notin Peers /\ (Alone => boot[b].key = None)
  BY <1>1, KindsDiffer DEF Alone, BootIsAlone
<1>4. CASE Directory(b) \in Peers /\ UNCHANGED <<disk, generated>> /\ boot'[b].key = Directory(b)
  <2>1. NothingAppears
    <3>1. Holds(boot'[b].device, boot'[b].username, boot'[b].key)
      BY <1>2, <1>4 DEF Holds, Directory
    <3>2. QED
      BY <1>1, <1>2, <1>4, <3>1, BootPlaces DEF Holds
  <2>2. KeysAreLocal'
    BY <1>4, <2>1 DEF NothingAppears, KeysAreLocal
  <2>3. Alone => NothingVanishes
    BY <1>1, <1>2, <1>3, <1>4 DEF Holds, NothingVanishes
  <2>4. QED
    BY <2>2, <2>3
<1>5. CASE boot'[b].key = boot[b].key /\ UNCHANGED <<disk, generated>>
  <2>1. NothingAppears /\ NothingVanishes
    BY <1>1, <1>2, <1>5, SamePlaces
  <2>2. QED
    BY <1>5, <2>1 DEF NothingAppears, KeysAreLocal
<1>6. CASE /\ Directory(b) \in {"absent", "empty"} /\ Replace(b, b)
           /\ boot'[b].key \in Peers \ generated
           /\ generated' = generated \cup {boot'[b].key}
  <2>1. /\ disk'[boot[b].device][boot[b].username] = b
        /\ \A d \in Devices, u \in Usernames :
              d # boot[b].device \/ u # boot[b].username => disk'[d][u] = disk[d][u]
    BY <1>1, <1>6, Replaced DEF Contents
  <2>2. b \notin Peers /\ Directory(b) \notin Peers
    BY <1>6, KindsDiffer
  <2>3. ASSUME NEW d \in Devices, NEW u \in Usernames, NEW k \in Peers, Holds(d, u, k)'
        PROVE  Holds(d, u, k) \/ (k = boot'[b].key /\ d = boot[b].device)
    BY <1>1, <1>2, <2>1, <2>2, <2>3 DEF Holds
  <2>4. KeysAreLocal'
    BY <1>6, <2>3 DEF KeysAreLocal
  <2>5. ASSUME Alone, NEW d \in Devices, NEW u \in Usernames, NEW k \in Peers, Holds(d, u, k)
        PROVE  Holds(d, u, k)'
    <3>1. CASE disk[d][u] = k
      BY <2>1, <2>2, <3>1 DEF Directory, Holds
    <3>2. CASE disk[d][u] # k
      BY <1>1, <1>2, <1>3, <2>5, <3>2 DEF Holds
    <3>3. QED
      BY <3>1, <3>2
  <2>6. QED
    BY <2>4, <2>5 DEF NothingVanishes
<1>7. QED
  BY <1>4, <1>5, <1>6, GetKeyIsSound

LEMMA BootstrapPlaces ==
    ASSUME Sound, KeysAreLocal, NEW b \in Bootstraps, BootstrapStep(b)
    PROVE  KeysAreLocal' /\ (Alone => NothingVanishes)
<1>1. CASE GetKey(b)
  BY <1>1, GetKeyPlaces
<1>2. CASE ~GetKey(b)
  <2>1. UNCHANGED generated
    BY <1>2
    DEF BootstrapStep, StartBootstrap, CheckKey, WriteKey, RequestRegistration,
        Registered, NotRegistered, CleanUp, OpenProfile, FinishBootstrap
  <2>2. ASSUME RequestRegistration(b) \/ Registered(b) \/ NotRegistered(b)
        PROVE  NothingAppears /\ NothingVanishes
    <3>1. UNCHANGED <<disk, open, deletion>>
      BY <2>2 DEF RequestRegistration, Registered, NotRegistered
    <3>2. PICK stage \in {"waiting", "opening", "rejected"} : Become(b, stage)
      BY <2>2 DEF RequestRegistration, Registered, NotRegistered
    <3>3. stage \in Stages
      BY DEF Stages, Armed
    <3>4. QED
      BY <3>1, <3>2, <3>3, StagePlaces
  <2>3. NothingAppears /\ (Alone => NothingVanishes)
    BY <1>2, <2>2, StartPlaces, CheckPlaces, WritePlaces, CleanUpPlaces, OpenPlaces, FinishPlaces
    DEF BootstrapStep
  <2>4. QED
    BY <2>1, <2>3 DEF NothingAppears, KeysAreLocal
<1>3. QED
  BY <1>1, <1>2

\* A deletion begins with the key on disk and goes on with the same key.
LEMMA DeletionPlaces ==
    ASSUME Sound, NEW d \in Devices,
           \/ RequestRelease(d) \/ ReleaseEnded(d)
           \/ \E u \in Usernames : BeginDeletion(d, u)
    PROVE  NothingAppears /\ NothingVanishes
<1>1. CASE RequestRelease(d) \/ ReleaseEnded(d)
  <2>1. UNCHANGED <<disk, open, boot>>
    BY <1>1 DEF RequestRelease, ReleaseEnded
  <2>2. PICK stage \in {"waiting", "removing"} : deletion' = [deletion EXCEPT ![d].stage = stage]
    BY <1>1 DEF RequestRelease, ReleaseEnded
  <2>3. QED
    BY <2>1, <2>2, DeletionBecomes, SamePlaces DEF Sound
<1>2. CASE \E u \in Usernames : BeginDeletion(d, u)
  <2>1. PICK u \in Usernames : BeginDeletion(d, u)
    BY <1>2
  <2>2. /\ deletion'[d].username = u /\ deletion'[d].key = disk[d][u]
        /\ \A e \in Devices : e # d => deletion'[e] = deletion[e]
    BY <2>1, BeginIsSound
  <2>3. deletion[d].stage = "none" /\ UNCHANGED <<disk, open, boot>>
    BY <2>1 DEF BeginDeletion, Responsive
  <2>4. deletion[d].key \notin Peers
    BY <2>3, NoneHasNothing, KindsDiffer DEF Sound, DeletionIsSound
  <2>5. QED
    BY <2>2, <2>3, <2>4 DEF Holds, NothingAppears, NothingVanishes
<1>3. QED
  BY <1>1, <1>2

LEMMA RemovePlaces ==
    ASSUME Sound, NEW d \in Devices, RemoveProfile(d)
    PROVE  /\ NothingAppears
           /\ Alone =>
                 \A e \in Devices, u \in Usernames, k \in Peers :
                     \/ Holds(e, u, k) => Holds(e, u, k)'
                     \/ u = deletion[d].username /\ k = deletion[d].key
<1>1. /\ deletion'[d] = NoDeletion /\ \A e \in Devices : e # d => deletion'[e] = deletion[e]
      /\ disk'[d][deletion[d].username] = "absent"
      /\ \A e \in Devices, u \in Usernames :
            e # d \/ u # deletion[d].username => disk'[e][u] = disk[e][u]
  BY RemoveIsSound
<1>2. UNCHANGED <<open, boot>> /\ deletion[d].stage = "removing"
  BY DEF RemoveProfile
<1>3. deletion'[d].key \notin Peers /\ "absent" \notin Peers
  BY <1>1, NoneHasNothing, KindsDiffer
<1>4. NothingAppears
  BY <1>1, <1>2, <1>3 DEF Holds, NothingAppears
<1>5. Alone => disk[d][deletion[d].username] = deletion[d].key
  BY <1>2 DEF Alone, DeviceIsAlone
<1>6. QED
  BY <1>1, <1>2, <1>4, <1>5 DEF Holds

\* What a restart takes out of memory has no outcome, or is on disk.
LEMMA RestartPlaces ==
    ASSUME Sound, NEW d \in Devices, Restart(d)
    PROVE  NothingAppears /\ (Alone => NothingVanishes)
<1>1. /\ \A b \in Bootstraps : boot'[b] = IF boot[b].device = d THEN NoBoot ELSE boot[b]
      /\ deletion'[d] = NoDeletion /\ \A e \in Devices : e # d => deletion'[e] = deletion[e]
      /\ \A u \in Usernames :
            disk'[d][u] = IF disk[d][u] \in Bootstraps THEN "torn" ELSE disk[d][u]
      /\ \A e \in Devices : e # d => disk'[e] = disk[e]
  BY RestartIsSound
<1>2. open'[d] = NoProfile /\ \A e \in Devices : e # d => open'[e] = open[e]
  BY DEF Restart, Sound, TypeOK
<1>3. /\ NoBoot.key \notin Peers /\ NoDeletion.key \notin Peers /\ NoProfile.key \notin Peers
      /\ "torn" \notin Peers /\ Bootstraps \cap Peers = {} /\ None \notin Peers
  BY NoneHasNothing, KindsDiffer
<1>4. ASSUME NEW e \in Devices, NEW u \in Usernames, NEW k \in Peers, Holds(e, u, k)'
      PROVE  Holds(e, u, k)
  <2>1. \A b \in Bootstraps : boot'[b].key = k => boot'[b] = boot[b]
    BY <1>1, <1>3
  <2>2. CASE e = d
    BY <1>1, <1>2, <1>3, <1>4, <2>1, <2>2 DEF Holds
  <2>3. CASE e # d
    BY <1>1, <1>2, <1>4, <2>1, <2>3 DEF Holds
  <2>4. QED
    BY <2>2, <2>3
<1>5. \A k \in Peers :
         (\E b \in Bootstraps : boot[b].device = d /\ boot[b].key = k) \/ deletion[d].key = k
             => k \in troubled'
  BY <1>3 DEF Restart
<1>6. ASSUME Alone, NEW e \in Devices, NEW u \in Usernames, NEW k \in Peers, Holds(e, u, k)
      PROVE  Holds(e, u, k)' \/ k \in troubled'
  <2>1. CASE e # d
    <3>1. \A b \in Bootstraps : boot[b].device = e => boot'[b] = boot[b]
      BY <1>1, <2>1
    <3>2. QED
      BY <1>1, <1>2, <1>6, <2>1, <3>1 DEF Holds
  <2>2. CASE e = d
    <3>1. disk[d][u] = k => disk'[d][u] = k
      BY <1>1, <1>3
    <3>2. open[d].username = u /\ open[d].key = k => disk[d][u] = k
      BY <1>3, <1>6, NoneHasNothing DEF Alone, DeviceIsAlone
    <3>3. QED
      BY <1>5, <1>6, <2>2, <3>1, <3>2 DEF Holds
  <2>3. QED
    BY <2>1, <2>2
<1>7. QED
  BY <1>4, <1>6 DEF NothingAppears, NothingVanishes

LEMMA NextKeepsKeysLocal == Sound /\ KeysAreLocal /\ [LifecycleNext]_vars => KeysAreLocal'
<1> SUFFICES ASSUME Sound, KeysAreLocal, [LifecycleNext]_vars PROVE KeysAreLocal'
  OBVIOUS
<1>1. ASSUME NothingAppears, UNCHANGED generated PROVE KeysAreLocal'
  BY <1>1 DEF NothingAppears, KeysAreLocal
<1>2. ASSUME NEW b \in Bootstraps, NEW d \in Devices, NEW u \in Usernames, SelectProfile(b, d, u)
      PROVE  KeysAreLocal'
  <2>1. UNCHANGED generated
    BY <1>2 DEF SelectProfile
  <2>2. QED
    BY <1>1, <1>2, <2>1, SelectPlaces
<1>3. ASSUME NEW d \in Devices, RequestRelease(d) \/ ReleaseEnded(d) PROVE KeysAreLocal'
  <2>1. UNCHANGED generated
    BY <1>3 DEF RequestRelease, ReleaseEnded
  <2>2. QED
    BY <1>1, <1>3, <2>1, DeletionPlaces
<1>4. ASSUME NEW d \in Devices, NEW u \in Usernames, BeginDeletion(d, u) PROVE KeysAreLocal'
  <2>1. UNCHANGED generated
    BY <1>4 DEF BeginDeletion
  <2>2. QED
    BY <1>1, <1>4, <2>1, DeletionPlaces
<1>5. ASSUME NEW d \in Devices, RemoveProfile(d) PROVE KeysAreLocal'
  <2>1. UNCHANGED generated
    BY <1>5 DEF RemoveProfile
  <2>2. QED
    BY <1>1, <1>5, <2>1, RemovePlaces
<1>6. ASSUME NEW d \in Devices, Restart(d) PROVE KeysAreLocal'
  <2>1. UNCHANGED generated
    BY <1>6 DEF Restart
  <2>2. QED
    BY <1>1, <1>6, <2>1, RestartPlaces
<1>7. ASSUME UNCHANGED <<disk, open, boot, deletion, generated>> PROVE KeysAreLocal'
  BY <1>1, <1>7, SamePlaces
<1>8. ASSUME NEW q \in wire, Serve(q) PROVE KeysAreLocal'
  BY <1>7, <1>8 DEF Serve, device
<1>9. ASSUME UNCHANGED vars PROVE KeysAreLocal'
  BY <1>7, <1>9 DEF vars
<1>10. QED
  BY <1>2, <1>3, <1>4, <1>5, <1>6, <1>8, <1>9, BootstrapPlaces DEF LifecycleNext, DeletionStep

\* A registration becomes late only when its caller gives it up.
LEMMA AbandonIsTrouble ==
    ASSUME Sound, LateIsTrouble, NEW callers \in SUBSET Callers, Abandon(callers),
           troubled \subseteq troubled',
           \A b \in callers \cap Bootstraps : answer[b] = "none" => boot[b].key \in troubled' \cup {None}
    PROVE  LateIsTrouble'
<1>1. wire \subseteq Requests /\ None \notin Peers
  BY KindsDiffer DEF Sound, TypeOK
<1>2. ASSUME NEW q \in wire', q.kind = "register", q.from = None PROVE q.peer \in troubled'
  <2>1. CASE q \in wire
    BY <1>2, <2>1 DEF LateIsTrouble
  <2>2. CASE q \notin wire
    <3>1. PICK p \in wire : p.from \in callers /\ p.kind = "register" /\ p.peer = q.peer
      BY <1>2, <2>2, Abandoned DEF Sound
    <3>2. p.from \in Bootstraps /\ p.peer \in Peers
      BY <1>1, <3>1 DEF Sound, RequestIsSound, Callers, Requests
    <3>3. answer[p.from] = "none" /\ p.peer = boot[p.from].key
      BY <3>1, <3>2 DEF Sound, RequestIsSound
    <3>4. QED
      BY <1>1, <3>1, <3>2, <3>3
  <2>3. QED
    BY <2>1, <2>2
<1>3. QED
  BY <1>2 DEF LateIsTrouble

LEMMA NextKeepsLateTrouble == Sound /\ LateIsTrouble /\ [LifecycleNext]_vars => LateIsTrouble'
<1> SUFFICES ASSUME Sound, LateIsTrouble, [LifecycleNext]_vars PROVE LateIsTrouble'
  OBVIOUS
<1>1. ASSUME UNCHANGED <<wire, troubled>> PROVE LateIsTrouble'
  BY <1>1 DEF LateIsTrouble
<1>2. ASSUME NEW q \in wire, Serve(q) PROVE LateIsTrouble'
  <2>1. wire' = wire \ {q} /\ UNCHANGED troubled
    BY <1>2, ServeIsSound
  <2>2. QED
    BY <2>1 DEF LateIsTrouble
<1>3. ASSUME NEW c \in Callers, NEW kind \in {"register", "release"}, NEW u \in Usernames,
             NEW k \in Peers, Send(c, kind, u, k), UNCHANGED troubled
      PROVE  LateIsTrouble'
  <2>1. \A q \in wire' : q \in wire \/ q.from = c
    BY <1>3, Sent DEF Sound
  <2>2. c # None
    BY KindsDiffer DEF Callers
  <2>3. QED
    BY <1>3, <2>1, <2>2 DEF LateIsTrouble
<1>4. ASSUME NEW b \in Bootstraps, RequestRegistration(b) PROVE LateIsTrouble'
  <2>1. boot[b].username \in Usernames /\ boot[b].key \in Peers /\ b \in Callers
    BY <1>4 DEF RequestRegistration, Sound, BootIsSound, Armed, Callers
  <2>2. Send(b, "register", boot[b].username, boot[b].key) /\ UNCHANGED troubled
    BY <1>4 DEF RequestRegistration
  <2>3. QED
    BY <1>3, <2>1, <2>2
<1>5. ASSUME NEW d \in Devices, RequestRelease(d) PROVE LateIsTrouble'
  <2>1. deletion[d].username \in Usernames /\ deletion[d].key \in Peers /\ d \in Callers
    BY <1>5 DEF RequestRelease, Sound, DeletionIsSound, Callers
  <2>2. Send(d, "release", deletion[d].username, deletion[d].key) /\ UNCHANGED troubled
    BY <1>5 DEF RequestRelease
  <2>3. QED
    BY <1>3, <2>1, <2>2
<1>6. ASSUME NEW b \in Bootstraps, Registered(b) \/ NotRegistered(b) PROVE LateIsTrouble'
  <2>1. /\ Abandon({b}) /\ {b} \in SUBSET Callers /\ troubled \subseteq troubled'
        /\ answer[b] = "none" => boot[b].key \in troubled'
    BY <1>6 DEF Registered, NotRegistered, Callers
  <2>2. QED
    BY <2>1, AbandonIsTrouble
<1>7. ASSUME NEW d \in Devices, ReleaseEnded(d) PROVE LateIsTrouble'
  <2>1. /\ Abandon({d}) /\ {d} \in SUBSET Callers /\ troubled \subseteq troubled'
        /\ {d} \cap Bootstraps = {}
    BY <1>7, KindsDiffer DEF ReleaseEnded, Callers
  <2>2. QED
    BY <2>1, AbandonIsTrouble
<1>8. ASSUME NEW d \in Devices, Restart(d) PROVE LateIsTrouble'
  <2> DEFINE mine == {b \in Bootstraps : boot[b].device = d}
  <2>1. /\ Abandon(mine \cup {d}) /\ mine \cup {d} \in SUBSET Callers
        /\ troubled \subseteq troubled'
        /\ \A b \in mine : boot[b].key \in troubled' \cup {None}
    BY <1>8 DEF Restart, Callers
  <2>2. (mine \cup {d}) \cap Bootstraps \subseteq mine
    BY KindsDiffer
  <2> HIDE DEF mine
  <2>3. QED
    BY <2>1, <2>2, AbandonIsTrouble
<1>9. ASSUME NEW b \in Bootstraps, BootstrapStep(b),
             ~RequestRegistration(b), ~Registered(b), ~NotRegistered(b)
      PROVE  LateIsTrouble'
  <2>1. UNCHANGED <<wire, troubled>>
    BY <1>9
    DEF BootstrapStep, StartBootstrap, CheckKey, GetKey, WriteKey, CleanUp, OpenProfile,
        FinishBootstrap
  <2>2. QED
    BY <1>1, <2>1
<1>10. ASSUME \/ \E b \in Bootstraps, d \in Devices, u \in Usernames : SelectProfile(b, d, u)
              \/ \E d \in Devices, u \in Usernames : BeginDeletion(d, u)
              \/ \E d \in Devices : RemoveProfile(d)
              \/ UNCHANGED vars
       PROVE  LateIsTrouble'
  BY <1>1, <1>10 DEF SelectProfile, BeginDeletion, RemoveProfile, vars
<1>11. QED
  BY <1>2, <1>4, <1>5, <1>6, <1>7, <1>8, <1>9, <1>10 DEF LifecycleNext, DeletionStep

\* No name is granted, and a deletion gets no further without its name being given back.
LEMMA DeletedNamesStayGone ==
    ASSUME DeletedNamesAreGone, UNCHANGED names, troubled \subseteq troubled',
           \A d \in Devices : Deleted(d)' =>
               /\ deletion'[d].username = deletion[d].username /\ deletion'[d].key = deletion[d].key
               /\ Deleted(d) \/ deletion[d].key \in troubled'
    PROVE  DeletedNamesAreGone'
  BY DEF DeletedNamesAreGone

LEMMA ServeKeepsDeletedGone ==
    ASSUME Sound, Alone, KeysAreLocal, LateIsTrouble, DeletedNamesAreGone,
           NEW q \in wire, Serve(q)
    PROVE  DeletedNamesAreGone'
<1>1. /\ \A c \in Callers : c # q.from => answer'[c] = answer[c]
      /\ q.from \in Callers /\ answer'[q.from] \in {"ok", "not_found"} /\ q.kind = "release" =>
            [username |-> q.username, peer |-> q.peer] \notin names'
      /\ \A n \in names' : n \in names \/ /\ q.kind = "register" /\ n.username = q.username
                                          /\ n.peer = q.peer
      /\ UNCHANGED <<disk, view, open, boot, deletion, troubled>>
      /\ Sound'
  BY ServeIsSound
<1>2. q \in Requests
  BY DEF Sound, TypeOK
<1>3. ASSUME NEW d \in Devices, Deleted(d)', deletion[d].key \notin troubled,
             NEW n \in names', n.username = deletion[d].username, n.peer = deletion[d].key
      PROVE  FALSE
  <2>1. /\ deletion[d].stage # "none" /\ d \in Callers
        /\ deletion[d].username \in Usernames /\ deletion[d].key \in Peers
    BY <1>1, <1>3 DEF Deleted, Sound, DeletionIsSound, Callers
  <2>2. CASE ~Deleted(d)
    <3>1. q.from = d /\ answer'[d] \in {"ok", "not_found"}
      BY <1>1, <1>3, <2>1, <2>2 DEF Deleted
    <3>2. q.kind = "release" /\ q.username = n.username /\ q.peer = n.peer
      BY <1>3, <3>1 DEF Sound, RequestIsSound
    <3>3. n = [username |-> n.username, peer |-> n.peer]
      BY <1>1 DEF Sound, TypeOK
    <3>4. QED
      BY <1>1, <2>1, <3>1, <3>2, <3>3
  <2>3. CASE Deleted(d) /\ n \notin names
    <3>1. q.kind = "register" /\ q.username = n.username /\ q.peer = n.peer
      BY <1>1, <2>3
    <3>2. q.from \in Bootstraps
      BY <1>2, <1>3, <3>1 DEF LateIsTrouble, Sound, RequestIsSound, Requests, Callers
    <3>3. /\ boot[q.from].stage = "waiting" /\ boot[q.from].username = n.username
          /\ boot[q.from].key = n.peer
      BY <3>1, <3>2 DEF Sound, RequestIsSound
    <3>4. boot[q.from].device \in Devices /\ view[boot[q.from].device] = "bootstrapping"
      BY <3>2, <3>3 DEF Sound, BootIsSound, Alone, BootIsAlone
    <3>5. Holds(d, n.username, n.peer) /\ Holds(boot[q.from].device, n.username, n.peer)
      BY <1>3, <3>2, <3>3 DEF Holds
    <3>6. d = boot[q.from].device
      BY <1>3, <2>1, <3>4, <3>5 DEF KeysAreLocal
    <3>7. QED
      BY <2>1, <3>4, <3>6 DEF Alone, DeviceIsAlone
  <2>4. CASE Deleted(d) /\ n \in names
    BY <1>3, <2>4 DEF DeletedNamesAreGone
  <2>5. QED
    BY <2>2, <2>3, <2>4
<1>4. QED
  BY <1>1, <1>3 DEF DeletedNamesAreGone

LEMMA NextKeepsDeletedGone ==
    ASSUME Sound, Alone, KeysAreLocal, LateIsTrouble, DeletedNamesAreGone,
           [LifecycleNext]_vars
    PROVE  DeletedNamesAreGone'
<1>1. ASSUME UNCHANGED <<names, deletion, answer, troubled>> PROVE DeletedNamesAreGone'
  BY <1>1 DEF DeletedNamesAreGone, Deleted
<1>2. ASSUME UNCHANGED <<names, deletion>>, troubled \subseteq troubled',
             \A d \in Devices : answer'[d] = answer[d]
      PROVE  DeletedNamesAreGone'
  BY <1>2, DeletedNamesStayGone DEF Deleted
<1>3. ASSUME NEW b \in Bootstraps, BootstrapStep(b) PROVE DeletedNamesAreGone'
  <2>1. b \in Callers /\ \A d \in Devices : d \in Callers /\ d # b
    BY KindsDiffer DEF Callers
  <2>2. CASE RequestRegistration(b)
    <3>1. boot[b].username \in Usernames /\ boot[b].key \in Peers
      BY <2>2 DEF RequestRegistration, Sound, BootIsSound, Armed
    <3>2. /\ Send(b, "register", boot[b].username, boot[b].key)
          /\ UNCHANGED <<names, deletion, troubled>>
      BY <2>2 DEF RequestRegistration
    <3>3. \A d \in Devices : answer'[d] = answer[d]
      BY <2>1, <3>1, <3>2, Sent DEF Sound
    <3>4. QED
      BY <1>2, <3>2, <3>3
  <2>3. CASE Registered(b) \/ NotRegistered(b)
    <3>1. Abandon({b}) /\ UNCHANGED <<names, deletion>> /\ troubled \subseteq troubled'
      BY <2>3 DEF Registered, NotRegistered
    <3>2. \A d \in Devices : answer'[d] = answer[d]
      BY <2>1, <3>1, Abandoned DEF Sound
    <3>3. QED
      BY <1>2, <3>1, <3>2
  <2>4. CASE ~RequestRegistration(b) /\ ~Registered(b) /\ ~NotRegistered(b)
    <3>1. UNCHANGED <<names, deletion, answer, troubled>>
      BY <1>3, <2>4
      DEF BootstrapStep, StartBootstrap, CheckKey, GetKey, WriteKey, CleanUp, OpenProfile,
          FinishBootstrap
    <3>2. QED
      BY <1>1, <3>1
  <2>5. QED
    BY <2>2, <2>3, <2>4
<1>4. ASSUME NEW d \in Devices, NEW u \in Usernames, BeginDeletion(d, u)
      PROVE  DeletedNamesAreGone'
  <2>1. deletion'[d].stage = "asking" /\ \A e \in Devices : e # d => deletion'[e] = deletion[e]
    BY <1>4, BeginIsSound
  <2>2. UNCHANGED <<names, answer, troubled>>
    BY <1>4 DEF BeginDeletion
  <2>3. QED
    BY <2>1, <2>2, DeletedNamesStayGone DEF Deleted
<1>5. ASSUME NEW d \in Devices, RequestRelease(d) PROVE DeletedNamesAreGone'
  <2>1. /\ Send(d, "release", deletion[d].username, deletion[d].key)
        /\ deletion[d].username \in Usernames /\ deletion[d].key \in Peers
        /\ d \in Callers /\ UNCHANGED <<names, troubled>>
    BY <1>5 DEF RequestRelease, Sound, DeletionIsSound, Callers
  <2>2. /\ deletion'[d].stage = "waiting"
        /\ \A e \in Devices : e # d => deletion'[e] = deletion[e]
    BY <1>5, DeletionBecomes DEF RequestRelease, Sound
  <2>3. answer'[d] = "none" /\ \A e \in Devices : e # d => answer'[e] = answer[e]
    BY <2>1, Sent DEF Sound, Callers
  <2>4. QED
    BY <2>1, <2>2, <2>3, DeletedNamesStayGone DEF Deleted
<1>6. ASSUME NEW d \in Devices, ReleaseEnded(d) PROVE DeletedNamesAreGone'
  <2>1. /\ Abandon({d}) /\ {d} \in SUBSET Callers /\ UNCHANGED names
        /\ troubled \subseteq troubled'
        /\ Deleted(d) \/ deletion[d].key \in troubled'
    BY <1>6 DEF ReleaseEnded, Deleted, Callers
  <2>2. /\ deletion'[d].username = deletion[d].username /\ deletion'[d].key = deletion[d].key
        /\ \A e \in Devices : e # d => deletion'[e] = deletion[e]
    BY <1>6, DeletionBecomes DEF ReleaseEnded, Sound
  <2>3. \A e \in Devices : e # d => answer'[e] = answer[e]
    BY <2>1, Abandoned DEF Sound, Callers
  <2>4. QED
    BY <2>1, <2>2, <2>3, DeletedNamesStayGone DEF Deleted
<1>7. ASSUME NEW d \in Devices, RemoveProfile(d) PROVE DeletedNamesAreGone'
  <2>1. deletion'[d].stage = "none" /\ \A e \in Devices : e # d => deletion'[e] = deletion[e]
    BY <1>7, RemoveIsSound, NoneHasNothing
  <2>2. UNCHANGED <<names, answer, troubled>>
    BY <1>7 DEF RemoveProfile
  <2>3. QED
    BY <2>1, <2>2, DeletedNamesStayGone DEF Deleted
<1>8. ASSUME NEW d \in Devices, Restart(d) PROVE DeletedNamesAreGone'
  <2> DEFINE callers == {b \in Bootstraps : boot[b].device = d} \cup {d}
  <2>1. deletion'[d].stage = "none" /\ \A e \in Devices : e # d => deletion'[e] = deletion[e]
    BY <1>8, RestartIsSound, NoneHasNothing
  <2>2. /\ Abandon(callers) /\ callers \in SUBSET Callers /\ UNCHANGED names
        /\ troubled \subseteq troubled'
    BY <1>8 DEF Restart, Callers
  <2>3. \A e \in Devices : e # d => e \in Callers /\ e \notin callers
    BY KindsDiffer DEF Callers
  <2> HIDE DEF callers
  <2>4. \A e \in Devices : e # d => answer'[e] = answer[e]
    BY <2>2, <2>3, Abandoned DEF Sound
  <2>5. QED
    BY <2>1, <2>2, <2>4, DeletedNamesStayGone DEF Deleted
<1>9. ASSUME UNCHANGED vars \/ \E b \in Bootstraps, d \in Devices, u \in Usernames :
                                   SelectProfile(b, d, u)
      PROVE  DeletedNamesAreGone'
  BY <1>1, <1>9 DEF vars, SelectProfile
<1>10. QED
  BY <1>3, <1>4, <1>5, <1>6, <1>7, <1>8, <1>9, ServeKeepsDeletedGone
  DEF LifecycleNext, DeletionStep

\* Names stay explained when none is granted and no key is lost without trouble.
LEMMA NamesKeepKeys ==
    ASSUME Sound, NamesHaveKeys, UNCHANGED names, troubled \subseteq troubled', NothingVanishes
    PROVE  NamesHaveKeys'
<1>1. \A n \in names : n.username \in Usernames /\ n.peer \in Peers
  BY DEF Sound, TypeOK
<1>2. QED
  BY <1>1 DEF NamesHaveKeys, NothingVanishes

LEMMA ServeKeepsNamesHeld ==
    ASSUME Sound, LateIsTrouble, NamesHaveKeys, NEW q \in wire, Serve(q)
    PROVE  NamesHaveKeys'
<1>1. /\ \A n \in names' : n \in names \/ /\ q.kind = "register" /\ n.username = q.username
                                          /\ n.peer = q.peer
      /\ UNCHANGED <<disk, open, boot, deletion, troubled>>
  BY ServeIsSound
<1>2. q \in Requests
  BY DEF Sound, TypeOK
<1>3. ASSUME NEW n \in names'
      PROVE  n.peer \in troubled \/ \E d \in Devices : Holds(d, n.username, n.peer)
  <2>1. CASE n \in names
    BY <2>1 DEF NamesHaveKeys
  <2>2. CASE n \notin names
    <3>1. q.kind = "register" /\ n.username = q.username /\ n.peer = q.peer
      BY <1>1, <2>2
    <3>2. CASE q.from = None
      BY <3>1, <3>2 DEF LateIsTrouble
    <3>3. CASE q.from \in Bootstraps
      <4>1. /\ boot[q.from].stage = "waiting" /\ boot[q.from].username = n.username
            /\ boot[q.from].key = n.peer
        BY <3>1, <3>3 DEF Sound, RequestIsSound
      <4>2. boot[q.from].device \in Devices
        BY <3>3, <4>1 DEF Sound, BootIsSound
      <4>3. Holds(boot[q.from].device, n.username, n.peer)
        BY <3>3, <4>1 DEF Holds
      <4>4. QED
        BY <4>2, <4>3
    <3>4. q.from \notin Devices
      BY <3>1 DEF Sound, RequestIsSound
    <3>5. QED
      BY <1>2, <3>2, <3>3, <3>4 DEF Requests, Callers
  <2>3. QED
    BY <2>1, <2>2
<1>4. QED
  BY <1>1, <1>3 DEF NamesHaveKeys, Holds

LEMMA RemoveKeepsNamesHeld ==
    ASSUME Sound, Alone, DeletedNamesAreGone, NamesHaveKeys, NEW d \in Devices, RemoveProfile(d)
    PROVE  NamesHaveKeys'
<1>1. UNCHANGED <<names, troubled>> /\ deletion[d].stage = "removing"
  BY DEF RemoveProfile
<1>2. ASSUME NEW n \in names, n.peer \notin troubled
      PROVE  \E e \in Devices : Holds(e, n.username, n.peer)'
  <2>1. n.username \in Usernames /\ n.peer \in Peers
    BY DEF Sound, TypeOK
  <2>2. PICK e \in Devices : Holds(e, n.username, n.peer)
    BY <1>2 DEF NamesHaveKeys
  <2>3. n.username # deletion[d].username \/ n.peer # deletion[d].key
    BY <1>1, <1>2 DEF DeletedNamesAreGone, Deleted
  <2>4. Holds(e, n.username, n.peer)'
    BY <2>1, <2>2, <2>3, RemovePlaces
  <2>5. QED
    BY <2>4
<1>3. QED
  BY <1>1, <1>2 DEF NamesHaveKeys

LEMMA NextKeepsNamesHeld ==
    ASSUME Sound, Alone, KeysAreLocal, LateIsTrouble, DeletedNamesAreGone, NamesHaveKeys,
           [LifecycleNext]_vars
    PROVE  NamesHaveKeys'
<1>1. ASSUME NEW b \in Bootstraps, BootstrapStep(b) PROVE NamesHaveKeys'
  <2>1. UNCHANGED names /\ troubled \subseteq troubled'
    BY <1>1
    DEF BootstrapStep, StartBootstrap, CheckKey, GetKey, WriteKey, RequestRegistration,
        Registered, NotRegistered, CleanUp, OpenProfile, FinishBootstrap
  <2>2. NothingVanishes
    BY <1>1, BootstrapPlaces
  <2>3. QED
    BY <2>1, <2>2, NamesKeepKeys
<1>2. ASSUME NEW b \in Bootstraps, NEW d \in Devices, NEW u \in Usernames, SelectProfile(b, d, u)
      PROVE  NamesHaveKeys'
  <2>1. UNCHANGED <<names, troubled>>
    BY <1>2 DEF SelectProfile
  <2>2. QED
    BY <1>2, <2>1, SelectPlaces, NamesKeepKeys
<1>3. ASSUME NEW d \in Devices,
             \/ RequestRelease(d) \/ ReleaseEnded(d)
             \/ \E u \in Usernames : BeginDeletion(d, u)
      PROVE  NamesHaveKeys'
  <2>1. UNCHANGED names /\ troubled \subseteq troubled'
    BY <1>3 DEF RequestRelease, ReleaseEnded, BeginDeletion
  <2>2. NothingVanishes
    BY <1>3, DeletionPlaces
  <2>3. QED
    BY <2>1, <2>2, NamesKeepKeys
<1>4. ASSUME NEW d \in Devices, Restart(d) PROVE NamesHaveKeys'
  <2>1. UNCHANGED names /\ troubled \subseteq troubled'
    BY <1>4 DEF Restart
  <2>2. QED
    BY <1>4, <2>1, RestartPlaces, NamesKeepKeys
<1>5. ASSUME UNCHANGED vars PROVE NamesHaveKeys'
  BY <1>5 DEF vars, NamesHaveKeys, Holds
<1>6. ASSUME NEW d \in Devices, NEW u \in Usernames, BeginDeletion(d, u) PROVE NamesHaveKeys'
  BY <1>3, <1>6
<1>7. ASSUME NEW d \in Devices, RemoveProfile(d) PROVE NamesHaveKeys'
  BY <1>7, RemoveKeepsNamesHeld
<1>8. ASSUME NEW q \in wire, Serve(q) PROVE NamesHaveKeys'
  BY <1>8, ServeKeepsNamesHeld
<1>9. QED
  BY <1>1, <1>2, <1>3, <1>4, <1>5, <1>6, <1>7, <1>8 DEF LifecycleNext, DeletionStep

LEMMA OverlappedStays == ASSUME [LifecycleNext]_vars, overlapped PROVE overlapped'
  BY DEF LifecycleNext, vars, BootstrapStep, DeletionStep, SelectProfile, StartBootstrap, CheckKey,
         GetKey, WriteKey, RequestRegistration, Registered, NotRegistered, CleanUp, OpenProfile,
         FinishBootstrap, BeginDeletion, RequestRelease, ReleaseEnded, RemoveProfile, Restart, Serve

LEMMA NextKeepsOrphans == Sound /\ AloneInv /\ OrphanInv /\ [LifecycleNext]_vars => OrphanInv'
<1> SUFFICES ASSUME Sound, AloneInv, OrphanInv, [LifecycleNext]_vars PROVE OrphanInv'
  OBVIOUS
<1>1. KeysAreLocal' /\ LateIsTrouble'
  BY NextKeepsKeysLocal, NextKeepsLateTrouble DEF OrphanInv
<1>2. ASSUME ~overlapped' PROVE DeletedNamesAreGone' /\ NamesHaveKeys'
  <2>1. ~overlapped
    BY <1>2, OverlappedStays
  <2>2. /\ Alone /\ KeysAreLocal /\ LateIsTrouble /\ DeletedNamesAreGone /\ NamesHaveKeys
    BY <2>1 DEF AloneInv, OrphanInv
  <2>3. QED
    BY <2>2, NextKeepsDeletedGone, NextKeepsNamesHeld
<1>3. QED
  BY <1>1, <1>2 DEF OrphanInv

(* A name whose key is on no device is only left behind by a call that was *)
(* cut off or ended in an error, for any number of devices and names and   *)
(* whatever is lost or late, as long as no device has run two bootstraps   *)
(* at one time (bootstrapAppCmd and the deletion in ProfileModel.Update).  *)
THEOREM OrphansAreExplained == LifecycleSpec => []OrphansHadTrouble
<1>1. LifecycleInit => OrphanInv
  <2>1. ASSUME LifecycleInit PROVE KeysAreLocal
    BY <2>1, NoneHasNothing, KindsDiffer DEF LifecycleInit, KeysAreLocal, Holds
  <2>2. LifecycleInit => LateIsTrouble /\ DeletedNamesAreGone /\ NamesHaveKeys
    BY NoneHasNothing
    DEF LifecycleInit, Init, LateIsTrouble, DeletedNamesAreGone, Deleted, NamesHaveKeys
  <2>3. QED
    BY <2>1, <2>2 DEF OrphanInv
<1>2. Sound /\ OrphanInv => OrphansHadTrouble
  <2> SUFFICES ASSUME Sound, OrphanInv, ~overlapped, NEW n \in names
               PROVE  n.peer \in KeysOf(n.username) \cup InUse \cup troubled
    BY DEF OrphansHadTrouble
  <2>1. n.peer \in troubled \/ \E d \in Devices : Holds(d, n.username, n.peer)
    BY DEF OrphanInv, NamesHaveKeys
  <2>2. n.username \in Usernames /\ n.peer \in Peers
    BY DEF Sound, TypeOK
  <2>3. QED
    BY <2>1, <2>2 DEF Holds, KeysOf, InUse
<1>3. QED
  BY <1>1, <1>2, NextKeepsOrphans, AlwaysSound, AlwaysAlone, PTL DEF LifecycleSpec

-----------------------------------------------------------------------------
(* Profiles as seen from the registry: devices that start and stop,        *)
(* requests that are lost, late or asked for twice are to the registry     *)
(* nothing but names given out and taken back one at a time, so what holds *)
(* of NameService (and of Registry, which implements it) holds here.       *)
THEOREM LifecycleUsesService == LifecycleSpec => Spec
<1>1. LifecycleInit => Init
  BY DEF LifecycleInit
<1>2. ASSUME Sound, [LifecycleNext]_vars PROVE [Next]_<<names, rooms>>
  <2>1. CASE \E q \in wire : Serve(q)
    <3>1. PICK q \in wire : Serve(q)
      BY <2>1
    <3>2. q.username \in Usernames /\ q.peer \in Peers
      BY <1>2 DEF Sound, TypeOK, Requests
    <3>3. \/ Grant(q.username, q.peer) \/ Withdraw(q.username, q.peer)
          \/ UNCHANGED <<names, rooms>>
      BY <3>1 DEF Serve, ServeRegister, ServeRelease
    <3> QED
      BY <3>2, <3>3 DEF Next
  <2>2. CASE \E b \in Bootstraps : BootstrapStep(b)
    BY <2>2 DEF BootstrapStep, StartBootstrap, CheckKey, GetKey, WriteKey, RequestRegistration,
                Registered, NotRegistered, CleanUp, OpenProfile, FinishBootstrap
  <2>3. CASE \/ \E b \in Bootstraps, d \in Devices, u \in Usernames : SelectProfile(b, d, u)
             \/ \E d \in Devices, u \in Usernames : BeginDeletion(d, u)
    BY <2>3 DEF SelectProfile, BeginDeletion
  <2>4. CASE \E d \in Devices : DeletionStep(d) \/ Restart(d)
    BY <2>4 DEF DeletionStep, RequestRelease, ReleaseEnded, RemoveProfile, Restart
  <2>5. CASE UNCHANGED vars
    BY <2>5 DEF vars
  <2> QED
    BY <1>2, <2>1, <2>2, <2>3, <2>4, <2>5 DEF LifecycleNext
<1> QED
  BY <1>1, <1>2, AlwaysSound, PTL DEF LifecycleSpec, Spec

\* A name has one holder and a key one name; a room has one owner.
Exclusive ==
    /\ \A n, m \in names : n.username = m.username \/ n.peer = m.peer => n = m
    /\ \A p, q \in rooms : p.room = q.room => p = q

(* No order of grants and withdrawals makes two keys share a name or a     *)
(* room (what NameService promises; handleRegisterProfile and              *)
(* handleReleaseProfile keep it).                                          *)
THEOREM ServiceIsExclusive == Spec => []Exclusive
<1>1. Init => Exclusive
  BY DEF Init, Exclusive
<1>2. ASSUME Exclusive, [Next]_<<names, rooms>> PROVE Exclusive'
  <2>1. ASSUME NEW k \in Peers, NEW u \in Usernames, Grant(u, k) PROVE Exclusive'
    BY <1>2, <2>1 DEF Grant, Exclusive
  <2>2. ASSUME NEW k \in Peers, NEW u \in Usernames, Withdraw(u, k) PROVE Exclusive'
    BY <1>2, <2>2 DEF Withdraw, Exclusive
  <2>3. ASSUME NEW k \in Peers, NEW r \in Rooms, OpenRoom(r, k) \/ CloseRoom(r, k) PROVE Exclusive'
    BY <1>2, <2>3 DEF OpenRoom, CloseRoom, Exclusive
  <2>4. CASE UNCHANGED <<names, rooms>>
    BY <1>2, <2>4 DEF Exclusive
  <2> QED
    BY <1>2, <2>1, <2>2, <2>3, <2>4 DEF Next
<1> QED
  BY <1>1, <1>2, PTL DEF Spec

(* Two devices never hold one name, whatever is lost, late or started      *)
(* twice.                                                                  *)
THEOREM ProfilesAreExclusive == LifecycleSpec => []Exclusive
  BY LifecycleUsesService, ServiceIsExclusive, PTL
=============================================================================
