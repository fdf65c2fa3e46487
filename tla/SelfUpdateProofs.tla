-------------------------- MODULE SelfUpdateProofs --------------------------
(***************************************************************************)
(* What is installed has been verified, unless it was a bundle that judged *)
(* itself, and no update costs the user the program: for every set of      *)
(* files and builds, every sequence of releases and any number of          *)
(* commands, each of which may fail or be killed at every step.            *)
(*                                                                         *)
(* No such property is inductive: a directory is installed by a rename, so *)
(* the invariant has to say what the staging and the backup directory hold *)
(* at each step of the running command (StagesOK).                         *)
(***************************************************************************)
EXTENDS SelfUpdate, TLAPS

Content == Build \cup {None, Torn}
Anything == Content \cup {Damaged}

Step == {"none", "query", "bundle", "checksums", "signature", "verify", "extract", "clear",
         "copy", "in", "back", "clean", "stage", "swap", "wipe", "fill"}

JobSet == [step: Step, tag: Tag \cup {None},
           got: [Asset -> Build \cup {None, Damaged}],
           unpacked: [File -> Anything], todo: SUBSET File]

TypeOK ==
    /\ latest \in Tag
    /\ assets \in [Tag -> [Asset -> Build \cup {None}]]
    /\ named \in BOOLEAN
    /\ staging \in [File -> Content]
    /\ backup \in [File -> Content]
    /\ fresh \in Content
    /\ job \in JobSet

(* The program, a Tor beside it and their libraries are of one build.      *)
OneBuild(dir) ==
    dir["animasola"] \in Build /\ dir["tor"] # None =>
        \A f \in FilesOf[dir["animasola"]]: dir[f] \in {dir["animasola"], None, Torn}

(* Either the maintainers' files are installed, or a program of somebody   *)
(* else's.                                                                 *)
TargetOK ==
    /\ foreign \in BOOLEAN
    /\ target \in [File -> Anything]
    /\ foreign => target["animasola"] \notin Build
    /\ ~foreign => target \in [File -> Content] /\ OneBuild(target)

(* The updater has been started from the target directory and has not      *)
(* moved it away.                                                          *)
InTarget == {"query", "bundle", "checksums", "signature", "verify", "extract", "clear",
             "copy", "stage", "swap"}

(* The bundle has been verified.                                           *)
Downloaded == {"extract", "clear", "copy", "in", "back", "clean", "stage", "swap"}

Bundle == job.got["bundle"]

StagesOK ==
    /\ job.step \in Asset => job.tag \in Tag
    /\ job.step \in InTarget => target["animasola"] \in Build
    /\ job.step \in Downloaded => Bundle \in Build
    /\ job.step = "copy" => \A f \in FilesOf[Bundle]: f \in job.todo \/ staging[f] = Bundle
    /\ job.step = "in" => \A f \in FilesOf[Bundle]: staging[f] = Bundle
    /\ job.step \in {"in", "back"} => ~foreign /\ target = Empty /\ OneBuild(backup)
    /\ job.step = "clean" => Whole(target)
    /\ job.step \in {"stage", "swap"} => target["tor"] = None
    /\ job.step = "swap" => fresh = Bundle
    /\ job.step \in {"wipe", "fill"} => PassesItsOwnCheck(job.unpacked)
    /\ job.step = "fill" =>
          /\ foreign = ~MatchesManifest(job.unpacked)
          /\ \A f \in File: target[f] \in {job.unpacked[f], None}

IInv == TypeOK /\ TargetOK /\ StagesOK
-----------------------------------------------------------------------------
\* The bundle of a verified build contains the files of that build.
LEMMA VerifiedBundle ==
    ASSUME NEW b \in Build
    PROVE  /\ b \notin {None, Torn, Damaged}
           /\ Unpacked(b) = Holding(b, FilesOf[b])
           /\ {f \in File : Unpacked(b)[f] # None} = FilesOf[b]
<1>1. b \notin {None, Torn, Damaged} /\ FilesOf[b] \subseteq File
  BY MarksAreNoBuilds, BuildsArePrograms
<1>2. Unpacked(b) = Holding(b, FilesOf[b])
  BY DEF Unpacked
<1>3. \A f \in File: Unpacked(b)[f] = IF f \in FilesOf[b] THEN b ELSE None
  BY <1>2 DEF Holding
<1> QED
  BY <1>1, <1>2, <1>3

\* A removal that fails halfway leaves a part of what was there.
LEMMA RemainsAPart ==
    ASSUME NEW S, None \in S, NEW dir \in [File -> S], NEW rest \in Remains(dir)
    PROVE  rest \in [File -> S] /\ \A f \in File: rest[f] \in {dir[f], None}
BY DEF Remains

\* A program of the maintainers stands beside their files only.
LEMMA GenuineTarget ==
    ASSUME TargetOK
    PROVE  target["animasola"] \in Build => ~foreign
BY DEF TargetOK

LEMMA TargetStays ==
    ASSUME TargetOK, UNCHANGED <<target, foreign>>
    PROVE  TargetOK'
BY DEF TargetOK, OneBuild

LEMMA TargetReplaced ==
    ASSUME TargetOK, ~foreign, UNCHANGED foreign,
           target' \in [File -> Content], OneBuild(target')
    PROVE  TargetOK'
BY DEF TargetOK, OneBuild, Anything

\* A part of an installation of one build is of one build.
LEMMA PartOfOneBuild ==
    ASSUME NEW dir \in [File -> Content], NEW rest \in [File -> Content], OneBuild(dir),
           \A f \in File: rest[f] \in {dir[f], None}
    PROVE  OneBuild(rest)
<1> SUFFICES ASSUME rest["animasola"] \in Build, rest["tor"] # None
             PROVE  \A f \in FilesOf[rest["animasola"]]: rest[f] \in {rest["animasola"], None, Torn}
  BY DEF OneBuild
<1>1. "animasola" \in File /\ "tor" \in File
  BY BuildsArePrograms
<1>2. rest["animasola"] = dir["animasola"] /\ rest["tor"] = dir["tor"]
  BY <1>1, MarksAreNoBuilds
<1>3. FilesOf[rest["animasola"]] \subseteq File
  BY BuildsArePrograms
<1> QED
  BY <1>2, <1>3 DEF OneBuild

\* An empty directory is one, and starts nothing.
LEMMA EmptyDirectory ==
    /\ Empty \in [File -> Content] /\ Empty \in [File -> Anything] /\ OneBuild(Empty)
    /\ Empty["animasola"] \notin Build
BY BuildsArePrograms, MarksAreNoBuilds DEF Empty, OneBuild, Content, Anything

\* A directory that holds every file of its program is of one build.
LEMMA WholeIsOneBuild ==
    ASSUME NEW dir, Whole(dir)
    PROVE  OneBuild(dir)
BY DEF Whole, Starts, OneBuild
-----------------------------------------------------------------------------
LEMMA InitEstablishes == Init => IInv
<1> SUFFICES ASSUME Init PROVE IInv
  OBVIOUS
<1>1. PICK b \in Build:
          /\ latest = TagOf[b]
          /\ assets = [t \in Tag |-> [a \in Asset |-> IF t = latest THEN b ELSE None]]
          /\ named \in BOOLEAN /\ foreign = FALSE
          /\ target = Holding(b, FilesOf[b]) \/ target = Holding(b, {"animasola"})
          /\ staging = Empty /\ backup = Empty /\ fresh = None /\ job = NoJob
  BY DEF Init
<1>2. FilesOf[b] \subseteq File /\ {"animasola", "tor"} \subseteq FilesOf[b]
  BY BuildsArePrograms
<1>3. PICK files \in SUBSET File: target = Holding(b, files) /\ "animasola" \in files
  BY <1>1, <1>2
<1>4. target \in [File -> Content] /\ (\A f \in File: target[f] \in {b, None})
      /\ target["animasola"] = b
  BY <1>3 DEF Holding, Content
<1>5. TypeOK
  <2>1. latest \in Tag /\ assets \in [Tag -> [Asset -> Build \cup {None}]]
    BY <1>1 DEF Tag
  <2>2. staging \in [File -> Content] /\ backup \in [File -> Content] /\ fresh \in Content
    BY <1>1, EmptyDirectory DEF Content
  <2>3. job.step = "none" /\ job \in JobSet
    BY <1>1, EmptyDirectory DEF NoJob, Step, JobSet
  <2> QED
    BY <1>1, <2>1, <2>2, <2>3 DEF TypeOK
<1>6. TargetOK
  BY <1>1, <1>2, <1>4 DEF OneBuild, TargetOK, Anything
<1>7. StagesOK
  BY <1>1 DEF StagesOK, NoJob, InTarget, Downloaded, Asset
<1> QED
  BY <1>5, <1>6, <1>7 DEF IInv
-----------------------------------------------------------------------------
LEMMA ExitIsTyped == Exit => job' \in JobSet /\ job'.step = "none"
BY EmptyDirectory DEF Exit, NoJob, JobSet, Step

LEMMA GotoIsTyped ==
    ASSUME NEW step \in Step, job \in JobSet, Goto(step)
    PROVE  /\ job' \in JobSet
           /\ job'.step = step /\ job'.got = job.got /\ job'.todo = job.todo
BY DEF Goto, JobSet

\* A command that ends, or has not begun, leaves nothing to be said of stages.
LEMMA NoStage ==
    ASSUME job.step = "none"
    PROVE  StagesOK
BY DEF StagesOK, InTarget, Downloaded, Asset

\* The maintainers touch no file.
LEMMA MaintainersKeep ==
    ASSUME IInv,
           (\E b \in Build, a \in Asset: Upload(b, a)) \/ (\E tag \in Tag: Announce(tag))
    PROVE  IInv'
<1>1. UNCHANGED <<site, target, beside, fresh, job>>
  BY DEF Upload, Announce
<1>2. latest' \in Tag
  BY DEF Upload, Announce, IInv, TypeOK
<1>3. assets' \in [Tag -> [Asset -> Build \cup {None}]]
  <2>1. CASE \E b \in Build, a \in Asset: Upload(b, a)
    <3>1. PICK b \in Build, a \in Asset: assets' = [assets EXCEPT ![TagOf[b]][a] = b]
      BY <2>1 DEF Upload
    <3>2. assets \in [Tag -> [Asset -> Build \cup {None}]] /\ TagOf[b] \in Tag
      BY DEF IInv, TypeOK, Tag
    <3> QED
      BY <3>1, <3>2
  <2>2. CASE \E tag \in Tag: Announce(tag)
    BY <2>2 DEF Announce, IInv, TypeOK
  <2> QED
    BY <2>1, <2>2
<1>4. TypeOK'
  BY <1>1, <1>2, <1>3 DEF IInv, TypeOK, site, beside, Content
<1>5. TargetOK' /\ StagesOK'
  BY <1>1, TargetStays DEF IInv, OneBuild, StagesOK, site, beside, Bundle, Whole, Starts, Empty,
     MatchesManifest, PassesItsOwnCheck
<1> QED
  BY <1>4, <1>5 DEF IInv

\* Until the bundle is unpacked the updater touches no file.
LEMMA DownloadsKeep ==
    ASSUME IInv,
           \/ RunAutoUpdater \/ FetchLatestRelease
           \/ DownloadReleaseAsset("bundle", "checksums")
           \/ DownloadReleaseAsset("checksums", "signature")
           \/ DownloadReleaseAsset("signature", "verify")
           \/ VerifyReleaseBundle \/ ExtractBundle
    PROVE  IInv'
<1>1. UNCHANGED <<releases, site, target, beside, fresh>>
  BY DEF RunAutoUpdater, FetchLatestRelease, DownloadReleaseAsset, VerifyReleaseBundle,
         ExtractBundle
<1>2. job \in JobSet /\ latest \in Tag /\ assets \in [Tag -> [Asset -> Build \cup {None}]]
  BY DEF IInv, TypeOK, JobSet
<1>3. CASE job' = NoJob
  <2>1. job' \in JobSet /\ job'.step = "none"
    BY <1>3, ExitIsTyped DEF Exit
  <2> QED
    BY <1>1, <2>1, TargetStays DEF IInv, TypeOK, JobSet, StagesOK, InTarget, Downloaded, Asset,
       releases, site, beside, Content
<1>4. CASE job' # NoJob
  <2>1. /\ job' \in JobSet
        /\ job'.step \in {"query", "bundle", "checksums", "signature", "verify", "extract",
                          "clear", "stage"}
        /\ job'.step \in Downloaded => job'.got["bundle"] \in Build
        /\ job'.step \in Asset => job'.tag \in Tag
        /\ job'.step = "stage" => target["tor"] = None
        /\ target["animasola"] \in Build
    <3>1. CASE RunAutoUpdater
      BY <1>2, <3>1, GotoIsTyped DEF RunAutoUpdater, Downloaded, Asset, Step
    <3>2. CASE FetchLatestRelease
      BY <1>2, <1>4, <3>2 DEF FetchLatestRelease, Exit, JobSet, IInv, StagesOK, InTarget,
                              Downloaded, Asset, Step
    <3>3. ASSUME NEW a \in Asset, NEW next \in {"checksums", "signature", "verify"},
                 DownloadReleaseAsset(a, next)
          PROVE  /\ job' \in JobSet /\ job'.step = next /\ job'.tag \in Tag
                 /\ target["animasola"] \in Build
      <4>1. PICK got \in {assets[job.tag][a], Damaged}:
                job' = [job EXCEPT !.got[a] = got, !.step = next]
        BY <1>4, <3>3 DEF DownloadReleaseAsset, Exit
      <4>2. job.step = a /\ job.step \in InTarget
        BY <3>3 DEF DownloadReleaseAsset, InTarget, Asset
      <4>3. job.tag \in Tag /\ target["animasola"] \in Build
        BY <3>3, <4>2 DEF IInv, StagesOK
      <4>4. got \in Build \cup {None, Damaged}
        BY <1>2, <4>3
      <4> QED
        BY <1>2, <4>1, <4>3, <4>4 DEF JobSet, Step
    <3>4. CASE VerifyReleaseBundle
      BY <1>2, <1>4, <3>4, GotoIsTyped DEF VerifyReleaseBundle, Verified, Exit, IInv, StagesOK,
                                           InTarget, Asset, Step, Downloaded
    <3>5. CASE ExtractBundle
      BY <1>2, <1>4, <3>5, GotoIsTyped DEF ExtractBundle, BundledInstall, Exit, IInv, StagesOK,
                                           InTarget, Downloaded, Bundle, Asset, Step
    <3> QED
      BY <3>1, <3>2, <3>3, <3>4, <3>5 DEF Asset, Downloaded
  <2> QED
    BY <1>1, <2>1, TargetStays DEF IInv, TypeOK, JobSet, StagesOK, InTarget, Downloaded, Asset,
       releases, site, beside, Content, Bundle
<1> QED
  BY <1>3, <1>4
-----------------------------------------------------------------------------
(* What a step has to keep while a command is under way.                   *)
LEMMA StageKept ==
    ASSUME IInv, UNCHANGED <<releases, named>>, TargetOK',
           staging' \in [File -> Content], backup' \in [File -> Content], fresh' \in Content,
           job' \in JobSet, StagesOK'
    PROVE  IInv'
BY DEF IInv, TypeOK, JobSet, releases, Content, Anything

LEMMA ExitKept ==
    ASSUME IInv, UNCHANGED <<releases, named>>, Exit, TargetOK',
           staging' \in [File -> Content], backup' \in [File -> Content], fresh' \in Content
    PROVE  IInv'
<1>1. job' \in JobSet /\ job'.step = "none"
  BY ExitIsTyped
<1>2. StagesOK'
  BY <1>1 DEF StagesOK, InTarget, Downloaded, Asset
<1> QED
  BY <1>1, <1>2, StageKept

\* The types of an unprimed state in one place.
LEMMA Types ==
    ASSUME IInv
    PROVE  /\ TargetOK /\ None \in Content /\ None \in Anything
           /\ staging \in [File -> Content] /\ backup \in [File -> Content]
           /\ fresh \in Content /\ job \in JobSet
BY DEF IInv, TypeOK, JobSet, Content, Anything

\* replaceInstallRoot puts a whole installation where a whole one was.
LEMMA ReplacementKeeps ==
    ASSUME IInv,
           \/ ClearBeside \/ (\E f \in File: CopyDir(f))
           \/ MoveTargetAway \/ MoveStagingIn \/ MoveBack \/ RemoveBackup
    PROVE  IInv'
<1> USE Types
<1>1. CASE ClearBeside
  <2>1. staging' \in [File -> Content] /\ backup' \in [File -> Content]
    BY <1>1, RemainsAPart DEF ClearBeside
  <2>2. job.step = "clear" /\ Bundle \in Build /\ target["animasola"] \in Build
    BY <1>1 DEF ClearBeside, IInv, StagesOK, InTarget, Downloaded
  <2>3. ToCopy(Unpacked(Bundle)) = FilesOf[Bundle] /\ FilesOf[Bundle] \subseteq File
    BY <2>2, VerifiedBundle, BuildsArePrograms DEF ToCopy
  <2>4. /\ job' \in JobSet
        /\ job'.step = "copy" /\ job'.got = job.got /\ job'.todo = FilesOf[Bundle]
    BY <1>1, <2>3 DEF ClearBeside, JobSet, Step, Bundle
  <2>5. UNCHANGED <<releases, site, target, fresh>> /\ TargetOK'
    BY <1>1, TargetStays DEF ClearBeside, site
  <2>6. StagesOK'
    BY <2>2, <2>4, <2>5 DEF StagesOK, InTarget, Downloaded, Asset, Bundle
  <2> QED
    BY <2>1, <2>4, <2>5, <2>6, StageKept DEF site
<1>2. ASSUME NEW f \in File, CopyDir(f)
      PROVE  IInv'
  <2>1. /\ job.step = "copy" /\ Bundle \in Build /\ target["animasola"] \in Build
        /\ \A g \in FilesOf[Bundle]: g \in job.todo \/ staging[g] = Bundle
        /\ UNCHANGED <<releases, named, target, backup, fresh>> /\ TargetOK'
    BY <1>2, TargetStays DEF CopyDir, IInv, StagesOK, InTarget, Downloaded, site
  <2>2. CASE /\ staging' = [staging EXCEPT ![f] = Bundle]
             /\ job' = [job EXCEPT !.todo = @ \ {f}]
    <3>1. staging' \in [File -> Content]
      BY <2>1, <2>2 DEF Content
    <3>2. /\ job' \in JobSet
          /\ job'.step = "copy" /\ job'.got = job.got /\ job'.todo = job.todo \ {f}
      BY <2>1, <2>2 DEF JobSet
    <3>3. \A g \in FilesOf[Bundle]: g \in job'.todo \/ staging'[g] = Bundle
      BY <2>1, <2>2, <3>2, BuildsArePrograms
    <3>4. StagesOK'
      BY <2>1, <3>2, <3>3 DEF StagesOK, InTarget, Downloaded, Asset, Bundle
    <3> QED
      BY <2>1, <3>1, <3>2, <3>4, StageKept
  <2>3. CASE (\E content \in {staging[f], Torn}: staging' = [staging EXCEPT ![f] = content])
             /\ Exit
    <3>1. staging' \in [File -> Content]
      BY <2>3 DEF Content
    <3> QED
      BY <2>1, <2>3, <3>1, ExitKept
  <2> QED
    BY <1>2, <2>2, <2>3 DEF CopyDir, Bundle
<1>3. CASE MoveTargetAway
  <2>1. /\ job.step = "copy" /\ job.todo = {} /\ Bundle \in Build
        /\ target["animasola"] \in Build
        /\ \A g \in FilesOf[Bundle]: staging[g] = Bundle
        /\ UNCHANGED <<releases, named, foreign, staging>>
    BY <1>3 DEF MoveTargetAway, IInv, StagesOK, Downloaded, InTarget, site
  <2>4. ~foreign /\ target \in [File -> Content] /\ OneBuild(target)
    BY <2>1 DEF TargetOK
  <2>2. CASE backup' = target /\ target' = Empty /\ fresh' = None /\ Goto("in")
    <3>1. job' \in JobSet /\ job'.step = "in" /\ job'.got = job.got
      BY <2>2, GotoIsTyped DEF Step
    <3>2. StagesOK'
      BY <2>1, <2>2, <2>4, <3>1 DEF StagesOK, InTarget, Downloaded, Asset, Bundle, OneBuild, Empty
    <3>3. TargetOK'
      BY <2>1, <2>2, <2>4, EmptyDirectory, TargetReplaced
    <3> QED
      BY <2>1, <2>2, <2>4, <3>1, <3>2, <3>3, StageKept DEF Content
  <2>3. CASE Exit /\ UNCHANGED <<target, backup, fresh>>
    BY <2>1, <2>3, TargetStays, ExitKept
  <2> QED
    BY <1>3, <2>2, <2>3 DEF MoveTargetAway
<1>4. CASE MoveStagingIn
  <2>1. /\ job.step = "in" /\ Bundle \in Build
        /\ \A g \in FilesOf[Bundle]: staging[g] = Bundle
        /\ ~foreign /\ target = Empty /\ OneBuild(backup)
        /\ UNCHANGED <<releases, named, foreign, backup, fresh>>
    BY <1>4 DEF MoveStagingIn, IInv, StagesOK, Downloaded, site
  <2>2. CASE target' = staging /\ staging' = Empty /\ Goto("clean")
    <3>1. job' \in JobSet /\ job'.step = "clean" /\ job'.got = job.got
      BY <2>2, GotoIsTyped DEF Step
    <3>2. Whole(target')
      BY <2>1, <2>2, BuildsArePrograms DEF Whole, Starts
    <3>3. StagesOK'
      BY <2>1, <3>1, <3>2 DEF StagesOK, InTarget, Downloaded, Asset, Bundle, Whole, Starts
    <3> QED
      BY <2>1, <2>2, <3>1, <3>2, <3>3, EmptyDirectory, WholeIsOneBuild, TargetReplaced, StageKept
  <2>3. CASE Goto("back") /\ UNCHANGED <<target, staging>>
    <3>1. job' \in JobSet /\ job'.step = "back" /\ job'.got = job.got
      BY <2>3, GotoIsTyped DEF Step
    <3>2. StagesOK'
      BY <2>1, <2>3, <3>1 DEF StagesOK, InTarget, Downloaded, Asset, Bundle, OneBuild, Empty
    <3> QED
      BY <2>1, <2>3, <3>1, <3>2, TargetStays, StageKept
  <2> QED
    BY <1>4, <2>2, <2>3 DEF MoveStagingIn
<1>5. CASE MoveBack
  <2>1. job.step = "back" /\ ~foreign /\ OneBuild(backup)
    BY <1>5 DEF MoveBack, IInv, StagesOK
  <2>2. /\ target' \in {backup, target} /\ backup' \in {Empty, backup}
        /\ UNCHANGED <<releases, named, foreign, staging, fresh>> /\ Exit
    BY <1>5 DEF MoveBack, site
  <2>3. TargetOK'
    BY <2>1, <2>2, TargetStays, TargetReplaced
  <2> QED
    BY <2>2, <2>3, EmptyDirectory, ExitKept
<1>6. CASE RemoveBackup
  <2>1. backup' \in [File -> Content]
    BY <1>6, RemainsAPart DEF RemoveBackup
  <2> QED
    BY <1>6, <2>1, TargetStays, ExitKept DEF RemoveBackup, site
<1> QED
  BY <1>1, <1>2, <1>3, <1>4, <1>5, <1>6

\* Replacing a single binary leaves a directory without Tor.
LEMMA SwapKeeps ==
    ASSUME IInv, StageBinary \/ SwapBinary
    PROVE  IInv'
<1> USE Types
<1>1. /\ job.step \in {"stage", "swap"} /\ Bundle \in Build
      /\ target["tor"] = None /\ target["animasola"] \in Build
      /\ ~foreign /\ target \in [File -> Content]
  BY DEF StageBinary, SwapBinary, IInv, StagesOK, InTarget, Downloaded, TargetOK
<1>2. CASE StageBinary
  <2>1. UNCHANGED <<releases, named, target, staging, backup>> /\ TargetOK'
    BY <1>2, TargetStays DEF StageBinary, beside, site
  <2>2. CASE fresh' = Bundle /\ Goto("swap")
    <3>1. job' \in JobSet /\ job'.step = "swap" /\ job'.got = job.got
      BY <2>2, GotoIsTyped DEF Step
    <3>2. StagesOK'
      BY <1>1, <2>1, <2>2, <3>1 DEF StagesOK, InTarget, Downloaded, Asset, Bundle
    <3> QED
      BY <1>1, <2>1, <2>2, <3>1, <3>2, StageKept DEF Content
  <2>3. CASE fresh' \in {fresh, Torn} /\ Exit
    BY <2>1, <2>3, ExitKept DEF Content
  <2> QED
    BY <1>2, <2>2, <2>3 DEF StageBinary, Bundle
<1>3. CASE SwapBinary
  <2>1. UNCHANGED <<releases, named, foreign, staging, backup>> /\ Exit
    BY <1>3 DEF SwapBinary, beside, site
  <2>2. CASE target' = [target EXCEPT !["animasola"] = fresh] /\ fresh' = None
    <3>1. target' \in [File -> Content] /\ target'["tor"] = None
      BY <1>1, <2>2, BuildsArePrograms
    <3>2. OneBuild(target')
      BY <3>1 DEF OneBuild
    <3> QED
      BY <1>1, <2>1, <2>2, <3>1, <3>2, TargetReplaced, ExitKept DEF Content
  <2>3. CASE fresh' \in {fresh, None} /\ UNCHANGED target
    BY <2>1, <2>3, TargetStays, ExitKept DEF Content
  <2> QED
    BY <1>3, <2>2, <2>3 DEF SwapBinary
<1> QED
  BY <1>2, <1>3

\* A bundle that is no build and passes its own check is no program of the maintainers.
LEMMA SelfJudged ==
    ASSUME NEW dir, PassesItsOwnCheck(dir)
    PROVE  /\ MatchesManifest(dir) => \E b \in Build: dir = Holding(b, FilesOf[b])
           /\ ~MatchesManifest(dir) => dir["animasola"] = Damaged
BY DEF PassesItsOwnCheck, MatchesManifest

\* What a part of a build is.
LEMMA PartOfBuild ==
    ASSUME NEW b \in Build, NEW dir \in [File -> Anything],
           \A f \in File: dir[f] \in {b, None, Torn}
    PROVE  dir \in [File -> Content] /\ OneBuild(dir)
<1>1. "animasola" \in File /\ \A c \in Build: FilesOf[c] \subseteq File
  BY BuildsArePrograms
<1>2. dir["animasola"] \in Build => dir["animasola"] = b
  BY <1>1, MarksAreNoBuilds
<1>3. \A f \in File: dir[f] \in Content
  BY DEF Content
<1> QED
  BY <1>1, <1>2, <1>3 DEF OneBuild

\* The installer fills an empty directory from one bundle, which is a build or judged itself.
LEMMA InstallerKeeps ==
    ASSUME IInv, RunInstaller \/ WipeTarget \/ (\E f \in File: FillTarget(f))
    PROVE  IInv'
<1> USE Types
<1>1. CASE RunInstaller
  <2>1. PICK dir \in Received(assets[latest]["bundle"]):
            /\ PassesItsOwnCheck(dir)
            /\ job' = [NoJob EXCEPT !.step = "wipe", !.unpacked = dir]
    BY <1>1 DEF RunInstaller
  <2>2. dir \in [File -> Anything]
    <3>1. assets[latest]["bundle"] \in Build \cup {None}
      BY DEF IInv, TypeOK, Asset
    <3> QED
      BY <3>1 DEF Received, Unpacked, Holding, Anything, Content
  <2>3. job' \in JobSet /\ job'.step = "wipe" /\ job'.unpacked = dir
    BY <2>1, <2>2 DEF NoJob, JobSet, Step, Asset
  <2>4. UNCHANGED <<releases, named, foreign, target, staging, backup, fresh>>
    BY <1>1 DEF RunInstaller, beside, site
  <2>5. StagesOK'
    BY <2>1, <2>3 DEF StagesOK, InTarget, Downloaded, Asset
  <2> QED
    BY <2>3, <2>4, <2>5, TargetStays, StageKept
<1>2. CASE WipeTarget
  <2>1. /\ job.step = "wipe" /\ PassesItsOwnCheck(job.unpacked)
        /\ UNCHANGED <<releases, named, staging, backup>>
    BY <1>2 DEF WipeTarget, IInv, StagesOK, beside
  <2>2. CASE /\ target' = Empty /\ fresh' = None
             /\ foreign' = ~MatchesManifest(job.unpacked)
             /\ job' = [job EXCEPT !.step = "fill", !.todo = ToCopy(job.unpacked)]
    <3>1. ToCopy(job.unpacked) \subseteq File
      BY DEF ToCopy
    <3>2. job' \in JobSet /\ job'.step = "fill" /\ job'.unpacked = job.unpacked
      BY <2>2, <3>1 DEF JobSet, Step
    <3>3. StagesOK'
      <4>1. \A f \in File: target'[f] = None
        BY <2>2 DEF Empty
      <4> QED
        BY <2>1, <2>2, <3>2, <4>1 DEF StagesOK, InTarget, Downloaded, Asset
    <3>4. TargetOK'
      BY <2>2, EmptyDirectory DEF TargetOK
    <3> QED
      BY <2>1, <2>2, <3>2, <3>3, <3>4, StageKept DEF Content
  <2>3. CASE target' \in Remains(target) /\ fresh' \in {fresh, None} /\ Exit /\ UNCHANGED foreign
    <3>1. target' \in [File -> Anything] /\ \A f \in File: target'[f] \in {target[f], None}
      BY <2>3, RemainsAPart DEF TargetOK
    <3>2. TargetOK'
      <4>1. CASE foreign
        BY <2>3, <3>1, <4>1, BuildsArePrograms, MarksAreNoBuilds DEF TargetOK
      <4>2. CASE ~foreign
        <5>1. target' \in [File -> Content]
          BY <2>3, <4>2, RemainsAPart DEF TargetOK
        <5> QED
          BY <2>3, <3>1, <4>2, <5>1, PartOfOneBuild, TargetReplaced DEF TargetOK
      <4> QED
        BY <4>1, <4>2
    <3> QED
      BY <2>1, <2>3, <3>2, ExitKept DEF Content
  <2> QED
    BY <1>2, <2>2, <2>3 DEF WipeTarget
<1>3. ASSUME NEW f \in File, FillTarget(f)
      PROVE  IInv'
  <2> DEFINE dir == job.unpacked
  <2>1. /\ job.step = "fill" /\ PassesItsOwnCheck(dir) /\ dir \in [File -> Anything]
        /\ foreign = ~MatchesManifest(dir)
        /\ \A g \in File: target[g] \in {dir[g], None}
        /\ UNCHANGED <<releases, named, foreign, staging, backup, fresh>>
    BY <1>3 DEF FillTarget, IInv, StagesOK, JobSet, beside, site
  <2>2. PICK content \in {dir[f], None, Torn}: target' = [target EXCEPT ![f] = content]
    BY <1>3 DEF FillTarget
  <2>3. target \in [File -> Anything] /\ None \in Anything /\ Torn \in Anything
    BY DEF TargetOK, Anything, Content
  <2>4. /\ target' \in [File -> Anything]
        /\ \A g \in File: target'[g] \in {dir[g], None, Torn}
    BY <2>1, <2>2, <2>3
  <2>5. TargetOK'
    <3>1. CASE foreign
      <4>1. dir["animasola"] = Damaged
        BY <2>1, <3>1, SelfJudged
      <4>2. target'["animasola"] \notin Build
        BY <2>4, <4>1, BuildsArePrograms, MarksAreNoBuilds
      <4> QED
        BY <2>1, <2>4, <3>1, <4>2 DEF TargetOK
    <3>2. CASE ~foreign
      <4>1. PICK b \in Build: dir = Holding(b, FilesOf[b])
        BY <2>1, <3>2, SelfJudged
      <4>2. \A g \in File: dir[g] \in {b, None}
        BY <4>1 DEF Holding
      <4>3. \A g \in File: target'[g] \in {b, None, Torn}
        BY <2>4, <4>2
      <4> QED
        BY <2>1, <2>4, <3>2, <4>3, PartOfBuild, TargetReplaced
    <3>3. foreign \in BOOLEAN
      BY DEF TargetOK
    <3> QED
      BY <3>1, <3>2
  <2>6. CASE Exit
    BY <2>1, <2>5, <2>6, ExitKept
  <2>7. CASE job' = [job EXCEPT !.todo = @ \ {f}] /\ target' = [target EXCEPT ![f] = dir[f]]
    <3>1. job' \in JobSet /\ job'.step = "fill" /\ job'.unpacked = dir
      BY <2>1, <2>7 DEF JobSet
    <3>2. \A g \in File: target'[g] \in {dir[g], None}
      BY <2>1, <2>3, <2>7
    <3>3. StagesOK'
      BY <2>1, <3>1, <3>2 DEF StagesOK, InTarget, Downloaded, Asset
    <3> QED
      BY <2>1, <2>5, <3>1, <3>3, StageKept
  <2> QED
    BY <1>3, <2>6, <2>7 DEF FillTarget, Exit
<1> QED
  BY <1>1, <1>2, <1>3

\* What an uninstall or a kill leaves is a part of what was there.
LEMMA RemovalKeeps ==
    ASSUME IInv, RunUninstall \/ Killed
    PROVE  IInv'
<1> USE Types
<1>1. CASE RunUninstall
  <2>1. /\ target["animasola"] \in Build /\ target' \in Remains(target)
        /\ staging' \in Remains(staging) /\ backup' \in Remains(backup)
        /\ fresh' \in {fresh, None}
        /\ UNCHANGED <<releases, named, foreign, job>> /\ job = NoJob
    BY <1>1 DEF RunUninstall, Command, Idle, site
  <2>2. ~foreign /\ target \in [File -> Content] /\ OneBuild(target)
    BY <2>1 DEF TargetOK
  <2>3. /\ target' \in [File -> Content] /\ (\A f \in File: target'[f] \in {target[f], None})
        /\ staging' \in [File -> Content] /\ backup' \in [File -> Content]
    BY <2>1, <2>2, RemainsAPart
  <2>4. TargetOK'
    BY <2>1, <2>2, <2>3, PartOfOneBuild, TargetReplaced
  <2> QED
    BY <2>1, <2>3, <2>4, ExitKept DEF Exit, Content
<1>2. CASE Killed
  BY <1>2, TargetStays, ExitKept DEF Killed, beside, site
<1> QED
  BY <1>1, <1>2

LEMMA NextKeeps == IInv /\ [Next]_vars => IInv'
<1> SUFFICES ASSUME IInv, [Next]_vars PROVE IInv'
  OBVIOUS
<1>1. CASE UNCHANGED vars
  BY <1>1, TargetStays DEF vars, releases, site, beside, IInv, TypeOK, OneBuild, StagesOK, Bundle,
     Whole, Starts, Empty, Content, MatchesManifest, PassesItsOwnCheck
<1>2. CASE UpdaterStep
  BY <1>2, DownloadsKeep, ReplacementKeeps, SwapKeeps DEF UpdaterStep
<1>3. CASE Next /\ ~UpdaterStep
  BY <1>3, InstallerKeeps, RemovalKeeps, MaintainersKeep DEF Next
<1> QED
  BY <1>1, <1>2, <1>3
-----------------------------------------------------------------------------
LEMMA InvariantHolds == Spec => []IInv
BY InitEstablishes, NextKeeps, PTL DEF Spec

(* A program of the maintainers has verified files of one build beside it, *)
(* and other files are installed only by an installer whose bundle judged  *)
(* itself, however often releases are replaced and commands fail           *)
(* (RunAutoUpdater, install.sh).                                           *)
THEOREM InstallationsAreVerified == Spec => []InstalledIsVerified
<1>1. IInv => InstalledIsVerified
  <2> SUFFICES ASSUME IInv PROVE InstalledIsVerified
    OBVIOUS
  <2>1. TargetOK
    BY Types
  <2>2. CASE foreign
    BY <2>1, <2>2 DEF TargetOK, InstalledIsVerified, Starts
  <2>3. CASE ~foreign
    <3>1. \A f \in File: target[f] # Damaged
      BY <2>1, <2>3, MarksAreNoBuilds DEF TargetOK, Content
    <3> QED
      BY <2>1, <2>3, <3>1 DEF TargetOK, OneBuild, InstalledIsVerified, Starts
  <2> QED
    BY <2>2, <2>3
<1> QED
  BY <1>1, InvariantHolds, PTL

\* The step of an updater, or its end, keeps a program that starts.
LEMMA StepKeepsProgram ==
    ASSUME IInv, UpdaterStep \/ Killed
    PROVE  /\ InPlaceOrBackedUp(Whole) => InPlaceOrBackedUp(Whole)'
           /\ InPlaceOrBackedUp(Starts) => InPlaceOrBackedUp(Starts)'
<1> USE Types
<1>1. CASE UNCHANGED <<target, backup>>
  BY <1>1 DEF InPlaceOrBackedUp, Whole, Starts, Empty
<1>2. CASE ClearBeside
  <2>1. target["animasola"] \in Build /\ target' = target
    BY <1>2 DEF ClearBeside, IInv, StagesOK, InTarget
  <2>2. target # Empty
    BY <2>1, EmptyDirectory
  <2> QED
    BY <2>1, <2>2 DEF InPlaceOrBackedUp, Whole, Starts
<1>3. CASE MoveTargetAway
  <2>1. job.step = "copy" /\ target["animasola"] \in Build
    BY <1>3 DEF MoveTargetAway, IInv, StagesOK, InTarget
  <2>2. target # Empty
    BY <2>1, EmptyDirectory
  <2>3. CASE backup' = target /\ target' = Empty
    BY <2>2, <2>3 DEF InPlaceOrBackedUp, Whole, Starts, Empty
  <2> QED
    BY <1>1, <1>3, <2>3 DEF MoveTargetAway
<1>4. CASE MoveStagingIn
  <2>1. CASE target' = staging
    <3>1. Bundle \in Build /\ \A g \in FilesOf[Bundle]: staging[g] = Bundle
      BY <1>4 DEF MoveStagingIn, IInv, StagesOK, Downloaded
    <3>2. Whole(target') /\ Starts(target')
      BY <2>1, <3>1, BuildsArePrograms DEF Whole, Starts
    <3> QED
      BY <3>2 DEF InPlaceOrBackedUp, Whole, Starts
  <2> QED
    BY <1>1, <1>4, <2>1 DEF MoveStagingIn
<1>5. CASE MoveBack
  <2>1. target = Empty /\ ~Starts(target)
    BY <1>5, EmptyDirectory DEF MoveBack, IInv, StagesOK, Starts
  <2>2. CASE target' = backup
    BY <2>1, <2>2 DEF InPlaceOrBackedUp, Whole, Starts
  <2> QED
    BY <1>1, <1>5, <2>2 DEF MoveBack
<1>6. CASE RemoveBackup
  <2>1. Whole(target) /\ target' = target
    BY <1>6 DEF RemoveBackup, IInv, StagesOK
  <2> QED
    BY <2>1 DEF InPlaceOrBackedUp, Whole, Starts
<1>7. CASE SwapBinary
  <2>1. /\ target["tor"] = None /\ target["animasola"] \in Build
        /\ fresh = Bundle /\ Bundle \in Build
    BY <1>7 DEF SwapBinary, IInv, StagesOK, InTarget, Downloaded
  <2>2. target # Empty
    BY <2>1, EmptyDirectory
  <2>3. ~Whole(target)
    <3>1. "tor" \in FilesOf[target["animasola"]]
      BY <2>1, BuildsArePrograms
    <3> QED
      BY <2>1, <3>1, MarksAreNoBuilds DEF Whole
  <2>4. CASE target' = [target EXCEPT !["animasola"] = fresh]
    <3>1. Starts(target')
      BY <2>1, <2>4, BuildsArePrograms DEF Starts
    <3> QED
      BY <2>2, <2>3, <3>1 DEF InPlaceOrBackedUp, Whole, Starts
  <2> QED
    BY <1>1, <1>7, <2>4 DEF SwapBinary, beside
<1>8. CASE Killed \/ StageBinary \/ (\E f \in File: CopyDir(f))
  BY <1>1, <1>8 DEF Killed, StageBinary, CopyDir, beside
<1>9. CASE \/ RunAutoUpdater \/ FetchLatestRelease
           \/ DownloadReleaseAsset("bundle", "checksums")
           \/ DownloadReleaseAsset("checksums", "signature")
           \/ DownloadReleaseAsset("signature", "verify")
           \/ VerifyReleaseBundle \/ ExtractBundle
  BY <1>1, <1>9 DEF RunAutoUpdater, FetchLatestRelease, DownloadReleaseAsset,
                    VerifyReleaseBundle, ExtractBundle, beside
<1> QED
  BY <1>2, <1>3, <1>4, <1>5, <1>6, <1>7, <1>8, <1>9 DEF UpdaterStep

(* However an update fails and wherever it is killed, a whole installation *)
(* stays a whole one, in its place or in the backup directory              *)
(* (replaceInstallRoot, RunAutoUpdater).                                   *)
THEOREM UpdatesKeepAProgram == Spec => UpdateKeepsAProgram
<1>1. IInv /\ [Next]_vars =>
          [UpdaterStep \/ Killed =>
               /\ InPlaceOrBackedUp(Whole) => InPlaceOrBackedUp(Whole)'
               /\ InPlaceOrBackedUp(Starts) => InPlaceOrBackedUp(Starts)']_vars
  BY StepKeepsProgram
<1> QED
  BY <1>1, InvariantHolds, PTL DEF Spec, UpdateKeepsAProgram

\* A directory with a program is not empty, and a whole one has a program.
LEMMA InPlace ==
    /\ Starts(target) => target # Empty
    /\ Whole(target) => Starts(target)
    /\ target # Empty => (InPlaceOrBackedUp(Whole) => Whole(target))
    /\ target # Empty => (InPlaceOrBackedUp(Starts) => Starts(target))
BY EmptyDirectory DEF Starts, Whole, InPlaceOrBackedUp

\* An updater that ends by itself leaves a program where it found one.
LEMMA EndLeavesProgram ==
    ASSUME IInv, UpdaterStep, Idle', ~RollbackFails
    PROVE  /\ InPlaceOrBackedUp(Whole) => Whole(target)'
           /\ InPlaceOrBackedUp(Starts) => Starts(target)'
<1> USE Types
<1>1. job'.step = "none"
  BY DEF Idle, NoJob
<1>2. CASE target' = target /\ job.step \in InTarget
  <2>1. Starts(target)
    BY <1>2 DEF IInv, StagesOK, Starts
  <2> QED
    BY <1>2, <2>1, InPlace DEF Whole, Starts
<1>3. CASE MoveBack
  <2>1. target = Empty /\ ~Starts(target) /\ ~Whole(target)
    BY <1>3, EmptyDirectory DEF MoveBack, IInv, StagesOK, Starts, Whole
  <2>2. target' = backup
    BY <1>3 DEF MoveBack, RollbackFails
  <2> QED
    BY <2>1, <2>2 DEF InPlaceOrBackedUp, Whole, Starts
<1>4. CASE RemoveBackup
  BY <1>4 DEF RemoveBackup, IInv, StagesOK, Whole, Starts
<1>5. CASE SwapBinary /\ target' # target
  <2>1. /\ target["tor"] = None /\ target["animasola"] \in Build
        /\ fresh = Bundle /\ Bundle \in Build
    BY <1>5 DEF SwapBinary, IInv, StagesOK, InTarget, Downloaded
  <2>2. ~Whole(target) /\ Starts(target)
    <3>1. "tor" \in FilesOf[target["animasola"]]
      BY <2>1, BuildsArePrograms
    <3> QED
      BY <2>1, <3>1, MarksAreNoBuilds DEF Whole, Starts
  <2>3. target \in [File -> Anything] /\ target' = [target EXCEPT !["animasola"] = fresh]
    BY <1>5 DEF SwapBinary, TargetOK
  <2>4. Starts(target)'
    BY <2>1, <2>3, BuildsArePrograms DEF Starts
  <2> QED
    BY <2>2, <2>4, InPlace
<1>6. CASE ClearBeside \/ MoveStagingIn
  BY <1>1, <1>6 DEF ClearBeside, MoveStagingIn, Goto, Types, JobSet
<1>7. CASE MoveTargetAway
  <2>1. job' = NoJob => target' = target \/ job'.step = "in"
    BY <1>7, GotoIsTyped DEF MoveTargetAway, Step
  <2> QED
    BY <1>1, <1>2, <1>7, <2>1 DEF MoveTargetAway, InTarget, Idle
<1>8. CASE RunAutoUpdater
  BY <1>1, <1>8, GotoIsTyped DEF RunAutoUpdater, Step
<1>9. CASE /\ \/ FetchLatestRelease \/ VerifyReleaseBundle \/ ExtractBundle \/ StageBinary
              \/ DownloadReleaseAsset("bundle", "checksums")
              \/ DownloadReleaseAsset("checksums", "signature")
              \/ DownloadReleaseAsset("signature", "verify")
              \/ (\E f \in File: CopyDir(f)) \/ (SwapBinary /\ target' = target)
  BY <1>2, <1>9 DEF FetchLatestRelease, VerifyReleaseBundle, ExtractBundle, StageBinary,
     DownloadReleaseAsset, CopyDir, SwapBinary, InTarget
<1> QED
  BY <1>3, <1>4, <1>5, <1>6, <1>7, <1>8, <1>9 DEF UpdaterStep

(* Whichever step of an update fails, when the command ends a program is   *)
(* in its place, whole if there was a whole one, unless both the renaming  *)
(* in of the new directory and the taking back of the old one failed       *)
(* (replaceInstallRoot).                                                   *)
THEOREM UpdatesEndInPlace == Spec => UpdateEndsInPlace
<1>1. IInv /\ [Next]_vars =>
          [UpdaterStep /\ Idle' /\ ~RollbackFails =>
               /\ InPlaceOrBackedUp(Whole) => Whole(target)'
               /\ InPlaceOrBackedUp(Starts) => Starts(target)']_vars
  BY EndLeavesProgram
<1> QED
  BY <1>1, InvariantHolds, PTL DEF Spec, UpdateEndsInPlace
=============================================================================
