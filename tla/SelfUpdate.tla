----------------------------- MODULE SelfUpdate -----------------------------
(***************************************************************************)
(* The installation of the program on a disk and what replaces it: the     *)
(* command `animasola update` (presentation.tui.cli.updater), with its     *)
(* downloads and their verification (network.http), the installer script,  *)
(* and `animasola uninstall`.                                              *)
(*                                                                         *)
(* A directory says for every file which build of the program it is from.  *)
(* A build is what a release script has packed and signed once; a release  *)
(* is a tag whose three assets its maintainers upload, and upload again,   *)
(* one after another.  Any file operation may fail, and every command may  *)
(* be killed at any step.  One command runs at a time: two would share     *)
(* the staging and the backup directory.  The name of the temporary        *)
(* directory of a command is new, so what is left there is read by nobody. *)
(***************************************************************************)
EXTENDS Naturals

CONSTANTS
    File,          \* names of files, "animasola" and "tor" among them
    Build,         \* builds, numbered in the order they were made
    FilesOf,       \* the files a build consists of
    TagOf,         \* the number of the release that a build was made for
    MaxCommands,   \* bound of the model on commands run
    None,          \* no such file, no such asset, nothing downloaded
    Torn,          \* a file whose writer never finished it
    Damaged        \* anything else than what was uploaded

ASSUME BuildsArePrograms ==
    /\ Build \subseteq Nat /\ {"animasola", "tor"} \subseteq File
    /\ FilesOf \in [Build -> SUBSET File]
    /\ \A b \in Build: {"animasola", "tor"} \subseteq FilesOf[b]
    /\ TagOf \in [Build -> Nat]

ASSUME MarksAreNoBuilds ==
    /\ {None, Torn, Damaged} \cap Build = {}
    /\ Damaged \notin {None, Torn}

Tag == {TagOf[b] : b \in Build}
Asset == {"bundle", "checksums", "signature"}

VARIABLES
    latest,     \* the tag of the latest release
    assets,     \* per tag: the build each asset was made for
    named,      \* the path of the installation has a part called animasola
    foreign,    \* it was last filled from a bundle that is no build (history)
    target,     \* the directory the program is installed in
    staging,    \* .animasola-update, beside it
    backup,     \* .animasola-backup, beside it
    fresh,      \* the file animasola.new in the target directory
    job,        \* what the running command is doing
    commands    \* commands run so far

releases == <<latest, assets>>
site == <<named, foreign>>
beside == <<staging, backup>>
vars == <<releases, site, target, beside, fresh, job, commands>>

Empty == [f \in File |-> None]
Holding(content, files) == [f \in File |-> IF f \in files THEN content ELSE None]

(* The files of an archive; a damaged one, if it can be unpacked at all.   *)
Unpacked(bundle) == Holding(bundle, IF bundle \in Build THEN FilesOf[bundle] ELSE File)

(* os.RemoveAll, its error ignored: any part of the directory may stay.    *)
Remains(dir) == {[f \in File |-> IF f \in kept THEN dir[f] ELSE None] : kept \in SUBSET File}

NoJob == [step |-> "none", tag |-> None, got |-> [a \in Asset |-> None],
          unpacked |-> Empty, todo |-> {}]
Idle == job = NoJob
Goto(step) == job' = [job EXCEPT !.step = step]
Exit == job' = NoJob
ToCopy(dir) == {f \in File : dir[f] # None}

Init ==
    \E b \in Build:
        /\ latest = TagOf[b]
        /\ \A c \in Build: latest <= TagOf[c]
        /\ assets = [t \in Tag |-> [a \in Asset |-> IF t = latest THEN b ELSE None]]
        /\ named \in BOOLEAN /\ foreign = FALSE
        /\ \/ target = Holding(b, FilesOf[b])
           \/ target = Holding(b, {"animasola"}) /\ ~named
        /\ staging = Empty /\ backup = Empty /\ fresh = None
        /\ job = NoJob
        /\ commands = 0
-----------------------------------------------------------------------------
(* The maintainers.                                                        *)
Upload(b, a) ==
    /\ assets[TagOf[b]][a] \notin {c \in Build : c >= b}
    /\ assets' = [assets EXCEPT ![TagOf[b]][a] = b]
    /\ UNCHANGED <<latest, site, target, beside, fresh, job, commands>>

Announce(tag) ==
    /\ latest < tag
    /\ latest' = tag
    /\ UNCHANGED <<assets, site, target, beside, fresh, job, commands>>
-----------------------------------------------------------------------------
(* RunAutoUpdater, from the program in the target directory; what it runs  *)
(* is in memory from here on.                                              *)
Command ==
    /\ Idle /\ commands < MaxCommands
    /\ commands' = commands + 1

RunAutoUpdater ==
    /\ target["animasola"] \in Build
    /\ Command
    /\ Goto("query")
    /\ UNCHANGED <<releases, site, target, beside, fresh>>

FetchLatestRelease ==
    /\ job.step = "query"
    /\ \/ /\ latest # TagOf[target["animasola"]]
          /\ job' = [job EXCEPT !.step = "bundle", !.tag = latest]
       \/ Exit
    /\ UNCHANGED <<releases, site, target, beside, fresh, commands>>

(* Five tries, then a copy to a file: an error ends the command.           *)
DownloadReleaseAsset(a, next) ==
    /\ job.step = a
    /\ \/ /\ assets[job.tag][a] # None
          /\ \E got \in {assets[job.tag][a], Damaged}:
                 job' = [job EXCEPT !.got[a] = got, !.step = next]
       \/ Exit
    /\ UNCHANGED <<releases, site, target, beside, fresh, commands>>

VerifiedBySignature(got) ==   \* mutant: the hash of the bundle is not compared
    got["checksums"] \in Build /\ got["signature"] = got["checksums"]

(* VerifyReleaseBundle: the signature is for these checksums, and the      *)
(* checksum listed for this bundle is the bundle's.                        *)
Verified(got) ==
    /\ got["checksums"] \in Build
    /\ got["signature"] = got["checksums"]
    /\ got["bundle"] = got["checksums"]

VerifyReleaseBundle ==
    /\ job.step = "verify"
    /\ \/ Verified(job.got) /\ Goto("extract")
       \/ ~Verified(job.got) /\ Exit
    /\ UNCHANGED <<releases, site, target, beside, fresh, commands>>

(* extractBundle, then the branch on isBundledInstall.                     *)
BundledInstall == target["tor"] # None \/ named

ExtractBundle ==
    /\ job.step = "extract"
    /\ Exit \/ Goto(IF BundledInstall THEN "clear" ELSE "stage")
    /\ UNCHANGED <<releases, site, target, beside, fresh, commands>>
-----------------------------------------------------------------------------
(* replaceInstallRoot: both leftovers are removed, if that succeeds ...    *)
ClearBeside ==
    /\ job.step = "clear"
    /\ staging' \in Remains(staging)
    /\ backup' \in Remains(backup)
    /\ job' = [job EXCEPT !.step = "copy", !.todo = ToCopy(Unpacked(job.got["bundle"]))]
    /\ UNCHANGED <<releases, site, target, fresh, commands>>

(* ... the bundle is copied file by file (copyDir, copyFile) ...           *)
CopyDirRegardless(f) ==   \* mutant: the error of copyFile is not returned
    /\ job.step = "copy" /\ f \in job.todo
    /\ \E content \in {job.got["bundle"], Torn}: staging' = [staging EXCEPT ![f] = content]
    /\ job' = [job EXCEPT !.todo = @ \ {f}]
    /\ UNCHANGED <<releases, site, target, backup, fresh, commands>>

CopyDir(f) ==
    /\ job.step = "copy" /\ f \in job.todo
    /\ \/ /\ staging' = [staging EXCEPT ![f] = job.got["bundle"]]
          /\ job' = [job EXCEPT !.todo = @ \ {f}]
       \/ /\ \E content \in {staging[f], Torn}: staging' = [staging EXCEPT ![f] = content]
          /\ Exit
    /\ UNCHANGED <<releases, site, target, backup, fresh, commands>>

(* ... and three renames follow; a directory that has anything in it is    *)
(* not replaced by a rename.                                               *)
MoveTargetAway ==
    /\ job.step = "copy" /\ job.todo = {}
    /\ \/ /\ backup = Empty
          /\ backup' = target /\ target' = Empty
          /\ fresh' = None
          /\ Goto("in")
       \/ Exit /\ UNCHANGED <<target, backup, fresh>>
    /\ UNCHANGED <<releases, site, staging, commands>>

MoveStagingInOrExit ==   \* mutant: the old directory is not taken back
    /\ job.step = "in"
    /\ \/ /\ target' = staging /\ staging' = Empty
          /\ Goto("clean")
       \/ Exit /\ UNCHANGED <<target, staging>>
    /\ UNCHANGED <<releases, site, backup, fresh, commands>>

MoveStagingIn ==
    /\ job.step = "in"
    /\ \/ /\ target' = staging /\ staging' = Empty
          /\ Goto("clean")
       \/ Goto("back") /\ UNCHANGED <<target, staging>>
    /\ UNCHANGED <<releases, site, backup, fresh, commands>>

MoveBack ==
    /\ job.step = "back"
    /\ \/ target' = backup /\ backup' = Empty
       \/ UNCHANGED <<target, backup>>
    /\ Exit
    /\ UNCHANGED <<releases, site, staging, fresh, commands>>

RemoveBackup ==
    /\ job.step = "clean"
    /\ backup' \in Remains(backup)
    /\ Exit
    /\ UNCHANGED <<releases, site, target, staging, fresh, commands>>

(* Without a bundled Tor only the program is replaced, by one rename.      *)
StageBinary ==
    /\ job.step = "stage"
    /\ \/ fresh' = job.got["bundle"] /\ Goto("swap")
       \/ fresh' \in {fresh, Torn} /\ Exit
    /\ UNCHANGED <<releases, site, target, beside, commands>>

SwapBinary ==
    /\ job.step = "swap"
    /\ \/ target' = [target EXCEPT !["animasola"] = fresh] /\ fresh' = None
       \/ fresh' \in {fresh, None} /\ UNCHANGED target
    /\ Exit
    /\ UNCHANGED <<releases, site, beside, commands>>
-----------------------------------------------------------------------------
(* verify-bundle: exactly the files of a signed manifest, each with its    *)
(* checksum.                                                               *)
MatchesManifest(dir) == \E b \in Build: dir = Holding(b, FilesOf[b])

(* Any file of the bundle may be another by the time it is unpacked.       *)
Received(bundle) ==
    {[f \in File |-> IF f \in bad THEN Damaged ELSE Unpacked(bundle)[f]] : bad \in SUBSET File}

(* The installer lets the program in the bundle judge the bundle.  One of  *)
(* the maintainers' compares it with the manifest; what another one says   *)
(* nobody knows.                                                           *)
PassesItsOwnCheck(dir) == dir["animasola"] = Damaged \/ MatchesManifest(dir)

RunInstaller ==
    /\ Command
    /\ assets[latest]["bundle"] # None
    /\ \E dir \in Received(assets[latest]["bundle"]):
           /\ PassesItsOwnCheck(dir)
           /\ job' = [NoJob EXCEPT !.step = "wipe", !.unpacked = dir]
    /\ UNCHANGED <<releases, site, target, beside, fresh>>

(* rm -rf and cp -R; the script ends at the first command that fails.      *)
WipeTarget ==
    /\ job.step = "wipe"
    /\ \/ /\ target' = Empty /\ fresh' = None
          /\ foreign' = ~MatchesManifest(job.unpacked)
          /\ job' = [job EXCEPT !.step = "fill", !.todo = ToCopy(job.unpacked)]
       \/ /\ target' \in Remains(target) /\ fresh' \in {fresh, None}
          /\ Exit
          /\ UNCHANGED foreign
    /\ UNCHANGED <<releases, named, beside, commands>>

FillTarget(f) ==
    /\ job.step = "fill" /\ f \in job.todo
    /\ \/ /\ target' = [target EXCEPT ![f] = job.unpacked[f]]
          /\ job' = IF job.todo = {f} THEN NoJob ELSE [job EXCEPT !.todo = @ \ {f}]
       \/ /\ \E content \in {None, Torn}: target' = [target EXCEPT ![f] = content]
          /\ Exit
    /\ UNCHANGED <<releases, site, beside, fresh, commands>>

(* RunUninstall removes the parent of the target directory, and so the two *)
(* directories beside it.                                                  *)
RunUninstall ==
    /\ target["animasola"] \in Build /\ named
    /\ Command
    /\ target' \in Remains(target)
    /\ staging' \in Remains(staging)
    /\ backup' \in Remains(backup)
    /\ fresh' \in {fresh, None}
    /\ UNCHANGED <<releases, site, job>>

Killed ==
    /\ ~Idle /\ Exit
    /\ UNCHANGED <<releases, site, target, beside, fresh, commands>>
-----------------------------------------------------------------------------
UpdaterStep ==
    \/ RunAutoUpdater \/ FetchLatestRelease
    \/ DownloadReleaseAsset("bundle", "checksums")
    \/ DownloadReleaseAsset("checksums", "signature")
    \/ DownloadReleaseAsset("signature", "verify")
    \/ VerifyReleaseBundle \/ ExtractBundle
    \/ ClearBeside
    \/ \E f \in File: CopyDir(f)
    \/ MoveTargetAway \/ MoveStagingIn \/ MoveBack \/ RemoveBackup
    \/ StageBinary \/ SwapBinary

Next ==
    \/ UpdaterStep
    \/ RunInstaller \/ WipeTarget
    \/ \E f \in File: FillTarget(f)
    \/ RunUninstall
    \/ Killed
    \/ \E b \in Build, a \in Asset: Upload(b, a)
    \/ \E tag \in Tag: Announce(tag)

Spec == Init /\ [][Next]_vars
-----------------------------------------------------------------------------
Starts(dir) == dir["animasola"] \in Build
Whole(dir) == Starts(dir) /\ \A f \in FilesOf[dir["animasola"]]: dir[f] = dir["animasola"]

InPlaceOrBackedUp(P(_)) == P(target) \/ (target = Empty /\ P(backup))

(* An update never costs the user the program: however it fails and        *)
(* wherever it is killed, a whole installation stays a whole one, old or   *)
(* new, in its place or, between two renames, in the backup directory -    *)
(* also when earlier updates were killed halfway (replaceInstallRoot,      *)
(* RunAutoUpdater).  This is less than the atomic swap of which README.md  *)
(* speaks: whose update was killed between the renames has no program in   *)
(* its place and has to take the backup back.                              *)
UpdateKeepsAProgram ==
    [][UpdaterStep \/ Killed =>
           /\ InPlaceOrBackedUp(Whole) => InPlaceOrBackedUp(Whole)'
           /\ InPlaceOrBackedUp(Starts) => InPlaceOrBackedUp(Starts)']_vars

(* An update that is not killed leaves nothing for the user to repair:     *)
(* whichever of its steps fails, when the command ends, a program is in    *)
(* its place, whole if there was a whole one, unless the new directory     *)
(* could not be moved in and the old one not back (replaceInstallRoot).    *)
RollbackFails == job.step = "back" /\ UNCHANGED target

UpdateEndsInPlace ==
    [][UpdaterStep /\ Idle' /\ ~RollbackFails =>
           /\ InPlaceOrBackedUp(Whole) => Whole(target)'
           /\ InPlaceOrBackedUp(Starts) => Starts(target)']_vars

(* "Unverified/tampered update is rejected" (QA_MATRIX.md, release         *)
(* integrity), also while the assets of a release are being replaced: a    *)
(* program of the maintainers has only their files beside it, and the      *)
(* program, the Tor installed with it and their libraries are of one       *)
(* build; files of anybody else are there only after an installer has      *)
(* taken the word of a bundle for itself.  (An installer killed before it  *)
(* has copied Tor leaves what isBundledInstall takes for a single program; *)
(* an update then leaves the libraries as they are.)                       *)
InstalledIsVerified ==
    /\ (\E f \in File: target[f] = Damaged) => foreign /\ ~Starts(target)
    /\ Starts(target) /\ target["tor"] # None =>
           \A f \in FilesOf[target["animasola"]]: target[f] \in {target["animasola"], None, Torn}
=============================================================================
