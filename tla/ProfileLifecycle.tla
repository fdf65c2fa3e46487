-------------------------- MODULE ProfileLifecycle --------------------------
(***************************************************************************)
(* The life of a profile: its key in the config directory of a device      *)
(* (identity.keys), its name at the registry (module NameService), and the *)
(* code that creates, opens and deletes profiles over a network that loses *)
(* and delays requests and answers (presentation.tui root and profile,     *)
(* network.registry).                                                      *)
(*                                                                         *)
(* A bootstrap is one run of bootstrapAppCmd, a goroutine.  Pressing enter *)
(* twice before ProfileSelectedMsg has been handled starts two of them.    *)
(* Deleting a profile runs inside Update: no message of the device is      *)
(* handled meanwhile.                                                      *)
(***************************************************************************)
EXTENDS NameService

CONSTANTS
    Devices,
    Bootstraps,    \* bound of the model: runs of bootstrapAppCmd at one time
    MaxLate,       \* bound of the model: requests abandoned and still on their way
    None           \* no key, no caller, no profile

ASSUME KindsDiffer ==
    /\ Bootstraps \cap Devices = {} /\ Bootstraps \cap Peers = {}
    /\ None \notin Bootstraps \cup Devices \cup Peers \cup Usernames
    /\ {"absent", "empty", "torn"} \cap (Bootstraps \cup Peers) = {}

Callers == Bootstraps \cup Devices

VARIABLES
    disk,      \* per device and name: what is in the profile's directory
    view,      \* per device: RootModel.state
    open,      \* per device: the profile in the app view, when that is shown
    boot,      \* what each bootstrap is doing
    deletion,  \* what the deletion of each device is doing
    wire,      \* requests the registry has not served yet
    answer,    \* per caller: what the registry has answered
    generated, \* history: keys that exist
    troubled,  \* history: keys with a call that did not end in success
    released,  \* history: keys a release was asked for
    overlapped \* history: some device has run two bootstraps at one time

device == <<disk, view, open, boot, deletion>>
vars == <<names, rooms, disk, view, open, boot, deletion, wire, answer, generated, troubled, released, overlapped>>

NoProfile == [username |-> None, key |-> None]
NoBoot == [stage |-> "none", device |-> None, username |-> None, key |-> None, hadKey |-> FALSE,
           known |-> {}]
NoDeletion == [stage |-> "none", username |-> None, key |-> None]

(* "absent": no directory; "empty": a directory without a key file;        *)
(* "torn": a key file its writer never finished; a bootstrap: a key file   *)
(* this bootstrap is writing; a key: that key.                             *)
LifecycleInit ==
    /\ Init
    /\ disk = [d \in Devices |-> [u \in Usernames |-> "absent"]]
    /\ view = [d \in Devices |-> "profile"]
    /\ open = [d \in Devices |-> NoProfile]
    /\ boot = [b \in Bootstraps |-> NoBoot]
    /\ deletion = [d \in Devices |-> NoDeletion]
    /\ wire = {}
    /\ answer = [c \in Callers |-> "none"]
    /\ generated = {}
    /\ troubled = {}
    /\ released = {}
    /\ overlapped = FALSE

Responsive(d) == deletion[d].stage = "none"
Directory(b) == disk[boot[b].device][boot[b].username]
Become(b, stage) == boot' = [boot EXCEPT ![b].stage = stage]
Replace(b, content) == disk' = [disk EXCEPT ![boot[b].device][boot[b].username] = content]
-----------------------------------------------------------------------------
(* A signed request: fetchChallenge, then postJSON.  The caller waits for  *)
(* an answer or for requestTimeout; a request it has stopped waiting for   *)
(* may still reach the registry.                                           *)
Send(caller, kind, username, key) ==
    /\ wire' = wire \cup {[kind |-> kind, username |-> username, peer |-> key, from |-> caller]}
    /\ answer' = [answer EXCEPT ![caller] = "none"]

Late(requests) == {q \in requests : q.from = None}

Abandon(callers) ==
    /\ LET others == {q \in wire : q.from \notin callers}
           late == {[q EXCEPT !.from = None] : q \in wire \ others}
       IN  \/ wire' = others
           \/ wire' = others \cup late /\ Cardinality(Late(wire')) <= MaxLate
    /\ answer' = [c \in Callers |-> IF c \in callers THEN "none" ELSE answer[c]]

Reply(q, what) ==
    /\ wire' = wire \ {q}
    /\ answer' = [c \in Callers |-> IF c = q.from THEN what ELSE answer[c]]

ServeRegister(q) ==
    /\ q.kind = "register"
    /\ \/ Grant(q.username, q.peer) /\ Reply(q, "ok")
       \/ /\ [username |-> q.username, peer |-> q.peer] \in names
          /\ Reply(q, "ok")
          /\ UNCHANGED <<names, rooms>>
       \/ Reply(q, "error") /\ UNCHANGED <<names, rooms>>

ServeRelease(q) ==
    /\ q.kind = "release"
    /\ \/ /\ Withdraw(q.username, q.peer)
          /\ Reply(q, IF [username |-> q.username, peer |-> q.peer] \in names
                      THEN "ok" ELSE "not_found")
       \/ Reply(q, "error") /\ UNCHANGED <<names, rooms>>

Serve(q) ==
    /\ ServeRegister(q) \/ ServeRelease(q)
    /\ UNCHANGED <<device, generated, troubled, released, overlapped>>
-----------------------------------------------------------------------------
(* ProfileModel.Update, enter: the name goes to the root as a message.     *)
SelectProfile(b, d, username) ==
    /\ view[d] = "profile" /\ Responsive(d)
    /\ boot[b].stage = "none"
    /\ boot' = [boot EXCEPT ![b] = [NoBoot EXCEPT !.stage = "selected", !.device = d,
                                                   !.username = username]]
    /\ overlapped' = (overlapped \/ \E c \in Bootstraps : boot[c].device = d)
    /\ UNCHANGED <<names, rooms, disk, view, open, deletion, wire, answer, generated, troubled, released>>

(* RootModel.Update on ProfileSelectedMsg, whatever the view.              *)
StartBootstrap(b) ==
    /\ boot[b].stage = "selected" /\ Responsive(boot[b].device)
    /\ view' = [view EXCEPT ![boot[b].device] = "bootstrapping"]
    /\ open' = [open EXCEPT ![boot[b].device] = NoProfile]
    /\ Become(b, "started")
    /\ UNCHANGED <<names, rooms, disk, deletion, wire, answer, generated, troubled, released, overlapped>>

CheckKey(b) ==
    /\ boot[b].stage = "started"
    /\ boot' = [boot EXCEPT ![b].stage = "checked",
                            ![b].hadKey = Directory(b) \notin {"absent", "empty"},
                            ![b].known = generated]   \* history
    /\ UNCHANGED <<names, rooms, disk, view, open, deletion, wire, answer, generated, troubled, released, overlapped>>

GetKeyAnew(b) ==   \* mutant: an existing key file is overwritten
    /\ boot[b].stage = "checked"
    /\ \E k \in Peers \ generated :
          /\ boot' = [boot EXCEPT ![b].stage = "writing", ![b].key = k]
          /\ generated' = generated \cup {k}
    /\ Replace(b, b)
    /\ UNCHANGED <<names, rooms, view, open, deletion, wire, answer, troubled, released, overlapped>>

(* GetOrGenerateKey: load the file, or create it with O_EXCL and fill it.  *)
GetKey(b) ==
    /\ boot[b].stage = "checked"
    /\ \/ /\ Directory(b) \in Peers
          /\ boot' = [boot EXCEPT ![b].stage = "asking", ![b].key = Directory(b)]
          /\ UNCHANGED <<disk, generated>>
       \/ /\ Directory(b) \in {"torn"} \cup Bootstraps
          /\ Become(b, "failed")
          /\ UNCHANGED <<disk, generated>>
       \/ /\ Directory(b) \in {"absent", "empty"}
          /\ \E k \in Peers \ generated :
                /\ boot' = [boot EXCEPT ![b].stage = "writing", ![b].key = k]
                /\ generated' = generated \cup {k}
          /\ Replace(b, b)
    /\ UNCHANGED <<names, rooms, view, open, deletion, wire, answer, troubled, released, overlapped>>

(* generateAndSaveKey, second half.  If the directory is gone the public   *)
(* key cannot be written; if another bootstrap has made it anew, the       *)
(* private key of this one lives in memory only.                           *)
WriteKey(b) ==
    /\ boot[b].stage = "writing"
    /\ \/ Directory(b) = b /\ Replace(b, boot[b].key) /\ Become(b, "asking")
       \/ Directory(b) = "absent" /\ Become(b, "failed") /\ UNCHANGED disk
       \/ Directory(b) \notin {b, "absent"} /\ Become(b, "asking") /\ UNCHANGED disk
    /\ UNCHANGED <<names, rooms, view, open, deletion, wire, answer, generated, troubled, released, overlapped>>

RequestRegistration(b) ==
    /\ boot[b].stage = "asking"
    /\ Send(b, "register", boot[b].username, boot[b].key)
    /\ Become(b, "waiting")
    /\ UNCHANGED <<names, rooms, disk, view, open, deletion, generated, troubled, released, overlapped>>

Registered(b) ==
    /\ boot[b].stage = "waiting" /\ answer[b] = "ok"
    /\ Become(b, "opening")
    /\ Abandon({b})
    /\ UNCHANGED <<names, rooms, disk, view, open, deletion, generated, troubled, released, overlapped>>

(* RegisterProfile returns an error: no challenge, an error answer, or no  *)
(* answer in time, although the registry may have served the request.      *)
NotRegistered(b) ==
    /\ boot[b].stage \in {"asking", "waiting"}
    /\ Become(b, "rejected")
    /\ troubled' = troubled \cup {boot[b].key}
    /\ Abandon({b})
    /\ UNCHANGED <<names, rooms, disk, view, open, deletion, generated, released, overlapped>>

(* The error branch of bootstrapAppCmd.                                    *)
CleanUpAlways(b) ==   \* mutant: hadLocalKey is not looked at
    /\ boot[b].stage = "rejected"
    /\ Replace(b, "absent")
    /\ Become(b, "failed")
    /\ UNCHANGED <<names, rooms, view, open, deletion, wire, answer, generated, troubled, released, overlapped>>

CleanUp(b) ==
    /\ boot[b].stage = "rejected"
    /\ \/ ~boot[b].hadKey /\ Replace(b, "absent")
       \/ boot[b].hadKey /\ UNCHANGED disk
    /\ Become(b, "failed")
    /\ UNCHANGED <<names, rooms, view, open, deletion, wire, answer, generated, troubled, released, overlapped>>

(* The rest of bootstrapAppCmd: directory, store, Tor.                     *)
OpenProfile(b) ==
    /\ boot[b].stage = "opening"
    /\ Replace(b, IF Directory(b) = "absent" THEN "empty" ELSE Directory(b))
    /\ \E stage \in {"ready", "failed"} : Become(b, stage)
    /\ UNCHANGED <<names, rooms, view, open, deletion, wire, answer, generated, troubled, released, overlapped>>

(* RootModel.Update on AppBootstrappedMsg and BootstrapErrMsg.             *)
FinishBootstrap(b) ==
    LET d == boot[b].device IN
    /\ boot[b].stage \in {"ready", "failed"} /\ Responsive(d)
    /\ \/ /\ boot[b].stage = "ready"
          /\ view' = [view EXCEPT ![d] = "app"]
          /\ open' = [open EXCEPT ![d] = [username |-> boot[b].username, key |-> boot[b].key]]
       \/ /\ boot[b].stage = "failed"
          /\ view' = [view EXCEPT ![d] = "profile"]
          /\ open' = [open EXCEPT ![d] = NoProfile]
    /\ boot' = [boot EXCEPT ![b] = NoBoot]
    /\ UNCHANGED <<names, rooms, disk, deletion, wire, answer, generated, troubled, released, overlapped>>
-----------------------------------------------------------------------------
(* ProfileModel.Update, y: LoadKey must succeed.                           *)
BeginDeletion(d, username) ==
    /\ view[d] = "profile" /\ Responsive(d)
    /\ disk[d][username] \in Peers
    /\ deletion' = [deletion EXCEPT ![d] =
                       [stage |-> "asking", username |-> username, key |-> disk[d][username]]]
    /\ UNCHANGED <<names, rooms, disk, view, open, boot, wire, answer, generated, troubled, released, overlapped>>

RequestRelease(d) ==
    /\ deletion[d].stage = "asking"
    /\ Send(d, "release", deletion[d].username, deletion[d].key)
    /\ deletion' = [deletion EXCEPT ![d].stage = "waiting"]
    /\ released' = released \cup {deletion[d].key}
    /\ UNCHANGED <<names, rooms, disk, view, open, boot, generated, troubled, overlapped>>

(* However ReleaseProfile ends, its error goes to a variable of the inner  *)
(* block: the check below that block reads LoadKey's error, which is nil.  *)
ReleaseEnded(d) ==
    /\ \/ /\ deletion[d].stage = "waiting" /\ answer[d] \in {"ok", "not_found"}
          /\ UNCHANGED troubled
       \/ /\ deletion[d].stage \in {"asking", "waiting"}
          /\ troubled' = troubled \cup {deletion[d].key}
    /\ deletion' = [deletion EXCEPT ![d].stage = "removing"]
    /\ Abandon({d})
    /\ UNCHANGED <<names, rooms, disk, view, open, boot, generated, released, overlapped>>

RemoveProfile(d) ==
    /\ deletion[d].stage = "removing"
    /\ disk' = [disk EXCEPT ![d][deletion[d].username] = "absent"]
    /\ deletion' = [deletion EXCEPT ![d] = NoDeletion]
    /\ UNCHANGED <<names, rooms, view, open, boot, wire, answer, generated, troubled, released, overlapped>>
-----------------------------------------------------------------------------
(* The program is quit or dies, at any point, and is started again.        *)
Restart(d) ==
    LET mine == {b \in Bootstraps : boot[b].device = d}
        cut  == {boot[b].key : b \in mine} \cup {deletion[d].key} IN
    /\ disk' = [disk EXCEPT ![d] =
                   [u \in Usernames |-> IF @[u] \in Bootstraps THEN "torn" ELSE @[u]]]
    /\ view' = [view EXCEPT ![d] = "profile"]
    /\ open' = [open EXCEPT ![d] = NoProfile]
    /\ boot' = [b \in Bootstraps |-> IF b \in mine THEN NoBoot ELSE boot[b]]
    /\ deletion' = [deletion EXCEPT ![d] = NoDeletion]
    /\ Abandon(mine \cup {d})
    /\ troubled' = troubled \cup (cut \ {None})
    /\ UNCHANGED <<names, rooms, generated, released, overlapped>>

BootstrapStep(b) ==
    \/ StartBootstrap(b)
    \/ CheckKey(b)
    \/ GetKey(b)
    \/ WriteKey(b)
    \/ RequestRegistration(b)
    \/ Registered(b)
    \/ NotRegistered(b)
    \/ CleanUp(b)
    \/ OpenProfile(b)
    \/ FinishBootstrap(b)

DeletionStep(d) ==
    \/ RequestRelease(d)
    \/ ReleaseEnded(d)
    \/ RemoveProfile(d)

LifecycleNext ==
    \/ \E b \in Bootstraps, d \in Devices, u \in Usernames : SelectProfile(b, d, u)
    \/ \E b \in Bootstraps : BootstrapStep(b)
    \/ \E d \in Devices, u \in Usernames : BeginDeletion(d, u)
    \/ \E d \in Devices : DeletionStep(d) \/ Restart(d)
    \/ \E q \in wire : Serve(q)

LifecycleSpec == LifecycleInit /\ [][LifecycleNext]_vars
-----------------------------------------------------------------------------
KeysOf(username) == {disk[d][username] : d \in Devices} \cap Peers

InUse == {boot[b].key : b \in Bootstraps} \cup {deletion[d].key : d \in Devices}
            \cup {open[d].key : d \in Devices}

(* A name nobody can use any more, because its key is on no device, is     *)
(* only ever left behind when some call with that key was cut off or ended *)
(* in an error, as long as no device has run two bootstraps at one time.   *)
(* (If one has, the error of one call removes the key of the other.)       *)
OrphansHadTrouble ==
    ~overlapped =>
        \A n \in names : n.peer \in KeysOf(n.username) \cup InUse \cup troubled

(* While the app is open its name is registered to its key, whatever late  *)
(* requests of this or another device arrive and whatever was lost, unless *)
(* a release of that very key was asked for.                               *)
OpenProfileIsRegistered ==
    \A d \in Devices :
        view[d] = "app" /\ open[d].key \notin released =>
            [username |-> open[d].username, peer |-> open[d].key] \in names

(* A rejected bootstrap destroys no key that is older than itself (tests   *)
(* TestBootstrapAppCmdPreservesExistingLocalProfileWhenRegistryRejects),   *)
(* although it looked for the key long before it was rejected.             *)
OlderKeysSurviveRejection ==
    [][\A b \in Bootstraps :
          boot[b].stage = "rejected" /\ boot'[b].stage = "failed" =>
              Directory(b) \notin boot[b].known \/ UNCHANGED disk]_vars

(* Deleting a profile gives its name back: "Deleting profile frees active  *)
(* slot" (src/QA_MATRIX.md, identity and registration).                    *)
DeletionFreesTheName ==
    [][\A d \in Devices :
          LET x == deletion[d] IN
          x.stage = "removing" /\ disk'[d][x.username] = "absent" =>
              [username |-> x.username, peer |-> x.key] \notin names']_vars
=============================================================================
