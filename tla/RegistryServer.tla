--------------------------- MODULE RegistryServer ---------------------------
(***************************************************************************)
(* The whole registry server (src/cmd/registry/main.go): the challenges of *)
(* module Challenges in front of the tables of module Registry.  A client  *)
(* asks for a challenge, signs it together with its request and sends      *)
(* both; requests may be lost, delayed or repeated on the way, so any      *)
(* request may present any nonce at any time, more than once.              *)
(*                                                                         *)
(* profileLimiter and publicOpsLimiter only turn requests away before they *)
(* touch anything and are left out: Verify need not happen.                *)
(***************************************************************************)
EXTENDS Registry, Challenges, Sequences

CONSTANT MaxNonces   \* bound of the model on challenges issued

Nonces == 1..MaxNonces
Actions == {r.action : r \in Requests}

VARIABLES
    admitted,    \* handleChallenge calls past the limiter, reading their bodies
    born,        \* history: what each issued nonce was issued for, and when
    presented    \* history: nonces some request has presented

serverVars == <<vars, challenges, attempts, admitted, born, presented>>

ServerInit ==
    /\ Init
    /\ challenges = {}
    /\ attempts = [s \in Sources |-> {}]
    /\ admitted = {}
    /\ born = <<>>
    /\ presented = {}

(* handleChallenge asks the limiter before it reads the body, and the      *)
(* server sets no deadline for bodies: how long a call that was let in     *)
(* stays between the two steps is up to its client.                        *)
AdmitChallenge(source) ==
    /\ Allow(now, source)
    /\ admitted' = admitted \cup {[source |-> source, attempt |-> Attempt(now, source)]}
    /\ UNCHANGED <<vars, challenges, born, presented>>

TurnAwayChallenge(source) ==
    /\ Throttle(now, source)
    /\ UNCHANGED <<vars, challenges, admitted, born, presented>>

(* The body is in and valid: a fresh nonce, stored under challengeMu.      *)
IssueChallenge(pass, peer, action) ==
    /\ Len(born) < MaxNonces
    /\ StoreChallenge(now, pass, Len(born) + 1, peer, action)
    /\ admitted' = admitted \ {pass}
    /\ born' = Append(born, [peer |-> peer, action |-> action, at |-> now, lost |-> FALSE])
    /\ UNCHANGED <<vars, attempts, presented>>

(* The body is invalid or never came.                                      *)
RejectChallenge(pass) ==
    /\ admitted' = admitted \ {pass}
    /\ UNCHANGED <<vars, challenges, attempts, born, presented>>

(* verifySignedRequest, on entry to each of the four handlers.  A request  *)
(* without a nonce or a signature changes nothing and is no step here.     *)
Verify(h, r, nonce, signed) ==
    /\ task[h].stage = "idle"
    /\ ConsumeChallenge(now, nonce, r.peer, r.action)
    /\ presented' = presented \cup {nonce}
    /\ \/ /\ Matches(now, nonce, r.peer, r.action) /\ signed
          /\ Accept(h, r)
       \/ /\ ~(Matches(now, nonce, r.peer, r.action) /\ signed)
          /\ UNCHANGED vars
    /\ UNCHANGED <<attempts, admitted, born>>

(* The maps are in memory: a restart forgets challenges and attempts, and  *)
(* the calls under way end with the process.                               *)
ServerRestart ==
    /\ Restart
    /\ challenges' = {}
    /\ attempts' = [s \in Sources |-> {}]
    /\ admitted' = {}
    /\ born' = [n \in DOMAIN born |-> [born[n] EXCEPT !.lost = TRUE]]
    /\ UNCHANGED presented

ServerStep ==
    /\ \E h \in Handlers : Step(h)
    /\ UNCHANGED <<challenges, attempts, admitted, born, presented>>

ServerTick ==
    /\ Tick
    /\ UNCHANGED <<challenges, attempts, admitted, born, presented>>

ServerNext ==
    \/ \E s \in Sources : AdmitChallenge(s) \/ TurnAwayChallenge(s)
    \/ \E pass \in admitted, k \in Peers, a \in Actions : IssueChallenge(pass, k, a)
    \/ \E pass \in admitted : RejectChallenge(pass)
    \/ \E h \in Handlers, r \in Requests, n \in DOMAIN born, signed \in BOOLEAN :
          Verify(h, r, n, signed)
    \/ ServerRestart
    \/ ServerStep
    \/ ServerTick

ServerSpec == ServerInit /\ [][ServerNext]_serverVars
-----------------------------------------------------------------------------
(* A request is only ever served on the first presentation of its nonce,   *)
(* by the process that issued it, within the time to live, and for the key *)
(* and the action it was issued for: a repeated, late, mismatched or badly *)
(* signed request burns its nonce (consumeChallenge, verifySignedRequest). *)
ServedOncePerChallenge ==
    [][\A h \in Handlers :
          task[h].stage = "idle" /\ task'[h].stage = "verified" =>
              \E n \in presented' \ presented :
                  /\ born[n].peer = task'[h].request.peer
                  /\ born[n].action = task'[h].request.action
                  /\ now <= born[n].at + ChallengeTTL
                  /\ ~born[n].lost]_serverVars

(* Across restarts and repeated requests, a key is never issued more       *)
(* profiles than it has spent challenges on registering one.               *)
EveryIssueSpentAChallenge ==
    \A k \in Peers :
        Cardinality({e \in issuanceEvents : e.peer = k})
            <= Cardinality({n \in presented :
                               born[n].peer = k /\ born[n].action = "register_profile"})

(* What one source can make the server remember grows only with the time   *)
(* its bodies take: of the challenges stored at most delay ticks after     *)
(* they were let in, the map holds what the limiter grants in the windows  *)
(* that ChallengeTTL + delay ticks touch.  Every store prunes first        *)
(* (storeChallenge), no attempt pays for two challenges (limiter.allow),   *)
(* and there is no bound without the delay, because no body has to end.    *)
ChallengesBounded ==
    \A s \in Sources, delay \in 0..MaxClock :
        Cardinality({c \in challenges :
                        /\ c.pass.source = s
                        /\ c.expiry <= c.pass.attempt.at + delay + ChallengeTTL})
            <= MaxChallengesPerWindow * (((ChallengeTTL + delay) \div RateLimitWindow) + 1)
=============================================================================
