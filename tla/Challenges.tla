----------------------------- MODULE Challenges -----------------------------
(***************************************************************************)
(* The registry's challenges (src/cmd/registry/main.go): a map from nonce  *)
(* to the key and the action it was issued for, kept in memory under       *)
(* challengeMu, and the limiter in front of it.  Module RegistryServer     *)
(* composes these operators with the tables of module Registry.            *)
(***************************************************************************)
EXTENDS Naturals, FiniteSets

CONSTANTS
    ChallengeTTL,            \* in ticks of the clock
    MaxChallengesPerWindow,
    RateLimitWindow

ASSUME ChallengeLimitsAreNaturals ==
    ChallengeTTL \in Nat /\ MaxChallengesPerWindow \in Nat /\ RateLimitWindow \in Nat \ {0}

VARIABLES
    challenges,   \* the map, a set of records with distinct nonces
    attempts      \* limiter.entries of challengeLimiter: the attempts of each source

(* pruneExpiredChallengesLocked: an entry goes when now.After(Expiry).     *)
Unexpired(now) == {c \in challenges : now <= c.expiry}

\* pass is history: the source and the attempt that let the request in.
StoreChallengeUnpruned(now, pass, nonce, peer, action) ==   \* mutant
    challenges' = challenges \cup
        {[nonce |-> nonce, peer |-> peer, action |-> action, pass |-> pass,
          expiry |-> now + ChallengeTTL]}

StoreChallenge(now, pass, nonce, peer, action) ==
    challenges' = Unexpired(now) \cup
        {[nonce |-> nonce, peer |-> peer, action |-> action, pass |-> pass,
          expiry |-> now + ChallengeTTL]}

MatchesAnyone(now, nonce, peer, action) ==   \* mutant: no comparison
    \E c \in Unexpired(now) : c.nonce = nonce

Matches(now, nonce, peer, action) ==
    \E c \in Unexpired(now) : c.nonce = nonce /\ c.peer = peer /\ c.action = action

(* consumeChallenge deletes the nonce before it compares key and action,   *)
(* and verifySignedRequest checks the signature after that: whatever is    *)
(* wrong with the request, the nonce is gone.                              *)
ConsumeNothing(now, nonce, peer, action) ==   \* mutant: the nonce stays
    challenges' = Unexpired(now)

ConsumeChallenge(now, nonce, peer, action) ==
    challenges' = {c \in Unexpired(now) : c.nonce # nonce}

(* limiter.allow: forget attempts as old as the window, then count.  Only  *)
(* the time of an attempt matters; nth tells those of one tick apart.      *)
RecentAttempts(now, source) ==
    {e \in attempts[source] : e.at + RateLimitWindow > now}

Attempt(now, source) ==
    [at |-> now, nth |-> Cardinality({e \in attempts[source] : e.at = now})]

Allow(now, source) ==
    /\ Cardinality(RecentAttempts(now, source)) < MaxChallengesPerWindow
    /\ attempts' = [attempts EXCEPT ![source] =
                       RecentAttempts(now, source) \cup {Attempt(now, source)}]

Throttle(now, source) ==
    /\ Cardinality(RecentAttempts(now, source)) >= MaxChallengesPerWindow
    /\ attempts' = [attempts EXCEPT ![source] = RecentAttempts(now, source)]
=============================================================================
