---------------------------- MODULE RateLimiter ----------------------------
(***************************************************************************)
(* The token bucket of internal/security/ratelimit.go for one client IP:   *)
(* Allow, called by Middleware for every request, and cleanup.  Entries of *)
(* different IPs share nothing.                                            *)
(*                                                                         *)
(* Allow looks the entry up under the limiter's lock, releases it, and     *)
(* takes the token under the entry's own lock, so cleanup may drop the     *)
(* entry in between.  Time is counted in ticks and tokens in units, so     *)
(* that rps, a fraction in main.go, is a whole number of units per tick.   *)
(***************************************************************************)
EXTENDS Naturals, FiniteSets

CONSTANTS
  Requests,  \* the requests of the IP; each calls Allow once
  None,      \* no entry
  Cost,      \* units in a token
  Burst,     \* units in a full bucket
  Rate,      \* units added per tick
  Stale,     \* ticks without a request after which cleanup drops an entry
  MaxTime    \* bound on the clock

\* A bucket is full again before cleanup may drop it: 10 minutes * rps >= burst
\* for the three limiters main.go creates.
ASSUME LimiterAssumption ==
  /\ None \notin Requests /\ IsFiniteSet(Requests)
  /\ {Cost, Burst, Rate, Stale, MaxTime} \subseteq Nat
  /\ Cost <= Burst
  /\ Stale * Rate >= Burst

VARIABLES
  now,       \* the clock
  entry,     \* RateLimiter.entries[ip]; an entry is named after its creator
  tokens,    \* limiterEntry.tokens
  lastSeen,  \* limiterEntry.lastSeen
  pc,        \* "idle", "found" (between the two locks), "granted" or "refused"
  held,      \* the entry a request has looked up
  at,        \* when the request took its token (history)
  detached   \* requests whose entry cleanup dropped before they used it (history)

vars == << now, entry, tokens, lastSeen, pc, held, at, detached >>

TypeOK ==
  /\ now \in 0 .. MaxTime
  /\ entry \in Requests \cup {None}
  /\ tokens \in [Requests -> 0 .. Burst]
  /\ lastSeen \in [Requests -> 0 .. now]
  /\ pc \in [Requests -> {"idle", "found", "granted", "refused"}]
  /\ held \in [Requests -> Requests \cup {None}]
  /\ at \in [Requests -> 0 .. now]
  /\ detached \subseteq Requests

Init ==
  /\ now = 0
  /\ entry = None
  /\ tokens = [e \in Requests |-> 0]
  /\ lastSeen = [e \in Requests |-> 0]
  /\ pc = [r \in Requests |-> "idle"]
  /\ held = [r \in Requests |-> None]
  /\ at = [r \in Requests |-> 0]
  /\ detached = {}

Least(a, b) == IF a < b THEN a ELSE b

\* Under the limiter's lock: the entry, or a new one with a full bucket.
Find(r) ==
  /\ pc[r] = "idle"
  /\ pc' = [pc EXCEPT ![r] = "found"]
  /\ \/ /\ entry # None
        /\ held' = [held EXCEPT ![r] = entry]
        /\ UNCHANGED << entry, tokens, lastSeen >>
     \/ /\ entry = None
        /\ entry' = r
        /\ held' = [held EXCEPT ![r] = r]
        /\ tokens' = [tokens EXCEPT ![r] = Burst]
        /\ lastSeen' = [lastSeen EXCEPT ![r] = now]
  /\ UNCHANGED << now, at, detached >>

\* Faulty refill: the bucket has no limit.
RefilledUnbounded(e) == tokens[e] + (now - lastSeen[e]) * Rate

\* The bucket of e with what has come in since it was last used.
Refilled(e) == Least(Burst, tokens[e] + (now - lastSeen[e]) * Rate)

\* Under the entry's lock: refill, then take a token if there is one.
Take(r) ==
  LET e == held[r] IN
  /\ pc[r] = "found"
  /\ lastSeen' = [lastSeen EXCEPT ![e] = now]
  /\ at' = [at EXCEPT ![r] = now]
  /\ \/ /\ Refilled(e) < Cost
        /\ tokens' = [tokens EXCEPT ![e] = Refilled(e)]
        /\ pc' = [pc EXCEPT ![r] = "refused"]
     \/ /\ Refilled(e) >= Cost
        /\ tokens' = [tokens EXCEPT ![e] = Refilled(e) - Cost]
        /\ pc' = [pc EXCEPT ![r] = "granted"]
  /\ detached' = IF e = entry THEN detached ELSE detached \cup {r}
  /\ UNCHANGED << now, entry, held >>

\* Faulty Cleanup: every entry is dropped.
CleanupAll ==
  /\ entry # None
  /\ entry' = None
  /\ UNCHANGED << now, tokens, lastSeen, pc, held, at, detached >>

\* The ticker of cleanup may fire at any time; a stale entry is dropped.
Cleanup ==
  /\ entry # None
  /\ now - lastSeen[entry] > Stale
  /\ entry' = None
  /\ UNCHANGED << now, tokens, lastSeen, pc, held, at, detached >>

Tick ==
  /\ now < MaxTime
  /\ now' = now + 1
  /\ UNCHANGED << entry, tokens, lastSeen, pc, held, at, detached >>

Next == Tick \/ Cleanup \/ \E r \in Requests : Find(r) \/ Take(r)

Spec == Init /\ [][Next]_vars

----------------------------------------------------------------------------
(***************************************************************************)
(* Properties.                                                             *)
(***************************************************************************)

Granted(a, b) == { r \in Requests : pc[r] = "granted" /\ a <= at[r] /\ at[r] <= b }

\* In every span of time the IP gets at most a full bucket and what comes in
\* during the span, however often cleanup drops and Allow re-creates the
\* entry.  Only a request that looked its entry up before cleanup dropped it
\* may come on top.
SpanBound ==
  \A a, b \in 0 .. now :
    a <= b => Cost * Cardinality(Granted(a, b) \ detached) <= Burst + (b - a) * Rate

\* The limiter implements TokenBucket.  That cleanup drops an entry and Allow
\* creates another cannot be told from a bucket that is never thrown away: no
\* request gets a token too many for it, none is refused one it would have got.
Bucket == INSTANCE TokenBucket
            WITH Requests <- Requests, Cost <- Cost, Burst <- Burst, Rate <- Rate,
                 level <- IF entry = None THEN Burst ELSE Refilled(entry),
                 verdict <- [r \in Requests |->
                               IF pc[r] \in {"granted", "refused"} THEN pc[r] ELSE "none"],
                 late <- detached
BucketSpec == Bucket!Spec
=============================================================================
