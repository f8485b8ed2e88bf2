---------------------------- MODULE RateLimiter ----------------------------
(***************************************************************************)
(* The sliding-window limiter of /api/v1 (gateway/security/rate-limiter.mjs*)
(* ): per bucket, the instants of the requests that passed it.  The server *)
(* mounts it twice (server.mjs 306 and 312), so a request that the first   *)
(* router does not answer passes it twice, within one tick.                *)
(***************************************************************************)
EXTENDS Clock, FiniteSets

CONSTANTS
    Buckets,        \* API keys and addresses
    LimitOf,        \* requests per window, per bucket
    RateWindow,     \* WINDOW_MS
    MaxRequests     \* bound: requests that passed the limiter

ASSUME RateAssumption ==
    /\ LimitOf \in [Buckets -> Nat \ {0}]
    /\ RateWindow \in Nat \ {0}
    /\ MaxRequests \in Nat

VARIABLES
    rateLimitStore, \* the time stamps of each bucket
    passed,         \* every time stamp a bucket ever had, with the process it was of
    requests,       \* requests counted so far
    run             \* the number of the process

\* A time stamp, named by the request and the mount that pushed it.
Stamp == [at: Times, request: 1..MaxRequests, mount: {1, 2}]
Passing == [bucket: Buckets, run: Nat, stamp: Stamp]

RateTypeOK ==
    /\ rateLimitStore \in [Buckets -> SUBSET Stamp]
    /\ passed \subseteq Passing
    /\ requests \in 0..MaxRequests
    /\ run \in Nat

RateInit ==
    /\ rateLimitStore = [b \in Buckets |-> {}]
    /\ passed = {}
    /\ requests = 0
    /\ run = 0

\* Mutant: the request that fills the window is let through.
OneMore(b, stamps) == Cardinality(stamps) <= LimitOf[b]

\* checkRateLimit: under the limit once the old time stamps are dropped.
UnderLimit(b, stamps) == Cardinality(stamps) < LimitOf[b]

InWindow(stamps) == {s \in stamps : s.at > now - RateWindow}
Kept(b) == InWindow(rateLimitStore[b])
Pushed(n) == [at |-> now, request |-> requests + 1, mount |-> n]

Counted(b, stamps) ==
    /\ requests < MaxRequests
    /\ requests' = requests + 1
    /\ rateLimitStore' = [rateLimitStore EXCEPT ![b] = Kept(b) \cup stamps]
    /\ passed' = passed \cup {[bucket |-> b, run |-> run, stamp |-> s] : s \in stamps}

\* The request passes the first mount, and the first router answers it.
PassFirst(b) ==
    /\ UnderLimit(b, Kept(b))
    /\ Counted(b, {Pushed(1)})

\* It passes both mounts.
PassBoth(b) ==
    /\ UnderLimit(b, Kept(b))
    /\ UnderLimit(b, Kept(b) \cup {Pushed(1)})
    /\ Counted(b, {Pushed(1), Pushed(2)})

\* It passes the first and is refused by the second: it stays counted.
RefuseSecond(b) ==
    /\ UnderLimit(b, Kept(b))
    /\ ~UnderLimit(b, Kept(b) \cup {Pushed(1)})
    /\ Counted(b, {Pushed(1)})

\* It is refused by the first; the old time stamps are gone.
RefuseFirst(b) ==
    /\ ~UnderLimit(b, Kept(b))
    /\ rateLimitStore' = [rateLimitStore EXCEPT ![b] = Kept(b)]
    /\ UNCHANGED <<passed, requests>>

\* cleanup, on its timer.
CleanupBuckets ==
    /\ rateLimitStore' = [b \in Buckets |-> Kept(b)]
    /\ UNCHANGED <<passed, requests>>

-----------------------------------------------------------------------------
\* In every window, the time stamps one process let into a bucket are within the
\* limit of the bucket, however the requests and the cleanup are interleaved.
PassedWithin(b, r, t) ==
    {p \in passed : /\ p.bucket = b /\ p.run = r
                    /\ t - RateWindow < p.stamp.at /\ p.stamp.at <= t}

RateRespected ==
    \A b \in Buckets, r \in 0..run, t \in Times :
        Cardinality(PassedWithin(b, r, t)) <= LimitOf[b]
=============================================================================
