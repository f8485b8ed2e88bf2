----------------------------- MODULE Admission -----------------------------
(***************************************************************************)
(* What a request meets before its handler (gateway/server.mjs): replay    *)
(* prevention on the protected endpoints, then, under /api/v1, the API key *)
(* and the rate limiter, once before the first router and once before the  *)
(* second.  The middleware of one request runs in one synchronous step.    *)
(***************************************************************************)
EXTENDS ReplayPrevention, RateLimiter, ApiKeys

CONSTANT MaxRuns        \* bound: restarts

ASSUME AdmissionAssumption == Keys \subseteq Buckets /\ MaxRuns \in Nat

\* How often each message got past replay prevention.
VARIABLE taken

rateVars == <<rateLimitStore, passed, requests>>
admissionVars == <<now, nonceStore, rateVars, run, keyVars, taken>>

TypeOK ==
    /\ now \in Times
    /\ ReplayTypeOK
    /\ RateTypeOK
    /\ KeyTypeOK
    /\ taken \in [Message -> Nat]

Init ==
    /\ ClockInit
    /\ ReplayInit
    /\ RateInit
    /\ KeyInit
    /\ taken = [m \in Message |-> 0]

-----------------------------------------------------------------------------
\* Replay prevention accepts the message: its nonce is spent, whatever comes next.
SpendNonce(m) ==
    /\ ValidateRequestNonce(m)
    /\ taken' = [taken EXCEPT ![m] = @ + 1]

\* apiKeyAuth: a bucket of a key is reached with a valid key only.
Authenticated(b) == b \in Keys => ValidateApiKey(b)

\* POST of a pipeline route, which has no limiter; or of /api/v1/intents/:id/execute
\* and /confirm by a user with a JWT, who is exempt, or with a key that is refused.
PipelineRequest(m) ==
    /\ SpendNonce(m)
    /\ UNCHANGED <<now, rateVars, run, keyVars>>

\* POST /api/v1/intents/:id/execute and /confirm: the first router does not answer.
ActionRequest(m, b) ==
    /\ SpendNonce(m)
    /\ Authenticated(b)
    /\ PassBoth(b) \/ RefuseSecond(b) \/ RefuseFirst(b)
    /\ UNCHANGED <<now, run, keyVars>>

\* Any other request under /api/v1; the first router answers the Prime routes, the
\* SPG-M part of /govern and what lacks the scope or the role for them.
ApiRequest(b) ==
    /\ Authenticated(b)
    /\ PassFirst(b) \/ PassBoth(b) \/ RefuseSecond(b) \/ RefuseFirst(b)
    /\ UNCHANGED <<now, nonceStore, run, keyVars, taken>>

KeyHandlers == KeyStep /\ UNCHANGED <<now, nonceStore, rateVars, run, taken>>

Timers ==
    \/ Advance /\ UNCHANGED <<nonceStore, rateVars, run, keyVars, taken>>
    \/ CleanupNonces /\ UNCHANGED <<now, rateVars, run, keyVars, taken>>
    \/ CleanupBuckets /\ UNCHANGED <<now, nonceStore, run, keyVars, taken>>

\* The process restarts: both stores in memory are empty, the keys are loaded.
Restart ==
    /\ run < MaxRuns
    /\ run' = run + 1
    /\ nonceStore' = {}
    /\ rateLimitStore' = [b \in Buckets |-> {}]
    /\ LoadKeys
    /\ UNCHANGED <<now, passed, requests, taken>>

Next ==
    \/ \E m \in Message : PipelineRequest(m)
    \/ \E m \in Message, b \in Buckets : ActionRequest(m, b)
    \/ \E b \in Buckets : ApiRequest(b)
    \/ KeyHandlers
    \/ Timers
    \/ Restart

Spec == Init /\ [][Next]_admissionVars

-----------------------------------------------------------------------------
\* One process lets a message pass once: the nonce is forgotten only when the time
\* stamp is no longer good, and a request that is refused after its nonce was spent,
\* by the key check, the limiter or its handler, cannot be sent again.
NonceSpentOnce == \A m \in Message : taken[m] <= run + 1
=============================================================================
