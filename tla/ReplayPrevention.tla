-------------------------- MODULE ReplayPrevention --------------------------
(***************************************************************************)
(* The nonce store of the gateway (gateway/security/replay-prevention.mjs):*)
(* a Map in memory from path:nonce to the time stamp of the request and    *)
(* the instant it was used, cleaned every hour.                            *)
(***************************************************************************)
EXTENDS Clock

CONSTANTS
    Nonces,     \* keys path:nonce
    Window,     \* REQUEST_WINDOW_SECONDS
    Skew,       \* CLOCK_SKEW_TOLERANCE_MS
    Retention   \* NONCE_RETENTION_HOURS

\* The two periods are configured independently; as they come (300 s, 10 s, 24 h)
\* a nonce is kept longer than its time stamp is good.
ASSUME ReplayAssumption ==
    /\ Window \in Nat /\ Skew \in Nat /\ Retention \in Nat
    /\ Window + Skew <= Retention

VARIABLE nonceStore

Stamps == 0..(MaxTime + Skew + 1)
Message == [nonce: Nonces, timestamp: Stamps]
NonceEntry == [nonce: Nonces, timestamp: Stamps, used_at: Times]

ReplayTypeOK == nonceStore \subseteq NonceEntry

ReplayInit == nonceStore = {}

\* The time stamp is neither too old nor too far in the future.
Timely(m) ==
    /\ now - m.timestamp <= Window
    /\ m.timestamp - now <= Skew

Used(m) == \E e \in nonceStore : e.nonce = m.nonce

Entry(m) == [nonce |-> m.nonce, timestamp |-> m.timestamp, used_at |-> now]

\* validateRequestNonce accepts the request: the nonce is recorded before anything
\* else is known of it.  It refuses in every other case, and changes nothing.
Accepts(m) == Timely(m) /\ ~Used(m)

ValidateRequestNonce(m) ==
    /\ Accepts(m)
    /\ nonceStore' = nonceStore \cup {Entry(m)}

\* Mutant: a nonce is kept as long as a time stamp of the past is good.
CleanupByWindow == nonceStore' = {e \in nonceStore : now - e.used_at <= Window}

\* cleanupNonces, on its timer.
CleanupNonces == nonceStore' = {e \in nonceStore : now - e.used_at <= Retention}
=============================================================================
