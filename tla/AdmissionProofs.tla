-------------------------- MODULE AdmissionProofs --------------------------
(***************************************************************************)
(* Theorems about what a request meets before its handler, for every set   *)
(* of messages, keys, buckets, limits and periods.                         *)
(***************************************************************************)
EXTENDS Admission, FiniteSetTheorems, TLAPS

(***************************************************************************)
(* Replay prevention.                                                      *)
(***************************************************************************)
Held(m) == \E e \in nonceStore : e.nonce = m.nonce /\ e.timestamp = m.timestamp

\* An entry is of a request that was timely when its nonce was used.
EntriesTimely ==
    \A e \in nonceStore : e.timestamp <= e.used_at + Skew /\ e.used_at <= now

\* Once this process has let a message pass, either its nonce is there or it is too old.
SpentIsKnown ==
    \A m \in Message :
        \/ taken[m] <= run
        \/ taken[m] = run + 1 /\ (Held(m) \/ now - m.timestamp > Window)

NonceInv ==
    /\ now \in Times /\ run \in Nat /\ taken \in [Message -> Nat]
    /\ ReplayTypeOK
    /\ EntriesTimely
    /\ SpentIsKnown

LEMMA Ints == Times \subseteq Int /\ Stamps \subseteq Int
  BY ClockAssumption, ReplayAssumption DEF Times, Stamps

LEMMA NonceKept ==
    ASSUME NonceInv, UNCHANGED <<now, nonceStore, run, taken>>
    PROVE  NonceInv'
  BY DEF NonceInv, ReplayTypeOK, EntriesTimely, SpentIsKnown, Held

LEMMA SpendStep ==
    ASSUME NonceInv, NEW m \in Message, SpendNonce(m), UNCHANGED <<now, run>>
    PROVE  NonceInv'
  <1>1. /\ Timely(m) /\ ~Used(m)
        /\ nonceStore' = nonceStore \cup {Entry(m)}
        /\ taken' = [taken EXCEPT ![m] = @ + 1]
    BY DEF SpendNonce, ValidateRequestNonce, Accepts
  <1>2. /\ m.nonce \in Nonces /\ m.timestamp \in Stamps /\ m.timestamp \in Int
        /\ now \in Int /\ now \in Times
    BY Ints DEF NonceInv, Message
  <1>3. Entry(m) \in NonceEntry
    BY <1>2 DEF Entry, NonceEntry
  <1>4. ReplayTypeOK'
    BY <1>1, <1>3 DEF NonceInv, ReplayTypeOK
  <1>5. EntriesTimely'
    <2>1. Entry(m).timestamp <= Entry(m).used_at + Skew /\ Entry(m).used_at <= now
      BY <1>1, <1>2, ReplayAssumption DEF Entry, Timely
    <2> QED
      BY <1>1, <2>1 DEF NonceInv, EntriesTimely
  <1>6. taken[m] <= run /\ taken[m] \in Nat /\ run \in Nat
    BY <1>1, <1>2, ReplayAssumption DEF NonceInv, SpentIsKnown, Held, Used, Timely
  <1>7. \A x \in Message : Held(x) => Held(x)'
    BY <1>1 DEF Held
  <1>8. Held(m)'
    <2>1. Entry(m) \in nonceStore'
      BY <1>1
    <2>2. Entry(m).nonce = m.nonce /\ Entry(m).timestamp = m.timestamp
      BY DEF Entry
    <2> QED
      BY <2>1, <2>2 DEF Held
  <1>9. SpentIsKnown'
    <2> SUFFICES ASSUME NEW x \in Message
                 PROVE  \/ taken'[x] <= run
                        \/ taken'[x] = run + 1 /\ (Held(x)' \/ now - x.timestamp > Window)
      BY DEF SpentIsKnown
    <2>1. CASE x = m
      BY <1>1, <1>6, <1>8, <2>1 DEF NonceInv
    <2>2. CASE x # m
      BY <1>1, <1>7, <2>2 DEF NonceInv, SpentIsKnown
    <2> QED
      BY <2>1, <2>2
  <1>10. taken' \in [Message -> Nat]
    BY <1>1, <1>6 DEF NonceInv
  <1> QED
    BY <1>4, <1>5, <1>9, <1>10 DEF NonceInv

LEMMA AdvanceStep ==
    ASSUME NonceInv, Advance, UNCHANGED <<nonceStore, run, taken>>
    PROVE  NonceInv'
  <1>1. now' = now + 1 /\ now' \in Times /\ now \in Int
    BY ClockAssumption DEF Advance, NonceInv, Times
  <1>2. EntriesTimely'
    <2> SUFFICES ASSUME NEW e \in nonceStore
                 PROVE  e.timestamp <= e.used_at + Skew /\ e.used_at <= now'
      BY DEF EntriesTimely
    <2>1. e.used_at \in Int /\ e.timestamp <= e.used_at + Skew /\ e.used_at <= now
      BY Ints DEF NonceInv, EntriesTimely, ReplayTypeOK, NonceEntry
    <2> QED
      BY <1>1, <2>1
  <1>3. ASSUME NEW m \in Message, now - m.timestamp > Window
        PROVE  now' - m.timestamp > Window
    <2>1. m.timestamp \in Stamps
      BY DEF Message
    <2>2. m.timestamp \in Int
      BY <2>1, Ints
    <2> QED
      BY <1>1, <1>3, <2>2, ReplayAssumption
  <1>4. \A m \in Message : Held(m)' <=> Held(m)
    BY DEF Held
  <1>5. SpentIsKnown'
    BY <1>3, <1>4 DEF NonceInv, SpentIsKnown
  <1> QED
    BY <1>1, <1>2, <1>5 DEF NonceInv, ReplayTypeOK

\* The cleanup forgets a nonce only when its time stamp is too old.
LEMMA CleanupStep ==
    ASSUME NonceInv, CleanupNonces, UNCHANGED <<now, run, taken>>
    PROVE  NonceInv'
  <1>1. nonceStore' = {e \in nonceStore : now - e.used_at <= Retention}
    BY DEF CleanupNonces
  <1>2. ASSUME NEW m \in Message, Held(m), ~(now - m.timestamp > Window) PROVE Held(m)'
    <2>1. PICK e \in nonceStore : e.nonce = m.nonce /\ e.timestamp = m.timestamp
      BY <1>2 DEF Held
    <2>2. /\ e.timestamp \in Int /\ e.used_at \in Int /\ now \in Int
          /\ e.timestamp <= e.used_at + Skew
      BY Ints DEF NonceInv, ReplayTypeOK, NonceEntry, EntriesTimely
    <2>3. now - e.used_at <= Retention
      BY <1>2, <2>1, <2>2, ReplayAssumption
    <2> QED
      BY <1>1, <2>1, <2>3 DEF Held
  <1>3. SpentIsKnown'
    BY <1>2 DEF NonceInv, SpentIsKnown
  <1> QED
    BY <1>1, <1>3 DEF NonceInv, ReplayTypeOK, EntriesTimely

LEMMA RestartNonces ==
    ASSUME NonceInv, nonceStore' = {}, run' = run + 1, UNCHANGED <<now, taken>>
    PROVE  NonceInv'
  BY DEF NonceInv, ReplayTypeOK, EntriesTimely, SpentIsKnown

LEMMA InitNonces == Init => NonceInv
  <1> SUFFICES ASSUME Init PROVE NonceInv
    OBVIOUS
  <1>1. now = 0 /\ run = 0 /\ nonceStore = {} /\ taken = [m \in Message |-> 0]
    BY DEF Init, ClockInit, RateInit, ReplayInit
  <1>2. now \in Times
    BY <1>1, ClockAssumption DEF Times
  <1>3. \A m \in Message : taken[m] <= run
    BY <1>1
  <1> QED
    BY <1>1, <1>2, <1>3 DEF NonceInv, ReplayTypeOK, EntriesTimely, SpentIsKnown

LEMMA NextNonces == NonceInv /\ [Next]_admissionVars => NonceInv'
  <1> SUFFICES ASSUME NonceInv, [Next]_admissionVars PROVE NonceInv'
    OBVIOUS
  <1>1. CASE UNCHANGED admissionVars
    BY <1>1, NonceKept DEF admissionVars
  <1>2. ASSUME NEW m \in Message, PipelineRequest(m) PROVE NonceInv'
    BY <1>2, SpendStep DEF PipelineRequest
  <1>3. ASSUME NEW m \in Message, NEW b \in Buckets, ActionRequest(m, b) PROVE NonceInv'
    BY <1>3, SpendStep DEF ActionRequest
  <1>4. ASSUME NEW b \in Buckets, ApiRequest(b) PROVE NonceInv'
    BY <1>4, NonceKept DEF ApiRequest
  <1>5. CASE KeyHandlers
    BY <1>5, NonceKept DEF KeyHandlers
  <1>6. CASE Timers
    BY <1>6, AdvanceStep, CleanupStep, NonceKept DEF Timers
  <1>7. CASE Restart
    BY <1>7, RestartNonces DEF Restart
  <1> QED
    BY <1>1, <1>2, <1>3, <1>4, <1>5, <1>6, <1>7 DEF Next

\* No captured request passes replay prevention twice in one process, if a nonce is
\* kept as long as the window and the skew together (replay-prevention.mjs).
THEOREM NoReplayInOneProcess == Spec => []NonceSpentOnce
  <1>1. NonceInv => NonceSpentOnce
    BY DEF NonceInv, SpentIsKnown, NonceSpentOnce
  <1> QED
    BY <1>1, InitNonces, NextNonces, PTL DEF Spec

(***************************************************************************)
(* The rate limiter.                                                       *)
(***************************************************************************)
\* What this process let into a bucket within the window is in its store.
PassedInStore ==
    \A p \in passed :
        /\ p.run <= run
        /\ p.run = run /\ p.stamp.at > now - RateWindow => p.stamp \in rateLimitStore[p.bucket]

StoresFinite == \A b \in Buckets : IsFiniteSet(rateLimitStore[b])

RateInv ==
    /\ now \in Times
    /\ RateTypeOK
    /\ PassedInStore
    /\ StoresFinite
    /\ RateRespected

LEMMA RateKept ==
    ASSUME RateInv, UNCHANGED <<now, rateVars, run>>
    PROVE  RateInv'
  BY DEF RateInv, RateTypeOK, PassedInStore, StoresFinite, RateRespected, PassedWithin,
         rateVars

\* As many time stamps as there are passings of one bucket in one process.
LEMMA AsManyStamps ==
    ASSUME NEW P \in SUBSET Passing, NEW T, IsFiniteSet(T), NEW b, NEW r,
           \A p \in P : p.bucket = b /\ p.run = r /\ p.stamp \in T
    PROVE  Cardinality(P) <= Cardinality(T)
  <1> DEFINE f == [p \in P |-> p.stamp]
  <1>1. f \in [P -> T]
    OBVIOUS
  <1>2. \A p, q \in P : p.stamp = q.stamp => p = q
    BY DEF Passing
  <1>3. f \in Injection(P, T)
    BY <1>1, <1>2 DEF Injection, IsInjective
  <1> HIDE DEF f
  <1> QED
    BY <1>3, FS_Injection

LEMMA CountedStep ==
    ASSUME RateInv, NEW b \in Buckets, NEW stamps \in SUBSET Stamp, IsFiniteSet(stamps),
           \A s \in stamps : s.at = now,
           Counted(b, stamps), UNCHANGED <<now, run>>,
           Cardinality(Kept(b) \cup stamps) <= LimitOf[b]
    PROVE  RateInv'
  <1> DEFINE new == {[bucket |-> b, run |-> run, stamp |-> s] : s \in stamps}
             T == Kept(b) \cup stamps
  <1>1. /\ requests < MaxRequests /\ requests' = requests + 1
        /\ rateLimitStore' = [rateLimitStore EXCEPT ![b] = T]
        /\ passed' = passed \cup new
    BY DEF Counted
  <1>2. /\ rateLimitStore \in [Buckets -> SUBSET Stamp] /\ passed \subseteq Passing
        /\ requests \in 0..MaxRequests /\ run \in Nat /\ now \in Int
    BY Ints DEF RateInv, RateTypeOK
  <1>3. Kept(b) \subseteq rateLimitStore[b]
    BY DEF Kept, InWindow
  <1>4. T \in SUBSET Stamp
    BY <1>2, <1>3
  <1>5. new \subseteq Passing
    BY <1>2 DEF Passing
  <1>6. RateTypeOK'
    BY <1>1, <1>2, <1>4, <1>5, RateAssumption DEF RateTypeOK
  <1>7. IsFiniteSet(T)
    BY <1>3, FS_Subset, FS_Union DEF RateInv, StoresFinite
  <1> HIDE DEF T
  <1>8. StoresFinite'
    BY <1>1, <1>2, <1>7 DEF RateInv, StoresFinite
  <1>9. rateLimitStore'[b] = T /\ \A c \in Buckets \ {b} : rateLimitStore'[c] = rateLimitStore[c]
    BY <1>1, <1>2
  <1>10. PassedInStore'
    <2>1. \A p \in new : p.run = run /\ p.bucket = b /\ p.stamp \in T /\ p.stamp.at = now
      BY DEF T
    <2>2. \A p \in passed : p.bucket \in Buckets
      BY <1>2 DEF Passing
    <2>3. \A p \in passed :
            p.run = run /\ p.stamp.at > now - RateWindow /\ p.bucket = b => p.stamp \in T
      BY DEF RateInv, PassedInStore, T, Kept, InWindow
    <2> HIDE DEF new
    <2>4. \A p \in passed :
            p.run = run /\ p.stamp.at > now - RateWindow =>
                p.stamp \in rateLimitStore'[p.bucket]
      BY <1>9, <2>2, <2>3 DEF RateInv, PassedInStore
    <2> QED
      BY <1>1, <1>2, <1>9, <2>1, <2>4 DEF RateInv, PassedInStore
  <1>11. RateRespected'
    <2> SUFFICES ASSUME NEW c \in Buckets, NEW r \in 0..run, NEW t \in Times
                 PROVE  Cardinality(PassedWithin(c, r, t)') <= LimitOf[c]
      BY DEF RateRespected
    <2>1. t \in Int
      BY Ints
    <2>2. CASE c = b /\ r = run /\ t >= now
      <3>1. \A p \in PassedWithin(c, r, t)' :
              /\ p \in passed' /\ p.bucket = b /\ p.run = run
              /\ p.stamp.at > t - RateWindow /\ p.stamp.at \in Int
        <4>1. passed' \subseteq Passing
          BY <1>6 DEF RateTypeOK
        <4> QED
          BY <2>1, <2>2, <4>1, Ints, RateAssumption DEF PassedWithin, Passing, Stamp
      <3>2. \A p \in PassedWithin(c, r, t)' : p.stamp.at > now - RateWindow
        BY <1>2, <2>1, <2>2, <3>1, RateAssumption
      <3>3. \A p \in PassedWithin(c, r, t)' : p.stamp \in T
        BY <1>9, <1>10, <3>1, <3>2 DEF PassedInStore
      <3>4. PassedWithin(c, r, t)' \in SUBSET Passing
        BY <1>6 DEF PassedWithin, RateTypeOK
      <3>5. Cardinality(PassedWithin(c, r, t)') <= Cardinality(T)
        BY <1>7, <3>1, <3>3, <3>4, AsManyStamps
      <3>6. Cardinality(T) <= LimitOf[b]
        BY DEF T
      <3>7. Cardinality(T) \in Nat /\ LimitOf[b] \in Nat
        BY <1>7, FS_CardinalityType, RateAssumption
      <3>8. IsFiniteSet(PassedWithin(c, r, t)')
        <4>1. PassedWithin(c, r, t)' = {} \/ PassedWithin(c, r, t)' # {}
          OBVIOUS
        <4> DEFINE P == PassedWithin(c, r, t)'
                   f == [p \in P |-> p.stamp]
        <4>2. \A p, q \in P : p.stamp = q.stamp => p = q
          <5>1. \A p \in P : p \in Passing /\ p.bucket = b /\ p.run = run
            BY <3>1, <3>4
          <5> HIDE DEF P
          <5> QED
            BY <5>1 DEF Passing
        <4>3. f \in Injection(P, T)
          <5>1. \A p \in P : p.stamp \in T
            BY <3>3
          <5> HIDE DEF P
          <5> QED
            BY <4>2, <5>1 DEF Injection, IsInjective
        <4> HIDE DEF f, P
        <4>4. IsFiniteSet(P)
          BY <1>7, <4>3, FS_Injection
        <4> QED
          BY <4>4 DEF P
      <3>9. Cardinality(PassedWithin(c, r, t)') \in Nat
        BY <3>8, FS_CardinalityType
      <3> QED
        BY <2>2, <3>5, <3>6, <3>7, <3>9
    <2>3. CASE ~(c = b /\ r = run /\ t >= now)
      <3>1. \A p \in new : ~(p.bucket = c /\ p.run = r /\ p.stamp.at <= t)
        BY <1>2, <2>1, <2>3
      <3> HIDE DEF new
      <3>2. PassedWithin(c, r, t)' = PassedWithin(c, r, t)
        BY <1>1, <3>1 DEF PassedWithin
      <3> QED
        BY <3>2 DEF RateInv, RateRespected
    <2> QED
      BY <2>2, <2>3
  <1> QED
    BY <1>6, <1>8, <1>10, <1>11 DEF RateInv

\* A pushed time stamp adds at most one.
LEMMA OnePushed ==
    ASSUME NEW S, IsFiniteSet(S), NEW x, NEW k \in Nat, Cardinality(S) < k
    PROVE  IsFiniteSet(S \cup {x}) /\ Cardinality(S \cup {x}) <= k
  <1>1. Cardinality(S) \in Nat
    BY FS_CardinalityType
  <1>2. /\ IsFiniteSet(S \cup {x})
        /\ Cardinality(S \cup {x}) = IF x \in S THEN Cardinality(S) ELSE Cardinality(S) + 1
    BY FS_AddElement
  <1> QED
    BY <1>1, <1>2

LEMMA LimiterStep ==
    ASSUME RateInv, NEW b \in Buckets, UNCHANGED <<now, run>>,
           PassFirst(b) \/ PassBoth(b) \/ RefuseSecond(b)
    PROVE  RateInv'
  <1>1. /\ requests \in 0..MaxRequests /\ requests < MaxRequests /\ now \in Times
        /\ LimitOf[b] \in Nat
    BY RateAssumption DEF RateInv, RateTypeOK, PassFirst, PassBoth, RefuseSecond, Counted
  <1>2. /\ Pushed(1) \in Stamp /\ Pushed(2) \in Stamp
        /\ Pushed(1).at = now /\ Pushed(2).at = now
    BY <1>1, RateAssumption DEF Pushed, Stamp
  <1>3. IsFiniteSet(Kept(b))
    BY FS_Subset DEF RateInv, StoresFinite, Kept, InWindow
  <1>4. Cardinality(Kept(b)) < LimitOf[b]
    BY DEF PassFirst, PassBoth, RefuseSecond, UnderLimit
  <1>5. /\ IsFiniteSet(Kept(b) \cup {Pushed(1)})
        /\ Cardinality(Kept(b) \cup {Pushed(1)}) <= LimitOf[b]
    BY <1>1, <1>3, <1>4, OnePushed
  <1>6. IsFiniteSet({Pushed(1)}) /\ IsFiniteSet({Pushed(1), Pushed(2)})
    <2>1. {Pushed(1), Pushed(2)} = {Pushed(1)} \cup {Pushed(2)}
      OBVIOUS
    <2>2. IsFiniteSet({Pushed(1)}) /\ IsFiniteSet({Pushed(2)})
      BY FS_Singleton
    <2>3. IsFiniteSet({Pushed(1)} \cup {Pushed(2)})
      BY <2>2, FS_Union
    <2> QED
      BY <2>1, <2>2, <2>3
  <1>7. CASE PassFirst(b) \/ RefuseSecond(b)
    <2>1. Counted(b, {Pushed(1)})
      BY <1>7 DEF PassFirst, RefuseSecond
    <2> QED
      BY <1>2, <1>5, <1>6, <2>1, CountedStep
  <1>8. CASE PassBoth(b)
    <2>1. /\ Counted(b, {Pushed(1), Pushed(2)})
          /\ Cardinality(Kept(b) \cup {Pushed(1)}) < LimitOf[b]
      BY <1>8 DEF PassBoth, UnderLimit
    <2>2. Cardinality((Kept(b) \cup {Pushed(1)}) \cup {Pushed(2)}) <= LimitOf[b]
      BY <1>1, <1>5, <2>1, OnePushed
    <2>3. (Kept(b) \cup {Pushed(1)}) \cup {Pushed(2)} = Kept(b) \cup {Pushed(1), Pushed(2)}
      OBVIOUS
    <2> QED
      BY <1>2, <1>6, <2>1, <2>2, <2>3, CountedStep
  <1> QED
    BY <1>7, <1>8

\* Dropping old time stamps loses none that a window ending now or later counts.
LEMMA DropStep ==
    ASSUME RateInv, UNCHANGED <<now, run, passed, requests>>,
           rateLimitStore' \in [Buckets -> SUBSET Stamp],
           \A b \in Buckets : rateLimitStore'[b] \in {rateLimitStore[b], Kept(b)}
    PROVE  RateInv'
  <1>1. RateTypeOK'
    BY DEF RateInv, RateTypeOK
  <1>2. \A b \in Buckets : Kept(b) \in SUBSET rateLimitStore[b]
    BY DEF Kept, InWindow
  <1>3. StoresFinite'
    BY <1>2, FS_Subset DEF RateInv, StoresFinite
  <1>4. \A p \in passed : p.bucket \in Buckets
    BY DEF RateInv, RateTypeOK, Passing
  <1>5. PassedInStore'
    BY <1>4 DEF RateInv, PassedInStore, Kept, InWindow
  <1>6. RateRespected'
    BY DEF RateInv, RateRespected, PassedWithin
  <1> QED
    BY <1>1, <1>3, <1>5, <1>6 DEF RateInv

LEMMA RefuseStep ==
    ASSUME RateInv, NEW b \in Buckets, RefuseFirst(b), UNCHANGED <<now, run>>
    PROVE  RateInv'
  <1>1. rateLimitStore' = [rateLimitStore EXCEPT ![b] = Kept(b)]
    BY DEF RefuseFirst
  <1>2. rateLimitStore \in [Buckets -> SUBSET Stamp] /\ Kept(b) \subseteq rateLimitStore[b]
    BY DEF RateInv, RateTypeOK, Kept, InWindow
  <1>3. rateLimitStore' \in [Buckets -> SUBSET Stamp]
    BY <1>1, <1>2
  <1>4. \A c \in Buckets : rateLimitStore'[c] \in {rateLimitStore[c], Kept(c)}
    BY <1>1, <1>2
  <1> QED
    BY <1>3, <1>4, DropStep DEF RefuseFirst

LEMMA BucketsStep ==
    ASSUME RateInv, CleanupBuckets, UNCHANGED <<now, run>>
    PROVE  RateInv'
  <1>1. \A b \in Buckets : rateLimitStore'[b] = Kept(b)
    BY DEF CleanupBuckets
  <1>2. \A b \in Buckets : Kept(b) \subseteq rateLimitStore[b]
    BY DEF Kept, InWindow
  <1>3. rateLimitStore' \in [Buckets -> SUBSET Stamp]
    BY <1>2 DEF RateInv, RateTypeOK, CleanupBuckets
  <1> QED
    BY <1>1, <1>3, DropStep DEF CleanupBuckets

LEMMA TickStep ==
    ASSUME RateInv, Advance, UNCHANGED <<rateVars, run>>
    PROVE  RateInv'
  <1>1. now' = now + 1 /\ now' \in Times /\ now \in Int
    BY ClockAssumption DEF Advance, RateInv, Times
  <1>2. \A p \in passed : p.stamp.at \in Int
    BY Ints DEF RateInv, RateTypeOK, Passing, Stamp
  <1>3. PassedInStore'
    BY <1>1, <1>2, RateAssumption DEF RateInv, PassedInStore, rateVars
  <1> QED
    BY <1>1, <1>3
    DEF RateInv, RateTypeOK, StoresFinite, RateRespected, PassedWithin, rateVars

LEMMA NewProcess ==
    ASSUME RateInv, UNCHANGED <<now, passed, requests>>, run' = run + 1,
           rateLimitStore' = [b \in Buckets |-> {}]
    PROVE  RateInv'
  <1>1. run \in Nat /\ \A p \in passed : p.run \in Nat /\ p.run <= run
    BY DEF RateInv, RateTypeOK, PassedInStore, Passing
  <1>2. RateTypeOK'
    BY <1>1 DEF RateInv, RateTypeOK
  <1>3. PassedInStore'
    BY <1>1 DEF PassedInStore
  <1>4. StoresFinite'
    BY FS_EmptySet DEF StoresFinite
  <1>5. RateRespected'
    <2> SUFFICES ASSUME NEW b \in Buckets, NEW r \in 0..(run + 1), NEW t \in Times
                 PROVE  Cardinality(PassedWithin(b, r, t)) <= LimitOf[b]
      BY DEF RateRespected, PassedWithin
    <2>1. CASE r = run + 1
      <3>1. PassedWithin(b, r, t) = {}
        BY <1>1, <2>1 DEF PassedWithin
      <3> QED
        BY <3>1, FS_EmptySet, RateAssumption
    <2>2. CASE r # run + 1
      BY <1>1, <2>2 DEF RateInv, RateRespected
    <2> QED
      BY <2>1, <2>2
  <1> QED
    BY <1>2, <1>3, <1>4, <1>5 DEF RateInv

LEMMA InitRates == Init => RateInv
  <1> SUFFICES ASSUME Init PROVE RateInv
    OBVIOUS
  <1>1. /\ now = 0 /\ run = 0 /\ requests = 0 /\ passed = {}
        /\ rateLimitStore = [b \in Buckets |-> {}]
    BY DEF Init, ClockInit, RateInit
  <1>2. now \in Times
    BY <1>1, ClockAssumption DEF Times
  <1>3. RateTypeOK /\ PassedInStore
    BY <1>1, RateAssumption DEF RateTypeOK, PassedInStore
  <1>4. StoresFinite
    BY <1>1, FS_EmptySet DEF StoresFinite
  <1>5. RateRespected
    <2>1. \A b \in Buckets, r \in 0..run, t \in Times : PassedWithin(b, r, t) = {}
      BY <1>1 DEF PassedWithin
    <2> QED
      BY <2>1, FS_EmptySet, RateAssumption DEF RateRespected
  <1> QED
    BY <1>2, <1>3, <1>4, <1>5 DEF RateInv

LEMMA NextRates == RateInv /\ [Next]_admissionVars => RateInv'
  <1> SUFFICES ASSUME RateInv, [Next]_admissionVars PROVE RateInv'
    OBVIOUS
  <1>1. CASE UNCHANGED admissionVars
    BY <1>1, RateKept DEF admissionVars
  <1>2. ASSUME NEW m \in Message, PipelineRequest(m) PROVE RateInv'
    BY <1>2, RateKept DEF PipelineRequest
  <1>3. ASSUME NEW m \in Message, NEW b \in Buckets, ActionRequest(m, b) PROVE RateInv'
    BY <1>3, LimiterStep, RefuseStep DEF ActionRequest
  <1>4. ASSUME NEW b \in Buckets, ApiRequest(b) PROVE RateInv'
    BY <1>4, LimiterStep, RefuseStep DEF ApiRequest
  <1>5. CASE KeyHandlers
    BY <1>5, RateKept DEF KeyHandlers
  <1>6. CASE Timers
    BY <1>6, TickStep, BucketsStep, RateKept DEF Timers
  <1>7. CASE Restart
    BY <1>7, NewProcess DEF Restart
  <1> QED
    BY <1>1, <1>2, <1>3, <1>4, <1>5, <1>6, <1>7 DEF Next

\* In every window one process lets no more than its limit into a bucket, although the
\* limiter is mounted twice and cleans up on its own timer.
THEOREM LimitKept == Spec => []RateRespected
  <1>1. RateInv => RateRespected
    BY DEF RateInv
  <1> QED
    BY <1>1, InitRates, NextRates, PTL DEF Spec

(***************************************************************************)
(* The API keys.                                                           *)
(***************************************************************************)
\* Every call under way, or orphaned, is about a key that was created.
CallsKeyed ==
    \A c \in KeyCalls :
        keyCalls[c].stage # "idle" => keyCalls[c].key \in created

\* What an INSERT still under way is about: no one has the key, and no other call is
\* about it.
CreatesFresh ==
    \A c \in KeyCalls :
        LET k == keyCalls[c].key IN
        keyCalls[c].op = "create" /\ keyCalls[c].stage # "idle" =>
            /\ keyCache[k] = "absent"
            /\ k \notin refusing \cup revoked
            /\ keyCalls[c].stage # "executed" => rows[k] = "absent"
            /\ \A d \in KeyCalls \ {c} :
                 keyCalls[d].stage # "idle" => keyCalls[d].key # k

\* The UPDATE of a revocation that was executed shows in the row.
RevocationsStored ==
    \A c \in KeyCalls :
        InStage(c, "revoke", "executed") => rows[keyCalls[c].key] # "active"

\* No key is in the table, the cache or a list before its id was made.
OnlyCreated ==
    \A k \in Keys \ created :
        rows[k] = "absent" /\ keyCache[k] = "absent" /\ k \notin refusing \cup revoked

KeyInv ==
    /\ KeyTypeOK
    /\ CallsKeyed
    /\ CreatesFresh
    /\ RevocationsStored
    /\ OnlyCreated
    /\ RevokedForGood
    /\ RefusedSinceAsked

LEMMA KeysKept ==
    ASSUME KeyInv, UNCHANGED keyVars
    PROVE  KeyInv'
  BY DEF KeyInv, KeyTypeOK, CallsKeyed, CreatesFresh, RevocationsStored, OnlyCreated,
         RevokedForGood, RefusedSinceAsked, ValidateApiKey, InStage, keyVars

LEMMA InitKeys == Init => KeyInv
  <1> SUFFICES ASSUME KeyInit PROVE KeyInv
    BY DEF Init
  <1>1. IdleKeyCall \in KeyCall /\ IdleKeyCall.stage = "idle"
    BY DEF IdleKeyCall, KeyCall, Stages
  <1>2. \A c \in KeyCalls : keyCalls[c] = IdleKeyCall
    BY DEF KeyInit
  <1>3. KeyTypeOK
    BY <1>1 DEF KeyInit, KeyTypeOK, KeyStatus
  <1>4. CallsKeyed /\ CreatesFresh /\ RevocationsStored
    BY <1>1, <1>2 DEF CallsKeyed, CreatesFresh, RevocationsStored, InStage
  <1>5. OnlyCreated /\ RevokedForGood /\ RefusedSinceAsked
    BY DEF KeyInit, OnlyCreated, RevokedForGood, RefusedSinceAsked
  <1> QED
    BY <1>3, <1>4, <1>5 DEF KeyInv

LEMMA CreateStep ==
    ASSUME KeyInv, NEW c \in KeyCalls, NEW k \in Keys, CreateApiKey(c, k)
    PROVE  KeyInv'
  <1>1. /\ keyCalls[c].stage = "idle" /\ k \notin created
        /\ created' = created \cup {k}
        /\ keyCalls' = [keyCalls EXCEPT ![c] = Sent("create", k)]
        /\ UNCHANGED <<rows, keyCache, refusing, revoked>>
    BY DEF CreateApiKey
  <1>2. keyCalls \in [KeyCalls -> KeyCall] /\ created \subseteq Keys
    BY DEF KeyInv, KeyTypeOK
  <1>3. Sent("create", k) \in KeyCall
    BY DEF Sent, KeyCall, Stages
  <1>4. KeyTypeOK'
    BY <1>1, <1>2, <1>3 DEF KeyInv, KeyTypeOK
  <1>5. /\ keyCalls'[c].op = "create" /\ keyCalls'[c].key = k /\ keyCalls'[c].stage = "sent"
        /\ \A d \in KeyCalls \ {c} : keyCalls'[d] = keyCalls[d]
    BY <1>1, <1>2 DEF Sent
  <1>6. CallsKeyed'
    BY <1>1, <1>5 DEF KeyInv, CallsKeyed
  <1>7. \A d \in KeyCalls \ {c} : keyCalls[d].stage # "idle" => keyCalls[d].key # k
    BY <1>1 DEF KeyInv, CallsKeyed
  <1>8. rows[k] = "absent" /\ keyCache[k] = "absent" /\ k \notin refusing \cup revoked
    BY <1>1 DEF KeyInv, OnlyCreated
  <1>9. CreatesFresh'
    BY <1>1, <1>5, <1>7, <1>8 DEF KeyInv, CreatesFresh
  <1>10. RevocationsStored'
    BY <1>1, <1>5 DEF KeyInv, RevocationsStored, InStage
  <1> QED
    BY <1>1, <1>4, <1>6, <1>9, <1>10
    DEF KeyInv, OnlyCreated, RevokedForGood, RefusedSinceAsked, ValidateApiKey

\* The call of a created key is over: the key is cached, and no revocation of it can
\* have been asked for, since only a cached key can be revoked.
LEMMA CreatedStep ==
    ASSUME KeyInv, NEW c \in KeyCalls, CreateDone(c)
    PROVE  KeyInv'
  <1> DEFINE k == keyCalls[c].key
  <1>1. /\ keyCalls[c].op = "create" /\ keyCalls[c].stage = "executed"
        /\ keyCache' = [keyCache EXCEPT ![k] = "active"]
        /\ keyCalls' = [keyCalls EXCEPT ![c] = IdleKeyCall]
        /\ UNCHANGED <<rows, created, refusing, revoked>>
    BY DEF CreateDone, InStage
  <1>2. /\ keyCalls \in [KeyCalls -> KeyCall] /\ created \subseteq Keys
        /\ keyCache \in [Keys -> KeyStatus]
    BY DEF KeyInv, KeyTypeOK
  <1>3. /\ k \in created /\ k \in Keys /\ k \notin refusing \cup revoked
        /\ \A d \in KeyCalls \ {c} : keyCalls[d].stage # "idle" => keyCalls[d].key # k
    BY <1>1, <1>2 DEF KeyInv, CallsKeyed, CreatesFresh
  <1>4. IdleKeyCall \in KeyCall /\ IdleKeyCall.stage = "idle" /\ "active" \in KeyStatus
    BY DEF IdleKeyCall, KeyCall, Stages, KeyStatus
  <1>5. KeyTypeOK'
    BY <1>1, <1>2, <1>3, <1>4 DEF KeyInv, KeyTypeOK
  <1>6. /\ keyCalls'[c].stage = "idle"
        /\ \A d \in KeyCalls \ {c} : keyCalls'[d] = keyCalls[d]
        /\ \A j \in Keys \ {k} : keyCache'[j] = keyCache[j]
    BY <1>1, <1>2, <1>4
  <1> HIDE DEF k
  <1>7. CallsKeyed'
    BY <1>1, <1>6 DEF KeyInv, CallsKeyed
  <1>8. \A d \in KeyCalls \ {c} : keyCalls[d].stage # "idle" => keyCalls[d].key \in Keys \ {k}
    BY <1>2, <1>3 DEF KeyInv, CallsKeyed
  <1>9. CreatesFresh'
    BY <1>1, <1>6, <1>8 DEF KeyInv, CreatesFresh
  <1>10. RevocationsStored'
    BY <1>1, <1>6 DEF KeyInv, RevocationsStored, InStage
  <1>11. OnlyCreated'
    BY <1>1, <1>3, <1>6 DEF KeyInv, OnlyCreated
  <1>12. RevokedForGood' /\ RefusedSinceAsked'
    <2>1. \A j \in refusing \cup revoked : j \in Keys \ {k}
      BY <1>3 DEF KeyInv, KeyTypeOK
    <2> QED
      BY <1>1, <1>6, <2>1 DEF KeyInv, RevokedForGood, RefusedSinceAsked, ValidateApiKey
  <1> QED
    BY <1>5, <1>7, <1>9, <1>10, <1>11, <1>12 DEF KeyInv

LEMMA RevokeStep ==
    ASSUME KeyInv, NEW c \in KeyCalls, NEW k \in Keys, RevokeApiKey(c, k)
    PROVE  KeyInv'
  <1>1. /\ keyCalls[c].stage = "idle" /\ keyCache[k] # "absent"
        /\ keyCache' = [keyCache EXCEPT ![k] = "revoked"]
        /\ refusing' = refusing \cup {k}
        /\ keyCalls' = [keyCalls EXCEPT ![c] = Sent("revoke", k)]
        /\ UNCHANGED <<rows, created, revoked>>
    BY DEF RevokeApiKey
  <1>2. /\ keyCalls \in [KeyCalls -> KeyCall] /\ created \subseteq Keys
        /\ keyCache \in [Keys -> KeyStatus]
    BY DEF KeyInv, KeyTypeOK
  <1>3. k \in created
    BY <1>1 DEF KeyInv, OnlyCreated
  <1>4. Sent("revoke", k) \in KeyCall /\ "revoked" \in KeyStatus
    BY DEF Sent, KeyCall, Stages, KeyStatus
  <1>5. KeyTypeOK'
    BY <1>1, <1>2, <1>4 DEF KeyInv, KeyTypeOK
  <1>6. /\ keyCalls'[c].op = "revoke" /\ keyCalls'[c].key = k /\ keyCalls'[c].stage = "sent"
        /\ \A d \in KeyCalls \ {c} : keyCalls'[d] = keyCalls[d]
        /\ keyCache'[k] = "revoked"
        /\ \A j \in Keys \ {k} : keyCache'[j] = keyCache[j]
    BY <1>1, <1>2 DEF Sent
  <1>7. CallsKeyed'
    BY <1>1, <1>3, <1>6 DEF KeyInv, CallsKeyed
  <1>8. \A d \in KeyCalls \ {c} :
           keyCalls[d].op = "create" /\ keyCalls[d].stage # "idle"
               => keyCalls[d].key # k /\ keyCalls[d].key \in Keys
    BY <1>1, <1>2 DEF KeyInv, CreatesFresh, CallsKeyed
  <1>9. CreatesFresh'
    BY <1>1, <1>6, <1>8 DEF KeyInv, CreatesFresh
  <1>10. RevocationsStored'
    BY <1>1, <1>6 DEF KeyInv, RevocationsStored, InStage
  <1>11. OnlyCreated'
    BY <1>1, <1>3, <1>6 DEF KeyInv, OnlyCreated
  <1>12. RevokedForGood' /\ RefusedSinceAsked'
    <2>1. \A j \in refusing \cup revoked : j \in Keys
      BY DEF KeyInv, KeyTypeOK
    <2> QED
      BY <1>1, <1>6, <2>1 DEF KeyInv, RevokedForGood, RefusedSinceAsked, ValidateApiKey
  <1> QED
    BY <1>5, <1>7, <1>9, <1>10, <1>11, <1>12 DEF KeyInv

LEMMA RevokedStep ==
    ASSUME KeyInv, NEW c \in KeyCalls, RevokeDone(c)
    PROVE  KeyInv'
  <1> DEFINE k == keyCalls[c].key
  <1>1. /\ keyCalls[c].op = "revoke" /\ keyCalls[c].stage = "executed"
        /\ keyCache' = [keyCache EXCEPT ![k] = "absent"]
        /\ revoked' = revoked \cup {k}
        /\ keyCalls' = [keyCalls EXCEPT ![c] = IdleKeyCall]
        /\ UNCHANGED <<rows, created, refusing>>
    BY DEF RevokeDone, InStage
  <1>2. /\ keyCalls \in [KeyCalls -> KeyCall] /\ created \subseteq Keys
        /\ keyCache \in [Keys -> KeyStatus] /\ revoked \subseteq Keys /\ refusing \subseteq Keys
    BY DEF KeyInv, KeyTypeOK
  <1>3. k \in created /\ k \in Keys /\ rows[k] # "active"
    BY <1>1, <1>2 DEF KeyInv, CallsKeyed, RevocationsStored, InStage
  <1>4. IdleKeyCall \in KeyCall /\ IdleKeyCall.stage = "idle" /\ "absent" \in KeyStatus
    BY DEF IdleKeyCall, KeyCall, Stages, KeyStatus
  <1>5. KeyTypeOK'
    BY <1>1, <1>2, <1>3, <1>4 DEF KeyInv, KeyTypeOK
  <1>6. /\ keyCalls'[c].stage = "idle"
        /\ \A d \in KeyCalls \ {c} : keyCalls'[d] = keyCalls[d]
        /\ keyCache'[k] = "absent"
        /\ \A j \in Keys \ {k} : keyCache'[j] = keyCache[j]
    BY <1>1, <1>2, <1>3, <1>4
  <1>7. \A d \in KeyCalls \ {c} :
           keyCalls[d].op = "create" /\ keyCalls[d].stage # "idle" =>
               keyCalls[d].key # k /\ keyCalls[d].key \in Keys
    BY <1>1, <1>2 DEF KeyInv, CreatesFresh, CallsKeyed
  <1> HIDE DEF k
  <1>8. CallsKeyed'
    BY <1>1, <1>6 DEF KeyInv, CallsKeyed
  <1>9. CreatesFresh'
    BY <1>1, <1>6, <1>7 DEF KeyInv, CreatesFresh
  <1>10. RevocationsStored'
    BY <1>1, <1>6 DEF KeyInv, RevocationsStored, InStage
  <1>11. OnlyCreated'
    BY <1>1, <1>3, <1>6 DEF KeyInv, OnlyCreated
  <1>12. RevokedForGood' /\ RefusedSinceAsked'
    BY <1>1, <1>2, <1>3, <1>6 DEF KeyInv, RevokedForGood, RefusedSinceAsked, ValidateApiKey
  <1> QED
    BY <1>5, <1>8, <1>9, <1>10, <1>11, <1>12 DEF KeyInv

LEMMA ExecuteKeyStep ==
    ASSUME KeyInv, NEW c \in KeyCalls, ExecuteStatement(c)
    PROVE  KeyInv'
  <1> DEFINE call == keyCalls[c]
             k == call.key
             new == IF call.stage = "sent" THEN [call EXCEPT !.stage = "executed"]
                    ELSE IdleKeyCall
  <1>1. /\ call.stage \in {"sent", "orphaned"}
        /\ rows' = [rows EXCEPT ![k] = RowAfter(c)]
        /\ UNCHANGED <<keyCache, created, refusing, revoked>>
    BY DEF ExecuteStatement
  <1>2. /\ keyCalls \in [KeyCalls -> KeyCall] /\ created \subseteq Keys
        /\ rows \in [Keys -> KeyStatus] /\ revoked \subseteq Keys /\ refusing \subseteq Keys
    BY DEF KeyInv, KeyTypeOK
  <1>3. k \in created /\ k \in Keys /\ call \in KeyCall /\ call.op \in {"create", "revoke"}
    BY <1>1, <1>2 DEF KeyInv, CallsKeyed, KeyCall
  <1>4. keyCalls' = [keyCalls EXCEPT ![c] = new]
    BY <1>2 DEF ExecuteStatement
  <1>5. new \in KeyCall
    BY <1>3 DEF KeyCall, Stages, IdleKeyCall
  <1>6. /\ new.stage = "executed" \/ new.stage = "idle"
        /\ new.stage = "executed" => new.key = k /\ new.op = call.op
    BY <1>1, <1>3 DEF KeyCall, IdleKeyCall
  <1>7. RowAfter(c) \in KeyStatus
    BY DEF RowAfter, KeyStatus
  <1>8. KeyTypeOK'
    BY <1>1, <1>2, <1>4, <1>5, <1>7 DEF KeyInv, KeyTypeOK
  <1>9. /\ keyCalls'[c] = new
        /\ \A d \in KeyCalls \ {c} : keyCalls'[d] = keyCalls[d]
        /\ rows'[k] = RowAfter(c)
        /\ \A j \in Keys \ {k} : rows'[j] = rows[j]
    BY <1>1, <1>2, <1>3, <1>4
  <1>10. call.op = "revoke" => RowAfter(c) # "active" /\ (rows[k] = "absent" => RowAfter(c) = "absent")
    BY DEF RowAfter
  <1>11. \A d \in KeyCalls \ {c} :
           keyCalls[d].op = "create" /\ keyCalls[d].stage # "idle" =>
               keyCalls[d].key # k /\ keyCalls[d].key \in Keys
    BY <1>1, <1>2 DEF KeyInv, CreatesFresh, CallsKeyed
  <1>12. call.op = "create" =>
           /\ keyCache[k] = "absent" /\ k \notin refusing \cup revoked
           /\ \A d \in KeyCalls \ {c} : keyCalls[d].stage # "idle" => keyCalls[d].key # k
    BY <1>1 DEF KeyInv, CreatesFresh
  <1>13. \A d \in KeyCalls : keyCalls[d].stage # "idle" => keyCalls[d].key \in Keys
    BY <1>2 DEF KeyInv, CallsKeyed
  <1> HIDE DEF new, k
  <1>14. CallsKeyed'
    BY <1>1, <1>3, <1>6, <1>9 DEF KeyInv, CallsKeyed
  <1>15. CreatesFresh'
    <2> SUFFICES ASSUME NEW d \in KeyCalls, keyCalls'[d].op = "create",
                        keyCalls'[d].stage # "idle"
                 PROVE  /\ keyCache[keyCalls'[d].key] = "absent"
                        /\ keyCalls'[d].key \notin refusing \cup revoked
                        /\ keyCalls'[d].stage # "executed" => rows'[keyCalls'[d].key] = "absent"
                        /\ \A e \in KeyCalls \ {d} :
                             keyCalls'[e].stage # "idle" => keyCalls'[e].key # keyCalls'[d].key
      BY <1>1 DEF CreatesFresh
    <2>1. CASE d = c
      BY <1>1, <1>6, <1>9, <1>12, <2>1
    <2>2. CASE d # c
      <3>1. /\ keyCalls[d].key # k /\ keyCalls[d].key \in Keys /\ keyCalls'[d] = keyCalls[d]
        BY <1>9, <1>11, <2>2
      <3>2. /\ keyCache[keyCalls[d].key] = "absent"
            /\ keyCalls[d].key \notin refusing \cup revoked
            /\ keyCalls[d].stage # "executed" => rows[keyCalls[d].key] = "absent"
            /\ \A e \in KeyCalls \ {d} :
                 keyCalls[e].stage # "idle" => keyCalls[e].key # keyCalls[d].key
        BY <3>1 DEF KeyInv, CreatesFresh
      <3> QED
        BY <1>6, <1>9, <3>1, <3>2
    <2> QED
      BY <2>1, <2>2
  <1>16. RevocationsStored'
    <2> SUFFICES ASSUME NEW d \in KeyCalls, keyCalls'[d].op = "revoke",
                        keyCalls'[d].stage = "executed"
                 PROVE  rows'[keyCalls'[d].key] # "active"
      BY DEF RevocationsStored, InStage
    <2>1. CASE d = c
      BY <1>6, <1>9, <1>10, <2>1
    <2>2. CASE d # c
      <3>1. keyCalls'[d] = keyCalls[d] /\ rows[keyCalls[d].key] # "active"
        BY <1>9, <2>2 DEF KeyInv, RevocationsStored, InStage
      <3>2. keyCalls[d].key = k => call.op = "revoke"
        BY <1>3, <1>9, <1>12, <2>2
      <3> QED
        BY <1>9, <1>10, <1>13, <3>1, <3>2
    <2> QED
      BY <2>1, <2>2
  <1>17. OnlyCreated'
    BY <1>1, <1>3, <1>9 DEF KeyInv, OnlyCreated
  <1>18. RevokedForGood' /\ RefusedSinceAsked'
    BY <1>1, <1>2, <1>3, <1>9, <1>10, <1>12
    DEF KeyInv, RevokedForGood, RefusedSinceAsked, ValidateApiKey
  <1> QED
    BY <1>8, <1>14, <1>15, <1>16, <1>17, <1>18 DEF KeyInv

\* A call that is over or orphaned leaves the rest as it is.
LEMMA FailKeyStep ==
    ASSUME KeyInv, NEW c \in KeyCalls, StatementFails(c)
    PROVE  KeyInv'
  <1>1. keyCalls \in [KeyCalls -> KeyCall]
    BY DEF KeyInv, KeyTypeOK
  <1>2. UNCHANGED <<rows, keyCache, created, refusing, revoked>>
    BY DEF StatementFails
  <1>3. PICK new \in {IdleKeyCall, [keyCalls[c] EXCEPT !.stage = "orphaned"]} :
          /\ keyCalls' = [keyCalls EXCEPT ![c] = new]
          /\ new = IdleKeyCall \/ keyCalls[c].stage = "sent"
    BY <1>1 DEF StatementFails
  <1>4. new \in KeyCall
    BY <1>1, <1>3 DEF KeyCall, IdleKeyCall, Stages
  <1>5. /\ new.stage = "idle" \/ new.stage = "orphaned"
        /\ new.stage = "orphaned" =>
             /\ new.key = keyCalls[c].key /\ new.op = keyCalls[c].op
             /\ keyCalls[c].stage = "sent"
    BY <1>1, <1>3 DEF KeyCall, IdleKeyCall
  <1>6. keyCalls'[c] = new /\ \A d \in KeyCalls \ {c} : keyCalls'[d] = keyCalls[d]
    BY <1>1, <1>3
  <1>7. KeyTypeOK'
    BY <1>1, <1>2, <1>3, <1>4 DEF KeyInv, KeyTypeOK
  <1>8. CallsKeyed'
    BY <1>2, <1>5, <1>6 DEF KeyInv, CallsKeyed
  <1>9. CreatesFresh'
    BY <1>2, <1>5, <1>6 DEF KeyInv, CreatesFresh
  <1>10. RevocationsStored'
    BY <1>2, <1>5, <1>6 DEF KeyInv, RevocationsStored, InStage
  <1> QED
    BY <1>2, <1>7, <1>8, <1>9, <1>10
    DEF KeyInv, OnlyCreated, RevokedForGood, RefusedSinceAsked, ValidateApiKey

LEMMA LoadKeysStep ==
    ASSUME KeyInv, LoadKeys
    PROVE  KeyInv'
  <1> DEFINE lost(c) == [keyCalls[c] EXCEPT !.stage = "orphaned"]
             kept(c) == keyCalls[c].stage \in {"sent", "orphaned"}
  <1>1. /\ keyCache' = [k \in Keys |-> IF rows[k] = "active" THEN "active" ELSE "absent"]
        /\ keyCalls' = [c \in KeyCalls |-> IF kept(c) THEN lost(c) ELSE IdleKeyCall]
        /\ refusing' = {}
        /\ UNCHANGED <<rows, created, revoked>>
    BY DEF LoadKeys
  <1>2. keyCalls \in [KeyCalls -> KeyCall] /\ created \subseteq Keys /\ revoked \subseteq Keys
    BY DEF KeyInv, KeyTypeOK
  <1>3. IdleKeyCall \in KeyCall /\ IdleKeyCall.stage = "idle"
    BY DEF IdleKeyCall, KeyCall, Stages
  <1>4. \A c \in KeyCalls :
          /\ lost(c) \in KeyCall /\ lost(c).stage = "orphaned"
          /\ lost(c).key = keyCalls[c].key /\ lost(c).op = keyCalls[c].op
    BY <1>2 DEF KeyCall, Stages
  <1>5. KeyTypeOK'
    BY <1>1, <1>3, <1>4 DEF KeyInv, KeyTypeOK, KeyStatus
  <1>6. \A c \in KeyCalls :
          \/ keyCalls'[c].stage = "idle"
          \/ /\ kept(c) /\ keyCalls'[c].stage = "orphaned"
             /\ keyCalls'[c].key = keyCalls[c].key /\ keyCalls'[c].op = keyCalls[c].op
    BY <1>1, <1>3, <1>4
  <1> HIDE DEF lost
  <1>7. CallsKeyed'
    BY <1>1, <1>6 DEF KeyInv, CallsKeyed
  <1>8. CreatesFresh'
    <2> SUFFICES ASSUME NEW c \in KeyCalls, keyCalls'[c].op = "create",
                        keyCalls'[c].stage # "idle"
                 PROVE  /\ keyCache'[keyCalls'[c].key] = "absent"
                        /\ keyCalls'[c].key \notin revoked
                        /\ rows[keyCalls'[c].key] = "absent"
                        /\ \A d \in KeyCalls \ {c} :
                             keyCalls'[d].stage # "idle" => keyCalls'[d].key # keyCalls'[c].key
      BY <1>1 DEF CreatesFresh
    <2>1. /\ kept(c) /\ keyCalls'[c].key = keyCalls[c].key /\ keyCalls[c].op = "create"
          /\ keyCalls[c].stage # "idle" /\ keyCalls[c].stage # "executed"
      BY <1>6
    <2>2. /\ keyCalls[c].key \notin revoked /\ rows[keyCalls[c].key] = "absent"
          /\ keyCalls[c].key \in Keys
          /\ \A d \in KeyCalls \ {c} :
               keyCalls[d].stage # "idle" => keyCalls[d].key # keyCalls[c].key
      BY <1>2, <2>1 DEF KeyInv, CreatesFresh, CallsKeyed
    <2>3. keyCache'[keyCalls[c].key] = "absent"
      BY <1>1, <2>2
    <2> QED
      BY <1>6, <2>1, <2>2, <2>3
  <1>9. RevocationsStored'
    BY <1>6 DEF RevocationsStored, InStage
  <1>10. OnlyCreated'
    BY <1>1 DEF KeyInv, OnlyCreated
  <1>11. RevokedForGood' /\ RefusedSinceAsked'
    BY <1>1, <1>2 DEF KeyInv, RevokedForGood, RefusedSinceAsked, ValidateApiKey
  <1> QED
    BY <1>5, <1>7, <1>8, <1>9, <1>10, <1>11 DEF KeyInv

LEMMA NextKeys == KeyInv /\ [Next]_admissionVars => KeyInv'
  <1> SUFFICES ASSUME KeyInv, [Next]_admissionVars PROVE KeyInv'
    OBVIOUS
  <1>1. CASE UNCHANGED admissionVars
    BY <1>1, KeysKept DEF admissionVars
  <1>2. ASSUME NEW m \in Message, PipelineRequest(m) PROVE KeyInv'
    BY <1>2, KeysKept DEF PipelineRequest
  <1>3. ASSUME NEW m \in Message, NEW b \in Buckets, ActionRequest(m, b) PROVE KeyInv'
    BY <1>3, KeysKept DEF ActionRequest
  <1>4. ASSUME NEW b \in Buckets, ApiRequest(b) PROVE KeyInv'
    BY <1>4, KeysKept DEF ApiRequest
  <1>5. CASE KeyHandlers
    BY <1>5, CreateStep, CreatedStep, RevokeStep, RevokedStep, ExecuteKeyStep, FailKeyStep
    DEF KeyHandlers, KeyStep
  <1>6. CASE Timers
    BY <1>6, KeysKept DEF Timers
  <1>7. CASE Restart
    BY <1>7, LoadKeysStep DEF Restart
  <1> QED
    BY <1>1, <1>2, <1>3, <1>4, <1>5, <1>6, <1>7 DEF Next

\* A revocation answered with success is for good, restarts, lost answers and late
\* statements included (revokeApiKey).
THEOREM RevocationIsFinal == Spec => []RevokedForGood
  <1>1. KeyInv => RevokedForGood
    BY DEF KeyInv
  <1> QED
    BY <1>1, InitKeys, NextKeys, PTL DEF Spec

\* A key is refused from the moment its revocation was asked for, in that process.
THEOREM RefusedAtOnce == Spec => []RefusedSinceAsked
  <1>1. KeyInv => RefusedSinceAsked
    BY DEF KeyInv
  <1> QED
    BY <1>1, InitKeys, NextKeys, PTL DEF Spec

\* The variables of the admission checks stay in their types.
THEOREM AdmissionTypeCorrect == Spec => []TypeOK
  <1>1. NonceInv /\ RateInv /\ KeyInv => TypeOK
    BY DEF NonceInv, RateInv, KeyInv, TypeOK
  <1> QED
    BY <1>1, InitNonces, InitRates, InitKeys, NextNonces, NextRates, NextKeys, PTL DEF Spec
=============================================================================
