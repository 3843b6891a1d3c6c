---------------------------- MODULE ReplicaProofs ----------------------------
(***************************************************************************)
(* Proofs about what a replica shares and what it keeps: for any number of *)
(* requests and replicas, any limits and any ages.                         *)
(*                                                                         *)
(* The quota (RefreshQuota): what was allowed has been counted, what was   *)
(* refused had to be, windows do not overlap and no hour counts more than  *)
(* two of them do, for windows longer than three calls to the store.       *)
(*                                                                         *)
(* The cache (SnapshotCache): whatever was cached, Cosmos DB has prices as *)
(* late, so that a usable snapshot is never lost on the way; and for AWS   *)
(* what is older than Cosmos DB's was read too long ago to be served.      *)
(***************************************************************************)
EXTENDS MCReplica, FiniteSetTheorems, TLAPS

Counts == [op : Operations, at : Times, window : Times]

InWindow(w) == {c \in counted : c.window = w}

-----------------------------------------------------------------------------
(* The refresh quota: the invariant.                                       *)

Types ==
  /\ clock \in Times
  /\ quota \in Quota \cup {NoQuota}
  /\ writes \in Nat
  /\ pc \in [Operations -> {"read", "decide", "write", "allowed", "limited", "unavailable"}]
  /\ limit \in [Operations -> Limits]
  /\ attempt \in [Operations -> 0..Attempts]
  /\ \A o \in Operations : pc[o] \in {"read", "decide", "write"} => attempt[o] < Attempts
  /\ seen \in [Operations -> Quota \cup {NoQuota}]
  /\ asOf \in [Operations -> Times]
  /\ counted \subseteq Counts
  /\ IsFiniteSet(counted)

\* a document's tokens fit its limit, which is that of some request
Sound(q) ==
  /\ IsFiniteSet(q.tokens)
  /\ Cardinality(q.tokens) \in 1..q.limit
  /\ q.ttl >= 1
  /\ \E o \in Operations : q.limit = limit[o]

\* the operations of a document have been counted in its window
Charged(q) == \A t \in q.tokens : \E c \in counted : c.op = t /\ c.window = q.started

\* what was counted before window w began
Before(c, w) == c.window + Window <= w /\ c.at <= w

\* the document is the last window's, and it holds every operation of it
Latest(q) ==
  /\ \A c \in counted :
       /\ c.at <= q.modifiedAt
       /\ Before(c, q.started) \/ (c.window = q.started /\ c.op \in q.tokens)
  /\ Cardinality(InWindow(q.started)) = Cardinality(q.tokens)

\* the document lives as long as its window
LivesOn(q) ==
  /\ q.started <= q.modifiedAt /\ q.modifiedAt <= clock
  /\ q.started + Window <= q.modifiedAt + q.ttl

DocumentInv ==
  quota # NoQuota =>
    Sound(quota) /\ Charged(quota) /\ Latest(quota) /\ LivesOn(quota) /\ quota.etag <= writes

\* without a document every window is over
NoWindowOpen == quota = NoQuota => \A c \in counted : c.window + Window <= clock

WindowsFit ==
  \A w \in Times :
    InWindow(w) # {} => \E o \in Operations : Cardinality(InWindow(w)) <= limit[o]

CountInv ==
  /\ \A c \in counted : c.window <= c.at /\ c.at <= clock
  /\ NoWindowOpen
  /\ WindowsApart
  /\ WindowsFit

\* what a request has read is a document of the past, identified by its etag
SeenInv(o) ==
  seen[o] # NoQuota =>
    /\ Sound(seen[o]) /\ Charged(seen[o])
    /\ seen[o].started <= asOf[o] /\ seen[o].modifiedAt <= asOf[o]
    /\ seen[o].etag <= writes
    /\ quota # NoQuota /\ quota.etag = seen[o].etag => quota = seen[o]

\* a write that adds to a window was decided on a document that had room
RoomWasLeft(o) ==
  pc[o] = "write" /\ seen[o] # NoQuota /\ ~Expired(seen[o], asOf[o]) =>
    o \notin seen[o].tokens /\ ~Full(seen[o], o)

\* At instant r there was no document: what had been counted was of windows that
\* were over, and what is counted since is of windows computed not long before.
NothingAt(r) ==
  /\ \A c \in counted : Before(c, r) \/ r <= c.window + StoreTimeout
  /\ quota # NoQuota => r <= quota.started + StoreTimeout

ReadNothing(o) ==
  seen[o] = NoQuota =>
    /\ pc[o] = "decide" => NothingAt(asOf[o])
    /\ pc[o] = "write" =>
         \E r \in Times : r <= asOf[o] /\ asOf[o] <= r + StoreTimeout /\ NothingAt(r)

\* the operations of the document that refused were counted within the hour
RefusedInv(o) ==
  pc[o] = "limited" =>
    /\ seen[o] # NoQuota /\ Full(seen[o], o)
    /\ \A t \in seen[o].tokens :
         \E c \in counted : c.op = t /\ asOf[o] - Window < c.at /\ c.at <= asOf[o]

RequestInv(o) ==
  /\ asOf[o] <= clock
  /\ SeenInv(o)
  /\ RoomWasLeft(o)
  /\ ReadNothing(o)
  /\ pc[o] = "allowed" => \E c \in counted : c.op = o
  /\ RefusedInv(o)

QuotaInv ==
  /\ Types
  /\ DocumentInv
  /\ CountInv
  /\ \A o \in Operations : RequestInv(o)

-----------------------------------------------------------------------------
(* Lemmas about the quota.                                                 *)

LEMMA Constants ==
  /\ Window \in Nat \ {0} /\ Second \in Nat \ {0} /\ StoreTimeout \in Nat
  /\ 3 * StoreTimeout < Window
  /\ Attempts \in Nat \ {0}
  /\ Limits \subseteq Nat \ {0}
  /\ NoQuota \notin Quota
BY QuotaAssumption

\* The time to live lasts to the end of the window: the seconds are rounded up.
LEMMA RemainingLasts ==
  ASSUME NEW q \in Quota, NEW t \in Times, ~Expired(q, t)
  PROVE  /\ Remaining(q, t) \in Nat /\ Remaining(q, t) >= 1
         /\ Remaining(q, t) = Window \/ ExpiresAt(q) <= t + Remaining(q, t)
<1> DEFINE left == ExpiresAt(q) - t
<1> DEFINE seconds == (left + Second - 1) \div Second
<1>1. left \in Nat /\ left >= 1 /\ ExpiresAt(q) \in Nat /\ t \in Nat
  BY Constants DEF Expired, ExpiresAt, Quota, Times
<1>2. seconds \in Nat /\ seconds * Second \in Nat /\ seconds * Second >= left
  <2> HIDE DEF left
  <2>1. left + Second - 1 \in Nat
    BY <1>1, Constants
  <2>2. (left + Second - 1) % Second \in 0..(Second - 1)
    BY <2>1, Constants
  <2>3. left + Second - 1 = seconds * Second + ((left + Second - 1) % Second)
    BY <2>1, Constants
  <2>4. seconds \in Nat
    BY <2>1, Constants
  <2>5. seconds * Second \in Nat
    BY <2>4, Constants
  <2> HIDE DEF seconds
  <2> QED
    BY <1>1, <2>2, <2>3, <2>4, <2>5, Constants
<1> HIDE DEF seconds
<1>3. Remaining(q, t) = Smaller(seconds * Second, Window)
  BY DEF Remaining, seconds
<1> QED
  BY <1>1, <1>2, <1>3, Constants DEF Smaller

\* A set of naturals that is not empty has a least element.
LEMMA LeastElement ==
  ASSUME NEW S \in SUBSET Nat, S # {}
  PROVE  \E i \in S : \A j \in S : i <= j
<1>1. PICK i \in S : \A j \in S : ~(<<j, i>> \in OpToRel(<, Nat))
  BY NatLessThanWellFounded, WFMin
<1>2. \A j \in S : ~(j < i)
  BY <1>1 DEF OpToRel
<1> QED
  BY <1>2

\* Finitely many naturals have a bound.
LEMMA Bounded ==
  ASSUME NEW n \in Nat, NEW f \in [1..n -> Nat]
  PROVE  \E b \in Nat : \A i \in 1..n : f[i] <= b
<1> DEFINE bounded(k) == \E b \in Nat : \A i \in 1..k : f[i] <= b
<1> DEFINE unbounded == {k \in 0..n : ~bounded(k)}
<1>1. bounded(0)
  <2>1. \A i \in 1..0 : f[i] <= 0
    OBVIOUS
  <2> QED
    BY <2>1
<1>2. ASSUME NEW k \in 1..n, bounded(k - 1)
      PROVE  bounded(k)
  <2>1. PICK b \in Nat : \A i \in 1..(k - 1) : f[i] <= b
    BY <1>2
  <2>2. f[k] \in Nat
    OBVIOUS
  <2>3. PICK c \in Nat : b <= c /\ f[k] <= c
    <3>1. CASE b <= f[k]
      BY <2>2, <3>1
    <3>2. CASE f[k] <= b
      BY <2>2, <3>2
    <3> QED
      BY <2>2, <3>1, <3>2
  <2>4. ASSUME NEW i \in 1..k
        PROVE  f[i] <= c
    <3>1. f[i] \in Nat
      OBVIOUS
    <3>2. i = k \/ i \in 1..(k - 1)
      OBVIOUS
    <3> QED
      BY <2>1, <2>3, <3>1, <3>2
  <2> QED
    BY <2>4
<1> HIDE DEF bounded
<1>3. unbounded = {}
  <2> SUFFICES ASSUME unbounded # {} PROVE FALSE
    OBVIOUS
  <2>1. PICK k \in unbounded : \A j \in unbounded : k <= j
    <3>1. unbounded \in SUBSET Nat
      OBVIOUS
    <3> HIDE DEF unbounded
    <3> QED
      BY <3>1, LeastElement
  <2>2. k \in 0..n /\ k # 0 /\ k \in 1..n /\ k - 1 \in 0..n
    BY <1>1
  <2>3. k - 1 \notin unbounded
    BY <2>1, <2>2
  <2> QED
    BY <1>2, <2>2, <2>3
<1>4. bounded(n)
  BY <1>3
<1> QED
  BY <1>4 DEF bounded

\* A finite set of naturals that is not empty has a greatest element.
LEMMA MaxIsGreatest ==
  ASSUME NEW S \in SUBSET Nat, IsFiniteSet(S), S # {}
  PROVE  Max(S) \in S /\ \A x \in S : x <= Max(S)
<1>1. PICK n \in Nat : ExistsSurjection(1..n, S)
  BY FS_NatSurjection
<1>2. PICK f \in Surjection(1..n, S) : TRUE
  BY <1>1 DEF ExistsSurjection
<1>3. f \in [1..n -> Nat] /\ \A x \in S : \E i \in 1..n : f[i] = x
  BY <1>2 DEF Surjection
<1>4. PICK b \in Nat : \A i \in 1..n : f[i] <= b
  BY <1>3, Bounded
<1> DEFINE bounds == {d \in Nat : \A x \in S : x <= d}
<1>5. bounds \in SUBSET Nat /\ bounds # {}
  <2>1. \A x \in S : x <= b
    BY <1>3, <1>4
  <2> QED
    BY <2>1
<1>6. PICK m \in bounds : \A d \in bounds : m <= d
  BY <1>5, LeastElement
<1>7. m \in S
  <2> SUFFICES ASSUME m \notin S PROVE FALSE
    OBVIOUS
  <2>1. \A x \in S : x \in Nat /\ x < m
    BY <1>6
  <2>2. m \in Nat /\ m - 1 \in Nat
    <3>1. m \in Nat
      OBVIOUS
    <3>2. PICK x \in S : TRUE
      OBVIOUS
    <3>3. x \in Nat /\ x < m
      BY <2>1
    <3> QED
      BY <3>1, <3>3
  <2>3. m - 1 \in bounds
    BY <2>1, <2>2
  <2> QED
    BY <1>6, <2>2, <2>3
<1>8. \A y \in S : m >= y
  BY <1>6
<1> QED
  BY <1>7, <1>8 DEF Max

-----------------------------------------------------------------------------
(* The steps of the quota.                                                 *)

LEMMA StartsCorrect == Init => QuotaInv
<1> SUFFICES ASSUME Init PROVE QuotaInv
  OBVIOUS
<1>1. Types
  BY Constants, FS_EmptySet DEF Init, Types, Times
<1>2. DocumentInv /\ CountInv
  BY DEF Init, DocumentInv, CountInv, NoWindowOpen, WindowsApart, WindowsFit, InWindow
<1>3. ASSUME NEW o \in Operations PROVE RequestInv(o)
  BY DEF Init, RequestInv, SeenInv, RoomWasLeft, ReadNothing, RefusedInv
<1> QED
  BY <1>1, <1>2, <1>3 DEF QuotaInv

\* A request that does not move keeps its part of the invariant, if what is counted
\* only grows and no window opens that began long before a moment without a document.
LEMMA OthersKeep ==
  ASSUME Types, Types', NEW o \in Operations, RequestInv(o),
         clock <= clock', counted \subseteq counted', limit' = limit, writes <= writes',
         pc'[o] = pc[o], seen'[o] = seen[o], asOf'[o] = asOf[o],
         quota' \in {quota, NoQuota} \/ quota'.etag = writes + 1,
         \A r \in Times : r <= clock /\ NothingAt(r) => NothingAt(r)'
  PROVE  RequestInv(o)'
<1>1. clock \in Nat /\ clock' \in Nat /\ writes \in Nat /\ writes' \in Nat /\ asOf[o] \in Nat
      /\ seen[o] \in Quota \cup {NoQuota}
  BY DEF Types, Times
<1>2. asOf'[o] <= clock'
  BY <1>1 DEF RequestInv
<1>3. SeenInv(o)'
  <2> SUFFICES ASSUME seen[o] # NoQuota
               PROVE  /\ Sound(seen[o])' /\ Charged(seen[o])'
                      /\ seen[o].started <= asOf[o] /\ seen[o].modifiedAt <= asOf[o]
                      /\ seen[o].etag <= writes'
                      /\ quota' # NoQuota /\ quota'.etag = seen[o].etag => quota' = seen[o]
    BY DEF SeenInv, Sound, Charged
  <2>1. /\ Sound(seen[o]) /\ Charged(seen[o])
        /\ seen[o].started <= asOf[o] /\ seen[o].modifiedAt <= asOf[o]
        /\ seen[o].etag <= writes
        /\ quota # NoQuota /\ quota.etag = seen[o].etag => quota = seen[o]
    BY DEF RequestInv, SeenInv
  <2>2. seen[o].etag \in Nat
    BY <1>1 DEF Quota
  <2>3. Sound(seen[o])' /\ Charged(seen[o])'
    BY <2>1 DEF Sound, Charged
  <2>4. seen[o].etag <= writes' /\ seen[o].etag # writes + 1
    BY <1>1, <2>1, <2>2
  <2> QED
    BY <2>1, <2>3, <2>4
<1>4. RoomWasLeft(o)'
  BY DEF RequestInv, RoomWasLeft, Expired, ExpiresAt, Full, Smaller
<1>5. ReadNothing(o)'
  <2> SUFFICES ASSUME seen[o] = NoQuota
               PROVE  /\ pc[o] = "decide" => NothingAt(asOf[o])'
                      /\ pc[o] = "write" =>
                           \E r \in Times :
                             r <= asOf[o] /\ asOf[o] <= r + StoreTimeout /\ NothingAt(r)'
    BY DEF ReadNothing, NothingAt
  <2>1. asOf[o] \in Times /\ asOf[o] <= clock
    BY DEF RequestInv, Types
  <2>2. \A r \in Times : r <= asOf[o] => r <= clock
    BY <1>1, <2>1 DEF Times
  <2> QED
    BY <2>1, <2>2 DEF RequestInv, ReadNothing
<1>6. RefusedInv(o)' /\ (pc'[o] = "allowed" => \E c \in counted' : c.op = o)
  BY DEF RequestInv, RefusedInv, Full, Smaller
<1> QED
  BY <1>2, <1>3, <1>4, <1>5, <1>6 DEF RequestInv

\* A step of a request that leaves the store alone.
LEMMA LocalStep ==
  ASSUME QuotaInv, NEW o \in Operations, Types', RequestInv(o)',
         UNCHANGED <<clock, quota, writes, limit, counted>>,
         \A p \in Operations \ {o} :
           pc'[p] = pc[p] /\ seen'[p] = seen[p] /\ asOf'[p] = asOf[p]
  PROVE  QuotaInv'
<1>1. DocumentInv' /\ CountInv'
  BY DEF QuotaInv, DocumentInv, Sound, Charged, Latest, Before, LivesOn, InWindow, CountInv,
     NoWindowOpen, WindowsApart, WindowsFit
<1>2. ASSUME NEW p \in Operations \ {o} PROVE RequestInv(p)'
  <2>1. \A r \in Times : NothingAt(r) => NothingAt(r)'
    BY DEF NothingAt, Before
  <2>2. clock <= clock' /\ writes <= writes'
    BY DEF QuotaInv, Types, Times
  <2> QED
    BY <1>2, <2>1, <2>2, OthersKeep DEF QuotaInv
<1> QED
  BY <1>1, <1>2 DEF QuotaInv

\* The next attempt reads again, or there is none.
LEMMA NextAttemptTypes ==
  ASSUME Types, NEW o \in Operations, NextAttempt(o), pc[o] \in {"read", "decide", "write"}
  PROVE  /\ pc' \in [Operations ->
                       {"read", "decide", "write", "allowed", "limited", "unavailable"}]
         /\ attempt' \in [Operations -> 0..Attempts]
         /\ \A p \in Operations :
              pc'[p] \in {"read", "decide", "write"} => attempt'[p] < Attempts
         /\ pc'[o] \in {"read", "unavailable"}
         /\ \A p \in Operations \ {o} : pc'[p] = pc[p]
<1>1. attempt[o] \in 0..Attempts /\ attempt[o] < Attempts
  BY DEF Types
<1>2. attempt[o] + 1 \in 0..Attempts
  BY <1>1, Constants
<1>3. \A p \in Operations : attempt'[p] = IF p = o THEN attempt[o] + 1 ELSE attempt[p]
  BY DEF NextAttempt, Types
<1>4. \A p \in Operations :
        pc'[p] = IF p = o THEN IF attempt[o] + 1 < Attempts THEN "read" ELSE "unavailable"
                 ELSE pc[p]
  BY DEF NextAttempt, Goto, Types
<1> QED
  BY <1>2, <1>3, <1>4 DEF NextAttempt, Goto, Types

\* A lost attempt leaves the store and what was read alone.
LEMMA LostAttemptKeeps ==
  ASSUME QuotaInv, NEW o \in Operations, NextAttempt(o), pc[o] \in {"read", "decide", "write"},
         UNCHANGED <<clock, quota, writes, limit, seen, asOf, counted>>
  PROVE  QuotaInv'
<1>1. /\ Types' /\ pc'[o] \in {"read", "unavailable"}
      /\ \A p \in Operations \ {o} : pc'[p] = pc[p]
  BY NextAttemptTypes DEF QuotaInv, Types
<1>2. RequestInv(o)'
  <2>1. SeenInv(o)' /\ asOf'[o] <= clock'
    BY DEF QuotaInv, RequestInv, SeenInv, Sound, Charged
  <2>2. RoomWasLeft(o)' /\ ReadNothing(o)' /\ RefusedInv(o)' /\ pc'[o] # "allowed"
    BY <1>1 DEF RoomWasLeft, ReadNothing, RefusedInv
  <2> QED
    BY <2>1, <2>2 DEF RequestInv
<1> QED
  BY <1>1, <1>2, LocalStep

LEMMA ReadKeeps == ASSUME QuotaInv, NEW o \in Operations, Read(o) PROVE QuotaInv'
<1>1. CASE NextAttempt(o) /\ UNCHANGED <<seen, asOf>>
  BY <1>1, LostAttemptKeeps DEF Read
<1>2. CASE /\ seen' = [seen EXCEPT ![o] = quota]
           /\ Goto(o, "decide")
           /\ asOf' = [asOf EXCEPT ![o] = clock]
           /\ attempt' = attempt
  <2>1. /\ pc'[o] = "decide" /\ seen'[o] = quota /\ asOf'[o] = clock
        /\ \A p \in Operations \ {o} :
             pc'[p] = pc[p] /\ seen'[p] = seen[p] /\ asOf'[p] = asOf[p]
    BY <1>2 DEF QuotaInv, Types, Goto
  <2>2. Types'
    BY <1>2 DEF QuotaInv, Types, Goto, Read
  <2>3. UNCHANGED <<clock, quota, writes, limit, counted>>
    BY DEF Read
  <2>4. SeenInv(o)'
    BY <2>1, <2>3 DEF QuotaInv, DocumentInv, SeenInv, Sound, Charged, LivesOn, Types, Quota, Times
  <2>5. ReadNothing(o)'
    <3>1. quota = NoQuota => NothingAt(clock)
      BY DEF QuotaInv, CountInv, NoWindowOpen, NothingAt, Before
    <3> QED
      BY <2>1, <2>3, <3>1 DEF ReadNothing, NothingAt, Before
  <2>6. RequestInv(o)'
    BY <2>1, <2>3, <2>4, <2>5 DEF RequestInv, RoomWasLeft, RefusedInv, QuotaInv, Types, Times
  <2> QED
    BY <2>1, <2>2, <2>3, <2>6, LocalStep
<1> QED
  BY <1>1, <1>2 DEF Read

LEMMA ReadTimeoutKeeps == ASSUME QuotaInv, NEW o \in Operations, ReadTimeout(o) PROVE QuotaInv'
  BY LostAttemptKeeps DEF ReadTimeout

LEMMA DecideKeeps == ASSUME QuotaInv, NEW o \in Operations, Decide(o) PROVE QuotaInv'
<1>1. PICK place \in {"write", "allowed", "limited"} : Goto(o, place)
  BY DEF Decide
<1>2. /\ pc'[o] = place /\ asOf'[o] = clock
      /\ \A p \in Operations \ {o} : pc'[p] = pc[p] /\ asOf'[p] = asOf[p]
  BY <1>1 DEF Decide, QuotaInv, Types, Goto
<1>3. UNCHANGED <<clock, quota, writes, limit, counted, seen, attempt>>
  BY DEF Decide
<1>4. pc[o] = "decide" /\ clock <= asOf[o] + StoreTimeout
  BY DEF Decide, Answered
<1>5. Types'
  BY <1>1, <1>3, <1>4 DEF Decide, QuotaInv, Types, Goto
<1>6. /\ place = "allowed" => seen[o] # NoQuota /\ o \in seen[o].tokens
      /\ place = "limited" => seen[o] # NoQuota /\ ~Expired(seen[o], clock) /\ Full(seen[o], o)
      /\ place = "write" /\ seen[o] # NoQuota /\ ~Expired(seen[o], clock) =>
           o \notin seen[o].tokens /\ ~Full(seen[o], o)
  BY <1>1, <1>2 DEF Decide, Goto
<1>7. clock \in Nat /\ asOf[o] \in Nat /\ asOf[o] <= clock /\ seen[o] \in Quota \cup {NoQuota}
  BY DEF QuotaInv, Types, Times, RequestInv
<1>8. SeenInv(o)'
  <2> SUFFICES ASSUME seen[o] # NoQuota
               PROVE  seen[o].started <= clock /\ seen[o].modifiedAt <= clock
    BY <1>2, <1>3 DEF QuotaInv, RequestInv, SeenInv, Sound, Charged
  <2> QED
    BY <1>7 DEF QuotaInv, RequestInv, SeenInv, Quota, Times
<1>9. RoomWasLeft(o)'
  BY <1>2, <1>3, <1>6 DEF RoomWasLeft, Expired, ExpiresAt, Full, Smaller
<1>10. ReadNothing(o)'
  <2>1. seen[o] = NoQuota => NothingAt(asOf[o])
    BY <1>4 DEF QuotaInv, RequestInv, ReadNothing
  <2>2. seen[o] = NoQuota /\ place = "write" =>
          \E r \in Times : r <= clock /\ clock <= r + StoreTimeout /\ NothingAt(r)
    BY <1>4, <1>7, <2>1 DEF Times
  <2> QED
    BY <1>2, <1>3, <2>2 DEF ReadNothing, NothingAt, Before
<1>11. pc'[o] = "allowed" => \E c \in counted' : c.op = o
  BY <1>2, <1>3, <1>6 DEF QuotaInv, RequestInv, SeenInv, Charged
<1>12. RefusedInv(o)'
  <2> SUFFICES ASSUME place = "limited", NEW t \in seen[o].tokens
               PROVE  \E c \in counted : c.op = t /\ clock - Window < c.at /\ c.at <= clock
    BY <1>2, <1>3, <1>6 DEF RefusedInv, Full, Smaller
  <2>1. PICK c \in counted : c.op = t /\ c.window = seen[o].started
    BY <1>6 DEF QuotaInv, RequestInv, SeenInv, Charged
  <2>2. c.window <= c.at /\ c.at <= clock /\ c.window \in Nat /\ c.at \in Nat
    BY DEF QuotaInv, CountInv, Types, Counts, Times
  <2>3. clock < seen[o].started + Window
    BY <1>6, <1>7, <2>1, <2>2, Constants DEF Expired, ExpiresAt
  <2>4. clock - Window < c.at
    BY <1>7, <2>1, <2>2, <2>3, Constants
  <2> QED
    BY <2>1, <2>2, <2>4
<1>13. RequestInv(o)'
  BY <1>2, <1>3, <1>7, <1>8, <1>9, <1>10, <1>11, <1>12 DEF RequestInv
<1> QED
  BY <1>2, <1>3, <1>5, <1>13, LocalStep

LEMMA TickKeeps == ASSUME QuotaInv, Tick PROVE QuotaInv'
<1>1. clock \in Nat /\ clock' = clock + 1
  BY DEF Tick, QuotaInv, Types, Times
<1>2. Types'
  BY <1>1 DEF Tick, QuotaInv, Types, Times
<1>3. DocumentInv'
  <2>1. quota # NoQuota => quota.modifiedAt \in Nat /\ quota.modifiedAt <= clock'
    BY <1>1 DEF QuotaInv, DocumentInv, LivesOn, Types, Quota, Times
  <2> QED
    BY <2>1 DEF Tick, QuotaInv, DocumentInv, Sound, Charged, Latest, Before, LivesOn, InWindow
<1>4. CountInv'
  <2>1. \A c \in counted : c.window \in Nat /\ c.at \in Nat
    BY DEF QuotaInv, Types, Counts, Times
  <2>2. \A c \in counted : c.at <= clock => c.at <= clock'
    BY <1>1, <2>1
  <2>3. NoWindowOpen'
    <3>1. \A c \in counted : c.window + Window <= clock => c.window + Window <= clock'
      BY <1>1, <2>1, Constants
    <3> QED
      BY <3>1 DEF Tick, QuotaInv, CountInv, NoWindowOpen
  <2> QED
    BY <2>2, <2>3 DEF Tick, QuotaInv, CountInv, WindowsApart, WindowsFit, InWindow
<1>5. ASSUME NEW o \in Operations PROVE RequestInv(o)'
  <2>1. \A r \in Times : NothingAt(r) => NothingAt(r)'
    BY DEF Tick, NothingAt, Before
  <2>2. clock <= clock' /\ writes <= writes' /\ counted \subseteq counted' /\ limit' = limit
        /\ pc'[o] = pc[o] /\ seen'[o] = seen[o] /\ asOf'[o] = asOf[o] /\ quota' = quota
    BY <1>1 DEF Tick, QuotaInv, Types
  <2> QED
    BY <1>2, <2>1, <2>2, OthersKeep DEF QuotaInv
<1> QED
  BY <1>2, <1>3, <1>4, <1>5 DEF QuotaInv

LEMMA VanishKeeps == ASSUME QuotaInv, Vanish PROVE QuotaInv'
<1>1. /\ quota # NoQuota /\ clock >= quota.modifiedAt + quota.ttl /\ quota' = NoQuota
      /\ UNCHANGED <<clock, writes, pc, limit, attempt, seen, asOf, counted>>
  BY DEF Vanish
<1>2. Types' /\ DocumentInv'
  BY <1>1 DEF QuotaInv, Types, DocumentInv
<1>3. \A c \in counted : c.window + Window <= clock
  <2>1. quota \in Quota
    BY <1>1 DEF QuotaInv, Types
  <2>2. quota.started \in Nat /\ quota.modifiedAt \in Nat /\ quota.ttl \in Nat /\ clock \in Nat
    BY <2>1 DEF Quota, QuotaInv, Types, Times
  <2>3. quota.started + Window <= clock
    BY <1>1, <2>2, Constants DEF QuotaInv, DocumentInv, LivesOn
  <2> SUFFICES ASSUME NEW c \in counted PROVE c.window + Window <= clock
    OBVIOUS
  <2>4. c.window \in Nat
    BY DEF QuotaInv, Types, Counts, Times
  <2>5. c.window + Window <= quota.started \/ c.window = quota.started
    BY <1>1 DEF QuotaInv, DocumentInv, Latest, Before
  <2> QED
    BY <2>2, <2>3, <2>4, <2>5, Constants
<1>4. CountInv'
  BY <1>1, <1>3 DEF QuotaInv, CountInv, NoWindowOpen, WindowsApart, WindowsFit, InWindow
<1>5. ASSUME NEW o \in Operations PROVE RequestInv(o)'
  <2>1. \A r \in Times : NothingAt(r) => NothingAt(r)'
    BY <1>1 DEF NothingAt, Before
  <2>2. clock <= clock' /\ writes <= writes'
    BY <1>1 DEF QuotaInv, Types, Times
  <2> QED
    BY <1>1, <1>2, <2>1, <2>2, OthersKeep DEF QuotaInv
<1> QED
  BY <1>2, <1>4, <1>5 DEF QuotaInv

\* What a request asks the store to hold opens a window after all others, or adds
\* one operation to the document that is there.
LEMMA CandidateFits ==
  ASSUME QuotaInv, NEW o \in Operations, pc[o] = "write", Unchanged(o), Answered(o)
  PROVE  LET q == Candidate(o) IN
         /\ q \in Quota /\ Sound(q)
         /\ q.started <= clock /\ q.started + Window <= clock + q.ttl
         /\ \/ /\ q.tokens = {o}
               /\ \A c \in counted : Before(c, q.started)
            \/ /\ quota # NoQuota /\ q.started = quota.started
               /\ o \notin quota.tokens /\ q.tokens = quota.tokens \cup {o}
<1> DEFINE q == Candidate(o)
<1>1. clock \in Nat /\ asOf[o] \in Nat /\ asOf[o] <= clock /\ clock <= asOf[o] + StoreTimeout
  BY DEF QuotaInv, Types, Times, RequestInv, Answered
<1>2. limit[o] \in Limits /\ limit[o] \in Nat /\ limit[o] >= 1
  <2>1. limit[o] \in Limits
    BY DEF QuotaInv, Types
  <2>2. \A l \in Limits : l \in Nat /\ l # 0
    BY Constants
  <2>3. limit[o] \in Nat /\ limit[o] # 0
    BY <2>1, <2>2
  <2> QED
    BY <2>1, <2>3
<1>3. \A c \in counted : c.window \in Nat /\ c.at \in Nat
  BY DEF QuotaInv, Types, Counts, Times
<1>4. seen[o] # NoQuota => quota # NoQuota /\ quota = seen[o] /\ quota \in Quota
  BY DEF Unchanged, QuotaInv, Types, RequestInv, SeenInv
<1>5. CASE seen[o] = NoQuota \/ Expired(seen[o], asOf[o])
  <2>1. q = [limit |-> limit[o], started |-> asOf[o], tokens |-> {o}, ttl |-> Window,
             etag |-> 0, modifiedAt |-> 0]
    BY <1>5 DEF Candidate, Opened
  <2>2. q \in Quota
    BY <1>1, <1>2, <2>1, Constants DEF Quota, Times
  <2>3. Sound(q)
    <3>1. q.tokens = {o} /\ q.limit = limit[o] /\ q.ttl = Window
      BY <2>1
    <3>2. IsFiniteSet({o}) /\ Cardinality({o}) = 1
      BY FS_Singleton
    <3> HIDE DEF q
    <3> QED
      BY <1>2, <3>1, <3>2, Constants DEF Sound
  <2>4. \A c \in counted : Before(c, asOf[o])
    <3>1. CASE seen[o] = NoQuota
      <4>1. PICK r \in Times : r <= asOf[o] /\ asOf[o] <= r + StoreTimeout /\ NothingAt(r)
        BY <3>1 DEF QuotaInv, RequestInv, ReadNothing
      <4> TAKE c \in counted
      <4>2. c.window + Window <= clock
        BY <3>1 DEF Unchanged, QuotaInv, CountInv, NoWindowOpen
      <4>3. ~(r <= c.window + StoreTimeout)
        BY <1>1, <1>3, <4>1, <4>2, Constants DEF Times
      <4>4. Before(c, r)
        BY <4>1, <4>3 DEF NothingAt
      <4> QED
        BY <1>1, <1>3, <4>1, <4>4, Constants DEF Before, Times
    <3>2. CASE seen[o] # NoQuota
      <4> TAKE c \in counted
      <4>1. quota.started + Window <= asOf[o] /\ quota.modifiedAt <= asOf[o]
            /\ quota.started \in Nat /\ quota.modifiedAt \in Nat
        BY <1>4, <1>5, <3>2 DEF Expired, ExpiresAt, QuotaInv, RequestInv, SeenInv, Quota, Times
      <4>2. c.at <= quota.modifiedAt /\ (Before(c, quota.started) \/ c.window = quota.started)
        BY <1>4, <3>2 DEF QuotaInv, DocumentInv, Latest
      <4> QED
        BY <1>1, <1>3, <4>1, <4>2, Constants DEF Before
    <3> QED
      BY <3>1, <3>2
  <2> QED
    BY <1>1, <2>1, <2>2, <2>3, <2>4, Constants
<1>6. CASE seen[o] # NoQuota /\ ~Expired(seen[o], asOf[o])
  <2> DEFINE left == Remaining(quota, asOf[o])
  <2>1. q = [quota EXCEPT !.tokens = @ \cup {o}, !.ttl = left]
    BY <1>4, <1>6 DEF Candidate, Counting
  <2>2. quota \in Quota /\ quota # NoQuota /\ Sound(quota)
    BY <1>4, <1>6 DEF QuotaInv, DocumentInv
  <2>3. /\ left \in Nat /\ left >= 1
        /\ left = Window \/ ExpiresAt(quota) <= asOf[o] + left
    BY <1>1, <1>4, <1>6, RemainingLasts DEF Times
  <2> HIDE DEF left
  <2>4. /\ q \in Quota
        /\ q.limit = quota.limit /\ q.started = quota.started /\ q.ttl = left
        /\ q.tokens = quota.tokens \cup {o}
    <3>1. quota = [limit |-> quota.limit, started |-> quota.started, tokens |-> quota.tokens,
                   ttl |-> quota.ttl, etag |-> quota.etag, modifiedAt |-> quota.modifiedAt]
      BY <2>2 DEF Quota
    <3>2. q = [limit |-> quota.limit, started |-> quota.started,
               tokens |-> quota.tokens \cup {o}, ttl |-> left,
               etag |-> quota.etag, modifiedAt |-> quota.modifiedAt]
      BY <2>1, <3>1
    <3> HIDE DEF q
    <3> QED
      BY <2>2, <2>3, <3>2 DEF Quota
  <2>5. o \notin quota.tokens /\ ~Full(quota, o)
    BY <1>4, <1>6 DEF QuotaInv, RequestInv, RoomWasLeft
  <2>6. Sound(q)
    <3>1. IsFiniteSet(quota.tokens) /\ Cardinality(quota.tokens) \in 1..quota.limit
          /\ quota.limit \in Nat
      BY <2>2, Constants DEF Sound, Quota
    <3>2. IsFiniteSet(q.tokens) /\ Cardinality(q.tokens) = Cardinality(quota.tokens) + 1
      BY <2>4, <2>5, <3>1, FS_AddElement
    <3>3. Cardinality(quota.tokens) < quota.limit
      BY <1>2, <2>5, <3>1 DEF Full, Smaller
    <3>4. Cardinality(q.tokens) \in 1..q.limit
      BY <2>4, <3>1, <3>2, <3>3
    <3> QED
      BY <2>2, <2>3, <2>4, <3>2, <3>4 DEF Sound
  <2>7. q.started <= clock /\ q.started + Window <= clock + q.ttl
    <3>1. quota.started \in Nat /\ quota.started <= asOf[o]
      BY <1>4, <1>6, <2>2 DEF QuotaInv, RequestInv, SeenInv, Quota, Times
    <3> QED
      BY <1>1, <2>3, <2>4, <3>1, Constants DEF ExpiresAt
  <2> QED
    BY <2>2, <2>4, <2>5, <2>6, <2>7
<1> QED
  BY <1>5, <1>6

\* The write that the store applies.
Applies(o) ==
  /\ pc[o] = "write" /\ Unchanged(o) /\ Answered(o)
  /\ quota' = [Candidate(o) EXCEPT !.etag = writes + 1, !.modifiedAt = clock]
  /\ writes' = writes + 1
  /\ counted' = counted \cup {[op |-> o, at |-> clock, window |-> Candidate(o).started]}
  /\ \/ Goto(o, "allowed") /\ attempt' = attempt
     \/ NextAttempt(o)
  /\ UNCHANGED <<clock, limit, seen, asOf>>

LEMMA AppliesTypes ==
  ASSUME QuotaInv, NEW o \in Operations, Applies(o)
  PROVE  /\ Types'
         /\ pc'[o] \in {"read", "allowed", "unavailable"}
         /\ \A p \in Operations \ {o} : pc'[p] = pc[p]
<1>1. Candidate(o) \in Quota
  BY CandidateFits DEF Applies
<1>2. quota' \in Quota /\ writes' \in Nat
  <2>1. writes + 1 \in Nat /\ clock \in Times
    BY DEF QuotaInv, Types
  <2>2. \A q \in Quota : [q EXCEPT !.etag = writes + 1, !.modifiedAt = clock] \in Quota
    BY <2>1 DEF Quota
  <2> QED
    BY <1>1, <2>1, <2>2 DEF Applies
<1>3. counted' \subseteq Counts /\ IsFiniteSet(counted')
  <2>1. [op |-> o, at |-> clock, window |-> Candidate(o).started] \in Counts
    BY <1>1 DEF Counts, Quota, QuotaInv, Types
  <2> QED
    BY <2>1, FS_AddElement DEF Applies, QuotaInv, Types
<1>4. /\ pc' \in [Operations ->
                    {"read", "decide", "write", "allowed", "limited", "unavailable"}]
      /\ attempt' \in [Operations -> 0..Attempts]
      /\ \A p \in Operations :
           pc'[p] \in {"read", "decide", "write"} => attempt'[p] < Attempts
      /\ pc'[o] \in {"read", "allowed", "unavailable"}
      /\ \A p \in Operations \ {o} : pc'[p] = pc[p]
  <2>1. CASE NextAttempt(o)
    BY <2>1, NextAttemptTypes DEF Applies, QuotaInv
  <2>2. CASE Goto(o, "allowed") /\ attempt' = attempt
    BY <2>2 DEF Goto, QuotaInv, Types
  <2> QED
    BY <2>1, <2>2 DEF Applies
<1> QED
  BY <1>2, <1>3, <1>4 DEF Applies, QuotaInv, Types

LEMMA AppliesKeeps == ASSUME QuotaInv, NEW o \in Operations, Applies(o) PROVE QuotaInv'
<1> DEFINE q == Candidate(o)
           new == [op |-> o, at |-> clock, window |-> q.started]
<1>1. /\ q \in Quota /\ Sound(q)
      /\ q.started <= clock /\ q.started + Window <= clock + q.ttl
      /\ \/ /\ q.tokens = {o}
            /\ \A c \in counted : Before(c, q.started)
         \/ /\ quota # NoQuota /\ q.started = quota.started
            /\ o \notin quota.tokens /\ q.tokens = quota.tokens \cup {o}
  BY CandidateFits DEF Applies
<1>2. /\ writes' = writes + 1 /\ counted' = counted \cup {new}
      /\ UNCHANGED <<clock, limit, seen, asOf>>
      /\ clock \in Nat /\ writes \in Nat /\ clock <= asOf[o] + StoreTimeout /\ asOf[o] \in Nat
  BY DEF Applies, Answered, QuotaInv, Types, Times
<1>3. quota' = [q EXCEPT !.etag = writes + 1, !.modifiedAt = clock]
  BY DEF Applies
<1> HIDE DEF q
<1>4. /\ quota'.limit = q.limit /\ quota'.started = q.started /\ quota'.tokens = q.tokens
      /\ quota'.ttl = q.ttl /\ quota'.etag = writes + 1 /\ quota'.modifiedAt = clock
      /\ quota' \in Quota /\ quota' # NoQuota
  <2>1. q = [limit |-> q.limit, started |-> q.started, tokens |-> q.tokens,
             ttl |-> q.ttl, etag |-> q.etag, modifiedAt |-> q.modifiedAt]
    BY <1>1 DEF Quota
  <2>2. quota' = [limit |-> q.limit, started |-> q.started, tokens |-> q.tokens,
                  ttl |-> q.ttl, etag |-> writes + 1, modifiedAt |-> clock]
    BY <1>3, <2>1
  <2>3. quota' \in Quota
    BY <1>1, <1>2, <2>2 DEF Quota, Times
  <2> QED
    BY <2>2, <2>3, Constants
<1>5. \A c \in counted :
        /\ c.window \in Nat /\ c.at \in Nat /\ c.window <= c.at /\ c.at <= clock
        /\ Before(c, q.started) \/ (c.window = q.started /\ c.op \in q.tokens)
  BY <1>1 DEF QuotaInv, Types, Counts, Times, CountInv, DocumentInv, Latest
<1>6. new.op = o /\ new.at = clock /\ new.window = q.started /\ q.started \in Nat /\ o \in q.tokens
  BY <1>1 DEF Quota, Times
<1>7. Cardinality({c \in counted' : c.window = q.started}) = Cardinality(q.tokens)
  <2>1. /\ IsFiniteSet(InWindow(q.started))
        /\ {c \in counted' : c.window = q.started} = InWindow(q.started) \cup {new}
    <3>1. InWindow(q.started) \in SUBSET counted /\ IsFiniteSet(counted)
      BY DEF InWindow, QuotaInv, Types
    <3> QED
      BY <1>2, <1>6, <3>1, FS_Subset DEF InWindow
  <2>2. CASE q.tokens = {o} /\ \A c \in counted : Before(c, q.started)
    <3>1. InWindow(q.started) = {}
      BY <1>5, <1>6, <2>2, Constants DEF InWindow, Before
    <3> QED
      <4>1. Cardinality({o}) = 1 /\ Cardinality({new}) = 1
        BY FS_Singleton
      <4>2. InWindow(q.started) \cup {new} = {new}
        BY <3>1
      <4> HIDE DEF new
      <4> QED
        BY <2>1, <2>2, <4>1, <4>2
  <2>3. CASE /\ quota # NoQuota /\ q.started = quota.started
             /\ o \notin quota.tokens /\ q.tokens = quota.tokens \cup {o}
    <3>1. /\ IsFiniteSet(quota.tokens)
          /\ Cardinality(InWindow(q.started)) = Cardinality(quota.tokens)
      BY <2>3 DEF QuotaInv, DocumentInv, Sound, Latest
    <3>2. new \notin InWindow(q.started)
      <4>1. \A c \in InWindow(q.started) : c.op \in quota.tokens
        BY <1>5, <1>6, <2>3, Constants DEF InWindow, QuotaInv, DocumentInv, Latest, Before
      <4> QED
        BY <1>6, <2>3, <4>1
    <3> QED
      <4> HIDE DEF new
      <4>1. Cardinality(InWindow(q.started) \cup {new}) = Cardinality(InWindow(q.started)) + 1
        BY <2>1, <3>2, FS_AddElement
      <4>2. Cardinality(quota.tokens \cup {o}) = Cardinality(quota.tokens) + 1
        BY <2>3, <3>1, FS_AddElement
      <4> QED
        BY <2>1, <2>3, <3>1, <4>1, <4>2
  <2> QED
    BY <1>1, <2>2, <2>3
<1>8. DocumentInv'
  <2>1. Sound(quota)'
    BY <1>1, <1>2, <1>4 DEF Sound
  <2>2. Charged(quota)'
    <3> SUFFICES ASSUME NEW t \in q.tokens
                 PROVE  \E c \in counted' : c.op = t /\ c.window = q.started
      BY <1>4 DEF Charged
    <3>1. CASE t = o
      BY <1>2, <1>6, <3>1
    <3>2. CASE t # o
      BY <1>1, <1>2, <3>2 DEF QuotaInv, DocumentInv, Charged
    <3> QED
      BY <3>1, <3>2
  <2>3. Latest(quota)'
    <3>1. \A c \in counted' :
            /\ c.at <= clock
            /\ Before(c, q.started) \/ (c.window = q.started /\ c.op \in q.tokens)
      BY <1>2, <1>5, <1>6
    <3> QED
      BY <1>2, <1>4, <1>7, <3>1 DEF Latest, Before, InWindow
  <2>4. LivesOn(quota)' /\ quota'.etag <= writes'
    BY <1>1, <1>2, <1>4 DEF LivesOn
  <2> QED
    BY <2>1, <2>2, <2>3, <2>4 DEF DocumentInv
<1>9. CountInv'
  <2>1. \A c \in counted' : c.window <= c.at /\ c.at <= clock'
    BY <1>1, <1>2, <1>5, <1>6
  <2>2. NoWindowOpen'
    BY <1>4 DEF NoWindowOpen
  <2>3. WindowsApart'
    <3> SUFFICES ASSUME NEW c \in counted', NEW d \in counted', c.window < d.window
                 PROVE  c.window + Window <= d.window /\ c.at <= d.window
      BY DEF WindowsApart
    <3>1. CASE c \in counted /\ d \in counted
      BY <3>1 DEF QuotaInv, CountInv, WindowsApart
    <3>2. CASE d = new
      <4>1. c \in counted
        BY <1>2, <1>6, <3>2
      <4> QED
        BY <1>5, <1>6, <3>2, <4>1 DEF Before
    <3>3. CASE c = new /\ d \in counted
      BY <1>5, <1>6, <3>3, Constants DEF Before
    <3> QED
      BY <1>2, <3>1, <3>2, <3>3
  <2>4. WindowsFit'
    <3> SUFFICES ASSUME NEW w \in Times, {c \in counted' : c.window = w} # {}
                 PROVE  \E p \in Operations :
                          Cardinality({c \in counted' : c.window = w}) <= limit[p]
      BY <1>2 DEF WindowsFit, InWindow
    <3>1. CASE w = q.started
      <4>1. PICK p \in Operations : q.limit = limit[p]
        BY <1>1 DEF Sound
      <4>2. Cardinality(q.tokens) <= q.limit
        BY <1>1 DEF Sound
      <4> QED
        BY <1>7, <3>1, <4>1, <4>2
    <3>2. CASE w # q.started
      <4>1. {c \in counted' : c.window = w} = InWindow(w)
        BY <1>2, <1>6, <3>2 DEF InWindow
      <4> QED
        BY <4>1 DEF QuotaInv, CountInv, WindowsFit
    <3> QED
      BY <3>1, <3>2
  <2> QED
    BY <2>1, <2>2, <2>3, <2>4 DEF CountInv
<1>10. \A r \in Times : r <= clock /\ NothingAt(r) => NothingAt(r)'
  <2> SUFFICES ASSUME NEW r \in Times, r <= clock, NothingAt(r) PROVE NothingAt(r)'
    OBVIOUS
  <2>1. r <= q.started + StoreTimeout
    <3>1. CASE quota # NoQuota /\ q.started = quota.started
      BY <3>1 DEF NothingAt
    <3>2. CASE \A c \in counted : Before(c, q.started)
      <4>1. q.started = asOf[o] \/ (quota # NoQuota /\ q.started = quota.started)
        BY <1>4 DEF Applies, q, Candidate, Opened, Counting, Unchanged, QuotaInv, RequestInv,
           SeenInv, Types, Quota
      <4> QED
        BY <1>2, <3>1, <4>1, Constants DEF Times
    <3> QED
      BY <1>1, <3>1, <3>2
  <2> QED
    BY <1>2, <1>4, <1>6, <2>1 DEF NothingAt, Before
<1>11. Types' /\ pc'[o] \in {"read", "allowed", "unavailable"}
       /\ \A p \in Operations \ {o} : pc'[p] = pc[p]
  BY AppliesTypes
<1>12. ASSUME NEW p \in Operations \ {o} PROVE RequestInv(p)'
  <2>1. clock <= clock' /\ writes <= writes' /\ counted \subseteq counted' /\ limit' = limit
        /\ pc'[p] = pc[p] /\ seen'[p] = seen[p] /\ asOf'[p] = asOf[p]
    BY <1>2, <1>11
  <2> QED
    BY <1>4, <1>10, <1>11, <2>1, OthersKeep DEF QuotaInv
<1>13. RequestInv(o)'
  <2>1. asOf'[o] <= clock'
    BY <1>2 DEF QuotaInv, RequestInv
  <2>2. SeenInv(o)'
    <3> SUFFICES ASSUME seen[o] # NoQuota
                 PROVE  /\ Sound(seen[o])' /\ Charged(seen[o])'
                        /\ seen[o].started <= asOf[o] /\ seen[o].modifiedAt <= asOf[o]
                        /\ seen[o].etag <= writes' /\ quota'.etag # seen[o].etag
      BY <1>2 DEF SeenInv, Sound, Charged
    <3>1. /\ Sound(seen[o]) /\ Charged(seen[o])
          /\ seen[o].started <= asOf[o] /\ seen[o].modifiedAt <= asOf[o]
          /\ seen[o].etag <= writes /\ seen[o].etag \in Nat
      BY DEF QuotaInv, RequestInv, SeenInv, Types, Quota
    <3>2. Sound(seen[o])' /\ Charged(seen[o])'
      BY <1>2, <3>1 DEF Sound, Charged
    <3> QED
      BY <1>2, <1>4, <3>1, <3>2
  <2>3. RoomWasLeft(o)' /\ ReadNothing(o)' /\ RefusedInv(o)'
    BY <1>11 DEF RoomWasLeft, ReadNothing, RefusedInv
  <2>4. \E c \in counted' : c.op = o
    BY <1>2, <1>6
  <2> QED
    BY <2>1, <2>2, <2>3, <2>4 DEF RequestInv
<1> QED
  BY <1>8, <1>9, <1>11, <1>12, <1>13 DEF QuotaInv

LEMMA WriteKeeps == ASSUME QuotaInv, NEW o \in Operations, Write(o) PROVE QuotaInv'
<1>1. Applies(o) \/ (/\ NextAttempt(o) /\ pc[o] = "write"
                     /\ UNCHANGED <<clock, quota, writes, limit, seen, asOf, counted>>)
  BY DEF Write, Applies
<1> QED
  BY <1>1, AppliesKeeps, LostAttemptKeeps

LEMMA StepKeeps == QuotaInv /\ [Next]_vars => QuotaInv'
<1> SUFFICES ASSUME QuotaInv, [Next]_vars PROVE QuotaInv'
  OBVIOUS
<1>1. CASE Tick \/ Vanish
  BY <1>1, TickKeeps, VanishKeeps
<1>2. CASE \E o \in Operations : OperationStep(o)
  BY <1>2, ReadKeeps, ReadTimeoutKeeps, DecideKeeps, WriteKeeps DEF OperationStep
<1>3. CASE UNCHANGED vars
  BY <1>3 DEF vars, QuotaInv, Types, DocumentInv, Sound, Charged, Latest, Before, LivesOn, InWindow,
     CountInv, NoWindowOpen, WindowsApart, WindowsFit, RequestInv, SeenInv, RoomWasLeft, Expired,
     ExpiresAt, Full, Smaller, ReadNothing, NothingAt, RefusedInv
<1> QED
  BY <1>1, <1>2, <1>3 DEF Next

LEMMA InvariantHolds == Spec => []QuotaInv
<1> QED
  BY StartsCorrect, StepKeeps, PTL DEF Spec

-----------------------------------------------------------------------------
(* The theorems about the quota.                                           *)

\* The document is always one that RefreshQuotaDocument::validate accepts, and no
\* request makes more than CONDITIONAL_WRITE_ATTEMPTS attempts.
THEOREM TypeCorrect == Spec => []TypeOK
<1>1. QuotaInv => TypeOK
  BY DEF QuotaInv, Types, DocumentInv, Sound, Counts, TypeOK
<1> QED
  BY <1>1, InvariantHolds, PTL

\* What was allowed has been counted, and what was refused came upon as many as
\* the limit allows, all of them counted within the hour before.
THEOREM AnswersAreCounted == Spec => []AnswersMatchCount
<1>1. QuotaInv => AnswersMatchCount
  <2> SUFFICES ASSUME QuotaInv, NEW o \in Operations, pc[o] = "limited"
               PROVE  Cardinality({c.op : c \in
                                     {d \in counted : asOf[o] - Window < d.at /\ d.at <= asOf[o]}})
                        >= Smaller(seen[o].limit, limit[o])
    BY DEF QuotaInv, RequestInv, AnswersMatchCount
  <2> DEFINE recent == {d \in counted : asOf[o] - Window < d.at /\ d.at <= asOf[o]}
             ops == {c.op : c \in recent}
             opOf == [c \in recent |-> c.op]
  <2>1. IsFiniteSet(recent)
    <3>1. recent \in SUBSET counted /\ IsFiniteSet(counted)
      BY DEF QuotaInv, Types
    <3> HIDE DEF recent
    <3> QED
      BY <3>1, FS_Subset
  <2>2. IsFiniteSet(ops)
    <3>1. opOf \in Surjection(recent, ops)
      BY DEF Surjection
    <3> HIDE DEF recent, ops, opOf
    <3> QED
      BY <2>1, <3>1, FS_Surjection
  <2>3. seen[o] # NoQuota /\ Full(seen[o], o) /\ seen[o].tokens \in SUBSET ops
    BY DEF QuotaInv, RequestInv, RefusedInv
  <2>4. IsFiniteSet(seen[o].tokens) /\ seen[o].limit \in Nat /\ limit[o] \in Nat
    BY <2>3, Constants DEF QuotaInv, RequestInv, SeenInv, Sound, Types, Quota
  <2>5. Cardinality(seen[o].tokens) >= Smaller(seen[o].limit, limit[o])
    BY <2>3 DEF Full
  <2> HIDE DEF ops
  <2>6. Cardinality(seen[o].tokens) <= Cardinality(ops)
    BY <2>2, <2>3, FS_Subset
  <2>7. Cardinality(ops) \in Nat /\ Cardinality(seen[o].tokens) \in Nat
    BY <2>2, <2>4, FS_CardinalityType
  <2>8. Cardinality(ops) >= Smaller(seen[o].limit, limit[o])
    BY <2>4, <2>5, <2>6, <2>7 DEF Smaller
  <2> QED
    BY <2>8 DEF ops
<1> QED
  BY <1>1, InvariantHolds, PTL

\* What is counted in an hour is of two windows at most.
LEMMA TwoWindows ==
  ASSUME QuotaInv, NEW from \in Nat
  PROVE  \E v, w \in Times :
           {c \in counted : from <= c.at /\ c.at < from + Window} \subseteq
             InWindow(v) \cup InWindow(w)
<1> DEFINE hour == {c \in counted : from <= c.at /\ c.at < from + Window}
<1>1. \A c \in hour :
        /\ c \in counted /\ c.window \in Nat /\ c.at \in Nat /\ c.window <= c.at
        /\ from <= c.at /\ c.at < from + Window
  BY DEF QuotaInv, CountInv, Types, Counts, Times
<1>2. ASSUME NEW a \in hour, NEW b \in hour, NEW c \in hour,
             a.window < b.window, b.window < c.window
      PROVE  FALSE
  <2>1. a.at <= b.window /\ b.window + Window <= c.window
    BY <1>2, <1>1 DEF QuotaInv, CountInv, WindowsApart
  <2> QED
    BY <1>1, <2>1, Constants
<1> HIDE DEF hour
<1>3. CASE \A a \in hour, b \in hour : a.window = b.window
  <2>1. CASE hour = {}
    BY <2>1 DEF hour, Times
  <2>2. ASSUME NEW a \in hour PROVE hour \subseteq InWindow(a.window) /\ a.window \in Times
    BY <1>1, <1>3 DEF InWindow, Times
  <2> QED
    BY <2>1, <2>2 DEF hour
<1>4. CASE \E a \in hour, b \in hour : a.window # b.window
  <2>1. PICK a \in hour, b \in hour : a.window < b.window
    BY <1>1, <1>4
  <2>2. \A c \in hour : c.window \in {a.window, b.window}
    BY <1>1, <1>2, <2>1
  <2>3. hour \subseteq InWindow(a.window) \cup InWindow(b.window)
    BY <1>1, <2>2 DEF InWindow
  <2> QED
    BY <1>1, <2>3 DEF hour, Times
<1> QED
  BY <1>3, <1>4

\* No hour, wherever it begins, counts more than two windows do, and no window more
\* than the largest limit: a document that disappears is over, and a window that
\* opens is younger than three calls to the store.
THEOREM HoursAreBounded == Spec => []HourlyBound
<1> DEFINE limits == {limit[o] : o \in Operations}
<1>1. ASSUME QuotaInv PROVE Max(limits) \in limits /\ \A x \in limits : x <= Max(limits)
  <2>1. limits \in SUBSET Limits /\ limits # {} /\ Limits \in SUBSET Nat
    BY <1>1, QuotaAssumption DEF QuotaInv, Types
  <2>2. IsFiniteSet(limits)
    BY <2>1, FS_Subset, QuotaAssumption
  <2> HIDE DEF limits
  <2> QED
    BY <2>1, <2>2, MaxIsGreatest
<1>2. ASSUME QuotaInv, NEW w \in Times
      PROVE  /\ IsFiniteSet(InWindow(w)) /\ Cardinality(InWindow(w)) \in Nat
             /\ Max(limits) \in Nat /\ Cardinality(InWindow(w)) <= Max(limits)
  <2>1. InWindow(w) \in SUBSET counted /\ IsFiniteSet(counted)
    BY <1>2 DEF InWindow, QuotaInv, Types
  <2>2. IsFiniteSet(InWindow(w)) /\ Cardinality(InWindow(w)) \in Nat
    BY <2>1, FS_Subset, FS_CardinalityType
  <2>3. Max(limits) \in Nat /\ \A o \in Operations : limit[o] \in Nat /\ limit[o] <= Max(limits)
    BY <1>1, <1>2, Constants DEF QuotaInv, Types
  <2> HIDE DEF limits
  <2>4. CASE InWindow(w) = {}
    BY <2>2, <2>3, <2>4, FS_EmptySet
  <2>5. CASE InWindow(w) # {}
    <3>1. PICK o \in Operations : Cardinality(InWindow(w)) <= limit[o]
      BY <1>2, <2>5 DEF QuotaInv, CountInv, WindowsFit
    <3> QED
      BY <2>2, <2>3, <3>1
  <2> QED
    BY <2>2, <2>3, <2>4, <2>5
<1>3. QuotaInv => HourlyBound
  <2> SUFFICES ASSUME QuotaInv, NEW from \in 0..clock
               PROVE  Cardinality({c \in counted : from <= c.at /\ c.at < from + Window})
                        <= 2 * Max(limits)
    BY DEF QuotaInv, CountInv, HourlyBound
  <2> DEFINE hour == {c \in counted : from <= c.at /\ c.at < from + Window}
  <2>1. PICK v \in Times, w \in Times : hour \subseteq InWindow(v) \cup InWindow(w)
    BY TwoWindows DEF QuotaInv, Types, Times
  <2>2. /\ IsFiniteSet(InWindow(v)) /\ Cardinality(InWindow(v)) \in Nat
        /\ IsFiniteSet(InWindow(w)) /\ Cardinality(InWindow(w)) \in Nat
        /\ Cardinality(InWindow(v)) <= Max(limits) /\ Cardinality(InWindow(w)) <= Max(limits)
        /\ Max(limits) \in Nat
    BY <1>2
  <2> HIDE DEF hour, limits
  <2>3. /\ IsFiniteSet(InWindow(v) \cup InWindow(w))
        /\ Cardinality(InWindow(v) \cup InWindow(w)) <=
             Cardinality(InWindow(v)) + Cardinality(InWindow(w))
    <3>1. Cardinality(InWindow(v) \cap InWindow(w)) \in Nat
      BY <2>2, FS_Intersection, FS_CardinalityType
    <3>2. /\ IsFiniteSet(InWindow(v) \cup InWindow(w))
          /\ Cardinality(InWindow(v) \cup InWindow(w)) =
               Cardinality(InWindow(v)) + Cardinality(InWindow(w))
                 - Cardinality(InWindow(v) \cap InWindow(w))
      BY <2>2, FS_Union
    <3> QED
      BY <2>2, <3>1, <3>2
  <2>4. /\ IsFiniteSet(hour)
        /\ Cardinality(hour) <= Cardinality(InWindow(v) \cup InWindow(w))
    BY <2>1, <2>3, FS_Subset
  <2>5. Cardinality(hour) \in Nat /\ Cardinality(InWindow(v) \cup InWindow(w)) \in Nat
    BY <2>3, <2>4, FS_CardinalityType
  <2>6. Cardinality(hour) <= 2 * Max(limits)
    BY <2>2, <2>3, <2>4, <2>5
  <2> QED
    BY <2>6 DEF hour
<1> QED
  BY <1>3, InvariantHolds, PTL

-----------------------------------------------------------------------------
(* The cache: the invariant.                                               *)

\* what Cosmos DB holds one of: a document for an id, or the state of a scope
Rival(i, j) == IF KeepsAll THEN i = j ELSE ScopeOf[i] = ScopeOf[j]

\* Cosmos DB holds prices that are as late
Behind(x) == \E d \in stored : Rival(d.id, x.id) /\ d.at >= x.at

StoreInv ==
  /\ \A d \in stored : d.at <= now /\ d.since <= now
  /\ \A c, d \in stored : Rival(c.id, d.id) => c = d

HotInv == \A e \in hot : e.at <= now /\ e.inserted <= now /\ Behind(e)

\* what was read is cached in time, and Cosmos DB keeps up with it
ReadsInv(q) ==
  /\ q.started <= now
  /\ \A g \in q.got :
       /\ g.at <= now /\ g.read <= now /\ now <= g.read + CallTime
       /\ Behind(g)

OfScope(group) == \E s \in Scopes : group = Cache!IdsOf(s)

\* what the memory had is not later than what Cosmos DB has
FallbackInv(q) ==
  /\ \A f \in q.fallback : Behind(f)
  /\ q.stage = "read" =>
       \E group \in SUBSET Ids :
         /\ q.wanted = {group} /\ (OfScope(group) \/ \E i \in Ids : group = {i})
         /\ \A f \in q.fallback : f.id \in group
  /\ q.stage \in {"publish", "waited", "recover"} =>
       \A group \in q.wanted : OfScope(group)
  /\ q.stage = "cache" => \A g \in q.got, f \in q.fallback : f.at <= g.at

Served(q) ==
  /\ Cache!LookedUp(q) \/ q.stage = "failed"
  /\ \E f \in q.fallback : now - f.at <= UsableAge
  => q.answer # {}

LookupInv(q) == ReadsInv(q) /\ FallbackInv(q) /\ Served(q)

ServeInv == StoreInv /\ HotInv /\ \A r \in Requests : LookupInv(req[r])

Same(i, j) == ScopeOf[i] = ScopeOf[j]

\* an entry older than what Cosmos DB has was inserted before, or soon after
HotLags ==
  \A d \in stored, e \in hot :
    Same(d.id, e.id) => d.at <= e.at \/ e.inserted <= d.since + CallTime

ReadLags ==
  \A d \in stored, r \in Requests : \A g \in req[r].got :
    Same(d.id, g.id) => d.at <= g.at \/ g.read <= d.since

KeptSince(q) ==
  \A d \in q.settled : \E c \in stored : Same(c.id, d.id) /\ d.at <= c.at

OldEntries(q) ==
  \A d \in q.settled, e \in hot :
    Same(d.id, e.id) => d.at <= e.at \/ e.inserted + HotAge < q.started

OldReads(q) ==
  \A d \in q.settled, r \in Requests : \A g \in req[r].got :
    Same(d.id, g.id) => d.at <= g.at \/ g.read + HotAge + CallTime < q.started

OwnReads(q) ==
  q.stage \in {"cache", "cachelist"} => \A g \in q.got : q.started <= g.read

\* an entry that is late enough was cached since, or every entry is
Current(d, start) ==
  \/ \E e \in hot : Same(d.id, e.id) /\ d.at <= e.at /\ start <= e.inserted
  \/ \A e \in hot : Same(d.id, e.id) => d.at <= e.at

\* the prices of a scope are still to be cached, or its entries are current
ListInv(q) ==
  /\ q.stage \in {"list", "cachelist"} => q.wanted = {Cache!IdsOf(s) : s \in Scopes}
  /\ q.stage = "cachelist" =>
       \A d \in q.settled : (\E g \in q.got : Same(d.id, g.id)) \/ Current(d, q.started)

Settles(q) ==
  Cache!LookedUp(q) /\ q.via # "fallback" =>
    \A a \in q.answer, d \in q.settled : Same(d.id, a.id) => d.at <= a.at

SettledInv(q) ==
  KeptSince(q) /\ OldEntries(q) /\ OldReads(q) /\ OwnReads(q) /\ ListInv(q) /\ Settles(q)

SettleInv == HotLags /\ ReadLags /\ \A r \in Requests : SettledInv(req[r])

CacheTypes == Cache!TypeOK /\ IsFiniteSet(hot)

CacheInv == CacheTypes /\ ServeInv /\ (~KeepsAll => SettleInv)

-----------------------------------------------------------------------------
(* Lemmas about the cache's operators.                                     *)

LEMMA CacheConstants ==
  /\ ScopeOf \in [Ids -> Scopes]
  /\ KeepsAll \in BOOLEAN
  /\ MaxHot \in Nat /\ MaxHot >= 1
  /\ HotAge \in Nat /\ FreshAge \in Nat /\ UsableAge \in Nat /\ CallTime \in Nat /\ MaxTime \in Nat
  /\ HotAge <= FreshAge /\ FreshAge <= UsableAge
BY CacheAssumption DEF Cache!CacheAssumption

LEMMA CacheTyped ==
  ASSUME CacheTypes
  PROVE  /\ now \in Nat /\ now <= MaxTime
         /\ \A e \in hot : /\ e.id \in Ids /\ e.at \in Nat /\ e.status \in Cache!Statuses
                           /\ e.inserted \in Nat
         /\ \A d \in stored : d.id \in Ids /\ d.at \in Nat /\ d.since \in Nat
         /\ \A r \in Requests : req[r] \in Cache!Request
BY CacheConstants DEF CacheTypes, Cache!TypeOK

LEMMA RequestTyped ==
  ASSUME NEW q \in Cache!Request
  PROVE  /\ q.started \in Nat
         /\ \A g \in q.got : g.id \in Ids /\ g.at \in Nat /\ g.read \in Nat /\ g.read <= MaxTime
         /\ \A f \in q.fallback : f.id \in Ids /\ f.at \in Nat
         /\ \A f \in q.answer : f.id \in Ids /\ f.at \in Nat
         /\ \A d \in q.settled : d.id \in Ids /\ d.at \in Nat
         /\ \A group \in q.wanted : group \subseteq Ids
<1>1. /\ q.started \in 0..MaxTime /\ q.got \subseteq [id : Ids, at : Nat, read : 0..MaxTime]
      /\ q.fallback \subseteq Cache!Priced /\ q.answer \subseteq Cache!Priced
      /\ q.settled \subseteq [id : Ids, at : Nat] /\ q.wanted \subseteq SUBSET Ids
  BY DEF Cache!Request
<1> QED
  BY <1>1, CacheConstants DEF Cache!Priced

LEMMA BlankIs ==
  /\ Cache!Blank \in Cache!Request
  /\ Cache!Blank.stage = "idle" /\ Cache!Blank.got = {} /\ Cache!Blank.fallback = {}
  /\ Cache!Blank.settled = {} /\ Cache!Blank.started = 0
BY CacheConstants DEF Cache!Blank, Cache!Request

LEMMA AnsweredIs ==
  ASSUME NEW q \in Cache!Request, NEW S \in SUBSET Cache!Priced,
         NEW from \in {"memory", "store", "fallback", "refresh"}
  PROVE  LET a == Cache!Answered(q, S, from) IN
         /\ a \in Cache!Request
         /\ a.stage = "done" /\ a.answer = S /\ a.via = from /\ a.got = {}
         /\ a.started = q.started /\ a.fallback = q.fallback /\ a.settled = q.settled
BY DEF Cache!Answered, Cache!Request

LEMMA ReceivedIs ==
  ASSUME NEW q \in Cache!Request, NEW S, \A d \in S : d.id \in Ids /\ d.at \in Nat,
         now \in 0..MaxTime, NEW next \in {"cache", "cachelist", "publish", "waited"}
  PROVE  LET a == Cache!Received(q, S, next) IN
         /\ a \in Cache!Request
         /\ a.stage = next /\ a.got = {[id |-> d.id, at |-> d.at, read |-> now] : d \in S}
         /\ a.started = q.started /\ a.fallback = q.fallback /\ a.settled = q.settled
         /\ a.wanted = q.wanted
<1> DEFINE G == {[id |-> d.id, at |-> d.at, read |-> now] : d \in S}
<1>1. G \in SUBSET [id : Ids, at : Nat, read : 0..MaxTime]
  OBVIOUS
<1>2. Cache!Received(q, S, next) = [q EXCEPT !.stage = next, !.got = G]
  BY DEF Cache!Received
<1> HIDE DEF G
<1>3. LET a == Cache!Received(q, S, next) IN
         /\ a \in Cache!Request
         /\ a.stage = next /\ a.got = G
         /\ a.started = q.started /\ a.fallback = q.fallback /\ a.settled = q.settled
         /\ a.wanted = q.wanted
  BY <1>1, <1>2 DEF Cache!Request
<1> QED
  BY <1>3 DEF G

LEMMA ClassifiedIs ==
  ASSUME now \in Nat, NEW S, \A e \in S : e.id \in Ids /\ e.at \in Nat
  PROVE  /\ Cache!Classified(S) \in SUBSET Cache!Priced
         /\ \A a \in Cache!Classified(S) : \E e \in S : a.id = e.id /\ a.at = e.at
         /\ \A e \in S : e.at <= now /\ now - e.at <= UsableAge => Cache!Classified(S) # {}
<1>1. \A i, l : Cache!EffectiveStatus(i, l) \subseteq Cache!Statuses
  BY DEF Cache!EffectiveStatus, Cache!Statuses
<1>2. ASSUME NEW a \in Cache!Classified(S)
      PROVE  \E e \in S : \E t \in Cache!Statuses : a = [id |-> e.id, at |-> e.at, status |-> t]
  BY <1>1 DEF Cache!Classified
<1>3. ASSUME NEW e \in S, e.at <= now, now - e.at <= UsableAge
      PROVE  Cache!Classified(S) # {}
  <2>1. PICK t : t \in Cache!EffectiveStatus(e.at, e.status)
    BY <1>3, CacheConstants DEF Cache!EffectiveStatus
  <2>2. [id |-> e.id, at |-> e.at, status |-> t] \in Cache!Classified(S)
    BY <2>1 DEF Cache!Classified
  <2> QED
    BY <2>2
<1> QED
  BY <1>2, <1>3 DEF Cache!Priced

LEMMA NewestIs ==
  ASSUME NEW S, NEW groups, NEW T \in Cache!Newest(S, groups)
  PROVE  /\ T \subseteq S
         /\ \A t \in T : \E group \in groups : t \in Cache!NewestOf(S, group)
         /\ \A group \in groups :
              (\E e \in S : e.id \in group) => \E t \in T : t \in Cache!NewestOf(S, group)
<1> DEFINE known == {g \in groups : \E e \in S : e.id \in g}
<1>1. PICK pick \in [known -> S] :
        /\ \A g \in known : pick[g] \in Cache!NewestOf(S, g)
        /\ T = {pick[g] : g \in known}
  BY DEF Cache!Newest
<1> QED
  BY <1>1

\* what Cosmos DB had, when a request looked in the memory, for longer than an entry
\* lives
HadSettled(q) ==
  \A d \in q.settled :
    \E c \in stored : c.id = d.id /\ c.at = d.at /\ c.since + HotAge + CallTime < now

\* What a look in the memory takes with it.
LEMMA LookingIs ==
  ASSUME CacheTypes, NEW groups \in SUBSET SUBSET Ids, NEW T \in SUBSET hot,
         NEW whenDown \in {"fail", "memory"}, NEW q, q = Cache!Looking(groups, T, whenDown)
  PROVE  /\ q \in Cache!Request
         /\ q.wanted = groups /\ q.started = now /\ q.fallback = Cache!Classified(T)
         /\ q.got = {}
         /\ HadSettled(q)
<1> DEFINE old == {d \in stored : d.since + HotAge + CallTime < now}
           settled == {[id |-> d.id, at |-> d.at] : d \in old}
<1>1. settled \in SUBSET [id : Ids, at : Nat] /\ now \in 0..MaxTime
  BY CacheTyped
<1>2. Cache!Classified(T) \in SUBSET Cache!Priced
  BY CacheTyped, ClassifiedIs
<1>3. q = [Cache!Blank EXCEPT !.wanted = groups, !.started = now,
             !.fallback = Cache!Classified(T), !.onError = whenDown, !.settled = settled]
  BY DEF Cache!Looking
<1>4. \A d \in settled :
        \E c \in stored : c.id = d.id /\ c.at = d.at /\ c.since + HotAge + CallTime < now
  OBVIOUS
<1> HIDE DEF settled
<1>5. /\ q \in Cache!Request
      /\ q.wanted = groups /\ q.started = now /\ q.fallback = Cache!Classified(T)
      /\ q.got = {} /\ q.settled = settled
  BY <1>1, <1>2, <1>3 DEF Cache!Blank, Cache!Request
<1> QED
  BY <1>4, <1>5 DEF HadSettled

-----------------------------------------------------------------------------
(* Lemmas about what a step does to the memory and to Cosmos DB.           *)

LEMMA CardinalityIs == \A S : Cache!Cardinality(S) = Cardinality(S)
BY DEF Cache!Cardinality, Cardinality

LEMMA RivalsAreSame == ASSUME ~KeepsAll, NEW i, NEW j PROVE Rival(i, j) <=> Same(i, j)
BY DEF Rival, Same

\* Cosmos DB never goes back.
LEMMA PutKeeps ==
  ASSUME CacheTypes, StoreInv, NEW id \in Ids, NEW at \in Cache!Retrievals,
         stored' = Cache!Put(id, at), now' = now
  PROVE  /\ StoreInv'
         /\ stored' \subseteq [id : Ids, at : Nat, since : 0..MaxTime]
         /\ \A d \in stored' : d \in stored \/ d.since = now
         /\ \A x : x.at \in Nat /\ Behind(x) => Behind(x)'
<1> DEFINE rivals == {d \in stored : Rival(d.id, id)}
           new == [id |-> id, at |-> at, since |-> now]
<1>1. /\ at \in Nat /\ at <= now /\ now \in Nat /\ now \in 0..MaxTime
      /\ stored \subseteq [id : Ids, at : Nat, since : 0..MaxTime]
  BY CacheTyped DEF Cache!Retrievals, CacheTypes, Cache!TypeOK
<1>2. \/ stored' = stored
      \/ /\ stored' = (stored \ rivals) \cup {new}
         /\ \A d \in rivals : ~(d.at >= at)
  BY DEF Cache!Put, Rival
<1>3. CASE stored' = stored
  BY <1>1, <1>3 DEF StoreInv, Behind
<1>4. CASE /\ stored' = (stored \ rivals) \cup {new}
           /\ \A d \in rivals : ~(d.at >= at)
  <2>1. \A d \in stored' : d \in stored \ rivals \/ d = new
    BY <1>4
  <2>2. stored' \subseteq [id : Ids, at : Nat, since : 0..MaxTime]
    BY <1>1, <2>1
  <2>3. \A d \in stored' : d \in stored \/ d.since = now
    BY <2>1
  <2>4. StoreInv'
    <3>1. \A d \in stored' : d.at <= now' /\ d.since <= now'
      BY <1>1, <2>1 DEF StoreInv
    <3>2. \A c, d \in stored' : Rival(c.id, d.id) => c = d
      BY <2>1 DEF StoreInv, Rival
    <3> QED
      BY <3>1, <3>2 DEF StoreInv
  <2>5. ASSUME NEW x, x.at \in Nat, Behind(x) PROVE Behind(x)'
    <3>1. PICK d \in stored : Rival(d.id, x.id) /\ d.at >= x.at
      BY <2>5 DEF Behind
    <3>2. CASE d \in rivals
      <4>1. Rival(id, x.id) /\ d.at \in Nat /\ d.at < at
        BY <1>1, <1>4, <3>1, <3>2 DEF Rival
      <4>2. x.at <= at
        BY <1>1, <2>5, <3>1, <4>1
      <4>3. new \in stored' /\ new.id = id /\ new.at = at
        BY <1>4
      <4> HIDE DEF new
      <4> QED
        BY <1>1, <2>5, <4>1, <4>2, <4>3 DEF Behind
    <3>3. CASE d \notin rivals
      BY <1>4, <3>1, <3>3 DEF Behind
    <3> QED
      BY <3>2, <3>3
  <2> QED
    BY <2>2, <2>3, <2>4, <2>5
<1> QED
  BY <1>2, <1>3, <1>4

\* An insertion adds its entry, to as many as there may be, and makes room for it by
\* the entry of its id or by one that nothing was inserted before.
LEMMA InsertKeeps ==
  ASSUME CacheTypes, NEW e \in [id : Ids, at : Nat, status : Cache!Statuses, inserted : 0..MaxTime],
         hot' \in Cache!Inserted(e)
  PROVE  /\ e \in hot' /\ hot' \subseteq hot \cup {e}
         /\ \A y \in hot \ hot' : y.id = e.id \/ \A x \in hot : y.inserted <= x.inserted
         /\ hot' \subseteq [id : Ids, at : Nat, status : Cache!Statuses, inserted : 0..MaxTime]
         /\ IsFiniteSet(hot') /\ Cardinality(hot') <= MaxHot
<1> DEFINE others == {x \in hot : x.id # e.id}
<1>1. \/ \E x \in hot : /\ others = hot /\ Cardinality(hot) >= MaxHot
                        /\ hot' = (hot \ {x}) \cup {e}
                        /\ \A y \in hot : x.inserted <= y.inserted
      \/ /\ hot' = others \cup {e}
         /\ others = hot => ~(Cardinality(hot) >= MaxHot)
  BY CardinalityIs DEF Cache!Inserted
<1>2. /\ IsFiniteSet(hot) /\ Cardinality(hot) \in Nat /\ Cardinality(hot) <= MaxHot
      /\ MaxHot \in Nat
      /\ hot \subseteq [id : Ids, at : Nat, status : Cache!Statuses, inserted : 0..MaxTime]
  <2> QED
    BY CardinalityIs, FS_CardinalityType, CacheConstants DEF CacheTypes, Cache!TypeOK
<1> HIDE DEF others
<1>3. others \subseteq hot
  BY DEF others
<1>4. ASSUME NEW x \in hot, others = hot, hot' = (hot \ {x}) \cup {e}
      PROVE  IsFiniteSet(hot') /\ Cardinality(hot') <= MaxHot
  <2>1. IsFiniteSet(hot \ {x}) /\ Cardinality(hot \ {x}) = Cardinality(hot) - 1
    BY <1>2, <1>4, FS_RemoveElement
  <2>2. e \notin hot
    BY <1>4 DEF others
  <2>3. IsFiniteSet(hot') /\ Cardinality(hot') = Cardinality(hot \ {x}) + 1
    BY <1>4, <2>1, <2>2, FS_AddElement
  <2> QED
    BY <1>2, <2>1, <2>3
<1>5. ASSUME hot' = others \cup {e}, others = hot => ~(Cardinality(hot) >= MaxHot)
      PROVE  IsFiniteSet(hot') /\ Cardinality(hot') <= MaxHot
  <2>1. IsFiniteSet(others) /\ Cardinality(others) \in Nat /\ Cardinality(others) < MaxHot
    <3>1. IsFiniteSet(others) /\ Cardinality(others) \in Nat
          /\ Cardinality(others) <= Cardinality(hot)
          /\ (Cardinality(others) = Cardinality(hot) => others = hot)
      BY <1>2, <1>3, FS_Subset, FS_CardinalityType
    <3> QED
      BY <1>2, <1>5, <3>1
  <2>2. e \notin others
    BY DEF others
  <2>3. IsFiniteSet(hot') /\ Cardinality(hot') = Cardinality(others) + 1
    BY <1>5, <2>1, <2>2, FS_AddElement
  <2> QED
    BY <1>2, <2>1, <2>3
<1>6. CASE \E x \in hot : /\ others = hot /\ Cardinality(hot) >= MaxHot
                          /\ hot' = (hot \ {x}) \cup {e}
                          /\ \A y \in hot : x.inserted <= y.inserted
  BY <1>2, <1>4, <1>6
<1>7. CASE /\ hot' = others \cup {e}
           /\ others = hot => ~(Cardinality(hot) >= MaxHot)
  <2>1. IsFiniteSet(hot') /\ Cardinality(hot') <= MaxHot
    BY <1>5, <1>7
  <2> QED
    BY <1>2, <1>7, <2>1 DEF others
<1> QED
  BY <1>1, <1>6, <1>7 DEF others

\* A step of a request, or a publication: time stands still, Cosmos DB goes forward,
\* and what is cached had been read.
Caches ==
  \E r \in Requests : \E g \in req[r].got, l \in Cache!Statuses :
    hot' \in Cache!Inserted(Cache!Entry(g, l))

SharedStep ==
  /\ now' = now
  /\ StoreInv'
  /\ stored' \subseteq [id : Ids, at : Nat, since : 0..MaxTime]
  /\ \A d \in stored' : d \in stored \/ d.since = now
  /\ \A x : x.at \in Nat /\ Behind(x) => Behind(x)'
  /\ hot' = hot \/ Caches

\* what the request has read since it had read before
Fetched(r, q) ==
  \A g \in q.got :
    \/ g \in req[r].got
    \/ /\ g.read = now
       /\ \E d \in stored' : d.id = g.id /\ (d.at = g.at \/ (KeepsAll /\ g.at <= d.at))

LEMMA QuietStep ==
  ASSUME CacheInv, UNCHANGED <<now, hot, stored>>
  PROVE  SharedStep
BY CacheTyped DEF CacheInv, ServeInv, CacheTypes, Cache!TypeOK, SharedStep, StoreInv, Behind

LEMMA CachedEntry ==
  ASSUME CacheInv, NEW r \in Requests, NEW g \in req[r].got, NEW l \in Cache!Statuses
  PROVE  LET e == Cache!Entry(g, l) IN
         /\ e \in [id : Ids, at : Nat, status : Cache!Statuses, inserted : 0..MaxTime]
         /\ e.id = g.id /\ e.at = g.at /\ e.status = l /\ e.inserted = now
         /\ e.at <= now /\ now <= g.read + CallTime /\ Behind(e)
<1>1. /\ g.id \in Ids /\ g.at \in Nat /\ now \in 0..MaxTime
      /\ g.at <= now /\ now <= g.read + CallTime /\ Behind(g)
  BY RequestTyped, CacheTyped DEF CacheInv, CacheTypes, Cache!TypeOK, ServeInv, LookupInv, ReadsInv
<1> QED
  BY <1>1 DEF Cache!Entry, Behind

LEMMA CachingStep ==
  ASSUME CacheInv, UNCHANGED <<now, stored>>, NEW r \in Requests, NEW g \in req[r].got,
         NEW l \in Cache!Statuses, hot' \in Cache!Inserted(Cache!Entry(g, l))
  PROVE  SharedStep
<1>1. StoreInv' /\ stored' \subseteq [id : Ids, at : Nat, since : 0..MaxTime]
      /\ \A x : x.at \in Nat /\ Behind(x) => Behind(x)'
  BY DEF CacheInv, ServeInv, CacheTypes, Cache!TypeOK, StoreInv, Behind
<1> QED
  BY <1>1 DEF SharedStep, Caches

LEMMA StoringStep ==
  ASSUME CacheInv, UNCHANGED <<now, hot>>, NEW id \in Ids, NEW at \in Cache!Retrievals,
         stored' = Cache!Put(id, at)
  PROVE  SharedStep
BY PutKeeps DEF CacheInv, ServeInv, SharedStep

\* the entries there are after a step
LEMMA EntriesAfter ==
  ASSUME CacheInv, SharedStep
  PROVE  /\ hot' \subseteq [id : Ids, at : Nat, status : Cache!Statuses, inserted : 0..MaxTime]
         /\ IsFiniteSet(hot') /\ Cardinality(hot') <= MaxHot
         /\ \A e \in hot' :
              \/ e \in hot
              \/ /\ e.inserted = now /\ e.at <= now /\ Behind(e)
                 /\ \E r \in Requests : \E g \in req[r].got :
                      e.id = g.id /\ e.at = g.at /\ now <= g.read + CallTime
         /\ \A y \in hot \ hot' :
              \/ \E e \in hot' : e.id = y.id /\ e.inserted = now
              \/ \A x \in hot : y.inserted <= x.inserted
<1>1. CASE hot' = hot
  BY <1>1, CardinalityIs DEF CacheInv, CacheTypes, Cache!TypeOK
<1>2. CASE Caches
  <2>1. PICK r \in Requests : \E g \in req[r].got, l \in Cache!Statuses :
          hot' \in Cache!Inserted(Cache!Entry(g, l))
    BY <1>2 DEF Caches
  <2>2. PICK g \in req[r].got, l \in Cache!Statuses : hot' \in Cache!Inserted(Cache!Entry(g, l))
    BY <2>1
  <2>3. PICK e : e = Cache!Entry(g, l)
    OBVIOUS
  <2>4. /\ e \in [id : Ids, at : Nat, status : Cache!Statuses, inserted : 0..MaxTime]
        /\ e.id = g.id /\ e.at = g.at /\ e.status = l /\ e.inserted = now
        /\ e.at <= now /\ now <= g.read + CallTime /\ Behind(e)
    BY <2>3, CachedEntry
  <2> QED
    BY <2>2, <2>3, <2>4, InsertKeeps DEF CacheInv
<1> QED
  BY <1>1, <1>2 DEF SharedStep

LEMMA HotAfter == ASSUME CacheInv, SharedStep PROVE HotInv'
BY EntriesAfter, CacheTyped DEF CacheInv, ServeInv, HotInv, SharedStep

-----------------------------------------------------------------------------
(* Lemmas about what a step leaves of the invariant.                       *)

CacheStep ==
  /\ SharedStep
  /\ req' \in [Requests -> Cache!Request]
  /\ \A p \in Requests : Fetched(p, req'[p])

LEMMA TypesAfter == ASSUME CacheInv, CacheStep PROVE CacheTypes'
<1>1. now' \in 0..MaxTime /\ req' \in [Requests -> Cache!Request]
      /\ stored' \subseteq [id : Ids, at : Nat, since : 0..MaxTime]
  BY DEF CacheInv, CacheTypes, Cache!TypeOK, CacheStep, SharedStep
<1> QED
  BY <1>1, CardinalityIs, EntriesAfter DEF CacheStep, CacheTypes, Cache!TypeOK

\* What is read from Cosmos DB is of it.
LEMMA FetchedIs ==
  ASSUME CacheInv, SharedStep, NEW r \in Requests, NEW q \in Cache!Request, Fetched(r, q),
         NEW g \in q.got
  PROVE  /\ g.at <= now /\ g.read <= now /\ now <= g.read + CallTime
         /\ Behind(g)'
         /\ \/ g \in req[r].got
            \/ g.read = now /\ (~KeepsAll => \E d \in stored' : d.id = g.id /\ d.at = g.at)
<1>1. CASE g \in req[r].got
  BY <1>1, RequestTyped DEF CacheInv, ServeInv, LookupInv, ReadsInv, SharedStep
<1>2. CASE g \notin req[r].got
  <2>1. PICK d \in stored' :
          /\ d.id = g.id /\ (d.at = g.at \/ (KeepsAll /\ g.at <= d.at))
          /\ g.read = now
    BY <1>2 DEF Fetched
  <2>2. d.at <= now /\ now \in Nat /\ d.id \in Ids /\ d.at \in Nat /\ g.at \in Nat
    BY CacheTyped, RequestTyped DEF CacheInv, SharedStep, StoreInv
  <2> QED
    BY <2>1, <2>2, CacheConstants DEF Behind, Rival
<1> QED
  BY <1>1, <1>2

LEMMA ReadsAfter ==
  ASSUME CacheInv, SharedStep, NEW r \in Requests, NEW q \in Cache!Request, Fetched(r, q),
         q.started <= now
  PROVE  ReadsInv(q)'
BY FetchedIs DEF SharedStep, ReadsInv

\* Where a request has not moved, it is as good as it was.
LEMMA LookupStays ==
  ASSUME CacheInv, SharedStep, NEW r \in Requests, NEW q, q = req[r]
  PROVE  LookupInv(q)'
<1>1. q \in Cache!Request /\ LookupInv(q) /\ now' = now
  BY CacheTyped DEF CacheInv, ServeInv, SharedStep
<1>2. ReadsInv(q)'
  BY <1>1, ReadsAfter DEF LookupInv, ReadsInv, Fetched
<1>3. FallbackInv(q)'
  <2>1. \A f \in q.fallback : Behind(f)'
    BY <1>1, RequestTyped DEF LookupInv, FallbackInv, SharedStep
  <2> QED
    BY <1>1, <2>1 DEF LookupInv, FallbackInv, OfScope, Cache!IdsOf
<1>4. Served(q)'
  BY <1>1 DEF LookupInv, Served, Cache!LookedUp
<1> QED
  BY <1>2, <1>3, <1>4 DEF LookupInv

LEMMA LagsAfter ==
  ASSUME CacheInv, CacheStep, ~KeepsAll
  PROVE  HotLags' /\ ReadLags'
<1>1. HotLags /\ ReadLags /\ now \in Nat /\ CallTime \in Nat
  BY CacheTyped, CacheConstants DEF CacheInv, SettleInv
<1>2. ASSUME NEW d \in stored', NEW e \in hot', Same(d.id, e.id)
      PROVE  d.at <= e.at \/ e.inserted <= d.since + CallTime
  <2>1. e.inserted <= now /\ e.inserted \in Nat
    BY CacheTyped, EntriesAfter DEF CacheInv, ServeInv, HotInv, CacheStep
  <2>2. CASE d.since = now
    BY <1>1, <2>1, <2>2
  <2>3. CASE d \in stored /\ e \in hot
    BY <1>1, <1>2, <2>3 DEF HotLags
  <2>4. CASE d \in stored /\ e \notin hot
    <3>1. PICK r \in Requests : \E g \in req[r].got :
            e.id = g.id /\ e.at = g.at /\ now <= g.read + CallTime
      BY <2>4, EntriesAfter DEF CacheStep
    <3>2. PICK g \in req[r].got : e.id = g.id /\ e.at = g.at /\ now <= g.read + CallTime
      BY <3>1
    <3>3. d.at <= g.at \/ g.read <= d.since
      BY <1>1, <1>2, <2>4, <3>2 DEF ReadLags
    <3>4. g.read \in Nat /\ d.since \in Nat
      BY <2>4, CacheTyped, RequestTyped DEF CacheInv
    <3> QED
      BY <1>1, <2>1, <3>2, <3>3, <3>4
  <2> QED
    BY <2>2, <2>3, <2>4 DEF CacheStep, SharedStep
<1>3. ASSUME NEW d \in stored', NEW r \in Requests, NEW g \in req'[r].got, Same(d.id, g.id)
      PROVE  d.at <= g.at \/ g.read <= d.since
  <2>1. req'[r] \in Cache!Request /\ Fetched(r, req'[r])
    BY DEF CacheStep
  <2>2. /\ g.at \in Nat /\ g.read <= now
        /\ g \in req[r].got \/ \E c \in stored' : c.id = g.id /\ c.at = g.at
    BY <2>1, FetchedIs, RequestTyped DEF CacheStep
  <2>3. CASE d.since = now
    BY <2>2, <2>3
  <2>4. CASE d \in stored /\ g \in req[r].got
    BY <1>1, <1>3, <2>4 DEF ReadLags
  <2>5. CASE \E c \in stored' : c.id = g.id /\ c.at = g.at
    <3>1. PICK c \in stored' : c.id = g.id /\ c.at = g.at
      BY <2>5
    <3>2. c = d
      BY <1>3, <3>1, RivalsAreSame DEF CacheStep, SharedStep, StoreInv, Same
    <3> QED
      BY <2>2, <3>1, <3>2
  <2> QED
    BY <2>2, <2>3, <2>4, <2>5 DEF CacheStep, SharedStep
<1> QED
  BY <1>2, <1>3 DEF HotLags, ReadLags

\* What had settled when a request looked in the memory stays so.
LEMMA SettledStays ==
  ASSUME CacheInv, CacheStep, ~KeepsAll, NEW r \in Requests, NEW q,
         q.settled = req[r].settled, q.started = req[r].started
  PROVE  KeptSince(q)' /\ OldEntries(q)' /\ OldReads(q)'
<1>1. /\ KeptSince(req[r]) /\ OldEntries(req[r]) /\ OldReads(req[r])
      /\ req[r].started \in Nat /\ req[r].started <= now /\ now \in Nat
      /\ HotAge \in Nat /\ CallTime \in Nat
      /\ \A d \in req[r].settled : d.id \in Ids /\ d.at \in Nat
  BY CacheTyped, CacheConstants, RequestTyped
     DEF CacheInv, SettleInv, SettledInv, ServeInv, LookupInv, ReadsInv
<1>2. ASSUME NEW d \in req[r].settled PROVE \E c \in stored' : Same(c.id, d.id) /\ d.at <= c.at
  <2>1. PICK c \in stored : Same(c.id, d.id) /\ d.at <= c.at
    BY <1>1 DEF KeptSince
  <2>2. Behind(c)'
    <3>1. c.at \in Nat /\ Behind(c)
      BY CacheTyped, CacheConstants DEF CacheInv, Behind, Rival
    <3> QED
      BY <3>1 DEF CacheStep, SharedStep
  <2>3. PICK b \in stored' : Rival(b.id, c.id) /\ b.at >= c.at
    BY <2>2 DEF Behind
  <2>4. Same(b.id, d.id) /\ b.at \in Nat /\ c.at \in Nat
    BY <2>1, <2>3, CacheTyped, RivalsAreSame DEF Same, CacheStep, SharedStep, CacheInv
  <2> QED
    BY <1>1, <2>1, <2>3, <2>4
<1>3. ASSUME NEW d \in req[r].settled, NEW e \in hot', Same(d.id, e.id)
      PROVE  d.at <= e.at \/ e.inserted + HotAge < req[r].started
  <2>1. CASE e \in hot
    BY <1>1, <1>3, <2>1 DEF OldEntries
  <2>2. CASE e \notin hot
    <3>1. PICK p \in Requests : \E g \in req[p].got :
            e.id = g.id /\ e.at = g.at /\ now <= g.read + CallTime
      BY <2>2, EntriesAfter DEF CacheStep
    <3>2. PICK g \in req[p].got : e.id = g.id /\ e.at = g.at /\ now <= g.read + CallTime
      BY <3>1
    <3>3. d.at <= g.at \/ g.read + HotAge + CallTime < req[r].started
      BY <1>1, <1>3, <3>2 DEF OldReads
    <3>4. g.read \in Nat
      BY CacheTyped, RequestTyped DEF CacheInv
    <3> QED
      BY <1>1, <3>2, <3>3, <3>4
  <2> QED
    BY <2>1, <2>2
<1>4. ASSUME NEW d \in req[r].settled, NEW p \in Requests, NEW g \in req'[p].got, Same(d.id, g.id)
      PROVE  d.at <= g.at \/ g.read + HotAge + CallTime < req[r].started
  <2>1. CASE g \in req[p].got
    BY <1>1, <1>4, <2>1 DEF OldReads
  <2>2. CASE g \notin req[p].got
    <3>1. req'[p] \in Cache!Request /\ Fetched(p, req'[p])
      BY DEF CacheStep
    <3>2. PICK c \in stored' : c.id = g.id /\ c.at = g.at
      BY <2>2, <3>1, FetchedIs DEF CacheStep
    <3>3. PICK b \in stored' : Same(b.id, d.id) /\ d.at <= b.at
      BY <1>2
    <3>4. c = b
      BY <1>4, <3>2, <3>3, RivalsAreSame DEF CacheStep, SharedStep, StoreInv, Same
    <3> QED
      BY <3>2, <3>3, <3>4
  <2> QED
    BY <2>1, <2>2
<1> QED
  BY <1>2, <1>3, <1>4 DEF KeptSince, OldEntries, OldReads

\* What is current stays so, whatever is cached and whatever makes room for it.
LEMMA CurrentStays ==
  ASSUME CacheInv, CacheStep, ~KeepsAll, NEW r \in Requests, NEW d \in req[r].settled,
         NEW start, start = req[r].started, Current(d, start)
  PROVE  Current(d, start)'
<1>1. PICK q : q = req[r]
  OBVIOUS
<1>2. OldEntries(q) /\ OldEntries(q)'
  BY <1>1, SettledStays DEF CacheInv, SettleInv, SettledInv
<1>3. /\ start \in Nat /\ start <= now /\ now \in Nat /\ HotAge \in Nat
      /\ d.at \in Nat /\ q.started = start /\ d \in q.settled
  BY <1>1, CacheTyped, CacheConstants, RequestTyped DEF CacheInv, ServeInv, LookupInv, ReadsInv
<1>4. \A e \in hot' : e \in hot \/ e.inserted = now
  BY EntriesAfter DEF CacheStep
<1>5. \A e \in hot' : e.inserted = now /\ Same(d.id, e.id) => d.at <= e.at
  BY <1>2, <1>3 DEF OldEntries
<1>6. CASE \A e \in hot : Same(d.id, e.id) => d.at <= e.at
  BY <1>4, <1>5, <1>6 DEF Current
<1>7. ASSUME NEW y \in hot, Same(d.id, y.id), d.at <= y.at, start <= y.inserted
      PROVE  Current(d, start)'
  <2>1. CASE y \in hot'
    BY <1>7, <2>1 DEF Current
  <2>2. ASSUME NEW e \in hot', e.id = y.id, e.inserted = now PROVE Current(d, start)'
    <3>1. Same(d.id, e.id)
      BY <1>7, <2>2 DEF Same
    <3> QED
      BY <1>3, <1>5, <2>2, <3>1 DEF Current
  <2>3. CASE \A x \in hot : y.inserted <= x.inserted
    <3>1. ASSUME NEW x \in hot, Same(d.id, x.id) PROVE d.at <= x.at
      <4>1. x.inserted \in Nat /\ y.inserted \in Nat
        BY CacheTyped DEF CacheInv
      <4>2. ~(x.inserted + HotAge < start)
        BY <1>3, <1>7, <2>3, <4>1
      <4> QED
        BY <1>2, <1>3, <3>1, <4>2 DEF OldEntries
    <3> QED
      BY <1>4, <1>5, <3>1 DEF Current
  <2> QED
    BY <2>1, <2>2, <2>3, EntriesAfter DEF CacheStep
<1> QED
  BY <1>6, <1>7 DEF Current

LEMMA SettledInvStays ==
  ASSUME CacheInv, CacheStep, ~KeepsAll, NEW r \in Requests, NEW q, q = req[r]
  PROVE  SettledInv(q)'
<1>1. SettledInv(q)
  BY DEF CacheInv, SettleInv
<1>2. KeptSince(q)' /\ OldEntries(q)' /\ OldReads(q)'
  BY SettledStays
<1>3. OwnReads(q)' /\ Settles(q)'
  BY <1>1 DEF SettledInv, OwnReads, Settles, Cache!LookedUp
<1>4. ListInv(q)'
  BY <1>1, CurrentStays DEF SettledInv, ListInv, Cache!IdsOf
<1> QED
  BY <1>2, <1>3, <1>4 DEF SettledInv

\* So a step of a request keeps the invariant if it does for the request itself.
LEMMA StepOfRequest ==
  ASSUME CacheInv, SharedStep, NEW r \in Requests, NEW q \in Cache!Request,
         req' = [req EXCEPT ![r] = q], Fetched(r, q)
  PROVE  /\ CacheStep
         /\ LookupInv(q)' /\ (~KeepsAll => SettledInv(q)') => CacheInv'
<1>1. /\ req'[r] = q
      /\ \A p \in Requests : p # r => req'[p] = req[p]
      /\ req' \in [Requests -> Cache!Request]
  BY DEF CacheInv, CacheTypes, Cache!TypeOK
<1>2. CacheStep
  BY <1>1 DEF CacheStep, Fetched
<1>3. ASSUME LookupInv(q)' PROVE ServeInv'
  <2>1. ASSUME NEW p \in Requests PROVE LookupInv(req[p])'
    <3>1. PICK u : u = req'[p]
      OBVIOUS
    <3>2. LookupInv(u)'
      BY <1>1, <1>3, <3>1, LookupStays
    <3> QED
      BY <3>1, <3>2 DEF LookupInv, ReadsInv, FallbackInv, Served, Cache!LookedUp, Behind, OfScope,
         Cache!IdsOf
  <2> QED
    BY <2>1, HotAfter DEF ServeInv, SharedStep
<1>4. ASSUME ~KeepsAll, SettledInv(q)' PROVE SettleInv'
  <2>1. ASSUME NEW p \in Requests PROVE SettledInv(req[p])'
    <3>1. PICK u : u = req'[p]
      OBVIOUS
    <3>2. SettledInv(u)'
      BY <1>1, <1>2, <1>4, <3>1, SettledInvStays
    <3> QED
      BY <3>1, <3>2 DEF SettledInv, KeptSince, OldEntries, OldReads, OwnReads, ListInv, Current,
         Settles, Cache!LookedUp, Cache!IdsOf
  <2> QED
    BY <1>2, <1>4, <2>1, LagsAfter DEF SettleInv
<1> QED
  BY <1>2, <1>3, <1>4, TypesAfter DEF CacheInv

-----------------------------------------------------------------------------
(* The steps of a request.                                                 *)

\* A request that goes on with the look in the memory it began with.
LEMMA CarriesOn ==
  ASSUME CacheInv, SharedStep, NEW r \in Requests, NEW q \in Cache!Request,
         req' = [req EXCEPT ![r] = q], Fetched(r, q),
         q.started = req[r].started, q.fallback = req[r].fallback, q.settled = req[r].settled
  PROVE  /\ ReadsInv(q)'
         /\ \A f \in q.fallback : Behind(f)'
         /\ ~KeepsAll => KeptSince(q)' /\ OldEntries(q)' /\ OldReads(q)'
<1>1. ReadsInv(req[r]) /\ FallbackInv(req[r]) /\ req[r] \in Cache!Request
  BY CacheTyped DEF CacheInv, ServeInv, LookupInv
<1>2. ReadsInv(q)'
  BY <1>1, ReadsAfter DEF ReadsInv
<1>3. \A f \in q.fallback : Behind(f)'
  BY <1>1, RequestTyped DEF FallbackInv, SharedStep
<1>4. ~KeepsAll => KeptSince(q)' /\ OldEntries(q)' /\ OldReads(q)'
  BY StepOfRequest, SettledStays
<1> QED
  BY <1>2, <1>3, <1>4

\* A request that has not looked in the memory.
LEMMA BlankStep ==
  ASSUME CacheInv, SharedStep, NEW r \in Requests, NEW q \in Cache!Request,
         req' = [req EXCEPT ![r] = q], Fetched(r, q),
         q.started = 0, q.fallback = {}, q.settled = {},
         q.stage \in {"idle", "publish", "waited"},
         q.stage # "idle" => \A group \in q.wanted : OfScope(group)
  PROVE  CacheInv'
<1>1. ReadsInv(q)'
  BY ReadsAfter, CacheTyped DEF CacheInv
<1>2. FallbackInv(q)' /\ Served(q)'
  BY DEF FallbackInv, Served, OfScope, Cache!IdsOf
<1>3. SettledInv(q)'
  BY DEF SettledInv, KeptSince, OldEntries, OldReads, OwnReads, ListInv, Settles
<1> QED
  BY <1>1, <1>2, <1>3, StepOfRequest DEF LookupInv

\* An answer that is there when something usable was, and no older than what had
\* settled.
LEMMA AnswerStep ==
  ASSUME CacheInv, SharedStep, NEW r \in Requests, NEW S \in SUBSET Cache!Priced,
         NEW from \in {"store", "fallback", "refresh"},
         req' = [req EXCEPT ![r] = Cache!Answered(req[r], S, from)],
         from # "refresh" =>
           ((\E f \in req[r].fallback : now - f.at <= UsableAge) => S # {}),
         from = "store" /\ ~KeepsAll =>
           \A a \in S, d \in req[r].settled : Same(d.id, a.id) => d.at <= a.at
  PROVE  CacheInv'
<1>1. PICK q : q = Cache!Answered(req[r], S, from)
  OBVIOUS
<1>2. /\ q \in Cache!Request
      /\ q.stage = "done" /\ q.answer = S /\ q.via = from /\ q.got = {}
      /\ q.started = req[r].started /\ q.fallback = req[r].fallback /\ q.settled = req[r].settled
  BY <1>1, AnsweredIs, CacheTyped DEF CacheInv
<1>3. Fetched(r, q)
  BY <1>2 DEF Fetched
<1>4. /\ ReadsInv(q)'
      /\ \A f \in q.fallback : Behind(f)'
      /\ ~KeepsAll => KeptSince(q)' /\ OldEntries(q)' /\ OldReads(q)'
  BY <1>1, <1>2, <1>3, CarriesOn
<1>5. LookupInv(q)'
  <2>1. FallbackInv(q)'
    BY <1>2, <1>4 DEF FallbackInv
  <2>2. Served(q)'
    BY <1>2 DEF Served, Cache!LookedUp, SharedStep
  <2> QED
    BY <1>4, <2>1, <2>2 DEF LookupInv
<1>6. ~KeepsAll => SettledInv(q)'
  BY <1>2, <1>4 DEF SettledInv, OwnReads, ListInv, Settles, Cache!LookedUp
<1> QED
  BY <1>1, <1>2, <1>3, <1>5, <1>6, StepOfRequest

\* What had settled when a request looks in the memory is what Cosmos DB has, and what
\* is older was read, or cached, too long ago.
LEMMA LookedSettles ==
  ASSUME CacheInv, UNCHANGED <<now, hot, stored>>, ~KeepsAll, NEW r \in Requests,
         NEW q \in Cache!Request, req' = [req EXCEPT ![r] = q], q.started = now, q.got = {},
         HadSettled(q)
  PROVE  KeptSince(q)' /\ OldEntries(q)' /\ OldReads(q)'
<1>1. /\ HotLags /\ ReadLags /\ now \in Nat /\ HotAge \in Nat /\ CallTime \in Nat
      /\ \A d \in stored : d.since \in Nat /\ d.at \in Nat
      /\ \A e \in hot : e.inserted \in Nat
  BY CacheTyped, CacheConstants DEF CacheInv, SettleInv
<1>2. KeptSince(q)'
  BY <1>1 DEF KeptSince, Same, HadSettled
<1>3. OldEntries(q)'
  <2> SUFFICES ASSUME NEW d \in q.settled, NEW e \in hot, Same(d.id, e.id)
               PROVE  d.at <= e.at \/ e.inserted + HotAge < now
    BY DEF OldEntries
  <2>1. PICK c \in stored : c.id = d.id /\ c.at = d.at /\ c.since + HotAge + CallTime < now
    BY DEF HadSettled
  <2>2. d.at <= e.at \/ e.inserted <= c.since + CallTime
    BY <1>1, <2>1 DEF HotLags
  <2> QED
    BY <1>1, <2>1, <2>2
<1>4. OldReads(q)'
  <2> SUFFICES ASSUME NEW d \in q.settled, NEW p \in Requests, NEW g \in req'[p].got,
                      Same(d.id, g.id)
               PROVE  d.at <= g.at \/ g.read + HotAge + CallTime < now
    BY DEF OldReads
  <2>1. PICK c \in stored : c.id = d.id /\ c.at = d.at /\ c.since + HotAge + CallTime < now
    BY DEF HadSettled
  <2>2. g \in req[p].got
    BY DEF CacheInv, CacheTypes, Cache!TypeOK
  <2>3. d.at <= g.at \/ g.read <= c.since
    BY <1>1, <2>1, <2>2 DEF ReadLags
  <2>4. g.read \in Nat
    BY <2>2, CacheTyped, RequestTyped DEF CacheInv
  <2> QED
    BY <1>1, <2>1, <2>3, <2>4
<1> QED
  BY <1>2, <1>3, <1>4

LEMMA LookUpKeeps ==
  ASSUME CacheInv, NEW r \in Requests, NEW group \in SUBSET Ids,
         NEW whenDown \in {"fail", "memory"},
         OfScope(group) \/ \E i \in Ids : group = {i},
         Cache!LookUp(r, group, whenDown)
  PROVE  CacheInv'
<1>1. PICK T \in Cache!Newest(hot, {group}), H \in Cache!Newest(Cache!HotEntries, {group}) :
        LET q == Cache!Looking({group}, T, whenDown) IN
          \/ /\ Cache!Classified(H) # {}
             /\ Cache!Becomes(r, Cache!Answered(q, Cache!Classified(H), "memory"))
          \/ Cache!Classified(H) = {} /\ Cache!Becomes(r, [q EXCEPT !.stage = "read"])
  BY DEF Cache!LookUp
<1>2. UNCHANGED <<now, hot, stored>>
  BY DEF Cache!LookUp
<1>3. PICK q : q = Cache!Looking({group}, T, whenDown)
  OBVIOUS
<1>4. /\ T \subseteq hot /\ \A t \in T : t.id \in group
      /\ H \subseteq Cache!HotEntries
  BY <1>1, NewestIs DEF Cache!NewestOf
<1>5. CacheTypes /\ \A e \in hot : e.id \in Ids /\ e.at \in Nat /\ Behind(e)
  BY CacheTyped DEF CacheInv, ServeInv, HotInv
<1>6. /\ q \in Cache!Request
      /\ q.wanted = {group} /\ q.started = now /\ q.fallback = Cache!Classified(T)
      /\ q.got = {}
      /\ HadSettled(q)
  <2>1. {group} \in SUBSET SUBSET Ids /\ T \in SUBSET hot
    BY <1>4
  <2>2. \A c, f : c \in SUBSET SUBSET Ids /\ f \in SUBSET hot =>
          \A w \in {"fail", "memory"} :
            LET k == Cache!Looking(c, f, w) IN
              /\ k \in Cache!Request
              /\ k.wanted = c /\ k.started = now /\ k.fallback = Cache!Classified(f)
              /\ k.got = {} /\ HadSettled(k)
    BY <1>5, LookingIs
  <2> QED
    BY <1>3, <2>1, <2>2
<1>7. \A f \in q.fallback : f.id \in group /\ Behind(f)
  <2>1. now \in Nat /\ \A e \in T : e.id \in Ids /\ e.at \in Nat
    BY <1>4, <1>5, CacheTyped
  <2>2. \A a \in Cache!Classified(T) : \E e \in T : a.id = e.id /\ a.at = e.at
    BY <2>1, ClassifiedIs
  <2> QED
    BY <1>4, <1>5, <1>6, <2>2 DEF Behind
<1>8. SharedStep
  BY <1>2, QuietStep
<1>9. ASSUME NEW n \in Cache!Request, req' = [req EXCEPT ![r] = n],
             n.started = now, n.fallback = q.fallback, n.settled = q.settled, n.got = {},
             n.wanted = {group}, n.stage \in {"read", "done"},
             n.stage = "done" => n.answer # {},
             n.stage = "done" /\ ~KeepsAll =>
               \A a \in n.answer, d \in n.settled :
                 OldEntries(n) /\ Same(d.id, a.id) => d.at <= a.at
      PROVE  CacheInv'
  <2>1. Fetched(r, n)
    BY <1>9 DEF Fetched
  <2>2. ReadsInv(n)'
    BY <1>2, <1>9, CacheTyped DEF CacheInv, ReadsInv
  <2>3. FallbackInv(n)'
    <3>1. \A f \in n.fallback : Behind(f)' /\ f.id \in group
      BY <1>2, <1>7, <1>9 DEF Behind
    <3> QED
      BY <1>9, <3>1 DEF FallbackInv, OfScope, Cache!IdsOf
  <2>4. Served(n)'
    BY <1>9 DEF Served, Cache!LookedUp
  <2>5. ~KeepsAll => SettledInv(n)'
    <3> SUFFICES ASSUME ~KeepsAll PROVE SettledInv(n)'
      OBVIOUS
    <3>1. HadSettled(n)
      BY <1>6, <1>9 DEF HadSettled
    <3>2. KeptSince(n)' /\ OldEntries(n)' /\ OldReads(n)'
      BY <1>2, <1>9, <3>1, LookedSettles
    <3>3. OldEntries(n)
      BY <1>2, <3>2 DEF OldEntries
    <3>4. Settles(n)'
      BY <1>9, <3>3 DEF Settles, Cache!LookedUp
    <3> QED
      BY <1>9, <3>2, <3>4 DEF SettledInv, OwnReads, ListInv
  <2> QED
    BY <1>8, <1>9, <2>1, <2>2, <2>3, <2>4, <2>5, StepOfRequest DEF LookupInv
<1>10. CASE /\ Cache!Classified(H) # {}
            /\ Cache!Becomes(r, Cache!Answered(q, Cache!Classified(H), "memory"))
  <2>1. PICK n : n = Cache!Answered(q, Cache!Classified(H), "memory")
    OBVIOUS
  <2>2. now \in Nat /\ \A e \in H : e \in hot /\ e.id \in Ids /\ e.at \in Nat
    BY <1>4, <1>5, CacheTyped DEF Cache!HotEntries
  <2>3. /\ Cache!Classified(H) \in SUBSET Cache!Priced
        /\ \A a \in Cache!Classified(H) : \E e \in H : a.id = e.id /\ a.at = e.at
    BY <2>2, ClassifiedIs
  <2>4. /\ n \in Cache!Request
        /\ n.stage = "done" /\ n.answer = Cache!Classified(H) /\ n.got = {}
        /\ n.started = q.started /\ n.fallback = q.fallback /\ n.settled = q.settled
    BY <1>6, <2>1, <2>3, AnsweredIs
  <2>5. n.wanted = {group}
    BY <1>6, <2>1 DEF Cache!Answered, Cache!Request
  <2>6. ASSUME NEW a \in n.answer, NEW d \in n.settled, OldEntries(n), Same(d.id, a.id)
        PROVE  d.at <= a.at
    <3>1. PICK e \in H : a.id = e.id /\ a.at = e.at
      BY <2>3, <2>4
    <3>2. e \in hot /\ now - e.inserted <= HotAge /\ e.inserted \in Nat
      BY <1>4, <1>5, CacheTyped DEF Cache!HotEntries
    <3>3. ~(e.inserted + HotAge < n.started)
      BY <1>6, <2>2, <2>4, <3>2, CacheConstants
    <3> QED
      BY <2>6, <3>1, <3>2, <3>3 DEF OldEntries
  <2> QED
    BY <1>6, <1>9, <1>10, <2>1, <2>4, <2>5, <2>6 DEF Cache!Becomes
<1>11. CASE Cache!Becomes(r, [q EXCEPT !.stage = "read"])
  <2>1. PICK n : n = [q EXCEPT !.stage = "read"]
    OBVIOUS
  <2>2. /\ n \in Cache!Request /\ n.stage = "read" /\ n.wanted = q.wanted
        /\ n.started = q.started /\ n.fallback = q.fallback /\ n.settled = q.settled
        /\ n.got = q.got
    BY <1>6, <2>1 DEF Cache!Request
  <2> QED
    BY <1>6, <1>9, <1>11, <2>1, <2>2 DEF Cache!Becomes
<1> QED
  BY <1>1, <1>3, <1>10, <1>11

LEMMA FindKeeps ==
  ASSUME CacheInv, NEW r \in Requests, NEW s \in Scopes, Cache!Find(r, s) PROVE CacheInv'
<1>1. PICK w \in {"fail", "memory"} : Cache!LookUp(r, Cache!IdsOf(s), w)
  BY DEF Cache!Find
<1>2. Cache!IdsOf(s) \in SUBSET Ids /\ OfScope(Cache!IdsOf(s))
  BY DEF Cache!IdsOf, OfScope
<1> QED
  BY <1>1, <1>2, LookUpKeeps

LEMMA GetKeeps ==
  ASSUME CacheInv, NEW r \in Requests, NEW id \in Ids, Cache!Get(r, id) PROVE CacheInv'
<1>1. Cache!LookUp(r, {id}, "fail") /\ {id} \in SUBSET Ids
  BY DEF Cache!Get
<1> QED
  BY <1>1, LookUpKeeps

LEMMA RecoverKeeps ==
  ASSUME CacheInv, NEW r \in Requests, Cache!Recover(r) PROVE CacheInv'
<1>1. PICK group \in req[r].wanted : Cache!LookUp(r, group, "memory") /\ req[r].stage = "recover"
  BY DEF Cache!Recover
<1>2. group \in SUBSET Ids
  BY CacheTyped, RequestTyped DEF CacheInv
<1>3. OfScope(group)
  BY <1>1 DEF CacheInv, ServeInv, LookupInv, FallbackInv
<1> QED
  BY <1>1, <1>2, <1>3, LookUpKeeps

LEMMA ListKeeps ==
  ASSUME CacheInv, NEW r \in Requests, Cache!List(r) PROVE CacheInv'
<1> DEFINE groups == {Cache!IdsOf(s) : s \in Scopes}
<1>1. PICK T \in Cache!Newest(hot, groups) :
        Cache!Becomes(r, [Cache!Looking(groups, T, "fail") EXCEPT !.stage = "list"])
  BY DEF Cache!List
<1>2. UNCHANGED <<now, hot, stored>> /\ CacheTypes
  BY DEF Cache!List, CacheInv
<1>3. PICK q : q = Cache!Looking(groups, T, "fail")
  OBVIOUS
<1>4. groups \in SUBSET SUBSET Ids /\ T \in SUBSET hot
  BY <1>1, NewestIs DEF Cache!IdsOf
<1> HIDE DEF groups
<1>5. /\ q \in Cache!Request
      /\ q.wanted = groups /\ q.started = now /\ q.fallback = Cache!Classified(T)
      /\ q.got = {} /\ HadSettled(q)
  <2>1. \A c, f : c \in SUBSET SUBSET Ids /\ f \in SUBSET hot =>
          \A w \in {"fail", "memory"} :
            LET k == Cache!Looking(c, f, w) IN
              /\ k \in Cache!Request
              /\ k.wanted = c /\ k.started = now /\ k.fallback = Cache!Classified(f)
              /\ k.got = {} /\ HadSettled(k)
    BY <1>2, LookingIs
  <2> QED
    BY <1>3, <1>4, <2>1
<1>6. PICK n : n = [q EXCEPT !.stage = "list"]
  OBVIOUS
<1>7. /\ n \in Cache!Request /\ n.stage = "list" /\ n.wanted = groups
      /\ n.started = now /\ n.fallback = q.fallback /\ n.settled = q.settled /\ n.got = {}
  BY <1>5, <1>6 DEF Cache!Request
<1>8. req' = [req EXCEPT ![r] = n] /\ Fetched(r, n) /\ SharedStep
  BY <1>1, <1>2, <1>3, <1>6, <1>7, QuietStep DEF Cache!Becomes, Fetched
<1>9. \A f \in n.fallback : Behind(f)'
  <2>1. now \in Nat /\ \A e \in T : e.id \in Ids /\ e.at \in Nat /\ Behind(e)
    BY <1>2, <1>4, CacheTyped DEF CacheInv, ServeInv, HotInv
  <2>2. \A a \in Cache!Classified(T) : \E e \in T : a.id = e.id /\ a.at = e.at
    BY <2>1, ClassifiedIs
  <2> QED
    BY <1>2, <1>5, <1>7, <2>1, <2>2 DEF Behind
<1>10. LookupInv(n)'
  <2>1. ReadsInv(n)'
    BY <1>2, <1>7, CacheTyped DEF ReadsInv
  <2> QED
    BY <1>7, <1>9, <2>1 DEF LookupInv, FallbackInv, Served, Cache!LookedUp
<1>11. ~KeepsAll => SettledInv(n)'
  <2> SUFFICES ASSUME ~KeepsAll PROVE SettledInv(n)'
    OBVIOUS
  <2>1. HadSettled(n)
    BY <1>5, <1>7 DEF HadSettled
  <2>2. KeptSince(n)' /\ OldEntries(n)' /\ OldReads(n)'
    BY <1>2, <1>7, <1>8, <2>1, LookedSettles
  <2>3. ListInv(n)'
    BY <1>7 DEF ListInv, groups, Cache!IdsOf
  <2> QED
    BY <1>7, <2>2, <2>3 DEF SettledInv, OwnReads, Settles, Cache!LookedUp
<1> QED
  BY <1>7, <1>8, <1>10, <1>11, StepOfRequest

\* Cosmos DB failed, or had nothing.
LEMMA FallbackKeeps ==
  ASSUME CacheInv, UNCHANGED <<now, hot, stored>>, NEW r \in Requests,
         req' = [req EXCEPT ![r] = Cache!Answered(req[r], req[r].fallback, "fallback")]
  PROVE  CacheInv'
<1>1. req[r].fallback \in SUBSET Cache!Priced
  BY CacheTyped DEF CacheInv, Cache!Request
<1> QED
  BY <1>1, QuietStep, AnswerStep

LEMMA DownKeeps ==
  ASSUME CacheInv, UNCHANGED <<now, hot, stored>>, NEW r \in Requests,
         NEW n \in Cache!WhenDown(req[r]), req' = [req EXCEPT ![r] = n]
  PROVE  CacheInv'
<1>1. req[r] \in Cache!Request /\ SharedStep
  BY CacheTyped, QuietStep DEF CacheInv
<1>2. CASE n = Cache!Answered(req[r], req[r].fallback, "fallback")
  BY <1>2, FallbackKeeps
<1>3. CASE req[r].fallback = {} /\ n = [req[r] EXCEPT !.stage = "failed"]
  <2>1. /\ n \in Cache!Request /\ n.stage = "failed" /\ n.got = req[r].got
        /\ n.started = req[r].started /\ n.fallback = {} /\ req[r].fallback = {}
        /\ n.settled = req[r].settled
    BY <1>1, <1>3 DEF Cache!Request
  <2>2. Fetched(r, n)
    BY <2>1 DEF Fetched
  <2>3. /\ ReadsInv(n)'
        /\ ~KeepsAll => KeptSince(n)' /\ OldEntries(n)' /\ OldReads(n)'
    BY <1>1, <2>1, <2>2, CarriesOn
  <2>4. LookupInv(n)'
    BY <2>1, <2>3 DEF LookupInv, FallbackInv, Served
  <2>5. ~KeepsAll => SettledInv(n)'
    BY <2>1, <2>3 DEF SettledInv, OwnReads, ListInv, Settles, Cache!LookedUp
  <2> QED
    BY <1>1, <2>1, <2>2, <2>4, <2>5, StepOfRequest
<1>4. ASSUME req[r].fallback = {}, NEW T \in Cache!Newest(hot, req[r].wanted),
             n = Cache!Answered(req[r], Cache!Classified(T), "fallback")
      PROVE  CacheInv'
  <2>1. T \subseteq hot
    BY NewestIs
  <2>2. now \in Nat /\ \A e \in T : e.id \in Ids /\ e.at \in Nat
    BY <2>1, CacheTyped DEF CacheInv
  <2>3. Cache!Classified(T) \in SUBSET Cache!Priced
    BY <2>2, ClassifiedIs
  <2> QED
    BY <1>1, <1>4, <2>3, AnswerStep
<1> QED
  BY <1>2, <1>3, <1>4 DEF Cache!WhenDown

\* What Cosmos DB has of the group is as late as what the memory had of it.
LEMMA NewestStored ==
  ASSUME CacheInv, NEW r \in Requests, req[r].stage = "read",
         NEW T \in Cache!Newest(stored, req[r].wanted), NEW d \in T, NEW f \in req[r].fallback
  PROVE  f.at <= d.at
<1>1. PICK group \in SUBSET Ids :
        /\ req[r].wanted = {group} /\ (OfScope(group) \/ \E i \in Ids : group = {i})
        /\ \A x \in req[r].fallback : x.id \in group /\ Behind(x)
  BY DEF CacheInv, ServeInv, LookupInv, FallbackInv
<1>2. /\ d \in stored /\ d.id \in group
      /\ \A c \in stored : c.id \in group => c.at <= d.at
  BY <1>1, NewestIs DEF Cache!NewestOf
<1>3. PICK c \in stored : Rival(c.id, f.id) /\ f.at <= c.at
  BY <1>1, RequestTyped, CacheTyped DEF Behind, CacheInv
<1>4. CASE c.id \in group
  <2>1. c.at <= d.at /\ f.at <= c.at
    BY <1>2, <1>3, <1>4
  <2>2. c.at \in Nat /\ d.at \in Nat /\ f.at \in Nat
    BY <1>2, <1>3, RequestTyped, CacheTyped DEF CacheInv
  <2> QED
    BY <2>1, <2>2
<1>5. CASE c.id \notin group
  <2>1. f.id \in group /\ ~KeepsAll /\ Same(c.id, f.id) /\ c.id \in Ids
    BY <1>1, <1>3, <1>5, RivalsAreSame, CacheTyped DEF Rival, Same, CacheInv
  <2>2. group = {f.id}
    BY <1>1, <1>5, <2>1 DEF OfScope, Cache!IdsOf, Same
  <2>3. Rival(c.id, d.id)
    BY <1>2, <1>3, <2>2
  <2>4. c = d
    BY <1>2, <2>3 DEF CacheInv, ServeInv, StoreInv
  <2> QED
    BY <1>2, <1>5, <2>4
<1> QED
  BY <1>4, <1>5

LEMMA ReadKeepsCache ==
  ASSUME CacheInv, NEW r \in Requests, Cache!Read(r) PROVE CacheInv'
<1>1. UNCHANGED <<now, hot, stored>> /\ req[r].stage = "read" /\ SharedStep
      /\ req[r] \in Cache!Request /\ CacheTypes
  BY QuietStep, CacheTyped DEF Cache!Read, CacheInv
<1>2. ASSUME NEW T \in Cache!Newest(stored, req[r].wanted), T # {},
             Cache!Becomes(r, Cache!Received(req[r], T, "cache"))
      PROVE  CacheInv'
  <2>1. PICK q : q = Cache!Received(req[r], T, "cache")
    OBVIOUS
  <2>2. T \subseteq stored /\ \A d \in T : d.id \in Ids /\ d.at \in Nat
    BY NewestIs, CacheTyped DEF CacheInv
  <2>3. now \in 0..MaxTime /\ now \in Nat
    BY CacheTyped, CacheConstants DEF CacheInv
  <2>4. /\ q \in Cache!Request
        /\ q.stage = "cache" /\ q.got = {[id |-> d.id, at |-> d.at, read |-> now] : d \in T}
        /\ q.started = req[r].started /\ q.fallback = req[r].fallback
        /\ q.settled = req[r].settled /\ q.wanted = req[r].wanted
    BY <1>1, <2>1, <2>2, <2>3, ReceivedIs
  <2>5. \A g \in q.got : \E d \in T : g.id = d.id /\ g.at = d.at /\ g.read = now
    BY <2>4
  <2>6. Fetched(r, q) /\ req' = [req EXCEPT ![r] = q]
    BY <1>1, <1>2, <2>1, <2>2, <2>5 DEF Fetched, Cache!Becomes
  <2>7. /\ ReadsInv(q)'
        /\ \A f \in q.fallback : Behind(f)'
        /\ ~KeepsAll => KeptSince(q)' /\ OldEntries(q)' /\ OldReads(q)'
    BY <1>1, <2>4, <2>6, CarriesOn
  <2>8. \A g \in q.got, f \in q.fallback : f.at <= g.at
    BY <1>1, <2>4, <2>5, NewestStored
  <2>9. LookupInv(q)'
    BY <2>4, <2>7, <2>8 DEF LookupInv, FallbackInv, Served, Cache!LookedUp
  <2>10. OwnReads(q)'
    BY <2>4, <2>5, <1>1 DEF OwnReads, CacheInv, ServeInv, LookupInv, ReadsInv
  <2>11. ~KeepsAll => SettledInv(q)'
    BY <2>4, <2>7, <2>10 DEF SettledInv, ListInv, Settles, Cache!LookedUp
  <2> QED
    BY <1>1, <2>4, <2>6, <2>9, <2>11, StepOfRequest
<1>3. CASE Cache!Becomes(r, Cache!Answered(req[r], req[r].fallback, "fallback"))
  BY <1>1, <1>3, FallbackKeeps DEF Cache!Becomes
<1>4. ASSUME NEW n \in Cache!WhenDown(req[r]), Cache!Becomes(r, n) PROVE CacheInv'
  BY <1>1, <1>4, DownKeeps DEF Cache!Becomes
<1> QED
  BY <1>2, <1>3, <1>4 DEF Cache!Read

\* What a request has read itself is no older than what had settled before.
LEMMA OwnReadsAreCurrent ==
  ASSUME CacheInv, ~KeepsAll, NEW r \in Requests, req[r].stage \in {"cache", "cachelist"},
         NEW g \in req[r].got, NEW d \in req[r].settled, Same(d.id, g.id)
  PROVE  d.at <= g.at
<1>1. d.at <= g.at \/ g.read + HotAge + CallTime < req[r].started
  BY DEF CacheInv, SettleInv, SettledInv, OldReads
<1>2. req[r].started <= g.read
  BY DEF CacheInv, SettleInv, SettledInv, OwnReads
<1>3. req[r].started \in Nat /\ g.read \in Nat /\ HotAge \in Nat /\ CallTime \in Nat
  BY CacheTyped, CacheConstants, RequestTyped DEF CacheInv
<1> QED
  BY <1>1, <1>2, <1>3

\* An entry answers with its own prices, if they are not too old.
LEMMA EntryAnswers ==
  ASSUME CacheInv, NEW r \in Requests, NEW g \in req[r].got, NEW l \in Cache!Statuses,
         NEW S, S = Cache!Classified({Cache!Entry(g, l)})
  PROVE  /\ S \in SUBSET Cache!Priced
         /\ \A a \in S : a.id = g.id /\ a.at = g.at
         /\ now - g.at <= UsableAge => S # {}
<1>1. PICK e : e = Cache!Entry(g, l)
  OBVIOUS
<1>2. e.id \in Ids /\ e.at \in Nat /\ e.id = g.id /\ e.at = g.at /\ e.at <= now
  BY <1>1, CachedEntry
<1>3. now \in Nat
  BY CacheTyped DEF CacheInv
<1>4. \A x \in {e} : x.id \in Ids /\ x.at \in Nat
  BY <1>2
<1> QED
  BY <1>1, <1>2, <1>3, <1>4, ClassifiedIs

LEMMA CacheReadKeeps ==
  ASSUME CacheInv, NEW r \in Requests, Cache!CacheRead(r) PROVE CacheInv'
<1>1. PICK g \in req[r].got :
        /\ hot' \in Cache!Inserted(Cache!Entry(g, "cached"))
        /\ Cache!Becomes(r, Cache!Answered(req[r],
             Cache!Classified({Cache!Entry(g, "cached")}), "store"))
  BY DEF Cache!CacheRead
<1>2. UNCHANGED <<now, stored>> /\ req[r].stage = "cache" /\ "cached" \in Cache!Statuses
  BY DEF Cache!CacheRead, Cache!Statuses
<1>3. SharedStep
  BY <1>1, <1>2, CachingStep
<1>4. PICK S : S = Cache!Classified({Cache!Entry(g, "cached")})
  OBVIOUS
<1>5. /\ S \in SUBSET Cache!Priced
      /\ \A a \in S : a.id = g.id /\ a.at = g.at
      /\ now - g.at <= UsableAge => S # {}
  BY <1>2, <1>4, EntryAnswers
<1>6. ASSUME NEW f \in req[r].fallback, now - f.at <= UsableAge PROVE S # {}
  <2>1. f.at <= g.at
    BY <1>2 DEF CacheInv, ServeInv, LookupInv, FallbackInv
  <2>2. f.at \in Nat /\ g.at \in Nat /\ now \in Nat
    BY CacheTyped, RequestTyped DEF CacheInv
  <2> QED
    BY <1>5, <1>6, <2>1, <2>2, CacheConstants
<1>7. ~KeepsAll => \A a \in S, d \in req[r].settled : Same(d.id, a.id) => d.at <= a.at
  BY <1>2, <1>5, OwnReadsAreCurrent
<1> QED
  BY <1>1, <1>3, <1>4, <1>5, <1>6, <1>7, AnswerStep DEF Cache!Becomes

LEMMA ReadListKeeps ==
  ASSUME CacheInv, NEW r \in Requests, Cache!ReadList(r) PROVE CacheInv'
<1>1. UNCHANGED <<now, hot, stored>> /\ req[r].stage = "list" /\ SharedStep
      /\ req[r] \in Cache!Request /\ CacheTypes
  BY QuietStep, CacheTyped DEF Cache!ReadList, CacheInv
<1>2. ASSUME Cache!Becomes(r, Cache!Received(req[r], stored, "cachelist")) PROVE CacheInv'
  <2>1. PICK q : q = Cache!Received(req[r], stored, "cachelist")
    OBVIOUS
  <2>2. now \in 0..MaxTime /\ now \in Nat /\ \A d \in stored : d.id \in Ids /\ d.at \in Nat
    BY CacheTyped, CacheConstants DEF CacheInv
  <2>3. /\ q \in Cache!Request
        /\ q.stage = "cachelist"
        /\ q.got = {[id |-> d.id, at |-> d.at, read |-> now] : d \in stored}
        /\ q.started = req[r].started /\ q.fallback = req[r].fallback
        /\ q.settled = req[r].settled /\ q.wanted = req[r].wanted
    BY <1>1, <2>1, <2>2, ReceivedIs
  <2>4. /\ \A g \in q.got : \E d \in stored : g.id = d.id /\ g.at = d.at /\ g.read = now
        /\ \A d \in stored : \E g \in q.got : g.id = d.id
    <3>1. q.got = {[id |-> d.id, at |-> d.at, read |-> now] : d \in stored}
      BY <2>3
    <3>2. ASSUME NEW d \in stored PROVE \E g \in q.got : g.id = d.id
      <4>1. PICK g : g = [id |-> d.id, at |-> d.at, read |-> now]
        OBVIOUS
      <4>2. g \in q.got /\ g.id = d.id
        BY <3>1, <4>1
      <4> QED
        BY <4>2
    <3> QED
      BY <3>1, <3>2
  <2>5. Fetched(r, q) /\ req' = [req EXCEPT ![r] = q]
    BY <1>1, <1>2, <2>1, <2>4 DEF Fetched, Cache!Becomes
  <2>6. /\ ReadsInv(q)'
        /\ \A f \in q.fallback : Behind(f)'
        /\ ~KeepsAll => KeptSince(q)' /\ OldEntries(q)' /\ OldReads(q)'
    BY <1>1, <2>3, <2>5, CarriesOn
  <2>7. LookupInv(q)'
    BY <2>3, <2>6 DEF LookupInv, FallbackInv, Served, Cache!LookedUp
  <2>8. OwnReads(q)'
    BY <1>1, <2>3, <2>4 DEF OwnReads, CacheInv, ServeInv, LookupInv, ReadsInv
  <2>9. ~KeepsAll => SettledInv(q)'
    <3> SUFFICES ASSUME ~KeepsAll PROVE SettledInv(q)'
      OBVIOUS
    <3>1. q.wanted = {Cache!IdsOf(s) : s \in Scopes}
      BY <1>1, <2>3 DEF CacheInv, SettleInv, SettledInv, ListInv
    <3>2. \A d \in q.settled : \E g \in q.got : Same(d.id, g.id)
      BY <2>3, <2>4 DEF CacheInv, SettleInv, SettledInv, KeptSince, Same
    <3>3. ListInv(q)'
      BY <2>3, <3>1, <3>2 DEF ListInv, Cache!IdsOf
    <3> QED
      BY <2>3, <2>6, <2>8, <3>3 DEF SettledInv, Settles, Cache!LookedUp
  <2> QED
    BY <1>1, <2>3, <2>5, <2>7, <2>9, StepOfRequest
<1>3. ASSUME NEW n \in Cache!WhenDown(req[r]), Cache!Becomes(r, n) PROVE CacheInv'
  BY <1>1, <1>3, DownKeeps DEF Cache!Becomes
<1> QED
  BY <1>2, <1>3 DEF Cache!ReadList

LEMMA CacheListedKeeps ==
  ASSUME CacheInv, NEW r \in Requests, Cache!CacheListed(r) PROVE CacheInv'
<1>1. PICK g \in req[r].got :
        /\ hot' \in Cache!Inserted(Cache!Entry(g, "cached"))
        /\ Cache!Becomes(r, [req[r] EXCEPT !.got = @ \ {g}])
  BY DEF Cache!CacheListed
<1>2. UNCHANGED <<now, stored>> /\ req[r].stage = "cachelist" /\ "cached" \in Cache!Statuses
      /\ req[r] \in Cache!Request /\ CacheTypes
  BY CacheTyped DEF Cache!CacheListed, Cache!Statuses, CacheInv
<1>3. SharedStep
  BY <1>1, <1>2, CachingStep
<1>4. PICK q : q = [req[r] EXCEPT !.got = @ \ {g}]
  OBVIOUS
<1>5. /\ q \in Cache!Request
      /\ q.stage = "cachelist" /\ q.got = req[r].got \ {g}
      /\ q.started = req[r].started /\ q.fallback = req[r].fallback
      /\ q.settled = req[r].settled /\ q.wanted = req[r].wanted
  BY <1>2, <1>4 DEF Cache!Request
<1>6. Fetched(r, q) /\ req' = [req EXCEPT ![r] = q]
  BY <1>1, <1>4, <1>5 DEF Fetched, Cache!Becomes
<1>7. /\ ReadsInv(q)'
      /\ \A f \in q.fallback : Behind(f)'
      /\ ~KeepsAll => KeptSince(q)' /\ OldEntries(q)' /\ OldReads(q)'
  BY <1>3, <1>5, <1>6, CarriesOn
<1>8. LookupInv(q)'
  BY <1>5, <1>7 DEF LookupInv, FallbackInv, Served, Cache!LookedUp
<1>9. ~KeepsAll => SettledInv(q)'
  <2> SUFFICES ASSUME ~KeepsAll PROVE SettledInv(q)'
    OBVIOUS
  <2>1. /\ q.wanted = {Cache!IdsOf(s) : s \in Scopes}
        /\ \A d \in q.settled :
             (\E b \in req[r].got : Same(d.id, b.id)) \/ Current(d, q.started)
    BY <1>2, <1>5 DEF CacheInv, SettleInv, SettledInv, ListInv
  <2>2. ASSUME NEW d \in q.settled
        PROVE  (\E b \in q.got : Same(d.id, b.id)) \/ Current(d, q.started)'
    <3>1. CASE Current(d, q.started)
      <4>1. CacheStep
        BY <1>3, <1>5, <1>6, StepOfRequest
      <4> QED
        BY <1>5, <2>2, <3>1, <4>1, CurrentStays
    <3>2. CASE \E b \in req[r].got : Same(d.id, b.id) /\ b # g
      BY <1>5, <3>2
    <3>3. CASE Same(d.id, g.id)
      <4>1. PICK e : e = Cache!Entry(g, "cached")
        OBVIOUS
      <4>2. /\ e \in [id : Ids, at : Nat, status : Cache!Statuses, inserted : 0..MaxTime]
            /\ e.id = g.id /\ e.at = g.at /\ e.inserted = now
        BY <1>2, <4>1, CachedEntry
      <4>3. e \in hot'
        BY <1>1, <1>2, <4>1, <4>2, InsertKeeps
      <4>4. d.at <= g.at /\ q.started <= now
        BY <1>2, <1>5, <2>2, <3>3, OwnReadsAreCurrent DEF CacheInv, ServeInv, LookupInv, ReadsInv
      <4> QED
        BY <3>3, <4>2, <4>3, <4>4 DEF Current, Same
    <3> QED
      BY <1>5, <2>1, <2>2, <3>1, <3>2, <3>3
  <2>3. ListInv(q)'
    BY <1>5, <2>1, <2>2 DEF ListInv, Cache!IdsOf
  <2>4. OwnReads(q)'
    BY <1>2, <1>5 DEF OwnReads, CacheInv, SettleInv, SettledInv
  <2> QED
    BY <1>5, <1>7, <2>3, <2>4 DEF SettledInv, Settles, Cache!LookedUp
<1> QED
  BY <1>3, <1>5, <1>6, <1>8, <1>9, StepOfRequest

\* The newest entry of a scope is no older than what had settled of it.
LEMMA NewestListed ==
  ASSUME CacheInv, ~KeepsAll, NEW r \in Requests, req[r].stage = "cachelist", req[r].got = {},
         NEW T \in Cache!Newest(hot, req[r].wanted), NEW t \in T,
         NEW d \in req[r].settled, Same(d.id, t.id)
  PROVE  d.at <= t.at
<1>1. PICK s \in Scopes : t \in Cache!NewestOf(hot, Cache!IdsOf(s))
  BY NewestIs DEF CacheInv, SettleInv, SettledInv, ListInv
<1>2. /\ t \in hot /\ ScopeOf[t.id] = s
      /\ \A e \in hot : e.id \in Cache!IdsOf(s) => e.at <= t.at
  BY <1>1 DEF Cache!NewestOf, Cache!IdsOf
<1>3. \A e \in hot : e.id \in Ids /\ e.at \in Nat
  BY CacheTyped DEF CacheInv
<1>4. d.at \in Nat
  BY CacheTyped, RequestTyped DEF CacheInv
<1>5. Current(d, req[r].started)
  BY DEF CacheInv, SettleInv, SettledInv, ListInv
<1>6. CASE \A e \in hot : Same(d.id, e.id) => d.at <= e.at
  BY <1>2, <1>6
<1>7. ASSUME NEW e \in hot, Same(d.id, e.id), d.at <= e.at PROVE d.at <= t.at
  <2>1. e.id \in Cache!IdsOf(s)
    BY <1>2, <1>3, <1>7 DEF Same, Cache!IdsOf
  <2> QED
    BY <1>2, <1>3, <1>4, <1>7, <2>1
<1> QED
  BY <1>5, <1>6, <1>7 DEF Current

LEMMA AnswerListKeeps ==
  ASSUME CacheInv, NEW r \in Requests, Cache!AnswerList(r) PROVE CacheInv'
<1>1. /\ UNCHANGED <<now, hot, stored>> /\ SharedStep
      /\ req[r].stage = "cachelist" /\ req[r].got = {}
  BY QuietStep DEF Cache!AnswerList
<1>2. PICK T \in Cache!Newest(hot, req[r].wanted) :
        \/ /\ Cache!Classified(T) # {}
           /\ Cache!Becomes(r, Cache!Answered(req[r], Cache!Classified(T), "store"))
        \/ Cache!Becomes(r, Cache!Answered(req[r], req[r].fallback, "fallback"))
  BY DEF Cache!AnswerList
<1>3. CASE /\ Cache!Classified(T) # {}
           /\ Cache!Becomes(r, Cache!Answered(req[r], Cache!Classified(T), "store"))
  <2>1. PICK S : S = Cache!Classified(T)
    OBVIOUS
  <2>2. now \in Nat /\ \A e \in T : e.id \in Ids /\ e.at \in Nat
    BY NewestIs, CacheTyped DEF CacheInv
  <2>3. S \in SUBSET Cache!Priced /\ \A a \in S : \E e \in T : a.id = e.id /\ a.at = e.at
    BY <2>1, <2>2, ClassifiedIs
  <2>4. ~KeepsAll => \A a \in S, d \in req[r].settled : Same(d.id, a.id) => d.at <= a.at
    BY <1>1, <2>3, NewestListed
  <2> QED
    BY <1>1, <1>3, <2>1, <2>3, <2>4, AnswerStep DEF Cache!Becomes
<1>4. CASE Cache!Becomes(r, Cache!Answered(req[r], req[r].fallback, "fallback"))
  BY <1>1, <1>4, FallbackKeeps DEF Cache!Becomes
<1> QED
  BY <1>2, <1>3, <1>4

-----------------------------------------------------------------------------
(* The steps of a refresh, and of what is around the requests.             *)

\* What is put into Cosmos DB is in it, unless something later is.
LEMMA PutStores ==
  ASSUME CacheTypes, NEW id \in Ids, NEW at \in Cache!Retrievals, stored' = Cache!Put(id, at)
  PROVE  \E d \in stored' : Rival(d.id, id) /\ at <= d.at
<1>1. CASE stored' = stored /\ \E d \in stored : Rival(d.id, id) /\ d.at >= at
  <2>1. at \in Nat /\ \A d \in stored : d.at \in Nat
    BY CacheTyped DEF Cache!Retrievals
  <2> QED
    BY <1>1, <2>1
<1>2. CASE [id |-> id, at |-> at, since |-> now] \in stored'
  <2>1. PICK d \in stored' : d.id = id /\ d.at = at
    BY <1>2
  <2> QED
    BY <2>1, CacheTyped, CacheConstants DEF Rival, Cache!Retrievals
<1> QED
  BY <1>1, <1>2 DEF Cache!Put, Rival

LEMMA StoreKeeps ==
  ASSUME CacheInv, NEW r \in Requests, NEW s \in Scopes, Cache!Store(r, s) PROVE CacheInv'
<1>1. PICK id \in Cache!IdsOf(s), at \in Cache!Retrievals :
        /\ stored' = Cache!Put(id, at)
        /\ LET kept == IF KeepsAll THEN {[id |-> id, at |-> at]}
                       ELSE {d \in stored' : ScopeOf[d.id] = s} IN
             Cache!Becomes(r, Cache!Received([Cache!Blank EXCEPT !.wanted = {Cache!IdsOf(s)}],
                                             kept, "publish"))
  BY DEF Cache!Store
<1>2. UNCHANGED <<now, hot>> /\ id \in Ids /\ CacheTypes /\ at \in Nat
  BY <1>1 DEF Cache!Store, Cache!IdsOf, CacheInv, Cache!Retrievals
<1>3. SharedStep
  BY <1>1, <1>2, StoringStep
<1>4. PICK kept : kept = IF KeepsAll THEN {[id |-> id, at |-> at]}
                         ELSE {d \in stored' : ScopeOf[d.id] = s}
  OBVIOUS
<1>5. PICK b : b = [Cache!Blank EXCEPT !.wanted = {Cache!IdsOf(s)}]
  OBVIOUS
<1>6. /\ b \in Cache!Request /\ b.wanted = {Cache!IdsOf(s)} /\ b.started = 0
      /\ b.fallback = {} /\ b.settled = {}
  <2>1. {Cache!IdsOf(s)} \in SUBSET SUBSET Ids
    BY DEF Cache!IdsOf
  <2> HIDE DEF Cache!IdsOf
  <2> QED
    BY <1>5, <2>1, BlankIs DEF Cache!Blank, Cache!Request
<1>7. PICK q : q = Cache!Received(b, kept, "publish")
  OBVIOUS
<1>8. now \in 0..MaxTime /\ \A d \in kept : d.id \in Ids /\ d.at \in Nat
  BY <1>2, <1>3, <1>4, CacheTyped DEF SharedStep
<1>9. /\ q \in Cache!Request
      /\ q.stage = "publish" /\ q.got = {[id |-> d.id, at |-> d.at, read |-> now] : d \in kept}
      /\ q.started = b.started /\ q.fallback = b.fallback /\ q.settled = b.settled
      /\ q.wanted = b.wanted
  BY <1>6, <1>7, <1>8, ReceivedIs
<1>10. \A d \in kept :
         \E c \in stored' : c.id = d.id /\ (c.at = d.at \/ (KeepsAll /\ d.at <= c.at))
  BY <1>1, <1>2, <1>4, PutStores DEF Rival
<1>11. Fetched(r, q)
  BY <1>9, <1>10 DEF Fetched
<1>12. \A group \in q.wanted : OfScope(group)
  BY <1>6, <1>9 DEF OfScope
<1> QED
  BY <1>1, <1>3, <1>4, <1>5, <1>6, <1>7, <1>9, <1>11, <1>12, BlankStep DEF Cache!Becomes

LEMMA WaitKeeps ==
  ASSUME CacheInv, NEW r \in Requests, NEW id \in Ids, Cache!Wait(r, id) PROVE CacheInv'
<1>1. PICK d \in stored :
        Cache!Becomes(r, Cache!Received(
          [Cache!Blank EXCEPT !.wanted = {Cache!IdsOf(ScopeOf[id])}], {d}, "waited"))
  BY DEF Cache!Wait
<1>2. UNCHANGED <<now, hot, stored>> /\ SharedStep /\ CacheTypes
  BY QuietStep DEF Cache!Wait, CacheInv
<1>3. PICK b : b = [Cache!Blank EXCEPT !.wanted = {Cache!IdsOf(ScopeOf[id])}]
  OBVIOUS
<1>4. /\ b \in Cache!Request /\ b.wanted = {Cache!IdsOf(ScopeOf[id])} /\ b.started = 0
      /\ b.fallback = {} /\ b.settled = {}
  <2>1. {Cache!IdsOf(ScopeOf[id])} \in SUBSET SUBSET Ids
    BY DEF Cache!IdsOf
  <2> HIDE DEF Cache!IdsOf
  <2> QED
    BY <1>3, <2>1, BlankIs DEF Cache!Blank, Cache!Request
<1>5. PICK q : q = Cache!Received(b, {d}, "waited")
  OBVIOUS
<1>6. now \in 0..MaxTime /\ \A x \in {d} : x.id \in Ids /\ x.at \in Nat
  BY <1>2, CacheTyped
<1>7. /\ q \in Cache!Request
      /\ q.stage = "waited" /\ q.got = {[id |-> x.id, at |-> x.at, read |-> now] : x \in {d}}
      /\ q.started = b.started /\ q.fallback = b.fallback /\ q.settled = b.settled
      /\ q.wanted = b.wanted
  BY <1>4, <1>5, <1>6, ReceivedIs
<1>8. Fetched(r, q)
  BY <1>2, <1>7 DEF Fetched
<1>9. \A group \in q.wanted : OfScope(group)
  BY <1>4, <1>7, CacheConstants DEF OfScope
<1> QED
  BY <1>1, <1>2, <1>3, <1>4, <1>5, <1>7, <1>8, <1>9, BlankStep DEF Cache!Becomes

LEMMA CacheRefreshedKeeps ==
  ASSUME CacheInv, NEW r \in Requests, Cache!CacheRefreshed(r) PROVE CacheInv'
<1>1. PICK g \in req[r].got :
        /\ hot' \in Cache!Inserted(Cache!Entry(g, "fresh"))
        /\ Cache!Becomes(r, Cache!Answered(req[r],
             {[id |-> g.id, at |-> g.at, status |-> "fresh"]}, "refresh"))
  BY DEF Cache!CacheRefreshed
<1>2. UNCHANGED <<now, stored>> /\ "fresh" \in Cache!Statuses
  BY DEF Cache!CacheRefreshed, Cache!Statuses
<1>3. SharedStep
  BY <1>1, <1>2, CachingStep
<1>4. {[id |-> g.id, at |-> g.at, status |-> "fresh"]} \in SUBSET Cache!Priced
  BY <1>2, CacheTyped, RequestTyped DEF CacheInv, Cache!Priced
<1> QED
  BY <1>1, <1>3, <1>4, AnswerStep DEF Cache!Becomes

\* A refresh that failed after it read has yet to look in the memory.
LEMMA RecoversLater ==
  ASSUME CacheInv, SharedStep, NEW r \in Requests, req[r].stage \in {"publish", "waited"},
         req' = [req EXCEPT ![r] = [req[r] EXCEPT !.stage = "recover", !.got = {}]]
  PROVE  CacheInv'
<1>1. req[r] \in Cache!Request
  BY CacheTyped DEF CacheInv
<1>2. PICK q : q = [req[r] EXCEPT !.stage = "recover", !.got = {}]
  OBVIOUS
<1>3. /\ q \in Cache!Request /\ q.stage = "recover" /\ q.got = {}
      /\ q.started = req[r].started /\ q.fallback = req[r].fallback
      /\ q.settled = req[r].settled /\ q.wanted = req[r].wanted
  BY <1>1, <1>2 DEF Cache!Request
<1>4. Fetched(r, q)
  BY <1>3 DEF Fetched
<1>5. /\ ReadsInv(q)'
      /\ \A f \in q.fallback : Behind(f)'
      /\ ~KeepsAll => KeptSince(q)' /\ OldEntries(q)' /\ OldReads(q)'
  BY <1>2, <1>3, <1>4, CarriesOn
<1>6. \A group \in q.wanted : OfScope(group)
  BY <1>3 DEF CacheInv, ServeInv, LookupInv, FallbackInv
<1>7. LookupInv(q)'
  BY <1>3, <1>5, <1>6 DEF LookupInv, FallbackInv, Served, Cache!LookedUp, OfScope, Cache!IdsOf
<1>8. ~KeepsAll => SettledInv(q)'
  BY <1>3, <1>5 DEF SettledInv, OwnReads, ListInv, Settles, Cache!LookedUp
<1> QED
  BY <1>2, <1>3, <1>4, <1>7, <1>8, StepOfRequest

LEMMA CacheWaitedKeeps ==
  ASSUME CacheInv, NEW r \in Requests, Cache!CacheWaited(r) PROVE CacheInv'
<1>1. PICK g \in req[r].got :
        /\ hot' \in Cache!Inserted(Cache!Entry(g, "cached"))
        /\ \/ Cache!Becomes(r, Cache!Answered(req[r],
                Cache!Classified({Cache!Entry(g, "cached")}), "refresh"))
           \/ Cache!Becomes(r, [req[r] EXCEPT !.stage = "recover", !.got = {}])
  BY DEF Cache!CacheWaited
<1>2. UNCHANGED <<now, stored>> /\ req[r].stage = "waited" /\ "cached" \in Cache!Statuses
  BY DEF Cache!CacheWaited, Cache!Statuses
<1>3. SharedStep
  BY <1>1, <1>2, CachingStep
<1>4. PICK S : S = Cache!Classified({Cache!Entry(g, "cached")})
  OBVIOUS
<1>5. S \in SUBSET Cache!Priced
  BY <1>2, <1>4, EntryAnswers
<1>6. CASE Cache!Becomes(r, Cache!Answered(req[r], S, "refresh"))
  BY <1>3, <1>5, <1>6, AnswerStep DEF Cache!Becomes
<1>7. CASE Cache!Becomes(r, [req[r] EXCEPT !.stage = "recover", !.got = {}])
  BY <1>2, <1>3, <1>7, RecoversLater DEF Cache!Becomes
<1> QED
  BY <1>1, <1>4, <1>6, <1>7

LEMMA RefreshFailsKeeps ==
  ASSUME CacheInv, NEW r \in Requests, Cache!RefreshFails(r) PROVE CacheInv'
BY QuietStep, RecoversLater DEF Cache!RefreshFails, Cache!Becomes

LEMMA FinishKeeps ==
  ASSUME CacheInv, NEW r \in Requests, Cache!Finish(r) PROVE CacheInv'
<1>1. PICK q : q = Cache!Blank
  OBVIOUS
<1>2. /\ q \in Cache!Request /\ q.started = 0 /\ q.fallback = {} /\ q.settled = {}
      /\ q.stage = "idle" /\ q.got = {}
  BY <1>1, BlankIs
<1> QED
  BY <1>1, <1>2, QuietStep, BlankStep DEF Cache!Finish, Cache!Becomes, Fetched

LEMMA PublishKeeps == ASSUME CacheInv, Cache!Publish PROVE CacheInv'
<1>1. SharedStep /\ req' = req
  BY StoringStep DEF Cache!Publish
<1>2. CacheStep
  BY <1>1 DEF CacheStep, Fetched, CacheInv, CacheTypes, Cache!TypeOK
<1>3. ASSUME NEW p \in Requests
      PROVE  LookupInv(req[p])' /\ (~KeepsAll => SettledInv(req[p])')
  <2>1. PICK u : u = req[p]
    OBVIOUS
  <2>2. LookupInv(u)' /\ (~KeepsAll => SettledInv(u)')
    BY <1>1, <1>2, <2>1, LookupStays, SettledInvStays
  <2>3. req[p]' = u
    BY <1>1, <2>1
  <2>4. LookupInv(req[p])'
    BY <2>2, <2>3 DEF LookupInv, ReadsInv, FallbackInv, Served, Cache!LookedUp, Behind, OfScope,
       Cache!IdsOf
  <2>5. ~KeepsAll => SettledInv(req[p])'
    BY <2>2, <2>3 DEF SettledInv, KeptSince, OldEntries, OldReads, OwnReads, ListInv, Current,
       Settles, Cache!LookedUp, Cache!IdsOf
  <2> QED
    BY <2>4, <2>5
<1>4. ServeInv'
  BY <1>1, <1>3, HotAfter DEF ServeInv, SharedStep
<1>5. ~KeepsAll => SettleInv'
  BY <1>2, <1>3, LagsAfter DEF SettleInv
<1> QED
  BY <1>2, <1>4, <1>5, TypesAfter DEF CacheInv

\* Time passes only as far as the calls that are under way allow.
LEMMA TickKeepsCache == ASSUME CacheInv, Cache!Tick PROVE CacheInv'
<1>1. /\ now' = now + 1 /\ UNCHANGED <<hot, stored, req>> /\ now < MaxTime
      /\ \A r \in Requests : req[r].stage \notin {"done", "failed"}
      /\ \A r \in Requests : \A g \in req[r].got : now < g.read + CallTime
  BY DEF Cache!Tick
<1>2. /\ now \in Nat /\ CallTime \in Nat /\ MaxTime \in Nat
      /\ \A e \in hot : e.at \in Nat /\ e.inserted \in Nat
      /\ \A d \in stored : d.at \in Nat /\ d.since \in Nat
  BY CacheTyped, CacheConstants DEF CacheInv
<1>3. CacheTypes'
  BY <1>1, <1>2, CardinalityIs DEF CacheInv, CacheTypes, Cache!TypeOK
<1>4. StoreInv' /\ HotInv'
  BY <1>1, <1>2 DEF CacheInv, ServeInv, StoreInv, HotInv, Behind
<1>5. ASSUME NEW r \in Requests PROVE LookupInv(req[r])'
  <2>1. LookupInv(req[r]) /\ req[r].started \in Nat
        /\ \A g \in req[r].got : g.at \in Nat /\ g.read \in Nat
    BY CacheTyped, RequestTyped DEF CacheInv, ServeInv
  <2>2. ReadsInv(req[r])'
    BY <1>1, <1>2, <2>1 DEF LookupInv, ReadsInv, Behind
  <2>3. FallbackInv(req[r])'
    BY <1>1, <2>1 DEF LookupInv, FallbackInv, Behind, OfScope, Cache!IdsOf
  <2>4. Served(req[r])'
    BY <1>1 DEF Served, Cache!LookedUp
  <2> QED
    BY <2>2, <2>3, <2>4 DEF LookupInv
<1>6. SettleInv => SettleInv'
  BY <1>1 DEF SettleInv, HotLags, ReadLags, SettledInv, KeptSince, OldEntries, OldReads, OwnReads,
     ListInv, Current, Settles, Cache!LookedUp, Cache!IdsOf
<1> QED
  BY <1>3, <1>4, <1>5, <1>6 DEF CacheInv, ServeInv

\* An empty memory hides nothing.
LEMMA EmptyCache ==
  ASSUME now \in 0..MaxTime, hot = {}, req = [r \in Requests |-> Cache!Blank], StoreInv,
         stored \subseteq [id : Ids, at : Nat, since : 0..MaxTime]
  PROVE  CacheInv
<1>1. \A r \in Requests : req[r] = Cache!Blank
  OBVIOUS
<1>2. CacheTypes
  BY BlankIs, CardinalityIs, CacheConstants, FS_EmptySet DEF CacheTypes, Cache!TypeOK
<1>3. ServeInv
  BY <1>1, BlankIs, CacheConstants
     DEF ServeInv, HotInv, LookupInv, ReadsInv, FallbackInv, Served, Cache!LookedUp
<1>4. SettleInv
  BY <1>1, BlankIs
     DEF SettleInv, HotLags, ReadLags, SettledInv, KeptSince, OldEntries, OldReads, OwnReads,
         ListInv, Settles, Cache!LookedUp
<1> QED
  BY <1>2, <1>3, <1>4 DEF CacheInv

LEMMA RestartKeepsCache == ASSUME CacheInv, Cache!Restart PROVE CacheInv'
<1>1. /\ hot' = {} /\ req' = [r \in Requests |-> Cache!Blank] /\ UNCHANGED <<now, stored>>
  BY DEF Cache!Restart
<1>2. /\ now' \in 0..MaxTime /\ StoreInv'
      /\ stored' \subseteq [id : Ids, at : Nat, since : 0..MaxTime]
  BY <1>1 DEF CacheInv, ServeInv, StoreInv, CacheTypes, Cache!TypeOK
<1>3. \A r \in Requests : req'[r] = Cache!Blank
  BY <1>1
<1>4. CacheTypes'
  BY <1>1, <1>2, BlankIs, CardinalityIs, CacheConstants, FS_EmptySet DEF CacheTypes, Cache!TypeOK
<1>5. ServeInv'
  BY <1>1, <1>2, <1>3, BlankIs, CacheConstants
     DEF ServeInv, HotInv, LookupInv, ReadsInv, FallbackInv, Served, Cache!LookedUp
<1>6. SettleInv'
  BY <1>1, <1>3, BlankIs
     DEF SettleInv, HotLags, ReadLags, SettledInv, KeptSince, OldEntries, OldReads, OwnReads,
         ListInv, Settles, Cache!LookedUp
<1> QED
  BY <1>4, <1>5, <1>6 DEF CacheInv

LEMMA CacheStarts == Cache!Init => CacheInv
<1> SUFFICES ASSUME Cache!Init PROVE CacheInv
  OBVIOUS
<1> QED
  BY EmptyCache, CacheConstants DEF Cache!Init, StoreInv

LEMMA CacheStepKeeps == CacheInv /\ [Cache!Next]_cacheVars => CacheInv'
<1> SUFFICES ASSUME CacheInv, [Cache!Next]_cacheVars PROVE CacheInv'
  OBVIOUS
<1>1. ASSUME NEW r \in Requests, Cache!Step(r) PROVE CacheInv'
  BY <1>1, FindKeeps, StoreKeeps, GetKeeps, WaitKeeps, ListKeeps, ReadKeepsCache, CacheReadKeeps,
     ReadListKeeps, CacheListedKeeps, AnswerListKeeps, CacheRefreshedKeeps, CacheWaitedKeeps,
     RefreshFailsKeeps, RecoverKeeps, FinishKeeps DEF Cache!Step
<1>2. CASE UNCHANGED cacheVars
  <2>1. now' = now /\ hot' = hot /\ stored' = stored /\ req' = req
    BY <1>2 DEF cacheVars
  <2>2. CacheTypes'
    BY <2>1, CardinalityIs DEF CacheInv, CacheTypes, Cache!TypeOK
  <2>3. ServeInv'
    BY <2>1 DEF CacheInv, ServeInv, StoreInv, HotInv, LookupInv, ReadsInv, FallbackInv, Served,
       Cache!LookedUp, Behind, OfScope, Cache!IdsOf
  <2>4. SettleInv => SettleInv'
    BY <2>1 DEF SettleInv, HotLags, ReadLags, SettledInv, KeptSince, OldEntries, OldReads, OwnReads,
       ListInv, Current, Settles, Cache!LookedUp, Cache!IdsOf
  <2> QED
    BY <2>2, <2>3, <2>4 DEF CacheInv
<1> QED
  BY <1>1, <1>2, PublishKeeps, TickKeepsCache, RestartKeepsCache DEF Cache!Next

LEMMA CacheInvHolds == ReplicaSpec => []CacheInv
<1>1. ReplicaInit => CacheInv
  BY CacheStarts DEF ReplicaInit
<1>2. CacheInv /\ [ReplicaNext]_<<side, vars, cacheVars>> => CacheInv'
  <2>1. [ReplicaNext]_<<side, vars, cacheVars>> => [Cache!Next]_cacheVars
    BY DEF ReplicaNext, cacheVars
  <2> QED
    BY <2>1, CacheStepKeeps
<1> QED
  BY <1>1, <1>2, PTL DEF ReplicaSpec

-----------------------------------------------------------------------------
(* The theorems about the cache.                                           *)

\* A lookup that fails or answers nothing had found nothing usable in the memory,
\* whatever Cosmos DB answered and whatever was cached meanwhile: Cosmos DB keeps up
\* with every snapshot that was ever cached (the fallback of get_*,
\* find_*_snapshot and list_latest_aws).
THEOREM UsableIsServed == ReplicaSpec => []KnownIsServed
<1>1. CacheInv => KnownIsServed
  <2> SUFFICES ASSUME CacheInv PROVE KnownIsServed
    OBVIOUS
  <2>1. \A r \in Requests : Served(req[r])
    BY DEF CacheInv, ServeInv, LookupInv
  <2>2. Cache!KnownIsServed
    BY <2>1 DEF Served, Cache!KnownIsServed
  <2> QED
    BY <2>2 DEF KnownIsServed
<1> QED
  BY <1>1, CacheInvHolds, PTL

\* For AWS, prices that Cosmos DB has held for longer than an entry lives and a call
\* takes are hidden by no older ones, neither in the memory nor on their way to it
\* (find_aws_snapshot, get_aws, list_latest_aws).  For Azure this is false.
THEOREM SettledIsServed == ASSUME ~KeepsAll PROVE ReplicaSpec => []SettledPricesAnswer
<1>1. CacheInv => SettledPricesAnswer
  <2> SUFFICES ASSUME CacheInv PROVE SettledPricesAnswer
    OBVIOUS
  <2>1. ASSUME NEW r \in Requests, Cache!LookedUp(req[r]), req[r].via # "fallback",
               NEW a \in req[r].answer, NEW d \in req[r].settled, ScopeOf[d.id] = ScopeOf[a.id]
        PROVE  a.at >= d.at
    <3>1. Settles(req[r])
      BY DEF CacheInv, SettleInv, SettledInv
    <3>2. d.at <= a.at
      BY <2>1, <3>1 DEF Settles, Same
    <3>3. a.at \in Nat /\ d.at \in Nat
      BY CacheTyped, RequestTyped DEF CacheInv
    <3> QED
      BY <3>2, <3>3
  <2>2. Cache!SettledPricesAnswer
    BY <2>1 DEF Cache!SettledPricesAnswer
  <2> QED
    BY <2>2 DEF SettledPricesAnswer
<1> QED
  BY <1>1, CacheInvHolds, PTL

\* The cache is within its bound and its entries are snapshots of the replica's past.
THEOREM CacheTypeCorrect == ReplicaSpec => []Cache!TypeOK
<1>1. CacheInv => Cache!TypeOK
  BY DEF CacheInv, CacheTypes
<1> QED
  BY <1>1, CacheInvHolds, PTL
=============================================================================
