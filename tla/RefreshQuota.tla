---------------------------- MODULE RefreshQuota ----------------------------
(***************************************************************************)
(* The hourly refresh quota of one identity, shared by all replicas: one   *)
(* document in Cosmos DB that holds the operations counted in a window     *)
(* (RefreshQuotaDocument), consumed by conditional writes whose answers    *)
(* may be lost (consume_refresh_quota).  A window begins when it is        *)
(* computed, not when it is stored, and the document's time to live, in    *)
(* whole seconds, may remove it.                                           *)
(***************************************************************************)
EXTENDS Integers, FiniteSets, FiniteSetsExt

CONSTANTS
  Operations,    \* requests for a refresh; each has an operation token of its own
  Limits,        \* limits the replicas are configured with
  Window,        \* REFRESH_QUOTA_TTL_SECONDS
  Second,        \* clock instants in a second
  StoreTimeout,  \* OPERATION_TIMEOUT: a read or write that takes longer has failed
  Attempts,      \* CONDITIONAL_WRITE_ATTEMPTS
  MaxClock,      \* bound: the last instant
  NoQuota

Times == Nat

Quota ==
  [limit : Limits, started : Times, tokens : SUBSET Operations, ttl : Nat,
   etag : Nat, modifiedAt : Times]

ASSUME QuotaAssumption ==
  /\ Operations # {}
  /\ Limits \subseteq Nat \ {0} /\ IsFiniteSet(Limits)
  /\ Second \in Nat \ {0} /\ Window \in Nat \ {0} /\ Window % Second = 0
  /\ StoreTimeout \in Nat /\ 3 * StoreTimeout < Window
  /\ Attempts \in Nat \ {0}
  /\ MaxClock \in Nat
  /\ NoQuota \notin Quota

VARIABLES
  clock,
  quota,     \* the quota document, or NoQuota
  writes,    \* etags given out so far
  pc,        \* where each operation is; its answer once it has one
  limit,     \* the limit of the replica it came to
  attempt,   \* attempts it has lost
  seen,      \* the quota document it read last
  asOf,      \* when it sent its read, and then the clock reading of its decision
  counted    \* history: which operation the store counted, when and in which window

vars == <<clock, quota, writes, pc, limit, attempt, seen, asOf, counted>>

Init ==
  /\ clock = 0
  /\ quota = NoQuota
  /\ writes = 0
  /\ pc = [o \in Operations |-> "read"]
  /\ limit \in [Operations -> Limits]
  /\ attempt = [o \in Operations |-> 0]
  /\ seen = [o \in Operations |-> NoQuota]
  /\ asOf = [o \in Operations |-> 0]
  /\ counted = {}

-----------------------------------------------------------------------------
(* RefreshQuotaDocument.                                                   *)

Smaller(a, b) == IF a < b THEN a ELSE b

ExpiresAt(q) == q.started + Window

\* remaining_seconds: whole seconds, rounded up, in instants
Remaining(q, now) == Smaller(((ExpiresAt(q) - now + Second - 1) \div Second) * Second, Window)

\* new: the first operation opens a window
Opened(o) ==
  [limit |-> limit[o], started |-> asOf[o], tokens |-> {o}, ttl |-> Window,
   etag |-> 0, modifiedAt |-> 0]

\* consume: one more operation in the window
Counting(q, o) ==
  [q EXCEPT !.tokens = @ \cup {o}, !.ttl = Remaining(q, asOf[o])]

Expired(q, now) == ExpiresAt(q) <= now

\* seeded fault: allowed one operation too many
OverFull(q, o) == Cardinality(q.tokens) > Smaller(q.limit, limit[o])

Full(q, o) == Cardinality(q.tokens) >= Smaller(q.limit, limit[o])

-----------------------------------------------------------------------------

Goto(o, place) == pc' = [pc EXCEPT ![o] = place]

\* seeded fault: an unanswered write counts as an allowance
AllowUnanswered(o) ==
  /\ attempt' = [attempt EXCEPT ![o] = @ + 1]
  /\ Goto(o, IF attempt[o] + 1 < Attempts THEN "read" ELSE "allowed")

NextAttempt(o) ==
  /\ attempt' = [attempt EXCEPT ![o] = @ + 1]
  /\ Goto(o, IF attempt[o] + 1 < Attempts THEN "read" ELSE "unavailable")

Tick ==
  /\ clock < MaxClock
  /\ clock' = clock + 1
  /\ UNCHANGED <<quota, writes, pc, limit, attempt, seen, asOf, counted>>

\* the store removes a document whose time to live is over
Vanish ==
  /\ quota # NoQuota
  /\ clock >= quota.modifiedAt + quota.ttl
  /\ quota' = NoQuota
  /\ UNCHANGED <<clock, writes, pc, limit, attempt, seen, asOf, counted>>

\* the document, or nothing, or the store is unavailable
Read(o) ==
  /\ pc[o] = "read"
  /\ \/ /\ seen' = [seen EXCEPT ![o] = quota]
        /\ Goto(o, "decide")
        /\ asOf' = [asOf EXCEPT ![o] = clock]
        /\ attempt' = attempt
     \/ NextAttempt(o) /\ UNCHANGED <<seen, asOf>>
  /\ UNCHANGED <<clock, quota, writes, limit, counted>>

Answered(o) == clock <= asOf[o] + StoreTimeout

\* the read took too long
ReadTimeout(o) ==
  /\ pc[o] = "decide"
  /\ ~Answered(o)
  /\ NextAttempt(o)
  /\ UNCHANGED <<clock, quota, writes, limit, seen, asOf, counted>>

\* RefreshQuotaDocument::consume: an operation found in the document was counted
\* by a write whose answer was lost
Decide(o) ==
  /\ pc[o] = "decide"
  /\ Answered(o)
  /\ asOf' = [asOf EXCEPT ![o] = clock]
  /\ \/ seen[o] = NoQuota /\ Goto(o, "write")
     \/ /\ seen[o] # NoQuota
        /\ \/ o \in seen[o].tokens /\ Goto(o, "allowed")
           \/ /\ o \notin seen[o].tokens
              /\ \/ Expired(seen[o], clock) /\ Goto(o, "write")
                 \/ ~Expired(seen[o], clock) /\ Full(seen[o], o) /\ Goto(o, "limited")
                 \/ ~Expired(seen[o], clock) /\ ~Full(seen[o], o) /\ Goto(o, "write")
  /\ UNCHANGED <<clock, quota, writes, limit, attempt, seen, counted>>

\* what the operation asks the store to hold
Candidate(o) ==
  IF seen[o] = NoQuota \/ Expired(seen[o], asOf[o]) THEN Opened(o) ELSE Counting(seen[o], o)

\* create under If-None-Match, or replace under the etag read
Unchanged(o) ==
  \/ seen[o] = NoQuota /\ quota = NoQuota
  \/ seen[o] # NoQuota /\ quota # NoQuota /\ quota.etag = seen[o].etag

\* the write is applied and answered, applied with its answer lost, or not applied
Write(o) ==
  /\ pc[o] = "write"
  /\ \/ /\ Unchanged(o)
        /\ Answered(o)
        /\ quota' = [Candidate(o) EXCEPT !.etag = writes + 1, !.modifiedAt = clock]
        /\ writes' = writes + 1
        /\ counted' = counted \cup {[op |-> o, at |-> clock, window |-> Candidate(o).started]}
        /\ \/ Goto(o, "allowed") /\ attempt' = attempt
           \/ NextAttempt(o)
     \/ NextAttempt(o) /\ UNCHANGED <<quota, writes, counted>>
  /\ UNCHANGED <<clock, limit, seen, asOf>>

OperationStep(o) == Read(o) \/ ReadTimeout(o) \/ Decide(o) \/ Write(o)

Next == Tick \/ Vanish \/ \E o \in Operations : OperationStep(o)

Spec == Init /\ [][Next]_vars

-----------------------------------------------------------------------------
(* Properties.                                                             *)

\* The document is always one that RefreshQuotaDocument::validate accepts.
TypeOK ==
  /\ clock \in Times
  /\ quota \in Quota \cup {NoQuota}
  /\ quota # NoQuota =>
       /\ Cardinality(quota.tokens) \in 1..quota.limit
       /\ quota.ttl >= 1
  /\ writes \in Nat
  /\ pc \in [Operations -> {"read", "decide", "write", "allowed", "limited", "unavailable"}]
  /\ limit \in [Operations -> Limits]
  /\ attempt \in [Operations -> 0..Attempts]
  /\ seen \in [Operations -> Quota \cup {NoQuota}]
  /\ asOf \in [Operations -> Times]
  /\ counted \subseteq [op : Operations, at : Times, window : Times]

\* Windows never overlap: one begins an hour or more after the one before began,
\* and after the last operation counted in it, however writes are delayed, lost
\* or repeated and whenever the document disappears.
WindowsApart ==
  \A c, d \in counted :
    c.window < d.window => c.window + Window <= d.window /\ c.at <= d.window

\* So no hour, wherever it begins, counts more than two windows do, and a window
\* no more operations than the limit it was opened with.
HourlyBound ==
  /\ WindowsApart
  /\ \A from \in 0..clock :
       Cardinality({c \in counted : from <= c.at /\ c.at < from + Window}) <=
         2 * Max({limit[o] : o \in Operations})

\* A refresh is allowed only if the store counted it, also when the answer that
\* said so was lost and the operation was recognised by its token; and it is
\* refused only if the hour before counted as many as the smaller of the two
\* limits, so that no operation is charged twice to one window.
AnswersMatchCount ==
  \A o \in Operations :
    /\ pc[o] = "allowed" => \E c \in counted : c.op = o
    /\ pc[o] = "limited" =>
         Cardinality({c.op : c \in {d \in counted : asOf[o] - Window < d.at /\ d.at <= asOf[o]}})
           >= Smaller(seen[o].limit, limit[o])
=============================================================================
