--------------------------- MODULE RequestLimits ---------------------------
(***************************************************************************)
(* What one replica lets in: a token bucket per requester (TokenBucket of  *)
(* rate_limit.rs, which reads the clock before it takes the lock), and the *)
(* slots of the assistant (assistant_slots of state.rs), which an image    *)
(* request lends to the blocking task that normalises the image, so that   *)
(* the slot is not free while a task runs whose request is gone.           *)
(* A token is Period units; a tick refills Capacity units.                 *)
(***************************************************************************)
EXTENDS Integers, FiniteSets, FiniteSetsExt

CONSTANTS
  Requests,        \* requests to the assistant
  Images,          \* those of them that bring an image
  Keys,            \* requesters
  Capacity,        \* tokens of a bucket
  Period,          \* ticks in which an empty bucket fills
  MaxTrackedKeys,  \* MAX_TRACKED_KEYS
  Slots,           \* assistant concurrency
  MaxTime,         \* bound: the last tick
  Untracked        \* no bucket

\* bounds, and a mark that is no entry
LimitsAssumption ==
  /\ Capacity \in Nat \ {0} /\ Period \in Nat \ {0}
  /\ {Slots, MaxTime, MaxTrackedKeys} \subseteq Nat
  /\ Untracked \notin [units : Nat, at : Nat]

VARIABLES
  time,
  bucket,   \* entries: [units, at] of each key, or Untracked
  place,    \* where each request is
  key,      \* who sent it
  now,      \* its clock reading
  free,     \* permits of assistant_slots
  task,     \* requests whose normalisation runs
  granted,  \* history: checks each key has passed
  stamp,    \* history: the reading that last wrote the entry of a key, or forgot it
  regained, \* history: ticks a late check gave back to a bucket
  promise,  \* history: when the last refused check of a key may come again; 0: it was granted
  rivals,   \* history: other keys that have checked since, or had with a reading no earlier
  broken    \* history: a request that waited as told was refused

vars == <<time, bucket, place, key, now, free, task, granted, stamp, regained, promise, rivals, broken>>

limits == <<bucket, granted, stamp, regained, promise, rivals, broken>>

Init ==
  /\ time = 0
  /\ bucket = [k \in Keys |-> Untracked]
  /\ place = [r \in Requests |-> "idle"]
  /\ key \in [Requests -> Keys]
  /\ now = [r \in Requests |-> 0]
  /\ free = Slots
  /\ task = {}
  /\ granted = [k \in Keys |-> 0]
  /\ stamp = [k \in Keys |-> 0]
  /\ regained = [k \in Keys |-> 0]
  /\ promise = [k \in Keys |-> 0]
  /\ rivals = [k \in Keys |-> {}]
  /\ broken = FALSE

Goto(r, where) == place' = [place EXCEPT ![r] = where]

Tick ==
  /\ time < MaxTime
  /\ time' = time + 1
  /\ UNCHANGED <<limits, place, key, now, free, task>>

-----------------------------------------------------------------------------
(* TokenBucket.                                                            *)

Smaller(a, b) == IF a < b THEN a ELSE b

Larger(a, b) == IF a > b THEN a ELSE b

\* stale_after
StaleAfter == 2 * Period

Tracked == {k \in Keys : bucket[k] # Untracked}

\* retain: at the cap, the entries that were used of late
Fresh(at) == {k \in Tracked : at - bucket[k].at <= StaleAfter}

\* the entries a check of key k at a clock reading begins with
Kept(k, at) ==
  IF k \notin Tracked /\ Cardinality(Tracked) >= MaxTrackedKeys THEN Fresh(at) ELSE Tracked

CrowdedOut(k, at) == k \notin Tracked /\ Cardinality(Kept(k, at)) >= MaxTrackedKeys

\* the entry of a key; a new one is full
Entry(k, at) == IF k \in Tracked THEN bucket[k] ELSE [units |-> Capacity * Period, at |-> at]

\* refill by the time since the last check: none, if that check read a later clock
Refilled(entry, at) ==
  Smaller(entry.units + Larger(at - entry.at, 0) * Capacity, Capacity * Period)

\* retry_after: the ticks until a whole token is there, rounded up
RetryAfter(units) == Larger((Period - units + Capacity - 1) \div Capacity, 1)

\* seeded fault: at the cap one period is told
CapWaitShort == Larger(Period, 1)

\* the wait told at the cap: until an entry as old as the refusal is forgotten
CapWait == Larger(StaleAfter, 1)

\* seeded fault: the reading is kept only with a grant
ChargedUnstamped(entry, at) ==
  LET units == Refilled(entry, at) IN
  IF units >= Period THEN [units |-> units - Period, at |-> at]
  ELSE [units |-> units, at |-> entry.at]

\* the entry after a check: one token less, if there is one
Charged(entry, at) ==
  LET units == Refilled(entry, at) IN
  [units |-> IF units >= Period THEN units - Period ELSE units, at |-> at]

\* the reading is taken before the lock
ReadClock(r) ==
  /\ place[r] = "idle"
  /\ now' = [now EXCEPT ![r] = time]
  /\ Goto(r, "check")
  /\ UNCHANGED <<time, limits, key, free, task>>

\* those in its way already
Ahead(k, at) == {j \in Kept(k, at) \ {k} : bucket[j].at >= at}

\* the others that wait have one more rival
Rivalled(k) == [j \in Keys |-> IF j # k /\ promise[j] > 0 THEN rivals[j] \cup {k} ELSE rivals[j]]

\* it has waited as told
Waited(k, at) == promise[k] \in 1..at

\* a check under the lock, with the reading the request came with
Check(r) ==
  LET k == key[r]
      at == now[r]
      units == Refilled(Entry(k, at), at)
      grant == units >= Period
  IN
  /\ place[r] = "check"
  /\ stamp' = [j \in Keys |->
                 IF j \in Tracked \ Kept(k, at) \/ (j = k /\ ~CrowdedOut(k, at)) THEN at ELSE stamp[j]]
  /\ IF CrowdedOut(k, at)
     THEN /\ bucket' = [j \in Keys |-> IF j \in Kept(k, at) THEN bucket[j] ELSE Untracked]
          /\ Goto(r, "done")
          /\ promise' = [promise EXCEPT ![k] = at + CapWait]
          /\ rivals' = [rivals EXCEPT ![k] = Ahead(k, at)]
          /\ broken' = (broken \/ (Waited(k, at) /\ Cardinality(rivals[k]) < MaxTrackedKeys))
          /\ UNCHANGED <<granted, regained>>
     ELSE /\ bucket' = [j \in Keys |->
                          IF j = k THEN Charged(Entry(k, at), at)
                          ELSE IF j \in Kept(k, at) THEN bucket[j] ELSE Untracked]
          /\ Goto(r, IF grant THEN "admitted" ELSE "done")
          /\ granted' = [granted EXCEPT ![k] = IF grant THEN @ + 1 ELSE @]
          /\ regained' = [regained EXCEPT ![k] = @ + Larger(stamp[k] - at, 0)]
          /\ promise' = [promise EXCEPT ![k] = IF grant THEN 0 ELSE at + RetryAfter(units)]
          /\ rivals' = [Rivalled(k) EXCEPT ![k] = IF grant THEN {} ELSE Ahead(k, at)]
          /\ broken' = (broken \/ (~grant /\ Waited(k, at)))
  /\ UNCHANGED <<time, key, now, free, task>>

-----------------------------------------------------------------------------
(* The slots.                                                              *)

\* try_acquire: a text turn runs; an image request reads its body
Acquire(r) ==
  /\ place[r] = "admitted"
  /\ IF free > 0
     THEN /\ free' = free - 1
          /\ Goto(r, IF r \in Images THEN "body" ELSE "turn")
     ELSE /\ Goto(r, "done")
          /\ UNCHANGED free
  /\ UNCHANGED <<time, limits, key, now, task>>

\* spawn_blocking: the permit goes with the task
Spawn(r) ==
  /\ place[r] = "body"
  /\ task' = task \cup {r}
  /\ Goto(r, "normalising")
  /\ UNCHANGED <<time, limits, key, now, free>>

\* the task gives the permit back to its request, or to nobody
TaskEnds(r) ==
  /\ r \in task
  /\ task' = task \ {r}
  /\ IF place[r] = "normalising"
     THEN Goto(r, "turn") /\ UNCHANGED free
     ELSE free' = free + 1 /\ UNCHANGED place
  /\ UNCHANGED <<time, limits, key, now>>

\* the permit is dropped with the handler, however it ends
TurnEnds(r) ==
  /\ place[r] = "turn"
  /\ free' = free + 1
  /\ Goto(r, "done")
  /\ UNCHANGED <<time, limits, key, now, task>>

\* seeded fault: the permit stays with the handler
HeldByHandler(r) == place[r] \in {"body", "turn", "normalising"}

\* what a handler that is dropped holds itself
Held(r) == place[r] \in {"body", "turn"}

\* the client is gone, the body times out or is too large, or normalising takes too long
Drop(r) ==
  /\ place[r] \in {"admitted", "body", "normalising", "turn"}
  /\ free' = IF Held(r) THEN free + 1 ELSE free
  /\ Goto(r, "done")
  /\ UNCHANGED <<time, limits, key, now, task>>

Next ==
  \/ Tick
  \/ \E r \in Requests :
       ReadClock(r) \/ Check(r) \/ Acquire(r) \/ Spawn(r) \/ TaskEnds(r) \/ TurnEnds(r) \/ Drop(r)

Spec == Init /\ [][Next]_vars

-----------------------------------------------------------------------------
(* Properties.                                                             *)

(* What works for the assistant, dropped requests whose image is still     *)
(* being normalised included, never exceeds its slots, and no slot is lost *)
(* (the permit that moves into spawn_blocking and back in image).          *)
SlotsCoverWork ==
  Cardinality(task \cup {r \in Requests : place[r] \in {"body", "turn"}}) + free = Slots

(* A requester gets no more than a full bucket and what has flowed in      *)
(* since, although entries are forgotten at the cap of tracked keys; a     *)
(* check that locks after another one of its key, or one that forgot the   *)
(* key, had read a later clock counts the time between the two readings    *)
(* twice, and no more.                                                     *)
GrantsBounded ==
  \A k \in Keys :
    granted[k] * Period <= Capacity * (Period + time + regained[k])

(* A requester that waits for the time it was told, by its own bucket      *)
(* (retry_after) or at the cap of tracked keys (stale_after), is let in if *)
(* nobody used its bucket meanwhile.  At the cap the code promises too     *)
(* much: a requester without a bucket may be turned away again, but only   *)
(* where as many others as the cap have checked since, or had checked with *)
(* a reading no earlier than its own.                                      *)
RetryAfterSuffices == ~broken
=============================================================================
