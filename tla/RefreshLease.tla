---------------------------- MODULE RefreshLease ----------------------------
(***************************************************************************)
(* The distributed price refresh of one cache key: every replica that has  *)
(* to refresh it runs one task (pricing/coordinator.rs), the tasks compete *)
(* for one lease document in Cosmos DB (persistence/cosmos.rs and          *)
(* persistence/pricing_cache.rs), the winner retrieves live prices, stores *)
(* them and publishes the outcome, the others wait for that outcome.       *)
(*                                                                         *)
(* One action is one round trip to the store, or one local decision whose  *)
(* clock reading matters.  Every write is conditional on an etag, so a     *)
(* task acts on what it read earlier and may find the world changed.       *)
(***************************************************************************)
EXTENDS Integers, FiniteSets

CONSTANTS
  Tasks,        \* refresh tasks; each has an owner token of its own
  LeaseTTL,     \* REFRESH_LEASE_TTL_SECONDS: life of a lease, and of its document
  WaitBudget,   \* DISTRIBUTED_WAIT_BUDGET: a task's deadline after its start
  Attempts,     \* CONDITIONAL_WRITE_ATTEMPTS
  KeepsAll,     \* TRUE: every stored snapshot stays (Azure); FALSE: the newest only (AWS)
  OtherScopes,  \* TRUE: another cache key also writes this snapshot scope
  Faults,       \* what may go wrong, a subset of FaultKinds
  Contents,     \* what providers may answer; a snapshot's id is the hash of its content
  MaxClock,     \* bound: the last instant of the model
  NoLease, NoContent, NoSnapshot

FaultKinds == {"outage", "rejected", "lost", "resent", "crash"}

Times == Nat

\* a stored snapshot: its content, which names it, and its retrieved_at
Snapshot == [content : Contents, at : Times]

NotYet == -1

LeaseDocument ==
  [owner : Tasks, leasedAt : Times, completedAt : Times \cup {NotYet},
   status : {"in_progress", "succeeded", "failed"},
   snapshot : Contents \cup {NoContent},
   etag : Nat, modifiedAt : Times]

\* the same without what only the store needs
RegisterValue ==
  [owner : Tasks, leasedAt : Times, completedAt : Times \cup {NotYet},
   status : {"in_progress", "succeeded", "failed"},
   snapshot : Contents \cup {NoContent}]

LeaseAssumption ==
  /\ LeaseTTL \in Nat /\ WaitBudget \in Nat /\ Attempts \in Nat \ {0}
  /\ WaitBudget < LeaseTTL
  /\ KeepsAll \in BOOLEAN /\ OtherScopes \in BOOLEAN
  /\ Faults \subseteq FaultKinds
  /\ MaxClock \in Nat
  /\ NoLease \notin LeaseDocument /\ NoLease \notin RegisterValue
  /\ NoContent \notin Contents
  /\ NoSnapshot \notin Snapshot

ASSUME ConstantsAssumption == LeaseAssumption

VARIABLES
  clock,      \* the wall clock the replicas share
  lease,      \* the lease document of the cache key, or NoLease
  writes,     \* etags given out so far
  retained,   \* the snapshots of the scope that can be read back
  pc,         \* where each task is; its answer once it has ended
  startedAt,  \* request_started_at
  asOf,       \* the clock reading of the current claim attempt
  attempt,    \* conditional writes this claim or publication has lost
  doc,        \* the lease document a task holds in memory
  snap        \* the snapshot a task retrieved, stored or read

vars == <<clock, lease, writes, retained, pc, startedAt, asOf, attempt, doc, snap>>

Claiming == {"claim", "create", "read", "replace"}
Owning == {"load", "put", "publish", "publish_write"}
Active == Claiming \cup Owning \cup {"wait", "fetch"}
Answers == {"fresh", "cached", "provider", "repository"}
Stopped == Answers \cup {"crashed"}

Init ==
  /\ clock = 0
  /\ lease = NoLease
  /\ writes = 0
  /\ retained = {}
  /\ pc = [t \in Tasks |-> "idle"]
  /\ startedAt = [t \in Tasks |-> 0]
  /\ asOf = [t \in Tasks |-> 0]
  /\ attempt = [t \in Tasks |-> 0]
  /\ doc = [t \in Tasks |-> NoLease]
  /\ snap = [t \in Tasks |-> NoSnapshot]

-----------------------------------------------------------------------------
(* The lease document: RefreshLeaseDocument.                               *)

ExpiresAt(d) == d.leasedAt + LeaseTTL

\* RefreshLeaseDocument::new; the store sets etag and modifiedAt
Candidate(t) ==
  [owner |-> t, leasedAt |-> asOf[t], completedAt |-> NotYet,
   status |-> "in_progress", snapshot |-> NoContent,
   etag |-> 0, modifiedAt |-> asOf[t]]

\* seeded fault: the waiting budget taken for the life of the lease
ExpiresWithBudget(d, now) == d.leasedAt + WaitBudget <= now

Expired(d, now) == ExpiresAt(d) <= now

\* seeded fault: an outcome answers every later request
AnyCompletion(d, request) == TRUE

CompletedFor(d, request) == d.completedAt >= request

\* RefreshLeaseDocument::decision: "reclaim" stands for None
Decision(d, request, now) ==
  CASE d.status = "in_progress" /\ Expired(d, now) -> "reclaim"
    [] d.status = "in_progress" /\ ~Expired(d, now) -> "pending"
    [] d.status # "in_progress" /\ CompletedFor(d, request) -> d.status
    [] d.status # "in_progress" /\ ~CompletedFor(d, request) -> "reclaim"

\* RefreshLeaseDocument::complete accepts the owner of a running, unexpired lease
MayComplete(d, t, now) ==
  /\ d.owner = t
  /\ d.status = "in_progress"
  /\ ~Expired(d, now)

Outcome(s) == IF s = NoSnapshot THEN "failed" ELSE "succeeded"

SnapshotId(s) == IF s = NoSnapshot THEN NoContent ELSE s.content

Completed(d, s, now) ==
  [d EXCEPT !.completedAt = now, !.status = Outcome(s), !.snapshot = SnapshotId(s)]

MatchesOutcome(d, t, s) ==
  d.owner = t /\ d.status = Outcome(s) /\ d.snapshot = SnapshotId(s)

-----------------------------------------------------------------------------
(* The store.                                                              *)

\* a conditional write that was applied
Stored(d) ==
  /\ lease' = [d EXCEPT !.etag = writes + 1, !.modifiedAt = clock]
  /\ writes' = writes + 1

StoreUnchanged == UNCHANGED <<lease, writes>>

\* seeded fault: the replacement is not conditional
AnyEtag(t) == lease # NoLease

\* If-Match: the document is still the one that was read
EtagMatches(t) == lease # NoLease /\ lease.etag = doc[t].etag

\* Cosmos DB drops a document ttl seconds after its last write
Vanish ==
  /\ lease # NoLease
  /\ clock >= lease.modifiedAt + LeaseTTL
  /\ lease' = NoLease
  /\ UNCHANGED <<clock, writes, retained, pc, startedAt, asOf, attempt, doc, snap>>

Tick ==
  /\ clock < MaxClock
  /\ clock' = clock + 1
  /\ UNCHANGED <<lease, writes, retained, pc, startedAt, asOf, attempt, doc, snap>>

\* what a snapshot competes with: for Azure the document of the same content,
\* for AWS the one current document of the scope
Rivals(s) ==
  IF KeepsAll THEN {r \in retained : r.content = s.content} ELSE retained

\* put_document: only a strictly later retrieval replaces what is there
AfterPut(s) ==
  IF \A r \in Rivals(s) : r.at < s.at
    THEN (retained \ Rivals(s)) \cup {s}
    ELSE retained

\* the refresh of another target region stores the same AWS scope
ForeignPut ==
  /\ OtherScopes
  /\ \E c \in Contents : retained' = AfterPut([content |-> c, at |-> clock])
  /\ UNCHANGED <<clock, lease, writes, pc, startedAt, asOf, attempt, doc, snap>>

-----------------------------------------------------------------------------
(* A task: refresh_aws_task and refresh_azure_task.                        *)

Goto(t, place) == pc' = [pc EXCEPT ![t] = place]

DeadlinePassed(t) == clock >= startedAt[t] + WaitBudget

Begin(t) ==
  /\ pc[t] = "idle"
  /\ clock + WaitBudget <= MaxClock
  /\ startedAt' = [startedAt EXCEPT ![t] = clock]
  /\ Goto(t, "claim")
  /\ UNCHANGED <<clock, lease, writes, retained, asOf, attempt, doc, snap>>

\* one turn of the loop of claim_refresh_lease: read the clock first
StartClaim(t) ==
  /\ pc[t] = "claim"
  /\ asOf' = [asOf EXCEPT ![t] = clock]
  /\ Goto(t, "create")
  /\ UNCHANGED <<clock, lease, writes, retained, startedAt, attempt, doc, snap>>

Create(t) ==
  /\ pc[t] = "create"
  /\ \/ lease = NoLease /\ Stored(Candidate(t)) /\ Goto(t, "load")
        /\ attempt' = [attempt EXCEPT ![t] = 0]
     \/ lease # NoLease /\ StoreUnchanged /\ Goto(t, "read")
        /\ attempt' = attempt
  /\ UNCHANGED <<clock, retained, startedAt, asOf, doc, snap>>

\* another turn, or Pending once the attempts are used up
NextAttempt(t) ==
  IF attempt[t] + 1 < Attempts
    THEN attempt' = [attempt EXCEPT ![t] = @ + 1] /\ Goto(t, "claim")
    ELSE attempt' = attempt /\ Goto(t, "wait")

\* the document is read and the decision on it taken, as of the clock reading
\* made before the attempt
Read(t) ==
  /\ pc[t] = "read"
  /\ \/ lease = NoLease /\ NextAttempt(t) /\ doc' = doc
     \/ /\ lease # NoLease
        /\ doc' = [doc EXCEPT ![t] = lease]
        /\ attempt' = attempt
        /\ LET decision == Decision(lease, startedAt[t], asOf[t]) IN
             \/ decision = "reclaim" /\ Goto(t, "replace")
             \/ decision = "pending" /\ Goto(t, "wait")
             \/ decision = "succeeded" /\ Goto(t, "fetch")
             \/ decision = "failed" /\ Goto(t, "provider")
  /\ UNCHANGED <<clock, lease, writes, retained, startedAt, asOf, snap>>

Replace(t) ==
  /\ pc[t] = "replace"
  /\ \/ EtagMatches(t) /\ Stored(Candidate(t)) /\ Goto(t, "load")
        /\ attempt' = [attempt EXCEPT ![t] = 0]
     \/ ~EtagMatches(t) /\ StoreUnchanged /\ NextAttempt(t)
  /\ UNCHANGED <<clock, retained, startedAt, asOf, doc, snap>>

\* seeded fault: the deadline is not looked at after the sleep
SleepOn(t) ==
  /\ pc[t] = "wait"
  /\ Goto(t, IF DeadlinePassed(t) THEN "wait" ELSE "claim")
  /\ attempt' = [attempt EXCEPT ![t] = 0]
  /\ UNCHANGED <<clock, lease, writes, retained, startedAt, asOf, doc, snap>>

\* wait_for_lease: sleep, then give up at the deadline or claim again
Wake(t) ==
  /\ pc[t] = "wait"
  /\ Goto(t, IF DeadlinePassed(t) THEN "provider" ELSE "claim")
  /\ attempt' = [attempt EXCEPT ![t] = 0]
  /\ UNCHANGED <<clock, lease, writes, retained, startedAt, asOf, doc, snap>>

\* timeout_at around the claim, the waiter's read and the retrieval
Timeout(t) ==
  /\ pc[t] \in Claiming \cup {"fetch"}
  /\ DeadlinePassed(t)
  /\ Goto(t, "provider")
  /\ UNCHANGED <<clock, lease, writes, retained, startedAt, asOf, attempt, doc, snap>>

\* a waiter reads the snapshot its lease names
Fetch(t) ==
  /\ pc[t] = "fetch"
  /\ \/ \E r \in retained :
          /\ r.content = doc[t].snapshot
          /\ snap' = [snap EXCEPT ![t] = r]
          /\ Goto(t, "cached")
     \/ /\ \A r \in retained : r.content # doc[t].snapshot
        /\ snap' = snap
        /\ Goto(t, "repository")
  /\ UNCHANGED <<clock, lease, writes, retained, startedAt, asOf, attempt, doc>>

\* seeded fault: the outcome is published before the snapshot is stored
PublishFirst(t) ==
  /\ pc[t] = "load"
  /\ \E c \in Contents : snap' = [snap EXCEPT ![t] = [content |-> c, at |-> clock]]
  /\ Goto(t, "publish")
  /\ UNCHANGED <<clock, lease, writes, retained, startedAt, asOf, attempt, doc>>

\* owner_refresh_*: live retrieval; a failure or a timeout is published as such
LoadSucceeds(t) ==
  /\ pc[t] = "load"
  /\ \E c \in Contents : snap' = [snap EXCEPT ![t] = [content |-> c, at |-> clock]]
  /\ Goto(t, "put")
  /\ UNCHANGED <<clock, lease, writes, retained, startedAt, asOf, attempt, doc>>

LoadFails(t) ==
  /\ pc[t] = "load"
  /\ snap' = [snap EXCEPT ![t] = NoSnapshot]
  /\ Goto(t, "publish")
  /\ UNCHANGED <<clock, lease, writes, retained, startedAt, asOf, attempt, doc>>

\* durable put: the AWS store answers with the snapshot that is current
PutApplied(t) ==
  /\ retained' = AfterPut(snap[t])
  /\ IF KeepsAll THEN snap' = snap
     ELSE \E r \in retained' : snap' = [snap EXCEPT ![t] = r]

Put(t) ==
  /\ pc[t] = "put"
  /\ PutApplied(t)
  /\ Goto(t, "publish")
  /\ UNCHANGED <<clock, lease, writes, startedAt, asOf, attempt, doc>>

\* publish_refresh_lease, one turn: read, check, prepare the completed document
PublishRead(t) ==
  /\ pc[t] = "publish"
  /\ \/ /\ lease # NoLease
        /\ MatchesOutcome(lease, t, snap[t])
        /\ Goto(t, IF snap[t] = NoSnapshot THEN "provider" ELSE "fresh")
        /\ doc' = doc
     \/ /\ lease # NoLease
        /\ MayComplete(lease, t, clock)
        /\ doc' = [doc EXCEPT ![t] = Completed(lease, snap[t], clock)]
        /\ Goto(t, "publish_write")
     \/ /\ ~ /\ lease # NoLease
             /\ MatchesOutcome(lease, t, snap[t]) \/ MayComplete(lease, t, clock)
        /\ doc' = doc
        /\ Goto(t, "repository")
  /\ UNCHANGED <<clock, lease, writes, retained, startedAt, asOf, attempt, snap>>

\* the next turn of the publication's loop, or Unavailable when none is left
NextPublication(t) ==
  IF attempt[t] + 1 < Attempts
    THEN attempt' = [attempt EXCEPT ![t] = @ + 1] /\ Goto(t, "publish")
    ELSE attempt' = attempt /\ Goto(t, "repository")

PublishWrite(t) ==
  /\ pc[t] = "publish_write"
  /\ \/ /\ EtagMatches(t)
        /\ Stored(doc[t])
        /\ Goto(t, IF snap[t] = NoSnapshot THEN "provider" ELSE "fresh")
        /\ attempt' = attempt
     \/ ~EtagMatches(t) /\ StoreUnchanged /\ NextPublication(t)
  /\ UNCHANGED <<clock, retained, startedAt, asOf, doc, snap>>

-----------------------------------------------------------------------------
(* What may go wrong.                                                      *)

\* the store answers an error and has done nothing
StoreFails(t) ==
  /\ "outage" \in Faults
  /\ pc[t] \in {"create", "read", "replace", "fetch", "publish", "publish_write"}
  /\ Goto(t, "repository")
  /\ UNCHANGED <<clock, lease, writes, retained, startedAt, asOf, attempt, doc, snap>>

\* the durable put fails: unavailable, too large, or its attempts used up
PutFails(t) ==
  /\ "rejected" \in Faults
  /\ pc[t] = "put"
  /\ Goto(t, "repository")
  /\ UNCHANGED <<clock, lease, writes, retained, startedAt, asOf, attempt, doc, snap>>

\* the conditional write a task is about to make, if its condition holds
PendingWrite(t, d) ==
  \/ pc[t] = "create" /\ lease = NoLease /\ d = Candidate(t)
  \/ pc[t] = "replace" /\ EtagMatches(t) /\ d = Candidate(t)
  \/ pc[t] = "publish_write" /\ EtagMatches(t) /\ d = doc[t]

\* a write is applied and its answer lost: the task sees an error, or its
\* deadline cancels the claim
LeaseAnswerLost(t) ==
  /\ "lost" \in Faults
  /\ \E d \in {Candidate(t), doc[t]} :
       PendingWrite(t, d) /\ Stored(d)
  /\ \/ Goto(t, "repository")
     \/ pc[t] \in Claiming /\ DeadlinePassed(t) /\ Goto(t, "provider")
  /\ UNCHANGED <<clock, retained, startedAt, asOf, attempt, doc, snap>>

PutAnswerLost(t) ==
  /\ "lost" \in Faults
  /\ pc[t] = "put"
  /\ PutApplied(t)
  /\ Goto(t, "repository")
  /\ UNCHANGED <<clock, lease, writes, startedAt, asOf, attempt, doc>>

\* the client library sends a write again after it was applied: the answer
\* is a conflict, as if another writer had come first
WriteResent(t) ==
  /\ "resent" \in Faults
  /\ \E d \in {Candidate(t), doc[t]} :
       PendingWrite(t, d) /\ Stored(d)
  /\ \/ pc[t] = "create" /\ Goto(t, "read") /\ attempt' = attempt
     \/ pc[t] = "replace" /\ NextAttempt(t)
     \/ pc[t] = "publish_write" /\ NextPublication(t)
  /\ UNCHANGED <<clock, retained, startedAt, asOf, doc, snap>>

Crash(t) ==
  /\ "crash" \in Faults
  /\ pc[t] \in Active
  /\ Goto(t, "crashed")
  /\ UNCHANGED <<clock, lease, writes, retained, startedAt, asOf, attempt, doc, snap>>

-----------------------------------------------------------------------------

ClaimStep(t) ==
  StartClaim(t) \/ Create(t) \/ Read(t) \/ Replace(t) \/ Wake(t) \/ Timeout(t)

AnswerStep(t) ==
  \/ Fetch(t) \/ LoadSucceeds(t) \/ LoadFails(t)
  \/ Put(t) \/ PublishRead(t) \/ PublishWrite(t)

TaskStep(t) == ClaimStep(t) \/ AnswerStep(t)

FaultStep(t) ==
  \/ StoreFails(t) \/ PutFails(t) \/ Crash(t)
  \/ LeaseAnswerLost(t) \/ PutAnswerLost(t) \/ WriteResent(t)

Next ==
  \/ Tick \/ Vanish \/ ForeignPut
  \/ \E t \in Tasks : Begin(t) \/ TaskStep(t) \/ FaultStep(t)

Spec == Init /\ [][Next]_vars

\* the runtime schedules every task and the clock goes on
Fairness == WF_vars(Tick) /\ \A t \in Tasks : WF_vars(TaskStep(t))

FairSpec == Spec /\ Fairness

-----------------------------------------------------------------------------
(* Properties.                                                             *)

TypeOK ==
  /\ clock \in Times
  /\ lease \in LeaseDocument \cup {NoLease}
  /\ writes \in Nat
  /\ retained \subseteq Snapshot
  /\ pc \in [Tasks -> {"idle"} \cup Active \cup Stopped]
  /\ startedAt \in [Tasks -> Times]
  /\ asOf \in [Tasks -> Times]
  /\ attempt \in [Tasks -> Nat]
  /\ doc \in [Tasks -> LeaseDocument \cup {NoLease}]
  /\ snap \in [Tasks -> Snapshot \cup {NoSnapshot}]
  /\ \A t \in Tasks :
       /\ pc[t] = "put" => snap[t] \in Snapshot
       /\ pc[t] \in {"replace", "fetch", "publish_write"} => doc[t] \in LeaseDocument

HoldsLease(t) ==
  lease # NoLease /\ lease.owner = t /\ lease.status = "in_progress"

\* A task that is retrieving live prices, and whose deadline has not passed,
\* owns the running lease: so no two tasks retrieve the same key at once,
\* whatever was taken over, lost or sent twice (load_aws_before under the
\* deadline, REFRESH_LEASE_TTL_SECONDS above DISTRIBUTED_WAIT_BUDGET).
RetrievalUnderLease ==
  \A t \in Tasks : pc[t] = "load" /\ ~DeadlinePassed(t) => HoldsLease(t)

\* The prices a refresh returns are current for the request: an owner's were
\* retrieved after the request began, a waiter's at most one lease before it,
\* even when the owner was slow and the store was rewritten in between
\* (completed_for, and put_document's rule of the later retrieval).
FreshAnswer ==
  \A t \in Tasks :
    /\ pc[t] = "fresh" => snap[t].at >= startedAt[t]
    /\ pc[t] = "cached" => startedAt[t] < snap[t].at + LeaseTTL

\* Where every snapshot is kept (Azure), a lease that reports success names one
\* that can be read back: owner_refresh_azure stores before it publishes.
PublishedIsStored ==
  KeepsAll /\ lease # NoLease /\ lease.status = "succeeded" =>
    \E r \in retained : r.content = lease.snapshot

\* when each task asked, and the lease without what only the store needs
Asked == [t \in Tasks |-> IF pc[t] = "idle" THEN NotYet ELSE startedAt[t]]

RegisterState ==
  IF lease = NoLease THEN NoLease
  ELSE [owner |-> lease.owner, leasedAt |-> lease.leasedAt,
        completedAt |-> lease.completedAt, status |-> lease.status,
        snapshot |-> lease.snapshot]

Register ==
  INSTANCE LeaseRegister WITH Empty <- NoLease, asked <- Asked, register <- RegisterState

\* The etags, the attempts, the clock readings taken before a round trip and the
\* faults of the store leave a register that is granted, settled and forgotten
\* only as LeaseRegister allows (claim_refresh_lease, publish_refresh_lease).
ImplementsRegister == Register!Spec

\* Every refresh is answered: no crash, conflict or resent write of another
\* task, and none of its own, leaves it waiting past its deadline for ever.
EveryRefreshEnds ==
  \A t \in Tasks : pc[t] = "claim" ~> pc[t] \in Stopped
=============================================================================
