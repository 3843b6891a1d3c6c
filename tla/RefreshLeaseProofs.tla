------------------------- MODULE RefreshLeaseProofs -------------------------
(***************************************************************************)
(* Proofs about RefreshLease for any set of tasks, any lease and waiting   *)
(* time with WaitBudget < LeaseTTL, any number of attempts and any faults. *)
(***************************************************************************)
EXTENDS RefreshLease, TLAPS

USE DEF LeaseAssumption

(* Type correctness.                                                       *)

LEMMA CandidateType ==
  ASSUME TypeOK, NEW t \in Tasks
  PROVE  Candidate(t) \in LeaseDocument
BY ConstantsAssumption DEF TypeOK, Candidate, LeaseDocument, Times, NotYet

LEMMA CompletedType ==
  ASSUME NEW d \in LeaseDocument, NEW s \in Snapshot \cup {NoSnapshot}, NEW now \in Times
  PROVE  Completed(d, s, now) \in LeaseDocument
BY ConstantsAssumption
   DEF Completed, LeaseDocument, Times, Outcome, SnapshotId, Snapshot

LEMMA StoredType ==
  ASSUME TypeOK, NEW d \in LeaseDocument, Stored(d)
  PROVE  lease' \in LeaseDocument /\ writes' \in Nat
<1>1. writes + 1 \in Nat /\ clock \in Nat
  BY DEF TypeOK, Times
<1>2. [d EXCEPT !.etag = writes + 1, !.modifiedAt = clock] \in LeaseDocument
  BY <1>1 DEF LeaseDocument, Times
<1> QED
  BY <1>1, <1>2 DEF Stored

LEMMA AfterPutType ==
  ASSUME TypeOK, NEW s \in Snapshot
  PROVE  AfterPut(s) \subseteq Snapshot
BY DEF TypeOK, AfterPut, Rivals

LEMMA TypeInit == Init => TypeOK
BY ConstantsAssumption DEF Init, TypeOK, Times, Active, Claiming, Owning, Stopped, Answers

LEMMA GotoType ==
  ASSUME TypeOK, NEW t \in Tasks, NEW place \in {"idle"} \cup Active \cup Stopped,
         Goto(t, place)
  PROVE  pc' \in [Tasks -> {"idle"} \cup Active \cup Stopped]
BY DEF TypeOK, Goto

LEMMA TypeNext == TypeOK /\ [Next]_vars => TypeOK'
<1> SUFFICES ASSUME TypeOK, [Next]_vars PROVE TypeOK'
  OBVIOUS
<1> USE DEF Active, Claiming, Owning, Stopped, Answers
<1>1. CASE Tick
  BY <1>1 DEF TypeOK, Tick, Times
<1>2. CASE Vanish
  BY <1>2 DEF TypeOK, Vanish
<1>3. CASE ForeignPut
  BY <1>3, AfterPutType DEF TypeOK, ForeignPut, Snapshot, Times
<1>4. ASSUME NEW t \in Tasks, Begin(t) PROVE TypeOK'
  BY <1>4, ConstantsAssumption DEF TypeOK, Begin, Goto, Times
<1>5. ASSUME NEW t \in Tasks, StartClaim(t) PROVE TypeOK'
  BY <1>5, ConstantsAssumption DEF TypeOK, StartClaim, Goto, Times
<1>6. ASSUME NEW t \in Tasks, Create(t) PROVE TypeOK'
  BY <1>6, CandidateType, StoredType, ConstantsAssumption DEF TypeOK, Create, Goto, StoreUnchanged, Times
<1>7. ASSUME NEW t \in Tasks, Read(t) PROVE TypeOK'
  BY <1>7, ConstantsAssumption DEF TypeOK, Read, Goto, NextAttempt, Times
<1>8. ASSUME NEW t \in Tasks, Replace(t) PROVE TypeOK'
  BY <1>8, CandidateType, StoredType, ConstantsAssumption DEF TypeOK, Replace, Goto, NextAttempt, StoreUnchanged, Times
<1>9. ASSUME NEW t \in Tasks, Wake(t) PROVE TypeOK'
  BY <1>9, ConstantsAssumption DEF TypeOK, Wake, Goto, Times
<1>10. ASSUME NEW t \in Tasks, Timeout(t) PROVE TypeOK'
  BY <1>10, ConstantsAssumption DEF TypeOK, Timeout, Goto, Times
<1>11. ASSUME NEW t \in Tasks, Fetch(t) PROVE TypeOK'
  BY <1>11, ConstantsAssumption DEF TypeOK, Fetch, Goto, Times
<1>12. ASSUME NEW t \in Tasks, LoadSucceeds(t) PROVE TypeOK'
  BY <1>12, ConstantsAssumption DEF TypeOK, LoadSucceeds, Goto, Snapshot, Times
<1>13. ASSUME NEW t \in Tasks, LoadFails(t) PROVE TypeOK'
  BY <1>13, ConstantsAssumption DEF TypeOK, LoadFails, Goto, Times
<1>14. ASSUME NEW t \in Tasks, Put(t) PROVE TypeOK'
  BY <1>14, AfterPutType, ConstantsAssumption DEF TypeOK, Put, Goto, PutApplied, Times
<1>15. ASSUME NEW t \in Tasks, PublishRead(t) PROVE TypeOK'
  <2>1. lease # NoLease => Completed(lease, snap[t], clock) \in LeaseDocument
    BY CompletedType DEF TypeOK
  <2>2. doc' \in [Tasks -> LeaseDocument \cup {NoLease}]
    BY <1>15, <2>1 DEF TypeOK, PublishRead
  <2>3. pc'[t] = "publish_write" => doc'[t] \in LeaseDocument
    BY <1>15, <2>1 DEF TypeOK, PublishRead, Goto
  <2> QED
    BY <1>15, <2>2, <2>3 DEF TypeOK, PublishRead, Goto
<1>16. ASSUME NEW t \in Tasks, PublishWrite(t) PROVE TypeOK'
  BY <1>16, StoredType, ConstantsAssumption DEF TypeOK, PublishWrite, Goto, NextPublication, StoreUnchanged, Times
<1>17. ASSUME NEW t \in Tasks, StoreFails(t) PROVE TypeOK'
  BY <1>17, ConstantsAssumption DEF TypeOK, StoreFails, Goto, Times
<1>18. ASSUME NEW t \in Tasks, PutFails(t) PROVE TypeOK'
  BY <1>18, ConstantsAssumption DEF TypeOK, PutFails, Goto, Times
<1>19. ASSUME NEW t \in Tasks, LeaseAnswerLost(t) PROVE TypeOK'
  BY <1>19, CandidateType, StoredType, ConstantsAssumption DEF TypeOK, LeaseAnswerLost, Goto, PendingWrite, Times
<1>20. ASSUME NEW t \in Tasks, PutAnswerLost(t) PROVE TypeOK'
  BY <1>20, AfterPutType, ConstantsAssumption DEF TypeOK, PutAnswerLost, Goto, PutApplied, Times
<1>21. ASSUME NEW t \in Tasks, WriteResent(t) PROVE TypeOK'
  BY <1>21, CandidateType, StoredType, ConstantsAssumption DEF TypeOK, WriteResent, Goto, PendingWrite, NextAttempt, NextPublication, Times
<1>22. ASSUME NEW t \in Tasks, Crash(t) PROVE TypeOK'
  BY <1>22, ConstantsAssumption DEF TypeOK, Crash, Goto, Times
<1>23. CASE UNCHANGED vars
  BY <1>23 DEF TypeOK, vars
<1> QED
  BY <1>1, <1>2, <1>3, <1>4, <1>5, <1>6, <1>7, <1>8, <1>9, <1>10, <1>11, <1>12, <1>13, <1>14, <1>15, <1>16, <1>17, <1>18, <1>19, <1>20, <1>21, <1>22, <1>23 DEF Next, TaskStep, ClaimStep, AnswerStep, FaultStep

\* The lease document, the snapshots and every task have their types in every
\* behaviour (refresh_aws_task, refresh_azure_task and the lease repository).
THEOREM TypeCorrect == Spec => []TypeOK
<1>1. Init => TypeOK
  BY TypeInit
<1>2. TypeOK /\ [Next]_vars => TypeOK'
  BY TypeNext
<1> QED
  BY <1>1, <1>2, PTL DEF Spec

-----------------------------------------------------------------------------
(* The inductive invariant of the lease.  RetrievalUnderLease alone is not  *)
(* inductive: it depends on what a task read before it writes, and on when  *)
(* it read the clock.                                                       *)

\* a task's clock readings are in order and not in the future
ClockReadings ==
  \A t \in Tasks :
    /\ startedAt[t] <= clock
    /\ pc[t] \in {"create", "read", "replace"} \cup Owning =>
         startedAt[t] <= asOf[t] /\ asOf[t] <= clock

\* the document in the store was leased, then modified, then read
LeaseTimes ==
  lease # NoLease =>
    /\ lease.etag <= writes
    /\ lease.leasedAt <= lease.modifiedAt
    /\ lease.modifiedAt <= clock
    /\ lease.status # "in_progress" => lease.completedAt < ExpiresAt(lease)

\* a matching etag means that nothing has changed since the task read
EtagsIdentify ==
  \A t \in Tasks :
    /\ pc[t] \in {"replace", "publish_write"} => doc[t].etag <= writes
    /\ pc[t] = "replace" /\ EtagMatches(t) => lease = doc[t]
    /\ pc[t] = "publish_write" /\ EtagMatches(t) => HoldsLease(t)

\* what the pending conditional writes were decided on
PendingWrites ==
  \A t \in Tasks :
    /\ pc[t] = "replace" => Decision(doc[t], startedAt[t], asOf[t]) = "reclaim"
    /\ pc[t] = "publish_write" =>
         /\ doc[t].owner = t
         /\ doc[t].leasedAt = asOf[t]
         /\ doc[t].status = Outcome(snap[t])
         /\ doc[t].snapshot = SnapshotId(snap[t])
         /\ asOf[t] <= doc[t].completedAt /\ doc[t].completedAt <= clock
         /\ doc[t].completedAt < ExpiresAt(doc[t])

\* an owner's lease is the one it was granted
OwnLease ==
  \A t \in Tasks :
    pc[t] \in Owning /\ lease # NoLease /\ lease.owner = t => lease.leasedAt = asOf[t]

\* a retrieving task holds its lease until it expires
LoadHolds ==
  \A t \in Tasks : pc[t] = "load" => HoldsLease(t) \/ asOf[t] + LeaseTTL <= clock

LeaseInv ==
  /\ TypeOK /\ ClockReadings /\ LeaseTimes
  /\ EtagsIdentify /\ PendingWrites /\ OwnLease /\ LoadHolds

(* The inductive invariant of the stored snapshots.                         *)

\* one document per content (Azure), one per scope (AWS)
OneDocument ==
  \A r, q \in retained : (KeepsAll => r.content = q.content) => r = q

\* what was stored can only be replaced by a later retrieval
Covered(c, time) ==
  \E r \in retained : r.at >= time /\ (KeepsAll => r.content = c)

LeaseCovered ==
  lease # NoLease /\ lease.status = "succeeded" => Covered(lease.snapshot, lease.leasedAt)

FetchCovered ==
  \A t \in Tasks : pc[t] = "fetch" =>
    /\ Covered(doc[t].snapshot, doc[t].leasedAt)
    /\ startedAt[t] < ExpiresAt(doc[t])

PublicationCovered ==
  \A t \in Tasks :
    /\ pc[t] = "put" => snap[t].at >= asOf[t]
    /\ pc[t] \in {"publish", "publish_write"} /\ snap[t] # NoSnapshot =>
         snap[t].at >= asOf[t] /\ Covered(snap[t].content, snap[t].at)

StoreInv ==
  OneDocument /\ LeaseCovered /\ FetchCovered /\ PublicationCovered /\ FreshAnswer

\* what a conditional write leaves in the store
LEMMA StoredFields ==
  ASSUME NEW d \in LeaseDocument, Stored(d)
  PROVE  /\ lease' # NoLease => /\ lease'.owner = d.owner
                               /\ lease'.leasedAt = d.leasedAt
                               /\ lease'.completedAt = d.completedAt
                               /\ lease'.status = d.status
                               /\ lease'.snapshot = d.snapshot
                               /\ lease'.etag = writes + 1
                               /\ lease'.modifiedAt = clock
         /\ writes' = writes + 1
BY DEF Stored, LeaseDocument

LEMMA CompletedFields ==
  ASSUME NEW d \in LeaseDocument, NEW s \in Snapshot \cup {NoSnapshot}, NEW now \in Times
  PROVE  /\ Completed(d, s, now).owner = d.owner
         /\ Completed(d, s, now).leasedAt = d.leasedAt
         /\ Completed(d, s, now).completedAt = now
         /\ Completed(d, s, now).status = Outcome(s)
         /\ Completed(d, s, now).snapshot = SnapshotId(s)
         /\ Completed(d, s, now).etag = d.etag
BY DEF Completed, LeaseDocument

LEMMA LeaseInit == Init => LeaseInv
BY TypeInit, ConstantsAssumption
   DEF Init, LeaseInv, ClockReadings, LeaseTimes, EtagsIdentify, PendingWrites,
       OwnLease, LoadHolds, Owning, Times, EtagMatches

LEMMA LeaseNext == LeaseInv /\ [Next]_vars => LeaseInv'
<1> SUFFICES ASSUME LeaseInv, [Next]_vars PROVE LeaseInv'
  OBVIOUS
<1> USE ConstantsAssumption DEF Owning, HoldsLease, ExpiresAt, LeaseDocument, Times, NotYet
<1>0. TypeOK /\ TypeOK'
  BY TypeNext DEF LeaseInv
<1>a. ClockReadings /\ LeaseTimes /\ EtagsIdentify /\ PendingWrites /\ OwnLease /\ LoadHolds
  BY DEF LeaseInv
<1>1. CASE Tick
  <2>1. ClockReadings'
    BY <1>0, <1>a, <1>1 DEF Tick, TypeOK, ClockReadings, LeaseTimes, EtagsIdentify,
       PendingWrites, OwnLease, LoadHolds, EtagMatches
  <2>2. LeaseTimes'
    BY <1>0, <1>a, <1>1 DEF Tick, TypeOK, LeaseTimes, ClockReadings, EtagsIdentify,
       PendingWrites, OwnLease, LoadHolds, EtagMatches
  <2>3. EtagsIdentify'
    BY <1>0, <1>a, <1>1 DEF Tick, TypeOK, EtagsIdentify, ClockReadings, LeaseTimes,
       PendingWrites, OwnLease, LoadHolds, EtagMatches
  <2>4. PendingWrites'
    BY <1>0, <1>a, <1>1 DEF Tick, TypeOK, PendingWrites, ClockReadings, LeaseTimes,
       EtagsIdentify, OwnLease, LoadHolds, EtagMatches, Decision, Expired
  <2>5. OwnLease'
    BY <1>0, <1>a, <1>1 DEF Tick, TypeOK, OwnLease, ClockReadings, LeaseTimes,
       EtagsIdentify, PendingWrites, LoadHolds, EtagMatches
  <2>6. LoadHolds'
    BY <1>0, <1>a, <1>1 DEF Tick, TypeOK, LoadHolds, ClockReadings, LeaseTimes,
       EtagsIdentify, PendingWrites, OwnLease, EtagMatches, Decision, Expired
  <2> QED
    BY <1>0, <2>1, <2>2, <2>3, <2>4, <2>5, <2>6 DEF LeaseInv
<1>2. CASE Vanish
  <2>1. ClockReadings'
    BY <1>0, <1>a, <1>2 DEF Vanish, TypeOK, ClockReadings, LeaseTimes, EtagsIdentify,
       PendingWrites, OwnLease, LoadHolds, EtagMatches
  <2>2. LeaseTimes'
    BY <1>0, <1>a, <1>2 DEF Vanish, TypeOK, LeaseTimes, ClockReadings, EtagsIdentify,
       PendingWrites, OwnLease, LoadHolds, EtagMatches
  <2>3. EtagsIdentify'
    BY <1>0, <1>a, <1>2 DEF Vanish, TypeOK, EtagsIdentify, ClockReadings, LeaseTimes,
       PendingWrites, OwnLease, LoadHolds, EtagMatches
  <2>4. PendingWrites'
    BY <1>0, <1>a, <1>2 DEF Vanish, TypeOK, PendingWrites, ClockReadings, LeaseTimes,
       EtagsIdentify, OwnLease, LoadHolds, EtagMatches, Decision, Expired
  <2>5. OwnLease'
    BY <1>0, <1>a, <1>2 DEF Vanish, TypeOK, OwnLease, ClockReadings, LeaseTimes,
       EtagsIdentify, PendingWrites, LoadHolds, EtagMatches
  <2>6. LoadHolds'
    BY <1>0, <1>a, <1>2 DEF Vanish, TypeOK, LoadHolds, ClockReadings, LeaseTimes,
       EtagsIdentify, PendingWrites, OwnLease, EtagMatches, Decision, Expired
  <2> QED
    BY <1>0, <2>1, <2>2, <2>3, <2>4, <2>5, <2>6 DEF LeaseInv
<1>3. CASE ForeignPut
  <2>1. ClockReadings'
    BY <1>0, <1>a, <1>3 DEF ForeignPut, TypeOK, ClockReadings, LeaseTimes,
       EtagsIdentify, PendingWrites, OwnLease, LoadHolds, EtagMatches
  <2>2. LeaseTimes'
    BY <1>0, <1>a, <1>3 DEF ForeignPut, TypeOK, LeaseTimes, ClockReadings,
       EtagsIdentify, PendingWrites, OwnLease, LoadHolds, EtagMatches
  <2>3. EtagsIdentify'
    BY <1>0, <1>a, <1>3 DEF ForeignPut, TypeOK, EtagsIdentify, ClockReadings,
       LeaseTimes, PendingWrites, OwnLease, LoadHolds, EtagMatches
  <2>4. PendingWrites'
    BY <1>0, <1>a, <1>3 DEF ForeignPut, TypeOK, PendingWrites, ClockReadings,
       LeaseTimes, EtagsIdentify, OwnLease, LoadHolds, EtagMatches, Decision, Expired
  <2>5. OwnLease'
    BY <1>0, <1>a, <1>3 DEF ForeignPut, TypeOK, OwnLease, ClockReadings, LeaseTimes,
       EtagsIdentify, PendingWrites, LoadHolds, EtagMatches
  <2>6. LoadHolds'
    BY <1>0, <1>a, <1>3 DEF ForeignPut, TypeOK, LoadHolds, ClockReadings, LeaseTimes,
       EtagsIdentify, PendingWrites, OwnLease, EtagMatches, Decision, Expired
  <2> QED
    BY <1>0, <2>1, <2>2, <2>3, <2>4, <2>5, <2>6 DEF LeaseInv
<1>4. ASSUME NEW t \in Tasks, Begin(t) PROVE LeaseInv'
  <2>1. ClockReadings'
    BY <1>0, <1>a, <1>4 DEF Begin, TypeOK, Goto, ClockReadings, LeaseTimes,
       EtagsIdentify, PendingWrites, OwnLease, LoadHolds, EtagMatches
  <2>2. LeaseTimes'
    BY <1>0, <1>a, <1>4 DEF Begin, TypeOK, Goto, LeaseTimes, ClockReadings,
       EtagsIdentify, PendingWrites, OwnLease, LoadHolds, EtagMatches
  <2>3. EtagsIdentify'
    BY <1>0, <1>a, <1>4 DEF Begin, TypeOK, Goto, EtagsIdentify, ClockReadings,
       LeaseTimes, PendingWrites, OwnLease, LoadHolds, EtagMatches
  <2>4. PendingWrites'
    BY <1>0, <1>a, <1>4 DEF Begin, TypeOK, Goto, PendingWrites, ClockReadings,
       LeaseTimes, EtagsIdentify, OwnLease, LoadHolds, EtagMatches, Decision, Expired
  <2>5. OwnLease'
    BY <1>0, <1>a, <1>4 DEF Begin, TypeOK, Goto, OwnLease, ClockReadings, LeaseTimes,
       EtagsIdentify, PendingWrites, LoadHolds, EtagMatches
  <2>6. LoadHolds'
    BY <1>0, <1>a, <1>4 DEF Begin, TypeOK, Goto, LoadHolds, ClockReadings, LeaseTimes,
       EtagsIdentify, PendingWrites, OwnLease, EtagMatches, Decision, Expired
  <2> QED
    BY <1>0, <2>1, <2>2, <2>3, <2>4, <2>5, <2>6 DEF LeaseInv
<1>5. ASSUME NEW t \in Tasks, StartClaim(t) PROVE LeaseInv'
  <2>1. ClockReadings'
    BY <1>0, <1>a, <1>5 DEF StartClaim, TypeOK, Goto, ClockReadings, LeaseTimes,
       EtagsIdentify, PendingWrites, OwnLease, LoadHolds, EtagMatches
  <2>2. LeaseTimes'
    BY <1>0, <1>a, <1>5 DEF StartClaim, TypeOK, Goto, LeaseTimes, ClockReadings,
       EtagsIdentify, PendingWrites, OwnLease, LoadHolds, EtagMatches
  <2>3. EtagsIdentify'
    BY <1>0, <1>a, <1>5 DEF StartClaim, TypeOK, Goto, EtagsIdentify, ClockReadings,
       LeaseTimes, PendingWrites, OwnLease, LoadHolds, EtagMatches
  <2>4. PendingWrites'
    BY <1>0, <1>a, <1>5 DEF StartClaim, TypeOK, Goto, PendingWrites, ClockReadings,
       LeaseTimes, EtagsIdentify, OwnLease, LoadHolds, EtagMatches, Decision, Expired
  <2>5. OwnLease'
    BY <1>0, <1>a, <1>5 DEF StartClaim, TypeOK, Goto, OwnLease, ClockReadings,
       LeaseTimes, EtagsIdentify, PendingWrites, LoadHolds, EtagMatches
  <2>6. LoadHolds'
    BY <1>0, <1>a, <1>5 DEF StartClaim, TypeOK, Goto, LoadHolds, ClockReadings,
       LeaseTimes, EtagsIdentify, PendingWrites, OwnLease, EtagMatches, Decision,
       Expired
  <2> QED
    BY <1>0, <2>1, <2>2, <2>3, <2>4, <2>5, <2>6 DEF LeaseInv
<1>6. ASSUME NEW t \in Tasks, Create(t) PROVE LeaseInv'
  <2>1. ClockReadings'
    BY <1>0, <1>a, <1>6, StoredFields, StoredType, CandidateType DEF Create, TypeOK,
       Goto, ClockReadings, StoreUnchanged, Candidate, LeaseTimes, EtagsIdentify,
       PendingWrites, OwnLease, LoadHolds, EtagMatches
  <2>2. LeaseTimes'
    BY <1>0, <1>a, <1>6, StoredFields, StoredType, CandidateType DEF Create, TypeOK,
       Goto, LeaseTimes, StoreUnchanged, Candidate, ClockReadings, EtagsIdentify,
       PendingWrites, OwnLease, LoadHolds, EtagMatches
  <2>3. EtagsIdentify'
    BY <1>0, <1>a, <1>6, StoredFields, StoredType, CandidateType DEF Create, TypeOK,
       Goto, EtagsIdentify, StoreUnchanged, Candidate, ClockReadings, LeaseTimes,
       PendingWrites, OwnLease, LoadHolds, EtagMatches
  <2>4. PendingWrites'
    BY <1>0, <1>a, <1>6, StoredFields, StoredType, CandidateType DEF Create, TypeOK,
       Goto, PendingWrites, StoreUnchanged, Candidate, ClockReadings, LeaseTimes,
       EtagsIdentify, OwnLease, LoadHolds, EtagMatches, Decision, Expired
  <2>5. OwnLease'
    BY <1>0, <1>a, <1>6, StoredFields, StoredType, CandidateType DEF Create, TypeOK,
       Goto, OwnLease, StoreUnchanged, Candidate, ClockReadings, LeaseTimes,
       EtagsIdentify, PendingWrites, LoadHolds, EtagMatches
  <2>6. LoadHolds'
    BY <1>0, <1>a, <1>6, StoredFields, StoredType, CandidateType DEF Create, TypeOK,
       Goto, LoadHolds, StoreUnchanged, Candidate, ClockReadings, LeaseTimes,
       EtagsIdentify, PendingWrites, OwnLease, EtagMatches, Decision, Expired
  <2> QED
    BY <1>0, <2>1, <2>2, <2>3, <2>4, <2>5, <2>6 DEF LeaseInv
<1>7. ASSUME NEW t \in Tasks, Read(t) PROVE LeaseInv'
  <2>1. ClockReadings'
    BY <1>0, <1>a, <1>7 DEF Read, TypeOK, Goto, ClockReadings, NextAttempt,
       LeaseTimes, EtagsIdentify, PendingWrites, OwnLease, LoadHolds, EtagMatches
  <2>2. LeaseTimes'
    BY <1>0, <1>a, <1>7 DEF Read, TypeOK, Goto, LeaseTimes, NextAttempt,
       ClockReadings, EtagsIdentify, PendingWrites, OwnLease, LoadHolds, EtagMatches
  <2>3. EtagsIdentify'
    BY <1>0, <1>a, <1>7 DEF Read, TypeOK, Goto, EtagsIdentify, NextAttempt,
       ClockReadings, LeaseTimes, PendingWrites, OwnLease, LoadHolds, EtagMatches
  <2>4. PendingWrites'
    BY <1>0, <1>a, <1>7 DEF Read, TypeOK, Goto, PendingWrites, NextAttempt,
       ClockReadings, LeaseTimes, EtagsIdentify, OwnLease, LoadHolds, EtagMatches,
       Decision, Expired
  <2>5. OwnLease'
    BY <1>0, <1>a, <1>7 DEF Read, TypeOK, Goto, OwnLease, NextAttempt, ClockReadings,
       LeaseTimes, EtagsIdentify, PendingWrites, LoadHolds, EtagMatches
  <2>6. LoadHolds'
    BY <1>0, <1>a, <1>7 DEF Read, TypeOK, Goto, LoadHolds, NextAttempt, ClockReadings,
       LeaseTimes, EtagsIdentify, PendingWrites, OwnLease, EtagMatches, Decision,
       Expired
  <2> QED
    BY <1>0, <2>1, <2>2, <2>3, <2>4, <2>5, <2>6 DEF LeaseInv
<1>8. ASSUME NEW t \in Tasks, Replace(t) PROVE LeaseInv'
  <2>1. ClockReadings'
    BY <1>0, <1>a, <1>8, StoredFields, StoredType, CandidateType DEF Replace, TypeOK,
       Goto, ClockReadings, NextAttempt, StoreUnchanged, Candidate, LeaseTimes,
       EtagsIdentify, PendingWrites, OwnLease, LoadHolds, EtagMatches
  <2>2. LeaseTimes'
    BY <1>0, <1>a, <1>8, StoredFields, StoredType, CandidateType DEF Replace, TypeOK,
       Goto, LeaseTimes, NextAttempt, StoreUnchanged, Candidate, ClockReadings,
       EtagsIdentify, PendingWrites, OwnLease, LoadHolds, EtagMatches
  <2>3. EtagsIdentify'
    BY <1>0, <1>a, <1>8, StoredFields, StoredType, CandidateType DEF Replace, TypeOK,
       Goto, EtagsIdentify, NextAttempt, StoreUnchanged, Candidate, ClockReadings,
       LeaseTimes, PendingWrites, OwnLease, LoadHolds, EtagMatches
  <2>4. PendingWrites'
    BY <1>0, <1>a, <1>8, StoredFields, StoredType, CandidateType DEF Replace, TypeOK,
       Goto, PendingWrites, NextAttempt, StoreUnchanged, Candidate, ClockReadings,
       LeaseTimes, EtagsIdentify, OwnLease, LoadHolds, EtagMatches, Decision, Expired
  <2>5. OwnLease'
    BY <1>0, <1>a, <1>8, StoredFields, StoredType, CandidateType DEF Replace, TypeOK,
       Goto, OwnLease, NextAttempt, StoreUnchanged, Candidate, ClockReadings,
       LeaseTimes, EtagsIdentify, PendingWrites, LoadHolds, EtagMatches
  <2>6. LoadHolds'
    BY <1>0, <1>a, <1>8, StoredFields, StoredType, CandidateType DEF Replace, TypeOK,
       Goto, LoadHolds, NextAttempt, StoreUnchanged, Candidate, ClockReadings,
       LeaseTimes, EtagsIdentify, PendingWrites, OwnLease, EtagMatches, Decision,
       Expired
  <2> QED
    BY <1>0, <2>1, <2>2, <2>3, <2>4, <2>5, <2>6 DEF LeaseInv
<1>9. ASSUME NEW t \in Tasks, Wake(t) PROVE LeaseInv'
  <2>1. ClockReadings'
    BY <1>0, <1>a, <1>9 DEF Wake, TypeOK, Goto, ClockReadings, LeaseTimes,
       EtagsIdentify, PendingWrites, OwnLease, LoadHolds, EtagMatches
  <2>2. LeaseTimes'
    BY <1>0, <1>a, <1>9 DEF Wake, TypeOK, Goto, LeaseTimes, ClockReadings,
       EtagsIdentify, PendingWrites, OwnLease, LoadHolds, EtagMatches
  <2>3. EtagsIdentify'
    BY <1>0, <1>a, <1>9 DEF Wake, TypeOK, Goto, EtagsIdentify, ClockReadings,
       LeaseTimes, PendingWrites, OwnLease, LoadHolds, EtagMatches
  <2>4. PendingWrites'
    BY <1>0, <1>a, <1>9 DEF Wake, TypeOK, Goto, PendingWrites, ClockReadings,
       LeaseTimes, EtagsIdentify, OwnLease, LoadHolds, EtagMatches, Decision, Expired
  <2>5. OwnLease'
    BY <1>0, <1>a, <1>9 DEF Wake, TypeOK, Goto, OwnLease, ClockReadings, LeaseTimes,
       EtagsIdentify, PendingWrites, LoadHolds, EtagMatches
  <2>6. LoadHolds'
    BY <1>0, <1>a, <1>9 DEF Wake, TypeOK, Goto, LoadHolds, ClockReadings, LeaseTimes,
       EtagsIdentify, PendingWrites, OwnLease, EtagMatches, Decision, Expired
  <2> QED
    BY <1>0, <2>1, <2>2, <2>3, <2>4, <2>5, <2>6 DEF LeaseInv
<1>10. ASSUME NEW t \in Tasks, Timeout(t) PROVE LeaseInv'
  <2>1. ClockReadings'
    BY <1>0, <1>a, <1>10 DEF Timeout, TypeOK, Goto, ClockReadings, LeaseTimes,
       EtagsIdentify, PendingWrites, OwnLease, LoadHolds, EtagMatches
  <2>2. LeaseTimes'
    BY <1>0, <1>a, <1>10 DEF Timeout, TypeOK, Goto, LeaseTimes, ClockReadings,
       EtagsIdentify, PendingWrites, OwnLease, LoadHolds, EtagMatches
  <2>3. EtagsIdentify'
    BY <1>0, <1>a, <1>10 DEF Timeout, TypeOK, Goto, EtagsIdentify, ClockReadings,
       LeaseTimes, PendingWrites, OwnLease, LoadHolds, EtagMatches
  <2>4. PendingWrites'
    BY <1>0, <1>a, <1>10 DEF Timeout, TypeOK, Goto, PendingWrites, ClockReadings,
       LeaseTimes, EtagsIdentify, OwnLease, LoadHolds, EtagMatches, Decision, Expired
  <2>5. OwnLease'
    BY <1>0, <1>a, <1>10 DEF Timeout, TypeOK, Goto, OwnLease, ClockReadings,
       LeaseTimes, EtagsIdentify, PendingWrites, LoadHolds, EtagMatches
  <2>6. LoadHolds'
    BY <1>0, <1>a, <1>10 DEF Timeout, TypeOK, Goto, LoadHolds, ClockReadings,
       LeaseTimes, EtagsIdentify, PendingWrites, OwnLease, EtagMatches, Decision,
       Expired
  <2> QED
    BY <1>0, <2>1, <2>2, <2>3, <2>4, <2>5, <2>6 DEF LeaseInv
<1>11. ASSUME NEW t \in Tasks, Fetch(t) PROVE LeaseInv'
  <2>1. ClockReadings'
    BY <1>0, <1>a, <1>11 DEF Fetch, TypeOK, Goto, ClockReadings, LeaseTimes,
       EtagsIdentify, PendingWrites, OwnLease, LoadHolds, EtagMatches
  <2>2. LeaseTimes'
    BY <1>0, <1>a, <1>11 DEF Fetch, TypeOK, Goto, LeaseTimes, ClockReadings,
       EtagsIdentify, PendingWrites, OwnLease, LoadHolds, EtagMatches
  <2>3. EtagsIdentify'
    BY <1>0, <1>a, <1>11 DEF Fetch, TypeOK, Goto, EtagsIdentify, ClockReadings,
       LeaseTimes, PendingWrites, OwnLease, LoadHolds, EtagMatches
  <2>4. PendingWrites'
    BY <1>0, <1>a, <1>11 DEF Fetch, TypeOK, Goto, PendingWrites, ClockReadings,
       LeaseTimes, EtagsIdentify, OwnLease, LoadHolds, EtagMatches, Decision, Expired
  <2>5. OwnLease'
    BY <1>0, <1>a, <1>11 DEF Fetch, TypeOK, Goto, OwnLease, ClockReadings, LeaseTimes,
       EtagsIdentify, PendingWrites, LoadHolds, EtagMatches
  <2>6. LoadHolds'
    BY <1>0, <1>a, <1>11 DEF Fetch, TypeOK, Goto, LoadHolds, ClockReadings,
       LeaseTimes, EtagsIdentify, PendingWrites, OwnLease, EtagMatches, Decision,
       Expired
  <2> QED
    BY <1>0, <2>1, <2>2, <2>3, <2>4, <2>5, <2>6 DEF LeaseInv
<1>12. ASSUME NEW t \in Tasks, LoadSucceeds(t) PROVE LeaseInv'
  <2>1. ClockReadings'
    BY <1>0, <1>a, <1>12 DEF LoadSucceeds, TypeOK, Goto, ClockReadings, LeaseTimes,
       EtagsIdentify, PendingWrites, OwnLease, LoadHolds, EtagMatches
  <2>2. LeaseTimes'
    BY <1>0, <1>a, <1>12 DEF LoadSucceeds, TypeOK, Goto, LeaseTimes, ClockReadings,
       EtagsIdentify, PendingWrites, OwnLease, LoadHolds, EtagMatches
  <2>3. EtagsIdentify'
    BY <1>0, <1>a, <1>12 DEF LoadSucceeds, TypeOK, Goto, EtagsIdentify, ClockReadings,
       LeaseTimes, PendingWrites, OwnLease, LoadHolds, EtagMatches
  <2>4. PendingWrites'
    BY <1>0, <1>a, <1>12 DEF LoadSucceeds, TypeOK, Goto, PendingWrites, ClockReadings,
       LeaseTimes, EtagsIdentify, OwnLease, LoadHolds, EtagMatches, Decision, Expired
  <2>5. OwnLease'
    BY <1>0, <1>a, <1>12 DEF LoadSucceeds, TypeOK, Goto, OwnLease, ClockReadings,
       LeaseTimes, EtagsIdentify, PendingWrites, LoadHolds, EtagMatches
  <2>6. LoadHolds'
    BY <1>0, <1>a, <1>12 DEF LoadSucceeds, TypeOK, Goto, LoadHolds, ClockReadings,
       LeaseTimes, EtagsIdentify, PendingWrites, OwnLease, EtagMatches, Decision,
       Expired
  <2> QED
    BY <1>0, <2>1, <2>2, <2>3, <2>4, <2>5, <2>6 DEF LeaseInv
<1>13. ASSUME NEW t \in Tasks, LoadFails(t) PROVE LeaseInv'
  <2>1. ClockReadings'
    BY <1>0, <1>a, <1>13 DEF LoadFails, TypeOK, Goto, ClockReadings, LeaseTimes,
       EtagsIdentify, PendingWrites, OwnLease, LoadHolds, EtagMatches
  <2>2. LeaseTimes'
    BY <1>0, <1>a, <1>13 DEF LoadFails, TypeOK, Goto, LeaseTimes, ClockReadings,
       EtagsIdentify, PendingWrites, OwnLease, LoadHolds, EtagMatches
  <2>3. EtagsIdentify'
    BY <1>0, <1>a, <1>13 DEF LoadFails, TypeOK, Goto, EtagsIdentify, ClockReadings,
       LeaseTimes, PendingWrites, OwnLease, LoadHolds, EtagMatches
  <2>4. PendingWrites'
    BY <1>0, <1>a, <1>13 DEF LoadFails, TypeOK, Goto, PendingWrites, ClockReadings,
       LeaseTimes, EtagsIdentify, OwnLease, LoadHolds, EtagMatches, Decision, Expired
  <2>5. OwnLease'
    BY <1>0, <1>a, <1>13 DEF LoadFails, TypeOK, Goto, OwnLease, ClockReadings,
       LeaseTimes, EtagsIdentify, PendingWrites, LoadHolds, EtagMatches
  <2>6. LoadHolds'
    BY <1>0, <1>a, <1>13 DEF LoadFails, TypeOK, Goto, LoadHolds, ClockReadings,
       LeaseTimes, EtagsIdentify, PendingWrites, OwnLease, EtagMatches, Decision,
       Expired
  <2> QED
    BY <1>0, <2>1, <2>2, <2>3, <2>4, <2>5, <2>6 DEF LeaseInv
<1>14. ASSUME NEW t \in Tasks, Put(t) PROVE LeaseInv'
  <2>1. ClockReadings'
    BY <1>0, <1>a, <1>14 DEF Put, TypeOK, Goto, ClockReadings, PutApplied, LeaseTimes,
       EtagsIdentify, PendingWrites, OwnLease, LoadHolds, EtagMatches
  <2>2. LeaseTimes'
    BY <1>0, <1>a, <1>14 DEF Put, TypeOK, Goto, LeaseTimes, PutApplied, ClockReadings,
       EtagsIdentify, PendingWrites, OwnLease, LoadHolds, EtagMatches
  <2>3. EtagsIdentify'
    BY <1>0, <1>a, <1>14 DEF Put, TypeOK, Goto, EtagsIdentify, PutApplied,
       ClockReadings, LeaseTimes, PendingWrites, OwnLease, LoadHolds, EtagMatches
  <2>4. PendingWrites'
    BY <1>0, <1>a, <1>14 DEF Put, TypeOK, Goto, PendingWrites, PutApplied,
       ClockReadings, LeaseTimes, EtagsIdentify, OwnLease, LoadHolds, EtagMatches,
       Decision, Expired
  <2>5. OwnLease'
    BY <1>0, <1>a, <1>14 DEF Put, TypeOK, Goto, OwnLease, PutApplied, ClockReadings,
       LeaseTimes, EtagsIdentify, PendingWrites, LoadHolds, EtagMatches
  <2>6. LoadHolds'
    BY <1>0, <1>a, <1>14 DEF Put, TypeOK, Goto, LoadHolds, PutApplied, ClockReadings,
       LeaseTimes, EtagsIdentify, PendingWrites, OwnLease, EtagMatches, Decision,
       Expired
  <2> QED
    BY <1>0, <2>1, <2>2, <2>3, <2>4, <2>5, <2>6 DEF LeaseInv
<1>15. ASSUME NEW t \in Tasks, PublishRead(t) PROVE LeaseInv'
  <2>1. ClockReadings'
    BY <1>0, <1>a, <1>15, CompletedFields DEF PublishRead, TypeOK, Goto,
       ClockReadings, MayComplete, Expired, LeaseTimes, EtagsIdentify, PendingWrites,
       OwnLease, LoadHolds, EtagMatches
  <2>2. LeaseTimes'
    BY <1>0, <1>a, <1>15, CompletedFields DEF PublishRead, TypeOK, Goto, LeaseTimes,
       MayComplete, Expired, ClockReadings, EtagsIdentify, PendingWrites, OwnLease,
       LoadHolds, EtagMatches
  <2>3. EtagsIdentify'
    BY <1>0, <1>a, <1>15, CompletedFields DEF PublishRead, TypeOK, Goto,
       EtagsIdentify, MayComplete, Expired, ClockReadings, LeaseTimes, PendingWrites,
       OwnLease, LoadHolds, EtagMatches
  <2>4. PendingWrites'
    BY <1>0, <1>a, <1>15, CompletedFields DEF PublishRead, TypeOK, Goto,
       PendingWrites, MayComplete, Expired, ClockReadings, LeaseTimes, EtagsIdentify,
       OwnLease, LoadHolds, EtagMatches, Decision
  <2>5. OwnLease'
    BY <1>0, <1>a, <1>15, CompletedFields DEF PublishRead, TypeOK, Goto, OwnLease,
       MayComplete, Expired, ClockReadings, LeaseTimes, EtagsIdentify, PendingWrites,
       LoadHolds, EtagMatches
  <2>6. LoadHolds'
    BY <1>0, <1>a, <1>15, CompletedFields DEF PublishRead, TypeOK, Goto, LoadHolds,
       MayComplete, Expired, ClockReadings, LeaseTimes, EtagsIdentify, PendingWrites,
       OwnLease, EtagMatches, Decision
  <2> QED
    BY <1>0, <2>1, <2>2, <2>3, <2>4, <2>5, <2>6 DEF LeaseInv
<1>16. ASSUME NEW t \in Tasks, PublishWrite(t) PROVE LeaseInv'
  <2>1. ClockReadings'
    BY <1>0, <1>a, <1>16, StoredFields, StoredType DEF PublishWrite, TypeOK, Goto,
       ClockReadings, NextPublication, StoreUnchanged, LeaseTimes, EtagsIdentify,
       PendingWrites, OwnLease, LoadHolds, EtagMatches
  <2>2. LeaseTimes'
    BY <1>0, <1>a, <1>16, StoredFields, StoredType DEF PublishWrite, TypeOK, Goto,
       LeaseTimes, NextPublication, StoreUnchanged, ClockReadings, EtagsIdentify,
       PendingWrites, OwnLease, LoadHolds, EtagMatches
  <2>3. EtagsIdentify'
    BY <1>0, <1>a, <1>16, StoredFields, StoredType DEF PublishWrite, TypeOK, Goto,
       EtagsIdentify, NextPublication, StoreUnchanged, ClockReadings, LeaseTimes,
       PendingWrites, OwnLease, LoadHolds, EtagMatches
  <2>4. PendingWrites'
    BY <1>0, <1>a, <1>16, StoredFields, StoredType DEF PublishWrite, TypeOK, Goto,
       PendingWrites, NextPublication, StoreUnchanged, ClockReadings, LeaseTimes,
       EtagsIdentify, OwnLease, LoadHolds, EtagMatches, Decision, Expired
  <2>5. OwnLease'
    BY <1>0, <1>a, <1>16, StoredFields, StoredType DEF PublishWrite, TypeOK, Goto,
       OwnLease, NextPublication, StoreUnchanged, ClockReadings, LeaseTimes,
       EtagsIdentify, PendingWrites, LoadHolds, EtagMatches
  <2>6. LoadHolds'
    BY <1>0, <1>a, <1>16, StoredFields, StoredType DEF PublishWrite, TypeOK, Goto,
       LoadHolds, NextPublication, StoreUnchanged, ClockReadings, LeaseTimes,
       EtagsIdentify, PendingWrites, OwnLease, EtagMatches, Decision, Expired
  <2> QED
    BY <1>0, <2>1, <2>2, <2>3, <2>4, <2>5, <2>6 DEF LeaseInv
<1>17. ASSUME NEW t \in Tasks, StoreFails(t) PROVE LeaseInv'
  <2>1. ClockReadings'
    BY <1>0, <1>a, <1>17 DEF StoreFails, TypeOK, Goto, ClockReadings, LeaseTimes,
       EtagsIdentify, PendingWrites, OwnLease, LoadHolds, EtagMatches
  <2>2. LeaseTimes'
    BY <1>0, <1>a, <1>17 DEF StoreFails, TypeOK, Goto, LeaseTimes, ClockReadings,
       EtagsIdentify, PendingWrites, OwnLease, LoadHolds, EtagMatches
  <2>3. EtagsIdentify'
    BY <1>0, <1>a, <1>17 DEF StoreFails, TypeOK, Goto, EtagsIdentify, ClockReadings,
       LeaseTimes, PendingWrites, OwnLease, LoadHolds, EtagMatches
  <2>4. PendingWrites'
    BY <1>0, <1>a, <1>17 DEF StoreFails, TypeOK, Goto, PendingWrites, ClockReadings,
       LeaseTimes, EtagsIdentify, OwnLease, LoadHolds, EtagMatches, Decision, Expired
  <2>5. OwnLease'
    BY <1>0, <1>a, <1>17 DEF StoreFails, TypeOK, Goto, OwnLease, ClockReadings,
       LeaseTimes, EtagsIdentify, PendingWrites, LoadHolds, EtagMatches
  <2>6. LoadHolds'
    BY <1>0, <1>a, <1>17 DEF StoreFails, TypeOK, Goto, LoadHolds, ClockReadings,
       LeaseTimes, EtagsIdentify, PendingWrites, OwnLease, EtagMatches, Decision,
       Expired
  <2> QED
    BY <1>0, <2>1, <2>2, <2>3, <2>4, <2>5, <2>6 DEF LeaseInv
<1>18. ASSUME NEW t \in Tasks, PutFails(t) PROVE LeaseInv'
  <2>1. ClockReadings'
    BY <1>0, <1>a, <1>18 DEF PutFails, TypeOK, Goto, ClockReadings, LeaseTimes,
       EtagsIdentify, PendingWrites, OwnLease, LoadHolds, EtagMatches
  <2>2. LeaseTimes'
    BY <1>0, <1>a, <1>18 DEF PutFails, TypeOK, Goto, LeaseTimes, ClockReadings,
       EtagsIdentify, PendingWrites, OwnLease, LoadHolds, EtagMatches
  <2>3. EtagsIdentify'
    BY <1>0, <1>a, <1>18 DEF PutFails, TypeOK, Goto, EtagsIdentify, ClockReadings,
       LeaseTimes, PendingWrites, OwnLease, LoadHolds, EtagMatches
  <2>4. PendingWrites'
    BY <1>0, <1>a, <1>18 DEF PutFails, TypeOK, Goto, PendingWrites, ClockReadings,
       LeaseTimes, EtagsIdentify, OwnLease, LoadHolds, EtagMatches, Decision, Expired
  <2>5. OwnLease'
    BY <1>0, <1>a, <1>18 DEF PutFails, TypeOK, Goto, OwnLease, ClockReadings,
       LeaseTimes, EtagsIdentify, PendingWrites, LoadHolds, EtagMatches
  <2>6. LoadHolds'
    BY <1>0, <1>a, <1>18 DEF PutFails, TypeOK, Goto, LoadHolds, ClockReadings,
       LeaseTimes, EtagsIdentify, PendingWrites, OwnLease, EtagMatches, Decision,
       Expired
  <2> QED
    BY <1>0, <2>1, <2>2, <2>3, <2>4, <2>5, <2>6 DEF LeaseInv
<1>19. ASSUME NEW t \in Tasks, LeaseAnswerLost(t) PROVE LeaseInv'
  <2>1. ClockReadings'
    BY <1>0, <1>a, <1>19, StoredFields, StoredType, CandidateType DEF LeaseAnswerLost,
       TypeOK, Goto, ClockReadings, PendingWrite, Candidate, LeaseTimes,
       EtagsIdentify, PendingWrites, OwnLease, LoadHolds, EtagMatches
  <2>2. LeaseTimes'
    BY <1>0, <1>a, <1>19, StoredFields, StoredType, CandidateType DEF LeaseAnswerLost,
       TypeOK, Goto, LeaseTimes, PendingWrite, Candidate, ClockReadings,
       EtagsIdentify, PendingWrites, OwnLease, LoadHolds, EtagMatches
  <2>3. EtagsIdentify'
    BY <1>0, <1>a, <1>19, StoredFields, StoredType, CandidateType DEF LeaseAnswerLost,
       TypeOK, Goto, EtagsIdentify, PendingWrite, Candidate, ClockReadings,
       LeaseTimes, PendingWrites, OwnLease, LoadHolds, EtagMatches
  <2>4. PendingWrites'
    BY <1>0, <1>a, <1>19, StoredFields, StoredType, CandidateType DEF LeaseAnswerLost,
       TypeOK, Goto, PendingWrites, PendingWrite, Candidate, ClockReadings,
       LeaseTimes, EtagsIdentify, OwnLease, LoadHolds, EtagMatches, Decision, Expired
  <2>5. OwnLease'
    BY <1>0, <1>a, <1>19, StoredFields, StoredType, CandidateType DEF LeaseAnswerLost,
       TypeOK, Goto, OwnLease, PendingWrite, Candidate, ClockReadings, LeaseTimes,
       EtagsIdentify, PendingWrites, LoadHolds, EtagMatches
  <2>6. LoadHolds'
    BY <1>0, <1>a, <1>19, StoredFields, StoredType, CandidateType DEF LeaseAnswerLost,
       TypeOK, Goto, LoadHolds, PendingWrite, Candidate, ClockReadings, LeaseTimes,
       EtagsIdentify, PendingWrites, OwnLease, EtagMatches, Decision, Expired
  <2> QED
    BY <1>0, <2>1, <2>2, <2>3, <2>4, <2>5, <2>6 DEF LeaseInv
<1>20. ASSUME NEW t \in Tasks, PutAnswerLost(t) PROVE LeaseInv'
  <2>1. ClockReadings'
    BY <1>0, <1>a, <1>20 DEF PutAnswerLost, TypeOK, Goto, ClockReadings, PutApplied,
       LeaseTimes, EtagsIdentify, PendingWrites, OwnLease, LoadHolds, EtagMatches
  <2>2. LeaseTimes'
    BY <1>0, <1>a, <1>20 DEF PutAnswerLost, TypeOK, Goto, LeaseTimes, PutApplied,
       ClockReadings, EtagsIdentify, PendingWrites, OwnLease, LoadHolds, EtagMatches
  <2>3. EtagsIdentify'
    BY <1>0, <1>a, <1>20 DEF PutAnswerLost, TypeOK, Goto, EtagsIdentify, PutApplied,
       ClockReadings, LeaseTimes, PendingWrites, OwnLease, LoadHolds, EtagMatches
  <2>4. PendingWrites'
    BY <1>0, <1>a, <1>20 DEF PutAnswerLost, TypeOK, Goto, PendingWrites, PutApplied,
       ClockReadings, LeaseTimes, EtagsIdentify, OwnLease, LoadHolds, EtagMatches,
       Decision, Expired
  <2>5. OwnLease'
    BY <1>0, <1>a, <1>20 DEF PutAnswerLost, TypeOK, Goto, OwnLease, PutApplied,
       ClockReadings, LeaseTimes, EtagsIdentify, PendingWrites, LoadHolds, EtagMatches
  <2>6. LoadHolds'
    BY <1>0, <1>a, <1>20 DEF PutAnswerLost, TypeOK, Goto, LoadHolds, PutApplied,
       ClockReadings, LeaseTimes, EtagsIdentify, PendingWrites, OwnLease, EtagMatches,
       Decision, Expired
  <2> QED
    BY <1>0, <2>1, <2>2, <2>3, <2>4, <2>5, <2>6 DEF LeaseInv
<1>21. ASSUME NEW t \in Tasks, WriteResent(t) PROVE LeaseInv'
  <2>1. ClockReadings'
    BY <1>0, <1>a, <1>21, StoredFields, StoredType, CandidateType DEF WriteResent,
       TypeOK, Goto, ClockReadings, PendingWrite, Candidate, NextAttempt,
       NextPublication, LeaseTimes, EtagsIdentify, PendingWrites, OwnLease, LoadHolds,
       EtagMatches
  <2>2. LeaseTimes'
    BY <1>0, <1>a, <1>21, StoredFields, StoredType, CandidateType DEF WriteResent,
       TypeOK, Goto, LeaseTimes, PendingWrite, Candidate, NextAttempt,
       NextPublication, ClockReadings, EtagsIdentify, PendingWrites, OwnLease,
       LoadHolds, EtagMatches
  <2>3. EtagsIdentify'
    BY <1>0, <1>a, <1>21, StoredFields, StoredType, CandidateType DEF WriteResent,
       TypeOK, Goto, EtagsIdentify, PendingWrite, Candidate, NextAttempt,
       NextPublication, ClockReadings, LeaseTimes, PendingWrites, OwnLease, LoadHolds,
       EtagMatches
  <2>4. PendingWrites'
    BY <1>0, <1>a, <1>21, StoredFields, StoredType, CandidateType DEF WriteResent,
       TypeOK, Goto, PendingWrites, PendingWrite, Candidate, NextAttempt,
       NextPublication, ClockReadings, LeaseTimes, EtagsIdentify, OwnLease, LoadHolds,
       EtagMatches, Decision, Expired
  <2>5. OwnLease'
    BY <1>0, <1>a, <1>21, StoredFields, StoredType, CandidateType DEF WriteResent,
       TypeOK, Goto, OwnLease, PendingWrite, Candidate, NextAttempt, NextPublication,
       ClockReadings, LeaseTimes, EtagsIdentify, PendingWrites, LoadHolds, EtagMatches
  <2>6. LoadHolds'
    BY <1>0, <1>a, <1>21, StoredFields, StoredType, CandidateType DEF WriteResent,
       TypeOK, Goto, LoadHolds, PendingWrite, Candidate, NextAttempt, NextPublication,
       ClockReadings, LeaseTimes, EtagsIdentify, PendingWrites, OwnLease, EtagMatches,
       Decision, Expired
  <2> QED
    BY <1>0, <2>1, <2>2, <2>3, <2>4, <2>5, <2>6 DEF LeaseInv
<1>22. ASSUME NEW t \in Tasks, Crash(t) PROVE LeaseInv'
  <2>1. ClockReadings'
    BY <1>0, <1>a, <1>22 DEF Crash, TypeOK, Goto, ClockReadings, LeaseTimes,
       EtagsIdentify, PendingWrites, OwnLease, LoadHolds, EtagMatches
  <2>2. LeaseTimes'
    BY <1>0, <1>a, <1>22 DEF Crash, TypeOK, Goto, LeaseTimes, ClockReadings,
       EtagsIdentify, PendingWrites, OwnLease, LoadHolds, EtagMatches
  <2>3. EtagsIdentify'
    BY <1>0, <1>a, <1>22 DEF Crash, TypeOK, Goto, EtagsIdentify, ClockReadings,
       LeaseTimes, PendingWrites, OwnLease, LoadHolds, EtagMatches
  <2>4. PendingWrites'
    BY <1>0, <1>a, <1>22 DEF Crash, TypeOK, Goto, PendingWrites, ClockReadings,
       LeaseTimes, EtagsIdentify, OwnLease, LoadHolds, EtagMatches, Decision, Expired
  <2>5. OwnLease'
    BY <1>0, <1>a, <1>22 DEF Crash, TypeOK, Goto, OwnLease, ClockReadings, LeaseTimes,
       EtagsIdentify, PendingWrites, LoadHolds, EtagMatches
  <2>6. LoadHolds'
    BY <1>0, <1>a, <1>22 DEF Crash, TypeOK, Goto, LoadHolds, ClockReadings,
       LeaseTimes, EtagsIdentify, PendingWrites, OwnLease, EtagMatches, Decision,
       Expired
  <2> QED
    BY <1>0, <2>1, <2>2, <2>3, <2>4, <2>5, <2>6 DEF LeaseInv
<1>23. CASE UNCHANGED vars
  BY <1>0, <1>a, <1>23 DEF LeaseInv, vars, ClockReadings, LeaseTimes, EtagsIdentify,
     PendingWrites, OwnLease, LoadHolds, EtagMatches, Expired, Decision, CompletedFor, Outcome, SnapshotId
<1> QED
  BY <1>1, <1>2, <1>3, <1>4, <1>5, <1>6, <1>7, <1>8, <1>9, <1>10, <1>11, <1>12, <1>13, <1>14, <1>15, <1>16, <1>17, <1>18, <1>19, <1>20, <1>21, <1>22, <1>23 DEF Next, TaskStep, ClaimStep, AnswerStep, FaultStep

\* A task that retrieves before its deadline (load_aws_before) owns the running
\* lease, however claims are delayed, lost or resent: no two retrieve at once.
THEOREM LeaseCorrect == Spec => []RetrievalUnderLease
<1>1. Init => LeaseInv
  BY LeaseInit
<1>2. LeaseInv /\ [Next]_vars => LeaseInv'
  BY LeaseNext
<1>3. LeaseInv => RetrievalUnderLease
  <2> SUFFICES ASSUME LeaseInv, NEW t \in Tasks, pc[t] = "load", ~DeadlinePassed(t)
               PROVE  HoldsLease(t)
    BY DEF RetrievalUnderLease
  <2>1. clock < startedAt[t] + WaitBudget /\ startedAt[t] <= asOf[t]
    BY ConstantsAssumption DEF LeaseInv, TypeOK, DeadlinePassed, ClockReadings, Owning, Times
  <2>2. clock < asOf[t] + LeaseTTL
    BY <2>1, ConstantsAssumption DEF LeaseInv, TypeOK, Times
  <2> QED
    BY <2>2, ConstantsAssumption DEF LeaseInv, LoadHolds, TypeOK, Times
<1> QED
  BY <1>1, <1>2, <1>3, PTL DEF Spec

-----------------------------------------------------------------------------
(* What a durable put does to the stored snapshots.                        *)

LEMMA PutKeepsOne ==
  ASSUME TypeOK, OneDocument, NEW s \in Snapshot, retained' = AfterPut(s)
  PROVE  \A r, q \in retained' : (KeepsAll => r.content = q.content) => r = q
BY DEF TypeOK, OneDocument, AfterPut, Rivals, Snapshot

LEMMA PutCovers ==
  ASSUME TypeOK, NEW s \in Snapshot, retained' = AfterPut(s)
  PROVE  \E r \in retained' : r.at >= s.at /\ (KeepsAll => r.content = s.content)
BY DEF TypeOK, AfterPut, Rivals, Snapshot, Times

LEMMA PutKeeps ==
  ASSUME TypeOK, NEW s \in Snapshot, retained' = AfterPut(s),
         NEW c, NEW time \in Times, Covered(c, time)
  PROVE  \E r \in retained' : r.at >= time /\ (KeepsAll => r.content = c)
BY DEF TypeOK, Covered, AfterPut, Rivals, Snapshot, Times

LEMMA StoreInit == Init => StoreInv
BY DEF Init, StoreInv, OneDocument, LeaseCovered, FetchCovered, PublicationCovered, FreshAnswer

LEMMA StoreNext == LeaseInv /\ StoreInv /\ [Next]_vars => StoreInv'
<1> SUFFICES ASSUME LeaseInv, StoreInv, [Next]_vars PROVE StoreInv'
  OBVIOUS
<1> USE ConstantsAssumption DEF Owning, HoldsLease, ExpiresAt, LeaseDocument, Times, NotYet
<1>0. TypeOK /\ TypeOK'
  BY TypeNext DEF LeaseInv
<1>a. ClockReadings /\ LeaseTimes /\ EtagsIdentify /\ PendingWrites /\ OwnLease
  BY DEF LeaseInv
<1>b. OneDocument /\ LeaseCovered /\ FetchCovered /\ PublicationCovered /\ FreshAnswer
  BY DEF StoreInv
<1>1. CASE Tick
  <2>1. OneDocument'
    BY <1>0, <1>a, <1>b, <1>1 DEF Tick, TypeOK, OneDocument
  <2>2. LeaseCovered'
    BY <1>0, <1>a, <1>b, <1>1 DEF Tick, TypeOK, LeaseCovered, Snapshot, PendingWrites,
       PublicationCovered, Covered, Outcome, SnapshotId
  <2>3. FetchCovered'
    BY <1>0, <1>a, <1>b, <1>1 DEF Tick, TypeOK, FetchCovered, LeaseCovered,
       LeaseTimes, Covered
  <2>4. PublicationCovered'
    BY <1>0, <1>a, <1>b, <1>1 DEF Tick, TypeOK, PublicationCovered, Snapshot,
       ClockReadings, Covered
  <2>5. FreshAnswer'
    BY <1>0, <1>a, <1>b, <1>1 DEF Tick, TypeOK, FreshAnswer, Snapshot, FetchCovered,
       PublicationCovered, OneDocument, Covered, ClockReadings, Outcome, SnapshotId
  <2> QED
    BY <2>1, <2>2, <2>3, <2>4, <2>5 DEF StoreInv
<1>2. CASE Vanish
  <2>1. OneDocument'
    BY <1>0, <1>a, <1>b, <1>2 DEF Vanish, TypeOK, OneDocument
  <2>2. LeaseCovered'
    BY <1>0, <1>a, <1>b, <1>2 DEF Vanish, TypeOK, LeaseCovered, Snapshot,
       PendingWrites, PublicationCovered, Covered, Outcome, SnapshotId
  <2>3. FetchCovered'
    BY <1>0, <1>a, <1>b, <1>2 DEF Vanish, TypeOK, FetchCovered, LeaseCovered,
       LeaseTimes, Covered
  <2>4. PublicationCovered'
    BY <1>0, <1>a, <1>b, <1>2 DEF Vanish, TypeOK, PublicationCovered, Snapshot,
       ClockReadings, Covered
  <2>5. FreshAnswer'
    BY <1>0, <1>a, <1>b, <1>2 DEF Vanish, TypeOK, FreshAnswer, Snapshot, FetchCovered,
       PublicationCovered, OneDocument, Covered, ClockReadings, Outcome, SnapshotId
  <2> QED
    BY <2>1, <2>2, <2>3, <2>4, <2>5 DEF StoreInv
<1>3. CASE ForeignPut
  <2>0. PICK s \in Snapshot : retained' = AfterPut(s)
    BY <1>0, <1>3 DEF ForeignPut, TypeOK, Snapshot
  <2>6. \A r, q \in retained' : (KeepsAll => r.content = q.content) => r = q
    BY <1>0, <1>b, <2>0, PutKeepsOne
  <2>7. \E r \in retained' : r.at >= s.at /\ (KeepsAll => r.content = s.content)
    BY <1>0, <2>0, PutCovers
  <2>8. \A c : \A time \in Times : Covered(c, time) =>
          \E r \in retained' : r.at >= time /\ (KeepsAll => r.content = c)
    BY <1>0, <2>0, PutKeeps
  <2>1. OneDocument'
    BY <1>0, <1>a, <1>b, <1>3, <2>0, <2>6, <2>7 DEF ForeignPut, TypeOK, OneDocument
  <2>2. LeaseCovered'
    <3> SUFFICES ASSUME lease # NoLease, lease.status = "succeeded"
                 PROVE  \E r \in retained' : r.at >= lease.leasedAt /\ (KeepsAll => r.content = lease.snapshot)
      BY <1>3 DEF ForeignPut, LeaseCovered, Covered
    <3>1. Covered(lease.snapshot, lease.leasedAt) /\ lease.leasedAt \in Times
      BY <1>0, <1>b DEF LeaseCovered, TypeOK
    <3> QED
      BY <2>8, <3>1
  <2>3. FetchCovered'
    <3> SUFFICES ASSUME NEW u \in Tasks, pc[u] = "fetch"
                 PROVE  \E r \in retained' : r.at >= doc[u].leasedAt /\ (KeepsAll => r.content = doc[u].snapshot)
      BY <1>0, <1>b, <1>3 DEF ForeignPut, PutApplied, TypeOK, FetchCovered, Covered
    <3>1. Covered(doc[u].snapshot, doc[u].leasedAt) /\ doc[u].leasedAt \in Times
      BY <1>0, <1>b DEF FetchCovered, TypeOK
    <3> QED
      BY <2>8, <3>1
  <2>4. PublicationCovered'
    <3> SUFFICES ASSUME NEW u \in Tasks, pc[u] \in {"publish", "publish_write"}, snap[u] # NoSnapshot
                 PROVE  \E r \in retained' : r.at >= snap[u].at /\ (KeepsAll => r.content = snap[u].content)
      BY <1>b, <1>3 DEF ForeignPut, PublicationCovered, Covered
    <3>1. Covered(snap[u].content, snap[u].at) /\ snap[u].at \in Times
      BY <1>0, <1>b DEF PublicationCovered, TypeOK, Snapshot
    <3> QED
      BY <2>8, <3>1
  <2>5. FreshAnswer'
    BY <1>0, <1>a, <1>b, <1>3, <2>0, <2>6, <2>7 DEF ForeignPut, TypeOK, FreshAnswer,
       Snapshot, FetchCovered, PublicationCovered, OneDocument, Covered,
       ClockReadings, Outcome, SnapshotId
  <2> QED
    BY <2>1, <2>2, <2>3, <2>4, <2>5 DEF StoreInv
<1>4. ASSUME NEW t \in Tasks, Begin(t) PROVE StoreInv'
  <2>1. OneDocument'
    BY <1>0, <1>a, <1>b, <1>4 DEF Begin, TypeOK, Goto, OneDocument
  <2>2. LeaseCovered'
    BY <1>0, <1>a, <1>b, <1>4 DEF Begin, TypeOK, Goto, LeaseCovered, Snapshot,
       PendingWrites, PublicationCovered, Covered, Outcome, SnapshotId
  <2>3. FetchCovered'
    BY <1>0, <1>a, <1>b, <1>4 DEF Begin, TypeOK, Goto, FetchCovered, LeaseCovered,
       LeaseTimes, Covered
  <2>4. PublicationCovered'
    BY <1>0, <1>a, <1>b, <1>4 DEF Begin, TypeOK, Goto, PublicationCovered, Snapshot,
       ClockReadings, Covered
  <2>5. FreshAnswer'
    BY <1>0, <1>a, <1>b, <1>4 DEF Begin, TypeOK, Goto, FreshAnswer, Snapshot,
       FetchCovered, PublicationCovered, OneDocument, Covered, ClockReadings, Outcome,
       SnapshotId
  <2> QED
    BY <2>1, <2>2, <2>3, <2>4, <2>5 DEF StoreInv
<1>5. ASSUME NEW t \in Tasks, StartClaim(t) PROVE StoreInv'
  <2>1. OneDocument'
    BY <1>0, <1>a, <1>b, <1>5 DEF StartClaim, TypeOK, Goto, OneDocument
  <2>2. LeaseCovered'
    BY <1>0, <1>a, <1>b, <1>5 DEF StartClaim, TypeOK, Goto, LeaseCovered, Snapshot,
       PendingWrites, PublicationCovered, Covered, Outcome, SnapshotId
  <2>3. FetchCovered'
    BY <1>0, <1>a, <1>b, <1>5 DEF StartClaim, TypeOK, Goto, FetchCovered,
       LeaseCovered, LeaseTimes, Covered
  <2>4. PublicationCovered'
    BY <1>0, <1>a, <1>b, <1>5 DEF StartClaim, TypeOK, Goto, PublicationCovered,
       Snapshot, ClockReadings, Covered
  <2>5. FreshAnswer'
    BY <1>0, <1>a, <1>b, <1>5 DEF StartClaim, TypeOK, Goto, FreshAnswer, Snapshot,
       FetchCovered, PublicationCovered, OneDocument, Covered, ClockReadings, Outcome,
       SnapshotId
  <2> QED
    BY <2>1, <2>2, <2>3, <2>4, <2>5 DEF StoreInv
<1>6. ASSUME NEW t \in Tasks, Create(t) PROVE StoreInv'
  <2>1. OneDocument'
    BY <1>0, <1>a, <1>b, <1>6, StoredFields, StoredType, CandidateType DEF Create,
       TypeOK, Goto, OneDocument, StoreUnchanged, Candidate
  <2>2. LeaseCovered'
    BY <1>0, <1>a, <1>b, <1>6, StoredFields, StoredType, CandidateType DEF Create,
       TypeOK, Goto, LeaseCovered, StoreUnchanged, Candidate, Snapshot, PendingWrites,
       PublicationCovered, Covered, Outcome, SnapshotId
  <2>3. FetchCovered'
    BY <1>0, <1>a, <1>b, <1>6, StoredFields, StoredType, CandidateType DEF Create,
       TypeOK, Goto, FetchCovered, StoreUnchanged, Candidate, LeaseCovered,
       LeaseTimes, Covered
  <2>4. PublicationCovered'
    BY <1>0, <1>a, <1>b, <1>6, StoredFields, StoredType, CandidateType DEF Create,
       TypeOK, Goto, PublicationCovered, StoreUnchanged, Candidate, Snapshot,
       ClockReadings, Covered
  <2>5. FreshAnswer'
    BY <1>0, <1>a, <1>b, <1>6, StoredFields, StoredType, CandidateType DEF Create,
       TypeOK, Goto, FreshAnswer, StoreUnchanged, Candidate, Snapshot, FetchCovered,
       PublicationCovered, OneDocument, Covered, ClockReadings, Outcome, SnapshotId
  <2> QED
    BY <2>1, <2>2, <2>3, <2>4, <2>5 DEF StoreInv
<1>7. ASSUME NEW t \in Tasks, Read(t) PROVE StoreInv'
  <2>1. OneDocument'
    BY <1>0, <1>a, <1>b, <1>7 DEF Read, TypeOK, Goto, OneDocument, NextAttempt,
       Decision, CompletedFor
  <2>2. LeaseCovered'
    BY <1>0, <1>a, <1>b, <1>7 DEF Read, TypeOK, Goto, LeaseCovered, NextAttempt,
       Decision, CompletedFor, Snapshot, PendingWrites, PublicationCovered, Covered,
       Outcome, SnapshotId
  <2>3. FetchCovered'
    BY <1>0, <1>a, <1>b, <1>7 DEF Read, TypeOK, Goto, FetchCovered, NextAttempt,
       Decision, CompletedFor, LeaseCovered, LeaseTimes, Covered
  <2>4. PublicationCovered'
    BY <1>0, <1>a, <1>b, <1>7 DEF Read, TypeOK, Goto, PublicationCovered, NextAttempt,
       Decision, CompletedFor, Snapshot, ClockReadings, Covered
  <2>5. FreshAnswer'
    BY <1>0, <1>a, <1>b, <1>7 DEF Read, TypeOK, Goto, FreshAnswer, NextAttempt,
       Decision, CompletedFor, Snapshot, FetchCovered, PublicationCovered,
       OneDocument, Covered, ClockReadings, Outcome, SnapshotId
  <2> QED
    BY <2>1, <2>2, <2>3, <2>4, <2>5 DEF StoreInv
<1>8. ASSUME NEW t \in Tasks, Replace(t) PROVE StoreInv'
  <2>1. OneDocument'
    BY <1>0, <1>a, <1>b, <1>8, StoredFields, StoredType, CandidateType DEF Replace,
       TypeOK, Goto, OneDocument, NextAttempt, StoreUnchanged, Candidate, EtagMatches
  <2>2. LeaseCovered'
    BY <1>0, <1>a, <1>b, <1>8, StoredFields, StoredType, CandidateType DEF Replace,
       TypeOK, Goto, LeaseCovered, NextAttempt, StoreUnchanged, Candidate, Snapshot,
       PendingWrites, PublicationCovered, Covered, Outcome, SnapshotId, EtagMatches
  <2>3. FetchCovered'
    BY <1>0, <1>a, <1>b, <1>8, StoredFields, StoredType, CandidateType DEF Replace,
       TypeOK, Goto, FetchCovered, NextAttempt, StoreUnchanged, Candidate,
       LeaseCovered, LeaseTimes, Covered, EtagMatches
  <2>4. PublicationCovered'
    BY <1>0, <1>a, <1>b, <1>8, StoredFields, StoredType, CandidateType DEF Replace,
       TypeOK, Goto, PublicationCovered, NextAttempt, StoreUnchanged, Candidate,
       Snapshot, ClockReadings, Covered, EtagMatches
  <2>5. FreshAnswer'
    BY <1>0, <1>a, <1>b, <1>8, StoredFields, StoredType, CandidateType DEF Replace,
       TypeOK, Goto, FreshAnswer, NextAttempt, StoreUnchanged, Candidate, Snapshot,
       FetchCovered, PublicationCovered, OneDocument, Covered, ClockReadings, Outcome,
       SnapshotId, EtagMatches
  <2> QED
    BY <2>1, <2>2, <2>3, <2>4, <2>5 DEF StoreInv
<1>9. ASSUME NEW t \in Tasks, Wake(t) PROVE StoreInv'
  <2>1. OneDocument'
    BY <1>0, <1>a, <1>b, <1>9 DEF Wake, TypeOK, Goto, OneDocument
  <2>2. LeaseCovered'
    BY <1>0, <1>a, <1>b, <1>9 DEF Wake, TypeOK, Goto, LeaseCovered, Snapshot,
       PendingWrites, PublicationCovered, Covered, Outcome, SnapshotId
  <2>3. FetchCovered'
    BY <1>0, <1>a, <1>b, <1>9 DEF Wake, TypeOK, Goto, FetchCovered, LeaseCovered,
       LeaseTimes, Covered
  <2>4. PublicationCovered'
    BY <1>0, <1>a, <1>b, <1>9 DEF Wake, TypeOK, Goto, PublicationCovered, Snapshot,
       ClockReadings, Covered
  <2>5. FreshAnswer'
    BY <1>0, <1>a, <1>b, <1>9 DEF Wake, TypeOK, Goto, FreshAnswer, Snapshot,
       FetchCovered, PublicationCovered, OneDocument, Covered, ClockReadings, Outcome,
       SnapshotId
  <2> QED
    BY <2>1, <2>2, <2>3, <2>4, <2>5 DEF StoreInv
<1>10. ASSUME NEW t \in Tasks, Timeout(t) PROVE StoreInv'
  <2>1. OneDocument'
    BY <1>0, <1>a, <1>b, <1>10 DEF Timeout, TypeOK, Goto, OneDocument
  <2>2. LeaseCovered'
    BY <1>0, <1>a, <1>b, <1>10 DEF Timeout, TypeOK, Goto, LeaseCovered, Snapshot,
       PendingWrites, PublicationCovered, Covered, Outcome, SnapshotId
  <2>3. FetchCovered'
    BY <1>0, <1>a, <1>b, <1>10 DEF Timeout, TypeOK, Goto, FetchCovered, LeaseCovered,
       LeaseTimes, Covered
  <2>4. PublicationCovered'
    BY <1>0, <1>a, <1>b, <1>10 DEF Timeout, TypeOK, Goto, PublicationCovered,
       Snapshot, ClockReadings, Covered
  <2>5. FreshAnswer'
    BY <1>0, <1>a, <1>b, <1>10 DEF Timeout, TypeOK, Goto, FreshAnswer, Snapshot,
       FetchCovered, PublicationCovered, OneDocument, Covered, ClockReadings, Outcome,
       SnapshotId
  <2> QED
    BY <2>1, <2>2, <2>3, <2>4, <2>5 DEF StoreInv
<1>11. ASSUME NEW t \in Tasks, Fetch(t) PROVE StoreInv'
  <2>1. OneDocument'
    BY <1>0, <1>a, <1>b, <1>11 DEF Fetch, TypeOK, Goto, OneDocument
  <2>2. LeaseCovered'
    BY <1>0, <1>a, <1>b, <1>11 DEF Fetch, TypeOK, Goto, LeaseCovered, Snapshot,
       PendingWrites, PublicationCovered, Covered, Outcome, SnapshotId
  <2>3. FetchCovered'
    BY <1>0, <1>a, <1>b, <1>11 DEF Fetch, TypeOK, Goto, FetchCovered, LeaseCovered,
       LeaseTimes, Covered
  <2>4. PublicationCovered'
    BY <1>0, <1>a, <1>b, <1>11 DEF Fetch, TypeOK, Goto, PublicationCovered, Snapshot,
       ClockReadings, Covered
  <2>5. FreshAnswer'
    BY <1>0, <1>a, <1>b, <1>11 DEF Fetch, TypeOK, Goto, FreshAnswer, Snapshot,
       FetchCovered, PublicationCovered, OneDocument, Covered, ClockReadings, Outcome,
       SnapshotId
  <2> QED
    BY <2>1, <2>2, <2>3, <2>4, <2>5 DEF StoreInv
<1>12. ASSUME NEW t \in Tasks, LoadSucceeds(t) PROVE StoreInv'
  <2>1. OneDocument'
    BY <1>0, <1>a, <1>b, <1>12 DEF LoadSucceeds, TypeOK, Goto, OneDocument, Snapshot
  <2>2. LeaseCovered'
    BY <1>0, <1>a, <1>b, <1>12 DEF LoadSucceeds, TypeOK, Goto, LeaseCovered, Snapshot,
       PendingWrites, PublicationCovered, Covered, Outcome, SnapshotId
  <2>3. FetchCovered'
    BY <1>0, <1>a, <1>b, <1>12 DEF LoadSucceeds, TypeOK, Goto, FetchCovered, Snapshot,
       LeaseCovered, LeaseTimes, Covered
  <2>4. PublicationCovered'
    BY <1>0, <1>a, <1>b, <1>12 DEF LoadSucceeds, TypeOK, Goto, PublicationCovered,
       Snapshot, ClockReadings, Covered
  <2>5. FreshAnswer'
    BY <1>0, <1>a, <1>b, <1>12 DEF LoadSucceeds, TypeOK, Goto, FreshAnswer, Snapshot,
       FetchCovered, PublicationCovered, OneDocument, Covered, ClockReadings, Outcome,
       SnapshotId
  <2> QED
    BY <2>1, <2>2, <2>3, <2>4, <2>5 DEF StoreInv
<1>13. ASSUME NEW t \in Tasks, LoadFails(t) PROVE StoreInv'
  <2>1. OneDocument'
    BY <1>0, <1>a, <1>b, <1>13 DEF LoadFails, TypeOK, Goto, OneDocument
  <2>2. LeaseCovered'
    BY <1>0, <1>a, <1>b, <1>13 DEF LoadFails, TypeOK, Goto, LeaseCovered, Snapshot,
       PendingWrites, PublicationCovered, Covered, Outcome, SnapshotId
  <2>3. FetchCovered'
    BY <1>0, <1>a, <1>b, <1>13 DEF LoadFails, TypeOK, Goto, FetchCovered,
       LeaseCovered, LeaseTimes, Covered
  <2>4. PublicationCovered'
    BY <1>0, <1>a, <1>b, <1>13 DEF LoadFails, TypeOK, Goto, PublicationCovered,
       Snapshot, ClockReadings, Covered
  <2>5. FreshAnswer'
    BY <1>0, <1>a, <1>b, <1>13 DEF LoadFails, TypeOK, Goto, FreshAnswer, Snapshot,
       FetchCovered, PublicationCovered, OneDocument, Covered, ClockReadings, Outcome,
       SnapshotId
  <2> QED
    BY <2>1, <2>2, <2>3, <2>4, <2>5 DEF StoreInv
<1>14. ASSUME NEW t \in Tasks, Put(t) PROVE StoreInv'
  <2>0. PICK s \in Snapshot : retained' = AfterPut(s) /\ s = snap[t]
    BY <1>0, <1>14 DEF Put, TypeOK, Snapshot, PutApplied
  <2>6. \A r, q \in retained' : (KeepsAll => r.content = q.content) => r = q
    BY <1>0, <1>b, <2>0, PutKeepsOne
  <2>7. \E r \in retained' : r.at >= s.at /\ (KeepsAll => r.content = s.content)
    BY <1>0, <2>0, PutCovers
  <2>8. \A c : \A time \in Times : Covered(c, time) =>
          \E r \in retained' : r.at >= time /\ (KeepsAll => r.content = c)
    BY <1>0, <2>0, PutKeeps
  <2>1. OneDocument'
    BY <1>0, <1>a, <1>b, <1>14, <2>0, <2>6, <2>7 DEF Put, TypeOK, Goto, OneDocument,
       PutApplied
  <2>2. LeaseCovered'
    <3> SUFFICES ASSUME lease # NoLease, lease.status = "succeeded"
                 PROVE  \E r \in retained' : r.at >= lease.leasedAt /\ (KeepsAll => r.content = lease.snapshot)
      BY <1>14 DEF Put, LeaseCovered, Covered
    <3>1. Covered(lease.snapshot, lease.leasedAt) /\ lease.leasedAt \in Times
      BY <1>0, <1>b DEF LeaseCovered, TypeOK
    <3> QED
      BY <2>8, <3>1
  <2>3. FetchCovered'
    <3> SUFFICES ASSUME NEW u \in Tasks, pc[u] = "fetch"
                 PROVE  \E r \in retained' : r.at >= doc[u].leasedAt /\ (KeepsAll => r.content = doc[u].snapshot)
      BY <1>0, <1>b, <1>14 DEF Put, Goto, PutApplied, TypeOK, FetchCovered, Covered
    <3>1. Covered(doc[u].snapshot, doc[u].leasedAt) /\ doc[u].leasedAt \in Times
      BY <1>0, <1>b DEF FetchCovered, TypeOK
    <3> QED
      BY <2>8, <3>1
  <2>4. PublicationCovered'
    <3>1. \A u \in Tasks : pc'[u] = "put" => snap'[u].at >= asOf'[u]
      BY <1>0, <1>b, <1>14 DEF Put, Goto, PutApplied, TypeOK, PublicationCovered
    <3>2. ASSUME NEW u \in Tasks, u # t, pc'[u] \in {"publish", "publish_write"}, snap'[u] # NoSnapshot
          PROVE  /\ snap'[u].at >= asOf'[u]
                 /\ \E r \in retained' : r.at >= snap'[u].at /\ (KeepsAll => r.content = snap'[u].content)
      <4>1. /\ pc[u] \in {"publish", "publish_write"} /\ snap[u] # NoSnapshot
            /\ snap'[u] = snap[u] /\ asOf'[u] = asOf[u]
        BY <1>0, <1>14, <3>2 DEF Put, Goto, PutApplied, TypeOK
      <4>2. Covered(snap[u].content, snap[u].at) /\ snap[u].at \in Times /\ snap[u].at >= asOf[u]
        BY <1>0, <1>b, <4>1 DEF PublicationCovered, TypeOK, Snapshot
      <4> QED
        BY <2>8, <4>1, <4>2
    <3>3. ASSUME pc'[t] \in {"publish", "publish_write"}
          PROVE  /\ snap'[t].at >= asOf'[t]
                 /\ \E r \in retained' : r.at >= snap'[t].at /\ (KeepsAll => r.content = snap'[t].content)
      <4>1. CASE KeepsAll
        BY <1>0, <1>b, <1>14, <2>0, <2>7, <4>1 DEF Put, Goto, PutApplied, TypeOK, PublicationCovered, Snapshot
      <4>2. CASE ~KeepsAll
        <5>1. PICK r \in retained' : snap' = [snap EXCEPT ![t] = r]
          BY <1>14, <4>2 DEF Put, Goto, PutApplied
        <5>2. snap'[t] = r /\ r \in Snapshot /\ s \in Snapshot
          BY <1>0, <5>1 DEF TypeOK
        <5>3. PICK q \in retained' : q.at >= s.at
          BY <2>7
        <5>4. q = r
          BY <2>6, <4>2, <5>1, <5>3
        <5> QED
          BY <1>0, <1>b, <1>14, <2>0, <4>2, <5>1, <5>2, <5>3, <5>4
             DEF Put, Goto, TypeOK, PublicationCovered, Snapshot
      <4> QED
        BY <4>1, <4>2
    <3> QED
      BY <3>1, <3>2, <3>3 DEF PublicationCovered, Covered
  <2>5. FreshAnswer'
    BY <1>0, <1>a, <1>b, <1>14, <2>0, <2>6, <2>7 DEF Put, TypeOK, Goto, FreshAnswer,
       PutApplied, Snapshot, FetchCovered, PublicationCovered, OneDocument, Covered,
       ClockReadings, Outcome, SnapshotId
  <2> QED
    BY <2>1, <2>2, <2>3, <2>4, <2>5 DEF StoreInv
<1>15. ASSUME NEW t \in Tasks, PublishRead(t) PROVE StoreInv'
  <2>1. OneDocument'
    BY <1>0, <1>a, <1>b, <1>15, CompletedFields DEF PublishRead, TypeOK, Goto,
       OneDocument, MatchesOutcome
  <2>2. LeaseCovered'
    BY <1>0, <1>a, <1>b, <1>15, CompletedFields DEF PublishRead, TypeOK, Goto,
       LeaseCovered, MatchesOutcome, Snapshot, PendingWrites, PublicationCovered,
       Covered, Outcome, SnapshotId
  <2>3. FetchCovered'
    BY <1>0, <1>a, <1>b, <1>15, CompletedFields DEF PublishRead, TypeOK, Goto,
       FetchCovered, MatchesOutcome, LeaseCovered, LeaseTimes, Covered
  <2>4. PublicationCovered'
    BY <1>0, <1>a, <1>b, <1>15, CompletedFields DEF PublishRead, TypeOK, Goto,
       PublicationCovered, MatchesOutcome, Snapshot, ClockReadings, Covered
  <2>5. FreshAnswer'
    BY <1>0, <1>a, <1>b, <1>15, CompletedFields DEF PublishRead, TypeOK, Goto,
       FreshAnswer, MatchesOutcome, Snapshot, FetchCovered, PublicationCovered,
       OneDocument, Covered, ClockReadings, Outcome, SnapshotId
  <2> QED
    BY <2>1, <2>2, <2>3, <2>4, <2>5 DEF StoreInv
<1>16. ASSUME NEW t \in Tasks, PublishWrite(t) PROVE StoreInv'
  <2>1. OneDocument'
    BY <1>0, <1>a, <1>b, <1>16, StoredFields, StoredType DEF PublishWrite, TypeOK,
       Goto, OneDocument, NextPublication, StoreUnchanged, EtagMatches
  <2>2. LeaseCovered'
    BY <1>0, <1>a, <1>b, <1>16, StoredFields, StoredType DEF PublishWrite, TypeOK,
       Goto, LeaseCovered, NextPublication, StoreUnchanged, Snapshot, PendingWrites,
       PublicationCovered, Covered, Outcome, SnapshotId, EtagMatches
  <2>3. FetchCovered'
    BY <1>0, <1>a, <1>b, <1>16, StoredFields, StoredType DEF PublishWrite, TypeOK,
       Goto, FetchCovered, NextPublication, StoreUnchanged, LeaseCovered, LeaseTimes,
       Covered, EtagMatches
  <2>4. PublicationCovered'
    BY <1>0, <1>a, <1>b, <1>16, StoredFields, StoredType DEF PublishWrite, TypeOK,
       Goto, PublicationCovered, NextPublication, StoreUnchanged, Snapshot,
       ClockReadings, Covered, EtagMatches
  <2>5. FreshAnswer'
    BY <1>0, <1>a, <1>b, <1>16, StoredFields, StoredType DEF PublishWrite, TypeOK,
       Goto, FreshAnswer, NextPublication, StoreUnchanged, Snapshot, FetchCovered,
       PublicationCovered, OneDocument, Covered, ClockReadings, Outcome, SnapshotId,
       EtagMatches
  <2> QED
    BY <2>1, <2>2, <2>3, <2>4, <2>5 DEF StoreInv
<1>17. ASSUME NEW t \in Tasks, StoreFails(t) PROVE StoreInv'
  <2>1. OneDocument'
    BY <1>0, <1>a, <1>b, <1>17 DEF StoreFails, TypeOK, Goto, OneDocument
  <2>2. LeaseCovered'
    BY <1>0, <1>a, <1>b, <1>17 DEF StoreFails, TypeOK, Goto, LeaseCovered, Snapshot,
       PendingWrites, PublicationCovered, Covered, Outcome, SnapshotId
  <2>3. FetchCovered'
    BY <1>0, <1>a, <1>b, <1>17 DEF StoreFails, TypeOK, Goto, FetchCovered,
       LeaseCovered, LeaseTimes, Covered
  <2>4. PublicationCovered'
    BY <1>0, <1>a, <1>b, <1>17 DEF StoreFails, TypeOK, Goto, PublicationCovered,
       Snapshot, ClockReadings, Covered
  <2>5. FreshAnswer'
    BY <1>0, <1>a, <1>b, <1>17 DEF StoreFails, TypeOK, Goto, FreshAnswer, Snapshot,
       FetchCovered, PublicationCovered, OneDocument, Covered, ClockReadings, Outcome,
       SnapshotId
  <2> QED
    BY <2>1, <2>2, <2>3, <2>4, <2>5 DEF StoreInv
<1>18. ASSUME NEW t \in Tasks, PutFails(t) PROVE StoreInv'
  <2>1. OneDocument'
    BY <1>0, <1>a, <1>b, <1>18 DEF PutFails, TypeOK, Goto, OneDocument
  <2>2. LeaseCovered'
    BY <1>0, <1>a, <1>b, <1>18 DEF PutFails, TypeOK, Goto, LeaseCovered, Snapshot,
       PendingWrites, PublicationCovered, Covered, Outcome, SnapshotId
  <2>3. FetchCovered'
    BY <1>0, <1>a, <1>b, <1>18 DEF PutFails, TypeOK, Goto, FetchCovered, LeaseCovered,
       LeaseTimes, Covered
  <2>4. PublicationCovered'
    BY <1>0, <1>a, <1>b, <1>18 DEF PutFails, TypeOK, Goto, PublicationCovered,
       Snapshot, ClockReadings, Covered
  <2>5. FreshAnswer'
    BY <1>0, <1>a, <1>b, <1>18 DEF PutFails, TypeOK, Goto, FreshAnswer, Snapshot,
       FetchCovered, PublicationCovered, OneDocument, Covered, ClockReadings, Outcome,
       SnapshotId
  <2> QED
    BY <2>1, <2>2, <2>3, <2>4, <2>5 DEF StoreInv
<1>19. ASSUME NEW t \in Tasks, LeaseAnswerLost(t) PROVE StoreInv'
  <2>1. OneDocument'
    BY <1>0, <1>a, <1>b, <1>19, StoredFields, StoredType, CandidateType DEF
       LeaseAnswerLost, TypeOK, Goto, OneDocument, PendingWrite, Candidate,
       EtagMatches
  <2>2. LeaseCovered'
    BY <1>0, <1>a, <1>b, <1>19, StoredFields, StoredType, CandidateType DEF
       LeaseAnswerLost, TypeOK, Goto, LeaseCovered, PendingWrite, Candidate, Snapshot,
       PendingWrites, PublicationCovered, Covered, Outcome, SnapshotId, EtagMatches
  <2>3. FetchCovered'
    BY <1>0, <1>a, <1>b, <1>19, StoredFields, StoredType, CandidateType DEF
       LeaseAnswerLost, TypeOK, Goto, FetchCovered, PendingWrite, Candidate,
       LeaseCovered, LeaseTimes, Covered, EtagMatches
  <2>4. PublicationCovered'
    BY <1>0, <1>a, <1>b, <1>19, StoredFields, StoredType, CandidateType DEF
       LeaseAnswerLost, TypeOK, Goto, PublicationCovered, PendingWrite, Candidate,
       Snapshot, ClockReadings, Covered, EtagMatches
  <2>5. FreshAnswer'
    BY <1>0, <1>a, <1>b, <1>19, StoredFields, StoredType, CandidateType DEF
       LeaseAnswerLost, TypeOK, Goto, FreshAnswer, PendingWrite, Candidate, Snapshot,
       FetchCovered, PublicationCovered, OneDocument, Covered, ClockReadings, Outcome,
       SnapshotId, EtagMatches
  <2> QED
    BY <2>1, <2>2, <2>3, <2>4, <2>5 DEF StoreInv
<1>20. ASSUME NEW t \in Tasks, PutAnswerLost(t) PROVE StoreInv'
  <2>0. PICK s \in Snapshot : retained' = AfterPut(s) /\ s = snap[t]
    BY <1>0, <1>20 DEF PutAnswerLost, TypeOK, Snapshot, PutApplied
  <2>6. \A r, q \in retained' : (KeepsAll => r.content = q.content) => r = q
    BY <1>0, <1>b, <2>0, PutKeepsOne
  <2>7. \E r \in retained' : r.at >= s.at /\ (KeepsAll => r.content = s.content)
    BY <1>0, <2>0, PutCovers
  <2>8. \A c : \A time \in Times : Covered(c, time) =>
          \E r \in retained' : r.at >= time /\ (KeepsAll => r.content = c)
    BY <1>0, <2>0, PutKeeps
  <2>1. OneDocument'
    BY <1>0, <1>a, <1>b, <1>20, <2>0, <2>6, <2>7 DEF PutAnswerLost, TypeOK, Goto,
       OneDocument, PutApplied
  <2>2. LeaseCovered'
    <3> SUFFICES ASSUME lease # NoLease, lease.status = "succeeded"
                 PROVE  \E r \in retained' : r.at >= lease.leasedAt /\ (KeepsAll => r.content = lease.snapshot)
      BY <1>20 DEF PutAnswerLost, LeaseCovered, Covered
    <3>1. Covered(lease.snapshot, lease.leasedAt) /\ lease.leasedAt \in Times
      BY <1>0, <1>b DEF LeaseCovered, TypeOK
    <3> QED
      BY <2>8, <3>1
  <2>3. FetchCovered'
    <3> SUFFICES ASSUME NEW u \in Tasks, pc[u] = "fetch"
                 PROVE  \E r \in retained' : r.at >= doc[u].leasedAt /\ (KeepsAll => r.content = doc[u].snapshot)
      BY <1>0, <1>b, <1>20 DEF PutAnswerLost, Goto, PutApplied, TypeOK, FetchCovered, Covered
    <3>1. Covered(doc[u].snapshot, doc[u].leasedAt) /\ doc[u].leasedAt \in Times
      BY <1>0, <1>b DEF FetchCovered, TypeOK
    <3> QED
      BY <2>8, <3>1
  <2>4. PublicationCovered'
    <3>1. \A u \in Tasks : pc'[u] = "put" => snap'[u].at >= asOf'[u]
      BY <1>0, <1>b, <1>20 DEF PutAnswerLost, Goto, PutApplied, TypeOK, PublicationCovered
    <3>2. ASSUME NEW u \in Tasks, u # t, pc'[u] \in {"publish", "publish_write"}, snap'[u] # NoSnapshot
          PROVE  /\ snap'[u].at >= asOf'[u]
                 /\ \E r \in retained' : r.at >= snap'[u].at /\ (KeepsAll => r.content = snap'[u].content)
      <4>1. /\ pc[u] \in {"publish", "publish_write"} /\ snap[u] # NoSnapshot
            /\ snap'[u] = snap[u] /\ asOf'[u] = asOf[u]
        BY <1>0, <1>20, <3>2 DEF PutAnswerLost, Goto, PutApplied, TypeOK
      <4>2. Covered(snap[u].content, snap[u].at) /\ snap[u].at \in Times /\ snap[u].at >= asOf[u]
        BY <1>0, <1>b, <4>1 DEF PublicationCovered, TypeOK, Snapshot
      <4> QED
        BY <2>8, <4>1, <4>2
    <3>3. ASSUME pc'[t] \in {"publish", "publish_write"}
          PROVE  /\ snap'[t].at >= asOf'[t]
                 /\ \E r \in retained' : r.at >= snap'[t].at /\ (KeepsAll => r.content = snap'[t].content)
      <4>1. CASE KeepsAll
        BY <1>0, <1>b, <1>20, <2>0, <2>7, <4>1 DEF PutAnswerLost, Goto, PutApplied, TypeOK, PublicationCovered, Snapshot
      <4>2. CASE ~KeepsAll
        <5>1. PICK r \in retained' : snap' = [snap EXCEPT ![t] = r]
          BY <1>20, <4>2 DEF PutAnswerLost, Goto, PutApplied
        <5>2. snap'[t] = r /\ r \in Snapshot /\ s \in Snapshot
          BY <1>0, <5>1 DEF TypeOK
        <5>3. PICK q \in retained' : q.at >= s.at
          BY <2>7
        <5>4. q = r
          BY <2>6, <4>2, <5>1, <5>3
        <5> QED
          BY <1>0, <1>b, <1>20, <2>0, <4>2, <5>1, <5>2, <5>3, <5>4
             DEF PutAnswerLost, Goto, TypeOK, PublicationCovered, Snapshot
      <4> QED
        BY <4>1, <4>2
    <3> QED
      BY <3>1, <3>2, <3>3 DEF PublicationCovered, Covered
  <2>5. FreshAnswer'
    BY <1>0, <1>a, <1>b, <1>20, <2>0, <2>6, <2>7 DEF PutAnswerLost, TypeOK, Goto,
       FreshAnswer, PutApplied, Snapshot, FetchCovered, PublicationCovered,
       OneDocument, Covered, ClockReadings, Outcome, SnapshotId
  <2> QED
    BY <2>1, <2>2, <2>3, <2>4, <2>5 DEF StoreInv
<1>21. ASSUME NEW t \in Tasks, WriteResent(t) PROVE StoreInv'
  <2>1. OneDocument'
    BY <1>0, <1>a, <1>b, <1>21, StoredFields, StoredType, CandidateType DEF
       WriteResent, TypeOK, Goto, OneDocument, PendingWrite, Candidate, NextAttempt,
       NextPublication, EtagMatches
  <2>2. LeaseCovered'
    BY <1>0, <1>a, <1>b, <1>21, StoredFields, StoredType, CandidateType DEF
       WriteResent, TypeOK, Goto, LeaseCovered, PendingWrite, Candidate, NextAttempt,
       NextPublication, Snapshot, PendingWrites, PublicationCovered, Covered, Outcome,
       SnapshotId, EtagMatches
  <2>3. FetchCovered'
    BY <1>0, <1>a, <1>b, <1>21, StoredFields, StoredType, CandidateType DEF
       WriteResent, TypeOK, Goto, FetchCovered, PendingWrite, Candidate, NextAttempt,
       NextPublication, LeaseCovered, LeaseTimes, Covered, EtagMatches
  <2>4. PublicationCovered'
    BY <1>0, <1>a, <1>b, <1>21, StoredFields, StoredType, CandidateType DEF
       WriteResent, TypeOK, Goto, PublicationCovered, PendingWrite, Candidate,
       NextAttempt, NextPublication, Snapshot, ClockReadings, Covered, EtagMatches
  <2>5. FreshAnswer'
    BY <1>0, <1>a, <1>b, <1>21, StoredFields, StoredType, CandidateType DEF
       WriteResent, TypeOK, Goto, FreshAnswer, PendingWrite, Candidate, NextAttempt,
       NextPublication, Snapshot, FetchCovered, PublicationCovered, OneDocument,
       Covered, ClockReadings, Outcome, SnapshotId, EtagMatches
  <2> QED
    BY <2>1, <2>2, <2>3, <2>4, <2>5 DEF StoreInv
<1>22. ASSUME NEW t \in Tasks, Crash(t) PROVE StoreInv'
  <2>1. OneDocument'
    BY <1>0, <1>a, <1>b, <1>22 DEF Crash, TypeOK, Goto, OneDocument
  <2>2. LeaseCovered'
    BY <1>0, <1>a, <1>b, <1>22 DEF Crash, TypeOK, Goto, LeaseCovered, Snapshot,
       PendingWrites, PublicationCovered, Covered, Outcome, SnapshotId
  <2>3. FetchCovered'
    BY <1>0, <1>a, <1>b, <1>22 DEF Crash, TypeOK, Goto, FetchCovered, LeaseCovered,
       LeaseTimes, Covered
  <2>4. PublicationCovered'
    BY <1>0, <1>a, <1>b, <1>22 DEF Crash, TypeOK, Goto, PublicationCovered, Snapshot,
       ClockReadings, Covered
  <2>5. FreshAnswer'
    BY <1>0, <1>a, <1>b, <1>22 DEF Crash, TypeOK, Goto, FreshAnswer, Snapshot,
       FetchCovered, PublicationCovered, OneDocument, Covered, ClockReadings, Outcome,
       SnapshotId
  <2> QED
    BY <2>1, <2>2, <2>3, <2>4, <2>5 DEF StoreInv
<1>23. CASE UNCHANGED vars
  BY <1>0, <1>b, <1>23 DEF StoreInv, vars, OneDocument, LeaseCovered, FetchCovered,
     PublicationCovered, FreshAnswer, Covered
<1> QED
  BY <1>1, <1>2, <1>3, <1>4, <1>5, <1>6, <1>7, <1>8, <1>9, <1>10, <1>11, <1>12, <1>13, <1>14, <1>15, <1>16, <1>17, <1>18, <1>19, <1>20, <1>21, <1>22, <1>23 DEF Next, TaskStep, ClaimStep, AnswerStep, FaultStep

\* A refresh that succeeds answers with prices retrieved after it began or, as a
\* waiter (completed_for), less than one lease's life before it began.
THEOREM AnswersAreFresh == Spec => []FreshAnswer
<1>1. Init => LeaseInv /\ StoreInv
  BY LeaseInit, StoreInit
<1>2. LeaseInv /\ StoreInv /\ [Next]_vars => (LeaseInv /\ StoreInv)'
  BY LeaseNext, StoreNext
<1>3. StoreInv => FreshAnswer
  BY DEF StoreInv
<1> QED
  BY <1>1, <1>2, <1>3, PTL DEF Spec

\* A success the lease document publishes names a snapshot that was put before
\* it: a waiter of any replica that reads it can load those prices or later ones.
THEOREM PublicationsAreStored == Spec => []PublishedIsStored
<1>1. Init => LeaseInv /\ StoreInv
  BY LeaseInit, StoreInit
<1>2. LeaseInv /\ StoreInv /\ [Next]_vars => (LeaseInv /\ StoreInv)'
  BY LeaseNext, StoreNext
<1>3. StoreInv => PublishedIsStored
  BY DEF StoreInv, LeaseCovered, Covered, PublishedIsStored
<1> QED
  BY <1>1, <1>2, <1>3, PTL DEF Spec

-----------------------------------------------------------------------------
(* The lease implements the register.                                      *)

LEMMA RegisterInit == Init => Register!Init
BY DEF Init, Register!Init, Asked, RegisterState, NotYet, Register!Nobody

LEMMA RegisterType ==
  ASSUME TypeOK, lease # NoLease
  PROVE  /\ RegisterState \in RegisterValue
         /\ RegisterState # NoLease
         /\ RegisterState.owner = lease.owner
         /\ RegisterState.leasedAt = lease.leasedAt
         /\ RegisterState.completedAt = lease.completedAt
         /\ RegisterState.status = lease.status
BY ConstantsAssumption DEF TypeOK, RegisterState, RegisterValue, LeaseDocument

LEMMA RegisterUnchanged ==
  ASSUME lease' = lease
  PROVE  RegisterState' = RegisterState
BY DEF RegisterState

\* a task that has begun does not ask again
LEMMA AskedUnchanged ==
  ASSUME TypeOK, NEW t \in Tasks, NEW place, place # "idle", pc[t] # "idle",
         Goto(t, place), startedAt' = startedAt
  PROVE  Asked' = Asked
BY DEF Asked, Goto, TypeOK

\* a claim's conditional write is a grant
LEMMA GrantStep ==
  ASSUME LeaseInv, NEW t \in Tasks, Stored(Candidate(t)),
         pc[t] \in {"create", "replace"},
         pc[t] = "create" => lease = NoLease,
         pc[t] = "replace" => EtagMatches(t),
         clock' = clock, Asked' = Asked
  PROVE  Register!Grant(t)
<1> USE ConstantsAssumption DEF Times, NotYet, Register!Nobody
<1>1. TypeOK /\ startedAt[t] <= asOf[t] /\ asOf[t] <= clock
  BY DEF LeaseInv, ClockReadings
<1>2. Asked[t] = startedAt[t] /\ startedAt[t] \in Nat /\ asOf[t] \in Nat /\ clock \in Nat
  BY <1>1 DEF Asked, TypeOK
<1>3. RegisterState' = [owner |-> t, leasedAt |-> asOf[t], completedAt |-> -1,
                        status |-> "in_progress", snapshot |-> NoContent]
  BY <1>1, StoredFields, StoredType, CandidateType DEF RegisterState, Candidate
<1>4. Register!Free(t)
  <2>1. CASE lease = NoLease
    BY <2>1 DEF Register!Free, RegisterState
  <2>2. CASE lease # NoLease
    <3>1. lease \in LeaseDocument /\ Decision(lease, startedAt[t], asOf[t]) = "reclaim"
      BY <1>1, <2>2 DEF LeaseInv, EtagsIdentify, PendingWrites, TypeOK
    <3>2. \/ lease.status = "in_progress" /\ lease.leasedAt + LeaseTTL <= clock
          \/ lease.status # "in_progress" /\ lease.completedAt < startedAt[t]
      BY <1>1, <1>2, <3>1
         DEF Decision, Expired, ExpiresAt, CompletedFor, LeaseDocument
    <3>3. /\ RegisterState # NoLease /\ RegisterState.status = lease.status
          /\ RegisterState.leasedAt = lease.leasedAt
          /\ RegisterState.completedAt = lease.completedAt
      BY <1>1, <2>2, RegisterType
    <3> QED
      BY <1>2, <3>2, <3>3 DEF Register!Free, Register!Running
  <2> QED
    BY <2>1, <2>2
<1> QED
  BY <1>1, <1>2, <1>3, <1>4 DEF Register!Grant

\* a publication's conditional write settles the grant
LEMMA SettleStep ==
  ASSUME LeaseInv, NEW t \in Tasks, Stored(doc[t]),
         pc[t] = "publish_write", EtagMatches(t), clock' = clock, Asked' = Asked
  PROVE  Register!Settle(t)
<1> USE ConstantsAssumption DEF Times, NotYet, Register!Nobody
<1>1. /\ TypeOK /\ lease # NoLease /\ lease.owner = t /\ lease.status = "in_progress"
      /\ lease.leasedAt = asOf[t]
  BY DEF LeaseInv, EtagsIdentify, HoldsLease, OwnLease, Owning, EtagMatches
<1>2. /\ doc[t] \in LeaseDocument /\ doc[t].owner = t /\ doc[t].leasedAt = asOf[t]
      /\ asOf[t] <= doc[t].completedAt /\ doc[t].completedAt <= clock
      /\ doc[t].completedAt < asOf[t] + LeaseTTL
      /\ doc[t].status = Outcome(snap[t]) /\ doc[t].snapshot = SnapshotId(snap[t])
  BY DEF LeaseInv, TypeOK, PendingWrites, ExpiresAt
<1>3. /\ lease' # NoLease /\ lease'.owner = t /\ lease'.leasedAt = asOf[t]
      /\ lease'.completedAt = doc[t].completedAt
      /\ lease'.status = doc[t].status /\ lease'.snapshot = doc[t].snapshot
  BY <1>1, <1>2, StoredFields, StoredType
<1>4. RegisterState' = [owner |-> t, leasedAt |-> asOf[t],
                        completedAt |-> doc[t].completedAt,
                        status |-> doc[t].status, snapshot |-> doc[t].snapshot]
  BY <1>3 DEF RegisterState
<1>5. /\ RegisterState \in RegisterValue
      /\ RegisterState.owner = t /\ RegisterState.leasedAt = asOf[t]
  BY <1>1, RegisterType
<1>6. Register!Running /\ RegisterState.owner = t /\ RegisterState.leasedAt = asOf[t]
  BY <1>1, RegisterType DEF Register!Running
<1>7. doc[t].completedAt \in asOf[t]..clock
  BY <1>1, <1>2 DEF TypeOK, LeaseDocument
<1>8. <<doc[t].status, doc[t].snapshot>> \in Register!Outcomes
  <2>1. CASE snap[t] = NoSnapshot
    BY <1>2, <2>1 DEF Outcome, SnapshotId, Register!Outcomes
  <2>2. CASE snap[t] # NoSnapshot
    BY <1>1, <1>2, <2>2 DEF Outcome, SnapshotId, TypeOK, Snapshot, Register!Outcomes
  <2> QED
    BY <2>1, <2>2
<1> QED
  BY <1>2, <1>4, <1>6, <1>7, <1>8 DEF Register!Settle

LEMMA RegisterNext == LeaseInv /\ [Next]_vars => [Register!Next]_(Register!vars)
<1> SUFFICES ASSUME LeaseInv, [Next]_vars PROVE [Register!Next]_(Register!vars)
  OBVIOUS
<1>0. TypeOK
  BY DEF LeaseInv
<1> USE DEF Register!Next, Register!vars
<1>1. CASE Tick
  BY <1>1 DEF Tick, Register!Tick, Asked, RegisterState
<1>2. CASE Vanish
  <2>1. RegisterState # NoLease /\ RegisterState.leasedAt = lease.leasedAt
    BY <1>0, <1>2, RegisterType DEF Vanish
  <2>2. lease.leasedAt + LeaseTTL <= clock
    BY <1>0, <1>2, ConstantsAssumption
       DEF Vanish, LeaseInv, LeaseTimes, TypeOK, LeaseDocument, Times
  <2>3. RegisterState' = NoLease /\ Asked' = Asked /\ clock' = clock
    BY <1>2 DEF Vanish, RegisterState, Asked
  <2> QED
    BY <2>1, <2>2, <2>3 DEF Register!Forget
<1>3. CASE ForeignPut
  BY <1>3 DEF ForeignPut, Asked, RegisterState
<1>4. ASSUME NEW t \in Tasks, Begin(t) PROVE Register!Ask(t)
  <2>1. Asked[t] = -1 /\ Asked' = [Asked EXCEPT ![t] = clock]
    BY <1>0, <1>4 DEF Begin, Goto, Asked, TypeOK, NotYet
  <2> QED
    BY <1>4, <2>1, RegisterUnchanged DEF Begin, Register!Ask, Register!Nobody
<1>5. ASSUME NEW t \in Tasks, StartClaim(t) PROVE UNCHANGED Register!vars
  BY <1>0, <1>5, RegisterUnchanged DEF StartClaim, Goto, Asked, TypeOK
<1>6. ASSUME NEW t \in Tasks, Read(t) PROVE UNCHANGED Register!vars
  BY <1>0, <1>6, RegisterUnchanged DEF Read, Goto, Asked, TypeOK, NextAttempt
<1>7. ASSUME NEW t \in Tasks, Wake(t) PROVE UNCHANGED Register!vars
  BY <1>0, <1>7, RegisterUnchanged DEF Wake, Goto, Asked, TypeOK
<1>8. ASSUME NEW t \in Tasks, Timeout(t) PROVE UNCHANGED Register!vars
  BY <1>0, <1>8, RegisterUnchanged DEF Timeout, Goto, Asked, TypeOK, Claiming
<1>9. ASSUME NEW t \in Tasks, Fetch(t) PROVE UNCHANGED Register!vars
  BY <1>0, <1>9, RegisterUnchanged DEF Fetch, Goto, Asked, TypeOK
<1>10. ASSUME NEW t \in Tasks, LoadSucceeds(t) PROVE UNCHANGED Register!vars
  BY <1>0, <1>10, RegisterUnchanged DEF LoadSucceeds, Goto, Asked, TypeOK
<1>11. ASSUME NEW t \in Tasks, LoadFails(t) PROVE UNCHANGED Register!vars
  BY <1>0, <1>11, RegisterUnchanged DEF LoadFails, Goto, Asked, TypeOK
<1>12. ASSUME NEW t \in Tasks, Put(t) PROVE UNCHANGED Register!vars
  BY <1>0, <1>12, RegisterUnchanged DEF Put, Goto, Asked, TypeOK
<1>13. ASSUME NEW t \in Tasks, PublishRead(t) PROVE UNCHANGED Register!vars
  BY <1>0, <1>13, RegisterUnchanged DEF PublishRead, Goto, Asked, TypeOK
<1>14. ASSUME NEW t \in Tasks, StoreFails(t) PROVE UNCHANGED Register!vars
  BY <1>0, <1>14, RegisterUnchanged DEF StoreFails, Goto, Asked, TypeOK
<1>15. ASSUME NEW t \in Tasks, PutFails(t) PROVE UNCHANGED Register!vars
  BY <1>0, <1>15, RegisterUnchanged DEF PutFails, Goto, Asked, TypeOK
<1>16. ASSUME NEW t \in Tasks, PutAnswerLost(t) PROVE UNCHANGED Register!vars
  BY <1>0, <1>16, RegisterUnchanged DEF PutAnswerLost, Goto, Asked, TypeOK
<1>17. ASSUME NEW t \in Tasks, Crash(t) PROVE UNCHANGED Register!vars
  BY <1>0, <1>17, RegisterUnchanged DEF Crash, Goto, Asked, TypeOK, Active, Claiming, Owning
<1>18. ASSUME NEW t \in Tasks, Create(t) PROVE [Register!Next]_(Register!vars)
  <2>1. Asked' = Asked /\ clock' = clock
    BY <1>0, <1>18 DEF Create, Goto, Asked, TypeOK, StoreUnchanged
  <2> QED
    BY <1>0, <1>18, <2>1, GrantStep, RegisterUnchanged DEF Create, StoreUnchanged
<1>19. ASSUME NEW t \in Tasks, Replace(t) PROVE [Register!Next]_(Register!vars)
  <2>1. Asked' = Asked /\ clock' = clock
    BY <1>0, <1>19 DEF Replace, Goto, Asked, TypeOK, StoreUnchanged, NextAttempt
  <2> QED
    BY <1>0, <1>19, <2>1, GrantStep, RegisterUnchanged DEF Replace, StoreUnchanged, NextAttempt
<1>20. ASSUME NEW t \in Tasks, PublishWrite(t) PROVE [Register!Next]_(Register!vars)
  <2>1. Asked' = Asked /\ clock' = clock
    BY <1>0, <1>20 DEF PublishWrite, Goto, Asked, TypeOK, StoreUnchanged, NextPublication
  <2> QED
    BY <1>0, <1>20, <2>1, SettleStep, RegisterUnchanged DEF PublishWrite, StoreUnchanged, NextPublication
<1>21. ASSUME NEW t \in Tasks, LeaseAnswerLost(t) PROVE [Register!Next]_(Register!vars)
  <2>1. Asked' = Asked /\ clock' = clock
    BY <1>0, <1>21 DEF LeaseAnswerLost, Goto, Asked, TypeOK, PendingWrite
  <2> QED
    BY <1>0, <1>21, <2>1, GrantStep, SettleStep, RegisterUnchanged DEF LeaseAnswerLost, PendingWrite
<1>22. ASSUME NEW t \in Tasks, WriteResent(t) PROVE [Register!Next]_(Register!vars)
  <2>1. Asked' = Asked /\ clock' = clock
    BY <1>0, <1>22 DEF WriteResent, Goto, Asked, TypeOK, PendingWrite, NextAttempt, NextPublication
  <2> QED
    BY <1>0, <1>22, <2>1, GrantStep, SettleStep, RegisterUnchanged DEF WriteResent, PendingWrite, NextAttempt, NextPublication
<1>23. CASE UNCHANGED vars
  BY <1>23 DEF vars, Asked, RegisterState
<1> QED
  BY <1>1, <1>2, <1>3, <1>4, <1>5, <1>6, <1>7, <1>8, <1>9, <1>10, <1>11, <1>12, <1>13, <1>14, <1>15, <1>16, <1>17, <1>18, <1>19, <1>20, <1>21, <1>22, <1>23 DEF Next, TaskStep, ClaimStep, AnswerStep, FaultStep

\* The lease document, its conditional writes and their faults implement a register
\* that grants one lease at a time and takes the outcome of the holder only.
THEOREM LeaseImplementsRegister == Spec => ImplementsRegister
<1>1. Init => LeaseInv /\ Register!Init
  BY LeaseInit, RegisterInit
<1>2. LeaseInv /\ [Next]_vars => LeaseInv'
  BY LeaseNext
<1>3. LeaseInv /\ [Next]_vars => [Register!Next]_(Register!vars)
  BY RegisterNext
<1> QED
  BY <1>1, <1>2, <1>3, PTL DEF Spec, ImplementsRegister, Register!Spec

=============================================================================
