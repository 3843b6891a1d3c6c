------------------------ MODULE CalculatorLaunchProofs ------------------------
(* Theorems about CalculatorLaunch, for any number of replicas, launches,  *)
(* requests and companions and all faults.                                 *)
EXTENDS CalculatorLaunch, TLAPS

Documents == LaunchDocument \cup {NoLaunch}

\* the fields of a kept document fit its status, and its version counts its moves
Coherent(d) ==
  d # NoLaunch =>
    /\ WellFormed(d)
    /\ d.status = "ready" => d.version = 1
    /\ d.status = "claimed" => d.version = 2

\* what an operation may make of a kept document
Moved(d, e) ==
  \/ e = d
  \/ /\ d # NoLaunch /\ e # NoLaunch
     /\ d.status = "ready" /\ e.status = "claimed"
     /\ e.etag = d.etag /\ e.generatedAt = d.generatedAt
  \/ /\ d # NoLaunch /\ e # NoLaunch
     /\ d.status = "claimed" /\ e.status = "consumed" /\ e.companion = d.companion

Erased(d) == d # NoLaunch /\ d.status = "consumed"

AskedRequests == [launch : Launches, replica : Replicas, etag : 1..MaxVersion, since : Nat]
Claims == [launch : Launches, replica : Replicas, etag : Nat, attempts : Nat, since : Nat]

\* what the requests remember
RequestsTyped ==
  /\ creator \in [Creators -> {"idle", "insert", "not_found", "stale", "conflict", "expired", "ready"}]
  /\ asked \in [Creators -> AskedRequests \cup {NoRequest}]
  /\ \A c \in Creators : creator[c] = "insert" => asked[c] \in AskedRequests
  /\ companion \in [Companions ->
       {"idle", "claim", "acknowledge", "not_found", "refused", "stale", "done"}]
  /\ claim \in [Companions -> Claims \cup {NoRequest}]
  /\ \A i \in Companions :
       companion[i] \in {"claim", "acknowledge", "done"} => claim[i] \in Claims

ProjectTyped ==
  clock \in Nat /\ project \in 0..MaxVersion /\ deleting \in BOOLEAN /\ restarted \subseteq Replicas

DocumentsKept ==
  /\ launches \in [Replicas -> [Launches -> Documents]]
  /\ \A r \in Replicas, l \in Launches : Coherent(launches[r][l])

\* a claimant holds the version its claim has made, and none is told it is stale
ClaimsCurrent ==
  \A i \in Companions :
    /\ companion[i] = "acknowledge" => claim[i].etag = 2
    /\ companion[i] # "stale"

\* what was acknowledged is still consumed, unless the replica has restarted
ErasedStays ==
  \A i \in Companions : companion[i] = "done" =>
    \/ claim[i].replica \in restarted
    \/ Erased(launches[claim[i].replica][claim[i].launch])

LaunchInv ==
  /\ ProjectTyped /\ RequestsTyped /\ DocumentsKept
  /\ OneReady /\ ClaimsCurrent /\ ErasedStays

-----------------------------------------------------------------------------
(* What the operations make of one document.                               *)

\* A claim keeps a document coherent and moves it at most from ready to claimed;
\* a claim that succeeds answers with the version 2.
LEMMA ClaimMoves ==
  ASSUME LaunchAssumption, NEW i \in Companions, NEW d \in Documents, NEW now \in Nat, Coherent(d)
  PROVE LET outcome == ClaimOutcome(i, d, now) IN
        /\ outcome[1] \in Documents /\ Coherent(outcome[1]) /\ Moved(d, outcome[1])
        /\ outcome[2] \in {"claimed", "not_found", "refused"}
        /\ outcome[2] = "claimed" => outcome[1].version = 2
<1>1. CASE d = NoLaunch
  BY <1>1 DEF ClaimOutcome, Coherent, Moved
<1>2. CASE d # NoLaunch /\ Expired(d, now)
  BY <1>2 DEF ClaimOutcome, Coherent, Moved
<1>3. CASE d # NoLaunch /\ ~Expired(d, now) /\ d.status = "ready"
  <2> DEFINE e == Claimed(d, i, now)
  <2>1. ClaimOutcome(i, d, now) = <<e, "claimed">>
    BY <1>3 DEF ClaimOutcome
  <2>2. d \in LaunchDocument /\ d.version = 1 /\ d.companion = NoCompanion /\ d.etag # 0
    BY <1>3 DEF Coherent, WellFormed, Documents
  <2>3. e = [status |-> "claimed", etag |-> d.etag, generatedAt |-> d.generatedAt,
             companion |-> i, expiresAt |-> now + ActiveTTL, version |-> 2]
    BY <2>2 DEF Claimed
  <2>5. /\ e \in LaunchDocument /\ e.status = "claimed" /\ e.version = 2 /\ e.companion = i
        /\ e.etag = d.etag /\ e.generatedAt = d.generatedAt
    <3>1. now + ActiveTTL \in Nat /\ d.etag \in Nat /\ d.generatedAt \in Nat
      BY <2>2 DEF LaunchDocument, LaunchAssumption, Times
    <3> HIDE DEF e
    <3> QED
      BY <2>3, <3>1 DEF LaunchDocument, Times
  <2>4. e # NoLaunch /\ Coherent(e)
    BY <2>2, <2>5 DEF LaunchAssumption, Coherent, WellFormed
  <2> QED
    BY <1>3, <2>1, <2>4, <2>5 DEF Moved, Documents
<1>4. CASE d # NoLaunch /\ ~Expired(d, now) /\ d.status # "ready"
  <2>1. ClaimOutcome(i, d, now)
          = <<d, IF d.status = "claimed" /\ d.companion = i THEN "claimed" ELSE "refused">>
    BY <1>4 DEF ClaimOutcome
  <2> QED
    BY <1>4, <2>1 DEF Moved, Coherent
<1> QED
  BY <1>1, <1>2, <1>3, <1>4

\* An acknowledgement keeps a document coherent and moves it at most from claimed to
\* consumed; with the claimant's version it is never stale.
LEMMA AcknowledgeMoves ==
  ASSUME LaunchAssumption, NEW i \in Companions, NEW d \in Documents, NEW now \in Nat, Coherent(d)
  PROVE LET outcome == AckOutcome(i, d, now, 2) IN
        /\ outcome[1] \in Documents /\ Coherent(outcome[1]) /\ Moved(d, outcome[1])
        /\ outcome[2] \in {"done", "refused"}
        /\ outcome[2] = "done" => Erased(outcome[1])
<1>1. CASE d = NoLaunch
  BY <1>1 DEF AckOutcome, Coherent, Moved
<1>2. CASE d # NoLaunch /\ d.status = "consumed" /\ d.companion = i
  BY <1>2 DEF AckOutcome, Moved, Erased
<1>3. CASE d # NoLaunch /\ d.status = "claimed" /\ d.companion = i /\ ~Expired(d, now)
  <2> DEFINE e == Consumed(d, now)
  <2>1. d \in LaunchDocument /\ d.version = 2
    BY <1>3 DEF Coherent, WellFormed, Documents
  <2>2. AckOutcome(i, d, now, 2) = <<e, "done">>
    BY <1>3, <2>1 DEF AckOutcome
  <2>3. ConsumedTTL \in Nat
    BY DEF ConsumedTTL, LaunchAssumption
  <2>4. e = [status |-> "consumed", etag |-> 0, generatedAt |-> 0,
             companion |-> i, expiresAt |-> now + ConsumedTTL, version |-> 3]
    BY <1>3, <2>1 DEF Consumed
  <2>6. /\ e \in LaunchDocument /\ e.status = "consumed" /\ e.version = 3 /\ e.etag = 0
        /\ e.companion = i
    <3> HIDE DEF e
    <3>1. now + ConsumedTTL \in Nat
      BY <2>3
    <3> QED
      BY <2>4, <3>1 DEF LaunchDocument, Times
  <2>5. e # NoLaunch /\ Coherent(e)
    BY <1>3, <2>6 DEF LaunchAssumption, Coherent, WellFormed
  <2> QED
    BY <1>3, <2>2, <2>5, <2>6 DEF Moved, Documents, Erased
<1>4. CASE /\ d # NoLaunch /\ ~(d.status = "consumed" /\ d.companion = i)
           /\ ~(d.status = "claimed" /\ d.companion = i /\ ~Expired(d, now))
  <2>1. AckOutcome(i, d, now, 2) = <<d, "refused">>
    BY <1>4 DEF AckOutcome
  <2> QED
    BY <2>1 DEF Moved
<1> QED
  BY <1>1, <1>2, <1>3, <1>4

\* Storing what a document was moved to keeps the documents coherent, no two of them
\* ready, and what is erased erased.
LEMMA StoreMoved ==
  ASSUME DocumentsKept, OneReady, NEW r \in Replicas, NEW l \in Launches, NEW e \in Documents,
         Coherent(e), Moved(launches[r][l], e), Stored(r, l, e), clock' = clock
  PROVE /\ DocumentsKept' /\ OneReady'
        /\ \A s \in Replicas, m \in Launches : Moved(launches[s][m], launches'[s][m])
        /\ \A s \in Replicas, m \in Launches : Erased(launches[s][m]) => Erased(launches'[s][m])
        /\ launches'[r][l] = e
<1>1. \A s \in Replicas, m \in Launches :
        launches'[s][m] = IF s = r /\ m = l THEN e ELSE launches[s][m]
  BY DEF Stored, DocumentsKept
<1>2. DocumentsKept'
  BY <1>1 DEF Stored, DocumentsKept
<1>3. \A s \in Replicas, m \in Launches : Moved(launches[s][m], launches'[s][m])
  BY <1>1 DEF Moved
<1>4. \A s \in Replicas, m \in Launches : Erased(launches[s][m]) => Erased(launches'[s][m])
  BY <1>3 DEF Moved, Erased
<1>5. \A s \in Replicas, m \in Launches : Waits(launches[s][m])' => Waits(launches[s][m])
  BY <1>3 DEF Moved, Waits
<1>6. OneReady'
  BY <1>5 DEF OneReady
<1> QED
  BY <1>1, <1>2, <1>3, <1>4, <1>6

-----------------------------------------------------------------------------
(* Each action preserves the invariant.                                    *)

LEMMA InitInv == ASSUME LaunchAssumption, Init PROVE LaunchInv
<1>1. ProjectTyped
  <2>1. clock \in Nat /\ project \in 0..MaxVersion
    BY DEF Init, LaunchAssumption
  <2>2. deleting \in BOOLEAN /\ restarted \subseteq Replicas
    BY DEF Init
  <2> QED
    BY <2>1, <2>2 DEF ProjectTyped
<1>4. RequestsTyped
  BY DEF Init, RequestsTyped
<1>2. DocumentsKept /\ OneReady
  BY DEF Init, DocumentsKept, Documents, Coherent, OneReady, Waits
<1>3. ClaimsCurrent /\ ErasedStays
  BY DEF Init, ClaimsCurrent, ErasedStays
<1> QED
  BY <1>1, <1>2, <1>3, <1>4 DEF LaunchInv

\* Steps that leave the requests and the documents alone.
LEMMA ProjectStep ==
  ASSUME LaunchInv, LaunchAssumption, Tick \/ Edit \/ DeleteProject
  PROVE LaunchInv'
<1>1. ProjectTyped'
  <2>1. CASE Tick
    BY <2>1 DEF LaunchInv, Tick, ProjectTyped
  <2>2. CASE Edit
    BY <2>2 DEF LaunchInv, LaunchAssumption, Edit, ProjectTyped
  <2>3. CASE DeleteProject
    <3>1. clock' \in Nat /\ project' \in 0..MaxVersion
      BY <2>3 DEF LaunchInv, LaunchAssumption, DeleteProject, ProjectTyped
    <3>2. deleting' \in BOOLEAN /\ restarted' \subseteq Replicas
      BY <2>3 DEF LaunchInv, DeleteProject, ProjectTyped
    <3> QED
      BY <3>1, <3>2 DEF ProjectTyped
  <2> QED
    BY <2>1, <2>2, <2>3
<1>2. launches' = launches /\ restarted' = restarted /\ clock' >= clock /\ clock \in Nat /\ clock' \in Nat
  BY DEF LaunchInv, ProjectTyped, Tick, Edit, DeleteProject
<1>3. UNCHANGED <<creator, asked, companion, claim>>
  BY DEF Tick, Edit, DeleteProject
<1>4. RequestsTyped' /\ ClaimsCurrent' /\ ErasedStays'
  BY <1>2, <1>3 DEF LaunchInv, RequestsTyped, ClaimsCurrent, ErasedStays
<1>5. DocumentsKept'
  BY <1>2 DEF LaunchInv, DocumentsKept
<1>6. \A r \in Replicas, l \in Launches : Waits(launches[r][l])' => Waits(launches[r][l])
  <2> SUFFICES ASSUME NEW r \in Replicas, NEW l \in Launches, Waits(launches[r][l])'
               PROVE Waits(launches[r][l])
    OBVIOUS
  <2>1. launches[r][l] # NoLaunch /\ launches[r][l].status = "ready" /\ launches[r][l].expiresAt > clock'
    BY <1>2 DEF Waits
  <2>2. launches[r][l].expiresAt \in Nat
    BY <2>1 DEF LaunchInv, DocumentsKept, Documents, LaunchDocument, Times
  <2> QED
    BY <1>2, <2>1, <2>2 DEF Waits
<1>7. OneReady'
  BY <1>2, <1>6 DEF LaunchInv, OneReady
<1> QED
  BY <1>1, <1>4, <1>5, <1>7 DEF LaunchInv

\* A purge or a restart only removes documents, and a purge none that is consumed.
LEMMA RemovalStep ==
  ASSUME LaunchInv, PurgeProject \/ Restart
  PROVE LaunchInv'
<1>1. /\ clock' = clock /\ restarted \subseteq restarted'
      /\ UNCHANGED <<creator, asked, companion, claim>>
  BY DEF PurgeProject, Restart
<1>2. PICK r \in Replicas :
        \/ launches' = [launches EXCEPT ![r] = [l \in Launches |-> Purged(launches[r][l])]]
        \/ /\ launches' = [launches EXCEPT ![r] = [l \in Launches |-> NoLaunch]]
           /\ r \in restarted'
  BY DEF PurgeProject, Restart
<1>3. \A s \in Replicas, l \in Launches : launches'[s][l] \in {launches[s][l], NoLaunch}
  BY <1>2 DEF LaunchInv, DocumentsKept, Purged
<1>4. \A s \in Replicas, l \in Launches :
        Erased(launches[s][l]) => s \in restarted' \/ Erased(launches'[s][l])
  BY <1>2 DEF LaunchInv, DocumentsKept, Purged, Erased
<1>5. launches' \in [Replicas -> [Launches -> Documents]]
  BY <1>2 DEF LaunchInv, DocumentsKept, Documents, Purged
<1>6. DocumentsKept'
  BY <1>3, <1>5 DEF LaunchInv, DocumentsKept, Coherent
<1>7. OneReady'
  BY <1>1, <1>3 DEF LaunchInv, OneReady, Waits
<1>8. RequestsTyped' /\ ClaimsCurrent'
  BY <1>1 DEF LaunchInv, RequestsTyped, ClaimsCurrent
<1>9. ErasedStays'
  <2> SUFFICES ASSUME NEW i \in Companions, companion[i] = "done"
               PROVE \/ claim[i].replica \in restarted'
                     \/ Erased(launches'[claim[i].replica][claim[i].launch])
    BY <1>1 DEF ErasedStays, Erased
  <2>1. claim[i].replica \in Replicas /\ claim[i].launch \in Launches
    BY DEF LaunchInv, RequestsTyped, Claims
  <2>2. claim[i].replica \in restarted \/ Erased(launches[claim[i].replica][claim[i].launch])
    BY DEF LaunchInv, ErasedStays
  <2> QED
    BY <1>1, <1>4, <2>1, <2>2
<1>10. ProjectTyped'
  <2>1. clock' \in Nat /\ project' \in 0..MaxVersion
    BY DEF LaunchInv, ProjectTyped, PurgeProject, Restart
  <2>2. deleting' \in BOOLEAN /\ restarted' \subseteq Replicas
    BY DEF LaunchInv, ProjectTyped, PurgeProject, Restart
  <2> QED
    BY <2>1, <2>2 DEF ProjectTyped
<1> QED
  BY <1>6, <1>7, <1>8, <1>9, <1>10 DEF LaunchInv

\* A create finds the project and later stores its launch, when none waits.
LEMMA CreateStep ==
  ASSUME LaunchInv, LaunchAssumption, NEW c \in Creators, CreatorStep(c)
  PROVE LaunchInv'
<1>1. /\ UNCHANGED <<clock, project, deleting, restarted, companion, claim>>
      /\ ProjectTyped' /\ ClaimsCurrent'
  BY DEF CreatorStep, LoadProject, Insert, LaunchInv, ProjectTyped, ClaimsCurrent
<1>2. CASE LoadProject(c)
  <2>1. RequestsTyped'
    <3>1. clock \in Nat
      BY DEF LaunchInv, ProjectTyped
    <3> QED
      BY <1>1, <1>2, <3>1 DEF LoadProject, Answer, LaunchInv, RequestsTyped, AskedRequests
  <2>2. DocumentsKept' /\ OneReady' /\ ErasedStays'
    BY <1>1, <1>2 DEF LoadProject, LaunchInv, DocumentsKept, OneReady, Waits, ErasedStays
  <2> QED
    BY <1>1, <2>1, <2>2 DEF LaunchInv
<1>3. CASE Insert(c)
  <2> DEFINE r == asked[c].replica
             l == asked[c].launch
  <2>1. /\ asked[c] \in AskedRequests /\ r \in Replicas /\ l \in Launches
        /\ asked[c].etag \in 1..MaxVersion /\ asked[c].since \in Nat
    BY <1>3 DEF Insert, LaunchInv, RequestsTyped, AskedRequests
  <2>2. RequestsTyped'
    BY <1>1, <1>3 DEF Insert, Answer, LaunchInv, RequestsTyped
  <2>3. CASE launches' = launches
    BY <1>1, <2>2, <2>3 DEF LaunchInv, DocumentsKept, OneReady, Waits, ErasedStays
  <2>4. CASE launches' # launches
    <3>1. PICK generatedAt \in asked[c].since..clock, now \in asked[c].since..clock :
            /\ launches[r][l] = NoLaunch
            /\ \A other \in Launches : ~Active(launches[r][other], now)
            /\ Stored(r, l, Ready(asked[c].etag, generatedAt, now))
      <4>1. clock \in Nat
        BY DEF LaunchInv, ProjectTyped
      <4> QED
        BY <1>3, <2>1, <2>4, <4>1 DEF Insert
    <3>2. generatedAt \in Nat /\ now \in Nat /\ clock \in Nat /\ now <= clock
      BY <2>1, <3>1 DEF LaunchInv, ProjectTyped
    <3> DEFINE e == Ready(asked[c].etag, generatedAt, now)
    <3>3. /\ e \in LaunchDocument /\ e.status = "ready" /\ e.version = 1 /\ e.companion = NoCompanion
          /\ e.etag # 0
      BY <2>1, <3>2 DEF Ready, LaunchDocument, LaunchAssumption, Times
    <3>4. e \in Documents /\ Coherent(e)
      BY <3>3 DEF Documents, Coherent, WellFormed
    <3>5. \A s \in Replicas, m \in Launches :
            launches'[s][m] = IF s = r /\ m = l THEN e ELSE launches[s][m]
      BY <3>1 DEF Stored, LaunchInv, DocumentsKept
    <3>6. DocumentsKept'
      <4>1. launches' = [launches EXCEPT ![r][l] = e]
        BY <3>1 DEF Stored
      <4>2. DocumentsKept
        BY DEF LaunchInv
      <4>3. launches' \in [Replicas -> [Launches -> Documents]]
        BY <3>4, <4>1, <4>2 DEF DocumentsKept
      <4> QED
        BY <3>4, <3>5, <4>2, <4>3 DEF DocumentsKept
    <3>7. \A other \in Launches : ~Waits(launches[r][other])
      <4> SUFFICES ASSUME NEW other \in Launches, Waits(launches[r][other]) PROVE FALSE
        OBVIOUS
      <4>1. launches[r][other] \in LaunchDocument
        BY <2>1 DEF Waits, LaunchInv, DocumentsKept, Documents
      <4>2. launches[r][other].expiresAt \in Nat
        BY <4>1 DEF LaunchDocument, Times
      <4>3. launches[r][other].expiresAt <= now
        BY <3>1 DEF Waits, Active, Expired
      <4> QED
        BY <3>2, <4>2, <4>3 DEF Waits
    <3>8. OneReady'
      <4> SUFFICES ASSUME NEW s \in Replicas, NEW m \in Launches, NEW n \in Launches,
                          Waits(launches[s][m])', Waits(launches[s][n])'
                   PROVE m = n
        BY DEF OneReady
      <4>1. CASE s = r
        BY <1>1, <2>1, <3>5, <3>7, <4>1 DEF Waits
      <4>2. CASE s # r
        BY <1>1, <2>1, <3>5, <4>2 DEF LaunchInv, OneReady, Waits
      <4> QED
        BY <4>1, <4>2
    <3>9. ErasedStays'
      <4> SUFFICES ASSUME NEW i \in Companions, companion[i] = "done"
                   PROVE \/ claim[i].replica \in restarted
                         \/ Erased(launches'[claim[i].replica][claim[i].launch])
        BY <1>1 DEF ErasedStays, Erased
      <4>1. claim[i].replica \in Replicas /\ claim[i].launch \in Launches
        BY DEF LaunchInv, RequestsTyped, Claims
      <4> QED
        BY <2>1, <3>1, <3>5, <4>1 DEF LaunchInv, ErasedStays, Erased
    <3> QED
      BY <1>1, <2>2, <3>6, <3>8, <3>9 DEF LaunchInv
  <2> QED
    BY <2>3, <2>4
<1> QED
  BY <1>2, <1>3 DEF CreatorStep

\* What a companion's operation stores keeps what was acknowledged erased.
LEMMA ErasedKept ==
  ASSUME LaunchInv, UNCHANGED restarted, NEW i \in Companions,
         \A s \in Replicas, m \in Launches : Erased(launches[s][m]) => Erased(launches'[s][m]),
         \A j \in Companions : j # i => companion'[j] = companion[j] /\ claim'[j] = claim[j],
         companion'[i] = "done" =>
           \/ claim'[i].replica \in restarted
           \/ Erased(launches'[claim'[i].replica][claim'[i].launch])
  PROVE ErasedStays'
<1> SUFFICES ASSUME NEW j \in Companions, companion'[j] = "done"
             PROVE \/ claim'[j].replica \in restarted
                   \/ Erased(launches'[claim'[j].replica][claim'[j].launch])
  BY DEF ErasedStays, Erased
<1>1. CASE j = i
  BY <1>1
<1>2. CASE j # i
  <2>1. companion[j] = "done" /\ claim'[j] = claim[j]
    BY <1>2
  <2>2. claim[j].replica \in Replicas /\ claim[j].launch \in Launches
    BY <2>1 DEF LaunchInv, RequestsTyped, Claims
  <2> QED
    BY <2>1, <2>2 DEF LaunchInv, ErasedStays
<1> QED
  BY <1>1, <1>2

\* A claim, also one whose answer is lost or that comes again.
LEMMA ClaimStep ==
  ASSUME LaunchInv, LaunchAssumption, NEW i \in Companions,
         Claim(i) \/ ClaimLost(i) \/ ClaimResent(i)
  PROVE LaunchInv' /\ \A s \in Replicas, m \in Launches : Moved(launches[s][m], launches'[s][m])
<1> DEFINE r == claim[i].replica
           l == claim[i].launch
           d == launches[r][l]
<1>1. /\ companion[i] \in {"claim", "acknowledge", "done"} /\ claim[i] \in Claims
      /\ UNCHANGED <<clock, project, deleting, restarted, creator, asked>>
  BY DEF Claim, ClaimLost, ClaimResent, LaunchInv, RequestsTyped
<1>2. /\ r \in Replicas /\ l \in Launches /\ claim[i].etag \in Nat /\ claim[i].attempts \in Nat
      /\ claim[i].since \in Nat /\ clock \in Nat
  BY <1>1 DEF Claims, LaunchInv, ProjectTyped
<1>3. d \in Documents /\ Coherent(d)
  BY <1>2 DEF LaunchInv, DocumentsKept
<1>4. PICK now \in claim[i].since..clock :
        LET outcome == ClaimOutcome(i, d, now) IN
        /\ Stored(r, l, outcome[1])
        /\ \/ /\ outcome[2] = "claimed" /\ Goto(i, "acknowledge")
              /\ \E next \in Replicas : Ask(i, l, next, outcome[1].version, claim[i].attempts)
           \/ /\ Goto(i, "claim")
              /\ \E next \in Replicas : Ask(i, l, next, 0, claim[i].attempts + 1)
           \/ Goto(i, "not_found") /\ Forget(i)
           \/ Goto(i, "refused") /\ Forget(i)
           \/ UNCHANGED <<companion, claim>>
  BY DEF Claim, ClaimLost, ClaimResent
<1> DEFINE outcome == ClaimOutcome(i, d, now)
<1>5. /\ outcome[1] \in Documents /\ Coherent(outcome[1]) /\ Moved(d, outcome[1])
      /\ outcome[2] = "claimed" => outcome[1].version = 2
  <2>1. now \in claim[i].since..clock
    BY <1>4
  <2>2. now \in Nat
    BY <1>2, <2>1
  <2> QED
    BY <1>3, <2>2, ClaimMoves
<1>11. Stored(r, l, outcome[1]) /\ clock' = clock /\ DocumentsKept /\ OneReady
  BY <1>1, <1>4 DEF LaunchInv
<1>7. \/ /\ outcome[1].version = 2
         /\ companion' = [companion EXCEPT ![i] = "acknowledge"]
         /\ \E next \in Replicas : Ask(i, l, next, 2, claim[i].attempts)
      \/ /\ companion' = [companion EXCEPT ![i] = "claim"]
         /\ \E next \in Replicas : Ask(i, l, next, 0, claim[i].attempts + 1)
      \/ companion' = [companion EXCEPT ![i] = "not_found"] /\ Forget(i)
      \/ companion' = [companion EXCEPT ![i] = "refused"] /\ Forget(i)
      \/ UNCHANGED <<companion, claim>>
  BY <1>4, <1>5 DEF Goto
<1> HIDE DEF outcome
<1>6. /\ DocumentsKept' /\ OneReady'
      /\ \A s \in Replicas, m \in Launches : Moved(launches[s][m], launches'[s][m])
      /\ \A s \in Replicas, m \in Launches : Erased(launches[s][m]) => Erased(launches'[s][m])
  BY <1>2, <1>5, <1>11, StoreMoved
<1>8. RequestsTyped'
  BY <1>1, <1>2, <1>7 DEF Ask, Forget, LaunchInv, RequestsTyped, Claims
<1>9. ClaimsCurrent'
  BY <1>7 DEF Ask, Forget, LaunchInv, RequestsTyped, ClaimsCurrent
<1>10. ErasedStays'
  <2>1. \A j \in Companions : j # i => companion'[j] = companion[j] /\ claim'[j] = claim[j]
    BY <1>7 DEF Ask, Forget, LaunchInv, RequestsTyped
  <2>2. companion'[i] = "done" => companion[i] = "done" /\ claim'[i] = claim[i]
    BY <1>7 DEF LaunchInv, RequestsTyped
  <2>3. companion[i] = "done" => r \in restarted \/ Erased(d)
    BY DEF LaunchInv, ErasedStays
  <2>4. companion'[i] = "done" =>
          \/ claim'[i].replica \in restarted
          \/ Erased(launches'[claim'[i].replica][claim'[i].launch])
    BY <1>2, <1>6, <2>2, <2>3
  <2> QED
    BY <1>1, <1>6, <2>1, <2>4, ErasedKept
<1>12. ProjectTyped'
  BY <1>1 DEF LaunchInv, ProjectTyped
<1> QED
  BY <1>6, <1>8, <1>9, <1>10, <1>12 DEF LaunchInv

\* An acknowledgement, also one that comes again.
LEMMA AcknowledgeStep ==
  ASSUME LaunchInv, LaunchAssumption, NEW i \in Companions, Acknowledge(i) \/ AcknowledgeResent(i)
  PROVE LaunchInv' /\ \A s \in Replicas, m \in Launches : Moved(launches[s][m], launches'[s][m])
<1> DEFINE r == claim[i].replica
           l == claim[i].launch
           d == launches[r][l]
<1>1. /\ companion[i] = "acknowledge" /\ claim[i] \in Claims /\ claim[i].etag = 2
      /\ UNCHANGED <<clock, project, deleting, restarted, creator, asked>>
  BY DEF Acknowledge, AcknowledgeResent, LaunchInv, RequestsTyped, ClaimsCurrent
<1>2. r \in Replicas /\ l \in Launches /\ claim[i].since \in Nat /\ clock \in Nat
  BY <1>1 DEF Claims, LaunchInv, ProjectTyped
<1>3. d \in Documents /\ Coherent(d)
  BY <1>2 DEF LaunchInv, DocumentsKept
<1>4. PICK now \in claim[i].since..clock :
        LET outcome == AckOutcome(i, d, now, 2) IN
        /\ Stored(r, l, outcome[1])
        /\ \/ Goto(i, outcome[2]) /\ (IF outcome[2] = "done" THEN claim' = claim ELSE Forget(i))
           \/ UNCHANGED <<companion, claim>>
  BY <1>1 DEF Acknowledge, AcknowledgeResent
<1> DEFINE outcome == AckOutcome(i, d, now, 2)
<1>5. /\ outcome[1] \in Documents /\ Coherent(outcome[1]) /\ Moved(d, outcome[1])
      /\ outcome[2] \in {"done", "refused"}
      /\ outcome[2] = "done" => Erased(outcome[1])
  <2>1. now \in Nat
    BY <1>2, <1>4
  <2> QED
    BY <1>3, <2>1, AcknowledgeMoves
<1>11. Stored(r, l, outcome[1]) /\ clock' = clock /\ DocumentsKept /\ OneReady
  BY <1>1, <1>4 DEF LaunchInv
<1>13. \/ Goto(i, outcome[2]) /\ (IF outcome[2] = "done" THEN claim' = claim ELSE Forget(i))
       \/ UNCHANGED <<companion, claim>>
  BY <1>4
<1> HIDE DEF outcome
<1>6. /\ DocumentsKept' /\ OneReady' /\ launches'[r][l] = outcome[1]
      /\ \A s \in Replicas, m \in Launches : Moved(launches[s][m], launches'[s][m])
      /\ \A s \in Replicas, m \in Launches : Erased(launches[s][m]) => Erased(launches'[s][m])
  BY <1>2, <1>5, <1>11, StoreMoved
<1>7. \/ /\ Erased(outcome[1])
         /\ companion' = [companion EXCEPT ![i] = "done"] /\ claim' = claim
      \/ companion' = [companion EXCEPT ![i] = "refused"] /\ Forget(i)
      \/ UNCHANGED <<companion, claim>>
  BY <1>5, <1>13 DEF Goto
<1>8. RequestsTyped'
  BY <1>1, <1>7 DEF Forget, LaunchInv, RequestsTyped
<1>9. ClaimsCurrent'
  BY <1>7 DEF Forget, LaunchInv, RequestsTyped, ClaimsCurrent
<1>10. ErasedStays'
  <2>1. \A j \in Companions : j # i => companion'[j] = companion[j] /\ claim'[j] = claim[j]
    BY <1>7 DEF Forget, LaunchInv, RequestsTyped
  <2>2. companion'[i] = "done" => claim' = claim /\ Erased(outcome[1])
    BY <1>1, <1>7 DEF LaunchInv, RequestsTyped
  <2> QED
    BY <1>1, <1>6, <2>1, <2>2, ErasedKept
<1>12. ProjectTyped'
  BY <1>1 DEF LaunchInv, ProjectTyped
<1> QED
  BY <1>6, <1>8, <1>9, <1>10, <1>12 DEF LaunchInv

\* An activation only starts to ask.
LEMMA ActivateStep ==
  ASSUME LaunchInv, NEW i \in Companions, Activate(i)
  PROVE LaunchInv'
<1>1. /\ UNCHANGED <<clock, project, deleting, launches, restarted, creator, asked>>
      /\ companion' = [companion EXCEPT ![i] = "claim"]
      /\ \E l \in Launches, r \in Replicas : Ask(i, l, r, 0, 0)
  BY DEF Activate, Goto
<1>2. clock \in Nat
  BY DEF LaunchInv, ProjectTyped
<1>3. RequestsTyped'
  BY <1>1, <1>2 DEF Ask, LaunchInv, RequestsTyped, Claims
<1>4. ClaimsCurrent' /\ ErasedStays'
  BY <1>1 DEF Ask, LaunchInv, RequestsTyped, ClaimsCurrent, ErasedStays
<1>5. ProjectTyped' /\ DocumentsKept' /\ OneReady'
  BY <1>1 DEF LaunchInv, ProjectTyped, DocumentsKept, OneReady, Waits
<1> QED
  BY <1>3, <1>4, <1>5 DEF LaunchInv

LEMMA NextInv ==
  ASSUME LaunchAssumption, LaunchInv, [Next]_vars
  PROVE LaunchInv'
<1>1. CASE UNCHANGED vars
  BY <1>1 DEF vars, LaunchInv, ProjectTyped, RequestsTyped, DocumentsKept, OneReady, Waits,
              ClaimsCurrent, ErasedStays
<1>2. CASE Tick \/ Edit \/ DeleteProject
  BY <1>2, ProjectStep
<1>3. CASE PurgeProject \/ Restart
  BY <1>3, RemovalStep
<1>4. CASE \E c \in Creators : CreatorStep(c)
  BY <1>4, CreateStep
<1>5. CASE \E i \in Companions : CompanionStep(i)
  BY <1>5, ActivateStep, ClaimStep, AcknowledgeStep DEF CompanionStep
<1> QED
  BY <1>1, <1>2, <1>3, <1>4, <1>5 DEF Next

LEMMA InvariantHolds == ASSUME LaunchAssumption PROVE Spec => []LaunchInv
<1>1. Init => LaunchInv
  BY InitInv
<1>2. LaunchInv /\ [Next]_vars => LaunchInv'
  BY NextInv
<1> QED
  BY <1>1, <1>2, PTL DEF Spec

-----------------------------------------------------------------------------
(* The theorems.                                                           *)

\* Every launch that is kept has the fields its status demands (validate_document
\* in persistence/calculator_launch.rs), whatever create, claim, acknowledge, the
\* purge of a project and a restart do to it.
THEOREM TypeCorrect == ASSUME LaunchAssumption PROVE Spec => []TypeOK
<1>1. LaunchInv => TypeOK
  <2> SUFFICES ASSUME LaunchInv PROVE TypeOK
    OBVIOUS
  <2>1. clock \in Times /\ project \in 0..MaxVersion /\ restarted \subseteq Replicas
    BY DEF LaunchInv, ProjectTyped, Times
  <2>2. deleting \in BOOLEAN
    BY DEF LaunchInv, ProjectTyped
  <2>3. \A r \in Replicas, l \in Launches :
          launches[r][l] = NoLaunch \/ WellFormed(launches[r][l])
    BY DEF LaunchInv, DocumentsKept, Coherent
  <2> QED
    BY <2>1, <2>2, <2>3 DEF LaunchInv, RequestsTyped, TypeOK
<1> QED
  BY <1>1, InvariantHolds, PTL

\* At most one launch of the owner waits to be claimed: create looks for an active
\* launch under the lock, with a clock it read before, and a claim never makes a
\* launch ready again.
THEOREM OneLaunchWaits == ASSUME LaunchAssumption PROVE Spec => []OneReady
<1>1. LaunchInv => OneReady
  BY DEF LaunchInv
<1> QED
  BY <1>1, InvariantHolds, PTL

\* The etag that claim gives to a companion is the one acknowledge asks for, also
\* when the claim is applied again by a resent request.
THEOREM EtagsHold == ASSUME LaunchAssumption PROVE Spec => []ClaimantsEtagHolds
<1>1. LaunchInv => ClaimantsEtagHolds
  BY DEF LaunchInv, ClaimsCurrent, ClaimantsEtagHolds
<1> QED
  BY <1>1, InvariantHolds, PTL

\* What acknowledge has erased no create, claim or purge brings back in a replica
\* that has not restarted.
THEOREM ErasedForGood == ASSUME LaunchAssumption PROVE Spec => []AcknowledgedIsErased
<1>1. LaunchInv => AcknowledgedIsErased
  BY DEF LaunchInv, ErasedStays, Erased, AcknowledgedIsErased
<1> QED
  BY <1>1, InvariantHolds, PTL

\* A launch moves from ready to claimed to consumed and never back; its binding is
\* that of its creation until acknowledge erases it, its claimant stays.
THEOREM LaunchesMoveForward == ASSUME LaunchAssumption PROVE Spec => MovesForward
<1> DEFINE
      Forward(d, e) ==
        (d # NoLaunch /\ e # NoLaunch /\ d # e) =>
          /\ d.status # "consumed"
          /\ d.status = "ready" => e.status = "claimed"
          /\ d.status = "claimed" => e.status = "consumed" /\ e.companion = d.companion
          /\ e.status = "claimed" => e.etag = d.etag /\ e.generatedAt = d.generatedAt
      AllForward == \A r \in Replicas, l \in Launches : Forward(launches[r][l], launches'[r][l])
<1>1. ASSUME LaunchInv, [Next]_vars PROVE [AllForward]_vars
  <2>1. CASE launches' = launches
    BY <2>1
  <2>2. CASE PurgeProject \/ Restart
    <3>1. \A s \in Replicas, l \in Launches : launches'[s][l] \in {launches[s][l], NoLaunch}
      BY <1>1, <2>2 DEF PurgeProject, Restart, Purged, LaunchInv, DocumentsKept
    <3> QED
      BY <3>1
  <2>3. CASE \E c \in Creators : Insert(c)
    <3>1. PICK c \in Creators : Insert(c)
      BY <2>3
    <3>2. \/ launches' = launches
          \/ \E e : /\ launches[asked[c].replica][asked[c].launch] = NoLaunch
                    /\ Stored(asked[c].replica, asked[c].launch, e)
      BY <3>1 DEF Insert
    <3>3. asked[c].replica \in Replicas /\ asked[c].launch \in Launches
      BY <1>1, <3>1 DEF Insert, LaunchInv, RequestsTyped, AskedRequests
    <3>4. \A s \in Replicas, l \in Launches :
            launches'[s][l] = launches[s][l] \/ launches[s][l] = NoLaunch
      <4>1. launches \in [Replicas -> [Launches -> Documents]]
        BY <1>1 DEF LaunchInv, DocumentsKept
      <4>2. CASE launches' = launches
        BY <4>2
      <4>3. ASSUME NEW e, launches[asked[c].replica][asked[c].launch] = NoLaunch,
                   Stored(asked[c].replica, asked[c].launch, e)
            PROVE  \A s \in Replicas, l \in Launches :
                     launches'[s][l] = launches[s][l] \/ launches[s][l] = NoLaunch
        BY <3>3, <4>1, <4>3 DEF Stored
      <4> QED
        BY <3>2, <4>2, <4>3
    <3> QED
      BY <3>4
  <2>4. CASE \E i \in Companions : \/ Claim(i) \/ ClaimLost(i) \/ ClaimResent(i)
                                   \/ Acknowledge(i) \/ AcknowledgeResent(i)
    <3>1. \A s \in Replicas, m \in Launches : Moved(launches[s][m], launches'[s][m])
      BY <1>1, <2>4, ClaimStep, AcknowledgeStep
    <3> QED
      BY <3>1 DEF Moved
  <2>5. \/ launches' = launches
        \/ PurgeProject \/ Restart
        \/ \E c \in Creators : Insert(c)
        \/ \E i \in Companions : \/ Claim(i) \/ ClaimLost(i) \/ ClaimResent(i)
                                 \/ Acknowledge(i) \/ AcknowledgeResent(i)
    BY <1>1 DEF Next, vars, Tick, Edit, DeleteProject, CreatorStep, LoadProject,
                CompanionStep, Activate
  <2> QED
    BY <2>1, <2>2, <2>3, <2>4, <2>5
<1>2. Spec => [][AllForward]_vars
  BY <1>1, InvariantHolds, PTL DEF Spec
<1> QED
  BY <1>2 DEF MovesForward
=============================================================================
