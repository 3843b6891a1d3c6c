--------------------------- MODULE CalculatorLaunch ---------------------------
(***************************************************************************)
(* The hand-over of one owner's saved project to the desktop companion     *)
(* (api/calculator_launches.rs, persistence/calculator_launch.rs and the   *)
(* companion's CalculatorLaunchClient): the browser creates a launch, one  *)
(* companion instance claims its manifest and acknowledges it, while the   *)
(* project is edited and deleted.  Every replica keeps its own launches in *)
(* memory, under one lock; a request reads the clock before it takes it.   *)
(***************************************************************************)
EXTENDS Integers, FiniteSets

CONSTANTS
  Replicas,    \* replicas of the API, each with launches of its own
  Launches,    \* launch ids: one for every click in the browser
  Creators,    \* create requests
  Companions,  \* companion instances: each has a new id and claims one launch
  ActiveTTL,   \* ACTIVE_TTL_SECONDS
  Retries,     \* delays of CalculatorLaunchClient.ClaimAsync
  Faults,      \* what may go wrong, a subset of FaultKinds
  MaxClock,    \* bound: the last instant of the model
  MaxVersion,  \* bound: the last etag of the project
  NoLaunch, NoCompanion, NoRequest

FaultKinds == {"lost", "resent", "restart"}

\* CONSUMED_TTL_SECONDS is 144 times ActiveTTL: past the bound of the model
ConsumedTTL == MaxClock + 1

Times == Nat

\* CalculatorLaunchDocument; etag and generatedAt bind it to its manifest
LaunchDocument ==
  [status : {"ready", "claimed", "consumed"}, etag : Nat, generatedAt : Times,
   companion : Companions \cup {NoCompanion}, expiresAt : Times, version : 1..3]

LaunchAssumption ==
  /\ ActiveTTL \in Nat \ {0} /\ Retries \in Nat
  /\ MaxClock \in Nat /\ MaxVersion \in Nat \ {0}
  /\ Faults \subseteq FaultKinds
  /\ NoLaunch \notin LaunchDocument
  /\ NoCompanion \notin Companions

VARIABLES
  clock,
  project,    \* the etag of the saved project, 0 once it is deleted
  deleting,   \* its launches are purged and the project is about to be deleted
  launches,   \* replica -> launch id -> document or NoLaunch
  restarted,  \* history: the replicas that have lost their launches
  creator,    \* where each create request is
  asked,      \* what it asks for: launch, replica, project etag, since when; or NoRequest
  companion,  \* where each companion instance is
  claim       \* its launch, replica, etag, attempts, since when it asks; or NoRequest

vars == <<clock, project, deleting, launches, restarted, creator, asked, companion, claim>>

Init ==
  /\ clock = 0
  /\ project = 1
  /\ deleting = FALSE
  /\ launches = [r \in Replicas |-> [l \in Launches |-> NoLaunch]]
  /\ restarted = {}
  /\ creator = [c \in Creators |-> "idle"]
  /\ asked = [c \in Creators |-> NoRequest]
  /\ companion = [i \in Companions |-> "idle"]
  /\ claim = [i \in Companions |-> NoRequest]

-----------------------------------------------------------------------------
(* The repository.                                                         *)

Expired(d, now) == d.expiresAt <= now

\* seeded fault: a launch counts once it is claimed
ClaimedOnly(d, now) == d # NoLaunch /\ d.status = "claimed" /\ ~Expired(d, now)

Active(d, now) ==
  d # NoLaunch /\ d.status \in {"ready", "claimed"} /\ ~Expired(d, now)

Stored(r, l, d) == launches' = [launches EXCEPT ![r][l] = d]

SameBinding(d, etag, generatedAt) ==
  d.status # "consumed" /\ d.etag = etag /\ d.generatedAt = generatedAt

Ready(etag, generatedAt, now) ==
  [status |-> "ready", etag |-> etag, generatedAt |-> generatedAt,
   companion |-> NoCompanion, expiresAt |-> now + ActiveTTL, version |-> 1]

Claimed(d, i, now) ==
  [status |-> "claimed", etag |-> d.etag, generatedAt |-> d.generatedAt,
   companion |-> i, expiresAt |-> now + ActiveTTL, version |-> d.version + 1]

\* the manifest and the binding are erased, the claimant stays
Consumed(d, now) ==
  [status |-> "consumed", etag |-> 0, generatedAt |-> 0,
   companion |-> d.companion, expiresAt |-> now + ConsumedTTL, version |-> d.version + 1]

-----------------------------------------------------------------------------
(* The browser: POST .../calculator-launches.                              *)

Answer(c, answer) == creator' = [creator EXCEPT ![c] = answer]

\* the project is read with the etag the browser knows
LoadProject(c) ==
  /\ creator[c] = "idle"
  /\ \E ifMatch \in 1..MaxVersion :
       \/ project = 0 /\ Answer(c, "not_found") /\ asked' = asked
       \/ project \notin {0, ifMatch} /\ Answer(c, "stale") /\ asked' = asked
       \/ /\ project = ifMatch
          /\ Answer(c, "insert")
          /\ \E r \in Replicas, l \in Launches :
               asked' = [asked EXCEPT ![c] =
                 [launch |-> l, replica |-> r, etag |-> ifMatch, since |-> clock]]
  /\ UNCHANGED <<clock, project, deleting, launches, restarted, companion, claim>>

\* the manifest is generated and the clock read, then the launches are locked
Insert(c) ==
  LET r == asked[c].replica
      l == asked[c].launch
      existing == launches[r][l]
  IN
  /\ creator[c] = "insert"
  /\ \E generatedAt \in asked[c].since..clock : \E now \in generatedAt..clock :
       \/ /\ existing # NoLaunch
          /\ IF SameBinding(existing, asked[c].etag, generatedAt) /\ existing.status = "ready"
               THEN Answer(c, IF Expired(existing, now) THEN "expired" ELSE "ready")
               ELSE Answer(c, "conflict")
          /\ launches' = launches
       \/ /\ existing = NoLaunch
          /\ \E other \in Launches : Active(launches[r][other], now)
          /\ Answer(c, "conflict")
          /\ launches' = launches
       \/ /\ existing = NoLaunch
          /\ \A other \in Launches : ~Active(launches[r][other], now)
          /\ Answer(c, "ready")
          /\ Stored(r, l, Ready(asked[c].etag, generatedAt, now))
  /\ asked' = [asked EXCEPT ![c] = NoRequest]
  /\ UNCHANGED <<clock, project, deleting, restarted, companion, claim>>

-----------------------------------------------------------------------------
(* A companion instance.                                                   *)

Goto(i, place) == companion' = [companion EXCEPT ![i] = place]

Ask(i, l, r, etag, attempts) ==
  claim' = [claim EXCEPT ![i] =
    [launch |-> l, replica |-> r, etag |-> etag, attempts |-> attempts, since |-> clock]]

Forget(i) == claim' = [claim EXCEPT ![i] = NoRequest]

\* the activation may come before the launch is created
Activate(i) ==
  /\ companion[i] = "idle"
  /\ \E l \in Launches, r \in Replicas : Ask(i, l, r, 0, 0)
  /\ Goto(i, "claim")
  /\ UNCHANGED <<clock, project, deleting, launches, restarted, creator, asked>>

\* seeded fault: a claim counts again when its claimant repeats it
ClaimAgain(i, d, now) ==
  IF d # NoLaunch /\ ~Expired(d, now) /\ d.companion \in {i, NoCompanion} /\ d.version < 3
    THEN <<Claimed(d, i, now), "claimed">>
    ELSE <<d, "refused">>

\* what claim does to the document of a launch: the document and the answer
ClaimOutcome(i, d, now) ==
  CASE d = NoLaunch -> <<d, "not_found">>
    [] d # NoLaunch /\ Expired(d, now) -> <<d, "refused">>
    [] d # NoLaunch /\ ~Expired(d, now) /\ d.status = "ready" -> <<Claimed(d, i, now), "claimed">>
    [] d # NoLaunch /\ ~Expired(d, now) /\ d.status # "ready" ->
         <<d, IF d.status = "claimed" /\ d.companion = i THEN "claimed" ELSE "refused">>

\* only 404 is tried again, and at whichever replica comes next
Claim(i) ==
  LET r == claim[i].replica
      l == claim[i].launch
  IN
  /\ companion[i] = "claim"
  /\ \E now \in claim[i].since..clock :
       LET outcome == ClaimOutcome(i, launches[r][l], now) IN
       /\ Stored(r, l, outcome[1])
       /\ \/ /\ outcome[2] = "claimed"
             /\ Goto(i, "acknowledge")
             /\ \E next \in Replicas : Ask(i, l, next, outcome[1].version, claim[i].attempts)
          \/ /\ outcome[2] = "not_found" /\ claim[i].attempts < Retries
             /\ Goto(i, "claim")
             /\ \E next \in Replicas : Ask(i, l, next, 0, claim[i].attempts + 1)
          \/ /\ outcome[2] = "not_found" /\ claim[i].attempts = Retries
             /\ Goto(i, "not_found")
             /\ Forget(i)
          \/ /\ outcome[2] = "refused"
             /\ Goto(i, "refused")
             /\ Forget(i)
  /\ UNCHANGED <<clock, project, deleting, restarted, creator, asked>>

\* what acknowledge does: the claimant of a consumed launch is answered first
AckOutcome(i, d, now, ifMatch) ==
  LET claimant == d.companion = i IN
  CASE d = NoLaunch -> <<d, "refused">>
    [] d # NoLaunch /\ d.status = "consumed" /\ claimant -> <<d, "done">>
    [] d # NoLaunch /\ d.status = "claimed" /\ claimant /\ ~Expired(d, now) ->
         IF d.version = ifMatch THEN <<Consumed(d, now), "done">> ELSE <<d, "stale">>
    [] OTHER -> <<d, "refused">>

Acknowledge(i) ==
  LET r == claim[i].replica
      l == claim[i].launch
  IN
  /\ companion[i] = "acknowledge"
  /\ \E now \in claim[i].since..clock :
       LET outcome == AckOutcome(i, launches[r][l], now, claim[i].etag) IN
       /\ Stored(r, l, outcome[1])
       /\ Goto(i, outcome[2])
       /\ IF outcome[2] = "done" THEN claim' = claim ELSE Forget(i)
  /\ UNCHANGED <<clock, project, deleting, restarted, creator, asked>>

-----------------------------------------------------------------------------
(* The project: edited, or deleted after its launches are purged.          *)

Edit ==
  /\ project \in 1..(MaxVersion - 1)
  /\ project' = project + 1
  /\ UNCHANGED <<clock, deleting, launches, restarted, creator, asked, companion, claim>>

\* seeded fault: consumed launches are purged too
PurgedAll(d) == NoLaunch

\* a consumed launch has no binding to the project any more
Purged(d) == IF d # NoLaunch /\ d.status = "consumed" THEN d ELSE NoLaunch

PurgeProject ==
  /\ project # 0 /\ ~deleting
  /\ deleting' = TRUE
  /\ \E r \in Replicas :
       launches' = [launches EXCEPT ![r] = [l \in Launches |-> Purged(launches[r][l])]]
  /\ UNCHANGED <<clock, project, restarted, creator, asked, companion, claim>>

\* the deletion may fail, which leaves the project
DeleteProject ==
  /\ deleting
  /\ deleting' = FALSE
  /\ project' \in {0, project}
  /\ UNCHANGED <<clock, launches, restarted, creator, asked, companion, claim>>

-----------------------------------------------------------------------------
(* Time, and what may go wrong.                                            *)

Tick ==
  /\ clock < MaxClock
  /\ clock' = clock + 1
  /\ UNCHANGED <<project, deleting, launches, restarted, creator, asked, companion, claim>>

\* a claim is applied and its answer lost: the companion gives up
ClaimLost(i) ==
  /\ "lost" \in Faults
  /\ companion[i] = "claim"
  /\ \E now \in claim[i].since..clock :
       Stored(claim[i].replica, claim[i].launch,
              ClaimOutcome(i, launches[claim[i].replica][claim[i].launch], now)[1])
  /\ Goto(i, "refused")
  /\ Forget(i)
  /\ UNCHANGED <<clock, project, deleting, restarted, creator, asked>>

\* a claim or an acknowledgement is applied and sent again; a copy of the claim
\* may come even after its answer
ClaimResent(i) ==
  /\ "resent" \in Faults
  /\ companion[i] \in {"claim", "acknowledge", "done"}
  /\ \E now \in claim[i].since..clock :
       Stored(claim[i].replica, claim[i].launch,
              ClaimOutcome(i, launches[claim[i].replica][claim[i].launch], now)[1])
  /\ UNCHANGED <<clock, project, deleting, restarted, creator, asked, companion, claim>>

AcknowledgeResent(i) ==
  /\ "resent" \in Faults
  /\ companion[i] = "acknowledge"
  /\ \E now \in claim[i].since..clock :
       Stored(claim[i].replica, claim[i].launch,
              AckOutcome(i, launches[claim[i].replica][claim[i].launch], now, claim[i].etag)[1])
  /\ UNCHANGED <<clock, project, deleting, restarted, creator, asked, companion, claim>>

\* the launches of a replica are nowhere else
Restart ==
  /\ "restart" \in Faults
  /\ \E r \in Replicas :
       /\ launches' = [launches EXCEPT ![r] = [l \in Launches |-> NoLaunch]]
       /\ restarted' = restarted \cup {r}
  /\ UNCHANGED <<clock, project, deleting, creator, asked, companion, claim>>

-----------------------------------------------------------------------------

CreatorStep(c) == LoadProject(c) \/ Insert(c)

CompanionStep(i) ==
  \/ Activate(i) \/ Claim(i) \/ Acknowledge(i)
  \/ ClaimLost(i) \/ ClaimResent(i) \/ AcknowledgeResent(i)

Next ==
  \/ Tick \/ Edit \/ PurgeProject \/ DeleteProject \/ Restart
  \/ \E c \in Creators : CreatorStep(c)
  \/ \E i \in Companions : CompanionStep(i)

Spec == Init /\ [][Next]_vars

-----------------------------------------------------------------------------
(* Properties.                                                             *)

\* the fields of a document fit its status, as validate_document demands
WellFormed(d) ==
  /\ d \in LaunchDocument
  /\ d.status = "ready" <=> d.companion = NoCompanion
  /\ d.status = "consumed" <=> d.etag = 0

TypeOK ==
  /\ clock \in Times
  /\ project \in 0..MaxVersion
  /\ deleting \in BOOLEAN
  /\ restarted \subseteq Replicas
  /\ \A r \in Replicas, l \in Launches :
       launches[r][l] = NoLaunch \/ WellFormed(launches[r][l])
  /\ creator \in [Creators -> {"idle", "insert", "not_found", "stale", "conflict", "expired", "ready"}]
  /\ companion \in [Companions ->
       {"idle", "claim", "acknowledge", "not_found", "refused", "stale", "done"}]

Waits(d) == d # NoLaunch /\ d.status = "ready" /\ d.expiresAt > clock

\* At most one launch of the owner waits to be claimed, although creates and
\* claims read the clock before they wait for the lock.
OneReady ==
  \A r \in Replicas : \A l, m \in Launches :
    Waits(launches[r][l]) /\ Waits(launches[r][m]) => l = m

\* A launch that is kept only moves forward: its claimant never changes, and what
\* it hands over is what it was created with until the acknowledgement erases it.
MovesForward ==
  [][\A r \in Replicas, l \in Launches :
       LET d == launches[r][l]
           e == launches'[r][l]
       IN (d # NoLaunch /\ e # NoLaunch /\ d # e) =>
            /\ d.status # "consumed"
            /\ d.status = "ready" => e.status = "claimed"
            /\ d.status = "claimed" => e.status = "consumed" /\ e.companion = d.companion
            /\ e.status = "claimed" => e.etag = d.etag /\ e.generatedAt = d.generatedAt
    ]_vars

\* The etag a claimant was given is good until its launch is gone or expired,
\* however often its claim is repeated.
ClaimantsEtagHolds == \A i \in Companions : companion[i] # "stale"

\* Once a companion's acknowledgement is answered, the replica that answered it
\* holds the manifest no more, and no retried create or claim brings it back
\* until that replica restarts.
AcknowledgedIsErased ==
  \A i \in Companions : companion[i] = "done" =>
    LET d == launches[claim[i].replica][claim[i].launch] IN
      claim[i].replica \notin restarted /\ d # NoLaunch /\ d.companion = i => d.status = "consumed"
=============================================================================
