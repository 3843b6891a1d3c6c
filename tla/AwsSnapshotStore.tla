-------------------------- MODULE AwsSnapshotStore --------------------------
(***************************************************************************)
(* The AWS prices of one currency and region in Cosmos DB                  *)
(* (persistence/cosmos.rs): one state document that names, by the hash of  *)
(* its content, one component document per service.  A put writes the      *)
(* components, publishes the state, reads back what is current and deletes *)
(* the components that state superseded; a read follows the state to its   *)
(* components.  No step of either is atomic with the next, and the store   *)
(* has no transaction.  The state document is never deleted, so the branch *)
(* of put_document that creates it again is left out.                      *)
(***************************************************************************)
EXTENDS Naturals, Sequences, FiniteSets

CONSTANTS
  Writers, Readers,
  Services,        \* the services in the order of their deletion: ec2, rds, ebs
  Hashes,          \* content hashes of a component
  Attempts,        \* SNAPSHOT_WRITE_ATTEMPTS
  MaxTime,         \* bound: the latest retrieved_at
  NoState

ServiceNames == {Services[i] : i \in DOMAIN Services}

Contents == [ServiceNames -> Hashes]

\* the state document: the hash of every component, retrieved_at, and its etag
StateDocument == [parts : Contents, at : Nat, etag : Nat]

ASSUME StoreAssumption ==
  /\ Attempts \in Nat \ {0}
  /\ MaxTime \in Nat
  /\ NoState \notin StateDocument
  /\ Services \in Seq(STRING)
  /\ NoState \notin [parts : Contents, at : Nat]

VARIABLES
  components,  \* the component documents, as <<service, hash>>
  state,       \* the state document, or NoState
  pc,          \* where each put is
  incoming,    \* the snapshot it is given: parts and retrieved_at
  previous,    \* the state it read first
  stage,       \* for every service, how far its component is
  seen,        \* the state document it read last
  attempt,     \* conditional replacements of the state that it lost
  index,       \* the next service whose old component it deletes
  overlapped,  \* history: a put has begun while another was running
  rpc,         \* where each read is
  rseen,       \* the state it read
  rtodo        \* the services whose component it has not read

putVars == <<pc, incoming, previous, stage, seen, attempt, index, overlapped>>
readVars == <<rpc, rseen, rtodo>>
vars == <<components, state, putVars, readVars>>

Running == {"previous", "components", "create", "read", "replace", "current", "load", "delete"}

Init ==
  /\ components = {}
  /\ state = NoState
  /\ pc = [w \in Writers |-> "idle"]
  /\ incoming = [w \in Writers |-> NoState]
  /\ previous = [w \in Writers |-> NoState]
  /\ stage = [w \in Writers |-> [s \in ServiceNames |-> "create"]]
  /\ seen = [w \in Writers |-> NoState]
  /\ attempt = [w \in Writers |-> 0]
  /\ index = [w \in Writers |-> 1]
  /\ overlapped = FALSE
  /\ rpc = [r \in Readers |-> "idle"]
  /\ rseen = [r \in Readers |-> NoState]
  /\ rtodo = [r \in Readers |-> {}]

-----------------------------------------------------------------------------

Goto(w, place) == pc' = [pc EXCEPT ![w] = place]

Component(parts, s) == <<s, parts[s]>>

Parts(d) == {Component(d.parts, s) : s \in ServiceNames}

\* retrieved_later
Later(new, old) == new.at > old.at

\* same_aws_state_version
SameVersion(d, w) == d.parts = incoming[w].parts

NextEtag == IF state = NoState THEN 1 ELSE state.etag + 1

Publish(w) ==
  state' = [parts |-> incoming[w].parts, at |-> incoming[w].at, etag |-> NextEtag]

-----------------------------------------------------------------------------
(* put_aws                                                                 *)

Begin(w) ==
  /\ pc[w] = "idle"
  /\ overlapped' = (overlapped \/ \E v \in Writers : pc[v] \in Running)
  /\ \E parts \in Contents, at \in 1..MaxTime :
       incoming' = [incoming EXCEPT ![w] = [parts |-> parts, at |-> at]]
  /\ Goto(w, "previous")
  /\ UNCHANGED <<components, state, previous, stage, seen, attempt, index, readVars>>

ReadPrevious(w) ==
  /\ pc[w] = "previous"
  /\ previous' = [previous EXCEPT ![w] = state]
  /\ Goto(w, "components")
  /\ UNCHANGED <<components, state, incoming, stage, seen, attempt, index, overlapped, readVars>>

\* put_aws_component: created, or found to exist already
CreateComponent(w, s) ==
  /\ pc[w] = "components"
  /\ stage[w][s] = "create"
  /\ LET c == Component(incoming[w].parts, s) IN
       /\ components' = components \cup {c}
       /\ stage' = [stage EXCEPT ![w][s] = IF c \in components THEN "confirm" ELSE "done"]
  /\ UNCHANGED <<state, pc, incoming, previous, seen, attempt, index, overlapped, readVars>>

\* the existing component is read; one that is gone by now fails the put
ConfirmComponent(w, s) ==
  /\ pc[w] = "components"
  /\ stage[w][s] = "confirm"
  /\ \/ /\ Component(incoming[w].parts, s) \in components
        /\ stage' = [stage EXCEPT ![w][s] = "done"]
        /\ pc' = pc
     \/ /\ Component(incoming[w].parts, s) \notin components
        /\ stage' = stage
        /\ Goto(w, "failed")
  /\ UNCHANGED <<components, state, incoming, previous, seen, attempt, index, overlapped, readVars>>

\* seeded fault: the state is published without waiting for the components
PublishFirst(w) ==
  /\ pc[w] = "components"
  /\ pc' = [pc EXCEPT ![w] = "create"]
  /\ stage' = [stage EXCEPT ![w] = [s \in ServiceNames |-> "done"]]
  /\ UNCHANGED <<components, state, incoming, previous, seen, attempt, index, overlapped, readVars>>

\* try_join! of the three components
ComponentsDone(w) ==
  /\ pc[w] = "components"
  /\ \A s \in ServiceNames : stage[w][s] = "done"
  /\ Goto(w, "create")
  /\ UNCHANGED <<components, state, incoming, previous, stage, seen, attempt, index, overlapped, readVars>>

\* put_document: create, otherwise read and replace an earlier retrieval
CreateState(w) ==
  /\ pc[w] = "create"
  /\ \/ state = NoState /\ Publish(w) /\ Goto(w, "current")
     \/ state # NoState /\ state' = state /\ Goto(w, "read")
  /\ UNCHANGED <<components, incoming, previous, stage, seen, attempt, index, overlapped, readVars>>

ReadState(w) ==
  /\ pc[w] = "read"
  /\ seen' = [seen EXCEPT ![w] = state]
  /\ Goto(w, IF Later(incoming[w], state) THEN "replace" ELSE "current")
  /\ UNCHANGED <<components, state, incoming, previous, stage, attempt, index, overlapped, readVars>>

\* seeded fault: the etag is not sent with the replacement
ReplaceUnconditionally(w) ==
  /\ pc[w] = "replace"
  /\ Publish(w)
  /\ Goto(w, "current")
  /\ UNCHANGED <<components, incoming, previous, stage, seen, attempt, index, overlapped, readVars>>

ReplaceState(w) ==
  /\ pc[w] = "replace"
  /\ \/ /\ state.etag = seen[w].etag
        /\ Publish(w)
        /\ Goto(w, "current")
        /\ attempt' = attempt
     \/ /\ state.etag # seen[w].etag
        /\ state' = state
        /\ attempt' = [attempt EXCEPT ![w] = @ + 1]
        /\ Goto(w, IF attempt[w] + 1 < Attempts THEN "read" ELSE "failed")
  /\ UNCHANGED <<components, incoming, previous, stage, seen, index, overlapped, readVars>>

\* seeded fault: the put answers with the state it replaced
AnswerReplaced(w) ==
  /\ pc[w] = "current"
  /\ seen' = [seen EXCEPT ![w] = IF @ = NoState THEN state ELSE @]
  /\ pc' = [pc EXCEPT ![w] = "load"]
  /\ UNCHANGED <<components, state, incoming, previous, stage, attempt, index, overlapped, readVars>>

\* what is current now is what the put answers with
ReadCurrent(w) ==
  /\ pc[w] = "current"
  /\ seen' = [seen EXCEPT ![w] = state]
  /\ Goto(w, "load")
  /\ UNCHANGED <<components, state, incoming, previous, stage, attempt, index, overlapped, readVars>>

\* load_aws_state: one component is read
LoadComponent(w, s) ==
  /\ pc[w] = "load"
  /\ stage[w][s] = "done"
  /\ \/ /\ Component(seen[w].parts, s) \in components
        /\ stage' = [stage EXCEPT ![w][s] = "loaded"]
        /\ pc' = pc
     \/ /\ Component(seen[w].parts, s) \notin components
        /\ stage' = stage
        /\ Goto(w, "failed")
  /\ UNCHANGED <<components, state, incoming, previous, seen, attempt, index, overlapped, readVars>>

\* the put is answered, after a clean-up when its version is still current
Loaded(w) ==
  /\ pc[w] = "load"
  /\ \A s \in ServiceNames : stage[w][s] = "loaded"
  /\ Goto(w, IF SameVersion(seen[w], w) /\ previous[w] # NoState THEN "delete" ELSE "done")
  /\ UNCHANGED <<components, state, incoming, previous, stage, seen, attempt, index, overlapped, readVars>>

\* seeded fault: the old component is deleted without comparing the hashes
DeleteUnchanged(w) ==
  /\ pc[w] = "delete"
  /\ index[w] <= Len(Services)
  /\ components' = components \ {Component(previous[w].parts, Services[index[w]])}
  /\ index' = [index EXCEPT ![w] = @ + 1]
  /\ UNCHANGED <<state, pc, incoming, previous, stage, seen, attempt, overlapped, readVars>>

\* delete_superseded_aws_components: the services in order; errors are ignored
DeleteComponent(w) ==
  /\ pc[w] = "delete"
  /\ index[w] <= Len(Services)
  /\ LET s == Services[index[w]] IN
       \/ /\ previous[w].parts[s] # seen[w].parts[s]
          /\ components' = components \ {Component(previous[w].parts, s)}
       \/ components' = components    \* the same hash, or the delete failed
  /\ index' = [index EXCEPT ![w] = @ + 1]
  /\ UNCHANGED <<state, pc, incoming, previous, stage, seen, attempt, overlapped, readVars>>

Deleted(w) ==
  /\ pc[w] = "delete"
  /\ index[w] > Len(Services)
  /\ Goto(w, "done")
  /\ UNCHANGED <<components, state, incoming, previous, stage, seen, attempt, index, overlapped, readVars>>

\* the store fails, the task is cancelled or the replica stops
Stop(w) ==
  /\ pc[w] \in Running
  /\ Goto(w, "failed")
  /\ UNCHANGED <<components, state, incoming, previous, stage, seen, attempt, index, overlapped, readVars>>

-----------------------------------------------------------------------------
(* find_aws, get_aws and list_latest_aws                                   *)

ReadBegin(r) ==
  /\ rpc[r] = "idle"
  /\ rseen' = [rseen EXCEPT ![r] = state]
  /\ rtodo' = [rtodo EXCEPT ![r] = ServiceNames]
  /\ rpc' = [rpc EXCEPT ![r] = IF state = NoState THEN "none" ELSE "reading"]
  /\ UNCHANGED <<components, state, putVars>>

ReadComponent(r, s) ==
  /\ rpc[r] = "reading"
  /\ s \in rtodo[r]
  /\ \/ /\ Component(rseen[r].parts, s) \in components
        /\ rtodo' = [rtodo EXCEPT ![r] = @ \ {s}]
        /\ rpc' = [rpc EXCEPT ![r] = IF rtodo[r] = {s} THEN "found" ELSE "reading"]
     \/ /\ Component(rseen[r].parts, s) \notin components
        /\ rtodo' = rtodo
        /\ rpc' = [rpc EXCEPT ![r] = "invalid"]
  /\ UNCHANGED <<components, state, rseen, putVars>>

-----------------------------------------------------------------------------

PutStep(w) ==
  \/ Begin(w) \/ ReadPrevious(w) \/ ComponentsDone(w)
  \/ \E s \in ServiceNames : CreateComponent(w, s) \/ ConfirmComponent(w, s) \/ LoadComponent(w, s)
  \/ CreateState(w) \/ ReadState(w) \/ ReplaceState(w) \/ ReadCurrent(w)
  \/ Loaded(w) \/ DeleteComponent(w) \/ Deleted(w) \/ Stop(w)

ReadStep(r) == ReadBegin(r) \/ \E s \in ServiceNames : ReadComponent(r, s)

Next ==
  \/ \E w \in Writers : PutStep(w)
  \/ \E r \in Readers : ReadStep(r)

Spec == Init /\ [][Next]_vars

-----------------------------------------------------------------------------
(* Properties.                                                             *)

TypeOK ==
  /\ components \subseteq ServiceNames \X Hashes
  /\ state \in StateDocument \cup {NoState}
  /\ pc \in [Writers -> Running \cup {"idle", "done", "failed"}]
  /\ incoming \in [Writers -> [parts : Contents, at : Nat] \cup {NoState}]
  /\ previous \in [Writers -> StateDocument \cup {NoState}]
  /\ stage \in [Writers -> [ServiceNames -> {"create", "confirm", "done", "loaded"}]]
  /\ seen \in [Writers -> StateDocument \cup {NoState}]
  /\ attempt \in [Writers -> 0..Attempts]
  /\ index \in [Writers -> 1..Len(Services) + 1]
  /\ overlapped \in BOOLEAN
  /\ rpc \in [Readers -> {"idle", "reading", "none", "found", "invalid"}]
  /\ rseen \in [Readers -> StateDocument \cup {NoState}]
  /\ rtodo \in [Readers -> SUBSET ServiceNames]

\* The state in the store can be reconstructed: every component it names is
\* there (put_aws writes components before the state and deletes after it).
StateIntact == state # NoState => Parts(state) \subseteq components

\* The same while puts run one after another, wherever any of them stops: what a
\* put deletes belongs to the state that its own has replaced.
SerialStateIntact == ~overlapped => StateIntact

\* While puts run one after another, a read that finds a component missing had
\* read a state that has been superseded: a new read succeeds.
OnlySupersededUnreadable ==
  ~overlapped => \A r \in Readers : rpc[r] = "invalid" => state.etag > rseen[r].etag

\* Prices never go back: the state is replaced by a later retrieval only,
\* whatever order the puts come and fail in (put_document, retrieved_later).
StateAdvances ==
  [][state # NoState /\ state' # state => state'.at > state.at]_vars

\* A put answers with prices retrieved no earlier than those it was given: its
\* own, or what a later retrieval put in their place (put_aws's answer).
PutAnswersCurrent ==
  \A w \in Writers : pc[w] = "done" => seen[w].at >= incoming[w].at
=============================================================================
