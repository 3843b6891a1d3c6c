----------------------- MODULE AwsSnapshotStoreProofs -----------------------
(***************************************************************************)
(* Proofs about AwsSnapshotStore for any writers, readers, services,       *)
(* hashes and attempts: the state only advances and a put never answers    *)
(* with older prices, whatever runs at once; and while puts run one at a   *)
(* time the state in the store always has its components.                  *)
(***************************************************************************)
EXTENDS AwsSnapshotStore, TLAPS

Record == [parts : Contents, at : Nat]

\* A put that has begun has a snapshot to store, and attempts left while it runs.
Given ==
  \A w \in Writers :
    /\ pc[w] # "idle" => incoming[w] \in Record
    /\ pc[w] \in Running \cup {"idle"} => attempt[w] < Attempts

\* A put works with states that it read.
Known ==
  \A w \in Writers :
    /\ pc[w] \in {"replace", "load", "delete", "done"} => seen[w] \in StateDocument
    /\ pc[w] = "delete" => previous[w] \in StateDocument
    /\ pc[w] \in {"read", "replace", "current", "load", "delete", "done"} => state # NoState

-----------------------------------------------------------------------------
(* Type correctness.                                                       *)

LEMMA PublishedType ==
  ASSUME TypeOK, NEW w \in Writers, incoming[w] \in Record, Publish(w)
  PROVE  state' \in StateDocument
<1>1. NextEtag \in Nat
  BY DEF TypeOK, NextEtag, StateDocument
<1> QED
  BY <1>1 DEF Publish, StateDocument, Record

LEMMA StageType ==
  ASSUME TypeOK, NEW w \in Writers, NEW s \in ServiceNames,
         NEW at \in {"create", "confirm", "done", "loaded"}
  PROVE  [stage EXCEPT ![w][s] = at] \in
           [Writers -> [ServiceNames -> {"create", "confirm", "done", "loaded"}]]
<1>1. [stage[w] EXCEPT ![s] = at] \in [ServiceNames -> {"create", "confirm", "done", "loaded"}]
  BY DEF TypeOK
<1> QED
  BY <1>1 DEF TypeOK

LEMMA GotoType ==
  ASSUME TypeOK, NEW w \in Writers, NEW place \in Running \cup {"idle", "done", "failed"},
         Goto(w, place)
  PROVE  pc' \in [Writers -> Running \cup {"idle", "done", "failed"}]
BY DEF TypeOK, Goto

LEMMA TypeNext == TypeOK /\ Given /\ [Next]_vars => TypeOK'
<1> SUFFICES ASSUME TypeOK, Given, [Next]_vars PROVE TypeOK'
  OBVIOUS
<1> USE DEF Running
<1>1. ASSUME NEW w \in Writers, Begin(w) PROVE TypeOK'
  <2>1. incoming' \in [Writers -> Record \cup {NoState}]
    BY <1>1 DEF Begin, TypeOK, Record
  <2> QED
    BY <2>1, <1>1 DEF Begin, Goto, TypeOK, Record, readVars
<1>2. ASSUME NEW w \in Writers, ReadPrevious(w) PROVE TypeOK'
  BY <1>2 DEF ReadPrevious, Goto, TypeOK, readVars
<1>3. ASSUME NEW w \in Writers, ComponentsDone(w) PROVE TypeOK'
  BY <1>3 DEF ComponentsDone, Goto, TypeOK, readVars
<1>4. ASSUME NEW w \in Writers, NEW s \in ServiceNames, CreateComponent(w, s) PROVE TypeOK'
  <2>1. Component(incoming[w].parts, s) \in ServiceNames \X Hashes
    BY <1>4 DEF CreateComponent, Component, Given, Record, Contents
  <2>2. stage' \in [Writers -> [ServiceNames -> {"create", "confirm", "done", "loaded"}]]
    BY <1>4, StageType DEF CreateComponent
  <2> QED
    BY <2>1, <2>2, <1>4 DEF CreateComponent, TypeOK, readVars
<1>5. ASSUME NEW w \in Writers, NEW s \in ServiceNames, ConfirmComponent(w, s) PROVE TypeOK'
  <2>0. stage \in [Writers -> [ServiceNames -> {"create", "confirm", "done", "loaded"}]]
    BY DEF TypeOK
  <2>1. stage' \in [Writers -> [ServiceNames -> {"create", "confirm", "done", "loaded"}]]
    BY <1>5, <2>0, StageType DEF ConfirmComponent
  <2>2. pc' \in [Writers -> Running \cup {"idle", "done", "failed"}]
    BY <1>5 DEF ConfirmComponent, TypeOK, Goto
  <2> QED
    BY <2>1, <2>2, <1>5 DEF ConfirmComponent, TypeOK, readVars
<1>6. ASSUME NEW w \in Writers, NEW s \in ServiceNames, LoadComponent(w, s) PROVE TypeOK'
  <2>0. stage \in [Writers -> [ServiceNames -> {"create", "confirm", "done", "loaded"}]]
    BY DEF TypeOK
  <2>1. stage' \in [Writers -> [ServiceNames -> {"create", "confirm", "done", "loaded"}]]
    BY <1>6, <2>0, StageType DEF LoadComponent
  <2>2. pc' \in [Writers -> Running \cup {"idle", "done", "failed"}]
    BY <1>6 DEF LoadComponent, TypeOK, Goto
  <2> QED
    BY <2>1, <2>2, <1>6 DEF LoadComponent, TypeOK, readVars
<1>7. ASSUME NEW w \in Writers, CreateState(w) PROVE TypeOK'
  <2>1. state' \in StateDocument
    BY <1>7, PublishedType DEF CreateState, Given, TypeOK
  <2> QED
    BY <2>1, <1>7 DEF CreateState, Goto, TypeOK, readVars
<1>8. ASSUME NEW w \in Writers, ReadState(w) PROVE TypeOK'
  BY <1>8 DEF ReadState, Goto, TypeOK, readVars
<1>9. ASSUME NEW w \in Writers, ReplaceState(w) PROVE TypeOK'
  <2>1. state' \in StateDocument \cup {NoState}
    BY <1>9, PublishedType DEF ReplaceState, Given, TypeOK
  <2>0. attempt \in [Writers -> 0..Attempts] /\ attempt[w] < Attempts /\ Attempts \in Nat
    BY <1>9, StoreAssumption DEF ReplaceState, Given, TypeOK
  <2>4. attempt[w] + 1 \in 0..Attempts
    BY <2>0
  <2>2. attempt' \in [Writers -> 0..Attempts]
    BY <1>9, <2>0, <2>4 DEF ReplaceState
  <2>3. pc' \in [Writers -> Running \cup {"idle", "done", "failed"}]
    BY <1>9 DEF ReplaceState, TypeOK, Goto
  <2> QED
    BY <2>1, <2>2, <2>3, <1>9 DEF ReplaceState, TypeOK, readVars
<1>10. ASSUME NEW w \in Writers, ReadCurrent(w) PROVE TypeOK'
  BY <1>10 DEF ReadCurrent, Goto, TypeOK, readVars
<1>11. ASSUME NEW w \in Writers, Loaded(w) PROVE TypeOK'
  BY <1>11 DEF Loaded, Goto, TypeOK, readVars
<1>12. ASSUME NEW w \in Writers, DeleteComponent(w) PROVE TypeOK'
  BY <1>12 DEF DeleteComponent, TypeOK, readVars
<1>13. ASSUME NEW w \in Writers, Deleted(w) PROVE TypeOK'
  BY <1>13 DEF Deleted, Goto, TypeOK, readVars
<1>14. ASSUME NEW w \in Writers, Stop(w) PROVE TypeOK'
  BY <1>14 DEF Stop, Goto, TypeOK, readVars
<1>15. ASSUME NEW r \in Readers, ReadBegin(r) PROVE TypeOK'
  BY <1>15 DEF ReadBegin, TypeOK, readVars, putVars
<1>16. ASSUME NEW r \in Readers, NEW s \in ServiceNames, ReadComponent(r, s) PROVE TypeOK'
  BY <1>16 DEF ReadComponent, TypeOK, readVars, putVars
<1>17. CASE UNCHANGED vars
  BY <1>17 DEF vars, putVars, readVars, TypeOK, readVars
<1> QED
  BY <1>1, <1>2, <1>3, <1>4, <1>5, <1>6, <1>7, <1>8, <1>9,
     <1>10, <1>11, <1>12, <1>13, <1>14, <1>15, <1>16, <1>17
     DEF Next, PutStep, ReadStep

LEMMA GivenNext == TypeOK /\ Given /\ [Next]_vars => Given'
<1> SUFFICES ASSUME TypeOK, Given, [Next]_vars PROVE Given'
  OBVIOUS
<1> USE DEF Running
<1>1. ASSUME NEW w \in Writers, Begin(w) PROVE Given'
  BY <1>1 DEF Begin, Goto, TypeOK, Given, Record
<1>2. ASSUME NEW w \in Writers, ReadPrevious(w) PROVE Given'
  BY <1>2 DEF ReadPrevious, Goto, TypeOK, Given
<1>3. ASSUME NEW w \in Writers, ComponentsDone(w) PROVE Given'
  BY <1>3 DEF ComponentsDone, Goto, TypeOK, Given
<1>4. ASSUME NEW w \in Writers, NEW s \in ServiceNames, CreateComponent(w, s) PROVE Given'
  BY <1>4 DEF CreateComponent, TypeOK, Given
<1>5. ASSUME NEW w \in Writers, NEW s \in ServiceNames, ConfirmComponent(w, s) PROVE Given'
  BY <1>5 DEF ConfirmComponent, Goto, TypeOK, Given
<1>6. ASSUME NEW w \in Writers, NEW s \in ServiceNames, LoadComponent(w, s) PROVE Given'
  BY <1>6 DEF LoadComponent, Goto, TypeOK, Given
<1>7. ASSUME NEW w \in Writers, CreateState(w) PROVE Given'
  BY <1>7 DEF CreateState, Goto, TypeOK, Given
<1>8. ASSUME NEW w \in Writers, ReadState(w) PROVE Given'
  BY <1>8 DEF ReadState, Goto, TypeOK, Given
<1>9. ASSUME NEW w \in Writers, ReplaceState(w) PROVE Given'
  BY <1>9, StoreAssumption DEF ReplaceState, Goto, TypeOK, Given
<1>10. ASSUME NEW w \in Writers, ReadCurrent(w) PROVE Given'
  BY <1>10 DEF ReadCurrent, Goto, TypeOK, Given
<1>11. ASSUME NEW w \in Writers, Loaded(w) PROVE Given'
  BY <1>11 DEF Loaded, Goto, TypeOK, Given
<1>12. ASSUME NEW w \in Writers, DeleteComponent(w) PROVE Given'
  BY <1>12 DEF DeleteComponent, TypeOK, Given
<1>13. ASSUME NEW w \in Writers, Deleted(w) PROVE Given'
  BY <1>13 DEF Deleted, Goto, TypeOK, Given
<1>14. ASSUME NEW w \in Writers, Stop(w) PROVE Given'
  BY <1>14 DEF Stop, Goto, TypeOK, Given
<1>15. ASSUME NEW r \in Readers, ReadBegin(r) PROVE Given'
  BY <1>15 DEF ReadBegin, TypeOK, Given, putVars
<1>16. ASSUME NEW r \in Readers, NEW s \in ServiceNames, ReadComponent(r, s) PROVE Given'
  BY <1>16 DEF ReadComponent, TypeOK, Given, putVars
<1>17. CASE UNCHANGED vars
  BY <1>17 DEF vars, putVars, readVars, TypeOK, Given
<1> QED
  BY <1>1, <1>2, <1>3, <1>4, <1>5, <1>6, <1>7, <1>8, <1>9,
     <1>10, <1>11, <1>12, <1>13, <1>14, <1>15, <1>16, <1>17
     DEF Next, PutStep, ReadStep

LEMMA KnownNext == TypeOK /\ Given /\ Known /\ TypeOK' /\ [Next]_vars => Known'
<1> SUFFICES ASSUME TypeOK, Given, Known, TypeOK', [Next]_vars PROVE Known'
  OBVIOUS
<1> USE DEF Running
<1>0. ASSUME NEW w \in Writers, Publish(w), pc[w] # "idle" PROVE state' # NoState
  BY <1>0, StoreAssumption, PublishedType DEF Given
<1>1. ASSUME NEW w \in Writers, Begin(w) PROVE Known'
  BY <1>1 DEF Begin, Goto, TypeOK, Known
<1>2. ASSUME NEW w \in Writers, ReadPrevious(w) PROVE Known'
  BY <1>2 DEF ReadPrevious, Goto, TypeOK, Known
<1>3. ASSUME NEW w \in Writers, ComponentsDone(w) PROVE Known'
  BY <1>3 DEF ComponentsDone, Goto, TypeOK, Known
<1>4. ASSUME NEW w \in Writers, NEW s \in ServiceNames, CreateComponent(w, s) PROVE Known'
  BY <1>4 DEF CreateComponent, TypeOK, Known
<1>5. ASSUME NEW w \in Writers, NEW s \in ServiceNames, ConfirmComponent(w, s) PROVE Known'
  BY <1>5 DEF ConfirmComponent, Goto, TypeOK, Known
<1>6. ASSUME NEW w \in Writers, NEW s \in ServiceNames, LoadComponent(w, s) PROVE Known'
  BY <1>6 DEF LoadComponent, Goto, TypeOK, Known
<1>7. ASSUME NEW w \in Writers, CreateState(w) PROVE Known'
  BY <1>7, <1>0 DEF CreateState, Goto, TypeOK, Known
<1>8. ASSUME NEW w \in Writers, ReadState(w) PROVE Known'
  BY <1>8 DEF ReadState, Goto, TypeOK, Known
<1>9. ASSUME NEW w \in Writers, ReplaceState(w) PROVE Known'
  BY <1>9, <1>0 DEF ReplaceState, Goto, TypeOK, Known
<1>10. ASSUME NEW w \in Writers, ReadCurrent(w) PROVE Known'
  BY <1>10 DEF ReadCurrent, Goto, TypeOK, Known
<1>11. ASSUME NEW w \in Writers, Loaded(w) PROVE Known'
  BY <1>11 DEF Loaded, Goto, TypeOK, Known
<1>12. ASSUME NEW w \in Writers, DeleteComponent(w) PROVE Known'
  BY <1>12 DEF DeleteComponent, TypeOK, Known
<1>13. ASSUME NEW w \in Writers, Deleted(w) PROVE Known'
  BY <1>13 DEF Deleted, Goto, TypeOK, Known
<1>14. ASSUME NEW w \in Writers, Stop(w) PROVE Known'
  BY <1>14 DEF Stop, Goto, TypeOK, Known
<1>15. ASSUME NEW r \in Readers, ReadBegin(r) PROVE Known'
  BY <1>15 DEF ReadBegin, TypeOK, Known, putVars
<1>16. ASSUME NEW r \in Readers, NEW s \in ServiceNames, ReadComponent(r, s) PROVE Known'
  BY <1>16 DEF ReadComponent, TypeOK, Known, putVars
<1>17. CASE UNCHANGED vars
  BY <1>17 DEF vars, putVars, readVars, TypeOK, Known
<1> QED
  BY <1>1, <1>2, <1>3, <1>4, <1>5, <1>6, <1>7, <1>8, <1>9,
     <1>10, <1>11, <1>12, <1>13, <1>14, <1>15, <1>16, <1>17
     DEF Next, PutStep, ReadStep

Inv == TypeOK /\ Given /\ Known

LEMMA InvInit == Init => Inv
<1> SUFFICES ASSUME Init PROVE Inv
  OBVIOUS
<1>1. overlapped \in BOOLEAN
  BY DEF Init
<1>2. TypeOK
  BY <1>1, StoreAssumption DEF Init, TypeOK, Running
<1>3. Given /\ Known
  BY StoreAssumption DEF Init, Given, Known, Running
<1> QED
  BY <1>2, <1>3 DEF Inv

LEMMA InvNext == Inv /\ [Next]_vars => Inv'
BY TypeNext, GivenNext, KnownNext DEF Inv

\* The state of the store and of every put and read has its type, and a put
\* that replaces, loads or deletes works with states it has read (put_aws).
THEOREM TypeCorrect == Spec => []TypeOK
<1>1. Inv => TypeOK
  BY DEF Inv
<1> QED
  BY <1>1, InvInit, InvNext, PTL DEF Spec

-----------------------------------------------------------------------------
(* The state advances.                                                     *)

\* What a put has read is the state of its etag, and the put is later than it.
Versions ==
  \A w \in Writers :
    pc[w] = "replace" =>
      /\ incoming[w].at > seen[w].at
      /\ seen[w].etag <= state.etag
      /\ seen[w].etag = state.etag => seen[w] = state

\* Once a put has written, or found something at least as late, so is the state,
\* and what it read afterwards.
Reached ==
  \A w \in Writers :
    /\ pc[w] = "current" => state.at >= incoming[w].at
    /\ pc[w] \in {"load", "delete", "done"} => seen[w].at >= incoming[w].at

StateInv == Inv /\ Versions /\ Reached

LEMMA PublishedFields ==
  ASSUME NEW w \in Writers, Publish(w)
  PROVE  /\ state'.at = incoming[w].at
         /\ state'.parts = incoming[w].parts
         /\ state # NoState => state'.etag = state.etag + 1
BY DEF Publish, NextEtag

\* The state is replaced under the etag of an earlier retrieval.
LEMMA ReplacedLater ==
  ASSUME StateInv, NEW w \in Writers, ReplaceState(w), state' # state
  PROVE  /\ Publish(w)
         /\ state \in StateDocument
         /\ state'.at = incoming[w].at
         /\ state'.at > state.at
         /\ state'.etag = state.etag + 1
         /\ state' \in StateDocument
<1>1. Publish(w) /\ state.etag = seen[w].etag /\ pc[w] = "replace"
  BY DEF ReplaceState
<1>2. state \in StateDocument
  BY <1>1 DEF StateInv, Inv, Known, TypeOK
<1>3. incoming[w].at > state.at
  BY <1>1 DEF StateInv, Versions
<1>4. state' \in StateDocument
  BY <1>1, PublishedType DEF StateInv, Inv, Given
<1> QED
  BY <1>1, <1>2, <1>3, <1>4, PublishedFields, StoreAssumption

\* A step of a writer leaves the state, creates it or replaces an earlier one.
StateMoves ==
  \/ state' = state
  \/ state = NoState
  \/ /\ state'.at > state.at
     /\ state'.etag = state.etag + 1
     /\ state' \in StateDocument

LEMMA Moves == StateInv /\ [Next]_vars => StateMoves
<1> SUFFICES ASSUME StateInv, [Next]_vars PROVE StateMoves
  OBVIOUS
<1>1. ASSUME NEW w \in Writers, CreateState(w) PROVE StateMoves
  BY <1>1 DEF CreateState, StateMoves
<1>2. ASSUME NEW w \in Writers, ReplaceState(w) PROVE StateMoves
  BY <1>2, ReplacedLater DEF StateMoves
<1>3. ASSUME NEW w \in Writers, PutStep(w), ~CreateState(w), ~ReplaceState(w) PROVE StateMoves
  BY <1>3 DEF PutStep, Begin, ReadPrevious, ComponentsDone, CreateComponent, ConfirmComponent,
     LoadComponent, ReadState, ReadCurrent, Loaded, DeleteComponent, Deleted, Stop, StateMoves
<1>4. ASSUME NEW r \in Readers, ReadStep(r) PROVE StateMoves
  BY <1>4 DEF ReadStep, ReadBegin, ReadComponent, StateMoves
<1> QED
  BY <1>1, <1>2, <1>3, <1>4 DEF Next, vars, StateMoves

LEMMA VersionsNext == StateInv /\ Inv' /\ [Next]_vars => Versions' /\ Reached'
<1> SUFFICES ASSUME StateInv, Inv', [Next]_vars PROVE Versions' /\ Reached'
  OBVIOUS
<1>a. \A v \in Writers :
        /\ pc[v] # "idle" => incoming[v].at \in Nat
        /\ pc[v] \in {"replace", "load", "delete", "done"} =>
             seen[v].at \in Nat /\ seen[v].etag \in Nat
        /\ pc[v] \in {"read", "replace", "current", "load", "delete", "done"} =>
             state # NoState /\ state.at \in Nat /\ state.etag \in Nat
  BY DEF StateInv, Inv, Given, Known, TypeOK, StateDocument, Record
<1>b. \A v \in Writers :
        /\ pc[v] = "replace" => /\ incoming[v].at > seen[v].at
                                /\ seen[v].etag <= state.etag
                                /\ seen[v].etag = state.etag => seen[v] = state
        /\ pc[v] = "current" => state.at >= incoming[v].at
        /\ pc[v] \in {"load", "delete", "done"} => seen[v].at >= incoming[v].at
  BY DEF StateInv, Versions, Reached
<1>c. pc \in [Writers -> Running \cup {"idle", "done", "failed"}]
      /\ DOMAIN incoming = Writers /\ DOMAIN seen = Writers
  BY DEF StateInv, Inv, TypeOK
<1> USE DEF Running
<1>1. ASSUME NEW w \in Writers, Begin(w) PROVE Versions' /\ Reached'
  BY <1>1, <1>a, <1>b, <1>c DEF Begin, Goto, Versions, Reached
<1>2. ASSUME NEW w \in Writers, ReadPrevious(w) PROVE Versions' /\ Reached'
  BY <1>2, <1>a, <1>b, <1>c DEF ReadPrevious, Goto, Versions, Reached
<1>3. ASSUME NEW w \in Writers, ComponentsDone(w) PROVE Versions' /\ Reached'
  BY <1>3, <1>a, <1>b, <1>c DEF ComponentsDone, Goto, Versions, Reached
<1>4. ASSUME NEW w \in Writers, NEW s \in ServiceNames, CreateComponent(w, s) PROVE Versions' /\ Reached'
  BY <1>4, <1>a, <1>b, <1>c DEF CreateComponent, Versions, Reached
<1>5. ASSUME NEW w \in Writers, NEW s \in ServiceNames, ConfirmComponent(w, s) PROVE Versions' /\ Reached'
  BY <1>5, <1>a, <1>b, <1>c DEF ConfirmComponent, Goto, Versions, Reached
<1>6. ASSUME NEW w \in Writers, NEW s \in ServiceNames, LoadComponent(w, s) PROVE Versions' /\ Reached'
  BY <1>6, <1>a, <1>b, <1>c DEF LoadComponent, Goto, Versions, Reached
<1>7. ASSUME NEW w \in Writers, CreateState(w) PROVE Versions' /\ Reached'
  <2>1. CASE state = NoState
    <3>1. /\ state'.at = incoming[w].at /\ pc' = [pc EXCEPT ![w] = "current"]
          /\ UNCHANGED <<incoming, seen>>
      BY <2>1, <1>7, PublishedFields DEF CreateState, Goto
    <3> QED
      BY <3>1, <2>1, <1>a, <1>b, <1>c, <1>7 DEF CreateState, Versions, Reached
  <2>2. CASE state # NoState
    BY <2>2, <1>a, <1>b, <1>c, <1>7 DEF CreateState, Goto, Versions, Reached
  <2> QED
    BY <2>1, <2>2
<1>8. ASSUME NEW w \in Writers, ReadState(w) PROVE Versions' /\ Reached'
  BY <1>8, <1>a, <1>b, <1>c DEF ReadState, Later, Goto, Versions, Reached
<1>9. ASSUME NEW w \in Writers, ReplaceState(w) PROVE Versions' /\ Reached'
  <2>1. CASE state.etag # seen[w].etag
    BY <2>1, <1>9, <1>a, <1>b, <1>c DEF ReplaceState, Goto, Versions, Reached
  <2>2. CASE state.etag = seen[w].etag
    <3>0. Publish(w) /\ state' # state
      BY <2>2, <1>9, PublishedFields, <1>a, <1>b DEF ReplaceState
    <3>1. /\ state'.at = incoming[w].at /\ state'.at > state.at
          /\ state'.etag = state.etag + 1
      BY <3>0, <1>9, ReplacedLater
    <3>2. pc' = [pc EXCEPT ![w] = "current"] /\ UNCHANGED <<incoming, seen>>
      BY <2>2, <1>9 DEF ReplaceState, Goto
    <3> QED
      BY <3>1, <3>2, <1>a, <1>b, <1>c, <1>9 DEF ReplaceState, Versions, Reached
  <2> QED
    BY <2>1, <2>2
<1>10. ASSUME NEW w \in Writers, ReadCurrent(w) PROVE Versions' /\ Reached'
  BY <1>10, <1>a, <1>b, <1>c DEF ReadCurrent, Goto, Versions, Reached
<1>11. ASSUME NEW w \in Writers, Loaded(w) PROVE Versions' /\ Reached'
  BY <1>11, <1>a, <1>b, <1>c DEF Loaded, Goto, Versions, Reached
<1>12. ASSUME NEW w \in Writers, DeleteComponent(w) PROVE Versions' /\ Reached'
  BY <1>12, <1>a, <1>b, <1>c DEF DeleteComponent, Versions, Reached
<1>13. ASSUME NEW w \in Writers, Deleted(w) PROVE Versions' /\ Reached'
  BY <1>13, <1>a, <1>b, <1>c DEF Deleted, Goto, Versions, Reached
<1>14. ASSUME NEW w \in Writers, Stop(w) PROVE Versions' /\ Reached'
  BY <1>14, <1>a, <1>b, <1>c DEF Stop, Goto, Versions, Reached
<1>15. ASSUME NEW r \in Readers, ReadBegin(r) PROVE Versions' /\ Reached'
  BY <1>15, <1>a, <1>b, <1>c DEF ReadBegin, Versions, Reached, putVars
<1>16. ASSUME NEW r \in Readers, NEW s \in ServiceNames, ReadComponent(r, s) PROVE Versions' /\ Reached'
  BY <1>16, <1>a, <1>b, <1>c DEF ReadComponent, Versions, Reached, putVars
<1>17. CASE UNCHANGED vars
  BY <1>17, <1>a, <1>b, <1>c DEF vars, putVars, readVars, Versions, Reached
<1> QED
  BY <1>1, <1>2, <1>3, <1>4, <1>5, <1>6, <1>7, <1>8, <1>9,
     <1>10, <1>11, <1>12, <1>13, <1>14, <1>15, <1>16, <1>17
     DEF Next, PutStep, ReadStep

LEMMA StateInvInit == Init => StateInv
BY InvInit DEF Init, StateInv, Versions, Reached

LEMMA StateInvNext == StateInv /\ [Next]_vars => StateInv'
BY InvNext, VersionsNext DEF StateInv

\* Prices never go back: put_document replaces the state by a later retrieval
\* only, in whatever order any number of puts come, are delayed and fail.
THEOREM StateOnlyAdvances == Spec => StateAdvances
<1>1. StateInv /\ [Next]_vars => [state # NoState /\ state' # state => state'.at > state.at]_vars
  BY Moves DEF StateMoves
<1> QED
  BY <1>1, StateInvInit, StateInvNext, PTL DEF Spec, StateAdvances

\* A put answers with prices at least as late as those it was given (the
\* canonical snapshot put_aws reads back after its own publication).
THEOREM PutsAnswerCurrent == Spec => []PutAnswersCurrent
<1>1. StateInv => PutAnswersCurrent
  BY DEF StateInv, Reached, PutAnswersCurrent
<1> QED
  BY <1>1, StateInvInit, StateInvNext, PTL DEF Spec

-----------------------------------------------------------------------------
(* Puts that run one at a time.                                            *)

OneRunning ==
  \A v, w \in Writers : pc[v] \in Running /\ pc[w] \in Running => v = w

\* The components a put has created or found are there until it deletes.
Ready ==
  \A w \in Writers, s \in ServiceNames :
    /\ pc[w] \in {"idle", "previous"} => stage[w][s] = "create"
    /\ pc[w] \in Running \ {"delete"} /\ stage[w][s] # "create" =>
         Component(incoming[w].parts, s) \in components
    /\ pc[w] \in {"create", "read", "replace"} => stage[w][s] = "done"

\* A put loads, and deletes what differs from, the state that is current.
SeenCurrent == \A w \in Writers : pc[w] \in {"load", "delete"} => seen[w] = state

SerialInv == StateInv /\ OneRunning /\ Ready /\ SeenCurrent /\ StateIntact

LEMMA SerialInit == Init => SerialInv
BY StateInvInit DEF Init, SerialInv, OneRunning, Ready, SeenCurrent, StateIntact, Running

LEMMA OneRunningNext ==
  ASSUME ~overlapped', TypeOK, OneRunning, [Next]_vars
  PROVE  OneRunning'
<1> USE DEF Running
<1>1. ASSUME NEW w \in Writers, Begin(w) PROVE OneRunning'
  BY <1>1 DEF Begin, Goto, TypeOK, OneRunning
<1>2. ASSUME NEW w \in Writers, ReadPrevious(w) PROVE OneRunning'
  BY <1>2 DEF ReadPrevious, Goto, TypeOK, OneRunning
<1>3. ASSUME NEW w \in Writers, ComponentsDone(w) PROVE OneRunning'
  BY <1>3 DEF ComponentsDone, Goto, TypeOK, OneRunning
<1>4. ASSUME NEW w \in Writers, NEW s \in ServiceNames, CreateComponent(w, s) PROVE OneRunning'
  BY <1>4 DEF CreateComponent, TypeOK, OneRunning
<1>5. ASSUME NEW w \in Writers, NEW s \in ServiceNames, ConfirmComponent(w, s) PROVE OneRunning'
  BY <1>5 DEF ConfirmComponent, Goto, TypeOK, OneRunning
<1>6. ASSUME NEW w \in Writers, NEW s \in ServiceNames, LoadComponent(w, s) PROVE OneRunning'
  BY <1>6 DEF LoadComponent, Goto, TypeOK, OneRunning
<1>7. ASSUME NEW w \in Writers, CreateState(w) PROVE OneRunning'
  BY <1>7 DEF CreateState, Goto, TypeOK, OneRunning
<1>8. ASSUME NEW w \in Writers, ReadState(w) PROVE OneRunning'
  BY <1>8 DEF ReadState, Goto, TypeOK, OneRunning
<1>9. ASSUME NEW w \in Writers, ReplaceState(w) PROVE OneRunning'
  BY <1>9 DEF ReplaceState, Goto, TypeOK, OneRunning
<1>10. ASSUME NEW w \in Writers, ReadCurrent(w) PROVE OneRunning'
  BY <1>10 DEF ReadCurrent, Goto, TypeOK, OneRunning
<1>11. ASSUME NEW w \in Writers, Loaded(w) PROVE OneRunning'
  BY <1>11 DEF Loaded, Goto, TypeOK, OneRunning
<1>12. ASSUME NEW w \in Writers, DeleteComponent(w) PROVE OneRunning'
  BY <1>12 DEF DeleteComponent, TypeOK, OneRunning
<1>13. ASSUME NEW w \in Writers, Deleted(w) PROVE OneRunning'
  BY <1>13 DEF Deleted, Goto, TypeOK, OneRunning
<1>14. ASSUME NEW w \in Writers, Stop(w) PROVE OneRunning'
  BY <1>14 DEF Stop, Goto, TypeOK, OneRunning
<1>15. ASSUME NEW r \in Readers, ReadBegin(r) PROVE OneRunning'
  BY <1>15 DEF ReadBegin, TypeOK, OneRunning, putVars
<1>16. ASSUME NEW r \in Readers, NEW s \in ServiceNames, ReadComponent(r, s) PROVE OneRunning'
  BY <1>16 DEF ReadComponent, TypeOK, OneRunning, putVars
<1>17. CASE UNCHANGED vars
  BY <1>17 DEF vars, putVars, readVars, TypeOK, OneRunning
<1> QED
  BY <1>1, <1>2, <1>3, <1>4, <1>5, <1>6, <1>7, <1>8, <1>9,
     <1>10, <1>11, <1>12, <1>13, <1>14, <1>15, <1>16, <1>17
     DEF Next, PutStep, ReadStep

LEMMA PublishIntact ==
  ASSUME NEW w \in Writers, Publish(w), UNCHANGED components,
         \A s \in ServiceNames : Component(incoming[w].parts, s) \in components
  PROVE  StateIntact'
<1>1. state'.parts = incoming[w].parts
  BY PublishedFields
<1> QED
  BY <1>1 DEF StateIntact, Parts, Component

LEMMA IntactNext ==
  ASSUME SerialInv, [Next]_vars
  PROVE  Ready' /\ SeenCurrent' /\ StateIntact'
<1>a. \A v \in Writers, s \in ServiceNames :
        /\ pc[v] \in {"idle", "previous"} => stage[v][s] = "create"
        /\ pc[v] \in Running \ {"delete"} /\ stage[v][s] # "create" =>
             Component(incoming[v].parts, s) \in components
        /\ pc[v] \in {"create", "read", "replace"} => stage[v][s] = "done"
  BY DEF SerialInv, Ready
<1>b. \A v \in Writers : pc[v] \in {"load", "delete"} => seen[v] = state
  BY DEF SerialInv, SeenCurrent
<1>c. /\ pc \in [Writers -> Running \cup {"idle", "done", "failed"}]
      /\ DOMAIN incoming = Writers /\ DOMAIN seen = Writers
      /\ stage \in [Writers -> [ServiceNames -> {"create", "confirm", "done", "loaded"}]]
  BY DEF SerialInv, StateInv, Inv, TypeOK
<1>d. StateIntact
  BY DEF SerialInv
<1>e. \A v, w \in Writers : pc[v] \in Running /\ pc[w] \in Running => v = w
  BY DEF SerialInv, OneRunning
<1> USE DEF Running
<1>1. ASSUME NEW w \in Writers, Begin(w) PROVE Ready' /\ SeenCurrent' /\ StateIntact'
  BY <1>1, <1>a, <1>b, <1>c, <1>d, <1>e DEF Begin, Goto, Ready, SeenCurrent, StateIntact
<1>2. ASSUME NEW w \in Writers, ReadPrevious(w) PROVE Ready' /\ SeenCurrent' /\ StateIntact'
  <2>1. Ready' /\ SeenCurrent'
    BY <1>2, <1>a, <1>b, <1>c DEF ReadPrevious, Goto, Ready, SeenCurrent
  <2>2. StateIntact'
    BY <1>2, <1>d DEF ReadPrevious, StateIntact, Parts
  <2> QED
    BY <2>1, <2>2
<1>3. ASSUME NEW w \in Writers, ComponentsDone(w) PROVE Ready' /\ SeenCurrent' /\ StateIntact'
  <2>1. Ready' /\ SeenCurrent'
    BY <1>3, <1>a, <1>b, <1>c DEF ComponentsDone, Goto, Ready, SeenCurrent
  <2>2. StateIntact'
    BY <1>3, <1>d DEF ComponentsDone, StateIntact, Parts
  <2> QED
    BY <2>1, <2>2
<1>4. ASSUME NEW w \in Writers, NEW s \in ServiceNames, CreateComponent(w, s) PROVE Ready' /\ SeenCurrent' /\ StateIntact'
  <2>1. Ready'
    <3>1. /\ components' = components \cup {Component(incoming[w].parts, s)}
          /\ \/ stage' = [stage EXCEPT ![w][s] = "confirm"]
             \/ stage' = [stage EXCEPT ![w][s] = "done"]
          /\ UNCHANGED <<pc, incoming>> /\ pc[w] = "components"
      BY <1>4 DEF CreateComponent
    <3> QED
      BY <3>1, <1>a, <1>c DEF Ready
  <2>2. SeenCurrent' /\ StateIntact'
    BY <1>4, <1>b, <1>d DEF CreateComponent, SeenCurrent, StateIntact, Parts
  <2> QED
    BY <2>1, <2>2
<1>5. ASSUME NEW w \in Writers, NEW s \in ServiceNames, ConfirmComponent(w, s) PROVE Ready' /\ SeenCurrent' /\ StateIntact'
  <2>1. /\ pc' = pc \/ pc' = [pc EXCEPT ![w] = "failed"]
        /\ UNCHANGED <<components, state, incoming, seen>>
    BY <1>5 DEF ConfirmComponent, Goto
  <2>2. stage' = stage \/ stage' = [stage EXCEPT ![w][s] = "done"]
    BY <1>5 DEF ConfirmComponent
  <2>3. stage[w][s] # "create" /\ pc[w] = "components"
    BY <1>5 DEF ConfirmComponent
  <2>4. Ready'
    BY <2>1, <2>2, <2>3, <1>a, <1>c DEF Ready
  <2>5. SeenCurrent' /\ StateIntact'
    BY <2>1, <1>b, <1>c, <1>d DEF SeenCurrent, StateIntact, Parts
  <2> QED
    BY <2>4, <2>5
<1>6. ASSUME NEW w \in Writers, NEW s \in ServiceNames, LoadComponent(w, s) PROVE Ready' /\ SeenCurrent' /\ StateIntact'
  <2>1. /\ pc' = pc \/ pc' = [pc EXCEPT ![w] = "failed"]
        /\ UNCHANGED <<components, state, incoming, seen>>
    BY <1>6 DEF LoadComponent, Goto
  <2>2. stage' = stage \/ stage' = [stage EXCEPT ![w][s] = "loaded"]
    BY <1>6 DEF LoadComponent
  <2>3. stage[w][s] # "create" /\ pc[w] = "load"
    BY <1>6 DEF LoadComponent
  <2>4. Ready'
    BY <2>1, <2>2, <2>3, <1>a, <1>c DEF Ready
  <2>5. SeenCurrent' /\ StateIntact'
    BY <2>1, <1>b, <1>c, <1>d DEF SeenCurrent, StateIntact, Parts
  <2> QED
    BY <2>4, <2>5
<1>7. ASSUME NEW w \in Writers, CreateState(w) PROVE Ready' /\ SeenCurrent' /\ StateIntact'
  <2>1. Ready'
    BY <1>7, <1>a, <1>c DEF CreateState, Goto, Ready
  <2>2. SeenCurrent'
    BY <1>7, <1>b, <1>c, <1>e DEF CreateState, Goto, SeenCurrent
  <2>3. UNCHANGED components /\ \A s \in ServiceNames : Component(incoming[w].parts, s) \in components
    BY <1>7, <1>a DEF CreateState
  <2>4. StateIntact'
    BY <1>7, <2>3, <1>d, PublishIntact DEF CreateState, StateIntact, Parts
  <2> QED
    BY <2>1, <2>2, <2>4
<1>8. ASSUME NEW w \in Writers, ReadState(w) PROVE Ready' /\ SeenCurrent' /\ StateIntact'
  <2>1. Ready' /\ SeenCurrent'
    BY <1>8, <1>a, <1>b, <1>c DEF ReadState, Goto, Ready, SeenCurrent
  <2>2. StateIntact'
    BY <1>8, <1>d DEF ReadState, StateIntact, Parts
  <2> QED
    BY <2>1, <2>2
<1>9. ASSUME NEW w \in Writers, ReplaceState(w) PROVE Ready' /\ SeenCurrent' /\ StateIntact'
  <2>1. Ready'
    BY <1>9, <1>a, <1>c DEF ReplaceState, Goto, Ready
  <2>2. SeenCurrent'
    BY <1>9, <1>b, <1>c, <1>e DEF ReplaceState, Goto, SeenCurrent
  <2>3. UNCHANGED components /\ \A s \in ServiceNames : Component(incoming[w].parts, s) \in components
    BY <1>9, <1>a DEF ReplaceState
  <2>4. StateIntact'
    BY <1>9, <2>3, <1>d, PublishIntact DEF ReplaceState, StateIntact, Parts
  <2> QED
    BY <2>1, <2>2, <2>4
<1>10. ASSUME NEW w \in Writers, ReadCurrent(w) PROVE Ready' /\ SeenCurrent' /\ StateIntact'
  <2>1. Ready' /\ SeenCurrent'
    BY <1>10, <1>a, <1>b, <1>c DEF ReadCurrent, Goto, Ready, SeenCurrent
  <2>2. StateIntact'
    BY <1>10, <1>d DEF ReadCurrent, StateIntact, Parts
  <2> QED
    BY <2>1, <2>2
<1>11. ASSUME NEW w \in Writers, Loaded(w) PROVE Ready' /\ SeenCurrent' /\ StateIntact'
  <2>1. Ready' /\ SeenCurrent'
    BY <1>11, <1>a, <1>b, <1>c DEF Loaded, Goto, Ready, SeenCurrent
  <2>2. StateIntact'
    BY <1>11, <1>d DEF Loaded, StateIntact, Parts
  <2> QED
    BY <2>1, <2>2
<1>12. ASSUME NEW w \in Writers, DeleteComponent(w) PROVE Ready' /\ SeenCurrent' /\ StateIntact'
  <2>1. components' \subseteq components /\ UNCHANGED <<state, pc, incoming, stage, seen>>
    BY <1>12 DEF DeleteComponent
  <2>2. Ready'
    BY <1>12, <2>1, <1>a, <1>e DEF DeleteComponent, Ready
  <2>3. SeenCurrent'
    BY <2>1, <1>b DEF SeenCurrent
  <2>4. pc[w] = "delete" /\ seen[w] = state
    BY <1>12, <1>b DEF DeleteComponent
  <2>5. ASSUME NEW s \in ServiceNames, previous[w].parts[s] # seen[w].parts[s],
               NEW t \in ServiceNames
        PROVE  Component(state.parts, t) # Component(previous[w].parts, s)
    BY <2>4, <2>5 DEF Component
  <2>6. \A i \in DOMAIN Services : Services[i] \in ServiceNames
    BY DEF ServiceNames
  <2>7. index[w] <= Len(Services) /\ index[w] \in Nat /\ index[w] >= 1 => index[w] \in DOMAIN Services
    BY StoreAssumption
  <2>8. ASSUME state # NoState, NEW t \in ServiceNames
        PROVE  Component(state.parts, t) \in components'
    <3>1. Component(state.parts, t) \in components
      BY <2>8, <1>d DEF StateIntact, Parts
    <3>2. index[w] \in DOMAIN Services
      BY <1>12, <2>7 DEF DeleteComponent, SerialInv, StateInv, Inv, TypeOK
    <3>3. Services[index[w]] \in ServiceNames
      BY <3>2, <2>6
    <3> QED
      BY <1>12, <3>1, <3>3, <2>5 DEF DeleteComponent
  <2>9. StateIntact'
    BY <2>1, <2>8 DEF StateIntact, Parts
  <2> QED
    BY <2>2, <2>3, <2>9
<1>13. ASSUME NEW w \in Writers, Deleted(w) PROVE Ready' /\ SeenCurrent' /\ StateIntact'
  <2>1. Ready' /\ SeenCurrent'
    BY <1>13, <1>a, <1>b, <1>c DEF Deleted, Goto, Ready, SeenCurrent
  <2>2. StateIntact'
    BY <1>13, <1>d DEF Deleted, StateIntact, Parts
  <2> QED
    BY <2>1, <2>2
<1>14. ASSUME NEW w \in Writers, Stop(w) PROVE Ready' /\ SeenCurrent' /\ StateIntact'
  <2>1. Ready' /\ SeenCurrent'
    BY <1>14, <1>a, <1>b, <1>c DEF Stop, Goto, Ready, SeenCurrent
  <2>2. StateIntact'
    BY <1>14, <1>d DEF Stop, StateIntact, Parts
  <2> QED
    BY <2>1, <2>2
<1>15. ASSUME NEW r \in Readers, ReadBegin(r) PROVE Ready' /\ SeenCurrent' /\ StateIntact'
  BY <1>15, <1>a, <1>b, <1>d DEF ReadBegin, Ready, SeenCurrent, StateIntact, Parts, putVars
<1>16. ASSUME NEW r \in Readers, NEW s \in ServiceNames, ReadComponent(r, s) PROVE Ready' /\ SeenCurrent' /\ StateIntact'
  BY <1>16, <1>a, <1>b, <1>d DEF ReadComponent, Ready, SeenCurrent, StateIntact, Parts, putVars
<1>17. CASE UNCHANGED vars
  BY <1>17, <1>a, <1>b, <1>d DEF vars, putVars, readVars, Ready, SeenCurrent, StateIntact, Parts
<1> QED
  BY <1>1, <1>2, <1>3, <1>4, <1>5, <1>6, <1>7, <1>8, <1>9,
     <1>10, <1>11, <1>12, <1>13, <1>14, <1>15, <1>16, <1>17
     DEF Next, PutStep, ReadStep

LEMMA SerialNext == ~overlapped' /\ SerialInv /\ [Next]_vars => SerialInv'
<1> SUFFICES ASSUME ~overlapped', SerialInv, [Next]_vars PROVE SerialInv'
  OBVIOUS
<1>1. StateInv'
  BY StateInvNext DEF SerialInv
<1>2. OneRunning'
  BY OneRunningNext DEF SerialInv, StateInv, Inv
<1> QED
  BY <1>1, <1>2, IntactNext DEF SerialInv

\* Puts that have overlapped have overlapped for ever.
LEMMA OverlapStays == overlapped /\ [Next]_vars => overlapped'
BY DEF Next, PutStep, ReadStep, Begin, ReadPrevious, ComponentsDone, CreateComponent,
   ConfirmComponent, LoadComponent, CreateState, ReadState, ReplaceState, ReadCurrent, Loaded,
   DeleteComponent, Deleted, Stop, ReadBegin, ReadComponent, vars, putVars

\* While puts run one after another, the state in the store always names components
\* that are there, wherever a put or the replica stops (put_aws, which writes
\* components first, publishes, and deletes what its own state replaced).
THEOREM SerialPutsKeepTheState == Spec => []SerialStateIntact
<1> DEFINE IInv == ~overlapped => SerialInv
<1>1. Init => IInv
  BY SerialInit
<1>2. IInv /\ [Next]_vars => IInv'
  BY SerialNext, OverlapStays
<1>3. IInv => SerialStateIntact
  BY DEF SerialInv, SerialStateIntact
<1> QED
  BY <1>1, <1>2, <1>3, PTL DEF Spec

-----------------------------------------------------------------------------
(* Reads.                                                                  *)

\* A reader knows a state of the past: the same etag is the same state.
Remembered ==
  \A r \in Readers :
    rpc[r] \in {"reading", "invalid"} =>
      /\ rseen[r] \in StateDocument /\ state \in StateDocument
      /\ rseen[r].etag <= state.etag
      /\ rseen[r].etag = state.etag => rseen[r] = state

\* What a reader missed belonged to a state that has been superseded.
MissedIsSuperseded ==
  \A r \in Readers : rpc[r] = "invalid" => state.etag > rseen[r].etag

ReadInv == SerialInv /\ Remembered /\ MissedIsSuperseded

LEMMA ReadNext == ~overlapped' /\ ReadInv /\ [Next]_vars => ReadInv'
<1> SUFFICES ASSUME ~overlapped', ReadInv, [Next]_vars PROVE ReadInv'
  OBVIOUS
<1>1. SerialInv' /\ StateMoves
  BY SerialNext, Moves DEF ReadInv, SerialInv
<1>2. state \in StateDocument \cup {NoState} /\ state' \in StateDocument \cup {NoState}
      /\ rpc \in [Readers -> {"idle", "reading", "none", "found", "invalid"}]
      /\ rseen \in [Readers -> StateDocument \cup {NoState}]
  BY <1>1 DEF ReadInv, SerialInv, StateInv, Inv, TypeOK
<1>3. \A d \in StateDocument : d.etag \in Nat
  BY DEF StateDocument
<1>4. ASSUME NEW r \in Readers, ReadBegin(r)
      PROVE  Remembered' /\ MissedIsSuperseded'
  BY <1>4, <1>2, <1>3 DEF ReadBegin, ReadInv, Remembered, MissedIsSuperseded
<1>5. ASSUME NEW r \in Readers, NEW s \in ServiceNames, ReadComponent(r, s)
      PROVE  Remembered' /\ MissedIsSuperseded'
  <2>1. rpc[r] = "reading" /\ UNCHANGED <<state, rseen>>
    BY <1>5 DEF ReadComponent
  <2>2. Component(rseen[r].parts, s) \notin components => rseen[r] # state
    BY <2>1, StoreAssumption DEF ReadInv, SerialInv, Remembered, StateIntact, Parts
  <2>3. /\ \A q \in Readers : q # r => rpc'[q] = rpc[q]
        /\ rpc'[r] = "invalid" => Component(rseen[r].parts, s) \notin components
        /\ rpc'[r] \in {"reading", "found", "invalid"}
    BY <1>5, <1>2 DEF ReadComponent
  <2> QED
    BY <2>1, <2>2, <2>3, <1>2, <1>3 DEF ReadInv, Remembered, MissedIsSuperseded
<1>6. ASSUME UNCHANGED readVars
      PROVE  Remembered' /\ MissedIsSuperseded'
  BY <1>6, <1>1, <1>2, <1>3, StoreAssumption
     DEF readVars, ReadInv, StateMoves, Remembered, MissedIsSuperseded
<1>7. ASSUME NEW w \in Writers, PutStep(w) PROVE UNCHANGED readVars
  BY <1>7 DEF PutStep, Begin, ReadPrevious, ComponentsDone, CreateComponent, ConfirmComponent,
     LoadComponent, CreateState, ReadState, ReplaceState, ReadCurrent, Loaded, DeleteComponent,
     Deleted, Stop, readVars
<1> QED
  BY <1>1, <1>4, <1>5, <1>6, <1>7 DEF Next, vars, ReadStep, ReadInv

\* While puts run one after another, a find or get that misses a component had read
\* a state that is no longer current (load_aws_state): a new read succeeds.
THEOREM CurrentIsReadable == Spec => []OnlySupersededUnreadable
<1> DEFINE IInv == ~overlapped => ReadInv
<1>1. Init => IInv
  BY SerialInit DEF Init, ReadInv, Remembered, MissedIsSuperseded
<1>2. IInv /\ [Next]_vars => IInv'
  BY ReadNext, OverlapStays
<1>3. IInv => OnlySupersededUnreadable
  BY DEF ReadInv, MissedIsSuperseded, OnlySupersededUnreadable
<1> QED
  BY <1>1, <1>2, <1>3, PTL DEF Spec

=============================================================================
