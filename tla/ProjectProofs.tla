---------------------------- MODULE ProjectProofs ----------------------------
(***************************************************************************)
(* Theorems about a project and what is around it: its saves and its       *)
(* shares, for any number of editors, sharers and deleters and for all     *)
(* faults, and the launches of its calculator, whose own proofs are in     *)
(* CalculatorLaunchProofs, in the system composed of both.                 *)
(***************************************************************************)
EXTENDS MCProject, TLAPS

LEMMA CalculatedType == \A i \in Inputs : Calculated(i) \in Inputs \cup {NoRevision}
BY DEF Calculated

LEMMA SavedType ==
  ASSUME TypeOK, NEW e \in Editors, EtagMatches(e), editor[e] = "replace"
  PROVE  [inputs |-> draft[e], revision |-> revision[e],
          edits |-> opened[e].edits \cup {e}, etag |-> project.etag + 1] \in ProjectDocument
<1>1. project \in ProjectDocument /\ opened[e] \in ProjectDocument
  BY DEF TypeOK, EtagMatches
<1>2. draft[e] \in Inputs /\ revision[e] \in Inputs \cup {NoRevision}
  BY DEF TypeOK
<1> QED
  BY <1>1, <1>2 DEF ProjectDocument

LEMMA TypeInit == Init => TypeOK
<1> SUFFICES ASSUME Init PROVE TypeOK
  OBVIOUS
<1>1. PICK inputs \in Inputs :
        project = [inputs |-> inputs, revision |-> Calculated(inputs), edits |-> {}, etag |-> 1]
  BY DEF Init
<1>2. project \in ProjectDocument
  BY <1>1, CalculatedType DEF ProjectDocument
<1> QED
  BY <1>2 DEF Init, TypeOK

LEMMA TypeNext == TypeOK /\ [Next]_vars => TypeOK'
<1> SUFFICES ASSUME TypeOK, [Next]_vars PROVE TypeOK'
  OBVIOUS
<1> USE DEF TypeOK, editing, deleting
<1>1. ASSUME NEW e \in Editors, EditorStep(e) PROVE TypeOK'
  <2>1. CASE Open(e)
    BY <2>1 DEF Open, Edit
  <2>2. CASE Check(e)
    BY <2>2 DEF Check, Edit, Unmatched
  <2>3. CASE Calculate(e)
    BY <2>3, CalculatedType DEF Calculate, Edit
  <2>4. CASE Reread(e)
    <3>1. project # NoProject => project.revision \in Inputs \cup {NoRevision}
      BY DEF ProjectDocument
    <3>2. EtagMatches(e) => project # NoProject
      BY DEF EtagMatches
    <3> QED
      BY <2>4, <3>1, <3>2 DEF Reread, Edit, Unmatched
  <2>5. CASE Replace(e)
    BY <2>5, SavedType DEF Replace, Saved, Edit, Unmatched
  <2>6. CASE ReplaceUnanswered(e)
    BY <2>6, SavedType DEF ReplaceUnanswered, Saved, Edit
  <2>7. CASE EditFails(e)
    BY <2>7 DEF EditFails, Edit
  <2> QED
    BY <1>1, <2>1, <2>2, <2>3, <2>4, <2>5, <2>6, <2>7 DEF EditorStep
<1>2. ASSUME NEW s \in Sharers, SharerStep(s) PROVE TypeOK'
  BY <1>2 DEF SharerStep, ReadSource, CreateShare, Recheck, Cleanup, Withdraw, ShareFails, Share
<1>3. ASSUME NEW d \in Deleters, DeleterStep(d) PROVE TypeOK'
  <2>1. CASE ListShares(d, "idle", "revoke") \/ ListShares(d, "list_again", "revoke_again")
    BY <2>1 DEF ListShares, Delete
  <2>2. CASE RevokeListed(d, "revoke", "delete") \/ RevokeListed(d, "revoke_again", "deleted")
    BY <2>2 DEF RevokeListed, Delete
  <2>3. CASE DeleteProject(d) \/ DeleteFails(d)
    BY <2>3 DEF DeleteProject, DeleteFails, Delete
  <2> QED
    BY <1>3, <2>1, <2>2, <2>3 DEF DeleterStep
<1>4. CASE UNCHANGED vars
  BY <1>4 DEF vars
<1> QED
  BY <1>1, <1>2, <1>3, <1>4 DEF Next

\* The project, its shares and every request have their types, and a page that
\* saves has opened a project (update_project_document and the repositories).
THEOREM TypeCorrect == Spec => []TypeOK
BY TypeInit, TypeNext, PTL DEF Spec

-----------------------------------------------------------------------------
(* What a delete has done so far.                                          *)

ProjectGone ==
  \A d \in Deleters :
    deleter[d] \in {"list_again", "revoke_again", "deleted"} => project = NoProject

AllListed ==
  \A d \in Deleters : deleter[d] = "revoke_again" =>
    \A s \in shares : sharer[s] = "shared" => s \in listed[d]

NoneShared ==
  \A d \in Deleters : deleter[d] = "deleted" => \A s \in shares : sharer[s] # "shared"

DeleteInv == TypeOK /\ ProjectGone /\ AllListed /\ NoneShared

LEMMA DeleteInit == Init => DeleteInv
BY TypeInit DEF Init, DeleteInv, ProjectGone, AllListed, NoneShared

LEMMA DeleteNext == DeleteInv /\ [Next]_vars => DeleteInv'
<1> SUFFICES ASSUME DeleteInv, [Next]_vars PROVE DeleteInv'
  OBVIOUS
<1>0. TypeOK'
  BY TypeNext DEF DeleteInv
<1> USE DEF DeleteInv, ProjectGone, AllListed, NoneShared, TypeOK
<1>1. ASSUME NEW e \in Editors, EditorStep(e) PROVE DeleteInv'
  <2>1. UNCHANGED <<shares, sharer, deleting>>
    BY <1>1 DEF EditorStep, Open, Check, Calculate, Reread, Replace, ReplaceUnanswered, EditFails
  <2>2. project = NoProject => project' = NoProject
    BY <1>1 DEF EditorStep, Open, Check, Calculate, Reread, Replace, ReplaceUnanswered,
         EditFails, EtagMatches
  <2> QED
    BY <1>0, <2>1, <2>2 DEF deleting
<1>2. ASSUME NEW s \in Sharers, SharerStep(s) PROVE DeleteInv'
  <2>1. UNCHANGED <<project, deleter, listed>>
    BY <1>2 DEF SharerStep, ReadSource, CreateShare, Recheck, Cleanup, Withdraw, ShareFails, deleting
  <2>2. CASE Recheck(s)
    <3>1. project = NoProject => sharer' = [sharer EXCEPT ![s] = "cleanup"]
      BY <2>2 DEF Recheck, Share
    <3> QED
      BY <1>0, <2>1, <2>2, <3>1 DEF Recheck, Share
  <2>3. CASE ~Recheck(s)
    <3>1. \A t \in shares' : sharer'[t] = "shared" => t \in shares /\ sharer[t] = "shared"
      BY <1>2, <2>3 DEF SharerStep, ReadSource, CreateShare, Cleanup, Withdraw, ShareFails, Share
    <3> QED
      BY <1>0, <2>1, <3>1
  <2> QED
    BY <2>2, <2>3
<1>3. ASSUME NEW d \in Deleters, DeleterStep(d) PROVE DeleteInv'
  <2>0. sharer' = sharer
    BY <1>3 DEF DeleterStep, ListShares, RevokeListed, DeleteProject, DeleteFails
  <2>1. CASE ListShares(d, "idle", "revoke") \/ ListShares(d, "list_again", "revoke_again")
    BY <1>0, <2>1 DEF ListShares, Delete
  <2>2. CASE RevokeListed(d, "revoke", "delete") \/ RevokeListed(d, "revoke_again", "deleted")
    <3>1. shares' \subseteq shares /\ project' = project
      BY <2>2 DEF RevokeListed
    <3>2. \A c \in Deleters : c # d => deleter'[c] = deleter[c] /\ listed'[c] = listed[c]
      BY <2>2 DEF RevokeListed, Delete
    <3>3. deleter'[d] \in {"list_again", "revoke_again", "deleted"} => deleter[d] = "revoke_again"
      BY <2>2 DEF RevokeListed, Delete
    <3>4. deleter'[d] = "revoke_again" =>
            \A s \in shares' : s \in listed[d] => s \in listed'[d]
      BY <2>2 DEF RevokeListed, Delete
    <3>5. deleter'[d] = "deleted" => listed[d] = {}
      BY <2>2 DEF RevokeListed, Delete
    <3>6. ProjectGone'
      BY <3>1, <3>2, <3>3
    <3>7. AllListed'
      BY <2>0, <3>1, <3>2, <3>3, <3>4
    <3>8. NoneShared'
      BY <2>0, <3>1, <3>2, <3>3, <3>5
    <3> QED
      BY <1>0, <3>6, <3>7, <3>8
  <2>3. CASE DeleteProject(d) \/ DeleteFails(d)
    BY <1>0, <2>3 DEF DeleteProject, DeleteFails, Delete
  <2> QED
    BY <1>3, <2>1, <2>2, <2>3 DEF DeleterStep
<1>4. CASE UNCHANGED vars
  BY <1>0, <1>4 DEF vars, deleting
<1> QED
  BY <1>1, <1>2, <1>3, <1>4 DEF Next

\* A link that was given out is dead once a delete of its project was answered
\* (delete revokes before and after, create reads its source again).
THEOREM LinksEndWithTheProject == Spec => []SharedEndsWithProject
<1>1. DeleteInv => SharedEndsWithProject
  BY DEF DeleteInv, NoneShared, SharedEndsWithProject
<1> QED
  BY <1>1, DeleteInit, DeleteNext, PTL DEF Spec

-----------------------------------------------------------------------------
(* What a save knows of the project.                                       *)

\* the same etag is the same project
Opened ==
  \A e \in Editors : opened[e] # NoProject /\ project # NoProject =>
    /\ opened[e].etag <= project.etag
    /\ opened[e].etag = project.etag => opened[e] = project

\* a revision is calculated unless the inputs are those that were opened
Revised ==
  \A e \in Editors :
    /\ editor[e] = "reread" =>
         revision[e] = Calculated(draft[e]) \/ draft[e] = opened[e].inputs
    /\ editor[e] = "replace" => revision[e] = Calculated(draft[e])

SaveInv == TypeOK /\ Opened /\ Revised /\ RevisionFitsInputs /\ SavesStay

LEMMA SaveInit == Init => SaveInv
<1> SUFFICES ASSUME Init PROVE SaveInv
  OBVIOUS
<1>1. TypeOK
  BY TypeInit
<1>2. RevisionFitsInputs
  BY DEF Init, RevisionFitsInputs
<1> QED
  BY <1>1, <1>2 DEF Init, SaveInv, Opened, Revised, SavesStay

\* what applying a save keeps
LEMMA SaveApplied ==
  ASSUME SaveInv, TypeOK', NEW e \in Editors, editor[e] = "replace", EtagMatches(e), Saved(e),
         UNCHANGED <<opened, draft, revision>>,
         NEW place \in {"saved", "stale"}, Edit(e, place)
  PROVE  SaveInv'
<1> USE DEF SaveInv, TypeOK
<1>1. /\ project \in ProjectDocument /\ opened[e] = project
      /\ project'.inputs = draft[e] /\ project'.revision = revision[e]
      /\ project'.edits = project.edits \cup {e} /\ project'.etag = project.etag + 1
  BY DEF EtagMatches, Opened, Saved
<1>2. project.etag \in Nat
  BY <1>1 DEF ProjectDocument
<1>3. \A f \in Editors : opened[f] # NoProject => opened[f].etag \in Nat
  BY DEF ProjectDocument
<1>4. Opened'
  BY <1>1, <1>2, <1>3 DEF Opened, EtagMatches
<1>5. Revised'
  BY DEF Revised, Edit
<1>6. RevisionFitsInputs'
  BY <1>1 DEF RevisionFitsInputs, Revised, Calculated
<1>7. SavesStay'
  BY <1>1 DEF SavesStay, Edit, EtagMatches
<1> QED
  BY <1>4, <1>5, <1>6, <1>7

LEMMA SaveNext == SaveInv /\ [Next]_vars => SaveInv'
<1> SUFFICES ASSUME SaveInv, [Next]_vars PROVE SaveInv'
  OBVIOUS
<1>0. TypeOK'
  BY TypeNext DEF SaveInv
<1> USE DEF SaveInv, TypeOK, editing
<1>1. ASSUME NEW e \in Editors, EditorStep(e) PROVE SaveInv'
  <2>1. CASE Open(e)
    <3>1. /\ project' = project /\ project # NoProject
          /\ opened' = [opened EXCEPT ![e] = project]
          /\ editor' = [editor EXCEPT ![e] = "check"]
          /\ UNCHANGED <<draft, revision>>
      BY <2>1 DEF Open, Edit
    <3>2. project.etag \in Nat
      BY <3>1 DEF ProjectDocument
    <3>3. Opened'
      BY <3>1, <3>2 DEF Opened
    <3>4. Revised'
      BY <3>1, <2>1 DEF Revised, Open
    <3> QED
      BY <1>0, <3>1, <3>3, <3>4 DEF RevisionFitsInputs, SavesStay
  <2>2. CASE Check(e)
    <3>1. /\ UNCHANGED <<project, opened, draft, revision>>
          /\ \/ editor' = [editor EXCEPT ![e] = "missing"]
             \/ editor' = [editor EXCEPT ![e] = "stale"]
             \/ editor' = [editor EXCEPT ![e] = "calculate"]
             \/ /\ editor' = [editor EXCEPT ![e] = "reread"]
                /\ draft[e] = project.inputs /\ EtagMatches(e)
      BY <2>2 DEF Check, Edit, Unmatched
    <3>2. EtagMatches(e) /\ editor[e] = "check" => opened[e] = project
      BY DEF EtagMatches, Opened
    <3>3. Revised'
      BY <3>1, <3>2, <2>2 DEF Revised, Check
    <3> QED
      BY <1>0, <3>1, <3>3 DEF Opened, RevisionFitsInputs, SavesStay
  <2>3. CASE Calculate(e)
    <3>1. Revised'
      BY <2>3 DEF Revised, Calculate, Edit, Calculated
    <3> QED
      BY <1>0, <2>3, <3>1 DEF Calculate, Edit, Opened, RevisionFitsInputs, SavesStay
  <2>4. CASE Reread(e)
    <3>1. EtagMatches(e) => opened[e] = project /\ project # NoProject
      BY <2>4 DEF EtagMatches, Opened, Reread
    <3>2. Revised'
      BY <2>4, <3>1 DEF Revised, Reread, Edit, Unmatched, RevisionFitsInputs, Calculated
    <3> QED
      BY <1>0, <2>4, <3>2 DEF Reread, Edit, Unmatched, Opened, RevisionFitsInputs, SavesStay
  <2>5. CASE Replace(e)
    <3>1. CASE EtagMatches(e)
      BY <1>0, <2>5, <3>1, SaveApplied DEF Replace
    <3>2. CASE ~EtagMatches(e)
      BY <1>0, <2>5, <3>2 DEF Replace, Edit, Unmatched, Opened, Revised, RevisionFitsInputs, SavesStay
    <3> QED
      BY <3>1, <3>2
  <2>6. CASE ReplaceUnanswered(e)
    BY <1>0, <2>6, SaveApplied DEF ReplaceUnanswered
  <2>7. CASE EditFails(e)
    BY <1>0, <2>7 DEF EditFails, Edit, Opened, Revised, RevisionFitsInputs, SavesStay
  <2> QED
    BY <1>1, <2>1, <2>2, <2>3, <2>4, <2>5, <2>6, <2>7 DEF EditorStep
<1>2. ASSUME NEW s \in Sharers, SharerStep(s) PROVE SaveInv'
  <2>1. UNCHANGED <<project, editor, opened, draft, revision>>
    BY <1>2 DEF SharerStep, ReadSource, CreateShare, Recheck, Cleanup, Withdraw, ShareFails
  <2> QED
    BY <1>0, <2>1 DEF Opened, Revised, RevisionFitsInputs, SavesStay, Calculated
<1>3. ASSUME NEW d \in Deleters, DeleterStep(d) PROVE SaveInv'
  <2>1. /\ UNCHANGED <<editor, opened, draft, revision>>
        /\ project' = project \/ project' = NoProject
    BY <1>3 DEF DeleterStep, ListShares, RevokeListed, DeleteProject, DeleteFails
  <2> QED
    BY <1>0, <2>1 DEF Opened, Revised, RevisionFitsInputs, SavesStay, Calculated
<1>4. CASE UNCHANGED vars
  BY <1>0, <1>4 DEF vars, Opened, Revised, RevisionFitsInputs, SavesStay, Calculated
<1> QED
  BY <1>1, <1>2, <1>3, <1>4 DEF Next

\* A saved project shows the results of its own inputs, and no save is lost
\* (update_project_document, updated_project_document and the replacement under
\* the etag), however many pages save and calculate at the same time.
THEOREM SavesAreFaithful == Spec => []SavesFaithful
<1>1. SaveInv => SavesFaithful
  BY DEF SaveInv, SavesFaithful
<1> QED
  BY <1>1, SaveInit, SaveNext, PTL DEF Spec

-----------------------------------------------------------------------------
(* The launches of the composed system: a behaviour that begins with them  *)
(* is one of CalculatorLaunch, so that what holds there holds here.        *)

LEMMA LaunchBegins == ProjectInit /\ side = "launch" => Launch!Init
BY DEF ProjectInit

LEMMA LaunchGoesOn ==
  side = "launch" /\ [ProjectNext]_<<side, vars, launchVars>> =>
    [Launch!Next]_(Launch!vars) /\ (side = "launch")'
BY DEF ProjectNext, launchVars, Launch!vars

LEMMA SharingGoesOn ==
  ~(side = "launch") /\ [ProjectNext]_<<side, vars, launchVars>> => ~(side = "launch")'
BY DEF ProjectNext

\* However often a launch is asked for, claimed and purged, at most one launch of
\* the owner waits for a companion (create of calculator_launches.rs looks for it
\* under the lock, with a clock read before).
THEOREM OneLaunchWaits == ProjectSpec => []OneReady
<1>1. Launch!Init /\ [][Launch!Next]_(Launch!vars) => []Launch!OneReady
  BY LaunchAssumption, Launch!OneLaunchWaits DEF Launch!Spec
<1>2. (side = "launch" => Launch!OneReady) => OneReady
  BY DEF OneReady
<1> QED
  BY <1>1, <1>2, LaunchBegins, LaunchGoesOn, SharingGoesOn, PTL DEF ProjectSpec

\* The etag that claim answers a companion with is the one acknowledge asks it for,
\* also when a resent request claims once more (claim and acknowledge of
\* calculator_launches.rs).
THEOREM EtagsHold == ProjectSpec => []ClaimantsEtagHolds
<1>1. Launch!Init /\ [][Launch!Next]_(Launch!vars) => []Launch!ClaimantsEtagHolds
  BY LaunchAssumption, Launch!EtagsHold DEF Launch!Spec
<1>2. (side = "launch" => Launch!ClaimantsEtagHolds) => ClaimantsEtagHolds
  BY DEF ClaimantsEtagHolds
<1> QED
  BY <1>1, <1>2, LaunchBegins, LaunchGoesOn, SharingGoesOn, PTL DEF ProjectSpec

\* What acknowledge erased, no create, claim or purge brings back in a replica that
\* has not restarted (acknowledge of calculator_launches.rs).
THEOREM ErasedForGood == ProjectSpec => []AcknowledgedIsErased
<1>1. Launch!Init /\ [][Launch!Next]_(Launch!vars) => []Launch!AcknowledgedIsErased
  BY LaunchAssumption, Launch!ErasedForGood DEF Launch!Spec
<1>2. (side = "launch" => Launch!AcknowledgedIsErased) => AcknowledgedIsErased
  BY DEF AcknowledgedIsErased
<1> QED
  BY <1>1, <1>2, LaunchBegins, LaunchGoesOn, SharingGoesOn, PTL DEF ProjectSpec
=============================================================================
