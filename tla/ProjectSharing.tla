---------------------------- MODULE ProjectSharing ----------------------------
(***************************************************************************)
(* One saved project and its shares (api/projects.rs,                      *)
(* api/project_shares.rs, the Cosmos repositories of persistence/cosmos.rs):*)
(* editors save it under the etag they opened, sharers copy it into shares *)
(* of another partition, deleters revoke its shares, delete it and revoke  *)
(* its shares again.  No transaction spans the two partitions: every step  *)
(* is one round trip to the store.                                         *)
(* A share is named after the request that creates it.                     *)
(***************************************************************************)
EXTENDS Naturals, FiniteSets

CONSTANTS
  Editors,    \* requests to save the project, each from a page of its own
  Sharers,    \* requests to share it
  Deleters,   \* requests to delete it
  Inputs,     \* what its calculation depends on: settings, resources, snapshots
  Priced,     \* the inputs for which there are prices
  Faults,     \* what may go wrong, a subset of FaultKinds
  NoProject, NoRevision

FaultKinds == {"outage", "resent"}

\* a calculation revision is named after the inputs it was calculated for;
\* edits: the saves its content comes from
ProjectDocument ==
  [inputs : Inputs, revision : Inputs \cup {NoRevision}, edits : SUBSET Editors, etag : Nat]

ASSUME SharingAssumption ==
  /\ Priced \subseteq Inputs
  /\ Faults \subseteq FaultKinds
  /\ NoProject \notin ProjectDocument
  /\ NoRevision \notin Inputs

VARIABLES
  project,   \* the project document, or NoProject
  shares,    \* the shares in the store
  editor,    \* where each editor is
  opened,    \* the project an editor opened
  draft,     \* the inputs an editor saves
  revision,  \* the revision calculated for them
  sharer,    \* where each sharer is
  deleter,   \* where each deleter is
  listed     \* the shares a deleter has found and not deleted yet

editing == <<editor, opened, draft, revision>>
deleting == <<deleter, listed>>
vars == <<project, shares, editing, sharer, deleting>>

Calculated(inputs) == IF inputs \in Priced THEN inputs ELSE NoRevision

Init ==
  /\ \E inputs \in Inputs :
       project = [inputs |-> inputs, revision |-> Calculated(inputs), edits |-> {}, etag |-> 1]
  /\ shares = {}
  /\ editor = [e \in Editors |-> "idle"]
  /\ opened = [e \in Editors |-> NoProject]
  /\ draft \in [Editors -> Inputs]
  /\ revision = [e \in Editors |-> NoRevision]
  /\ sharer = [s \in Sharers |-> "idle"]
  /\ deleter = [d \in Deleters |-> "idle"]
  /\ listed = [d \in Deleters |-> {}]

-----------------------------------------------------------------------------
(* Saving: the page opened the project and sends its etag.                 *)

Edit(e, place) == editor' = [editor EXCEPT ![e] = place]

Open(e) ==
  /\ editor[e] = "idle"
  /\ project # NoProject
  /\ opened' = [opened EXCEPT ![e] = project]
  /\ Edit(e, "check")
  /\ UNCHANGED <<project, shares, draft, revision, sharer, deleting>>

\* seeded fault: a project is enough
Exists(e) == project # NoProject

\* the document still has the etag that was opened
EtagMatches(e) == project # NoProject /\ project.etag = opened[e].etag

Unmatched(e) == Edit(e, IF project = NoProject THEN "missing" ELSE "stale")

\* update_project_document: the revision is only calculated for new inputs
Check(e) ==
  /\ editor[e] = "check"
  /\ \/ ~EtagMatches(e) /\ Unmatched(e)
     \/ EtagMatches(e) /\ Edit(e, IF draft[e] = project.inputs THEN "reread" ELSE "calculate")
  /\ UNCHANGED <<project, shares, opened, draft, revision, sharer, deleting>>

\* no slot or no prices: nothing is saved
Calculate(e) ==
  /\ editor[e] = "calculate"
  /\ \/ /\ revision' = [revision EXCEPT ![e] = Calculated(draft[e])]
        /\ Edit(e, "reread")
     \/ /\ draft[e] \in Priced
        /\ Edit(e, "failed")
        /\ revision' = revision
  /\ UNCHANGED <<project, shares, opened, draft, sharer, deleting>>

\* the repository reads the document again and prepares the new one from it
Reread(e) ==
  /\ editor[e] = "reread"
  /\ \/ ~EtagMatches(e) /\ Unmatched(e) /\ revision' = revision
     \/ /\ EtagMatches(e)
        /\ Edit(e, "replace")
        /\ revision' = [revision EXCEPT ![e] =
             IF draft[e] = project.inputs THEN project.revision ELSE @]
  /\ UNCHANGED <<project, shares, opened, draft, sharer, deleting>>

Saved(e) ==
  project' = [inputs |-> draft[e], revision |-> revision[e],
              edits |-> opened[e].edits \cup {e}, etag |-> project.etag + 1]

Replace(e) ==
  /\ editor[e] = "replace"
  /\ \/ EtagMatches(e) /\ Saved(e) /\ Edit(e, "saved")
     \/ ~EtagMatches(e) /\ project' = project /\ Unmatched(e)
  /\ UNCHANGED <<shares, opened, draft, revision, sharer, deleting>>

\* the write is applied and its answer lost, or it is sent again and fails on
\* its own etag: the page is told that nothing was saved
ReplaceUnanswered(e) ==
  /\ "resent" \in Faults
  /\ editor[e] = "replace"
  /\ EtagMatches(e)
  /\ Saved(e)
  /\ Edit(e, "stale")
  /\ UNCHANGED <<shares, opened, draft, revision, sharer, deleting>>

-----------------------------------------------------------------------------
(* Sharing.                                                                *)

Share(s, place) == sharer' = [sharer EXCEPT ![s] = place]

ReadSource(s) ==
  /\ sharer[s] = "idle"
  /\ Share(s, IF project = NoProject THEN "missing" ELSE "create")
  /\ UNCHANGED <<project, shares, editing, deleting>>

CreateShare(s) ==
  /\ sharer[s] = "create"
  /\ shares' = shares \cup {s}
  /\ Share(s, "recheck")
  /\ UNCHANGED <<project, editing, deleting>>

\* seeded fault: the source is not read again
Trust(s) ==
  /\ sharer[s] = "recheck"
  /\ Share(s, "shared")
  /\ UNCHANGED <<project, shares, editing, deleting>>

\* the owner gets the link only if the project is still there
Recheck(s) ==
  /\ sharer[s] = "recheck"
  /\ Share(s, IF project = NoProject THEN "cleanup" ELSE "shared")
  /\ UNCHANGED <<project, shares, editing, deleting>>

\* revoke: the share may be gone already
Cleanup(s) ==
  /\ sharer[s] = "cleanup"
  /\ shares' = shares \ {s}
  /\ Share(s, "missing")
  /\ UNCHANGED <<project, editing, deleting>>

\* the owner revokes a share, or an expired one is removed when it is opened
Withdraw(s) ==
  /\ s \in shares
  /\ sharer[s] = "shared"
  /\ shares' = shares \ {s}
  /\ UNCHANGED <<project, editing, sharer, deleting>>

-----------------------------------------------------------------------------
(* Deleting.                                                               *)

Delete(d, place) == deleter' = [deleter EXCEPT ![d] = place]

\* revoke_project queries the shares, before and after the deletion
ListShares(d, from, to) ==
  /\ deleter[d] = from
  /\ listed' = [listed EXCEPT ![d] = shares]
  /\ Delete(d, to)
  /\ UNCHANGED <<project, shares, editing, sharer>>

\* and deletes them one by one: one that is gone ends the whole request
RevokeListed(d, at, next) ==
  /\ deleter[d] = at
  /\ \/ /\ listed[d] = {}
        /\ Delete(d, next)
        /\ UNCHANGED <<shares, listed>>
     \/ \E s \in listed[d] :
          /\ s \in shares
          /\ shares' = shares \ {s}
          /\ listed' = [listed EXCEPT ![d] = @ \ {s}]
          /\ deleter' = deleter
     \/ /\ ~(listed[d] \subseteq shares)
        /\ Delete(d, "failed")
        /\ UNCHANGED <<shares, listed>>
  /\ UNCHANGED <<project, editing, sharer>>

DeleteProject(d) ==
  /\ deleter[d] = "delete"
  /\ project' = NoProject
  /\ Delete(d, IF project = NoProject THEN "missing" ELSE "list_again")
  /\ UNCHANGED <<shares, editing, sharer, listed>>

-----------------------------------------------------------------------------
(* The store fails, before or after it has done what it was asked.         *)

EditFails(e) ==
  /\ "outage" \in Faults
  /\ editor[e] \in {"check", "calculate", "reread", "replace"}
  /\ Edit(e, "failed")
  /\ UNCHANGED <<project, shares, opened, draft, revision, sharer, deleting>>

\* a recheck that fails is followed by a cleanup like one that finds nothing
ShareFails(s) ==
  /\ "outage" \in Faults
  /\ \/ sharer[s] \in {"create", "cleanup"} /\ Share(s, "failed") /\ shares' = shares
     \/ sharer[s] = "create" /\ Share(s, "failed") /\ shares' = shares \cup {s}
     \/ sharer[s] = "recheck" /\ Share(s, "cleanup") /\ shares' = shares
  /\ UNCHANGED <<project, editing, deleting>>

DeleteFails(d) ==
  /\ "outage" \in Faults
  /\ \/ deleter[d] \in {"revoke", "delete", "list_again", "revoke_again"}
        /\ project' = project
     \/ deleter[d] = "delete" /\ project' = NoProject
  /\ Delete(d, "failed")
  /\ UNCHANGED <<shares, editing, sharer, listed>>

-----------------------------------------------------------------------------

EditorStep(e) ==
  \/ Open(e) \/ Check(e) \/ Calculate(e) \/ Reread(e) \/ Replace(e)
  \/ ReplaceUnanswered(e) \/ EditFails(e)

SharerStep(s) ==
  ReadSource(s) \/ CreateShare(s) \/ Recheck(s) \/ Cleanup(s) \/ Withdraw(s) \/ ShareFails(s)

DeleterStep(d) ==
  \/ ListShares(d, "idle", "revoke") \/ RevokeListed(d, "revoke", "delete")
  \/ DeleteProject(d)
  \/ ListShares(d, "list_again", "revoke_again") \/ RevokeListed(d, "revoke_again", "deleted")
  \/ DeleteFails(d)

Next ==
  \/ \E e \in Editors : EditorStep(e)
  \/ \E s \in Sharers : SharerStep(s)
  \/ \E d \in Deleters : DeleterStep(d)

Spec == Init /\ [][Next]_vars

-----------------------------------------------------------------------------
(* Properties.                                                             *)

TypeOK ==
  /\ project \in ProjectDocument \cup {NoProject}
  /\ shares \subseteq Sharers
  /\ editor \in [Editors ->
       {"idle", "check", "calculate", "reread", "replace", "saved", "stale", "missing", "failed"}]
  /\ opened \in [Editors -> ProjectDocument \cup {NoProject}]
  /\ draft \in [Editors -> Inputs]
  /\ revision \in [Editors -> Inputs \cup {NoRevision}]
  /\ sharer \in [Sharers ->
       {"idle", "create", "recheck", "cleanup", "shared", "missing", "failed"}]
  /\ deleter \in [Deleters ->
       {"idle", "revoke", "delete", "list_again", "revoke_again", "deleted", "missing", "failed"}]
  /\ listed \in [Deleters -> SUBSET Sharers]
  /\ \A e \in Editors : editor[e] \in {"check", "calculate", "reread", "replace"} => opened[e] # NoProject

\* A saved project never shows a result of other inputs, and shows one whenever
\* there are prices: the calculation is made between two reads of the document,
\* and the revision of unchanged inputs is taken from the second.
RevisionFitsInputs ==
  project # NoProject => project.revision = Calculated(project.inputs)

\* No save is lost: what a page was told is saved stays in the project, whoever
\* else saves, from whatever version it was opened.
SavesStay ==
  project # NoProject => \A e \in Editors : editor[e] = "saved" => e \in project.edits

\* What is saved is faithful: the revision is that of the stored inputs, and no
\* save that was acknowledged is lost.
SavesFaithful == RevisionFitsInputs /\ SavesStay

\* A link that was given out does not outlive a delete that was answered, though
\* the share was stored, and its source read again, while the delete ran.
SharedEndsWithProject ==
  (\E d \in Deleters : deleter[d] = "deleted") => \A s \in shares : sharer[s] # "shared"

Ended ==
  /\ \A s \in Sharers : sharer[s] \in {"idle", "shared", "missing", "failed"}
  /\ \A d \in Deleters : deleter[d] \in {"idle", "deleted", "missing", "failed"}

\* What research/Azure Specification.md:255 says: every outstanding share is
\* revoked when the source project is deleted.
DeletedHasNoShare == Ended /\ project = NoProject => shares = {}
=============================================================================
