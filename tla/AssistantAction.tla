-------------------------- MODULE AssistantAction --------------------------
(***************************************************************************)
(* What a user confirms: a turn stages a patch of the project it was asked *)
(* about (stage_project_patch), the handler binds it to the version the    *)
(* turn began with (bind_proposal), the browser shows the changes, and a   *)
(* separate request applies the patch (the action handler of               *)
(* api/assistant.rs), while other pages save the same project.             *)
(***************************************************************************)
EXTENDS Integers, FiniteSets

CONSTANTS
  Turns,       \* assistant turns about the project
  Confirms,    \* confirmation requests
  Fields,      \* fields of an editable project
  Values,      \* their values
  MaxChanges,  \* MAX_PROPOSAL_CHANGES
  MaxEtag,     \* bound: saves of the project
  MaxPreviews, \* bound: proposals the pages have
  Gone         \* no project

Body == [Fields -> Values]

\* ProjectPatch: the fields it names and their new values
Patches == UNION {[named -> Values] : named \in SUBSET Fields}

VARIABLES
  project,   \* [etag, body], or Gone
  selected,  \* SelectedProject::etag of each turn; 0 before its handler has read the project
  previews,  \* bound proposals the browser has: [etag, patch, changes]
  stage,     \* where each confirmation is; its answer once it has one
  request,   \* the preview each confirmation names; its patch may be another's
  candidate, \* the project each confirmation will store
  written,   \* the etag of its write
  applied    \* history: [confirm, preview] of each write

vars == <<project, selected, previews, stage, request, candidate, written, applied>>

turnVars == <<selected, previews>>
sent == <<request, candidate, written>>

Init ==
  /\ project \in [etag : {1}, body : Body]
  /\ selected = [t \in Turns |-> 0]
  /\ previews = {}
  /\ stage = [c \in Confirms |-> "idle"]
  /\ request = [c \in Confirms |-> Gone]
  /\ candidate = [c \in Confirms |-> Gone]
  /\ written = [c \in Confirms |-> 0]
  /\ applied = {}

-----------------------------------------------------------------------------
(* The turn.                                                               *)

\* ProjectPatch::apply
Apply(patch, body) == [f \in Fields |-> IF f \in DOMAIN patch THEN patch[f] ELSE body[f]]

\* project_patch_changes: the named fields that differ
Changes(patch, body) ==
  [f \in {g \in DOMAIN patch : patch[g] # body[g]} |-> [before |-> body[f], after |-> patch[f]]]

\* the handler reads the project the turn is about
Select(t) ==
  /\ selected[t] = 0 /\ project # Gone
  /\ selected' = [selected EXCEPT ![t] = project.etag]
  /\ UNCHANGED <<project, previews, stage, sent, applied>>

\* bind_project_patch_proposal
Bind(t, patch, changes) ==
  [etag |-> selected[t], patch |-> patch, changes |-> changes]

\* the tool reads the project again; a report without changes has no proposal
Stage(t) ==
  /\ selected[t] > 0 /\ project # Gone
  /\ Cardinality(previews) < MaxPreviews
  /\ \E patch \in Patches :
       LET changes == Changes(patch, project.body) IN
       /\ Cardinality(DOMAIN changes) \in 1..MaxChanges
       /\ previews' = previews \cup {Bind(t, patch, changes)}
  /\ selected' = [selected EXCEPT ![t] = 0]
  /\ UNCHANGED <<project, stage, sent, applied>>

-----------------------------------------------------------------------------
(* The confirmation.                                                       *)

Goto(c, place) == stage' = [stage EXCEPT ![c] = place]

\* proposal_id: one to one with what it binds
ProposalId(preview) == [etag |-> preview.etag, patch |-> preview.patch]

\* seeded fault: the identifier does not cover the patch
BoundToVersion(shown, patch) == TRUE

BoundTo(shown, patch) == ProposalId(shown) = ProposalId([shown EXCEPT !.patch = patch])

\* the browser confirms what it shows; a page that mixes two proposals is refused
Confirm(c) ==
  /\ stage[c] = "idle"
  /\ \E shown \in previews, other \in previews :
       /\ request' = [request EXCEPT ![c] = [shown EXCEPT !.patch = other.patch]]
       /\ Goto(c, IF BoundTo(shown, other.patch) THEN "get" ELSE "mismatch")
  /\ UNCHANGED <<project, turnVars, candidate, written, applied>>

\* the handler reads the project and prepares the one to store
Get(c) ==
  /\ stage[c] = "get"
  /\ IF project # Gone /\ project.etag = request[c].etag
     THEN /\ candidate' = [candidate EXCEPT ![c] = Apply(request[c].patch, project.body)]
          /\ Goto(c, "check")
     ELSE /\ Goto(c, IF project = Gone THEN "not_found" ELSE "precondition")
          /\ UNCHANGED candidate
  /\ UNCHANGED <<project, turnVars, request, written, applied>>

\* update_project_document reads it again before the calculation
Check(c) ==
  /\ stage[c] = "check"
  /\ Goto(c, IF project = Gone THEN "not_found"
             ELSE IF project.etag = request[c].etag THEN "write" ELSE "precondition")
  /\ UNCHANGED <<project, turnVars, sent, applied>>

\* seeded fault: the replacement carries no condition
Unconditional(c) == project # Gone

WriteMatches(c) == project # Gone /\ project.etag = request[c].etag

\* the conditional write; its answer may be lost
Write(c) ==
  /\ stage[c] = "write" /\ WriteMatches(c)
  /\ project.etag < MaxEtag
  /\ project' = [etag |-> project.etag + 1, body |-> candidate[c]]
  /\ written' = [written EXCEPT ![c] = project.etag + 1]
  /\ applied' = applied \cup {[confirm |-> c, etag |-> request[c].etag,
                               patch |-> request[c].patch]}
  /\ Goto(c, "reread") \/ Goto(c, "failed")
  /\ UNCHANGED <<turnVars, request, candidate>>

WriteRefused(c) ==
  /\ stage[c] = "write" /\ ~WriteMatches(c)
  /\ Goto(c, IF project = Gone THEN "not_found" ELSE "precondition")
  /\ UNCHANGED <<project, turnVars, sent, applied>>

\* what is answered is read back, and must be what was written
Reread(c) ==
  /\ stage[c] = "reread"
  /\ Goto(c, IF project = Gone THEN "not_found"
             ELSE IF project.etag = written[c] /\ project.body = candidate[c] THEN "ok"
             ELSE "precondition")
  /\ UNCHANGED <<project, turnVars, sent, applied>>

\* a read or a write fails, or the calculation does
Fail(c) ==
  /\ stage[c] \in {"get", "check", "write", "reread"}
  /\ Goto(c, "failed")
  /\ UNCHANGED <<project, turnVars, sent, applied>>

-----------------------------------------------------------------------------
(* The other pages.                                                        *)

Save ==
  /\ project # Gone /\ project.etag < MaxEtag
  /\ \E body \in Body : project' = [etag |-> project.etag + 1, body |-> body]
  /\ UNCHANGED <<turnVars, stage, sent, applied>>

Delete ==
  /\ project # Gone
  /\ project' = Gone
  /\ UNCHANGED <<turnVars, stage, sent, applied>>

Next ==
  \/ \E t \in Turns : Select(t) \/ Stage(t)
  \/ \E c \in Confirms :
       \/ Confirm(c) \/ Get(c) \/ Check(c) \/ Write(c) \/ WriteRefused(c) \/ Reread(c) \/ Fail(c)
  \/ Save \/ Delete

Spec == Init /\ [][Next]_vars

-----------------------------------------------------------------------------
(* Properties.                                                             *)

\* what a write changes in the project
Difference ==
  [f \in {g \in Fields : project.body[g] # project'.body[g]} |->
     [before |-> project.body[f], after |-> project'.body[f]]]

\* what a step applies is what a preview of that version showed
AppliedAsShown ==
  \A a \in applied' \ applied :
    \E shown \in previews :
      /\ ProposalId(shown) = [etag |-> a.etag, patch |-> a.patch]
      /\ shown.changes = Difference

(* A confirmed action changes the project exactly as a preview of the      *)
(* browser said: the same fields, from the same old to the same new        *)
(* values.  A turn may have read a newer project than the one it is bound  *)
(* to, and pages save at any time; the action then must not apply.         *)
AppliesWhatWasShown == [][AppliedAsShown]_vars

(* One proposal is applied once, however often and however closely it is   *)
(* confirmed: the write is conditional on the etag the proposal is bound   *)
(* to.                                                                     *)
AppliedOnce ==
  \A a, b \in applied : a.etag = b.etag => a = b
=============================================================================
