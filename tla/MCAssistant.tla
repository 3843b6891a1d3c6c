---------------------------- MODULE MCAssistant ----------------------------
(* A turn, the confirmations of what turns have staged, or the requests a  *)
(* replica lets in: the three share no state, so TLC explores them one     *)
(* beside the other.  Fairness is that of the turn.                        *)
EXTENDS AssistantTurn

CONSTANTS
  Turns, Confirms, Fields, Values, MaxChanges, MaxEtag, MaxPreviews, Gone,
  Requests, Images, Keys, Capacity, Period, MaxTrackedKeys, Slots, MaxTime, Untracked, k1

VARIABLES
  side,
  project, selected, previews, stage, request, candidate, written, applied,
  time, bucket, place, key, now, free, task, granted, stamp, regained, promise, rivals, broken

Action == INSTANCE AssistantAction
Limits == INSTANCE RequestLimits

ASSUME LimitsAssumption == Limits!LimitsAssumption

actionVars == <<project, selected, previews, stage, request, candidate, written, applied>>
limitVars == <<time, bucket, place, key, now, free, task, granted, stamp, regained, promise, rivals, broken>>
allVars == <<vars, actionVars, limitVars, side>>

call(tool, args) == [tool |-> tool, args |-> args]

Calls ==
  {call("get_application_help", "valid"), call("stage_project_patch", "valid"),
   call("stage_new_project_draft", "valid"), call("stage_new_project_draft", "unknown_field"),
   call("stage_new_project_draft", "other_type"), call("unknown", "valid")}

MCInit ==
  /\ side \in {"turn", "confirm", "limits"}
  /\ Action!Init /\ Limits!Init
  /\ project.body = [f \in Fields |-> 0]
  /\ key[1] = k1
  /\ \A r, s \in Requests : 1 < r /\ r < s => key[r] = k1 \/ key[s] # k1
  /\ side # "limits" => \A r \in Requests : key[r] = k1
  /\ IF side = "turn" THEN Init
     ELSE /\ context = [image |-> FALSE, selected |-> TRUE] /\ pc = "answered"
          /\ left = 0 /\ callLeft = 0 /\ requests = 0 /\ toolCalls = 0
          /\ classified = FALSE /\ repair = "none" /\ imageWaiting = FALSE
          /\ queue = <<>> /\ transcript = <<>> /\ executed = {}
          /\ proposal = 0 /\ notes = 0 /\ ran = <<>> /\ sent = 0 /\ shown = {}

MCNext ==
  /\ UNCHANGED side
  /\ \/ side = "turn" /\ Next /\ UNCHANGED actionVars /\ UNCHANGED limitVars
     \/ side = "confirm" /\ Action!Next /\ UNCHANGED vars /\ UNCHANGED limitVars
     \/ side = "limits" /\ Limits!Next /\ UNCHANGED vars /\ UNCHANGED actionVars

MCSpec == MCInit /\ [][MCNext]_allVars /\ Fairness

AppliesWhatWasShown == Action!AppliesWhatWasShown
AppliedOnce == Action!AppliedOnce
SlotsCoverWork == Limits!SlotsCoverWork
GrantsBounded == Limits!GrantsBounded
RetryAfterSuffices == Limits!RetryAfterSuffices
=============================================================================
