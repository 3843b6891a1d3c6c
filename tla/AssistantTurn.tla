--------------------------- MODULE AssistantTurn ---------------------------
(***************************************************************************)
(* One assistant turn (assistant/turn.rs): the host asks the model, checks *)
(* what it proposes as a whole (assistant/policy.rs), runs the calls one   *)
(* by one and asks again, within budgets of model requests, tool calls and *)
(* time (assistant/budget.rs, assistant/context.rs).  A turn that begins   *)
(* with an image and no project classifies the image first                 *)
(* (assistant/classification.rs).  The model is the environment: it may    *)
(* answer anything, late, or not at all.                                   *)
(***************************************************************************)
EXTENDS Integers, Sequences, FiniteSets, SequencesExt

CONSTANTS
  MaxModelRequests,     \* MAX_MODEL_REQUESTS
  MaxToolCalls,         \* MAX_TOOL_CALLS
  MaxCallsPerResponse,  \* MAX_TOOL_CALLS_PER_RESPONSE
  ClassifierAttempts,   \* CLASSIFICATION_MAX_ATTEMPTS
  WallClock,            \* MAX_TURN_WALL_CLOCK, in ticks
  CallTimeout,          \* MAX_MODEL_CALL_TIMEOUT, in ticks
  PromptRoom,           \* round trips that fit into MAX_PROMPT_CONTEXT_CHARS
  Menu                  \* bound: the calls a model proposes, [tool, args] records

\* the registered tools: who may see them and what they may answer
TOOLS ==
  [get_agent_capabilities  |-> [phase |-> "read_plan", project |-> "any",
                                answers |-> {"completed"}],
   get_application_help    |-> [phase |-> "read_plan", project |-> "any",
                                answers |-> {"completed"}],
   get_current_project     |-> [phase |-> "read_plan", project |-> "selected",
                                answers |-> {"completed", "unavailable", "error"}],
   validate_project_patch  |-> [phase |-> "read_plan", project |-> "selected",
                                answers |-> {"completed", "invalid", "unavailable", "error"}],
   calculate_project_draft |-> [phase |-> "read_plan", project |-> "selected",
                                answers |-> {"completed", "invalid", "unavailable", "error"}],
   stage_project_patch     |-> [phase |-> "propose", project |-> "selected",
                                answers |-> {"staged", "reported", "invalid", "unavailable",
                                             "error"}],
   stage_new_project_draft |-> [phase |-> "propose", project |-> "unselected",
                                answers |-> {"staged", "reported", "invalid"}]]

\* what parse_input makes of the arguments, and a draft of the wrong project type
Arguments == {"valid", "unknown_field", "invalid", "other_type"}

ASSUME TurnAssumption ==
  /\ MaxModelRequests \in Nat /\ MaxToolCalls \in Nat \ {0}
  /\ MaxCallsPerResponse \in Nat \ {0} /\ PromptRoom \in Nat
  /\ ClassifierAttempts \in Nat \ {0} /\ ClassifierAttempts < MaxModelRequests
  /\ WallClock \in Nat \ {0} /\ CallTimeout \in Nat \ {0}
  /\ \A c \in Menu : c.args \in Arguments

VARIABLES
  context,      \* [image, selected]: what the turn was asked with
  pc,           \* "classify", "loop", "asked" or "dispatch"; then how it ended
  left,         \* TurnContext::remaining
  callLeft,     \* what is left of the time of the model call
  requests,     \* TurnBudget::model_requests; the classifier's while it runs
  toolCalls,    \* TurnBudget::tool_calls
  classified,   \* whether the host fixed the project type
  repair,       \* "none", "pending", "asking" or "spent": the one schema repair
  imageWaiting, \* the image goes with the next request
  queue,        \* accepted calls that have not run
  transcript,   \* round trips the model still sees, oldest first: sets of call ids
  executed,     \* executed_call_ids
  proposal,     \* the call that staged the proposal, or 0
  notes,        \* the call whose omissions and uncertainties are kept, or 0
  ran,          \* history: the calls that ran, in order
  sent,         \* history: requests the model service got
  shown         \* history: [image, after]: whether a request had the image, and the calls run before it

vars == <<context, pc, left, callLeft, requests, toolCalls, classified, repair, imageWaiting,
          queue, transcript, executed, proposal, notes, ran, sent, shown>>

budgets == <<requests, toolCalls>>
results == <<proposal, notes, ran, executed>>
asked   == <<sent, shown>>

Ended == {"answered", "review", "deadline", "budget", "policy", "model"}

Running == pc \notin Ended

Init ==
  /\ context \in [image : BOOLEAN, selected : BOOLEAN]
  /\ pc = IF context.image /\ ~context.selected THEN "classify" ELSE "loop"
  /\ left = WallClock /\ callLeft = 0
  /\ requests = 0 /\ toolCalls = 0
  /\ classified = FALSE /\ repair = "none" /\ imageWaiting = context.image
  /\ queue = <<>> /\ transcript = <<>> /\ executed = {}
  /\ proposal = 0 /\ notes = 0
  /\ ran = <<>> /\ sent = 0 /\ shown = {}

-----------------------------------------------------------------------------
(* The clock.  It runs in every state of the turn: also while a tool runs, *)
(* which no deadline interrupts.                                           *)

Smaller(a, b) == IF a < b THEN a ELSE b

\* model_call_timeout
ModelCallTimeout(remaining) == Smaller(remaining, CallTimeout)

Tick ==
  /\ Running
  /\ left > 0
  /\ left' = left - 1
  /\ callLeft' = IF callLeft > 0 THEN callLeft - 1 ELSE 0
  /\ UNCHANGED <<context, pc, budgets, classified, repair, imageWaiting, queue, transcript,
                 results, asked>>

Expired == left = 0

-----------------------------------------------------------------------------
(* Classifying the image of a new draft.                                   *)

\* one attempt; with no time left it is not made
Classify ==
  /\ pc = "classify" /\ callLeft = 0
  /\ IF Expired
     THEN /\ pc' = "model"
          /\ UNCHANGED <<callLeft, requests, asked>>
     ELSE /\ pc' = "classifying"
          /\ callLeft' = ModelCallTimeout(left)
          /\ requests' = requests + 1
          /\ sent' = sent + 1
          /\ shown' = shown \cup {[image |-> TRUE, after |-> 0]}
  /\ UNCHANGED <<context, left, toolCalls, classified, repair, imageWaiting, queue, transcript,
                 results>>

\* seeded fault: only the last attempt is charged to the turn
ChargeOneClassification == /\ requests' = 1 /\ toolCalls' = 1

\* the turn begins with the classifier's requests and its one tool call charged
ChargeClassification == /\ requests' = requests /\ toolCalls' = 1

\* a decisive type: the turn goes on with it
Classified ==
  /\ pc = "classifying" /\ callLeft > 0
  /\ pc' = "loop" /\ callLeft' = 0
  /\ classified' = TRUE
  /\ ChargeClassification
  /\ UNCHANGED <<context, left, repair, imageWaiting, queue, transcript, results, asked>>

\* a type of low confidence or none: the user reviews the image; no turn is run
Undecided ==
  /\ pc = "classifying" /\ callLeft > 0
  /\ pc' = "review"
  /\ UNCHANGED <<context, left, callLeft, budgets, classified, repair, imageWaiting, queue,
                 transcript, results, asked>>

\* a malformed answer is asked for again while attempts are left
Malformed ==
  /\ pc = "classifying" /\ callLeft > 0
  /\ pc' = IF requests < ClassifierAttempts THEN "classify" ELSE "model"
  /\ callLeft' = 0
  /\ UNCHANGED <<context, left, budgets, classified, repair, imageWaiting, queue, transcript,
                 results, asked>>

-----------------------------------------------------------------------------
(* Asking the model.                                                       *)

\* compact: the oldest round trips go until the rest fits
Compact(trips) ==
  SubSeq(trips, 1 + (IF Len(trips) > PromptRoom THEN Len(trips) - PromptRoom ELSE 0), Len(trips))

\* charge_model_request
RequestsLeft == requests < MaxModelRequests

Ask ==
  /\ pc = "loop" /\ ~Expired /\ RequestsLeft
  /\ pc' = "asked"
  /\ requests' = requests + 1
  /\ callLeft' = ModelCallTimeout(left)
  /\ transcript' = Compact(transcript)
  /\ repair' = IF repair = "pending" THEN "asking" ELSE repair
  /\ imageWaiting' = FALSE
  /\ sent' = sent + 1
  /\ shown' = shown \cup {[image |-> imageWaiting \/ repair = "pending", after |-> Len(ran)]}
  /\ UNCHANGED <<context, left, toolCalls, classified, queue, results>>

\* no time or no request is left
GiveUp ==
  /\ pc = "loop"
  /\ \/ Expired /\ pc' = "deadline"
     \/ ~Expired /\ ~RequestsLeft /\ pc' = "budget"
  /\ UNCHANGED <<context, left, callLeft, budgets, classified, repair, imageWaiting, queue,
                 transcript, results, asked>>

\* the call times out, or the service fails
ModelFails ==
  /\ pc \in {"asked", "classifying"}
  /\ pc' = "model"
  /\ UNCHANGED <<context, left, callLeft, budgets, classified, repair, imageWaiting, queue,
                 transcript, results, asked>>

\* seeded fault: nothing ends a call that is not answered
NeverTimesOut == FALSE /\ ModelFails

TimesOut == callLeft = 0 /\ ModelFails

-----------------------------------------------------------------------------
(* What the model proposes, and preflight.                                 *)

\* up to one call too many; the ids are new, or the last one has been used
Batch(calls, again) ==
  [i \in DOMAIN calls |->
     [id   |-> IF again /\ i = Len(calls) THEN 1 ELSE Len(ran) + i,
      tool |-> calls[i].tool,
      args |-> calls[i].args]]

Proposals ==
  {Batch(calls, again) : calls \in SeqOf(Menu, MaxCallsPerResponse + 1), again \in BOOLEAN}

\* ToolDefinition::is_available, in the phase "propose" both handlers run in
Available(tool) ==
  TOOLS[tool].project = "any" \/ (TOOLS[tool].project = "selected") = context.selected

\* the host never lets the draft differ from the type it classified
RightType(call) == call.args = "other_type" => ~classified

\* is_acceptable_call_id, and not used before
FreshId(batch, i, used) ==
  batch[i].id \notin used /\ \A j \in 1..(i - 1) : batch[j].id # batch[i].id

\* the error of the i-th call, in the order preflight looks
CallError(batch, i, used) ==
  IF ~FreshId(batch, i, used) THEN "call_id"
  ELSE IF batch[i].tool \notin DOMAIN TOOLS THEN "unknown_tool"
  ELSE IF ~Available(batch[i].tool) THEN "project_context"
  ELSE IF batch[i].args \in {"unknown_field", "invalid"} THEN batch[i].args
  ELSE IF ~RightType(batch[i]) THEN "classification"
  ELSE "none"

Wrong(batch, used) == {i \in DOMAIN batch : CallError(batch, i, used) # "none"}

\* preflight: the first error of the batch, or "none"
Preflight(batch) ==
  IF batch = <<>> THEN "empty_batch"
  ELSE IF Len(batch) > MaxCallsPerResponse \/ Len(batch) > MaxToolCalls - toolCalls THEN "too_many"
  ELSE IF Wrong(batch, executed) # {} THEN CallError(batch, CHOOSE i \in Wrong(batch, executed) :
                                           \A j \in Wrong(batch, executed) : i <= j, executed)
  ELSE "none"

\* seeded fault: a repair is also tried after calls have run
RepairableLate == context.image /\ ~context.selected /\ classified /\ repair = "none"

\* the one repair: an image draft, before anything has run
Repairable ==
  /\ context.image /\ ~context.selected /\ classified
  /\ executed = {} /\ repair = "none"

Idle == callLeft' = 0

Accept(batch) ==
  /\ Preflight(batch) = "none"
  /\ pc' = "dispatch"
  /\ toolCalls' = toolCalls + Len(batch)
  /\ queue' = batch
  /\ transcript' = Append(transcript, {batch[i].id : i \in DOMAIN batch})
  /\ UNCHANGED repair

Repair(batch) ==
  /\ Preflight(batch) = "unknown_field" /\ Repairable
  /\ pc' = "loop"
  /\ repair' = "pending"
  /\ UNCHANGED <<toolCalls, queue, transcript>>

Refuse(batch) ==
  /\ Preflight(batch) # "none"
  /\ ~(Preflight(batch) = "unknown_field" /\ Repairable)
  /\ pc' = "policy"
  /\ UNCHANGED <<toolCalls, queue, transcript, repair>>

Propose ==
  /\ pc = "asked" /\ callLeft > 0
  /\ \E batch \in Proposals : Accept(batch) \/ Repair(batch) \/ Refuse(batch)
  /\ Idle
  /\ UNCHANGED <<context, left, requests, classified, imageWaiting, results, asked>>

\* the model's text ends the turn; before any call has run it is refused
Answer ==
  /\ pc = "asked" /\ callLeft > 0
  /\ pc' = IF executed = {} THEN "policy" ELSE "answered"
  /\ Idle
  /\ UNCHANGED <<context, left, budgets, classified, repair, imageWaiting, queue, transcript,
                 results, asked>>

-----------------------------------------------------------------------------
(* Running the accepted calls.                                             *)

\* a report replaces the notes; only a staged change replaces the proposal
Keep(call, answer) ==
  /\ notes' = IF answer \in {"staged", "reported"} THEN call.id ELSE notes
  /\ proposal' = IF answer = "staged" THEN call.id ELSE proposal

Dispatch ==
  /\ pc = "dispatch" /\ queue # <<>> /\ ~Expired
  /\ LET call == Head(queue) IN
       \E answer \in TOOLS[call.tool].answers :
         /\ executed' = executed \cup {call.id}
         /\ ran' = Append(ran, call.id)
         /\ Keep(call, answer)
  /\ queue' = Tail(queue)
  /\ UNCHANGED <<context, pc, left, callLeft, budgets, classified, repair, imageWaiting,
                 transcript, asked>>

Abandon ==
  /\ pc = "dispatch" /\ queue # <<>> /\ Expired
  /\ pc' = "deadline"
  /\ UNCHANGED <<context, left, callLeft, budgets, classified, repair, imageWaiting, queue,
                 transcript, results, asked>>

BatchDone ==
  /\ pc = "dispatch" /\ queue = <<>>
  /\ pc' = "loop"
  /\ UNCHANGED <<context, left, callLeft, budgets, classified, repair, imageWaiting, queue,
                 transcript, results, asked>>

-----------------------------------------------------------------------------

Done == ~Running /\ UNCHANGED vars

Host == Classify \/ Ask \/ GiveUp \/ TimesOut \/ Dispatch \/ Abandon \/ BatchDone

Model == Classified \/ Undecided \/ Malformed \/ Propose \/ Answer \/ ModelFails

Next == Tick \/ Host \/ Model \/ Done

\* time passes and the host's steps end; the model need not answer
Fairness == WF_vars(Tick) /\ WF_vars(Host)

Spec == Init /\ [][Next]_vars /\ Fairness

-----------------------------------------------------------------------------
(* Properties.                                                             *)

(* The requests the model service gets for a turn, those of the classifier *)
(* and of the schema repair among them, are within the budget, and so are  *)
(* the calls that run: charge_model_request and charge_tool_calls, which   *)
(* count what the classifier used before the turn began.  No call id runs  *)
(* twice, also when compaction has dropped the round trip it first came    *)
(* with: preflight looks at executed_call_ids.                             *)
BudgetsHold ==
  /\ sent <= MaxModelRequests
  /\ Len(ran) <= MaxToolCalls - (IF classified THEN 1 ELSE 0)
  /\ IsInjective(ran)

(* The image goes with exactly the requests that are sent before a tool    *)
(* has run: those of the classifier, the first of the turn itself and the  *)
(* one schema repair.  No tool runs before such a request, so the model    *)
(* has been sent the image of a turn before it proposes a call that runs.  *)
ImageBeforeTools ==
  /\ \A request \in shown : request.image <=> context.image /\ request.after = 0
  /\ ran # <<>> => \E request \in shown : request.after = 0

(* Every turn ends, whatever the model answers and if it answers nothing.  *)
TurnEnds == <>~Running

=============================================================================
