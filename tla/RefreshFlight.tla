--------------------------- MODULE RefreshFlight ---------------------------
(***************************************************************************)
(* How one replica coalesces the requests to refresh one cache key         *)
(* (PricingCoordinator::start_aws_flight, start_azure_flight and Flight in *)
(* pricing/coordinator.rs): a request joins the flight in the map or puts  *)
(* a new one there and spawns its task; the task stores the result, wakes  *)
(* the waiters and takes the flight out of the map, each under a lock of   *)
(* its own, while requests come, wait and are cancelled.                   *)
(* A flight is named after the request that started it.                    *)
(***************************************************************************)
CONSTANTS Requests, NoFlight

FlightAssumption == NoFlight \notin Requests

VARIABLES
  flights,   \* the flight of the key in the map, or NoFlight
  task,      \* the task of every flight
  result,    \* the flights whose result is set
  pc,        \* where each request is
  flight,    \* the flight it waits for
  woken      \* its Notified future was created before the last notify_waiters

vars == <<flights, task, result, pc, flight, woken>>

TaskStages == {"none", "retrieving", "completing", "notifying", "removing", "ended"}
Waiting == {"listen", "check", "await"}

Init ==
  /\ flights = NoFlight
  /\ task = [f \in Requests |-> "none"]
  /\ result = {}
  /\ pc = [r \in Requests |-> "idle"]
  /\ flight = [r \in Requests |-> NoFlight]
  /\ woken = [r \in Requests |-> FALSE]

-----------------------------------------------------------------------------
(* The request.                                                            *)

Goto(r, place) == pc' = [pc EXCEPT ![r] = place]

\* seeded fault: the map is not looked up
StartAlways(r) ==
  /\ pc[r] = "idle"
  /\ Goto(r, "listen")
  /\ flights' = r
  /\ flight' = [flight EXCEPT ![r] = r]
  /\ task' = [task EXCEPT ![r] = "retrieving"]
  /\ UNCHANGED <<result, woken>>

\* the map is locked from the lookup to the insertion
Start(r) ==
  /\ pc[r] = "idle"
  /\ Goto(r, "listen")
  /\ \/ /\ flights # NoFlight
        /\ flight' = [flight EXCEPT ![r] = flights]
        /\ UNCHANGED <<flights, task>>
     \/ /\ flights = NoFlight
        /\ flights' = r
        /\ flight' = [flight EXCEPT ![r] = r]
        /\ task' = [task EXCEPT ![r] = "retrieving"]
  /\ UNCHANGED <<result, woken>>

\* Flight::wait creates the Notified future, which takes part in every later
\* notify_waiters, before it looks at the result
Listen(r) ==
  /\ pc[r] = "listen"
  /\ woken' = [woken EXCEPT ![r] = FALSE]
  /\ Goto(r, "check")
  /\ UNCHANGED <<flights, task, result, flight>>

Check(r) ==
  /\ pc[r] = "check"
  /\ \/ flight[r] \in result /\ Goto(r, "answered")
     \/ flight[r] \notin result /\ Goto(r, "await")
  /\ UNCHANGED <<flights, task, result, flight, woken>>

Await(r) ==
  /\ pc[r] = "await"
  /\ woken[r]
  /\ Goto(r, "listen")
  /\ UNCHANGED <<flights, task, result, flight, woken>>

\* the client goes away; the task of the flight goes on
Cancel(r) ==
  /\ pc[r] \in Waiting
  /\ Goto(r, "cancelled")
  /\ UNCHANGED <<flights, task, result, flight, woken>>

-----------------------------------------------------------------------------
(* The spawned task of flight f.                                           *)

TaskGoto(f, stage) == task' = [task EXCEPT ![f] = stage]

\* refresh_aws_task returns, before its deadline
Retrieved(f) ==
  /\ task[f] = "retrieving"
  /\ TaskGoto(f, "completing")
  /\ UNCHANGED <<flights, result, pc, flight, woken>>

SetResult(f) ==
  /\ task[f] = "completing"
  /\ result' = result \cup {f}
  /\ TaskGoto(f, "notifying")
  /\ UNCHANGED <<flights, pc, flight, woken>>

\* seeded fault: notify_one
NotifyOne(f) ==
  /\ task[f] = "notifying"
  /\ \/ \E r \in Requests :
          /\ flight[r] = f /\ pc[r] \in {"check", "await"}
          /\ woken' = [woken EXCEPT ![r] = TRUE]
     \/ /\ \A r \in Requests : ~(flight[r] = f /\ pc[r] \in {"check", "await"})
        /\ woken' = woken
  /\ TaskGoto(f, "removing")
  /\ UNCHANGED <<flights, result, pc, flight>>

\* notify_waiters: every future of the flight that exists now
NotifyWaiters(f) ==
  /\ task[f] = "notifying"
  /\ woken' = [r \in Requests |->
       woken[r] \/ (flight[r] = f /\ pc[r] \in {"check", "await"})]
  /\ TaskGoto(f, "removing")
  /\ UNCHANGED <<flights, result, pc, flight>>

\* the entry of the key goes, whichever flight it holds
Remove(f) ==
  /\ task[f] = "removing"
  /\ flights' = NoFlight
  /\ TaskGoto(f, "ended")
  /\ UNCHANGED <<result, pc, flight, woken>>

-----------------------------------------------------------------------------

RequestStep(r) == Start(r) \/ Listen(r) \/ Check(r) \/ Await(r) \/ Cancel(r)

TaskStep(f) == Retrieved(f) \/ SetResult(f) \/ NotifyWaiters(f) \/ Remove(f)

Next == \E r \in Requests : RequestStep(r) \/ TaskStep(r)

Spec == Init /\ [][Next]_vars

\* the runtime polls every future that is ready; refresh_aws_task has a deadline
Fairness ==
  \A r \in Requests :
    /\ WF_vars(Listen(r) \/ Check(r) \/ Await(r))
    /\ WF_vars(TaskStep(r))

FairSpec == Spec /\ Fairness

-----------------------------------------------------------------------------
(* Properties.                                                             *)

TypeOK ==
  /\ flights \in Requests \cup {NoFlight}
  /\ task \in [Requests -> TaskStages]
  /\ result \subseteq Requests
  /\ pc \in [Requests -> {"idle", "answered", "cancelled"} \cup Waiting]
  /\ flight \in [Requests -> Requests \cup {NoFlight}]
  /\ woken \in [Requests -> BOOLEAN]

Live(f) == task[f] \in {"retrieving", "completing", "notifying", "removing"}

\* Requests are coalesced: the map holds the one flight whose task has not ended.
\* The task removes an entry by key, so with two it would remove the other's.
Coalesced == \A f \in Requests : Live(f) <=> flights = f

\* No wake-up is lost: a request that waits for its flight is answered, or gives up.
EveryRequestEnds ==
  \A r \in Requests : pc[r] \in Waiting ~> pc[r] \in {"answered", "cancelled"}
=============================================================================
