------------------------------ MODULE HttpFetch ------------------------------
(***************************************************************************)
(* One request to a price provider: up to MaxAttempts sends within a       *)
(* budget of time, each with its own timeout, and pauses between them      *)
(* (pricing/http.rs).  A plain body is collected; that of an RDS offer is  *)
(* handed in chunks through a bounded channel to a projector that runs on  *)
(* a thread of its own and reads until it fails or the channel is closed   *)
(* and empty.                                                              *)
(***************************************************************************)
EXTENDS Integers, FiniteSets

CONSTANTS
  Budget, RequestTimeout, MaxAttempts,
  Capacity,     \* chunks the channel holds
  MaxChunks,    \* bound: chunks of one body
  Hints,        \* what a provider may ask to wait
  Jitter,       \* what is added to a pause without such a hint
  MaxClock      \* bound: later than any request is sent

FetchAssumption ==
  /\ {Budget, RequestTimeout} \subseteq Nat
  /\ MaxAttempts \in Nat \ {0}
  /\ Hints \subseteq Nat /\ Jitter \subseteq Nat

VARIABLES
  kind,       \* "plain" or "offer"
  phase,      \* what the caller does
  now, attempt,
  until,      \* when the send times out or the pause ends
  received,   \* chunks of this send
  channel,    \* chunks in the channel
  open,       \* the sending half exists
  projector,  \* "none", "running", "done" or "failed"
  outcome,    \* what ends the caller's wait for the projector
  result,
  notBefore   \* ghost: until when the provider asked to be left alone
vars == <<kind, phase, now, attempt, until, received, channel, open, projector, outcome, result, notBefore>>

stream == <<channel, open, projector>>

Least(a, b) == IF a < b THEN a ELSE b

Init ==
  /\ kind \in {"plain", "offer"} /\ phase = "ready" /\ now = 0 /\ attempt = 1 /\ until = 0
  /\ received = 0 /\ channel = 0 /\ open = FALSE /\ projector = "none"
  /\ outcome = "none" /\ result = "none" /\ notBefore = 0

End(r) == phase' = "ended" /\ result' = r /\ UNCHANGED <<attempt, until, notBefore>>

\* seeded fault: every send has the whole timeout
FullTimeout == RequestTimeout
SendTimeout == Least(Budget - now, RequestTimeout)
Send ==
  /\ phase = "ready"
  /\ IF now >= Budget THEN End("unavailable")
     ELSE phase' = "sending" /\ until' = now + SendTimeout /\ UNCHANGED <<attempt, result, notBefore>>
  /\ received' = 0
  /\ UNCHANGED <<kind, now, stream, outcome>>

Backoff == {2 ^ (attempt - 1) + j : j \in Jitter}
\* after a failure that may pass: the provider's delay or one of our own, if it leaves time
Pause(hint) ==
  IF attempt = MaxAttempts THEN End("unavailable")
  ELSE \E delay \in (IF hint = {} THEN Backoff ELSE hint) :
         IF now > Budget \/ delay >= Budget - now THEN End("unavailable")
         ELSE /\ phase' = "pausing" /\ until' = now + delay
              /\ notBefore' = IF hint = {} THEN notBefore ELSE now + delay
              /\ UNCHANGED <<attempt, result>>
Resume ==
  /\ phase = "pausing" /\ now >= until
  /\ phase' = "ready" /\ attempt' = attempt + 1
  /\ UNCHANGED <<kind, now, until, received, stream, outcome, result, notBefore>>

-----------------------------------------------------------------------------
(* The answer to a send. *)

\* a success that announces too long a body is an end as well
Headers ==
  /\ phase = "sending" /\ now < until
  /\ \/ /\ phase' = "receiving" /\ UNCHANGED <<attempt, until, result, notBefore>>
        /\ IF kind = "plain" THEN UNCHANGED stream
           ELSE channel' = 0 /\ open' = TRUE /\ projector' = "running"
     \/ \E r \in {"schema_changed", "unsupported", "not_found"} : End(r) /\ UNCHANGED stream
     \/ \E hint \in {{}} \cup {{h} : h \in Hints} : Pause(hint) /\ UNCHANGED stream
  /\ UNCHANGED <<kind, now, received, outcome>>
Silence ==
  /\ phase = "sending" /\ Pause({})
  /\ UNCHANGED <<kind, now, received, stream, outcome>>

\* seeded fault: the caller waits for the projector with its half of the channel open
WaitOpen(o) == phase' = "joining" /\ outcome' = o /\ UNCHANGED <<channel, open, projector>>
\* the caller drops its half of the channel and waits for the projector
Wait(o) == phase' = "joining" /\ outcome' = o /\ open' = FALSE /\ UNCHANGED <<channel, projector>>

Caller == <<kind, now, attempt, until, result, notBefore>>
ReceivePlain ==
  /\ phase = "receiving" /\ kind = "plain" /\ now < until
  /\ \/ received < MaxChunks /\ received' = received + 1 /\ UNCHANGED <<phase, attempt, until, result, notBefore>>
     \/ End("body") /\ UNCHANGED received
     \/ End("schema_changed") /\ UNCHANGED received
  /\ UNCHANGED <<kind, now, stream, outcome>>
ReceiveChunk ==
  /\ phase = "receiving" /\ kind = "offer" /\ now < until /\ received < MaxChunks
  /\ received' = received + 1
  /\ IF projector # "running" THEN Wait("projected")
     ELSE IF channel < Capacity
     THEN channel' = channel + 1 /\ UNCHANGED <<phase, open, projector, outcome>>
     ELSE phase' = "handing" /\ UNCHANGED <<stream, outcome>>
  /\ UNCHANGED Caller
\* the end of the body, or more of it than is allowed
EndOfOffer ==
  /\ phase = "receiving" /\ kind = "offer" /\ now < until
  /\ Wait("projected") \/ Wait("schema_changed")
  /\ UNCHANGED received /\ UNCHANGED Caller
\* the connection broke or the send timed out
Broken ==
  /\ phase = "receiving"
  /\ \/ kind = "plain" /\ Pause({}) /\ UNCHANGED <<outcome, stream>>
     \/ kind = "offer" /\ Wait("temporary") /\ UNCHANGED <<attempt, until, result, notBefore>>
  /\ UNCHANGED <<kind, now, received>>

\* the channel was full
HandOver ==
  /\ phase = "handing"
  /\ IF projector # "running" THEN Wait("projected")
     ELSE /\ channel < Capacity /\ channel' = channel + 1 /\ phase' = "receiving"
          /\ UNCHANGED <<open, projector, outcome>>
  /\ UNCHANGED received /\ UNCHANGED Caller

Joined ==
  /\ phase = "joining" /\ projector # "running"
  /\ CASE outcome = "temporary" -> Pause({})
       [] outcome = "schema_changed" -> End("schema_changed")
       [] OTHER -> IF projector = "done" THEN End("body")
                   ELSE End("schema_changed") \/ End("unsupported")
  /\ UNCHANGED <<kind, now, received, stream, outcome>>

-----------------------------------------------------------------------------
(* The projector, and time. *)

Read ==
  /\ projector = "running" /\ channel > 0
  /\ channel' = channel - 1
  /\ projector' \in {"running", "failed"}
  /\ UNCHANGED <<kind, phase, now, attempt, until, received, open, outcome, result, notBefore>>
EndOfStream ==
  /\ projector = "running" /\ channel = 0 /\ ~open
  /\ projector' \in {"done", "failed"}
  /\ UNCHANGED <<kind, phase, now, attempt, until, received, channel, open, outcome, result, notBefore>>
Project == Read \/ EndOfStream

\* a timer that is due fires; only a projector holds the caller up any longer
Tick ==
  /\ \/ phase \in {"sending", "pausing"} /\ now < until
     \/ phase = "receiving" /\ now < until
     \/ phase \in {"handing", "joining"}
  /\ now < MaxClock /\ now' = now + 1
  /\ UNCHANGED <<kind, phase, attempt, until, received, stream, outcome, result, notBefore>>

Handle == Send \/ Headers \/ Silence \/ ReceivePlain \/ ReceiveChunk \/ EndOfOffer \/ Broken \/ HandOver
            \/ Joined \/ Resume
Next == Handle \/ Project \/ Tick

Timeout == now >= until /\ (Silence \/ Broken)
\* a provider need not answer: what is bound to happen is the passing of time, the
\* timeout, what the caller does of its own, and the work of the projector
Fairness ==
  /\ WF_vars(Tick) /\ WF_vars(Timeout) /\ WF_vars(Project)
  /\ WF_vars(Send) /\ WF_vars(Resume) /\ WF_vars(HandOver) /\ WF_vars(Joined)
Spec == Init /\ [][Next]_vars /\ Fairness

-----------------------------------------------------------------------------

(* A request is sent only within the budget of time and not before the     *)
(* provider's delay is over, a send that is under way times out within the *)
(* budget, and so a plain request has come to an end when the budget is    *)
(* spent (PricingHttpClient::get).                                         *)
FetchWithinBudget ==
  /\ attempt <= MaxAttempts
  /\ phase = "sending" => now >= notBefore
  /\ phase \in {"sending", "receiving", "pausing"} => until <= Budget
  /\ kind = "plain" => now <= Budget

(* Every request ends: no answer at all, a body that stalls, a channel     *)
(* that is full and a projector that failed or waits for more do not hold  *)
(* it up for ever (send_rds_once).                                         *)
FetchEnds == <>(phase = "ended")
=============================================================================
