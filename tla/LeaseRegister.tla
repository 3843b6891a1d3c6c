--------------------------- MODULE LeaseRegister ---------------------------
(***************************************************************************)
(* What the lease of one cache key promises, without etags, attempts,      *)
(* round trips or faults: one register that changes only in these ways.    *)
(*   - It is granted while it is empty, after the running grant expired,   *)
(*     or to a request made after the recorded outcome, which that outcome *)
(*     does not answer.                                                    *)
(*   - Only the owner of a running grant settles it, once, with an outcome *)
(*     decided while the grant had not expired.                            *)
(*   - It is forgotten only after the grant expired.                       *)
(***************************************************************************)
EXTENDS Integers

CONSTANTS Tasks, LeaseTTL, Contents, NoContent, Empty

VARIABLES clock, asked, register

vars == <<clock, asked, register>>

Nobody == -1

Running == register # Empty /\ register.status = "in_progress"

Init ==
  /\ clock = 0
  /\ asked = [t \in Tasks |-> Nobody]
  /\ register = Empty

Tick ==
  /\ clock' = clock + 1
  /\ UNCHANGED <<asked, register>>

Ask(t) ==
  /\ asked[t] = Nobody
  /\ asked' = [asked EXCEPT ![t] = clock]
  /\ UNCHANGED <<clock, register>>

Free(t) ==
  \/ register = Empty
  \/ Running /\ register.leasedAt + LeaseTTL <= clock
  \/ register # Empty /\ register.status # "in_progress" /\ register.completedAt < asked[t]

\* the grant counts from an earlier clock reading of the same request
Grant(t) ==
  /\ asked[t] # Nobody
  /\ Free(t)
  /\ \E now \in asked[t]..clock :
       register' = [owner |-> t, leasedAt |-> now, completedAt |-> Nobody,
                    status |-> "in_progress", snapshot |-> NoContent]
  /\ UNCHANGED <<clock, asked>>

Outcomes == ({"succeeded"} \X Contents) \cup {<<"failed", NoContent>>}

Settle(t) ==
  /\ Running
  /\ register.owner = t
  /\ \E now \in register.leasedAt..clock, outcome \in Outcomes :
       /\ now < register.leasedAt + LeaseTTL
       /\ register' = [owner |-> t, leasedAt |-> register.leasedAt, completedAt |-> now,
                       status |-> outcome[1], snapshot |-> outcome[2]]
  /\ UNCHANGED <<clock, asked>>

Forget ==
  /\ register # Empty
  /\ register.leasedAt + LeaseTTL <= clock
  /\ register' = Empty
  /\ UNCHANGED <<clock, asked>>

Next == Tick \/ Forget \/ \E t \in Tasks : Ask(t) \/ Grant(t) \/ Settle(t)

Spec == Init /\ [][Next]_vars
=============================================================================
