---------------------------- MODULE AssistantProofs ----------------------------
(***************************************************************************)
(* Theorems about the assistant, for all budgets, timeouts and calls of a  *)
(* turn, any number of requests, requesters, tokens and slots, and any     *)
(* number of turns and confirmations, fields and values of a project.      *)
(***************************************************************************)
EXTENDS MCAssistant, FiniteSetTheorems, WellFoundedInduction, TLAPS

\* the calls of an accepted batch
AcceptedCalls == [id : Nat, tool : {c.tool : c \in Menu}, args : {c.args : c \in Menu}]

Classifying == pc \in {"classify", "classifying"}

\* what was sent is counted, and another attempt of the classifier fits
RequestsCounted ==
  /\ requests \in 0..MaxModelRequests /\ sent = requests
  /\ pc = "classify" => requests < ClassifierAttempts

\* calls are counted before they run, the one of the classifier among them
CallsCounted ==
  /\ ran \in Seq(Nat) /\ queue \in Seq(AcceptedCalls)
  /\ toolCalls \in 0..MaxToolCalls
  /\ Len(ran) + Len(queue) + (IF classified THEN 1 ELSE 0) <= toolCalls
  /\ Classifying => ran = <<>> /\ ~classified
  /\ pc \in {"classify", "classifying", "loop", "asked"} => queue = <<>>

\* no id runs, or waits to run, twice
IdsApart ==
  /\ \A i \in 1..Len(ran) : ran[i] \in executed
  /\ \A i, j \in 1..Len(ran) : ran[i] = ran[j] => i = j
  /\ \A i \in 1..Len(queue) : queue[i].id \notin executed
  /\ \A i, j \in 1..Len(queue) : queue[i].id = queue[j].id => i = j

\* the image waits for the next request as long as nothing has run, and only then
ImageHeld ==
  /\ imageWaiting \/ repair = "pending" => context.image /\ ran = <<>>
  /\ Classifying => context.image /\ imageWaiting
  /\ pc = "loop" /\ ran = <<>> /\ context.image => imageWaiting \/ repair = "pending"
  /\ pc \in {"asked", "dispatch"} =>
       ~imageWaiting /\ repair # "pending" /\ \E q \in shown : q.after = 0
  /\ pc = "dispatch" => queue # <<>> \/ ran # <<>>
  /\ ImageBeforeTools

TurnInv == RequestsCounted /\ CallsCounted /\ IdsApart /\ ImageHeld

-----------------------------------------------------------------------------
(* Preflight.                                                              *)

\* A set of positions that is not empty has a first one.
LEMMA FirstPosition ==
  ASSUME NEW S \in SUBSET Nat, S # {}
  PROVE \E i \in S : \A j \in S : i <= j
<1>1. PICK i \in S : \A j \in S : ~(<<j, i>> \in OpToRel(<, Nat))
  BY NatLessThanWellFounded, WFMin
<1>2. \A j \in S : ~(j < i)
  BY <1>1 DEF OpToRel
<1> QED
  BY <1>2

\* A batch that preflight accepts fits into what is left of the calls, and none of
\* its calls has an error.
LEMMA Accepted ==
  ASSUME NEW batch \in Seq(AcceptedCalls), toolCalls \in Nat, Preflight(batch) = "none"
  PROVE /\ Len(batch) <= MaxToolCalls - toolCalls
        /\ \A i \in 1..Len(batch) : CallError(batch, i, executed) = "none"
<1>1. Len(batch) <= MaxToolCalls - toolCalls
  <2>1. ~(Len(batch) > MaxToolCalls - toolCalls)
    BY DEF Preflight
  <2> QED
    BY <2>1, TurnAssumption
<1>2. SUFFICES ASSUME Wrong(batch, executed) # {} PROVE FALSE
  BY <1>1 DEF Wrong
<1> DEFINE first == CHOOSE i \in Wrong(batch, executed) : \A j \in Wrong(batch, executed) : i <= j
<1>3. Wrong(batch, executed) \in SUBSET Nat
  BY DEF Wrong
<1>4. first \in Wrong(batch, executed)
  BY <1>2, <1>3, FirstPosition
<1>5. Preflight(batch) = CallError(batch, first, executed)
  BY <1>2 DEF Preflight
<1> QED
  BY <1>4, <1>5 DEF Wrong

\* A proposal is a sequence of calls.
LEMMA ProposalsAreCalls ==
  ASSUME ran \in Seq(Nat), NEW batch \in Proposals
  PROVE batch \in Seq(AcceptedCalls)
<1>1. PICK calls \in SeqOf(Menu, MaxCallsPerResponse + 1), again \in BOOLEAN :
        batch = Batch(calls, again)
  BY DEF Proposals
<1>2. PICK m \in 0..(MaxCallsPerResponse + 1) : calls \in [1..m -> Menu]
  BY <1>1 DEF SeqOf
<1>3. m \in Nat /\ Len(ran) \in Nat
  BY TurnAssumption
<1>4. batch \in [1..m -> AcceptedCalls]
  BY <1>1, <1>2, <1>3 DEF Batch, AcceptedCalls
<1> QED
  BY <1>3, <1>4

-----------------------------------------------------------------------------
(* Each action preserves the invariant.                                    *)

LEMMA InitInv == Init => TurnInv
<1> SUFFICES ASSUME Init PROVE TurnInv
  OBVIOUS
<1>1. RequestsCounted
  BY TurnAssumption DEF Init, RequestsCounted
<1>2. CallsCounted
  BY TurnAssumption DEF Init, CallsCounted, Classifying
<1>3. IdsApart /\ ImageHeld
  BY DEF Init, IdsApart, ImageHeld, ImageBeforeTools, Classifying
<1> QED
  BY <1>1, <1>2, <1>3 DEF TurnInv

\* Steps after which no more is sent, queued or run: they keep the invariant when
\* they lead to where it asks for nothing more.
LEMMA QuietStep ==
  ASSUME TurnInv,
         UNCHANGED <<context, budgets, classified, repair, imageWaiting, queue, results, asked>>,
         \/ pc' = pc
         \/ pc' \in Ended
         \/ pc = "classifying" /\ pc' = "classify" /\ requests < ClassifierAttempts
         \/ pc = "dispatch" /\ pc' = "loop" /\ queue = <<>>
  PROVE TurnInv'
<1>1. RequestsCounted'
  BY DEF TurnInv, RequestsCounted, budgets, asked, Ended
<1>2. CallsCounted'
  BY DEF TurnInv, CallsCounted, Classifying, budgets, results, Ended
<1>3. IdsApart'
  BY DEF TurnInv, IdsApart, results
<1>4. ImageHeld'
  BY DEF TurnInv, ImageHeld, ImageBeforeTools, Classifying, results, asked, Ended
<1> QED
  BY <1>1, <1>2, <1>3, <1>4 DEF TurnInv

\* An attempt of the classifier, and the request of the turn itself.
LEMMA ClassifyStep == ASSUME TurnInv, Classify PROVE TurnInv'
<1>1. CASE Expired
  <2>1. /\ UNCHANGED <<context, budgets, classified, repair, imageWaiting, queue, results, asked>>
        /\ pc' \in Ended
    BY <1>1 DEF Classify, budgets, results, asked, Ended
  <2> QED
    BY <2>1, QuietStep
<1>2. CASE ~Expired
  <2>1. RequestsCounted'
    BY <1>2, TurnAssumption DEF Classify, TurnInv, RequestsCounted
  <2>2. CallsCounted' /\ IdsApart'
    BY <1>2 DEF Classify, TurnInv, CallsCounted, Classifying, IdsApart, results
  <2>3. ImageHeld'
    <3>1. /\ pc = "classify" /\ pc' = "classifying" /\ ran = <<>> /\ context.image /\ imageWaiting
          /\ UNCHANGED <<context, imageWaiting, repair, ran>>
      BY <1>2 DEF Classify, TurnInv, CallsCounted, ImageHeld, Classifying, results
    <3>2. \A asking \in shown' : asking.image <=> context.image /\ asking.after = 0
      <4>1. \A asking \in shown : asking.image <=> context.image /\ asking.after = 0
        BY DEF TurnInv, ImageHeld, ImageBeforeTools
      <4>2. shown' = shown \cup {[image |-> TRUE, after |-> 0]}
        BY <1>2 DEF Classify
      <4> QED
        BY <3>1, <4>1, <4>2
    <3> QED
      BY <3>1, <3>2 DEF ImageHeld, ImageBeforeTools, Classifying
  <2> QED
    BY <2>1, <2>2, <2>3 DEF TurnInv
<1> QED
  BY <1>1, <1>2

LEMMA ClassifiedStep == ASSUME TurnInv, Classified PROVE TurnInv'
<1>1. /\ ran = <<>> /\ queue = <<>> /\ imageWaiting
      /\ UNCHANGED <<context, requests, queue, repair, imageWaiting>>
      /\ UNCHANGED results /\ UNCHANGED asked /\ pc' = "loop" /\ toolCalls' = 1 /\ classified' = TRUE
  BY DEF Classified, ChargeClassification, TurnInv, CallsCounted, ImageHeld, Classifying
<1>2. RequestsCounted'
  BY <1>1 DEF TurnInv, RequestsCounted, asked
<1>3. CallsCounted'
  BY <1>1, TurnAssumption DEF TurnInv, CallsCounted, Classifying, results
<1>4. IdsApart' /\ ImageHeld'
  BY <1>1 DEF TurnInv, IdsApart, ImageHeld, ImageBeforeTools, Classifying, results, asked
<1> QED
  BY <1>2, <1>3, <1>4 DEF TurnInv

LEMMA AskStep == ASSUME TurnInv, Ask PROVE TurnInv'
<1>1. RequestsCounted'
  BY TurnAssumption DEF Ask, RequestsLeft, TurnInv, RequestsCounted
<1>2. CallsCounted' /\ IdsApart'
  BY DEF Ask, TurnInv, CallsCounted, Classifying, IdsApart, results
<1>3. ImageHeld'
  <2> DEFINE asking == [image |-> imageWaiting \/ repair = "pending", after |-> Len(ran)]
  <2>1. /\ UNCHANGED <<context, ran>> /\ imageWaiting' = FALSE /\ repair' # "pending"
        /\ pc = "loop" /\ pc' = "asked" /\ shown' = shown \cup {asking}
    BY DEF Ask, results
  <2>2. Len(ran) = 0 <=> ran = <<>>
    BY DEF TurnInv, CallsCounted
  <2>3. imageWaiting \/ repair = "pending" <=> context.image /\ Len(ran) = 0
    BY <2>1, <2>2 DEF TurnInv, ImageHeld
  <2>4. asking.image = (imageWaiting \/ repair = "pending") /\ asking.after = Len(ran)
    OBVIOUS
  <2>5. asking.image <=> context.image /\ asking.after = 0
    BY <2>3, <2>4, Zenon
  <2>6. \A q \in shown : q.image <=> context.image /\ q.after = 0
    BY DEF TurnInv, ImageHeld, ImageBeforeTools
  <2>7. \A q \in shown' : q.image <=> context.image /\ q.after = 0
    BY <2>1, <2>5, <2>6, Zenon
  <2>8. \E q \in shown' : q.after = 0
    <3>1. CASE ran = <<>>
      BY <2>1, <2>2, <2>4, <3>1, Zenon
    <3>2. CASE ran # <<>>
      BY <2>1, <3>2, Zenon DEF TurnInv, ImageHeld, ImageBeforeTools
    <3> QED
      BY <3>1, <3>2
  <2> QED
    BY <2>1, <2>7, <2>8 DEF ImageHeld, ImageBeforeTools, Classifying
<1> QED
  BY <1>1, <1>2, <1>3 DEF TurnInv

\* A batch is accepted as a whole, sent back for its one repair, or refused.
LEMMA ProposeStep == ASSUME TurnInv, Propose PROVE TurnInv'
<1>1. PICK batch \in Proposals : Accept(batch) \/ Repair(batch) \/ Refuse(batch)
  BY DEF Propose
<1>2. /\ pc = "asked" /\ queue = <<>> /\ ~imageWaiting /\ repair # "pending"
      /\ UNCHANGED <<context, requests, classified, imageWaiting, results, asked>>
  BY DEF Propose, TurnInv, CallsCounted, ImageHeld
<1>3. RequestsCounted'
  BY <1>1, <1>2 DEF Accept, Repair, Refuse, TurnInv, RequestsCounted, asked
<1>4. CASE Accept(batch)
  <2>1. batch \in Seq(AcceptedCalls)
    BY ProposalsAreCalls DEF TurnInv, CallsCounted
  <2>2. /\ Len(batch) <= MaxToolCalls - toolCalls
        /\ \A i \in 1..Len(batch) : CallError(batch, i, executed) = "none"
    <3>1. toolCalls \in Nat /\ Preflight(batch) = "none"
      BY <1>4, TurnAssumption DEF Accept, TurnInv, CallsCounted
    <3> QED
      BY <2>1, <3>1, Accepted
  <2>3. CallsCounted'
    <3>1. /\ toolCalls' = toolCalls + Len(batch) /\ queue' = batch /\ pc' = "dispatch"
          /\ ran' = ran /\ classified' = classified
      BY <1>2, <1>4 DEF Accept, results
    <3>2. /\ Len(batch) \in Nat /\ Len(ran) \in Nat /\ Len(queue) = 0
          /\ toolCalls \in 0..MaxToolCalls /\ MaxToolCalls \in Nat
      BY <1>2, <2>1, TurnAssumption DEF TurnInv, CallsCounted
    <3> QED
      BY <2>1, <2>2, <3>1, <3>2 DEF TurnInv, CallsCounted, Classifying
  <2>4. IdsApart'
    <3>1. \A i \in 1..Len(batch) : FreshId(batch, i, executed)
      BY <2>2 DEF CallError
    <3>2. \A i \in 1..Len(batch) : batch[i].id \notin executed
      BY <3>1 DEF FreshId
    <3>3. \A i, j \in 1..Len(batch) : j < i => batch[j].id # batch[i].id
      BY <2>1, <3>1 DEF FreshId
    <3>4. \A i, j \in 1..Len(batch) : batch[i].id = batch[j].id => i = j
      BY <2>1, <3>3
    <3> QED
      BY <1>2, <1>4, <3>2, <3>4 DEF Accept, TurnInv, IdsApart, results
  <2>5. ImageHeld'
    <3>1. batch # <<>>
      BY <1>4 DEF Accept, Preflight
    <3>2. queue' = batch /\ pc' = "dispatch" /\ repair' = repair
      BY <1>4 DEF Accept
    <3> QED
      BY <1>2, <3>1, <3>2 DEF TurnInv, ImageHeld, ImageBeforeTools, Classifying, results, asked
  <2> QED
    BY <1>3, <2>3, <2>4, <2>5 DEF TurnInv
<1>5. CASE Repair(batch) \/ Refuse(batch)
  <2>1. /\ UNCHANGED <<toolCalls, queue>> /\ pc' \in {"loop", "policy"}
        /\ repair' = "pending" => executed = {} /\ context.image
        /\ pc' = "loop" => repair' = "pending"
    BY <1>2, <1>5 DEF Repair, Repairable, Refuse
  <2>2. CallsCounted' /\ IdsApart'
    BY <1>2, <2>1 DEF TurnInv, CallsCounted, Classifying, IdsApart, results
  <2>3. executed = {} => ran = <<>>
    BY DEF TurnInv, CallsCounted, IdsApart
  <2>4. ImageHeld'
    BY <1>2, <2>1, <2>3 DEF TurnInv, ImageHeld, ImageBeforeTools, Classifying, results, asked
  <2> QED
    BY <1>3, <2>2, <2>4 DEF TurnInv
<1> QED
  BY <1>1, <1>4, <1>5

\* A call runs: its id leaves the queue for those that have run.
LEMMA DispatchStep == ASSUME TurnInv, Dispatch PROVE TurnInv'
<1>1. /\ pc = "dispatch" /\ queue # <<>> /\ queue' = Tail(queue)
      /\ executed' = executed \cup {Head(queue).id} /\ ran' = Append(ran, Head(queue).id)
      /\ UNCHANGED <<context, pc, budgets, classified, repair, imageWaiting, asked>>
  BY DEF Dispatch
<1>2. /\ ran \in Seq(Nat) /\ queue \in Seq(AcceptedCalls) /\ Head(queue) = queue[1] /\ Head(queue).id \in Nat
      /\ Len(ran) \in Nat /\ Len(queue) \in Nat \ {0} /\ 1 \in 1..Len(queue)
  <2>1. ran \in Seq(Nat) /\ queue \in Seq(AcceptedCalls)
    BY DEF TurnInv, CallsCounted
  <2>2. /\ Len(ran) \in Nat /\ Len(queue) \in Nat \ {0} /\ Head(queue) = queue[1]
        /\ 1 \in 1..Len(queue) /\ queue[1] \in AcceptedCalls
    BY <1>1, <2>1
  <2> QED
    BY <2>1, <2>2 DEF AcceptedCalls
<1>3. /\ ran' \in Seq(Nat) /\ Len(ran') = Len(ran) + 1
      /\ queue' \in Seq(AcceptedCalls) /\ Len(queue') = Len(queue) - 1
  BY <1>1, <1>2
<1>4. /\ \A i \in 1..Len(ran) : ran'[i] = ran[i]
      /\ ran'[Len(ran) + 1] = queue[1].id
      /\ \A i \in 1..Len(queue') : queue'[i] = queue[i + 1] /\ i + 1 \in 1..Len(queue)
  BY <1>1, <1>2, <1>3
<1>5. RequestsCounted'
  BY <1>1 DEF TurnInv, RequestsCounted, budgets, asked
<1>6. CallsCounted'
  BY <1>1, <1>2, <1>3 DEF TurnInv, CallsCounted, Classifying, budgets
<1>7. IdsApart'
  <2>1. \A i \in 1..Len(ran') : ran'[i] \in executed'
    BY <1>1, <1>2, <1>3, <1>4 DEF TurnInv, IdsApart
  <2>2. \A i \in 1..Len(ran) : ran[i] # queue[1].id
    BY <1>2 DEF TurnInv, IdsApart
  <2>3. \A i, j \in 1..Len(ran') : ran'[i] = ran'[j] => i = j
    <3> SUFFICES ASSUME NEW i \in 1..Len(ran'), NEW j \in 1..Len(ran'), ran'[i] = ran'[j], i < j
                 PROVE FALSE
      BY <1>2, <1>3
    <3>1. i \in 1..Len(ran) /\ ran'[i] = ran[i]
      BY <1>2, <1>3, <1>4
    <3>2. CASE j \in 1..Len(ran)
      <4>1. ran'[j] = ran[j] /\ i # j
        BY <1>4, <3>2
      <4> QED
        BY <3>1, <3>2, <4>1 DEF TurnInv, IdsApart
    <3>3. CASE j = Len(ran) + 1
      BY <1>4, <2>2, <3>1, <3>3
    <3>4. Len(ran) \in Nat /\ j \in 1..(Len(ran) + 1)
      <4>1. Len(ran) \in Nat /\ Len(ran') = Len(ran) + 1
        BY <1>2, <1>3
      <4> QED
        BY <4>1
    <3>5. j \in 1..Len(ran) \/ j = Len(ran) + 1
      BY <3>4
    <3> QED
      BY <3>2, <3>3, <3>5
  <2>4. \A i, j \in 1..Len(queue') : queue'[i].id = queue'[j].id => i = j
    <3> SUFFICES ASSUME NEW i \in 1..Len(queue'), NEW j \in 1..Len(queue'),
                        queue'[i].id = queue'[j].id
                 PROVE i = j
      OBVIOUS
    <3>1. queue[i + 1].id = queue[j + 1].id /\ i + 1 \in 1..Len(queue) /\ j + 1 \in 1..Len(queue)
      BY <1>4
    <3>2. i + 1 = j + 1
      BY <3>1 DEF TurnInv, IdsApart
    <3> QED
      BY <1>2, <1>3, <3>2
  <2>5. \A i \in 1..Len(queue') : queue'[i].id \notin executed'
    BY <1>1, <1>2, <1>3, <1>4 DEF TurnInv, IdsApart
  <2> QED
    BY <2>1, <2>3, <2>4, <2>5 DEF IdsApart
<1>8. ImageHeld'
  <2>1. ran' # <<>> /\ ~imageWaiting /\ repair # "pending" /\ \E q \in shown : q.after = 0
    BY <1>1, <1>2, <1>3 DEF TurnInv, ImageHeld
  <2> QED
    BY <1>1, <2>1 DEF TurnInv, ImageHeld, ImageBeforeTools, Classifying, asked
<1> QED
  BY <1>5, <1>6, <1>7, <1>8 DEF TurnInv

LEMMA NextInv == ASSUME TurnInv, [Next]_vars PROVE TurnInv'
<1>1. CASE \/ UNCHANGED vars \/ Tick \/ Undecided \/ Malformed \/ GiveUp \/ ModelFails \/ TimesOut
           \/ Answer \/ Abandon \/ BatchDone \/ Done
  <2>1. /\ UNCHANGED <<context, budgets, classified, repair, imageWaiting, queue, results, asked>>
        /\ \/ pc' = pc
           \/ pc' \in Ended
           \/ pc = "classifying" /\ pc' = "classify" /\ requests < ClassifierAttempts
           \/ pc = "dispatch" /\ pc' = "loop" /\ queue = <<>>
    BY <1>1 DEF vars, Tick, Undecided, Malformed, GiveUp, ModelFails, TimesOut, Answer, Abandon,
                BatchDone, Done, Ended, budgets, results, asked
  <2> QED
    BY <2>1, QuietStep
<1>2. CASE Classify
  BY <1>2, ClassifyStep
<1>3. CASE Classified
  BY <1>3, ClassifiedStep
<1>4. CASE Ask
  BY <1>4, AskStep
<1>5. CASE Propose
  BY <1>5, ProposeStep
<1>6. CASE Dispatch
  BY <1>6, DispatchStep
<1> QED
  BY <1>1, <1>2, <1>3, <1>4, <1>5, <1>6 DEF Next, Host, Model

LEMMA InvariantHolds == Spec => []TurnInv
<1>1. TurnInv /\ [Next]_vars => TurnInv'
  BY NextInv
<1> QED
  BY <1>1, InitInv, PTL DEF Spec

-----------------------------------------------------------------------------
(* The requests a replica lets in.                                         *)

Places == {"idle", "check", "admitted", "body", "normalising", "turn", "done"}

LimitsType ==
  /\ time \in Nat
  /\ bucket \in [Keys -> [units : Nat, at : Nat] \cup {Untracked}]
  /\ place \in [Requests -> Places]
  /\ key \in [Requests -> Keys]
  /\ now \in [Requests -> 0..time]
  /\ free \in Nat
  /\ task \subseteq Requests
  /\ granted \in [Keys -> Nat]
  /\ stamp \in [Keys -> 0..time]
  /\ regained \in [Keys -> Nat]
  /\ promise \in [Keys -> Nat]
  /\ rivals \in [Keys -> SUBSET Keys]

\* what works for the assistant, each item on a slot of its own
Working == task \cup {r \in Requests : place[r] \in {"body", "turn"}}

SlotsKept ==
  /\ IsFiniteSet(Working)
  /\ Cardinality(Working) + free = Slots
  /\ \A r \in Requests : place[r] = "normalising" => r \in task
  /\ \A r \in task : place[r] \in {"normalising", "done"}

\* what a key owns: a bucket that is not tracked is as good as full
Owned(k) == IF bucket[k] = Untracked THEN Capacity * Period ELSE bucket[k].units

AllowanceKept ==
  \A k \in Keys :
    /\ bucket[k] # Untracked => bucket[k].at = stamp[k]
    /\ granted[k] * Period + Owned(k) <= Capacity * (Period + stamp[k] + regained[k])

\* by the time a refused key was told, its entry is worth a token
PromiseKept ==
  /\ ~broken
  /\ \A k \in Keys : bucket[k] # Untracked /\ promise[k] > 0 =>
       /\ bucket[k].at < promise[k]
       /\ bucket[k].units + (promise[k] - bucket[k].at) * Capacity >= Period

\* an entry older than the refusal of a key: none of its rivals
Older(j, k) ==
  IF bucket[k] = Untracked THEN bucket[j].at + 2 * Period < promise[k]
  ELSE bucket[j].at < bucket[k].at

\* what stands in the way of a key that waits: its rivals, or what will be forgotten
RivalsKept ==
  /\ IsFiniteSet(Limits!Tracked)
  /\ \A k \in Keys :
       /\ IsFiniteSet(rivals[k])
       /\ promise[k] > 0 => \A j \in Limits!Tracked \ (rivals[k] \cup {k}) : Older(j, k)

LimitsInv == LimitsType /\ SlotsKept /\ AllowanceKept /\ PromiseKept /\ RivalsKept

-----------------------------------------------------------------------------
(* Refilling and charging a bucket.                                        *)

LEMMA RefilledBounds ==
  ASSUME NEW entry \in [units : Nat, at : Nat], NEW at \in Nat,
         Capacity \in Nat \ {0}, Period \in Nat \ {0}
  PROVE  /\ Limits!Refilled(entry, at) \in Nat
         /\ Limits!Refilled(entry, at) <= entry.units + Limits!Larger(at - entry.at, 0) * Capacity
         /\ Limits!Refilled(entry, at) <= Capacity * Period
         /\ \/ Limits!Refilled(entry, at) = entry.units + Limits!Larger(at - entry.at, 0) * Capacity
            \/ Limits!Refilled(entry, at) = Capacity * Period
         /\ Limits!Larger(at - entry.at, 0) \in Nat
<1> DEFINE gap == Limits!Larger(at - entry.at, 0)
<1>1. gap \in Nat
  BY DEF Limits!Larger
<1>2. gap * Capacity \in Nat /\ Capacity * Period \in Nat
  BY <1>1
<1> HIDE DEF gap
<1> QED
  BY <1>1, <1>2 DEF Limits!Refilled, Limits!Smaller, gap

LEMMA RetryRoundsUp ==
  ASSUME NEW units \in Nat, units < Period, Capacity \in Nat \ {0}, Period \in Nat \ {0}
  PROVE  /\ Limits!RetryAfter(units) \in Nat \ {0}
         /\ units + Limits!RetryAfter(units) * Capacity >= Period
<1> DEFINE wait == (Period - units + Capacity - 1) \div Capacity
<1>1. wait \in Int /\ wait * Capacity > Period - units - 1
  OBVIOUS
<1>2. wait >= 1
  BY <1>1
<1> HIDE DEF wait
<1> QED
  BY <1>1, <1>2 DEF Limits!RetryAfter, Limits!Larger, wait

-----------------------------------------------------------------------------
(* The slots.                                                              *)

LEMMA SlotsMove ==
  ASSUME SlotsKept, free \in Nat, NEW r,
         \/ Working' = Working /\ free' = free
         \/ Working' = Working \cup {r} /\ r \notin Working /\ free > 0 /\ free' = free - 1
         \/ Working' = Working \ {r} /\ r \in Working /\ free' = free + 1
  PROVE  IsFiniteSet(Working') /\ Cardinality(Working') + free' = Slots /\ free' \in Nat
<1>1. IsFiniteSet(Working) /\ Cardinality(Working) + free = Slots /\ Cardinality(Working) \in Nat
  BY FS_CardinalityType DEF SlotsKept
<1>2. CASE Working' = Working /\ free' = free
  BY <1>1, <1>2
<1>3. CASE Working' = Working \cup {r} /\ r \notin Working /\ free > 0 /\ free' = free - 1
  <2>1. IsFiniteSet(Working') /\ Cardinality(Working') = Cardinality(Working) + 1
    BY <1>1, <1>3, FS_AddElement
  <2> QED
    BY <1>1, <1>3, <2>1
<1>4. CASE Working' = Working \ {r} /\ r \in Working /\ free' = free + 1
  <2>1. IsFiniteSet(Working') /\ Cardinality(Working') = Cardinality(Working) - 1
    BY <1>1, <1>4, FS_RemoveElement
  <2> QED
    BY <1>1, <1>4, <2>1
<1> QED
  BY <1>2, <1>3, <1>4

LEMMA SlotsMatter ==
  ASSUME LimitsInv, NEW r \in Requests,
         Limits!Acquire(r) \/ Limits!Spawn(r) \/ Limits!TaskEnds(r) \/ Limits!TurnEnds(r) \/ Limits!Drop(r)
  PROVE  LimitsInv'
<1> USE DEF LimitsInv
<1>1. place \in [Requests -> Places] /\ task \subseteq Requests /\ free \in Nat
  BY DEF LimitsType
<1>2. UNCHANGED Limits!limits /\ UNCHANGED <<time, key, now>>
  BY DEF Limits!Acquire, Limits!Spawn, Limits!TaskEnds, Limits!TurnEnds, Limits!Drop
<1>3. \/ Working' = Working /\ free' = free
      \/ Working' = Working \cup {r} /\ r \notin Working /\ free > 0 /\ free' = free - 1
      \/ Working' = Working \ {r} /\ r \in Working /\ free' = free + 1
  <2>1. CASE Limits!Acquire(r)
    BY <1>1, <2>1 DEF Limits!Acquire, Limits!Goto, SlotsKept, Working
  <2>2. CASE Limits!Spawn(r)
    BY <1>1, <2>2 DEF Limits!Spawn, Limits!Goto, SlotsKept, Working
  <2>3. CASE Limits!TaskEnds(r)
    BY <1>1, <2>3 DEF Limits!TaskEnds, Limits!Goto, SlotsKept, Working
  <2>4. CASE Limits!TurnEnds(r)
    BY <1>1, <2>4 DEF Limits!TurnEnds, Limits!Goto, SlotsKept, Working
  <2>5. CASE Limits!Drop(r)
    BY <1>1, <2>5 DEF Limits!Drop, Limits!Held, Limits!Goto, SlotsKept, Working
  <2> QED
    BY <2>1, <2>2, <2>3, <2>4, <2>5
<1>4. IsFiniteSet(Working') /\ Cardinality(Working') + free' = Slots /\ free' \in Nat
  BY <1>1, <1>3, SlotsMove
<1>5. place' \in [Requests -> Places] /\ task' \subseteq Requests
  BY <1>1 DEF Places, Limits!Acquire, Limits!Spawn, Limits!TaskEnds, Limits!TurnEnds, Limits!Drop,
    Limits!Goto
<1>6. (\A q \in Requests : place'[q] = "normalising" => q \in task')
      /\ (\A q \in task' : place'[q] \in {"normalising", "done"})
  BY <1>1 DEF SlotsKept, Limits!Acquire, Limits!Spawn, Limits!TaskEnds, Limits!TurnEnds,
     Limits!Drop,
    Limits!Goto
<1>7. LimitsType'
  BY <1>2, <1>4, <1>5 DEF LimitsType, Limits!limits
<1>8. AllowanceKept' /\ PromiseKept' /\ RivalsKept'
  BY <1>2 DEF AllowanceKept, PromiseKept, RivalsKept, Older, Owned, Limits!limits, Limits!Tracked
<1> QED
  BY <1>4, <1>6, <1>7, <1>8 DEF SlotsKept

LEMMA ClockMatters ==
  ASSUME LimitsInv, Limits!Tick \/ \E r \in Requests : Limits!ReadClock(r)
  PROVE  LimitsInv'
<1> USE DEF LimitsInv
<1>1. UNCHANGED <<Limits!limits, key, free, task>>
  BY DEF Limits!Tick, Limits!ReadClock
<1>2. Working' = Working
  BY DEF LimitsType, Limits!Tick, Limits!ReadClock, Limits!Goto, Working
<1>3. SlotsKept'
  BY <1>1, <1>2 DEF LimitsType, SlotsKept, Limits!Tick, Limits!ReadClock, Limits!Goto
<1>4. LimitsType'
  <2>1. CASE Limits!Tick
    BY <2>1 DEF Limits!Tick, LimitsType, Limits!limits
  <2>2. CASE \E r \in Requests : Limits!ReadClock(r)
    BY <2>2 DEF Limits!ReadClock, Limits!Goto, LimitsType, Places, Limits!limits
  <2> QED
    BY <2>1, <2>2
<1>5. AllowanceKept' /\ PromiseKept' /\ RivalsKept'
  BY <1>1 DEF AllowanceKept, PromiseKept, RivalsKept, Older, Owned, Limits!limits, Limits!Tracked
<1> QED
  BY <1>3, <1>4, <1>5

-----------------------------------------------------------------------------
(* A check of a bucket.                                                    *)

\* a check never refills more than what has flowed in since its key's stamp
LEMMA CheckAllowance ==
  ASSUME LimitsInv, NEW k \in Keys, NEW at \in Nat,
         Capacity \in Nat \ {0}, Period \in Nat \ {0}, Untracked \notin [units : Nat, at : Nat],
         NEW units, units = Limits!Refilled(Limits!Entry(k, at), at)
  PROVE  /\ units \in Nat
         /\ granted[k] * Period + units
              <= Capacity * (Period + at + (regained[k] + Limits!Larger(stamp[k] - at, 0)))
<1>1. stamp[k] \in Nat /\ granted[k] \in Nat /\ regained[k] \in Nat /\ granted[k] * Period \in Nat
  BY DEF LimitsInv, LimitsType
<1>2. CASE bucket[k] = Untracked
  <2>1. Limits!Entry(k, at) = [units |-> Capacity * Period, at |-> at]
    BY <1>2 DEF Limits!Entry, Limits!Tracked
  <2>2. units = Capacity * Period
    <3>1. Limits!Entry(k, at).units = Capacity * Period /\ Limits!Entry(k, at).at = at
      BY <2>1
    <3>2. Limits!Larger(at - at, 0) = 0 /\ 0 * Capacity = 0 /\ Capacity * Period \in Nat
      BY DEF Limits!Larger
    <3> QED
      BY <3>1, <3>2 DEF Limits!Refilled, Limits!Smaller
  <2>3. granted[k] * Period + Capacity * Period <= Capacity * (Period + stamp[k] + regained[k])
    BY <1>2 DEF LimitsInv, AllowanceKept, Owned
  <2>4. at + (regained[k] + Limits!Larger(stamp[k] - at, 0)) >= stamp[k] + regained[k]
    BY <1>1 DEF Limits!Larger
  <2>5. /\ Limits!Larger(stamp[k] - at, 0) \in Nat
        /\ Capacity * (Period + at + (regained[k] + Limits!Larger(stamp[k] - at, 0)))
             >= Capacity * (Period + stamp[k] + regained[k])
    BY <1>1, <2>4 DEF Limits!Larger
  <2> QED
    BY <1>1, <2>2, <2>3, <2>5
<1>3. CASE bucket[k] # Untracked
  <2> DEFINE gap == Limits!Larger(at - stamp[k], 0)
             late == Limits!Larger(stamp[k] - at, 0)
  <2>1. bucket[k] \in [units : Nat, at : Nat] /\ bucket[k].at = stamp[k]
    BY <1>3 DEF LimitsInv, LimitsType, AllowanceKept
  <2>2. Limits!Entry(k, at) = bucket[k]
    BY <1>3 DEF Limits!Entry, Limits!Tracked
  <2>3. units \in Nat /\ units <= bucket[k].units + gap * Capacity
    BY <2>1, <2>2, RefilledBounds
  <2>4. granted[k] * Period + bucket[k].units <= Capacity * (Period + stamp[k] + regained[k])
    BY <1>3 DEF LimitsInv, AllowanceKept, Owned
  <2>5. gap \in Nat /\ late \in Nat /\ stamp[k] + gap = at + late
    <3>1. stamp[k] \in Nat
      BY <1>1
    <3> QED
      BY <3>1 DEF Limits!Larger
  <2> HIDE DEF gap, late
  <2>6. Capacity * (Period + stamp[k] + regained[k]) + gap * Capacity
          = Capacity * (Period + at + (regained[k] + late))
    BY <1>1, <2>5
  <2>7. bucket[k].units \in Nat /\ gap * Capacity \in Nat
    BY <2>1, <2>5
  <2>8. granted[k] * Period + units <= Capacity * (Period + stamp[k] + regained[k]) + gap * Capacity
    <3> DEFINE spent == granted[k] * Period
               allowed == Capacity * (Period + stamp[k] + regained[k])
               flown == gap * Capacity
    <3>1. spent \in Nat /\ allowed \in Nat /\ flown \in Nat
      BY <1>1, <2>7
    <3>2. spent + bucket[k].units <= allowed /\ units <= bucket[k].units + flown
      BY <2>3, <2>4
    <3> HIDE DEF spent, allowed, flown
    <3>3. spent + units <= allowed + flown
      BY <2>3, <2>7, <3>1, <3>2
    <3> QED
      BY <3>3 DEF spent, allowed, flown
  <2> QED
    BY <2>3, <2>6, <2>8 DEF late
<1> QED
  BY <1>2, <1>3

\* what is forgotten has been full again since long before
LEMMA ForgottenIsFull ==
  ASSUME LimitsInv, NEW j \in Keys, NEW at \in Nat, j \in Limits!Tracked \ Limits!Fresh(at),
         Capacity \in Nat \ {0}, Period \in Nat \ {0}
  PROVE  granted[j] * Period + Capacity * Period <= Capacity * (Period + at + regained[j])
<1> DEFINE spent == granted[j] * Period
           full == Capacity * Period
<1>1. /\ bucket[j] \in [units : Nat, at : Nat] /\ bucket[j].at = stamp[j]
      /\ stamp[j] \in Nat /\ granted[j] \in Nat /\ regained[j] \in Nat
  BY DEF LimitsInv, LimitsType, AllowanceKept, Limits!Tracked
<1>2. at > stamp[j] + 2 * Period
  BY <1>1 DEF Limits!Fresh, Limits!StaleAfter
<1>3. spent + bucket[j].units <= Capacity * (Period + stamp[j] + regained[j])
  BY DEF LimitsInv, AllowanceKept, Owned, Limits!Tracked
<1>4. Capacity * (Period + at + regained[j]) >= Capacity * (Period + stamp[j] + regained[j] + Period)
  BY <1>1, <1>2
<1>5. Capacity * (Period + stamp[j] + regained[j] + Period)
        = Capacity * (Period + stamp[j] + regained[j]) + full
  BY <1>1
<1>6. spent \in Nat /\ full \in Nat /\ bucket[j].units \in Nat
      /\ Capacity * (Period + stamp[j] + regained[j]) \in Nat
      /\ Capacity * (Period + at + regained[j]) \in Nat
      /\ Capacity * (Period + stamp[j] + regained[j] + Period) \in Nat
  BY <1>1
<1> HIDE DEF spent, full
<1>7. spent + full <= Capacity * (Period + at + regained[j])
  BY <1>3, <1>4, <1>5, <1>6
<1> QED
  BY <1>7 DEF spent, full

\* who waited as told finds a token
LEMMA WaitedFindsToken ==
  ASSUME LimitsInv, NEW k \in Keys, NEW at \in Nat, promise[k] \in 1..at,
         Capacity \in Nat \ {0}, Period \in Nat \ {0}
  PROVE  Limits!Refilled(Limits!Entry(k, at), at) >= Period
<1>0. Capacity * Period >= Period /\ Capacity * Period \in Nat
  OBVIOUS
<1>1. CASE bucket[k] = Untracked
  <2>1. Limits!Entry(k, at).units = Capacity * Period /\ Limits!Entry(k, at).at = at
    BY <1>1 DEF Limits!Entry, Limits!Tracked
  <2>2. Limits!Larger(at - at, 0) = 0 /\ 0 * Capacity = 0
    BY DEF Limits!Larger
  <2> QED
    BY <1>0, <2>1, <2>2 DEF Limits!Refilled, Limits!Smaller
<1>2. CASE bucket[k] # Untracked
  <2> DEFINE gap == Limits!Larger(at - bucket[k].at, 0)
  <2>1. bucket[k] \in [units : Nat, at : Nat]
    BY <1>2 DEF LimitsInv, LimitsType
  <2>2. Limits!Entry(k, at) = bucket[k]
    BY <1>2 DEF Limits!Entry, Limits!Tracked
  <2>3. promise[k] \in Nat /\ bucket[k].at < promise[k]
        /\ bucket[k].units + (promise[k] - bucket[k].at) * Capacity >= Period
    BY <1>2 DEF LimitsInv, PromiseKept
  <2>4. gap = at - bucket[k].at
    BY <2>1, <2>3 DEF Limits!Larger
  <2>5. gap * Capacity >= (promise[k] - bucket[k].at) * Capacity
    BY <2>1, <2>3, <2>4
  <2>6. bucket[k].units \in Nat /\ gap * Capacity \in Int /\ (promise[k] - bucket[k].at) * Capacity \in Int
    BY <2>1, <2>3, <2>4
  <2> HIDE DEF gap
  <2>7. bucket[k].units + gap * Capacity >= Period
    BY <2>3, <2>5, <2>6
  <2> QED
    BY <1>0, <2>1, <2>2, <2>6, <2>7, RefilledBounds DEF gap
<1> QED
  BY <1>1, <1>2

\* who waited as told and is turned away at the cap has as many rivals
LEMMA CrowdedByRivals ==
  ASSUME LimitsInv, NEW k \in Keys, NEW at \in Nat, Limits!CrowdedOut(k, at), promise[k] \in 1..at,
         Period \in Nat, MaxTrackedKeys \in Nat
  PROVE  ~(Limits!Cardinality(rivals[k]) < MaxTrackedKeys)
<1>1. k \notin Limits!Tracked /\ Limits!Cardinality(Limits!Kept(k, at)) >= MaxTrackedKeys
  BY DEF Limits!CrowdedOut
<1>2. IsFiniteSet(Limits!Tracked) /\ IsFiniteSet(rivals[k])
  BY DEF LimitsInv, RivalsKept
<1>3. \A S : Limits!Cardinality(S) = Cardinality(S)
  BY DEF Limits!Cardinality, Cardinality
<1>4. Cardinality(Limits!Tracked) \in Nat
  BY <1>2, FS_CardinalityType
<1>5. Limits!Kept(k, at) = Limits!Fresh(at)
  BY <1>1, <1>3, <1>4 DEF Limits!Kept
<1>6. Limits!Fresh(at) \subseteq rivals[k]
  <2> SUFFICES ASSUME NEW j \in Limits!Tracked, at - bucket[j].at <= 2 * Period PROVE j \in rivals[k]
    BY DEF Limits!Fresh, Limits!StaleAfter
  <2>1. bucket[j] \in [units : Nat, at : Nat] /\ j # k /\ promise[k] \in Nat
    BY <1>1 DEF Limits!Tracked, LimitsInv, LimitsType
  <2>2. ~(bucket[j].at + 2 * Period < promise[k])
    BY <2>1
  <2> QED
    BY <1>1, <2>1, <2>2 DEF LimitsInv, RivalsKept, Older, Limits!Tracked
<1>7. Cardinality(Limits!Fresh(at)) <= Cardinality(rivals[k])
  BY <1>2, <1>6, FS_Subset
<1>8. Cardinality(rivals[k]) \in Nat /\ IsFiniteSet(Limits!Fresh(at))
  BY <1>2, <1>6, FS_CardinalityType, FS_Subset
<1>9. Cardinality(Limits!Fresh(at)) \in Nat
  BY <1>8, FS_CardinalityType
<1> QED
  BY <1>1, <1>3, <1>5, <1>7, <1>8, <1>9

\* A check makes its key a rival of those that wait; it forgets a key that waits only
\* with all the entries that are older.
LEMMA CheckKeepsRivals ==
  ASSUME LimitsInv, NEW k \in Keys, NEW at \in Nat, Period \in Nat,
         \A j \in Keys : bucket'[j] # Untracked =>
           \/ j = k /\ ~Limits!CrowdedOut(k, at)
           \/ j \in Limits!Kept(k, at) /\ bucket'[j] = bucket[j],
         \A j \in Limits!Kept(k, at) \ {k} : bucket'[j] = bucket[j],
         ~Limits!CrowdedOut(k, at) => bucket'[k] # Untracked /\ bucket'[k].at = at,
         \A i \in Keys \ {k} : promise'[i] = promise[i],
         Limits!CrowdedOut(k, at) => promise'[k] = at + Limits!CapWait,
         rivals'[k] \subseteq Limits!Kept(k, at),
         promise'[k] > 0 => rivals'[k] = Limits!Ahead(k, at),
         \A i \in Keys \ {k} : rivals'[i] = IF ~Limits!CrowdedOut(k, at) /\ promise[i] > 0
                                          THEN rivals[i] \cup {k} ELSE rivals[i]
  PROVE  RivalsKept' /\ \A i \in Keys : rivals'[i] \subseteq Keys
<1> DEFINE out == Limits!CrowdedOut(k, at)
<1>1. /\ rivals \in [Keys -> SUBSET Keys] /\ promise \in [Keys -> Nat]
      /\ bucket \in [Keys -> [units : Nat, at : Nat] \cup {Untracked}]
  BY DEF LimitsInv, LimitsType
<1>2. Limits!Kept(k, at) \subseteq Limits!Tracked /\ Limits!Tracked \subseteq Keys
  BY DEF Limits!Kept, Limits!Fresh, Limits!Tracked
<1>3. IsFiniteSet(Limits!Tracked) /\ \A i \in Keys : IsFiniteSet(rivals[i])
  BY DEF LimitsInv, RivalsKept
<1>4. \A j \in Limits!Tracked' : /\ j \in Keys
                                /\ \/ j = k /\ ~out
                                   \/ j \in Limits!Kept(k, at) /\ bucket'[j] = bucket[j]
  BY DEF Limits!Tracked
<1>8. out => k \notin Limits!Tracked
  BY DEF Limits!CrowdedOut
<1>9. \A i \in Keys : IsFiniteSet(rivals'[i]) /\ rivals'[i] \subseteq Keys
  <2>1. IsFiniteSet(rivals'[k]) /\ rivals'[k] \subseteq Keys
    BY <1>2, <1>3, FS_Subset
  <2>2. \A i \in Keys : IsFiniteSet(rivals[i] \cup {k})
    BY <1>3, FS_AddElement
  <2>3. \A i \in Keys \ {k} : rivals'[i] \in {rivals[i], rivals[i] \cup {k}}
    OBVIOUS
  <2>4. \A i \in Keys \ {k} : IsFiniteSet(rivals'[i])
    BY <1>3, <2>2, <2>3
  <2>5. \A i \in Keys \ {k} : rivals'[i] \subseteq Keys
    BY <1>1, <2>3
  <2> QED
    BY <2>1, <2>4, <2>5
<1> HIDE DEF out
<1>5. IsFiniteSet(Limits!Tracked')
  <2>1. IsFiniteSet(Limits!Tracked \cup {k})
    BY <1>3, FS_AddElement
  <2>2. Limits!Tracked' \subseteq Limits!Tracked \cup {k}
    BY <1>2, <1>4
  <2> QED
    BY <2>1, <2>2, FS_Subset
<1>7. ASSUME NEW i \in Keys, promise'[i] > 0, NEW j \in Limits!Tracked' \ (rivals'[i] \cup {i})
      PROVE  Older(j, i)'
  <2>1. CASE i = k
    <3>1. j \in Limits!Kept(k, at) /\ bucket'[j] = bucket[j] /\ j # k
      BY <1>4, <1>7, <2>1, Zenon
    <3>2. j \notin Limits!Ahead(k, at)
      BY <1>7, <2>1
    <3>3. bucket[j] \in [units : Nat, at : Nat]
      BY <1>1, <1>2, <3>1 DEF Limits!Tracked
    <3>4. bucket'[j].at < at
      BY <3>1, <3>2, <3>3 DEF Limits!Ahead
    <3>5. CASE out
      <4>1. bucket'[k] = Untracked
        BY <1>2, <1>8, <3>5 DEF out
      <4>2. promise'[k] >= at + 2 * Period
        BY <3>5 DEF out, Limits!CapWait, Limits!StaleAfter, Limits!Larger
      <4>3. promise'[k] \in Nat
        BY <3>5 DEF out, Limits!CapWait, Limits!StaleAfter, Limits!Larger
      <4>4. bucket'[j].at + 2 * Period < promise'[k]
        BY <3>1, <3>3, <3>4, <4>2, <4>3
      <4> QED
        BY <2>1, <4>1, <4>4 DEF Older
    <3>6. CASE ~out
      BY <2>1, <3>4, <3>6 DEF Older, out
    <3> QED
      BY <3>5, <3>6
  <2>2. CASE i # k
    <3>1. promise'[i] = promise[i] /\ promise[i] > 0
      BY <1>7, <2>2
    <3>2. j \notin rivals[i] /\ j # i /\ (~out => j # k)
      BY <1>7, <2>2, <3>1 DEF out
    <3>3. j \in Limits!Kept(k, at) /\ bucket'[j] = bucket[j]
      BY <1>4, <3>2
    <3>4. Older(j, i)
      BY <1>2, <3>1, <3>2, <3>3 DEF LimitsInv, RivalsKept
    <3>5. CASE bucket[i] = Untracked
      <4>1. bucket'[i] = Untracked
        BY <2>2, <3>5
      <4> QED
        BY <3>1, <3>3, <3>4, <3>5, <4>1 DEF Older
    <3>6. CASE bucket[i] # Untracked
      <4>1. bucket[i] \in [units : Nat, at : Nat] /\ bucket[j] \in [units : Nat, at : Nat]
        BY <1>1, <1>2, <3>3, <3>6 DEF Limits!Tracked
      <4>2. bucket[j].at < bucket[i].at
        BY <3>4, <3>6 DEF Older
      <4>3. i \in Limits!Kept(k, at)
        <5>1. CASE Limits!Kept(k, at) = Limits!Tracked
          BY <3>6, <5>1 DEF Limits!Tracked
        <5>2. CASE Limits!Kept(k, at) = Limits!Fresh(at)
          <6>1. at - bucket[j].at <= 2 * Period
            BY <3>3, <5>2 DEF Limits!Fresh, Limits!StaleAfter
          <6>2. at - bucket[i].at <= 2 * Period
            BY <4>1, <4>2, <6>1
          <6> QED
            BY <3>6, <5>2, <6>2 DEF Limits!Fresh, Limits!StaleAfter, Limits!Tracked
        <5> QED
          BY <5>1, <5>2 DEF Limits!Kept
      <4>4. bucket'[i] = bucket[i]
        BY <2>2, <4>3
      <4> QED
        BY <3>3, <3>6, <4>2, <4>4 DEF Older
    <3> QED
      BY <3>5, <3>6
  <2> QED
    BY <2>1, <2>2
<1> QED
  BY <1>5, <1>7, <1>9 DEF RivalsKept

\* a check under the lock keeps what every key may have and what it was told
LEMMA CheckMatters ==
  ASSUME LimitsInv, NEW r \in Requests, Limits!Check(r),
         Capacity \in Nat \ {0}, Period \in Nat \ {0}, MaxTrackedKeys \in Nat,
         Untracked \notin [units : Nat, at : Nat]
  PROVE  LimitsInv'
<1> DEFINE k == key[r]
           at == now[r]
           units == Limits!Refilled(Limits!Entry(k, at), at)
           late == Limits!Larger(stamp[k] - at, 0)
           forgotten == Limits!Tracked \ Limits!Kept(k, at)
<1>1. k \in Keys /\ at \in Nat /\ at <= time /\ place[r] = "check" /\ time \in Nat
  BY DEF LimitsInv, LimitsType, Limits!Check
<1>2. UNCHANGED <<time, key, now, free, task>>
  BY DEF Limits!Check
<1>3. forgotten = {} \/ (k \notin Limits!Tracked /\ forgotten = Limits!Tracked \ Limits!Fresh(at))
  BY DEF Limits!Kept
<1>4. k \notin forgotten /\ forgotten \subseteq Keys
  BY <1>3 DEF Limits!Tracked
<1>5. /\ units \in Nat
      /\ granted[k] * Period + units <= Capacity * (Period + at + (regained[k] + late))
  BY <1>1, CheckAllowance
<1>6. late \in Nat
  <2>1. stamp[k] \in Nat
    BY <1>1 DEF LimitsInv, LimitsType
  <2> QED
    BY <1>1, <2>1 DEF Limits!Larger
<1>7. place' \in [Requests -> Places] /\ Working' = Working /\ SlotsKept'
  <2>1. PICK next \in {"done", "admitted"} : place' = [place EXCEPT ![r] = next]
    BY DEF Limits!Check, Limits!Goto
  <2>2. place \in [Requests -> Places] /\ SlotsKept
    BY DEF LimitsInv, LimitsType
  <2>3. place' \in [Requests -> Places]
    BY <2>1, <2>2 DEF Places
  <2>4. Working' = Working
    BY <1>1, <1>2, <2>1, <2>2 DEF Working
  <2> QED
    BY <1>1, <1>2, <2>1, <2>2, <2>3, <2>4 DEF SlotsKept
<1>8. \A j \in forgotten : granted[j] * Period + Capacity * Period <= Capacity * (Period + at + regained[j])
  BY <1>1, <1>3, <1>4, ForgottenIsFull
<1>9. stamp' = [j \in Keys |-> IF j \in forgotten \/ (j = k /\ ~Limits!CrowdedOut(k, at)) THEN at ELSE stamp[j]]
  BY DEF Limits!Check
<1>10. stamp' \in [Keys -> 0..time]
  BY <1>1, <1>9 DEF LimitsInv, LimitsType
<1>11. CASE Limits!CrowdedOut(k, at)
  <2>1. /\ bucket' = [j \in Keys |-> IF j \in forgotten THEN Untracked ELSE bucket[j]]
        /\ UNCHANGED <<granted, regained>>
        /\ promise' = [promise EXCEPT ![k] = at + Limits!CapWait]
        /\ broken' = (broken \/ (promise[k] \in 1..at /\ Limits!Cardinality(rivals[k]) < MaxTrackedKeys))
        /\ rivals' = [rivals EXCEPT ![k] = Limits!Ahead(k, at)]
    <3>1. \A j \in Keys : (IF j \in Limits!Kept(k, at) THEN bucket[j] ELSE Untracked)
                            = IF j \in forgotten THEN Untracked ELSE bucket[j]
      BY DEF Limits!Tracked, Limits!Kept, Limits!Fresh
    <3> QED
      BY <1>11, <3>1 DEF Limits!Check, Limits!Waited
  <2>0. bucket[k] = Untracked /\ bucket'[k] = Untracked
    BY <1>1, <1>11, <2>1 DEF Limits!CrowdedOut, Limits!Tracked
  <2>6. promise' \in [Keys -> Nat] /\ \A j \in Keys \ {k} : promise'[j] = promise[j]
    BY <1>1, <2>1 DEF LimitsInv, LimitsType, Limits!CapWait, Limits!Larger, Limits!StaleAfter
  <2>5. RivalsKept' /\ rivals' \in [Keys -> SUBSET Keys]
    <3>1. /\ rivals'[k] = Limits!Ahead(k, at)
          /\ \A i \in Keys \ {k} : rivals'[i] = rivals[i]
          /\ promise'[k] = at + Limits!CapWait /\ DOMAIN rivals' = Keys
          /\ rivals' = [i \in Keys |-> rivals'[i]]
      BY <1>1, <2>1 DEF LimitsInv, LimitsType
    <3>2. Limits!Ahead(k, at) \subseteq Limits!Kept(k, at)
      BY DEF Limits!Ahead
    <3>3. bucket' = [j \in Keys |-> IF j \in Limits!Kept(k, at) THEN bucket[j] ELSE Untracked]
      BY <1>11 DEF Limits!Check
    <3>4. /\ \A j \in Keys : bucket'[j] # Untracked => j \in Limits!Kept(k, at) /\ bucket'[j] = bucket[j]
          /\ \A j \in Limits!Kept(k, at) : bucket'[j] = bucket[j]
      BY <3>3 DEF Limits!Kept, Limits!Fresh, Limits!Tracked
    <3> HIDE DEF k, at
    <3>5. RivalsKept' /\ \A i \in Keys : rivals'[i] \subseteq Keys
      BY <1>1, <1>11, <2>6, <3>1, <3>2, <3>4, CheckKeepsRivals
    <3> QED
      BY <3>1, <3>5
  <2>2. LimitsType'
    BY <1>2, <1>7, <1>10, <2>1, <2>5, <2>6 DEF LimitsInv, LimitsType
  <2>3. AllowanceKept'
    <3> SUFFICES ASSUME NEW j \in Keys
                 PROVE  /\ bucket'[j] # Untracked => bucket'[j].at = stamp'[j]
                        /\ granted[j] * Period + Owned(j)' <= Capacity * (Period + stamp'[j] + regained[j])
      BY <2>1 DEF AllowanceKept
    <3>1. CASE j \in forgotten
      BY <1>8, <1>9, <2>1, <3>1 DEF Owned
    <3>2. CASE j \notin forgotten
      BY <1>9, <1>11, <2>1, <3>2 DEF LimitsInv, AllowanceKept, Owned
    <3> QED
      BY <3>1, <3>2
  <2>4. PromiseKept'
    <3>1. ~broken'
      BY <1>1, <1>11, <2>1, CrowdedByRivals DEF LimitsInv, PromiseKept
    <3>2. \A j \in Keys : bucket'[j] # Untracked => j # k /\ bucket'[j] = bucket[j]
      BY <2>0, <2>1
    <3> QED
      BY <2>6, <3>1, <3>2 DEF LimitsInv, PromiseKept
  <2> QED
    BY <1>7, <2>2, <2>3, <2>4, <2>5 DEF LimitsInv
<1>12. CASE ~Limits!CrowdedOut(k, at)
  <2> DEFINE grant == units >= Period
             charged == [units |-> IF grant THEN units - Period ELSE units, at |-> at]
  <2>1. bucket' = [j \in Keys |-> IF j = k THEN charged ELSE IF j \in forgotten THEN Untracked ELSE bucket[j]]
    <3>1. \A j \in Keys : (IF j \in Limits!Kept(k, at) THEN bucket[j] ELSE Untracked)
                            = IF j \in forgotten THEN Untracked ELSE bucket[j]
      BY DEF Limits!Tracked, Limits!Kept, Limits!Fresh
    <3>2. Limits!Charged(Limits!Entry(k, at), at) = charged
      BY DEF Limits!Charged
    <3> QED
      BY <1>12, <3>1, <3>2 DEF Limits!Check
  <2>2. /\ granted' = [granted EXCEPT ![k] = IF grant THEN @ + 1 ELSE @]
        /\ regained' = [regained EXCEPT ![k] = @ + late]
        /\ promise' = [promise EXCEPT ![k] = IF grant THEN 0 ELSE at + Limits!RetryAfter(units)]
        /\ broken' = (broken \/ (~grant /\ promise[k] \in 1..at))
    BY <1>12 DEF Limits!Check, Limits!Waited
  <2>10. rivals' = [Limits!Rivalled(k) EXCEPT ![k] = IF grant THEN {} ELSE Limits!Ahead(k, at)]
    BY <1>12 DEF Limits!Check
  <2>11. bucket' = [j \in Keys |-> IF j = k THEN charged
                                   ELSE IF j \in Limits!Kept(k, at) THEN bucket[j] ELSE Untracked]
    <3>1. Limits!Charged(Limits!Entry(k, at), at) = charged
      BY DEF Limits!Charged
    <3> QED
      BY <1>12, <3>1 DEF Limits!Check
  <2>3. charged \in [units : Nat, at : Nat] /\ charged # Untracked /\ charged.at = at
        /\ charged.units = IF grant THEN units - Period ELSE units
    BY <1>1, <1>5
  <2>4. ~grant => Limits!RetryAfter(units) \in Nat \ {0}
                  /\ units + Limits!RetryAfter(units) * Capacity >= Period
    BY <1>5, RetryRoundsUp
  <2>5. ~grant => promise[k] \notin 1..at
    BY <1>1, WaitedFindsToken
  <2>6. granted \in [Keys -> Nat] /\ regained \in [Keys -> Nat] /\ promise \in [Keys -> Nat]
        /\ bucket \in [Keys -> [units : Nat, at : Nat] \cup {Untracked}] /\ stamp \in [Keys -> 0..time]
    BY DEF LimitsInv, LimitsType
  <2>12. RivalsKept' /\ rivals' \in [Keys -> SUBSET Keys]
    <3>1. /\ \A i \in Keys \ {k} : rivals'[i] = IF promise[i] > 0 THEN rivals[i] \cup {k} ELSE rivals[i]
          /\ rivals'[k] = IF grant THEN {} ELSE Limits!Ahead(k, at)
          /\ rivals' = [i \in Keys |-> rivals'[i]]
      BY <1>1, <2>10 DEF Limits!Rivalled
    <3>2. Limits!Ahead(k, at) \subseteq Limits!Kept(k, at)
      BY DEF Limits!Ahead
    <3>3. /\ \A i \in Keys \ {k} : promise'[i] = promise[i]
          /\ promise'[k] = IF grant THEN 0 ELSE at + Limits!RetryAfter(units)
      BY <1>1, <2>2, <2>6
    <3>4. /\ bucket'[k] = charged
          /\ \A j \in Keys \ {k} : bucket'[j] = IF j \in Limits!Kept(k, at) THEN bucket[j] ELSE Untracked
          /\ Limits!Kept(k, at) \subseteq Keys
      BY <1>1, <2>11 DEF Limits!Kept, Limits!Fresh, Limits!Tracked
    <3> HIDE DEF k, at, units, grant, charged
    <3>5. promise'[k] > 0 => rivals'[k] = Limits!Ahead(k, at)
      BY <3>1, <3>3
    <3>6. rivals'[k] \subseteq Limits!Kept(k, at)
      BY <3>1, <3>2
    <3>7. RivalsKept' /\ \A i \in Keys : rivals'[i] \subseteq Keys
      BY <1>1, <1>12, <2>3, <3>1, <3>3, <3>4, <3>5, <3>6, CheckKeepsRivals
    <3> QED
      BY <3>1, <3>7
  <2> HIDE DEF k, at, units, late, forgotten, grant, charged
  <2>7. LimitsType'
    <3>1. granted' \in [Keys -> Nat] /\ regained' \in [Keys -> Nat]
      BY <1>1, <1>6, <2>2, <2>6
    <3>2. promise' \in [Keys -> Nat]
      BY <1>1, <2>2, <2>4, <2>6
    <3>3. bucket' \in [Keys -> [units : Nat, at : Nat] \cup {Untracked}]
      BY <2>1, <2>3, <2>6
    <3> QED
      BY <1>2, <1>7, <1>10, <2>12, <3>1, <3>2, <3>3 DEF LimitsInv, LimitsType
  <2>8. AllowanceKept'
    <3> SUFFICES ASSUME NEW j \in Keys
                 PROVE  /\ bucket'[j] # Untracked => bucket'[j].at = stamp'[j]
                        /\ granted'[j] * Period + Owned(j)' <= Capacity * (Period + stamp'[j] + regained'[j])
      BY DEF AllowanceKept
    <3>1. CASE j = k
      <4>1. /\ bucket'[j] = charged /\ stamp'[j] = at /\ regained'[j] = regained[k] + late
            /\ Owned(j)' = IF grant THEN units - Period ELSE units
            /\ granted'[j] = IF grant THEN granted[k] + 1 ELSE granted[k]
        BY <1>1, <1>9, <1>12, <2>1, <2>2, <2>3, <2>6, <3>1 DEF Owned
      <4>2. granted[k] \in Nat /\ (granted[k] + 1) * Period = granted[k] * Period + Period
        BY <1>1, <2>6
      <4>3. granted[k] * Period \in Nat
        BY <4>2
      <4>4. granted'[j] * Period + Owned(j)' = granted[k] * Period + units
        BY <1>5, <4>1, <4>2, <4>3
      <4> QED
        BY <1>5, <2>3, <4>1, <4>4
    <3>2. CASE j # k /\ j \in forgotten
      <4>1. bucket'[j] = Untracked /\ stamp'[j] = at /\ regained'[j] = regained[j] /\ granted'[j] = granted[j]
        BY <1>9, <2>1, <2>2, <2>6, <3>2
      <4> QED
        BY <1>8, <3>2, <4>1 DEF Owned
    <3>3. CASE j # k /\ j \notin forgotten
      <4>1. bucket'[j] = bucket[j] /\ stamp'[j] = stamp[j] /\ regained'[j] = regained[j] /\ granted'[j] = granted[j]
        BY <1>9, <2>1, <2>2, <2>6, <3>3
      <4> QED
        BY <4>1 DEF LimitsInv, AllowanceKept, Owned
    <3> QED
      BY <3>1, <3>2, <3>3
  <2>9. PromiseKept'
    <3>1. ~broken'
      BY <2>2, <2>5 DEF LimitsInv, PromiseKept
    <3> SUFFICES ASSUME NEW j \in Keys, bucket'[j] # Untracked, promise'[j] > 0
                 PROVE  /\ bucket'[j].at < promise'[j]
                        /\ bucket'[j].units + (promise'[j] - bucket'[j].at) * Capacity >= Period
      BY <3>1 DEF PromiseKept
    <3>2. CASE j = k
      <4>1. bucket'[j] = charged /\ promise'[j] = IF grant THEN 0 ELSE at + Limits!RetryAfter(units)
        BY <1>1, <2>1, <2>2, <2>6, <3>2
      <4>2. ~grant /\ promise'[j] = at + Limits!RetryAfter(units)
        BY <4>1
      <4>3. bucket'[j].units = units /\ bucket'[j].at = at
        BY <2>3, <4>1, <4>2
      <4>4. promise'[j] - at = Limits!RetryAfter(units) /\ promise'[j] > at
        BY <1>1, <2>4, <4>2
      <4> QED
        BY <2>4, <4>2, <4>3, <4>4
    <3>3. CASE j # k
      <4>1. bucket'[j] = bucket[j] /\ promise'[j] = promise[j]
        BY <2>1, <2>2, <2>6, <3>3
      <4> QED
        BY <4>1 DEF LimitsInv, PromiseKept
    <3> QED
      BY <3>2, <3>3
  <2> QED
    BY <1>7, <2>7, <2>8, <2>9, <2>12 DEF LimitsInv
<1> QED
  BY <1>11, <1>12

LEMMA LimitsBegin == MCInit => LimitsInv
<1> SUFFICES ASSUME MCInit PROVE LimitsInv
  OBVIOUS
<1>1. Limits!Init
  BY DEF MCInit
<1>2. Capacity \in Nat /\ Period \in Nat /\ Slots \in Nat
  BY LimitsAssumption DEF Limits!LimitsAssumption
<1>3. Working = {}
  BY <1>1 DEF Limits!Init, Working
<1>4. IsFiniteSet(Working) /\ Cardinality(Working) = 0
  BY <1>3, FS_EmptySet
<1>5. LimitsType
  BY <1>1, <1>2 DEF Limits!Init, LimitsType, Places
<1>6. SlotsKept
  BY <1>1, <1>2, <1>4 DEF Limits!Init, SlotsKept
<1>7. AllowanceKept
  <2>1. \A k \in Keys : granted[k] = 0 /\ stamp[k] = 0 /\ regained[k] = 0 /\ bucket[k] = Untracked
    BY <1>1 DEF Limits!Init
  <2>2. 0 * Period + Capacity * Period <= Capacity * (Period + 0 + 0)
    BY <1>2
  <2> QED
    BY <2>1, <2>2 DEF AllowanceKept, Owned
<1>8. PromiseKept /\ RivalsKept
  <2>1. Limits!Tracked = {}
    BY <1>1 DEF Limits!Init, Limits!Tracked
  <2> QED
    BY <1>1, <2>1, FS_EmptySet DEF Limits!Init, PromiseKept, RivalsKept
<1> QED
  BY <1>5, <1>6, <1>7, <1>8 DEF LimitsInv

LEMMA LimitsKept == LimitsInv /\ [Limits!Next]_limitVars => LimitsInv'
<1> SUFFICES ASSUME LimitsInv, [Limits!Next]_limitVars PROVE LimitsInv'
  OBVIOUS
<1>1. CASE Limits!Tick \/ \E r \in Requests : Limits!ReadClock(r)
  BY <1>1, ClockMatters
<1>2. CASE \E r \in Requests : Limits!Check(r)
  BY <1>2, CheckMatters, LimitsAssumption DEF Limits!LimitsAssumption
<1>3. CASE \E r \in Requests : Limits!Acquire(r) \/ Limits!Spawn(r) \/ Limits!TaskEnds(r)
                                \/ Limits!TurnEnds(r) \/ Limits!Drop(r)
  BY <1>3, SlotsMatter
<1>4. CASE UNCHANGED limitVars
  BY <1>4 DEF limitVars, LimitsInv, LimitsType, SlotsKept, Working, AllowanceKept, PromiseKept,
     RivalsKept, Older, Limits!Tracked, Owned
<1> QED
  BY <1>1, <1>2, <1>3, <1>4 DEF Limits!Next

LEMMA LimitsAlways == MCSpec => []LimitsInv
<1>1. [MCNext]_allVars => [Limits!Next]_limitVars
  BY DEF MCNext, allVars
<1> QED
  BY <1>1, LimitsBegin, LimitsKept, PTL DEF MCSpec

-----------------------------------------------------------------------------
(* What a confirmation applies.                                            *)

\* the versions of the project
Versions == [etag : Nat, body : Action!Body]

\* a preview without regard to the form of its changes
Preview(p) ==
  /\ p = [etag |-> p.etag, patch |-> p.patch, changes |-> p.changes]
  /\ p.etag \in Nat
  /\ p.patch \in Action!Patches

\* no turn and no preview is ahead of the project
Behind ==
  project # Gone =>
    /\ \A t \in Turns : selected[t] <= project.etag
    /\ \A p \in previews : p.etag <= project.etag

\* a preview of the project's own version shows what its patch changes in it
ShowsTheVersion ==
  project # Gone =>
    \A p \in previews : p.etag = project.etag => p.changes = Action!Changes(p.patch, project.body)

\* a confirmation that is under way names a preview of the browser
NamesPreview ==
  \A c \in Confirms : stage[c] \in {"get", "check", "write"} => request[c] \in previews

\* while the version it names is the project's, what it prepared is that version patched
PreparedFrom ==
  project # Gone =>
    \A c \in Confirms :
      stage[c] \in {"check", "write"} /\ request[c].etag = project.etag =>
        candidate[c] = Action!Apply(request[c].patch, project.body)

\* what was applied was of an earlier version
AppliedEarlier ==
  /\ \A a \in applied : a.etag \in Nat
  /\ project # Gone => \A a \in applied : a.etag < project.etag
  /\ Action!AppliedOnce

ActionInv ==
  /\ project \in Versions \cup {Gone}
  /\ selected \in [Turns -> Nat]
  /\ \A p \in previews : Preview(p)
  /\ DOMAIN stage = Confirms /\ DOMAIN request = Confirms /\ DOMAIN candidate = Confirms
  /\ Behind /\ ShowsTheVersion /\ NamesPreview /\ PreparedFrom /\ AppliedEarlier

LEMMA ApplyIsBody ==
  ASSUME NEW patch \in Action!Patches, NEW body \in Action!Body
  PROVE  Action!Apply(patch, body) \in Action!Body
<1>1. PICK named \in SUBSET Fields : patch \in [named -> Values]
  BY DEF Action!Patches
<1> QED
  BY <1>1 DEF Action!Apply, Action!Body

\* what a patch changes is what differs after it
LEMMA PatchDiffers ==
  ASSUME NEW patch \in Action!Patches, NEW body \in Action!Body
  PROVE  Action!Changes(patch, body) =
           [f \in {g \in Fields : body[g] # Action!Apply(patch, body)[g]} |->
              [before |-> body[f], after |-> Action!Apply(patch, body)[f]]]
<1>1. PICK named \in SUBSET Fields : patch \in [named -> Values]
  BY DEF Action!Patches
<1>2. \A f \in Fields : Action!Apply(patch, body)[f] = IF f \in named THEN patch[f] ELSE body[f]
  BY <1>1 DEF Action!Apply
<1>3. {g \in DOMAIN patch : patch[g] # body[g]} = {g \in Fields : body[g] # Action!Apply(patch, body)[g]}
  BY <1>1, <1>2
<1>4. \A f \in {g \in Fields : body[g] # Action!Apply(patch, body)[g]} : Action!Apply(patch, body)[f] = patch[f]
  BY <1>2
<1> QED
  BY <1>3, <1>4 DEF Action!Changes

LEMMA ActionBegins == MCInit => ActionInv
<1> SUFFICES ASSUME Action!Init PROVE ActionInv
  BY DEF MCInit
<1> QED
  BY DEF Action!Init, ActionInv, Versions, Behind, ShowsTheVersion, NamesPreview, PreparedFrom,
     AppliedEarlier, Action!AppliedOnce

\* a step of a confirmation that moves it and leaves the project alone
LEMMA MovesOn ==
  ASSUME ActionInv, NEW c \in Confirms, NEW next, Action!Goto(c, next),
         UNCHANGED <<project, Action!turnVars, request, applied>>,
         DOMAIN candidate' = Confirms,
         \A d \in Confirms : candidate'[d] # candidate[d] => d = c,
         next \in {"get", "check", "write"} => request[c] \in previews,
         next \in {"check", "write"} /\ project # Gone /\ request[c].etag = project.etag
           => candidate'[c] = Action!Apply(request[c].patch, project.body)
  PROVE  ActionInv'
<1>1. \A d \in Confirms : stage'[d] = IF d = c THEN next ELSE stage[d]
  BY DEF Action!Goto, ActionInv
<1>2. NamesPreview'
  BY <1>1 DEF ActionInv, NamesPreview, Action!turnVars
<1>3. PreparedFrom'
  BY <1>1 DEF ActionInv, PreparedFrom
<1> QED
  BY <1>2, <1>3 DEF ActionInv, Behind, ShowsTheVersion, AppliedEarlier, Action!AppliedOnce,
     Action!Goto, Action!turnVars

LEMMA SelectKeeps == ASSUME ActionInv, NEW t \in Turns, Action!Select(t) PROVE ActionInv'
<1>1. project \in Versions /\ project.etag \in Nat
  BY DEF Action!Select, ActionInv, Versions
<1>2. selected' \in [Turns -> Nat] /\ \A u \in Turns : selected'[u] \in {selected[u], project.etag}
  BY <1>1 DEF Action!Select, ActionInv
<1>3. Behind'
  BY <1>1, <1>2 DEF Action!Select, ActionInv, Behind
<1> QED
  BY <1>2, <1>3 DEF Action!Select, ActionInv, ShowsTheVersion, NamesPreview, PreparedFrom,
     AppliedEarlier, Action!AppliedOnce, Action!sent

LEMMA StageKeeps == ASSUME ActionInv, NEW t \in Turns, Action!Stage(t) PROVE ActionInv'
<1>1. PICK patch \in Action!Patches :
        previews' = previews \cup {Action!Bind(t, patch, Action!Changes(patch, project.body))}
  BY DEF Action!Stage
<1> DEFINE preview == Action!Bind(t, patch, Action!Changes(patch, project.body))
<1>2. project \in Versions /\ project # Gone /\ project' = project /\ selected[t] \in Nat
  BY DEF Action!Stage, ActionInv
<1>3. /\ preview.etag = selected[t] /\ preview.patch = patch
      /\ preview.changes = Action!Changes(patch, project.body)
      /\ Preview(preview)
  BY <1>2 DEF Action!Bind, Preview
<1>4. selected' \in [Turns -> Nat] /\ \A u \in Turns : selected'[u] \in {selected[u], 0}
  BY DEF Action!Stage, ActionInv
<1>5. selected[t] <= project.etag /\ project.etag \in Nat
  BY <1>2 DEF ActionInv, Behind, Versions
<1>6. Behind'
  <2>1. \A u \in Turns : selected'[u] <= project.etag
    BY <1>2, <1>4, <1>5 DEF ActionInv, Behind
  <2>2. \A p \in previews' : p.etag <= project.etag
    BY <1>1, <1>2, <1>3, <1>5 DEF ActionInv, Behind
  <2> QED
    BY <1>2, <2>1, <2>2 DEF Behind
<1>7. ShowsTheVersion'
  BY <1>1, <1>2, <1>3 DEF ActionInv, ShowsTheVersion
<1>8. \A p \in previews' : Preview(p)
  BY <1>1, <1>3 DEF ActionInv
<1> QED
  BY <1>1, <1>2, <1>4, <1>6, <1>7, <1>8 DEF Action!Stage, ActionInv, NamesPreview, PreparedFrom,
     AppliedEarlier, Action!AppliedOnce, Action!sent

LEMMA ConfirmKeeps == ASSUME ActionInv, NEW c \in Confirms, Action!Confirm(c) PROVE ActionInv'
<1>1. PICK preview \in previews, other \in previews :
        /\ request' = [request EXCEPT ![c] = [preview EXCEPT !.patch = other.patch]]
        /\ Action!Goto(c, IF Action!BoundTo(preview, other.patch) THEN "get" ELSE "mismatch")
  BY DEF Action!Confirm
<1>2. Action!BoundTo(preview, other.patch) => [preview EXCEPT !.patch = other.patch] \in previews
  <2>1. preview = [etag |-> preview.etag, patch |-> preview.patch, changes |-> preview.changes]
    BY DEF ActionInv, Preview
  <2>2. [preview EXCEPT !.patch = other.patch] =
          [etag |-> preview.etag, patch |-> other.patch, changes |-> preview.changes]
    BY <2>1
  <2>3. SUFFICES ASSUME Action!BoundTo(preview, other.patch) PROVE other.patch = preview.patch
    BY <2>1, <2>2
  <2> QED
    BY <2>2, <2>3 DEF Action!BoundTo, Action!ProposalId
<1>3. \A d \in Confirms :
        /\ stage'[d] = IF d = c THEN IF Action!BoundTo(preview, other.patch) THEN "get" ELSE "mismatch"
                       ELSE stage[d]
        /\ d # c => request'[d] = request[d]
        /\ d = c => request'[d] = [preview EXCEPT !.patch = other.patch]
  BY <1>1 DEF Action!Goto, ActionInv
<1>4. NamesPreview'
  BY <1>2, <1>3 DEF Action!Confirm, ActionInv, NamesPreview, Action!turnVars
<1>5. PreparedFrom'
  BY <1>3 DEF Action!Confirm, ActionInv, PreparedFrom
<1> QED
  BY <1>1, <1>4, <1>5 DEF Action!Confirm, Action!Goto, ActionInv, Behind, ShowsTheVersion,
     AppliedEarlier,
     Action!AppliedOnce, Action!turnVars

LEMMA GetKeeps == ASSUME ActionInv, NEW c \in Confirms, Action!Get(c) PROVE ActionInv'
<1>1. request[c] \in previews /\ UNCHANGED <<project, Action!turnVars, request, applied>>
  BY DEF Action!Get, ActionInv, NamesPreview
<1>2. CASE project # Gone /\ project.etag = request[c].etag
  <2>1. /\ candidate' = [candidate EXCEPT ![c] = Action!Apply(request[c].patch, project.body)]
        /\ Action!Goto(c, "check")
    BY <1>2 DEF Action!Get
  <2> QED
    BY <1>1, <2>1, MovesOn DEF ActionInv
<1>3. CASE ~(project # Gone /\ project.etag = request[c].etag)
  <2>1. candidate' = candidate /\ DOMAIN candidate' = Confirms
    BY <1>3 DEF Action!Get, ActionInv
  <2>2. Action!Goto(c, "not_found") \/ Action!Goto(c, "precondition")
    BY <1>3 DEF Action!Get
  <2> QED
    BY <1>1, <2>1, <2>2, MovesOn
<1> QED
  BY <1>2, <1>3

LEMMA CheckKeeps == ASSUME ActionInv, NEW c \in Confirms, Action!Check(c) PROVE ActionInv'
<1>1. /\ request[c] \in previews /\ UNCHANGED <<project, Action!turnVars, request, applied>>
      /\ candidate' = candidate /\ DOMAIN candidate' = Confirms /\ stage[c] = "check"
  BY DEF Action!Check, ActionInv, NamesPreview, Action!sent
<1>2. Action!Goto(c, "not_found") \/ Action!Goto(c, "precondition") \/ Action!Goto(c, "write")
  BY DEF Action!Check
<1>3. project # Gone /\ request[c].etag = project.etag
        => candidate[c] = Action!Apply(request[c].patch, project.body)
  BY <1>1 DEF ActionInv, PreparedFrom
<1> QED
  BY <1>1, <1>2, <1>3, MovesOn

LEMMA WriteKeeps == ASSUME ActionInv, NEW c \in Confirms, Action!Write(c) PROVE ActionInv'
<1>1. /\ project # Gone /\ project.etag = request[c].etag /\ stage[c] = "write"
      /\ project' = [etag |-> project.etag + 1, body |-> candidate[c]]
      /\ applied' =
           applied \cup {[confirm |-> c, etag |-> request[c].etag, patch |-> request[c].patch]}
  BY DEF Action!Write, Action!WriteMatches
<1>2. project \in Versions /\ project.etag \in Nat /\ project.body \in Action!Body
  BY <1>1 DEF ActionInv, Versions
<1>3. request[c] \in previews /\ Preview(request[c])
  BY <1>1 DEF ActionInv, NamesPreview
<1>4. candidate[c] = Action!Apply(request[c].patch, project.body) /\ candidate[c] \in Action!Body
  BY <1>1, <1>2, <1>3, ApplyIsBody DEF ActionInv, PreparedFrom, Preview
<1>5. project' \in Versions /\ project'.etag = project.etag + 1
  BY <1>1, <1>2, <1>4 DEF Versions
<1>6. UNCHANGED <<selected, previews, request, candidate>>
  BY DEF Action!Write, Action!turnVars
<1>7. Behind'
  <2>1. \A t \in Turns : selected[t] <= project.etag /\ selected[t] \in Nat
    BY <1>1 DEF ActionInv, Behind
  <2>2. \A p \in previews : p.etag <= project.etag /\ p.etag \in Nat
    BY <1>1 DEF ActionInv, Behind, Preview
  <2> QED
    BY <1>2, <1>5, <1>6, <2>1, <2>2 DEF Behind
<1>8. \A p \in previews : p.etag # project'.etag
  BY <1>1, <1>2, <1>5 DEF ActionInv, Behind, Preview
<1>9. ShowsTheVersion'
  BY <1>6, <1>8 DEF ShowsTheVersion
<1>10. \A d \in Confirms : stage'[d] \in {"check", "write", "get"} => stage'[d] = stage[d]
  BY DEF Action!Write, Action!Goto, ActionInv
<1>11. NamesPreview'
  BY <1>6, <1>10 DEF ActionInv, NamesPreview
<1>12. PreparedFrom'
  BY <1>6, <1>8, <1>10 DEF ActionInv, NamesPreview, PreparedFrom
<1>13. AppliedEarlier'
  <2>1. \A a \in applied : a.etag \in Nat /\ a.etag < project.etag
    BY <1>1 DEF ActionInv, AppliedEarlier
  <2>2. \A a \in applied' : a.etag \in Nat /\ a.etag < project'.etag
    <3>1. \A a \in applied' : a \in applied \/ a.etag = project.etag
      BY <1>1
    <3> QED
      BY <1>2, <1>5, <2>1, <3>1
  <2>3. Action!AppliedOnce'
    BY <1>1, <1>2, <2>1 DEF ActionInv, AppliedEarlier, Action!AppliedOnce
  <2> QED
    BY <2>2, <2>3 DEF AppliedEarlier
<1>14. DOMAIN stage' = Confirms
  BY DEF Action!Write, Action!Goto, ActionInv
<1> QED
  BY <1>5, <1>6, <1>7, <1>9, <1>11, <1>12, <1>13, <1>14 DEF ActionInv

\* a refused write, the last read and a failure only move the confirmation
LEMMA EndingKeeps ==
  ASSUME ActionInv, NEW c \in Confirms, Action!WriteRefused(c) \/ Action!Reread(c) \/ Action!Fail(c)
  PROVE  ActionInv'
<1>1. /\ UNCHANGED <<project, Action!turnVars, request, applied>>
      /\ candidate' = candidate /\ DOMAIN candidate' = Confirms
  BY DEF Action!WriteRefused, Action!Reread, Action!Fail, ActionInv, Action!sent
<1>2. \E next \in {"not_found", "precondition", "ok", "failed"} : Action!Goto(c, next)
  BY DEF Action!WriteRefused, Action!Reread, Action!Fail
<1> QED
  BY <1>1, <1>2, MovesOn

LEMMA SaveKeeps == ASSUME ActionInv, Action!Save PROVE ActionInv'
<1>1. PICK body \in Action!Body : project' = [etag |-> project.etag + 1, body |-> body]
  BY DEF Action!Save
<1>2. project # Gone /\ project \in Versions /\ project.etag \in Nat
  BY DEF Action!Save, ActionInv, Versions
<1>3. project' \in Versions /\ project'.etag = project.etag + 1
  BY <1>1, <1>2 DEF Versions
<1>4. UNCHANGED <<selected, previews, stage, request, candidate, applied>>
  BY DEF Action!Save, Action!turnVars, Action!sent
<1>5. \A t \in Turns : selected[t] <= project.etag /\ selected[t] \in Nat
  BY <1>2 DEF ActionInv, Behind
<1>6. \A p \in previews : p.etag <= project.etag /\ p.etag \in Nat
  BY <1>2 DEF ActionInv, Behind, Preview
<1>7. Behind' /\ ShowsTheVersion'
  BY <1>2, <1>3, <1>4, <1>5, <1>6 DEF Behind, ShowsTheVersion
<1>8. PreparedFrom'
  BY <1>2, <1>3, <1>4, <1>6 DEF ActionInv, NamesPreview, PreparedFrom
<1>9. AppliedEarlier'
  <2>1. \A a \in applied : a.etag \in Nat /\ a.etag < project.etag
    BY <1>2 DEF ActionInv, AppliedEarlier
  <2>2. \A a \in applied : a.etag < project'.etag
    BY <1>2, <1>3, <2>1
  <2> QED
    BY <1>4, <2>1, <2>2 DEF ActionInv, AppliedEarlier, Action!AppliedOnce
<1> QED
  BY <1>3, <1>4, <1>7, <1>8, <1>9 DEF ActionInv, NamesPreview

LEMMA DeleteKeeps == ASSUME ActionInv, Action!Delete PROVE ActionInv'
  BY DEF Action!Delete, ActionInv, Behind, ShowsTheVersion, NamesPreview, PreparedFrom,
     AppliedEarlier, Action!AppliedOnce, Action!turnVars, Action!sent

LEMMA ActionGoesOn == ActionInv /\ [Action!Next]_actionVars => ActionInv'
<1> SUFFICES ASSUME ActionInv, [Action!Next]_actionVars PROVE ActionInv'
  OBVIOUS
<1>1. CASE \E t \in Turns : Action!Select(t) \/ Action!Stage(t)
  BY <1>1, SelectKeeps, StageKeeps
<1>2. CASE \E c \in Confirms : Action!Confirm(c) \/ Action!Get(c) \/ Action!Check(c) \/ Action!Write(c)
  BY <1>2, ConfirmKeeps, GetKeeps, CheckKeeps, WriteKeeps
<1>3. CASE \E c \in Confirms : Action!WriteRefused(c) \/ Action!Reread(c) \/ Action!Fail(c)
  BY <1>3, EndingKeeps
<1>4. CASE Action!Save \/ Action!Delete
  BY <1>4, SaveKeeps, DeleteKeeps
<1>5. CASE UNCHANGED actionVars
  BY <1>5 DEF actionVars, ActionInv, Behind, ShowsTheVersion, NamesPreview, PreparedFrom,
     AppliedEarlier, Action!AppliedOnce, Action!turnVars, Action!sent
<1> QED
  BY <1>1, <1>2, <1>3, <1>4, <1>5 DEF Action!Next

LEMMA ActionAlways == MCSpec => []ActionInv
<1>1. [MCNext]_allVars => [Action!Next]_actionVars
  BY DEF MCNext, allVars
<1> QED
  BY <1>1, ActionBegins, ActionGoesOn, PTL DEF MCSpec

-----------------------------------------------------------------------------
(* The theorems.                                                           *)

\* The model service gets at most MAX_MODEL_REQUESTS requests for a turn and at most
\* MAX_TOOL_CALLS calls run, what the classifier used among them, and no call id runs
\* twice: charge_asking, charge_tool_calls and preflight see to it.
THEOREM BudgetsAreKept == Spec => []BudgetsHold
<1>1. TurnInv => BudgetsHold
  <2> SUFFICES ASSUME TurnInv PROVE BudgetsHold
    OBVIOUS
  <2>1. sent <= MaxModelRequests
    BY TurnAssumption DEF TurnInv, RequestsCounted
  <2>2. Len(ran) <= MaxToolCalls - (IF classified THEN 1 ELSE 0)
    BY TurnAssumption DEF TurnInv, CallsCounted
  <2>3. IsInjective(ran)
    BY DEF TurnInv, CallsCounted, IdsApart, IsInjective
  <2> QED
    BY <2>1, <2>2, <2>3 DEF BudgetsHold
<1> QED
  BY <1>1, InvariantHolds, PTL

\* The image of a turn goes with exactly the requests that are sent before a tool has
\* run, and such a request is sent before the first tool runs: run_turn drops the image
\* after the first request and restores it for the one schema repair.
THEOREM ImageIsSentFirst == Spec => []ImageBeforeTools
<1>1. TurnInv => ImageBeforeTools
  BY DEF TurnInv, ImageHeld
<1> QED
  BY <1>1, InvariantHolds, PTL

\* Work for the assistant never exceeds its slots and no slot is lost, whoever drops
\* a request and whenever: the permit goes into spawn_blocking with the image and comes
\* back with it, or is freed by the task when the request is gone.
THEOREM SlotsAreKept == MCSpec => []SlotsCoverWork
<1>1. LimitsInv => SlotsCoverWork
  <2>1. \A S : Limits!Cardinality(S) = Cardinality(S)
    BY DEF Limits!Cardinality, Cardinality
  <2> QED
    BY <2>1 DEF LimitsInv, SlotsKept, Working, SlotsCoverWork, Limits!SlotsCoverWork
<1> QED
  BY <1>1, LimitsAlways, PTL

\* A requester passes at most as many checks as a full bucket and what has flowed in
\* since allow, whatever the order in which requests read the clock and get the lock
\* and whichever entries retain forgets at the cap (check of TokenBucket).
THEOREM GrantsAreBounded == MCSpec => []GrantsBounded
<1>1. LimitsInv => GrantsBounded
  <2> SUFFICES ASSUME LimitsInv, NEW k \in Keys
               PROVE  granted[k] * Period <= Capacity * (Period + time + regained[k])
    BY DEF GrantsBounded, Limits!GrantsBounded
  <2>1. /\ granted[k] \in Nat /\ regained[k] \in Nat /\ time \in Nat
        /\ stamp[k] \in Nat /\ stamp[k] <= time
        /\ bucket[k] \in [units : Nat, at : Nat] \cup {Untracked}
    BY DEF LimitsInv, LimitsType
  <2>2. Capacity \in Nat /\ Period \in Nat
    BY LimitsAssumption DEF Limits!LimitsAssumption
  <2>3. Owned(k) \in Nat
    BY <2>1, <2>2 DEF Owned
  <2>4. granted[k] * Period + Owned(k) <= Capacity * (Period + stamp[k] + regained[k])
    BY DEF LimitsInv, AllowanceKept
  <2>5. Capacity * (Period + stamp[k] + regained[k]) <= Capacity * (Period + time + regained[k])
    BY <2>1, <2>2
  <2>6. granted[k] * Period \in Nat /\ Capacity * (Period + stamp[k] + regained[k]) \in Nat
        /\ Capacity * (Period + time + regained[k]) \in Nat
    BY <2>1, <2>2
  <2> QED
    BY <2>3, <2>4, <2>5, <2>6
<1> QED
  BY <1>1, LimitsAlways, PTL

\* A requester that comes again when it was told to, by its bucket or at the cap of
\* tracked keys, is not refused, unless it used its bucket meanwhile, or has none and as
\* many others as the cap have checked since its refusal or had with a reading no earlier:
\* the wait of check is rounded up to a whole token, and retain forgets older entries.
THEOREM WaitingSuffices == MCSpec => []RetryAfterSuffices
<1>1. LimitsInv => RetryAfterSuffices
  BY DEF LimitsInv, PromiseKept, RetryAfterSuffices, Limits!RetryAfterSuffices
<1> QED
  BY <1>1, LimitsAlways, PTL

\* Of the proposals bound to one version of the project one is applied, and once,
\* whatever is confirmed and however often: the write of the action handler is
\* conditional on the etag its proposal is bound to.
THEOREM ProposalsApplyOnce == MCSpec => []AppliedOnce
<1>1. ActionInv => AppliedOnce
  BY DEF ActionInv, AppliedEarlier, AppliedOnce
<1> QED
  BY <1>1, ActionAlways, PTL

\* Only a confirmation's write adds to what was applied, and it changes the same
\* fields from the same to the same values as a preview showed, also when the tool
\* read a later version than the proposal is bound to (bind_project_patch_proposal).
THEOREM WritesWhatWasShown == MCSpec => AppliesWhatWasShown
<1>1. ActionInv /\ [Action!Next]_(Action!vars) => Action!AppliedAsShown
  <2> SUFFICES ASSUME ActionInv, [Action!Next]_(Action!vars), NEW a \in applied' \ applied
               PROVE  \E preview \in previews :
                        /\ Action!ProposalId(preview) = [etag |-> a.etag, patch |-> a.patch]
                        /\ preview.changes = Action!Difference
    BY DEF Action!AppliedAsShown
  <2>1. PICK c \in Confirms : Action!Write(c)
    BY DEF Action!Next, Action!Select, Action!Stage, Action!Confirm, Action!Get, Action!Check,
       Action!WriteRefused, Action!Reread, Action!Fail, Action!Save, Action!Delete, Action!vars
  <2>2. /\ project # Gone /\ project.etag = request[c].etag /\ stage[c] = "write"
        /\ project' = [etag |-> project.etag + 1, body |-> candidate[c]]
        /\ a = [confirm |-> c, etag |-> request[c].etag, patch |-> request[c].patch]
    BY <2>1 DEF Action!Write, Action!WriteMatches
  <2>3. request[c] \in previews /\ request[c].patch \in Action!Patches
    BY <2>2 DEF ActionInv, NamesPreview, Preview
  <2>4. project.body \in Action!Body
    BY <2>2 DEF ActionInv, Versions
  <2>5. project'.body = Action!Apply(request[c].patch, project.body)
    BY <2>2 DEF ActionInv, PreparedFrom
  <2>6. request[c].changes = Action!Changes(request[c].patch, project.body)
    BY <2>2, <2>3 DEF ActionInv, ShowsTheVersion
  <2>7. request[c].changes = Action!Difference
    <3> DEFINE after == Action!Apply(request[c].patch, project.body)
    <3>1. Action!Changes(request[c].patch, project.body) =
            [f \in {g \in Fields : project.body[g] # after[g]} |->
               [before |-> project.body[f], after |-> after[f]]]
      BY <2>3, <2>4, PatchDiffers
    <3>2. after = project'.body
      BY <2>5
    <3> HIDE DEF after
    <3> QED
      BY <2>6, <3>1, <3>2 DEF Action!Difference
  <2> QED
    BY <2>2, <2>3, <2>7 DEF Action!ProposalId
<1>2. [MCNext]_allVars => [Action!Next]_(Action!vars)
  BY DEF MCNext, allVars, actionVars, Action!vars
<1> QED
  BY <1>1, <1>2, ActionAlways, PTL DEF MCSpec, AppliesWhatWasShown, Action!AppliesWhatWasShown
=============================================================================
