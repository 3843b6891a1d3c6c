---------------------------- MODULE PricingProofs ----------------------------
(***************************************************************************)
(* Theorems about what a price goes through: the coalesced requests, the   *)
(* lease and the requests to a provider, for any number of requests and    *)
(* replicas, any budgets, timeouts and delays; and about the estimate that *)
(* is made of it: the rows and the targets, for any projects, catalogues   *)
(* and prices.                                                             *)
(***************************************************************************)
EXTENDS MCPricing, FiniteSetTheorems, WellFoundedInduction, TLAPS

-----------------------------------------------------------------------------
(* The requests that share the refresh of a key.                           *)

FlightInv == Flights!TypeOK /\ Flights!Coalesced

LEMMA FlightsBegin == PricingInit => FlightInv
BY FlightsAssumption DEF PricingInit, Flights!FlightAssumption, Flights!Init, FlightInv, Flights!TypeOK,
   Flights!Coalesced, Flights!Live, Flights!TaskStages, Flights!Waiting

LEMMA FlightsGoOn == FlightInv /\ [Flights!Next]_flightVars => FlightInv'
<1> SUFFICES ASSUME FlightInv, [Flights!Next]_flightVars PROVE FlightInv'
  OBVIOUS
<1> USE FlightsAssumption DEF Flights!FlightAssumption, FlightInv, Flights!TypeOK, Flights!Coalesced,
      Flights!Live, Flights!TaskStages, Flights!Waiting
<1>1. ASSUME NEW r \in Requests, Flights!Start(r) PROVE FlightInv'
  <2>1. CASE flights = NoFlight
    <3>1. /\ flights' = r /\ task' = [task EXCEPT ![r] = "retrieving"]
          /\ flight' = [flight EXCEPT ![r] = r] /\ pc' = [pc EXCEPT ![r] = "listen"]
          /\ UNCHANGED <<result, woken>>
      BY <1>1, <2>1 DEF Flights!Start, Flights!Goto
    <3>2. Flights!TypeOK'
      BY <3>1
    <3>3. \A f \in Requests : ~Flights!Live(f)
      BY <2>1
    <3>4. Flights!Coalesced'
      BY <3>1, <3>3
    <3> QED
      BY <3>2, <3>4
  <2>2. CASE flights # NoFlight
    <3>1. /\ flight' = [flight EXCEPT ![r] = flights]
          /\ pc' = [pc EXCEPT ![r] = "listen"]
          /\ UNCHANGED <<flights, task, result, woken>>
      BY <1>1, <2>2 DEF Flights!Start, Flights!Goto
    <3> QED
      BY <3>1
  <2> QED
    BY <2>1, <2>2
<1>2. ASSUME NEW r \in Requests,
             Flights!Listen(r) \/ Flights!Check(r) \/ Flights!Await(r) \/ Flights!Cancel(r)
      PROVE  FlightInv'
  BY <1>2 DEF Flights!Listen, Flights!Check, Flights!Await, Flights!Cancel, Flights!Goto
<1>3. ASSUME NEW f \in Requests, Flights!Retrieved(f) \/ Flights!SetResult(f) PROVE FlightInv'
  BY <1>3 DEF Flights!Retrieved, Flights!SetResult, Flights!TaskGoto
<1>4. ASSUME NEW f \in Requests, Flights!NotifyWaiters(f) PROVE FlightInv'
  BY <1>4 DEF Flights!NotifyWaiters, Flights!TaskGoto
<1>5. ASSUME NEW f \in Requests, Flights!Remove(f) PROVE FlightInv'
  BY <1>5 DEF Flights!Remove, Flights!TaskGoto
<1>6. CASE UNCHANGED flightVars
  BY <1>6 DEF flightVars
<1> QED
  BY <1>1, <1>2, <1>3, <1>4, <1>5, <1>6 DEF Flights!Next, Flights!RequestStep, Flights!TaskStep

-----------------------------------------------------------------------------
(* A request to a price provider.                                          *)

Phases == {"ready", "sending", "receiving", "handing", "joining", "pausing", "ended"}

\* a send and a pause end within the budget, and whoever waits for a projector had
\* begun to; the provider's delay is over whenever the request may be sent again
FetchInv ==
  /\ fetch \in Phases
  /\ now \in Nat /\ until \in Int /\ notBefore \in Int /\ attempt \in Nat
  /\ attempt <= MaxAttempts /\ (fetch # "ended" => attempt # 0)
  /\ fetch = "pausing" => attempt < MaxAttempts
  /\ fetch \in {"sending", "receiving", "handing", "pausing"} => until <= Budget
  /\ \/ fetch = "ended"
     \/ notBefore <= now
     \/ fetch = "pausing" /\ notBefore <= until
  /\ kind = "plain" => now <= Budget /\ fetch \notin {"handing", "joining"}

LEMMA FetchBegins == PricingInit => FetchInv
BY FetchAssumption DEF PricingInit, Fetch!FetchAssumption, Fetch!Init, FetchInv, Phases

\* a delay that is waited for ends before the budget does
LEMMA PauseKeeps ==
  ASSUME FetchInv, fetch \notin {"pausing", "ended"}, UNCHANGED <<kind, now>>,
         NEW hint \in {{}} \cup {{h} : h \in Hints}, Fetch!Pause(hint)
  PROVE  FetchInv'
<1>1. Budget \in Nat /\ MaxAttempts \in Nat /\ Hints \subseteq Nat /\ Jitter \subseteq Nat
  BY FetchAssumption DEF Fetch!FetchAssumption
<1>2. CASE fetch' = "ended" /\ UNCHANGED <<attempt, until, notBefore>>
  BY <1>2 DEF FetchInv, Phases
<1>3. CASE ~(fetch' = "ended" /\ UNCHANGED <<attempt, until, notBefore>>)
  <2>1. attempt # MaxAttempts
    BY <1>3 DEF Fetch!Pause, Fetch!End
  <2>2. PICK delay \in (IF hint = {} THEN Fetch!Backoff ELSE hint) :
          /\ ~(now > Budget \/ delay >= Budget - now)
          /\ fetch' = "pausing" /\ until' = now + delay
          /\ notBefore' = IF hint = {} THEN notBefore ELSE now + delay
          /\ UNCHANGED attempt
    BY <1>3, <2>1 DEF Fetch!Pause, Fetch!End
  <2>3. attempt \in Nat \ {0}
    BY DEF FetchInv
  <2>4. CASE hint = {}
    <3>1. PICK j \in Jitter : delay = 2 ^ (attempt - 1) + j
      BY <2>2, <2>4 DEF Fetch!Backoff
    <3>2. attempt - 1 \in Nat
      BY <2>3
    <3>3. 2 ^ (attempt - 1) \in Int
      BY <3>2, SMT
    <3>4. delay \in Int
      BY <1>1, <3>1, <3>3
    <3> QED
      BY <1>1, <2>1, <2>2, <2>4, <3>4 DEF FetchInv, Phases
  <2>5. CASE hint # {}
    <3>1. PICK h \in Hints : hint = {h}
      BY <2>5
    <3>2. delay \in Int
      <4>1. delay \in hint
        BY <2>2, <2>5
      <4>2. delay = h
        BY <3>1, <4>1
      <4>3. h \in Nat
        BY <1>1
      <4> QED
        BY <4>2, <4>3
    <3> QED
      BY <1>1, <2>1, <2>2, <2>5, <3>2 DEF FetchInv, Phases
  <2> QED
    BY <2>4, <2>5
<1> QED
  BY <1>2, <1>3

LEMMA FetchGoesOn == FetchInv /\ [Fetch!Next]_fetchVars => FetchInv'
<1> SUFFICES ASSUME FetchInv, [Fetch!Next]_fetchVars PROVE FetchInv'
  OBVIOUS
<1>1. /\ Budget \in Nat /\ RequestTimeout \in Nat /\ MaxAttempts \in Nat
      /\ now \in Nat /\ until \in Int /\ notBefore \in Int /\ attempt \in Nat
  BY FetchAssumption DEF Fetch!FetchAssumption, FetchInv
<1>2. CASE Fetch!Send
  <2>1. CASE now >= Budget
    BY <1>2, <2>1 DEF Fetch!Send, Fetch!End, FetchInv, Phases
  <2>2. CASE ~(now >= Budget)
    <3>1. Fetch!SendTimeout \in Int /\ Fetch!SendTimeout <= Budget - now
      BY <1>1, <2>2 DEF Fetch!SendTimeout, Fetch!Least
    <3>2. /\ fetch = "ready" /\ fetch' = "sending" /\ until' = now + Fetch!SendTimeout
          /\ UNCHANGED <<attempt, notBefore, kind, now>>
      BY <1>2, <2>2 DEF Fetch!Send
    <3> QED
      BY <1>1, <3>1, <3>2 DEF FetchInv, Phases
  <2> QED
    BY <2>1, <2>2
<1>3. CASE Fetch!Headers \/ Fetch!Silence \/ Fetch!Broken \/ Fetch!Joined
  <2>1. UNCHANGED <<kind, now>> /\ fetch \notin {"pausing", "ended"}
    BY <1>3 DEF Fetch!Headers, Fetch!Silence, Fetch!Broken, Fetch!Joined
  <2>2. CASE \E hint \in {{}} \cup {{h} : h \in Hints} : Fetch!Pause(hint)
    BY <2>1, <2>2, PauseKeeps
  <2>3. CASE ~\E hint \in {{}} \cup {{h} : h \in Hints} : Fetch!Pause(hint)
    <3>1. /\ UNCHANGED <<attempt, until, notBefore>>
          /\ \/ fetch' = "ended"
             \/ fetch = "sending" /\ fetch' = "receiving"
             \/ fetch = "receiving" /\ kind = "offer" /\ fetch' = "joining"
      <4>1. {} \in {{}} \cup {{h} : h \in Hints}
        OBVIOUS
      <4> QED
        BY <1>3, <2>3, <4>1 DEF Fetch!Headers, Fetch!Silence, Fetch!Broken, Fetch!Joined, Fetch!End, Fetch!Wait
    <3> QED
      BY <1>1, <2>1, <3>1 DEF FetchInv, Phases
  <2> QED
    BY <2>2, <2>3
<1>4. CASE Fetch!ReceivePlain \/ Fetch!ReceiveChunk \/ Fetch!EndOfOffer \/ Fetch!HandOver
  <2>1. /\ UNCHANGED <<kind, now, attempt, until, notBefore>>
        /\ \/ fetch' \in {fetch, "ended"}
           \/ fetch = "receiving" /\ kind = "offer" /\ fetch' \in {"joining", "handing"}
           \/ fetch = "handing" /\ fetch' \in {"receiving", "joining"}
    BY <1>4 DEF Fetch!ReceivePlain, Fetch!ReceiveChunk, Fetch!EndOfOffer, Fetch!HandOver, Fetch!End,
      Fetch!Wait, Fetch!Caller
  <2> QED
    BY <1>1, <2>1 DEF FetchInv, Phases
<1>5. CASE Fetch!Resume
  BY <1>1, <1>5 DEF Fetch!Resume, FetchInv, Phases
<1>6. CASE Fetch!Project
  BY <1>6 DEF Fetch!Project, Fetch!Read, Fetch!EndOfStream, FetchInv
<1>7. CASE Fetch!Tick
  BY <1>1, <1>7 DEF Fetch!Tick, FetchInv, Phases
<1>8. CASE UNCHANGED fetchVars
  BY <1>8 DEF fetchVars, FetchInv
<1> QED
  BY <1>2, <1>3, <1>4, <1>5, <1>6, <1>7, <1>8 DEF Fetch!Next, Fetch!Handle

-----------------------------------------------------------------------------
(* The lease of the composed system.                                       *)

LEMMA LeaseGoesOn ==
  side = "lease" /\ [PricingNext]_allVars => [Leases!Next]_(Leases!vars) /\ (side = "lease")'
BY DEF PricingNext, allVars, leaseVars, Leases!vars

LEMMA NoLeaseElsewhere ==
  ~(side = "lease") /\ lease = NoLease /\ [PricingNext]_allVars =>
    ~(side = "lease")' /\ (lease = NoLease)'
BY DEF PricingNext, allVars, leaseVars

-----------------------------------------------------------------------------
(* What a row says of the amounts it lacks.                                *)

\* a source has its amounts, or its provider is to blame, for another reason than a missing size
SourceAccounted(source) ==
  /\ source.vcpu = {} => source.costs = {}
  /\ \/ source.costs # {} /\ source.status # "unavailable" /\ source.unresolved = {}
     \/ /\ source.costs = {} /\ source.status = "unavailable"
        /\ \E code : code # "source_metadata_unavailable" /\ source.unresolved = {<<"aws", code>>}
CostAccounted(costed) ==
  \/ costed.costs # {} /\ costed.status \in UsableStatuses /\ costed.unresolved = {}
  \/ /\ costed.costs = {} /\ costed.discounts = {} /\ costed.status = "unavailable"
     /\ \E code : costed.unresolved = {<<"azure", code>>}
UsableEstimate(e) == \A s \in e.aws \cup e.azure : s.status \in UsableStatuses

LEMMA UsableIsAvailable == \A x \in UsableStatuses : x # "unavailable"
BY DEF UsableStatuses

LEMMA UnpricedAccounted ==
  ASSUME NEW code, code # "source_metadata_unavailable" PROVE SourceAccounted(Unpriced(code))
BY DEF Unpriced, SourceAccounted

LEMMA PricedAccounted ==
  ASSUME NEW s, s.status \in UsableStatuses, NEW rate, NEW iops, NEW errors, NEW costs
  PROVE  SourceAccounted(Priced(s, rate, iops, errors, costs))
BY UsableIsAvailable DEF Priced, SourceAccounted

LEMMA SourcesAccounted ==
  ASSUME NEW r, r.type \in AwsTypes \cup {"on_prem"}, NEW e, UsableEstimate(e)
  PROVE  SourceAccounted(ResolveSource(r, e))
<1>1. e.aws # {} => Value(e.aws).status \in UsableStatuses
  BY DEF UsableEstimate, Value
<1>2. SourceAccounted(ResolveEc2(r, e))
  BY <1>1, UnpricedAccounted, PricedAccounted DEF ResolveEc2
<1>3. SourceAccounted(ResolveRds(r, e))
  BY <1>1, UnpricedAccounted, PricedAccounted DEF ResolveRds
<1>4. SourceAccounted(ResolveEc2Vm(r, e))
  BY <1>1, UnpricedAccounted, PricedAccounted DEF ResolveEc2Vm
<1>5. SourceAccounted(ResolveOnPrem(r, e))
  BY DEF ResolveOnPrem, SourceAccounted
<1> QED
  BY <1>2, <1>3, <1>4, <1>5 DEF ResolveSource, AwsTypes

LEMMA NoCostsAccounted == ASSUME NEW code PROVE CostAccounted(NoCosts(code))
BY DEF NoCosts, CostAccounted

LEMMA CostedAccounted ==
  ASSUME NEW s, s.status \in UsableStatuses, NEW costs, NEW discounts, NEW steps
  PROVE  CostAccounted(Costed(s, costs, discounts, steps))
BY DEF Costed, CostAccounted

\* a complete set has a rate for every option
LEMMA CompleteHasRates ==
  ASSUME NEW s, NEW c, HasCompleteMiRateSet(s, c), NEW option \in MiOptions
  PROVE  MiRates(s, c, option) # {}
<1> DEFINE of == {i \in DOMAIN s.content.mi : s.content.mi[i].configuration = c
                                               /\ s.content.mi[i].option = option}
<1>1. PICK i \in of : of = {i}
  BY DEF HasCompleteMiRateSet, OfConfiguration
<1> HIDE DEF of
<1>2. i \in {i_1 \in of : \A j \in of \ {i_1} : i_1 < j}
  BY <1>1
<1> QED
  BY <1>2 DEF MiRates, FirstOf, of

LEMMA DiscountsComplete ==
  ASSUME NEW s, NEW c, HasCompleteMiRateSet(s, c) PROVE OptionDiscounts(s, c) # {}
<1>1. \A option \in MiOptions : MiRates(s, c, option) # {}
  BY CompleteHasRates
<1>2. {"payg", "ahb", "one-year", "three-year", "sv-one-year"} \subseteq MiOptions
  BY DEF MiOptions
<1> QED
  BY <1>1, <1>2 DEF OptionDiscounts

LEMMA MiCostsAccounted ==
  ASSUME NEW e, UsableEstimate(e), NEW selected, NEW r, NEW storage
  PROVE  LET costed == AzureCosts(selected, r, storage, e)
         IN CostAccounted(costed) /\ (costed.costs # {} => costed.discounts # {})
<1>1. e.azure # {} => Value(e.azure).status \in UsableStatuses
  BY DEF UsableEstimate, Value
<1>2. CostAccounted(AzureCosts(selected, r, storage, e))
  BY <1>1, NoCostsAccounted, CostedAccounted DEF AzureCosts
<1>3. AzureCosts(selected, r, storage, e).costs # {} =>
        AzureCosts(selected, r, storage, e).discounts # {}
  BY DiscountsComplete DEF AzureCosts, Costed, NoCosts
<1> QED
  BY <1>2, <1>3

LEMMA VmCostsAccounted ==
  ASSUME NEW e, UsableEstimate(e), NEW selected, NEW r
  PROVE  CostAccounted(AzureVmCosts(selected, r, e)) /\ AzureVmCosts(selected, r, e).discounts = {}
<1>1. e.azure # {} => Value(e.azure).status \in UsableStatuses
  BY DEF UsableEstimate, Value
<1>2. CostAccounted(AzureVmCosts(selected, r, e))
  BY <1>1, NoCostsAccounted, CostedAccounted DEF AzureVmCosts
<1> QED
  BY <1>2 DEF AzureVmCosts, Costed, NoCosts

-----------------------------------------------------------------------------
\* what a row without a target says of its source
LEMMA RowFields ==
  ASSUME NEW r, NEW source, NEW storage, NEW steps
  PROVE  LET x == Row(r, source, storage, steps)
         IN /\ x = [id |-> x.id, type |-> x.type, storage |-> x.storage, mapping |-> x.mapping,
                    aws |-> x.aws, azure |-> x.azure, target |-> x.target, vm |-> x.vm,
                    source |-> x.source, azureCosts |-> x.azureCosts, discounts |-> x.discounts,
                    options |-> x.options, savings |-> x.savings, steps |-> x.steps,
                    unresolved |-> x.unresolved]
            /\ x.type = r.type /\ x.mapping = {} /\ x.aws = source.status /\ x.azure = "not_required"
            /\ x.target = {} /\ x.vm = {} /\ x.source = source.costs /\ x.azureCosts = {}
            /\ x.discounts = {} /\ x.savings = {} /\ x.unresolved = source.unresolved
BY DEF Row

\* the part that concerns the source: it survives whatever a target adds
SourceExplained(x) ==
  /\ (x.source = {}) <=> (x.aws = "unavailable")
  /\ (x.source = {}) <=> Lacks(x, "aws")
\* what is said of a target, given whether its lack is on record
TargetExplained(x, blamed) ==
  /\ (x.azureCosts # {}) <=> (x.azure \in UsableStatuses)
  /\ x.azureCosts # {} => x.mapping = {"mapped"}
  /\ x.mapping = {"mapped"} /\ x.azureCosts = {} => x.azure = "unavailable"
  /\ (x.azure = "unavailable") <=> blamed
  /\ (x.savings # {}) <=> (x.source # {} /\ x.azureCosts # {})
  /\ (x.discounts # {}) <=> (x.azureCosts # {} /\ x.type # "ec2_vm")
Blamed(x) ==
  Lacks(x, "azure") \/ <<"aws", "source_metadata_unavailable">> \in x.unresolved
VmExplained(x) ==
  \A v \in x.vm :
    /\ v.recommendation = "recommended" => v.reasons = {} /\ x.azureCosts # {}
    /\ (v.selected # {}) <=> (x.mapping = {"mapped"})
    /\ v.recommendation = "incomplete" => x.azureCosts = {}
OneSelection(x) == x.mapping # {} => \E t : x.target \cup x.vm = {t}

LEMMA PartsExplain ==
  ASSUME NEW x, SourceExplained(x), TargetExplained(x, Blamed(x)), VmExplained(x), OneSelection(x)
  PROVE  RowExplained(x)
<1>1. x.mapping # {} => Cardinality(x.target \cup x.vm) = 1
  BY FS_Singleton DEF OneSelection
<1> QED
  BY <1>1 DEF RowExplained, SourceExplained, TargetExplained, Blamed, VmExplained

\* what is unresolved in a source is its provider's, and is so exactly when it has no amounts
LEMMA SourceUnresolved ==
  ASSUME NEW source, SourceAccounted(source)
  PROVE  /\ (source.costs = {}) <=> (source.status = "unavailable")
         /\ (source.costs = {}) <=> Lacks(source, "aws")
         /\ ~Lacks(source, "azure")
         /\ <<"aws", "source_metadata_unavailable">> \notin source.unresolved
<1>1. CASE source.costs # {}
  BY <1>1 DEF SourceAccounted, Lacks
<1>2. CASE source.costs = {}
  <2>1. PICK code : code # "source_metadata_unavailable" /\ source.unresolved = {<<"aws", code>>}
    BY <1>2 DEF SourceAccounted
  <2> QED
    BY <1>2, <2>1 DEF SourceAccounted, Lacks
<1> QED
  BY <1>1, <1>2

\* no target is looked for, or none is found that only a price withholds
LEMMA UnmappedExplained ==
  ASSUME NEW source, SourceAccounted(source), NEW x,
         x.source = source.costs, x.aws = source.status, x.unresolved = source.unresolved,
         x.azure = "not_required", x.azureCosts = {}, x.discounts = {}, x.savings = {},
         x.mapping # {"mapped"}
  PROVE  SourceExplained(x) /\ TargetExplained(x, Blamed(x))
BY SourceUnresolved DEF SourceExplained, TargetExplained, Blamed, UsableStatuses, Lacks

LEMMA BlamedExplained ==
  ASSUME NEW source, SourceAccounted(source), NEW x, NEW u,
         x.source = source.costs, x.aws = source.status, x.unresolved = source.unresolved \cup {u},
         x.azure = "unavailable", x.azureCosts = {}, x.discounts = {}, x.savings = {},
         x.mapping # {"mapped"},
         \/ u[1] = "azure"
         \/ u = <<"aws", "source_metadata_unavailable">> /\ source.costs = {}
  PROVE  SourceExplained(x) /\ TargetExplained(x, Blamed(x))
BY SourceUnresolved DEF SourceExplained, TargetExplained, Blamed, UsableStatuses, Lacks

LEMMA MappedExplained ==
  ASSUME NEW source, SourceAccounted(source), NEW costed, CostAccounted(costed), NEW x,
         x.source = source.costs, x.aws = source.status,
         x.unresolved = source.unresolved \cup costed.unresolved,
         x.azure = costed.status, x.azureCosts = costed.costs, x.discounts = costed.discounts,
         (x.savings # {}) <=> (source.costs # {} /\ costed.costs # {}),
         (costed.discounts # {}) <=> (costed.costs # {} /\ x.type # "ec2_vm"),
         x.mapping = {"mapped"}
  PROVE  SourceExplained(x) /\ TargetExplained(x, Blamed(x))
<1>1. CASE costed.costs # {}
  BY <1>1, SourceUnresolved DEF CostAccounted, SourceExplained, TargetExplained, Blamed, UsableStatuses, Lacks
<1>2. CASE costed.costs = {}
  <2>1. PICK code : costed.unresolved = {<<"azure", code>>}
    BY <1>2 DEF CostAccounted
  <2>2. costed.status = "unavailable"
    BY <1>2 DEF CostAccounted
  <2>3. Lacks(x, "azure")
    <3>1. <<"azure", code>> \in x.unresolved /\ <<"azure", code>>[1] = "azure"
      BY <2>1
    <3> QED
      BY <3>1 DEF Lacks
  <2>4. Lacks(x, "aws") <=> Lacks(source, "aws")
    BY <2>1 DEF Lacks
  <2> QED
    BY <1>2, <2>2, <2>3, <2>4, SourceUnresolved
      DEF SourceExplained, TargetExplained, Blamed, UsableStatuses, Lacks
<1> QED
  BY <1>1, <1>2

LEMMA SavingsThere ==
  ASSUME NEW source, NEW costed, NEW e
  PROVE  (SavingsOf(source, costed, e) # {}) <=> (source.costs # {} /\ costed.costs # {})
BY DEF SavingsOf

-----------------------------------------------------------------------------
(* Every branch of the two handlers. *)

LEMMA UnsizedExplained ==
  ASSUME NEW r, NEW source, SourceAccounted(source), source.costs = {}, NEW storage, NEW steps
  PROVE  RowExplained(UnsizedRow(Row(r, source, storage, steps)))
<1> DEFINE x == UnsizedRow(Row(r, source, storage, steps))
<1>1. /\ x.source = source.costs /\ x.aws = source.status
      /\ x.unresolved = source.unresolved \cup {<<"aws", "source_metadata_unavailable">>}
      /\ x.azure = "unavailable" /\ x.azureCosts = {} /\ x.discounts = {} /\ x.savings = {}
      /\ x.mapping = {} /\ x.vm = {}
  BY DEF UnsizedRow, Row
<1> HIDE DEF x
<1>2. SourceExplained(x) /\ TargetExplained(x, Blamed(x))
  BY <1>1, BlamedExplained
<1>3. VmExplained(x) /\ OneSelection(x)
  BY <1>1 DEF VmExplained, OneSelection
<1> QED
  BY <1>2, <1>3, PartsExplain DEF x

LEMMA SelectedMiExplained ==
  ASSUME NEW r, r.type # "ec2_vm", NEW e, UsableEstimate(e), NEW source, SourceAccounted(source),
         NEW storage, NEW steps, NEW selection
  PROVE  RowExplained(SelectedMiRow(r, e, source, storage, steps, selection))
<1> DEFINE x == SelectedMiRow(r, e, source, storage, steps, selection)
<1>1. CASE selection.selected = {}
  <2>1. /\ x.source = source.costs /\ x.aws = source.status /\ x.unresolved = source.unresolved
        /\ x.azure = "not_required" /\ x.azureCosts = {} /\ x.discounts = {} /\ x.savings = {}
        /\ x.mapping = {"no_mapping"} /\ x.target = {selection} /\ x.vm = {}
    BY <1>1 DEF SelectedMiRow, Row
  <2> HIDE DEF x
  <2>2. SourceExplained(x) /\ TargetExplained(x, Blamed(x))
    BY <2>1, UnmappedExplained
  <2>3. VmExplained(x) /\ OneSelection(x)
    BY <2>1 DEF VmExplained, OneSelection
  <2> QED
    BY <2>2, <2>3, PartsExplain DEF x
<1>2. CASE selection.selected # {}
  <2> DEFINE row == [Row(r, source, storage, steps) EXCEPT !.target = {selection}]
             costed == AzureCosts(Value(selection.selected), r, storage.azure, e)
  <2>1. x = MappedRow(row, e, source, costed)
    BY <1>2 DEF SelectedMiRow
  <2>2. CostAccounted(costed) /\ (costed.costs # {} => costed.discounts # {})
    BY MiCostsAccounted
  <2> HIDE DEF x, costed
  <2>4. /\ x.type = r.type /\ x.mapping = {"mapped"} /\ x.aws = source.status
        /\ x.azure = costed.status /\ x.target = {selection} /\ x.vm = {} /\ x.source = source.costs
        /\ x.azureCosts = costed.costs /\ x.discounts = costed.discounts
        /\ x.savings = SavingsOf(source, costed, e)
        /\ x.unresolved = source.unresolved \cup costed.unresolved
    BY <2>1 DEF MappedRow, Row
  <2>5. (costed.discounts # {}) <=> (costed.costs # {} /\ x.type # "ec2_vm")
    BY <2>2, <2>4 DEF CostAccounted
  <2>6. SourceExplained(x) /\ TargetExplained(x, Blamed(x))
    BY <2>2, <2>4, <2>5, SavingsThere, MappedExplained
  <2>7. VmExplained(x) /\ OneSelection(x)
    BY <2>4 DEF VmExplained, OneSelection
  <2> QED
    BY <2>6, <2>7, PartsExplain DEF x
<1> QED
  BY <1>1, <1>2

LEMMA MiRowExplained ==
  ASSUME NEW r, r.type \in AwsTypes \cup {"on_prem"}, r.type # "ec2_vm", NEW e, UsableEstimate(e)
  PROVE  RowExplained(MiRow(r, e))
<1> DEFINE source == ResolveSource(r, e)
<1>1. SourceAccounted(source)
  BY SourcesAccounted
<1>2. source.vcpu = {} => source.costs = {}
  BY <1>1 DEF SourceAccounted
<1> HIDE DEF source
<1>3. RowExplained(SourcedMiRow(r, e, source, StorageInputs(r)))
  BY <1>1, <1>2, UnsizedExplained, SelectedMiExplained DEF SourcedMiRow
<1> QED
  BY <1>3 DEF MiRow, source

\* a selection is given, and no size of it was chosen
LEMMA UnmappedVmExplained ==
  ASSUME NEW source, SourceAccounted(source), NEW x, NEW selection,
         x.source = source.costs, x.aws = source.status, x.azureCosts = {}, x.discounts = {},
         x.savings = {}, x.mapping \in {{}, {"no_mapping"}}, x.target = {}, x.vm = {selection},
         selection.selected = {}, selection.recommendation # "recommended",
         \/ x.unresolved = source.unresolved /\ x.azure = "not_required"
         \/ /\ x.unresolved = source.unresolved \cup {<<"azure", "azure_vm_price_unavailable">>}
            /\ x.azure = "unavailable"
  PROVE  RowExplained(x)
<1>1. SourceExplained(x) /\ TargetExplained(x, Blamed(x))
  <2>1. CASE x.unresolved = source.unresolved /\ x.azure = "not_required"
    BY <2>1, UnmappedExplained
  <2>2. CASE /\ x.unresolved = source.unresolved \cup {<<"azure", "azure_vm_price_unavailable">>}
             /\ x.azure = "unavailable"
    <3>1. <<"azure", "azure_vm_price_unavailable">>[1] = "azure"
      OBVIOUS
    <3> QED
      BY <2>2, <3>1, BlamedExplained
  <2> QED
    BY <2>1, <2>2
<1>2. VmExplained(x) /\ OneSelection(x)
  BY DEF VmExplained, OneSelection
<1> QED
  BY <1>1, <1>2, PartsExplain

LEMMA VmUnmappedExplained ==
  ASSUME NEW r, NEW e, NEW source, SourceAccounted(source), NEW steps,
         NEW reasons, NEW candidates, NEW recommendation, recommendation # "recommended"
  PROVE  RowExplained(VmUnmappedRow(r, e, source, steps,
           [selected |-> {}, candidates |-> candidates, reasons |-> reasons,
            recommendation |-> recommendation]))
<1> DEFINE selection == [selected |-> {}, candidates |-> candidates, reasons |-> reasons,
                         recommendation |-> recommendation]
           x == VmUnmappedRow(r, e, source, steps, selection)
<1>1. /\ selection.selected = {} /\ selection.recommendation # "recommended"
      /\ Incomplete(selection).selected = {} /\ Incomplete(selection).recommendation # "recommended"
  BY DEF Incomplete
<1>2. /\ x.source = source.costs /\ x.aws = source.status /\ x.azureCosts = {} /\ x.discounts = {}
      /\ x.savings = {} /\ x.mapping = {"no_mapping"} /\ x.target = {}
      /\ \/ /\ x.vm = {selection} /\ x.unresolved = source.unresolved /\ x.azure = "not_required"
         \/ /\ x.vm = {Incomplete(selection)} /\ x.azure = "unavailable"
            /\ x.unresolved = source.unresolved \cup {<<"azure", "azure_vm_price_unavailable">>}
  <2> HIDE DEF selection
  <2> QED
    BY DEF VmUnmappedRow, Row
<1> HIDE DEF x, selection
<1>3. RowExplained(x)
  BY <1>1, <1>2, UnmappedVmExplained
<1> QED
  BY <1>3 DEF x, selection

LEMMA VmMappedExplained ==
  ASSUME NEW r, r.type = "ec2_vm", NEW e, UsableEstimate(e), NEW source, SourceAccounted(source),
         NEW steps, NEW selection, selection.selected # {},
         selection.recommendation # "incomplete",
         selection.recommendation = "recommended" => selection.reasons = {},
         Incomplete(selection).recommendation = "incomplete",
         Incomplete(selection).selected = selection.selected
  PROVE  RowExplained(VmMappedRow(r, e, source, steps, selection))
<1> DEFINE x == VmMappedRow(r, e, source, steps, selection)
           selected == Value(selection.selected)
           costed == AzureVmCosts(selected, r, e)
           storage == [StorageInputs(r) EXCEPT !.azure = DisksCapacity(selected)]
           options == {VmOptionPricing(prices, selected.size.name) : prices \in e.azure}
           given == IF costed.costs = {} THEN Incomplete(selection) ELSE selection
           row == [Row(r, source, storage, steps) EXCEPT !.options = options, !.vm = {given}]
<1>1. x = MappedRow(row, e, source, costed)
  BY DEF VmMappedRow
<1>2. CostAccounted(costed) /\ costed.discounts = {}
  BY VmCostsAccounted
<1>4. /\ given.selected # {}
      /\ given.recommendation = "recommended" => given.reasons = {} /\ costed.costs # {}
      /\ given.recommendation = "incomplete" => costed.costs = {}
  <2> HIDE DEF costed
  <2> QED
    OBVIOUS
<1> HIDE DEF x, costed, storage, options, given
<1>5. /\ x.type = r.type /\ x.mapping = {"mapped"} /\ x.aws = source.status
      /\ x.azure = costed.status /\ x.target = {} /\ x.vm = {given} /\ x.source = source.costs
      /\ x.azureCosts = costed.costs /\ x.discounts = costed.discounts
      /\ x.savings = SavingsOf(source, costed, e)
      /\ x.unresolved = source.unresolved \cup costed.unresolved
  BY <1>1 DEF MappedRow, Row
<1>6. (costed.discounts # {}) <=> (costed.costs # {} /\ x.type # "ec2_vm")
  BY <1>2, <1>5
<1>3. (x.savings # {}) <=> (source.costs # {} /\ costed.costs # {})
  BY <1>5, SavingsThere
<1>7. SourceExplained(x) /\ TargetExplained(x, Blamed(x))
  BY <1>2, <1>3, <1>5, <1>6, MappedExplained
<1>8. VmExplained(x) /\ OneSelection(x)
  BY <1>4, <1>5 DEF VmExplained, OneSelection
<1> QED
  BY <1>7, <1>8, PartsExplain DEF x

LEMMA SelectedVmExplained ==
  ASSUME NEW r, r.type = "ec2_vm", NEW e, UsableEstimate(e), NEW source, SourceAccounted(source),
         NEW class, NEW steps, NEW found, found.selected # {} => found.reasons = {}
  PROVE  RowExplained(SelectedVmRow(r, e, source, class, steps, found))
<1>1. CASE found.selected = {}
  <2>1. SelectedVmRow(r, e, source, class, steps, found) =
          VmUnmappedRow(r, e, source, steps,
            [selected |-> {}, candidates |-> found.candidates,
             reasons |-> found.reasons \cup Review(r, class), recommendation |-> "no_eligible_target"])
    BY <1>1 DEF SelectedVmRow
  <2> QED
    BY <2>1, VmUnmappedExplained
<1>2. CASE found.selected # {}
  <2> DEFINE selection == [selected |-> found.selected, candidates |-> found.candidates,
                           reasons |-> found.reasons \cup Review(r, class),
                           recommendation |-> Recommendation(r, class)]
  <2>1. SelectedVmRow(r, e, source, class, steps, found) = VmMappedRow(r, e, source, steps, selection)
    BY <1>2 DEF SelectedVmRow
  <2>2. /\ selection.selected # {} /\ selection.recommendation # "incomplete"
        /\ selection.recommendation = "recommended" => selection.reasons = {}
    BY <1>2 DEF Recommendation
  <2>3. /\ Incomplete(selection).recommendation = "incomplete"
        /\ Incomplete(selection).selected = selection.selected
    BY DEF Incomplete
  <2> HIDE DEF selection
  <2> QED
    BY <2>1, <2>2, <2>3, VmMappedExplained
<1> QED
  BY <1>1, <1>2

LEMMA ChosenHasNoReasons ==
  ASSUME NEW request
  PROVE  SelectVmTarget(request).selected # {} => SelectVmTarget(request).reasons = {}
BY DEF SelectVmTarget

LEMMA ClassedVmExplained ==
  ASSUME NEW r, r.type = "ec2_vm", NEW e, UsableEstimate(e), NEW source, SourceAccounted(source),
         NEW class, NEW request, NEW steps
  PROVE  RowExplained(ClassedVmRow(r, e, source, class, request, steps))
<1> DEFINE x == ClassedVmRow(r, e, source, class, request, steps)
<1>1. CASE Undecided(r) # {}
  <2> DEFINE selection == NoSelection("incomplete", Review(r, class) \cup Undecided(r))
  <2>1. selection.selected = {} /\ selection.recommendation # "recommended"
    BY DEF NoSelection
  <2>2. x = [Row(r, source, StorageInputs(r), steps) EXCEPT !.vm = {selection}]
    BY <1>1 DEF ClassedVmRow
  <2> HIDE DEF x, selection
  <2>3. /\ x.source = source.costs /\ x.aws = source.status /\ x.azureCosts = {} /\ x.discounts = {}
        /\ x.savings = {} /\ x.mapping = {} /\ x.target = {} /\ x.vm = {selection}
        /\ x.unresolved = source.unresolved /\ x.azure = "not_required"
    BY <2>2 DEF Row
  <2>4. RowExplained(x)
    BY <2>1, <2>3, UnmappedVmExplained
  <2> QED
    BY <2>4 DEF x
<1>2. CASE Undecided(r) = {} /\ r.req.store = "used" /\ r.req.lossAcceptable = {FALSE}
  <2> DEFINE selection == NoSelection("no_eligible_target",
                            Review(r, class) \cup {"ephemeral_data_loss_incompatible"})
  <2>1. selection.selected = {} /\ selection.recommendation # "recommended"
    BY DEF NoSelection
  <2>2. x = [Row(r, source, StorageInputs(r), steps) EXCEPT !.mapping = {"no_mapping"}, !.vm = {selection}]
    BY <1>2 DEF ClassedVmRow
  <2> HIDE DEF x, selection
  <2>3. /\ x.source = source.costs /\ x.aws = source.status /\ x.azureCosts = {} /\ x.discounts = {}
        /\ x.savings = {} /\ x.mapping = {"no_mapping"} /\ x.target = {} /\ x.vm = {selection}
        /\ x.unresolved = source.unresolved /\ x.azure = "not_required"
    BY <2>2 DEF Row
  <2>4. RowExplained(x)
    BY <2>1, <2>3, UnmappedVmExplained
  <2> QED
    BY <2>4 DEF x
<1>3. CASE Undecided(r) = {} /\ ~(r.req.store = "used" /\ r.req.lossAcceptable = {FALSE})
  <2>1. x = SelectedVmRow(r, e, source, class, steps, SelectVmTarget(request))
    BY <1>3 DEF ClassedVmRow
  <2> QED
    BY <2>1, ChosenHasNoReasons, SelectedVmExplained
<1> QED
  BY <1>1, <1>2, <1>3

LEMMA VmRowExplained ==
  ASSUME NEW r, r.type = "ec2_vm", NEW e, UsableEstimate(e)
  PROVE  RowExplained(VmRow(r, e))
<1> DEFINE source == ResolveSource(r, e)
           classes == SourceClass(r.family)
           row == Row(r, source, StorageInputs(r), <<VmAssumptionsStep(r)>>)
           x == SourcedVmRow(r, e, source, classes)
<1>1. SourceAccounted(source) /\ (source.vcpu = {} => source.costs = {})
  <2>1. r.type \in AwsTypes \cup {"on_prem"}
    BY DEF AwsTypes
  <2>2. SourceAccounted(source)
    BY <2>1, SourcesAccounted
  <2> QED
    BY <2>2 DEF SourceAccounted
<1> HIDE DEF source, classes
<1>2. CASE source.vcpu = {}
  <2>1. x = UnsizedRow(row)
    BY <1>2 DEF SourcedVmRow
  <2> QED
    BY <1>1, <1>2, <2>1, UnsizedExplained DEF VmRow, source, classes
<1>3. CASE source.vcpu # {} /\ classes = {}
  <2> DEFINE u == <<"none", "source_class_unsupported">>
  <2>1. x = [row EXCEPT !.unresolved = @ \cup {u}]
    BY <1>3 DEF SourcedVmRow
  <2>2. /\ x.source = source.costs /\ x.aws = source.status /\ x.azureCosts = {} /\ x.discounts = {}
        /\ x.savings = {} /\ x.mapping = {} /\ x.target = {} /\ x.vm = {}
        /\ x.unresolved = source.unresolved \cup {u} /\ x.azure = "not_required"
    BY <2>1 DEF Row
  <2>3. u[1] # "aws" /\ u[1] # "azure" /\ u # <<"aws", "source_metadata_unavailable">>
    OBVIOUS
  <2> HIDE DEF x, row, u
  <2>4. /\ Lacks(x, "aws") <=> Lacks(source, "aws")
        /\ Lacks(x, "azure") <=> Lacks(source, "azure")
        /\ <<"aws", "source_metadata_unavailable">> \in x.unresolved
             <=> <<"aws", "source_metadata_unavailable">> \in source.unresolved
    BY <2>2, <2>3 DEF Lacks
  <2>5. SourceExplained(x) /\ TargetExplained(x, Blamed(x))
    BY <1>1, <2>2, <2>4, SourceUnresolved DEF SourceExplained, TargetExplained, Blamed, UsableStatuses
  <2>6. VmExplained(x) /\ OneSelection(x)
    BY <2>2 DEF VmExplained, OneSelection
  <2> QED
    BY <2>5, <2>6, PartsExplain DEF VmRow, source, classes, x
<1>4. CASE source.vcpu # {} /\ classes # {}
  <2>1. \E request, class, steps : x = ClassedVmRow(r, e, source, class, request, steps)
    BY <1>4 DEF SourcedVmRow, RequestedVmRow
  <2>2. RowExplained(x)
    BY <1>1, <2>1, ClassedVmExplained
  <2> QED
    BY <2>2 DEF VmRow, source, classes
<1> QED
  BY <1>2, <1>3, <1>4

LEMMA CalculatedRowExplained ==
  ASSUME NEW r, r.type \in AwsTypes \cup {"on_prem"}, NEW e, UsableEstimate(e)
  PROVE  RowExplained(CalculateRow(r, e))
BY MiRowExplained, VmRowExplained DEF CalculateRow

-----------------------------------------------------------------------------
(* The order of what is selected from.                                     *)

LEMMA LeastNumber ==
  ASSUME NEW S \in SUBSET Nat, S # {}
  PROVE  \E m \in S : \A n \in S : m <= n
<1>1. PICK m \in S : \A n \in S : ~(<<n, m>> \in OpToRel(<, Nat))
  BY NatLessThanWellFounded, WFMin
<1>2. \A n \in S : ~(n < m)
  BY <1>1 DEF OpToRel
<1> QED
  BY <1>2

-----------------------------------------------------------------------------
(* The shapes. *)

\* a shape of the tier that nothing rejects, and one that only its storage rejects
LEMMA EligibleHolds ==
  ASSUME NEW r, NEW tier, NEW storage \in BOOLEAN, NEW c \in Eligible(r, tier, storage),
         r.vcpu \in Int, r.memory \in Int
  PROVE  /\ c \in Catalog /\ c.region = r.region /\ c.tier = tier
         /\ c.vcores \in Nat /\ r.vcpu <= c.vcores /\ HoldsMemory(c, r) # {}
         /\ storage => HoldsStorage(c, r)
         /\ c \in Eligible(r, tier, FALSE)
<1>1. /\ c \in Catalog /\ c.region = r.region /\ c.tier = tier /\ Rejections(c, r, tier, storage) = {}
  BY DEF Eligible, Shapes
<1>2. c.vcores \in Nat
  BY <1>1, SelectionAssumption
<1>3. /\ ~(c.vcores < r.vcpu) /\ HoldsMemory(c, r) # {} /\ (storage => HoldsStorage(c, r))
  BY <1>1 DEF Rejections, ShapeCodes, CapacityCodes
<1>4. Rejections(c, r, tier, FALSE) = {}
  BY <1>1 DEF Rejections
<1>5. r.vcpu <= c.vcores
  BY <1>2, <1>3
<1>6. c \in Eligible(r, tier, FALSE)
  BY <1>1, <1>4 DEF Eligible, Shapes
<1> QED
  BY <1>1, <1>2, <1>3, <1>5, <1>6

\* the least of its memories that holds the source
LEMMA SelectedHolds ==
  ASSUME NEW r, NEW c \in Catalog, HoldsMemory(c, r) # {}
  PROVE  \E m \in c.memory : SelectedMemory(c, r) = {m} /\ r.memory <= m
<1>1. HoldsMemory(c, r) \in SUBSET Nat
  BY SelectionAssumption DEF HoldsMemory
<1>2. PICK m \in HoldsMemory(c, r) : \A n \in HoldsMemory(c, r) : m <= n
  BY <1>1, LeastNumber
<1>3. Least(HoldsMemory(c, r)) = {m}
  BY <1>1, <1>2 DEF Least
<1> QED
  BY <1>2, <1>3 DEF SelectedMemory, HoldsMemory

\* eligible shapes have a first one
LEMMA FirstExists ==
  ASSUME NEW r, NEW S \in SUBSET Catalog, S # {}, \A c \in S : HoldsMemory(c, r) # {}
  PROVE  First(S, r) # {}
<1> DEFINE vcores == {c.vcores : c \in S}
<1>1. vcores \in SUBSET Nat /\ vcores # {}
  BY SelectionAssumption
<1>2. PICK v \in vcores : \A w \in vcores : v <= w
  BY <1>1, LeastNumber
<1> DEFINE T == {c \in S : c.vcores = v}
           memories == UNION {SelectedMemory(c, r) : c \in T}
<1>3. \A c \in S : \E m \in Nat : SelectedMemory(c, r) = {m}
  BY SelectedHolds, SelectionAssumption
<1>4. memories \in SUBSET Nat /\ memories # {}
  <2>1. PICK c \in S : c.vcores = v
    BY <1>2
  <2> QED
    BY <2>1, <1>3
<1>5. PICK m \in memories : \A n \in memories : m <= n
  BY <1>4, LeastNumber
<1> DEFINE U == {c \in T : SelectedMemory(c, r) = {m}}
           keys == {c.key : c \in U}
<1>6. keys \in SUBSET Nat /\ keys # {}
  <2>1. PICK c \in T : m \in SelectedMemory(c, r)
    BY <1>5
  <2>2. SelectedMemory(c, r) = {m}
    BY <2>1, <1>3
  <2> QED
    BY <2>1, <2>2, SelectionAssumption
<1>7. PICK k \in keys : \A j \in keys : k <= j
  BY <1>6, LeastNumber
<1>8. PICK c \in S : c.vcores = v /\ SelectedMemory(c, r) = {m} /\ c.key = k
  BY <1>7
<1>9. ASSUME NEW d \in S PROVE Precedes(c, d, r)
  <2>1. v \in Nat /\ d.vcores \in Nat /\ v <= d.vcores
    BY <1>1, <1>2
  <2>2. CASE v < d.vcores
    BY <1>8, <2>2 DEF Precedes
  <2>3. CASE d.vcores = v
    <3>1. PICK n \in Nat : SelectedMemory(d, r) = {n}
      BY <1>3
    <3>2. n \in memories /\ m \in Nat /\ m <= n
      BY <1>4, <1>5, <2>3, <3>1
    <3>3. n = m => d.key \in keys /\ k <= d.key
      BY <1>7, <2>3, <3>1
    <3> QED
      BY <1>8, <2>3, <3>1, <3>2, <3>3 DEF Precedes
  <2> QED
    BY <2>1, <2>2, <2>3
<1> QED
  BY <1>8, <1>9 DEF First

\* more vCPU never lower the limit
LEMMA LimitGrows ==
  ASSUME NEW v \in Nat, NEW w \in Nat, v <= w
  PROVE  /\ AtMost(v * IopsPerVcore, MaxNggpIops) \in Nat
         /\ AtMost(w * IopsPerVcore, MaxNggpIops) \in Nat
         /\ AtMost(v * IopsPerVcore, MaxNggpIops) <= AtMost(w * IopsPerVcore, MaxNggpIops)
<1>1. IopsPerVcore \in Nat /\ MaxNggpIops \in Nat
  BY SelectionAssumption
<1>2. v * IopsPerVcore \in Nat /\ w * IopsPerVcore \in Nat
  BY <1>1
<1>3. PICK d \in Nat : w = v + d
  <2>1. w - v \in Nat /\ w = v + (w - v)
    OBVIOUS
  <2> QED
    BY <2>1
<1>4. w * IopsPerVcore = v * IopsPerVcore + d * IopsPerVcore /\ d * IopsPerVcore \in Nat
  BY <1>1, <1>3
<1>5. v * IopsPerVcore <= w * IopsPerVcore
  BY <1>2, <1>4
<1> QED
  BY <1>1, <1>2, <1>5 DEF AtMost

\* the tier's IOPS reach the source when the shape is eligible for the tier, storage or not
LEMMA TierReaches ==
  ASSUME NEW r, r.vcpu \in Nat, r.memory \in Int, r.iops \in Int, RequestedTier(r) = NGGP,
         NEW c \in First(Eligible(r, NGGP, TRUE), r)
  PROVE  r.iops <= AtMost(c.vcores * IopsPerVcore, MaxNggpIops)
<1>0. r.vcpu \in Int
  OBVIOUS
<1>1. c \in Eligible(r, NGGP, TRUE)
  BY DEF First
<1>2. c.vcores \in Nat /\ r.vcpu <= c.vcores /\ c \in Eligible(r, NGGP, FALSE)
  BY <1>0, <1>1, EligibleHolds
<1>3. PICK v \in ThresholdVcores(r) : v \in Nat /\ v <= c.vcores
  <2>1. CASE First(Eligible(r, NGGP, FALSE), r) = {}
    BY <1>2, <2>1 DEF ThresholdVcores
  <2>2. CASE First(Eligible(r, NGGP, FALSE), r) # {}
    <3>1. PICK d \in First(Eligible(r, NGGP, FALSE), r) : TRUE
      BY <2>2
    <3>2. d \in Eligible(r, NGGP, FALSE) /\ Precedes(d, c, r)
      BY <1>2, <3>1 DEF First
    <3>3. d.vcores \in Nat
      BY <1>0, <3>2, EligibleHolds
    <3>4. d.vcores <= c.vcores
      BY <1>2, <3>2, <3>3 DEF Precedes
    <3> QED
      BY <2>2, <3>1, <3>3, <3>4 DEF ThresholdVcores
  <2> QED
    BY <2>1, <2>2
<1>4. \A limit \in NggpLimit(r) : r.iops <= limit
  BY DEF RequestedTier, NGGP, BusinessCritical
<1>5. r.iops <= AtMost(v * IopsPerVcore, MaxNggpIops)
  BY <1>3, <1>4 DEF NggpLimit
<1> QED
  BY <1>2, <1>3, <1>5, LimitGrows

\* a closest shape that lacks nothing would be eligible
LEMMA ClosestLacks ==
  ASSUME NEW r, r.vcpu \in Int, r.memory \in Int, NEW tier, NEW c \in ClosestShape(r, tier),
         Shortfalls(c, r) = {}
  PROVE  c \in Eligible(r, tier, TRUE)
<1>1. c \in Closable(r, tier) /\ HoldsStorage(c, r)
  BY DEF ClosestShape
<1>2. /\ c \in Shapes(r, tier) /\ c \in Catalog /\ Rejections(c, r, tier, FALSE) \subseteq CapacityCodes
      /\ c.memory \subseteq Nat /\ c.vcores \in Nat
  BY <1>1, SelectionAssumption DEF Closable, Shapes
<1>3. ~(c.vcores < r.vcpu) /\ \E m \in SelectedMemory(c, r) : ~(m < r.memory)
  BY DEF Shortfalls, CapacityCodes
<1>4. HoldsMemory(c, r) # {}
  <2> SUFFICES ASSUME HoldsMemory(c, r) = {} PROVE FALSE
    OBVIOUS
  <2>1. PICK m \in Greatest(c.memory) : ~(m < r.memory)
    BY <1>3 DEF SelectedMemory
  <2>2. m \in c.memory /\ m \in Nat /\ r.memory <= m
    BY <1>2, <2>1 DEF Greatest
  <2> QED
    BY <2>2 DEF HoldsMemory
<1>5. /\ ~c.zoneRedundant /\ ~(tier = NGGP /\ c.hardware \notin PremiumSeries)
  BY <1>2 DEF Rejections, ShapeCodes, CapacityCodes
<1>6. Rejections(c, r, tier, TRUE) = {}
  BY <1>1, <1>3, <1>4, <1>5 DEF Rejections
<1> QED
  BY <1>2, <1>6 DEF Eligible

\* what select_target promises of the shape it selects, for every request
LEMMA SelectedShapeFits ==
  ASSUME NEW r, r.vcpu \in Nat, r.memory \in Int, r.iops \in Int
  PROVE  ShapeFits(r, SelectTarget(r))
<1> DEFINE t == SelectTarget(r)
           tier == RequestedTier(r)
           eligible == First(Eligible(r, tier, TRUE), r)
<1>0. r.vcpu \in Int
  OBVIOUS
<1>1. t.tier = tier
  BY DEF SelectTarget
<1>2. CASE Eligible(r, tier, TRUE) = {}
  <2>1. /\ t.selected = {Selected(c, r) : c \in ClosestShape(r, tier)}
        /\ ClosestShape(r, tier) # {} => t.reasons = UNION {Shortfalls(c, r) : c \in ClosestShape(r, tier)}
    BY <1>2 DEF SelectTarget, First
  <2> SUFFICES ASSUME NEW x \in t.selected PROVE HoldsStorage(x.shape, r) /\ t.reasons # {}
    BY <1>1, <1>2 DEF ShapeFits
  <2>2. PICK c \in ClosestShape(r, tier) : x.shape = c
    BY <2>1 DEF Selected
  <2>3. HoldsStorage(c, r)
    BY DEF ClosestShape
  <2>4. Shortfalls(c, r) # {}
    BY <1>0, <1>2, ClosestLacks
  <2> QED
    BY <2>1, <2>2, <2>3, <2>4
<1>3. CASE Eligible(r, tier, TRUE) # {}
  <2>1. eligible # {}
    <3>1. Eligible(r, tier, TRUE) \in SUBSET Catalog
      BY DEF Eligible, Shapes
    <3>2. \A c \in Eligible(r, tier, TRUE) : HoldsMemory(c, r) # {}
      BY <1>0, EligibleHolds
    <3> QED
      BY <1>3, <3>1, <3>2, FirstExists
  <2>2. t.selected = {Selected(c, r) : c \in eligible} /\ t.reasons = {}
    BY <1>3, <2>1 DEF SelectTarget
  <2> SUFFICES ASSUME NEW x \in t.selected
               PROVE  /\ HoldsStorage(x.shape, r) /\ r.vcpu <= x.shape.vcores
                      /\ r.memory <= x.memory /\ x.memory \in x.shape.memory
                      /\ tier = NGGP => r.iops <= AtMost(x.shape.vcores * IopsPerVcore, MaxNggpIops)
                      /\ \A c \in Eligible(r, tier, TRUE) :
                           ~(c.vcores < x.shape.vcores /\ \A m \in SelectedMemory(c, r) : m <= x.memory)
    BY <1>1, <2>2 DEF ShapeFits
  <2>3. PICK c \in eligible : x = Selected(c, r)
    BY <2>2
  <2>4. c \in Eligible(r, tier, TRUE)
    BY DEF First
  <2>5. c \in Catalog /\ c.vcores \in Nat /\ HoldsMemory(c, r) # {}
    BY <1>0, <2>4, EligibleHolds
  <2>6. PICK m \in c.memory : SelectedMemory(c, r) = {m} /\ r.memory <= m
    BY <2>5, SelectedHolds
  <2>7. x.shape = c /\ x.memory = m
    BY <2>3, <2>6 DEF Selected
  <2>8. HoldsStorage(c, r) /\ r.vcpu <= c.vcores
    BY <1>0, <2>4, EligibleHolds
  <2>9. tier = NGGP => r.iops <= AtMost(c.vcores * IopsPerVcore, MaxNggpIops)
    BY TierReaches
  <2>10. ASSUME NEW d \in Eligible(r, tier, TRUE) PROVE ~(d.vcores < c.vcores)
    <3>1. Precedes(c, d, r)
      BY <2>10 DEF First
    <3>2. d.vcores \in Nat
      BY <1>0, <2>10, EligibleHolds
    <3> QED
      BY <2>5, <3>1, <3>2 DEF Precedes
  <2> QED
    BY <2>6, <2>7, <2>8, <2>9, <2>10
<1> QED
  BY <1>2, <1>3

-----------------------------------------------------------------------------
(* The sizes. *)

LEMMA Or0Type == ASSUME NEW opt \in SUBSET Int PROVE Or0(opt) \in Int
<1>1. CASE opt = {}
  BY <1>1 DEF Or0
<1>2. CASE opt # {}
  <2>1. (CHOOSE x \in opt : TRUE) \in opt
    BY <1>2
  <2> QED
    BY <1>2, <2>1 DEF Or0
<1> QED
  BY <1>1, <1>2

LEMMA RoundUpHolds ==
  ASSUME NEW a \in Int, NEW step \in Int, step > 0
  PROVE  RoundUp(a, step) \in Int /\ a <= RoundUp(a, step)
<1>1. a % step \in 0..(step - 1)
  OBVIOUS
<1> QED
  BY <1>1 DEF RoundUp

\* a disk has at least what its volume has
LEMMA DiskHolds ==
  ASSUME NEW region, NEW v, v.capacity \in Int, v.iops \in Int, v.throughput \in Int,
         NEW d \in SelectDisk(region, v)
  PROVE  v.capacity <= d.capacity /\ v.iops <= d.iops /\ v.throughput <= d.throughput
<1>1. PICK o \in Offers : d \in (IF o.independent THEN IndependentDisk(o, v) ELSE TieredDisk(o, v))
  BY DEF SelectDisk
<1>2. /\ o.increment \in SUBSET Int /\ o.min \in SUBSET Int /\ o.includedIops \in SUBSET Int
      /\ o.includedThroughput \in SUBSET Int
      /\ \A t \in o.tiers : t.capacity \in Int /\ t.iops \in Int /\ t.throughput \in Int
  BY VmCatalogAssumption
<1>3. CASE d \in IndependentDisk(o, v)
  <2> DEFINE least == Larger(v.capacity, Or0(o.min))
             iops == Larger(v.iops, Or0(o.includedIops))
             throughput == Larger(v.throughput, Or0(o.includedThroughput))
  <2>1. /\ least \in Int /\ v.capacity <= least /\ v.iops <= iops /\ v.throughput <= throughput
    <3>1. Or0(o.min) \in Int /\ Or0(o.includedIops) \in Int /\ Or0(o.includedThroughput) \in Int
      BY <1>2, Or0Type
    <3> QED
      BY <3>1 DEF Larger
  <2>2. PICK step \in o.increment : /\ step > 0 /\ d.capacity = RoundUp(least, step)
                                    /\ d.iops = iops /\ d.throughput = throughput
    BY <1>3 DEF IndependentDisk
  <2> HIDE DEF least, iops, throughput
  <2>3. least <= RoundUp(least, step) /\ RoundUp(least, step) \in Int
    BY <1>2, <2>1, <2>2, RoundUpHolds
  <2> QED
    BY <2>1, <2>2, <2>3
<1>4. CASE d \in TieredDisk(o, v)
  <2>1. PICK t \in o.tiers : /\ HoldsVolume(t, v) /\ d.capacity = t.capacity /\ d.iops = t.iops
                             /\ d.throughput = t.throughput
    BY <1>4 DEF TieredDisk
  <2> QED
    BY <1>2, <2>1 DEF HoldsVolume
<1> QED
  BY <1>1, <1>3, <1>4

\* what a size that nothing rejects carries
LEMMA EligibleCarries ==
  ASSUME NEW r, NEW s \in Sizes, r.vcpu \in Int, r.memory \in Int, NEW found, RejectionsOf(s, r, found) = {}
  PROVE  /\ r.memory <= s.memory /\ r.vcpu <= s.vcpus /\ AllFound(found)
         /\ TotalIops(Disks(found)) <= s.iops /\ TotalThroughput(Disks(found)) <= s.throughput
<1>1. s.memory \in Int /\ s.vcpus \in Int
  BY VmCatalogAssumption
<1>2. \A code \in {"insufficient_vcpu", "insufficient_memory", "no_eligible_disk_offer",
                   "aggregate_disk_iops_exceeded", "aggregate_disk_throughput_exceeded"} :
        code \notin RejectionsOf(s, r, found)
  OBVIOUS
<1>3. ~(s.vcpus < r.vcpu)
  BY <1>2 DEF RejectionsOf
<1>4. ~(s.memory < r.memory)
  BY <1>2 DEF RejectionsOf
<1>5. AllFound(found)
  BY <1>2 DEF RejectionsOf
<1>6. TotalIops(Disks(found)) <= s.iops
  BY <1>2, <1>5 DEF RejectionsOf
<1>7. TotalThroughput(Disks(found)) <= s.throughput
  BY <1>2, <1>5 DEF RejectionsOf
<1> QED
  BY <1>1, <1>3, <1>4, <1>5, <1>6, <1>7

\* what comes first is not older, and not larger among the sizes of its generation
LEMMA BestIsNewest ==
  ASSUME NEW x \in Sizes, NEW s \in Sizes, NEW r, x = s \/ RanksBefore(x, s, r)
  PROVE  /\ s.rank <= x.rank
         /\ s.rank = x.rank => ~(s.vcpus <= x.vcpus /\ s.memory < x.memory)
<1>1. /\ x.rank \in Int /\ x.vcpus \in Int /\ x.memory \in Int
      /\ s.rank \in Int /\ s.vcpus \in Int /\ s.memory \in Int
  BY VmCatalogAssumption
<1>2. CASE x = s
  BY <1>1, <1>2
<1>3. CASE RanksBefore(x, s, r)
  <2>1. PICK i \in 1..5 : /\ Ranks(x, r)[i] < Ranks(s, r)[i]
                          /\ \A j \in 1..(i - 1) : Ranks(x, r)[j] = Ranks(s, r)[j]
    BY <1>3 DEF RanksBefore
  <2>2. /\ Ranks(x, r)[1] = -x.rank /\ Ranks(x, r)[2] = x.vcpus /\ Ranks(x, r)[3] = x.memory
        /\ Ranks(s, r)[1] = -s.rank /\ Ranks(s, r)[2] = s.vcpus /\ Ranks(s, r)[3] = s.memory
    BY DEF Ranks
  <2>3. CASE i = 1
    BY <1>1, <2>1, <2>2, <2>3
  <2>4. CASE i = 2
    <3>1. Ranks(x, r)[1] = Ranks(s, r)[1]
      BY <2>1, <2>4
    <3> QED
      BY <1>1, <2>1, <2>2, <2>4, <3>1
  <2>5. CASE i = 3
    <3>1. Ranks(x, r)[1] = Ranks(s, r)[1] /\ Ranks(x, r)[2] = Ranks(s, r)[2]
      BY <2>1, <2>5
    <3> QED
      BY <1>1, <2>1, <2>2, <2>5, <3>1
  <2>6. CASE i \in {4, 5}
    <3>1. /\ Ranks(x, r)[1] = Ranks(s, r)[1] /\ Ranks(x, r)[2] = Ranks(s, r)[2]
          /\ Ranks(x, r)[3] = Ranks(s, r)[3]
      BY <2>1, <2>6
    <3> QED
      BY <1>1, <2>2, <3>1
  <2> QED
    BY <2>3, <2>4, <2>5, <2>6
<1> QED
  BY <1>2, <1>3

LEMMA SelectedSizeFits ==
  ASSUME NEW r, NEW request, request.memory = r.ram, request.memory \in Int, request.vcpu \in Int,
         \A i \in DOMAIN request.volumes : /\ request.volumes[i].capacity \in Int
                                           /\ request.volumes[i].iops \in Int
                                           /\ request.volumes[i].throughput \in Int,
         NEW v, v.selected = SelectVmTarget(request).selected,
         v.selected # {} => v.candidates = SelectVmTarget(request).candidates
  PROVE  SizeFits(r, v, request)
<1> DEFINE found == DisksFor(request)
           eligible == {s \in OfLineage(request) : RejectionsOf(s, request, found) = {}}
<1> SUFFICES ASSUME NEW x \in v.selected
             PROVE  /\ r.ram <= x.size.memory /\ request.vcpu <= x.size.vcpus
                    /\ DOMAIN x.disks = DOMAIN request.volumes
                    /\ \A i \in DOMAIN x.disks :
                         /\ request.volumes[i].capacity <= x.disks[i].capacity
                         /\ request.volumes[i].iops <= x.disks[i].iops
                         /\ request.volumes[i].throughput <= x.disks[i].throughput
                    /\ TotalIops(x.disks) <= x.size.iops
                    /\ TotalThroughput(x.disks) <= x.size.throughput
                    /\ request.wanted = {} =>
                         \A s \in InRegion(request) : [name |-> s.name, why |-> {}] \in v.candidates =>
                           /\ s.rank <= x.size.rank
                           /\ s.rank = x.size.rank => ~(s.vcpus <= x.size.vcpus /\ s.memory < x.size.memory)
  BY DEF SizeFits
<1>1. PICK size \in eligible :
        /\ x = [size |-> size, disks |-> Disks(found)]
        /\ request.wanted = {} => \A t \in eligible \ {size} : RanksBefore(size, t, request)
  BY DEF SelectVmTarget
<1>2. size \in Sizes /\ size.region = request.region /\ RejectionsOf(size, request, found) = {}
  BY DEF OfLineage, InRegion
<1>3. x.size = size /\ x.disks = Disks(found)
  BY <1>1
<1>4. v.candidates = Evaluations(request, found)
  BY DEF SelectVmTarget
<1> HIDE DEF found
<1>5. /\ request.memory <= size.memory /\ request.vcpu <= size.vcpus /\ AllFound(found)
      /\ TotalIops(Disks(found)) <= size.iops /\ TotalThroughput(Disks(found)) <= size.throughput
  BY <1>2, EligibleCarries
<1>6. DOMAIN found = DOMAIN request.volumes /\ DOMAIN Disks(found) = DOMAIN request.volumes
  BY DEF found, DisksFor, Disks
<1>7. ASSUME NEW i \in DOMAIN request.volumes
      PROVE  /\ request.volumes[i].capacity <= Disks(found)[i].capacity
             /\ request.volumes[i].iops <= Disks(found)[i].iops
             /\ request.volumes[i].throughput <= Disks(found)[i].throughput
  <2>1. found[i] = SelectDisk(request.region, request.volumes[i]) /\ found[i] # {}
    BY <1>5, <1>6 DEF found, DisksFor, AllFound
  <2>2. Disks(found)[i] \in found[i]
    BY <1>6, <2>1 DEF Disks
  <2> QED
    BY <2>1, <2>2, DiskHolds
<1>8. ASSUME request.wanted = {}, NEW s \in InRegion(request),
             [name |-> s.name, why |-> {}] \in v.candidates
      PROVE  /\ s.rank <= size.rank
             /\ s.rank = size.rank => ~(s.vcpus <= size.vcpus /\ s.memory < size.memory)
  <2>1. PICK t \in OfLineage(request) : t.name = s.name /\ RejectionsOf(t, request, found) = {}
    <3>1. [name |-> s.name, why |-> {}] \notin
            {[name |-> t.name, why |-> {"lineage_mismatch"}] :
               t \in {t \in InRegion(request) \ OfLineage(request) : t.name \in request.wanted}}
      OBVIOUS
    <3>2. [name |-> s.name, why |-> {}] \in
            {[name |-> t.name, why |-> RejectionsOf(t, request, found)] : t \in OfLineage(request)}
      BY <1>4, <1>8, <3>1 DEF Evaluations
    <3> QED
      BY <3>2
  <2>2. s \in Sizes /\ t \in Sizes /\ s.region = t.region
    BY DEF OfLineage, InRegion
  <2>3. t = s
    BY <2>1, <2>2, VmCatalogAssumption
  <2>4. s \in eligible
    BY <2>1, <2>3
  <2>5. size = s \/ RanksBefore(size, s, request)
    BY <1>1, <1>8, <2>4
  <2> QED
    BY <1>2, <2>2, <2>5, BestIsNewest
<1> QED
  BY <1>3, <1>5, <1>6, <1>7, <1>8

LEMMA ResourcesTyped ==
  ASSUME NEW p \in Projects, NEW i \in 1..Len(p.resources)
  PROVE  p.resources[i] \in Range(p.resources) /\ Typed(p.resources[i])
<1>1. i \in DOMAIN p.resources
  <2>1. p.resources \in Seq(Range(p.resources))
    BY ProjectsAssumption
  <2> QED
    BY <2>1
<1>2. p.resources[i] \in Range(p.resources)
  BY <1>1 DEF Range
<1> QED
  BY <1>2, ProjectsAssumption DEF Typed

\* the largest of the IOPS that the volumes of a source are provisioned with
LEMMA MaxIopsType ==
  ASSUME NEW r, Typed(r), r.type \in {"ec2", "ec2_vm"} PROVE MaxIops(r) \in Nat
<1> DEFINE n == Len(r.volumes)
           S == {0} \cup UNION {r.volumes[i].iops : i \in Persistent(r)}
           Bounded(k) == \E b \in Nat : \A i \in 1..k : \A x \in r.volumes[i].iops : x <= b
           unbounded == {k \in 0..n : ~Bounded(k)}
<1>1. n \in Nat /\ DOMAIN r.volumes = 1..n
  BY DEF Typed
<1>2. \A i \in 1..n : r.volumes[i].iops \in SUBSET Nat /\ \A x, y \in r.volumes[i].iops : x = y
  <2>1. \A i \in 1..n : r.volumes[i] \in Range(r.volumes)
    BY <1>1 DEF Range
  <2> HIDE DEF n
  <2> QED
    BY <2>1 DEF Typed, AtMostOne
<1>3. S \in SUBSET Nat /\ 0 \in S
  <2>1. Persistent(r) \subseteq 1..n
    BY <1>1 DEF Persistent
  <2> QED
    BY <1>2, <2>1
<1> HIDE DEF n
<1>4. Bounded(0)
  <2>1. \A i \in 1..0 : \A x \in r.volumes[i].iops : x <= 0
    OBVIOUS
  <2> QED
    BY <2>1
<1>5. ASSUME NEW k \in 1..n, Bounded(k - 1) PROVE Bounded(k)
  <2>1. PICK b \in Nat : \A i \in 1..(k - 1) : \A x \in r.volumes[i].iops : x <= b
    BY <1>5
  <2>2. CASE r.volumes[k].iops = {}
    <3>1. \A i \in 1..k : \A x \in r.volumes[i].iops : x <= b
      BY <2>1, <2>2, <1>1
    <3> QED
      BY <3>1
  <2>3. CASE r.volumes[k].iops # {}
    <3>1. PICK y \in r.volumes[k].iops : y \in Nat
      BY <1>2, <2>3
    <3>2. \A x \in r.volumes[k].iops : x = y
      BY <1>2
    <3>3. PICK d \in Nat : b <= d /\ y <= d
      BY <3>1
    <3>4. ASSUME NEW i \in 1..k, NEW x \in r.volumes[i].iops PROVE x <= d
      <4>1. x \in Nat
        BY <1>1, <1>2
      <4>2. CASE i = k
        BY <3>1, <3>2, <3>3, <4>2
      <4>3. CASE i \in 1..(k - 1)
        <5>1. x <= b
          BY <2>1, <4>3
        <5> QED
          BY <3>3, <4>1, <5>1
      <4> QED
        BY <1>1, <4>2, <4>3
    <3> QED
      BY <3>4
  <2> QED
    BY <2>2, <2>3
<1>6. Bounded(n)
  <2> HIDE DEF Bounded
  <2> SUFFICES ASSUME ~Bounded(n) PROVE FALSE
    OBVIOUS
  <2>1. unbounded \in SUBSET Nat /\ unbounded # {}
    BY <1>1
  <2>2. PICK k \in unbounded : \A j \in unbounded : k <= j
    BY <2>1, LeastNumber
  <2>3. k \in 1..n /\ k - 1 \in 0..n
    BY <1>1, <1>4, <2>2
  <2>4. k - 1 \notin unbounded
    BY <2>2, <2>3
  <2> QED
    BY <1>5, <2>2, <2>3, <2>4
<1> DEFINE bounds == {d \in Nat : \A x \in S : x <= d}
<1>7. bounds \in SUBSET Nat /\ bounds # {}
  <2>1. PICK b \in Nat : \A i \in 1..n : \A x \in r.volumes[i].iops : x <= b
    BY <1>6
  <2>2. \A x \in S : x <= b
    <3>1. Persistent(r) \subseteq 1..n
      BY <1>1 DEF Persistent
    <3> QED
      BY <2>1, <3>1
  <2> QED
    BY <2>2
<1>8. PICK m \in bounds : \A d \in bounds : m <= d
  BY <1>7, LeastNumber
<1> HIDE DEF S, Bounded, unbounded
<1>9. m \in S
  <2> SUFFICES ASSUME m \notin S PROVE FALSE
    OBVIOUS
  <2>1. m \in Nat /\ \A x \in S : x \in Nat /\ x < m
    BY <1>3, <1>8
  <2>2. m - 1 \in Nat
    BY <1>3, <2>1
  <2>3. m - 1 \in bounds
    BY <2>1, <2>2
  <2> QED
    BY <1>8, <2>1, <2>3
<1>10. \A y \in S : m >= y
  BY <1>3, <1>8
<1>11. Max(S) \in S
  BY <1>9, <1>10 DEF Max
<1> QED
  BY <1>3, <1>11 DEF MaxIops, S

-----------------------------------------------------------------------------
(* What a source is sized by. *)

LEMMA StoredRatesValid ==
  ASSUME NEW s, s \in StoredAws(s)
  PROVE  /\ \A i \in DOMAIN s.content.ec2 : s.content.ec2[i].vcpu \in Nat
         /\ \A i \in DOMAIN s.content.rds : s.content.rds[i].vcpu \in Nat
<1>1. AwsErrors(Metadata(s), s.content.ec2, s.content.rds, s.content.ebs) = {}
  BY DEF StoredAws, AwsSnapshot
<1>2. /\ \A r \in Records(s.content.ec2) : ValidEc2Rate(r)
      /\ \A r \in Records(s.content.rds) : ValidRdsRate(r)
  BY <1>1 DEF AwsErrors
<1>3. /\ \A i \in DOMAIN s.content.ec2 : ValidEc2Rate(s.content.ec2[i])
      /\ \A i \in DOMAIN s.content.rds : ValidRdsRate(s.content.rds[i])
  BY <1>2 DEF Records, Range
<1> QED
  BY <1>3 DEF ValidEc2Rate, ValidRdsRate

LEMMA RatesSized ==
  ASSUME NEW s, s \in StoredAws(s), NEW instance, NEW q
  PROVE  /\ Ec2Rates(s, instance) # {} => Value(Ec2Rates(s, instance)).vcpu \in Nat
         /\ RdsRates(s, q) # {} => Value(RdsRates(s, q)).vcpu \in Nat
<1>1. \A rate \in Ec2Rates(s, instance) : rate.vcpu \in Nat
  BY StoredRatesValid DEF Ec2Rates, FirstOf
<1>2. \A rate \in RdsRates(s, q) : rate.vcpu \in Nat
  BY StoredRatesValid DEF RdsRates, FirstOf
<1> QED
  BY <1>1, <1>2 DEF Value

LEMMA SourcesSized ==
  ASSUME NEW r, Typed(r), NEW e, \A s \in e.aws : s \in StoredAws(s), ResolveSource(r, e).vcpu # {}
  PROVE  /\ Value(ResolveSource(r, e).vcpu) \in Nat
         /\ r.type # "ec2_vm" => Or0(ResolveSource(r, e).iops) \in Nat
<1>1. e.aws # {} => Value(e.aws) \in StoredAws(Value(e.aws))
  BY DEF Value
<1>2. CASE r.type = "ec2"
  <2>1. ResolveEc2(r, e).vcpu # {}
    BY <1>2 DEF ResolveSource
  <2>2. e.aws # {} /\ Ec2Rates(Value(e.aws), r.instance) # {}
    BY <2>1 DEF ResolveEc2, Unpriced
  <2>3. /\ ResolveEc2(r, e).vcpu = {Value(Ec2Rates(Value(e.aws), r.instance)).vcpu}
        /\ ResolveEc2(r, e).iops \in {{}, {MaxIops(r)}}
    BY <2>2 DEF ResolveEc2, Priced
  <2>4. MaxIops(r) \in Nat
    BY <1>2, MaxIopsType
  <2>5. Value(Ec2Rates(Value(e.aws), r.instance)).vcpu \in Nat
    BY <1>1, <2>2, RatesSized
  <2>6. Value(ResolveEc2(r, e).vcpu) \in Nat /\ Or0(ResolveEc2(r, e).iops) \in Nat
    BY <2>3, <2>4, <2>5 DEF Value, Or0
  <2> QED
    BY <1>2, <2>6 DEF ResolveSource
<1>3. CASE r.type = "rds"
  <2>1. ResolveRds(r, e).vcpu # {}
    BY <1>3 DEF ResolveSource
  <2>2. e.aws # {} /\ RdsRates(Value(e.aws), r) # {}
    BY <2>1 DEF ResolveRds, Unpriced
  <2>3. /\ ResolveRds(r, e).vcpu = {Value(RdsRates(Value(e.aws), r)).vcpu}
        /\ ResolveRds(r, e).iops = {r.iops}
    BY <2>2 DEF ResolveRds, Priced
  <2>4. Value(RdsRates(Value(e.aws), r)).vcpu \in Nat
    BY <1>1, <2>2, RatesSized
  <2>5. Value(ResolveRds(r, e).vcpu) \in Nat /\ Or0(ResolveRds(r, e).iops) \in Nat
    BY <1>3, <2>3, <2>4 DEF Value, Or0, Typed
  <2> QED
    BY <1>3, <2>5 DEF ResolveSource
<1>4. CASE r.type = "ec2_vm"
  <2>1. ResolveEc2Vm(r, e).vcpu # {}
    BY <1>4 DEF ResolveSource
  <2>2. e.aws # {} /\ Ec2Rates(Value(e.aws), r.instance) # {}
    BY <2>1 DEF ResolveEc2Vm, Unpriced
  <2>3. ResolveEc2Vm(r, e).vcpu = {Value(Ec2Rates(Value(e.aws), r.instance)).vcpu}
    BY <2>2 DEF ResolveEc2Vm, Priced
  <2>4. Value(Ec2Rates(Value(e.aws), r.instance)).vcpu \in Nat
    BY <1>1, <2>2, RatesSized
  <2>5. Value(ResolveEc2Vm(r, e).vcpu) \in Nat
    BY <2>3, <2>4 DEF Value
  <2> QED
    BY <1>4, <2>5 DEF ResolveSource
<1>5. CASE r.type = "on_prem"
  <2>1. ResolveOnPrem(r, e).vcpu = {r.vcpu} /\ ResolveOnPrem(r, e).iops = {r.iops}
    BY DEF ResolveOnPrem
  <2>2. Value(ResolveOnPrem(r, e).vcpu) \in Nat /\ Or0(ResolveOnPrem(r, e).iops) \in Nat
    BY <1>5, <2>1 DEF Value, Or0, Typed
  <2> QED
    BY <1>5, <2>2 DEF ResolveSource
<1> QED
  BY <1>2, <1>3, <1>4, <1>5 DEF Typed, AwsTypes

-----------------------------------------------------------------------------
(* The targets of a row are those that were selected for its request. *)

LEMMA MiTargets ==
  ASSUME NEW r, NEW e
  PROVE  /\ MiRow(r, e).vm = {}
         /\ \A t \in MiRow(r, e).target :
              /\ ResolveSource(r, e).vcpu # {}
              /\ t = SelectTarget(MiRequest(r, e, ResolveSource(r, e), StorageInputs(r)))
<1> DEFINE source == ResolveSource(r, e)
           selection == SelectTarget(MiRequest(r, e, source, StorageInputs(r)))
           steps == <<SourceInputStep(r, Value(source.vcpu), Or0(source.iops), StorageInputs(r))>>
                      \o SourceCostSteps(r, e, source)
<1>1. CASE source.vcpu = {}
  BY <1>1 DEF MiRow, SourcedMiRow, UnsizedRow, Row
<1>2. CASE source.vcpu # {}
  <2>1. MiRow(r, e) = SelectedMiRow(r, e, source, StorageInputs(r), steps, selection)
    BY <1>2 DEF MiRow, SourcedMiRow
  <2> HIDE DEF source, steps, selection
  <2>2. /\ SelectedMiRow(r, e, source, StorageInputs(r), steps, selection).target = {selection}
        /\ SelectedMiRow(r, e, source, StorageInputs(r), steps, selection).vm = {}
    BY DEF SelectedMiRow, MappedRow, Row
  <2> QED
    BY <1>2, <2>1, <2>2 DEF source, selection
<1> QED
  BY <1>1, <1>2

LEMMA VmTargets ==
  ASSUME NEW r, NEW e
  PROVE  /\ VmRow(r, e).target = {}
         /\ \A v \in VmRow(r, e).vm :
              \/ v.selected = {}
              \/ LET request == VmRequest(r, e, Value(ResolveSource(r, e).vcpu), Value(SourceClass(r.family)))
                 IN /\ ResolveSource(r, e).vcpu # {}
                    /\ v.selected = SelectVmTarget(request).selected
                    /\ v.candidates = SelectVmTarget(request).candidates
<1> DEFINE source == ResolveSource(r, e)
           classes == SourceClass(r.family)
           class == Value(classes)
           request == VmRequest(r, e, Value(source.vcpu), class)
           found == SelectVmTarget(request)
           x == SourcedVmRow(r, e, source, classes)
           Chosen(row) ==
             /\ row.target = {}
             /\ \A v \in row.vm : v.selected = {} \/ (v.selected = found.selected /\ v.candidates = found.candidates)
<1>1. CASE source.vcpu = {}
  <2>1. x.target = {} /\ x.vm = {}
    BY <1>1 DEF SourcedVmRow, UnsizedRow, Row
  <2> QED
    BY <2>1 DEF VmRow
<1>2. CASE source.vcpu # {}
  <2> SUFFICES Chosen(x)
    BY <1>2 DEF VmRow
  <2> HIDE DEF source, classes, request, class
  <2>1. CASE classes = {}
    BY <1>2, <2>1 DEF SourcedVmRow, Row
  <2>2. CASE classes # {}
    <3>1. PICK steps : x = ClassedVmRow(r, e, source, class, request, steps)
      BY <1>2, <2>2 DEF SourcedVmRow, RequestedVmRow, request, class
    <3>2. CASE x = SelectedVmRow(r, e, source, class, steps, found)
      <4> DEFINE selection == [selected |-> found.selected, candidates |-> found.candidates,
                               reasons |-> found.reasons \cup Review(r, class),
                               recommendation |-> IF found.selected = {} THEN "no_eligible_target"
                                                  ELSE Recommendation(r, class)]
      <4> HIDE DEF found
      <4>1. /\ selection.selected = found.selected /\ selection.candidates = found.candidates
            /\ Incomplete(selection).selected = found.selected
            /\ Incomplete(selection).candidates = found.candidates
        BY DEF Incomplete
      <4>2. x \in {VmUnmappedRow(r, e, source, steps, selection), VmMappedRow(r, e, source, steps, selection)}
        BY <3>2 DEF SelectedVmRow
      <4> HIDE DEF selection
      <4>3. /\ VmUnmappedRow(r, e, source, steps, selection).target = {}
            /\ VmUnmappedRow(r, e, source, steps, selection).vm \subseteq {selection, Incomplete(selection)}
        BY DEF VmUnmappedRow, Row
      <4>4. /\ VmMappedRow(r, e, source, steps, selection).target = {}
            /\ VmMappedRow(r, e, source, steps, selection).vm \subseteq {selection, Incomplete(selection)}
        BY DEF VmMappedRow, MappedRow, Row
      <4>5. x.target = {} /\ x.vm \subseteq {selection, Incomplete(selection)}
        BY <4>2, <4>3, <4>4
      <4> HIDE DEF x
      <4> QED
        BY <4>1, <4>5
    <3>3. CASE x # SelectedVmRow(r, e, source, class, steps, found)
      <4> DEFINE undecided == NoSelection("incomplete", Review(r, class) \cup Undecided(r))
                 lost == NoSelection("no_eligible_target",
                                     Review(r, class) \cup {"ephemeral_data_loss_incompatible"})
                 row == Row(r, source, StorageInputs(r), steps)
      <4>1. \/ x = [row EXCEPT !.vm = {undecided}]
            \/ x = [row EXCEPT !.mapping = {"no_mapping"}, !.vm = {lost}]
        BY <3>1, <3>3 DEF ClassedVmRow
      <4>2. undecided.selected = {} /\ lost.selected = {}
        BY DEF NoSelection
      <4> HIDE DEF x, found, undecided, lost
      <4>3. x.target = {} /\ (x.vm = {undecided} \/ x.vm = {lost})
        BY <4>1 DEF Row
      <4> QED
        BY <4>2, <4>3
    <3> QED
      BY <3>2, <3>3
  <2> QED
    BY <2>1, <2>2
<1> QED
  BY <1>1, <1>2

-----------------------------------------------------------------------------
LEMMA VmRequestTyped ==
  ASSUME NEW r, Typed(r), r.type = "ec2_vm", NEW e, NEW vcpu, NEW class,
         NEW i \in DOMAIN VmRequest(r, e, vcpu, class).volumes
  PROVE  LET v == VmRequest(r, e, vcpu, class).volumes[i]
         IN v.capacity \in Int /\ v.iops \in Int /\ v.throughput \in Int
<1>1. i \in DOMAIN r.volumes /\ i \in Persistent(r)
  BY DEF VmRequest, Volumes, Persistent
<1>2. r.volumes[i] \in Range(r.volumes)
  BY <1>1 DEF Range
<1>3. /\ r.volumes[i].capacity \in Int /\ r.volumes[i].iops \in SUBSET Int
      /\ r.volumes[i].throughput \in SUBSET Int
  BY <1>2 DEF Typed
<1>4. Or0(r.volumes[i].iops) \in Int /\ Or0(r.volumes[i].throughput) \in Int
  BY <1>3, Or0Type
<1>5. VmRequest(r, e, vcpu, class).volumes[i] =
        [role |-> r.volumes[i].role, capacity |-> r.volumes[i].capacity,
         iops |-> Or0(r.volumes[i].iops), throughput |-> Or0(r.volumes[i].throughput)]
  BY <1>1 DEF VmRequest, Volumes
<1> QED
  BY <1>3, <1>4, <1>5

LEMMA CalculatedTargetsFit ==
  ASSUME NEW r, Typed(r), NEW e, \A s \in e.aws : s \in StoredAws(s)
  PROVE  LET source == ResolveSource(r, e)
         IN /\ \A t \in CalculateRow(r, e).target :
                 ShapeFits(MiRequest(r, e, source, StorageInputs(r)), t)
            /\ \A v \in CalculateRow(r, e).vm :
                 SizeFits(r, v, VmRequest(r, e, Value(source.vcpu), Value(SourceClass(r.family))))
<1> DEFINE source == ResolveSource(r, e)
           shape == MiRequest(r, e, source, StorageInputs(r))
           size == VmRequest(r, e, Value(source.vcpu), Value(SourceClass(r.family)))
<1>1. r.ram \in Int
  BY DEF Typed
<1>2. CASE r.type = "ec2_vm"
  <2>1. CalculateRow(r, e).target = {} /\ CalculateRow(r, e).vm = VmRow(r, e).vm
    BY <1>2, VmTargets DEF CalculateRow
  <2>2. ASSUME NEW v \in VmRow(r, e).vm PROVE SizeFits(r, v, size)
    <3>1. CASE v.selected = {}
      BY <3>1 DEF SizeFits
    <3>2. CASE v.selected # {}
      <4>1. /\ source.vcpu # {} /\ v.selected = SelectVmTarget(size).selected
            /\ v.candidates = SelectVmTarget(size).candidates
        BY <3>2, VmTargets
      <4>2. Value(source.vcpu) \in Int
        BY <4>1, SourcesSized
      <4>3. size.memory = r.ram /\ size.vcpu = Value(source.vcpu)
        BY DEF VmRequest
      <4>4. \A i \in DOMAIN size.volumes : /\ size.volumes[i].capacity \in Int
                                            /\ size.volumes[i].iops \in Int
                                            /\ size.volumes[i].throughput \in Int
        BY <1>2, VmRequestTyped
      <4> HIDE DEF size, source
      <4> QED
        BY <1>1, <4>1, <4>2, <4>3, <4>4, SelectedSizeFits
    <3> QED
      BY <3>1, <3>2
  <2> QED
    BY <2>1, <2>2
<1>3. CASE r.type # "ec2_vm"
  <2>1. CalculateRow(r, e).vm = {} /\ CalculateRow(r, e).target = MiRow(r, e).target
    BY <1>3, MiTargets DEF CalculateRow
  <2>2. ASSUME NEW t \in MiRow(r, e).target PROVE ShapeFits(shape, t)
    <3>1. source.vcpu # {} /\ t = SelectTarget(shape)
      BY MiTargets
    <3>2. Value(source.vcpu) \in Nat /\ Or0(source.iops) \in Nat
      BY <1>3, <3>1, SourcesSized
    <3>3. /\ shape.vcpu = Value(source.vcpu) /\ shape.memory = r.ram /\ shape.iops = Or0(source.iops)
      BY DEF MiRequest
    <3> HIDE DEF shape, source
    <3>4. shape.vcpu \in Nat /\ shape.memory \in Int /\ shape.iops \in Int
      BY <1>1, <3>2, <3>3
    <3> QED
      BY <3>1, <3>4, SelectedShapeFits
  <2> QED
    BY <2>1, <2>2
<1> QED
  BY <1>2, <1>3

-----------------------------------------------------------------------------
(* A request for an estimate.                                              *)

RowsOf(p, e) == {CalculateRow(r, e) : r \in Range(p.resources)}
BeforeRows == {"refresh", "resolve_aws", "resolve_azure", "validate"}

\* the snapshots are what their own content makes, and there are no rows before there are inputs
EstimateInv ==
  /\ project \in Projects
  /\ input = [p \in Providers |-> input[p]]
  /\ \A s \in input.aws : s \in StoredAws(s)
  /\ \A s \in input.azure : s \in StoredAzure(s)
  /\ phase \in BeforeRows => rows = <<>>
  /\ rows \in Seq(RowsOf(project, Estimate)) /\ Len(rows) <= Len(project.resources)
  /\ \A i \in DOMAIN rows : rows[i] = CalculateRow(project.resources[i], Estimate)

LEMMA StoredIsUsable ==
  ASSUME NEW s, s \in StoredAws(s) \/ s \in StoredAzure(s)
  PROVE  s.status \in UsableStatuses
<1>1. MetadataErrors(Metadata(s)) = {}
  BY DEF StoredAws, StoredAzure, AwsSnapshot, AzureSnapshot, AwsErrors, AzureErrors
<1>2. Metadata(s).status \in UsableStatuses
  BY <1>1 DEF MetadataErrors
<1> QED
  BY <1>2 DEF Metadata

LEMMA EstimateBegins == Init => EstimateInv
<1> SUFFICES ASSUME Init PROVE EstimateInv
  OBVIOUS
<1>1. /\ project \in Projects /\ input = [p \in Providers |-> {}] /\ rows = <<>>
  BY DEF Init
<1>2. project.resources \in Seq(Range(project.resources))
  BY <1>1, ProjectsAssumption
<1>3. Len(rows) <= Len(project.resources)
  BY <1>1, <1>2
<1> QED
  BY <1>1, <1>3 DEF EstimateInv, Providers

LEMMA ResolveKeeps ==
  ASSUME EstimateInv, ResolveAws \/ ResolveAzure PROVE EstimateInv'
<1>1. /\ UNCHANGED <<project, rows>> /\ rows = <<>> 
      /\ \/ UNCHANGED input
         \/ input' = [input EXCEPT !["aws"] = Load["aws"]]
         \/ input' = [input EXCEPT !["azure"] = Load["azure"]]
  BY DEF EstimateInv, BeforeRows, ResolveAws, ResolveAzure, Resolve
<1>2. input' = [p \in Providers |-> input'[p]]
  BY <1>1 DEF EstimateInv
<1>3. /\ \A s \in input'.aws : s \in StoredAws(s)
      /\ \A s \in input'.azure : s \in StoredAzure(s)
  <2>1. /\ \A s \in Load["aws"] : s \in StoredAws(s)
        /\ \A s \in Load["azure"] : s \in StoredAzure(s)
    BY DEF Load, StoredAws, StoredAzure
  <2>2. DOMAIN input = {"aws", "azure"}
    BY DEF EstimateInv, Providers
  <2> HIDE DEF Load
  <2> QED
    BY <1>1, <2>1, <2>2 DEF EstimateInv
<1> QED
  BY <1>1, <1>2, <1>3 DEF EstimateInv

LEMMA CalculateKeeps ==
  ASSUME EstimateInv, CalculateResource PROVE EstimateInv'
<1>1. /\ UNCHANGED <<project, input>> /\ phase \notin BeforeRows /\ phase' \notin BeforeRows
      /\ Len(rows) < Len(project.resources)
      /\ \/ UNCHANGED rows
         \/ rows' = Append(rows, CalculateRow(project.resources[Len(rows) + 1], Estimate))
  BY DEF CalculateResource, Panic, BeforeRows, Refuse, Answer
<1>2. Estimate' = Estimate /\ RowsOf(project, Estimate)' = RowsOf(project, Estimate)
  BY <1>1 DEF Estimate, RowsOf
<1>3. project.resources \in Seq(Range(project.resources))
  BY ProjectsAssumption DEF EstimateInv
<1>4. CASE UNCHANGED rows
  BY <1>1, <1>2, <1>4 DEF EstimateInv
<1>5. CASE rows' = Append(rows, CalculateRow(project.resources[Len(rows) + 1], Estimate))
  <2> DEFINE S == RowsOf(project, Estimate)
             row == CalculateRow(project.resources[Len(rows) + 1], Estimate)
  <2>1. rows \in Seq(S) /\ Len(rows) \in Nat /\ Len(project.resources) \in Nat
    BY <1>3 DEF EstimateInv
  <2>2. Len(rows) + 1 \in DOMAIN project.resources
    BY <1>1, <1>3, <2>1
  <2>3. row \in S
    BY <2>2 DEF RowsOf, Range
  <2>4. \A i \in DOMAIN rows : rows[i] = CalculateRow(project.resources[i], Estimate)
    BY DEF EstimateInv
  <2> DEFINE Of(i) == CalculateRow(project.resources[i], Estimate)
  <2>5. row = Of(Len(rows) + 1) /\ \A i \in DOMAIN rows : rows[i] = Of(i)
    BY <2>4
  <2> HIDE DEF S, row, Of
  <2>6. /\ rows' \in Seq(S) /\ Len(rows') = Len(rows) + 1
        /\ \A i \in DOMAIN rows' : rows'[i] = Of(i)
    BY <1>5, <2>1, <2>3, <2>5 DEF row
  <2>7. \A i \in DOMAIN rows' : rows'[i] = CalculateRow(project'.resources[i], Estimate')
    BY <1>1, <1>2, <2>6 DEF Of
  <2>8. rows' \in Seq(RowsOf(project, Estimate)')
    BY <1>2, <2>6 DEF S
  <2>9. Len(rows') <= Len(project'.resources)
    BY <1>1, <2>1, <2>6
  <2> QED
    BY <1>1, <2>7, <2>8, <2>9 DEF EstimateInv
<1> QED
  BY <1>1, <1>4, <1>5

LEMMA EstimateGoesOn == EstimateInv /\ [Next]_vars => EstimateInv'
<1> SUFFICES ASSUME EstimateInv, [Next]_vars PROVE EstimateInv'
  OBVIOUS
<1>1. CASE Refresh \/ Busy \/ Validate \/ Finish \/ CalculateSqlPayg \/ UNCHANGED vars
  <2>1. UNCHANGED <<project, input, rows>> /\ (phase' \in BeforeRows => phase \in BeforeRows)
    <3>1. CASE Refresh
      BY <3>1 DEF Refresh, BeforeRows
    <3>2. CASE Busy
      BY <3>2 DEF Busy, Refuse, Answer, BeforeRows
    <3>3. CASE Validate
      BY <3>3 DEF Validate, Refuse, Answer, BeforeRows
    <3>4. CASE Finish
      BY <3>4 DEF Finish, Panic, Answer, BeforeRows
    <3>5. CASE CalculateSqlPayg
      BY <3>5 DEF CalculateSqlPayg, Panic, Refuse, Answer, BeforeRows
    <3>6. CASE UNCHANGED vars
      BY <3>6 DEF vars
    <3> QED
      BY <1>1, <3>1, <3>2, <3>3, <3>4, <3>5, <3>6
  <2>2. Estimate' = Estimate /\ RowsOf(project, Estimate)' = RowsOf(project, Estimate)
    BY <2>1 DEF Estimate, RowsOf
  <2> QED
    BY <2>1, <2>2 DEF EstimateInv
<1>2. CASE ResolveAws \/ ResolveAzure
  BY <1>2, ResolveKeeps
<1>3. CASE CalculateResource
  BY <1>3, CalculateKeeps
<1> QED
  BY <1>1, <1>2, <1>3 DEF Next

LEMMA EstimateExplains == EstimateInv => RowsExplained
<1> SUFFICES ASSUME EstimateInv, NEW i \in DOMAIN rows PROVE RowExplained(rows[i])
  BY DEF RowsExplained
<1>1. UsableEstimate(Estimate)
  BY StoredIsUsable DEF EstimateInv, UsableEstimate, Estimate
<1>2. project.resources[i].type \in AwsTypes \cup {"on_prem"}
  <2>1. project.resources \in Seq(Range(project.resources))
    BY ProjectsAssumption DEF EstimateInv
  <2>2. i \in DOMAIN project.resources
    BY <2>1 DEF EstimateInv
  <2>3. project.resources[i] \in Range(project.resources)
    BY <2>2 DEF Range
  <2> QED
    BY <2>3, ProjectsAssumption DEF EstimateInv, Typed
<1>3. rows[i] = CalculateRow(project.resources[i], Estimate)
  BY DEF EstimateInv
<1> QED
  BY <1>1, <1>2, <1>3, CalculatedRowExplained

LEMMA EstimateFits == EstimateInv => TargetsFit
<1> SUFFICES ASSUME EstimateInv, NEW i \in DOMAIN rows
             PROVE  LET r == project.resources[i]
                        source == ResolveSource(r, Estimate)
                    IN /\ \A t \in rows[i].target : ShapeFits(MiRequest(r, Estimate, source, StorageInputs(r)), t)
                       /\ \A v \in rows[i].vm :
                            SizeFits(r, v, VmRequest(r, Estimate, Value(source.vcpu), Value(SourceClass(r.family))))
  BY DEF TargetsFit
<1>1. project \in Projects /\ i \in 1..Len(project.resources)
  <2>1. project.resources \in Seq(Range(project.resources))
    BY ProjectsAssumption DEF EstimateInv
  <2> QED
    BY <2>1 DEF EstimateInv
<1>2. Typed(project.resources[i])
  BY <1>1, ResourcesTyped
<1>3. \A s \in Estimate.aws : s \in StoredAws(s)
  BY DEF EstimateInv, Estimate
<1>4. rows[i] = CalculateRow(project.resources[i], Estimate)
  BY DEF EstimateInv
<1> QED
  BY <1>2, <1>3, <1>4, CalculatedTargetsFit

-----------------------------------------------------------------------------
\* how many numbers of a finite set come before one of its members
Rnk(S, x) == Cardinality({y \in S : y < x})

LEMMA RankType ==
  ASSUME NEW S \in SUBSET Int, IsFiniteSet(S), NEW x \in S
  PROVE  /\ Rnk(S, x) \in 0..(Cardinality(S) - 1)
         /\ \A z \in S : x < z => Rnk(S, x) < Rnk(S, z)
<1>1. Cardinality(S) \in Nat
  BY FS_CardinalityType
<1>2. ASSUME NEW T, NEW U, IsFiniteSet(U), T \subseteq U, x \in U, x \notin T
      PROVE  Cardinality(T) \in Nat /\ Cardinality(U) \in Nat /\ Cardinality(T) < Cardinality(U)
  <2>1. Cardinality(T) <= Cardinality(U) /\ (Cardinality(T) = Cardinality(U) => T = U) /\ IsFiniteSet(T)
    BY <1>2, FS_Subset
  <2>2. Cardinality(T) \in Nat /\ Cardinality(U) \in Nat
    BY <1>2, <2>1, FS_CardinalityType
  <2> QED
    BY <1>2, <2>1, <2>2
<1>3. Rnk(S, x) \in Nat /\ Rnk(S, x) < Cardinality(S)
  <2>1. {y \in S : y < x} \subseteq S /\ x \notin {y \in S : y < x}
    OBVIOUS
  <2> QED
    BY <1>2, <2>1 DEF Rnk
<1>4. ASSUME NEW z \in S, x < z PROVE Rnk(S, x) < Rnk(S, z)
  <2> DEFINE T == {y \in S : y < x}  U == {y \in S : y < z}
  <2>1. T \subseteq U /\ x \in U /\ x \notin T
    <3>1. x \in Int /\ z \in Int /\ \A y \in S : y \in Int
      OBVIOUS
    <3>2. ASSUME NEW y \in S, y < x PROVE y < z
      <4>1. ASSUME NEW a \in Int, NEW b \in Int, NEW c \in Int, a < b, b < c PROVE a < c
        BY <4>1
      <4> QED
        BY <1>4, <3>1, <3>2, <4>1
    <3>3. ~(x < x)
      BY <3>1
    <3>4. T \subseteq U
      BY <3>2
    <3> QED
      BY <1>4, <3>3, <3>4
  <2>2. IsFiniteSet(U)
    BY FS_Subset
  <2> HIDE DEF T, U
  <2>3. Cardinality(T) < Cardinality(U)
    BY <1>2, <2>1, <2>2
  <2> QED
    BY <2>3 DEF Rnk, T, U
<1> QED
  BY <1>1, <1>3, <1>4

LEMMA RangeIs ==
  ASSUME NEW f, NEW S, \A i \in DOMAIN f : f[i] \in S, \A x \in S : \E i \in DOMAIN f : f[i] = x
  PROVE  Range(f) = S
<1>1. Range(f) \subseteq S
  BY DEF Range
<1>2. S \subseteq Range(f)
  BY DEF Range
<1> QED
  BY <1>1, <1>2

\* the numbers of a finite set in order, each once
LEMMA AscendingLists ==
  ASSUME NEW S \in SUBSET Int, IsFiniteSet(S)
  PROVE  /\ Ascending(S) \in Seq(S) /\ Cardinality(S) \in Nat /\ Len(Ascending(S)) = Cardinality(S)
         /\ Range(Ascending(S)) = S
         /\ \A i, j \in DOMAIN Ascending(S) : Ascending(S)[i] = Ascending(S)[j] => i = j
<1> DEFINE n == Cardinality(S)
           rank == [x \in S |-> Rnk(S, x)]
<1>1. n \in Nat
  BY FS_CardinalityType
<1>2. rank \in Injection(S, 0..(n - 1))
  <2>1. \A x \in S : Rnk(S, x) \in 0..(n - 1)
    BY RankType
  <2>2. ASSUME NEW x \in S, NEW z \in S, Rnk(S, x) = Rnk(S, z) PROVE x = z
    <3>1. ~(x < z) /\ ~(z < x)
      BY <2>1, <2>2, RankType
    <3> QED
      BY <3>1
  <2> QED
    BY <2>1, <2>2 DEF Injection, IsInjective
<1>3. rank \in Surjection(S, 0..(n - 1))
  <2>1. IsFiniteSet(0..(n - 1)) /\ Cardinality(0..(n - 1)) = n
    BY <1>1, FS_Interval
  <2> HIDE DEF rank
  <2> QED
    BY <1>2, <2>1, FS_Injection
<1>4. \A k \in 0..(n - 1) : \E x \in S : Rnk(S, x) = k
  BY <1>3 DEF Surjection
<1> DEFINE Nth(i) == CHOOSE x \in S : Rnk(S, x) = i - 1
<1>5. \A i \in 1..n : Nth(i) \in S /\ Rnk(S, Nth(i)) = i - 1
  <2> TAKE i \in 1..n
  <2>1. i - 1 \in 0..(n - 1)
    BY <1>1
  <2> QED
    BY <1>4, <2>1
<1>6. Ascending(S) = [i \in 1..n |-> Nth(i)]
  BY DEF Ascending, Rnk
<1>7. \A x \in S : \E i \in 1..n : Nth(i) = x
  <2> TAKE x \in S
  <2>1. Rnk(S, x) \in 0..(n - 1)
    BY RankType
  <2>2. Rnk(S, x) + 1 \in 1..n /\ Rnk(S, Nth(Rnk(S, x) + 1)) = Rnk(S, x)
    BY <1>1, <1>5, <2>1
  <2>3. Nth(Rnk(S, x) + 1) = x
    BY <1>2, <1>5, <2>2 DEF Injection, IsInjective
  <2> QED
    BY <2>2, <2>3
<1> HIDE DEF n, Nth, rank
<1>8. Ascending(S) \in Seq(S) /\ Len(Ascending(S)) = n /\ DOMAIN Ascending(S) = 1..n
  BY <1>1, <1>5, <1>6
<1>9. Range(Ascending(S)) = S
  <2>1. \A i \in 1..n : Ascending(S)[i] = Nth(i) /\ Nth(i) \in S
    BY <1>5, <1>6
  <2>2. \A x \in S : \E i \in 1..n : Ascending(S)[i] = x
    BY <1>7, <2>1
  <2> QED
    <3> DEFINE A == Ascending(S)
    <3>1. DOMAIN A = 1..n
      BY <1>8
    <3>2. \A i \in 1..n : A[i] \in S
      BY <2>1
    <3>3. \A x \in S : \E i \in 1..n : A[i] = x
      BY <2>2
    <3> HIDE DEF A
    <3>4. Range(A) = S
      BY <3>1, <3>2, <3>3, RangeIs
    <3> QED
      BY <3>4 DEF A
<1>10. \A i, j \in 1..n : Nth(i) = Nth(j) => i = j
  BY <1>1, <1>5
<1> QED
  BY <1>1, <1>6, <1>8, <1>9, <1>10 DEF n

LEMMA RangeFinite ==
  ASSUME NEW s, NEW n \in Nat, DOMAIN s = 1..n
  PROVE  IsFiniteSet(Range(s))
<1> DEFINE f == [i \in 1..n |-> s[i]]
<1>1. f \in Surjection(1..n, Range(s))
  <2>1. \A i \in 1..n : s[i] \in Range(s)
    BY DEF Range
  <2>2. \A t \in Range(s) : \E i \in 1..n : s[i] = t
    BY DEF Range
  <2>3. f \in [1..n -> Range(s)]
    BY <2>1
  <2>4. \A i \in 1..n : f[i] = s[i]
    OBVIOUS
  <2> HIDE DEF f
  <2> QED
    BY <2>2, <2>3, <2>4 DEF Surjection
<1>2. IsFiniteSet(1..n)
  BY FS_Interval
<1> QED
  BY <1>1, <1>2, FS_Surjection

\* numbers that are put in order stay so
LEMMA DedupTwice ==
  ASSUME NEW s \in Seq(Int)
  PROVE  Dedup(s) \in Seq(Int) /\ Dedup(Dedup(s)) = Dedup(s)
<1>1. Range(s) \in SUBSET Int /\ IsFiniteSet(Range(s))
  <2>1. Len(s) \in Nat /\ DOMAIN s = 1..Len(s) /\ \A i \in DOMAIN s : s[i] \in Int
    OBVIOUS
  <2> QED
    BY <2>1, RangeFinite DEF Range
<1>2. Ascending(Range(s)) \in Seq(Range(s)) /\ Range(Ascending(Range(s))) = Range(s)
  BY <1>1, AscendingLists
<1>3. Ascending(Range(s)) \in Seq(Int)
  BY <1>1, <1>2
<1> QED
  BY <1>2, <1>3 DEF Dedup

\* records that can be put into the canonical form
Normal(R) ==
  \A r \in R : /\ r.key \in Int /\ Normalized(r) \in R /\ Normalized(r).key = r.key
               /\ Normalized(r).url = r.url /\ Normalized(Normalized(r)) = Normalized(r)
DistinctKeys(rates) == \A i, j \in DOMAIN rates : rates[i].key = rates[j].key => i = j
\* the same rates in another order, each in its canonical form
Reorders(p, c, rates) ==
  /\ p \in [DOMAIN c -> DOMAIN rates]
  /\ \A i, j \in DOMAIN c : p[i] = p[j] => i = j
  /\ \A k \in DOMAIN rates : \E i \in DOMAIN c : p[i] = k
  /\ \A i \in DOMAIN c : c[i] = Normalized(rates[p[i]])

LEMMA CanonicalReorders ==
  ASSUME NEW R, Normal(R), NEW rates \in Seq(R), DistinctKeys(rates)
  PROVE  /\ Canonical(rates) \in Seq(R) /\ DistinctKeys(Canonical(rates))
         /\ \E p : Reorders(p, Canonical(rates), rates)
         /\ \A r \in Records(Canonical(rates)) : \E x \in Records(rates) : r = Normalized(x)
         /\ {r.key : r \in Records(Canonical(rates))} = {r.key : r \in Records(rates)}
         /\ Ascending({r.key : r \in Records(rates)}) \in Seq(Int)
         /\ DOMAIN Canonical(rates) = DOMAIN Ascending({r.key : r \in Records(rates)})
         /\ \A n \in DOMAIN Canonical(rates) :
              Canonical(rates)[n].key = Ascending({r.key : r \in Records(rates)})[n]
<1> DEFINE K == {r.key : r \in Records(rates)}
           keys == Ascending(K)
           Of(n) == CHOOSE r \in Records(rates) : r.key = keys[n]
           c == Canonical(rates)
           D == 1..Len(rates)
<1>1. Len(rates) \in Nat /\ DOMAIN rates = D /\ \A i \in D : rates[i] \in R /\ rates[i].key \in Int
  BY DEF Normal
<1>2. Records(rates) = {rates[i] : i \in D}
  BY <1>1 DEF Records, Range
<1>3. K = {rates[i].key : i \in D} /\ K \in SUBSET Int
  BY <1>1, <1>2
<1>4. IsFiniteSet(K)
  <2> DEFINE k == [i \in D |-> rates[i].key]
  <2>1. DOMAIN k = 1..Len(rates) /\ \A i \in D : k[i] \in K
    BY <1>3
  <2>2. \A x \in K : \E i \in D : k[i] = x
    BY <1>3
  <2> HIDE DEF k, K
  <2>3. Range(k) = K
    BY <2>1, <2>2, RangeIs
  <2> QED
    BY <1>1, <2>1, <2>3, RangeFinite
<1> HIDE DEF K
<1>5. /\ keys \in Seq(K) /\ Range(keys) = K
      /\ \A i, j \in DOMAIN keys : keys[i] = keys[j] => i = j
  BY <1>3, <1>4, AscendingLists
<1> HIDE DEF keys
<1>6. Len(keys) \in Nat /\ DOMAIN keys = 1..Len(keys) /\ \A n \in 1..Len(keys) : keys[n] \in K
  BY <1>5
<1>7. \A n \in DOMAIN keys : \E i \in D : rates[i] = Of(n) /\ rates[i].key = keys[n]
  BY <1>2, <1>3, <1>6
<1> DEFINE p == [n \in DOMAIN keys |-> CHOOSE i \in D : rates[i] = Of(n) /\ rates[i].key = keys[n]]
<1>8. \A n \in DOMAIN keys : p[n] \in D /\ rates[p[n]] = Of(n) /\ rates[p[n]].key = keys[n]
  BY <1>7
<1>9. c = [n \in DOMAIN keys |-> Normalized(Of(n))]
  BY DEF Canonical, K, keys
<1> HIDE DEF Of, p, c
<1>10. DOMAIN c = DOMAIN keys /\ \A n \in DOMAIN keys : c[n] = Normalized(rates[p[n]])
  BY <1>8, <1>9
<1>11. \A n \in DOMAIN keys : c[n] \in R /\ c[n].key = keys[n]
  BY <1>1, <1>8, <1>10 DEF Normal
<1>12. c \in Seq(R)
  <2>1. c = [n \in 1..Len(keys) |-> c[n]]
    BY <1>6, <1>9
  <2>2. \A n \in 1..Len(keys) : c[n] \in R
    BY <1>6, <1>11
  <2> QED
    BY <1>6, <2>1, <2>2
<1>13. \A i, j \in DOMAIN c : p[i] = p[j] => i = j
  BY <1>5, <1>8, <1>10
<1>14. \A k \in DOMAIN rates : \E i \in DOMAIN c : p[i] = k
  <2> TAKE k \in DOMAIN rates
  <2>1. rates[k].key \in K
    BY <1>1, <1>3
  <2>2. PICK i \in DOMAIN keys : keys[i] = rates[k].key
    BY <1>5, <2>1 DEF Range
  <2>3. p[i] = k
    BY <1>1, <1>8, <2>2 DEF DistinctKeys
  <2> QED
    BY <1>10, <2>3
<1>15. p \in [DOMAIN c -> DOMAIN rates]
  BY <1>1, <1>8, <1>10 DEF p
<1>16. Reorders(p, c, rates)
  BY <1>10, <1>13, <1>14, <1>15 DEF Reorders
<1>17. DistinctKeys(c)
  BY <1>5, <1>10, <1>11 DEF DistinctKeys
<1>18. \A r \in Records(c) : \E x \in Records(rates) : r = Normalized(x)
  BY <1>2, <1>8, <1>10 DEF Records, Range
<1>19. {r.key : r \in Records(c)} = K
  <2>1. Records(c) = {c[n] : n \in DOMAIN keys}
    BY <1>10 DEF Records, Range
  <2>2. {r.key : r \in Records(c)} = {keys[n] : n \in DOMAIN keys}
    BY <1>11, <2>1
  <2> QED
    BY <1>5, <2>2 DEF Range
<1>20. keys \in Seq(Int)
  BY <1>3, <1>5
<1> QED
  BY <1>10, <1>11, <1>12, <1>16, <1>17, <1>18, <1>19, <1>20 DEF K, keys, c

\* what is in the canonical form stays as it is
LEMMA CanonicalTwice ==
  ASSUME NEW R, Normal(R), NEW rates \in Seq(R), DistinctKeys(rates)
  PROVE  Canonical(Canonical(rates)) = Canonical(rates)
<1> DEFINE c == Canonical(rates)
           keys == Ascending({r.key : r \in Records(rates)})
           Of(n) == CHOOSE r \in Records(c) : r.key = keys[n]
<1>1. /\ c \in Seq(R) /\ DistinctKeys(c) /\ {r.key : r \in Records(c)} = {r.key : r \in Records(rates)}
      /\ \A r \in Records(c) : \E x \in Records(rates) : r = Normalized(x)
      /\ DOMAIN c = DOMAIN keys /\ \A n \in DOMAIN c : c[n].key = keys[n]
  BY CanonicalReorders
<1>2. Canonical(c) = [n \in DOMAIN keys |-> Normalized(Of(n))]
  <2> HIDE DEF c
  <2> DEFINE K == {r.key : r \in Records(c)}
  <2>1. Canonical(c) = [n \in DOMAIN Ascending(K) |-> Normalized(CHOOSE r \in Records(c) : r.key = Ascending(K)[n])]
    BY DEF Canonical
  <2>2. Ascending(K) = keys
    BY <1>1
  <2> HIDE DEF K, keys
  <2> QED
    BY <2>1, <2>2
<1>3. ASSUME NEW n \in DOMAIN c PROVE Normalized(Of(n)) = c[n]
  <2> HIDE DEF c, keys
  <2>1. c[n] \in Records(c) /\ c[n].key = keys[n]
    BY <1>1, <1>3 DEF Records, Range
  <2>2. Of(n) \in Records(c) /\ Of(n).key = keys[n]
    BY <2>1
  <2>3. PICK m \in DOMAIN c : Of(n) = c[m]
    BY <2>2 DEF Records, Range
  <2>4. m = n
    BY <1>1, <2>1, <2>2, <2>3 DEF DistinctKeys
  <2>5. PICK x \in Records(rates) : c[n] = Normalized(x)
    BY <1>1, <2>1
  <2>6. x \in R
    BY <2>5 DEF Records, Range
  <2>7. Normalized(c[n]) = c[n]
    BY <2>5, <2>6 DEF Normal
  <2> QED
    BY <2>3, <2>4, <2>7
<1>4. c = [n \in DOMAIN keys |-> c[n]]
  BY <1>1
<1> HIDE DEF c, keys, Of
<1> QED
  BY <1>1, <1>2, <1>3, <1>4 DEF c

-----------------------------------------------------------------------------
LEMMA AwsRatesNormal ==
  Normal(AwsEc2RateRecord) /\ Normal(AwsRdsRateRecord) /\ Normal(AwsEbsRateRecord)
<1>1. Normal(AwsEc2RateRecord)
  BY DedupTwice DEF Normal, Normalized, AwsEc2RateRecord
<1>2. Normal(AwsRdsRateRecord)
  BY DedupTwice DEF Normal, Normalized, AwsRdsRateRecord
<1>3. Normal(AwsEbsRateRecord)
  BY DedupTwice DEF Normal, Normalized, AwsEbsRateRecord
<1> QED
  BY <1>1, <1>2, <1>3

LEMMA AzureRatesNormal ==
  Normal(AzureMiRateRecord) /\ Normal(AzureVmRateRecord) /\ Normal(AzureManagedDiskRateRecord)
<1>1. Normal(AzureMiRateRecord)
  BY DedupTwice DEF Normal, Normalized, AzureMiRateRecord
<1>2. Normal(AzureVmRateRecord)
  BY DedupTwice DEF Normal, Normalized, AzureVmRateRecord
<1>3. Normal(AzureManagedDiskRateRecord)
  BY DedupTwice DEF Normal, Normalized, AzureManagedDiskRateRecord
<1> QED
  BY <1>1, <1>2, <1>3

\* no key of one service is a key of another
KeysApart(a, b) == \A i \in DOMAIN a, j \in DOMAIN b : a[i].key # b[j].key
KeysValid(rates) ==
  /\ \A i \in DOMAIN rates : rates[i].key # 0 /\ rates[i].url # ""
  /\ DistinctKeys(rates)

LEMMA KeysAreValid == ASSUME NEW rates PROVE (KeyErrors(rates) = {}) <=> KeysValid(rates)
BY DEF KeyErrors, KeysValid, DistinctKeys

LEMMA KeysOfTwo ==
  ASSUME NEW A, NEW B, NEW a \in Seq(A), NEW b \in Seq(B)
  PROVE  KeysValid(a \o b) <=> KeysValid(a) /\ KeysValid(b) /\ KeysApart(a, b)
<1> DEFINE m == Len(a)
           n == Len(b)
           c == a \o b
<1>1. m \in Nat /\ n \in Nat /\ DOMAIN a = 1..m /\ DOMAIN b = 1..n
  OBVIOUS
<1>2. DOMAIN c = 1..(m + n)
  BY <1>1
<1>3. \A i \in 1..m : c[i] = a[i]
  BY <1>1
<1>4. \A j \in 1..n : c[m + j] = b[j]
  BY <1>1
<1> HIDE DEF c, m, n
<1>5. \A i \in 1..m : i \in DOMAIN c
  BY <1>1, <1>2
<1>6. \A j \in 1..n : m + j \in DOMAIN c
  BY <1>1, <1>2
<1>7. \A i \in DOMAIN c : i \in 1..m \/ \E j \in 1..n : i = m + j
  <2> TAKE i \in DOMAIN c
  <2>1. CASE i <= m
    BY <1>1, <1>2, <2>1
  <2>2. CASE ~(i <= m)
    <3>1. i - m \in 1..n /\ i = m + (i - m)
      BY <1>1, <1>2, <2>2
    <3> QED
      BY <3>1
  <2> QED
    BY <2>1, <2>2
<1>8. ASSUME KeysValid(c) PROVE KeysValid(a) /\ KeysValid(b) /\ KeysApart(a, b)
  <2>1. KeysValid(a)
    BY <1>1, <1>3, <1>5, <1>8 DEF KeysValid, DistinctKeys
  <2>2. KeysValid(b)
    <3>1. \A j \in 1..n : b[j].key # 0 /\ b[j].url # ""
      BY <1>4, <1>6, <1>8 DEF KeysValid
    <3>2. ASSUME NEW j \in 1..n, NEW k \in 1..n, b[j].key = b[k].key PROVE j = k
      <4>1. m + j = m + k
        BY <1>4, <1>6, <1>8, <3>2 DEF KeysValid, DistinctKeys
      <4> QED
        BY <1>1, <4>1
    <3> QED
      BY <1>1, <3>1, <3>2 DEF KeysValid, DistinctKeys
  <2>3. ASSUME NEW i \in 1..m, NEW j \in 1..n PROVE a[i].key # b[j].key
    <3>1. i # m + j
      BY <1>1
    <3> QED
      BY <1>3, <1>4, <1>5, <1>6, <1>8, <3>1 DEF KeysValid, DistinctKeys
  <2> QED
    BY <1>1, <2>1, <2>2, <2>3 DEF KeysApart
<1>9. ASSUME KeysValid(a) /\ KeysValid(b) /\ KeysApart(a, b) PROVE KeysValid(c)
  <2>1. \A i \in DOMAIN c : c[i].key # 0 /\ c[i].url # ""
    BY <1>1, <1>3, <1>4, <1>7, <1>9 DEF KeysValid
  <2>2. ASSUME NEW i \in DOMAIN c, NEW j \in DOMAIN c, c[i].key = c[j].key PROVE i = j
    <3>1. CASE i \in 1..m /\ j \in 1..m
      BY <1>1, <1>3, <1>9, <2>2, <3>1 DEF KeysValid, DistinctKeys
    <3>2. ASSUME NEW k \in 1..n, j = m + k, i \in 1..m PROVE FALSE
      BY <1>1, <1>3, <1>4, <1>9, <2>2, <3>2 DEF KeysApart
    <3>3. ASSUME NEW k \in 1..n, i = m + k, j \in 1..m PROVE FALSE
      BY <1>1, <1>3, <1>4, <1>9, <2>2, <3>3 DEF KeysApart
    <3>4. ASSUME NEW k \in 1..n, i = m + k, NEW l \in 1..n, j = m + l PROVE i = j
      <4>1. b[k].key = b[l].key
        BY <1>4, <2>2, <3>4
      <4>2. k = l
        BY <1>1, <1>9, <4>1 DEF KeysValid, DistinctKeys
      <4> QED
        BY <3>4, <4>2
    <3> QED
      BY <1>7, <3>1, <3>2, <3>3, <3>4
  <2> QED
    BY <2>1, <2>2 DEF KeysValid, DistinctKeys
<1> QED
  BY <1>8, <1>9 DEF c

LEMMA KeysOfThree ==
  ASSUME NEW A, NEW B, NEW C, NEW a \in Seq(A), NEW b \in Seq(B), NEW c \in Seq(C)
  PROVE  (KeyErrors(a \o b \o c) = {}) <=>
           /\ KeysValid(a) /\ KeysValid(b) /\ KeysValid(c)
           /\ KeysApart(a, b) /\ KeysApart(a, c) /\ KeysApart(b, c)
<1>1. a \o b \in Seq(A \cup B)
  <2>1. a \in Seq(A \cup B) /\ b \in Seq(A \cup B)
    OBVIOUS
  <2> QED
    BY <2>1
<1>2. KeysApart(a \o b, c) <=> KeysApart(a, c) /\ KeysApart(b, c)
  <2>1. ASSUME KeysApart(a \o b, c) PROVE KeysApart(a, c) /\ KeysApart(b, c)
    <3>1. \A i \in DOMAIN a : i \in DOMAIN (a \o b) /\ (a \o b)[i] = a[i]
      OBVIOUS
    <3>2. \A j \in DOMAIN b : Len(a) + j \in DOMAIN (a \o b) /\ (a \o b)[Len(a) + j] = b[j]
      OBVIOUS
    <3> QED
      BY <2>1, <3>1, <3>2 DEF KeysApart
  <2>2. ASSUME KeysApart(a, c), KeysApart(b, c), NEW i \in DOMAIN (a \o b), NEW k \in DOMAIN c
        PROVE  (a \o b)[i].key # c[k].key
    <3>1. CASE i \in DOMAIN a
      BY <2>2, <3>1 DEF KeysApart
    <3>2. CASE i \notin DOMAIN a
      <4>1. i - Len(a) \in DOMAIN b /\ (a \o b)[i] = b[i - Len(a)]
        BY <3>2
      <4> QED
        BY <2>2, <4>1 DEF KeysApart
    <3> QED
      BY <3>1, <3>2
  <2> QED
    BY <2>1, <2>2 DEF KeysApart
<1>3. KeysValid((a \o b) \o c) <=> KeysValid(a \o b) /\ KeysValid(c) /\ KeysApart(a \o b, c)
  BY <1>1, KeysOfTwo
<1>4. KeysValid(a \o b) <=> KeysValid(a) /\ KeysValid(b) /\ KeysApart(a, b)
  BY KeysOfTwo
<1> QED
  BY <1>2, <1>3, <1>4, KeysAreValid

LEMMA KeysReordered ==
  ASSUME NEW R, Normal(R), NEW rates \in Seq(R), KeysValid(rates)
  PROVE  KeysValid(Canonical(rates))
<1>1. \A i \in DOMAIN rates : rates[i] \in R
  OBVIOUS
<1>2. PICK p : Reorders(p, Canonical(rates), rates)
  BY CanonicalReorders DEF KeysValid
<1>3. \A i \in DOMAIN Canonical(rates) : Canonical(rates)[i].key # 0 /\ Canonical(rates)[i].url # ""
  <2> TAKE i \in DOMAIN Canonical(rates)
  <2>1. p[i] \in DOMAIN rates /\ Canonical(rates)[i] = Normalized(rates[p[i]])
    BY <1>2 DEF Reorders
  <2> DEFINE r == rates[p[i]]
  <2>2. r \in R /\ r.key # 0 /\ r.url # ""
    BY <1>1, <2>1 DEF KeysValid
  <2> HIDE DEF r
  <2>3. Normalized(r).key = r.key /\ Normalized(r).url = r.url
    BY <2>2 DEF Normal
  <2> QED
    BY <2>1, <2>2, <2>3 DEF r
<1>4. DistinctKeys(Canonical(rates))
  BY CanonicalReorders DEF KeysValid
<1> QED
  BY <1>3, <1>4 DEF KeysValid

LEMMA ApartReordered ==
  ASSUME NEW R, Normal(R), NEW a \in Seq(R), KeysValid(a),
         NEW S, Normal(S), NEW b \in Seq(S), KeysValid(b), KeysApart(a, b)
  PROVE  KeysApart(Canonical(a), Canonical(b))
<1>1. (\A i \in DOMAIN a : a[i] \in R) /\ (\A i \in DOMAIN b : b[i] \in S)
  OBVIOUS
<1>2. PICK p : Reorders(p, Canonical(a), a)
  BY CanonicalReorders DEF KeysValid
<1>3. PICK q : Reorders(q, Canonical(b), b)
  BY CanonicalReorders DEF KeysValid
<1>4. \A i \in DOMAIN Canonical(a) : \E k \in DOMAIN a : Canonical(a)[i].key = a[k].key
  BY <1>1, <1>2 DEF Reorders, Normal
<1>5. \A i \in DOMAIN Canonical(b) : \E k \in DOMAIN b : Canonical(b)[i].key = b[k].key
  BY <1>1, <1>3 DEF Reorders, Normal
<1> QED
  BY <1>4, <1>5 DEF KeysApart

\* the keys of three services stay what they are
LEMMA KeysOfThreeReordered ==
  ASSUME NEW A, NEW B, NEW C, Normal(A), Normal(B), Normal(C),
         NEW a \in Seq(A), NEW b \in Seq(B), NEW c \in Seq(C), KeyErrors(a \o b \o c) = {}
  PROVE  /\ KeyErrors(Canonical(a) \o Canonical(b) \o Canonical(c)) = {}
         /\ DistinctKeys(a) /\ DistinctKeys(b) /\ DistinctKeys(c)
<1>1. /\ KeysValid(a) /\ KeysValid(b) /\ KeysValid(c)
      /\ KeysApart(a, b) /\ KeysApart(a, c) /\ KeysApart(b, c)
  BY KeysOfThree
<1>2. DistinctKeys(a) /\ DistinctKeys(b) /\ DistinctKeys(c)
  BY <1>1 DEF KeysValid
<1>3. Canonical(a) \in Seq(A) /\ Canonical(b) \in Seq(B) /\ Canonical(c) \in Seq(C)
  BY <1>2, CanonicalReorders
<1>4. KeysValid(Canonical(a)) /\ KeysValid(Canonical(b)) /\ KeysValid(Canonical(c))
  BY <1>1, KeysReordered
<1>5. /\ KeysApart(Canonical(a), Canonical(b)) /\ KeysApart(Canonical(a), Canonical(c))
      /\ KeysApart(Canonical(b), Canonical(c))
  BY <1>1, ApartReordered
<1> QED
  BY <1>2, <1>3, <1>4, <1>5, KeysOfThree

-----------------------------------------------------------------------------
LEMMA AwsRatesStayValid ==
  /\ \A r \in AwsEc2RateRecord : ValidEc2Rate(r) => ValidEc2Rate(Normalized(r))
  /\ \A r \in AwsRdsRateRecord : ValidRdsRate(r) => ValidRdsRate(Normalized(r))
  /\ \A r \in AwsEbsRateRecord : ValidEbsRate(r) => ValidEbsRate(Normalized(r))
<1>1. \A r \in AwsEc2RateRecord : ValidEc2Rate(r) => ValidEc2Rate(Normalized(r))
  BY DEF AwsEc2RateRecord, Normalized, ValidEc2Rate, Positive
<1>2. \A r \in AwsRdsRateRecord : ValidRdsRate(r) => ValidRdsRate(Normalized(r))
  BY DEF AwsRdsRateRecord, Normalized, ValidRdsRate, Positive
<1>3. \A r \in AwsEbsRateRecord : ValidEbsRate(r) => ValidEbsRate(Normalized(r))
  <2> TAKE r \in AwsEbsRateRecord
  <2>1. /\ Normalized(r).type = r.type /\ Normalized(r).capacity = r.capacity
        /\ Normalized(r).includedIops = r.includedIops /\ Normalized(r).perIops = r.perIops
        /\ Normalized(r).tiers = r.tiers /\ Normalized(r).includedThroughput = r.includedThroughput
        /\ Normalized(r).perThroughput = r.perThroughput
    BY DEF AwsEbsRateRecord, Normalized
  <2> HIDE DEF Normalized
  <2> QED
    BY <2>1 DEF ValidEbsRate
<1> QED
  BY <1>1, <1>2, <1>3

LEMMA AwsIsStorable ==
  ASSUME NEW m \in SnapshotCreationMetadata, NEW ec2 \in Seq(AwsEc2RateRecord),
         NEW rds \in Seq(AwsRdsRateRecord), NEW ebs \in Seq(AwsEbsRateRecord),
         NEW s \in AwsSnapshot(m, ec2, rds, ebs)
  PROVE  /\ s \in StoredAws(s)
         /\ s.content.ec2 \in Seq(AwsEc2RateRecord) /\ s.content.rds \in Seq(AwsRdsRateRecord)
         /\ s.content.ebs \in Seq(AwsEbsRateRecord)
<1> DEFINE content == [provider |-> "aws", currency |-> m.currency, region |-> m.region,
                       version |-> m.version, ec2 |-> Canonical(ec2), rds |-> Canonical(rds),
                       ebs |-> Canonical(ebs)]
           made == [id |-> content, content |-> content, utc |-> m.utc, status |-> m.status,
                    warnings |-> Dedup(m.warnings)]
<1>1. AwsErrors(m, ec2, rds, ebs) = {} /\ s = made
  BY DEF AwsSnapshot
<1>2. /\ KeyErrors(ec2 \o rds \o ebs) = {} /\ MetadataErrors(m) = {}
      /\ \A r \in Records(ec2) : ValidEc2Rate(r)
      /\ \A r \in Records(rds) : ValidRdsRate(r)
      /\ \A r \in Records(ebs) : ValidEbsRate(r)
  BY <1>1 DEF AwsErrors
<1>3. /\ KeyErrors(Canonical(ec2) \o Canonical(rds) \o Canonical(ebs)) = {}
      /\ DistinctKeys(ec2) /\ DistinctKeys(rds) /\ DistinctKeys(ebs)
  BY <1>2, AwsRatesNormal, KeysOfThreeReordered
<1>4. /\ Canonical(ec2) \in Seq(AwsEc2RateRecord) /\ Canonical(Canonical(ec2)) = Canonical(ec2)
      /\ Canonical(rds) \in Seq(AwsRdsRateRecord) /\ Canonical(Canonical(rds)) = Canonical(rds)
      /\ Canonical(ebs) \in Seq(AwsEbsRateRecord) /\ Canonical(Canonical(ebs)) = Canonical(ebs)
  BY <1>3, AwsRatesNormal, CanonicalReorders, CanonicalTwice
<1>5. /\ \A r \in Records(ec2) : r \in AwsEc2RateRecord
      /\ \A r \in Records(rds) : r \in AwsRdsRateRecord
      /\ \A r \in Records(ebs) : r \in AwsEbsRateRecord
  BY DEF Records, Range
<1>6. /\ \A r \in Records(Canonical(ec2)) : \E x \in Records(ec2) : r = Normalized(x)
      /\ \A r \in Records(Canonical(rds)) : \E x \in Records(rds) : r = Normalized(x)
      /\ \A r \in Records(Canonical(ebs)) : \E x \in Records(ebs) : r = Normalized(x)
  BY <1>3, AwsRatesNormal, CanonicalReorders
<1>7. /\ \A r \in Records(Canonical(ec2)) : ValidEc2Rate(r)
      /\ \A r \in Records(Canonical(rds)) : ValidRdsRate(r)
      /\ \A r \in Records(Canonical(ebs)) : ValidEbsRate(r)
  BY <1>2, <1>5, <1>6, AwsRatesStayValid
<1> DEFINE n == Metadata(s)
<1>8. /\ s.content = content /\ s.content.ec2 = Canonical(ec2) /\ s.content.rds = Canonical(rds)
      /\ s.content.ebs = Canonical(ebs)
  BY <1>1
<1>9. /\ n.utc = m.utc /\ n.status = m.status /\ n.currency = m.currency /\ n.region = m.region
      /\ n.version = m.version /\ n.warnings = Dedup(m.warnings)
  BY <1>1 DEF Metadata
<1> HIDE DEF n
<1>10. MetadataErrors(n) = {}
  BY <1>2, <1>9 DEF MetadataErrors
<1>11. AwsErrors(n, Canonical(ec2), Canonical(rds), Canonical(ebs)) = {}
  BY <1>3, <1>7, <1>10 DEF AwsErrors
<1>12. Dedup(Dedup(m.warnings)) = Dedup(m.warnings)
  BY DedupTwice DEF SnapshotCreationMetadata
<1>13. AwsSnapshot(n, Canonical(ec2), Canonical(rds), Canonical(ebs)) = {made}
  BY <1>4, <1>9, <1>11, <1>12 DEF AwsSnapshot
<1> QED
  BY <1>1, <1>4, <1>8, <1>13 DEF StoredAws, n

LEMMA MiFields ==
  \A r \in AzureMiRateRecord :
    LET n == Normalized(r)
    IN /\ n.configuration = r.configuration /\ n.option = r.option /\ n.compute = r.compute
       /\ n.license = r.license /\ n.storage = r.storage /\ n.memory = r.memory
BY DEF Normalized, AzureMiRateRecord

LEMMA VmFields ==
  \A r \in AzureVmRateRecord :
    LET n == Normalized(r)
    IN /\ n.sku = r.sku /\ n.option = r.option /\ n.hourly = r.hourly
       /\ n.license = r.license /\ n.unit = r.unit /\ n.raw = r.raw
BY DEF Normalized, AzureVmRateRecord

LEMMA DiskFields ==
  \A r \in AzureManagedDiskRateRecord :
    LET n == Normalized(r)
    IN /\ n.offer = r.offer /\ n.tier = r.tier /\ n.dimension = r.dimension
       /\ n.rate = r.rate /\ n.unit = r.unit /\ n.raw = r.raw
BY DEF Normalized, AzureManagedDiskRateRecord

LEMMA MatrixReordered ==
  ASSUME NEW mi \in Seq(AzureMiRateRecord), NEW new, NEW p, Reorders(p, new, mi),
         NEW c, CompleteMatrix(mi, c)
  PROVE  CompleteMatrix(new, c)
<1> DEFINE of == OfConfiguration(mi, c)
           fresh == OfConfiguration(new, c)
<1>1. \A i \in DOMAIN mi : mi[i] \in AzureMiRateRecord
  OBVIOUS
<1>2. \A i \in DOMAIN new :
        /\ p[i] \in DOMAIN mi /\ new[i].configuration = mi[p[i]].configuration
        /\ new[i].option = mi[p[i]].option /\ new[i].compute = mi[p[i]].compute
        /\ new[i].license = mi[p[i]].license /\ new[i].storage = mi[p[i]].storage
        /\ new[i].memory = mi[p[i]].memory
  BY <1>1, MiFields DEF Reorders
<1>3. \A i \in fresh : p[i] \in of
  BY <1>2 DEF OfConfiguration
<1>4. \A k \in of : \E i \in fresh : p[i] = k
  BY <1>2 DEF OfConfiguration, Reorders
<1>5. \A i, j \in fresh : p[i] = p[j] => i = j
  BY DEF OfConfiguration, Reorders
<1>6. fresh \subseteq DOMAIN new
  BY DEF OfConfiguration
<1>7. /\ {mi[i].option : i \in of} = MiOptions
      /\ \A i, j \in of :
          /\ mi[i].option = mi[j].option => i = j
          /\ mi[i].storage = mi[j].storage /\ mi[i].memory = mi[j].memory
          /\ <<mi[i].option, mi[j].option>> \in MiPairs => MiPairMatches(mi[i], mi[j])
  BY DEF CompleteMatrix
<1> HIDE DEF of, fresh
<1>8. {new[i].option : i \in fresh} = MiOptions
  <2>1. \A i \in fresh : new[i].option \in MiOptions
    BY <1>2, <1>3, <1>6, <1>7
  <2>2. \A o \in MiOptions : \E i \in fresh : new[i].option = o
    BY <1>2, <1>4, <1>6, <1>7
  <2> QED
    BY <2>1, <2>2
<1>9. ASSUME NEW i \in fresh, NEW j \in fresh
      PROVE  /\ new[i].option = new[j].option => i = j
             /\ new[i].storage = new[j].storage /\ new[i].memory = new[j].memory
             /\ <<new[i].option, new[j].option>> \in MiPairs => MiPairMatches(new[i], new[j])
  <2>1. /\ mi[p[i]].option = mi[p[j]].option => p[i] = p[j]
        /\ mi[p[i]].storage = mi[p[j]].storage /\ mi[p[i]].memory = mi[p[j]].memory
        /\ <<mi[p[i]].option, mi[p[j]].option>> \in MiPairs => MiPairMatches(mi[p[i]], mi[p[j]])
    BY <1>3, <1>7
  <2>2. i \in DOMAIN new /\ j \in DOMAIN new
    BY <1>6
  <2> QED
    BY <1>2, <1>5, <2>1, <2>2 DEF MiPairMatches
<1> QED
  BY <1>8, <1>9 DEF CompleteMatrix, fresh

LEMMA CoherentReordered ==
  ASSUME NEW vm \in Seq(AzureVmRateRecord), NEW new, NEW p, Reorders(p, new, vm),
         NEW sku, CoherentVm(vm, sku)
  PROVE  CoherentVm(new, sku)
<1> DEFINE of == {i \in DOMAIN vm : vm[i].sku = sku}
           fresh == {i \in DOMAIN new : new[i].sku = sku}
           Sold(option) == {vm[i] : i \in {i \in of : vm[i].option = option}}
           SoldNow(option) == {new[i] : i \in {i \in fresh : new[i].option = option}}
<1>1. \A i \in DOMAIN vm : vm[i] \in AzureVmRateRecord
  OBVIOUS
<1>2. \A i \in DOMAIN new :
        /\ p[i] \in DOMAIN vm /\ new[i].sku = vm[p[i]].sku /\ new[i].option = vm[p[i]].option
        /\ new[i].hourly = vm[p[i]].hourly /\ new[i].license = vm[p[i]].license
  BY <1>1, VmFields DEF Reorders
<1>3. \A i \in fresh : p[i] \in of
  BY <1>2
<1>4. \A k \in of : \E i \in fresh : p[i] = k
  BY <1>2 DEF Reorders
<1>5. \A i, j \in fresh : p[i] = p[j] => i = j
  BY DEF Reorders
<1>6. \A o : \A x \in Sold(o) : \E y \in SoldNow(o) : y.hourly = x.hourly /\ y.license = x.license
  <2> TAKE o
  <2> TAKE x \in Sold(o)
  <2>1. PICK k \in of : x = vm[k] /\ vm[k].option = o
    OBVIOUS
  <2>2. PICK i \in fresh : p[i] = k
    BY <1>4
  <2>3. new[i] \in SoldNow(o) /\ new[i].hourly = x.hourly /\ new[i].license = x.license
    BY <1>2, <2>1, <2>2
  <2> QED
    BY <2>3
<1>7. \A o : Sold(o) = {} => SoldNow(o) = {}
  <2> SUFFICES ASSUME NEW o, NEW i \in fresh, new[i].option = o PROVE Sold(o) # {}
    OBVIOUS
  <2>1. p[i] \in of /\ vm[p[i]].option = o
    BY <1>2, <1>3
  <2> QED
    BY <2>1
<1>8. CASE \E i \in of : of = {i} /\ vm[i].option = "payg" /\ vm[i].license = 0
  <2>1. PICK k \in of : of = {k} /\ vm[k].option = "payg" /\ vm[k].license = 0
    BY <1>8
  <2>2. PICK i \in fresh : p[i] = k
    BY <1>4
  <2>3. fresh = {i}
    BY <1>3, <1>5, <2>1, <2>2
  <2>4. new[i].option = "payg" /\ new[i].license = 0
    BY <1>2, <2>1, <2>2
  <2> QED
    BY <2>3, <2>4 DEF CoherentVm
<1>9. CASE \E payg \in Sold("payg"), ahb \in Sold("ahb") :
          /\ VmPairMatches(payg, ahb)
          /\ \A pair \in VmCommitments :
               \/ Sold(pair[1]) = {} /\ Sold(pair[2]) = {}
               \/ \E licensed \in Sold(pair[1]), without \in Sold(pair[2]) :
                    /\ VmPairMatches(licensed, without)
                    /\ licensed.license = payg.license /\ without.hourly < ahb.hourly
  <2> HIDE DEF Sold, SoldNow
  <2>1. PICK payg \in Sold("payg"), ahb \in Sold("ahb") :
          /\ VmPairMatches(payg, ahb)
          /\ \A pair \in VmCommitments :
               \/ Sold(pair[1]) = {} /\ Sold(pair[2]) = {}
               \/ \E licensed \in Sold(pair[1]), without \in Sold(pair[2]) :
                    /\ VmPairMatches(licensed, without)
                    /\ licensed.license = payg.license /\ without.hourly < ahb.hourly
    BY <1>9
  <2>2. PICK a \in SoldNow("payg") : a.hourly = payg.hourly /\ a.license = payg.license
    BY <1>6
  <2>3. PICK b \in SoldNow("ahb") : b.hourly = ahb.hourly /\ b.license = ahb.license
    BY <1>6
  <2>4. VmPairMatches(a, b)
    BY <2>1, <2>2, <2>3 DEF VmPairMatches
  <2>5. ASSUME NEW pair \in VmCommitments
        PROVE  \/ SoldNow(pair[1]) = {} /\ SoldNow(pair[2]) = {}
               \/ \E licensed \in SoldNow(pair[1]), without \in SoldNow(pair[2]) :
                    /\ VmPairMatches(licensed, without)
                    /\ licensed.license = a.license /\ without.hourly < b.hourly
    <3>1. CASE Sold(pair[1]) = {} /\ Sold(pair[2]) = {}
      BY <1>7, <3>1
    <3>2. CASE \E licensed \in Sold(pair[1]), without \in Sold(pair[2]) :
                    /\ VmPairMatches(licensed, without)
                    /\ licensed.license = payg.license /\ without.hourly < ahb.hourly
      <4>1. PICK licensed \in Sold(pair[1]), without \in Sold(pair[2]) :
                    /\ VmPairMatches(licensed, without)
                    /\ licensed.license = payg.license /\ without.hourly < ahb.hourly
        BY <3>2
      <4>2. PICK l \in SoldNow(pair[1]) : l.hourly = licensed.hourly /\ l.license = licensed.license
        BY <1>6
      <4>3. PICK w \in SoldNow(pair[2]) : w.hourly = without.hourly /\ w.license = without.license
        BY <1>6
      <4>4. VmPairMatches(l, w) /\ l.license = a.license /\ w.hourly < b.hourly
        BY <2>2, <2>3, <4>1, <4>2, <4>3 DEF VmPairMatches
      <4> QED
        BY <4>4
    <3> QED
      BY <2>1, <3>1, <3>2
  <2>6. \A pair \in VmCommitments :
               \/ SoldNow(pair[1]) = {} /\ SoldNow(pair[2]) = {}
               \/ \E licensed \in SoldNow(pair[1]), without \in SoldNow(pair[2]) :
                    /\ VmPairMatches(licensed, without)
                    /\ licensed.license = a.license /\ without.hourly < b.hourly
    BY <2>5
  <2> QED
    BY <2>4, <2>6 DEF CoherentVm, SoldNow
<1> QED
  BY <1>8, <1>9 DEF CoherentVm

LEMMA AzureRatesStayValid ==
  /\ \A r \in AzureMiRateRecord : ValidMiRate(r) => ValidMiRate(Normalized(r))
  /\ \A r \in AzureVmRateRecord : ValidVmRate(r) => ValidVmRate(Normalized(r))
  /\ \A r \in AzureManagedDiskRateRecord : ValidDiskRate(r) => ValidDiskRate(Normalized(r))
<1>1. \A r \in AzureMiRateRecord : ValidMiRate(r) => ValidMiRate(Normalized(r))
  BY MiFields DEF ValidMiRate
<1>2. \A r \in AzureVmRateRecord : ValidVmRate(r) => ValidVmRate(Normalized(r))
  BY VmFields DEF ValidVmRate
<1>3. \A r \in AzureManagedDiskRateRecord : ValidDiskRate(r) => ValidDiskRate(Normalized(r))
  BY DiskFields DEF ValidDiskRate
<1> QED
  BY <1>1, <1>2, <1>3

\* a rate is named by what it is sold as
DistinctVm(vm) == Distinct(vm, LAMBDA r : <<r.sku, r.option>>)
DistinctDisks(disks) == Distinct(disks, LAMBDA r : <<r.offer, r.tier, r.dimension>>)

LEMMA AzureNamesReordered ==
  ASSUME NEW vm \in Seq(AzureVmRateRecord), NEW disks \in Seq(AzureManagedDiskRateRecord),
         NEW a, NEW p, Reorders(p, a, vm), NEW b, NEW q, Reorders(q, b, disks),
         DistinctVm(vm),
         DistinctDisks(disks)
  PROVE  /\ DistinctVm(a)
         /\ DistinctDisks(b)
<1>5. /\ \A i \in DOMAIN vm : vm[i] \in AzureVmRateRecord
      /\ \A i \in DOMAIN disks : disks[i] \in AzureManagedDiskRateRecord
  OBVIOUS
<1>1. \A i \in DOMAIN a : p[i] \in DOMAIN vm /\ a[i].sku = vm[p[i]].sku /\ a[i].option = vm[p[i]].option
  BY <1>5, VmFields DEF Reorders
<1>2. \A i \in DOMAIN b : /\ q[i] \in DOMAIN disks /\ b[i].offer = disks[q[i]].offer
                          /\ b[i].tier = disks[q[i]].tier /\ b[i].dimension = disks[q[i]].dimension
  BY <1>5, DiskFields DEF Reorders
<1>3. DistinctVm(a)
  BY <1>1 DEF DistinctVm, Distinct, Reorders
<1>4. DistinctDisks(b)
  BY <1>2 DEF DistinctDisks, Distinct, Reorders
<1> QED
  BY <1>3, <1>4

LEMMA AzureIsStorable ==
  ASSUME NEW m \in SnapshotCreationMetadata, NEW mi \in Seq(AzureMiRateRecord),
         NEW vm \in Seq(AzureVmRateRecord), NEW disks \in Seq(AzureManagedDiskRateRecord),
         NEW s \in AzureSnapshot(m, mi, vm, disks)
  PROVE  /\ s \in StoredAzure(s)
         /\ s.content.mi \in Seq(AzureMiRateRecord) /\ s.content.vm \in Seq(AzureVmRateRecord)
         /\ s.content.disks \in Seq(AzureManagedDiskRateRecord)
<1> DEFINE content == [provider |-> "azure", currency |-> m.currency, region |-> m.region,
                       version |-> m.version, mi |-> Canonical(mi), vm |-> Canonical(vm),
                       disks |-> Canonical(disks)]
           made == [id |-> content, content |-> content, utc |-> m.utc, status |-> m.status,
                    warnings |-> Dedup(m.warnings)]
           cmi == Canonical(mi)
           cvm == Canonical(vm)
           cdisks == Canonical(disks)
<1>1. AzureErrors(m, mi, vm, disks) = {} /\ s = made
  BY DEF AzureSnapshot
<1>2. /\ KeyErrors(mi \o vm \o disks) = {} /\ MetadataErrors(m) = {}
      /\ \A r \in Records(mi) : ValidMiRate(r)
      /\ \A c \in {r.configuration : r \in Records(mi)} : CompleteMatrix(mi, c)
      /\ \A r \in Records(vm) : ValidVmRate(r)
      /\ DistinctVm(vm)
      /\ \A sku \in {r.sku : r \in Records(vm)} : CoherentVm(vm, sku)
      /\ \A r \in Records(disks) : ValidDiskRate(r)
      /\ DistinctDisks(disks)
  BY <1>1 DEF AzureErrors, DistinctVm, DistinctDisks
<1>3. /\ KeyErrors(cmi \o cvm \o cdisks) = {}
      /\ DistinctKeys(mi) /\ DistinctKeys(vm) /\ DistinctKeys(disks)
  BY <1>2, AzureRatesNormal, KeysOfThreeReordered
<1>4. /\ cmi \in Seq(AzureMiRateRecord) /\ Canonical(cmi) = cmi
      /\ cvm \in Seq(AzureVmRateRecord) /\ Canonical(cvm) = cvm
      /\ cdisks \in Seq(AzureManagedDiskRateRecord) /\ Canonical(cdisks) = cdisks
  BY <1>3, AzureRatesNormal, CanonicalReorders, CanonicalTwice
<1>5. /\ \A r \in Records(mi) : r \in AzureMiRateRecord
      /\ \A r \in Records(vm) : r \in AzureVmRateRecord
      /\ \A r \in Records(disks) : r \in AzureManagedDiskRateRecord
  BY DEF Records, Range
<1>6. /\ \A r \in Records(cmi) : \E x \in Records(mi) : r = Normalized(x)
      /\ \A r \in Records(cvm) : \E x \in Records(vm) : r = Normalized(x)
      /\ \A r \in Records(cdisks) : \E x \in Records(disks) : r = Normalized(x)
  BY <1>3, AzureRatesNormal, CanonicalReorders
<1>7. /\ \A r \in Records(cmi) : ValidMiRate(r)
      /\ \A r \in Records(cvm) : ValidVmRate(r)
      /\ \A r \in Records(cdisks) : ValidDiskRate(r)
  BY <1>2, <1>5, <1>6, AzureRatesStayValid
<1>8. PICK p : Reorders(p, cmi, mi)
  BY <1>3, AzureRatesNormal, CanonicalReorders
<1>9. PICK q : Reorders(q, cvm, vm)
  BY <1>3, AzureRatesNormal, CanonicalReorders
<1>10. PICK o : Reorders(o, cdisks, disks)
  BY <1>3, AzureRatesNormal, CanonicalReorders
<1>11. \A c \in {r.configuration : r \in Records(cmi)} : CompleteMatrix(cmi, c)
  <2> SUFFICES ASSUME NEW r \in Records(cmi) PROVE CompleteMatrix(cmi, r.configuration)
    OBVIOUS
  <2>1. \E x \in Records(mi) : r.configuration = x.configuration
    BY <1>5, <1>6, MiFields
  <2> QED
    BY <1>2, <1>8, <2>1, MatrixReordered
<1>12. \A sku \in {r.sku : r \in Records(cvm)} : CoherentVm(cvm, sku)
  <2> SUFFICES ASSUME NEW r \in Records(cvm) PROVE CoherentVm(cvm, r.sku)
    OBVIOUS
  <2>1. \E x \in Records(vm) : r.sku = x.sku
    BY <1>5, <1>6, VmFields
  <2> QED
    BY <1>2, <1>9, <2>1, CoherentReordered
<1>13. /\ DistinctVm(cvm)
       /\ DistinctDisks(cdisks)
  BY <1>2, <1>9, <1>10, AzureNamesReordered
<1> DEFINE n == Metadata(s)
<1>14. s.content = content /\ s.content.mi = cmi /\ s.content.vm = cvm /\ s.content.disks = cdisks
  BY <1>1
<1>15. /\ n.utc = m.utc /\ n.status = m.status /\ n.currency = m.currency /\ n.region = m.region
       /\ n.version = m.version /\ n.warnings = Dedup(m.warnings)
  BY <1>1 DEF Metadata
<1> HIDE DEF n, cmi, cvm, cdisks
<1>16. MetadataErrors(n) = {}
  BY <1>2, <1>15 DEF MetadataErrors
<1>17. AzureErrors(n, cmi, cvm, cdisks) = {}
  BY <1>3, <1>7, <1>11, <1>12, <1>13, <1>16 DEF AzureErrors, DistinctVm, DistinctDisks
<1>18. Dedup(Dedup(m.warnings)) = Dedup(m.warnings)
  BY DedupTwice DEF SnapshotCreationMetadata
<1>19. AzureSnapshot(n, cmi, cvm, cdisks) = {made}
  BY <1>4, <1>15, <1>17, <1>18 DEF AzureSnapshot, cmi, cvm, cdisks
<1> QED
  BY <1>1, <1>4, <1>14, <1>19 DEF StoredAzure, n

(* Sums over finite sets. *)

\* a subset of a kind that loses the kind with any member
LEMMA LeastSubset ==
  ASSUME NEW S, IsFiniteSet(S), NEW B \in SUBSET (SUBSET S), B # {}
  PROVE  \E s \in B : \A x \in s : s \ {x} \in SUBSET S /\ s \ {x} \notin B
<1> DEFINE N == {Cardinality(s) : s \in B}
<1>1. \A s \in SUBSET S : IsFiniteSet(s) /\ Cardinality(s) \in Nat
  BY FS_Subset, FS_CardinalityType
<1>2. N \in SUBSET Nat /\ N # {}
  BY <1>1
<1>3. PICK n \in N : \A m \in N : n <= m
  BY <1>2, LeastNumber
<1>4. PICK s \in B : Cardinality(s) = n
  BY <1>3
<1>5. ASSUME NEW x \in s, s \ {x} \in B PROVE FALSE
  <2>1. Cardinality(s \ {x}) = Cardinality(s) - 1 /\ IsFiniteSet(s)
    BY <1>1, FS_RemoveElement
  <2>2. Cardinality(s) <= Cardinality(s \ {x})
    BY <1>3, <1>4, <1>5
  <2>3. Cardinality(s) \in Nat
    BY <1>1
  <2> QED
    BY <2>1, <2>2, <2>3
<1> QED
  BY <1>5

\* the sums of a function over the subsets of a set, in the order the fold takes
IsSum(g, fun, S) ==
  g = [s \in SUBSET S |-> IF s = {} THEN 0 ELSE fun[CHOOSE x \in s : TRUE] + g[s \ {CHOOSE x \in s : TRUE}]]
SumOn(fun, S) == (CHOOSE g : IsSum(g, fun, S))[S]

LEMMA SumExists ==
  ASSUME NEW S, IsFiniteSet(S), NEW fun PROVE \E g : IsSum(g, fun, S)
<1> DEFINE c(s) == CHOOSE x \in s : TRUE
           L(n) == {s \in SUBSET S : Cardinality(s) <= n}
           Has(n) == \E g : g = [s \in L(n) |-> IF s = {} THEN 0 ELSE fun[c(s)] + g[s \ {c(s)}]]
           B == {n \in Nat : ~Has(n)}
<1>1. \A s \in SUBSET S : IsFiniteSet(s) /\ Cardinality(s) \in Nat
  BY FS_Subset, FS_CardinalityType
<1>2. \A s \in SUBSET S : s # {} => c(s) \in s /\ s \ {c(s)} \in SUBSET S
  OBVIOUS
<1>3. \A s \in SUBSET S : s # {} => Cardinality(s \ {c(s)}) = Cardinality(s) - 1
  BY <1>1, <1>2, FS_RemoveElement
<1>4. Has(0)
  <2>1. \A s \in L(0) : s = {}
    BY <1>1, FS_EmptySet
  <2> DEFINE g == [s \in L(0) |-> 0]
  <2>2. g = [s \in L(0) |-> IF s = {} THEN 0 ELSE fun[c(s)] + g[s \ {c(s)}]]
    BY <2>1
  <2> QED
    BY <2>2
<1>5. ASSUME NEW n \in Nat, Has(n) PROVE Has(n + 1)
  <2>1. PICK g : g = [s \in L(n) |-> IF s = {} THEN 0 ELSE fun[c(s)] + g[s \ {c(s)}]]
    BY <1>5
  <2> DEFINE h == [s \in L(n + 1) |-> IF s = {} THEN 0 ELSE fun[c(s)] + g[s \ {c(s)}]]
  <2> HIDE DEF c
  <2>2. ASSUME NEW s \in L(n + 1), s # {} PROVE s \ {c(s)} \in L(n) /\ s \ {c(s)} \in L(n + 1)
    BY <1>1, <1>2, <1>3, <2>2
  <2>3. \A u \in L(n) : u \in L(n + 1)
    BY <1>1
  <2> HIDE DEF L
  <2>4. \A u \in L(n) : g[u] = IF u = {} THEN 0 ELSE fun[c(u)] + g[u \ {c(u)}]
    BY <2>1
  <2>5. \A u \in L(n) : h[u] = g[u]
    BY <2>3, <2>4
  <2>6. \A s \in L(n + 1) : (IF s = {} THEN 0 ELSE fun[c(s)] + g[s \ {c(s)}])
                              = (IF s = {} THEN 0 ELSE fun[c(s)] + h[s \ {c(s)}])
    BY <2>2, <2>5
  <2>7. h = [s \in L(n + 1) |-> IF s = {} THEN 0 ELSE fun[c(s)] + h[s \ {c(s)}]]
    BY <2>6
  <2> HIDE DEF h
  <2> QED
    BY <2>7
<1> HIDE DEF Has
<1>6. \A n \in Nat : Has(n)
  <2> SUFFICES ASSUME B # {} PROVE FALSE
    OBVIOUS
  <2>1. PICK m \in B : \A n \in B : m <= n
    BY LeastNumber
  <2>2. m # 0
    BY <1>4, <2>1
  <2>3. m - 1 \in Nat /\ ~(m <= m - 1) /\ (m - 1) + 1 = m
    BY <2>2
  <2>4. Has(m - 1)
    BY <2>1, <2>3
  <2>5. Has(m)
    BY <1>5, <2>3, <2>4
  <2> QED
    BY <2>5
<1>7. Cardinality(S) \in Nat /\ L(Cardinality(S)) = SUBSET S
  BY FS_CardinalityType, FS_Subset
<1>8. Has(Cardinality(S))
  BY <1>6, <1>7
<1> HIDE DEF L
<1> QED
  BY <1>7, <1>8 DEF Has, IsSum

LEMMA SumStep ==
  ASSUME NEW S, NEW fun, NEW g, IsSum(g, fun, S), NEW s \in SUBSET S, s # {}
  PROVE  \E x \in s : /\ x = (CHOOSE y \in s : TRUE) /\ s \ {x} \in SUBSET S
                      /\ g[s] = fun[x] + g[s \ {x}]
<1> DEFINE x == CHOOSE y \in s : TRUE
<1>1. x \in s /\ s \ {x} \in SUBSET S
  OBVIOUS
<1>2. g[s] = fun[x] + g[s \ {x}]
  BY DEF IsSum
<1> QED
  BY <1>1, <1>2

LEMMA SumEmpty == ASSUME NEW S, NEW fun, NEW g, IsSum(g, fun, S) PROVE g[{}] = 0
BY DEF IsSum

LEMMA SumUnique ==
  ASSUME NEW S, IsFiniteSet(S), NEW T \in SUBSET S, NEW fun, NEW gun, \A x \in T : fun[x] = gun[x],
         NEW g, IsSum(g, fun, S), NEW h, IsSum(h, gun, T)
  PROVE  \A s \in SUBSET T : g[s] = h[s]
<1> DEFINE B == {s \in SUBSET T : g[s] # h[s]}
<1> SUFFICES ASSUME B # {} PROVE FALSE
  OBVIOUS
<1>1. IsFiniteSet(T)
  BY FS_Subset
<1>2. PICK s \in B : \A x \in s : s \ {x} \in SUBSET T /\ s \ {x} \notin B
  <2>1. B \in SUBSET (SUBSET T)
    OBVIOUS
  <2> HIDE DEF B
  <2> QED
    BY <1>1, <2>1, LeastSubset
<1>3. s # {}
  BY SumEmpty
<1>4. PICK x \in s : x = (CHOOSE y \in s : TRUE) /\ g[s] = fun[x] + g[s \ {x}]
  BY <1>3, SumStep
<1>5. h[s] = gun[x] + h[s \ {x}]
  <2>1. PICK z \in s : z = (CHOOSE y \in s : TRUE) /\ h[s] = gun[z] + h[s \ {z}]
    BY <1>3, SumStep
  <2> QED
    BY <1>4, <2>1
<1>6. g[s \ {x}] = h[s \ {x}]
  BY <1>2
<1> QED
  BY <1>4, <1>5, <1>6

LEMMA SumIs ==
  ASSUME NEW S, IsFiniteSet(S), NEW fun, NEW g, IsSum(g, fun, S)
  PROVE  \A T \in SUBSET S : g[T] = SumOn(fun, T)
<1> TAKE T \in SUBSET S
<1>1. IsFiniteSet(T)
  BY FS_Subset
<1>2. PICK h : IsSum(h, fun, T)
  BY <1>1, SumExists
<1>3. IsSum(CHOOSE f : IsSum(f, fun, T), fun, T)
  BY <1>2
<1> DEFINE k == CHOOSE f : IsSum(f, fun, T)
<1>4. IsSum(k, fun, T) /\ SumOn(fun, T) = k[T]
  BY <1>3 DEF SumOn
<1> HIDE DEF k
<1> QED
  BY <1>4, SumUnique

LEMMA SumType ==
  ASSUME NEW S, IsFiniteSet(S), NEW fun, \A x \in S : fun[x] \in Int
  PROVE  SumOn(fun, S) \in Int
<1> PICK g : IsSum(g, fun, S)
  BY SumExists
<1> DEFINE B == {s \in SUBSET S : g[s] \notin Int}
<1>1. SUFFICES B = {}
  BY <1>1, SumIs
<1> SUFFICES ASSUME B # {} PROVE FALSE
  OBVIOUS
<1>2. PICK s \in B : \A x \in s : s \ {x} \in SUBSET S /\ s \ {x} \notin B
  <2>1. B \in SUBSET (SUBSET S)
    OBVIOUS
  <2> HIDE DEF B
  <2> QED
    BY <2>1, LeastSubset
<1>3. s # {}
  BY SumEmpty
<1>4. PICK x \in s : g[s] = fun[x] + g[s \ {x}]
  BY <1>3, SumStep
<1>5. g[s \ {x}] \in Int
  BY <1>2
<1> QED
  BY <1>4, <1>5

LEMMA FoldSums == ASSUME NEW fun PROVE FoldFunction(+, 0, fun) = SumOn(fun, DOMAIN fun)
BY DEF FoldFunction, FoldFunctionOnSet, MapThenFoldSet, SumOn, IsSum

(* What a snapshot accepted never makes an amount impossible. *)

LEMMA MinOfTwo ==
  ASSUME NEW a \in Int, NEW b \in Int
  PROVE  Min({a, b}) \in {a, b} /\ Min({a, b}) <= a /\ Min({a, b}) <= b
<1> DEFINE S == {a, b}
<1>1. \E x \in S : \A y \in S : x <= y
  <2>1. CASE a <= b
    BY <2>1
  <2>2. CASE ~(a <= b)
    BY <2>2
  <2> QED
    BY <2>1, <2>2
<1>2. Min(S) = CHOOSE x \in S : \A y \in S : x <= y
  BY DEF Min
<1>3. Min(S) \in S /\ \A y \in S : Min(S) <= y
  BY <1>1, <1>2
<1> QED
  BY <1>3

\* what has been charged so far: nothing is wrong, and what is left is above the limit that was reached
Charging(acc) ==
  /\ acc = [left |-> acc.left, total |-> acc.total, limit |-> acc.limit, error |-> {}]
  /\ acc.left \in Nat /\ acc.total \in Nat /\ acc.limit \in Nat

LEMMA NatTimes == ASSUME NEW a \in Nat, NEW b \in Nat PROVE a * b \in Nat
OBVIOUS

LEMMA TierStepCharges ==
  ASSUME NEW acc, Charging(acc), NEW tier, tier.rate \in Int, tier.rate > 0,
         \/ tier.upTo = {}
         \/ \E u \in Nat : tier.upTo = {u} /\ acc.limit < u
  PROVE  /\ Charging(TierStep(acc, tier))
         /\ tier.upTo = {} => TierStep(acc, tier).left = 0
         /\ \/ TierStep(acc, tier).limit = acc.limit
            \/ tier.upTo = {TierStep(acc, tier).limit}
<1>1. acc.left \in Nat /\ acc.total \in Nat /\ acc.limit \in Nat /\ acc.error = {}
  BY DEF Charging
<1>2. CASE acc.left = 0
  BY <1>1, <1>2 DEF TierStep
<1>3. CASE acc.left # 0 /\ tier.upTo = {}
  <2>1. TierStep(acc, tier) =
          [left |-> acc.left - acc.left, total |-> acc.total + acc.left * tier.rate,
           limit |-> acc.limit, error |-> {}]
    <3>1. Negative({tier.rate}) = {} /\ When(\E l \in tier.upTo : l <= acc.limit, "invalid_iops_tiers") = {}
      BY <1>3 DEF Negative, When
    <3> QED
      BY <1>1, <1>3, <3>1 DEF TierStep
  <2>2. acc.left - acc.left = 0 /\ acc.total + acc.left * tier.rate \in Nat
    BY <1>1, NatTimes
  <2> QED
    BY <1>1, <2>1, <2>2 DEF Charging
<1>4. ASSUME acc.left # 0, NEW u \in Nat, tier.upTo = {u}, acc.limit < u
      PROVE  /\ Charging(TierStep(acc, tier)) /\ TierStep(acc, tier).limit = u
  <2> DEFINE units == Min({acc.left, u - acc.limit})
  <2>1. units \in {acc.left, u - acc.limit} /\ units <= acc.left
    <3>1. u - acc.limit \in Int /\ acc.left \in Int
      BY <1>1
    <3> QED
      BY <3>1, MinOfTwo
  <2>2. units \in Nat /\ acc.left - units \in Nat /\ acc.total + units * tier.rate \in Nat
    <3>1. units \in Nat /\ acc.left - units \in Nat
      BY <1>1, <1>4, <2>1
    <3> HIDE DEF units
    <3> QED
      BY <1>1, <3>1, NatTimes
  <2>3. Value(tier.upTo) = u
    BY <1>4 DEF Value
  <2>4. Negative({tier.rate}) = {} /\ When(\E l \in tier.upTo : l <= acc.limit, "invalid_iops_tiers") = {}
    BY <1>1, <1>4 DEF Negative, When
  <2>5. TierStep(acc, tier) =
          [left |-> acc.left - units, total |-> acc.total + units * tier.rate, limit |-> u, error |-> {}]
    BY <1>1, <1>4, <2>3, <2>4 DEF TierStep
  <2> HIDE DEF units
  <2> QED
    BY <2>2, <2>5 DEF Charging
<1> QED
  BY <1>2, <1>3, <1>4

LEMMA ChargedThree ==
  ASSUME NEW units, NEW tiers, Len(tiers) = 3
  PROVE  Charged(units, tiers) =
           TierStep(TierStep(TierStep([left |-> units, total |-> 0, limit |-> 0, error |-> {}],
                                      tiers[1]), tiers[2]), tiers[3])
<1> DEFINE start == [left |-> units, total |-> 0, limit |-> 0, error |-> {}]
           first == TierStep(start, tiers[1])
           second == TierStep(first, tiers[2])
           third == TierStep(second, tiers[3])
           f == [k \in 0..3 |-> IF k = 0 THEN start ELSE IF k = 1 THEN first ELSE IF k = 2 THEN second ELSE third]
           Is(g) == g = [k \in 0..Len(tiers) |-> IF k = 0 THEN start ELSE TierStep(g[k - 1], tiers[k])]
           charged == CHOOSE g : Is(g)
<1>1. Charged(units, tiers) = charged[Len(tiers)]
  BY DEF Charged
<1>2. f[0] = start /\ f[1] = first /\ f[2] = second /\ f[3] = third
  OBVIOUS
<1> HIDE DEF start
<1>3. \A k \in 0..3 : f[k] = IF k = 0 THEN start ELSE TierStep(f[k - 1], tiers[k])
  <2> TAKE k \in 0..3
  <2>1. k = 0 \/ k = 1 \/ k = 2 \/ k = 3
    OBVIOUS
  <2>2. 1 - 1 = 0 /\ 2 - 1 = 1 /\ 3 - 1 = 2
    OBVIOUS
  <2> HIDE DEF f
  <2>3. k = 1 => k - 1 = 0
    OBVIOUS
  <2>4. k = 2 => k - 1 = 1
    OBVIOUS
  <2>5. k = 3 => k - 1 = 2
    OBVIOUS
  <2> QED
    BY <1>2, <2>1, <2>3, <2>4, <2>5
<1>4. f = [k \in 0..3 |-> f[k]]
  OBVIOUS
<1> HIDE DEF f, first, second, third
<1>5. Is(f)
  BY <1>3, <1>4
<1>6. Is(charged)
  BY <1>5
<1> HIDE DEF charged
<1>7. \A k \in 0..3 : charged[k] = IF k = 0 THEN start ELSE TierStep(charged[k - 1], tiers[k])
  BY <1>6
<1>8. charged[0] = start /\ charged[1] = TierStep(charged[0], tiers[1])
      /\ charged[2] = TierStep(charged[1], tiers[2]) /\ charged[3] = TierStep(charged[2], tiers[3])
  BY <1>7
<1>9. charged[3] = third
  BY <1>8 DEF first, second, third
<1> QED
  BY <1>1, <1>9 DEF start, first, second, third

LEMMA TiersCharge ==
  ASSUME NEW units \in Nat, NEW rate \in AwsEbsRateRecord, ValidEbsRate(rate), rate.type = "io2"
  PROVE  TierErrors(units, rate.tiers) = {} /\ TieredCost(units, rate.tiers) \in Nat
<1> DEFINE tiers == rate.tiers
<1>1. /\ [i \in DOMAIN tiers |-> tiers[i].upTo] = <<{FirstLimit}, {SecondLimit}, {}>>
      /\ \A i \in DOMAIN tiers : tiers[i].rate > 0
  BY DEF ValidEbsRate
<1> DEFINE T == [upTo : SUBSET Nat, rate : Int]
<1>2. tiers \in Seq(T)
  BY DEF AwsEbsRateRecord
<1> HIDE DEF tiers, T
<1>3. Len(tiers) = 3 /\ DOMAIN tiers = 1..3
  <2>1. DOMAIN tiers = 1..3
    BY <1>1
  <2> QED
    BY <1>2, <2>1
<1>4. tiers[1].upTo = {FirstLimit} /\ tiers[2].upTo = {SecondLimit} /\ tiers[3].upTo = {}
  BY <1>1, <1>3
<1>5. \A i \in 1..3 : tiers[i].rate \in Int /\ tiers[i].rate > 0
  <2> TAKE i \in 1..3
  <2>1. i \in DOMAIN tiers
    BY <1>3
  <2>2. tiers[i] \in T
    BY <1>2, <2>1
  <2>3. tiers[i].rate \in Int
    BY <2>2 DEF T
  <2> QED
    BY <1>1, <2>1, <2>3
<1> DEFINE start == [left |-> units, total |-> 0, limit |-> 0, error |-> {}]
           first == TierStep(start, tiers[1])
           second == TierStep(first, tiers[2])
           third == TierStep(second, tiers[3])
<1>6. Charging(start) /\ start.limit = 0
  BY DEF Charging
<1> HIDE DEF start
<1>7. Charging(first) /\ first.limit \in {0, FirstLimit}
  <2>1. \E u \in Nat : tiers[1].upTo = {u} /\ start.limit < u
    BY <1>4, <1>6, LimitsAssumption
  <2>2. tiers[1].rate \in Int /\ tiers[1].rate > 0
    BY <1>5
  <2>3. Charging(first) /\ (first.limit = start.limit \/ tiers[1].upTo = {first.limit})
    BY <1>6, <2>1, <2>2, TierStepCharges
  <2> QED
    BY <1>4, <1>6, <2>3
<1> HIDE DEF first
<1>8. Charging(second)
  <2>1. \E u \in Nat : tiers[2].upTo = {u} /\ first.limit < u
    BY <1>4, <1>7, LimitsAssumption
  <2>2. tiers[2].rate \in Int /\ tiers[2].rate > 0
    BY <1>5
  <2> QED
    BY <1>7, <2>1, <2>2, TierStepCharges
<1> HIDE DEF second
<1>9. Charging(third) /\ third.left = 0
  BY <1>4, <1>5, <1>8, TierStepCharges
<1>10. Charged(units, tiers) = third
  BY <1>3, ChargedThree DEF start, first, second
<1> HIDE DEF third
<1>11. TierErrors(units, tiers) = {} /\ TieredCost(units, tiers) \in Nat
  BY <1>9, <1>10 DEF TierErrors, TieredCost, When, Charging
<1> QED
  BY <1>11 DEF tiers

\* the volumes of a valid resource: what validation asks of each
VolumesValid(r) ==
  \A i \in DOMAIN r.volumes :
    /\ r.volumes[i].iops \subseteq Nat /\ AtMostOne(r.volumes[i].iops)
    /\ r.volumes[i].type # "ephemeral" => r.volumes[i].iops # {}

LEMMA VolumesCharge ==
  ASSUME NEW v, v.iops \subseteq Nat, AtMostOne(v.iops), v.iops # {},
         NEW rate \in AwsEbsRateRecord, ValidEbsRate(rate)
  PROVE  VolumeErrors(v, rate) = {}
<1>1. Negative({rate.capacity} \cup rate.perThroughput) = {}
  BY DEF ValidEbsRate, Negative, When, Positive, AwsEbsRateRecord
<1>2. Value(v.iops) \in Nat
  BY DEF Value
<1>3. CASE rate.type = "io2"
  <2>1. rate.includedIops = 0
    BY <1>3 DEF ValidEbsRate
  <2>2. PaidIops(v, rate) \in Nat
    BY <1>2, <2>1 DEF PaidIops, Most
  <2> QED
    BY <1>1, <1>3, <2>2, TiersCharge DEF VolumeErrors, When
<1>4. CASE rate.type # "io2"
  <2>1. rate.perIops # {} /\ Positive(rate.perIops) /\ rate.perThroughput # {} /\ rate.perIops \subseteq Int
    BY <1>4 DEF ValidEbsRate, AwsEbsRateRecord
  <2>2. Negative(rate.perIops) = {}
    BY <2>1 DEF Negative, When, Positive
  <2> QED
    BY <1>1, <1>4, <2>1, <2>2 DEF VolumeErrors, When
<1> QED
  BY <1>3, <1>4

LEMMA StorageCharges ==
  ASSUME NEW r, VolumesValid(r), NEW ebs \in Seq(AwsEbsRateRecord),
         \A x \in Records(ebs) : ValidEbsRate(x)
  PROVE  StorageErrors(r, ebs) \subseteq {"missing_ebs_rate"}
<1> SUFFICES ASSUME NEW i \in Persistent(r), EbsRates(ebs, r.volumes[i].type) # {}
             PROVE  VolumeErrors(r.volumes[i], Value(EbsRates(ebs, r.volumes[i].type))) = {}
  BY DEF StorageErrors
<1> DEFINE rate == Value(EbsRates(ebs, r.volumes[i].type))
<1>1. rate \in EbsRates(ebs, r.volumes[i].type)
  BY DEF Value
<1>2. \E j \in DOMAIN ebs : rate = ebs[j]
  BY <1>1 DEF EbsRates
<1> HIDE DEF rate
<1>3. rate \in AwsEbsRateRecord /\ ValidEbsRate(rate)
  <2>1. PICK j \in DOMAIN ebs : rate = ebs[j]
    BY <1>2
  <2>2. ebs[j] \in AwsEbsRateRecord
    OBVIOUS
  <2>3. ebs[j] \in Records(ebs)
    BY DEF Records, Range
  <2> QED
    BY <2>1, <2>2, <2>3
<1>4. /\ r.volumes[i].iops \subseteq Nat /\ AtMostOne(r.volumes[i].iops) /\ r.volumes[i].iops # {}
  BY DEF Persistent, VolumesValid
<1>5. VolumeErrors(r.volumes[i], rate) = {}
  BY <1>3, <1>4, VolumesCharge
<1> QED
  BY <1>5 DEF rate

\* the rates of a snapshot are of their types and passed the checks
AwsSound(s) ==
  /\ s.content.ebs \in Seq(AwsEbsRateRecord)
  /\ \A x \in Records(s.content.ec2) : x \in AwsEc2RateRecord /\ ValidEc2Rate(x)
  /\ \A x \in Records(s.content.rds) : x \in AwsRdsRateRecord /\ ValidRdsRate(x)
  /\ \A x \in Records(s.content.ebs) : x \in AwsEbsRateRecord /\ ValidEbsRate(x)
AzureSound(s) ==
  /\ \A x \in Records(s.content.mi) : x \in AzureMiRateRecord /\ ValidMiRate(x)
  /\ \A x \in Records(s.content.vm) : x \in AzureVmRateRecord /\ ValidVmRate(x)
  /\ \A x \in Records(s.content.disks) : x \in AzureManagedDiskRateRecord /\ ValidDiskRate(x)

LEMMA AwsIsSound ==
  ASSUME NEW m \in SnapshotCreationMetadata, NEW ec2 \in Seq(AwsEc2RateRecord),
         NEW rds \in Seq(AwsRdsRateRecord), NEW ebs \in Seq(AwsEbsRateRecord),
         NEW s \in AwsSnapshot(m, ec2, rds, ebs)
  PROVE  s \in StoredAws(s) /\ AwsSound(s)
<1>1. /\ s \in StoredAws(s)
      /\ s.content.ec2 \in Seq(AwsEc2RateRecord) /\ s.content.rds \in Seq(AwsRdsRateRecord)
      /\ s.content.ebs \in Seq(AwsEbsRateRecord)
  BY AwsIsStorable
<1>2. AwsErrors(Metadata(s), s.content.ec2, s.content.rds, s.content.ebs) = {}
  BY <1>1 DEF StoredAws, AwsSnapshot
<1>3. /\ \A r \in Records(s.content.ec2) : ValidEc2Rate(r)
      /\ \A r \in Records(s.content.rds) : ValidRdsRate(r)
      /\ \A r \in Records(s.content.ebs) : ValidEbsRate(r)
  BY <1>2 DEF AwsErrors
<1>4. /\ \A r \in Records(s.content.ec2) : r \in AwsEc2RateRecord
      /\ \A r \in Records(s.content.rds) : r \in AwsRdsRateRecord
      /\ \A r \in Records(s.content.ebs) : r \in AwsEbsRateRecord
  BY <1>1 DEF Records, Range
<1> QED
  BY <1>1, <1>3, <1>4 DEF AwsSound

LEMMA AzureIsSound ==
  ASSUME NEW m \in SnapshotCreationMetadata, NEW mi \in Seq(AzureMiRateRecord),
         NEW vm \in Seq(AzureVmRateRecord), NEW disks \in Seq(AzureManagedDiskRateRecord),
         NEW s \in AzureSnapshot(m, mi, vm, disks)
  PROVE  s \in StoredAzure(s) /\ AzureSound(s)
<1>1. /\ s \in StoredAzure(s)
      /\ s.content.mi \in Seq(AzureMiRateRecord) /\ s.content.vm \in Seq(AzureVmRateRecord)
      /\ s.content.disks \in Seq(AzureManagedDiskRateRecord)
  BY AzureIsStorable
<1>2. AzureErrors(Metadata(s), s.content.mi, s.content.vm, s.content.disks) = {}
  BY <1>1 DEF StoredAzure, AzureSnapshot
<1>3. /\ \A r \in Records(s.content.mi) : ValidMiRate(r)
      /\ \A r \in Records(s.content.vm) : ValidVmRate(r)
      /\ \A r \in Records(s.content.disks) : ValidDiskRate(r)
  BY <1>2 DEF AzureErrors
<1>4. /\ \A r \in Records(s.content.mi) : r \in AzureMiRateRecord
      /\ \A r \in Records(s.content.vm) : r \in AzureVmRateRecord
      /\ \A r \in Records(s.content.disks) : r \in AzureManagedDiskRateRecord
  BY <1>1 DEF Records, Range
<1> QED
  BY <1>1, <1>3, <1>4 DEF AzureSound

LEMMA FoundIsRecord ==
  ASSUME NEW s, NEW a, NEW b
  PROVE  /\ Ec2Rates(s, a) \subseteq Records(s.content.ec2)
         /\ RdsRates(s, a) \subseteq Records(s.content.rds)
         /\ MiRates(s, a, b) \subseteq Records(s.content.mi)
         /\ VmRates(s, a, b) \subseteq Records(s.content.vm)
<1>1. Ec2Rates(s, a) \subseteq Records(s.content.ec2)
  BY DEF Ec2Rates, FirstOf, Records, Range
<1>2. RdsRates(s, a) \subseteq Records(s.content.rds)
  BY DEF RdsRates, FirstOf, Records, Range
<1>3. MiRates(s, a, b) \subseteq Records(s.content.mi)
  BY DEF MiRates, FirstOf, Records, Range
<1>4. VmRates(s, a, b) \subseteq Records(s.content.vm)
  BY DEF VmRates, FirstOf, Records, Range
<1> QED
  BY <1>1, <1>2, <1>3, <1>4

\* the part of a resource's type that its licence is looked up by
LicenceTyped(r) == r.sql # {} /\ \A q \in r.sql : q.edition \in Editions /\ q.option \in PurchaseOptions

LEMMA Ec2Suffices ==
  ASSUME NEW s, AwsSound(s), NEW r, VolumesValid(r), NEW rate \in Ec2Rates(s, r.instance)
  PROVE  /\ Ec2VmErrors(r, rate, s.content.ebs) \subseteq {"missing_ebs_rate"}
         /\ LicenceTyped(r) => Ec2Errors(r, rate, s.content.ebs)
                                 \subseteq {"missing_source_license_rate", "missing_ebs_rate"}
<1>1. rate \in AwsEc2RateRecord /\ ValidEc2Rate(rate)
  BY FoundIsRecord DEF AwsSound
<1>2. StorageErrors(r, s.content.ebs) \subseteq {"missing_ebs_rate"}
  BY StorageCharges DEF AwsSound
<1>3. rate.compute \in Int /\ rate.compute > 0 /\ DOMAIN rate.license = Editions
      /\ \A e \in Editions : rate.license[e] \subseteq Int /\ Positive(rate.license[e])
  BY <1>1 DEF AwsEc2RateRecord, ValidEc2Rate
<1>4. Negative({rate.compute}) = {}
  BY <1>3 DEF Negative, When
<1>5. ASSUME LicenceTyped(r) PROVE Negative({rate.compute} \cup LicenseRate(Value(r.sql), rate)) = {}
  <2>1. Value(r.sql).edition \in Editions
    BY <1>5 DEF LicenceTyped, Value
  <2>2. \A x \in LicenseRate(Value(r.sql), rate) : x \in Int /\ ~(x < 0)
    BY <1>3, <2>1 DEF LicenseRate, Positive
  <2> QED
    BY <1>3, <2>2 DEF Negative, When
<1> QED
  BY <1>2, <1>4, <1>5 DEF Ec2VmErrors, Ec2Errors, When

LEMMA RdsSuffices ==
  ASSUME NEW s, AwsSound(s), NEW r, LicenceTyped(r), NEW rate \in RdsRates(s, r)
  PROVE  RdsErrors(r, rate) = {}
<1>1. rate \in AwsRdsRateRecord /\ ValidRdsRate(rate)
  BY FoundIsRecord DEF AwsSound
<1>2. rate.compute \in Int /\ rate.compute > 0 /\ rate.storage \in Int /\ rate.storage > 0
      /\ \A e \in Editions : rate.license[e] \subseteq Int /\ Positive(rate.license[e])
  BY <1>1 DEF AwsRdsRateRecord, ValidRdsRate
<1>3. Value(r.sql).edition \in Editions
  BY DEF LicenceTyped, Value
<1>4. \A x \in {rate.compute, rate.storage} \cup rate.license[Value(r.sql).edition] : ~(x < 0)
  BY <1>2, <1>3 DEF Positive
<1> QED
  BY <1>4 DEF RdsErrors, Negative, When

LEMMA MiSuffices ==
  ASSUME NEW s, AzureSound(s), NEW r, LicenceTyped(r), NEW c, HasCompleteMiRateSet(s, c)
  PROVE  MiErrors(Value(MiRates(s, c, Value(r.sql).option))) = {}
<1> DEFINE rate == Value(MiRates(s, c, Value(r.sql).option))
<1>1. Value(r.sql).option \in MiOptions
  BY DEF LicenceTyped, Value, PurchaseOptions, MiOptions
<1>2. rate \in MiRates(s, c, Value(r.sql).option)
  BY <1>1, CompleteHasRates DEF Value
<1>3. rate \in AzureMiRateRecord /\ ValidMiRate(rate)
  BY <1>2, FoundIsRecord DEF AzureSound
<1> HIDE DEF rate
<1>4. \A x \in {rate.compute, rate.license, rate.storage, rate.memory} : ~(x < 0)
  BY <1>3 DEF ValidMiRate, AzureMiRateRecord
<1>5. MiErrors(rate) = {}
  BY <1>4 DEF MiErrors, Negative, When
<1> QED
  BY <1>5 DEF rate

LEMMA DiskRatesSound ==
  ASSUME NEW s, AzureSound(s), NEW offer, NEW tier
  PROVE  \A dim \in DOMAIN DiskRates(s, offer, tier) :
           DiskRates(s, offer, tier)[dim] \in Int /\ DiskRates(s, offer, tier)[dim] > 0
<1> DEFINE rates == DiskRates(s, offer, tier)
           of == {i \in DOMAIN s.content.disks :
                   s.content.disks[i].offer = offer /\ s.content.disks[i].tier = tier}
<1>1. \A i \in DOMAIN s.content.disks : s.content.disks[i].rate \in Int /\ s.content.disks[i].rate > 0
  <2> TAKE i \in DOMAIN s.content.disks
  <2>1. s.content.disks[i] \in Records(s.content.disks)
    BY DEF Records, Range
  <2> QED
    BY <2>1 DEF AzureSound, AzureManagedDiskRateRecord, ValidDiskRate
<1>2. rates = [dim \in {s.content.disks[i].dimension : i \in of} |->
                 s.content.disks[CHOOSE i \in of : s.content.disks[i].dimension = dim].rate]
  BY DEF DiskRates
<1>3. \A dim \in DOMAIN rates : \E i \in DOMAIN s.content.disks : rates[dim] = s.content.disks[i].rate
  <2> HIDE DEF rates
  <2> TAKE dim \in DOMAIN rates
  <2>1. \E i \in of : s.content.disks[i].dimension = dim
    BY <1>2
  <2> QED
    BY <1>2, <2>1
<1> HIDE DEF rates
<1>4. \A dim \in DOMAIN rates : rates[dim] \in Int /\ rates[dim] > 0
  BY <1>1, <1>3
<1> QED
  BY <1>4 DEF rates

LEMMA DisksSuffice ==
  ASSUME NEW s, AzureSound(s), NEW x
  PROVE  AllDiskErrors(x, s) \subseteq {"missing_azure_managed_disk_rate"}
<1> SUFFICES ASSUME NEW d \in Records(x.disks)
             PROVE  DiskErrors(d, DiskRates(s, d.offer, d.tier)) \subseteq {"missing_azure_managed_disk_rate"}
  BY DEF AllDiskErrors
<1> DEFINE rates == DiskRates(s, d.offer, d.tier)
<1>1. \A dim \in DOMAIN rates : rates[dim] \in Int /\ rates[dim] > 0
  BY DiskRatesSound
<1> HIDE DEF rates
<1>2. \A dim \in DOMAIN rates : ~(rates[dim] < 0)
  BY <1>1
<1>3. DiskErrors(d, rates) \subseteq {"missing_azure_managed_disk_rate"}
  BY <1>2 DEF DiskErrors, Negative, When
<1> QED
  BY <1>3 DEF rates

LEMMA VmSuffices ==
  ASSUME NEW s, AzureSound(s), NEW a, NEW b, NEW rate \in VmRates(s, a, b)
  PROVE  VmErrors(rate) = {}
<1>1. rate \in AzureVmRateRecord /\ ValidVmRate(rate)
  BY FoundIsRecord DEF AzureSound
<1>2. rate.hourly \in Int /\ rate.license \in Int /\ rate.hourly > 0 /\ rate.license >= 0
      /\ rate.license <= rate.hourly
  BY <1>1 DEF AzureVmRateRecord, ValidVmRate
<1>3. ~(rate.hourly < 0) /\ ~(rate.license < 0) /\ ~(rate.license > rate.hourly)
  BY <1>2
<1> QED
  BY <1>3 DEF VmErrors, Negative, When

(* What a project without issues is. *)

LEMMA NoIssue == ASSUME NEW c \in BOOLEAN, NEW f, NEW x, At(c, f, x) = {} PROVE ~c
BY DEF At

LEMMA IssuesOfParts ==
  ASSUME NEW p, Issues(p) = {}
  PROVE  /\ SettingsIssues(p.settings) = {}
         /\ \A i \in DOMAIN p.resources : ResourceIssues(p.resources[i], p.settings.type) = {}
         /\ \A i \in DOMAIN p.resources : \A j \in DOMAIN VolumesOf(p.resources[i]) :
              /\ VolumeIssues(VolumesOf(p.resources[i])[j]) = {}
              /\ p.resources[i].type # "ec2" => VmVolumeIssues(VolumesOf(p.resources[i])[j]) = {}
<1>1. InProject(ProjectIssues(p) \cup SettingsIssues(p.settings)) = {}
  BY DEF Issues
<1>2. SettingsIssues(p.settings) = {}
  BY <1>1 DEF InProject
<1>3. ASSUME NEW i \in DOMAIN p.resources PROVE ResourceIssues(p.resources[i], p.settings.type) = {}
  <2>1. InResource(i, ResourceIssues(p.resources[i], p.settings.type)) = {}
    BY DEF Issues
  <2> QED
    BY <2>1 DEF InResource
<1>4. ASSUME NEW i \in DOMAIN p.resources, NEW j \in DOMAIN VolumesOf(p.resources[i])
      PROVE  /\ VolumeIssues(VolumesOf(p.resources[i])[j]) = {}
             /\ p.resources[i].type # "ec2" => VmVolumeIssues(VolumesOf(p.resources[i])[j]) = {}
  <2> DEFINE at == <<i, j>>
  <2>1. at \in VolumePlaces(p)
    BY DEF VolumePlaces
  <2>2. at[1] = i /\ at[2] = j
    OBVIOUS
  <2> HIDE DEF at
  <2>3. InVolume(at[1], at[2], IF p.resources[at[1]].type = "ec2" THEN VolumeIssues(VolumeAt(p, at))
                               ELSE VmVolumeIssues(VolumeAt(p, at))) = {}
    <3> DEFINE part(a) == InVolume(a[1], a[2], IF p.resources[a[1]].type = "ec2" THEN VolumeIssues(VolumeAt(p, a))
                                               ELSE VmVolumeIssues(VolumeAt(p, a)))
               resource(k) == InResource(k, ResourceIssues(p.resources[k], p.settings.type))
    <3>1. Issues(p) = InProject(ProjectIssues(p) \cup SettingsIssues(p.settings))
                        \cup (UNION {resource(k) : k \in DOMAIN p.resources})
                        \cup (UNION {part(a) : a \in VolumePlaces(p)}) \cup DuplicateIssues(p)
      BY DEF Issues
    <3> HIDE DEF part, resource
    <3>2. part(at) = {}
      BY <2>1, <3>1
    <3> QED
      BY <3>2 DEF part
  <2>4. (IF p.resources[at[1]].type = "ec2" THEN VolumeIssues(VolumeAt(p, at))
         ELSE VmVolumeIssues(VolumeAt(p, at))) = {}
    BY <2>3 DEF InVolume
  <2>5. VolumeAt(p, at) = VolumesOf(p.resources[i])[j]
    BY <2>2 DEF VolumeAt
  <2> QED
    BY <2>2, <2>4, <2>5 DEF VmVolumeIssues
<1> QED
  BY <1>2, <1>3, <1>4

SettingsValid(s) ==
  /\ \A d \in Discounts : Within(s.discount[d], 0, Whole)
  /\ Within(s.hours, 0, MaxAnnualHours)
  /\ s.type = "on_prem" =>
       /\ s.discount.sourceCompute = 0 /\ s.discount.sourceStorage = 0
       /\ \A e \in Editions : s.pack[e] # {} /\ \A price \in s.pack[e] : price > 0
       /\ s.coverageMonths # {} /\ \A n \in s.coverageMonths : n \in {12, 24, 36}
       /\ s.electricityRate # {} /\ \A rate \in s.electricityRate : rate >= 0
  /\ s.type = "sql_payg" =>
       /\ s.sqlPayg # {}
       /\ \A q \in s.sqlPayg : ~(q.enterprise = 0 /\ q.standard = 0) /\ q.spend >= 0

LEMMA ValidSettings ==
  ASSUME NEW s, SettingsTyped(s), SettingsIssues(s) = {} PROVE SettingsValid(s)
<1>1. \A d \in Discounts : Within(s.discount[d], 0, Whole)
  <2>1. DiscountIssues(s) = {}
    BY DEF SettingsIssues
  <2>2. \A d \in Discounts : At(~Within(s.discount[d], 0, Whole), d, "range") = {}
    BY <2>1 DEF DiscountIssues
  <2> QED
    BY <2>2 DEF At
<1>2. Within(s.hours, 0, MaxAnnualHours)
  <2>1. At(~Within(s.hours, 0, MaxAnnualHours), "default_annual_hours", "range") = {}
    BY DEF SettingsIssues
  <2> QED
    BY <2>1 DEF At
<1>3. ASSUME s.type = "on_prem"
      PROVE  /\ s.discount.sourceCompute = 0 /\ s.discount.sourceStorage = 0
             /\ \A e \in Editions : s.pack[e] # {} /\ \A price \in s.pack[e] : price > 0
             /\ s.coverageMonths # {} /\ \A n \in s.coverageMonths : n \in {12, 24, 36}
             /\ s.electricityRate # {} /\ \A rate \in s.electricityRate : rate >= 0
  <2>1. OnPremSettingsIssues(s) = {}
    BY <1>3 DEF SettingsIssues
  <2>2. /\ At(s.discount.sourceCompute # 0 \/ s.discount.sourceStorage # 0,
              "settings", "on_prem_discount_not_allowed") = {}
        /\ At(s.coverageMonths \cap {12, 24, 36} = {}, "remaining_coverage_months", "required") = {}
        /\ At(\A rate \in s.electricityRate : rate < 0, "electricity_rate", "required") = {}
        /\ \A e \in {"enterprise", "standard"} : At(\A price \in s.pack[e] : price <= 0, e, "required") = {}
    <3> DEFINE pack(e) == At(\A price \in s.pack[e] : price <= 0, e, "required")
               first == At(s.discount.sourceCompute # 0 \/ s.discount.sourceStorage # 0,
                           "settings", "on_prem_discount_not_allowed")
               third == At(s.coverageMonths \cap {12, 24, 36} = {}, "remaining_coverage_months", "required")
               fourth == At(\A rate \in s.electricityRate : rate < 0, "electricity_rate", "required")
    <3>1. OnPremSettingsIssues(s) =
            first \cup (UNION {pack(e) : e \in {"enterprise", "standard"}}) \cup third \cup fourth
      BY DEF OnPremSettingsIssues
    <3> HIDE DEF pack, first, third, fourth
    <3>2. /\ first = {} /\ third = {} /\ fourth = {}
          /\ \A e \in {"enterprise", "standard"} : pack(e) = {}
      BY <2>1, <3>1
    <3>3. \A e \in {"enterprise", "standard"} : At(\A price \in s.pack[e] : price <= 0, e, "required") = {}
      BY <3>2 DEF pack
    <3>4. At(s.discount.sourceCompute # 0 \/ s.discount.sourceStorage # 0,
             "settings", "on_prem_discount_not_allowed") = {}
      BY <3>2 DEF first
    <3>5. At(s.coverageMonths \cap {12, 24, 36} = {}, "remaining_coverage_months", "required") = {}
      BY <3>2 DEF third
    <3>6. At(\A rate \in s.electricityRate : rate < 0, "electricity_rate", "required") = {}
      BY <3>2 DEF fourth
    <3> QED
      BY <3>3, <3>4, <3>5, <3>6
  <2>3. s.discount.sourceCompute = 0 /\ s.discount.sourceStorage = 0
    BY <2>2 DEF At
  <2>4. s.coverageMonths \cap {12, 24, 36} # {}
    BY <2>2 DEF At
  <2>5. \E rate \in s.electricityRate : ~(rate < 0)
    BY <2>2 DEF At
  <2>6. \A e \in Editions : \E price \in s.pack[e] : ~(price <= 0)
    BY <2>2 DEF At, Editions
  <2>7. \A opt \in {s.pack["enterprise"], s.pack["standard"], s.coverageMonths, s.electricityRate} :
          opt \subseteq Int /\ AtMostOne(opt)
    BY DEF SettingsTyped
  <2>8. \A e \in Editions : s.pack[e] # {} /\ \A price \in s.pack[e] : price > 0
    <3> TAKE e \in Editions
    <3>1. s.pack[e] \subseteq Int /\ AtMostOne(s.pack[e])
      BY <2>7 DEF Editions
    <3>2. PICK m \in s.pack[e] : ~(m <= 0)
      BY <2>6
    <3>3. m > 0
      BY <3>1, <3>2
    <3> QED
      BY <3>1, <3>3 DEF AtMostOne
  <2>9. \A n \in s.coverageMonths : n \in {12, 24, 36}
    <3>1. AtMostOne(s.coverageMonths)
      BY <2>7
    <3> QED
      BY <2>4, <3>1 DEF AtMostOne
  <2>10. \A rate \in s.electricityRate : rate >= 0
    <3>1. AtMostOne(s.electricityRate) /\ s.electricityRate \subseteq Int
      BY <2>7
    <3>2. PICK m \in s.electricityRate : ~(m < 0)
      BY <2>5
    <3>3. m >= 0
      BY <3>1, <3>2
    <3> QED
      BY <3>1, <3>3 DEF AtMostOne
  <2> QED
    BY <2>3, <2>4, <2>5, <2>8, <2>9, <2>10
<1>4. ASSUME s.type = "sql_payg"
      PROVE  /\ s.sqlPayg # {}
             /\ \A q \in s.sqlPayg : ~(q.enterprise = 0 /\ q.standard = 0) /\ q.spend >= 0
  <2>1. SqlPaygIssues(s) = {}
    BY <1>4 DEF SettingsIssues
  <2>2. At(s.sqlPayg = {}, "sql_payg", "required") = {}
    BY <2>1 DEF SqlPaygIssues
  <2>3. \A q \in s.sqlPayg : /\ At(q.enterprise = 0 /\ q.standard = 0, "sql_payg", "required") = {}
                             /\ At(q.spend < 0, "software_assurance_annual_usd", "range") = {}
    BY <2>1 DEF SqlPaygIssues
  <2>4. \A q \in s.sqlPayg : q.spend \in Int
    BY DEF SettingsTyped
  <2>5. s.sqlPayg # {} /\ \A q \in s.sqlPayg : ~(q.enterprise = 0 /\ q.standard = 0) /\ ~(q.spend < 0)
    BY <2>2, <2>3 DEF At
  <2> QED
    BY <2>4, <2>5
<1> QED
  BY <1>1, <1>2, <1>3, <1>4 DEF SettingsValid

ResourceValid(r) ==
  /\ r.ram > 0 /\ r.quantity >= 1 /\ r.hours >= 0 /\ r.hours <= MaxAnnualHours
  /\ \A q \in r.sql : q.data >= 0
  /\ r.type = "on_prem" =>
       /\ r.vcpu >= 1 /\ r.cores >= 1 /\ r.capex >= 0 /\ r.years >= 1 /\ \A kw \in r.power : kw > 0
  /\ r.type \in {"ec2", "ec2_vm"} =>
       /\ VolumesValid(r)
       /\ \A i \in DOMAIN r.volumes : r.volumes[i].capacity >= 0 /\ \A t \in r.volumes[i].throughput : t >= 0
  /\ r.type = "ec2_vm" =>
       /\ Cardinality(OsDisks(r)) = 1
       /\ \A i \in DOMAIN r.volumes : r.volumes[i].type # "ephemeral"

LEMMA ValidVolumes ==
  ASSUME NEW r, Typed(r), r.type \in {"ec2", "ec2_vm"},
         \A j \in DOMAIN r.volumes : VolumeIssues(r.volumes[j]) = {}
  PROVE  /\ VolumesValid(r)
         /\ \A i \in DOMAIN r.volumes : r.volumes[i].capacity >= 0 /\ \A t \in r.volumes[i].throughput : t >= 0
<1>1. ASSUME NEW i \in DOMAIN r.volumes
      PROVE  /\ r.volumes[i].iops \subseteq Nat /\ AtMostOne(r.volumes[i].iops)
             /\ r.volumes[i].type # "ephemeral" => r.volumes[i].iops # {}
             /\ r.volumes[i].capacity >= 0 /\ \A t \in r.volumes[i].throughput : t >= 0
  <2> DEFINE v == r.volumes[i]
  <2>1. v \in Range(r.volumes)
    BY DEF Range
  <2>2. v.capacity \in Int /\ v.iops \subseteq Nat /\ v.throughput \subseteq Int /\ AtMostOne(v.iops)
    BY <2>1 DEF Typed
  <2>3. VolumeIssues(v) = {}
    OBVIOUS
  <2> HIDE DEF v
  <2>4. ~(v.capacity < 0) /\ ~(v.type # "ephemeral" /\ v.iops = {}) /\ ~(\E t \in v.throughput : t < 0)
    BY <2>3 DEF VolumeIssues, At
  <2>5. v.capacity >= 0 /\ \A t \in v.throughput : t >= 0
    BY <2>2, <2>4
  <2> QED
    BY <2>2, <2>4, <2>5 DEF v
<1> QED
  BY <1>1 DEF VolumesValid

LEMMA ValidResource ==
  ASSUME NEW r, Typed(r), NEW type, ResourceIssues(r, type) = {},
         \A j \in DOMAIN VolumesOf(r) : /\ VolumeIssues(VolumesOf(r)[j]) = {}
                                        /\ r.type # "ec2" => VmVolumeIssues(VolumesOf(r)[j]) = {}
  PROVE  ResourceValid(r) /\ r.type = type
<1>1. SharedIssues(r, type) = {}
  BY DEF ResourceIssues
<1>2. r.type = type
  <2>1. At(r.type # type, "source_type", "project_type_mismatch") = {}
    BY <1>1 DEF SharedIssues
  <2> QED
    BY <2>1 DEF At
<1>3. Within(r.quantity, 1, MaxQuantity)
  <2>1. At(~Within(r.quantity, 1, MaxQuantity), "quantity", "range") = {}
    BY <1>1 DEF SharedIssues
  <2> QED
    BY <2>1 DEF At
<1>4. \A q \in r.sql : Within(q.data, 0, MaxDataGb)
  <2>1. At(\E q \in r.sql : ~Within(q.data, 0, MaxDataGb), "sql_data_gb_per_instance", "range") = {}
    BY <1>1 DEF SharedIssues
  <2> QED
    BY <2>1 DEF At
<1>5. r.ram > 0 /\ r.quantity >= 1 /\ r.hours >= 0 /\ r.hours <= MaxAnnualHours /\ \A q \in r.sql : q.data >= 0
  <2>1. At(r.ram <= 0 \/ r.ram > MaxRamGb, "source_ram_gb_per_instance", "range") = {}
    BY <1>1 DEF SharedIssues
  <2>2. At(~Within(r.hours, 0, MaxAnnualHours), "annual_hours_per_instance", "range") = {}
    BY <1>1 DEF SharedIssues
  <2>3. ~(r.ram <= 0) /\ Within(r.hours, 0, MaxAnnualHours)
    BY <2>1, <2>2 DEF At
  <2>4. r.ram \in Int
    BY DEF Typed
  <2>5. r.ram > 0 /\ r.hours >= 0 /\ r.hours <= MaxAnnualHours
    BY <2>3, <2>4 DEF Within
  <2>6. r.quantity >= 1
    BY <1>3 DEF Within
  <2>7. \A q \in r.sql : q.data >= 0
    BY <1>4 DEF Within
  <2> QED
    BY <2>5, <2>6, <2>7
<1>6. ASSUME r.type = "on_prem"
      PROVE  /\ r.vcpu >= 1 /\ r.cores >= 1 /\ r.capex >= 0 /\ r.years >= 1 /\ \A kw \in r.power : kw > 0
  <2>1. OnPremIssues(r) = {}
    BY <1>6 DEF ResourceIssues
  <2>2. /\ Within(r.vcpu, 1, MaxCores) /\ Within(r.cores, 1, MaxCores) /\ ~(r.capex < 0) /\ ~(r.years <= 0)
        /\ ~(\E kw \in r.power : kw <= 0)
    BY <2>1 DEF OnPremIssues, At
  <2>3. r.capex \in Int /\ r.years \in Int /\ r.power \subseteq Int
    BY <1>6 DEF Typed
  <2> QED
    BY <2>2, <2>3 DEF Within
<1>7. ASSUME r.type \in {"ec2", "ec2_vm"}
      PROVE  /\ VolumesValid(r)
             /\ \A i \in DOMAIN r.volumes : r.volumes[i].capacity >= 0 /\ \A t \in r.volumes[i].throughput : t >= 0
  <2>1. VolumesOf(r) = r.volumes
    BY <1>7 DEF VolumesOf
  <2> QED
    BY <1>7, <2>1, ValidVolumes
<1>8. ASSUME r.type = "ec2_vm"
      PROVE  /\ Cardinality(OsDisks(r)) = 1
             /\ \A i \in DOMAIN r.volumes : r.volumes[i].type # "ephemeral"
  <2>1. VolumesOf(r) = r.volumes
    BY <1>8 DEF VolumesOf
  <2>2. \A i \in DOMAIN r.volumes : At(r.volumes[i].type = "ephemeral", "volume_type", "unsupported") = {}
    BY <1>8, <2>1 DEF VmVolumeIssues
  <2>3. Ec2VmIssues(r) = {}
    BY <1>8 DEF ResourceIssues
  <2>4. At(Cardinality(OsDisks(r)) # 1, "volumes", "os_disk") = {}
    BY <2>3 DEF Ec2VmIssues
  <2> QED
    BY <2>2, <2>4 DEF At
<1> QED
  BY <1>2, <1>5, <1>6, <1>7, <1>8 DEF ResourceValid

LEMMA ValidInput ==
  ASSUME project \in Projects, InputIssues = {}
  PROVE  /\ SettingsTyped(project.settings) /\ SettingsValid(project.settings)
         /\ \A i \in DOMAIN project.resources :
              /\ Typed(project.resources[i]) /\ ResourceValid(project.resources[i])
              /\ project.resources[i].type = project.settings.type
<1> DEFINE q == [project EXCEPT !.name = 11, !.description = {},
                                !.awsSnapshotId = {TRUE : s \in input.aws},
                                !.azureSnapshotId = {TRUE : s \in input.azure}]
<1>1. q.settings = project.settings /\ q.resources = project.resources
  BY ProjectsAssumption
<1>2. Issues(q) = {}
  BY DEF InputIssues
<1> HIDE DEF q
<1>3. SettingsTyped(project.settings)
  BY ProjectsAssumption
<1>4. SettingsIssues(project.settings) = {}
  BY <1>1, <1>2, IssuesOfParts
<1>5. ASSUME NEW i \in DOMAIN project.resources
      PROVE  /\ Typed(project.resources[i]) /\ ResourceValid(project.resources[i])
             /\ project.resources[i].type = project.settings.type
  <2>1. Typed(project.resources[i])
    BY ProjectsAssumption DEF Range
  <2>2. /\ ResourceIssues(project.resources[i], project.settings.type) = {}
        /\ \A j \in DOMAIN VolumesOf(project.resources[i]) :
              /\ VolumeIssues(VolumesOf(project.resources[i])[j]) = {}
              /\ project.resources[i].type # "ec2" => VmVolumeIssues(VolumesOf(project.resources[i])[j]) = {}
    BY <1>1, <1>2, IssuesOfParts
  <2> QED
    BY <2>1, <2>2, ValidResource
<1> QED
  BY <1>3, <1>4, <1>5, ValidSettings

(* What a valid resource asks of the selectors. *)

LEMMA RatesPositive ==
  ASSUME NEW s, AwsSound(s), NEW instance, NEW q
  PROVE  /\ Ec2Rates(s, instance) # {} => Value(Ec2Rates(s, instance)).vcpu \in Nat \ {0}
         /\ RdsRates(s, q) # {} => Value(RdsRates(s, q)).vcpu \in Nat \ {0}
<1>1. \A rate \in Ec2Rates(s, instance) : rate.vcpu \in Nat \ {0}
  BY FoundIsRecord DEF AwsSound, ValidEc2Rate
<1>2. \A rate \in RdsRates(s, q) : rate.vcpu \in Nat \ {0}
  BY FoundIsRecord DEF AwsSound, ValidRdsRate
<1> QED
  BY <1>1, <1>2 DEF Value

LEMMA SourcesPositive ==
  ASSUME NEW r, Typed(r), ResourceValid(r), NEW e, \A s \in e.aws : AwsSound(s),
         ResolveSource(r, e).vcpu # {}
  PROVE  Value(ResolveSource(r, e).vcpu) \in Nat \ {0}
<1>1. e.aws # {} => AwsSound(Value(e.aws))
  BY DEF Value
<1>2. CASE r.type = "ec2"
  <2>1. ResolveEc2(r, e).vcpu # {}
    BY <1>2 DEF ResolveSource
  <2>2. e.aws # {} /\ Ec2Rates(Value(e.aws), r.instance) # {}
    BY <2>1 DEF ResolveEc2, Unpriced
  <2>3. ResolveEc2(r, e).vcpu = {Value(Ec2Rates(Value(e.aws), r.instance)).vcpu}
    BY <2>2 DEF ResolveEc2, Priced
  <2>4. Value(Ec2Rates(Value(e.aws), r.instance)).vcpu \in Nat \ {0}
    BY <1>1, <2>2, RatesPositive
  <2>5. Value(ResolveEc2(r, e).vcpu) \in Nat \ {0}
    BY <2>3, <2>4 DEF Value
  <2> QED
    BY <1>2, <2>5 DEF ResolveSource
<1>3. CASE r.type = "rds"
  <2>1. ResolveRds(r, e).vcpu # {}
    BY <1>3 DEF ResolveSource
  <2>2. e.aws # {} /\ RdsRates(Value(e.aws), r) # {}
    BY <2>1 DEF ResolveRds, Unpriced
  <2>3. ResolveRds(r, e).vcpu = {Value(RdsRates(Value(e.aws), r)).vcpu}
    BY <2>2 DEF ResolveRds, Priced
  <2>4. Value(RdsRates(Value(e.aws), r)).vcpu \in Nat \ {0}
    BY <1>1, <2>2, RatesPositive
  <2>5. Value(ResolveRds(r, e).vcpu) \in Nat \ {0}
    BY <2>3, <2>4 DEF Value
  <2> QED
    BY <1>3, <2>5 DEF ResolveSource
<1>4. CASE r.type = "ec2_vm"
  <2>1. ResolveEc2Vm(r, e).vcpu # {}
    BY <1>4 DEF ResolveSource
  <2>2. e.aws # {} /\ Ec2Rates(Value(e.aws), r.instance) # {}
    BY <2>1 DEF ResolveEc2Vm, Unpriced
  <2>3. ResolveEc2Vm(r, e).vcpu = {Value(Ec2Rates(Value(e.aws), r.instance)).vcpu}
    BY <2>2 DEF ResolveEc2Vm, Priced
  <2>4. Value(Ec2Rates(Value(e.aws), r.instance)).vcpu \in Nat \ {0}
    BY <1>1, <2>2, RatesPositive
  <2>5. Value(ResolveEc2Vm(r, e).vcpu) \in Nat \ {0}
    BY <2>3, <2>4 DEF Value
  <2> QED
    BY <1>4, <2>5 DEF ResolveSource
<1>5. CASE r.type = "on_prem"
  <2>1. ResolveOnPrem(r, e).vcpu = {r.vcpu}
    BY DEF ResolveOnPrem
  <2>2. r.vcpu \in Nat /\ r.vcpu >= 1
    BY <1>5 DEF Typed, ResourceValid
  <2>3. Value(ResolveOnPrem(r, e).vcpu) \in Nat \ {0}
    BY <2>1, <2>2 DEF Value
  <2> QED
    BY <1>5, <2>3 DEF ResolveSource
<1> QED
  BY <1>2, <1>3, <1>4, <1>5 DEF Typed, AwsTypes

LEMMA PersistentFinite ==
  ASSUME NEW r, Typed(r), r.type \in {"ec2", "ec2_vm"}
  PROVE  IsFiniteSet(Persistent(r)) /\ Persistent(r) \in SUBSET (DOMAIN r.volumes)
<1>1. r.volumes \in Seq(Range(r.volumes))
  BY DEF Typed
<1>2. DOMAIN r.volumes = 1..Len(r.volumes) /\ Len(r.volumes) \in Nat
  BY <1>1
<1>3. IsFiniteSet(1..Len(r.volumes))
  BY <1>2, FS_Interval
<1> QED
  BY <1>2, <1>3, FS_Subset DEF Persistent

LEMMA EbsGbType ==
  ASSUME NEW r, Typed(r) PROVE EbsGb(r) \in Int
<1>1. CASE r.type \in {"ec2", "ec2_vm"}
  <2> DEFINE D == [i \in Persistent(r) |-> r.volumes[i]]
             gb == [i \in DOMAIN D |-> D[i].capacity]
  <2>1. EbsGb(r) = FoldFunction(+, 0, gb)
    BY <1>1 DEF EbsGb, Total
  <2>2. DOMAIN gb = Persistent(r)
    OBVIOUS
  <2>3. IsFiniteSet(Persistent(r)) /\ Persistent(r) \in SUBSET (DOMAIN r.volumes)
    BY <1>1, PersistentFinite
  <2>4. \A i \in Persistent(r) : gb[i] \in Int
    <3> TAKE i \in Persistent(r)
    <3>1. r.volumes[i] \in Range(r.volumes)
      BY <2>3 DEF Range
    <3>2. r.volumes[i].capacity \in Int
      BY <1>1, <3>1 DEF Typed
    <3> QED
      BY <3>2
  <2> HIDE DEF gb
  <2>5. SumOn(gb, Persistent(r)) \in Int
    BY <2>3, <2>4, SumType
  <2> QED
    BY <2>1, <2>2, <2>5, FoldSums
<1>2. CASE r.type \notin {"ec2", "ec2_vm"}
  BY <1>2 DEF EbsGb
<1> QED
  BY <1>1, <1>2

LEMMA StorageAsked ==
  ASSUME NEW r, Typed(r), r.type # "ec2_vm"
  PROVE  StorageInputs(r).azure \in Int /\ StorageInputs(r).azure >= 0
<1> DEFINE gb == SqlData(r) + EbsGb(r)
<1>1. SqlData(r) \in Int
  BY DEF SqlData, Value, Typed
<1>2. gb \in Int
  BY <1>1, EbsGbType
<1>3. StorageInputs(r).azure = ConfiguredStorage(gb)
  BY DEF StorageInputs
<1> HIDE DEF gb
<1>4. (gb + 32 - 1) \div 32 \in Int
  BY <1>2
<1>5. ConfiguredStorage(gb) \in Int /\ ConfiguredStorage(gb) >= 0
  BY <1>2, <1>4 DEF ConfiguredStorage, CeilDiv, Most, UnitGb
<1> QED
  BY <1>3, <1>5

LEMMA MiRequestAccepted ==
  ASSUME NEW r, Typed(r), ResourceValid(r), r.type # "ec2_vm", NEW e, \A s \in e.aws : AwsSound(s),
         ResolveSource(r, e).vcpu # {}
  PROVE  RequestError(MiRequest(r, e, ResolveSource(r, e), StorageInputs(r))) = "none"
<1> DEFINE shape == MiRequest(r, e, ResolveSource(r, e), StorageInputs(r))
<1>1. /\ shape.vcpu = Value(ResolveSource(r, e).vcpu) /\ shape.memory = r.ram
      /\ shape.storage = StorageInputs(r).azure
  BY DEF MiRequest
<1>2. Value(ResolveSource(r, e).vcpu) \in Nat \ {0}
  BY SourcesPositive
<1>3. r.ram \in Int /\ r.ram > 0
  BY DEF Typed, ResourceValid
<1>4. StorageInputs(r).azure \in Int /\ StorageInputs(r).azure >= 0
  BY StorageAsked
<1> HIDE DEF shape
<1>5. ~(shape.vcpu = 0) /\ ~(shape.memory <= 0) /\ ~(shape.storage < 0)
  BY <1>1, <1>2, <1>3, <1>4
<1>6. RequestError(shape) = "none"
  BY <1>5 DEF RequestError
<1> QED
  BY <1>6 DEF shape

LEMMA VmRequestAccepted ==
  ASSUME NEW r, Typed(r), ResourceValid(r), r.type = "ec2_vm", NEW e, \A s \in e.aws : AwsSound(s),
         ResolveSource(r, e).vcpu # {}, NEW class
  PROVE  VmRequestError(VmRequest(r, e, Value(ResolveSource(r, e).vcpu), class)) = "none"
<1> DEFINE size == VmRequest(r, e, Value(ResolveSource(r, e).vcpu), class)
<1>1. /\ size.vcpu = Value(ResolveSource(r, e).vcpu) /\ size.memory = r.ram
      /\ size.volumes = Volumes(r)
  BY DEF VmRequest
<1>2. Value(ResolveSource(r, e).vcpu) \in Nat \ {0}
  BY SourcesPositive
<1>3. r.ram \in Int /\ r.ram > 0
  BY DEF Typed, ResourceValid
<1>4. Cardinality(OsDisks(r)) = 1 /\ \A i \in DOMAIN r.volumes : r.volumes[i].type # "ephemeral"
  BY DEF ResourceValid
<1>5. DOMAIN Volumes(r) = DOMAIN r.volumes
  BY <1>4 DEF Volumes, Persistent
<1>6. \A i \in DOMAIN r.volumes : Volumes(r)[i].role = r.volumes[i].role
  BY <1>4 DEF Volumes, Persistent
<1>7. {i \in DOMAIN Volumes(r) : Volumes(r)[i].role = "os"} = OsDisks(r)
  BY <1>5, <1>6 DEF OsDisks
<1>8. Volumes(r) # <<>>
  <2>1. OsDisks(r) # {}
    BY <1>4, FS_EmptySet
  <2> QED
    BY <1>5, <2>1 DEF OsDisks
<1> HIDE DEF size
<1>9. ~(size.vcpu = 0) /\ ~(size.memory <= 0) /\ ~(size.volumes = <<>>)
  BY <1>1, <1>2, <1>3, <1>8
<1>10. Cardinality({i \in DOMAIN size.volumes : size.volumes[i].role = "os"}) = 1
  BY <1>1, <1>4, <1>7
<1>11. VmRequestError(size) = "none"
  BY <1>9, <1>10 DEF VmRequestError, Quantify
<1> QED
  BY <1>11 DEF size

LEMMA OnPremAccepted ==
  ASSUME NEW r, Typed(r), r.type = "on_prem", NEW s, SettingsTyped(s), SettingsValid(s), s.type = "on_prem"
  PROVE  OnPremErrors(r, s) = {}
<1>1. /\ \A e \in Editions : s.pack[e] # {} /\ \A price \in s.pack[e] : price > 0
      /\ s.coverageMonths # {} /\ s.electricityRate # {} /\ \A rate \in s.electricityRate : rate >= 0
  BY DEF SettingsValid
<1>2. Value(r.sql).edition \in Editions
  BY DEF Typed, Value
<1>3. s.pack[Value(r.sql).edition] # {} /\ \A price \in s.pack[Value(r.sql).edition] : price > 0
  BY <1>1, <1>2
<1>4. s.pack[Value(r.sql).edition] \subseteq Int /\ s.electricityRate \subseteq Int
  BY <1>2 DEF SettingsTyped, Editions
<1>5. \A x \in s.pack[Value(r.sql).edition] \cup s.electricityRate : ~(x < 0)
  BY <1>1, <1>3, <1>4
<1> QED
  BY <1>1, <1>3, <1>5 DEF OnPremErrors, When, Negative

LEMMA RowAccepted ==
  ASSUME NEW r, Typed(r), ResourceValid(r), NEW e, \A s \in e.aws : AwsSound(s),
         SettingsTyped(e.settings), SettingsValid(e.settings), r.type = e.settings.type
  PROVE  RowErrors(r, e) = {}
<1>1. ~(r.type = "on_prem" /\ OnPremErrors(r, e.settings) # {})
  BY OnPremAccepted
<1> DEFINE source == ResolveSource(r, e)
<1>2. CASE source.vcpu = {}
  BY <1>1, <1>2 DEF RowErrors
<1>3. CASE source.vcpu # {} /\ r.type # "ec2_vm"
  <2>1. RequestError(MiRequest(r, e, source, StorageInputs(r))) = "none"
    BY <1>3, MiRequestAccepted
  <2> HIDE DEF source
  <2>2. {RequestError(MiRequest(r, e, source, StorageInputs(r)))} \ {"none"} = {}
    BY <2>1
  <2> QED
    BY <1>1, <1>3, <2>2 DEF RowErrors, source
<1>4. CASE source.vcpu # {} /\ r.type = "ec2_vm"
  <2> DEFINE size == VmRequest(r, e, Value(source.vcpu), Value(SourceClass(r.family)))
  <2>1. VmRequestError(size) = "none"
    BY <1>4, VmRequestAccepted
  <2> HIDE DEF size
  <2>2. {VmRequestError(size)} \ {"none"} = {}
    BY <2>1
  <2> QED
    BY <1>1, <1>4, <2>2 DEF RowErrors, size
<1> QED
  BY <1>2, <1>3, <1>4

LEMMA SqlPaygAccepted ==
  ASSUME NEW s, SettingsTyped(s), SettingsValid(s), s.type = "sql_payg"
  PROVE  SqlPaygErrors(Value(s.sqlPayg), s.hours, s.discount.parity) = {}
<1> DEFINE q == Value(s.sqlPayg)
<1>1. q \in s.sqlPayg
  BY DEF SettingsValid, Value
<1>2. ~(q.enterprise = 0 /\ q.standard = 0) /\ q.spend >= 0 /\ q.spend \in Int
  BY <1>1 DEF SettingsValid, SettingsTyped
<1> HIDE DEF q
<1>3. 0 <= s.hours /\ s.hours <= MaxAnnualHours /\ s.hours \in Int
  BY DEF SettingsValid, SettingsTyped, Within
<1>4. 0 <= s.discount.parity /\ s.discount.parity <= Whole /\ s.discount.parity \in Int
  <2>1. Within(s.discount["parity"], 0, Whole) /\ s.discount["parity"] \in Int
    BY DEF SettingsValid, SettingsTyped, Discounts
  <2> QED
    BY <2>1 DEF Within
<1>5. /\ ~(q.spend < 0) /\ ~(s.hours < 0 \/ s.hours > 8784)
      /\ ~(s.discount.parity < 0)
  BY <1>2, <1>3, <1>4, SMT DEF MaxAnnualHours
<1>6. ~(s.discount.parity > Whole)
  BY <1>4, WholeAssumption
<1>7. SqlPaygErrors(q, s.hours, s.discount.parity) = {}
  BY <1>2, <1>5, <1>6, SMT DEF SqlPaygErrors, When
<1> QED
  BY <1>7 DEF q

\* the snapshots are those of the feeds, and only valid input has rows
AcceptInv ==
  /\ EstimateInv
  /\ feed.aws \in AwsFeeds /\ feed.azure \in AzureFeeds
  /\ \A s \in stored.aws \cup input.aws :
       s \in AwsSnapshot(feed.aws.metadata, feed.aws.ec2, feed.aws.rds, feed.aws.ebs)
  /\ \A s \in stored.azure \cup input.azure :
       s \in AzureSnapshot(feed.azure.metadata, feed.azure.mi, feed.azure.vm, feed.azure.disks)
  /\ phase \in {"rows", "sql_payg"} => InputIssues = {}
  /\ rows # <<>> => InputIssues = {}
  /\ phase = "sql_payg" => project.settings.type = "sql_payg"
  /\ ValidIsCalculated

LEMMA SnapshotsSound ==
  ASSUME AcceptInv
  PROVE  /\ \A s \in stored.aws \cup input.aws : StoredAws(s) = {s} /\ AwsSound(s)
         /\ \A s \in stored.azure \cup input.azure : StoredAzure(s) = {s} /\ AzureSound(s)
<1>1. ASSUME NEW s \in stored.aws \cup input.aws PROVE StoredAws(s) = {s} /\ AwsSound(s)
  <2>1. s \in AwsSnapshot(feed.aws.metadata, feed.aws.ec2, feed.aws.rds, feed.aws.ebs)
    BY DEF AcceptInv
  <2>2. /\ feed.aws.metadata \in SnapshotCreationMetadata /\ feed.aws.ec2 \in Seq(AwsEc2RateRecord)
        /\ feed.aws.rds \in Seq(AwsRdsRateRecord) /\ feed.aws.ebs \in Seq(AwsEbsRateRecord)
    BY FeedsAssumption DEF AcceptInv
  <2>3. s \in StoredAws(s) /\ AwsSound(s)
    BY <2>1, <2>2, AwsIsSound
  <2>4. \A x, y \in StoredAws(s) : x = y
    BY DEF StoredAws, AwsSnapshot
  <2> QED
    BY <2>3, <2>4
<1>2. ASSUME NEW s \in stored.azure \cup input.azure PROVE StoredAzure(s) = {s} /\ AzureSound(s)
  <2>1. s \in AzureSnapshot(feed.azure.metadata, feed.azure.mi, feed.azure.vm, feed.azure.disks)
    BY DEF AcceptInv
  <2>2. /\ feed.azure.metadata \in SnapshotCreationMetadata /\ feed.azure.mi \in Seq(AzureMiRateRecord)
        /\ feed.azure.vm \in Seq(AzureVmRateRecord) /\ feed.azure.disks \in Seq(AzureManagedDiskRateRecord)
    BY FeedsAssumption DEF AcceptInv
  <2>3. s \in StoredAzure(s) /\ AzureSound(s)
    BY <2>1, <2>2, AzureIsSound
  <2>4. \A x, y \in StoredAzure(s) : x = y
    BY DEF StoredAzure, AzureSnapshot
  <2> QED
    BY <2>3, <2>4
<1> QED
  BY <1>1, <1>2

LEMMA AcceptBegins == Init => AcceptInv
<1> SUFFICES ASSUME Init PROVE AcceptInv
  OBVIOUS
<1>1. EstimateInv
  BY EstimateBegins
<1>2. feed.aws \in AwsFeeds /\ feed.azure \in AzureFeeds
  BY DEF Init
<1>3. /\ stored.aws = {} /\ stored.azure = {} /\ input.aws = {} /\ input.azure = {}
      /\ phase = "refresh" /\ rows = <<>> /\ answer = {}
  BY DEF Init, Providers
<1> QED
  BY <1>1, <1>2, <1>3 DEF AcceptInv, ValidIsCalculated

LEMMA RefreshAccepts ==
  ASSUME AcceptInv, Refresh, EstimateInv' PROVE AcceptInv'
<1>1. /\ UNCHANGED <<project, feed, input, rows, answer>> /\ phase' = "resolve_aws"
      /\ stored'.aws = AwsSnapshot(feed.aws.metadata, feed.aws.ec2, feed.aws.rds, feed.aws.ebs)
      /\ stored'.azure = AzureSnapshot(feed.azure.metadata, feed.azure.mi, feed.azure.vm, feed.azure.disks)
  BY DEF Refresh
<1>2. InputIssues' = InputIssues
  BY <1>1 DEF InputIssues
<1> QED
  BY <1>1, <1>2 DEF AcceptInv, ValidIsCalculated

\* a step that leaves the snapshots alone and answers nothing, or is refused for a reason of its own
LEMMA OthersAccept ==
  ASSUME AcceptInv, EstimateInv', UNCHANGED <<project, feed, stored, input>>,
         phase' \in {"rows", "sql_payg"} \/ rows' # <<>> => InputIssues = {},
         phase' = "sql_payg" => project.settings.type = "sql_payg",
         \A a \in answer' : a.problem = "internal" => a.by = {"lookup"}
  PROVE  AcceptInv'
<1>1. InputIssues' = InputIssues
  BY DEF InputIssues
<1> QED
  BY <1>1 DEF AcceptInv, ValidIsCalculated

LEMMA ResolveAccepts ==
  ASSUME AcceptInv, ResolveAws \/ ResolveAzure, EstimateInv' PROVE AcceptInv'
<1> PICK provider \in {"aws", "azure"}, here \in {"resolve_aws", "resolve_azure"},
         next \in {"resolve_azure", "validate"} : Resolve(provider, here, next)
  BY DEF ResolveAws, ResolveAzure
<1>1. /\ UNCHANGED <<project, expected, feed, stored, rows>> /\ rows = <<>>
  BY DEF Resolve, AcceptInv, EstimateInv, BeforeRows
<1>2. Load.aws = stored.aws /\ Load.azure = stored.azure
  <2>1. \A s \in stored.aws : StoredAws(s) = {s}
    BY SnapshotsSound
  <2>2. \A s \in stored.azure : StoredAzure(s) = {s}
    BY SnapshotsSound
  <2> QED
    BY <2>1, <2>2 DEF Load
<1>3. \A a \in answer : a.problem = "internal" => a.by = {"lookup"}
  BY DEF AcceptInv, ValidIsCalculated
<1>4. CASE Named[provider] = {} /\ phase' = next /\ UNCHANGED <<input, answer>>
  BY <1>1, <1>3, <1>4, OthersAccept
<1>5. CASE Refuse("internal", {"lookup"}) /\ UNCHANGED input
  BY <1>1, <1>5, OthersAccept DEF Refuse, Answer
<1>6. CASE Refuse("snapshot_unavailable", {}) /\ UNCHANGED input
  BY <1>1, <1>6, OthersAccept DEF Refuse, Answer
<1>7. CASE stored[provider] # {} /\ input' = [input EXCEPT ![provider] = Load[provider]]
           /\ phase' = next /\ UNCHANGED answer
  <2>1. DOMAIN input = {"aws", "azure"}
    BY DEF AcceptInv, EstimateInv, Providers
  <2>2. input'.aws \subseteq stored.aws \cup input.aws /\ input'.azure \subseteq stored.azure \cup input.azure
    BY <1>2, <1>7, <2>1
  <2>3. stored' = stored /\ feed' = feed /\ rows' = <<>> /\ phase' \notin {"rows", "sql_payg"}
    BY <1>1, <1>7
  <2> QED
    BY <1>3, <1>7, <2>2, <2>3 DEF AcceptInv, ValidIsCalculated
<1>8. Load[provider] # {} \/ stored[provider] = {}
  BY <1>2
<1> QED
  BY <1>4, <1>5, <1>6, <1>7, <1>8 DEF Resolve

LEMMA ValidateAccepts ==
  ASSUME AcceptInv, Validate, EstimateInv' PROVE AcceptInv'
<1>1. UNCHANGED <<project, expected, feed, stored, input, rows>> /\ rows = <<>>
  BY DEF Validate, AcceptInv, EstimateInv, BeforeRows
<1>2. CASE Refuse("validation", {"formula"}) \/ Refuse("validation", InputIssues) \/ Refuse("snapshot_unavailable", {})
  <2>1. phase' = "answered" /\ \A a \in answer' : a.problem # "internal"
    BY <1>2 DEF Refuse, Answer
  <2> QED
    BY <1>1, <2>1, OthersAccept
<1>3. CASE /\ InputIssues = {} /\ UNCHANGED answer
           /\ phase' = IF project.settings.type = "sql_payg" THEN "sql_payg" ELSE "rows"
  <2>1. \A a \in answer' : a.problem = "internal" => a.by = {"lookup"}
    BY <1>3 DEF AcceptInv, ValidIsCalculated
  <2>2. phase' = "sql_payg" => project.settings.type = "sql_payg"
    BY <1>3
  <2> QED
    BY <1>1, <1>3, <2>1, <2>2, OthersAccept
<1> QED
  BY <1>2, <1>3 DEF Validate

LEMMA CalculateAccepts ==
  ASSUME AcceptInv, CalculateResource, EstimateInv' PROVE AcceptInv'
<1> DEFINE r == project.resources[Len(rows) + 1]
<1>1. /\ UNCHANGED <<project, expected, feed, stored, input>> /\ phase = "rows"
      /\ Len(rows) < Len(project.resources)
  BY DEF CalculateResource
<1>2. project \in Projects /\ InputIssues = {}
  BY <1>1 DEF AcceptInv, EstimateInv
<1>3. Len(rows) + 1 \in DOMAIN project.resources
  <2>1. project.resources \in Seq(Range(project.resources))
    BY <1>2, ProjectsAssumption
  <2>2. Len(rows) \in Nat
    BY DEF AcceptInv, EstimateInv
  <2> QED
    BY <1>1, <2>1, <2>2
<1>4. /\ SettingsTyped(project.settings) /\ SettingsValid(project.settings)
      /\ Typed(r) /\ ResourceValid(r) /\ r.type = project.settings.type
  BY <1>2, <1>3, ValidInput
<1>5. \A s \in Estimate.aws : AwsSound(s)
  BY SnapshotsSound DEF Estimate
<1>6. RowErrors(r, Estimate) = {}
  <2>1. Estimate.settings = project.settings
    BY DEF Estimate
  <2> HIDE DEF r
  <2> QED
    BY <1>4, <1>5, <2>1, RowAccepted
<1>7. answer' = answer /\ phase' \in {"rows", "panicked"}
  BY <1>1, <1>6 DEF CalculateResource, Panic
<1>8. \A a \in answer' : a.problem = "internal" => a.by = {"lookup"}
  BY <1>7 DEF AcceptInv, ValidIsCalculated
<1> QED
  BY <1>1, <1>2, <1>7, <1>8, OthersAccept

LEMMA SqlPaygAccepts ==
  ASSUME AcceptInv, CalculateSqlPayg, EstimateInv' PROVE AcceptInv'
<1> DEFINE s == project.settings
<1>1. UNCHANGED <<project, expected, feed, stored, input, rows>> /\ phase = "sql_payg"
  BY DEF CalculateSqlPayg
<1>2. project \in Projects /\ InputIssues = {} /\ s.type = "sql_payg"
  BY <1>1 DEF AcceptInv, EstimateInv
<1>3. SettingsTyped(s) /\ SettingsValid(s)
  BY <1>2, ValidInput
<1>4. SqlPaygErrors(Value(s.sqlPayg), s.hours, s.discount.parity) = {}
  <2> HIDE DEF s
  <2> QED
    BY <1>2, <1>3, SqlPaygAccepted
<1>5. /\ phase' \in {"answered", "panicked"}
      /\ answer' = answer \/ \A a \in answer' : a.problem = "none"
  BY <1>4 DEF CalculateSqlPayg, Panic, Answer, Revision
<1>6. \A a \in answer' : a.problem = "internal" => a.by = {"lookup"}
  BY <1>5 DEF AcceptInv, ValidIsCalculated
<1> QED
  BY <1>1, <1>2, <1>5, <1>6, OthersAccept

LEMMA AcceptGoesOn == AcceptInv /\ [Next]_vars => AcceptInv'
<1> SUFFICES ASSUME AcceptInv, [Next]_vars PROVE AcceptInv'
  OBVIOUS
<1>1. EstimateInv'
  BY EstimateGoesOn DEF AcceptInv
<1>2. CASE Refresh
  BY <1>1, <1>2, RefreshAccepts
<1>3. CASE ResolveAws \/ ResolveAzure
  BY <1>1, <1>3, ResolveAccepts
<1>4. CASE Validate
  BY <1>1, <1>4, ValidateAccepts
<1>5. CASE CalculateResource
  BY <1>1, <1>5, CalculateAccepts
<1>6. CASE CalculateSqlPayg
  BY <1>1, <1>6, SqlPaygAccepts
<1>7. CASE Busy \/ Finish
  <2>1. UNCHANGED <<project, expected, feed, stored, input, rows>> /\ phase' \in {"answered", "panicked"}
        /\ (answer' = answer \/ \A a \in answer' : a.problem # "internal")
    BY <1>7 DEF Busy, Finish, Panic, Refuse, Answer, Revision
  <2>2. rows' # <<>> => InputIssues = {}
    BY <2>1 DEF AcceptInv
  <2>3. \A a \in answer' : a.problem = "internal" => a.by = {"lookup"}
    BY <2>1 DEF AcceptInv, ValidIsCalculated
  <2> QED
    BY <1>1, <2>1, <2>2, <2>3, OthersAccept
<1>8. CASE UNCHANGED vars
  <2>1. UNCHANGED <<project, feed, stored, input, phase, rows, answer>>
    BY <1>8 DEF vars
  <2>2. \A a \in answer' : a.problem = "internal" => a.by = {"lookup"}
    BY <2>1 DEF AcceptInv, ValidIsCalculated
  <2>3. phase' \in {"rows", "sql_payg"} \/ rows' # <<>> => InputIssues = {}
    BY <2>1 DEF AcceptInv
  <2>4. phase' = "sql_payg" => project.settings.type = "sql_payg"
    BY <2>1 DEF AcceptInv
  <2> QED
    BY <1>1, <2>1, <2>2, <2>3, <2>4, OthersAccept
<1> QED
  BY <1>2, <1>3, <1>4, <1>5, <1>6, <1>7, <1>8 DEF Next

LEMMA AcceptSuffices == AcceptInv => AcceptedIsCalculable
<1> SUFFICES ASSUME AcceptInv, NEW i \in DOMAIN rows
             PROVE  LET r == project.resources[i]
                    IN /\ \A s \in input.aws :
                            /\ r.type = "ec2" => \A rate \in Ec2Rates(s, r.instance) :
                                 Ec2Errors(r, rate, s.content.ebs) \subseteq {"missing_source_license_rate", "missing_ebs_rate"}
                            /\ r.type = "ec2_vm" => \A rate \in Ec2Rates(s, r.instance) :
                                 Ec2VmErrors(r, rate, s.content.ebs) \subseteq {"missing_ebs_rate"}
                            /\ r.type = "rds" => \A rate \in RdsRates(s, r) : RdsErrors(r, rate) = {}
                       /\ \A s \in input.azure :
                            /\ \A t \in rows[i].target : \A x \in t.selected :
                                 HasCompleteMiRateSet(s, x.shape.key) =>
                                   MiErrors(Value(MiRates(s, x.shape.key, Value(r.sql).option))) = {}
                            /\ \A v \in rows[i].vm : \A x \in v.selected :
                                 /\ AllDiskErrors(x, s) \subseteq {"missing_azure_managed_disk_rate"}
                                 /\ \A rate \in VmRates(s, x.size.name, r.option) : VmErrors(rate) = {}
  BY DEF AcceptInv, AcceptedIsCalculable, RatesSuffice
<1> DEFINE r == project.resources[i]
<1>1. project \in Projects /\ InputIssues = {} /\ i \in DOMAIN project.resources
  <2>1. project.resources \in Seq(Range(project.resources))
    BY ProjectsAssumption DEF AcceptInv, EstimateInv
  <2>2. rows # <<>>
    OBVIOUS
  <2> QED
    BY <2>1, <2>2 DEF AcceptInv, EstimateInv
<1>2. Typed(r) /\ ResourceValid(r)
  BY <1>1, ValidInput
<1>3. r.type # "ec2_vm" => LicenceTyped(r)
  BY <1>2 DEF Typed, LicenceTyped
<1>4. rows[i] = CalculateRow(r, Estimate)
  BY DEF AcceptInv, EstimateInv
<1>5. r.type = "ec2_vm" => rows[i].target = {}
  BY <1>4, VmTargets DEF CalculateRow
<1>6. r.type \in {"ec2", "ec2_vm"} => VolumesValid(r)
  BY <1>2 DEF ResourceValid
<1> HIDE DEF r
<1>7. ASSUME NEW s \in input.aws
      PROVE  /\ r.type = "ec2" => \A rate \in Ec2Rates(s, r.instance) :
                  Ec2Errors(r, rate, s.content.ebs) \subseteq {"missing_source_license_rate", "missing_ebs_rate"}
             /\ r.type = "ec2_vm" => \A rate \in Ec2Rates(s, r.instance) :
                  Ec2VmErrors(r, rate, s.content.ebs) \subseteq {"missing_ebs_rate"}
             /\ r.type = "rds" => \A rate \in RdsRates(s, r) : RdsErrors(r, rate) = {}
  <2>1. AwsSound(s)
    BY SnapshotsSound
  <2>2. ASSUME r.type \in {"ec2", "ec2_vm"}, NEW rate \in Ec2Rates(s, r.instance)
        PROVE  /\ Ec2VmErrors(r, rate, s.content.ebs) \subseteq {"missing_ebs_rate"}
               /\ LicenceTyped(r) => Ec2Errors(r, rate, s.content.ebs)
                                       \subseteq {"missing_source_license_rate", "missing_ebs_rate"}
    BY <1>6, <2>1, <2>2, Ec2Suffices
  <2>3. ASSUME r.type = "rds", NEW rate \in RdsRates(s, r) PROVE RdsErrors(r, rate) = {}
    BY <1>3, <2>1, <2>3, RdsSuffices
  <2> QED
    BY <1>3, <2>2, <2>3
<1>8. ASSUME NEW s \in input.azure
      PROVE  /\ \A t \in rows[i].target : \A x \in t.selected :
                  HasCompleteMiRateSet(s, x.shape.key) =>
                    MiErrors(Value(MiRates(s, x.shape.key, Value(r.sql).option))) = {}
             /\ \A v \in rows[i].vm : \A x \in v.selected :
                  /\ AllDiskErrors(x, s) \subseteq {"missing_azure_managed_disk_rate"}
                  /\ \A rate \in VmRates(s, x.size.name, r.option) : VmErrors(rate) = {}
  <2>1. AzureSound(s)
    BY SnapshotsSound
  <2>2. ASSUME NEW t \in rows[i].target, NEW x \in t.selected, HasCompleteMiRateSet(s, x.shape.key)
        PROVE  MiErrors(Value(MiRates(s, x.shape.key, Value(r.sql).option))) = {}
    <3>1. LicenceTyped(r)
      BY <1>3, <1>5
    <3> QED
      BY <2>1, <2>2, <3>1, MiSuffices
  <2>3. ASSUME NEW v \in rows[i].vm, NEW x \in v.selected
        PROVE  /\ AllDiskErrors(x, s) \subseteq {"missing_azure_managed_disk_rate"}
               /\ \A rate \in VmRates(s, x.size.name, r.option) : VmErrors(rate) = {}
    BY <2>1, DisksSuffice, VmSuffices
  <2> QED
    BY <2>2, <2>3
<1> QED
  BY <1>7, <1>8 DEF r

-----------------------------------------------------------------------------
(* The theorems.                                                           *)

\* The map of start_aws_flight and start_azure_flight holds exactly the flight
\* whose task has not taken it out yet, whatever requests come and go.
THEOREM FlightsAreCoalesced == PricingSpec => []Coalesced
<1>1. [PricingNext]_allVars => [Flights!Next]_flightVars
  BY DEF PricingNext, allVars
<1>2. FlightInv => Coalesced
  BY DEF FlightInv, Coalesced
<1> QED
  BY <1>1, <1>2, FlightsBegin, FlightsGoOn, PTL DEF PricingSpec

\* No send of a request begins before the provider's delay is over or outlasts the
\* budget, no attempt is one too many, and a request without a projector has come to
\* its end when the budget is spent (PricingHttpClient::get, pause).
THEOREM FetchesKeepTheBudget == PricingSpec => []FetchWithinBudget
<1>1. [PricingNext]_allVars => [Fetch!Next]_fetchVars
  BY DEF PricingNext, allVars
<1>2. FetchInv => FetchWithinBudget
  BY DEF FetchInv, FetchWithinBudget, Fetch!FetchWithinBudget
<1> QED
  BY <1>1, <1>2, FetchBegins, FetchGoesOn, PTL DEF PricingSpec

\* A success that the lease document publishes names a snapshot that was put before,
\* whichever replicas crash, time out or retry (owner_refresh_azure).
THEOREM PublicationsAreStored == PricingSpec => []PublishedIsStored
<1>1. Leases!Init /\ [][Leases!Next]_(Leases!vars) => []Leases!PublishedIsStored
  BY LeasesAssumption, Leases!PublicationsAreStored DEF Leases!Spec
<1>2. /\ PricingInit /\ side = "lease" => Leases!Init
      /\ PricingInit /\ ~(side = "lease") => lease = NoLease
  BY DEF PricingInit
<1>3. /\ Leases!PublishedIsStored => PublishedIsStored
      /\ lease = NoLease => PublishedIsStored
  BY DEF PublishedIsStored, Leases!PublishedIsStored
<1> QED
  BY <1>1, <1>2, <1>3, LeaseGoesOn, NoLeaseElsewhere, PTL DEF PricingSpec

\* Whatever projects a request may carry and whatever the parsers hand over, a row
\* accounts for every amount it lacks (calculate_resource, calculate_ec2_vm_resource).
THEOREM RowsAreExplained == Spec => []RowsExplained
BY EstimateBegins, EstimateGoesOn, EstimateExplains, PTL DEF Spec

\* A target holds its source or says what it lacks, and nothing that is eligible would
\* have been smaller, whatever the projects, the catalogues and the prices
\* (select_target, select_vm_target).
THEOREM TargetsAreFit == Spec => []TargetsFit
BY EstimateBegins, EstimateGoesOn, EstimateFits, PTL DEF Spec

\* No check of the calculation refuses a valid project or finds a wrong rate in an
\* accepted snapshot: what EditableProject::validate and the create of the two kinds
\* of snapshot let in, the selectors and the cost functions accept.  Amounts beyond the range of a decimal
\* are not refused but panic, and are no matter of this theorem.
THEOREM AcceptedAreCalculable == Spec => []AcceptedIsCalculable
BY AcceptBegins, AcceptGoesOn, AcceptSuffices, PTL DEF Spec
=============================================================================
