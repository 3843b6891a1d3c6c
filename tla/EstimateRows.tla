---------------------------- MODULE EstimateRows ----------------------------
(***************************************************************************)
(* A row of an estimate: what a resource costs where it runs, which target *)
(* fits it, what that target costs and what the difference is              *)
(* (calculation/workflow.rs).  A missing price never stops an estimate: it *)
(* leaves its amounts out and the row says what is unresolved.             *)
(*                                                                         *)
(* An estimate is a record of a project and of the snapshots it named:     *)
(* aws and azure are sets of at most one element.                          *)
(***************************************************************************)
EXTENDS ProjectRules, Explanation, TargetSelection, VmTarget, PriceSnapshot

-----------------------------------------------------------------------------
(* The source. *)

SqlData(r) == IF r.sql = {} THEN 0 ELSE Value(r.sql).data
EbsGb(r) ==
  IF r.type \in {"ec2", "ec2_vm"} THEN Total([i \in Persistent(r) |-> r.volumes[i]], LAMBDA v : v.capacity)
  ELSE 0
StorageInputs(r) ==
  [sql |-> SqlData(r), ebs |-> EbsGb(r),
   azure |-> IF r.type = "ec2_vm" THEN EbsGb(r) ELSE ConfiguredStorage(SqlData(r) + EbsGb(r))]

Unpriced(code) ==
  [vcpu |-> {}, iops |-> {}, costs |-> {}, status |-> "unavailable", steps |-> <<>>,
   unresolved |-> {<<"aws", code>>}]

\* a price record was found; its costs are missing when its rates do not suffice
Priced(snapshot, rate, iops, errors, costs) ==
  [vcpu |-> {rate.vcpu}, iops |-> iops,
   costs |-> IF errors = {} THEN {costs} ELSE {},
   status |-> IF errors = {} THEN snapshot.status ELSE "unavailable",
   steps |-> <<ProvenanceStep("source_price_provenance", rate.url, snapshot.utc)>>,
   unresolved |-> IF errors = {} THEN {} ELSE {<<"aws", "incomplete_rate_set">>}]

ResolveEc2(r, e) ==
  IF e.aws = {} THEN Unpriced("aws_snapshot_unavailable")
  ELSE LET snapshot == Value(e.aws)
           rates == Ec2Rates(snapshot, r.instance)
           ebs == snapshot.content.ebs
       IN IF rates = {} THEN Unpriced("ec2_rate_unavailable")
          ELSE LET rate == Value(rates)
                   errors == MaxIopsErrors(r) \cup Ec2Errors(r, rate, ebs)
               IN Priced(snapshot, rate, IF MaxIopsErrors(r) = {} THEN {MaxIops(r)} ELSE {}, errors,
                         IF errors = {} THEN Ec2Source(r, rate, ebs, e.settings) ELSE {})

ResolveRds(r, e) ==
  IF e.aws = {} THEN Unpriced("aws_snapshot_unavailable")
  ELSE LET rates == RdsRates(Value(e.aws), r)
       IN IF rates = {} THEN Unpriced("rds_rate_unavailable")
          ELSE LET rate == Value(rates)
                   errors == RdsErrors(r, rate)
               IN Priced(Value(e.aws), rate, {r.iops}, errors,
                         IF errors = {} THEN RdsSource(r, rate, e.settings) ELSE {})

\* the disks of a virtual machine serve it together
SumOfIops(r) == MapThenSumSet(LAMBDA i : Or0(r.volumes[i].iops), Persistent(r))
ResolveEc2Vm(r, e) ==
  IF e.aws = {} THEN Unpriced("aws_snapshot_unavailable")
  ELSE LET snapshot == Value(e.aws)
           rates == Ec2Rates(snapshot, r.instance)
           ebs == snapshot.content.ebs
       IN IF rates = {} THEN Unpriced("ec2_vm_rate_unavailable")
          ELSE LET rate == Value(rates)
                   errors == Ec2VmErrors(r, rate, ebs)
               IN Priced(snapshot, rate, {SumOfIops(r)}, errors,
                         IF errors = {} THEN Ec2VmSource(r, rate, ebs, e.settings) ELSE {})

\* only for settings without errors, see RowErrors
ResolveOnPrem(r, e) ==
  LET costs == OnPremSource(r, e.settings)
  IN [vcpu |-> {r.vcpu}, iops |-> {r.iops}, costs |-> {costs}, status |-> "not_required",
      steps |-> <<OnPremPowerStep(r), OnPremCostStep(r, e.settings, costs)>>, unresolved |-> {}]

ResolveSource(r, e) ==
  CASE r.type = "ec2" -> ResolveEc2(r, e)
    [] r.type = "rds" -> ResolveRds(r, e)
    [] r.type = "ec2_vm" -> ResolveEc2Vm(r, e)
    [] r.type = "on_prem" -> ResolveOnPrem(r, e)

SourceCostSteps(r, e, source) ==
  IF source.costs = {} \/ r.type = "on_prem" THEN <<>>
  ELSE LET c == Value(source.costs)
       IN CASE r.type = "ec2" -> <<Ec2CostStep(r, e.settings, c)>>
            [] r.type = "rds" -> <<RdsCostStep(r, Value(source.vcpu), e.settings, c)>>
            [] r.type = "ec2_vm" -> <<VmSourceCostStep(r, e.settings, c)>>

-----------------------------------------------------------------------------
(* The target. *)

\* 1 - applied/baseline between 0 and 1, as a quotient
RateDiscount(baseline, applied) ==
  IF baseline = 0 \/ applied >= baseline THEN <<0, 1>> ELSE <<baseline - applied, baseline>>

OptionDiscounts(snapshot, configuration) ==
  LET rate == [o \in {"payg", "ahb", "one-year", "three-year", "sv-one-year"} |->
                 MiRates(snapshot, configuration, o)]
  IN IF \E o \in DOMAIN rate : rate[o] = {} THEN {}
     ELSE LET payg == Value(rate["payg"])
          IN {[payg |-> <<0, 1>>,
               reserved1 |-> RateDiscount(payg.compute, Value(rate["one-year"]).compute),
               reserved3 |-> RateDiscount(payg.compute, Value(rate["three-year"]).compute),
               savings1 |-> RateDiscount(payg.compute, Value(rate["sv-one-year"]).compute),
               benefit |-> RateDiscount(payg.license, Value(rate["ahb"]).license)]}

\* what a target costs, or what is missing
NoCosts(code) ==
  [costs |-> {}, discounts |-> {}, status |-> "unavailable", unresolved |-> {<<"azure", code>>},
   steps |-> <<>>]
Costed(snapshot, costs, discounts, steps) ==
  [costs |-> {costs}, discounts |-> discounts, status |-> snapshot.status, unresolved |-> {}, steps |-> steps]

AzureCosts(selected, r, storage, e) ==
  IF e.azure = {} THEN NoCosts("azure_snapshot_unavailable")
  ELSE LET snapshot == Value(e.azure)
           key == selected.shape.key
       IN IF ~HasCompleteMiRateSet(snapshot, key) THEN NoCosts("azure_price_set_incomplete")
          ELSE LET rate == Value(MiRates(snapshot, key, Value(r.sql).option))
                   costs == MiCosts(r, storage, selected.extraMemory, rate, e.settings)
               IN IF MiErrors(rate) # {} THEN NoCosts("incomplete_rate_set")
                  ELSE Costed(snapshot, costs, OptionDiscounts(snapshot, key),
                              <<ProvenanceStep("target_price_provenance", rate.url, snapshot.utc),
                                AzureCostStep(selected, r, storage, rate, e.settings, costs)>>)

AllDiskErrors(selected, snapshot) ==
  UNION {DiskErrors(d, DiskRates(snapshot, d.offer, d.tier)) : d \in Records(selected.disks)}
DisksCapacity(selected) == Total(selected.disks, LAMBDA d : d.capacity)
DisksMonthly(selected, snapshot) ==
  Total(selected.disks, LAMBDA d : DiskMonthly(d, DiskRates(snapshot, d.offer, d.tier)))

AzureVmCosts(selected, r, e) ==
  IF e.azure = {} THEN NoCosts("azure_snapshot_unavailable")
  ELSE LET snapshot == Value(e.azure)
           rates == VmRates(snapshot, selected.size.name, r.option)
       IN IF rates = {} THEN NoCosts("azure_vm_purchase_option_unavailable")
          ELSE IF AllDiskErrors(selected, snapshot) # {} \/ VmErrors(Value(rates)) # {}
          THEN NoCosts("incomplete_rate_set")
          ELSE LET rate == Value(rates)
                   monthly == DisksMonthly(selected, snapshot)
                   costs == VmCosts(r, rate, monthly, e.settings)
               IN Costed(snapshot, costs, {},
                         <<ProvenanceStep("target_price_provenance", rate.url, snapshot.utc),
                           VmTargetStep(selected),
                           VmAzureCostStep(selected, r, rate, monthly, e.settings, costs)>>)

\* what each purchase option saves on the target that was selected
VmOptionPricing(snapshot, sku) ==
  [o \in VmPurchaseOptions |->
     LET payg == VmRates(snapshot, sku, "payg")
         rate == VmRates(snapshot, sku, o)
     IN [available |-> rate # {},
         discount |-> {[compute |-> RateDiscount(p.hourly - p.license, q.hourly - q.license),
                        license |-> RateDiscount(p.license, q.license)] : p \in payg, q \in rate}]]

PricesOf(snapshot) ==
  [rates |-> [sku \in {v.sku : v \in {v \in Records(snapshot.content.vm) : v.option = "payg"}} |->
                Value(VmRates(snapshot, sku, "payg")).hourly],
   disks |-> {[offer |-> d.offer, tier |-> d.tier, dimension |-> d.dimension] :
                d \in Records(snapshot.content.disks)}]

-----------------------------------------------------------------------------
(* The row. *)

\* without a target, and none required
Row(r, source, storage, steps) ==
  [id |-> r.id, type |-> r.type, storage |-> storage, mapping |-> {}, aws |-> source.status,
   azure |-> "not_required", target |-> {}, vm |-> {}, source |-> source.costs, azureCosts |-> {},
   discounts |-> {}, options |-> {}, savings |-> {}, steps |-> source.steps \o steps,
   unresolved |-> source.unresolved]

\* the difference, when both sides are known
SavingsOf(source, costed, e) ==
  IF source.costs = {} \/ costed.costs = {} THEN {}
  ELSE {Savings(Value(source.costs), Value(costed.costs), e.settings.discount.parity)}
SavingsSteps(source, costed, e) ==
  IF source.costs = {} \/ costed.costs = {} THEN <<>>
  ELSE LET c == Value(source.costs)
           a == Value(costed.costs)
           saved == Savings(c, a, e.settings.discount.parity)
       IN <<SavingsStep(c, a, saved), ParityStep(c, a, saved, e.settings.discount.parity)>>

MappedRow(row, e, source, costed) ==
  [row EXCEPT !.mapping = {"mapped"}, !.azure = costed.status, !.azureCosts = costed.costs,
              !.discounts = costed.discounts, !.savings = SavingsOf(source, costed, e),
              !.steps = @ \o costed.steps \o SavingsSteps(source, costed, e),
              !.unresolved = @ \cup costed.unresolved]

UnsizedRow(row) ==
  [row EXCEPT !.azure = "unavailable",
              !.unresolved = @ \cup {<<"aws", "source_metadata_unavailable">>}]

MiRequest(r, e, source, storage) ==
  [region |-> e.settings.azureRegion, vcpu |-> Value(source.vcpu), memory |-> r.ram,
   storage |-> storage.azure, iops |-> Or0(source.iops)]

SelectedMiRow(r, e, source, storage, steps, selection) ==
  LET row == [Row(r, source, storage, steps) EXCEPT !.target = {selection}]
  IN IF selection.selected = {} THEN [row EXCEPT !.mapping = {"no_mapping"}]
     ELSE MappedRow(row, e, source, AzureCosts(Value(selection.selected), r, storage.azure, e))
SourcedMiRow(r, e, source, storage) ==
  IF source.vcpu = {} THEN UnsizedRow(Row(r, source, storage, <<>>))
  ELSE SelectedMiRow(r, e, source, storage,
         <<SourceInputStep(r, Value(source.vcpu), Or0(source.iops), storage)>> \o SourceCostSteps(r, e, source),
         SelectTarget(MiRequest(r, e, source, storage)))
MiRow(r, e) == SourcedMiRow(r, e, ResolveSource(r, e), StorageInputs(r))

-----------------------------------------------------------------------------
(* The row of a virtual machine. *)

\* a burst that must be sustained, or may have to be, needs a steady processor
EffectiveClass(r, class) ==
  IF class = "burstable" /\ r.req.burst \in {"requires_sustained_cpu", "unknown"}
  THEN "general_purpose" ELSE class

Review(r, class) ==
  (IF class = "burstable" /\ r.req.burst = "unknown" THEN {"burst_policy_review_required"} ELSE {})
    \cup (IF class = "high_frequency" THEN {"high_frequency_review_required"} ELSE {})
Recommendation(r, class) ==
  IF Review(r, class) = {} THEN "recommended" ELSE "capacity_fit_review_required"

\* what must be known before a target is looked for
Undecided(r) ==
  IF \E i \in Persistent(r) : r.volumes[i].role = "unknown" THEN {"volume_role_unconfirmed"}
  ELSE IF \/ r.req.store = "unknown"
          \/ r.req.store = "used" /\ (Or0(r.req.local) <= 0 \/ r.req.lossAcceptable = {})
  THEN {"instance_store_review_required"} ELSE {}

\* by their positions in the resource, which the disks keep
Volumes(r) ==
  [i \in Persistent(r) |->
     LET v == r.volumes[i]
     IN [role |-> v.role, capacity |-> v.capacity, iops |-> Or0(v.iops), throughput |-> Or0(v.throughput)]]

VmRequest(r, e, vcpu, class) ==
  [region |-> e.settings.azureRegion, class |-> EffectiveClass(r, class), vcpu |-> vcpu, memory |-> r.ram,
   temp |-> IF r.req.store = "used" THEN {Or0(r.req.local)} ELSE {}, volumes |-> Volumes(r),
   wanted |-> r.req.wanted, prices |-> {PricesOf(snapshot) : snapshot \in e.azure}]

\* a size that nothing but its price rejects
PriceBlocked(selection) == \E c \in selection.candidates : c.why = {"price_unavailable"}

NoSelection(status, reasons) ==
  [selected |-> {}, candidates |-> {}, reasons |-> reasons, recommendation |-> status]

\* a price is missing
Incomplete(selection) ==
  [selection EXCEPT !.recommendation = "incomplete", !.reasons = @ \cup {"price_unavailable"}]

VmUnmappedRow(r, e, source, steps, selection) ==
  LET row == [Row(r, source, StorageInputs(r), steps) EXCEPT !.mapping = {"no_mapping"}]
  IN IF PriceBlocked(selection)
     THEN [row EXCEPT !.azure = "unavailable", !.vm = {Incomplete(selection)},
                      !.unresolved = @ \cup {<<"azure", "azure_vm_price_unavailable">>}]
     ELSE [row EXCEPT !.vm = {selection}]

\* seeded fault: a target without a price keeps its recommendation
VmMappedRowKeeps(r, e, source, steps, selection) ==
  LET row == [Row(r, source, StorageInputs(r), steps) EXCEPT !.vm = {selection}]
  IN MappedRow(row, e, source, AzureVmCosts(Value(selection.selected), r, e))
VmMappedRow(r, e, source, steps, selection) ==
  LET selected == Value(selection.selected)
      costed == AzureVmCosts(selected, r, e)
      storage == [StorageInputs(r) EXCEPT !.azure = DisksCapacity(selected)]
      row == [Row(r, source, storage, steps) EXCEPT
                !.options = {VmOptionPricing(snapshot, selected.size.name) : snapshot \in e.azure},
                !.vm = {IF costed.costs = {} THEN Incomplete(selection) ELSE selection}]
  IN MappedRow(row, e, source, costed)

SelectedVmRow(r, e, source, class, steps, found) ==
  LET selection == [selected |-> found.selected, candidates |-> found.candidates,
                    reasons |-> found.reasons \cup Review(r, class),
                    recommendation |-> IF found.selected = {} THEN "no_eligible_target"
                                       ELSE Recommendation(r, class)]
  IN IF found.selected = {} THEN VmUnmappedRow(r, e, source, steps, selection)
     ELSE VmMappedRow(r, e, source, steps, selection)
\* a source of a known class; what is undecided or lost with the machine comes before the target
ClassedVmRow(r, e, source, class, request, steps) ==
  IF Undecided(r) # {}
  THEN [Row(r, source, StorageInputs(r), steps) EXCEPT
          !.vm = {NoSelection("incomplete", Review(r, class) \cup Undecided(r))}]
  ELSE IF r.req.store = "used" /\ r.req.lossAcceptable = {FALSE}
  THEN [Row(r, source, StorageInputs(r), steps) EXCEPT
          !.mapping = {"no_mapping"},
          !.vm = {NoSelection("no_eligible_target", Review(r, class) \cup {"ephemeral_data_loss_incompatible"})}]
  ELSE SelectedVmRow(r, e, source, class, steps, SelectVmTarget(request))
RequestedVmRow(r, e, source, class, request) ==
  ClassedVmRow(r, e, source, class, request,
    <<VmAssumptionsStep(r), VmSourceInputStep(r, request.vcpu, request.class, request.volumes)>>
      \o SourceCostSteps(r, e, source))
SourcedVmRow(r, e, source, classes) ==
  LET row == Row(r, source, StorageInputs(r), <<VmAssumptionsStep(r)>>)
  IN IF source.vcpu = {} THEN UnsizedRow(row)
  ELSE IF classes = {} THEN [row EXCEPT !.unresolved = @ \cup {<<"none", "source_class_unsupported">>}]
  ELSE RequestedVmRow(r, e, source, Value(classes), VmRequest(r, e, Value(source.vcpu), Value(classes)))
VmRow(r, e) == SourcedVmRow(r, e, ResolveSource(r, e), SourceClass(r.family))

-----------------------------------------------------------------------------
(* What stops an estimate instead of leaving a hole in it. *)

RowErrors(r, e) ==
  IF r.type = "on_prem" /\ OnPremErrors(r, e.settings) # {} THEN OnPremErrors(r, e.settings)
  ELSE LET source == ResolveSource(r, e)
       IN IF source.vcpu = {} THEN {}
          ELSE IF r.type # "ec2_vm"
          THEN {RequestError(MiRequest(r, e, source, StorageInputs(r)))} \ {"none"}
          ELSE IF \/ SourceClass(r.family) = {} \/ Undecided(r) # {}
                  \/ r.req.store = "used" /\ r.req.lossAcceptable = {FALSE}
          THEN {}
          ELSE {VmRequestError(VmRequest(r, e, Value(source.vcpu), Value(SourceClass(r.family))))} \ {"none"}

CalculateRow(r, e) == IF r.type = "ec2_vm" THEN VmRow(r, e) ELSE MiRow(r, e)

-----------------------------------------------------------------------------
(* What the decimals of a row have to hold. *)

SourceRowAmounts(r, e) ==
  LET AwsAmounts(snapshot) ==
        CASE r.type = "ec2" -> UNION {Ec2Amounts(r, rate, snapshot.content.ebs, e.settings) :
                                        rate \in {rate \in Ec2Rates(snapshot, r.instance) : MaxIopsErrors(r) = {}}}
          [] r.type = "ec2_vm" -> UNION {Ec2VmAmounts(r, rate, snapshot.content.ebs, e.settings) :
                                           rate \in Ec2Rates(snapshot, r.instance)}
          [] r.type = "rds" -> UNION {RdsAmounts(r, rate, e.settings) : rate \in RdsRates(snapshot, r)}
  IN {SqlData(r) + EbsGb(r), StorageInputs(r).azure}
       \cup IF r.type = "on_prem" THEN OnPremAmounts(r, e.settings)
            ELSE UNION {AwsAmounts(snapshot) : snapshot \in e.aws}

\* the disks are added up as far as the first that is not priced
DisksAmounts(r, selected, snapshot) ==
  LET Priceable(d) == DiskErrors(d, DiskRates(snapshot, d.offer, d.tier)) = {}
      reached == {i \in DOMAIN selected.disks :
                    \A j \in DOMAIN selected.disks : j <= i => Priceable(selected.disks[j])}
  IN IF VmRates(snapshot, selected.size.name, r.option) = {} THEN {}
     ELSE {DisksMonthly([selected EXCEPT !.disks = Restrict(@, reached)], snapshot)}

SelectedTargets(row) == UNION {t.selected : t \in row.target \cup row.vm}
TargetRowAmounts(r, row, e) ==
  UNION {AzureAmounts(c) : c \in row.azureCosts}
    \cup IF r.type = "ec2_vm" THEN UNION {DisksAmounts(r, x, s) : x \in SelectedTargets(row), s \in e.azure}
         ELSE UNION {MiAmounts(r, row.storage.azure, x.extraMemory) : x \in SelectedTargets(row), c \in row.azureCosts}

\* what an option costs of the price of pay as you go
OptionQuotients(snapshot, key) ==
  LET Rates(options) == UNION {MiRates(snapshot, key, o) : o \in options}
  IN UNION {Quotients(q.compute, p.compute) : p \in Rates({"payg"}), q \in Rates({"one-year", "three-year", "sv-one-year"})}
       \cup UNION {Quotients(q.license, p.license) : p \in Rates({"payg"}), q \in Rates({"ahb"})}
VmOptionQuotients(snapshot, sku) ==
  UNION {Quotients(q.hourly - q.license, p.hourly - p.license) \cup Quotients(q.license, p.license) :
           p \in VmRates(snapshot, sku, "payg"), q \in UNION {VmRates(snapshot, sku, o) : o \in VmPurchaseOptions}}
RowQuotients(r, row, e) ==
  UNION {Quotients(SourceTotal(c), AzureTotal(a)) : c \in row.source, a \in row.azureCosts}
    \cup IF r.type = "ec2_vm" THEN UNION {VmOptionQuotients(s, x.size.name) : x \in SelectedTargets(row), s \in e.azure}
         ELSE UNION {OptionQuotients(s, x.shape.key) : x \in {x \in SelectedTargets(row) : row.discounts # {}}, s \in e.azure}

RowPanics(r, row, e) ==
  Panics(SourceRowAmounts(r, e) \cup TargetRowAmounts(r, row, e), RowQuotients(r, row, e))
=============================================================================
