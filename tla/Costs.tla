-------------------------------- MODULE Costs --------------------------------
(***************************************************************************)
(* The cost of a source and of its target for a year (calculation/cost.rs  *)
(* and calculation/sql_payg.rs).  Gross amounts and rates are integers; an *)
(* amount after a discount is in parts of Whole, a quotient a pair of      *)
(* numbers, power in eighths of a watt.  The divisions of an on-premises   *)
(* estimate are exact for the inputs that are modelled.                    *)
(*                                                                         *)
(* An amount is a rust_decimal of 96 bits, whose arithmetic panics when    *)
(* the result does not fit.  The operators named ...Amounts and Quotients  *)
(* are what a calculation has to represent on its way, in the order of the *)
(* code up to its first error.  A divisor is a whole number here: a        *)
(* fraction of a year or of a GB, which makes the quotient large, is not   *)
(* distinguished from a large dividend.                                    *)
(*                                                                         *)
(* An optional value is a set of at most one element.  The errors of a     *)
(* calculation are the set of everything that is wrong; the code returns   *)
(* the first it meets, and its callers look only at there being one.       *)
(***************************************************************************)
EXTENDS ProjectRules, SequencesExt, FiniteSetsExt

CONSTANTS
  LargestAmount,   \* the largest decimal, as an amount
  LargestQuotient  \* and as a number without a unit
ASSUME RangeAssumption == LargestAmount \in Nat /\ LargestQuotient \in Nat

UnitGb == 32     \* AZURE_MI_STORAGE_UNIT_GB

Value(opt) == CHOOSE x \in opt : TRUE
When(condition, code) == IF condition THEN {code} ELSE {}
Negative(rates) == When(\E r \in rates : r < 0, "negative_rate")
Most(a, b) == IF a < b THEN b ELSE a
\* seeded fault: an amount that is a multiple of the step is still rounded up
CeilDivPast(a, b) == a \div b + 1
CeilDiv(a, b) == (a + b - 1) \div b

\* storage is bought in whole units, at least one of them, and the first is included
ConfiguredStorage(gb) == Most(CeilDiv(gb, UnitGb), 1) * UnitGb
BillableStorage(configured) == Most(configured - UnitGb, 0)

\* seeded fault: the discount is what is paid
DiscountPaid(gross, share) == gross * share
Discounted(gross, share) == gross * (Whole - share)

Quotients(a, b) == IF b > 0 THEN {a \div b} ELSE {}
\* the arithmetic of a decimal panics
Panics(amounts, quotients) ==
  \/ \E a \in amounts : a > LargestAmount
  \/ \E q \in quotients : q > LargestQuotient

-----------------------------------------------------------------------------
(* A volume of an AWS source. *)

\* seeded fault: the units of a tier are counted from zero, not from the limit before
TierStepFromZero(acc, tier) ==
  IF acc.left = 0 \/ acc.error # {} THEN acc
  ELSE LET units == IF tier.upTo = {} THEN acc.left ELSE Min({acc.left, Value(tier.upTo)})
       IN [left |-> acc.left - units, total |-> acc.total + units * tier.rate, limit |-> 0,
           error |-> Negative({tier.rate})]
\* the units between one limit and the next cost that tier's rate
TierStep(acc, tier) ==
  IF acc.left = 0 \/ acc.error # {} THEN acc
  ELSE LET units == IF tier.upTo = {} THEN acc.left
                    ELSE Min({acc.left, Value(tier.upTo) - acc.limit})
       IN [left |-> acc.left - units, total |-> acc.total + units * tier.rate,
           limit |-> IF tier.upTo = {} THEN acc.limit ELSE Value(tier.upTo),
           error |-> Negative({tier.rate})
                       \cup When(\E l \in tier.upTo : l <= acc.limit, "invalid_iops_tiers")]
Charged(units, tiers) ==
  LET charged[k \in 0..Len(tiers)] ==
        IF k = 0 THEN [left |-> units, total |-> 0, limit |-> 0, error |-> {}]
        ELSE TierStep(charged[k - 1], tiers[k])
  IN charged[Len(tiers)]
TieredCost(units, tiers) == Charged(units, tiers).total
TierErrors(units, tiers) ==
  Charged(units, tiers).error \cup When(Charged(units, tiers).left # 0, "invalid_iops_tiers")

\* what a volume has beyond what its capacity includes
PaidIops(v, rate) == Most(Value(v.iops) - rate.includedIops, 0)
PaidThroughput(v, rate) ==
  IF v.throughput = {} THEN 0 ELSE Most(Value(v.throughput) - rate.includedThroughput, 0)

VolumeErrors(v, rate) ==
  Negative({rate.capacity} \cup rate.perThroughput)
    \cup When(rate.perThroughput = {} /\ rate.type # "io2" /\ PaidThroughput(v, rate) # 0, "missing_ebs_rate")
    \cup IF v.iops = {} THEN {"missing_provisioned_iops"}
         ELSE IF rate.type = "io2" THEN TierErrors(PaidIops(v, rate), rate.tiers)
         ELSE Negative(rate.perIops)
                \cup When(rate.perIops = {} /\ PaidIops(v, rate) # 0, "missing_ebs_rate")

IopsMonthly(v, rate) ==
  IF rate.type = "io2" THEN TieredCost(PaidIops(v, rate), rate.tiers)
  ELSE IF rate.perIops = {} THEN 0 ELSE PaidIops(v, rate) * Value(rate.perIops)
VolumeMonthly(v, rate) ==
  v.capacity * rate.capacity + IopsMonthly(v, rate)
    + (IF rate.perThroughput = {} THEN 0 ELSE PaidThroughput(v, rate) * Value(rate.perThroughput))

Persistent(r) == {i \in DOMAIN r.volumes : r.volumes[i].type # "ephemeral"}
\* the first record of a type prices its volumes
EbsRates(ebs, type) ==
  {ebs[i] : i \in {i \in DOMAIN ebs : ebs[i].type = type /\ \A j \in 1..(i - 1) : ebs[j].type # type}}
StorageErrors(r, ebs) ==
  UNION {LET rate == EbsRates(ebs, r.volumes[i].type)
         IN IF rate = {} THEN {"missing_ebs_rate"} ELSE VolumeErrors(r.volumes[i], Value(rate)) :
           i \in Persistent(r)}
StorageMonthly(r, ebs) ==
  FoldFunction(+, 0, [i \in Persistent(r) |-> VolumeMonthly(r.volumes[i], Value(EbsRates(ebs, r.volumes[i].type)))])

VolumeAmounts(v, rate) ==
  IF v.iops = {} THEN {}
  ELSE IF VolumeErrors(v, rate) = {} THEN {VolumeMonthly(v, rate)}
  ELSE {v.capacity * rate.capacity, IopsMonthly(v, rate)}
\* one volume after the other, as far as the first that cannot be priced
StorageAmounts(r, ebs) ==
  LET Rates(i) == EbsRates(ebs, r.volumes[i].type)
      Priceable(i) == \E rate \in Rates(i) : VolumeErrors(r.volumes[i], rate) = {}
      reached == {i \in Persistent(r) : \A j \in Persistent(r) : j < i => Priceable(j)}
  IN UNION {UNION {VolumeAmounts(r.volumes[i], rate) : rate \in Rates(i)} : i \in reached}
       \cup {FoldFunction(+, 0, [i \in {i \in reached : Priceable(i)} |-> VolumeMonthly(r.volumes[i], Value(Rates(i)))])}

\* the IOPS of a database server are those of its fastest volume
MaxIopsErrors(r) == When(\E i \in Persistent(r) : r.volumes[i].iops = {}, "missing_provisioned_iops")
MaxIops(r) == Max({0} \cup UNION {r.volumes[i].iops : i \in Persistent(r)})

-----------------------------------------------------------------------------
(* The sources.  A breakdown keeps gross amounts beside net ones. *)

SourceCosts(s, compute, license, storage, hardware, electricity) ==
  [computeGross |-> compute, licenseGross |-> license, storageGross |-> storage,
   hardware |-> hardware, electricity |-> electricity * Whole,
   compute |-> Discounted(compute, s.discount.sourceCompute),
   license |-> Discounted(license, s.discount.sourceLicense),
   storage |-> Discounted(storage, s.discount.sourceStorage)]
SourceTotal(c) == c.compute + c.license + c.storage + c.electricity
SourceAmounts(c) ==
  {c.computeGross, c.licenseGross, c.storageGross, c.hardware, CeilDiv(SourceTotal(c), Whole)}

\* the rate of the edition, unless the licence is brought along
LicenseRate(sql, rate) == IF sql.basis = "byol" THEN {0} ELSE rate.license[sql.edition]

Ec2Errors(r, rate, ebs) ==
  Negative({rate.compute} \cup LicenseRate(Value(r.sql), rate)) \cup StorageErrors(r, ebs)
    \cup When(LicenseRate(Value(r.sql), rate) = {}, "missing_source_license_rate")
Ec2Source(r, rate, ebs, s) ==
  SourceCosts(s, r.quantity * r.hours * rate.compute,
              r.quantity * r.hours * Value(LicenseRate(Value(r.sql), rate)),
              r.quantity * 12 * StorageMonthly(r, ebs), 0, 0)

Ec2VmErrors(r, rate, ebs) == Negative({rate.compute}) \cup StorageErrors(r, ebs)
Ec2VmSource(r, rate, ebs, s) ==
  SourceCosts(s, r.quantity * r.hours * rate.compute, 0, r.quantity * 12 * StorageMonthly(r, ebs), 0, 0)

UsageAmounts(r, rate) == {r.quantity * r.hours * rate.compute}
Ec2Amounts(r, rate, ebs, s) ==
  LET license == LicenseRate(Value(r.sql), rate)
  IN UsageAmounts(r, rate)
       \cup UNION {{r.quantity * r.hours * l} \cup StorageAmounts(r, ebs) : l \in license}
       \cup IF Ec2Errors(r, rate, ebs) = {} THEN SourceAmounts(Ec2Source(r, rate, ebs, s)) ELSE {}
Ec2VmAmounts(r, rate, ebs, s) ==
  UsageAmounts(r, rate) \cup StorageAmounts(r, ebs)
    \cup IF Ec2VmErrors(r, rate, ebs) = {} THEN SourceAmounts(Ec2VmSource(r, rate, ebs, s)) ELSE {}

RdsErrors(r, rate) == Negative({rate.compute, rate.storage} \cup rate.license[Value(r.sql).edition])
RdsSource(r, rate, s) ==
  SourceCosts(s, r.quantity * r.hours * rate.compute,
              r.quantity * r.hours * rate.vcpu * Value(LicenseRate(Value(r.sql), rate)),
              r.quantity * Value(r.sql).data * 12 * rate.storage, 0, 0)
RdsAmounts(r, rate, s) ==
  {r.quantity * Value(r.sql).data * 12} \cup SourceAmounts(RdsSource(r, rate, s))

\* an estimate from the size of the server, unless its power is known
EstimatedPower(r) == 800 + 100 * r.vcpu + 3 * r.ram + (80 * Value(r.sql).data) \div 1024
Power(r) == IF r.power = {} THEN EstimatedPower(r) ELSE Value(r.power)
\* licences are sold in packs of two cores, for no fewer than four
Packs(r) == CeilDiv(Most(r.cores, 4), 2)
OnPremErrors(r, s) ==
  When(s.pack[Value(r.sql).edition] = {} \/ s.coverageMonths = {}, "missing_on_prem_license_settings")
    \cup When(s.electricityRate = {}, "missing_electricity_rate")
    \cup Negative(s.pack[Value(r.sql).edition] \cup s.electricityRate)
OnPremSource(r, s) ==
  LET hardware == (r.quantity * r.capex) \div r.years
      license == (r.quantity * Packs(r) * Value(s.pack[Value(r.sql).edition]) * 12)
                   \div Value(s.coverageMonths)
  IN [SourceCosts(s, hardware, license, 0, hardware,
                  r.quantity * r.hours * Power(r) * Value(s.electricityRate))
        EXCEPT !.compute = hardware * Whole]
OnPremAmounts(r, s) ==
  {r.quantity * r.hours * Power(r), r.quantity * r.capex,
   r.quantity * Packs(r) * Value(s.pack[Value(r.sql).edition]) * 12} \cup SourceAmounts(OnPremSource(r, s))

-----------------------------------------------------------------------------
(* The targets. *)

AzureTotal(c) == c.compute + c.license + c.storage
AzureAmounts(c) ==
  {c.computeGross + c.memoryGross, c.licenseGross, c.storageGross, CeilDiv(AzureTotal(c), Whole)}

MiErrors(rate) == Negative({rate.compute, rate.license, rate.storage, rate.memory})
MiCosts(r, storage, extraMemory, rate, s) ==
  [computeGross |-> r.quantity * r.hours * rate.compute,
   memoryGross |-> r.quantity * r.hours * extraMemory * rate.memory,
   licenseGross |-> r.quantity * r.hours * rate.license,
   storageGross |-> r.quantity * BillableStorage(storage) * 12 * rate.storage,
   compute |-> Discounted(r.quantity * r.hours * (rate.compute + extraMemory * rate.memory),
                          s.discount.azureCompute),
   license |-> Discounted(r.quantity * r.hours * rate.license, s.discount.azureLicense),
   storage |-> Discounted(r.quantity * BillableStorage(storage) * 12 * rate.storage,
                          s.discount.azureStorage)]
\* the factors are multiplied from the left, the rate last
MiAmounts(r, storage, extraMemory) ==
  {r.quantity * r.hours * extraMemory, r.quantity * BillableStorage(storage) * 12}

\* rates: a function from the dimensions of the disk's offer that are priced
DiskErrors(disk, rates) ==
  LET needed == IF disk.tier # {} THEN {"capacity_tier"}
                ELSE {"capacity_gb", "additional_iops", "additional_throughput"}
  IN When(~(needed \subseteq DOMAIN rates), "missing_azure_managed_disk_rate")
       \cup Negative({rates[d] : d \in needed \cap DOMAIN rates})
DiskMonthly(disk, rates) ==
  IF disk.tier # {} THEN rates["capacity_tier"]
  ELSE disk.capacity * rates["capacity_gb"] + disk.extraIops * rates["additional_iops"]
         + disk.extraThroughput * rates["additional_throughput"]

VmErrors(rate) ==
  Negative({rate.hourly, rate.license})
    \cup When(rate.license > rate.hourly, "invalid_azure_vm_rate_components")
VmCosts(r, rate, disksMonthly, s) ==
  [computeGross |-> r.quantity * r.hours * (rate.hourly - rate.license), memoryGross |-> 0,
   licenseGross |-> r.quantity * r.hours * rate.license,
   storageGross |-> r.quantity * 12 * disksMonthly,
   compute |-> Discounted(r.quantity * r.hours * (rate.hourly - rate.license), s.discount.azureCompute),
   license |-> Discounted(r.quantity * r.hours * rate.license, s.discount.azureLicense),
   storage |-> Discounted(r.quantity * 12 * disksMonthly, s.discount.azureStorage)]

\* 1 - a/b of two amounts, 0 when there is nothing to adjust
Adjustment(source, azure) == IF azure = 0 THEN <<0, 1>> ELSE <<azure - source, azure>>
\* in parts of Whole * Whole
Savings(source, azure, parity) ==
  [compute |-> source.compute - azure.compute, license |-> source.license - azure.license,
   storage |-> source.storage - azure.storage, total |-> SourceTotal(source) - AzureTotal(azure),
   required |-> Adjustment(SourceTotal(source), AzureTotal(azure)),
   afterParity |-> Discounted(AzureTotal(azure), parity),
   difference |-> Discounted(AzureTotal(azure), parity) - SourceTotal(source) * Whole]

\* Software Assurance against pay as you go, per core and hour of each edition
SqlPaygErrors(q, hours, share) ==
  When(q.enterprise = 0 /\ q.standard = 0, "no_licensed_cores")
    \cup When(q.spend < 0, "negative_software_assurance")
    \cup When(hours < 0 \/ hours > 8784, "annual_hours_out_of_range")
    \cup When(share < 0 \/ share > Whole, "applied_discount_out_of_range")
SqlPayg(q, hours, share, perEnterprise, perStandard) ==
  LET gross == (q.enterprise * perEnterprise + q.standard * perStandard) * hours
      required == IF gross > q.spend THEN Adjustment(q.spend, gross) ELSE <<0, 1>>
  IN [gross |-> gross, required |-> required,
      outcome |-> IF gross <= q.spend THEN "no_discount_needed"
                  ELSE IF q.spend = 0 THEN "full_discount_required" ELSE "discount_required",
      breakEven |-> IF gross <= q.spend THEN gross ELSE q.spend,
      net |-> Discounted(gross, share), savings |-> q.spend * Whole - Discounted(gross, share)]
=============================================================================
