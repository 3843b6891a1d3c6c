----------------------------- MODULE Explanation -----------------------------
(***************************************************************************)
(* The steps that explain a row of an estimate (calculation/workflow.rs).  *)
(* A step shows values and the formulas that relate them; the wording is   *)
(* left out and a step is the record of the values it shows.  The shown    *)
(* hourly and monthly rates are not the snapshot's: they are worked back   *)
(* from the amounts, which is exact because the amounts are multiples.     *)
(***************************************************************************)
EXTENDS Costs

DivideOrZero(a, b) == IF b = 0 THEN 0 ELSE a \div b

SourceInputStep(r, vcpu, iops, storage) ==
  [step |-> "source_inputs", vcpu |-> vcpu, ram |-> r.ram, data |-> storage.sql, ebs |-> storage.ebs,
   required |-> storage.sql + storage.ebs, configured |-> storage.azure, iops |-> iops,
   quantity |-> r.quantity, hours |-> r.hours]

VmAssumptionsStep(r) ==
  [step |-> "vm_assumptions", instance |-> r.instance, requirements |-> r.req]

VmSourceInputStep(r, vcpu, class, volumes) ==
  [step |-> "vm_source_inputs", vcpu |-> vcpu, ram |-> r.ram, class |-> class,
   volumes |-> Cardinality(DOMAIN volumes), gb |-> MapThenSumSet(LAMBDA i : volumes[i].capacity, DOMAIN volumes),
   quantity |-> r.quantity, hours |-> r.hours]

\* amounts before and after the discounts of a source
Nets(c, s) ==
  [computeGross |-> c.computeGross, computeDiscount |-> s.discount.sourceCompute, compute |-> c.compute,
   licenseGross |-> c.licenseGross, licenseDiscount |-> s.discount.sourceLicense, license |-> c.license,
   storageGross |-> c.storageGross, storageDiscount |-> s.discount.sourceStorage, storage |-> c.storage,
   total |-> SourceTotal(c)]

VmSourceCostStep(r, s, c) ==
  [step |-> "source_cost_formula", of |-> "ec2_vm", quantity |-> r.quantity, hours |-> r.hours,
   hourly |-> DivideOrZero(c.computeGross, r.quantity * r.hours), nets |-> Nets(c, s)]

Ec2CostStep(r, s, c) ==
  [step |-> "source_cost_formula", of |-> "ec2", quantity |-> r.quantity, hours |-> r.hours,
   hourly |-> DivideOrZero(c.computeGross, r.quantity * r.hours),
   licenseHourly |-> DivideOrZero(c.licenseGross, r.quantity * r.hours),
   monthlyStorage |-> DivideOrZero(c.storageGross, r.quantity * 12), nets |-> Nets(c, s)]

\* seeded fault: the rate of a core is shown for the whole instance
InstanceRate(c, r, vcpu) == DivideOrZero(c.licenseGross, r.quantity * r.hours)
CoreRate(c, r, vcpu) == DivideOrZero(c.licenseGross, r.quantity * r.hours * vcpu)
RdsCostStep(r, vcpu, s, c) ==
  [step |-> "source_cost_formula", of |-> "rds", quantity |-> r.quantity, hours |-> r.hours,
   hourly |-> DivideOrZero(c.computeGross, r.quantity * r.hours),
   vcpu |-> vcpu, coreHourly |-> CoreRate(c, r, vcpu), data |-> Value(r.sql).data,
   monthlyPerGb |-> DivideOrZero(c.storageGross, r.quantity * Value(r.sql).data * 12),
   nets |-> Nets(c, s)]

OnPremPowerStep(r) ==
  [step |-> "on_prem_power_estimate", vcpu |-> r.vcpu, ram |-> r.ram, data |-> Value(r.sql).data,
   estimated |-> EstimatedPower(r), effective |-> Power(r), override |-> r.power # {},
   annual |-> r.quantity * r.hours * Power(r)]
OnPremCostStep(r, s, c) ==
  [step |-> "source_cost_formula", of |-> "on_prem", quantity |-> r.quantity, hours |-> r.hours,
   capex |-> r.capex, years |-> r.years, hardware |-> c.hardware, cores |-> r.cores, packs |-> Packs(r),
   packPrice |-> Value(s.pack[Value(r.sql).edition]), months |-> Value(s.coverageMonths),
   annual |-> r.quantity * r.hours * Power(r), rate |-> Value(s.electricityRate),
   electricity |-> c.electricity, nets |-> Nets(c, s)]

TargetNets(c, s) ==
  [computeGross |-> c.computeGross + c.memoryGross, computeDiscount |-> s.discount.azureCompute, compute |-> c.compute,
   licenseGross |-> c.licenseGross, licenseDiscount |-> s.discount.azureLicense, license |-> c.license,
   storageGross |-> c.storageGross, storageDiscount |-> s.discount.azureStorage, storage |-> c.storage,
   total |-> AzureTotal(c)]

AzureCostStep(selected, r, storage, rate, s, c) ==
  [step |-> "azure_cost_formula", quantity |-> r.quantity, hours |-> r.hours, compute |-> rate.compute,
   computeGross |-> c.computeGross, included |-> selected.shape.included, ram |-> selected.memory,
   extra |-> selected.extraMemory, perGb |-> rate.memory, memoryGross |-> c.memoryGross,
   license |-> rate.license, configured |-> storage, billable |-> BillableStorage(storage),
   perGbMonthly |-> rate.storage, nets |-> TargetNets(c, s)]

VmTargetStep(selected) ==
  [step |-> "vm_target_selection", sku |-> selected.size.name, vcpus |-> selected.size.vcpus,
   memory |-> selected.size.memory, disks |-> selected.disks]
VmAzureCostStep(selected, r, rate, monthly, s, c) ==
  [step |-> "azure_vm_cost_formula", sku |-> selected.size.name, option |-> r.option,
   quantity |-> r.quantity, hours |-> r.hours, hourly |-> rate.hourly, license |-> rate.license,
   computeGross |-> c.computeGross, monthly |-> monthly, nets |-> TargetNets(c, s)]

SavingsStep(source, azure, saved) ==
  [step |-> "savings_formula",
   source |-> [compute |-> source.compute, license |-> source.license, storage |-> source.storage,
               total |-> SourceTotal(source)],
   azure |-> [compute |-> azure.compute, license |-> azure.license, storage |-> azure.storage,
              total |-> AzureTotal(azure)],
   saved |-> [part \in {"compute", "license", "storage", "total"} |-> saved[part]]]
ParityStep(source, azure, saved, parity) ==
  [step |-> "parity_formula", source |-> SourceTotal(source), azure |-> AzureTotal(azure),
   required |-> saved.required, selected |-> parity, after |-> saved.afterParity,
   difference |-> saved.difference]

ProvenanceStep(code, url, utc) == [step |-> code, url |-> url, retrieved |-> utc]

-----------------------------------------------------------------------------
(* The formulas that the steps state, over the values they show. *)

NetsAddUp(n) ==
  /\ n.license = n.licenseGross * (Whole - n.licenseDiscount)
  /\ n.storage = n.storageGross * (Whole - n.storageDiscount)
  /\ n.compute = n.computeGross * (Whole - n.computeDiscount)
  /\ n.total = n.compute + n.license + n.storage

SourceReproduces(x) ==
  CASE x.of = "on_prem" ->
         /\ x.hardware * x.years = x.quantity * x.capex
         /\ x.nets.licenseGross * x.months = x.quantity * x.packs * x.packPrice * 12
         /\ x.nets.license = x.nets.licenseGross * (Whole - x.nets.licenseDiscount)
         /\ x.electricity = x.annual * x.rate * Whole
         /\ x.nets.total = x.hardware * Whole + x.nets.license + x.electricity
    [] x.of = "ec2_vm" -> NetsAddUp(x.nets) /\ x.nets.computeGross = x.quantity * x.hours * x.hourly
    [] x.of = "ec2" ->
         /\ NetsAddUp(x.nets) /\ x.nets.computeGross = x.quantity * x.hours * x.hourly
         /\ x.nets.licenseGross = x.quantity * x.hours * x.licenseHourly
         /\ x.nets.storageGross = x.quantity * 12 * x.monthlyStorage
    [] x.of = "rds" ->
         /\ NetsAddUp(x.nets) /\ x.nets.computeGross = x.quantity * x.hours * x.hourly
         /\ x.nets.licenseGross = x.quantity * x.hours * x.vcpu * x.coreHourly
         /\ x.nets.storageGross = x.quantity * x.data * 12 * x.monthlyPerGb

Reproduces(x) ==
  CASE x.step = "source_cost_formula" -> SourceReproduces(x)
    [] x.step = "azure_cost_formula" ->
         /\ NetsAddUp(x.nets)
         /\ x.computeGross = x.quantity * x.hours * x.compute
         /\ x.extra = Most(0, x.ram - x.included)
         /\ x.memoryGross = x.quantity * x.hours * x.extra * x.perGb
         /\ x.nets.licenseGross = x.quantity * x.hours * x.license
         /\ x.billable = Most(x.configured - 32, 0)
         /\ x.nets.storageGross = x.quantity * x.billable * 12 * x.perGbMonthly
    [] x.step = "azure_vm_cost_formula" ->
         /\ NetsAddUp(x.nets)
         /\ x.computeGross = x.quantity * x.hours * (x.hourly - x.license)
         /\ x.nets.licenseGross = x.quantity * x.hours * x.license
         /\ x.nets.storageGross = x.quantity * 12 * x.monthly
    [] x.step = "savings_formula" ->
         \A part \in DOMAIN x.saved : x.saved[part] = x.source[part] - x.azure[part]
    [] x.step = "parity_formula" ->
         /\ x.after = x.azure * (Whole - x.selected)
         /\ x.difference = x.after - x.source * Whole
    [] OTHER -> TRUE
=============================================================================
