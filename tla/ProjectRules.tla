---------------------------- MODULE ProjectRules ----------------------------
(***************************************************************************)
(* What a project must satisfy before it is stored or calculated           *)
(* (EditableProject::validate, domain/project.rs, with the value types of  *)
(* domain/resource.rs).  The issues of a project are pairs of a place in   *)
(* the document and a code; a project is valid when it has none.  A place  *)
(* is the number of a resource, the number of a volume and a field, 0      *)
(* standing for the project, or for the resource itself.                   *)
(*                                                                         *)
(* A text is its length where only its length is looked at, an optional    *)
(* value a set of at most one element, and a share such as a discount a    *)
(* number of parts of Whole.                                               *)
(***************************************************************************)
EXTENDS Integers, Sequences, FiniteSets

CONSTANT Whole   \* the parts that make up 1

ASSUME WholeAssumption == Whole \in Nat \ {0}

PurchaseOptions ==
  {"payg", "ahb", "one-year", "ahbone-year", "three-year", "ahbthree-year",
   "sv-one-year", "ahbsv-one-year"}
VmPurchaseOptions == PurchaseOptions \cup {"sv-three-year", "ahbsv-three-year"}
AwsTypes == {"ec2", "ec2_vm", "rds"}

\* what the requirements of a virtual machine are when only its family is known
DefaultRequirements(family) ==
  [burst |-> IF family = "t" THEN "confirmed_burst_compatible" ELSE "not_applicable",
   store |-> "not_used", local |-> {}, lossAcceptable |-> {},
   frequency |-> IF family = "z" THEN "capacity_fit_accepted" ELSE "not_applicable",
   wanted |-> {}]

\* the limits of what a project may ask for; storage in gigabytes and in operations a second
MaxDataGb == 1000000000
MaxRamGb == 1000000
MaxCores == 100000
MaxQuantity == 10000
MaxAnnualHours == 8784

Within(n, low, high) == low <= n /\ n <= high
At(condition, field, code) == IF condition THEN {<<field, code>>} ELSE {}
InProject(issues) == {<<0, 0, x[1], x[2]>> : x \in issues}
InResource(i, issues) == {<<i, 0, x[1], x[2]>> : x \in issues}
InVolume(i, j, issues) == {<<i, j, x[1], x[2]>> : x \in issues}

-----------------------------------------------------------------------------
(* The settings. *)

Discounts ==
  {"sourceCompute", "sourceLicense", "sourceStorage", "azureCompute", "azureLicense",
   "azureStorage", "parity"}

RegionIssues(s) ==
  At(s.azureRegion = "", "azure_region", "required")
    \cup At(s.type \in AwsTypes /\ s.awsRegion \subseteq {""}, "aws_region", "required")
    \cup At(s.type \notin AwsTypes /\ s.awsRegion # {}, "aws_region", "not_allowed")

DiscountIssues(s) ==
  UNION {At(~Within(s.discount[d], 0, Whole), d, "range") : d \in Discounts}

\* seeded fault: the price of a pack is asked for in one edition only
OnPremSettingsLax(s) ==
  At(\A price \in s.pack.standard : price <= 0, "standard", "required")
    \cup At(s.coverageMonths \cap {12, 24, 36} = {}, "remaining_coverage_months", "required")
    \cup At(\A rate \in s.electricityRate : rate < 0, "electricity_rate", "required")
\* an on-premises estimate has prices of its own, and nothing to discount but licences
OnPremSettingsIssues(s) ==
  At(s.discount.sourceCompute # 0 \/ s.discount.sourceStorage # 0,
     "settings", "on_prem_discount_not_allowed")
    \cup (UNION {At(\A price \in s.pack[e] : price <= 0, e, "required") :
                   e \in {"enterprise", "standard"}})
    \cup At(s.coverageMonths \cap {12, 24, 36} = {}, "remaining_coverage_months", "required")
    \cup At(\A rate \in s.electricityRate : rate < 0, "electricity_rate", "required")

SqlPaygIssues(s) ==
  At(s.sqlPayg = {}, "sql_payg", "required")
    \cup UNION {At(q.enterprise > MaxCores \/ q.standard > MaxCores, "sql_payg", "range")
                  \cup At(q.enterprise = 0 /\ q.standard = 0, "sql_payg", "required")
                  \cup At(q.spend < 0, "software_assurance_annual_usd", "range") : q \in s.sqlPayg}

SettingsIssues(s) ==
  At(s.currency # "USD", "currency", "unsupported")
    \cup RegionIssues(s) \cup DiscountIssues(s)
    \cup At(~Within(s.hours, 0, MaxAnnualHours), "default_annual_hours", "range")
    \cup (IF s.type = "on_prem" THEN OnPremSettingsIssues(s) ELSE {})
    \cup (IF s.type = "sql_payg" THEN SqlPaygIssues(s)
          ELSE At(s.sqlPayg # {}, "sql_payg", "not_allowed"))

-----------------------------------------------------------------------------
(* The resources. *)

SharedIssues(r, type) ==
  At(r.type # type, "source_type", "project_type_mismatch")
    \cup At(~Within(r.workload, 1, 160), "workload_name", "length")
    \cup At(\E n \in r.server : n > 160, "server_name", "length")
    \cup At(~Within(r.quantity, 1, MaxQuantity), "quantity", "range")
    \cup At(\E q \in r.sql : ~Within(q.data, 0, MaxDataGb), "sql_data_gb_per_instance", "range")
    \cup At(r.ram <= 0 \/ r.ram > MaxRamGb, "source_ram_gb_per_instance", "range")
    \cup At(~Within(r.hours, 0, MaxAnnualHours), "annual_hours_per_instance", "range")

VolumeIssues(v) ==
  At(~Within(v.label, 1, 80), "label", "length")
    \cup At(\E n \in v.awsId : n > 128, "aws_volume_id", "length")
    \cup At(v.capacity < 0, "capacity_gb", "range")
    \cup At(v.type # "ephemeral" /\ v.iops = {}, "provisioned_iops", "required")
    \cup At(\E t \in v.throughput : t < 0, "throughput_mibps", "range")

\* a volume of a virtual machine becomes a disk: it persists and has a role
VmVolumeIssues(v) ==
  VolumeIssues(v) \cup At(v.type = "ephemeral", "volume_type", "unsupported")
    \cup At(v.role = "unknown", "role", "required")

VolumeCountIssues(r) == At(~Within(Len(r.volumes), 1, 50), "volumes", "limit")

Ec2Issues(r) == At(r.instance = "", "instance_type", "required") \cup VolumeCountIssues(r)

OsDisks(r) == {i \in DOMAIN r.volumes : r.volumes[i].role = "os"}

\* seeded fault: a virtual machine without an OS disk is let through
Ec2VmIssuesNoOs(r) ==
  At(r.instance = "", "instance_type", "required")
    \cup At(\E name \in r.req.wanted : name < 0, "requested_target_arm_sku", "format")
    \cup VolumeCountIssues(r)
Ec2VmIssues(r) ==
  At(r.instance = "", "instance_type", "required")
    \cup At(r.req.store = "used" /\ \A gb \in r.req.local : gb <= 0, "required_local_temp_disk_gb", "required")
    \cup At(r.req.store = "used" /\ r.req.lossAcceptable = {}, "ephemeral_data_loss_acceptable", "required")
    \cup At(\E name \in r.req.wanted : name < 0, "requested_target_arm_sku", "format")
    \cup At(Cardinality(OsDisks(r)) # 1, "volumes", "os_disk")
    \cup VolumeCountIssues(r)

RdsIssues(r) ==
  At(r.instance = "", "instance_type", "required") \cup At(r.term = "", "commercial_term", "required")
    \cup At(r.class = "", "storage_class", "required")
    \cup At(r.iops > MaxDataGb, "source_max_iops", "range")

OnPremIssues(r) ==
  At(~Within(r.vcpu, 1, MaxCores), "source_vcpu", "range")
    \cup At(~Within(r.cores, 1, MaxCores), "licensable_cores", "range")
    \cup At(r.iops > MaxDataGb, "source_max_iops", "range")
    \cup At(r.capex < 0, "hardware_capex_usd", "range")
    \cup At(r.years <= 0 \/ r.years > 50, "depreciation_years", "range")
    \cup At(\E kw \in r.power : kw <= 0, "average_power_kw_override", "range")

ResourceIssues(r, type) ==
  SharedIssues(r, type)
    \cup CASE r.type = "ec2" -> Ec2Issues(r)
           [] r.type = "ec2_vm" -> Ec2VmIssues(r)
           [] r.type = "rds" -> RdsIssues(r)
           [] r.type = "on_prem" -> OnPremIssues(r)

-----------------------------------------------------------------------------
(* The project. *)

VolumesOf(r) == IF r.type \in {"ec2", "ec2_vm"} THEN r.volumes ELSE <<>>
\* the volumes of all resources share one name space
VolumePlaces(p) ==
  UNION {{<<i, j>> : j \in DOMAIN VolumesOf(p.resources[i])} : i \in DOMAIN p.resources}
VolumeAt(p, at) == VolumesOf(p.resources[at[1]])[at[2]]
Before(at, bt) == at[1] < bt[1] \/ (at[1] = bt[1] /\ at[2] < bt[2])

DuplicateIssues(p) ==
  (UNION {InResource(i, At(\E j \in 1..(i - 1) : p.resources[j].id = p.resources[i].id, "id", "duplicate")) :
            i \in DOMAIN p.resources})
    \cup UNION {InVolume(bt[1], bt[2],
                         At(\E at \in VolumePlaces(p) :
                              Before(at, bt) /\ VolumeAt(p, at).id = VolumeAt(p, bt).id, "id", "duplicate")) :
                  bt \in VolumePlaces(p)}

ProjectIssues(p) ==
  At(~Within(p.name, 1, 100), "name", "length")
    \cup At(\E n \in p.description : n > 500, "description", "length")
    \cup At(Len(p.resources) > 100, "resources", "limit")
    \cup At(p.settings.type = "sql_payg" /\ p.resources # <<>>, "resources", "not_allowed")
    \cup At(FALSE \in p.awsSnapshotId, "aws_price_snapshot_id", "format")
    \cup At(FALSE \in p.azureSnapshotId, "azure_price_snapshot_id", "format")

Issues(p) ==
  InProject(ProjectIssues(p) \cup SettingsIssues(p.settings))
    \cup (UNION {InResource(i, ResourceIssues(p.resources[i], p.settings.type)) : i \in DOMAIN p.resources})
    \cup (UNION {InVolume(at[1], at[2],
                          IF p.resources[at[1]].type = "ec2" THEN VolumeIssues(VolumeAt(p, at))
                          ELSE VmVolumeIssues(VolumeAt(p, at))) : at \in VolumePlaces(p)})
    \cup DuplicateIssues(p)
=============================================================================
