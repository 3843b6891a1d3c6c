----------------------------- MODULE Calculation -----------------------------
(***************************************************************************)
(* A request for an estimate (api/calculations.rs, the CalculationEngine   *)
(* of calculation/workflow.rs).  A refresh has made snapshots of what the  *)
(* providers published; the request names snapshots and carries a project. *)
(* It is refused, or every resource becomes a row and the rows a total; or *)
(* an amount does not fit a decimal and the request panics.                *)
(*                                                                         *)
(* Nothing here runs concurrently: the steps are those of one request.     *)
(* What varies is the project, the prices the snapshots hold and whether   *)
(* the store answers.                                                      *)
(***************************************************************************)
EXTENDS EstimateRows

CONSTANTS
  Projects,                  \* the projects a request may carry
  AwsFeeds, AzureFeeds,      \* what a refresh of each provider may have parsed
  Subject,                   \* what a provider's warning is about
  PerEnterprise, PerStandard \* what a core costs an hour as you go

(* The types of the request's fields (domain/project.rs,                    *)
(* domain/resource.rs): a resource is of one of four types, an amount it   *)
(* carries is a number, an optional one at most one number.                *)
AtMostOne(opt) == \A m, n \in opt : m = n

SettingsTyped(s) ==
  /\ s.discount \in [Discounts -> Int] /\ s.hours \in Int
  /\ \A opt \in {s.pack["enterprise"], s.pack["standard"], s.coverageMonths, s.electricityRate} :
       opt \subseteq Int /\ AtMostOne(opt)
  /\ \A q \in s.sqlPayg : q.enterprise \in Nat /\ q.standard \in Nat /\ q.spend \in Int

Typed(r) ==
  /\ r.type \in AwsTypes \cup {"on_prem"} /\ r.quantity \in Nat /\ r.ram \in Int /\ r.hours \in Int
  /\ r.type = "on_prem" =>
       /\ r.vcpu \in Nat /\ r.cores \in Nat /\ r.capex \in Int /\ r.years \in Int
       /\ r.power \subseteq Int /\ AtMostOne(r.power)
  /\ r.type \in {"rds", "on_prem"} => r.iops \in Nat
  /\ r.type # "ec2_vm" => r.sql # {} /\ \A q \in r.sql :
       q.edition \in Editions /\ q.option \in PurchaseOptions /\ q.data \in Int
  /\ AtMostOne(r.sql)
  /\ r.type \in {"ec2", "ec2_vm"} =>
       /\ r.volumes \in Seq(Range(r.volumes))
       /\ \A v \in Range(r.volumes) :
            /\ v.capacity \in Int /\ v.iops \subseteq Nat /\ v.throughput \subseteq Int
            /\ AtMostOne(v.iops) /\ AtMostOne(v.throughput)

ASSUME ProjectsAssumption ==
  \A p \in Projects :
    /\ {"settings", "resources"} \subseteq DOMAIN p
    /\ SettingsTyped(p.settings)
    /\ p.resources \in Seq(Range(p.resources)) /\ \A r \in Range(p.resources) : Typed(r)

(* The types of what the parsers hand over (pricing/snapshot.rs). *)
ASSUME FeedsAssumption ==
  /\ \A f \in AwsFeeds :
       /\ f.metadata \in SnapshotCreationMetadata
       /\ f.ec2 \in Seq(AwsEc2RateRecord) /\ f.rds \in Seq(AwsRdsRateRecord) /\ f.ebs \in Seq(AwsEbsRateRecord)
  /\ \A f \in AzureFeeds :
       /\ f.metadata \in SnapshotCreationMetadata
       /\ f.mi \in Seq(AzureMiRateRecord) /\ f.vm \in Seq(AzureVmRateRecord) /\ f.disks \in Seq(AzureManagedDiskRateRecord)

(* The two prices of a core are constants of calculation/sql_payg.rs. *)
ASSUME CorePriceAssumption == PerEnterprise \in Nat /\ PerStandard \in Nat

VARIABLES
  project,    \* what the request carries
  expected,   \* the formula version it expects, if any: whether it is the engine's
  feed,       \* what the last refreshes parsed
  stored,     \* the snapshots the refreshes stored, by provider
  input,      \* the snapshots resolved for the request, by provider
  phase,      \* how far the request is
  rows,       \* the rows calculated so far
  answer      \* the answer, once there is one

vars == <<project, expected, feed, stored, input, phase, rows, answer>>

Providers == {"aws", "azure"}
Estimate == [settings |-> project.settings, aws |-> input.aws, azure |-> input.azure]

Init ==
  /\ project \in Projects /\ expected \in {{}, {TRUE}, {FALSE}}
  /\ feed \in [aws : AwsFeeds, azure : AzureFeeds]
  /\ stored = [p \in Providers |-> {}] /\ input = [p \in Providers |-> {}]
  /\ phase = "refresh" /\ rows = <<>> /\ answer = {}

\* what is refused is not stored
Refresh ==
  /\ phase = "refresh" /\ phase' = "resolve_aws"
  /\ stored' = [aws |-> AwsSnapshot(feed.aws.metadata, feed.aws.ec2, feed.aws.rds, feed.aws.ebs),
                azure |-> AzureSnapshot(feed.azure.metadata, feed.azure.mi, feed.azure.vm, feed.azure.disks)]
  /\ UNCHANGED <<project, expected, feed, input, rows, answer>>

Answer(a) == answer' = {a} /\ phase' = "answered"
Refuse(problem, by) == Answer([problem |-> problem, by |-> by])

\* every calculation slot of the replica is taken
Busy ==
  /\ phase = "resolve_aws"
  /\ Refuse("rate_limited", {})
  /\ UNCHANGED <<project, expected, feed, stored, input, rows>>

Named == [aws |-> project.awsSnapshotId, azure |-> project.azureSnapshotId]
Load == [aws |-> UNION {StoredAws(s) : s \in stored.aws},
         azure |-> UNION {StoredAzure(s) : s \in stored.azure}]

\* a snapshot the project names is read, is not there, or cannot be read
Resolve(provider, here, next) ==
  /\ phase = here
  /\ \/ /\ Named[provider] = {} /\ phase' = next
        /\ UNCHANGED <<input, answer>>
     \/ /\ Named[provider] # {}
        /\ Refuse("internal", {"lookup"})
        /\ UNCHANGED input
     \/ /\ Named[provider] # {} /\ (stored[provider] = {} \/ Named[provider] = {FALSE})
        /\ Refuse("snapshot_unavailable", {})
        /\ UNCHANGED input
     \/ /\ Named[provider] = {TRUE} /\ stored[provider] # {}
        /\ IF Load[provider] = {} THEN Refuse("internal", {"stored"}) /\ UNCHANGED input
           ELSE /\ input' = [input EXCEPT ![provider] = Load[provider]]
                /\ phase' = next /\ UNCHANGED answer
  /\ UNCHANGED <<project, expected, feed, stored, rows>>

ResolveAws == Resolve("aws", "resolve_aws", "resolve_azure")
ResolveAzure == Resolve("azure", "resolve_azure", "validate")

\* what is validated carries the ids of the snapshots that were found
InputIssues ==
  Issues([project EXCEPT !.name = 11, !.description = {},
                         !.awsSnapshotId = {TRUE : s \in input.aws},
                         !.azureSnapshotId = {TRUE : s \in input.azure}])

ScopeMismatch ==
  LET s == project.settings
  IN \/ \E snapshot \in input.aws :
          s.awsRegion = {} \/ ~MatchesScope(snapshot, "aws", s.currency, Value(s.awsRegion))
     \/ \E snapshot \in input.azure : ~MatchesScope(snapshot, "azure", s.currency, s.azureRegion)

Validate ==
  /\ phase = "validate"
  /\ IF expected = {FALSE} THEN Refuse("validation", {"formula"})
     ELSE IF InputIssues # {} THEN Refuse("validation", InputIssues)
     ELSE IF ScopeMismatch THEN Refuse("snapshot_unavailable", {})
     ELSE /\ phase' = IF project.settings.type = "sql_payg" THEN "sql_payg" ELSE "rows"
          /\ UNCHANGED answer
  /\ UNCHANGED <<project, expected, feed, stored, input, rows>>

-----------------------------------------------------------------------------
(* The totals. *)

SumOver(S, amount(_)) == Total([i \in S |-> rows[i]], amount)
Comparable == {i \in DOMAIN rows : rows[i].source # {} /\ rows[i].azureCosts # {}}
SourceAmount(row) == SourceTotal(Value(row.source))
AzureAmount(row) == AzureTotal(Value(row.azureCosts))

Totals(all, source, azure, required, parity, counts) ==
  [all |-> all, source |-> source, azure |-> azure, required |-> required, parity |-> parity,
   after |-> Discounted(azure, parity), difference |-> Discounted(azure, parity) - source * Whole,
   counts |-> counts]

\* seeded fault: the sum of the sources counts rows without a target
SourcesOfAll == SumOver({i \in DOMAIN rows : rows[i].source # {}}, SourceAmount)
SourcesCompared == SumOver(Comparable, SourceAmount)

Portfolio ==
  LET azure == SumOver(Comparable, AzureAmount)
  IN Totals(IF \E i \in DOMAIN rows : rows[i].source = {} THEN {}
            ELSE {SumOver(DOMAIN rows, SourceAmount)},
            SourcesCompared, azure, Adjustment(SourcesCompared, azure), project.settings.discount.parity,
            [comparable |-> Cardinality(Comparable),
             noMapping |-> Cardinality({i \in DOMAIN rows : rows[i].mapping = {"no_mapping"}}),
             unpriced |-> Cardinality({i \in DOMAIN rows : "unavailable" \in {rows[i].aws, rows[i].azure}})])

\* a warning is passed on when a resource could depend on what it is about
Relevant(w) ==
  LET about == Subject[w]
      Some(P(_)) == \E i \in DOMAIN project.resources : P(project.resources[i])
  IN CASE about.kind = "ec2_fallback" ->
            Some(LAMBDA r : /\ r.type = "ec2" /\ r.instance = about.instance
                            /\ Value(r.sql).edition = about.edition)
       [] about.kind = "rds_storage" ->
            Some(LAMBDA r : /\ r.type = "rds" /\ r.instance = about.instance
                            /\ r.deployment = about.deployment)
       [] about.kind = "rds_license" ->
            Some(LAMBDA r : r.type = "rds" /\ Value(r.sql).edition = about.edition)
       [] OTHER -> TRUE

Warnings ==
  UNION {{w \in Records(s.warnings) : Relevant(w)} : s \in input.aws \cup input.azure}
    \cup {-1 : s \in {s \in input.aws : s.status = "stale"}}
    \cup {-2 : s \in {s \in input.azure : s.status = "stale"}}

Revision(results, totals, warnings, analysis) ==
  [problem |-> "none", rows |-> results, totals |-> totals, warnings |-> warnings, analysis |-> analysis]

\* nothing catches a panic: the connection closes without an answer and nothing is saved
Panic == phase' = "panicked" /\ UNCHANGED answer

\* one resource; an error of the calculation itself ends the request
CalculateResource ==
  /\ phase = "rows" /\ Len(rows) < Len(project.resources)
  /\ LET r == project.resources[Len(rows) + 1]
         errors == RowErrors(r, Estimate)
         row == CalculateRow(r, Estimate)
     IN IF errors # {} THEN Refuse("internal", errors) /\ UNCHANGED rows
        ELSE IF RowPanics(r, row, Estimate) THEN Panic /\ UNCHANGED rows
        ELSE rows' = Append(rows, row) /\ UNCHANGED <<phase, answer>>
  /\ UNCHANGED <<project, expected, feed, stored, input>>

Finish ==
  /\ phase = "rows" /\ Len(rows) = Len(project.resources)
  /\ LET totals == Portfolio
     IN IF Panics({CeilDiv(t, Whole) : t \in totals.all \cup {totals.source, totals.azure}},
                  Quotients(totals.source, totals.azure))
        THEN Panic
        ELSE Answer(Revision(rows, totals, Warnings, {}))
  /\ UNCHANGED <<project, expected, feed, stored, input, rows>>

\* -3 and -4 stand for the two notes every such estimate carries
CalculateSqlPayg ==
  /\ phase = "sql_payg"
  /\ LET s == project.settings
         q == Value(s.sqlPayg)
         errors == SqlPaygErrors(q, s.hours, s.discount.parity)
         x == SqlPayg(q, s.hours, s.discount.parity, PerEnterprise, PerStandard)
     IN IF errors # {} THEN Refuse("internal", errors)
        ELSE IF Panics({x.gross}, Quotients(q.spend, x.gross)) THEN Panic
        ELSE Answer(Revision(<<>>, Totals({q.spend}, q.spend, x.gross, x.required, s.discount.parity,
                                          [comparable |-> 1, noMapping |-> 0, unpriced |-> 0]),
                             {-3, -4}, {x}))
  /\ UNCHANGED <<project, expected, feed, stored, input, rows>>

Next ==
  \/ Refresh \/ Busy \/ ResolveAws \/ ResolveAzure \/ Validate
  \/ CalculateResource \/ Finish \/ CalculateSqlPayg

Spec == Init /\ [][Next]_vars

-----------------------------------------------------------------------------
(* Properties. *)

(* A request is refused for an internal reason only when the store cannot  *)
(* be read: no later check refuses what validation lets through.  The      *)
(* checks are written twice, in project.rs and in the selectors and cost   *)
(* functions, whose errors calculate_project turns into an internal        *)
(* problem.  This is about refusals.  Validation has no upper bound on a   *)
(* capacity, a throughput, a price of hardware, power or licences nor on   *)
(* the spend, and none but zero below the years and the memory, so that    *)
(* the amounts of a valid project can leave the range of a decimal; then   *)
(* the request panics (Panic) and there is no answer to speak of.          *)
ValidIsCalculated ==
  \A a \in answer : a.problem = "internal" => a.by = {"lookup"}

(* What a snapshot accepted never makes an amount impossible: with rates   *)
(* that PriceSnapshot took in, the only errors left to a source are a      *)
(* licence or a disk type that is not priced, and to a target a missing    *)
(* dimension of a disk, never a negative rate, a broken tier or a licence  *)
(* dearer than its machine.  The costs check again what the snapshots      *)
(* check; a gap would show a wrong amount or hide a row.                   *)
RatesSuffice ==
  \A i \in DOMAIN rows :
    LET r == project.resources[i]
    IN /\ \A s \in input.aws :
            /\ r.type = "ec2" => \A rate \in Ec2Rates(s, r.instance) :
                 Ec2Errors(r, rate, s.content.ebs) \subseteq {"missing_source_license_rate", "missing_ebs_rate"}
            /\ r.type = "ec2_vm" => \A rate \in Ec2Rates(s, r.instance) :
                 Ec2VmErrors(r, rate, s.content.ebs) \subseteq {"missing_ebs_rate"}
            /\ r.type = "rds" => \A rate \in RdsRates(s, r) : RdsErrors(r, rate) = {}
       /\ \A s \in input.azure :
            /\ \A t \in rows[i].target : \A x \in t.selected :
                 HasCompleteMiRateSet(s, x.shape.key) =>
                   MiErrors(Value(MiRates(s, x.shape.key, Value(r.sql).option))) = {}
            /\ \A v \in rows[i].vm : \A x \in v.selected :
                 /\ AllDiskErrors(x, s) \subseteq {"missing_azure_managed_disk_rate"}
                 /\ \A rate \in VmRates(s, x.size.name, r.option) : VmErrors(rate) = {}

(* No check of the calculation stops at what was let in: it neither        *)
(* refuses a valid project nor finds a wrong rate in an accepted snapshot. *)
(* Amounts beyond the range of a decimal are the exception, see above.     *)
AcceptedIsCalculable == ValidIsCalculated /\ RatesSuffice

(* A target holds its source or says what it lacks: a shape has the        *)
(* storage always and the IOPS of its tier, a shape without reasons has    *)
(* the vCPU and memory too, no eligible shape is smaller in both, and one  *)
(* that lacks something is only given when no shape of the tier holds the  *)
(* source.  A virtual machine carries the sum of its disks and each disk   *)
(* its volume, and no eligible size is newer, or as new and smaller.  The  *)
(* IOPS limit is that of a shape chosen without regard to storage: nothing *)
(* in the code compares the shape that storage leads to with the IOPS.     *)
ShapeFits(r, t) ==
  \A x \in t.selected :
    /\ HoldsStorage(x.shape, r)
    /\ t.reasons = {} =>
         /\ r.vcpu <= x.shape.vcores /\ r.memory <= x.memory /\ x.memory \in x.shape.memory
         /\ t.tier = NGGP => r.iops <= AtMost(x.shape.vcores * IopsPerVcore, MaxNggpIops)
         /\ \A c \in Eligible(r, t.tier, TRUE) :
              ~(c.vcores < x.shape.vcores /\ \A m \in SelectedMemory(c, r) : m <= x.memory)
    /\ t.reasons # {} => Eligible(r, t.tier, TRUE) = {}

SizeFits(r, v, request) ==
  \A x \in v.selected :
    /\ r.ram <= x.size.memory /\ request.vcpu <= x.size.vcpus
    /\ DOMAIN x.disks = DOMAIN request.volumes
    /\ \A i \in DOMAIN x.disks :
         /\ request.volumes[i].capacity <= x.disks[i].capacity
         /\ request.volumes[i].iops <= x.disks[i].iops
         /\ request.volumes[i].throughput <= x.disks[i].throughput
    /\ TotalIops(x.disks) <= x.size.iops
    /\ TotalThroughput(x.disks) <= x.size.throughput
    /\ request.wanted = {} =>
         \A s \in InRegion(request) : [name |-> s.name, why |-> {}] \in v.candidates =>
           /\ s.rank <= x.size.rank
           /\ s.rank = x.size.rank => ~(s.vcpus <= x.size.vcpus /\ s.memory < x.size.memory)

TargetsFit ==
  \A i \in DOMAIN rows :
    LET r == project.resources[i]
        source == ResolveSource(r, Estimate)
    IN /\ \A t \in rows[i].target : ShapeFits(MiRequest(r, Estimate, source, StorageInputs(r)), t)
       /\ \A v \in rows[i].vm :
            SizeFits(r, v, VmRequest(r, Estimate, Value(source.vcpu), Value(SourceClass(r.family))))

(* A row accounts for every amount it lacks.  An amount is missing exactly *)
(* when its provider is reported unavailable, and then the row names an    *)
(* unresolved component of that provider or could not size its source; a   *)
(* target whose price was not needed is reported so; savings are there     *)
(* exactly when both sides are; a virtual machine is recommended without   *)
(* reservation only when it is priced.  Each field of a row is filled in   *)
(* by a different branch of two handlers of some hundred lines.            *)
Lacks(x, provider) == \E u \in x.unresolved : u[1] = provider
RowExplained(x) ==
  LET unsized == <<"aws", "source_metadata_unavailable">> \in x.unresolved
  IN /\ (x.source = {}) <=> (x.aws = "unavailable")
     /\ (x.source = {}) <=> Lacks(x, "aws")
     /\ (x.azureCosts # {}) <=> (x.azure \in UsableStatuses)
     /\ x.azureCosts # {} => x.mapping = {"mapped"}
     /\ x.mapping = {"mapped"} /\ x.azureCosts = {} => x.azure = "unavailable"
     /\ (x.azure = "unavailable") <=> (Lacks(x, "azure") \/ unsized)
     /\ (x.savings # {}) <=> (x.source # {} /\ x.azureCosts # {})
     /\ (x.discounts # {}) <=> (x.azureCosts # {} /\ x.type # "ec2_vm")
     /\ x.mapping # {} => Cardinality(x.target \cup x.vm) = 1
     /\ \A v \in x.vm :
          /\ v.recommendation = "recommended" => v.reasons = {} /\ x.azureCosts # {}
          /\ (v.selected # {}) <=> (x.mapping = {"mapped"})
          /\ v.recommendation = "incomplete" => x.azureCosts = {}
RowsExplained == \A i \in DOMAIN rows : RowExplained(rows[i])

(* The totals are those of the rows that can be compared, on both sides:   *)
(* the difference of the portfolio is the sum of the differences of its    *)
(* rows, and when every row can be compared nothing is left out of the     *)
(* source.  For Software Assurance the break-even is what a discount of    *)
(* the required size leaves to pay, never more than either side.           *)
PortfolioAddsUp ==
  \A a \in answer : a.problem = "none" =>
    LET t == a.totals
    IN /\ a.analysis = {} =>
            /\ t.difference = SumOver({i \in DOMAIN rows : rows[i].savings # {}},
                                      LAMBDA row : Value(row.savings).difference)
            /\ t.counts.comparable = Len(rows) => t.all = {t.source}
            /\ t.all # {} => t.source <= Value(t.all)
       /\ \A x \in a.analysis :
            /\ x.required[1] = x.gross - x.breakEven \/ x.required = <<0, 1>>
            /\ x.breakEven <= x.gross /\ x.breakEven <= t.source
            /\ t.after - t.source * Whole = -x.savings

\* what each unit costs, from the tier it lies in
UnitRate(n, tiers) ==
  LET in == {k \in DOMAIN tiers : \A limit \in tiers[k].upTo : n <= limit}
  IN tiers[Min(in)].rate
PaidOnce(units, tiers) == TieredCost(units, tiers) = MapThenSumSet(LAMBDA n : UnitRate(n, tiers), 1..units)

(* The numbers a row shows reproduce its amounts: the formula that each    *)
(* step states holds of the values beside it, hourly and monthly rates     *)
(* included, which are worked back from the amounts.  Every IOPS that is   *)
(* paid for is paid in one tier, storage is the least number of units that *)
(* holds the data, and a disk is the least multiple of its step.           *)
FiguresReproduce ==
  \A i \in DOMAIN rows :
    LET r == project.resources[i]
    IN /\ \A k \in DOMAIN rows[i].steps : Reproduces(rows[i].steps[k])
       /\ r.type # "ec2_vm" =>
            LET needed == rows[i].storage.sql + rows[i].storage.ebs
                units == rows[i].storage.azure \div UnitGb
            IN /\ rows[i].storage.azure = units * UnitGb /\ units >= 1
               /\ needed <= units * UnitGb /\ (units > 1 => (units - 1) * UnitGb < needed)
       /\ \A v \in rows[i].vm : \A x \in v.selected : \A j \in DOMAIN x.disks :
            \A o \in {o \in Offers : o.key = x.disks[j].offer /\ o.independent} : \A step \in o.increment :
              /\ x.disks[j].capacity % step = 0
              /\ x.disks[j].capacity - step < Larger(Volumes(r)[j].capacity, Or0(o.min))
       /\ r.type \in {"ec2", "ec2_vm"} =>
            \A j \in Persistent(r) : \A s \in input.aws :
              \A rate \in EbsRates(s.content.ebs, r.volumes[j].type) :
                rate.type = "io2" /\ r.volumes[j].iops # {} =>
                  PaidOnce(PaidIops(r.volumes[j], rate), rate.tiers)

(* What the code says of a shape it chose because the source is beyond the *)
(* tier (target_selector.rs:339): the service "does not offer the source   *)
(* requirement of N vCores in the tier on the hardware" of the shape, so   *)
(* no shape of the tier and hardware that holds the storage does.          *)
ShortfallIsReal ==
  \A i \in DOMAIN rows : \A t \in rows[i].target :
    "insufficient_vcores" \in t.reasons =>
      LET r == MiRequest(project.resources[i], Estimate, ResolveSource(project.resources[i], Estimate),
                         StorageInputs(project.resources[i]))
      IN \A x \in t.selected : \A c \in Closable(r, t.tier) :
           c.hardware = x.shape.hardware /\ HoldsStorage(c, r) => c.vcores < r.vcpu

=============================================================================
