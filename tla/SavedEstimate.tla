---------------------------- MODULE SavedEstimate ----------------------------
(***************************************************************************)
(* What becomes of the estimate of a saved project: the row of the project *)
(* list that sums it up (api/projects.rs) and the manifest from which the  *)
(* companion fills in the public calculator (api/calculator_launches.rs).  *)
(* Both are computed from the document a save has stored, without looking  *)
(* at prices again.                                                        *)
(***************************************************************************)
EXTENDS Calculation

CONSTANTS
  LargestDigits,   \* a decimal is an integer up to this over a power of ten
  MostPlaces,      \* and the power is at most this one
  MaxItems         \* MAX_CALCULATOR_MANIFEST_ITEMS

\* a save calculates the project as soon as it names what it would be priced from
IsPriceable(p) ==
  \/ p.settings.type = "sql_payg"
  \/ /\ p.settings.type = "on_prem" \/ p.awsSnapshotId # {}
     /\ p.azureSnapshotId # {}

\* what the save of the project stores; a calculation that is refused refuses it
SavedDocuments ==
  {[project |-> project, revision |-> IF IsPriceable(project) THEN {a} ELSE {}] :
     a \in {a \in answer : expected = {} /\ a.problem = "none"}}

-----------------------------------------------------------------------------
(* The list of projects. *)

\* the source counts every row, the target those that have a price
Summary(d) ==
  LET source == UNION {x.totals.all : x \in d.revision}
      azure == {x.totals.azure : x \in {x \in d.revision : x.totals.counts.comparable > 0}}
  IN [resources |-> Len(d.project.resources), source |-> source, azure |-> azure,
      savings |-> {s - a : s \in source, a \in azure}]

-----------------------------------------------------------------------------
(* The manifest. *)

\* n / 10^places to the nearest decimal, giving up the places there is no room for
Fitted(n, places) ==
  LET Rounded(k) == (2 * n + 10^k) \div (2 * 10^k)
      dropped == Min({k \in 0..places : Rounded(k) <= LargestDigits})
  IN [digits |-> Rounded(dropped), places |-> places - dropped]
Quotient(n, divisor) ==
  Fitted((2 * n * 10^MostPlaces + divisor) \div (2 * divisor), MostPlaces)

MonthlyHours(annual) == Quotient(annual, 12)
\* the product that is compared is rounded as well
RoundTrips(annual) ==
  LET hours == MonthlyHours(annual)
      back == Fitted(12 * hours.digits, hours.places)
  IN back.digits = annual * 10^back.places

\* seeded fault: a reservation is bought as a savings plan
PlanOfTerm(option) ==
  LET plan == [payg |-> "payg", ahb |-> "payg"]
                @@ "one-year" :> "savings_1y" @@ "ahbone-year" :> "savings_1y"
                @@ "three-year" :> "reserved_3y" @@ "ahbthree-year" :> "reserved_3y"
                @@ "sv-one-year" :> "savings_1y" @@ "ahbsv-one-year" :> "savings_1y"
  IN plan[option]
Plan(option) ==
  LET plan == [payg |-> "payg", ahb |-> "payg"]
                @@ "one-year" :> "reserved_1y" @@ "ahbone-year" :> "reserved_1y"
                @@ "three-year" :> "reserved_3y" @@ "ahbthree-year" :> "reserved_3y"
                @@ "sv-one-year" :> "savings_1y" @@ "ahbsv-one-year" :> "savings_1y"
  IN plan[option]
HybridBenefit(option) == option \in {"ahb", "ahbone-year", "ahbthree-year", "ahbsv-one-year"}

Supported(p) ==
  /\ p.settings.type \notin {"ec2_vm", "sql_payg"}
  /\ p.settings.currency = "USD"
  /\ Len(p.resources) \in 1..MaxItems

\* the estimate was made with the engine's formulas from the snapshot the project names
BoundTo(revision, p) ==
  /\ p.azureSnapshotId # {}
  /\ Len(revision.rows) = Len(p.resources)
  /\ \A i, j \in DOMAIN revision.rows : revision.rows[i].id = revision.rows[j].id => i = j

RowOf(revision, r) == CHOOSE row \in Records(revision.rows) : row.id = r.id
Transferable(row, r, p) ==
  /\ row.azure \in {"fresh", "cached"} /\ row.mapping = {"mapped"} /\ row.azureCosts # {}
  /\ \A t \in row.target : \A x \in t.selected :
       x.shape.region = p.settings.azureRegion /\ x.shape.hardware \in PremiumSeries
  /\ RoundTrips(r.hours)

Item(row, r) ==
  LET x == Value(Value(row.target).selected)
      c == Value(row.azureCosts)
      option == Value(r.sql).option
  IN [region |-> x.shape.region, tier |-> x.shape.tier, hardware |-> x.shape.hardware,
      vcores |-> x.shape.vcores, memory |-> x.memory, zoneRedundant |-> x.shape.zoneRedundant,
      quantity |-> r.quantity, hours |-> MonthlyHours(r.hours), plan |-> Plan(option),
      benefit |-> HybridBenefit(option), storage |-> row.storage.azure,
      expected |-> [compute |-> c.computeGross, memory |-> c.memoryGross, license |-> c.licenseGross,
                    storage |-> c.storageGross,
                    total |-> c.computeGross + c.memoryGross + c.licenseGross + c.storageGross]]

\* all rows or none
Manifests(d) ==
  {[i \in DOMAIN d.project.resources |->
      Item(RowOf(revision, d.project.resources[i]), d.project.resources[i])] :
     revision \in {x \in d.revision :
       /\ Supported(d.project) /\ BoundTo(x, d.project)
       /\ \A r \in Records(d.project.resources) :
            /\ r.id \in {row.id : row \in Records(x.rows)}
            /\ Transferable(RowOf(x, r), r, d.project)}}

-----------------------------------------------------------------------------
(* The public calculator. *)

\* what it charges for a plan, with the benefit or without
ChargedAs(plan, benefit) ==
  IF plan = "payg" THEN IF benefit THEN "ahb" ELSE "payg"
  ELSE (IF benefit THEN "ahb" ELSE "")
         \o [reserved_1y |-> "one-year", reserved_3y |-> "three-year", savings_1y |-> "sv-one-year"][plan]

\* the configurations that look like an item in its form
Offered(item) ==
  {c \in Catalog :
     /\ c.region = item.region /\ c.tier = item.tier /\ c.hardware = item.hardware
     /\ c.vcores = item.vcores /\ c.zoneRedundant = item.zoneRedundant /\ item.memory \in c.memory}

-----------------------------------------------------------------------------
(* Properties. *)

(* Whoever types a manifest into the calculator is shown the amounts it    *)
(* expects: the form knows one configuration like the item, the plan and   *)
(* the benefit lead to rates of the snapshot the project names, and with   *)
(* the item's quantity, storage and memory these come to each amount, for  *)
(* hours that are a twelfth of the year's to the last digit kept.  Option, *)
(* hardware and hours are converted by tables of build_item's own, while   *)
(* the amounts are those of an earlier calculation.                        *)
ManifestReproduces ==
  \A d \in SavedDocuments : \A m \in Manifests(d) : \A i \in DOMAIN m :
    LET item == m[i]
        annual == d.project.resources[i].hours
        factor == item.quantity * annual
    IN /\ 2 * (12 * item.hours.digits - annual * 10^item.hours.places) \in -12..12
       /\ Cardinality(Offered(item)) = 1
       /\ \A c \in Offered(item) : \A s \in input.azure :
            \A rate \in MiRates(s, c.key, ChargedAs(item.plan, item.benefit)) :
              /\ item.expected.compute = factor * rate.compute
              /\ item.expected.license = factor * rate.license
              /\ item.expected.memory = factor * (item.memory - c.included) * rate.memory
              /\ item.expected.storage = item.quantity * 12 * BillableStorage(item.storage) * rate.storage

(* What a project saves, as its list shows it, is what the rows that can   *)
(* be compared save.  The specification asks that an unsupported target    *)
(* produces no false savings and that totals are those of mapped rows only *)
(* (Azure Specification.md:916 and :1740).                                 *)
NoFalseSavings ==
  \A d \in SavedDocuments : \A s \in Summary(d).savings : \A x \in d.revision :
    s = x.totals.source - x.totals.azure
=============================================================================
