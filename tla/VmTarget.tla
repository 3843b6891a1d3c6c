------------------------------ MODULE VmTarget ------------------------------
(***************************************************************************)
(* The choice of an Azure virtual machine and one managed disk for every   *)
(* persistent source volume (calculation/vm_target_selector.rs).  A disk   *)
(* depends on its volume alone; a size must then carry all the disks.      *)
(*                                                                         *)
(* An optional value is a set of at most one element, an amount an         *)
(* integer, a name a number that stands for its place in the alphabet.     *)
(* Volumes keep their order: a disk is its volume's by position.           *)
(***************************************************************************)
EXTENDS Integers, Sequences, FiniteSets, FiniteSetsExt, Functions

CONSTANTS
  Sizes,   \* the reviewed virtual machine capability catalogue
  Offers   \* the reviewed managed disk catalogue

(* The types of the two catalogues' fields, and that a size has one entry  *)
(* in a region: both catalogues are part of the program (app/catalogs).    *)
ASSUME VmCatalogAssumption ==
  /\ \A s \in Sizes : s.rank \in Int /\ s.vcpus \in Int /\ s.memory \in Int
  /\ \A s, t \in Sizes : s.region = t.region /\ s.name = t.name => s = t
  /\ \A o \in Offers :
       /\ o.increment \cup o.min \cup o.includedIops \cup o.includedThroughput \subseteq Int
       /\ \A t \in o.tiers : t.capacity \in Int /\ t.iops \in Int /\ t.throughput \in Int

Lineage ==
  [burstable |-> "burstable", general_purpose |-> "general_purpose",
   memory_optimized |-> "memory_optimized", high_frequency |-> "memory_optimized"]

\* the class of a source instance by the letters its family begins with
SourceClass(family) ==
  CASE family = "t" -> {"burstable"}
    [] family = "m" -> {"general_purpose"}
    [] family = "r" -> {"memory_optimized"}
    [] family = "z" -> {"high_frequency"}
    [] OTHER -> {}

Or0(opt) == IF opt = {} THEN 0 ELSE CHOOSE x \in opt : TRUE
Larger(a, b) == IF a < b THEN b ELSE a
Total(s, f(_)) == FoldFunction(+, 0, [i \in DOMAIN s |-> f(s[i])])
TotalIops(disks) == Total(disks, LAMBDA d : d.iops)
TotalThroughput(disks) == Total(disks, LAMBDA d : d.throughput)

-----------------------------------------------------------------------------
(* A disk for one volume. *)

\* seeded fault: a whole step is added even to a multiple of the step
RoundPast(a, step) == a + step - (a % step)
\* the smallest multiple of the increment that is no less
RoundUp(a, step) == IF a % step > 0 THEN a + step - (a % step) ELSE a

IndependentDisk(o, v) ==
  LET least == Larger(v.capacity, Or0(o.min))
      iops == Larger(v.iops, Or0(o.includedIops))
      throughput == Larger(v.throughput, Or0(o.includedThroughput))
  IN {[offer |-> o.key, independent |-> TRUE, tier |-> {}, capacity |-> RoundUp(least, step),
       iops |-> iops, throughput |-> throughput,
       extraIops |-> iops - Or0(o.includedIops),
       extraThroughput |-> throughput - Or0(o.includedThroughput)]
        : step \in {s \in o.increment : s > 0 /\ RoundUp(least, s) <= o.max}}

\* seeded fault: a tier that only has the capacity will do
HoldsCapacity(t, v) == t.capacity >= v.capacity
HoldsVolume(t, v) ==
  t.capacity >= v.capacity /\ t.iops >= v.iops /\ t.throughput >= v.throughput

TieredDisk(o, v) ==
  LET fit == {t \in o.tiers : HoldsVolume(t, v)}
  IN {[offer |-> o.key, independent |-> FALSE, tier |-> {t.key}, capacity |-> t.capacity,
       iops |-> t.iops, throughput |-> t.throughput, extraIops |-> 0, extraThroughput |-> 0]
        : t \in {t \in fit : \A u \in fit :
                          t.capacity < u.capacity \/ (t.capacity = u.capacity /\ t.key <= u.key)}}

\* the smaller, then the one provisioned independently, then the first offer
PrefersDisk(d, e) ==
  \/ d.capacity < e.capacity
  \/ /\ d.capacity = e.capacity
     /\ \/ (d.independent /\ ~e.independent)
        \/ (d.independent = e.independent /\ d.offer <= e.offer)

SelectDisk(region, v) ==
  LET fit == UNION {IF o.independent THEN IndependentDisk(o, v) ELSE TieredDisk(o, v) :
                      o \in {o \in Offers : /\ region \in o.regions /\ v.role \in o.roles
                                            /\ v.iops <= o.maxIops
                                            /\ v.throughput <= o.maxThroughput}}
  IN {d \in fit : \A e \in fit : PrefersDisk(d, e)}

-----------------------------------------------------------------------------
(* A size that carries the disks. *)

\* the prices the snapshot must hold for a disk
PriceKeys(d) ==
  {[offer |-> d.offer, tier |-> d.tier, dimension |-> dim] :
     dim \in IF d.tier # {} THEN {"capacity_tier"}
             ELSE {"capacity_gb"} \cup (IF d.extraIops = 0 THEN {} ELSE {"additional_iops"})
                  \cup (IF d.extraThroughput = 0 THEN {} ELSE {"additional_throughput"})}

DataVolumes(r) == {i \in DOMAIN r.volumes : r.volumes[i].role = "data"}

\* the disks found, by position; all of them or the totals are not compared
DisksFor(r) == [i \in DOMAIN r.volumes |-> SelectDisk(r.region, r.volumes[i])]
Disks(found) == [i \in DOMAIN found |-> CHOOSE d \in found[i] : TRUE]
AllFound(found) == \A i \in DOMAIN found : found[i] # {}

RejectionsOf(s, r, found) ==
  LET disks == Disks(found)
  IN {code \in {"lifecycle_ineligible", "windows_unsupported", "architecture_unsupported",
                "premium_io_unsupported", "insufficient_vcpu", "insufficient_memory",
                "insufficient_local_temp_disk", "data_disk_count_exceeded",
                "no_eligible_disk_offer", "aggregate_disk_iops_exceeded",
                "aggregate_disk_throughput_exceeded", "price_unavailable"} :
        \/ code = "lifecycle_ineligible" /\ s.lifecycle # "current"
        \/ code = "windows_unsupported" /\ ~s.windows
        \/ code = "architecture_unsupported" /\ ~s.x64
        \/ code = "premium_io_unsupported" /\ ~s.premiumIo
        \/ code = "insufficient_vcpu" /\ s.vcpus < r.vcpu
        \/ code = "insufficient_memory" /\ s.memory < r.memory
        \/ code = "insufficient_local_temp_disk" /\ \E least \in r.temp : Or0(s.temp) < least
        \/ code = "data_disk_count_exceeded" /\ Cardinality(DataVolumes(r)) > s.dataDisks
        \/ code = "no_eligible_disk_offer" /\ ~AllFound(found)
        \/ /\ code = "aggregate_disk_iops_exceeded" /\ AllFound(found)
           /\ ~(TotalIops(disks) <= s.iops)
        \/ /\ code = "aggregate_disk_throughput_exceeded" /\ AllFound(found)
           /\ ~(TotalThroughput(disks) <= s.throughput)
        \/ /\ code = "price_unavailable"
           /\ \E p \in r.prices :
                \/ s.name \notin DOMAIN p.rates
                \/ \E i \in DOMAIN found : \E d \in found[i] : ~(PriceKeys(d) \subseteq p.disks)}

InRegion(r) == {s \in Sizes : s.region = r.region}
OfLineage(r) == {s \in InRegion(r) : s.lineage = Lineage[r.class]}

\* every size of the lineage is reported, and the requested one wherever it belongs
Evaluations(r, found) ==
  {[name |-> s.name, why |-> RejectionsOf(s, r, found)] : s \in OfLineage(r)}
    \cup {[name |-> s.name, why |-> {"lineage_mismatch"}] :
            s \in {s \in InRegion(r) \ OfLineage(r) : s.name \in r.wanted}}

Rate(s, r) == UNION {{p.rates[s.name]} : p \in r.prices}
\* seeded fault: the cheapest size, whatever its generation
PriceFirst(s, r) == <<Or0(Rate(s, r)), -s.rank, s.vcpus, s.memory, s.name>>
\* the newest generation, then the least surplus, then the lowest price, then the name
Ranks(s, r) == <<-s.rank, s.vcpus, s.memory, Or0(Rate(s, r)), s.name>>
RanksBefore(s, t, r) ==
  \E i \in 1..5 : /\ Ranks(s, r)[i] < Ranks(t, r)[i]
                  /\ \A j \in 1..(i - 1) : Ranks(s, r)[j] = Ranks(t, r)[j]

VmRequestError(r) ==
  CASE r.vcpu = 0 -> "invalid_source_vcpu"
    [] r.memory <= 0 -> "invalid_source_memory"
    [] r.volumes = <<>> -> "no_volumes"
    [] Quantify(DOMAIN r.volumes, LAMBDA i : r.volumes[i].role = "os") # 1 -> "os_volume_count"
    [] OTHER -> "none"

SelectVmTarget(r) ==
  LET found == DisksFor(r)
      eligible == {s \in OfLineage(r) : RejectionsOf(s, r, found) = {}}
      best == IF r.wanted # {} THEN {s \in eligible : s.name \in r.wanted}
              ELSE {s \in eligible : \A t \in eligible \ {s} : RanksBefore(s, t, r)}
  IN [selected |-> {[size |-> s, disks |-> Disks(found)] : s \in best},
      candidates |-> Evaluations(r, found),
      reasons |-> IF best # {} THEN {}
                  ELSE IF r.wanted # {} THEN {"target_override_ineligible"}
                  ELSE {"lineage_mismatch"}]
=============================================================================
