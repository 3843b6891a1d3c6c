--------------------------- MODULE TargetSelection ---------------------------
(***************************************************************************)
(* The choice of a SQL Managed Instance shape for one source instance      *)
(* (calculation/target_selector.rs).  The source's IOPS decide the service *)
(* tier; within the tier the smallest shape that holds the source is       *)
(* chosen, and for a source beyond every shape of the tier the closest.    *)
(*                                                                         *)
(* An optional value is a set of at most one element.  Amounts are         *)
(* integers: the code's decimals are only added, compared and subtracted.  *)
(* A configuration key identifies a shape and orders shapes that are       *)
(* otherwise alike.                                                        *)
(***************************************************************************)
EXTENDS Integers, FiniteSets

CONSTANTS
  Catalog,        \* the shapes of the reviewed capability catalogue
  IopsPerVcore,   \* NGGP_IOPS_PER_VCORE
  MaxNggpIops     \* NGGP_MAX_IOPS

NGGP == "next_generation_general_purpose"
BusinessCritical == "business_critical"
PremiumSeries == {"Premium Series", "Premium Series Memory Optimized"}
ShapeCodes == {"zone_redundancy_unsupported", "hardware_family_unsupported", "insufficient_storage"}
CapacityCodes == {"insufficient_vcores", "insufficient_memory"}

(* The arithmetic of the tier limit needs no more; the selection compares  *)
(* shapes by their keys last.                                              *)
ASSUME SelectionAssumption ==
  /\ IopsPerVcore \in Nat /\ MaxNggpIops \in Nat
  /\ \A c \in Catalog : /\ c.vcores \in Nat /\ c.key \in Nat /\ c.included \in Int
                         /\ c.memory \subseteq Nat /\ IsFiniteSet(c.memory)
  /\ \A c, d \in Catalog : c.key = d.key => c = d

Least(S) == {m \in S : \A n \in S : m <= n}
Greatest(S) == {m \in S : \A n \in S : n <= m}
AtMost(a, b) == IF a <= b THEN a ELSE b
Distance(a, b) == IF a >= b THEN a - b ELSE b - a

\* the shapes of the request's region and a tier
Shapes(r, tier) == {c \in Catalog : c.region = r.region /\ c.tier = tier}

HoldsMemory(c, r) == {m \in c.memory : r.memory <= m}
HoldsStorage(c, r) == \A max \in c.storage : r.storage <= max

\* why a shape of the tier is not eligible
Rejections(c, r, tier, storage) ==
  {code \in ShapeCodes \cup CapacityCodes :
     \/ code = "zone_redundancy_unsupported" /\ c.zoneRedundant
     \/ code = "hardware_family_unsupported" /\ tier = NGGP /\ c.hardware \notin PremiumSeries
     \/ code = "insufficient_vcores" /\ c.vcores < r.vcpu
     \/ code = "insufficient_memory" /\ HoldsMemory(c, r) = {}
     \/ code = "insufficient_storage" /\ storage /\ ~HoldsStorage(c, r)}

Eligible(r, tier, storage) == {c \in Shapes(r, tier) : Rejections(c, r, tier, storage) = {}}

\* a memory that holds the source, or the shape's largest
SelectedMemory(c, r) ==
  IF HoldsMemory(c, r) # {} THEN Least(HoldsMemory(c, r)) ELSE Greatest(c.memory)

\* the order of eligible shapes: least surplus of vCPU, then of memory, then the key
Precedes(c, d, r) ==
  \/ c.vcores < d.vcores
  \/ /\ c.vcores = d.vcores
     /\ \A m \in SelectedMemory(c, r), n \in SelectedMemory(d, r) :
          m < n \/ (m = n /\ c.key <= d.key)

First(S, r) == {c \in S : \A d \in S : Precedes(c, d, r)}

\* the limit comes from the shape the source would get if its storage did not matter
ThresholdVcores(r) ==
  LET preferred == First(Eligible(r, NGGP, FALSE), r)
  IN IF preferred = {} THEN {r.vcpu} ELSE {c.vcores : c \in preferred}
\* seeded fault: the limit is that of the catalogue's largest shape
LargestLimit(r) ==
  {AtMost(v * IopsPerVcore, MaxNggpIops) : v \in Greatest({c.vcores : c \in Shapes(r, NGGP)})}
NggpLimit(r) == {AtMost(v * IopsPerVcore, MaxNggpIops) : v \in ThresholdVcores(r)}
RequestedTier(r) == IF \A limit \in NggpLimit(r) : r.iops <= limit THEN NGGP ELSE BusinessCritical

\* what a source beyond the tier is compared with: only capacity may be lacking
Closable(r, tier) ==
  {c \in Shapes(r, tier) : Rejections(c, r, tier, FALSE) \subseteq CapacityCodes /\ c.memory # {}}
BeyondVcores(r, S) == \A c \in S : c.vcores < r.vcpu
BeyondMemory(r, S) == \A c \in S : \A m \in SelectedMemory(c, r) : m < r.memory

\* the order of the shapes that come close: the most of what is exceeded, then the nearest
Closer(c, d, r, S) ==
  LET m == CHOOSE m \in SelectedMemory(c, r) : TRUE
      n == CHOOSE n \in SelectedMemory(d, r) : TRUE
      ranks == << <<BeyondVcores(r, S), d.vcores, c.vcores>>,
                  <<BeyondMemory(r, S), n, m>>,
                  <<TRUE, Distance(c.vcores, r.vcpu), Distance(d.vcores, r.vcpu)>>,
                  <<TRUE, Distance(m, r.memory), Distance(n, r.memory)>>,
                  <<TRUE, c.key, d.key>> >>
  IN \/ c = d
     \/ \E i \in 1..5 :
          /\ ranks[i][1] /\ ranks[i][2] < ranks[i][3]
          /\ \A j \in 1..(i - 1) : ranks[j][1] => ranks[j][2] = ranks[j][3]

\* seeded fault: the closest shape also stands in for shapes that lack storage
AnyClosest(r, tier) ==
  LET S == Closable(r, tier) IN {c \in S : \A d \in S : Closer(c, d, r, S)}
ClosestShape(r, tier) ==
  LET S == Closable(r, tier)
      valid == {c \in S : HoldsStorage(c, r)}
  IN IF S = {} \/ (~BeyondVcores(r, S) /\ ~BeyondMemory(r, S)) THEN {}
     ELSE {c \in valid : \A d \in valid : Closer(c, d, r, S)}

Shortfalls(c, r) ==
  {code \in CapacityCodes :
     \/ code = "insufficient_vcores" /\ c.vcores < r.vcpu
     \/ code = "insufficient_memory" /\ \A m \in SelectedMemory(c, r) : m < r.memory}

\* why nothing of the tier was eligible, when no shape of it can say so
OutcomeReasons(r, tier) ==
  IF {c \in Catalog : c.region = r.region} = {} THEN {"region_unavailable"}
  ELSE IF Shapes(r, tier) = {} THEN {"tier_unavailable"} ELSE {}

Selected(c, r) ==
  LET m == CHOOSE m \in SelectedMemory(c, r) : TRUE
  IN [shape |-> c, memory |-> m, extraMemory |-> IF m > c.included THEN m - c.included ELSE 0]

\* the larger shape that storage made necessary, beside the one it replaced
StorageEscalation(r, tier) ==
  {x \in First(Eligible(r, tier, FALSE), r) \X First(Eligible(r, tier, TRUE), r) :
     x[1].key # x[2].key /\ ~HoldsStorage(x[1], r)}

RequestError(r) ==
  CASE r.vcpu = 0 -> "invalid_source_vcpu"
    [] r.memory <= 0 -> "invalid_source_memory"
    [] r.storage < 0 -> "invalid_required_storage"
    [] OTHER -> "none"

SelectTarget(r) ==
  LET tier == RequestedTier(r)
      eligible == First(Eligible(r, tier, TRUE), r)
      closest == IF Eligible(r, tier, TRUE) = {} THEN ClosestShape(r, tier) ELSE {}
      chosen == IF eligible # {} THEN eligible ELSE closest
  IN [tier |-> tier,
      selected |-> {Selected(c, r) : c \in chosen},
      candidates |-> {[key |-> c.key, why |-> Rejections(c, r, tier, TRUE)] : c \in Shapes(r, tier)},
      reasons |-> IF closest # {} THEN UNION {Shortfalls(c, r) : c \in closest}
                  ELSE IF eligible = {} THEN OutcomeReasons(r, tier) ELSE {},
      escalation |-> StorageEscalation(r, tier)]
=============================================================================
