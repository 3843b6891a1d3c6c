--------------------------- MODULE PortfolioProofs ---------------------------
(***************************************************************************)
(* That the totals of an estimate are those of its rows, for any projects, *)
(* catalogues and prices, and however many rows.                           *)
(***************************************************************************)
EXTENDS PricingProofs

-----------------------------------------------------------------------------
(* What the amounts of an estimate are. *)

LEMMA SumNat ==
  ASSUME NEW S, IsFiniteSet(S), NEW fun, \A x \in S : fun[x] \in Nat
  PROVE  SumOn(fun, S) \in Nat
<1> PICK g : IsSum(g, fun, S)
  BY SumExists
<1> DEFINE B == {s \in SUBSET S : g[s] \notin Nat}
<1>1. SUFFICES B = {}
  BY <1>1, SumIs
<1> SUFFICES ASSUME B # {} PROVE FALSE
  OBVIOUS
<1>2. PICK s \in B : \A x \in s : s \ {x} \in SUBSET S /\ s \ {x} \notin B
  <2>1. B \in SUBSET (SUBSET S)
    OBVIOUS
  <2> HIDE DEF B
  <2> QED
    BY <2>1, LeastSubset
<1>3. s # {}
  BY SumEmpty
<1>4. PICK x \in s : g[s] = fun[x] + g[s \ {x}]
  BY <1>3, SumStep
<1>5. g[s \ {x}] \in Nat
  BY <1>2
<1> QED
  BY <1>4, <1>5

\* a sum of numbers loses any of its terms, whichever the fold takes first
LEMMA SumTakes ==
  ASSUME NEW S, IsFiniteSet(S), NEW fun, \A x \in S : fun[x] \in Int, NEW x \in S
  PROVE  SumOn(fun, S) = fun[x] + SumOn(fun, S \ {x})
<1> PICK g : IsSum(g, fun, S)
  BY SumExists
<1>1. \A s \in SUBSET S : IsFiniteSet(s) /\ g[s] = SumOn(fun, s)
  BY SumIs, FS_Subset
<1>2. \A s \in SUBSET S : g[s] \in Int
  BY <1>1, SumType
<1> DEFINE Takes(s) == \A y \in s : g[s] = fun[y] + g[s \ {y}]
           B == {s \in SUBSET S : ~Takes(s)}
<1>3. B = {}
  <2> SUFFICES ASSUME B # {} PROVE FALSE
    OBVIOUS
  <2>1. PICK s \in B : \A y \in s : s \ {y} \in SUBSET S /\ s \ {y} \notin B
    <3>1. B \in SUBSET (SUBSET S)
      OBVIOUS
    <3> HIDE DEF B
    <3> QED
      BY <3>1, LeastSubset
  <2>2. \A y \in s : Takes(s \ {y})
    BY <2>1
  <2>3. PICK y \in s : g[s] # fun[y] + g[s \ {y}]
    OBVIOUS
  <2>4. PICK c \in s : g[s] = fun[c] + g[s \ {c}]
    BY <2>3, SumStep
  <2>5. c # y
    BY <2>3, <2>4
  <2>6. y \in s \ {c} /\ c \in s \ {y}
    BY <2>5
  <2>7. g[s \ {c}] = fun[y] + g[(s \ {c}) \ {y}] /\ g[s \ {y}] = fun[c] + g[(s \ {y}) \ {c}]
    BY <2>2, <2>6
  <2>8. (s \ {c}) \ {y} = (s \ {y}) \ {c}
    OBVIOUS
  <2> DEFINE rest == g[(s \ {y}) \ {c}]
  <2>9. rest \in Int /\ fun[c] \in Int /\ fun[y] \in Int
    BY <1>2
  <2>10. g[s] = fun[c] + (fun[y] + rest) /\ g[s \ {y}] = fun[c] + rest
    BY <2>4, <2>7, <2>8
  <2> HIDE DEF rest
  <2>11. fun[c] + (fun[y] + rest) = fun[y] + (fun[c] + rest)
    BY <2>9
  <2> QED
    BY <2>3, <2>10, <2>11
<1>4. Takes(S)
  BY <1>3
<1> QED
  BY <1>1, <1>4

LEMMA SumMonotone ==
  ASSUME NEW S, IsFiniteSet(S), NEW C \in SUBSET S, NEW fun, \A x \in S : fun[x] \in Nat
  PROVE  SumOn(fun, C) <= SumOn(fun, S)
<1>1. \A s \in SUBSET S : IsFiniteSet(s) /\ SumOn(fun, s) \in Nat
  BY SumNat, FS_Subset
<1> DEFINE B == {s \in SUBSET S : C \subseteq s /\ ~(SumOn(fun, C) <= SumOn(fun, s))}
<1>2. SUFFICES B = {}
  BY <1>2
<1> SUFFICES ASSUME B # {} PROVE FALSE
  OBVIOUS
<1>3. PICK s \in B : \A x \in s : s \ {x} \in SUBSET S /\ s \ {x} \notin B
  <2>1. B \in SUBSET (SUBSET S)
    OBVIOUS
  <2> HIDE DEF B
  <2> QED
    BY <2>1, LeastSubset
<1>4. s # C
  BY <1>1
<1>5. PICK x \in s : x \notin C
  BY <1>4
<1>6. SumOn(fun, C) <= SumOn(fun, s \ {x})
  BY <1>3, <1>5
<1>7. SumOn(fun, s) = fun[x] + SumOn(fun, s \ {x})
  BY <1>1, SumTakes
<1>8. fun[x] \in Nat /\ SumOn(fun, s \ {x}) \in Nat /\ SumOn(fun, C) \in Nat
  BY <1>1
<1> QED
  BY <1>6, <1>7, <1>8

LEMMA Spread ==
  ASSUME NEW a \in Int, NEW b \in Int, NEW c \in Int, NEW d \in Int, NEW p \in Int, NEW q \in Int
  PROVE  (a * p - b * q) + (c * p - d * q) = (a + c) * p - (b + d) * q
<1>1. (a + c) * p = a * p + c * p
  OBVIOUS
<1>2. (b + d) * q = b * q + d * q
  OBVIOUS
<1>3. a * p \in Int /\ b * q \in Int /\ c * p \in Int /\ d * q \in Int
  OBVIOUS
<1> QED
  BY <1>1, <1>2, <1>3

Linear(hun, fun, p, gun, q, S) ==
  \A x \in S : fun[x] \in Int /\ gun[x] \in Int /\ hun[x] = fun[x] * p - gun[x] * q

LEMMA SumLinear ==
  ASSUME NEW S, IsFiniteSet(S), NEW fun, NEW gun, NEW hun, NEW p \in Int, NEW q \in Int,
         Linear(hun, fun, p, gun, q, S)
  PROVE  SumOn(hun, S) = SumOn(fun, S) * p - SumOn(gun, S) * q
<1>10. \A x \in S : fun[x] \in Int /\ gun[x] \in Int /\ hun[x] = fun[x] * p - gun[x] * q
  BY DEF Linear
<1>0. \A x \in S : hun[x] \in Int
  BY <1>10
<1>1. \A s \in SUBSET S : IsFiniteSet(s) /\ SumOn(fun, s) \in Int /\ SumOn(gun, s) \in Int /\ SumOn(hun, s) \in Int
  BY <1>0, <1>10, SumType, FS_Subset
<1> DEFINE B == {s \in SUBSET S : SumOn(hun, s) # SumOn(fun, s) * p - SumOn(gun, s) * q}
<1>2. SUFFICES B = {}
  BY <1>2
<1> SUFFICES ASSUME B # {} PROVE FALSE
  OBVIOUS
<1>3. PICK s \in B : \A x \in s : s \ {x} \in SUBSET S /\ s \ {x} \notin B
  <2>1. B \in SUBSET (SUBSET S)
    OBVIOUS
  <2> HIDE DEF B
  <2> QED
    BY <2>1, LeastSubset
<1>4. s # {}
  <2>1. SumOn(hun, {}) = 0 /\ SumOn(fun, {}) = 0 /\ SumOn(gun, {}) = 0
    <3>1. ASSUME NEW f PROVE SumOn(f, {}) = 0
      <4>1. IsFiniteSet({})
        BY FS_EmptySet
      <4>2. PICK g : IsSum(g, f, {})
        BY <4>1, SumExists
      <4> QED
        BY <4>1, <4>2, SumIs, SumEmpty
    <3> QED
      BY <3>1
  <2>2. 0 = 0 * p - 0 * q
    OBVIOUS
  <2> QED
    BY <2>1, <2>2
<1>5. PICK x \in s : TRUE
  BY <1>4
<1> DEFINE f == SumOn(fun, s \ {x})
           g == SumOn(gun, s \ {x})
           h == SumOn(hun, s \ {x})
<1>6. f \in Int /\ g \in Int /\ fun[x] \in Int /\ gun[x] \in Int
  BY <1>1, <1>10
<1>7. h = f * p - g * q /\ hun[x] = fun[x] * p - gun[x] * q
  BY <1>3, <1>10
<1>8. SumOn(fun, s) = fun[x] + f /\ SumOn(gun, s) = gun[x] + g /\ SumOn(hun, s) = hun[x] + h
  BY <1>0, <1>1, <1>10, SumTakes
<1> HIDE DEF f, g, h
<1>9. hun[x] + h = (fun[x] + f) * p - (gun[x] + g) * q
  BY <1>6, <1>7, Spread
<1> QED
  BY <1>8, <1>9

LEMMA DiscountedNat ==
  ASSUME NEW gross \in Nat, NEW share \in Int, Within(share, 0, Whole)
  PROVE  Discounted(gross, share) \in Nat
<1>1. Whole - share \in Nat
  BY WholeAssumption DEF Within
<1> QED
  BY <1>1, NatTimes DEF Discounted

LEMMA SourceNat ==
  ASSUME NEW s, SettingsTyped(s), SettingsValid(s),
         NEW a \in Nat, NEW b \in Nat, NEW c \in Nat, NEW h, NEW e \in Nat
  PROVE  SourceTotal(SourceCosts(s, a, b, c, h, e)) \in Nat
<1>1. \A d \in {"sourceCompute", "sourceLicense", "sourceStorage"} :
        s.discount[d] \in Int /\ Within(s.discount[d], 0, Whole)
  BY DEF SettingsTyped, SettingsValid, Discounts
<1>2. /\ Discounted(a, s.discount.sourceCompute) \in Nat
      /\ Discounted(b, s.discount.sourceLicense) \in Nat
      /\ Discounted(c, s.discount.sourceStorage) \in Nat
  BY <1>1, DiscountedNat
<1>3. e * Whole \in Nat
  BY WholeAssumption, NatTimes
<1>4. LET x == SourceCosts(s, a, b, c, h, e)
      IN x.compute \in Nat /\ x.license \in Nat /\ x.storage \in Nat /\ x.electricity \in Nat
  BY <1>2, <1>3 DEF SourceCosts
<1> QED
  BY <1>4 DEF SourceTotal

LEMMA VolumeNat ==
  ASSUME NEW v, v.capacity \in Nat, v.iops \subseteq Nat, v.iops # {}, v.throughput \subseteq Nat,
         NEW rate \in AwsEbsRateRecord, ValidEbsRate(rate)
  PROVE  VolumeMonthly(v, rate) \in Nat
<1>1. rate.capacity \in Nat /\ rate.includedIops \in Nat /\ rate.includedThroughput \in Int
      /\ rate.perIops \subseteq Nat /\ rate.perThroughput \subseteq Nat
  <2>1. rate.capacity \in Int /\ rate.includedIops \in Nat /\ rate.includedThroughput \in Int
        /\ rate.perIops \subseteq Int /\ rate.perThroughput \subseteq Int
    BY DEF AwsEbsRateRecord
  <2>2. rate.capacity > 0 /\ Positive(rate.perThroughput) /\ (rate.perIops = {} \/ Positive(rate.perIops))
    BY DEF ValidEbsRate
  <2> QED
    BY <2>1, <2>2 DEF Positive
<1>2. PaidIops(v, rate) \in Nat
  <2>1. Value(v.iops) \in Nat
    BY DEF Value
  <2> QED
    BY <1>1, <2>1 DEF PaidIops, Most
<1>3. PaidThroughput(v, rate) \in Nat
  <2>1. v.throughput # {} => Value(v.throughput) \in Nat
    BY DEF Value
  <2> QED
    BY <1>1, <2>1 DEF PaidThroughput, Most
<1>4. v.capacity * rate.capacity \in Nat
  BY <1>1, NatTimes
<1>5. IopsMonthly(v, rate) \in Nat
  <2>1. rate.type = "io2" => TieredCost(PaidIops(v, rate), rate.tiers) \in Nat
    BY <1>2, TiersCharge
  <2>2. rate.perIops # {} => Value(rate.perIops) \in Nat
    BY <1>1 DEF Value
  <2>3. rate.perIops # {} => PaidIops(v, rate) * Value(rate.perIops) \in Nat
    BY <1>2, <2>2, NatTimes
  <2> QED
    BY <2>1, <2>3 DEF IopsMonthly
<1>6. (IF rate.perThroughput = {} THEN 0 ELSE PaidThroughput(v, rate) * Value(rate.perThroughput)) \in Nat
  <2>1. rate.perThroughput # {} => Value(rate.perThroughput) \in Nat
    BY <1>1 DEF Value
  <2>2. rate.perThroughput # {} => PaidThroughput(v, rate) * Value(rate.perThroughput) \in Nat
    BY <1>3, <2>1, NatTimes
  <2> QED
    BY <2>2
<1> QED
  BY <1>4, <1>5, <1>6 DEF VolumeMonthly

LEMMA EbsIsSound ==
  ASSUME NEW s, AwsSound(s), NEW type, NEW rate \in EbsRates(s.content.ebs, type)
  PROVE  rate \in AwsEbsRateRecord /\ ValidEbsRate(rate)
<1>1. PICK j \in DOMAIN s.content.ebs : rate = s.content.ebs[j]
  BY DEF EbsRates
<1>2. rate \in Records(s.content.ebs)
  BY <1>1 DEF Records, Range
<1> QED
  BY <1>2 DEF AwsSound

LEMMA StorageNat ==
  ASSUME NEW r, Typed(r), ResourceValid(r), r.type \in {"ec2", "ec2_vm"}, NEW s, AwsSound(s),
         StorageErrors(r, s.content.ebs) = {}
  PROVE  StorageMonthly(r, s.content.ebs) \in Nat
<1> DEFINE ebs == s.content.ebs
           of(i) == Value(EbsRates(ebs, r.volumes[i].type))
           monthly == [i \in Persistent(r) |-> VolumeMonthly(r.volumes[i], of(i))]
<1>1. IsFiniteSet(Persistent(r)) /\ Persistent(r) \in SUBSET (DOMAIN r.volumes)
  BY PersistentFinite
<1>2. ASSUME NEW i \in Persistent(r) PROVE monthly[i] \in Nat
  <2>1. EbsRates(ebs, r.volumes[i].type) # {}
    BY DEF StorageErrors
  <2>2. of(i) \in AwsEbsRateRecord /\ ValidEbsRate(of(i))
    BY <2>1, EbsIsSound DEF Value
  <2>3. r.volumes[i] \in Range(r.volumes) /\ i \in DOMAIN r.volumes
    BY <1>1 DEF Range
  <2>4. /\ r.volumes[i].capacity \in Nat /\ r.volumes[i].iops \subseteq Nat /\ r.volumes[i].iops # {}
        /\ r.volumes[i].throughput \subseteq Nat
    <3>1. r.volumes[i].capacity \in Int /\ r.volumes[i].throughput \subseteq Int
      BY <2>3 DEF Typed
    <3>2. r.volumes[i].capacity >= 0 /\ \A t \in r.volumes[i].throughput : t >= 0
      BY <2>3 DEF ResourceValid
    <3>3. r.volumes[i].iops \subseteq Nat /\ r.volumes[i].iops # {}
      BY <2>3 DEF ResourceValid, VolumesValid, Persistent
    <3> QED
      BY <3>1, <3>2, <3>3
  <2> HIDE DEF of
  <2> QED
    BY <2>2, <2>4, VolumeNat
<1>3. DOMAIN monthly = Persistent(r)
  OBVIOUS
<1>4. StorageMonthly(r, ebs) = FoldFunction(+, 0, monthly)
  BY DEF StorageMonthly
<1> HIDE DEF monthly
<1>5. SumOn(monthly, Persistent(r)) \in Nat
  BY <1>1, <1>2, SumNat
<1> QED
  BY <1>3, <1>4, <1>5, FoldSums

LEMMA LicenceNat ==
  ASSUME NEW q, q.edition \in Editions, NEW rate, LicenseRate(q, rate) # {},
         \A e \in Editions : rate.license[e] \subseteq Int /\ Positive(rate.license[e])
  PROVE  Value(LicenseRate(q, rate)) \in Nat
<1>1. LicenseRate(q, rate) \subseteq Nat
  BY DEF LicenseRate, Positive
<1> QED
  BY <1>1 DEF Value

LEMMA UsageNat ==
  ASSUME NEW r, Typed(r), ResourceValid(r)
  PROVE  r.quantity \in Nat /\ r.hours \in Nat /\ r.quantity * r.hours \in Nat /\ r.quantity * 12 \in Nat
<1>1. r.quantity \in Nat /\ r.hours \in Nat
  BY DEF Typed, ResourceValid
<1> QED
  BY <1>1, NatTimes

LEMMA PricedNat ==
  ASSUME NEW s, NEW rate, NEW iops, NEW errors, NEW costs,
         errors = {} => SourceTotal(costs) \in Nat
  PROVE  \A c \in Priced(s, rate, iops, errors, costs).costs : SourceTotal(c) \in Nat
<1>1. Priced(s, rate, iops, errors, costs).costs = IF errors = {} THEN {costs} ELSE {}
  BY DEF Priced
<1> QED
  BY <1>1

LEMMA Ec2Nat ==
  ASSUME NEW s, AwsSound(s), NEW r, Typed(r), ResourceValid(r), NEW rate \in Ec2Rates(s, r.instance),
         NEW t, SettingsTyped(t), SettingsValid(t)
  PROVE  /\ r.type = "ec2" /\ Ec2Errors(r, rate, s.content.ebs) = {} =>
              SourceTotal(Ec2Source(r, rate, s.content.ebs, t)) \in Nat
         /\ r.type = "ec2_vm" /\ Ec2VmErrors(r, rate, s.content.ebs) = {} =>
              SourceTotal(Ec2VmSource(r, rate, s.content.ebs, t)) \in Nat
<1>1. rate \in AwsEc2RateRecord /\ ValidEc2Rate(rate)
  BY FoundIsRecord DEF AwsSound
<1>2. rate.compute \in Nat /\ \A e \in Editions : rate.license[e] \subseteq Int /\ Positive(rate.license[e])
  <2>1. rate.compute \in Int /\ rate.compute > 0 /\ DOMAIN rate.license = Editions
        /\ \A e \in Editions : rate.license[e] \subseteq Int /\ Positive(rate.license[e])
    BY <1>1 DEF AwsEc2RateRecord, ValidEc2Rate
  <2> QED
    BY <2>1
<1>3. r.quantity * r.hours \in Nat /\ r.quantity * 12 \in Nat
  BY UsageNat
<1>4. r.quantity * r.hours * rate.compute \in Nat
  BY <1>2, <1>3, NatTimes
<1>5. ASSUME r.type \in {"ec2", "ec2_vm"}, StorageErrors(r, s.content.ebs) = {}
      PROVE  r.quantity * 12 * StorageMonthly(r, s.content.ebs) \in Nat
  BY <1>3, <1>5, StorageNat, NatTimes
<1>6. ASSUME r.type = "ec2", Ec2Errors(r, rate, s.content.ebs) = {}
      PROVE  SourceTotal(Ec2Source(r, rate, s.content.ebs, t)) \in Nat
  <2>1. StorageErrors(r, s.content.ebs) = {} /\ LicenseRate(Value(r.sql), rate) # {}
    BY <1>6 DEF Ec2Errors, When
  <2>2. Value(r.sql).edition \in Editions
    BY <1>6 DEF Typed, Value
  <2>3. Value(LicenseRate(Value(r.sql), rate)) \in Nat
    BY <1>2, <2>1, <2>2, LicenceNat
  <2>4. r.quantity * r.hours * Value(LicenseRate(Value(r.sql), rate)) \in Nat
    BY <1>3, <2>3, NatTimes
  <2> QED
    BY <1>4, <1>5, <1>6, <2>1, <2>4, SourceNat DEF Ec2Source
<1>7. ASSUME r.type = "ec2_vm", Ec2VmErrors(r, rate, s.content.ebs) = {}
      PROVE  SourceTotal(Ec2VmSource(r, rate, s.content.ebs, t)) \in Nat
  <2>1. StorageErrors(r, s.content.ebs) = {}
    BY <1>7 DEF Ec2VmErrors
  <2> QED
    BY <1>4, <1>5, <1>7, <2>1, SourceNat DEF Ec2VmSource
<1> QED
  BY <1>6, <1>7

LEMMA RdsNat ==
  ASSUME NEW s, AwsSound(s), NEW r, Typed(r), ResourceValid(r), r.type = "rds",
         NEW rate \in RdsRates(s, r), NEW t, SettingsTyped(t), SettingsValid(t)
  PROVE  SourceTotal(RdsSource(r, rate, t)) \in Nat
<1>1. rate \in AwsRdsRateRecord /\ ValidRdsRate(rate)
  BY FoundIsRecord DEF AwsSound
<1>2. /\ rate.compute \in Nat /\ rate.storage \in Nat /\ rate.vcpu \in Nat
      /\ \A e \in Editions : rate.license[e] # {} /\ rate.license[e] \subseteq Int /\ Positive(rate.license[e])
  <2>1. /\ rate.compute \in Int /\ rate.compute > 0 /\ rate.storage \in Int /\ rate.storage > 0
        /\ rate.vcpu \in Nat /\ DOMAIN rate.license = Editions
        /\ \A e \in Editions : rate.license[e] # {} /\ rate.license[e] \subseteq Int /\ Positive(rate.license[e])
    BY <1>1 DEF AwsRdsRateRecord, ValidRdsRate
  <2> QED
    BY <2>1
<1>3. r.quantity \in Nat /\ r.quantity * r.hours \in Nat
  BY UsageNat
<1>4. Value(r.sql).edition \in Editions /\ Value(r.sql).data \in Nat
  <2>1. \A q \in r.sql : q.edition \in Editions /\ q.data \in Nat
    BY DEF Typed, ResourceValid
  <2> QED
    BY <2>1 DEF Typed, Value
<1>5. Value(LicenseRate(Value(r.sql), rate)) \in Nat
  <2>1. LicenseRate(Value(r.sql), rate) # {}
    BY <1>2, <1>4 DEF LicenseRate
  <2> QED
    BY <1>2, <1>4, <2>1, LicenceNat
<1>6. r.quantity * r.hours * rate.compute \in Nat
  BY <1>2, <1>3, NatTimes
<1>7. r.quantity * r.hours * rate.vcpu * Value(LicenseRate(Value(r.sql), rate)) \in Nat
  BY <1>2, <1>3, <1>5, NatTimes
<1>8. r.quantity * Value(r.sql).data * 12 * rate.storage \in Nat
  BY <1>2, <1>3, <1>4, NatTimes
<1> QED
  BY <1>6, <1>7, <1>8, SourceNat DEF RdsSource

LEMMA NatDiv == ASSUME NEW a \in Nat, NEW b \in Nat \ {0} PROVE a \div b \in Nat
OBVIOUS

LEMMA OnPremNat ==
  ASSUME NEW r, Typed(r), ResourceValid(r), r.type = "on_prem",
         NEW t, SettingsTyped(t), SettingsValid(t), t.type = "on_prem"
  PROVE  SourceTotal(OnPremSource(r, t)) \in Nat
<1>1. r.quantity \in Nat /\ r.quantity * r.hours \in Nat
  BY UsageNat
<1>2. r.vcpu \in Nat /\ r.ram \in Nat /\ r.cores \in Nat /\ r.capex \in Nat /\ r.years \in Nat \ {0}
      /\ r.power \subseteq Nat
  <2>1. r.vcpu \in Nat /\ r.ram \in Int /\ r.cores \in Nat /\ r.capex \in Int /\ r.years \in Int
        /\ r.power \subseteq Int
    BY DEF Typed
  <2>2. r.ram > 0 /\ r.capex >= 0 /\ r.years >= 1 /\ \A kw \in r.power : kw > 0
    BY DEF ResourceValid
  <2> QED
    BY <2>1, <2>2
<1>3. Value(r.sql).edition \in Editions /\ Value(r.sql).data \in Nat
  <2>1. \A q \in r.sql : q.edition \in Editions /\ q.data \in Nat
    BY DEF Typed, ResourceValid
  <2> QED
    BY <2>1 DEF Typed, Value
<1>4. /\ Value(t.pack[Value(r.sql).edition]) \in Nat
      /\ Value(t.coverageMonths) \in Nat \ {0} /\ Value(t.electricityRate) \in Nat
  <2>1. t.coverageMonths # {} /\ t.coverageMonths \subseteq Nat \ {0}
    BY DEF SettingsValid
  <2>2. t.electricityRate # {} /\ t.electricityRate \subseteq Nat
    BY DEF SettingsValid, SettingsTyped
  <2>3. \A e \in Editions : t.pack[e] # {} /\ t.pack[e] \subseteq Nat
    BY DEF SettingsValid, SettingsTyped, Editions
  <2>4. Value(t.coverageMonths) \in Nat \ {0}
    BY <2>1 DEF Value
  <2>5. Value(t.electricityRate) \in Nat
    BY <2>2 DEF Value
  <2>6. Value(t.pack[Value(r.sql).edition]) \in Nat
    BY <1>3, <2>3 DEF Value
  <2> QED
    BY <2>4, <2>5, <2>6
<1> DEFINE hardware == (r.quantity * r.capex) \div r.years
           license == (r.quantity * Packs(r) * Value(t.pack[Value(r.sql).edition]) * 12) \div Value(t.coverageMonths)
           power == r.quantity * r.hours * Power(r) * Value(t.electricityRate)
<1>5. hardware \in Nat
  <2>1. r.quantity * r.capex \in Nat
    BY <1>1, <1>2, NatTimes
  <2> QED
    BY <1>2, <2>1, NatDiv
<1>6. license \in Nat
  <2>1. Packs(r) \in Nat
    <3>1. Most(r.cores, 4) \in Nat
      BY <1>2 DEF Most
    <3>2. Most(r.cores, 4) + 2 - 1 \in Nat
      BY <3>1
    <3> QED
      BY <3>2 DEF Packs, CeilDiv
  <2>2. r.quantity * Packs(r) \in Nat
    BY <1>1, <2>1, NatTimes
  <2>3. r.quantity * Packs(r) * Value(t.pack[Value(r.sql).edition]) \in Nat
    BY <1>4, <2>2, NatTimes
  <2>4. r.quantity * Packs(r) * Value(t.pack[Value(r.sql).edition]) * 12 \in Nat
    BY <2>3
  <2> QED
    BY <1>4, <2>4, NatDiv
<1>7. power \in Nat
  <2>1. Power(r) \in Nat
    <3>1. (80 * Value(r.sql).data) \div 1024 \in Nat
      BY <1>3
    <3>2. EstimatedPower(r) \in Nat
      BY <1>2, <3>1 DEF EstimatedPower
    <3> QED
      BY <1>2, <3>2 DEF Power, Value
  <2>2. r.quantity * r.hours * Power(r) \in Nat
    BY <1>1, <2>1, NatTimes
  <2> QED
    BY <1>4, <2>2, NatTimes
<1> DEFINE costs == SourceCosts(t, hardware, license, 0, hardware, power)
<1>8. OnPremSource(r, t) = [costs EXCEPT !.compute = hardware * Whole]
  BY DEF OnPremSource
<1> HIDE DEF hardware, license, power
<1>9. costs.license \in Nat /\ costs.storage \in Nat /\ costs.electricity \in Nat
  <2>1. \A d \in {"sourceLicense", "sourceStorage"} :
          t.discount[d] \in Int /\ Within(t.discount[d], 0, Whole)
    BY DEF SettingsTyped, SettingsValid, Discounts
  <2>2. Discounted(license, t.discount.sourceLicense) \in Nat /\ Discounted(0, t.discount.sourceStorage) \in Nat
    BY <1>6, <2>1, DiscountedNat
  <2>3. power * Whole \in Nat
    BY <1>7, WholeAssumption, NatTimes
  <2> QED
    BY <2>2, <2>3 DEF SourceCosts
<1>10. hardware * Whole \in Nat
  BY <1>5, WholeAssumption, NatTimes
<1>11. "compute" \in DOMAIN costs
  BY DEF SourceCosts
<1> HIDE DEF costs
<1>12. /\ OnPremSource(r, t).compute = hardware * Whole /\ OnPremSource(r, t).license = costs.license
       /\ OnPremSource(r, t).storage = costs.storage /\ OnPremSource(r, t).electricity = costs.electricity
  BY <1>8, <1>11
<1> QED
  BY <1>9, <1>10, <1>12 DEF SourceTotal

LEMMA SourcesNat ==
  ASSUME NEW r, Typed(r), ResourceValid(r), NEW e, \A s \in e.aws : AwsSound(s),
         SettingsTyped(e.settings), SettingsValid(e.settings), r.type = e.settings.type
  PROVE  \A c \in ResolveSource(r, e).costs : SourceTotal(c) \in Nat
<1> DEFINE s == Value(e.aws)
<1>1. e.aws # {} => AwsSound(s)
  BY DEF Value
<1>2. \A code : Unpriced(code).costs = {}
  BY DEF Unpriced
<1> HIDE DEF s
<1>3. CASE r.type = "ec2"
  <2> DEFINE rates == Ec2Rates(s, r.instance)
             rate == Value(rates)
             errors == MaxIopsErrors(r) \cup Ec2Errors(r, rate, s.content.ebs)
             costs == IF errors = {} THEN Ec2Source(r, rate, s.content.ebs, e.settings) ELSE {}
             iops == IF MaxIopsErrors(r) = {} THEN {MaxIops(r)} ELSE {}
  <2>1. \/ \E code : ResolveEc2(r, e) = Unpriced(code)
        \/ e.aws # {} /\ rates # {} /\ ResolveEc2(r, e) = Priced(s, rate, iops, errors, costs)
    BY DEF ResolveEc2, s
  <2>2. ASSUME e.aws # {}, rates # {}, errors = {} PROVE SourceTotal(costs) \in Nat
    <3>1. rate \in rates
      BY <2>2 DEF Value
    <3>2. Ec2Errors(r, rate, s.content.ebs) = {}
      BY <2>2
    <3> HIDE DEF rate
    <3>3. SourceTotal(Ec2Source(r, rate, s.content.ebs, e.settings)) \in Nat
      BY <1>1, <1>3, <2>2, <3>1, <3>2, Ec2Nat
    <3> QED
      BY <2>2, <3>3
  <2> HIDE DEF rate, errors, costs, iops
  <2>3. \A c \in ResolveEc2(r, e).costs : SourceTotal(c) \in Nat
    BY <1>2, <2>1, <2>2, PricedNat
  <2> QED
    BY <1>3, <2>3 DEF ResolveSource
<1>4. CASE r.type = "rds"
  <2> DEFINE rates == RdsRates(s, r)
             rate == Value(rates)
             errors == RdsErrors(r, rate)
             costs == IF errors = {} THEN RdsSource(r, rate, e.settings) ELSE {}
  <2>1. \/ \E code : ResolveRds(r, e) = Unpriced(code)
        \/ e.aws # {} /\ rates # {} /\ ResolveRds(r, e) = Priced(s, rate, {r.iops}, errors, costs)
    BY DEF ResolveRds, s
  <2>2. ASSUME e.aws # {}, rates # {}, errors = {} PROVE SourceTotal(costs) \in Nat
    <3>1. rate \in rates
      BY <2>2 DEF Value
    <3> HIDE DEF rate
    <3>2. SourceTotal(RdsSource(r, rate, e.settings)) \in Nat
      BY <1>1, <1>4, <2>2, <3>1, RdsNat
    <3> QED
      BY <2>2, <3>2
  <2> HIDE DEF rate, errors, costs
  <2>3. \A c \in ResolveRds(r, e).costs : SourceTotal(c) \in Nat
    BY <1>2, <2>1, <2>2, PricedNat
  <2> QED
    BY <1>4, <2>3 DEF ResolveSource
<1>5. CASE r.type = "ec2_vm"
  <2> DEFINE rates == Ec2Rates(s, r.instance)
             rate == Value(rates)
             errors == Ec2VmErrors(r, rate, s.content.ebs)
             costs == IF errors = {} THEN Ec2VmSource(r, rate, s.content.ebs, e.settings) ELSE {}
  <2>1. \/ \E code : ResolveEc2Vm(r, e) = Unpriced(code)
        \/ e.aws # {} /\ rates # {} /\ ResolveEc2Vm(r, e) = Priced(s, rate, {SumOfIops(r)}, errors, costs)
    BY DEF ResolveEc2Vm, s
  <2>2. ASSUME e.aws # {}, rates # {}, errors = {} PROVE SourceTotal(costs) \in Nat
    <3>1. rate \in rates
      BY <2>2 DEF Value
    <3>2. Ec2VmErrors(r, rate, s.content.ebs) = {}
      BY <2>2
    <3> HIDE DEF rate
    <3>3. SourceTotal(Ec2VmSource(r, rate, s.content.ebs, e.settings)) \in Nat
      BY <1>1, <1>5, <2>2, <3>1, <3>2, Ec2Nat
    <3> QED
      BY <2>2, <3>3
  <2> HIDE DEF rate, errors, costs
  <2>3. \A c \in ResolveEc2Vm(r, e).costs : SourceTotal(c) \in Nat
    BY <1>2, <2>1, <2>2, PricedNat
  <2> QED
    BY <1>5, <2>3 DEF ResolveSource
<1>6. CASE r.type = "on_prem"
  <2>1. ResolveOnPrem(r, e).costs = {OnPremSource(r, e.settings)}
    BY DEF ResolveOnPrem
  <2>2. SourceTotal(OnPremSource(r, e.settings)) \in Nat
    BY <1>6, OnPremNat
  <2> QED
    BY <1>6, <2>1, <2>2 DEF ResolveSource
<1> QED
  BY <1>3, <1>4, <1>5, <1>6 DEF Typed, AwsTypes

LEMMA GreatestExists ==
  ASSUME NEW S \in SUBSET Int, IsFiniteSet(S), S # {}
  PROVE  Greatest(S) # {}
<1> DEFINE Has(s) == \E m \in s : \A n \in s : n <= m
           B == {s \in SUBSET S : s # {} /\ ~Has(s)}
<1>1. B = {}
  <2> SUFFICES ASSUME B # {} PROVE FALSE
    OBVIOUS
  <2>1. PICK s \in B : \A y \in s : s \ {y} \in SUBSET S /\ s \ {y} \notin B
    <3>1. B \in SUBSET (SUBSET S)
      OBVIOUS
    <3> HIDE DEF B
    <3> QED
      BY <3>1, LeastSubset
  <2>2. PICK x \in s : TRUE
    OBVIOUS
  <2>3. s \subseteq Int
    OBVIOUS
  <2>4. CASE s \ {x} = {}
    <3>1. \A n \in s : n = x
      BY <2>4
    <3> QED
      BY <2>3, <3>1
  <2>5. CASE s \ {x} # {}
    <3>1. PICK m \in s \ {x} : \A n \in s \ {x} : n <= m
      BY <2>1, <2>5
    <3>2. CASE m <= x
      <4>1. \A n \in s : n <= x
        BY <2>3, <3>1, <3>2
      <4> QED
        BY <4>1
    <3>3. CASE ~(m <= x)
      <4>1. \A n \in s : n <= m
        BY <2>3, <3>1, <3>3
      <4> QED
        BY <4>1
    <3> QED
      BY <3>2, <3>3
  <2> QED
    BY <2>4, <2>5
<1>2. Has(S)
  BY <1>1
<1> QED
  BY <1>2 DEF Greatest

LEMMA ExtraMemoryType ==
  ASSUME NEW r, NEW x \in SelectTarget(r).selected
  PROVE  x.extraMemory \in Int
<1>1. PICK c : x = Selected(c, r) /\ \E tier, storage : c \in Eligible(r, tier, storage) \/ c \in ClosestShape(r, tier)
  BY DEF SelectTarget, First
<1>2. c \in Catalog /\ c.memory # {}
  <2>1. ASSUME NEW tier, NEW storage, c \in Eligible(r, tier, storage) PROVE c \in Catalog /\ c.memory # {}
    <3>1. c \in Catalog /\ Rejections(c, r, tier, storage) = {}
      BY <2>1 DEF Eligible, Shapes
    <3>2. HoldsMemory(c, r) # {}
      BY <3>1 DEF Rejections, CapacityCodes
    <3> QED
      BY <3>1, <3>2 DEF HoldsMemory
  <2>2. ASSUME NEW tier, c \in ClosestShape(r, tier) PROVE c \in Catalog /\ c.memory # {}
    BY <2>2 DEF ClosestShape, Closable, Shapes
  <2> QED
    BY <1>1, <2>1, <2>2
<1>3. c.memory \in SUBSET Nat /\ IsFiniteSet(c.memory) /\ c.included \in Int
  BY <1>2, SelectionAssumption
<1>4. SelectedMemory(c, r) # {} /\ SelectedMemory(c, r) \subseteq Nat
  <2>1. CASE HoldsMemory(c, r) # {}
    <3>1. HoldsMemory(c, r) \in SUBSET Nat
      BY <1>3 DEF HoldsMemory
    <3>2. \E m \in HoldsMemory(c, r) : \A n \in HoldsMemory(c, r) : m <= n
      BY <2>1, <3>1, LeastNumber
    <3> QED
      BY <2>1, <3>1, <3>2 DEF SelectedMemory, Least
  <2>2. CASE HoldsMemory(c, r) = {}
    <3>1. c.memory \in SUBSET Int
      BY <1>3
    <3>2. Greatest(c.memory) # {}
      BY <1>2, <1>3, <3>1, GreatestExists
    <3> QED
      BY <1>3, <2>2, <3>2 DEF SelectedMemory, Greatest
  <2> QED
    BY <2>1, <2>2
<1> DEFINE m == CHOOSE m \in SelectedMemory(c, r) : TRUE
<1>5. m \in Nat
  BY <1>4
<1>6. x.extraMemory = IF m > c.included THEN m - c.included ELSE 0
  BY <1>1 DEF Selected
<1> HIDE DEF m
<1> QED
  BY <1>3, <1>5, <1>6

LEMMA DiscountedInt ==
  ASSUME NEW gross \in Int, NEW share \in Int PROVE Discounted(gross, share) \in Int
BY WholeAssumption DEF Discounted

LEMMA AzureDiscounts ==
  ASSUME NEW s, SettingsTyped(s)
  PROVE  /\ s.discount.azureCompute \in Int /\ s.discount.azureLicense \in Int
         /\ s.discount.azureStorage \in Int /\ s.discount.parity \in Int
BY DEF SettingsTyped, Discounts

LEMMA MiInt ==
  ASSUME NEW r, Typed(r), r.type # "ec2_vm", NEW e, \A s \in e.azure : AzureSound(s),
         SettingsTyped(e.settings), NEW selected, selected.extraMemory \in Int, NEW storage \in Int
  PROVE  \A c \in AzureCosts(selected, r, storage, e).costs : AzureTotal(c) \in Int
<1> DEFINE s == Value(e.azure)
           key == selected.shape.key
           rate == Value(MiRates(s, key, Value(r.sql).option))
           costs == MiCosts(r, storage, selected.extraMemory, rate, e.settings)
<1>1. \/ AzureCosts(selected, r, storage, e).costs = {}
      \/ /\ e.azure # {} /\ HasCompleteMiRateSet(s, key)
         /\ AzureCosts(selected, r, storage, e).costs = {costs}
  BY DEF AzureCosts, NoCosts, Costed
<1> SUFFICES ASSUME e.azure # {}, HasCompleteMiRateSet(s, key) PROVE AzureTotal(costs) \in Int
  BY <1>1
<1>2. AzureSound(s)
  BY DEF Value
<1>3. Value(r.sql).option \in MiOptions
  BY DEF Typed, Value, PurchaseOptions, MiOptions
<1>4. rate \in MiRates(s, key, Value(r.sql).option)
  BY <1>3, CompleteHasRates DEF Value
<1> HIDE DEF s
<1>5. rate \in AzureMiRateRecord
  BY <1>2, <1>4, FoundIsRecord DEF AzureSound
<1> HIDE DEF rate, key
<1>6. rate.compute \in Int /\ rate.license \in Int /\ rate.storage \in Int /\ rate.memory \in Int
  BY <1>5 DEF AzureMiRateRecord
<1>7. r.quantity \in Int /\ r.hours \in Int
  BY DEF Typed
<1>8. BillableStorage(storage) \in Int
  BY DEF BillableStorage, Most, UnitGb
<1> DEFINE a == r.quantity * r.hours * (rate.compute + selected.extraMemory * rate.memory)
           b == r.quantity * r.hours * rate.license
           c == r.quantity * BillableStorage(storage) * 12 * rate.storage
<1>9. a \in Int /\ b \in Int /\ c \in Int
  BY <1>6, <1>7, <1>8
<1>10. /\ costs.compute = Discounted(a, e.settings.discount.azureCompute)
       /\ costs.license = Discounted(b, e.settings.discount.azureLicense)
       /\ costs.storage = Discounted(c, e.settings.discount.azureStorage)
  BY DEF MiCosts
<1> HIDE DEF a, b, c, costs
<1>11. costs.compute \in Int /\ costs.license \in Int /\ costs.storage \in Int
  BY <1>9, <1>10, AzureDiscounts, DiscountedInt
<1> QED
  BY <1>11 DEF AzureTotal

DisksTyped(x) ==
  /\ IsFiniteSet(DOMAIN x.disks)
  /\ \A i \in DOMAIN x.disks :
       x.disks[i].capacity \in Int /\ x.disks[i].extraIops \in Int /\ x.disks[i].extraThroughput \in Int

LEMMA DisksInt ==
  ASSUME NEW s, AzureSound(s), NEW x, DisksTyped(x), AllDiskErrors(x, s) = {}
  PROVE  DisksMonthly(x, s) \in Int
<1> DEFINE monthly == [i \in DOMAIN x.disks |->
                         DiskMonthly(x.disks[i], DiskRates(s, x.disks[i].offer, x.disks[i].tier))]
<1>1. ASSUME NEW i \in DOMAIN x.disks PROVE monthly[i] \in Int
  <2> DEFINE d == x.disks[i]
             rates == DiskRates(s, d.offer, d.tier)
  <2>1. d \in Records(x.disks)
    BY DEF Records, Range
  <2>2. DiskErrors(d, rates) = {}
    BY <2>1 DEF AllDiskErrors
  <2>3. \A dim \in DOMAIN rates : rates[dim] \in Int
    BY DiskRatesSound
  <2>4. d.capacity \in Int /\ d.extraIops \in Int /\ d.extraThroughput \in Int
    BY DEF DisksTyped
  <2>5. monthly[i] = DiskMonthly(d, rates)
    OBVIOUS
  <2> HIDE DEF d, rates, monthly
  <2>6. CASE d.tier # {}
    <3>1. "capacity_tier" \in DOMAIN rates
      BY <2>2, <2>6 DEF DiskErrors, When
    <3> QED
      BY <2>3, <2>5, <2>6, <3>1 DEF DiskMonthly
  <2>7. CASE d.tier = {}
    <3>1. {"capacity_gb", "additional_iops", "additional_throughput"} \subseteq DOMAIN rates
      BY <2>2, <2>7 DEF DiskErrors, When
    <3>2. /\ rates["capacity_gb"] \in Int /\ rates["additional_iops"] \in Int
          /\ rates["additional_throughput"] \in Int
      BY <2>3, <3>1
    <3>3. DiskMonthly(d, rates) \in Int
      BY <2>4, <2>7, <3>2 DEF DiskMonthly
    <3> QED
      BY <2>5, <3>3
  <2> QED
    BY <2>6, <2>7
<1>2. DOMAIN monthly = DOMAIN x.disks
  OBVIOUS
<1>3. DisksMonthly(x, s) = FoldFunction(+, 0, monthly)
  BY DEF DisksMonthly, Total
<1> HIDE DEF monthly
<1>4. SumOn(monthly, DOMAIN x.disks) \in Int
  BY <1>1, SumType DEF DisksTyped
<1> QED
  BY <1>2, <1>3, <1>4, FoldSums

LEMMA DiskTyped ==
  ASSUME NEW region, NEW v, v.capacity \in Int, v.iops \in Int, v.throughput \in Int,
         NEW d \in SelectDisk(region, v)
  PROVE  d.capacity \in Int /\ d.extraIops \in Int /\ d.extraThroughput \in Int
<1>1. PICK o \in Offers : d \in (IF o.independent THEN IndependentDisk(o, v) ELSE TieredDisk(o, v))
  BY DEF SelectDisk
<1>2. /\ o.increment \in SUBSET Int /\ o.min \in SUBSET Int /\ o.includedIops \in SUBSET Int
      /\ o.includedThroughput \in SUBSET Int
      /\ \A t \in o.tiers : t.capacity \in Int /\ t.iops \in Int /\ t.throughput \in Int
  BY VmCatalogAssumption
<1>3. CASE d \in IndependentDisk(o, v)
  <2> DEFINE least == Larger(v.capacity, Or0(o.min))
             iops == Larger(v.iops, Or0(o.includedIops))
             throughput == Larger(v.throughput, Or0(o.includedThroughput))
  <2>1. Or0(o.min) \in Int /\ Or0(o.includedIops) \in Int /\ Or0(o.includedThroughput) \in Int
    BY <1>2, Or0Type
  <2>2. least \in Int /\ iops \in Int /\ throughput \in Int
    BY <2>1 DEF Larger
  <2>3. PICK step \in o.increment : /\ step > 0 /\ d.capacity = RoundUp(least, step)
                                    /\ d.extraIops = iops - Or0(o.includedIops)
                                    /\ d.extraThroughput = throughput - Or0(o.includedThroughput)
    BY <1>3 DEF IndependentDisk
  <2> HIDE DEF least, iops, throughput
  <2>4. RoundUp(least, step) \in Int
    BY <1>2, <2>2, <2>3, RoundUpHolds
  <2> QED
    BY <2>1, <2>2, <2>3, <2>4
<1>4. CASE d \in TieredDisk(o, v)
  <2>1. PICK t \in o.tiers : d.capacity = t.capacity /\ d.extraIops = 0 /\ d.extraThroughput = 0
    BY <1>4 DEF TieredDisk
  <2> QED
    BY <1>2, <2>1
<1> QED
  BY <1>1, <1>3, <1>4

LEMMA SelectedDisksTyped ==
  ASSUME NEW request, request.vcpu \in Int, request.memory \in Int, IsFiniteSet(DOMAIN request.volumes),
         \A i \in DOMAIN request.volumes : /\ request.volumes[i].capacity \in Int
                                           /\ request.volumes[i].iops \in Int
                                           /\ request.volumes[i].throughput \in Int,
         NEW x \in SelectVmTarget(request).selected
  PROVE  DisksTyped(x)
<1> DEFINE found == DisksFor(request)
<1>1. PICK s \in OfLineage(request) : RejectionsOf(s, request, found) = {} /\ x = [size |-> s, disks |-> Disks(found)]
  BY DEF SelectVmTarget
<1>2. s \in Sizes
  BY DEF OfLineage, InRegion
<1>3. AllFound(found)
  BY <1>1, <1>2, EligibleCarries
<1>4. DOMAIN found = DOMAIN request.volumes
      /\ \A i \in DOMAIN found : found[i] = SelectDisk(request.region, request.volumes[i])
  BY DEF DisksFor
<1> HIDE DEF found
<1>5. x.disks = Disks(found) /\ DOMAIN Disks(found) = DOMAIN found
      /\ \A i \in DOMAIN found : Disks(found)[i] = (CHOOSE d \in found[i] : TRUE)
  BY <1>1 DEF Disks
<1>6. \A i \in DOMAIN found : Disks(found)[i] \in SelectDisk(request.region, request.volumes[i])
  BY <1>3, <1>4, <1>5 DEF AllFound
<1>7. \A i \in DOMAIN x.disks : x.disks[i].capacity \in Int /\ x.disks[i].extraIops \in Int
                                /\ x.disks[i].extraThroughput \in Int
  BY <1>4, <1>5, <1>6, DiskTyped
<1> QED
  BY <1>4, <1>5, <1>7 DEF DisksTyped

LEMMA VmInt ==
  ASSUME NEW r, Typed(r), NEW e, \A s \in e.azure : AzureSound(s),
         SettingsTyped(e.settings), NEW selected, DisksTyped(selected)
  PROVE  \A c \in AzureVmCosts(selected, r, e).costs : AzureTotal(c) \in Int
<1> DEFINE s == Value(e.azure)
           rates == VmRates(s, selected.size.name, r.option)
           rate == Value(rates)
           monthly == DisksMonthly(selected, s)
           costs == VmCosts(r, rate, monthly, e.settings)
<1>1. \/ AzureVmCosts(selected, r, e).costs = {}
      \/ /\ e.azure # {} /\ rates # {} /\ AllDiskErrors(selected, s) = {}
         /\ AzureVmCosts(selected, r, e).costs = {costs}
  BY DEF AzureVmCosts, NoCosts, Costed
<1> SUFFICES ASSUME e.azure # {}, rates # {}, AllDiskErrors(selected, s) = {} PROVE AzureTotal(costs) \in Int
  BY <1>1
<1>2. AzureSound(s)
  BY DEF Value
<1>3. rate \in rates
  BY DEF Value
<1>4. monthly \in Int
  <2> HIDE DEF s
  <2> QED
    BY <1>2, DisksInt
<1> HIDE DEF s, rate, monthly
<1>5. rate \in AzureVmRateRecord
  BY <1>2, <1>3, FoundIsRecord DEF AzureSound
<1>6. rate.hourly \in Int /\ rate.license \in Int
  BY <1>5 DEF AzureVmRateRecord
<1>7. r.quantity \in Int /\ r.hours \in Int
  BY DEF Typed
<1> DEFINE a == r.quantity * r.hours * (rate.hourly - rate.license)
           b == r.quantity * r.hours * rate.license
           c == r.quantity * 12 * monthly
<1>8. a \in Int /\ b \in Int /\ c \in Int
  BY <1>4, <1>6, <1>7
<1>9. /\ costs.compute = Discounted(a, e.settings.discount.azureCompute)
      /\ costs.license = Discounted(b, e.settings.discount.azureLicense)
      /\ costs.storage = Discounted(c, e.settings.discount.azureStorage)
  BY DEF VmCosts
<1> HIDE DEF a, b, c, costs
<1>10. costs.compute \in Int /\ costs.license \in Int /\ costs.storage \in Int
  BY <1>8, <1>9, AzureDiscounts, DiscountedInt
<1> QED
  BY <1>10 DEF AzureTotal

-----------------------------------------------------------------------------
(* The amounts of a row. *)

\* what a row says of its amounts
RowSums(x, parity) ==
  /\ \A c \in x.source : SourceTotal(c) \in Nat
  /\ \A c \in x.azureCosts : AzureTotal(c) \in Int
  /\ x.savings = IF x.source = {} \/ x.azureCosts = {} THEN {}
                 ELSE {Savings(Value(x.source), Value(x.azureCosts), parity)}

LEMMA UnmappedSums ==
  ASSUME NEW x, \A c \in x.source : SourceTotal(c) \in Nat, x.azureCosts = {}, x.savings = {}, NEW parity
  PROVE  RowSums(x, parity)
BY DEF RowSums

LEMMA MappedSums ==
  ASSUME NEW source, \A c \in source.costs : SourceTotal(c) \in Nat,
         NEW costed, \A c \in costed.costs : AzureTotal(c) \in Int,
         NEW e, NEW x, x.source = source.costs, x.azureCosts = costed.costs, x.savings = SavingsOf(source, costed, e)
  PROVE  RowSums(x, e.settings.discount.parity)
BY DEF RowSums, SavingsOf

LEMMA MiRowSums ==
  ASSUME NEW r, Typed(r), r.type # "ec2_vm", NEW e, \A s \in e.azure : AzureSound(s),
         SettingsTyped(e.settings), \A c \in ResolveSource(r, e).costs : SourceTotal(c) \in Nat
  PROVE  RowSums(MiRow(r, e), e.settings.discount.parity)
<1> DEFINE source == ResolveSource(r, e)
           storage == StorageInputs(r)
           selection == SelectTarget(MiRequest(r, e, source, storage))
           steps == <<SourceInputStep(r, Value(source.vcpu), Or0(source.iops), storage)>>
                      \o SourceCostSteps(r, e, source)
           x == MiRow(r, e)
<1>1. CASE source.vcpu = {}
  <2>1. x.source = source.costs /\ x.azureCosts = {} /\ x.savings = {}
    BY <1>1 DEF MiRow, SourcedMiRow, UnsizedRow, Row
  <2> HIDE DEF x, source
  <2> QED
    BY <2>1, UnmappedSums DEF source, x
<1>2. CASE source.vcpu # {}
  <2>1. x = SelectedMiRow(r, e, source, storage, steps, selection)
    BY <1>2 DEF MiRow, SourcedMiRow
  <2>2. storage.azure \in Int
    BY StorageAsked
  <2>3. \A c \in source.costs : SourceTotal(c) \in Nat
    OBVIOUS
  <2>4. \A t \in selection.selected : t.extraMemory \in Int
    BY ExtraMemoryType
  <2> HIDE DEF source, steps, selection, storage, x
  <2>5. CASE selection.selected = {}
    <3>1. x.source = source.costs /\ x.azureCosts = {} /\ x.savings = {}
      BY <2>1, <2>5 DEF SelectedMiRow, Row
    <3> QED
      BY <2>3, <3>1, UnmappedSums DEF x
  <2>6. CASE selection.selected # {}
    <3> DEFINE row == [Row(r, source, storage, steps) EXCEPT !.target = {selection}]
               costed == AzureCosts(Value(selection.selected), r, storage.azure, e)
    <3>1. x = MappedRow(row, e, source, costed)
      BY <2>1, <2>6 DEF SelectedMiRow
    <3>2. Value(selection.selected) \in selection.selected
      BY <2>6 DEF Value
    <3>3. \A c \in costed.costs : AzureTotal(c) \in Int
      BY <2>2, <2>4, <3>2, MiInt
    <3> HIDE DEF costed
    <3>4. x.source = source.costs /\ x.azureCosts = costed.costs /\ x.savings = SavingsOf(source, costed, e)
      BY <3>1 DEF MappedRow, Row
    <3> QED
      BY <2>3, <3>3, <3>4, MappedSums DEF x
  <2> QED
    BY <2>5, <2>6
<1> QED
  BY <1>1, <1>2

LEMMA VmRowSums ==
  ASSUME NEW r, Typed(r), r.type = "ec2_vm", NEW e, \A s \in e.azure : AzureSound(s),
         \A s \in e.aws : s \in StoredAws(s),
         SettingsTyped(e.settings), \A c \in ResolveSource(r, e).costs : SourceTotal(c) \in Nat
  PROVE  RowSums(VmRow(r, e), e.settings.discount.parity)
<1> DEFINE source == ResolveSource(r, e)
           classes == SourceClass(r.family)
           class == Value(classes)
           request == VmRequest(r, e, Value(source.vcpu), class)
           found == SelectVmTarget(request)
           x == SourcedVmRow(r, e, source, classes)
           parity == e.settings.discount.parity
           Plain(row) == row.source = source.costs /\ row.azureCosts = {} /\ row.savings = {}
<1> SUFFICES RowSums(x, parity)
  BY DEF VmRow
<1>1. \A c \in source.costs : SourceTotal(c) \in Nat
  OBVIOUS
<1>2. ASSUME NEW row, Plain(row) PROVE RowSums(row, parity)
  BY <1>1, <1>2, UnmappedSums
<1>3. CASE source.vcpu = {}
  <2>1. Plain(x)
    BY <1>3 DEF SourcedVmRow, UnsizedRow, Row
  <2> HIDE DEF x
  <2> QED
    BY <1>2, <2>1
<1>4. ASSUME source.vcpu # {}, NEW t \in found.selected PROVE DisksTyped(t)
  <2>1. Value(source.vcpu) \in Int
    BY <1>4, SourcesSized
  <2>2. request.memory = r.ram /\ request.vcpu = Value(source.vcpu) /\ DOMAIN request.volumes = Persistent(r)
    BY DEF VmRequest, Volumes
  <2>3. \A i \in DOMAIN request.volumes : /\ request.volumes[i].capacity \in Int
                                          /\ request.volumes[i].iops \in Int
                                          /\ request.volumes[i].throughput \in Int
    BY VmRequestTyped
  <2>4. r.ram \in Int /\ IsFiniteSet(Persistent(r))
    BY PersistentFinite DEF Typed
  <2> HIDE DEF request, source
  <2> QED
    BY <1>4, <2>1, <2>2, <2>3, <2>4, SelectedDisksTyped
<1>5. CASE source.vcpu # {}
  <2>1. \A t \in found.selected : DisksTyped(t)
    BY <1>4, <1>5
  <2> HIDE DEF source, classes, request, class
  <2>2. CASE classes = {}
    <3>1. Plain(x)
      BY <1>5, <2>2 DEF SourcedVmRow, Row
    <3> HIDE DEF x
    <3> QED
      BY <1>2, <3>1
  <2>3. CASE classes # {}
    <3>1. PICK steps : x = ClassedVmRow(r, e, source, class, request, steps)
      BY <1>5, <2>3 DEF SourcedVmRow, RequestedVmRow, request, class
    <3>2. CASE x = SelectedVmRow(r, e, source, class, steps, found)
      <4> DEFINE selection == [selected |-> found.selected, candidates |-> found.candidates,
                               reasons |-> found.reasons \cup Review(r, class),
                               recommendation |-> IF found.selected = {} THEN "no_eligible_target"
                                                  ELSE Recommendation(r, class)]
      <4> HIDE DEF found
      <4>1. selection.selected = found.selected
        OBVIOUS
      <4>2. x = IF found.selected = {} THEN VmUnmappedRow(r, e, source, steps, selection)
                ELSE VmMappedRow(r, e, source, steps, selection)
        BY <3>2 DEF SelectedVmRow
      <4> HIDE DEF selection, x
      <4>3. CASE found.selected = {}
        <5>1. Plain(VmUnmappedRow(r, e, source, steps, selection))
          BY DEF VmUnmappedRow, Row
        <5> QED
          BY <1>2, <4>2, <4>3, <5>1
      <4>4. CASE found.selected # {}
        <5> DEFINE selected == Value(selection.selected)
                   costed == AzureVmCosts(selected, r, e)
        <5>1. selected \in found.selected
          BY <4>1, <4>4 DEF Value
        <5>2. \A c \in costed.costs : AzureTotal(c) \in Int
          <6>1. DisksTyped(selected)
            BY <2>1, <5>1
          <6> HIDE DEF selected
          <6> QED
            BY <6>1, VmInt
        <5>3. /\ x.source = source.costs /\ x.azureCosts = costed.costs
              /\ x.savings = SavingsOf(source, costed, e)
          <6>1. x = VmMappedRow(r, e, source, steps, selection)
            BY <4>2, <4>4
          <6> QED
            BY <6>1 DEF VmMappedRow, MappedRow, Row
        <5> HIDE DEF costed
        <5> QED
          BY <1>1, <5>2, <5>3, MappedSums
      <4> QED
        BY <4>3, <4>4
    <3>3. CASE x # SelectedVmRow(r, e, source, class, steps, found)
      <4> DEFINE undecided == NoSelection("incomplete", Review(r, class) \cup Undecided(r))
                 lost == NoSelection("no_eligible_target",
                                     Review(r, class) \cup {"ephemeral_data_loss_incompatible"})
                 row == Row(r, source, StorageInputs(r), steps)
      <4>1. \/ x = [row EXCEPT !.vm = {undecided}]
            \/ x = [row EXCEPT !.mapping = {"no_mapping"}, !.vm = {lost}]
        BY <3>1, <3>3 DEF ClassedVmRow
      <4> HIDE DEF x, found, undecided, lost
      <4>2. Plain(x)
        BY <4>1 DEF Row
      <4> QED
        BY <1>2, <4>2
    <3> QED
      BY <3>2, <3>3
  <2> QED
    BY <2>2, <2>3
<1> QED
  BY <1>3, <1>5

LEMMA RowsSum ==
  ASSUME NEW r, Typed(r), ResourceValid(r), NEW e, \A s \in e.aws : AwsSound(s) /\ s \in StoredAws(s),
         \A s \in e.azure : AzureSound(s), SettingsTyped(e.settings), SettingsValid(e.settings),
         r.type = e.settings.type
  PROVE  RowSums(CalculateRow(r, e), e.settings.discount.parity)
<1>1. \A c \in ResolveSource(r, e).costs : SourceTotal(c) \in Nat
  BY SourcesNat
<1>2. r.type = "ec2_vm" => RowSums(VmRow(r, e), e.settings.discount.parity)
  BY <1>1, VmRowSums
<1>3. r.type # "ec2_vm" => RowSums(MiRow(r, e), e.settings.discount.parity)
  BY <1>1, MiRowSums
<1> QED
  BY <1>2, <1>3 DEF CalculateRow

(* The totals of the rows. *)

LEMMA SumSame ==
  ASSUME NEW S, IsFiniteSet(S), NEW fun, NEW gun, \A x \in S : fun[x] = gun[x]
  PROVE  SumOn(fun, S) = SumOn(gun, S)
<1>1. PICK g : IsSum(g, fun, S)
  BY SumExists
<1>2. PICK h : IsSum(h, gun, S)
  BY SumExists
<1>3. g[S] = SumOn(fun, S) /\ h[S] = SumOn(gun, S)
  BY <1>1, <1>2, SumIs
<1>4. g[S] = h[S]
  <2>1. S \in SUBSET S
    OBVIOUS
  <2>2. \A s \in SUBSET S : g[s] = h[s]
    BY <1>1, <1>2, <2>1, SumUnique
  <2> QED
    BY <2>1, <2>2
<1> QED
  BY <1>3, <1>4

SavedDifference(row) == Value(row.savings).difference

LEMMA SumsOver ==
  ASSUME NEW S, IsFiniteSet(S), NEW F
  PROVE  /\ (\A i \in S : F[i] = SourceAmount(rows[i])) => SumOver(S, SourceAmount) = SumOn(F, S)
         /\ (\A i \in S : F[i] = AzureAmount(rows[i])) => SumOver(S, AzureAmount) = SumOn(F, S)
         /\ (\A i \in S : F[i] = SavedDifference(rows[i])) => SumOver(S, SavedDifference) = SumOn(F, S)
<1> DEFINE part == [i \in S |-> rows[i]]
           source == [i \in DOMAIN part |-> SourceAmount(part[i])]
           azure == [i \in DOMAIN part |-> AzureAmount(part[i])]
           saved == [i \in DOMAIN part |-> SavedDifference(part[i])]
<1>1. /\ SumOver(S, SourceAmount) = FoldFunction(+, 0, source)
      /\ SumOver(S, AzureAmount) = FoldFunction(+, 0, azure)
      /\ SumOver(S, SavedDifference) = FoldFunction(+, 0, saved)
  BY DEF SumOver, Total
<1>2. /\ DOMAIN source = S /\ DOMAIN azure = S /\ DOMAIN saved = S
      /\ \A i \in S : /\ source[i] = SourceAmount(rows[i]) /\ azure[i] = AzureAmount(rows[i])
                      /\ saved[i] = SavedDifference(rows[i])
  OBVIOUS
<1> HIDE DEF source, azure, saved
<1>3. /\ SumOver(S, SourceAmount) = SumOn(source, S)
      /\ SumOver(S, AzureAmount) = SumOn(azure, S)
      /\ SumOver(S, SavedDifference) = SumOn(saved, S)
  BY <1>1, <1>2, FoldSums
<1>4. /\ (\A i \in S : F[i] = SourceAmount(rows[i])) => SumOn(source, S) = SumOn(F, S)
      /\ (\A i \in S : F[i] = AzureAmount(rows[i])) => SumOn(azure, S) = SumOn(F, S)
      /\ (\A i \in S : F[i] = SavedDifference(rows[i])) => SumOn(saved, S) = SumOn(F, S)
  <2>1. (\A i \in S : F[i] = SourceAmount(rows[i])) => SumOn(source, S) = SumOn(F, S)
    <3> SUFFICES ASSUME \A i \in S : F[i] = SourceAmount(rows[i]) PROVE SumOn(source, S) = SumOn(F, S)
      OBVIOUS
    <3>1. \A i \in S : source[i] = F[i]
      BY <1>2
    <3> QED
      BY <3>1, SumSame
  <2>2. (\A i \in S : F[i] = AzureAmount(rows[i])) => SumOn(azure, S) = SumOn(F, S)
    <3> SUFFICES ASSUME \A i \in S : F[i] = AzureAmount(rows[i]) PROVE SumOn(azure, S) = SumOn(F, S)
      OBVIOUS
    <3>1. \A i \in S : azure[i] = F[i]
      BY <1>2
    <3> QED
      BY <3>1, SumSame
  <2>3. (\A i \in S : F[i] = SavedDifference(rows[i])) => SumOn(saved, S) = SumOn(F, S)
    <3> SUFFICES ASSUME \A i \in S : F[i] = SavedDifference(rows[i]) PROVE SumOn(saved, S) = SumOn(F, S)
      OBVIOUS
    <3>1. \A i \in S : saved[i] = F[i]
      BY <1>2
    <3> QED
      BY <3>1, SumSame
  <2> QED
    BY <2>1, <2>2, <2>3
<1> QED
  BY <1>3, <1>4

LEMMA AllRowsSum ==
  ASSUME AcceptInv, NEW i \in DOMAIN rows
  PROVE  RowSums(rows[i], project.settings.discount.parity)
<1>1. project \in Projects /\ InputIssues = {} /\ i \in DOMAIN project.resources
  <2>1. project.resources \in Seq(Range(project.resources))
    BY ProjectsAssumption DEF AcceptInv, EstimateInv
  <2>2. rows # <<>>
    OBVIOUS
  <2> QED
    BY <2>1, <2>2 DEF AcceptInv, EstimateInv
<1> DEFINE r == project.resources[i]
<1>2. /\ SettingsTyped(project.settings) /\ SettingsValid(project.settings)
      /\ Typed(r) /\ ResourceValid(r) /\ r.type = project.settings.type
  BY <1>1, ValidInput
<1>3. \A s \in Estimate.aws : AwsSound(s) /\ s \in StoredAws(s)
  BY SnapshotsSound DEF Estimate
<1>4. \A s \in Estimate.azure : AzureSound(s)
  BY SnapshotsSound DEF Estimate
<1>5. Estimate.settings = project.settings
  BY DEF Estimate
<1>6. rows[i] = CalculateRow(r, Estimate)
  BY DEF AcceptInv, EstimateInv
<1> HIDE DEF r
<1>7. RowSums(CalculateRow(r, Estimate), Estimate.settings.discount.parity)
  BY <1>2, <1>3, <1>4, <1>5, RowsSum
<1> QED
  BY <1>5, <1>6, <1>7

LEMMA PortfolioAdds ==
  ASSUME AcceptInv
  PROVE  /\ Portfolio.difference = SumOn([i \in Comparable |-> SavedDifference(rows[i])], Comparable)
         /\ Comparable = {i \in DOMAIN rows : rows[i].savings # {}}
         /\ Portfolio.counts.comparable = Len(rows) => Portfolio.all = {Portfolio.source}
         /\ Portfolio.all # {} => Portfolio.source <= Value(Portfolio.all)
<1> DEFINE parity == project.settings.discount.parity
           C == Comparable
           source == [i \in DOMAIN rows |-> SourceAmount(rows[i])]
           azure == [i \in DOMAIN rows |-> AzureAmount(rows[i])]
           saved == [i \in C |-> SavedDifference(rows[i])]
           p == Whole - parity
<1>1. \A i \in DOMAIN rows : RowSums(rows[i], parity)
  BY AllRowsSum
<1>2. IsFiniteSet(DOMAIN rows) /\ Cardinality(DOMAIN rows) = Len(rows) /\ C \in SUBSET (DOMAIN rows) /\ IsFiniteSet(C)
  <2>1. DOMAIN rows = 1..Len(rows) /\ Len(rows) \in Nat
    BY DEF AcceptInv, EstimateInv
  <2>2. IsFiniteSet(1..Len(rows)) /\ Cardinality(1..Len(rows)) = Len(rows)
    <3> DEFINE n == Len(rows)
    <3>1. n \in Int /\ 1 \in Int /\ n >= 0
      BY <2>1
    <3> HIDE DEF n
    <3>2. IsFiniteSet(1..n) /\ Cardinality(1..n) = IF 1 > n THEN 0 ELSE n - 1 + 1
      BY <3>1, FS_Interval
    <3>3. (IF 1 > n THEN 0 ELSE n - 1 + 1) = n
      BY <3>1
    <3> QED
      BY <3>2, <3>3 DEF n
  <2>3. C \in SUBSET (DOMAIN rows)
    BY DEF Comparable
  <2> QED
    BY <2>1, <2>2, <2>3, FS_Subset
<1>3. \A i \in C : rows[i].source # {} /\ rows[i].azureCosts # {} /\ i \in DOMAIN rows
  BY DEF Comparable
<1>4. C = {i \in DOMAIN rows : rows[i].savings # {}}
  <2>1. \A i \in DOMAIN rows : rows[i].savings # {} <=> (rows[i].source # {} /\ rows[i].azureCosts # {})
    <3> TAKE i \in DOMAIN rows
    <3>1. rows[i].savings = IF rows[i].source = {} \/ rows[i].azureCosts = {} THEN {}
                            ELSE {Savings(Value(rows[i].source), Value(rows[i].azureCosts), parity)}
      BY <1>1 DEF RowSums
    <3> QED
      BY <3>1
  <2> QED
    BY <2>1 DEF Comparable
<1>5. \A i \in DOMAIN rows : rows[i].source # {} => source[i] \in Nat
  BY <1>1 DEF RowSums, SourceAmount, Value
<1>6. \A i \in C : source[i] \in Int /\ azure[i] \in Int /\ saved[i] = azure[i] * p - source[i] * Whole
  <2> TAKE i \in C
  <2>1. rows[i].source # {} /\ rows[i].azureCosts # {} /\ i \in DOMAIN rows
    BY <1>3
  <2>2. azure[i] \in Int
    BY <1>1, <2>1 DEF RowSums, AzureAmount, Value
  <2>3. rows[i].savings = {Savings(Value(rows[i].source), Value(rows[i].azureCosts), parity)}
    BY <1>1, <2>1 DEF RowSums
  <2>4. Value(rows[i].savings) = Savings(Value(rows[i].source), Value(rows[i].azureCosts), parity)
    BY <2>3 DEF Value
  <2>5. saved[i] = Discounted(AzureTotal(Value(rows[i].azureCosts)), parity) - SourceTotal(Value(rows[i].source)) * Whole
    BY <2>1, <2>4 DEF SavedDifference, Savings
  <2> QED
    BY <1>5, <2>1, <2>2, <2>5 DEF Discounted, SourceAmount, AzureAmount
<1>7. /\ SumOver(C, SourceAmount) = SumOn(source, C) /\ SumOver(C, AzureAmount) = SumOn(azure, C)
      /\ SumOver(DOMAIN rows, SourceAmount) = SumOn(source, DOMAIN rows)
  <2>1. \A i \in DOMAIN rows : source[i] = SourceAmount(rows[i]) /\ azure[i] = AzureAmount(rows[i])
    OBVIOUS
  <2> HIDE DEF source, azure, C
  <2> QED
    BY <1>2, <2>1, SumsOver
<1>8. /\ Portfolio.all = IF \E i \in DOMAIN rows : rows[i].source = {} THEN {} ELSE {SumOn(source, DOMAIN rows)}
      /\ Portfolio.source = SumOn(source, C) /\ Portfolio.counts.comparable = Cardinality(C)
      /\ Portfolio.difference = SumOn(azure, C) * p - SumOn(source, C) * Whole
  <2>1. /\ Portfolio.all = IF \E i \in DOMAIN rows : rows[i].source = {} THEN {} ELSE {SumOver(DOMAIN rows, SourceAmount)}
        /\ Portfolio.source = SumOver(C, SourceAmount) /\ Portfolio.counts.comparable = Cardinality(C)
        /\ Portfolio.difference = Discounted(SumOver(C, AzureAmount), parity) - SumOver(C, SourceAmount) * Whole
    BY DEF Portfolio, Totals, SourcesCompared
  <2> HIDE DEF source, azure, saved, C
  <2> QED
    BY <1>7, <2>1 DEF Discounted
<1> HIDE DEF source, azure, saved, C
<1>9. Portfolio.difference = SumOn(saved, C)
  <2>1. p \in Int /\ Whole \in Int
    <3>1. project \in Projects
      BY DEF AcceptInv, EstimateInv
    <3>2. parity \in Int
      BY <3>1, ProjectsAssumption, AzureDiscounts
    <3> QED
      BY <3>2, WholeAssumption
  <2> HIDE DEF p
  <2>2. SumOn(saved, C) = SumOn(azure, C) * p - SumOn(source, C) * Whole
    <3>1. IsFiniteSet(C)
      BY <1>2
    <3>2. Linear(saved, azure, p, source, Whole, C)
      BY <1>6 DEF Linear
    <3> QED
      BY <2>1, <3>1, <3>2, SumLinear
  <2> QED
    BY <1>8, <2>2
<1>10. ASSUME Portfolio.counts.comparable = Len(rows) PROVE Portfolio.all = {Portfolio.source}
  <2>1. C = DOMAIN rows
    BY <1>2, <1>8, <1>10, FS_Subset
  <2> QED
    BY <1>3, <1>8, <2>1
<1>11. ASSUME Portfolio.all # {} PROVE Portfolio.source <= Value(Portfolio.all)
  <2>1. \A i \in DOMAIN rows : source[i] \in Nat
    BY <1>5, <1>8, <1>11
  <2>2. SumOn(source, C) <= SumOn(source, DOMAIN rows)
    BY <1>2, <2>1, SumMonotone
  <2>3. Portfolio.all = {SumOn(source, DOMAIN rows)}
    BY <1>8, <1>11
  <2>4. Value(Portfolio.all) = SumOn(source, DOMAIN rows)
    BY <2>3 DEF Value
  <2> QED
    BY <1>8, <2>2, <2>4
<1> QED
  BY <1>4, <1>9, <1>10, <1>11 DEF saved, C

\* what is answered, of whichever kind
Saved == {i \in DOMAIN rows : rows[i].savings # {}}
PortfolioSums(t) ==
  /\ t.difference = SumOn([i \in Saved |-> SavedDifference(rows[i])], Saved)
  /\ t.counts.comparable = Len(rows) => t.all = {t.source}
  /\ t.all # {} => t.source <= Value(t.all)
AnalysisSums(t, x) ==
  /\ x.required[1] = x.gross - x.breakEven \/ x.required = <<0, 1>>
  /\ x.breakEven <= x.gross /\ x.breakEven <= t.source
  /\ t.after - t.source * Whole = -x.savings

LEMMA PortfolioParts ==
  ASSUME rows \in Seq(Range(rows)),
         \A a \in answer : a.problem = "none" =>
           /\ a.analysis = {} => PortfolioSums(a.totals)
           /\ \A x \in a.analysis : AnalysisSums(a.totals, x)
  PROVE  PortfolioAddsUp
<1>1. IsFiniteSet(Saved)
  <2>1. DOMAIN rows = 1..Len(rows) /\ Len(rows) \in Nat
    OBVIOUS
  <2>2. IsFiniteSet(DOMAIN rows)
    BY <2>1, FS_Interval
  <2> QED
    BY <2>2, FS_Subset DEF Saved
<1> DEFINE F == [i \in Saved |-> SavedDifference(rows[i])]
<1>2. \A i \in Saved : F[i] = SavedDifference(rows[i])
  OBVIOUS
<1> HIDE DEF F
<1>3. SumOver(Saved, SavedDifference) = SumOn(F, Saved)
  BY <1>1, <1>2, SumsOver
<1>4. \A t : PortfolioSums(t) =>
        /\ t.difference = SumOver(Saved, SavedDifference)
        /\ t.counts.comparable = Len(rows) => t.all = {t.source}
        /\ t.all # {} => t.source <= Value(t.all)
  BY <1>3 DEF PortfolioSums, F
<1> QED
  BY <1>4 DEF PortfolioAddsUp, Saved, AnalysisSums, SumOver, Total, SavedDifference

LEMMA SqlPaygSums ==
  ASSUME NEW s, SettingsTyped(s), s.sqlPayg # {}
  PROVE  LET q == Value(s.sqlPayg)
             x == SqlPayg(q, s.hours, s.discount.parity, PerEnterprise, PerStandard)
         IN \A all, counts :
              AnalysisSums(Totals(all, q.spend, x.gross, x.required, s.discount.parity, counts), x)
<1> DEFINE q == Value(s.sqlPayg)
           x == SqlPayg(q, s.hours, s.discount.parity, PerEnterprise, PerStandard)
           gross == (q.enterprise * PerEnterprise + q.standard * PerStandard) * s.hours
<1>1. q.enterprise \in Nat /\ q.standard \in Nat /\ q.spend \in Int /\ s.hours \in Int
  BY DEF SettingsTyped, Value
<1>2. gross \in Int
  <2>1. q.enterprise * PerEnterprise \in Nat /\ q.standard * PerStandard \in Nat
    BY <1>1, CorePriceAssumption, NatTimes
  <2> QED
    BY <1>1, <2>1
<1>3. /\ x.gross = gross
      /\ x.required = IF gross > q.spend THEN Adjustment(q.spend, gross) ELSE <<0, 1>>
      /\ x.breakEven = IF gross <= q.spend THEN gross ELSE q.spend
      /\ x.savings = q.spend * Whole - Discounted(gross, s.discount.parity)
  BY DEF SqlPayg
<1>4. Discounted(gross, s.discount.parity) \in Int /\ q.spend * Whole \in Int
  <2>1. s.discount.parity \in Int
    BY AzureDiscounts
  <2> HIDE DEF gross, q, x
  <2>2. Discounted(gross, s.discount.parity) \in Int
    BY <1>2, <2>1, DiscountedInt
  <2>3. q.spend * Whole \in Int
    BY <1>1, WholeAssumption
  <2> QED
    BY <2>2, <2>3
<1> HIDE DEF x, gross, q
<1> SUFFICES ASSUME NEW all, NEW counts
             PROVE  AnalysisSums(Totals(all, q.spend, x.gross, x.required, s.discount.parity, counts), x)
  BY DEF q, x
<1> DEFINE t == Totals(all, q.spend, x.gross, x.required, s.discount.parity, counts)
<1>5. t.source = q.spend /\ t.after = Discounted(gross, s.discount.parity)
  BY <1>3 DEF Totals
<1> HIDE DEF t
<1>6. x.required[1] = x.gross - x.breakEven \/ x.required = <<0, 1>>
  BY <1>1, <1>2, <1>3 DEF Adjustment
<1>7. x.breakEven <= x.gross /\ x.breakEven <= t.source
  BY <1>1, <1>2, <1>3, <1>5
<1>8. t.after - t.source * Whole = -x.savings
  BY <1>3, <1>4, <1>5
<1> QED
  BY <1>6, <1>7, <1>8 DEF AnalysisSums, t

\* an answer ends the request, and its totals are those of the rows beside it
PortfolioInv ==
  /\ AcceptInv
  /\ phase # "answered" => answer = {}
  /\ \A a \in answer : a.problem = "none" =>
       /\ a.analysis = {} => PortfolioSums(a.totals)
       /\ \A x \in a.analysis : AnalysisSums(a.totals, x)

LEMMA PortfolioBegins == Init => PortfolioInv
BY AcceptBegins DEF Init, PortfolioInv

LEMMA SumsStay ==
  ASSUME UNCHANGED rows, NEW t
  PROVE  PortfolioSums(t)' <=> PortfolioSums(t)
BY DEF PortfolioSums, Saved, SavedDifference

LEMMA Refused ==
  ASSUME NEW problem, problem # "none", NEW by, Refuse(problem, by)
  PROVE  phase' = "answered" /\ \A a \in answer' : a.problem # "none"
BY DEF Refuse, Answer

LEMMA PortfolioGoesOn == PortfolioInv /\ [Next]_vars => PortfolioInv'
<1> SUFFICES ASSUME PortfolioInv, [Next]_vars PROVE PortfolioInv'
  OBVIOUS
<1>1. AcceptInv'
  BY AcceptGoesOn DEF PortfolioInv
<1>2. ASSUME phase' # "answered" => answer' = {}, \A a \in answer' : a.problem # "none" PROVE PortfolioInv'
  BY <1>1, <1>2 DEF PortfolioInv
<1>3. CASE Refresh \/ Validate
  <2>1. answer = {} /\ \/ answer' = answer
                       \/ phase' = "answered" /\ \A a \in answer' : a.problem # "none"
    BY <1>3, Refused DEF Refresh, Validate, PortfolioInv
  <2> QED
    BY <1>2, <2>1
<1>4. CASE ResolveAws \/ ResolveAzure
  <2> PICK provider \in {"aws", "azure"}, here \in {"resolve_aws", "resolve_azure"},
           next \in {"resolve_azure", "validate"} : Resolve(provider, here, next)
    BY <1>4 DEF ResolveAws, ResolveAzure
  <2>1. answer = {} /\ \/ answer' = answer
                       \/ phase' = "answered" /\ \A a \in answer' : a.problem # "none"
    BY Refused DEF Resolve, PortfolioInv
  <2> QED
    BY <1>2, <2>1
<1>5. CASE Busy \/ CalculateResource
  <2>1. answer = {} /\ \/ answer' = answer
                       \/ phase' = "answered" /\ \A a \in answer' : a.problem # "none"
    BY <1>5, Refused DEF Busy, CalculateResource, Panic, PortfolioInv
  <2> QED
    BY <1>2, <2>1
<1>6. CASE Finish /\ Panic
  <2>1. answer' = {}
    BY <1>6 DEF Finish, Panic, PortfolioInv
  <2> QED
    BY <1>2, <2>1
<1>7. CASE Finish /\ ~Panic
  <2>1. /\ answer' = {Revision(rows, Portfolio, Warnings, {})} /\ phase' = "answered" /\ UNCHANGED rows
    BY <1>7 DEF Finish, Answer
  <2>2. PortfolioSums(Portfolio)
    BY PortfolioAdds DEF PortfolioInv, PortfolioSums, Saved
  <2> DEFINE t == Portfolio
             w == Warnings
             a == Revision(rows, t, w, {})
  <2> HIDE DEF t, w
  <2>3. a.totals = t /\ a.analysis = {}
    BY DEF Revision
  <2>4. \A b \in answer' : b.totals = t /\ b.analysis = {}
    BY <2>1, <2>3 DEF t, w
  <2>5. PortfolioSums(t)
    BY <2>2 DEF t
  <2>6. \A b : (\A c \in answer' : b = t => PortfolioSums(b)')
    BY <2>1, <2>5, SumsStay
  <2> QED
    BY <1>1, <2>1, <2>4, <2>6 DEF PortfolioInv
<1>8. CASE CalculateSqlPayg
  <2> DEFINE s == project.settings
             q == Value(s.sqlPayg)
             x == SqlPayg(q, s.hours, s.discount.parity, PerEnterprise, PerStandard)
             t == Totals({q.spend}, q.spend, x.gross, x.required, s.discount.parity,
                         [comparable |-> 1, noMapping |-> 0, unpriced |-> 0])
  <2>1. /\ phase = "sql_payg"
        /\ \/ answer' = {Revision(<<>>, t, {-3, -4}, {x})} /\ phase' = "answered"
           \/ answer' = {}
           \/ phase' = "answered" /\ \A a \in answer' : a.problem # "none"
    BY <1>8, Refused DEF CalculateSqlPayg, Panic, Answer, PortfolioInv
  <2>2. s.sqlPayg # {} /\ SettingsTyped(s)
    <3>1. project \in Projects /\ InputIssues = {} /\ s.type = "sql_payg"
      BY <2>1 DEF PortfolioInv, AcceptInv, EstimateInv
    <3> QED
      BY <3>1, ValidInput DEF SettingsValid
  <2>3. AnalysisSums(t, x)
    BY <2>2, SqlPaygSums
  <2> HIDE DEF t, x
  <2>4. CASE answer' = {Revision(<<>>, t, {-3, -4}, {x})} /\ phase' = "answered"
    <3>1. \A a \in answer' : a.totals = t /\ a.analysis = {x}
      BY <2>4 DEF Revision
    <3>2. \A a \in answer' : \A y \in a.analysis : AnalysisSums(a.totals, y)
      BY <2>3, <3>1
    <3>3. \A a \in answer' : \A y \in a.analysis : AnalysisSums(a.totals, y)'
      BY <3>2 DEF AnalysisSums
    <3> QED
      BY <1>1, <2>1, <3>1, <3>3 DEF PortfolioInv
  <2> QED
    BY <1>2, <2>1, <2>4
<1>9. CASE UNCHANGED vars
  <2>1. UNCHANGED <<phase, rows, answer>>
    BY <1>9 DEF vars
  <2>2. \A t : PortfolioSums(t) => PortfolioSums(t)'
    BY <2>1, SumsStay
  <2>3. \A t, x : AnalysisSums(t, x) => AnalysisSums(t, x)'
    BY DEF AnalysisSums
  <2> QED
    BY <1>1, <2>1, <2>2, <2>3 DEF PortfolioInv
<1> QED
  BY <1>3, <1>4, <1>5, <1>6, <1>7, <1>8, <1>9 DEF Next

-----------------------------------------------------------------------------
(* The theorem.                                                            *)

\* The totals of an estimate are those of the rows that can be compared, whatever the
\* projects and the prices and however many rows: the differences of the rows sum to the difference of
\* the sums, no source is left out when every row has a target, and Software Assurance
\* breaks even below either side (calculate_portfolio, calculate_sql_payg).
THEOREM PortfoliosAddUp == Spec => []PortfolioAddsUp
<1>1. PortfolioInv => PortfolioAddsUp
  <2>1. AcceptInv => rows \in Seq(Range(rows))
    BY DEF AcceptInv, EstimateInv, Range
  <2> QED
    BY <2>1, PortfolioParts DEF PortfolioInv
<1> QED
  BY <1>1, PortfolioBegins, PortfolioGoesOn, PTL DEF Spec
=============================================================================
