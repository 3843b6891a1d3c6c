---------------------------- MODULE PriceSnapshot ----------------------------
(***************************************************************************)
(* A price snapshot is made of the rates a provider published, checked and *)
(* put into a canonical order (pricing/snapshot.rs).  Its identity is the  *)
(* hash of its content, modelled as the content: two snapshots have the    *)
(* same identity exactly when provider, scope, parser version and rates    *)
(* are the same.  Rates arrive and are kept as sequences; a lookup finds   *)
(* the first that matches.  What a rate is priced by is in its own fields, *)
(* its provenance an url ("" when missing) and the meters it came from.    *)
(***************************************************************************)
EXTENDS Integers, Sequences, SequencesExt, FiniteSets, FiniteSetsExt

CONSTANTS
  Gp3Iops, Gp3Throughput,    \* what the capacity of a gp3 volume includes
  FirstLimit, SecondLimit    \* where the io2 tiers end

(* 32,000 and 64,000 IOPS. *)
ASSUME LimitsAssumption ==
  /\ FirstLimit \in Nat /\ SecondLimit \in Nat
  /\ 0 < FirstLimit /\ FirstLimit < SecondLimit

MiOptions ==
  {"payg", "ahb", "one-year", "ahbone-year", "three-year", "ahbthree-year",
   "sv-one-year", "ahbsv-one-year"}
\* an option with the licence and the same option without it
MiPairs ==
  {<<"payg", "ahb">>, <<"one-year", "ahbone-year">>, <<"three-year", "ahbthree-year">>,
   <<"sv-one-year", "ahbsv-one-year">>}
VmCommitments == (MiPairs \ {<<"payg", "ahb">>}) \cup {<<"sv-three-year", "ahbsv-three-year">>}
UsesAhb == {pair[2] : pair \in MiPairs \cup VmCommitments}

Records(seq) == Range(seq)
Ascending(S) == [i \in 1..Cardinality(S) |-> CHOOSE x \in S : Cardinality({y \in S : y < x}) = i - 1]
Dedup(seq) == Ascending(Range(seq))

\* rates in the order of their keys, which are distinct, the meters of each in theirs
Normalized(r) == [r EXCEPT !.meters = Dedup(@)]
Canonical(rates) ==
  LET keys == Ascending({r.key : r \in Records(rates)})
  IN [n \in DOMAIN keys |-> Normalized(CHOOSE r \in Records(rates) : r.key = keys[n])]

UsableStatuses == {"fresh", "cached", "stale"}

SnapshotCreationMetadata ==
  [utc : BOOLEAN, status : STRING, currency : STRING, region : STRING, version : Int,
   warnings : Seq(Int)]
MetadataErrors(m) ==
  (IF m.utc THEN {} ELSE {"invalid_retrieved_at"})
    \cup (IF m.currency = "" \/ m.region = "" \/ m.version = 0 THEN {"invalid_scope"} ELSE {})
    \cup (IF m.status \in UsableStatuses THEN {} ELSE {"unusable_status"})

\* a key names one rate of a snapshot, and every rate says where it was read
KeyErrors(rates) ==
  (IF \/ \E i \in DOMAIN rates : rates[i].key = 0
      \/ \E i, j \in DOMAIN rates : i # j /\ rates[i].key = rates[j].key
   THEN {"invalid_rate_keys"} ELSE {})
    \cup (IF \E i \in DOMAIN rates : rates[i].url = "" THEN {"invalid_rate_provenance"} ELSE {})

-----------------------------------------------------------------------------
(* AWS. *)

Editions == {"enterprise", "standard"}
AwsEc2RateRecord ==
  [key : Int, url : STRING, meters : Seq(Int), instance : STRING, vcpu : Nat, memory : Int,
   compute : Int, license : [Editions -> SUBSET Int]]
AwsRdsRateRecord ==
  [key : Int, url : STRING, meters : Seq(Int), instance : STRING, deployment : STRING, term : STRING,
   class : STRING, vcpu : Nat, memory : Int, compute : Int, storage : Int,
   license : [Editions -> (SUBSET Int) \ {{}}]]
AwsEbsRateRecord ==
  [key : Int, url : STRING, meters : Seq(Int), type : STRING, capacity : Int, includedIops : Nat,
   perIops : SUBSET Int, tiers : Seq([upTo : SUBSET Nat, rate : Int]), includedThroughput : Int,
   perThroughput : SUBSET Int]

Positive(opt) == \A x \in opt : x > 0

ValidEc2Rate(r) ==
  /\ r.instance # "" /\ r.vcpu \in Nat \ {0} /\ r.memory > 0 /\ r.compute > 0
  /\ \A e \in DOMAIN r.license : Positive(r.license[e])
ValidRdsRate(r) ==
  /\ r.instance # "" /\ r.term # "" /\ r.class # ""
  /\ r.vcpu \in Nat \ {0} /\ r.memory > 0 /\ r.compute > 0 /\ r.storage > 0
  /\ \A e \in DOMAIN r.license : Positive(r.license[e])

ValidEbsRate(r) ==
  /\ r.capacity > 0 /\ r.includedThroughput >= 0 /\ Positive(r.perThroughput)
  /\ \/ /\ r.type = "gp3" /\ r.includedIops = Gp3Iops
        /\ r.perIops # {} /\ Positive(r.perIops) /\ r.tiers = <<>>
        /\ r.includedThroughput = Gp3Throughput /\ r.perThroughput # {}
     \/ /\ r.type = "io2" /\ r.includedIops = 0 /\ r.perIops = {}
        /\ [i \in DOMAIN r.tiers |-> r.tiers[i].upTo] = <<{FirstLimit}, {SecondLimit}, {}>>
        /\ \A i \in DOMAIN r.tiers : r.tiers[i].rate > 0

AwsErrors(m, ec2, rds, ebs) ==
  MetadataErrors(m) \cup KeyErrors(ec2 \o rds \o ebs)
    \cup (IF /\ \A r \in Records(ec2) : ValidEc2Rate(r)
             /\ \A r \in Records(rds) : ValidRdsRate(r)
             /\ \A r \in Records(ebs) : ValidEbsRate(r)
          THEN {} ELSE {"invalid_aws_rates"})

\* at most one snapshot: none when anything is wrong
AwsSnapshot(m, ec2, rds, ebs) ==
  IF AwsErrors(m, ec2, rds, ebs) # {} THEN {}
  ELSE LET content == [provider |-> "aws", currency |-> m.currency, region |-> m.region,
                       version |-> m.version, ec2 |-> Canonical(ec2), rds |-> Canonical(rds),
                       ebs |-> Canonical(ebs)]
       IN {[id |-> content, content |-> content, utc |-> m.utc, status |-> m.status,
            warnings |-> Dedup(m.warnings)]}

FirstOf(rates, P(_)) ==
  LET of == {i \in DOMAIN rates : P(rates[i])} IN {rates[i] : i \in {i \in of : \A j \in of \ {i} : i < j}}
Ec2Rates(s, instance) == FirstOf(s.content.ec2, LAMBDA r : r.instance = instance)
RdsRates(s, q) ==
  FirstOf(s.content.rds, LAMBDA r : /\ r.instance = q.instance /\ r.deployment = q.deployment
                                    /\ r.term = q.term /\ r.class = q.class)

-----------------------------------------------------------------------------
(* Azure. *)

AzureMiRateRecord ==
  [key : Int, url : STRING, meters : Seq(Int), configuration : Int, option : STRING,
   compute : Int, license : Int, storage : Int, memory : Int]
AzureVmRateRecord ==
  [key : Int, url : STRING, meters : Seq(Int), sku : Int, option : STRING, hourly : Int,
   license : Int, unit : STRING, raw : Int]
AzureManagedDiskRateRecord ==
  [key : Int, url : STRING, meters : Seq(Int), offer : Int, tier : SUBSET Int, dimension : STRING,
   rate : Int, unit : STRING, raw : Int]

ValidMiRate(r) ==
  r.configuration # 0 /\ r.compute >= 0 /\ r.license >= 0 /\ r.storage > 0 /\ r.memory >= 0

\* the same compute with and without the licence
MiPairMatches(licensed, ahb) ==
  licensed.compute > 0 /\ licensed.compute = ahb.compute /\ licensed.license > 0 /\ ahb.license = 0

OfConfiguration(mi, c) == {i \in DOMAIN mi : mi[i].configuration = c}
\* a configuration is sold under all eight options, at one price of storage and memory
CompleteMatrix(mi, c) ==
  LET of == OfConfiguration(mi, c)
  IN /\ {mi[i].option : i \in of} = MiOptions
     /\ \A i, j \in of :
          /\ mi[i].option = mi[j].option => i = j
          /\ mi[i].storage = mi[j].storage /\ mi[i].memory = mi[j].memory
          /\ <<mi[i].option, mi[j].option>> \in MiPairs => MiPairMatches(mi[i], mi[j])

\* the licence is what a pair differs in
VmPairMatches(licensed, ahb) ==
  /\ licensed.hourly > licensed.license /\ licensed.license > 0 /\ ahb.license = 0
  /\ licensed.hourly - licensed.license = ahb.hourly

ValidVmRate(r) ==
  /\ r.sku # 0 /\ r.hourly > 0 /\ r.license >= 0 /\ r.license <= r.hourly
  /\ r.option \in UsesAhb => r.license = 0
  /\ r.unit = "1 Hour" /\ r.raw > 0

\* either a lone rate without a licence, or payg and ahb and commitments in pairs
CoherentVm(vm, sku) ==
  LET of == {i \in DOMAIN vm : vm[i].sku = sku}
      Sold(option) == {vm[i] : i \in {i \in of : vm[i].option = option}}
  IN \/ \E i \in of : of = {i} /\ vm[i].option = "payg" /\ vm[i].license = 0
     \/ \E payg \in Sold("payg"), ahb \in Sold("ahb") :
          /\ VmPairMatches(payg, ahb)
          /\ \A pair \in VmCommitments :
               \/ Sold(pair[1]) = {} /\ Sold(pair[2]) = {}
               \/ \E licensed \in Sold(pair[1]), without \in Sold(pair[2]) :
                    /\ VmPairMatches(licensed, without)
                    /\ licensed.license = payg.license /\ without.hourly < ahb.hourly

ValidDiskRate(r) ==
  /\ r.offer # 0 /\ r.rate > 0 /\ r.unit # "" /\ r.raw > 0
  /\ (r.tier # {}) = (r.dimension = "capacity_tier")

Distinct(rates, Name(_)) ==
  \A i, j \in DOMAIN rates : i # j => Name(rates[i]) # Name(rates[j])

AzureErrors(m, mi, vm, disks) ==
  MetadataErrors(m) \cup KeyErrors(mi \o vm \o disks)
    \cup (IF /\ \A r \in Records(mi) : ValidMiRate(r)
             /\ \A c \in {r.configuration : r \in Records(mi)} : CompleteMatrix(mi, c)
          THEN {} ELSE {"invalid_azure_purchase_matrix"})
    \cup (IF /\ \A r \in Records(vm) : ValidVmRate(r)
             /\ Distinct(vm, LAMBDA r : <<r.sku, r.option>>)
             /\ \A sku \in {r.sku : r \in Records(vm)} : CoherentVm(vm, sku)
             /\ \A r \in Records(disks) : ValidDiskRate(r)
             /\ Distinct(disks, LAMBDA r : <<r.offer, r.tier, r.dimension>>)
          THEN {} ELSE {"invalid_azure_vm_rates"})

AzureSnapshot(m, mi, vm, disks) ==
  IF AzureErrors(m, mi, vm, disks) # {} THEN {}
  ELSE LET content == [provider |-> "azure", currency |-> m.currency, region |-> m.region,
                       version |-> m.version, mi |-> Canonical(mi), vm |-> Canonical(vm),
                       disks |-> Canonical(disks)]
       IN {[id |-> content, content |-> content, utc |-> m.utc, status |-> m.status,
            warnings |-> Dedup(m.warnings)]}

MiRates(s, c, option) ==
  FirstOf(s.content.mi, LAMBDA r : r.configuration = c /\ r.option = option)
\* one rate for every option
HasCompleteMiRateSet(s, c) ==
  \A option \in MiOptions :
    LET of == {i \in OfConfiguration(s.content.mi, c) : s.content.mi[i].option = option}
    IN \E i \in of : of = {i}
VmRates(s, sku, option) == FirstOf(s.content.vm, LAMBDA r : r.sku = sku /\ r.option = option)
DiskRates(s, offer, tier) ==
  LET of == {i \in DOMAIN s.content.disks :
               s.content.disks[i].offer = offer /\ s.content.disks[i].tier = tier}
  IN [d \in {s.content.disks[i].dimension : i \in of} |->
        s.content.disks[CHOOSE i \in of : s.content.disks[i].dimension = d].rate]

MatchesScope(s, provider, currency, region) ==
  s.content.provider = provider /\ s.content.currency = currency /\ s.content.region = region

-----------------------------------------------------------------------------
(* A stored snapshot is made again from what was stored and must come out  *)
(* the same, its identity included.                                        *)

Metadata(s) ==
  [utc |-> s.utc, status |-> s.status, currency |-> s.content.currency,
   region |-> s.content.region, version |-> s.content.version, warnings |-> s.warnings]
StoredAws(s) ==
  {t \in AwsSnapshot(Metadata(s), s.content.ec2, s.content.rds, s.content.ebs) : t = s}
StoredAzure(s) ==
  {t \in AzureSnapshot(Metadata(s), s.content.mi, s.content.vm, s.content.disks) : t = s}
\* what a refresh compares: the rates of one service without their provenance
ServiceContent(s, rates) ==
  <<"aws", s.content.currency, s.content.region, s.content.version,
    [i \in DOMAIN rates |-> [f \in DOMAIN rates[i] \ {"url", "meters"} |-> rates[i][f]]]>>
=============================================================================
