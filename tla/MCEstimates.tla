----------------------------- MODULE MCEstimates -----------------------------
(* Estimates over a small catalogue: many single rows at complete prices,  *)
(* few projects of one or two rows over feeds that lack or spoil prices.   *)
EXTENDS SavedEstimate

Shape(key, tier, hardware, vcores, memory, storage, zone) ==
  [key |-> key, region |-> "r", tier |-> tier, hardware |-> hardware, vcores |-> vcores,
   zoneRedundant |-> zone, included |-> CHOOSE m \in memory : \A n \in memory : m <= n,
   memory |-> memory, storage |-> storage]
MCCatalog ==
  {Shape(1, NGGP, "Premium Series", 4, {28, 40}, {64}, FALSE),
   Shape(2, NGGP, "Premium Series", 8, {56}, {256}, FALSE),
   Shape(3, NGGP, "Premium Series Memory Optimized", 4, {54}, {64}, FALSE),
   Shape(4, NGGP, "Premium Series Memory Optimized", 8, {108}, {256}, FALSE),
   Shape(5, NGGP, "Standard", 4, {200}, {512}, FALSE),
   Shape(6, BusinessCritical, "Premium Series", 4, {28}, {64}, FALSE),
   Shape(7, BusinessCritical, "Premium Series", 8, {56}, {128}, FALSE),
   Shape(8, NGGP, "Premium Series Memory Optimized", 16, {108}, {}, FALSE),
   Shape(9, BusinessCritical, "Premium Series", 16, {200}, {512}, TRUE)}

Size(name, lineage, rank, vcpus, memory, iops, temp, lifecycle) ==
  [name |-> name, region |-> "r", lineage |-> lineage, lifecycle |-> lifecycle, rank |-> rank,
   windows |-> TRUE, x64 |-> TRUE, premiumIo |-> TRUE, vcpus |-> vcpus, memory |-> memory,
   dataDisks |-> 2, iops |-> iops, throughput |-> 60, temp |-> temp]
MCSizes ==
  {Size(1, "general_purpose", 7, 4, 16, 100, {}, "current"),
   Size(2, "general_purpose", 6, 4, 16, 100, {50}, "current"),
   Size(3, "general_purpose", 7, 8, 32, 300, {}, "current"),
   Size(4, "burstable", 1, 4, 16, 60, {}, "current"),
   Size(5, "memory_optimized", 7, 4, 32, 100, {}, "current"),
   Size(6, "general_purpose", 8, 4, 16, 100, {}, "retired")}
Tier(key, capacity, iops, throughput) ==
  [key |-> key, capacity |-> capacity, iops |-> iops, throughput |-> throughput]
MCOffers ==
  {[key |-> 1, regions |-> {"r"}, roles |-> {"data"}, independent |-> TRUE, includedIops |-> {30},
    includedThroughput |-> {10}, maxIops |-> 200, maxThroughput |-> 40, increment |-> {4},
    min |-> {4}, max |-> 100, tiers |-> {}],
   [key |-> 2, regions |-> {"r"}, roles |-> {"os", "data"}, independent |-> FALSE, includedIops |-> {},
    includedThroughput |-> {}, maxIops |-> 50, maxThroughput |-> 20, increment |-> {},
    min |-> {}, max |-> 128, tiers |-> {Tier(1, 32, 12, 5), Tier(2, 64, 40, 10), Tier(3, 128, 50, 20)}]}

-----------------------------------------------------------------------------
(* Prices. *)

MCSubject ==
  <<[kind |-> "ec2_fallback", instance |-> "m", edition |-> "standard"],
    [kind |-> "rds_storage", instance |-> "db", deployment |-> "single"],
    [kind |-> "rds_license", edition |-> "enterprise"], [kind |-> "other"]>>

Meta(status, region, warnings) ==
  [utc |-> TRUE, status |-> status, currency |-> "USD", region |-> region, version |-> 1, warnings |-> warnings]
Ec2Rate(key, instance, enterprise, standard) ==
  [key |-> key, url |-> "u", meters |-> <<2, 1>>, instance |-> instance, vcpu |-> 4, memory |-> 16,
   compute |-> key + 1, license |-> [enterprise |-> enterprise, standard |-> standard]]
Gp3(key) ==
  [key |-> key, url |-> "u", meters |-> <<3>>, type |-> "gp3", capacity |-> 2, includedIops |-> Gp3Iops,
   perIops |-> {3}, tiers |-> <<>>, includedThroughput |-> Gp3Throughput, perThroughput |-> {5}]
Io2(key, first, second) ==
  [key |-> key, url |-> "u", meters |-> <<4>>, type |-> "io2", capacity |-> 4, includedIops |-> 0,
   perIops |-> {}, includedThroughput |-> 0, perThroughput |-> {},
   tiers |-> <<[upTo |-> {first}, rate |-> 6], [upTo |-> {second}, rate |-> 4], [upTo |-> {}, rate |-> 3]>>]
RdsRate(key) ==
  [key |-> key, url |-> "u", meters |-> <<5>>, instance |-> "db", deployment |-> "single", term |-> "od",
   class |-> "gp3", vcpu |-> 4, memory |-> 16, compute |-> 7, storage |-> 2,
   license |-> [enterprise |-> {3}, standard |-> {2}]]

FullEc2 == <<Ec2Rate(3, "m", {4}, {}), Ec2Rate(1, "t", {}, {}), Ec2Rate(2, "z", {1}, {1})>>
AwsFeed(m, ec2, rds, ebs) == [metadata |-> m, ec2 |-> ec2, rds |-> rds, ebs |-> ebs]
GoodAws == AwsFeed(Meta("fresh", "a", <<4, 1, 3, 2, 1>>), FullEc2, <<RdsRate(6)>>, <<Io2(5, 3, 6), Gp3(4)>>)
MCAwsFeeds ==
  {GoodAws,
   AwsFeed(Meta("stale", "a", <<>>), FullEc2, <<>>, <<Gp3(4)>>),
   AwsFeed(Meta("fresh", "b", <<>>), FullEc2, <<RdsRate(6)>>, <<Gp3(4)>>),
   AwsFeed(Meta("fresh", "a", <<>>), FullEc2, <<RdsRate(6)>>, <<Io2(5, 3, 3), Gp3(4)>>),
   AwsFeed(Meta("fresh", "a", <<>>), FullEc2 \o <<Ec2Rate(1, "m", {4}, {})>>, <<>>, <<Gp3(4)>>)}

OptionNumber ==
  [payg |-> 1, ahb |-> 2] @@ "one-year" :> 3 @@ "ahbone-year" :> 4 @@ "three-year" :> 5
    @@ "ahbthree-year" :> 6 @@ "sv-one-year" :> 7 @@ "ahbsv-one-year" :> 8
OptionOf(n) == CHOOSE o \in MiOptions : OptionNumber[o] = n
MiRate(c, n) ==
  [key |-> 10 * c + n, url |-> "u", meters |-> <<n>>, configuration |-> c, option |-> OptionOf(n),
   compute |-> 14 - n - (IF n % 2 = 0 THEN -1 ELSE 0), license |-> IF n % 2 = 0 THEN 0 ELSE 5,
   storage |-> 2, memory |-> 1]
MiMatrix(c) == [n \in 1..8 |-> MiRate(c, 9 - n)]
VmRate(key, sku, option, hourly, license) ==
  [key |-> key, url |-> "u", meters |-> <<key>>, sku |-> sku, option |-> option, hourly |-> hourly,
   license |-> license, unit |-> "1 Hour", raw |-> hourly]
FullVm ==
  <<VmRate(108, 1, "payg", 9, 3), VmRate(107, 1, "ahb", 6, 0), VmRate(106, 1, "one-year", 7, 3),
    VmRate(105, 1, "ahbone-year", 4, 0), VmRate(104, 2, "payg", 8, 3), VmRate(103, 2, "ahb", 5, 0),
    VmRate(102, 4, "payg", 3, 0), VmRate(101, 5, "payg", 12, 3), VmRate(100, 5, "ahb", 9, 0)>>
DiskRate(key, offer, tier, dimension) ==
  [key |-> key, url |-> "u", meters |-> <<key>>, offer |-> offer, tier |-> tier, dimension |-> dimension,
   rate |-> key - 198, unit |-> "1/Month", raw |-> 1]
FullDisks ==
  <<DiskRate(204, 2, {1}, "capacity_tier"), DiskRate(203, 2, {2}, "capacity_tier"),
    DiskRate(202, 1, {}, "additional_throughput"), DiskRate(201, 1, {}, "additional_iops"),
    DiskRate(200, 1, {}, "capacity_gb")>>
AzureFeed(m, mi, vm, disks) == [metadata |-> m, mi |-> mi, vm |-> vm, disks |-> disks]
FullMi == MiMatrix(1) \o MiMatrix(2) \o MiMatrix(6)
GoodAzure == AzureFeed(Meta("cached", "r", <<4>>), FullMi, FullVm, FullDisks)
MCAzureFeeds ==
  {GoodAzure,
   AzureFeed(Meta("stale", "r", <<>>), MiMatrix(2), FullVm, SubSeq(FullDisks, 4, 5)),
   AzureFeed(Meta("stale", "r", <<>>), FullMi, SubSeq(FullVm, 5, 9), FullDisks),
   AzureFeed(Meta("fresh", "r", <<>>), SubSeq(FullMi, 1, 15), FullVm, FullDisks),
   AzureFeed(Meta("fresh", "r", <<>>), FullMi, <<VmRate(101, 5, "payg", 3, 4)>>, FullDisks)}

-----------------------------------------------------------------------------
(* Projects. *)

Settings(type) ==
  [type |-> type, awsRegion |-> IF type \in AwsTypes THEN {"a"} ELSE {}, azureRegion |-> "r",
   currency |-> "USD",
   discount |-> [sourceCompute |-> IF type = "on_prem" THEN 0 ELSE 1, sourceLicense |-> 2,
                 sourceStorage |-> IF type = "on_prem" THEN 0 ELSE 3,
                 azureCompute |-> 4, azureLicense |-> 5, azureStorage |-> 6, parity |-> 3],
   hours |-> 8, pack |-> [enterprise |-> {8}, standard |-> {2}], coverageMonths |-> {12},
   electricityRate |-> {1},
   sqlPayg |-> IF type = "sql_payg" THEN {[enterprise |-> 2, standard |-> 1, spend |-> 20]} ELSE {}]
Base(type) ==
  [type |-> type, id |-> 1, workload |-> 5, server |-> {}, quantity |-> 2, ram |-> 16, hours |-> 3]
Sql(edition, basis, data, option) ==
  {[edition |-> edition, basis |-> basis, data |-> data, option |-> option]}
Volume(id, type, capacity, iops, throughput, role) ==
  [id |-> id, label |-> 4, awsId |-> {}, type |-> type, capacity |-> capacity, iops |-> iops,
   throughput |-> throughput, role |-> role]
Requirements == DefaultRequirements("m")

Ec2(ram, sql, instance, volume) ==
  [Base("ec2") EXCEPT !.ram = ram]
    @@ [sql |-> sql, instance |-> instance, family |-> instance,
        volumes |-> <<volume, Volume(9, "ephemeral", 30, {}, {}, "unknown")>>]
Ec2Vm(ram, family, option, volumes, req) ==
  [Base("ec2_vm") EXCEPT !.ram = ram]
    @@ [sql |-> {}, instance |-> family, family |-> family, option |-> option, volumes |-> volumes, req |-> req]
Rds(sql, instance, iops) ==
  Base("rds") @@ [sql |-> sql, instance |-> instance, family |-> instance, deployment |-> "single",
                  term |-> "od", class |-> "gp3", iops |-> iops]
OnPrem(ram, vcpu, iops, sql, power) ==
  [Base("on_prem") EXCEPT !.ram = ram]
    @@ [sql |-> sql, vcpu |-> vcpu, cores |-> vcpu + 1, iops |-> iops, capex |-> 10, years |-> 4, power |-> power]

AnySql == Sql("enterprise", "byol", 32, "ahb")
Gp3Volume == Volume(1, "gp3", 30, {5}, {4}, "data")

Ec2Rows ==
  {Ec2(ram, AnySql, "m", Volume(1, type, data, {iops}, {}, "unknown")) :
     ram \in {16, 50}, type \in {"gp3", "io2"}, data \in {0, 1, 30, 33, 70, 300}, iops \in {3, 4, 9, 45}}
    \cup {Ec2(16, Sql(edition, basis, 33, option), "m", Gp3Volume) :
            edition \in {"enterprise", "standard"}, basis \in {"byol", "license_included"},
            option \in PurchaseOptions}
    \cup {Ec2(16, AnySql, "x", Gp3Volume)}
    \cup {[Ec2(16, AnySql, "m", Gp3Volume) EXCEPT !.hours = hours] : hours \in {1, 8}}
VmVolumes(capacity, iops) ==
  <<Volume(1, "gp3", 32, {IF capacity = 30 THEN iops ELSE 12}, {4}, "os"), Volume(2, "gp3", capacity, {iops}, {}, "data")>>
VmRows ==
  {Ec2Vm(16, family, "payg", VmVolumes(capacity, iops), [Requirements EXCEPT !.burst = burst]) :
     family \in {"m", "t", "z"}, capacity \in {30, 32, 61, 90, 200}, iops \in {12, 35, 60},
     burst \in {"unknown", "requires_sustained_cpu", "confirmed_burst_compatible"}}
    \cup {Ec2Vm(ram, "m", option, VmVolumes(30, 12), [Requirements EXCEPT !.wanted = wanted]) :
            ram \in {16, 20, 90}, option \in {"payg", "ahb", "three-year", "one-year"},
            wanted \in {{}, {1}, {2}, {4}}}
    \cup {Ec2Vm(16, "m", "payg", VmVolumes(30, 12),
                [Requirements EXCEPT !.store = "used", !.local = {50}, !.lossAcceptable = {loss}]) :
            loss \in BOOLEAN}
    \cup {Ec2Vm(16, "m", "payg", VmVolumes(30, 12), [Requirements EXCEPT !.store = "unknown"])}
RdsRows ==
  {Rds(Sql(edition, basis, data, "payg"), "db", iops) :
     edition \in {"enterprise", "standard"}, basis \in {"byol", "license_included"},
     data \in {0, 20, 33}, iops \in {10, 50}}
    \cup {Rds(AnySql, "other", 5)}
OnPremRows ==
  {OnPrem(ram, vcpu, iops, Sql("standard", "byol", 64, "payg"), power) :
     ram \in {16, 55, 120}, vcpu \in {1, 4, 6, 12, 20}, iops \in {0, 41, 80, 90}, power \in {{}, {8}}}

Project(type, resources) ==
  [name |-> 4, description |-> {}, settings |-> Settings(type), resources |-> resources,
   awsSnapshotId |-> IF type \in AwsTypes THEN {TRUE} ELSE {}, azureSnapshotId |-> {TRUE}]
RichProjects ==
  {Project(r.type, <<r>>) : r \in Ec2Rows} \cup {Project(r.type, <<r>>) : r \in VmRows}
    \cup {Project(r.type, <<r>>) : r \in RdsRows} \cup {Project(r.type, <<r>>) : r \in OnPremRows}

At2(r) == IF r.type \in {"ec2", "ec2_vm"}
          THEN [r EXCEPT !.id = 2, !.volumes = [i \in DOMAIN r.volumes |-> [r.volumes[i] EXCEPT !.id = 20 + i]]]
          ELSE [r EXCEPT !.id = 2]
AVm == Ec2Vm(16, "m", "payg", VmVolumes(30, 12), Requirements)
PairProjects ==
  {Project("ec2", <<Ec2(16, AnySql, "m", Gp3Volume), At2(Ec2(ram, sql, i, Gp3Volume))>>) :
     ram \in {16, 300}, i \in {"m", "x"}, sql \in {AnySql, Sql("standard", "license_included", 1, "payg")}}
    \cup {Project("ec2_vm", <<AVm, At2(Ec2Vm(16, family, "payg", VmVolumes(90, iops), Requirements))>>) :
            family \in {"m", "x"}, iops \in {12, 35}}
    \cup {Project("ec2", <<Ec2(16, AnySql, "m", Volume(1, "io2", 40, {9}, {}, "unknown"))>>)}
    \cup {Project("rds", <<Rds(AnySql, "db", 9), At2(Rds(AnySql, "other", 9))>>)}

NoSnapshots == {[p EXCEPT !.awsSnapshotId = {}, !.azureSnapshotId = x] : x \in {{}, {FALSE}}, p \in PairProjects}
WithSettings(type, resources, changed) == {[Project(type, resources) EXCEPT !.settings = s] : s \in changed}
\* near misses of the rules, for which a later check would fail
InvalidProjects ==
  LET s == Settings("on_prem")
      r == OnPrem(16, 4, 0, AnySql, {})
      v == Settings("ec2_vm")
  IN WithSettings("on_prem", <<r>>,
                  {[s EXCEPT !.pack.enterprise = {}], [s EXCEPT !.coverageMonths = {}],
                   [s EXCEPT !.electricityRate = {-1}], [s EXCEPT !.discount.sourceCompute = 1]})
       \cup WithSettings("ec2_vm", <<AVm>>, {[v EXCEPT !.discount.parity = 11], [v EXCEPT !.awsRegion = {"b"}]})
       \cup {Project("ec2_vm", <<[AVm EXCEPT !.volumes = vs]>>) :
               vs \in {<<>>, <<AVm.volumes[2]>>, <<AVm.volumes[1], AVm.volumes[1]>>}}
       \cup {Project("ec2_vm", <<[AVm EXCEPT !.ram = 0]>>), Project("ec2_vm", <<AVm, AVm>>),
             Project("on_prem", <<[r EXCEPT !.vcpu = 0]>>), Project("on_prem", <<[r EXCEPT !.years = 0]>>),
             Project("ec2", <<AVm>>), [Project("on_prem", <<r>>) EXCEPT !.awsSnapshotId = {TRUE}],
             Project("ec2_vm", <<[AVm EXCEPT !.req.store = "used"]>>)}
SqlPaygProjects ==
  {[Project("sql_payg", <<>>) EXCEPT !.settings.sqlPayg = {q}, !.settings.hours = h, !.azureSnapshotId = {}] :
     q \in {[enterprise |-> e, standard |-> s, spend |-> x] : e \in {0, 2}, s \in {0, 3}, x \in {0, 20, 8000}},
     h \in {0, 1, 8, 8784, 8785}}

\* valid, with amounts of the largest decimal and above; AWS volumes in PairProjects' feeds too
LargeVolumes ==
  {Project("ec2", <<[Ec2(16, AnySql, "m", Gp3Volume) EXCEPT !.volumes = vs]>>) :
     vs \in {<<Volume(1, "gp3", 60000, {5}, {4}, "data")>>, <<Volume(1, "gp3", 5000, {5}, {4}, "data")>>,
             <<Volume(1, "io2", 30, {9}, {}, "data"), Volume(2, "gp3", 60000, {5}, {4}, "data")>>}}
    \cup {Project("ec2_vm", <<Ec2Vm(16, "m", "payg", VmVolumes(60000, 12), Requirements)>>)}
LargeServers ==
  LET r == OnPrem(16, 4, 0, AnySql, {})
  IN {Project("on_prem", <<x>>) : x \in {[r EXCEPT !.capex = 40000], [r EXCEPT !.capex = 60000], [r EXCEPT !.power = {60000}],
                                        [r EXCEPT !.capex = 40000, !.years = 1, !.hours = 1]}}
       \cup {Project("on_prem", <<x, At2(x)>>) : x \in {[r EXCEPT !.capex = 30000, !.years = 1, !.hours = 8]}}

FewProjects == PairProjects \cup LargeVolumes \cup LargeServers \cup NoSnapshots \cup InvalidProjects \cup SqlPaygProjects
MCProjects == RichProjects \cup FewProjects

MCInit ==
  /\ Init
  /\ \/ expected = {} /\ feed = [aws |-> GoodAws, azure |-> GoodAzure]
     \/ expected = {} /\ project \in PairProjects \cup LargeVolumes
     \/ feed = [aws |-> GoodAws, azure |-> GoodAzure] /\ project \in InvalidProjects
MCSpec == MCInit /\ [][Next]_vars
=============================================================================
