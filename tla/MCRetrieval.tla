----------------------------- MODULE MCRetrieval -----------------------------
(* Refreshes of seven regions, each with a provider that varies in one part  *)
(* of its answers: the publications of EC2, the documents of RDS, the      *)
(* meters of EBS, the pages of the retail API, its items, and the          *)
(* calculator's document.                                                  *)
EXTENDS PriceRetrieval

MCRank ==
  [none |-> 0, standard |-> 1, enterprise |-> 2, single |-> 1, multi |-> 2, gp3 |-> 1, io2 |-> 2, m |-> 1, n |-> 2, db |-> 3,
   next_generation_general_purpose |-> 1, business_critical |-> 2]
    @@ "on-demand" :> 1 @@ "1yr All" :> 2 @@ "3yr All" :> 3 @@ "Premium Series" :> 1 @@ "Standard" :> 2

Given(body) == [error |-> {}, body |-> {body}]
Denied(error) == [error |-> {error}, body |-> {}]
All(bodies) == {Given(b) : b \in bodies}

-----------------------------------------------------------------------------
(* EC2 *)

Manifest(day, version) == [usable |-> TRUE, published |-> day, version |-> version]
MetadataOf(day) == [manifest |-> Manifest(day, {7}), locations |-> {"ec2", "rds", "ebs"}]
Rows == <<[branch |-> "other", count |-> 0], [branch |-> Compute, count |-> 3],
          [branch |-> "standard", count |-> 3], [branch |-> "enterprise", count |-> 3]>>
SelectorOf(day) == [manifest |-> Manifest(day, {7}), rows |-> Rows]

Dim(sku, instance, software, price) ==
  [market |-> "on_demand_windows", software |-> software, arm |-> FALSE, sku |-> sku, vcpu |-> 2, memory |-> 8,
   instance |-> instance, unit |-> "Hrs", price |-> price, code |-> sku]
LeafOf(day, branch, version, price) ==
  [manifest |-> Manifest(day, version), located |-> TRUE, url |-> "u",
   dims |-> CASE branch = Compute -> {Dim(1, "m", Compute, price), Dim(2, "n", Compute, 12),
                                      [Dim(3, "z", Compute, 5) EXCEPT !.arm = TRUE]}
              [] branch = "standard" -> {Dim(4, "m", branch, price + 8)}
              [] OTHER -> {Dim(5, "n", branch, 12 + 4 * day), [Dim(5, "n", branch, 4) EXCEPT !.code = 6]}]
LeafNow(branch) == LeafOf(1, branch, {7}, 12)

Ec2Responses(d) ==
  CASE d = Metadata_ -> All({MetadataOf(1), MetadataOf(2)}) \cup {Denied("unavailable")}
    [] d = Selector -> All({SelectorOf(1), SelectorOf(2), [SelectorOf(1) EXCEPT !.rows = SubSeq(Rows, 1, 3)],
                            [SelectorOf(1) EXCEPT !.rows = Rows \o Rows],
                            [SelectorOf(1) EXCEPT !.manifest.version = {}]})
    [] OTHER -> All({LeafOf(1, d[1], {7}, 12), LeafOf(1, d[1], {}, 12), LeafOf(2, d[1], {7}, 16),
                     LeafOf(2, d[1], {8}, 16)})
Ec2Now(d) ==
  CASE d = Metadata_ -> {Given(MetadataOf(1))}
    [] d = Selector -> {Given(SelectorOf(1))}
    [] OTHER -> {Given(LeafNow(d[1]))}

-----------------------------------------------------------------------------
(* RDS *)

IndexOf(region, version) == [usable |-> TRUE, regions |-> region :> [code |-> region, version |-> version]]
RdsProduct(sku, family, edition) ==
  [at |-> sku, sku |-> sku, edition |-> edition, engine |-> "SQL Server", family |-> family, model |-> "Custom",
   license |-> "none", operation |-> IF edition = "standard" THEN "0405" ELSE "0406", instance |-> "db",
   deployment |-> "single", class |-> "gp3", vcpu |-> 2, memory |-> 8]
Term(sku, type, lease, dims) ==
  [at |-> sku, sku |-> sku, type |-> type, lease |-> lease, plan |-> IF type = "Reserved" THEN "All" ELSE "",
   code |-> sku, dims |-> dims]
Dims(code, unit, price) == {[code |-> code, unit |-> unit, usd |-> {price}]}
OfferOf(offer, products, terms) ==
  [url |-> "u", fields |-> <<"formatVersion", "offerCode", "version", "publicationDate", "products", "terms">>,
   code |-> offer, version |-> 1, dated |-> TRUE, products |-> products, terms |-> terms]
RdsProducts == {RdsProduct(1, "Database Instance", "standard"), RdsProduct(2, "Database Storage", "standard")}
RdsTerms == {Term(1, "OnDemand", "", Dims(1, "Hrs", 6)),
             Term(1, "Reserved", "1yr", Dims(2, "Hrs", 2) \cup Dims(3, "Quantity", 8)),
             Term(2, "OnDemand", "", Dims(4, "GB-Mo", 3))}
RdsNow == OfferOf(RdsOffer, RdsProducts, RdsTerms)
FeesOf(edition) ==
  OfferOf(LicenseOffer, {RdsProduct(5, "Optimized License", edition)},
          {Term(5, "OnDemand", "", Dims(5, "vCPU-Hour", 2))})

RdsResponses(d) ==
  CASE d = Index(RdsOffer) -> All({IndexOf("rds", 1), IndexOf("ec2", 1), IndexOf("rds", 0)})
                                \cup {Denied("not_found"), Denied("unavailable")}
    [] d = Index(LicenseOffer) -> All({IndexOf("rds", 1), IndexOf("ec2", 1)})
                                    \cup {Denied("not_found"), Denied("unavailable")}
    [] d = Offer(RdsOffer, 1) ->
         All({RdsNow,
              [RdsNow EXCEPT !.fields = <<"formatVersion", "offerCode", "version", "publicationDate", "terms", "products">>],
              [RdsNow EXCEPT !.products = {RdsProduct(2, "Database Storage", "standard")}],
              \* two products of one name, at one price and at two
              [RdsNow EXCEPT !.products = @ \cup {RdsProduct(3, "Database Instance", "enterprise")},
                             !.terms = @ \cup {Term(3, "OnDemand", "", Dims(6, "Hrs", 6))}],
              [RdsNow EXCEPT !.products = @ \cup {RdsProduct(3, "Database Instance", "enterprise")},
                             !.terms = @ \cup {Term(3, "OnDemand", "", Dims(6, "Hrs", 9))}],
              [RdsNow EXCEPT !.products = @ \cup {[RdsProduct(3, "Database Instance", "enterprise") EXCEPT !.vcpu = 4]},
                             !.terms = @ \cup {Term(3, "OnDemand", "", Dims(6, "Hrs", 6))}]})
           \cup {Denied("not_found"), Denied("unavailable")}
    [] OTHER -> All({FeesOf("standard"), FeesOf("enterprise"), [FeesOf("standard") EXCEPT !.code = "other"]})
                  \cup {Denied("not_found"), Denied("unavailable")}
RdsSimple(region, d) ==
  CASE d = Index(RdsOffer) -> {Given(IndexOf(region, 1))}
    [] d = Index(LicenseOffer) -> {Denied("not_found")}
    [] OTHER -> {Given(RdsNow)}

-----------------------------------------------------------------------------
(* EBS *)

MeterNames == {Projections[k].meter : k \in DOMAIN Projections}
EbsMap(price) ==
  [manifest |-> TRUE, located |-> TRUE, url |-> "u",
   meters |-> [n \in MeterNames |->
                [code |-> CHOOSE k \in DOMAIN Projections : Projections[k].meter = n, regionless |-> 1,
                 price |-> price[n]]]]
Prices == [n \in MeterNames |-> 2 + 2 * CHOOSE k \in DOMAIN Projections : Projections[k].meter = n]
EbsNow == EbsMap(Prices)
EbsResponses ==
  All({EbsNow, EbsMap([Prices EXCEPT !["io2_tier_2"] = 0]), EbsMap([Prices EXCEPT !["gp3_iops"] = -1]),
       [EbsNow EXCEPT !.meters = [n \in MeterNames \ {"io2_tier_3"} |-> EbsNow.meters[n]]],
       [EbsNow EXCEPT !.meters["gp3_iops"].code = 1], [EbsNow EXCEPT !.located = FALSE]})
    \cup {Denied("not_found"), Denied("unavailable")}

-----------------------------------------------------------------------------
(* Azure *)

Configuration(key, region, tier) ==
  [key |-> key, region |-> region, tier |-> tier, hardware |-> "Premium Series", vcores |-> 4 * key, zoneRedundant |-> FALSE]
MCCatalog == {Configuration(k, r, NextGen) : k \in 1..2, r \in {"pages", "machines", "sql"}}
               \cup {Configuration(3, "sql", "business_critical")}
MCSizes == {[name |-> k, region |-> "machines"] : k \in 1..2}
MCOffers == {[key |-> 1, regions |-> {"machines"}, tiers |-> {}],
             [key |-> 2, regions |-> {"machines"}, tiers |-> {[key |-> 1], [key |-> 2]}]}

Sku(k) == [option \in MiOptions |-> IF option \in UsesAhb THEN <<<<"compute", k>>>>
                                     ELSE <<<<"compute", k>>, <<"license", k>>>>]
CalculatorOf(region) ==
  [url |-> "u", skus |-> [k \in 1..3 |-> Sku(k)],
   offers |-> [compute |-> [type |-> "other", prices |-> [at \in (1..3) \X {region} |-> 6 + at[1]]],
               license |-> [type |-> "software", prices |-> [at \in (1..3) \X {region} |-> 2 * at[1]]]]]
NowhereSold(c) == [c EXCEPT !.offers.license.prices = <<2, "nowhere">> :> 1]

SqlItem(region, tier, meter, rate, date, code) ==
  [service |-> "sql", region |-> region, currency |-> "USD", type |-> "Consumption", tier |-> tier,
   series |-> "Premium Series", meter |-> meter, unit |-> IF meter = "memory" THEN "1 GB/Hour" ELSE "1 GB/Month",
   zone |-> FALSE, rate |-> rate, date |-> date, code |-> code]
Storage(region, rate, code) == SqlItem(region, "general_purpose", "data_stored", rate, 1, code)
Memory(region, rate, date, code) == SqlItem(region, "general_purpose", "memory", rate, date, code)

Link(skip) == {[skip |-> skip, same |-> TRUE]}
Page(items, link) == [url |-> "u", currency |-> "USD", items |-> items, count |-> Len(items), link |-> link]
SqlSimple(region) == {Given(Page(<<Storage(region, 3, 1), Memory(region, 2, 1, 2)>>, {}))}
SqlPageResponses(region, skip) ==
  CASE skip = 0 ->
         All({Page(<<Storage(region, 3, 1), Memory(region, 2, 2, 2)>>, link) : link \in {{}, Link(8), Link(3), Link(16)}})
           \cup All({[Page(<<>>, Link(8)) EXCEPT !.count = 0]}) \cup {Denied("unavailable")}
    [] skip = 8 -> All({Page(<<Storage(region, 2, 3), Memory(region, 5, date, 4)>>, link) :
                          date \in 1..3, link \in {{}, Link(16), Link(8)}}) \cup {Denied("not_found")}
    [] OTHER -> All({Page(<<Storage(region, 2, 5), Memory(region, 2, date, 6)>>, link) :
                       date \in 2..3, link \in {{}, Link(8), Link(24)}})

VmItem(service, sku, price, date, code) ==
  [service |-> service, region |-> "machines", currency |-> "USD", primary |-> TRUE, type |-> "Consumption",
   os |-> "linux", unit |-> "1 Hour", sku |-> sku, discounted |-> FALSE, plans |-> <<>>, term |-> "",
   price |-> price, date |-> date, code |-> code, meter |-> "none", minimum |-> 0]
Linux(sku, price, date) == VmItem("vm", sku, price, date, 10 + sku)
Windows(sku, price, date) == [VmItem("vm", sku, price, date, 20 + sku) EXCEPT !.os = "windows"]
Reservation(sku, price, term) == [VmItem("vm", sku, price, 1, 30 + sku) EXCEPT !.type = "Reservation", !.term = term]
WithPlan(item, term, price) == [item EXCEPT !.plans = <<[term |-> term, price |-> price], [term |-> "other", price |-> -1]>>]
BothMachines == <<WithPlan(Linux(1, 9, 1), "1 Year", 7), Windows(1, 14, 1), Linux(2, 20, 2), Windows(2, 31, 2)>>
MachineFeeds ==
  {BothMachines \o more : more \in
     {<<>>, <<Reservation(1, 14, "1 Year"), Reservation(2, 60, "3 Years")>>, <<Reservation(1, 18, "1 Year")>>,
      <<Linux(1, 8, 2)>>, <<Linux(1, 8, 0)>>, <<Linux(1, 8, 1)>>, <<Linux(2, 22, 1), Windows(2, 40, 1)>>,
      <<Windows(1, 20, 3), Windows(1, 9, 2)>>, <<[Linux(1, 1, 9) EXCEPT !.discounted = TRUE]>>,
      \* with the licence the reserved machine has a digit too many
      <<Linux(2, 17, 9), Windows(2, 50, 9), Reservation(2, 60, "3 Years")>>}}
    \cup {SubSeq(BothMachines, 1, 3), SubSeq(BothMachines, 3, 4), SubSeq(BothMachines, 1, 1),
          <<Linux(1, 9, 1), Windows(1, 9, 1)>>}
Disk(service, sku, price, meter, minimum, unit) ==
  [VmItem(service, sku, price, 1, 50 + sku + minimum) EXCEPT !.unit = unit, !.meter = meter, !.minimum = minimum]
Tier(sku) == Disk("ssd", sku, 4 * sku, "none", 0, "1/Month")
V2(meter, minimum, price) == Disk("ssd_v2", 3, price, meter, minimum, V2Unit[meter])
Disks == <<Tier(1), Tier(2), V2("capacity_gb", 0, 1), V2("additional_iops", 0, 0),
           V2("additional_iops", IncludedIops, 2), V2("additional_throughput", 0, 0),
           V2("additional_throughput", IncludedThroughput, 3)>>
DiskFeeds == {Disks, Tail(Disks), SubSeq(Disks, 1, 6), [Disks EXCEPT ![4].price = 1]}

AzureResponses(region, d) ==
  CASE d[1] = "calculator" ->
         IF region # "sql" THEN {Given(CalculatorOf(region))}
         ELSE LET c == CalculatorOf(region)
              IN All({c, [c EXCEPT !.skus = [k \in 1..2 |-> c.skus[k]]], NowhereSold(c),
                      [c EXCEPT !.skus[1]["ahb"] = c.skus[1]["payg"]],
                      [c EXCEPT !.skus[2]["ahb"] = <<<<"compute", 1>>>>], [c EXCEPT !.skus[2]["payg"] = <<>>],
                      [c EXCEPT !.offers.license.prices[<<2, region>>] = 0]})
                   \cup {Denied("not_found"), Denied("unavailable")}
    [] d[1] = "sql" -> IF region = "pages" THEN SqlPageResponses(region, d[2])
                       ELSE IF region = "sql"
                       THEN All({Page(<<Storage(region, 3, 1), Memory(region, 2, 1, 2),
                                        SqlItem(region, "business_critical", "data_stored", 5, 1, 7)>>, {}),
                                 Page(<<Storage(region, 3, 1), Storage(region, 3, 9)>>, {}),
                                 [Page(<<Storage(region, 3, 1)>>, {}) EXCEPT !.count = 2]})
                       ELSE SqlSimple(region)
    [] d[1] = "vm" -> All({Page(items, {}) : items \in MachineFeeds})
    [] OTHER -> All({Page(items, {}) : items \in DiskFeeds})

MCResponses(region, d) ==
  CASE region = "ec2" -> IF d[1] \in {RdsOffer, LicenseOffer} THEN {Denied("not_found")}
                         ELSE IF d = Ebs THEN {Given(EbsNow)} ELSE Ec2Responses(d)
    [] region = "rds" -> IF d[1] \in {RdsOffer, LicenseOffer} THEN RdsResponses(d)
                         ELSE IF d = Ebs THEN {Given(EbsNow)} ELSE Ec2Now(d)
    [] region = "ebs" -> IF d[1] \in {RdsOffer, LicenseOffer} THEN RdsSimple(region, d)
                         ELSE IF d = Ebs THEN EbsResponses ELSE Ec2Now(d)
    [] OTHER -> AzureResponses(region, d)

MCRequests ==
  {[provider |-> "aws", region |-> r] : r \in {"ec2", "rds", "ebs", "unknown"}}
    \cup {[provider |-> "azure", region |-> r] : r \in {"pages", "machines", "sql", "empty"}}
=============================================================================
