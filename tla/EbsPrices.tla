------------------------------ MODULE EbsPrices ------------------------------
(***************************************************************************)
(* What EBS publishes: a map of meters by region, of which seven are       *)
(* projected onto the dimensions of a gp3 and an io2 rate                  *)
(* (pricing/aws_ebs.rs).                                                   *)
(***************************************************************************)
EXTENDS Ec2Prices

CONSTANT MibPerGib   \* throughput is priced per GiB

\* a range starts and may end; {} when the meter has none
Projection(meter, type, component, begin, end) ==
  [meter |-> meter, type |-> type, component |-> component, begin |-> begin, end |-> end]
Projections ==
  <<Projection("gp3_capacity", "gp3", "capacity", {}, {}),
    Projection("gp3_iops", "gp3", "iops", {Gp3Iops}, {}),
    Projection("gp3_throughput", "gp3", "throughput", {Gp3Throughput}, {}),
    Projection("io2_capacity", "io2", "capacity", {}, {}),
    Projection("io2_tier_1", "io2", "iops", {0}, {FirstLimit}),
    Projection("io2_tier_2", "io2", "iops", {FirstLimit}, {SecondLimit}),
    Projection("io2_tier_3", "io2", "iops", {SecondLimit}, {})>>

Divisor(p) == IF p.component = "throughput" THEN MibPerGib ELSE 1

\* the meters are looked up one after another: the first that is not there or
\* has no usable code or price says why the map is refused
MeterError(map, k) ==
  LET name == Projections[k].meter
      meter == map.meters[name]
      codes == {map.meters[n].code : n \in {Projections[j].meter : j \in 1..(k - 1)} \cap DOMAIN map.meters}
  IN IF name \notin DOMAIN map.meters THEN {"not_found"}
     ELSE IF meter.code = 0 \/ meter.regionless = 0 \/ meter.code \in codes \/ meter.price < 0
     THEN {"schema_changed"} ELSE {}

MapError(map) ==
  LET bad == {k \in DOMAIN Projections : MeterError(map, k) # {}}
  IN IF ~map.manifest THEN {"schema_changed"}
     ELSE IF ~map.located THEN {"not_found"}
     ELSE IF bad # {} THEN MeterError(map, Min(bad)) ELSE {}

\* the selected leaf: what the projections make of the map
EbsDimensions(map) ==
  {LET p == Projections[k] IN
     [type |-> p.type, component |-> p.component, begin |-> p.begin, end |-> p.end,
      code |-> map.meters[p.meter].code, price |-> map.meters[p.meter].price \div Divisor(p)] :
       k \in DOMAIN Projections}

Of(dims, type, component) == {d \in dims : d.type = type /\ d.component = component}
Price(dims, begin) == (CHOOSE d \in dims : d.begin = begin).price

\* two meters of one component and range differ in price or in where it ends
EbsConflict(dims) ==
  \E d, e \in dims : /\ d.type = e.type /\ d.component = e.component
                     /\ d.begin = e.begin \/ d.component # "iops"
                     /\ <<d.begin, d.end, d.price>> # <<e.begin, e.end, e.price>>

\* one rate, none while dimensions are incomplete
Gp3Record(url, dims) ==
  LET capacity == Of(dims, "gp3", "capacity")
      iops == {d \in Of(dims, "gp3", "iops") : d.begin = {Gp3Iops}}
      throughput == Of(dims, "gp3", "throughput")
  IN IF {} \in {capacity, iops, throughput} THEN {}
     ELSE {[key |-> Key(3, <<1>>), url |-> url, meters |-> Meters(capacity \cup iops \cup throughput),
            type |-> "gp3", capacity |-> Price(capacity, {}), includedIops |-> Gp3Iops,
            perIops |-> {Price(iops, {Gp3Iops})}, tiers |-> <<>>,
            includedThroughput |-> Gp3Throughput, perThroughput |-> {Price(throughput, {Gp3Throughput})}]}

Tiers(dims) ==
  <<[upTo |-> {FirstLimit}, rate |-> Price(dims, {0})],
    [upTo |-> {SecondLimit}, rate |-> Price(dims, {FirstLimit})],
    [upTo |-> {}, rate |-> Price(dims, {SecondLimit})]>>

Io2Record(url, dims) ==
  LET capacity == Of(dims, "io2", "capacity")
      iops == Of(dims, "io2", "iops")
  IN IF {} \in {capacity, iops} THEN {}
     ELSE {[key |-> Key(3, <<2>>), url |-> url, meters |-> Meters(capacity \cup iops), type |-> "io2",
            capacity |-> Price(capacity, {}), includedIops |-> 0, perIops |-> {}, tiers |-> Tiers(iops),
            includedThroughput |-> 0, perThroughput |-> {}]}

NormalizeEbs(map) ==
  LET dims == EbsDimensions(map)
      rates == Gp3Record(map.url, dims) \cup Io2Record(map.url, dims)
  IN IF MapError(map) # {} THEN Refusal(MapError(map))
     ELSE IF EbsConflict(dims) THEN Failed("schema_changed")
     ELSE Parsed(InKeyOrder(rates), {})
=============================================================================
