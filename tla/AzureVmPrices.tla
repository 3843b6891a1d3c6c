---------------------------- MODULE AzureVmPrices ----------------------------
(***************************************************************************)
(* The prices of virtual machines and managed disks, from the pages of the *)
(* retail API (pricing/azure_vm.rs).  Linux is the price of the machine,   *)
(* Windows less Linux that of the licence; a commitment prices the machine *)
(* under a reservation, paid at once and spread over its term, or under a  *)
(* savings plan nested in the Linux item.                                  *)
(*                                                                         *)
(* An amount has at most 28 digits: a sum of Wide or more loses its last   *)
(* one.                                                                    *)
(***************************************************************************)
EXTENDS AzureMiPrices

CONSTANTS
  Sizes,                        \* the reviewed virtual machine sizes
  Offers,                       \* the reviewed managed disk offers
  PremiumSsd, PremiumSsdV2,     \* the names of the two offers that are priced
  IncludedIops, IncludedThroughput,  \* where the second tier of a v2 price begins
  MonthHours, Wide

\* the licence that goes with each way of paying for the machine
Commitments ==
  <<<<"one-year", "ahbone-year">>, <<"three-year", "ahbthree-year">>,
    <<"sv-one-year", "ahbsv-one-year">>, <<"sv-three-year", "ahbsv-three-year">>>>
Terms == {"1 Year", "3 Years"}
Reserved(term) == IF term = "1 Year" THEN "one-year" ELSE "three-year"
Planned(term) == IF term = "1 Year" THEN "sv-one-year" ELSE "sv-three-year"

Rounded(amount) == IF amount < Wide THEN amount ELSE 10 * ((amount + 5) \div 10)

InRegion(catalogued, region) == {s.name : s \in {s \in catalogued : s.region = region}}
Expected(region) == InRegion(Sizes, region)
Sold(offer, region) == \E o \in Offers : o.key = offer /\ region \in o.regions
ExpectedTiers == {t.key : t \in (CHOOSE o \in Offers : o.key = PremiumSsd).tiers}

-----------------------------------------------------------------------------
(* Entries, as in AzureMiPrices. *)

Wanted(item, region) == item.region = region /\ item.currency = "USD" /\ item.primary
OfMachine(item, region) ==
  item.service = "vm" /\ item.unit = "1 Hour" /\ item.sku \in Expected(region) /\ ~item.discounted
V2Unit == [capacity_gb |-> "1 GiB/Hour", additional_iops |-> "1/Hour", additional_throughput |-> "1/Hour"]

VmEntries(item, region) ==
  IF ~Wanted(item, region) THEN <<>>
  ELSE IF OfMachine(item, region) /\ item.type = "Consumption" /\ item.os = "windows"
  THEN <<Entry(<<"windows", item.sku>>, item, item.price)>>
  ELSE IF OfMachine(item, region) /\ item.type = "Consumption"
  THEN LET plans == SelectSeq(item.plans, LAMBDA plan : plan.term \in Terms)
       IN [k \in DOMAIN plans |-> Entry(<<Planned(plans[k].term), item.sku>>, item, plans[k].price)]
            \o <<Entry(<<"linux", item.sku>>, item, item.price)>>
  ELSE IF OfMachine(item, region) /\ item.type = "Reservation" /\ item.os # "windows" /\ item.term \in Terms
  THEN <<Entry(<<Reserved(item.term), item.sku>>, item,
               Rounded(item.price \div (IF item.term = "1 Year" THEN YearHours ELSE 3 * YearHours)))>>
  ELSE IF /\ item.service = "ssd" /\ item.type = "Consumption" /\ item.unit = "1/Month"
          /\ item.sku \in ExpectedTiers
  THEN <<Entry(<<"tier", item.sku>>, item, item.price)>>
  ELSE IF /\ item.service = "ssd_v2" /\ item.type = "Consumption"
          /\ item.meter \in DOMAIN V2Unit /\ item.unit = V2Unit[item.meter]
  THEN <<Entry(<<item.meter, item.minimum>>, item, item.price)>>
  ELSE <<>>

Priced(items, region) == FlattenSeq([i \in DOMAIN items |-> VmEntries(items[i], region)])
\* only the tiers of a v2 price may be free
EntriesRefused(entries) ==
  \/ \E e \in Range(entries) : InvalidEntry(e, IF e.key[1] \in DOMAIN V2Unit THEN 0 ELSE 1)
  \/ LatestConflict(entries)

-----------------------------------------------------------------------------
(* Machines. *)

PairComplete(entries, sku) == {<<"linux", sku>>, <<"windows", sku>>} \subseteq Keys(entries)
PriceOf(entries, name, sku) == Rate(Latest(entries, <<name, sku>>))
WindowsLicense(entries, sku) == PriceOf(entries, "windows", sku) - PriceOf(entries, "linux", sku)
Committed(entries, sku) ==
  {n \in DOMAIN Commitments : <<Commitments[n][1], sku>> \in Keys(entries)}

VmRefused(entries, sku) ==
  /\ PairComplete(entries, sku)
  /\ \/ WindowsLicense(entries, sku) <= 0
     \/ \E n \in Committed(entries, sku) :
          PriceOf(entries, Commitments[n][1], sku) >= PriceOf(entries, "linux", sku)

VmRecord(entries, sku, paid, option, n, license) ==
  LET machine == Latest(entries, <<paid, sku>>)
      hourly == Rounded(Rate(machine) + license)
  IN [key |-> Key(5, <<sku, n>>), url |-> FirstUrl(entries, machine),
      meters |-> Meters(machine \cup Latest(entries, <<"windows", sku>>)),
      sku |-> sku, option |-> option, hourly |-> hourly, license |-> license,
      unit |-> "1 Hour", raw |-> hourly]
\* the machine with the licence and without
VmOptionPair(entries, sku, paid, pair, n) ==
  {VmRecord(entries, sku, paid, pair[1], n, WindowsLicense(entries, sku)),
   VmRecord(entries, sku, paid, pair[2], n + 1, 0)}
VmRecords(entries, region) ==
  UNION {VmOptionPair(entries, sku, "linux", <<"payg", "ahb">>, 0)
           \cup UNION {VmOptionPair(entries, sku, Commitments[n][1], Commitments[n], 2 * n) :
                         n \in Committed(entries, sku)} :
           sku \in {sku \in Expected(region) : PairComplete(entries, sku)}}

VmWarnings(entries, region) ==
  {Warning("vm_pair", <<sku>>) : sku \in {sku \in Expected(region) : ~PairComplete(entries, sku)}}
    \cup {Warning("vm_commitment", at) :
            at \in {at \in Expected(region) \X DOMAIN Commitments :
                     PairComplete(entries, at[1]) /\ at[2] \notin Committed(entries, at[1])}}

-----------------------------------------------------------------------------
(* Disks. *)

V2Dimensions ==
  <<[name |-> "capacity_gb", from |-> 0], [name |-> "additional_iops", from |-> IncludedIops],
    [name |-> "additional_throughput", from |-> IncludedThroughput]>>
\* what is included is free, what comes on top is not
V2Error(entries, d) ==
  LET At(minimum) == Latest(entries, <<d.name, minimum>>)
  IN IF d.from > 0 /\ At(0) = {} THEN {"not_found"}
     ELSE IF d.from > 0 /\ Rate(At(0)) # 0 THEN {"schema_changed"}
     ELSE IF At(d.from) = {} THEN {"not_found"}
     ELSE IF Rate(At(d.from)) <= 0 THEN {"schema_changed"} ELSE {}

DiskRecord(entries, key, name, offer, tier, dimension, hours) ==
  LET paid == Latest(entries, name)
      e == CHOOSE e \in paid : TRUE
  IN [key |-> key, url |-> FirstUrl(entries, paid), meters |-> Meters(paid), offer |-> offer, tier |-> tier,
      dimension |-> dimension, rate |-> e.rate * hours, unit |-> e.unit, raw |-> e.rate]
DiskRecords(entries) ==
  {DiskRecord(entries, Key(6, <<tier>>), <<"tier", tier>>, PremiumSsd, {tier}, "capacity_tier", 1) :
     tier \in ExpectedTiers}
    \cup {DiskRecord(entries, Key(7, <<k>>), <<V2Dimensions[k].name, V2Dimensions[k].from>>,
                     PremiumSsdV2, {}, V2Dimensions[k].name, MonthHours) : k \in DOMAIN V2Dimensions}

-----------------------------------------------------------------------------

VmScope(region) == Expected(region) # {} /\ Sold(PremiumSsd, region) /\ Sold(PremiumSsdV2, region)

\* the rates of machines; those of disks are beside them
NormalizeVm(items, region) ==
  LET entries == Priced(items, region)
      disks == FirstError(V2Dimensions, LAMBDA d : V2Error(entries, d))
      Nothing(error) == Failed(error) @@ [disks |-> <<>>]
  IN IF ~VmScope(region) THEN Nothing("unsupported")
     ELSE IF EntriesRefused(entries) \/ \E sku \in Expected(region) : VmRefused(entries, sku)
     THEN Nothing("schema_changed")
     ELSE IF \/ VmRecords(entries, region) = {}
             \/ \E tier \in ExpectedTiers : <<"tier", tier>> \notin Keys(entries)
     THEN Nothing("not_found")
     ELSE IF disks # {} THEN Nothing(CHOOSE e \in disks : TRUE)
     ELSE Parsed(InKeyOrder(VmRecords(entries, region)), VmWarnings(entries, region))
            @@ [disks |-> InKeyOrder(DiskRecords(entries))]
=============================================================================
