---------------------------- MODULE AzureMiPrices ----------------------------
(***************************************************************************)
(* The prices of SQL Managed Instance (pricing/azure_sql_mi.rs).  The      *)
(* calculator's document sums what a configuration costs under each of the *)
(* eight purchase options from references to offers; storage and memory    *)
(* come from the retail pages.  Where the retail API lists a meter more    *)
(* than once the cheapest storage counts, and the latest price of memory.  *)
(***************************************************************************)
EXTENDS PriceParsing

CONSTANTS
  Catalog    \* the reviewed configurations of SQL Managed Instance

OptionOrder ==
  <<"payg", "ahb", "one-year", "ahbone-year", "three-year", "ahbthree-year", "sv-one-year", "ahbsv-one-year">>

-----------------------------------------------------------------------------
(* Retail items, in the order of their pages, as priced entries.           *)

Entry(key, item, rate) ==
  [key |-> key, rate |-> rate, unit |-> item.unit, date |-> item.date, code |-> item.code, url |-> item.url]
InvalidEntry(e, least) == e.rate < least \/ e.date = 0 \/ e.code = 0

Items(pages) ==
  FlattenSeq([p \in DOMAIN pages |->
               [i \in DOMAIN pages[p].items |-> [url |-> pages[p].url] @@ pages[p].items[i]]])
Keyed(entries, key) == {entries[i] : i \in {i \in DOMAIN entries : entries[i].key = key}}
Keys(entries) == {entries[i].key : i \in DOMAIN entries}

\* seeded fault: the price that came first stays
FirstCome(entries, key) == IF Keyed(entries, key) = {} THEN {}
                           ELSE {entries[Min({i \in DOMAIN entries : entries[i].key = key})]}
\* the entries that were last to take effect; all their meters are kept
Latest(entries, key) == {e \in Keyed(entries, key) : \A o \in Keyed(entries, key) : o.date <= e.date}
\* Entries are merged one by one: two of one date that differ are refused, unless a
\* later one came before the second.
LatestConflict(entries) ==
  \E j \in DOMAIN entries : \E i \in 1..(j - 1) :
    /\ entries[i].key = entries[j].key /\ entries[i].date = entries[j].date
    /\ <<entries[i].rate, entries[i].unit>> # <<entries[j].rate, entries[j].unit>>
    /\ \A k \in 1..(j - 1) : entries[k].key = entries[j].key => entries[k].date <= entries[j].date

Cheapest(entries, key) == {e \in Keyed(entries, key) : \A o \in Keyed(entries, key) : e.rate <= o.rate}
Rate(merged) == (CHOOSE e \in merged : TRUE).rate
\* what is merged keeps the page of the first
FirstUrl(entries, merged) == entries[Min({i \in DOMAIN entries : entries[i] \in merged})].url

-----------------------------------------------------------------------------

Ours(item, region) == item.service = "sql" /\ item.region = region
MiEntries(item, region) ==
  IF ~Ours(item, region) \/ item.type # "Consumption" \/ item.tier = "" THEN <<>>
  ELSE IF item.meter = "data_stored" /\ item.unit = "1 GB/Month"
  THEN <<Entry(<<"storage", item.tier, item.zone>>, item, item.rate)>>
  ELSE IF item.meter = "memory" /\ item.unit = "1 GB/Hour"
          /\ item.tier = "general_purpose" /\ item.series = "Premium Series"
  THEN <<Entry(<<"memory", "any", item.zone>>, item, item.rate)>>
  ELSE <<>>

Retail(items, region) == FlattenSeq([i \in DOMAIN items |-> MiEntries(items[i], region)])
OfMeter(entries, meter) == SelectSeq(entries, LAMBDA e : e.key[1] = meter)
RetailRefused(items, region) ==
  LET entries == Retail(items, region)
  IN \/ \E i \in DOMAIN items : Ours(items[i], region) /\ items[i].currency # "USD"
     \/ \E e \in Range(entries) : InvalidEntry(e, 1)
     \/ LatestConflict(OfMeter(entries, "memory"))

-----------------------------------------------------------------------------
(* The calculator's document. *)

RefError(doc, region, ref) ==
  IF ref[1] \notin DOMAIN doc.offers THEN {"schema_changed"}
  ELSE LET prices == doc.offers[ref[1]].prices IN
       IF <<ref[2], region>> \notin DOMAIN prices THEN {"not_found"}
       ELSE IF prices[<<ref[2], region>>] < 0 THEN {"schema_changed"} ELSE {}

Amount(doc, region, refs, software) ==
  FoldLeft(LAMBDA sum, ref :
             IF (doc.offers[ref[1]].type = "software") = software
             THEN sum + doc.offers[ref[1]].prices[<<ref[2], region>>] ELSE sum, 0, refs)
OptionCompute(doc, region, refs) == Amount(doc, region, refs, FALSE)
OptionLicense(doc, region, refs) == Amount(doc, region, refs, TRUE)

FirstError(seq, Error(_)) ==
  LET bad == {i \in DOMAIN seq : Error(seq[i]) # {}}
  IN IF bad = {} THEN {} ELSE Error(seq[Min(bad)])

\* seeded fault: the hybrid benefit may be sold with a licence
OptionErrorLicensed(doc, region, sku, option) ==
  IF option \notin DOMAIN sku THEN {"schema_changed"}
  ELSE LET refs == sku[option]
           bad == FirstError(refs, LAMBDA ref : RefError(doc, region, ref))
       IN IF bad # {} THEN bad
          ELSE IF refs = <<>> \/ OptionCompute(doc, region, refs) <= 0 THEN {"schema_changed"} ELSE {}

\* the options are composed in order, each from its references in theirs
OptionError(doc, region, sku, option) ==
  IF option \notin DOMAIN sku THEN {"schema_changed"}
  ELSE LET refs == sku[option]
           bad == FirstError(refs, LAMBDA ref : RefError(doc, region, ref))
       IN IF bad # {} THEN bad
          ELSE IF \/ refs = <<>> \/ OptionCompute(doc, region, refs) <= 0
                  \/ option \in UsesAhb /\ OptionLicense(doc, region, refs) # 0
          THEN {"schema_changed"} ELSE {}
ConfigurationError(doc, region, c) ==
  IF c.key \notin DOMAIN doc.skus THEN {"not_found"}
  ELSE FirstError(OptionOrder, LAMBDA option : OptionError(doc, region, doc.skus[c.key], option))

-----------------------------------------------------------------------------

Configurations(region) ==
  SetToSortSeq({c \in Catalog : c.region = region}, LAMBDA a, b : a.key < b.key)

NextGen == "next_generation_general_purpose"
\* next generation storage may be priced as general purpose
StorageOf(entries, c) ==
  LET own == Cheapest(entries, <<"storage", c.tier, c.zoneRedundant>>)
  IN IF own = {} /\ c.tier = NextGen
     THEN Cheapest(entries, <<"storage", "general_purpose", c.zoneRedundant>>) ELSE own
MemoryOf(entries, c) ==
  IF c.tier = NextGen THEN Latest(entries, <<"memory", "any", c.zoneRedundant>>) ELSE {}
\* what a configuration lacks; it is left out with a warning
Lacking(entries, c) ==
  IF StorageOf(entries, c) = {} THEN {Warning("mi_storage", <<c.key>>)}
  ELSE IF c.tier = NextGen /\ MemoryOf(entries, c) = {} THEN {Warning("mi_memory", <<c.key>>)}
  ELSE {}

MiRecord(doc, region, entries, c, n) ==
  LET option == OptionOrder[n]
      refs == doc.skus[c.key][option]
      memory == MemoryOf(entries, c)
  IN [key |-> Key(4, <<Rank[c.tier], Rank[c.hardware], c.vcores, IF c.zoneRedundant THEN 1 ELSE 0, n>>),
      url |-> doc.url, meters |-> Meters(StorageOf(entries, c) \cup memory),
      configuration |-> c.key, option |-> option,
      compute |-> OptionCompute(doc, region, refs), license |-> OptionLicense(doc, region, refs),
      storage |-> Rate(StorageOf(entries, c)), memory |-> IF memory = {} THEN 0 ELSE Rate(memory)]

NormalizeMi(doc, items, region) ==
  LET entries == Retail(items, region)
      sold == Configurations(region)
      bad == FirstError(sold, LAMBDA c : ConfigurationError(doc, region, c))
      priced == {c \in Range(sold) : Lacking(entries, c) = {}}
  IN IF RetailRefused(items, region) THEN Failed("schema_changed")
     ELSE IF bad # {} THEN Refusal(bad)
     ELSE Parsed(InKeyOrder({MiRecord(doc, region, entries, c, n) : c \in priced, n \in DOMAIN OptionOrder}),
                 UNION {Lacking(entries, c) : c \in Range(sold)})
=============================================================================
