---------------------------- MODULE PriceRetrieval ----------------------------
(***************************************************************************)
(* One refresh of a region's prices: which documents are asked for, in     *)
(* what order answers may arrive, how failures of parts are joined, and    *)
(* the snapshot the parts make (pricing/loader.rs, pricing/live.rs).       *)
(*                                                                         *)
(* A document is a name and a number: the version of an RDS offer, the     *)
(* items skipped by a retail page, else 0.  `got' keeps the response to    *)
(* each, an error or a body; what is wanted next and what a part comes to  *)
(* follow from it.  Whatever a failed part still waited for is dropped.    *)
(***************************************************************************)
EXTENDS EbsPrices, RdsPrices, AzureVmPrices

CONSTANTS
  AwsRegions, AzureRegions,   \* the regions that are priced
  Requests,                   \* what may be refreshed: provider and region
  Responses(_, _),            \* what a provider may answer for a region and document
  PageSize, MaxPages          \* of the retail API

VARIABLES
  asked,    \* the refresh
  got,      \* the responses so far
  answer    \* what the refresh came to, none before it ended
vars == <<asked, got, answer>>

-----------------------------------------------------------------------------
(* Parts: a part waits for documents or has come to a result.              *)

Awaiting(docs) == [wanted |-> docs, result |-> {}]
Ended(result) == [wanted |-> {}, result |-> {result}]
Errors(docs) == UNION {got[d].error : d \in docs \cap DOMAIN got}
Body(d) == CHOOSE b \in got[d].body : TRUE

\* all at once: the first to fail ends it
TryJoin(docs, then) ==
  IF Errors(docs) # {} THEN Ended(Refusal(Errors(docs)))
  ELSE IF docs \subseteq DOMAIN got THEN then ELSE Awaiting(docs \ DOMAIN got)
\* all at once, each with its own outcome
Join(docs, then) == IF docs \subseteq DOMAIN got THEN then ELSE Awaiting(docs \ DOMAIN got)

Error(part) == UNION {r.error : r \in part.result}
\* of two parts the first to fail ends both
TryBoth(p, q, then) ==
  IF Error(p) # {} THEN p ELSE IF Error(q) # {} THEN q
  ELSE IF p.result # {} /\ q.result # {} THEN then ELSE Awaiting(p.wanted \cup q.wanted)

Result(part) == CHOOSE r \in part.result : TRUE
NotEmpty(parsed) == IF parsed.error = {} /\ parsed.records = <<>> THEN Failed("not_found") ELSE parsed

-----------------------------------------------------------------------------
(* EC2: the documents of one publication. *)

Metadata_ == <<"ec2_metadata", 0>>
Selector == <<"ec2_selector", 0>>
Branches == <<Compute, "standard", "enterprise">>
Leaf(branch) == <<branch, 0>>
Leaves == {Leaf(b) : b \in Range(Branches)}

ManifestBad(m, versioned) ==
  ~m.usable \/ m.published = 0 \/ m.version = {0} \/ (versioned /\ m.version = {})
\* seeded fault: what is not versioned fits any publication
SameVersion(expected, actual) == actual.version \subseteq expected.version
SamePublication(expected, actual) ==
  expected.published = actual.published /\ actual.version \subseteq expected.version

MetadataError(doc, region) ==
  IF ManifestBad(doc.manifest, TRUE) THEN {"schema_changed"}
  ELSE IF region \notin doc.locations THEN {"not_found"} ELSE {}

\* a branch is announced once and with something in it
RowError(rows, k) ==
  IF rows[k].branch \notin Range(Branches) THEN {}
  ELSE IF \E j \in 1..(k - 1) : rows[j].branch = rows[k].branch THEN {"schema_changed"}
  ELSE IF rows[k].count = 0 THEN {"not_found"} ELSE {}
SelectorError(doc, manifest) ==
  LET bad == {k \in DOMAIN doc.rows : RowError(doc.rows, k) # {}}
  IN IF ManifestBad(doc.manifest, TRUE) \/ ~SamePublication(manifest, doc.manifest) THEN {"schema_changed"}
     ELSE IF bad # {} THEN RowError(doc.rows, Min(bad))
     ELSE IF Range(Branches) \subseteq {doc.rows[k].branch : k \in DOMAIN doc.rows} THEN {} ELSE {"not_found"}

Ec2Head(region) ==
  LET metadata == MetadataError(Body(Metadata_), region)
  IN IF metadata # {} THEN metadata ELSE SelectorError(Body(Selector), Body(Metadata_).manifest)
Ec2Parsed ==
  IF \E d \in Leaves : \/ ManifestBad(Body(d).manifest, FALSE)
                       \/ ~SamePublication(Body(Metadata_).manifest, Body(d).manifest)
  THEN Failed("schema_changed")
  ELSE NotEmpty(NormalizeEc2([k \in DOMAIN Branches |-> Body(Leaf(Branches[k]))]))
Ec2Part(region) ==
  TryJoin({Metadata_, Selector},
          IF Ec2Head(region) # {} THEN Ended(Refusal(Ec2Head(region)))
          ELSE TryJoin(Leaves, Ended(Ec2Parsed)))

-----------------------------------------------------------------------------
(* RDS: an index leads to the offer of the region's current version.  The  *)
(* licence fees may be absent.                                             *)

Index(offer) == <<offer, 0>>
Offer(offer, version) == <<offer, version>>
IndexError(index, region) ==
  IF ~index.usable THEN {"schema_changed"}
  ELSE IF region \notin DOMAIN index.regions THEN {"not_found"}
  ELSE IF index.regions[region].code # region \/ index.regions[region].version = 0
  THEN {"schema_changed"} ELSE {}
IndexOutcome(offer, region) ==
  IF got[Index(offer)].error # {} THEN got[Index(offer)].error ELSE IndexError(Body(Index(offer)), region)
Current(offer, region) == Offer(offer, Body(Index(offer)).regions[region].version)

\* an offer is projected as it is received
OfferError(offer, d) ==
  IF got[d].error # {} THEN got[d].error ELSE IF OfferRefused(Body(d), offer) THEN {"schema_changed"} ELSE {}
Projected(offer, d) == [url |-> Body(d).url, dims |-> OfferDimensions(Body(d), offer)]

Absent(error) == error = {"not_found"}

\* the offer of the licence fees is read after that of the instances
Fees(region, instances, then(_)) ==
  LET index == IndexOutcome(LicenseOffer, region)
      d == Current(LicenseOffer, region)
  IN IF Absent(index) THEN then({})
     ELSE Join({d}, IF Absent(OfferError(LicenseOffer, d)) THEN then({})
                    ELSE IF OfferError(LicenseOffer, d) # {}
                    THEN Ended(Refusal(OfferError(LicenseOffer, d)))
                    ELSE then({Projected(LicenseOffer, d)}))
RdsPart(region) ==
  LET index == IndexOutcome(RdsOffer, region)
      fees == IndexOutcome(LicenseOffer, region)
      d == Current(RdsOffer, region)
  IN Join({Index(RdsOffer), Index(LicenseOffer)},
          IF index # {} THEN Ended(Refusal(index))
          ELSE IF fees # {} /\ ~Absent(fees) THEN Ended(Refusal(fees))
          ELSE Join({d}, IF OfferError(RdsOffer, d) # {}
                         THEN Ended(Refusal(OfferError(RdsOffer, d)))
                         ELSE Fees(region, d, LAMBDA f : Ended(NotEmpty(NormalizeRds(Projected(RdsOffer, d), f))))))

-----------------------------------------------------------------------------
(* The snapshot of an AWS region: three parts, each to its end. *)

Ebs == <<"ebs", 0>>
EbsPart(region) == TryJoin({Ebs}, Ended(NormalizeEbs(Body(Ebs))))

AllowMissingRds(rds) ==
  IF rds.error = {"not_found"} THEN Parsed(<<>>, {Warning("rds_missing", <<>>)}) ELSE rds

LiveMetadata(region, warnings) ==
  [utc |-> TRUE, status |-> "fresh", currency |-> "USD", region |-> region, version |-> 3,
   warnings |-> Ascending(warnings)]
Answered(snapshot) ==
  [error |-> IF snapshot = {} THEN {"schema_changed"} ELSE {}, snapshot |-> snapshot]
Refused(error) == [error |-> {error}, snapshot |-> {}]

AwsAnswer(region, ec2, rds, ebs) ==
  LET failed == {k \in 1..3 : <<ec2, rds, ebs>>[k].error # {}}
  IN IF failed # {} THEN Refused(CHOOSE e \in <<ec2, rds, ebs>>[Min(failed)].error : TRUE)
     ELSE Answered(AwsSnapshot(LiveMetadata(region, ec2.warnings \cup rds.warnings \cup ebs.warnings),
                               ec2.records, rds.records, ebs.records))
AwsParts(region) == <<Ec2Part(region), RdsPart(region), EbsPart(region)>>
AwsJoined(region, parts) ==
  LET wanted == UNION {parts[k].wanted : k \in 1..3}
  IN IF wanted # {} THEN Awaiting(wanted)
     ELSE Ended(AwsAnswer(region, Result(parts[1]), AllowMissingRds(Result(parts[2])), Result(parts[3])))
AwsRefresh(region) ==
  IF region \notin AwsRegions THEN Ended(Refused("unsupported")) ELSE AwsJoined(region, AwsParts(region))

-----------------------------------------------------------------------------
(* Azure: retail pages are followed link by link. *)

LinkUsable(link) == link.same /\ link.skip % PageSize = 0 /\ link.skip \in PageSize..((MaxPages - 1) * PageSize)
PageBad(page) ==
  \/ page.currency # "USD" \/ page.count # Len(page.items) \/ page.count > PageSize
  \/ \E link \in page.link : page.count = 0 \/ ~LinkUsable(link)

\* the pages from the first, as far as they are linked and read
Pages(service) ==
  FoldLeft(LAMBDA pages, n :
             LET last == pages[Len(pages)]
                 next == IF last \in DOMAIN got /\ got[last].error = {} /\ ~PageBad(Body(last))
                         THEN {<<service, link.skip>> : link \in Body(last).link} \ Range(pages) ELSE {}
             IN pages \o SetToSeq(next),
           <<<<service, 0>>>>, [n \in 1..(MaxPages - 1) |-> n])
AllPages(service, then(_)) ==
  LET pages == Pages(service)
      last == pages[Len(pages)]
  IN TryJoin({last}, IF PageBad(Body(last)) \/ Body(last).link # {} THEN Ended(Failed("schema_changed"))
                     ELSE then([k \in DOMAIN pages |-> Body(pages[k])]))

Calculator == <<"calculator", 0>>
Kept(pages) == [wanted |-> {}, result |-> {[error |-> {}, pages |-> pages]}]
PagesOf(part) == Result(part).pages
SqlPages == AllPages("sql", Kept)
VmPages == AllPages("vm", Kept)
DiskPages == AllPages("disk", Kept)

MiPart(region) ==
  IF region \notin AzureRegions THEN Ended(Failed("unsupported"))
  ELSE IF Configurations(region) = <<>> THEN Ended(Failed("not_found"))
  ELSE TryBoth(TryJoin({Calculator}, Kept(<<>>)), SqlPages,
               Ended(NotEmpty(NormalizeMi(Body(Calculator), Items(PagesOf(SqlPages)), region))))
VmItems == Items(PagesOf(VmPages) \o PagesOf(DiskPages))
VmPart(region) == TryBoth(VmPages, DiskPages, Ended(NormalizeVm(VmItems, region)))
\* machines are priced where some are reviewed
NoVm == Ended(Parsed(<<>>, {}) @@ [disks |-> <<>>])
MachinesPart(region) == IF Expected(region) = {} THEN NoVm ELSE VmPart(region)

AzureAnswer(region, mi, vm) ==
  Answered(AzureSnapshot(LiveMetadata(region, mi.warnings \cup vm.warnings), mi.records, vm.records, vm.disks))
AzureJoined(region, mi, vm) ==
  IF Error(mi) \cup Error(vm) # {}
  THEN Ended(Refused(CHOOSE e \in (IF Error(mi) # {} THEN Error(mi) ELSE Error(vm)) : TRUE))
  ELSE TryBoth(mi, vm, Ended(AzureAnswer(region, Result(mi), Result(vm))))
AzureRefresh(region) == AzureJoined(region, MiPart(region), MachinesPart(region))

-----------------------------------------------------------------------------

Refresh == IF asked.provider = "aws" THEN AwsRefresh(asked.region) ELSE AzureRefresh(asked.region)

Init == /\ asked \in Requests
        /\ got = <<>>
        /\ answer = {}

\* a provider answers one of the documents; nothing more is asked once the refresh ended
Respond(d) ==
  /\ answer = {}
  /\ \E r \in Responses(asked.region, d) : got' = (d :> r) @@ got
  /\ UNCHANGED <<asked, answer>>
Settle ==
  /\ answer = {}
  /\ answer' = Refresh.result /\ answer' # {}
  /\ UNCHANGED <<asked, got>>
\* the refresh as a whole is given up at the deadline of its flight
Deadline ==
  /\ answer = {} /\ Refresh.result = {}
  /\ answer' = {Refused("unavailable")}
  /\ UNCHANGED <<asked, got>>

Next == (\E d \in Refresh.wanted : Respond(d)) \/ Settle \/ Deadline
Spec == Init /\ [][Next]_vars

-----------------------------------------------------------------------------

Snapshots == UNION {a.snapshot : a \in answer}

(* A snapshot is one publication and leaves nothing out.  A provider may   *)
(* publish new prices while a refresh reads the old ones: the EC2 rates,   *)
(* where the price of one document is taken from that of another, are      *)
(* those of the documents of one day.  And a snapshot is made without a    *)
(* document only where the provider has none: RDS or its licence fees, and *)
(* then it says so; where there is no RDS its fees do not matter.  Every   *)
(* page that is linked was read (load_aws_ec2, same_ec2_publication,       *)
(* allow_missing_rds, load_aws_rds, load_azure_retail_pages).              *)
OnePublication(s) ==
  \E day \in {Body(d).manifest.published : d \in Leaves} :
    LET OfDay(d) == {r \in Responses(asked.region, d) :
                       \E body \in r.body : body.manifest.published = day}
    IN \E c \in OfDay(Leaf(Compute)), t \in OfDay(Leaf("standard")), e \in OfDay(Leaf("enterprise")) :
         s.content.ec2 = Canonical(NormalizeEc2([k \in 1..3 |-> CHOOSE b \in <<c, t, e>>[k].body : TRUE]).records)
NothingIsLeftOut(s) ==
  /\ \A d \in DOMAIN got : got[d].error # {} =>
       \/ got[d].error = {"not_found"} /\ d[1] \in {RdsOffer, LicenseOffer}
       \/ d = Index(LicenseOffer) /\ IndexOutcome(RdsOffer, asked.region) = {"not_found"}
  /\ \A d \in DOMAIN got : d[1] \in {"sql", "vm", "disk"} =>
       \A link \in Body(d).link : <<d[1], link.skip>> \in DOMAIN got
  /\ asked.provider = "aws" =>
       /\ s.content.rds = <<>> => Warning("rds_missing", <<>>) \in Range(s.warnings)
       /\ \A r \in Range(s.content.rds) :
            {e \in Editions : \A d \in DOMAIN got : d[1] = LicenseOffer /\ d[2] # 0 =>
                               got[d].error # {} \/ ~\E p \in Body(d).products : p.edition = e}
              \subseteq {e \in Editions : Warning("rds_license", <<Rank[e]>>) \in Range(s.warnings)}
SnapshotIsWhole ==
  \A s \in Snapshots : (asked.provider = "aws" => OnePublication(s)) /\ NothingIsLeftOut(s)

\* an amount of zero in an AWS rate
Free(r) ==
  \/ \E f \in DOMAIN r \cap {"compute", "storage", "capacity"} : r[f] = 0
  \/ \E f \in DOMAIN r \cap {"perIops", "perThroughput"} : r[f] = {0}
  \/ "license" \in DOMAIN r /\ \E e \in Editions : r.license[e] = {0}
  \/ "tiers" \in DOMAIN r /\ \E k \in DOMAIN r.tiers : r.tiers[k].rate = 0
\* options with and without the licence that differ in more than it, or a licence that is free
UnequalPairs(mi) ==
  \E i, j \in DOMAIN mi :
    /\ mi[i].configuration = mi[j].configuration /\ <<mi[i].option, mi[j].option>> \in MiPairs
    /\ mi[i].license = 0 \/ mi[i].compute # mi[j].compute
ExactPairs(vm) ==
  \A i, j \in DOMAIN vm :
    vm[i].sku = vm[j].sku
      /\ <<vm[i].option, vm[j].option>> \in Range(Commitments) \cup {<<"payg", "ahb">>}
      => vm[i].hourly - vm[i].license = vm[j].hourly

Swapped(items, k) == [items EXCEPT ![k] = items[k + 1], ![k + 1] = items[k]]
Reordered(items) == {Reverse(items)} \cup {Swapped(items, k) : k \in 1..(Len(items) - 1)}
RatesOf(rates) == {[f \in DOMAIN rates[k] \ {"url"} |-> rates[k][f]] : k \in DOMAIN rates}
Agree(p, q) == p.error # {} \/ q.error # {} \/ RatesOf(p.records) = RatesOf(q.records)

(* What the parsers accept can be stored: a snapshot checks its rates once *)
(* more, and one that does not pass costs the region all its prices.  The  *)
(* parsers let four things through: a price of zero of AWS, a licence of   *)
(* SQL Managed Instance that is free, an option of it whose compute price  *)
(* is another one under the Hybrid Benefit, and an amount of a virtual     *)
(* machine that loses a digit.  Nothing else stands between parts that     *)
(* succeed and a snapshot (AwsPriceSnapshot::create,                       *)
(* create_with_vm_rates).                                                  *)
ParsedIsStorable ==
  \A a \in answer : a.error = {"schema_changed"} =>
    IF asked.provider = "aws"
    THEN LET parts == AwsParts(asked.region)
             parsed == {Result(parts[1]), AllowMissingRds(Result(parts[2])), Result(parts[3])}
         IN (\A p \in parsed : p.error = {}) => \E p \in parsed : \E r \in Range(p.records) : Free(r)
    ELSE LET mi == MiPart(asked.region)
             vm == MachinesPart(asked.region)
         IN Error(mi) \cup Error(vm) = {} =>
              UnequalPairs(Result(mi).records) \/ ~ExactPairs(Result(vm).records)

(* Azure's pages list items in no order that matters: where the same       *)
(* prices in another order are accepted at all they come to the same rates *)
(* (merge_latest_rate, merge_minimum_rate).                                *)
OrderFree ==
  \A s \in Snapshots : asked.provider = "azure" =>
    /\ \A items \in Reordered(Items(PagesOf(SqlPages))) :
         Agree([records |-> s.content.mi, error |-> {}], NormalizeMi(Body(Calculator), items, asked.region))
    /\ Expected(asked.region) # {} => \A items \in Reordered(VmItems) :
         Agree([records |-> s.content.vm, error |-> {}], NormalizeVm(items, asked.region))

(* A machine under the Azure Hybrid Benefit costs exactly what it costs    *)
(* with the licence, less the licence ("AHB options use the same exact     *)
(* base compute component").                                               *)
HybridBenefitIsExact ==
  (asked.provider = "azure" /\ answer # {} /\ MachinesPart(asked.region).result # {})
    => ExactPairs(Result(MachinesPart(asked.region)).records)
=============================================================================
