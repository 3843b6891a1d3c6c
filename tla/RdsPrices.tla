------------------------------ MODULE RdsPrices ------------------------------
(***************************************************************************)
(* What RDS publishes of SQL Server, an offer of instances and storage and *)
(* one of licence fees, each read as a stream and projected onto the       *)
(* dimensions that matter (pricing/aws_rds.rs).  Every instance is priced  *)
(* with every storage class of its deployment.                             *)
(***************************************************************************)
EXTENDS Ec2Prices

CONSTANTS
  StandardFee, EnterpriseFee  \* what a core costs where no licence fee is published

RdsOffer == "AmazonRDS"
LicenseOffer == "AmazonRDSOCPULicenseFees"

-----------------------------------------------------------------------------
(* The projection of one offer document.                                   *)

RequiredFields == {"formatVersion", "offerCode", "version", "publicationDate", "terms"}

\* fields come once, and products before the terms that refer to them
FieldsFit(fields) ==
  LET named == {i \in DOMAIN fields : fields[i] \in RequiredFields \cup {"products"}}
  IN /\ \A i, j \in named : fields[i] = fields[j] => i = j
     /\ RequiredFields \subseteq Range(fields)
     /\ \A i \in named : fields[i] = "terms" => \E j \in named : j < i /\ fields[j] = "products"

CustomerProvidedMedia(p) ==
  \/ p.license = "Bring your own media"
  \/ p.model = "Custom" /\ <<p.edition, p.operation>> \in {<<"standard", "0405">>, <<"enterprise", "0406">>}

Selected(offer, p) ==
  /\ p.edition \in Editions /\ p.engine = "SQL Server"
  /\ \/ offer = RdsOffer /\ p.family = "Database Instance" /\ CustomerProvidedMedia(p)
     \/ offer = RdsOffer /\ p.family = "Database Storage"
     \/ offer = LicenseOffer /\ p.family = "Optimized License"

SelectedProducts(doc, offer) == {p \in doc.products : Selected(offer, p)}
OfferTerms(doc, offer) ==
  {t \in doc.terms : t.type \in {"OnDemand", "Reserved"} /\ t.at \in {p.sku : p \in SelectedProducts(doc, offer)}}

\* what a streaming reader trips over, and what the manifest must say
OfferRefused(doc, offer) ==
  \/ ~FieldsFit(doc.fields)
  \/ \E p \in doc.products : p.sku # p.at
  \/ \E t \in OfferTerms(doc, offer) : t.sku # t.at \/ \E d \in t.dims : d.usd = {}
  \/ doc.code # offer \/ doc.version = 0 \/ ~doc.dated

\* a dimension knows its product and its term
OfferDimensions(doc, offer) ==
  UNION {{[product |-> CHOOSE p \in SelectedProducts(doc, offer) : p.sku = t.at, term |-> t,
           code |-> d.code, unit |-> d.unit, price |-> CHOOSE x \in d.usd : TRUE] : d \in t.dims} :
          t \in OfferTerms(doc, offer)}

-----------------------------------------------------------------------------
(* Instances.                                                              *)

IsCompute(d) == /\ d.product.family = "Database Instance"
                /\ d.product.model = "Custom" \/ d.product.license = "Bring your own media"
IsStorage(d) == d.product.family = "Database Storage"
IsLicense(d) == d.product.family = "Optimized License"

Deployments == {"single", "multi"}
TermKnown(t) == t.type = "Reserved" => t.lease \in {"1yr", "3yr"} /\ t.plan # ""
CommercialTerm(t) == IF t.type = "OnDemand" THEN "on-demand" ELSE t.lease \o " " \o t.plan
Hours(t) == CASE t.type = "OnDemand" -> 1 [] t.lease = "1yr" -> YearHours [] OTHER -> 3 * YearHours

ComputeInvalid(d) ==
  \/ d.product.instance = "" \/ d.product.deployment \notin Deployments \/ ~TermKnown(d.term)
  \/ d.product.vcpu = 0 \/ d.product.memory <= 0 \/ d.price < 0
  \/ ~(d.unit = "Hrs" \/ (d.unit = "Quantity" /\ d.term.type = "Reserved"))

OfferKey(d) == <<d.product.sku, d.term.code, CommercialTerm(d.term)>>
\* the hourly price of an offer: what recurs and the share of what is paid at once
EffectiveHourly(of) ==
  LET hours == Hours((CHOOSE d \in of : TRUE).term)
  IN MapThenSumSet(LAMBDA d : d.price, {d \in of : d.unit = "Hrs"})
       + (MapThenSumSet(LAMBDA d : d.price, {d \in of : d.unit = "Quantity"}) \div hours)

\* the offers, one for each product and term, in the order of their keys
Offered(compute) ==
  {LET of == {e \in compute : OfferKey(e) = OfferKey(d)}
   IN [sku |-> d.product.sku, code |-> d.term.code,
       name |-> <<d.product.instance, d.product.deployment, CommercialTerm(d.term)>>,
       size |-> <<d.product.vcpu, d.product.memory>>,
       hourly |-> EffectiveHourly(of), meters |-> {e.code : e \in of}] : d \in compute}
Named(compute, name) ==
  SetToSortSeq({o \in Offered(compute) : o.name = name},
               LAMBDA a, b : a.sku < b.sku \/ (a.sku = b.sku /\ a.code < b.code))

\* The offers of one instance, deployment and term are folded in order.  While they
\* cost the same they must have one size; from the first that costs something else
\* on, none is looked at and the instance is left out.
Differing(offers) == {k \in DOMAIN offers : offers[k].hourly # offers[1].hourly}
SizeConflict(offers) ==
  \E k \in DOMAIN offers : (\A j \in Differing(offers) : k <= j) /\ offers[k].size # offers[1].size

-----------------------------------------------------------------------------
(* Storage and licences.                                                   *)

StorageInvalid(d) ==
  \/ d.term.type # "OnDemand" \/ d.unit # "GB-Mo" \/ d.price < 0
  \/ d.product.deployment \notin Deployments \/ d.product.class = ""
LicenseInvalid(d) == d.term.type # "OnDemand" \/ d.unit # "vCPU-Hour" \/ d.price <= 0

StorageName(d) == <<d.product.deployment, d.product.class>>
TwoPrices(dims, Name(_)) == \E d, e \in dims : Name(d) = Name(e) /\ d.price # e.price

\* the published fee of an edition, else the fixed one
Fee(licenses, edition) ==
  LET of == {d \in licenses : d.product.edition = edition}
  IN IF of # {} THEN (CHOOSE d \in of : TRUE).price
     ELSE IF edition = "standard" THEN StandardFee ELSE EnterpriseFee

-----------------------------------------------------------------------------

RdsRecord(url, offers, s, storage, licenses) ==
  LET c == offers[1]
      class == {d \in storage : StorageName(d) = s}
  IN [key |-> Key(2, <<Rank[c.name[1]], Rank[c.name[2]], Rank[c.name[3]], Rank[s[2]]>>), url |-> url,
      meters |-> Ascending((UNION {offers[k].meters : k \in DOMAIN offers})
                             \cup {d.code : d \in class \cup licenses}),
      instance |-> c.name[1], deployment |-> c.name[2], term |-> c.name[3], class |-> s[2],
      vcpu |-> c.size[1], memory |-> c.size[2], compute |-> c.hourly,
      storage |-> (CHOOSE d \in class : TRUE).price,
      license |-> [e \in Editions |-> {Fee(licenses, e)}]]

\* leaf: the projected RDS offer; fees: that of the licence fees, if it was found
NormalizeRds(leaf, fees) ==
  LET compute == {d \in leaf.dims : IsCompute(d)}
      storage == {d \in leaf.dims : IsStorage(d)}
      licenses == {d \in UNION {f.dims : f \in fees} : IsLicense(d)}
      names == {o.name : o \in Offered(compute)}
      priced == {n \in names : Differing(Named(compute, n)) = {}}
      classes(n) == {s \in {StorageName(d) : d \in storage} : s[1] = n[2]}
  IN IF \/ \E d \in compute : ComputeInvalid(d)
        \/ \E d \in storage : StorageInvalid(d)
        \/ \E d \in licenses : LicenseInvalid(d)
        \/ TwoPrices(storage, StorageName) \/ TwoPrices(licenses, LAMBDA d : d.product.edition)
        \/ \E n \in names : SizeConflict(Named(compute, n))
     THEN Failed("schema_changed")
     ELSE Parsed(InKeyOrder(UNION {{RdsRecord(leaf.url, Named(compute, n), s, storage, licenses) :
                                       s \in classes(n)} : n \in priced}),
                 {Warning("rds_conflict", [k \in 1..3 |-> Rank[n[k]]]) : n \in names \ priced}
                   \cup {Warning("rds_storage", [k \in 1..2 |-> Rank[n[k]]]) : n \in {n \in priced : classes(n) = {}}}
                   \cup {Warning("rds_license", <<Rank[e]>>) :
                           e \in Editions \ {d.product.edition : d \in licenses}})
=============================================================================
