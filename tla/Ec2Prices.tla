------------------------------ MODULE Ec2Prices ------------------------------
(***************************************************************************)
(* What EC2 publishes of its Windows instances, three documents that price *)
(* the machine, the machine with SQL Server Standard and with Enterprise   *)
(* (pricing/aws_ec2.rs).  A product (sku) may be priced by several         *)
(* dimensions, which add up; what an edition costs is the difference to    *)
(* the machine alone.                                                      *)
(***************************************************************************)
EXTENDS PriceParsing

CONSTANT MinCores  \* the fewest cores a licence is sold for

Compute == "compute"

-----------------------------------------------------------------------------

\* software a leaf may come with; what the code does not know has no component
Supported(d) == d.market = "on_demand_windows" /\ d.software \in Editions \cup {Compute} /\ ~d.arm

Invalid(d) == d.sku = 0 \/ d.vcpu = 0 \/ d.memory <= 0 \/ d.instance = "" \/ d.unit # "Hrs" \/ d.price < 0

Dimensions(leaves) ==
  UNION {{[dimension |-> d, url |-> leaves[i].url] : d \in {d \in leaves[i].dims : Supported(d)}} :
           i \in DOMAIN leaves}

Product(d) == <<d.dimension.instance, d.dimension.software, d.dimension.vcpu, d.dimension.memory, d.url>>
\* the dimensions of a sku agree, and so do the products of an instance, one for each component
Conflicting(dims) ==
  \E d, e \in dims :
    \/ d.dimension.sku = e.dimension.sku /\ Product(d) # Product(e)
    \/ /\ d.dimension.sku # e.dimension.sku /\ d.dimension.instance = e.dimension.instance
       /\ \/ d.dimension.software = e.dimension.software
          \/ <<d.dimension.vcpu, d.dimension.memory>> # <<e.dimension.vcpu, e.dimension.memory>>

\* the leaves are read in order: the first that cannot be used says why
LeafError(leaf) ==
  IF ~leaf.located THEN {"not_found"}
  ELSE IF \E d \in leaf.dims : Supported(d) /\ Invalid(d) THEN {"schema_changed"} ELSE {}
LeavesError(leaves) ==
  LET bad == {i \in DOMAIN leaves : LeafError(leaves[i]) # {}}
  IN IF bad = {} THEN {} ELSE LeafError(leaves[Min(bad)])

-----------------------------------------------------------------------------

Instances(dims) == {d.dimension.instance : d \in {d \in dims : d.dimension.software = Compute}}
Component(dims, instance, software) ==
  {d.dimension : d \in {d \in dims : d.dimension.instance = instance /\ d.dimension.software = software}}
Hourly(dims, instance, software) == MapThenSumSet(LAMBDA d : d.price, Component(dims, instance, software))
OneOf(dims, instance) == CHOOSE d \in dims : d.dimension.instance = instance
Cores(dims, instance) == Max({OneOf(dims, instance).dimension.vcpu, MinCores})

\* what an edition adds, at most one amount
Delta(dims, instance, edition) ==
  IF Component(dims, instance, edition) = {} THEN {}
  ELSE {Hourly(dims, instance, edition) - Hourly(dims, instance, Compute)}

\* the least that a core costs in the region
Fallback(dims, edition) ==
  LET perCore == UNION {{delta \div Cores(dims, i) : delta \in Delta(dims, i, edition)} : i \in Instances(dims)}
  IN IF perCore = {} THEN {} ELSE {Min(perCore)}

License(dims, instance, edition) ==
  LET own == Delta(dims, instance, edition)
  IN IF own # {} THEN own
     ELSE {Cores(dims, instance) * core : core \in Fallback(dims, edition)}

Ec2Record(dims, instance) ==
  LET of == {d \in dims : d.dimension.instance = instance}
      compute == CHOOSE d \in of : d.dimension.software = Compute
  IN [key |-> Key(1, <<Rank[instance]>>), url |-> compute.url, meters |-> Meters({d.dimension : d \in of}),
      instance |-> instance, vcpu |-> compute.dimension.vcpu, memory |-> compute.dimension.memory,
      compute |-> Hourly(dims, instance, Compute),
      license |-> [e \in Editions |-> License(dims, instance, e)]]

\* an edition of an instance is priced by the region's least core
Ec2Warnings(dims) ==
  {Warning("ec2_fallback", <<Rank[at[1]], Rank[at[2]]>>) :
     at \in {at \in Editions \X Instances(dims) :
                Delta(dims, at[2], at[1]) = {} /\ Fallback(dims, at[1]) # {}}}

NormalizeEc2(leaves) ==
  LET dims == Dimensions(leaves)
      bad == LeavesError(leaves)
  IN IF bad # {} THEN Refusal(bad)
     ELSE IF \/ Conflicting(dims)
             \/ \E i \in Instances(dims), e \in Editions : \E delta \in Delta(dims, i, e) : delta <= 0
          THEN Failed("schema_changed")
     ELSE Parsed(InKeyOrder({Ec2Record(dims, i) : i \in Instances(dims)}), Ec2Warnings(dims))
=============================================================================
