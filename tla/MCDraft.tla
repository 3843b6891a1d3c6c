------------------------------- MODULE MCDraft -------------------------------
(* Calls of the draft tool: for each source the resources that give all,   *)
(* none or some of its fields, amounts in every unit, volumes without a    *)
(* type or without IOPS, fields of another source, and notes out of bounds.*)
EXTENDS ProjectDraft, TLC

Gb(value) == [value |-> value, unit |-> "none"]
Measured(value, unit) == [value |-> value, unit |-> unit]
With(r, more) == more @@ r

Call(type, settings, resources) ==
  [type |-> type, selected |-> FALSE, settings |-> settings, resources |-> resources,
   omissions |-> <<"plain">>, uncertainties |-> <<"padded">>]

Ram(amount) == [ram |-> amount]
Volume(type) == [type |-> type]
Sized(amount) == [capacity |-> amount]
Full(type) == With([type |-> type, label |-> 4, awsId |-> 20, capacity |-> Measured(2, "tb")],
                   [iops |-> 16000, throughput |-> 250])
VolumeLists ==
  {<<>>, <<Volume("gp3")>>, <<Volume("io2"), Full("gp3")>>, <<Sized(Measured(1, "tib"))>>,
   <<Full("io2"), Volume("ephemeral")>>, <<Nothing, Sized(Gb(100))>>,
   <<Full("gp3"), Volume("io2"), Volume("gp3")>>, <<Sized(Measured(1, "other"))>>}

Ec2(more) == With([type |-> "ec2"], more)
Vm(more) == With([type |-> "ec2_vm"], more)
Memories == {Nothing, Ram(Gb(64)), Ram(Measured(1, "tib")), Ram(Measured(64, "gib"))}
Machines(type) ==
  {<<>>} \cup {<<With([type |-> type], m)>> : m \in Memories \cup {[instance |-> "t3.large"], [instance |-> "z1d.large"]}}
    \cup {<<With([type |-> type, instance |-> "t3.large"], m), With([type |-> type], n)>> : m, n \in Memories}
    \cup {<<With([type |-> type, volumes |-> v], Ram(Measured(1, "tb")))>> : v \in VolumeLists}
Ec2Calls ==
  {Call("ec2", Nothing, r) : r \in Machines("ec2")}
    \cup {Call("ec2", s, <<With(Ec2(Ram(Gb(8))), more)>>) :
            s \in {Nothing, [awsRegion |-> "us-east-1", sourceCompute |-> 1, hours |-> 8000, option |-> "payg"]},
            more \in {Nothing, [edition |-> "standard", basis |-> "license_included", data |-> Measured(3, "tb"),
                                option |-> "payg", hours |-> 100, quantity |-> 7, workload |-> 9],
                      [quantity |-> 0], [iops |-> 9000], [deployment |-> "multi"], [vmOption |-> "ahb"], [power |-> 1]}}
VmCalls ==
  {Call("ec2_vm", Nothing, r) : r \in Machines("ec2_vm")}
    \cup {Call("ec2_vm", Nothing, <<With(Vm(Ram(Gb(8))), more)>>) :
            more \in {[vmOption |-> "sv-three-year"], [edition |-> "standard"], [data |-> Gb(1)], [cores |-> 4]}}
RdsCalls ==
  {Call("rds", s, r) :
     s \in {Nothing, [azureRegion |-> "uksouth", awsRegion |-> ""]},
     r \in {<<>>, <<[type |-> "rds"]>>, <<With([type |-> "rds"], Ram(Measured(1, "tb")))>>,
            <<[type |-> "rds", instance |-> "db.r5.large", deployment |-> "multi", term |-> "1yr All", class |-> "io2",
               iops |-> 5000, data |-> Measured(2, "tib")]>>,
            <<[type |-> "rds", volumes |-> <<>>]>>, <<[type |-> "rds"], [type |-> "ec2"]>>, <<[type |-> "sql_payg"]>>}}
Packs == {Nothing, [enterprisePack |-> 1], [standardPack |-> 2], [enterprisePack |-> 1, standardPack |-> 2]}
OnPremCalls ==
  {Call("on_prem", s, r) :
     s \in Packs \cup {[enterprisePack |-> 1, standardPack |-> 2, coverageMonths |-> 7, electricityRate |-> 3]},
     r \in {<<>>, <<[type |-> "on_prem", vcpu |-> 8, cores |-> 6, iops |-> 10, capex |-> 5, years |-> 3, power |-> 2,
                     ram |-> Measured(1, "tb")]>>,
            <<[type |-> "on_prem", instance |-> "t3.large"]>>, <<[type |-> "on_prem", years |-> 0]>>}}
PaygCalls ==
  {Call("sql_payg", s, r) :
     s \in {Nothing, [sqlPayg |-> [enterprise |-> 16]], [sqlPayg |-> [standard |-> 8, spend |-> 900]],
            [sqlPayg |-> [spend |-> 1]]},
     r \in {<<>>, <<[type |-> "sql_payg"]>>}}
NoteCalls ==
  {[Call("rds", Nothing, <<>>) EXCEPT !.omissions = o, !.uncertainties = u] :
     o \in {<<>>, <<"padded">>, <<"blank">>}, u \in {<<"plain", "padded">>, <<"plain", "plain", "plain">>, <<"overlong">>}}
    \cup {[Call("ec2", Nothing, <<>>) EXCEPT !.uncertainties = <<"plain", "padded">>]}
Calls_ == Ec2Calls \cup VmCalls \cup RdsCalls \cup OnPremCalls \cup PaygCalls \cup NoteCalls
MCCalls == Calls_ \cup {[c EXCEPT !.selected = TRUE] : c \in NoteCalls}
MCFamily == [n \in {"r6id.8xlarge", "t3.large", "z1d.large"} |-> CASE n = "t3.large" -> "t" [] n = "z1d.large" -> "z" [] OTHER -> "r"]
MCMemories == {Nothing, [n \in {"r6id.8xlarge"} |-> 512], [n \in {"r6id.8xlarge", "t3.large", "z1d.large"} |-> 32]}
=============================================================================
