---------------------------- MODULE ProjectDraft ----------------------------
(***************************************************************************)
(* How the assistant turns what it saw in a chat or an image into a new    *)
(* unsaved project (the tool stage_new_project_draft, assistant/tools.rs). *)
(*                                                                         *)
(* The arguments come from a model: they are read and refused, or brought  *)
(* to gigabytes (Read); the source memory of EC2 machines is looked up in  *)
(* the AWS prices, which may be missing (Look); and the draft is built,    *)
(* validated and reported with what was assumed (Stage).                   *)
(*                                                                         *)
(* Arguments, settings, resources and volumes are records that hold only   *)
(* the fields that were given.  An amount is a value and its unit, "none"  *)
(* for a bare number.  A new identifier is the place it was made for.      *)
(***************************************************************************)
EXTENDS ProjectRules

CONSTANTS
  Calls,           \* the calls of the tool that are looked at
  CatalogMemories, \* what the AWS prices may know: functions from instances to gigabytes
  InstanceFamily,  \* the family a machine's name starts with
  MaxNotes         \* MAX_EXTRACTION_NOTES

VARIABLES
  draftStep,  \* "called", "read", "looked" or "answered"
  call,       \* the call as the model wrote it
  arguments,  \* the call as it was read
  memory,     \* the catalogued memory of the instances whose price is known
  report      \* the outcome of the tool

draftVars == <<draftStep, call, arguments, memory, report>>

Nothing == [f \in {} |-> f]   \* a record without fields
DefaultInstance == "r6id.8xlarge"
MachineTypes == {"ec2", "ec2_vm"}
Or(r, f, value) == IF f \in DOMAIN r THEN r[f] ELSE value
Optional(r, f) == IF f \in DOMAIN r THEN {r[f]} ELSE {}
OrElse(values, value) == IF values = {} THEN {value} ELSE values

-----------------------------------------------------------------------------
(* Reading the arguments. *)

SqlFields == {"edition", "basis", "data", "option"}
SourceFields ==
  [ec2 |-> {"instance", "volumes"}, ec2_vm |-> {"instance", "volumes", "vmOption"},
   rds |-> {"instance", "deployment", "term", "class", "iops"},
   on_prem |-> {"vcpu", "cores", "iops", "capex", "years", "power"}]
\* the fields a resource may carry in the schema a scoped turn shows the model
Scope(type) ==
  {"type", "workload", "quantity", "ram", "hours"} \cup SourceFields[type]
    \cup (IF type = "ec2_vm" THEN {} ELSE SqlFields)

RdsFields == {"deployment", "term", "class"}
OnPremFields == {"vcpu", "cores", "capex", "years", "power"}
\* the fields whose presence makes a resource one of another source
ForeignFields ==
  [ec2 |-> RdsFields \cup OnPremFields \cup {"vmOption"},
   ec2_vm |-> RdsFields \cup OnPremFields \cup SqlFields,
   rds |-> {"volumes", "vmOption"} \cup OnPremFields,
   on_prem |-> {"instance", "volumes", "vmOption"} \cup RdsFields]
FieldsMatch(r) == r.type # "sql_payg" /\ DOMAIN r \cap ForeignFields[r.type] = {}

InGb(amount) == IF amount.unit \in {"tb", "tib"} THEN 1024 * amount.value ELSE amount.value
Amounts(r) ==
  {r[f] : f \in DOMAIN r \cap {"ram", "data"}}
    \cup UNION {Optional(Or(r, "volumes", <<>>)[j], "capacity") : j \in DOMAIN Or(r, "volumes", <<>>)}
VolumeInGb(v) == [f \in DOMAIN v |-> IF f = "capacity" THEN InGb(v[f]) ELSE v[f]]
ResourceInGb(r) ==
  [f \in DOMAIN r |-> CASE f \in {"ram", "data"} -> InGb(r[f])
                        [] f = "volumes" -> [j \in DOMAIN r.volumes |-> VolumeInGb(r.volumes[j])]
                        [] OTHER -> r[f]]

NotesFit(notes) ==
  Len(notes) <= MaxNotes /\ \A i \in DOMAIN notes : notes[i] \notin {"blank", "overlong", "control"}
Trimmed(notes) == [i \in DOMAIN notes |-> IF notes[i] = "padded" THEN "plain" ELSE notes[i]]

\* why the arguments are refused, "none" when they are not
Refusal(c) ==
  IF \E i \in DOMAIN c.resources : \E a \in Amounts(c.resources[i]) : a.unit = "other" THEN "variant"
  ELSE IF ~NotesFit(c.omissions) \/ ~NotesFit(c.uncertainties) THEN "notes"
  ELSE IF \E i \in DOMAIN c.resources :
            c.resources[i].type # c.type \/ ~FieldsMatch(c.resources[i]) THEN "mismatch"
  ELSE "none"

-----------------------------------------------------------------------------
(* The draft. *)

NewSqlPayg(q) ==
  [enterprise |-> Or(q, "enterprise", 0), standard |-> Or(q, "standard", 0), spend |-> Or(q, "spend", 0)]

NewSettings(type, s) ==
  LET priced(given, reference) == IF type = "on_prem" THEN OrElse(given, reference) ELSE given
  IN [type |-> type,
      awsRegion |-> IF type \in AwsTypes THEN {Or(s, "awsRegion", "eu-west-1")} ELSE {},
      azureRegion |-> Or(s, "azureRegion", "swedencentral"),
      currency |-> "USD",
      discount |-> [d \in Discounts |-> Or(s, d, 0)],
      hours |-> Or(s, "hours", 8760),
      option |-> Or(s, "option", "ahb"),
      pack |-> [enterprise |-> priced(Optional(s, "enterprisePack"), 20557),
                standard |-> priced(Optional(s, "standardPack"), 5363)],
      coverageMonths |-> priced(Optional(s, "coverageMonths"), 12),
      electricityRate |-> priced(Optional(s, "electricityRate"), 0),
      sqlPayg |-> IF type = "sql_payg" THEN {NewSqlPayg(Or(s, "sqlPayg", Nothing))} ELSE {}]

AssumedIops(type) == CASE type = "gp3" -> {3000} [] type = "io2" -> {100} [] OTHER -> {}

\* the j-th volume of the i-th resource; what is not said to be persistent is instance storage
NewVolume(v, i, j) ==
  LET type == Or(v, "type", "ephemeral")
  IN [id |-> <<i, j>>, label |-> Or(v, "label", Len("Instance storage")), awsId |-> Optional(v, "awsId"),
      type |-> type, capacity |-> Or(v, "capacity", 0),
      iops |-> IF "iops" \in DOMAIN v THEN {v.iops} ELSE AssumedIops(type),
      throughput |-> Optional(v, "throughput"), role |-> "none"]

\* the first disk holds the system, and the system is never on instance storage
NewVmVolume(v, i, j) ==
  LET system == j = 1
      named == [f \in DOMAIN v \cup {"label"} |->
                  IF f \in DOMAIN v THEN v[f] ELSE Len(IF system THEN "OS disk" ELSE "Data disk")]
      typed == IF system THEN [f \in DOMAIN named \cup {"type"} |->
                                 IF f \in DOMAIN named THEN named[f] ELSE "gp3"]
               ELSE named
  IN [NewVolume(typed, i, j) EXCEPT !.role = IF system THEN "os" ELSE "data"]

InstanceOf(r) == Or(r, "instance", DefaultInstance)

NewResource(r, i, known) ==
  LET catalogued == IF r.type \in MachineTypes THEN Optional(known, InstanceOf(r)) ELSE {}
      shared ==
        [type |-> r.type, id |-> i,
         workload |-> Or(r, "workload", Len(IF r.type = "ec2_vm" THEN "Virtual machine" ELSE "SQL workload")),
         server |-> {}, quantity |-> Or(r, "quantity", 1),
         ram |-> Or(r, "ram", CHOOSE gb \in OrElse(catalogued, IF r.type = "rds" THEN 128 ELSE 256) : TRUE),
         hours |-> Or(r, "hours", 8760)]
      sql == {[edition |-> Or(r, "edition", "enterprise"), basis |-> Or(r, "basis", "byol"),
               data |-> Or(r, "data", 1024), option |-> Or(r, "option", "ahb")]}
      volumes == Or(r, "volumes", <<>>)
      specific ==
        CASE r.type = "ec2" ->
               [sql |-> sql, instance |-> InstanceOf(r),
                volumes |-> IF "volumes" \in DOMAIN r
                            THEN [j \in DOMAIN volumes |-> NewVolume(volumes[j], i, j)]
                            ELSE <<NewVolume(Nothing, i, 1)>>]
          [] r.type = "ec2_vm" ->
               [sql |-> {}, instance |-> InstanceOf(r), option |-> Or(r, "vmOption", "payg"),
                req |-> DefaultRequirements(InstanceFamily[InstanceOf(r)]),
                volumes |-> IF volumes # <<>> THEN [j \in DOMAIN volumes |-> NewVmVolume(volumes[j], i, j)]
                            ELSE <<NewVmVolume(Nothing, i, 1)>>]
          [] r.type = "rds" ->
               [sql |-> sql, instance |-> Or(r, "instance", "db.m6i.8xlarge"),
                deployment |-> Or(r, "deployment", "single"), term |-> Or(r, "term", "on-demand"),
                class |-> Or(r, "class", "gp3"), iops |-> Or(r, "iops", 0)]
          [] r.type = "on_prem" ->
               [sql |-> sql, vcpu |-> Or(r, "vcpu", 32), cores |-> Or(r, "cores", 32),
                iops |-> Or(r, "iops", 0), capex |-> Or(r, "capex", 0), years |-> Or(r, "years", 5),
                power |-> Optional(r, "power")]
  IN [f \in DOMAIN shared \cup DOMAIN specific |-> IF f \in DOMAIN shared THEN shared[f] ELSE specific[f]]

\* a call that names no resource gets one, except under SQL pay-as-you-go
Wanted(a) == IF a.resources = <<>> THEN <<[type |-> a.type]>> ELSE a.resources
NewProjectDraft(a, known) ==
  [name |-> Or(a, "name", Len("SQL TCO estimate")), description |-> Optional(a, "description"),
   settings |-> NewSettings(a.type, a.settings),
   resources |-> IF a.type = "sql_payg" THEN <<>>
                 ELSE [i \in DOMAIN Wanted(a) |-> NewResource(Wanted(a)[i], i, known)],
   awsSnapshotId |-> {}, azureSnapshotId |-> {}]

-----------------------------------------------------------------------------
(* What is reported with it. *)

\* seeded fault: only the first machine's memory is asked for
MemoryMissingFirst(a, known) ==
  a.type \in MachineTypes
    /\ "ram" \notin DOMAIN Wanted(a)[1] /\ InstanceOf(Wanted(a)[1]) \notin DOMAIN known
MemoryMissing(a, known) ==
  a.type \in MachineTypes
    /\ \E i \in DOMAIN Wanted(a) : "ram" \notin DOMAIN Wanted(a)[i] /\ InstanceOf(Wanted(a)[i]) \notin DOMAIN known

IopsAssumed(a, type) ==
  a.type \in MachineTypes
    /\ \E i \in DOMAIN a.resources : \E j \in DOMAIN Or(a.resources[i], "volumes", <<>>) :
         LET v == a.resources[i].volumes[j] IN "iops" \notin DOMAIN v /\ Or(v, "type", "none") = type

Assumptions(a) ==
  {x \in {"gp3", "io2"} : IopsAssumed(a, x)}
    \cup {x \in {"pack"} : a.type = "on_prem" /\ ~({"enterprisePack", "standardPack"} \subseteq DOMAIN a.settings)}
    \cup {x \in {"spend"} : a.type = "sql_payg" /\ "spend" \notin DOMAIN Or(a.settings, "sqlPayg", Nothing)}

\* the order in which the assumptions are appended
Disclosed(assumed) == SelectSeq(<<"gp3", "io2", "pack", "spend">>, LAMBDA x : x \in assumed)

Answer(status, draft, a, notes) ==
  [status |-> status, draft |-> draft, omissions |-> a.omissions, uncertainties |-> notes]

StageOutcome(a, known) ==
  LET draft == NewProjectDraft(a, known)
  IN IF a.selected THEN Answer("unavailable", {}, a, <<>>)
     ELSE IF MemoryMissing(a, known)
     THEN Answer("reported", {}, a,
                 IF Len(a.uncertainties) < MaxNotes THEN Append(a.uncertainties, "memory") ELSE a.uncertainties)
     ELSE IF Issues(draft) # {} THEN Answer("invalid", {}, a, <<>>)
     ELSE Answer("staged", {draft}, a, a.uncertainties \o Disclosed(Assumptions(a)))

-----------------------------------------------------------------------------

NoReport == [status |-> "none"]
DraftInit ==
  /\ draftStep = "called" /\ call \in Calls
  /\ arguments = Nothing /\ memory = Nothing /\ report = NoReport

Read ==
  /\ draftStep = "called"
  /\ IF Refusal(call) = "none"
     THEN /\ arguments' = [call EXCEPT !.resources = [i \in DOMAIN @ |-> ResourceInGb(@[i])],
                                       !.omissions = Trimmed(@), !.uncertainties = Trimmed(@)]
          /\ draftStep' = "read" /\ UNCHANGED report
     ELSE /\ report' = [status |-> "refused", code |-> Refusal(call)]
          /\ draftStep' = "answered" /\ UNCHANGED arguments
  /\ UNCHANGED <<call, memory>>

\* the AWS prices of the region, or none when they cannot be had
Look ==
  /\ draftStep = "read"
  /\ IF arguments.type \in MachineTypes THEN memory' \in CatalogMemories ELSE UNCHANGED memory
  /\ draftStep' = "looked"
  /\ UNCHANGED <<call, arguments, report>>

Stage ==
  /\ draftStep = "looked"
  /\ report' = StageOutcome(arguments, memory)
  /\ draftStep' = "answered"
  /\ UNCHANGED <<call, arguments, memory>>

DraftNext == Read \/ Look \/ Stage

-----------------------------------------------------------------------------
(* What must hold. *)

\* what the schema lets a model ask for: nothing but settings under SQL pay-as-you-go
InScope(c) ==
  IF c.type = "sql_payg" THEN c.resources = <<>>
  ELSE \A i \in DOMAIN c.resources :
         c.resources[i].type = c.type /\ DOMAIN c.resources[i] \subseteq Scope(c.type)

\* what a field of the draft says, in the terms of the arguments
Drafted(r, f) ==
  CASE f \in SqlFields /\ r.type # "ec2_vm" -> (CHOOSE q \in r.sql : TRUE)[f]
    [] f = "vmOption" -> r.option
    [] f = "power" -> CHOOSE kw \in r.power : TRUE
    [] OTHER -> r[f]
KeptVolume(v, drafted) ==
  \A f \in DOMAIN v : CASE f = "capacity" -> drafted.capacity = InGb(v.capacity)
                        [] f \in {"awsId", "iops", "throughput"} -> drafted[f] = {v[f]}
                        [] OTHER -> drafted[f] = v[f]
Kept(r, drafted) ==
  \A f \in DOMAIN r \cap Scope(r.type) :
    CASE f = "volumes" -> \A j \in DOMAIN r.volumes : KeptVolume(r.volumes[j], drafted.volumes[j])
      [] f \in {"ram", "data"} -> Drafted(drafted, f) = InGb(r[f])
      [] OTHER -> Drafted(drafted, f) = r[f]

Told(note) == \E n \in DOMAIN report.uncertainties : report.uncertainties[n] = note

\* A draft keeps every value that the schema of its source let the model give, whatever its unit;
\* the memory of an EC2 machine is given or catalogued and never the number other sources start
\* with; IOPS of a volume whose type was given, and prices and spend, are disclosed where they were
\* assumed.  Arguments within the schema are never called fields of another source, and nothing is
\* proposed over a selected project
\* (scoped_new_project_draft_schema, parse_input, stage_new_project_draft_with_ec2_memory).
DraftIsFaithful ==
  /\ report.status = "refused" /\ InScope(call) => report.code # "mismatch"
  /\ report.status = "reported" => Told("memory") \/ Len(report.uncertainties) = MaxNotes
  /\ report.status = "staged" =>
       LET draft == CHOOSE p \in report.draft : TRUE
           wanted == IF call.type = "sql_payg" THEN <<>> ELSE Wanted(call)
       IN /\ ~call.selected
          /\ \A i \in DOMAIN wanted :
               LET r == wanted[i]  drafted == draft.resources[i]
               IN /\ Kept(r, drafted)
                  /\ r.type \in MachineTypes /\ "ram" \notin DOMAIN r =>
                        drafted.instance \in DOMAIN memory /\ drafted.ram = memory[drafted.instance]
                  /\ \A j \in DOMAIN Or(r, "volumes", <<>>) :
                       {"type", "iops"} \cap DOMAIN r.volumes[j] = {"type"} /\ drafted.volumes[j].iops # {}
                         => Told(drafted.volumes[j].type)
          /\ \A e \in DOMAIN draft.settings.pack :
               draft.settings.pack[e] # Optional(call.settings, IF e = "standard" THEN "standardPack" ELSE "enterprisePack")
                 => Told("pack")
          /\ \A q \in draft.settings.sqlPayg :
               {q.spend} # Optional(Or(call.settings, "sqlPayg", Nothing), "spend") => q.spend = 0 /\ Told("spend")
=============================================================================
