----------------------------- MODULE MCPricing -----------------------------
(* What a price goes through: requests that share the refresh of a key     *)
(* (RefreshFlight), the lease replicas refresh it under (RefreshLease, as  *)
(* for Azure), one of its fetches (HttpFetch), the whole retrieval         *)
(* (PriceRetrieval with the providers of MCRetrieval), the estimates       *)
(* computed from the prices (Calculation with the cases of MCEstimates),   *)
(* and the drafts of the assistant that look a memory up in them           *)
(* (ProjectDraft with the calls of MCDraft).                               *)
(* The six share no state, so TLC explores them one beside the other.     *)
EXTENDS MCEstimates

CONSTANTS
  Rank, YearHours, MinCores, MibPerGib, StandardFee, EnterpriseFee,
  PricedConfigurations, PricedSizes, PricedOffers, PremiumSsd, PremiumSsdV2,
  IncludedIops, IncludedThroughput, MonthHours, Wide,
  AwsRegions, AzureRegions, Refreshes, ProviderDocuments(_, _), PageSize, MaxPages,
  Budget, RequestTimeout, MaxAttempts, Capacity, MaxChunks, Hints, Jitter, MaxClock,
  Requests, NoFlight,
  Tasks, LeaseTTL, WaitBudget, Attempts, KeepsAll, OtherScopes, Faults, Contents, LeaseClock,
  NoLease, NoContent, NoSnapshot,
  Calls, CatalogMemories, InstanceFamily, MaxNotes

VARIABLES
  side,
  asked, got, snapshot,
  kind, fetch, now, attempt, until, received, channel, open, projector, outcome, fetched, notBefore,
  flights, task, result, pc, flight, woken,
  clock, lease, writes, retained, leasePc, startedAt, asOf, conflicts, doc, snap,
  draftStep, call, arguments, memory, report

Retrieval == INSTANCE MCRetrieval WITH
  Catalog <- PricedConfigurations, Sizes <- PricedSizes, Offers <- PricedOffers,
  Requests <- Refreshes, Responses <- ProviderDocuments, answer <- snapshot
Fetch == INSTANCE HttpFetch WITH phase <- fetch, result <- fetched
Flights == INSTANCE RefreshFlight
Leases == INSTANCE RefreshLeaseProofs WITH MaxClock <- LeaseClock, pc <- leasePc, attempt <- conflicts
Drafts == INSTANCE MCDraft

\* the cases the constants stand for, which depend on none of them
NoDocuments(region, document) == {}
RetrievalCases == INSTANCE MCRetrieval WITH
  Rank <- <<>>, Catalog <- {}, Sizes <- {}, Offers <- {}, Requests <- {}, Responses <- NoDocuments,
  answer <- snapshot
DraftCases == INSTANCE MCDraft WITH Calls <- {}, CatalogMemories <- {}, InstanceFamily <- <<>>

ASSUME FlightsAssumption == Flights!FlightAssumption
ASSUME FetchAssumption == Fetch!FetchAssumption
ASSUME LeasesAssumption == Leases!LeaseAssumption

ProvidersRank == RetrievalCases!MCRank
ProvidersConfigurations == RetrievalCases!MCCatalog
ProvidersSizes == RetrievalCases!MCSizes
ProvidersOffers == RetrievalCases!MCOffers
ProvidersRefreshes == RetrievalCases!MCRequests
ProvidersAnswers(region, document) == RetrievalCases!MCResponses(region, document)
DraftCalls == DraftCases!MCCalls
DraftMemories == DraftCases!MCMemories
DraftFamilies == DraftCases!MCFamily

retrievalVars == <<asked, got, snapshot>>
fetchVars == <<kind, fetch, now, attempt, until, received, channel, open, projector, outcome, fetched, notBefore>>
flightVars == <<flights, task, result, pc, flight, woken>>
leaseVars == <<clock, lease, writes, retained, leasePc, startedAt, asOf, conflicts, doc, snap>>
draftVars == <<draftStep, call, arguments, memory, report>>
allVars == <<side, vars, retrievalVars, fetchVars, flightVars, leaseVars, draftVars>>

PricingInit ==
  /\ side \in {"estimate", "retrieval", "fetch", "flights", "lease", "draft"}
  /\ Flights!Init
  \* past the last instant nothing of the lease is enabled
  /\ IF side = "lease" THEN Leases!Init
     ELSE /\ clock = LeaseClock /\ lease = NoLease /\ writes = 0 /\ retained = {}
          /\ leasePc = [t \in Tasks |-> "idle"] /\ startedAt = <<>> /\ asOf = <<>> /\ conflicts = <<>>
          /\ doc = <<>> /\ snap = <<>>
  /\ IF side = "estimate" THEN MCInit
     ELSE /\ phase = "answered" /\ project = 0 /\ expected = {} /\ feed = <<>> /\ stored = <<>>
          /\ input = <<>> /\ rows = <<>> /\ answer = {}
  /\ IF side = "retrieval" THEN Retrieval!Init
     ELSE asked = 0 /\ got = <<>> /\ snapshot = {}
  /\ IF side = "fetch" THEN Fetch!Init
     ELSE /\ kind = "plain" /\ fetch = "ended" /\ now = 0 /\ attempt = 0 /\ until = 0 /\ received = 0
          /\ channel = 0 /\ open = FALSE /\ projector = "none" /\ outcome = "none" /\ fetched = "none"
          /\ notBefore = 0
  /\ IF side = "draft" THEN Drafts!DraftInit
     ELSE draftStep = "answered" /\ call = 0 /\ arguments = 0 /\ memory = 0 /\ report = 0

PricingNext ==
  /\ UNCHANGED side
  /\ \/ side = "estimate" /\ Next /\ UNCHANGED <<retrievalVars, fetchVars, flightVars, leaseVars, draftVars>>
     \/ side = "retrieval" /\ Retrieval!Next /\ UNCHANGED <<vars, fetchVars, flightVars, leaseVars, draftVars>>
     \/ side = "fetch" /\ Fetch!Next /\ UNCHANGED <<vars, retrievalVars, flightVars, leaseVars, draftVars>>
     \/ side = "flights" /\ Flights!Next /\ UNCHANGED <<vars, retrievalVars, fetchVars, leaseVars, draftVars>>
     \/ side = "lease" /\ Leases!Next /\ UNCHANGED <<vars, retrievalVars, fetchVars, flightVars, draftVars>>
     \/ side = "draft" /\ Drafts!DraftNext /\ UNCHANGED <<vars, retrievalVars, fetchVars, flightVars, leaseVars>>

PricingSpec == PricingInit /\ [][PricingNext]_allVars /\ Fetch!Fairness /\ Flights!Fairness /\ Leases!Fairness

SnapshotIsWhole == side = "retrieval" => Retrieval!SnapshotIsWhole
ParsedIsStorable == side = "retrieval" => Retrieval!ParsedIsStorable
OrderFree == side = "retrieval" => Retrieval!OrderFree
FetchWithinBudget == Fetch!FetchWithinBudget
FetchEnds == Fetch!FetchEnds
DraftIsFaithful == side = "draft" => Drafts!DraftIsFaithful
Coalesced == Flights!Coalesced
PublishedIsStored == Leases!PublishedIsStored
EveryRefreshEnds == Leases!EveryRefreshEnds
EveryRequestEnds == Flights!EveryRequestEnds
=============================================================================
