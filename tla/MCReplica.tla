------------------------------ MODULE MCReplica ------------------------------
(* What a replica keeps to itself and what it shares: the price cache in   *)
(* its memory, or the quota document in Cosmos DB.  The two share no       *)
(* state, so TLC explores them one beside the other.                       *)
EXTENDS RefreshQuota, TLC

CONSTANTS
  s1, Requests, Scopes, Ids, ScopeOf, KeepsAll, MaxHot, HotAge, FreshAge, UsableAge, CallTime,
  MaxTime

VARIABLES side, now, hot, stored, req

Cache == INSTANCE SnapshotCache

ASSUME CacheAssumption == Cache!CacheAssumption

OneScope == [i \in Ids |-> s1]

Symmetry == Permutations(Requests) \cup Permutations(Ids) \cup Permutations(Operations)

cacheVars == <<now, hot, stored, req>>

ReplicaInit ==
  /\ side \in {"cache", "quota"}
  /\ Init /\ Cache!Init
  /\ side = "cache" => limit = [o \in Operations |-> CHOOSE l \in Limits : TRUE]

ReplicaNext ==
  /\ UNCHANGED side
  /\ \/ side = "cache" /\ Cache!Next /\ UNCHANGED vars
     \/ side = "quota" /\ Next /\ UNCHANGED cacheVars

ReplicaSpec == ReplicaInit /\ [][ReplicaNext]_<<side, vars, cacheVars>>

SettledPricesAnswer == side = "cache" => Cache!SettledPricesAnswer
KnownIsServed == side = "cache" => Cache!KnownIsServed
=============================================================================
