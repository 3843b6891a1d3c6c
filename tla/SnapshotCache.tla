---------------------------- MODULE SnapshotCache ----------------------------
(***************************************************************************)
(* How one replica looks up the prices of a provider: the hot cache in its *)
(* memory (InMemorySnapshotRepository, pricing/repository.rs), the         *)
(* snapshots in Cosmos DB, and PricingCoordinator's order between the two  *)
(* (pricing/coordinator.rs).  The cache has two ages, that of a snapshot   *)
(* and that of its entry, and a bound; a snapshot is named by a hash of    *)
(* its prices, so that prices retrieved again replace their own entry.     *)
(* AWS keeps in Cosmos DB what is current, Azure everything.               *)
(* A cache insertion and the lookup of the inserted id that follows it     *)
(* without an await are one step; the insertions of a list, each under the *)
(* lock, and the lookup after them are steps of their own.  Refreshes come *)
(* from RefreshFlight and RefreshLease, of which only what they store and  *)
(* cache is kept here.                                                     *)
(***************************************************************************)
EXTENDS Naturals, FiniteSets

CONSTANTS
  Requests,
  Scopes,      \* a currency and region
  Ids,         \* snapshot ids
  ScopeOf,     \* the scope of every id: it is part of the hashed content
  KeepsAll,    \* TRUE: Azure, FALSE: AWS
  MaxHot,      \* MAX_HOT_SNAPSHOTS_PER_PROVIDER
  HotAge,      \* HOT_CACHE_MAX_AGE and HOT_ENTRY_MAX_AGE
  FreshAge,    \* FRESH_MAX_AGE
  UsableAge,   \* USABLE_MAX_AGE
  CallTime,    \* the longest a refresh, or a call to Cosmos DB, takes
  MaxTime      \* bound: the last instant

CacheAssumption ==
  /\ ScopeOf \in [Ids -> Scopes]
  /\ KeepsAll \in BOOLEAN
  /\ MaxHot \in Nat \ {0}
  /\ {HotAge, FreshAge, UsableAge, CallTime, MaxTime} \subseteq Nat
  /\ HotAge <= FreshAge /\ FreshAge <= UsableAge

VARIABLES
  now,
  hot,     \* the entries of the cache
  stored,  \* the snapshots in Cosmos DB, and since when
  req      \* the requests

vars == <<now, hot, stored, req>>

Statuses == {"fresh", "cached", "stale"}
Priced == [id : Ids, at : Nat, status : Statuses]

\* A request: where it is; the groups of ids of which it wants the newest, one
\* each; when it looked in the memory and what it found there; what it does when
\* Cosmos DB fails and it found nothing; what Cosmos DB answered; its answer and
\* where that came from; history: what Cosmos DB had held, when it looked in the
\* memory, for longer than an entry of the cache lives.
Request ==
  [stage : {"idle", "read", "cache", "list", "cachelist", "publish", "waited", "recover",
            "done", "failed"},
   wanted : SUBSET SUBSET Ids, started : 0..MaxTime, fallback : SUBSET Priced,
   onError : {"fail", "memory"}, got : SUBSET [id : Ids, at : Nat, read : 0..MaxTime],
   answer : SUBSET Priced, via : {"none", "memory", "store", "fallback", "refresh"},
   settled : SUBSET [id : Ids, at : Nat]]

Blank ==
  [stage |-> "idle", wanted |-> {}, started |-> 0, fallback |-> {}, onError |-> "fail",
   got |-> {}, answer |-> {}, via |-> "none", settled |-> {}]

IdsOf(s) == {i \in Ids : ScopeOf[i] = s}

Init ==
  /\ now = 0
  /\ hot = {}
  /\ stored = {}
  /\ req = [r \in Requests |-> Blank]

-----------------------------------------------------------------------------
(* The cache.                                                              *)

\* effective_status: nothing for a snapshot that is too old or from the future
EffectiveStatus(at, label) ==
  IF at > now \/ now - at > UsableAge THEN {}
  ELSE IF now - at > FreshAge THEN {"stale"}
  ELSE IF now - at > HotAge \/ label # "fresh" THEN {"cached"}
  ELSE {"fresh"}

\* classify_aws, classify_azure
Classified(S) ==
  UNION {{[id |-> e.id, at |-> e.at, status |-> s] : s \in EffectiveStatus(e.at, e.status)} : e \in S}

\* the snapshots of a group that were retrieved last; ties are broken anyhow
NewestOf(S, group) ==
  {e \in S : e.id \in group /\ \A f \in S : f.id \in group => f.at <= e.at}

\* one of the newest for every group that has one
Newest(S, groups) ==
  LET known == {g \in groups : \E e \in S : e.id \in g} IN
    {{pick[g] : g \in known} :
       pick \in {p \in [known -> S] : \A g \in known : p[g] \in NewestOf(S, g)}}

\* seeded fault: an entry of any age answers a hot read
HotAtAnyAge == hot

\* the entries that may answer without Cosmos DB: inserted_at.elapsed()
HotEntries == {e \in hot : now - e.inserted <= HotAge}

Entry(d, label) == [id |-> d.id, at |-> d.at, status |-> label, inserted |-> now]

\* insert_hot: in place of the entry of the same id, or of one inserted at the
\* earliest instant if there are as many as there may be
Inserted(e) ==
  LET others == {x \in hot : x.id # e.id}
      earliest == {x \in hot : \A y \in hot : x.inserted <= y.inserted} IN
    IF others = hot /\ Cardinality(hot) >= MaxHot
      THEN {(hot \ {x}) \cup {e} : x \in earliest}
      ELSE {others \cup {e}}

-----------------------------------------------------------------------------
(* Cosmos DB: put_aws and put_azure, as the replica and others call them.  *)

\* put_document: the state of the scope, or the document of the id, is replaced
\* by a later retrieval
Put(id, at) ==
  LET rivals == {d \in stored : IF KeepsAll THEN d.id = id ELSE ScopeOf[d.id] = ScopeOf[id]} IN
    IF \E d \in rivals : d.at >= at THEN stored
    ELSE (stored \ rivals) \cup {[id |-> id, at |-> at, since |-> now]}

\* a retrieval has begun up to CallTime before it is stored
Retrievals == {at \in 0..now : at + CallTime >= now}

\* another replica refreshes
Publish ==
  /\ \E id \in Ids, at \in Retrievals : stored' = Put(id, at)
  /\ stored' # stored
  /\ UNCHANGED <<now, hot, req>>

-----------------------------------------------------------------------------
(* Lookups.                                                                *)

Becomes(r, q) == req' = [req EXCEPT ![r] = q]

Answered(q, S, from) ==
  [q EXCEPT !.stage = "done", !.answer = S, !.via = from, !.got = {}]

Received(q, S, next) ==
  [q EXCEPT !.stage = next, !.got = {[id |-> d.id, at |-> d.at, read |-> now] : d \in S}]

\* the look in the memory that every lookup begins with
Looking(groups, T, whenDown) ==
  [Blank EXCEPT !.wanted = groups, !.started = now, !.fallback = Classified(T),
                !.onError = whenDown,
                !.settled = {[id |-> d.id, at |-> d.at] :
                               d \in {e \in stored : e.since + HotAge + CallTime < now}}]

\* find_*_snapshot, get_aws and get_azure: a hot entry answers at once
LookUp(r, group, whenDown) ==
  /\ \E T \in Newest(hot, {group}), H \in Newest(HotEntries, {group}) :
       LET q == Looking({group}, T, whenDown) IN
         \/ Classified(H) # {} /\ Becomes(r, Answered(q, Classified(H), "memory"))
         \/ Classified(H) = {} /\ Becomes(r, [q EXCEPT !.stage = "read"])
  /\ UNCHANGED <<now, hot, stored>>

\* resolve_aws and resolve_azure; a refresh that the provider, or Cosmos DB
\* before the retrieval was stored, has failed
Find(r, s) ==
  /\ req[r].stage = "idle"
  /\ \E whenDown \in {"fail", "memory"} : LookUp(r, IdsOf(s), whenDown)

\* the snapshot a calculation is pinned to
Get(r, id) ==
  /\ req[r].stage = "idle"
  /\ LookUp(r, {id}, "fail")

\* seeded fault: a failing store fails the request
FailAtOnce(q) == {[q EXCEPT !.stage = "failed"]}

\* Cosmos DB failed: what the memory had, or after a refresh has, or an error
WhenDown(q) ==
  IF q.fallback # {} THEN {Answered(q, q.fallback, "fallback")}
  ELSE IF q.onError = "fail" THEN {[q EXCEPT !.stage = "failed"]}
  ELSE {Answered(q, Classified(T), "fallback") : T \in Newest(hot, q.wanted)}

Read(r) ==
  LET q == req[r] IN
  /\ q.stage = "read"
  /\ \/ \E T \in Newest(stored, q.wanted) :
          \/ T # {} /\ Becomes(r, Received(q, T, "cache"))
          \/ T = {} /\ Becomes(r, Answered(q, q.fallback, "fallback"))
     \/ \E n \in WhenDown(q) : Becomes(r, n)
  /\ UNCHANGED <<now, hot, stored>>

\* cache_durable_*: as cached into the memory, and by its id out of it
CacheRead(r) ==
  /\ req[r].stage = "cache"
  /\ \E d \in req[r].got : LET e == Entry(d, "cached") IN
       /\ hot' \in Inserted(e)
       /\ Becomes(r, Answered(req[r], Classified({e}), "store"))
  /\ UNCHANGED <<now, stored>>

\* list_latest_aws asks Cosmos DB whatever the memory has
List(r) ==
  /\ req[r].stage = "idle" /\ ~KeepsAll
  /\ LET groups == {IdsOf(s) : s \in Scopes} IN
       \E T \in Newest(hot, groups) :
         Becomes(r, [Looking(groups, T, "fail") EXCEPT !.stage = "list"])
  /\ UNCHANGED <<now, hot, stored>>

ReadList(r) ==
  /\ req[r].stage = "list"
  /\ \/ Becomes(r, Received(req[r], stored, "cachelist"))
     \/ \E n \in WhenDown(req[r]) : Becomes(r, n)
  /\ UNCHANGED <<now, hot, stored>>

\* every current state into the cache, one after the other
CacheListed(r) ==
  /\ req[r].stage = "cachelist"
  /\ \E d \in req[r].got :
       /\ hot' \in Inserted(Entry(d, "cached"))
       /\ Becomes(r, [req[r] EXCEPT !.got = @ \ {d}])
  /\ UNCHANGED <<now, stored>>

\* then the newest of every scope out of it
AnswerList(r) ==
  LET q == req[r] IN
  /\ q.stage = "cachelist" /\ q.got = {}
  /\ \E T \in Newest(hot, q.wanted) :
       \/ Classified(T) # {} /\ Becomes(r, Answered(q, Classified(T), "store"))
       \/ Classified(T) = {} /\ Becomes(r, Answered(q, q.fallback, "fallback"))
  /\ UNCHANGED <<now, hot, stored>>

-----------------------------------------------------------------------------
(* Refreshes.                                                              *)

\* owner_refresh_*, persist_*: the retrieval is stored; for AWS what is current
\* then is what the refresh goes on with
Store(r, s) ==
  /\ req[r].stage = "idle"
  /\ \E id \in IdsOf(s), at \in Retrievals :
       /\ stored' = Put(id, at)
       /\ LET kept == IF KeepsAll THEN {[id |-> id, at |-> at]}
                      ELSE {d \in stored' : ScopeOf[d.id] = s} IN
            Becomes(r, Received([Blank EXCEPT !.wanted = {IdsOf(s)}], kept, "publish"))
  /\ UNCHANGED <<now, hot>>

\* the lease reports it and the cache gets it
CacheRefreshed(r) ==
  /\ req[r].stage = "publish"
  /\ \E d \in req[r].got :
       /\ hot' \in Inserted(Entry(d, "fresh"))
       /\ Becomes(r, Answered(req[r], {[id |-> d.id, at |-> d.at, status |-> "fresh"]}, "refresh"))
  /\ UNCHANGED <<now, stored>>

\* a waiter reads the snapshot the lease reports, which was stored while it waited
Wait(r, id) ==
  /\ req[r].stage = "idle"
  /\ \E d \in stored : d.id = id /\ d.since + CallTime >= now /\ Becomes(r, Received(
       [Blank EXCEPT !.wanted = {IdsOf(ScopeOf[id])}], {d}, "waited"))
  /\ UNCHANGED <<now, hot, stored>>

\* cache_waiter_*
CacheWaited(r) ==
  LET q == req[r] IN
  /\ q.stage = "waited"
  /\ \E d \in q.got : LET e == Entry(d, "cached") IN
       /\ hot' \in Inserted(e)
       /\ \/ Classified({e}) # {} /\ Becomes(r, Answered(q, Classified({e}), "refresh"))
          \/ Classified({e}) = {} /\ Becomes(r, [q EXCEPT !.stage = "recover", !.got = {}])
  /\ UNCHANGED <<now, stored>>

\* a call to Cosmos DB failed on the way
RefreshFails(r) ==
  /\ req[r].stage \in {"publish", "waited"}
  /\ Becomes(r, [req[r] EXCEPT !.stage = "recover", !.got = {}])
  /\ UNCHANGED <<now, hot, stored>>

\* RefreshFailure::Repository: the prices there are, in the memory if need be
Recover(r) ==
  /\ req[r].stage = "recover"
  /\ \E group \in req[r].wanted : LookUp(r, group, "memory")

Finish(r) ==
  /\ req[r].stage \in {"done", "failed"}
  /\ Becomes(r, Blank)
  /\ UNCHANGED <<now, hot, stored>>

-----------------------------------------------------------------------------

\* what Cosmos DB answered is cached within CallTime; an answer is not kept
Tick ==
  /\ now < MaxTime
  /\ \A r \in Requests : req[r].stage \notin {"done", "failed"}
  /\ \A r \in Requests : \A d \in req[r].got : now < d.read + CallTime
  /\ now' = now + 1
  /\ UNCHANGED <<hot, stored, req>>

\* the replica restarts: its memory and its requests are gone
Restart ==
  /\ hot' = {}
  /\ req' = [r \in Requests |-> Blank]
  /\ UNCHANGED <<now, stored>>

Step(r) ==
  \/ \E s \in Scopes : Find(r, s) \/ Store(r, s)
  \/ \E id \in Ids : Get(r, id) \/ Wait(r, id)
  \/ List(r) \/ Read(r) \/ CacheRead(r) \/ ReadList(r) \/ CacheListed(r) \/ AnswerList(r)
  \/ CacheRefreshed(r) \/ CacheWaited(r) \/ RefreshFails(r) \/ Recover(r) \/ Finish(r)

Next == (\E r \in Requests : Step(r)) \/ Publish \/ Tick \/ Restart

Spec == Init /\ [][Next]_vars

-----------------------------------------------------------------------------
(* Properties.                                                             *)

TypeOK ==
  /\ now \in 0..MaxTime
  /\ hot \subseteq [id : Ids, at : Nat, status : Statuses, inserted : 0..MaxTime]
  /\ Cardinality(hot) <= MaxHot
  /\ stored \subseteq [id : Ids, at : Nat, since : 0..MaxTime]
  /\ req \in [Requests -> Request]

LookedUp(q) == q.stage = "done" /\ q.via # "refresh"

\* What a lookup answers was usable, with the status of its age, at some moment
\* between its look in the memory and its answer, however long Cosmos DB took
\* (get_*, find_*_snapshot and list_latest_aws, effective_status).
AnswersUsable ==
  \A r \in Requests : LookedUp(req[r]) =>
    \A a \in req[r].answer :
      \E t \in req[r].started..now :
        /\ a.at <= t /\ t - a.at <= UsableAge
        /\ (a.status = "stale") <=> (t - a.at > FreshAge)
        /\ a.status = "fresh" => t - a.at <= HotAge

\* Prices that Cosmos DB has held for longer than an entry of the cache lives are
\* not hidden by older ones, whatever was read and cached in the meantime: a hot
\* read is at most HotAge behind (find_*_snapshot, list_latest_aws).
SettledPricesAnswer ==
  \A r \in Requests : LookedUp(req[r]) /\ req[r].via # "fallback" =>
    \A a \in req[r].answer, d \in req[r].settled :
      (ScopeOf[d.id] = ScopeOf[a.id] /\ IdsOf(ScopeOf[a.id]) \in req[r].wanted) => a.at >= d.at

\* A lookup that fails or answers nothing had found nothing usable in the memory:
\* old prices are better than none while they can be used, so that what Cosmos DB
\* answers is never older and cached before its age is judged (the fallback of
\* get_*, find_*_snapshot and list_latest_aws).
KnownIsServed ==
  \A r \in Requests :
    /\ LookedUp(req[r]) \/ req[r].stage = "failed"
    /\ \E f \in req[r].fallback : now - f.at <= UsableAge
    => req[r].answer # {}
=============================================================================
