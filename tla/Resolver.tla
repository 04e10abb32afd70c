------------------------------- MODULE Resolver -------------------------------
(***************************************************************************)
(* The resolver of a worker (resty/resolver.lua) and its cache of answers  *)
(* (resty/resolver/cache.lua).  The first request that asks for a name     *)
(* takes the semaphore of the name and queries the DNS if the cache has no *)
(* answer; requests that come while it waits do not wait: they are served  *)
(* the answer that expired, and query as well if there never was one.      *)
(* Between the yields of its one query get_servers() is one step.          *)
(***************************************************************************)
EXTENDS Integers, FiniteSets

CONSTANTS
  Request,
  Name,
  NameOf,
  None,         \* no request
  MaxVersion,   \* bound: answers that the DNS server gives for a name in turn
  MaxFailures,  \* bound: queries that fail
  MaxKills      \* bound: requests that are killed in their query

ASSUME ResolverAssumption ==
  /\ NameOf \in [Request -> Name] /\ None \notin Request
  /\ MaxVersion \in Nat \ {0} /\ MaxFailures \in Nat /\ MaxKills \in Nat

VARIABLES
  dns,        \* the answer that the DNS server would give
  entry,      \* the answer in the cache, 0 for none
  age,        \* of the entry: "fresh", "touched" or "stale"
  holder,     \* who has taken the semaphore of the name
  stage,      \* of get_servers(): "idle", "query", "resolved" or "failed"
  servers,    \* what it returned
  failures, kills,
  orphaned,   \* history: names whose semaphore was taken by a killed request
  began       \* history: the entry when the query of a request began

lookups == <<stage, servers, began>>
cached  == <<dns, entry, age>>
bounds  == <<failures, kills>>
resolverVars == <<cached, holder, lookups, bounds, orphaned>>

ResolverInit ==
  /\ dns = [n \in Name |-> 1]
  /\ entry = [n \in Name |-> 0] /\ age = [n \in Name |-> "stale"]
  /\ holder = [n \in Name |-> None]
  /\ stage = [r \in Request |-> "idle"] /\ servers = [r \in Request |-> 0]
  /\ failures = 0 /\ kills = 0 /\ orphaned = {}
  /\ began = [r \in Request |-> 0]

Return(r, label, answer) ==
  /\ stage' = [stage EXCEPT ![r] = label]
  /\ servers' = [servers EXCEPT ![r] = answer]
  /\ began' = [began EXCEPT ![r] = 0]

Query(r) ==
  /\ stage' = [stage EXCEPT ![r] = "query"]
  /\ began' = [began EXCEPT ![r] = entry[NameOf[r]]]
  /\ UNCHANGED servers

(* What cache:get() returns as a value: an entry that was set with a ttl   *)
(* of 0 counts as expired only when the clock has moved on.                *)
Cached(n) == entry[n] # 0 /\ age[n] # "stale"

(* get_servers() of a request that finds an answer in the cache: the       *)
(* semaphore, if it gets it, is given back at once.                        *)
Found(r) ==
  /\ stage[r] = "idle" /\ Cached(NameOf[r])
  /\ Return(r, "resolved", entry[NameOf[r]])
  /\ UNCHANGED <<cached, holder, bounds, orphaned>>

(* The semaphore is free: sema:wait(0) takes it and the DNS is asked.      *)
LookUp_Unlocked(r) ==   \* mutant: the semaphore is not kept for the query
  LET n == NameOf[r] IN
  /\ stage[r] = "idle" /\ ~Cached(n) /\ holder[n] = None
  /\ UNCHANGED holder
  /\ Query(r)
  /\ UNCHANGED <<cached, bounds, orphaned>>

LookUp(r) ==
  LET n == NameOf[r] IN
  /\ stage[r] = "idle" /\ ~Cached(n) /\ holder[n] = None
  /\ holder' = [holder EXCEPT ![n] = r]
  /\ Query(r)
  /\ UNCHANGED <<cached, bounds, orphaned>>

(* The semaphore is taken: the answer that expired is served and put back  *)
(* with a ttl of 0; without one the DNS is asked as well.                  *)
LookUpStale(r) ==
  LET n == NameOf[r] IN
  /\ stage[r] = "idle" /\ ~Cached(n) /\ holder[n] # None
  /\ \/ /\ entry[n] # 0
        /\ age' = [age EXCEPT ![n] = "touched"]
        /\ Return(r, "resolved", entry[n])
     \/ /\ entry[n] = 0
        /\ Query(r)
        /\ UNCHANGED age
  /\ UNCHANGED <<dns, entry, holder, bounds, orphaned>>

(* The end of get_servers(): the semaphore is forgotten and posted, if this *)
(* call took it; what a killed call took is nobody's to give back.         *)
Release(r) == holder' =
  [n \in Name |-> IF holder[n] = r /\ n \notin orphaned THEN None ELSE holder[n]]

Answer_Keeps(r) ==   \* mutant: the semaphore is forgotten, but not posted
  LET n == NameOf[r] IN
  /\ stage[r] = "query"
  /\ entry' = [entry EXCEPT ![n] = dns[n]]
  /\ age' = [age EXCEPT ![n] = "fresh"]
  /\ UNCHANGED holder
  /\ Return(r, "resolved", dns[n])
  /\ UNCHANGED <<dns, bounds, orphaned>>

Answer(r) ==
  LET n == NameOf[r] IN
  /\ stage[r] = "query"
  /\ entry' = [entry EXCEPT ![n] = dns[n]]
  /\ age' = [age EXCEPT ![n] = "fresh"]
  /\ Release(r)
  /\ Return(r, "resolved", dns[n])
  /\ UNCHANGED <<dns, bounds, orphaned>>

QueryFails_Keeps(r) ==   \* mutant: an early return on the error keeps the semaphore
  /\ stage[r] = "query" /\ failures < MaxFailures
  /\ failures' = failures + 1
  /\ Return(r, "failed", 0)
  /\ UNCHANGED <<cached, kills, orphaned, holder>>

QueryFails(r) ==
  /\ stage[r] = "query" /\ failures < MaxFailures
  /\ failures' = failures + 1
  /\ Release(r)
  /\ Return(r, "failed", 0)
  /\ UNCHANGED <<cached, kills, orphaned>>

(* The client closes the connection (lua_check_client_abort), or cache:get *)
(* raises on a circular CNAME: nobody gives the semaphore back.            *)
Kill(r) ==
  /\ stage[r] = "query" /\ kills < MaxKills
  /\ kills' = kills + 1
  /\ Return(r, "failed", 0)
  /\ orphaned' = orphaned \cup {n \in Name : holder[n] = r}
  /\ UNCHANGED <<cached, holder, failures>>

(* The ttl of an entry passes, and the clock moves past a ttl of 0.        *)
Expire(n) ==
  /\ entry[n] # 0 /\ age[n] # "stale"
  /\ age' = [age EXCEPT ![n] = "stale"]
  /\ UNCHANGED <<dns, entry, holder, lookups, bounds, orphaned>>

Change(n) ==
  /\ dns[n] < MaxVersion
  /\ dns' = [dns EXCEPT ![n] = @ + 1]
  /\ UNCHANGED <<entry, age, holder, lookups, bounds, orphaned>>

GetServers(r) == Found(r) \/ LookUp(r) \/ LookUpStale(r)
QueryEnds(r)  == Answer(r) \/ QueryFails(r) \/ Kill(r)
Environment   == \E n \in Name : Expire(n) \/ Change(n)

-----------------------------------------------------------------------------
(* One refresh at a time: of the queries for a name that began when there  *)
(* was an answer to serve meanwhile, one at most is under way.             *)
OneRefresh == \A n \in Name :
  Cardinality({r \in Request : NameOf[r] = n /\ stage[r] = "query" /\ began[r] # 0}) <= 1

(* "Use stale DNS cache when there is a query in progress for that record" *)
(* (CHANGELOG): a request is served an answer that expired while another   *)
(* one queries the name, until the clock moves on.  A name whose semaphore *)
(* was taken by a killed request is the exception, for the rest of the     *)
(* life of the worker.                                                     *)
Querying(n) == \E r \in Request : NameOf[r] = n /\ stage[r] = "query" /\ holder[n] = r
StaleWhileQuerying == [][\A r \in Request :
  LET n == NameOf[r] IN
  stage[r] = "idle" /\ stage'[r] = "resolved" /\ age[n] = "stale" =>
    Querying(n) \/ n \in orphaned]_resolverVars

(* A request that has the semaphore gives it back, however its query ends, *)
(* unless it is killed.                                                    *)
SemaphoreReturned == \A n \in Name :
  holder[n] # None ~> holder[n] = None \/ n \in orphaned
=============================================================================
