----------------------------- MODULE LazyLoader -----------------------------
(***************************************************************************)
(* The lazy configuration loader (configuration_loader.lua) in one worker: *)
(* requests that find the service of their host in the store, or load the  *)
(* configuration of the host from the portal first, one at a time through  *)
(* Synchronization:run().  Meanwhile the portal's configuration changes,   *)
(* the entries of the store expire and clients hang up.                    *)
(***************************************************************************)
EXTENDS ConfigStore, Synchronization

CONSTANTS
  MatchesOf,     \* the services whose mapping rules match a request
  Ttls,          \* values of APICAST_CONFIGURATION_CACHE: "zero", "positive", "never"
  Routings,      \* routing modes
  Portal0,       \* the hosts of each service at the portal, at first
  Edits,         \* the hosts that an edit may give to a service
  MaxFailures,   \* bound: loads that fail
  MaxKills       \* bound: requests that are killed in their load

ASSUME LazyAssumption ==
  /\ Key = Host /\ Load = Caller   \* run() is called with the host; a load is named after its caller
  /\ MatchesOf \in [Caller -> SUBSET Id]
  /\ Ttls \subseteq {"zero", "positive", "never"} /\ Routings \subseteq Routing
  /\ Portal0 \in [Id -> SUBSET Host] /\ Edits \in [Id -> SUBSET SUBSET Host]
  /\ MaxFailures \in Nat /\ MaxKills \in Nat

VARIABLES
  ttl, routing,  \* the environment of the gateway
  portal,        \* the hosts of each service; a deleted service has none
  version,       \* how often the portal's configuration of a service was edited
  store,         \* the configuration store of the worker
  answer,        \* the configuration that a request has loaded
  found,         \* the service found for a request
  arrived,       \* history: the versions at the portal when a request arrived (ttl 0)
  failures, kills

NoAnswer == [status |-> "none", services |-> {}]
Failed   == [status |-> "failed", services |-> {}]
GotConfig(r) == answer[r].status = "config"

config == <<ttl, routing>>
bounds == <<failures, kills>>
vars   == <<syncVars, config, portal, version, store, answer, found, arrived, bounds>>

Init ==
  /\ SyncInit
  /\ ttl \in Ttls /\ routing \in Routings
  /\ portal = Portal0 /\ version = [i \in Id |-> 0]
  /\ store = EmptyStore
  /\ answer = [r \in Caller |-> NoAnswer]
  /\ found = [r \in Caller |-> NoService]
  /\ arrived = [r \in Caller |-> version]
  /\ failures = 0 /\ kills = 0

(* rewrite(): with ttl 0 a request has a store of its own, a new one.      *)
OwnStore_Never == FALSE   \* mutant: the store of the worker whatever the ttl
OwnStore == ttl = "zero"

Find(s, r) == FindService(s, routing, KeyOf[r], MatchesOf[r])

Arrive(r) == arrived' = IF ttl = "zero" THEN [arrived EXCEPT ![r] = version] ELSE arrived

(* rewrite(): the host is configured and fresh: no load.                   *)
Hit(r) ==
  /\ pc[r] = "idle" /\ ~OwnStore /\ Configured(store, KeyOf[r])
  /\ found' = [found EXCEPT ![r] = Find(store, r)]
  /\ pc' = [pc EXCEPT ![r] = "over"]
  /\ UNCHANGED <<semaphores, resources, sema, config, portal, version, store, answer, arrived, bounds>>

(* rewrite(): not in the store or expired: a load is needed.               *)
Miss(r) ==
  /\ OwnStore \/ ~Configured(store, KeyOf[r])
  /\ Run(r)
  /\ Arrive(r)
  /\ UNCHANGED <<config, portal, version, store, answer, found, bounds>>

Resume(r) ==
  /\ Wake(r)
  /\ UNCHANGED <<config, portal, version, store, answer, found, arrived, bounds>>

(* remote_v2:index(host): the portal answers with the services of the host *)
OfHost(h, r) ==
  {[id |-> i, version |-> version[i], hosts |-> portal[i], load |-> r] : i \in {j \in Id : h \in portal[j]}}

Fetch(r) ==
  /\ pc[r] = "running" /\ answer[r] = NoAnswer
  /\ answer' = [answer EXCEPT ![r] = [status |-> "config", services |-> OfHost(KeyOf[r], r)]]
  /\ UNCHANGED <<syncVars, config, portal, version, store, found, arrived, bounds>>

(* ... or not at all, or with an error.                                    *)
FetchFails(r) ==
  /\ pc[r] = "running" /\ answer[r] = NoAnswer /\ failures < MaxFailures
  /\ answer' = [answer EXCEPT ![r] = Failed]
  /\ failures' = failures + 1
  /\ UNCHANGED <<syncVars, config, portal, version, store, found, arrived, kills>>

(* lazy_load_config() stores what was loaded, run() lets the next one in,  *)
(* and the service is looked up, without a yield in between.               *)
Configure(s, r) == IF GotConfig(r) THEN StoreConfig(s, answer[r].services, routing) ELSE s

Loaded(r) ==
  LET mine == Configure(IF OwnStore THEN EmptyStore ELSE store, r) IN
  /\ answer[r] # NoAnswer
  /\ Return(r)
  /\ store' = IF OwnStore THEN store ELSE mine
  /\ found' = [found EXCEPT ![r] = Find(mine, r)]
  /\ UNCHANGED <<config, portal, version, answer, arrived, bounds>>

(* Not let in within lazy_load_timeout: the store is used as it is.        *)
GiveUp(r) ==
  /\ TimeOut(r)
  /\ found' = [found EXCEPT ![r] = Find(IF OwnStore THEN EmptyStore ELSE store, r)]
  /\ UNCHANGED <<config, portal, version, store, answer, arrived, bounds>>

(* The client closes the connection (lua_check_client_abort): its request  *)
(* ends in run(), before anything is stored.                               *)
Kill(r) ==
  /\ kills < MaxKills
  /\ kills' = kills + 1
  /\ Abort(r)
  /\ UNCHANGED <<config, portal, version, store, answer, found, arrived, failures>>

(* The configuration of a service is promoted, or the service is deleted.  *)
Edit(i, H) ==
  /\ version[i] < MaxEdits
  /\ portal' = [portal EXCEPT ![i] = H]
  /\ version' = [version EXCEPT ![i] = @ + 1]
  /\ UNCHANGED <<syncVars, config, store, answer, found, arrived, bounds>>

Expire(h) ==
  /\ ttl = "positive" /\ store.cache[h].fresh
  /\ store' = ExpireHost(store, h)
  /\ UNCHANGED <<syncVars, config, portal, version, answer, found, arrived, bounds>>

Loading(r) == Resume(r) \/ Fetch(r) \/ FetchFails(r) \/ Loaded(r)

Next ==
  \/ \E r \in Caller : Hit(r) \/ Miss(r) \/ Loading(r) \/ GiveUp(r) \/ Kill(r)
  \/ \E i \in Id : \E H \in Edits[i] : Edit(i, H)
  \/ \E h \in Host : Expire(h)

Spec == Init /\ [][Next]_vars

(* A request that can go on is resumed, and the http client gets an answer *)
(* or times out.  The timeout of run() is not needed for anything.         *)
Fairness == \A r \in Caller : WF_vars(Loading(r))
FairSpec == Spec /\ Fairness

-----------------------------------------------------------------------------
TypeOK ==
  /\ SyncTypeOK /\ StoreOK(store)
  /\ ttl \in Ttls /\ routing \in Routings
  /\ portal \in [Id -> SUBSET Host] /\ version \in [Id -> Version]
  /\ answer \in [Caller -> [status : {"none", "failed", "config"}, services : SUBSET Service]]
  /\ found \in [Caller -> Service \cup {NoService}]
  /\ arrived \in [Caller -> [Id -> Version]]
  /\ failures \in 0..MaxFailures /\ kills \in 0..MaxKills

(* A request that loaded a configuration with services for its host finds  *)
(* one of them, whatever the store held before and other requests stored.  *)
OwnLoadServes == \A r \in Caller :
  pc[r] = "over" /\ GotConfig(r) /\ answer[r].services # {} =>
    found[r] = Resolve(answer[r].services, routing, KeyOf[r], MatchesOf[r])

(* The two caches of the store agree, in whatever order the loads of the   *)
(* hosts of a service are stored: what the list of a host holds is what    *)
(* find_by_id() returns, unless that one is not on the host any more.  The *)
(* host finder passes over a service of the list for that reason only.     *)
CachesAgree == \A h \in Host : \A s \in store.cache[h].list :
  LET current == store.services[s.id] IN
  current = s \/ (current # NoService /\ h \notin current.hosts)

(* With APICAST_CONFIGURATION_CACHE=0 there is "a complete refresh on each *)
(* request": what a request is served is not older than its arrival.       *)
RefreshOnEachRequest == \A r \in Caller :
  ttl = "zero" /\ found[r] # NoService =>
    found[r].version >= arrived[r][found[r].id]

(* APICAST_PATH_ROUTING in the documentation of the parameters: a request  *)
(* is routed "to the first service that has a matching mapping rule" of    *)
(* the services of its host.  Here the portal's configuration never        *)
(* changes, no load fails and the request did not give up.                 *)
GaveUp(r) == pc[r] = "over" /\ sema[r] # None /\ answer[r] = NoAnswer
PathRouted == \A r \in Caller :
  LET due == Resolve(OfHost(KeyOf[r], r), routing, KeyOf[r], MatchesOf[r]) IN
  /\ routing # "host" /\ \A i \in Id : version[i] = 0
  /\ failures = 0 /\ pc[r] = "over" /\ ~GaveUp(r) /\ due # NoService
  => found[r] # NoService /\ found[r].id = due.id

(* A request that waits for the load of another one is let in without the  *)
(* timeout, unless requests for its own host were killed with all that the *)
(* semaphore had.                                                          *)
NobodyWaitsForEver == <>[](\A r \in Caller : pc[r] = "waiting" => Orphaned(r))
=============================================================================
