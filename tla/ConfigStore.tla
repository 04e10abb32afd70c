----------------------------- MODULE ConfigStore -----------------------------
(***************************************************************************)
(* The configuration store of a worker (apicast/configuration_store.lua)   *)
(* and the finders that look a service up in it (policy/find_service).     *)
(* A store is a record of its two LRU caches: the services by id, and the  *)
(* list of services of a host, which expires.  A service is an object: the *)
(* load that made it is its identity.  A configuration is a set of         *)
(* services in the order of their ids.                                     *)
(***************************************************************************)
EXTENDS Integers, FiniteSets

CONSTANTS
  Id,         \* ids of the services
  Host,
  Load,       \* loads of a configuration
  MaxEdits,   \* bound: edits of the configuration at the portal
  NoService

ASSUME StoreAssumption == Id \subseteq Nat /\ MaxEdits \in Nat

Version == 0..MaxEdits
Service == [id : Id, version : Version, hosts : SUBSET Host, load : Load]
Entry   == [list : SUBSET Service, fresh : BOOLEAN]
Routing == {"host", "path", "path only"}

ASSUME NoServiceAssumption == NoService \notin Service

EmptyStore == [services |-> [i \in Id |-> NoService],
               cache |-> [h \in Host |-> [list |-> {}, fresh |-> FALSE]]]

First(S) == IF S = {} THEN NoService ELSE CHOOSE s \in S : \A t \in S : s.id <= t.id

(* by_host: all the services of a host with path routing, or the first.    *)
ByHost(config, routing, h) ==
  LET S == {s \in config : h \in s.hosts} IN
  IF routing = "host" /\ S # {} THEN {First(S)} ELSE S

StoreServices_Shifted(services, config) ==   \* mutant: under the id of the first one
  [i \in Id |-> IF \E s \in config : s.id = i THEN First(config) ELSE services[i]]

StoreServices(services, config) ==
  [i \in Id |-> IF \E s \in config : s.id = i THEN CHOOSE s \in config : s.id = i
                ELSE services[i]]

(* store(): what the configuration does not speak of stays as it was.      *)
StoreConfig_KeepsHosts(store, config, routing) ==   \* mutant: a host that is there is not set
  [services |-> StoreServices(store.services, config),
   cache |-> [h \in Host |->
     LET S == ByHost(config, routing, h) IN
     IF S = {} \/ store.cache[h].list # {} THEN store.cache[h] ELSE [list |-> S, fresh |-> TRUE]]]

StoreConfig(store, config, routing) ==
  [services |-> StoreServices(store.services, config),
   cache |-> [h \in Host |->
     LET S == ByHost(config, routing, h) IN
     IF S = {} THEN store.cache[h] ELSE [list |-> S, fresh |-> TRUE]]]

(* An entry of the cache passes its ttl; resty.lrucache still has it.      *)
ExpireHost(store, h) == [store EXCEPT !.cache[h].fresh = FALSE]

(* configured(): find_by_host(host, false).                                *)
Configured(store, h) == store.cache[h].fresh /\ store.cache[h].list # {}

(* host_based_finder: a stale entry is used too, and the service must      *)
(* still be the one that find_by_id() returns.                             *)
HostFinder(store, h) ==
  First({s \in store.cache[h].list : h \in s.hosts /\ store.services[s.id] = s})

(* path_based_finder: the first service whose mapping rules match.         *)
PathFinder(store, h, matching) ==
  First({s \in store.cache[h].list : h \in s.hosts /\ s.id \in matching})

(* find_service_func                                                       *)
FindService(store, routing, h, matching) ==
  LET found == PathFinder(store, h, matching) IN
  CASE routing = "host" -> HostFinder(store, h)
    [] routing = "path only" -> found
    [] routing = "path" /\ found # NoService -> found
    [] OTHER -> HostFinder(store, h)

(* What the documentation of the routing modes says of a configuration.    *)
Resolve(conf, routing, h, matching) ==
  LET S == {s \in conf : h \in s.hosts}
      matched == {s \in S : s.id \in matching} IN
  IF routing = "host" \/ (routing = "path" /\ matched = {}) THEN First(S) ELSE First(matched)

StoreOK(store) ==
  /\ store \in [services : [Id -> Service \cup {NoService}], cache : [Host -> Entry]]
  /\ \A i \in Id : store.services[i] # NoService => store.services[i].id = i
=============================================================================
