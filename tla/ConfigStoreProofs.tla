-------------------------- MODULE ConfigStoreProofs --------------------------
(***************************************************************************)
(* Lemmas about the configuration store: after store() of a configuration, *)
(* every host that the configuration speaks of is served as the            *)
(* configuration says, whatever the store held before.                     *)
(***************************************************************************)
EXTENDS ConfigStore, WellFoundedInduction, TLAPS

(* A configuration as the portal's answers make it: one service of an id.  *)
Configuration(conf) ==
  conf \subseteq Service /\ \A s, t \in conf : s.id = t.id => s = t

(* First picks a service of the set, the one of the least id.              *)
LEMMA FirstOf ==
  ASSUME NEW S, S \subseteq Service, S # {}
  PROVE  First(S) \in S /\ \A t \in S : First(S).id <= t.id
<1> DEFINE ids == {s.id : s \in S}
           R   == OpToRel(<, Nat)
<1>1. ids \subseteq Nat /\ ids # {}
  BY StoreAssumption DEF Service
<1>2. IsWellFoundedOn(R, Nat)
  BY NatLessThanWellFounded
<1>3. \E x \in ids : \A y \in ids : ~(<<y, x>> \in R)
  <2> HIDE DEF ids, R
  <2> QED BY <1>1, <1>2, WFMin
<1>4. PICK x \in ids : \A y \in ids : ~(y < x)
  BY <1>1, <1>3 DEF OpToRel
<1>5. \E s \in S : \A t \in S : s.id <= t.id
  <2>1. PICK s \in S : s.id = x
    OBVIOUS
  <2>2. \A t \in S : t.id \in ids
    OBVIOUS
  <2> HIDE DEF ids, R
  <2>3. \A t \in S : t.id \in Nat /\ ~(t.id < x)
    BY <1>1, <1>4, <2>2
  <2> QED BY <1>1, <1>4, <2>1, <2>3
<1> QED BY <1>5 DEF First

(* The services that a store has for a host are those of a configuration.  *)
Serves(store, conf, routing, h) ==
  /\ store.cache[h].list = ByHost(conf, routing, h)
  /\ \A s \in conf : store.services[s.id] = s

(* Then a request for the host is routed as the configuration says.        *)
LEMMA ServedIsResolved ==
  ASSUME NEW conf, Configuration(conf), NEW store, NEW routing \in Routing, NEW h,
         NEW matching, Serves(store, conf, routing, h)
  PROVE  FindService(store, routing, h, matching) = Resolve(conf, routing, h, matching)
<1> DEFINE S == {s \in conf : h \in s.hosts}
<1>1. HostFinder(store, h) = First(S)
  <2>1. CASE routing = "host" /\ S # {}
    <3>1. First(S) \in S
      BY <2>1, FirstOf DEF Configuration
    <3>2. {s \in {First(S)} : h \in s.hosts /\ store.services[s.id] = s} = {First(S)}
      BY <3>1 DEF Serves
    <3>3. First({First(S)}) = First(S)
      <4>1. First(S) \in Service
        BY <3>1 DEF Configuration
      <4> QED BY <4>1, FirstOf
    <3>4. store.cache[h].list = {First(S)}
      BY <2>1 DEF Serves, ByHost
    <3> QED BY <3>2, <3>3, <3>4 DEF HostFinder
  <2>2. CASE ~(routing = "host" /\ S # {})
    <3>1. store.cache[h].list = S
      BY <2>2 DEF Serves, ByHost
    <3>2. {s \in S : h \in s.hosts /\ store.services[s.id] = s} = S
      BY DEF Serves
    <3> QED BY <3>1, <3>2 DEF HostFinder
  <2> QED BY <2>1, <2>2
<1>2. ASSUME routing # "host"
      PROVE  PathFinder(store, h, matching) = First({s \in S : s.id \in matching})
  <2>1. store.cache[h].list = S
    BY <1>2 DEF Serves, ByHost
  <2>2. {s \in S : h \in s.hosts /\ s.id \in matching} = {s \in S : s.id \in matching}
    OBVIOUS
  <2> QED BY <2>1, <2>2 DEF PathFinder
<1>3. First({s \in S : s.id \in matching}) = NoService <=> {s \in S : s.id \in matching} = {}
  <2>1. CASE {s \in S : s.id \in matching} # {}
    <3>1. First({s \in S : s.id \in matching}) \in Service
      BY <2>1, FirstOf DEF Configuration
    <3> QED BY <2>1, <3>1, NoServiceAssumption
  <2>2. CASE {s \in S : s.id \in matching} = {}
    BY <2>2 DEF First
  <2> QED BY <2>1, <2>2
<1> HIDE DEF S
<1>4. Resolve(conf, routing, h, matching) =
        IF routing = "host" \/ (routing = "path" /\ {s \in S : s.id \in matching} = {})
        THEN First(S) ELSE First({s \in S : s.id \in matching})
  BY DEF Resolve, S
<1>5. CASE routing = "host"
  BY <1>1, <1>4, <1>5 DEF FindService
<1>6. CASE routing = "path only"
  BY <1>2, <1>4, <1>6 DEF FindService
<1>7. CASE routing = "path"
  <2>1. CASE {s \in S : s.id \in matching} = {}
    <3>1. PathFinder(store, h, matching) = NoService
      BY <1>2, <1>3, <1>7, <2>1
    <3>2. FindService(store, routing, h, matching) = HostFinder(store, h)
      BY <1>7, <3>1 DEF FindService
    <3> QED BY <1>1, <1>4, <1>7, <2>1, <3>2
  <2>2. CASE {s \in S : s.id \in matching} # {}
    <3>1. PathFinder(store, h, matching) # NoService
      BY <1>2, <1>3, <1>7, <2>2
    <3>2. FindService(store, routing, h, matching) = PathFinder(store, h, matching)
      BY <1>7, <3>1 DEF FindService
    <3> QED BY <1>2, <1>4, <1>7, <2>2, <3>2
  <2> QED BY <2>1, <2>2
<1> QED BY <1>5, <1>6, <1>7 DEF Routing

(* What a store has after store() of a configuration.                      *)
LEMMA StoredServes ==
  ASSUME NEW conf, Configuration(conf), NEW store, NEW routing \in Routing
  PROVE  LET new == StoreConfig(store, conf, routing) IN
         /\ \A s \in conf : new.services[s.id] = s
         /\ \A h \in Host : IF \E s \in conf : h \in s.hosts
                            THEN new.cache[h].list = ByHost(conf, routing, h)
                            ELSE new.cache[h] = store.cache[h]
<1>1. ASSUME NEW s \in conf PROVE StoreServices(store.services, conf)[s.id] = s
  <2>1. s.id \in Id
    BY DEF Configuration, Service
  <2>2. (CHOOSE t \in conf : t.id = s.id) = s
    BY DEF Configuration
  <2> QED BY <2>1, <2>2 DEF StoreServices
<1>2. ASSUME NEW h \in Host
      PROVE  ByHost(conf, routing, h) = {} <=> ~\E s \in conf : h \in s.hosts
  BY DEF ByHost
<1> QED BY <1>1, <1>2 DEF StoreConfig

(* A stored configuration is a store of the right shape.                   *)
LEMMA StoreKept ==
  ASSUME NEW conf, Configuration(conf), NEW store, StoreOK(store), NEW routing \in Routing
  PROVE  StoreOK(StoreConfig(store, conf, routing))
<1>1. ASSUME NEW i \in Id
      PROVE  /\ StoreServices(store.services, conf)[i] \in Service \cup {NoService}
             /\ StoreServices(store.services, conf)[i] # NoService
                  => StoreServices(store.services, conf)[i].id = i
  <2>1. CASE \E s \in conf : s.id = i
    <3>1. (CHOOSE s \in conf : s.id = i) \in conf /\ (CHOOSE s \in conf : s.id = i).id = i
      BY <2>1
    <3> QED BY <2>1, <3>1 DEF StoreServices, Configuration
  <2>2. CASE ~\E s \in conf : s.id = i
    BY <2>2 DEF StoreServices, StoreOK
  <2> QED BY <2>1, <2>2
<1>2. StoreServices(store.services, conf) \in [Id -> Service \cup {NoService}]
  BY <1>1 DEF StoreServices
<1>3. ASSUME NEW h \in Host PROVE ByHost(conf, routing, h) \in SUBSET Service
  <2> DEFINE S == {s \in conf : h \in s.hosts}
  <2>1. S \subseteq Service /\ (S # {} => First(S) \in S)
    BY FirstOf DEF Configuration
  <2> QED BY <2>1 DEF ByHost
<1> QED BY <1>1, <1>2, <1>3 DEF StoreConfig, StoreOK, Entry

(* A ttl that passes changes nobody's service.                             *)
LEMMA ExpiredServes ==
  ASSUME NEW store, StoreOK(store), NEW h \in Host
  PROVE  /\ StoreOK(ExpireHost(store, h))
         /\ ExpireHost(store, h).services = store.services
         /\ \A g \in Host : ExpireHost(store, h).cache[g].list = store.cache[g].list
<1> DEFINE entry == [store.cache[h] EXCEPT !.fresh = FALSE]
           cache == [store.cache EXCEPT ![h] = entry]
<1>1. ExpireHost(store, h) = [store EXCEPT !.cache = cache]
  BY DEF ExpireHost
<1>2. store.cache \in [Host -> Entry] /\ store.services \in [Id -> Service \cup {NoService}]
  BY DEF StoreOK
<1>3. entry \in Entry /\ entry.list = store.cache[h].list
  BY <1>2 DEF Entry
<1> HIDE DEF entry
<1>4. cache \in [Host -> Entry] /\ \A g \in Host : cache[g].list = store.cache[g].list
  BY <1>2, <1>3
<1> HIDE DEF cache
<1>5. ExpireHost(store, h) = [services |-> store.services, cache |-> cache]
  BY <1>1 DEF StoreOK
<1> QED BY <1>2, <1>4, <1>5 DEF StoreOK
=============================================================================
