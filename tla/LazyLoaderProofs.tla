-------------------------- MODULE LazyLoaderProofs --------------------------
(***************************************************************************)
(* Proofs about the lazy configuration loader: nobody is forgotten with a  *)
(* semaphore, a request finds what it loaded itself and nothing older than *)
(* it allows, and the two caches of the store agree.                       *)
(***************************************************************************)
EXTENDS LazyLoader, ConfigStoreProofs, FiniteSetTheorems

(* Each resource of a semaphore is free, held or lost with a killed        *)
(* caller, and all who wait for a semaphore or took it call with the key   *)
(* that it was made for.                                                   *)
Took(s) == {c \in Caller : pc[c] \in {"running", "killed"} /\ sema[c] = s}

Has(c) == sema[c] \in Caller /\ KeyOf[sema[c]] = KeyOf[c]

Keyed == \A k \in Key : semaphores[k] # None => KeyOf[semaphores[k]] = k

Semaphores ==
  /\ SyncTypeOK /\ Keyed
  /\ \A s \in Caller : /\ IsFiniteSet(Took(s))
                       /\ resources[s] = Size - Cardinality(Took(s))
  /\ \A c \in Caller : pc[c] \in {"waiting", "running", "killed"} => Has(c)

-----------------------------------------------------------------------------
(* A caller takes a resource.                                              *)
LEMMA TakesResource ==
  ASSUME Semaphores, NEW c \in Caller, NEW s \in Caller, pc[c] \in {"idle", "waiting"},
         resources[s] > 0, semaphores' \in [Key -> Caller \cup {None}], Keyed',
         resources' = [resources EXCEPT ![s] = resources[s] - 1], KeyOf[s] = KeyOf[c],
         sema' = [sema EXCEPT ![c] = s], pc' = [pc EXCEPT ![c] = "running"]
  PROVE  Semaphores'
<1> USE DEF Semaphores, SyncTypeOK
<1>0. Size \in Nat \ {0}
  BY SynchronizationAssumption
<1>1. /\ Took(s)' = Took(s) \cup {c} /\ c \notin Took(s)
      /\ \A t \in Caller \ {s} : Took(t)' = Took(t)
  BY DEF Took
<1>2. /\ IsFiniteSet(Took(s)') /\ Cardinality(Took(s)') = Cardinality(Took(s)) + 1
      /\ Cardinality(Took(s)) \in Nat
  BY <1>1, FS_AddElement, FS_CardinalityType
<1>3. resources[s] - 1 \in 0..Size
  BY <1>0
<1>4. ASSUME NEW t \in Caller
      PROVE  IsFiniteSet(Took(t)') /\ resources'[t] = Size - Cardinality(Took(t)')
  <2>1. CASE t = s
    <3>1. resources'[s] = resources[s] - 1 /\ resources[s] = Size - Cardinality(Took(s))
      OBVIOUS
    <3>2. resources[s] - 1 = Size - (Cardinality(Took(s)) + 1)
      BY <1>0, <1>2, <3>1
    <3> QED BY <1>2, <2>1, <3>1, <3>2
  <2>2. CASE t # s
    BY <1>1, <2>2
  <2> QED BY <2>1, <2>2
<1>5. ASSUME NEW d \in Caller, pc'[d] \in {"waiting", "running", "killed"} PROVE Has(d)'
  <2>1. CASE d = c
    <3>1. sema'[d] = s
      BY <2>1
    <3> QED BY <2>1, <3>1 DEF Has
  <2>2. CASE d # c
    <3>1. sema'[d] = sema[d] /\ pc'[d] = pc[d]
      BY <2>2
    <3>2. Has(d)
      BY <1>5, <3>1
    <3> QED BY <3>1, <3>2 DEF Has
  <2> QED BY <2>1, <2>2
<1>6. SyncTypeOK'
  BY <1>3
<1> QED BY <1>4, <1>5, <1>6

(* A step that takes no resource and gives none back.                      *)
LEMMA KeepsResources ==
  ASSUME Semaphores, SyncTypeOK', Keyed', UNCHANGED resources,
         \A c \in Caller : pc'[c] \in {"running", "killed"} <=> pc[c] \in {"running", "killed"},
         \A c \in Caller : pc'[c] = "waiting" => Has(c)',
         \A c \in Caller : pc[c] \in {"running", "killed"} => sema'[c] = sema[c]
  PROVE  Semaphores'
<1>1. \A s \in Caller : Took(s)' = Took(s)
  BY DEF Took
<1>2. \A c \in Caller : pc'[c] \in {"running", "killed"} => Has(c)'
  BY DEF Has, Semaphores
<1>3. \A s \in Caller : IsFiniteSet(Took(s)') /\ resources'[s] = Size - Cardinality(Took(s)')
  BY <1>1 DEF Semaphores
<1> QED BY <1>2, <1>3 DEF Semaphores

(* Synchronization:run(), from its call to its return.                     *)
LEMMA SemaphoresRun ==
  ASSUME Semaphores, NEW c \in Caller,
         Run(c) \/ Wake(c) \/ TimeOut(c) \/ Abort(c) \/ Return(c)
  PROVE  Semaphores'
<1> SyncTypeOK /\ Keyed /\ Size \in Nat \ {0} /\ KeyOf[c] \in Key /\ None \notin Caller
  BY SynchronizationAssumption DEF Semaphores
<1>1. CASE Run(c)
  <2> DEFINE s == IF semaphores[KeyOf[c]] = None THEN c ELSE semaphores[KeyOf[c]]
             free == resources[s] > 0 /\ Waiting(s) = {}
  <2>1. /\ pc[c] = "idle" /\ semaphores' = [semaphores EXCEPT ![KeyOf[c]] = s]
        /\ sema' = [sema EXCEPT ![c] = s]
        /\ resources' = IF free THEN [resources EXCEPT ![s] = resources[s] - 1] ELSE resources
        /\ pc' = [pc EXCEPT ![c] = IF free THEN "running"
                                   ELSE IF c \in Impatient THEN "over" ELSE "waiting"]
    BY <1>1 DEF Run
  <2>2. s \in Caller /\ KeyOf[s] = KeyOf[c]
    BY DEF SyncTypeOK, Keyed
  <2>3. free => resources[s] > 0
    OBVIOUS
  <2> HIDE DEF s, free
  <2>4. semaphores' \in [Key -> Caller \cup {None}] /\ Keyed'
    BY <2>1, <2>2 DEF SyncTypeOK, Keyed
  <2>5. CASE free
    <3>1. resources' = [resources EXCEPT ![s] = resources[s] - 1] /\ pc' = [pc EXCEPT ![c] = "running"]
      BY <2>1, <2>5
    <3> QED BY <2>1, <2>2, <2>3, <2>4, <2>5, <3>1, TakesResource
  <2>6. CASE ~free
    <3>1. SyncTypeOK' /\ UNCHANGED resources
      BY <2>1, <2>2, <2>4, <2>6 DEF SyncTypeOK
    <3>2. /\ pc'[c] \in {"over", "waiting"} /\ sema'[c] = s
          /\ \A d \in Caller \ {c} : pc'[d] = pc[d] /\ sema'[d] = sema[d]
      BY <2>1, <2>2, <2>6 DEF SyncTypeOK
    <3>3. \A d \in Caller : pc'[d] = "waiting" => Has(d)'
      BY <2>2, <3>2 DEF Semaphores, Has
    <3>4. \A d \in Caller : pc'[d] \in {"running", "killed"} <=> pc[d] \in {"running", "killed"}
      BY <2>1, <3>2
    <3>5. \A d \in Caller : pc[d] \in {"running", "killed"} => sema'[d] = sema[d]
      BY <2>1, <3>2
    <3> QED BY <2>4, <3>1, <3>3, <3>4, <3>5, KeepsResources
  <2> QED BY <2>5, <2>6
<1>2. CASE Wake(c)
  <2>1. /\ pc[c] = "waiting" /\ resources[sema[c]] > 0
        /\ sema[c] \in Caller /\ KeyOf[sema[c]] = KeyOf[c]
        /\ resources' = [resources EXCEPT ![sema[c]] = resources[sema[c]] - 1]
        /\ pc' = [pc EXCEPT ![c] = "running"] /\ UNCHANGED <<semaphores, sema>>
    BY <1>2 DEF Wake, Semaphores, Has
  <2>2. sema' = [sema EXCEPT ![c] = sema[c]] /\ semaphores' \in [Key -> Caller \cup {None}] /\ Keyed'
    BY <2>1 DEF SyncTypeOK, Keyed
  <2> QED BY <2>1, <2>2, TakesResource
<1>3. CASE TimeOut(c) \/ Abort(c)
  <2>1. /\ pc[c] \in {"waiting", "running"} /\ UNCHANGED <<semaphores, resources, sema>>
        /\ \/ pc[c] = "waiting" /\ pc' = [pc EXCEPT ![c] = "over"]
           \/ pc[c] = "waiting" /\ pc' = [pc EXCEPT ![c] = "gone"]
           \/ pc[c] = "running" /\ pc' = [pc EXCEPT ![c] = "killed"]
    BY <1>3 DEF TimeOut, Abort, SyncTypeOK
  <2>2. SyncTypeOK' /\ Keyed'
    BY <2>1 DEF SyncTypeOK, Keyed
  <2>3. \A d \in Caller :
          /\ pc'[d] \in {"running", "killed"} <=> pc[d] \in {"running", "killed"}
          /\ pc'[d] = "waiting" => pc[d] = "waiting"
    BY <2>1 DEF SyncTypeOK
  <2>4. \A d \in Caller : pc'[d] = "waiting" => Has(d)'
    BY <2>1, <2>3 DEF Semaphores, Has
  <2> QED BY <2>1, <2>2, <2>3, <2>4, KeepsResources
<1>4. CASE Return(c)
  <2>0. PICK s \in Caller : s = sema[c]
    BY <1>4 DEF Return, Semaphores, Has
  <2>1. /\ pc[c] = "running"
        /\ semaphores' = [semaphores EXCEPT ![KeyOf[c]] = None]
        /\ resources' = [resources EXCEPT ![s] = resources[s] + 1]
        /\ pc' = [pc EXCEPT ![c] = "over"] /\ UNCHANGED sema
    BY <1>4, <2>0 DEF Return
  <2>2. /\ Took(s)' = Took(s) \ {c} /\ c \in Took(s)
        /\ \A t \in Caller \ {s} : Took(t)' = Took(t)
    BY <2>0, <2>1 DEF Took, SyncTypeOK
  <2>3. IsFiniteSet(Took(s)) /\ resources[s] = Size - Cardinality(Took(s))
    BY <2>1 DEF Semaphores
  <2>4. /\ IsFiniteSet(Took(s)') /\ Cardinality(Took(s)') = Cardinality(Took(s)) - 1
        /\ Cardinality(Took(s)) \in Nat /\ Cardinality(Took(s)') \in Nat
    BY <2>2, <2>3, FS_RemoveElement, FS_CardinalityType
  <2>5. resources[s] + 1 = Size - Cardinality(Took(s)') /\ resources[s] + 1 \in 0..Size
    BY <2>1, <2>3, <2>4 DEF SyncTypeOK
  <2>6. SyncTypeOK' /\ Keyed'
    BY <2>1, <2>5 DEF SyncTypeOK, Keyed
  <2>7. ASSUME NEW t \in Caller
        PROVE  IsFiniteSet(Took(t)') /\ resources'[t] = Size - Cardinality(Took(t)')
    <3>1. CASE t = s
      <4>1. resources'[s] = resources[s] + 1
        BY <2>1 DEF SyncTypeOK
      <4> QED BY <2>4, <2>5, <3>1, <4>1
    <3>2. CASE t # s
      BY <2>1, <2>2, <3>2 DEF Semaphores, SyncTypeOK
    <3> QED BY <3>1, <3>2
  <2>8. \A d \in Caller : pc'[d] \in {"waiting", "running", "killed"} => Has(d)'
    BY <2>1 DEF Semaphores, SyncTypeOK, Has
  <2> QED BY <2>6, <2>7, <2>8 DEF Semaphores
<1> QED BY <1>1, <1>2, <1>3, <1>4

-----------------------------------------------------------------------------
(* What a request has loaded: services of its host, one of an id, that are *)
(* not older than the request, if it is to be served nothing older.        *)
Answered(r) ==
  /\ answer[r] = NoAnswer \/ answer[r] = Failed \/ GotConfig(r)
  /\ GotConfig(r) => /\ Configuration(answer[r].services)
                     /\ \A s \in answer[r].services :
                          KeyOf[r] \in s.hosts /\ arrived[r][s.id] <= s.version
  /\ pc[r] \in {"idle", "waiting"} => answer[r] = NoAnswer
Arrived(r) == \A i \in Id : arrived[r][i] <= version[i]

(* What a request has found.                                               *)
FoundOwn(r) ==
  IF pc[r] # "over" THEN found[r] = NoService
  ELSE /\ GotConfig(r) /\ answer[r].services # {} =>
            found[r] = Resolve(answer[r].services, routing, KeyOf[r], MatchesOf[r])
       /\ ttl = "zero" /\ ~(GotConfig(r) /\ answer[r].services # {}) => found[r] = NoService

Lazy == /\ TypeOK /\ Semaphores
        /\ \A r \in Caller : Answered(r) /\ Arrived(r) /\ FoundOwn(r)

-----------------------------------------------------------------------------
(* An empty store knows no service, and no service is found in it.         *)
LEMMA NothingInEmpty ==
  ASSUME NEW h \in Host, NEW matching, NEW rt
  PROVE  StoreOK(EmptyStore) /\ FindService(EmptyStore, rt, h, matching) = NoService
<1>1. StoreOK(EmptyStore) /\ EmptyStore.cache[h].list = {}
  BY DEF StoreOK, EmptyStore, Entry
<1>2. HostFinder(EmptyStore, h) = NoService
  BY <1>1 DEF HostFinder, First
<1>3. PathFinder(EmptyStore, h, matching) = NoService
  BY <1>1 DEF PathFinder, First
<1> QED BY <1>1, <1>2, <1>3 DEF FindService

(* A request that loaded services for its host finds one of them in the    *)
(* store that it gave them to, whatever else is there.                     *)
LEMMA LoadedIsFound ==
  ASSUME TypeOK, NEW r \in Caller, Answered(r), GotConfig(r), answer[r].services # {},
         NEW st
  PROVE  Find(StoreConfig(st, answer[r].services, routing), r)
           = Resolve(answer[r].services, routing, KeyOf[r], MatchesOf[r])
<1> DEFINE conf == answer[r].services
           new  == StoreConfig(st, conf, routing)
           h    == KeyOf[r]
<1>1. /\ Configuration(conf) /\ h \in Host /\ routing \in Routing
      /\ \E s \in conf : h \in s.hosts
  BY SynchronizationAssumption, LazyAssumption DEF Answered, TypeOK
<1>2. Serves(new, conf, routing, h)
  <2>1. \A s \in conf : new.services[s.id] = s
    BY <1>1, StoredServes
  <2>2. new.cache[h].list = ByHost(conf, routing, h)
    BY <1>1, StoredServes
  <2> QED BY <2>1, <2>2 DEF Serves
<1> HIDE DEF conf, new, h
<1>3. FindService(new, routing, h, MatchesOf[r]) = Resolve(conf, routing, h, MatchesOf[r])
  BY <1>1, <1>2, ServedIsResolved
<1> QED BY <1>3 DEF Find, conf, new, h

(* What a request is routed to is a service of the configuration, or none. *)
LEMMA ResolvesInside ==
  ASSUME NEW conf, Configuration(conf), NEW rt, NEW h, NEW matching
  PROVE  Resolve(conf, rt, h, matching) \in conf \cup {NoService}
<1> DEFINE S == {s \in conf : h \in s.hosts}
           matched == {s \in S : s.id \in matching}
<1>1. First(S) \in conf \cup {NoService} /\ First(matched) \in conf \cup {NoService}
  <2>1. S # {} => First(S) \in S
    BY FirstOf DEF Configuration
  <2>2. matched # {} => First(matched) \in matched
    BY FirstOf DEF Configuration
  <2>3. S = {} => First(S) = NoService
    BY DEF First
  <2>4. matched = {} => First(matched) = NoService
    BY DEF First
  <2> HIDE DEF First
  <2> QED BY <2>1, <2>2, <2>3, <2>4
<1> QED BY <1>1 DEF Resolve

(* What is found in a store is a service, or none.                         *)
LEMMA FoundInStore ==
  ASSUME NEW st, StoreOK(st), NEW h \in Host, NEW matching, NEW rt
  PROVE  FindService(st, rt, h, matching) \in Service \cup {NoService}
<1>1. ASSUME NEW S, S \subseteq st.cache[h].list PROVE First(S) \in Service \cup {NoService}
  <2>1. S \subseteq Service
    BY <1>1 DEF StoreOK, Entry
  <2>2. CASE S = {}
    BY <2>2 DEF First
  <2>3. CASE S # {}
    BY <2>1, <2>3, FirstOf
  <2> QED BY <2>2, <2>3
<1>2. HostFinder(st, h) \in Service \cup {NoService}
  BY <1>1 DEF HostFinder
<1>3. PathFinder(st, h, matching) \in Service \cup {NoService}
  BY <1>1 DEF PathFinder
<1> QED BY <1>2, <1>3 DEF FindService

-----------------------------------------------------------------------------
(* A step of one request leaves the others alone.                          *)
LEMMA OthersLazy ==
  ASSUME Lazy, TypeOK', Semaphores', NEW r \in Caller,
         UNCHANGED <<ttl, routing, version>>,
         \A q \in Caller \ {r} : /\ pc'[q] = pc[q] /\ answer'[q] = answer[q]
                                 /\ found'[q] = found[q] /\ arrived'[q] = arrived[q],
         Answered(r)', Arrived(r)', FoundOwn(r)'
  PROVE  Lazy'
<1>1. ASSUME NEW q \in Caller, q # r PROVE Answered(q)' /\ Arrived(q)' /\ FoundOwn(q)'
  BY <1>1 DEF Lazy, Answered, Arrived, FoundOwn, GotConfig
<1> QED BY <1>1 DEF Lazy

(* rewrite() finds a fresh entry: nothing is loaded.                       *)
LEMMA LazyHit == ASSUME Lazy, NEW r \in Caller, Hit(r) PROVE Lazy'
<1> TypeOK /\ Semaphores /\ Answered(r) /\ Arrived(r) /\ FoundOwn(r)
  BY DEF Lazy
<1>1. /\ pc[r] = "idle" /\ ttl # "zero" /\ found' = [found EXCEPT ![r] = Find(store, r)]
      /\ pc' = [pc EXCEPT ![r] = "over"]
      /\ UNCHANGED <<semaphores, resources, sema, ttl, routing, portal, version, store, answer,
                     arrived, failures, kills>>
  BY DEF Hit, OwnStore, config, bounds
<1>2. Find(store, r) \in Service \cup {NoService}
  BY FoundInStore, SynchronizationAssumption, LazyAssumption DEF Find, TypeOK
<1>3. SyncTypeOK' /\ TypeOK'
  BY <1>1, <1>2 DEF TypeOK, SyncTypeOK
<1>4. Semaphores'
  <2>1. \A d \in Caller : /\ pc'[d] \in {"running", "killed"} <=> pc[d] \in {"running", "killed"}
                          /\ pc'[d] = "waiting" => pc[d] = "waiting"
    BY <1>1 DEF TypeOK, SyncTypeOK
  <2>2. Keyed' /\ \A d \in Caller : pc'[d] = "waiting" => Has(d)'
    BY <1>1, <2>1 DEF Semaphores, Keyed, Has
  <2> QED BY <1>1, <1>3, <2>1, <2>2, KeepsResources
<1>5. pc'[r] = "over" /\ ~GotConfig(r)
  BY <1>1 DEF TypeOK, SyncTypeOK, Answered, GotConfig, NoAnswer
<1>6. Answered(r)' /\ Arrived(r)' /\ FoundOwn(r)'
  BY <1>1, <1>5 DEF Answered, Arrived, FoundOwn, GotConfig
<1>7. \A q \in Caller \ {r} : pc'[q] = pc[q] /\ found'[q] = found[q]
  BY <1>1 DEF TypeOK, SyncTypeOK
<1> QED BY <1>1, <1>3, <1>4, <1>6, <1>7, OthersLazy

(* A load is needed: the request calls run(), and waits or goes on.        *)
LEMMA LazyMiss == ASSUME Lazy, NEW r \in Caller, Miss(r) \/ Resume(r) PROVE Lazy'
<1> TypeOK /\ Semaphores /\ Answered(r) /\ Arrived(r) /\ FoundOwn(r)
  BY DEF Lazy
<1>1. /\ Run(r) \/ Wake(r)
      /\ pc[r] \in {"idle", "waiting"}
      /\ arrived' = arrived \/ (ttl = "zero" /\ arrived' = [arrived EXCEPT ![r] = version])
      /\ UNCHANGED <<ttl, routing, portal, version, store, answer, found, failures, kills>>
  BY DEF Miss, Resume, Run, Wake, Arrive, config, bounds
<1>2. Semaphores'
  BY <1>1, SemaphoresRun
<1>3. TypeOK'
  BY <1>1, <1>2 DEF TypeOK, Semaphores
<1>4. \A q \in Caller \ {r} : pc'[q] = pc[q] /\ arrived'[q] = arrived[q]
  BY <1>1 DEF Run, Wake, TypeOK, SyncTypeOK
<1>5. answer[r] = NoAnswer /\ pc[r] # "over" /\ ~GotConfig(r)
  BY <1>1 DEF Answered, GotConfig, NoAnswer, Run, Wake
<1>6. Arrived(r)'
  BY <1>1, StoreAssumption DEF Arrived, TypeOK, Version
<1>7. Answered(r)' /\ FoundOwn(r)'
  BY <1>1, <1>5 DEF Answered, FoundOwn, GotConfig
<1> QED BY <1>1, <1>2, <1>3, <1>4, <1>6, <1>7, OthersLazy

(* The portal answers with the services of the host, or fails.             *)
LEMMA LazyFetch == ASSUME Lazy, NEW r \in Caller, Fetch(r) \/ FetchFails(r) PROVE Lazy'
<1> TypeOK /\ Semaphores /\ Answered(r) /\ Arrived(r) /\ FoundOwn(r) /\ KeyOf[r] \in Host
  BY SynchronizationAssumption, LazyAssumption DEF Lazy
<1> DEFINE conf == OfHost(KeyOf[r], r)
<1>1. /\ Configuration(conf)
      /\ \A s \in conf : KeyOf[r] \in s.hosts /\ arrived[r][s.id] <= s.version
  <2>1. \A s \in conf : s \in Service /\ KeyOf[r] \in s.hosts /\ arrived[r][s.id] <= s.version
    BY LazyAssumption DEF OfHost, Service, TypeOK, Arrived
  <2>2. \A s, t \in conf : s.id = t.id => s = t
    BY DEF OfHost
  <2> QED BY <2>1, <2>2 DEF Configuration
<1> DEFINE got == [status |-> "config", services |-> conf]
<1>2. /\ pc[r] = "running"
      /\ answer' = [answer EXCEPT ![r] = got] \/ answer' = [answer EXCEPT ![r] = Failed]
      /\ failures' \in 0..MaxFailures
      /\ UNCHANGED <<syncVars, ttl, routing, portal, version, store, found, arrived, kills>>
  BY LazyAssumption DEF Fetch, FetchFails, config, bounds, TypeOK
<1>3. /\ got \in [status : {"none", "failed", "config"}, services : SUBSET Service]
      /\ Failed \in [status : {"none", "failed", "config"}, services : SUBSET Service]
  BY <1>1 DEF Configuration, Failed
<1> HIDE DEF conf, got
<1>4. SyncTypeOK' /\ TypeOK' /\ Semaphores'
  <2>1. answer' \in [Caller -> [status : {"none", "failed", "config"}, services : SUBSET Service]]
    BY <1>2, <1>3 DEF TypeOK
  <2>2. SyncTypeOK' /\ TypeOK'
    BY <1>2, <2>1 DEF TypeOK, SyncTypeOK, syncVars
  <2>3. Semaphores'
    BY <1>2, <2>2 DEF syncVars, Semaphores, Keyed, Has, Took
  <2> QED BY <2>2, <2>3
<1>5. \A q \in Caller \ {r} : answer'[q] = answer[q]
  BY <1>2 DEF TypeOK
<1>6. answer'[r] = Failed \/ answer'[r] = got
  BY <1>2 DEF TypeOK
<1>7. Answered(r)' /\ Arrived(r)' /\ FoundOwn(r)'
  BY <1>1, <1>2, <1>6 DEF Answered, Arrived, FoundOwn, GotConfig, Failed, syncVars, got
<1> QED BY <1>2, <1>4, <1>5, <1>7, OthersLazy DEF syncVars

(* What was loaded is stored, and the service is looked up.                *)
LEMMA LazyLoaded == ASSUME Lazy, NEW r \in Caller, Loaded(r) PROVE Lazy'
<1> TypeOK /\ Semaphores /\ Answered(r) /\ Arrived(r) /\ FoundOwn(r)
  BY DEF Lazy
<1> DEFINE mine == Configure(IF OwnStore THEN EmptyStore ELSE store, r)
<1>1. /\ answer[r] # NoAnswer /\ Return(r) /\ pc' = [pc EXCEPT ![r] = "over"]
      /\ store' = IF OwnStore THEN store ELSE mine
      /\ found' = [found EXCEPT ![r] = Find(mine, r)]
      /\ UNCHANGED <<ttl, routing, portal, version, answer, arrived, failures, kills>>
  BY DEF Loaded, Return, config, bounds
<1>2. /\ KeyOf[r] \in Host /\ routing \in Routing /\ StoreOK(store) /\ StoreOK(EmptyStore)
      /\ Find(EmptyStore, r) = NoService
  BY NothingInEmpty, SynchronizationAssumption, LazyAssumption DEF TypeOK, Find
<1>3. StoreOK(mine)
  BY <1>2, StoreKept DEF Configure, Answered
<1>4. Find(mine, r) \in Service \cup {NoService}
  <2> HIDE DEF mine
  <2> QED BY <1>2, <1>3, FoundInStore DEF Find
<1>5. GotConfig(r) /\ answer[r].services # {} =>
        Find(mine, r) = Resolve(answer[r].services, routing, KeyOf[r], MatchesOf[r])
  BY LoadedIsFound DEF Configure
<1>6. ttl = "zero" /\ ~(GotConfig(r) /\ answer[r].services # {}) => Find(mine, r) = NoService
  <2> SUFFICES ASSUME ttl = "zero", ~(GotConfig(r) /\ answer[r].services # {})
               PROVE  Find(mine, r) = NoService
    OBVIOUS
  <2>1. CASE ~GotConfig(r)
    BY <1>2, <2>1 DEF Configure, OwnStore
  <2>2. CASE answer[r].services = {} /\ GotConfig(r)
    <3>1. mine = StoreConfig(EmptyStore, {}, routing)
      BY <2>2 DEF Configure, OwnStore
    <3>2. mine.cache[KeyOf[r]].list = {}
      BY <1>2, <3>1 DEF StoreConfig, ByHost, EmptyStore
    <3> HIDE DEF mine
    <3>3. HostFinder(mine, KeyOf[r]) = NoService
      BY <3>2 DEF HostFinder, First
    <3>4. PathFinder(mine, KeyOf[r], MatchesOf[r]) = NoService
      BY <3>2 DEF PathFinder, First
    <3> QED BY <3>3, <3>4 DEF Find, FindService
  <2> QED BY <2>1, <2>2
<1> HIDE DEF mine
<1>7. Semaphores'
  BY <1>1, SemaphoresRun
<1>8. TypeOK'
  BY <1>1, <1>3, <1>4, <1>7 DEF TypeOK, Semaphores
<1>9. /\ \A q \in Caller \ {r} : pc'[q] = pc[q] /\ found'[q] = found[q]
      /\ pc'[r] = "over" /\ found'[r] = Find(mine, r)
  BY <1>1 DEF TypeOK, SyncTypeOK
<1>10. Answered(r)' /\ Arrived(r)' /\ FoundOwn(r)'
  BY <1>1, <1>5, <1>6, <1>9 DEF Answered, Arrived, FoundOwn, GotConfig
<1> QED BY <1>1, <1>7, <1>8, <1>9, <1>10, OthersLazy

(* Not let in in time: the store is used as it is.                         *)
LEMMA LazyGiveUp == ASSUME Lazy, NEW r \in Caller, GiveUp(r) PROVE Lazy'
<1> TypeOK /\ Semaphores /\ Answered(r) /\ Arrived(r) /\ FoundOwn(r)
  BY DEF Lazy
<1> DEFINE mine == IF OwnStore THEN EmptyStore ELSE store
<1>1. /\ TimeOut(r) /\ pc[r] = "waiting" /\ pc' = [pc EXCEPT ![r] = "over"]
      /\ found' = [found EXCEPT ![r] = Find(mine, r)]
      /\ UNCHANGED <<ttl, routing, portal, version, store, answer, arrived, failures, kills>>
  BY DEF GiveUp, TimeOut, config, bounds
<1>2. /\ KeyOf[r] \in Host /\ routing \in Routing /\ StoreOK(mine)
      /\ ttl = "zero" => Find(mine, r) = NoService
  BY NothingInEmpty, SynchronizationAssumption, LazyAssumption DEF TypeOK, Find, OwnStore
<1> HIDE DEF mine
<1>3. Find(mine, r) \in Service \cup {NoService}
  BY <1>2, FoundInStore DEF Find
<1>4. Semaphores'
  BY <1>1, SemaphoresRun
<1>5. TypeOK'
  BY <1>1, <1>3, <1>4 DEF TypeOK, Semaphores
<1>6. /\ \A q \in Caller \ {r} : pc'[q] = pc[q] /\ found'[q] = found[q]
      /\ pc'[r] = "over" /\ found'[r] = Find(mine, r) /\ ~GotConfig(r)
  BY <1>1 DEF TypeOK, SyncTypeOK, Answered, GotConfig, NoAnswer
<1>7. Answered(r)' /\ Arrived(r)' /\ FoundOwn(r)'
  BY <1>1, <1>2, <1>6 DEF Answered, Arrived, FoundOwn, GotConfig
<1> QED BY <1>1, <1>4, <1>5, <1>6, <1>7, OthersLazy

(* The request is killed: it has found nothing, whatever was on its way.   *)
LEMMA LazyKill == ASSUME Lazy, NEW r \in Caller, Kill(r) PROVE Lazy'
<1> TypeOK /\ Semaphores /\ Answered(r) /\ Arrived(r) /\ FoundOwn(r)
  BY DEF Lazy
<1>1. /\ Abort(r) /\ kills' \in 0..MaxKills
      /\ UNCHANGED <<ttl, routing, portal, version, store, answer, found, arrived, failures>>
  BY LazyAssumption DEF Kill, config, TypeOK
<1>2. Semaphores'
  BY <1>1, SemaphoresRun
<1>3. TypeOK'
  BY <1>1, <1>2 DEF TypeOK, Semaphores
<1>4. /\ \A q \in Caller \ {r} : pc'[q] = pc[q]
      /\ pc[r] # "over" /\ pc'[r] \in {"gone", "killed"}
  BY <1>1 DEF Abort, TypeOK, SyncTypeOK
<1>5. Answered(r)' /\ Arrived(r)' /\ FoundOwn(r)'
  BY <1>1, <1>4 DEF Answered, Arrived, FoundOwn, GotConfig
<1> QED BY <1>1, <1>2, <1>3, <1>4, <1>5, OthersLazy

(* The portal is edited, an entry expires.                                 *)
LEMMA LazyTime ==
  ASSUME Lazy, \/ \E i \in Id : \E H \in Edits[i] : Edit(i, H)
               \/ \E h \in Host : Expire(h)
  PROVE  Lazy'
<1> TypeOK /\ Semaphores
  BY DEF Lazy
<1>1. ASSUME NEW i \in Id, NEW H \in Edits[i], Edit(i, H) PROVE Lazy'
  <2>1. /\ version[i] < MaxEdits /\ version' = [version EXCEPT ![i] = version[i] + 1]
        /\ portal' = [portal EXCEPT ![i] = H] /\ H \in SUBSET Host
        /\ UNCHANGED <<syncVars, ttl, routing, store, answer, found, arrived, failures, kills>>
    BY <1>1, LazyAssumption DEF Edit, config, bounds
  <2>2. version[i] + 1 \in Version
    BY <2>1, StoreAssumption DEF TypeOK, Version
  <2>3. SyncTypeOK' /\ TypeOK' /\ Semaphores'
    BY <2>1, <2>2 DEF TypeOK, SyncTypeOK, syncVars, Semaphores, Keyed, Has, Took
  <2>4. ASSUME NEW q \in Caller PROVE Arrived(q)'
    <3>1. \A j \in Id : /\ version[j] \in Nat /\ arrived[q][j] \in Nat
                        /\ version'[j] = version[j] \/ version'[j] = version[j] + 1
      BY <2>1, StoreAssumption DEF TypeOK, Version
    <3>2. \A j \in Id : arrived[q][j] <= version[j]
      BY DEF Lazy, Arrived
    <3>3. ASSUME NEW j \in Id PROVE arrived'[q][j] <= version'[j]
      <4>1. arrived'[q][j] = arrived[q][j]
        BY <2>1
      <4>2. /\ version[j] \in Nat /\ arrived[q][j] \in Nat
            /\ version'[j] = version[j] \/ version'[j] = version[j] + 1
        BY <3>1
      <4>3. arrived[q][j] <= version[j]
        BY <3>2
      <4> QED BY <4>1, <4>2, <4>3
    <3> QED BY <3>3 DEF Arrived
  <2>5. ASSUME NEW q \in Caller PROVE Answered(q)' /\ FoundOwn(q)'
    BY <2>1 DEF Lazy, Answered, FoundOwn, GotConfig, syncVars
  <2> QED BY <2>3, <2>4, <2>5 DEF Lazy
<1>2. ASSUME NEW h \in Host, Expire(h) PROVE Lazy'
  <2>1. /\ StoreOK(store)'
        /\ UNCHANGED <<syncVars, ttl, routing, portal, version, answer, found, arrived, failures, kills>>
    BY <1>2, ExpiredServes DEF Expire, config, bounds, TypeOK
  <2>2. SyncTypeOK' /\ TypeOK' /\ Semaphores'
    BY <2>1 DEF TypeOK, SyncTypeOK, syncVars, Semaphores, Keyed, Has, Took
  <2>3. ASSUME NEW q \in Caller PROVE Answered(q)' /\ Arrived(q)' /\ FoundOwn(q)'
    BY <2>1 DEF Lazy, Answered, Arrived, FoundOwn, GotConfig, syncVars
  <2> QED BY <2>2, <2>3 DEF Lazy
<1> QED BY <1>1, <1>2

(* The inductive invariant of the lazy loader.                             *)
THEOREM LazyInvariant == Spec => []Lazy
<1>1. Init => Lazy
  <2> SUFFICES ASSUME Init PROVE Lazy OBVIOUS
  <2>1. SyncTypeOK /\ Size \in Nat
    BY SynchronizationAssumption DEF Init, SyncInit, SyncTypeOK
  <2>2. \A s \in Caller : Took(s) = {}
    BY DEF Init, SyncInit, Took
  <2>3. Semaphores
    BY <2>1, <2>2, FS_EmptySet DEF Init, SyncInit, Semaphores, Keyed
  <2>4. StoreOK(store) /\ NoAnswer \in [status : {"none", "failed", "config"}, services : SUBSET Service]
    BY DEF Init, StoreOK, EmptyStore, Entry, NoAnswer
  <2>5. TypeOK
    BY <2>1, <2>4, StoreAssumption, LazyAssumption DEF Init, TypeOK, Version
  <2>6. \A r \in Caller : Answered(r) /\ Arrived(r) /\ FoundOwn(r)
    BY DEF Init, SyncInit, Answered, Arrived, FoundOwn, GotConfig, NoAnswer
  <2> QED BY <2>3, <2>5, <2>6 DEF Lazy
<1>2. ASSUME Lazy, [Next]_vars PROVE Lazy'
  <2>1. CASE UNCHANGED vars
    <3>1. TypeOK' /\ Semaphores'
      BY <1>2, <2>1 DEF vars, syncVars, config, bounds, Lazy, TypeOK, SyncTypeOK, Semaphores, Keyed, Has, Took
    <3>2. \A r \in Caller : Answered(r)' /\ Arrived(r)' /\ FoundOwn(r)'
      BY <1>2, <2>1 DEF vars, syncVars, config, bounds, Lazy, Answered, Arrived, FoundOwn, GotConfig
    <3> QED BY <3>1, <3>2 DEF Lazy
  <2> QED BY <1>2, <2>1, LazyHit, LazyMiss, LazyFetch, LazyLoaded, LazyGiveUp, LazyKill, LazyTime
          DEF Next, Loading
<1> QED BY <1>1, <1>2, PTL DEF Spec

(* The state of the lazy loader keeps its shape.                           *)
THEOREM TypeCorrect == Spec => []TypeOK
<1>1. Lazy => TypeOK
  BY DEF Lazy
<1> QED BY <1>1, LazyInvariant, PTL

(* Nobody is forgotten with the semaphore of a key: who waits waits for a  *)
(* resource that is free, or for a caller that will give one back, unless  *)
(* all were lost with killed callers of the same key.                      *)
THEOREM WaitersHaveHope == Spec => []NobodyForgotten
<1>1. ASSUME Lazy PROVE NobodyForgotten
  <2> SUFFICES ASSUME NEW c \in Caller, pc[c] = "waiting", Holders(sema[c]) = {},
                      ~(resources[sema[c]] > 0)
               PROVE  Orphaned(c)
    BY DEF NobodyForgotten
  <2>1. /\ resources[sema[c]] = Size - Cardinality(Took(sema[c])) /\ IsFiniteSet(Took(sema[c]))
        /\ resources[sema[c]] \in 0..Size /\ Size \in Nat
        /\ sema[c] \in Caller /\ KeyOf[sema[c]] = KeyOf[c]
    BY <1>1, SynchronizationAssumption DEF Lazy, Semaphores, SyncTypeOK, Has
  <2>2. \A d \in Took(sema[c]) : pc[d] = "killed" /\ KeyOf[d] = KeyOf[c]
    BY <1>1, <2>1 DEF Lazy, Semaphores, Has, Took, Holders
  <2>3. {d \in Killed(sema[c]) : KeyOf[d] = KeyOf[c]} = Took(sema[c])
    BY <2>2 DEF Took, Killed
  <2>4. Cardinality(Took(sema[c])) = Size
    BY <2>1, FS_CardinalityType
  <2> QED BY <2>3, <2>4 DEF Orphaned
<1> QED BY <1>1, LazyInvariant, PTL

(* A request that loaded a configuration with services for its host finds  *)
(* one of them, whatever the store held before and other requests stored.  *)
THEOREM FindsWhatItLoaded == Spec => []OwnLoadServes
<1>1. Lazy => OwnLoadServes
  BY DEF Lazy, FoundOwn, OwnLoadServes
<1> QED BY <1>1, LazyInvariant, PTL

(* With a ttl of 0 a request is served nothing older than its arrival.     *)
THEOREM NothingOlder == Spec => []RefreshOnEachRequest
<1>1. ASSUME Lazy PROVE RefreshOnEachRequest
  <2> SUFFICES ASSUME NEW r \in Caller, ttl = "zero", found[r] # NoService
               PROVE  found[r].version >= arrived[r][found[r].id]
    BY DEF RefreshOnEachRequest
  <2>1. /\ GotConfig(r) /\ Configuration(answer[r].services)
        /\ found[r] = Resolve(answer[r].services, routing, KeyOf[r], MatchesOf[r])
        /\ \A s \in answer[r].services : arrived[r][s.id] <= s.version
    BY <1>1 DEF Lazy, FoundOwn, Answered
  <2>2. found[r] \in answer[r].services
    BY <2>1, ResolvesInside
  <2>3. found[r].version \in Nat /\ arrived[r][found[r].id] \in Nat
    <3>1. found[r] \in Service
      BY <2>1, <2>2 DEF Configuration
    <3>2. found[r].version \in Version /\ found[r].id \in Id
      BY <3>1 DEF Service
    <3>3. arrived[r] \in [Id -> Version]
      BY <1>1 DEF Lazy, TypeOK
    <3>4. Version \subseteq Nat
      BY StoreAssumption DEF Version
    <3> HIDE DEF Version
    <3> QED BY <3>2, <3>3, <3>4
  <2> QED BY <2>1, <2>2, <2>3
<1> QED BY <1>1, LazyInvariant, PTL

-----------------------------------------------------------------------------
(* The lists of the hosts and the services by id, in any store.            *)
Agrees(st) == \A h \in Host : \A s \in st.cache[h].list :
  LET current == st.services[s.id] IN
  current = s \/ (current # NoService /\ h \notin current.hosts)

(* store() keeps them in agreement: it replaces the list of every host     *)
(* that one of its services is on.                                         *)
LEMMA StoredAgrees ==
  ASSUME NEW st, StoreOK(st), Agrees(st), NEW conf, Configuration(conf), NEW rt \in Routing
  PROVE  Agrees(StoreConfig(st, conf, rt))
<1> DEFINE new == StoreConfig(st, conf, rt)
<1>1. /\ \A s \in conf : new.services[s.id] = s
      /\ \A h \in Host : IF \E s \in conf : h \in s.hosts
                         THEN new.cache[h].list = ByHost(conf, rt, h)
                         ELSE new.cache[h] = st.cache[h]
  BY StoredServes
<1>2. \A i \in Id : (~\E s \in conf : s.id = i) => new.services[i] = st.services[i]
  BY DEF StoreConfig, StoreServices
<1>3. conf \subseteq Service /\ NoService \notin conf
  BY NoServiceAssumption DEF Configuration
<1> HIDE DEF new
<1> SUFFICES ASSUME NEW h \in Host, NEW s \in new.cache[h].list
             PROVE  \/ new.services[s.id] = s
                    \/ new.services[s.id] # NoService /\ h \notin new.services[s.id].hosts
  BY DEF Agrees, new
<1>4. CASE \E t \in conf : h \in t.hosts
  <2> DEFINE S == {t \in conf : h \in t.hosts}
  <2>1. First(S) \in S
    BY <1>3, <1>4, FirstOf
  <2>2. ByHost(conf, rt, h) \subseteq conf
    BY <2>1 DEF ByHost
  <2> QED BY <1>1, <1>4, <2>2
<1>5. CASE ~\E t \in conf : h \in t.hosts
  <2>1. s \in st.cache[h].list /\ s.id \in Id
    BY <1>1, <1>5 DEF StoreOK, Entry, Service
  <2>2. CASE \E t \in conf : t.id = s.id
    BY <1>1, <1>3, <1>5, <2>2
  <2>3. CASE ~\E t \in conf : t.id = s.id
    BY <1>2, <2>1, <2>3 DEF Agrees
  <2> QED BY <2>2, <2>3
<1> QED BY <1>4, <1>5

(* The two caches of the store agree, in whatever order the loads of the   *)
(* hosts of a service are stored, expire or fail.                          *)
THEOREM CachesAlwaysAgree == Spec => []CachesAgree
<1>1. Init => CachesAgree
  BY DEF Init, EmptyStore, CachesAgree
<1>2. ASSUME Lazy, CachesAgree, [Next]_vars PROVE CachesAgree'
  <2>1. Agrees(store) /\ StoreOK(store) /\ routing \in Routing
    BY <1>2, LazyAssumption DEF Lazy, TypeOK, CachesAgree, Agrees
  <2>2. CASE UNCHANGED store
    BY <1>2, <2>2 DEF CachesAgree
  <2>3. ASSUME NEW h \in Host, Expire(h) PROVE CachesAgree'
    <3>1. store' = ExpireHost(store, h)
      BY <2>3 DEF Expire
    <3> QED BY <2>1, <3>1, ExpiredServes DEF Agrees, CachesAgree
  <2>4. ASSUME NEW r \in Caller, Loaded(r), ~UNCHANGED store PROVE CachesAgree'
    <3>1. GotConfig(r) /\ store' = StoreConfig(store, answer[r].services, routing)
      BY <2>4 DEF Loaded, Configure
    <3>2. Configuration(answer[r].services)
      BY <1>2, <3>1 DEF Lazy, Answered
    <3>3. Agrees(StoreConfig(store, answer[r].services, routing))
      BY <2>1, <3>2, StoredAgrees
    <3> QED BY <3>1, <3>3 DEF Agrees, CachesAgree
  <2>5. \/ UNCHANGED store \/ (\E h \in Host : Expire(h)) \/ \E r \in Caller : Loaded(r)
    BY <1>2 DEF Next, Hit, Miss, Loading, Resume, Fetch, FetchFails, GiveUp, Kill, Edit, vars
  <2> QED BY <2>2, <2>3, <2>4, <2>5
<1> QED BY <1>1, <1>2, LazyInvariant, PTL DEF Spec

-----------------------------------------------------------------------------
(***************************************************************************)
(* release() forgets the semaphore of a key while others still wait for    *)
(* it, so that a host may be loaded by several requests at once.  It does  *)
(* not happen before the first load of the host is over.                   *)
(***************************************************************************)
NotLoaded(k) == \A d \in Caller : KeyOf[d] = k /\ pc[d] = "over" => answer[d] = NoAnswer

Inside(c) == pc[c] \in {"waiting", "running"}

Loads(k) == {c \in Caller : KeyOf[c] = k /\ pc[c] = "running"}

(* Until then the callers that are inside run() share the semaphore that   *)
(* the key has.                                                            *)
Shared == \A k \in Key : NotLoaded(k) =>
  \A c \in Caller : KeyOf[c] = k /\ Inside(c) => sema[c] = semaphores[k]

(* A caller enters run() with the semaphore of its key and keeps it.       *)
LEMMA SharedByCaller ==
  ASSUME Lazy, Lazy', Shared, NEW r \in Caller, Hit(r) \/ Miss(r) \/ Loading(r) \/ GiveUp(r) \/ Kill(r)
  PROVE  Shared'
<1> SyncTypeOK /\ Semaphores /\ SyncTypeOK' /\ None \notin Caller /\ KeyOf[r] \in Key
  BY SynchronizationAssumption DEF Lazy, Semaphores
<1> SUFFICES ASSUME NEW k \in Key, NotLoaded(k)', NEW c \in Caller, KeyOf[c] = k, Inside(c)'
             PROVE  sema'[c] = semaphores'[k]
  BY DEF Shared
<1>1. /\ \A d \in Caller : pc[d] = "over" => pc'[d] = "over" /\ answer'[d] = answer[d]
      /\ \A d \in Caller \ {r} : pc'[d] = pc[d] /\ sema'[d] = sema[d] /\ answer'[d] = answer[d]
  <2>1. answer \in [Caller -> [status : {"none", "failed", "config"}, services : SUBSET Service]]
    BY DEF Lazy, TypeOK
  <2> QED BY <2>1 DEF Hit, Miss, Run, Loading, Resume, Wake, Fetch, FetchFails, Loaded, Return,
                     GiveUp, TimeOut, Kill, Abort, syncVars, SyncTypeOK
<1>2. NotLoaded(k)
  BY <1>1 DEF NotLoaded
<1>3. \A d \in Caller : KeyOf[d] = k /\ Inside(d) => sema[d] = semaphores[k] /\ sema[d] \in Caller
  BY <1>2 DEF Shared, Semaphores, Has, Inside
<1>4. CASE Miss(r)
  <2> DEFINE s == IF semaphores[KeyOf[r]] = None THEN r ELSE semaphores[KeyOf[r]]
  <2>1. semaphores' = [semaphores EXCEPT ![KeyOf[r]] = s] /\ sema' = [sema EXCEPT ![r] = s]
    BY <1>4 DEF Miss, Run
  <2>2. CASE c = r
    BY <2>1, <2>2 DEF SyncTypeOK
  <2>3. CASE c # r
    <3>1. sema[c] = semaphores[k] /\ semaphores[k] # None
      BY <1>1, <1>3, <2>3 DEF Inside
    <3>2. semaphores'[k] = semaphores[k]
      BY <2>1, <3>1 DEF SyncTypeOK
    <3> QED BY <1>1, <2>3, <3>1, <3>2
  <2> QED BY <2>2, <2>3
<1>5. CASE Loaded(r)
  <2>1. /\ answer[r] # NoAnswer /\ answer' = answer /\ pc'[r] = "over" /\ sema' = sema
        /\ semaphores' = [semaphores EXCEPT ![KeyOf[r]] = None]
    BY <1>5 DEF Loaded, Return, SyncTypeOK
  <2>2. KeyOf[r] # k
    BY <2>1 DEF NotLoaded
  <2>3. semaphores'[k] = semaphores[k] /\ c # r
    BY <2>1, <2>2 DEF SyncTypeOK
  <2> QED BY <1>1, <1>3, <2>1, <2>3 DEF Inside
<1>6. CASE Hit(r) \/ Resume(r) \/ Fetch(r) \/ FetchFails(r) \/ GiveUp(r) \/ Kill(r)
  <2>1. UNCHANGED <<semaphores, sema>> /\ (Inside(r)' => Inside(r))
    BY <1>6 DEF Hit, Resume, Wake, Fetch, FetchFails, GiveUp, TimeOut, Kill, Abort, syncVars,
       Inside, SyncTypeOK
  <2> QED BY <1>1, <1>3, <2>1 DEF Inside
<1> QED BY <1>4, <1>5, <1>6 DEF Loading

(* A host that no request has loaded yet is loaded by as many requests at  *)
(* once as its semaphore has resources, one in the configuration loader:   *)
(* the others wait for it.                                                 *)
THEOREM FirstLoadIsShared ==
  Spec => [](\A k \in Key : NotLoaded(k) => Cardinality(Loads(k)) <= Size)
<1>1. Init => Shared
  BY DEF Init, SyncInit, Shared, Inside
<1>2. ASSUME Lazy, Lazy', Shared, [Next]_vars PROVE Shared'
  <2>1. CASE \/ \E i \in Id : \E H \in Edits[i] : Edit(i, H)
             \/ \E h \in Host : Expire(h)
             \/ UNCHANGED vars
    <3>1. UNCHANGED <<semaphores, sema, pc, answer>>
      BY <2>1 DEF Edit, Expire, vars, syncVars
    <3> QED BY <1>2, <3>1 DEF Shared, NotLoaded, Inside
  <2> QED BY <1>2, <2>1, SharedByCaller DEF Next
<1>3. ASSUME Lazy, Shared, NEW k \in Key, NotLoaded(k) PROVE Cardinality(Loads(k)) <= Size
  <2>1. CASE Loads(k) = {}
    BY <2>1, FS_EmptySet, SynchronizationAssumption
  <2>2. ASSUME NEW c \in Loads(k) PROVE Cardinality(Loads(k)) <= Size
    <3> DEFINE s == semaphores[k]
    <3>1. s \in Caller /\ Loads(k) \subseteq Took(s)
      BY <1>3, <2>2 DEF Lazy, Semaphores, Has, Shared, Inside, Loads, Took
    <3>2. /\ IsFiniteSet(Took(s)) /\ resources[s] = Size - Cardinality(Took(s))
          /\ resources[s] \in 0..Size
      BY <1>3, <3>1 DEF Lazy, Semaphores, SyncTypeOK
    <3>3. /\ Cardinality(Loads(k)) <= Cardinality(Took(s)) /\ Cardinality(Took(s)) \in Nat
          /\ Cardinality(Loads(k)) \in Nat
      BY <3>1, <3>2, FS_Subset, FS_CardinalityType
    <3>4. Cardinality(Took(s)) <= Size
      BY <3>2, <3>3, SynchronizationAssumption
    <3> QED BY <3>3, <3>4, SynchronizationAssumption
  <2> QED BY <2>1, <2>2
<1>4. Lazy /\ Shared => \A k \in Key : NotLoaded(k) => Cardinality(Loads(k)) <= Size
  BY <1>3
<1> QED BY <1>1, <1>2, <1>4, LazyInvariant, PTL DEF Spec
=============================================================================
