-------------------------- MODULE BootLoaderProofs --------------------------
(***************************************************************************)
(* Proofs about the boot configuration loader: whatever reloads, failures, *)
(* respawned workers and calls of the management API come, every host is   *)
(* served from the one configuration that was stored last.                 *)
(***************************************************************************)
EXTENDS BootLoader, ConfigStoreProofs

(* The store mirrors the configuration that it was given last; of hosts    *)
(* that this one does not speak of it knows nothing, unless it was stored  *)
(* over another one.                                                       *)
Mirrors ==
  /\ \A s \in last : store.services[s.id] = s
  /\ \A h \in Host : IF \E s \in last : h \in s.hosts
                     THEN store.cache[h].list = ByHost(last, routing, h)
                     ELSE ~mixed => store.cache[h].list = {}

Answers == Configuration(last) /\ Configuration(answer) /\ Configuration(bootAnswer)

Booting == TypeOK /\ routing \in Routing /\ Answers /\ Mirrors

-----------------------------------------------------------------------------
(* What the portal answers, and what the master loaded, is a configuration *)
(* with one service of an id.                                              *)
LEMMA PortalAnswers ==
  ASSUME TypeOK
  PROVE  /\ \A n \in Load : \A conf \in SUBSET Everything(n) : Configuration(conf)
         /\ Configuration(Booted) /\ Configuration({})
<1>1. \A n \in Load : \A s \in Everything(n) : s \in Service
  BY DEF TypeOK, Everything, Service
<1>2. \A n : \A s, t \in Everything(n) : s.id = t.id => s = t
  BY DEF Everything
<1>3. /\ \A s \in Booted : s \in Service
      /\ \A s, t \in Booted : s.id = t.id => s = t
  BY StoreAssumption, BootAssumption DEF Booted, Service, Version
<1> QED BY <1>1, <1>2, <1>3 DEF Configuration

(* An empty store knows no service.                                        *)
LEMMA EmptyIsOK == StoreOK(EmptyStore) /\ \A h \in Host : EmptyStore.cache[h].list = {}
BY DEF StoreOK, EmptyStore, Entry

(* configure() after a reset, and configure() over what is there.          *)
LEMMA MirrorsConfigured ==
  ASSUME NEW conf, Configuration(conf), NEW st, StoreOK(st), routing \in Routing,
         routing' = routing, last' = conf, store' = StoreConfig(st, conf, routing),
         mixed' \/ st = EmptyStore
  PROVE  StoreOK(store)' /\ Mirrors'
<1>1. StoreOK(store')
  BY StoreKept
<1>2. /\ \A s \in conf : store'.services[s.id] = s
      /\ \A h \in Host : IF \E s \in conf : h \in s.hosts
                         THEN store'.cache[h].list = ByHost(conf, routing, h)
                         ELSE store'.cache[h] = st.cache[h]
  BY StoredServes
<1>3. Mirrors'
  BY <1>2, EmptyIsOK DEF Mirrors
<1> QED BY <1>1, <1>3

(* The first configuration is the one the master loaded.                   *)
LEMMA BootingInit == Init => Booting
<1> SUFFICES ASSUME Init PROVE Booting OBVIOUS
<1>1. /\ routing \in Routing /\ Configuration(Booted) /\ Configuration({})
      /\ portal \in [Id -> SUBSET Host] /\ version \in [Id -> Version]
  <2>1. /\ \A s \in Booted : s \in Service
        /\ \A s, t \in Booted : s.id = t.id => s = t
    BY StoreAssumption, BootAssumption DEF Booted, Service, Version
  <2> QED BY <2>1, StoreAssumption, BootAssumption DEF Init, Configuration, Version
<1>2. StoreOK(store)
  BY <1>1, StoreKept, EmptyIsOK DEF Init
<1>3. Mirrors
  <2>1. store = StoreConfig(EmptyStore, Booted, routing) /\ last = Booted
    BY DEF Init
  <2>2. /\ \A s \in Booted : store.services[s.id] = s
        /\ \A h \in Host : IF \E s \in Booted : h \in s.hosts
                           THEN store.cache[h].list = ByHost(Booted, routing, h)
                           ELSE store.cache[h] = EmptyStore.cache[h]
    BY <1>1, <2>1, StoredServes
  <2> QED BY <2>1, <2>2, EmptyIsOK DEF Mirrors
<1>4. TypeOK
  <2>1. /\ 0 \in Load /\ 0 \in 0..MaxFailures /\ 0 \in 0..MaxTimerFailures
        /\ 0 \in 0..MaxRespawns /\ 0 \in 0..MaxCalls
        /\ 1 <= MaxTimerFailures => 1 \in 0..MaxTimerFailures
    BY BootAssumption
  <2>2. last \subseteq Service /\ answer \subseteq Service /\ bootAnswer \subseteq Service
    BY <1>1 DEF Init, Configuration
  <2>3. /\ timer \in {"pending", "loading", "answered", "failed", "stopped"}
        /\ timerFailures \in 0..MaxTimerFailures
    BY <2>1 DEF Init
  <2> QED BY <1>1, <1>2, <2>1, <2>2, <2>3 DEF Init, TypeOK
<1> QED BY <1>1, <1>3, <1>4 DEF Booting, Answers, Init

(* The steps of the chain of timers.                                       *)
LEMMA BootingReload ==
  ASSUME Booting, Fire \/ Fetch \/ FetchFails \/ Refresh \/ RefreshFails \/ Respawn
  PROVE  Booting'
<1> TypeOK /\ routing \in Routing /\ Answers /\ Mirrors
  BY DEF Booting
<1> USE DEF source, served, management, faults, reload
<1>1. CASE Fire
  <2>1. loads' \in Load
    BY <1>1, BootAssumption DEF Fire, TypeOK
  <2> QED BY <1>1, <2>1 DEF Fire, Booting, TypeOK, Answers, Mirrors
<1>2. CASE Fetch
  <2>1. Configuration(answer')
    BY <1>2, PortalAnswers DEF Fetch, TypeOK
  <2> QED BY <1>2, <2>1 DEF Fetch, Booting, TypeOK, Answers, Mirrors, Configuration
<1>3. CASE FetchFails
  BY <1>3, BootAssumption DEF FetchFails, Booting, TypeOK, Answers, Mirrors
<1>4. CASE Refresh
  <2>1. /\ store' = StoreConfig(EmptyStore, answer, routing)
        /\ last' = answer /\ mixed' = FALSE /\ answer' = {}
        /\ UNCHANGED <<source, loads, management, failures, respawns>>
        /\ timer' \in {"pending", "stopped"} /\ timerFailures' \in 0..MaxTimerFailures
    BY <1>4, BootAssumption DEF Refresh, Refreshed, Schedule, TypeOK
  <2>2. StoreOK(store)' /\ Mirrors'
    BY <2>1, EmptyIsOK, MirrorsConfigured DEF Answers
  <2> QED BY <2>1, <2>2, PortalAnswers DEF Booting, TypeOK, Answers, Configuration
<1>5. CASE RefreshFails
  <2>1. timer' \in {"pending", "stopped"} /\ timerFailures' \in 0..MaxTimerFailures
    BY <1>5, BootAssumption DEF RefreshFails, Schedule, TypeOK
  <2> QED BY <1>5, <2>1 DEF RefreshFails, Booting, TypeOK, Answers, Mirrors
<1>6. CASE Respawn
  <2>1. /\ store' = StoreConfig(EmptyStore, Booted, routing)
        /\ last' = Booted /\ mixed' = FALSE /\ answer' = {} /\ bootAnswer' = {}
        /\ timer' \in {"pending", "stopped"} /\ timerFailures' \in 0..MaxTimerFailures
        /\ loads' = 0 /\ boot' = "no" /\ respawns' \in 0..MaxRespawns
        /\ UNCHANGED <<source, calls, failures>>
    BY <1>6, BootAssumption DEF Respawn, Schedule, TypeOK
  <2>2. StoreOK(store)' /\ Mirrors'
    BY <2>1, EmptyIsOK, MirrorsConfigured, PortalAnswers
  <2>3. 0 \in Load
    BY BootAssumption
  <2> QED BY <2>1, <2>2, <2>3, PortalAnswers DEF Booting, TypeOK, Answers, Configuration
<1> QED BY <1>1, <1>2, <1>3, <1>4, <1>5, <1>6

(* The calls of the management API.                                        *)
LEMMA BootingManagement == ASSUME Booting, Management PROVE Booting'
<1> TypeOK /\ routing \in Routing /\ Answers /\ Mirrors
  BY DEF Booting
<1> USE DEF source, served, reload, faults
<1>0. Call => calls' \in 0..MaxCalls
  BY BootAssumption DEF Call, TypeOK
<1>1. ASSUME NEW conf \in SUBSET Everything(2), PutConfig(conf) PROVE Booting'
  <2>1. /\ store' = StoreConfig(store, conf, routing) /\ last' = conf /\ mixed' = TRUE
        /\ UNCHANGED <<source, reload, boot, bootAnswer, faults>>
    BY <1>1 DEF PutConfig, ConfigureOver
  <2>2. Configuration(conf)
    BY PortalAnswers, BootAssumption
  <2>3. StoreOK(store)' /\ Mirrors'
    BY <2>1, <2>2, MirrorsConfigured DEF TypeOK
  <2> QED BY <1>0, <1>1, <2>1, <2>2, <2>3 DEF PutConfig, Booting, TypeOK, Answers, Configuration
<1>2. CASE DeleteConfig
  <2>1. store' = EmptyStore /\ last' = {} /\ mixed' = FALSE
        /\ UNCHANGED <<source, reload, boot, bootAnswer, faults>>
    BY <1>2 DEF DeleteConfig
  <2>2. Mirrors' /\ StoreOK(store)'
    BY <2>1, EmptyIsOK DEF Mirrors
  <2> QED BY <1>0, <1>2, <2>1, <2>2, PortalAnswers
          DEF DeleteConfig, Booting, TypeOK, Answers, Configuration
<1>3. CASE Boot
  BY <1>0, <1>3 DEF Boot, Booting, TypeOK, Answers, Mirrors
<1>4. CASE BootFetch
  <2>1. Configuration(bootAnswer')
    BY <1>4, PortalAnswers, BootAssumption DEF BootFetch
  <2> QED BY <1>4, <2>1 DEF BootFetch, Booting, TypeOK, Answers, Mirrors, Configuration
<1>5. CASE BootFails
  BY <1>5, BootAssumption DEF BootFails, Booting, TypeOK, Answers, Mirrors
<1>6. CASE BootConfigure
  <2>1. /\ store' = StoreConfig(store, bootAnswer, routing)
        /\ last' = bootAnswer /\ mixed' = TRUE /\ boot' = "no" /\ bootAnswer' = {}
        /\ UNCHANGED <<source, reload, calls, faults>>
    BY <1>6 DEF BootConfigure, ConfigureOver
  <2>2. StoreOK(store)' /\ Mirrors'
    BY <2>1, MirrorsConfigured DEF TypeOK, Answers
  <2> QED BY <2>1, <2>2, PortalAnswers DEF Booting, TypeOK, Answers, Configuration
<1> QED BY <1>1, <1>2, <1>3, <1>4, <1>5, <1>6 DEF Management

(* An edit at the portal and the expiry of an entry.                       *)
LEMMA BootingTime ==
  ASSUME Booting, \/ \E i \in Id : \E H \in Edits[i] : Edit(i, H)
                  \/ \E h \in Host : Expire(h)
  PROVE  Booting'
<1> TypeOK /\ routing \in Routing /\ Answers /\ Mirrors
  BY DEF Booting
<1> USE DEF served, reload, management, faults
<1>1. ASSUME NEW i \in Id, NEW H \in Edits[i], Edit(i, H) PROVE Booting'
  <2>0. H \in SUBSET Host /\ version[i] + 1 \in Version
    <3>1. Edits[i] \in SUBSET SUBSET Host
      BY BootAssumption
    <3>2. version[i] \in 0..MaxEdits /\ version[i] < MaxEdits /\ MaxEdits \in Nat
      BY <1>1, StoreAssumption DEF Edit, TypeOK, Version
    <3> QED BY <3>1, <3>2 DEF Version
  <2>1. portal' \in [Id -> SUBSET Host] /\ version' \in [Id -> Version]
    BY <1>1, <2>0 DEF Edit, TypeOK
  <2> QED BY <1>1, <2>1 DEF Edit, Booting, TypeOK, Answers, Mirrors
<1>2. ASSUME NEW h \in Host, Expire(h) PROVE Booting'
  <2>1. /\ StoreOK(store)' /\ store'.services = store.services
        /\ \A g \in Host : store'.cache[g].list = store.cache[g].list
        /\ UNCHANGED <<source, last, mixed, reload, management, faults>>
    BY <1>2, ExpiredServes DEF Expire, TypeOK
  <2> QED BY <2>1 DEF source, Booting, TypeOK, Answers, Mirrors
<1> QED BY <1>1, <1>2

(* The inductive invariant: the store is of the right shape and mirrors    *)
(* the configuration that it was given last.                               *)
THEOREM BootingInvariant == Spec => []Booting
<1>1. ASSUME Booting, [Next]_vars PROVE Booting'
  <2>1. CASE Next
    BY <1>1, <2>1, BootingReload, BootingManagement, BootingTime DEF Next
  <2>2. CASE UNCHANGED vars
    BY <1>1, <2>2 DEF vars, source, served, reload, management, faults, Booting, TypeOK,
       Answers, Mirrors
  <2> QED BY <1>1, <2>1, <2>2
<1> QED BY <1>1, BootingInit, PTL DEF Spec

(* The state of the boot loader keeps its shape.                           *)
THEOREM TypeCorrect == Spec => []TypeOK
<1>1. Booting => TypeOK
  BY DEF Booting
<1> QED BY <1>1, BootingInvariant, PTL

(* Whatever the time, every host is served from one configuration, the     *)
(* last that was loaded: never a service deleted from it, never a mixture  *)
(* of two, and never nothing.                                              *)
THEOREM ServedFromOne == Spec => []OneConfiguration
<1>1. ASSUME Booting PROVE OneConfiguration
  <2> SUFFICES ASSUME NEW h \in Host, NEW matching \in SUBSET Id, Governed(h)
               PROVE  FindService(store, routing, h, matching)
                        = Resolve(last, routing, h, matching)
    BY DEF OneConfiguration
  <2>1. store.cache[h].list = ByHost(last, routing, h)
    <3>1. CASE \E s \in last : h \in s.hosts
      BY <1>1, <3>1 DEF Booting, Mirrors
    <3>2. CASE ~\E s \in last : h \in s.hosts
      BY <1>1, <3>2 DEF Booting, Mirrors, Governed, ByHost
    <3> QED BY <3>1, <3>2
  <2>2. Serves(store, last, routing, h)
    BY <1>1, <2>1 DEF Serves, Booting, Mirrors
  <2> QED BY <1>1, <2>2, ServedIsResolved DEF Booting, Answers
<1> QED BY <1>1, BootingInvariant, PTL

-----------------------------------------------------------------------------
(***************************************************************************)
(* Reloads without fairness: what a load is, and what it leads to, while   *)
(* nobody edits the portal, calls the management API or kills the worker.  *)
(***************************************************************************)
Current == {<<i, version[i]>> : i \in {j \in Id : portal[j] # {}}}

(* The portal's configuration is on its way, or it is what is served and   *)
(* no answer that is under way is older.                                   *)
Fetched   == timer = "answered" /\ Versions(answer) = Current /\ boot = "no"
Converged == UpToDate /\ boot = "no" /\ (timer = "answered" => Versions(answer) = Current)

Quiet == UNCHANGED <<portal, version, calls, respawns>>

Converges ==
  /\ Fetch /\ boot = "no" => Fetched'
  /\ Quiet /\ Fetched => Fetched' \/ Converged'
  /\ Quiet /\ Converged => Converged'

(* A load has the versions that the portal has.                            *)
LEMMA LoadIsCurrent == \A n : Versions(Everything(n)) = Current
<1> SUFFICES ASSUME NEW n PROVE Versions(Everything(n)) = Current
  OBVIOUS
<1> DEFINE There == {j \in Id : portal[j] # {}}
           Row(i) == [id |-> i, version |-> version[i], hosts |-> portal[i], load |-> n]
<1>1. \A i : Row(i).id = i /\ Row(i).version = version[i]
  OBVIOUS
<1>2. Everything(n) = {Row(i) : i \in There}
  BY DEF Everything
<1> HIDE DEF There, Row
<1>3. {<<s.id, s.version>> : s \in Everything(n)} = {<<i, version[i]>> : i \in There}
  BY <1>1, <1>2
<1> QED BY <1>3 DEF Versions, Current, There

(* Without an edit, a call or another worker the chain of timers goes on.  *)
LEMMA QuietStep ==
  ASSUME TypeOK, Next, Quiet, boot = "no"
  PROVE  \/ Fire \/ Fetch \/ FetchFails \/ Refresh \/ RefreshFails
         \/ \E h \in Host : Expire(h)
<1>1. calls' # calls + 1 /\ respawns' # respawns + 1
  BY BootAssumption DEF TypeOK, Quiet
<1>2. ~Management /\ ~Respawn
  BY <1>1 DEF Management, PutConfig, DeleteConfig, Boot, BootFetch, BootFails, BootConfigure,
     Call, Respawn
<1>3. ASSUME NEW i \in Id, NEW H, Edit(i, H) PROVE FALSE
  <2>1. version[i] \in Int /\ version'[i] = version[i] + 1
    BY <1>3 DEF Edit, TypeOK, Version
  <2> QED BY <2>1 DEF Quiet
<1> QED BY <1>2, <1>3 DEF Next

(* The reloading only ends where ngx.timer.at fails; a load that begins    *)
(* after the last change makes the worker up to date, failures, expired    *)
(* entries and later reloads notwithstanding, and nothing that was under   *)
(* way takes it back.  With fairness that is ReloadsUpToDate.              *)
THEOREM ReloadsConverge ==
  Spec => [](timer = "stopped" => timerFailures > 0) /\ [][Converges]_vars
<1> DEFINE Goes == timer = "stopped" => timerFailures > 0
<1>1. Init => Goes
  BY DEF Init
<1>2. ASSUME TypeOK, Goes, [Next]_vars PROVE Goes'
  <2>1. timerFailures \in Nat
    BY <1>2, BootAssumption DEF TypeOK
  <2>2. CASE Fire \/ Fetch \/ FetchFails \/ Refresh \/ RefreshFails \/ Respawn
    BY <1>2, <2>1, <2>2 DEF Fire, Fetch, FetchFails, Refresh, RefreshFails, Schedule, Respawn
  <2>3. CASE \/ Management \/ UNCHANGED vars
             \/ \E i \in Id : \E H \in Edits[i] : Edit(i, H)
             \/ \E h \in Host : Expire(h)
    <3>1. UNCHANGED <<timer, timerFailures>>
      BY <2>3 DEF Management, PutConfig, DeleteConfig, Boot, BootFetch, BootFails,
         BootConfigure, Edit, Expire, vars, reload, faults
    <3> QED BY <1>2, <3>1
  <2> QED BY <1>2, <2>2, <2>3 DEF Next
<1>3. ASSUME TypeOK, [Next]_vars PROVE [Converges]_vars
  <2>1. Fetch /\ boot = "no" => Fetched'
    <3> SUFFICES ASSUME Fetch, boot = "no" PROVE Fetched'
      OBVIOUS
    <3>1. /\ timer' = "answered" /\ answer' = Everything(loads) /\ boot' = "no"
          /\ UNCHANGED <<portal, version>>
      BY DEF Fetch, source, management
    <3>2. Versions(answer') = Current /\ Current' = Current
      BY <3>1, LoadIsCurrent DEF Current
    <3>3. Versions(answer)' = Versions(answer')
      BY DEF Versions
    <3> QED BY <3>1, <3>2, <3>3 DEF Fetched
  <2>2. ASSUME Quiet, boot = "no", Next
        PROVE  (Fetched => Fetched' \/ Converged') /\ (Converged => Converged')
    <3>1. Current' = Current
      BY <2>2 DEF Quiet, Current
    <3>2. CASE Fetch
      <4>1. Fetched' /\ UNCHANGED <<last, mixed>>
        BY <2>1, <2>2, <3>2 DEF Fetch, served
      <4>2. UpToDate => UpToDate'
        BY <3>1, <4>1 DEF UpToDate, Versions, Current
      <4> QED BY <4>1, <4>2 DEF Fetched, Converged
    <3>3. CASE Refresh
      <4>1. /\ timer = "answered" /\ timer' \in {"pending", "stopped"}
            /\ last' = answer /\ mixed' = FALSE /\ boot' = boot
        BY <3>3 DEF Refresh, Schedule, management
      <4>2. Versions(answer) = Current => UpToDate'
        BY <3>1, <4>1 DEF UpToDate, Versions, Current
      <4> QED BY <2>2, <4>1, <4>2 DEF Fetched, Converged
    <3>4. CASE Fire \/ FetchFails \/ RefreshFails
      <4>1. /\ timer \in {"pending", "loading", "failed"}
            /\ timer' \in {"loading", "failed", "pending", "stopped"}
            /\ UNCHANGED <<last, mixed, boot>>
        BY <3>4 DEF Fire, FetchFails, RefreshFails, Schedule, served, management
      <4>2. UpToDate => UpToDate'
        BY <3>1, <4>1 DEF UpToDate, Versions, Current
      <4> QED BY <4>1, <4>2 DEF Fetched, Converged
    <3>5. ASSUME NEW h \in Host, Expire(h)
          PROVE  (Fetched => Fetched') /\ (Converged => Converged')
      <4>1. UNCHANGED <<last, mixed, timer, answer, boot>>
        BY <3>5 DEF Expire, reload, management
      <4> QED BY <3>1, <4>1 DEF Fetched, Converged, UpToDate, Versions, Current
    <3> QED BY <1>3, <2>2, <3>2, <3>3, <3>4, <3>5, QuietStep
  <2>3. boot = "no" \/ ~(Fetched \/ Converged)
    BY DEF Fetched, Converged
  <2> QED BY <1>3, <2>1, <2>2, <2>3 DEF Converges
<1> QED BY <1>1, <1>2, <1>3, TypeCorrect, PTL DEF Spec

-----------------------------------------------------------------------------
(***************************************************************************)
(* Reloads in their order: without the management API a worker has one     *)
(* load under way at a time, and stores it before it begins the next.      *)
(***************************************************************************)
NotNewer(conf, other) == \A s \in conf, t \in other : s.id = t.id => s.version <= t.version

Past(conf) == \A s \in conf : s.version <= version[s.id]

InOrder == calls = 0 =>
  /\ boot = "no"
  /\ Past(last) /\ Past(answer)
  /\ timer = "answered" => NotNewer(last, answer)

(* An edit makes a service newer, and nothing makes it older.              *)
LEMMA VersionsGrow ==
  ASSUME TypeOK, [Next]_vars
  PROVE  \A i \in Id : version[i] \in Int /\ version'[i] \in Int /\ version[i] <= version'[i]
<1>1. \A i \in Id : version[i] \in Int
  BY DEF TypeOK, Version
<1>2. CASE version' = version
  BY <1>1, <1>2
<1>3. ASSUME NEW i \in Id, NEW H, Edit(i, H)
      PROVE  \A j \in Id : version'[j] \in Int /\ version[j] <= version'[j]
  BY <1>1, <1>3 DEF Edit, TypeOK
<1>4. version' = version \/ \E i \in Id : \E H : Edit(i, H)
  BY DEF Next, Management, PutConfig, DeleteConfig, Boot, BootFetch, BootFails, BootConfigure, Fire,
     Fetch, FetchFails, Refresh, RefreshFails, Respawn, Expire, vars, source
<1> QED BY <1>1, <1>2, <1>3, <1>4

(* What is loaded is as new as the portal, and newer than nothing.         *)
LEMMA LoadIsNewest ==
  ASSUME TypeOK, NEW conf, conf \subseteq Service, Past(conf), NEW n
  PROVE  Past(Everything(n)) /\ NotNewer(conf, Everything(n))
<1>1. \A t \in Everything(n) : t.version = version[t.id] /\ t.id \in Id
  BY DEF Everything
<1>2. \A i \in Id : version[i] \in Int
  BY DEF TypeOK, Version
<1> QED BY <1>1, <1>2 DEF Past, NotNewer

(* The configuration of the master is as old as the portal can be.         *)
LEMMA BootedIsOldest == TypeOK => Past(Booted) /\ Past({})
<1> SUFFICES ASSUME TypeOK PROVE Past(Booted) /\ Past({})
  OBVIOUS
<1>1. \A s \in Booted : s.id \in Id /\ s.version = 0
  BY DEF Booted
<1>2. \A i \in Id : 0 <= version[i]
  BY StoreAssumption DEF TypeOK, Version
<1> QED BY <1>1, <1>2 DEF Past

LEMMA InOrderStep == ASSUME TypeOK, InOrder, [Next]_vars PROVE InOrder'
<1> SUFFICES ASSUME calls' = 0 PROVE InOrder'
  BY DEF InOrder
<1>1. calls = 0 /\ ~Call
  <2>1. calls \in Nat /\ MaxCalls \in Nat
    BY BootAssumption DEF TypeOK
  <2>2. ~Call
    BY <2>1 DEF Call
  <2>3. calls' = calls \/ Call
    BY DEF Next, Management, PutConfig, DeleteConfig, Boot, BootFetch, BootFails, BootConfigure, Fire,
       Fetch, FetchFails, Refresh, RefreshFails, Respawn, Edit, Expire, vars, management
  <2> QED BY <2>2, <2>3
<1>2. boot = "no" /\ Past(last) /\ Past(answer) /\ (timer = "answered" => NotNewer(last, answer))
  BY <1>1 DEF InOrder
<1>3. ~Management
  BY <1>1, <1>2 DEF Management, PutConfig, DeleteConfig, Boot, BootFetch, BootFails, BootConfigure
<1>4. ASSUME NEW conf, conf \subseteq Service, Past(conf)
      PROVE  \A s \in conf : s.version <= version'[s.id]
  <2>1. \A s \in conf : s.id \in Id /\ s.version \in Int
    BY <1>4 DEF Service, Version
  <2> QED BY <1>4, <2>1, VersionsGrow DEF Past
<1>5. last \subseteq Service /\ answer \subseteq Service
  BY DEF TypeOK
<1>6. ASSUME UNCHANGED <<boot, last, answer>>, timer' = "answered" => timer = "answered" PROVE InOrder'
  BY <1>2, <1>4, <1>5, <1>6 DEF InOrder, Past, NotNewer
<1>7. CASE Fire \/ FetchFails \/ RefreshFails
  BY <1>6, <1>7 DEF Fire, FetchFails, RefreshFails, Schedule, served, management
<1>8. CASE Fetch
  <2>1. /\ answer' = Everything(loads) /\ UNCHANGED <<boot, last, version>>
    BY <1>8 DEF Fetch, source, served, management
  <2>2. Past(answer') /\ NotNewer(last, answer')
    BY <1>2, <1>5, <2>1, LoadIsNewest
  <2> QED BY <1>2, <2>1, <2>2 DEF InOrder, Past, NotNewer
<1>9. CASE Refresh
  <2>1. /\ last' = answer /\ answer' = {} /\ timer' # "answered" /\ UNCHANGED <<boot, version>>
    BY <1>9 DEF Refresh, Schedule, source, management
  <2> QED BY <1>2, <2>1 DEF InOrder, Past
<1>10. CASE Respawn
  <2>1. /\ last' = Booted /\ answer' = {} /\ timer' # "answered" /\ boot' = "no" /\ UNCHANGED version
    BY <1>10 DEF Respawn, Schedule, source
  <2> QED BY <2>1, BootedIsOldest DEF InOrder, Past
<1>11. CASE \/ \E i \in Id : \E H \in Edits[i] : Edit(i, H)
            \/ \E h \in Host : Expire(h)
            \/ UNCHANGED vars
  BY <1>6, <1>11 DEF Edit, Expire, vars, served, reload, management
<1> QED BY <1>3, <1>7, <1>8, <1>9, <1>10, <1>11 DEF Next

(* A worker never takes a service back to an older version: neither edits   *)
(* during a load nor failed loads do, only its death, which brings the      *)
(* configuration of the master back, and the management API, whose POST     *)
(* /boot may overtake a reload or be overtaken by it.                       *)
THEOREM NeverTakenBack ==
  Spec => [][calls' = 0 /\ respawns' = respawns => NotNewer(last, last')]_vars
<1>1. Init => InOrder
  <2> SUFFICES ASSUME Init PROVE InOrder
    OBVIOUS
  <2>1. last = Booted /\ answer = {} /\ boot = "no" /\ timer # "answered"
    BY DEF Init
  <2>2. \A s \in Booted : s.id \in Id /\ s.version = 0
    BY DEF Booted
  <2>3. \A i \in Id : version[i] = 0
    BY DEF Init
  <2> QED BY <2>1, <2>2, <2>3 DEF InOrder, Past
<1>2. TypeOK /\ InOrder /\ [Next]_vars => InOrder'
  BY InOrderStep
<1>3. ASSUME Booting, InOrder, [Next]_vars, InOrder', calls' = 0, respawns' = respawns
      PROVE  NotNewer(last, last')
  <2>1. calls \in Nat /\ MaxCalls \in Nat /\ respawns \in Nat
    BY <1>3, BootAssumption DEF Booting, TypeOK
  <2>2. CASE last' = last
    <3>1. \A s, t \in last : s.version \in Int /\ (s.id = t.id => s = t)
      BY <1>3 DEF Booting, Answers, Configuration, Service, Version
    <3> QED BY <2>2, <3>1 DEF NotNewer
  <2>3. CASE last' # last
    <3>1. Refresh
      <4>1. calls' = calls \/ Call
        BY <1>3 DEF Next, Management, PutConfig, DeleteConfig, Boot, BootFetch, BootFails,
           BootConfigure, Fire, Fetch, FetchFails, Refresh, RefreshFails, Respawn, Edit, Expire,
           vars, management
      <4>2. calls = 0 /\ ~Call
        BY <1>3, <2>1, <4>1 DEF Call
      <4>3. boot = "no"
        BY <1>3, <4>2 DEF InOrder
      <4>4. ~Management /\ ~Respawn
        BY <1>3, <2>1, <4>2, <4>3 DEF Management, PutConfig, DeleteConfig, Boot, BootFetch,
           BootFails, BootConfigure, Respawn
      <4> QED BY <1>3, <2>3, <4>4 DEF Next, Fire, Fetch, FetchFails, RefreshFails, Edit, Expire,
              vars, served
    <3>2. calls = 0 /\ timer = "answered" /\ last' = answer
      BY <1>3, <3>1 DEF Refresh, management
    <3> QED BY <1>3, <3>2 DEF InOrder
  <2> QED BY <2>2, <2>3
<1>4. Booting => TypeOK
  BY DEF Booting
<1> QED BY <1>1, <1>2, <1>3, <1>4, BootingInvariant, PTL DEF Spec
=============================================================================
