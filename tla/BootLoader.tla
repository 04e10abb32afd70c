----------------------------- MODULE BootLoader -----------------------------
(***************************************************************************)
(* The boot configuration loader (configuration_loader.lua) in one worker: *)
(* the configuration that the master loaded before it forked, the chain of *)
(* timers that replaces it, and the calls of the management API            *)
(* (management.lua) that change it.  Every load is of all the services.    *)
(***************************************************************************)
EXTENDS ConfigStore

CONSTANTS
  Portal0,           \* the hosts of each service at the portal, at first
  Edits,             \* the hosts that an edit may give to a service
  MaxFailures,       \* bound: loads that fail
  MaxTimerFailures,  \* bound: calls of ngx.timer.at that fail
  MaxRespawns,       \* bound: workers that die
  MaxCalls           \* bound: calls of the management API

ASSUME BootAssumption ==
  /\ Load = 0..3     \* reloads alternate between 0 and 1, PUT is 2, POST /boot is 3
  /\ Portal0 \in [Id -> SUBSET Host] /\ Edits \in [Id -> SUBSET SUBSET Host]
  /\ MaxFailures \in Nat /\ MaxTimerFailures \in Nat /\ MaxRespawns \in Nat
  /\ MaxCalls \in Nat

VARIABLES
  routing,
  portal, version,   \* as in LazyLoader
  store,             \* the configuration store of the worker
  last,              \* history: the configuration that it was given last
  mixed,             \* history: last was stored over other configurations
  timer,             \* "pending", "loading", "answered", "failed" or "stopped"
  answer,            \* the configuration on its way from the portal
  loads,             \* loads begun, modulo 2
  boot,              \* POST /boot: "no", "loading" or "answered"
  bootAnswer,        \* its configuration on the way from the portal
  calls,
  failures, timerFailures, respawns

source     == <<routing, portal, version>>
served     == <<store, last, mixed>>
reload     == <<timer, answer, loads>>
management == <<boot, bootAnswer, calls>>
faults     == <<failures, timerFailures, respawns>>
vars       == <<source, served, reload, management, faults>>

(* remote_v2:index(): every service of the portal                          *)
Everything(n) ==
  {[id |-> i, version |-> version[i], hosts |-> portal[i], load |-> n] : i \in {j \in Id : portal[j] # {}}}
Booted == {[id |-> i, version |-> 0, hosts |-> Portal0[i], load |-> 0] : i \in {j \in Id : Portal0[j] # {}}}

(* boot.init() in the master, then fork and init_worker(), whose schedule()*)
(* does not insist on a timer either.                                      *)
Init ==
  /\ routing \in Routing
  /\ portal = Portal0 /\ version = [i \in Id |-> 0]
  /\ store = StoreConfig(EmptyStore, Booted, routing)
  /\ last = Booted /\ mixed = FALSE
  /\ \/ timer = "pending" /\ timerFailures = 0
     \/ timer = "stopped" /\ timerFailures = 1 /\ timerFailures <= MaxTimerFailures
  /\ answer = {} /\ boot = "no" /\ bootAnswer = {} /\ calls = 0
  /\ loads = 0 /\ failures = 0 /\ respawns = 0

(* The handler of the timer calls load(), which yields until the portal    *)
(* answers.                                                                *)
Fire ==
  /\ timer = "pending"
  /\ timer' = "loading"
  /\ loads' = (loads + 1) % 2
  /\ UNCHANGED <<source, served, answer, management, faults>>

Fetch ==
  /\ timer = "loading"
  /\ answer' = Everything(loads)
  /\ timer' = "answered"
  /\ UNCHANGED <<source, served, loads, management, faults>>

FetchFails ==
  /\ timer = "loading" /\ failures < MaxFailures
  /\ failures' = failures + 1
  /\ timer' = "failed"
  /\ UNCHANGED <<source, served, answer, loads, management, timerFailures, respawns>>

(* refresh_configuration() resets the store and fills it at once, so that  *)
(* no request sees it empty; a load that failed or raised leaves it alone. *)
Refreshed_NoReset(st, conf) == StoreConfig(st, conf, routing)   \* mutant: deleted services stay
Refreshed(st, conf) == StoreConfig(EmptyStore, conf, routing)

(* Whatever came of the load, the handler schedules the next one.          *)
Schedule ==
  \/ /\ timer' = "pending"
     /\ UNCHANGED timerFailures
  \/ /\ timerFailures < MaxTimerFailures
     /\ timer' = "stopped"
     /\ timerFailures' = timerFailures + 1

Refresh ==
  /\ timer = "answered"
  /\ store' = Refreshed(store, answer)
  /\ last' = answer /\ mixed' = FALSE /\ answer' = {}
  /\ Schedule
  /\ UNCHANGED <<source, loads, management, failures, respawns>>

RefreshFails_NoPcall ==   \* mutant: the error ends the handler, nothing is scheduled
  /\ timer = "failed"
  /\ UNCHANGED vars

RefreshFails ==
  /\ timer = "failed"
  /\ Schedule
  /\ UNCHANGED <<source, served, answer, loads, management, failures, respawns>>

(* A worker dies or exits.  The next one is forked from the master: it     *)
(* begins with the boot configuration and a timer, which is due at once if *)
(* the entry of boot.test in that configuration has expired.               *)
Respawn ==
  /\ respawns < MaxRespawns
  /\ respawns' = respawns + 1
  /\ store' = StoreConfig(EmptyStore, Booted, routing)
  /\ last' = Booted /\ mixed' = FALSE
  /\ Schedule
  /\ answer' = {} /\ loads' = 0 /\ boot' = "no" /\ bootAnswer' = {}
  /\ UNCHANGED <<source, calls, failures>>

(***************************************************************************)
(* The management API, for the worker that answers the call.               *)
(***************************************************************************)
Call == calls < MaxCalls /\ calls' = calls + 1

(* configure() without a reset: what the configuration does not speak of   *)
(* stays.                                                                  *)
ConfigureOver(conf) ==
  /\ store' = StoreConfig(store, conf, routing)
  /\ last' = conf /\ mixed' = TRUE

(* PUT or POST /config, with a part of what the portal has.                *)
PutConfig(conf) ==
  /\ Call
  /\ ConfigureOver(conf)
  /\ UNCHANGED <<source, reload, boot, bootAnswer, faults>>

(* DELETE /config: nothing is served until a configuration comes.          *)
DeleteConfig ==
  /\ Call
  /\ store' = EmptyStore
  /\ last' = {} /\ mixed' = FALSE
  /\ UNCHANGED <<source, reload, boot, bootAnswer, faults>>

(* POST /boot loads, which yields, and configures.                         *)
Boot ==
  /\ Call /\ boot = "no"
  /\ boot' = "loading"
  /\ UNCHANGED <<source, served, reload, bootAnswer, faults>>

BootFetch ==
  /\ boot = "loading"
  /\ boot' = "answered" /\ bootAnswer' = Everything(3)
  /\ UNCHANGED <<source, served, reload, calls, faults>>

(* The load raises 'missing configuration': the call fails.                *)
BootFails ==
  /\ boot = "loading" /\ failures < MaxFailures
  /\ boot' = "no" /\ failures' = failures + 1
  /\ UNCHANGED <<source, served, reload, bootAnswer, calls, timerFailures, respawns>>

BootConfigure ==
  /\ boot = "answered"
  /\ ConfigureOver(bootAnswer)
  /\ boot' = "no" /\ bootAnswer' = {}
  /\ UNCHANGED <<source, reload, calls, faults>>

Management ==
  \/ \E conf \in SUBSET Everything(2) : PutConfig(conf)
  \/ DeleteConfig \/ Boot \/ BootFetch \/ BootFails \/ BootConfigure

Edit(i, H) ==
  /\ version[i] < MaxEdits
  /\ portal' = [portal EXCEPT ![i] = H]
  /\ version' = [version EXCEPT ![i] = @ + 1]
  /\ UNCHANGED <<routing, served, reload, management, faults>>

Expire(h) ==
  /\ store.cache[h].fresh
  /\ store' = ExpireHost(store, h)
  /\ UNCHANGED <<source, last, mixed, reload, management, faults>>

Next ==
  \/ Management
  \/ Fire \/ Fetch \/ FetchFails \/ Refresh \/ RefreshFails \/ Respawn
  \/ \E i \in Id : \E H \in Edits[i] : Edit(i, H)
  \/ \E h \in Host : Expire(h)

Spec == Init /\ [][Next]_vars

(* nginx fires the timer and the portal answers or fails.                  *)
Fairness == WF_vars(Fire) /\ WF_vars(Fetch) /\ WF_vars(Refresh \/ RefreshFails)
FairSpec == Spec /\ Fairness

-----------------------------------------------------------------------------
TypeOK ==
  /\ StoreOK(store) /\ last \subseteq Service /\ answer \subseteq Service
  /\ portal \in [Id -> SUBSET Host] /\ version \in [Id -> Version]
  /\ timer \in {"pending", "loading", "answered", "failed", "stopped"}
  /\ loads \in Load
  /\ failures \in 0..MaxFailures /\ timerFailures \in 0..MaxTimerFailures
  /\ respawns \in 0..MaxRespawns
  /\ boot \in {"no", "loading", "answered"} /\ bootAnswer \subseteq Service
  /\ calls \in 0..MaxCalls /\ mixed \in BOOLEAN

(* Whatever the time, expired entries and loads under way included, every  *)
(* host is served from one configuration, the last that was loaded: never  *)
(* a service deleted from it, never a mixture of two, and never nothing.   *)
(* The management API stores over what is there: until the next reload     *)
(* that goes for the hosts of what it stored only.                         *)
Governed(h) == ~mixed \/ \E s \in last : h \in s.hosts
OneConfiguration == \A h \in Host, matching \in SUBSET Id :
  Governed(h) => FindService(store, routing, h, matching) = Resolve(last, routing, h, matching)

(* Failed loads, respawned workers and calls of the management API do not  *)
(* stop the reloading: the worker ends up with the portal's configuration, *)
(* unless ngx.timer.at refused its first timer or the next one.            *)
Versions(conf) == {<<s.id, s.version>> : s \in conf}
UpToDate == ~mixed /\ Versions(last) = {<<i, version[i]>> : i \in {j \in Id : portal[j] # {}}}
ReloadsUpToDate == <>[](timer # "stopped" => UpToDate)
=============================================================================
