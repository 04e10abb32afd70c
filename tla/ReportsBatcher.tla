--------------------------- MODULE ReportsBatcher ---------------------------
(***************************************************************************)
(* Batched reports of the 3scale batcher policy: the storage shared by the *)
(* nginx workers (reports_batcher.lua), the lock per service that guards   *)
(* it, and the reporting timers that drain it into the 3scale backend and  *)
(* put back what the backend did not acknowledge (reporter.lua).           *)
(*                                                                         *)
(* A counter of the storage is the SET of the hits that it sums up, so     *)
(* that a hit can be followed through the system: the integer the code     *)
(* keeps is the sum of the deltas of the set.  A hit is one metric of one  *)
(* request.                                                                *)
(***************************************************************************)
EXTENDS Integers, FiniteSets

CONSTANTS
  Request,      \* requests that reach ReportsBatcher:add
  Reporter,     \* reporting timers: one per worker and policy instance
  Worker,       \* nginx worker processes
  Service,
  Credential,   \* a user_key, an access_token, an app_id, or an app_id with app_key
  Metric,
  Home,         \* the worker that an actor runs in
  SvcOf,        \* the service of a request or of a reporter
  CredOf,       \* the credentials of a request
  MetricsOf,    \* the metrics in the usage of a request
  KindOf,       \* the type of a credential, as ReportsBatch.new tells them apart
  AppCred,      \* the credential under which a batch files another one
  ZeroDelta,    \* hits whose delta is 0
  Capacity,     \* entries that fit in the shared dictionary
  MaxKeys,      \* keys that storage:get_keys() returns at most: 1024
  MaxFailures,  \* bound: reports to backend that are answered with an error
  MaxCrashes,   \* bound: crashes of a worker
  None          \* "no owner", "no key"

Actor == Request \cup Reporter
Hit   == Request \X Metric
Key   == Service \X Credential \X Metric
Kind  == {KindOf[c] : c \in Credential}

ASSUME ActorsAssumption ==
  /\ Request \cap Reporter = {}
  /\ Home \in [Actor -> Worker]
  /\ SvcOf \in [Actor -> Service]
  /\ CredOf \in [Request -> Credential]
  /\ MetricsOf \in [Request -> SUBSET Metric]
  /\ None \notin Actor \cup Key \cup Credential

(* ReportsBatch.new keeps the app_id of an app_id and app_key pair: filing *)
(* twice is filing once, and does not change the type of the credential.   *)
ASSUME CredentialsAssumption ==
  /\ AppCred \in [Credential -> Credential]
  /\ \A c \in Credential : AppCred[AppCred[c]] = AppCred[c]
  /\ \A c \in Credential : KindOf[AppCred[c]] = KindOf[c]

ASSUME BoundsAssumption ==
  /\ ZeroDelta \subseteq Hit
  /\ Capacity \in Nat /\ MaxKeys \in Nat \ {0}
  /\ MaxFailures \in Nat
  /\ MaxCrashes \in Nat

VARIABLES
  stored,     \* ngx.shared.batched_reports: the hits summed up in each entry
  lock,       \* ngx.shared.batched_reports_locks: the owner of each service
  mode,       \* the type of credentials the loaded configuration asks for
  pc,         \* where each actor is
  hold,       \* the hits in the memory of an actor, under the key it has for them
  cred,       \* the credentials of the transaction an actor is adding
  key,        \* the key between the two accesses to the storage made for it
  toScan,     \* keys that get_all has still to visit
  batched,    \* history: hits handed to ReportsBatcher:add by a request
  counted,    \* history (backend): hits it has counted
  twice,      \* history (backend): hits it has counted more than once
  uncertain,  \* history: hits counted by a report whose answer was not ok
  lost,       \* history: hits dropped where the code says that it drops them
  failures, crashes

store   == <<stored, lock>>
memory  == <<pc, hold, cred, key, toScan>>
backend == <<counted, twice, uncertain>>
faults  == <<failures, crashes>>
vars    == <<store, mode, memory, batched, backend, lost, faults>>

Empty == [k \in Key |-> {}]
Held(a) == UNION {hold[a][k] : k \in Key}
Stored  == UNION {stored[k] : k \in Key}

(* transaction.usage.metrics under key_for_batched_report                  *)
Transaction(r) ==
  [k \in Key |-> {h \in Hit : /\ h[1] = r /\ h[2] \in MetricsOf[r]
                              /\ k = <<SvcOf[r], CredOf[r], h[2]>>}]

(* the keys of one credential that a still has to add                      *)
Pending(a, c) == {k \in Key : k[2] = c /\ hold[a][k] # {}}
Positive(k) == stored[k] \ ZeroDelta # {}

(* ReportsBatch.new: one credential type, taken from the first report, and *)
(* one counter for each value of that credential and metric.               *)
Kinds(p) == {KindOf[k[2]] : k \in {j \in Key : hold[p][j] # {}}}
Batch_OneMetric(p) == [k \in Key |->   \* mutant: one counter per credential
  UNION {hold[p][j] : j \in {i \in Key : k[1] = SvcOf[p] /\ k[2] = AppCred[i[2]]}}]
Batch(p) == [k \in Key |->
  UNION {hold[p][j] : j \in {i \in Key : k = <<SvcOf[p], AppCred[i[2]], i[3]>>}}]

InAdd(a)      == pc[a] \in {"adding", "incr"}
InGetAll(a)   == pc[a] \in {"scan", "delete"}
InSection(a)  == InAdd(a) \/ InGetAll(a)

-----------------------------------------------------------------------------
Init ==
  /\ stored = Empty
  /\ lock = [s \in Service |-> None]
  /\ mode \in [Service -> Kind]
  /\ pc = [a \in Actor |-> "idle"]
  /\ hold = [a \in Actor |-> Empty]
  /\ cred = [a \in Actor |-> None]
  /\ key = [a \in Actor |-> None]
  /\ toScan = [a \in Actor |-> {}]
  /\ batched = {} /\ counted = {} /\ twice = {} /\ uncertain = {} /\ lost = {}
  /\ failures = 0 /\ crashes = 0

(* A request is authorized and hands its transaction to add().  Its        *)
(* credentials are of the type that the configuration asks for.            *)
Arrive(r) ==
  /\ pc[r] = "idle" /\ MetricsOf[r] # {}
  /\ KindOf[CredOf[r]] = mode[SvcOf[r]]
  /\ pc' = [pc EXCEPT ![r] = "add"]
  /\ hold' = [hold EXCEPT ![r] = Transaction(r)]
  /\ batched' = batched \cup {h \in Hit : h[1] = r /\ h[2] \in MetricsOf[r]}
  /\ UNCHANGED <<store, mode, cred, key, toScan, backend, lost, faults>>

(* A new configuration changes the type of the credentials of a service;   *)
(* the shared dictionary outlives the configuration.                       *)
Reconfigure(s) ==
  /\ \E t \in Kind \ {mode[s]} : mode' = [mode EXCEPT ![s] = t]
  /\ UNCHANGED <<store, memory, batched, backend, lost, faults>>

(***************************************************************************)
(* ReportsBatcher:add.  A request adds one transaction; a reporter whose   *)
(* report failed adds one transaction per credential (return_reports).     *)
(***************************************************************************)
AddLock(a) ==
  /\ pc[a] = "add" /\ lock[SvcOf[a]] = None
  /\ \E c \in Credential :
       /\ Pending(a, c) # {}
       /\ cred' = [cred EXCEPT ![a] = c]
  /\ lock' = [lock EXCEPT ![SvcOf[a]] = a]
  /\ pc' = [pc EXCEPT ![a] = "adding"]
  /\ UNCHANGED <<stored, mode, hold, key, toScan, batched, backend, lost, faults>>

Finished(a) == IF a \in Request THEN "done" ELSE "idle"
AfterAdd(a, memo) == IF memo = Empty THEN Finished(a) ELSE "add"

(* lock:lock() gives up after lock_timeout: the transaction is lost        *)
AddTimeout(a) ==
  /\ pc[a] = "add" /\ lock[SvcOf[a]] # None
  /\ \E c \in Credential :
       /\ Pending(a, c) # {}
       /\ hold' = [hold EXCEPT ![a] = [k \in Key |-> IF k[2] = c THEN {} ELSE @[k]]]
       /\ lost' = lost \cup UNION {hold[a][k] : k \in Pending(a, c)}
  /\ pc' = [pc EXCEPT ![a] = AfterAdd(a, hold'[a])]
  /\ UNCHANGED <<store, mode, cred, key, toScan, batched, backend, faults>>

(* storage:safe_add() makes the entry ...                                  *)
SafeAdd(a, k) ==
  /\ pc[a] = "adding" /\ k \in Pending(a, cred[a])
  /\ stored[k] = {}
  /\ Cardinality({j \in Key : stored[j] # {}}) < Capacity
  /\ stored' = [stored EXCEPT ![k] = hold[a][k]]
  /\ hold' = [hold EXCEPT ![a][k] = {}]
  /\ UNCHANGED <<lock, mode, pc, cred, key, toScan, batched, backend, lost, faults>>

(* ... or answers 'no memory', and the report is lost ...                  *)
NoMemory(a, k) ==
  /\ pc[a] = "adding" /\ k \in Pending(a, cred[a])
  /\ stored[k] = {}
  /\ Cardinality({j \in Key : stored[j] # {}}) >= Capacity
  /\ hold' = [hold EXCEPT ![a][k] = {}]
  /\ lost' = lost \cup hold[a][k]
  /\ UNCHANGED <<store, mode, pc, cred, key, toScan, batched, backend, faults>>

(* ... or 'exists', and the entry is incremented by a call of its own,     *)
(* whose result is ignored: an entry that is gone by then stays gone.      *)
Exists_ForgetsKey(a, k) ==   \* mutant: does not remember which entry to increment
  /\ pc[a] = "adding" /\ k \in Pending(a, cred[a])
  /\ stored[k] # {}
  /\ pc' = [pc EXCEPT ![a] = "incr"]
  /\ UNCHANGED <<store, mode, hold, cred, key, toScan, batched, backend, lost, faults>>

Exists(a, k) ==
  /\ pc[a] = "adding" /\ k \in Pending(a, cred[a])
  /\ stored[k] # {}
  /\ pc' = [pc EXCEPT ![a] = "incr"]
  /\ key' = [key EXCEPT ![a] = k]
  /\ UNCHANGED <<store, mode, hold, cred, toScan, batched, backend, lost, faults>>

Incr(a) ==
  /\ pc[a] = "incr"
  /\ stored' = [stored EXCEPT ![key[a]] = IF @ = {} THEN {} ELSE @ \cup hold[a][key[a]]]
  /\ hold' = [hold EXCEPT ![a][key[a]] = {}]
  /\ pc' = [pc EXCEPT ![a] = "adding"]
  /\ key' = [key EXCEPT ![a] = None]
  /\ UNCHANGED <<lock, mode, cred, toScan, batched, backend, lost, faults>>

AddUnlock(a) ==
  /\ pc[a] = "adding" /\ Pending(a, cred[a]) = {}
  /\ lock' = [lock EXCEPT ![SvcOf[a]] = None]
  /\ pc' = [pc EXCEPT ![a] = AfterAdd(a, hold[a])]
  /\ cred' = [cred EXCEPT ![a] = None]
  /\ UNCHANGED <<stored, mode, hold, key, toScan, batched, backend, lost, faults>>

(***************************************************************************)
(* ReportsBatcher:get_all, called by a reporting timer.                    *)
(***************************************************************************)
(* storage:get_keys(): all keys, or as many as it returns.                 *)
GetKeys == LET entries == {k \in Key : stored[k] # {}} IN
  IF Cardinality(entries) <= MaxKeys THEN {entries}
  ELSE {S \in SUBSET entries : Cardinality(S) = MaxKeys}

GetAllLock_Unlocked(p) ==   \* mutant: does not wait for the lock
  /\ pc[p] = "idle"
  /\ lock' = [lock EXCEPT ![SvcOf[p]] = p]
  /\ pc' = [pc EXCEPT ![p] = "scan"]
  /\ \E keys \in GetKeys : toScan' = [toScan EXCEPT ![p] = keys]
  /\ UNCHANGED <<stored, mode, hold, cred, key, batched, backend, lost, faults>>

GetAllLock(p) ==
  /\ pc[p] = "idle" /\ lock[SvcOf[p]] = None
  /\ lock' = [lock EXCEPT ![SvcOf[p]] = p]
  /\ pc' = [pc EXCEPT ![p] = "scan"]
  /\ \E keys \in GetKeys : toScan' = [toScan EXCEPT ![p] = keys]
  /\ UNCHANGED <<stored, mode, hold, cred, key, batched, backend, lost, faults>>

(* storage:get(): entries that are gone, of another service, or whose      *)
(* value is 0 are skipped                                                  *)
Skip(p, k) ==
  /\ pc[p] = "scan" /\ k \in toScan[p]
  /\ ~(Positive(k) /\ k[1] = SvcOf[p])
  /\ toScan' = [toScan EXCEPT ![p] = @ \ {k}]
  /\ UNCHANGED <<store, mode, pc, hold, cred, key, batched, backend, lost, faults>>

Get(p, k) ==
  /\ pc[p] = "scan" /\ k \in toScan[p]
  /\ Positive(k) /\ k[1] = SvcOf[p]
  /\ toScan' = [toScan EXCEPT ![p] = @ \ {k}]
  /\ hold' = [hold EXCEPT ![p][k] = stored[k]]
  /\ key' = [key EXCEPT ![p] = k]
  /\ pc' = [pc EXCEPT ![p] = "delete"]
  /\ UNCHANGED <<store, mode, cred, batched, backend, lost, faults>>

Delete_Keeps(p) ==   \* mutant: the collected entry stays
  /\ pc[p] = "delete"
  /\ key' = [key EXCEPT ![p] = None]
  /\ pc' = [pc EXCEPT ![p] = "scan"]
  /\ UNCHANGED <<store, mode, hold, cred, toScan, batched, backend, lost, faults>>

Delete(p) ==
  /\ pc[p] = "delete"
  /\ stored' = [stored EXCEPT ![key[p]] = {}]
  /\ key' = [key EXCEPT ![p] = None]
  /\ pc' = [pc EXCEPT ![p] = "scan"]
  /\ UNCHANGED <<lock, mode, hold, cred, toScan, batched, backend, lost, faults>>

(* unlock; with no report there is nothing to send                         *)
GetAllUnlock(p) ==
  /\ pc[p] = "scan" /\ toScan[p] = {}
  /\ lock' = [lock EXCEPT ![SvcOf[p]] = None]
  /\ pc' = [pc EXCEPT ![p] = IF hold[p] = Empty THEN "idle" ELSE "batch"]
  /\ UNCHANGED <<stored, mode, hold, cred, key, toScan, batched, backend, lost, faults>>

(***************************************************************************)
(* reporter.report                                                         *)
(***************************************************************************)
(* ReportsBatch.new of reports whose credentials have one type ...         *)
MakeBatch(p) ==
  /\ pc[p] = "batch" /\ Cardinality(Kinds(p)) = 1
  /\ hold' = [hold EXCEPT ![p] = Batch(p)]
  /\ pc' = [pc EXCEPT ![p] = "post"]
  /\ UNCHANGED <<store, mode, cred, key, toScan, batched, backend, lost, faults>>

(* ... and of reports of several types: add_value() indexes a table with   *)
(* nil and raises, the timer's pcall swallows it, the reports are gone.    *)
BatchRaises(p) ==
  /\ pc[p] = "batch" /\ Cardinality(Kinds(p)) # 1
  /\ lost' = lost \cup Held(p)
  /\ hold' = [hold EXCEPT ![p] = Empty]
  /\ pc' = [pc EXCEPT ![p] = "idle"]
  /\ UNCHANGED <<store, mode, cred, key, toScan, batched, backend, faults>>

(* The backend handles POST /transactions.xml ...                          *)
BackendCounts(p) ==
  /\ pc[p] = "post"
  /\ counted' = counted \cup Held(p)
  /\ twice' = twice \cup (counted \cap Held(p))
  /\ pc' = [pc EXCEPT ![p] = "posted"]
  /\ UNCHANGED <<store, mode, hold, cred, key, toScan, batched, uncertain, lost, faults>>

(* ... its answer is ok ...                                                *)
ReportOk(p) ==
  /\ pc[p] = "posted"
  /\ hold' = [hold EXCEPT ![p] = Empty]
  /\ pc' = [pc EXCEPT ![p] = "idle"]
  /\ UNCHANGED <<store, mode, cred, key, toScan, batched, backend, lost, faults>>

(* ... or it is an error, or does not come, whether or not the report was  *)
(* handled: return_reports() gives everything back.                        *)
ReportFails_Drops(p) ==   \* mutant: nothing is returned
  /\ pc[p] \in {"post", "posted"} /\ failures < MaxFailures
  /\ failures' = failures + 1
  /\ uncertain' = uncertain \cup (IF pc[p] = "posted" THEN Held(p) ELSE {})
  /\ hold' = [hold EXCEPT ![p] = Empty]
  /\ pc' = [pc EXCEPT ![p] = "idle"]
  /\ UNCHANGED <<store, mode, cred, key, toScan, batched, counted, twice, lost, crashes>>

ReportFails_Stops(p) ==   \* mutant: an error ends the timer, the reports stay in its memory
  /\ pc[p] \in {"post", "posted"} /\ failures < MaxFailures
  /\ failures' = failures + 1
  /\ uncertain' = uncertain \cup (IF pc[p] = "posted" THEN Held(p) ELSE {})
  /\ pc' = [pc EXCEPT ![p] = "done"]
  /\ UNCHANGED <<store, mode, hold, cred, key, toScan, batched, counted, twice, lost, crashes>>

ReportFails(p) ==
  /\ pc[p] \in {"post", "posted"} /\ failures < MaxFailures
  /\ failures' = failures + 1
  /\ uncertain' = uncertain \cup (IF pc[p] = "posted" THEN Held(p) ELSE {})
  /\ pc' = [pc EXCEPT ![p] = "add"]
  /\ UNCHANGED <<store, mode, hold, cred, key, toScan, batched, counted, twice, lost, crashes>>

(***************************************************************************)
(* A worker dies: what its requests and timers hold in memory is lost, the *)
(* shared dictionaries stay.  The respawned worker starts timers again.    *)
(***************************************************************************)
Crash(w) ==
  LET dead == {a \in Actor : Home[a] = w /\ pc[a] # "done"} IN
  /\ crashes < MaxCrashes
  /\ crashes' = crashes + 1
  /\ lost' = lost \cup ((UNION {Held(a) : a \in dead}) \ Stored)
  /\ pc' = [a \in Actor |-> IF a \notin dead THEN pc[a]
                            ELSE IF a \in Request /\ pc[a] # "idle" THEN "done" ELSE "idle"]
  /\ hold' = [a \in Actor |-> IF a \in dead THEN Empty ELSE hold[a]]
  /\ cred' = [a \in Actor |-> IF a \in dead THEN None ELSE cred[a]]
  /\ key' = [a \in Actor |-> IF a \in dead THEN None ELSE key[a]]
  /\ toScan' = [a \in Actor |-> IF a \in dead THEN {} ELSE toScan[a]]
  /\ UNCHANGED <<store, mode, batched, backend, failures>>

(* resty.lock drops a lock after its exptime (30 s).  The sections above   *)
(* do not yield, so only the lock of a dead worker gets that old.          *)
LockExpires_Early(s) ==   \* mutant: the lock does not outlast the section
  /\ lock[s] # None
  /\ lock' = [lock EXCEPT ![s] = None]
  /\ UNCHANGED <<stored, mode, memory, batched, backend, lost, faults>>

LockExpires(s) ==
  /\ lock[s] # None /\ ~InSection(lock[s])
  /\ lock' = [lock EXCEPT ![s] = None]
  /\ UNCHANGED <<stored, mode, memory, batched, backend, lost, faults>>

-----------------------------------------------------------------------------
Add(a) == \/ AddLock(a) \/ AddTimeout(a) \/ Incr(a) \/ AddUnlock(a)
          \/ \E k \in Key : SafeAdd(a, k) \/ NoMemory(a, k) \/ Exists(a, k)
GetAll(p) == \/ GetAllLock(p) \/ Delete(p) \/ GetAllUnlock(p)
             \/ \E k \in Key : Skip(p, k) \/ Get(p, k)
Report(p) == \/ MakeBatch(p) \/ BatchRaises(p)
             \/ BackendCounts(p) \/ ReportOk(p) \/ ReportFails(p)
Environment == \/ \E w \in Worker : Crash(w)
               \/ \E s \in Service : LockExpires(s) \/ Reconfigure(s)

Next == \/ \E r \in Request : Arrive(r)
        \/ \E a \in Actor : Add(a)
        \/ \E p \in Reporter : GetAll(p) \/ Report(p)
        \/ Environment

Spec == Init /\ [][Next]_vars

(***************************************************************************)
(* Fairness.  Coroutines that can go on are resumed, timers fire, and an   *)
(* answer comes or the request times out.  AddLock or AddTimeout is always *)
(* possible at "add".  A reporting timer that times out on the lock tries  *)
(* again at its next period; resty.lock polls, so that a lock that is free *)
(* again and again is taken in one of the periods.                         *)
(***************************************************************************)
Fairness ==
  /\ \A a \in Actor : WF_vars(Add(a))
  /\ \A p \in Reporter : /\ WF_vars(GetAll(p) /\ pc[p] # "idle")
                         /\ SF_vars(GetAllLock(p))
                         /\ WF_vars(Report(p))
  /\ \A s \in Service : WF_vars(LockExpires(s))

FairSpec == Spec /\ Fairness

-----------------------------------------------------------------------------
(* The shape of the state; a reporter holds hits of its own service only.  *)
TypeOK ==
  /\ stored \in [Key -> SUBSET Hit]
  /\ lock \in [Service -> Actor \cup {None}]
  /\ mode \in [Service -> Kind]
  /\ pc \in [Actor -> {"idle", "add", "adding", "incr", "scan", "delete",
                      "batch", "post", "posted", "done"}]
  /\ hold \in [Actor -> [Key -> SUBSET Hit]]
  /\ cred \in [Actor -> Credential \cup {None}]
  /\ key \in [Actor -> Key \cup {None}]
  /\ \A a \in Actor : /\ InAdd(a) => cred[a] \in Credential
                      /\ pc[a] \in {"incr", "delete"} => key[a] \in Key
                      /\ InGetAll(a) \/ pc[a] \in {"batch", "post", "posted"} => a \in Reporter
  /\ toScan \in [Actor -> SUBSET Key]
  /\ batched \subseteq Hit /\ counted \subseteq Hit /\ twice \subseteq Hit
  /\ uncertain \subseteq Hit /\ lost \subseteq Hit
  /\ failures \in 0..MaxFailures /\ crashes \in 0..MaxCrashes

(* While an actor is between lock() and unlock() of add() or get_all(), no *)
(* other actor, in whatever worker, is there for the same service.         *)
LockExclusion ==
  \A a, b \in Actor : InSection(a) /\ InSection(b) /\ SvcOf[a] = SvcOf[b] => a = b

(* No hit that add() was given disappears without a trace: it is counted   *)
(* by the backend, in the storage, in the memory of an actor that will     *)
(* report or return it, or it was dropped where the code drops reports.    *)
NoSilentLoss ==
  batched \subseteq counted \cup Stored \cup lost \cup UNION {Held(a) : a \in Actor}

(* The timers of several workers drain one storage: still a hit is counted *)
(* a second time only after an answer that was not ok made return_reports  *)
(* put it back although the backend had counted it.                        *)
RecountOnlyInDoubt == twice \subseteq uncertain

(* get_all deletes what it hands out, and what is returned is not kept: a  *)
(* hit is in one entry only, and the reporter about to delete the entry is *)
(* the one actor that has a copy of it.                                    *)
OnePlace ==
  /\ \A j, k \in Key : stored[j] \cap stored[k] # {} => j = k
  /\ \A a, b \in Actor : Held(a) \cap Held(b) # {} => a = b
  /\ \A a \in Actor, k \in Key :
       Held(a) \cap stored[k] # {} => pc[a] = "delete" /\ key[a] = k

(* Through aggregation, failed reports and returns, a hit stays filed      *)
(* under its own service and metric, and under its own application.        *)
FiledRight(k, H) ==
  \A h \in H : /\ k[1] = SvcOf[h[1]]
              /\ AppCred[k[2]] = AppCred[CredOf[h[1]]]
              /\ k[3] = h[2]
Attribution == \A k \in Key : /\ FiledRight(k, stored[k])
                             /\ \A a \in Actor : FiledRight(k, hold[a][k])

(* The comment of ReportsBatch.new: all the reports of a batch have the    *)
(* same type of credentials.                                               *)
OneCredentialKind == \A p \in Reporter : pc[p] = "batch" => Cardinality(Kinds(p)) = 1

(* The ledger, of which the batcher is an implementation.                  *)
Ledger == INSTANCE ReportLedger WITH
  owed <- Stored \cup UNION {Held(a) : a \in Actor}, doubt <- uncertain
LedgerSpec == Ledger!Spec
=============================================================================
