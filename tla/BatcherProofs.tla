---------------------------- MODULE BatcherProofs ----------------------------
(***************************************************************************)
(* Proofs about the batcher: of ReportsBatcher for every set of requests,  *)
(* timers, workers, services, credentials and metrics, and of its          *)
(* composition with the access phase in BatcherPolicy.                     *)
(***************************************************************************)
EXTENDS BatcherPolicy, TLAPS

USE DEF Actor, Hit, Key

(* Each group of keys and each batch has the shape of a memory of hits.    *)
LEMMA ShapesOK ==
  ASSUME TypeOK
  PROVE  /\ \A r \in Request : Transaction(r) \in [Key -> SUBSET Hit]
         /\ \A p \in Actor : Batch(p) \in [Key -> SUBSET Hit]
         /\ Empty \in [Key -> SUBSET Hit]
<1>1. \A r \in Request : Transaction(r) \in [Key -> SUBSET Hit]
  BY DEF Transaction
<1>2. ASSUME NEW p \in Actor PROVE Batch(p) \in [Key -> SUBSET Hit]
  <2>1. \A j \in Key : hold[p][j] \in SUBSET Hit
    BY DEF TypeOK
  <2>2. \A J \in SUBSET Key : UNION {hold[p][j] : j \in J} \in SUBSET Hit
    BY <2>1
  <2> QED BY <2>2 DEF Batch
<1>3. Empty \in [Key -> SUBSET Hit]
  BY DEF Empty
<1> QED BY <1>1, <1>2, <1>3

(* What an actor has in its memory, all keys together, is a set of hits.    *)
LEMMA HeldOK ==
  ASSUME TypeOK PROVE \A a \in Actor : Held(a) \in SUBSET Hit
BY DEF TypeOK, Held

(* The first state of the batcher has the shape TypeOK describes.           *)
LEMMA TypeOKInit == Init => TypeOK
<1> SUFFICES ASSUME Init PROVE TypeOK OBVIOUS
<1>1. Empty \in [Key -> SUBSET Hit]
  BY DEF Empty
<1> QED BY <1>1, BoundsAssumption, ActorsAssumption
        DEF Init, TypeOK, InAdd, InGetAll

(* No step of ReportsBatcher:add disturbs the shape of the state.           *)
LEMMA TypeOKAdd ==
  ASSUME TypeOK, NEW a \in Actor, Add(a) PROVE TypeOK'
<1>1. CASE AddLock(a)
  <2>1. PICK c \in Credential : cred' = [cred EXCEPT ![a] = c]
    BY <1>1 DEF AddLock
  <2>2. /\ cred' \in [Actor -> Credential \cup {None}]
        /\ cred'[a] \in Credential
        /\ \A b \in Actor : b # a => cred'[b] = cred[b]
    BY <2>1 DEF TypeOK
  <2>3. lock' \in [Service -> Actor \cup {None}]
    BY <1>1, ActorsAssumption DEF AddLock, TypeOK
  <2>4. /\ pc' \in [Actor -> {"idle", "add", "adding", "incr", "scan", "delete",
                             "batch", "post", "posted", "done"}]
        /\ pc'[a] = "adding"
        /\ \A b \in Actor : b # a => pc'[b] = pc[b]
    BY <1>1 DEF AddLock, TypeOK
  <2> QED BY <1>1, <2>2, <2>3, <2>4
          DEF TypeOK, AddLock, InAdd, InGetAll, backend, faults
<1>2. CASE AddTimeout(a)
  <2>1. PICK c \in Credential :
          /\ hold' = [hold EXCEPT ![a] = [k \in Key |-> IF k[2] = c THEN {} ELSE hold[a][k]]]
          /\ lost' = lost \cup UNION {hold[a][k] : k \in Pending(a, c)}
    BY <1>2, ActorsAssumption DEF AddTimeout, TypeOK
  <2>2. hold' \in [Actor -> [Key -> SUBSET Hit]]
    BY <2>1 DEF TypeOK
  <2>3. lost' \subseteq Hit
    BY <2>1 DEF TypeOK, Pending
  <2>4. AfterAdd(a, hold'[a]) \in {"add", "done", "idle"}
    BY DEF AfterAdd, Finished
  <2> QED BY <1>2, <2>2, <2>3, <2>4
          DEF TypeOK, AddTimeout, InAdd, InGetAll, backend, faults, store
<1>3. CASE Incr(a)
  <2>1. key[a] \in Key
    BY <1>3 DEF Incr, TypeOK
  <2>2. hold' \in [Actor -> [Key -> SUBSET Hit]] /\ stored' \in [Key -> SUBSET Hit]
    BY <1>3, <2>1 DEF Incr, TypeOK
  <2> QED BY <1>3, <2>2 DEF TypeOK, Incr, InAdd, InGetAll, backend, faults
<1>4. CASE AddUnlock(a)
  <2>1. AfterAdd(a, hold[a]) \in {"add", "done", "idle"}
    BY DEF AfterAdd, Finished
  <2> QED BY <1>4, <2>1, ActorsAssumption
          DEF TypeOK, AddUnlock, InAdd, InGetAll, backend, faults
<1>5. ASSUME NEW k \in Key, SafeAdd(a, k) PROVE TypeOK'
  <2>1. hold' \in [Actor -> [Key -> SUBSET Hit]] /\ stored' \in [Key -> SUBSET Hit]
    BY <1>5 DEF SafeAdd, TypeOK
  <2> QED BY <1>5, <2>1 DEF TypeOK, SafeAdd, InAdd, InGetAll, backend, faults
<1>6. ASSUME NEW k \in Key, NoMemory(a, k) PROVE TypeOK'
  <2>1. hold' \in [Actor -> [Key -> SUBSET Hit]] /\ lost' \subseteq Hit
    BY <1>6 DEF NoMemory, TypeOK
  <2> QED BY <1>6, <2>1 DEF TypeOK, NoMemory, InAdd, InGetAll, backend, faults, store
<1>7. ASSUME NEW k \in Key, Exists(a, k) PROVE TypeOK'
  BY <1>7 DEF TypeOK, Exists, InAdd, InGetAll, backend, faults, store
<1> QED BY <1>1, <1>2, <1>3, <1>4, <1>5, <1>6, <1>7 DEF Add

(* storage:get_keys() returns keys.                                         *)
LEMMA KeysOfEntries == GetKeys \subseteq SUBSET Key
BY DEF GetKeys

(* Nor does a step of get_all or of reporter.report.                        *)
LEMMA TypeOKReporter ==
  ASSUME TypeOK, NEW p \in Reporter, GetAll(p) \/ Report(p) PROVE TypeOK'
<1>1. CASE GetAllLock(p)
  <2>1. toScan' \in [Actor -> SUBSET Key]
    BY <1>1, ActorsAssumption, KeysOfEntries DEF TypeOK, GetAllLock
  <2> QED BY <1>1, <2>1, ActorsAssumption
          DEF TypeOK, GetAllLock, InAdd, InGetAll, backend, faults
<1>2. CASE Delete(p)
  BY <1>2, ActorsAssumption DEF TypeOK, Delete, InAdd, InGetAll, backend, faults
<1>3. CASE GetAllUnlock(p)
  BY <1>3, ActorsAssumption DEF TypeOK, GetAllUnlock, InAdd, InGetAll, backend, faults
<1>4. ASSUME NEW k \in Key, Skip(p, k) PROVE TypeOK'
  BY <1>4 DEF TypeOK, Skip, InAdd, InGetAll, backend, faults, store
<1>5. ASSUME NEW k \in Key, Get(p, k) PROVE TypeOK'
  <2>1. hold' \in [Actor -> [Key -> SUBSET Hit]]
    BY <1>5 DEF Get, TypeOK
  <2> QED BY <1>5, <2>1 DEF TypeOK, Get, InAdd, InGetAll, backend, faults, store
<1>6. CASE MakeBatch(p)
  <2>1. hold' \in [Actor -> [Key -> SUBSET Hit]]
    BY <1>6, ShapesOK DEF MakeBatch, TypeOK
  <2> QED BY <1>6, <2>1 DEF TypeOK, MakeBatch, InAdd, InGetAll, backend, faults, store
<1>7. CASE BatchRaises(p)
  <2>1. hold' \in [Actor -> [Key -> SUBSET Hit]] /\ lost' \subseteq Hit
    BY <1>7, ShapesOK, HeldOK DEF BatchRaises, TypeOK
  <2> QED BY <1>7, <2>1 DEF TypeOK, BatchRaises, InAdd, InGetAll, backend, faults, store
<1>8. CASE BackendCounts(p)
  BY <1>8, HeldOK DEF TypeOK, BackendCounts, InAdd, InGetAll, faults, store
<1>9. CASE ReportOk(p)
  <2>1. hold' \in [Actor -> [Key -> SUBSET Hit]]
    BY <1>9, ShapesOK DEF ReportOk, TypeOK
  <2> QED BY <1>9, <2>1 DEF TypeOK, ReportOk, InAdd, InGetAll, backend, faults, store
<1>10. CASE ReportFails(p)
  <2>1. uncertain' \subseteq Hit
    BY <1>10, HeldOK DEF ReportFails, TypeOK
  <2>2. failures' \in 0..MaxFailures
    BY <1>10, BoundsAssumption DEF ReportFails, TypeOK
  <2> QED BY <1>10, <2>1, <2>2 DEF TypeOK, ReportFails, InAdd, InGetAll, store
<1> QED BY <1>1, <1>2, <1>3, <1>4, <1>5, <1>6, <1>7, <1>8, <1>9, <1>10
        DEF GetAll, Report

(* Nor an arrival, a crash, the expiry of a lock, a new configuration.      *)
LEMMA TypeOKRest ==
  ASSUME TypeOK, Environment \/ \E r \in Request : Arrive(r) PROVE TypeOK'
<1>1. ASSUME NEW r \in Request, Arrive(r) PROVE TypeOK'
  <2>1. hold' \in [Actor -> [Key -> SUBSET Hit]]
    BY <1>1, ShapesOK DEF Arrive, TypeOK
  <2> QED BY <1>1, <2>1 DEF TypeOK, Arrive, InAdd, InGetAll, backend, faults, store
<1>2. ASSUME NEW w \in Worker, Crash(w) PROVE TypeOK'
  <2>1. lost' \subseteq Hit
    <3> DEFINE dead == {a \in Actor : Home[a] = w /\ pc[a] # "done"}
    <3>1. UNION {Held(a) : a \in dead} \subseteq Hit
      BY HeldOK
    <3> QED BY <1>2, <3>1 DEF Crash, TypeOK
  <2>2. hold' \in [Actor -> [Key -> SUBSET Hit]]
    BY <1>2, ShapesOK DEF Crash, TypeOK
  <2>3. crashes' \in 0..MaxCrashes
    BY <1>2, BoundsAssumption DEF Crash, TypeOK
  <2>4. /\ cred' \in [Actor -> Credential \cup {None}]
        /\ key' \in [Actor -> Key \cup {None}]
        /\ toScan' \in [Actor -> SUBSET Key]
    BY <1>2 DEF Crash, TypeOK
  <2>5. /\ pc' \in [Actor -> {"idle", "add", "adding", "incr", "scan", "delete",
                             "batch", "post", "posted", "done"}]
        /\ \A a \in Actor : pc'[a] \notin {"idle", "done"}
              => pc'[a] = pc[a] /\ cred'[a] = cred[a] /\ key'[a] = key[a]
    BY <1>2 DEF Crash, TypeOK
  <2>6. \A a \in Actor :
          /\ InAdd(a)' => cred'[a] \in Credential
          /\ pc'[a] \in {"incr", "delete"} => key'[a] \in Key
          /\ InGetAll(a)' \/ pc'[a] \in {"batch", "post", "posted"} => a \in Reporter
    BY <2>5 DEF TypeOK, InAdd, InGetAll
  <2>7. UNCHANGED <<stored, lock, mode, batched, counted, twice, uncertain, failures>>
    BY <1>2 DEF Crash, backend, store
  <2> QED BY <2>1, <2>2, <2>3, <2>4, <2>5, <2>6, <2>7 DEF TypeOK, InAdd, InGetAll
<1>3. ASSUME NEW s \in Service, LockExpires(s) PROVE TypeOK'
  BY <1>3 DEF TypeOK, LockExpires, memory, InAdd, InGetAll, backend, faults
<1>4. ASSUME NEW s \in Service, Reconfigure(s) PROVE TypeOK'
  BY <1>4 DEF TypeOK, Reconfigure, memory, InAdd, InGetAll, backend, faults, store
<1> QED BY <1>1, <1>2, <1>3, <1>4 DEF Environment

(* The state keeps its shape, whatever the actors and the environment do.  *)
THEOREM TypeCorrect == Spec => []TypeOK
<1>1. ASSUME TypeOK, [Next]_vars PROVE TypeOK'
  <2>1. CASE Next
    BY <1>1, <2>1, TypeOKAdd, TypeOKReporter, TypeOKRest DEF Next
  <2>2. CASE UNCHANGED vars
    BY <1>1, <2>2 DEF TypeOK, vars, store, memory, backend, faults, InAdd, InGetAll
  <2> QED BY <1>1, <2>1, <2>2
<1> QED BY <1>1, TypeOKInit, PTL DEF Spec
-----------------------------------------------------------------------------
(* The inductive invariant.  An actor between lock() and unlock() owns the *)
(* lock of its service, and what it remembers between two accesses to the  *)
(* storage still holds at the second one, because the keys that it touches *)
(* are of its own service.                                                 *)
Holding(a)  == InSection(a) => lock[SvcOf[a]] = a
OwnKeys(a)  == \A k \in Key : hold[a][k] # {} => k[1] = SvcOf[a]
IdleHolds(a) == pc[a] \in {"idle", "done"} => hold[a] = Empty
Adding(a)   == pc[a] = "incr" => key[a][1] = SvcOf[a] /\ stored[key[a]] # {}
Scanning(a) == InGetAll(a) => \A k \in toScan[a] : hold[a][k] = {}
Deleting(a) == pc[a] = "delete" => /\ key[a][1] = SvcOf[a]
                                   /\ key[a] \notin toScan[a]
                                   /\ hold[a][key[a]] = stored[key[a]]
Posted(a)   == pc[a] = "posted" => \A k \in Key : hold[a][k] \subseteq counted

Sound(a) == /\ Holding(a) /\ OwnKeys(a) /\ IdleHolds(a)
            /\ Adding(a) /\ Scanning(a) /\ Deleting(a) /\ Posted(a)

Working == TypeOK /\ \A a \in Actor : Sound(a)

(* A step of a leaves the memory of the others alone, takes or gives back  *)
(* its own lock only, and changes the storage only while it has that lock. *)
StepOf(a) ==
  /\ \A b \in Actor \ {a} : /\ pc'[b] = pc[b] /\ hold'[b] = hold[b]
                            /\ key'[b] = key[b] /\ toScan'[b] = toScan[b]
  /\ \A s \in Service : lock'[s] # lock[s] => s = SvcOf[a] /\ lock[s] \in {None, a}
  /\ \A k \in Key : stored'[k] # stored[k] => k[1] = SvcOf[a] /\ InSection(a)
  /\ counted \subseteq counted'

(* An actor that a step leaves alone stays sound if its lock is not taken   *)
(* away: add() and get_all() write the lock of one service only.            *)
LEMMA OthersSound ==
  ASSUME Working, TypeOK', NEW a \in Actor, StepOf(a), NEW b \in Actor, b # a
  PROVE  Sound(b)'
<1> USE DEF TypeOK, Working, Sound
<1>1. /\ pc'[b] = pc[b] /\ hold'[b] = hold[b] /\ key'[b] = key[b] /\ toScan'[b] = toScan[b]
      /\ InSection(b)' = InSection(b) /\ InGetAll(b)' = InGetAll(b)
  BY DEF StepOf, InSection, InAdd, InGetAll
<1>2. SvcOf[a] \in Service /\ SvcOf[b] \in Service
  BY ActorsAssumption
<1>3. ASSUME InSection(b) PROVE lock'[SvcOf[b]] = b
  BY <1>2, <1>3, ActorsAssumption DEF StepOf, Holding
<1>4. ASSUME InSection(b), NEW k \in Key, k[1] = SvcOf[b] PROVE stored'[k] = stored[k]
  BY <1>2, <1>4 DEF StepOf, Holding
<1>5. Holding(b)' /\ OwnKeys(b)' /\ IdleHolds(b)' /\ Scanning(b)'
  BY <1>1, <1>3 DEF Holding, OwnKeys, IdleHolds, Scanning, Empty
<1>6. Adding(b)' /\ Deleting(b)'
  <2>1. pc[b] \in {"incr", "delete"} => InSection(b) /\ key[b] \in Key
    BY DEF InSection, InAdd, InGetAll
  <2> QED BY <1>1, <1>4, <2>1 DEF Adding, Deleting
<1>7. Posted(b)'
  BY <1>1 DEF Posted, StepOf
<1> QED BY <1>5, <1>6, <1>7

(* A step that keeps every actor sound keeps the invariant.                 *)
LEMMA WorkingStep ==
  ASSUME Working, TypeOK', NEW a \in Actor, StepOf(a), Sound(a)' PROVE Working'
BY OthersSound DEF Working

(* A step of ReportsBatcher:add keeps the owner of a lock in its section.   *)
LEMMA WorkingAdd ==
  ASSUME Working, TypeOK', NEW a \in Actor, Add(a) PROVE Working'
<1> USE DEF TypeOK, InSection, InAdd, InGetAll, store, backend
<1>0. SvcOf[a] \in Service /\ Sound(a)
  BY ActorsAssumption DEF Working
<1>1. CASE AddLock(a)
  <2>1. /\ pc' = [pc EXCEPT ![a] = "adding"] /\ lock[SvcOf[a]] = None
        /\ lock' = [lock EXCEPT ![SvcOf[a]] = a]
        /\ UNCHANGED <<stored, hold, key, toScan, counted>>
    BY <1>1 DEF AddLock
  <2>2. StepOf(a)
    BY <1>0, <2>1 DEF StepOf, Working
  <2>3. Sound(a)'
    BY <1>0, <2>1 DEF Sound, Holding, OwnKeys, IdleHolds, Adding, Scanning, Deleting, Posted, Working
  <2> QED BY <2>2, <2>3, WorkingStep
<1>2. CASE AddTimeout(a)
  <2>1. PICK c \in Credential :
          hold' = [hold EXCEPT ![a] = [k \in Key |-> IF k[2] = c THEN {} ELSE hold[a][k]]]
    BY <1>2 DEF AddTimeout, Working
  <2>2. /\ \A k \in Key : hold'[a][k] # {} => hold[a][k] # {}
        /\ \A b \in Actor \ {a} : hold'[b] = hold[b]
    BY <2>1 DEF Working
  <2>3. /\ pc[a] = "add"
        /\ pc' = [pc EXCEPT ![a] = AfterAdd(a, hold'[a])]
        /\ UNCHANGED <<lock, stored, key, toScan, counted>>
    BY <1>2 DEF AddTimeout
  <2>4. pc'[a] = "add" \/ (pc'[a] \in {"idle", "done"} /\ hold'[a] = Empty)
    BY <2>3 DEF AfterAdd, Finished, Working
  <2>5. StepOf(a)
    BY <1>0, <2>2, <2>3 DEF StepOf, Working
  <2>6. Sound(a)'
    BY <1>0, <2>2, <2>4, <2>3 DEF Sound, Holding, OwnKeys, IdleHolds, Adding, Scanning,
       Deleting, Posted, Empty
  <2> QED BY <2>5, <2>6, WorkingStep
<1>3. CASE Incr(a)
  <2>1. /\ pc[a] = "incr" /\ key[a] \in Key /\ key[a][1] = SvcOf[a]
        /\ pc' = [pc EXCEPT ![a] = "adding"] /\ hold' = [hold EXCEPT ![a][key[a]] = {}]
        /\ key' = [key EXCEPT ![a] = None]
        /\ UNCHANGED <<lock, toScan, counted>>
    BY <1>0, <1>3 DEF Incr, Sound, Adding, Working
  <2>2. \A k \in Key : k # key[a] => stored'[k] = stored[k]
    BY <1>3 DEF Incr, Working
  <2>3. StepOf(a)
    BY <1>0, <2>1, <2>2 DEF StepOf, Working
  <2>4. Sound(a)'
    BY <1>0, <2>1 DEF Sound, Holding, OwnKeys, IdleHolds, Adding, Scanning, Deleting, Posted, Working
  <2> QED BY <2>3, <2>4, WorkingStep
<1>4. CASE AddUnlock(a)
  <2>1. /\ pc[a] = "adding" /\ pc' = [pc EXCEPT ![a] = AfterAdd(a, hold[a])]
        /\ lock' = [lock EXCEPT ![SvcOf[a]] = None]
        /\ UNCHANGED <<stored, hold, key, toScan, counted>>
    BY <1>4 DEF AddUnlock
  <2>2. pc'[a] = "add" \/ (pc'[a] \in {"idle", "done"} /\ hold[a] = Empty)
    BY <2>1 DEF AfterAdd, Finished, Working
  <2>3. StepOf(a)
    BY <1>0, <2>1 DEF StepOf, Working, Sound, Holding
  <2>4. Sound(a)'
    BY <1>0, <2>1, <2>2 DEF Sound, Holding, OwnKeys, IdleHolds, Adding, Scanning, Deleting,
       Posted, Empty
  <2> QED BY <2>3, <2>4, WorkingStep
<1>5. ASSUME NEW k \in Key, SafeAdd(a, k) PROVE Working'
  <2>1. /\ pc[a] = "adding" /\ hold[a][k] # {}
        /\ stored' = [stored EXCEPT ![k] = hold[a][k]] /\ hold' = [hold EXCEPT ![a][k] = {}]
        /\ UNCHANGED <<lock, pc, key, toScan, counted>>
    BY <1>5 DEF SafeAdd, Pending
  <2>2. StepOf(a)
    BY <1>0, <2>1 DEF StepOf, Working, Sound, OwnKeys
  <2>3. Sound(a)'
    BY <1>0, <2>1 DEF Sound, Holding, OwnKeys, IdleHolds, Adding, Scanning, Deleting, Posted, Working
  <2> QED BY <2>2, <2>3, WorkingStep
<1>6. ASSUME NEW k \in Key, NoMemory(a, k) PROVE Working'
  <2>1. /\ pc[a] = "adding" /\ hold' = [hold EXCEPT ![a][k] = {}]
        /\ UNCHANGED <<stored, lock, pc, key, toScan, counted>>
    BY <1>6 DEF NoMemory
  <2>2. StepOf(a)
    BY <1>0, <2>1 DEF StepOf, Working
  <2>3. Sound(a)'
    BY <1>0, <2>1 DEF Sound, Holding, OwnKeys, IdleHolds, Adding, Scanning, Deleting, Posted, Working
  <2> QED BY <2>2, <2>3, WorkingStep
<1>7. ASSUME NEW k \in Key, Exists(a, k) PROVE Working'
  <2>1. /\ pc[a] = "adding" /\ hold[a][k] # {} /\ stored[k] # {}
        /\ pc' = [pc EXCEPT ![a] = "incr"] /\ key' = [key EXCEPT ![a] = k]
        /\ UNCHANGED <<stored, lock, hold, toScan, counted>>
    BY <1>7 DEF Exists, Pending
  <2>2. StepOf(a)
    BY <1>0, <2>1 DEF StepOf, Working
  <2>3. Sound(a)'
    BY <1>0, <2>1 DEF Sound, Holding, OwnKeys, IdleHolds, Adding, Scanning, Deleting, Posted, Working
  <2> QED BY <2>2, <2>3, WorkingStep
<1> QED BY <1>1, <1>2, <1>3, <1>4, <1>5, <1>6, <1>7 DEF Add

(* So does a step of get_all or of reporter.report.                         *)
LEMMA WorkingReporter ==
  ASSUME Working, TypeOK', NEW p \in Reporter, GetAll(p) \/ Report(p) PROVE Working'
<1> USE DEF TypeOK, InSection, InAdd, InGetAll, store, backend
<1>0. p \in Actor /\ SvcOf[p] \in Service /\ Sound(p)
  BY ActorsAssumption DEF Working
<1>1. CASE GetAllLock(p)
  <2>1. /\ pc[p] = "idle" /\ pc' = [pc EXCEPT ![p] = "scan"] /\ lock[SvcOf[p]] = None
        /\ lock' = [lock EXCEPT ![SvcOf[p]] = p]
        /\ hold[p] = Empty
        /\ UNCHANGED <<stored, hold, key, counted>>
        /\ \A b \in Actor \ {p} : toScan'[b] = toScan[b]
    BY <1>0, <1>1 DEF GetAllLock, Sound, IdleHolds, Working
  <2>2. StepOf(p)
    BY <1>0, <2>1 DEF StepOf, Working
  <2>3. Sound(p)'
    BY <1>0, <2>1 DEF Sound, Holding, OwnKeys, IdleHolds, Adding, Scanning, Deleting,
       Posted, Empty, Working
  <2> QED BY <1>0, <2>2, <2>3, WorkingStep
<1>2. CASE Delete(p)
  <2>1. /\ pc[p] = "delete" /\ pc' = [pc EXCEPT ![p] = "scan"]
        /\ key[p] \in Key /\ key[p][1] = SvcOf[p]
        /\ stored' = [stored EXCEPT ![key[p]] = {}] /\ key' = [key EXCEPT ![p] = None]
        /\ UNCHANGED <<lock, hold, toScan, counted>>
    BY <1>0, <1>2 DEF Delete, Sound, Deleting, Working
  <2>2. StepOf(p)
    BY <1>0, <2>1 DEF StepOf, Working
  <2>3. Sound(p)'
    BY <1>0, <2>1 DEF Sound, Holding, OwnKeys, IdleHolds, Adding, Scanning, Deleting,
       Posted, Working
  <2> QED BY <1>0, <2>2, <2>3, WorkingStep
<1>3. CASE GetAllUnlock(p)
  <2>1. /\ pc[p] = "scan"
        /\ pc' = [pc EXCEPT ![p] = IF hold[p] = Empty THEN "idle" ELSE "batch"]
        /\ lock' = [lock EXCEPT ![SvcOf[p]] = None]
        /\ UNCHANGED <<stored, hold, key, toScan, counted>>
    BY <1>3 DEF GetAllUnlock
  <2>2. StepOf(p)
    BY <1>0, <2>1 DEF StepOf, Working, Sound, Holding
  <2>3. Sound(p)'
    BY <1>0, <2>1 DEF Sound, Holding, OwnKeys, IdleHolds, Adding, Scanning, Deleting,
       Posted, Working
  <2> QED BY <1>0, <2>2, <2>3, WorkingStep
<1>4. ASSUME NEW k \in Key, Skip(p, k) PROVE Working'
  <2>1. /\ toScan' = [toScan EXCEPT ![p] = toScan[p] \ {k}]
        /\ UNCHANGED <<stored, lock, pc, hold, key, counted>>
    BY <1>4 DEF Skip
  <2>2. StepOf(p)
    BY <1>0, <2>1 DEF StepOf, Working
  <2>3. Sound(p)'
    BY <1>0, <2>1 DEF Sound, Holding, OwnKeys, IdleHolds, Adding, Scanning, Deleting,
       Posted, Working
  <2> QED BY <1>0, <2>2, <2>3, WorkingStep
<1>5. ASSUME NEW k \in Key, Get(p, k) PROVE Working'
  <2>1. /\ pc[p] = "scan" /\ pc' = [pc EXCEPT ![p] = "delete"]
        /\ k[1] = SvcOf[p] /\ k \in toScan[p]
        /\ toScan' = [toScan EXCEPT ![p] = toScan[p] \ {k}]
        /\ hold' = [hold EXCEPT ![p][k] = stored[k]] /\ key' = [key EXCEPT ![p] = k]
        /\ UNCHANGED <<stored, lock, counted>>
    BY <1>5 DEF Get
  <2>2. StepOf(p)
    BY <1>0, <2>1 DEF StepOf, Working
  <2>3. Sound(p)'
    BY <1>0, <2>1 DEF Sound, Holding, OwnKeys, IdleHolds, Adding, Scanning, Deleting,
       Posted, Working
  <2> QED BY <1>0, <2>2, <2>3, WorkingStep
<1>6. CASE MakeBatch(p)
  <2>1. /\ pc[p] = "batch" /\ pc' = [pc EXCEPT ![p] = "post"]
        /\ hold' = [hold EXCEPT ![p] = Batch(p)]
        /\ UNCHANGED <<stored, lock, key, toScan, counted>>
    BY <1>6 DEF MakeBatch
  <2>2. StepOf(p)
    BY <1>0, <2>1 DEF StepOf, Working
  <2>3. OwnKeys(p)'
    <3>1. \A k \in Key : Batch(p)[k] # {} => k[1] = SvcOf[p]
      BY DEF Batch
    <3> QED BY <1>0, <2>1, <3>1 DEF OwnKeys, Working
  <2>4. Sound(p)'
    BY <1>0, <2>1, <2>3 DEF Sound, Holding, IdleHolds, Adding, Scanning, Deleting, Posted, Working
  <2> QED BY <1>0, <2>2, <2>4, WorkingStep
<1>7. CASE BatchRaises(p) \/ ReportOk(p)
  <2>1. /\ pc[p] \in {"batch", "posted"} /\ pc' = [pc EXCEPT ![p] = "idle"]
        /\ hold' = [hold EXCEPT ![p] = Empty]
        /\ UNCHANGED <<stored, lock, key, toScan, counted>>
    BY <1>7 DEF BatchRaises, ReportOk
  <2>2. StepOf(p)
    BY <1>0, <2>1 DEF StepOf, Working
  <2>3. Sound(p)'
    BY <1>0, <2>1 DEF Sound, Holding, OwnKeys, IdleHolds, Adding, Scanning, Deleting,
       Posted, Empty, Working
  <2> QED BY <1>0, <2>2, <2>3, WorkingStep
<1>8. CASE BackendCounts(p)
  <2>1. /\ pc[p] = "post" /\ pc' = [pc EXCEPT ![p] = "posted"]
        /\ counted' = counted \cup Held(p)
        /\ UNCHANGED <<stored, lock, hold, key, toScan>>
    BY <1>8 DEF BackendCounts
  <2>2. StepOf(p)
    BY <1>0, <2>1 DEF StepOf, Working
  <2>3. Posted(p)'
    BY <1>0, <2>1 DEF Posted, Held
  <2>4. Sound(p)'
    BY <1>0, <2>1, <2>3 DEF Sound, Holding, OwnKeys, IdleHolds, Adding, Scanning, Deleting, Working
  <2> QED BY <1>0, <2>2, <2>4, WorkingStep
<1>9. CASE ReportFails(p)
  <2>1. /\ pc[p] \in {"post", "posted"} /\ pc' = [pc EXCEPT ![p] = "add"]
        /\ UNCHANGED <<stored, lock, hold, key, toScan, counted>>
    BY <1>9 DEF ReportFails
  <2>2. StepOf(p)
    BY <1>0, <2>1 DEF StepOf, Working
  <2>3. Sound(p)'
    BY <1>0, <2>1 DEF Sound, Holding, OwnKeys, IdleHolds, Adding, Scanning, Deleting,
       Posted, Working
  <2> QED BY <1>0, <2>2, <2>3, WorkingStep
<1> QED BY <1>1, <1>2, <1>3, <1>4, <1>5, <1>6, <1>7, <1>8, <1>9 DEF GetAll, Report

(* And an arrival, a crash, a lock that expires, a new configuration.       *)
LEMMA WorkingRest ==
  ASSUME Working, TypeOK', Environment \/ \E r \in Request : Arrive(r) PROVE Working'
<1> USE DEF TypeOK, InSection, InAdd, InGetAll, store, backend
<1>1. ASSUME NEW r \in Request, Arrive(r) PROVE Working'
  <2>1. /\ pc[r] = "idle" /\ pc' = [pc EXCEPT ![r] = "add"]
        /\ hold' = [hold EXCEPT ![r] = Transaction(r)]
        /\ UNCHANGED <<stored, lock, key, toScan, counted>>
        /\ r \in Actor /\ SvcOf[r] \in Service /\ Sound(r)
    BY <1>1, ActorsAssumption DEF Arrive, Working
  <2>2. StepOf(r)
    BY <2>1 DEF StepOf, Working
  <2>3. \A k \in Key : Transaction(r)[k] # {} => k[1] = SvcOf[r]
    BY DEF Transaction
  <2>4. Sound(r)'
    BY <2>1, <2>3 DEF Sound, Holding, OwnKeys, IdleHolds, Adding, Scanning, Deleting,
       Posted, Working
  <2> QED BY <2>1, <2>2, <2>4, WorkingStep
<1>2. ASSUME NEW w \in Worker, Crash(w) PROVE Working'
  <2> SUFFICES ASSUME NEW a \in Actor PROVE Sound(a)'
    BY DEF Working
  <2>0. Sound(a)
    BY DEF Working
  <2>1. UNCHANGED <<stored, lock, counted>>
    BY <1>2 DEF Crash
  <2>2. CASE Home[a] = w /\ pc[a] # "done"
    <3>1. pc'[a] \in {"idle", "done"} /\ hold'[a] = Empty
      BY <1>2, <2>2 DEF Crash
    <3> QED BY <3>1 DEF Sound, Holding, OwnKeys, IdleHolds, Adding, Scanning, Deleting,
               Posted, Empty
  <2>3. CASE ~(Home[a] = w /\ pc[a] # "done")
    <3>1. /\ pc'[a] = pc[a] /\ hold'[a] = hold[a] /\ key'[a] = key[a]
          /\ toScan'[a] = toScan[a]
      BY <1>2, <2>3 DEF Crash
    <3> QED BY <2>0, <2>1, <3>1 DEF Sound, Holding, OwnKeys, IdleHolds, Adding, Scanning,
               Deleting, Posted, Empty
  <2> QED BY <2>2, <2>3
<1>3. ASSUME NEW s \in Service, LockExpires(s) PROVE Working'
  <2> SUFFICES ASSUME NEW a \in Actor PROVE Sound(a)'
    BY DEF Working
  <2>1. UNCHANGED <<stored, pc, hold, key, toScan, counted>> /\ Sound(a)
    BY <1>3 DEF LockExpires, memory, Working
  <2>2. Holding(a)'
    BY <1>3, <2>1, ActorsAssumption DEF LockExpires, Sound, Holding, Working
  <2> QED BY <2>1, <2>2 DEF Sound, OwnKeys, IdleHolds, Adding, Scanning, Deleting, Posted, Empty
<1>4. ASSUME NEW s \in Service, Reconfigure(s) PROVE Working'
  BY <1>4 DEF Reconfigure, memory, Working, Sound, Holding, OwnKeys, IdleHolds, Adding,
     Scanning, Deleting, Posted, Empty
<1> QED BY <1>1, <1>2, <1>3, <1>4 DEF Environment

(* An actor between lock() and unlock() of add() or get_all() owns the lock *)
(* of its service: the inductive invariant behind LockExclusion.            *)
THEOREM WorkingInvariant == Spec => []Working
<1>1. Init => Working
  <2> SUFFICES ASSUME Init PROVE Working OBVIOUS
  <2>1. TypeOK
    BY TypeOKInit
  <2>2. ASSUME NEW a \in Actor PROVE Sound(a)
    BY DEF Init, Sound, Holding, OwnKeys, IdleHolds, Adding, Scanning, Deleting, Posted,
       Empty, InSection, InAdd, InGetAll
  <2> QED BY <2>1, <2>2 DEF Working
<1>2. ASSUME Working, [Next]_vars PROVE Working'
  <2>1. CASE Next
    <3>1. TypeOK'
      BY <1>2, <2>1, TypeOKAdd, TypeOKReporter, TypeOKRest DEF Next, Working
    <3> QED BY <1>2, <2>1, <3>1, WorkingAdd, WorkingReporter, WorkingRest DEF Next
  <2>2. CASE UNCHANGED vars
    BY <1>2, <2>2 DEF vars, store, memory, backend, faults, Working, TypeOK, InSection,
       InAdd, InGetAll, Sound, Holding, OwnKeys, IdleHolds, Adding, Scanning, Deleting,
       Posted, Empty
  <2> QED BY <1>2, <2>1, <2>2
<1> QED BY <1>1, <1>2, PTL DEF Spec

(* resty.lock as add() and get_all() use it admits one actor per service   *)
(* between lock() and unlock(), in all the workers together.               *)
THEOREM OneInSection == Spec => []LockExclusion
<1>1. Working => LockExclusion
  BY DEF Working, Sound, Holding, LockExclusion
<1> QED BY <1>1, WorkingInvariant, PTL

-----------------------------------------------------------------------------
(* No hit is dropped silently.                                             *)
InStore(h)  == \E k \in Key : h \in stored[k]
InMemory(h) == \E a \in Actor, k \in Key : h \in hold[a][k]
Kept(h)     == h \in counted \/ h \in lost \/ InStore(h) \/ InMemory(h)

(* NoSilentLoss, said of one hit at a time.                                 *)
LEMMA KeptMeansNoLoss == ASSUME TypeOK PROVE NoSilentLoss <=> \A h \in batched : Kept(h)
BY DEF NoSilentLoss, Kept, InStore, InMemory, Stored, Held, TypeOK

(* No step of ReportsBatcher:add makes a hit vanish.                        *)
LEMMA KeptByAdd ==
  ASSUME Working, NEW a \in Actor, Add(a), NEW h \in Hit, Kept(h) PROVE Kept(h)'
<1> USE DEF Kept, InStore, InMemory
<1> TypeOK /\ Sound(a)
  BY DEF Working
<1>1. CASE AddLock(a) \/ AddUnlock(a) \/ \E k \in Key : Exists(a, k)
  BY <1>1 DEF AddLock, AddUnlock, Exists, backend, store
<1>2. CASE AddTimeout(a)
  <2>1. PICK c \in Credential :
          /\ hold' = [hold EXCEPT ![a] = [k \in Key |-> IF k[2] = c THEN {} ELSE hold[a][k]]]
          /\ lost' = lost \cup UNION {hold[a][k] : k \in Pending(a, c)}
    BY <1>2 DEF AddTimeout, TypeOK
  <2>2. ASSUME NEW k \in Key, h \in hold[a][k] PROVE h \in lost' \/ h \in hold'[a][k]
    BY <2>1, <2>2 DEF Pending, TypeOK
  <2>3. UNCHANGED <<stored, counted>> /\ \A b \in Actor \ {a} : hold'[b] = hold[b]
    BY <1>2, <2>1 DEF AddTimeout, backend, store, TypeOK
  <2> QED BY <2>1, <2>2, <2>3
<1>3. CASE Incr(a)
  <2>1. /\ key[a] \in Key /\ stored[key[a]] # {}
        /\ stored' = [stored EXCEPT ![key[a]] = stored[key[a]] \cup hold[a][key[a]]]
        /\ hold' = [hold EXCEPT ![a][key[a]] = {}]
        /\ UNCHANGED <<counted, lost>>
    BY <1>3 DEF Incr, Sound, Adding, TypeOK, backend
  <2>2. \A k \in Key : h \in stored[k] => h \in stored'[k]
    BY <2>1 DEF TypeOK
  <2>3. \A k \in Key : h \in hold[a][k] => h \in stored'[k] \/ h \in hold'[a][k]
    BY <2>1 DEF TypeOK
  <2>4. \A b \in Actor \ {a} : hold'[b] = hold[b]
    BY <2>1 DEF TypeOK
  <2> QED BY <2>1, <2>2, <2>3, <2>4
<1>4. ASSUME NEW j \in Key, SafeAdd(a, j) PROVE Kept(h)'
  <2>1. /\ stored[j] = {} /\ stored' = [stored EXCEPT ![j] = hold[a][j]]
        /\ hold' = [hold EXCEPT ![a][j] = {}]
        /\ UNCHANGED <<counted, lost>>
    BY <1>4 DEF SafeAdd, backend
  <2>2. \A k \in Key : h \in stored[k] => h \in stored'[k]
    BY <2>1 DEF TypeOK
  <2>3. \A k \in Key : h \in hold[a][k] => h \in stored'[k] \/ h \in hold'[a][k]
    BY <2>1 DEF TypeOK
  <2>4. \A b \in Actor \ {a} : hold'[b] = hold[b]
    BY <2>1 DEF TypeOK
  <2> QED BY <2>1, <2>2, <2>3, <2>4
<1>5. ASSUME NEW j \in Key, NoMemory(a, j) PROVE Kept(h)'
  <2>1. /\ lost' = lost \cup hold[a][j] /\ hold' = [hold EXCEPT ![a][j] = {}]
        /\ UNCHANGED <<stored, counted>>
    BY <1>5 DEF NoMemory, backend, store
  <2>2. \A k \in Key : h \in hold[a][k] => h \in lost' \/ h \in hold'[a][k]
    BY <2>1 DEF TypeOK
  <2>3. \A b \in Actor \ {a} : hold'[b] = hold[b]
    BY <2>1 DEF TypeOK
  <2> QED BY <2>1, <2>2, <2>3
<1> QED BY <1>1, <1>2, <1>3, <1>4, <1>5 DEF Add

(* No step of get_all or of reporter.report makes a hit vanish.             *)
LEMMA KeptByReporter ==
  ASSUME Working, NEW p \in Reporter, GetAll(p) \/ Report(p), NEW h \in Hit, Kept(h)
  PROVE  Kept(h)'
<1> USE DEF Kept, InStore, InMemory
<1> p \in Actor /\ TypeOK /\ Sound(p)
  BY DEF Working
<1>1. CASE \/ GetAllLock(p) \/ GetAllUnlock(p) \/ ReportFails(p) \/ BackendCounts(p)
           \/ \E k \in Key : Skip(p, k)
  BY <1>1 DEF GetAllLock, GetAllUnlock, ReportFails, BackendCounts, Skip, backend, store
<1>2. ASSUME NEW j \in Key, Get(p, j) PROVE Kept(h)'
  <2>1. /\ hold[p][j] = {} /\ hold' = [hold EXCEPT ![p][j] = stored[j]]
        /\ UNCHANGED <<stored, counted, lost>>
    BY <1>2 DEF Get, Sound, Scanning, InGetAll, backend, store
  <2>2. \A k \in Key : h \in hold[p][k] => h \in hold'[p][k]
    BY <2>1 DEF TypeOK
  <2>3. \A b \in Actor \ {p} : hold'[b] = hold[b]
    BY <2>1 DEF TypeOK
  <2> QED BY <2>1, <2>2, <2>3
<1>3. CASE Delete(p)
  <2>1. /\ key[p] \in Key /\ hold[p][key[p]] = stored[key[p]]
        /\ stored' = [stored EXCEPT ![key[p]] = {}]
        /\ UNCHANGED <<hold, counted, lost>>
    BY <1>3 DEF Delete, Sound, Deleting, TypeOK, backend
  <2>2. \A k \in Key : h \in stored[k] => h \in stored'[k] \/ h \in hold'[p][k]
    BY <2>1 DEF TypeOK
  <2> QED BY <2>1, <2>2
<1>4. CASE MakeBatch(p)
  <2>1. /\ hold' = [hold EXCEPT ![p] = Batch(p)]
        /\ UNCHANGED <<stored, counted, lost>>
    BY <1>4 DEF MakeBatch, backend, store
  <2>2. ASSUME NEW k \in Key, h \in hold[p][k] PROVE \E j \in Key : h \in Batch(p)[j]
    <3> DEFINE j == <<SvcOf[p], AppCred[k[2]], k[3]>>
    <3>1. j \in Key
      BY ActorsAssumption, CredentialsAssumption
    <3>2. h \in Batch(p)[j]
      BY <2>2, <3>1 DEF Batch
    <3> QED BY <3>1, <3>2
  <2>3. /\ hold'[p] = Batch(p)
        /\ \A b \in Actor \ {p} : hold'[b] = hold[b]
    BY <2>1 DEF TypeOK
  <2> QED BY <2>1, <2>2, <2>3
<1>5. CASE BatchRaises(p)
  <2>1. /\ lost' = lost \cup Held(p) /\ hold' = [hold EXCEPT ![p] = Empty]
        /\ UNCHANGED <<stored, counted>>
    BY <1>5 DEF BatchRaises, backend, store
  <2>2. \A k \in Key : h \in hold[p][k] => h \in lost'
    BY <2>1 DEF Held
  <2>3. \A b \in Actor \ {p} : hold'[b] = hold[b]
    BY <2>1 DEF TypeOK
  <2> QED BY <2>1, <2>2, <2>3
<1>6. CASE ReportOk(p)
  <2>1. /\ hold' = [hold EXCEPT ![p] = Empty] /\ pc[p] = "posted"
        /\ UNCHANGED <<stored, counted, lost>>
    BY <1>6 DEF ReportOk, backend, store
  <2>2. \A k \in Key : h \in hold[p][k] => h \in counted'
    BY <2>1 DEF Sound, Posted
  <2>3. \A b \in Actor \ {p} : hold'[b] = hold[b]
    BY <2>1 DEF TypeOK
  <2> QED BY <2>1, <2>2, <2>3
<1> QED BY <1>1, <1>2, <1>3, <1>4, <1>5, <1>6 DEF GetAll, Report

(* Nor does an arrival, a crash, an expired lock or a new configuration.    *)
LEMMA KeptByRest ==
  ASSUME Working, Environment \/ \E r \in Request : Arrive(r), NEW h \in Hit,
         Kept(h) \/ h \in batched' \ batched
  PROVE  Kept(h)'
<1> USE DEF Kept, InStore, InMemory
<1> TypeOK
  BY DEF Working
<1>1. ASSUME NEW r \in Request, Arrive(r) PROVE Kept(h)'
  <2>1. /\ pc[r] = "idle" /\ hold[r] = Empty
        /\ hold' = [hold EXCEPT ![r] = Transaction(r)]
        /\ batched' = batched \cup {g \in Hit : g[1] = r /\ g[2] \in MetricsOf[r]}
        /\ UNCHANGED <<stored, counted, lost>>
    BY <1>1 DEF Arrive, backend, store, Working, Sound, IdleHolds
  <2>2. CASE Kept(h)
    BY <2>1, <2>2 DEF Empty, TypeOK
  <2>3. CASE h \in batched' \ batched
    <3> DEFINE k == <<SvcOf[r], CredOf[r], h[2]>>
    <3>1. h[1] = r /\ h[2] \in MetricsOf[r]
      BY <2>1, <2>3
    <3>2. k \in Key
      BY ActorsAssumption
    <3>3. h \in Transaction(r)[k]
      BY <3>1, <3>2 DEF Transaction
    <3> QED BY <2>1, <3>2, <3>3 DEF TypeOK
  <2> QED BY <1>1, <2>2, <2>3
<1>2. ASSUME NEW w \in Worker, Crash(w) PROVE Kept(h)'
  <2> DEFINE dead == {a \in Actor : Home[a] = w /\ pc[a] # "done"}
  <2>1. /\ UNCHANGED <<stored, counted, batched>>
        /\ lost' = lost \cup ((UNION {Held(a) : a \in dead}) \ Stored)
        /\ \A a \in Actor \ dead : hold'[a] = hold[a]
    BY <1>2 DEF Crash, backend, store
  <2>2. ASSUME NEW a \in dead, NEW k \in Key, h \in hold[a][k] PROVE Kept(h)'
    <3>1. h \in Held(a)
      BY <2>2 DEF Held
    <3>2. h \in Stored => InStore(h)'
      BY <2>1 DEF Stored
    <3> QED BY <2>1, <3>1, <3>2
  <2>3. Kept(h)
    BY <2>1
  <2> HIDE DEF dead
  <2> QED BY <2>1, <2>2, <2>3
<1>3. ASSUME NEW s \in Service, LockExpires(s) \/ Reconfigure(s) PROVE Kept(h)'
  BY <1>3 DEF LockExpires, Reconfigure, memory, store, backend
<1> QED BY <1>1, <1>2, <1>3 DEF Environment

(* A hit that add() was given is counted, stored, in the memory of an      *)
(* actor that will report or return it, or among the lost.                 *)
THEOREM NothingLostSilently == Spec => []NoSilentLoss
<1>1. Init => NoSilentLoss
  BY DEF Init, NoSilentLoss
<1>2. ASSUME Working, Working', NoSilentLoss, [Next]_vars PROVE NoSilentLoss'
  <2>1. \A h \in batched : h \in Hit /\ Kept(h)
    BY <1>2, KeptMeansNoLoss DEF Working, TypeOK
  <2>2. \A h \in batched' : h \in Hit
    BY <1>2 DEF Working, TypeOK
  <2>3. (\A h \in batched' : Kept(h)') => NoSilentLoss'
    BY <1>2 DEF NoSilentLoss, Kept, InStore, InMemory, Stored, Held, Working, TypeOK
  <2>4. CASE Next
    <3>1. CASE Environment \/ \E r \in Request : Arrive(r)
      BY <1>2, <2>1, <2>2, <2>3, <3>1, KeptByRest
    <3>2. ASSUME NEW a \in Actor, Add(a) PROVE NoSilentLoss'
      <4>1. batched' = batched
        BY <3>2 DEF Add, AddLock, AddTimeout, Incr, AddUnlock, SafeAdd, NoMemory, Exists
      <4> QED BY <1>2, <2>1, <3>2, <4>1, KeptByAdd, <2>3
    <3>3. ASSUME NEW p \in Reporter, GetAll(p) \/ Report(p) PROVE NoSilentLoss'
      <4>1. batched' = batched
        BY <3>3 DEF GetAll, Report, GetAllLock, Delete, GetAllUnlock, Skip, Get, MakeBatch,
           BatchRaises, BackendCounts, ReportOk, ReportFails
      <4> QED BY <1>2, <2>1, <3>3, <4>1, KeptByReporter, <2>3
    <3> QED BY <2>4, <3>1, <3>2, <3>3 DEF Next
  <2>5. CASE UNCHANGED vars
    BY <1>2, <2>5 DEF vars, store, memory, backend, faults, NoSilentLoss, Stored, Held
  <2> QED BY <1>2, <2>4, <2>5
<1> QED BY <1>1, <1>2, WorkingInvariant, PTL DEF Spec

-----------------------------------------------------------------------------
(* Where the hits are.  A hit is under one key of one memory or of the     *)
(* storage, it is counted a second time only when a report was in doubt,   *)
(* it stays filed under its own service, application and metric, and the   *)
(* batcher as a whole implements the ledger of ReportLedger.               *)

(* A hit is in one entry of the storage, in one entry of one memory, and   *)
(* in both only while get_all is about to delete the entry.                *)
StoredOnce == \A j, k \in Key : \A h \in stored[j] : h \in stored[k] => j = k
HeldOnce == \A a, b \in Actor, j, k \in Key : \A h \in hold[a][j] :
  h \in hold[b][k] => a = b /\ j = k
Moving == \A a \in Actor, j, k \in Key : \A h \in hold[a][j] :
  h \in stored[k] => pc[a] = "delete" /\ key[a] = k

(* The hits of a request that has not come yet are nowhere.                *)
Unborn == \A r \in Request : pc[r] = "idle" =>
  \A h \in Hit : h[1] = r =>
    /\ h \notin counted \cup twice \cup lost
    /\ \A k \in Key : h \notin stored[k] /\ \A a \in Actor : h \notin hold[a][k]

(* What was counted and is still owed is in doubt, but for the report that *)
(* waits for its answer.                                                   *)
Doubted ==
  /\ twice \subseteq uncertain
  /\ \A k \in Key : stored[k] \cap counted \subseteq uncertain
  /\ \A a \in Actor, k \in Key : pc[a] # "posted" => hold[a][k] \cap counted \subseteq uncertain

Placed == StoredOnce /\ HeldOnce /\ Moving /\ Unborn /\ Doubted

-----------------------------------------------------------------------------
LEMMA PlacedInit == Init => Placed
BY DEF Init, Placed, StoredOnce, HeldOnce, Moving, Unborn, Doubted, Empty

(* A step that puts no hit anywhere.                                       *)
Forgets ==
  /\ \A k \in Key : stored'[k] \subseteq stored[k]
  /\ \A a \in Actor, k \in Key : hold'[a][k] \subseteq hold[a][k]
  /\ \A a \in Actor : pc[a] = "delete" =>
       \/ pc'[a] = "delete" /\ key'[a] = key[a]
       \/ \A k \in Key : hold'[a][k] = {}
       \/ stored'[key[a]] = {}
  /\ \A a \in Actor, k \in Key : pc[a] = "posted" =>
       \/ pc'[a] = "posted"
       \/ hold'[a][k] \subseteq uncertain'
  /\ \A r \in Request : pc'[r] = "idle" => pc[r] = "idle"
  /\ uncertain \subseteq uncertain'

LEMMA PlacedForgets ==
  ASSUME Placed, TypeOK, TypeOK', Forgets, counted' = counted, twice' = twice,
         \A h \in lost' \ lost : InMemory(h)
  PROVE  Placed'
<1> USE DEF Placed, Forgets
<1>1. StoredOnce'
  BY DEF StoredOnce
<1>2. HeldOnce'
  BY DEF HeldOnce
<1>3. Moving'
  BY DEF Moving
<1>4. Unborn'
  BY DEF Unborn, InMemory
<1>5. Doubted'
  BY DEF Doubted
<1> QED BY <1>1, <1>2, <1>3, <1>4, <1>5

(* A step of add() that moves hold[a][k] to the storage.                   *)
LEMMA PlacedPut ==
  ASSUME Placed, TypeOK, TypeOK', NEW a \in Actor, NEW k \in Key,
         pc[a] \in {"adding", "incr"}, pc'[a] = "adding",
         stored' \in [Key -> SUBSET Hit],
         stored'[k] \subseteq stored[k] \cup hold[a][k],
         \A j \in Key \ {k} : stored'[j] = stored[j],
         hold' = [hold EXCEPT ![a][k] = {}],
         \A b \in Actor \ {a} : pc'[b] = pc[b] /\ key'[b] = key[b],
         UNCHANGED <<counted, twice, uncertain, lost>>
  PROVE  Placed'
<1> USE DEF Placed
<1>1. /\ hold'[a][k] = {}
      /\ \A b \in Actor, j \in Key : b # a \/ j # k => hold'[b][j] = hold[b][j]
      /\ \A b \in Actor, j \in Key : hold'[b][j] \subseteq hold[b][j]
  BY DEF TypeOK
<1>2. \A j \in Key : \A h \in hold[a][j] : \A i \in Key : h \notin stored[i]
  BY DEF Moving
<1>3. StoredOnce'
  BY <1>2 DEF StoredOnce
<1>4. HeldOnce'
  BY <1>1 DEF HeldOnce
<1>5. Moving'
  <2> SUFFICES ASSUME NEW b \in Actor, NEW i \in Key, NEW j \in Key, NEW h \in hold'[b][i],
                      h \in stored'[j]
               PROVE  pc'[b] = "delete" /\ key'[b] = j
    BY DEF Moving
  <2>1. h \in hold[b][i]
    BY <1>1
  <2>2. h \notin hold[a][k]
    BY <2>1, <1>1 DEF HeldOnce
  <2>3. h \in stored[j]
    BY <2>2
  <2>4. pc[b] = "delete" /\ key[b] = j
    BY <2>1, <2>3 DEF Moving
  <2> QED BY <2>4
<1>6. Unborn'
  BY <1>1 DEF Unborn
<1>7. Doubted'
  BY <1>1 DEF Doubted
<1> QED BY <1>3, <1>4, <1>5, <1>6, <1>7

(* Every step of ReportsBatcher:add keeps each hit in its one place.        *)
LEMMA PlacedAdd ==
  ASSUME Placed, Working, TypeOK', NEW a \in Actor, Add(a) PROVE Placed'
<1> TypeOK /\ Sound(a)
  BY DEF Working
<1>1. CASE AddLock(a) \/ AddUnlock(a) \/ \E k \in Key : Exists(a, k)
  <2>1. /\ UNCHANGED <<stored, hold, counted, twice, uncertain, lost>>
        /\ pc[a] \in {"add", "adding"} /\ pc'[a] \in {"add", "adding", "incr", "done", "idle"}
        /\ a \in Request => pc'[a] # "idle"
        /\ \A b \in Actor \ {a} : pc'[b] = pc[b] /\ key'[b] = key[b]
    BY <1>1 DEF AddLock, AddUnlock, Exists, AfterAdd, Finished, TypeOK, store, backend
  <2> QED BY <2>1, PlacedForgets DEF Forgets
<1>2. CASE AddTimeout(a)
  <2>1. PICK c \in Credential :
          /\ hold' = [hold EXCEPT ![a] = [k \in Key |-> IF k[2] = c THEN {} ELSE hold[a][k]]]
          /\ lost' = lost \cup UNION {hold[a][k] : k \in Pending(a, c)}
    BY <1>2 DEF AddTimeout, TypeOK
  <2>2. /\ UNCHANGED <<stored, counted, twice, uncertain, key>> /\ pc[a] = "add"
        /\ pc'[a] \in {"add", "done", "idle"}
        /\ a \in Request => pc'[a] # "idle"
        /\ \A b \in Actor \ {a} : pc'[b] = pc[b]
    BY <1>2 DEF AddTimeout, AfterAdd, Finished, TypeOK, store, backend
  <2>3. \A b \in Actor, k \in Key : hold'[b][k] \subseteq hold[b][k]
    BY <2>1 DEF TypeOK
  <2>4. \A h \in lost' \ lost : InMemory(h)
    BY <2>1 DEF InMemory, Pending
  <2> QED BY <2>2, <2>3, <2>4, PlacedForgets DEF Forgets
<1>3. CASE Incr(a)
  <2>1. /\ key[a] \in Key /\ stored[key[a]] # {}
        /\ stored' = [stored EXCEPT ![key[a]] = stored[key[a]] \cup hold[a][key[a]]]
        /\ hold' = [hold EXCEPT ![a][key[a]] = {}]
        /\ pc[a] = "incr" /\ pc' = [pc EXCEPT ![a] = "adding"]
        /\ key' = [key EXCEPT ![a] = None]
        /\ UNCHANGED <<counted, twice, uncertain, lost>>
    BY <1>3 DEF Incr, Sound, Adding, TypeOK, backend
  <2>2. /\ stored'[key[a]] \subseteq stored[key[a]] \cup hold[a][key[a]]
        /\ \A j \in Key \ {key[a]} : stored'[j] = stored[j]
        /\ stored' \in [Key -> SUBSET Hit] /\ pc'[a] = "adding"
        /\ \A b \in Actor \ {a} : pc'[b] = pc[b] /\ key'[b] = key[b]
    BY <2>1 DEF TypeOK
  <2> QED BY <2>1, <2>2, PlacedPut
<1>4. ASSUME NEW k \in Key, SafeAdd(a, k) PROVE Placed'
  <2>1. /\ stored' = [stored EXCEPT ![k] = hold[a][k]]
        /\ hold' = [hold EXCEPT ![a][k] = {}]
        /\ pc[a] = "adding"
        /\ UNCHANGED <<pc, key, counted, twice, uncertain, lost>>
    BY <1>4 DEF SafeAdd, backend
  <2>2. /\ stored'[k] \subseteq stored[k] \cup hold[a][k]
        /\ \A j \in Key \ {k} : stored'[j] = stored[j]
        /\ stored' \in [Key -> SUBSET Hit]
        /\ \A b \in Actor \ {a} : pc'[b] = pc[b] /\ key'[b] = key[b]
    BY <2>1 DEF TypeOK
  <2> QED BY <2>1, <2>2, PlacedPut
<1>5. ASSUME NEW k \in Key, NoMemory(a, k) PROVE Placed'
  <2>1. /\ lost' = lost \cup hold[a][k] /\ hold' = [hold EXCEPT ![a][k] = {}]
        /\ pc[a] = "adding"
        /\ UNCHANGED <<stored, pc, key, counted, twice, uncertain>>
    BY <1>5 DEF NoMemory, backend, store
  <2>2. \A b \in Actor, j \in Key : hold'[b][j] \subseteq hold[b][j]
    BY <2>1 DEF TypeOK
  <2>3. \A h \in lost' \ lost : InMemory(h)
    BY <2>1 DEF InMemory
  <2> QED BY <2>1, <2>2, <2>3, PlacedForgets DEF Forgets
<1> QED BY <1>1, <1>2, <1>3, <1>4, <1>5 DEF Add

(* get_all reads an entry: nobody else can be about to delete it.          *)
LEMMA PlacedGet ==
  ASSUME Placed, Working, TypeOK', NEW p \in Reporter, NEW k \in Key, Get(p, k)
  PROVE  Placed'
<1> TypeOK /\ p \in Actor /\ Sound(p)
  BY DEF Working
<1> USE DEF Placed
<1>1. /\ pc[p] = "scan" /\ k \in toScan[p] /\ k[1] = SvcOf[p]
      /\ hold' = [hold EXCEPT ![p][k] = stored[k]]
      /\ key' = [key EXCEPT ![p] = k] /\ pc' = [pc EXCEPT ![p] = "delete"]
      /\ UNCHANGED <<stored, counted, twice, uncertain, lost>>
  BY DEF Get, backend, store
<1>2. /\ hold'[p][k] = stored[k]
      /\ \A b \in Actor, j \in Key : b # p \/ j # k => hold'[b][j] = hold[b][j]
      /\ \A b \in Actor \ {p} : pc'[b] = pc[b] /\ key'[b] = key[b]
      /\ pc'[p] = "delete" /\ key'[p] = k
  BY <1>1 DEF TypeOK
<1>3. ASSUME NEW b \in Actor, NEW j \in Key, NEW h \in hold[b][j] PROVE h \notin stored[k]
  <2> SUFFICES ASSUME h \in stored[k] PROVE FALSE OBVIOUS
  <2>1. pc[b] = "delete" /\ key[b] = k
    BY <1>3 DEF Moving
  <2>2. SvcOf[b] = SvcOf[p]
    BY <1>1, <2>1 DEF Working, Sound, Deleting
  <2>3. InSection(b) /\ InSection(p)
    BY <1>1, <2>1 DEF InSection, InGetAll
  <2>4. lock[SvcOf[b]] = b /\ lock[SvcOf[p]] = p
    BY <2>3 DEF Working, Sound, Holding
  <2> QED BY <1>1, <2>1, <2>2, <2>4
<1>4. StoredOnce' /\ Unborn'
  BY <1>1, <1>2 DEF StoredOnce, Unborn
<1>5. HeldOnce'
  BY <1>2, <1>3 DEF HeldOnce
<1>6. Moving'
  <2> SUFFICES ASSUME NEW b \in Actor, NEW i \in Key, NEW j \in Key, NEW h \in hold'[b][i],
                      h \in stored[j]
               PROVE  pc'[b] = "delete" /\ key'[b] = j
    BY <1>1 DEF Moving
  <2>1. CASE b = p /\ i = k
    BY <1>2, <2>1 DEF StoredOnce
  <2>2. CASE ~(b = p /\ i = k)
    <3>1. pc[b] = "delete" /\ key[b] = j
      BY <1>2, <2>2 DEF Moving
    <3> QED BY <1>1, <1>2, <3>1
  <2> QED BY <2>1, <2>2
<1>7. Doubted'
  BY <1>1, <1>2 DEF Doubted
<1> QED BY <1>4, <1>5, <1>6, <1>7

(* ReportsBatch.new files the hits of a report again, each under one key.  *)
LEMMA PlacedBatch ==
  ASSUME Placed, Working, TypeOK', NEW p \in Reporter, MakeBatch(p) PROVE Placed'
<1> TypeOK /\ p \in Actor
  BY DEF Working
<1> USE DEF Placed
<1>1. /\ pc[p] = "batch" /\ pc' = [pc EXCEPT ![p] = "post"]
      /\ hold' = [hold EXCEPT ![p] = Batch(p)]
      /\ UNCHANGED <<stored, key, counted, twice, uncertain, lost>>
  BY DEF MakeBatch, backend, store
<1>2. /\ hold'[p] = Batch(p) /\ pc'[p] = "post"
      /\ \A b \in Actor \ {p} : hold'[b] = hold[b] /\ pc'[b] = pc[b]
  BY <1>1 DEF TypeOK
<1>3. \A k \in Key : \A h \in hold'[p][k] :
        \E i \in Key : h \in hold[p][i] /\ k = <<SvcOf[p], AppCred[i[2]], i[3]>>
  BY <1>2 DEF Batch
<1>4. \A k \in Key : \A h \in hold'[p][k] : \E i \in Key : h \in hold[p][i]
  BY <1>3
<1>5. StoredOnce' /\ Unborn' /\ Moving'
  BY <1>1, <1>2, <1>4 DEF StoredOnce, Unborn, Moving
<1>6. HeldOnce'
  <2> SUFFICES ASSUME NEW a \in Actor, NEW b \in Actor, NEW j \in Key, NEW k \in Key,
                      NEW h \in hold'[a][j], h \in hold'[b][k]
               PROVE  a = b /\ j = k
    BY DEF HeldOnce
  <2>1. a = b
    BY <1>2, <1>4 DEF HeldOnce
  <2>2. CASE a = p
    <3>1. PICK i \in Key : h \in hold[p][i] /\ j = <<SvcOf[p], AppCred[i[2]], i[3]>>
      BY <1>3, <2>2
    <3>2. PICK l \in Key : h \in hold[p][l] /\ k = <<SvcOf[p], AppCred[l[2]], l[3]>>
      BY <1>3, <2>1, <2>2
    <3>3. i = l
      BY <3>1, <3>2 DEF HeldOnce
    <3> QED BY <2>1, <3>1, <3>2, <3>3
  <2>3. CASE a # p
    BY <1>2, <2>1, <2>3 DEF HeldOnce
  <2> QED BY <2>1, <2>2, <2>3
<1>7. Doubted'
  <2>1. \A k \in Key : hold'[p][k] \cap counted \subseteq uncertain
    BY <1>1, <1>4 DEF Doubted
  <2> QED BY <1>1, <1>2, <2>1 DEF Doubted
<1> QED BY <1>5, <1>6, <1>7

(* The backend counts a report: of its hits it has counted before those    *)
(* only that are in doubt, and nobody else has a hit of it.                *)
LEMMA PlacedCount ==
  ASSUME Placed, Working, TypeOK', NEW p \in Reporter, BackendCounts(p) PROVE Placed'
<1> TypeOK /\ p \in Actor
  BY DEF Working
<1> USE DEF Placed
<1>1. /\ pc[p] = "post" /\ pc' = [pc EXCEPT ![p] = "posted"]
      /\ counted' = counted \cup Held(p) /\ twice' = twice \cup (counted \cap Held(p))
      /\ UNCHANGED <<stored, hold, key, uncertain, lost>>
  BY DEF BackendCounts, store
<1>2. \A h \in Held(p) : \E i \in Key : h \in hold[p][i]
  BY DEF Held
<1>3. \A b \in Actor \ {p} : pc'[b] = pc[b]
  BY <1>1 DEF TypeOK
<1>4. StoredOnce' /\ HeldOnce' /\ Moving'
  BY <1>1, <1>3 DEF StoredOnce, HeldOnce, Moving, TypeOK
<1>5. Unborn'
  BY <1>1, <1>2, <1>3, ActorsAssumption DEF Unborn
<1>6. Doubted'
  <2>1. twice' \subseteq uncertain
    BY <1>1, <1>2 DEF Doubted
  <2>2. \A k \in Key : stored[k] \cap counted' \subseteq uncertain
    BY <1>1, <1>2 DEF Doubted, Moving
  <2>3. ASSUME NEW b \in Actor, NEW k \in Key, pc'[b] # "posted"
        PROVE  hold[b][k] \cap counted' \subseteq uncertain
    <3>1. b # p
      BY <1>1, <2>3 DEF TypeOK
    <3>2. hold[b][k] \cap Held(p) = {}
      BY <1>2, <3>1 DEF HeldOnce
    <3>3. hold[b][k] \cap counted \subseteq uncertain
      BY <1>3, <2>3, <3>1 DEF Doubted
    <3> QED BY <1>1, <3>2, <3>3
  <2> QED BY <1>1, <2>1, <2>2, <2>3 DEF Doubted
<1> QED BY <1>4, <1>5, <1>6

(* Every step of get_all and of reporter.report does.                      *)
LEMMA PlacedReporter ==
  ASSUME Placed, Working, TypeOK', NEW p \in Reporter, GetAll(p) \/ Report(p) PROVE Placed'
<1> TypeOK /\ p \in Actor /\ p \notin Request /\ Sound(p)
  BY ActorsAssumption DEF Working
<1>1. CASE GetAllLock(p) \/ GetAllUnlock(p) \/ \E k \in Key : Skip(p, k)
  <2>1. /\ UNCHANGED <<stored, hold, key, counted, twice, uncertain, lost>>
        /\ pc[p] \in {"idle", "scan"}
        /\ \A b \in Actor \ {p} : pc'[b] = pc[b]
    BY <1>1 DEF GetAllLock, GetAllUnlock, Skip, TypeOK, store, backend
  <2> QED BY <2>1, PlacedForgets DEF Forgets
<1>2. CASE Delete(p)
  <2>1. /\ key[p] \in Key /\ pc[p] = "delete"
        /\ stored' = [stored EXCEPT ![key[p]] = {}]
        /\ key' = [key EXCEPT ![p] = None] /\ pc' = [pc EXCEPT ![p] = "scan"]
        /\ UNCHANGED <<hold, counted, twice, uncertain, lost>>
    BY <1>2 DEF Delete, TypeOK, backend
  <2>2. /\ stored'[key[p]] = {} /\ \A k \in Key : stored'[k] \subseteq stored[k]
        /\ \A b \in Actor \ {p} : pc'[b] = pc[b] /\ key'[b] = key[b]
    BY <2>1 DEF TypeOK
  <2> QED BY <2>1, <2>2, PlacedForgets DEF Forgets
<1>3. CASE BatchRaises(p) \/ ReportOk(p)
  <2>1. /\ pc[p] \in {"batch", "posted"} /\ pc' = [pc EXCEPT ![p] = "idle"]
        /\ hold' = [hold EXCEPT ![p] = Empty] /\ lost' \subseteq lost \cup Held(p)
        /\ UNCHANGED <<stored, key, counted, twice, uncertain>>
    BY <1>3 DEF BatchRaises, ReportOk, store, backend
  <2>2. /\ \A b \in Actor \ {p} : pc'[b] = pc[b] /\ hold'[b] = hold[b]
        /\ \A k \in Key : hold'[p][k] = {}
    BY <2>1 DEF TypeOK, Empty
  <2>3. \A h \in lost' \ lost : InMemory(h)
    BY <2>1 DEF InMemory, Held
  <2> QED BY <2>1, <2>2, <2>3, PlacedForgets DEF Forgets
<1>4. CASE ReportFails(p)
  <2>1. /\ pc[p] \in {"post", "posted"} /\ pc' = [pc EXCEPT ![p] = "add"]
        /\ uncertain' = uncertain \cup (IF pc[p] = "posted" THEN Held(p) ELSE {})
        /\ UNCHANGED <<stored, hold, key, counted, twice, lost>>
    BY <1>4 DEF ReportFails, store
  <2>2. /\ \A b \in Actor \ {p} : pc'[b] = pc[b]
        /\ pc[p] = "posted" => \A k \in Key : hold[p][k] \subseteq uncertain'
    BY <2>1 DEF TypeOK, Held
  <2> QED BY <2>1, <2>2, PlacedForgets DEF Forgets
<1> QED BY <1>1, <1>2, <1>3, <1>4, PlacedGet, PlacedBatch, PlacedCount DEF GetAll, Report

(* A request brings hits that are nowhere yet; a crash only forgets.       *)
LEMMA PlacedRest ==
  ASSUME Placed, Working, TypeOK', Environment \/ \E r \in Request : Arrive(r) PROVE Placed'
<1> TypeOK
  BY DEF Working
<1>1. ASSUME NEW r \in Request, Arrive(r) PROVE Placed'
  <2> r \in Actor
    OBVIOUS
  <2> USE DEF Placed
  <2>1. /\ pc[r] = "idle" /\ pc' = [pc EXCEPT ![r] = "add"]
        /\ hold' = [hold EXCEPT ![r] = Transaction(r)]
        /\ UNCHANGED <<stored, key, counted, twice, uncertain, lost>>
    BY <1>1 DEF Arrive, backend, store
  <2>2. /\ hold'[r] = Transaction(r) /\ pc'[r] = "add"
        /\ \A b \in Actor \ {r} : hold'[b] = hold[b] /\ pc'[b] = pc[b]
    BY <2>1 DEF TypeOK
  <2>3. \A k \in Key : \A h \in hold'[r][k] :
          h \in Hit /\ h[1] = r /\ k = <<SvcOf[r], CredOf[r], h[2]>>
    BY <2>2 DEF Transaction
  <2>4. \A k \in Key : \A h \in hold'[r][k] :
          /\ h \notin counted \cup twice \cup lost
          /\ \A j \in Key : h \notin stored[j] /\ \A b \in Actor : h \notin hold[b][j]
    BY <2>1, <2>3 DEF Unborn
  <2>5. StoredOnce' /\ Moving'
    BY <2>1, <2>2, <2>4 DEF StoredOnce, Moving
  <2>6. HeldOnce'
    <3> SUFFICES ASSUME NEW a \in Actor, NEW b \in Actor, NEW j \in Key, NEW k \in Key,
                        NEW h \in hold'[a][j], h \in hold'[b][k]
                 PROVE  a = b /\ j = k
      BY DEF HeldOnce
    <3>1. CASE a = r /\ b = r
      BY <2>3, <3>1
    <3>2. CASE a # r /\ b # r
      BY <2>2, <3>2 DEF HeldOnce
    <3>3. CASE (a = r) # (b = r)
      BY <2>2, <2>4, <3>3
    <3> QED BY <3>1, <3>2, <3>3
  <2>7. Unborn'
    BY <2>1, <2>2, <2>3 DEF Unborn
  <2>8. Doubted'
    BY <2>1, <2>2, <2>4 DEF Doubted
  <2> QED BY <2>5, <2>6, <2>7, <2>8
<1>2. ASSUME NEW w \in Worker, Crash(w) PROVE Placed'
  <2> DEFINE dead == {a \in Actor : Home[a] = w /\ pc[a] # "done"}
  <2>1. /\ UNCHANGED <<stored, counted, twice, uncertain>>
        /\ lost' = lost \cup ((UNION {Held(a) : a \in dead}) \ Stored)
    BY <1>2 DEF Crash, backend, store
  <2>2. /\ \A a \in Actor \ dead : /\ hold'[a] = hold[a] /\ pc'[a] = pc[a] /\ key'[a] = key[a]
        /\ \A a \in dead : hold'[a] = Empty /\ pc'[a] \in {"done", "idle"}
        /\ \A r \in Request : pc'[r] = "idle" => pc[r] = "idle"
    BY <1>2, ActorsAssumption DEF Crash
  <2>3. \A h \in lost' \ lost : InMemory(h)
    BY <2>1 DEF InMemory, Held
  <2>4. /\ \A a \in dead, k \in Key : hold'[a][k] = {}
        /\ dead \subseteq Actor
    BY <2>2 DEF Empty
  <2> HIDE DEF dead
  <2>5. Forgets
    BY <2>1, <2>2, <2>4 DEF Forgets
  <2> QED BY <2>1, <2>3, <2>5, PlacedForgets
<1>3. ASSUME NEW s \in Service, LockExpires(s) \/ Reconfigure(s) PROVE Placed'
  <2>1. UNCHANGED <<stored, hold, pc, key, counted, twice, uncertain, lost>>
    BY <1>3 DEF LockExpires, Reconfigure, memory, store, backend
  <2> QED BY <2>1, PlacedForgets DEF Forgets
<1> QED BY <1>1, <1>2, <1>3 DEF Environment

(* Each hit has one place, in every state of the batcher: the invariant    *)
(* the three theorems below follow from.                                   *)
THEOREM PlacedInvariant == Spec => []Placed
<1>1. ASSUME Placed, Working, Working', [Next]_vars PROVE Placed'
  <2>1. CASE Next
    BY <1>1, <2>1, PlacedAdd, PlacedReporter, PlacedRest DEF Next, Working
  <2>2. CASE UNCHANGED vars
    BY <1>1, <2>2 DEF vars, store, memory, backend, faults, Placed, StoredOnce, HeldOnce,
       Moving, Unborn, Doubted
  <2> QED BY <1>1, <2>1, <2>2
<1> QED BY <1>1, PlacedInit, WorkingInvariant, PTL DEF Spec

(* get_all deletes what it hands out, and what is returned is not kept: a  *)
(* hit is in one entry only, and the reporter about to delete the entry is *)
(* the one actor that has a copy of it.                                    *)
THEOREM OneCopy == Spec => []OnePlace
<1>1. ASSUME TypeOK, Placed PROVE OnePlace
  <2>1. \A j, k \in Key : stored[j] \cap stored[k] # {} => j = k
    BY <1>1 DEF Placed, StoredOnce
  <2>2. ASSUME NEW a \in Actor, NEW b \in Actor, Held(a) \cap Held(b) # {} PROVE a = b
    BY <1>1, <2>2 DEF Placed, HeldOnce, Held
  <2>3. ASSUME NEW a \in Actor, NEW k \in Key, Held(a) \cap stored[k] # {}
        PROVE  pc[a] = "delete" /\ key[a] = k
    BY <1>1, <2>3 DEF Placed, Moving, Held
  <2> QED BY <2>1, <2>2, <2>3 DEF OnePlace
<1> QED BY <1>1, PlacedInvariant, TypeCorrect, PTL

(* Two timers never report one hit: the backend counts a hit again only    *)
(* after an answer that was not ok made return_reports put it back.        *)
THEOREM RecountsAreDoubts == Spec => []RecountOnlyInDoubt
<1>1. Placed => RecountOnlyInDoubt
  BY DEF Placed, Doubted, RecountOnlyInDoubt
<1> QED BY <1>1, PlacedInvariant, PTL

-----------------------------------------------------------------------------
(* The batcher implements the ledger.                                      *)
Owed == Stored \cup UNION {Held(a) : a \in Actor}
LedgerNext == [Ledger!Next]_<<Owed, counted, uncertain, lost>>

(* What is owed, said of one hit at a time.                                *)
LEMMA OwedMeans ==
  ASSUME TypeOK, TypeOK'
  PROVE  /\ Owed \in SUBSET Hit /\ Owed' \in SUBSET Hit
         /\ \A h : h \in Owed <=> InStore(h) \/ InMemory(h)
         /\ \A h : h \in Owed' <=> InStore(h)' \/ InMemory(h)'
<1>1. /\ Owed \in SUBSET Hit
      /\ \A h : h \in Owed <=> InStore(h) \/ InMemory(h)
  BY DEF Owed, Stored, Held, InStore, InMemory, TypeOK
<1>2. /\ Owed' \in SUBSET Hit
      /\ \A h : h \in Owed' <=> InStore(h)' \/ InMemory(h)'
  BY DEF Owed, Stored, Held, InStore, InMemory, TypeOK
<1> QED BY <1>1, <1>2

(* What no hit joins and none leaves stays the same.                       *)
LEMMA OwedSame ==
  ASSUME TypeOK, TypeOK',
         \A h \in Hit : InStore(h)' \/ InMemory(h)' <=> InStore(h) \/ InMemory(h)
  PROVE  Owed' = Owed
<1>1. \A h : h \in Owed' <=> h \in Owed
  BY OwedMeans
<1> QED BY <1>1

(* A step of add() moves what is owed, or loses what it had in memory.     *)
LEMMA LedgerAdd ==
  ASSUME Placed, Working, TypeOK', NEW a \in Actor, Add(a) PROVE LedgerNext
<1> TypeOK /\ Sound(a)
  BY DEF Working
<1> USE DEF InStore, InMemory
<1>1. CASE AddLock(a) \/ AddUnlock(a) \/ \E k \in Key : Exists(a, k)
  BY <1>1 DEF AddLock, AddUnlock, Exists, store, backend, LedgerNext, Owed, Stored, Held
<1>2. CASE AddTimeout(a)
  <2>1. PICK c \in Credential :
          /\ hold' = [hold EXCEPT ![a] = [k \in Key |-> IF k[2] = c THEN {} ELSE hold[a][k]]]
          /\ lost' = lost \cup UNION {hold[a][k] : k \in Pending(a, c)}
    BY <1>2 DEF AddTimeout, TypeOK
  <2>2. UNCHANGED <<stored, counted, uncertain>> /\ pc[a] = "add"
    BY <1>2 DEF AddTimeout, store, backend
  <2> DEFINE H == UNION {hold[a][k] : k \in Pending(a, c)}
  <2>3. /\ \A h : h \in H <=> \E k \in Key : k[2] = c /\ h \in hold[a][k]
        /\ H \in SUBSET Hit
    BY DEF Pending, TypeOK
  <2>4. /\ \A b \in Actor \ {a} : hold'[b] = hold[b]
        /\ \A k \in Key : hold'[a][k] = IF k[2] = c THEN {} ELSE hold[a][k]
    BY <2>1 DEF TypeOK
  <2>5. lost' = lost \cup H
    BY <2>1
  <2> HIDE DEF H
  <2>6. H \subseteq Owed
    BY <2>3, OwedMeans
  <2>7. ASSUME NEW h \in H PROVE ~InStore(h) /\ ~InMemory(h)'
    <3>1. PICK k \in Key : k[2] = c /\ h \in hold[a][k]
      BY <2>3
    <3>2. \A j \in Key : h \notin stored[j]
      BY <2>2, <3>1 DEF Placed, Moving
    <3>3. \A b \in Actor, j \in Key : h \in hold[b][j] => b = a /\ j = k
      BY <3>1 DEF Placed, HeldOnce
    <3> QED BY <2>4, <3>1, <3>2, <3>3
  <2>8. \A h \in Hit : (InMemory(h)' <=> InMemory(h) /\ h \notin H)
    BY <2>3, <2>4, <2>7
  <2>9. Owed' = Owed \ H
    <3>1. \A h \in Hit : InStore(h)' <=> InStore(h)
      BY <2>2
    <3>2. \A h : h \in Owed' <=> h \in Owed \ H
      BY <2>7, <2>8, <3>1, OwedMeans
    <3> QED BY <3>2
  <2>10. Ledger!Lose(H)
    BY <2>2, <2>5, <2>6, <2>9 DEF Ledger!Lose, Owed
  <2> QED BY <2>3, <2>10 DEF LedgerNext, Ledger!Next
<1>3. CASE Incr(a)
  <2>1. /\ key[a] \in Key /\ stored[key[a]] # {}
        /\ stored' = [stored EXCEPT ![key[a]] = stored[key[a]] \cup hold[a][key[a]]]
        /\ hold' = [hold EXCEPT ![a][key[a]] = {}]
        /\ UNCHANGED <<counted, uncertain, lost>>
    BY <1>3 DEF Incr, Sound, Adding, TypeOK, backend
  <2>2. /\ \A b \in Actor \ {a} : hold'[b] = hold[b]
        /\ \A k \in Key : hold'[a][k] = IF k = key[a] THEN {} ELSE hold[a][k]
        /\ \A k \in Key : stored'[k] = IF k = key[a] THEN stored[k] \cup hold[a][k] ELSE stored[k]
    BY <2>1 DEF TypeOK
  <2>3. \A h \in Hit : InStore(h)' \/ InMemory(h)' <=> InStore(h) \/ InMemory(h)
    <3>1. \A h \in Hit : InStore(h)' <=> InStore(h) \/ h \in hold[a][key[a]]
      BY <2>1, <2>2
    <3>2. \A h \in Hit : InMemory(h) <=> InMemory(h)' \/ h \in hold[a][key[a]]
      BY <2>1, <2>2
    <3> QED BY <3>1, <3>2
  <2>4. Owed' = Owed
    BY <2>3, OwedSame
  <2> QED BY <2>1, <2>4 DEF LedgerNext
<1>4. ASSUME NEW j \in Key, SafeAdd(a, j) PROVE LedgerNext
  <2>1. /\ stored[j] = {} /\ stored' = [stored EXCEPT ![j] = hold[a][j]]
        /\ hold' = [hold EXCEPT ![a][j] = {}]
        /\ UNCHANGED <<counted, uncertain, lost>>
    BY <1>4 DEF SafeAdd, backend
  <2>2. /\ \A b \in Actor \ {a} : hold'[b] = hold[b]
        /\ \A k \in Key : hold'[a][k] = IF k = j THEN {} ELSE hold[a][k]
        /\ \A k \in Key : stored'[k] = IF k = j THEN hold[a][k] ELSE stored[k]
    BY <2>1 DEF TypeOK
  <2>3. \A h \in Hit : InStore(h)' \/ InMemory(h)' <=> InStore(h) \/ InMemory(h)
    BY <2>1, <2>2
  <2>4. Owed' = Owed
    BY <2>3, OwedSame
  <2> QED BY <2>1, <2>4 DEF LedgerNext
<1>5. ASSUME NEW j \in Key, NoMemory(a, j) PROVE LedgerNext
  <2>1. /\ lost' = lost \cup hold[a][j] /\ hold' = [hold EXCEPT ![a][j] = {}]
        /\ pc[a] = "adding" /\ hold[a][j] \in SUBSET Hit
        /\ UNCHANGED <<stored, counted, uncertain>>
    BY <1>5 DEF NoMemory, backend, store, TypeOK
  <2>2. /\ \A b \in Actor \ {a} : hold'[b] = hold[b]
        /\ \A k \in Key : hold'[a][k] = IF k = j THEN {} ELSE hold[a][k]
    BY <2>1 DEF TypeOK
  <2>3. \A h \in hold[a][j] : /\ \A k \in Key : h \notin stored[k]
                              /\ \A b \in Actor, k \in Key : h \in hold[b][k] => b = a /\ k = j
    BY <2>1 DEF Placed, Moving, HeldOnce
  <2>4. Owed' = Owed \ hold[a][j] /\ hold[a][j] \subseteq Owed
    <3>1. \A h \in Hit : InStore(h)' \/ InMemory(h)'
                      <=> (InStore(h) \/ InMemory(h)) /\ h \notin hold[a][j]
      BY <2>1, <2>2, <2>3
    <3>2. \A h : h \in Owed' <=> h \in Owed \ hold[a][j]
      BY <3>1, OwedMeans
    <3>3. \A h \in hold[a][j] : h \in Owed
      BY <2>1, OwedMeans
    <3> QED BY <3>2, <3>3
  <2>5. Ledger!Lose(hold[a][j])
    BY <2>1, <2>4 DEF Ledger!Lose, Owed
  <2> QED BY <2>1, <2>5 DEF LedgerNext, Ledger!Next
<1> QED BY <1>1, <1>2, <1>3, <1>4, <1>5 DEF Add

(* A report that raises, is answered ok or dies with its worker takes the  *)
(* hits of some actors off the ledger, those that are stored excepted.     *)
LEMMA OwedWithout ==
  ASSUME Placed, TypeOK, TypeOK', NEW A \in SUBSET Actor,
         \A a \in A, k \in Key : hold'[a][k] = {},
         \A a \in Actor \ A : hold'[a] = hold[a], stored' = stored
  PROVE  LET H == (UNION {Held(a) : a \in A}) \ Stored
         IN  H \in SUBSET Hit /\ H \subseteq Owed /\ Owed' = Owed \ H
<1> DEFINE H == (UNION {Held(a) : a \in A}) \ Stored
<1> USE DEF InStore, InMemory
<1>1. \A h : h \in H <=> ~InStore(h) /\ \E a \in A, k \in Key : h \in hold[a][k]
  <2>1. \A h : h \in Stored <=> InStore(h)
    BY DEF Stored
  <2>2. \A h : h \in UNION {Held(a) : a \in A} <=> \E a \in A, k \in Key : h \in hold[a][k]
    BY DEF Held
  <2> QED BY <2>1, <2>2
<1> HIDE DEF H
<1>2. H \in SUBSET Hit
  BY <1>1 DEF TypeOK
<1>3. H \subseteq Owed
  BY <1>1, OwedMeans
<1>4. ASSUME NEW h \in H PROVE ~InStore(h)' /\ ~InMemory(h)'
  BY <1>1 DEF Placed, HeldOnce
<1>5. \A h \in Hit : InStore(h)' \/ InMemory(h)' <=> (InStore(h) \/ InMemory(h)) /\ h \notin H
  BY <1>1, <1>4
<1>6. Owed' = Owed \ H
  <2>1. \A h : h \in Owed' <=> h \in Owed \ H
    BY <1>5, OwedMeans
  <2> QED BY <2>1
<1> QED BY <1>2, <1>3, <1>6 DEF H

(* A step of get_all or of reporter.report is a step of the ledger.        *)
LEMMA LedgerReporter ==
  ASSUME Placed, Working, TypeOK', NEW p \in Reporter, GetAll(p) \/ Report(p)
  PROVE  LedgerNext
<1> TypeOK /\ p \in Actor /\ Sound(p)
  BY DEF Working
<1> USE DEF InStore, InMemory
<1>1. CASE GetAllLock(p) \/ GetAllUnlock(p) \/ \E k \in Key : Skip(p, k)
  BY <1>1 DEF GetAllLock, GetAllUnlock, Skip, store, backend, LedgerNext, Owed, Stored, Held
<1>2. ASSUME NEW j \in Key, Get(p, j) PROVE LedgerNext
  <2>1. /\ hold[p][j] = {} /\ hold' = [hold EXCEPT ![p][j] = stored[j]]
        /\ UNCHANGED <<stored, counted, uncertain, lost>>
    BY <1>2 DEF Get, Sound, Scanning, InGetAll, backend, store
  <2>2. /\ \A b \in Actor \ {p} : hold'[b] = hold[b]
        /\ \A k \in Key : hold'[p][k] = IF k = j THEN stored[k] ELSE hold[p][k]
    BY <2>1 DEF TypeOK
  <2>3. \A h \in Hit : InStore(h)' \/ InMemory(h)' <=> InStore(h) \/ InMemory(h)
    BY <2>1, <2>2
  <2>4. Owed' = Owed
    BY <2>3, OwedSame
  <2> QED BY <2>1, <2>4 DEF LedgerNext
<1>3. CASE Delete(p)
  <2>1. /\ key[p] \in Key /\ hold[p][key[p]] = stored[key[p]]
        /\ stored' = [stored EXCEPT ![key[p]] = {}]
        /\ UNCHANGED <<hold, counted, uncertain, lost>>
    BY <1>3 DEF Delete, Sound, Deleting, TypeOK, backend
  <2>2. \A k \in Key : stored'[k] = IF k = key[p] THEN {} ELSE stored[k]
    BY <2>1 DEF TypeOK
  <2>3. \A h \in Hit : InStore(h)' \/ InMemory(h)' <=> InStore(h) \/ InMemory(h)
    BY <2>1, <2>2
  <2>4. Owed' = Owed
    BY <2>3, OwedSame
  <2> QED BY <2>1, <2>4 DEF LedgerNext
<1>4. CASE MakeBatch(p)
  <2>1. /\ hold' = [hold EXCEPT ![p] = Batch(p)]
        /\ UNCHANGED <<stored, counted, uncertain, lost>>
    BY <1>4 DEF MakeBatch, backend, store
  <2>2. hold'[p] = Batch(p) /\ \A b \in Actor \ {p} : hold'[b] = hold[b]
    BY <2>1 DEF TypeOK
  <2>3. ASSUME NEW k \in Key, NEW h \in hold[p][k] PROVE \E j \in Key : h \in Batch(p)[j]
    <3>1. <<SvcOf[p], AppCred[k[2]], k[3]>> \in Key
      BY ActorsAssumption, CredentialsAssumption
    <3>2. h \in Batch(p)[<<SvcOf[p], AppCred[k[2]], k[3]>>]
      BY <3>1 DEF Batch
    <3> QED BY <3>1, <3>2
  <2>4. \A k \in Key : \A h \in Batch(p)[k] : \E j \in Key : h \in hold[p][j]
    BY DEF Batch
  <2>5. \A h \in Hit : InStore(h)' \/ InMemory(h)' <=> InStore(h) \/ InMemory(h)
    BY <2>1, <2>2, <2>3, <2>4
  <2>6. Owed' = Owed
    BY <2>5, OwedSame
  <2> QED BY <2>1, <2>6 DEF LedgerNext
<1>5. CASE BatchRaises(p) \/ ReportOk(p)
  <2>1. /\ pc[p] \in {"batch", "posted"}
        /\ hold' = [hold EXCEPT ![p] = Empty]
        /\ UNCHANGED <<stored, counted, uncertain>>
    BY <1>5 DEF BatchRaises, ReportOk, store, backend
  <2>2. /\ \A a \in {p}, k \in Key : hold'[a][k] = {}
        /\ \A a \in Actor \ {p} : hold'[a] = hold[a]
    BY <2>1 DEF TypeOK, Empty
  <2>3. (UNION {Held(a) : a \in {p}}) \ Stored = Held(p)
    <3>1. \A h \in Held(p) : h \notin Stored
      BY <2>1 DEF Held, Stored, Placed, Moving
    <3>2. UNION {Held(a) : a \in {p}} = Held(p)
      OBVIOUS
    <3> QED BY <3>1, <3>2
  <2>4. Held(p) \in SUBSET Hit /\ Held(p) \subseteq Owed /\ Owed' = Owed \ Held(p)
    BY <2>1, <2>2, <2>3, OwedWithout
  <2>5. CASE BatchRaises(p)
    <3>1. lost' = lost \cup Held(p)
      BY <2>5 DEF BatchRaises
    <3>2. Ledger!Lose(Held(p))
      BY <2>1, <2>4, <3>1 DEF Ledger!Lose, Owed
    <3> QED BY <2>4, <3>2 DEF LedgerNext, Ledger!Next
  <2>6. CASE ReportOk(p)
    <3>1. lost' = lost /\ Held(p) \subseteq counted
      BY <2>6 DEF ReportOk, Sound, Posted, Held
    <3>2. Ledger!Settle(Held(p))
      BY <2>1, <2>4, <3>1 DEF Ledger!Settle, Owed
    <3> QED BY <2>4, <3>2 DEF LedgerNext, Ledger!Next
  <2> QED BY <1>5, <2>5, <2>6
<1>6. CASE BackendCounts(p)
  <2>1. /\ pc[p] = "post" /\ counted' = counted \cup Held(p)
        /\ UNCHANGED <<stored, hold, uncertain, lost>>
    BY <1>6 DEF BackendCounts, store
  <2>2. Held(p) \cap counted \subseteq uncertain /\ Held(p) \subseteq Owed
    BY <2>1 DEF Held, Placed, Doubted, Owed
  <2>3. Owed' = Owed /\ Held(p) \in SUBSET Hit
    BY <2>1, HeldOK DEF Owed, Stored, Held
  <2>4. Ledger!Count(Held(p))
    BY <2>1, <2>2, <2>3 DEF Ledger!Count, Owed
  <2> QED BY <2>3, <2>4 DEF LedgerNext, Ledger!Next
<1>7. CASE ReportFails(p)
  <2>1. /\ pc[p] \in {"post", "posted"}
        /\ uncertain' = uncertain \cup (IF pc[p] = "posted" THEN Held(p) ELSE {})
        /\ UNCHANGED <<stored, hold, counted, lost>>
    BY <1>7 DEF ReportFails, store
  <2>2. Owed' = Owed /\ Held(p) \in SUBSET Hit /\ Held(p) \subseteq Owed
    BY <2>1, HeldOK DEF Owed, Stored, Held
  <2>3. CASE pc[p] = "posted"
    <3>1. Held(p) \subseteq counted
      BY <2>3 DEF Held, Sound, Posted
    <3>2. Ledger!Doubt(Held(p))
      BY <2>1, <2>2, <2>3, <3>1 DEF Ledger!Doubt, Owed
    <3> QED BY <2>2, <3>2 DEF LedgerNext, Ledger!Next
  <2>4. CASE pc[p] # "posted"
    BY <2>1, <2>2, <2>4 DEF LedgerNext
  <2> QED BY <2>3, <2>4
<1> QED BY <1>1, <1>2, <1>3, <1>4, <1>5, <1>6, <1>7 DEF GetAll, Report

(* A request's hits are new to the ledger; a crash loses hits.             *)
LEMMA LedgerRest ==
  ASSUME Placed, Working, TypeOK', Environment \/ \E r \in Request : Arrive(r)
  PROVE  LedgerNext
<1> TypeOK
  BY DEF Working
<1>1. ASSUME NEW r \in Request, Arrive(r) PROVE LedgerNext
  <2> USE DEF InStore, InMemory
  <2> DEFINE H == {h \in Hit : h[1] = r /\ h[2] \in MetricsOf[r]}
  <2>1. /\ pc[r] = "idle" /\ hold' = [hold EXCEPT ![r] = Transaction(r)]
        /\ r \in Actor /\ hold[r] = Empty
        /\ UNCHANGED <<stored, counted, uncertain, lost>>
    BY <1>1 DEF Arrive, backend, store, Working, Sound, IdleHolds
  <2>2. /\ hold'[r] = Transaction(r)
        /\ \A b \in Actor \ {r} : hold'[b] = hold[b]
    BY <2>1 DEF TypeOK
  <2>3. ASSUME NEW h \in H PROVE \E k \in Key : h \in Transaction(r)[k]
    <3>1. <<SvcOf[r], CredOf[r], h[2]>> \in Key
      BY ActorsAssumption
    <3>2. h \in Transaction(r)[<<SvcOf[r], CredOf[r], h[2]>>]
      BY <3>1 DEF Transaction
    <3> QED BY <3>1, <3>2
  <2>4. \A k \in Key : Transaction(r)[k] \subseteq H
    BY DEF Transaction
  <2>5. \A h \in Hit : InStore(h)' \/ InMemory(h)' <=> InStore(h) \/ InMemory(h) \/ h \in H
    BY <2>1, <2>2, <2>3, <2>4 DEF Empty
  <2>6. Owed' = Owed \cup H
    <3>1. \A h : h \in Owed' <=> h \in Owed \cup H
      BY <2>5, OwedMeans
    <3> QED BY <3>1
  <2>7. H \cap (Owed \cup counted \cup lost) = {}
    BY <2>1, OwedMeans DEF Placed, Unborn
  <2>8. Ledger!Accept(H)
    BY <2>1, <2>6, <2>7 DEF Ledger!Accept, Owed
  <2>9. H \in SUBSET Hit
    OBVIOUS
  <2> QED BY <2>8, <2>9 DEF LedgerNext, Ledger!Next
<1>2. ASSUME NEW w \in Worker, Crash(w) PROVE LedgerNext
  <2> DEFINE dead == {a \in Actor : Home[a] = w /\ pc[a] # "done"}
             H == (UNION {Held(a) : a \in dead}) \ Stored
  <2>1. /\ UNCHANGED <<stored, counted, uncertain>>
        /\ lost' = lost \cup H
    <3>1. lost' = lost \cup ((UNION {Held(a) : a \in dead}) \ Stored)
      BY <1>2 DEF Crash
    <3> QED BY <1>2, <3>1 DEF Crash, backend, store
  <2>2. /\ \A a \in Actor \ dead : hold'[a] = hold[a]
        /\ \A a \in dead, k \in Key : hold'[a][k] = {}
        /\ dead \in SUBSET Actor
    BY <1>2 DEF Crash, Empty
  <2> HIDE DEF dead
  <2>3. H \in SUBSET Hit /\ H \subseteq Owed /\ Owed' = Owed \ H
    BY <2>1, <2>2, OwedWithout
  <2> HIDE DEF H
  <2>4. Ledger!Lose(H)
    BY <2>1, <2>3 DEF Ledger!Lose, Owed
  <2> QED BY <2>3, <2>4 DEF LedgerNext, Ledger!Next
<1>3. ASSUME NEW s \in Service, LockExpires(s) \/ Reconfigure(s) PROVE LedgerNext
  BY <1>3 DEF LockExpires, Reconfigure, memory, store, backend, LedgerNext, Owed, Stored, Held
<1> QED BY <1>1, <1>2, <1>3 DEF Environment

(* The batched reports implement the ledger: a hit stays owed to the       *)
(* backend until it is acknowledged or lost in one of the admitted ways,   *)
(* and is counted again only out of doubt.                                 *)
THEOREM BatcherKeepsTheLedger == Spec => LedgerSpec
<1>1. Init => Ledger!Init
  BY DEF Init, Ledger!Init, Stored, Held, Empty
<1>2. ASSUME Placed, Working, Working', [Next]_vars
      PROVE  [Ledger!Next]_<<Stored \cup UNION {Held(a) : a \in Actor}, counted, uncertain, lost>>
  <2>1. CASE Next
    BY <1>2, <2>1, LedgerAdd, LedgerReporter, LedgerRest DEF Next, Working, LedgerNext, Owed
  <2>2. CASE UNCHANGED vars
    BY <2>2 DEF vars, store, memory, backend, faults, Stored, Held
  <2> QED BY <1>2, <2>1, <2>2
<1> QED BY <1>1, <1>2, PlacedInvariant, WorkingInvariant, PTL
        DEF Spec, LedgerSpec, Ledger!Spec, Ledger!ledger

-----------------------------------------------------------------------------
(***************************************************************************)
(* What the ledger says of the end of a hit.  The accounts of the batcher  *)
(* balance: it has, has reported or has lost what requests handed to it,   *)
(* and nothing else; and an account that is closed stays closed.           *)
(***************************************************************************)
Balance == batched = counted \cup lost \cup Owed /\ lost \cap Owed = {}

Settled == (counted \cup lost) \ Owed

StaySettled == \A h \in Settled :
  /\ h \in Settled' /\ h \notin twice' \ twice
  /\ (h \in counted' <=> h \in counted)
  /\ (h \in lost' <=> h \in lost)

(* Hits come from requests: the rest of the batcher moves them about.      *)
Appears(h) == (InStore(h) \/ InMemory(h))' /\ ~(InStore(h) \/ InMemory(h))

(* What an actor adds to the storage it had in memory.                     *)
LEMMA AddMoves ==
  ASSUME TypeOK, NEW a \in Actor, Add(a) PROVE \A h : ~Appears(h)
<1> USE DEF Appears, InStore, InMemory
<1>1. CASE AddLock(a) \/ AddUnlock(a) \/ \E k \in Key : Exists(a, k)
  BY <1>1 DEF AddLock, AddUnlock, Exists, store
<1>2. CASE AddTimeout(a)
  <2>1. PICK c \in Credential :
          hold' = [hold EXCEPT ![a] = [k \in Key |-> IF k[2] = c THEN {} ELSE hold[a][k]]]
    BY <1>2 DEF AddTimeout, TypeOK
  <2>2. stored' = stored /\ \A b \in Actor, k \in Key : hold'[b][k] \subseteq hold[b][k]
    BY <1>2, <2>1 DEF AddTimeout, store, TypeOK
  <2> QED BY <2>2
<1>3. CASE Incr(a)
  <2>1. /\ key[a] \in Key
        /\ \A k \in Key : stored'[k] \subseteq stored[k] \cup hold[a][k]
        /\ \A b \in Actor, k \in Key : hold'[b][k] \subseteq hold[b][k]
    BY <1>3 DEF Incr, TypeOK
  <2> QED BY <2>1
<1>4. ASSUME NEW j \in Key, SafeAdd(a, j) \/ NoMemory(a, j) PROVE \A h : ~Appears(h)
  <2>1. /\ \/ stored' = stored
           \/ stored' = [stored EXCEPT ![j] = hold[a][j]]
        /\ hold' = [hold EXCEPT ![a][j] = {}]
    BY <1>4 DEF SafeAdd, NoMemory, store
  <2>2. /\ \A k \in Key : stored'[k] \subseteq stored[k] \cup hold[a][k]
        /\ \A b \in Actor, k \in Key : hold'[b][k] \subseteq hold[b][k]
    BY <2>1 DEF TypeOK
  <2> QED BY <2>2
<1> QED BY <1>1, <1>2, <1>3, <1>4 DEF Add

(* What a reporter has in memory was in the storage, or in its own memory. *)
LEMMA ReporterMoves ==
  ASSUME TypeOK, NEW p \in Reporter, GetAll(p) \/ Report(p) PROVE \A h : ~Appears(h)
<1> p \in Actor
  OBVIOUS
<1> USE DEF Appears, InStore, InMemory
<1>1. CASE \/ GetAllLock(p) \/ GetAllUnlock(p) \/ BackendCounts(p) \/ ReportFails(p)
           \/ \E k \in Key : Skip(p, k)
  BY <1>1 DEF GetAllLock, GetAllUnlock, BackendCounts, ReportFails, Skip, store
<1>2. ASSUME NEW j \in Key, Get(p, j) PROVE \A h : ~Appears(h)
  <2>1. /\ stored' = stored
        /\ \A b \in Actor, k \in Key : hold'[b][k] \subseteq hold[b][k] \cup stored[k]
    BY <1>2 DEF Get, store, TypeOK
  <2> QED BY <2>1
<1>3. CASE Delete(p)
  <2>1. hold' = hold /\ \A k \in Key : stored'[k] \subseteq stored[k]
    BY <1>3 DEF Delete, TypeOK
  <2> QED BY <2>1
<1>4. CASE BatchRaises(p) \/ ReportOk(p)
  <2>1. stored' = stored /\ \A b \in Actor, k \in Key : hold'[b][k] \subseteq hold[b][k]
    BY <1>4 DEF BatchRaises, ReportOk, store, TypeOK, Empty
  <2> QED BY <2>1
<1>5. CASE MakeBatch(p)
  <2>1. /\ stored' = stored /\ hold'[p] = Batch(p)
        /\ \A b \in Actor \ {p} : hold'[b] = hold[b]
    BY <1>5 DEF MakeBatch, store, TypeOK
  <2>2. \A k \in Key : \A h \in Batch(p)[k] : \E i \in Key : h \in hold[p][i]
    BY DEF Batch
  <2> QED BY <2>1, <2>2
<1> QED BY <1>1, <1>2, <1>3, <1>4, <1>5 DEF GetAll, Report

(* A hit appears with the request that hands it over.                      *)
LEMMA OnlyBatchedAppears ==
  ASSUME TypeOK, [Next]_vars
  PROVE  batched \subseteq batched' /\ \A h : Appears(h) => h \in batched'
<1> USE DEF Appears, InStore, InMemory
<1>1. ASSUME NEW r \in Request, Arrive(r)
      PROVE  batched \subseteq batched' /\ \A h : Appears(h) => h \in batched'
  <2>1. /\ stored' = stored /\ hold'[r] = Transaction(r)
        /\ \A b \in Actor \ {r} : hold'[b] = hold[b]
        /\ batched' = batched \cup {h \in Hit : h[1] = r /\ h[2] \in MetricsOf[r]}
    BY <1>1 DEF Arrive, store, TypeOK
  <2>2. \A k \in Key : \A h \in Transaction(r)[k] : h \in batched'
    BY <2>1 DEF Transaction
  <2> QED BY <2>1, <2>2
<1>2. CASE Environment
  <2>1. /\ stored' = stored /\ batched' = batched
        /\ \A b \in Actor, k \in Key : hold'[b][k] \subseteq hold[b][k]
    BY <1>2 DEF TypeOK, Environment, Crash, LockExpires, Reconfigure, memory, store, Empty
  <2> QED BY <2>1
<1>3. CASE UNCHANGED vars
  BY <1>3 DEF vars, store, memory
<1>4. ASSUME NEW a \in Actor, Add(a) PROVE batched' = batched
  BY <1>4 DEF Add, AddLock, AddTimeout, Incr, AddUnlock, SafeAdd, NoMemory, Exists
<1>5. ASSUME NEW p \in Reporter, GetAll(p) \/ Report(p) PROVE batched' = batched
  BY <1>5 DEF GetAll, Report, GetAllLock, Delete, GetAllUnlock, Skip, Get, MakeBatch,
     BatchRaises, BackendCounts, ReportOk, ReportFails
<1> HIDE DEF Appears, InStore, InMemory
<1> QED BY <1>1, <1>2, <1>3, <1>4, <1>5, AddMoves, ReporterMoves DEF Next

(* The steps of the ledger under which every step of the batcher falls.    *)
LEMMA LedgerStep ==
  ASSUME Placed, Working, Working', [Next]_vars PROVE LedgerNext
<1>1. CASE Next
  BY <1>1, LedgerAdd, LedgerReporter, LedgerRest DEF Next, Working
<1>2. CASE UNCHANGED vars
  BY <1>2 DEF vars, store, memory, backend, faults, LedgerNext, Owed, Stored, Held
<1> QED BY <1>1, <1>2

(* What the entries of the ledger do to the accounts.                      *)
LEMMA LedgerEntries ==
  ASSUME LedgerNext
  PROVE  /\ counted \subseteq counted' /\ counted' \subseteq counted \cup Owed
         /\ lost \subseteq lost' /\ lost' \subseteq lost \cup Owed
         /\ lost' \cap Owed' \subseteq lost \cap Owed
         /\ Owed' \cap Settled = {}
BY DEF LedgerNext, Ledger!Next, Ledger!Accept, Ledger!Count, Ledger!Doubt, Ledger!Settle,
       Ledger!Lose, Owed, Settled

(* No usage is made up, none is forgotten, and what is written off is not  *)
(* reported later: the batched hits are those that are counted, lost or    *)
(* still owed, and a lost hit is not owed.                                 *)
THEOREM BooksBalance == Spec => []Balance
<1> DEFINE Known == counted \cup lost \cup Owed \subseteq batched /\ lost \cap Owed = {}
<1>1. Init => Known
  BY DEF Init, Owed, Stored, Held, Empty
<1>2. ASSUME Known, Placed, Working, Working', [Next]_vars PROVE Known'
  <2>1. LedgerNext
    BY <1>2, LedgerStep
  <2>2. TypeOK /\ TypeOK'
    BY <1>2 DEF Working
  <2>3. /\ \A h : h \in Owed <=> InStore(h) \/ InMemory(h)
        /\ \A h : h \in Owed' <=> InStore(h)' \/ InMemory(h)'
    BY <2>2, OwedMeans
  <2>4. batched \subseteq batched' /\ \A h : Appears(h) => h \in batched'
    BY <1>2, <2>2, OnlyBatchedAppears
  <2>5. Owed' \subseteq Owed \cup batched'
    BY <2>3, <2>4 DEF Appears
  <2> QED BY <1>2, <2>1, <2>4, <2>5, LedgerEntries
<1>3. Known /\ NoSilentLoss => Balance
  BY DEF Balance, NoSilentLoss, Owed
<1> QED BY <1>1, <1>2, <1>3, PlacedInvariant, WorkingInvariant, NothingLostSilently, PTL DEF Spec

(* A hit that was acknowledged, or lost, is done with: no timer, no retry  *)
(* and no restarted worker brings it back, reports it once more or turns   *)
(* the one into the other.                                                 *)
THEOREM SettledForGood == Spec => [][StaySettled]_vars
<1>1. ASSUME TypeOK, LedgerNext, [Next]_vars PROVE [StaySettled]_vars
  <2>1. \A h \in Settled : /\ h \in Settled'
                          /\ (h \in counted' <=> h \in counted)
                          /\ (h \in lost' <=> h \in lost)
    BY <1>1, LedgerEntries DEF Settled
  <2>2. twice' \subseteq twice \cup Owed
    BY <1>1 DEF Next, vars, Environment, Add, GetAll, Report, Arrive, AddLock, AddTimeout,
       Incr, AddUnlock, SafeAdd, NoMemory, Exists, GetAllLock, Delete, GetAllUnlock, Skip,
       Get, MakeBatch, BatchRaises, BackendCounts, ReportOk, ReportFails, Crash, LockExpires,
       Reconfigure, backend, Owed
  <2> QED BY <2>1, <2>2 DEF StaySettled, Settled
<1>2. ASSUME Placed, Working, Working', [Next]_vars PROVE [StaySettled]_vars
  BY <1>1, <1>2, LedgerStep DEF Working
<1> QED BY <1>2, PlacedInvariant, WorkingInvariant, PTL DEF Spec

-----------------------------------------------------------------------------
(* A step that moves hits between the storage and the memories, but not    *)
(* from key to key, leaves them filed right.                               *)
Under(h, k) == h \in stored[k] \/ \E a \in Actor : h \in hold[a][k]

LEMMA FiledByMove ==
  ASSUME Attribution, TypeOK', \A k \in Key, h \in Hit : Under(h, k)' => Under(h, k)
  PROVE  Attribution'
<1>1. \A k \in Key, h \in Hit : Under(h, k) =>
        k[1] = SvcOf[h[1]] /\ AppCred[k[2]] = AppCred[CredOf[h[1]]] /\ k[3] = h[2]
  BY DEF Attribution, FiledRight, Under
<1>2. \A k \in Key : stored'[k] \in SUBSET Hit /\ \A a \in Actor : hold'[a][k] \in SUBSET Hit
  BY DEF TypeOK
<1> QED BY <1>1, <1>2 DEF Attribution, FiledRight, Under

(* A step of ReportsBatcher:add files a hit under the key it had.          *)
LEMMA FiledByAdd ==
  ASSUME Attribution, Working, TypeOK', NEW a \in Actor, Add(a) PROVE Attribution'
<1> TypeOK
  BY DEF Working
<1>1. CASE AddLock(a) \/ AddUnlock(a) \/ \E k \in Key : Exists(a, k)
  BY <1>1, FiledByMove DEF AddLock, AddUnlock, Exists, store, Under
<1>2. CASE AddTimeout(a)
  <2>1. PICK c \in Credential :
          hold' = [hold EXCEPT ![a] = [k \in Key |-> IF k[2] = c THEN {} ELSE hold[a][k]]]
    BY <1>2 DEF AddTimeout, TypeOK
  <2>2. stored' = stored /\ \A b \in Actor, k \in Key : hold'[b][k] \subseteq hold[b][k]
    BY <1>2, <2>1 DEF AddTimeout, store, TypeOK
  <2> QED BY <2>2, FiledByMove DEF Under
<1>3. CASE Incr(a)
  <2>1. /\ key[a] \in Key
        /\ \A k \in Key : stored'[k] \subseteq stored[k] \cup hold[a][k]
        /\ \A b \in Actor, k \in Key : hold'[b][k] \subseteq hold[b][k]
    BY <1>3 DEF Incr, TypeOK
  <2> QED BY <2>1, FiledByMove DEF Under
<1>4. ASSUME NEW j \in Key, SafeAdd(a, j) \/ NoMemory(a, j) PROVE Attribution'
  <2>1. /\ \/ stored' = stored
           \/ stored' = [stored EXCEPT ![j] = hold[a][j]]
        /\ hold' = [hold EXCEPT ![a][j] = {}]
    BY <1>4 DEF SafeAdd, NoMemory, store
  <2>2. /\ \A k \in Key : stored'[k] \subseteq stored[k] \cup hold[a][k]
        /\ \A b \in Actor, k \in Key : hold'[b][k] \subseteq hold[b][k]
    BY <2>1 DEF TypeOK
  <2> QED BY <2>2, FiledByMove DEF Under
<1> QED BY <1>1, <1>2, <1>3, <1>4 DEF Add

(* ReportsBatch.new files it under its app_id, of the reporter's service.  *)
LEMMA FiledByReporter ==
  ASSUME Attribution, Working, TypeOK', NEW p \in Reporter, GetAll(p) \/ Report(p)
  PROVE  Attribution'
<1> TypeOK /\ p \in Actor /\ Sound(p)
  BY DEF Working
<1>1. CASE \/ GetAllLock(p) \/ GetAllUnlock(p) \/ BackendCounts(p) \/ ReportFails(p)
           \/ \E k \in Key : Skip(p, k)
  BY <1>1, FiledByMove DEF GetAllLock, GetAllUnlock, BackendCounts, ReportFails, Skip, store, Under
<1>2. ASSUME NEW j \in Key, Get(p, j) PROVE Attribution'
  <2>1. /\ stored' = stored
        /\ \A b \in Actor, k \in Key : hold'[b][k] \subseteq hold[b][k] \cup stored[k]
    BY <1>2 DEF Get, store, TypeOK
  <2> QED BY <2>1, FiledByMove DEF Under
<1>3. CASE Delete(p)
  <2>1. hold' = hold /\ \A k \in Key : stored'[k] \subseteq stored[k]
    BY <1>3 DEF Delete, TypeOK
  <2> QED BY <2>1, FiledByMove DEF Under
<1>4. CASE BatchRaises(p) \/ ReportOk(p)
  <2>1. stored' = stored /\ \A b \in Actor, k \in Key : hold'[b][k] \subseteq hold[b][k]
    BY <1>4 DEF BatchRaises, ReportOk, store, TypeOK, Empty
  <2> QED BY <2>1, FiledByMove DEF Under
<1>5. CASE MakeBatch(p)
  <2>1. /\ stored' = stored /\ hold'[p] = Batch(p)
        /\ \A b \in Actor \ {p} : hold'[b] = hold[b]
    BY <1>5 DEF MakeBatch, store, TypeOK
  <2>2. ASSUME NEW k \in Key, NEW h \in Batch(p)[k]
        PROVE  k[1] = SvcOf[h[1]] /\ AppCred[k[2]] = AppCred[CredOf[h[1]]] /\ k[3] = h[2]
    <3>1. PICK i \in Key : h \in hold[p][i] /\ k = <<SvcOf[p], AppCred[i[2]], i[3]>>
      BY DEF Batch
    <3>2. i[1] = SvcOf[h[1]] /\ AppCred[i[2]] = AppCred[CredOf[h[1]]] /\ i[3] = h[2]
      BY <3>1 DEF Attribution, FiledRight
    <3>3. i[1] = SvcOf[p]
      BY <3>1 DEF Sound, OwnKeys
    <3>4. AppCred[AppCred[i[2]]] = AppCred[i[2]]
      BY CredentialsAssumption
    <3> QED BY <3>1, <3>2, <3>3, <3>4
  <2> QED BY <2>1, <2>2 DEF Attribution, FiledRight
<1> QED BY <1>1, <1>2, <1>3, <1>4, <1>5 DEF GetAll, Report

(* Through aggregation, failed reports and returns, a hit stays filed      *)
(* under its own service and metric, and under its own application.        *)
THEOREM FiledUnderItsOwner == Spec => []Attribution
<1>1. Init => Attribution
  BY DEF Init, Attribution, FiledRight, Empty
<1>2. ASSUME Attribution, Working, Working', [Next]_vars PROVE Attribution'
  <2>0. TypeOK /\ TypeOK'
    BY <1>2 DEF Working
  <2>1. ASSUME NEW r \in Request, Arrive(r) PROVE Attribution'
    <3>1. /\ stored' = stored /\ hold'[r] = Transaction(r)
          /\ \A b \in Actor \ {r} : hold'[b] = hold[b]
      BY <2>0, <2>1 DEF Arrive, store, TypeOK
    <3>2. \A k \in Key : FiledRight(k, Transaction(r)[k])
      BY DEF Transaction, FiledRight
    <3> QED BY <1>2, <3>1, <3>2 DEF Attribution, FiledRight
  <2>2. CASE Environment
    <3>1. stored' = stored /\ \A b \in Actor, k \in Key : hold'[b][k] \subseteq hold[b][k]
      BY <2>0, <2>2 DEF Environment, Crash, LockExpires, Reconfigure, memory, store, Empty
    <3> QED BY <1>2, <2>0, <3>1, FiledByMove DEF Under
  <2>3. CASE UNCHANGED vars
    BY <1>2, <2>0, <2>3, FiledByMove DEF vars, store, memory, Under
  <2> QED BY <1>2, <2>0, <2>1, <2>2, <2>3, FiledByAdd, FiledByReporter DEF Next
<1> QED BY <1>1, <1>2, WorkingInvariant, PTL DEF Spec

HIDE DEF Actor, Hit, Key

-----------------------------------------------------------------------------
(***************************************************************************)
(* The access phase.  Its steps are steps of ReportsBatcher or leave it    *)
(* alone, so that whatever is proved above holds behind access().  The     *)
(* argument for NotOverruled: the last writer of a cache is never among    *)
(* the answers that somebody else is about to overrule.                    *)
(***************************************************************************)
(* The shape of the caches and of the requests.                            *)
Shape ==
  /\ caching \in {"absent", "strict", "resilient", "allow", "none"}
  /\ auths \in [Slots -> {"none", "ok", "denied"}]
  /\ downtime \in [Slots -> {"none", "ok", "denied"}]
  /\ phase \in [Request -> {"new", "asked", "answered", "over"}]
  /\ answer \in [Request -> {"none", "ok", "denied", "error"}]
  /\ before \in [Request -> SUBSET Request]
  /\ \A r \in Request : phase[r] \in {"new", "asked"} => answer[r] = "none"

(* What an answer will overrule was handled, for the same transaction.     *)
Past ==
  /\ \A r \in Request : \A q \in before[r] : phase[q] = "over" /\ Slot(q) = Slot(r)
  /\ overruled \subseteq {q \in Request : phase[q] = "over"}

(* Answers that are about to be written to the cache of authorizations.    *)
Writing == {x \in Request : phase[x] = "answered" /\ answer[x] \in Definite}

Stands(q, k) == Slot(q) = k /\ answer[q] = "ok" /\ q \notin overruled

AuthsBacked == \A k \in Slots : auths[k] = "ok" =>
  \E q \in Request : Stands(q, k)

NotDenied(k) == \A q \in Request : Slot(q) = k => answer[q] # "denied"

DowntimeBacked == \A k \in Slots : caching # "absent" /\ downtime[k] = "ok" =>
  \/ \E q \in Request : Stands(q, k) /\ \A x \in Writing : q \notin before[x]
  \/ caching = "allow" /\ NotDenied(k)

AllowRemembers == \A k \in Slots :
  caching = "allow" /\ downtime[k] = "none" => NotDenied(k)

Backed == Shape /\ Past /\ AuthsBacked /\ DowntimeBacked /\ AllowRemembers

-----------------------------------------------------------------------------
(* Behind access() the batcher behaves as ReportsBatcher allows.           *)
THEOREM PolicyIsABatcher == PolicySpec => Spec
<1>1. PolicyInit => Init
  BY DEF PolicyInit
<1>2. [PolicyNext]_policyVars => [Next]_vars
  <2>1. ASSUME NEW r \in Request, Access(r) PROVE [Next]_vars
    BY <2>1 DEF Access, NoMatch, CachedOk, CachedDenied, Ask, Admit, Refuse, Next
  <2>2. ASSUME NEW r \in Request, Authorize(r) PROVE [Next]_vars
    BY <2>2 DEF Authorize, Answer, BackendOk, BackendDenied, ErrorAdmits, ErrorRefuses,
                Admit, Refuse, Next
  <2>3. ASSUME NEW k \in Slots, Expire(k) PROVE [Next]_vars
    BY <2>3 DEF Expire
  <2>4. ASSUME NEW w \in Worker, WorkerDies(w) PROVE [Next]_vars
    BY <2>4 DEF WorkerDies, Next, Environment
  <2>5. CASE Batcher
    BY <2>5 DEF Batcher, Next, Environment
  <2>6. CASE UNCHANGED policyVars
    BY <2>6 DEF policyVars
  <2> QED
    BY <2>1, <2>2, <2>3, <2>4, <2>5, <2>6 DEF PolicyNext
<1> QED
  BY <1>1, <1>2, PTL DEF PolicySpec, Spec

(* So that access() does not disturb the accounts: whatever it answers from *)
(* a cache, a hit that it hands over is owed until it is settled.          *)
THEOREM PolicyKeepsTheLedger == PolicySpec => LedgerSpec /\ []Balance /\ [][StaySettled]_vars
BY PolicyIsABatcher, BatcherKeepsTheLedger, BooksBalance, SettledForGood, PTL

(* The transaction of a request has its slot in the caches.                *)
LEMMA SlotOf == ASSUME NEW r \in Request PROVE Slot(r) \in Slots
  BY DEF Slots

(* A cached approval of the first state is that of an earlier request.     *)
LEMMA BackedInit == PolicyInit => Backed
<1> SUFFICES ASSUME PolicyInit PROVE Backed
  OBVIOUS
<1> USE DEF PolicyInit
<1>1. Shape
  BY CachingAssumption DEF Shape
<1>2. Past
  BY DEF Past
<1>3. ASSUME NEW k \in Slots, "ok" \in {auths[k], downtime[k]}
      PROVE  \E q \in Request : Stands(q, k) /\ \A x \in Writing : q \notin before[x]
  BY <1>3, CachingAssumption DEF Stands, Writing
<1>4. AuthsBacked
  BY <1>3 DEF AuthsBacked
<1>5. DowntimeBacked
  BY <1>3 DEF DowntimeBacked
<1>6. AllowRemembers
  BY DEF AllowRemembers, NotDenied
<1> QED
  BY <1>1, <1>2, <1>4, <1>5, <1>6 DEF Backed

(* A request that leaves without writing to a cache.                       *)
LEMMA Leaving ==
  ASSUME Backed, NEW r \in Request, Leave(r) \/ (phase' = [phase EXCEPT ![r] = "asked"]),
         phase[r] \in {"new", "asked", "answered"},
         phase[r] = "new" \/ Leave(r),
         UNCHANGED <<caching, caches, answer, history>>
  PROVE  Backed'
<1> USE DEF Backed, caches, history, Leave
<1>1. Shape'
  BY DEF Shape
<1>2. Past'
  BY DEF Past, Shape
<1>3. Writing' \subseteq Writing
  BY DEF Writing, Shape
<1>4. AuthsBacked'
  BY DEF AuthsBacked, Stands
<1>5. DowntimeBacked'
  BY <1>3 DEF DowntimeBacked, Stands, NotDenied
<1>6. AllowRemembers'
  BY DEF AllowRemembers, NotDenied
<1> QED
  BY <1>1, <1>2, <1>4, <1>5, <1>6

LEMMA Answering ==
  ASSUME Backed, NEW r \in Request, NEW v \in Definite \cup {"error"}, Answer(r, v)
  PROVE  Backed'
<1> USE DEF Backed, caches, Definite
<1> DEFINE k == Slot(r)
<1>1. /\ phase[r] = "asked" /\ answer[r] = "none" /\ k \in Slots
      /\ answer' = [answer EXCEPT ![r] = v]
      /\ downtime' = [downtime EXCEPT ![k] = Handler(downtime[k], v)]
      /\ phase' = [phase EXCEPT ![r] = "answered"]
      /\ before' = [before EXCEPT ![r] = {q \in Handled : Slot(q) = k}]
      /\ UNCHANGED <<caching, auths, overruled>>
  BY SlotOf DEF Answer, Shape
<1>2. Handler(downtime[k], v) \in {"none", "ok", "denied"}
  BY <1>1 DEF Handler, Shape
<1>3. Shape'
  BY <1>1, <1>2 DEF Shape, Handled
<1>4. Past'
  BY <1>1 DEF Past, Shape, Handled
<1>5. \A q \in Request : q # r => answer'[q] = answer[q]
  BY <1>1 DEF Shape
<1>6. \A q \in Request, j \in Slots : Stands(q, j) => Stands(q, j)'
  BY <1>1, <1>5 DEF Stands
<1>7. AuthsBacked'
  BY <1>1, <1>6 DEF AuthsBacked
<1>8. ASSUME NEW j \in Slots, NEW q \in Request, j # k \/ v = "error",
             Stands(q, j), \A x \in Writing : q \notin before[x]
      PROVE  Stands(q, j)' /\ \A x \in Writing' : q \notin before'[x]
  <2>1. ASSUME NEW x \in Writing' PROVE q \notin before'[x]
    <3>1. CASE x = r
      <4>1. j # k
        BY <1>1, <1>8, <2>1, <3>1 DEF Writing, Shape
      <4> QED
        BY <4>1, <1>1, <1>8, <3>1 DEF Stands, Shape
    <3>2. CASE x # r
      BY <1>1, <1>8, <2>1, <3>2 DEF Writing, Shape
    <3> QED
      BY <3>1, <3>2
  <2> QED
    BY <2>1, <1>6, <1>8
<1>9. ASSUME NEW j \in Slots, NotDenied(j), j # k \/ v # "denied"
      PROVE  NotDenied(j)'
  BY <1>1, <1>5, <1>9 DEF NotDenied, Shape
<1>10. DowntimeBacked'
  <2> SUFFICES ASSUME NEW j \in Slots, caching # "absent", downtime'[j] = "ok"
               PROVE  \/ \E q \in Request : Stands(q, j)' /\ \A x \in Writing' : q \notin before'[x]
                      \/ caching = "allow" /\ NotDenied(j)'
    BY <1>1 DEF DowntimeBacked
  <2>1. CASE j # k
    <3>1. downtime[j] = "ok"
      BY <1>1, <2>1 DEF Shape
    <3> QED
      BY <3>1, <2>1, <1>8, <1>9 DEF DowntimeBacked
  <2>2. CASE j = k /\ v = "ok"
    <3>1. Stands(r, k)'
      BY <1>1, <2>2 DEF Stands, Past, Shape
    <3>2. ASSUME NEW x \in Writing' PROVE r \notin before'[x]
      BY <1>1 DEF Past, Shape, Handled, Writing
    <3> QED
      BY <3>1, <3>2, <2>2
  <2>3. CASE j = k /\ v = "error"
    <3>1. \/ downtime[k] = "ok"
          \/ caching = "allow" /\ downtime[k] = "none"
      BY <1>1, <2>3 DEF Handler, Shape
    <3> QED
      BY <3>1, <2>3, <1>8, <1>9 DEF DowntimeBacked, AllowRemembers
  <2>4. CASE j = k /\ v = "denied"
    BY <1>1, <2>4 DEF Handler, Shape
  <2> QED
    BY <2>1, <2>2, <2>3, <2>4
<1>11. AllowRemembers'
  <2> SUFFICES ASSUME NEW j \in Slots, caching = "allow", downtime'[j] = "none"
               PROVE  NotDenied(j)'
    BY <1>1 DEF AllowRemembers
  <2>1. j # k /\ downtime[j] = "none"
    BY <1>1 DEF Handler, Shape
  <2> QED
    BY <2>1, <1>9 DEF AllowRemembers
<1> QED
  BY <1>3, <1>4, <1>7, <1>10, <1>11

(* The writer itself stands; what it overrules was for its own transaction *)
(* and is in neither cache any more.                                       *)
LEMMA Storing ==
  ASSUME Backed, NEW r \in Request, CacheAuth(r), answer[r] \in Definite
  PROVE  Backed'
<1> USE DEF Backed, caches, Definite
<1> DEFINE k == Slot(r)
<1>1. /\ phase[r] = "answered" /\ k \in Slots /\ r \in Writing
      /\ phase' = [phase EXCEPT ![r] = "over"]
      /\ auths' = [auths EXCEPT ![k] = answer[r]]
      /\ overruled' = overruled \cup before[r]
      /\ before' = [before EXCEPT ![r] = {}]
      /\ UNCHANGED <<caching, downtime, answer>>
  BY SlotOf DEF CacheAuth, Leave, Writing
<1>2. Shape'
  BY <1>1 DEF Shape
<1>3. Past'
  BY <1>1 DEF Past, Shape
<1>4. \A x \in Writing' : x \in Writing /\ before'[x] = before[x]
  BY <1>1 DEF Writing, Shape
<1>5. ASSUME NEW j \in Slots, NEW q \in Request, Stands(q, j), q \notin before[r]
      PROVE  Stands(q, j)'
  BY <1>1, <1>5 DEF Stands
<1>6. AuthsBacked'
  <2> SUFFICES ASSUME NEW j \in Slots, auths'[j] = "ok"
               PROVE  \E q \in Request : Stands(q, j)'
    BY DEF AuthsBacked
  <2>1. CASE j = k
    <3>1. answer[r] = "ok"
      BY <1>1, <2>1 DEF Shape
    <3>2. r \notin overruled' /\ Slot(r) = j
      BY <1>1, <2>1 DEF Past, Shape
    <3> QED
      BY <3>1, <3>2, <1>1 DEF Stands
  <2>2. CASE j # k
    <3>1. PICK q \in Request : Stands(q, j)
      BY <1>1, <2>2 DEF AuthsBacked, Shape
    <3>2. q \notin before[r]
      BY <3>1, <2>2 DEF Past, Stands
    <3> QED
      BY <3>1, <3>2, <1>5
  <2> QED
    BY <2>1, <2>2
<1>7. DowntimeBacked'
  BY <1>1, <1>4, <1>5 DEF DowntimeBacked, NotDenied
<1>8. AllowRemembers'
  BY <1>1 DEF AllowRemembers, NotDenied
<1> QED
  BY <1>2, <1>3, <1>6, <1>7, <1>8

LEMMA Expiring ==
  ASSUME Backed, NEW k \in Slots, Expire(k)
  PROVE  Backed'
<1> USE DEF Backed, Expire, history
<1>1. Shape'
  BY DEF Shape
<1>2. Past'
  BY DEF Past
<1>3. AuthsBacked'
  BY DEF AuthsBacked, Stands, Shape
<1>4. DowntimeBacked'
  BY DEF DowntimeBacked, Stands, NotDenied, Writing
<1>5. AllowRemembers'
  BY DEF AllowRemembers, NotDenied
<1> QED
  BY <1>1, <1>2, <1>3, <1>4, <1>5

LEMMA Dying ==
  ASSUME Backed, NEW w \in Worker, WorkerDies(w)
  PROVE  Backed'
<1> USE DEF Backed, caches, history
<1>1. /\ phase' \in [Request -> {"new", "asked", "answered", "over"}]
      /\ \A r \in Request : phase'[r] = phase[r] \/ phase'[r] = "over"
      /\ UNCHANGED <<caching, auths, downtime, answer, before, overruled>>
  BY DEF WorkerDies, Shape
<1>2. Shape'
  BY <1>1 DEF Shape
<1>3. Past'
  BY <1>1 DEF Past, Shape
<1>4. Writing' \subseteq Writing
  BY <1>1 DEF Writing
<1>5. AuthsBacked'
  BY <1>1 DEF AuthsBacked, Stands
<1>6. DowntimeBacked'
  BY <1>1, <1>4 DEF DowntimeBacked, Stands, NotDenied
<1>7. AllowRemembers'
  BY <1>1 DEF AllowRemembers, NotDenied
<1> QED
  BY <1>2, <1>3, <1>5, <1>6, <1>7

LEMMA Unmoved == ASSUME Backed, UNCHANGED policy PROVE Backed'
BY DEF Backed, policy, caches, history, Shape, Past, AuthsBacked, DowntimeBacked,
       AllowRemembers, Stands, NotDenied, Writing

LEMMA BackedNext == Backed /\ [PolicyNext]_policyVars => Backed'
<1> SUFFICES ASSUME Backed, [PolicyNext]_policyVars PROVE Backed'
  OBVIOUS
<1>1. ASSUME NEW r \in Request, Access(r) PROVE Backed'
  BY <1>1, Leaving DEF Access, NoMatch, CachedOk, CachedDenied, Ask, Enter, Leave
<1>2. ASSUME NEW r \in Request, Authorize(r) PROVE Backed'
  <2>1. ASSUME NEW v \in Definite \cup {"error"}, Answer(r, v) PROVE Backed'
    BY <2>1, Answering
  <2>2. CASE BackendOk(r) \/ BackendDenied(r)
    BY <2>2, Storing DEF BackendOk, BackendDenied, Definite
  <2>3. CASE ErrorAdmits(r) \/ ErrorRefuses(r)
    BY <2>3, Leaving DEF ErrorAdmits, ErrorRefuses, HandleError, Leave
  <2> QED
    BY <1>2, <2>1, <2>2, <2>3 DEF Authorize
<1>3. ASSUME NEW k \in Slots, Expire(k) PROVE Backed'
  BY <1>3, Expiring
<1>4. ASSUME NEW w \in Worker, WorkerDies(w) PROVE Backed'
  BY <1>4, Dying
<1>5. CASE Batcher
  BY <1>5, Unmoved DEF Batcher
<1>6. CASE UNCHANGED policyVars
  BY <1>6, Unmoved DEF policyVars
<1> QED
  BY <1>1, <1>2, <1>3, <1>4, <1>5, <1>6 DEF PolicyNext

-----------------------------------------------------------------------------
(* The batcher's own steps let nobody in.                                  *)
LEMMA OnlyAccessAdmits ==
  ASSUME TypeOK, Batcher \/ (\E w \in Worker : WorkerDies(w)), NEW r \in Request,
         pc[r] = "idle"
  PROVE  pc'[r] # "add"
<1> USE DEF TypeOK, Actor
<1>1. ASSUME NEW a \in Actor, Add(a) PROVE pc'[r] # "add"
  <2>1. pc[a] # "idle" /\ \A b \in Actor \ {a} : pc'[b] = pc[b]
    BY <1>1 DEF Add, AddLock, AddTimeout, Incr, AddUnlock, SafeAdd, NoMemory, Exists
  <2> QED
    BY <2>1
<1>2. ASSUME NEW p \in Reporter, GetAll(p) \/ Report(p) PROVE pc'[r] # "add"
  <2>1. p # r
    BY ActorsAssumption
  <2>2. \E v : pc' = [pc EXCEPT ![p] = v]
    BY <1>2 DEF GetAll, GetAllLock, Delete, GetAllUnlock, Skip, Get,
                Report, MakeBatch, BatchRaises, BackendCounts, ReportOk, ReportFails
  <2> QED
    BY <2>1, <2>2
<1>3. ASSUME NEW s \in Service, LockExpires(s) PROVE pc'[r] # "add"
  BY <1>3 DEF LockExpires, memory
<1>4. ASSUME NEW w \in Worker, WorkerDies(w) PROVE pc'[r] # "add"
  BY <1>4 DEF WorkerDies, Crash
<1> QED
  BY <1>1, <1>2, <1>3, <1>4 DEF Batcher

(* A request is let through on an approval that stands, or, in allow mode  *)
(* with backend down, when the transaction was never denied.               *)
LEMMA AdmitsOnApproval ==
  ASSUME TypeOK, Backed, PolicyNext, NEW r \in Request, pc[r] = "idle", pc'[r] = "add"
  PROVE  Approved(r)' \/ (caching = "allow" /\ NeverDenied(r))
<1> USE DEF TypeOK, Actor
<1>1. ASSUME NEW x \in Request, x # r, Admit(x) \/ Refuse(x) PROVE FALSE
  BY <1>1 DEF Admit, Refuse, Arrive, vars, memory
<1>2. ASSUME UNCHANGED pc PROVE FALSE
  BY <1>2
<1>3. ASSUME NEW x \in Request, Access(x)
      PROVE  Approved(r)'
  <2>1. x = r /\ CachedOk(r)
    BY <1>1, <1>2, <1>3 DEF Access, NoMatch, CachedOk, CachedDenied, Ask, Refuse, vars, memory
  <2>2. \E q \in Request : Stands(q, Slot(r))
    BY <2>1, SlotOf DEF CachedOk, Backed, AuthsBacked
  <2> QED
    BY <2>1, <2>2 DEF CachedOk, Enter, history, Stands, Approved
<1>4. ASSUME NEW x \in Request, Authorize(x)
      PROVE  Approved(r)' \/ (caching = "allow" /\ NeverDenied(r))
  <2>1. x = r /\ (BackendOk(r) \/ ErrorAdmits(r))
    BY <1>1, <1>2, <1>4 DEF Authorize, Answer, BackendOk, BackendDenied, ErrorAdmits,
                            ErrorRefuses, Refuse, vars, memory
  <2>2. CASE BackendOk(r)
    <3>1. Stands(r, Slot(r))'
      BY <2>2 DEF BackendOk, CacheAuth, Stands, Backed, Past, Shape
    <3> QED
      BY <3>1 DEF Stands, Approved
  <2>3. CASE ErrorAdmits(r)
    <3>1. caching # "absent" /\ downtime[Slot(r)] = "ok"
      BY <2>3 DEF ErrorAdmits, LetThrough
    <3>2. \/ \E q \in Request : Stands(q, Slot(r))
          \/ caching = "allow" /\ NotDenied(Slot(r))
      BY <3>1, SlotOf DEF Backed, DowntimeBacked
    <3> QED
      BY <3>2, <2>3 DEF ErrorAdmits, HandleError, history, Stands, Approved, NotDenied, NeverDenied
  <2> QED
    BY <2>1, <2>2, <2>3
<1>5. ASSUME NEW k \in Slots, Expire(k) PROVE FALSE
  BY <1>2, <1>5 DEF Expire, vars, memory
<1> QED
  BY <1>3, <1>4, <1>5, OnlyAccessAdmits DEF PolicyNext

(* NotOverruled, for any number of requests, workers and transactions.     *)
THEOREM NobodyOnAnOverruledApproval == PolicySpec => NotOverruled
<1>1. PolicySpec => []TypeOK
  BY PolicyIsABatcher, TypeCorrect
<1>2. PolicySpec => []Backed
  BY BackedInit, BackedNext, PTL DEF PolicySpec
<1>3. TypeOK /\ Backed /\ [PolicyNext]_policyVars =>
        [\A r \in Request : pc[r] = "idle" /\ pc'[r] = "add"
            => Approved(r)' \/ (caching = "allow" /\ NeverDenied(r))]_policyVars
  BY AdmitsOnApproval
<1> QED
  BY <1>1, <1>2, <1>3, PTL DEF PolicySpec, NotOverruled
=============================================================================
