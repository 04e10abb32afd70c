---------------------------- MODULE AuthRepProofs ----------------------------
(* Proofs of the safety of AuthRep, for every set of requests and of keys, *)
(* every selection of cache handlers and any number of failures.           *)
EXTENDS AuthRep, FiniteSetTheorems, TLAPS

(***************************************************************************)
(* The stage of a request, the variable cached_key of nginx and the calls  *)
(* of backend belong together: a request on its way to the upstream has    *)
(* called backend exactly if cached_key is not set.                        *)
(***************************************************************************)
Accounted(r) ==
  /\ pc[r] = "idle" => calls[r] = 0
  /\ pc[r] = "upstream" => calls[r] = IF keyset[r] THEN 0 ELSE 1
  /\ pc[r] = "queued" => calls[r] = 0
  /\ pc[r] = "done" => calls[r] = 1 \/ (calls[r] = 0 /\ r \in unreported)
  /\ pc[r] \notin {"idle", "upstream", "queued", "done"} => calls[r] = 1
  /\ pc[r] \in {"asking", "answered", "unavailable"} => ~keyset[r]
  /\ pc[r] \in {"queued", "reporting", "reported"} => keyset[r]
  /\ pc[r] \in {"answered", "reported"} => response[r] \in Status
  /\ r \in async => pc[r] \in {"queued", "reporting", "reported"}

Accounts == TypeOK /\ \A r \in Request : Accounted(r)

(* Whatever a handler is given, it leaves an entry that the cache may have. *)
LEMMA HandlerOK ==
  ASSUME mode \in Modes, NEW old \in Valid \cup {"0", "none"},
         NEW status \in Status, NEW keyed
  PROVE  Handler(old, status, keyed) \in Valid \cup {"0", "none"}
BY AuthRepAssumption
   DEF Handler, EnvStrict, EnvResilient, Strict, Resilient, Allow, Status, Verdict, Valid, Unavailable

(* The call of a handler keeps the shape of the cache and its history.      *)
LEMMA CacheHandlerOK ==
  ASSUME TypeOK, NEW r \in Request, NEW keyed, response[r] \in Status,
         CacheHandler(r, keyed)
  PROVE  /\ cache' \in [Key -> Valid \cup {"0", "none"}]
         /\ handled' \in [Key -> Status \cup {"none"}]
         /\ told' \in [Key -> Valid \cup {"none"}]
<1>1. KeyOf[r] \in Key /\ cache[KeyOf[r]] \in Valid \cup {"0", "none"}
  BY AuthRepAssumption DEF TypeOK
<1>2. Handler(cache[KeyOf[r]], response[r], keyed) \in Valid \cup {"0", "none"}
  BY <1>1, HandlerOK DEF TypeOK
<1> QED BY <1>1, <1>2 DEF CacheHandler, TypeOK

(* The first state has the shape, and no request has called backend.        *)
LEMMA AccountsInit == Init => Accounts
<1> SUFFICES ASSUME Init PROVE Accounts OBVIOUS
<1>1. TypeOK
  <2>1. failures \in 0..MaxFailures /\ changes \in 0..MaxChanges
    <3>1. failures = 0 /\ changes = 0
      BY DEF Init
    <3>2. MaxFailures \in Nat /\ MaxChanges \in Nat
      BY AuthRepAssumption
    <3> QED BY <3>1, <3>2
  <2>2. calls \in [Request -> Nat]
    BY DEF Init
  <2>3. permits \in [Worker -> Nat] /\ refused \in [Worker -> Nat]
    BY AuthRepAssumption DEF Init
  <2> QED BY <2>1, <2>2, <2>3 DEF Init, TypeOK, Stages
<1>2. \A r \in Request : Accounted(r)
  BY DEF Init, Accounted
<1> QED BY <1>1, <1>2 DEF Accounts

(* A failure keeps to its bound.                                            *)
LEMMA OneMoreFailure ==
  ASSUME TypeOK, failures < MaxFailures, failures' = failures + 1
  PROVE  failures' \in 0..MaxFailures
<1>1. failures \in 0..MaxFailures /\ MaxFailures \in Nat
  BY AuthRepAssumption DEF TypeOK
<1> QED BY <1>1

(* The pool of a worker keeps its shape when a report gets a timer or not,  *)
(* and when its timer is over.                                              *)
LEMMA CheckOutOK ==
  ASSUME TypeOK, NEW r \in Request, CheckOut(Home[r])
  PROVE  permits' \in [Worker -> Nat]
<1>1. Home[r] \in Worker /\ permits[Home[r]] \in Nat
  BY AuthRepAssumption DEF TypeOK
<1>2. permits[Home[r]] - 1 \in Nat
  BY <1>1 DEF CheckOut
<1> QED BY <1>1, <1>2 DEF CheckOut, TypeOK

LEMMA CheckInOK ==
  ASSUME TypeOK, NEW r \in Request, CheckIn(r)
  PROVE  permits' \in [Worker -> Nat] /\ async' \subseteq Request
<1>1. Home[r] \in Worker /\ permits[Home[r]] \in Nat
  BY AuthRepAssumption DEF TypeOK
<1>2. (IF r \in async THEN permits[Home[r]] + 1 ELSE permits[Home[r]]) \in Nat
  BY <1>1
<1> QED BY <1>1, <1>2 DEF CheckIn, TypeOK

(* No step of a request loses count of its calls.                           *)
LEMMA AccountsRequest ==
  ASSUME Accounts, NEW r \in Request,
         Hit(r) \/ Miss(r) \/ Progress(r) \/ Abort(r) \/ NextRequest(r)
  PROVE  Accounts'
<1> USE DEF Accounts, Accounted, TypeOK, Stages, Goto, Call, environment, request, pool
<1>1. CASE Hit(r) BY <1>1 DEF Hit
<1>2. CASE Miss(r) BY <1>2 DEF Miss
<1>3. CASE PostAction(r)
  <2>1. CASE keyset[r] /\ permits[Home[r]] = 0 /\ RunReport(r)
    BY <1>3, <2>1 DEF PostAction, RunReport
  <2>2. CASE keyset[r] /\ Schedule(r)
    <3>1. permits' \in [Worker -> Nat]
      BY <2>2, CheckOutOK DEF Schedule
    <3>2. failures' \in 0..MaxFailures
      BY <2>2, OneMoreFailure DEF Schedule
    <3>3. Home[r] \in Worker /\ refused[Home[r]] + 1 \in Nat
      <4>1. Home[r] \in Worker
        BY AuthRepAssumption
      <4>2. refused[Home[r]] \in Nat
        BY <4>1
      <4> QED BY <4>1, <4>2
    <3>4. refused' \in [Worker -> Nat]
      BY <2>2, <3>3 DEF Schedule
    <3> QED BY <1>3, <2>2, <3>1, <3>2, <3>4 DEF PostAction, Schedule
  <2>3. CASE ~keyset[r] /\ Goto(r, "done") /\ UNCHANGED <<calls, failures, pool>>
    BY <1>3, <2>3 DEF PostAction
  <2> QED BY <1>3, <2>1, <2>2, <2>3 DEF PostAction
<1>4. CASE Answer(r)
  <2>1. verdict[KeyOf[r]] \in Status
    BY AuthRepAssumption DEF Status
  <2> QED BY <1>4, <2>1 DEF Answer, Received
<1>5. CASE Fail(r)
  <2>1. PICK status \in Unavailable : Received(r, status)
    BY <1>5 DEF Fail
  <2>2. status \in Status
    BY DEF Status
  <2>3. failures' \in 0..MaxFailures
    BY <1>5, OneMoreFailure DEF Fail
  <2> QED BY <2>1, <2>2, <2>3 DEF Received
<1>6. CASE Decide(r)
  <2>1. response[r] \in Status
    BY <1>6 DEF Decide
  <2>2. /\ cache' \in [Key -> Valid \cup {"0", "none"}]
        /\ handled' \in [Key -> Status \cup {"none"}]
        /\ told' \in [Key -> Valid \cup {"none"}]
    BY <1>6, <2>1, CacheHandlerOK DEF Decide
  <2> QED BY <1>6, <2>2 DEF Decide
<1>7. CASE Recheck(r) BY <1>7 DEF Recheck
<1>8. CASE Reported(r)
  <2>1. response[r] \in Status
    BY <1>8 DEF Reported
  <2>2. /\ cache' \in [Key -> Valid \cup {"0", "none"}]
        /\ handled' \in [Key -> Status \cup {"none"}]
        /\ told' \in [Key -> Valid \cup {"none"}]
    BY <1>8, <2>1, CacheHandlerOK DEF Reported
  <2>3. permits' \in [Worker -> Nat] /\ async' \subseteq Request
    BY <1>8, CheckInOK DEF Reported
  <2> QED BY <1>8, <2>2, <2>3 DEF Reported, CheckIn
<1>9. CASE Abort(r) BY <1>9 DEF Abort
<1>10. CASE NextRequest(r) BY <1>10 DEF NextRequest
<1>11. CASE Fire(r) BY <1>11 DEF Fire, RunReport
<1>12. CASE Raise(r)
  <2>1. permits' \in [Worker -> Nat] /\ async' \subseteq Request
    BY <1>12, CheckInOK DEF Raise
  <2>2. failures' \in 0..MaxFailures
    BY <1>12, OneMoreFailure DEF Raise
  <2> QED BY <1>12, <2>1, <2>2 DEF Raise, CheckIn
<1> QED BY <1>1, <1>2, <1>3, <1>4, <1>5, <1>6, <1>7, <1>8, <1>9, <1>10, <1>11, <1>12 DEF Progress

(* Neither does a change of mind of backend.                                *)
LEMMA AccountsChange ==
  ASSUME Accounts, NEW k \in Key, Change(k) PROVE Accounts'
<1>1. changes' \in 0..MaxChanges
  <2>1. changes < MaxChanges /\ changes' = changes + 1
    BY DEF Change
  <2>2. changes \in 0..MaxChanges /\ MaxChanges \in Nat
    BY AuthRepAssumption DEF Accounts, TypeOK
  <2> QED BY <2>1, <2>2
<1>2. verdict' \in [Key -> Verdict]
  BY DEF Change, Accounts, TypeOK, Verdict
<1> QED BY <1>1, <1>2 DEF Change, Accounts, Accounted, TypeOK, request, pool

(* Accounts holds in every execution.                                       *)
THEOREM AccountsInvariant == Spec => []Accounts
<1>1. ASSUME Accounts, [Next]_vars PROVE Accounts'
  <2>1. CASE UNCHANGED vars
    BY <1>1, <2>1 DEF vars, environment, request, pool, Accounts, Accounted, TypeOK
  <2> QED BY <1>1, <2>1, AccountsRequest, AccountsChange DEF Next
<1> QED BY <1>1, AccountsInit, PTL DEF Spec

(* The state of requests and cache keeps its shape: proxy.lua.              *)
THEOREM TypeCorrect == Spec => []TypeOK
<1>1. Accounts => TypeOK
  BY DEF Accounts
<1> QED BY <1>1, AccountsInvariant, PTL

(* authorize() and post_action() together call backend once for a request  *)
(* that reaches the upstream, unless its report got no timer or raised, and *)
(* never twice for any.                                                     *)
THEOREM OneReport == Spec => []ReportedOnce
<1>1. ASSUME Accounts, NEW r \in Request
      PROVE  calls[r] <= 1 /\ (pc[r] = "done" => calls[r] = 1 \/ r \in unreported)
  <2>1. calls[r] = 0 \/ calls[r] = 1
    BY <1>1 DEF Accounts, Accounted
  <2>2. pc[r] = "done" => calls[r] = 1 \/ r \in unreported
    BY <1>1 DEF Accounts, Accounted
  <2> QED BY <2>1, <2>2
<1>2. Accounts => ReportedOnce
  BY <1>1 DEF ReportedOnce
<1> QED BY <1>2, AccountsInvariant, PTL

-----------------------------------------------------------------------------
(* The reports that have a timer of the pool of a worker.                   *)
Running(w) == {r \in async : Home[r] = w}

(* A report joins or leaves the pool of its worker and no other.            *)
LEMMA RunningJoins ==
  ASSUME Accounts, NEW r \in Request, r \notin async, async' = async \cup {r}, NEW w \in Worker
  PROVE  /\ Cardinality(Running(w)) \in Nat
         /\ Cardinality(Running(w)') = Cardinality(Running(w)) + IF w = Home[r] THEN 1 ELSE 0
<1>1. IsFiniteSet(Running(w))
  BY FS_Subset, AuthRepAssumption DEF Accounts, TypeOK, Running
<1>2. CASE w = Home[r]
  <2>1. Running(w)' = Running(w) \cup {r} /\ r \notin Running(w)
    BY <1>2 DEF Running
  <2> QED BY <1>1, <1>2, <2>1, FS_AddElement, FS_CardinalityType
<1>3. CASE w # Home[r]
  <2>1. Running(w)' = Running(w)
    BY <1>3 DEF Running
  <2> QED BY <1>1, <1>3, <2>1, FS_CardinalityType
<1> QED BY <1>2, <1>3

LEMMA RunningLeaves ==
  ASSUME Accounts, NEW r \in Request, async' = async \ {r}, NEW w \in Worker
  PROVE  /\ Cardinality(Running(w)) \in Nat /\ Cardinality(Running(w)') \in Nat
         /\ Cardinality(Running(w)') =
              Cardinality(Running(w)) - IF w = Home[r] /\ r \in async THEN 1 ELSE 0
<1>1. IsFiniteSet(Running(w))
  BY FS_Subset, AuthRepAssumption DEF Accounts, TypeOK, Running
<1>2. CASE w = Home[r] /\ r \in async
  <2>1. Running(w)' = Running(w) \ {r} /\ r \in Running(w)
    BY <1>2 DEF Running
  <2>2. IsFiniteSet(Running(w)')
    BY <1>1, <2>1, FS_Subset
  <2> QED BY <1>1, <1>2, <2>1, <2>2, FS_RemoveElement, FS_CardinalityType
<1>3. CASE ~(w = Home[r] /\ r \in async)
  <2>1. Running(w)' = Running(w)
    BY <1>3 DEF Running
  <2> QED BY <1>1, <1>3, <2>1, FS_CardinalityType
<1> QED BY <1>2, <1>3

Kept(w) == permits[w] + Cardinality(Running(w)) + refused[w] = threads

(* Every step that touches the pool of a worker keeps its sum.              *)
LEMMA KeptBySchedule ==
  ASSUME Accounts, NEW r \in Request, pc[r] = "upstream", Schedule(r), threads' = threads,
         NEW w \in Worker, Kept(w)
  PROVE  Kept(w)'
<1>1. r \notin async
  BY DEF Accounts, Accounted
<1>2. permits[w] \in Nat /\ refused[w] \in Nat
  BY DEF Accounts, TypeOK
<1>3. permits'[w] = IF w = Home[r] THEN permits[w] - 1 ELSE permits[w]
  BY DEF Schedule, CheckOut, Accounts, TypeOK
<1>4. CASE async' = async \cup {r} /\ UNCHANGED refused
  <2>1. /\ Cardinality(Running(w)) \in Nat
        /\ Cardinality(Running(w)') = Cardinality(Running(w)) + IF w = Home[r] THEN 1 ELSE 0
    BY <1>1, <1>4, RunningJoins
  <2> QED BY <1>2, <1>3, <1>4, <2>1 DEF Kept
<1>5. CASE UNCHANGED async /\ refused' = [refused EXCEPT ![Home[r]] = @ + 1]
  <2>1. refused'[w] = IF w = Home[r] THEN refused[w] + 1 ELSE refused[w]
    BY <1>5 DEF Accounts, TypeOK
  <2>2. Running(w)' = Running(w) /\ Cardinality(Running(w)) \in Nat
    BY <1>5, FS_Subset, FS_CardinalityType, AuthRepAssumption DEF Running, Accounts, TypeOK
  <2> QED BY <1>2, <1>3, <2>1, <2>2 DEF Kept
<1> QED BY <1>4, <1>5 DEF Schedule

LEMMA KeptByCheckIn ==
  ASSUME Accounts, NEW r \in Request, CheckIn(r), UNCHANGED <<threads, refused>>,
         NEW w \in Worker, Kept(w)
  PROVE  Kept(w)'
<1>1. permits[w] \in Nat /\ refused[w] \in Nat
  BY DEF Accounts, TypeOK
<1>2. permits'[w] = IF w = Home[r] /\ r \in async THEN permits[w] + 1 ELSE permits[w]
  BY DEF CheckIn, Accounts, TypeOK
<1>3. /\ Cardinality(Running(w)) \in Nat
      /\ Cardinality(Running(w)') =
           Cardinality(Running(w)) - IF w = Home[r] /\ r \in async THEN 1 ELSE 0
  BY RunningLeaves DEF CheckIn
<1> QED BY <1>1, <1>2, <1>3 DEF Kept

(* timer_pool_executor.lua: the pool of a worker loses a permit only to a   *)
(* timer that was not created, and never has more reports than threads.     *)
THEOREM PoolKeepsPermits == Spec => []PermitsKept
<1>1. PermitsKept <=> \A w \in Worker : Kept(w)
  BY DEF PermitsKept, Kept, Running
<1>2. Init => PermitsKept
  <2> SUFFICES ASSUME Init, NEW w \in Worker PROVE Kept(w)
    BY <1>1
  <2>1. Running(w) = {} /\ permits[w] = threads /\ refused[w] = 0 /\ threads \in Nat
    BY AuthRepAssumption DEF Init, Running
  <2> QED BY <2>1, FS_EmptySet DEF Kept
<1>3. ASSUME Accounts, PermitsKept, [Next]_vars PROVE PermitsKept'
  <2> SUFFICES ASSUME NEW w \in Worker PROVE Kept(w)'
    BY DEF PermitsKept, Kept, Running
  <2>1. Kept(w)
    BY <1>1, <1>3
  <2>2. CASE UNCHANGED <<threads, permits, async, refused>>
    BY <2>1, <2>2 DEF Kept, Running
  <2>3. ASSUME NEW r \in Request, PostAction(r) PROVE Kept(w)'
    <3>1. CASE Schedule(r)
      BY <1>3, <2>1, <2>3, <3>1, KeptBySchedule DEF PostAction
    <3> QED BY <2>2, <2>3, <3>1 DEF PostAction, RunReport, pool
  <2>4. ASSUME NEW r \in Request, Reported(r) \/ Raise(r) PROVE Kept(w)'
    BY <1>3, <2>1, <2>4, KeptByCheckIn DEF Reported, Raise, environment
  <2>5. ASSUME NEW r \in Request,
               \/ Hit(r) \/ Miss(r) \/ Abort(r) \/ NextRequest(r) \/ Fire(r)
               \/ Answer(r) \/ Fail(r) \/ Decide(r) \/ Recheck(r)
        PROVE  Kept(w)'
    BY <2>2, <2>5 DEF Hit, Miss, Abort, NextRequest, Fire, RunReport, Answer, Fail, Received,
                      Decide, Recheck, environment, pool
  <2>6. ASSUME NEW k \in Key, Change(k) PROVE Kept(w)'
    BY <2>2, <2>6 DEF Change, pool
  <2>7. CASE UNCHANGED vars
    BY <2>2, <2>7 DEF vars, environment, pool
  <2> QED BY <1>3, <2>3, <2>4, <2>5, <2>6, <2>7 DEF Next, Progress
<1> QED BY <1>2, <1>3, AccountsInvariant, PTL DEF Spec

(***************************************************************************)
(* What an entry of the cache tells of the responses handled so far.       *)
(***************************************************************************)
CacheFollows(k) ==
  /\ mode = "strict" => cache[k] = IF handled[k] = "ok" THEN "ok" ELSE "none"
  /\ mode = "env strict" /\ cache[k] = "ok" => handled[k] = "ok"
  /\ mode = "resilient" => cache[k] = told[k]
  /\ mode = "allow" => cache[k] = CASE told[k] # "none" -> told[k]
                                    [] told[k] = "none" /\ handled[k] # "none" -> "ok"
                                    [] OTHER -> "none"
  /\ mode = "none" => cache[k] = "none"

Followed ==
  /\ Accounts
  /\ \A k \in Key : CacheFollows(k)
  /\ \A r \in Request : pc[r] = "unavailable" => handled[KeyOf[r]] # "none"

(* A handler leaves the entry that its mode asks for.                       *)
LEMMA FollowedHandler ==
  ASSUME Followed, NEW r \in Request, NEW keyed, response[r] \in Status,
         CacheHandler(r, keyed), mode' = mode, NEW k \in Key
  PROVE  CacheFollows(k)'
<1> DEFINE old == cache[k]
           status == response[r]
<1> USE DEF Followed, Accounts, TypeOK
<1>1. CASE k # KeyOf[r]
  BY <1>1 DEF CacheHandler, CacheFollows
<1>2. CASE k = KeyOf[r]
  <2>1. /\ cache'[k] = Handler(cache[k], response[r], keyed)
        /\ handled'[k] = response[r]
        /\ told'[k] = IF response[r] \in Valid THEN response[r] ELSE told[k]
    BY <1>2 DEF CacheHandler
  <2>2. CacheFollows(k)
    OBVIOUS
  <2>3. CASE mode = "strict"
    BY <2>1, <2>3 DEF CacheFollows, Handler, Strict
  <2>4. CASE mode = "env strict"
    BY <2>1, <2>2, <2>4 DEF CacheFollows, Handler, EnvStrict
  <2>5. CASE mode = "resilient"
    BY <2>1, <2>2, <2>5 DEF CacheFollows, Handler, Resilient, Status, Verdict, Valid, Unavailable
  <2>6. CASE mode = "allow"
    BY <2>1, <2>2, <2>6 DEF CacheFollows, Handler, Allow, Status, Verdict, Valid, Unavailable
  <2>7. CASE mode = "none"
    BY <2>1, <2>7 DEF CacheFollows, Handler
  <2>8. CASE mode = "env resilient"
    BY <2>8 DEF CacheFollows
  <2> QED BY <2>3, <2>4, <2>5, <2>6, <2>7, <2>8, AuthRepAssumption
<1> QED BY <1>1, <1>2

(* The entries are as the modes ask for in every execution.                 *)
THEOREM FollowedInvariant == Spec => []Followed
<1>1. Init => Followed
  BY AccountsInit, AuthRepAssumption DEF Init, Followed, CacheFollows
<1>2. ASSUME Followed, Accounts', [Next]_vars PROVE Followed'
  <2> USE DEF Followed
  <2>1. ASSUME NEW r \in Request, NEW keyed, response[r] \in Status,
               CacheHandler(r, keyed), mode' = mode,
               \A q \in Request : pc'[q] = "unavailable" => q = r \/ pc[q] = "unavailable"
        PROVE  Followed'
    <3>1. \A k \in Key : CacheFollows(k)'
      BY <1>2, <2>1, FollowedHandler
    <3>2. ASSUME NEW q \in Request, pc'[q] = "unavailable" PROVE handled'[KeyOf[q]] # "none"
      <4>1. KeyOf[q] \in Key /\ KeyOf[r] \in Key /\ response[r] # "none"
        BY <2>1, AuthRepAssumption DEF Status, Verdict, Valid, Unavailable
      <4> QED BY <1>2, <2>1, <3>2, <4>1 DEF CacheHandler, Accounts, TypeOK
    <3> QED BY <1>2, <3>1, <3>2
  <2>2. ASSUME NEW r \in Request, Decide(r) PROVE Followed'
    <3>1. response[r] \in Status
      BY <1>2, <2>2 DEF Decide, Accounts, Accounted
    <3> QED BY <1>2, <2>1, <2>2, <3>1 DEF Decide, Goto, environment, Accounts, TypeOK
  <2>3. ASSUME NEW r \in Request, Reported(r) PROVE Followed'
    <3>1. response[r] \in Status
      BY <1>2, <2>3 DEF Reported, Accounts, Accounted
    <3> QED BY <1>2, <2>1, <2>3, <3>1 DEF Reported, Goto, environment, Accounts, TypeOK
  <2>4. ASSUME UNCHANGED <<mode, cache, handled, told>>,
               \A q \in Request : pc'[q] = "unavailable" => pc[q] = "unavailable"
        PROVE  Followed'
    BY <1>2, <2>4 DEF CacheFollows
  <2>5. ASSUME NEW r \in Request,
               \/ Hit(r) \/ Miss(r) \/ Abort(r) \/ NextRequest(r)
               \/ PostAction(r) \/ Fire(r) \/ Answer(r) \/ Fail(r) \/ Recheck(r) \/ Raise(r)
        PROVE  Followed'
    <3>1. UNCHANGED <<mode, cache, handled, told>>
      BY <2>5 DEF Hit, Miss, Abort, NextRequest, PostAction, Fire, Answer, Fail, Received, Recheck,
                  Raise, environment
    <3>2. \A q \in Request : pc'[q] = "unavailable" => pc[q] = "unavailable"
      BY <1>2, <2>5 DEF Hit, Miss, Abort, NextRequest, PostAction, RunReport, Schedule, Fire,
                        Answer, Fail, Received, Recheck, Raise, Goto, Accounts, TypeOK
    <3> QED BY <2>4, <3>1, <3>2
  <2>6. ASSUME NEW k \in Key, Change(k) PROVE Followed'
    BY <2>4, <2>6 DEF Change, request
  <2>7. CASE UNCHANGED vars
    BY <2>4, <2>7 DEF vars, environment, request
  <2> QED BY <1>2, <2>2, <2>3, <2>5, <2>6, <2>7 DEF Next, Progress
<1> QED BY <1>1, <1>2, AccountsInvariant, PTL DEF Spec

(* handle_backend_response(): what is decided without backend follows the  *)
(* verdicts that the workers have seen, whatever they do in the meantime.   *)
THEOREM DecisionsFollowVerdicts == Spec => DownDecision
<1> DEFINE Decision(r) ==
      pc[r] = "unavailable" /\ pc'[r] # pc[r] =>
        LET k == KeyOf[r]
            admitted == pc'[r] = "upstream" IN
        CASE mode = "resilient" -> admitted <=> told[k] = "ok"
          [] mode = "allow"     -> admitted <=> told[k] \in {"ok", "none"}
          [] mode \in {"strict", "env strict"} -> admitted => handled[k] = "ok"
          [] mode = "none"      -> ~admitted
          [] OTHER              -> TRUE
<1>1. ASSUME Followed, Next, NEW r \in Request PROVE Decision(r)
  <2> SUFFICES ASSUME pc[r] = "unavailable", pc'[r] # pc[r] PROVE Decision(r)
    OBVIOUS
  <2>1. Recheck(r)
    <3>1. ASSUME NEW k \in Key PROVE ~Change(k)
      BY DEF Change, request
    <3>2. PICK q \in Request : Hit(q) \/ Miss(q) \/ Progress(q) \/ Abort(q) \/ NextRequest(q)
      BY <1>1, <3>1 DEF Next
    <3>3. q = r
      BY <1>1, <3>2 DEF Followed, Accounts, TypeOK, Hit, Miss, Progress, Abort, NextRequest,
           PostAction, RunReport, Schedule, Fire, Answer, Fail, Received, Decide, Recheck,
           Reported, Raise, Goto
    <3> QED BY <3>2, <3>3 DEF Hit, Miss, Progress, Abort, NextRequest,
           PostAction, Fire, Answer, Fail, Received, Decide, Recheck, Reported, Raise
  <2>2. KeyOf[r] \in Key /\ CacheFollows(KeyOf[r]) /\ handled[KeyOf[r]] # "none"
    BY <1>1, AuthRepAssumption DEF Followed
  <2>3. pc'[r] = "upstream" <=> cache[KeyOf[r]] = "ok"
    BY <1>1, <2>1 DEF Recheck, Goto, Followed, Accounts, TypeOK
  <2>4. told[KeyOf[r]] \in {"ok", "denied", "499", "none"}
    BY <1>1, <2>2 DEF Followed, Accounts, TypeOK, Verdict, Valid
  <2> QED BY <2>2, <2>3, <2>4 DEF CacheFollows
<1>2. Followed /\ [Next]_vars => [\A r \in Request : Decision(r)]_vars
  BY <1>1
<1> QED BY <1>2, FollowedInvariant, PTL DEF Spec, DownDecision

-----------------------------------------------------------------------------
(***************************************************************************)
(* The safety half of DenialTakesEffect.  While backend denies a key, what *)
(* can still let its requests through is the cache and the approvals that  *)
(* were under way, and these run out: no step adds one, the entry turns    *)
(* into "ok" only at the expense of one, and a request proceeds on the     *)
(* entry or on the approval it carries.  Only the handler "allow" may      *)
(* authorize a key of which it has not heard a verdict yet.                *)
(***************************************************************************)
InFlight(k) ==
  {r \in Request : KeyOf[r] = k /\ response[r] = "ok" /\ pc[r] \in {"answered", "reported"}}

Spent(k) == InFlight(k)' \subseteq InFlight(k) /\ InFlight(k)' # InFlight(k)

RunsOut(k) ==
  /\ InFlight(k)' \subseteq InFlight(k)
  /\ cache[k] # "ok" /\ cache'[k] = "ok" => Spent(k) \/ (mode = "allow" /\ told[k] = "none")
  /\ \A r \in Request : KeyOf[r] = k /\ pc[r] # "upstream" /\ pc'[r] = "upstream" =>
       cache[k] = "ok" \/ r \in InFlight(k) \ InFlight(k)'

(* A step of one request leaves the stage and the response of the others.   *)
LEMMA OneRequest ==
  ASSUME Accounts, NEW r \in Request,
         Hit(r) \/ Miss(r) \/ Progress(r) \/ Abort(r) \/ NextRequest(r),
         NEW q \in Request, q # r
  PROVE  pc'[q] = pc[q] /\ response'[q] = response[q]
BY DEF Accounts, TypeOK, Hit, Miss, Progress, Abort, NextRequest, PostAction, RunReport, Schedule,
       Fire, Answer, Fail, Received, Decide, Recheck, Reported, Raise, Goto

(* Backend does not approve a key it denies, whatever else is under way.    *)
LEMMA NoNewApproval ==
  ASSUME Accounts, [Next]_vars, NEW k \in Key, verdict[k] = "denied"
  PROVE  InFlight(k)' \subseteq InFlight(k)
<1> SUFFICES ASSUME NEW q \in Request, q \in InFlight(k)' PROVE q \in InFlight(k)
  BY DEF InFlight
<1>1. KeyOf[q] = k /\ response'[q] = "ok" /\ pc'[q] \in {"answered", "reported"}
  BY DEF InFlight
<1>2. CASE pc'[q] = pc[q] /\ response'[q] = response[q]
  BY <1>1, <1>2 DEF InFlight
<1>3. CASE UNCHANGED vars
  BY <1>2, <1>3 DEF vars, request
<1>4. ASSUME NEW c \in Key, Change(c) PROVE q \in InFlight(k)
  BY <1>2, <1>4 DEF Change, request
<1>5. ASSUME NEW r \in Request,
             Hit(r) \/ Miss(r) \/ Progress(r) \/ Abort(r) \/ NextRequest(r)
      PROVE  q \in InFlight(k)
  <2>1. CASE q # r
    BY <1>2, <1>5, <2>1, OneRequest
  <2>2. CASE q = r /\ (Answer(r) \/ Fail(r))
    BY <1>1, <2>2 DEF Answer, Fail, Received, Unavailable, Accounts, TypeOK
  <2>3. CASE q = r /\ ~(Answer(r) \/ Fail(r))
    BY <1>1, <1>5, <2>3 DEF Accounts, TypeOK, Hit, Miss, Progress, Abort, NextRequest, PostAction,
       RunReport, Schedule, Fire, Decide, Recheck, Reported, Raise, Goto
  <2> QED BY <2>1, <2>2, <2>3
<1> QED BY <1>3, <1>4, <1>5 DEF Next

(* A handler turns an entry into "ok" only on an approval of backend, but   *)
(* for the caching mode "allow".                                            *)
LEMMA OnlyApprovals ==
  ASSUME Followed, NEW r \in Request, NEW keyed, response[r] \in Status,
         CacheHandler(r, keyed), NEW k \in Key, cache[k] # "ok", cache'[k] = "ok"
  PROVE  KeyOf[r] = k /\ (response[r] = "ok" \/ (mode = "allow" /\ told[k] = "none"))
<1> USE DEF Followed, Accounts, TypeOK
<1>1. KeyOf[r] = k
  BY DEF CacheHandler
<1>2. cache'[k] = Handler(cache[k], response[r], keyed)
  BY <1>1 DEF CacheHandler
<1>3. CacheFollows(k)
  OBVIOUS
<1>4. CASE mode = "strict"
  BY <1>1, <1>2, <1>4 DEF Handler, Strict
<1>5. CASE mode = "env strict"
  BY <1>1, <1>2, <1>5 DEF Handler, EnvStrict
<1>6. CASE mode = "resilient"
  BY <1>1, <1>2, <1>6 DEF Handler, Resilient, Status, Verdict, Valid, Unavailable
<1>7. CASE mode = "allow"
  BY <1>1, <1>2, <1>3, <1>7 DEF CacheFollows, Handler, Allow, Status, Verdict, Valid, Unavailable
<1>8. CASE mode = "none"
  BY <1>2, <1>8 DEF Handler
<1>9. CASE mode = "env resilient"
  BY <1>1, <1>2, <1>9 DEF Handler, EnvResilient
<1> QED BY <1>4, <1>5, <1>6, <1>7, <1>8, <1>9, AuthRepAssumption

(* authorize() and handle_backend_response(): once backend denies a key,    *)
(* each response under way authorizes it at most once more, in whatever     *)
(* order the workers handle them.                                           *)
THEOREM ApprovalsRunOut ==
  Spec => [][\A k \in Key : verdict[k] = "denied" => RunsOut(k)]_vars
<1>1. ASSUME Followed, [Next]_vars, NEW k \in Key, verdict[k] = "denied" PROVE RunsOut(k)
  <2>1. InFlight(k)' \subseteq InFlight(k)
    BY <1>1, NoNewApproval DEF Followed
  <2>2. ASSUME cache[k] # "ok", cache'[k] = "ok"
        PROVE  Spent(k) \/ (mode = "allow" /\ told[k] = "none")
    <3>1. PICK r \in Request : Decide(r) \/ Reported(r)
      BY <1>1, <2>2 DEF Next, Progress, Hit, Miss, Abort, NextRequest, PostAction, Fire, Answer,
         Fail, Received, Recheck, Raise, Change, vars
    <3>2. response[r] \in Status /\ \E keyed : CacheHandler(r, keyed)
      BY <1>1, <3>1 DEF Decide, Reported, Followed, Accounts, Accounted
    <3>3. KeyOf[r] = k /\ (response[r] = "ok" \/ (mode = "allow" /\ told[k] = "none"))
      BY <1>1, <2>2, <3>2, OnlyApprovals
    <3>4. CASE response[r] = "ok"
      <4>1. r \in InFlight(k)
        BY <3>1, <3>3, <3>4 DEF InFlight, Decide, Reported
      <4>2. pc'[r] \in {"upstream", "done"}
        BY <1>1, <3>1, <3>4 DEF Decide, Reported, Goto, Followed, Accounts, TypeOK
      <4> QED BY <2>1, <4>1, <4>2 DEF InFlight, Spent
    <3> QED BY <3>3, <3>4
  <2>3. ASSUME NEW r \in Request, KeyOf[r] = k, pc[r] # "upstream", pc'[r] = "upstream"
        PROVE  cache[k] = "ok" \/ r \in InFlight(k) \ InFlight(k)'
    <3>1. PICK q \in Request : Hit(q) \/ Miss(q) \/ Progress(q) \/ Abort(q) \/ NextRequest(q)
      BY <1>1, <2>3 DEF Next, Change, vars, request
    <3>2. q = r
      BY <1>1, <2>3, <3>1, OneRequest DEF Followed
    <3>3. Hit(r) \/ Recheck(r) \/ Decide(r)
      BY <1>1, <2>3, <3>1, <3>2 DEF Followed, Accounts, TypeOK, Miss, Progress, Abort, NextRequest,
         PostAction, RunReport, Schedule, Fire, Answer, Fail, Received, Reported, Raise, Goto
    <3>4. CASE Hit(r)
      BY <2>3, <3>4 DEF Hit, Known
    <3>5. CASE Recheck(r)
      BY <1>1, <2>3, <3>5 DEF Recheck, Goto, Followed, Accounts, TypeOK
    <3>6. CASE Decide(r)
      BY <1>1, <2>3, <3>6 DEF Decide, Goto, InFlight, Followed, Accounts, TypeOK
    <3> QED BY <3>3, <3>4, <3>5, <3>6
  <2> QED BY <2>1, <2>2, <2>3 DEF RunsOut
<1>2. Followed /\ [Next]_vars => [\A k \in Key : verdict[k] = "denied" => RunsOut(k)]_vars
  BY <1>1
<1> QED BY <1>2, FollowedInvariant, PTL DEF Spec
=============================================================================
