---------------------------- MODULE BatcherPolicy ----------------------------
(***************************************************************************)
(* The access phase of the 3scale batcher policy (3scale_batcher.lua) in   *)
(* front of ReportsBatcher: the cache of authorizations that the workers   *)
(* share (auths_cache.lua), the cache for the downtime of the backend that *)
(* the caching policy's handler keeps (caching.lua), and the reporting     *)
(* timer that the first request of a worker starts.                        *)
(*                                                                         *)
(* The workers run in parallel, so that the two writes that follow an      *)
(* answer of the backend, to the downtime cache and to the cache of        *)
(* authorizations, are two steps.                                          *)
(***************************************************************************)
EXTENDS ReportsBatcher

CONSTANTS
  Caching,   \* the types of caching a chain may have, "absent" without the policy
  Earlier    \* requests that were approved and reported before a reload

ASSUME CachingAssumption ==
  /\ Caching \subseteq {"absent", "strict", "resilient", "allow", "none"}
  /\ Earlier \subseteq Request

VARIABLES
  caching,     \* the type of the caching policy of the chain
  auths,       \* ngx.shared.cached_auths: the status cached for a transaction
  downtime,    \* ngx.shared.api_keys: the status kept for a transaction
  phase,       \* where access() of a request is
  answer,      \* the backend's answer to the authorize call of a request
  started,     \* the reporting timers that run
  before,      \* history: the answers handled before an answer came
  overruled    \* history: answers that a later one has replaced

caches  == <<auths, downtime>>
history == <<before, overruled>>
policy  == <<caching, caches, phase, answer, started, history>>
policyVars == <<vars, policy>>

(* key_for_cached_auth: service, credentials and usage *)
Slot(r) == <<SvcOf[r], CredOf[r], MetricsOf[r]>>
Slots   == {Slot(r) : r \in Request}
Definite == {"ok", "denied"}   \* status 200, status 4xx

(* The answers that have been handled: stored, or cut off by a crash.      *)
Handled == {q \in Request : phase[q] = "over" /\ answer[q] \in Definite}

(* A configuration has been loaded: its timers are still to be started,    *)
(* the shared dictionaries keep what earlier requests left in them.        *)
PolicyInit ==
  /\ Init
  /\ caching \in Caching
  /\ auths \in [Slots -> {"none", "ok"}]
  /\ downtime \in [Slots -> {"none", "ok"}]
  /\ \A k \in Slots : "ok" \in {auths[k], downtime[k]} => \E r \in Earlier : k = Slot(r)
  /\ phase = [r \in Request |-> IF r \in Earlier THEN "over" ELSE "new"]
  /\ answer = [r \in Request |-> IF r \in Earlier THEN "ok" ELSE "none"]
  /\ started = {}
  /\ before = [r \in Request |-> {}]
  /\ overruled = {}

(* reports_batcher:add(transaction), or the end of the request *)
Admit(r)  == Arrive(r)
Refuse(r) == UNCHANGED vars
Leave(r)  == phase' = [phase EXCEPT ![r] = "over"]

(* No mapping rule matched: no_match, before anything else.                *)
NoMatch(r) ==
  /\ phase[r] = "new" /\ MetricsOf[r] = {}
  /\ Leave(r)
  /\ UNCHANGED <<vars, caching, caches, answer, started, history>>

(* ensure_timer_task_created: one timer per worker and policy instance.    *)
TimersOf(r) == {p \in Reporter : Home[p] = Home[r] /\ SvcOf[p] = SvcOf[r]}

Enter(r) ==
  /\ phase[r] = "new" /\ MetricsOf[r] # {}
  /\ KindOf[CredOf[r]] = mode[SvcOf[r]]
  /\ started' = started \cup TimersOf(r)
  /\ UNCHANGED <<caching, caches, answer, history>>

(* handle_cached_auth *)
CachedOk(r)     == Enter(r) /\ auths[Slot(r)] = "ok"     /\ Leave(r) /\ Admit(r)
CachedDenied(r) == Enter(r) /\ auths[Slot(r)] = "denied" /\ Leave(r) /\ Refuse(r)

(* A miss: backend:authorize, which yields.                                *)
Ask(r) ==
  /\ Enter(r) /\ auths[Slot(r)] = "none"
  /\ phase' = [phase EXCEPT ![r] = "asked"]
  /\ UNCHANGED vars

(* The handlers of the caching policy.  The batcher passes no ttl: what is *)
(* set stays until it is replaced or deleted.                              *)
Handler_Overwrites(old, v) ==   \* mutant: allow sets where it should add
  CASE caching = "absent"    -> old
    [] caching = "none"      -> "none"
    [] caching = "strict"    -> IF v = "ok" THEN "ok" ELSE "none"
    [] caching = "resilient" -> IF v \in Definite THEN v ELSE old
    [] caching = "allow"     -> IF v \in Definite THEN v ELSE "ok"

Handler(old, v) ==
  CASE caching = "absent"    -> old
    [] caching = "none"      -> "none"
    [] caching = "strict"    -> IF v = "ok" THEN "ok" ELSE "none"
    [] caching = "resilient" -> IF v \in Definite THEN v ELSE old
    [] caching = "allow"     -> IF v \in Definite THEN v
                                ELSE IF old = "none" THEN "ok" ELSE old

(* The answer comes: 200, 4xx, or 5xx or a connection error.  The backend  *)
(* may change its mind about a transaction from one answer to the next.    *)
Answer(r, v) ==
  /\ phase[r] = "asked"
  /\ answer' = [answer EXCEPT ![r] = v]
  /\ downtime' = [downtime EXCEPT ![Slot(r)] = Handler(@, v)]
  /\ phase' = [phase EXCEPT ![r] = "answered"]
  /\ before' = [before EXCEPT ![r] = {q \in Handled : Slot(q) = Slot(r)}]
  /\ UNCHANGED <<vars, caching, auths, started, overruled>>

(* auths_cache:set, and with it the earlier answers are out of date.       *)
CacheAuth(r) ==
  /\ phase[r] = "answered" /\ Leave(r)
  /\ auths' = [auths EXCEPT ![Slot(r)] = answer[r]]
  /\ overruled' = overruled \cup before[r]
  /\ before' = [before EXCEPT ![r] = {}]
  /\ UNCHANGED <<caching, downtime, answer, started>>

BackendOk(r)     == answer[r] = "ok" /\ CacheAuth(r) /\ Admit(r)
BackendDenied(r) == answer[r] = "denied" /\ CacheAuth(r) /\ Refuse(r)

(* handle_backend_error: the downtime cache decides; nothing is cached.    *)
HandleError(r) ==
  /\ phase[r] = "answered" /\ answer[r] = "error" /\ Leave(r)
  /\ UNCHANGED <<caching, caches, answer, started, history>>

LetThrough(r) == caching # "absent" /\ downtime[Slot(r)] = "ok"
ErrorAdmits(r)  == HandleError(r) /\ LetThrough(r) /\ Admit(r)
ErrorRefuses(r) == HandleError(r) /\ ~LetThrough(r) /\ Refuse(r)

(* An entry of the cache of authorizations outlives its ttl, or is evicted *)
Expire(k) ==
  /\ auths[k] # "none"
  /\ auths' = [auths EXCEPT ![k] = "none"]
  /\ UNCHANGED <<vars, caching, downtime, phase, answer, started, history>>

(* The requests and the timer of a worker that dies; the shared            *)
(* dictionaries stay.                                                      *)
WorkerDies(w) ==
  /\ Crash(w)
  /\ phase' = [r \in Request |-> IF Home[r] = w /\ phase[r] \in {"asked", "answered"}
                                 THEN "over" ELSE phase[r]]
  /\ started' = {p \in started : Home[p] # w}
  /\ UNCHANGED <<caching, caches, answer, history>>

Access(r) == NoMatch(r) \/ CachedOk(r) \/ CachedDenied(r) \/ Ask(r)
Authorize(r) == \/ \E v \in Definite \cup {"error"} : Answer(r, v)
                \/ BackendOk(r) \/ BackendDenied(r) \/ ErrorAdmits(r) \/ ErrorRefuses(r)

(* The reporting timer and the transactions being added: ReportsBatcher.   *)
Batcher ==
  /\ \/ \E a \in Actor : Add(a)
     \/ \E p \in Reporter : (GetAll(p) /\ p \in started) \/ Report(p)
     \/ \E s \in Service : LockExpires(s)
  /\ UNCHANGED policy

PolicyNext ==
  \/ \E r \in Request : Access(r) \/ Authorize(r)
  \/ \E k \in Slots : Expire(k)
  \/ \E w \in Worker : WorkerDies(w)
  \/ Batcher

PolicySpec == PolicyInit /\ [][PolicyNext]_policyVars

(***************************************************************************)
(* The fairness of ReportsBatcher, for the timers that run; the call to    *)
(* the backend is answered or times out.  No request has to come.          *)
(***************************************************************************)
RequestGoesOn(r)  == Authorize(r) \/ (Add(r) /\ UNCHANGED policy)
ReporterGoesOn(p) ==
  /\ Add(p) \/ Report(p) \/ (GetAll(p) /\ pc[p] # "idle")
  /\ UNCHANGED policy

PolicyFairness ==
  /\ \A r \in Request : WF_policyVars(RequestGoesOn(r))
  /\ \A p \in Reporter :
       /\ WF_policyVars(ReporterGoesOn(p))
       /\ SF_policyVars(GetAllLock(p) /\ p \in started /\ UNCHANGED policy)
  /\ \A s \in Service : WF_policyVars(LockExpires(s) /\ UNCHANGED policy)

FairPolicySpec == PolicySpec /\ PolicyFairness

-----------------------------------------------------------------------------
(* The backend has approved the transaction of r and has not taken it back *)
(* since; or the caching policy allows what was never denied.              *)
Approved(r) == \E q \in Request :
  Slot(q) = Slot(r) /\ answer[q] = "ok" /\ q \notin overruled
NeverDenied(r) == \A q \in Request :
  Slot(q) = Slot(r) /\ answer[q] = "denied" => q \in overruled

(* With requests that ask at once, answers that come in any order, entries *)
(* that expire and a backend that is down, access() hands a transaction to *)
(* the batcher only on an approval that no later answer has overruled.     *)
NotOverruled ==
  [][\A r \in Request : pc[r] = "idle" /\ pc'[r] = "add"
        => Approved(r)' \/ (caching = "allow" /\ NeverDenied(r))]_policyVars

(* Timers are started by requests and die with their worker.  As long as   *)
(* some worker's timer is left, every batched hit with a delta is counted  *)
(* in the end or is one of the lost; without one it waits in the shared    *)
(* dictionary for a request that starts a timer.                           *)
EventuallyCounted ==
  <>[](started # {}) => <>[](batched \ ZeroDelta \subseteq counted \cup lost)
=============================================================================
