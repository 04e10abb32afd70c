------------------------------- MODULE AuthRep -------------------------------
(***************************************************************************)
(* Authorization and reporting of requests (proxy.lua) through the cache   *)
(* of authorizations that the workers share (ngx.shared.api_keys).  A      *)
(* request that finds its key authorized goes to the upstream at once and  *)
(* is reported by post_action, which runs the report in the request or, if *)
(* APICAST_REPORTING_THREADS is set, in a timer of the worker's pool; any  *)
(* other is authorized and reported by one call of backend first.  What    *)
(* comes of a response is decided by a cache handler: one of               *)
(* backend/cache_handler.lua ("env strict", "env resilient":               *)
(* APICAST_BACKEND_CACHE_HANDLER) or of the caching policy.                *)
(***************************************************************************)
EXTENDS Integers, FiniteSets

CONSTANTS
  Request,
  Key,           \* cached_key: service, credentials and usage
  KeyOf,
  Worker,
  Home,          \* the worker of a request
  Threads,       \* values of APICAST_REPORTING_THREADS
  Modes,         \* cache handlers
  MaxFailures,   \* bound: calls of backend that fail, and timers
  MaxChanges     \* bound: changes of backend's mind

ASSUME AuthRepAssumption ==
  /\ IsFiniteSet(Request)
  /\ KeyOf \in [Request -> Key] /\ Home \in [Request -> Worker]
  /\ Threads \subseteq Nat
  /\ Modes \subseteq {"env strict", "env resilient", "strict", "resilient", "allow", "none"}
  /\ MaxFailures \in Nat /\ MaxChanges \in Nat

(* The status of a response: 200, another one below 500, 500 and above, or *)
(* the 0 of a response that never came.  With 499, which nginx reports of  *)
(* a closed connection, the proxy takes backend for unavailable, while the *)
(* cache handlers take it for a denial like any other below 500.           *)
Verdict     == {"ok", "denied"}
Unavailable == {"499", "5xx", "0"}
Status      == Verdict \cup Unavailable
Valid       == Verdict \cup {"499"}

VARIABLES
  mode,
  verdict,      \* what backend thinks of a key
  cache,        \* the status cached for a key, or "none"
  pc,
  keyset,       \* ngx.var.cached_key is set: post_action has to report
  response,     \* the status of backend's response to a request
  threads,      \* max_timers of the pools
  permits,      \* the semaphore of a worker's pool
  async,        \* requests whose report has a timer of the pool
  unreported,   \* history: requests whose report got no timer, or raised
  refused,      \* history: timers that were not created, by worker
  calls,        \* history: the calls of backend for a request
  handled,      \* history: the status last handled for a key, if any
  told,         \* history: the valid status last handled for a key, if any
  failures, changes

environment == <<mode, threads, verdict, failures, changes>>
request     == <<pc, keyset, response, calls>>
pool        == <<permits, async, unreported, refused>>
vars        == <<environment, request, pool, cache, handled, told>>

Init ==
  /\ mode \in Modes
  /\ threads \in Threads
  /\ permits = [w \in Worker |-> threads] /\ async = {} /\ unreported = {}
  /\ refused = [w \in Worker |-> 0]
  /\ verdict \in [Key -> Verdict]
  /\ cache = [k \in Key |-> "none"]
  /\ pc = [r \in Request |-> "idle"]
  /\ keyset = [r \in Request |-> FALSE]
  /\ response = [r \in Request |-> "none"]
  /\ calls = [r \in Request |-> 0]
  /\ handled = cache /\ told = cache
  /\ failures = 0 /\ changes = 0

Goto(r, label) == pc' = [pc EXCEPT ![r] = label]
Call(r) == calls' = [calls EXCEPT ![r] = @ + 1]

(* authorize(): the key is looked up.                                      *)
Known(r) == cache[KeyOf[r]] = "ok" /\ mode # "none"

Hit(r) ==
  /\ pc[r] = "idle" /\ Known(r)
  /\ keyset' = [keyset EXCEPT ![r] = TRUE]
  /\ Goto(r, "upstream")
  /\ UNCHANGED <<environment, response, calls, pool, cache, handled, told>>

Miss_KeepsKey(r) ==   \* mutant: cached_key is not reset
  /\ pc[r] = "idle" /\ ~Known(r)
  /\ keyset' = [keyset EXCEPT ![r] = TRUE]
  /\ Call(r) /\ Goto(r, "asking")
  /\ UNCHANGED <<environment, response, pool, cache, handled, told>>

Miss(r) ==
  /\ pc[r] = "idle" /\ ~Known(r)
  /\ keyset' = [keyset EXCEPT ![r] = FALSE]
  /\ Call(r) /\ Goto(r, "asking")
  /\ UNCHANGED <<environment, response, pool, cache, handled, told>>

(* The end of a request that was let through: post_action posts the report *)
(* to the executor.  Without a permit it runs in the request: the fallback *)
(* policy caller_runs, or the immediate executor.                          *)
RunReport(r) == Call(r) /\ Goto(r, "reporting") /\ UNCHANGED <<failures, pool>>

CheckOut(w) == permits[w] > 0 /\ permits' = [permits EXCEPT ![w] = @ - 1]

(* schedule() does not look at what ngx.timer.at returns.                  *)
Schedule(r) ==
  /\ CheckOut(Home[r])
  /\ \/ /\ async' = async \cup {r}
        /\ Goto(r, "queued")
        /\ UNCHANGED <<failures, unreported, refused>>
     \/ /\ failures < MaxFailures
        /\ failures' = failures + 1
        /\ unreported' = unreported \cup {r}
        /\ refused' = [refused EXCEPT ![Home[r]] = @ + 1]
        /\ Goto(r, "done")
        /\ UNCHANGED async
  /\ UNCHANGED calls

PostAction(r) ==
  /\ pc[r] = "upstream"
  /\ \/ keyset[r] /\ permits[Home[r]] = 0 /\ RunReport(r)
     \/ keyset[r] /\ Schedule(r)
     \/ ~keyset[r] /\ Goto(r, "done") /\ UNCHANGED <<calls, failures, pool>>
  /\ UNCHANGED <<mode, threads, verdict, changes, keyset, response, cache, handled, told>>

(* The timer of a report fires.                                            *)
Fire(r) ==
  /\ pc[r] = "queued"
  /\ RunReport(r)
  /\ UNCHANGED <<mode, threads, verdict, changes, keyset, response, cache, handled, told>>

(* The report is over: worker() gives the permit back.                     *)
CheckIn(r) ==
  /\ permits' = [permits EXCEPT ![Home[r]] = IF r \in async THEN @ + 1 ELSE @]
  /\ async' = async \ {r}

(* The report raises: SafeTaskExecutor catches the error in a timer, and   *)
(* nginx the one in a request.                                             *)
Raise_NoPcall(r) ==   \* mutant: the worker of the pool ends with the task
  /\ pc[r] = "reporting" /\ failures < MaxFailures
  /\ failures' = failures + 1
  /\ async' = async \ {r}
  /\ unreported' = unreported \cup {r}
  /\ Goto(r, "done")
  /\ UNCHANGED <<mode, threads, verdict, changes, keyset, response, calls, cache, handled, told,
                 permits, refused>>

Raise(r) ==
  /\ pc[r] = "reporting" /\ failures < MaxFailures
  /\ failures' = failures + 1
  /\ CheckIn(r)
  /\ unreported' = unreported \cup {r}
  /\ Goto(r, "done")
  /\ UNCHANGED <<mode, threads, verdict, changes, keyset, response, calls, cache, handled, told,
                 refused>>

(* backend:authrep() returns a verdict ...                                 *)
Received(r, status) ==
  /\ pc[r] \in {"asking", "reporting"}
  /\ Goto(r, IF pc[r] = "asking" THEN "answered" ELSE "reported")
  /\ response' = [response EXCEPT ![r] = status]
  /\ UNCHANGED <<mode, threads, verdict, changes, keyset, calls, pool, cache, handled, told>>

Answer(r) == Received(r, verdict[KeyOf[r]]) /\ UNCHANGED failures

(* ... or a failure.                                                       *)
Fail(r) ==
  /\ failures < MaxFailures
  /\ failures' = failures + 1
  /\ \E status \in Unavailable : Received(r, status)

(* The cache handlers: what the shared dictionary holds for the key after  *)
(* one operation on it.  EnvStrict does not write a 200 twice: it looks    *)
(* for cached_key in the variables of the request, where post_action finds *)
(* it set, but a timer of the pool has no request to look in.              *)
EnvStrict(old, status, keyed) ==
  IF status # "ok" THEN "none" ELSE IF keyed THEN old ELSE "ok"
EnvResilient_Any(old, status) == status   \* mutant: caches any status
EnvResilient(old, status) == IF status = "5xx" THEN old ELSE status
Strict(old, status) == IF status = "ok" THEN "ok" ELSE "none"
Resilient(old, status) == IF status \in Valid THEN status ELSE old
Allow_Sets(old, status) == IF status \in Valid THEN status ELSE "ok"   \* mutant: set, not add
Allow(old, status) ==
  CASE status \in Valid -> status
    [] status \notin Valid /\ old = "none" -> "ok"
    [] OTHER -> old

Handler(old, status, keyed) ==
  CASE mode = "env strict"    -> EnvStrict(old, status, keyed)
    [] mode = "env resilient" -> EnvResilient(old, status)
    [] mode = "strict"        -> Strict(old, status)
    [] mode = "resilient"     -> Resilient(old, status)
    [] mode = "allow"         -> Allow(old, status)
    [] mode = "none"          -> "none"

(* handle_backend_response() calls the handler ...                         *)
CacheHandler(r, keyed) ==
  LET k == KeyOf[r] IN
  /\ cache' = [cache EXCEPT ![k] = Handler(@, response[r], keyed)]
  /\ handled' = [handled EXCEPT ![k] = response[r]]
  /\ told' = [told EXCEPT ![k] = IF response[r] \in Valid THEN response[r] ELSE @]

Decide(r) ==
  /\ pc[r] = "answered"
  /\ CacheHandler(r, FALSE)
  /\ Goto(r, CASE response[r] = "ok" -> "upstream"
               [] response[r] = "denied" -> "rejected"
               [] OTHER -> "unavailable")
  /\ UNCHANGED <<environment, keyset, response, calls, pool>>

(* ... and asks the cache if backend is unavailable.  Another worker may   *)
(* have changed it in between.                                             *)
Recheck(r) ==
  /\ pc[r] = "unavailable"
  /\ Goto(r, IF cache[KeyOf[r]] = "ok" THEN "upstream" ELSE "rejected")
  /\ UNCHANGED <<environment, keyset, response, calls, pool, cache, handled, told>>

(* After post_action the response is handled too, in the request or in the *)
(* timer, but nothing is decided.                                          *)
Reported_Ignored(r) ==   \* mutant: the response to a report is not handled
  /\ pc[r] = "reported"
  /\ CheckIn(r) /\ Goto(r, "done")
  /\ UNCHANGED <<environment, keyset, response, calls, unreported, refused, cache, handled, told>>

Reported(r) ==
  /\ pc[r] = "reported"
  /\ CacheHandler(r, r \notin async)
  /\ CheckIn(r) /\ Goto(r, "done")
  /\ UNCHANGED <<environment, keyset, response, calls, unreported, refused>>

(* The client closes the connection while its request is being authorized: *)
(* the thread is killed with the call of backend under way.                *)
Abort(r) ==
  /\ pc[r] = "asking"
  /\ Goto(r, "aborted")
  /\ UNCHANGED <<environment, keyset, response, calls, pool, cache, handled, told>>

(* The next request of the client.                                         *)
NextRequest(r) ==
  /\ pc[r] \in {"done", "rejected", "aborted"}
  /\ Goto(r, "idle")
  /\ keyset' = [keyset EXCEPT ![r] = FALSE]
  /\ response' = [response EXCEPT ![r] = "none"]
  /\ calls' = [calls EXCEPT ![r] = 0]
  /\ unreported' = unreported \ {r}
  /\ UNCHANGED <<environment, permits, async, refused, cache, handled, told>>

(* The key becomes authorized or denied at backend.                        *)
Change(k) ==
  /\ changes < MaxChanges
  /\ changes' = changes + 1
  /\ verdict' = [verdict EXCEPT ![k] = IF @ = "ok" THEN "denied" ELSE "ok"]
  /\ UNCHANGED <<mode, threads, failures, request, pool, cache, handled, told>>

Progress(r) ==
  \/ PostAction(r) \/ Fire(r) \/ Answer(r) \/ Fail(r) \/ Decide(r) \/ Recheck(r)
  \/ Reported(r) \/ Raise(r)

Next ==
  \/ \E r \in Request : Hit(r) \/ Miss(r) \/ Progress(r) \/ Abort(r) \/ NextRequest(r)
  \/ \E k \in Key : Change(k)

Spec == Init /\ [][Next]_vars

(* A request in a worker goes on, a timer fires, and a call of backend     *)
(* returns or times out.                                                   *)
FairSpec == Spec /\ \A r \in Request : WF_vars(Progress(r))

-----------------------------------------------------------------------------
Stages == {"idle", "asking", "answered", "unavailable", "upstream", "queued", "reporting",
           "reported", "rejected", "aborted", "done"}

TypeOK ==
  /\ mode \in Modes /\ threads \in Threads /\ verdict \in [Key -> Verdict]
  /\ cache \in [Key -> Valid \cup {"0", "none"}]
  /\ pc \in [Request -> Stages]
  /\ keyset \in [Request -> BOOLEAN]
  /\ response \in [Request -> Status \cup {"none"}]
  /\ calls \in [Request -> Nat]
  /\ permits \in [Worker -> Nat] /\ refused \in [Worker -> Nat]
  /\ async \subseteq Request /\ unreported \subseteq Request
  /\ handled \in [Key -> Status \cup {"none"}] /\ told \in [Key -> Valid \cup {"none"}]
  /\ failures \in 0..MaxFailures /\ changes \in 0..MaxChanges

(* A request that reaches the upstream is reported once, by authorize(),   *)
(* by post_action or by a timer, unless the timer could not be created or  *)
(* the report raised; and no request calls backend twice.                  *)
ReportedOnce == \A r \in Request :
  calls[r] <= 1 /\ (pc[r] = "done" => calls[r] = 1 \/ r \in unreported)

(* APICAST_REPORTING_THREADS: "how many asynchronous reports can be        *)
(* running simultaneously".  No permit of the pool is lost or given twice, *)
(* however reports end, except by the timers that were not created.        *)
PermitsKept == \A w \in Worker :
  permits[w] + Cardinality({r \in async : Home[r] = w}) + refused[w] = threads

(* Without backend a request is let through if the last status below 500   *)
(* that any worker handled was a 200 (resilient); or there was none yet    *)
(* (allow); or if another one was authorized since its own call failed     *)
(* (strict).                                                               *)
DownDecision == [][\A r \in Request :
  pc[r] = "unavailable" /\ pc'[r] # pc[r] =>
    LET k == KeyOf[r]
        admitted == pc'[r] = "upstream" IN
    CASE mode = "resilient" -> admitted <=> told[k] = "ok"
      [] mode = "allow"     -> admitted <=> told[k] \in {"ok", "none"}
      [] mode \in {"strict", "env strict"} -> admitted => handled[k] = "ok"
      [] mode = "none"      -> ~admitted
      [] OTHER              -> TRUE]_vars

(* APICAST_BACKEND_CACHE_HANDLER in the documentation of the parameters:   *)
(* resilient removes a cached application "only on getting authorization   *)
(* denied from backend".                                                   *)
ResilientKeeps == [][\A k \in Key :
  mode = "env resilient" /\ cache[k] = "ok" /\ cache'[k] # "ok" => handled'[k] = "denied"]_vars

(* A denial takes effect: requests for a key that stays denied are not let *)
(* through for ever, whatever responses were under way when it changed and *)
(* in whatever order they are handled.                                     *)
Admitted(k) == \E r \in Request : KeyOf[r] = k /\ pc[r] = "upstream"
DenialTakesEffect == \A k \in Key :
  <>[](verdict[k] = "denied") => <>[]~Admitted(k)
=============================================================================
