------------------------------ MODULE RateLimit ------------------------------
(***************************************************************************)
(* The rate limit policy (policy/rate_limit/rate_limit.lua) of requests in *)
(* several workers over the counters of one dictionary: the shared memory  *)
(* of a gateway, or redis.  access() asks the limiters of the policy with  *)
(* a dry run, all but the last, then commits the last one and the others   *)
(* in turn; a refusal rolls back what was committed.  The connection       *)
(* limiters are left in a timer that the log phase creates.                *)
(* Keys of windows that are over do not expire here: a request is in       *)
(* access() for less than the length of a window.                          *)
(***************************************************************************)
EXTENDS Integers, Sequences, FiniteSets

CONSTANTS
  Request,      \* requests alive at a time
  Limiter,
  Kind,         \* "connections", "leaky_bucket" or "fixed_window"
  Limit,          \* conn + burst, or count
  Chain,        \* the rate limit policies of the chain: for each, the sequences of
                \* limiters that their conditions may select for a request
  Handlings,    \* error_handling, "exit" or "log", of each type of error
  Redis,        \* the counters are in redis, and an operation on them may fail
  MaxWindow,    \* bound: windows of time
  MaxFailures   \* bound: failures of redis, of timers and of workers

(* The limiters of connections come first, and their keys differ.          *)
ConnectionsFirst(s, n) ==
  n \in 0..Len(s) /\ \A i \in DOMAIN s : Kind[s[i]] = "connections" <=> i <= n
ErrorType   == {"limits_exceeded", "configuration_issue"}
Distinct(s) == \A i, j \in DOMAIN s : s[i] = s[j] => i = j

ASSUME RateLimitAssumption ==
  /\ IsFiniteSet(Request)
  /\ Kind \in [Limiter -> {"connections", "leaky_bucket", "fixed_window"}]
  /\ Limit \in [Limiter -> Nat]
  /\ Chain \in Seq(SUBSET Seq(Limiter)) /\ Chain # <<>>
  /\ \A p \in DOMAIN Chain : \A s \in Chain[p] :
       Distinct(s) /\ \E n \in 0..Len(s) : ConnectionsFirst(s, n)
  /\ Handlings \subseteq [ErrorType -> {"exit", "log"}] /\ Redis \in BOOLEAN
  /\ MaxWindow \in Nat /\ MaxFailures \in Nat

Policy  == DOMAIN Chain
Counter == Limiter \X (0..MaxWindow)

VARIABLES
  handling,   \* error_settings: one table for all policies, init_error_settings()
              \* overwrites the defaults
  counter,    \* the dictionary
  window,     \* the window that the clock is in
  pc,
  policy,     \* the policy whose access() runs
  keys,       \* its limiters and their keys
  step,       \* of combine()
  undo,       \* keys that combine() has yet to uncommit
  slot,       \* ngx.ctx.limiters and ngx.ctx.keys, one for all policies
  timer,      \* what the checkin of each policy's log() has yet to leave
  failures,
  lost,       \* history: units of a counter that a failure left behind
  admitted    \* history: requests let in by the window they came in

phase   == <<pc, policy, keys, step>>
request == <<phase, undo, slot, timer>>
vars    == <<handling, counter, window, request, failures, lost, admitted>>

(* build_limiters_and_keys(): the key of a fixed window names the window.  *)
KeyAt_End(l, w) == <<l, w + 1>>   \* mutant: named by its end
KeyAt(l, w) == <<l, IF Kind[l] = "fixed_window" THEN w ELSE 0>>
Counted(k)  == Kind[k[1]] # "leaky_bucket"
Unit(k)     == IF Counted(k) THEN 1 ELSE 0
Elems(s)    == {s[i] : i \in DOMAIN s}

Idle(r) == pc[r] = "over" /\ \A p \in Policy : timer[r][p] = <<>>

Init ==
  /\ handling \in Handlings
  /\ counter = [k \in Counter |-> 0] /\ window = 0
  /\ pc = [r \in Request |-> "over"] /\ policy = [r \in Request |-> 1]
  /\ keys = [r \in Request |-> <<>>] /\ step = [r \in Request |-> 1]
  /\ undo = [r \in Request |-> <<>>] /\ slot = [r \in Request |-> <<>>]
  /\ timer = [r \in Request |-> [p \in Policy |-> <<>>]]
  /\ failures = 0
  /\ lost = [k \in Counter |-> 0] /\ admitted = [k \in Counter |-> 0]

Goto(r, label) == pc' = [pc EXCEPT ![r] = label]

Failure == failures < MaxFailures /\ failures' = failures + 1
Lose(S) == lost' = [k \in Counter |-> lost[k] + IF k \in S THEN 1 ELSE 0]
Add(k, n)  == counter' = [counter EXCEPT ![k] = @ + n * Unit(k)]

(* The request is in no access(): its local variables are gone.            *)
Exit(r, label) ==
  /\ Goto(r, label)
  /\ policy' = [policy EXCEPT ![r] = 1]
  /\ keys' = [keys EXCEPT ![r] = <<>>]
  /\ step' = [step EXCEPT ![r] = 1]

(* access() of policy p, or the upstream after the last one.               *)
Enter(r, p) ==
  \/ p \notin Policy /\ Exit(r, "proxied")
  \/ /\ p \in Policy
     /\ Goto(r, "access")
     /\ policy' = [policy EXCEPT ![r] = p]
     /\ keys' = [keys EXCEPT ![r] = <<>>]
     /\ step' = [step EXCEPT ![r] = 1]

Arrive(r) ==
  /\ Idle(r)
  /\ Enter(r, 1)
  /\ UNCHANGED <<handling, counter, window, undo, slot, timer, failures, lost, admitted>>

(* error(): ngx.exit() ends the request, and "log" lets it go on.          *)
Refuse(r, type) ==
  \/ handling[type] = "exit" /\ Exit(r, "log")
  \/ handling[type] = "log"  /\ Enter(r, policy[r] + 1)

(* redis_shdict.new(), if the policy has a redis: no connection ...        *)
ConnectFails(r) ==
  /\ pc[r] = "access" /\ Redis /\ Failure
  /\ Refuse(r, "configuration_issue")
  /\ UNCHANGED <<handling, counter, window, undo, slot, timer, lost, admitted>>

(* ... or one, and then the limiters whose condition holds for the request *)
(* are selected with their keys.                                           *)
Select(r) ==
  /\ pc[r] = "access"
  /\ Goto(r, "combine")
  /\ \E selected \in Chain[policy[r]] : keys' = [keys EXCEPT ![r] =
       [i \in DOMAIN selected |-> KeyAt(selected[i], window)]]
  /\ UNCHANGED <<handling, counter, window, policy, step, undo, slot, timer, failures, lost, admitted>>

-----------------------------------------------------------------------------
(* limit_traffic.combine(): n - 1 dry runs, the commit of the last limiter *)
(* and the commits of the others.                                          *)
N(r)    == Len(keys[r])
Key(r)  == keys[r][IF step[r] <= N(r) THEN step[r] ELSE step[r] - N(r)]
DryRun(r)     == pc[r] = "combine" /\ step[r] < N(r)
Committing(r) == pc[r] = "combine" /\ step[r] >= N(r) /\ step[r] < 2 * N(r)

(* What a refusal at this step uncommits: the limiters before, in their    *)
(* order, and the last one.                                                *)
SomeCommitted(r) == step[r] \in N(r) + 1 .. 2 * N(r)
Rollback_NotLast(r) ==   \* mutant: the limiter committed first is forgotten
  IF ~SomeCommitted(r) THEN <<>> ELSE SubSeq(keys[r], 1, step[r] - N(r) - 1)
Rollback_Own(r) ==       \* mutant: the limiter that took its unit back is uncommitted
  IF ~SomeCommitted(r) THEN <<>>
  ELSE Append(SubSeq(keys[r], 1, step[r] - N(r)), keys[r][N(r)])
Rollback(r) ==
  IF ~SomeCommitted(r) THEN <<>>
  ELSE Append(SubSeq(keys[r], 1, step[r] - N(r) - 1), keys[r][N(r)])

NextStep(r) ==
  /\ step' = [step EXCEPT ![r] = @ + 1]
  /\ UNCHANGED <<pc, policy, keys>>

(* incoming(key, false): a counter that cannot be read counts as zero.     *)
Ask(r) ==
  /\ DryRun(r)
  /\ LET k == Key(r)
         full == counter[k] >= Limit[k[1]]
     IN \/ (~Counted(k) \/ ~full) /\ NextStep(r) /\ UNCHANGED failures
        \/ (~Counted(k) \/ full) /\ Refuse(r, "limits_exceeded") /\ UNCHANGED failures
        \/ full /\ Redis /\ Failure /\ NextStep(r)
  /\ UNCHANGED <<handling, counter, window, undo, slot, timer, lost, admitted>>

(* incoming(key, true): the counter is incremented, then looked at.        *)
Fits_Always(r) == r \in Request   \* mutant: only the dry run looks at the limit
Fits(r) == counter[Key(r)] < Limit[Key(r)[1]]

Commit(r) ==
  /\ Committing(r)
  /\ Counted(Key(r)) => Fits(r)
  /\ Add(Key(r), 1)
  /\ NextStep(r)
  /\ UNCHANGED <<handling, window, undo, slot, timer, failures, lost, admitted>>

CommitOver(r) ==
  /\ Committing(r)
  /\ Counted(Key(r)) => ~Fits(r)
  /\ Add(Key(r), 1)
  /\ Goto(r, "takeback")
  /\ UNCHANGED <<handling, window, policy, keys, step, undo, slot, timer, failures, lost, admitted>>

(* redis fails before or after it has incremented the counter.  While the  *)
(* limiters are uncommitted, pc[r] is the error that is handled then.      *)
CommitFails(r) ==
  /\ Committing(r) /\ Counted(Key(r)) /\ Redis /\ Failure
  /\ \/ UNCHANGED <<counter, lost>>
     \/ Add(Key(r), 1) /\ Lose({Key(r)})
  /\ undo' = [undo EXCEPT ![r] = Rollback(r)]
  /\ Goto(r, "configuration_issue")
  /\ UNCHANGED <<handling, window, policy, keys, step, slot, timer, admitted>>

(* The increment that went over the limit is taken back, and so are those  *)
(* of the other limiters, whether or not that works.                       *)
TakeBack(r) ==
  /\ pc[r] = "takeback"
  /\ \/ Add(Key(r), -1) /\ Goto(r, "limits_exceeded") /\ UNCHANGED <<failures, lost>>
     \/ /\ Counted(Key(r)) /\ Redis /\ Failure /\ Lose({Key(r)}) /\ UNCHANGED counter
        /\ Goto(r, "configuration_issue")
  /\ undo' = [undo EXCEPT ![r] = Rollback(r)]
  /\ UNCHANGED <<handling, window, policy, keys, step, slot, timer, admitted>>

Uncommit(r) ==
  /\ pc[r] \in ErrorType /\ undo[r] # <<>>
  /\ LET k == Head(undo[r]) IN
     \/ Add(k, -1) /\ UNCHANGED <<failures, lost>>
     \/ Counted(k) /\ Redis /\ Failure /\ Lose({k}) /\ UNCHANGED counter
  /\ undo' = [undo EXCEPT ![r] = Tail(@)]
  /\ UNCHANGED <<handling, window, phase, slot, timer, admitted>>

RolledBack(r) ==
  /\ pc[r] \in ErrorType /\ undo[r] = <<>>
  /\ Refuse(r, pc[r])
  /\ UNCHANGED <<handling, counter, window, undo, slot, timer, failures, lost, admitted>>

(* All limiters let the request in.  The slot is written only if there are *)
(* connections to leave; then the request may sleep for a delay.           *)
Connections(s) ==
  LET n == CHOOSE n \in 0..Len(s) :
             \A i \in DOMAIN s : Kind[s[i][1]] = "connections" <=> i <= n
  IN SubSeq(s, 1, n)

Admit(r) ==
  /\ pc[r] = "combine" /\ (step[r] = 2 * N(r) \/ N(r) = 0)
  /\ slot' = [slot EXCEPT ![r] =
                IF Connections(keys[r]) = <<>> THEN @ ELSE Connections(keys[r])]
  /\ admitted' = [k \in Counter |-> admitted[k] +
       IF k \in Elems(keys[r]) /\ Kind[k[1]] = "fixed_window" THEN 1 ELSE 0]
  /\ Enter(r, policy[r] + 1)
  /\ UNCHANGED <<handling, counter, window, undo, timer, failures, lost>>

-----------------------------------------------------------------------------
(* The end of a request: the response, or the client closes the connection *)
(* while the request waits for its delay or for the upstream.              *)
Finish(r) ==
  /\ pc[r] = "proxied"
  /\ Goto(r, "log")
  /\ UNCHANGED <<handling, counter, window, policy, keys, step, undo, slot, timer, failures, lost, admitted>>

(* log() of every policy creates a timer for what it finds in the slot;    *)
(* ngx.timer.at may refuse.                                                *)
Log(r) ==
  /\ pc[r] = "log"
  /\ \/ /\ timer' = [timer EXCEPT ![r] = [p \in Policy |-> slot[r]]]
        /\ UNCHANGED <<failures, lost>>
     \/ /\ slot[r] # <<>> /\ Failure
        /\ \E p \in Policy : timer' = [timer EXCEPT ![r] =
             [q \in Policy |-> IF q = p THEN <<>> ELSE slot[r]]]
        /\ IF Cardinality(Policy) = 1 THEN Lose(Elems(slot[r])) ELSE UNCHANGED lost
  /\ slot' = [slot EXCEPT ![r] = <<>>]
  /\ Goto(r, "over")
  /\ UNCHANGED <<handling, counter, window, policy, keys, step, undo, admitted>>

(* checkin(): the limiters are left one by one ...                         *)
Leave(r, p) ==
  /\ timer[r][p] # <<>>
  /\ Add(Head(timer[r][p]), -1)
  /\ timer' = [timer EXCEPT ![r][p] = Tail(@)]
  /\ UNCHANGED <<handling, window, phase, undo, slot, failures, lost, admitted>>

(* ... until redis fails: nobody leaves the rest.                          *)
LeaveFails(r, p) ==
  /\ timer[r][p] # <<>> /\ Redis /\ Failure
  /\ \/ Lose(Elems(timer[r][p])) /\ UNCHANGED counter
     \/ Lose(Elems(Tail(timer[r][p]))) /\ Add(Head(timer[r][p]), -1)
  /\ timer' = [timer EXCEPT ![r][p] = <<>>]
  /\ UNCHANGED <<handling, window, phase, undo, slot, admitted>>

(* The units of the dictionary that a request is yet to give back.         *)
Committed(r) ==
  CASE pc[r] = "combine"    -> Elems(Rollback(r))
    [] pc[r] = "takeback"   -> Elems(Rollback(r)) \cup {Key(r)}
    [] pc[r] \in ErrorType -> Elems(undo[r])
    [] OTHER                -> {}
Holds(r) == Committed(r) \cup Elems(slot[r]) \cup UNION {Elems(timer[r][p]) : p \in Policy}

(* The worker dies, or the client closes the connection in the middle of   *)
(* access(), which yields only with redis: then the log phase still runs.  *)
Crash(r) ==
  /\ ~Idle(r) /\ Failure
  /\ Lose(Holds(r))
  /\ Exit(r, "over")
  /\ undo' = [undo EXCEPT ![r] = <<>>] /\ slot' = [slot EXCEPT ![r] = <<>>]
  /\ timer' = [timer EXCEPT ![r] = [p \in Policy |-> <<>>]]
  /\ UNCHANGED <<handling, counter, window, admitted>>

Abort(r) ==
  /\ pc[r] \in {"access", "combine", "takeback"} \cup ErrorType /\ Redis /\ Failure
  /\ Lose(Committed(r))
  /\ Exit(r, "log")
  /\ undo' = [undo EXCEPT ![r] = <<>>]
  /\ UNCHANGED <<handling, counter, window, slot, timer, admitted>>

Tick ==
  /\ window < MaxWindow
  /\ window' = window + 1
  /\ UNCHANGED <<handling, counter, request, failures, lost, admitted>>

Next ==
  \/ \E r \in Request :
       \/ Arrive(r) \/ ConnectFails(r) \/ Select(r) \/ Ask(r)
       \/ Commit(r) \/ CommitOver(r) \/ CommitFails(r)
       \/ TakeBack(r) \/ Uncommit(r) \/ RolledBack(r) \/ Admit(r)
       \/ Finish(r) \/ Log(r) \/ Crash(r) \/ Abort(r)
       \/ \E p \in Policy : Leave(r, p) \/ LeaveFails(r, p)
  \/ Tick

Spec == Init /\ [][Next]_vars

-----------------------------------------------------------------------------
TypeOK ==
  /\ handling \in Handlings
  /\ counter \in [Counter -> Int] /\ window \in 0..MaxWindow
  /\ pc \in [Request -> {"over", "access", "combine", "takeback", "proxied", "log"} \cup ErrorType]
  /\ policy \in [Request -> Policy] /\ step \in [Request -> Nat \ {0}]
  /\ keys \in [Request -> Seq(Counter)] /\ undo \in [Request -> Seq(Counter)]
  /\ slot \in [Request -> Seq(Counter)]
  /\ timer \in [Request -> [Policy -> Seq(Counter)]]
  /\ failures \in 0..MaxFailures
  /\ lost \in [Counter -> Nat] /\ admitted \in [Counter -> Nat]

(* Every unit of a counter is held by a request that will give it back,    *)
(* was used up by a request of the window, or was left behind by a counted *)
(* failure: neither a rollback nor two workers at once leak one, or give   *)
(* one back twice.                                                         *)
Accounting == \A k \in Counter : Counted(k) =>
  counter[k] = Cardinality({r \in Request : k \in Holds(r)}) + admitted[k] + lost[k]

(* A connection limiter never lets more than conn + burst requests through *)
(* to the upstream at a time ...                                           *)
ConnLimit == \A k \in Counter : Kind[k[1]] = "connections" =>
  Cardinality({r \in Request : pc[r] = "proxied" /\ k \in Elems(slot[r])}) <= Limit[k[1]]

(* ... and a fixed window lets in no more than count, although requests of *)
(* several workers ask before any of them commits.                         *)
WindowLimit == \A k \in Counter : Kind[k[1]] = "fixed_window" => admitted[k] <= Limit[k[1]]

-----------------------------------------------------------------------------
(* For whoever only sees who is let in, leaves or dies, the counters, dry  *)
(* runs and rollbacks of several workers amount to one look at the limits. *)
Taken(r) == Elems(slot[r]) \cup UNION {Elems(timer[r][p]) : p \in Policy}

Admissions == INSTANCE Admission WITH
  Resource <- Counter, Capacity <- [k \in Counter |-> Limit[k[1]]],
  places <- [r \in Request |-> Taken(r)], used <- admitted

AdmissionSpec == Admissions!Spec
=============================================================================
