------------------------------- MODULE Upstream -------------------------------
(***************************************************************************)
(* The way of a request to its upstream: the servers from the resolver,    *)
(* then the tries that nginx makes, each with a balancer phase             *)
(* (executor.lua, balancer.lua) in which the round robin of the worker     *)
(* (resty/balancer/round_robin.lua) selects the peer, until one succeeds   *)
(* or none is left: one, the retries of the retry policy, and one for each *)
(* try that failed on a connection kept alive.  A balancer phase does not  *)
(* yield: it is one step, however many policies of the chain call the      *)
(* balancer in it.                                                         *)
(***************************************************************************)
EXTENDS Resolver

CONSTANTS
  Peers,      \* the number of peers in an answer
  Callers,    \* policies of the chain that call the balancer
  Retries,    \* values of upstream_retries; 0 as well if there is no retry policy
  MaxFree     \* bound: tries of a request that fail on a connection kept alive

ASSUME UpstreamAssumption ==
  /\ Peers \in [1..MaxVersion -> Nat \ {0}]
  /\ Callers \in Nat \ {0} /\ Retries \subseteq Nat /\ MaxFree \in Nat

VARIABLES
  retries,          \* context.upstream_retries
  balancerRetries,  \* context.balancer_retries, -1 for nil
  left,             \* the tries that nginx may make, with the one under way
  progress,         \* of the tries: "none", "trying", "done" or "failed"
  cursor,           \* of a name, 0 if the round robin does not know it
  tries,            \* history: peers tried for a request
  free,             \* history: those that nginx made up for
  round             \* history: the number of peers of a name when the last one was
                    \* picked, those picked since all had their turn, and a repetition

balancing == <<balancerRetries, left, progress, tries, free>>
vars      == <<resolverVars, retries, balancing, cursor, round>>

Init ==
  /\ ResolverInit
  /\ retries \in Retries
  /\ balancerRetries = [r \in Request |-> -1] /\ left = [r \in Request |-> 1]
  /\ progress = [r \in Request |-> "none"]
  /\ cursor = [n \in Name |-> 0] /\ tries = [r \in Request |-> 0]
  /\ free = [r \in Request |-> 0]
  /\ round = [n \in Name |-> [size |-> 0, picked |-> {}, repeated |-> FALSE]]

Resolve(r) ==
  /\ GetServers(r) \/ QueryEnds(r)
  /\ UNCHANGED <<retries, balancing, cursor, round>>

-----------------------------------------------------------------------------
(* round_robin.call(): the index that is picked, and the next cursor.      *)
PickFrom_Unclipped(n, size) ==   \* mutant: the answer has become shorter
  IF cursor[n] = 0 THEN 1..size ELSE {cursor[n]}
PickFrom(n, size) ==
  {IF c > size THEN size ELSE c : c \in IF cursor[n] = 0 THEN 1..size ELSE {cursor[n]}}
After(i, size) == (i % size) + 1

(* What the peers of a name that were picked tell of the round.            *)
Noted(n, i, size) ==
  LET picked == IF round[n].size = size /\ Cardinality(round[n].picked) < size
                THEN round[n].picked ELSE {}
  IN [size |-> size, picked |-> picked \cup {i}, repeated |-> i \in picked]

(* peer_set_in_current_balancer_try when the c-th policy of the chain      *)
(* calls the balancer: the executor resets it before the phase, and the    *)
(* first call sets it, at which get_upstream() ends the others.            *)
PeerSet_Ignored(c) == FALSE   \* mutant: the flag is not looked at
PeerSet(c) == c > 1
Picks == Cardinality({c \in 1..Callers : ~PeerSet(c)})

(* set_more_tries_if_needed().                                             *)
MoreTries_OneTooMany(run) == run <= retries   \* mutant
MoreTries(run) == run < retries

(* balancer() of the executor, then of the chain.                          *)
BalancerPhase(r, remaining) ==
  LET n    == NameOf[r]
      size == Peers[servers[r]]
      run  == balancerRetries[r] + 1
  IN
  /\ balancerRetries' = [balancerRetries EXCEPT ![r] = run]
  /\ left' = [left EXCEPT ![r] = IF MoreTries(run) THEN remaining + 1 ELSE remaining]
  /\ \E i \in PickFrom(n, size) :
       LET last == IF Picks = 1 THEN i ELSE ((i + Picks - 2) % size) + 1 IN
       /\ cursor' = [cursor EXCEPT ![n] = After(last, size)]
       /\ round' = [round EXCEPT ![n] = Noted(n, last, size)]
  /\ tries' = [tries EXCEPT ![r] = @ + 1]
  /\ progress' = [progress EXCEPT ![r] = "trying"]

FirstTry(r) ==
  /\ stage[r] = "resolved" /\ progress[r] = "none"
  /\ BalancerPhase(r, left[r])
  /\ UNCHANGED <<resolverVars, retries, free>>

(* The peer does not answer: the next try, if nginx may make one.          *)
TryAgain(r) ==
  /\ progress[r] = "trying" /\ left[r] > 1
  /\ BalancerPhase(r, left[r] - 1)
  /\ UNCHANGED <<resolverVars, retries, free>>

(* A connection kept alive turns out to be closed: nginx does not count    *)
(* that try, but the executor counts the balancer phase of the next one.   *)
TryAfresh(r) ==
  /\ progress[r] = "trying" /\ free[r] < MaxFree
  /\ free' = [free EXCEPT ![r] = @ + 1]
  /\ BalancerPhase(r, left[r])
  /\ UNCHANGED <<resolverVars, retries>>

GiveUp(r) ==
  /\ progress[r] = "trying" /\ left[r] = 1
  /\ progress' = [progress EXCEPT ![r] = "failed"]
  /\ UNCHANGED <<resolverVars, retries, balancerRetries, left, tries, free, cursor, round>>

(* The response, or a failure that is none of the retry cases of nginx,    *)
(* goes to the client.                                                     *)
Respond(r) ==
  /\ progress[r] = "trying"
  /\ progress' = [progress EXCEPT ![r] = "done"]
  /\ UNCHANGED <<resolverVars, retries, balancerRetries, left, tries, free, cursor, round>>

(* The next request of a client, with a context of its own.                *)
NextRequest(r) ==
  /\ progress[r] \in {"done", "failed"} \/ stage[r] = "failed"
  /\ stage' = [stage EXCEPT ![r] = "idle"]
  /\ servers' = [servers EXCEPT ![r] = 0]
  /\ balancerRetries' = [balancerRetries EXCEPT ![r] = -1]
  /\ left' = [left EXCEPT ![r] = 1]
  /\ progress' = [progress EXCEPT ![r] = "none"]
  /\ tries' = [tries EXCEPT ![r] = 0] /\ free' = [free EXCEPT ![r] = 0]
  /\ UNCHANGED <<cached, holder, began, bounds, orphaned, retries, cursor, round>>

Next ==
  \/ \E r \in Request : \/ Resolve(r) \/ FirstTry(r) \/ TryAgain(r) \/ TryAfresh(r)
                        \/ GiveUp(r) \/ Respond(r) \/ NextRequest(r)
  \/ Environment /\ UNCHANGED <<retries, balancing, cursor, round>>

Spec == Init /\ [][Next]_vars

(* A query of the DNS is answered or times out.                            *)
QueryReturns(r) == QueryEnds(r) /\ UNCHANGED <<retries, balancing, cursor, round>>
FairSpec == Spec /\ \A r \in Request : WF_vars(QueryReturns(r))

-----------------------------------------------------------------------------
TypeOK ==
  /\ dns \in [Name -> 1..MaxVersion] /\ entry \in [Name -> 0..MaxVersion]
  /\ age \in [Name -> {"fresh", "touched", "stale"}]
  /\ holder \in [Name -> Request \cup {None}]
  /\ stage \in [Request -> {"idle", "query", "resolved", "failed"}]
  /\ servers \in [Request -> 0..MaxVersion] /\ began \in [Request -> 0..MaxVersion]
  /\ failures \in 0..MaxFailures /\ kills \in 0..MaxKills
  /\ orphaned \subseteq Name
  /\ retries \in Retries /\ left \in [Request -> Nat] /\ free \in [Request -> 0..MaxFree]
  /\ balancerRetries \in [Request -> Int] /\ tries \in [Request -> Nat]
  /\ progress \in [Request -> {"none", "trying", "done", "failed"}]
  /\ cursor \in [Name -> Nat]
  /\ round \in [Name -> [size : Nat, picked : SUBSET Nat, repeated : BOOLEAN]]
  /\ \A n \in Name : round[n].picked \subseteq 1..round[n].size

(* The retry policy, "Number of retries": a request makes no more tries,   *)
(* and the peers are given up only after the first try and all retries;    *)
(* but each try on a connection kept alive that turned out to be closed is *)
(* made up for by another one, neither on account of the retries nor lost. *)
TriesSpent == \A r \in Request :
  /\ tries[r] <= retries + 1 + free[r]
  /\ progress[r] = "failed" => tries[r] = retries + 1 + free[r]

(* No peer of a name gets a second try before every other one has had its  *)
(* turn, whatever requests and retries take the turns, as long as the      *)
(* answers have the same number of peers.                                  *)
Balanced == \A n \in Name : ~round[n].repeated
=============================================================================
