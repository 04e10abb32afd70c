---------------------------- MODULE UpstreamProofs ----------------------------
(***************************************************************************)
(* Proofs about the way to the upstream: the semaphore of a name and what  *)
(* is served while another request has it, and the tries of a request.     *)
(***************************************************************************)
EXTENDS Upstream, FiniteSetTheorems, TLAPS

(* TypeOK in two parts, of the resolver and of the balancer.               *)
ResolverOK ==
  /\ dns \in [Name -> 1..MaxVersion] /\ entry \in [Name -> 0..MaxVersion]
  /\ age \in [Name -> {"fresh", "touched", "stale"}]
  /\ holder \in [Name -> Request \cup {None}]
  /\ stage \in [Request -> {"idle", "query", "resolved", "failed"}]
  /\ servers \in [Request -> 0..MaxVersion] /\ began \in [Request -> 0..MaxVersion]
  /\ failures \in 0..MaxFailures /\ kills \in 0..MaxKills
  /\ orphaned \subseteq Name
BalancerOK ==
  /\ retries \in Retries /\ left \in [Request -> Nat] /\ free \in [Request -> 0..MaxFree]
  /\ balancerRetries \in [Request -> Int] /\ tries \in [Request -> Nat]
  /\ progress \in [Request -> {"none", "trying", "done", "failed"}]
  /\ cursor \in [Name -> Nat]
  /\ round \in [Name -> [size : Nat, picked : SUBSET Nat, repeated : BOOLEAN]]
  /\ \A n \in Name : round[n].picked \subseteq 1..round[n].size

(* Who has a semaphore is in its query, unless it was killed there; and a  *)
(* query that began with an answer in the cache has the semaphore.         *)
HolderQueries == \A n \in Name : holder[n] # None /\ n \notin orphaned =>
  NameOf[holder[n]] = n /\ stage[holder[n]] = "query"
RefreshHolds == \A r \in Request :
  /\ stage[r] # "query" => began[r] = 0
  /\ began[r] # 0 => holder[NameOf[r]] = r /\ NameOf[r] \notin orphaned
OrphansHeld == \A n \in orphaned : holder[n] # None

(* What was resolved is an answer; the tries that nginx may make are those *)
(* that were granted, the first one, the retries asked for so far and the  *)
(* free ones, less those that were made.                                   *)
Resolved == \A r \in Request :
  /\ stage[r] = "resolved" => servers[r] # 0
  /\ progress[r] # "none" => stage[r] = "resolved"
  /\ stage[r] # "resolved" => tries[r] = 0 /\ balancerRetries[r] = -1
Asked(r) == IF tries[r] < retries THEN tries[r] ELSE retries
Tried(r) ==
  /\ tries[r] = balancerRetries[r] + 1
  /\ progress[r] = "none" => tries[r] = 0 /\ left[r] = 1 /\ free[r] = 0
  /\ progress[r] # "none" => /\ tries[r] > 0 /\ left[r] >= 1
                             /\ left[r] + tries[r] = 2 + Asked(r) + free[r]
  /\ progress[r] = "failed" => left[r] = 1

Proxying == /\ TypeOK /\ HolderQueries /\ RefreshHolds /\ OrphansHeld
            /\ Resolved /\ \A r \in Request : Tried(r)

-----------------------------------------------------------------------------
(* TypeOK and its parts, before and after a step.                          *)
LEMMA TypeOKParts == (TypeOK <=> ResolverOK /\ BalancerOK) /\ (TypeOK' <=> ResolverOK' /\ BalancerOK')
<1>1. TypeOK <=> ResolverOK /\ BalancerOK
  BY DEF TypeOK, ResolverOK, BalancerOK
<1>2. TypeOK' <=> ResolverOK' /\ BalancerOK'
  BY DEF TypeOK, ResolverOK, BalancerOK
<1> QED BY <1>1, <1>2

(* At first nothing is cached, asked or tried.                             *)
LEMMA ProxyingInit == Init => Proxying
<1> SUFFICES ASSUME Init PROVE Proxying OBVIOUS
<1>1. TypeOK
  BY ResolverAssumption, UpstreamAssumption DEF Init, ResolverInit, TypeOK
<1>2. retries \in Nat
  BY UpstreamAssumption DEF Init
<1> QED BY <1>1, <1>2, ResolverAssumption DEF Init, ResolverInit, Proxying, HolderQueries,
           RefreshHolds, OrphansHeld, Resolved, Tried, Asked, Asked

(* The lookup of a name.                                                   *)
LEMMA ProxyingLookup == ASSUME Proxying, NEW r \in Request, Resolve(r) PROVE Proxying'
<1> TypeOK /\ NameOf[r] \in Name /\ retries \in Nat /\ None \notin Request
  BY ResolverAssumption, UpstreamAssumption DEF Proxying, TypeOK
<1> DEFINE n == NameOf[r]
<1>0. UNCHANGED <<retries, balancerRetries, left, progress, tries, free, cursor, round>>
  BY DEF Resolve, balancing
<1>a. BalancerOK'
  BY <1>0, TypeOKParts DEF BalancerOK
<1>b. ResolverOK /\ 0 \in 0..MaxVersion /\ 1..MaxVersion \subseteq 0..MaxVersion
  BY ResolverAssumption, TypeOKParts
<1>1. CASE Found(r)
  <2>1. /\ stage[r] = "idle" /\ entry[n] # 0
        /\ stage' = [stage EXCEPT ![r] = "resolved"]
        /\ servers' = [servers EXCEPT ![r] = entry[n]]
        /\ began' = [began EXCEPT ![r] = 0]
        /\ UNCHANGED <<dns, entry, age, holder, failures, kills, orphaned>>
    BY <1>1 DEF Found, Cached, Return, cached, bounds
  <2>2. TypeOK'
    <3>1. ResolverOK'
      BY <1>b, <2>1 DEF ResolverOK
    <3> QED BY <1>a, <3>1, TypeOKParts
  <2> QED BY <1>0, <2>1, <2>2 DEF Proxying, TypeOK, HolderQueries, RefreshHolds, OrphansHeld,
             Resolved, Tried, Asked
<1>2. CASE LookUp(r)
  <2>1. /\ stage[r] = "idle" /\ holder[n] = None
        /\ stage' = [stage EXCEPT ![r] = "query"]
        /\ holder' = [holder EXCEPT ![n] = r]
        /\ began' = [began EXCEPT ![r] = entry[n]]
        /\ UNCHANGED <<dns, entry, age, servers, failures, kills, orphaned>>
    BY <1>2 DEF LookUp, Query, cached, bounds
  <2>2. TypeOK'
    <3>1. ResolverOK'
      BY <1>b, <2>1 DEF ResolverOK
    <3> QED BY <1>a, <3>1, TypeOKParts
  <2>3. n \notin orphaned
    BY <2>1 DEF Proxying, OrphansHeld
  <2>4. HolderQueries' /\ OrphansHeld'
    BY <2>1, <2>3 DEF Proxying, TypeOK, HolderQueries, OrphansHeld
  <2>5. RefreshHolds'
    <3> SUFFICES ASSUME NEW q \in Request
                 PROVE  /\ stage'[q] # "query" => began'[q] = 0
                        /\ began'[q] # 0 => holder'[NameOf[q]] = q /\ NameOf[q] \notin orphaned
      BY <2>1 DEF RefreshHolds
    <3>1. CASE q = r
      BY <2>1, <2>3, <3>1 DEF TypeOK
    <3>2. CASE q # r
      BY <2>1, <3>2 DEF Proxying, TypeOK, RefreshHolds
    <3> QED BY <3>1, <3>2
  <2>6. Resolved' /\ \A q \in Request : Tried(q)'
    BY <1>0, <2>1 DEF Proxying, TypeOK, Resolved, Tried, Asked
  <2> QED BY <2>2, <2>4, <2>5, <2>6 DEF Proxying
<1>3. CASE LookUpStale(r)
  <2>1. /\ stage[r] = "idle"
        /\ UNCHANGED <<dns, entry, holder, failures, kills, orphaned>>
        /\ began' = [began EXCEPT ![r] = 0]
        /\ \/ /\ entry[n] # 0
              /\ age' = [age EXCEPT ![n] = "touched"]
              /\ stage' = [stage EXCEPT ![r] = "resolved"]
              /\ servers' = [servers EXCEPT ![r] = entry[n]]
           \/ stage' = [stage EXCEPT ![r] = "query"] /\ UNCHANGED <<age, servers>>
    BY <1>3 DEF LookUpStale, Query, Return, bounds
  <2>2. TypeOK'
    <3>1. ResolverOK'
      BY <1>b, <2>1 DEF ResolverOK
    <3> QED BY <1>a, <3>1, TypeOKParts
  <2> QED BY <1>0, <2>1, <2>2 DEF Proxying, TypeOK, HolderQueries, RefreshHolds, OrphansHeld,
             Resolved, Tried, Asked
<1>4. CASE Answer(r) \/ QueryFails(r)
  <2>1. /\ stage[r] = "query"
        /\ \/ /\ stage' = [stage EXCEPT ![r] = "resolved"]
              /\ servers' = [servers EXCEPT ![r] = dns[n]]
           \/ /\ stage' = [stage EXCEPT ![r] = "failed"]
              /\ servers' = [servers EXCEPT ![r] = 0]
        /\ began' = [began EXCEPT ![r] = 0]
        /\ holder' = [m \in Name |-> IF holder[m] = r /\ m \notin orphaned THEN None ELSE holder[m]]
        /\ entry' \in [Name -> 0..MaxVersion] /\ age' \in [Name -> {"fresh", "touched", "stale"}]
        /\ failures' \in 0..MaxFailures
        /\ UNCHANGED <<dns, kills, orphaned>>
    <3>1. CASE Answer(r)
      BY <1>b, <3>1 DEF Answer, Release, Return, bounds, ResolverOK
    <3>2. CASE QueryFails(r)
      BY <1>b, <3>2, ResolverAssumption DEF QueryFails, Release, Return, cached, ResolverOK
    <3> QED BY <1>4, <3>1, <3>2
  <2>2. TypeOK'
    <3>1. ResolverOK'
      BY <1>b, <2>1 DEF ResolverOK
    <3> QED BY <1>a, <3>1, TypeOKParts
  <2>3. HolderQueries' /\ OrphansHeld'
    BY <2>1 DEF Proxying, TypeOK, HolderQueries, OrphansHeld
  <2>4. RefreshHolds'
    BY <2>1, ResolverAssumption DEF Proxying, TypeOK, RefreshHolds
  <2>5. Resolved' /\ \A q \in Request : Tried(q)'
    BY <1>0, <2>1 DEF Proxying, TypeOK, Resolved, Tried, Asked
  <2> QED BY <2>2, <2>3, <2>4, <2>5 DEF Proxying
<1>5. CASE Kill(r)
  <2>1. /\ stage[r] = "query" /\ stage' = [stage EXCEPT ![r] = "failed"]
        /\ servers' = [servers EXCEPT ![r] = 0] /\ began' = [began EXCEPT ![r] = 0]
        /\ orphaned' = orphaned \cup {m \in Name : holder[m] = r}
        /\ kills' \in 0..MaxKills
        /\ UNCHANGED <<dns, entry, age, holder, failures>>
    BY <1>5, ResolverAssumption DEF Kill, Return, cached, TypeOK
  <2>2. TypeOK'
    <3>1. ResolverOK'
      BY <1>b, <2>1 DEF ResolverOK
    <3> QED BY <1>a, <3>1, TypeOKParts
  <2>3. HolderQueries' /\ OrphansHeld'
    BY <2>1 DEF Proxying, TypeOK, HolderQueries, OrphansHeld
  <2>4. RefreshHolds'
    BY <2>1, ResolverAssumption DEF Proxying, TypeOK, RefreshHolds
  <2>5. Resolved' /\ \A q \in Request : Tried(q)'
    BY <1>0, <2>1 DEF Proxying, TypeOK, Resolved, Tried, Asked
  <2> QED BY <2>2, <2>3, <2>4, <2>5 DEF Proxying
<1> QED BY <1>1, <1>2, <1>3, <1>4, <1>5 DEF Resolve, GetServers, QueryEnds

(* What the round robin picks is a peer, and the cursor stays a number.    *)
LEMMA PickedPeer ==
  ASSUME TypeOK, NEW n \in Name, NEW size \in Nat \ {0}, NEW i \in PickFrom(n, size)
  PROVE  /\ i \in 1..size /\ After(i, size) \in Nat
         /\ Noted(n, i, size) \in [size : Nat, picked : SUBSET Nat, repeated : BOOLEAN]
         /\ Noted(n, i, size).picked \subseteq 1..Noted(n, i, size).size
<1>1. cursor[n] \in Nat
  BY DEF TypeOK
<1>2. i \in 1..size
  BY <1>1 DEF PickFrom
<1>3. After(i, size) \in Nat
  BY <1>2 DEF After
<1>4. round[n].size = size => round[n].picked \subseteq 1..size
  BY DEF TypeOK
<1>5. Noted(n, i, size).picked \subseteq 1..size
  BY <1>2, <1>4 DEF Noted
<1>6. Noted(n, i, size).repeated \in BOOLEAN /\ Noted(n, i, size).size = size
  BY DEF Noted
<1> QED BY <1>2, <1>3, <1>5, <1>6 DEF Noted

(* How many times the balancer picks in a phase.                           *)
LEMMA PicksOnce == Picks = 1
<1>1. {c \in 1..Callers : ~PeerSet(c)} = {1}
  BY UpstreamAssumption DEF PeerSet
<1> QED BY <1>1, FS_Singleton DEF Picks

(* A balancer phase, for the first try or for the next one: what is left   *)
(* of the tries is as it was, or one less, or one of them was free.        *)
Continued(r, remaining) ==
  \/ progress[r] = "none" /\ remaining = left[r] /\ free' = free
  \/ progress[r] = "trying" /\ left[r] > 1 /\ remaining = left[r] - 1 /\ free' = free
  \/ /\ progress[r] = "trying" /\ remaining = left[r]
     /\ free[r] < MaxFree /\ free' = [free EXCEPT ![r] = @ + 1]

LEMMA ProxyingPhase ==
  ASSUME Proxying, NEW r \in Request, stage[r] = "resolved",
         NEW remaining, Continued(r, remaining), BalancerPhase(r, remaining),
         UNCHANGED <<resolverVars, retries>>
  PROVE  Proxying'
<1> TypeOK /\ NameOf[r] \in Name /\ retries \in Nat
  BY ResolverAssumption, UpstreamAssumption DEF Proxying, TypeOK
<1> USE DEF resolverVars, cached, lookups, bounds
<1> DEFINE n == NameOf[r]
           size == Peers[servers[r]]
<1>1. size \in Nat \ {0}
  BY UpstreamAssumption DEF Proxying, TypeOK, Resolved
<1>2. PICK i \in PickFrom(n, size) :
        /\ cursor' = [cursor EXCEPT ![n] = After(i, size)]
        /\ round' = [round EXCEPT ![n] = Noted(n, i, size)]
  BY PicksOnce DEF BalancerPhase
<1>3. /\ balancerRetries' = [balancerRetries EXCEPT ![r] = balancerRetries[r] + 1]
      /\ left' = [left EXCEPT ![r] = IF balancerRetries[r] + 1 < retries
                                    THEN remaining + 1 ELSE remaining]
      /\ tries' = [tries EXCEPT ![r] = tries[r] + 1]
      /\ progress' = [progress EXCEPT ![r] = "trying"]
  BY DEF BalancerPhase, MoreTries
<1>m. remaining \in Nat /\ remaining >= 1
  BY DEF Continued, Proxying, TypeOK, Tried
<1>f. free' \in [Request -> 0..MaxFree] /\ \A q \in Request \ {r} : free'[q] = free[q]
  <2>1. free[r] \in 0..MaxFree /\ MaxFree \in Nat
    BY UpstreamAssumption DEF TypeOK
  <2>2. CASE free' = free
    BY <2>2 DEF TypeOK
  <2>3. CASE free[r] < MaxFree /\ free' = [free EXCEPT ![r] = free[r] + 1]
    <3>1. free[r] + 1 \in 0..MaxFree
      BY <2>1, <2>3
    <3> QED BY <2>3, <3>1 DEF TypeOK
  <2> QED BY <2>2, <2>3 DEF Continued
<1> HIDE DEF size
<1>4. /\ After(i, size) \in Nat
      /\ Noted(n, i, size) \in [size : Nat, picked : SUBSET Nat, repeated : BOOLEAN]
      /\ Noted(n, i, size).picked \subseteq 1..Noted(n, i, size).size
  BY <1>1, <1>2, PickedPeer
<1>5. /\ cursor' \in [Name -> Nat]
      /\ round' \in [Name -> [size : Nat, picked : SUBSET Nat, repeated : BOOLEAN]]
      /\ \A m \in Name : round'[m].picked \subseteq 1..round'[m].size
  BY <1>2, <1>4 DEF TypeOK
<1>6. TypeOK'
  <2>1. /\ balancerRetries' \in [Request -> Int] /\ tries' \in [Request -> Nat]
        /\ left' \in [Request -> Nat]
        /\ progress' \in [Request -> {"none", "trying", "done", "failed"}]
    BY <1>3, <1>m DEF TypeOK
  <2> QED BY <1>5, <1>f, <2>1 DEF TypeOK
<1>7. Tried(r)'
  <2>1. /\ tries[r] \in Nat /\ left[r] \in Nat /\ free[r] \in Nat
        /\ balancerRetries[r] \in Int /\ tries[r] = balancerRetries[r] + 1
    BY UpstreamAssumption DEF Proxying, Tried, TypeOK
  <2>2. /\ tries'[r] = tries[r] + 1 /\ balancerRetries'[r] = balancerRetries[r] + 1
        /\ left'[r] = (IF tries[r] < retries THEN remaining + 1 ELSE remaining)
        /\ progress'[r] = "trying"
    BY <1>3, <2>1 DEF TypeOK
  <2>3. Asked(r)' = IF tries[r] + 1 < retries THEN tries[r] + 1 ELSE retries
    BY <2>2 DEF Asked
  <2>4. remaining + tries[r] = 1 + Asked(r) + free'[r]
    <3>1. CASE progress[r] = "none" /\ remaining = left[r] /\ free' = free
      BY <2>1, <3>1 DEF Proxying, Tried, Asked
    <3>2. CASE progress[r] = "trying" /\ left[r] > 1 /\ remaining = left[r] - 1 /\ free' = free
      BY <2>1, <3>2 DEF Proxying, Tried, Asked
    <3>3. CASE progress[r] = "trying" /\ remaining = left[r] /\ free' = [free EXCEPT ![r] = @ + 1]
      <4>1. free'[r] = free[r] + 1
        BY <3>3 DEF TypeOK
      <4>2. left[r] + tries[r] = 2 + Asked(r) + free[r] /\ Asked(r) \in Nat
        BY <2>1, <3>3 DEF Proxying, Tried, Asked
      <4> QED BY <2>1, <3>3, <4>1, <4>2
    <3> QED BY <3>1, <3>2, <3>3 DEF Continued
  <2>5. free'[r] \in Nat
    BY <1>f
  <2>6. left'[r] + tries'[r] = 2 + Asked(r)' + free'[r]
    BY <1>m, <2>1, <2>2, <2>3, <2>4, <2>5 DEF Asked
  <2>7. left'[r] >= 1
    BY <1>m, <2>2
  <2> QED BY <2>1, <2>2, <2>6, <2>7 DEF Tried
<1>8. ASSUME NEW q \in Request, q # r PROVE Tried(q)'
  BY <1>3, <1>f, <1>8 DEF Proxying, Tried, Asked, TypeOK
<1>9. Resolved'
  BY <1>3 DEF Proxying, Resolved, TypeOK
<1>10. HolderQueries' /\ RefreshHolds' /\ OrphansHeld'
  BY DEF Proxying, HolderQueries, RefreshHolds, OrphansHeld
<1> QED BY <1>6, <1>7, <1>8, <1>9, <1>10 DEF Proxying

(* The rest of a request's way, and the DNS and the clock.                 *)
LEMMA ProxyingRest ==
  ASSUME Proxying, \/ \E r \in Request : GiveUp(r) \/ Respond(r) \/ NextRequest(r)
                   \/ Environment /\ UNCHANGED <<retries, balancing, cursor, round>>
  PROVE  Proxying'
<1> TypeOK /\ retries \in Nat
  BY UpstreamAssumption DEF Proxying, TypeOK
<1> USE DEF resolverVars, cached, lookups, bounds
<1>0. ResolverOK /\ BalancerOK /\ 0 \in 0..MaxVersion /\ 0 \in 0..MaxFree
  BY TypeOKParts, ResolverAssumption, UpstreamAssumption
<1>1. ASSUME NEW r \in Request, GiveUp(r) \/ Respond(r) PROVE Proxying'
  <2>1. /\ progress[r] = "trying"
        /\ progress' = [progress EXCEPT ![r] = "done"]
             \/ (left[r] = 1 /\ progress' = [progress EXCEPT ![r] = "failed"])
        /\ UNCHANGED <<resolverVars, retries, balancerRetries, left, tries, free, cursor, round>>
    BY <1>1 DEF GiveUp, Respond
  <2>2. TypeOK' /\ Resolved' /\ HolderQueries' /\ RefreshHolds' /\ OrphansHeld'
    BY <2>1 DEF Proxying, TypeOK, Resolved, HolderQueries, RefreshHolds, OrphansHeld
  <2>3. ASSUME NEW q \in Request PROVE Tried(q)'
    BY <2>1 DEF Proxying, TypeOK, Tried, Asked
  <2> QED BY <2>2, <2>3 DEF Proxying
<1>2. ASSUME NEW r \in Request, NextRequest(r) PROVE Proxying'
  <2>1. /\ stage[r] \in {"resolved", "failed"}
        /\ stage' = [stage EXCEPT ![r] = "idle"] /\ servers' = [servers EXCEPT ![r] = 0]
        /\ balancerRetries' = [balancerRetries EXCEPT ![r] = -1]
        /\ left' = [left EXCEPT ![r] = 1] /\ free' = [free EXCEPT ![r] = 0]
        /\ progress' = [progress EXCEPT ![r] = "none"]
        /\ tries' = [tries EXCEPT ![r] = 0]
        /\ UNCHANGED <<dns, entry, age, holder, began, failures, kills, orphaned, retries, cursor, round>>
    BY <1>2 DEF NextRequest, Proxying, Resolved
  <2>2. TypeOK'
    <3>1. ResolverOK'
      BY <1>0, <2>1 DEF ResolverOK
    <3>2. BalancerOK'
      BY <1>0, <2>1 DEF BalancerOK
    <3> QED BY <3>1, <3>2, TypeOKParts
  <2>3. HolderQueries' /\ RefreshHolds' /\ OrphansHeld'
    BY <2>1 DEF Proxying, TypeOK, HolderQueries, RefreshHolds, OrphansHeld
  <2>4. Resolved'
    BY <1>0, <2>1 DEF Proxying, ResolverOK, BalancerOK, Resolved
  <2>5. ASSUME NEW q \in Request PROVE Tried(q)'
    <3>1. CASE q = r
      BY <1>0, <2>1, <3>1 DEF BalancerOK, Tried, Asked
    <3>2. CASE q # r
      BY <1>0, <2>1, <3>2 DEF Proxying, BalancerOK, Tried, Asked
    <3> QED BY <3>1, <3>2
  <2> QED BY <2>2, <2>3, <2>4, <2>5 DEF Proxying
<1>3. CASE Environment /\ UNCHANGED <<retries, balancing, cursor, round>>
  <2>1. /\ UNCHANGED <<entry, holder, stage, servers, began, failures, kills, orphaned>>
        /\ UNCHANGED <<retries, balancerRetries, left, progress, tries, free, cursor, round>>
        /\ dns' \in [Name -> 1..MaxVersion] /\ age' \in [Name -> {"fresh", "touched", "stale"}]
    <3>1. CASE \E n \in Name : Expire(n)
      BY <1>0, <1>3, <3>1 DEF Expire, balancing, ResolverOK
    <3>2. ASSUME NEW n \in Name, Change(n)
          PROVE  dns' \in [Name -> 1..MaxVersion] /\ UNCHANGED <<entry, age, holder, stage, servers,
                   began, failures, kills, orphaned>>
      <4>1. dns[n] + 1 \in 1..MaxVersion
        BY <1>0, <3>2, ResolverAssumption DEF Change, ResolverOK
      <4> QED BY <1>0, <3>2, <4>1 DEF Change, ResolverOK
    <3> QED BY <1>0, <1>3, <3>1, <3>2 DEF Environment, balancing, ResolverOK
  <2> QED BY <2>1 DEF Proxying, TypeOK, Resolved, Tried, Asked, HolderQueries, RefreshHolds, OrphansHeld
<1> QED BY <1>1, <1>2, <1>3

(* The inductive invariant.                                                *)
THEOREM ProxyingInvariant == Spec => []Proxying
<1>1. ASSUME Proxying, [Next]_vars PROVE Proxying'
  <2>1. ASSUME NEW r \in Request, FirstTry(r) \/ TryAgain(r) \/ TryAfresh(r) PROVE Proxying'
    <3>1. stage[r] = "resolved" /\ UNCHANGED <<resolverVars, retries>>
      BY <1>1, <2>1 DEF FirstTry, TryAgain, TryAfresh, Proxying, Resolved
    <3>2. \E remaining : Continued(r, remaining) /\ BalancerPhase(r, remaining)
      <4>1. CASE FirstTry(r) \/ TryAfresh(r)
        BY <4>1 DEF FirstTry, TryAfresh, Continued
      <4>2. CASE TryAgain(r)
        BY <4>2 DEF TryAgain, Continued
      <4> QED BY <2>1, <4>1, <4>2
    <3> QED BY <1>1, <3>1, <3>2, ProxyingPhase
  <2>2. CASE UNCHANGED vars
    BY <1>1, <2>2 DEF vars, resolverVars, cached, lookups, bounds, balancing, Proxying, TypeOK,
       Resolved, Tried, Asked, HolderQueries, RefreshHolds, OrphansHeld
  <2> QED BY <1>1, <2>1, <2>2, ProxyingLookup, ProxyingRest DEF Next
<1> QED BY <1>1, ProxyingInit, PTL DEF Spec

(* The state keeps its shape.                                              *)
THEOREM TypeCorrect == Spec => []TypeOK
<1>1. Proxying => TypeOK
  BY DEF Proxying
<1> QED BY <1>1, ProxyingInvariant, PTL

(* The retry policy: a request makes no more tries than the first one, its *)
(* retries and those nginx makes up for, and the peers are given up only   *)
(* after all of them.                                                      *)
THEOREM AllRetriesAndNoMore == Spec => []TriesSpent
<1>1. ASSUME Proxying PROVE TriesSpent
  <2> SUFFICES ASSUME NEW r \in Request
               PROVE  /\ tries[r] <= retries + 1 + free[r]
                      /\ progress[r] = "failed" => tries[r] = retries + 1 + free[r]
    BY DEF TriesSpent
  <2>1. retries \in Nat /\ tries[r] \in Nat /\ left[r] \in Nat /\ free[r] \in Nat
    BY <1>1, UpstreamAssumption DEF Proxying, TypeOK
  <2>2. CASE progress[r] = "none"
    BY <1>1, <2>1, <2>2 DEF Proxying, Tried
  <2>3. CASE progress[r] # "none"
    <3>1. left[r] >= 1 /\ left[r] + tries[r] = 2 + Asked(r) + free[r]
      BY <1>1, <2>3 DEF Proxying, Tried
    <3>2. progress[r] = "failed" => left[r] = 1
      BY <1>1 DEF Proxying, Tried
    <3> QED BY <2>1, <3>1, <3>2 DEF Asked
  <2> QED BY <2>2, <2>3
<1> QED BY <1>1, ProxyingInvariant, PTL

(* Of the queries for a name that began when there was an answer to serve  *)
(* meanwhile, one at most is under way.                                    *)
THEOREM RefreshesOnce == Spec => []OneRefresh
<1>1. ASSUME Proxying PROVE OneRefresh
  <2> SUFFICES ASSUME NEW n \in Name
               PROVE  Cardinality({r \in Request : NameOf[r] = n /\ stage[r] = "query" /\ began[r] # 0}) <= 1
    BY DEF OneRefresh
  <2> DEFINE Q == {r \in Request : NameOf[r] = n /\ stage[r] = "query" /\ began[r] # 0}
  <2>1. \A r \in Q : r = holder[n]
    BY <1>1 DEF Proxying, RefreshHolds
  <2>2. Q = {} \/ Q = {holder[n]}
    BY <2>1
  <2>3. Cardinality(Q) = 0 \/ Cardinality(Q) = 1
    BY <2>2, FS_EmptySet, FS_Singleton
  <2> QED BY <2>3
<1> QED BY <1>1, ProxyingInvariant, PTL

(* A request is served an answer that expired only while another one       *)
(* queries the name, or after a killed request took the semaphore along.   *)
THEOREM StaleOnlyMeanwhile == Spec => StaleWhileQuerying
<1>1. ASSUME Proxying, [Next]_vars
      PROVE  [\A r \in Request :
                LET n == NameOf[r] IN
                stage[r] = "idle" /\ stage'[r] = "resolved" /\ age[n] = "stale" =>
                  Querying(n) \/ n \in orphaned]_resolverVars
  <2> SUFFICES ASSUME NEW r \in Request, stage[r] = "idle", stage'[r] = "resolved",
                      age[NameOf[r]] = "stale"
               PROVE  Querying(NameOf[r]) \/ NameOf[r] \in orphaned
    OBVIOUS
  <2> TypeOK /\ NameOf[r] \in Name
    BY <1>1, ResolverAssumption DEF Proxying
  <2>1. ASSUME NEW q \in Request, Resolve(q) PROVE q = r /\ LookUpStale(r)
    BY <2>1 DEF Resolve, GetServers, QueryEnds, Found, LookUp, LookUpStale, Answer, QueryFails,
       Kill, Return, Query, Cached, TypeOK
  <2>2. holder[NameOf[r]] # None
    <3>1. \E q \in Request : Resolve(q)
      BY <1>1 DEF Next, FirstTry, TryAgain, TryAfresh, GiveUp, Respond, NextRequest, Environment, Expire,
         Change, vars, resolverVars, lookups, TypeOK
    <3> QED BY <2>1, <3>1 DEF LookUpStale
  <2> QED BY <1>1, <2>2 DEF Proxying, TypeOK, HolderQueries, Querying
<1> QED BY <1>1, ProxyingInvariant, PTL DEF Spec, StaleWhileQuerying

-----------------------------------------------------------------------------
(***************************************************************************)
(* The semaphore of a name without fairness: it is with a query, and the   *)
(* end of the query gives it back, or it is lost with a killed request.    *)
(***************************************************************************)
InGoodHands(n) == holder[n] # None => Querying(n) \/ n \in orphaned

ReturnedWith(r, n) ==
  holder[n] = r /\ n \notin orphaned /\ stage'[r] # stage[r] =>
    \/ n \notin orphaned' /\ holder'[n] = None
    \/ n \in orphaned' /\ holder'[n] = r

(* A name whose semaphore is lost, with an answer in the cache and nobody  *)
(* left who asked the DNS before there was one.                            *)
Stuck(n) ==
  /\ n \in orphaned /\ entry[n] # 0
  /\ \A r \in Request : NameOf[r] = n => stage[r] # "query"

OnlyThatAnswer(n) ==
  /\ Stuck(n)' /\ entry'[n] = entry[n]
  /\ \A r \in Request : NameOf[r] = n /\ stage[r] = "idle" /\ stage'[r] # "idle" =>
       stage'[r] = "resolved" /\ servers'[r] = entry[n]

(* Which steps of a lookup move what.                                      *)
LEMMA LookupMoves ==
  ASSUME Proxying, NEW r \in Request, Resolve(r)
  PROVE  /\ \A q \in Request \ {r} : stage'[q] = stage[q]
         /\ orphaned \subseteq orphaned'
         /\ \A n \in orphaned : holder'[n] = holder[n]
         /\ stage[r] = "query" => /\ stage'[r] # "query"
                                  /\ \A n \in Name \ {NameOf[r]} : entry'[n] = entry[n]
         /\ stage[r] # "query" => entry' = entry
         /\ stage'[r] = "query" => holder[NameOf[r]] = None \/ entry[NameOf[r]] = 0
<1> TypeOK /\ None \notin Request
  BY ResolverAssumption DEF Proxying
<1>1. CASE Found(r) \/ LookUp(r) \/ LookUpStale(r)
  <2>1. /\ stage[r] = "idle" /\ entry' = entry /\ orphaned' = orphaned
        /\ \A q \in Request \ {r} : stage'[q] = stage[q]
        /\ stage'[r] = "query" => holder[NameOf[r]] = None \/ entry[NameOf[r]] = 0
    BY <1>1 DEF Found, LookUp, LookUpStale, Return, Query, cached, TypeOK
  <2>2. \A n \in orphaned : holder'[n] = holder[n]
    BY <1>1 DEF Found, LookUp, LookUpStale, Proxying, OrphansHeld, TypeOK
  <2> QED BY <2>1, <2>2
<1>2. CASE Answer(r) \/ QueryFails(r) \/ Kill(r)
  <2>1. /\ stage[r] = "query" /\ stage'[r] # "query" /\ orphaned \subseteq orphaned'
        /\ \A q \in Request \ {r} : stage'[q] = stage[q]
        /\ \A n \in Name \ {NameOf[r]} : entry'[n] = entry[n]
    BY <1>2 DEF Answer, QueryFails, Kill, Return, cached, TypeOK
  <2>2. \A n \in orphaned : holder'[n] = holder[n]
    BY <1>2 DEF Answer, QueryFails, Kill, Release, TypeOK
  <2> QED BY <2>1, <2>2
<1> QED BY <1>1, <1>2 DEF Resolve, GetServers, QueryEnds

(* Nothing but a lookup moves a semaphore, and no request that is not over *)
(* with its lookup becomes a new one.                                      *)
LEMMA OthersMove ==
  ASSUME Proxying, [Next]_vars, ~\E r \in Request : Resolve(r)
  PROVE  /\ UNCHANGED <<entry, holder, orphaned>>
         /\ \A r \in Request : stage'[r] = stage[r] \/ (stage[r] # "query" /\ stage'[r] = "idle")
<1> TypeOK
  BY DEF Proxying
<1>1. ASSUME NEW r \in Request, NextRequest(r)
      PROVE  /\ UNCHANGED <<entry, holder, orphaned>>
             /\ \A q \in Request : stage'[q] = stage[q] \/ (stage[q] # "query" /\ stage'[q] = "idle")
  <2>1. stage[r] # "query"
    BY <1>1 DEF NextRequest, Proxying, Resolved
  <2> QED BY <1>1, <2>1 DEF NextRequest, cached, TypeOK
<1>2. CASE \/ \E r \in Request : FirstTry(r) \/ TryAgain(r) \/ TryAfresh(r) \/ GiveUp(r) \/ Respond(r)
           \/ Environment \/ UNCHANGED vars
  BY <1>2 DEF FirstTry, TryAgain, TryAfresh, GiveUp, Respond, Environment, Expire, Change, vars,
     resolverVars, cached, lookups
<1> QED BY <1>1, <1>2 DEF Next

(* Whoever has the semaphore queries the DNS, and returns it in the step   *)
(* that ends the query, whichever it is, unless the request is killed:     *)
(* then it stays taken.  With fairness that is SemaphoreReturned.          *)
THEOREM SemaphoreWithItsQuery ==
  Spec => /\ [](\A n \in Name : InGoodHands(n))
          /\ [][\A r \in Request, n \in Name : ReturnedWith(r, n)]_vars
<1>1. Proxying => \A n \in Name : InGoodHands(n)
  BY DEF Proxying, HolderQueries, InGoodHands, Querying, TypeOK
<1>2. ASSUME Proxying, [Next]_vars
      PROVE  [\A r \in Request, n \in Name : ReturnedWith(r, n)]_vars
  <2> SUFFICES ASSUME NEW r \in Request, NEW n \in Name,
                      holder[n] = r, n \notin orphaned, stage'[r] # stage[r]
               PROVE  \/ n \notin orphaned' /\ holder'[n] = None
                      \/ n \in orphaned' /\ holder'[n] = r
    BY DEF ReturnedWith
  <2>1. stage[r] = "query" /\ NameOf[r] = n
    BY <1>2, ResolverAssumption DEF Proxying, HolderQueries
  <2>2. PICK q \in Request : Resolve(q)
    BY <1>2, <2>1, OthersMove
  <2>3. Resolve(r)
    BY <1>2, <2>2, LookupMoves
  <2>4. Answer(r) \/ QueryFails(r) \/ Kill(r)
    BY <2>1, <2>3 DEF Resolve, GetServers, QueryEnds, Found, LookUp, LookUpStale
  <2> QED BY <1>2, <2>4 DEF Answer, QueryFails, Kill, Release, Proxying, TypeOK
<1> QED BY <1>1, <1>2, ProxyingInvariant, PTL DEF Spec

(* The price of a killed query: once the name of a lost semaphore has an   *)
(* answer and no query is left, no request of the worker asks the DNS for  *)
(* it again, and all of them are given that answer.                        *)
THEOREM LostMeansStale == Spec => [][\A n \in Name : Stuck(n) => OnlyThatAnswer(n)]_vars
<1>1. ASSUME Proxying, [Next]_vars PROVE [\A n \in Name : Stuck(n) => OnlyThatAnswer(n)]_vars
  <2> SUFFICES ASSUME NEW n \in Name, Stuck(n) PROVE OnlyThatAnswer(n)
    OBVIOUS
  <2>1. holder[n] # None
    BY <1>1 DEF Proxying, OrphansHeld, Stuck
  <2>2. ASSUME NEW r \in Request, Resolve(r) PROVE OnlyThatAnswer(n)
    <3>1. NameOf[r] = n => stage'[r] # "query"
      BY <1>1, <2>1, <2>2, LookupMoves DEF Stuck
    <3>2. n \in orphaned' /\ entry'[n] = entry[n]
      BY <1>1, <2>2, LookupMoves DEF Stuck
    <3>3. \A q \in Request \ {r} : stage'[q] = stage[q]
      BY <1>1, <2>2, LookupMoves
    <3>4. ASSUME NameOf[r] = n, stage[r] = "idle"
          PROVE  stage'[r] = "resolved" /\ servers'[r] = entry[n]
      BY <1>1, <2>1, <2>2, <3>4 DEF Stuck, Resolve, GetServers, QueryEnds, Found, LookUp,
         LookUpStale, Return, Answer, QueryFails, Kill, Proxying, TypeOK
    <3> QED BY <3>1, <3>2, <3>3, <3>4 DEF Stuck, OnlyThatAnswer
  <2>3. CASE ~\E r \in Request : Resolve(r)
    <3>1. /\ UNCHANGED <<entry, orphaned>>
          /\ \A r \in Request : stage'[r] = stage[r] \/ stage'[r] = "idle"
      BY <1>1, <2>3, OthersMove
    <3> QED BY <3>1 DEF Stuck, OnlyThatAnswer
  <2> QED BY <2>2, <2>3
<1> QED BY <1>1, ProxyingInvariant, PTL DEF Spec

-----------------------------------------------------------------------------
(* The turns of the peers of a name.  Those that were picked since all had *)
(* their turn are the ones from some peer up to the one before the cursor, *)
(* at the end of the list and on from its beginning if need be.            *)
Turned(picked, c, size) == \E a \in 1..size :
  \/ a < c /\ picked = a..(c - 1)
  \/ c <= a /\ picked = (a..size) \cup (1..(c - 1))

Turning(n) ==
  IF cursor[n] = 0 THEN round[n].size = 0
  ELSE /\ round[n].size # 0 /\ cursor[n] \in 1..round[n].size
       /\ Turned(round[n].picked, cursor[n], round[n].size)

Turns == \A n \in Name : Turning(n) /\ ~round[n].repeated

(* Where the cursor goes after a peer.                                     *)
LEMMA NextPeer ==
  ASSUME NEW size \in Nat \ {0}, NEW i \in 1..size
  PROVE  After(i, size) = IF i = size THEN 1 ELSE i + 1
<1>1. CASE i = size
  <2>1. i % size = 0
    BY <1>1
  <2> QED BY <1>1, <2>1 DEF After
<1>2. CASE i # size
  <2>1. i % size = i
    BY <1>2
  <2> QED BY <1>2, <2>1 DEF After
<1> QED BY <1>1, <1>2

(* All have had their turn when as many were picked as there are.          *)
LEMMA AllHadATurn ==
  ASSUME NEW size \in Nat, NEW S \in SUBSET (1..size)
  PROVE  ~(Cardinality(S) < size) <=> S = 1..size
<1>1. IsFiniteSet(1..size) /\ Cardinality(1..size) = size
  BY FS_Interval
<1>2. Cardinality(S) <= size /\ (Cardinality(S) = size => S = 1..size)
  BY <1>1, FS_Subset
<1>3. Cardinality(S) \in Nat
  BY <1>1, FS_Subset, FS_CardinalityType
<1> QED BY <1>1, <1>2, <1>3

(* The peer at the cursor has not had its turn unless all of them have.    *)
LEMMA CursorIsNext ==
  ASSUME NEW size \in Nat \ {0}, NEW c \in 1..size, NEW S, Turned(S, c, size), S # 1..size
  PROVE  c \notin S /\ Turned(S \cup {c}, After(c, size), size)
<1> DEFINE next == IF c = size THEN 1 ELSE c + 1
<1>1. After(c, size) = next
  BY NextPeer
<1>2. PICK a \in 1..size : \/ a < c /\ S = a..(c - 1)
                           \/ c <= a /\ S = (a..size) \cup (1..(c - 1))
  BY DEF Turned
<1>3. CASE a < c /\ S = a..(c - 1)
  <2>1. c \notin S
    BY <1>3
  <2>2. CASE c = size
    <3>1. S \cup {c} = (a..size) \cup (1..(1 - 1))
      BY <1>3, <2>2
    <3> QED BY <1>1, <2>1, <2>2, <3>1 DEF Turned
  <2>3. CASE c # size
    <3>1. S \cup {c} = a..((c + 1) - 1) /\ a < c + 1
      BY <1>3
    <3> QED BY <1>1, <2>1, <2>3, <3>1 DEF Turned
  <2> QED BY <2>2, <2>3
<1>4. CASE c <= a /\ S = (a..size) \cup (1..(c - 1))
  <2>1. c < a
    <3>1. CASE a = c
      <4>1. S = 1..size
        BY <1>4, <3>1
      <4> QED BY <4>1
    <3> QED BY <1>4, <3>1
  <2>2. c \notin S /\ c # size /\ c + 1 <= a
    BY <1>4, <2>1
  <2>3. S \cup {c} = (a..size) \cup (1..((c + 1) - 1))
    BY <1>4, <2>1
  <2> QED BY <1>1, <2>2, <2>3 DEF Turned
<1> QED BY <1>2, <1>3, <1>4

(* One peer on its own.                                                    *)
LEMMA FirstOfARound ==
  ASSUME NEW size \in Nat \ {0}, NEW i \in 1..size
  PROVE  Turned({i}, After(i, size), size)
<1>1. CASE i = size
  <2>1. {i} = (i..size) \cup (1..(1 - 1))
    BY <1>1
  <2> QED BY <1>1, <2>1, NextPeer DEF Turned
<1>2. CASE i # size
  <2>1. {i} = i..((i + 1) - 1)
    OBVIOUS
  <2> QED BY <1>2, <2>1, NextPeer DEF Turned
<1> QED BY <1>1, <1>2

(* A balancer phase gives the next peer its turn.                          *)
LEMMA TurnsPhase ==
  ASSUME Proxying, Turns, NEW r \in Request, stage[r] = "resolved",
         NEW remaining, BalancerPhase(r, remaining)
  PROVE  Turns'
<1> DEFINE n    == NameOf[r]
           size == Peers[servers[r]]
<1>1. n \in Name /\ size \in Nat \ {0} /\ TypeOK /\ Turning(n) /\ ~round[n].repeated
  <2>1. n \in Name /\ TypeOK
    BY ResolverAssumption DEF Proxying
  <2>2. servers[r] \in 1..MaxVersion
    BY ResolverAssumption DEF Proxying, Resolved, TypeOK
  <2>3. size \in Nat \ {0}
    BY <2>2, UpstreamAssumption
  <2> QED BY <2>1, <2>3 DEF Turns
<1>2. PICK i \in PickFrom(n, size) :
        /\ cursor' = [cursor EXCEPT ![n] = After(i, size)]
        /\ round' = [round EXCEPT ![n] = Noted(n, i, size)]
  BY PicksOnce DEF BalancerPhase
<1> DEFINE known  == round[n].size = size /\ Cardinality(round[n].picked) < size
           picked == IF known THEN round[n].picked ELSE {}
<1>3. i \in 1..size /\ (cursor[n] # 0 /\ cursor[n] <= size => i = cursor[n])
  <2>1. cursor[n] \in Nat
    BY <1>1 DEF TypeOK
  <2> HIDE DEF size, n
  <2> QED BY <1>1, <2>1 DEF PickFrom
<1>4. i \notin picked /\ Turned(picked \cup {i}, After(i, size), size)
  <2>1. CASE known
    <3>1. cursor[n] \in 1..size /\ Turned(round[n].picked, cursor[n], size)
      BY <1>1, <2>1 DEF Turning
    <3>2. round[n].picked \in SUBSET (1..size)
      BY <1>1, <2>1 DEF TypeOK
    <3>3. i = cursor[n]
      BY <1>1, <1>3, <3>1
    <3>4. round[n].picked # 1..size
      BY <1>1, <2>1, <3>2, AllHadATurn
    <3> HIDE DEF size
    <3> QED BY <1>1, <2>1, <3>1, <3>3, <3>4, CursorIsNext
  <2>2. CASE ~known
    <3>1. picked = {}
      BY <2>2
    <3> HIDE DEF size, picked
    <3> QED BY <1>1, <1>3, <3>1, FirstOfARound
  <2> QED BY <2>1, <2>2
<1>5. /\ round'[n] = [size |-> size, picked |-> picked \cup {i}, repeated |-> i \in picked]
      /\ cursor'[n] = After(i, size)
      /\ \A m \in Name \ {n} : round'[m] = round[m] /\ cursor'[m] = cursor[m]
  BY <1>1, <1>2 DEF TypeOK, Noted
<1>6. After(i, size) \in 1..size
  <2> HIDE DEF size
  <2> QED BY <1>1, <1>3, NextPeer
<1> HIDE DEF size, picked
<1>7. Turning(n)' /\ ~round'[n].repeated
  <2>1. /\ round'[n].size = size /\ round'[n].picked = picked \cup {i}
        /\ round'[n].repeated = (i \in picked) /\ cursor'[n] = After(i, size)
    BY <1>5
  <2>2. size # 0 /\ After(i, size) # 0
    BY <1>1, <1>6
  <2>3. Turned(round'[n].picked, cursor'[n], round'[n].size)
    BY <1>4, <2>1
  <2> QED BY <1>4, <1>6, <2>1, <2>2, <2>3 DEF Turning
<1>8. ASSUME NEW m \in Name, m # n PROVE Turning(m)' /\ ~round'[m].repeated
  BY <1>5, <1>8 DEF Turning, Turns
<1> QED BY <1>7, <1>8 DEF Turns

(* No peer gets a second try before every other one has had its turn, as   *)
(* long as the answers have the same number of peers.                      *)
THEOREM PeersTakeTurns == Spec => []Balanced
<1>1. Init => Turns
  BY DEF Init, Turns, Turning
<1>2. ASSUME Turns, Proxying, [Next]_vars PROVE Turns'
  <2>1. ASSUME NEW r \in Request, FirstTry(r) \/ TryAgain(r) \/ TryAfresh(r) PROVE Turns'
    <3>1. stage[r] = "resolved"
      BY <1>2, <2>1 DEF FirstTry, TryAgain, TryAfresh, Proxying, Resolved
    <3> QED BY <1>2, <2>1, <3>1, TurnsPhase DEF FirstTry, TryAgain, TryAfresh
  <2>2. CASE UNCHANGED <<cursor, round>>
    BY <1>2, <2>2 DEF Turns, Turning
  <2> QED BY <1>2, <2>1, <2>2 DEF Next, Resolve, GiveUp, Respond, NextRequest, vars
<1>3. Turns => Balanced
  BY DEF Turns, Balanced
<1> QED BY <1>1, <1>2, <1>3, ProxyingInvariant, PTL DEF Spec
=============================================================================
