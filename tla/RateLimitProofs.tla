--------------------------- MODULE RateLimitProofs ---------------------------
(***************************************************************************)
(* Proofs about RateLimit.  TypeOK holds for any chain of policies, and    *)
(* the limits for a chain with one: with two of them they do not, for the  *)
(* log phase of each leaves the connections of the other.                  *)
(***************************************************************************)
EXTENDS RateLimit, FiniteSetTheorems, SequenceTheorems, TLAPS

Phases == {"over", "access", "combine", "takeback", "proxied", "log"} \cup ErrorType

LEMMA PolicyNumbers == Policy = 1..Len(Chain) /\ Len(Chain) \in Nat \ {0} /\ 1 \in Policy
<1>1. Chain \in Seq(SUBSET Seq(Limiter)) /\ Chain # <<>>
  BY RateLimitAssumption
<1> QED
  BY <1>1, EmptySeq, LenProperties DEF Policy

(* The keys of the limiters that a policy selects.                         *)
KeysAt(s, w) == [i \in DOMAIN s |-> KeyAt(s[i], w)]

LEMMA KeysAtOK ==
  ASSUME NEW p \in Policy, NEW s \in Chain[p], NEW w \in 0..MaxWindow
  PROVE  /\ KeysAt(s, w) \in Seq(Counter) /\ Distinct(KeysAt(s, w))
         /\ \E n \in 0..Len(KeysAt(s, w)) : \A i \in DOMAIN KeysAt(s, w) :
              Kind[KeysAt(s, w)[i][1]] = "connections" <=> i <= n
<1> DEFINE k == KeysAt(s, w)
<1>1. s \in Seq(Limiter) /\ Len(s) \in Nat /\ DOMAIN s = 1..Len(s)
  BY RateLimitAssumption, PolicyNumbers, LenProperties, ElementOfSeq
<1>2. \A l \in Limiter : KeyAt(l, w) \in Counter /\ KeyAt(l, w)[1] = l
  BY RateLimitAssumption DEF KeyAt, Counter
<1>3. \A i \in 1..Len(s) : s[i] \in Limiter
  BY <1>1, ElementOfSeq
<1>4. DOMAIN k = 1..Len(s) /\ \A i \in 1..Len(s) : k[i] \in Counter /\ k[i][1] = s[i]
  BY <1>1, <1>2, <1>3 DEF KeysAt
<1>5. k \in Seq(Counter) /\ Len(k) = Len(s)
  <2>1. k = [i \in 1..Len(s) |-> KeyAt(s[i], w)]
    BY <1>1 DEF KeysAt
  <2>2. \A i \in 1..Len(s) : KeyAt(s[i], w) \in Counter
    BY <1>2, <1>3
  <2> QED
    <3> HIDE DEF k
    <3>1. k \in [1..Len(s) -> Counter]
      BY <2>1, <2>2
    <3>2. k \in Seq(Counter)
      BY <1>1, <3>1, SeqDef
    <3> QED
      BY <1>1, <1>4, <3>2, LenProperties
<1> HIDE DEF k
<1>6. Distinct(k)
  <2>1. Distinct(s)
    BY RateLimitAssumption DEF Policy
  <2> QED
    BY <1>1, <1>4, <2>1 DEF Distinct
<1>7. PICK n \in 0..Len(s) : ConnectionsFirst(s, n)
  BY RateLimitAssumption DEF Policy
<1>8. \A i \in DOMAIN k : Kind[k[i][1]] = "connections" <=> i <= n
  BY <1>1, <1>4, <1>7 DEF ConnectionsFirst
<1> QED
  BY <1>5, <1>6, <1>7, <1>8 DEF k

-----------------------------------------------------------------------------
LEMMA ElemsOf ==
  ASSUME NEW s \in Seq(Counter)
  PROVE  Elems(s) \subseteq Counter /\ (Elems(s) = {} <=> s = <<>>)
  BY LenProperties, ElementOfSeq, EmptySeq DEF Elems

LEMMA NoElems == Elems(<<>>) = {} /\ Distinct(<<>>) /\ <<>> \in Seq(Counter)
  BY EmptySeq DEF Elems, Distinct

LEMMA HeadAndTail ==
  ASSUME NEW s \in Seq(Counter), s # <<>>, Distinct(s)
  PROVE  /\ Head(s) \in Counter /\ Tail(s) \in Seq(Counter) /\ Distinct(Tail(s))
         /\ Elems(s) = {Head(s)} \cup Elems(Tail(s)) /\ Head(s) \notin Elems(Tail(s))
<1>1. /\ Head(s) \in Counter /\ Tail(s) \in Seq(Counter)
      /\ Len(Tail(s)) = Len(s) - 1 /\ \A i \in 1 .. Len(Tail(s)) : Tail(s)[i] = s[i+1]
  BY HeadTailProperties
<1>2. DOMAIN s = 1..Len(s) /\ Len(s) \in Nat /\ Head(s) = s[1] /\ Len(s) > 0
  BY LenProperties, EmptySeq
<1>3. DOMAIN Tail(s) = 1..(Len(s) - 1)
  BY <1>1, LenProperties
<1>4. Distinct(Tail(s))
  BY <1>1, <1>2, <1>3 DEF Distinct
<1>5. Head(s) \notin Elems(Tail(s))
  BY <1>1, <1>2, <1>3 DEF Distinct, Elems
<1>6. Elems(s) = {Head(s)} \cup Elems(Tail(s))
  <2>1. ASSUME NEW i \in 1..Len(s) PROVE s[i] \in {Head(s)} \cup Elems(Tail(s))
    <3>1. CASE i = 1
      BY <3>1, <1>2
    <3>2. CASE i # 1
      <4>1. i - 1 \in DOMAIN Tail(s) /\ s[i] = Tail(s)[i - 1]
        BY <3>2, <1>1, <1>2, <1>3
      <4> QED BY <4>1 DEF Elems
    <3> QED BY <3>1, <3>2
  <2>2. ASSUME NEW i \in DOMAIN Tail(s) PROVE Tail(s)[i] \in Elems(s)
    <3>1. i + 1 \in DOMAIN s /\ Tail(s)[i] = s[i + 1]
      BY <1>1, <1>2, <1>3
    <3> QED BY <3>1 DEF Elems
  <2>3. Head(s) \in Elems(s)
    BY <1>2 DEF Elems
  <2> QED BY <2>1, <2>2, <2>3, <1>2 DEF Elems
<1> QED
  BY <1>1, <1>4, <1>5, <1>6

(* What a prefix of distinct keys and its last one hold.                   *)
LEMMA PrefixAndLast ==
  ASSUME NEW s \in Seq(Counter), Distinct(s), NEW n \in 0..(Len(s) - 1)
  PROVE  LET t == Append(SubSeq(s, 1, n), s[Len(s)]) IN
         /\ t \in Seq(Counter) /\ Distinct(t)
         /\ Elems(t) = {s[i] : i \in (1..n) \cup {Len(s)}}
<1>1. DOMAIN s = 1..Len(s) /\ Len(s) \in Nat /\ \A i \in 1..Len(s) : s[i] \in Counter
  BY LenProperties, ElementOfSeq
<1> DEFINE u == SubSeq(s, 1, n)
           t == Append(u, s[Len(s)])
<1>2. u \in Seq(Counter) /\ Len(u) = n /\ \A i \in 1..n : u[i] = s[i]
  BY <1>1, SubSeqProperties
<1>3. /\ t \in Seq(Counter) /\ Len(t) = n + 1
      /\ \A i \in 1..n : t[i] = s[i]
      /\ t[n + 1] = s[Len(s)]
  BY <1>1, <1>2, AppendProperties
<1>4. DOMAIN t = 1..(n + 1)
  BY <1>3, LenProperties
<1> HIDE DEF t
<1>5. Distinct(t)
  BY <1>1, <1>3, <1>4 DEF Distinct
<1>6. Elems(t) = {s[i] : i \in (1..n) \cup {Len(s)}}
  <2>1. ASSUME NEW i \in 1..(n + 1) PROVE t[i] \in {s[j] : j \in (1..n) \cup {Len(s)}}
    <3>1. CASE i \in 1..n
      BY <3>1, <1>3
    <3>2. CASE i = n + 1
      BY <3>2, <1>3
    <3> QED BY <3>1, <3>2
  <2>2. ASSUME NEW i \in 1..n PROVE s[i] \in Elems(t)
    BY <1>3, <1>4 DEF Elems
  <2>3. s[Len(s)] \in Elems(t)
    <3>1. n + 1 \in DOMAIN t
      BY <1>4
    <3> QED BY <3>1, <1>3 DEF Elems
  <2> QED
    BY <2>1, <2>2, <2>3, <1>4 DEF Elems
<1> QED
  BY <1>3, <1>5, <1>6 DEF t

(* Connections() is the part of the keys that is about connections.        *)
LEMMA ConnectionsOf ==
  ASSUME NEW s \in Seq(Counter), Distinct(s),
         \E n \in 0..Len(s) : \A i \in DOMAIN s : Kind[s[i][1]] = "connections" <=> i <= n
  PROVE  /\ Connections(s) \in Seq(Counter) /\ Distinct(Connections(s))
         /\ Elems(Connections(s)) = {k \in Elems(s) : Kind[k[1]] = "connections"}
<1> DEFINE n == CHOOSE n \in 0..Len(s) :
                  \A i \in DOMAIN s : Kind[s[i][1]] = "connections" <=> i <= n
           t == SubSeq(s, 1, n)
<1>1. n \in 0..Len(s) /\ \A i \in DOMAIN s : Kind[s[i][1]] = "connections" <=> i <= n
  OBVIOUS
<1>2. Connections(s) = t
  BY DEF Connections
<1> HIDE DEF n
<1>3. DOMAIN s = 1..Len(s) /\ Len(s) \in Nat /\ \A i \in 1..Len(s) : s[i] \in Counter
  BY LenProperties, ElementOfSeq
<1>4. t \in Seq(Counter) /\ Len(t) = n /\ \A i \in 1..n : t[i] = s[i]
  BY <1>1, <1>3, SubSeqProperties
<1>5. DOMAIN t = 1..n
  BY <1>4, LenProperties
<1> HIDE DEF t
<1>6. Distinct(t)
  BY <1>1, <1>3, <1>4, <1>5 DEF Distinct
<1>7. Elems(t) = {k \in Elems(s) : Kind[k[1]] = "connections"}
  <2>1. ASSUME NEW i \in 1..n PROVE t[i] \in Elems(s) /\ Kind[t[i][1]] = "connections"
    BY <1>1, <1>3, <1>4 DEF Elems
  <2>2. ASSUME NEW i \in DOMAIN s, Kind[s[i][1]] = "connections" PROVE s[i] \in Elems(t)
    <3>1. i \in 1..n /\ t[i] = s[i]
      BY <2>2, <1>1, <1>3, <1>4
    <3> QED BY <3>1, <1>5 DEF Elems
  <2> QED BY <2>1, <2>2, <1>5 DEF Elems
<1> QED
  BY <1>2, <1>4, <1>6, <1>7

-----------------------------------------------------------------------------
(* TypeOK in parts, and what the keys of a request look like.              *)
KeysOK(s) == Distinct(s) /\ \E n \in 0..Len(s) : \A i \in DOMAIN s :
  Kind[s[i][1]] = "connections" <=> i <= n

PhaseOK ==
  /\ pc \in [Request -> Phases] /\ policy \in [Request -> Policy]
  /\ step \in [Request -> Nat \ {0}] /\ keys \in [Request -> Seq(Counter)]
  /\ \A r \in Request : KeysOK(keys[r])

TakenOK ==
  /\ undo \in [Request -> Seq(Counter)] /\ slot \in [Request -> Seq(Counter)]
  /\ timer \in [Request -> [Policy -> Seq(Counter)]]

DictOK ==
  /\ counter \in [Counter -> Int] /\ window \in 0..MaxWindow /\ failures \in 0..MaxFailures
  /\ lost \in [Counter -> Nat] /\ admitted \in [Counter -> Nat]

TypeInv == handling \in Handlings /\ PhaseOK /\ TakenOK /\ DictOK

LEMMA TypeInvMeans == TypeInv => TypeOK
  BY DEF TypeInv, PhaseOK, TakenOK, DictOK, TypeOK, Phases

LEMMA NoKeys == KeysOK(<<>>) /\ <<>> \in Seq(Counter)
  BY NoElems, EmptySeq DEF KeysOK

LEMMA ExitOK ==
  ASSUME PhaseOK, NEW r \in Request, NEW label \in Phases, Exit(r, label)
  PROVE  PhaseOK'
  BY PolicyNumbers, NoKeys DEF PhaseOK, Exit, Goto

LEMMA EnterOK ==
  ASSUME PhaseOK, NEW r \in Request, NEW p, Enter(r, p)
  PROVE  PhaseOK'
<1>1. CASE p \notin Policy /\ Exit(r, "proxied")
  BY <1>1, ExitOK DEF Phases
<1>2. CASE p \in Policy
  <2>1. /\ pc' = [pc EXCEPT ![r] = "access"] /\ policy' = [policy EXCEPT ![r] = p]
        /\ keys' = [keys EXCEPT ![r] = <<>>] /\ step' = [step EXCEPT ![r] = 1]
    BY <1>2 DEF Enter, Goto
  <2> QED
    BY <1>2, <2>1, NoKeys DEF PhaseOK, Phases
<1> QED
  BY <1>1, <1>2 DEF Enter

LEMMA RefuseOK ==
  ASSUME PhaseOK, NEW r \in Request, NEW type, Refuse(r, type)
  PROVE  PhaseOK'
  BY ExitOK, EnterOK DEF Refuse, Phases

LEMMA SelectOK ==
  ASSUME PhaseOK, window \in 0..MaxWindow, NEW r \in Request, Select(r)
  PROVE  PhaseOK'
<1>1. PICK s \in Chain[policy[r]] : keys' = [keys EXCEPT ![r] = KeysAt(s, window)]
  BY DEF Select, KeysAt
<1>2. KeysAt(s, window) \in Seq(Counter) /\ KeysOK(KeysAt(s, window))
  <2>1. policy[r] \in Policy
    BY DEF PhaseOK
  <2> QED
    BY <2>1, KeysAtOK DEF KeysOK
<1>3. pc' = [pc EXCEPT ![r] = "combine"] /\ UNCHANGED <<policy, step>>
  BY DEF Select, Goto
<1>4. /\ pc' \in [Request -> Phases] /\ policy' \in [Request -> Policy]
      /\ step' \in [Request -> Nat \ {0}] /\ keys' \in [Request -> Seq(Counter)]
  BY <1>1, <1>2, <1>3 DEF PhaseOK, Phases
<1>5. \A q \in Request : KeysOK(keys'[q])
  BY <1>1, <1>2 DEF PhaseOK
<1> QED
  BY <1>4, <1>5 DEF PhaseOK, KeysOK

LEMMA GotoOK ==
  ASSUME PhaseOK, NEW r \in Request, NEW label \in Phases,
         Goto(r, label), UNCHANGED <<policy, keys, step>>
  PROVE  PhaseOK'
  BY DEF PhaseOK, Goto

LEMMA NextStepOK == ASSUME PhaseOK, NEW r \in Request, NextStep(r) PROVE PhaseOK'
  BY DEF PhaseOK, NextStep

LEMMA AddMeans ==
  ASSUME counter \in [Counter -> Int], NEW k \in Counter, NEW n \in {-1, 1}, Add(k, n)
  PROVE  /\ counter' \in [Counter -> Int]
         /\ \A j \in Counter : Counted(j) =>
              counter'[j] = counter[j] + IF j = k THEN n ELSE 0
  BY DEF Add, Unit

LEMMA LoseMeans ==
  ASSUME lost \in [Counter -> Nat], NEW S, Lose(S)
  PROVE  /\ lost' \in [Counter -> Nat]
         /\ \A j \in Counter : lost'[j] = lost[j] + IF j \in S THEN 1 ELSE 0
  BY DEF Lose

LEMMA FailureOK == ASSUME failures \in 0..MaxFailures, Failure PROVE failures' \in 0..MaxFailures
  BY RateLimitAssumption DEF Failure

RollbackFacts == \A r \in Request :
  /\ Rollback(r) \in Seq(Counter) /\ Distinct(Rollback(r))
  /\ ~SomeCommitted(r) => Rollback(r) = <<>>
  /\ SomeCommitted(r) =>
       Elems(Rollback(r)) = {keys[r][i] : i \in (1..(step[r] - N(r) - 1)) \cup {N(r)}}

LEMMA RollbackOK == PhaseOK => RollbackFacts
<1> SUFFICES ASSUME PhaseOK, NEW r \in Request
    PROVE /\ Rollback(r) \in Seq(Counter) /\ Distinct(Rollback(r))
          /\ ~SomeCommitted(r) => Rollback(r) = <<>>
          /\ SomeCommitted(r) =>
               Elems(Rollback(r)) = {keys[r][i] : i \in (1..(step[r] - N(r) - 1)) \cup {N(r)}}
  BY DEF RollbackFacts
<1>1. keys[r] \in Seq(Counter) /\ Distinct(keys[r]) /\ step[r] \in Nat \ {0}
  BY DEF PhaseOK, KeysOK
<1>2. N(r) \in Nat /\ N(r) = Len(keys[r])
  BY <1>1, LenProperties DEF N
<1>3. CASE SomeCommitted(r)
  <2>1. step[r] - N(r) - 1 \in 0..(Len(keys[r]) - 1)
    BY <1>1, <1>2, <1>3 DEF SomeCommitted
  <2> QED
    BY <1>1, <1>2, <1>3, <2>1, PrefixAndLast DEF Rollback
<1>4. CASE ~SomeCommitted(r)
  BY <1>4, NoElems DEF Rollback
<1> QED
  BY <1>3, <1>4

(* The key that combine() is at, when it has one.                          *)
LEMMA KeyOK ==
  ASSUME PhaseOK, NEW r \in Request, step[r] \in 1..(2 * N(r))
  PROVE  /\ N(r) \in Nat \ {0} /\ DOMAIN keys[r] = 1..N(r) /\ Key(r) \in Counter
         /\ \E i \in 1..N(r) : Key(r) = keys[r][i]
                             /\ i = IF step[r] <= N(r) THEN step[r] ELSE step[r] - N(r)
<1>1. N(r) \in Nat /\ DOMAIN keys[r] = 1..N(r) /\ \A i \in 1..N(r) : keys[r][i] \in Counter
  BY LenProperties, ElementOfSeq DEF PhaseOK, N
<1>2. step[r] \in Nat \ {0}
  BY DEF PhaseOK
<1> QED
  BY <1>1, <1>2 DEF Key

-----------------------------------------------------------------------------
LEMMA TypeInvInit == Init => TypeInv
<1> SUFFICES ASSUME Init PROVE TypeInv
  OBVIOUS
<1> USE DEF Init
<1>1. PhaseOK
  BY PolicyNumbers, NoKeys DEF PhaseOK, Phases
<1>2. TakenOK
  BY NoKeys DEF TakenOK
<1>3. DictOK
  BY RateLimitAssumption DEF DictOK
<1> QED
  BY <1>1, <1>2, <1>3 DEF TypeInv

(* combine() and what its result leads to.                                 *)
LEMMA TypeInvAccess ==
  ASSUME TypeInv, NEW r \in Request,
         \/ Arrive(r) \/ ConnectFails(r) \/ Select(r) \/ Ask(r) \/ Commit(r) \/ CommitOver(r)
         \/ CommitFails(r) \/ TakeBack(r) \/ Uncommit(r) \/ RolledBack(r) \/ Admit(r)
  PROVE  TypeInv'
<1> USE DEF TypeInv
<1>1. CASE Arrive(r)
  BY <1>1, EnterOK DEF Arrive, TakenOK, DictOK
<1>2. CASE ConnectFails(r)
  BY <1>2, RefuseOK, FailureOK DEF ConnectFails, TakenOK, DictOK
<1>3. CASE Ask(r)
  <2>1. PhaseOK' /\ failures' \in 0..MaxFailures
    BY <1>3, RefuseOK, NextStepOK, FailureOK DEF Ask, DictOK
  <2> QED
    BY <1>3, <2>1 DEF Ask, TakenOK, DictOK
<1>4. ASSUME NEW n \in {-1, 1}, step[r] \in 1..(2 * N(r)), Add(Key(r), n)
      PROVE  counter' \in [Counter -> Int]
  BY <1>4, KeyOK, AddMeans DEF DictOK
<1>5. Committing(r) => step[r] \in 1..(2 * N(r))
  <2>1. step[r] \in Nat \ {0} /\ N(r) \in Nat
    BY LenProperties DEF PhaseOK, N
  <2> QED
    BY <2>1 DEF Committing
<1>6. CASE Commit(r)
  BY <1>4, <1>5, <1>6, NextStepOK DEF Commit, TakenOK, DictOK
<1>7. CASE CommitOver(r)
  BY <1>4, <1>5, <1>7, GotoOK DEF CommitOver, TakenOK, DictOK, Phases
<1>8. CASE CommitFails(r)
  <2>1. PhaseOK' /\ failures' \in 0..MaxFailures
    BY <1>8, GotoOK, FailureOK DEF CommitFails, DictOK, Phases, ErrorType
  <2>2. counter' \in [Counter -> Int] /\ lost' \in [Counter -> Nat]
    BY <1>4, <1>5, <1>8, LoseMeans DEF CommitFails, DictOK
  <2>3. TakenOK'
    BY <1>8, RollbackOK DEF RollbackFacts, CommitFails, TakenOK
  <2> QED
    BY <1>8, <2>1, <2>2, <2>3 DEF CommitFails, DictOK
<1>9. CASE TakeBack(r)
  <2>1. PhaseOK' /\ failures' \in 0..MaxFailures
    BY <1>9, GotoOK, FailureOK DEF TakeBack, DictOK, Phases, ErrorType
  <2>2. counter' \in [Counter -> Int]
    BY <1>9 DEF TakeBack, DictOK, Add, Unit
  <2>3. lost' \in [Counter -> Nat]
    BY <1>9, LoseMeans DEF TakeBack, DictOK
  <2>4. TakenOK'
    BY <1>9, RollbackOK DEF RollbackFacts, TakeBack, TakenOK
  <2> QED
    BY <1>9, <2>1, <2>2, <2>3, <2>4 DEF TakeBack, DictOK
<1>10. CASE Uncommit(r)
  <2>1. PhaseOK' /\ failures' \in 0..MaxFailures
    BY <1>10, FailureOK DEF Uncommit, DictOK, PhaseOK, phase
  <2>2. Head(undo[r]) \in Counter /\ Tail(undo[r]) \in Seq(Counter)
    BY <1>10, HeadTailProperties DEF Uncommit, TakenOK
  <2>3. counter' \in [Counter -> Int] /\ lost' \in [Counter -> Nat]
    BY <1>10, <2>2, AddMeans, LoseMeans DEF Uncommit, DictOK
  <2>4. TakenOK'
    BY <1>10, <2>2 DEF Uncommit, TakenOK
  <2> QED
    BY <1>10, <2>1, <2>3, <2>4 DEF Uncommit, DictOK
<1>11. CASE RolledBack(r)
  BY <1>11, RefuseOK DEF RolledBack, TakenOK, DictOK
<1>12. CASE Select(r)
  BY <1>12, SelectOK DEF Select, TakenOK, DictOK
<1>13. CASE Admit(r)
  <2>1. keys[r] \in Seq(Counter) /\ Connections(keys[r]) \in Seq(Counter)
    BY ConnectionsOf DEF PhaseOK, KeysOK
  <2>2. PhaseOK'
    BY <1>13, EnterOK DEF Admit, DictOK
  <2>3. TakenOK'
    BY <1>13, <2>1 DEF Admit, TakenOK
  <2>4. admitted' \in [Counter -> Nat]
    BY <1>13 DEF Admit, DictOK
  <2> QED
    BY <1>13, <2>2, <2>3, <2>4 DEF Admit, DictOK
<1> QED
  BY <1>1, <1>2, <1>3, <1>6, <1>7, <1>8, <1>9, <1>10, <1>11, <1>12, <1>13

(* The end of a request, and what may end it.                              *)
LEMMA TypeInvEnd ==
  ASSUME TypeInv, NEW r \in Request,
         \/ Finish(r) \/ Log(r) \/ Crash(r) \/ Abort(r)
         \/ \E p \in Policy : Leave(r, p) \/ LeaveFails(r, p)
  PROVE  TypeInv'
<1> USE DEF TypeInv
<1>1. CASE Finish(r)
  BY <1>1, GotoOK DEF Finish, TakenOK, DictOK, Phases
<1>2. CASE Log(r)
  <2>1. PhaseOK'
    BY <1>2, GotoOK DEF Log, Phases
  <2>2. failures' \in 0..MaxFailures /\ lost' \in [Counter -> Nat]
    BY <1>2, FailureOK, LoseMeans DEF Log, DictOK
  <2>3. timer' \in [Request -> [Policy -> Seq(Counter)]]
    BY <1>2, NoKeys DEF Log, TakenOK
  <2>4. TakenOK'
    BY <1>2, <2>3, NoKeys DEF Log, TakenOK
  <2> QED
    BY <1>2, <2>1, <2>2, <2>4 DEF Log, DictOK
<1>3. CASE Crash(r)
  <2>1. PhaseOK'
    BY <1>3, ExitOK DEF Crash, Phases
  <2>2. failures' \in 0..MaxFailures /\ lost' \in [Counter -> Nat]
    BY <1>3, FailureOK, LoseMeans DEF Crash, DictOK
  <2>3. TakenOK'
    BY <1>3, NoKeys DEF Crash, TakenOK
  <2> QED
    BY <1>3, <2>1, <2>2, <2>3 DEF Crash, DictOK
<1>4. CASE Abort(r)
  <2>1. PhaseOK'
    BY <1>4, ExitOK DEF Abort, Phases
  <2>2. failures' \in 0..MaxFailures /\ lost' \in [Counter -> Nat]
    BY <1>4, FailureOK, LoseMeans DEF Abort, DictOK
  <2>3. TakenOK'
    BY <1>4, NoKeys DEF Abort, TakenOK
  <2> QED
    BY <1>4, <2>1, <2>2, <2>3 DEF Abort, DictOK
<1>5. ASSUME NEW p \in Policy, timer[r][p] # <<>>
      PROVE  Head(timer[r][p]) \in Counter /\ Tail(timer[r][p]) \in Seq(Counter)
  BY <1>5, HeadTailProperties DEF TakenOK
<1>6. ASSUME NEW p \in Policy, Leave(r, p) PROVE TypeInv'
  <2>1. counter' \in [Counter -> Int]
    BY <1>5, <1>6, AddMeans DEF Leave, DictOK
  <2>2. TakenOK'
    BY <1>5, <1>6 DEF Leave, TakenOK
  <2> QED
    BY <1>6, <2>1, <2>2 DEF Leave, DictOK, PhaseOK, phase
<1>7. ASSUME NEW p \in Policy, LeaveFails(r, p) PROVE TypeInv'
  <2>1. counter' \in [Counter -> Int] /\ lost' \in [Counter -> Nat]
    BY <1>5, <1>7, AddMeans, LoseMeans DEF LeaveFails, DictOK
  <2>2. TakenOK'
    BY <1>7, NoKeys DEF LeaveFails, TakenOK
  <2>3. failures' \in 0..MaxFailures
    BY <1>7, FailureOK DEF LeaveFails, DictOK
  <2> QED
    BY <1>7, <2>1, <2>2, <2>3 DEF LeaveFails, DictOK, PhaseOK, phase
<1> QED
  BY <1>1, <1>2, <1>3, <1>4, <1>6, <1>7

LEMMA TypeInvNext == TypeInv /\ [Next]_vars => TypeInv'
<1> SUFFICES ASSUME TypeInv, [Next]_vars PROVE TypeInv'
  OBVIOUS
<1>1. CASE Tick
  BY <1>1, RateLimitAssumption
  DEF Tick, request, phase, TypeInv, PhaseOK, TakenOK, DictOK
<1>2. CASE UNCHANGED vars
  BY <1>2 DEF vars, request, phase, TypeInv, PhaseOK, TakenOK, DictOK
<1> QED
  BY <1>1, <1>2, TypeInvAccess, TypeInvEnd DEF Next

(* The types, of any chain of policies.                                    *)
THEOREM TypeCorrect == Spec => []TypeOK
<1>1. Spec => []TypeInv
  BY TypeInvInit, TypeInvNext, PTL DEF Spec
<1> QED
  BY <1>1, TypeInvMeans, PTL

-----------------------------------------------------------------------------
(* What can be accounted for: every counter if there is one policy, and    *)
(* windows for any chain.  Flow: where a request keeps its units.  Timers  *)
(* are empty while combine() runs, for the request that came before under  *)
(* this name is over and its timers too; with one policy so is the slot.   *)
OnePolicy  == Len(Chain) = 1
Tracked(k) == Counted(k) /\ (OnePolicy \/ Kind[k[1]] = "fixed_window")

IsConnections(s) == Distinct(s) /\ \A k \in Elems(s) : Kind[k[1]] = "connections"

Flow(r) ==
  /\ pc[r] = "access" => step[r] = 1
  /\ pc[r] = "combine" => (step[r] = 1 /\ N(r) = 0) \/ step[r] \in 1..(2 * N(r))
  /\ pc[r] = "takeback" => step[r] \in N(r)..(2 * N(r) - 1)
  /\ undo[r] # <<>> => pc[r] \in ErrorType
  /\ OnePolicy /\ slot[r] # <<>> => pc[r] \in {"proxied", "log"}
  /\ Distinct(undo[r]) /\ IsConnections(slot[r])
  /\ \A p \in Policy : /\ IsConnections(timer[r][p])
                       /\ timer[r][p] # <<>> => pc[r] = "over"

(* Units that are held, and those that are not taken back at once because  *)
(* they went over the limit.                                               *)
Has(r, k)   == k \in Holds(r)
Owns(r, k)  == Has(r, k) /\ ~(pc[r] = "takeback" /\ k = Key(r))
Holders(k)  == {r \in Request : Has(r, k)}
Owners(k)   == {r \in Request : Owns(r, k)}
Bit(b)      == IF b THEN 1 ELSE 0

(* The last conjunct is what makes the limits inductive: a counter is over *)
(* its limit only by units that are about to be taken back.                *)
Balanced(k) ==
  /\ counter[k] = Cardinality(Holders(k)) + admitted[k] + lost[k]
  /\ Cardinality(Owners(k)) + admitted[k] <= Limit[k[1]]

Inv == /\ TypeInv
       /\ \A r \in Request : Flow(r)
       /\ \A k \in Counter : Tracked(k) => Balanced(k)

LEMMA OnlyPolicy == ASSUME OnePolicy PROVE Policy = {1}
  BY PolicyNumbers DEF OnePolicy

LEMMA NoConnections == IsConnections(<<>>)
  BY NoElems DEF IsConnections

(* A tracked key is in a slot or a timer only if there is one policy.      *)
LEMMA OnlyInOne ==
  ASSUME NEW s, IsConnections(s), NEW k \in Counter, Tracked(k), k \in Elems(s)
  PROVE  OnePolicy
  BY DEF IsConnections, Tracked

(* What a request holds, by its place in access() and after.               *)
Place(r, k) ==
  /\ pc[r] = "access" => ~Has(r, k)
  /\ pc[r] = "combine"  => (Has(r, k) <=> k \in Elems(Rollback(r)))
  /\ pc[r] = "takeback" => (Has(r, k) <=> k \in Elems(Rollback(r)) \/ k = Key(r))
  /\ pc[r] \in ErrorType => (Has(r, k) <=> k \in Elems(undo[r]))
  /\ pc[r] \in {"proxied", "log"} => (Has(r, k) <=> k \in Elems(slot[r]))
  /\ pc[r] = "over"     => (Has(r, k) <=> k \in Elems(timer[r][1]))

Placed == \A r \in Request, k \in Counter : Flow(r) /\ Tracked(k) => Place(r, k)

LEMMA HoldsIn == Placed
<1> SUFFICES ASSUME NEW r \in Request, NEW k \in Counter, Flow(r), Tracked(k)
    PROVE Place(r, k)
  BY DEF Placed
<1>1. Has(r, k) <=> \/ k \in Committed(r) \/ k \in Elems(slot[r])
                    \/ \E p \in Policy : k \in Elems(timer[r][p])
  BY DEF Has, Holds
<1>2. k \in Elems(slot[r]) => pc[r] \in {"proxied", "log"}
  BY OnlyInOne, NoElems DEF Flow
<1>3. ASSUME NEW p \in Policy, k \in Elems(timer[r][p])
      PROVE  pc[r] = "over" /\ k \in Elems(timer[r][1])
  BY <1>3, OnlyInOne, OnlyPolicy, NoElems DEF Flow
<1>4. 1 \in Policy
  BY PolicyNumbers
<1> QED
  BY <1>1, <1>2, <1>3, <1>4 DEF Place, Committed, ErrorType

LEMMA HoldsThen ==
  ASSUME NEW r \in Request, NEW k \in Counter, Tracked(k)
  PROVE  (Flow(r) => Place(r, k)) /\ (Flow(r)' => Place(r, k)')
<1>1. Placed'
  BY HoldsIn, PTL
<1> QED
  BY <1>1, HoldsIn DEF Placed, Tracked, Counted, OnePolicy

(* What an action of a request does to the balance of a counter.           *)
Effect(r) == \A k \in Counter : Tracked(k) =>
  /\ counter'[k] - counter[k] =
       Bit(Has(r, k)') - Bit(Has(r, k)) + (admitted'[k] - admitted[k]) + (lost'[k] - lost[k])
  /\ \/ Bit(Owns(r, k)') + admitted'[k] <= Bit(Owns(r, k)) + admitted[k]
     \/ counter[k] < Limit[k[1]] /\ admitted'[k] = admitted[k]

Alone(r) == \A q \in Request \ {r} :
  UNCHANGED <<pc[q], keys[q], step[q], undo[q], slot[q], timer[q]>>

LEMMA OthersStay ==
  ASSUME NEW r, Alone(r), NEW q \in Request \ {r}
  PROVE  (Flow(q) => Flow(q)') /\ \A k : (Has(q, k)' <=> Has(q, k)) /\ (Owns(q, k)' <=> Owns(q, k))
<1>1. UNCHANGED <<pc[q], keys[q], step[q], undo[q], slot[q], timer[q]>>
  BY DEF Alone
<1>2. N(q)' = N(q) /\ Key(q)' = Key(q) /\ (SomeCommitted(q)' <=> SomeCommitted(q))
  BY <1>1 DEF N, Key, SomeCommitted
<1>3. Rollback(q)' = Rollback(q)
  BY <1>1, <1>2 DEF Rollback
<1>4. Holds(q)' = Holds(q)
  BY <1>1, <1>2, <1>3 DEF Holds, Committed
<1>5. Flow(q) => Flow(q)'
  BY <1>1, <1>2 DEF Flow
<1> QED
  BY <1>1, <1>2, <1>4, <1>5 DEF Has, Owns

(* A set of requests of which one has changed.                             *)
LEMMA OneChanged ==
  ASSUME NEW A \in SUBSET Request, NEW B \in SUBSET Request, NEW r \in Request,
         \A q \in Request \ {r} : q \in B <=> q \in A
  PROVE  /\ Cardinality(A) \in Nat /\ Cardinality(B) \in Nat
         /\ Cardinality(B) = Cardinality(A) + Bit(r \in B) - Bit(r \in A)
<1>1. IsFiniteSet(A) /\ IsFiniteSet(B)
  BY RateLimitAssumption, FS_Subset
<1>2. Cardinality(A) \in Nat /\ Cardinality(B) \in Nat
  BY <1>1, FS_CardinalityType
<1>3. CASE r \in A /\ r \notin B
  <2>1. B = A \ {r}
    BY <1>3
  <2> QED
    BY <1>1, <1>2, <1>3, <2>1, FS_RemoveElement DEF Bit
<1>4. CASE r \in B /\ r \notin A
  <2>1. B = A \cup {r}
    BY <1>4
  <2> QED
    BY <1>1, <1>2, <1>4, <2>1, FS_AddElement DEF Bit
<1>5. CASE r \in A <=> r \in B
  <2>1. A = B
    BY <1>5
  <2> QED
    BY <1>2, <2>1 DEF Bit
<1> QED
  BY <1>2, <1>3, <1>4, <1>5

LEMMA EffectKeeps ==
  ASSUME Inv, TypeInv', NEW r \in Request, Alone(r), Flow(r)', Effect(r)
  PROVE  Inv'
<1>1. ASSUME NEW q \in Request PROVE Flow(q)'
  BY OthersStay DEF Inv
<1>2. ASSUME NEW k \in Counter, Tracked(k) PROVE Balanced(k)'
  <2>1. /\ Cardinality(Holders(k)) \in Nat /\ Cardinality(Holders(k)') \in Nat
        /\ Cardinality(Holders(k)') = Cardinality(Holders(k)) + Bit(Has(r, k)') - Bit(Has(r, k))
    <3>1. \A q \in Request \ {r} : q \in Holders(k)' <=> q \in Holders(k)
      BY OthersStay DEF Holders
    <3>2. Holders(k) \in SUBSET Request /\ Holders(k)' \in SUBSET Request
      BY DEF Holders
    <3>3. (r \in Holders(k) <=> Has(r, k)) /\ (r \in Holders(k)' <=> Has(r, k)')
      BY DEF Holders
    <3>4. Cardinality(Holders(k)') =
            Cardinality(Holders(k)) + Bit(r \in Holders(k)') - Bit(r \in Holders(k))
      BY <3>1, <3>2, OneChanged
    <3> QED
      BY <3>1, <3>2, <3>3, <3>4, OneChanged DEF Bit
  <2>2. /\ Cardinality(Owners(k)) \in Nat /\ Cardinality(Owners(k)') \in Nat
        /\ Cardinality(Owners(k)') = Cardinality(Owners(k)) + Bit(Owns(r, k)') - Bit(Owns(r, k))
    <3>1. \A q \in Request \ {r} : q \in Owners(k)' <=> q \in Owners(k)
      BY OthersStay DEF Owners
    <3>2. Owners(k) \in SUBSET Request /\ Owners(k)' \in SUBSET Request
      BY DEF Owners
    <3>3. (r \in Owners(k) <=> Owns(r, k)) /\ (r \in Owners(k)' <=> Owns(r, k)')
      BY DEF Owners
    <3>4. Cardinality(Owners(k)') =
            Cardinality(Owners(k)) + Bit(r \in Owners(k)') - Bit(r \in Owners(k))
      BY <3>1, <3>2, OneChanged
    <3> QED
      BY <3>1, <3>2, <3>3, <3>4, OneChanged DEF Bit
  <2>3. Cardinality(Owners(k)) <= Cardinality(Holders(k))
    BY RateLimitAssumption, FS_Subset DEF Owners, Holders, Owns
  <2>4. /\ counter[k] \in Int /\ counter'[k] \in Int /\ Limit[k[1]] \in Nat
        /\ {lost[k], lost'[k], admitted[k], admitted'[k]} \subseteq Nat
    BY RateLimitAssumption DEF Inv, TypeInv, DictOK, Counter
  <2>5. /\ counter[k] = Cardinality(Holders(k)) + admitted[k] + lost[k]
        /\ Cardinality(Owners(k)) + admitted[k] <= Limit[k[1]]
    BY <1>2 DEF Inv, Balanced
  <2>6. /\ counter'[k] - counter[k] =
             Bit(Has(r, k)') - Bit(Has(r, k)) + (admitted'[k] - admitted[k]) + (lost'[k] - lost[k])
        /\ \/ Bit(Owns(r, k)') + admitted'[k] <= Bit(Owns(r, k)) + admitted[k]
           \/ counter[k] < Limit[k[1]] /\ admitted'[k] = admitted[k]
    BY <1>2 DEF Effect
  <2>7. {Bit(Has(r, k)'), Bit(Has(r, k)), Bit(Owns(r, k)'), Bit(Owns(r, k))} \subseteq {0, 1}
    BY DEF Bit
  <2>8. counter'[k] = Cardinality(Holders(k)') + admitted'[k] + lost'[k]
    BY <2>1, <2>4, <2>5, <2>6, <2>7
  <2>9. Cardinality(Owners(k)') + admitted'[k] <= Limit[k[1]]
    BY <2>1, <2>2, <2>3, <2>4, <2>5, <2>6, <2>7
  <2> QED
    BY <2>8, <2>9 DEF Balanced
<1> QED
  BY <1>1, <1>2 DEF Inv, Tracked, Counted, OnePolicy

-----------------------------------------------------------------------------
(* The key that is committed is none of those committed before ...         *)
LEMMA KeyNotTaken ==
  ASSUME PhaseOK, NEW r \in Request, step[r] \in N(r)..(2 * N(r) - 1)
  PROVE  Key(r) \notin Elems(Rollback(r))
<1>1. step[r] \in Nat \ {0} /\ N(r) \in Nat
  BY LenProperties DEF PhaseOK, N
<1>2. /\ N(r) > 0 /\ DOMAIN keys[r] = 1..N(r)
      /\ \E i \in 1..N(r) : Key(r) = keys[r][i]
                          /\ i = IF step[r] <= N(r) THEN step[r] ELSE step[r] - N(r)
  BY <1>1, KeyOK
<1>3. CASE step[r] = N(r)
  BY <1>1, <1>3, NoElems DEF Rollback, SomeCommitted
<1>4. CASE step[r] > N(r)
  <2>1. Elems(Rollback(r)) = {keys[r][i] : i \in (1..(step[r] - N(r) - 1)) \cup {N(r)}}
    BY <1>1, <1>4, RollbackOK DEF RollbackFacts, SomeCommitted
  <2>2. Key(r) = keys[r][step[r] - N(r)] /\ step[r] - N(r) \in 1..(N(r) - 1)
    BY <1>1, <1>2, <1>4
  <2>3. Distinct(keys[r])
    BY DEF PhaseOK, KeysOK
  <2>4. ASSUME NEW i \in (1..(step[r] - N(r) - 1)) \cup {N(r)} PROVE keys[r][i] # Key(r)
    <3>1. i \in 1..N(r) /\ i # step[r] - N(r) /\ step[r] - N(r) \in 1..N(r)
      BY <1>1, <2>2
    <3> QED
      BY <1>2, <2>2, <2>3, <3>1 DEF Distinct
  <2> QED
    BY <2>1, <2>4
<1> QED
  BY <1>1, <1>3, <1>4

(* ... and joins those that a refusal uncommits.                           *)
LEMMA OneMore ==
  ASSUME PhaseOK, NEW r \in Request, step[r] \in N(r)..(2 * N(r) - 1),
         PhaseOK', step'[r] = step[r] + 1, keys'[r] = keys[r]
  PROVE  Elems(Rollback(r)') = Elems(Rollback(r)) \cup {Key(r)} /\ Key(r) \notin Elems(Rollback(r))
<1>1. step[r] \in Nat \ {0} /\ N(r) \in Nat /\ N(r)' = N(r)
  BY LenProperties DEF PhaseOK, N
<1>2. /\ N(r) > 0
      /\ \E i \in 1..N(r) : Key(r) = keys[r][i]
                          /\ i = IF step[r] <= N(r) THEN step[r] ELSE step[r] - N(r)
  BY <1>1, KeyOK
<1>3. Elems(Rollback(r)') = {keys[r][i] : i \in (1..(step[r] - N(r))) \cup {N(r)}}
  <2>1. SomeCommitted(r)'
    BY <1>1 DEF SomeCommitted
  <2>2. Elems(Rollback(r)') = {keys'[r][i] : i \in (1..(step'[r] - N(r)' - 1)) \cup {N(r)'}}
    <3>1. (PhaseOK => RollbackFacts)'
      BY RollbackOK, PTL
    <3> QED
      BY <2>1, <3>1 DEF RollbackFacts
  <2>3. step'[r] - N(r)' - 1 = step[r] - N(r)
    BY <1>1
  <2> QED
    BY <1>1, <2>2, <2>3
<1>4. CASE step[r] = N(r)
  <2>1. Rollback(r) = <<>>
    BY <1>1, <1>4 DEF Rollback, SomeCommitted
  <2>2. Key(r) = keys[r][N(r)] /\ step[r] - N(r) = 0
    BY <1>1, <1>2, <1>4
  <2>3. (1..(step[r] - N(r))) = {}
    BY <2>2
  <2>4. Elems(Rollback(r)') = {keys[r][N(r)]}
    BY <1>3, <2>3
  <2> QED
    BY <2>1, <2>2, <2>4, NoElems
<1>5. CASE step[r] > N(r)
  <2>1. Elems(Rollback(r)) = {keys[r][i] : i \in (1..(step[r] - N(r) - 1)) \cup {N(r)}}
    BY <1>1, <1>5, RollbackOK DEF RollbackFacts, SomeCommitted
  <2>2. Key(r) = keys[r][step[r] - N(r)] /\ step[r] - N(r) \in 1..(N(r) - 1)
    BY <1>1, <1>2, <1>5
  <2>3. (1..(step[r] - N(r))) = (1..(step[r] - N(r) - 1)) \cup {step[r] - N(r)}
    BY <2>2, <1>1
  <2> QED
    BY <1>3, <2>1, <2>2, <2>3, KeyNotTaken
<1> QED
  BY <1>1, <1>4, <1>5

(* A refusal, an admission or an arrival goes on in a policy or upstream.  *)
LEMMA Onwards ==
  ASSUME PhaseOK, NEW r \in Request, NEW p, Enter(r, p),
         \A q \in Request \ {r} : UNCHANGED <<undo[q], slot[q], timer[q]>>
  PROVE  /\ Alone(r)
         /\ pc'[r] = "proxied" \/ (pc'[r] = "access" /\ p \in Policy /\ step'[r] = 1)
  BY DEF PhaseOK, Enter, Exit, Goto, Alone

LEMMA ExitAlone ==
  ASSUME PhaseOK, NEW r \in Request, NEW label \in Phases, Exit(r, label),
         \A q \in Request \ {r} : UNCHANGED <<undo[q], slot[q], timer[q]>>
  PROVE  Alone(r) /\ pc'[r] = label
  BY DEF PhaseOK, Exit, Goto, Alone

LEMMA GotoAlone ==
  ASSUME PhaseOK, NEW r \in Request, NEW label \in Phases,
         Goto(r, label), UNCHANGED <<keys, step>>,
         \A q \in Request \ {r} : UNCHANGED <<undo[q], slot[q], timer[q]>>
  PROVE  Alone(r) /\ pc'[r] = label
  BY DEF PhaseOK, Goto, Alone

(* With one policy whoever leaves it is not in combine() again.            *)
LEMMA LastPolicy ==
  ASSUME OnePolicy, PhaseOK, NEW r \in Request
  PROVE  policy[r] + 1 \notin Policy
  BY OnlyPolicy DEF PhaseOK

(* The same units before and after.                                        *)
LEMMA NoEffect ==
  ASSUME TypeInv, NEW r \in Request,
         \A k \in Counter : Tracked(k) => (Has(r, k)' <=> Has(r, k)),
         pc[r] # "takeback", pc'[r] # "takeback", UNCHANGED <<counter, lost, admitted>>
  PROVE  Effect(r)
<1> SUFFICES ASSUME NEW k \in Counter, Tracked(k)
    PROVE /\ counter'[k] - counter[k] = Bit(Has(r, k)') - Bit(Has(r, k))
               + (admitted'[k] - admitted[k]) + (lost'[k] - lost[k])
          /\ Bit(Owns(r, k)') + admitted'[k] <= Bit(Owns(r, k)) + admitted[k]
  BY DEF Effect
<1>1. (Has(r, k)' <=> Has(r, k)) /\ (Owns(r, k)' <=> Owns(r, k))
  BY DEF Owns
<1>2. counter[k] \in Int /\ admitted[k] \in Int /\ lost[k] \in Int
  BY DEF TypeInv, DictOK
<1> QED
  BY <1>1, <1>2 DEF Bit

(* A request that is refused holds nothing any more.                       *)
LEMMA Refused ==
  ASSUME Inv, TypeInv', NEW r \in Request, NEW type, Refuse(r, type),
         pc[r] \in {"access", "combine"} \cup ErrorType,
         \A k \in Counter : Tracked(k) => ~Has(r, k), undo[r] = <<>>,
         UNCHANGED <<undo, slot, timer, counter, lost, admitted>>
  PROVE  Alone(r) /\ Flow(r)' /\ Effect(r)
<1> USE DEF Inv, TypeInv
<1>1. Flow(r)
  OBVIOUS
<1>2. Alone(r) /\ (pc'[r] \in {"log", "proxied"} \/ (pc'[r] = "access" /\ step'[r] = 1))
  BY Onwards, ExitAlone DEF Refuse, Phases
<1>3. OnePolicy => slot[r] = <<>>
  BY <1>1 DEF Flow, ErrorType
<1>4. \A p \in Policy : timer[r][p] = <<>>
  BY <1>1 DEF Flow, ErrorType
<1>5. Flow(r)'
  BY <1>1, <1>2, <1>3, <1>4 DEF Flow
<1>6. ASSUME NEW k \in Counter, Tracked(k) PROVE ~Has(r, k)'
  <2>1. k \notin Elems(slot[r])
    BY <1>1, <1>3, <1>6, OnlyInOne, NoElems DEF Flow
  <2> QED
    BY <1>2, <1>5, <1>6, <2>1, HoldsThen, NoElems DEF Place
<1> QED
  BY <1>2, <1>5, <1>6, NoEffect DEF ErrorType

-----------------------------------------------------------------------------
(* The actions of access().                                                *)
LEMMA Arriving ==
  ASSUME Inv, TypeInv', NEW r \in Request, Arrive(r)
  PROVE  Alone(r) /\ Flow(r)' /\ Effect(r)
<1> USE DEF Inv, TypeInv
<1>1. pc[r] = "over" /\ (\A p \in Policy : timer[r][p] = <<>>) /\ Flow(r) /\ 1 \in Policy
  BY PolicyNumbers DEF Arrive, Idle
<1>2. Alone(r) /\ pc'[r] = "access" /\ step'[r] = 1
  <2>1. Enter(r, 1) /\ pc'[r] # "proxied"
    BY <1>1 DEF Arrive, Enter, Goto, PhaseOK
  <2> QED
    BY <2>1, Onwards DEF Arrive
<1>3. UNCHANGED <<undo[r], slot[r], timer[r]>> /\ undo[r] = <<>>
  BY <1>1 DEF Arrive, Flow, ErrorType
<1>4. Flow(r)'
  BY <1>1, <1>2, <1>3, NoElems DEF Flow
<1>5. \A k \in Counter : Tracked(k) => ~Has(r, k) /\ ~Has(r, k)'
  BY <1>1, <1>2, <1>4, HoldsThen, NoElems DEF Place
<1> QED
  BY <1>1, <1>2, <1>4, <1>5, NoEffect DEF Arrive

(* Before the first commit there is nothing to give back.                  *)
LEMMA NothingYet ==
  ASSUME Inv, NEW r \in Request,
         pc[r] = "access" \/ (pc[r] = "combine" /\ ~SomeCommitted(r))
  PROVE  (\A k \in Counter : Tracked(k) => ~Has(r, k)) /\ undo[r] = <<>>
<1>1. ~SomeCommitted(r) => Rollback(r) = <<>>
  BY RollbackOK DEF Inv, TypeInv, RollbackFacts
<1>2. Flow(r) /\ undo[r] = <<>>
  BY DEF Inv, Flow, ErrorType
<1> QED
  BY <1>1, <1>2, HoldsThen, NoElems DEF Place

LEMMA Selecting ==
  ASSUME Inv, TypeInv', NEW r \in Request, Select(r)
  PROVE  Alone(r) /\ Flow(r)' /\ Effect(r)
<1> USE DEF Inv, TypeInv
<1>1. pc[r] = "access" /\ Flow(r) /\ step[r] = 1
  BY DEF Select, Flow
<1>2. /\ pc' = [pc EXCEPT ![r] = "combine"] /\ \A q \in Request \ {r} : keys'[q] = keys[q]
      /\ UNCHANGED <<step, undo, slot, timer, counter, lost, admitted>>
  BY DEF Select, Goto, PhaseOK
<1>3. Alone(r) /\ pc'[r] = "combine" /\ step'[r] = 1
  BY <1>1, <1>2 DEF Alone, PhaseOK
<1>4. N(r)' \in Nat
  BY LenProperties DEF PhaseOK, N
<1>5. Rollback(r)' = <<>>
  BY <1>3, <1>4 DEF Rollback, SomeCommitted
<1>6. (step'[r] = 1 /\ N(r)' = 0) \/ step'[r] \in 1..(2 * N(r)')
  BY <1>3, <1>4
<1>7. Flow(r)'
  BY <1>1, <1>2, <1>3, <1>6 DEF Flow, ErrorType
<1>8. \A k \in Counter : Tracked(k) => ~Has(r, k) /\ ~Has(r, k)'
  BY <1>1, <1>3, <1>5, <1>7, NothingYet, HoldsThen, NoElems DEF Place
<1> QED
  BY <1>1, <1>2, <1>3, <1>7, <1>8, NoEffect

LEMMA Asking ==
  ASSUME Inv, TypeInv', NEW r \in Request, Ask(r) \/ ConnectFails(r)
  PROVE  Alone(r) /\ Flow(r)' /\ Effect(r)
<1> USE DEF Inv, TypeInv
<1>1. step[r] \in Nat \ {0} /\ N(r) \in Nat
  BY LenProperties DEF PhaseOK, N
<1>2. CASE ConnectFails(r)
  <2>1. pc[r] = "access" /\ Refuse(r, "configuration_issue")
    BY <1>2 DEF ConnectFails
  <2>2. (\A k \in Counter : Tracked(k) => ~Has(r, k)) /\ undo[r] = <<>>
    BY <2>1, NothingYet
  <2> QED
    BY <1>2, <2>1, <2>2, Refused DEF ConnectFails
<1>3. CASE Ask(r)
  <2>1. pc[r] = "combine" /\ step[r] < N(r) /\ Flow(r) /\ ~SomeCommitted(r)
    BY <1>1, <1>3 DEF Ask, DryRun, SomeCommitted
  <2>2. (\A k \in Counter : Tracked(k) => ~Has(r, k)) /\ undo[r] = <<>>
    BY <2>1, NothingYet
  <2>3. CASE Refuse(r, "limits_exceeded")
    BY <1>3, <2>1, <2>2, <2>3, Refused DEF Ask
  <2>4. CASE NextStep(r)
    <3>1. /\ step' = [step EXCEPT ![r] = step[r] + 1]
          /\ UNCHANGED <<pc, keys, undo, slot, timer, counter, lost, admitted>>
      BY <1>3, <2>4 DEF Ask, NextStep
    <3>2. N(r)' = N(r) /\ step'[r] = step[r] + 1
      BY <3>1 DEF N, PhaseOK
    <3>3. Alone(r)
      BY <3>1 DEF Alone, PhaseOK
    <3>4. Flow(r)'
      BY <1>1, <2>1, <3>1, <3>2 DEF Flow
    <3>5. Rollback(r)' = <<>>
      BY <1>1, <2>1, <3>2 DEF Rollback, SomeCommitted
    <3>6. \A k \in Counter : Tracked(k) => ~Has(r, k)'
      BY <2>1, <3>1, <3>4, <3>5, HoldsThen, NoElems DEF Place
    <3> QED
      BY <2>1, <2>2, <3>1, <3>3, <3>4, <3>6, NoEffect
  <2> QED
    BY <1>3, <2>3, <2>4 DEF Ask
<1> QED
  BY <1>2, <1>3

(* One key more is held, and whether it fits was looked at.                *)
LEMMA AtACommit ==
  ASSUME Inv, TypeInv', NEW r \in Request, Commit(r) \/ CommitOver(r)
  PROVE  Alone(r) /\ Flow(r)' /\ Effect(r)
<1> USE DEF Inv, TypeInv
<1>1. step[r] \in Nat \ {0} /\ N(r) \in Nat /\ pc[r] = "combine" /\ Flow(r)
  BY LenProperties DEF PhaseOK, N, Commit, CommitOver, Committing
<1>2. step[r] \in N(r)..(2 * N(r) - 1) /\ step[r] \in 1..(2 * N(r))
  BY <1>1 DEF Commit, CommitOver, Committing
<1>3. PICK key \in Counter : key = Key(r)
  BY <1>2, KeyOK
<1>4. Add(key, 1) /\ UNCHANGED <<keys, undo, slot, timer, lost, admitted>>
  BY <1>3 DEF Commit, CommitOver, NextStep
<1>5. \A k \in Counter : Counted(k) => counter'[k] = counter[k] + IF k = key THEN 1 ELSE 0
  BY <1>4, AddMeans DEF DictOK
<1>6. N(r)' = N(r)
  BY <1>4 DEF N
<1>7. \A k \in Counter : Tracked(k) =>
        (Has(r, k) <=> k \in Elems(Rollback(r))) /\ (Owns(r, k) <=> Has(r, k))
  BY <1>1, HoldsThen DEF Place, Owns
<1>8. \A k \in Counter : counter[k] \in Int /\ admitted[k] \in Nat /\ lost[k] \in Nat
  BY DEF DictOK
<1>9. CASE Commit(r)
  <2>1. step' = [step EXCEPT ![r] = step[r] + 1] /\ pc' = pc
    BY <1>9 DEF Commit, NextStep
  <2>2. step'[r] = step[r] + 1 /\ keys'[r] = keys[r] /\ pc'[r] = "combine"
    BY <1>1, <1>4, <2>1 DEF PhaseOK
  <2>3. Alone(r)
    BY <1>4, <2>1 DEF Alone, PhaseOK
  <2>4. Flow(r)'
    BY <1>1, <1>2, <1>4, <1>6, <2>2 DEF Flow
  <2>5. Elems(Rollback(r)') = Elems(Rollback(r)) \cup {key} /\ key \notin Elems(Rollback(r))
    BY <1>2, <1>3, <2>2, OneMore
  <2>6. ASSUME NEW k \in Counter, Tracked(k)
        PROVE  (Has(r, k)' <=> Has(r, k) \/ k = key) /\ (Owns(r, k)' <=> Has(r, k)')
    <3>1. Has(r, k)' <=> Has(r, k) \/ k = key
      BY <1>7, <2>2, <2>4, <2>5, <2>6, HoldsThen DEF Place
    <3>2. Owns(r, k)' <=> Has(r, k)'
      BY <2>2 DEF Owns
    <3> QED
      BY <3>1, <3>2
  <2>7. Tracked(key) => ~Has(r, key) /\ counter[key] < Limit[key[1]]
    BY <1>3, <1>7, <1>9, <2>5 DEF Commit, Fits, Tracked
  <2>8. Effect(r)
    BY <1>4, <1>5, <1>7, <1>8, <2>6, <2>7 DEF Effect, Bit, Tracked
  <2> QED
    BY <2>3, <2>4, <2>8
<1>10. CASE CommitOver(r)
  <2>1. pc' = [pc EXCEPT ![r] = "takeback"] /\ step' = step
    BY <1>10 DEF CommitOver, Goto
  <2>2. step'[r] = step[r] /\ keys'[r] = keys[r] /\ pc'[r] = "takeback"
    BY <1>4, <2>1 DEF PhaseOK
  <2>3. Alone(r)
    BY <1>4, <2>1 DEF Alone, PhaseOK
  <2>4. Flow(r)'
    BY <1>1, <1>2, <1>4, <1>6, <2>2 DEF Flow, ErrorType
  <2>5. Rollback(r)' = Rollback(r) /\ Key(r)' = key
    BY <1>3, <1>6, <2>2 DEF Rollback, SomeCommitted, Key
  <2>6. Tracked(key) => ~Has(r, key)
    BY <1>2, <1>3, <1>7, KeyNotTaken
  <2>7. ASSUME NEW k \in Counter, Tracked(k)
        PROVE  (Has(r, k)' <=> Has(r, k) \/ k = key) /\ (Owns(r, k)' <=> Has(r, k))
    <3>1. Has(r, k)' <=> Has(r, k) \/ k = key
      BY <1>7, <2>2, <2>4, <2>5, <2>7, HoldsThen DEF Place
    <3>2. Owns(r, k)' <=> Has(r, k)' /\ k # key
      BY <2>2, <2>5 DEF Owns
    <3> QED
      BY <2>6, <2>7, <3>1, <3>2
  <2>8. Effect(r)
    BY <1>4, <1>5, <1>7, <1>8, <2>6, <2>7 DEF Effect, Bit, Tracked
  <2> QED
    BY <2>3, <2>4, <2>8
<1> QED
  BY <1>9, <1>10

(* Units are given back to their counters, or a failure leaves them there. *)
LEMMA GivesBack ==
  ASSUME TypeInv, TypeInv', NEW r \in Request, NEW D, pc'[r] # "takeback",
         admitted' = admitted,
         \A k \in Counter : Tracked(k) =>
           /\ Has(r, k)' <=> Has(r, k) /\ k \notin D
           /\ k \in D => Has(r, k)
           /\ pc[r] = "takeback" /\ k = Key(r) => k \in D
           /\ counter'[k] - counter[k] = lost'[k] - lost[k] - IF k \in D THEN 1 ELSE 0
  PROVE  Effect(r)
<1> SUFFICES ASSUME NEW k \in Counter, Tracked(k)
    PROVE /\ counter'[k] - counter[k] = Bit(Has(r, k)') - Bit(Has(r, k))
               + (admitted'[k] - admitted[k]) + (lost'[k] - lost[k])
          /\ Bit(Owns(r, k)') + admitted'[k] <= Bit(Owns(r, k)) + admitted[k]
  BY DEF Effect
<1>1. /\ Has(r, k)' <=> Has(r, k) /\ k \notin D
      /\ k \in D => Has(r, k)
      /\ Owns(r, k)' <=> Has(r, k)'
      /\ Has(r, k)' => Owns(r, k)
  BY DEF Owns
<1>2. /\ counter[k] \in Int /\ admitted[k] \in Nat /\ lost[k] \in Nat
      /\ counter'[k] \in Int /\ lost'[k] \in Nat
  BY DEF TypeInv, DictOK
<1> QED
  BY <1>1, <1>2 DEF Bit

(* A unit goes back to its counter, or is left behind.                     *)
LEMMA Back ==
  ASSUME DictOK, NEW key \in Counter,
         (Add(key, -1) /\ lost' = lost) \/ (Lose({key}) /\ counter' = counter),
         NEW k \in Counter, Tracked(k)
  PROVE  counter'[k] - counter[k] = lost'[k] - lost[k] - IF k \in {key} THEN 1 ELSE 0
<1>1. CASE Add(key, -1) /\ lost' = lost
  <2>1. counter'[k] = counter[k] + IF k = key THEN -1 ELSE 0
    BY <1>1, AddMeans DEF DictOK, Tracked
  <2> QED
    BY <1>1, <2>1 DEF DictOK
<1>2. CASE Lose({key}) /\ counter' = counter
  <2>1. lost'[k] = lost[k] + IF k \in {key} THEN 1 ELSE 0
    BY <1>2, LoseMeans DEF DictOK
  <2> QED
    BY <1>2, <2>1 DEF DictOK
<1> QED
  BY <1>1, <1>2

LEMMA AtARefusal ==
  ASSUME Inv, TypeInv', NEW r \in Request, CommitFails(r) \/ TakeBack(r)
  PROVE  Alone(r) /\ Flow(r)' /\ Effect(r)
<1> USE DEF Inv, TypeInv
<1>1. step[r] \in Nat \ {0} /\ N(r) \in Nat /\ Flow(r)
  BY LenProperties DEF PhaseOK, N
<1>2. step[r] \in N(r)..(2 * N(r) - 1) /\ step[r] \in 1..(2 * N(r))
  BY <1>1 DEF Flow, CommitFails, Committing, TakeBack
<1>3. PICK key \in Counter : key = Key(r)
  BY <1>2, KeyOK
<1>4. /\ \E type \in ErrorType : pc' = [pc EXCEPT ![r] = type]
      /\ undo' = [undo EXCEPT ![r] = Rollback(r)]
      /\ UNCHANGED <<keys, step, slot, timer, admitted>>
  BY DEF CommitFails, TakeBack, Goto, ErrorType
<1>5. Alone(r)
  BY <1>4 DEF Alone, PhaseOK, TakenOK
<1>6. pc'[r] \in ErrorType /\ undo'[r] = Rollback(r) /\ pc[r] \in {"combine", "takeback"}
  BY <1>1, <1>4 DEF PhaseOK, TakenOK, CommitFails, Committing, TakeBack
<1>7. Flow(r)'
  <2>1. (OnePolicy => slot[r] = <<>>) /\ \A p \in Policy : timer[r][p] = <<>>
    BY <1>1, <1>6 DEF Flow
  <2> QED
    BY <1>1, <1>4, <1>6, <2>1, RollbackOK DEF Flow, RollbackFacts, ErrorType
<1>8. \A k \in Counter : Tracked(k) => (Has(r, k)' <=> k \in Elems(Rollback(r)))
  BY <1>6, <1>7, HoldsThen DEF Place
<1>9. CASE CommitFails(r)
  <2> DEFINE none == {}
  <2> HIDE DEF none
  <2>1. pc[r] = "combine"
    BY <1>9 DEF CommitFails, Committing
  <2>2. ASSUME NEW k \in Counter, Tracked(k)
        PROVE  /\ Has(r, k)' <=> Has(r, k) /\ k \notin none
               /\ counter'[k] - counter[k] = lost'[k] - lost[k] - IF k \in none THEN 1 ELSE 0
    <3>1. counter'[k] - counter[k] = lost'[k] - lost[k]
      <4> counter[k] \in Int /\ lost[k] \in Nat
        BY DEF DictOK
      <4>1. CASE UNCHANGED <<counter, lost>>
        BY <4>1
      <4>2. CASE Add(key, 1) /\ Lose({key})
        <5>1. counter'[k] = counter[k] + IF k = key THEN 1 ELSE 0
          BY <2>2, <4>2, AddMeans DEF DictOK, Tracked
        <5>2. lost'[k] = lost[k] + IF k \in {key} THEN 1 ELSE 0
          BY <4>2, LoseMeans DEF DictOK
        <5> QED
          BY <5>1, <5>2
      <4>3. UNCHANGED <<counter, lost>> \/ (Add(key, 1) /\ Lose({key}))
        BY <1>3, <1>9 DEF CommitFails
      <4> QED
        BY <4>1, <4>2, <4>3
    <3>2. Has(r, k)' <=> Has(r, k) /\ k \notin none
      BY <1>1, <1>8, <2>1, <2>2, HoldsThen DEF Place, none
    <3>3. lost[k] \in Nat /\ lost'[k] \in Nat
      BY DEF DictOK
    <3> QED
      BY <3>1, <3>2, <3>3 DEF none
  <2>3. Effect(r)
    <3>1. pc'[r] # "takeback" /\ \A k : k \notin none
      BY <1>6 DEF none, ErrorType
    <3> QED
      BY <1>4, <2>1, <2>2, <3>1, GivesBack
  <2> QED
    BY <1>5, <1>7, <2>3
<1>10. CASE TakeBack(r)
  <2>1. pc[r] = "takeback" /\ key \notin Elems(Rollback(r))
    BY <1>2, <1>3, <1>10, KeyNotTaken DEF TakeBack
  <2>2. (Add(key, -1) /\ lost' = lost) \/ (Lose({key}) /\ counter' = counter)
    BY <1>3, <1>10 DEF TakeBack
  <2>3. ASSUME NEW k \in Counter, Tracked(k)
        PROVE  /\ Has(r, k)' <=> Has(r, k) /\ k \notin {key}
               /\ k \in {key} => Has(r, k)
               /\ counter'[k] - counter[k] = lost'[k] - lost[k] - IF k \in {key} THEN 1 ELSE 0
    <3>1. Has(r, k) <=> k \in Elems(Rollback(r)) \/ k = key
      BY <1>1, <1>3, <2>1, <2>3, HoldsThen DEF Place
    <3> QED
      BY <1>8, <2>1, <2>2, <2>3, <3>1, Back
  <2>4. Effect(r)
    BY <1>3, <1>4, <1>6, <2>3, GivesBack DEF ErrorType
  <2> QED
    BY <1>5, <1>7, <2>4
<1> QED
  BY <1>9, <1>10

LEMMA RollingBack ==
  ASSUME Inv, TypeInv', NEW r \in Request, Uncommit(r) \/ RolledBack(r)
  PROVE  Alone(r) /\ Flow(r)' /\ Effect(r)
<1> USE DEF Inv, TypeInv
<1>1. /\ pc[r] \in ErrorType /\ Flow(r)
      /\ \A k \in Counter : Tracked(k) => (Has(r, k) <=> k \in Elems(undo[r]))
  BY HoldsThen DEF Uncommit, RolledBack, Place
<1>2. CASE RolledBack(r)
  BY <1>1, <1>2, Refused, NoElems DEF RolledBack
<1>3. CASE Uncommit(r)
  <2>1. undo[r] \in Seq(Counter) /\ undo[r] # <<>> /\ Distinct(undo[r])
    BY <1>1, <1>3 DEF Uncommit, TakenOK, Flow
  <2>2. PICK key \in Counter : key = Head(undo[r])
    BY <2>1, HeadAndTail
  <2>3. /\ undo' = [undo EXCEPT ![r] = Tail(undo[r])]
        /\ UNCHANGED <<pc, keys, step, slot, timer, admitted>>
    BY <1>3 DEF Uncommit, phase
  <2>4. Alone(r) /\ undo'[r] = Tail(undo[r])
    BY <2>3 DEF Alone, TakenOK
  <2>5. Flow(r)'
    BY <1>1, <2>1, <2>3, <2>4, HeadAndTail DEF Flow, N, ErrorType
  <2>6. (Add(key, -1) /\ lost' = lost) \/ (Lose({key}) /\ counter' = counter)
    BY <1>3, <2>2 DEF Uncommit
  <2>7. Elems(undo[r]) = {key} \cup Elems(Tail(undo[r])) /\ key \notin Elems(Tail(undo[r]))
    BY <2>1, <2>2, HeadAndTail
  <2>8. ASSUME NEW k \in Counter, Tracked(k)
        PROVE  /\ Has(r, k)' <=> Has(r, k) /\ k \notin {key}
               /\ k \in {key} => Has(r, k)
               /\ counter'[k] - counter[k] = lost'[k] - lost[k] - IF k \in {key} THEN 1 ELSE 0
    <3>1. Has(r, k)' <=> k \in Elems(Tail(undo[r]))
      BY <1>1, <2>3, <2>4, <2>5, <2>8, HoldsThen DEF Place
    <3> QED
      BY <1>1, <2>6, <2>7, <2>8, <3>1, Back
  <2>9. Effect(r)
    BY <1>1, <2>3, <2>8, GivesBack DEF ErrorType
  <2> QED
    BY <2>4, <2>5, <2>9
<1> QED
  BY <1>2, <1>3

(* All keys were committed ...                                             *)
LEMMA AllCommitted ==
  ASSUME PhaseOK, NEW r \in Request, step[r] = 2 * N(r) \/ N(r) = 0
  PROVE  Elems(Rollback(r)) = Elems(keys[r])
<1>1. step[r] \in Nat \ {0} /\ N(r) \in Nat /\ DOMAIN keys[r] = 1..N(r)
  BY LenProperties DEF PhaseOK, N
<1>2. CASE N(r) = 0
  <2>1. Rollback(r) = <<>> /\ DOMAIN keys[r] = {}
    BY <1>1, <1>2 DEF Rollback, SomeCommitted
  <2> QED
    BY <2>1, NoElems DEF Elems
<1>3. CASE N(r) # 0
  <2>1. step[r] = 2 * N(r) /\ SomeCommitted(r)
    BY <1>1, <1>3 DEF SomeCommitted
  <2> DEFINE all == (1..(step[r] - N(r) - 1)) \cup {N(r)}
             at(I) == {keys[r][i] : i \in I}
  <2>2. Elems(Rollback(r)) = at(all)
    BY <2>1, RollbackOK DEF RollbackFacts
  <2>3. all = 1..N(r)
    <3>1. step[r] - N(r) - 1 = N(r) - 1
      BY <1>1, <2>1
    <3>2. \A n \in Nat \ {0} : (1..(n - 1)) \cup {n} = 1..n
      OBVIOUS
    <3> QED
      BY <1>1, <1>3, <3>1, <3>2
  <2>4. Elems(keys[r]) = at(1..N(r))
    BY <1>1 DEF Elems
  <2> HIDE DEF all, at
  <2> QED
    BY <2>2, <2>3, <2>4
<1> QED
  BY <1>2, <1>3

(* ... and the connections among them go to the slot, while those of       *)
(* windows have been used up.                                              *)
LEMMA Admitting ==
  ASSUME Inv, TypeInv', NEW r \in Request, Admit(r)
  PROVE  Alone(r) /\ Flow(r)' /\ Effect(r)
<1> USE DEF Inv, TypeInv
<1> DEFINE passing == Connections(keys[r])
<1>1. Flow(r) /\ pc[r] = "combine"
  BY DEF Admit
<1>2. /\ IsConnections(passing)
      /\ Elems(passing) = {k \in Elems(keys[r]) : Kind[k[1]] = "connections"}
  BY ConnectionsOf DEF PhaseOK, KeysOK, IsConnections
<1> HIDE DEF passing
<1>3. \A k \in Counter : Tracked(k) => (Has(r, k) <=> k \in Elems(keys[r]))
  BY <1>1, HoldsThen, AllCommitted DEF Place, Admit
<1>4. Alone(r) /\ (pc'[r] = "proxied" \/ (pc'[r] = "access" /\ ~OnePolicy /\ step'[r] = 1))
  <2>1. Enter(r, policy[r] + 1) /\ \A q \in Request \ {r} : UNCHANGED <<undo[q], slot[q], timer[q]>>
    BY DEF Admit, TakenOK
  <2> QED
    BY <2>1, Onwards, LastPolicy
<1>5. slot'[r] = IF passing = <<>> THEN slot[r] ELSE passing
  BY DEF Admit, TakenOK, passing
<1>6. UNCHANGED <<counter, undo, timer, lost>> /\ undo[r] = <<>>
      /\ \A p \in Policy : timer[r][p] = <<>>
  BY <1>1 DEF Flow, Admit, ErrorType
<1>7. Flow(r)'
  BY <1>1, <1>2, <1>4, <1>5, <1>6 DEF Flow
<1>8. ASSUME NEW k \in Counter, Tracked(k)
      PROVE  Has(r, k)' <=> k \in Elems(keys[r]) /\ Kind[k[1]] = "connections"
  <2>1. CASE OnePolicy
    <3>1. slot'[r] = passing /\ pc'[r] = "proxied"
      BY <1>1, <1>4, <1>5, <2>1 DEF Flow
    <3> QED
      BY <1>2, <1>7, <1>8, <3>1, HoldsThen DEF Place
  <2>2. CASE ~OnePolicy
    <3>1. Kind[k[1]] # "connections" /\ k \notin Elems(slot'[r])
      BY <1>1, <1>2, <1>5, <1>8, <2>2 DEF Tracked, Flow, IsConnections
    <3> QED
      BY <1>4, <1>7, <1>8, <3>1, HoldsThen, NoElems DEF Place
  <2> QED
    BY <2>1, <2>2
<1>9. ASSUME NEW k \in Counter, Tracked(k)
      PROVE  /\ counter'[k] - counter[k] = Bit(Has(r, k)') - Bit(Has(r, k))
                  + (admitted'[k] - admitted[k]) + (lost'[k] - lost[k])
             /\ Bit(Owns(r, k)') + admitted'[k] <= Bit(Owns(r, k)) + admitted[k]
  <2>1. admitted'[k] = admitted[k] +
          IF k \in Elems(keys[r]) /\ Kind[k[1]] = "fixed_window" THEN 1 ELSE 0
    BY DEF Admit
  <2>2. Kind[k[1]] = "connections" \/ Kind[k[1]] = "fixed_window"
    BY <1>9, RateLimitAssumption DEF Tracked, Counted, Counter
  <2>3. (Owns(r, k) <=> Has(r, k)) /\ (Owns(r, k)' <=> Has(r, k)')
    BY <1>1, <1>4 DEF Owns
  <2>4. counter[k] \in Int /\ admitted[k] \in Nat /\ lost[k] \in Nat
    BY DEF DictOK
  <2> QED
    BY <1>3, <1>6, <1>8, <1>9, <2>1, <2>2, <2>3, <2>4 DEF Bit
<1> QED
  BY <1>4, <1>7, <1>9 DEF Effect

-----------------------------------------------------------------------------
(* The end of a request.                                                   *)
LEMMA Finishing ==
  ASSUME Inv, TypeInv', NEW r \in Request, Finish(r)
  PROVE  Alone(r) /\ Flow(r)' /\ Effect(r)
<1> USE DEF Inv, TypeInv
<1>1. Alone(r) /\ pc'[r] = "log"
  BY GotoAlone DEF Finish, Phases
<1>2. pc[r] = "proxied" /\ Flow(r) /\ UNCHANGED <<undo, slot, timer, counter, lost, admitted>>
  BY DEF Finish
<1>3. Flow(r)'
  BY <1>1, <1>2 DEF Flow, ErrorType
<1>4. \A k \in Counter : Tracked(k) => (Has(r, k)' <=> Has(r, k))
  BY <1>1, <1>2, <1>3, HoldsThen DEF Place
<1> QED
  BY <1>1, <1>2, <1>3, <1>4, NoEffect

(* Each timer gets the slot, or one is not created; whatever is tracked in *)
(* the slot is there because there is one policy and one timer.            *)
LEMMA Logging ==
  ASSUME Inv, TypeInv', NEW r \in Request, Log(r)
  PROVE  Alone(r) /\ Flow(r)' /\ Effect(r)
<1> USE DEF Inv, TypeInv
<1>1. pc[r] = "log" /\ Flow(r) /\ undo[r] = <<>> /\ IsConnections(slot[r]) /\ 1 \in Policy
  BY PolicyNumbers DEF Log, Flow, ErrorType
<1>2. \A q \in Request \ {r} : UNCHANGED <<undo[q], slot[q], timer[q]>>
  BY DEF Log, TakenOK
<1>3. Alone(r) /\ pc'[r] = "over"
  BY <1>2, GotoAlone DEF Log, Phases
<1>4. slot'[r] = <<>> /\ undo'[r] = <<>> /\ UNCHANGED <<counter, admitted>>
  BY <1>1 DEF Log, TakenOK
<1>5. \A p \in Policy : timer'[r][p] \in {slot[r], <<>>}
  BY DEF Log, TakenOK
<1>6. Flow(r)'
  BY <1>1, <1>3, <1>4, <1>5, NoConnections, NoElems DEF Flow
<1>7. ASSUME NEW k \in Counter, Tracked(k)
      PROVE  /\ Has(r, k) <=> k \in Elems(slot[r])
             /\ Has(r, k)' <=> k \in Elems(timer'[r][1])
             /\ k \in Elems(slot[r]) => OnePolicy
  BY <1>1, <1>3, <1>6, <1>7, HoldsThen, OnlyInOne DEF Place
<1>8. CASE timer'[r][1] = slot[r] /\ lost' = lost
  BY <1>1, <1>3, <1>4, <1>6, <1>7, <1>8, NoEffect
<1>9. CASE /\ lost' = lost \/ Lose(Elems(slot[r]))
           /\ OnePolicy => timer'[r][1] = <<>> /\ Lose(Elems(slot[r]))
  <2>1. ASSUME NEW k \in Counter, Tracked(k)
        PROVE  /\ Has(r, k)' <=> Has(r, k) /\ k \notin Elems(slot[r])
               /\ k \in Elems(slot[r]) => Has(r, k)
               /\ counter'[k] - counter[k] =
                    lost'[k] - lost[k] - IF k \in Elems(slot[r]) THEN 1 ELSE 0
    <3>1. Lose(Elems(slot[r])) => lost'[k] = lost[k] + IF k \in Elems(slot[r]) THEN 1 ELSE 0
      BY LoseMeans DEF DictOK
    <3>2. lost'[k] - lost[k] = IF k \in Elems(slot[r]) THEN 1 ELSE 0
      <4> lost[k] \in Nat
        BY DEF DictOK
      <4>1. CASE k \in Elems(slot[r])
        BY <1>7, <1>9, <2>1, <3>1, <4>1
      <4>2. CASE k \notin Elems(slot[r])
        BY <1>9, <3>1, <4>2
      <4> QED
        BY <4>1, <4>2
    <3>3. ~Has(r, k)'
      BY <1>1, <1>5, <1>7, <1>9, <2>1, NoElems
    <3> QED
      BY <1>4, <1>7, <2>1, <3>2, <3>3 DEF DictOK
  <2>2. Effect(r)
    BY <1>1, <1>3, <1>4, <2>1, GivesBack
  <2> QED
    BY <1>3, <1>6, <2>2
<1>10. OnePolicy => Policy = {1} /\ Cardinality(Policy) = 1
  BY OnlyPolicy, FS_Singleton
<1> QED
  BY <1>1, <1>8, <1>9, <1>10 DEF Log, TakenOK

LEMMA Leaving ==
  ASSUME Inv, TypeInv', NEW r \in Request, NEW p \in Policy,
         Leave(r, p) \/ LeaveFails(r, p)
  PROVE  Alone(r) /\ Flow(r)' /\ Effect(r)
<1> USE DEF Inv, TypeInv
<1> DEFINE queue == timer[r][p]
<1>1. queue \in Seq(Counter) /\ queue # <<>> /\ Flow(r)
  BY DEF TakenOK, Leave, LeaveFails
<1>2. IsConnections(queue) /\ Distinct(queue) /\ pc[r] = "over"
  BY <1>1 DEF Flow, IsConnections
<1>3. PICK key \in Counter : key = Head(queue)
  BY <1>1, <1>2, HeadAndTail
<1>4. /\ Elems(queue) = {key} \cup Elems(Tail(queue)) /\ key \notin Elems(Tail(queue))
      /\ IsConnections(Tail(queue))
  BY <1>1, <1>2, <1>3, HeadAndTail DEF IsConnections
<1>5. UNCHANGED <<pc, keys, step, undo, slot, admitted>>
  BY DEF Leave, LeaveFails, phase
<1>6. Alone(r)
  BY <1>5 DEF Leave, LeaveFails, Alone, TakenOK
<1> DEFINE left == timer'[r][p]
<1>7. left \in {Tail(queue), <<>>} /\ \A q \in Policy \ {p} : timer'[r][q] = timer[r][q]
  BY DEF Leave, LeaveFails, TakenOK
<1>8. Flow(r)'
  <2>1. ASSUME NEW q \in Policy PROVE IsConnections(timer'[r][q])
    BY <1>1, <1>4, <1>7, NoConnections DEF Flow
  <2> QED
    BY <1>1, <1>2, <1>5, <2>1 DEF Flow, N
<1>9. ASSUME NEW k \in Counter, Tracked(k)
      PROVE  /\ Has(r, k) <=> k \in Elems(queue)
             /\ Has(r, k)' <=> k \in Elems(left)
  <2>1. CASE p = 1
    BY <1>1, <1>2, <1>5, <1>8, <1>9, <2>1, HoldsThen DEF Place
  <2>2. CASE p # 1
    <3>1. ~OnePolicy
      BY <2>2, OnlyPolicy
    <3>2. \A q \in Policy : k \notin Elems(timer[r][q]) /\ k \notin Elems(timer'[r][q])
      BY <1>1, <1>8, <1>9, <3>1, OnlyInOne DEF Flow
    <3> QED
      BY <1>1, <1>2, <1>5, <1>8, <1>9, <3>2, HoldsThen, PolicyNumbers DEF Place
  <2> QED
    BY <2>1, <2>2
<1>10. CASE Leave(r, p)
  <2>1. left = Tail(queue) /\ Add(key, -1) /\ lost' = lost
    BY <1>3, <1>10 DEF Leave, TakenOK
  <2>2. ASSUME NEW k \in Counter, Tracked(k)
        PROVE  /\ Has(r, k)' <=> Has(r, k) /\ k \notin {key}
               /\ k \in {key} => Has(r, k)
               /\ counter'[k] - counter[k] = lost'[k] - lost[k] - IF k \in {key} THEN 1 ELSE 0
    BY <1>4, <1>9, <2>1, <2>2, Back
  <2>3. Effect(r)
    BY <1>2, <1>5, <2>2, GivesBack
  <2> QED
    BY <1>6, <1>8, <2>3
<1>11. CASE LeaveFails(r, p)
  <2>1. left = <<>>
    BY <1>11 DEF LeaveFails, TakenOK
  <2>2. ASSUME NEW k \in Counter, Tracked(k)
        PROVE  /\ Has(r, k)' <=> Has(r, k) /\ k \notin Elems(queue)
               /\ k \in Elems(queue) => Has(r, k)
               /\ counter'[k] - counter[k] = lost'[k] - lost[k] - IF k \in Elems(queue) THEN 1 ELSE 0
    <3>1. CASE Lose(Elems(queue)) /\ counter' = counter
      <4>1. lost'[k] = lost[k] + IF k \in Elems(queue) THEN 1 ELSE 0
        BY <3>1, LoseMeans DEF DictOK
      <4> QED
        BY <1>9, <2>1, <2>2, <3>1, <4>1, NoElems DEF DictOK
    <3>2. CASE Lose(Elems(Tail(queue))) /\ Add(key, -1)
      <4>1. lost'[k] = lost[k] + IF k \in Elems(Tail(queue)) THEN 1 ELSE 0
        BY <3>2, LoseMeans DEF DictOK
      <4>2. counter'[k] = counter[k] + IF k = key THEN -1 ELSE 0
        BY <2>2, <3>2, AddMeans DEF DictOK, Tracked
      <4>3. counter'[k] - counter[k] = lost'[k] - lost[k] - IF k \in Elems(queue) THEN 1 ELSE 0
        BY <1>4, <4>1, <4>2 DEF DictOK
      <4> QED
        BY <1>9, <2>1, <2>2, <4>3, NoElems
    <3> QED
      BY <1>3, <1>11, <3>1, <3>2 DEF LeaveFails
  <2>3. Effect(r)
    BY <1>2, <1>5, <2>2, GivesBack
  <2> QED
    BY <1>6, <1>8, <2>3
<1> QED
  BY <1>10, <1>11

(* A worker that dies, or a client that leaves, loses what is held.        *)
LEMMA Dying ==
  ASSUME Inv, TypeInv', NEW r \in Request, Crash(r) \/ Abort(r)
  PROVE  Alone(r) /\ Flow(r)' /\ Effect(r)
<1> USE DEF Inv, TypeInv
<1>1. \/ Crash(r) /\ Exit(r, "over")
      \/ Abort(r) /\ Exit(r, "log") /\ pc[r] \in {"access", "combine", "takeback"} \cup ErrorType
  BY DEF Crash, Abort
<1>2. \A q \in Request \ {r} : UNCHANGED <<undo[q], slot[q], timer[q]>>
  BY DEF Crash, Abort, TakenOK
<1>3. Alone(r) /\ ((Crash(r) /\ pc'[r] = "over") \/ (Abort(r) /\ pc'[r] = "log"))
  BY <1>1, <1>2, ExitAlone DEF Phases
<1>4. Flow(r) /\ 1 \in Policy
  BY PolicyNumbers
<1>5. /\ undo'[r] = <<>> /\ UNCHANGED <<counter, admitted>>
      /\ \A p \in Policy : timer'[r][p] = <<>>
      /\ \/ slot'[r] = <<>>
         \/ pc'[r] = "log" /\ slot'[r] = slot[r]
  <2>1. CASE Crash(r)
    BY <2>1 DEF Crash, TakenOK
  <2>2. CASE Abort(r)
    <3>1. \A p \in Policy : timer[r][p] = <<>>
      BY <1>4, <2>2 DEF Abort, Flow, ErrorType
    <3>2. pc'[r] = "log"
      BY <2>2, ExitAlone, <1>2 DEF Abort, Phases
    <3> QED
      BY <2>2, <3>1, <3>2 DEF Abort, TakenOK
  <2> QED
    BY <2>1, <2>2
<1>6. Flow(r)'
  BY <1>3, <1>4, <1>5, NoConnections, NoElems DEF Flow
<1>7. ASSUME NEW k \in Counter, Tracked(k)
      PROVE  /\ ~Has(r, k)'
             /\ lost'[k] = lost[k] + IF Has(r, k) THEN 1 ELSE 0
  <2>1. k \in Elems(slot[r]) => OnePolicy
    BY <1>4, <1>7, OnlyInOne DEF Flow
  <2>2. CASE Crash(r)
    <3>1. lost'[k] = lost[k] + IF k \in Holds(r) THEN 1 ELSE 0
      BY <2>2, LoseMeans DEF Crash, DictOK
    <3>2. slot'[r] = <<>> /\ timer'[r][1] = <<>> /\ pc'[r] \in {"over", "log"}
      <4>1. slot'[r] = <<>>
        BY <2>2 DEF Crash, TakenOK
      <4> QED
        BY <1>3, <1>4, <1>5, <4>1
    <3> QED
      BY <1>6, <1>7, <3>1, <3>2, HoldsThen, NoElems DEF Place, Has
  <2>3. CASE Abort(r)
    <3>1. pc[r] \in {"access", "combine", "takeback"} \cup ErrorType /\ Lose(Committed(r))
      BY <2>3 DEF Abort
    <3>2. k \notin Elems(slot[r])
      BY <1>4, <2>1, <3>1, NoElems DEF Flow, ErrorType
    <3>3. Has(r, k) <=> k \in Committed(r)
      BY <1>4, <1>7, <3>1, HoldsThen DEF Place, Committed, ErrorType
    <3>4. lost'[k] = lost[k] + IF k \in Committed(r) THEN 1 ELSE 0
      BY <3>1, LoseMeans DEF DictOK
    <3>5. ~Has(r, k)'
      BY <1>3, <1>4, <1>5, <1>6, <1>7, <3>2, HoldsThen, NoElems DEF Place
    <3> QED
      BY <3>3, <3>4, <3>5
  <2> QED
    BY <1>3, <2>2, <2>3
<1> DEFINE given == {k \in Counter : Has(r, k)}
<1>8. ASSUME NEW k \in Counter, Tracked(k)
      PROVE  /\ Has(r, k)' <=> Has(r, k) /\ k \notin given
             /\ k \in given => Has(r, k)
             /\ pc[r] = "takeback" /\ k = Key(r) => k \in given
             /\ counter'[k] - counter[k] = lost'[k] - lost[k] - IF k \in given THEN 1 ELSE 0
  <2>1. k \in given <=> Has(r, k)
    OBVIOUS
  <2>2. pc[r] = "takeback" /\ k = Key(r) => Has(r, k)
    BY <1>4, <1>8, HoldsThen DEF Place
  <2> HIDE DEF given
  <2> QED
    BY <1>5, <1>7, <1>8, <2>1, <2>2 DEF DictOK
<1>9. pc'[r] # "takeback"
  BY <1>3
<1> HIDE DEF given
<1> QED
  BY <1>3, <1>5, <1>6, <1>8, <1>9, GivesBack

-----------------------------------------------------------------------------
LEMMA InvInit == Init => Inv
<1> SUFFICES ASSUME Init PROVE Inv
  OBVIOUS
<1>1. TypeInv
  BY TypeInvInit
<1>2. ASSUME NEW r \in Request PROVE Flow(r)
  <2>1. pc[r] = "over" /\ undo[r] = <<>> /\ slot[r] = <<>> /\ \A p \in Policy : timer[r][p] = <<>>
    BY DEF Init
  <2> QED
    BY <2>1, NoElems, NoConnections DEF Flow
<1>3. ASSUME NEW k \in Counter, Tracked(k) PROVE Balanced(k)
  <2>1. ASSUME NEW r \in Request PROVE ~Has(r, k)
    <3>1. pc[r] = "over" /\ timer[r][1] = <<>>
      BY PolicyNumbers DEF Init
    <3> QED
      BY <1>2, <1>3, <3>1, HoldsThen, NoElems DEF Place
  <2>2. Holders(k) = {} /\ Owners(k) = {}
    BY <2>1 DEF Holders, Owners, Owns
  <2>3. counter[k] = 0 /\ admitted[k] = 0 /\ lost[k] = 0 /\ Limit[k[1]] \in Nat
    BY RateLimitAssumption DEF Init, Counter
  <2> QED
    BY <2>2, <2>3, FS_EmptySet DEF Balanced
<1> QED
  BY <1>1, <1>2, <1>3 DEF Inv

LEMMA InvNext == Inv /\ [Next]_vars => Inv'
<1> SUFFICES ASSUME Inv, [Next]_vars PROVE Inv'
  OBVIOUS
<1>1. TypeInv'
  BY TypeInvNext DEF Inv
<1>2. ASSUME NEW r \in Request,
             \/ Arrive(r) \/ ConnectFails(r) \/ Select(r) \/ Ask(r) \/ Commit(r) \/ CommitOver(r)
             \/ CommitFails(r) \/ TakeBack(r) \/ Uncommit(r) \/ RolledBack(r) \/ Admit(r)
             \/ Finish(r) \/ Log(r) \/ Crash(r) \/ Abort(r)
             \/ \E p \in Policy : Leave(r, p) \/ LeaveFails(r, p)
      PROVE  Inv'
  <2>1. Alone(r) /\ Flow(r)' /\ Effect(r)
    BY <1>1, <1>2, Arriving, Selecting, Asking, AtACommit, AtARefusal, RollingBack, Admitting,
       Finishing, Logging, Leaving, Dying
  <2> QED
    BY <1>1, <2>1, EffectKeeps
<1>3. CASE UNCHANGED <<counter, request, lost, admitted>>
  <2>1. UNCHANGED <<pc, keys, step, undo, slot, timer>>
    BY <1>3 DEF request, phase
  <2>2. \A r \in Request : Flow(r)'
    BY <2>1 DEF Inv, Flow, N
  <2>3. \A r \in Request, k \in Counter : (Has(r, k)' <=> Has(r, k)) /\ (Owns(r, k)' <=> Owns(r, k))
    BY <2>1 DEF Has, Owns, Holds, Committed, Rollback, SomeCommitted, Key, N
  <2>4. ASSUME NEW k \in Counter, Tracked(k) PROVE Balanced(k)'
    <3>1. Holders(k)' = Holders(k) /\ Owners(k)' = Owners(k)
      BY <2>3 DEF Holders, Owners
    <3> QED
      BY <1>3, <2>4, <3>1 DEF Inv, Balanced
  <2> QED
    BY <1>1, <2>2, <2>4 DEF Inv, Tracked, Counted, OnePolicy
<1> QED
  BY <1>2, <1>3 DEF Next, Tick, vars

(* For any chain of policies.                                              *)
THEOREM Invariant == Spec => []Inv
  BY InvInit, InvNext, PTL DEF Spec

(* No rollback, no failure and no other worker leaks a unit of a counter   *)
(* or gives one back twice, for any limiters of one policy.                *)
THEOREM EveryUnitAccountedFor == OnePolicy => (Spec => []Accounting)
<1> SUFFICES ASSUME OnePolicy PROVE Spec => []Accounting
  OBVIOUS
<1>1. Inv => Accounting
  BY DEF Inv, Balanced, Accounting, Holders, Has, Tracked
<1> QED
  BY <1>1, Invariant, PTL

(* However many requests ask at once, conn + burst of them get through.    *)
THEOREM ConnectionsStayWithinTheLimit == OnePolicy => (Spec => []ConnLimit)
<1> SUFFICES ASSUME OnePolicy PROVE Spec => []ConnLimit
  OBVIOUS
<1>1. Inv => ConnLimit
  <2> SUFFICES ASSUME Inv, NEW k \in Counter, Kind[k[1]] = "connections"
      PROVE Cardinality({r \in Request : pc[r] = "proxied" /\ k \in Elems(slot[r])}) <= Limit[k[1]]
    BY DEF ConnLimit
  <2> DEFINE through == {r \in Request : pc[r] = "proxied" /\ k \in Elems(slot[r])}
  <2>1. through \subseteq Owners(k)
    BY DEF Owners, Owns, Has, Holds
  <2>2. Cardinality(Owners(k)) + admitted[k] <= Limit[k[1]]
    BY DEF Inv, Balanced, Counted, Tracked
  <2>3. IsFiniteSet(Owners(k))
    BY RateLimitAssumption, FS_Subset DEF Owners
  <2>4. Cardinality(through) <= Cardinality(Owners(k))
    BY <2>1, <2>3, FS_Subset
  <2>5. Cardinality(through) \in Nat /\ Cardinality(Owners(k)) \in Nat
    BY <2>1, <2>3, FS_Subset, FS_CardinalityType
  <2>6. Limit[k[1]] \in Nat /\ admitted[k] \in Nat
    BY RateLimitAssumption DEF Counter, Inv, TypeInv, DictOK
  <2> HIDE DEF through
  <2>7. Cardinality(through) <= Limit[k[1]]
    BY <2>2, <2>4, <2>5, <2>6
  <2> QED
    BY <2>7 DEF through
<1> QED
  BY <1>1, Invariant, PTL

LEMMA TrackedWithinLimit ==
  ASSUME Inv, NEW k \in Counter, Tracked(k)
  PROVE  /\ Cardinality(Owners(k)) \in Nat /\ admitted[k] \in Nat /\ Limit[k[1]] \in Nat
         /\ Cardinality(Owners(k)) + admitted[k] <= Limit[k[1]]
<1>1. Cardinality(Owners(k)) \in Nat
  BY RateLimitAssumption, FS_Subset, FS_CardinalityType DEF Owners
<1>2. Limit[k[1]] \in Nat /\ admitted[k] \in Nat
  BY RateLimitAssumption DEF Counter, Inv, TypeInv, DictOK
<1> QED
  BY <1>1, <1>2 DEF Inv, Balanced

(* A window lets in no more than its count, for any chain of policies: no  *)
(* log phase gives back what belongs to a window.                          *)
THEOREM WindowsStayWithinTheLimit == Spec => []WindowLimit
<1>1. Inv => WindowLimit
  <2> SUFFICES ASSUME Inv, NEW k \in Counter, Kind[k[1]] = "fixed_window"
      PROVE admitted[k] <= Limit[k[1]]
    BY DEF WindowLimit
  <2>1. Tracked(k)
    BY DEF Tracked, Counted
  <2> QED
    BY <2>1, TrackedWithinLimit
<1> QED
  BY <1>1, Invariant, PTL

(* And no chain leaks or gives back twice a unit of a window: Accounting,  *)
(* of the windows.                                                         *)
WindowAccounting == \A k \in Counter : Kind[k[1]] = "fixed_window" =>
  counter[k] = Cardinality({r \in Request : k \in Holds(r)}) + admitted[k] + lost[k]

THEOREM WindowsAccountedFor == Spec => []WindowAccounting
<1>1. Inv => WindowAccounting
  BY DEF Inv, Balanced, WindowAccounting, Holders, Has, Tracked, Counted
<1> QED
  BY <1>1, Invariant, PTL

-----------------------------------------------------------------------------
(* The refinement of Admission, for one policy: only Admit lets in, and it *)
(* finds room for every connection and window of the request, for the room *)
(* was made sure of when the last limiter was committed.                   *)
PlacesMap == [r \in Request |-> Taken(r)]
Capacities == [k \in Counter |-> Limit[k[1]]]

LEMMA TakenIn ==
  ASSUME TakenOK, NEW r \in Request
  PROVE  /\ Taken(r) \in SUBSET Counter
         /\ \A k : k \in Taken(r) <=> \/ k \in Elems(slot[r])
                                      \/ \E p \in Policy : k \in Elems(timer[r][p])
  BY ElemsOf DEF Taken, TakenOK

(* The Cardinality of the module that is instantiated is the usual one.     *)
LEMMA SameCardinality == ASSUME NEW S PROVE Admissions!Cardinality(S) = Cardinality(S)
  BY DEF Admissions!Cardinality, Cardinality

TakenType == \A r \in Request : Taken(r) \in SUBSET Counter

LEMMA TakenHasType == TakenOK => TakenType
  BY TakenIn DEF TakenType

LEMMA PlacesOf ==
  ASSUME NEW r \in Request, Alone(r), TakenOK'
  PROVE  Admissions!OnlyOf(r)
<1>1. \A q \in Request : Taken(q)' \in SUBSET Counter
  <2>1. (TakenOK => TakenType)'
    BY TakenHasType, PTL
  <2> QED
    BY <2>1 DEF TakenType
<1>2. \A q \in Request \ {r} : Taken(q)' = Taken(q)
  BY DEF Alone, Taken
<1> QED
  BY <1>1, <1>2 DEF Admissions!OnlyOf

(* A step that lets nobody in: the places of a request stay or get fewer.  *)
LEMMA GetsFewer ==
  ASSUME NEW r \in Request, Alone(r), TakenOK', Taken(r)' \subseteq Taken(r),
         admitted' = admitted
  PROVE  Admissions!Leave(r)
<1>1. Admissions!OnlyOf(r)
  BY PlacesOf
<1> QED
  BY <1>1 DEF Admissions!Leave

(* Whoever occupies a place owns the unit of the counter.                  *)
LEMMA TakenIsOwned ==
  ASSUME OnePolicy, Inv, NEW r \in Request, NEW k \in Taken(r)
  PROVE  Owns(r, k) /\ Kind[k[1]] = "connections"
<1>1. Flow(r) /\ TakenOK
  BY DEF Inv, TypeInv
<1>2. PICK s \in {slot[r]} \cup {timer[r][p] : p \in Policy} : k \in Elems(s)
  BY <1>1, TakenIn
<1>3. s # <<>> /\ IsConnections(s) /\ pc[r] # "takeback"
  BY <1>1, <1>2, NoElems DEF Flow
<1> QED
  BY <1>2, <1>3 DEF Owns, Has, Holds, Taken, IsConnections

TakenOwned == OnePolicy => \A r \in Request : \A k \in Taken(r) :
  Owns(r, k) /\ Kind[k[1]] = "connections"

WithinLimits == \A k \in Counter : Tracked(k) =>
  /\ Cardinality(Owners(k)) \in Nat /\ admitted[k] \in Nat /\ Limit[k[1]] \in Nat
  /\ Cardinality(Owners(k)) + admitted[k] <= Limit[k[1]]

LEMMA OwnedWithinLimits == Inv => TakenOwned /\ WithinLimits
  BY TakenIsOwned, TrackedWithinLimit DEF TakenOwned, WithinLimits

LEMMA AdmitLetsIn ==
  ASSUME OnePolicy, Inv, Inv', NEW r \in Request, Admit(r)
  PROVE  Admissions!LetIn(r)
<1>0. TakenOwned' /\ WithinLimits'
  <2>1. (Inv => TakenOwned /\ WithinLimits)'
    BY OwnedWithinLimits, PTL
  <2> QED
    BY <2>1
<1>1. Alone(r) /\ Flow(r) /\ pc[r] = "combine"
  BY Admitting DEF Inv, Admit
<1>2. Admissions!OnlyOf(r)
  BY <1>1, PlacesOf DEF Inv, TypeInv
<1>3. Taken(r) = {}
  <2>1. slot[r] = <<>> /\ \A p \in Policy : timer[r][p] = <<>>
    BY <1>1 DEF Flow
  <2> QED
    BY <2>1, NoElems DEF Taken
<1>4. ASSUME NEW k \in Taken(r)'
      PROVE  Admissions!Cardinality(Admissions!Inside(k)) < Limit[k[1]] /\ k \in Counter
  <2> DEFINE now  == {q \in Request : k \in Taken(q)}
             then == {q \in Request : k \in Taken(q)'}
  <2>1. k \in Counter /\ Kind[k[1]] = "connections"
    <3>1. Taken(r)' \in SUBSET Counter
      BY <1>2 DEF Admissions!OnlyOf
    <3> QED
      BY <1>0, <3>1 DEF TakenOwned, OnePolicy
  <2>2. then \subseteq Owners(k)'
    BY <1>0 DEF TakenOwned, OnePolicy, Owners
  <2>3. /\ Cardinality(Owners(k)') \in Nat /\ admitted'[k] \in Nat /\ Limit[k[1]] \in Nat
        /\ Cardinality(Owners(k)') + admitted'[k] <= Limit[k[1]]
    BY <1>0, <2>1 DEF WithinLimits, Tracked, Counted, OnePolicy
  <2>4. then = now \cup {r} /\ r \notin now
    BY <1>1, <1>3 DEF Alone, Taken
  <2>5. IsFiniteSet(Owners(k)') /\ IsFiniteSet(then) /\ IsFiniteSet(now)
    BY RateLimitAssumption, FS_Subset DEF Owners
  <2>6. Cardinality(now) \in Nat /\ Cardinality(then) = Cardinality(now) + 1
    BY <2>4, <2>5, FS_CardinalityType, FS_AddElement
  <2>7. Cardinality(then) <= Cardinality(Owners(k)')
    BY <2>2, <2>5, FS_Subset
  <2>8. Admissions!Inside(k) = now
    BY DEF Admissions!Inside
  <2>9. Admissions!Cardinality(now) = Cardinality(now)
    BY SameCardinality
  <2> HIDE DEF now, then
  <2> QED
    BY <2>1, <2>3, <2>6, <2>7, <2>8, <2>9
<1>5. admitted' \in [Counter -> Nat] /\ admitted \in [Counter -> Nat]
  BY DEF Inv, TypeInv, DictOK
<1>6. ASSUME NEW k \in Counter, admitted'[k] # admitted[k]
      PROVE  admitted'[k] = admitted[k] + 1 /\ admitted[k] < Limit[k[1]]
  <2>1. admitted'[k] = admitted[k] + 1 /\ Kind[k[1]] = "fixed_window"
    BY <1>5, <1>6 DEF Admit
  <2>2. /\ Cardinality(Owners(k)') \in Nat /\ Limit[k[1]] \in Nat
        /\ Cardinality(Owners(k)') + admitted'[k] <= Limit[k[1]]
    BY <1>0, <2>1 DEF WithinLimits, Tracked, Counted, OnePolicy
  <2> QED
    BY <1>5, <2>1, <2>2
<1> QED
  BY <1>2, <1>3, <1>4, <1>5, <1>6 DEF Admissions!LetIn

LEMMA OthersLetNobodyIn ==
  ASSUME OnePolicy, Inv, Inv', NEW r \in Request,
         \/ Arrive(r) \/ ConnectFails(r) \/ Select(r) \/ Ask(r) \/ Commit(r) \/ CommitOver(r)
         \/ CommitFails(r) \/ TakeBack(r) \/ Uncommit(r) \/ RolledBack(r)
         \/ Finish(r) \/ Log(r) \/ Crash(r) \/ Abort(r)
         \/ \E p \in Policy : Leave(r, p) \/ LeaveFails(r, p)
  PROVE  Admissions!Leave(r)
<1>1. Alone(r) /\ TakenOK /\ TakenOK'
  BY Arriving, Selecting, Asking, AtACommit, AtARefusal, RollingBack, Finishing, Logging, Leaving, Dying
  DEF Inv, TypeInv
<1>2. CASE UNCHANGED <<slot, timer, admitted>>
  BY <1>1, <1>2, GetsFewer DEF Taken
<1>3. CASE Log(r)
  <2>1. slot'[r] = <<>> /\ \A p \in Policy : timer'[r][p] \in {slot[r], <<>>}
    BY <1>1, <1>3 DEF Log, TakenOK
  <2>2. Taken(r)' \subseteq Taken(r)
    BY <2>1, NoElems DEF Taken
  <2> QED
    BY <1>1, <1>3, <2>2, GetsFewer DEF Log
<1>4. CASE Crash(r)
  <2>1. slot'[r] = <<>> /\ \A p \in Policy : timer'[r][p] = <<>>
    BY <1>1, <1>4 DEF Crash, TakenOK
  <2>2. Taken(r)' \subseteq Taken(r)
    BY <2>1, NoElems DEF Taken
  <2> QED
    BY <1>1, <1>4, <2>2, GetsFewer DEF Crash
<1>5. ASSUME NEW p \in Policy, Leave(r, p) \/ LeaveFails(r, p)
      PROVE  Admissions!Leave(r)
  <2>1. /\ timer[r][p] \in Seq(Counter) /\ timer[r][p] # <<>> /\ Distinct(timer[r][p])
    BY <1>1, <1>5 DEF Leave, LeaveFails, TakenOK, Inv, Flow, IsConnections
  <2>2. /\ timer'[r][p] \in {Tail(timer[r][p]), <<>>} /\ slot' = slot /\ admitted' = admitted
        /\ \A q \in Policy \ {p} : timer'[r][q] = timer[r][q]
    BY <1>1, <1>5 DEF Leave, LeaveFails, TakenOK
  <2>3. \A q \in Policy : Elems(timer'[r][q]) \subseteq Elems(timer[r][q])
    <3>1. Elems(Tail(timer[r][p])) \subseteq Elems(timer[r][p])
      BY <2>1, HeadAndTail
    <3>2. Elems(timer'[r][p]) \subseteq Elems(timer[r][p])
      BY <2>2, <3>1, NoElems
    <3> QED
      BY <2>2, <3>2
  <2>4. Taken(r)' \subseteq Taken(r)
    BY <2>2, <2>3 DEF Taken
  <2> QED
    BY <1>1, <2>2, <2>4, GetsFewer
<1> QED
  BY <1>2, <1>3, <1>4, <1>5
  DEF Arrive, ConnectFails, Select, Ask, Commit, CommitOver, CommitFails, TakeBack, Uncommit,
      RolledBack, Finish, Abort

(* Several workers, dry runs, commits and rollbacks: whoever sees only who *)
(* is let in and who leaves sees every request admitted in one step, with  *)
(* room for it in all its limiters at that moment.                         *)
THEOREM AdmittedInOneStep == OnePolicy => (Spec => AdmissionSpec)
<1> SUFFICES ASSUME OnePolicy PROVE Spec => AdmissionSpec
  OBVIOUS
<1>1. Init => Admissions!Init
  <2> SUFFICES ASSUME Init PROVE Admissions!Init
    OBVIOUS
  <2>1. \A r \in Request : Taken(r) = {}
    BY NoElems DEF Init, Taken
  <2> QED
    BY <2>1 DEF Init, Admissions!Init
<1>2. Inv /\ Inv' /\ [Next]_vars => [Admissions!Next]_<<PlacesMap, admitted>>
  <2> SUFFICES ASSUME Inv, Inv', [Next]_vars
      PROVE Admissions!Next \/ UNCHANGED <<PlacesMap, admitted>>
    OBVIOUS
  <2>1. CASE UNCHANGED <<slot, timer, admitted>>
    BY <2>1 DEF PlacesMap, Taken
  <2>2. ASSUME NEW r \in Request,
               \/ Arrive(r) \/ ConnectFails(r) \/ Select(r) \/ Ask(r) \/ Commit(r) \/ CommitOver(r)
               \/ CommitFails(r) \/ TakeBack(r) \/ Uncommit(r) \/ RolledBack(r) \/ Admit(r)
               \/ Finish(r) \/ Log(r) \/ Crash(r) \/ Abort(r)
               \/ \E p \in Policy : Leave(r, p) \/ LeaveFails(r, p)
        PROVE  Admissions!Leave(r) \/ Admissions!LetIn(r)
    BY <2>2, AdmitLetsIn, OthersLetNobodyIn
  <2> QED
    BY <2>1, <2>2 DEF Next, Tick, vars, request, Admissions!Next
<1> QED
  BY <1>1, <1>2, Invariant, PTL DEF Spec, AdmissionSpec, Admissions!Spec, PlacesMap
=============================================================================
