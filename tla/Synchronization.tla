--------------------------- MODULE Synchronization ---------------------------
(***************************************************************************)
(* resty/synchronization.lua: Synchronization:run() calls a function while *)
(* it holds a resource of the semaphore of a key.  The semaphores are made *)
(* on demand and forgotten on release; whoever waits on a forgotten one    *)
(* still has it.  A caller makes one call of run(), and a semaphore goes   *)
(* by the name of the caller that made it.  nginx may kill a caller in its *)
(* call; what it has taken stays taken.                                    *)
(***************************************************************************)
EXTENDS Integers, FiniteSets

CONSTANTS
  Caller,
  Key,
  KeyOf,      \* the key that a caller gives to run()
  Size,       \* resources for each key
  Impatient,  \* callers whose timeout is 0: they take a resource now or never
  None        \* "no semaphore"

ASSUME SynchronizationAssumption ==
  /\ KeyOf \in [Caller -> Key]
  /\ Size \in Nat \ {0}
  /\ Impatient \subseteq Caller
  /\ None \notin Caller

VARIABLES
  semaphores,   \* the semaphore of each key, if it has one
  resources,    \* the resources of each semaphore that are free
  sema,         \* the semaphore that a caller waits for or holds
  pc            \* where a caller is in run(): "idle", "waiting", "running" or "over",
                \* "gone" if it was killed while it waited, "killed" while it ran

syncVars == <<semaphores, resources, sema, pc>>

Waiting(s) == {c \in Caller : pc[c] = "waiting" /\ sema[c] = s}
Holders(s) == {c \in Caller : pc[c] = "running" /\ sema[c] = s}
Killed(s)  == {c \in Caller : pc[c] = "killed" /\ sema[c] = s}

SyncInit ==
  /\ semaphores = [k \in Key |-> None]
  /\ resources = [c \in Caller |-> Size]
  /\ sema = [c \in Caller |-> None]
  /\ pc = [c \in Caller |-> "idle"]

(* run(): acquire() finds or makes the semaphore, wait() takes a resource  *)
(* that is free if nobody waits for it, or queues.                         *)
Run(c) ==
  LET k == KeyOf[c]
      s == IF semaphores[k] = None THEN c ELSE semaphores[k]
      free == resources[s] > 0 /\ Waiting(s) = {} IN
  /\ pc[c] = "idle"
  /\ semaphores' = [semaphores EXCEPT ![k] = s]
  /\ resources' = IF free THEN [resources EXCEPT ![s] = @ - 1] ELSE resources
  /\ sema' = [sema EXCEPT ![c] = s]
  /\ pc' = [pc EXCEPT ![c] = IF free THEN "running"
                             ELSE IF c \in Impatient THEN "over" ELSE "waiting"]

(* A resource was posted: a caller that waits for it goes on ...           *)
Wake(c) ==
  /\ pc[c] = "waiting" /\ resources[sema[c]] > 0
  /\ resources' = [resources EXCEPT ![sema[c]] = @ - 1]
  /\ pc' = [pc EXCEPT ![c] = "running"]
  /\ UNCHANGED <<semaphores, sema>>

(* ... or its timeout comes first and run() returns false.                 *)
TimeOut_Posts(c) ==   \* mutant: posts although it did not take a resource
  /\ pc[c] = "waiting"
  /\ resources' = [resources EXCEPT ![sema[c]] = @ + 1]
  /\ pc' = [pc EXCEPT ![c] = "over"]
  /\ UNCHANGED <<semaphores, sema>>

TimeOut(c) ==
  /\ pc[c] = "waiting"
  /\ pc' = [pc EXCEPT ![c] = "over"]
  /\ UNCHANGED <<semaphores, resources, sema>>

(* The function returned or raised: release() forgets the semaphore of the *)
(* key, whichever it is by now, and post() gives back the one that c has.  *)
Return_NoPost(c) ==   \* mutant: released, but not posted
  /\ pc[c] = "running"
  /\ semaphores' = [semaphores EXCEPT ![KeyOf[c]] = None]
  /\ pc' = [pc EXCEPT ![c] = "over"]
  /\ UNCHANGED <<resources, sema>>

Return(c) ==
  /\ pc[c] = "running"
  /\ semaphores' = [semaphores EXCEPT ![KeyOf[c]] = None]
  /\ resources' = [resources EXCEPT ![sema[c]] = @ + 1]
  /\ pc' = [pc EXCEPT ![c] = "over"]
  /\ UNCHANGED sema

(* The request of a caller ends while it waits, and leaves the queue, or   *)
(* in the function: neither release() nor post() is called.                *)
Abort(c) ==
  /\ pc[c] \in {"waiting", "running"}
  /\ pc' = [pc EXCEPT ![c] = IF @ = "waiting" THEN "gone" ELSE "killed"]
  /\ UNCHANGED <<semaphores, resources, sema>>

-----------------------------------------------------------------------------
SyncTypeOK ==
  /\ semaphores \in [Key -> Caller \cup {None}]
  /\ resources \in [Caller -> 0..Size]
  /\ sema \in [Caller -> Caller \cup {None}]
  /\ pc \in [Caller -> {"idle", "waiting", "running", "over", "gone", "killed"}]

(* Nobody is forgotten with the semaphore: who waits for a semaphore waits *)
(* for a resource that is free or for a caller that will give one back,    *)
(* unless callers of its own key were killed with all the resources that   *)
(* the semaphore had.                                                      *)
Orphaned(c) ==
  Cardinality({d \in Killed(sema[c]) : KeyOf[d] = KeyOf[c]}) = Size

NobodyForgotten ==
  \A c \in Caller : pc[c] = "waiting" =>
    resources[sema[c]] > 0 \/ Holders(sema[c]) # {} \/ Orphaned(c)
=============================================================================
