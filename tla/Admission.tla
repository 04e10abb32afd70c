------------------------------ MODULE Admission ------------------------------
(***************************************************************************)
(* What rate limiting promises at its interface, whatever it does inside:  *)
(* a request gets the places of all its limiters in one step, if there is  *)
(* room in each, and only when it has left those that it had; it leaves    *)
(* them at once or bit by bit; a place in a window is used up for good.    *)
(***************************************************************************)
EXTENDS Integers, FiniteSets

CONSTANTS Request, Resource, Capacity

VARIABLES
  places,   \* the resources in which a request occupies a place
  used      \* the number of requests that used up a place for good

Init == /\ places = [r \in Request |-> {}]
        /\ used = [k \in Resource |-> 0]

Inside(k) == {r \in Request : k \in places[r]}

OnlyOf(r) == /\ places' \in [Request -> SUBSET Resource]
             /\ \A q \in Request \ {r} : places'[q] = places[q]

LetIn(r) ==
  /\ OnlyOf(r) /\ places[r] = {}
  /\ \A k \in places'[r] : Cardinality(Inside(k)) < Capacity[k]
  /\ used' \in [Resource -> Nat]
  /\ \A k \in Resource : \/ used'[k] = used[k]
                         \/ used'[k] = used[k] + 1 /\ used[k] < Capacity[k]

Leave(r) == OnlyOf(r) /\ places'[r] \subseteq places[r] /\ used' = used

Next == \E r \in Request : Leave(r) \/ LetIn(r)

Spec == Init /\ [][Next]_<<places, used>>
=============================================================================
