------------------------------ MODULE MCAuthRep ------------------------------
(* Requests that share one key of the cache: keys do not interact.         *)
EXTENDS AuthRep
CONSTANTS theKey, w1
MCHome  == [r \in Request |-> w1]
MCKeyOf == [r \in Request |-> theKey]
=============================================================================
