---------------------------- MODULE MCLazyLoader ----------------------------
(* Three requests for one host and one for another: one that loads, one    *)
(* that waits and one that comes when the semaphore was forgotten.         *)
(* Service 1 is on both hosts (a staging and a production host), service 2 *)
(* on the one that they share.                                             *)
EXTENDS LazyLoader
CONSTANTS r1, r2, r3, r4, a, b
MCKeyOf == [r \in Caller |-> IF r = r2 THEN b ELSE a]
MCMatchesOf == [r \in Caller |-> IF r = r3 THEN {2} ELSE {1}]
OneHost == [r \in Caller |-> a]
MCPortal0 == [i \in Id |-> IF i = 1 THEN {a, b} ELSE {a}]

(* Service 1 is deleted or leaves host a; service 2 stays as it is.        *)
MCEdits == [i \in Id |-> IF i = 1 THEN {{}, {b}} ELSE {}]
=============================================================================
