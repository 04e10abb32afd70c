---------------------------- MODULE MCBootLoader ----------------------------
(* Two services that share a host; one of them has a host of its own.      *)
EXTENDS BootLoader
CONSTANTS a, b
MCPortal0 == [i \in Id |-> IF i = 1 THEN {a, b} ELSE {a}]

(* A service is deleted, or given the host that it did not have alone.     *)
MCEdits == [i \in Id |-> {{}, {b}}]
=============================================================================
