--------------------------- MODULE MCBatcherPolicy ---------------------------
(* Two requests of an application for one usage, in two workers that have  *)
(* a reporting timer each; r3 was a request for that usage before a reload *)
(* and no mapping rule matches r4.                                         *)
EXTENDS BatcherPolicy

CONSTANTS r1, r2, r3, r4, p1, p2, w1, w2, s1, app, hits

MCHome == [a \in Actor |-> IF a \in {r1, p1} THEN w1 ELSE w2]
MCSvcOf == [a \in Actor |-> s1]
MCCredOf == [r \in Request |-> app]
MCMetricsOf == [r \in Request |-> IF r = r4 THEN {} ELSE {hits}]
MCAppCred == [c \in Credential |-> c]
MCKindOf == [c \in Credential |-> "app_id"]
=============================================================================
