-------------------------- MODULE MCReportsBatcher --------------------------
(* Instances of ReportsBatcher: two workers, each with its reporting timer *)
(* for the service, and requests that both share a counter and do not.     *)
EXTENDS ReportsBatcher

CONSTANTS r1, r2, r3, p1, p2, w1, w2, s1, pair, app, userkey, hits, posts

MCHome == [a \in Actor |-> IF a \in {r1, r3, p1} THEN w1 ELSE w2]
MCSvcOf == [a \in Actor |-> s1]

(* An application's app_id, with and without its app_key, is one           *)
(* application to the batch; r3 still comes with a user key.               *)
MCCredOf == [r \in Request |-> CASE r = r1 -> pair [] r = r3 -> userkey [] OTHER -> app]
MCAppCred == [c \in Credential |-> IF c = pair THEN app ELSE c]
MCKindOf == [c \in Credential |-> IF c = userkey THEN "user_key" ELSE "app_id"]

MCMetricsOf == [r \in Request |-> IF r = r1 THEN {hits, posts} ELSE {hits}]
FreeHits == {<<r1, posts>>}
=============================================================================
