----------------------------- MODULE MCRateLimit -----------------------------
(* One policy with a limiter of each kind, whose conditions leave out the  *)
(* last one or all; or two policies, of which the first limits connections.*)
EXTENDS RateLimit, TLC
CONSTANTS conns, leaky, win
MCKind  == conns :> "connections" @@ leaky :> "leaky_bucket" @@ win :> "fixed_window"
MCLimit == conns :> 1 @@ leaky :> 0 @@ win :> 2
OnePolicy   == << {<<conns, leaky, win>>, <<conns, leaky>>, <<>>} >>
TwoPolicies == << {<<conns>>}, {<<win>>} >>
EitherLogged == {[t \in ErrorType |-> IF t = logged THEN "log" ELSE "exit"] : logged \in ErrorType}
Symmetry == Permutations(Request)
=============================================================================
