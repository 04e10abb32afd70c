---------------------------- MODULE ReportLedger ----------------------------
(***************************************************************************)
(* What the batching of reports promises for every hit that it accepts:    *)
(* the hit is owed to the 3scale backend until a report that carries it is *)
(* acknowledged, or until it is lost in one of the ways the code admits.   *)
(* The backend may count a hit again only when the answer to an earlier    *)
(* report of the hit was not ok, which leaves the hit in doubt.            *)
(***************************************************************************)
CONSTANT Hit

VARIABLES owed, counted, doubt, lost

ledger == <<owed, counted, doubt, lost>>

Init == owed = {} /\ counted = {} /\ doubt = {} /\ lost = {}

(* Hits that were never seen before are taken on.                          *)
Accept(H) == /\ H \cap (owed \cup counted \cup lost) = {}
             /\ owed' = owed \cup H
             /\ UNCHANGED <<counted, doubt, lost>>

(* The backend counts hits: for the first time, or because of a doubt.     *)
Count(H) == /\ H \subseteq owed
            /\ H \cap counted \subseteq doubt
            /\ counted' = counted \cup H
            /\ UNCHANGED <<owed, doubt, lost>>

(* The answer was not ok: the hits stay owed, now in doubt.                *)
Doubt(H) == /\ H \subseteq owed \cap counted
            /\ doubt' = doubt \cup H
            /\ UNCHANGED <<owed, counted, lost>>

(* The answer was ok: the hits are owed no longer.                         *)
Settle(H) == /\ H \subseteq owed \cap counted
             /\ owed' = owed \ H
             /\ UNCHANGED <<counted, doubt, lost>>

Lose(H) == /\ H \subseteq owed
           /\ owed' = owed \ H
           /\ lost' = lost \cup H
           /\ UNCHANGED <<counted, doubt>>

Next == \E H \in SUBSET Hit : Accept(H) \/ Count(H) \/ Doubt(H) \/ Settle(H) \/ Lose(H)

Spec == Init /\ [][Next]_ledger
=============================================================================
