------------------------------ MODULE MCUpstream ------------------------------
(* Two clients of one name, whose answer has three peers and then two.     *)
EXTENDS Upstream
CONSTANT host
MCNameOf == [r \in Request |-> host]
MCPeers  == [v \in 1..MaxVersion |-> 4 - v]
=============================================================================
