--------------------------- MODULE MCBridgeDriver ---------------------------
(* Instantiation of the bridge network driver for TLC: three containers    *)
(* competing for two addresses and two host ports, one explicit port       *)
(* shared by two of them, one requested address, and one link over one    *)
(* port (two FORWARD rules).                                               *)
EXTENDS BridgeDriver

MCIPs == {1, 2}
MCHostPorts == {8080, 8081}
MCBindings == [c \in Containers |->
                 CASE c = "c1" -> <<8080>>
                   [] c = "c2" -> <<0>>
                   [] OTHER    -> <<0, 8080>>]
MCRequestedIP == [c \in Containers |-> IF c = "c3" THEN 1 ELSE 0]
\* c2 links to c1, which exposes one port.
MCLinks == [c \in Containers |-> IF c = "c2" THEN {"c1"} ELSE {}]
MCLinkPorts == <<80>>

\* Bound on the copies of one link rule the FORWARD chain accumulates when
\* "-D" calls fail (their errors are ignored) or rules outlive a crash.
MaxRuleCopies == 2
RuleCopiesBound == \A r \in DOMAIN lrules : lrules[r] <= MaxRuleCopies
=============================================================================
