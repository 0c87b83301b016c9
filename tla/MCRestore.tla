------------------------------ MODULE MCRestore ------------------------------
(* Three containers: an lxc one with "on-failure", a native one with       *)
(* "always", and a native one with "always" that joins the network         *)
(* namespace of the second.                                                *)
EXTENDS Restore

MCExecDriver == [c \in Containers |-> IF c = "c1" THEN "lxc" ELSE "native"]

MCPolicy == [c \in Containers |->
                IF c = "c1" THEN "on-failure" ELSE "always"]

MCNetContainer == [c \in Containers |-> IF c = "c3" THEN {"c2"} ELSE {}]

MCExitCodes == {0, 1}
=============================================================================
