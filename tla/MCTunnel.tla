------------------------------ MODULE MCTunnel ------------------------------
(* Constants for checking Tunnel. *)
EXTENDS Tunnel

OneEach == [s \in Side |-> 1]
NarrowWide == [s \in Side |-> IF s = "client" THEN 1 ELSE 2]
=============================================================================
