----------------------------- MODULE MCQemuConn -----------------------------
(* Constants for checking QemuConn: one end sends a few messages, the other *)
(* only its end mark.                                                       *)
EXTENDS QemuConn

OneSided == [e \in End |-> IF e = "host" THEN 3 ELSE 0]
=============================================================================
