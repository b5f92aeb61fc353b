---------------------------- MODULE MCExecSession ----------------------------
(* Constants for checking ExecSession: stdout can fill its channel and      *)
(* leave the copier and the merger with a chunk each.  No step depends on   *)
(* the exit code; -1, of a killed process, is the one that is converted.    *)
EXTENDS ExecSession

OutChunks == [s \in Stream |-> IF s = "stdout" THEN 2 ELSE 1]
Codes == {-1}
==============================================================================
