------------------------------ MODULE MCPprof ------------------------------
(***************************************************************************)
(* Instances of Pprof for TLC: main enters two scops of two ids, another   *)
(* thread one. The gaps between events are powers of two in no order, so   *)
(* that any two sums of gaps differ and early gaps may be the longest.     *)
(***************************************************************************)
EXTENDS PprofProperties

ModelMaxEnters == [t \in Threads |-> IF t = "main" THEN 2 ELSE 1]
ModelIds == [t \in Threads |-> IF t = "main" THEN {1, 2} ELSE {1}]
ModelGaps == <<64, 1, 256, 2, 32, 4, 512, 8, 1024, 16, 128, 2048>>
=============================================================================
