----------------------------- MODULE MCExecutionDesk ------------------------------
(* A position of WETH alone, so that wrapping, one approval and the mint   *)
(* follow each other; a wrap that is short by a rounding is not made good. *)
EXTENDS ExecutionDesk

MCWant == [weth |-> 3, other |-> 0]
================================================================================
