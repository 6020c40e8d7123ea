-------------------------- MODULE MCPositionLifecycle --------------------------
(* Small instances of PositionLifecycle.  Refreshers are interchangeable,  *)
(* and so are receipts.                                                    *)
EXTENDS PositionLifecycle, TLC

Interchangeable == Permutations(Refreshers) \cup Permutations(Posts)
================================================================================
