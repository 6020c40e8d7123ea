------------------------------- MODULE MCOperatorRows -----------------------------
(* One confirmed NFT, one other of its chain, one of another chain.        *)
EXTENDS OperatorRows, TLC

CONSTANTS a, b, c
Symmetry == Permutations(Scanners)
MCFixedNo == [n \in {a} |-> 2]
================================================================================
