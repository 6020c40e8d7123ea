------------------------------- MODULE MCDecisions --------------------------------
(* Three questions: two differ only in the days of history, the third asks *)
(* for the pool of another fee tier.                                       *)
EXTENDS Decisions

MCKeyOf == [q1 |-> "k1", q2 |-> "k1", q3 |-> "k2"]
MCPoolOf == [q1 |-> "p1", q2 |-> "p1", q3 |-> "p2"]
================================================================================
