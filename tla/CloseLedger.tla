------------------------------ MODULE CloseLedger ------------------------------
(***************************************************************************)
(* What LP Manager promises about the accounting of closed positions, with *)
(* the scans, requests, crashes and repairs behind it left out.            *)
(*                                                                         *)
(* Final accounting needs a recorded close receipt, whatever the NFT still *)
(* holds.  It may be lost again only to a reading of the NFT that is still *)
(* on its way; and no such reading can arise once the accounting is full,  *)
(* for as long as the empty NFT is owned.                                  *)
(***************************************************************************)
EXTENDS Naturals

CONSTANT Nfts

VARIABLES
    holding,    \* what the NFT holds on chain
    receipted,  \* a confirmed close receipt is recorded
    accounted,  \* final accounting: none, partial (row or snapshot), full
    disturbed   \* a reading that contradicts it may still be written back

cvars == <<holding, receipted, accounted, disturbed>>

Levels == {"none", "partial", "full"}
Rank(level) == IF level = "none" THEN 0 ELSE IF level = "partial" THEN 1 ELSE 2

CInit ==
    /\ holding = [n \in Nfts |-> "unminted"]
    /\ receipted = [n \in Nfts |-> FALSE]
    /\ accounted = [n \in Nfts |-> "none"]
    /\ disturbed = [n \in Nfts |-> FALSE]

Moves == {<<"unminted", "active">>, <<"active", "empty">>, <<"empty", "active">>,
          <<"active", "gone">>, <<"empty", "gone">>}

(* The wallet mints, drains, fills again or transfers the NFT.             *)
Move(n) ==
    /\ \E now \in {"active", "empty", "gone"} :
          <<holding[n], now>> \in Moves /\ holding' = [holding EXCEPT ![n] = now]
    /\ UNCHANGED <<receipted, accounted, disturbed>>

Confirm(n) ==
    /\ ~receipted[n]
    /\ receipted' = [receipted EXCEPT ![n] = TRUE]
    /\ UNCHANGED <<holding, accounted, disturbed>>

Account(n) ==
    /\ receipted[n]
    /\ \E level \in Levels : Rank(level) > Rank(accounted[n])
                             /\ accounted' = [accounted EXCEPT ![n] = level]
    /\ UNCHANGED <<holding, receipted, disturbed>>

(* Such a reading is written over the accounting, and may be the last.   *)
Lapse(n) ==
    /\ disturbed[n]
    /\ \E level \in Levels : Rank(level) < Rank(accounted[n])
                             /\ accounted' = [accounted EXCEPT ![n] = level]
    /\ disturbed' \in {disturbed, [disturbed EXCEPT ![n] = FALSE]}
    /\ UNCHANGED <<holding, receipted>>

(* Readings begin, go stale and end, but none goes stale that finds the    *)
(* accounting full and the empty NFT owned.                                *)
Readings ==
    /\ disturbed' \in [Nfts -> BOOLEAN]
    /\ \A n \in Nfts : disturbed'[n] /\ ~disturbed[n] =>
                          ~(accounted[n] = "full" /\ holding[n] = "empty")
    /\ UNCHANGED <<holding, receipted, accounted>>

CNext == (\E n \in Nfts : Move(n) \/ Confirm(n) \/ Account(n) \/ Lapse(n)) \/ Readings
CSpec == CInit /\ [][CNext]_cvars
================================================================================
