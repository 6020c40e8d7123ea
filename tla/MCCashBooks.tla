------------------------------- MODULE MCCashBooks ------------------------------
EXTENDS CashBooks, TLC

CONSTANTS t1, t2

(* Two inbound transfers from one address, the first of them in a          *)
(* transaction of which the import knows that it was funding, the second   *)
(* one brought by a bridge.                                                *)
MCTransfers == {t1, t2}
MCEvidence ==
    t1 :> [tx |-> "x1", direction |-> "IN", kind |-> "NATIVE_TRANSFER",
           party |-> "a", noise |-> "a", call |-> "IN", target |-> "wallet"]
    @@ t2 :> [tx |-> "x2", direction |-> "IN", kind |-> "BRIDGE",
              party |-> "a", noise |-> "a", call |-> "IN", target |-> "bridge"]
MCParties == {"a", "wallet", "bridge"}

(* Threads of one kind are interchangeable.                                *)
Interchangeable == Permutations(Handlers) \cup Permutations(Requests)
================================================================================
