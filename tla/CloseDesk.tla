-------------------------------- MODULE CloseDesk ---------------------------------
(***************************************************************************)
(* Closing one live position or collecting its fees from the page: the     *)
(* call is built from the stored snapshot, simulated, shown, sent by the   *)
(* browser wallet, and its receipt freezes the position's accounts.  The   *)
(* NFT may meanwhile be added to or emptied from another application.      *)
(*                                                                         *)
(* The steps inside one receipt and one refresh are PositionLifecycle's;   *)
(* here each is one step, and the liquidity is an amount.                  *)
(***************************************************************************)
EXTENDS Integers, FiniteSets

CONSTANTS
    MaxLiquidity, \* bound on the liquidity of the NFT
    CloseSlots,   \* transactions that may be under way at once
    MaxUpsets     \* bound on reverts without a reason, and on receipts lost

ASSUME CloseBounds == MaxLiquidity \in Nat \ {0} /\ MaxUpsets \in Nat

VARIABLES
    liquidity, \* on chain, of the NFT
    saved,     \* stored snapshot: liquidity, and whether the accounts are final
    status,    \* of the position's row
    preparing, \* a prepare request between its read of the snapshot and its call
    shown,     \* the prepared call on the page
    outgoing,  \* transactions sent and not done with
    upsets,    \* failures so far
    grown      \* liquidity was added after the snapshot a sent close was built from

closeVars == <<liquidity, saved, status, preparing, shown, outgoing, upsets, grown>>

Kinds == {"close", "collect"}
Liquidity == 0..MaxLiquidity

(* liq: liquidity the call takes out; stale (not code): whether liquidity  *)
(* was added since the snapshot it was built from was taken.               *)
Prepared == [kind : Kinds, liq : Liquidity, stale : BOOLEAN]
NoCall == [kind |-> "none"]
Sent == [kind : Kinds, liq : Liquidity, stale : BOOLEAN,
         state : {"pending", "CONFIRMED", "FAILED"}]
NothingSent == [state |-> "none"]

CloseTypeOK ==
    /\ liquidity \in Liquidity
    /\ saved \in [liq : Liquidity, stale : BOOLEAN, final : BOOLEAN]
    /\ status \in {"OPEN", "CLOSED"}
    /\ preparing \in Prepared \cup {NoCall} /\ shown \in Prepared \cup {NoCall}
    /\ outgoing \in [CloseSlots -> Sent \cup {NothingSent}]
    /\ upsets \in 0..MaxUpsets /\ grown \in BOOLEAN

CloseInit ==
    /\ liquidity = 1
    /\ saved = [liq |-> 1, stale |-> FALSE, final |-> FALSE]
    /\ status = "OPEN"
    /\ preparing = NoCall /\ shown = NoCall
    /\ outgoing = [s \in CloseSlots |-> NothingSent]
    /\ upsets = 0 /\ grown = FALSE

--------------------------------------------------------------------------------
(***************************************************************************)
(* The NFT, outside the program.                                           *)
(***************************************************************************)
Stale(call) == IF call = NoCall THEN NoCall ELSE [call EXCEPT !.stale = TRUE]

TopUp ==
    /\ liquidity < MaxLiquidity
    /\ liquidity' = liquidity + 1
    /\ saved' = [saved EXCEPT !.stale = TRUE]
    /\ preparing' = Stale(preparing) /\ shown' = Stale(shown)
    /\ outgoing' = [s \in CloseSlots |-> IF outgoing[s] = NothingSent THEN NothingSent
                                         ELSE [outgoing[s] EXCEPT !.stale = TRUE]]
    /\ grown' = (grown \/ status = "CLOSED")
    /\ UNCHANGED <<status, upsets>>

(* A withdrawal from another application.                                  *)
DrainElsewhere ==
    /\ liquidity > 0
    /\ liquidity' = 0
    /\ UNCHANGED <<saved, status, preparing, shown, outgoing, upsets, grown>>

--------------------------------------------------------------------------------
(* refresh_positions: a position closed and final is left out, any other   *)
(* takes its status from the liquidity.                                    *)
Rescan ==
    /\ ~(saved.final /\ status = "CLOSED")
    /\ saved' = [saved EXCEPT !.liq = liquidity, !.stale = FALSE]
    /\ status' = IF liquidity > 0 THEN "OPEN" ELSE "CLOSED"
    /\ UNCHANGED <<liquidity, preparing, shown, outgoing, upsets, grown>>

(* prepare_close, prepare_collect: the snapshot, then the simulated call.  *)
(* Without stored liquidity a close is BLOCKED.                            *)
Prepare(kind) ==
    /\ status = "OPEN" /\ preparing = NoCall
    /\ kind = "close" => saved.liq > 0
    /\ preparing' = [kind |-> kind, stale |-> saved.stale,
                     liq |-> IF kind = "close" THEN saved.liq ELSE 0]
    /\ UNCHANGED <<liquidity, saved, status, shown, outgoing, upsets, grown>>

(* Only a call whose simulation passed gets a button; the price may have   *)
(* moved beyond the slippage allowed.                                      *)
Simulates ==
    /\ preparing # NoCall /\ preparing.liq <= liquidity
    /\ shown' = preparing /\ preparing' = NoCall
    /\ UNCHANGED <<liquidity, saved, status, outgoing, upsets, grown>>
SimulationFails ==
    /\ preparing # NoCall
    /\ shown' = NoCall /\ preparing' = NoCall
    /\ UNCHANGED <<liquidity, saved, status, outgoing, upsets, grown>>

(* sendPreparedPositionCall.                                               *)
SendCall(s) ==
    /\ outgoing[s] = NothingSent /\ shown # NoCall
    /\ outgoing' = [outgoing EXCEPT ![s] = [kind |-> shown.kind, liq |-> shown.liq,
                                            stale |-> shown.stale, state |-> "pending"]]
    /\ UNCHANGED <<liquidity, saved, status, preparing, shown, upsets, grown>>

Mined(s) == outgoing[s].state = "pending" /\ outgoing[s].liq <= liquidity
Confirm(s) ==
    /\ Mined(s)
    /\ liquidity' = liquidity - outgoing[s].liq
    /\ outgoing' = [outgoing EXCEPT ![s].state = "CONFIRMED"]
    /\ UNCHANGED <<saved, status, preparing, shown, upsets, grown>>

(* The deadline has passed, the price has moved, the liquidity is gone.    *)
Reverts(s) ==
    /\ outgoing[s].state = "pending"
    /\ IF Mined(s) THEN upsets < MaxUpsets /\ upsets' = upsets + 1 ELSE UNCHANGED upsets
    /\ outgoing' = [outgoing EXCEPT ![s].state = "FAILED"]
    /\ UNCHANGED <<liquidity, saved, status, preparing, shown, grown>>

(* execution_receipt: the event, then finalise_execution_close.            *)
(* Mutant: a receipt that indicates failure finalises too.                 *)
Finalises_AnyStatus(s) == outgoing[s].kind = "close" /\ ~saved.final
Finalises(s) ==
    outgoing[s].kind = "close" /\ outgoing[s].state = "CONFIRMED" /\ ~saved.final

Done(s) == outgoing' = [outgoing EXCEPT ![s] = NothingSent]

PostReceipt(s) ==
    /\ outgoing[s].state \in {"CONFIRMED", "FAILED"}
    /\ IF Finalises(s)
       THEN status' = "CLOSED" /\ saved' = [saved EXCEPT !.final = TRUE]
            /\ grown' = (grown \/ outgoing[s].stale)
       ELSE UNCHANGED <<status, saved, grown>>
    /\ Done(s)
    /\ UNCHANGED <<liquidity, preparing, shown, upsets>>

(* No receipt within two minutes, or the request to record it fails.       *)
LoseReceipt(s) ==
    /\ outgoing[s].state \in {"CONFIRMED", "FAILED"} /\ upsets < MaxUpsets
    /\ upsets' = upsets + 1
    /\ Done(s)
    /\ UNCHANGED <<liquidity, saved, status, preparing, shown, grown>>

CloseNext ==
    \/ TopUp \/ DrainElsewhere \/ Rescan
    \/ \E kind \in Kinds : Prepare(kind)
    \/ Simulates \/ SimulationFails
    \/ \E s \in CloseSlots :
          SendCall(s) \/ Confirm(s) \/ Reverts(s) \/ PostReceipt(s) \/ LoseReceipt(s)

--------------------------------------------------------------------------------
(* A position whose accounts are final and that is no longer read has      *)
(* nothing left in it, whatever was sent twice, reverted or lost, unless   *)
(* liquidity was added after the snapshot the close was built from         *)
(* (build_close, finalise_execution_close's "liquidity_settled": True).    *)
FinalUnlessGrown == saved.final /\ status = "CLOSED" /\ ~grown => liquidity = 0
================================================================================
