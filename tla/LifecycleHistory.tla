----------------------------- MODULE LifecycleHistory -----------------------------
(***************************************************************************)
(* The accounts of a closed NFT rebuilt from the manager's own events      *)
(* (finalise_closed_positions_from_store): the logs are read in ranges     *)
(* that shrink when the provider refuses one, valued where a price can be  *)
(* found, and added up once for good.  One token stands for both and costs *)
(* one dollar; gas is left out but for whether it can be priced.           *)
(*                                                                         *)
(* A block holds one event at most, and its number names the transaction:  *)
(* a multicall of decreaseLiquidity and collect is two blocks here.        *)
(***************************************************************************)
EXTENDS Integers, SequencesExt

CONSTANTS
    MaxBlock,  \* bound on the chain's height
    MaxSupply, \* bound on the NFT's liquidity
    WideRange, \* blocks per query at first (250 000)
    LeastRange \* blocks per query at least (25 000)

VARIABLES
    blocks,  \* the manager's event of each block
    nft,     \* positions(): liquidity; owed: principal and fees; as last scanned
    job,     \* local values of finalise_closed_positions_from_store
    account  \* closed_final of the snapshot, and the row's CLOSED_FINAL
lifeVars == <<blocks, nft, job, account>>

NoEvent == [kind |-> "none", liquidity |-> 0, amount |-> 0]
NoJob == [pc |-> "idle", since |-> 1, latest |-> 0, start |-> 1, range |-> WideRange,
          events |-> <<>>]
NoAccount == [complete |-> FALSE, source |-> "none", capital |-> 0, proceeds |-> 0,
              fees |-> 0, since |-> 0, latest |-> 0, matched |-> FALSE]

LifeInit ==
    /\ blocks = <<>>
    /\ nft = [liquidity |-> 0, principal |-> 0, fees |-> 0, closed |-> FALSE]
    /\ job = NoJob
    /\ account = NoAccount

Smaller(a, b) == IF a < b THEN a ELSE b
Larger(a, b) == IF a < b THEN b ELSE a
Height == Len(blocks)

--------------------------------------------------------------------------------
(***************************************************************************)
(* The NFT on chain, and the scan that writes its row.                     *)
(***************************************************************************)
Mined(event) == Height < MaxBlock /\ blocks' = Append(blocks, event)
ChainUnchanged == UNCHANGED <<job, account>>

Increase(l) ==
    /\ nft.liquidity + l <= MaxSupply
    /\ Mined([kind |-> "increase", liquidity |-> l, amount |-> l])
    /\ nft' = [nft EXCEPT !.liquidity = @ + l]
    /\ ChainUnchanged

(* Out of range, all of it may come back in the other token.               *)
Decrease(l, back) ==
    /\ l <= nft.liquidity
    /\ Mined([kind |-> "decrease", liquidity |-> l, amount |-> back])
    /\ nft' = [nft EXCEPT !.liquidity = @ - l, !.principal = @ + back]
    /\ ChainUnchanged

EarnFee ==
    /\ nft.liquidity > 0 /\ nft.fees = 0
    /\ Mined(NoEvent)
    /\ nft' = [nft EXCEPT !.fees = 1]
    /\ ChainUnchanged

(* Any part of what is owed may be taken; the manager keeps no record of   *)
(* which part of that was fees.                                            *)
Collect(amount) ==
    LET principal == Smaller(amount, nft.principal) IN
    /\ amount \in 1..(nft.principal + nft.fees)
    /\ Mined([kind |-> "collect", liquidity |-> 0, amount |-> amount])
    /\ nft' = [nft EXCEPT !.principal = @ - principal, !.fees = @ - (amount - principal)]
    /\ ChainUnchanged

ScanRow ==
    /\ Height > 0
    /\ nft' = [nft EXCEPT !.closed = nft.liquidity = 0]
    /\ UNCHANGED <<blocks, job, account>>

--------------------------------------------------------------------------------
(***************************************************************************)
(* The pass: evidence of the opening, then _position_lifecycle_events.     *)
(***************************************************************************)
Opening == CHOOSE b \in 1..Height : blocks[b].kind = "increase" /\
                                    \A c \in 1..(b - 1) : blocks[c].kind # "increase"
Unfinished(reason) == [NoAccount EXCEPT !.source = reason]
JobUnchanged == UNCHANGED <<blocks, nft>>

(* The evidence is of a transfer to the wallet, which may be of an NFT     *)
(* that was minted, and paid into, long before; its block is stored, or    *)
(* its receipt is asked for.                                               *)
BeginFinalise ==
    /\ job.pc = "idle" /\ nft.closed /\ ~account.complete
    /\ \E since \in Opening..Height :
          job' = [NoJob EXCEPT !.pc = "logs", !.since = since, !.latest = Height, !.start = since]
    /\ JobUnchanged /\ UNCHANGED account

NoOpening ==
    /\ job.pc = "idle" /\ nft.closed /\ ~account.complete
    /\ account' = Unfinished("no opening")
    /\ JobUnchanged /\ UNCHANGED job

RangeEnd == Smaller(job.latest, job.start + job.range - 1)

ReadRange ==
    /\ job.pc = "logs" /\ job.start <= job.latest
    /\ job' = [job EXCEPT !.start = RangeEnd + 1, !.range = Smaller(WideRange, @ * 2),
                          !.events = @ \o SubSeq(blocks, job.start, RangeEnd)]
    /\ JobUnchanged /\ UNCHANGED account

RefuseRange ==
    /\ job.pc = "logs" /\ job.start <= job.latest /\ job.range > LeastRange
    /\ job' = [job EXCEPT !.range = Larger(LeastRange, @ \div 2)]
    /\ JobUnchanged /\ UNCHANGED account

FailRange ==
    /\ job.pc = "logs" /\ job.start <= job.latest /\ job.range <= LeastRange
    /\ account' = Unfinished("logs refused")
    /\ job' = NoJob
    /\ JobUnchanged

--------------------------------------------------------------------------------
(***************************************************************************)
(* _closed_position_final, for evidence of the opening that was stored     *)
(* before: whether its hash is spelt as the logs spell it (named; an       *)
(* explorer's has a prefix the logs' has not), and whether it has a basis: *)
(* what its own transaction paid in, or a reviewed one for a transfer that *)
(* paid nothing in.                                                        *)
(***************************************************************************)
Nothing == [capital |-> 0, proceeds |-> 0, fees |-> 0, pending |-> 0, liquidity |-> 0,
            counted |-> FALSE, collected |-> FALSE, emptied |-> FALSE, valued |-> TRUE]

(* _event_token_marks: pegs, price histories and the pool's ratio may all  *)
(* be missing; an amount of nothing needs no price.                        *)
Event(i) == job.events[i]
Basis == blocks[IF blocks[job.since].kind = "increase" THEN job.since ELSE Opening].amount
Valued(i, marks) == i \in marks \/ Event(i).amount = 0

Increased(acc, i, marks, opening) ==
    LET grown == [acc EXCEPT !.liquidity = @ + Event(i).liquidity]
    IN  IF ~acc.counted /\ opening.named /\ i = 1 /\ opening.basis
        THEN [grown EXCEPT !.capital = @ + Basis, !.counted = TRUE]
        ELSE IF Valued(i, marks)
        THEN [grown EXCEPT !.capital = @ + Event(i).amount]
        ELSE [grown EXCEPT !.valued = FALSE]

Decreased(acc, i) ==
    LET left == Larger(0, acc.liquidity - Event(i).liquidity)
    IN  [acc EXCEPT !.liquidity = left, !.emptied = @ \/ (acc.liquidity > 0 /\ left = 0),
                    !.pending = @ + Event(i).amount]

Collected(acc, i, marks) ==
    LET principal == Smaller(Event(i).amount, acc.pending)
        priced == Valued(i, marks)
    IN  [acc EXCEPT !.collected = TRUE, !.pending = @ - principal, !.valued = @ /\ priced,
                    !.proceeds = @ + (IF priced THEN Event(i).amount ELSE 0),
                    !.fees = @ + (IF priced THEN Event(i).amount - principal ELSE 0)]

Added(acc, i, marks, opening) ==
    CASE Event(i).kind = "increase" -> Increased(acc, i, marks, opening)
      [] Event(i).kind = "decrease" -> Decreased(acc, i)
      [] Event(i).kind = "collect" -> Collected(acc, i, marks)
      [] OTHER -> acc

AddUp(marks, opening) ==
    FoldLeft(LAMBDA acc, i : Added(acc, i, marks, opening), Nothing,
             [i \in 1..Len(job.events) |-> i])

WithBasis(sum, opening) ==
    IF ~sum.counted /\ opening.basis
    THEN [sum EXCEPT !.capital = @ + Basis, !.counted = TRUE] ELSE sum

(* Mutant: principal that was never collected is no obstacle.              *)
Complete_Owed(sum, gasPriced) ==
    sum.capital > 0 /\ sum.collected /\ sum.valued /\ gasPriced /\ sum.liquidity = 0

Complete(sum, gasPriced) ==
    /\ sum.capital > 0 /\ sum.collected /\ sum.valued /\ gasPriced
    /\ sum.pending = 0 /\ sum.liquidity = 0

(* The caller passes no unclaimed amounts on, so they stop nothing.  Of    *)
(* accounts that are not complete only the reason is kept.                 *)
Settle(marks, opening, gasPriced) ==
    LET sum == WithBasis(AddUp(marks, opening), opening) IN
    /\ job.pc = "logs" /\ job.start > job.latest
    /\ account' = IF Complete(sum, gasPriced)
                  THEN [complete |-> TRUE, source |-> "chain", capital |-> sum.capital,
                        proceeds |-> sum.proceeds, fees |-> sum.fees,
                        since |-> job.since, latest |-> job.latest,
                        matched |-> opening.named \/ ~opening.basis]
                  ELSE Unfinished("evidence")
    /\ job' = NoJob
    /\ JobUnchanged

(* A reviewed close with its fee claim stands in for what is not complete, *)
(* if the events show that the NFT was once emptied.                       *)
SettleReviewed(marks, opening, gasPriced) ==
    LET sum == WithBasis(AddUp(marks, opening), opening) IN
    /\ job.pc = "logs" /\ job.start > job.latest
    /\ ~Complete(sum, gasPriced) /\ sum.emptied
    /\ account' = [NoAccount EXCEPT !.complete = TRUE, !.source = "review",
                                  !.since = job.since, !.latest = job.latest]
    /\ job' = NoJob
    /\ JobUnchanged

LifeNext ==
    \/ \E l \in 1..MaxSupply : Increase(l) \/ \E back \in {0, l} : Decrease(l, back)
    \/ EarnFee \/ ScanRow
    \/ \E amount \in 1..(nft.principal + nft.fees) : Collect(amount)
    \/ BeginFinalise \/ NoOpening \/ ReadRange \/ RefuseRange \/ FailRange
    \/ \E gasPriced \in BOOLEAN, opening \in [named : BOOLEAN, basis : BOOLEAN],
          marks \in {{}, 1..Len(job.events), 2..Len(job.events)} :
          Settle(marks, opening, gasPriced) \/ SettleReviewed(marks, opening, gasPriced)

LifeSpec == LifeInit /\ [][LifeNext]_lifeVars

--------------------------------------------------------------------------------
Total(kind, until) ==
    MapThenSumSet(LAMBDA b : blocks[b].amount, {b \in 1..until : blocks[b].kind = kind})
Supplied(until) ==
    MapThenSumSet(LAMBDA b : blocks[b].liquidity, {b \in 1..until : blocks[b].kind = "increase"})
Removed(until) ==
    MapThenSumSet(LAMBDA b : blocks[b].liquidity, {b \in 1..until : blocks[b].kind = "decrease"})

(* The evidence of the opening was of the transaction that first paid in.  *)
FromOpening ==
    /\ account.complete /\ account.source = "chain"
    /\ \A b \in 1..(account.since - 1) : blocks[b].kind # "increase"

(* Accounts frozen from the chain, on evidence of the true opening, are    *)
(* those of the whole life up to the block they were read at: whatever     *)
(* ranges the provider refused, however principal and fees were collected  *)
(* and whatever could not be valued on the way, the NFT was empty and paid *)
(* out, proceeds are all it paid, and the fees what it paid beyond the     *)
(* principal.  The capital is all that went in, if the opening was found   *)
(* among the events or no basis stored (_closed_position_final).           *)
ClosedAccountsAreWhole ==
    FromOpening =>
        /\ Supplied(account.latest) = Removed(account.latest)
        /\ account.proceeds = Total("collect", account.latest)
        /\ account.fees = Total("collect", account.latest) - Total("decrease", account.latest)
        /\ account.matched => account.capital = Total("increase", account.latest)

(* "All liquidity contributions are cost basis" (_closed_position_final):  *)
(* each once, where all of them were read.                                 *)
CapitalCountedOnce == FromOpening => account.capital = Total("increase", account.latest)
================================================================================
