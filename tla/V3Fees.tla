-------------------------------- MODULE V3Fees --------------------------------
(***************************************************************************)
(* What one position's unclaimed fees look like to scan_chain_positions.   *)
(* The pool keeps fee growth modulo W, and the scan reads position, slot0, *)
(* global growth and the two range ticks in separate calls, each answered  *)
(* at the block that is the latest by then.  One token stands for both.    *)
(***************************************************************************)
EXTENDS Integers

CONSTANTS
    W,           \* growth counters wrap at W (2^256 in the pool)
    Q,           \* growth per unit of liquidity is scaled by Q (2^128)
    Liquidity,   \* liquidity of the position
    Growths,     \* initial values of the pool's counters
    MaxGrowth,   \* bound: fee growth over a behaviour
    MaxCrossings \* bound: crossings of a range tick over a behaviour

ASSUME WidthAssumption == W \in Nat \ {0} /\ Growths \subseteq 0..(W - 1)
ASSUME ScaleAssumption == Q \in Nat \ {0} /\ Liquidity \in Nat
ASSUME GrowthAssumption == MaxGrowth \in 0..(W - 1) /\ MaxCrossings \in Nat

VARIABLES
    price,      \* the pool's tick, against the position's range
    global,     \* feeGrowthGlobalX128
    outside,    \* ticks(tick).feeGrowthOutsideX128 of the two range ticks
    position,   \* positions(tokenId): feeGrowthInsideLastX128, tokensOwed
    accrued,    \* growth inside the range since position.last, never wrapped
    spent,      \* growth and crossings used up, against the bounds
    reader,     \* the scan's program counter and the values it has read
    report,     \* unclaimed fees the finished read reports, and their source
    since       \* what happened since this read began: the claimable amounts,
                \* whether a tick was crossed, liquidity changed, fees collected

vars == <<price, global, outside, position, accrued, spent, reader, report, since>>
pool == <<price, global, outside, position, accrued, spent>>

Ticks == {"lower", "upper"}
Prices == {"below", "in", "above"}
Counter == 0..(W - 1)
Pcs == {"position", "slot0", "global", "lower", "upper"}

TypeOK ==
    /\ price \in Prices /\ global \in Counter /\ outside \in [Ticks -> Counter]
    /\ position \in [last : Counter, owed : Nat]
    /\ accrued \in Nat
    /\ spent \in [growth : 0..MaxGrowth, crossings : 0..MaxCrossings]
    /\ reader \in [pc : Pcs, last : Counter, owed : Nat, price : Prices,
                   global : Counter, lower : Counter]
    /\ report \in [fees : Nat,
                   source : {"NONE", "POOL_FEE_GROWTH", "COLLECT_ETH_CALL",
                             "STORED_TOKENS_OWED_FALLBACK"}]
    /\ since \in [claimable : SUBSET Nat, crossed : BOOLEAN, updated : BOOLEAN,
                  collected : BOOLEAN]

(* Mutant: a difference below zero is cut off instead of wrapping.         *)
U256Sub_Floor(a, b) == IF a < b THEN 0 ELSE a - b

U256Sub(a, b) == (a - b) % W

(* Mutant: the growth above is taken as if the price were always above.    *)
Inside_AboveOnly(p, g, lower, upper) ==
    U256Sub(U256Sub(g, IF p = "below" THEN U256Sub(g, lower) ELSE lower), U256Sub(g, upper))

Inside(p, g, lower, upper) ==
    LET below == IF p = "below" THEN U256Sub(g, lower) ELSE lower
        above == IF p = "above" THEN U256Sub(g, upper) ELSE upper
    IN  U256Sub(U256Sub(g, below), above)

FeesFromGrowth(owed, last, inside) == owed + (Liquidity * U256Sub(inside, last)) \div Q

(* What a zero-liquidity burn and a collect would pay now.                 *)
Claimable == position.owed + (Liquidity * accrued) \div Q

Reading0 == [pc |-> "position", last |-> 0, owed |-> 0, price |-> "in",
             global |-> 0, lower |-> 0]
NoReport == [fees |-> 0, source |-> "NONE"]
Undisturbed(c) == [claimable |-> {c}, crossed |-> FALSE, updated |-> FALSE,
                   collected |-> FALSE]

Init ==
    /\ price \in Prices /\ global \in Growths /\ outside \in [Ticks -> Growths]
    /\ \A t \in Ticks : outside[t] <= global
    /\ position = [last |-> Inside(price, global, outside["lower"], outside["upper"]),
                   owed |-> 0]
    /\ accrued = 0
    /\ spent = [growth |-> 0, crossings |-> 0]
    /\ reader = Reading0
    /\ report = NoReport
    /\ since = Undisturbed(0)

--------------------------------------------------------------------------------
(***************************************************************************)
(* The pool and the position manager, outside LP Manager.                  *)
(***************************************************************************)

(* A swap that stays between two initialised ticks pays d of growth.       *)
Swap(d) ==
    /\ spent.growth + d <= MaxGrowth
    /\ spent' = [spent EXCEPT !.growth = @ + d]
    /\ global' = (global + d) % W
    /\ accrued' = IF price = "in" THEN accrued + d ELSE accrued
    /\ UNCHANGED <<price, outside, position, reader, report>>
    /\ since' = [since EXCEPT !.claimable = @ \cup {Claimable'}]

Cross(tick, from, to) ==
    /\ price = from /\ spent.crossings < MaxCrossings
    /\ price' = to
    /\ outside' = [outside EXCEPT ![tick] = U256Sub(global, @)]
    /\ spent' = [spent EXCEPT !.crossings = @ + 1]
    /\ since' = [since EXCEPT !.crossed = TRUE]
    /\ UNCHANGED <<global, position, accrued, reader, report>>

(* increaseLiquidity, decreaseLiquidity or collect books what has accrued; *)
(* a collect then pays it all out.                                         *)
Book(collected) ==
    /\ position' = [last |-> Inside(price, global, outside["lower"], outside["upper"]),
                    owed |-> IF collected THEN 0 ELSE Claimable]
    /\ accrued' = 0
    /\ UNCHANGED <<price, global, outside, spent, reader, report>>
    /\ since' = [since EXCEPT !.claimable = @ \cup {Claimable'}, !.updated = TRUE,
                           !.collected = @ \/ collected]

PoolNext ==
    \/ \E d \in 1..MaxGrowth : Swap(d)
    \/ Cross("lower", "below", "in") \/ Cross("lower", "in", "below")
    \/ Cross("upper", "in", "above") \/ Cross("upper", "above", "in")
    \/ accrued > 0 /\ Book(FALSE)
    \/ Claimable > 0 /\ Book(TRUE)

--------------------------------------------------------------------------------
(***************************************************************************)
(* The scan of one NFT: positions, slot0, then _live_v3_fees_from_growth.  *)
(***************************************************************************)
ReadPosition ==
    /\ reader.pc = "position"
    /\ reader' = [reader EXCEPT !.pc = "slot0", !.last = position.last,
                                !.owed = position.owed]
    /\ report' = NoReport
    /\ since' = Undisturbed(Claimable)
    /\ UNCHANGED pool

ReadNext(from, to, field, value) ==
    /\ reader.pc = from
    /\ reader' = [reader EXCEPT !.pc = to, ![field] = value]
    /\ UNCHANGED <<pool, report, since>>

ReadSlot0 == ReadNext("slot0", "global", "price", price)
ReadGlobal == ReadNext("global", "lower", "global", global)
ReadLower == ReadNext("lower", "upper", "lower", outside["lower"])

Finish(fees, source) ==
    /\ report' = [fees |-> fees, source |-> source]
    /\ reader' = Reading0
    /\ UNCHANGED <<pool, since>>

ReadUpper ==
    /\ reader.pc = "upper"
    /\ Finish(FeesFromGrowth(reader.owed, reader.last,
                Inside(reader.price, reader.global, reader.lower, outside["upper"])),
              "POOL_FEE_GROWTH")

(* Mutant: without the ticks the global growth stands for the inside one.  *)
FallBack_Global ==
    /\ reader.pc \in {"lower", "upper"}
    /\ Finish(FeesFromGrowth(reader.owed, reader.last, reader.global),
              "STORED_TOKENS_OWED_FALLBACK")

(* A growth read raised: a collect call is simulated, and when that fails  *)
(* too the tokensOwed read at the start are used.                          *)
FallBack ==
    /\ reader.pc \in {"global", "lower", "upper"}
    /\ \/ Finish(Claimable, "COLLECT_ETH_CALL")
       \/ Finish(reader.owed, "STORED_TOKENS_OWED_FALLBACK")

Read == ReadPosition \/ ReadSlot0 \/ ReadGlobal \/ ReadLower \/ ReadUpper \/ FallBack

Next == PoolNext \/ Read

Spec == Init /\ [][Next]_vars

--------------------------------------------------------------------------------
Reported(source) == reader.pc = "position" /\ report.source = source

(* While no tick is crossed and the position is not touched, the fees      *)
(* computed from separately read counters are an amount that was claimable *)
(* during the read, wherever the counters stand and however they wrap.     *)
GrowthReadIsExact ==
    Reported("POOL_FEE_GROWTH") /\ ~since.crossed /\ ~since.updated
       => report.fees \in since.claimable

(* "keep it only as a final conservative fallback" (scan_chain_positions): *)
(* the stored tokensOwed never exceed what the position could claim at any *)
(* moment of the read, though liquidity changes book more of it meanwhile, *)
(* as long as nobody collects.                                             *)
StoredIsConservative ==
    Reported("STORED_TOKENS_OWED_FALLBACK") /\ ~since.collected
       => \A c \in since.claimable : report.fees <= c
================================================================================
