------------------------------ MODULE ReadingsProofs ------------------------------
(***************************************************************************)
(* What is read about an NFT: the unclaimed fees (V3Fees), the fee tracker *)
(* (FeeTracker), the accounts of a closed one (LifecycleHistory) and the   *)
(* client of the price provider (MarketClient), proved for every width,    *)
(* scale and amount, any number of callers and a chain of any length.      *)
(***************************************************************************)
EXTENDS Readings, Sequences, FiniteSetTheorems, TLAPS

(***************************************************************************)
(* V3Fees: fees read from fee growth are exact, for every width of the     *)
(* counters.                                                               *)
(***************************************************************************)
(* Two counters differ by less than W, so wrapping adds W at most once.    *)
LEMMA SubIsWrap ==
    ASSUME NEW a \in Counter, NEW b \in Counter
    PROVE  U256Sub(a, b) = IF b <= a THEN a - b ELSE a - b + W
<1>1. CASE b <= a
  <2>1. a - b \in 0..(W - 1)
    BY <1>1, WidthAssumption DEF Counter
  <2>2. QED
    BY <1>1, <2>1, WidthAssumption DEF U256Sub, Counter
<1>2. CASE ~(b <= a)
  <2>1. a - b + W \in 0..(W - 1)
    BY <1>2, WidthAssumption DEF Counter
  <2>2. QED
    BY <1>2, <2>1, WidthAssumption DEF U256Sub, Counter
<1>3. QED
  BY <1>1, <1>2

LEMMA SubType ==
    ASSUME NEW a \in Counter, NEW b \in Counter
    PROVE  U256Sub(a, b) \in Counter
BY SubIsWrap, WidthAssumption DEF Counter

LEMMA DivNat ==
    ASSUME NEW a \in Nat, NEW q \in Nat \ {0}
    PROVE  a \div q \in Nat
OBVIOUS

LEMMA WrapIs ==
    ASSUME NEW g \in Counter, NEW d \in Counter
    PROVE  (g + d) % W = IF g + d < W THEN g + d ELSE g + d - W
<1>1. CASE g + d < W
  BY <1>1, WidthAssumption DEF Counter
<1>2. CASE ~(g + d < W)
  <2>1. g + d - W \in 0..(W - 1)
    BY <1>2, WidthAssumption DEF Counter
  <2>2. QED
    BY <1>2, <2>1, WidthAssumption DEF Counter
<1>3. QED
  BY <1>1, <1>2
LEMMA SubSelf ==
    ASSUME NEW a \in Counter
    PROVE  U256Sub(a, a) = 0
BY SubIsWrap, WidthAssumption DEF Counter

LEMMA SubTwice ==
    ASSUME NEW a \in Counter, NEW b \in Counter
    PROVE  U256Sub(a, U256Sub(a, b)) = b
<1> DEFINE c == U256Sub(a, b)
<1>1. c = IF b <= a THEN a - b ELSE a - b + W
  BY SubIsWrap
<1>2. c \in Counter
  BY SubType
<1>3. U256Sub(a, c) = IF c <= a THEN a - c ELSE a - c + W
  BY <1>2, SubIsWrap
<1> HIDE DEF c
<1>4. U256Sub(a, c) = b
  BY <1>1, <1>2, <1>3, WidthAssumption DEF Counter
<1>5. QED
  BY <1>4 DEF c

LEMMA DivMonotone ==
    ASSUME NEW a \in Nat, NEW b \in Nat, NEW q \in Nat \ {0}, a <= b
    PROVE  a \div q <= b \div q
<1>1. a = q * (a \div q) + (a % q) /\ b = q * (b \div q) + (b % q)
  OBVIOUS
<1>2. QED
  BY <1>1

LEMMA FeesType ==
    ASSUME NEW owed \in Nat, NEW a \in Nat
    PROVE  owed + (Liquidity * a) \div Q \in Nat
<1>1. Liquidity * a \in Nat
  BY ScaleAssumption
<1>2. QED
  BY <1>1, DivNat, ScaleAssumption

LEMMA FeesMonotone ==
    ASSUME NEW owed \in Nat, NEW a \in Nat, NEW b \in Nat, a <= b
    PROVE  owed + (Liquidity * a) \div Q <= owed + (Liquidity * b) \div Q
<1>1. Liquidity * a \in Nat /\ Liquidity * b \in Nat
  BY ScaleAssumption
<1>2. Liquidity * a <= Liquidity * b
  BY ScaleAssumption
<1>3. (Liquidity * a) \div Q <= (Liquidity * b) \div Q
  BY <1>1, <1>2, DivMonotone, ScaleAssumption
<1>4. (Liquidity * a) \div Q \in Nat /\ (Liquidity * b) \div Q \in Nat
  BY <1>1, DivNat, ScaleAssumption
<1>5. QED
  BY <1>3, <1>4

(* Out of range the growth inside does not depend on the global counter;   *)
(* in range it grows with it, through every wrap of the counters.          *)
LEMMA InsideBelow ==
    ASSUME NEW g \in Counter, NEW lo \in Counter, NEW up \in Counter
    PROVE  Inside("below", g, lo, up) = U256Sub(lo, up)
BY SubTwice DEF Inside

LEMMA InsideAbove ==
    ASSUME NEW g \in Counter, NEW lo \in Counter, NEW up \in Counter
    PROVE  Inside("above", g, lo, up) = U256Sub(up, lo)
<1> DEFINE x == U256Sub(g, lo)
           y == U256Sub(g, up)
<1>1. x \in Counter /\ y \in Counter
  BY SubType
<1>2. x = IF lo <= g THEN g - lo ELSE g - lo + W
  BY SubIsWrap
<1>3. y = IF up <= g THEN g - up ELSE g - up + W
  BY SubIsWrap
<1>4. U256Sub(x, y) = IF y <= x THEN x - y ELSE x - y + W
  BY <1>1, SubIsWrap
<1>5. U256Sub(up, lo) = IF lo <= up THEN up - lo ELSE up - lo + W
  BY SubIsWrap
<1>6. Inside("above", g, lo, up) = U256Sub(x, y)
  BY DEF Inside
<1> HIDE DEF x, y
<1>7. U256Sub(x, y) = U256Sub(up, lo)
  BY <1>1, <1>2, <1>3, <1>4, <1>5, WidthAssumption DEF Counter
<1>8. QED
  BY <1>6, <1>7

LEMMA InsideType ==
    ASSUME NEW p \in Prices, NEW g \in Counter, NEW lo \in Counter, NEW up \in Counter
    PROVE  Inside(p, g, lo, up) \in Counter
<1>1. U256Sub(g, lo) \in Counter /\ U256Sub(g, up) \in Counter
  BY SubType
<1> DEFINE below == IF p = "below" THEN U256Sub(g, lo) ELSE lo
           above == IF p = "above" THEN U256Sub(g, up) ELSE up
<1>2. below \in Counter /\ above \in Counter
  BY <1>1
<1>3. Inside(p, g, lo, up) = U256Sub(U256Sub(g, below), above)
  BY DEF Inside
<1> HIDE DEF below, above
<1>4. QED
  BY <1>2, <1>3, SubType

LEMMA InsideGrows ==
    ASSUME NEW g \in Counter, NEW lo \in Counter, NEW up \in Counter,
           NEW last \in Counter, NEW d \in Counter,
           U256Sub(Inside("in", g, lo, up), last) + d < W
    PROVE  U256Sub(Inside("in", (g + d) % W, lo, up), last)
             = U256Sub(Inside("in", g, lo, up), last) + d
<1> DEFINE h == (g + d) % W
           x == U256Sub(g, lo)
           y == U256Sub(h, lo)
           i == U256Sub(x, up)
           j == U256Sub(y, up)
<1>1. h \in Counter /\ h = IF g + d < W THEN g + d ELSE g + d - W
  BY WrapIs, WidthAssumption DEF Counter
<1>2. x \in Counter /\ x = IF lo <= g THEN g - lo ELSE g - lo + W
  BY SubIsWrap, SubType
<1>3. y \in Counter /\ y = IF lo <= h THEN h - lo ELSE h - lo + W
  BY <1>1, SubIsWrap, SubType
<1>4. i \in Counter /\ i = IF up <= x THEN x - up ELSE x - up + W
  BY <1>2, SubIsWrap, SubType
<1>5. j \in Counter /\ j = IF up <= y THEN y - up ELSE y - up + W
  BY <1>3, SubIsWrap, SubType
<1>6. U256Sub(i, last) = IF last <= i THEN i - last ELSE i - last + W
  BY <1>4, SubIsWrap
<1>7. U256Sub(j, last) = IF last <= j THEN j - last ELSE j - last + W
  BY <1>5, SubIsWrap
<1>8. Inside("in", g, lo, up) = i /\ Inside("in", h, lo, up) = j
  BY DEF Inside
<1>9. U256Sub(i, last) + d < W
  BY <1>8
<1> HIDE DEF h, x, y, i, j
<1>10. U256Sub(j, last) = U256Sub(i, last) + d
  BY <1>1, <1>2, <1>3, <1>4, <1>5, <1>6, <1>7, <1>9, WidthAssumption DEF Counter
<1>11. QED
  BY <1>8, <1>10 DEF h

(* Crossing a tick flips its counter so that the growth inside is kept.    *)
LEMMA InsideCrossed ==
    ASSUME NEW g \in Counter, NEW lo \in Counter, NEW up \in Counter
    PROVE  /\ Inside("in", g, U256Sub(g, lo), up) = Inside("below", g, lo, up)
           /\ Inside("below", g, U256Sub(g, lo), up) = Inside("in", g, lo, up)
           /\ Inside("above", g, lo, U256Sub(g, up)) = Inside("in", g, lo, up)
           /\ Inside("in", g, lo, U256Sub(g, up)) = Inside("above", g, lo, up)
BY SubTwice DEF Inside

--------------------------------------------------------------------------------
(***************************************************************************)
(* Type correctness.                                                       *)
(***************************************************************************)
InsideNow == Inside(price, global, outside["lower"], outside["upper"])

LEMMA ClaimableType ==
    ASSUME TypeOK
    PROVE  Claimable \in Nat
BY FeesType DEF Claimable, TypeOK

LEMMA InsideNowType ==
    ASSUME TypeOK
    PROVE  InsideNow \in Counter
<1>1. /\ price \in Prices /\ global \in Counter
      /\ outside["lower"] \in Counter /\ outside["upper"] \in Counter
  BY DEF TypeOK, Ticks
<1>2. QED
  BY <1>1, InsideType DEF InsideNow

LEMMA FeesFromGrowthType ==
    ASSUME NEW owed \in Nat, NEW last \in Counter, NEW inside \in Counter
    PROVE  FeesFromGrowth(owed, last, inside) \in Nat
<1>1. U256Sub(inside, last) \in Nat
  BY SubType, WidthAssumption DEF Counter
<1>2. QED
  BY <1>1, FeesType DEF FeesFromGrowth

LEMMA InitType == Init => TypeOK
<1> SUFFICES ASSUME Init PROVE TypeOK
  OBVIOUS
<1>1. price \in Prices /\ global \in Counter /\ outside \in [Ticks -> Counter]
  BY WidthAssumption DEF Init, Counter
<1>2. InsideNow \in Counter
  BY <1>1, InsideType DEF InsideNow, Ticks
<1>3. position \in [last : Counter, owed : Nat]
  BY <1>2 DEF Init, InsideNow
<1>4. spent \in [growth : 0..MaxGrowth, crossings : 0..MaxCrossings]
  BY GrowthAssumption, WidthAssumption DEF Init
<1>5. 0 \in Counter
  BY WidthAssumption DEF Counter
<1>6. /\ reader = [pc |-> "position", last |-> 0, owed |-> 0, price |-> "in",
                   global |-> 0, lower |-> 0]
      /\ report = [fees |-> 0, source |-> "NONE"]
      /\ since = [claimable |-> {0}, crossed |-> FALSE, updated |-> FALSE,
                  collected |-> FALSE]
      /\ accrued = 0
  BY DEF Init, Reading0, NoReport, Undisturbed
<1>7. QED
  BY <1>1, <1>3, <1>4, <1>5, <1>6 DEF TypeOK, Prices, Pcs

LEMMA SwapType ==
    ASSUME TypeOK, NEW d \in 1..MaxGrowth, Swap(d)
    PROVE  TypeOK'
<1>1. global' \in Counter
  BY WidthAssumption, GrowthAssumption DEF TypeOK, Swap, Counter
<1>2. accrued' \in Nat
  BY GrowthAssumption DEF TypeOK, Swap
<1>3. spent' \in [growth : 0..MaxGrowth, crossings : 0..MaxCrossings]
  BY GrowthAssumption DEF TypeOK, Swap
<1>4. UNCHANGED <<price, outside, position, reader, report>>
  BY DEF Swap
<1>5. Claimable' \in Nat
  BY <1>2, <1>4, FeesType DEF Claimable, TypeOK
<1>6. since' \in [claimable : SUBSET Nat, crossed : BOOLEAN, updated : BOOLEAN,
                  collected : BOOLEAN]
  <2> DEFINE c == since.claimable \cup {Claimable'}
  <2>1. since' = [since EXCEPT !.claimable = c]
    BY DEF Swap
  <2>2. c \in SUBSET Nat
    BY <1>5 DEF TypeOK
  <2> HIDE DEF c
  <2>3. QED
    BY <2>1, <2>2 DEF TypeOK
<1>7. QED
  BY <1>1, <1>2, <1>3, <1>4, <1>6 DEF TypeOK

LEMMA CrossType ==
    ASSUME TypeOK, NEW tick \in Ticks, NEW from \in Prices, NEW to \in Prices,
           Cross(tick, from, to)
    PROVE  TypeOK'
<1>1. U256Sub(global, outside[tick]) \in Counter
  BY SubType DEF TypeOK
<1>2. outside' \in [Ticks -> Counter]
  BY <1>1 DEF TypeOK, Cross
<1>3. spent' \in [growth : 0..MaxGrowth, crossings : 0..MaxCrossings]
  BY GrowthAssumption DEF TypeOK, Cross
<1>4. since' \in [claimable : SUBSET Nat, crossed : BOOLEAN, updated : BOOLEAN,
                  collected : BOOLEAN]
  BY DEF TypeOK, Cross
<1>5. QED
  BY <1>2, <1>3, <1>4 DEF TypeOK, Cross

LEMMA BookType ==
    ASSUME TypeOK, NEW collected \in BOOLEAN, Book(collected)
    PROVE  TypeOK'
<1>1. InsideNow \in Counter /\ Claimable \in Nat
  BY InsideNowType, ClaimableType
<1>2. position' \in [last : Counter, owed : Nat]
  BY <1>1 DEF Book, InsideNow
<1>3. accrued' \in Nat
  BY DEF Book
<1>4. Claimable' \in Nat
  BY <1>2, <1>3, FeesType DEF Claimable
<1>5. since' \in [claimable : SUBSET Nat, crossed : BOOLEAN, updated : BOOLEAN,
                  collected : BOOLEAN]
  <2> DEFINE c == since.claimable \cup {Claimable'}
             k == since.collected \/ collected
  <2>1. since' = [since EXCEPT !.claimable = c, !.updated = TRUE, !.collected = k]
    BY DEF Book
  <2>2. c \in SUBSET Nat /\ k \in BOOLEAN
    BY <1>4 DEF TypeOK
  <2> HIDE DEF c, k
  <2>3. QED
    BY <2>1, <2>2 DEF TypeOK
<1>6. QED
  BY <1>2, <1>3, <1>5 DEF TypeOK, Book

LEMMA PoolType == TypeOK /\ PoolNext => TypeOK'
<1> SUFFICES ASSUME TypeOK, PoolNext PROVE TypeOK'
  OBVIOUS
<1>1. ASSUME NEW d \in 1..MaxGrowth, Swap(d) PROVE TypeOK'
  BY <1>1, SwapType
<1>2. CASE Cross("lower", "below", "in") \/ Cross("lower", "in", "below")
  BY <1>2, CrossType DEF Ticks, Prices
<1>3. CASE Cross("upper", "in", "above") \/ Cross("upper", "above", "in")
  BY <1>3, CrossType DEF Ticks, Prices
<1>4. CASE Book(FALSE) \/ Book(TRUE)
  BY <1>4, BookType
<1>5. QED
  BY <1>1, <1>2, <1>3, <1>4 DEF PoolNext

LEMMA FinishType ==
    ASSUME TypeOK, NEW due \in Nat,
           NEW source \in {"POOL_FEE_GROWTH", "COLLECT_ETH_CALL",
                           "STORED_TOKENS_OWED_FALLBACK"},
           Finish(due, source)
    PROVE  TypeOK'
<1>1. 0 \in Counter
  BY WidthAssumption DEF Counter
<1>2. QED
  BY <1>1 DEF Finish, TypeOK, Reading0, Pcs, Prices, pool

LEMMA ReadType == TypeOK /\ Read => TypeOK'
<1> SUFFICES ASSUME TypeOK, Read PROVE TypeOK'
  OBVIOUS
<1>1. CASE ReadPosition
  <2>1. Claimable \in Nat
    BY ClaimableType
  <2>2. since' \in [claimable : SUBSET Nat, crossed : BOOLEAN, updated : BOOLEAN,
                    collected : BOOLEAN]
    BY <1>1, <2>1 DEF ReadPosition, Undisturbed
  <2>3. reader' \in [pc : Pcs, last : Counter, owed : Nat, price : Prices,
                     global : Counter, lower : Counter]
    BY <1>1 DEF ReadPosition, TypeOK, Pcs
  <2>4. QED
    BY <1>1, <2>2, <2>3 DEF ReadPosition, TypeOK, NoReport, pool
<1>2. CASE ReadSlot0
  BY <1>2 DEF ReadSlot0, ReadNext, TypeOK, Pcs, pool
<1>3. CASE ReadGlobal
  BY <1>3 DEF ReadGlobal, ReadNext, TypeOK, Pcs, pool
<1>4. CASE ReadLower
  BY <1>4 DEF ReadLower, ReadNext, TypeOK, Pcs, Ticks, pool
<1>5. CASE ReadUpper
  <2> DEFINE inside == Inside(reader.price, reader.global, reader.lower, outside["upper"])
  <2>1. inside \in Counter
    BY InsideType DEF TypeOK, Ticks
  <2>2. FeesFromGrowth(reader.owed, reader.last, inside) \in Nat
    BY <2>1, FeesFromGrowthType DEF TypeOK
  <2>3. QED
    BY <1>5, <2>2, FinishType DEF ReadUpper
<1>6. CASE FallBack
  BY <1>6, FinishType, ClaimableType DEF FallBack, TypeOK
<1>7. QED
  BY <1>1, <1>2, <1>3, <1>4, <1>5, <1>6 DEF Read

(* Counters stay counters and reported amounts are never negative, for     *)
(* every width of the counters, scale and liquidity.                       *)
THEOREM FeesTyped == Spec => []TypeOK
<1>1. TypeOK /\ UNCHANGED vars => TypeOK'
  BY DEF TypeOK, vars
<1>2. TypeOK /\ [Next]_vars => TypeOK'
  BY <1>1, PoolType, ReadType DEF Next
<1>3. QED
  BY <1>2, InitType, PTL DEF Spec

--------------------------------------------------------------------------------
(***************************************************************************)
(* The inductive invariant.  What has accrued is the growth inside the     *)
(* range since the position's last update; the amount claimable now is one *)
(* the read has met; while nothing interferes, a read holds the position's *)
(* own state and a global counter that stood for a claimable amount.       *)
(***************************************************************************)
AccruedIsGrowth ==
    /\ accrued <= spent.growth
    /\ U256Sub(InsideNow, position.last) = accrued

ClaimableIsMet == Claimable \in since.claimable

ReadMatches ==
    ~since.crossed /\ ~since.updated =>
       /\ reader.pc # "position" =>
            reader.last = position.last /\ reader.owed = position.owed
       /\ reader.pc \in {"global", "lower", "upper"} => reader.price = price
       /\ reader.pc \in {"lower", "upper"} =>
            FeesFromGrowth(reader.owed, reader.last,
               Inside(reader.price, reader.global, outside["lower"], outside["upper"]))
              \in since.claimable
       /\ reader.pc = "upper" => reader.lower = outside["lower"]

OwedIsLeast ==
    ~since.collected /\ reader.pc # "position" =>
       \A c \in since.claimable : reader.owed <= c

ReadInv == /\ AccruedIsGrowth /\ ClaimableIsMet /\ ReadMatches /\ OwedIsLeast
           /\ GrowthReadIsExact /\ StoredIsConservative

LEMMA InitRead == Init => ReadInv
<1> SUFFICES ASSUME Init PROVE ReadInv
  OBVIOUS
<1>1. TypeOK
  BY InitType
<1>2. position.last = InsideNow /\ position.owed = 0 /\ accrued = 0
  BY DEF Init, InsideNow
<1>3. AccruedIsGrowth
  BY <1>1, <1>2, InsideNowType, SubSelf DEF AccruedIsGrowth, Init
<1>4. Liquidity * 0 = 0 /\ 0 \div Q = 0
  BY ScaleAssumption
<1>5. Claimable = 0
  BY <1>2, <1>4 DEF Claimable
<1>6. reader.pc = "position" /\ report.source = "NONE" /\ since.claimable = {0}
  BY DEF Init, Reading0, NoReport, Undisturbed
<1>7. QED
  BY <1>3, <1>5, <1>6
    DEF ReadInv, ClaimableIsMet, ReadMatches, OwedIsLeast, GrowthReadIsExact,
        StoredIsConservative, Reported

(* The claimable amount is what the growth up to now gives.                *)
LEMMA ClaimableFromGrowth ==
    ASSUME TypeOK, AccruedIsGrowth
    PROVE  Claimable = FeesFromGrowth(position.owed, position.last, InsideNow)
BY DEF AccruedIsGrowth, Claimable, FeesFromGrowth

LEMMA SwapAccrues ==
    ASSUME TypeOK, AccruedIsGrowth, NEW d \in 1..MaxGrowth, Swap(d)
    PROVE  AccruedIsGrowth' /\ accrued <= accrued'
<1> DEFINE lo == outside["lower"]
           up == outside["upper"]
           g == (global + d) % W
<1>1. global \in Counter /\ lo \in Counter /\ up \in Counter /\ position.last \in Counter
  BY DEF TypeOK, Ticks
<1>2. d \in Counter
  BY WidthAssumption, GrowthAssumption DEF Counter
<1>3. g \in Counter
  BY <1>1, <1>2, WidthAssumption DEF Counter
<1>4. InsideNow' = Inside(price, g, lo, up) /\ InsideNow = Inside(price, global, lo, up)
  BY DEF InsideNow, Swap
<1>5. /\ spent'.growth = spent.growth + d /\ spent.growth + d <= MaxGrowth
      /\ accrued' = IF price = "in" THEN accrued + d ELSE accrued
      /\ position' = position
  BY DEF Swap, TypeOK
<1>6. accrued \in Nat /\ accrued <= spent.growth /\ spent.growth \in Nat /\ MaxGrowth < W
      /\ MaxGrowth \in Nat /\ W \in Nat
  BY WidthAssumption, GrowthAssumption DEF AccruedIsGrowth, TypeOK
<1>7. accrued' <= spent'.growth /\ accrued <= accrued'
  BY <1>5, <1>6
<1>8. CASE price = "in"
  <2>1. U256Sub(Inside("in", global, lo, up), position.last) = accrued
    BY <1>4, <1>8 DEF AccruedIsGrowth
  <2>2. U256Sub(Inside("in", global, lo, up), position.last) + d < W
    BY <1>5, <1>6, <2>1
  <2> DEFINE last == position.last
  <2>3. last \in Counter /\ U256Sub(Inside("in", global, lo, up), last) + d < W
    BY <1>1, <2>2
  <2> HIDE DEF lo, up, last
  <2>4. U256Sub(Inside("in", g, lo, up), last)
          = U256Sub(Inside("in", global, lo, up), last) + d
    BY <1>1, <1>2, <2>3, InsideGrows
  <2>5. QED
    BY <1>4, <1>5, <1>7, <1>8, <2>1, <2>4 DEF AccruedIsGrowth, last
<1>9. CASE price # "in"
  <2>1. Inside(price, g, lo, up) = Inside(price, global, lo, up)
    BY <1>1, <1>3, <1>9, InsideBelow, InsideAbove DEF TypeOK, Prices
  <2>2. QED
    BY <1>4, <1>5, <1>7, <1>9, <2>1 DEF AccruedIsGrowth
<1>10. QED
  BY <1>8, <1>9

LEMMA SwapRead ==
    ASSUME TypeOK, ReadInv, NEW d \in 1..MaxGrowth, Swap(d)
    PROVE  ReadInv'
<1>1. AccruedIsGrowth' /\ accrued <= accrued' /\ accrued' \in Nat /\ accrued \in Nat
  BY SwapAccrues, SwapType DEF ReadInv, TypeOK
<1>2. /\ UNCHANGED <<price, outside, position, reader, report>>
      /\ since' = [since EXCEPT !.claimable = since.claimable \cup {Claimable'}]
  BY DEF Swap
<1>3. /\ since'.claimable = since.claimable \cup {Claimable'}
      /\ since'.crossed = since.crossed /\ since'.updated = since.updated
      /\ since'.collected = since.collected
  BY <1>2 DEF TypeOK
<1>4. Claimable <= Claimable' /\ Claimable \in Nat /\ Claimable' \in Nat
  <2>1. position' = position /\ position.owed \in Nat
    BY <1>2 DEF TypeOK
  <2>2. Claimable' = position.owed + (Liquidity * accrued') \div Q
    BY <2>1 DEF Claimable
  <2>3. QED
    BY <1>1, <2>1, <2>2, FeesMonotone, FeesType DEF Claimable
<1>5. ClaimableIsMet'
  BY <1>3 DEF ClaimableIsMet
<1>6. ReadMatches'
  BY <1>2, <1>3 DEF ReadInv, ReadMatches
<1>7. OwedIsLeast'
  <2>1. ASSUME ~since.collected, reader.pc # "position"
        PROVE  \A c \in since'.claimable : reader.owed <= c
    <3>1. \A c \in since.claimable : reader.owed <= c
      BY <2>1 DEF ReadInv, OwedIsLeast
    <3>2. reader.owed <= Claimable /\ reader.owed \in Nat
      BY <3>1 DEF ReadInv, ClaimableIsMet, TypeOK
    <3>3. reader.owed <= Claimable'
      BY <1>4, <3>2
    <3>4. QED
      BY <1>3, <3>1, <3>3
  <2>2. QED
    BY <1>2, <1>3, <2>1 DEF OwedIsLeast
<1>8. GrowthReadIsExact'
  BY <1>2, <1>3 DEF ReadInv, GrowthReadIsExact, Reported
<1>9. StoredIsConservative'
  <2>1. ASSUME Reported("STORED_TOKENS_OWED_FALLBACK"), ~since.collected
        PROVE  \A c \in since'.claimable : report.fees <= c
    <3>1. \A c \in since.claimable : report.fees <= c
      BY <2>1 DEF ReadInv, StoredIsConservative
    <3>2. report.fees <= Claimable /\ report.fees \in Nat
      BY <3>1 DEF ReadInv, ClaimableIsMet, TypeOK
    <3>3. report.fees <= Claimable'
      BY <1>4, <3>2
    <3>4. QED
      BY <1>3, <3>1, <3>3
  <2>2. QED
    BY <1>2, <1>3, <2>1 DEF StoredIsConservative, Reported
<1>10. QED
  BY <1>1, <1>5, <1>6, <1>7, <1>8, <1>9 DEF ReadInv

LEMMA CrossKeepsInside ==
    ASSUME TypeOK,
           \/ Cross("lower", "below", "in") \/ Cross("lower", "in", "below")
           \/ Cross("upper", "in", "above") \/ Cross("upper", "above", "in")
    PROVE  InsideNow' = InsideNow
<1> DEFINE lo == outside["lower"]
           up == outside["upper"]
<1>1. global \in Counter /\ lo \in Counter /\ up \in Counter
  BY DEF TypeOK, Ticks
<1>2. global' = global /\ InsideNow = Inside(price, global, lo, up)
  BY DEF Cross, InsideNow
<1>3. ASSUME NEW to \in Prices, NEW from \in Prices, Cross("lower", from, to)
      PROVE  InsideNow' = Inside(to, global, U256Sub(global, lo), up) /\ price = from
  BY <1>3 DEF Cross, InsideNow, TypeOK, Ticks
<1>4. ASSUME NEW to \in Prices, NEW from \in Prices, Cross("upper", from, to)
      PROVE  InsideNow' = Inside(to, global, lo, U256Sub(global, up)) /\ price = from
  BY <1>4 DEF Cross, InsideNow, TypeOK, Ticks
<1>5. /\ Inside("in", global, U256Sub(global, lo), up) = Inside("below", global, lo, up)
      /\ Inside("below", global, U256Sub(global, lo), up) = Inside("in", global, lo, up)
      /\ Inside("above", global, lo, U256Sub(global, up)) = Inside("in", global, lo, up)
      /\ Inside("in", global, lo, U256Sub(global, up)) = Inside("above", global, lo, up)
  BY <1>1, InsideCrossed
<1>6. {"below", "in", "above"} \subseteq Prices
  BY DEF Prices
<1> HIDE DEF lo, up
<1>7. CASE Cross("lower", "below", "in") \/ Cross("lower", "in", "below")
  BY <1>2, <1>3, <1>5, <1>6, <1>7
<1>8. CASE Cross("upper", "in", "above") \/ Cross("upper", "above", "in")
  BY <1>2, <1>4, <1>5, <1>6, <1>8
<1>9. QED
  BY <1>7, <1>8

LEMMA CrossRead ==
    ASSUME TypeOK, ReadInv,
           \/ Cross("lower", "below", "in") \/ Cross("lower", "in", "below")
           \/ Cross("upper", "in", "above") \/ Cross("upper", "above", "in")
    PROVE  ReadInv'
<1>1. InsideNow' = InsideNow
  BY CrossKeepsInside
<1>2. /\ position' = position /\ accrued' = accrued
      /\ reader' = reader /\ report' = report
      /\ spent'.growth = spent.growth
      /\ since'.crossed /\ since'.claimable = since.claimable
      /\ since'.collected = since.collected
  BY DEF Cross, TypeOK
<1>3. AccruedIsGrowth'
  BY <1>1, <1>2 DEF ReadInv, AccruedIsGrowth
<1>4. ClaimableIsMet'
  BY <1>2 DEF ReadInv, ClaimableIsMet, Claimable
<1>5. ReadMatches' /\ GrowthReadIsExact'
  BY <1>2 DEF ReadMatches, GrowthReadIsExact
<1>6. OwedIsLeast' /\ StoredIsConservative'
  BY <1>2 DEF ReadInv, OwedIsLeast, StoredIsConservative, Reported
<1>7. QED
  BY <1>3, <1>4, <1>5, <1>6 DEF ReadInv

LEMMA BookRead ==
    ASSUME TypeOK, ReadInv, NEW collected \in BOOLEAN, Book(collected)
    PROVE  ReadInv'
<1>1. InsideNow' = InsideNow /\ position'.last = InsideNow /\ accrued' = 0
      /\ spent' = spent
  BY DEF Book, InsideNow
<1>2. position'.owed = IF collected THEN 0 ELSE Claimable
  BY DEF Book
<1>3. /\ reader' = reader /\ report' = report
      /\ since'.claimable = since.claimable \cup {Claimable'}
      /\ since'.crossed = since.crossed /\ since'.updated
  BY DEF Book, TypeOK
<1>4. since'.collected <=> since.collected \/ collected
  BY DEF Book, TypeOK
<1>5. AccruedIsGrowth'
  <2>1. U256Sub(InsideNow, InsideNow) = 0
    BY InsideNowType, SubSelf
  <2>2. spent.growth \in Nat
    BY DEF TypeOK
  <2>3. QED
    BY <1>1, <2>1, <2>2 DEF AccruedIsGrowth
<1>6. ClaimableIsMet'
  BY <1>3 DEF ClaimableIsMet
<1>7. ReadMatches' /\ GrowthReadIsExact'
  BY <1>3 DEF ReadMatches, GrowthReadIsExact
<1>8. ~collected => since'.claimable = since.claimable
  <2>1. Liquidity * 0 = 0 /\ 0 \div Q = 0
    BY ScaleAssumption
  <2>2. Claimable \in Nat
    BY ClaimableType
  <2>3. ~collected => Claimable' = Claimable
    BY <1>1, <1>2, <2>1, <2>2 DEF Claimable
  <2>4. QED
    BY <1>3, <2>3 DEF ReadInv, ClaimableIsMet
<1>9. OwedIsLeast' /\ StoredIsConservative'
  BY <1>3, <1>4, <1>8 DEF ReadInv, OwedIsLeast, StoredIsConservative, Reported
<1>10. QED
  BY <1>5, <1>6, <1>7, <1>9 DEF ReadInv

(* What the reader does leaves the pool and the growth inside alone.       *)
LEMMA PoolKept ==
    ASSUME UNCHANGED pool
    PROVE  /\ AccruedIsGrowth => AccruedIsGrowth'
           /\ InsideNow' = InsideNow /\ Claimable' = Claimable
BY DEF pool, AccruedIsGrowth, InsideNow, Claimable

LEMMA PositionRead == TypeOK /\ ReadInv /\ ReadPosition => ReadInv'
<1> SUFFICES ASSUME TypeOK, ReadInv, ReadPosition PROVE ReadInv'
  OBVIOUS
<1>1. /\ reader'.pc = "slot0" /\ reader'.last = position.last
      /\ reader'.owed = position.owed
  BY DEF ReadPosition, TypeOK
<1>2. since'.claimable = {Claimable} /\ report'.source = "NONE" /\ UNCHANGED pool
  BY DEF ReadPosition, Undisturbed, NoReport
<1>3. AccruedIsGrowth' /\ ClaimableIsMet'
  BY <1>2, PoolKept DEF ReadInv, ClaimableIsMet
<1>4. ReadMatches'
  BY <1>1, <1>2 DEF ReadMatches, pool
<1>5. OwedIsLeast'
  <2>1. position.owed + (Liquidity * 0) \div Q <= Claimable
    BY FeesMonotone DEF TypeOK, Claimable
  <2>2. Liquidity * 0 = 0 /\ 0 \div Q = 0 /\ position.owed \in Nat
    BY ScaleAssumption DEF TypeOK
  <2>3. position.owed <= Claimable
    BY <2>1, <2>2
  <2>4. QED
    BY <1>1, <1>2, <2>3 DEF OwedIsLeast
<1>6. GrowthReadIsExact' /\ StoredIsConservative'
  BY <1>2 DEF GrowthReadIsExact, StoredIsConservative, Reported
<1>7. QED
  BY <1>3, <1>4, <1>5, <1>6 DEF ReadInv

(* Between its first and its last call a read only moves on: whatever it   *)
(* takes must match the pool as it is now.                                 *)
LEMMA NextRead ==
    ASSUME TypeOK, ReadInv, UNCHANGED <<pool, report, since>>,
           reader.pc # "position", reader'.pc # "position",
           reader'.last = reader.last, reader'.owed = reader.owed, ReadMatches'
    PROVE  ReadInv'
<1>1. AccruedIsGrowth' /\ ClaimableIsMet'
  BY PoolKept DEF ReadInv, ClaimableIsMet
<1>2. OwedIsLeast' /\ GrowthReadIsExact' /\ StoredIsConservative'
  BY DEF ReadInv, OwedIsLeast, GrowthReadIsExact, StoredIsConservative, Reported
<1>3. QED
  BY <1>1, <1>2 DEF ReadInv

LEMMA Slot0Read == TypeOK /\ ReadInv /\ ReadSlot0 => ReadInv'
<1> SUFFICES ASSUME TypeOK, ReadInv, ReadSlot0 PROVE ReadInv'
  OBVIOUS
<1>1. /\ reader.pc = "slot0" /\ reader'.pc = "global" /\ reader'.last = reader.last
      /\ reader'.owed = reader.owed /\ reader'.price = price
      /\ UNCHANGED <<pool, report, since>>
  BY DEF ReadSlot0, ReadNext, TypeOK
<1>2. ReadMatches'
  BY <1>1 DEF ReadInv, ReadMatches, pool
<1>3. QED
  BY <1>1, <1>2, NextRead

LEMMA GlobalRead == TypeOK /\ ReadInv /\ ReadGlobal => ReadInv'
<1> SUFFICES ASSUME TypeOK, ReadInv, ReadGlobal PROVE ReadInv'
  OBVIOUS
<1>1. /\ reader.pc = "global" /\ reader'.pc = "lower" /\ reader'.last = reader.last
      /\ reader'.owed = reader.owed /\ reader'.price = reader.price
      /\ reader'.global = global /\ UNCHANGED <<pool, report, since>>
  BY DEF ReadGlobal, ReadNext, TypeOK
<1>2. ReadMatches'
  <2>1. SUFFICES ASSUME ~since.crossed, ~since.updated
        PROVE  /\ reader.last = position.last /\ reader.owed = position.owed
               /\ reader.price = price
               /\ FeesFromGrowth(reader.owed, reader.last,
                     Inside(reader.price, global, outside["lower"], outside["upper"]))
                    \in since.claimable
    BY <1>1, <2>1 DEF ReadMatches, pool
  <2>2. /\ reader.last = position.last /\ reader.owed = position.owed
        /\ reader.price = price
    BY <1>1, <2>1 DEF ReadInv, ReadMatches
  <2>3. Claimable = FeesFromGrowth(reader.owed, reader.last,
           Inside(reader.price, global, outside["lower"], outside["upper"]))
    BY <2>2, ClaimableFromGrowth DEF ReadInv, InsideNow
  <2>4. QED
    BY <2>2, <2>3 DEF ReadInv, ClaimableIsMet
<1>3. QED
  BY <1>1, <1>2, NextRead

LEMMA LowerRead == TypeOK /\ ReadInv /\ ReadLower => ReadInv'
<1> SUFFICES ASSUME TypeOK, ReadInv, ReadLower PROVE ReadInv'
  OBVIOUS
<1>1. /\ reader.pc = "lower" /\ reader'.pc = "upper" /\ reader'.last = reader.last
      /\ reader'.owed = reader.owed /\ reader'.price = reader.price
      /\ reader'.global = reader.global /\ reader'.lower = outside["lower"]
      /\ UNCHANGED <<pool, report, since>>
  BY DEF ReadLower, ReadNext, TypeOK
<1>2. ReadMatches'
  BY <1>1 DEF ReadInv, ReadMatches, pool
<1>3. QED
  BY <1>1, <1>2, NextRead

LEMMA FinishRead ==
    ASSUME TypeOK, ReadInv, NEW due \in Nat, NEW source, Finish(due, source),
           source = "POOL_FEE_GROWTH" /\ ~since.crossed /\ ~since.updated
             => due \in since.claimable,
           source = "STORED_TOKENS_OWED_FALLBACK" /\ ~since.collected
             => \A c \in since.claimable : due <= c
    PROVE  ReadInv'
<1>1. /\ report' = [fees |-> due, source |-> source] /\ reader'.pc = "position"
      /\ UNCHANGED <<pool, since>>
  BY DEF Finish, Reading0
<1>2. AccruedIsGrowth' /\ ClaimableIsMet'
  BY <1>1, PoolKept DEF ReadInv, ClaimableIsMet
<1>3. ReadMatches' /\ OwedIsLeast'
  BY <1>1 DEF ReadMatches, OwedIsLeast
<1>4. GrowthReadIsExact' /\ StoredIsConservative'
  BY <1>1 DEF GrowthReadIsExact, StoredIsConservative, Reported
<1>5. QED
  BY <1>2, <1>3, <1>4 DEF ReadInv

LEMMA UpperRead == TypeOK /\ ReadInv /\ ReadUpper => ReadInv'
<1> SUFFICES ASSUME TypeOK, ReadInv, ReadUpper PROVE ReadInv'
  OBVIOUS
<1> DEFINE inside == Inside(reader.price, reader.global, reader.lower, outside["upper"])
           due == FeesFromGrowth(reader.owed, reader.last, inside)
<1>1. reader.pc = "upper" /\ Finish(due, "POOL_FEE_GROWTH")
  BY DEF ReadUpper
<1>2. inside \in Counter
  BY InsideType DEF TypeOK, Ticks
<1>3. due \in Nat
  BY <1>2, FeesFromGrowthType DEF TypeOK
<1>4. ~since.crossed /\ ~since.updated => due \in since.claimable
  BY <1>1 DEF ReadInv, ReadMatches
<1> HIDE DEF inside, due
<1>5. QED
  BY <1>1, <1>3, <1>4, FinishRead

LEMMA FallBackRead == TypeOK /\ ReadInv /\ FallBack => ReadInv'
<1> SUFFICES ASSUME TypeOK, ReadInv, FallBack PROVE ReadInv'
  OBVIOUS
<1>1. Claimable \in Nat /\ reader.owed \in Nat /\ reader.pc # "position"
  BY ClaimableType DEF TypeOK, FallBack
<1>2. ~since.collected => \A c \in since.claimable : reader.owed <= c
  BY <1>1 DEF ReadInv, OwedIsLeast
<1>3. CASE Finish(Claimable, "COLLECT_ETH_CALL")
  BY <1>1, <1>3, FinishRead
<1>4. CASE Finish(reader.owed, "STORED_TOKENS_OWED_FALLBACK")
  BY <1>1, <1>2, <1>4, FinishRead
<1>5. QED
  BY <1>3, <1>4 DEF FallBack

LEMMA StepRead == TypeOK /\ ReadInv /\ [Next]_vars => ReadInv'
<1> SUFFICES ASSUME TypeOK, ReadInv, [Next]_vars PROVE ReadInv'
  OBVIOUS
<1>1. ASSUME NEW d \in 1..MaxGrowth, Swap(d) PROVE ReadInv'
  BY <1>1, SwapRead
<1>2. CASE \/ Cross("lower", "below", "in") \/ Cross("lower", "in", "below")
           \/ Cross("upper", "in", "above") \/ Cross("upper", "above", "in")
  BY <1>2, CrossRead
<1>3. CASE Book(FALSE) \/ Book(TRUE)
  BY <1>3, BookRead
<1>4. CASE Read
  BY <1>4, PositionRead, Slot0Read, GlobalRead, LowerRead, UpperRead, FallBackRead
     DEF Read
<1>5. CASE UNCHANGED vars
  BY <1>5 DEF vars, ReadInv, AccruedIsGrowth, ClaimableIsMet, ReadMatches, OwedIsLeast,
              GrowthReadIsExact, StoredIsConservative, Reported, InsideNow, Claimable
<1>6. QED
  BY <1>1, <1>2, <1>3, <1>4, <1>5 DEF Next, PoolNext

LEMMA ReadInvHolds == Spec => [](TypeOK /\ ReadInv)
<1>1. Init => TypeOK /\ ReadInv
  BY InitType, InitRead
<1>2. TypeOK /\ ReadInv /\ [Next]_vars => (TypeOK /\ ReadInv)'
  <2>1. TypeOK /\ UNCHANGED vars => TypeOK'
    BY DEF TypeOK, vars
  <2>2. QED
    BY <2>1, PoolType, ReadType, StepRead DEF Next
<1>3. QED
  BY <1>1, <1>2, PTL DEF Spec

(* For every width and scale of the counters, wherever they stand and      *)
(* however often they wrap: fees computed from separate reads of position, *)
(* price, global growth and the two ticks were claimable during the read,  *)
(* unless a tick was crossed or the position was updated meanwhile.        *)
THEOREM GrowthExact == Spec => []GrowthReadIsExact
BY ReadInvHolds, PTL DEF ReadInv

(* The stored tokensOwed a failing read falls back on never exceed what    *)
(* was claimable at any moment of it, unless fees were collected meanwhile.*)
THEOREM StoredLeast == Spec => []StoredIsConservative
BY ReadInvHolds, PTL DEF ReadInv

(***************************************************************************)
(* MarketClient: a provider that cools down is asked by no new call, and   *)
(* no answer is taken for a young one.                                     *)
(***************************************************************************)
Marks == {"none", "cooldown", "refused", "fallback", "limited"}
Call == [pc : {"idle", "send", "wait", "answered"}, key : Keys \cup {"none"},
         attempt : Nat, mark : Marks, age : Nat]

MarketTypeOK ==
    /\ age \in [Keys -> Nat] /\ cooling \in Nat
    /\ call \in [Callers -> Call] /\ outrun \in [Callers -> Nat]

(* Nothing is counted while the provider does not cool down, and a call    *)
(* under way counts at most its own attempts.                              *)
OutrunOK(c) ==
    /\ outrun[c] <= 2 /\ (cooling = 0 => outrun[c] = 0)
    /\ call[c].pc \in {"send", "wait"} => call[c].key \in Keys /\ outrun[c] <= call[c].attempt
    /\ call[c].pc = "send" => call[c].attempt < Attempts(call[c].key)
    /\ call[c].pc = "wait" => call[c].attempt <= Attempts(call[c].key)

Told(c) ==
    /\ call[c].mark = "none" => call[c].age < Young[call[c].key]
    /\ call[c].mark \in {"cooldown", "fallback"} => call[c].age < Stale[call[c].key]
    /\ call[c].mark = "limited" => cooling > 0

CallOK(c) == OutrunOK(c) /\ (call[c].pc = "answered" => Told(c))

MarketInv == MarketTypeOK /\ \A c \in Callers : CallOK(c)

LEMMA InvKeepsCooldown == MarketInv => CooldownIsKept
BY DEF MarketInv, MarketTypeOK, Call, Marks, CallOK, OutrunOK, Told, CooldownIsKept, At

LEMMA QuietIsCall == ASSUME AgesAreOrdered PROVE Quiet \in Call
BY DEF AgesAreOrdered, Quiet, Call, Marks, Never

LEMMA InitMarket == ASSUME AgesAreOrdered, MarketInit PROVE MarketInv
<1>1. MarketTypeOK
  BY QuietIsCall DEF MarketTypeOK, MarketInit, AgesAreOrdered, Never
<1>2. \A c \in Callers : CallOK(c)
  <2>1. ASSUME NEW c \in Callers
        PROVE  call[c].pc = "idle" /\ outrun[c] = 0
    <3>1. call[c] = Quiet /\ outrun[c] = 0
      BY DEF MarketInit
    <3>2. Quiet.pc = "idle"
      BY DEF Quiet
    <3>3. QED
      BY <3>1, <3>2
  <2>2. ASSUME NEW c \in Callers PROVE OutrunOK(c)
    BY <2>1 DEF OutrunOK
  <2>3. QED
    BY <2>1, <2>2 DEF CallOK
<1>3. QED
  BY <1>1, <1>2 DEF MarketInv

(* A step of one caller leaves the others' calls as they were; a longer    *)
(* cooldown does them no harm.                                             *)
LEMMA CallStepKeeps ==
    ASSUME AgesAreOrdered, MarketInv, NEW c \in Callers, NEW new \in Call,
           call' = [call EXCEPT ![c] = new],
           age' \in [Keys -> Nat], cooling' \in Nat, cooling' >= cooling,
           outrun' \in [Callers -> Nat], \A d \in Callers \ {c} : outrun'[d] = outrun[d],
           CallOK(c)'
    PROVE  MarketInv'
<1>1. MarketTypeOK'
  BY DEF MarketInv, MarketTypeOK
<1>2. ASSUME NEW d \in Callers, d # c PROVE CallOK(d)'
  <2>1. call'[d] = call[d] /\ outrun'[d] = outrun[d] /\ CallOK(d)
    BY <1>2 DEF MarketInv, MarketTypeOK
  <2>2. QED
    BY <2>1 DEF MarketInv, MarketTypeOK, CallOK, OutrunOK, Told
<1>3. QED
  BY <1>1, <1>2 DEF MarketInv

(* An answer ends the call: what it owes is only the mark it carries.      *)
LEMMA AnswerKeeps ==
    ASSUME AgesAreOrdered, MarketInv, NEW c \in Callers, NEW k \in Keys, NEW mark \in Marks,
           NEW old \in Nat, Answer(c, k, mark, old),
           age' \in [Keys -> Nat], cooling' \in Nat, cooling' >= cooling, outrun' = outrun,
           mark = "none" => old < Young[k],
           mark \in {"cooldown", "fallback"} => old < Stale[k],
           mark = "limited" => cooling' > 0
    PROVE  MarketInv'
<1> DEFINE new == [Quiet EXCEPT !.pc = "answered", !.key = k, !.mark = mark, !.age = old]
<1>1. /\ new \in Call /\ new.pc = "answered" /\ new.key = k /\ new.mark = mark /\ new.age = old
  BY QuietIsCall DEF Quiet, Call
<1>2. call' = [call EXCEPT ![c] = new] /\ call'[c] = new
  BY DEF Answer, MarketInv, MarketTypeOK
<1>3. outrun'[c] <= 2 /\ (cooling' = 0 => outrun'[c] = 0)
  BY DEF MarketInv, MarketTypeOK, CallOK, OutrunOK
<1>4. CallOK(c)'
  BY <1>1, <1>2, <1>3 DEF CallOK, OutrunOK, Told
<1>5. QED
  BY <1>1, <1>2, <1>4, CallStepKeeps DEF MarketInv, MarketTypeOK

(* The provider may be asked only while it does not cool down.             *)
LEMMA AskKeeps ==
    ASSUME AgesAreOrdered, MarketInv, NEW c \in Callers, NEW k \in Keys, Ask(c, k)
    PROVE  MarketInv'
<1>1. /\ age' = age /\ cooling' = cooling /\ outrun' = outrun
      /\ age[k] \in Nat /\ Young[k] \in Nat /\ Stale[k] \in Nat /\ Never \in Nat
  BY DEF Ask, MarketInv, MarketTypeOK, AgesAreOrdered, Never
<1>2. CASE age[k] < Young[k]
  <2>1. Answer(c, k, "none", age[k])
    BY <1>1, <1>2 DEF Ask
  <2>2. QED
    BY <1>1, <1>2, <2>1, AnswerKeeps DEF Marks, MarketInv, MarketTypeOK
<1>3. CASE age[k] >= Young[k] /\ Cooling /\ age[k] < Stale[k]
  <2>1. Answer(c, k, "cooldown", age[k])
    BY <1>1, <1>3 DEF Ask
  <2>2. QED
    BY <1>1, <1>3, <2>1, AnswerKeeps DEF Marks, MarketInv, MarketTypeOK
<1>4. CASE age[k] >= Young[k] /\ Cooling /\ age[k] >= Stale[k]
  <2>1. Answer(c, k, "refused", Never)
    BY <1>1, <1>4 DEF Ask
  <2>2. QED
    BY <1>1, <2>1, AnswerKeeps DEF Marks, MarketInv, MarketTypeOK
<1>5. CASE age[k] >= Young[k] /\ ~Cooling
  <2> DEFINE new == [Quiet EXCEPT !.pc = "send", !.key = k, !.age = age[k]]
  <2>1. call' = [call EXCEPT ![c] = new]
    BY <1>1, <1>5 DEF Ask
  <2>2. /\ new \in Call /\ new.pc = "send" /\ new.key = k /\ new.attempt = 0
    BY <1>1, QuietIsCall DEF Quiet, Call
  <2>3. outrun[c] = 0 /\ call'[c] = new /\ cooling = 0
    BY <1>5, <2>1 DEF MarketInv, MarketTypeOK, CallOK, OutrunOK, Cooling
  <2>4. CallOK(c)'
    BY <1>1, <2>2, <2>3 DEF CallOK, OutrunOK, Attempts
  <2>5. /\ age' \in [Keys -> Nat] /\ cooling' \in Nat /\ cooling' >= cooling
        /\ outrun' \in [Callers -> Nat] /\ \A d \in Callers \ {c} : outrun'[d] = outrun[d]
    BY <1>1 DEF MarketInv, MarketTypeOK
  <2> HIDE DEF new
  <2>6. QED
    BY <2>1, <2>2, <2>4, <2>5, CallStepKeeps
<1>6. QED
  BY <1>1, <1>2, <1>3, <1>4, <1>5

LEMMA SendKeeps ==
    ASSUME AgesAreOrdered, MarketInv, NEW c \in Callers, Send(c)
    PROVE  MarketInv'
<1> DEFINE new == [call[c] EXCEPT !.pc = "wait", !.attempt = @ + 1]
<1>1. /\ call[c] \in Call /\ call[c].pc = "send" /\ CallOK(c) /\ outrun[c] \in Nat
      /\ cooling \in Nat
  BY DEF Send, At, MarketInv, MarketTypeOK
<1>2. /\ new \in Call /\ new.pc = "wait" /\ new.key = call[c].key
      /\ new.attempt = call[c].attempt + 1 /\ call[c].attempt \in Nat
  <2>1. call[c].attempt \in Nat /\ call[c].attempt + 1 \in Nat
    BY <1>1 DEF Call
  <2>2. ASSUME NEW b \in Nat
        PROVE  LET x == [call[c] EXCEPT !.pc = "wait", !.attempt = b] IN
                  x \in Call /\ x.pc = "wait" /\ x.key = call[c].key /\ x.attempt = b
    BY <1>1 DEF Call
  <2>3. QED
    BY <2>1, <2>2
<1>3. call' = [call EXCEPT ![c] = new] /\ call'[c] = new
  <2>1. call \in [Callers -> Call]
    BY DEF MarketInv, MarketTypeOK
  <2>2. call' = [call EXCEPT ![c].pc = "wait", ![c].attempt = @ + 1]
    BY DEF Send
  <2>3. call'[c] = new /\ \A d \in Callers \ {c} : call'[d] = call[d]
    BY <1>1, <2>1, <2>2 DEF Call
  <2>4. call' \in [Callers -> Call]
    BY <1>2, <2>1, <2>2, <2>3
  <2>5. QED
    BY <2>1, <2>3, <2>4
<1>4. /\ age' = age /\ cooling' = cooling
      /\ outrun' = IF cooling > 0 THEN [outrun EXCEPT ![c] = @ + 1] ELSE outrun
  BY DEF Send
<1>5. /\ age' \in [Keys -> Nat] /\ cooling' \in Nat /\ cooling' >= cooling
      /\ outrun' \in [Callers -> Nat] /\ \A d \in Callers \ {c} : outrun'[d] = outrun[d]
      /\ outrun'[c] = IF cooling > 0 THEN outrun[c] + 1 ELSE outrun[c]
  BY <1>4 DEF MarketInv, MarketTypeOK
<1>6. Attempts(call[c].key) \in 0..2
  BY DEF Attempts
<1> HIDE DEF new
<1>7. CallOK(c)'
  BY <1>1, <1>2, <1>3, <1>4, <1>5, <1>6 DEF CallOK, OutrunOK
<1>8. QED
  BY <1>2, <1>3, <1>5, <1>7, CallStepKeeps

LEMMA ReceiveKeeps ==
    ASSUME AgesAreOrdered, MarketInv, NEW c \in Callers, Receive(c)
    PROVE  MarketInv'
<1>1. call[c].key \in Keys
  BY DEF Receive, At, MarketInv, CallOK, OutrunOK
<1>2. 0 < Young[call[c].key]
  BY <1>1 DEF AgesAreOrdered
<1>3. age' \in [Keys -> Nat] /\ cooling' \in Nat /\ cooling' >= cooling /\ outrun' = outrun
  <2>1. age' = [age EXCEPT ![call[c].key] = 0] /\ cooling' = cooling /\ outrun' = outrun
    BY DEF Receive
  <2>2. age \in [Keys -> Nat] /\ cooling \in Nat
    BY DEF MarketInv, MarketTypeOK
  <2>3. cooling' \in Nat /\ cooling' >= cooling
    BY <2>1, <2>2
  <2>4. age' \in [Keys -> Nat]
    BY <2>1, <2>2
  <2>5. QED
    BY <2>1, <2>3, <2>4
<1>4. Answer(c, call[c].key, "none", 0)
  BY DEF Receive
<1>5. QED
  BY <1>1, <1>2, <1>3, <1>4, AnswerKeeps DEF Marks

(* The call is tried again while it has attempts left, or ends.            *)
LEMMA TryAgainKeeps ==
    ASSUME AgesAreOrdered, MarketInv, NEW c \in Callers, At(c, "wait"), TryAgain(c),
           age' = age, cooling' \in Nat, cooling' >= cooling, outrun' = outrun
    PROVE  MarketInv'
<1> DEFINE k == call[c].key
           new == [call[c] EXCEPT !.pc = "send"]
<1>1. /\ call[c] \in Call /\ k \in Keys /\ CallOK(c) /\ outrun[c] \in Nat
      /\ age[k] \in Nat /\ Never \in Nat
  BY DEF At, MarketInv, MarketTypeOK, CallOK, OutrunOK, AgesAreOrdered, Never
<1>2. age' \in [Keys -> Nat]
  BY DEF MarketInv, MarketTypeOK
<1>3. CASE call[c].attempt < Attempts(k)
  <2>1. call' = [call EXCEPT ![c] = new] /\ call'[c] = new
    BY <1>1, <1>3 DEF TryAgain, Call, MarketInv, MarketTypeOK
  <2>2. new \in Call /\ new.pc = "send" /\ new.key = k /\ new.attempt = call[c].attempt
    BY <1>1 DEF Call
  <2>3. outrun' \in [Callers -> Nat] /\ \A d \in Callers \ {c} : outrun'[d] = outrun[d]
    BY DEF MarketInv, MarketTypeOK
  <2>4. cooling \in Nat /\ call[c].pc = "wait"
    BY DEF MarketInv, MarketTypeOK, At
  <2> HIDE DEF new
  <2>5. CallOK(c)'
    BY <1>1, <1>3, <2>1, <2>2, <2>4 DEF CallOK, OutrunOK
  <2>6. QED
    BY <1>2, <2>1, <2>2, <2>3, <2>5, CallStepKeeps
<1>4. CASE ~(call[c].attempt < Attempts(k))
  <2>1. GiveUp(c, k)
    BY <1>4 DEF TryAgain
  <2>2. CASE age[k] < Stale[k]
    <3>1. Answer(c, k, "fallback", age[k])
      BY <2>1, <2>2 DEF GiveUp
    <3>2. QED
      BY <1>1, <1>2, <2>2, <3>1, AnswerKeeps DEF Marks
  <2>3. CASE ~(age[k] < Stale[k])
    <3>1. Answer(c, k, "refused", Never)
      BY <2>1, <2>3 DEF GiveUp
    <3>2. QED
      BY <1>1, <1>2, <3>1, AnswerKeeps DEF Marks
  <2>4. QED
    BY <2>2, <2>3
<1>5. QED
  BY <1>3, <1>4

LEMMA RateLimitedKeeps ==
    ASSUME AgesAreOrdered, MarketInv, NEW c \in Callers, RateLimited(c)
    PROVE  MarketInv'
<1>1. PICK d \in Cooldowns : cooling' = IF d > cooling THEN d ELSE cooling
  BY DEF RateLimited
<1>2. cooling' \in Nat /\ cooling' >= cooling /\ cooling' > 0
  BY <1>1 DEF AgesAreOrdered, MarketInv, MarketTypeOK
<1>3. /\ At(c, "wait") /\ age' = age /\ outrun' = outrun
      /\ age' \in [Keys -> Nat] /\ call[c] \in Call /\ call[c].key \in Keys
  BY DEF RateLimited, At, MarketInv, MarketTypeOK, CallOK, OutrunOK
<1>4. CASE call[c].age # Never
  <2>1. Answer(c, call[c].key, "limited", call[c].age)
    BY <1>4 DEF RateLimited
  <2>2. QED
    BY <1>2, <1>3, <2>1, AnswerKeeps DEF Marks, Call
<1>5. CASE call[c].age = Never
  <2>1. TryAgain(c)
    BY <1>5 DEF RateLimited
  <2>2. QED
    BY <1>2, <1>3, <2>1, TryAgainKeeps
<1>6. QED
  BY <1>4, <1>5

(* Time only shortens the cooldown, and nobody holds an answer then.       *)
LEMMA TickKeeps ==
    ASSUME AgesAreOrdered, MarketInv, Tick
    PROVE  MarketInv'
<1>1. /\ age \in [Keys -> Nat] /\ cooling \in Nat /\ outrun \in [Callers -> Nat]
      /\ call \in [Callers -> Call] /\ \A c \in Callers : CallOK(c)
  BY DEF MarketInv, MarketTypeOK
<1>2. /\ \A c \in Callers : ~At(c, "answered")
      /\ age' = [k \in Keys |-> Older(age[k])]
      /\ cooling' = IF cooling = 0 THEN 0 ELSE cooling - 1
      /\ outrun' = IF cooling' = 0 THEN [c \in Callers |-> 0] ELSE outrun
      /\ call' = [c \in Callers |-> [call[c] EXCEPT !.age = Older(@)]]
  BY DEF Tick
<1>3. \A a \in Nat : Older(a) \in Nat
  BY DEF Older
<1>4. age' \in [Keys -> Nat] /\ cooling' \in Nat /\ outrun' \in [Callers -> Nat]
  <2>1. age' \in [Keys -> Nat]
    BY <1>1, <1>2, <1>3
  <2>2. cooling' \in Nat
    BY <1>1, <1>2
  <2>3. outrun' \in [Callers -> Nat]
    BY <1>1, <1>2
  <2>4. QED
    BY <2>1, <2>2, <2>3
<1>5. ASSUME NEW c \in Callers
      PROVE  /\ call'[c] \in Call /\ call'[c].pc = call[c].pc /\ call'[c].key = call[c].key
             /\ call'[c].attempt = call[c].attempt
  BY <1>1, <1>2, <1>3 DEF Call
<1>6. call' \in [Callers -> Call]
  BY <1>2, <1>5
<1>7. ASSUME NEW c \in Callers PROVE CallOK(c)'
  <2>1. /\ CallOK(c) /\ call[c].pc # "answered" /\ outrun[c] \in Nat /\ call[c].attempt \in Nat
    BY <1>1, <1>2 DEF At, Call
  <2>2. outrun'[c] <= outrun[c] /\ (cooling' = 0 => outrun'[c] = 0) /\ outrun'[c] \in Nat
    BY <1>1, <1>2, <2>1
  <2>3. outrun'[c] <= 2
    BY <2>1, <2>2 DEF CallOK, OutrunOK
  <2>4. call[c].pc \in {"send", "wait"} => outrun'[c] <= call[c].attempt
    BY <2>1, <2>2 DEF CallOK, OutrunOK
  <2>5. OutrunOK(c)'
    BY <1>5, <2>1, <2>2, <2>3, <2>4 DEF CallOK, OutrunOK
  <2>6. QED
    BY <1>5, <2>1, <2>5 DEF CallOK
<1>8. QED
  BY <1>4, <1>6, <1>7 DEF MarketInv, MarketTypeOK

LEMMA UseKeeps ==
    ASSUME AgesAreOrdered, MarketInv, NEW c \in Callers, Use(c)
    PROVE  MarketInv'
<1>1. call' = [call EXCEPT ![c] = Quiet] /\ age' = age /\ cooling' = cooling /\ outrun' = outrun
  BY DEF Use
<1>2. call'[c].pc = "idle"
  BY <1>1 DEF MarketInv, MarketTypeOK, Quiet
<1>3. /\ age' \in [Keys -> Nat] /\ cooling' \in Nat /\ cooling' >= cooling
      /\ outrun' \in [Callers -> Nat] /\ \A d \in Callers \ {c} : outrun'[d] = outrun[d]
  BY <1>1 DEF MarketInv, MarketTypeOK
<1>4. outrun'[c] <= 2 /\ (cooling' = 0 => outrun'[c] = 0)
  BY <1>1 DEF MarketInv, CallOK, OutrunOK
<1>5. CallOK(c)'
  BY <1>2, <1>4 DEF CallOK, OutrunOK
<1>6. QED
  BY <1>1, <1>3, <1>5, QuietIsCall, CallStepKeeps

LEMMA MarketIsInductive ==
    ASSUME AgesAreOrdered, MarketInv, [MarketNext]_marketVars
    PROVE  MarketInv'
<1>1. CASE Tick
  BY <1>1, TickKeeps
<1>2. ASSUME NEW c \in Callers, NEW k \in Keys, Ask(c, k) PROVE MarketInv'
  BY <1>2, AskKeeps
<1>3. ASSUME NEW c \in Callers, Fail(c) PROVE MarketInv'
  <2>1. /\ At(c, "wait") /\ TryAgain(c) /\ age' = age /\ outrun' = outrun
        /\ cooling' \in Nat /\ cooling' >= cooling
    BY <1>3 DEF Fail, MarketInv, MarketTypeOK
  <2>2. QED
    BY <2>1, TryAgainKeeps
<1>4. ASSUME NEW c \in Callers, Send(c) \/ Receive(c) \/ RateLimited(c) \/ Use(c)
      PROVE  MarketInv'
  BY <1>4, SendKeeps, ReceiveKeeps, RateLimitedKeeps, UseKeeps
<1>5. CASE UNCHANGED marketVars
  BY <1>5 DEF marketVars, MarketInv, MarketTypeOK, CallOK, OutrunOK, Told
<1>6. QED
  BY <1>1, <1>2, <1>3, <1>4, <1>5 DEF MarketNext

(* However many threads keep asking, and however often it is extended: a   *)
(* cooling provider is asked only by calls under way, twice at most, and   *)
(* an answer that is not young says so (GeckoTerminalClient._get).         *)
THEOREM CooldownKept == MarketSpec => []CooldownIsKept
<1>1. MarketInit => MarketInv
  BY InitMarket, AgeAssumption
<1>2. MarketInv /\ [MarketNext]_marketVars => MarketInv'
  BY MarketIsInductive, AgeAssumption
<1>3. MarketInv => CooldownIsKept
  BY InvKeepsCooldown
<1>4. QED
  BY <1>1, <1>2, <1>3, PTL DEF MarketSpec

(***************************************************************************)
(* FeeTracker.  A scan's amount is off by some error; the tracker's count  *)
(* may exceed the truth by the errors of the amounts it was given, each    *)
(* once.  With two scans at once a save is lost and fees count twice.      *)
(***************************************************************************)
More(x, y) == IF x > y THEN x - y ELSE 0

(* Numbers the tracker may hold: with what it would count if the true      *)
(* amount came next, it counted what the pool paid, or less, and errors.   *)
Counts(last, cum, collected) ==
    /\ last \in Nat /\ cum \in Nat /\ collected \in Nat
    /\ cum + More(Tracking!Unclaimed, last) <= fees.earned + wrong
    /\ collected + More(last, Tracking!Unclaimed) <= fees.paid + wrong

(* The same while an amount u is on its way into the tracker.              *)
CountsWith(u, last, cum, collected) ==
    /\ u \in Nat /\ last \in Nat /\ cum \in Nat /\ collected \in Nat
    /\ cum + More(u, last) + More(Tracking!Unclaimed, u) <= fees.earned + wrong
    /\ collected + More(last, u) + More(u, Tracking!Unclaimed) <= fees.paid + wrong

FeesOK == fees \in [earned : Nat, paid : Nat, stored : Nat] /\ fees.paid <= fees.earned

Alone == \A r, s \in Scanners : scan[r].pc # "idle" /\ scan[s].pc # "idle" => r = s

TrackerCounts ==
    /\ tracker.seen \/ (tracker.last = 0 /\ tracker.cum = 0 /\ tracker.collected = 0)
    /\ Counts(tracker.last, tracker.cum, tracker.collected)

ScanCounts(s) ==
    /\ CountsWith(scan[s].unclaimed, tracker.last, tracker.cum, tracker.collected)
    /\ scan[s].pc = "save" => scan[s].tracker = tracker

TrackerInv ==
    /\ FeesOK /\ wrong \in Nat /\ DOMAIN scan = Scanners
    /\ ~overlapped => /\ TrackerCounts /\ Alone
                      /\ \A s \in Scanners : scan[s].pc # "idle" => ScanCounts(s)

LEMMA TrackerInit == Tracking!Init => TrackerInv
BY DEF Tracking!Init, TrackerInv, TrackerCounts, Counts, Tracking!Unclaimed, Tracking!Idle,
       Tracking!NoTracker, FeesOK, Alone, ScanCounts, More

(* What the chain does keeps what was counted and what is about to be.     *)
LEMMA ChainKeepsCounts ==
    ASSUME FeesOK, wrong \in Nat, wrong' = wrong, Tracking!ChainNext,
           NEW CONSTANT u, NEW CONSTANT last, NEW CONSTANT cum, NEW CONSTANT collected
    PROVE  /\ Counts(last, cum, collected) => Counts(last, cum, collected)'
           /\ CountsWith(u, last, cum, collected) => CountsWith(u, last, cum, collected)'
<1> USE DEF FeesOK, Counts, CountsWith, More, Tracking!Unclaimed
<1>1. CASE Tracking!Accrue
  <2>1. fees'.earned = fees.earned + 1 /\ fees'.paid = fees.paid
    BY <1>1 DEF Tracking!Accrue
  <2>2. QED
    BY <2>1
<1>2. CASE Tracking!Book
  <2>1. fees'.earned = fees.earned /\ fees'.paid = fees.paid
    BY <1>2 DEF Tracking!Book
  <2>2. QED
    BY <2>1
<1>3. CASE Tracking!Collect
  <2>1. fees'.earned = fees.earned /\ fees'.paid = fees.earned
    BY <1>3 DEF Tracking!Collect
  <2>2. QED
    BY <2>1
<1>4. QED
  BY <1>1, <1>2, <1>3 DEF Tracking!ChainNext

LEMMA ChainKeepsFees ==
    ASSUME fees \in [earned : Nat, paid : Nat, stored : Nat], fees.paid <= fees.earned,
           Tracking!ChainNext
    PROVE  fees' \in [earned : Nat, paid : Nat, stored : Nat] /\ fees'.paid <= fees'.earned
<1>1. CASE Tracking!Accrue
  BY <1>1 DEF Tracking!Accrue
<1>2. CASE Tracking!Book
  <2>1. Tracking!Unclaimed \in Nat
    BY DEF Tracking!Unclaimed
  <2>2. fees' = [earned |-> fees.earned, paid |-> fees.paid, stored |-> Tracking!Unclaimed]
    BY <1>2 DEF Tracking!Book
  <2>3. QED
    BY <2>1, <2>2
<1>3. CASE Tracking!Collect
  <2>1. fees' = [earned |-> fees.earned, paid |-> fees.earned, stored |-> 0]
    BY <1>3 DEF Tracking!Collect
  <2>2. QED
    BY <2>1
<1>4. QED
  BY <1>1, <1>2, <1>3 DEF Tracking!ChainNext

(* An amount that is off adds its error to what may be counted too much.   *)
LEMMA ReadingCounts ==
    ASSUME FeesOK, fees' = fees, wrong \in Nat, NEW CONSTANT u \in Nat,
           wrong' = wrong + Tracking!Distance(u, Tracking!Unclaimed),
           NEW CONSTANT last, NEW CONSTANT cum, NEW CONSTANT collected,
           Counts(last, cum, collected)
    PROVE  CountsWith(u, last, cum, collected)' /\ Counts(last, cum, collected)'
BY DEF FeesOK, Counts, CountsWith, More, Tracking!Unclaimed, Tracking!Distance, Tracking!AtLeast0

(* What has been read counts when it is saved, and does no harm when not.  *)
LEMMA SavedCounts ==
    ASSUME FeesOK, wrong \in Nat, NEW CONSTANT u, TrackerCounts,
           CountsWith(u, tracker.last, tracker.cum, tracker.collected)
    PROVE  Counts(u, Tracking!CumAfter(tracker, u), Tracking!CollectedAfter(tracker, u))
<1>1. PICK last, cum, collected :
         last = tracker.last /\ cum = tracker.cum /\ collected = tracker.collected
  OBVIOUS
<1>2. CountsWith(u, last, cum, collected)
  BY <1>1
<1>3. Counts(u, cum + More(u, last), collected + More(last, u))
  BY <1>2 DEF FeesOK, Counts, CountsWith, More, Tracking!Unclaimed
<1>4. Tracking!CumAfter(tracker, u) = cum + More(u, last)
  BY <1>1, <1>2 DEF Tracking!CumAfter, Tracking!AtLeast0, More, TrackerCounts, CountsWith
<1>5. Tracking!CollectedAfter(tracker, u) = collected + More(last, u)
  BY <1>1, <1>2 DEF Tracking!CollectedAfter, Tracking!AtLeast0, More, TrackerCounts, CountsWith
<1>6. QED
  BY <1>3, <1>4, <1>5

LEMMA TrackerStep ==
    ASSUME TrackerInv, [Tracking!Next]_trackerVars
    PROVE  TrackerInv'
<1>1. /\ FeesOK /\ wrong \in Nat /\ DOMAIN scan = Scanners
      /\ ~overlapped => TrackerCounts /\ Alone
      /\ ~overlapped => \A s \in Scanners : scan[s].pc # "idle" => ScanCounts(s)
  BY DEF TrackerInv
<1>2. PICK last, cum, collected :
         last = tracker.last /\ cum = tracker.cum /\ collected = tracker.collected
  OBVIOUS
(* Steps that leave the tracker's numbers and the errors alone.            *)
<1>3. ASSUME UNCHANGED <<tracker, scan, wrong, overlapped>>, FeesOK',
             Counts(last, cum, collected) => Counts(last, cum, collected)',
             \A u : CountsWith(u, last, cum, collected) => CountsWith(u, last, cum, collected)'
      PROVE  TrackerInv'
  <2>1. TrackerCounts => TrackerCounts'
    BY <1>2, <1>3 DEF TrackerCounts
  <2>2. ASSUME NEW s \in Scanners, ScanCounts(s) PROVE ScanCounts(s)'
    <3>1. PICK u : u = scan[s].unclaimed
      OBVIOUS
    <3>2. CountsWith(u, last, cum, collected)'
      BY <1>2, <1>3, <2>2, <3>1 DEF ScanCounts
    <3>3. QED
      BY <1>2, <1>3, <2>2, <3>1, <3>2 DEF ScanCounts
  <2>3. Alone' <=> Alone
    BY <1>3 DEF Alone
  <2>4. overlapped' = overlapped /\ scan' = scan /\ wrong' = wrong
    BY <1>3
  <2>5. QED
    BY <1>1, <1>3, <2>1, <2>2, <2>3, <2>4 DEF TrackerInv
<1>4. ASSUME UNCHANGED <<fees, wrong>>, NEW CONSTANT u
      PROVE  /\ Counts(last, cum, collected) => Counts(last, cum, collected)'
             /\ CountsWith(u, last, cum, collected) => CountsWith(u, last, cum, collected)'
  BY <1>4 DEF Counts, CountsWith, Tracking!Unclaimed
<1>5. CASE Tracking!ChainNext
  <2>1. UNCHANGED <<tracker, scan, wrong, overlapped>>
    BY <1>5 DEF Tracking!ChainNext, Tracking!Accrue, Tracking!Book, Tracking!Collect
  <2>2. FeesOK'
    BY <1>1, <1>5, ChainKeepsFees DEF FeesOK
  <2>3. ASSUME NEW CONSTANT u
        PROVE  /\ Counts(last, cum, collected) => Counts(last, cum, collected)'
               /\ CountsWith(u, last, cum, collected) => CountsWith(u, last, cum, collected)'
    BY <1>1, <1>5, <2>1, ChainKeepsCounts
  <2>4. QED
    BY <1>3, <2>1, <2>2, <2>3
<1>6. ASSUME NEW d \in Spacings, Tracking!Tick(d) PROVE TrackerInv'
  <2>1. UNCHANGED <<tracker, scan, wrong, overlapped, fees>>
    BY <1>6 DEF Tracking!Tick
  <2>2. FeesOK'
    BY <1>1, <2>1 DEF FeesOK
  <2>3. QED
    BY <1>3, <1>4, <2>1, <2>2
<1>7. CASE UNCHANGED trackerVars
  <2>1. UNCHANGED <<tracker, scan, wrong, overlapped, fees>>
    BY <1>7 DEF trackerVars
  <2>2. FeesOK'
    BY <1>1, <2>1 DEF FeesOK
  <2>3. QED
    BY <1>3, <1>4, <2>1, <2>2
(* Steps of a scan.                                                        *)
<1>8. ASSUME NEW s \in Scanners, NEW source \in Sources, Tracking!Observe(s, source)
      PROVE  TrackerInv'
  <2>1. PICK u \in Tracking!Readings(source), opened \in Tracking!Openings :
           /\ scan' = [scan EXCEPT ![s] = [@ EXCEPT !.pc = "load", !.at = now,
                                                    !.unclaimed = u, !.opened = opened]]
           /\ wrong' = wrong + Tracking!Distance(u, Tracking!Unclaimed)
    BY <1>8 DEF Tracking!Observe
  <2>2. /\ UNCHANGED <<fees, tracker>> /\ scan[s].pc = "idle"
        /\ ~overlapped' => ~overlapped /\ \A r \in Scanners : scan[r].pc = "idle"
    BY <1>8 DEF Tracking!Observe
  <2>3. u \in Nat
    BY <1>1, <2>1, TimeAssumption DEF Tracking!Readings, Tracking!Unclaimed, FeesOK
  <2>4. FeesOK' /\ wrong' \in Nat /\ DOMAIN scan' = Scanners
    <3>1. Tracking!Distance(u, Tracking!Unclaimed) \in Nat
      BY <1>1, <2>3 DEF FeesOK, Tracking!Unclaimed, Tracking!Distance, Tracking!AtLeast0
    <3>2. QED
      BY <1>1, <2>1, <2>2, <3>1 DEF FeesOK
  <2>5. ASSUME ~overlapped' PROVE TrackerCounts' /\ Alone' /\ ScanCounts(s)'
    <3>1. Counts(last, cum, collected) /\ TrackerCounts
      BY <1>1, <1>2, <2>2, <2>5 DEF TrackerCounts
    <3>2. CountsWith(u, last, cum, collected)' /\ Counts(last, cum, collected)'
      BY <1>1, <2>1, <2>2, <2>3, <3>1, ReadingCounts
    <3>3. scan'[s].unclaimed = u /\ scan'[s].pc = "load"
      BY <1>1, <2>1
    <3>4. \A r \in Scanners : r # s => scan'[r].pc = "idle"
      BY <1>1, <2>1, <2>2, <2>5
    <3>5. TrackerCounts'
      BY <1>2, <2>2, <3>1, <3>2 DEF TrackerCounts
    <3>6. ScanCounts(s)'
      BY <1>2, <2>2, <3>2, <3>3 DEF ScanCounts
    <3>7. Alone'
      BY <3>4 DEF Alone
    <3>8. QED
      BY <3>5, <3>6, <3>7
  <2>6. ASSUME ~overlapped', NEW r \in Scanners, scan'[r].pc # "idle" PROVE r = s
    BY <1>1, <2>1, <2>2, <2>6
  <2>7. QED
    BY <2>4, <2>5, <2>6 DEF TrackerInv
<1>9. ASSUME NEW s \in Scanners, Tracking!LoadTracker(s) PROVE TrackerInv'
  <2>1. /\ UNCHANGED <<fees, tracker, wrong, overlapped>> /\ scan[s].pc = "load"
        /\ scan' = [scan EXCEPT ![s] = [@ EXCEPT !.pc = "save", !.tracker = tracker]]
    BY <1>9 DEF Tracking!LoadTracker
  <2>2. FeesOK' /\ DOMAIN scan' = Scanners
    BY <1>1, <2>1 DEF FeesOK
  <2>3. /\ scan'[s].unclaimed = scan[s].unclaimed /\ scan'[s].tracker = tracker
        /\ \A r \in Scanners : scan'[r].pc # "idle" <=> scan[r].pc # "idle"
    BY <1>1, <2>1
  <2>4. ASSUME ~overlapped PROVE TrackerCounts' /\ Alone' /\ ScanCounts(s)'
    <3>1. TrackerCounts'
      BY <1>1, <1>2, <1>4, <2>1, <2>4 DEF TrackerCounts
    <3>2. Alone'
      BY <1>1, <2>3, <2>4 DEF Alone
    <3>3. PICK u : u = scan[s].unclaimed
      OBVIOUS
    <3>4. CountsWith(u, last, cum, collected)
      BY <1>1, <1>2, <2>1, <2>4, <3>3 DEF ScanCounts
    <3>5. CountsWith(u, last, cum, collected)'
      BY <1>4, <2>1, <3>4
    <3>6. ScanCounts(s)'
      BY <1>2, <2>1, <2>3, <3>3, <3>5 DEF ScanCounts
    <3>7. QED
      BY <3>1, <3>2, <3>6
  <2>5. ASSUME ~overlapped, NEW r \in Scanners, scan'[r].pc # "idle" PROVE r = s
    BY <1>1, <2>1, <2>3, <2>5 DEF Alone
  <2>6. overlapped' = overlapped /\ wrong' = wrong
    BY <2>1
  <2>7. QED
    BY <1>1, <2>2, <2>4, <2>5, <2>6 DEF TrackerInv
<1>10. ASSUME NEW s \in Scanners, Tracking!SaveTracker(s) PROVE TrackerInv'
  <2>1. /\ UNCHANGED <<fees, wrong, overlapped>> /\ scan[s].pc = "save"
        /\ scan' = [scan EXCEPT ![s] = Tracking!Idle]
        /\ tracker' = Tracking!Updated(scan[s].tracker, scan[s].unclaimed, scan[s].at,
                                       scan[s].opened)
    BY <1>10 DEF Tracking!SaveTracker
  <2>2. FeesOK' /\ DOMAIN scan' = Scanners
    BY <1>1, <2>1 DEF FeesOK
  <2>3. ASSUME ~overlapped PROVE TrackerCounts'
    <3>1. PICK u : u = scan[s].unclaimed
      OBVIOUS
    <3>2. /\ TrackerCounts /\ scan[s].tracker = tracker
          /\ CountsWith(u, tracker.last, tracker.cum, tracker.collected)
      BY <1>1, <2>1, <2>3, <3>1 DEF ScanCounts
    <3>3. PICK newCum, newCollected : /\ newCum = Tracking!CumAfter(tracker, u)
                                      /\ newCollected = Tracking!CollectedAfter(tracker, u)
      OBVIOUS
    <3>4. Counts(u, newCum, newCollected)
      BY <1>1, <3>2, <3>3, SavedCounts
    <3>5. Counts(u, newCum, newCollected)'
      BY <2>1, <3>4 DEF Counts, Tracking!Unclaimed
    <3>6. /\ tracker'.seen = TRUE /\ tracker'.last = u
          /\ tracker'.cum = newCum /\ tracker'.collected = newCollected
      BY <2>1, <3>1, <3>2, <3>3 DEF Tracking!Updated
    <3>7. QED
      BY <3>5, <3>6 DEF TrackerCounts
  <2>4. scan'[s].pc = "idle" /\ \A r \in Scanners : r # s => scan'[r] = scan[r]
    BY <1>1, <2>1 DEF Tracking!Idle
  <2>5. ASSUME ~overlapped, NEW r \in Scanners PROVE scan'[r].pc = "idle"
    BY <1>1, <2>1, <2>4, <2>5 DEF Alone
  <2>6. overlapped' = overlapped /\ wrong' = wrong
    BY <2>1
  <2>7. QED
    BY <1>1, <2>2, <2>3, <2>5, <2>6 DEF TrackerInv, Alone
<1>11. ASSUME NEW s \in Scanners, Tracking!Abandon(s) PROVE TrackerInv'
  <2>1. /\ UNCHANGED <<fees, tracker, wrong, overlapped>> /\ scan[s].pc # "idle"
        /\ scan' = [scan EXCEPT ![s] = Tracking!Idle]
    BY <1>11 DEF Tracking!Abandon
  <2>2. FeesOK' /\ DOMAIN scan' = Scanners
    BY <1>1, <2>1 DEF FeesOK
  <2>3. ~overlapped => TrackerCounts'
    BY <1>1, <1>2, <1>4, <2>1 DEF TrackerCounts
  <2>4. scan'[s].pc = "idle" /\ \A r \in Scanners : r # s => scan'[r] = scan[r]
    BY <1>1, <2>1 DEF Tracking!Idle
  <2>5. ASSUME ~overlapped, NEW r \in Scanners PROVE scan'[r].pc = "idle"
    BY <1>1, <2>1, <2>4, <2>5 DEF Alone
  <2>6. overlapped' = overlapped /\ wrong' = wrong
    BY <2>1
  <2>7. QED
    BY <1>1, <2>2, <2>3, <2>5, <2>6 DEF TrackerInv, Alone
<1>12. QED
  BY <1>5, <1>6, <1>7, <1>8, <1>9, <1>10, <1>11 DEF Tracking!Next, Tracking!ScanNext

LEMMA TrackerCountsReal == TrackerInv => CountsRealFeesOnly
<1> SUFFICES ASSUME TrackerInv, ~overlapped
             PROVE  tracker.cum <= fees.earned + wrong /\ tracker.collected <= fees.paid + wrong
  BY DEF CountsRealFeesOnly, Tracking!CountsRealFeesOnly
<1>1. FeesOK /\ wrong \in Nat /\ Counts(tracker.last, tracker.cum, tracker.collected)
  BY DEF TrackerInv, TrackerCounts
<1>2. QED
  BY <1>1 DEF FeesOK, Counts, More, Tracking!Unclaimed

(***************************************************************************)
(* Folds over finite sets.  What fails for a subset of a finite set fails  *)
(* for a smallest one, which is compared with what is left when the picked *)
(* element is taken away.                                                  *)
(***************************************************************************)
LEMMA LeastExists ==
    ASSUME NEW S, IsFiniteSet(S), NEW Bad, Bad \subseteq SUBSET S, Bad # {}
    PROVE  \E U \in Bad : \A V \in SUBSET U : V # U => V \notin Bad
<1>1. IsWellFoundedOn(StrictSubsetOrdering(S), FiniteSubsetsOf(S))
  BY FS_StrictSubsetOrderingWellFounded
<1>2. Bad \subseteq FiniteSubsetsOf(S)
  BY FS_FiniteSubsetsOfFinite
<1>3. PICK U \in Bad : \A V \in Bad : <<V, U>> \notin StrictSubsetOrdering(S)
  BY <1>1, <1>2, WFMin
<1>4. QED
  BY <1>3 DEF StrictSubsetOrdering

(* One element after the other is picked from the set and stepped over.    *)
Folds(g, S, X, base, step, pick) ==
    /\ g \in [SUBSET S -> X]
    /\ \A U \in SUBSET S :
          g[U] = IF U = {} THEN base ELSE step[<<g[U \ {pick[U]}], pick[U]>>]
Picks(pick, S) == \A U \in SUBSET S : U # {} => pick[U] \in U

LEMMA FoldsAgree ==
    ASSUME NEW S, IsFiniteSet(S), NEW T \in SUBSET S, NEW X, NEW base, NEW step, NEW pick,
           Picks(pick, S), NEW g, NEW h, Folds(g, S, X, base, step, pick),
           Folds(h, T, X, base, step, pick)
    PROVE  \A U \in SUBSET T : g[U] = h[U]
<1> DEFINE Bad == {U \in SUBSET T : g[U] # h[U]}
<1>1. Bad = {}
  <2> SUFFICES ASSUME Bad # {} PROVE FALSE
    OBVIOUS
  <2>1. Bad \subseteq SUBSET T /\ IsFiniteSet(T)
    BY FS_Subset
  <2>2. PICK U \in Bad : \A V \in SUBSET U : V # U => V \notin Bad
    <3> HIDE DEF Bad
    <3>1. QED
      BY <2>1, LeastExists
  <2>3. U # {}
    BY DEF Folds
  <2>4. pick[U] \in U
    BY <2>3 DEF Picks
  <2>5. g[U \ {pick[U]}] = h[U \ {pick[U]}]
    BY <2>2, <2>4
  <2>6. g[U] = h[U]
    BY <2>3, <2>5 DEF Folds
  <2>7. QED
    BY <2>6
<1>2. QED
  BY <1>1

LEMMA FoldsExist ==
    ASSUME NEW S, IsFiniteSet(S), NEW X, NEW base \in X, NEW step \in [X \X S -> X], NEW pick,
           Picks(pick, S)
    PROVE  \E g : Folds(g, S, X, base, step, pick)
<1> DEFINE Bad == {U \in SUBSET S : ~\E g : Folds(g, U, X, base, step, pick)}
<1>1. Bad = {}
  <2> SUFFICES ASSUME Bad # {} PROVE FALSE
    OBVIOUS
  <2>1. Bad \subseteq SUBSET S
    OBVIOUS
  <2>2. PICK U \in Bad : \A V \in SUBSET U : V # U => V \notin Bad
    <3> HIDE DEF Bad
    <3>1. QED
      BY <2>1, LeastExists
  <2> DEFINE piece(V) == CHOOSE g : Folds(g, V, X, base, step, pick)
             rest(V) == V \ {pick[V]}
             all(V) == IF V = {} THEN base ELSE step[<<piece(rest(V))[rest(V)], pick[V]>>]
             g == [V \in SUBSET U |-> all(V)]
  <2>3. ASSUME NEW V \in SUBSET U, V # U PROVE Folds(piece(V), V, X, base, step, pick)
    BY <2>2, <2>3
  <2>4. ASSUME NEW V \in SUBSET U, V # {}
        PROVE  /\ rest(V) \in SUBSET U /\ rest(V) # U /\ rest(V) \in SUBSET V /\ pick[V] \in S
               /\ Folds(piece(rest(V)), rest(V), X, base, step, pick)
    <3>1. pick[V] \in V
      BY <2>4 DEF Picks
    <3>2. rest(V) \in SUBSET U /\ rest(V) # U /\ rest(V) \in SUBSET V /\ pick[V] \in S
      BY <3>1
    <3> HIDE DEF piece, rest
    <3>3. QED
      BY <2>3, <3>2
  <2>5. ASSUME NEW V \in SUBSET U PROVE all(V) \in X
    <3>1. CASE V = {}
      BY <3>1
    <3>2. CASE V # {}
      <4> HIDE DEF piece, rest
      <4>1. piece(rest(V))[rest(V)] \in X /\ pick[V] \in S
        BY <2>4, <3>2 DEF Folds
      <4>2. QED
        BY <3>2, <4>1
    <3>3. QED
      BY <3>1, <3>2
  <2>6. ASSUME NEW V \in SUBSET U, V # U PROVE piece(V)[V] = all(V)
    <3>1. CASE V = {}
      <4> HIDE DEF piece
      <4>1. QED
        BY <2>3, <2>6, <3>1 DEF Folds
    <3>2. CASE V # {}
      <4> HIDE DEF piece
      <4>1. /\ Folds(piece(V), V, X, base, step, pick)
            /\ Folds(piece(rest(V)), rest(V), X, base, step, pick)
        BY <2>3, <2>4, <2>6, <3>2
      <4>2. IsFiniteSet(V) /\ rest(V) \in SUBSET V
        BY <2>4, <3>2, FS_Subset
      <4>3. piece(V)[rest(V)] = piece(rest(V))[rest(V)]
        <5>1. Picks(pick, V)
          BY DEF Picks
        <5> HIDE DEF rest
        <5>2. QED
          BY <4>1, <4>2, <5>1, FoldsAgree
      <4>4. piece(V)[V] = step[<<piece(V)[rest(V)], pick[V]>>]
        BY <3>2, <4>1 DEF Folds
      <4>5. QED
        BY <3>2, <4>3, <4>4
    <3>3. QED
      BY <3>1, <3>2
  <2>7. Folds(g, U, X, base, step, pick)
    <3>1. g \in [SUBSET U -> X]
      <4> HIDE DEF all
      <4>1. QED
        BY <2>5
    <3>2. ASSUME NEW V \in SUBSET U
          PROVE  g[V] = IF V = {} THEN base ELSE step[<<g[V \ {pick[V]}], pick[V]>>]
      <4>1. CASE V = {}
        BY <4>1
      <4>2. CASE V # {}
        <5>1. rest(V) \in SUBSET U /\ rest(V) # U
          BY <2>4, <4>2
        <5>2. all(V) = step[<<piece(rest(V))[rest(V)], pick[V]>>]
          BY <4>2
        <5> HIDE DEF piece, all, rest
        <5>3. piece(rest(V))[rest(V)] = all(rest(V))
          BY <2>6, <5>1
        <5>4. g[V] = all(V) /\ g[rest(V)] = all(rest(V))
          BY <5>1
        <5>5. QED
          BY <4>2, <5>2, <5>3, <5>4 DEF rest
      <4>3. QED
        BY <4>1, <4>2
    <3> HIDE DEF g
    <3>3. QED
      BY <3>1, <3>2 DEF Folds
  <2>8. QED
    <3> HIDE DEF g
    <3>1. QED
      BY <2>7
<1>2. QED
  BY <1>1

(* What the first number has, and each number after one that has it.       *)
LEMMA CountsUp ==
    ASSUME NEW n \in Nat, NEW Good, 0 \in Good, \A i \in 1..n : i - 1 \in Good => i \in Good
    PROVE  \A i \in 0..n : i \in Good
<1> DEFINE Bad == {U \in SUBSET (0..n) : \E i \in 0..n : U = 0..i /\ i \notin Good}
<1>1. Bad = {}
  <2> SUFFICES ASSUME Bad # {} PROVE FALSE
    OBVIOUS
  <2>1. Bad \subseteq SUBSET (0..n) /\ IsFiniteSet(0..n)
    BY FS_Interval
  <2>2. PICK U \in Bad : \A V \in SUBSET U : V # U => V \notin Bad
    <3> HIDE DEF Bad
    <3>1. QED
      BY <2>1, LeastExists
  <2>3. PICK i \in 0..n : U = 0..i /\ i \notin Good
    OBVIOUS
  <2>4. i \in 1..n /\ i - 1 \notin Good
    BY <2>3
  <2>5. 0..(i - 1) \in SUBSET U /\ i \in U /\ i \notin 0..(i - 1) /\ i - 1 \in 0..n
    BY <2>3, <2>4
  <2>6. 0..(i - 1) # U /\ 0..(i - 1) \in SUBSET (0..n)
    BY <2>5
  <2>7. 0..(i - 1) \in Bad
    BY <2>4, <2>5, <2>6
  <2>8. QED
    BY <2>2, <2>5, <2>6, <2>7
<1>2. ASSUME NEW i \in 0..n PROVE i \in Good
  <2>1. 0..i \in SUBSET (0..n)
    OBVIOUS
  <2>2. QED
    BY <1>1, <2>1
<1>3. QED
  BY <1>2

LEMMA TopOfRange == ASSUME NEW i \in Nat \ {0} PROVE Tracking!Max(1..i) = i
BY DEF Tracking!Max

LEMMA MaxExists ==
    ASSUME NEW S \in SUBSET Int, IsFiniteSet(S), S # {}
    PROVE  Tracking!Max(S) \in S /\ \A y \in S : Tracking!Max(S) >= y
<1> DEFINE HasMax(U) == \E x \in U : \A y \in U : x >= y
           Bad == {U \in SUBSET S : U # {} /\ ~HasMax(U)}
<1>1. Bad = {}
  <2> SUFFICES ASSUME Bad # {} PROVE FALSE
    OBVIOUS
  <2>1. Bad \subseteq SUBSET S
    OBVIOUS
  <2>2. PICK U \in Bad : \A V \in SUBSET U : V # U => V \notin Bad
    <3> HIDE DEF Bad
    <3>1. QED
      BY <2>1, LeastExists
  <2>3. PICK x \in U : TRUE
    OBVIOUS
  <2>4. U \ {x} \notin Bad
    BY <2>2, <2>3
  <2>5. CASE U \ {x} = {}
    BY <2>5 DEF HasMax
  <2>6. CASE U \ {x} # {}
    <3>1. PICK z \in U \ {x} : \A y \in U \ {x} : z >= y
      BY <2>4, <2>6
    <3>2. x \in Int /\ z \in Int /\ U \subseteq Int
      BY <3>1
    <3>3. CASE z >= x
      BY <3>1, <3>2, <3>3 DEF HasMax
    <3>4. CASE x >= z
      <4>1. \A y \in U : x >= y
        BY <3>1, <3>2, <3>4
      <4>2. QED
        BY <4>1
    <3>5. QED
      BY <3>2, <3>3, <3>4
  <2>7. QED
    BY <2>5, <2>6
<1>2. HasMax(S)
  BY <1>1
<1>3. QED
  BY <1>2 DEF Tracking!Max

(***************************************************************************)
(* FeeTracker: what the tracker retains is what one observation after the  *)
(* other leaves.                                                           *)
(***************************************************************************)
Seen == [at : Nat, cum : Nat]

LEMMA RetainedIsFold ==
    ASSUME NEW obs, NEW at
    PROVE  Tracking!Retained(obs, at) =
             (CHOOSE g : g = [U \in SUBSET DOMAIN obs |->
                                IF U = {} THEN <<>>
                                ELSE Tracking!Kept(g[U \ {Tracking!Max(U)}],
                                                   obs[Tracking!Max(U)], at)])[DOMAIN obs]
BY DEF Tracking!Retained, Tracking!FoldLeft, Tracking!MapThenFoldSet

LEMMA KeptTyped ==
    ASSUME NEW old \in Seq(Seen), NEW o \in Seen, NEW at \in Int
    PROVE  Tracking!Kept(old, o, at) \in Seq(Seen)
BY DEF Tracking!Kept

LEMMA RetainedSteps ==
    ASSUME NEW obs \in Seq(Seen), NEW at \in Int
    PROVE  \E r \in [0..Len(obs) -> Seq(Seen)] :
              /\ r[0] = <<>> /\ Tracking!Retained(obs, at) = r[Len(obs)]
              /\ \A i \in 1..Len(obs) : r[i] = Tracking!Kept(r[i - 1], obs[i], at)
<1> DEFINE n == Len(obs)
           S == DOMAIN obs
           X == Seq(Seen)
           step == [p \in X \X S |-> Tracking!Kept(p[1], obs[p[2]], at)]
           pick == [U \in SUBSET S |-> Tracking!Max(U)]
           P(g) == g = [U \in SUBSET S |-> IF U = {} THEN <<>>
                                           ELSE Tracking!Kept(g[U \ {Tracking!Max(U)}],
                                                              obs[Tracking!Max(U)], at)]
<1>1. n \in Nat /\ S = 1..n /\ IsFiniteSet(S) /\ <<>> \in X /\ S \subseteq Int
  BY FS_Interval
<1>2. step \in [X \X S -> X]
  BY KeptTyped
<1>3. \A U \in SUBSET S : U # {} => Tracking!Max(U) \in U
  BY <1>1, MaxExists, FS_Subset
<1>4. Picks(pick, S)
  BY <1>3 DEF Picks
<1>5. PICK h : Folds(h, S, X, <<>>, step, pick)
  <2> HIDE DEF X, S, step, pick
  <2>1. QED
    BY <1>1, <1>2, <1>4, FoldsExist
<1>6. P(h)
  <2>1. h \in [SUBSET S -> X]
    BY <1>5 DEF Folds
  <2>2. ASSUME NEW U \in SUBSET S
        PROVE  h[U] = IF U = {} THEN <<>> ELSE Tracking!Kept(h[U \ {Tracking!Max(U)}],
                                                             obs[Tracking!Max(U)], at)
    <3> DEFINE m == Tracking!Max(U)
    <3>1. h[U] = IF U = {} THEN <<>> ELSE step[<<h[U \ {m}], m>>]
      BY <1>5 DEF Folds
    <3>2. CASE U # {}
      <4>1. m \in S /\ h[U \ {m}] \in X
        BY <1>3, <2>1, <3>2
      <4> HIDE DEF m, X, S
      <4>2. step[<<h[U \ {m}], m>>] = Tracking!Kept(h[U \ {m}], obs[m], at)
        BY <4>1
      <4>3. QED
        BY <3>1, <3>2, <4>2 DEF m
    <3>3. QED
      BY <3>1, <3>2
  <2> HIDE DEF X, step, pick
  <2>3. QED
    BY <2>1, <2>2
<1> DEFINE g == CHOOSE k : P(k)
           r == [i \in 0..n |-> g[1..i]]
<1>7. P(g)
  <2> HIDE DEF P
  <2>1. QED
    BY <1>6
<1>8. \A U \in SUBSET S : g[U] = IF U = {} THEN <<>>
                                 ELSE Tracking!Kept(g[U \ {Tracking!Max(U)}],
                                                    obs[Tracking!Max(U)], at)
  <2> HIDE DEF g
  <2>1. QED
    BY <1>7
<1>9. Tracking!Retained(obs, at) = g[S]
  BY RetainedIsFold
<1> HIDE DEF g, P, step, pick, X
<1>10. r[0] = <<>> /\ r[n] = g[S]
  <2>1. 1..0 = {} /\ 0 \in 0..n /\ n \in 0..n
    BY <1>1
  <2>2. QED
    BY <1>1, <1>8, <2>1
<1>11. ASSUME NEW i \in 1..n PROVE r[i] = Tracking!Kept(r[i - 1], obs[i], at)
  <2>0. i \in Nat \ {0} /\ i <= n
    BY <1>1
  <2>1. /\ Tracking!Max(1..i) = i /\ (1..i) \ {i} = 1..(i - 1)
        /\ 1..i \in SUBSET S /\ 1..i # {}
    <3>1. (1..i) \ {i} = 1..(i - 1) /\ 1..i \in SUBSET (1..n) /\ i \in 1..i
      BY <1>1, <2>0
    <3>2. QED
      BY <1>1, <2>0, <3>1, TopOfRange
  <2>2. i \in 0..n /\ i - 1 \in 0..n
    BY <1>1
  <2>3. r[i] = g[1..i] /\ r[i - 1] = g[1..(i - 1)]
    BY <2>2
  <2>4. g[1..i] = Tracking!Kept(g[(1..i) \ {Tracking!Max(1..i)}], obs[Tracking!Max(1..i)], at)
    BY <1>8, <2>1
  <2>5. QED
    BY <2>1, <2>3, <2>4
<1>12. r \in [0..n -> X]
  <2> DEFINE Good == {i \in 0..n : r[i] \in X}
  <2>1. 0 \in Good /\ \A i \in 1..n : i - 1 \in Good => i \in Good
    <3>1. \A i \in 1..n : obs[i] \in Seen
      BY <1>1
    <3>2. ASSUME NEW i \in 1..n, r[i - 1] \in X PROVE r[i] \in X
      BY <1>11, <3>1, <3>2, KeptTyped DEF X
    <3> HIDE DEF r
    <3>3. QED
      BY <1>1, <1>10, <3>2
  <2>2. \A i \in 0..n : i \in Good
    <3> HIDE DEF Good
    <3>1. QED
      BY <1>1, <2>1, CountsUp
  <2>3. QED
    BY <2>2
<1> HIDE DEF r
<1>13. QED
  BY <1>9, <1>10, <1>11, <1>12 DEF X

(* What is retained was observed, the latest observation is, and nothing   *)
(* is dropped while the rest is young enough.                              *)
LEMMA RetainedFrom ==
    ASSUME NEW obs \in Seq(Seen), NEW at \in Int
    PROVE  /\ Tracking!Retained(obs, at) \in Seq(Seen)
           /\ \A i \in DOMAIN Tracking!Retained(obs, at) :
                 \E k \in DOMAIN obs : Tracking!Retained(obs, at)[i] = obs[k]
           /\ Len(obs) > 0 /\ obs[Len(obs)].at >= at - Retention =>
                 /\ Len(Tracking!Retained(obs, at)) > 0
                 /\ Tracking!Retained(obs, at)[Len(Tracking!Retained(obs, at))] = obs[Len(obs)]
           /\ (\A k \in 2..Len(obs) : obs[k].at >= at - Retention) =>
                 Tracking!Retained(obs, at) = obs
<1> DEFINE n == Len(obs)
           X == Seq(Seen)
<1>1. PICK r \in [0..n -> X] :
         /\ r[0] = <<>> /\ Tracking!Retained(obs, at) = r[n]
         /\ \A i \in 1..n : r[i] = Tracking!Kept(r[i - 1], obs[i], at)
  BY RetainedSteps
<1>2. n \in Nat /\ 0 \in 0..n /\ n \in 0..n /\ \A i \in 1..n : obs[i] \in Seen
  OBVIOUS
<1>3. \A i \in 0..n : r[i] \in X
  BY <1>1
<1>4. ASSUME NEW i \in 1..n
      PROVE  /\ i - 1 \in 0..n /\ i \in 0..n /\ r[i - 1] \in X /\ obs[i] \in Seen
             /\ (r[i] = r[i - 1] \/ r[i] = Append(r[i - 1], obs[i]))
  <2>1. i - 1 \in 0..n /\ i \in 0..n
    BY <1>2
  <2>2. r[i] = Tracking!Kept(r[i - 1], obs[i], at)
    BY <1>1
  <2> HIDE DEF n, X
  <2>3. QED
    BY <1>2, <1>3, <2>1, <2>2 DEF Tracking!Kept
<1>5. \A i \in 0..n : \A j \in DOMAIN r[i] : \E k \in 1..i : r[i][j] = obs[k]
  <2> DEFINE From(i) == \A j \in DOMAIN r[i] : \E k \in 1..i : r[i][j] = obs[k]
             Good == {i \in 0..n : From(i)}
  <2>1. From(0)
    BY <1>1
  <2>2. ASSUME NEW i \in 1..n, From(i - 1) PROVE From(i)
    <3>1. ASSUME NEW j \in DOMAIN r[i] PROVE \E k \in 1..i : r[i][j] = obs[k]
      <4>1. CASE j \in DOMAIN r[i - 1] /\ r[i][j] = r[i - 1][j]
        <5>1. PICK k \in 1..(i - 1) : r[i - 1][j] = obs[k]
          BY <2>2, <4>1
        <5>2. QED
          BY <4>1, <5>1
      <4>2. CASE r[i][j] = obs[i]
        BY <4>2
      <4>3. (j \in DOMAIN r[i - 1] /\ r[i][j] = r[i - 1][j]) \/ r[i][j] = obs[i]
        <5> DEFINE old == r[i - 1]
        <5>1. old \in X /\ obs[i] \in Seen
          BY <1>4
        <5> HIDE DEF old
        <5>2. CASE r[i] = old
          BY <3>1, <5>2 DEF old
        <5>3. CASE r[i] = Append(old, obs[i])
          BY <3>1, <5>1, <5>3 DEF old
        <5>4. QED
          BY <1>4, <5>2, <5>3 DEF old
      <4>4. QED
        BY <4>1, <4>2, <4>3
    <3>2. QED
      BY <3>1
  <2> HIDE DEF From
  <2>3. 0 \in Good /\ \A i \in 1..n : i - 1 \in Good => i \in Good
    BY <1>2, <1>4, <2>1, <2>2
  <2>4. \A i \in 0..n : i \in Good
    <3> HIDE DEF Good
    <3>1. QED
      BY <1>2, <2>3, CountsUp
  <2>5. QED
    BY <2>4 DEF From
<1>6. ASSUME n > 0, obs[n].at >= at - Retention
      PROVE  Len(r[n]) > 0 /\ r[n][Len(r[n])] = obs[n]
  <2> DEFINE old == r[n - 1]
  <2>1. n \in 1..n
    BY <1>2, <1>6
  <2>2. old \in X /\ obs[n] \in Seen /\ r[n] = Append(old, obs[n])
    BY <1>1, <1>4, <1>6, <2>1 DEF Tracking!Kept
  <2> HIDE DEF old, n
  <2>3. QED
    BY <2>2
<1>7. ASSUME \A k \in 2..n : obs[k].at >= at - Retention PROVE r[n] = obs
  <2> DEFINE prefix(i) == [j \in 1..i |-> obs[j]]
             Good == {i \in 0..n : r[i] = prefix(i)}
  <2>1. r[0] = prefix(0)
    BY <1>1
  <2>2. ASSUME NEW i \in 1..n, r[i - 1] = prefix(i - 1) PROVE r[i] = prefix(i)
    <3>1. r[i] = Append(r[i - 1], obs[i])
      <4>1. CASE i = 1
        <5>1. r[i - 1] = <<>> /\ r[i] = Tracking!Kept(r[i - 1], obs[i], at)
          <6>1. i - 1 = 0
            BY <4>1
          <6>2. QED
            BY <1>1, <6>1
        <5>2. QED
          BY <5>1 DEF Tracking!Kept
      <4>2. CASE i \in 2..n
        BY <1>1, <1>7, <4>2 DEF Tracking!Kept
      <4>3. QED
        BY <1>2, <4>1, <4>2
    <3>2. Append(prefix(i - 1), obs[i]) = prefix(i)
      <4>1. prefix(i - 1) \in Seq(Seen) /\ Len(prefix(i - 1)) = i - 1
        BY <1>2
      <4>2. QED
        BY <1>2, <4>1
    <3>3. QED
      BY <2>2, <3>1, <3>2
  <2>3. 0 \in Good /\ \A i \in 1..n : i - 1 \in Good => i \in Good
    <3> HIDE DEF prefix
    <3>1. QED
      BY <1>2, <1>4, <2>1, <2>2
  <2>4. \A i \in 0..n : i \in Good
    <3> HIDE DEF Good
    <3>1. QED
      BY <1>2, <2>3, CountsUp
  <2>5. r[n] = prefix(n)
    <3> HIDE DEF prefix
    <3>1. QED
      BY <1>2, <2>4
  <2>6. prefix(n) = obs
    OBVIOUS
  <2>7. QED
    BY <2>5, <2>6
<1>8. \A j \in DOMAIN r[n] : \E k \in DOMAIN obs : r[n][j] = obs[k]
  BY <1>2, <1>5
<1>9. QED
  BY <1>1, <1>2, <1>3, <1>6, <1>7, <1>8

(* The baseline is that of the latest observation before the time.         *)
LEMMA BaselineIs ==
    ASSUME NEW obs \in Seq(Seen), NEW t \in Int
    PROVE  \/ /\ \A j \in DOMAIN obs : obs[j].at > t
              /\ Tracking!Baseline(obs, t) = 0
           \/ \E i \in DOMAIN obs :
                 /\ obs[i].at <= t /\ Tracking!Baseline(obs, t) = obs[i].cum
                 /\ \A j \in DOMAIN obs : obs[j].at <= t => j <= i
<1> DEFINE S == Tracking!Before(obs, t)
<1>1. \A j \in DOMAIN obs : obs[j] \in Seen
  OBVIOUS
<1>2. S = {j \in DOMAIN obs : obs[j].at <= t}
  BY DEF Tracking!Before
<1>3. CASE S = {}
  <2>1. Tracking!Baseline(obs, t) = 0
    BY <1>3 DEF Tracking!Baseline
  <2>2. QED
    BY <1>1, <1>2, <1>3, <2>1 DEF Seen
<1>4. CASE S # {}
  <2> DEFINE i == Tracking!Max(S)
  <2>1. S \subseteq 1..Len(obs) /\ IsFiniteSet(1..Len(obs)) /\ S \subseteq Int
    BY <1>2, FS_Interval
  <2>2. i \in S /\ \A j \in S : i >= j
    BY <1>4, <2>1, FS_Subset, MaxExists
  <2>3. Tracking!Baseline(obs, t) = obs[i].cum
    BY <1>4 DEF Tracking!Baseline
  <2> HIDE DEF i
  <2>4. QED
    BY <1>2, <2>1, <2>2, <2>3
<1>5. QED
  BY <1>3, <1>4

(***************************************************************************)
(* The window and the day.  What is held against the past ends before now, *)
(* since the clock does not move under a scan.                             *)
(***************************************************************************)
Trackers == [seen : BOOLEAN, opened : Nat, last : Nat, cum : Nat, collected : Nat,
             day : Nat, obs : Seq(Seen)]
Locals == [pc : {"idle", "load", "save"}, unclaimed : Nat, at : Nat, opened : Nat,
           tracker : Trackers]
Typed(tr) == tr \in Trackers

(* No observation counts what was first counted after it.                  *)
NoneAhead(obs, cum) ==
    \A i \in DOMAIN obs : /\ obs[i].cum <= cum
                          /\ \A t \in obs[i].at..(now - 1) : obs[i].cum <= past[t]

(* With every observation there, one of each time counts what was counted, *)
(* if anything was.                                                        *)
NoneMissing(obs) ==
    /\ \A i, j \in DOMAIN obs : i <= j => obs[i].cum <= obs[j].cum
    /\ \A t \in 0..(now - 1) :
          past[t] = 0 \/ \E i \in DOMAIN obs : obs[i].at <= t /\ past[t] <= obs[i].cum

UpToDate(tr) ==
    /\ Len(tr.obs) > 0
    /\ tr.obs[Len(tr.obs)].at <= now /\ tr.obs[Len(tr.obs)].cum = tr.cum
    /\ tr.day = Tracking!Rolling(tr.obs, tr.cum, tr.obs[Len(tr.obs)].at)
    /\ tr.opened <= now

Dated(tr) ==
    /\ Typed(tr)
    /\ tr.seen => UpToDate(tr) /\ NoneAhead(tr.obs, tr.cum) /\ (~thinned => NoneMissing(tr.obs))
    /\ ~tr.seen => tr.cum = 0 /\ \A t \in 0..(now - 1) : past[t] = 0

WindowInv ==
    /\ now \in 0..MaxTime /\ past \in [0..MaxTime -> Nat] /\ thinned \in BOOLEAN
    /\ fees \in [earned : Nat, paid : Nat, stored : Nat] /\ fees.paid <= fees.earned
    /\ Dated(tracker) /\ scan \in [Scanners -> Locals]
    /\ \A s \in Scanners :
          /\ scan[s].pc # "idle" => scan[s].at = now /\ scan[s].opened <= now
          /\ scan[s].pc = "save" => Dated(scan[s].tracker)

LEMMA TimesTyped ==
    /\ MaxTime \in Nat /\ Window \in Nat /\ Window > 0 /\ Retention \in Nat /\ Coalesce \in Nat
    /\ Midnight \in 1..MaxTime /\ Spacings \subseteq 1..MaxTime
BY TimeAssumption

LEMMA FrontIs ==
    ASSUME NEW obs \in Seq(Seen), Len(obs) > 0
    PROVE  /\ Tracking!Front(obs) \in Seq(Seen) /\ Len(Tracking!Front(obs)) = Len(obs) - 1
           /\ \A i \in 1..(Len(obs) - 1) : Tracking!Front(obs)[i] = obs[i]
<1> DEFINE n == Len(obs) - 1
           front == SubSeq(obs, 1, n)
<1>1. n \in Nat /\ \A i \in 1..n : i \in 1..Len(obs) /\ obs[i] \in Seen
  OBVIOUS
<1>2. front = [i \in 1..n |-> obs[i]]
  <2>1. front = [i \in 1..(1 + n - 1) |-> obs[i + 1 - 1]]
    BY <1>1
  <2> HIDE DEF n
  <2>2. 1 + n - 1 = n /\ \A i \in 1..n : i + 1 - 1 = i
    BY <1>1
  <2>3. QED
    BY <1>1, <2>1, <2>2
<1> HIDE DEF n, front
<1>3. front \in Seq(Seen) /\ Len(front) = n /\ \A i \in 1..n : front[i] = obs[i]
  BY <1>1, <1>2
<1>4. QED
  BY <1>3 DEF Tracking!Front, n, front

LEMMA CumGrows ==
    ASSUME NEW tr, Typed(tr), NEW u \in Nat
    PROVE  /\ Tracking!CumAfter(tr, u) \in Nat /\ (tr.seen => tr.cum <= Tracking!CumAfter(tr, u))
           /\ Tracking!CollectedAfter(tr, u) \in Nat
BY DEF Typed, Trackers, Tracking!CumAfter, Tracking!CollectedAfter, Tracking!AtLeast0

(* What is observed after the old observations.                            *)
LEMMA ObservedIs ==
    ASSUME NEW obs \in Seq(Seen), Len(obs) > 0, NEW o \in Seen
    PROVE  LET new == Tracking!Observed(obs, o) IN
           /\ new \in Seq(Seen) /\ Len(new) > 0 /\ new[Len(new)] = o
           /\ \A i \in DOMAIN new : new[i] = o \/ \E k \in DOMAIN obs : new[i] = obs[k]
           /\ ~(o.at - obs[Len(obs)].at < Coalesce) => new = Append(obs, o)
<1> DEFINE new == Tracking!Observed(obs, o)
<1>1. CASE o.at - obs[Len(obs)].at < Coalesce
  <2> DEFINE front == Tracking!Front(obs)
  <2>1. new = Append(front, o)
    BY <1>1 DEF Tracking!Observed, Tracking!Last
  <2>2. /\ front \in Seq(Seen) /\ Len(front) = Len(obs) - 1
        /\ \A i \in 1..(Len(obs) - 1) : front[i] = obs[i]
    BY FrontIs
  <2> HIDE DEF front, new
  <2>3. /\ new \in Seq(Seen) /\ Len(new) = Len(obs) /\ new[Len(new)] = o
        /\ \A i \in 1..(Len(obs) - 1) : new[i] = obs[i]
    BY <2>1, <2>2
  <2>4. \A i \in DOMAIN new : new[i] = o \/ \E k \in DOMAIN obs : new[i] = obs[k]
    BY <2>3
  <2>5. QED
    BY <1>1, <2>3, <2>4 DEF new
<1>2. CASE ~(o.at - obs[Len(obs)].at < Coalesce)
  <2>1. new = Append(obs, o)
    BY <1>2 DEF Tracking!Observed, Tracking!Last
  <2> HIDE DEF new
  <2>2. /\ new \in Seq(Seen) /\ Len(new) = Len(obs) + 1 /\ new[Len(new)] = o
        /\ \A i \in 1..Len(obs) : new[i] = obs[i]
    BY <2>1
  <2>3. \A i \in DOMAIN new : new[i] = o \/ \E k \in DOMAIN obs : new[i] = obs[k]
    BY <2>2
  <2>4. QED
    BY <2>1, <2>2, <2>3 DEF new
<1>3. QED
  BY <1>1, <1>2

(* What a scan makes of the observations of a tracker that is dated.       *)
LEMMA ObservingKeeps ==
    ASSUME now \in 0..MaxTime, past \in [0..MaxTime -> Nat], thinned \in BOOLEAN,
           NEW tr, Dated(tr), NEW cum \in Nat, tr.cum <= cum,
           NEW opened \in Nat, opened <= now
    PROVE  LET o == [at |-> now, cum |-> cum]
               obs == IF tr.seen THEN Tracking!Observed(tr.obs, o)
                      ELSE <<[at |-> opened, cum |-> 0], o>>
           IN  /\ obs \in Seq(Seen) /\ Len(obs) > 0 /\ obs[Len(obs)] = o
               /\ NoneAhead(obs, cum)
               /\ ~thinned /\ ~Tracking!Thins(tr, now) =>
                     /\ NoneMissing(obs)
                     /\ \A k \in 2..Len(obs) : obs[k].at >= now - Retention
<1> DEFINE o == [at |-> now, cum |-> cum]
           obs == IF tr.seen THEN Tracking!Observed(tr.obs, o)
                  ELSE <<[at |-> opened, cum |-> 0], o>>
<1>1. o \in Seen /\ o.at = now /\ o.cum = cum /\ now \in Nat
  BY DEF Seen
<1>2. tr.seen \in BOOLEAN /\ tr.obs \in Seq(Seen) /\ tr.cum \in Nat
  BY DEF Dated, Typed, Trackers
<1>3. CASE tr.seen
  <2> DEFINE old == tr.obs
             n == Len(old)
  <2>1. /\ n > 0 /\ old[n].at <= now /\ old[n].cum = tr.cum /\ NoneAhead(old, tr.cum)
        /\ ~thinned => NoneMissing(old)
    BY <1>3 DEF Dated, UpToDate
  <2>2. n \in Nat /\ \A i \in 1..n : old[i] \in Seen /\ old[i].at \in Nat /\ old[i].cum \in Nat
    <3>1. n \in Nat /\ \A i \in 1..n : old[i] \in Seen
      BY <1>2
    <3>2. \A x \in Seen : x.at \in Nat /\ x.cum \in Nat
      BY DEF Seen
    <3>3. QED
      BY <3>1, <3>2
  <2>3. obs = Tracking!Observed(old, o)
    BY <1>3
  <2> HIDE DEF o, obs, old
  <2>4. /\ obs \in Seq(Seen) /\ Len(obs) > 0 /\ obs[Len(obs)] = o
        /\ \A i \in DOMAIN obs : obs[i] = o \/ \E k \in DOMAIN old : obs[i] = old[k]
        /\ ~(o.at - old[n].at < Coalesce) => obs = Append(old, o)
    <3> DEFINE new == Tracking!Observed(old, o)
    <3>1. old \in Seq(Seen) /\ Len(old) > 0
      BY <1>2, <2>1 DEF old
    <3>2. /\ new \in Seq(Seen) /\ Len(new) > 0 /\ new[Len(new)] = o
          /\ \A i \in DOMAIN new : new[i] = o \/ \E k \in DOMAIN old : new[i] = old[k]
          /\ ~(o.at - old[Len(old)].at < Coalesce) => new = Append(old, o)
      BY <1>1, <3>1, ObservedIs
    <3> HIDE DEF new
    <3>3. obs = new
      BY <2>3 DEF new
    <3>4. QED
      BY <3>2, <3>3
  <2>5. NoneAhead(obs, cum)
    <3>1. ASSUME NEW i \in DOMAIN obs
          PROVE  obs[i].cum <= cum /\ \A t \in obs[i].at..(now - 1) : obs[i].cum <= past[t]
      <4>1. CASE obs[i] = o
        BY <1>1, <4>1
      <4>2. ASSUME NEW k \in DOMAIN old, obs[i] = old[k]
            PROVE  obs[i].cum <= cum /\ \A t \in obs[i].at..(now - 1) : obs[i].cum <= past[t]
        <5>1. old[k].cum <= tr.cum /\ \A t \in old[k].at..(now - 1) : old[k].cum <= past[t]
          BY <2>1 DEF NoneAhead
        <5>2. old[k].cum \in Nat
          BY <1>2, <2>2 DEF old
        <5>3. QED
          BY <1>2, <4>2, <5>1, <5>2
      <4>3. QED
        BY <2>4, <4>1, <4>2
    <3>2. QED
      BY <3>1 DEF NoneAhead
  <2>6. ASSUME ~thinned, ~Tracking!Thins(tr, now)
        PROVE  NoneMissing(obs) /\ \A k \in 2..Len(obs) : obs[k].at >= now - Retention
    <3>1. /\ ~(now - old[n].at < Coalesce)
          /\ \A x \in Tracking!ToSet(Tail(old)) : ~(x.at < now - Retention)
      BY <1>3, <2>6 DEF Tracking!Thins, Tracking!Last, old
    <3>2. /\ obs = Append(old, o) /\ Len(obs) = n + 1
          /\ obs[n + 1] = o /\ \A i \in 1..n : obs[i] = old[i]
      <4>1. obs = Append(old, o) /\ old \in Seq(Seen)
        BY <1>1, <1>2, <2>4, <3>1 DEF old
      <4>2. QED
        BY <1>1, <4>1
    <3>3. \A k \in 2..n : old[k].at >= now - Retention
      <4>1. ASSUME NEW k \in 2..n PROVE old[k].at >= now - Retention
        <5>1. old \in Seq(Seen) /\ k - 1 \in 1..(n - 1)
          BY <1>2, <2>2 DEF old
        <5>2. k - 1 \in DOMAIN Tail(old) /\ Tail(old)[k - 1] = old[k]
          BY <5>1, <2>1
        <5>3. old[k] \in Tracking!ToSet(Tail(old))
          BY <5>2 DEF Tracking!ToSet
        <5>4. old[k].at \in Nat
          BY <2>2
        <5>5. QED
          BY <1>1, <3>1, <5>3, <5>4, TimesTyped
      <4>2. QED
        BY <4>1
    <3>4. \A k \in 2..Len(obs) : obs[k].at >= now - Retention
      BY <1>1, <2>2, <3>2, <3>3, TimesTyped
    <3>5. NoneMissing(obs)
      <4>1. /\ \A i, j \in DOMAIN old : i <= j => old[i].cum <= old[j].cum
            /\ \A t \in 0..(now - 1) :
                 past[t] = 0 \/ \E i \in DOMAIN old : old[i].at <= t /\ past[t] <= old[i].cum
        BY <2>1, <2>6 DEF NoneMissing
      <4>2. DOMAIN old = 1..n /\ DOMAIN obs = 1..(n + 1)
        BY <1>2, <2>4, <3>2 DEF old
      <4>3. \A i \in 1..n : old[i].cum <= cum
        BY <1>2, <2>1, <2>2, <4>2 DEF NoneAhead
      <4>4. ASSUME NEW i \in DOMAIN obs, NEW j \in DOMAIN obs, i <= j
            PROVE  obs[i].cum <= obs[j].cum
        <5>1. CASE j \in 1..n
          <6>1. i \in 1..n
            BY <2>2, <4>2, <4>4, <5>1
          <6>2. QED
            BY <3>2, <4>1, <4>2, <4>4, <5>1, <6>1
        <5>2. CASE j = n + 1
          <6>1. obs[j].cum = cum
            BY <1>1, <3>2, <5>2
          <6>2. CASE i \in 1..n
            BY <3>2, <4>3, <6>1, <6>2
          <6>3. CASE i = n + 1
            BY <5>2, <6>1, <6>3
          <6>4. QED
            BY <2>2, <4>2, <6>2, <6>3
        <5>3. QED
          BY <2>2, <4>2, <5>1, <5>2
      <4>5. ASSUME NEW t \in 0..(now - 1), past[t] # 0
            PROVE  \E i \in DOMAIN obs : obs[i].at <= t /\ past[t] <= obs[i].cum
        <5>1. PICK i \in DOMAIN old : old[i].at <= t /\ past[t] <= old[i].cum
          BY <4>1, <4>5
        <5>2. i \in DOMAIN obs /\ obs[i] = old[i]
          BY <2>2, <3>2, <4>2
        <5>3. QED
          BY <5>1, <5>2
      <4>6. QED
        BY <4>4, <4>5 DEF NoneMissing
    <3>6. QED
      BY <3>4, <3>5
  <2>7. QED
    BY <2>4, <2>5, <2>6 DEF o, obs
<1>4. CASE ~tr.seen
  <2> DEFINE first == [at |-> opened, cum |-> 0]
  <2>1. tr.cum = 0 /\ \A t \in 0..(now - 1) : past[t] = 0
    BY <1>4 DEF Dated
  <2>2. obs = <<first, o>> /\ first \in Seen /\ first.at = opened /\ first.cum = 0
    BY <1>4 DEF Seen
  <2> HIDE DEF first, o, obs
  <2>3. obs \in Seq(Seen) /\ Len(obs) = 2 /\ obs[1] = first /\ obs[2] = o /\ DOMAIN obs = 1..2
    BY <1>1, <2>2
  <2>4. NoneAhead(obs, cum)
    BY <1>1, <2>1, <2>2, <2>3 DEF NoneAhead
  <2>5. NoneMissing(obs)
    BY <1>1, <2>1, <2>2, <2>3 DEF NoneMissing
  <2>6. \A k \in 2..Len(obs) : obs[k].at >= now - Retention
    BY <1>1, <2>3, TimesTyped
  <2>7. Len(obs) > 0 /\ obs[Len(obs)] = o
    BY <2>3
  <2>8. QED
    BY <2>3, <2>4, <2>5, <2>6, <2>7, Zenon DEF o, obs
<1>5. QED
  BY <1>2, <1>3, <1>4

(* The tracker that a scan saves is dated.                                 *)
LEMMA UpdatedIsDated ==
    ASSUME now \in 0..MaxTime, past \in [0..MaxTime -> Nat], thinned \in BOOLEAN,
           NEW tr, Dated(tr), NEW u \in Nat, NEW opened \in Nat, opened <= now
    PROVE  LET new == Tracking!Updated(tr, u, now, opened) IN
           /\ Typed(new) /\ new.seen /\ UpToDate(new) /\ NoneAhead(new.obs, new.cum)
           /\ ~thinned /\ ~Tracking!Thins(tr, now) => NoneMissing(new.obs)
<1> DEFINE cum == Tracking!CumAfter(tr, u)
           o == [at |-> now, cum |-> cum]
           all == IF tr.seen THEN Tracking!Observed(tr.obs, o)
                  ELSE <<[at |-> opened, cum |-> 0], o>>
           obs == Tracking!Retained(all, now)
           new == Tracking!Updated(tr, u, now, opened)
<1>1. Typed(tr) /\ tr.seen \in BOOLEAN /\ tr.cum \in Nat
  BY DEF Dated, Typed, Trackers
<1>2. cum \in Nat /\ tr.cum <= cum /\ Tracking!CollectedAfter(tr, u) \in Nat
  <2>1. cum \in Nat /\ Tracking!CollectedAfter(tr, u) \in Nat /\ (tr.seen => tr.cum <= cum)
    BY <1>1, CumGrows
  <2>2. ~tr.seen => tr.cum = 0
    BY DEF Dated
  <2> HIDE DEF cum
  <2>3. QED
    BY <1>1, <2>1, <2>2
<1>3. /\ all \in Seq(Seen) /\ Len(all) > 0 /\ all[Len(all)] = o /\ NoneAhead(all, cum)
      /\ ~thinned /\ ~Tracking!Thins(tr, now) =>
            NoneMissing(all) /\ \A k \in 2..Len(all) : all[k].at >= now - Retention
  <2> HIDE DEF cum
  <2>1. QED
    BY <1>2, ObservingKeeps
<1>4. new = [seen |-> TRUE, opened |-> opened, last |-> u, cum |-> cum,
             collected |-> Tracking!CollectedAfter(tr, u),
             day |-> Tracking!Rolling(obs, cum, now), obs |-> obs]
  BY DEF Tracking!Updated
<1>5. o.at = now /\ o.cum = cum /\ now \in Nat
  OBVIOUS
<1> HIDE DEF cum, o, all, new
<1>6. /\ obs \in Seq(Seen) /\ \A i \in DOMAIN obs : \E k \in DOMAIN all : obs[i] = all[k]
      /\ Len(obs) > 0 /\ obs[Len(obs)] = o
      /\ (\A k \in 2..Len(all) : all[k].at >= now - Retention) => obs = all
  <2>1. all[Len(all)].at >= now - Retention /\ now \in Int
    BY <1>3, <1>5, TimesTyped
  <2>2. /\ obs \in Seq(Seen) /\ \A i \in DOMAIN obs : \E k \in DOMAIN all : obs[i] = all[k]
        /\ Len(all) > 0 /\ all[Len(all)].at >= now - Retention =>
              Len(obs) > 0 /\ obs[Len(obs)] = all[Len(all)]
        /\ (\A k \in 2..Len(all) : all[k].at >= now - Retention) => obs = all
    BY <1>3, <2>1, RetainedFrom
  <2> HIDE DEF obs
  <2>3. QED
    BY <1>3, <2>1, <2>2
<1> HIDE DEF obs
<1>7. NoneAhead(obs, cum)
  BY <1>3, <1>6 DEF NoneAhead
<1>8. Tracking!Rolling(obs, cum, now) \in Nat
  <2> DEFINE t == now - Window
             base == Tracking!Baseline(obs, t)
  <2>1. base \in Nat
    <3>1. \A i \in DOMAIN obs : obs[i].cum \in Nat
      <4>1. \A i \in DOMAIN obs : obs[i] \in Seen
        BY <1>6
      <4>2. QED
        BY <4>1 DEF Seen
    <3>2. t \in Int /\ obs \in Seq(Seen)
      BY <1>5, <1>6, TimesTyped
    <3> HIDE DEF t
    <3>3. base = 0 \/ \E i \in DOMAIN obs : base = obs[i].cum
      BY <3>2, BaselineIs
    <3> HIDE DEF base
    <3>4. QED
      BY <3>1, <3>3
  <2> HIDE DEF base
  <2>2. Tracking!Rolling(obs, cum, now) = Tracking!AtLeast0(cum - base)
    BY DEF Tracking!Rolling, base
  <2>3. QED
    BY <1>2, <2>1, <2>2 DEF Tracking!AtLeast0
<1>9. Typed(new)
  BY <1>2, <1>4, <1>6, <1>8 DEF Typed, Trackers
<1>10. UpToDate(new)
  BY <1>4, <1>5, <1>6 DEF UpToDate
<1>11. QED
  BY <1>3, <1>4, <1>6, <1>7, <1>9, <1>10 DEF new

(* Time passes only between scans.                                         *)
LEMMA TickKeepsDated ==
    ASSUME WindowInv, NEW d \in Spacings, Tracking!Tick(d)
    PROVE  WindowInv'
<1>1. /\ now \in 0..MaxTime /\ d \in Nat /\ now' = now + d /\ now' \in 0..MaxTime
      /\ UNCHANGED <<tracker, thinned, fees, scan>>
      /\ (\A s \in Scanners : scan[s].pc = "idle")
      /\ past \in [0..MaxTime -> Nat]
      /\ past' = [t \in 0..MaxTime |-> IF t >= now THEN tracker.cum ELSE past[t]]
  BY TimesTyped DEF Tracking!Tick, WindowInv
<1>2. Dated(tracker) /\ Typed(tracker) /\ tracker.cum \in Nat /\ tracker.obs \in Seq(Seen)
  BY DEF WindowInv, Dated, Typed, Trackers
<1>3. past' \in [0..MaxTime -> Nat]
  BY <1>1, <1>2
<1>4. \A t \in 0..(now' - 1) : past'[t] = IF t >= now THEN tracker.cum ELSE past[t]
  BY <1>1, TimesTyped
<1>5. CASE tracker.seen
  <2> DEFINE obs == tracker.obs
             cum == tracker.cum
             n == Len(obs)
  <2>1. /\ n > 0 /\ obs[n].at <= now /\ obs[n].cum = cum /\ NoneAhead(obs, cum)
        /\ ~thinned => NoneMissing(obs)
        /\ tracker.day = Tracking!Rolling(obs, cum, obs[n].at)
    BY <1>2, <1>5 DEF Dated, UpToDate
  <2>2. n \in 1..n /\ DOMAIN obs = 1..n /\ \A i \in 1..n : obs[i] \in Seen
    BY <1>2, <2>1
  <2>3. \A i \in 1..n : obs[i].at \in Nat /\ obs[i].cum \in Nat
    BY <2>2 DEF Seen
  <2>4. UpToDate(tracker)'
    <3>1. tracker.opened \in Nat /\ tracker.opened <= now
      BY <1>2, <1>5 DEF Dated, UpToDate, Typed, Trackers
    <3>2. tracker' = tracker /\ now <= now' /\ obs[n].at \in Nat /\ now \in Nat /\ now' \in Nat
      BY <1>1, <2>2, <2>3
    <3>3. obs[n].at <= now' /\ tracker.opened <= now'
      BY <2>1, <3>1, <3>2
    <3>4. QED
      BY <2>1, <3>2, <3>3 DEF UpToDate
  <2>5. NoneAhead(obs, cum)'
    <3>1. ASSUME NEW i \in 1..n, NEW t \in obs[i].at..(now' - 1) PROVE obs[i].cum <= past'[t]
      <4>1. obs[i].at \in Nat /\ obs[i].cum <= cum /\ t \in 0..(now' - 1)
        <5>1. obs[i].at \in Nat
          BY <2>3
        <5>2. obs[i].cum <= cum
          BY <2>1, <2>2 DEF NoneAhead
        <5>3. QED
          BY <1>1, <5>1, <5>2
      <4>2. CASE t < now
        <5>1. t \in obs[i].at..(now - 1)
          BY <1>1, <4>1, <4>2
        <5>2. obs[i].cum <= past[t]
          BY <2>1, <2>2, <5>1 DEF NoneAhead
        <5>3. QED
          BY <1>4, <4>1, <4>2, <5>2
      <4>3. CASE t >= now
        BY <1>4, <4>1, <4>3
      <4>4. QED
        BY <1>1, <4>1, <4>2, <4>3
    <3>2. \A i \in 1..n : obs[i].cum <= cum
      BY <2>1, <2>2 DEF NoneAhead
    <3>3. QED
      BY <1>1, <2>2, <3>1, <3>2 DEF NoneAhead
  <2>6. ASSUME ~thinned PROVE NoneMissing(obs)'
    <3>1. /\ \A i, j \in 1..n : i <= j => obs[i].cum <= obs[j].cum
          /\ \A t \in 0..(now - 1) :
               past[t] = 0 \/ \E i \in 1..n : obs[i].at <= t /\ past[t] <= obs[i].cum
      BY <2>1, <2>2, <2>6 DEF NoneMissing
    <3>2. ASSUME NEW t \in 0..(now' - 1), past'[t] # 0
          PROVE  \E i \in 1..n : obs[i].at <= t /\ past'[t] <= obs[i].cum
      <4>1. CASE t < now
        <5>1. t \in 0..(now - 1) /\ past'[t] = past[t]
          BY <1>1, <1>4, <4>1
        <5>2. QED
          BY <3>1, <3>2, <5>1
      <4>2. CASE t >= now
        <5>1. past'[t] = cum /\ obs[n].at \in Nat /\ cum \in Nat
          BY <1>2, <1>4, <2>2, <2>3, <4>2
        <5>2. obs[n].at <= t /\ past'[t] <= obs[n].cum
          BY <1>1, <2>1, <4>2, <5>1
        <5>3. QED
          BY <2>2, <5>2
      <4>3. QED
        BY <1>1, <4>1, <4>2
    <3>3. QED
      BY <1>1, <2>2, <3>1, <3>2 DEF NoneMissing
  <2>7. Dated(tracker)'
    <3>1. Typed(tracker)' /\ tracker'.seen
      BY <1>1, <1>2, <1>5 DEF Typed
    <3>2. QED
      BY <1>1, <2>4, <2>5, <2>6, <3>1 DEF Dated
  <2>8. QED
    BY <1>1, <1>3, <2>7 DEF WindowInv
<1>6. CASE ~tracker.seen
  <2>1. tracker.cum = 0 /\ \A t \in 0..(now - 1) : past[t] = 0
    BY <1>2, <1>6 DEF Dated
  <2>2. \A t \in 0..(now' - 1) : past'[t] = 0
    BY <1>1, <1>4, <2>1
  <2>3. Dated(tracker)'
    <3>1. Typed(tracker)'
      BY <1>1, <1>2 DEF Typed
    <3>2. QED
      BY <1>1, <1>6, <2>1, <2>2, <3>1 DEF Dated
  <2>4. QED
    BY <1>1, <1>3, <2>3 DEF WindowInv
<1>7. QED
  BY <1>5, <1>6

LEMMA WindowInit == Tracking!Init => WindowInv
<1> SUFFICES ASSUME Tracking!Init PROVE WindowInv
  OBVIOUS
<1>1. /\ now = 0 /\ past \in [0..MaxTime -> Nat] /\ thinned = FALSE
      /\ fees = [earned |-> 0, paid |-> 0, stored |-> 0]
      /\ tracker = Tracking!NoTracker /\ scan = [s \in Scanners |-> Tracking!Idle]
  BY DEF Tracking!Init
<1>2. Dated(tracker)
  <2>1. Typed(tracker) /\ ~tracker.seen /\ tracker.cum = 0
    BY <1>1 DEF Typed, Trackers, Tracking!NoTracker
  <2>2. \A t \in 0..(now - 1) : past[t] = 0
    BY <1>1
  <2>3. QED
    BY <2>1, <2>2 DEF Dated
<1>3. fees \in [earned : Nat, paid : Nat, stored : Nat] /\ fees.paid <= fees.earned
  BY <1>1
<1>4. scan \in [Scanners -> Locals] /\ \A s \in Scanners : scan[s].pc = "idle"
  <2>1. Tracking!Idle \in Locals /\ Tracking!Idle.pc = "idle"
    BY DEF Tracking!Idle, Tracking!NoTracker, Locals, Trackers
  <2>2. QED
    BY <1>1, <2>1
<1>5. now \in 0..MaxTime /\ past \in [0..MaxTime -> Nat] /\ thinned \in BOOLEAN
  <2>1. now \in 0..MaxTime
    BY <1>1, TimesTyped
  <2>2. thinned \in BOOLEAN
    BY <1>1, Zenon
  <2>3. QED
    BY <1>1, <2>1, <2>2, Zenon
<1>6. QED
  BY <1>2, <1>3, <1>4, <1>5, Zenon DEF WindowInv

(* Being dated is said of a tracker by the time and the past alone, and    *)
(* thinning out only takes from what is said.                              *)
LEMMA StaysDated ==
    ASSUME now' = now, past' = past, thinned \in BOOLEAN, thinned => thinned',
           NEW CONSTANT tr, Dated(tr)
    PROVE  Dated(tr)'
<1>1. /\ NoneAhead(tr.obs, tr.cum)' <=> NoneAhead(tr.obs, tr.cum)
      /\ NoneMissing(tr.obs)' <=> NoneMissing(tr.obs)
      /\ UpToDate(tr)' <=> UpToDate(tr)
      /\ Typed(tr)' <=> Typed(tr)
  BY DEF NoneAhead, NoneMissing, UpToDate, Typed
<1>2. QED
  BY <1>1 DEF Dated

LEMMA TrackerStaysDated ==
    ASSUME now' = now, past' = past, thinned \in BOOLEAN, thinned => thinned',
           tracker' = tracker, Dated(tracker)
    PROVE  Dated(tracker)'
<1>1. PICK tr : tr = tracker
  OBVIOUS
<1>2. Dated(tr)'
  BY <1>1, StaysDated
<1>3. QED
  BY <1>1, <1>2

LEMMA CopyStaysDated ==
    ASSUME now' = now, past' = past, thinned \in BOOLEAN, thinned => thinned',
           NEW r \in Scanners, scan'[r] = scan[r], Dated(scan[r].tracker)
    PROVE  Dated(scan[r].tracker)'
<1>1. PICK tr : tr = scan[r].tracker
  OBVIOUS
<1>2. Dated(tr)'
  BY <1>1, StaysDated
<1>3. QED
  BY <1>1, <1>2

LEMMA ScanKeepsDated ==
    ASSUME WindowInv, NEW s \in Scanners, Tracking!ScanNext(s)
    PROVE  WindowInv'
<1>1. /\ now \in 0..MaxTime /\ past \in [0..MaxTime -> Nat] /\ thinned \in BOOLEAN
      /\ fees \in [earned : Nat, paid : Nat, stored : Nat] /\ fees.paid <= fees.earned
      /\ scan \in [Scanners -> Locals] /\ Dated(tracker)
  BY DEF WindowInv
<1>2. \A r \in Scanners :
         /\ scan[r] \in Locals
         /\ scan[r].pc # "idle" => scan[r].at = now /\ scan[r].opened <= now
         /\ scan[r].pc = "save" => Dated(scan[r].tracker)
  BY DEF WindowInv
(* Only the scan that moves has to be looked at.                           *)
<1>3. ASSUME now' = now, past' = past, fees' = fees, thinned' \in BOOLEAN, thinned => thinned',
             NEW local \in Locals, scan' = [scan EXCEPT ![s] = local], Dated(tracker)',
             local.pc # "idle" => local.at = now /\ local.opened <= now,
             local.pc = "save" => Dated(scan[s].tracker)'
      PROVE  WindowInv'
  <2>1. /\ scan'[s] = local /\ scan' \in [Scanners -> Locals]
        /\ \A r \in Scanners : r # s => scan'[r] = scan[r]
    BY <1>1, <1>3
  <2>2. ASSUME NEW r \in Scanners
        PROVE  /\ scan'[r].pc # "idle" => scan'[r].at = now' /\ scan'[r].opened <= now'
               /\ scan'[r].pc = "save" => Dated(scan[r].tracker)'
    <3>1. CASE r = s
      BY <1>3, <2>1, <3>1
    <3>2. CASE r # s
      <4>1. scan'[r] = scan[r]
        BY <2>1, <3>2
      <4>2. Dated(scan[r].tracker) => Dated(scan[r].tracker)'
        BY <1>1, <1>3, <4>1, CopyStaysDated
      <4>3. QED
        BY <1>2, <1>3, <4>1, <4>2
    <3>3. QED
      BY <3>1, <3>2
  <2>3. /\ now' \in 0..MaxTime /\ past' \in [0..MaxTime -> Nat]
        /\ fees' \in [earned : Nat, paid : Nat, stored : Nat] /\ fees'.paid <= fees'.earned
    BY <1>1, <1>3
  <2>4. QED
    BY <1>3, <2>1, <2>2, <2>3, Zenon DEF WindowInv
<1>4. Tracking!Idle \in Locals /\ Tracking!Idle.pc = "idle"
  BY DEF Tracking!Idle, Tracking!NoTracker, Locals, Trackers
<1>5. tracker' = tracker /\ now' = now /\ past' = past /\ thinned' = thinned => Dated(tracker)'
  BY <1>1, TrackerStaysDated
<1>6. ASSUME NEW source \in Sources, Tracking!Observe(s, source) PROVE WindowInv'
  <2>1. PICK u \in Tracking!Readings(source), opened \in Tracking!Openings :
           scan' = [scan EXCEPT ![s] = [@ EXCEPT !.pc = "load", !.at = now,
                                                 !.unclaimed = u, !.opened = opened]]
    BY <1>6 DEF Tracking!Observe
  <2> DEFINE local == [scan[s] EXCEPT !.pc = "load", !.at = now, !.unclaimed = u,
                                      !.opened = opened]
  <2>2. UNCHANGED <<now, fees, tracker, past, thinned>>
    BY <1>6 DEF Tracking!Observe
  <2>3. scan' = [scan EXCEPT ![s] = local]
    BY <1>1, <2>1
  <2>4. u \in Nat /\ now \in Nat
    BY <1>1, <2>1, TimeAssumption, TimesTyped DEF Tracking!Readings, Tracking!Unclaimed
  <2>5. opened \in Nat /\ opened <= now
    <3>1. tracker.seen => tracker.opened \in Nat /\ tracker.opened <= now
      BY <1>1 DEF Dated, UpToDate, Typed, Trackers
    <3>2. QED
      BY <2>1, <2>4, <3>1 DEF Tracking!Openings
  <2>6. local \in Locals /\ local.pc = "load" /\ local.at = now /\ local.opened = opened
    BY <1>2, <2>4, <2>5 DEF Locals
  <2> HIDE DEF local
  <2>7. QED
    BY <1>1, <1>3, <1>5, <2>2, <2>3, <2>5, <2>6
<1>7. CASE Tracking!LoadTracker(s)
  <2> DEFINE local == [scan[s] EXCEPT !.pc = "save", !.tracker = tracker]
  <2>1. /\ UNCHANGED <<now, fees, tracker, past, thinned>> /\ scan[s].pc = "load"
        /\ scan' = [scan EXCEPT ![s] = local]
    BY <1>1, <1>7 DEF Tracking!LoadTracker
  <2>2. tracker \in Trackers
    BY <1>1 DEF Dated, Typed
  <2>3. local \in Locals /\ local.at = now /\ local.opened <= now /\ local.tracker = tracker
    BY <1>2, <2>1, <2>2 DEF Locals
  <2> HIDE DEF local
  <2>4. scan'[s].tracker = tracker
    BY <1>1, <2>1, <2>3
  <2>5. Dated(scan[s].tracker)'
    <3>1. PICK tr : tr = tracker
      OBVIOUS
    <3>2. Dated(tr)'
      BY <1>1, <2>1, <3>1, StaysDated
    <3>3. QED
      BY <2>4, <3>1, <3>2
  <2>6. QED
    BY <1>1, <1>3, <1>5, <2>1, <2>3, <2>5
<1>8. CASE Tracking!SaveTracker(s)
  <2>1. /\ UNCHANGED <<now, fees, past>> /\ scan[s].pc = "save"
        /\ scan' = [scan EXCEPT ![s] = Tracking!Idle]
        /\ thinned' = (thinned \/ Tracking!Thins(scan[s].tracker, now))
        /\ tracker' = Tracking!Updated(scan[s].tracker, scan[s].unclaimed, now, scan[s].opened)
    BY <1>2, <1>8 DEF Tracking!SaveTracker
  <2>2. PICK tr, u, opened :
          tr = scan[s].tracker /\ u = scan[s].unclaimed /\ opened = scan[s].opened
    OBVIOUS
  <2>3. Dated(tr) /\ u \in Nat /\ opened \in Nat /\ opened <= now
    BY <1>2, <2>1, <2>2 DEF Locals
  <2>4. PICK new : new = Tracking!Updated(tr, u, now, opened)
    OBVIOUS
  <2>5. /\ Typed(new) /\ new.seen /\ UpToDate(new) /\ NoneAhead(new.obs, new.cum)
        /\ ~thinned /\ ~Tracking!Thins(tr, now) => NoneMissing(new.obs)
    BY <1>1, <2>3, <2>4, UpdatedIsDated
  <2>6. tracker' = new /\ (~thinned' => ~thinned /\ ~Tracking!Thins(tr, now))
    BY <2>1, <2>2, <2>4
  <2>7. Dated(tracker)'
    <3>1. /\ NoneAhead(new.obs, new.cum)' <=> NoneAhead(new.obs, new.cum)
          /\ NoneMissing(new.obs)' <=> NoneMissing(new.obs)
          /\ UpToDate(new)' <=> UpToDate(new)
          /\ Typed(new)' <=> Typed(new)
      BY <2>1 DEF NoneAhead, NoneMissing, UpToDate, Typed
    <3>2. Dated(new)'
      BY <2>5, <2>6, <3>1 DEF Dated
    <3>3. QED
      BY <2>6, <3>2
  <2>8. thinned' \in BOOLEAN /\ (thinned => thinned')
    BY <2>1
  <2>9. QED
    BY <1>3, <1>4, <2>1, <2>7, <2>8
<1>9. CASE Tracking!Abandon(s)
  <2>1. /\ UNCHANGED <<now, fees, tracker, past, thinned>>
        /\ scan' = [scan EXCEPT ![s] = Tracking!Idle]
    BY <1>9 DEF Tracking!Abandon
  <2>2. QED
    BY <1>1, <1>3, <1>4, <1>5, <2>1
<1>10. QED
  BY <1>6, <1>7, <1>8, <1>9 DEF Tracking!ScanNext

(* Where nothing the tracker looks at moves.                               *)
LEMMA RestKeepsDated ==
    ASSUME WindowInv, UNCHANGED <<now, tracker, scan, past, thinned>>,
           fees' \in [earned : Nat, paid : Nat, stored : Nat], fees'.paid <= fees'.earned
    PROVE  WindowInv'
<1>1. /\ now' = now /\ past' = past /\ thinned' = thinned /\ tracker' = tracker /\ scan' = scan
      /\ thinned \in BOOLEAN /\ Dated(tracker)
  BY DEF WindowInv
<1>2. Dated(tracker)'
  BY <1>1, TrackerStaysDated
<1>3. ASSUME NEW r \in Scanners
      PROVE  /\ scan'[r].pc # "idle" => scan'[r].at = now' /\ scan'[r].opened <= now'
             /\ scan'[r].pc = "save" => Dated(scan[r].tracker)'
  <2>1. scan[r].pc = "save" => Dated(scan[r].tracker)'
    BY <1>1, CopyStaysDated DEF WindowInv
  <2>2. QED
    BY <1>1, <2>1 DEF WindowInv
<1>4. now' \in 0..MaxTime /\ past' \in [0..MaxTime -> Nat] /\ scan' \in [Scanners -> Locals]
      /\ thinned' \in BOOLEAN
  BY <1>1 DEF WindowInv
<1>5. QED
  BY <1>2, <1>3, <1>4, Zenon DEF WindowInv

(* What the chain does leaves the tracker's own numbers alone.             *)
LEMMA ChainKeepsDated ==
    ASSUME WindowInv, Tracking!ChainNext
    PROVE  WindowInv'
<1>1. UNCHANGED <<now, tracker, scan, past, thinned>>
  BY DEF Tracking!ChainNext, Tracking!Accrue, Tracking!Book, Tracking!Collect
<1>2. fees' \in [earned : Nat, paid : Nat, stored : Nat] /\ fees'.paid <= fees'.earned
  BY ChainKeepsFees DEF WindowInv
<1>3. QED
  BY <1>1, <1>2, RestKeepsDated

LEMMA WindowStep ==
    ASSUME WindowInv, [Tracking!Next]_trackerVars
    PROVE  WindowInv'
<1>1. CASE UNCHANGED trackerVars
  <2>1. UNCHANGED <<now, tracker, scan, past, thinned>> /\ fees' = fees
    BY <1>1 DEF trackerVars
  <2>2. fees' \in [earned : Nat, paid : Nat, stored : Nat] /\ fees'.paid <= fees'.earned
    BY <2>1 DEF WindowInv
  <2>3. QED
    BY <2>1, <2>2, RestKeepsDated
<1>2. CASE Tracking!Next
  BY <1>2, ChainKeepsDated, TickKeepsDated, ScanKeepsDated DEF Tracking!Next
<1>3. QED
  BY <1>1, <1>2

(* The baseline is what was counted when the window began, or less.        *)
LEMMA DatedIsWindow == WindowInv => RollingIsWindow
<1> SUFFICES ASSUME WindowInv, tracker.seen PROVE RollingIsWindow
  BY DEF RollingIsWindow, Tracking!RollingIsWindow
<1> DEFINE obs == tracker.obs
           cum == tracker.cum
           n == Len(obs)
           t == obs[n].at - Window
           base == Tracking!Baseline(obs, t)
           began == Tracking!PastAt(t)
<1>1. /\ now \in Nat /\ now <= MaxTime /\ past \in [0..MaxTime -> Nat]
      /\ obs \in Seq(Seen) /\ cum \in Nat /\ n > 0
  BY TimesTyped DEF WindowInv, Dated, Typed, Trackers, UpToDate
<1>2. /\ obs[n].at <= now /\ tracker.day = Tracking!Rolling(obs, cum, obs[n].at)
      /\ NoneAhead(obs, cum) /\ (~thinned => NoneMissing(obs))
  BY DEF WindowInv, Dated, UpToDate
<1>3. n \in 1..n /\ DOMAIN obs = 1..n /\ \A i \in 1..n : obs[i] \in Seen
  BY <1>1
<1>4. \A i \in 1..n : obs[i].at \in Nat /\ obs[i].cum \in Nat
  BY <1>3 DEF Seen
<1>5. t \in Int /\ t < now
  <2>1. obs[n].at \in Nat
    BY <1>3, <1>4
  <2> HIDE DEF obs, n
  <2>2. QED
    BY <1>1, <1>2, <2>1, TimesTyped
<1>6. tracker.day = Tracking!AtLeast0(cum - base)
  BY <1>2 DEF Tracking!Rolling
<1>7. Tracking!LastAt = obs[n].at
  BY DEF Tracking!LastAt, Tracking!Last
<1>8. began = IF t < 0 THEN 0 ELSE past[t]
  BY DEF Tracking!PastAt
<1>9. \/ (\A j \in 1..n : obs[j].at > t) /\ base = 0
      \/ \E i \in 1..n : /\ obs[i].at <= t /\ base = obs[i].cum
                         /\ \A j \in 1..n : obs[j].at <= t => j <= i
  <2> HIDE DEF t, obs, n
  <2>1. \/ (\A j \in DOMAIN obs : obs[j].at > t) /\ base = 0
        \/ \E i \in DOMAIN obs : /\ obs[i].at <= t /\ base = obs[i].cum
                                /\ \A j \in DOMAIN obs : obs[j].at <= t => j <= i
    BY <1>1, <1>5, BaselineIs
  <2>2. QED
    BY <1>3, <2>1
<1> HIDE DEF obs, cum, n, t, base, began
<1>10. began \in Nat
  BY <1>1, <1>5, <1>8, TimesTyped
<1>11. base \in Nat /\ base <= began
  <2>1. CASE base = 0
    BY <1>10, <2>1
  <2>2. ASSUME NEW i \in 1..n, obs[i].at <= t, base = obs[i].cum PROVE base \in Nat /\ base <= began
    <3>1. obs[i].at \in Nat /\ obs[i].cum \in Nat
      BY <1>4
    <3>2. ~(t < 0) /\ t \in obs[i].at..(now - 1)
      BY <1>1, <1>5, <2>2, <3>1
    <3>3. obs[i].cum <= past[t]
      BY <1>2, <1>3, <3>2 DEF NoneAhead
    <3>4. QED
      BY <1>8, <2>2, <3>1, <3>2, <3>3
  <2>3. QED
    BY <1>9, <2>1, <2>2
<1>12. ASSUME ~thinned PROVE began <= base /\ began <= cum
  <2>1. CASE t < 0
    BY <1>1, <1>8, <1>11, <2>1
  <2>2. CASE t >= 0
    <3>1. t \in 0..(now - 1) /\ began = past[t]
      BY <1>1, <1>5, <1>8, <2>2
    <3>2. CASE past[t] = 0
      BY <1>1, <1>11, <3>1, <3>2
    <3>3. ASSUME past[t] # 0 PROVE began <= base /\ began <= cum
      <4>1. PICK k \in 1..n : obs[k].at <= t /\ past[t] <= obs[k].cum
        BY <1>2, <1>3, <1>12, <3>1, <3>3 DEF NoneMissing
      <4>2. PICK i \in 1..n : /\ obs[i].at <= t /\ base = obs[i].cum
                              /\ \A j \in 1..n : obs[j].at <= t => j <= i
        BY <1>4, <1>5, <1>9, <4>1
      <4>3. k <= i
        BY <4>1, <4>2
      <4>4. obs[k].cum <= obs[i].cum
        BY <1>2, <1>3, <1>12, <4>3 DEF NoneMissing
      <4>5. obs[i].cum <= cum
        BY <1>2, <1>3 DEF NoneAhead
      <4>6. QED
        BY <1>1, <1>4, <1>10, <3>1, <4>1, <4>2, <4>4, <4>5
    <3>4. QED
      BY <3>2, <3>3
  <2>3. QED
    BY <1>5, <2>1, <2>2
<1>13. tracker.day >= cum - began /\ (~thinned => tracker.day <= cum - began)
  BY <1>1, <1>6, <1>10, <1>11, <1>12 DEF Tracking!AtLeast0
<1>14. QED
  BY <1>7, <1>13 DEF RollingIsWindow, Tracking!RollingIsWindow, cum, began, t

(***************************************************************************)
(* LifecycleHistory.  Sums over blocks are sums one block after the other. *)
(***************************************************************************)
Any(U) == CHOOSE x \in U : TRUE

(* One element after the other is picked and its value added.              *)
Adds(g, f, S) ==
    \A U \in SUBSET S : g[U] = IF U = {} THEN 0 ELSE f[Any(U)] + g[U \ {Any(U)}]

(* Whichever element is picked.                                            *)
AddsAny(g, f, S) == \A U \in SUBSET S : \A k \in U : g[U] = f[k] + g[U \ {k}]

LEMMA AnyIsOne == \A U : U # {} => Any(U) \in U
BY DEF Any

LEMMA AddsExist ==
    ASSUME NEW S, IsFiniteSet(S), NEW f \in [S -> Nat]
    PROVE  \E g \in [SUBSET S -> Nat] : Adds(g, f, S)
<1> DEFINE step == [p \in Nat \X S |-> f[p[2]] + p[1]]
           pick == [U \in SUBSET S |-> Any(U)]
<1>1. step \in [Nat \X S -> Nat]
  OBVIOUS
<1>2. Picks(pick, S)
  BY AnyIsOne DEF Picks
<1>3. PICK g : Folds(g, S, Nat, 0, step, pick)
  <2> HIDE DEF step, pick
  <2>1. QED
    BY <1>1, <1>2, FoldsExist
<1>4. g \in [SUBSET S -> Nat]
  BY <1>3 DEF Folds
<1>5. ASSUME NEW U \in SUBSET S PROVE g[U] = IF U = {} THEN 0 ELSE f[Any(U)] + g[U \ {Any(U)}]
  <2>1. g[U] = IF U = {} THEN 0 ELSE step[<<g[U \ {Any(U)}], Any(U)>>]
    BY <1>3 DEF Folds
  <2>2. CASE U # {}
    <3>1. Any(U) \in S /\ g[U \ {Any(U)}] \in Nat
      BY <1>4, <2>2, AnyIsOne
    <3>2. QED
      BY <2>1, <2>2, <3>1
  <2>3. QED
    BY <2>1, <2>2
<1>6. QED
  BY <1>4, <1>5 DEF Adds

LEMMA AddsAgree ==
    ASSUME NEW S, IsFiniteSet(S), NEW T \in SUBSET S, NEW f, NEW g, NEW h,
           Adds(g, f, S), Adds(h, f, T)
    PROVE  \A U \in SUBSET T : g[U] = h[U]
<1> DEFINE Bad == {U \in SUBSET T : g[U] # h[U]}
<1>1. Bad = {}
  <2> SUFFICES ASSUME Bad # {} PROVE FALSE
    OBVIOUS
  <2>1. Bad \subseteq SUBSET T /\ IsFiniteSet(T)
    BY FS_Subset
  <2>2. PICK U \in Bad : \A V \in SUBSET U : V # U => V \notin Bad
    <3> HIDE DEF Bad
    <3>1. QED
      BY <2>1, LeastExists
  <2>3. U # {}
    BY DEF Adds
  <2>4. Any(U) \in U
    BY <2>3, AnyIsOne
  <2>5. g[U \ {Any(U)}] = h[U \ {Any(U)}]
    BY <2>2, <2>4
  <2>6. g[U] = h[U]
    BY <2>3, <2>5 DEF Adds
  <2>7. QED
    BY <2>6
<1>2. QED
  BY <1>1

(* Whatever is picked first, every element is added once.                  *)
LEMMA AddsEach ==
    ASSUME NEW S, IsFiniteSet(S), NEW f, f \in [S -> Nat],
           NEW g, g \in [SUBSET S -> Nat], Adds(g, f, S)
    PROVE  AddsAny(g, f, S)
<1> DEFINE Good(U) == \A k \in U : g[U] = f[k] + g[U \ {k}]
           Bad == {U \in SUBSET S : ~Good(U)}
<1>1. Bad = {}
  <2> SUFFICES ASSUME Bad # {} PROVE FALSE
    OBVIOUS
  <2>1. Bad \subseteq SUBSET S
    OBVIOUS
  <2>2. PICK U \in Bad : \A V \in SUBSET U : V # U => V \notin Bad
    <3> HIDE DEF Bad
    <3>1. QED
      BY <2>1, LeastExists
  <2>3. PICK k \in U : g[U] # f[k] + g[U \ {k}]
    OBVIOUS
  <2>4. U \in SUBSET S /\ U # {}
    BY <2>3
  <2> DEFINE x == Any(U)
  <2>5. x \in U
    BY <2>4, AnyIsOne
  <2>6. g[U] = f[x] + g[U \ {x}]
    BY <2>4 DEF Adds
  <2>7. x # k
    BY <2>3, <2>6
  <2> HIDE DEF x
  <2>8. Good(U \ {x}) /\ Good(U \ {k})
    <3>1. U \ {x} \in SUBSET U /\ U \ {x} # U /\ U \ {k} \in SUBSET U /\ U \ {k} # U
      BY <2>3, <2>5
    <3>2. U \ {x} \in SUBSET S /\ U \ {k} \in SUBSET S
      BY <2>4
    <3>3. U \ {x} \notin Bad /\ U \ {k} \notin Bad
      BY <2>2, <3>1
    <3> HIDE DEF Good
    <3>4. QED
      BY <3>2, <3>3
  <2>9. g[U \ {x}] = f[k] + g[(U \ {x}) \ {k}] /\ g[U \ {k}] = f[x] + g[(U \ {k}) \ {x}]
    BY <2>3, <2>5, <2>7, <2>8
  <2>10. (U \ {x}) \ {k} = (U \ {k}) \ {x}
    OBVIOUS
  <2>11. f[k] \in Nat /\ f[x] \in Nat /\ g[(U \ {x}) \ {k}] \in Nat
    BY <2>3, <2>4, <2>5
  <2>12. g[U] = f[k] + g[U \ {k}]
    <3> DEFINE rest == (U \ {x}) \ {k}
    <3>1. /\ g[U] = f[x] + g[U \ {x}] /\ g[U \ {x}] = f[k] + g[rest]
          /\ g[U \ {k}] = f[x] + g[rest]
      BY <2>6, <2>9, <2>10
    <3>2. f[k] \in Nat /\ f[x] \in Nat /\ g[rest] \in Nat
      BY <2>11
    <3> HIDE DEF rest
    <3>3. QED
      BY <3>1, <3>2
  <2>13. QED
    BY <2>3, <2>12
<1>2. QED
  BY <1>1 DEF AddsAny

(* A tally of the values of the chosen numbers up to each.                 *)
Summands(f, K, n) == n \in Nat /\ f \in [1..n -> Nat] /\ K \in SUBSET (1..n)
Tallies(tally, f, K, n) ==
    \A k \in 0..n : \E g : Adds(g, f, K \cap (1..k)) /\ tally[k] = g[K \cap (1..k)]
Steps(tally, f, K, n) ==
    /\ tally[0] = 0 /\ \A k \in 0..n : tally[k] \in Nat
    /\ \A k \in 1..n : tally[k] = tally[k - 1] + IF k \in K THEN f[k] ELSE 0

LEMMA TallySteps ==
    ASSUME NEW n, NEW f, NEW K, NEW tally, Summands(f, K, n), Tallies(tally, f, K, n)
    PROVE  Steps(tally, f, K, n)
<1>0. n \in Nat /\ f \in [1..n -> Nat] /\ K \in SUBSET (1..n)
  BY DEF Summands
<1> DEFINE upTo(k) == K \cap (1..k)
<1>1. IsFiniteSet(1..n)
  BY <1>0, FS_Interval
<1>2. PICK h : h \in [SUBSET (1..n) -> Nat] /\ Adds(h, f, 1..n)
  BY <1>0, <1>1, AddsExist
<1> DEFINE all == 1..n
<1>3. ASSUME NEW k \in 0..n PROVE upTo(k) \in SUBSET all /\ tally[k] = h[upTo(k)]
  <2>1. upTo(k) \in SUBSET all
    BY <1>0
  <2>2. PICK g : Adds(g, f, upTo(k)) /\ tally[k] = g[upTo(k)]
    BY DEF Tallies
  <2>3. IsFiniteSet(all) /\ Adds(h, f, all)
    BY <1>1, <1>2
  <2> HIDE DEF upTo, all
  <2>4. PICK T : T = upTo(k)
    OBVIOUS
  <2>5. T \in SUBSET all /\ Adds(g, f, T)
    BY <2>1, <2>2, <2>4
  <2>6. \A U \in SUBSET T : h[U] = g[U]
    BY <2>3, <2>5, AddsAgree
  <2>7. h[T] = g[T]
    BY <2>6
  <2>8. QED
    BY <2>1, <2>2, <2>4, <2>7
<1>4. \A k \in 0..n : tally[k] \in Nat
  <2> HIDE DEF upTo
  <2>1. QED
    BY <1>2, <1>3
<1>5. tally[0] = 0
  <2>1. upTo(0) = {} /\ 0 \in 0..n
    BY <1>0
  <2>2. h[{}] = 0
    BY <1>2 DEF Adds
  <2> HIDE DEF upTo
  <2>3. QED
    BY <1>3, <2>1, <2>2
<1>6. ASSUME NEW k \in 1..n PROVE tally[k] = tally[k - 1] + IF k \in K THEN f[k] ELSE 0
  <2>1. k \in 0..n /\ k - 1 \in 0..n
    BY <1>0
  <2>2. /\ k \in K => k \in upTo(k) /\ upTo(k) \ {k} = upTo(k - 1)
        /\ k \notin K => upTo(k) = upTo(k - 1)
    BY <1>0
  <2>3. f[k] \in Nat /\ IsFiniteSet(all) /\ Adds(h, f, all)
        /\ f \in [all -> Nat] /\ h \in [SUBSET all -> Nat]
    BY <1>0, <1>1, <1>2
  <2> HIDE DEF upTo, all
  <2>4. /\ tally[k] = h[upTo(k)] /\ tally[k - 1] = h[upTo(k - 1)]
        /\ upTo(k) \in SUBSET all /\ tally[k - 1] \in Nat
    BY <1>3, <1>4, <2>1
  <2>5. CASE k \in K
    <3>1. AddsAny(h, f, all)
      BY <2>3, AddsEach, Zenon
    <3>2. tally[k] = f[k] + tally[k - 1]
      <4>1. upTo(k) \in SUBSET all /\ k \in upTo(k)
        BY <2>2, <2>4, <2>5
      <4>2. h[upTo(k)] = f[k] + h[upTo(k) \ {k}]
        BY <3>1, <4>1 DEF AddsAny
      <4>3. QED
        BY <2>2, <2>4, <2>5, <4>2
    <3>3. QED
      BY <2>3, <2>4, <2>5, <3>2
  <2>6. CASE k \notin K
    BY <2>2, <2>4, <2>6
  <2>7. QED
    BY <2>5, <2>6
<1>7. QED
  BY <1>4, <1>5, <1>6 DEF Steps

(* The equation of the library's sum over T has a solution.                *)
Solvable(f, T) == \E h : Adds(h, f, T) /\ h = [U \in SUBSET T |-> h[U]]

LEMMA AddsSolve ==
    ASSUME NEW n, NEW f, NEW T, Summands(f, T, n)
    PROVE  Solvable(f, T)
<1>0. n \in Nat /\ f \in [1..n -> Nat] /\ T \in SUBSET (1..n)
  BY DEF Summands
<1>1. IsFiniteSet(1..n)
  BY <1>0, FS_Interval
<1>2. PICK h : h \in [SUBSET (1..n) -> Nat] /\ Adds(h, f, 1..n)
  BY <1>0, <1>1, AddsExist
<1> DEFINE rest == [U \in SUBSET T |-> h[U]]
<1>3. ASSUME NEW U \in SUBSET T
      PROVE  rest[U] = IF U = {} THEN 0 ELSE f[Any(U)] + rest[U \ {Any(U)}]
  <2>1. U \in SUBSET (1..n) /\ U \ {Any(U)} \in SUBSET T
    BY <1>0
  <2>2. h[U] = IF U = {} THEN 0 ELSE f[Any(U)] + h[U \ {Any(U)}]
    BY <1>2, <2>1 DEF Adds
  <2>3. QED
    BY <2>1, <2>2
<1>4. rest = [U \in SUBSET T |-> rest[U]]
  OBVIOUS
<1> HIDE DEF rest
<1>5. Adds(rest, f, T)
  BY <1>3 DEF Adds
<1>6. QED
  BY <1>4, <1>5 DEF Solvable

Events == [kind : {"none", "increase", "decrease", "collect"}, liquidity : Nat, amount : Nat]

(* What the first k events of a kind moved, in tokens and in liquidity.    *)
Paid(s, kind, k) ==
    Life!MapThenSumSet(LAMBDA b : s[b].amount, {b \in 1..k : s[b].kind = kind})
Moved(s, kind, k) ==
    Life!MapThenSumSet(LAMBDA b : s[b].liquidity, {b \in 1..k : s[b].kind = kind})
OfKind(s, kind, k) == {b \in 1..k : s[b].kind = kind}

LEMMA PaidIs ==
    ASSUME NEW s, NEW kind, NEW k
    PROVE  Paid(s, kind, k) =
             (CHOOSE g : g = [U \in SUBSET OfKind(s, kind, k) |->
                                IF U = {} THEN 0 ELSE s[Any(U)].amount + g[U \ {Any(U)}]])
                [OfKind(s, kind, k)]
BY DEF Paid, OfKind, Life!MapThenSumSet, Life!MapThenFoldSet, Any

LEMMA MovedIs ==
    ASSUME NEW s, NEW kind, NEW k
    PROVE  Moved(s, kind, k) =
             (CHOOSE g : g = [U \in SUBSET OfKind(s, kind, k) |->
                                IF U = {} THEN 0 ELSE s[Any(U)].liquidity + g[U \ {Any(U)}]])
                [OfKind(s, kind, k)]
BY DEF Moved, OfKind, Life!MapThenSumSet, Life!MapThenFoldSet, Any

LEMMA TotalsAre ==
    ASSUME NEW kind, NEW k
    PROVE  /\ Life!Total(kind, k) = Paid(blocks, kind, k)
           /\ Life!Supplied(k) = Moved(blocks, "increase", k)
           /\ Life!Removed(k) = Moved(blocks, "decrease", k)
BY DEF Life!Total, Paid, Moved, Life!Supplied, Life!Removed, Life!MapThenSumSet,
       Life!MapThenFoldSet

LEMMA EventTyped ==
    ASSUME NEW s \in Seq(Events), NEW i \in 1..Len(s)
    PROVE  /\ s[i] \in Events /\ s[i].amount \in Nat /\ s[i].liquidity \in Nat
           /\ s[i].kind \in {"none", "increase", "decrease", "collect"}
<1>1. s[i] \in Events
  OBVIOUS
<1>2. QED
  BY <1>1 DEF Events

(* Both are totals that each event of the kind adds to.                    *)
Totals(t, v, n) ==
    /\ t[0] = 0 /\ \A k \in 0..n : t[k] \in Nat
    /\ \A k \in 1..n : t[k] = t[k - 1] + v[k]

LEMMA PaidSteps ==
    ASSUME NEW s \in Seq(Events), NEW kind
    PROVE  Totals([k \in 0..Len(s) |-> Paid(s, kind, k)],
                  [k \in 1..Len(s) |-> IF s[k].kind = kind THEN s[k].amount ELSE 0], Len(s))
<1> DEFINE n == Len(s)
           f == [b \in 1..n |-> s[b].amount]
           K == OfKind(s, kind, n)
           tally == [k \in 0..n |-> Paid(s, kind, k)]
<1>1. n \in Nat /\ f \in [1..n -> Nat] /\ K \in SUBSET (1..n)
  BY EventTyped DEF OfKind
<1>2. ASSUME NEW k \in 0..n
      PROVE  \E g : Adds(g, f, K \cap (1..k)) /\ tally[k] = g[K \cap (1..k)]
  <2> DEFINE T == OfKind(s, kind, k)
             P(g) == g = [U \in SUBSET T |->
                            IF U = {} THEN 0 ELSE s[Any(U)].amount + g[U \ {Any(U)}]]
             g == CHOOSE x : P(x)
  <2>1. T = K \cap (1..k) /\ T \in SUBSET (1..n)
    BY <1>1 DEF OfKind
  <2>2. ASSUME NEW U \in SUBSET T, U # {} PROVE f[Any(U)] = s[Any(U)].amount
    BY <2>1, <2>2, AnyIsOne
  <2>3. PICK h : Adds(h, f, T) /\ h = [U \in SUBSET T |-> h[U]]
    <3>1. Summands(f, T, n)
      BY <1>1, <2>1 DEF Summands
    <3> HIDE DEF T, f, n, P
    <3>2. Solvable(f, T)
      BY <3>1, AddsSolve
    <3>3. QED
      BY <3>2, Zenon DEF Solvable
  <2>4. P(h)
    <3>1. ASSUME NEW U \in SUBSET T
          PROVE  h[U] = IF U = {} THEN 0 ELSE s[Any(U)].amount + h[U \ {Any(U)}]
      <4>1. h[U] = IF U = {} THEN 0 ELSE f[Any(U)] + h[U \ {Any(U)}]
        BY <2>3 DEF Adds
      <4> HIDE DEF f, T
      <4>2. QED
        BY <2>2, <4>1
    <3> HIDE DEF f, T
    <3>2. QED
      BY <2>3, <3>1
  <2>5. P(g)
    <3> HIDE DEF P
    <3>1. QED
      BY <2>4
  <2>6. Paid(s, kind, k) = g[T]
    BY PaidIs
  <2>7. Adds(g, f, T)
    <3>1. ASSUME NEW U \in SUBSET T
          PROVE  g[U] = IF U = {} THEN 0 ELSE f[Any(U)] + g[U \ {Any(U)}]
      <4> HIDE DEF g, f, T
      <4>1. g[U] = IF U = {} THEN 0 ELSE s[Any(U)].amount + g[U \ {Any(U)}]
        BY <2>5
      <4>2. QED
        BY <2>2, <4>1
    <3> HIDE DEF g, f, T
    <3>2. QED
      BY <3>1 DEF Adds
  <2>8. tally[k] = Paid(s, kind, k)
    OBVIOUS
  <2> HIDE DEF g, f, T, K, tally
  <2>9. QED
    BY <2>1, <2>6, <2>7, <2>8
<1>3. \A k \in 1..n : (k \in K <=> s[k].kind = kind) /\ f[k] = s[k].amount
  BY DEF OfKind
<1> DEFINE v == [k \in 1..n |-> IF s[k].kind = kind THEN s[k].amount ELSE 0]
<1>4. \A k \in 1..n : v[k] = IF s[k].kind = kind THEN s[k].amount ELSE 0
  OBVIOUS
<1> HIDE DEF n, f, K, tally, v
<1>5. Steps(tally, f, K, n)
  <2>1. Summands(f, K, n) /\ Tallies(tally, f, K, n)
    BY <1>1, <1>2 DEF Summands, Tallies
  <2>2. QED
    BY <2>1, TallySteps
<1>6. Totals(tally, v, n)
  BY <1>3, <1>4, <1>5 DEF Totals, Steps
<1>7. QED
  BY <1>6 DEF tally, v, n

LEMMA MovedSteps ==
    ASSUME NEW s \in Seq(Events), NEW kind
    PROVE  Totals([k \in 0..Len(s) |-> Moved(s, kind, k)],
                  [k \in 1..Len(s) |-> IF s[k].kind = kind THEN s[k].liquidity ELSE 0], Len(s))
<1> DEFINE n == Len(s)
           f == [b \in 1..n |-> s[b].liquidity]
           K == OfKind(s, kind, n)
           tally == [k \in 0..n |-> Moved(s, kind, k)]
<1>1. n \in Nat /\ f \in [1..n -> Nat] /\ K \in SUBSET (1..n)
  BY EventTyped DEF OfKind
<1>2. ASSUME NEW k \in 0..n
      PROVE  \E g : Adds(g, f, K \cap (1..k)) /\ tally[k] = g[K \cap (1..k)]
  <2> DEFINE T == OfKind(s, kind, k)
             P(g) == g = [U \in SUBSET T |->
                            IF U = {} THEN 0 ELSE s[Any(U)].liquidity + g[U \ {Any(U)}]]
             g == CHOOSE x : P(x)
  <2>1. T = K \cap (1..k) /\ T \in SUBSET (1..n)
    BY <1>1 DEF OfKind
  <2>2. ASSUME NEW U \in SUBSET T, U # {} PROVE f[Any(U)] = s[Any(U)].liquidity
    BY <2>1, <2>2, AnyIsOne
  <2>3. PICK h : Adds(h, f, T) /\ h = [U \in SUBSET T |-> h[U]]
    <3>1. Summands(f, T, n)
      BY <1>1, <2>1 DEF Summands
    <3> HIDE DEF T, f, n, P
    <3>2. Solvable(f, T)
      BY <3>1, AddsSolve
    <3>3. QED
      BY <3>2, Zenon DEF Solvable
  <2>4. P(h)
    <3>1. ASSUME NEW U \in SUBSET T
          PROVE  h[U] = IF U = {} THEN 0 ELSE s[Any(U)].liquidity + h[U \ {Any(U)}]
      <4>1. h[U] = IF U = {} THEN 0 ELSE f[Any(U)] + h[U \ {Any(U)}]
        BY <2>3 DEF Adds
      <4> HIDE DEF f, T
      <4>2. QED
        BY <2>2, <4>1
    <3> HIDE DEF f, T
    <3>2. QED
      BY <2>3, <3>1
  <2>5. P(g)
    <3> HIDE DEF P
    <3>1. QED
      BY <2>4
  <2>6. Moved(s, kind, k) = g[T]
    BY MovedIs
  <2>7. Adds(g, f, T)
    <3>1. ASSUME NEW U \in SUBSET T
          PROVE  g[U] = IF U = {} THEN 0 ELSE f[Any(U)] + g[U \ {Any(U)}]
      <4> HIDE DEF g, f, T
      <4>1. g[U] = IF U = {} THEN 0 ELSE s[Any(U)].liquidity + g[U \ {Any(U)}]
        BY <2>5
      <4>2. QED
        BY <2>2, <4>1
    <3> HIDE DEF g, f, T
    <3>2. QED
      BY <3>1 DEF Adds
  <2>8. tally[k] = Moved(s, kind, k)
    OBVIOUS
  <2> HIDE DEF g, f, T, K, tally
  <2>9. QED
    BY <2>1, <2>6, <2>7, <2>8
<1>3. \A k \in 1..n : (k \in K <=> s[k].kind = kind) /\ f[k] = s[k].liquidity
  BY DEF OfKind
<1> DEFINE v == [k \in 1..n |-> IF s[k].kind = kind THEN s[k].liquidity ELSE 0]
<1>4. \A k \in 1..n : v[k] = IF s[k].kind = kind THEN s[k].liquidity ELSE 0
  OBVIOUS
<1> HIDE DEF n, f, K, tally, v
<1>5. Steps(tally, f, K, n)
  <2>1. Summands(f, K, n) /\ Tallies(tally, f, K, n)
    BY <1>1, <1>2 DEF Summands, Tallies
  <2>2. QED
    BY <2>1, TallySteps
<1>6. Totals(tally, v, n)
  BY <1>3, <1>4, <1>5 DEF Totals, Steps
<1>7. QED
  BY <1>6 DEF tally, v, n

LEMMA PaidAre ==
    ASSUME NEW s \in Seq(Events), NEW kind
    PROVE  /\ Paid(s, kind, 0) = 0 /\ \A k \in 0..Len(s) : Paid(s, kind, k) \in Nat
           /\ \A k \in 1..Len(s) :
                 Paid(s, kind, k) =
                   Paid(s, kind, k - 1) + IF s[k].kind = kind THEN s[k].amount ELSE 0
<1> DEFINE t == [k \in 0..Len(s) |-> Paid(s, kind, k)]
           v == [k \in 1..Len(s) |-> IF s[k].kind = kind THEN s[k].amount ELSE 0]
<1>1. Totals(t, v, Len(s))
  BY PaidSteps
<1>2. /\ \A k \in 0..Len(s) : t[k] = Paid(s, kind, k)
      /\ \A k \in 1..Len(s) : v[k] = IF s[k].kind = kind THEN s[k].amount ELSE 0
  OBVIOUS
<1>3. 0 \in 0..Len(s) /\ \A k \in 1..Len(s) : k \in 0..Len(s) /\ k - 1 \in 0..Len(s)
  OBVIOUS
<1> HIDE DEF t, v
<1>4. QED
  BY <1>1, <1>2, <1>3 DEF Totals

LEMMA MovedAre ==
    ASSUME NEW s \in Seq(Events), NEW kind
    PROVE  /\ Moved(s, kind, 0) = 0 /\ \A k \in 0..Len(s) : Moved(s, kind, k) \in Nat
           /\ \A k \in 1..Len(s) :
                 Moved(s, kind, k) =
                   Moved(s, kind, k - 1) + IF s[k].kind = kind THEN s[k].liquidity ELSE 0
<1> DEFINE t == [k \in 0..Len(s) |-> Moved(s, kind, k)]
           v == [k \in 1..Len(s) |-> IF s[k].kind = kind THEN s[k].liquidity ELSE 0]
<1>1. Totals(t, v, Len(s))
  BY MovedSteps
<1>2. /\ \A k \in 0..Len(s) : t[k] = Moved(s, kind, k)
      /\ \A k \in 1..Len(s) : v[k] = IF s[k].kind = kind THEN s[k].liquidity ELSE 0
  OBVIOUS
<1>3. 0 \in 0..Len(s) /\ \A k \in 1..Len(s) : k \in 0..Len(s) /\ k - 1 \in 0..Len(s)
  OBVIOUS
<1> HIDE DEF t, v
<1>4. QED
  BY <1>1, <1>2, <1>3 DEF Totals

(* A total over what was mined before is not changed by what comes.        *)
LEMMA TotalsStay ==
    ASSUME NEW s \in Seq(Events), NEW e \in Events, NEW kind
    PROVE  \A k \in 0..Len(s) : /\ Paid(Append(s, e), kind, k) = Paid(s, kind, k)
                                /\ Moved(Append(s, e), kind, k) = Moved(s, kind, k)
<1> DEFINE t == Append(s, e)
           n == Len(s)
           Good == {k \in 0..n : /\ Paid(t, kind, k) = Paid(s, kind, k)
                                 /\ Moved(t, kind, k) = Moved(s, kind, k)}
<1>1. t \in Seq(Events) /\ n \in Nat /\ Len(t) = n + 1 /\ \A k \in 1..n : t[k] = s[k]
  OBVIOUS
<1> HIDE DEF t
<1>2. 0 \in Good
  <2>1. Paid(t, kind, 0) = 0 /\ Paid(s, kind, 0) = 0 /\ Moved(t, kind, 0) = 0 /\ Moved(s, kind, 0) = 0
    BY <1>1, PaidAre, MovedAre
  <2>2. QED
    BY <1>1, <2>1
<1>3. ASSUME NEW k \in 1..n, k - 1 \in Good PROVE k \in Good
  <2>1. k \in 1..Len(t) /\ k \in 1..Len(s) /\ t[k] = s[k]
    BY <1>1
  <2>2. /\ Paid(t, kind, k) =
             Paid(t, kind, k - 1) + IF t[k].kind = kind THEN t[k].amount ELSE 0
        /\ Paid(s, kind, k) =
             Paid(s, kind, k - 1) + IF s[k].kind = kind THEN s[k].amount ELSE 0
    BY <1>1, <2>1, PaidAre
  <2>3. /\ Moved(t, kind, k) =
             Moved(t, kind, k - 1) + IF t[k].kind = kind THEN t[k].liquidity ELSE 0
        /\ Moved(s, kind, k) =
             Moved(s, kind, k - 1) + IF s[k].kind = kind THEN s[k].liquidity ELSE 0
    BY <1>1, <2>1, MovedAre
  <2>4. QED
    BY <1>1, <1>3, <2>1, <2>2, <2>3
<1>4. \A k \in 0..n : k \in Good
  <2> HIDE DEF Good
  <2>1. QED
    BY <1>1, <1>2, <1>3, CountsUp
<1>5. QED
  BY <1>4 DEF t

(* What one event adds to what the chain owes an account.                  *)
Openings == [named : BOOLEAN, basis : BOOLEAN]
Accounts == [capital : Nat, proceeds : Nat, fees : Nat, pending : Nat, liquidity : Nat,
             counted : BOOLEAN, collected : BOOLEAN, emptied : BOOLEAN, valued : BOOLEAN]

(* Liquidity never leaves that is not there, and comes before all else.    *)
Orderly(s) ==
    /\ Len(s) > 0 => s[1].kind = "increase"
    /\ \A k \in 0..Len(s) : Moved(s, "decrease", k) <= Moved(s, "increase", k)

(* The sums after k events are those of the chain.                         *)
AccountOK(acc, k, opening) ==
    /\ acc \in Accounts
    /\ acc.liquidity + Moved(blocks, "decrease", k) = Moved(blocks, "increase", k)
    /\ acc.counted <=> (k > 0 /\ opening.named /\ opening.basis)
    /\ acc.valued =>
          /\ acc.proceeds = Paid(blocks, "collect", k)
          /\ acc.fees + Paid(blocks, "decrease", k) = Paid(blocks, "collect", k) + acc.pending
          /\ opening.named \/ ~opening.basis => acc.capital = Paid(blocks, "increase", k)

(* Of one event each total takes what is of its kind.                      *)
LEMMA OneEvent ==
    ASSUME blocks \in Seq(Events), NEW i \in 1..Len(blocks), NEW kind
    PROVE  /\ Paid(blocks, kind, i - 1) \in Nat /\ Moved(blocks, kind, i - 1) \in Nat
           /\ Paid(blocks, kind, i) =
                Paid(blocks, kind, i - 1) + IF blocks[i].kind = kind THEN blocks[i].amount ELSE 0
           /\ Moved(blocks, kind, i) =
                Moved(blocks, kind, i - 1) + IF blocks[i].kind = kind THEN blocks[i].liquidity ELSE 0
<1>1. PICK s : s = blocks
  OBVIOUS
<1>2. s \in Seq(Events) /\ i \in 1..Len(s) /\ i - 1 \in 0..Len(s)
  BY <1>1
<1>3. /\ Paid(s, kind, i - 1) \in Nat /\ Moved(s, kind, i - 1) \in Nat
      /\ Paid(s, kind, i) = Paid(s, kind, i - 1) + IF s[i].kind = kind THEN s[i].amount ELSE 0
      /\ Moved(s, kind, i) = Moved(s, kind, i - 1) + IF s[i].kind = kind THEN s[i].liquidity ELSE 0
  <2>1. /\ Paid(s, kind, i - 1) \in Nat
        /\ Paid(s, kind, i) = Paid(s, kind, i - 1) + IF s[i].kind = kind THEN s[i].amount ELSE 0
    BY <1>2, PaidAre
  <2>2. /\ Moved(s, kind, i - 1) \in Nat
        /\ Moved(s, kind, i) =
             Moved(s, kind, i - 1) + IF s[i].kind = kind THEN s[i].liquidity ELSE 0
    BY <1>2, MovedAre
  <2>3. QED
    BY <2>1, <2>2
<1>4. QED
  BY <1>1, <1>3

LEMMA BooksStayEven ==
    ASSUME NEW f \in Nat, NEW d \in Nat, NEW c \in Nat, NEW p \in Nat, NEW a \in Nat,
           f + d = c + p
    PROVE  f + (d + a) = c + (p + a) /\ \A q \in Nat : (f + (a - q)) + d = (c + a) + (p - q)
OBVIOUS

LEMMA IncreaseAdds ==
    ASSUME blocks \in Seq(Events), Orderly(blocks), NEW opening \in Openings, NEW marks,
           NEW i \in 1..Len(blocks), job.events[i] = blocks[i], blocks[i].kind = "increase",
           Life!Basis = blocks[1].amount, NEW acc, AccountOK(acc, i - 1, opening)
    PROVE  AccountOK(Life!Increased(acc, i, marks, opening), i, opening)
<1> DEFINE new == Life!Increased(acc, i, marks, opening)
           amount == blocks[i].amount
           liquidity == blocks[i].liquidity
           paid(kind) == Paid(blocks, kind, i - 1)
           moved(kind) == Moved(blocks, kind, i - 1)
<1>1. /\ paid("increase") \in Nat /\ moved("increase") \in Nat
      /\ paid("decrease") \in Nat /\ moved("decrease") \in Nat /\ paid("collect") \in Nat
      /\ Paid(blocks, "increase", i) = paid("increase") + amount
      /\ Paid(blocks, "decrease", i) = paid("decrease") /\ Paid(blocks, "collect", i) = paid("collect")
      /\ Moved(blocks, "increase", i) = moved("increase") + liquidity
      /\ Moved(blocks, "decrease", i) = moved("decrease")
  <2>1. /\ paid("increase") \in Nat /\ Paid(blocks, "increase", i) = paid("increase") + amount
        /\ moved("increase") \in Nat
        /\ Moved(blocks, "increase", i) = moved("increase") + liquidity
    BY OneEvent
  <2>2. /\ paid("decrease") \in Nat /\ Paid(blocks, "decrease", i) = paid("decrease") + 0
        /\ moved("decrease") \in Nat /\ Moved(blocks, "decrease", i) = moved("decrease") + 0
    BY OneEvent
  <2>3. paid("collect") \in Nat /\ Paid(blocks, "collect", i) = paid("collect") + 0
    BY OneEvent
  <2> HIDE DEF amount, liquidity, paid, moved
  <2>4. QED
    BY <2>1, <2>2, <2>3
<1>2. amount \in Nat /\ liquidity \in Nat /\ i \in Nat /\ i > 0
  BY EventTyped
<1>3. /\ acc \in Accounts /\ acc.liquidity + moved("decrease") = moved("increase")
      /\ acc.counted <=> (i - 1 > 0 /\ opening.named /\ opening.basis)
      /\ acc.valued =>
            /\ acc.proceeds = paid("collect")
            /\ acc.fees + paid("decrease") = paid("collect") + acc.pending
            /\ opening.named \/ ~opening.basis => acc.capital = paid("increase")
  BY DEF AccountOK
<1>4. opening.named \in BOOLEAN /\ opening.basis \in BOOLEAN
  BY DEF Openings
<1>5. Life!Event(i) = blocks[i]
  BY DEF Life!Event
<1> DEFINE grown == [acc EXCEPT !.liquidity = @ + liquidity]
           first == ~acc.counted /\ opening.named /\ i = 1 /\ opening.basis
<1>6. new = IF first THEN [grown EXCEPT !.capital = @ + Life!Basis, !.counted = TRUE]
            ELSE IF Life!Valued(i, marks) THEN [grown EXCEPT !.capital = @ + amount]
            ELSE [grown EXCEPT !.valued = FALSE]
  BY <1>5 DEF Life!Increased
<1> HIDE DEF new, amount, liquidity, paid, moved
<1>7. CASE first
  <2>1. Life!Basis = amount
    BY <1>7 DEF amount
  <2>2. /\ new \in Accounts /\ new.liquidity = acc.liquidity + liquidity
        /\ new.capital = acc.capital + amount /\ new.counted /\ (new.valued <=> acc.valued)
        /\ new.proceeds = acc.proceeds /\ new.fees = acc.fees /\ new.pending = acc.pending
    <3>1. new = [acc EXCEPT !.liquidity = acc.liquidity + liquidity,
                            !.capital = acc.capital + amount, !.counted = TRUE]
      BY <1>3, <1>6, <1>7, <2>1 DEF Accounts
    <3>2. acc.liquidity + liquidity \in Nat /\ acc.capital + amount \in Nat
      BY <1>2, <1>3 DEF Accounts
    <3>3. PICK a, b : a = acc.liquidity + liquidity /\ b = acc.capital + amount
      OBVIOUS
    <3>4. new = [acc EXCEPT !.liquidity = a, !.capital = b, !.counted = TRUE] /\ a \in Nat /\ b \in Nat
      BY <3>1, <3>2, <3>3
    <3>5. QED
      BY <1>3, <3>3, <3>4 DEF Accounts
  <2>3. acc.liquidity \in Nat /\ acc.capital \in Nat /\ acc.fees \in Nat /\ acc.pending \in Nat
    BY <1>3 DEF Accounts
  <2> HIDE DEF first
  <2>4. new.liquidity + moved("decrease") = moved("increase") + liquidity
    BY <1>1, <1>2, <1>3, <2>2, <2>3
  <2>5. new.counted <=> (i > 0 /\ opening.named /\ opening.basis)
    BY <1>2, <1>7, <2>2 DEF first
  <2>6. new.valued =>
            /\ new.proceeds = paid("collect")
            /\ new.fees + paid("decrease") = paid("collect") + new.pending
            /\ opening.named \/ ~opening.basis => new.capital = paid("increase") + amount
    BY <1>3, <2>2
  <2>7. QED
    BY <1>1, <2>2, <2>4, <2>5, <2>6 DEF AccountOK, new
<1>8. CASE ~first
  <2>1. /\ new \in Accounts /\ new.liquidity = acc.liquidity + liquidity
        /\ (new.counted <=> acc.counted)
        /\ new.valued => acc.valued /\ new.capital = acc.capital + amount
        /\ new.proceeds = acc.proceeds /\ new.fees = acc.fees /\ new.pending = acc.pending
    <3> HIDE DEF first
    <3>1. PICK a, b : a = acc.liquidity + liquidity /\ b = acc.capital + amount
      OBVIOUS
    <3>2. a \in Nat /\ b \in Nat
      BY <1>2, <1>3, <3>1 DEF Accounts
    <3>3. CASE Life!Valued(i, marks)
      <4>1. new = [acc EXCEPT !.liquidity = a, !.capital = b]
        BY <1>3, <1>6, <1>8, <3>1, <3>3 DEF Accounts
      <4>2. QED
        BY <1>3, <3>1, <3>2, <4>1 DEF Accounts
    <3>4. CASE ~Life!Valued(i, marks)
      <4>1. new = [acc EXCEPT !.liquidity = a, !.valued = FALSE]
        BY <1>3, <1>6, <1>8, <3>1, <3>4 DEF Accounts
      <4>2. QED
        BY <1>3, <3>1, <3>2, <4>1 DEF Accounts
    <3>5. QED
      BY <3>3, <3>4
  <2>2. acc.liquidity \in Nat /\ acc.capital \in Nat /\ acc.fees \in Nat /\ acc.pending \in Nat
        /\ acc.counted \in BOOLEAN
    BY <1>3 DEF Accounts
  <2>3. new.counted <=> (i > 0 /\ opening.named /\ opening.basis)
    BY <1>2, <1>3, <1>4, <1>8, <2>1, <2>2
  <2> HIDE DEF first
  <2>4. new.liquidity + moved("decrease") = moved("increase") + liquidity
    BY <1>1, <1>2, <1>3, <2>1, <2>2
  <2>5. new.valued =>
            /\ new.proceeds = paid("collect")
            /\ new.fees + paid("decrease") = paid("collect") + new.pending
            /\ opening.named \/ ~opening.basis => new.capital = paid("increase") + amount
    BY <1>3, <2>1
  <2>6. QED
    BY <1>1, <2>1, <2>3, <2>4, <2>5 DEF AccountOK, new
<1>9. QED
  BY <1>7, <1>8

LEMMA DecreaseAdds ==
    ASSUME blocks \in Seq(Events), Orderly(blocks), NEW opening \in Openings, NEW marks,
           NEW i \in 1..Len(blocks), job.events[i] = blocks[i], blocks[i].kind = "decrease",
           NEW acc, AccountOK(acc, i - 1, opening)
    PROVE  AccountOK(Life!Decreased(acc, i), i, opening)
<1> DEFINE new == Life!Decreased(acc, i)
           amount == blocks[i].amount
           liquidity == blocks[i].liquidity
           paid(kind) == Paid(blocks, kind, i - 1)
           moved(kind) == Moved(blocks, kind, i - 1)
<1>1. /\ paid("increase") \in Nat /\ moved("increase") \in Nat
      /\ paid("decrease") \in Nat /\ moved("decrease") \in Nat /\ paid("collect") \in Nat
      /\ Paid(blocks, "increase", i) = paid("increase")
      /\ Moved(blocks, "increase", i) = moved("increase")
      /\ Paid(blocks, "decrease", i) = paid("decrease") + amount
      /\ Paid(blocks, "collect", i) = paid("collect")
      /\ Moved(blocks, "decrease", i) = moved("decrease") + liquidity
  <2>1. /\ paid("increase") \in Nat /\ Paid(blocks, "increase", i) = paid("increase") + 0
        /\ moved("increase") \in Nat /\ Moved(blocks, "increase", i) = moved("increase") + 0
    BY OneEvent
  <2>2. /\ paid("decrease") \in Nat
        /\ Paid(blocks, "decrease", i) = paid("decrease") + amount
        /\ moved("decrease") \in Nat
        /\ Moved(blocks, "decrease", i) = moved("decrease") + liquidity
    BY OneEvent
  <2>3. /\ paid("collect") \in Nat
        /\ Paid(blocks, "collect", i) = paid("collect") + 0
    BY OneEvent
  <2> HIDE DEF amount, liquidity, paid, moved
  <2>4. QED
    BY <2>1, <2>2, <2>3
<1>2. amount \in Nat /\ liquidity \in Nat /\ i - 1 \in Nat /\ i - 1 > 0
  <2>1. i # 1
    BY DEF Orderly
  <2>2. QED
    BY <2>1, EventTyped
<1>3. /\ acc \in Accounts /\ acc.liquidity + moved("decrease") = moved("increase")
      /\ acc.counted <=> (i - 1 > 0 /\ opening.named /\ opening.basis)
      /\ acc.valued =>
            /\ acc.proceeds = paid("collect")
            /\ acc.fees + paid("decrease") = paid("collect") + acc.pending
            /\ opening.named \/ ~opening.basis => acc.capital = paid("increase")
  BY DEF AccountOK
<1>4. Life!Event(i) = blocks[i] /\ i > 0
  BY DEF Life!Event
<1>5. moved("decrease") + liquidity <= moved("increase")
  <2>1. Moved(blocks, "decrease", i) <= Moved(blocks, "increase", i)
    BY DEF Orderly
  <2> HIDE DEF moved, liquidity, paid, amount
  <2>2. QED
    BY <1>1, <2>1
<1> DEFINE left == Life!Larger(0, acc.liquidity - liquidity)
           emptied == acc.emptied \/ (acc.liquidity > 0 /\ left = 0)
<1>6. new = [acc EXCEPT !.liquidity = left, !.emptied = emptied, !.pending = @ + amount]
  <2> HIDE DEF moved, paid
  <2>1. QED
    BY <1>4 DEF Life!Decreased
<1> HIDE DEF new, amount, liquidity, paid, moved
<1>7. acc.liquidity \in Nat /\ acc.pending \in Nat /\ acc.fees \in Nat
      /\ acc.liquidity + moved("decrease") = moved("increase")
  BY <1>3 DEF Accounts
<1>8. left = acc.liquidity - liquidity /\ left \in Nat
  <2>1. acc.liquidity - liquidity \in Nat
    BY <1>1, <1>2, <1>5, <1>7
  <2>2. QED
    BY <2>1 DEF Life!Larger
<1>9. emptied \in BOOLEAN
  BY <1>3 DEF Accounts
<1> HIDE DEF left, emptied
<1>10. /\ new \in Accounts /\ new.liquidity = left /\ new.pending = acc.pending + amount
       /\ new.capital = acc.capital /\ new.proceeds = acc.proceeds /\ new.fees = acc.fees
       /\ (new.counted <=> acc.counted) /\ (new.valued <=> acc.valued)
  <2>1. PICK b, e : b = acc.pending + amount /\ e = emptied
    OBVIOUS
  <2>2. b \in Nat /\ e \in BOOLEAN
    BY <1>2, <1>7, <1>9, <2>1
  <2>3. new = [acc EXCEPT !.liquidity = left, !.emptied = e, !.pending = b]
    BY <1>3, <1>6, <2>1 DEF Accounts
  <2>4. QED
    BY <1>3, <1>8, <2>1, <2>2, <2>3 DEF Accounts
<1>11. new.liquidity + (moved("decrease") + liquidity) = moved("increase")
  <2>1. new.liquidity = acc.liquidity - liquidity
    BY <1>8, <1>10
  <2>2. QED
    BY <1>1, <1>2, <1>7, <2>1
<1>12. new.counted <=> (i > 0 /\ opening.named /\ opening.basis)
  BY <1>2, <1>3, <1>4, <1>10
<1>13. new.valued =>
          /\ new.proceeds = paid("collect")
          /\ new.fees + (paid("decrease") + amount) = paid("collect") + new.pending
          /\ opening.named \/ ~opening.basis => new.capital = paid("increase")
  <2>1. acc.valued => acc.fees + (paid("decrease") + amount) = paid("collect") + (acc.pending + amount)
    <3>1. acc.fees + paid("decrease") = paid("collect") + acc.pending =>
            acc.fees + (paid("decrease") + amount) = paid("collect") + (acc.pending + amount)
      <4>1. /\ acc.fees \in Nat /\ paid("decrease") \in Nat /\ paid("collect") \in Nat
            /\ acc.pending \in Nat /\ amount \in Nat
        BY <1>1, <1>2, <1>7
      <4>2. PICK f, d, c, p, a :
               /\ f = acc.fees /\ d = paid("decrease") /\ c = paid("collect")
               /\ p = acc.pending /\ a = amount
        OBVIOUS
      <4>3. f \in Nat /\ d \in Nat /\ c \in Nat /\ p \in Nat /\ a \in Nat
        BY <4>1, <4>2
      <4>4. f + d = c + p => f + (d + a) = c + (p + a)
        BY <4>3, BooksStayEven
      <4>5. QED
        BY <4>2, <4>4
    <3>2. QED
      BY <1>3, <3>1, Zenon
  <2>2. QED
    BY <1>3, <1>10, <2>1
<1>14. QED
  BY <1>1, <1>10, <1>11, <1>12, <1>13 DEF AccountOK, new

LEMMA CollectAdds ==
    ASSUME blocks \in Seq(Events), Orderly(blocks), NEW opening \in Openings, NEW marks,
           NEW i \in 1..Len(blocks), job.events[i] = blocks[i], blocks[i].kind = "collect",
           NEW acc, AccountOK(acc, i - 1, opening)
    PROVE  AccountOK(Life!Collected(acc, i, marks), i, opening)
<1> DEFINE new == Life!Collected(acc, i, marks)
           amount == blocks[i].amount
           liquidity == blocks[i].liquidity
           paid(kind) == Paid(blocks, kind, i - 1)
           moved(kind) == Moved(blocks, kind, i - 1)
<1>1. /\ paid("increase") \in Nat /\ moved("increase") \in Nat
      /\ paid("decrease") \in Nat /\ moved("decrease") \in Nat /\ paid("collect") \in Nat
      /\ Paid(blocks, "increase", i) = paid("increase")
      /\ Moved(blocks, "increase", i) = moved("increase")
      /\ Paid(blocks, "decrease", i) = paid("decrease")
      /\ Paid(blocks, "collect", i) = paid("collect") + amount
      /\ Moved(blocks, "decrease", i) = moved("decrease")
  <2>1. /\ paid("increase") \in Nat /\ Paid(blocks, "increase", i) = paid("increase") + 0
        /\ moved("increase") \in Nat /\ Moved(blocks, "increase", i) = moved("increase") + 0
    BY OneEvent
  <2>2. /\ paid("decrease") \in Nat
        /\ Paid(blocks, "decrease", i) = paid("decrease") + 0
        /\ moved("decrease") \in Nat
        /\ Moved(blocks, "decrease", i) = moved("decrease") + 0
    BY OneEvent
  <2>3. /\ paid("collect") \in Nat
        /\ Paid(blocks, "collect", i) = paid("collect") + amount
    BY OneEvent
  <2> HIDE DEF amount, liquidity, paid, moved
  <2>4. QED
    BY <2>1, <2>2, <2>3
<1>2. amount \in Nat /\ liquidity \in Nat /\ i - 1 \in Nat /\ i - 1 > 0
  <2>1. i # 1
    BY DEF Orderly
  <2>2. QED
    BY <2>1, EventTyped
<1>3. /\ acc \in Accounts /\ acc.liquidity + moved("decrease") = moved("increase")
      /\ acc.counted <=> (i - 1 > 0 /\ opening.named /\ opening.basis)
      /\ acc.valued =>
            /\ acc.proceeds = paid("collect")
            /\ acc.fees + paid("decrease") = paid("collect") + acc.pending
            /\ opening.named \/ ~opening.basis => acc.capital = paid("increase")
  BY DEF AccountOK
<1>4. Life!Event(i) = blocks[i] /\ i > 0
  BY DEF Life!Event
<1> DEFINE principal == Life!Smaller(amount, acc.pending)
           priced == Life!Valued(i, marks)
<1>5. new = [acc EXCEPT !.collected = TRUE, !.pending = @ - principal, !.valued = @ /\ priced,
                        !.proceeds = @ + (IF priced THEN amount ELSE 0),
                        !.fees = @ + (IF priced THEN amount - principal ELSE 0)]
  <2> HIDE DEF moved, paid
  <2>1. QED
    BY <1>4 DEF Life!Collected
<1> HIDE DEF new, amount, liquidity, paid, moved, priced
<1>6. acc.liquidity \in Nat /\ acc.pending \in Nat /\ acc.fees \in Nat /\ acc.proceeds \in Nat
  BY <1>3 DEF Accounts
<1>7. principal \in Nat /\ principal <= amount /\ principal <= acc.pending
  BY <1>2, <1>6 DEF Life!Smaller
<1> HIDE DEF principal
<1>8. /\ new \in Accounts /\ new.liquidity = acc.liquidity /\ new.pending = acc.pending - principal
      /\ new.capital = acc.capital /\ (new.counted <=> acc.counted)
      /\ new.valued => /\ acc.valued /\ new.proceeds = acc.proceeds + amount
                       /\ new.fees = acc.fees + (amount - principal)
  <2>0. PICK a, b, c : /\ a = acc.pending - principal
                       /\ b = acc.proceeds + (IF priced THEN amount ELSE 0)
                       /\ c = acc.fees + (IF priced THEN amount - principal ELSE 0)
    OBVIOUS
  <2>1. PICK v : v = (acc.valued /\ priced)
    OBVIOUS
  <2>2. a \in Nat /\ b \in Nat /\ c \in Nat
    <3>1. acc.pending - principal \in Nat /\ amount - principal \in Nat
      BY <1>2, <1>6, <1>7
    <3>2. acc.proceeds + amount \in Nat /\ acc.fees + (amount - principal) \in Nat
      BY <1>2, <1>6, <3>1
    <3>3. acc.proceeds + 0 \in Nat /\ acc.fees + 0 \in Nat
      BY <1>6
    <3>4. b = (IF priced THEN acc.proceeds + amount ELSE acc.proceeds + 0)
      BY <2>0
    <3>5. c = (IF priced THEN acc.fees + (amount - principal) ELSE acc.fees + 0)
      BY <2>0
    <3>6. QED
      BY <2>0, <3>1, <3>2, <3>3, <3>4, <3>5
  <2>3. v \in BOOLEAN
    BY <2>1
  <2>4. new = [acc EXCEPT !.collected = TRUE, !.pending = a, !.valued = v, !.proceeds = b, !.fees = c]
    BY <1>3, <1>5, <2>0, <2>1 DEF Accounts
  <2>5. /\ new \in Accounts /\ new.liquidity = acc.liquidity /\ new.pending = a
        /\ new.capital = acc.capital /\ (new.counted <=> acc.counted) /\ new.proceeds = b
        /\ new.fees = c
    BY <1>3, <2>2, <2>3, <2>4 DEF Accounts
  <2>6. new.valued <=> v
    BY <1>3, <2>4 DEF Accounts
  <2>7. v => acc.valued /\ priced
    BY <2>1
  <2>8. QED
    BY <2>0, <2>5, <2>6, <2>7
<1>9. new.counted <=> (i > 0 /\ opening.named /\ opening.basis)
  BY <1>2, <1>3, <1>4, <1>8
<1>10. new.valued =>
          /\ new.proceeds = paid("collect") + amount
          /\ new.fees + paid("decrease") = (paid("collect") + amount) + new.pending
          /\ opening.named \/ ~opening.basis => new.capital = paid("increase")
  <2>1. acc.valued => (acc.fees + (amount - principal)) + paid("decrease")
                         = (paid("collect") + amount) + (acc.pending - principal)
    <3>1. acc.fees + paid("decrease") = paid("collect") + acc.pending =>
            (acc.fees + (amount - principal)) + paid("decrease")
              = (paid("collect") + amount) + (acc.pending - principal)
      <4>1. /\ acc.fees \in Nat /\ paid("decrease") \in Nat /\ paid("collect") \in Nat
            /\ acc.pending \in Nat /\ amount \in Nat /\ principal \in Nat
        BY <1>1, <1>2, <1>6, <1>7
      <4>2. PICK f, d, c, p, a, q :
               /\ f = acc.fees /\ d = paid("decrease") /\ c = paid("collect")
               /\ p = acc.pending /\ a = amount /\ q = principal
        OBVIOUS
      <4>3. f \in Nat /\ d \in Nat /\ c \in Nat /\ p \in Nat /\ a \in Nat /\ q \in Nat
        BY <4>1, <4>2
      <4>4. f + d = c + p => (f + (a - q)) + d = (c + a) + (p - q)
        BY <4>3, BooksStayEven
      <4>5. QED
        BY <4>2, <4>4
    <3>2. QED
      BY <1>3, <3>1, Zenon
  <2>2. QED
    BY <1>3, <1>8, <2>1
<1>11. QED
  BY <1>1, <1>3, <1>8, <1>9, <1>10 DEF AccountOK, new

LEMMA NothingAdds ==
    ASSUME blocks \in Seq(Events), Orderly(blocks), NEW opening \in Openings,
           NEW i \in 1..Len(blocks), blocks[i].kind = "none",
           NEW acc, AccountOK(acc, i - 1, opening)
    PROVE  AccountOK(acc, i, opening)
<1>1. /\ Moved(blocks, "increase", i) = Moved(blocks, "increase", i - 1)
      /\ Moved(blocks, "decrease", i) = Moved(blocks, "decrease", i - 1)
  <2>1. /\ Moved(blocks, "increase", i - 1) \in Nat /\ Moved(blocks, "decrease", i - 1) \in Nat
        /\ Moved(blocks, "increase", i) = Moved(blocks, "increase", i - 1) + 0
        /\ Moved(blocks, "decrease", i) = Moved(blocks, "decrease", i - 1) + 0
    BY OneEvent
  <2>2. QED
    BY <2>1
<1>2. /\ Paid(blocks, "increase", i) = Paid(blocks, "increase", i - 1)
      /\ Paid(blocks, "decrease", i) = Paid(blocks, "decrease", i - 1)
      /\ Paid(blocks, "collect", i) = Paid(blocks, "collect", i - 1)
  <2>1. /\ Paid(blocks, "increase", i - 1) \in Nat /\ Paid(blocks, "decrease", i - 1) \in Nat
        /\ Paid(blocks, "collect", i - 1) \in Nat
        /\ Paid(blocks, "increase", i) = Paid(blocks, "increase", i - 1) + 0
        /\ Paid(blocks, "decrease", i) = Paid(blocks, "decrease", i - 1) + 0
        /\ Paid(blocks, "collect", i) = Paid(blocks, "collect", i - 1) + 0
    BY OneEvent
  <2>2. QED
    BY <2>1
<1>3. i - 1 > 0 /\ i > 0
  <2>1. i # 1
    BY DEF Orderly
  <2>2. QED
    BY <2>1
<1>4. QED
  BY <1>1, <1>2, <1>3, Zenon DEF AccountOK

LEMMA AddedKeeps ==
    ASSUME blocks \in Seq(Events), Orderly(blocks), NEW opening \in Openings, NEW marks,
           NEW i \in 1..Len(blocks), job.events[i] = blocks[i],
           Life!Basis = blocks[1].amount, NEW acc, AccountOK(acc, i - 1, opening)
    PROVE  AccountOK(Life!Added(acc, i, marks, opening), i, opening)
<1>1. Life!Event(i) = blocks[i]
  BY DEF Life!Event
<1>2. blocks[i].kind \in {"none", "increase", "decrease", "collect"}
  BY EventTyped
<1>3. CASE blocks[i].kind = "increase"
  <2>1. Life!Added(acc, i, marks, opening) = Life!Increased(acc, i, marks, opening)
    BY <1>1, <1>3 DEF Life!Added
  <2>2. QED
    BY <1>3, <2>1, IncreaseAdds
<1>4. CASE blocks[i].kind = "decrease"
  <2>1. Life!Added(acc, i, marks, opening) = Life!Decreased(acc, i)
    BY <1>1, <1>4 DEF Life!Added
  <2>2. QED
    BY <1>4, <2>1, DecreaseAdds
<1>5. CASE blocks[i].kind = "collect"
  <2>1. Life!Added(acc, i, marks, opening) = Life!Collected(acc, i, marks)
    BY <1>1, <1>5 DEF Life!Added
  <2>2. QED
    BY <1>5, <2>1, CollectAdds
<1>6. CASE blocks[i].kind = "none"
  <2>1. Life!Added(acc, i, marks, opening) = acc
    BY <1>1, <1>6 DEF Life!Added
  <2>2. QED
    BY <1>6, <2>1, NothingAdds
<1>7. QED
  BY <1>2, <1>3, <1>4, <1>5, <1>6

LEMMA AddedTyped ==
    ASSUME NEW opening \in Openings, NEW marks, NEW i, job.events[i] \in Events,
           Life!Basis \in Nat, NEW acc \in Accounts
    PROVE  Life!Added(acc, i, marks, opening) \in Accounts
<1> DEFINE e == Life!Event(i)
<1>1. e \in Events
  BY DEF Life!Event
<1> HIDE DEF e
<1>2. /\ e.kind \in {"none", "increase", "decrease", "collect"} /\ e.amount \in Nat
      /\ e.liquidity \in Nat /\ acc.capital \in Nat /\ acc.proceeds \in Nat /\ acc.fees \in Nat
      /\ acc.pending \in Nat /\ acc.liquidity \in Nat
  BY <1>1 DEF Events, Accounts
<1>3. CASE e.kind = "increase"
  <2> DEFINE new == Life!Increased(acc, i, marks, opening)
  <2>1. PICK a, b, c : /\ a = acc.liquidity + e.liquidity /\ b = acc.capital + Life!Basis
                       /\ c = acc.capital + e.amount
    OBVIOUS
  <2>2. a \in Nat /\ b \in Nat /\ c \in Nat
    BY <1>2, <2>1
  <2>3. \/ new = [acc EXCEPT !.liquidity = a, !.capital = b, !.counted = TRUE]
        \/ new = [acc EXCEPT !.liquidity = a, !.capital = c]
        \/ new = [acc EXCEPT !.liquidity = a, !.valued = FALSE]
    BY <2>1 DEF Life!Increased, e, Accounts
  <2> HIDE DEF new
  <2>4. new \in Accounts
    BY <2>2, <2>3 DEF Accounts
  <2>5. QED
    BY <1>3, <2>4 DEF new, e, Life!Added
<1>4. CASE e.kind = "decrease"
  <2> DEFINE new == Life!Decreased(acc, i)
  <2>1. PICK a, b, c : /\ a = Life!Larger(0, acc.liquidity - e.liquidity)
                       /\ b = acc.pending + e.amount
                       /\ c = (acc.emptied \/ (acc.liquidity > 0 /\ a = 0))
    OBVIOUS
  <2>2. a \in Nat /\ b \in Nat
    <3>1. a = Life!Larger(0, acc.liquidity - e.liquidity) /\ b = acc.pending + e.amount
      BY <2>1
    <3>2. QED
      BY <1>2, <3>1 DEF Life!Larger
  <2>3. c \in BOOLEAN
    BY <2>1
  <2>4. new = [acc EXCEPT !.liquidity = a, !.emptied = c, !.pending = b]
    BY <2>1 DEF Life!Decreased, e, Accounts
  <2> HIDE DEF new
  <2>5. new \in Accounts
    BY <2>2, <2>3, <2>4 DEF Accounts
  <2>6. QED
    BY <1>4, <2>5 DEF new, e, Life!Added
<1>5. CASE e.kind = "collect"
  <2> DEFINE new == Life!Collected(acc, i, marks)
             p == Life!Smaller(e.amount, acc.pending)
             priced == Life!Valued(i, marks)
  <2>1. PICK a, b, c : /\ a = acc.pending - p
                       /\ b = acc.proceeds + (IF priced THEN e.amount ELSE 0)
                       /\ c = acc.fees + (IF priced THEN e.amount - p ELSE 0)
    OBVIOUS
  <2>2. PICK v : v = (acc.valued /\ priced)
    OBVIOUS
  <2>3. p \in Nat /\ p <= e.amount /\ p <= acc.pending
    BY <1>2 DEF Life!Smaller
  <2> HIDE DEF p, priced
  <2>4. a \in Nat /\ b \in Nat /\ c \in Nat
    <3>1. acc.pending - p \in Nat /\ e.amount - p \in Nat
      BY <1>2, <2>3
    <3>2. CASE priced
      BY <1>2, <2>1, <3>1, <3>2
    <3>3. CASE ~priced
      BY <1>2, <2>1, <3>1, <3>3
    <3>4. QED
      BY <3>2, <3>3
  <2>5. v \in BOOLEAN
    BY <2>2
  <2>6. new = [acc EXCEPT !.collected = TRUE, !.pending = a, !.valued = v, !.proceeds = b, !.fees = c]
    BY <2>1, <2>2 DEF Life!Collected, e, p, priced, Accounts
  <2> HIDE DEF new
  <2>7. new \in Accounts
    BY <2>4, <2>5, <2>6 DEF Accounts
  <2>8. QED
    BY <1>5, <2>7 DEF new, e, Life!Added
<1>6. CASE e.kind = "none"
  BY <1>6 DEF e, Life!Added
<1>7. QED
  BY <1>2, <1>3, <1>4, <1>5, <1>6

LEMMA AddUpIsFold ==
    ASSUME NEW marks, NEW opening
    PROVE  Life!AddUp(marks, opening) =
             (CHOOSE g : g = [U \in SUBSET DOMAIN [i \in 1..Len(job.events) |-> i] |->
                                IF U = {} THEN Life!Nothing
                                ELSE Life!Added(g[U \ {Tracking!Max(U)}],
                                                [i \in 1..Len(job.events) |-> i][Tracking!Max(U)],
                                                marks, opening)])
                [DOMAIN [i \in 1..Len(job.events) |-> i]]
BY DEF Life!AddUp, Life!FoldLeft, Life!MapThenFoldSet, Life!Max, Tracking!Max

LEMMA NothingTyped == Life!Nothing \in Accounts
BY DEF Life!Nothing, Accounts

LEMMA AddUpSteps ==
    ASSUME job.events \in Seq(Events), Life!Basis \in Nat, NEW marks, NEW opening \in Openings
    PROVE  \E r \in [0..Len(job.events) -> Accounts] :
              /\ r[0] = Life!Nothing /\ Life!AddUp(marks, opening) = r[Len(job.events)]
              /\ \A i \in 1..Len(job.events) : r[i] = Life!Added(r[i - 1], i, marks, opening)
<1> DEFINE n == Len(job.events)
           S == 1..n
           q == [i \in 1..n |-> i]
           added(acc, i) == Life!Added(acc, i, marks, opening)
           step == [p \in Accounts \X S |-> added(p[1], p[2])]
           pick == [U \in SUBSET S |-> Tracking!Max(U)]
           P(g) == g = [U \in SUBSET DOMAIN q |->
                          IF U = {} THEN Life!Nothing
                          ELSE Life!Added(g[U \ {Tracking!Max(U)}], q[Tracking!Max(U)],
                                          marks, opening)]
<1>1. n \in Nat /\ IsFiniteSet(S) /\ S \subseteq Int /\ \A i \in S : job.events[i] \in Events
  BY FS_Interval
<1>2. step \in [Accounts \X S -> Accounts]
  BY <1>1, AddedTyped
<1>3. \A U \in SUBSET S : U # {} => Tracking!Max(U) \in U
  BY <1>1, MaxExists, FS_Subset
<1>4. Picks(pick, S)
  BY <1>3 DEF Picks
<1>5. PICK h : Folds(h, S, Accounts, Life!Nothing, step, pick)
  <2> HIDE DEF S, step, pick
  <2>1. QED
    BY <1>1, <1>2, <1>4, NothingTyped, FoldsExist
<1>6. P(h)
  <2>1. h \in [SUBSET S -> Accounts]
    BY <1>5 DEF Folds
  <2>2. ASSUME NEW U \in SUBSET S
        PROVE  h[U] = IF U = {} THEN Life!Nothing
                      ELSE added(h[U \ {Tracking!Max(U)}], q[Tracking!Max(U)])
    <3> DEFINE m == Tracking!Max(U)
    <3>1. h[U] = IF U = {} THEN Life!Nothing ELSE step[<<h[U \ {m}], m>>]
      BY <1>5 DEF Folds
    <3>2. CASE U # {}
      <4>1. m \in S /\ h[U \ {m}] \in Accounts
        BY <1>3, <2>1, <3>2
      <4>2. q[m] = m
        BY <4>1
      <4> HIDE DEF m, S, added, q
      <4>3. step[<<h[U \ {m}], m>>] = added(h[U \ {m}], m)
        BY <4>1
      <4>4. QED
        BY <3>1, <3>2, <4>2, <4>3 DEF m
    <3>3. QED
      BY <3>1, <3>2
  <2>3. DOMAIN q = S
    OBVIOUS
  <2>4. \A U \in SUBSET DOMAIN q :
           h[U] = IF U = {} THEN Life!Nothing
                  ELSE Life!Added(h[U \ {Tracking!Max(U)}], q[Tracking!Max(U)], marks, opening)
    BY <2>2, <2>3
  <2> HIDE DEF step, pick, q, S
  <2>5. QED
    BY <2>1, <2>3, <2>4
<1> DEFINE g == CHOOSE k : P(k)
           r == [i \in 0..n |-> g[1..i]]
<1>7. P(g)
  <2> HIDE DEF P
  <2>1. QED
    BY <1>6
<1>8. \A U \in SUBSET S : g[U] = IF U = {} THEN Life!Nothing
                                 ELSE added(g[U \ {Tracking!Max(U)}], q[Tracking!Max(U)])
  <2>1. DOMAIN q = S
    OBVIOUS
  <2> HIDE DEF g, q, S
  <2>2. QED
    BY <1>7, <2>1
<1>9. Life!AddUp(marks, opening) = g[S]
  <2>1. DOMAIN q = S
    OBVIOUS
  <2>2. Life!AddUp(marks, opening) = g[DOMAIN q]
    BY AddUpIsFold
  <2> HIDE DEF g, q, S
  <2>3. QED
    BY <2>1, <2>2
<1> HIDE DEF g, P, step, pick, added
<1>10. r[0] = Life!Nothing /\ r[n] = g[S]
  <2>1. 1..0 = {} /\ 0 \in 0..n /\ n \in 0..n
    BY <1>1
  <2>2. QED
    BY <1>1, <1>8, <2>1
<1>11. ASSUME NEW i \in 1..n PROVE r[i] = added(r[i - 1], i)
  <2>0. i \in Nat \ {0} /\ i <= n
    BY <1>1
  <2>1. /\ Tracking!Max(1..i) = i /\ (1..i) \ {i} = 1..(i - 1)
        /\ 1..i \in SUBSET S /\ 1..i # {}
    <3>1. (1..i) \ {i} = 1..(i - 1) /\ 1..i \in SUBSET (1..n) /\ i \in 1..i
      BY <1>1, <2>0
    <3>2. QED
      BY <1>1, <2>0, <3>1, TopOfRange
  <2>2. i \in 0..n /\ i - 1 \in 0..n /\ q[i] = i
    BY <1>1
  <2>3. r[i] = g[1..i] /\ r[i - 1] = g[1..(i - 1)]
    BY <2>2
  <2>4. g[1..i] = added(g[(1..i) \ {Tracking!Max(1..i)}], q[Tracking!Max(1..i)])
    BY <1>8, <2>1
  <2>5. QED
    BY <2>1, <2>2, <2>3, <2>4
<1>12. r \in [0..n -> Accounts]
  <2> DEFINE Good == {i \in 0..n : r[i] \in Accounts}
  <2>1. 0 \in Good /\ \A i \in 1..n : i - 1 \in Good => i \in Good
    <3>1. ASSUME NEW i \in 1..n, r[i - 1] \in Accounts PROVE r[i] \in Accounts
      BY <1>1, <1>11, <3>1, AddedTyped DEF added
    <3> HIDE DEF r
    <3>2. QED
      BY <1>1, <1>10, <3>1, NothingTyped
  <2>2. \A i \in 0..n : i \in Good
    <3> HIDE DEF Good
    <3>1. QED
      BY <1>1, <2>1, CountsUp
  <2>3. QED
    BY <2>2
<1> HIDE DEF r
<1>13. QED
  BY <1>9, <1>10, <1>11, <1>12 DEF added

(* The sums over all events that were read are those of the chain.         *)
LEMMA AddUpIsChain ==
    ASSUME blocks \in Seq(Events), Orderly(blocks), Life!Basis = blocks[1].amount,
           Life!Basis \in Nat, job.events \in Seq(Events), Len(job.events) <= Len(blocks),
           \A i \in 1..Len(job.events) : job.events[i] = blocks[i],
           NEW marks, NEW opening \in Openings
    PROVE  AccountOK(Life!AddUp(marks, opening), Len(job.events), opening)
<1> DEFINE n == Len(job.events)
<1>1. PICK r \in [0..n -> Accounts] :
         /\ r[0] = Life!Nothing /\ Life!AddUp(marks, opening) = r[n]
         /\ \A i \in 1..n : r[i] = Life!Added(r[i - 1], i, marks, opening)
  BY AddUpSteps
<1> DEFINE Good == {i \in 0..n : AccountOK(r[i], i, opening)}
<1>2. n \in Nat /\ n <= Len(blocks) /\ Len(blocks) \in Nat /\ 0 \in 0..n /\ n \in 0..n
  OBVIOUS
<1>3. AccountOK(Life!Nothing, 0, opening)
  <2>1. /\ Moved(blocks, "increase", 0) = 0 /\ Moved(blocks, "decrease", 0) = 0
        /\ Paid(blocks, "increase", 0) = 0 /\ Paid(blocks, "decrease", 0) = 0
        /\ Paid(blocks, "collect", 0) = 0
    <3>1. PICK s : s = blocks
      OBVIOUS
    <3>2. s \in Seq(Events)
      BY <3>1
    <3>3. \A kind : Moved(s, kind, 0) = 0 /\ Paid(s, kind, 0) = 0
      BY <3>2, PaidAre, MovedAre
    <3>4. QED
      BY <3>1, <3>3
  <2>2. /\ Life!Nothing.liquidity = 0 /\ ~Life!Nothing.counted /\ Life!Nothing.proceeds = 0
        /\ Life!Nothing.fees = 0 /\ Life!Nothing.pending = 0 /\ Life!Nothing.capital = 0
    BY DEF Life!Nothing
  <2>3. QED
    BY <2>1, <2>2, NothingTyped DEF AccountOK
<1>4. ASSUME NEW i \in 1..n, i - 1 \in Good PROVE i \in Good
  <2>1. i \in 1..Len(blocks) /\ i \in 0..n /\ job.events[i] = blocks[i]
    BY <1>2
  <2>2. AccountOK(r[i - 1], i - 1, opening)
    BY <1>4
  <2>3. AccountOK(Life!Added(r[i - 1], i, marks, opening), i, opening)
    BY <2>1, <2>2, AddedKeeps
  <2>4. QED
    BY <1>1, <2>1, <2>3
<1>5. \A i \in 0..n : i \in Good
  <2>1. 0 \in Good
    BY <1>1, <1>2, <1>3
  <2> HIDE DEF Good
  <2>2. QED
    BY <1>2, <1>4, <2>1, CountsUp
<1>6. QED
  BY <1>1, <1>2, <1>5

(* A pass that began at the opening has read all events up to where it     *)
(* starts next; what it freezes is the whole life up to its last block.    *)
Nfts == [liquidity : Nat, principal : Nat, fees : Nat, closed : BOOLEAN]
Jobs == [pc : {"idle", "logs"}, since : Nat \ {0}, latest : Nat, start : Nat,
         range : Nat, events : Seq(Events)]

Reading ==
    /\ job.latest \in 1..Len(blocks) /\ job.start \in 1..(job.latest + 1) /\ job.range > 0
    /\ job.since = 1 =>
          /\ Len(job.events) = job.start - 1
          /\ \A i \in 1..(job.start - 1) : job.events[i] = blocks[i]

FromChain == account.complete /\ account.source = "chain"
Whole(a) ==
    /\ a.since \in Nat \ {0}
    /\ a.since = 1 =>
          /\ Moved(blocks, "increase", a.latest) = Moved(blocks, "decrease", a.latest)
          /\ a.proceeds = Paid(blocks, "collect", a.latest)
          /\ a.fees = Paid(blocks, "collect", a.latest) - Paid(blocks, "decrease", a.latest)
          /\ a.matched => a.capital = Paid(blocks, "increase", a.latest)

LifeInv ==
    /\ blocks \in Seq(Events) /\ Orderly(blocks)
    /\ nft \in Nfts
    /\ nft.liquidity + Moved(blocks, "decrease", Len(blocks)) = Moved(blocks, "increase", Len(blocks))
    /\ Len(blocks) = 0 => nft.liquidity = 0 /\ nft.principal = 0 /\ nft.fees = 0 /\ ~nft.closed
    /\ job \in Jobs /\ (job.pc = "logs" => Reading)
    /\ FromChain => account.latest \in 1..Len(blocks) /\ Whole(account)

LEMMA RangesTyped ==
    WideRange \in Nat /\ WideRange > 0 /\ LeastRange \in Nat /\ LeastRange > 0
    /\ MaxSupply \in Nat /\ MaxBlock \in Nat
BY RangeAssumption

LEMMA NoJobTyped == Life!NoJob \in Jobs /\ Life!NoJob.pc # "logs"
<1>1. <<>> \in Seq(Events) /\ WideRange \in Nat
  BY RangesTyped
<1>2. QED
  BY <1>1 DEF Jobs, Life!NoJob

LEMMA LifeBegins == Life!LifeInit => LifeInv
<1> SUFFICES ASSUME Life!LifeInit PROVE LifeInv
  OBVIOUS
<1>1. /\ blocks = <<>> /\ nft = [liquidity |-> 0, principal |-> 0, fees |-> 0, closed |-> FALSE]
      /\ job = Life!NoJob /\ account = Life!NoAccount
  BY DEF Life!LifeInit
<1>2. blocks \in Seq(Events) /\ Len(blocks) = 0
  BY <1>1
<1>3. Moved(blocks, "decrease", 0) = 0 /\ Moved(blocks, "increase", 0) = 0
  <2>1. PICK s : s = blocks
    OBVIOUS
  <2>2. s \in Seq(Events)
    BY <1>2, <2>1
  <2>3. Moved(s, "decrease", 0) = 0 /\ Moved(s, "increase", 0) = 0
    BY <2>2, MovedAre
  <2>4. QED
    BY <2>1, <2>3
<1>4. Orderly(blocks)
  <2>1. \A k \in 0..Len(blocks) : k = 0
    BY <1>2
  <2>2. QED
    BY <1>2, <1>3, <2>1 DEF Orderly
<1>5. nft \in Nfts /\ nft.liquidity = 0 /\ nft.principal = 0 /\ nft.fees = 0 /\ ~nft.closed
  BY <1>1 DEF Nfts
<1>6. job \in Jobs /\ job.pc # "logs"
  BY <1>1, NoJobTyped
<1>7. ~FromChain
  BY <1>1 DEF FromChain, Life!NoAccount
<1>8. QED
  BY <1>2, <1>3, <1>4, <1>5, <1>6, <1>7 DEF LifeInv

(* Whatever event is mined, what was there before stays as it was.         *)
LEMMA MiningKeeps ==
    ASSUME LifeInv, NEW e \in Events, blocks' = Append(blocks, e), job' = job, account' = account,
           nft' \in Nfts, Len(blocks) = 0 => e.kind = "increase",
           \/ e.kind = "increase" /\ nft'.liquidity = nft.liquidity + e.liquidity
           \/ /\ e.kind = "decrease" /\ e.liquidity <= nft.liquidity
              /\ nft'.liquidity = nft.liquidity - e.liquidity
           \/ e.kind \notin {"increase", "decrease"} /\ nft'.liquidity = nft.liquidity
    PROVE  LifeInv'
<1>1. PICK s, t, n : s = blocks /\ t = Append(s, e) /\ n = Len(s)
  OBVIOUS
<1>2. /\ s \in Seq(Events) /\ t \in Seq(Events) /\ n \in Nat /\ Len(t) = n + 1 /\ blocks' = t
      /\ Len(s) = n /\ (\A k \in 1..n : t[k] = s[k]) /\ t[n + 1] = e
  BY <1>1 DEF LifeInv
<1>3. ASSUME NEW kind
      PROVE  /\ \A k \in 0..n : Paid(t, kind, k) = Paid(s, kind, k)
             /\ \A k \in 0..n : Moved(t, kind, k) = Moved(s, kind, k)
  BY <1>1, <1>2, TotalsStay
<1>4. ASSUME NEW kind
      PROVE  Moved(t, kind, n + 1) = Moved(s, kind, n) + IF e.kind = kind THEN e.liquidity ELSE 0
  <2>1. n + 1 \in 1..Len(t) /\ (n + 1) - 1 = n /\ n \in 0..n
    BY <1>2
  <2>2. Moved(t, kind, n + 1) =
          Moved(t, kind, (n + 1) - 1) + IF t[n + 1].kind = kind THEN t[n + 1].liquidity ELSE 0
    BY <1>2, <2>1, MovedAre
  <2>3. Moved(t, kind, n) = Moved(s, kind, n)
    BY <1>3, <2>1
  <2>4. QED
    BY <1>2, <2>1, <2>2, <2>3
<1>5. /\ nft.liquidity \in Nat /\ nft'.liquidity \in Nat /\ e.liquidity \in Nat
      /\ nft.liquidity + Moved(s, "decrease", n) = Moved(s, "increase", n)
      /\ Moved(s, "decrease", n) \in Nat /\ Moved(s, "increase", n) \in Nat
  <2>1. nft.liquidity \in Nat /\ nft'.liquidity \in Nat /\ e.liquidity \in Nat
    BY DEF LifeInv, Nfts, Events
  <2>2. nft.liquidity + Moved(s, "decrease", n) = Moved(s, "increase", n)
    BY <1>1 DEF LifeInv
  <2>3. n \in 0..Len(s)
    BY <1>2
  <2>4. Moved(s, "decrease", n) \in Nat /\ Moved(s, "increase", n) \in Nat
    BY <1>2, <2>3, MovedAre
  <2>5. QED
    BY <2>1, <2>2, <2>4
<1>6. nft'.liquidity + Moved(t, "decrease", n + 1) = Moved(t, "increase", n + 1)
  <2>1. CASE e.kind = "increase" /\ nft'.liquidity = nft.liquidity + e.liquidity
    <3>1. /\ Moved(t, "increase", n + 1) = Moved(s, "increase", n) + e.liquidity
          /\ Moved(t, "decrease", n + 1) = Moved(s, "decrease", n) + 0
      BY <1>4, <2>1
    <3>2. QED
      BY <1>5, <2>1, <3>1
  <2>2. CASE /\ e.kind = "decrease" /\ e.liquidity <= nft.liquidity
             /\ nft'.liquidity = nft.liquidity - e.liquidity
    <3>1. /\ Moved(t, "increase", n + 1) = Moved(s, "increase", n) + 0
          /\ Moved(t, "decrease", n + 1) = Moved(s, "decrease", n) + e.liquidity
      BY <1>4, <2>2
    <3>2. QED
      BY <1>5, <2>2, <3>1
  <2>3. CASE e.kind \notin {"increase", "decrease"} /\ nft'.liquidity = nft.liquidity
    <3>1. /\ Moved(t, "increase", n + 1) = Moved(s, "increase", n) + 0
          /\ Moved(t, "decrease", n + 1) = Moved(s, "decrease", n) + 0
      BY <1>4, <2>3
    <3>2. QED
      BY <1>5, <2>3, <3>1
  <2>4. QED
    BY <2>1, <2>2, <2>3
<1>7. Orderly(t)
  <2>1. t[1].kind = "increase"
    <3>1. CASE n = 0
      <4>1. e.kind = "increase" /\ t[1] = e
        BY <1>1, <1>2, <3>1
      <4>2. QED
        BY <4>1
    <3>2. CASE n > 0
      BY <1>1, <1>2, <3>2 DEF LifeInv, Orderly
    <3>3. QED
      BY <1>2, <3>1, <3>2
  <2>2. ASSUME NEW k \in 0..(n + 1) PROVE Moved(t, "decrease", k) <= Moved(t, "increase", k)
    <3>1. CASE k = n + 1
      <4>1. n + 1 \in 0..Len(t)
        BY <1>2
      <4>2. Moved(t, "decrease", n + 1) \in Nat
        BY <1>2, <4>1, MovedAre
      <4>3. QED
        BY <1>5, <1>6, <3>1, <4>2
    <3>2. CASE k # n + 1
      <4>1. k \in 0..n
        BY <1>2, <3>2
      <4>2. Moved(s, "decrease", k) <= Moved(s, "increase", k)
        BY <1>1, <4>1 DEF LifeInv, Orderly
      <4>3. QED
        BY <1>3, <4>1, <4>2
    <3>3. QED
      BY <3>1, <3>2
  <2>3. QED
    BY <1>2, <2>1, <2>2 DEF Orderly
<1>8. job.pc = "logs" => Reading'
  <2> SUFFICES ASSUME job.pc = "logs" PROVE Reading'
    OBVIOUS
  <2>1. /\ job.latest \in 1..n /\ job.start \in 1..(job.latest + 1) /\ job.range > 0
        /\ job.since = 1 => /\ Len(job.events) = job.start - 1
                            /\ \A i \in 1..(job.start - 1) : job.events[i] = s[i]
    BY <1>1 DEF LifeInv, Reading
  <2>2. job.latest \in 1..(n + 1) /\ \A i \in 1..(job.start - 1) : i \in 1..n
    BY <1>2, <2>1
  <2>3. QED
    BY <1>2, <2>1, <2>2 DEF Reading
<1>9. FromChain => account.latest \in 1..Len(t) /\ Whole(account)'
  <2> SUFFICES ASSUME FromChain PROVE account.latest \in 1..Len(t) /\ Whole(account)'
    OBVIOUS
  <2>1. account.latest \in 1..n /\ Whole(account)
    BY <1>1 DEF LifeInv
  <2>2. PICK a, k : a = account /\ k = account.latest
    OBVIOUS
  <2>3. /\ a.since \in Nat \ {0}
        /\ a.since = 1 =>
              /\ Moved(s, "increase", k) = Moved(s, "decrease", k)
              /\ a.proceeds = Paid(s, "collect", k)
              /\ a.fees = Paid(s, "collect", k) - Paid(s, "decrease", k)
              /\ a.matched => a.capital = Paid(s, "increase", k)
    BY <1>1, <2>1, <2>2 DEF Whole
  <2>4. a.since = 1 =>
            /\ Moved(t, "increase", k) = Moved(t, "decrease", k)
            /\ a.proceeds = Paid(t, "collect", k)
            /\ a.fees = Paid(t, "collect", k) - Paid(t, "decrease", k)
            /\ a.matched => a.capital = Paid(t, "increase", k)
    <3>1. k \in 0..n
      BY <1>2, <2>1, <2>2
    <3>2. QED
      BY <1>3, <2>3, <3>1
  <2>5. account.latest \in 1..Len(t)
    BY <1>2, <2>1
  <2>6. QED
    BY <1>2, <2>2, <2>3, <2>4, <2>5 DEF Whole
<1>10. job \in Jobs
  BY DEF LifeInv
<1>11. FromChain' <=> FromChain
  BY DEF FromChain
<1>12. QED
  BY <1>2, <1>6, <1>7, <1>8, <1>9, <1>10, <1>11 DEF LifeInv

(* The NFT on chain: what is removed was there, what is paid was owed.     *)
LEMMA IncreaseKeeps ==
    ASSUME LifeInv, NEW l \in 1..MaxSupply, Life!Increase(l)
    PROVE  LifeInv'
<1> DEFINE e == [kind |-> "increase", liquidity |-> l, amount |-> l]
<1>1. l \in Nat /\ e \in Events /\ e.kind = "increase" /\ e.liquidity = l
  BY RangesTyped DEF Events
<1>2. nft.liquidity \in Nat /\ nft \in Nfts
  BY DEF LifeInv, Nfts
<1>3. /\ blocks' = Append(blocks, e) /\ job' = job /\ account' = account
      /\ nft' = [nft EXCEPT !.liquidity = @ + l]
  BY DEF Life!Increase, Life!Mined, Life!ChainUnchanged
<1>4. nft' \in Nfts /\ nft'.liquidity = nft.liquidity + l
  BY <1>1, <1>2, <1>3 DEF Nfts
<1> HIDE DEF e
<1>5. QED
  BY <1>1, <1>3, <1>4, MiningKeeps

LEMMA DecreaseKeeps ==
    ASSUME LifeInv, NEW l \in 1..MaxSupply, NEW back \in {0, l}, Life!Decrease(l, back)
    PROVE  LifeInv'
<1> DEFINE e == [kind |-> "decrease", liquidity |-> l, amount |-> back]
<1>1. l \in Nat /\ l > 0 /\ back \in Nat /\ e \in Events /\ e.kind = "decrease" /\ e.liquidity = l
  BY RangesTyped DEF Events
<1>2. nft.liquidity \in Nat /\ nft.principal \in Nat /\ nft \in Nfts
  BY DEF LifeInv, Nfts
<1>3. /\ blocks' = Append(blocks, e) /\ job' = job /\ account' = account /\ l <= nft.liquidity
      /\ nft' = [nft EXCEPT !.liquidity = @ - l, !.principal = @ + back]
  BY DEF Life!Decrease, Life!Mined, Life!ChainUnchanged
<1>4. nft.liquidity - l \in Nat /\ nft.principal + back \in Nat
  BY <1>1, <1>2, <1>3
<1>5. nft' \in Nfts /\ nft'.liquidity = nft.liquidity - l
  BY <1>2, <1>3, <1>4 DEF Nfts
<1>6. Len(blocks) # 0
  BY <1>1, <1>2, <1>3 DEF LifeInv
<1> HIDE DEF e
<1>7. QED
  BY <1>1, <1>3, <1>5, <1>6, MiningKeeps

LEMMA EarnKeeps == ASSUME LifeInv, Life!EarnFee PROVE LifeInv'
<1>1. /\ Life!NoEvent \in Events /\ Life!NoEvent.kind = "none"
  BY DEF Life!NoEvent, Events
<1>2. nft \in Nfts /\ nft.liquidity \in Nat
  BY DEF LifeInv, Nfts
<1>3. /\ blocks' = Append(blocks, Life!NoEvent) /\ job' = job /\ account' = account
      /\ nft' = [nft EXCEPT !.fees = 1] /\ nft.liquidity > 0
  BY DEF Life!EarnFee, Life!Mined, Life!ChainUnchanged
<1>4. nft' \in Nfts /\ nft'.liquidity = nft.liquidity
  BY <1>2, <1>3 DEF Nfts
<1>5. Len(blocks) # 0
  BY <1>2, <1>3 DEF LifeInv
<1>6. QED
  BY <1>1, <1>3, <1>4, <1>5, MiningKeeps

LEMMA CollectKeeps ==
    ASSUME LifeInv, NEW amount \in 1..(nft.principal + nft.fees), Life!Collect(amount)
    PROVE  LifeInv'
<1> DEFINE e == [kind |-> "collect", liquidity |-> 0, amount |-> amount]
           principal == Life!Smaller(amount, nft.principal)
<1>1. nft \in Nfts /\ nft.liquidity \in Nat /\ nft.principal \in Nat /\ nft.fees \in Nat
  BY DEF LifeInv, Nfts
<1>2. amount \in Nat /\ amount > 0 /\ e \in Events /\ e.kind = "collect"
  BY <1>1 DEF Events
<1>3. /\ blocks' = Append(blocks, e) /\ job' = job /\ account' = account
      /\ nft' = [nft EXCEPT !.principal = @ - principal, !.fees = @ - (amount - principal)]
  BY DEF Life!Collect, Life!Mined, Life!ChainUnchanged
<1>4. nft.principal - principal \in Nat /\ nft.fees - (amount - principal) \in Nat
  <2>1. amount <= nft.principal + nft.fees
    BY <1>1
  <2>2. QED
    BY <1>1, <1>2, <2>1 DEF Life!Smaller
<1> HIDE DEF principal
<1>5. nft' \in Nfts /\ nft'.liquidity = nft.liquidity
  BY <1>1, <1>3, <1>4 DEF Nfts
<1>6. Len(blocks) # 0
  BY <1>1, <1>2 DEF LifeInv
<1> HIDE DEF e
<1>7. QED
  BY <1>2, <1>3, <1>5, <1>6, MiningKeeps

(* A step that leaves the chain alone keeps what the chain says.           *)
LEMMA JobKeeps ==
    ASSUME LifeInv, blocks' = blocks, nft' = nft, job' \in Jobs,
           job.pc' = "logs" => Reading',
           FromChain' => account'.latest \in 1..Len(blocks) /\ Whole(account')
    PROVE  LifeInv'
<1>1. PICK s, a : s = blocks /\ a = account'
  OBVIOUS
<1>2. /\ s \in Seq(Events) /\ Orderly(s) /\ nft \in Nfts
      /\ nft.liquidity + Moved(s, "decrease", Len(s)) = Moved(s, "increase", Len(s))
      /\ Len(s) = 0 => nft.liquidity = 0 /\ nft.principal = 0 /\ nft.fees = 0 /\ ~nft.closed
  BY <1>1 DEF LifeInv
<1>3. FromChain' => a.latest \in 1..Len(s) /\ Whole(account)'
  <2> SUFFICES ASSUME FromChain' PROVE a.latest \in 1..Len(s) /\ Whole(account)'
    OBVIOUS
  <2>1. a.latest \in 1..Len(s) /\ Whole(a)
    BY <1>1
  <2>2. QED
    BY <1>1, <2>1 DEF Whole
<1>4. blocks' = s /\ nft' = nft /\ account' = a
  BY <1>1
<1>5. QED
  BY <1>2, <1>3, <1>4 DEF LifeInv

(* The account is that of before, or one that is not from the chain.       *)
LEMMA AccountKeeps ==
    ASSUME LifeInv, account' = account \/ ~FromChain'
    PROVE  FromChain' => account'.latest \in 1..Len(blocks) /\ Whole(account')
<1> SUFFICES ASSUME FromChain'
             PROVE  account'.latest \in 1..Len(blocks) /\ Whole(account')
  OBVIOUS
<1>1. account' = account
  OBVIOUS
<1>2. FromChain
  BY <1>1 DEF FromChain
<1>3. account.latest \in 1..Len(blocks) /\ Whole(account)
  BY <1>2 DEF LifeInv
<1>4. PICK a : a = account
  OBVIOUS
<1>5. a.latest \in 1..Len(blocks) /\ Whole(a)
  BY <1>3, <1>4 DEF Whole
<1>6. account' = a
  BY <1>1, <1>4
<1>7. QED
  BY <1>5, <1>6

(* The events of an NFT begin with its opening.                            *)
LEMMA OpeningIsFirst ==
    ASSUME Orderly(blocks), Len(blocks) \in Nat, Len(blocks) > 0
    PROVE  Life!Opening = 1 /\ (job.since = 1 => Life!Basis = blocks[1].amount)
<1>1. blocks[1].kind = "increase" /\ 1 \in 1..Len(blocks) /\ 1..(1 - 1) = {}
  BY DEF Orderly
<1>2. \A b \in 1..Len(blocks) :
         (/\ blocks[b].kind = "increase"
          /\ \A c \in 1..(b - 1) : blocks[c].kind # "increase") <=> b = 1
  <2> SUFFICES ASSUME NEW b \in 1..Len(blocks)
               PROVE  (/\ blocks[b].kind = "increase"
                       /\ \A c \in 1..(b - 1) : blocks[c].kind # "increase") <=> b = 1
    OBVIOUS
  <2>1. b # 1 => 1 \in 1..(b - 1)
    OBVIOUS
  <2>2. QED
    BY <1>1, <2>1
<1>3. Life!Opening = 1
  BY <1>1, <1>2 DEF Life!Opening, Life!Height
<1>4. QED
  BY <1>3 DEF Life!Basis

(* The steps of a pass that freeze nothing.                                *)
LEMMA ScanKeeps == ASSUME LifeInv, Life!ScanRow PROVE LifeInv'
<1>1. /\ blocks' = blocks /\ job' = job /\ account' = account /\ Len(blocks) > 0
      /\ nft' = [nft EXCEPT !.closed = nft.liquidity = 0]
  BY DEF Life!ScanRow, Life!Height
<1>2. PICK s, c : s = blocks /\ c = (nft.liquidity = 0) /\ c \in BOOLEAN
  OBVIOUS
<1>3. /\ s \in Seq(Events) /\ Orderly(s) /\ nft \in Nfts /\ job \in Jobs
      /\ nft.liquidity + Moved(s, "decrease", Len(s)) = Moved(s, "increase", Len(s))
      /\ (job.pc = "logs" => Reading) /\ Len(s) \in Nat
      /\ (FromChain => account.latest \in 1..Len(s) /\ Whole(account))
  BY <1>2 DEF LifeInv
<1>4. nft' \in Nfts /\ nft'.liquidity = nft.liquidity
  BY <1>1, <1>2, <1>3 DEF Nfts
<1>5. Reading => Reading'
  BY <1>1 DEF Reading
<1>6. Whole(account) => Whole(account)'
  BY <1>1 DEF Whole
<1>7. FromChain' <=> FromChain
  BY <1>1 DEF FromChain
<1>8. blocks' = s /\ ~(Len(s) = 0)
  BY <1>1, <1>2, <1>3
<1>9. QED
  BY <1>1, <1>3, <1>4, <1>5, <1>6, <1>7, <1>8 DEF LifeInv

LEMMA BeginKeeps == ASSUME LifeInv, Life!BeginFinalise PROVE LifeInv'
<1>1. /\ blocks' = blocks /\ nft' = nft /\ account' = account /\ nft.closed
      /\ \E first \in Life!Opening..Len(blocks) :
            job' = [Life!NoJob EXCEPT !.pc = "logs", !.since = first, !.latest = Len(blocks),
                                      !.start = first]
  BY DEF Life!BeginFinalise, Life!JobUnchanged, Life!Height
<1>2. Len(blocks) \in Nat /\ Len(blocks) > 0 /\ Life!Opening = 1
  BY <1>1, OpeningIsFirst DEF LifeInv
<1>3. PICK first \in 1..Len(blocks) :
         job' = [pc |-> "logs", since |-> first, latest |-> Len(blocks), start |-> first,
                 range |-> WideRange, events |-> <<>>]
  BY <1>1, <1>2 DEF Life!NoJob
<1>4. job' \in Jobs
  BY <1>2, <1>3, RangesTyped DEF Jobs
<1>5. Reading'
  <2>1. /\ job'.latest = Len(blocks) /\ job'.since = first /\ job'.start = first
        /\ job'.range = WideRange /\ job'.events = <<>> /\ Len(job'.events) = 0
    BY <1>3
  <2>2. /\ job'.latest \in 1..Len(blocks) /\ job'.start \in 1..(job'.latest + 1)
        /\ job'.range > 0
        /\ job'.since = 1 => Len(job'.events) = job'.start - 1 /\ 1..(job'.start - 1) = {}
    BY <1>2, <2>1, RangesTyped
  <2>3. QED
    BY <1>1, <2>2 DEF Reading
<1>6. QED
  BY <1>1, <1>4, <1>5, AccountKeeps, JobKeeps

LEMMA NoneKeeps == ASSUME LifeInv, Life!NoOpening PROVE LifeInv'
<1>1. /\ blocks' = blocks /\ nft' = nft /\ job' = job
      /\ account' = [Life!NoAccount EXCEPT !.source = "no opening"]
  BY DEF Life!NoOpening, Life!JobUnchanged, Life!Unfinished
<1>2. ~FromChain'
  BY <1>1 DEF FromChain, Life!NoAccount
<1>3. job' \in Jobs /\ (job.pc' = "logs" => Reading')
  BY <1>1 DEF LifeInv, Reading
<1>4. QED
  BY <1>1, <1>2, <1>3, AccountKeeps, JobKeeps

LEMMA RefuseKeeps == ASSUME LifeInv, Life!RefuseRange PROVE LifeInv'
<1>1. /\ blocks' = blocks /\ nft' = nft /\ account' = account /\ job.pc = "logs"
      /\ job' = [job EXCEPT !.range = Life!Larger(LeastRange, @ \div 2)]
  BY DEF Life!RefuseRange, Life!JobUnchanged
<1>2. job \in Jobs /\ job.range \in Nat /\ Reading
  BY <1>1 DEF LifeInv, Jobs
<1>3. PICK r : r = Life!Larger(LeastRange, job.range \div 2)
  OBVIOUS
<1>4. r \in Nat /\ r > 0
  <2>1. job.range \div 2 \in Nat
    BY <1>2
  <2>2. QED
    BY <1>3, <2>1, RangesTyped DEF Life!Larger
<1>5. job' \in Jobs /\ job' = [job EXCEPT !.range = r]
  BY <1>1, <1>2, <1>3, <1>4 DEF Jobs
<1>6. /\ job'.latest = job.latest /\ job'.start = job.start /\ job'.range = r
      /\ job'.events = job.events
  BY <1>2, <1>5 DEF Jobs
<1>7. Reading'
  <2>1. job'.since = job.since
    BY <1>2, <1>5 DEF Jobs
  <2>2. QED
    BY <1>1, <1>2, <1>4, <1>6, <2>1 DEF Reading
<1>8. QED
  BY <1>1, <1>5, <1>7, AccountKeeps, JobKeeps

LEMMA FailKeeps == ASSUME LifeInv, Life!FailRange PROVE LifeInv'
<1>1. /\ blocks' = blocks /\ nft' = nft /\ job' = Life!NoJob
      /\ account' = [Life!NoAccount EXCEPT !.source = "logs refused"]
  BY DEF Life!FailRange, Life!JobUnchanged, Life!Unfinished
<1>2. ~FromChain'
  BY <1>1 DEF FromChain, Life!NoAccount
<1>3. job' \in Jobs /\ job.pc' # "logs"
  BY <1>1, NoJobTyped
<1>4. QED
  BY <1>1, <1>2, <1>3, AccountKeeps, JobKeeps

(* A range that is read follows on what was read before.                   *)
LEMMA ReadKeeps == ASSUME LifeInv, Life!ReadRange PROVE LifeInv'
<1>1. PICK s, v, i, j, w :
         /\ s = blocks /\ v = job.events /\ i = job.start /\ j = Life!RangeEnd
         /\ w = Life!Smaller(WideRange, job.range * 2)
  OBVIOUS
<1>2. /\ blocks' = blocks /\ nft' = nft /\ account' = account /\ job.pc = "logs"
      /\ job.start <= job.latest
      /\ job' = [job EXCEPT !.start = j + 1, !.range = w, !.events = v \o SubSeq(s, i, j)]
  BY <1>1 DEF Life!ReadRange, Life!JobUnchanged
<1>3. /\ job \in Jobs /\ job.range \in Nat /\ job.latest \in Nat /\ i \in Nat /\ v \in Seq(Events)
      /\ s \in Seq(Events) /\ Reading
  BY <1>1, <1>2 DEF LifeInv, Jobs
<1>4. /\ job.latest \in 1..Len(s) /\ i \in 1..(job.latest + 1) /\ job.range > 0
      /\ i <= job.latest
      /\ job.since = 1 => Len(v) = i - 1 /\ \A k \in 1..(i - 1) : v[k] = s[k]
  BY <1>1, <1>2, <1>3 DEF Reading
<1>5. j \in Nat /\ i <= j /\ j <= job.latest /\ j <= Len(s)
  BY <1>1, <1>3, <1>4 DEF Life!RangeEnd, Life!Smaller
<1>6. w \in Nat /\ w > 0
  BY <1>1, <1>3, <1>4, RangesTyped DEF Life!Smaller
<1> DEFINE u == v \o SubSeq(s, i, j)
<1>7. u \in Seq(Events) /\ (job.since = 1 => Len(u) = j /\ \A k \in 1..j : u[k] = s[k])
  <2> DEFINE p == SubSeq(s, i, j)
  <2>1. /\ p \in Seq(Events) /\ Len(p) = j - i + 1
        /\ \A k \in 1..(j - i + 1) : p[k] = s[i + k - 1]
    BY <1>3, <1>4, <1>5
  <2> HIDE DEF p
  <2>2. u = v \o p
    BY DEF p
  <2> HIDE DEF u
  <2>3. u \in Seq(Events) /\ Len(u) = Len(v) + Len(p)
    <3>1. v \in Seq(Events) /\ p \in Seq(Events)
      BY <1>3, <2>1
    <3>2. QED
      BY <2>2, <3>1
  <2>4. ASSUME job.since = 1 PROVE Len(u) = j
    <3>1. /\ Len(v) = i - 1 /\ Len(u) = Len(v) + Len(p) /\ Len(p) = j - i + 1
          /\ i \in Nat /\ j \in Nat
      BY <1>3, <1>4, <1>5, <2>1, <2>3, <2>4
    <3>2. QED
      BY <3>1
  <2>5. ASSUME job.since = 1, NEW k \in 1..j PROVE u[k] = s[k]
    <3>0. Len(v) = i - 1 /\ \A m \in 1..(i - 1) : v[m] = s[m]
      BY <1>4, <2>5
    <3>1. CASE k <= i - 1
      <4>1. k \in 1..Len(v) /\ k \in 1..(i - 1)
        BY <1>3, <1>5, <3>0, <3>1
      <4>2. u[k] = v[k]
        BY <1>3, <2>1, <2>2, <4>1
      <4>3. QED
        BY <3>0, <4>1, <4>2
    <3>2. CASE ~(k <= i - 1)
      <4>1. /\ k \in (Len(v) + 1)..(Len(v) + Len(p)) /\ k - Len(v) \in 1..(j - i + 1)
            /\ i + (k - Len(v)) - 1 = k
        BY <1>3, <1>5, <2>1, <3>0, <3>2
      <4>2. u[k] = p[k - Len(v)]
        BY <1>3, <2>1, <2>2, <4>1
      <4>3. p[k - Len(v)] = s[i + (k - Len(v)) - 1]
        BY <2>1, <4>1
      <4>4. QED
        BY <4>1, <4>2, <4>3
    <3>3. QED
      BY <3>1, <3>2
  <2>6. QED
    BY <2>3, <2>4, <2>5
<1>8. job' = [job EXCEPT !.start = j + 1, !.range = w, !.events = u]
  BY <1>2
<1> HIDE DEF u
<1>9. job' \in Jobs
  <2>1. job' = [pc |-> job.pc, since |-> job.since, latest |-> job.latest, start |-> j + 1,
                range |-> w, events |-> u]
    BY <1>3, <1>8 DEF Jobs
  <2>2. /\ job.pc \in {"idle", "logs"} /\ job.since \in Nat \ {0} /\ job.latest \in Nat
        /\ j + 1 \in Nat
    BY <1>3, <1>5 DEF Jobs
  <2>3. QED
    BY <1>6, <1>7, <2>1, <2>2 DEF Jobs
<1>10. /\ job'.since = job.since /\ job'.latest = job.latest /\ job'.start = j + 1
       /\ job'.range = w /\ job'.events = u
  BY <1>3, <1>8 DEF Jobs
<1>11. Reading'
  <2>1. /\ job'.latest \in 1..Len(s) /\ job'.start \in 1..(job'.latest + 1) /\ job'.range > 0
        /\ job'.start - 1 = j
    BY <1>3, <1>4, <1>5, <1>6, <1>10
  <2>2. job'.since = 1 => /\ Len(job'.events) = job'.start - 1
                          /\ \A k \in 1..(job'.start - 1) : job'.events[k] = s[k]
    BY <1>7, <1>10, <2>1
  <2>3. blocks' = s
    BY <1>1, <1>2
  <2>4. QED
    BY <2>1, <2>2, <2>3 DEF Reading
<1>12. QED
  BY <1>2, <1>9, <1>11, AccountKeeps, JobKeeps

(* What is frozen from the chain was added up from all of it.              *)
LEMMA SettleKeeps ==
    ASSUME LifeInv, NEW marks, NEW opening \in Openings, NEW gasPriced \in BOOLEAN,
           Life!Settle(marks, opening, gasPriced)
    PROVE  LifeInv'
<1>1. PICK acc, sum, n :
         /\ acc = Life!AddUp(marks, opening) /\ sum = Life!WithBasis(acc, opening)
         /\ n = Len(job.events)
  OBVIOUS
<1>2. /\ blocks' = blocks /\ nft' = nft /\ job' = Life!NoJob /\ job.pc = "logs"
      /\ job.start > job.latest
      /\ account' = IF Life!Complete(sum, gasPriced)
                    THEN [complete |-> TRUE, source |-> "chain", capital |-> sum.capital,
                          proceeds |-> sum.proceeds, fees |-> sum.fees,
                          since |-> job.since, latest |-> job.latest,
                          matched |-> opening.named \/ ~opening.basis]
                    ELSE Life!Unfinished("evidence")
  BY <1>1 DEF Life!Settle, Life!JobUnchanged
<1>3. job' \in Jobs /\ job.pc' # "logs"
  BY <1>2, NoJobTyped
<1>4. CASE ~Life!Complete(sum, gasPriced)
  <2>1. account' = [Life!NoAccount EXCEPT !.source = "evidence"]
    BY <1>2, <1>4 DEF Life!Unfinished
  <2>2. ~FromChain'
    BY <2>1 DEF FromChain, Life!NoAccount
  <2>3. QED
    BY <1>2, <1>3, <2>2, AccountKeeps, JobKeeps
<1>5. CASE Life!Complete(sum, gasPriced) /\ job.since # 1
  <2>1. job \in Jobs /\ Reading /\ job.since \in Nat \ {0} /\ Len(blocks) \in Nat
    BY <1>2 DEF LifeInv, Jobs
  <2>2. account'.since = job.since /\ account'.latest = job.latest
    BY <1>2, <1>5
  <2>3. account'.latest \in 1..Len(blocks) /\ Whole(account')
    BY <1>5, <2>1, <2>2 DEF Reading, Whole
  <2>4. QED
    BY <1>2, <1>3, <2>3, JobKeeps
<1>6. CASE Life!Complete(sum, gasPriced) /\ job.since = 1
  <2>1. /\ blocks \in Seq(Events) /\ Orderly(blocks) /\ job.events \in Seq(Events)
        /\ job.latest \in Nat /\ job.start \in Nat /\ Len(blocks) \in Nat /\ Reading
    BY <1>2 DEF LifeInv, Jobs
  <2>2. /\ n = job.latest /\ n \in 1..Len(blocks) /\ \A i \in 1..n : job.events[i] = blocks[i]
    <3>1. /\ job.latest \in 1..Len(blocks) /\ job.start \in 1..(job.latest + 1)
          /\ n = job.start - 1 /\ \A i \in 1..(job.start - 1) : job.events[i] = blocks[i]
      BY <1>1, <1>6, <2>1 DEF Reading
    <3>2. job.start = job.latest + 1
      BY <1>2, <2>1, <3>1
    <3>3. QED
      BY <2>1, <3>1, <3>2
  <2>3. Life!Basis = blocks[1].amount /\ Life!Basis \in Nat
    <3>1. Len(blocks) > 0 /\ 1 \in 1..Len(blocks)
      BY <2>1, <2>2
    <3>2. Life!Basis = blocks[1].amount
      BY <1>6, <2>1, <3>1, OpeningIsFirst
    <3>3. blocks[1] \in Events
      BY <2>1, <3>1
    <3>4. QED
      BY <3>2, <3>3 DEF Events
  <2>4. AccountOK(acc, n, opening)
    <3>1. Len(job.events) <= Len(blocks)
      BY <1>1, <2>1, <2>2
    <3>2. \A i \in 1..Len(job.events) : job.events[i] = blocks[i]
      BY <1>1, <2>2
    <3>3. AccountOK(Life!AddUp(marks, opening), Len(job.events), opening)
      BY <2>1, <2>3, <3>1, <3>2, AddUpIsChain
    <3>4. QED
      BY <1>1, <3>3
  <2>5. /\ sum.proceeds = acc.proceeds /\ sum.fees = acc.fees /\ sum.pending = acc.pending
        /\ sum.liquidity = acc.liquidity /\ sum.valued = acc.valued
        /\ (opening.named \/ ~opening.basis) => sum.capital = acc.capital
    <3>1. acc \in Accounts /\ (acc.counted <=> (n > 0 /\ opening.named /\ opening.basis)) /\ n > 0
      BY <2>2, <2>4 DEF AccountOK
    <3>2. CASE ~acc.counted /\ opening.basis
      <4>1. sum = [acc EXCEPT !.capital = @ + Life!Basis, !.counted = TRUE]
        BY <1>1, <3>2 DEF Life!WithBasis
      <4>2. /\ sum.proceeds = acc.proceeds /\ sum.fees = acc.fees /\ sum.pending = acc.pending
            /\ sum.liquidity = acc.liquidity /\ sum.valued = acc.valued
        BY <3>1, <4>1 DEF Accounts
      <4>3. ~(opening.named \/ ~opening.basis)
        BY <3>1, <3>2
      <4>4. QED
        BY <4>2, <4>3
    <3>3. CASE ~(~acc.counted /\ opening.basis)
      <4>1. sum = acc
        BY <1>1, <3>3 DEF Life!WithBasis
      <4>2. QED
        BY <4>1
    <3>4. QED
      BY <3>2, <3>3
  <2>6. sum.valued /\ sum.pending = 0 /\ sum.liquidity = 0
    BY <1>6 DEF Life!Complete
  <2>7. PICK m \in BOOLEAN : m <=> (opening.named \/ ~opening.basis)
    OBVIOUS
  <2>8. /\ account'.since = 1 /\ account'.latest = n /\ account'.proceeds = sum.proceeds /\ account'.fees = sum.fees
        /\ account'.capital = sum.capital
        /\ account'.matched <=> (opening.named \/ ~opening.basis)
    BY <1>2, <1>6, <2>2
  <2>9. Whole(account')
    <3>1. PICK f, d, c, l, o, r : /\ f = acc.fees /\ d = Paid(blocks, "decrease", n)
                                  /\ c = Paid(blocks, "collect", n) /\ l = acc.liquidity
                                  /\ o = Moved(blocks, "increase", n)
                                  /\ r = Moved(blocks, "decrease", n)
      OBVIOUS
    <3>2. f \in Nat /\ d \in Nat /\ c \in Nat /\ l \in Nat /\ o \in Nat /\ r \in Nat
      <4>1. PICK s : s = blocks
        OBVIOUS
      <4>2. s \in Seq(Events) /\ n \in 0..Len(s)
        BY <2>1, <2>2, <4>1
      <4>3. d \in Nat /\ c \in Nat
        BY <3>1, <4>1, <4>2, PaidAre
      <4>4. o \in Nat /\ r \in Nat
        BY <3>1, <4>1, <4>2, MovedAre
      <4>5. f \in Nat /\ l \in Nat
        BY <2>4, <3>1 DEF AccountOK, Accounts
      <4>6. QED
        BY <4>3, <4>4, <4>5
    <3>3. acc.valued /\ acc.pending = 0 /\ acc.liquidity = 0
      BY <2>5, <2>6
    <3>4. l + r = o /\ f + d = c + 0 /\ l = 0
      BY <2>4, <3>1, <3>3 DEF AccountOK
    <3>5. o = r /\ f = c - d
      BY <3>2, <3>4
    <3>6. acc.proceeds = Paid(blocks, "collect", n)
      BY <2>4, <3>3 DEF AccountOK
    <3>7. (opening.named \/ ~opening.basis) => acc.capital = Paid(blocks, "increase", n)
      BY <2>4, <3>3 DEF AccountOK
    <3>8. QED
      BY <2>5, <2>8, <3>1, <3>5, <3>6, <3>7 DEF Whole
  <2>10. account'.latest \in 1..Len(blocks)
    BY <2>1, <2>2, <2>8
  <2>11. QED
    BY <1>2, <1>3, <2>9, <2>10, JobKeeps
<1>7. QED
  BY <1>4, <1>5, <1>6

LEMMA ReviewKeeps ==
    ASSUME LifeInv, NEW marks, NEW opening, NEW gasPriced,
           Life!SettleReviewed(marks, opening, gasPriced)
    PROVE  LifeInv'
<1>1. /\ blocks' = blocks /\ nft' = nft /\ job' = Life!NoJob
      /\ account' = [Life!NoAccount EXCEPT !.complete = TRUE, !.source = "review",
                                           !.since = job.since, !.latest = job.latest]
  BY DEF Life!SettleReviewed, Life!JobUnchanged
<1>2. ~FromChain'
  BY <1>1 DEF FromChain, Life!NoAccount
<1>3. job' \in Jobs /\ job.pc' # "logs"
  BY <1>1, NoJobTyped
<1>4. QED
  BY <1>1, <1>2, <1>3, AccountKeeps, JobKeeps

LEMMA LifeStep == LifeInv /\ [Life!LifeNext]_lifeVars => LifeInv'
<1> SUFFICES ASSUME LifeInv, [Life!LifeNext]_lifeVars PROVE LifeInv'
  OBVIOUS
<1>1. CASE UNCHANGED lifeVars
  <2>1. blocks' = blocks /\ nft' = nft /\ job' = job /\ account' = account
    BY <1>1 DEF lifeVars
  <2>2. job' \in Jobs /\ (job.pc' = "logs" => Reading')
    BY <2>1 DEF LifeInv, Reading
  <2>3. QED
    BY <2>1, <2>2, AccountKeeps, JobKeeps
<1>2. CASE Life!LifeNext
  <2>1. \/ \E l \in 1..MaxSupply : Life!Increase(l) \/ \E back \in {0, l} : Life!Decrease(l, back)
        \/ Life!EarnFee \/ Life!ScanRow
        \/ \E amount \in 1..(nft.principal + nft.fees) : Life!Collect(amount)
        \/ Life!BeginFinalise \/ Life!NoOpening \/ Life!ReadRange \/ Life!RefuseRange
        \/ Life!FailRange
        \/ \E gasPriced \in BOOLEAN, opening \in Openings :
              \E marks : \/ Life!Settle(marks, opening, gasPriced)
                         \/ Life!SettleReviewed(marks, opening, gasPriced)
    BY <1>2 DEF Life!LifeNext, Openings
  <2>2. QED
    BY <2>1, IncreaseKeeps, DecreaseKeeps, EarnKeeps, ScanKeeps, CollectKeeps, BeginKeeps,
       NoneKeeps, ReadKeeps, RefuseKeeps, FailKeeps, SettleKeeps, ReviewKeeps
<1>3. QED
  BY <1>1, <1>2 DEF Life!lifeVars, lifeVars

LEMMA LifeIsWhole == LifeInv => ClosedAccountsAreWhole
<1> SUFFICES ASSUME LifeInv, Life!FromOpening
             PROVE  /\ Life!Supplied(account.latest) = Life!Removed(account.latest)
                    /\ account.proceeds = Life!Total("collect", account.latest)
                    /\ account.fees = Life!Total("collect", account.latest)
                                        - Life!Total("decrease", account.latest)
                    /\ account.matched => account.capital = Life!Total("increase", account.latest)
  BY DEF ClosedAccountsAreWhole, Life!ClosedAccountsAreWhole
<1>1. Whole(account) /\ account.since = 1
  <2>1. /\ Whole(account) /\ account.latest \in 1..Len(blocks) /\ Orderly(blocks)
        /\ Len(blocks) \in Nat
    BY DEF LifeInv, FromChain, Life!FromOpening
  <2>2. account.since \in Nat \ {0} /\ blocks[1].kind = "increase"
    BY <2>1 DEF Whole, Orderly
  <2>3. account.since # 1 => 1 \in 1..(account.since - 1)
    BY <2>2
  <2>4. QED
    BY <2>1, <2>2, <2>3 DEF Life!FromOpening
<1>2. PICK k : k = account.latest
  OBVIOUS
<1>3. /\ Life!Supplied(k) = Moved(blocks, "increase", k)
      /\ Life!Removed(k) = Moved(blocks, "decrease", k)
      /\ \A kind : Life!Total(kind, k) = Paid(blocks, kind, k)
  BY TotalsAre
<1>4. QED
  BY <1>1, <1>2, <1>3 DEF Whole

(***************************************************************************)
(* The parts together: each moves as it does alone, or rests.              *)
(***************************************************************************)
LEMMA PartsInit == ReadingsInit => Init /\ MarketInit /\ Tracking!Init /\ Life!LifeInit
BY DEF ReadingsInit

LEMMA PartsStep ==
    [ReadingsNext]_readingVars =>
        /\ [Next]_vars /\ [MarketNext]_marketVars
        /\ [Tracking!Next]_trackerVars /\ [Life!LifeNext]_lifeVars
BY DEF ReadingsNext, readingVars, vars, marketVars, trackerVars, lifeVars

(* What is proved of the fee reads and of the market client alone holds of *)
(* them beside the others (scan_chain_positions, MarketDataClient).        *)
THEOREM ReadingsAreSafe ==
    ReadingsSpec => [](GrowthReadIsExact /\ StoredIsConservative /\ CooldownIsKept)
<1>1. ReadingsSpec => Spec /\ MarketSpec
  BY PartsInit, PartsStep, PTL DEF ReadingsSpec, Spec, MarketSpec
<1>2. QED
  BY <1>1, GrowthExact, StoredLeast, CooldownKept, PTL

(* What the tracker counts as earned or collected exceeds what the pool    *)
(* paid by no more than the readings were off, unless two scans overlapped:*)
(* for any amounts read, either source, any number of threads, and any     *)
(* window, spacing and retention (_rolling_fee_tracker).                   *)
THEOREM CountedIsPaid == ReadingsSpec => []CountsRealFeesOnly
<1>1. ReadingsInit => TrackerInv
  BY PartsInit, TrackerInit
<1>2. TrackerInv /\ [ReadingsNext]_readingVars => TrackerInv'
  BY PartsStep, TrackerStep
<1>3. QED
  BY <1>1, <1>2, TrackerCountsReal, PTL DEF ReadingsSpec

(* The rolling sum leaves out nothing first counted inside the window and, *)
(* while every observation is there, counts nothing older: for any number  *)
(* of threads, either source of amounts, and any window, retention and     *)
(* spacing (_rolling_fee_tracker).                                         *)
THEOREM WindowsAreTrue == ReadingsSpec => []RollingIsWindow
<1>1. ReadingsInit => WindowInv
  BY PartsInit, WindowInit
<1>2. WindowInv /\ [ReadingsNext]_readingVars => WindowInv'
  BY PartsStep, WindowStep
<1>3. QED
  BY <1>1, <1>2, DatedIsWindow, PTL DEF ReadingsSpec

(* Accounts that a pass freezes from the chain are those of the whole life *)
(* of the NFT up to the block they were read at: it was empty, proceeds    *)
(* are all it paid, fees what it paid beyond the principal, and capital    *)
(* all that went in unless the opening went unrecognised beside a stored   *)
(* basis.  However the provider shrinks the ranges, whichever events have  *)
(* no price and however principal and fees are collected, for a chain of   *)
(* any length (finalise_closed_positions_from_store,                       *)
(* _closed_position_final).                                                *)
THEOREM AccountsAreWhole == ReadingsSpec => []ClosedAccountsAreWhole
<1>1. ReadingsInit => LifeInv
  BY PartsInit, LifeBegins
<1>2. LifeInv /\ [ReadingsNext]_readingVars => LifeInv'
  BY PartsStep, LifeStep
<1>3. QED
  BY <1>1, <1>2, LifeIsWhole, PTL DEF ReadingsSpec
===================================================================================
