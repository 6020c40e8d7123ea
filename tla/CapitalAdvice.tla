------------------------------ MODULE CapitalAdvice -------------------------------
(***************************************************************************)
(* The two plans that spread capital over several pools: the Portfolio     *)
(* Advisor's (rank_opportunities), for pools that pass the risk gates of a *)
(* preliminary evaluation, and Profit Search's, for pools whose forecast   *)
(* is a profit.  Pools are found one by one and the plan is made at the    *)
(* end.                                                                    *)
(*                                                                         *)
(* Money is in 1/1000 of the capital; divisions round down.                *)
(***************************************************************************)
EXTENDS Integers, FiniteSets, FiniteSetsExt, Functions

CONSTANT Pools

VARIABLES found, advice
adviceVars == <<found, advice>>

Core == "CORE_INCOME"
Tactical == "TACTICAL_CAMPAIGN"
Unseen == [pair |-> "unseen"]
NoAdvice == [by |-> "nobody"]
Capital == 1000

(* tvl: below 150 thousand, below a million, or more; age: below 2 days,   *)
(* below 30, or more; sound: a positive return, activity that may be       *)
(* extrapolated, and a score over the threshold of the sleeve, of which    *)
(* the weight is what the score is worth.                                  *)
Pool == [pair : {"majorStable", "major", "other"}, leans : {Core, Tactical},
         tvl : 0..2, age : 0..2, sound : BOOLEAN, weight : {50, 400}]

AdviceInit ==
    /\ found = [p \in Pools |-> Unseen]
    /\ advice = NoAdvice

--------------------------------------------------------------------------------
(* A major with a stable coin is core whatever else it is; for others the  *)
(* scores decide.                                                          *)
SleeveOf(p) == IF found[p].pair = "majorStable" THEN Core ELSE found[p].leans

(* The evaluation gives every pool a liquidity stability of 60, and core   *)
(* asks for 75: no pool gets through the core gate here.                   *)
LiquidityStability == 60
CoreGate(p) ==
    /\ LiquidityStability >= 75
    /\ found[p].pair # "other" /\ found[p].age = 2 /\ found[p].tvl = 2
TacticalGate_Young(p) ==
    LiquidityStability >= 40 /\ found[p].pair # "other" /\ found[p].tvl >= 1
TacticalGate(p) ==
    /\ LiquidityStability >= 40 /\ found[p].pair # "other"
    /\ found[p].age >= 1 /\ found[p].tvl >= 1
Gate(p) == IF SleeveOf(p) = Core THEN CoreGate(p) ELSE TacticalGate(p)

Ceiling(by, p) ==
    CASE by = "search" -> IF SleeveOf(p) = Core THEN 70 ELSE 35
      [] by = "best" -> IF SleeveOf(p) = Core THEN 100 ELSE 35
      [] OTHER -> IF SleeveOf(p) = Core THEN 75 ELSE 30

(* By weight, up to the ceiling.  The passes after that, which give what   *)
(* is left to pools with room while the tactical book is under 35 per cent *)
(* of the plan, find none: two tactical pools already have more than that, *)
(* one is at its ceiling, and core pools are not funded.                   *)
Share(p, S, deployable) ==
    (deployable * found[p].weight) \div MapThenSumSet(LAMBDA q : found[q].weight, S)
Funded(by, S, deployable) ==
    [p \in S |-> Min({Share(p, S, deployable), (deployable * Ceiling(by, p)) \div 100})]

(* The best n pools by weight.                                             *)
Best(S, n) ==
    {p \in S : Cardinality({q \in S : found[q].weight > found[p].weight}) < n}
Cut(S, n) == {T \in SUBSET Best(S, n) : Cardinality(T) = Min({n, Cardinality(S)})}

Find(p) ==
    /\ advice = NoAdvice /\ found[p] = Unseen
    /\ \E facts \in Pool : found' = [found EXCEPT ![p] = facts]
    /\ UNCHANGED advice

Plan(by, S, n) ==
    /\ advice = NoAdvice /\ \A p \in Pools : found[p] # Unseen
    /\ \E reserve \in {0, 10, 90}, T \in Cut(S, n) :
          LET deployable == Capital - (Capital * reserve) \div 100
          IN advice' = [by |-> by, deployable |-> deployable,
                        amounts |-> Funded(by, T, deployable)]
    /\ found' = [p \in Pools |-> Unseen]

Accepted == {p \in Pools : Gate(p) /\ found[p].sound}
Advise ==
    \/ Plan("best", Accepted, 1)
    \/ \E n \in 1..Cardinality(Pools) : Plan("advisor", Accepted, n)

(* Profit Search asks for a profit alone and takes three pools.            *)
Search == Plan("search", {p \in Pools : found[p].sound}, 3)

AdviceNext == Advise \/ Search \/ \E p \in Pools : Find(p)

--------------------------------------------------------------------------------
(* Either plan leaves the reserve alone and puts no more into a pool than  *)
(* the ceiling of its sleeve; the advisor puts nothing into a pool of less *)
(* than two days or 150 thousand, and, as its gates stand, nothing into a  *)
(* core pool, however good.                                                *)
AdviceIsAffordable ==
    [][advice' # NoAdvice =>
        LET plan == advice'
        IN /\ SumFunction(plan.amounts) <= plan.deployable
           /\ \A p \in DOMAIN plan.amounts :
                 /\ 100 * plan.amounts[p] <= Ceiling(plan.by, p) * plan.deployable
                 /\ plan.by # "search" =>
                       /\ found[p].age >= 1 /\ found[p].tvl >= 1
                       /\ SleeveOf(p) = Tactical
      ]_adviceVars
================================================================================
