------------------------------- MODULE RangeChoice --------------------------------
(***************************************************************************)
(* How Profit Lab chooses a range and a fee tier.  For the requested pool: *)
(* the fee evidence there is for it, a forecast for every candidate range, *)
(* the guardrails, and the choice among the ranges that earn nearly the    *)
(* most.  Then the pools of the pair's other fee tiers are analysed in the *)
(* same way, and the compatible one that earns most is selected.           *)
(*                                                                         *)
(* Money is in quarters of a dollar; what walk-forward validation,         *)
(* activity, alignment and inventory say of a range is its score; whether  *)
(* its edges suit the volatility and the horizon is "fits".                *)
(***************************************************************************)
EXTENDS Integers, FiniteSetsExt

CONSTANTS
    Ranges,    \* candidate ranges of the requested pool
    Dailies,   \* fees a range may be modelled to earn in a day
    Rates,     \* fees an owned position or the advisor may promise for a day
    Costs,     \* what opening and closing a range may cost
    Tiers      \* pools of the pair in other fee tiers

VARIABLES stage, facts, rows, chosen, analyses, selected
rangeVars == <<stage, facts, rows, chosen, analyses, selected>>

Requested == "requested"
Nothing == "nothing"
Untried == [state |-> "untried"]
Failed == [state |-> "failed"]

RangeInit ==
    /\ stage = "facts"
    /\ facts = Nothing
    /\ rows = [r \in Ranges |-> Untried]
    /\ chosen = Nothing
    /\ analyses = [t \in Tiers |-> Untried]
    /\ selected = Nothing

--------------------------------------------------------------------------------
(* The positions past forecasts are judged by: open or closed, in this     *)
(* pool, in another one of the same pair, or in one that is alike only by  *)
(* chain, class, sleeve or fee tier; modelled is whether the fee model     *)
(* gives anything for the range they had.  The advisor's estimate apart,   *)
(* what an owned position shows is all there is when the pool publishes no *)
(* volume.                                                                 *)
Positions == [open : BOOLEAN, pool : {"this", "pair", "other"}, days : {0, 1, 7},
              fees : BOOLEAN, modelled : BOOLEAN]

(* A position counts after a day, and only if it earned something.         *)
Sample(p) == p.days >= 1 /\ p.fees
ObservedPool(known) == {p \in known : p.open /\ p.pool = "this" /\ Sample(p)}
ObservedPair(known) == {p \in known : p.open /\ p.pool \in {"this", "pair"} /\ Sample(p)}
OwnedRate(known) ==
    IF ObservedPool(known) # {} THEN "EXACT_OWNED_POOL"
    ELSE IF ObservedPair(known) # {} THEN "SAME_PAIR_OWNED_PRIOR" ELSE "NONE"

(* Fees were "ratio" per cent of what the model gave, shrunk towards 100;  *)
(* the correction stays within bounds that the age of the evidence from    *)
(* this very pool widens, open or not.                                     *)
Clamp(lo, hi, n) == Max({lo, Min({hi, n})})
Samples(known) == {p \in known : Sample(p) /\ p.modelled}
EvidenceAge(known) == Max({p.days : p \in {q \in Samples(known) : q.pool = "this"}} \cup {0})
Calibration(known, ratio) ==
    IF Samples(known) = {} THEN 100
    ELSE IF EvidenceAge(known) < 3 THEN Clamp(80, 125, ratio)
    ELSE IF EvidenceAge(known) < 7 THEN Clamp(65, 150, ratio)
    ELSE Clamp(50, 200, ratio)

(* Where the fees of a forecast come from.  Without volume, value and fee  *)
(* tier there is no model, and a model may come to nothing.                *)
HasModel(f, daily) == f.volume /\ f.tvl /\ daily > 0
Empirical(f, daily) ==
    IF f.owned # "NONE" THEN f.owned
    ELSE IF f.advised /\ ~HasModel(f, daily) THEN "ADVISOR" ELSE "NONE"

(* The empirical rate replaces a missing model, but it is called public,   *)
(* and corrected like a model, when the pool does publish a volume.        *)
IsPublic(f, daily) ==
    \/ Empirical(f, daily) = "NONE"
    \/ Empirical(f, daily) # "ADVISOR" /\ f.volume
Raw(f, daily, rate) == IF HasModel(f, daily) THEN daily ELSE rate
Fees(f, daily, rate) ==
    (IF IsPublic(f, daily) THEN f.factor ELSE 100) * Raw(f, daily, rate)

(* A range with neither a model nor an empirical rate is not a candidate.  *)
Row(f, daily, rate, cost, fits, score) ==
    IF ~HasModel(f, daily) /\ Empirical(f, daily) = "NONE" THEN Failed
    ELSE [state |-> "row", net |-> Fees(f, daily, rate) - 100 * cost,
          raw |-> Raw(f, daily, rate), public |-> IsPublic(f, daily),
          model |-> HasModel(f, daily), eligible |-> fits, score |-> score]

ReadFacts ==
    /\ stage = "facts" /\ stage' = "rows"
    /\ \E p, q \in Positions, volume, tvl, advised \in BOOLEAN, ratio \in {20, 100, 500} :
          \E known \in {{}, {p}, {p, q}} :
             facts' = [volume |-> volume, tvl |-> tvl, advised |-> advised,
                       owned |-> OwnedRate(known), age |-> EvidenceAge(known),
                       factor |-> Calibration(known, ratio)]
    /\ UNCHANGED <<rows, chosen, analyses, selected>>

AddRow(r) ==
    /\ stage = "rows" /\ rows[r] = Untried
    /\ \E daily \in Dailies, rate \in Rates, cost \in Costs, score \in 0..1,
          fits \in BOOLEAN :
          rows' = [rows EXCEPT ![r] = Row(facts, daily, rate, cost, fits, score)]
    /\ UNCHANGED <<stage, facts, chosen, analyses, selected>>

--------------------------------------------------------------------------------
Rows == {r \in Ranges : rows[r].state = "row"}
Eligible == {r \in Rows : rows[r].eligible}

(* Ranges within 3 to 8 per cent of the best one, or a quarter of a        *)
(* dollar, earn as good as the same: the score decides among them.         *)
BestNet(S) == Max({rows[r].net : r \in S})
Tolerance(best, confidence) == Max({100, (best * confidence) \div 100})
NearBest_All(S, confidence) == S
NearBest(S, confidence) ==
    {r \in S : rows[r].net >= BestNet(S) - Tolerance(BestNet(S), confidence)}
BestScored(S, confidence) ==
    {r \in NearBest(S, confidence) :
        \A q \in NearBest(S, confidence) : rows[q].score <= rows[r].score}

Choose ==
    /\ stage = "rows" /\ \A r \in Ranges : rows[r] # Untried
    /\ IF Eligible = {} THEN stage' = "refused" /\ UNCHANGED chosen
       ELSE /\ stage' = "tiers"
            /\ \E confidence \in {3, 8} : chosen' \in BestScored(Eligible, confidence)
    /\ UNCHANGED <<facts, rows, analyses, selected>>

(* Another tier: an analysis like the above, by the same code.  Its price  *)
(* is in per cent of that of the requested pool.                           *)
TierAnalyses ==
    [state : {"row"}, net : {-100, 100, 3000}, spot : {60, 100, 200}, sameUnit : BOOLEAN]
Compatible(a) ==
    /\ a.sameUnit
    /\ 2 * Max({a.spot, 100}) <= 3 * Min({a.spot, 100})
AnalyseTier(t) ==
    /\ stage = "tiers" /\ analyses[t] = Untried
    /\ \E a \in TierAnalyses :
          analyses' = [analyses EXCEPT ![t] = IF Compatible(a) THEN a ELSE Failed]
    /\ UNCHANGED <<stage, facts, rows, chosen, selected>>

TierFails(t) ==
    /\ stage = "tiers" /\ analyses[t] = Untried
    /\ analyses' = [analyses EXCEPT ![t] = Failed]
    /\ UNCHANGED <<stage, facts, rows, chosen, selected>>

NetOf(a) == IF a = Requested THEN rows[chosen].net ELSE analyses[a].net
Analysed == {Requested} \cup {t \in Tiers : analyses[t].state = "row"}
Select ==
    /\ stage = "tiers" /\ \A t \in Tiers : analyses[t] # Untried
    /\ stage' = "done"
    /\ selected' \in {a \in Analysed : \A b \in Analysed : NetOf(b) <= NetOf(a)}
    /\ UNCHANGED <<facts, rows, chosen, analyses>>

RangeNext ==
    \/ ReadFacts \/ Choose \/ Select
    \/ \E r \in Ranges : AddRow(r)
    \/ \E t \in Tiers : AnalyseTier(t) \/ TierFails(t)

--------------------------------------------------------------------------------
(* What the operator is told to deploy into: a range that passed the       *)
(* guardrails, that rests on a fee model or on fees somebody earned or     *)
(* advised, and that no other such range beats by more than the tolerance; *)
(* and a pool that trades at the price of the requested one and is not     *)
(* expected to earn less than it.  The past corrects a public forecast by  *)
(* a quarter at most as long as nothing held in this pool, open or closed, *)
(* is three days old, and never more than doubles it.  What an owned       *)
(* position earned is carried over uncorrected when the pool publishes no  *)
(* volume, however young the position is: nothing bounds that forecast.    *)
ChoiceIsDefensible ==
    stage = "done" =>
        LET best == rows[chosen]
            most == IF ~best.public THEN 100 ELSE IF facts.age < 3 THEN 125 ELSE 200
        IN /\ best.eligible
           /\ best.model \/ facts.owned # "NONE" \/ facts.advised
           /\ \A r \in Rows : rows[r].eligible =>
                 LET less == rows[r].net - best.net
                 IN less <= 100 \/ 100 * less <= 8 * rows[r].net
           /\ best.net <= most * best.raw
           /\ NetOf(selected) >= best.net
           /\ selected # Requested =>
                 /\ analyses[selected].sameUnit
                 /\ analyses[selected].spot \in 67..150
================================================================================
