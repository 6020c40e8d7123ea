-------------------------------- MODULE Decisions ---------------------------------
(***************************************************************************)
(* The parts of the program that advise and do not act: the history and    *)
(* the choice behind a Profit Lab analysis (ProfitHistory, RangeChoice),   *)
(* the request that serves it (ProfitDesk), the decision for a campaign    *)
(* (CampaignDecision), and where capital goes (CapitalPlan,                *)
(* CapitalAdvice).  They call one another and share no state that is       *)
(* modelled, so an execution is one of a single part, in which the results *)
(* of the others are whatever the callee's model allows.                   *)
(***************************************************************************)
EXTENDS CapitalPlan

CONSTANTS Levels, MaxAge, MaxHour, Askers, Questions, KeyOf, PoolOf, Reuse, MaxSecond,
          Legs, MaxFee, MaxChanges, Ranges, Dailies, Rates, Costs, Tiers, Pools

ASSUME DecisionsAssumption ==
    /\ Levels \subseteq Nat \ {0} /\ Levels # {}
    /\ {MaxAge, MaxHour, Reuse, MaxSecond, MaxFee, MaxChanges} \subseteq Nat
    /\ Dailies \subseteq Nat /\ Rates \subseteq Nat /\ Costs \subseteq Nat
    /\ Questions \subseteq DOMAIN PoolOf \cap DOMAIN KeyOf /\ "nobody" \notin Askers
    /\ IsFiniteSet(Ranges) /\ IsFiniteSet(Pools)

VARIABLES part,
          hour, spot, saved, load,
          tick, results, lastResult, holder, asks,
          legs, thesis, request, changes,
          stage, facts, rows, chosen, analyses, selected,
          found, advice

History == INSTANCE ProfitHistory
Desk == INSTANCE ProfitDesk
Campaign == INSTANCE CampaignDecision
Choice == INSTANCE RangeChoice
Advice == INSTANCE CapitalAdvice

historyVars == <<hour, spot, saved, load>>
labVars == <<tick, results, lastResult, holder, asks>>
decisionVars == <<legs, thesis, request, changes>>
rangeVars == <<stage, facts, rows, chosen, analyses, selected>>
adviceVars == <<found, advice>>
vars == <<part, historyVars, labVars, decisionVars, rangeVars, capitalVars, adviceVars>>

Init ==
    /\ part \in {"history", "desk", "campaign", "choice", "capital", "advice"}
    /\ History!HistoryInit /\ Desk!LabInit /\ Campaign!DecisionInit
    /\ Choice!RangeInit /\ CapitalInit /\ Advice!AdviceInit

Next ==
    \/ /\ part = "history" /\ History!HistoryNext
       /\ UNCHANGED <<part, labVars, decisionVars, rangeVars, capitalVars, adviceVars>>
    \/ /\ part = "desk" /\ Desk!LabNext
       /\ UNCHANGED <<part, historyVars, decisionVars, rangeVars, capitalVars, adviceVars>>
    \/ /\ part = "campaign" /\ Campaign!DecisionNext
       /\ UNCHANGED <<part, historyVars, labVars, rangeVars, capitalVars, adviceVars>>
    \/ /\ part = "choice" /\ Choice!RangeNext
       /\ UNCHANGED <<part, historyVars, labVars, decisionVars, capitalVars, adviceVars>>
    \/ /\ part = "capital" /\ CapitalNext
       /\ UNCHANGED <<part, historyVars, labVars, decisionVars, rangeVars, adviceVars>>
    \/ /\ part = "advice" /\ Advice!AdviceNext
       /\ UNCHANGED <<part, historyVars, labVars, decisionVars, rangeVars, capitalVars>>

Spec == Init /\ [][Next]_vars

--------------------------------------------------------------------------------
(* A full history is in the units of the pool, a saved one fresh, and a    *)
(* load is refused only when nothing that can be used is left:             *)
(* _load_pool_and_history (see ProfitHistory for what may get lost).       *)
HistoryIsUsable == History!HistoryIsUsable

(* profit_recommend computes once for a burst of the same request (see     *)
(* ProfitDesk).                                                            *)
OneComputationPerBurst == Desk!OneComputationPerBurst

(* The labels live, reused and stale of profit_recommend say what the      *)
(* panel shows (see ProfitDesk).                                           *)
AnswersAreLabelled == Desk!AnswersAreLabelled

(* campaign_decision recommends about the leg named, with that leg's       *)
(* forecast if it was named or undisturbed, and exits only on a fresh      *)
(* thesis (see CampaignDecision).                                          *)
DecisionIsFounded == Campaign!DecisionIsFounded

(* The range and the pool of recommend_profit_range rest on evidence and   *)
(* are nearly the best of those that may be used (see RangeChoice).        *)
ChoiceIsDefensible == Choice!ChoiceIsDefensible

(* rank_opportunities and profit_search leave the reserve alone and keep   *)
(* to ceilings and gates (see CapitalAdvice).                              *)
AdviceIsAffordable == Advice!AdviceIsAffordable
================================================================================
