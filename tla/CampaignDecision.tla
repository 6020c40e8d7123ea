----------------------------- MODULE CampaignDecision -----------------------------
(***************************************************************************)
(* What is recommended for a campaign: keep the position, re-range it,     *)
(* wait, or exit.  The request reads the campaign, builds a first decision *)
(* only to learn which leg it is about, runs Profit Lab for that leg's     *)
(* pool, which takes long and holds no lock, and builds the decision again *)
(* from rows and a thesis read anew but with the legs of the campaign as   *)
(* first read.  Refreshes and thesis research happen meanwhile.            *)
(*                                                                         *)
(* Money is in dollars, the age of a thesis in ticks of half its life.     *)
(***************************************************************************)
EXTENDS Integers

CONSTANTS
    Legs,        \* positions of the campaign
    MaxFee,      \* bound on the fees and profits of a horizon
    MaxChanges   \* bound on the refreshes and the theses

VARIABLES legs, thesis, request, changes
decisionVars == <<legs, thesis, request, changes>>

None == "none"
FreshTicks == 1
Places == {"inside", "edge", "out", "unknown"}
Comforts == {"good", "bad", "unsure"}
Leg == [open : BOOLEAN, value : 0..2, place : Places]
NoForecast == [leg |-> None]
NoRequest == [pc |-> "idle", asked |-> None, context |-> {}, base |-> None,
              forecast |-> NoForecast, leg |-> None, outcome |-> None, keep |-> 0,
              disturbed |-> FALSE]

DecisionInit ==
    /\ legs = [l \in Legs |-> [open |-> TRUE, value |-> 1, place |-> "inside"]]
    /\ thesis = [age |-> FreshTicks + 1, comfort |-> "unsure"]
    /\ request = NoRequest
    /\ changes = 0

--------------------------------------------------------------------------------
(* The scheduler: a leg changes or closes; a thesis is made or ages.       *)
RefreshLeg(l) ==
    /\ changes < MaxChanges /\ changes' = changes + 1
    /\ \E row \in Leg :
          /\ row.open => legs[l].open
          /\ ~row.open => row.value = 0
          /\ row # legs[l]
          /\ legs' = [legs EXCEPT ![l] = row]
    /\ request' = [request EXCEPT !.disturbed = @ \/ request.pc \notin {"idle", "done"}]
    /\ UNCHANGED thesis

Research ==
    /\ changes < MaxChanges /\ changes' = changes + 1
    /\ \E c \in Comforts : thesis' = [age |-> 0, comfort |-> c]
    /\ UNCHANGED <<legs, request>>

Age ==
    /\ thesis.age <= FreshTicks
    /\ thesis' = [thesis EXCEPT !.age = @ + 1]
    /\ UNCHANGED <<legs, request, changes>>

IsFreshThesis == thesis.age <= FreshTicks
StrongExitCaution == IsFreshThesis /\ thesis.comfort = "bad"

--------------------------------------------------------------------------------
OpenLegs == {l \in Legs : legs[l].open}

(* The leg a decision is about: the one asked for, or the one of the       *)
(* context that is worth most by the rows of now.                          *)
Richest(context) ==
    IF context = {} THEN None
    ELSE CHOOSE l \in context : \A k \in context : legs[k].value <= legs[l].value
ActiveLeg(asked, context) == IF asked # None THEN asked ELSE Richest(context)

(* Fees a position out of range goes on to earn are none.                  *)
InRange(place) == place \in {"inside", "edge"}
Continuations(place) == IF InRange(place) THEN 0..MaxFee ELSE {0}

(* What a fresh range has to beat: the fees of going on, by 15 per cent,   *)
(* and a quarter of a dollar; it must recover its costs in the horizon.    *)
Beats(net, keep) == 100 * net > 25 /\ 100 * net > 115 * keep
Worthwhile_Gross(f, place, keep) ==
    /\ f # NoForecast /\ f.recovers
    /\ IF InRange(place) THEN place = "edge" /\ Beats(f.net + keep, keep) ELSE 100 * f.net > 25
Worthwhile(f, place, keep) ==
    /\ f # NoForecast /\ f.recovers
    /\ IF InRange(place) THEN place = "edge" /\ Beats(f.net, keep) ELSE 100 * f.net > 25

Recommended(f, place, keep) ==
    IF StrongExitCaution THEN "EXIT"
    ELSE IF Worthwhile(f, place, keep) THEN "RE_RANGE"
    ELSE IF InRange(place) THEN "KEEP" ELSE "HODL_WAIT"
Idle(held) == IF held THEN "HODL_WAIT" ELSE "NO_ACTIVE_CAPITAL"

--------------------------------------------------------------------------------
Ask ==
    /\ request.pc \in {"idle", "done"}
    /\ \E asked \in Legs \cup {None} :
          request' = [NoRequest EXCEPT !.pc = "context", !.asked = asked, !.context = OpenLegs]
    /\ UNCHANGED <<legs, thesis, changes>>

Base ==
    /\ request.pc = "context"
    /\ LET l == ActiveLeg(request.asked, request.context)
       IN request' =
            IF request.asked \notin request.context \cup {None}
            THEN [request EXCEPT !.pc = "done", !.outcome = "REFUSED"]
            ELSE [request EXCEPT !.base = l, !.pc = IF l = None THEN "decide" ELSE "lab"]
    /\ UNCHANGED <<legs, thesis, changes>>

Lab ==
    /\ request.pc = "lab"
    /\ \E f \in [leg : {request.base}, net : -1..MaxFee, recovers : BOOLEAN] \cup {NoForecast} :
          request' = [request EXCEPT !.pc = "decide", !.forecast = f]
    /\ UNCHANGED <<legs, thesis, changes>>

Decide ==
    /\ request.pc = "decide"
    /\ LET l == ActiveLeg(request.asked, request.context)
       IN \/ /\ l = None
             /\ \E held \in BOOLEAN :
                   request' = [request EXCEPT !.pc = "done", !.outcome = Idle(held)]
          \/ /\ l # None
             /\ \E keep \in Continuations(legs[l].place) :
                   request' = [request EXCEPT !.pc = "done", !.leg = l, !.keep = keep,
                       !.outcome = Recommended(request.forecast, legs[l].place, keep)]
    /\ UNCHANGED <<legs, thesis, changes>>

DecisionNext ==
    \/ Ask \/ Base \/ Lab \/ Decide \/ Research \/ Age
    \/ \E l \in Legs : RefreshLeg(l)

--------------------------------------------------------------------------------
(* A recommendation names one leg and shows a forecast beside it.  When    *)
(* the operator named the leg, or no row changed while Profit Lab worked,  *)
(* the forecast is of that leg's pool; a position is given up for a new    *)
(* range only by a forecast that beats going on, and exited only on a      *)
(* thesis that is fresh.  Otherwise the forecast of one pool can recommend *)
(* moving the position of another, and a leg that closed meanwhile can be  *)
(* the one recommended to be kept.                                         *)
DecisionIsFounded ==
    [][request.pc = "decide" /\ request'.pc = "done" =>
        LET r == request'
            named == r.asked # None
            shown == r.forecast # NoForecast /\ r.leg # None
        IN /\ named => r.leg = r.asked
           /\ shown /\ (named \/ ~r.disturbed) => r.forecast.leg = r.leg
           /\ r.outcome = "RE_RANGE" => shown /\ r.forecast.net > r.keep
           /\ r.outcome = "EXIT" => IsFreshThesis
      ]_decisionVars
================================================================================
