------------------------------- MODULE CapitalPlan --------------------------------
(***************************************************************************)
(* How much capital goes where.  The limits of suggest_allocation, which   *)
(* is asked for one opportunity at a time, with the rows of the open       *)
(* positions, which show an opening or a closing only after the next scan  *)
(* of its chain, and with the cash the caller says there is; what was      *)
(* suggested is opened later.                                              *)
(*                                                                         *)
(* Values are in 1/800 of the portfolio, whose worth does not change, and  *)
(* divisions round down.                                                   *)
(***************************************************************************)
EXTENDS Integers, FiniteSets, FiniteSetsExt, Functions

CONSTANTS
    Chains,      \* chains with pools
    Pages,       \* pages from which suggestions are asked for
    MaxOpens     \* bound on the positions opened

ASSUME CapitalAssumption == MaxOpens \in Nat /\ IsFiniteSet(Chains)

Core == "CORE_INCOME"
Tactical == "TACTICAL_CAMPAIGN"
Sleeves == {Core, Tactical}
Total == 800
Reserve == 80          \* minimum_reserve_pct of 10
TacticalLimit == 160   \* max_tactical_total_pct of 20
ChainLimit == 480      \* max_single_chain_pct of 60
SingleLimit == [s \in Sleeves |-> IF s = Core THEN 320 ELSE 60]
MinScore == 65

VARIABLES invested,   \* what is in the pools, by sleeve and chain
          listed,     \* what the rows say is
          plans, blind, opens
capitalVars == <<invested, listed, plans, blind, opens>>

NoPlan == [amount |-> 0]
Plan == [sleeve : Sleeves, chain : Chains, amount : 1..Total]

CapitalTypeOK ==
    /\ {invested, listed} \subseteq [Sleeves \X Chains -> 0..Total]
    /\ plans \in [Pages -> Plan \cup {NoPlan}]
    /\ blind \in BOOLEAN /\ opens \in 0..MaxOpens

CapitalInit ==
    /\ invested = [b \in Sleeves \X Chains |-> 0]
    /\ listed = invested
    /\ plans = [a \in Pages |-> NoPlan]
    /\ blind = FALSE
    /\ opens = 0

--------------------------------------------------------------------------------
InSleeve(book, s) == MapThenSumSet(LAMBDA c : book[<<s, c>>], Chains)
OnChain(book, c) == book[<<Core, c>>] + book[<<Tactical, c>>]
CashOf(book) == Total - InSleeve(book, Core) - InSleeve(book, Tactical)
Cash == CashOf(invested)
Room(n) == Max({0, n})

(* A quarter of what one position may be for the least score, all of it    *)
(* for the best.                                                           *)
Quality(s, score) == (SingleLimit[s] * (35 + 3 * (score - MinScore))) \div 140
SleeveRoom_Any(s) == Total
SleeveRoom(s) == IF s = Tactical THEN Room(TacticalLimit - InSleeve(listed, s)) ELSE Total
Suggested(s, c, score, told) ==
    IF score < MinScore THEN 0
    ELSE Min({Room(told - Reserve), SleeveRoom(s), SingleLimit[s],
              Room(ChainLimit - OnChain(listed, c)), Quality(s, score)})

(* The caller tells the cash there is, or the cash the rows leave.         *)
Suggest(a, s, c) ==
    /\ plans[a] = NoPlan
    /\ \E score \in {60, MinScore, 100}, told \in {Cash, CashOf(listed)} :
          /\ Suggested(s, c, score, told) > 0
          /\ plans' = [plans EXCEPT ![a] =
                          [sleeve |-> s, chain |-> c, amount |-> Suggested(s, c, score, told)]]
    /\ blind' = (blind \/ listed # invested \/ \E b \in Pages : plans[b] # NoPlan)
    /\ UNCHANGED <<invested, listed, opens>>

OpenPlanned(a) ==
    /\ plans[a] # NoPlan /\ opens < MaxOpens
    /\ opens' = opens + 1
    /\ invested' = [invested EXCEPT ![<<plans[a].sleeve, plans[a].chain>>] = @ + plans[a].amount]
    /\ plans' = [plans EXCEPT ![a] = NoPlan]
    /\ UNCHANGED <<listed, blind>>

Discard(a) ==
    /\ plans[a] # NoPlan /\ plans' = [plans EXCEPT ![a] = NoPlan]
    /\ UNCHANGED <<invested, listed, blind, opens>>

CloseAll(s, c) ==
    /\ invested[<<s, c>>] > 0
    /\ invested' = [invested EXCEPT ![<<s, c>>] = 0]
    /\ UNCHANGED <<listed, plans, blind, opens>>

(* A scan of a chain writes its rows (PositionLifecycle).                  *)
ListChain(c) ==
    /\ listed' = [b \in Sleeves \X Chains |-> IF b[2] = c THEN invested[b] ELSE listed[b]]
    /\ UNCHANGED <<invested, plans, blind, opens>>

CapitalNext ==
    \/ \E a \in Pages : OpenPlanned(a) \/ Discard(a)
    \/ \E a \in Pages, s \in Sleeves, c \in Chains : Suggest(a, s, c)
    \/ \E s \in Sleeves, c \in Chains : CloseAll(s, c)
    \/ \E c \in Chains : ListChain(c)

--------------------------------------------------------------------------------
(* "Limits are safety ceilings" (allocation.py): however positions are     *)
(* opened and closed, the reserve, the tactical book and every chain stay  *)
(* within them, unless some suggestion was asked for without sight of what *)
(* was taken already: while another one was open, or before a scan had     *)
(* brought the rows up to date.  Then it is given room that is not there,  *)
(* and nothing in the code prevents it.                                    *)
LimitsHold ==
    blind \/
        /\ Cash >= Reserve
        /\ InSleeve(invested, Tactical) <= TacticalLimit
        /\ \A c \in Chains : OnChain(invested, c) <= ChainLimit
================================================================================
