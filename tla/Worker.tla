---------------------------------- MODULE Worker ----------------------------------
(***************************************************************************)
(* The background worker (LiveDataService.start_background): each round    *)
(* refreshes the positions, then the wallet and the scout when they are    *)
(* due and the policy allows them.  A refresh, which requests run too,     *)
(* ends with the decisions about positions at risk; the scout takes the    *)
(* chains in turn.  What a refresh does to the rows is PositionLifecycle's.*)
(***************************************************************************)
EXTENDS Integers

CONSTANTS
    Positions, \* open positions
    Worker,    \* the background thread
    Requests,  \* HTTP threads that call refresh_positions
    Chains,    \* length of the scout's rotation
    Bands,     \* risk signatures; 0 for a score below 48
    MaxFaults, \* bound on crashes and on calls the store refuses
    MaxMoves,  \* bound on changes of risk
    None

ASSUME WorkerAssumption ==
    /\ Chains \in Nat \ {0} /\ MaxFaults \in Nat /\ MaxMoves \in Nat
    /\ 0 \in Bands /\ Bands \subseteq Nat
    /\ Worker \notin Requests /\ None \notin Requests \cup {Worker} \cup Positions

Refreshers == Requests \cup {Worker}

VARIABLES
    policy,   \* automation:policy, the switches that are on
    risk,     \* risk[p]: signature of the risk in the row of p
    moves,    \* changes of risk so far
    fresh,    \* what is younger than its interval: positions, wallet, scout
    lock,     \* holder of LiveDataService._refresh_lock
    pc,       \* program counter of each thread
    plan,     \* policy as the worker's round read it
    review,   \* local values of _record_position_risk_decisions
    lastRisk, \* settings decision:last-risk:<p>
    decided,  \* decided[p]: signature of the latest decision stored about p
    repeats,  \* decisions with the signature of the one before
    rotation, \* setting live:scout_rotation, modulo Chains
    turn,     \* chain the scout is about to ask the market for
    asked,    \* chain it was asked for last
    faults

serviceVars == <<lock, pc, plan, review, lastRisk, decided, repeats, rotation, turn, asked>>
vars == <<policy, risk, moves, fresh, serviceVars, faults>>

Switches == {"wallet_refresh", "scout_discovery", "strategy_reviews"}
Things == {"positions", "wallet", "scout"}
NoReview == [todo |-> {}, read |-> [p \in Positions |-> 0], cur |-> None]

TypeOK ==
    /\ policy \subseteq Switches /\ plan \subseteq Switches
    /\ risk \in [Positions -> Bands] /\ moves \in 0..MaxMoves
    /\ fresh \subseteq Things
    /\ lock \in Refreshers \cup {None}
    /\ pc \in [Refreshers -> {"idle", "read", "review", "sign", "wallet", "scout", "market",
                              "health", "caught", "dead"}]
    /\ review \in [todo : SUBSET Positions, read : [Positions -> Bands],
                   cur : Positions \cup {None}]
    /\ lastRisk \in [Positions -> Bands] /\ decided \in [Positions -> Bands]
    /\ repeats \in Nat
    /\ rotation \in 0..(Chains - 1) /\ turn \in 0..(Chains - 1) /\ asked \in 0..(Chains - 1)
    /\ faults \in 0..MaxFaults

Init ==
    /\ policy = Switches /\ plan = {}
    /\ risk = [p \in Positions |-> 0] /\ moves = 0
    /\ fresh = {} /\ lock = None
    /\ pc = [r \in Refreshers |-> "idle"]
    /\ review = NoReview
    /\ lastRisk = [p \in Positions |-> 0] /\ decided = [p \in Positions |-> 0] /\ repeats = 0
    /\ rotation = 0 /\ turn = 0 /\ asked = 0
    /\ faults = 0

--------------------------------------------------------------------------------
(***************************************************************************)
(* Around the process: time, prices, the operator's switches.              *)
(***************************************************************************)
TimePasses(thing) ==
    /\ thing \in fresh /\ fresh' = fresh \ {thing}
    /\ UNCHANGED <<policy, risk, moves, serviceVars, faults>>

RiskMoves(p, band) ==
    /\ moves < MaxMoves /\ moves' = moves + 1
    /\ band # risk[p] /\ risk' = [risk EXCEPT ![p] = band]
    /\ UNCHANGED <<policy, fresh, serviceVars, faults>>

(* update_policy                                                           *)
Toggle(switch) ==
    /\ policy' = IF switch \in policy THEN policy \ {switch} ELSE policy \cup {switch}
    /\ UNCHANGED <<risk, moves, fresh, serviceVars, faults>>

--------------------------------------------------------------------------------
(***************************************************************************)
(* refresh_positions.                                                      *)
(***************************************************************************)
At(r, label) == pc[r] = label
Goto(r, label) == pc' = [pc EXCEPT ![r] = label]
RefreshUnchanged == UNCHANGED <<policy, risk, moves, rotation, turn, asked>>
Return(r) == Goto(r, IF r = Worker THEN "wallet" ELSE "idle")
Release(r) == lock' = None /\ review' = NoReview /\ Return(r)

(* Mutant: a switched-off wallet refresh also keeps the positions unread.  *)
Starts_ByPolicy(r) == r = Worker => "wallet_refresh" \in policy
Starts(r) == TRUE

(* The worker reads the policy first; busy: there is nothing to do.        *)
BeginRefresh(r) ==
    /\ At(r, "idle") /\ Starts(r)
    /\ plan' = IF r = Worker THEN policy \ {"strategy_reviews"} ELSE plan
    /\ IF lock = None THEN lock' = r /\ Goto(r, "read") ELSE Return(r) /\ UNCHANGED lock
    /\ RefreshUnchanged /\ UNCHANGED <<fresh, review, lastRisk, decided, repeats, faults>>

(* Every chain is read, a failure kept in its own row, live:last_refresh   *)
(* is stored and, if they are on, the reviews start from the open rows.    *)
ReadChains(r) ==
    /\ At(r, "read")
    /\ fresh' = fresh \cup {"positions"}
    /\ IF "strategy_reviews" \in policy
       THEN /\ review' = [todo |-> Positions, read |-> risk, cur |-> None]
            /\ Goto(r, "review") /\ UNCHANGED lock
       ELSE Release(r)
    /\ RefreshUnchanged /\ UNCHANGED <<plan, lastRisk, decided, repeats, faults>>

(* _record_position_risk_decisions, one open position.                     *)
(* Mutant: the stored signature is not looked at.                          *)
Material_Any(p) == review.read[p] # 0
Material(p) == review.read[p] \notin {0, lastRisk[p]}

SkipPosition(r, p) ==
    /\ At(r, "review") /\ p \in review.todo /\ ~Material(p)
    /\ review' = [review EXCEPT !.todo = @ \ {p}]
    /\ RefreshUnchanged /\ UNCHANGED <<fresh, lock, pc, plan, lastRisk, decided, repeats, faults>>

(* Mutant: the signature is stored first, then the store refuses the       *)
(* decision.                                                               *)
RefuseDecision_Signed(r, p) ==
    /\ At(r, "review") /\ p \in review.todo /\ Material(p) /\ faults < MaxFaults
    /\ faults' = faults + 1
    /\ lastRisk' = [lastRisk EXCEPT ![p] = review.read[p]]
    /\ review' = [review EXCEPT !.todo = @ \ {p}]
    /\ RefreshUnchanged /\ UNCHANGED <<fresh, lock, pc, plan, decided, repeats>>

(* The store refuses the decision; the exception is swallowed.             *)
RefuseDecision(r, p) ==
    /\ At(r, "review") /\ p \in review.todo /\ Material(p) /\ faults < MaxFaults
    /\ faults' = faults + 1
    /\ review' = [review EXCEPT !.todo = @ \ {p}]
    /\ RefreshUnchanged /\ UNCHANGED <<fresh, lock, pc, plan, lastRisk, decided, repeats>>

AddDecision(r, p) ==
    /\ At(r, "review") /\ p \in review.todo /\ Material(p)
    /\ decided' = [decided EXCEPT ![p] = review.read[p]]
    /\ repeats' = repeats + (IF decided[p] = review.read[p] THEN 1 ELSE 0)
    /\ review' = [review EXCEPT !.todo = @ \ {p}, !.cur = p]
    /\ Goto(r, "sign")
    /\ RefreshUnchanged /\ UNCHANGED <<fresh, lock, plan, lastRisk, faults>>

Signed(p) == [lastRisk EXCEPT ![p] = review.read[p]]

SetSignature(r) ==
    /\ At(r, "sign")
    /\ lastRisk' = Signed(review.cur)
    /\ review' = [review EXCEPT !.cur = None] /\ Goto(r, "review")
    /\ RefreshUnchanged /\ UNCHANGED <<fresh, lock, plan, decided, repeats, faults>>

(* The store refuses the signature; the exception is swallowed.            *)
LoseSignature(r) ==
    /\ At(r, "sign") /\ faults < MaxFaults
    /\ faults' = faults + 1
    /\ review' = [review EXCEPT !.cur = None] /\ Goto(r, "review")
    /\ RefreshUnchanged /\ UNCHANGED <<fresh, lock, plan, lastRisk, decided, repeats>>

EndRefresh(r) ==
    /\ At(r, "review") /\ review.todo = {}
    /\ Release(r)
    /\ RefreshUnchanged /\ UNCHANGED <<fresh, plan, lastRisk, decided, repeats, faults>>

Caught == Goto(Worker, "caught") /\ plan' = {}

(* The store refuses a call that nothing catches before the caller does;   *)
(* the lock is released all the same.                                      *)
RefreshFails(r) ==
    /\ At(r, "read") \/ At(r, "review")
    /\ faults < MaxFaults /\ faults' = faults + 1
    /\ lock' = None /\ review' = NoReview
    /\ IF r = Worker THEN Caught ELSE Goto(r, "idle") /\ UNCHANGED plan
    /\ RefreshUnchanged /\ UNCHANGED <<fresh, lastRisk, decided, repeats>>

--------------------------------------------------------------------------------
(***************************************************************************)
(* The rest of the worker's round.                                         *)
(***************************************************************************)
EndRound == Goto(Worker, "health") /\ plan' = {}
RoundUnchanged == UNCHANGED <<policy, risk, moves, lock, review, lastRisk, decided, repeats>>

KeepWallet ==
    /\ At(Worker, "wallet") /\ ("wallet_refresh" \notin plan \/ "wallet" \in fresh)
    /\ Goto(Worker, "scout")
    /\ RoundUnchanged /\ UNCHANGED <<plan, fresh, rotation, turn, asked, faults>>

RefreshWallet ==
    /\ At(Worker, "wallet") /\ "wallet_refresh" \in plan /\ "wallet" \notin fresh
    /\ fresh' = fresh \cup {"wallet"}
    /\ Goto(Worker, "scout")
    /\ RoundUnchanged /\ UNCHANGED <<plan, rotation, turn, asked, faults>>

(* Provider failures are kept in the snapshot, but an exception (a missing *)
(* dependency, say) ends the round.                                        *)
WalletFails ==
    /\ At(Worker, "wallet") /\ "wallet_refresh" \in plan /\ "wallet" \notin fresh
    /\ Caught
    /\ RoundUnchanged /\ UNCHANGED <<fresh, rotation, turn, asked, faults>>

(* So does the store when it refuses a call; the market may have been      *)
(* asked by then, and the scout's quarter of an hour is not counted.       *)
RoundFails ==
    /\ At(Worker, "wallet") \/ At(Worker, "scout") \/ At(Worker, "market")
    /\ faults < MaxFaults /\ faults' = faults + 1
    /\ Caught
    /\ asked' = IF At(Worker, "market") THEN turn ELSE asked
    /\ turn' = 0
    /\ RoundUnchanged /\ UNCHANGED <<fresh, rotation>>

ScoutDue == "scout_discovery" \in plan /\ "scout" \notin fresh

SkipScout ==
    /\ At(Worker, "scout") /\ ~ScoutDue
    /\ EndRound
    /\ RoundUnchanged /\ UNCHANGED <<fresh, rotation, turn, asked, faults>>

(* background_scout_once asks the policy again; switched off meanwhile, it *)
(* returns at once and still counts as this quarter of an hour's.          *)
ScoutSwitchedOff ==
    /\ At(Worker, "scout") /\ ScoutDue /\ "scout_discovery" \notin policy
    /\ fresh' = fresh \cup {"scout"}
    /\ EndRound
    /\ RoundUnchanged /\ UNCHANGED <<rotation, turn, asked, faults>>

(* Mutant: the rotation is one chain short.                                *)
Following_Short(idx) == (idx + 1) % (Chains - 1)
Following(idx) == (idx + 1) % Chains

(* The turn is stored before the market is asked.                          *)
TakeTurn ==
    /\ At(Worker, "scout") /\ ScoutDue /\ "scout_discovery" \in policy
    /\ turn' = rotation /\ rotation' = Following(rotation)
    /\ Goto(Worker, "market")
    /\ RoundUnchanged /\ UNCHANGED <<plan, fresh, asked, faults>>

(* Answered or refused by the provider, the turn is over.                  *)
AskMarket ==
    /\ At(Worker, "market")
    /\ asked' = turn /\ turn' = 0
    /\ fresh' = fresh \cup {"scout"}
    /\ EndRound
    /\ RoundUnchanged /\ UNCHANGED <<rotation, faults>>

(* live:background_health is stored at the end of a round and, with the    *)
(* error, by the handler of its exceptions.                                *)
StoreHealth ==
    /\ At(Worker, "health") \/ At(Worker, "caught")
    /\ Goto(Worker, "idle")
    /\ RoundUnchanged /\ UNCHANGED <<plan, fresh, rotation, turn, asked, faults>>

(* The store refuses that too: in the handler nothing catches it, and the  *)
(* thread ends for as long as the process lives.                           *)
RefuseHealth ==
    /\ At(Worker, "health") \/ At(Worker, "caught")
    /\ faults < MaxFaults /\ faults' = faults + 1
    /\ Goto(Worker, IF At(Worker, "health") THEN "caught" ELSE "dead")
    /\ RoundUnchanged /\ UNCHANGED <<plan, fresh, rotation, turn, asked>>

(* The process ends and starts again: last_scout is 0 once more.           *)
Crash ==
    /\ faults < MaxFaults /\ faults' = faults + 1
    /\ lock' = None /\ review' = NoReview /\ plan' = {}
    /\ pc' = [r \in Refreshers |-> "idle"]
    /\ fresh' = fresh \ {"scout"}
    /\ turn' = 0
    /\ UNCHANGED <<policy, risk, moves, lastRisk, decided, repeats, rotation, asked>>

RefreshStep(r) ==
    \/ ReadChains(r) \/ SetSignature(r) \/ LoseSignature(r) \/ EndRefresh(r)
    \/ RefreshFails(r)
    \/ \E p \in Positions : SkipPosition(r, p) \/ AddDecision(r, p) \/ RefuseDecision(r, p)
RoundStep ==
    \/ KeepWallet \/ RefreshWallet \/ WalletFails \/ SkipScout \/ ScoutSwitchedOff
    \/ TakeTurn \/ AskMarket \/ RoundFails \/ StoreHealth \/ RefuseHealth

Next ==
    \/ Crash
    \/ \E thing \in Things : TimePasses(thing)
    \/ \E p \in Positions, band \in Bands : RiskMoves(p, band)
    \/ \E switch \in Switches : Toggle(switch)
    \/ \E r \in Refreshers : BeginRefresh(r) \/ RefreshStep(r)
    \/ RoundStep

Spec == Init /\ [][Next]_vars

(***************************************************************************)
(* Fairness.  The worker's loop goes on after what its handler caught and  *)
(* stored, requests run to their end but need not come, time passes.  A    *)
(* wallet refresh that is tried for ever succeeds now and then: failures   *)
(* of its providers do not raise.  Nothing is assumed of the market's      *)
(* answers, nor that a thread that died is ever started again.             *)
(***************************************************************************)
Fairness ==
    /\ \A thing \in Things : WF_vars(TimePasses(thing))
    /\ WF_vars(BeginRefresh(Worker)) /\ WF_vars(RoundStep) /\ SF_vars(RefreshWallet)
    /\ \A r \in Refreshers : WF_vars(RefreshStep(r))

FairSpec == Spec /\ Fairness

--------------------------------------------------------------------------------
(***************************************************************************)
(* Properties.                                                             *)
(***************************************************************************)
(* The handler could not store what it caught, and nobody restarted the    *)
(* server since.                                                           *)
Dead == pc[Worker] = "dead"

(* A risk that stays gets its decision, and the positions are read again   *)
(* and again, whatever the operator switches off (reviews apart), whatever *)
(* the market and the wallet answer and whoever holds the refresh lock,    *)
(* unless the thread has died for good.                                    *)
(* "It must stay fresh even when optional market-monitoring, scouting or   *)
(* review automations are disabled" (start_background).                    *)
StaysFresh == []<>("positions" \in fresh) \/ <>[]Dead
RiskIsDecided ==
    \A p \in Positions, band \in Bands \ {0} :
        <>[](risk[p] = band /\ "strategy_reviews" \in policy)
            => <>[](decided[p] = band) \/ <>[]Dead

(* As long as scouting is on, every chain gets its turn again and again:   *)
(* no failing provider, no restart and no exception that the handler could *)
(* store starves one (background_scout_once).                              *)
EveryChainScouted ==
    <>[]("scout_discovery" \in policy) =>
        <>[]Dead \/ \A c \in 0..(Chains - 1) : []<>(asked = c)

(* One change of risk is one decision, two threads or not; a decision with *)
(* the signature of the one before takes a crash, or a write that failed,  *)
(* between storing it and its signature.                                   *)
RepeatsNeedFaults == repeats <= faults
================================================================================
