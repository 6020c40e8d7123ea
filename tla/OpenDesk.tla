--------------------------------- MODULE OpenDesk ---------------------------------
(***************************************************************************)
(* The Execution desk's opening flow: a plan is built by separate chain    *)
(* reads (two allowances, the WETH balance, a simulation), shown with one  *)
(* button per prepared call, and each call is sent by the browser wallet.  *)
(* Builds overlap, since every confirmed prerequisite starts another, and  *)
(* the buttons of the plan on the page work whatever happened since.       *)
(*                                                                         *)
(* The receipts the page posts are PositionLifecycle's, so is the new NFT. *)
(***************************************************************************)
EXTENDS Integers, FiniteSets

CONSTANTS
    Want,      \* Want[t]: units of token t the operator wants in the position
    Dust,      \* a shortfall up to this is taken for none (1e-12)
    Rounding,  \* by how much a shortfall computed in floats may be off
    Ether,     \* units of ETH the wallet holds at the start
    MaxStart,  \* bound on the WETH the wallet holds at the start
    MaxLeft,   \* positions that an allowance left from earlier covers
    Builds,    \* build requests that may be under way at once
    Slots,     \* transactions that may be under way at once
    MaxFaults  \* bound on failed reads, failed transactions and lost receipts

Tokens == {"weth", "other"}
ASSUME WantAssumption == Want \in [Tokens -> Nat] /\ \E t \in Tokens : Want[t] > 0
ASSUME DeskBounds ==
    /\ {Ether, MaxStart, MaxLeft, MaxFaults, Dust, Rounding} \subseteq Nat
    /\ Ether >= Want["weth"]

VARIABLES
    wallet,   \* balances: eth and the two tokens
    allow,    \* allow[t]: allowance of the position manager
    opened,   \* positions minted
    approved, \* tokens whose allowance the page's own approval set
    mints,    \* mints[t]: positions minted since the last approval of t
    useEth,   \* "Use ETH automatically" is ticked
    plan,     \* execPlan, the plan on the page
    build,    \* local values of each build request
    tx,       \* transactions sent and not done with
    faults,   \* failures so far
    careless, \* a call was sent from an outdated plan, or while one was pending
    most      \* most WETH the wallet could need: what it had, or what is wanted

deskVars ==
    <<wallet, allow, opened, approved, mints, useEth, plan, build, tx, faults, careless, most>>

Calls == {"wrap", "mint"} \cup Tokens   \* a token stands for its approval
Simulations == {"waiting", "ok", "failed"}

(* A plan's calls, and (not code) whether nothing was mined since it was   *)
(* begun.                                                                  *)
Plans == [wrap : Nat, approve : SUBSET Tokens, sim : Simulations, fresh : BOOLEAN]
NoPlan == [sim |-> "none"]
Build == [pc : {"idle", "weth", "other", "balance", "simulate"}, plan : Plans]
NoCalls == [wrap |-> 0, approve |-> {}, sim |-> "waiting", fresh |-> TRUE]
Idle == [pc |-> "idle", plan |-> NoCalls]
Tx == [kind : Calls, amount : Nat, state : {"pending", "mined", "reverted"}]
NoTx == [kind |-> "none"]

DeskTypeOK ==
    /\ wallet \in [{"eth"} \cup Tokens -> Nat]
    /\ allow \in [Tokens -> Nat] /\ opened \in Nat
    /\ approved \in SUBSET Tokens /\ mints \in [Tokens -> Nat] /\ useEth \in BOOLEAN
    /\ plan \in Plans \cup {NoPlan}
    /\ build \in [Builds -> Build]
    /\ tx \in [Slots -> Tx \cup {NoTx}]
    /\ faults \in 0..MaxFaults
    /\ careless \in BOOLEAN /\ most \in Nat

(* The operator has what the position takes, in ETH where that may be used.*)
(* Of each token an allowance may be left: from another application, or    *)
(* from an approval for amounts that were lowered since.                   *)
DeskInit ==
    /\ \E weth \in 0..MaxStart :
          /\ wallet = [eth |-> Ether, weth |-> weth, other |-> 2 * Want["other"]]
          /\ useEth \in {b \in BOOLEAN : b \/ weth >= Want["weth"]}
          /\ most = IF weth < Want["weth"] THEN Want["weth"] ELSE weth
    /\ \E left \in [Tokens -> {0, MaxLeft}] : allow = [t \in Tokens |-> left[t] * Want[t]]
    /\ opened = 0 /\ approved = {} /\ mints = [t \in Tokens |-> 0]
    /\ plan = NoPlan /\ build = [b \in Builds |-> Idle] /\ tx = [s \in Slots |-> NoTx]
    /\ faults = 0 /\ careless = FALSE

--------------------------------------------------------------------------------
(***************************************************************************)
(* build_open_position.                                                    *)
(***************************************************************************)
BuildUnchanged == UNCHANGED <<wallet, allow, opened, approved, mints, useEth, tx, careless, most>>

(* Mutant: the whole amount is wrapped, whatever is wrapped already.       *)
WrapShortfall_Whole(desired, current) == desired
WrapShortfall(desired, current) ==
    IF desired - current > Dust THEN desired - current ELSE 0

(* What is not wanted is not asked about, nor the WETH that is held unless *)
(* ETH may be used.                                                        *)
FirstRead == IF Want["weth"] > 0 THEN "weth" ELSE "other"
LastRead == IF useEth /\ Want["weth"] > 0 THEN "balance" ELSE "simulate"
After(t) == IF t = "weth" /\ Want["other"] > 0 THEN "other" ELSE LastRead

(* The Build and Recheck buttons.                                          *)
Begins(b) == build[b].pc = "idle" /\ build' = [build EXCEPT ![b].pc = FirstRead]
BeginBuild(b) == Begins(b) /\ BuildUnchanged /\ UNCHANGED <<plan, faults>>

ReadAllowance(b, t) ==
    /\ build[b].pc = t
    /\ build' = [build EXCEPT ![b].pc = After(t),
                   ![b].plan.approve = IF allow[t] < Want[t] THEN @ \cup {t} ELSE @]
    /\ BuildUnchanged /\ UNCHANGED <<plan, faults>>

(* The balance, as a float, is taken from another float: that is exact     *)
(* only if there is none.  The deposit is of what that says.               *)
Offs == IF wallet["weth"] = 0 THEN {0} ELSE (-Rounding)..Rounding

ReadBalance(b) ==
    /\ build[b].pc = "balance"
    /\ \E off \in Offs :
          build' = [build EXCEPT ![b].pc = "simulate",
                      ![b].plan.wrap = WrapShortfall(Want["weth"] + off, wallet["weth"])]
    /\ BuildUnchanged /\ UNCHANGED <<plan, faults>>

(* The pool takes all that is wanted, at worst.                            *)
CanMint == \A t \in Tokens : wallet[t] >= Want[t] /\ allow[t] >= Want[t]

(* The mint is simulated when nothing has to come first, and the answer    *)
(* replaces the plan on the page.                                          *)
FinishBuild(b) ==
    LET p == build[b].plan
        sim == IF p.wrap > 0 \/ p.approve # {} THEN "waiting"
               ELSE IF CanMint THEN "ok" ELSE "failed"
    IN /\ build[b].pc = "simulate"
       /\ plan' = [p EXCEPT !.sim = sim]
       /\ build' = [build EXCEPT ![b] = Idle]
       /\ BuildUnchanged /\ UNCHANGED faults

(* A read fails, the answer is an error: execPlan = null.                  *)
FailBuild(b) ==
    /\ build[b].pc # "idle" /\ faults < MaxFaults
    /\ faults' = faults + 1
    /\ plan' = NoPlan
    /\ build' = [build EXCEPT ![b] = Idle]
    /\ BuildUnchanged

--------------------------------------------------------------------------------
(***************************************************************************)
(* sendExecutionCall: a button of the plan on the page.                    *)
(***************************************************************************)
Under(s) == tx[s] # NoTx
Waiting == {s \in Slots : Under(s)}

Offered(kind) ==
    /\ plan # NoPlan
    /\ \/ kind = "mint" /\ plan.sim = "ok"
       \/ kind = "wrap" /\ plan.wrap > 0
       \/ kind \in plan.approve

(* Mutant: the allowance asked for is far more than the position takes.    *)
AmountOf_Unlimited(kind) ==
    IF kind = "wrap" THEN plan.wrap ELSE IF kind = "mint" THEN 0 ELSE 3 * Want[kind]
AmountOf(kind) ==
    IF kind = "wrap" THEN plan.wrap ELSE IF kind = "mint" THEN 0 ELSE Want[kind]

Send(s, kind) ==
    /\ ~Under(s) /\ Offered(kind)
    /\ tx' = [tx EXCEPT ![s] = [kind |-> kind, amount |-> AmountOf(kind), state |-> "pending"]]
    /\ careless' = (careless \/ ~plan.fresh \/ Waiting # {})
    /\ UNCHANGED <<wallet, allow, opened, approved, mints, useEth, plan, build, faults, most>>

(* The chain takes the transaction.                                        *)
Takes(s, pays, allowance, n) ==
    /\ wallet' = pays /\ allow' = allowance /\ opened' = n
    /\ tx' = [tx EXCEPT ![s].state = "mined"]
    /\ plan' = IF plan = NoPlan THEN NoPlan ELSE [plan EXCEPT !.fresh = FALSE]
    /\ build' = [b \in Builds |->
                   IF build[b].pc = "idle" THEN Idle ELSE [build[b] EXCEPT !.plan.fresh = FALSE]]
    /\ UNCHANGED <<useEth, faults, careless, most>>

Pending(s, kind) == Under(s) /\ tx[s].state = "pending" /\ tx[s].kind = kind

MineWrap(s) ==
    /\ Pending(s, "wrap") /\ wallet["eth"] >= tx[s].amount
    /\ Takes(s, [wallet EXCEPT !["eth"] = @ - tx[s].amount, !["weth"] = @ + tx[s].amount],
             allow, opened)
    /\ UNCHANGED <<approved, mints>>

MineApproval(s) == \E t \in Tokens :
    /\ Pending(s, t)
    /\ Takes(s, wallet, [allow EXCEPT ![t] = tx[s].amount], opened)
    /\ approved' = approved \cup {t} /\ mints' = [mints EXCEPT ![t] = 0]

MineMint(s) ==
    /\ Pending(s, "mint") /\ CanMint
    /\ Takes(s, [x \in DOMAIN wallet |-> IF x \in Tokens THEN wallet[x] - Want[x] ELSE wallet[x]],
             [t \in Tokens |-> allow[t] - Want[t]], opened + 1)
    /\ mints' = [t \in Tokens |-> IF Want[t] > 0 THEN mints[t] + 1 ELSE 0]
    /\ UNCHANGED approved

(* It reverts when it cannot be carried out, and now and then otherwise.   *)
Revert(s) ==
    /\ Under(s) /\ tx[s].state = "pending"
    /\ \/ /\ \/ tx[s].kind = "mint" /\ ~CanMint
             \/ tx[s].kind = "wrap" /\ wallet["eth"] < tx[s].amount
          /\ UNCHANGED faults
       \/ faults < MaxFaults /\ faults' = faults + 1
    /\ tx' = [tx EXCEPT ![s].state = "reverted"]
    /\ UNCHANGED <<wallet, allow, opened, approved, mints, useEth, plan, build, careless, most>>

(* waitReceipt sees it: a confirmed prerequisite starts another build, a   *)
(* failure or an opened position does not.                                 *)
SeeReceipt(s) ==
    /\ Under(s) /\ tx[s].state # "pending"
    /\ tx' = [tx EXCEPT ![s] = NoTx]
    /\ IF tx[s].state = "mined" /\ tx[s].kind # "mint" THEN \E b \in Builds : Begins(b)
       ELSE UNCHANGED build
    /\ UNCHANGED <<wallet, allow, opened, approved, mints, useEth, plan, faults, careless, most>>

(* Two minutes without a receipt: nothing is recorded, nothing rebuilt.    *)
GiveUp(s) ==
    /\ Under(s) /\ tx[s].state # "pending" /\ faults < MaxFaults
    /\ faults' = faults + 1
    /\ tx' = [tx EXCEPT ![s] = NoTx]
    /\ UNCHANGED <<wallet, allow, opened, approved, mints, useEth, plan, build, careless, most>>

BuildNext(b) ==
    \/ \E t \in Tokens : ReadAllowance(b, t)
    \/ ReadBalance(b) \/ FinishBuild(b)
TxNext(s) == MineWrap(s) \/ MineApproval(s) \/ MineMint(s) \/ Revert(s) \/ SeeReceipt(s)

DeskNext ==
    \/ \E b \in Builds : BeginBuild(b) \/ BuildNext(b) \/ FailBuild(b)
    \/ \E s \in Slots : TxNext(s) \/ GiveUp(s) \/ \E kind \in Calls : Send(s, kind)

--------------------------------------------------------------------------------
(***************************************************************************)
(* Properties.                                                             *)
(***************************************************************************)
(* build_open_position covers "only the WETH shortfall", so an operator    *)
(* who waits for each transaction and its rebuild never holds more WETH    *)
(* than was there or is wanted, but for a rounding, though builds of       *)
(* several reads overlap.                                                  *)
NeverOverWraps == ~careless => wallet["weth"] <= most + Rounding

(* Approvals are for the exact amount: however often the button of a plan  *)
(* that was already carried out is pressed, one approval made on the page  *)
(* opens one position at most (build_open_position, sendExecutionCall).    *)
OneOpeningPerApproval == \A t \in approved : mints[t] <= 1

(* Too little WETH to mint, too much for build_open_position to see a      *)
(* shortfall.                                                              *)
Short ==
    /\ wallet["weth"] < Want["weth"]
    /\ Want["weth"] <= wallet["weth"] + Dust + Rounding
================================================================================
