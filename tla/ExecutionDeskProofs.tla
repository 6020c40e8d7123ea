--------------------------- MODULE ExecutionDeskProofs ---------------------------
(***************************************************************************)
(* The execution desk never wraps more than is missing for an operator who *)
(* waits, opens one position per approval, and makes no position final     *)
(* with liquidity left in it, for any number of builds and transactions    *)
(* and any amounts.                                                        *)
(***************************************************************************)
EXTENDS ExecutionDesk, TLAPS

(***************************************************************************)
(* OpenDesk: typing.                                                       *)
(***************************************************************************)
LEMMA TokensAreCalls ==
    /\ "weth" \in Tokens /\ "eth" \notin Tokens /\ Want["weth"] \in Nat
    /\ Tokens \subseteq Calls /\ "wrap" \notin Tokens /\ "mint" \notin Tokens
BY WantAssumption DEF Tokens, Calls

LEMMA BoundsAreNat ==
    /\ Ether \in Nat /\ MaxStart \in Nat /\ MaxLeft \in Nat /\ MaxFaults \in Nat
    /\ Dust \in Nat /\ Rounding \in Nat
BY DeskBounds

LEMMA IdleIsBuild == Idle \in Build /\ Idle.pc = "idle" /\ Idle.plan = NoCalls
BY DEF Idle, Build, NoCalls, Plans, Simulations

LEMMA DeskTypeInit == DeskInit => DeskTypeOK
<1> SUFFICES ASSUME DeskInit PROVE DeskTypeOK
  OBVIOUS
<1> USE WantAssumption, BoundsAreNat
<1>1. wallet \in [{"eth"} \cup Tokens -> Nat] /\ most \in Nat
  BY DEF DeskInit, Tokens
<1>2. /\ allow \in [Tokens -> Nat] /\ mints \in [Tokens -> Nat] /\ opened \in Nat
      /\ approved \in SUBSET Tokens
  <2>1. \A m, n \in Nat : m * n \in Nat
    OBVIOUS
  <2>2. PICK left \in [Tokens -> {0, MaxLeft}] : allow = [t \in Tokens |-> left[t] * Want[t]]
    BY DEF DeskInit
  <2>3. \A t \in Tokens : left[t] \in Nat /\ Want[t] \in Nat
    OBVIOUS
  <2>4. \A t \in Tokens : left[t] * Want[t] \in Nat
    BY <2>1, <2>3
  <2>5. allow \in [Tokens -> Nat]
    BY <2>2, <2>4
  <2>6. QED
    BY <2>5 DEF DeskInit
<1>3. useEth \in BOOLEAN /\ careless \in BOOLEAN
  BY Zenon DEF DeskInit
<1>4. build \in [Builds -> Build] /\ tx \in [Slots -> Tx \cup {NoTx}]
  BY IdleIsBuild DEF DeskInit
<1>5. plan \in Plans \cup {NoPlan} /\ faults \in 0..MaxFaults
  BY DEF DeskInit
<1>6. QED
  BY <1>1, <1>2, <1>3, <1>4, <1>5 DEF DeskTypeOK

(* A step of a build changes its own record and possibly the plan.         *)
LEMMA BuildFrame ==
    ASSUME DeskTypeOK, BuildUnchanged, plan' \in Plans \cup {NoPlan},
           NEW b \in Builds, NEW new \in Build, build' = [build EXCEPT ![b] = new],
           faults' \in 0..MaxFaults
    PROVE  DeskTypeOK'
<1>1. build' \in [Builds -> Build]
  BY DEF DeskTypeOK
<1>2. QED
  BY <1>1 DEF DeskTypeOK, BuildUnchanged

LEMMA ReadsArePlaces ==
    /\ FirstRead \in {"weth", "other", "balance", "simulate"} /\ FirstRead # "idle"
    /\ \A t : After(t) \in {"weth", "other", "balance", "simulate"} /\ After(t) # "idle"
BY DEF FirstRead, After, LastRead

(* What a build adds to the WETH stays within a rounding of what is wanted.*)
LEMMA ShortfallFits ==
    ASSUME NEW want \in Nat, NEW held \in Nat, NEW off \in (-Rounding)..Rounding
    PROVE  /\ WrapShortfall(want + off, held) \in Nat
           /\ \/ WrapShortfall(want + off, held) = 0
              \/ held + WrapShortfall(want + off, held) <= want + Rounding
BY BoundsAreNat DEF WrapShortfall

LEMMA OffsSmall == 0 \in (-Rounding)..Rounding /\ Offs \subseteq (-Rounding)..Rounding
BY BoundsAreNat DEF Offs

LEMMA BuildStepTyped ==
    ASSUME DeskTypeOK, NEW b \in Builds, BeginBuild(b) \/ BuildNext(b) \/ FailBuild(b)
    PROVE  DeskTypeOK'
<1>1. /\ build[b] \in Build /\ build[b].plan \in Plans
      /\ plan \in Plans \cup {NoPlan} /\ faults \in 0..MaxFaults /\ MaxFaults \in Nat
  BY BoundsAreNat DEF DeskTypeOK, Build
<1>2. CASE BeginBuild(b)
  <2> DEFINE new == [build[b] EXCEPT !.pc = FirstRead]
  <2>1. new \in Build /\ build' = [build EXCEPT ![b] = new]
    BY <1>1, <1>2, ReadsArePlaces DEF BeginBuild, Begins, Build
  <2>2. BuildUnchanged /\ plan' = plan /\ faults' = faults
    BY <1>2 DEF BeginBuild
  <2> HIDE DEF new
  <2>3. QED
    BY <1>1, <2>1, <2>2, BuildFrame
<1>3. ASSUME NEW t \in Tokens, ReadAllowance(b, t)
      PROVE  DeskTypeOK'
  <2> DEFINE asked == IF allow[t] < Want[t] THEN build[b].plan.approve \cup {t}
                      ELSE build[b].plan.approve
             new == [build[b] EXCEPT !.pc = After(t), !.plan.approve = asked]
  <2>1. asked \in SUBSET Tokens
    BY <1>1 DEF Plans
  <2>2. new \in Build
    BY <1>1, <2>1, ReadsArePlaces DEF Build, Plans
  <2>3. build' = [build EXCEPT ![b] = new]
    BY <1>1, <1>3 DEF ReadAllowance, DeskTypeOK
  <2>4. BuildUnchanged /\ plan' = plan /\ faults' = faults
    BY <1>3 DEF ReadAllowance
  <2> HIDE DEF new
  <2>5. QED
    BY <1>1, <2>2, <2>3, <2>4, BuildFrame
<1>4. CASE ReadBalance(b)
  <2> PICK off \in Offs :
             build' = [build EXCEPT ![b].pc = "simulate",
                         ![b].plan.wrap = WrapShortfall(Want["weth"] + off, wallet["weth"])]
    BY <1>4 DEF ReadBalance
  <2> DEFINE wrapped == WrapShortfall(Want["weth"] + off, wallet["weth"])
             new == [build[b] EXCEPT !.pc = "simulate", !.plan.wrap = wrapped]
  <2>1. wallet["weth"] \in Nat /\ Want["weth"] \in Nat
    BY TokensAreCalls DEF DeskTypeOK
  <2>2. wrapped \in Nat
    BY <2>1, OffsSmall, ShortfallFits
  <2>3. new \in Build
    BY <1>1, <2>2 DEF Build, Plans
  <2>4. build' = [build EXCEPT ![b] = new]
    BY <1>1 DEF DeskTypeOK
  <2>5. BuildUnchanged /\ plan' = plan /\ faults' = faults
    BY <1>4 DEF ReadBalance
  <2> HIDE DEF new
  <2>6. QED
    BY <1>1, <2>3, <2>4, <2>5, BuildFrame
<1>5. CASE FinishBuild(b)
  <2>1. plan' \in Plans
    BY <1>1, <1>5 DEF FinishBuild, Plans, Simulations
  <2>2. QED
    BY <1>1, <1>5, <2>1, IdleIsBuild, BuildFrame DEF FinishBuild
<1>6. CASE FailBuild(b)
  <2>1. plan' = NoPlan /\ faults' \in 0..MaxFaults
    BY <1>1, <1>6 DEF FailBuild
  <2>2. QED
    BY <1>6, <2>1, IdleIsBuild, BuildFrame DEF FailBuild
<1>7. QED
  BY <1>2, <1>3, <1>4, <1>5, <1>6, TokensAreCalls DEF BuildNext, Tokens

LEMMA SendTyped ==
    ASSUME DeskTypeOK, NEW s \in Slots, NEW kind \in Calls, Send(s, kind)
    PROVE  /\ DeskTypeOK' /\ plan \in Plans
           /\ tx' = [tx EXCEPT ![s] = [kind |-> kind, amount |-> AmountOf(kind),
                                       state |-> "pending"]]
           /\ [kind |-> kind, amount |-> AmountOf(kind), state |-> "pending"] \in Tx
<1>1. plan \in Plans
  BY DEF Send, Offered, DeskTypeOK
<1>2. AmountOf(kind) \in Nat
  BY <1>1, WantAssumption DEF AmountOf, Plans, Calls
<1>3. /\ tx' = [tx EXCEPT ![s] = [kind |-> kind, amount |-> AmountOf(kind), state |-> "pending"]]
      /\ [kind |-> kind, amount |-> AmountOf(kind), state |-> "pending"] \in Tx
  BY <1>2 DEF Send, Tx
<1>4. tx' \in [Slots -> Tx \cup {NoTx}]
  BY <1>3 DEF DeskTypeOK
<1>5. careless' \in BOOLEAN
  BY Zenon DEF Send
<1>6. QED
  BY <1>1, <1>3, <1>4, <1>5 DEF DeskTypeOK, Send

LEMMA TakesTyped ==
    ASSUME DeskTypeOK, NEW s \in Slots, tx[s] \in Tx,
           NEW pays \in [{"eth"} \cup Tokens -> Nat], NEW allowance \in [Tokens -> Nat],
           NEW n \in Nat, Takes(s, pays, allowance, n),
           approved' \in SUBSET Tokens, mints' \in [Tokens -> Nat]
    PROVE  DeskTypeOK'
<1>1. tx' \in [Slots -> Tx \cup {NoTx}]
  BY DEF Takes, DeskTypeOK, Tx
<1>2. plan' \in Plans \cup {NoPlan}
  <2>1. CASE plan = NoPlan
    BY <2>1 DEF Takes
  <2>2. CASE plan \in Plans /\ plan # NoPlan
    <3>1. plan' = [plan EXCEPT !.fresh = FALSE]
      BY <2>2 DEF Takes
    <3>2. [plan EXCEPT !.fresh = FALSE] \in Plans
      BY <2>2 DEF Plans
    <3>3. QED
      BY <3>1, <3>2
  <2>3. QED
    BY <2>1, <2>2 DEF DeskTypeOK
<1>3. build' \in [Builds -> Build]
  <2>1. ASSUME NEW b \in Builds
        PROVE  (IF build[b].pc = "idle" THEN Idle ELSE [build[b] EXCEPT !.plan.fresh = FALSE]) \in Build
    <3>1. build[b] \in Build
      BY DEF DeskTypeOK
    <3>2. [build[b] EXCEPT !.plan.fresh = FALSE] \in Build
      BY <3>1 DEF Build, Plans
    <3>3. QED
      BY <3>2, IdleIsBuild
  <2>2. QED
    BY <2>1 DEF Takes
<1>4. QED
  BY <1>1, <1>2, <1>3 DEF DeskTypeOK, Takes

(* What a mint takes out of the wallet and the allowances is there.        *)
LEMMA MintPays ==
    ASSUME DeskTypeOK, CanMint
    PROVE  /\ [x \in DOMAIN wallet |-> IF x \in Tokens THEN wallet[x] - Want[x] ELSE wallet[x]]
                  \in [{"eth"} \cup Tokens -> Nat]
           /\ [t \in Tokens |-> allow[t] - Want[t]] \in [Tokens -> Nat]
<1>1. ASSUME NEW t \in Tokens
      PROVE  /\ wallet[t] \in Nat /\ allow[t] \in Nat /\ Want[t] \in Nat
             /\ wallet[t] - Want[t] \in Nat /\ allow[t] - Want[t] \in Nat
  BY WantAssumption DEF DeskTypeOK, CanMint
<1>2. DOMAIN wallet = {"eth"} \cup Tokens /\ wallet["eth"] \in Nat
  BY DEF DeskTypeOK
<1>3. QED
  BY <1>1, <1>2

LEMMA UnderIsTx ==
    ASSUME DeskTypeOK, NEW s \in Slots
    PROVE  (Under(s) => tx[s] \in Tx) /\ (\A kind : Pending(s, kind) => tx[s] \in Tx)
BY DEF Under, Pending, DeskTypeOK

LEMMA TxStepTyped ==
    ASSUME DeskTypeOK, NEW s \in Slots, TxNext(s) \/ GiveUp(s)
    PROVE  DeskTypeOK'
<1> USE UnderIsTx
<1>1. CASE MineWrap(s)
  <2> DEFINE pays == [wallet EXCEPT !["eth"] = @ - tx[s].amount, !["weth"] = @ + tx[s].amount]
  <2>1. tx[s] \in Tx /\ tx[s].amount \in Nat /\ wallet["eth"] >= tx[s].amount
    BY <1>1 DEF MineWrap, Tx
  <2>2. pays \in [{"eth"} \cup Tokens -> Nat]
    <3>1. /\ wallet \in [{"eth"} \cup Tokens -> Nat] /\ "weth" \in Tokens
          /\ wallet["eth"] \in Nat /\ wallet["weth"] \in Nat
      BY TokensAreCalls DEF DeskTypeOK
    <3>2. wallet["eth"] - tx[s].amount \in Nat /\ wallet["weth"] + tx[s].amount \in Nat
      BY <2>1, <3>1
    <3>3. QED
      BY <3>1, <3>2
  <2>3. /\ Takes(s, pays, allow, opened)
        /\ approved' \in SUBSET Tokens /\ mints' \in [Tokens -> Nat]
    BY <1>1 DEF MineWrap, DeskTypeOK
  <2>4. allow \in [Tokens -> Nat] /\ opened \in Nat
    BY DEF DeskTypeOK
  <2> HIDE DEF pays
  <2>5. QED
    BY <2>1, <2>2, <2>3, <2>4, TakesTyped
<1>2. CASE MineApproval(s)
  <2> PICK t \in Tokens :
             /\ Pending(s, t) /\ Takes(s, wallet, [allow EXCEPT ![t] = tx[s].amount], opened)
             /\ approved' = approved \cup {t} /\ mints' = [mints EXCEPT ![t] = 0]
    BY <1>2 DEF MineApproval
  <2>1. tx[s] \in Tx /\ tx[s].amount \in Nat
    BY DEF Tx
  <2>2. /\ [allow EXCEPT ![t] = tx[s].amount] \in [Tokens -> Nat]
        /\ approved' \in SUBSET Tokens /\ mints' \in [Tokens -> Nat]
    BY <2>1 DEF DeskTypeOK
  <2>3. wallet \in [{"eth"} \cup Tokens -> Nat] /\ opened \in Nat
    BY DEF DeskTypeOK
  <2>4. QED
    BY <2>1, <2>2, <2>3, TakesTyped
<1>3. CASE MineMint(s)
  <2> DEFINE pays == [x \in DOMAIN wallet |->
                        IF x \in Tokens THEN wallet[x] - Want[x] ELSE wallet[x]]
             left == [t \in Tokens |-> allow[t] - Want[t]]
  <2>1. CanMint /\ Takes(s, pays, left, opened + 1) /\ tx[s] \in Tx
    BY <1>3 DEF MineMint
  <2>2. pays \in [{"eth"} \cup Tokens -> Nat] /\ left \in [Tokens -> Nat]
    BY <2>1, MintPays
  <2>3. opened + 1 \in Nat /\ approved' \in SUBSET Tokens /\ mints' \in [Tokens -> Nat]
    BY <1>3, WantAssumption DEF MineMint, DeskTypeOK
  <2> HIDE DEF pays, left
  <2>4. QED
    BY <2>1, <2>2, <2>3, TakesTyped
<1>4. CASE Revert(s)
  <2>1. tx[s] \in Tx
    BY <1>4 DEF Revert
  <2>2. tx' \in [Slots -> Tx \cup {NoTx}] /\ faults' \in 0..MaxFaults
    BY <1>4, <2>1, BoundsAreNat DEF Revert, DeskTypeOK, Tx
  <2>3. QED
    BY <1>4, <2>2 DEF Revert, DeskTypeOK
<1>5. CASE SeeReceipt(s)
  <2>1. tx' \in [Slots -> Tx \cup {NoTx}]
    BY <1>5 DEF SeeReceipt, DeskTypeOK
  <2>2. build' \in [Builds -> Build]
    <3>1. CASE UNCHANGED build
      BY <3>1 DEF DeskTypeOK
    <3>2. ASSUME NEW b \in Builds, Begins(b) PROVE build' \in [Builds -> Build]
      BY <3>2, ReadsArePlaces DEF Begins, DeskTypeOK, Build
    <3>3. QED
      BY <1>5, <3>1, <3>2 DEF SeeReceipt
  <2>3. QED
    BY <1>5, <2>1, <2>2 DEF SeeReceipt, DeskTypeOK
<1>6. CASE GiveUp(s)
  <2>1. tx' \in [Slots -> Tx \cup {NoTx}] /\ faults' \in 0..MaxFaults
    BY <1>6, BoundsAreNat DEF GiveUp, DeskTypeOK
  <2>2. QED
    BY <1>6, <2>1 DEF GiveUp, DeskTypeOK
<1>7. QED
  BY <1>1, <1>2, <1>3, <1>4, <1>5, <1>6 DEF TxNext

LEMMA DeskTypeStep == DeskTypeOK /\ DeskNext => DeskTypeOK'
<1> SUFFICES ASSUME DeskTypeOK, DeskNext PROVE DeskTypeOK'
  OBVIOUS
<1>1. ASSUME NEW b \in Builds, BeginBuild(b) \/ BuildNext(b) \/ FailBuild(b) PROVE DeskTypeOK'
  BY <1>1, BuildStepTyped
<1>2. ASSUME NEW s \in Slots, TxNext(s) \/ GiveUp(s) PROVE DeskTypeOK'
  BY <1>2, TxStepTyped
<1>3. ASSUME NEW s \in Slots, NEW kind \in Calls, Send(s, kind) PROVE DeskTypeOK'
  BY <1>3, SendTyped
<1>4. QED
  BY <1>1, <1>2, <1>3 DEF DeskNext

(***************************************************************************)
(* OpenDesk: the wrap.  What the operator who waits can still add to the   *)
(* WETH never takes it past "most": the plan on the page and every build   *)
(* that nothing was mined under, and the one transaction that is pending.  *)
(***************************************************************************)
Room(wrap) == wallet["weth"] + wrap <= most + Rounding
BuildsFit == \A b \in Builds : build[b].plan.fresh => Room(build[b].plan.wrap)
PlanFits == plan # NoPlan /\ plan.fresh => Room(plan.wrap)
OneUnderWay == \A r, s \in Slots : Under(r) /\ Under(s) => r = s
WrapFits == \A s \in Slots : Pending(s, "wrap") => Room(tx[s].amount)
IdleBuilds == \A b \in Builds : build[b].pc = "idle" => build[b] = Idle

WrapInv ==
    /\ Want["weth"] <= most
    /\ IdleBuilds
    /\ ~careless => /\ wallet["weth"] <= most + Rounding
                    /\ BuildsFit /\ PlanFits /\ OneUnderWay /\ WrapFits

LEMMA WrapInit == DeskInit => WrapInv
<1> SUFFICES ASSUME DeskInit PROVE WrapInv
  OBVIOUS
<1>1. /\ Want["weth"] <= most /\ wallet["weth"] <= most + Rounding
      /\ wallet["weth"] \in Nat /\ Room(0)
  <2>1. PICK weth \in 0..MaxStart :
            /\ wallet = [eth |-> Ether, weth |-> weth, other |-> 2 * Want["other"]]
            /\ most = IF weth < Want["weth"] THEN Want["weth"] ELSE weth
    BY DEF DeskInit
  <2>2. QED
    BY <2>1, TokensAreCalls, BoundsAreNat DEF Room
<1>2. BuildsFit /\ PlanFits /\ OneUnderWay /\ WrapFits /\ IdleBuilds
  BY <1>1 DEF DeskInit, BuildsFit, PlanFits, OneUnderWay, WrapFits, Under, Pending, Idle,
              NoCalls, IdleBuilds
<1>3. QED
  BY <1>1, <1>2 DEF WrapInv

(* A step of a build leaves the wallet and the transactions alone.         *)
LEMMA WrapBuildFrame ==
    ASSUME DeskTypeOK, WrapInv, BuildUnchanged,
           NEW b \in Builds, NEW new \in Build, build' = [build EXCEPT ![b] = new],
           new.pc = "idle" => new = Idle,
           ~careless /\ new.plan.fresh => Room(new.plan.wrap),
           ~careless /\ plan' # NoPlan /\ plan'.fresh => Room(plan'.wrap)
    PROVE  WrapInv'
<1>1. \A c \in Builds : build'[c] = IF c = b THEN new ELSE build[c]
  BY DEF DeskTypeOK
<1>2. IdleBuilds'
  BY <1>1 DEF IdleBuilds, WrapInv
<1>3. careless' = careless /\ wallet' = wallet /\ most' = most /\ tx' = tx
  BY DEF BuildUnchanged
<1>4. ASSUME ~careless
      PROVE  BuildsFit' /\ PlanFits' /\ OneUnderWay' /\ WrapFits' /\ wallet'["weth"] <= most' + Rounding
  BY <1>1, <1>3, <1>4 DEF WrapInv, BuildsFit, PlanFits, OneUnderWay, WrapFits, Room, Under, Pending
<1>5. (~careless)' => ~careless
  BY <1>3
<1>6. QED
  BY <1>2, <1>3, <1>4, <1>5 DEF WrapInv

LEMMA WrapBuildStep ==
    ASSUME DeskTypeOK, WrapInv, NEW b \in Builds, BeginBuild(b) \/ BuildNext(b) \/ FailBuild(b)
    PROVE  WrapInv'
<1>1. /\ build[b] \in Build /\ build[b].plan \in Plans /\ build[b].plan.wrap \in Nat
      /\ wallet["weth"] \in Nat /\ Want["weth"] \in Nat /\ most \in Nat
      /\ build[b].pc = "idle" => build[b] = Idle
  BY TokensAreCalls DEF DeskTypeOK, Build, Plans, WrapInv, IdleBuilds
<1>2. ~careless /\ build[b].plan.fresh => Room(build[b].plan.wrap)
  BY DEF WrapInv, BuildsFit
<1>3. ~careless /\ plan # NoPlan /\ plan.fresh => Room(plan.wrap)
  BY DEF WrapInv, PlanFits
<1>4. ~careless => Room(Idle.plan.wrap)
  BY <1>1 DEF WrapInv, Room, Idle, NoCalls
<1>5. CASE BeginBuild(b)
  <2> DEFINE new == [build[b] EXCEPT !.pc = FirstRead]
  <2>1. /\ new \in Build /\ build' = [build EXCEPT ![b] = new]
        /\ new.pc # "idle" /\ new.plan = build[b].plan
    BY <1>1, <1>5, ReadsArePlaces DEF BeginBuild, Begins, Build
  <2>2. BuildUnchanged /\ plan' = plan
    BY <1>5 DEF BeginBuild
  <2> HIDE DEF new
  <2>3. QED
    BY <1>2, <1>3, <2>1, <2>2, WrapBuildFrame
<1>6. ASSUME NEW t \in Tokens, ReadAllowance(b, t)
      PROVE  WrapInv'
  <2> DEFINE asked == IF allow[t] < Want[t] THEN build[b].plan.approve \cup {t}
                      ELSE build[b].plan.approve
             new == [build[b] EXCEPT !.pc = After(t), !.plan.approve = asked]
  <2>1. asked \in SUBSET Tokens
    BY <1>1 DEF Plans
  <2>2. /\ new \in Build /\ new.pc # "idle"
        /\ new.plan.fresh = build[b].plan.fresh /\ new.plan.wrap = build[b].plan.wrap
    BY <1>1, <2>1, ReadsArePlaces DEF Build, Plans
  <2>3. build' = [build EXCEPT ![b] = new]
    BY <1>1, <1>6 DEF ReadAllowance, DeskTypeOK
  <2>4. BuildUnchanged /\ plan' = plan
    BY <1>6 DEF ReadAllowance
  <2> HIDE DEF new
  <2>5. QED
    BY <1>2, <1>3, <2>2, <2>3, <2>4, WrapBuildFrame
<1>7. CASE ReadBalance(b)
  <2> PICK off \in Offs :
             build' = [build EXCEPT ![b].pc = "simulate",
                         ![b].plan.wrap = WrapShortfall(Want["weth"] + off, wallet["weth"])]
    BY <1>7 DEF ReadBalance
  <2> DEFINE wrapped == WrapShortfall(Want["weth"] + off, wallet["weth"])
             new == [build[b] EXCEPT !.pc = "simulate", !.plan.wrap = wrapped]
  <2>1. wrapped \in Nat /\ (~careless => Room(wrapped))
    <3>1. /\ wrapped \in Nat
          /\ wrapped = 0 \/ wallet["weth"] + wrapped <= Want["weth"] + Rounding
      BY <1>1, OffsSmall, ShortfallFits
    <3> HIDE DEF wrapped
    <3>2. QED
      BY <1>1, <3>1, BoundsAreNat DEF WrapInv, Room
  <2>2. new \in Build /\ new.pc # "idle" /\ new.plan.wrap = wrapped
    BY <1>1, <2>1 DEF Build, Plans
  <2>3. build' = [build EXCEPT ![b] = new]
    BY <1>1 DEF DeskTypeOK
  <2>4. BuildUnchanged /\ plan' = plan
    BY <1>7 DEF ReadBalance
  <2> HIDE DEF new, wrapped
  <2>5. QED
    BY <1>3, <2>1, <2>2, <2>3, <2>4, WrapBuildFrame
<1>8. CASE FinishBuild(b)
  <2>1. plan'.fresh = build[b].plan.fresh /\ plan'.wrap = build[b].plan.wrap
    BY <1>1, <1>8 DEF FinishBuild, Plans
  <2>2. build' = [build EXCEPT ![b] = Idle] /\ BuildUnchanged
    BY <1>8 DEF FinishBuild
  <2>3. QED
    BY <1>2, <1>4, <2>1, <2>2, IdleIsBuild, WrapBuildFrame
<1>9. CASE FailBuild(b)
  BY <1>4, <1>9, IdleIsBuild, WrapBuildFrame DEF FailBuild
<1>10. QED
  BY <1>5, <1>6, <1>7, <1>8, <1>9, TokensAreCalls DEF BuildNext, Tokens

(* A transaction that is taken outdates every build and the plan, and of   *)
(* an operator who waits there is no other.                                *)
LEMMA WrapTakes ==
    ASSUME DeskTypeOK, WrapInv, NEW s \in Slots, Under(s),
           NEW pays, NEW allowance, NEW n, Takes(s, pays, allowance, n),
           pays["weth"] \in Nat, ~careless => pays["weth"] <= most + Rounding
    PROVE  WrapInv'
<1>1. /\ wallet' = pays /\ most' = most /\ careless' = careless /\ most \in Nat
      /\ tx[s] \in Tx /\ tx' = [tx EXCEPT ![s].state = "mined"]
      /\ \A r \in Slots : r # s => tx'[r] = tx[r]
  BY UnderIsTx DEF Takes, DeskTypeOK
<1>2. tx'[s].state = "mined" /\ tx'[s] # NoTx
  BY <1>1 DEF DeskTypeOK, Tx, NoTx
<1>3. IdleBuilds' /\ (~careless => BuildsFit')
  <2> SUFFICES ASSUME NEW b \in Builds
               PROVE  /\ build'[b].pc = "idle" => build'[b] = Idle
                      /\ ~careless /\ build'[b].plan.fresh => Room(build[b].plan.wrap)'
    BY <1>1 DEF IdleBuilds, BuildsFit, Room
  <2>1. build'[b] = IF build[b].pc = "idle" THEN Idle ELSE [build[b] EXCEPT !.plan.fresh = FALSE]
    BY DEF Takes
  <2>2. CASE build[b].pc = "idle"
    BY <1>1, <2>1, <2>2 DEF Idle, NoCalls, Room, WrapInv, IdleBuilds
  <2>3. CASE build[b].pc # "idle"
    <3>1. build[b] \in Build
      BY DEF DeskTypeOK
    <3>2. build'[b].pc # "idle" /\ build'[b].plan.fresh = FALSE
      BY <2>1, <2>3, <3>1 DEF Build, Plans
    <3>3. QED
      BY <3>2
  <2>4. QED
    BY <2>2, <2>3
<1>4. PlanFits'
  <2>1. plan' # NoPlan => plan'.fresh = FALSE
    BY DEF Takes, DeskTypeOK, Plans
  <2>2. QED
    BY <2>1 DEF PlanFits
<1>5. ~careless => OneUnderWay' /\ WrapFits'
  BY <1>1, <1>2 DEF WrapInv, OneUnderWay, WrapFits, Under, Pending
<1>6. Want["weth"] <= most'
  BY <1>1 DEF WrapInv
<1>7. QED
  BY <1>1, <1>3, <1>4, <1>5, <1>6 DEF WrapInv

(* Steps after which the chain is as it was.                               *)
LEMMA WrapTxFrame ==
    ASSUME DeskTypeOK, WrapInv, NEW s \in Slots, Under(s),
           UNCHANGED <<wallet, plan, careless, most>>,
           \A r \in Slots : r # s => tx'[r] = tx[r],
           ~Pending(s, "wrap")',
           UNCHANGED build \/ \E b \in Builds : Begins(b)
    PROVE  WrapInv'
<1>1. IdleBuilds' /\ (~careless => BuildsFit')
  <2>1. CASE UNCHANGED build
    BY <2>1 DEF WrapInv, IdleBuilds, BuildsFit, Room
  <2>2. ASSUME NEW b \in Builds, Begins(b) PROVE IdleBuilds' /\ (~careless => BuildsFit')
    <3> DEFINE new == [build[b] EXCEPT !.pc = FirstRead]
    <3>1. build[b] \in Build /\ build' = [build EXCEPT ![b] = new]
      BY <2>2 DEF Begins, DeskTypeOK
    <3>2. new.pc # "idle" /\ new.plan = build[b].plan
      BY <3>1, ReadsArePlaces DEF Build
    <3> HIDE DEF new
    <3>3. \A c \in Builds : build'[c] = IF c = b THEN new ELSE build[c]
      BY <3>1 DEF DeskTypeOK
    <3>4. QED
      BY <3>2, <3>3 DEF WrapInv, IdleBuilds, BuildsFit, Room
  <2>3. QED
    BY <2>1, <2>2
<1>2. ~careless => OneUnderWay' /\ WrapFits'
  BY DEF WrapInv, OneUnderWay, WrapFits, Under, Pending, Room
<1>3. ~careless => PlanFits'
  BY DEF WrapInv, PlanFits, Room
<1>4. QED
  BY <1>1, <1>2, <1>3 DEF WrapInv

LEMMA WrapTxStep ==
    ASSUME DeskTypeOK, WrapInv, NEW s \in Slots, TxNext(s) \/ GiveUp(s)
    PROVE  WrapInv'
<1>1. wallet["weth"] \in Nat /\ Want["weth"] \in Nat /\ most \in Nat
  BY TokensAreCalls DEF DeskTypeOK
<1>2. CASE MineWrap(s)
  <2> DEFINE pays == [wallet EXCEPT !["eth"] = @ - tx[s].amount, !["weth"] = @ + tx[s].amount]
  <2>1. Under(s) /\ Pending(s, "wrap") /\ tx[s].amount \in Nat
    BY <1>2, UnderIsTx DEF MineWrap, Pending, Tx
  <2>2. pays["weth"] = wallet["weth"] + tx[s].amount
    BY TokensAreCalls DEF DeskTypeOK
  <2>3. ~careless => pays["weth"] <= most + Rounding
    BY <2>1, <2>2 DEF WrapInv, WrapFits, Room
  <2>4. Takes(s, pays, allow, opened)
    BY <1>2 DEF MineWrap
  <2>5. pays["weth"] \in Nat
    BY <1>1, <2>1, <2>2
  <2> HIDE DEF pays
  <2>6. QED
    BY <2>1, <2>3, <2>4, <2>5, WrapTakes
<1>3. CASE MineApproval(s)
  <2> PICK t \in Tokens :
             Pending(s, t) /\ Takes(s, wallet, [allow EXCEPT ![t] = tx[s].amount], opened)
    BY <1>3 DEF MineApproval
  <2>1. QED
    BY <1>1, WrapTakes DEF WrapInv, Pending
<1>4. CASE MineMint(s)
  <2> DEFINE pays == [x \in DOMAIN wallet |->
                        IF x \in Tokens THEN wallet[x] - Want[x] ELSE wallet[x]]
  <2>1. CanMint /\ Under(s) /\ Takes(s, pays, [t \in Tokens |-> allow[t] - Want[t]], opened + 1)
    BY <1>4 DEF MineMint, Pending
  <2>2. pays["weth"] = wallet["weth"] - Want["weth"]
    BY TokensAreCalls DEF DeskTypeOK
  <2>3. pays["weth"] \in Nat
    BY <1>1, <2>1, <2>2, TokensAreCalls DEF CanMint
  <2>4. ~careless => pays["weth"] <= most + Rounding
    <3>1. ~careless => wallet["weth"] <= most + Rounding
      BY DEF WrapInv
    <3>2. pays["weth"] <= wallet["weth"]
      BY <1>1, <2>2
    <3> HIDE DEF pays
    <3>3. QED
      BY <1>1, <2>3, <3>1, <3>2, BoundsAreNat
  <2> HIDE DEF pays
  <2>5. QED
    BY <2>1, <2>3, <2>4, WrapTakes
<1>5. CASE Revert(s)
  <2>1. Under(s) /\ tx[s] \in Tx /\ tx' = [tx EXCEPT ![s].state = "reverted"]
    BY <1>5, UnderIsTx DEF Revert
  <2>2. tx'[s].state = "reverted"
    BY <2>1 DEF DeskTypeOK, Tx
  <2>3. QED
    BY <1>5, <2>1, <2>2, WrapTxFrame DEF Revert, DeskTypeOK, Pending
<1>6. CASE SeeReceipt(s)
  <2>1. tx' = [tx EXCEPT ![s] = NoTx] /\ Under(s) /\ ~Under(s)'
    BY <1>6 DEF SeeReceipt, Under, DeskTypeOK
  <2>2. UNCHANGED build \/ \E b \in Builds : Begins(b)
    BY <1>6 DEF SeeReceipt
  <2>3. QED
    BY <1>6, <2>1, <2>2, WrapTxFrame DEF SeeReceipt, DeskTypeOK, Pending
<1>7. CASE GiveUp(s)
  <2>1. tx' = [tx EXCEPT ![s] = NoTx] /\ Under(s) /\ ~Under(s)'
    BY <1>7 DEF GiveUp, Under, DeskTypeOK
  <2>2. QED
    BY <1>7, <2>1, WrapTxFrame DEF GiveUp, DeskTypeOK, Pending
<1>8. QED
  BY <1>2, <1>3, <1>4, <1>5, <1>6, <1>7 DEF TxNext

LEMMA WrapSend ==
    ASSUME DeskTypeOK, WrapInv, NEW s \in Slots, NEW kind \in Calls, Send(s, kind)
    PROVE  WrapInv'
<1> DEFINE new == [kind |-> kind, amount |-> AmountOf(kind), state |-> "pending"]
<1>1. /\ plan \in Plans /\ tx' = [tx EXCEPT ![s] = new] /\ plan # NoPlan
      /\ \A r \in Slots : tx'[r] = IF r = s THEN new ELSE tx[r]
  BY SendTyped DEF DeskTypeOK, Send, Offered
<1>2. UNCHANGED <<wallet, plan, build, most>>
  BY DEF Send
<1>3. ~careless' => ~careless /\ plan.fresh /\ Waiting = {}
  BY Zenon DEF Send
<1>4. IdleBuilds'
  BY <1>2 DEF WrapInv, IdleBuilds
<1>5. ASSUME ~careless'
      PROVE  BuildsFit' /\ PlanFits' /\ OneUnderWay' /\ WrapFits' /\ wallet'["weth"] <= most' + Rounding
  <2>1. BuildsFit' /\ PlanFits' /\ wallet'["weth"] <= most' + Rounding
    BY <1>2, <1>3, <1>5 DEF WrapInv, BuildsFit, PlanFits, Room
  <2>2. \A r \in Slots : r # s => tx'[r] = NoTx
    BY <1>1, <1>3, <1>5 DEF Waiting, Under
  <2>3. OneUnderWay'
    BY <2>2 DEF OneUnderWay, Under
  <2>4. new.kind = "wrap" => new.amount = plan.wrap /\ new.kind = kind
    BY DEF AmountOf
  <2>5. WrapFits'
    BY <1>1, <1>2, <1>3, <1>5, <2>2, <2>4 DEF WrapFits, Pending, Under, WrapInv, PlanFits, Room
  <2>6. QED
    BY <2>1, <2>3, <2>5
<1>6. QED
  BY <1>2, <1>4, <1>5 DEF WrapInv

LEMMA WrapStep == DeskTypeOK /\ WrapInv /\ DeskNext => WrapInv'
BY WrapBuildStep, WrapTxStep, WrapSend DEF DeskNext

(***************************************************************************)
(* OpenDesk: the approvals.  An allowance the page has set is what the     *)
(* position takes or less, so the mint that uses it leaves nothing of it.  *)
(***************************************************************************)
ApprovalInv ==
    /\ \A t \in approved : /\ allow[t] <= Want[t] /\ mints[t] \in {0, 1}
                           /\ mints[t] = 1 => Want[t] > 0 /\ allow[t] = 0
    /\ \A s \in Slots : Under(s) /\ tx[s].kind \in Tokens => tx[s].amount = Want[tx[s].kind]

LEMMA ApprovalInit == DeskInit => ApprovalInv
BY WantAssumption DEF DeskInit, ApprovalInv, Under

LEMMA ApprovalStep == DeskTypeOK /\ ApprovalInv /\ DeskNext => ApprovalInv'
<1> SUFFICES ASSUME DeskTypeOK, ApprovalInv, DeskNext PROVE ApprovalInv'
  OBVIOUS
<1> USE WantAssumption DEF ApprovalInv
<1>1. ASSUME NEW b \in Builds, BeginBuild(b) \/ BuildNext(b) \/ FailBuild(b) PROVE ApprovalInv'
  <2>1. BuildUnchanged
    BY <1>1 DEF BeginBuild, BuildNext, FailBuild, ReadAllowance, ReadBalance, FinishBuild
  <2>2. QED
    BY <2>1 DEF BuildUnchanged, Under
<1>2. ASSUME NEW s \in Slots, TxNext(s) \/ GiveUp(s) PROVE ApprovalInv'
  <2>1. ASSUME \A r \in Slots : Under(r)' => Under(r) /\ tx'[r].kind = tx[r].kind
                                             /\ tx'[r].amount = tx[r].amount
        PROVE  \A r \in Slots : Under(r)' /\ tx'[r].kind \in Tokens
                                  => tx'[r].amount = Want[tx'[r].kind]
    BY <2>1
  <2>2. Under(s) /\ tx[s] \in Tx
    BY <1>2, UnderIsTx DEF TxNext, MineWrap, MineApproval, MineMint, Revert, SeeReceipt, GiveUp,
                           Pending
  <2>3. ASSUME NEW pays, NEW allowance, NEW n, Takes(s, pays, allowance, n)
        PROVE  \A r \in Slots : Under(r)' => Under(r) /\ tx'[r].kind = tx[r].kind
                                             /\ tx'[r].amount = tx[r].amount
    BY <2>2, <2>3 DEF Takes, Under, DeskTypeOK, Tx, NoTx
  <2>4. CASE MineWrap(s)
    BY <2>1, <2>3, <2>4 DEF MineWrap, Takes
  <2>5. CASE MineApproval(s)
    <3> PICK t \in Tokens :
               /\ Pending(s, t) /\ Takes(s, wallet, [allow EXCEPT ![t] = tx[s].amount], opened)
               /\ approved' = approved \cup {t} /\ mints' = [mints EXCEPT ![t] = 0]
      BY <2>5 DEF MineApproval
    <3>1. tx[s].amount = Want[t] /\ Want[t] \in Nat
      BY DEF Pending
    <3>2. allow' = [allow EXCEPT ![t] = Want[t]]
      BY <3>1 DEF Takes
    <3>3. ASSUME NEW u \in approved'
          PROVE  /\ allow'[u] <= Want[u] /\ mints'[u] \in {0, 1}
                 /\ mints'[u] = 1 => Want[u] > 0 /\ allow'[u] = 0
      <4>1. u \in Tokens /\ (u = t \/ u \in approved)
        BY DEF DeskTypeOK
      <4>2. CASE u = t
        BY <3>1, <3>2, <4>1, <4>2 DEF DeskTypeOK
      <4>3. CASE u # t
        BY <3>2, <4>1, <4>3 DEF DeskTypeOK
      <4>4. QED
        BY <4>2, <4>3
    <3>4. QED
      BY <2>1, <2>3, <3>3
  <2>6. CASE MineMint(s)
    <3>1. \A t \in Tokens : /\ allow'[t] = allow[t] - Want[t] /\ allow[t] >= Want[t]
                            /\ mints'[t] = IF Want[t] > 0 THEN mints[t] + 1 ELSE 0
      BY <2>6 DEF MineMint, Takes, CanMint
    <3>2. \A t \in approved : /\ allow'[t] <= Want[t] /\ mints'[t] \in {0, 1}
                              /\ mints'[t] = 1 => Want[t] > 0 /\ allow'[t] = 0
      <4> TAKE t \in approved
      <4> t \in Tokens
        BY DEF DeskTypeOK
      <4>1. allow[t] \in Nat /\ Want[t] \in Nat /\ allow[t] = Want[t]
        <5>1. allow[t] <= Want[t] /\ allow[t] >= Want[t]
          BY <3>1
        <5>2. allow[t] \in Nat /\ Want[t] \in Nat
          BY DEF DeskTypeOK
        <5>3. QED
          BY <5>1, <5>2
      <4>2. Want[t] > 0 => mints[t] = 0
        BY <4>1
      <4>3. QED
        BY <3>1, <4>1, <4>2
    <3>3. QED
      BY <2>1, <2>3, <2>6, <3>2 DEF MineMint
  <2>7. CASE Revert(s)
    BY <2>1, <2>2, <2>7 DEF Revert, Under, DeskTypeOK, Tx, NoTx
  <2>8. CASE SeeReceipt(s)
    BY <2>1, <2>8 DEF SeeReceipt, Under, DeskTypeOK
  <2>9. CASE GiveUp(s)
    BY <2>1, <2>9 DEF GiveUp, Under, DeskTypeOK
  <2>10. QED
    BY <1>2, <2>4, <2>5, <2>6, <2>7, <2>8, <2>9 DEF TxNext
<1>3. ASSUME NEW s \in Slots, NEW kind \in Calls, Send(s, kind) PROVE ApprovalInv'
  <2>1. kind \in Tokens => AmountOf(kind) = Want[kind]
    BY TokensAreCalls DEF AmountOf
  <2>2. \A r \in Slots : tx'[r] = IF r # s THEN tx[r] ELSE
                           [kind |-> kind, amount |-> AmountOf(kind), state |-> "pending"]
    BY <1>3 DEF Send, DeskTypeOK
  <2>3. UNCHANGED <<allow, approved, mints>>
    BY <1>3 DEF Send
  <2>4. QED
    BY <2>1, <2>2, <2>3 DEF Under
<1>4. QED
  BY <1>1, <1>2, <1>3 DEF DeskNext

(***************************************************************************)
(* CloseDesk.                                                              *)
(***************************************************************************)
LEMMA CloseTypeInit == CloseInit => CloseTypeOK
<1> SUFFICES ASSUME CloseInit PROVE CloseTypeOK
  OBVIOUS
<1>1. 1 \in Liquidity /\ upsets \in 0..MaxUpsets
  BY CloseBounds DEF CloseInit, Liquidity
<1>2. saved \in [liq : Liquidity, stale : BOOLEAN, final : BOOLEAN]
  BY <1>1 DEF CloseInit
<1>3. QED
  BY <1>1, <1>2 DEF CloseInit, CloseTypeOK

(* A call built from a snapshot nothing was added since takes out whatever *)
(* there is, and one that was confirmed has.                               *)
Covers(call) ==
    call # NoCall /\ call.kind = "close" /\ ~call.stale => call.liq >= liquidity
Emptied(s) ==
    outgoing[s] # NothingSent /\ outgoing[s].kind = "close" /\ ~outgoing[s].stale =>
       /\ outgoing[s].state = "pending" => outgoing[s].liq >= liquidity
       /\ outgoing[s].state = "CONFIRMED" => liquidity = 0

CloseInv ==
    /\ ~saved.stale => saved.liq >= liquidity
    /\ Covers(preparing) /\ Covers(shown)
    /\ \A s \in CloseSlots : Emptied(s)
    /\ FinalUnlessGrown

LEMMA CloseInvInit == CloseInit => CloseInv
BY DEF CloseInit, CloseInv, Covers, Emptied, FinalUnlessGrown

LEMMA SentKinds ==
    ASSUME CloseTypeOK, NEW s \in CloseSlots, outgoing[s] # NothingSent
    PROVE  outgoing[s] \in Sent /\ outgoing[s].liq \in Liquidity
<1>1. outgoing[s] \in Sent
  BY DEF CloseTypeOK
<1>2. QED
  BY <1>1 DEF Sent

(* Liquidity is added.                                                     *)
LEMMA TopUpStep == CloseTypeOK /\ CloseInv /\ TopUp => CloseTypeOK' /\ CloseInv'
<1> SUFFICES ASSUME CloseTypeOK, CloseInv, TopUp PROVE CloseTypeOK' /\ CloseInv'
  OBVIOUS
<1>1. ASSUME NEW call \in Prepared \cup {NoCall}
      PROVE  Stale(call) \in Prepared \cup {NoCall} /\ (Stale(call) = NoCall \/ Stale(call).stale)
  BY DEF Stale, Prepared, NoCall
<1>2. preparing' \in Prepared \cup {NoCall} /\ shown' \in Prepared \cup {NoCall}
  BY <1>1 DEF TopUp, CloseTypeOK
<1>3. \A s \in CloseSlots : /\ outgoing'[s] \in Sent \cup {NothingSent}
                            /\ outgoing'[s] = NothingSent \/ outgoing'[s].stale
  BY SentKinds DEF TopUp, Sent, NothingSent
<1>4. outgoing' \in [CloseSlots -> Sent \cup {NothingSent}]
  BY <1>3 DEF TopUp
<1>5. saved' \in [liq : Liquidity, stale : BOOLEAN, final : BOOLEAN] /\ saved'.stale
      /\ saved'.final = saved.final
  BY DEF TopUp, CloseTypeOK
<1>6. liquidity' \in Liquidity
  BY CloseBounds DEF TopUp, CloseTypeOK, Liquidity
<1>7. grown' \in BOOLEAN
  BY Zenon DEF TopUp
<1>8. CloseTypeOK'
  BY <1>2, <1>4, <1>5, <1>6, <1>7 DEF CloseTypeOK, TopUp
<1>9. Covers(preparing)' /\ Covers(shown)'
  BY <1>1 DEF Covers, TopUp, CloseTypeOK
<1>10. \A s \in CloseSlots : Emptied(s)'
  BY <1>3 DEF Emptied
<1>11. FinalUnlessGrown'
  BY <1>5 DEF TopUp, FinalUnlessGrown
<1>12. QED
  BY <1>5, <1>8, <1>9, <1>10, <1>11 DEF CloseInv

(* No other step adds any: what covered the liquidity still does.          *)
LEMMA LessStays ==
    ASSUME CloseTypeOK, CloseInv, liquidity' \in Liquidity, liquidity' <= liquidity
    PROVE  /\ ~saved.stale => saved.liq >= liquidity'
           /\ \A call \in {preparing, shown} :
                 call # NoCall /\ call.kind = "close" /\ ~call.stale => call.liq >= liquidity'
           /\ \A s \in CloseSlots :
                 outgoing[s] # NothingSent /\ outgoing[s].kind = "close" /\ ~outgoing[s].stale =>
                    /\ outgoing[s].state = "pending" => outgoing[s].liq >= liquidity'
                    /\ outgoing[s].state = "CONFIRMED" => liquidity' = 0
           /\ saved.final /\ status = "CLOSED" /\ ~grown => liquidity' = 0
<1>1. liquidity \in Nat /\ liquidity' \in Nat
  BY CloseBounds DEF CloseTypeOK, Liquidity
<1>2. ~saved.stale => saved.liq >= liquidity'
  BY <1>1, CloseBounds DEF CloseInv, CloseTypeOK, Liquidity
<1>3. ASSUME NEW call \in {preparing, shown}, call # NoCall, call.kind = "close", ~call.stale
      PROVE  call.liq >= liquidity'
  <2>1. call.liq \in Nat /\ call.liq >= liquidity
    BY <1>3, CloseBounds DEF CloseInv, CloseTypeOK, Covers, Prepared, Liquidity
  <2>2. QED
    BY <1>1, <2>1
<1>4. ASSUME NEW s \in CloseSlots,
             outgoing[s] # NothingSent, outgoing[s].kind = "close", ~outgoing[s].stale
      PROVE  /\ outgoing[s].state = "pending" => outgoing[s].liq >= liquidity'
             /\ outgoing[s].state = "CONFIRMED" => liquidity' = 0
  <2>1. outgoing[s].liq \in Nat
    BY <1>4, SentKinds, CloseBounds DEF Liquidity
  <2>2. /\ outgoing[s].state = "pending" => outgoing[s].liq >= liquidity
        /\ outgoing[s].state = "CONFIRMED" => liquidity = 0
    BY <1>4 DEF CloseInv, Emptied
  <2>3. QED
    BY <1>1, <2>1, <2>2
<1>5. saved.final /\ status = "CLOSED" /\ ~grown => liquidity' = 0
  BY <1>1 DEF CloseInv, FinalUnlessGrown
<1>6. QED
  BY <1>2, <1>3, <1>4, <1>5

LEMMA CloseTypeStep == CloseTypeOK /\ CloseInv /\ CloseNext => CloseTypeOK'
<1> SUFFICES ASSUME CloseTypeOK, CloseInv, CloseNext PROVE CloseTypeOK'
  OBVIOUS
<1> USE CloseBounds
<1>1. CASE TopUp
  BY <1>1, TopUpStep
<1>2. CASE DrainElsewhere
  BY <1>2 DEF DrainElsewhere, CloseTypeOK, Liquidity
<1>3. CASE Rescan
  BY <1>3 DEF Rescan, CloseTypeOK
<1>4. ASSUME NEW kind \in Kinds, Prepare(kind) PROVE CloseTypeOK'
  <2>1. [kind |-> kind, stale |-> saved.stale, liq |-> IF kind = "close" THEN saved.liq ELSE 0]
           \in Prepared
    BY DEF CloseTypeOK, Prepared, Liquidity
  <2>2. QED
    BY <1>4, <2>1 DEF Prepare, CloseTypeOK
<1>5. CASE Simulates \/ SimulationFails
  BY <1>5 DEF Simulates, SimulationFails, CloseTypeOK
<1>6. ASSUME NEW s \in CloseSlots, SendCall(s) PROVE CloseTypeOK'
  <2>1. shown \in Prepared
    BY <1>6 DEF SendCall, CloseTypeOK
  <2>2. [kind |-> shown.kind, liq |-> shown.liq, stale |-> shown.stale, state |-> "pending"] \in Sent
    BY <2>1 DEF Prepared, Sent
  <2>3. QED
    BY <1>6, <2>2 DEF SendCall, CloseTypeOK
<1>7. ASSUME NEW s \in CloseSlots, Confirm(s) \/ Reverts(s) PROVE CloseTypeOK'
  <2>1. outgoing[s] \in Sent /\ outgoing[s].liq \in Liquidity
    BY <1>7, SentKinds DEF Confirm, Mined, Reverts, NothingSent
  <2>2. /\ [outgoing[s] EXCEPT !.state = "CONFIRMED"] \in Sent
        /\ [outgoing[s] EXCEPT !.state = "FAILED"] \in Sent
    BY <2>1 DEF Sent
  <2>3. outgoing' \in [CloseSlots -> Sent \cup {NothingSent}]
    BY <1>7, <2>2 DEF Confirm, Reverts, CloseTypeOK
  <2>4. CASE Confirm(s)
    <3>1. liquidity' \in Liquidity
      BY <2>1, <2>4 DEF Confirm, Mined, Liquidity, CloseTypeOK
    <3>2. QED
      BY <2>3, <2>4, <3>1 DEF Confirm, CloseTypeOK
  <2>5. CASE Reverts(s)
    <3>1. upsets' \in 0..MaxUpsets
      BY <2>5 DEF Reverts, CloseTypeOK
    <3>2. QED
      BY <2>3, <2>5, <3>1 DEF Reverts, CloseTypeOK
  <2>6. QED
    BY <1>7, <2>4, <2>5
<1>8. ASSUME NEW s \in CloseSlots, PostReceipt(s) PROVE CloseTypeOK'
  <2>1. outgoing' \in [CloseSlots -> Sent \cup {NothingSent}]
    BY <1>8 DEF PostReceipt, Done, CloseTypeOK
  <2>2. saved' \in [liq : Liquidity, stale : BOOLEAN, final : BOOLEAN]
        /\ status' \in {"OPEN", "CLOSED"}
    BY <1>8 DEF PostReceipt, CloseTypeOK
  <2>3. grown \in BOOLEAN /\ (grown' = grown \/ grown' = (grown \/ outgoing[s].stale))
    BY <1>8, Zenon DEF PostReceipt, CloseTypeOK
  <2>4. grown' \in BOOLEAN
    BY <2>3, Zenon
  <2>5. QED
    BY <1>8, <2>1, <2>2, <2>4 DEF PostReceipt, CloseTypeOK
<1>9. ASSUME NEW s \in CloseSlots, LoseReceipt(s) PROVE CloseTypeOK'
  <2>1. outgoing' \in [CloseSlots -> Sent \cup {NothingSent}] /\ upsets' \in 0..MaxUpsets
    BY <1>9 DEF LoseReceipt, Done, CloseTypeOK
  <2>2. QED
    BY <1>9, <2>1 DEF LoseReceipt, CloseTypeOK
<1>10. QED
  BY <1>1, <1>2, <1>3, <1>4, <1>5, <1>6, <1>7, <1>8, <1>9 DEF CloseNext

(* A step of one transaction: the calls that are prepared and shown, and   *)
(* what was saved of the liquidity, stay.                                  *)
LEMMA CloseTxFrame ==
    ASSUME CloseTypeOK, CloseInv, NEW s \in CloseSlots,
           liquidity' \in Liquidity, liquidity' <= liquidity,
           UNCHANGED <<preparing, shown>>,
           saved'.liq = saved.liq, saved'.stale = saved.stale,
           \A r \in CloseSlots : r # s => outgoing'[r] = outgoing[r],
           Emptied(s)', FinalUnlessGrown'
    PROVE  CloseInv'
<1>1. Covers(preparing)' /\ Covers(shown)'
  BY LessStays DEF Covers
<1>2. \A r \in CloseSlots : Emptied(r)'
  <2> SUFFICES ASSUME NEW r \in CloseSlots, r # s PROVE Emptied(r)'
    OBVIOUS
  <2>1. outgoing'[r] = outgoing[r]
    OBVIOUS
  <2>2. QED
    BY <2>1, LessStays DEF Emptied
<1>3. QED
  BY <1>1, <1>2, LessStays DEF CloseInv

LEMMA CloseTxStep ==
    ASSUME CloseTypeOK, CloseInv, NEW s \in CloseSlots,
           Confirm(s) \/ Reverts(s) \/ PostReceipt(s) \/ LoseReceipt(s)
    PROVE  CloseInv'
<1>1. /\ outgoing[s] \in Sent /\ outgoing[s].liq \in Nat /\ outgoing[s] # NothingSent
      /\ liquidity \in Nat /\ liquidity \in Liquidity /\ Emptied(s) /\ FinalUnlessGrown
  BY SentKinds, CloseBounds DEF Confirm, Mined, Reverts, PostReceipt, LoseReceipt, NothingSent,
                                CloseTypeOK, Liquidity, CloseInv
<1>3. CASE Confirm(s)
  <2>1. outgoing'[s] = [outgoing[s] EXCEPT !.state = "CONFIRMED"]
    BY <1>3 DEF Confirm, CloseTypeOK
  <2>2. /\ outgoing'[s].kind = outgoing[s].kind /\ outgoing'[s].stale = outgoing[s].stale
        /\ outgoing'[s].state = "CONFIRMED"
    BY <1>1, <2>1 DEF Sent
  <2>3. /\ outgoing[s].state = "pending" /\ outgoing[s].liq <= liquidity
        /\ liquidity' = liquidity - outgoing[s].liq
    BY <1>3 DEF Confirm, Mined
  <2>4. liquidity' \in Liquidity /\ liquidity' <= liquidity
    BY <1>1, <2>3, CloseBounds DEF Liquidity
  <2>5. Emptied(s)'
    BY <1>1, <2>2, <2>3 DEF Emptied
  <2>6. FinalUnlessGrown'
    BY <1>3, <2>4, LessStays DEF Confirm, FinalUnlessGrown
  <2>7. QED
    BY <1>3, <2>4, <2>5, <2>6, CloseTxFrame DEF Confirm, CloseTypeOK
<1>4. CASE Reverts(s)
  <2>1. outgoing'[s].state = "FAILED" /\ liquidity' = liquidity
    BY <1>1, <1>4 DEF Reverts, CloseTypeOK, Sent
  <2>2. Emptied(s)' /\ FinalUnlessGrown'
    BY <1>1, <1>4, <2>1 DEF Reverts, Emptied, FinalUnlessGrown
  <2>3. QED
    BY <1>1, <1>4, <2>1, <2>2, CloseTxFrame DEF Reverts, CloseTypeOK
<1>5. CASE PostReceipt(s)
  <2>1. Emptied(s)' /\ liquidity' = liquidity
    BY <1>5 DEF PostReceipt, Done, Emptied, CloseTypeOK
  <2>2. saved'.liq = saved.liq /\ saved'.stale = saved.stale
    BY <1>5 DEF PostReceipt, CloseTypeOK
  <2>3. FinalUnlessGrown'
    <3>1. CASE Finalises(s)
      <4>1. ~grown' => ~outgoing[s].stale
        BY <1>5, <3>1, Zenon DEF PostReceipt
      <4>2. QED
        BY <1>1, <2>1, <3>1, <4>1 DEF Finalises, Emptied, FinalUnlessGrown
    <3>2. CASE ~Finalises(s)
      BY <1>1, <1>5, <3>2 DEF PostReceipt, FinalUnlessGrown
    <3>3. QED
      BY <3>1, <3>2
  <2>4. QED
    BY <1>1, <1>5, <2>1, <2>2, <2>3, CloseTxFrame DEF PostReceipt, Done, CloseTypeOK
<1>6. CASE LoseReceipt(s)
  <2>1. Emptied(s)' /\ liquidity' = liquidity /\ FinalUnlessGrown'
    BY <1>1, <1>6 DEF LoseReceipt, Done, Emptied, FinalUnlessGrown, CloseTypeOK
  <2>2. QED
    BY <1>1, <1>6, <2>1, CloseTxFrame DEF LoseReceipt, Done, CloseTypeOK
<1>7. QED
  BY <1>3, <1>4, <1>5, <1>6

LEMMA CloseStep == CloseTypeOK /\ CloseInv /\ CloseNext => CloseInv'
<1> SUFFICES ASSUME CloseTypeOK, CloseInv, CloseNext PROVE CloseInv'
  OBVIOUS
<1>1. liquidity \in Nat /\ liquidity \in Liquidity /\ 0 \in Liquidity
  BY CloseBounds DEF CloseTypeOK, Liquidity
<1>2. CASE TopUp
  BY <1>2, TopUpStep
<1>3. CASE DrainElsewhere
  <2>1. liquidity' \in Liquidity /\ liquidity' <= liquidity
    BY <1>1, <1>3 DEF DrainElsewhere
  <2>2. QED
    BY <1>3, <2>1, LessStays DEF DrainElsewhere, CloseInv, Covers, Emptied, FinalUnlessGrown
<1>4. CASE Rescan
  <2>1. saved'.liq = liquidity /\ saved'.final = saved.final
    BY <1>4 DEF Rescan, CloseTypeOK
  <2>2. status' = "CLOSED" => liquidity' = 0
    BY <1>1, <1>4 DEF Rescan
  <2>3. QED
    BY <1>1, <1>4, <2>1, <2>2 DEF Rescan, CloseInv, Covers, Emptied, FinalUnlessGrown
<1>5. ASSUME NEW kind \in Kinds, Prepare(kind) PROVE CloseInv'
  <2>1. Covers(preparing)'
    BY <1>5 DEF Prepare, Covers, CloseInv
  <2>2. QED
    BY <1>5, <2>1 DEF Prepare, CloseInv, Covers, Emptied, FinalUnlessGrown
<1>6. CASE Simulates \/ SimulationFails
  BY <1>6 DEF Simulates, SimulationFails, CloseInv, Covers, Emptied, FinalUnlessGrown
<1>7. ASSUME NEW s \in CloseSlots, SendCall(s) PROVE CloseInv'
  <2>1. /\ outgoing'[s] = [kind |-> shown.kind, liq |-> shown.liq, stale |-> shown.stale,
                           state |-> "pending"]
        /\ \A r \in CloseSlots : r # s => outgoing'[r] = outgoing[r]
        /\ shown # NoCall
        /\ UNCHANGED <<liquidity, saved, status, preparing, shown, grown>>
    BY <1>7 DEF SendCall, CloseTypeOK
  <2>2. Emptied(s)'
    BY <2>1 DEF CloseInv, Covers, Emptied
  <2>3. FinalUnlessGrown'
    BY <2>1 DEF CloseInv, FinalUnlessGrown
  <2>4. QED
    BY <1>1, <2>1, <2>2, <2>3, CloseTxFrame
<1>8. ASSUME NEW s \in CloseSlots,
             Confirm(s) \/ Reverts(s) \/ PostReceipt(s) \/ LoseReceipt(s)
      PROVE  CloseInv'
  BY <1>8, CloseTxStep
<1>9. QED
  BY <1>2, <1>3, <1>4, <1>5, <1>6, <1>7, <1>8 DEF CloseNext

(***************************************************************************)
(* The page: every execution is of one of the two.                         *)
(***************************************************************************)
Inv ==
    /\ TypeOK
    /\ WrapInv /\ ApprovalInv
    /\ CloseInv

LEMMA InvInit == Init => Inv
BY DeskTypeInit, CloseTypeInit, WrapInit, ApprovalInit, CloseInvInit DEF Init, Inv, TypeOK

LEMMA InvStep == Inv /\ [Next]_vars => Inv'
<1> SUFFICES ASSUME Inv, [Next]_vars PROVE Inv'
  OBVIOUS
<1>1. ASSUME UNCHANGED deskVars PROVE DeskTypeOK' /\ WrapInv' /\ ApprovalInv'
  <2>1. DeskTypeOK'
    BY <1>1 DEF deskVars, Inv, TypeOK, DeskTypeOK
  <2>2. WrapInv'
    BY <1>1 DEF deskVars, Inv, WrapInv, IdleBuilds, BuildsFit, PlanFits, OneUnderWay, WrapFits,
                Room, Under, Pending
  <2>3. ApprovalInv'
    BY <1>1 DEF deskVars, Inv, ApprovalInv, Under
  <2>4. QED
    BY <2>1, <2>2, <2>3
<1>2. ASSUME UNCHANGED closeVars PROVE CloseTypeOK' /\ CloseInv'
  BY <1>2 DEF closeVars, Inv, TypeOK, CloseTypeOK, CloseInv, Covers, Emptied, FinalUnlessGrown
<1>3. CASE OnOpen(DeskNext)
  BY <1>2, <1>3, DeskTypeStep, WrapStep, ApprovalStep DEF OnOpen, Inv, TypeOK
<1>4. CASE page = "close" /\ CloseNext /\ UNCHANGED <<page, deskVars>>
  BY <1>1, <1>4, CloseTypeStep, CloseStep DEF Inv, TypeOK
<1>5. CASE UNCHANGED vars
  BY <1>1, <1>2, <1>5 DEF vars, Inv, TypeOK
<1>6. QED
  BY <1>3, <1>4, <1>5 DEF Next

LEMMA Invariance == Spec => []Inv
BY InvInit, InvStep, PTL DEF Spec

(* Type correctness of the two pages' state.                               *)
THEOREM TypeCorrect == Spec => []TypeOK
<1>1. Inv => TypeOK
  BY DEF Inv
<1>2. QED
  BY <1>1, Invariance, PTL

(* An operator who waits for each transaction and its rebuild never ends   *)
(* up with more WETH than was there or is wanted, but for a rounding,      *)
(* though each plan is made of several reads and builds overlap            *)
(* (build_open_position).                                                  *)
THEOREM NeverWrapsTooMuch == Spec => []NeverOverWraps
<1>1. Inv => NeverOverWraps
  BY DEF Inv, WrapInv, NeverOverWraps
<1>2. QED
  BY <1>1, Invariance, PTL

(* However often the buttons of outdated plans are pressed, an approval    *)
(* made on the page opens one position at most (build_open_position,       *)
(* sendExecutionCall).                                                     *)
THEOREM ApprovalOpensOne == Spec => []OneOpeningPerApproval
<1>1. Inv => OneOpeningPerApproval
  BY DEF Inv, ApprovalInv, OneOpeningPerApproval
<1>2. QED
  BY <1>1, Invariance, PTL

(* Final accounts of a closed position mean an empty NFT, unless liquidity *)
(* was added after the snapshot the close was built from                   *)
(* (build_close, finalise_execution_close).                                *)
THEOREM FinalIsEmpty == Spec => []FinalUnlessGrown
<1>1. Inv => FinalUnlessGrown
  BY DEF Inv, CloseInv
<1>2. QED
  BY <1>1, Invariance, PTL
===============================================================================
