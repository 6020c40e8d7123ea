------------------------------ MODULE PerformanceLog ------------------------------
(***************************************************************************)
(* The performance log: what a day's and the whole period's profit are     *)
(* computed from.  A capture (one per dashboard, /api/performance or       *)
(* cash-flow request, all in threads of the HTTP server) reads the stored  *)
(* wallet snapshot, then the stored positions twice, and then upserts a    *)
(* row of the day and one of the hour, each upsert a SELECT followed by an *)
(* UPDATE or an INSERT that nothing else makes atomic.  The stored values  *)
(* follow the chain only when the worker refreshes them, the wallet and    *)
(* the positions at different moments.                                     *)
(*                                                                         *)
(* Amounts are small integers; one tick is one hour of DayTicks hours.     *)
(***************************************************************************)
EXTENDS Integers, FiniteSets, FiniteSetsExt

CONSTANTS
    Requests,    \* HTTP threads
    DayTicks,    \* hours of a day
    MaxTime,     \* bound on the clock
    MaxMoves,    \* bound on what happens on chain
    MaxCaptures  \* bound on the captures begun

ASSUME TicksAssumption == DayTicks \in Nat \ {0} /\ MaxTime \in Nat
ASSUME BoundsAssumption == MaxMoves \in Nat /\ MaxCaptures \in Nat

Times == 0..MaxTime
DayOf(t) == t \div DayTicks
Days == {DayOf(t) : t \in Times}

VARIABLES
    now,       \* wall clock, in hours
    chain,     \* what the wallet and its positions are worth
    history,   \* of the chain: gains so far, external flows so far, moves made
    store,     \* the stored wallet snapshot and position rows
    owed,      \* owed[d]: flows of day d the ledger does not have yet
    recorded,  \* recorded[d]: net external flow recorded as of day d
    days,      \* table daily_performance
    hours,     \* table performance_hourly
    cap,       \* cap[h]: program counter and local values of a capture
    begun      \* captures begun so far

logVars == <<now, chain, history, store, owed, recorded, days, hours, cap, begun>>
outside == <<now, chain, history, owed>>

Worth == [liquid : Int, lp : Int, unclaimed : Int]
Total(w) == w.liquid + w.lp + w.unclaimed

(* A snapshot, with what was true when its last part was read.             *)
Snapshot == [at : Times, wealth : Int, exact : BOOLEAN, gain : Int, flow : Int]
SampleRow == [opening : Snapshot, closing : Snapshot, samples : Nat \ {0}]
NoSample == [samples |-> 0]
Has(table, key) == table[key] # NoSample

Capture == [pc : {"idle", "truth", "unclaimed", "day", "dayWrite", "hour", "hourWrite"},
            at : Times, seen : Worth, snap : Snapshot, old : Nat, alone : BOOLEAN]

NoSnapshot == [at |-> 0, wealth |-> 0, exact |-> FALSE, gain |-> 0, flow |-> 0]
Empty == [liquid |-> 0, lp |-> 0, unclaimed |-> 0]
NoCapture == [pc |-> "idle", at |-> 0, seen |-> Empty, snap |-> NoSnapshot, old |-> 0,
         alone |-> TRUE]

LogTypeOK ==
    /\ now \in Times
    /\ chain \in Worth /\ store \in Worth
    /\ history \in [gain : Int, flow : Int, moves : 0..MaxMoves]
    /\ owed \in [Days -> Int] /\ recorded \in [Days -> Int]
    /\ days \in [Days -> SampleRow \cup {NoSample}]
    /\ hours \in [Times -> SampleRow \cup {NoSample}]
    /\ cap \in [Requests -> Capture]
    /\ begun \in 0..MaxCaptures

LogInit ==
    /\ now = 0
    /\ chain = [liquid |-> 1, lp |-> 1, unclaimed |-> 1]
    /\ history = [gain |-> 0, flow |-> 0, moves |-> 0]
    /\ store = chain
    /\ owed = [d \in Days |-> 0]
    /\ recorded = [d \in Days |-> 0]
    /\ days = [d \in Days |-> NoSample]
    /\ hours = [t \in Times |-> NoSample]
    /\ cap = [h \in Requests |-> NoCapture]
    /\ begun = 0

--------------------------------------------------------------------------------
(***************************************************************************)
(* The clock, the chain and the operator's bank.                           *)
(***************************************************************************)
LogUnchanged == UNCHANGED <<store, recorded, days, hours, cap, begun>>

Tick == now < MaxTime /\ now' = now + 1 /\ UNCHANGED <<chain, history, owed>> /\ LogUnchanged

Moves(worth, gain, flow) ==
    /\ history.moves < MaxMoves
    /\ worth \in [liquid : Nat, lp : Nat, unclaimed : Nat]
    /\ chain' = worth
    /\ history' = [gain |-> history.gain + gain, flow |-> history.flow + flow,
                   moves |-> history.moves + 1]
    /\ owed' = [owed EXCEPT ![DayOf(now)] = @ + flow]
    /\ UNCHANGED now /\ LogUnchanged

EarnFees == Moves([chain EXCEPT !.unclaimed = @ + 1], 1, 0)
PriceMoves == \E g \in {-1, 1} : Moves([chain EXCEPT !.lp = @ + g], g, 0)
Collect ==
    /\ chain.unclaimed > 0
    /\ Moves([chain EXCEPT !.liquid = @ + chain.unclaimed, !.unclaimed = 0], 0, 0)
Invest == \E a \in {-1, 1} : Moves([chain EXCEPT !.liquid = @ - a, !.lp = @ + a], 0, 0)
CashMoves == \E f \in {-1, 1} : Moves([chain EXCEPT !.liquid = @ + f], 0, f)

--------------------------------------------------------------------------------
(***************************************************************************)
(* The worker, and the operator's own refresh requests, bring the stored   *)
(* values up to date: positions and wallet separately.                     *)
(***************************************************************************)
RefreshPositions ==
    /\ store' = [store EXCEPT !.lp = chain.lp, !.unclaimed = chain.unclaimed]
    /\ UNCHANGED <<outside, recorded, days, hours, cap, begun>>
RefreshWallet ==
    /\ store' = [store EXCEPT !.liquid = chain.liquid]
    /\ UNCHANGED <<outside, recorded, days, hours, cap, begun>>

(* A reviewed wallet event or an imported baseline books a flow at the     *)
(* time it happened.                                                       *)
OneUnit(n) == IF n > 0 THEN 1 ELSE -1
BookFlow(d, day) ==
    /\ owed[d] # 0
    /\ owed' = [owed EXCEPT ![d] = @ - OneUnit(owed[d])]
    /\ recorded' = [recorded EXCEPT ![day] = @ + OneUnit(owed[d])]
    /\ UNCHANGED <<now, chain, history, store, days, hours>>
ReviewFlow == \E d \in Days : BookFlow(d, d) /\ UNCHANGED <<cap, begun>>

--------------------------------------------------------------------------------
(***************************************************************************)
(* capture_performance_sample: _portfolio_snapshot, then the two upserts.  *)
(***************************************************************************)
DataUnchanged == UNCHANGED <<now, chain, history, store, owed, recorded>>
StepUnchanged == DataUnchanged /\ UNCHANGED begun

(* time.time() and get_wallet_snapshot().  alone (not code): no other      *)
(* capture has been under way at any moment of this one.                   *)
Starts(h) ==
    LET others == {g \in Requests \ {h} : cap[g].pc # "idle"}
    IN /\ cap[h].pc = "idle" /\ begun < MaxCaptures
       /\ begun' = begun + 1
       /\ cap' = [g \in Requests |->
             IF g = h THEN [NoCapture EXCEPT !.pc = "truth", !.at = now,
                                        !.seen.liquid = store.liquid, !.alone = others = {}]
             ELSE [cap[g] EXCEPT !.alone = @ /\ cap[g].pc = "idle"]]

BeginCapture(h) ==
    /\ Starts(h)
    /\ DataUnchanged /\ UNCHANGED <<days, hours>>

(* POST /api/performance/cash-flow books the flow as of now, then captures.*)
PostCashFlow(h) ==
    /\ \E d \in Days : BookFlow(d, DayOf(now))
    /\ Starts(h)

(* portfolio_financial_truth: the positions' values.                       *)
ReadTruth(h) ==
    /\ cap[h].pc = "truth"
    /\ cap' = [cap EXCEPT ![h].pc = "unclaimed", ![h].seen.lp = store.lp]
    /\ StepUnchanged /\ UNCHANGED <<days, hours>>

Wealth(seen, unclaimed) == seen.liquid + seen.lp + unclaimed

(* The second list_positions: the fees still to be collected.  exact, gain *)
(* and flow (not code): whether every part is what the chain says at this  *)
(* moment, and the history at this moment.                                 *)
ReadUnclaimed(h) ==
    LET seen == [cap[h].seen EXCEPT !.unclaimed = store.unclaimed]
    IN /\ cap[h].pc = "unclaimed"
       /\ cap' = [cap EXCEPT ![h].pc = "day", ![h].seen = Empty, ![h].snap =
                    [at |-> cap[h].at, wealth |-> Wealth(seen, store.unclaimed),
                     exact |-> seen = chain, gain |-> history.gain, flow |-> history.flow]]
       /\ StepUnchanged /\ UNCHANGED <<days, hours>>

DayKey(h) == DayOf(cap[h].at)
HourKey(h) == cap[h].at

(* SELECT ... WHERE key=?                                                  *)
Look(h, pc, table, key, next) ==
    /\ cap[h].pc = pc
    /\ cap' = [cap EXCEPT ![h].pc = next, ![h].old = table[key].samples]
    /\ StepUnchanged /\ UNCHANGED <<days, hours>>

(* UPDATE of last_sample_at, samples and closing_json, or INSERT.          *)
(* Mutants: the update forgets the closing values; the first sample is not *)
(* counted.                                                                *)
Sampled_ClosingKept(table, key, snap, old) ==
    IF old > 0 THEN [table EXCEPT ![key].samples = old + 1]
    ELSE [table EXCEPT ![key] = [opening |-> snap, closing |-> snap, samples |-> 1]]
Sampled_CountsFromZero(table, key, snap, old) ==
    IF old > 0 THEN [table EXCEPT ![key].closing = snap, ![key].samples = old + 1]
    ELSE [table EXCEPT ![key] = [opening |-> snap, closing |-> snap, samples |-> 0]]
Sampled(table, key, snap, old) ==
    IF old > 0 THEN [table EXCEPT ![key].closing = snap, ![key].samples = old + 1]
    ELSE [table EXCEPT ![key] = [opening |-> snap, closing |-> snap, samples |-> 1]]

(* INSERT of a row that is there by now: IntegrityError, the request ends. *)
(* Mutant: INSERT OR REPLACE.                                              *)
Conflict_Replaces(table, key, old) == FALSE
Conflict(table, key, old) == old = 0 /\ Has(table, key)

LookDay(h) == Look(h, "day", days, DayKey(h), "dayWrite")
LookHour(h) == Look(h, "hour", hours, HourKey(h), "hourWrite")

WriteDay(h) ==
    /\ cap[h].pc = "dayWrite"
    /\ IF Conflict(days, DayKey(h), cap[h].old)
       THEN cap' = [cap EXCEPT ![h] = NoCapture] /\ UNCHANGED days
       ELSE /\ days' = Sampled(days, DayKey(h), cap[h].snap, cap[h].old)
            /\ cap' = [cap EXCEPT ![h].pc = "hour", ![h].old = 0]
    /\ StepUnchanged /\ UNCHANGED hours

WriteHour(h) ==
    /\ cap[h].pc = "hourWrite"
    /\ hours' = IF Conflict(hours, HourKey(h), cap[h].old) THEN hours
                ELSE Sampled(hours, HourKey(h), cap[h].snap, cap[h].old)
    /\ cap' = [cap EXCEPT ![h] = NoCapture]
    /\ StepUnchanged /\ UNCHANGED days

CaptureNext(h) ==
    \/ BeginCapture(h) \/ PostCashFlow(h) \/ ReadTruth(h) \/ ReadUnclaimed(h)
    \/ LookDay(h) \/ WriteDay(h) \/ LookHour(h) \/ WriteHour(h)

LogNext ==
    \/ Tick \/ EarnFees \/ PriceMoves \/ Collect \/ Invest \/ CashMoves
    \/ RefreshPositions \/ RefreshWallet \/ ReviewFlow
    \/ \E h \in Requests : CaptureNext(h)

LogSpec == LogInit /\ [][LogNext]_logVars

--------------------------------------------------------------------------------
(***************************************************************************)
(* What performance_log reports.                                           *)
(***************************************************************************)
(* _summarise_day's performance_pnl_usd.                                   *)
(* Mutant: deposits are left in the profit.                                *)
DayProfit_Gross(d) == days[d].closing.wealth - days[d].opening.wealth
DayProfit(d) == days[d].closing.wealth - days[d].opening.wealth - recorded[d]

RecordedDays == {d \in Days : Has(days, d)}
FirstDay == Min(RecordedDays)
LatestDay == Max(RecordedDays)
FlowOver(ds) == MapThenSumSet(LAMBDA d : recorded[d], ds)

(* The running performance_pnl_usd.                                        *)
(* Mutant: only the latest day's flows are taken off.                      *)
RunningProfit_LatestFlow ==
    days[LatestDay].closing.wealth - days[FirstDay].opening.wealth - recorded[LatestDay]
RunningProfit ==
    days[LatestDay].closing.wealth - days[FirstDay].opening.wealth - FlowOver(RecordedDays)

--------------------------------------------------------------------------------
(***************************************************************************)
(* Properties.                                                             *)
(***************************************************************************)
Exact(a, b) == a.exact /\ b.exact

(* A profit reported is what the portfolio gained between the two samples  *)
(* it is made of, whatever was collected, invested or paid in between, as  *)
(* long as both samples were exact and the flows recorded over the period  *)
(* are the flows between them: for one day (_summarise_day) and over the   *)
(* whole log with its nights and its days without a sample                 *)
(* (performance_log).                                                      *)
Booked(o, c, recordedFlow) == Exact(o, c) /\ c.flow - o.flow = recordedFlow
ProfitIsReal ==
    /\ \A d \in RecordedDays :
          LET o == days[d].opening
              c == days[d].closing
          IN Booked(o, c, recorded[d]) => DayProfit(d) = c.gain - o.gain
    /\ RecordedDays # {} =>
          LET o == days[FirstDay].opening
              c == days[LatestDay].closing
          IN Booked(o, c, FlowOver(RecordedDays)) => RunningProfit = c.gain - o.gain

(* The opening of a day or an hour is never replaced, though two requests  *)
(* may both find that there is no row yet (upsert_performance_day).        *)
OpeningStays ==
    [][/\ \A d \in Days : Has(days, d) => days'[d].opening = days[d].opening
       /\ \A t \in Times : Has(hours, t) => hours'[t].opening = hours[t].opening]_<<days, hours>>

(* Only captures that overlap can leave an older sample as the closing one *)
(* or lose a sample from the count: one that runs alone adds itself as the *)
(* latest (upsert_performance_day).                                        *)
AloneInOrder ==
    [][\A h \in Requests :
          cap[h].pc = "dayWrite" /\ cap[h].alone /\ days' # days =>
              LET d == DayOf(cap[h].at)
              IN /\ days'[d].closing.at = cap[h].at
                 /\ days'[d].samples = days[d].samples + 1
                 /\ Has(days, d) => days[d].closing.at <= cap[h].at]_<<days, cap>>
================================================================================
