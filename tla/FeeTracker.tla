------------------------------ MODULE FeeTracker ------------------------------
(***************************************************************************)
(* The rolling fee tracker of one position: the setting fees:tracker:<id>  *)
(* that _rolling_fee_tracker reads, updates and writes back from every     *)
(* scan's unclaimed amount, and the periods computed from it.              *)
(*                                                                         *)
(* One token, worth one unit in USD; time and fees are small integers.     *)
(***************************************************************************)
EXTENDS Integers, SequencesExt

CONSTANTS
    Scanners,   \* threads that reconcile the position: worker, HTTP handlers
    Sources,    \* where a scan may get the unclaimed amount from
    Spacings,   \* time that may pass between two steps
    Coalesce,   \* an observation this much younger replaces the last (300 s)
    Window,     \* the rolling window (24 h)
    Retention,  \* observations older than this are dropped (35 days)
    Midnight,   \* start of the calendar day that ends the behaviour
    MaxTime,    \* bound on time
    MaxEarned,  \* bound on the fees the pool pays the position
    MaxWrong    \* bound on the error of all the readings together

VARIABLES
    now,
    fees,      \* on chain: earned so far, paid out by collects, stored in
               \* tokensOwed (the rest of earned - paid is only in the growth)
    tracker,   \* the stored setting
    scan,      \* program counter and local values of each scanner
    past,      \* past[t]: the tracker's cumulative at the end of time t
    thinned,   \* whether an observation was ever coalesced or dropped
    wrong,     \* by how much the readings so far were off, all together
    overlapped \* whether a scan ever began while another was in flight

vars == <<now, fees, tracker, scan, past, thinned, wrong, overlapped>>

Observation == [at : 0..MaxTime, cum : Nat]
Tracker == [seen : BOOLEAN, opened : 0..MaxTime, last : Nat, cum : Nat, collected : Nat,
            day : Nat, obs : Seq(Observation)]
Scan == [pc : {"idle", "load", "save"}, unclaimed : Nat, at : 0..MaxTime, opened : 0..MaxTime,
         tracker : Tracker]

TypeOK ==
    /\ now \in 0..MaxTime
    /\ fees \in [earned : 0..MaxEarned, paid : 0..MaxEarned, stored : 0..MaxEarned]
    /\ tracker \in Tracker
    /\ scan \in [Scanners -> Scan]
    /\ past \in [0..MaxTime -> Nat]
    /\ wrong \in 0..MaxWrong /\ thinned \in BOOLEAN /\ overlapped \in BOOLEAN

NoTracker == [seen |-> FALSE, opened |-> 0, last |-> 0, cum |-> 0, collected |-> 0, day |-> 0,
              obs |-> <<>>]
Idle == [pc |-> "idle", unclaimed |-> 0, at |-> 0, opened |-> 0, tracker |-> NoTracker]

Init ==
    /\ now = 0
    /\ fees = [earned |-> 0, paid |-> 0, stored |-> 0]
    /\ tracker = NoTracker
    /\ scan = [s \in Scanners |-> Idle]
    /\ past = [t \in 0..MaxTime |-> 0]
    /\ thinned = FALSE /\ wrong = 0 /\ overlapped = FALSE

--------------------------------------------------------------------------------
(***************************************************************************)
(* Chain and clock.  The position is opened at time 0.                     *)
(***************************************************************************)
Unclaimed == fees.earned - fees.paid

Accrue ==
    /\ fees.earned < MaxEarned
    /\ fees' = [fees EXCEPT !.earned = @ + 1]
    /\ UNCHANGED <<now, tracker, scan, past, thinned, wrong, overlapped>>

(* Liquidity is changed: what has accrued becomes stored tokensOwed.       *)
Book ==
    /\ fees.stored # Unclaimed
    /\ fees' = [fees EXCEPT !.stored = Unclaimed]
    /\ UNCHANGED <<now, tracker, scan, past, thinned, wrong, overlapped>>

Collect ==
    /\ Unclaimed > 0
    /\ fees' = [fees EXCEPT !.paid = fees.earned, !.stored = 0]
    /\ UNCHANGED <<now, tracker, scan, past, thinned, wrong, overlapped>>

(* The clock does not advance while a scan that has read the chain is in   *)
(* flight: a pass is short against the refresh interval.                   *)
Tick(d) ==
    /\ now + d <= MaxTime /\ \A s \in Scanners : scan[s].pc = "idle"
    /\ now' = now + d
    /\ past' = [t \in 0..MaxTime |-> IF t >= now THEN tracker.cum ELSE past[t]]
    /\ UNCHANGED <<fees, tracker, scan, thinned, wrong, overlapped>>

--------------------------------------------------------------------------------
(***************************************************************************)
(* _rolling_fee_tracker.                                                   *)
(***************************************************************************)

(* The sum of the fees earned within the window: cumulative now minus the  *)
(* cumulative of the last observation not younger than the window.         *)
Before(obs, t) == {i \in DOMAIN obs : obs[i].at <= t}
Baseline(obs, t) == IF Before(obs, t) = {} THEN 0 ELSE obs[Max(Before(obs, t))].cum
AtLeast0(x) == IF x < 0 THEN 0 ELSE x
Rolling(obs, cum, at) == AtLeast0(cum - Baseline(obs, at - Window))

(* The first observation is kept whatever its age.                         *)
Kept(old, o, at) == IF old = <<>> \/ o.at >= at - Retention THEN Append(old, o) ELSE old
Retained(obs, at) == FoldLeft(LAMBDA old, o : Kept(old, o, at), <<>>, obs)

(* Mutant: every observation is coalesced.                                 *)
Observed_Always(obs, o) == IF obs # <<>> THEN Append(Front(obs), o) ELSE <<o>>

(* An observation soon after the last one takes its place.                 *)
Observed(obs, o) ==
    IF obs # <<>> /\ o.at - Last(obs).at < Coalesce
    THEN Append(Front(obs), o) ELSE Append(obs, o)

(* Mutant: a smaller amount counts as earned too.                          *)
CumAfter_Absolute(tr, u) ==
    IF tr.seen THEN tr.cum + AtLeast0(u - tr.last) + AtLeast0(tr.last - u) ELSE u

(* The first amount seen counts as earned since the opening, later ones by *)
(* what they add; what is missing was collected.                           *)
CumAfter(tr, u) == IF tr.seen THEN tr.cum + AtLeast0(u - tr.last) ELSE u

CollectedAfter(tr, u) == IF tr.seen THEN tr.collected + AtLeast0(tr.last - u) ELSE 0

(* The list begins where the position was opened, as far as that is known  *)
(* to the first scan.                                                      *)
Updated(tr, u, at, opened) ==
    LET cum == CumAfter(tr, u)
        obs == Retained(IF tr.seen THEN Observed(tr.obs, [at |-> at, cum |-> cum])
                        ELSE <<[at |-> opened, cum |-> 0], [at |-> at, cum |-> cum]>>, at)
    IN  [seen |-> TRUE, opened |-> opened, last |-> u, cum |-> cum,
         collected |-> CollectedAfter(tr, u), day |-> Rolling(obs, cum, at), obs |-> obs]

(* What a scan may take for the unclaimed amount.  Five calls read the     *)
(* growth of the pool; what moves between them may leave any amount        *)
(* (V3Fees).  When those reads fail, and the collect call too, the stored  *)
(* tokensOwed take its place (scan_chain_positions).                       *)
Readings(source) ==
    IF source = "POOL_FEE_GROWTH" THEN 0..(Unclaimed + MaxWrong) ELSE {fees.stored}

(* Where no evidence of the opening is found, the row's opening is kept,   *)
(* and the first scan's own time is taken (reconcile_scan).                *)
Openings == {0, IF tracker.seen THEN tracker.opened ELSE now}

Distance(x, y) == AtLeast0(x - y) + AtLeast0(y - x)

Observe(s, source) ==
    /\ scan[s].pc = "idle"
    /\ \E u \in Readings(source), opened \in Openings :
          /\ scan' = [scan EXCEPT ![s] = [@ EXCEPT !.pc = "load", !.at = now,
                                                   !.unclaimed = u, !.opened = opened]]
          /\ wrong' = wrong + Distance(u, Unclaimed)
    /\ wrong' <= MaxWrong
    /\ overlapped' = (overlapped \/ \E r \in Scanners : scan[r].pc # "idle")
    /\ UNCHANGED <<now, fees, tracker, past, thinned>>

LoadTracker(s) ==
    /\ scan[s].pc = "load"
    /\ scan' = [scan EXCEPT ![s] = [@ EXCEPT !.pc = "save", !.tracker = tracker]]
    /\ UNCHANGED <<now, fees, tracker, past, thinned, wrong, overlapped>>

Thins(tr, at) ==
    tr.seen /\ (at - Last(tr.obs).at < Coalesce \/ \E o \in ToSet(Tail(tr.obs)) : o.at < at - Retention)

SaveTracker(s) ==
    /\ scan[s].pc = "save"
    /\ thinned' = (thinned \/ Thins(scan[s].tracker, scan[s].at))
    /\ tracker' = Updated(scan[s].tracker, scan[s].unclaimed, scan[s].at, scan[s].opened)
    /\ scan' = [scan EXCEPT ![s] = Idle]
    /\ UNCHANGED <<now, fees, past, wrong, overlapped>>

(* The pass fails, or the process dies, before the setting is written.     *)
Abandon(s) ==
    /\ scan[s].pc # "idle"
    /\ scan' = [scan EXCEPT ![s] = Idle]
    /\ UNCHANGED <<now, fees, tracker, past, thinned, wrong, overlapped>>

ChainNext == Accrue \/ Book \/ Collect

ScanNext(s) ==
    \/ \E source \in Sources : Observe(s, source)
    \/ LoadTracker(s) \/ SaveTracker(s) \/ Abandon(s)

Next ==
    \/ ChainNext
    \/ \E d \in Spacings : Tick(d)
    \/ \E s \in Scanners : ScanNext(s)

Spec == Init /\ [][Next]_vars

--------------------------------------------------------------------------------
(***************************************************************************)
(* Properties.                                                             *)
(***************************************************************************)

(* What the tracker counts beyond what the pool paid is no more than what  *)
(* the readings were off by: each wrong amount costs its own error at most *)
(* and once, however it is followed by others, by collects, failed passes  *)
(* and restarts; with exact readings cumulative is a lower bound of the    *)
(* fees earned, and collected one of the fees paid out by collects         *)
(* ("collection lower bound").  Where two scans overlapped the same fees   *)
(* may count twice.                                                        *)
CountsRealFeesOnly ==
    ~overlapped => tracker.cum <= fees.earned + wrong /\ tracker.collected <= fees.paid + wrong

(* The rolling sum leaves out nothing that was first counted inside the    *)
(* window, even when observations were coalesced or dropped; and as long   *)
(* as every observation is still there it counts nothing that was already  *)
(* counted when the window began.                                          *)
PastAt(t) == IF t < 0 THEN 0 ELSE past[t]
LastAt == Last(tracker.obs).at
RollingIsWindow ==
    tracker.seen =>
        LET inWindow == tracker.cum - PastAt(LastAt - Window)
        IN tracker.day >= inWindow /\ (~thinned => tracker.day <= inWindow)

(* calendar_fee_metrics, today.                                            *)
After(obs, t) == {i \in DOMAIN obs : obs[i].at > t}
Today ==
    LET base == IF tracker.opened >= Midnight THEN 0
                ELSE IF Before(tracker.obs, Midnight) # {} THEN Baseline(tracker.obs, Midnight)
                ELSE IF After(tracker.obs, Midnight) # {}
                     THEN tracker.obs[Min(After(tracker.obs, Midnight))].cum
                ELSE tracker.cum
    IN  AtLeast0(tracker.cum - base)

(* "We cannot assign old cumulative fees to a newer calendar period.       *)
(* Understate rather than falsely count pre-period fees." (fee_metrics.py, *)
(* period): today's fees leave out what the tracker had counted before     *)
(* midnight.                                                               *)
TodayExcludesYesterday ==
    tracker.seen /\ now > Midnight => Today <= tracker.cum - past[Midnight - 1]
================================================================================
