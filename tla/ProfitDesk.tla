-------------------------------- MODULE ProfitDesk --------------------------------
(***************************************************************************)
(* The recommendation request of Profit Lab: one computation at a time,    *)
(* short reuse of the last result under the same key, and the last         *)
(* result, labelled stale, when a computation fails.  The pool of a result *)
(* is the one selected, the one asked for or another fee tier of its pair. *)
(* The days of history a client may ask for are not in the key under which *)
(* a result is saved; the page never sends them.  The advisor's            *)
(* evidence for the pool is read before the lock is taken; the store is    *)
(* written in four steps, each of which may fail.                          *)
(*                                                                         *)
(* Time is in ticks of 20 seconds.                                         *)
(***************************************************************************)
EXTENDS Integers

CONSTANTS
    Askers,     \* HTTP threads
    Questions,  \* what a request may ask
    KeyOf,      \* its chain, pool, horizon, sleeve, capital, target, campaign, thesis
    PoolOf,     \* the pool it asks for
    Reuse,      \* ticks for which a result is recent (20 seconds)
    MaxSecond   \* bound on the clock

VARIABLES tick, results, lastResult, holder, asks
labVars == <<tick, results, lastResult, holder, asks>>

Keys == {KeyOf[q] : q \in Questions}
Nobody == "nobody"
NoResult == [at |-> -1]
NoAsk == [pc |-> "idle", advised |-> FALSE, label |-> "ERROR", result |-> NoResult]

Answered(r) == r # NoResult

LabInit ==
    /\ tick = 0
    /\ results = [k \in Keys |-> NoResult]
    /\ lastResult = NoResult
    /\ holder = Nobody
    /\ asks = [a \in Askers |-> NoAsk]

--------------------------------------------------------------------------------
Step(a, from, ask) == asks[a].pc = from /\ asks' = [asks EXCEPT ![a] = ask]
Goto(a, from, to) == Step(a, from, [asks[a] EXCEPT !.pc = to])
Answer(a, from, label, r) ==
    /\ Step(a, from, [asks[a] EXCEPT !.pc = "answered", !.label = label, !.result = r])
    /\ holder' = Nobody

Second ==
    /\ tick < MaxSecond /\ tick' = tick + 1
    /\ asks' = [a \in Askers |-> IF asks[a].pc = "answered" THEN NoAsk ELSE asks[a]]
    /\ UNCHANGED <<results, lastResult, holder>>

AskFor(a, q) ==
    /\ \E advised \in BOOLEAN :
          Step(a, "idle", [pc |-> "waiting", of |-> q, advised |-> advised,
                           label |-> "ERROR", result |-> NoResult])
    /\ UNCHANGED <<tick, results, lastResult, holder>>

TakeLock_Shared(a) ==
    /\ Goto(a, "waiting", "looking") /\ UNCHANGED <<tick, results, lastResult, holder>>
TakeLock(a) ==
    /\ holder = Nobody /\ Goto(a, "waiting", "looking") /\ holder' = a
    /\ UNCHANGED <<tick, results, lastResult>>

(* A recent result without fees is not good enough while the advisor has   *)
(* an estimate for the pool.                                               *)
Recent(k, advised) ==
    /\ Answered(results[k])
    /\ tick - results[k].at < Reuse
    /\ ~(advised /\ ~results[k].fees)

Look(a) ==
    /\ asks[a].pc = "looking"
    /\ LET k == KeyOf[asks[a].of]
       IN IF Recent(k, asks[a].advised) THEN Answer(a, "looking", "REUSED", results[k])
          ELSE Goto(a, "looking", "computing") /\ UNCHANGED holder
    /\ UNCHANGED <<tick, results, lastResult>>

Compute(a) ==
    /\ \/ \E fees \in BOOLEAN, pool \in {PoolOf[q] : q \in Questions} :
             Step(a, "computing", [asks[a] EXCEPT !.pc = "snapshot",
                  !.result = [at |-> tick, of |-> asks[a].of, pool |-> pool,
                              fees |-> fees, mine |-> a]])
       \/ Goto(a, "computing", "failed")
    /\ UNCHANGED <<tick, results, lastResult, holder>>

(* Any of the writes may fail (a locked database), which is then treated   *)
(* like a computation that failed.                                         *)
RecordSnapshot(a) ==
    /\ Goto(a, "snapshot", "last") \/ Goto(a, "snapshot", "failed")
    /\ UNCHANGED <<tick, results, lastResult, holder>>

SetLast(a) ==
    /\ \/ Goto(a, "last", "own") /\ lastResult' = asks[a].result
       \/ Goto(a, "last", "failed") /\ lastResult' \in {lastResult, asks[a].result}
    /\ UNCHANGED <<tick, results, holder>>

SetOwn(a) ==
    \/ /\ Answer(a, "own", "LIVE", asks[a].result)
       /\ results' = [results EXCEPT ![KeyOf[asks[a].of]] = asks[a].result]
       /\ UNCHANGED <<tick, lastResult>>
    \/ Goto(a, "own", "failed") /\ UNCHANGED <<tick, results, lastResult, holder>>

SamePool_Any(r, q) == Answered(r)
SamePool(r, q) == Answered(r) /\ r.pool = PoolOf[q]
FallBack(a) ==
    /\ asks[a].pc = "failed"
    /\ LET q == asks[a].of
           k == KeyOf[q]
       IN IF Answered(results[k]) THEN Answer(a, "failed", "STALE", results[k])
          ELSE IF SamePool(lastResult, q) THEN Answer(a, "failed", "STALE", lastResult)
          ELSE Answer(a, "failed", "ERROR", NoResult)
    /\ UNCHANGED <<tick, results, lastResult>>

AskNext(a) ==
    \/ \E q \in Questions : AskFor(a, q)
    \/ TakeLock(a) \/ Look(a) \/ Compute(a) \/ RecordSnapshot(a) \/ SetLast(a)
    \/ SetOwn(a) \/ FallBack(a)
LabNext == Second \/ \E a \in Askers : AskNext(a)

--------------------------------------------------------------------------------
(* The panel shows an amount to deploy and a range.  What it calls live    *)
(* was computed for that very question by that request; what it calls      *)
(* reused has its key and is younger than Reuse; what it calls stale has   *)
(* its key or at least selects the pool asked for; and a question with a   *)
(* saved result is never refused.                                          *)
AnswersAreLabelled ==
    [][\A a \in Askers : asks[a].pc # "answered" /\ asks'[a].pc = "answered" =>
        LET r == asks'[a].result
            q == asks'[a].of
        IN CASE asks'[a].label = "LIVE" -> r.of = q /\ r.mine = a
             [] asks'[a].label = "REUSED" -> KeyOf[r.of] = KeyOf[q] /\ tick - r.at < Reuse
             [] asks'[a].label = "STALE" -> KeyOf[r.of] = KeyOf[q] \/ r.pool = PoolOf[q]
             [] OTHER -> ~Answered(results[KeyOf[q]])]_labVars

(* Every computation costs scarce provider requests: of two requests for   *)
(* the same key at the same time the later one gets the result of the      *)
(* earlier one, unless that has no fees.                                   *)
OneComputationPerBurst ==
    \A a \in Askers : asks[a].pc = "computing" =>
        LET r == results[KeyOf[asks[a].of]]
        IN ~(Answered(r) /\ r.fees /\ tick - r.at < Reuse)
================================================================================
