------------------------------- MODULE MarketClient -------------------------------
(***************************************************************************)
(* GeckoTerminalClient._get, shared by every thread of the program without *)
(* a lock: an answer is reused while it is young, a 429 makes the provider *)
(* cool down, and older answers stand in while it does or when it fails.   *)
(*                                                                         *)
(* Time is relative, so it needs no bound: how old each saved answer is,   *)
(* up to an age that nothing accepts any more, and what is left of the     *)
(* cooldown.                                                               *)
(***************************************************************************)
EXTENDS Integers

CONSTANTS
    Callers,   \* threads that use the client: worker, HTTP handlers
    Candles,   \* requests for /ohlcv/; one cache key each
    Rows,      \* requests for pools, tokens and prices; one cache key each
    Young,     \* Young[k]: ticks for which an answer is simply reused
    Stale,     \* Stale[k]: ticks for which it may stand in for a new one
    Oldest,    \* an age that is too old for every kind; none is told from it
    Cooldowns  \* ticks of cooling down after a 429

Keys == Candles \cup Rows
AgesAreOrdered ==
    /\ Candles \cap Rows = {} /\ Oldest \in Nat /\ Cooldowns \subseteq Nat \ {0}
    /\ \A k \in Keys : /\ Young[k] \in Nat \ {0} /\ Stale[k] \in Nat
                       /\ Young[k] <= Stale[k] /\ Stale[k] <= Oldest
ASSUME AgeAssumption == AgesAreOrdered

Never == Oldest + 1
Attempts(k) == IF k \in Candles THEN 1 ELSE 2

VARIABLES
    age,     \* age[k]: of the answer saved under k; Never: there is none
    cooling, \* what is left until _blocked_until
    call,    \* local values of each caller's _get
    outrun   \* outrun[c]: requests sent by c since the provider began to cool down
marketVars == <<age, cooling, call, outrun>>

Quiet == [pc |-> "idle", key |-> "none", attempt |-> 0, mark |-> "none", age |-> Never]

MarketInit ==
    /\ age = [k \in Keys |-> Never]
    /\ cooling = 0
    /\ call = [c \in Callers |-> Quiet]
    /\ outrun = [c \in Callers |-> 0]

At(c, label) == call[c].pc = label
Answer(c, k, mark, old) ==
    call' = [call EXCEPT ![c] = [Quiet EXCEPT !.pc = "answered", !.key = k, !.mark = mark, !.age = old]]

Older(a) == IF a < Oldest THEN a + 1 ELSE a

(* Finished answers are forgotten first, so none grows older.              *)
Tick ==
    /\ \A c \in Callers : ~At(c, "answered")
    /\ age' = [k \in Keys |-> Older(age[k])]
    /\ cooling' = IF cooling = 0 THEN 0 ELSE cooling - 1
    /\ outrun' = IF cooling' = 0 THEN [c \in Callers |-> 0] ELSE outrun
    /\ call' = [c \in Callers |-> [call[c] EXCEPT !.age = Older(@)]]

Use(c) == At(c, "answered") /\ call' = [call EXCEPT ![c] = Quiet] /\ UNCHANGED <<age, cooling, outrun>>

(* Mutant: nobody looks at the cooldown.                                   *)
Cooling_Ignored == FALSE
Cooling == cooling > 0

(* Young enough, or cooling down and not too old; otherwise it is refused, *)
(* or the provider is asked.                                               *)
Ask(c, k) ==
    /\ At(c, "idle")
    /\ CASE age[k] < Young[k] -> Answer(c, k, "none", age[k])
         [] age[k] >= Young[k] /\ Cooling /\ age[k] < Stale[k] -> Answer(c, k, "cooldown", age[k])
         [] age[k] >= Young[k] /\ Cooling /\ age[k] >= Stale[k] -> Answer(c, k, "refused", Never)
         [] OTHER -> call' = [call EXCEPT ![c] = [Quiet EXCEPT !.pc = "send", !.key = k,
                                                  !.age = age[k]]]
    /\ UNCHANGED <<age, cooling, outrun>>

(* The gap between requests is slept off before each one.                  *)
Send(c) ==
    /\ At(c, "send")
    /\ call' = [call EXCEPT ![c].pc = "wait", ![c].attempt = @ + 1]
    /\ outrun' = IF cooling > 0 THEN [outrun EXCEPT ![c] = @ + 1] ELSE outrun
    /\ UNCHANGED <<age, cooling>>

Receive(c) ==
    /\ At(c, "wait")
    /\ age' = [age EXCEPT ![call[c].key] = 0]
    /\ Answer(c, call[c].key, "none", 0)
    /\ UNCHANGED <<cooling, outrun>>

(* Once more, or whatever is saved by now: another caller may have got it. *)
GiveUp(c, k) ==
    IF age[k] < Stale[k] THEN Answer(c, k, "fallback", age[k]) ELSE Answer(c, k, "refused", Never)
TryAgain(c) ==
    IF call[c].attempt < Attempts(call[c].key)
    THEN call' = [call EXCEPT ![c].pc = "send"] ELSE GiveUp(c, call[c].key)

(* What the call saw saved when it began is returned, however old it is;   *)
(* without it the call tries once more, into its own cooldown.             *)
RateLimited(c) ==
    /\ At(c, "wait")
    /\ \E d \in Cooldowns : cooling' = IF d > cooling THEN d ELSE cooling
    /\ IF call[c].age # Never THEN Answer(c, call[c].key, "limited", call[c].age) ELSE TryAgain(c)
    /\ UNCHANGED <<age, outrun>>

Fail(c) == At(c, "wait") /\ TryAgain(c) /\ UNCHANGED <<age, cooling, outrun>>

MarketNext ==
    \/ Tick
    \/ \E c \in Callers :
          \/ \E k \in Keys : Ask(c, k)
          \/ Send(c) \/ Receive(c) \/ RateLimited(c) \/ Fail(c) \/ Use(c)

MarketSpec == MarketInit /\ [][MarketNext]_marketVars

--------------------------------------------------------------------------------
(* "429 as a provider cooldown rather than something worth hammering       *)
(* harder" (__init__): while the provider cools down, only calls that were *)
(* under way send, and no more than what their attempts leave, however     *)
(* many threads keep asking and however often the cooldown is extended;    *)
(* and an answer that is not young is marked as such, and too old for its  *)
(* kind only when the provider has just refused this very call.            *)
CooldownIsKept ==
    \A c \in Callers :
        /\ outrun[c] <= 2
        /\ At(c, "answered") /\ call[c].mark # "refused" =>
              \/ call[c].mark = "none" /\ call[c].age < Young[call[c].key]
              \/ call[c].mark \in {"cooldown", "fallback"} /\ call[c].age < Stale[call[c].key]
              \/ call[c].mark = "limited" /\ cooling > 0
================================================================================
