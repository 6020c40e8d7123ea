------------------------------- MODULE ProfitHistory ------------------------------
(***************************************************************************)
(* Which price history a Profit Lab analysis of one pool is made with      *)
(* (_load_pool_and_history, hourly candles).  Sources are asked in turn,   *)
(* each may answer anything or fail, and what is used is saved for later   *)
(* loads.  A series is reduced to how long it is, to the price level its   *)
(* last day stands at (in the units of the pool or in other ones) and to   *)
(* its last candle.                                                        *)
(*                                                                         *)
(* Sizes: 0 under 12 candles, 1 under 24, 2 under 48, 3 from 48 on.        *)
(***************************************************************************)
EXTENDS Integers

CONSTANTS
    Levels,    \* price levels that are too far apart to match
    MaxAge,    \* hours, in ticks, for which a saved series is fresh
    MaxHour    \* bound on the clock

Short == 1
Floor == 2
Full == 3

VARIABLES hour, spot, saved, load
historyVars == <<hour, spot, saved, load>>

Pairs == {"unknown", "stable", "major", "volatile"}
NoSeries == [size |-> 0, level |-> 0, latest |-> 0]
Series == {NoSeries} \cup [size : Short..Full, level : Levels, latest : 0..MaxHour]
Answers == {s \in Series : s.latest <= hour}
NoLoad == [pc |-> "idle", ok |-> FALSE, pair |-> "unknown", from |-> "none",
           candles |-> NoSeries, cached |-> NoSeries, observed |-> NoSeries,
           ohlc |-> NoSeries, fallback |-> NoSeries]

HistoryInit ==
    /\ hour = 0
    /\ spot = CHOOSE l \in Levels : TRUE
    /\ saved = NoSeries
    /\ load = NoLoad

--------------------------------------------------------------------------------
(* The lens of the chain is the only live price: without it everything     *)
(* passes for a match.                                                     *)
Matches(s) == ~load.ok \/ s.level = spot
IsFresh_BySave(s) == s.size > 0
IsFresh(s) == s.size > 0 /\ hour - s.latest <= MaxAge

Usable(s, least) == s.size >= least /\ Matches(s)
StableQuote == load.pair \in {"stable", "major"}
Missing == load.candles.size = 0

Move(from, to) == load.pc = from /\ load' = [load EXCEPT !.pc = to]
Take(from, to, s, source) ==
    /\ load.pc = from
    /\ load' = [load EXCEPT !.pc = to, !.candles = s, !.from = source]
Still == UNCHANGED <<hour, spot, saved>>

Tick ==
    /\ load.pc \in {"idle", "served", "refused"} /\ hour < MaxHour
    /\ hour' = hour + 1
    /\ spot' \in Levels
    /\ load' = NoLoad
    /\ UNCHANGED saved

(* Neither the chain nor the market may know the pool.                     *)
BeginLoad ==
    /\ load.pc = "idle"
    /\ \E ok, known \in BOOLEAN, p \in Pairs :
           load' = [NoLoad EXCEPT !.ok = ok, !.pair = p,
                    !.pc = IF ~ok /\ ~known THEN "refused" ELSE IF ok THEN "alchemy" ELSE "symbol"]
    /\ Still

AskAlchemy ==
    /\ \/ \E s \in Answers : Usable(s, Full) /\ Take("alchemy", "symbol", s, "alchemy")
       \/ Move("alchemy", "symbol")
    /\ Still

AskSymbol ==
    /\ \/ /\ Missing /\ load.pair = "major"
          /\ \E s \in Answers : Usable(s, Full) /\ Take("symbol", "cached", s, "symbol")
       \/ Move("symbol", "cached")
    /\ Still

ReadSaved ==
    /\ load.pc = "cached"
    /\ LET use == Missing /\ Usable(saved, Full) /\ IsFresh(saved)
       IN load' = [load EXCEPT !.pc = "observe", !.cached = saved,
                   !.candles = IF use THEN saved ELSE @, !.from = IF use THEN "saved" ELSE @]
    /\ Still

Observe ==
    /\ load.pc = "observe"
    /\ \/ load' = [load EXCEPT !.pc = "ohlc"]
       \/ /\ Missing /\ load.ok
          /\ \E s \in Answers :
                LET use == Usable(s, Floor)
                IN load' = [load EXCEPT !.pc = "ohlc", !.observed = s,
                            !.candles = IF use THEN s ELSE @, !.from = IF use THEN "observe" ELSE @]
    /\ Still

AskOhlc ==
    /\ \/ /\ load.pc = "ohlc" /\ Missing /\ (StableQuote \/ load.pair = "unknown")
          /\ \E s \in Answers :
                load' = [load EXCEPT !.pc = "again", !.candles = s, !.ohlc = s, !.from = "ohlc"]
       \/ Move("ohlc", "again")
    /\ Still

(* A long series replaces a short one, in whatever units.                  *)
AskAlchemyAgain ==
    /\ \/ /\ load.pc = "again" /\ load.candles.size < Full /\ load.ok
          /\ \E s \in Answers :
                /\ s.size = Full
                /\ load' = [load EXCEPT !.pc = "settle", !.candles = s, !.fallback = s,
                                        !.from = "again"]
       \/ Move("again", "settle")
    /\ Still

(* What a load ends with: a long series of other units is dropped, and a   *)
(* short one is better than none.  The save at the end may fail.           *)
Sane(s) == ~(s.size = Full /\ ~Matches(s))
ShortFallback(s) == Usable(s, Short)
Settled ==
    LET kept == IF Sane(load.candles) THEN load.candles ELSE NoSeries
        spare == kept.size < Floor /\ Usable(load.cached, Floor) /\ IsFresh(load.cached)
        brief == kept.size < Floor /\ ~spare /\ ShortFallback(load.observed)
    IN CASE spare -> [candles |-> load.cached, from |-> "saved"]
         [] brief -> [candles |-> load.observed, from |-> "short"]
         [] OTHER -> [candles |-> kept, from |-> load.from]

Settle ==
    /\ load.pc = "settle"
    /\ LET s == Settled
           good == s.candles.size >= IF s.from = "short" THEN Short ELSE Floor
       IN /\ load' = [load EXCEPT !.pc = IF good THEN "served" ELSE "refused",
                      !.candles = s.candles, !.from = s.from]
          /\ saved' \in IF good THEN {saved, s.candles} ELSE {saved}
    /\ UNCHANGED <<hour, spot>>

HistoryNext ==
    \/ Tick \/ BeginLoad \/ AskAlchemy \/ AskSymbol \/ ReadSaved \/ Observe
    \/ AskOhlc \/ AskAlchemyAgain \/ Settle

--------------------------------------------------------------------------------
(* The ranges of an analysis are set around the live price, so a history   *)
(* of other units would make every one of them wrong; and a series goes    *)
(* through the saved copy again and again without getting any younger.  A  *)
(* full history is in the units of the pool whichever source it came from, *)
(* a saved one is served no longer than MaxAge after its last candle, and  *)
(* a load fails only when it held no series that could have been served,   *)
(* but for the pool's own candles when they are less than two days' and a  *)
(* longer series in other units took their place, to be dropped in turn.   *)
HistoryIsUsable ==
    /\ load.pc = "served" =>
          /\ load.ok /\ load.candles.size = Full => load.candles.level = spot
          /\ load.from = "saved" => hour - load.candles.latest <= MaxAge
    /\ load.pc = "refused" =>
          /\ ~Usable(load.observed, Short)
          /\ ~(Usable(load.cached, Floor) /\ hour - load.cached.latest <= MaxAge)
          /\ Usable(load.ohlc, Floor) => load.fallback.size = Full /\ ~Matches(load.fallback)
================================================================================
